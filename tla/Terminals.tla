------------------------------ MODULE Terminals ------------------------------
(***************************************************************************)
(* A tile pane's terminal (userland tile/src/vt.rs) as operators on a       *)
(* record, in the abstractions of FbConsole: bytes, numbers and attributes  *)
(* are the same. Then a program's output on the console and in a pane of    *)
(* the same size, byte by byte. Left out is what the programs here do not   *)
(* compose themselves, though cat passes it on from any file, and what the  *)
(* two treat differently: control bytes without a meaning (a tab), and      *)
(* bytes outside ASCII in the middle of an escape sequence.                 *)
(***************************************************************************)
EXTENDS Integers, Sequences, SequencesExt

CONSTANTS vcols, vrows, VT_PARAMS,
          Alphabets   \* sets of bytes, one of which the output is made of

Plain == [ch |-> " ", rev |-> FALSE]
Spelled == [n1 |-> 1, n2 |-> 2, n7 |-> 7, n25 |-> 25, n27 |-> 27]
Multibyte == [two |-> 1, three |-> 2]

\* The grid is one vector, row after row.
NewVt ==
  [cells |-> [i \in 1 .. vcols * vrows |-> Plain], cx |-> 0, cy |-> 0, rev |-> FALSE,
   cursor_visible |-> TRUE, state |-> "Normal", need |-> 0, params |-> <<>>, private |-> FALSE]

cell(v, x, y) == v.cells[(y * vcols + x) + 1]
set(v, x, y, new) == [v EXCEPT !.cells[(y * vcols + x) + 1] = new]

\* From (x, y) along the row.
erase(v, x, y, count) ==
  LET end == IF x + count < vcols THEN x + count ELSE vcols
  IN  [v EXCEPT !.cells = [i \in DOMAIN @ |->
        IF i > y * vcols + x /\ i <= y * vcols + end THEN Plain ELSE @[i]]]

erase_rows(v, from, to) ==
  [v EXCEPT !.cells = [i \in DOMAIN @ |->
     IF i > from * vcols /\ i <= to * vcols THEN Plain ELSE @[i]]]

scroll_up(v) ==
  [v EXCEPT !.cells = SubSeq(@, vcols + 1, Len(@)) \o [i \in 1 .. vcols |-> Plain]]

next_row(v) ==
  IF v.cy + 1 >= vrows THEN [scroll_up(v) EXCEPT !.cy = vrows - 1] ELSE [v EXCEPT !.cy = @ + 1]

put(v, ch) ==
  LET w == [set(v, v.cx, v.cy, [ch |-> ch, rev |-> v.rev]) EXCEPT !.cx = @ + 1]
  IN  IF w.cx >= vcols THEN next_row([w EXCEPT !.cx = 0]) ELSE w

-----------------------------------------------------------------------------
LOCAL Least(a, b) == IF a < b THEN a ELSE b
LOCAL Most(a, b) == IF a > b THEN a ELSE b

vt_param_or(v, n, fallback) ==
  IF n > Len(v.params) THEN fallback ELSE IF v.params[n] = 0 THEN fallback ELSE v.params[n]

\* What the last parameter that says anything of it makes of reverse video.
Reversed(v) ==
  LET said == SelectSeq(v.params, LAMBDA p : p \in {0, 7, 27})
  IN  IF v.params = <<>> THEN FALSE ELSE IF said = <<>> THEN v.rev ELSE Last(said) = 7

csi(v, fin) ==
  LET mode == IF v.params = <<>> THEN 0 ELSE v.params[1]
      n == vt_param_or(v, 1, 1)
  IN  CASE fin = "H" -> [v EXCEPT !.cy = Least(n - 1, vrows - 1),
                                  !.cx = Least(vt_param_or(v, 2, 1) - 1, vcols - 1)]
        [] fin = "A" -> [v EXCEPT !.cy = Most(@ - n, 0)]
        [] fin = "B" -> [v EXCEPT !.cy = Least(@ + n, vrows - 1)]
        [] fin = "C" -> [v EXCEPT !.cx = Least(@ + n, vcols - 1)]
        [] fin = "D" -> [v EXCEPT !.cx = Most(@ - n, 0)]
        [] fin = "J" -> CASE mode = 2 -> erase_rows(v, 0, vrows)
                          [] mode = 1 -> erase(erase_rows(v, 0, v.cy), 0, v.cy, v.cx + 1)
                          [] OTHER -> erase_rows(erase(v, v.cx, v.cy, vcols - v.cx), v.cy + 1, vrows)
        [] fin = "K" -> CASE mode = 2 -> erase(v, 0, v.cy, vcols)
                          [] mode = 1 -> erase(v, 0, v.cy, v.cx + 1)
                          [] OTHER -> erase(v, v.cx, v.cy, vcols - v.cx)
        [] fin = "m" -> [v EXCEPT !.rev = Reversed(v)]
        [] OTHER -> v

\* ?25h and ?25l.
private_csi(v, fin) ==
  IF v.params # <<>> /\ fin \in {"h", "l"} /\ Head(v.params) = 25
  THEN [v EXCEPT !.cursor_visible = (fin = "h")] ELSE v

ByteCsi(v, b) ==
  LET some == IF v.params = <<>> THEN <<0>> ELSE v.params
  IN  CASE b = "?" /\ v.params = <<>> -> [v EXCEPT !.private = TRUE]
        [] b \in DOMAIN Spelled -> [v EXCEPT !.params = [some EXCEPT ![Len(some)] = Spelled[b]]]
        [] b = ";" -> [v EXCEPT !.params = IF Len(some) < VT_PARAMS THEN Append(some, 0) ELSE some]
        [] OTHER -> [(IF v.private THEN private_csi(v, b) ELSE csi(v, b))
                       EXCEPT !.state = "Normal", !.params = <<>>, !.private = FALSE]

ByteNormal(v, b) ==
  CASE b = "ESC" -> [v EXCEPT !.state = "Esc"]
    [] b = "LF" -> next_row([v EXCEPT !.cx = 0])
    [] b = "CR" -> [v EXCEPT !.cx = 0]
    [] b = "BS" -> IF v.cx = 0 THEN v
                   ELSE set([v EXCEPT !.cx = @ - 1], v.cx - 1, v.cy, [ch |-> " ", rev |-> v.rev])
    [] b = "control" -> v
    [] OTHER -> put(v, b)

\* The part of byte() after a character in progress was finished or given up.
ByteFresh(v, b) ==
  CASE b \in DOMAIN Multibyte -> [v EXCEPT !.need = Multibyte[b]]
    [] b \in {"cont", "bad"} -> put(v, "?")
    [] v.state = "Esc" -> IF b = "[" THEN [v EXCEPT !.state = "Csi", !.params = <<>>, !.private = FALSE]
                          ELSE [v EXCEPT !.state = "Normal"]
    [] v.state = "Csi" -> ByteCsi(v, b)
    [] OTHER -> ByteNormal(v, b)

byte(v, b) ==
  CASE v.need > 0 /\ b = "cont" ->
         IF v.need = 1 THEN put([v EXCEPT !.need = 0], "u") ELSE [v EXCEPT !.need = @ - 1]
    [] v.need > 0 /\ b # "cont" -> ByteFresh(put([v EXCEPT !.need = 0], "?"), b)
    [] OTHER -> ByteFresh(v, b)

-----------------------------------------------------------------------------
(* Both terminals. *)

VARIABLES con, vt, alphabet

vars == <<con, vt, alphabet>>

\* The console of that size, outside a batch.
Fb == INSTANCE FbConsole WITH cols <- vcols, rows <- vrows, MAX_PARAMS <- VT_PARAMS,
  Bytes <- {}, MaxBatch <- 0, batching <- FALSE, batch_dirty <- FALSE, batched <- 0

Init == con = Fb!NewConsole /\ vt = NewVt /\ alphabet \in Alphabets

\* sink() on the one, feed() on the other.
Feed(b) == con' = Fb!flush(Fb!putc(con, b)) /\ vt' = byte(vt, b) /\ UNCHANGED alphabet

Ordinary(b) == b \in Fb!High => con.parse = "Normal"

Next == \E b \in alphabet : Ordinary(b) /\ Feed(b)

Spec == Init /\ [][Next]_vars

-----------------------------------------------------------------------------
=============================================================================
