------------------------------ MODULE FbConsole ------------------------------
(***************************************************************************)
(* The framebuffer console (console/fbconsole.rs). First, as operators on a *)
(* record: the grid it draws into, the cursor, the parser of escape         *)
(* sequences and of UTF-8, and the rectangle drawn since the last flush.    *)
(* Pixels are abstracted to cells, the attributes of a cell to reverse      *)
(* video, and a run of digits to the number it spells. stale is no variable *)
(* of the code: the cells whose drawing has not reached the screen.         *)
(*                                                                          *)
(* Then its callers: the kernel log and typed input go through sink(), a    *)
(* byte at a time, shown at once; a program's write() is a batch of them,   *)
(* shown at its end (exec/syscall.rs sys_write); the kernel shell's clear   *)
(* and the splash screen draw and leave the showing to what comes next.     *)
(***************************************************************************)
EXTENDS Integers, Sequences

CONSTANTS cols, rows, MAX_PARAMS

Grid == (0 .. cols - 1) \X (0 .. rows - 1)
BLANK == [ch |-> " ", rev |-> FALSE]
Number == [n1 |-> 1, n2 |-> 2, n7 |-> 7, n25 |-> 25, n27 |-> 27]
Lead == [two |-> 1, three |-> 2]
NoRect == <<0, 0, 0, 0>>

NewConsole ==
  [cells |-> [p \in Grid |-> BLANK], col |-> 0, row |-> 0, rev |-> FALSE,
   parse |-> "Normal", params |-> <<>>, private |-> FALSE, need |-> 0,
   dirty |-> NoRect, stale |-> {}]

LOCAL Least(a, b) == IF a < b THEN a ELSE b
LOCAL Most(a, b) == IF a > b THEN a ELSE b

-----------------------------------------------------------------------------
(* Drawing. *)

\* [x0, x1) x [y0, y1) in cells, empty when x0 >= x1.
mark_dirty(d, x, y, w, h) ==
  IF d[1] >= d[3] THEN <<x, y, x + w, y + h>>
  ELSE <<Least(d[1], x), Least(d[2], y), Most(d[3], x + w), Most(d[4], y + h)>>

InRect(d) == {p \in Grid : d[1] <= p[1] /\ p[1] < d[3] /\ d[2] <= p[2] /\ p[2] < d[4]}

\* Whatever is drawn is drawn in RAM; flush() copies the rectangle to the screen.
Draw(c, new, x, y, w, h) ==
  [c EXCEPT !.cells = [p \in Grid |-> IF p \in DOMAIN new THEN new[p] ELSE @[p]],
            !.dirty = mark_dirty(@, x, y, w, h),
            !.stale = @ \cup DOMAIN new]

flush(c) == IF c.dirty[1] >= c.dirty[3] THEN c
            ELSE [c EXCEPT !.dirty = NoRect, !.stale = @ \ InRect(c.dirty)]

draw_glyph(c, x, y, ch) ==
  Draw(c, [p \in {<<x, y>>} |-> [ch |-> ch, rev |-> c.rev]], x, y, 1, 1)

\* Always to the background colour, never to a space in reverse video.
erase_cells(c, x, y, count) ==
  LET n == Least(count, cols - x)
      new == [p \in (x .. x + n - 1) \X {y} |-> BLANK]
  IN  IF x >= cols \/ count = 0 THEN c ELSE Draw(c, new, x, y, n, 1)

scroll(c) ==
  LET new == [p \in Grid |-> IF p[2] = rows - 1 THEN BLANK ELSE c.cells[<<p[1], p[2] + 1>>]]
  IN  Draw(c, new, 0, 0, cols, rows)

\* A character half decoded survives it: utf8_need is not reset.
clear(c) ==
  [Draw(c, [p \in Grid |-> BLANK], 0, 0, cols, rows)
     EXCEPT !.col = 0, !.row = 0, !.rev = FALSE, !.parse = "Normal"]

newline(c) ==
  IF c.row + 1 >= rows THEN [scroll(c) EXCEPT !.col = 0, !.row = rows - 1]
  ELSE [c EXCEPT !.col = 0, !.row = @ + 1]

\* Wraps as soon as the last column is drawn.
put_glyph(c, ch) ==
  LET d == draw_glyph(c, c.col, c.row, ch)
  IN  IF c.col + 1 >= cols THEN newline([d EXCEPT !.col = @ + 1]) ELSE [d EXCEPT !.col = @ + 1]

-----------------------------------------------------------------------------
(* Escape sequences. *)

param_or(c, n, fallback) ==
  IF n > Len(c.params) THEN fallback ELSE IF c.params[n] = 0 THEN fallback ELSE c.params[n]

\* Rows from, ..., to - 1, one after the other.
EraseRows(c, from, to) ==
  LET after[y \in from .. to] == IF y = from THEN c ELSE erase_cells(after[y - 1], 0, y - 1, cols)
  IN  IF from > to THEN c ELSE after[to]

SelectGraphic(c) ==
  LET after[n \in 0 .. Len(c.params)] ==
        IF n = 0 THEN c.rev
        ELSE CASE c.params[n] \in {0, 27} -> FALSE
               [] c.params[n] = 7 -> TRUE
               [] OTHER -> after[n - 1]
  IN  IF c.params = <<>> THEN FALSE ELSE after[Len(c.params)]

handle_csi(c, fin) ==
  LET mode == IF c.params = <<>> THEN 0 ELSE c.params[1]
      n == param_or(c, 1, 1)
  IN  CASE fin = "H" -> [c EXCEPT !.row = Least(n - 1, rows - 1),
                                  !.col = Least(param_or(c, 2, 1) - 1, cols - 1)]
        [] fin = "A" -> [c EXCEPT !.row = Most(@ - n, 0)]
        [] fin = "B" -> [c EXCEPT !.row = Least(@ + n, rows - 1)]
        [] fin = "C" -> [c EXCEPT !.col = Least(@ + n, cols - 1)]
        [] fin = "D" -> [c EXCEPT !.col = Most(@ - n, 0)]
        [] fin = "J" /\ mode = 2 -> EraseRows(c, 0, rows)
        [] fin = "J" /\ mode = 1 -> erase_cells(EraseRows(c, 0, c.row), 0, c.row, c.col + 1)
        [] fin = "J" -> EraseRows(erase_cells(c, c.col, c.row, cols - c.col), c.row + 1, rows)
        [] fin = "K" /\ mode = 2 -> erase_cells(c, 0, c.row, cols)
        [] fin = "K" /\ mode = 1 -> erase_cells(c, 0, c.row, c.col + 1)
        [] fin = "K" -> erase_cells(c, c.col, c.row, cols - c.col)
        [] fin = "m" -> [c EXCEPT !.rev = SelectGraphic(c)]
        [] OTHER -> c

Separate(ps) ==
  LET some == IF ps = <<>> THEN <<0>> ELSE ps
  IN  IF Len(some) < MAX_PARAMS THEN Append(some, 0) ELSE some

\* A number's digits go to the last parameter.
Digits(ps, k) == IF ps = <<>> THEN <<k>> ELSE [ps EXCEPT ![Len(ps)] = k]

PutEscape(c, b) ==
  IF b = "[" THEN [c EXCEPT !.parse = "Csi", !.params = <<>>, !.private = FALSE]
  ELSE [c EXCEPT !.parse = "Normal"]

\* The parameters are forgotten here rather than when the next sequence starts.
PutCsi(c, b) ==
  CASE b = "?" /\ c.params = <<>> -> [c EXCEPT !.private = TRUE]
    [] b \in DOMAIN Number -> [c EXCEPT !.params = Digits(@, Number[b])]
    [] b = ";" -> [c EXCEPT !.params = Separate(@)]
    [] OTHER -> [(IF c.private THEN c ELSE handle_csi(c, b))
                   EXCEPT !.parse = "Normal", !.params = <<>>, !.private = FALSE]

-----------------------------------------------------------------------------
(* putc().  Of the bytes outside ASCII: two and three lead characters of two  *)
(* and of three bytes, cont continues one, and bad is neither.                *)

High == {"two", "three", "cont", "bad"}

PutByte(c, b) ==
  CASE b \in DOMAIN Lead -> [c EXCEPT !.need = Lead[b]]
    [] b \in {"cont", "bad"} -> put_glyph(c, "?")
    [] b = "ESC" -> [c EXCEPT !.parse = "Esc"]
    [] b = "CR" -> [c EXCEPT !.col = 0]
    [] b = "BS" -> IF c.col = 0 THEN c ELSE draw_glyph([c EXCEPT !.col = @ - 1], c.col - 1, c.row, " ")
    [] b = "LF" -> newline(c)
    [] OTHER -> put_glyph(c, b)

putc(c, b) ==
  CASE c.parse = "Esc" -> PutEscape(c, b)
    [] c.parse = "Csi" -> PutCsi(c, b)
    [] c.need > 0 /\ b = "cont" ->
         IF c.need = 1 THEN put_glyph([c EXCEPT !.need = 0], "u") ELSE [c EXCEPT !.need = @ - 1]
    [] c.need > 0 /\ b # "cont" -> PutByte(put_glyph([c EXCEPT !.need = 0], "?"), b)
    [] OTHER -> PutByte(c, b)

-----------------------------------------------------------------------------
(* The callers. *)

CONSTANTS Bytes,     \* what is printed
          MaxBatch   \* bytes of one write()

VARIABLES con, batching, batch_dirty, batched

vars == <<con, batching, batch_dirty, batched>>

Init == con = NewConsole /\ batching = FALSE /\ batch_dirty = FALSE /\ batched = 0

sink(b) ==
  /\ batching => batched < MaxBatch
  /\ con' = IF batching THEN putc(con, b) ELSE flush(putc(con, b))
  /\ batch_dirty' = (batch_dirty \/ batching)
  /\ batched' = IF batching THEN batched + 1 ELSE 0
  /\ UNCHANGED batching

begin_batch == ~batching /\ batching' = TRUE /\ batched' = 0 /\ UNCHANGED <<con, batch_dirty>>

end_batch ==
  /\ batching /\ batching' = FALSE
  /\ con' = IF batch_dirty THEN flush(con) ELSE con
  /\ batch_dirty' = FALSE /\ batched' = 0

Clear == ~batching /\ con' = clear(con) /\ UNCHANGED <<batching, batch_dirty, batched>>

draw_text_at(x, y) ==
  /\ ~batching /\ con' = draw_glyph(con, x, y, "A")
  /\ UNCHANGED <<batching, batch_dirty, batched>>

Next == \/ \E b \in Bytes : sink(b)
        \/ begin_batch \/ end_batch \/ Clear
        \/ \E p \in Grid : draw_text_at(p[1], p[2])

Spec == Init /\ [][Next]_vars

-----------------------------------------------------------------------------
(* Properties. *)

\* Whatever has been drawn and is not on the screen lies in the rectangle the next
\* flush copies: scrolling, erasing, clearing and drawing, in any order, never
\* leave a cell that no flush will show (fbconsole.rs:131-144, and the callers of
\* mark_dirty).
NothingUnshown == con.stale \subseteq InRect(con.dirty)

\* The cursor stays in the grid and the parameters in their array, so drawing
\* never leaves the framebuffer and no sequence makes the kernel index past the
\* array (fbconsole.rs:237-302, 326-367).
InBounds == /\ <<con.col, con.row>> \in Grid
            /\ Len(con.params) <= MAX_PARAMS
=============================================================================
