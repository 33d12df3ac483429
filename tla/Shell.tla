-------------------------------- MODULE Shell --------------------------------
(***************************************************************************)
(* sh (userland sh/src/lib.rs, editor.rs, history.rs, complete.rs): the     *)
(* line editor with its history walk, suggestions and completion list, the  *)
(* history kept in a file, and the loop that reads a line and runs it.      *)
(* Characters are "a", "b" and the space.  The words that can be completed  *)
(* are a sorted constant.  Which command a line holds is any of them; of    *)
(* what it does, the changes to the file system and their sync are kept.    *)
(***************************************************************************)
EXTENDS Integers, Sequences, SequencesExt

CONSTANTS Typed,        \* characters typed
          Words,        \* what a word may complete to, sorted; every one a command
          AVAIL,        \* columns for the line
          COLUMNS,      \* of the completion list
          LIST_ROWS,    \* of it on the screen
          MAX,          \* history entries kept
          MaxLen,       \* of a line
          MaxArgs,      \* of a command
          Kept          \* what the history file may hold at first

VARIABLES ed,           \* Editor
          items,        \* History
          file,         \* /.sh_history
          at,           \* where main() is: "prompt", "ended", or what of a command is left
          left,         \* each(): arguments to go
          changed       \* a builtin has changed the tree since the last sync

vars == <<ed, items, file, at, left, changed>>

SP == " "
NoEntry == -1
NoList == [open |-> FALSE, cands |-> <<>>, sel |-> NoEntry, start |-> 0, top |-> 0]
NoPrefix == <<"none">>
NewLine == [buf |-> <<>>, cur |-> 0, scroll |-> 0, hist_pos |-> NoEntry, hist_prefix |-> NoPrefix, list |-> NoList]

Upto(s, n) == SubSeq(s, 1, n)
From(s, n) == SubSeq(s, n + 1, Len(s))

-----------------------------------------------------------------------------
(* history.rs *)

Blank(s) == \A i \in DOMAIN s : s[i] = SP
trim(s) ==
  LET solid == {i \in DOMAIN s : s[i] # SP}
      first == CHOOSE i \in solid : \A j \in solid : i <= j
      last == CHOOSE i \in solid : \A j \in solid : i >= j
  IN  IF solid = {} THEN <<>> ELSE SubSeq(s, first, last)

LastOf(s) == IF Len(s) > MAX THEN From(s, Len(s) - MAX) ELSE s

add(h, s) == LastOf(Append(SelectSeq(h, LAMBDA l : l # trim(s)), trim(s)))

FirstWord(s) == Upto(s, CHOOSE n \in 0 .. Len(s) : SP \notin Range(Upto(s, n)) /\ (n < Len(s) => s[n + 1] = SP))

suggest(prefix) ==
  LET fits == {i \in DOMAIN items : Len(items[i]) > Len(prefix) /\ IsPrefix(prefix, items[i])
                                    /\ \E w \in DOMAIN Words : Words[w] = FirstWord(items[i])}
  IN  IF prefix = <<>> \/ fits = {} THEN NoEntry ELSE CHOOSE i \in fits : \A j \in fits : j <= i

search(prefix, from, older) ==
  LET fits == {i \in DOMAIN items : IsPrefix(prefix, items[i]) /\ items[i] # prefix
                 /\ IF older THEN from = NoEntry \/ i < from ELSE from # NoEntry /\ i > from}
  IN  IF fits = {} THEN NoEntry
      ELSE CHOOSE i \in fits : \A j \in fits : IF older THEN j <= i ELSE i <= j

-----------------------------------------------------------------------------
(* complete.rs *)

word_at(e) ==
  LET spaces == {i \in 1 .. e.cur : e.buf[i] = SP}
  IN  IF spaces = {} THEN 0 ELSE CHOOSE i \in spaces : \A j \in spaces : j <= i
WordTyped(e) == SubSeq(e.buf, word_at(e) + 1, e.cur)
candidates(e) == SelectSeq(Words, LAMBDA w : IsPrefix(WordTyped(e), w))
common_prefix(ws) ==
  LET n == CHOOSE n \in 0 .. Len(ws[1]) :
             /\ \A i \in DOMAIN ws : IsPrefix(Upto(ws[1], n), ws[i])
             /\ n < Len(ws[1]) => \E i \in DOMAIN ws : ~IsPrefix(Upto(ws[1], n + 1), ws[i])
  IN  Upto(ws[1], n)

-----------------------------------------------------------------------------
(* The line. *)

\* Mutant: an edit leaves the history walk where it is.
StillWalking(e) == e
edited(e) == [e EXCEPT !.hist_pos = NoEntry, !.hist_prefix = NoPrefix]
set_line(e, l) == [e EXCEPT !.buf = l, !.cur = Len(l)]
Drop(e, from, to) == [e EXCEPT !.buf = Upto(@, from) \o From(@, to), !.cur = from]

replace_word(e, start, text) ==
  [e EXCEPT !.buf = Upto(@, start) \o text \o From(@, e.cur), !.cur = start + Len(text)]

history(e, older) ==
  LET prefix == IF e.hist_prefix = NoPrefix THEN e.buf ELSE e.hist_prefix
      i == search(prefix, e.hist_pos, older)
      walking == [e EXCEPT !.hist_prefix = prefix]
  IN  IF i # NoEntry THEN set_line([walking EXCEPT !.hist_pos = i], items[i])
      ELSE IF ~older /\ e.hist_pos # NoEntry THEN set_line([walking EXCEPT !.hist_pos = NoEntry], prefix)
      ELSE walking

suggestion(e) ==
  LET cands == candidates(e)
      i == suggest(e.buf)
  IN  IF e.cur # Len(e.buf) \/ Blank(e.buf) THEN <<>>
      ELSE IF i # NoEntry THEN From(items[i], Len(e.buf))
      ELSE IF WordTyped(e) # <<>> /\ Len(cands) = 1 THEN From(cands[1], Len(WordTyped(e)))
      ELSE <<>>

accept_suggestion(e) ==
  LET s == suggestion(e) IN IF s = <<>> THEN e ELSE edited(set_line(e, e.buf \o s))

\* Fills in the list's choice number next.
Choose(e, next) ==
  replace_word([e EXCEPT !.list.sel = next], e.list.start, e.list.cands[next + 1])

complete(e) ==
  LET cands == candidates(e)
      start == word_at(e)
  IN  IF e.list.open THEN Choose(e, IF e.list.sel = NoEntry THEN 0 ELSE (e.list.sel + 1) % Len(e.list.cands))
      ELSE edited(
        CASE Len(cands) = 0 -> e
          [] Len(cands) = 1 -> replace_word(e, start, Append(cands[1], SP))
          [] OTHER -> IF Len(common_prefix(cands)) > e.cur - start
                      THEN replace_word(e, start, common_prefix(cands))
                      ELSE [e EXCEPT !.list = [open |-> TRUE, cands |-> cands, sel |-> NoEntry, start |-> start, top |-> 0]])

list_move_rows(e, delta) ==
  LET n == Len(e.list.cands)
      cur == IF e.list.sel # NoEntry THEN e.list.sel ELSE IF delta > 0 THEN -COLUMNS ELSE n
      next == cur + delta * COLUMNS
  IN  Choose(e, IF next < 0 THEN 0 ELSE IF next > n - 1 THEN n - 1 ELSE next)

\* Back over spaces, then over what is no space.
WordBack(e) ==
  LET back(i, sp) == LET ok == {j \in 0 .. i : \A k \in j + 1 .. i : (e.buf[k] = SP) = sp}
                     IN  CHOOSE j \in ok : \A k \in ok : j <= k
  IN  back(back(e.cur, TRUE), FALSE)

-----------------------------------------------------------------------------
(* handle(), and the rendering that follows every key. *)

ListKeys == {"Tab", "Up", "Down", "Enter"}
CloseList(e, key) == IF key \in ListKeys THEN e ELSE [e EXCEPT !.list = NoList]

Edited(e, key) ==
  CASE key \in Typed -> edited([e EXCEPT !.buf = InsertAt(@, e.cur + 1, key), !.cur = @ + 1])
    [] key = "Backspace" -> IF e.cur > 0 THEN edited(Drop(e, e.cur - 1, e.cur)) ELSE e
    [] key = "Delete" -> IF e.cur < Len(e.buf) THEN edited(Drop(e, e.cur, e.cur + 1)) ELSE e
    [] key = "Left" -> [e EXCEPT !.cur = IF @ = 0 THEN 0 ELSE @ - 1]
    [] key = "Home" -> [e EXCEPT !.cur = 0]
    [] key = "Right" -> IF e.cur < Len(e.buf) THEN [e EXCEPT !.cur = @ + 1] ELSE accept_suggestion(e)
    [] key = "End" -> IF e.cur < Len(e.buf) THEN [e EXCEPT !.cur = Len(e.buf)] ELSE accept_suggestion(e)
    [] key = "Up" -> IF e.list.open THEN list_move_rows(e, -1) ELSE history(e, TRUE)
    [] key = "Down" -> IF e.list.open THEN list_move_rows(e, 1) ELSE history(e, FALSE)
    [] key = "Tab" -> complete(e)
    [] key = "^U" -> edited(Drop(e, 0, e.cur))
    [] key = "^K" -> edited([e EXCEPT !.buf = Upto(@, e.cur)])
    [] key = "^W" -> edited(Drop(e, WordBack(e), e.cur))
EditKeys == Typed \cup {"Backspace", "Delete", "Left", "Home", "Right", "End", "Up", "Down", "Tab", "^U", "^K", "^W"}

Scroll(e) == IF e.cur < e.scroll THEN e.cur ELSE IF e.cur >= e.scroll + AVAIL THEN e.cur + 1 - AVAIL ELSE e.scroll

\* render_list: the rows of the list that are on the screen.
Rows(n) == (n + COLUMNS - 1) \div COLUMNS
ShownRows(l) == IF Rows(Len(l.cands)) < LIST_ROWS THEN Rows(Len(l.cands)) ELSE LIST_ROWS
render_list(l) ==
  LET row == l.sel \div COLUMNS
  IN  IF l.sel = NoEntry THEN l.top ELSE IF row < l.top THEN row
      ELSE IF row >= l.top + ShownRows(l) THEN row + 1 - ShownRows(l) ELSE l.top

render(e) == [e EXCEPT !.scroll = Scroll(e), !.list.top = render_list(e.list)]

handle(key) ==
  /\ at = "prompt"
  /\ \E e \in {Edited(CloseList(ed, key), key)} : Len(e.buf) <= MaxLen /\ ed' = render(e)
  /\ UNCHANGED <<items, file, at, left, changed>>

Selected == ed.list.open /\ ed.list.sel # NoEntry

-----------------------------------------------------------------------------
(* main() and the commands. *)

\* Enter keeps the list's choice, or ends the line, which main() adds to the
\* history, whose file add() rewrites, and runs.
Enter ==
  /\ at = "prompt"
  /\ IF Selected THEN ed' = [ed EXCEPT !.list = NoList] /\ UNCHANGED <<items, file, at, left, changed>>
     ELSE /\ ed' = NewLine
          /\ IF Blank(ed.buf) THEN UNCHANGED <<items, file, at, left>>
             ELSE /\ items' = add(items, ed.buf)
                  /\ file' = items'
                  /\ at' \in {"each", "two", "sync", "show", "exit"}
                  /\ IF at' = "each" THEN left' \in 1 .. MaxArgs ELSE left' = left
          /\ UNCHANGED changed

\* mkdir, touch, rm, delete and create do one argument after the other, whatever
\* became of the ones before, and then sync.
each ==
  /\ at = "each" /\ left > 0
  /\ left' = left - 1
  /\ changed' \in {changed, TRUE}
  /\ UNCHANGED <<ed, items, file, at>>

EachPersists == at = "each" /\ left = 0 /\ at' = "sync" /\ UNCHANGED <<ed, items, file, left, changed>>

\* cp, mv and write sync when they succeeded, and changed nothing when not.
two ==
  /\ at = "two"
  /\ \/ at' = "prompt" /\ UNCHANGED changed
     \/ at' = "sync" /\ changed' = TRUE
  /\ UNCHANGED <<ed, items, file, left>>

persist == at = "sync" /\ changed' = FALSE /\ at' = "prompt" /\ UNCHANGED <<ed, items, file, left>>

\* What only prints, or runs a program and waits for it, and exit.
Show == at = "show" /\ at' = "prompt" /\ UNCHANGED <<ed, items, file, left, changed>>

End ==
  /\ at = "exit" \/ at = "prompt"            \* exit, or the end of the input
  /\ at' = "ended" /\ ed' = NewLine
  /\ UNCHANGED <<items, file, left, changed>>

Abandon == at = "prompt" /\ ed' = NewLine /\ UNCHANGED <<items, file, at, left, changed>>   \* Ctrl-C, Ctrl-L

\* Another shell rewrites the file with its own history.
OtherShell == at = "ended" /\ file' \in Kept /\ UNCHANGED <<ed, items, at, left, changed>>

load == at = "ended" /\ at' = "prompt" /\ items' = LastOf(file) /\ UNCHANGED <<ed, file, left, changed>>

Init ==
  /\ ed = NewLine /\ at = "prompt" /\ left = 0 /\ changed = FALSE
  /\ file \in Kept /\ items = LastOf(file)

Next ==
  \/ \E key \in EditKeys : handle(key)
  \/ Enter \/ each \/ EachPersists \/ two \/ persist \/ Show \/ End \/ Abandon \/ OtherShell \/ load

Spec == Init /\ [][Next]_vars

-----------------------------------------------------------------------------
(* Properties. *)

\* During a history walk the line is the entry walked to, and before the first and
\* past the newest what was typed: no edit leaves a position behind that a later
\* Up or Down would continue from (editor.rs:200-224).
WalkShowsEntry ==
  /\ ed.hist_pos # NoEntry => ed.hist_pos \in DOMAIN items /\ ed.buf = items[ed.hist_pos]
                           /\ IsPrefix(ed.hist_prefix, ed.buf)
  /\ ed.hist_pos = NoEntry /\ ed.hist_prefix # NoPrefix => ed.buf = ed.hist_prefix

\* While the list is open the text it would replace is the choice it filled in:
\* cycling never eats what stands around the word (editor.rs:264-296).
ListFillsWord ==
  ed.list.open =>
    /\ ed.list.start <= ed.cur /\ ed.cur <= Len(ed.buf)
    /\ Selected => SubSeq(ed.buf, ed.list.start + 1, ed.cur) = ed.list.cands[ed.list.sel + 1]

\* The cursor is on the screen, with a column to stand in at the end of the line
\* and so is the list's choice (editor.rs:322-436): nothing is written past the columns there are.
CursorInView ==
  /\ ed.scroll <= ed.cur /\ ed.cur < ed.scroll + AVAIL /\ ed.cur <= Len(ed.buf)
  /\ Selected => ed.list.top <= ed.list.sel \div COLUMNS
                 /\ ed.list.sel \div COLUMNS < ed.list.top + ShownRows(ed.list)

\* "Repeating a command moves it to the end rather than storing it twice"
\* (history.rs:5) and the limit holds, so a walk up the history meets no entry
\* twice.
HistoryKept ==
  /\ \A i, j \in DOMAIN items : items[i] = items[j] => i = j
  /\ Len(items) <= MAX

\* "anything that changes the filesystem is followed by a sync, so it survives a
\* reboot" (commands.rs:6-7): no prompt is shown with a builtin's change unsaved,
\* also when only some of its arguments succeeded.
Persisted == at = "prompt" => ~changed
=============================================================================
