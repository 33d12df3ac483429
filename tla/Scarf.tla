-------------------------------- MODULE Scarf --------------------------------
(***************************************************************************)
(* scarf, the text editor (userland scarf/src/buffer.rs, editor.rs): lines  *)
(* of characters, a cursor, vim's modes, and the commands that load and     *)
(* save.  A character is "a", of a word, or "_", between words.  A file is  *)
(* the sequence of its bytes, LF among them, or Absent; a bad path is one   *)
(* that cannot be created.  The line of a ":" command is abstracted to the  *)
(* command it spells, the sidebar to the file it offers, a Tab to one of    *)
(* its spaces.                                                              *)
(***************************************************************************)
EXTENDS Integers, Sequences, SequencesExt

CONSTANTS Paths, BadPaths,
          Contents,     \* what the files may hold at first
          Typed,        \* characters typed
          MaxLines, MaxLen

VARIABLES lines, filename, dirty,       \* Buffer
          cx, cy, mode, focus, pending, cmd, quit,
          files

buffer == <<lines, filename, dirty>>
vars == <<buffer, cx, cy, mode, focus, pending, cmd, quit, files>>

Absent == <<"absent">>
LF == "LF"
NoName == "none"
EmptyText == <<<<>>>>
Command(n, p) == [name |-> n, path |-> p]
NoCommand == Command("", NoName)
Commands == {Command(n, NoName) : n \in {"q", "q!", "w", "wq", "other"}}
            \cup {Command(n, p) : n \in {"e", "e!", "w"}, p \in Paths \cup BadPaths}

Init ==
  /\ lines = EmptyText /\ filename = NoName /\ dirty = FALSE
  /\ cx = 0 /\ cy = 0
  /\ mode = "Normal" /\ focus = "Sidebar" /\ pending = "none" /\ cmd = NoCommand /\ quit = "no"
  /\ files \in [Paths -> Contents \cup {Absent}]

-----------------------------------------------------------------------------
(* Loading and saving.  *)

\* Every line followed by LF.
Written(ls) == FlattenSeq([i \in DOMAIN ls |-> Append(ls[i], LF)])

\* A last line without LF counts, an empty one after the last LF does not, and
\* there is always a line.
Parsed(bytes) ==
  LET after[n \in 0 .. Len(bytes)] ==
        IF n = 0 THEN [done |-> <<>>, line |-> <<>>]
        ELSE IF bytes[n] = LF
        THEN [done |-> Append(after[n - 1].done, after[n - 1].line), line |-> <<>>]
        ELSE [after[n - 1] EXCEPT !.line = Append(@, bytes[n])]
      last == after[Len(bytes)]
      all == IF last.line = <<>> THEN last.done ELSE Append(last.done, last.line)
  IN  IF all = <<>> THEN EmptyText ELSE all

\* Editor::open(): a file that is not there is a new one.
open(path) ==
  /\ filename' = path /\ dirty' = FALSE
  /\ lines' = IF path \notin Paths THEN EmptyText
              ELSE IF files[path] = Absent THEN EmptyText ELSE Parsed(files[path])
  /\ cx' = 0 /\ cy' = 0
  /\ UNCHANGED files

\* Buffer::save() under a name: whether it can be done, and what it does.  A file
\* that could be created takes every write.
Saves(path) == path \in Paths
\* Mutant: the buffer counts as saved before the file is opened.
SaveMarksFirst(path) ==
  /\ dirty' = FALSE
  /\ files' = IF Saves(path) THEN [files EXCEPT ![path] = Written(lines)] ELSE files
save(path) ==
  /\ dirty' = (dirty /\ ~Saves(path))
  /\ files' = IF Saves(path) THEN [files EXCEPT ![path] = Written(lines)] ELSE files

-----------------------------------------------------------------------------
(* The cursor. *)

Line(y) == lines[y + 1]
line == Line(cy)
Least(a, b) == IF a < b THEN a ELSE b
Pred(n) == IF n = 0 THEN 0 ELSE n - 1

\* In normal mode on a character, in insert mode possibly past the last.
clamp_cx(x, len, m) == Least(x, IF m # "Insert" /\ len > 0 THEN len - 1 ELSE len)

IsWord(i) == line[i + 1] = "a"
\* The first place from i on, up to n, where the characters stop being (or not
\* being) of a word.
Past(i, word) ==
  LET stops == {j \in i .. Len(line) : j < Len(line) => IsWord(j) # word}
  IN  CHOOSE j \in stops : \A k \in stops : j <= k
WordEnd == Past(Past(cx, TRUE), FALSE)

WordStart ==
  LET here == {j \in 0 .. cx - 1 : j = 0 \/ IsWord(j)}
      i == CHOOSE j \in here : \A k \in here : k <= j
      starts == {j \in 0 .. i : \A k \in j .. i - 1 : IsWord(k)}
  IN  CHOOSE j \in starts : \A k \in starts : j <= k

Move(x, y) == cx' = x /\ cy' = y /\ UNCHANGED <<buffer, files>>
Edit(ls, x, y) ==
  /\ Len(ls) <= MaxLines /\ \A i \in DOMAIN ls : Len(ls[i]) <= MaxLen
  /\ lines' = ls /\ dirty' = TRUE /\ cx' = x /\ cy' = y
  /\ UNCHANGED <<filename, files>>

Cut(from, to) == SubSeq(line, 1, from) \o SubSeq(line, to + 1, Len(line))
EditLine(new, x) == Edit([lines EXCEPT ![cy + 1] = new], x, cy)

-----------------------------------------------------------------------------
(* Normal mode. *)

delete_line ==
  LET rest == RemoveAt(lines, cy + 1)
      ls == IF rest = <<>> THEN EmptyText ELSE rest
      y == Least(cy, Len(ls) - 1)
  IN  Edit(ls, clamp_cx(cx, Len(ls[y + 1]), "Normal"), y)

delete_word ==
  IF cx >= Len(line) THEN Move(clamp_cx(cx, Len(line), "Normal"), cy)
  ELSE LET new == Cut(cx, WordEnd) IN EditLine(new, clamp_cx(cx, Len(new), "Normal"))

word_forward ==
  IF WordEnd >= Len(line) /\ cy + 1 < Len(lines) THEN Move(0, cy + 1)
  ELSE Move(clamp_cx(WordEnd, Len(line), "Normal"), cy)

word_back ==
  IF cx > 0 THEN Move(clamp_cx(WordStart, Len(line), "Normal"), cy)
  ELSE IF cy > 0 THEN Move(Pred(Len(Line(cy - 1))), cy - 1) ELSE Move(cx, cy)

ToRow(y) == Move(clamp_cx(cx, Len(Line(y)), "Normal"), y)

Motion(c) ==
  /\ mode' = mode /\ cmd' = cmd
  /\ CASE c = "h" -> Move(Pred(cx), cy)
       [] c = "l" -> Move(IF cx + 1 < Len(line) THEN cx + 1 ELSE cx, cy)
       [] c = "j" -> IF cy + 1 < Len(lines) THEN ToRow(cy + 1) ELSE Move(cx, cy)
       [] c = "k" -> IF cy > 0 THEN ToRow(cy - 1) ELSE Move(cx, cy)
       [] c = "0" -> Move(0, cy)
       [] c = "$" -> Move(Pred(Len(line)), cy)
       [] c = "w" -> word_forward
       [] c = "b" -> word_back
       [] c = "G" -> ToRow(Len(lines) - 1)
       [] c = "x" -> IF cx < Len(line)
                     THEN EditLine(Cut(cx, cx + 1), clamp_cx(cx, Len(line) - 1, "Normal"))
                     ELSE Move(clamp_cx(cx, Len(line), "Normal"), cy)
Motions == {"h", "l", "j", "k", "0", "$", "w", "b", "G", "x"}

Inserting(c) ==
  /\ mode' = "Insert" /\ cmd' = cmd
  /\ CASE c = "i" -> Move(cx, cy)
       [] c = "a" -> Move(IF line = <<>> THEN cx ELSE cx + 1, cy)
       [] c = "A" -> Move(Len(line), cy)
       [] c = "o" -> Edit(InsertAt(lines, cy + 2, <<>>), 0, cy + 1)
       [] c = "O" -> Edit(InsertAt(lines, cy + 1, <<>>), 0, cy)
Inserts == {"i", "a", "A", "o", "O"}

\* The key after d or g completes it or drops it.
Operator(c) ==
  /\ pending' = "none" /\ UNCHANGED <<mode, cmd>>
  /\ CASE pending = "d" /\ c = "d" -> delete_line
       [] pending = "d" /\ c = "w" -> delete_word
       [] pending = "g" /\ c = "g" -> Move(0, 0)
       [] OTHER -> Move(IF pending = "d" THEN clamp_cx(cx, Len(line), "Normal") ELSE cx, cy)

StartCommand == mode' = "Command" /\ cmd' = NoCommand /\ Move(cx, cy)

key_normal(c) ==
  /\ mode = "Normal" /\ focus = "Editor"
  /\ \/ pending # "none" /\ Operator(c)
     \/ /\ pending = "none" /\ pending' = IF c \in {"d", "g"} THEN c ELSE "none"
        /\ \/ c \in Motions /\ Motion(c)
           \/ c \in Inserts /\ Inserting(c)
           \/ c = ":" /\ StartCommand
           \/ c \in {"d", "g"} /\ Move(cx, cy) /\ UNCHANGED <<mode, cmd>>
  /\ UNCHANGED <<focus, quit>>

-----------------------------------------------------------------------------
(* Insert mode, arrows and Delete among its keys. *)

Join == LET before == Line(cy - 1)
        IN  Edit(RemoveAt([lines EXCEPT ![cy] = before \o line], cy + 1), Len(before), cy - 1)
Split == Edit(InsertAt([lines EXCEPT ![cy + 1] = SubSeq(line, 1, cx)], cy + 2, SubSeq(line, cx + 1, Len(line))),
              0, cy + 1)
InsertRow(y) == Move(clamp_cx(cx, Len(Line(y)), "Insert"), y)

key_insert(c) ==
  /\ mode = "Insert"
  /\ mode' = IF c = "ESC" THEN "Normal" ELSE mode
  /\ CASE c = "ESC" -> Move(clamp_cx(Pred(cx), Len(line), "Normal"), cy)
       [] c = "Enter" -> Split
       [] c = "Backspace" -> IF cx > 0 THEN EditLine(Cut(cx - 1, cx), cx - 1)
                             ELSE IF cy > 0 THEN Join ELSE Move(cx, cy)
       [] c \in Typed -> EditLine(InsertAt(line, cx + 1, c), cx + 1)
       [] c = "Left" -> Move(Pred(cx), cy)
       [] c = "Right" -> Move(Least(cx + 1, Len(line)), cy)
       [] c = "Home" -> Move(0, cy)
       [] c = "End" -> Move(Len(line), cy)
       [] c = "Up" -> InsertRow(Pred(cy))
       [] c = "Down" -> InsertRow(Least(cy + 1, Len(lines) - 1))
       [] c = "Delete" -> IF cx < Len(line) THEN EditLine(Cut(cx, cx + 1), cx) ELSE Move(cx, cy)
  /\ UNCHANGED <<focus, pending, cmd, quit>>
InsertKeys == Typed \cup {"ESC", "Enter", "Backspace", "Left", "Right", "Home", "End", "Up", "Down", "Delete"}

-----------------------------------------------------------------------------
(* The command line. *)

key_command(c) ==
  /\ mode = "Command"
  /\ \/ c # NoCommand /\ cmd = NoCommand /\ cmd' = c /\ mode' = mode
     \/ c = NoCommand /\ cmd' = NoCommand                                 \* Backspace, ESC
        /\ mode' \in {"Normal"} \cup (IF cmd = NoCommand THEN {} ELSE {"Command"})
  /\ Move(cx, cy)
  /\ UNCHANGED <<focus, pending, quit>>

\* The cursor is clamped after every command; open() has put it at the start.
Stay == cx' = clamp_cx(cx, Len(line), "Normal") /\ cy' = cy
Unchanged == Stay /\ UNCHANGED <<buffer, files>>

run_command ==
  LET n == cmd.name  p == cmd.path
      target == IF p = NoName THEN filename ELSE p
  IN  /\ mode = "Command" /\ cmd # NoCommand
      /\ mode' = "Normal" /\ cmd' = NoCommand
      /\ CASE n = "e!" \/ (n = "e" /\ ~dirty) -> open(p) /\ quit' = quit
           [] n \in {"w", "wq"} ->
                /\ filename' = target /\ save(target)
                /\ quit' = IF n = "wq" /\ Saves(target) THEN "asked" ELSE quit
                /\ Stay /\ UNCHANGED lines
           [] n = "q" /\ ~dirty -> quit' = "asked" /\ Unchanged
           [] n = "q!" -> quit' = "forced" /\ Unchanged
           [] OTHER -> quit' = quit /\ Unchanged
      /\ UNCHANGED <<focus, pending>>

-----------------------------------------------------------------------------
(* The sidebar, and moving between it and the text. *)

sidebar_activate(p) ==
  /\ mode = "Normal" /\ focus = "Sidebar" /\ files[p] # Absent
  /\ IF dirty THEN Move(cx, cy) /\ focus' = focus ELSE open(p) /\ focus' = "Editor"
  /\ UNCHANGED <<mode, pending, cmd, quit>>

\* Ctrl-E, Ctrl-B, and the sidebar's ESC and ":"; an operator half typed stays.
ChangeFocus(c) ==
  /\ mode = "Normal"
  /\ focus' = IF c = "toggle" /\ focus = "Editor" THEN "Sidebar" ELSE "Editor"
  /\ IF c = ":" THEN focus = "Sidebar" /\ StartCommand ELSE Move(cx, cy) /\ UNCHANGED <<mode, cmd>>
  /\ UNCHANGED <<pending, quit>>

Closed == quit # "no" /\ UNCHANGED vars

Next ==
  \/ /\ quit = "no"
     /\ \/ \E c \in Motions \cup Inserts \cup {"d", "g", ":"} : key_normal(c)
        \/ \E c \in InsertKeys : key_insert(c)
        \/ \E c \in Commands \cup {NoCommand} : key_command(c)
        \/ run_command
        \/ \E p \in Paths : sidebar_activate(p)
        \/ \E c \in {"toggle", ":", "ESC"} : ChangeFocus(c)
  \/ Closed

Spec == Init /\ [][Next]_vars

-----------------------------------------------------------------------------
(* Properties. *)

\* The cursor is in the text whatever keys, files and commands came before: there
\* is always a line under it, in normal mode a character unless the line is empty,
\* in insert mode at most the place past the last one.  Every edit indexes the
\* lines with it (editor.rs:132-139, 160-164, 287-471).
CursorInText ==
  /\ cy < Len(lines)
  /\ cx <= Len(line)
  /\ mode = "Normal" /\ line # <<>> => cx < Len(line)

\* A buffer that does not count as changed, and one left with :q or :wq, can be
\* read back from a file: no text is lost without a warning, whichever of loading,
\* saving under another name and failing to save came before (buffer.rs:30-83;
\* editor.rs:492-526).
NoSilentLoss ==
  ~dirty \/ quit = "asked" =>
    lines = EmptyText \/ \E p \in Paths : files[p] # Absent /\ Parsed(files[p]) = lines
=============================================================================
