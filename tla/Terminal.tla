------------------------------ MODULE Terminal ------------------------------
(***************************************************************************)
(* The terminals driver/fbterm and driver/biterm, which have the same      *)
(* terminal.c and keyboard.c: the screen of cells with its cursor, and the *)
(* lines that are typed, kept until they are read.                         *)
(*                                                                         *)
(* Printing is one section under a mutex.  The other handlers take none,   *)
(* except for the list of lines, and each runs in a thread of its own: to  *)
(* clear or resize the screen takes a step for the cells and one for the   *)
(* cursor, the end of a line one step to store it and one to pass it on,   *)
(* and a byte that is read one step to look for a line, one to take a line *)
(* from the list and one to take the byte.  Lines may be typed while       *)
(* another one is read.                                                    *)
(*                                                                         *)
(* What the code does not withstand is left out, unless named in Beyond:   *)
(*   "shrink" the screen gets smaller                                      *)
(*   "narrow" a tab on a screen that is narrower than a tab                *)
(*   "return" a carriage return, which leaves the cursor block behind      *)
(*   "above"  a backspace on the first cell, when the line began above it  *)
(*   "long"   a line that is passed on because the buffer is full          *)
(*   "drawn"  a print, or another change of the screen, while the screen   *)
(*            is cleared or resized                                        *)
(*   "typing" a key press while the end of a line is handled               *)
(*   "readers" a read while another one is not over                        *)
(***************************************************************************)
EXTENDS Integers, Sequences, SequencesExt, FiniteSets

CONSTANTS Sizes,     \* sizes of the screen in cells: pairs of width and height
          Letter,    \* characters that are printed and typed
          Uses,      \* what is used: subsets of {"screen", "tab", "keys"}
          MaxBack,   \* bound on the rows that scrolled away since the last line end
          MaxTop,    \* a line is passed on when it is longer (195)
          MaxTyped,  \* bound on the characters that are typed
          Reader,    \* the threads that handle requests "read"
          ReadSizes, \* how much is read at once
          NULL,
          Beyond     \* the restrictions that are lifted

VARIABLES use,      \* the use that is made of the terminal
          w, h,     \* size of the screen
          cell,     \* cell[i]: character and whether it has the colour of the cursor
          cursor, c_base,
          task,     \* a clear or resize that has still to set the cursor, or NULL
          buffer,   \* the line that is typed
          ending,   \* whether a key thread has still to pass on the buffer
          lines,    \* complete lines, the one to be read next last
          line, line_pos,  \* the line that is read, and the position in it
          reads,    \* reads[r]: the place of r, and how many bytes it has still to get
          typed,    \* everything that was typed, lines of it in order
          got       \* everything that was read

screenVars == <<w, h, cell, cursor, c_base, task>>
keyVars == <<buffer, ending, lines, line, line_pos, reads, typed, got>>
vars == <<use, screenVars, keyVars>>

NoRead == [at |-> "out", left |-> 0]

Garbage == [ch |-> "?", n |-> 0]  \* what is in memory after a string
Blank == [ch |-> " ", block |-> FALSE]

Init ==
  /\ use \in Uses
  /\ \E s \in Sizes : w = s[1] /\ h = s[2]
  /\ cell = [i \in 0..w * h - 1 |-> Blank] /\ cursor = 0 /\ c_base = 0
  /\ task = NULL
  /\ buffer = <<>> /\ ending = FALSE /\ lines = <<>> /\ line = NULL /\ line_pos = 0
  /\ reads = [r \in Reader |-> NoRead]
  /\ typed = <<>> /\ got = <<>>

-----------------------------------------------------------------------------
(* The cells after character ch was put at i, with or without the colour   *)
(* of the cursor; nothing happens outside of the screen.                   *)
screen_print(s, i, ch, block) ==
  IF i \in DOMAIN s THEN [s EXCEPT ![i] = [ch |-> ch, block |-> block]] ELSE s

(* Characters move up a row, colours do not; the last row is cleared.      *)
screen_scroll(s) ==
  [i \in DOMAIN s |-> IF i + w \in DOMAIN s THEN [s[i] EXCEPT !.ch = s[i + w].ch] ELSE Blank]

(* Mutant of Scrolled: there is room while the cursor is not behind the    *)
(* screen by a whole row.                                                  *)
Scrolled_late(s) ==
  IF s.cursor > w * h
  THEN [cell |-> screen_scroll(s.cell), cursor |-> s.cursor - w, c_base |-> s.c_base - w]
  ELSE s

(* The screen scrolls if the cursor is on the last cell or behind it.      *)
Scrolled(s) ==
  IF s.cursor > w * h - 2
  THEN [cell |-> screen_scroll(s.cell), cursor |-> s.cursor - w, c_base |-> s.c_base - w]
  ELSE s

(* What character c does to the cells and the cursor.                      *)
Moved(s, c) ==
  LET row == s.cursor - (s.cursor % w)
      erased == [s EXCEPT !.cell = screen_print(@, s.cursor, " ", FALSE)]
  IN CASE c = "nul" -> s
       [] c = "tab" -> [erased EXCEPT !.cursor = (@ + 8) - ((@ % w) % 8)]
       [] c = "nl"  -> [erased EXCEPT !.cursor = row + w, !.c_base = row + w]
       [] c = "cr"  -> [s EXCEPT !.cursor = row, !.c_base = row]
       [] c = "bs"  -> [erased EXCEPT !.cursor = IF s.c_base < @ THEN @ - 1 ELSE @]
       [] OTHER     -> [s EXCEPT !.cell = screen_print(@, s.cursor, c, FALSE), !.cursor = @ + 1]

Draws == "screen" \in use /\ (task # NULL => "drawn" \in Beyond)

fbterm_print(c) ==
  /\ Draws /\ c_base >= -(MaxBack * w)
  /\ c = "tab" => ("tab" \in use /\ (w >= 8 \/ "narrow" \in Beyond))
  /\ c = "cr" => "return" \in Beyond
  /\ (c = "bs" /\ cursor = 0 /\ c_base < 0) => "above" \in Beyond
  /\ LET s == Moved(Scrolled([cell |-> cell, cursor |-> cursor, c_base |-> c_base]), c)
     IN /\ cursor' = s.cursor /\ c_base' = s.c_base
        /\ cell' = screen_print(s.cell, s.cursor, " ", TRUE)
  /\ UNCHANGED <<use, w, h, task, keyVars>>

(* screen_clear(); one clear or resize at a time.                          *)
fbterm_clear ==
  /\ Draws /\ task = NULL
  /\ cell' = [i \in DOMAIN cell |-> Blank]
  /\ task' = [does |-> "clear", old_w |-> w]
  /\ UNCHANGED <<use, w, h, cursor, c_base, keyVars>>

(* screen_resize(): the cells that both sizes have keep their characters.  *)
fbterm_resize(s) ==
  /\ Draws /\ task = NULL /\ s # <<w, h>>
  /\ (s[1] < w \/ s[2] < h) => "shrink" \in Beyond
  /\ w' = s[1] /\ h' = s[2]
  /\ cell' = [i \in 0..s[1] * s[2] - 1 |->
                LET x == i % s[1]
                    y == i \div s[1]
                IN IF x < w /\ y < h THEN [cell[x + y * w] EXCEPT !.block = FALSE] ELSE Blank]
  /\ task' = [does |-> "resize", old_w |-> w]
  /\ UNCHANGED <<use, cursor, c_base, keyVars>>

(* Position i of a screen that was old_w cells wide; C rounds to zero.     *)
Placed(i, old_w) ==
  LET To(n) == (n % old_w) + (n \div old_w) * w
  IN IF i < 0 THEN -To(-i) ELSE To(i)

(* What fbterm_clear and fbterm_resize do to the cursor.                   *)
set_cursor ==
  /\ task # NULL
  /\ cursor' = IF task.does = "clear" THEN 0 ELSE Placed(cursor, task.old_w)
  /\ c_base' = IF task.does = "clear" THEN 0 ELSE Placed(c_base, task.old_w)
  /\ task' = NULL
  /\ UNCHANGED <<use, w, h, cell, keyVars>>

-----------------------------------------------------------------------------
(* A character as it is typed: which one it is tells it from the others.   *)
Key(c) == [ch |-> c, n |-> Len(typed) + 1]

Types(c) ==
  /\ "keys" \in use /\ Len(typed) < MaxTyped
  /\ ending => "typing" \in Beyond /\ c # "nl"

(* Mutant of fbterm_buffer: the line end is left out.                      *)
fbterm_buffer_cut(c) ==
  /\ Types(c)
  /\ buffer' = IF c = "nl" THEN buffer ELSE Append(buffer, Key(c))
  /\ ending' = (c = "nl")
  /\ typed' = Append(typed, Key(c))
  /\ UNCHANGED <<use, screenVars, lines, line, line_pos, reads, got>>

(* A line is passed on at its end, or when it gets too long.  A backspace  *)
(* takes the last character back.                                          *)
fbterm_buffer(c) ==
  LET b == IF c = "bs" THEN (IF buffer = <<>> THEN buffer ELSE Front(buffer))
           ELSE Append(buffer, Key(c))
  IN /\ Types(c)
     /\ (Len(b) > MaxTop /\ c # "nl") => "long" \in Beyond
     /\ buffer' = b
     /\ ending' = (ending \/ c = "nl" \/ Len(b) > MaxTop)
     /\ typed' = IF c # "bs" THEN Append(typed, Key(c))
                 ELSE IF buffer = <<>> THEN typed ELSE Front(typed)
     /\ UNCHANGED <<use, screenVars, lines, line, line_pos, reads, got>>

(* The list of complete lines is read from the end it grows at.            *)
_push_line ==
  /\ ending
  /\ lines' = Append(lines, buffer) /\ buffer' = <<>> /\ ending' = FALSE
  /\ UNCHANGED <<use, screenVars, line, line_pos, reads, typed, got>>

fbterm_read(r, size) ==
  /\ "keys" \in use /\ reads[r].at = "out"
  /\ (\E q \in Reader : reads[q].at # "out") => "readers" \in Beyond
  /\ reads' = [reads EXCEPT ![r] = [at |-> "look", left |-> size]]
  /\ UNCHANGED <<use, screenVars, buffer, ending, lines, line, line_pos, typed, got>>

fbterm_getch(r) ==
  /\ reads[r].at = "look"
  /\ reads' = [reads EXCEPT ![r].at = IF line = NULL THEN "pop" ELSE "take"]
  /\ UNCHANGED <<use, screenVars, buffer, ending, lines, line, line_pos, typed, got>>

(* It waits for a line.                                                    *)
_pop_line(r) ==
  /\ reads[r].at = "pop" /\ lines # <<>>
  /\ line' = Last(lines) /\ line_pos' = 0 /\ lines' = Front(lines)
  /\ reads' = [reads EXCEPT ![r].at = "take"]
  /\ UNCHANGED <<use, screenVars, buffer, ending, typed, got>>

(* A string ends in a zero byte, which ends a read.                        *)
getch_take(r) ==
  LET i == line_pos + 1
      c == CASE i <= Len(line) -> line[i] [] i = Len(line) + 1 -> NULL [] OTHER -> Garbage
      n == IF c = NULL THEN 0 ELSE reads[r].left - 1
  IN /\ reads[r].at = "take" /\ line # NULL
     /\ line_pos' = i
     /\ line' = IF i <= Len(line) /\ c.ch = "nl" THEN NULL ELSE line
     /\ got' = IF c = NULL THEN got ELSE Append(got, c)
     /\ reads' = [reads EXCEPT ![r] = IF n = 0 THEN NoRead ELSE [at |-> "look", left |-> n]]
     /\ UNCHANGED <<use, screenVars, buffer, ending, lines, typed>>

Next ==
  \/ \E c \in Letter \cup {"nul", "tab", "nl", "cr", "bs"} : fbterm_print(c)
  \/ fbterm_clear
  \/ \E s \in Sizes : fbterm_resize(s)
  \/ set_cursor
  \/ \E c \in Letter \cup {"nl", "bs"} : fbterm_buffer(c)
  \/ _push_line
  \/ \E r \in Reader :
       \/ \E size \in ReadSizes : fbterm_read(r, size)
       \/ fbterm_getch(r) \/ _pop_line(r) \/ getch_take(r)

Spec == Init /\ [][Next]_vars

-----------------------------------------------------------------------------
(* Scrolling by one row always makes room (terminal.c:32): when a          *)
(* character is printed, it appears on the screen, whatever was printed    *)
(* before, on a screen at least as wide as a tab that never got smaller.   *)
Lands ==
  LET s == Scrolled([cell |-> cell, cursor |-> cursor, c_base |-> c_base])
  IN s.cursor \in DOMAIN cell

(* One cell at most has the colour of the cursor, and it is the one that   *)
(* the cursor is on (terminal.c:64), also after scrolling, which leaves    *)
(* colours where they are (screen.c:96).                                   *)
OneBlock == \A i \in DOMAIN cell : cell[i].block => i = cursor

(* What is read are the lines that were typed, each of them whole and      *)
(* once, though lines that are typed during a read come next, and no read  *)
(* goes on behind the end of a line (keyboard.c:79, 122-139).              *)
Whole ==
  /\ \A i \in DOMAIN got, j \in DOMAIN got : i # j => got[i] # got[j]
  /\ \A i \in DOMAIN got : got[i].n \in DOMAIN typed /\ typed[got[i].n] = got[i]
  /\ \A i \in 1..Len(got) - 1 :
       got[i].ch # "nl" => got[i + 1].n = got[i].n + 1
  /\ \A i \in 2..Len(got) :
       got[i - 1].ch = "nl" => \/ got[i].n = 1
                               \/ typed[got[i].n - 1].ch = "nl"

(* Lines are read in the order in which they were typed.  They are not:    *)
(* see the README.                                                         *)
InOrder == \A i \in 1..Len(got) - 1 : got[i].n < got[i + 1].n

=============================================================================
