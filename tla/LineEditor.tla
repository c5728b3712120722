------------------------------ MODULE LineEditor ------------------------------
(***************************************************************************)
(* The shell's line editor: shell_readline, tab_complete, redraw_line and  *)
(* the history of userspace/shell.c, on the text screen of kernel/vga.c.   *)
(* A step is one key; Enter includes the command and the next prompt.      *)
(* What a command prints is text and newlines: a carriage return or a      *)
(* backspace in its output is left out, a clear of the screen is not.      *)
(* got_sigint is left out: the handler that would set it never runs        *)
(* (NoHandlerRuns of module Tasks).                                        *)
(***************************************************************************)
EXTENDS Integers, SequencesExt

CONSTANTS LineMax,    \* LINE_MAX
          HistSize,   \* HIST_SIZE
          Width, Height,   \* VGA_WIDTH, VGA_HEIGHT
          Prompt,     \* the prompt, a sequence of characters
          Chars,      \* what can be typed
          Builtins, Files,   \* the names a tab completes: sequences of names
          Saved,      \* what the file of the history may hold
          Outputs,    \* what a command may print
          MaxCount    \* bound on hist_count

Space   == " "
NewLine == "NL"
Back    == "BS"
Glyphs  == Chars \cup ToSet(Prompt) \cup {Space}
NameSet == Seq(Chars \ {Space})   \* no name has a space in it

ASSUME LineAssumption == /\ LineMax \in Nat \ {0} /\ HistSize \in Nat \ {0}
                         /\ Prompt \in Seq(ToSet(Prompt))
                         /\ Width \in Nat /\ Width > Len(Prompt)
                         /\ Height \in Nat \ {0} /\ MaxCount \in Nat
                         /\ NewLine \notin Glyphs /\ Back \notin Glyphs
                         /\ Builtins \in Seq(NameSet) /\ Files \in Seq(NameSet)
                         /\ Saved \subseteq Seq(Seq(Chars))
                         /\ Outputs \subseteq Seq(Glyphs \cup {NewLine})

VARIABLES line, pos,      \* line up to line_len, line_pos
          hist, count, index,   \* hist_buf, hist_count, hist_index
          pcol,           \* prompt_col
          scr,            \* the screen: row, col and the cells
          given,          \* history: the last HistSize commands
          shows,          \* history: line is what an arrow key put there
          widest,         \* history: the longest line since the prompt
          left,           \* history: a shorter line has replaced a longer
          moved,          \* history: the prompt was printed again elsewhere
          overrun         \* history: a line has left its row, before this
                          \* prompt and since the screen was cleared

vars == <<line, pos, hist, count, index, pcol, scr, given, shows, widest,
          left, moved, overrun>>

Lines == BoundedSeq(Chars, LineMax - 1)
(* A line of n characters and the blank behind it fit in the row of the    *)
(* prompt, and behind a prompt that a tab has printed again at column 0.   *)
Fits(n) == pcol + n + 1 < Width /\ Len(Prompt) + n + 1 < Width

-----------------------------------------------------------------------------
Blank == [x \in 0 .. Width - 1 |-> Space]   \* a row
(* vga_putchar, with the end of a row and of the screen; vga_setpos, which *)
(* ignores a place outside of it.                                          *)
Scrolled(s) == [s EXCEPT !.row = Height - 1,
                         !.cell = [y \in 0 .. Height - 1 |->
                                     IF y < Height - 1 THEN s.cell[y + 1] ELSE Blank]]
Placed(s, r, c) == LET t == IF c >= Width THEN [s EXCEPT !.row = r + 1, !.col = 0]
                            ELSE [s EXCEPT !.row = r, !.col = c]
                   IN  IF t.row >= Height THEN Scrolled(t) ELSE t
PutChar(s, c) ==
  CASE c = NewLine -> Placed(s, s.row + 1, 0)
    [] c = Back -> IF s.col > 0 THEN [s EXCEPT !.col = @ - 1] ELSE s
    [] OTHER    -> Placed([s EXCEPT !.cell[s.row][s.col] = c], s.row, s.col + 1)
Put(s, cs) == LET p[n \in 0 .. Len(cs)] ==
                    IF n = 0 THEN s ELSE PutChar(p[n - 1], cs[n])
              IN  p[Len(cs)]
SetPos(s, r, c) == IF r < Height /\ c < Width THEN [s EXCEPT !.row = r, !.col = c] ELSE s

(* a mutant: the place of a character that is gone is not blanked.         *)
RedrawNoBlank(s, l, p) ==
  SetPos(Put(SetPos(s, s.row, pcol), l), s.row, pcol + p)
(* redraw_line: the row of the cursor is taken for that of the prompt.     *)
Redraw(s, l, p) ==
  SetPos(Put(SetPos(s, s.row, pcol), l \o <<Space>>), s.row, pcol + p)

(* vga_clear.                                                              *)
Cleared == [row |-> 0, col |-> 0, cell |-> [y \in 0 .. Height - 1 |-> Blank]]

(* history_load: the lines of the file that are neither empty nor too      *)
(* long, the last ones over the first.                                     *)
Usable(f) == LET g[n \in 0 .. Len(f)] ==
                   IF n = 0 THEN <<>>
                   ELSE IF f[n] = <<>> \/ Len(f[n]) >= LineMax THEN g[n - 1]
                   ELSE Append(g[n - 1], f[n])
             IN  g[Len(f)]
Loaded(f) == [k \in 0 .. HistSize - 1 |->
                LET at == {i \in DOMAIN Usable(f) : (i - 1) % HistSize = k}
                IN  IF at = {} THEN <<>> ELSE Usable(f)[Max(at)]]
LastOf(s) == SubSeq(s, IF Len(s) > HistSize THEN Len(s) - HistSize + 1 ELSE 1, Len(s))

(* The shell starts with its history and, on the screen, what main printed *)
(* before the first prompt: lines of text, of which the ends count here.   *)
Welcome == <<NewLine, NewLine, NewLine>>
Init ==
  /\ line = <<>> /\ pos = 0 /\ shows = FALSE /\ widest = 0
  /\ left = FALSE /\ moved = FALSE /\ overrun = FALSE
  /\ \E f \in Saved : /\ hist = Loaded(f) /\ count = Len(Usable(f)) /\ index = count
                      /\ given = LastOf(Usable(f))
  /\ scr = Put(Put(Cleared, Welcome), Prompt) /\ pcol = scr.col

-----------------------------------------------------------------------------
(* What a key leaves behind: the line, the place in it, and the history's  *)
(* place.                                                                  *)
Becomes(l, p, arrow, s) ==
  /\ line' = l /\ pos' = p /\ scr' = s /\ shows' = arrow
  /\ widest' = Max({widest, Len(l)})
  /\ left' = (left \/ (arrow /\ Len(l) < Len(line)))
  /\ UNCHANGED <<pcol, overrun>>

TypeEnd(c) ==
  /\ Len(line) < LineMax - 1 /\ pos = Len(line)
  /\ Becomes(Append(line, c), pos + 1, FALSE, PutChar(scr, c))
  /\ UNCHANGED <<hist, count, index, given, moved>>
Inserted(c) == InsertAt(line, pos + 1, c)
TypeMiddle(c) ==
  /\ Len(line) < LineMax - 1 /\ pos < Len(line)
  /\ Becomes(Inserted(c), pos + 1, FALSE, Redraw(scr, Inserted(c), pos + 1))
  /\ UNCHANGED <<hist, count, index, given, moved>>

(* The last character is blanked where it stands, else the line is redrawn.*)
Backspace ==
  /\ pos > 0
  /\ LET l == RemoveAt(line, pos)
     IN  Becomes(l, pos - 1, FALSE,
                 IF pos = Len(line) THEN Put(scr, <<Back, Space, Back>>)
                 ELSE Redraw(scr, l, pos - 1))
  /\ UNCHANGED <<hist, count, index, given, moved>>
Delete ==
  /\ pos < Len(line)
  /\ LET l == RemoveAt(line, pos + 1) IN Becomes(l, pos, FALSE, Redraw(scr, l, pos))
  /\ UNCHANGED <<hist, count, index, given, moved>>

(* The arrows move the cursor by a column; at the edge of the screen it    *)
(* stays where it is.                                                      *)
Left ==
  /\ pos > 0 /\ Becomes(line, pos - 1, FALSE,
                        IF scr.col = 0 THEN scr ELSE SetPos(scr, scr.row, scr.col - 1))
  /\ UNCHANGED <<hist, count, index, given, moved>>
Right ==
  /\ pos < Len(line) /\ Becomes(line, pos + 1, FALSE, SetPos(scr, scr.row, scr.col + 1))
  /\ UNCHANGED <<hist, count, index, given, moved>>
HomeEnd(p) ==
  /\ Becomes(line, p, FALSE, Redraw(scr, line, p))
  /\ UNCHANGED <<hist, count, index, given, moved>>

Slot(i) == i % HistSize
Up ==
  /\ count > 0 /\ index > 0 /\ index' = index - 1
  /\ LET l == hist[Slot(index')] IN Becomes(l, Len(l), TRUE, Redraw(scr, l, Len(l)))
  /\ UNCHANGED <<hist, count, given, moved>>
Down ==
  /\ index < count /\ index' = index + 1
  /\ LET l == IF index' = count THEN <<>> ELSE hist[Slot(index')]
     IN  Becomes(l, Len(l), TRUE, Redraw(scr, l, Len(l)))
  /\ UNCHANGED <<hist, count, given, moved>>

(* tab_complete: the word before the cursor, the names it begins (builtins *)
(* only for the first word), and what all of them go on with.  More than   *)
(* one are listed, and the prompt and the line are printed again, from     *)
(* column 0 whatever the column of the prompt was, which prompt_col keeps. *)
WordStart == Max({0} \cup {i \in 1 .. pos : line[i] = Space})
Word      == SubSeq(line, WordStart + 1, pos)
Begun(ns, w) == LET g[n \in 0 .. Len(ns)] ==
                      IF n = 0 THEN <<>>
                      ELSE IF IsPrefix(w, ns[n]) THEN Append(g[n - 1], ns[n])
                      ELSE g[n - 1]
                IN  g[Len(ns)]
Matches   == Begun((IF WordStart = 0 THEN Builtins ELSE <<>>) \o Files, Word)
(* a mutant: what is left of the first name, whatever the others are.      *)
AddedFirst == SubSeq(Matches[1], Len(Word) + 1, Len(Matches[1]))
Added == LET c == LongestCommonPrefix(ToSet(Matches))
         IN  SubSeq(c, Len(Word) + 1, Len(c))
Completed == IF Len(line) + Len(Added) < LineMax - 1
             THEN SubSeq(line, 1, pos) \o Added \o SubSeq(line, pos + 1, Len(line))
             ELSE line
Listed(s, ns) == LET t[n \in 0 .. Len(ns)] ==
                       IF n = 0 THEN s
                       ELSE Put(t[n - 1], ns[n] \o <<Space, Space>>)
                 IN  t[Len(ns)]
TabOne ==
  /\ Len(Matches) = 1
  /\ LET p == pos + Len(Completed) - Len(line)
     IN  Becomes(Completed, p, FALSE, Redraw(scr, Completed, p))
  /\ UNCHANGED <<hist, count, index, given, moved>>
TabMany ==
  /\ Len(Matches) > 1
  /\ LET p == pos + Len(Completed) - Len(line)
         t == Listed(PutChar(SetPos(scr, scr.row, 0), NewLine), Matches)
         s == Put(PutChar(t, NewLine), Prompt \o Completed)
     IN  Becomes(Completed, p, FALSE, SetPos(s, s.row, pcol + p))
  /\ moved' = (moved \/ pcol # Len(Prompt))
  /\ UNCHANGED <<hist, count, index, given>>

(* history_add: nothing for an empty line or one that repeats the last.    *)
(* a mutant: compared with the oldest command, where the new one will go.  *)
RepeatsOldest == count > 0 /\ hist[Slot(count)] = line
Repeats == count > 0 /\ hist[Slot(count - 1)] = line
Remember ==
  /\ IF line = <<>> \/ Repeats THEN UNCHANGED <<hist, count>>
     ELSE /\ count < MaxCount /\ count' = count + 1
          /\ hist' = [hist EXCEPT ![Slot(count)] = line]
  /\ given' = IF line = <<>> \/ (given # <<>> /\ Last(given) = line) THEN given
              ELSE LastOf(Append(given, line))

(* execute, by what it leaves on the screen: nothing new for a line of     *)
(* spaces, else some output or a clear.                                    *)
Idle == \A i \in DOMAIN line : line[i] = Space
Execute(s) == IF Idle THEN {s} ELSE {Put(s, o) : o \in Outputs}
(* The next prompt, where the output ended, and an empty line behind it.   *)
Prompts(s, cleared) ==
  /\ scr' = Put(s, Prompt) /\ pcol' = scr'.col
  /\ line' = <<>> /\ pos' = 0 /\ index' = count' /\ shows' = FALSE
  /\ widest' = 0 /\ left' = FALSE /\ moved' = FALSE
  /\ overrun' = (~cleared /\ (overrun \/ ~Fits(widest)))
Enter ==
  /\ Remember
  /\ \/ \E s \in Execute(PutChar(scr, NewLine)) : Prompts(s, FALSE)
     \/ ~Idle /\ Prompts(Cleared, TRUE)

Next == \/ \E c \in Chars : TypeEnd(c) \/ TypeMiddle(c)
        \/ Backspace \/ Delete \/ Left \/ Right
        \/ HomeEnd(0) \/ HomeEnd(Len(line))
        \/ Up \/ Down \/ TabOne \/ TabMany \/ Enter

Spec == Init /\ [][Next]_vars
-----------------------------------------------------------------------------
Screens == [row : 0 .. Height - 1, col : 0 .. Width - 1,
            cell : [0 .. Height - 1 -> [0 .. Width - 1 -> Glyphs]]]
(* The type of the state: the line leaves room for its terminator, the     *)
(* cursor is on the screen.                                                *)
TypeOK ==
  /\ line \in Lines /\ pos \in 0 .. Len(line)
  /\ hist \in [0 .. HistSize - 1 -> Lines] /\ count \in Nat
  /\ index \in 0 .. count /\ scr \in Screens
  /\ pcol \in 0 .. Width - 1

(* While the line and the blank behind it have fitted their row since the  *)
(* prompt, wherever in its row the prompt began, the cursor is at its      *)
(* place, and the screen shows the line, whatever keys made it, unless a   *)
(* tab has listed names below a prompt that did not begin at column 0:     *)
(* that prints the line in one place and leaves the cursor in another.     *)
(* Nothing stands behind the line, unless an arrow key has replaced a      *)
(* longer line, as redraw_line blanks one place only, or an earlier line   *)
(* ran into the row below it.                                              *)
Row == scr.cell[scr.row]
ScreenShowsLine ==
  Fits(widest) =>
    /\ scr.col = pcol + pos
    /\ ~moved => \A i \in DOMAIN line : Row[pcol + i - 1] = line[i]
    /\ ~moved /\ ~left /\ ~overrun =>
         \A x \in pcol + Len(line) .. Width - 1 : Row[x] = Space

(* The line stays inside its buffer, and the screen shows it.              *)
LineInv == TypeOK /\ ScreenShowsLine

(* Up and down go through the commands in the order they were given, as    *)
(* far back as the ring holds them, whatever was loaded and however often  *)
(* the ring went round.                                                    *)
HistoryInOrder ==
  LET i == Len(given) - (count - 1 - index)
  IN  shows => IF index = count THEN line = <<>>
               ELSE index >= count - HistSize => i \in DOMAIN given /\ line = given[i]

(* A tab never loses what was typed, and the word it leaves before the     *)
(* cursor still begins every name that the word before it began.           *)
TabKeepsMatches ==
  [][TabOne \/ TabMany =>
       /\ SubSeq(line', 1, pos) = SubSeq(line, 1, pos)
       /\ SubSeq(line', pos' + 1, Len(line')) = SubSeq(line, pos + 1, Len(line))
       /\ \A n \in ToSet(Matches) : IsPrefix(Word', n)]_vars
=============================================================================
