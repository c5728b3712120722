---------------------------------- MODULE Ed ----------------------------------
(***************************************************************************)
(* The line editor, userspace/ed.c: the table of lines, each in a block of *)
(* its own from malloc, the files it loads and saves through a buffer of   *)
(* 4096 characters, and its commands.  A text is told from another by its  *)
(* length only.  The kernel's file calls are taken by their results: cat   *)
(* gives the file's beginning, write_file replaces the file or, when the   *)
(* disk is full, loses it.  malloc may fail at any call: it depends on the *)
(* sizes asked for and on what sbrk still gives, which are left out.       *)
(***************************************************************************)
EXTENDS Integers, SequencesExt

CONSTANTS MaxLines,   \* MAX_LINES
          BufSize,    \* the 4096 of load_file and save_file
          MaxLen,     \* bound: the longest text of a line
          Blocks,     \* bound: what malloc can hand out
          Files,      \* names of files
          Stored,     \* what a file may hold when ed starts
          Given,      \* what follows the s of a substitution, see Pattern
          NULL, NoName, NoFile

Texts     == 0 .. MaxLen
Addresses == 0 .. MaxLines + 1
Slash     == -1

ASSUME EdAssumption == /\ MaxLines \in Nat \ {0} /\ BufSize \in Nat \ {0, 1}
                       /\ MaxLen \in Nat /\ IsFiniteSet(Blocks)
                       /\ Stored \subseteq Seq(Texts) \cup {NoFile}
                       /\ Given \subseteq Seq(Nat \cup {Slash})
                       /\ NULL \notin Blocks /\ NoName \notin Files

VARIABLES lines,      \* the table up to line_count
          live, text, \* the blocks malloc has handed out, and their contents
          current,    \* current_line
          filename, modified,
          disk,       \* the files
          pc,         \* command, insert, gone, or wild: a read through NULL
          after,      \* the local of do_insert
          copy,       \* history: the file last loaded or saved
          excuse,     \* history: copy may differ: cut, nomem (a failed
                      \* malloc, or more than MAX_LINES lines) or diskfull
          shown       \* history: a substitution given as h shows it was
                      \* ignored, though its pattern was there

heap == <<live, text>>
vars == <<lines, heap, current, filename, modified, disk, pc, after, copy,
          excuse, shown>>

line_count == Len(lines)
TextOf(ls, tx) == [i \in DOMAIN ls |-> tx[ls[i]]]
Text == TextOf(lines, text)

(* Where the lines of a file end: each takes its text and a newline.       *)
Ends(f) == LET e[n \in 0 .. Len(f)] == IF n = 0 THEN 0 ELSE e[n - 1] + f[n] + 1
           IN  e
Size(f) == Ends(f)[Len(f)]
(* The longest beginning of f of at most n characters, in whole lines.     *)
Whole(f, n) == LET k == CHOOSE j \in 0 .. Len(f) :
                          /\ Ends(f)[j] <= n
                          /\ j = Len(f) \/ Ends(f)[j + 1] > n
               IN  SubSeq(f, 1, k)
(* a mutant: one character less, so that a newline is not all that is cut. *)
ReadSizeShort == BufSize - 3
(* fs_cat keeps one of the 4095 characters for the terminator.             *)
ReadSize == BufSize - 2
(* The lines load_file finds: the last one may be cut off, or lack only    *)
(* its newline.                                                            *)
Read(f) == LET w == Whole(f, ReadSize)
               r == ReadSize - Size(w)
           IN  IF w = f \/ r = 0 THEN w ELSE Append(w, r)
(* save_file stops at the first line that would fill its buffer.           *)
Written(f) == Whole(f, BufSize - 1)

Init ==
  /\ lines = <<>> /\ live = {} /\ text = [b \in Blocks |-> 0]
  /\ current = 0 /\ filename = NoName /\ modified = FALSE
  /\ disk \in [Files -> Stored] /\ pc = "command" /\ after = 0
  /\ copy = NoName /\ excuse = {} /\ shown = "fine"

(* malloc and free of some-libc: a free block is as good as any other.     *)
Malloc == CHOOSE b \in Blocks : b \notin live
Release(bs, tx) == [b \in Blocks |-> IF b \in bs THEN 0 ELSE tx[b]]

(* free_lines, then the lines the table has room for, up to the first for  *)
(* which malloc fails: n of them.                                          *)
LoadedCount(f) == LET room == Cardinality(Blocks \ (live \ ToSet(lines)))
                  IN  Min({Len(f), MaxLines, room})
Load(f, n) ==
  LET g == Read(disk[f])
      kept == live \ ToSet(lines)
      got == SetToSeq(Blocks \ kept)
  IN  /\ lines' = SubSeq(got, 1, n)
      /\ live' = kept \cup ToSet(SubSeq(got, 1, n))
      /\ text' = [b \in Blocks |->
                    IF \E i \in 1 .. n : got[i] = b
                    THEN g[CHOOSE i \in 1 .. n : got[i] = b]
                    ELSE IF b \in kept THEN text[b] ELSE 0]
      /\ current' = 0 /\ filename' = f /\ modified' = FALSE /\ copy' = f
      /\ excuse' = (IF Size(disk[f]) > BufSize - 1 THEN {"cut"} ELSE {})
                   \cup (IF n < Len(g) THEN {"nomem"} ELSE {})

(* The name a w or an e without one means.                                 *)
Named(f) == IF f = NoName THEN filename ELSE f

(* e: refused while there are changes; else load_file.                     *)
Edit(f) ==
  /\ pc = "command" /\ ~modified /\ Named(f) # NoName
  /\ disk[Named(f)] # NoFile
  /\ \E n \in 0 .. LoadedCount(Read(disk[Named(f)])) : Load(Named(f), n)
  /\ UNCHANGED <<disk, pc, after, shown>>

(* w: save_file; the first name given becomes the file's name.             *)
Write(f) ==
  /\ pc = "command" /\ Named(f) # NoName
  /\ IF NULL \in ToSet(lines)
     THEN pc' = "wild" /\ UNCHANGED <<disk, filename, modified, copy, excuse>>
     ELSE /\ disk' = [disk EXCEPT ![Named(f)] = Written(Text)]
          /\ filename' = IF filename = NoName THEN f ELSE filename
          /\ modified' = FALSE /\ copy' = Named(f) /\ pc' = pc
          /\ excuse' = IF Size(Text) > BufSize - 1 THEN {"cut"} ELSE {}
  /\ UNCHANGED <<lines, heap, current, after, shown>>
(* The disk is full: fs_write_file has already deleted the old file.       *)
WriteFails(f) ==
  /\ pc = "command" /\ Named(f) # NoName /\ NULL \notin ToSet(lines)
  /\ \E left \in {NoFile, <<>>} : disk' = [disk EXCEPT ![Named(f)] = left]
  /\ excuse' = excuse \cup (IF Named(f) = copy THEN {"diskfull"} ELSE {})
  /\ UNCHANGED <<lines, heap, current, filename, modified, pc, after, copy, shown>>

(* f: names the file, which changes no text.                               *)
SetFile(f) ==
  /\ pc = "command" /\ filename' = f
  /\ UNCHANGED <<lines, heap, current, modified, disk, pc, after, copy, excuse, shown>>

(* p, n, ,p, $, . and numbers: print_lines moves the current line.         *)
Listed == {<<1, line_count>>, <<line_count, line_count>>}
           \cup {<<a, a>> : a \in (Addresses \cup {current}) \cap 1 .. line_count}
PrintLines(from, to) ==
  /\ pc = "command" /\ line_count > 0 /\ to >= from /\ current' = to
  /\ UNCHANGED <<lines, heap, filename, modified, disk, pc, after, copy, excuse, shown>>

(* a and i with their addresses: where the text goes.  do_insert clamps it.*)
InsertPoints == Addresses \cup {line_count, 0}
                \cup {IF a > 1 THEN a - 1 ELSE 0 : a \in Addresses \cup {current}}
                \cup {IF current >= 1 THEN current ELSE line_count}
Insert(a) ==
  /\ pc = "command" /\ pc' = "insert"
  /\ after' = Max({0, Min({a, line_count})})
  /\ UNCHANGED <<lines, heap, current, filename, modified, disk, copy, excuse, shown>>
(* One round of do_insert: the lines behind make room before malloc is     *)
(* asked, and without memory the place stays NULL and the last line is     *)
(* lost.                                                                   *)
(* mutants: the loop that makes room runs upwards; one line makes room.    *)
ShiftedUp(x) == [i \in 1 .. line_count + 1 |->
                   IF i <= after THEN lines[i] ELSE IF i = after + 1 THEN x
                   ELSE lines[after + 1]]
ShiftedOne(x) == [i \in 1 .. line_count + 1 |->
                   IF i = after + 1 THEN x
                   ELSE IF i = line_count + 1 THEN lines[after + 1] ELSE lines[i]]
Shifted(x) == InsertAt(lines, after + 1, x)
Insertion(t) ==
  /\ live # Blocks
  /\ lines' = Shifted(Malloc) /\ live' = live \cup {Malloc}
  /\ text' = [text EXCEPT ![Malloc] = t]
  /\ after' = after + 1 /\ modified' = TRUE /\ UNCHANGED <<pc, excuse>>
InsertionNoMem ==
  /\ lines' = SubSeq(Shifted(NULL), 1, line_count)
  /\ pc' = "command" /\ after' = 0
  /\ excuse' = IF after < line_count THEN excuse \cup {"nomem"} ELSE excuse
  /\ UNCHANGED <<heap, modified>>
InsertLine(t) ==
  /\ pc = "insert" /\ t > 0 /\ line_count < MaxLines
  /\ Insertion(t) \/ InsertionNoMem
  /\ UNCHANGED <<current, filename, disk, copy, shown>>
(* A line with only a dot, an empty one, or a full table ends the input.   *)
InsertEnd ==
  /\ pc = "insert" /\ pc' = "command" /\ after' = 0
  /\ UNCHANGED <<lines, heap, current, filename, modified, disk, copy, excuse, shown>>

(* d with its addresses: do_delete frees the lines and closes the gap.     *)
Deleted == {<<1, line_count>>, <<line_count, line_count>>}
           \cup Addresses \X Addresses
           \cup {<<a, a>> : a \in {current} \cap 1 .. line_count}
Without(from, to) == SubSeq(lines, 1, from - 1) \o SubSeq(lines, to + 1, line_count)
Delete(a, b) ==
  LET from == Max({a, 1})
      to   == Min({b, line_count})
      gone == ToSet(SubSeq(lines, from, to)) \ {NULL}
  IN  /\ pc = "command" /\ from <= to
      /\ lines' = Without(from, to)
      /\ live' = live \ gone /\ text' = Release(gone, text)
      /\ current' = IF current > Len(lines') /\ lines' # <<>> THEN Len(lines') ELSE current
      /\ modified' = TRUE
      /\ UNCHANGED <<filename, disk, pc, after, copy, excuse, shown>>

(* What follows the s, split at the slashes: the pattern is what stands    *)
(* before the first one.  0 is the empty pattern.                          *)
Pattern(g) == IF g # <<>> /\ g[1] # Slash THEN g[1] ELSE 0
Replacement(g) ==
  LET rest == IF Pattern(g) = 0 THEN g ELSE Tail(g)
      r == IF rest # <<>> /\ rest[1] = Slash THEN Tail(rest) ELSE rest
  IN  IF r # <<>> /\ r[1] # Slash THEN r[1] ELSE 0
(* The form in the help text: s/pat/r/.                                    *)
AsShown(g) == Len(g) = 5 /\ g[1] = Slash /\ g[3] = Slash /\ g[5] = Slash
Ignored(g, a, hit, mem) ==
  /\ AsShown(g) /\ hit /\ mem /\ a \in 1 .. line_count
  /\ lines[a] # NULL /\ g[2] <= text[lines[a]] /\ lines' = lines

(* do_substitute on one line: a new block takes the place of the old one.  *)
Replace(a, t) ==
  LET old == lines[a]
  IN  /\ lines' = [lines EXCEPT ![a] = Malloc]
      /\ live' = (live \cup {Malloc}) \ {old}
      /\ text' = [Release({old}, text) EXCEPT ![Malloc] = t]
      /\ modified' = TRUE
Substituted(g, a, hit, mem) ==
  IF a \notin 1 .. line_count \/ Pattern(g) = 0
  THEN UNCHANGED <<lines, heap, modified, pc>>
  ELSE IF lines[a] = NULL
  THEN pc' = "wild" /\ UNCHANGED <<lines, heap, modified>>
  ELSE LET t == text[lines[a]] - Pattern(g) + Replacement(g)
       IN  IF hit /\ mem /\ Pattern(g) <= text[lines[a]]
           THEN t <= MaxLen /\ Replace(a, t) /\ UNCHANGED pc
           ELSE UNCHANGED <<lines, heap, modified, pc>>
(* s on an address, or on the current line; hit: the pattern is in it,     *)
(* mem: malloc has a block for the new text.                               *)
Substitute(g, a, hit, mem) ==
  /\ pc = "command" /\ (mem => live # Blocks) /\ Substituted(g, a, hit, mem)
  /\ shown' = IF Ignored(g, a, hit, mem) THEN "ignored" ELSE "fine"
  /\ UNCHANGED <<current, filename, disk, after, copy, excuse>>

(* q without changes, and q!.                                              *)
Leave ==
  /\ pc' = "gone" /\ lines' = <<>> /\ current' = 0
  /\ live' = live \ ToSet(lines) /\ text' = Release(ToSet(lines), text)
  /\ UNCHANGED <<filename, modified, disk, after, copy, excuse, shown>>
Quit == pc = "command" /\ ~modified /\ Leave
QuitAnyway == pc = "command" /\ Leave

Next ==
  \/ \E f \in Files \cup {NoName} : Edit(f) \/ Write(f) \/ WriteFails(f)
  \/ \E f \in Files : SetFile(f)
  \/ \E r \in Listed : PrintLines(r[1], r[2])
  \/ \E a \in InsertPoints : Insert(a)
  \/ \E t \in Texts : InsertLine(t)
  \/ InsertEnd
  \/ \E r \in Deleted : Delete(r[1], r[2])
  \/ \E g \in Given, a \in Addresses \cup {Max({current, 1})},
       hit, mem \in BOOLEAN : Substitute(g, a, hit, mem)
  \/ Quit \/ QuitAnyway

Spec == Init /\ [][Next]_vars
-----------------------------------------------------------------------------
(* The type of the state: the table never outgrows MAX_LINES.              *)
TypeOK ==
  /\ lines \in Seq(Blocks \cup {NULL}) /\ line_count <= MaxLines
  /\ live \subseteq Blocks /\ text \in [Blocks -> Texts]
  /\ current \in Addresses /\ filename \in Files \cup {NoName}
  /\ modified \in BOOLEAN /\ pc \in {"command", "insert", "gone", "wild"}
  /\ after \in 0 .. MaxLines /\ copy \in Files \cup {NoName}

(* No two lines share a block and none lies in a freed one, so that no     *)
(* line changes with another and none is freed twice.                      *)
NoAlias ==
  /\ ToSet(lines) \subseteq live \cup {NULL}
  /\ \A i, j \in DOMAIN lines : lines[i] = lines[j] /\ lines[i] # NULL => i = j

(* ed reads through a NULL line only after malloc has failed in the middle *)
(* of an insertion (ed.c:113), since the text was last loaded or saved; a  *)
(* load that malloc or MAX_LINES cut short is excused with it.             *)
WildOnlyWithoutMemory ==
  pc = "wild" \/ NULL \in ToSet(lines) => "nomem" \in excuse

(* The state is well-typed, and the table of lines is sound.               *)
LinesInv == TypeOK /\ NoAlias /\ WildOnlyWithoutMemory

(* A file that just fills the buffer loses an empty last line when loaded, *)
(* the one case where a text that was saved is not the text that is read.  *)
Reread(f) == IF Size(f) = BufSize - 1 /\ Last(f) = 0 THEN {f, Front(f)} ELSE {f}
(* What q would throw away without a warning is in the file last loaded or *)
(* saved, line by line, up to the texts that just fill the buffer.  Four   *)
(* losses that ed does not notice are excused: a text too long for the     *)
(* buffer, a load cut short by malloc or by MAX_LINES, a last line pushed  *)
(* out by an insertion for which malloc failed, and a full disk.           *)
NothingToLose ==
  pc = "command" /\ ~modified /\ excuse = {} /\ copy # NoName
    => Text \in Reread(disk[copy])

(* No command but e changes the order of the lines that stay.              *)
OrderKept ==
  [][~(\E f \in Files \cup {NoName} : Edit(f)) =>
       \A i, j \in DOMAIN lines, k, l \in DOMAIN lines' :
         i < j /\ lines[i] = lines'[k] /\ lines[j] = lines'[l]
           /\ NULL \notin {lines[i], lines[j]} => k < l]_vars

(* A substitution written as the help text shows it, on a line that has    *)
(* the pattern and with memory for the new text, replaces it.              *)
HelpIsRight == shown # "ignored"
=============================================================================
