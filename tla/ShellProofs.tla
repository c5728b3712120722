----------------------------- MODULE ShellProofs -----------------------------
(***************************************************************************)
(* Proofs about the shell: the line editor for every width of the screen,  *)
(* every prompt, set of names and file of the history, and the variables   *)
(* for every size of the table.                                            *)
(***************************************************************************)
EXTENDS LineEditor, ShellEnv, WellFoundedInduction, SequenceTheorems, TLAPS

-----------------------------------------------------------------------------
(* Induction and recursion over data.                                      *)
(* A nonempty set of naturals has a least element.                         *)
LEMMA MinExists ==
  ASSUME NEW T, T \subseteq Nat, T # {}
  PROVE  \E x \in T : \A y \in T : x <= y
<1>1. PICK R : R = OpToRel(<, Nat)
  OBVIOUS
<1>2. IsWellFoundedOn(R, Nat)
  BY <1>1, NatLessThanWellFounded
<1>3. PICK x \in T : \A y \in T : ~(<<y, x>> \in R)
  BY <1>2, WFMin
<1>4. \A y \in T : y < x => <<y, x>> \in R
  BY <1>1 DEF OpToRel
<1>5. \A y \in T : ~(y < x)
  BY <1>3, <1>4
<1>6. \A y \in Nat, z \in Nat : ~(y < z) => z <= y
  OBVIOUS
<1> QED BY <1>5, <1>6

(* Induction, with a set in the place of a predicate.                      *)
LEMMA Induction ==
  ASSUME NEW T, 0 \in T, \A n \in Nat : n \in T => n + 1 \in T
  PROVE  Nat \subseteq T
<1> SUFFICES ASSUME Nat \ T # {} PROVE FALSE
  OBVIOUS
<1>1. PICK x \in Nat \ T : \A y \in Nat \ T : x <= y
  BY MinExists
<1>2. x # 0 /\ x - 1 \in Nat
  BY <1>1
<1>3. x - 1 \in T
  BY <1>1, <1>2
<1> QED BY <1>1, <1>2, <1>3

(* A function defined from its value at the argument before exists.        *)
Exists(X, base, N, h) ==
  \E g \in [0 .. N -> X] : g[0] = base /\ \A n \in 1 .. N : g[n] = h[n][g[n - 1]]
LEMMA Recursion ==
  ASSUME NEW X, NEW base \in X, NEW N \in Nat, NEW h \in [Nat -> [X -> X]]
  PROVE  Exists(X, base, N, h)
<1> DEFINE Is(g, M) == g[0] = base /\ \A n \in 1 .. M : g[n] = h[n][g[n - 1]]
           T == {M \in Nat : \E g \in [0 .. M -> X] : Is(g, M)}
<1>1. 0 \in T
  <2> DEFINE g == [n \in 0 .. 0 |-> base]
  <2>1. g \in [0 .. 0 -> X] /\ Is(g, 0)
    OBVIOUS
  <2> QED BY <2>1
<1>2. ASSUME NEW M \in Nat, M \in T PROVE M + 1 \in T
  <2>1. PICK g \in [0 .. M -> X] : Is(g, M)
    BY <1>2
  <2> DEFINE k == [n \in 0 .. M + 1 |-> IF n = M + 1 THEN h[n][g[M]] ELSE g[n]]
  <2>2. k \in [0 .. M + 1 -> X]
    OBVIOUS
  <2>3. k[0] = base /\ \A n \in 1 .. M : k[n] = h[n][k[n - 1]]
    BY <2>1
  <2>4. k[M + 1] = h[M + 1][k[M]]
    OBVIOUS
  <2>5. Is(k, M + 1)
    <3> HIDE DEF k
    <3> QED BY <2>3, <2>4
  <2>6. M + 1 \in Nat
    OBVIOUS
  <2> QED
    <3> HIDE DEF k, Is
    <3> QED BY <2>2, <2>5, <2>6
<1>3. Nat \subseteq T
  <2> HIDE DEF T
  <2> QED BY <1>1, <1>2, Induction
<1> QED BY <1>3 DEF Exists

-----------------------------------------------------------------------------
(* The screen.                                                             *)
Printed == Glyphs \cup {NewLine, Back}
PromptCol == Len(Prompt)   \* where a prompt ends that begins at column 0

LEMMA Sizes ==
  /\ LineMax \in Nat /\ LineMax > 0 /\ HistSize \in Nat /\ HistSize > 0
  /\ Width \in Nat /\ Height \in Nat /\ Height > 0 /\ PromptCol \in Nat /\ PromptCol < Width
  /\ NewLine \notin Glyphs /\ Back \notin Glyphs /\ Chars \subseteq Glyphs /\ Space \in Glyphs
  /\ Prompt \in Seq(Glyphs) /\ Space # NewLine /\ Space # Back /\ NewLine # Back
<1>1. Prompt \in Seq(Glyphs)
  <2>1. Prompt \in Seq(ToSet(Prompt)) /\ ToSet(Prompt) \subseteq Glyphs
    BY LineAssumption DEF Glyphs
  <2> QED BY <2>1, SeqMonotonic
<1>2. Len(Prompt) \in Nat
  BY <1>1
<1>3. Chars \subseteq Glyphs /\ Space \in Glyphs
  BY DEF Glyphs
<1>4. Space # NewLine /\ Space # Back /\ NewLine # Back
  BY DEF Space, NewLine, Back
<1>5. Width > Len(Prompt) /\ Width \in Nat
  BY LineAssumption
<1>6. PromptCol \in Nat /\ PromptCol < Width
  BY <1>2, <1>5 DEF PromptCol
<1> QED BY <1>1, <1>3, <1>4, <1>5, <1>6, LineAssumption

LEMMA ScreenIs ==
  ASSUME NEW s
  PROVE  s \in Screens <=> /\ s = [row |-> s.row, col |-> s.col, cell |-> s.cell]
                           /\ s.row \in 0 .. Height - 1 /\ s.col \in 0 .. Width - 1
                           /\ s.cell \in [0 .. Height - 1 -> [0 .. Width - 1 -> Glyphs]]
  BY DEF Screens

LEMMA BlankIs == Blank \in [0 .. Width - 1 -> Glyphs] /\ \A x \in 0 .. Width - 1 : Blank[x] = Space
  BY Sizes DEF Blank

(* Whatever comes below the cursor's row is blank.                         *)
BlankBelow(s) == \A y \in s.row + 1 .. Height - 1 : s.cell[y] = Blank

(* The screen has moved up a row, or the cursor down.                      *)
IsPlaced(s, r, c, t) ==
  /\ t \in Screens
  /\ r < Height /\ c < Width => t = [s EXCEPT !.row = r, !.col = c]
  /\ BlankBelow(s) /\ r >= s.row => BlankBelow(t)
  /\ c < Width => t.col = c
  /\ BlankBelow(s) /\ r = s.row + 1 /\ c < Width => t.cell[t.row] = Blank
  /\ BlankBelow(s) /\ r = s.row /\ c = Width => t.cell[t.row] = Blank /\ t.col = 0
LEMMA PlacedIs ==
  ASSUME NEW s \in Screens, NEW r \in 0 .. Height, NEW c \in 0 .. Width, r < Height \/ c < Width,
         r < Height \/ s.row = Height - 1
  PROVE  IsPlaced(s, r, c, Placed(s, r, c))
<1>0. /\ Width \in Nat /\ Height \in Nat /\ Height > 0 /\ Width > 0
      /\ s.row \in 0 .. Height - 1 /\ s.col \in 0 .. Width - 1
      /\ s.cell \in [0 .. Height - 1 -> [0 .. Width - 1 -> Glyphs]]
      /\ s = [row |-> s.row, col |-> s.col, cell |-> s.cell]
  BY Sizes, ScreenIs
<1>1. PICK r2 : r2 = IF c >= Width THEN r + 1 ELSE r
  OBVIOUS
<1>2. PICK c2 : c2 = IF c >= Width THEN 0 ELSE c
  OBVIOUS
<1>3. r2 \in Nat /\ c2 \in 0 .. Width - 1 /\ r2 <= Height
  BY <1>0, <1>1, <1>2
<1>4. PICK t : t = [s EXCEPT !.row = r2, !.col = c2]
  OBVIOUS
<1>5. t.row = r2 /\ t.col = c2 /\ t.cell = s.cell /\ t = [row |-> r2, col |-> c2, cell |-> s.cell]
  BY <1>0, <1>4
<1>6. Placed(s, r, c) = IF r2 >= Height THEN Scrolled(t) ELSE t
  <2>1. (IF c >= Width THEN [s EXCEPT !.row = r + 1, !.col = 0] ELSE [s EXCEPT !.row = r, !.col = c]) = t
    BY <1>1, <1>2, <1>4
  <2> QED BY <1>5, <2>1 DEF Placed
<1>7. CASE r2 < Height
  <2>1. Placed(s, r, c) = t /\ r2 \in 0 .. Height - 1
    BY <1>0, <1>3, <1>6, <1>7
  <2>2. t \in Screens
    BY <1>0, <1>3, <1>5, <2>1, ScreenIs
  <2>3. r < Height /\ c < Width => t = [s EXCEPT !.row = r, !.col = c]
    <3> SUFFICES ASSUME r < Height, c < Width PROVE t = [s EXCEPT !.row = r, !.col = c]
      OBVIOUS
    <3>1. r2 = r /\ c2 = c
      BY <1>0, <1>1, <1>2
    <3> QED BY <1>4, <3>1
  <2>4. BlankBelow(s) /\ r >= s.row => BlankBelow(t)
    BY <1>0, <1>1, <1>5 DEF BlankBelow
  <2>5. BlankBelow(s) /\ r = s.row + 1 /\ c < Width => t.cell[t.row] = Blank
    BY <1>0, <1>1, <1>2, <1>5, <2>1 DEF BlankBelow
  <2>6. c < Width => t.col = c
    BY <1>0, <1>2, <1>5
  <2>7. BlankBelow(s) /\ r = s.row /\ c = Width => t.cell[t.row] = Blank /\ t.col = 0
    BY <1>0, <1>1, <1>2, <1>5, <2>1 DEF BlankBelow
  <2> QED BY <2>1, <2>2, <2>3, <2>4, <2>5, <2>6, <2>7 DEF IsPlaced
<1>8. CASE ~(r2 < Height)
  <2>1. Placed(s, r, c) = Scrolled(t)
    BY <1>0, <1>3, <1>6, <1>8
  <2>2. PICK u : u = Scrolled(t)
    OBVIOUS
  <2>3. PICK w : w = [y \in 0 .. Height - 1 |-> IF y < Height - 1 THEN s.cell[y + 1] ELSE Blank]
    OBVIOUS
  <2>4. u = [row |-> Height - 1, col |-> c2, cell |-> w]
    BY <1>5, <2>2, <2>3 DEF Scrolled
  <2>5. w \in [0 .. Height - 1 -> [0 .. Width - 1 -> Glyphs]]
    <3>1. \A y \in 0 .. Height - 1 : y < Height - 1 => y + 1 \in 0 .. Height - 1
      BY <1>0
    <3>2. \A y \in 0 .. Height - 1 : w[y] \in [0 .. Width - 1 -> Glyphs]
      <4> TAKE y \in 0 .. Height - 1
      <4>1. w[y] = IF y < Height - 1 THEN s.cell[y + 1] ELSE Blank
        BY <2>3
      <4>2. y < Height - 1 => s.cell[y + 1] \in [0 .. Width - 1 -> Glyphs]
        BY <1>0, <3>1
      <4> QED BY <4>1, <4>2, BlankIs
    <3> QED BY <2>3, <3>2
  <2>6. u.row = Height - 1 /\ u.col = c2 /\ u.cell = w /\ Height - 1 \in 0 .. Height - 1
    BY <1>0, <2>4
  <2>7. u \in Screens
    BY <1>3, <2>4, <2>5, <2>6, ScreenIs
  <2>8. BlankBelow(u)
    BY <1>0, <2>6 DEF BlankBelow
  <2>9. u.cell[u.row] = Blank
    BY <1>0, <2>3, <2>6
  <2>10. c < Width => u.col = c
    BY <1>0, <1>2, <2>6
  <2>11. ~(r < Height /\ c < Width)
    BY <1>0, <1>1, <1>8
  <2>12. c = Width => u.col = 0
    BY <1>0, <1>2, <2>6
  <2> QED BY <2>1, <2>2, <2>7, <2>8, <2>9, <2>10, <2>11, <2>12 DEF IsPlaced
<1> QED BY <1>0, <1>3, <1>7, <1>8

(* A character on the screen.                                              *)
LEMMA DrawnIs ==
  ASSUME NEW s \in Screens, NEW c \in Glyphs
  PROVE  LET t == [s EXCEPT !.cell[s.row][s.col] = c]
         IN  /\ t \in Screens /\ t.row = s.row /\ t.col = s.col
             /\ t.cell = [s.cell EXCEPT ![s.row] = [@ EXCEPT ![s.col] = c]]
             /\ BlankBelow(s) => BlankBelow(t)
<1> DEFINE t == [s EXCEPT !.cell[s.row][s.col] = c]
<1>0. /\ Width \in Nat /\ Height \in Nat /\ Height > 0 /\ Width > 0
      /\ s.row \in 0 .. Height - 1 /\ s.col \in 0 .. Width - 1
      /\ s.cell \in [0 .. Height - 1 -> [0 .. Width - 1 -> Glyphs]]
      /\ s = [row |-> s.row, col |-> s.col, cell |-> s.cell]
  BY Sizes, ScreenIs
<1>1. PICK w : w = [s.cell EXCEPT ![s.row] = [@ EXCEPT ![s.col] = c]]
  OBVIOUS
<1>2. w \in [0 .. Height - 1 -> [0 .. Width - 1 -> Glyphs]]
  BY <1>0, <1>1
<1>3. t = [row |-> s.row, col |-> s.col, cell |-> w]
  <2>1. PICK r \in 0 .. Height - 1 : r = s.row
    BY <1>0
  <2>2. PICK k \in 0 .. Width - 1 : k = s.col
    BY <1>0
  <2>3. PICK m \in [0 .. Height - 1 -> [0 .. Width - 1 -> Glyphs]] : m = s.cell
    BY <1>0
  <2>4. s = [row |-> r, col |-> k, cell |-> m] /\ w = [m EXCEPT ![r] = [@ EXCEPT ![k] = c]]
    BY <1>0, <1>1, <2>1, <2>2, <2>3
  <2>5. t = [s EXCEPT !.cell[r][k] = c]
    BY <2>1, <2>2
  <2>6. [s EXCEPT !.cell[r][k] = c] = [row |-> r, col |-> k, cell |-> w]
    BY <2>4
  <2> QED BY <2>1, <2>2, <2>5, <2>6
<1>4. \A y \in s.row + 1 .. Height - 1 : w[y] = s.cell[y]
  BY <1>0, <1>1
<1>5. t.row = s.row /\ t.col = s.col /\ t.cell = w
  BY <1>3
<1> HIDE DEF t
<1>6. t \in Screens
  BY <1>0, <1>2, <1>3, <1>5, ScreenIs
<1>7. BlankBelow(s) => BlankBelow(t)
  BY <1>4, <1>5 DEF BlankBelow
<1> QED BY <1>1, <1>5, <1>6, <1>7 DEF t

IsPutChar(s, c, t) ==
  /\ t \in Screens /\ (BlankBelow(s) => BlankBelow(t))
  /\ c = NewLine => t.col = 0
  /\ c = NewLine /\ BlankBelow(s) => t.cell[t.row] = Blank
  /\ c \in Glyphs /\ s.col + 1 = Width /\ BlankBelow(s) => t.cell[t.row] = Blank /\ t.col = 0
  /\ c \in Glyphs /\ s.col + 1 < Width =>
       /\ t.row = s.row /\ t.col = s.col + 1
       /\ t.cell = [s.cell EXCEPT ![s.row] = [@ EXCEPT ![s.col] = c]]
  /\ c = Back /\ s.col > 0 => t.row = s.row /\ t.col = s.col - 1 /\ t.cell = s.cell
LEMMA PutCharIs ==
  ASSUME NEW s \in Screens, NEW c \in Printed
  PROVE  IsPutChar(s, c, PutChar(s, c))
<1>0. /\ Width \in Nat /\ Height \in Nat /\ Height > 0 /\ Width > 0
      /\ s.row \in 0 .. Height - 1 /\ s.col \in 0 .. Width - 1
      /\ s.cell \in [0 .. Height - 1 -> [0 .. Width - 1 -> Glyphs]]
      /\ s = [row |-> s.row, col |-> s.col, cell |-> s.cell]
  BY Sizes, ScreenIs
<1>1. CASE c = NewLine
  <2>1. PutChar(s, c) = Placed(s, s.row + 1, 0)
    BY <1>1, Sizes DEF PutChar
  <2>2. s.row + 1 \in 0 .. Height /\ 0 \in 0 .. Width /\ 0 < Width
        /\ (s.row + 1 < Height \/ s.row = Height - 1) /\ s.row + 1 >= s.row
    BY <1>0
  <2>3. PICK r : r = s.row + 1
    OBVIOUS
  <2>4. /\ Placed(s, r, 0) \in Screens
        /\ BlankBelow(s) => BlankBelow(Placed(s, r, 0))
        /\ Placed(s, r, 0).col = 0
        /\ BlankBelow(s) => Placed(s, r, 0).cell[Placed(s, r, 0).row] = Blank
    <3>1. r \in 0 .. Height /\ 0 \in 0 .. Width /\ (r < Height \/ 0 < Width)
          /\ (r < Height \/ s.row = Height - 1) /\ r >= s.row /\ r = s.row + 1 /\ 0 < Width
      BY <2>2, <2>3
    <3>2. IsPlaced(s, r, 0, Placed(s, r, 0))
      BY <3>1, PlacedIs, Zenon
    <3> QED BY <3>1, <3>2 DEF IsPlaced
  <2> QED BY <1>1, <2>1, <2>3, <2>4, Sizes DEF IsPutChar
<1>2. CASE c = Back
  <2>1. PutChar(s, c) = IF s.col > 0 THEN [s EXCEPT !.col = @ - 1] ELSE s
    BY <1>2, Sizes DEF PutChar
  <2>2. CASE s.col > 0
    <3>1. PICK t : t = [s EXCEPT !.col = @ - 1]
      OBVIOUS
    <3>2. t = [row |-> s.row, col |-> s.col - 1, cell |-> s.cell]
      BY <1>0, <3>1
    <3>3. t.row = s.row /\ t.col = s.col - 1 /\ t.cell = s.cell
      BY <3>2
    <3>4. s.col - 1 \in 0 .. Width - 1
      BY <1>0, <2>2
    <3>5. t \in Screens
      BY <1>0, <3>2, <3>3, <3>4, ScreenIs
    <3>6. BlankBelow(s) => BlankBelow(t)
      BY <3>3 DEF BlankBelow
    <3> QED BY <1>2, <2>1, <2>2, <3>1, <3>3, <3>5, <3>6, Sizes DEF IsPutChar
  <2>3. CASE ~(s.col > 0)
    BY <1>2, <2>1, <2>3, Sizes DEF IsPutChar
  <2> QED BY <2>2, <2>3
<1>3. CASE c \in Glyphs
  <2>0. c # NewLine /\ c # Back
    BY <1>3, Sizes
  <2>1. PICK t : t = [s EXCEPT !.cell[s.row][s.col] = c]
    OBVIOUS
  <2>2. /\ t \in Screens /\ t.row = s.row /\ t.col = s.col
        /\ t.cell = [s.cell EXCEPT ![s.row] = [@ EXCEPT ![s.col] = c]]
        /\ BlankBelow(s) => BlankBelow(t)
    BY <1>3, <2>1, DrawnIs
  <2>3. PutChar(s, c) = Placed(t, s.row, s.col + 1)
    BY <2>0, <2>1 DEF PutChar
  <2>4. PICK k : k = s.col + 1
    OBVIOUS
  <2>5. PICK r : r = s.row
    OBVIOUS
  <2>6. r \in 0 .. Height /\ k \in 0 .. Width /\ r < Height /\ r >= t.row
    BY <1>0, <2>2, <2>4, <2>5
  <2>7. /\ Placed(t, r, k) \in Screens
        /\ k < Width => Placed(t, r, k) = [t EXCEPT !.row = r, !.col = k]
        /\ BlankBelow(t) => BlankBelow(Placed(t, r, k))
        /\ BlankBelow(t) /\ k = Width =>
             Placed(t, r, k).cell[Placed(t, r, k).row] = Blank /\ Placed(t, r, k).col = 0
    <3>1. t \in Screens /\ r \in 0 .. Height /\ k \in 0 .. Width /\ (r < Height \/ k < Width)
          /\ (r < Height \/ t.row = Height - 1) /\ r >= t.row /\ r < Height /\ r = t.row
      BY <2>2, <2>5, <2>6
    <3>2. IsPlaced(t, r, k, Placed(t, r, k))
      BY <3>1, PlacedIs, Zenon
    <3> QED BY <3>1, <3>2 DEF IsPlaced
  <2>8. PICK u : u = PutChar(s, c)
    OBVIOUS
  <2>9. u \in Screens /\ (BlankBelow(s) => BlankBelow(u)) /\ (k < Width => u = [t EXCEPT !.row = r, !.col = k])
    BY <2>2, <2>3, <2>4, <2>5, <2>7, <2>8
  <2>10. k < Width => u.row = r /\ u.col = k /\ u.cell = t.cell
    BY <2>2, <2>9 DEF Screens
  <2>11. BlankBelow(s) /\ k = Width => u.cell[u.row] = Blank /\ u.col = 0
    BY <2>2, <2>3, <2>4, <2>5, <2>7, <2>8
  <2> QED BY <2>0, <2>2, <2>4, <2>5, <2>8, <2>9, <2>10, <2>11 DEF IsPutChar
<1> QED BY <1>1, <1>2, <1>3 DEF Printed

(* What putchar leaves, one character after another.                       *)
PutSteps(s, cs, g) ==
  /\ g \in [0 .. Len(cs) -> Screens] /\ g[0] = s
  /\ \A n \in 1 .. Len(cs) : g[n] = PutChar(g[n - 1], cs[n])
LEMMA PutIs ==
  ASSUME NEW s \in Screens, NEW cs \in Seq(Printed)
  PROVE  \E g : PutSteps(s, cs, g) /\ Put(s, cs) = g[Len(cs)]
<1> DEFINE h == [n \in Nat |-> [x \in Screens |-> IF n \in 1 .. Len(cs) THEN PutChar(x, cs[n]) ELSE x]]
           D(g) == [n \in 0 .. Len(cs) |-> IF n = 0 THEN s ELSE PutChar(g[n - 1], cs[n])]
<1>0. Len(cs) \in Nat /\ s \in Screens
  OBVIOUS
<1>1. \A n \in 1 .. Len(cs), x \in Screens : PutChar(x, cs[n]) \in Screens
  <2> TAKE n \in 1 .. Len(cs), x \in Screens
  <2>1. cs[n] \in Printed
    OBVIOUS
  <2> QED BY <2>1, PutCharIs, Zenon DEF IsPutChar
<1>2. h \in [Nat -> [Screens -> Screens]]
  BY <1>1
<1>3. PICK g \in [0 .. Len(cs) -> Screens] :
        g[0] = s /\ \A n \in 1 .. Len(cs) : g[n] = h[n][g[n - 1]]
  <2>1. Exists(Screens, s, Len(cs), h)
    <3> HIDE DEF h
    <3> QED BY <1>0, <1>2, Recursion, Zenon
  <2> HIDE DEF h
  <2> QED BY <2>1 DEF Exists
<1>4. g = D(g)
  <2>1. ASSUME NEW n \in 1 .. Len(cs) PROVE g[n] = PutChar(g[n - 1], cs[n])
    <3>1. n \in Nat /\ n - 1 \in 0 .. Len(cs)
      BY <1>0
    <3>2. g[n - 1] \in Screens
      <4> HIDE DEF h
      <4> QED BY <1>3, <3>1
    <3>3. PICK y \in Screens : y = g[n - 1]
      BY <3>2
    <3>4. h[n][y] = PutChar(y, cs[n])
      BY <3>1
    <3>5. g[n] = h[n][g[n - 1]]
      BY <1>3
    <3> HIDE DEF h
    <3> QED BY <3>3, <3>4, <3>5
  <2>2. g[0] = s /\ DOMAIN g = 0 .. Len(cs)
    <3> HIDE DEF h
    <3> QED BY <1>3, <1>0
  <2>3. \A n \in 0 .. Len(cs) : n = 0 \/ n \in 1 .. Len(cs)
    BY <1>0
  <2>4. \A n \in 0 .. Len(cs) : g[n] = D(g)[n]
    <3> HIDE DEF h
    <3> QED BY <2>1, <2>2, <2>3
  <2>5. g = [n \in 0 .. Len(cs) |-> g[n]] /\ D(g) = [n \in 0 .. Len(cs) |-> D(g)[n]]
    <3> HIDE DEF h
    <3> QED OBVIOUS
  <2> HIDE DEF h, D
  <2> QED BY <2>4, <2>5
<1>5. PICK k : k = CHOOSE fn : fn = D(fn)
  OBVIOUS
<1>6. k = D(k)
  <2> HIDE DEF h, D
  <2> QED BY <1>4, <1>5
<1>7. Put(s, cs) = k[Len(cs)]
  BY <1>5 DEF Put
<1>8. k[0] = s /\ DOMAIN k = 0 .. Len(cs)
  BY <1>6, <1>0
<1>9. \A n \in 1 .. Len(cs) : k[n] = PutChar(k[n - 1], cs[n])
  <2> TAKE n \in 1 .. Len(cs)
  <2>1. n \in 0 .. Len(cs) /\ n # 0
    BY <1>0
  <2>2. k[n] = D(k)[n]
    <3> HIDE DEF D
    <3> QED BY <1>6
  <2>3. D(k)[n] = PutChar(k[n - 1], cs[n])
    BY <2>1
  <2> QED BY <2>2, <2>3
<1>10. k \in [0 .. Len(cs) -> Screens]
  <2> DEFINE S == {n \in Nat : n <= Len(cs) => k[n] \in Screens}
  <2>1. 0 \in S
    BY <1>0, <1>8
  <2>2. ASSUME NEW n \in Nat, n \in S PROVE n + 1 \in S
    <3> SUFFICES ASSUME n + 1 <= Len(cs) PROVE k[n + 1] \in Screens
      OBVIOUS
    <3>1. k[n] \in Screens /\ n + 1 \in 1 .. Len(cs) /\ (n + 1) - 1 = n
      BY <2>2, <1>0
    <3>2. PICK y \in Screens : y = k[n]
      BY <3>1
    <3>3. k[n + 1] = PutChar(y, cs[n + 1])
      BY <1>9, <3>1, <3>2
    <3> QED BY <3>1, <3>3, <1>1
  <2>3. Nat \subseteq S
    <3> HIDE DEF S
    <3> QED BY <2>1, <2>2, Induction
  <2>4. k = [n \in 0 .. Len(cs) |-> k[n]]
    <3>1. D(k) = [n \in 0 .. Len(cs) |-> D(k)[n]]
      OBVIOUS
    <3> HIDE DEF D
    <3> QED BY <1>6, <3>1
  <2> QED BY <2>3, <2>4, <1>0
<1> QED BY <1>7, <1>8, <1>9, <1>10 DEF PutSteps

LEMMA PutTyped ==
  ASSUME NEW s \in Screens, NEW cs \in Seq(Printed)
  PROVE  Put(s, cs) \in Screens /\ (BlankBelow(s) => BlankBelow(Put(s, cs)))
<1>0. Len(cs) \in Nat
  OBVIOUS
<1>1. PICK g : PutSteps(s, cs, g) /\ Put(s, cs) = g[Len(cs)]
  BY PutIs
<1>2. /\ g \in [0 .. Len(cs) -> Screens] /\ g[0] = s
      /\ \A n \in 1 .. Len(cs) : g[n] = PutChar(g[n - 1], cs[n])
  BY <1>1 DEF PutSteps
<1> DEFINE S == {n \in Nat : n <= Len(cs) /\ BlankBelow(s) => BlankBelow(g[n])}
<1>3. 0 \in S
  BY <1>2
<1>4. ASSUME NEW n \in Nat, n \in S PROVE n + 1 \in S
  <2> SUFFICES ASSUME n + 1 <= Len(cs), BlankBelow(s) PROVE BlankBelow(g[n + 1])
    OBVIOUS
  <2>1. n \in 0 .. Len(cs) /\ n + 1 \in 1 .. Len(cs) /\ (n + 1) - 1 = n
    BY <1>0
  <2>2. BlankBelow(g[n])
    BY <1>0, <1>4
  <2>3. g[n] \in Screens /\ cs[n + 1] \in Printed /\ g[n + 1] = PutChar(g[n], cs[n + 1])
    BY <1>2, <2>1
  <2>4. PICK t \in Screens : t = g[n]
    BY <2>3
  <2>5. PICK c \in Printed : c = cs[n + 1]
    BY <2>3
  <2>6. BlankBelow(t) => BlankBelow(PutChar(t, c))
    BY PutCharIs, Zenon DEF IsPutChar
  <2> QED BY <2>2, <2>3, <2>4, <2>5, <2>6
<1>5. Nat \subseteq S
  <2> HIDE DEF S
  <2> QED BY <1>3, <1>4, Induction
<1>6. g[Len(cs)] \in Screens
  BY <1>0, <1>2
<1>7. Len(cs) \in S
  <2> HIDE DEF S
  <2> QED BY <1>0, <1>5
<1> QED BY <1>0, <1>1, <1>6, <1>7

(* Everything from the cursor on is blank, and text leaves it so.          *)
Open(s) == BlankBelow(s) /\ \A x \in s.col .. Width - 1 : s.cell[s.row][x] = Space
LEMMA PutCharOpen ==
  ASSUME NEW s \in Screens, NEW c \in Glyphs \cup {NewLine}, Open(s)
  PROVE  Open(PutChar(s, c))
<1>0. /\ s.row \in 0 .. Height - 1 /\ s.col \in 0 .. Width - 1 /\ Width \in Nat /\ Height \in Nat
      /\ s.cell \in [0 .. Height - 1 -> [0 .. Width - 1 -> Glyphs]] /\ c \in Printed
  BY ScreenIs, Sizes DEF Printed
<1>1. PICK t : t = PutChar(s, c)
  OBVIOUS
<1>2. IsPutChar(s, c, t)
  BY <1>0, <1>1, PutCharIs, Zenon
<1>3. BlankBelow(s) /\ \A x \in s.col .. Width - 1 : s.cell[s.row][x] = Space
  BY DEF Open
<1>4. t \in Screens /\ BlankBelow(t)
  BY <1>2, <1>3 DEF IsPutChar
<1>5. ASSUME t.cell[t.row] = Blank, t.col = 0 PROVE Open(t)
  BY <1>4, <1>5, BlankIs DEF Open
<1>6. CASE c = NewLine
  <2>1. t.cell[t.row] = Blank /\ t.col = 0
    BY <1>2, <1>3, <1>6 DEF IsPutChar
  <2> QED BY <1>1, <1>5, <2>1
<1>7. CASE c \in Glyphs /\ s.col + 1 = Width
  <2>1. t.cell[t.row] = Blank /\ t.col = 0
    BY <1>2, <1>3, <1>7 DEF IsPutChar
  <2> QED BY <1>1, <1>5, <2>1
<1>8. CASE c \in Glyphs /\ s.col + 1 # Width
  <2>1. s.col + 1 < Width
    BY <1>0, <1>8
  <2>2. /\ t.row = s.row /\ t.col = s.col + 1
        /\ t.cell = [s.cell EXCEPT ![s.row] = [@ EXCEPT ![s.col] = c]]
    BY <1>2, <1>8, <2>1 DEF IsPutChar
  <2>3. \A x \in 0 .. Width - 1 : x # s.col => t.cell[s.row][x] = s.cell[s.row][x]
    BY <1>0, <2>2
  <2>4. ASSUME NEW x \in t.col .. Width - 1 PROVE t.cell[t.row][x] = Space
    <3>1. x \in 0 .. Width - 1 /\ x # s.col /\ x \in s.col .. Width - 1
      BY <1>0, <2>2
    <3> QED BY <1>3, <2>2, <2>3, <3>1
  <2> QED BY <1>1, <1>4, <2>4 DEF Open
<1> QED BY <1>6, <1>7, <1>8

LEMMA PutOpen ==
  ASSUME NEW s \in Screens, NEW cs \in Seq(Glyphs \cup {NewLine}), Open(s)
  PROVE  Put(s, cs) \in Screens /\ Open(Put(s, cs))
<1>0. Len(cs) \in Nat /\ cs \in Seq(Printed)
  <2>1. Glyphs \cup {NewLine} \subseteq Printed
    BY DEF Printed
  <2> QED BY <2>1, SeqMonotonic
<1>1. PICK g : PutSteps(s, cs, g) /\ Put(s, cs) = g[Len(cs)]
  BY <1>0, PutIs
<1>2. /\ g \in [0 .. Len(cs) -> Screens] /\ g[0] = s
      /\ \A n \in 1 .. Len(cs) : g[n] = PutChar(g[n - 1], cs[n])
  BY <1>1 DEF PutSteps
<1> DEFINE S == {n \in Nat : n <= Len(cs) => Open(g[n])}
<1>3. 0 \in S
  BY <1>2
<1>4. ASSUME NEW n \in Nat, n \in S PROVE n + 1 \in S
  <2> SUFFICES ASSUME n + 1 <= Len(cs) PROVE Open(g[n + 1])
    OBVIOUS
  <2>1. n \in 0 .. Len(cs) /\ n + 1 \in 1 .. Len(cs) /\ (n + 1) - 1 = n
    BY <1>0
  <2>2. Open(g[n])
    BY <1>0, <1>4
  <2>3. g[n] \in Screens /\ cs[n + 1] \in Glyphs \cup {NewLine} /\ g[n + 1] = PutChar(g[n], cs[n + 1])
    BY <1>2, <2>1
  <2> QED BY <2>2, <2>3, PutCharOpen
<1>5. Nat \subseteq S
  <2> HIDE DEF S
  <2> QED BY <1>3, <1>4, Induction
<1>6. g[Len(cs)] \in Screens
  BY <1>0, <1>2
<1>7. Len(cs) \in S
  <2> HIDE DEF S
  <2> QED BY <1>0, <1>5
<1> QED BY <1>0, <1>1, <1>6, <1>7

LEMMA ClearedIs == Cleared \in Screens /\ Open(Cleared)
<1>0. Height \in Nat /\ Height > 0 /\ Width \in Nat /\ Width > 0
  BY Sizes
<1>1. PICK m : m = [y \in 0 .. Height - 1 |-> Blank]
  OBVIOUS
<1>2. m \in [0 .. Height - 1 -> [0 .. Width - 1 -> Glyphs]] /\ \A y \in 0 .. Height - 1 : m[y] = Blank
  BY <1>1, BlankIs
<1>3. PICK s : s = Cleared
  OBVIOUS
<1>4. s = [row |-> 0, col |-> 0, cell |-> m] /\ s.row = 0 /\ s.col = 0 /\ s.cell = m
  BY <1>1, <1>3 DEF Cleared
<1>5. s \in Screens
  BY <1>0, <1>2, <1>4, ScreenIs
<1>6. BlankBelow(s) /\ s.cell[s.row] = Blank
  BY <1>0, <1>2, <1>4 DEF BlankBelow
<1>7. Open(s)
  BY <1>4, <1>6, BlankIs DEF Open
<1> QED BY <1>3, <1>5, <1>7

LEMMA AllPrinted ==
  ASSUME NEW cs \in Seq(Glyphs)
  PROVE  cs \in Seq(Printed) /\ Len(cs) \in Nat /\ \A i \in 1 .. Len(cs) : cs[i] \in Glyphs
<1>1. Glyphs \subseteq Printed
  BY DEF Printed
<1> QED BY <1>1, SeqMonotonic

(* Characters that stay in the cursor's row.                               *)
InRow(s, cs, t) ==
  /\ t \in Screens /\ t.row = s.row /\ t.col = s.col + Len(cs)
  /\ \A y \in 0 .. Height - 1 : y # s.row => t.cell[y] = s.cell[y]
  /\ \A x \in 0 .. Width - 1 :
       t.cell[s.row][x] = IF s.col <= x /\ x < s.col + Len(cs) THEN cs[x - s.col + 1]
                          ELSE s.cell[s.row][x]
LEMMA PutInRow ==
  ASSUME NEW s \in Screens, NEW cs \in Seq(Glyphs), s.col + Len(cs) < Width
  PROVE  InRow(s, cs, Put(s, cs))
<1>0. /\ Len(cs) \in Nat /\ cs \in Seq(Printed) /\ \A i \in 1 .. Len(cs) : cs[i] \in Glyphs
      /\ s.row \in 0 .. Height - 1 /\ s.col \in 0 .. Width - 1 /\ Width \in Nat /\ Height \in Nat
  BY AllPrinted, ScreenIs, Sizes
<1>1. PICK g : PutSteps(s, cs, g) /\ Put(s, cs) = g[Len(cs)]
  BY <1>0, PutIs
<1>2. /\ g \in [0 .. Len(cs) -> Screens] /\ g[0] = s
      /\ \A n \in 1 .. Len(cs) : g[n] = PutChar(g[n - 1], cs[n])
  BY <1>1 DEF PutSteps
<1> DEFINE P(n) == /\ g[n].row = s.row /\ g[n].col = s.col + n
                   /\ \A y \in 0 .. Height - 1 : y # s.row => g[n].cell[y] = s.cell[y]
                   /\ \A x \in 0 .. Width - 1 :
                        g[n].cell[s.row][x] = IF s.col <= x /\ x < s.col + n THEN cs[x - s.col + 1]
                                              ELSE s.cell[s.row][x]
           S == {n \in Nat : n <= Len(cs) => P(n)}
<1>3. 0 \in S
  BY <1>0, <1>2
<1>4. ASSUME NEW n \in Nat, n \in S PROVE n + 1 \in S
  <2> SUFFICES ASSUME n + 1 <= Len(cs) PROVE P(n + 1)
    OBVIOUS
  <2>1. n \in 0 .. Len(cs) /\ n + 1 \in 1 .. Len(cs) /\ (n + 1) - 1 = n /\ n + 1 \in 0 .. Len(cs)
    BY <1>0
  <2>2. P(n)
    <3> HIDE DEF P
    <3> QED BY <1>0, <1>4, <2>1
  <2>3. PICK t \in Screens : t = g[n]
    BY <1>2, <2>1
  <2>4. PICK c \in Glyphs : c = cs[n + 1]
    BY <1>0, <2>1
  <2>5. g[n + 1] = PutChar(t, c)
    BY <1>2, <2>1, <2>3, <2>4
  <2>6. t.row = s.row /\ t.col = s.col + n /\ t.col + 1 < Width
    BY <1>0, <2>1, <2>2, <2>3
  <2>7. PICK u \in Screens : u = g[n + 1]
    BY <1>2, <2>1
  <2>8. /\ u.row = t.row /\ u.col = t.col + 1
        /\ u.cell = [t.cell EXCEPT ![t.row] = [@ EXCEPT ![t.col] = c]]
    <3>1. c \in Printed
      BY DEF Printed
    <3>2. IsPutChar(t, c, u)
      BY <3>1, <2>5, <2>7, PutCharIs, Zenon
    <3> QED BY <3>2, <2>6 DEF IsPutChar
  <2>9. t.cell \in [0 .. Height - 1 -> [0 .. Width - 1 -> Glyphs]] /\ t.row \in 0 .. Height - 1
        /\ t.col \in 0 .. Width - 1
    BY ScreenIs
  <2>10. \A y \in 0 .. Height - 1 : y # t.row => u.cell[y] = t.cell[y]
    BY <2>8, <2>9
  <2>11. \A x \in 0 .. Width - 1 : u.cell[t.row][x] = IF x = t.col THEN c ELSE t.cell[t.row][x]
    BY <2>8, <2>9
  <2>a. PICK q \in Nat : q = s.col
    BY <1>0
  <2>12. u.row = s.row /\ u.col = s.col + (n + 1)
    <3>1. u.col = (q + n) + 1
      BY <2>6, <2>8, <2>a
    <3>2. (q + n) + 1 = q + (n + 1)
      OBVIOUS
    <3> QED BY <2>6, <2>8, <2>a, <3>1, <3>2
  <2>13. \A y \in 0 .. Height - 1 : y # s.row => u.cell[y] = s.cell[y]
    BY <2>2, <2>3, <2>6, <2>10
  <2>14. ASSUME NEW x \in 0 .. Width - 1
         PROVE  u.cell[s.row][x] = IF s.col <= x /\ x < s.col + (n + 1) THEN cs[x - s.col + 1]
                                   ELSE s.cell[s.row][x]
    <3>1. u.cell[s.row][x] = IF x = s.col + n THEN c ELSE t.cell[s.row][x]
      BY <2>6, <2>11
    <3>2. t.cell[s.row][x] = IF s.col <= x /\ x < s.col + n THEN cs[x - s.col + 1]
                             ELSE s.cell[s.row][x]
      BY <2>2, <2>3
    <3>3. CASE x = s.col + n
      <4>1. x - s.col + 1 = n + 1 /\ s.col <= x /\ x < s.col + (n + 1)
        BY <1>0, <3>3
      <4> QED BY <4>1, <3>1, <3>3, <2>4
    <3>4. CASE x # s.col + n
      <4>1. (s.col <= x /\ x < s.col + n) <=> (s.col <= x /\ x < s.col + (n + 1))
        <5>1. x \in Int /\ x # q + n
          BY <1>0, <2>a, <3>4
        <5>2. (q <= x /\ x < q + n) <=> (q <= x /\ x < q + (n + 1))
          BY <5>1
        <5> QED BY <2>a, <5>2
      <4> QED BY <4>1, <3>1, <3>2, <3>4
    <3> QED BY <3>3, <3>4
  <2> QED BY <2>7, <2>12, <2>13, <2>14
<1>5. Nat \subseteq S
  <2> HIDE DEF S
  <2> QED BY <1>3, <1>4, Induction
<1>6. g[Len(cs)] \in Screens
  BY <1>0, <1>2
<1>7. P(Len(cs))
  <2>1. Len(cs) \in S /\ Len(cs) <= Len(cs)
    <3> HIDE DEF S
    <3> QED BY <1>0, <1>5
  <2> HIDE DEF P
  <2> QED BY <2>1
<1> QED BY <1>1, <1>6, <1>7 DEF InRow

(* backspace at the end of the line.                                       *)
LEMMA PutErase ==
  ASSUME NEW s \in Screens, s.col > 0
  PROVE  LET t == Put(s, <<Back, Space, Back>>)
         IN  /\ t \in Screens /\ (BlankBelow(s) => BlankBelow(t))
             /\ t.row = s.row /\ t.col = s.col - 1
             /\ t.cell = [s.cell EXCEPT ![s.row] = [@ EXCEPT ![s.col - 1] = Space]]
<1>0. /\ s.row \in 0 .. Height - 1 /\ s.col \in 0 .. Width - 1 /\ Width \in Nat /\ Height \in Nat
      /\ Back \in Printed /\ Space \in Printed /\ Space \in Glyphs
  BY ScreenIs, Sizes DEF Printed
<1>1. PICK cs : cs = <<Back, Space, Back>>
  OBVIOUS
<1>2. cs \in Seq(Printed) /\ Len(cs) = 3 /\ cs[1] = Back /\ cs[2] = Space /\ cs[3] = Back
  BY <1>0, <1>1
<1>3. PICK g : PutSteps(s, cs, g) /\ Put(s, cs) = g[Len(cs)]
  BY <1>2, PutIs
<1>4. /\ g \in [0 .. Len(cs) -> Screens] /\ g[0] = s
      /\ \A n \in 1 .. Len(cs) : g[n] = PutChar(g[n - 1], cs[n])
  BY <1>3 DEF PutSteps
<1>5. /\ g[1] \in Screens /\ g[2] \in Screens /\ g[3] \in Screens /\ Put(s, cs) = g[3]
      /\ g[1] = PutChar(s, Back) /\ g[2] = PutChar(g[1], Space) /\ g[3] = PutChar(g[2], Back)
  BY <1>2, <1>3, <1>4
<1>6. g[1].row = s.row /\ g[1].col = s.col - 1 /\ g[1].cell = s.cell
  <2>1. IsPutChar(s, Back, g[1])
    BY <1>0, <1>5, PutCharIs, Zenon
  <2> QED BY <2>1 DEF IsPutChar
<1>7. PICK a \in Screens : a = g[1]
  BY <1>5
<1>8. PICK b \in Screens : b = g[2]
  BY <1>5
<1>9. b.row = a.row /\ b.col = a.col + 1 /\ b.cell = [a.cell EXCEPT ![a.row] = [@ EXCEPT ![a.col] = Space]]
  <2>1. a.col + 1 < Width
    BY <1>0, <1>6, <1>7
  <2>2. IsPutChar(a, Space, b)
    BY <1>0, <1>5, <1>7, <1>8, PutCharIs, Zenon
  <2> QED BY <1>0, <2>1, <2>2 DEF IsPutChar
<1>10. PICK t \in Screens : t = g[3]
  BY <1>5
<1>11. t.row = b.row /\ t.col = b.col - 1 /\ t.cell = b.cell
  <2>1. b.col > 0
    BY <1>0, <1>6, <1>7, <1>9
  <2>2. IsPutChar(b, Back, t)
    BY <1>0, <1>5, <1>8, <1>10, PutCharIs, Zenon
  <2> QED BY <2>1, <2>2 DEF IsPutChar
<1>12. t.row = s.row /\ t.col = s.col - 1
       /\ t.cell = [s.cell EXCEPT ![s.row] = [@ EXCEPT ![s.col - 1] = Space]]
  BY <1>0, <1>6, <1>7, <1>9, <1>11
<1>13. BlankBelow(s) => BlankBelow(Put(s, cs))
  BY <1>2, PutTyped
<1> QED BY <1>1, <1>5, <1>10, <1>12, <1>13

LEMMA ListedTyped ==
  ASSUME NEW s \in Screens, NEW n \in Seq(Glyphs)
  PROVE  /\ Put(s, n \o <<Space, Space>>) \in Screens
         /\ BlankBelow(s) => BlankBelow(Put(s, n \o <<Space, Space>>))
<1>1. Space \in Glyphs
  BY Sizes
<1>2. <<Space, Space>> \in Seq(Glyphs)
  BY <1>1
<1>3. PICK cs : cs = n \o <<Space, Space>>
  OBVIOUS
<1>4. cs \in Seq(Glyphs)
  BY <1>2, <1>3, ConcatProperties
<1>5. cs \in Seq(Printed)
  BY <1>4, AllPrinted
<1>6. Put(s, cs) \in Screens /\ (BlankBelow(s) => BlankBelow(Put(s, cs)))
  BY <1>5, PutTyped
<1> QED BY <1>3, <1>6

(* printf of one name after another.                                       *)
ListedSteps(s, ns, g) ==
  /\ g \in [0 .. Len(ns) -> Screens] /\ g[0] = s
  /\ \A n \in 1 .. Len(ns) : g[n] = Put(g[n - 1], ns[n] \o <<Space, Space>>)
LEMMA ListedIs ==
  ASSUME NEW s \in Screens, NEW ns \in Seq(Seq(Glyphs))
  PROVE  \E g : ListedSteps(s, ns, g) /\ Listed(s, ns) = g[Len(ns)]
<1> DEFINE h == [n \in Nat |-> [x \in Screens |-> IF n \in 1 .. Len(ns) THEN Put(x, ns[n] \o <<Space, Space>>) ELSE x]]
           D(g) == [n \in 0 .. Len(ns) |-> IF n = 0 THEN s ELSE Put(g[n - 1], ns[n] \o <<Space, Space>>)]
<1>0. Len(ns) \in Nat /\ s \in Screens
  OBVIOUS
<1>1. \A n \in 1 .. Len(ns), x \in Screens : Put(x, ns[n] \o <<Space, Space>>) \in Screens
  <2> TAKE n \in 1 .. Len(ns), x \in Screens
  <2>1. ns[n] \in Seq(Glyphs)
    OBVIOUS
  <2> QED BY <2>1, ListedTyped, Zenon
<1>2. h \in [Nat -> [Screens -> Screens]]
  BY <1>1
<1>3. PICK g \in [0 .. Len(ns) -> Screens] :
        g[0] = s /\ \A n \in 1 .. Len(ns) : g[n] = h[n][g[n - 1]]
  <2>1. Exists(Screens, s, Len(ns), h)
    <3> HIDE DEF h
    <3> QED BY <1>0, <1>2, Recursion, Zenon
  <2> HIDE DEF h
  <2> QED BY <2>1 DEF Exists
<1>4. g = D(g)
  <2>1. ASSUME NEW n \in 1 .. Len(ns) PROVE g[n] = Put(g[n - 1], ns[n] \o <<Space, Space>>)
    <3>1. n \in Nat /\ n - 1 \in 0 .. Len(ns)
      BY <1>0
    <3>2. g[n - 1] \in Screens
      <4> HIDE DEF h
      <4> QED BY <1>3, <3>1
    <3>3. PICK y \in Screens : y = g[n - 1]
      BY <3>2
    <3>4. h[n][y] = Put(y, ns[n] \o <<Space, Space>>)
      BY <3>1
    <3>5. g[n] = h[n][g[n - 1]]
      BY <1>3
    <3> HIDE DEF h
    <3> QED BY <3>3, <3>4, <3>5
  <2>2. g[0] = s /\ DOMAIN g = 0 .. Len(ns)
    <3> HIDE DEF h
    <3> QED BY <1>3, <1>0
  <2>3. \A n \in 0 .. Len(ns) : n = 0 \/ n \in 1 .. Len(ns)
    BY <1>0
  <2>4. \A n \in 0 .. Len(ns) : g[n] = D(g)[n]
    <3> HIDE DEF h
    <3> QED BY <2>1, <2>2, <2>3
  <2>5. g = [n \in 0 .. Len(ns) |-> g[n]] /\ D(g) = [n \in 0 .. Len(ns) |-> D(g)[n]]
    <3> HIDE DEF h
    <3> QED OBVIOUS
  <2> HIDE DEF h, D
  <2> QED BY <2>4, <2>5
<1>5. PICK k : k = CHOOSE fn : fn = D(fn)
  OBVIOUS
<1>6. k = D(k)
  <2> HIDE DEF h, D
  <2> QED BY <1>4, <1>5
<1>7. Listed(s, ns) = k[Len(ns)]
  BY <1>5 DEF Listed
<1>8. k[0] = s /\ DOMAIN k = 0 .. Len(ns)
  BY <1>6, <1>0
<1>9. \A n \in 1 .. Len(ns) : k[n] = Put(k[n - 1], ns[n] \o <<Space, Space>>)
  <2> TAKE n \in 1 .. Len(ns)
  <2>1. n \in 0 .. Len(ns) /\ n # 0
    BY <1>0
  <2>2. k[n] = D(k)[n]
    <3> HIDE DEF D
    <3> QED BY <1>6
  <2>3. D(k)[n] = Put(k[n - 1], ns[n] \o <<Space, Space>>)
    BY <2>1
  <2> QED BY <2>2, <2>3
<1>10. k \in [0 .. Len(ns) -> Screens]
  <2> DEFINE S == {n \in Nat : n <= Len(ns) => k[n] \in Screens}
  <2>1. 0 \in S
    BY <1>0, <1>8
  <2>2. ASSUME NEW n \in Nat, n \in S PROVE n + 1 \in S
    <3> SUFFICES ASSUME n + 1 <= Len(ns) PROVE k[n + 1] \in Screens
      OBVIOUS
    <3>1. k[n] \in Screens /\ n + 1 \in 1 .. Len(ns) /\ (n + 1) - 1 = n
      BY <2>2, <1>0
    <3>2. PICK y \in Screens : y = k[n]
      BY <3>1
    <3>3. k[n + 1] = Put(y, ns[n + 1] \o <<Space, Space>>)
      BY <1>9, <3>1, <3>2
    <3> QED BY <3>1, <3>3, <1>1
  <2>3. Nat \subseteq S
    <3> HIDE DEF S
    <3> QED BY <2>1, <2>2, Induction
  <2>4. k = [n \in 0 .. Len(ns) |-> k[n]]
    <3>1. D(k) = [n \in 0 .. Len(ns) |-> D(k)[n]]
      OBVIOUS
    <3> HIDE DEF D
    <3> QED BY <1>6, <3>1
  <2> QED BY <2>3, <2>4, <1>0
<1> QED BY <1>7, <1>8, <1>9, <1>10 DEF ListedSteps

LEMMA ListedSound ==
  ASSUME NEW s \in Screens, NEW ns \in Seq(Seq(Glyphs))
  PROVE  Listed(s, ns) \in Screens /\ (BlankBelow(s) => BlankBelow(Listed(s, ns)))
<1>0. Len(ns) \in Nat
  OBVIOUS
<1>1. PICK g : ListedSteps(s, ns, g) /\ Listed(s, ns) = g[Len(ns)]
  BY ListedIs
<1>2. /\ g \in [0 .. Len(ns) -> Screens] /\ g[0] = s
      /\ \A n \in 1 .. Len(ns) : g[n] = Put(g[n - 1], ns[n] \o <<Space, Space>>)
  BY <1>1 DEF ListedSteps
<1> DEFINE S == {n \in Nat : n <= Len(ns) /\ BlankBelow(s) => BlankBelow(g[n])}
<1>3. 0 \in S
  BY <1>2
<1>4. ASSUME NEW n \in Nat, n \in S PROVE n + 1 \in S
  <2> SUFFICES ASSUME n + 1 <= Len(ns), BlankBelow(s) PROVE BlankBelow(g[n + 1])
    OBVIOUS
  <2>1. n \in 0 .. Len(ns) /\ n + 1 \in 1 .. Len(ns) /\ (n + 1) - 1 = n
    BY <1>0
  <2>2. BlankBelow(g[n])
    BY <1>0, <1>4
  <2>4. PICK t \in Screens : t = g[n]
    BY <1>2, <2>1
  <2>5. PICK c \in Seq(Glyphs) : c = ns[n + 1]
    BY <2>1
  <2>3. g[n + 1] = Put(t, c \o <<Space, Space>>)
    <3>1. g[n + 1] = Put(g[n], ns[n + 1] \o <<Space, Space>>)
      BY <1>2, <2>1
    <3> QED BY <2>4, <2>5, <3>1
  <2>6. BlankBelow(t) => BlankBelow(Put(t, c \o <<Space, Space>>))
    BY ListedTyped, Zenon
  <2> QED BY <2>2, <2>3, <2>4, <2>6
<1>5. Nat \subseteq S
  <2> HIDE DEF S
  <2> QED BY <1>3, <1>4, Induction
<1>6. g[Len(ns)] \in Screens
  BY <1>0, <1>2
<1>7. Len(ns) \in S
  <2> HIDE DEF S
  <2> QED BY <1>0, <1>5
<1> QED BY <1>0, <1>1, <1>6, <1>7

IsSetPos(s, r, c, t) ==
  /\ t \in Screens /\ t.cell = s.cell
  /\ r < Height /\ c < Width => t.row = r /\ t.col = c
  /\ BlankBelow(s) /\ r >= s.row => BlankBelow(t)
LEMMA SetPosIs ==
  ASSUME NEW s \in Screens, NEW r \in Nat, NEW c \in Nat
  PROVE  IsSetPos(s, r, c, SetPos(s, r, c))
<1>0. /\ s.row \in 0 .. Height - 1 /\ s.col \in 0 .. Width - 1 /\ Width \in Nat /\ Height \in Nat
      /\ s.cell \in [0 .. Height - 1 -> [0 .. Width - 1 -> Glyphs]]
      /\ s = [row |-> s.row, col |-> s.col, cell |-> s.cell]
  BY ScreenIs, Sizes
<1>1. CASE r < Height /\ c < Width
  <2>1. PICK t : t = [s EXCEPT !.row = r, !.col = c]
    OBVIOUS
  <2>2. t = [row |-> r, col |-> c, cell |-> s.cell]
    BY <1>0, <2>1
  <2>3. t.row = r /\ t.col = c /\ t.cell = s.cell
    BY <2>2
  <2>4. t \in Screens
    BY <1>0, <1>1, <2>2, <2>3, ScreenIs
  <2>5. BlankBelow(s) /\ r >= s.row => BlankBelow(t)
    BY <1>0, <2>3 DEF BlankBelow
  <2>6. SetPos(s, r, c) = t
    BY <1>1, <2>1 DEF SetPos
  <2> QED BY <2>3, <2>4, <2>5, <2>6 DEF IsSetPos
<1>2. CASE ~(r < Height /\ c < Width)
  <2>1. SetPos(s, r, c) = s
    BY <1>2 DEF SetPos
  <2> QED BY <1>2, <2>1 DEF IsSetPos
<1> QED BY <1>1, <1>2

(* The row of the cursor shows a line from column k on, and nothing behind *)
(* it.                                                                     *)
Fit(n, k) == k + n + 1 < Width /\ Len(Prompt) + n + 1 < Width
Showing(t, l, k) == \A i \in 1 .. Len(l) : t.cell[t.row][k + i - 1] = l[i]
BlankFrom(t, n, k) == \A x \in k + n .. Width - 1 : t.cell[t.row][x] = Space

LEMMA RedrawTyped ==
  ASSUME NEW s \in Screens, NEW l \in Seq(Glyphs), NEW p \in Nat, pcol \in 0 .. Width - 1
  PROVE  Redraw(s, l, p) \in Screens
<1>0. s.row \in Nat /\ pcol \in Nat /\ pcol + p \in Nat
  BY ScreenIs, Sizes
<1>1. PICK t \in Screens : t = SetPos(s, s.row, pcol)
  BY <1>0, SetPosIs DEF IsSetPos
<1>2. PICK cs : cs = l \o <<Space>>
  OBVIOUS
<1>3. cs \in Seq(Glyphs)
  <2>1. <<Space>> \in Seq(Glyphs)
    BY Sizes
  <2> QED BY <1>2, <2>1, ConcatProperties
<1>4. cs \in Seq(Printed)
  BY <1>3, AllPrinted
<1>5. PICK u \in Screens : u = Put(t, cs)
  BY <1>4, PutTyped
<1>6. SetPos(u, s.row, pcol + p) \in Screens
  BY <1>0, SetPosIs DEF IsSetPos
<1>7. Redraw(s, l, p) = SetPos(u, s.row, pcol + p)
  BY <1>1, <1>2, <1>5, Zenon DEF Redraw
<1> QED BY <1>6, <1>7

IsRedraw(s, l, p, t) ==
  /\ t \in Screens /\ t.col = pcol + p /\ Showing(t, l, pcol) /\ (BlankBelow(s) => BlankBelow(t))
  /\ \A n \in 0 .. Len(l) + 1 : BlankFrom(s, n, pcol) => BlankFrom(t, Len(l), pcol)
LEMMA RedrawIs ==
  ASSUME NEW s \in Screens, NEW l \in Seq(Glyphs), NEW p \in 0 .. Len(l),
         pcol \in 0 .. Width - 1, Fit(Len(l), pcol)
  PROVE  IsRedraw(s, l, p, Redraw(s, l, p))
<1>0. /\ s.row \in Nat /\ s.row \in 0 .. Height - 1 /\ s.row < Height /\ s.row >= s.row
      /\ pcol \in Nat /\ pcol + p \in Nat /\ pcol < Width
      /\ Len(l) \in Nat /\ pcol + p < Width /\ pcol + Len(l) + 1 < Width /\ Width \in Nat
  BY ScreenIs, Sizes DEF Fit
<1>1. PICK t : t = SetPos(s, s.row, pcol)
  OBVIOUS
<1>2. t \in Screens /\ t.row = s.row /\ t.col = pcol /\ t.cell = s.cell /\ (BlankBelow(s) => BlankBelow(t))
  <2>1. IsSetPos(s, s.row, pcol, t)
    BY <1>0, <1>1, SetPosIs, Zenon
  <2> QED BY <1>0, <2>1 DEF IsSetPos
<1>3. PICK cs : cs = l \o <<Space>>
  OBVIOUS
<1>4. /\ cs \in Seq(Glyphs) /\ Len(cs) = Len(l) + 1 /\ cs[Len(l) + 1] = Space
      /\ \A i \in 1 .. Len(l) : cs[i] = l[i]
  <2>1. Space \in Glyphs
    BY Sizes
  <2>2. PICK c \in Glyphs : c = Space
    BY <2>1
  <2>3. cs = Append(l, c)
    BY <1>3, <2>2, AppendIsConcat
  <2> QED BY <2>2, <2>3, AppendProperties
<1>5. PICK u : u = Put(t, cs)
  OBVIOUS
<1>6. InRow(t, cs, u)
  <2>1. t.col + Len(cs) < Width
    BY <1>0, <1>2, <1>4
  <2> QED BY <1>2, <1>4, <1>5, <2>1, PutInRow, Zenon
<1>7. /\ u \in Screens /\ u.row = s.row
      /\ \A y \in 0 .. Height - 1 : y # s.row => u.cell[y] = s.cell[y]
      /\ \A x \in 0 .. Width - 1 :
           u.cell[s.row][x] = IF pcol <= x /\ x < pcol + (Len(l) + 1) THEN cs[x - pcol + 1]
                              ELSE s.cell[s.row][x]
  BY <1>2, <1>4, <1>6 DEF InRow
<1>8. PICK w : w = SetPos(u, s.row, pcol + p)
  OBVIOUS
<1>9. w \in Screens /\ w.row = s.row /\ w.col = pcol + p /\ w.cell = u.cell
  <2>1. IsSetPos(u, s.row, pcol + p, w)
    BY <1>0, <1>7, <1>8, SetPosIs, Zenon
  <2> QED BY <1>0, <2>1 DEF IsSetPos
<1>10. Redraw(s, l, p) = w
  BY <1>1, <1>3, <1>5, <1>8, Zenon DEF Redraw
<1>11. Showing(w, l, pcol)
  <2>1. ASSUME NEW i \in 1 .. Len(l) PROVE w.cell[w.row][pcol + i - 1] = l[i]
    <3>1. pcol + i - 1 \in 0 .. Width - 1 /\ pcol <= pcol + i - 1
          /\ pcol + i - 1 < pcol + (Len(l) + 1) /\ (pcol + i - 1) - pcol + 1 = i
      BY <1>0
    <3> QED BY <1>4, <1>7, <1>9, <3>1
  <2> QED BY <1>9, <2>1 DEF Showing
<1>12. BlankBelow(s) => BlankBelow(w)
  <2> SUFFICES ASSUME BlankBelow(s), NEW y \in s.row + 1 .. Height - 1 PROVE w.cell[y] = Blank
    BY <1>9 DEF BlankBelow
  <2>1. y \in 0 .. Height - 1 /\ y # s.row
    BY <1>0, Sizes
  <2> QED BY <2>1, <1>7, <1>9 DEF BlankBelow
<1>13. ASSUME NEW n \in 0 .. Len(l) + 1, BlankFrom(s, n, pcol) PROVE BlankFrom(w, Len(l), pcol)
  <2> SUFFICES ASSUME NEW x \in pcol + Len(l) .. Width - 1 PROVE w.cell[w.row][x] = Space
    BY DEF BlankFrom
  <2>1. x \in 0 .. Width - 1 /\ x \in Int
    BY <1>0
  <2>2. CASE x = pcol + Len(l)
    <3>1. pcol <= x /\ x < pcol + (Len(l) + 1) /\ x - pcol + 1 = Len(l) + 1
      BY <1>0, <2>2
    <3> QED BY <2>1, <3>1, <1>4, <1>7, <1>9
  <2>3. CASE x # pcol + Len(l)
    <3>1. ~(x < pcol + (Len(l) + 1)) /\ x \in pcol + n .. Width - 1
      BY <1>0, <2>1, <2>3
    <3>2. w.cell[w.row][x] = s.cell[s.row][x]
      BY <2>1, <3>1, <1>7, <1>9
    <3> QED BY <3>1, <3>2, <1>13 DEF BlankFrom
  <2> QED BY <2>2, <2>3
<1> QED BY <1>9, <1>10, <1>11, <1>12, <1>13 DEF IsRedraw

(* A line behind the prompt in a row of its own.                           *)
LEMMA Fresh ==
  ASSUME NEW s \in Screens, NEW l \in Seq(Glyphs), PromptCol + Len(l) < Width, s.col = 0,
         NEW t, t = Put(s, Prompt \o l)
  PROVE  /\ t \in Screens /\ (BlankBelow(s) => BlankBelow(t)) /\ Showing(t, l, PromptCol)
         /\ s.cell[s.row] = Blank => BlankFrom(t, Len(l), PromptCol)
<1>0. /\ s.row \in 0 .. Height - 1 /\ PromptCol \in Nat /\ PromptCol < Width /\ Width \in Nat
      /\ Len(l) \in Nat /\ Len(Prompt) = PromptCol /\ Prompt \in Seq(Glyphs)
  BY ScreenIs, Sizes DEF PromptCol
<1>1. PICK cs : cs = Prompt \o l
  OBVIOUS
<1>2. /\ cs \in Seq(Glyphs) /\ Len(cs) = Len(Prompt) + Len(l)
      /\ \A i \in 1 .. Len(Prompt) + Len(l) : cs[i] = IF i <= Len(Prompt) THEN Prompt[i] ELSE l[i - Len(Prompt)]
  BY <1>0, <1>1, ConcatProperties
<1>3. PromptCol + Len(l) < Width /\ Len(cs) = PromptCol + Len(l)
  BY <1>0, <1>2
<1>4. InRow(s, cs, t)
  <2>1. s.col + Len(cs) < Width /\ t = Put(s, cs)
    BY <1>0, <1>1, <1>3
  <2> QED BY <1>2, <2>1, PutInRow, Zenon
<1>5. t \in Screens /\ t.row = s.row /\ t.col = PromptCol + Len(l)
  BY <1>0, <1>3, <1>4 DEF InRow
<1>6. \A x \in 0 .. Width - 1 :
        t.cell[t.row][x] = IF x < PromptCol + Len(l) THEN cs[x + 1] ELSE s.cell[s.row][x]
  <2> TAKE x \in 0 .. Width - 1
  <2>1. t.cell[s.row][x] = IF s.col <= x /\ x < s.col + Len(cs) THEN cs[x - s.col + 1] ELSE s.cell[s.row][x]
    BY <1>4 DEF InRow
  <2>3. s.col <= x /\ x - s.col + 1 = x + 1 /\ s.col + Len(cs) = PromptCol + Len(l)
    BY <1>0, <1>3
  <2> QED BY <2>1, <2>3, <1>5
<1>7. BlankBelow(s) => BlankBelow(t)
  <2>1. cs \in Seq(Printed)
    BY <1>2, AllPrinted
  <2> QED BY <1>1, <2>1, PutTyped
<1>8. Showing(t, l, PromptCol)
  <2>1. ASSUME NEW i \in 1 .. Len(l) PROVE t.cell[t.row][PromptCol + i - 1] = l[i]
    <3>1. PromptCol + i - 1 \in 0 .. Width - 1 /\ PromptCol + i - 1 < PromptCol + Len(l)
          /\ (PromptCol + i - 1) + 1 = PromptCol + i
      BY <1>0, <1>3
    <3>2. PromptCol + i \in 1 .. Len(Prompt) + Len(l) /\ ~(PromptCol + i <= Len(Prompt))
          /\ (PromptCol + i) - Len(Prompt) = i
      BY <1>0
    <3>3. cs[PromptCol + i] = l[i]
      BY <1>2, <3>2
    <3> QED BY <1>6, <3>1, <3>3
  <2> QED BY <1>5, <2>1 DEF Showing
<1>9. ASSUME s.cell[s.row] = Blank PROVE BlankFrom(t, Len(l), PromptCol)
  <2> SUFFICES ASSUME NEW x \in PromptCol + Len(l) .. Width - 1 PROVE t.cell[t.row][x] = Space
    BY DEF BlankFrom
  <2>1. x \in 0 .. Width - 1 /\ ~(x < PromptCol + Len(l))
    BY <1>0
  <2>2. s.cell[s.row][x] = Space
    BY <1>9, <2>1, BlankIs
  <2> QED BY <1>6, <2>1, <2>2
<1> QED BY <1>5, <1>7, <1>8, <1>9

(* tab_complete with several matches: they are listed, and the prompt and  *)
(* the line printed again.                                                 *)
Many(s, ns, l, p) ==
  LET t == Listed(PutChar(SetPos(s, s.row, 0), NewLine), ns)
      u == Put(PutChar(t, NewLine), Prompt \o l)
  IN  SetPos(u, u.row, pcol + p)
LEMMA ManyIs ==
  ASSUME NEW s \in Screens, NEW ns \in Seq(Seq(Glyphs)), NEW l \in Seq(Glyphs), NEW p \in 0 .. Len(l),
         pcol \in 0 .. Width - 1
  PROVE  /\ Many(s, ns, l, p) \in Screens /\ (BlankBelow(s) => BlankBelow(Many(s, ns, l, p)))
         /\ Fit(Len(l), pcol) => Many(s, ns, l, p).col = pcol + p
         /\ Fit(Len(l), pcol) /\ pcol = PromptCol =>
              /\ Showing(Many(s, ns, l, p), l, pcol)
              /\ BlankBelow(s) => BlankFrom(Many(s, ns, l, p), Len(l), pcol)
<1>0. /\ s.row \in 0 .. Height - 1 /\ s.row \in Nat /\ s.row < Height /\ 0 \in Nat /\ 0 < Width
      /\ PromptCol \in Nat /\ PromptCol < Width /\ Width \in Nat /\ Height \in Nat /\ Len(l) \in Nat
      /\ pcol \in Nat /\ pcol + p \in Nat /\ NewLine \in Printed /\ s.row >= s.row
  BY ScreenIs, Sizes DEF Printed
<1>1. PICK a : a = SetPos(s, s.row, 0)
  OBVIOUS
<1>2. a \in Screens /\ (BlankBelow(s) => BlankBelow(a))
  <2>1. IsSetPos(s, s.row, 0, a)
    BY <1>0, <1>1, SetPosIs, Zenon
  <2> QED BY <1>0, <2>1 DEF IsSetPos
<1>3. PICK b : b = PutChar(a, NewLine)
  OBVIOUS
<1>4. b \in Screens /\ (BlankBelow(a) => BlankBelow(b))
  <2>1. IsPutChar(a, NewLine, b)
    BY <1>0, <1>2, <1>3, PutCharIs, Zenon
  <2> QED BY <2>1 DEF IsPutChar
<1>5. PICK t : t = Listed(b, ns)
  OBVIOUS
<1>6. t \in Screens /\ (BlankBelow(b) => BlankBelow(t))
  BY <1>4, <1>5, ListedSound
<1>7. PICK c : c = PutChar(t, NewLine)
  OBVIOUS
<1>8. c \in Screens /\ c.col = 0 /\ (BlankBelow(t) => BlankBelow(c) /\ c.cell[c.row] = Blank)
  <2>1. IsPutChar(t, NewLine, c)
    BY <1>0, <1>6, <1>7, PutCharIs, Zenon
  <2> QED BY <2>1 DEF IsPutChar
<1>9. PICK u : u = Put(c, Prompt \o l)
  OBVIOUS
<1>10. u \in Screens /\ (BlankBelow(c) => BlankBelow(u))
  <2>1. PICK cs : cs = Prompt \o l
    OBVIOUS
  <2>2. cs \in Seq(Glyphs)
    BY <2>1, Sizes, ConcatProperties
  <2>3. cs \in Seq(Printed)
    BY <2>2, AllPrinted
  <2> QED BY <1>8, <1>9, <2>1, <2>3, PutTyped
<1>11. u.row \in Nat /\ u.row < Height /\ u.row >= u.row
  BY <1>0, <1>10, ScreenIs
<1>12. PICK w : w = SetPos(u, u.row, pcol + p)
  OBVIOUS
<1>13. IsSetPos(u, u.row, pcol + p, w)
  BY <1>0, <1>10, <1>11, <1>12, SetPosIs, Zenon
<1>14. Many(s, ns, l, p) = w
  BY <1>1, <1>3, <1>5, <1>7, <1>9, <1>12, Zenon DEF Many
<1>15. w \in Screens /\ (BlankBelow(s) => BlankBelow(w))
  <2>1. BlankBelow(s) => BlankBelow(u)
    BY <1>2, <1>4, <1>6, <1>8, <1>10
  <2> QED BY <1>11, <1>13, <2>1 DEF IsSetPos
<1>16. ASSUME Fit(Len(l), pcol) PROVE w.col = pcol + p /\ w.row = u.row /\ w.cell = u.cell
  <2>1. pcol + p < Width
    BY <1>0, <1>16 DEF Fit
  <2> QED BY <1>11, <1>13, <2>1 DEF IsSetPos
<1>17. ASSUME Fit(Len(l), pcol), pcol = PromptCol
       PROVE  Showing(w, l, pcol) /\ (BlankBelow(s) => BlankFrom(w, Len(l), pcol))
  <2>1. PromptCol + Len(l) < Width
    BY <1>0, <1>17 DEF Fit, PromptCol
  <2>2. Showing(u, l, PromptCol) /\ (c.cell[c.row] = Blank => BlankFrom(u, Len(l), PromptCol))
    BY <1>8, <1>9, <2>1, Fresh, Zenon
  <2>3. BlankBelow(s) => c.cell[c.row] = Blank
    BY <1>2, <1>4, <1>6, <1>8
  <2>4. w.row = u.row /\ w.cell = u.cell
    BY <1>16, <1>17
  <2> QED BY <1>17, <2>2, <2>3, <2>4 DEF Showing, BlankFrom
<1> QED BY <1>14, <1>15, <1>16, <1>17

-----------------------------------------------------------------------------
(* The lines of the history's file that the shell keeps.                   *)
UsableSteps(f, g) ==
  /\ g \in [0 .. Len(f) -> Seq(Seq(Chars))] /\ g[0] = <<>>
  /\ \A n \in 1 .. Len(f) : g[n] = (IF f[n] = <<>> \/ Len(f[n]) >= LineMax THEN g[n - 1] ELSE Append(g[n - 1], f[n]))
LEMMA UsableIs ==
  ASSUME NEW f \in Seq(Seq(Chars))
  PROVE  \E g : UsableSteps(f, g) /\ Usable(f) = g[Len(f)]
<1> DEFINE h == [n \in Nat |-> [x \in Seq(Seq(Chars)) |-> IF n \in 1 .. Len(f) THEN (IF f[n] = <<>> \/ Len(f[n]) >= LineMax THEN x ELSE Append(x, f[n])) ELSE x]]
           D(g) == [n \in 0 .. Len(f) |-> IF n = 0 THEN <<>> ELSE (IF f[n] = <<>> \/ Len(f[n]) >= LineMax THEN g[n - 1] ELSE Append(g[n - 1], f[n]))]
<1>0. Len(f) \in Nat /\ <<>> \in Seq(Seq(Chars))
  OBVIOUS
<1>1. \A n \in 1 .. Len(f), x \in Seq(Seq(Chars)) : (IF f[n] = <<>> \/ Len(f[n]) >= LineMax THEN x ELSE Append(x, f[n])) \in Seq(Seq(Chars))
  OBVIOUS
<1>2. h \in [Nat -> [Seq(Seq(Chars)) -> Seq(Seq(Chars))]]
  BY <1>1
<1>3. PICK g \in [0 .. Len(f) -> Seq(Seq(Chars))] :
        g[0] = <<>> /\ \A n \in 1 .. Len(f) : g[n] = h[n][g[n - 1]]
  <2>1. Exists(Seq(Seq(Chars)), <<>>, Len(f), h)
    <3> HIDE DEF h
    <3> QED BY <1>0, <1>2, Recursion, Zenon
  <2> HIDE DEF h
  <2> QED BY <2>1 DEF Exists
<1>4. g = D(g)
  <2>1. ASSUME NEW n \in 1 .. Len(f) PROVE g[n] = (IF f[n] = <<>> \/ Len(f[n]) >= LineMax THEN g[n - 1] ELSE Append(g[n - 1], f[n]))
    <3>1. n \in Nat /\ n - 1 \in 0 .. Len(f)
      BY <1>0
    <3>2. g[n - 1] \in Seq(Seq(Chars))
      <4> HIDE DEF h
      <4> QED BY <1>3, <3>1
    <3>3. PICK y \in Seq(Seq(Chars)) : y = g[n - 1]
      BY <3>2
    <3>4. h[n][y] = (IF f[n] = <<>> \/ Len(f[n]) >= LineMax THEN y ELSE Append(y, f[n]))
      BY <3>1
    <3>5. g[n] = h[n][g[n - 1]]
      BY <1>3
    <3> HIDE DEF h
    <3> QED BY <3>3, <3>4, <3>5
  <2>2. g[0] = <<>> /\ DOMAIN g = 0 .. Len(f)
    <3> HIDE DEF h
    <3> QED BY <1>3, <1>0
  <2>3. \A n \in 0 .. Len(f) : n = 0 \/ n \in 1 .. Len(f)
    BY <1>0
  <2>4. \A n \in 0 .. Len(f) : g[n] = D(g)[n]
    <3> HIDE DEF h
    <3> QED BY <2>1, <2>2, <2>3
  <2>5. g = [n \in 0 .. Len(f) |-> g[n]] /\ D(g) = [n \in 0 .. Len(f) |-> D(g)[n]]
    <3> HIDE DEF h
    <3> QED OBVIOUS
  <2> HIDE DEF h, D
  <2> QED BY <2>4, <2>5
<1>5. PICK k : k = CHOOSE fn : fn = D(fn)
  OBVIOUS
<1>6. k = D(k)
  <2> HIDE DEF h, D
  <2> QED BY <1>4, <1>5
<1>7. Usable(f) = k[Len(f)]
  BY <1>5 DEF Usable
<1>8. k[0] = <<>> /\ DOMAIN k = 0 .. Len(f)
  BY <1>6, <1>0
<1>9. \A n \in 1 .. Len(f) : k[n] = (IF f[n] = <<>> \/ Len(f[n]) >= LineMax THEN k[n - 1] ELSE Append(k[n - 1], f[n]))
  <2> TAKE n \in 1 .. Len(f)
  <2>1. n \in 0 .. Len(f) /\ n # 0
    BY <1>0
  <2>2. k[n] = D(k)[n]
    <3> HIDE DEF D
    <3> QED BY <1>6
  <2>3. D(k)[n] = (IF f[n] = <<>> \/ Len(f[n]) >= LineMax THEN k[n - 1] ELSE Append(k[n - 1], f[n]))
    BY <2>1
  <2> QED BY <2>2, <2>3
<1>10. k \in [0 .. Len(f) -> Seq(Seq(Chars))]
  <2> DEFINE S == {n \in Nat : n <= Len(f) => k[n] \in Seq(Seq(Chars))}
  <2>1. 0 \in S
    BY <1>0, <1>8
  <2>2. ASSUME NEW n \in Nat, n \in S PROVE n + 1 \in S
    <3> SUFFICES ASSUME n + 1 <= Len(f) PROVE k[n + 1] \in Seq(Seq(Chars))
      OBVIOUS
    <3>1. k[n] \in Seq(Seq(Chars)) /\ n + 1 \in 1 .. Len(f) /\ (n + 1) - 1 = n
      BY <2>2, <1>0
    <3>2. PICK y \in Seq(Seq(Chars)) : y = k[n]
      BY <3>1
    <3>3. k[n + 1] = (IF f[n + 1] = <<>> \/ Len(f[n + 1]) >= LineMax THEN y ELSE Append(y, f[n + 1]))
      BY <1>9, <3>1, <3>2
    <3> QED BY <3>1, <3>3, <1>1
  <2>3. Nat \subseteq S
    <3> HIDE DEF S
    <3> QED BY <2>1, <2>2, Induction
  <2>4. k = [n \in 0 .. Len(f) |-> k[n]]
    <3>1. D(k) = [n \in 0 .. Len(f) |-> D(k)[n]]
      OBVIOUS
    <3> HIDE DEF D
    <3> QED BY <1>6, <3>1
  <2> QED BY <2>3, <2>4, <1>0
<1> QED BY <1>7, <1>8, <1>9, <1>10 DEF UsableSteps

LEMMA LinesIs ==
  ASSUME NEW l
  PROVE  l \in Lines <=> l \in Seq(Chars) /\ Len(l) < LineMax
<1>0. LineMax \in Nat /\ LineMax > 0
  BY Sizes
<1>1. l \in Lines <=> \E m \in 0 .. LineMax - 1 : l \in [1 .. m -> Chars]
  BY DEF Lines, BoundedSeq, SeqOf
<1>2. ASSUME NEW m \in 0 .. LineMax - 1, l \in [1 .. m -> Chars] PROVE l \in Seq(Chars) /\ Len(l) < LineMax
  <2>1. m \in Nat
    BY <1>0
  <2>2. l \in Seq(Chars) /\ Len(l) = m
    BY <1>2, <2>1
  <2> QED BY <1>0, <2>2
<1>3. ASSUME l \in Seq(Chars), Len(l) < LineMax PROVE \E m \in 0 .. LineMax - 1 : l \in [1 .. m -> Chars]
  <2>1. Len(l) \in 0 .. LineMax - 1 /\ l \in [1 .. Len(l) -> Chars]
    BY <1>0, <1>3
  <2> QED BY <2>1
<1> QED BY <1>1, <1>2, <1>3

LEMMA UsableSound ==
  ASSUME NEW f \in Seq(Seq(Chars))
  PROVE  Usable(f) \in Seq(Lines)
<1>0. Len(f) \in Nat /\ LineMax \in Nat
  BY Sizes
<1>1. PICK g : UsableSteps(f, g) /\ Usable(f) = g[Len(f)]
  BY UsableIs
<1>2. /\ g[0] = <<>>
      /\ \A n \in 1 .. Len(f) : g[n] = (IF f[n] = <<>> \/ Len(f[n]) >= LineMax THEN g[n - 1]
                                        ELSE Append(g[n - 1], f[n]))
  BY <1>1 DEF UsableSteps
<1> DEFINE S == {n \in Nat : n <= Len(f) => g[n] \in Seq(Lines)}
<1>3. 0 \in S
  <2>1. <<>> \in Seq(Lines)
    OBVIOUS
  <2> QED BY <1>2, <2>1
<1>4. ASSUME NEW n \in Nat, n \in S PROVE n + 1 \in S
  <2> SUFFICES ASSUME n + 1 <= Len(f) PROVE g[n + 1] \in Seq(Lines)
    OBVIOUS
  <2>1. n + 1 \in 1 .. Len(f) /\ (n + 1) - 1 = n /\ g[n] \in Seq(Lines)
    BY <1>0, <1>4
  <2>2. PICK l \in Seq(Chars) : l = f[n + 1]
    BY <2>1
  <2>3. g[n + 1] = IF l = <<>> \/ Len(l) >= LineMax THEN g[n] ELSE Append(g[n], l)
    BY <1>2, <2>1, <2>2
  <2>4. CASE l = <<>> \/ Len(l) >= LineMax
    BY <2>1, <2>3, <2>4
  <2>5. CASE ~(l = <<>> \/ Len(l) >= LineMax)
    <3>1. Len(l) < LineMax
      BY <1>0, <2>5
    <3>2. l \in Lines
      BY <3>1, LinesIs
    <3>3. PICK y \in Seq(Lines) : y = g[n]
      BY <2>1
    <3>4. Append(y, l) \in Seq(Lines)
      BY <3>2, AppendProperties
    <3> QED BY <2>3, <2>5, <3>3, <3>4
  <2> QED BY <2>4, <2>5
<1>5. Nat \subseteq S
  <2> HIDE DEF S
  <2> QED BY <1>3, <1>4, Induction
<1> QED BY <1>0, <1>1, <1>5

-----------------------------------------------------------------------------
(* The ring of the history.                                                *)
LEMMA SlotIs ==
  ASSUME NEW a \in Nat
  PROVE  Slot(a) \in 0 .. HistSize - 1
<1>1. HistSize \in Nat /\ HistSize > 0
  BY Sizes
<1> QED BY <1>1 DEF Slot

LEMMA SlotsDiffer ==
  ASSUME NEW a \in Nat, NEW b \in Nat, a < b, b < a + HistSize
  PROVE  Slot(a) # Slot(b)
<1>1. PICK N \in Nat : N = HistSize /\ N > 0
  BY Sizes
<1>2. PICK p \in Int : p = a \div N
  BY <1>1
<1>3. PICK q \in Int : q = b \div N
  BY <1>1
<1>4. a = (N * p) + (a % N) /\ a % N \in Int
  BY <1>1, <1>2
<1>5. b = (N * q) + (b % N) /\ b % N \in Int
  BY <1>1, <1>3
<1> SUFFICES ASSUME a % N = b % N PROVE FALSE
  BY <1>1 DEF Slot
<1>6. b - a = N * q - N * p /\ N * q \in Int /\ N * p \in Int
  BY <1>1, <1>4, <1>5
<1>7. N * q > N * p /\ N * q < N * p + N
  BY <1>1, <1>6
<1>8. q > p
  <2> SUFFICES ASSUME q <= p PROVE FALSE
    OBVIOUS
  <2>1. N * q <= N * p
    OBVIOUS
  <2> QED BY <1>6, <1>7, <2>1
<1>9. N * q >= N * (p + 1)
  BY <1>8
<1>10. N * (p + 1) = N * p + N
  OBVIOUS
<1> QED BY <1>6, <1>7, <1>9, <1>10

LEMMA MaxIs ==
  ASSUME NEW n \in Nat, NEW T, T \subseteq 0 .. n, T # {}
  PROVE  Max(T) \in T /\ \A y \in T : y <= Max(T)
<1> DEFINE U == {m \in Nat : m <= n /\ n - m \in T}
<1>1. U \subseteq Nat /\ U # {}
  <2>1. PICK t \in T : TRUE
    OBVIOUS
  <2>2. n - t \in Nat /\ n - t <= n /\ n - (n - t) = t
    BY <2>1
  <2>3. n - t \in U
    BY <2>1, <2>2
  <2> QED BY <2>3
<1>2. PICK x \in U : \A y \in U : x <= y
  <2> HIDE DEF U
  <2> QED BY <1>1, MinExists
<1>3. n - x \in T
  BY <1>2
<1>4. ASSUME NEW y \in T PROVE n - x >= y
  <2>1. y \in Nat /\ y <= n
    OBVIOUS
  <2>2. n - y \in U
    <3>1. n - y \in Nat /\ n - y <= n /\ n - (n - y) = y
      BY <2>1
    <3> QED BY <3>1
  <2>3. x <= n - y /\ x \in Nat
    BY <1>2, <2>2
  <2> QED BY <2>1, <2>3
<1>5. \E z \in T : \A y \in T : z >= y
  <2> HIDE DEF U
  <2> QED BY <1>3, <1>4
<1>6. Max(T) \in T /\ \A y \in T : Max(T) >= y
  BY <1>5, Zenon DEF Max
<1>7. \A y \in T : y \in Int
  OBVIOUS
<1> QED BY <1>6, <1>7

LEMMA LastOfIs ==
  ASSUME NEW S, NEW s \in Seq(S)
  PROVE  /\ LastOf(s) \in Seq(S)
         /\ Len(LastOf(s)) = IF Len(s) < HistSize THEN Len(s) ELSE HistSize
         /\ \A i \in 1 .. Len(LastOf(s)) : LastOf(s)[i] = s[Len(s) - Len(LastOf(s)) + i]
<1>0. Len(s) \in Nat /\ HistSize \in Nat /\ HistSize > 0
  BY Sizes
<1>1. PICK m : m = IF Len(s) > HistSize THEN Len(s) - HistSize + 1 ELSE 1
  OBVIOUS
<1>2. m \in Nat /\ m >= 1 /\ m <= Len(s) + 1
      /\ Len(s) - m + 1 = IF Len(s) < HistSize THEN Len(s) ELSE HistSize
  <2>1. CASE Len(s) > HistSize
    <3>1. m = Len(s) - HistSize + 1
      BY <1>1, <2>1
    <3> QED BY <1>0, <2>1, <3>1
  <2>2. CASE ~(Len(s) > HistSize)
    <3>1. m = 1
      BY <1>1, <2>2
    <3> QED BY <1>0, <2>2, <3>1
  <2> QED BY <2>1, <2>2
<1>3. PICK t : t = SubSeq(s, m, Len(s))
  OBVIOUS
<1>4. LastOf(s) = t
  BY <1>1, <1>3 DEF LastOf
<1>5. \A i \in m .. Len(s) : s[i] \in S
  BY <1>0, <1>2
<1>6. /\ t \in Seq(S) /\ Len(t) = IF m <= Len(s) THEN Len(s) - m + 1 ELSE 0
      /\ \A i \in 1 .. Len(s) - m + 1 : t[i] = s[m + i - 1]
  BY <1>0, <1>2, <1>3, <1>5, SubSeqProperties
<1>7. Len(t) = Len(s) - m + 1
  BY <1>0, <1>2, <1>6
<1>8. ASSUME NEW i \in 1 .. Len(t) PROVE t[i] = s[Len(s) - Len(t) + i]
  <2>1. i \in 1 .. Len(s) - m + 1 /\ m + i - 1 = Len(s) - Len(t) + i
    BY <1>0, <1>2, <1>7
  <2> QED BY <2>1, <1>6
<1>9. Len(t) = IF Len(s) < HistSize THEN Len(s) ELSE HistSize
  BY <1>2, <1>7
<1> QED BY <1>4, <1>6, <1>8, <1>9, Zenon

(* The ring holds the last commands given.                                 *)
Ring ==
  /\ given \in Seq(Lines) /\ Len(given) = IF count < HistSize THEN count ELSE HistSize
  /\ \A j \in 0 .. count - 1 :
       j >= count - HistSize => hist[Slot(j)] = given[Len(given) - (count - 1 - j)]

LEMMA LoadedSound ==
  ASSUME NEW f \in Seq(Seq(Chars)), hist = Loaded(f), count = Len(Usable(f)), given = LastOf(Usable(f))
  PROVE  Ring /\ hist \in [0 .. HistSize - 1 -> Lines] /\ count \in Nat
<1>1. PICK u \in Seq(Lines) : u = Usable(f)
  BY UsableSound
<1>2. HistSize \in Nat /\ HistSize > 0 /\ Len(u) \in Nat /\ count = Len(u)
  BY <1>1, Sizes
<1> DEFINE At(k) == {i \in 1 .. Len(u) : (i - 1) % HistSize = k}
<1>3. hist = [k \in 0 .. HistSize - 1 |-> IF At(k) = {} THEN <<>> ELSE u[Max(At(k))]]
  <2>1. DOMAIN u = 1 .. Len(u)
    OBVIOUS
  <2> QED BY <1>1, <2>1 DEF Loaded
<1>4. \A k \in 0 .. HistSize - 1 : At(k) # {} => Max(At(k)) \in At(k) /\ \A y \in At(k) : y <= Max(At(k))
  <2> TAKE k \in 0 .. HistSize - 1
  <2>1. At(k) \subseteq 0 .. Len(u)
    BY <1>2
  <2> HIDE DEF At
  <2> QED BY <1>2, <2>1, MaxIs
<1>5. <<>> \in Lines
  <2>1. <<>> \in Seq(Chars) /\ Len(<<>>) = 0
    OBVIOUS
  <2> QED BY <2>1, LinesIs, Sizes
<1>6. hist \in [0 .. HistSize - 1 -> Lines]
  <2>1. \A k \in 0 .. HistSize - 1 : At(k) # {} => u[Max(At(k))] \in Lines
    <3> TAKE k \in 0 .. HistSize - 1
    <3> HAVE At(k) # {}
    <3>1. Max(At(k)) \in 1 .. Len(u)
      BY <1>4
    <3> QED BY <3>1
  <2> HIDE DEF At
  <2> QED BY <1>3, <1>5, <2>1
<1>7. /\ given \in Seq(Lines) /\ Len(given) = IF Len(u) < HistSize THEN Len(u) ELSE HistSize
      /\ \A i \in 1 .. Len(given) : given[i] = u[Len(u) - Len(given) + i]
  BY <1>1, LastOfIs
<1>8. ASSUME NEW j \in 0 .. count - 1, j >= count - HistSize
      PROVE  hist[Slot(j)] = given[Len(given) - (count - 1 - j)]
  <2>1. j \in Nat /\ j + 1 \in 1 .. Len(u) /\ (j + 1) - 1 = j
    BY <1>2
  <2>2. PICK k \in 0 .. HistSize - 1 : k = Slot(j)
    BY <2>1, SlotIs
  <2>3. j + 1 \in At(k)
    BY <2>1, <2>2 DEF Slot
  <2>4. PICK x : x = Max(At(k))
    OBVIOUS
  <2>5. x \in At(k) /\ j + 1 <= x
    <3> HIDE DEF At
    <3> QED BY <1>4, <2>3, <2>4
  <2>6. x \in 1 .. Len(u) /\ x \in Nat /\ x - 1 \in Nat /\ Slot(x - 1) = Slot(j)
    BY <2>2, <2>5, <1>2 DEF Slot
  <2>7. x = j + 1
    <3> SUFFICES ASSUME x # j + 1 PROVE FALSE
      OBVIOUS
    <3>1. j < x - 1 /\ x - 1 < j + HistSize
      BY <1>2, <1>8, <2>1, <2>5, <2>6
    <3> QED BY <2>1, <2>6, <3>1, SlotsDiffer
  <2>8. hist[Slot(j)] = u[j + 1]
    <3>1. hist[k] = u[Max(At(k))]
      <4> HIDE DEF At
      <4> QED BY <1>3, <2>3
    <3> HIDE DEF At
    <3> QED BY <3>1, <2>2, <2>4, <2>7
  <2>9. PICK i : i = Len(given) - (count - 1 - j)
    OBVIOUS
  <2>10. Len(given) \in Nat
    BY <1>7
  <2>11. i \in 1 .. Len(given) /\ Len(u) - Len(given) + i = j + 1
    <3>1. CASE Len(u) < HistSize
      BY <1>2, <1>7, <2>1, <2>9, <2>10, <3>1
    <3>2. CASE ~(Len(u) < HistSize)
      <4>1. Len(given) = HistSize
        BY <1>7, <3>2
      <4> QED BY <1>2, <1>8, <2>1, <2>9, <2>10, <3>2, <4>1
    <3> QED BY <3>1, <3>2
  <2>12. given[i] = u[j + 1]
    BY <1>7, <2>11
  <2> QED BY <2>8, <2>9, <2>12
<1> QED BY <1>2, <1>6, <1>7, <1>8 DEF Ring

(* The names that a word begins.                                           *)
BegunSteps(ns, w, g) ==
  /\ g \in [0 .. Len(ns) -> Seq(NameSet)] /\ g[0] = <<>>
  /\ \A n \in 1 .. Len(ns) : g[n] = (IF IsPrefix(w, ns[n]) THEN Append(g[n - 1], ns[n]) ELSE g[n - 1])
LEMMA BegunIs ==
  ASSUME NEW ns \in Seq(NameSet), NEW w
  PROVE  \E g : BegunSteps(ns, w, g) /\ Begun(ns, w) = g[Len(ns)]
<1> DEFINE h == [n \in Nat |-> [x \in Seq(NameSet) |-> IF n \in 1 .. Len(ns) THEN (IF IsPrefix(w, ns[n]) THEN Append(x, ns[n]) ELSE x) ELSE x]]
           D(g) == [n \in 0 .. Len(ns) |-> IF n = 0 THEN <<>> ELSE (IF IsPrefix(w, ns[n]) THEN Append(g[n - 1], ns[n]) ELSE g[n - 1])]
<1>0. Len(ns) \in Nat /\ <<>> \in Seq(NameSet)
  OBVIOUS
<1>1. \A n \in 1 .. Len(ns), x \in Seq(NameSet) : (IF IsPrefix(w, ns[n]) THEN Append(x, ns[n]) ELSE x) \in Seq(NameSet)
  OBVIOUS
<1>2. h \in [Nat -> [Seq(NameSet) -> Seq(NameSet)]]
  BY <1>1
<1>3. PICK g \in [0 .. Len(ns) -> Seq(NameSet)] :
        g[0] = <<>> /\ \A n \in 1 .. Len(ns) : g[n] = h[n][g[n - 1]]
  <2>1. Exists(Seq(NameSet), <<>>, Len(ns), h)
    <3> HIDE DEF h
    <3> QED BY <1>0, <1>2, Recursion, Zenon
  <2> HIDE DEF h
  <2> QED BY <2>1 DEF Exists
<1>4. g = D(g)
  <2>1. ASSUME NEW n \in 1 .. Len(ns) PROVE g[n] = (IF IsPrefix(w, ns[n]) THEN Append(g[n - 1], ns[n]) ELSE g[n - 1])
    <3>1. n \in Nat /\ n - 1 \in 0 .. Len(ns)
      BY <1>0
    <3>2. g[n - 1] \in Seq(NameSet)
      <4> HIDE DEF h
      <4> QED BY <1>3, <3>1
    <3>3. PICK y \in Seq(NameSet) : y = g[n - 1]
      BY <3>2
    <3>4. h[n][y] = (IF IsPrefix(w, ns[n]) THEN Append(y, ns[n]) ELSE y)
      BY <3>1
    <3>5. g[n] = h[n][g[n - 1]]
      BY <1>3
    <3> HIDE DEF h
    <3> QED BY <3>3, <3>4, <3>5
  <2>2. g[0] = <<>> /\ DOMAIN g = 0 .. Len(ns)
    <3> HIDE DEF h
    <3> QED BY <1>3, <1>0
  <2>3. \A n \in 0 .. Len(ns) : n = 0 \/ n \in 1 .. Len(ns)
    BY <1>0
  <2>4. \A n \in 0 .. Len(ns) : g[n] = D(g)[n]
    <3> HIDE DEF h
    <3> QED BY <2>1, <2>2, <2>3
  <2>5. g = [n \in 0 .. Len(ns) |-> g[n]] /\ D(g) = [n \in 0 .. Len(ns) |-> D(g)[n]]
    <3> HIDE DEF h
    <3> QED OBVIOUS
  <2> HIDE DEF h, D
  <2> QED BY <2>4, <2>5
<1>5. PICK k : k = CHOOSE fn : fn = D(fn)
  OBVIOUS
<1>6. k = D(k)
  <2> HIDE DEF h, D
  <2> QED BY <1>4, <1>5
<1>7. Begun(ns, w) = k[Len(ns)]
  BY <1>5 DEF Begun
<1>8. k[0] = <<>> /\ DOMAIN k = 0 .. Len(ns)
  BY <1>6, <1>0
<1>9. \A n \in 1 .. Len(ns) : k[n] = (IF IsPrefix(w, ns[n]) THEN Append(k[n - 1], ns[n]) ELSE k[n - 1])
  <2> TAKE n \in 1 .. Len(ns)
  <2>1. n \in 0 .. Len(ns) /\ n # 0
    BY <1>0
  <2>2. k[n] = D(k)[n]
    <3> HIDE DEF D
    <3> QED BY <1>6
  <2>3. D(k)[n] = (IF IsPrefix(w, ns[n]) THEN Append(k[n - 1], ns[n]) ELSE k[n - 1])
    BY <2>1
  <2> QED BY <2>2, <2>3
<1>10. k \in [0 .. Len(ns) -> Seq(NameSet)]
  <2> DEFINE S == {n \in Nat : n <= Len(ns) => k[n] \in Seq(NameSet)}
  <2>1. 0 \in S
    BY <1>0, <1>8
  <2>2. ASSUME NEW n \in Nat, n \in S PROVE n + 1 \in S
    <3> SUFFICES ASSUME n + 1 <= Len(ns) PROVE k[n + 1] \in Seq(NameSet)
      OBVIOUS
    <3>1. k[n] \in Seq(NameSet) /\ n + 1 \in 1 .. Len(ns) /\ (n + 1) - 1 = n
      BY <2>2, <1>0
    <3>2. PICK y \in Seq(NameSet) : y = k[n]
      BY <3>1
    <3>3. k[n + 1] = (IF IsPrefix(w, ns[n + 1]) THEN Append(y, ns[n + 1]) ELSE y)
      BY <1>9, <3>1, <3>2
    <3> QED BY <3>1, <3>3, <1>1
  <2>3. Nat \subseteq S
    <3> HIDE DEF S
    <3> QED BY <2>1, <2>2, Induction
  <2>4. k = [n \in 0 .. Len(ns) |-> k[n]]
    <3>1. D(k) = [n \in 0 .. Len(ns) |-> D(k)[n]]
      OBVIOUS
    <3> HIDE DEF D
    <3> QED BY <1>6, <3>1
  <2> QED BY <2>3, <2>4, <1>0
<1> QED BY <1>7, <1>8, <1>9, <1>10 DEF BegunSteps

-----------------------------------------------------------------------------
(* What the sequence operations do to the line.                            *)
(* The beginning of a sequence, by its elements.                           *)
LEMMA Beginning ==
  ASSUME NEW S, NEW s \in Seq(S), NEW k \in 0 .. Len(s)
  PROVE  /\ SubSeq(s, 1, k) \in Seq(S) /\ Len(SubSeq(s, 1, k)) = k
         /\ \A i \in 1 .. k : SubSeq(s, 1, k)[i] = s[i]
<1>0. k \in Int /\ Len(s) \in Nat
  OBVIOUS
<1>1. \A i \in 1 .. k : s[i] \in S
  OBVIOUS
<1>2. PICK w : w = SubSeq(s, 1, k)
  OBVIOUS
<1>3. /\ w \in Seq(S)
      /\ Len(w) = IF 1 <= k THEN k - 1 + 1 ELSE 0
      /\ \A i \in 1 .. k - 1 + 1 : w[i] = s[1 + i - 1]
  BY <1>0, <1>1, <1>2, SubSeqProperties
<1>4. Len(w) = k
  BY <1>0, <1>3
<1>5. ASSUME NEW i \in 1 .. k PROVE w[i] = s[i]
  <2>1. i \in 1 .. k - 1 + 1 /\ 1 + i - 1 = i
    BY <1>0
  <2> QED BY <2>1, <1>3
<1> QED BY <1>2, <1>3, <1>4, <1>5, Zenon

(* Two sequences with the same elements are one.                           *)
LEMMA SameSeq ==
  ASSUME NEW S, NEW s \in Seq(S), NEW t \in Seq(S), Len(s) = Len(t),
         \A i \in 1 .. Len(s) : s[i] = t[i]
  PROVE  s = t
  BY SeqEqual

IsInserted(z, S, s, k, x) ==
  /\ z \in Seq(S) /\ Len(z) = Len(s) + 1
  /\ \A i \in 1 .. Len(s) + 1 :
       z[i] = IF i <= k THEN s[i] ELSE IF i = k + 1 THEN x ELSE s[i - 1]
LEMMA InsertionIs ==
  ASSUME NEW S, NEW s \in Seq(S), NEW k \in 0 .. Len(s), NEW x \in S,
         NEW z, z = InsertAt(s, k + 1, x)
  PROVE  IsInserted(z, S, s, k, x)
<1>0. Len(s) \in Nat /\ k \in Nat /\ k <= Len(s) /\ k + 1 \in Int /\ (k + 1) - 1 = k
  OBVIOUS
<1>1. PICK u : u = SubSeq(s, 1, k)
  OBVIOUS
<1>2. u \in Seq(S) /\ Len(u) = k /\ \A i \in 1 .. k : u[i] = s[i]
  BY <1>1, Beginning
<1>3. PICK v : v = SubSeq(s, k + 1, Len(s))
  OBVIOUS
<1>a. \A i \in k + 1 .. Len(s) : s[i] \in S
  BY <1>0
<1>4. /\ v \in Seq(S) /\ Len(v) = IF k + 1 <= Len(s) THEN Len(s) - (k + 1) + 1 ELSE 0
      /\ \A i \in 1 .. Len(s) - (k + 1) + 1 : v[i] = s[(k + 1) + i - 1]
  BY <1>0, <1>3, <1>a, SubSeqProperties
<1>5. Len(v) = Len(s) - k
  BY <1>0, <1>4
<1>6. PICK t : t = u \o <<x>>
  OBVIOUS
<1>7. <<x>> \in Seq(S) /\ Len(<<x>>) = 1 /\ <<x>>[1] = x
  OBVIOUS
<1>8. /\ t \in Seq(S) /\ Len(t) = Len(u) + Len(<<x>>)
      /\ \A i \in 1 .. Len(u) + Len(<<x>>) : t[i] = IF i <= Len(u) THEN u[i] ELSE <<x>>[i - Len(u)]
  BY <1>2, <1>6, <1>7, ConcatProperties
<1>9. Len(t) = k + 1 /\ t[k + 1] = x /\ \A i \in 1 .. k : t[i] = s[i]
  <2>1. Len(t) = k + 1
    BY <1>8, <1>2, <1>7
  <2>2. t[k + 1] = x
    <3>1. k + 1 \in 1 .. Len(u) + Len(<<x>>) /\ ~(k + 1 <= Len(u)) /\ (k + 1) - Len(u) = 1
      BY <1>0, <1>2, <1>7
    <3> QED BY <3>1, <1>8, <1>7
  <2>3. ASSUME NEW i \in 1 .. k PROVE t[i] = s[i]
    <3>1. i \in 1 .. Len(u) + Len(<<x>>) /\ i <= Len(u)
      BY <1>0, <1>2, <1>7
    <3> QED BY <3>1, <1>8, <1>2
  <2> QED BY <2>1, <2>2, <2>3
<1>10. z = t \o v
  BY <1>0, <1>1, <1>3, <1>6 DEF InsertAt
<1>11. /\ z \in Seq(S) /\ Len(z) = Len(t) + Len(v)
       /\ \A i \in 1 .. Len(t) + Len(v) : z[i] = IF i <= Len(t) THEN t[i] ELSE v[i - Len(t)]
  <2>1. t \in Seq(S) /\ v \in Seq(S)
    BY <1>4, <1>8
  <2> QED BY <2>1, <1>10, ConcatProperties
<1>12. Len(z) = Len(s) + 1
  BY <1>0, <1>11, <1>5, <1>9
<1>13. ASSUME NEW i \in 1 .. Len(s) + 1
       PROVE z[i] = IF i <= k THEN s[i] ELSE IF i = k + 1 THEN x ELSE s[i - 1]
  <2>1. i \in 1 .. Len(t) + Len(v) /\ i \in Nat
    BY <1>0, <1>5, <1>9
  <2>2. CASE i <= k
    <3>1. i \in 1 .. k /\ i <= Len(t)
      BY <1>0, <1>9, <2>2
    <3> QED BY <3>1, <2>1, <1>9, <1>11, <2>2
  <2>3. CASE i = k + 1
    BY <2>1, <2>3, <1>0, <1>9, <1>11
  <2>4. CASE i > k + 1
    <3>1. ~(i <= Len(t)) /\ i - Len(t) \in 1 .. Len(s) - (k + 1) + 1 /\ (k + 1) + (i - Len(t)) - 1 = i - 1
      BY <1>0, <1>9, <2>4, <2>1
    <3>2. z[i] = v[i - Len(t)]
      BY <2>1, <3>1, <1>11
    <3>3. v[i - Len(t)] = s[i - 1]
      BY <3>1, <1>4
    <3> QED BY <3>2, <3>3, <2>4, <1>0
  <2> QED BY <2>2, <2>3, <2>4, <1>0
<1> QED BY <1>11, <1>12, <1>13, Zenon DEF IsInserted

IsCutOut(t, S, s, from, to) ==
  /\ t \in Seq(S) /\ Len(t) = Len(s) - (to - from + 1)
  /\ \A i \in 1 .. Len(t) : t[i] = IF i < from THEN s[i] ELSE s[i + (to - from + 1)]
LEMMA CutOut ==
  ASSUME NEW S, NEW s \in Seq(S), NEW from \in 1 .. Len(s), NEW to \in from .. Len(s),
         NEW t, t = SubSeq(s, 1, from - 1) \o SubSeq(s, to + 1, Len(s))
  PROVE  IsCutOut(t, S, s, from, to)
<1>0. Len(s) \in Nat /\ from \in Nat /\ to \in Nat /\ from <= to /\ to <= Len(s)
      /\ from - 1 \in 0 .. Len(s) /\ to + 1 \in Int /\ Len(s) \in Int
  OBVIOUS
<1>1. PICK u : u = SubSeq(s, 1, from - 1)
  OBVIOUS
<1>2. u \in Seq(S) /\ Len(u) = from - 1 /\ \A i \in 1 .. from - 1 : u[i] = s[i]
  BY <1>0, <1>1, Beginning
<1>3. PICK v : v = SubSeq(s, to + 1, Len(s))
  OBVIOUS
<1>a. \A i \in to + 1 .. Len(s) : s[i] \in S
  BY <1>0
<1>4. /\ v \in Seq(S) /\ Len(v) = IF to + 1 <= Len(s) THEN Len(s) - (to + 1) + 1 ELSE 0
      /\ \A i \in 1 .. Len(s) - (to + 1) + 1 : v[i] = s[(to + 1) + i - 1]
  BY <1>0, <1>3, <1>a, SubSeqProperties
<1>5. Len(v) = Len(s) - to
  BY <1>0, <1>4
<1>6. PICK c : c = u \o v
  OBVIOUS
<1>7. /\ c \in Seq(S) /\ Len(c) = Len(u) + Len(v)
      /\ \A i \in 1 .. Len(u) + Len(v) : c[i] = IF i <= Len(u) THEN u[i] ELSE v[i - Len(u)]
  <2>1. u \in Seq(S) /\ v \in Seq(S)
    BY <1>2, <1>4
  <2> QED BY <2>1, <1>6, ConcatProperties, Zenon
<1>8. Len(c) = Len(s) - (to - from + 1)
  BY <1>0, <1>2, <1>5, <1>7
<1>9. ASSUME NEW i \in 1 .. Len(c) PROVE c[i] = IF i < from THEN s[i] ELSE s[i + (to - from + 1)]
  <2>1. i \in 1 .. Len(u) + Len(v) /\ i \in Nat
    BY <1>7
  <2>2. CASE i < from
    <3>1. i \in 1 .. from - 1 /\ i <= Len(u)
      BY <1>0, <1>2, <2>1, <2>2
    <3> QED BY <3>1, <2>1, <2>2, <1>2, <1>7
  <2>3. CASE ~(i < from)
    <3>1. ~(i <= Len(u)) /\ i - Len(u) \in 1 .. Len(s) - (to + 1) + 1
          /\ (to + 1) + (i - Len(u)) - 1 = i + (to - from + 1)
      BY <1>0, <1>2, <1>8, <2>1, <2>3
    <3>2. c[i] = v[i - Len(u)]
      BY <2>1, <3>1, <1>7
    <3>3. v[i - Len(u)] = s[i + (to - from + 1)]
      BY <3>1, <1>4
    <3> QED BY <2>3, <3>2, <3>3
  <2> QED BY <2>2, <2>3
<1>10. t = c
  BY <1>1, <1>3, <1>6, Zenon
<1> QED BY <1>7, <1>8, <1>9, <1>10, Zenon DEF IsCutOut

LEMMA Greatest2 ==
  ASSUME NEW a \in Int, NEW b \in Int
  PROVE  Max({a, b}) = IF a >= b THEN a ELSE b
  BY DEF Max

LEMMA RingAdded ==
  ASSUME Ring, hist \in [0 .. HistSize - 1 -> Lines], count \in Nat, line \in Lines, Enter
  PROVE  Ring' /\ hist' \in [0 .. HistSize - 1 -> Lines] /\ count' \in Nat
<1>0. HistSize \in Nat /\ HistSize > 0 /\ given \in Seq(Lines) /\ Len(given) \in Nat
      /\ Len(given) = (IF count < HistSize THEN count ELSE HistSize) /\ count \in Nat
  BY Sizes DEF Ring
<1>1. \A j \in 0 .. count - 1 :
        j >= count - HistSize => hist[Slot(j)] = given[Len(given) - (count - 1 - j)]
  BY DEF Ring
<1>2. Repeats <=> given # <<>> /\ Last(given) = line
  <2>1. CASE count = 0
    <3>1. Len(given) = 0
      BY <1>0, <2>1
    <3>2. given = <<>>
      BY <1>0, <3>1
    <3> QED BY <2>1, <3>2 DEF Repeats
  <2>2. CASE count > 0
    <3>1. count - 1 \in 0 .. count - 1 /\ count - 1 >= count - HistSize /\ count - 1 - (count - 1) = 0
          /\ Len(given) > 0 /\ Len(given) - 0 = Len(given)
      BY <1>0, <2>2
    <3>2. hist[Slot(count - 1)] = given[Len(given)]
      BY <1>1, <3>1
    <3>3. given # <<>>
      BY <3>1
    <3> QED BY <3>2, <3>3, <2>2 DEF Repeats, Last
  <2> QED BY <1>0, <2>1, <2>2
<1>3. CASE line = <<>> \/ Repeats
  <2>1. hist' = hist /\ count' = count /\ given' = given
    BY <1>2, <1>3 DEF Enter, Remember
  <2> QED BY <2>1, <1>0, <1>1 DEF Ring
<1>4. CASE ~(line = <<>> \/ Repeats)
  <2>1. count' = count + 1 /\ hist' = [hist EXCEPT ![Slot(count)] = line]
    BY <1>4 DEF Enter, Remember
  <2>2. given' = LastOf(Append(given, line))
    BY <1>2, <1>4 DEF Enter, Remember
  <2>3. PICK a : a = Append(given, line)
    OBVIOUS
  <2>4. a \in Seq(Lines) /\ Len(a) = Len(given) + 1 /\ (\A i \in 1 .. Len(given) : a[i] = given[i])
        /\ a[Len(given) + 1] = line
    BY <1>0, <2>3, AppendProperties
  <2>5. /\ given' \in Seq(Lines)
        /\ Len(given') = IF Len(a) < HistSize THEN Len(a) ELSE HistSize
        /\ \A i \in 1 .. Len(given') : given'[i] = a[Len(a) - Len(given') + i]
    BY <2>2, <2>3, <2>4, LastOfIs
  <2>6. Len(given') \in Nat /\ Len(given') = IF count' < HistSize THEN count' ELSE HistSize
    BY <1>0, <2>1, <2>4, <2>5
  <2>7. Slot(count) \in 0 .. HistSize - 1
    BY <1>0, SlotIs
  <2>8. ASSUME NEW j \in 0 .. count' - 1, j >= count' - HistSize
        PROVE  hist'[Slot(j)] = given'[Len(given') - (count' - 1 - j)]
    <3>0. j \in Nat /\ j <= count
      BY <1>0, <2>1
    <3>1. j \in Nat /\ j <= count /\ Slot(j) \in 0 .. HistSize - 1
      BY <3>0, SlotIs
    <3>2. PICK i : i = Len(given') - (count' - 1 - j)
      OBVIOUS
    <3>3. i \in 1 .. Len(given') /\ Len(a) - Len(given') + i = Len(given) + 1 - (count - j)
      <4>1. PICK n \in Nat, m \in Nat, d \in Nat :
              n = Len(given') /\ m = Len(given) /\ d = count - j
        BY <1>0, <2>6, <3>1
      <4>2. i = n - d /\ Len(a) = m + 1
        BY <2>1, <2>4, <3>1, <3>2, <4>1, <1>0
      <4>3. d < n /\ (m + 1) - n + (n - d) = m + 1 - d
        BY <1>0, <2>1, <2>6, <2>8, <3>1, <4>1
      <4> QED BY <4>1, <4>2, <4>3
    <3>4. given'[i] = a[Len(given) + 1 - (count - j)]
      BY <2>5, <3>3
    <3>5. CASE j = count
      <4>1. Len(given) + 1 - (count - j) = Len(given) + 1
        BY <1>0, <3>5
      <4>2. hist'[Slot(j)] = line
        BY <2>1, <2>7, <3>5
      <4> QED BY <3>2, <3>4, <4>1, <4>2, <2>4
    <3>6. CASE j # count
      <4>1. j \in 0 .. count - 1 /\ j >= count - HistSize /\ j < count /\ count < j + HistSize
        BY <1>0, <2>1, <2>8, <3>1, <3>6
      <4>2. Slot(j) # Slot(count)
        BY <4>1, <3>1, <1>0, SlotsDiffer
      <4>3. hist'[Slot(j)] = hist[Slot(j)]
        BY <2>1, <4>2, <3>1
      <4>4. Len(given) + 1 - (count - j) = Len(given) - (count - 1 - j)
            /\ Len(given) - (count - 1 - j) \in 1 .. Len(given)
        BY <1>0, <4>1
      <4>5. hist[Slot(j)] = given[Len(given) - (count - 1 - j)]
        BY <1>1, <4>1
      <4> QED BY <3>2, <3>4, <4>3, <4>4, <4>5, <2>4
    <3> QED BY <3>5, <3>6
  <2>9. Ring'
    BY <2>5, <2>6, <2>8, Zenon DEF Ring
  <2>10. hist' \in [0 .. HistSize - 1 -> Lines] /\ count' \in Nat
    BY <1>0, <2>1
  <2> QED BY <2>9, <2>10
<1> QED BY <1>3, <1>4

-----------------------------------------------------------------------------
(* The inductive invariant.  The line and the screen: while all that was   *)
(* on the row since the prompt fits, the row shows the line, and what is   *)
(* below it is blank, but for what lf, mv and ov excuse.                   *)
Good(l, p, lf, mv, ov, k, s) ==
  /\ s.col = k + p
  /\ ~mv => Showing(s, l, k)
  /\ ~ov => BlankBelow(s)
  /\ ~lf /\ ~mv /\ ~ov => BlankFrom(s, Len(l), k)
Shown(l, p, w, lf, mv, ov, k, s) == Fit(w, k) => Good(l, p, lf, mv, ov, k, s)
EditSound ==
  /\ line \in Lines /\ pos \in 0 .. Len(line) /\ scr \in Screens /\ pcol \in 0 .. Width - 1
  /\ widest \in Nat /\ Len(line) <= widest /\ left \in BOOLEAN /\ shows \in BOOLEAN
  /\ moved \in BOOLEAN /\ overrun \in BOOLEAN
  /\ Shown(line, pos, widest, left, moved, overrun, pcol, scr)
RingSound ==
  /\ hist \in [0 .. HistSize - 1 -> Lines] /\ count \in Nat /\ index \in 0 .. count /\ Ring
  /\ shows => line = IF index = count THEN <<>> ELSE hist[Slot(index)]
LineInd == EditSound /\ RingSound

LEMMA LineIs ==
  ASSUME NEW l \in Lines
  PROVE  l \in Seq(Chars) /\ l \in Seq(Glyphs) /\ Len(l) \in Nat /\ Len(l) < LineMax
<1>1. l \in Seq(Chars) /\ Len(l) < LineMax
  BY LinesIs
<1> QED BY <1>1, Sizes

(* What a key leaves is sound when the screen it leaves shows the line.    *)
LEMMA BecomesSound ==
  ASSUME EditSound, NEW l \in Lines, NEW p \in 0 .. Len(l), NEW arrow \in BOOLEAN, NEW s \in Screens,
         Becomes(l, p, arrow, s), moved' \in BOOLEAN,
         Fit(widest, pcol) /\ Fit(Len(l), pcol) /\ Fit(Len(line), pcol) =>
           Good(l, p, left', moved', overrun, pcol, s)
  PROVE  EditSound'
<1>0. /\ Len(l) \in Nat /\ Len(line) \in Nat /\ widest \in Nat /\ Len(line) <= widest
      /\ PromptCol \in Nat /\ Width \in Nat /\ left \in BOOLEAN /\ overrun \in BOOLEAN
      /\ pcol \in 0 .. Width - 1
  BY LineIs, Sizes DEF EditSound
<1>1. line' = l /\ pos' = p /\ scr' = s /\ shows' = arrow /\ widest' = Max({widest, Len(l)})
      /\ left' = (left \/ (arrow /\ Len(l) < Len(line))) /\ pcol' = pcol /\ overrun' = overrun
  BY DEF Becomes
<1>2. widest' = IF widest >= Len(l) THEN widest ELSE Len(l)
  BY <1>0, <1>1, Greatest2
<1>3. widest' \in Nat /\ Len(l) <= widest' /\ widest <= widest'
  BY <1>0, <1>2
<1>4. left' \in BOOLEAN
  BY <1>0, <1>1
<1>5. Shown(l, p, widest', left', moved', overrun, pcol, s)
  <2> SUFFICES ASSUME Fit(widest', pcol) PROVE Good(l, p, left', moved', overrun, pcol, s)
    BY DEF Shown
  <2>1. PICK w \in Nat : w = widest'
    BY <1>3
  <2>2. PICK a \in Nat, b \in Nat : a = Len(l) /\ b = Len(line)
    BY <1>0
  <2>3. a <= w /\ b <= w /\ widest <= w
    BY <1>0, <1>3, <2>1, <2>2
  <2>4. Fit(w, pcol) /\ pcol \in Nat /\ Len(Prompt) \in Nat
    BY <1>0, <2>1 DEF PromptCol
  <2>5. Fit(widest, pcol) /\ Fit(a, pcol) /\ Fit(b, pcol)
    BY <1>0, <2>3, <2>4 DEF Fit
  <2> QED BY <2>2, <2>5
<1>6. Shown(line, pos, widest, left, moved, overrun, pcol, scr)'
  BY <1>1, <1>5, Zenon DEF Shown, Fit, Good, Showing, BlankBelow, BlankFrom
<1> QED BY <1>0, <1>1, <1>3, <1>4, <1>6 DEF EditSound

(* redraw_line.                                                            *)
LEMMA RedrawnSound ==
  ASSUME EditSound, NEW l \in Lines, NEW p \in 0 .. Len(l), NEW arrow \in BOOLEAN,
         arrow \/ Len(line) <= Len(l) + 1, Becomes(l, p, arrow, Redraw(scr, l, p)), moved' = moved
  PROVE  EditSound'
<1>0. /\ Len(l) \in Nat /\ Len(line) \in Nat /\ scr \in Screens /\ l \in Seq(Glyphs) /\ p \in Nat
      /\ Shown(line, pos, widest, left, moved, overrun, pcol, scr) /\ pcol \in 0 .. Width - 1
      /\ moved \in BOOLEAN
  BY LineIs DEF EditSound
<1>1. PICK s : s = Redraw(scr, l, p)
  OBVIOUS
<1>2. s \in Screens
  BY <1>0, <1>1, RedrawTyped
<1>3. ASSUME Fit(widest, pcol), Fit(Len(l), pcol)
      PROVE  Good(l, p, left', moved', overrun, pcol, s)
  <2>1. IsRedraw(scr, l, p, s)
    BY <1>0, <1>1, <1>3, RedrawIs, Zenon
  <2>2. (~overrun => BlankBelow(scr)) /\ (~left /\ ~moved /\ ~overrun => BlankFrom(scr, Len(line), pcol))
    BY <1>0, <1>3 DEF Shown, Good
  <2>3. ASSUME ~left', ~moved, ~overrun PROVE BlankFrom(s, Len(l), pcol)
    <3>0. ~left /\ ~(arrow /\ Len(l) < Len(line))
      BY <2>3, Zenon DEF Becomes
    <3>1. ~left /\ Len(line) <= Len(l) + 1
      BY <1>0, <3>0
    <3>2. Len(line) \in 0 .. Len(l) + 1
      BY <1>0, <3>1
    <3> QED BY <2>1, <2>2, <2>3, <3>1, <3>2 DEF IsRedraw
  <2>4. s.col = pcol + p /\ Showing(s, l, pcol) /\ (~overrun => BlankBelow(s))
    BY <2>1, <2>2 DEF IsRedraw
  <2> QED BY <2>3, <2>4, Zenon DEF Good
<1>4. Becomes(l, p, arrow, s)
  BY <1>1
<1> QED BY <1>0, <1>2, <1>3, <1>4, BecomesSound

LEMMA EmptyLine == <<>> \in Lines
<1>1. <<>> \in Seq(Chars) /\ Len(<<>>) = 0
  OBVIOUS
<1> QED BY <1>1, LinesIs, Sizes

IsOneCell(d, cell, r, k, c) ==
  \A x \in 0 .. Width - 1 : d[r][x] = IF x = k THEN c ELSE cell[r][x]
LEMMA OneCell ==
  ASSUME NEW cell \in [0 .. Height - 1 -> [0 .. Width - 1 -> Glyphs]], NEW r \in 0 .. Height - 1,
         NEW k \in 0 .. Width - 1, NEW c, NEW d, d = [cell EXCEPT ![r] = [@ EXCEPT ![k] = c]]
  PROVE  IsOneCell(d, cell, r, k, c)
<1>1. PICK b \in [0 .. Width - 1 -> Glyphs] : b = cell[r]
  OBVIOUS
<1>2. d[r] = [b EXCEPT ![k] = c]
  BY <1>1
<1> QED BY <1>1, <1>2 DEF IsOneCell

LEMMA TypeEndSound ==
  ASSUME EditSound, NEW c \in Chars, TypeEnd(c)
  PROVE  EditSound'
<1>0. /\ Len(line) \in Nat /\ line \in Seq(Chars) /\ Len(line) < LineMax - 1 /\ pos = Len(line) /\ scr \in Screens
      /\ c \in Glyphs /\ c \in Printed /\ LineMax \in Nat /\ Shown(line, pos, widest, left, moved, overrun, pcol, scr)
      /\ pcol \in Nat /\ Width \in Nat /\ moved \in BOOLEAN /\ moved' = moved /\ c # NewLine /\ c # Back
  BY LineIs, Sizes DEF EditSound, TypeEnd, Printed
<1>1. PICK l : l = Append(line, c)
  OBVIOUS
<1>2. l \in Seq(Chars) /\ Len(l) = Len(line) + 1 /\ (\A i \in 1 .. Len(line) : l[i] = line[i])
      /\ l[Len(line) + 1] = c
  BY <1>0, <1>1, AppendProperties
<1>3. l \in Lines
  <2>1. Len(l) < LineMax
    BY <1>0, <1>2
  <2> QED BY <1>2, <2>1, LinesIs
<1>4. PICK s : s = PutChar(scr, c)
  OBVIOUS
<1>5. IsPutChar(scr, c, s)
  BY <1>0, <1>4, PutCharIs
<1>6. s \in Screens
  BY <1>5 DEF IsPutChar
<1>7. Becomes(l, Len(line) + 1, FALSE, s)
  BY <1>0, <1>1, <1>4 DEF TypeEnd
<1>8. ASSUME Fit(widest, pcol), Fit(Len(l), pcol)
      PROVE  Good(l, Len(line) + 1, left', moved', overrun, pcol, s)
  <2>1. /\ scr.col = pcol + pos /\ (~moved => Showing(scr, line, pcol)) /\ (~overrun => BlankBelow(scr))
        /\ ~left /\ ~moved /\ ~overrun => BlankFrom(scr, Len(line), pcol)
    BY <1>0, <1>8 DEF Shown, Good
  <2>2. PICK k : k = scr.col
    OBVIOUS
  <2>3. k = pcol + Len(line) /\ k \in 0 .. Width - 1 /\ k + 1 < Width /\ k \in Nat
    BY <1>0, <1>2, <1>8, <2>1, <2>2 DEF Fit
  <2>4. PICK r : r = scr.row
    OBVIOUS
  <2>5. r \in 0 .. Height - 1 /\ scr.cell \in [0 .. Height - 1 -> [0 .. Width - 1 -> Glyphs]]
    BY <1>0, <2>4, ScreenIs
  <2>6. s.row = r /\ s.col = k + 1 /\ s.cell = [scr.cell EXCEPT ![r] = [@ EXCEPT ![k] = c]] /\ (~overrun => BlankBelow(s))
    BY <1>0, <1>5, <2>1, <2>2, <2>3, <2>4 DEF IsPutChar
  <2>7. \A x \in 0 .. Width - 1 : s.cell[r][x] = IF x = k THEN c ELSE scr.cell[r][x]
    <3>1. PICK d, e : d = s.cell /\ e = scr.cell
      OBVIOUS
    <3>2. d = [e EXCEPT ![r] = [@ EXCEPT ![k] = c]] /\ e \in [0 .. Height - 1 -> [0 .. Width - 1 -> Glyphs]]
      BY <2>5, <2>6, <3>1
    <3>3. IsOneCell(d, e, r, k, c)
      BY <2>3, <2>5, <3>2, OneCell
    <3> QED BY <3>1, <3>3 DEF IsOneCell
  <2>8. ASSUME ~moved, NEW i \in 1 .. Len(l) PROVE s.cell[r][pcol + i - 1] = l[i]
    <3>1. PICK x : x = pcol + i - 1
      OBVIOUS
    <3>2. x \in 0 .. Width - 1
      BY <1>0, <1>2, <2>3, <3>1
    <3>3. CASE i = Len(line) + 1
      <4>1. x = k
        BY <1>0, <2>3, <3>1, <3>3
      <4> QED BY <2>7, <3>1, <3>2, <3>3, <4>1, <1>2
    <3>4. CASE i # Len(line) + 1
      <4>1. i \in 1 .. Len(line) /\ x # k
        BY <1>0, <1>2, <2>3, <3>1, <3>4
      <4>2. scr.cell[r][x] = line[i]
        BY <2>1, <2>4, <2>8, <3>1, <4>1 DEF Showing
      <4> QED BY <2>7, <3>1, <3>2, <4>1, <4>2, <1>2
    <3> QED BY <3>3, <3>4
  <2>9. ASSUME ~left', ~moved, ~overrun PROVE BlankFrom(s, Len(l), pcol)
    <3>1. ~left
      BY <1>7, <2>9 DEF Becomes
    <3> SUFFICES ASSUME NEW x \in pcol + Len(l) .. Width - 1 PROVE s.cell[r][x] = Space
      BY <2>6 DEF BlankFrom
    <3>2. x \in 0 .. Width - 1 /\ x # k /\ x \in pcol + Len(line) .. Width - 1
      BY <1>0, <1>2, <2>3
    <3>3. scr.cell[r][x] = Space
      BY <2>1, <2>4, <2>9, <3>1, <3>2 DEF BlankFrom
    <3> QED BY <2>7, <3>2, <3>3
  <2>10. s.col = pcol + (Len(line) + 1)
    BY <1>0, <2>3, <2>6
  <2>11. ~moved => Showing(s, l, pcol)
    BY <2>6, <2>8 DEF Showing
  <2> QED BY <1>0, <2>6, <2>9, <2>10, <2>11, Zenon DEF Good
<1>9. Len(line) + 1 \in 0 .. Len(l)
  BY <1>0, <1>2
<1> QED BY <1>0, <1>3, <1>6, <1>7, <1>8, <1>9, BecomesSound

LEMMA TypeMiddleSound ==
  ASSUME EditSound, NEW c \in Chars, TypeMiddle(c)
  PROVE  EditSound'
<1>0. /\ Len(line) \in Nat /\ line \in Seq(Chars) /\ Len(line) < LineMax - 1 /\ pos \in 0 .. Len(line)
      /\ LineMax \in Nat /\ pos < Len(line)
  BY LineIs, Sizes DEF EditSound, TypeMiddle
<1>1. PICK l : l = Inserted(c)
  OBVIOUS
<1>2. IsInserted(l, Chars, line, pos, c)
  BY <1>0, <1>1, InsertionIs DEF Inserted
<1>3. l \in Seq(Chars) /\ Len(l) = Len(line) + 1
  BY <1>2 DEF IsInserted
<1>4. l \in Lines
  <2>1. Len(l) < LineMax
    BY <1>0, <1>3
  <2> QED BY <1>3, <2>1, LinesIs
<1>5. pos + 1 \in 0 .. Len(l) /\ Len(line) <= Len(l) + 1
  BY <1>0, <1>3
<1>6. Becomes(l, pos + 1, FALSE, Redraw(scr, l, pos + 1)) /\ moved' = moved
  BY <1>1 DEF TypeMiddle
<1> QED BY <1>4, <1>5, <1>6, RedrawnSound

LEMMA CutIsLine ==
  ASSUME NEW l \in Lines, NEW i \in 1 .. Len(l)
  PROVE  /\ RemoveAt(l, i) \in Lines /\ Len(RemoveAt(l, i)) = Len(l) - 1
         /\ \A j \in 1 .. Len(l) - 1 : RemoveAt(l, i)[j] = IF j < i THEN l[j] ELSE l[j + 1]
<1>0. l \in Seq(Chars) /\ Len(l) \in Nat /\ Len(l) < LineMax /\ LineMax \in Nat
  BY LineIs, Sizes
<1>1. PICK t : t = RemoveAt(l, i)
  OBVIOUS
<1>2. i \in i .. Len(l) /\ t = SubSeq(l, 1, i - 1) \o SubSeq(l, i + 1, Len(l))
  BY <1>1 DEF RemoveAt
<1>3. IsCutOut(t, Chars, l, i, i)
  BY <1>0, <1>2, CutOut, Zenon
<1>4. t \in Seq(Chars) /\ Len(t) = Len(l) - (i - i + 1)
      /\ \A j \in 1 .. Len(t) : t[j] = IF j < i THEN l[j] ELSE l[j + (i - i + 1)]
  BY <1>3 DEF IsCutOut
<1>5. i - i + 1 = 1
  OBVIOUS
<1>6. Len(t) = Len(l) - 1 /\ \A j \in 1 .. Len(t) : t[j] = IF j < i THEN l[j] ELSE l[j + 1]
  BY <1>4, <1>5
<1>7. Len(t) < LineMax
  BY <1>0, <1>6
<1>8. t \in Lines
  BY <1>4, <1>7, LinesIs
<1> QED BY <1>1, <1>6, <1>8

LEMMA BackspaceSound ==
  ASSUME EditSound, Backspace
  PROVE  EditSound'
<1>0. /\ Len(line) \in Nat /\ line \in Lines /\ pos \in 0 .. Len(line) /\ pos > 0 /\ scr \in Screens
      /\ pcol \in Nat /\ Width \in Nat /\ Shown(line, pos, widest, left, moved, overrun, pcol, scr)
      /\ moved \in BOOLEAN /\ moved' = moved
  BY LineIs, Sizes DEF EditSound, Backspace
<1>1. PICK l : l = RemoveAt(line, pos)
  OBVIOUS
<1>2. pos \in 1 .. Len(line)
  BY <1>0
<1>3. l \in Lines /\ Len(l) = Len(line) - 1 /\ \A j \in 1 .. Len(line) - 1 : l[j] = IF j < pos THEN line[j] ELSE line[j + 1]
  BY <1>0, <1>1, <1>2, CutIsLine
<1>4. pos - 1 \in 0 .. Len(l) /\ Len(line) <= Len(l) + 1
  BY <1>0, <1>3
<1>5. CASE pos # Len(line)
  <2>1. Becomes(l, pos - 1, FALSE, Redraw(scr, l, pos - 1))
    BY <1>1, <1>5 DEF Backspace
  <2> QED BY <1>0, <1>3, <1>4, <2>1, RedrawnSound
<1>6. CASE pos = Len(line)
  <2>1. PICK s : s = Put(scr, <<Back, Space, Back>>)
    OBVIOUS
  <2>2. Becomes(l, pos - 1, FALSE, s)
    BY <1>1, <1>6, <2>1 DEF Backspace
  <2>3. s \in Screens
    <3>1. <<Back, Space, Back>> \in Seq(Printed)
      BY Sizes DEF Printed
    <3> QED BY <1>0, <2>1, <3>1, PutTyped
  <2>4. ASSUME Fit(widest, pcol), Fit(Len(line), pcol)
        PROVE  Good(l, pos - 1, left', moved', overrun, pcol, s)
    <3>1. /\ scr.col = pcol + pos /\ (~moved => Showing(scr, line, pcol)) /\ (~overrun => BlankBelow(scr))
          /\ ~left /\ ~moved /\ ~overrun => BlankFrom(scr, Len(line), pcol)
      BY <1>0, <2>4 DEF Shown, Good
    <3>2. PICK k : k = scr.col
      OBVIOUS
    <3>3. k = pcol + Len(line) /\ k < Width /\ k > 0 /\ k \in Nat
      BY <1>0, <1>6, <2>4, <3>1, <3>2 DEF Fit
    <3>4. PICK r : r = scr.row
      OBVIOUS
    <3>5. r \in 0 .. Height - 1 /\ scr.cell \in [0 .. Height - 1 -> [0 .. Width - 1 -> Glyphs]]
      BY <1>0, <3>4, ScreenIs
    <3>6. (~overrun => BlankBelow(s)) /\ s.row = r /\ s.col = k - 1 /\ s.cell = [scr.cell EXCEPT ![r] = [@ EXCEPT ![k - 1] = Space]]
      BY <1>0, <2>1, <3>1, <3>2, <3>3, <3>4, PutErase
    <3>7. \A x \in 0 .. Width - 1 : s.cell[r][x] = IF x = k - 1 THEN Space ELSE scr.cell[r][x]
      <4>1. k - 1 \in 0 .. Width - 1
        BY <1>0, <3>3
      <4>2. PICK d, e : d = s.cell /\ e = scr.cell
        OBVIOUS
      <4>3. d = [e EXCEPT ![r] = [@ EXCEPT ![k - 1] = Space]] /\ e \in [0 .. Height - 1 -> [0 .. Width - 1 -> Glyphs]]
        BY <3>5, <3>6, <4>2
      <4>4. IsOneCell(d, e, r, k - 1, Space)
        BY <4>1, <3>5, <4>3, OneCell
      <4> QED BY <4>2, <4>4 DEF IsOneCell
    <3>8. ASSUME ~moved, NEW i \in 1 .. Len(l) PROVE s.cell[r][pcol + i - 1] = l[i]
      <4>1. PICK x : x = pcol + i - 1
        OBVIOUS
      <4>2. x \in 0 .. Width - 1 /\ x # k - 1 /\ i \in 1 .. Len(line) /\ i \in 1 .. Len(line) - 1 /\ i < pos
        BY <1>0, <1>3, <1>6, <3>3, <4>1
      <4>3. scr.cell[r][x] = line[i] /\ l[i] = line[i]
        BY <1>3, <3>1, <3>4, <3>8, <4>1, <4>2 DEF Showing
      <4> QED BY <3>7, <4>1, <4>2, <4>3
    <3>9. ASSUME ~left', ~moved, ~overrun PROVE BlankFrom(s, Len(l), pcol)
      <4>1. ~left
        BY <2>2, <3>9 DEF Becomes
      <4> SUFFICES ASSUME NEW x \in pcol + Len(l) .. Width - 1 PROVE s.cell[r][x] = Space
        BY <3>6 DEF BlankFrom
      <4>0. pcol + Len(l) = k - 1 /\ pcol + Len(line) = k
        BY <1>0, <1>3, <3>3
      <4>2. x \in 0 .. Width - 1 /\ (x = k - 1 \/ x \in pcol + Len(line) .. Width - 1)
        BY <4>0, <1>0, <3>3
      <4>3. x # k - 1 => scr.cell[r][x] = Space
        BY <3>1, <3>4, <3>9, <4>1, <4>2 DEF BlankFrom
      <4> QED BY <3>7, <4>2, <4>3
    <3>10. s.col = pcol + (pos - 1)
      BY <1>0, <1>6, <3>3, <3>6
    <3>11. ~moved => Showing(s, l, pcol)
      BY <3>6, <3>8 DEF Showing
    <3> QED BY <1>0, <3>6, <3>9, <3>10, <3>11, Zenon DEF Good
  <2> QED BY <1>0, <1>3, <1>4, <2>2, <2>3, <2>4, BecomesSound
<1> QED BY <1>5, <1>6

LEMMA DeleteSound ==
  ASSUME EditSound, Delete
  PROVE  EditSound'
<1>0. Len(line) \in Nat /\ line \in Lines /\ pos \in 0 .. Len(line) /\ pos < Len(line)
  BY LineIs DEF EditSound, Delete
<1>1. PICK l : l = RemoveAt(line, pos + 1)
  OBVIOUS
<1>2. pos + 1 \in 1 .. Len(line)
  BY <1>0
<1>3. l \in Lines /\ Len(l) = Len(line) - 1
  BY <1>0, <1>1, <1>2, CutIsLine
<1>4. pos \in 0 .. Len(l) /\ Len(line) <= Len(l) + 1
  BY <1>0, <1>3
<1>5. Becomes(l, pos, FALSE, Redraw(scr, l, pos)) /\ moved' = moved
  BY <1>1 DEF Delete
<1> QED BY <1>3, <1>4, <1>5, RedrawnSound

(* The cursor moves by a column.                                           *)
LEMMA MoveSound ==
  ASSUME EditSound, NEW p \in 0 .. Len(line), NEW c \in Nat, NEW s,
         s = SetPos(scr, scr.row, c) \/ (s = scr /\ scr.col = c),
         c = scr.col + (p - pos) \/ (scr.col = 0 /\ p < pos),
         Becomes(line, p, FALSE, s), moved' = moved
  PROVE  EditSound'
<1>0. /\ Len(line) \in Nat /\ line \in Lines /\ pos \in 0 .. Len(line) /\ scr \in Screens
      /\ scr.row \in Nat /\ scr.row < Height /\ pcol \in Nat /\ Width \in Nat
      /\ Shown(line, pos, widest, left, moved, overrun, pcol, scr) /\ widest \in Nat /\ Len(line) <= widest /\ scr.col \in Nat /\ scr.row \in 0 .. Height - 1
      /\ Height \in Nat /\ moved \in BOOLEAN
  BY LineIs, Sizes, ScreenIs DEF EditSound
<1>1. s \in Screens /\ s.cell = scr.cell /\ (c < Width => s.row = scr.row /\ s.col = c)
  <2>1. CASE s = scr /\ scr.col = c
    BY <1>0, <2>1
  <2>2. CASE s = SetPos(scr, scr.row, c)
    <3>1. IsSetPos(scr, scr.row, c, s)
      BY <1>0, <2>2, SetPosIs
    <3> QED BY <1>0, <3>1 DEF IsSetPos
  <2> QED BY <2>1, <2>2
<1>2. ASSUME Fit(widest, pcol)
      PROVE  Good(line, p, left', moved', overrun, pcol, s)
  <2>1. /\ scr.col = pcol + pos /\ (~moved => Showing(scr, line, pcol)) /\ (~overrun => BlankBelow(scr))
        /\ ~left /\ ~moved /\ ~overrun => BlankFrom(scr, Len(line), pcol)
    BY <1>0, <1>2 DEF Shown, Good
  <2>3. c = pcol + p /\ c < Width
    BY <1>0, <1>2, <2>1 DEF Fit
  <2>4. s.row = scr.row /\ s.col = c /\ s.cell = scr.cell
    BY <1>1, <2>3
  <2>5. ~left' => ~left
    BY DEF Becomes
  <2>6. ~moved => Showing(s, line, pcol)
    BY <2>1, <2>4 DEF Showing
  <2>7. ~overrun => BlankBelow(s)
    BY <2>1, <2>4 DEF BlankBelow
  <2>8. ~left' /\ ~moved /\ ~overrun => BlankFrom(s, Len(line), pcol)
    BY <2>1, <2>4, <2>5 DEF BlankFrom
  <2>9. s.col = pcol + p
    BY <2>3, <2>4
  <2> QED BY <2>6, <2>7, <2>8, <2>9, Zenon DEF Good
<1> QED BY <1>0, <1>1, <1>2, BecomesSound

LEMMA LeftRightSound ==
  ASSUME EditSound, Left \/ Right
  PROVE  EditSound'
<1>0. /\ Len(line) \in Nat /\ pos \in 0 .. Len(line) /\ scr \in Screens /\ scr.col \in Nat
      /\ moved' = moved
  <2>1. scr \in Screens /\ line \in Lines /\ pos \in 0 .. Len(line)
    BY DEF EditSound
  <2>2. scr.col \in Nat
    BY <2>1, ScreenIs, Sizes
  <2>3. moved' = moved
    BY DEF Left, Right
  <2> QED BY <2>1, <2>2, <2>3, LineIs
<1>1. CASE Left
  <2>1. pos - 1 \in 0 .. Len(line) /\ pos > 0
    BY <1>0, <1>1 DEF Left
  <2>2. CASE scr.col = 0
    <3>1. Becomes(line, pos - 1, FALSE, scr)
      BY <1>1, <2>2 DEF Left
    <3>2. pos - 1 < pos
      BY <1>0
    <3> QED BY <1>0, <2>1, <2>2, <3>1, <3>2, MoveSound, Zenon
  <2>3. CASE scr.col # 0
    <3>1. Becomes(line, pos - 1, FALSE, SetPos(scr, scr.row, scr.col - 1))
      BY <1>1, <2>3 DEF Left
    <3>2. scr.col - 1 \in Nat /\ scr.col - 1 = scr.col + ((pos - 1) - pos)
      BY <1>0, <2>3
    <3> QED BY <1>0, <2>1, <3>1, <3>2, MoveSound, Zenon
  <2> QED BY <2>2, <2>3
<1>2. CASE Right
  <2>0. pos < Len(line) /\ Becomes(line, pos + 1, FALSE, SetPos(scr, scr.row, scr.col + 1))
    BY <1>2 DEF Right
  <2>1. pos + 1 \in 0 .. Len(line)
    BY <1>0, <2>0
  <2>2. scr.col + 1 \in Nat /\ scr.col + 1 = scr.col + ((pos + 1) - pos)
    BY <1>0
  <2> QED BY <1>0, <2>0, <2>1, <2>2, MoveSound, Zenon
<1> QED BY <1>1, <1>2

LEMMA HomeEndSound ==
  ASSUME EditSound, HomeEnd(0) \/ HomeEnd(Len(line))
  PROVE  EditSound'
<1>0. Len(line) \in Nat /\ line \in Lines /\ 0 \in 0 .. Len(line) /\ Len(line) \in 0 .. Len(line)
      /\ Len(line) <= Len(line) + 1
  BY LineIs DEF EditSound
<1>1. PICK p \in 0 .. Len(line) : Becomes(line, p, FALSE, Redraw(scr, line, p)) /\ moved' = moved
  BY <1>0 DEF HomeEnd
<1> QED BY <1>0, <1>1, RedrawnSound

LEMMA UpDownSound ==
  ASSUME EditSound, RingSound, Up \/ Down
  PROVE  EditSound' /\ RingSound'
<1>0. hist \in [0 .. HistSize - 1 -> Lines] /\ count \in Nat /\ index \in 0 .. count /\ Ring
  BY DEF RingSound
<1>1. PICK l : l = IF index' = count THEN <<>> ELSE hist[Slot(index')]
  OBVIOUS
<1>2. index' \in 0 .. count /\ Becomes(l, Len(l), TRUE, Redraw(scr, l, Len(l)))
      /\ UNCHANGED <<hist, count, given, moved>>
  <2>1. CASE Up
    <3>1. index' \in 0 .. count /\ index' # count
      BY <1>0, <2>1 DEF Up
    <3>2. l = hist[Slot(index')]
      BY <1>1, <3>1
    <3> QED BY <2>1, <3>1, <3>2 DEF Up
  <2>2. CASE Down
    <3>1. index' \in 0 .. count
      BY <1>0, <2>2 DEF Down
    <3> QED BY <1>1, <2>2, <3>1 DEF Down
  <2> QED BY <2>1, <2>2
<1>3. l \in Lines
  <2>1. index' \in Nat
    BY <1>0, <1>2
  <2>2. Slot(index') \in 0 .. HistSize - 1
    BY <2>1, SlotIs
  <2> QED BY <1>0, <1>1, <2>2, EmptyLine
<1>4. Len(l) \in 0 .. Len(l)
  BY <1>3, LineIs
<1>5. EditSound'
  BY <1>2, <1>3, <1>4, RedrawnSound
<1>6. Ring'
  BY <1>0, <1>2 DEF Ring, Slot
<1>7. line' = IF index' = count' THEN <<>> ELSE hist'[Slot(index')]
  BY <1>1, <1>2 DEF Becomes
<1>8. RingSound'
  BY <1>0, <1>2, <1>6, <1>7 DEF RingSound, Slot
<1> QED BY <1>5, <1>8

(* A key that is no arrow leaves the history alone.                        *)
LEMMA RingKept ==
  ASSUME RingSound, UNCHANGED <<hist, count, index, given>>, shows' = FALSE
  PROVE  RingSound'
  BY DEF RingSound, Ring, Slot

(* A new prompt, behind whatever text.                                     *)
LEMMA PromptSound ==
  ASSUME NEW s \in Screens, NEW t, t = Put(s, Prompt), NEW ov \in BOOLEAN, ~ov => Open(s)
  PROVE  t \in Screens /\ t.col \in 0 .. Width - 1 /\ Good(<<>>, 0, FALSE, FALSE, ov, t.col, t)
<1>1. Prompt \in Seq(Glyphs \cup {NewLine}) /\ Prompt \in Seq(Printed)
  <2>1. Prompt \in Seq(Glyphs) /\ Glyphs \subseteq Glyphs \cup {NewLine} /\ Glyphs \subseteq Printed
    BY Sizes DEF Printed
  <2> QED BY <2>1, SeqMonotonic
<1>2. t \in Screens /\ t.col \in 0 .. Width - 1
  <2>1. t \in Screens
    BY <1>1, PutTyped
  <2> QED BY <2>1, ScreenIs
<1>3. ~ov => Open(t)
  BY <1>1, PutOpen
<1>4. Len(<<>>) = 0 /\ t.col + 0 = t.col
  BY <1>2, Sizes
<1>5. Showing(t, <<>>, t.col)
  BY <1>4 DEF Showing
<1>6. ~ov => BlankBelow(t) /\ BlankFrom(t, Len(<<>>), t.col)
  BY <1>3, <1>4 DEF Open, BlankFrom
<1> QED BY <1>2, <1>4, <1>5, <1>6 DEF Good

(* The screen an Enter leaves before the prompt.                           *)
LEMMA RanSound ==
  ASSUME EditSound, NEW s \in Execute(PutChar(scr, NewLine))
  PROVE  s \in Screens /\ (~(overrun \/ ~Fits(widest)) => Open(s))
<1>1. PICK b : b = PutChar(scr, NewLine)
  OBVIOUS
<1>2. IsPutChar(scr, NewLine, b) /\ scr \in Screens
  <2>1. NewLine \in Printed /\ scr \in Screens
    BY DEF Printed, EditSound
  <2> QED BY <1>1, <2>1, PutCharIs, Zenon
<1>3. b \in Screens
  BY <1>2 DEF IsPutChar
<1>4. ASSUME ~overrun, Fits(widest) PROVE Open(b)
  <2>1. Fit(widest, pcol)
    BY <1>4 DEF Fit, Fits
  <2>2. BlankBelow(scr)
    BY <1>4, <2>1 DEF EditSound, Shown, Good
  <2>3. BlankBelow(b) /\ b.cell[b.row] = Blank /\ b.col = 0
    BY <1>2, <2>2 DEF IsPutChar
  <2> QED BY <2>3, BlankIs DEF Open
<1>5. CASE Idle
  <2>1. s = b
    BY <1>1, <1>5 DEF Execute
  <2> QED BY <1>3, <1>4, <2>1
<1>6. CASE ~Idle
  <2>1. PICK o \in Outputs : s = Put(b, o)
    BY <1>1, <1>6 DEF Execute
  <2>2. o \in Seq(Glyphs \cup {NewLine})
    BY LineAssumption
  <2>3. o \in Seq(Printed)
    <3>1. Glyphs \cup {NewLine} \subseteq Printed
      BY DEF Printed
    <3> QED BY <2>2, <3>1, SeqMonotonic
  <2>4. s \in Screens
    BY <1>3, <2>1, <2>3, PutTyped
  <2>5. Open(b) => Open(s)
    BY <1>3, <2>1, <2>2, PutOpen
  <2> QED BY <1>4, <2>4, <2>5
<1> QED BY <1>5, <1>6

LEMMA EnterSound ==
  ASSUME EditSound, RingSound, Enter
  PROVE  EditSound' /\ RingSound'
<1>1. PICK s, c : c \in BOOLEAN /\ Prompts(s, c) /\ s \in Screens
                  /\ (~(~c /\ (overrun \/ ~Fits(widest))) => Open(s))
  <2>1. CASE \E s \in Execute(PutChar(scr, NewLine)) : Prompts(s, FALSE)
    <3>1. PICK s \in Execute(PutChar(scr, NewLine)) : Prompts(s, FALSE)
      BY <2>1
    <3>2. s \in Screens /\ (~(overrun \/ ~Fits(widest)) => Open(s))
      BY <3>1, RanSound
    <3> QED BY <3>1, <3>2
  <2>2. CASE Prompts(Cleared, TRUE)
    BY <2>2, ClearedIs
  <2> QED BY <2>1, <2>2 DEF Enter
<1>2. /\ line' = <<>> /\ pos' = 0 /\ index' = count' /\ shows' = FALSE /\ widest' = 0 /\ left' = FALSE
      /\ moved' = FALSE /\ scr' = Put(s, Prompt) /\ pcol' = scr'.col
      /\ overrun' = (~c /\ (overrun \/ ~Fits(widest)))
  BY <1>1 DEF Prompts
<1>3. overrun' \in BOOLEAN /\ (~overrun' => Open(s))
  BY <1>1, <1>2
<1>4. scr' \in Screens /\ scr'.col \in 0 .. Width - 1 /\ Good(<<>>, 0, FALSE, FALSE, overrun', scr'.col, scr')
  BY <1>1, <1>2, <1>3, PromptSound
<1>5. <<>> \in Lines /\ Len(<<>>) = 0 /\ 0 \in 0 .. Len(<<>>)
  BY EmptyLine
<1>6. Shown(line, pos, widest, left, moved, overrun, pcol, scr)'
  BY <1>2, <1>4, Zenon DEF Shown, Fit, Good, Showing, BlankBelow, BlankFrom
<1>7. EditSound'
  <2>1. 0 \in Nat /\ Len(<<>>) <= 0 /\ FALSE \in BOOLEAN
    BY <1>5
  <2> QED BY <1>2, <1>3, <1>4, <1>5, <1>6, <2>1, Zenon DEF EditSound
<1>8. Ring' /\ hist' \in [0 .. HistSize - 1 -> Lines] /\ count' \in Nat
  BY RingAdded DEF RingSound, EditSound
<1>9. RingSound'
  <2>1. index' \in 0 .. count'
    BY <1>2, <1>8
  <2> QED BY <1>2, <1>8, <2>1 DEF RingSound
<1> QED BY <1>7, <1>9

LEMMA InitSound ==
  ASSUME Init
  PROVE  EditSound /\ RingSound
<1>1. scr = Put(Put(Cleared, Welcome), Prompt) /\ pcol = scr.col
  BY DEF Init
<1>2. line = <<>> /\ pos = 0 /\ index = count /\ shows = FALSE /\ widest = 0 /\ left = FALSE
      /\ moved = FALSE /\ overrun = FALSE
  BY DEF Init
<1>3. scr \in Screens /\ scr.col \in 0 .. Width - 1 /\ Good(<<>>, 0, FALSE, FALSE, FALSE, scr.col, scr)
  <2>1. Welcome \in Seq(Glyphs \cup {NewLine})
    BY DEF Welcome
  <2>2. Put(Cleared, Welcome) \in Screens /\ Open(Put(Cleared, Welcome))
    BY <2>1, ClearedIs, PutOpen
  <2> QED BY <1>1, <2>2, PromptSound
<1>4. <<>> \in Lines /\ Len(<<>>) = 0 /\ 0 \in 0 .. Len(<<>>)
  BY EmptyLine
<1>a. Shown(line, pos, widest, left, moved, overrun, pcol, scr)
  BY <1>1, <1>2, <1>3 DEF Shown
<1>5. EditSound
  <2>1. 0 \in Nat /\ Len(<<>>) <= 0 /\ FALSE \in BOOLEAN
    BY <1>4
  <2> QED BY <1>1, <1>2, <1>3, <1>4, <1>a, <2>1, Zenon DEF EditSound
<1>6. PICK f \in Saved : hist = Loaded(f) /\ count = Len(Usable(f)) /\ given = LastOf(Usable(f))
  BY DEF Init
<1>7. f \in Seq(Seq(Chars))
  BY LineAssumption
<1>8. Ring /\ hist \in [0 .. HistSize - 1 -> Lines] /\ count \in Nat
  BY <1>6, <1>7, LoadedSound
<1>9. RingSound
  BY <1>2, <1>8 DEF RingSound
<1> QED BY <1>5, <1>9

-----------------------------------------------------------------------------
(* tab_complete.                                                           *)
LEMMA PrefixIs ==
  ASSUME NEW S, NEW s \in Seq(S), NEW t \in Seq(S)
  PROVE  IsPrefix(s, t) <=> Len(s) <= Len(t) /\ \A i \in 1 .. Len(s) : s[i] = t[i]
<1>0. Len(s) \in Nat /\ Len(t) \in Nat
  OBVIOUS
<1>1. CASE ~(Len(s) <= Len(t))
  BY <1>1 DEF IsPrefix
<1>2. CASE Len(s) <= Len(t)
  <2>1. Len(s) \in 0 .. Len(s) /\ Len(s) \in 0 .. Len(t)
    BY <1>0, <1>2
  <2>2. PICK u : u = SubSeq(s, 1, Len(s))
    OBVIOUS
  <2>3. u \in Seq(S) /\ Len(u) = Len(s) /\ \A i \in 1 .. Len(s) : u[i] = s[i]
    BY <2>1, <2>2, Beginning
  <2>4. PICK v : v = SubSeq(t, 1, Len(s))
    OBVIOUS
  <2>5. v \in Seq(S) /\ Len(v) = Len(s) /\ \A i \in 1 .. Len(s) : v[i] = t[i]
    BY <2>1, <2>4, Beginning
  <2>6. IsPrefix(s, t) <=> u = v
    BY <1>2, <2>2, <2>4 DEF IsPrefix
  <2>7. ASSUME u = v PROVE \A i \in 1 .. Len(s) : s[i] = t[i]
    BY <2>3, <2>5, <2>7
  <2>8. ASSUME \A i \in 1 .. Len(s) : s[i] = t[i] PROVE u = v
    <3>1. \A i \in 1 .. Len(u) : u[i] = v[i]
      BY <2>3, <2>5, <2>8
    <3> QED BY <2>3, <2>5, <3>1, SameSeq
  <2> QED BY <1>2, <2>6, <2>7, <2>8
<1> QED BY <1>1, <1>2

(* A part of a sequence, by its elements.                                  *)
IsPart(t, S, s, m, n) ==
  t \in Seq(S) /\ Len(t) = n - m /\ \A i \in 1 .. n - m : t[i] = s[m + i]
LEMMA PartIs ==
  ASSUME NEW S, NEW s \in Seq(S), NEW n \in 0 .. Len(s), NEW m \in 0 .. n,
         NEW t, t = SubSeq(s, m + 1, n)
  PROVE  IsPart(t, S, s, m, n)
<1>0. Len(s) \in Nat /\ n \in Nat /\ m \in Nat /\ n \in Int /\ m + 1 \in Int /\ m <= n /\ n <= Len(s)
  OBVIOUS
<1>1. \A i \in m + 1 .. n : s[i] \in S
  BY <1>0
<1>2. /\ t \in Seq(S) /\ Len(t) = IF m + 1 <= n THEN n - (m + 1) + 1 ELSE 0
      /\ \A i \in 1 .. n - (m + 1) + 1 : t[i] = s[(m + 1) + i - 1]
  BY <1>0, <1>1, SubSeqProperties
<1>3. n - (m + 1) + 1 = n - m /\ \A i \in 1 .. n - m : (m + 1) + i - 1 = m + i
  BY <1>0
<1>4. Len(t) = n - m
  BY <1>0, <1>2
<1> QED BY <1>2, <1>3, <1>4 DEF IsPart

LEMMA BegunSound ==
  ASSUME NEW ns \in Seq(NameSet), NEW w
  PROVE  /\ Begun(ns, w) \in Seq(NameSet)
         /\ \A i \in 1 .. Len(Begun(ns, w)) : IsPrefix(w, Begun(ns, w)[i])
<1>0. Len(ns) \in Nat
  OBVIOUS
<1>1. PICK g : BegunSteps(ns, w, g) /\ Begun(ns, w) = g[Len(ns)]
  BY BegunIs
<1>2. /\ g[0] = <<>> /\ g \in [0 .. Len(ns) -> Seq(NameSet)]
      /\ \A n \in 1 .. Len(ns) : g[n] = (IF IsPrefix(w, ns[n]) THEN Append(g[n - 1], ns[n]) ELSE g[n - 1])
  BY <1>1 DEF BegunSteps
<1> DEFINE P(b) == \A i \in 1 .. Len(b) : IsPrefix(w, b[i])
           S == {n \in Nat : n <= Len(ns) => P(g[n])}
<1>3. 0 \in S
  <2>1. Len(<<>>) = 0
    OBVIOUS
  <2> QED BY <1>2, <2>1
<1>4. ASSUME NEW n \in Nat, n \in S PROVE n + 1 \in S
  <2> SUFFICES ASSUME n + 1 <= Len(ns) PROVE P(g[n + 1])
    OBVIOUS
  <2>1. n + 1 \in 1 .. Len(ns) /\ (n + 1) - 1 = n /\ P(g[n]) /\ n \in 0 .. Len(ns)
    BY <1>0, <1>4
  <2>2. PICK b \in Seq(NameSet) : b = g[n]
    BY <1>2, <2>1
  <2>3. PICK m \in NameSet : m = ns[n + 1]
    BY <2>1
  <2>4. g[n + 1] = IF IsPrefix(w, m) THEN Append(b, m) ELSE b
    BY <1>2, <2>1, <2>2, <2>3
  <2>5. CASE ~IsPrefix(w, m)
    BY <2>1, <2>2, <2>4, <2>5
  <2>6. CASE IsPrefix(w, m)
    <3>1. PICK a : a = Append(b, m)
      OBVIOUS
    <3>2. Len(a) = Len(b) + 1 /\ (\A i \in 1 .. Len(b) : a[i] = b[i]) /\ a[Len(b) + 1] = m /\ Len(b) \in Nat
      BY <3>1, AppendProperties
    <3>3. ASSUME NEW i \in 1 .. Len(a) PROVE IsPrefix(w, a[i])
      <4>1. i \in 1 .. Len(b) \/ i = Len(b) + 1
        BY <3>2
      <4> QED BY <4>1, <3>2, <2>1, <2>2, <2>6
    <3>4. g[n + 1] = a
      BY <2>4, <2>6, <3>1
    <3> QED BY <3>3, <3>4
  <2> QED BY <2>5, <2>6
<1>5. Nat \subseteq S
  <2> HIDE DEF S
  <2> QED BY <1>3, <1>4, Induction
<1>6. Len(ns) \in S /\ Len(ns) \in 0 .. Len(ns)
  BY <1>0, <1>5
<1>7. g[Len(ns)] \in Seq(NameSet)
  BY <1>2, <1>6
<1> QED BY <1>0, <1>1, <1>6, <1>7

(* The longest of the prefixes that the names have in common.              *)
IsCommon(c, S, T, w) ==
  c \in Seq(S) /\ Len(w) <= Len(c) /\ \A t \in T : IsPrefix(c, t)
LEMMA CommonIs ==
  ASSUME NEW S, NEW T, T \subseteq Seq(S), T # {}, NEW w \in Seq(S), \A t \in T : IsPrefix(w, t)
  PROVE  IsCommon(LongestCommonPrefix(T), S, T, w)
<1>1. PICK m \in T : m \in Seq(S)
  OBVIOUS
<1>2. PICK C : C = CommonPrefixes(T)
  OBVIOUS
<1>3. \A p : p \in C <=> (\E t \in T : \E l \in 0 .. Len(t) : p = SubSeq(t, 1, l)) /\ \A t \in T : IsPrefix(p, t)
  BY <1>2 DEF CommonPrefixes, Prefixes
<1>4. ASSUME NEW p \in C PROVE p \in Seq(S) /\ Len(p) \in 0 .. Len(m) /\ \A t \in T : IsPrefix(p, t)
  <2>1. PICK t \in T : \E l \in 0 .. Len(t) : p = SubSeq(t, 1, l)
    BY <1>3, <1>4
  <2>2. PICK l \in 0 .. Len(t) : p = SubSeq(t, 1, l)
    BY <2>1
  <2>3. p \in Seq(S)
    BY <2>2, Beginning
  <2>4. \A u \in T : IsPrefix(p, u)
    BY <1>3, <1>4
  <2>5. Len(p) <= Len(m) /\ Len(p) \in Nat /\ Len(m) \in Nat
    BY <1>1, <2>3, <2>4, PrefixIs
  <2> QED BY <2>3, <2>4, <2>5
<1>5. w \in C
  <2>1. Len(w) <= Len(m) /\ (\A i \in 1 .. Len(w) : w[i] = m[i]) /\ Len(w) \in Nat /\ Len(m) \in Nat
    BY <1>1, PrefixIs
  <2>2. Len(w) \in 0 .. Len(m)
    BY <2>1
  <2>3. PICK u : u = SubSeq(m, 1, Len(w))
    OBVIOUS
  <2>4. u \in Seq(S) /\ Len(u) = Len(w) /\ \A i \in 1 .. Len(w) : u[i] = m[i]
    BY <1>1, <2>2, <2>3, Beginning
  <2>5. \A i \in 1 .. Len(w) : w[i] = u[i]
    BY <2>1, <2>4
  <2>6. w = u
    BY <2>4, <2>5, SameSeq
  <2> QED BY <1>1, <1>3, <2>2, <2>3, <2>6
<1>6. PICK L : L = {Len(p) : p \in C}
  OBVIOUS
<1>7. L \subseteq 0 .. Len(m) /\ L # {} /\ Len(m) \in Nat
  BY <1>1, <1>4, <1>5, <1>6
<1>8. Max(L) \in L /\ \A y \in L : y <= Max(L)
  BY <1>7, MaxIs
<1>9. PICK x \in C : Len(x) = Max(L)
  BY <1>6, <1>8
<1>10. \A p \in C : Len(p) <= Len(x)
  BY <1>6, <1>8, <1>9
<1>11. PICK c : c = LongestCommonPrefix(T)
  OBVIOUS
<1>12. c = CHOOSE longest \in C : \A other \in C : Len(other) <= Len(longest)
  BY <1>2, <1>11 DEF LongestCommonPrefix
<1>13. c \in C /\ \A p \in C : Len(p) <= Len(c)
  BY <1>10, <1>12
<1>14. IsCommon(c, S, T, w)
  BY <1>4, <1>5, <1>13 DEF IsCommon
<1> QED BY <1>11, <1>14

(* The word before a place of a line.                                      *)
Spaces(l, p) == {0} \cup {i \in 1 .. p : l[i] = Space}
WordOf(l, p) == SubSeq(l, Max(Spaces(l, p)) + 1, p)
LEMMA WordIs == Word = WordOf(line, pos) /\ Word' = WordOf(line', pos') /\ WordStart = Max(Spaces(line, pos))
  BY DEF Word, WordOf, WordStart, Spaces

LEMMA WordSound ==
  ASSUME NEW l \in Seq(Chars), NEW p \in 0 .. Len(l)
  PROVE  /\ Max(Spaces(l, p)) \in 0 .. p
         /\ IsPart(WordOf(l, p), Chars, l, Max(Spaces(l, p)), p)
<1>0. Len(l) \in Nat /\ p \in Nat
  OBVIOUS
<1>1. Spaces(l, p) \subseteq 0 .. p /\ Spaces(l, p) # {}
  BY <1>0 DEF Spaces
<1>2. Max(Spaces(l, p)) \in 0 .. p
  BY <1>0, <1>1, MaxIs
<1> QED BY <1>2, PartIs DEF WordOf

(* What a tab makes of the line: the letters that go on from the word.     *)
IsCompleted(l, p, a, c) ==
  /\ l \in Lines /\ p \in 0 .. Len(l) /\ a \in Seq(Chars \ {Space})
  /\ Len(l) = Len(line) + Len(a) /\ p = pos + Len(a) /\ Len(line) <= Len(l)
  /\ Len(Word) + Len(a) <= Len(c) /\ \A i \in 1 .. Len(a) : a[i] = c[Len(Word) + i]
  /\ \A i \in 1 .. Len(l) : l[i] = IF i <= pos THEN line[i]
                                   ELSE IF i <= p THEN a[i - pos] ELSE line[i - Len(a)]
IsNamed(c) == /\ c \in Seq(Chars) /\ Len(Word) <= Len(c)
              /\ \A n \in ToSet(Matches) : n \in Seq(Chars) /\ IsPrefix(c, n) /\ IsPrefix(Word, n)

LEMMA NamesAre ==
  /\ NameSet \subseteq Seq(Chars) /\ NameSet \subseteq Seq(Glyphs)
  /\ Builtins \in Seq(NameSet) /\ Files \in Seq(NameSet)
<1>1. Chars \ {Space} \subseteq Chars /\ Chars \ {Space} \subseteq Glyphs
  BY Sizes
<1> QED BY <1>1, LineAssumption DEF NameSet

LEMMA MatchesIs ==
  /\ Matches \in Seq(NameSet) /\ Matches \in Seq(Seq(Glyphs))
  /\ \A i \in 1 .. Len(Matches) : IsPrefix(Word, Matches[i])
<1>1. PICK ns : ns = (IF WordStart = 0 THEN Builtins ELSE <<>>) \o Files
  OBVIOUS
<1>2. ns \in Seq(NameSet)
  <2>0. <<>> \in Seq(NameSet)
    OBVIOUS
  <2>1. PICK b \in Seq(NameSet) : b = IF WordStart = 0 THEN Builtins ELSE <<>>
    <3>1. CASE WordStart = 0
      BY <3>1, NamesAre
    <3>2. CASE WordStart # 0
      BY <3>2, <2>0
    <3> QED BY <3>1, <3>2
  <2>2. PICK f \in Seq(NameSet) : f = Files
    BY NamesAre
  <2> QED BY <1>1, <2>1, <2>2
<1>3. Matches = Begun(ns, Word)
  BY <1>1 DEF Matches
<1>4. Matches \in Seq(NameSet) /\ \A i \in 1 .. Len(Matches) : IsPrefix(Word, Matches[i])
  BY <1>2, <1>3, BegunSound
<1>5. Matches \in Seq(Seq(Glyphs))
  BY <1>4, NamesAre
<1> QED BY <1>4, <1>5

LEMMA CompletedIs ==
  ASSUME EditSound, Len(Matches) > 0
  PROVE  \E a, c : IsNamed(c) /\ IsCompleted(Completed, pos + Len(Completed) - Len(line), a, c)
<1>0. /\ line \in Lines /\ line \in Seq(Chars) /\ Len(line) \in Nat /\ pos \in 0 .. Len(line) /\ pos \in Nat
      /\ LineMax \in Nat /\ Len(line) < LineMax
  BY LineIs, Sizes DEF EditSound
<1>1. PICK M : M = Matches
  OBVIOUS
<1>2. M \in Seq(NameSet) /\ (\A i \in 1 .. Len(M) : IsPrefix(Word, M[i])) /\ Len(M) \in Nat /\ Len(M) > 0
  BY <1>1, MatchesIs
<1>3. PICK T : T = ToSet(Matches)
  OBVIOUS
<1>4. T = {M[i] : i \in 1 .. Len(M)}
  BY <1>1, <1>2, <1>3 DEF ToSet
<1>5. T \subseteq NameSet /\ T # {} /\ \A t \in T : IsPrefix(Word, t)
  BY <1>2, <1>4
<1>6. Word \in Seq(Chars) /\ Len(Word) \in Nat
  <2>1. IsPart(Word, Chars, line, WordStart, pos)
    BY <1>0, WordIs, WordSound
  <2> QED BY <2>1 DEF IsPart
<1>7. Word \in NameSet
  <2>1. PICK t \in NameSet : IsPrefix(Word, t)
    BY <1>5
  <2>2. t \in Seq(Chars) /\ t \in Seq(Chars \ {Space})
    BY NamesAre DEF NameSet
  <2>3. Len(Word) <= Len(t) /\ \A i \in 1 .. Len(Word) : Word[i] = t[i]
    BY <1>6, <2>1, <2>2, PrefixIs
  <2>4. Len(t) \in Nat /\ \A i \in 1 .. Len(t) : t[i] \in Chars \ {Space}
    BY <2>2
  <2>5. \A i \in 1 .. Len(Word) : Word[i] \in Chars \ {Space}
    BY <1>6, <2>3, <2>4
  <2>6. Word \in [1 .. Len(Word) -> Chars \ {Space}]
    BY <1>6, <2>5
  <2> QED BY <1>6, <2>6 DEF NameSet
<1>8. PICK c : c = LongestCommonPrefix(T)
  OBVIOUS
<1>9. IsCommon(c, Chars \ {Space}, T, Word)
  BY <1>5, <1>7, <1>8, CommonIs DEF NameSet
<1>10. c \in Seq(Chars \ {Space}) /\ c \in NameSet /\ c \in Seq(Chars) /\ Len(Word) <= Len(c) /\ \A t \in T : IsPrefix(c, t)
  BY <1>9, NamesAre DEF IsCommon, NameSet
<1>11. IsNamed(c)
  BY <1>3, <1>5, <1>10, NamesAre DEF IsNamed
<1>12. PICK a : a = Added
  OBVIOUS
<1>13. a = SubSeq(c, Len(Word) + 1, Len(c))
  BY <1>3, <1>8, <1>12 DEF Added
<1>14. /\ a \in Seq(Chars \ {Space}) /\ Len(a) = Len(c) - Len(Word) /\ Len(a) \in Nat /\ Len(c) \in Nat
       /\ \A i \in 1 .. Len(c) - Len(Word) : a[i] = c[Len(Word) + i]
  <2>1. Len(c) \in Nat /\ Len(c) \in 0 .. Len(c) /\ Len(Word) \in 0 .. Len(c)
    BY <1>6, <1>10
  <2>2. IsPart(a, Chars \ {Space}, c, Len(Word), Len(c))
    BY <1>10, <1>13, <2>1, PartIs
  <2> QED BY <2>1, <2>2 DEF IsPart
<1>15. PICK l : l = Completed
  OBVIOUS
<1>16. CASE ~(Len(line) + Len(a) < LineMax - 1)
  <2>1. l = line
    BY <1>12, <1>15, <1>16 DEF Completed
  <2>2. <<>> \in Seq(Chars \ {Space}) /\ Len(<<>>) = 0
    OBVIOUS
  <2>3. pos + Len(l) - Len(line) = pos
    BY <1>0, <2>1
  <2>4. IsCompleted(l, pos, <<>>, c)
    <3>1. /\ Len(l) = Len(line) + Len(<<>>) /\ pos = pos + Len(<<>>) /\ Len(line) <= Len(l)
          /\ Len(Word) + Len(<<>>) <= Len(c)
      BY <1>0, <1>6, <1>10, <1>14, <2>1, <2>2
    <3>2. \A i \in 1 .. Len(<<>>) : <<>>[i] = c[Len(Word) + i]
      BY <2>2
    <3>3. \A i \in 1 .. Len(l) : l[i] = IF i <= pos THEN line[i]
                                        ELSE IF i <= pos THEN <<>>[i - pos] ELSE line[i - Len(<<>>)]
      BY <1>0, <2>1, <2>2
    <3> QED BY <1>0, <2>1, <2>2, <3>1, <3>2, <3>3, Zenon DEF IsCompleted
  <2> QED BY <1>11, <1>15, <2>3, <2>4
<1>17. CASE Len(line) + Len(a) < LineMax - 1
  <2>1. PICK u : u = SubSeq(line, 1, pos)
    OBVIOUS
  <2>2. u \in Seq(Chars) /\ Len(u) = pos /\ \A i \in 1 .. pos : u[i] = line[i]
    BY <1>0, <2>1, Beginning
  <2>3. PICK v : v = SubSeq(line, pos + 1, Len(line))
    OBVIOUS
  <2>4. v \in Seq(Chars) /\ Len(v) = Len(line) - pos /\ \A i \in 1 .. Len(line) - pos : v[i] = line[pos + i]
    <3>1. Len(line) \in 0 .. Len(line) /\ pos \in 0 .. Len(line)
      BY <1>0
    <3>2. IsPart(v, Chars, line, pos, Len(line))
      BY <1>0, <2>3, <3>1, PartIs
    <3> QED BY <3>2 DEF IsPart
  <2>5. a \in Seq(Chars)
    BY <1>14, NamesAre DEF NameSet
  <2>6. PICK t : t = u \o a
    OBVIOUS
  <2>7. /\ t \in Seq(Chars) /\ Len(t) = Len(u) + Len(a)
        /\ \A i \in 1 .. Len(u) + Len(a) : t[i] = IF i <= Len(u) THEN u[i] ELSE a[i - Len(u)]
    BY <2>2, <2>5, <2>6, ConcatProperties
  <2>8. l = t \o v
    BY <1>12, <1>15, <1>17, <2>1, <2>3, <2>6 DEF Completed
  <2>9. /\ l \in Seq(Chars) /\ Len(l) = Len(t) + Len(v)
        /\ \A i \in 1 .. Len(t) + Len(v) : l[i] = IF i <= Len(t) THEN t[i] ELSE v[i - Len(t)]
    <3>1. t \in Seq(Chars) /\ v \in Seq(Chars)
      BY <2>4, <2>7
    <3> QED BY <3>1, <2>8, ConcatProperties
  <2>10. Len(t) = pos + Len(a) /\ Len(l) = Len(line) + Len(a) /\ Len(l) < LineMax /\ pos + Len(a) \in 0 .. Len(l)
         /\ Len(line) <= Len(l) /\ pos + Len(l) - Len(line) = pos + Len(a)
    BY <1>0, <1>14, <1>17, <2>2, <2>4, <2>7, <2>9
  <2>11. l \in Lines
    BY <2>9, <2>10, LinesIs
  <2>12. ASSUME NEW i \in 1 .. Len(l)
         PROVE  l[i] = IF i <= pos THEN line[i] ELSE IF i <= pos + Len(a) THEN a[i - pos] ELSE line[i - Len(a)]
    <3>1. i \in 1 .. Len(t) + Len(v) /\ i \in Nat
      BY <2>9
    <3>2. CASE i <= pos
      <4>1. i <= Len(t) /\ i \in 1 .. Len(u) + Len(a) /\ i <= Len(u) /\ i \in 1 .. pos
        BY <1>0, <1>14, <2>2, <2>10, <3>1, <3>2
      <4> QED BY <2>2, <2>7, <2>9, <3>1, <3>2, <4>1
    <3>3. CASE i > pos /\ i <= pos + Len(a)
      <4>1. i <= Len(t) /\ i \in 1 .. Len(u) + Len(a) /\ ~(i <= Len(u)) /\ i - Len(u) = i - pos /\ ~(i <= pos)
        BY <1>0, <1>14, <2>2, <2>10, <3>1, <3>3
      <4> QED BY <2>7, <2>9, <3>1, <3>3, <4>1
    <3>4. CASE i > pos + Len(a)
      <4>1. ~(i <= Len(t)) /\ i - Len(t) \in 1 .. Len(line) - pos /\ pos + (i - Len(t)) = i - Len(a)
            /\ ~(i <= pos) /\ ~(i <= pos + Len(a))
        BY <1>0, <1>14, <2>10, <3>1, <3>4
      <4>2. l[i] = v[i - Len(t)]
        BY <2>9, <3>1, <4>1
      <4>3. v[i - Len(t)] = line[i - Len(a)]
        BY <2>4, <4>1
      <4> QED BY <4>1, <4>2, <4>3
    <3> QED BY <1>0, <1>14, <3>1, <3>2, <3>3, <3>4
  <2>13. IsCompleted(l, pos + Len(a), a, c)
    <3>1. Len(Word) + Len(a) <= Len(c) /\ \A i \in 1 .. Len(a) : a[i] = c[Len(Word) + i]
      BY <1>6, <1>14
    <3> QED BY <1>14, <2>10, <2>11, <2>12, <3>1, Zenon DEF IsCompleted
  <2> QED BY <1>11, <1>15, <2>10, <2>13
<1> QED BY <1>16, <1>17

LEMMA TabSound ==
  ASSUME EditSound, TabOne \/ TabMany
  PROVE  EditSound'
<1>0. /\ line \in Lines /\ Len(line) \in Nat /\ scr \in Screens /\ pcol \in 0 .. Width - 1
      /\ Shown(line, pos, widest, left, moved, overrun, pcol, scr) /\ Len(Matches) > 0
      /\ moved \in BOOLEAN
  <2>1. Len(Matches) > 0
    <3>1. Len(Matches) = 1 \/ Len(Matches) > 1
      BY DEF TabOne, TabMany
    <3>2. PICK k \in Nat : k = Len(Matches)
      BY MatchesIs
    <3> QED BY <3>1, <3>2
  <2> QED BY <2>1, LineIs DEF EditSound
<1>1. PICK l, p : l = Completed /\ p = pos + Len(Completed) - Len(line)
  OBVIOUS
<1>2. PICK a, c : IsNamed(c) /\ IsCompleted(l, p, a, c)
  BY <1>0, <1>1, CompletedIs
<1>3. l \in Lines /\ p \in 0 .. Len(l) /\ Len(line) <= Len(l)
  BY <1>2 DEF IsCompleted
<1>4. Len(l) \in Nat /\ l \in Seq(Glyphs)
  BY <1>3, LineIs
<1>5. CASE TabOne
  <2>1. Becomes(l, p, FALSE, Redraw(scr, l, p)) /\ moved' = moved
    BY <1>1, <1>5 DEF TabOne
  <2>2. Len(line) <= Len(l) + 1
    BY <1>0, <1>3, <1>4
  <2> QED BY <1>3, <2>1, <2>2, RedrawnSound
<1>6. CASE TabMany
  <2>1. PICK M : M = Matches
    OBVIOUS
  <2>2. M \in Seq(Seq(Glyphs))
    BY <2>1, MatchesIs
  <2>3. PICK s : s = Many(scr, M, l, p)
    OBVIOUS
  <2>4. Becomes(l, p, FALSE, s)
    BY <1>1, <1>6, <2>1, <2>3 DEF TabMany, Many
  <2>5. moved' = (moved \/ pcol # PromptCol) /\ moved' \in BOOLEAN
    BY <1>0, <1>6 DEF TabMany, PromptCol
  <2>6. /\ s \in Screens /\ (BlankBelow(scr) => BlankBelow(s))
        /\ Fit(Len(l), pcol) => s.col = pcol + p
        /\ Fit(Len(l), pcol) /\ pcol = PromptCol =>
             Showing(s, l, pcol) /\ (BlankBelow(scr) => BlankFrom(s, Len(l), pcol))
    BY <1>0, <1>3, <1>4, <2>2, <2>3, ManyIs
  <2>7. ASSUME Fit(widest, pcol), Fit(Len(l), pcol) PROVE Good(l, p, left', moved', overrun, pcol, s)
    <3>1. ~overrun => BlankBelow(scr)
      BY <1>0, <2>7 DEF Shown, Good
    <3>2. ~moved' => pcol = PromptCol
      BY <2>5
    <3> QED BY <2>6, <2>7, <3>1, <3>2, Zenon DEF Good
  <2> QED BY <1>3, <2>4, <2>5, <2>6, <2>7, BecomesSound
<1> QED BY <1>5, <1>6

(* A tab keeps what was typed, and the names it began.                     *)
LEMMA TabKeeps ==
  ASSUME EditSound, TabOne \/ TabMany
  PROVE  /\ SubSeq(line', 1, pos) = SubSeq(line, 1, pos)
         /\ SubSeq(line', pos' + 1, Len(line')) = SubSeq(line, pos + 1, Len(line))
         /\ \A n \in ToSet(Matches) : IsPrefix(Word', n)
<1>0. /\ line \in Lines /\ Len(line) \in Nat /\ line \in Seq(Chars) /\ pos \in 0 .. Len(line) /\ pos \in Nat
      /\ Len(Matches) > 0
  <2>1. Len(Matches) > 0
    <3>1. Len(Matches) = 1 \/ Len(Matches) > 1
      BY DEF TabOne, TabMany
    <3>2. PICK k \in Nat : k = Len(Matches)
      BY MatchesIs
    <3> QED BY <3>1, <3>2
  <2> QED BY <2>1, LineIs DEF EditSound
<1>1. PICK l, p : l = Completed /\ p = pos + Len(Completed) - Len(line)
  OBVIOUS
<1>2. line' = l /\ pos' = p
  BY <1>1 DEF TabOne, TabMany, Becomes
<1>3. PICK a, c : IsNamed(c) /\ IsCompleted(l, p, a, c)
  BY <1>0, <1>1, CompletedIs
<1>4. /\ l \in Lines /\ p \in 0 .. Len(l) /\ a \in Seq(Chars \ {Space})
      /\ Len(l) = Len(line) + Len(a) /\ p = pos + Len(a)
      /\ Len(Word) + Len(a) <= Len(c) /\ \A i \in 1 .. Len(a) : a[i] = c[Len(Word) + i]
  BY <1>3 DEF IsCompleted
<1>5. \A i \in 1 .. Len(l) : l[i] = IF i <= pos THEN line[i]
                                    ELSE IF i <= p THEN a[i - pos] ELSE line[i - Len(a)]
  BY <1>3 DEF IsCompleted
<1>6. l \in Seq(Chars) /\ Len(l) \in Nat /\ Len(a) \in Nat /\ p \in Nat
  BY <1>0, <1>4, LineIs
<1>7. SubSeq(l, 1, pos) = SubSeq(line, 1, pos)
  <2>1. pos \in 0 .. Len(l)
    BY <1>0, <1>4, <1>6
  <2>2. PICK s, t : s = SubSeq(l, 1, pos) /\ t = SubSeq(line, 1, pos)
    OBVIOUS
  <2>3. s \in Seq(Chars) /\ Len(s) = pos /\ \A i \in 1 .. pos : s[i] = l[i]
    BY <1>6, <2>1, <2>2, Beginning
  <2>4. t \in Seq(Chars) /\ Len(t) = pos /\ \A i \in 1 .. pos : t[i] = line[i]
    BY <1>0, <2>2, Beginning
  <2>5. \A i \in 1 .. pos : l[i] = line[i]
    <3> SUFFICES ASSUME NEW i \in 1 .. pos PROVE l[i] = line[i]
      OBVIOUS
    <3>1. i \in 1 .. Len(l) /\ i <= pos
      BY <1>0, <1>6, <2>1
    <3> QED BY <1>5, <3>1
  <2>6. \A i \in 1 .. Len(s) : s[i] = t[i]
    BY <2>3, <2>4, <2>5
  <2>7. s = t
    BY <2>3, <2>4, <2>6, SameSeq
  <2> QED BY <2>2, <2>7
<1>8. SubSeq(l, p + 1, Len(l)) = SubSeq(line, pos + 1, Len(line))
  <2>1. Len(l) \in 0 .. Len(l) /\ Len(line) \in 0 .. Len(line)
    BY <1>0, <1>6
  <2>2. PICK s, t : s = SubSeq(l, p + 1, Len(l)) /\ t = SubSeq(line, pos + 1, Len(line))
    OBVIOUS
  <2>3. IsPart(s, Chars, l, p, Len(l))
    BY <1>4, <1>6, <2>1, <2>2, PartIs
  <2>4. IsPart(t, Chars, line, pos, Len(line))
    BY <1>0, <2>1, <2>2, PartIs
  <2>5. s \in Seq(Chars) /\ t \in Seq(Chars) /\ Len(s) = Len(l) - p /\ Len(t) = Len(line) - pos
        /\ (\A i \in 1 .. Len(l) - p : s[i] = l[p + i]) /\ \A i \in 1 .. Len(line) - pos : t[i] = line[pos + i]
    BY <2>3, <2>4 DEF IsPart
  <2>6. Len(l) - p = Len(line) - pos
    BY <1>0, <1>4, <1>6
  <2>7. ASSUME NEW i \in 1 .. Len(s) PROVE s[i] = t[i]
    <3>1. i \in 1 .. Len(l) - p /\ i \in 1 .. Len(line) - pos
      BY <2>5, <2>6
    <3>2. p + i \in 1 .. Len(l) /\ ~(p + i <= pos) /\ ~(p + i <= p) /\ p + i - Len(a) = pos + i
      BY <1>0, <1>4, <1>6, <3>1
    <3>3. l[p + i] = line[pos + i]
      <4>1. PICK x : x = p + i
        OBVIOUS
      <4>2. x \in 1 .. Len(l) /\ ~(x <= pos) /\ ~(x <= p) /\ x - Len(a) = pos + i
        BY <1>0, <1>4, <1>6, <3>1, <4>1
      <4> QED BY <1>5, <4>1, <4>2
    <3> QED BY <2>5, <3>1, <3>3
  <2>8. s = t
    BY <2>5, <2>6, <2>7, SameSeq
  <2> QED BY <2>2, <2>8
<1>9. Spaces(l, p) = Spaces(line, pos)
  <2>1. ASSUME NEW i \in 1 .. p PROVE l[i] = Space <=> i \in 1 .. pos /\ line[i] = Space
    <3>1. i \in 1 .. Len(l) /\ i \in Nat
      BY <1>4, <1>6
    <3>2. CASE i <= pos
      <4>1. i \in 1 .. pos /\ l[i] = line[i]
        BY <1>5, <3>1, <3>2, <1>0
      <4> QED BY <4>1
    <3>3. CASE ~(i <= pos)
      <4>1. i <= p /\ i \notin 1 .. pos /\ i - pos \in 1 .. Len(a)
        BY <1>0, <1>4, <1>6, <3>1, <3>3
      <4>2. l[i] = a[i - pos]
        BY <1>5, <3>1, <3>3, <4>1
      <4>3. a[i - pos] \in Chars \ {Space}
        BY <1>4, <4>1
      <4> QED BY <4>1, <4>2, <4>3
    <3> QED BY <3>2, <3>3
  <2>2. 1 .. pos \subseteq 1 .. p
    BY <1>0, <1>4, <1>6
  <2> QED BY <2>1, <2>2 DEF Spaces
<1>10. PICK W : W = Max(Spaces(line, pos))
  OBVIOUS
<1>11. PICK w : w = WordOf(line, pos)
  OBVIOUS
<1>12. W \in 0 .. pos /\ IsPart(w, Chars, line, W, pos)
  BY <1>0, <1>10, <1>11, WordSound
<1>13. PICK z : z = WordOf(l, p)
  OBVIOUS
<1>14. IsPart(z, Chars, l, W, p)
  BY <1>4, <1>6, <1>9, <1>10, <1>13, WordSound
<1>15. w = Word /\ z = Word'
  BY <1>2, <1>11, <1>13, WordIs
<1>16. /\ w \in Seq(Chars) /\ Len(w) = pos - W /\ \A i \in 1 .. pos - W : w[i] = line[W + i]
  BY <1>12 DEF IsPart
<1>17. /\ z \in Seq(Chars) /\ Len(z) = p - W /\ \A i \in 1 .. p - W : z[i] = l[W + i]
  BY <1>14 DEF IsPart
<1>18. c \in Seq(Chars) /\ Len(c) \in Nat /\ Len(w) <= Len(c) /\ Len(w) + Len(a) <= Len(c)
       /\ \A n \in ToSet(Matches) : n \in Seq(Chars) /\ IsPrefix(c, n) /\ IsPrefix(w, n)
  BY <1>3, <1>4, <1>15 DEF IsNamed
<1>19. ASSUME NEW n \in ToSet(Matches) PROVE IsPrefix(z, n)
  <2>1. n \in Seq(Chars) /\ Len(n) \in Nat /\ IsPrefix(c, n) /\ IsPrefix(w, n)
    BY <1>18
  <2>2. Len(c) <= Len(n) /\ \A i \in 1 .. Len(c) : c[i] = n[i]
    BY <1>18, <2>1, PrefixIs
  <2>3. Len(w) <= Len(n) /\ \A i \in 1 .. Len(w) : w[i] = n[i]
    BY <1>16, <2>1, PrefixIs
  <2>4. W \in Nat /\ W <= pos /\ Len(w) \in Nat /\ Len(z) = Len(w) + Len(a) /\ Len(z) <= Len(c) /\ Len(z) \in Nat
    <3>1. W \in Nat /\ W <= pos
      BY <1>0, <1>12
    <3>2. Len(w) \in Nat /\ Len(z) \in Nat
      BY <1>16, <1>17
    <3>3. Len(z) = Len(w) + Len(a)
      BY <3>1, <1>0, <1>4, <1>6, <1>16, <1>17
    <3> QED BY <3>1, <3>2, <3>3, <1>18
  <2>5. ASSUME NEW i \in 1 .. Len(z) PROVE z[i] = n[i]
    <3>1. i \in 1 .. p - W /\ W + i \in 1 .. Len(l) /\ i \in Nat /\ i \in 1 .. Len(c) /\ W + i \in Nat /\ W + i <= p
      BY <1>4, <1>6, <1>17, <1>18, <2>4
    <3>2. z[i] = l[W + i]
      BY <1>17, <3>1
    <3>3. CASE i <= Len(w)
      <4>1. i \in 1 .. Len(w) /\ i \in 1 .. pos - W /\ W + i <= pos
        BY <1>0, <1>16, <2>4, <3>1, <3>3
      <4>2. l[W + i] = line[W + i]
        BY <1>5, <3>1, <4>1
      <4> QED BY <1>16, <2>3, <3>2, <4>1, <4>2
    <3>4. CASE ~(i <= Len(w))
      <4>1. PICK k : k = W + i - pos
        OBVIOUS
      <4>2. ~(W + i <= pos) /\ k \in 1 .. Len(a) /\ Len(w) + k = i
        BY <1>0, <1>4, <1>6, <1>16, <2>4, <3>1, <3>4, <4>1
      <4>3. l[W + i] = a[k]
        <5>1. PICK x : x = W + i
          OBVIOUS
        <5>2. x \in 1 .. Len(l) /\ ~(x <= pos) /\ x <= p /\ x - pos = k
          BY <1>0, <1>4, <1>6, <1>16, <2>4, <3>1, <3>4, <4>1, <5>1
        <5> QED BY <1>5, <5>1, <5>2
      <4>4. a[k] = c[i]
        BY <1>4, <1>15, <4>2
      <4> QED BY <2>2, <3>1, <3>2, <4>3, <4>4
    <3> QED BY <3>3, <3>4
  <2>6. Len(z) <= Len(n)
    BY <1>18, <2>1, <2>2, <2>4
  <2> QED BY <1>17, <2>1, <2>5, <2>6, PrefixIs
<1> QED BY <1>2, <1>7, <1>8, <1>15, <1>19

-----------------------------------------------------------------------------
(* The line stays inside its buffer and the cursor on the screen, the      *)
(* screen shows the line, and the ring holds the last commands, whatever   *)
(* keys are pressed and whatever the history's file held.                  *)
THEOREM LineInvariant == Spec => []LineInd
<1>1. Init => LineInd
  BY InitSound DEF LineInd
<1>2. ASSUME LineInd, [Next]_vars PROVE LineInd'
  <2>0. EditSound /\ RingSound
    BY <1>2 DEF LineInd
  <2>1. CASE UNCHANGED vars
    BY <2>0, <2>1 DEF LineInd, vars, EditSound, RingSound, Ring, Slot,
                         Shown, Fit, Good, Showing, BlankBelow, BlankFrom
  <2>2. CASE Up \/ Down
    BY <2>0, <2>2, UpDownSound DEF LineInd
  <2>3. CASE Enter
    BY <2>0, <2>3, EnterSound DEF LineInd
  <2>4. ASSUME NEW c \in Chars, TypeEnd(c) PROVE LineInd'
    <3>1. UNCHANGED <<hist, count, index, given>> /\ shows' = FALSE
      BY <2>4 DEF TypeEnd, Becomes
    <3> QED BY <2>0, <2>4, <3>1, TypeEndSound, RingKept DEF LineInd
  <2>5. ASSUME NEW c \in Chars, TypeMiddle(c) PROVE LineInd'
    <3>1. UNCHANGED <<hist, count, index, given>> /\ shows' = FALSE
      BY <2>5 DEF TypeMiddle, Becomes
    <3> QED BY <2>0, <2>5, <3>1, TypeMiddleSound, RingKept DEF LineInd
  <2>6. CASE Backspace
    <3>1. UNCHANGED <<hist, count, index, given>> /\ shows' = FALSE
      BY <2>6 DEF Backspace, Becomes
    <3> QED BY <2>0, <2>6, <3>1, BackspaceSound, RingKept DEF LineInd
  <2>7. CASE Delete
    <3>1. UNCHANGED <<hist, count, index, given>> /\ shows' = FALSE
      BY <2>7 DEF Delete, Becomes
    <3> QED BY <2>0, <2>7, <3>1, DeleteSound, RingKept DEF LineInd
  <2>8. CASE Left \/ Right
    <3>1. UNCHANGED <<hist, count, index, given>> /\ shows' = FALSE
      BY <2>8 DEF Left, Right, Becomes
    <3> QED BY <2>0, <2>8, <3>1, LeftRightSound, RingKept DEF LineInd
  <2>9. CASE HomeEnd(0) \/ HomeEnd(Len(line))
    <3>1. UNCHANGED <<hist, count, index, given>> /\ shows' = FALSE
      BY <2>9 DEF HomeEnd, Becomes
    <3> QED BY <2>0, <2>9, <3>1, HomeEndSound, RingKept DEF LineInd
  <2>10. CASE TabOne \/ TabMany
    <3>1. UNCHANGED <<hist, count, index, given>> /\ shows' = FALSE
      BY <2>10 DEF TabOne, TabMany, Becomes
    <3> QED BY <2>0, <2>10, <3>1, TabSound, RingKept DEF LineInd
  <2> QED BY <1>2, <2>1, <2>2, <2>3, <2>4, <2>5, <2>6, <2>7, <2>8, <2>9, <2>10 DEF Next
<1> QED BY <1>1, <1>2, PTL DEF Spec

(* LineInv: the line never outgrows LINE_MAX, the cursor never leaves the  *)
(* screen, and while the line fits in its row, wherever the output of the  *)
(* last command left the prompt, the screen shows the line and nothing     *)
(* behind it, with the exceptions ScreenShowsLine names: a listing below a *)
(* prompt that does not begin its row, a shorter line that an arrow key    *)
(* put there, a line before it that left its row.                          *)
THEOREM LineShown == Spec => []LineInv
<1>1. ASSUME LineInd PROVE LineInv
  <2>1. EditSound /\ RingSound
    BY <1>1 DEF LineInd
  <2>2. TypeOK
    BY <2>1 DEF EditSound, RingSound, TypeOK
  <2>3. ScreenShowsLine
    <3>1. Shown(line, pos, widest, left, moved, overrun, pcol, scr) /\ line \in Seq(Chars)
      BY <2>1, LineIs DEF EditSound
    <3>2. DOMAIN line = 1 .. Len(line)
      BY <3>1
    <3> QED BY <3>1, <3>2 DEF ScreenShowsLine, Row, Fits, Fit, Shown, Good, Showing, BlankFrom
  <2> QED BY <2>2, <2>3 DEF LineInv
<1> QED BY <1>1, LineInvariant, PTL

(* HistoryInOrder: the arrows go through the commands in the order they    *)
(* were given, as far back as the ring of history_add holds them.          *)
THEOREM ArrowsInOrder == Spec => []HistoryInOrder
<1>1. ASSUME LineInd PROVE HistoryInOrder
  <2>1. /\ count \in Nat /\ index \in 0 .. count /\ Ring
        /\ shows => line = IF index = count THEN <<>> ELSE hist[Slot(index)]
    BY <1>1 DEF LineInd, RingSound
  <2>2. /\ given \in Seq(Lines) /\ Len(given) \in Nat /\ Len(given) = IF count < HistSize THEN count ELSE HistSize
        /\ \A j \in 0 .. count - 1 :
             j >= count - HistSize => hist[Slot(j)] = given[Len(given) - (count - 1 - j)]
    BY <2>1 DEF Ring
  <2>3. HistSize \in Nat
    BY Sizes
  <2>4. PICK i : i = Len(given) - (count - 1 - index)
    OBVIOUS
  <2>5. ASSUME shows PROVE IF index = count THEN line = <<>>
                           ELSE index >= count - HistSize => i \in DOMAIN given /\ line = given[i]
    <3>1. CASE index = count
      BY <2>1, <2>5, <3>1
    <3>2. ASSUME index # count, index >= count - HistSize PROVE i \in DOMAIN given /\ line = given[i]
      <4>1. index \in 0 .. count - 1
        BY <2>1, <3>2
      <4>2. line = hist[Slot(index)]
        BY <2>1, <2>5, <3>2
      <4>3. hist[Slot(index)] = given[i]
        BY <2>2, <2>4, <3>2, <4>1
      <4>4. i \in 1 .. Len(given)
        BY <2>1, <2>2, <2>3, <2>4, <3>2, <4>1
      <4> QED BY <2>2, <4>2, <4>3, <4>4
    <3> QED BY <3>1, <3>2
  <2> QED BY <2>4, <2>5, Zenon DEF HistoryInOrder
<1> QED BY <1>1, LineInvariant, PTL

(* TabKeepsMatches: a tab loses nothing of what was typed, and the word it *)
(* leaves before the cursor still begins every name that matched, for any  *)
(* names and any line.                                                     *)
THEOREM TabSafe == Spec => TabKeepsMatches
<1> DEFINE A == TabOne \/ TabMany =>
                  /\ SubSeq(line', 1, pos) = SubSeq(line, 1, pos)
                  /\ SubSeq(line', pos' + 1, Len(line')) = SubSeq(line, pos + 1, Len(line))
                  /\ \A n \in ToSet(Matches) : IsPrefix(Word', n)
<1>1. ASSUME LineInd, [Next]_vars PROVE [A]_vars
  BY <1>1, TabKeeps DEF LineInd
<1>2. Spec => [][A]_vars
  <2> HIDE DEF A
  <2> QED BY <1>1, LineInvariant, PTL DEF Spec
<1> QED BY <1>2 DEF TabKeepsMatches

-----------------------------------------------------------------------------
(* The variables.                                                          *)
LEMMA UsedIs ==
  ASSUME NEW e \in Seq(Entries)
  PROVE  /\ Used(e) \in [0 .. Len(e) -> Nat] /\ Used(e)[0] = 0
         /\ \A n \in 1 .. Len(e) :
              Used(e)[n] = Used(e)[n - 1] + KeyLen[e[n].key] + 1 + e[n].val + 1
<1> DEFINE more(n) == IF n \in 1 .. Len(e) THEN KeyLen[e[n].key] + 1 + e[n].val + 1 ELSE 0
           h == [n \in Nat |-> [x \in Nat |-> x + more(n)]]
<1>0. Len(e) \in Nat /\ 0 \in Nat
  OBVIOUS
<1>1. \A n \in 1 .. Len(e) : KeyLen[e[n].key] \in Nat /\ e[n].val \in Nat
  <2> TAKE n \in 1 .. Len(e)
  <2>1. e[n] \in Entries
    OBVIOUS
  <2>2. e[n].key \in Keys /\ e[n].val \in 0 .. ValMax - 1
    BY <2>1 DEF Entries
  <2> QED BY <2>2, EnvAssumption
<1>2. h \in [Nat -> [Nat -> Nat]]
  <2>1. \A n \in Nat : more(n) \in Nat
    BY <1>0, <1>1
  <2> HIDE DEF more
  <2> QED BY <2>1
<1>3. PICK g \in [0 .. Len(e) -> Nat] :
        g[0] = 0 /\ \A n \in 1 .. Len(e) : g[n] = h[n][g[n - 1]]
  <2>1. Exists(Nat, 0, Len(e), h)
    <3> HIDE DEF h
    <3> QED BY <1>0, <1>2, Recursion, Zenon
  <2> HIDE DEF h
  <2> QED BY <2>1 DEF Exists
<1>4. g = [n \in 0 .. Len(e) |-> IF n = 0 THEN 0 ELSE g[n - 1] + KeyLen[e[n].key] + 1 + e[n].val + 1]
  <2>1. ASSUME NEW n \in 1 .. Len(e)
        PROVE  g[n] = g[n - 1] + KeyLen[e[n].key] + 1 + e[n].val + 1
    <3>1. n \in Nat /\ g[n - 1] \in Nat
      BY <1>0
    <3>2. g[n] = h[n][g[n - 1]]
      BY <1>3
    <3>3. h[n][g[n - 1]] = g[n - 1] + more(n)
      <4> HIDE DEF more
      <4> QED BY <3>1
    <3>4. more(n) = KeyLen[e[n].key] + 1 + e[n].val + 1
      OBVIOUS
    <3>5. KeyLen[e[n].key] \in Nat /\ e[n].val \in Nat
      BY <1>1
    <3> HIDE DEF h, more
    <3> QED BY <3>1, <3>2, <3>3, <3>4, <3>5
  <2>2. g[0] = 0 /\ DOMAIN g = 0 .. Len(e)
    BY <1>3, <1>0
  <2> QED BY <2>1, <2>2, <1>0
<1>5. Used(e) = [n \in 0 .. Len(e) |-> IF n = 0 THEN 0 ELSE Used(e)[n - 1] + KeyLen[e[n].key] + 1 + e[n].val + 1]
  BY <1>4 DEF Used
<1>6. Used(e) \in [0 .. Len(e) -> Nat]
  <2> DEFINE T == {n \in Nat : n <= Len(e) => Used(e)[n] \in Nat}
  <2>1. 0 \in T
    BY <1>5, <1>0
  <2>2. ASSUME NEW n \in Nat, n \in T PROVE n + 1 \in T
    <3> SUFFICES ASSUME n + 1 <= Len(e) PROVE Used(e)[n + 1] \in Nat
      OBVIOUS
    <3>1. Used(e)[n] \in Nat /\ n + 1 \in 1 .. Len(e)
      BY <2>2, <1>0
    <3>2. Used(e)[n + 1] = Used(e)[n] + KeyLen[e[n + 1].key] + 1 + e[n + 1].val + 1
      BY <1>5, <3>1, <1>0
    <3> QED BY <3>1, <3>2, <1>1
  <2>3. Nat \subseteq T
    <3> HIDE DEF T
    <3> QED BY <2>1, <2>2, Induction
  <2>4. DOMAIN Used(e) = 0 .. Len(e)
    BY <1>5
  <2> QED BY <2>3, <2>4, <1>5, <1>0
<1>7. Used(e)[0] = 0
  BY <1>5, <1>0
<1>8. \A n \in 1 .. Len(e) :
        Used(e)[n] = Used(e)[n - 1] + KeyLen[e[n].key] + 1 + e[n].val + 1
  BY <1>5, <1>0
<1> QED BY <1>6, <1>7, <1>8

(* Named, as the loop of env_load computes it.                             *)
NamedUpTo(f, g) ==
  /\ g \in [0 .. Len(f) -> Seq(Entries)] /\ g[0] = <<>>
  /\ \A n \in 1 .. Len(f) :
       g[n] = IF f[n].key = Empty THEN g[n - 1] ELSE Append(g[n - 1], f[n])
LEMMA NamedIs ==
  ASSUME NEW f \in Seq(Entries)
  PROVE  \E g : NamedUpTo(f, g) /\ Named(f) = g[Len(f)]
<1> DEFINE h == [n \in Nat |-> [x \in Seq(Entries) |->
                   IF n \in 1 .. Len(f) /\ f[n].key # Empty THEN Append(x, f[n]) ELSE x]]
           D(g) == [n \in 0 .. Len(f) |->
                  IF n = 0 THEN <<>>
                  ELSE IF f[n].key = Empty THEN g[n - 1] ELSE Append(g[n - 1], f[n])]
<1>0. Len(f) \in Nat /\ <<>> \in Seq(Entries)
  OBVIOUS
<1>1. h \in [Nat -> [Seq(Entries) -> Seq(Entries)]]
  <2>1. \A n \in 1 .. Len(f), x \in Seq(Entries) : Append(x, f[n]) \in Seq(Entries)
    OBVIOUS
  <2> QED BY <2>1
<1>2. PICK g \in [0 .. Len(f) -> Seq(Entries)] :
        g[0] = <<>> /\ \A n \in 1 .. Len(f) : g[n] = h[n][g[n - 1]]
  <2>1. Exists(Seq(Entries), <<>>, Len(f), h)
    <3> HIDE DEF h
    <3> QED BY <1>0, <1>1, Recursion, Zenon
  <2> HIDE DEF h
  <2> QED BY <2>1 DEF Exists
<1>3. g = D(g)
  <2>1. ASSUME NEW n \in 1 .. Len(f)
        PROVE  g[n] = IF f[n].key = Empty THEN g[n - 1] ELSE Append(g[n - 1], f[n])
    <3>1. n \in Nat /\ g[n - 1] \in Seq(Entries)
      BY <1>0
    <3> QED BY <3>1, <1>2
  <2>2. g[0] = <<>> /\ DOMAIN g = 0 .. Len(f)
    BY <1>2, <1>0
  <2>3. \A n \in 0 .. Len(f) : n = 0 \/ n \in 1 .. Len(f)
    BY <1>0
  <2>4. \A n \in 0 .. Len(f) : g[n] = D(g)[n]
    <3> HIDE DEF h
    <3> QED BY <2>1, <2>2, <2>3
  <2>5. g = [n \in 0 .. Len(f) |-> g[n]] /\ D(g) = [n \in 0 .. Len(f) |-> D(g)[n]]
    OBVIOUS
  <2> HIDE DEF h, D
  <2> QED BY <2>4, <2>5
<1>4. PICK k : k = CHOOSE fn : fn = D(fn)
  OBVIOUS
<1>5. k = D(k)
  BY <1>3, <1>4
<1>6. Named(f) = k[Len(f)]
  BY <1>4 DEF Named
<1>7. k[0] = <<>> /\ DOMAIN k = 0 .. Len(f)
  BY <1>5, <1>0
<1>8. \A n \in 1 .. Len(f) :
        k[n] = IF f[n].key = Empty THEN k[n - 1] ELSE Append(k[n - 1], f[n])
  <2> TAKE n \in 1 .. Len(f)
  <2>1. n \in 0 .. Len(f) /\ n # 0
    BY <1>0
  <2>2. k[n] = D(k)[n]
    <3> HIDE DEF D
    <3> QED BY <1>5
  <2>3. D(k)[n] = IF f[n].key = Empty THEN k[n - 1] ELSE Append(k[n - 1], f[n])
    BY <2>1
  <2> QED BY <2>2, <2>3
<1>9. k \in [0 .. Len(f) -> Seq(Entries)]
  <2> DEFINE T == {n \in Nat : n <= Len(f) => k[n] \in Seq(Entries)}
  <2>1. 0 \in T
    BY <1>7
  <2>2. ASSUME NEW n \in Nat, n \in T PROVE n + 1 \in T
    <3> SUFFICES ASSUME n + 1 <= Len(f) PROVE k[n + 1] \in Seq(Entries)
      OBVIOUS
    <3>1. k[n] \in Seq(Entries) /\ n + 1 \in 1 .. Len(f)
      BY <2>2, <1>0
    <3>2. k[n + 1] = IF f[n + 1].key = Empty THEN k[n] ELSE Append(k[n], f[n + 1])
      BY <1>8, <3>1, <1>0
    <3>3. f[n + 1] \in Entries
      BY <3>1
    <3> QED BY <3>1, <3>2, <3>3
  <2>3. Nat \subseteq T
    <3> HIDE DEF T
    <3> QED BY <2>1, <2>2, Induction
  <2>4. k = [n \in 0 .. Len(f) |-> k[n]]
    <3> HIDE DEF D
    <3> QED BY <1>5, <1>7 DEF D
  <2> QED BY <2>3, <2>4, <1>0
<1> QED BY <1>6, <1>7, <1>8, <1>9 DEF NamedUpTo

LEMMA NamedProps ==
  ASSUME NEW f \in Seq(Entries)
  PROVE  /\ Named(f) \in Seq(Entries) /\ Len(Named(f)) <= Len(f)
         /\ \A j \in DOMAIN Named(f) : Named(f)[j].key # Empty
         /\ Unique(f) => Unique(Named(f))
         /\ Len(Named(f)) = Len(f) => Named(f) = f
         /\ (\A j \in DOMAIN f : f[j].key # Empty) => Named(f) = f
<1>1. PICK g : NamedUpTo(f, g) /\ Named(f) = g[Len(f)]
  BY NamedIs
<1>0. Len(f) \in Nat /\ DOMAIN f = 1 .. Len(f)
  OBVIOUS
<1> DEFINE Props(n) ==
      /\ g[n] \in Seq(Entries) /\ Len(g[n]) <= n
      /\ \A j \in 1 .. Len(g[n]) : /\ g[n][j].key # Empty
                                   /\ \E i \in 1 .. n : g[n][j] = f[i]
      /\ Unique(f) => \A i, j \in 1 .. Len(g[n]) : g[n][i].key = g[n][j].key => i = j
      /\ Len(g[n]) = n => \A j \in 1 .. n : g[n][j] = f[j]
      /\ (\A j \in DOMAIN f : f[j].key # Empty) => Len(g[n]) = n
           T == {n \in Nat : n <= Len(f) => Props(n)}
<1>2. 0 \in T
  BY <1>1 DEF NamedUpTo
<1>3. ASSUME NEW n \in Nat, n \in T, n + 1 <= Len(f) PROVE Props(n + 1)
  <2>1. Props(n) /\ n + 1 \in 1 .. Len(f) /\ f[n + 1] \in Entries
    BY <1>3, <1>0
  <2>2. g[n + 1] = IF f[n + 1].key = Empty THEN g[n] ELSE Append(g[n], f[n + 1])
    BY <1>1, <2>1, <1>0 DEF NamedUpTo
  <2>3. CASE f[n + 1].key = Empty
    <3>1. g[n + 1] = g[n]
      BY <2>2, <2>3
    <3>2. Len(g[n]) # n + 1
      BY <2>1
    <3>3. \A i \in 1 .. n : i \in 1 .. n + 1
      OBVIOUS
    <3>4. n + 1 \in DOMAIN f
      BY <2>1, <1>0
    <3>5. Len(g[n]) \in Nat /\ Len(g[n]) <= n + 1
      BY <2>1
    <3>6. \A j \in 1 .. Len(g[n]) : g[n][j].key # Empty /\ \E i \in 1 .. n + 1 : g[n][j] = f[i]
      BY <2>1, <3>3
    <3> QED BY <3>1, <3>2, <3>4, <3>5, <3>6, <2>1, <2>3
  <2>4. CASE f[n + 1].key # Empty
    <3> DEFINE a == g[n]
               b == g[n + 1]
    <3>1. b = Append(a, f[n + 1]) /\ a \in Seq(Entries)
      BY <2>1, <2>2, <2>4
    <3> HIDE DEF a, b
    <3>2. /\ b \in Seq(Entries) /\ Len(b) = Len(a) + 1 /\ Len(a) \in Nat
          /\ \A j \in 1 .. Len(a) : b[j] = a[j]
          /\ b[Len(a) + 1] = f[n + 1]
      BY <3>1, <2>1
    <3>3. \A j \in 1 .. Len(b) : b[j].key # Empty /\ \E i \in 1 .. n + 1 : b[j] = f[i]
      <4> TAKE j \in 1 .. Len(b)
      <4>1. CASE j = Len(a) + 1
        BY <4>1, <3>2, <2>4
      <4>2. CASE j \in 1 .. Len(a)
        <5>1. PICK i \in 1 .. n : a[j] = f[i] /\ a[j].key # Empty
          BY <4>2, <2>1 DEF a
        <5> QED BY <5>1, <4>2, <3>2
      <4> QED BY <4>1, <4>2, <3>2
    <3>4. ASSUME Unique(f), NEW i \in 1 .. Len(b), NEW j \in 1 .. Len(b), b[i].key = b[j].key
          PROVE  i = j
      <4>1. ASSUME NEW p \in 1 .. Len(a) PROVE b[p].key # f[n + 1].key
        <5>1. PICK q \in 1 .. n : a[p] = f[q]
          BY <2>1 DEF a
        <5>2. q \in DOMAIN f /\ n + 1 \in DOMAIN f /\ q # n + 1
          BY <5>1, <2>1, <1>0
        <5>3. b[p] = f[q]
          BY <5>1, <3>2
        <5> QED BY <5>2, <5>3, <3>4 DEF Unique
      <4>2. \A p, q \in 1 .. Len(a) : a[p].key = a[q].key => p = q
        BY <2>1, <3>4 DEF a
      <4>3. CASE i \in 1 .. Len(a) /\ j \in 1 .. Len(a)
        BY <4>2, <4>3, <3>2, <3>4
      <4>4. CASE i = Len(a) + 1
        BY <4>1, <4>4, <3>2, <3>4
      <4>5. CASE j = Len(a) + 1
        BY <4>1, <4>5, <3>2, <3>4
      <4> QED BY <4>3, <4>4, <4>5, <3>2
    <3>5. Len(b) = n + 1 => \A j \in 1 .. n + 1 : b[j] = f[j]
      BY <3>2, <2>1 DEF a
    <3>6. (\A j \in DOMAIN f : f[j].key # Empty) => Len(b) = n + 1
      BY <3>2, <2>1 DEF a
    <3>7. Len(b) <= n + 1
      BY <3>2, <2>1 DEF a
    <3> QED BY <3>2, <3>3, <3>4, <3>5, <3>6, <3>7 DEF b
  <2> QED BY <2>3, <2>4
<1>4. Nat \subseteq T
  <2>1. \A n \in Nat : n \in T => n + 1 \in T
    <3> HIDE DEF Props
    <3> QED BY <1>3, <1>0
  <2> HIDE DEF T
  <2> QED BY <1>2, <2>1, Induction
<1>5. Props(Len(f))
  <2> HIDE DEF Props
  <2> QED BY <1>4, <1>0
<1>6. Len(Named(f)) = Len(f) => Named(f) = f
  BY <1>1, <1>5, <1>0
<1>7. Named(f) \in Seq(Entries) /\ DOMAIN Named(f) = 1 .. Len(Named(f)) /\ Len(Named(f)) <= Len(f)
  BY <1>1, <1>5
<1>8. \A j \in DOMAIN Named(f) : Named(f)[j].key # Empty
  BY <1>1, <1>5, <1>7
<1>9. Unique(f) => Unique(Named(f))
  BY <1>1, <1>5, <1>7 DEF Unique
<1>10. (\A j \in DOMAIN f : f[j].key # Empty) => Named(f) = f
  BY <1>1, <1>5, <1>6
<1> QED BY <1>6, <1>7, <1>8, <1>9, <1>10

(* An entry takes at most the room of a row of the table.                  *)
LEMMA UsedBound ==
  ASSUME NEW e \in Seq(Entries), NEW n \in 0 .. Len(e)
  PROVE  Used(e)[n] \in Nat /\ Used(e)[n] <= n * (KeyMax + ValMax)
<1> DEFINE M == KeyMax + ValMax
           T == {k \in Nat : k <= Len(e) => Used(e)[k] <= k * M}
<1>0. Len(e) \in Nat /\ M \in Nat
  BY EnvAssumption
<1>1. 0 \in T
  BY UsedIs, <1>0
<1>2. ASSUME NEW k \in Nat, k \in T PROVE k + 1 \in T
  <2> SUFFICES ASSUME k + 1 <= Len(e) PROVE Used(e)[k + 1] <= (k + 1) * M
    OBVIOUS
  <2>1. k + 1 \in 1 .. Len(e) /\ k \in 0 .. Len(e) /\ Used(e)[k] <= k * M
    BY <1>2, <1>0
  <2>2. Used(e)[k + 1] = Used(e)[k] + KeyLen[e[k + 1].key] + 1 + e[k + 1].val + 1
    BY <2>1, UsedIs
  <2>3. e[k + 1] \in Entries
    BY <2>1
  <2>4. e[k + 1].key \in Keys /\ e[k + 1].val \in 0 .. ValMax - 1
    BY <2>3 DEF Entries
  <2>5. KeyLen[e[k + 1].key] \in 0 .. KeyMax - 1
    BY <2>4, EnvAssumption
  <2>6. Used(e)[k] \in Nat
    BY <2>1, UsedIs
  <2>7. Used(e)[k + 1] <= Used(e)[k] + M
    BY <2>2, <2>4, <2>5, <2>6, EnvAssumption
  <2>8. Used(e)[k + 1] \in Nat
    <3>1. k + 1 \in 0 .. Len(e)
      BY <2>1
    <3> QED BY <3>1, UsedIs
  <2>9. (k + 1) * M = k * M + M /\ k * M \in Nat
    <3> HIDE DEF M
    <3> QED BY <1>0
  <2> HIDE DEF M
  <2> QED BY <2>1, <2>6, <2>7, <2>8, <2>9, <1>0
<1>3. Nat \subseteq T
  <2> HIDE DEF T
  <2> QED BY <1>1, <1>2, Induction
<1>4. Used(e)[n] \in Nat
  BY UsedIs
<1>5. n \in T /\ n <= Len(e)
  BY <1>3, <1>0
<1> QED BY <1>4, <1>5

LEMMA RoomIs ==
  /\ Room \in Int
  /\ \A n \in Nat, u \in Nat : n < EnvMax /\ u <= n * (KeyMax + ValMax) => u <= Room
<1> DEFINE M == KeyMax + ValMax
<1>1. M \in Nat /\ M >= 2 /\ EnvMax \in Nat /\ EnvMax # 0 /\ Room = EnvMax * M - 2
  BY EnvAssumption DEF Room
<1> HIDE DEF M
<1>2. EnvMax * M \in Nat
  BY <1>1
<1>3. ASSUME NEW n \in Nat, NEW u \in Nat, n < EnvMax, u <= n * M
      PROVE  u <= Room
  <2>1. PICK d \in Nat : EnvMax = n + 1 + d
    <3>1. EnvMax - n - 1 \in Nat /\ EnvMax = n + 1 + (EnvMax - n - 1)
      BY <1>1, <1>3
    <3> QED BY <3>1
  <2>2. (n + 1 + d) * M = n * M + M + d * M
    BY <1>1
  <2>3. d * M \in Nat /\ n * M \in Nat
    BY <1>1
  <2> QED BY <1>1, <1>3, <2>1, <2>2, <2>3
<1> QED BY <1>1, <1>2, <1>3 DEF M

(* env_save writes the whole table, but for the last entry of a full one.  *)
Overflows(e) == Len(e) = EnvMax /\ Used(e)[Len(e)] > Room
LEMMA WrittenIs ==
  ASSUME NEW e \in Seq(Entries), Len(e) <= EnvMax
  PROVE  /\ Written(e) = IF Overflows(e) THEN Front(e) ELSE e
         /\ Written(e) \in Seq(Entries) /\ Len(Written(e)) <= EnvMax
         /\ Used(Written(e))[Len(Written(e))] <= Room
         /\ Unique(e) => Unique(Written(e))
<1> DEFINE P(j) == /\ Used(e)[j] <= Room
                   /\ j = Len(e) \/ Used(e)[j + 1] > Room
           k == CHOOSE j \in 0 .. Len(e) : P(j)
<1>0. Len(e) \in Nat /\ EnvMax \in Nat \ {0} /\ Room \in Int
  BY EnvAssumption, RoomIs
<1>1. \A n \in 0 .. Len(e) : Used(e)[n] \in Nat /\ (n < EnvMax => Used(e)[n] <= Room)
  BY UsedBound, RoomIs, <1>0
<1>2. Written(e) = SubSeq(e, 1, k)
  BY DEF Written
<1>3. CASE Overflows(e)
  <2>1. Len(e) - 1 \in 0 .. Len(e) /\ P(Len(e) - 1)
    BY <1>0, <1>1, <1>3 DEF Overflows
  <2>2. \A j \in 0 .. Len(e) : P(j) => j = Len(e) - 1
    BY <1>0, <1>1, <1>3 DEF Overflows
  <2>3. k = Len(e) - 1
    <3> HIDE DEF P
    <3> QED BY <2>1, <2>2
  <2> HIDE DEF k
  <2>4. Written(e) = Front(e) /\ Written(e) = SubSeq(e, 1, Len(e) - 1)
    BY <1>2, <2>3 DEF Front
  <2>5. /\ Written(e) \in Seq(Entries) /\ Len(Written(e)) = Len(e) - 1
        /\ \A j \in 1 .. Len(e) - 1 : Written(e)[j] = e[j]
    <3>1. \A j \in 1 .. Len(e) - 1 : e[j] \in Entries
      BY <1>0
    <3>2. Len(e) - 1 \in Int /\ Len(e) >= 1
      BY <1>0, <2>1
    <3> DEFINE n == Len(e) - 1
    <3>3. /\ SubSeq(e, 1, n) \in Seq(Entries)
          /\ Len(SubSeq(e, 1, n)) = IF 1 <= n THEN n - 1 + 1 ELSE 0
          /\ \A i \in 1 .. n - 1 + 1 : SubSeq(e, 1, n)[i] = e[1 + i - 1]
      <4> HIDE DEF n
      <4> QED BY <3>1, <3>2, SubSeqProperties DEF n
    <3>4. Len(Written(e)) = Len(e) - 1
      <4>1. PICK w : w = SubSeq(e, 1, n)
        OBVIOUS
      <4>2. Len(w) = IF 1 <= n THEN n - 1 + 1 ELSE 0
        BY <4>1, <3>3, Zenon
      <4>3. Len(w) = n
        BY <4>2, <3>2, <1>0
      <4> QED BY <4>1, <4>3, <2>4, Zenon
    <3>5. ASSUME NEW j \in 1 .. Len(e) - 1 PROVE Written(e)[j] = e[j]
      <4>1. j \in 1 .. n - 1 + 1 /\ 1 + j - 1 = j
        BY <3>2
      <4> QED BY <4>1, <3>3, <2>4
    <3> QED BY <2>4, <3>3, <3>4, <3>5
  <2>6. Len(Written(e)) \in 0 .. Len(Written(e)) /\ Len(Written(e)) < EnvMax
    BY <2>5, <1>0, <1>3 DEF Overflows
  <2>7. Used(Written(e))[Len(Written(e))] <= Room
    BY <2>5, <2>6, UsedBound, RoomIs
  <2>8. Unique(e) => Unique(Written(e))
    BY <2>5, <1>0 DEF Unique
  <2> QED BY <1>3, <1>0, <2>4, <2>5, <2>7, <2>8
<1>4. CASE ~Overflows(e)
  <2>1. Used(e)[Len(e)] <= Room
    BY <1>0, <1>1, <1>4 DEF Overflows
  <2>2. Len(e) \in 0 .. Len(e) /\ P(Len(e))
    BY <1>0, <2>1
  <2>3. \A j \in 0 .. Len(e) : P(j) => j = Len(e)
    BY <1>0, <1>1, <2>1
  <2>4. k = Len(e)
    <3> HIDE DEF P
    <3> QED BY <2>2, <2>3
  <2> HIDE DEF k
  <2>5. Written(e) = e
    BY <1>2, <2>4
  <2> QED BY <1>4, <2>1, <2>5
<1> QED BY <1>3, <1>4

LEMMA ParsedIs ==
  ASSUME NEW f \in Seq(Entries), Len(f) <= EnvMax
  PROVE  Parsed(f) = Named(f)
<1>1. Len(Named(f)) \in Nat /\ Len(Named(f)) <= EnvMax /\ Named(f) \in Seq(Entries)
  BY NamedProps, EnvAssumption
<1>2. Min({Len(Named(f)), EnvMax}) = Len(Named(f))
  BY <1>1, EnvAssumption DEF Min
<1>3. f # NoFile
  BY EnvAssumption
<1> QED BY <1>1, <1>2, <1>3 DEF Parsed

(* The table at the start, and after a file that was lost.                 *)
LEMMA EmptyTable ==
  /\ <<>> \in Seq(Entries) /\ Len(<<>>) = 0 /\ Unique(<<>>)
  /\ Named(<<>>) = <<>> /\ Used(<<>>)[0] <= Room
<1>1. <<>> \in Seq(Entries) /\ Len(<<>>) = 0 /\ Unique(<<>>)
  BY DEF Unique
<1>2. \A j \in DOMAIN <<>> : <<>>[j].key # Empty
  OBVIOUS
<1>3. Named(<<>>) = <<>>
  BY <1>1, <1>2, NamedProps
<1>4. 0 \in 0 .. Len(<<>>)
  BY <1>1
<1>5. Used(<<>>)[0] \in Nat /\ Used(<<>>)[0] <= 0 * (KeyMax + ValMax)
  BY <1>1, <1>4, UsedBound
<1>6. 0 < EnvMax /\ 0 \in Nat
  BY EnvAssumption
<1>7. Used(<<>>)[0] <= Room
  BY <1>5, <1>6, RoomIs
<1> QED BY <1>1, <1>3, <1>7

-----------------------------------------------------------------------------
(* What makes EnvInv and RestartKeeps inductive: the file is a table that  *)
(* fits the buffer, too.                                                   *)
FileSound == file # NoFile =>
               /\ file \in Seq(Entries) /\ Len(file) <= EnvMax
               /\ Unique(file) /\ Used(file)[Len(file)] <= Room
EnvInd == EnvInv /\ RestartKeeps /\ FileSound

(* A table saved is sound again, and what a new shell would read is what   *)
(* RestartKeeps says.                                                      *)
LEMMA SaveSound ==
  ASSUME NEW e \in Seq(Entries), Len(e) <= EnvMax, Unique(e), Save(e)
  PROVE  EnvInd'
<1>1. env' = e
  BY DEF Save
<1>2. CASE file' = Written(e) /\ sync' = TRUE
  <2>1. /\ file' \in Seq(Entries) /\ Len(file') <= EnvMax /\ Unique(file')
        /\ Used(file')[Len(file')] <= Room
    BY <1>2, WrittenIs
  <2>2. Parsed(file') = Named(file')
    BY <2>1, ParsedIs
  <2>3. Named(file') = Kept(e)
    BY <1>2, WrittenIs DEF Kept, Overflows
  <2>4. EnvInv'
    BY <1>1, <2>1 DEF EnvInv, EnvTypeOK
  <2>5. RestartKeeps'
    BY <1>1, <2>2, <2>3 DEF RestartKeeps
  <2> QED BY <2>1, <2>4, <2>5 DEF EnvInd, FileSound
<1>3. CASE file' \in {NoFile, <<>>} /\ sync' = FALSE
  <2>1. <<>> \in Seq(Entries) /\ Len(<<>>) = 0 /\ Unique(<<>>)
    BY EmptyTable
  <2>2. Len(<<>>) <= EnvMax
    BY <2>1, EnvAssumption
  <2>3. FileSound'
    <3> SUFFICES ASSUME file' = <<>>
                 PROVE  /\ file' \in Seq(Entries) /\ Len(file') <= EnvMax
                        /\ Unique(file') /\ Used(file')[Len(file')] <= Room
      BY <1>3 DEF FileSound
    <3> QED BY <2>2, EmptyTable
  <2>4. EnvInv'
    BY <1>1, <1>3, <2>1 DEF EnvInv, EnvTypeOK
  <2> QED BY <1>3, <2>3, <2>4 DEF EnvInd, RestartKeeps
<1> QED BY <1>2, <1>3 DEF Save

LEMMA CutIs == ASSUME NEW v \in Vals PROVE Cut(v) \in 0 .. ValMax - 1
<1>1. v \in Nat /\ ValMax - 1 \in Nat
  BY EnvAssumption
<1> QED BY <1>1 DEF Cut, Min

LEMMA ChangeSound ==
  ASSUME EnvInd, NEW k \in Names, NEW v \in Vals, Change(k, v)
  PROVE  EnvInd'
<1>1. PICK i \in Places(Stored(k)) : Save([env EXCEPT ![i].val = Cut(v)])
  BY DEF Change
<1> DEFINE e == [env EXCEPT ![i].val = Cut(v)]
<1>2. i \in 1 .. Len(env) /\ env \in Seq(Entries) /\ Len(env) <= EnvMax /\ Unique(env)
  BY DEF Places, EnvInd, EnvInv, EnvTypeOK
<1>3. env[i] \in Entries
  BY <1>2
<1>4. [env[i] EXCEPT !.val = Cut(v)] \in Entries /\ [env[i] EXCEPT !.val = Cut(v)].key = env[i].key
  BY <1>3, CutIs DEF Entries
<1>5. e = [env EXCEPT ![i] = [env[i] EXCEPT !.val = Cut(v)]]
  OBVIOUS
<1>6. e \in Seq(Entries) /\ Len(e) = Len(env)
  BY <1>2, <1>4, <1>5
<1>7. DOMAIN e = DOMAIN env /\ \A j \in DOMAIN env : e[j].key = env[j].key
  BY <1>2, <1>4, <1>5
<1>8. Unique(e)
  <2> HIDE DEF e
  <2> QED BY <1>2, <1>7 DEF Unique
<1> QED
  <2> HIDE DEF e
  <2> QED BY <1>1, <1>2, <1>6, <1>8, SaveSound DEF e

LEMMA NewSound ==
  ASSUME EnvInd, NEW k \in Names, NEW v \in Vals, New(k, v)
  PROVE  EnvInd'
<1> DEFINE x == [key |-> Stored(k), val |-> Cut(v)]
           e == Append(env, x)
<1>1. env \in Seq(Entries) /\ Len(env) < EnvMax /\ Unique(env) /\ Save(e)
  BY DEF EnvInd, EnvInv, EnvTypeOK, New
<1>2. \A i \in DOMAIN env : env[i].key # x.key
  BY DEF New, Places
<1>3. x \in Entries
  BY CutIs, EnvAssumption DEF Entries, Stored, Names
<1> HIDE DEF x
<1>4. /\ e \in Seq(Entries) /\ Len(e) = Len(env) + 1 /\ e[Len(env) + 1] = x
      /\ \A i \in 1 .. Len(env) : e[i] = env[i]
  BY <1>1, <1>3
<1>5. Unique(e) /\ Len(e) <= EnvMax
  <2>1. Len(env) \in Nat /\ DOMAIN env = 1 .. Len(env) /\ DOMAIN e = 1 .. Len(env) + 1
    BY <1>1, <1>4
  <2> HIDE DEF e
  <2> QED BY <1>1, <1>2, <1>4, <2>1, EnvAssumption DEF Unique
<1> HIDE DEF e
<1> QED BY <1>1, <1>4, <1>5, SaveSound

LEMMA UnsetSound ==
  ASSUME EnvInd, NEW k, Unset(k)
  PROVE  EnvInd'
<1>1. PICK i \in Places(k) : Save(RemoveAt(env, i))
  BY DEF Unset
<1> DEFINE e == RemoveAt(env, i)
<1>2. i \in 1 .. Len(env) /\ env \in Seq(Entries) /\ Len(env) <= EnvMax /\ Unique(env)
  BY DEF Places, EnvInd, EnvInv, EnvTypeOK
<1>3. /\ e \in Seq(Entries) /\ Len(e) = Len(env) - 1
      /\ \A j \in 1 .. Len(env) - 1 : e[j] = env[IF j < i THEN j ELSE j + 1]
  <2> DEFINE a == SubSeq(env, 1, i - 1)
             b == SubSeq(env, i + 1, Len(env))
  <2>1. Len(env) \in Nat /\ i - 1 \in Int /\ i + 1 \in Int
    BY <1>2
  <2>2. a \in Seq(Entries) /\ Len(a) = i - 1 /\ \A j \in 1 .. i - 1 : a[j] = env[j]
    <3>1. \A j \in 1 .. i - 1 : env[j] \in Entries
      BY <1>2
    <3> QED BY <1>2, <2>1, <3>1, SubSeqProperties
  <2>3. b \in Seq(Entries) /\ Len(b) = Len(env) - i
        /\ \A j \in 1 .. Len(env) - i : b[j] = env[i + j]
    <3>1. \A j \in i + 1 .. Len(env) : env[j] \in Entries
      BY <1>2
    <3>2. /\ b \in Seq(Entries) /\ Len(b) = IF i + 1 <= Len(env) THEN Len(env) - (i + 1) + 1 ELSE 0
          /\ \A j \in 1 .. Len(env) - (i + 1) + 1 : b[j] = env[i + 1 + j - 1]
      BY <2>1, <3>1, SubSeqProperties
    <3> HIDE DEF b
    <3> QED BY <1>2, <2>1, <3>2
  <2>4. e = a \o b
    BY DEF RemoveAt
  <2> HIDE DEF a, b, e
  <2>5. /\ a \o b \in Seq(Entries) /\ Len(a \o b) = Len(a) + Len(b)
        /\ \A j \in 1 .. Len(a) + Len(b) :
             (a \o b)[j] = IF j <= Len(a) THEN a[j] ELSE b[j - Len(a)]
    BY <2>2, <2>3, ConcatProperties
  <2>6. Len(e) = Len(env) - 1 /\ e \in Seq(Entries)
    BY <2>1, <2>2, <2>3, <2>4, <2>5, <1>2
  <2>7. ASSUME NEW j \in 1 .. Len(env) - 1
        PROVE  e[j] = env[IF j < i THEN j ELSE j + 1]
    <3>1. j \in 1 .. Len(a) + Len(b)
      BY <2>1, <2>2, <2>3, <1>2
    <3>2. CASE j < i
      BY <3>1, <3>2, <2>1, <2>2, <2>4, <2>5, <1>2
    <3>3. CASE ~(j < i)
      <4>1. e[j] = b[j - (i - 1)] /\ j - (i - 1) \in 1 .. Len(env) - i
        BY <3>1, <3>3, <2>1, <2>2, <2>4, <2>5, <1>2
      <4>2. b[j - (i - 1)] = env[i + (j - (i - 1))]
        BY <4>1, <2>3
      <4>3. i + (j - (i - 1)) = j + 1
        BY <2>1, <1>2
      <4> QED BY <4>1, <4>2, <4>3, <3>3
    <3> QED BY <3>2, <3>3
  <2> QED BY <2>6, <2>7
<1> HIDE DEF e
<1>4. Unique(e) /\ Len(e) <= EnvMax
  <2>1. Len(env) \in Nat /\ DOMAIN env = 1 .. Len(env) /\ DOMAIN e = 1 .. Len(env) - 1
    BY <1>2, <1>3
  <2>2. Unique(e)
    <3> SUFFICES ASSUME NEW p \in 1 .. Len(env) - 1, NEW q \in 1 .. Len(env) - 1,
                        e[p].key = e[q].key
                 PROVE  p = q
      BY <2>1 DEF Unique
    <3>1. \A p1, q1 \in 1 .. Len(env) : env[p1].key = env[q1].key => p1 = q1
      BY <1>2, <2>1 DEF Unique
    <3> QED BY <1>2, <1>3, <2>1, <3>1
  <2> QED BY <2>1, <2>2, <1>2, <1>3, EnvAssumption
<1> QED BY <1>1, <1>3, <1>4, SaveSound DEF e

LEMMA RestartSound ==
  ASSUME EnvInd, Restart
  PROVE  EnvInd'
<1>1. env' = Parsed(file) /\ file' = file /\ sync' = TRUE
  BY DEF Restart
<1>2. FileSound'
  BY <1>1 DEF EnvInd, FileSound
<1>3. CASE file = NoFile
  <2>1. env' = <<>> /\ <<>> \in Seq(Entries) /\ Len(<<>>) = 0 /\ Unique(<<>>)
    BY <1>1, <1>3 DEF Parsed, Unique
  <2>2. Kept(<<>>) = Named(<<>>)
    BY <2>1, EnvAssumption DEF Kept
  <2>3. Named(<<>>) = <<>>
    BY EmptyTable
  <2>4. EnvInv'
    BY <1>1, <1>3, <2>1, EnvAssumption DEF EnvInv, EnvTypeOK
  <2> QED BY <1>1, <1>2, <2>1, <2>2, <2>3, <2>4 DEF EnvInd, RestartKeeps
<1>4. CASE file # NoFile
  <2>1. /\ file \in Seq(Entries) /\ Len(file) <= EnvMax
        /\ Unique(file) /\ Used(file)[Len(file)] <= Room
    BY <1>4 DEF EnvInd, FileSound
  <2>2. env' = Named(file)
    BY <1>1, <2>1, ParsedIs
  <2>3. /\ env' \in Seq(Entries) /\ Len(env') <= Len(file) /\ Unique(env')
        /\ \A j \in DOMAIN env' : env'[j].key # Empty
        /\ Len(env') = Len(file) => env' = file
    BY <2>1, <2>2, NamedProps
  <2>4. Len(env') \in Nat /\ Len(file) \in Nat /\ Len(env') <= EnvMax
    BY <2>1, <2>3, EnvAssumption
  <2>5. ~Overflows(env')
    <3> SUFFICES ASSUME Len(env') = EnvMax, Used(env')[Len(env')] > Room PROVE FALSE
      BY DEF Overflows
    <3>1. Len(env') = Len(file)
      BY <2>1, <2>3, <2>4
    <3>2. env' = file
      BY <3>1, <2>3
    <3>3. Used(file)[Len(file)] \in Nat /\ Room \in Int
      BY <2>1, <2>4, UsedBound, RoomIs
    <3> QED BY <2>1, <3>2, <3>3
  <2>6. Kept(env') = Named(env')
    BY <2>5 DEF Kept, Overflows
  <2>7. Named(env') = env'
    BY <2>3, NamedProps
  <2>8. EnvInv'
    BY <1>1, <2>1, <2>3, <2>4 DEF EnvInv, EnvTypeOK
  <2> QED BY <1>1, <1>2, <2>6, <2>7, <2>8 DEF EnvInd, RestartKeeps
<1> QED BY <1>3, <1>4

(* The inductive invariant of the variables: EnvInv, RestartKeeps, and     *)
(* that env_load would find no name twice in what env_save has written.    *)
THEOREM EnvInvariant == EnvSpec => []EnvInd
<1>1. EnvInit => EnvInd
  <2> SUFFICES ASSUME EnvInit PROVE EnvInd
    OBVIOUS
  <2>1. env = <<>> /\ file = NoFile /\ <<>> \in Seq(Entries) /\ Len(<<>>) = 0 /\ Unique(<<>>)
    BY DEF EnvInit, Unique
  <2>2. Kept(<<>>) = <<>>
    BY EmptyTable, EnvAssumption DEF Kept
  <2>3. Parsed(NoFile) = <<>>
    BY DEF Parsed
  <2> QED BY <2>1, <2>2, <2>3, EnvAssumption DEF EnvInd, EnvInv, EnvTypeOK, RestartKeeps, FileSound
<1>2. EnvInd /\ [EnvNext]_envVars => EnvInd'
  <2> SUFFICES ASSUME EnvInd, [EnvNext]_envVars PROVE EnvInd'
    OBVIOUS
  <2>1. CASE UNCHANGED envVars
    BY <2>1 DEF envVars, EnvInd, EnvInv, EnvTypeOK, RestartKeeps, FileSound
  <2>2. CASE EnvNext
    BY <2>2, ChangeSound, NewSound, UnsetSound, RestartSound DEF EnvNext
  <2> QED BY <2>1, <2>2
<1> QED BY <1>1, <1>2, PTL DEF EnvSpec

(* env_set, env_unset and env_load never give a variable two entries, of   *)
(* which the second would be hidden, and the table stays within ENV_MAX.   *)
THEOREM VariablesUnique == EnvSpec => []EnvInv
<1>1. EnvInd => EnvInv
  BY DEF EnvInd
<1> QED BY <1>1, EnvInvariant, PTL

(* After an env_save that worked a new shell finds the variables again, in *)
(* their order: all but an empty name, and but the last of a full table    *)
(* that leaves no more than one character of its room.                     *)
THEOREM VariablesSurvive == EnvSpec => []RestartKeeps
<1>1. EnvInd => RestartKeeps
  BY DEF EnvInd
<1> QED BY <1>1, EnvInvariant, PTL

=============================================================================
