------------------------------ MODULE EdProofs ------------------------------
(***************************************************************************)
(* Proofs about the editor for every size of its table and of its buffers, *)
(* every file on the disk and every malloc: no line is shared, lost or     *)
(* moved, and an unmodified text can be read back.                         *)
(***************************************************************************)
EXTENDS Ed, FiniteSetTheorems, WellFoundedInduction, SequenceTheorems, TLAPS

-----------------------------------------------------------------------------
(* Induction and recursion over data.                                      *)

(* A nonempty set of naturals has a least element.                         *)
LEMMA MinExists ==
  ASSUME NEW T, T \subseteq Nat, T # {}
  PROVE  \E x \in T : \A y \in T : x <= y
<1>1. PICK R : R = OpToRel(<, Nat)
  OBVIOUS
<1>2. IsWellFoundedOn(R, Nat)
  BY <1>1, NatLessThanWellFounded
<1>3. PICK x \in T : \A y \in T : ~(<<y, x>> \in R)
  BY <1>2, WFMin
<1>4. \A y \in T : y < x => <<y, x>> \in R
  BY <1>1 DEF OpToRel
<1>5. \A y \in T : ~(y < x)
  BY <1>3, <1>4
<1>6. \A y \in Nat, z \in Nat : ~(y < z) => z <= y
  OBVIOUS
<1> QED BY <1>5, <1>6

(* Induction, with a set in the place of a predicate.                      *)
LEMMA Induction ==
  ASSUME NEW T, 0 \in T, \A n \in Nat : n \in T => n + 1 \in T
  PROVE  Nat \subseteq T
<1> SUFFICES ASSUME Nat \ T # {} PROVE FALSE
  OBVIOUS
<1>1. PICK x \in Nat \ T : \A y \in Nat \ T : x <= y
  BY MinExists
<1>2. x # 0 /\ x - 1 \in Nat
  BY <1>1
<1>3. x - 1 \in T
  BY <1>1, <1>2
<1> QED BY <1>1, <1>2, <1>3

(* A function defined from its value at the argument before exists.        *)
Exists(X, base, N, h) ==
  \E g \in [0 .. N -> X] : g[0] = base /\ \A n \in 1 .. N : g[n] = h[n][g[n - 1]]
LEMMA Recursion ==
  ASSUME NEW X, NEW base \in X, NEW N \in Nat, NEW h \in [Nat -> [X -> X]]
  PROVE  Exists(X, base, N, h)
<1> DEFINE Is(g, M) == g[0] = base /\ \A n \in 1 .. M : g[n] = h[n][g[n - 1]]
           T == {M \in Nat : \E g \in [0 .. M -> X] : Is(g, M)}
<1>1. 0 \in T
  <2> DEFINE g == [n \in 0 .. 0 |-> base]
  <2>1. g \in [0 .. 0 -> X] /\ Is(g, 0)
    OBVIOUS
  <2> QED BY <2>1
<1>2. ASSUME NEW M \in Nat, M \in T PROVE M + 1 \in T
  <2>1. PICK g \in [0 .. M -> X] : Is(g, M)
    BY <1>2
  <2> DEFINE k == [n \in 0 .. M + 1 |-> IF n = M + 1 THEN h[n][g[M]] ELSE g[n]]
  <2>2. k \in [0 .. M + 1 -> X]
    OBVIOUS
  <2>3. k[0] = base /\ \A n \in 1 .. M : k[n] = h[n][k[n - 1]]
    BY <2>1
  <2>4. k[M + 1] = h[M + 1][k[M]]
    OBVIOUS
  <2>5. Is(k, M + 1)
    <3> HIDE DEF k
    <3> QED BY <2>3, <2>4
  <2>6. M + 1 \in Nat
    OBVIOUS
  <2> QED
    <3> HIDE DEF k, Is
    <3> QED BY <2>2, <2>5, <2>6
<1>3. Nat \subseteq T
  <2> HIDE DEF T
  <2> QED BY <1>1, <1>2, Induction
<1> QED BY <1>3 DEF Exists

-----------------------------------------------------------------------------
(* The lengths of files.                                                   *)
LEMMA EndsIs ==
  ASSUME NEW f \in Seq(Texts)
  PROVE  /\ Ends(f) \in [0 .. Len(f) -> Nat] /\ Ends(f)[0] = 0
         /\ \A n \in 1 .. Len(f) : Ends(f)[n] = Ends(f)[n - 1] + f[n] + 1
<1> DEFINE more(n) == IF n \in 1 .. Len(f) THEN f[n] + 1 ELSE 0
           h == [n \in Nat |-> [x \in Nat |-> x + more(n)]]
           D(g) == [n \in 0 .. Len(f) |-> IF n = 0 THEN 0 ELSE g[n - 1] + f[n] + 1]
<1>0. Len(f) \in Nat /\ 0 \in Nat
  OBVIOUS
<1>1. \A n \in 1 .. Len(f) : f[n] \in Nat
  BY EdAssumption DEF Texts
<1>2. h \in [Nat -> [Nat -> Nat]]
  <2>1. \A n \in Nat : more(n) \in Nat
    BY <1>0, <1>1
  <2> HIDE DEF more
  <2> QED BY <2>1
<1>3. PICK g \in [0 .. Len(f) -> Nat] :
        g[0] = 0 /\ \A n \in 1 .. Len(f) : g[n] = h[n][g[n - 1]]
  <2>1. Exists(Nat, 0, Len(f), h)
    <3> HIDE DEF h
    <3> QED BY <1>0, <1>2, Recursion, Zenon
  <2> HIDE DEF h
  <2> QED BY <2>1 DEF Exists
<1>4. g = D(g)
  <2>1. ASSUME NEW n \in 1 .. Len(f) PROVE g[n] = g[n - 1] + f[n] + 1
    <3>0. n \in Nat /\ n - 1 \in 0 .. Len(f)
      BY <1>0
    <3>1. n \in Nat /\ g[n - 1] \in Nat /\ f[n] \in Nat
      <4> HIDE DEF h
      <4> QED BY <1>1, <1>3, <3>0
    <3>2. g[n] = h[n][g[n - 1]]
      BY <1>3
    <3>3. h[n][g[n - 1]] = g[n - 1] + more(n)
      <4> HIDE DEF more
      <4> QED BY <3>1
    <3>4. more(n) = f[n] + 1
      OBVIOUS
    <3> HIDE DEF h, more
    <3> QED BY <3>1, <3>2, <3>3, <3>4
  <2>2. g[0] = 0 /\ DOMAIN g = 0 .. Len(f)
    BY <1>3, <1>0
  <2> HIDE DEF h
  <2> QED BY <2>1, <2>2, <1>0
<1>5. Ends(f) = D(Ends(f))
  <2> HIDE DEF h
  <2> QED BY <1>4 DEF Ends
<1>6. Ends(f)[0] = 0 /\ DOMAIN Ends(f) = 0 .. Len(f)
  BY <1>5, <1>0
<1>7. \A n \in 1 .. Len(f) : Ends(f)[n] = Ends(f)[n - 1] + f[n] + 1
  BY <1>5, <1>0
<1>8. Ends(f) \in [0 .. Len(f) -> Nat]
  <2> DEFINE T == {n \in Nat : n <= Len(f) => Ends(f)[n] \in Nat}
  <2>1. 0 \in T
    BY <1>6
  <2>2. ASSUME NEW n \in Nat, n \in T PROVE n + 1 \in T
    <3> SUFFICES ASSUME n + 1 <= Len(f) PROVE Ends(f)[n + 1] \in Nat
      OBVIOUS
    <3>1. Ends(f)[n] \in Nat /\ n + 1 \in 1 .. Len(f)
      BY <2>2, <1>0
    <3>2. Ends(f)[n + 1] = Ends(f)[n] + f[n + 1] + 1
      BY <1>7, <3>1
    <3> QED BY <3>1, <3>2, <1>1
  <2>3. Nat \subseteq T
    <3> HIDE DEF T
    <3> QED BY <2>1, <2>2, Induction
  <2>4. Ends(f) = [n \in 0 .. Len(f) |-> Ends(f)[n]]
    BY <1>5
  <2> QED BY <2>3, <2>4, <1>0
<1> QED BY <1>6, <1>7, <1>8

LEMMA EndsGrow ==
  ASSUME NEW f \in Seq(Texts), NEW j \in 0 .. Len(f), NEW k \in 0 .. Len(f), j < k
  PROVE  Ends(f)[j] < Ends(f)[k]
<1> DEFINE T == {n \in Nat : j < n /\ n <= Len(f) => Ends(f)[j] < Ends(f)[n]}
<1>0. Len(f) \in Nat /\ \A n \in 0 .. Len(f) : Ends(f)[n] \in Nat
  BY EndsIs
<1>1. 0 \in T
  OBVIOUS
<1>2. ASSUME NEW n \in Nat, n \in T PROVE n + 1 \in T
  <2> SUFFICES ASSUME j < n + 1, n + 1 <= Len(f) PROVE Ends(f)[j] < Ends(f)[n + 1]
    OBVIOUS
  <2>1. n + 1 \in 1 .. Len(f) /\ n \in 0 .. Len(f) /\ n + 1 \in 0 .. Len(f)
    BY <1>0
  <2>2. Ends(f)[n + 1] = Ends(f)[n] + f[n + 1] + 1
    BY <2>1, EndsIs
  <2>3. f[n + 1] \in Nat
    BY <2>1, EdAssumption DEF Texts
  <2>4. j = n \/ Ends(f)[j] < Ends(f)[n]
    BY <1>2, <2>1
  <2> QED BY <2>1, <2>2, <2>3, <2>4, <1>0
<1>3. Nat \subseteq T
  <2> HIDE DEF T
  <2> QED BY <1>1, <1>2, Induction
<1> QED BY <1>3, <1>0

(* The beginning of a sequence, by its elements.                           *)
LEMMA Beginning ==
  ASSUME NEW S, NEW s \in Seq(S), NEW k \in 0 .. Len(s)
  PROVE  /\ SubSeq(s, 1, k) \in Seq(S) /\ Len(SubSeq(s, 1, k)) = k
         /\ \A i \in 1 .. k : SubSeq(s, 1, k)[i] = s[i]
<1>0. k \in Int /\ Len(s) \in Nat
  OBVIOUS
<1>1. \A i \in 1 .. k : s[i] \in S
  OBVIOUS
<1>2. PICK w : w = SubSeq(s, 1, k)
  OBVIOUS
<1>3. /\ w \in Seq(S)
      /\ Len(w) = IF 1 <= k THEN k - 1 + 1 ELSE 0
      /\ \A i \in 1 .. k - 1 + 1 : w[i] = s[1 + i - 1]
  BY <1>0, <1>1, <1>2, SubSeqProperties
<1>4. Len(w) = k
  BY <1>0, <1>3
<1>5. ASSUME NEW i \in 1 .. k PROVE w[i] = s[i]
  <2>1. i \in 1 .. k - 1 + 1 /\ 1 + i - 1 = i
    BY <1>0
  <2> QED BY <2>1, <1>3
<1> QED BY <1>2, <1>3, <1>4, <1>5, Zenon

LEMMA WholeIs ==
  ASSUME NEW f \in Seq(Texts), NEW n \in Nat
  PROVE  \E k \in 0 .. Len(f) : /\ Whole(f, n) = SubSeq(f, 1, k)
                                /\ Ends(f)[k] <= n
                                /\ k = Len(f) \/ Ends(f)[k + 1] > n
<1> DEFINE P(j) == Ends(f)[j] <= n /\ (j = Len(f) \/ Ends(f)[j + 1] > n)
           k == CHOOSE j \in 0 .. Len(f) : P(j)
<1>0. Len(f) \in Nat /\ \A j \in 0 .. Len(f) : Ends(f)[j] \in Nat
  BY EndsIs
<1>1. \E j \in 0 .. Len(f) : P(j)
  <2>1. CASE Ends(f)[Len(f)] <= n
    BY <1>0, <2>1
  <2>2. CASE ~(Ends(f)[Len(f)] <= n)
    <3> DEFINE T == {j \in Nat : j <= Len(f) /\ ~(Ends(f)[j] <= n)}
    <3>1. T \subseteq Nat /\ Len(f) \in T
      BY <1>0, <2>2
    <3>2. PICK x \in T : \A y \in T : x <= y
      BY <3>1, MinExists
    <3>3. x # 0
      BY <3>2, EndsIs
    <3>4. x - 1 \in Nat /\ x - 1 \notin T
      BY <3>2, <3>3
    <3>5. x - 1 \in 0 .. Len(f) /\ P(x - 1)
      BY <3>2, <3>4, <1>0
    <3> QED BY <3>5
  <2> QED BY <2>1, <2>2
<1>2. k \in 0 .. Len(f) /\ P(k)
  <2> HIDE DEF P
  <2> QED BY <1>1
<1>3. Whole(f, n) = SubSeq(f, 1, k)
  BY DEF Whole
<1> HIDE DEF k
<1> QED BY <1>2, <1>3

LEMMA SizeOfBeginning ==
  ASSUME NEW f \in Seq(Texts), NEW k \in 0 .. Len(f)
  PROVE  Size(SubSeq(f, 1, k)) = Ends(f)[k]
<1>1. PICK w : w = SubSeq(f, 1, k)
  OBVIOUS
<1>2. w \in Seq(Texts) /\ Len(w) = k /\ \A i \in 1 .. k : w[i] = f[i]
  BY <1>1, Beginning, Zenon
<1>0. Len(f) \in Nat /\ k \in Nat
  OBVIOUS
<1> DEFINE T == {n \in Nat : n <= k => Ends(w)[n] = Ends(f)[n]}
<1>3. 0 \in T
  BY <1>2, EndsIs
<1>4. ASSUME NEW n \in Nat, n \in T PROVE n + 1 \in T
  <2> SUFFICES ASSUME n + 1 <= k PROVE Ends(w)[n + 1] = Ends(f)[n + 1]
    OBVIOUS
  <2>1. n + 1 \in 1 .. k /\ n + 1 \in 1 .. Len(f) /\ n <= k
    BY <1>0
  <2>a. n + 1 \in 1 .. Len(w) /\ (n + 1) - 1 = n
    BY <2>1, <1>2
  <2>b. \A i \in 1 .. Len(w) : Ends(w)[i] = Ends(w)[i - 1] + w[i] + 1
    BY <1>2, EndsIs
  <2>2. Ends(w)[n + 1] = Ends(w)[n] + w[n + 1] + 1
    BY <2>a, <2>b
  <2>3. Ends(f)[n + 1] = Ends(f)[n] + f[n + 1] + 1
    BY <2>1, EndsIs
  <2> QED BY <1>2, <1>4, <2>1, <2>2, <2>3
<1>5. Nat \subseteq T
  <2> HIDE DEF T
  <2> QED BY <1>3, <1>4, Induction
<1>6. Ends(w)[k] = Ends(f)[k]
  BY <1>5, <1>0
<1> QED BY <1>1, <1>2, <1>6 DEF Size

(* Two sequences with the same elements are one.                           *)
LEMMA SameSeq ==
  ASSUME NEW S, NEW s \in Seq(S), NEW t \in Seq(S), Len(s) = Len(t),
         \A i \in 1 .. Len(s) : s[i] = t[i]
  PROVE  s = t
  BY SeqEqual

LEMMA WrittenIs ==
  ASSUME NEW f \in Seq(Texts)
  PROVE  /\ Written(f) \in Seq(Texts)
         /\ Size(f) <= BufSize - 1 => Written(f) = f
<1>0. BufSize - 1 \in Nat /\ Len(f) \in Nat /\ Size(f) \in Nat
  BY EdAssumption, EndsIs DEF Size
<1>1. PICK k \in 0 .. Len(f) : /\ Written(f) = SubSeq(f, 1, k)
                               /\ Ends(f)[k] <= BufSize - 1
                               /\ k = Len(f) \/ Ends(f)[k + 1] > BufSize - 1
  BY <1>0, WholeIs DEF Written
<1>2. Written(f) \in Seq(Texts) /\ Len(Written(f)) = k
      /\ \A i \in 1 .. k : Written(f)[i] = f[i]
  BY <1>1, Beginning
<1>3. ASSUME Size(f) <= BufSize - 1 PROVE k = Len(f)
  <2> SUFFICES ASSUME k # Len(f) PROVE FALSE
    OBVIOUS
  <2>1. k + 1 \in 0 .. Len(f) /\ Ends(f)[k + 1] > BufSize - 1 /\ Len(f) \in 0 .. Len(f)
    BY <1>0, <1>1
  <2>2. k + 1 = Len(f) \/ Ends(f)[k + 1] < Ends(f)[Len(f)]
    BY <1>0, <2>1, EndsGrow
  <2>3. Ends(f)[k + 1] \in Nat /\ Ends(f)[Len(f)] \in Nat /\ Size(f) = Ends(f)[Len(f)]
    BY <2>1, EndsIs DEF Size
  <2> QED BY <1>0, <1>3, <2>1, <2>2, <2>3
<1>4. k = Len(f) => Written(f) = f
  BY <1>2, SameSeq
<1> QED BY <1>2, <1>3, <1>4

LEMMA ReadIs ==
  ASSUME NEW f \in Seq(Texts)
  PROVE  /\ Read(f) \in Seq(Texts)
         /\ Size(f) <= BufSize - 1 => Read(f) \in Reread(f)
<1>0. ReadSize \in Nat /\ BufSize - 1 = ReadSize + 1 /\ Len(f) \in Nat /\ MaxLen \in Nat
  BY EdAssumption DEF ReadSize
<1>1. PICK w : w = Whole(f, ReadSize)
  OBVIOUS
<1>2. PICK k \in 0 .. Len(f) : /\ w = SubSeq(f, 1, k)
                               /\ Ends(f)[k] <= ReadSize
                               /\ k = Len(f) \/ Ends(f)[k + 1] > ReadSize
  BY <1>0, <1>1, WholeIs
<1>3. w \in Seq(Texts) /\ Len(w) = k /\ \A i \in 1 .. k : w[i] = f[i]
  BY <1>2, Beginning
<1>4. PICK r : r = ReadSize - Size(w)
  OBVIOUS
<1>5. Size(w) = Ends(f)[k] /\ Ends(f)[k] \in Nat /\ r \in Nat
  BY <1>0, <1>2, <1>4, SizeOfBeginning, EndsIs
<1>6. Read(f) = IF w = f \/ r = 0 THEN w ELSE Append(w, r)
  BY <1>1, <1>4 DEF Read
<1>7. k = Len(f) => w = f
  BY <1>3, SameSeq
<1>8. CASE k = Len(f)
  BY <1>3, <1>6, <1>7, <1>8 DEF Reread
<1>9. CASE k # Len(f)
  <2>1. k + 1 \in 1 .. Len(f) /\ (k + 1) - 1 = k /\ k + 1 \in 0 .. Len(f) /\ k \in Nat
    BY <1>0, <1>9
  <2>2. Ends(f)[k + 1] = Ends(f)[k] + f[k + 1] + 1 /\ Ends(f)[k + 1] \in Nat
    BY <2>1, EndsIs
  <2>3. f[k + 1] \in Texts /\ f[k + 1] \in Nat /\ f[k + 1] <= MaxLen
    BY <2>1, <1>0 DEF Texts
  <2>4. r <= f[k + 1] /\ r \in Texts
    BY <1>0, <1>2, <1>4, <1>5, <1>9, <2>2, <2>3 DEF Texts
  <2>5. Read(f) \in Seq(Texts)
    BY <1>3, <1>6, <2>4
  <2>6. ASSUME Size(f) <= BufSize - 1 PROVE Read(f) \in Reread(f)
    <3>1. Size(f) \in Nat /\ Size(f) = Ends(f)[Len(f)]
      BY <1>0, EndsIs DEF Size
    <3>2. k + 1 = Len(f) \/ Ends(f)[k + 1] < Ends(f)[Len(f)]
      BY <1>0, <2>1, EndsGrow
    <3>3. k + 1 = Len(f) /\ Size(f) = BufSize - 1 /\ r = f[k + 1]
      <4>1. Ends(f)[k + 1] > ReadSize /\ Size(f) <= ReadSize + 1
        BY <1>0, <1>2, <1>9, <2>6
      <4>2. k + 1 = Len(f)
        BY <4>1, <1>0, <2>2, <3>1, <3>2
      <4>3. Size(f) = Ends(f)[k + 1] /\ Size(f) = ReadSize + 1
        BY <4>1, <4>2, <1>0, <2>2, <3>1
      <4>4. r = ReadSize - Ends(f)[k]
        BY <1>4, <1>5
      <4>5. Ends(f)[k] + f[k + 1] + 1 = ReadSize + 1
        BY <4>3, <2>2
      <4> QED BY <4>2, <4>3, <4>4, <4>5, <1>0, <1>5, <2>3
    <3>4. w # f
      BY <1>3, <1>9
    <3>5. CASE r = 0
      <4>1. Front(f) = w /\ Last(f) = 0
        <5>1. Len(f) - 1 = k
          BY <3>3, <2>1
        <5> QED BY <5>1, <1>2, <3>3, <3>5 DEF Front, Last
      <4>2. Read(f) = w
        BY <1>6, <3>5
      <4> QED BY <4>1, <4>2, <3>3 DEF Reread
    <3>6. CASE r # 0
      <4>1. PICK a : a = Append(w, r)
        OBVIOUS
      <4>2. a \in Seq(Texts) /\ Len(a) = k + 1 /\ a[k + 1] = r /\ \A i \in 1 .. k : a[i] = w[i]
        BY <4>1, <1>3, <2>4, AppendProperties
      <4>3. \A i \in 1 .. Len(a) : a[i] = f[i]
        <5> SUFFICES ASSUME NEW i \in 1 .. Len(a) PROVE a[i] = f[i]
          OBVIOUS
        <5>1. i \in 1 .. k \/ i = k + 1
          BY <2>1, <4>2
        <5> QED BY <5>1, <4>2, <1>3, <3>3
      <4>4. a = f
        BY <4>2, <4>3, <3>3, SameSeq
      <4>5. Read(f) = a
        BY <1>6, <3>4, <3>6, <4>1
      <4> QED BY <4>4, <4>5 DEF Reread
    <3> QED BY <3>5, <3>6
  <2> QED BY <2>5, <2>6
<1> QED BY <1>8, <1>9

-----------------------------------------------------------------------------
(* The table of lines: what the sequence operations do to its places.      *)
IsInserted(z, S, s, k, x) ==
  /\ z \in Seq(S) /\ Len(z) = Len(s) + 1
  /\ \A i \in 1 .. Len(s) + 1 :
       z[i] = IF i <= k THEN s[i] ELSE IF i = k + 1 THEN x ELSE s[i - 1]
LEMMA Inserted ==
  ASSUME NEW S, NEW s \in Seq(S), NEW k \in 0 .. Len(s), NEW x \in S,
         NEW z, z = InsertAt(s, k + 1, x)
  PROVE  IsInserted(z, S, s, k, x)
<1>0. Len(s) \in Nat /\ k \in Nat /\ k <= Len(s) /\ k + 1 \in Int /\ (k + 1) - 1 = k
  OBVIOUS
<1>1. PICK u : u = SubSeq(s, 1, k)
  OBVIOUS
<1>2. u \in Seq(S) /\ Len(u) = k /\ \A i \in 1 .. k : u[i] = s[i]
  BY <1>1, Beginning
<1>3. PICK v : v = SubSeq(s, k + 1, Len(s))
  OBVIOUS
<1>a. \A i \in k + 1 .. Len(s) : s[i] \in S
  BY <1>0
<1>4. /\ v \in Seq(S) /\ Len(v) = IF k + 1 <= Len(s) THEN Len(s) - (k + 1) + 1 ELSE 0
      /\ \A i \in 1 .. Len(s) - (k + 1) + 1 : v[i] = s[(k + 1) + i - 1]
  BY <1>0, <1>3, <1>a, SubSeqProperties
<1>5. Len(v) = Len(s) - k
  BY <1>0, <1>4
<1>6. PICK t : t = u \o <<x>>
  OBVIOUS
<1>7. <<x>> \in Seq(S) /\ Len(<<x>>) = 1 /\ <<x>>[1] = x
  OBVIOUS
<1>8. /\ t \in Seq(S) /\ Len(t) = Len(u) + Len(<<x>>)
      /\ \A i \in 1 .. Len(u) + Len(<<x>>) : t[i] = IF i <= Len(u) THEN u[i] ELSE <<x>>[i - Len(u)]
  BY <1>2, <1>6, <1>7, ConcatProperties
<1>9. Len(t) = k + 1 /\ t[k + 1] = x /\ \A i \in 1 .. k : t[i] = s[i]
  <2>1. Len(t) = k + 1
    BY <1>8, <1>2, <1>7
  <2>2. t[k + 1] = x
    <3>1. k + 1 \in 1 .. Len(u) + Len(<<x>>) /\ ~(k + 1 <= Len(u)) /\ (k + 1) - Len(u) = 1
      BY <1>0, <1>2, <1>7
    <3> QED BY <3>1, <1>8, <1>7
  <2>3. ASSUME NEW i \in 1 .. k PROVE t[i] = s[i]
    <3>1. i \in 1 .. Len(u) + Len(<<x>>) /\ i <= Len(u)
      BY <1>0, <1>2, <1>7
    <3> QED BY <3>1, <1>8, <1>2
  <2> QED BY <2>1, <2>2, <2>3
<1>10. z = t \o v
  BY <1>0, <1>1, <1>3, <1>6 DEF InsertAt
<1>11. /\ z \in Seq(S) /\ Len(z) = Len(t) + Len(v)
       /\ \A i \in 1 .. Len(t) + Len(v) : z[i] = IF i <= Len(t) THEN t[i] ELSE v[i - Len(t)]
  <2>1. t \in Seq(S) /\ v \in Seq(S)
    BY <1>4, <1>8
  <2> QED BY <2>1, <1>10, ConcatProperties
<1>12. Len(z) = Len(s) + 1
  BY <1>0, <1>11, <1>5, <1>9
<1>13. ASSUME NEW i \in 1 .. Len(s) + 1
       PROVE z[i] = IF i <= k THEN s[i] ELSE IF i = k + 1 THEN x ELSE s[i - 1]
  <2>1. i \in 1 .. Len(t) + Len(v) /\ i \in Nat
    BY <1>0, <1>5, <1>9
  <2>2. CASE i <= k
    <3>1. i \in 1 .. k /\ i <= Len(t)
      BY <1>0, <1>9, <2>2
    <3> QED BY <3>1, <2>1, <1>9, <1>11, <2>2
  <2>3. CASE i = k + 1
    BY <2>1, <2>3, <1>0, <1>9, <1>11
  <2>4. CASE i > k + 1
    <3>1. ~(i <= Len(t)) /\ i - Len(t) \in 1 .. Len(s) - (k + 1) + 1 /\ (k + 1) + (i - Len(t)) - 1 = i - 1
      BY <1>0, <1>9, <2>4, <2>1
    <3>2. z[i] = v[i - Len(t)]
      BY <2>1, <3>1, <1>11
    <3>3. v[i - Len(t)] = s[i - 1]
      BY <3>1, <1>4
    <3> QED BY <3>2, <3>3, <2>4, <1>0
  <2> QED BY <2>2, <2>3, <2>4, <1>0
<1> QED BY <1>11, <1>12, <1>13, Zenon DEF IsInserted

IsCutOut(t, S, s, from, to) ==
  /\ t \in Seq(S) /\ Len(t) = Len(s) - (to - from + 1)
  /\ \A i \in 1 .. Len(t) : t[i] = IF i < from THEN s[i] ELSE s[i + (to - from + 1)]
LEMMA CutOut ==
  ASSUME NEW S, NEW s \in Seq(S), NEW from \in 1 .. Len(s), NEW to \in from .. Len(s),
         NEW t, t = SubSeq(s, 1, from - 1) \o SubSeq(s, to + 1, Len(s))
  PROVE  IsCutOut(t, S, s, from, to)
<1>0. Len(s) \in Nat /\ from \in Nat /\ to \in Nat /\ from <= to /\ to <= Len(s)
      /\ from - 1 \in 0 .. Len(s) /\ to + 1 \in Int /\ Len(s) \in Int
  OBVIOUS
<1>1. PICK u : u = SubSeq(s, 1, from - 1)
  OBVIOUS
<1>2. u \in Seq(S) /\ Len(u) = from - 1 /\ \A i \in 1 .. from - 1 : u[i] = s[i]
  BY <1>0, <1>1, Beginning
<1>3. PICK v : v = SubSeq(s, to + 1, Len(s))
  OBVIOUS
<1>a. \A i \in to + 1 .. Len(s) : s[i] \in S
  BY <1>0
<1>4. /\ v \in Seq(S) /\ Len(v) = IF to + 1 <= Len(s) THEN Len(s) - (to + 1) + 1 ELSE 0
      /\ \A i \in 1 .. Len(s) - (to + 1) + 1 : v[i] = s[(to + 1) + i - 1]
  BY <1>0, <1>3, <1>a, SubSeqProperties
<1>5. Len(v) = Len(s) - to
  BY <1>0, <1>4
<1>6. PICK c : c = u \o v
  OBVIOUS
<1>7. /\ c \in Seq(S) /\ Len(c) = Len(u) + Len(v)
      /\ \A i \in 1 .. Len(u) + Len(v) : c[i] = IF i <= Len(u) THEN u[i] ELSE v[i - Len(u)]
  <2>1. u \in Seq(S) /\ v \in Seq(S)
    BY <1>2, <1>4
  <2> QED BY <2>1, <1>6, ConcatProperties, Zenon
<1>8. Len(c) = Len(s) - (to - from + 1)
  BY <1>0, <1>2, <1>5, <1>7
<1>9. ASSUME NEW i \in 1 .. Len(c) PROVE c[i] = IF i < from THEN s[i] ELSE s[i + (to - from + 1)]
  <2>1. i \in 1 .. Len(u) + Len(v) /\ i \in Nat
    BY <1>7
  <2>2. CASE i < from
    <3>1. i \in 1 .. from - 1 /\ i <= Len(u)
      BY <1>0, <1>2, <2>1, <2>2
    <3> QED BY <3>1, <2>1, <2>2, <1>2, <1>7
  <2>3. CASE ~(i < from)
    <3>1. ~(i <= Len(u)) /\ i - Len(u) \in 1 .. Len(s) - (to + 1) + 1
          /\ (to + 1) + (i - Len(u)) - 1 = i + (to - from + 1)
      BY <1>0, <1>2, <1>8, <2>1, <2>3
    <3>2. c[i] = v[i - Len(u)]
      BY <2>1, <3>1, <1>7
    <3>3. v[i - Len(u)] = s[i + (to - from + 1)]
      BY <3>1, <1>4
    <3> QED BY <2>3, <3>2, <3>3
  <2> QED BY <2>2, <2>3
<1>10. t = c
  BY <1>1, <1>3, <1>6, Zenon
<1> QED BY <1>7, <1>8, <1>9, <1>10, Zenon DEF IsCutOut

LEMMA Least3 ==
  ASSUME NEW a \in Int, NEW b \in Int, NEW c \in Int
  PROVE  /\ Min({a, b, c}) \in {a, b, c}
         /\ Min({a, b, c}) <= a /\ Min({a, b, c}) <= b /\ Min({a, b, c}) <= c
<1> DEFINE P(x) == \A y \in {a, b, c} : x <= y
<1>1. P(a) \/ P(b) \/ P(c)
  OBVIOUS
<1>2. \E x \in {a, b, c} : P(x)
  BY <1>1, Zenon
<1>3. Min({a, b, c}) \in {a, b, c} /\ P(Min({a, b, c}))
  <2> HIDE DEF P
  <2>1. Min({a, b, c}) = CHOOSE x \in {a, b, c} : P(x)
    BY DEF Min, P
  <2> QED BY <1>2, <2>1
<1> QED BY <1>3

LEMMA Least2 ==
  ASSUME NEW a \in Int, NEW b \in Int
  PROVE  Min({a, b}) = IF a <= b THEN a ELSE b
  BY DEF Min

LEMMA Greatest2 ==
  ASSUME NEW a \in Int, NEW b \in Int
  PROVE  Max({a, b}) = IF a >= b THEN a ELSE b
  BY DEF Max

(* The blocks malloc hands out one after another are different ones.       *)
LEMMA Counted ==
  ASSUME NEW S, IsFiniteSet(S)
  PROVE  /\ Cardinality(S) \in Nat
         /\ SetToSeq(S) \in [1 .. Cardinality(S) -> S]
         /\ \A i, j \in 1 .. Cardinality(S) : SetToSeq(S)[i] = SetToSeq(S)[j] => i = j
<1>1. Cardinality(S) \in Nat /\ ExistsBijection(1 .. Cardinality(S), S)
  BY FS_CardinalityType
<1>2. PICK f : f \in Bijection(1 .. Cardinality(S), S)
  BY <1>1 DEF ExistsBijection
<1>3. f \in [1 .. Cardinality(S) -> S] /\ IsInjective(f)
  BY <1>2 DEF Bijection, Injection, IsInjective
<1>4. SetToSeq(S) \in [1 .. Cardinality(S) -> S] /\ IsInjective(SetToSeq(S))
  BY <1>3, Zenon DEF SetToSeq
<1>5. \A i, j \in DOMAIN SetToSeq(S) : SetToSeq(S)[i] = SetToSeq(S)[j] => i = j
  BY <1>4 DEF IsInjective
<1> QED BY <1>1, <1>4, <1>5

-----------------------------------------------------------------------------
(* What the files hold are texts; while lines are typed, they go where the *)
(* table has room for them.                                                *)
DiskOK == disk \in [Files -> {NoFile} \cup Seq(Texts)]
AfterOK == pc = "insert" => after <= line_count
(* NothingToLose, while lines are typed as well: an insertion that adds no *)
(* line leaves modified as it was.                                         *)
Saved ==
  pc \in {"command", "insert"} /\ ~modified /\ excuse = {} /\ copy # NoName
    => disk[copy] \in Seq(Texts) /\ Text \in Reread(disk[copy])
EdInd == TypeOK /\ NoAlias /\ WildOnlyWithoutMemory /\ DiskOK /\ AfterOK /\ Saved

(* The step of OrderKept.                                                  *)
InOrder ==
  \A i, j \in DOMAIN lines, k, l \in DOMAIN lines' :
    i < j /\ lines[i] = lines'[k] /\ lines[j] = lines'[l]
      /\ NULL \notin {lines[i], lines[j]} => k < l

LEMMA LinesAre ==
  ASSUME TypeOK
  PROVE  /\ Len(lines) \in Nat /\ Len(lines) <= MaxLines /\ DOMAIN lines = 1 .. Len(lines)
         /\ \A i \in 1 .. Len(lines) : lines[i] \in Blocks \cup {NULL}
         /\ ToSet(lines) = {lines[i] : i \in 1 .. Len(lines)}
         /\ MaxLines \in Nat
<1>1. lines \in Seq(Blocks \cup {NULL}) /\ Len(lines) <= MaxLines
  BY DEF TypeOK, line_count
<1> QED BY <1>1, EdAssumption DEF ToSet

LEMMA TextIs ==
  ASSUME NEW ls \in Seq(Blocks \cup {NULL}), NULL \notin ToSet(ls), NEW tx \in [Blocks -> Texts]
  PROVE  TextOf(ls, tx) \in Seq(Texts) /\ Len(TextOf(ls, tx)) = Len(ls)
<1>1. Len(ls) \in Nat /\ DOMAIN ls = 1 .. Len(ls)
  OBVIOUS
<1>2. \A i \in 1 .. Len(ls) : ls[i] \in Blocks
  <2> SUFFICES ASSUME NEW i \in 1 .. Len(ls) PROVE ls[i] \in Blocks
    OBVIOUS
  <2>1. ls[i] \in Blocks \cup {NULL}
    OBVIOUS
  <2>2. ls[i] # NULL
    BY <1>1 DEF ToSet
  <2> QED BY <2>1, <2>2
<1>3. \A i \in 1 .. Len(ls) : tx[ls[i]] \in Texts
  BY <1>2
<1>4. TextOf(ls, tx) = [i \in 1 .. Len(ls) |-> tx[ls[i]]]
  BY <1>1 DEF TextOf
<1> QED BY <1>1, <1>3, <1>4

(* A command that leaves the lines, the files and modified alone.          *)
LEMMA Quiet ==
  ASSUME EdInd, UNCHANGED <<lines, heap, modified, disk, copy, excuse>>,
         pc \in {"command", "insert"}, pc' \in {"command", "insert"},
         current' \in Addresses, filename' \in Files \cup {NoName},
         after' \in 0 .. MaxLines, pc' = "insert" => after' <= line_count
  PROVE  EdInd' /\ InOrder
<1> USE DEF EdInd
<1>1. TypeOK'
  BY DEF TypeOK, heap, line_count
<1>2. NoAlias'
  BY DEF NoAlias, heap
<1>3. WildOnlyWithoutMemory'
  BY DEF WildOnlyWithoutMemory
<1>4. DiskOK' /\ AfterOK'
  BY DEF DiskOK, AfterOK, line_count
<1>5. Saved'
  BY DEF Saved, Text, heap
<1>6. InOrder
  BY DEF NoAlias, InOrder
<1> QED BY <1>1, <1>2, <1>3, <1>4, <1>5, <1>6

(* The program leaves the prompt: the table is gone.                       *)
LEMMA LeaveSound ==
  ASSUME EdInd, pc = "command", Leave
  PROVE  EdInd' /\ InOrder
<1> USE DEF EdInd, Leave
<1>0. lines' = <<>> /\ Len(<<>>) = 0 /\ DOMAIN lines' = {} /\ ToSet(lines') = {} /\ <<>> \in Seq(Blocks \cup {NULL})
  BY DEF ToSet
<1>1. TypeOK'
  <2>1. text' \in [Blocks -> Texts]
    BY EdAssumption DEF TypeOK, Release, Texts
  <2>2. current' \in Addresses /\ line_count' <= MaxLines
    BY <1>0, EdAssumption DEF Addresses, line_count
  <2> QED BY <1>0, <2>1, <2>2 DEF TypeOK
<1>2. NoAlias'
  BY <1>0 DEF NoAlias
<1>3. WildOnlyWithoutMemory'
  BY <1>0 DEF WildOnlyWithoutMemory
<1>4. DiskOK' /\ AfterOK' /\ Saved'
  BY DEF DiskOK, AfterOK, Saved
<1>5. InOrder
  BY <1>0 DEF InOrder
<1> QED BY <1>1, <1>2, <1>3, <1>4, <1>5

LEMMA WriteSound ==
  ASSUME EdInd, NEW f \in Files \cup {NoName}, Write(f)
  PROVE  EdInd' /\ InOrder
<1> USE DEF EdInd, Write
<1>0. Named(f) \in Files
  BY DEF Named, TypeOK
<1>1. InOrder
  BY DEF InOrder, NoAlias
<1>2. CASE NULL \in ToSet(lines)
  <2>1. TypeOK' /\ NoAlias' /\ DiskOK' /\ AfterOK' /\ Saved'
    BY <1>2 DEF TypeOK, NoAlias, DiskOK, AfterOK, Saved, heap, line_count
  <2>2. WildOnlyWithoutMemory'
    BY <1>2 DEF WildOnlyWithoutMemory
  <2> QED BY <1>1, <2>1, <2>2
<1>3. CASE NULL \notin ToSet(lines)
  <2>1. Text \in Seq(Texts)
    BY <1>3, TextIs DEF TypeOK, Text
  <2>2. Written(Text) \in Seq(Texts) /\ (Size(Text) <= BufSize - 1 => Written(Text) = Text)
    BY <2>1, WrittenIs
  <2>3. disk' = [disk EXCEPT ![Named(f)] = Written(Text)] /\ copy' = Named(f)
        /\ pc' = pc /\ excuse' = (IF Size(Text) > BufSize - 1 THEN {"cut"} ELSE {})
        /\ lines' = lines /\ text' = text /\ live' = live
    BY <1>3 DEF heap
  <2>4. TypeOK'
    BY <1>0, <1>3 DEF TypeOK, heap, line_count, Named
  <2>5. NoAlias' /\ AfterOK'
    BY <2>3 DEF NoAlias, AfterOK
  <2>6. WildOnlyWithoutMemory'
    BY <1>3, <2>3 DEF WildOnlyWithoutMemory
  <2>7. DiskOK'
    BY <1>0, <2>2, <2>3 DEF DiskOK
  <2>8. Saved'
    <3> SUFFICES ASSUME excuse' = {}
                 PROVE  disk'[copy'] \in Seq(Texts) /\ Text' \in Reread(disk'[copy'])
      BY DEF Saved
    <3>1. Size(Text) \in Nat /\ BufSize \in Nat
      BY <2>1, EndsIs, EdAssumption DEF Size
    <3>2. Size(Text) <= BufSize - 1
      BY <2>3, <3>1
    <3>3. disk'[copy'] = Text
      BY <1>0, <2>2, <2>3, <3>2 DEF DiskOK
    <3>4. Text' = Text
      BY <2>3 DEF Text
    <3> QED BY <2>1, <3>3, <3>4 DEF Reread
  <2> QED BY <1>1, <2>4, <2>5, <2>6, <2>7, <2>8
<1> QED BY <1>2, <1>3

LEMMA WriteFailsSound ==
  ASSUME EdInd, NEW f \in Files \cup {NoName}, WriteFails(f)
  PROVE  EdInd' /\ InOrder
<1> USE DEF EdInd, WriteFails
<1>0. Named(f) \in Files
  BY DEF Named, TypeOK
<1>1. PICK left \in {NoFile, <<>>} : disk' = [disk EXCEPT ![Named(f)] = left]
  OBVIOUS
<1>2. left \in {NoFile} \cup Seq(Texts)
  <2>1. <<>> \in Seq(Texts)
    OBVIOUS
  <2> QED BY <1>1, <2>1, Zenon
<1>3. DiskOK'
  BY <1>0, <1>1, <1>2 DEF DiskOK
<1>4. TypeOK' /\ NoAlias' /\ AfterOK'
  BY DEF TypeOK, NoAlias, AfterOK, heap, line_count
<1>5. WildOnlyWithoutMemory'
  BY DEF WildOnlyWithoutMemory
<1>6. Saved'
  <2> SUFFICES ASSUME Saved, pc' \in {"command", "insert"}, ~modified', excuse' = {}, copy' # NoName
               PROVE  disk'[copy'] \in Seq(Texts) /\ Text' \in Reread(disk'[copy'])
    BY DEF Saved
  <2>1. excuse = {} /\ Named(f) # copy
    OBVIOUS
  <2>2. copy \in Files /\ copy' = copy /\ disk'[copy] = disk[copy]
    BY <1>0, <1>1, <2>1 DEF TypeOK, DiskOK
  <2>3. Text' = Text
    BY DEF Text, heap
  <2> QED BY <2>1, <2>2, <2>3 DEF Saved
<1>7. InOrder
  BY DEF InOrder, NoAlias
<1> QED BY <1>3, <1>4, <1>5, <1>6, <1>7

(* A new table whose places hold, in the old order, lines of the old one,  *)
(* and at most one line that is new.                                       *)
LEMMA Carried ==
  ASSUME EdInd, DOMAIN lines' \subseteq Int,
         NEW o \in [DOMAIN lines' -> 0 .. Len(lines)],
         \A k \in DOMAIN lines' : o[k] # 0 => lines'[k] = lines[o[k]],
         \A k \in DOMAIN lines' : o[k] = 0 => lines'[k] = NULL \/ lines'[k] \notin live,
         \A k, l \in DOMAIN lines' : o[k] = 0 /\ o[l] = 0 => k = l,
         \A k, l \in DOMAIN lines' : k < l /\ o[k] # 0 /\ o[l] # 0 => o[k] < o[l]
  PROVE  /\ InOrder
         /\ \A k, l \in DOMAIN lines' : lines'[k] = lines'[l] /\ lines'[k] # NULL => k = l
<1>0. TypeOK /\ NoAlias
  BY DEF EdInd
<1>1. Len(lines) \in Nat /\ DOMAIN lines = 1 .. Len(lines)
  BY <1>0, LinesAre
<1>2. \A i, j \in 1 .. Len(lines) : lines[i] = lines[j] /\ lines[i] # NULL => i = j
  BY <1>0, <1>1 DEF NoAlias
<1>3. \A i \in 1 .. Len(lines) : lines[i] # NULL => lines[i] \in live
  BY <1>0, <1>1 DEF NoAlias, ToSet
<1>4. \A k \in DOMAIN lines' : o[k] # 0 => o[k] \in 1 .. Len(lines)
  BY <1>1
<1>5. ASSUME NEW i \in 1 .. Len(lines), NEW k \in DOMAIN lines', lines[i] = lines'[k], lines[i] # NULL
      PROVE  o[k] = i
  <2>1. o[k] # 0
    BY <1>3, <1>5
  <2> QED BY <2>1, <1>2, <1>4, <1>5
<1>6. InOrder
  <2> SUFFICES ASSUME NEW i \in 1 .. Len(lines), NEW j \in 1 .. Len(lines),
                      NEW k \in DOMAIN lines', NEW l \in DOMAIN lines',
                      i < j, lines[i] = lines'[k], lines[j] = lines'[l],
                      lines[i] # NULL, lines[j] # NULL
               PROVE  k < l
    BY <1>1 DEF InOrder
  <2>1. o[k] = i /\ o[l] = j
    BY <1>5
  <2>2. i # 0 /\ j # 0 /\ i \in Int /\ j \in Int /\ k \in Int /\ l \in Int
    BY <1>1
  <2>3. k # l /\ ~(l < k)
    BY <2>1, <2>2
  <2> QED BY <2>2, <2>3
<1>7. ASSUME NEW k \in DOMAIN lines', NEW l \in DOMAIN lines', lines'[k] = lines'[l], lines'[k] # NULL
      PROVE  k = l
  <2>1. CASE o[k] = 0
    <3>1. lines'[l] \notin live
      BY <2>1, <1>7
    <3>2. o[l] = 0
      BY <3>1, <1>3, <1>4, <1>7
    <3> QED BY <2>1, <3>2
  <2>2. CASE o[k] # 0
    <3>1. o[k] \in 1 .. Len(lines) /\ lines[o[k]] = lines'[l] /\ lines[o[k]] # NULL
      BY <2>2, <1>4, <1>7
    <3>2. o[l] = o[k]
      BY <3>1, <1>5
    <3>3. k \in Int /\ l \in Int /\ o[k] \in Int
      BY <3>1
    <3>4. ~(k < l) /\ ~(l < k)
      BY <2>2, <3>2, <3>3
    <3> QED BY <3>3, <3>4
  <2> QED BY <2>1, <2>2
<1> QED BY <1>6, <1>7

LEMMA MallocIs ==
  ASSUME live \subseteq Blocks, live # Blocks
  PROVE  Malloc \in Blocks /\ Malloc \notin live /\ Malloc # NULL
<1>1. \E b \in Blocks : b \notin live
  OBVIOUS
<1>2. Malloc \in Blocks /\ Malloc \notin live
  BY <1>1 DEF Malloc
<1> QED BY <1>2, EdAssumption

LEMMA InsertionSound ==
  ASSUME EdInd, NEW t \in Texts, pc = "insert", line_count < MaxLines, Insertion(t),
         UNCHANGED <<current, filename, disk, copy>>
  PROVE  EdInd' /\ InOrder
<1> USE DEF Insertion
<1>0. TypeOK /\ NoAlias /\ WildOnlyWithoutMemory /\ DiskOK /\ AfterOK
  BY DEF EdInd
<1>1. Len(lines) \in Nat /\ Len(lines) < MaxLines /\ MaxLines \in Nat /\ DOMAIN lines = 1 .. Len(lines)
      /\ lines \in Seq(Blocks \cup {NULL})
  BY <1>0, LinesAre DEF line_count, TypeOK
<1>2. after \in Nat /\ after \in 0 .. Len(lines) /\ after' = after + 1
  BY <1>0, <1>1 DEF AfterOK, line_count, TypeOK
<1>3. Malloc \in Blocks /\ Malloc \notin live /\ Malloc # NULL /\ Malloc \in Blocks \cup {NULL}
  BY <1>0, MallocIs DEF TypeOK
<1>4. /\ lines' \in Seq(Blocks \cup {NULL}) /\ Len(lines') = Len(lines) + 1
      /\ \A i \in 1 .. Len(lines) + 1 : lines'[i] =
           IF i <= after THEN lines[i] ELSE IF i = after + 1 THEN Malloc ELSE lines[i - 1]
  <2>1. lines' = InsertAt(lines, after + 1, Malloc)
    BY DEF Shifted
  <2>2. PICK m : m = Malloc
    OBVIOUS
  <2>3. m \in Blocks \cup {NULL} /\ lines' = InsertAt(lines, after + 1, m)
    BY <1>3, <2>1, <2>2
  <2>4. lines \in Seq(Blocks \cup {NULL}) /\ after \in 0 .. Len(lines)
    BY <1>1, <1>2
  <2>5. IsInserted(lines', Blocks \cup {NULL}, lines, after, m)
    BY <2>3, <2>4, Inserted, Zenon
  <2> QED BY <2>2, <2>5, Zenon DEF IsInserted
<1>5. DOMAIN lines' = 1 .. Len(lines) + 1 /\ DOMAIN lines' \subseteq Int
  BY <1>4, <1>1
<1> DEFINE o == [k \in DOMAIN lines' |-> IF k <= after THEN k ELSE IF k = after + 1 THEN 0 ELSE k - 1]
<1>6. o \in [DOMAIN lines' -> 0 .. Len(lines)]
  BY <1>1, <1>2, <1>5
<1>7. \A k \in DOMAIN lines' : /\ o[k] # 0 => lines'[k] = lines[o[k]]
                               /\ o[k] = 0 => k = after + 1
  BY <1>1, <1>2, <1>4, <1>5
<1>8. \A k \in DOMAIN lines' : o[k] = 0 => lines'[k] = NULL \/ lines'[k] \notin live
  <2>1. after + 1 \in 1 .. Len(lines) + 1 /\ ~(after + 1 <= after)
    BY <1>1, <1>2
  <2>2. lines'[after + 1] = Malloc
    BY <1>4, <2>1
  <2> HIDE DEF o
  <2> QED BY <1>3, <1>7, <2>2
<1>9. \A k, l \in DOMAIN lines' : k < l /\ o[k] # 0 /\ o[l] # 0 => o[k] < o[l]
  BY <1>1, <1>2, <1>5
<1>10. InOrder /\ \A k, l \in DOMAIN lines' : lines'[k] = lines'[l] /\ lines'[k] # NULL => k = l
  <2> HIDE DEF o
  <2>1. \A k, l \in DOMAIN lines' : o[k] = 0 /\ o[l] = 0 => k = l
    BY <1>7
  <2> QED BY <1>5, <1>6, <1>7, <1>8, <1>9, <2>1, Carried
<1>11. \A k \in DOMAIN lines' : lines'[k] = Malloc \/ lines'[k] \in ToSet(lines)
  <2> SUFFICES ASSUME NEW k \in 1 .. Len(lines) + 1, lines'[k] # Malloc
               PROVE  \E i \in 1 .. Len(lines) : lines'[k] = lines[i]
    BY <1>1, <1>5 DEF ToSet
  <2>1. CASE k <= after
    BY <1>1, <1>2, <1>4, <2>1
  <2>2. CASE ~(k <= after)
    <3>1. lines'[k] = lines[k - 1] /\ k # after + 1
      BY <1>4, <2>2
    <3>2. k - 1 \in 1 .. Len(lines)
      BY <1>1, <1>2, <2>2, <3>1
    <3> QED BY <3>1, <3>2
  <2> QED BY <2>1, <2>2
<1>12. NoAlias'
  <2>1. ToSet(lines') \subseteq live' \cup {NULL}
    BY <1>0, <1>11 DEF NoAlias, ToSet
  <2> QED BY <1>10, <2>1 DEF NoAlias
<1>13. TypeOK'
  <2>1. text' \in [Blocks -> Texts]
    BY <1>0, <1>3 DEF TypeOK
  <2>2. after' \in 0 .. MaxLines /\ line_count' <= MaxLines
    BY <1>1, <1>2, <1>4 DEF line_count
  <2>3. live' \subseteq Blocks
    BY <1>0, <1>3 DEF TypeOK
  <2> QED BY <1>0, <1>4, <2>1, <2>2, <2>3 DEF TypeOK
<1>14. WildOnlyWithoutMemory'
  <2>1. NULL \in ToSet(lines') => NULL \in ToSet(lines)
    BY <1>3, <1>11 DEF ToSet
  <2> QED BY <1>0, <2>1 DEF WildOnlyWithoutMemory
<1>15. DiskOK' /\ AfterOK' /\ Saved'
  BY <1>0, <1>1, <1>2, <1>4 DEF DiskOK, AfterOK, Saved, line_count
<1> QED BY <1>10, <1>12, <1>13, <1>14, <1>15 DEF EdInd

(* malloc fails in do_insert: the place stays NULL, the last line is lost, *)
(* unless it was added behind the last line and nothing had to move.       *)
LEMMA NoMemSound ==
  ASSUME EdInd, pc = "insert", line_count < MaxLines, InsertionNoMem,
         UNCHANGED <<current, filename, disk, copy>>
  PROVE  EdInd' /\ InOrder
<1>a. lines' = SubSeq(Shifted(NULL), 1, line_count)
  BY DEF InsertionNoMem
<1>b. /\ pc' = "command" /\ after' = 0 /\ UNCHANGED <<heap, modified>>
      /\ excuse' = IF after < line_count THEN excuse \cup {"nomem"} ELSE excuse
  BY DEF InsertionNoMem
<1>0. TypeOK /\ NoAlias /\ WildOnlyWithoutMemory /\ DiskOK /\ AfterOK /\ Saved
  BY DEF EdInd
<1>1. Len(lines) \in Nat /\ Len(lines) < MaxLines /\ MaxLines \in Nat /\ DOMAIN lines = 1 .. Len(lines)
      /\ lines \in Seq(Blocks \cup {NULL})
  BY <1>0, LinesAre DEF line_count, TypeOK
<1>2. after \in Nat /\ after \in 0 .. Len(lines) /\ after <= Len(lines)
  BY <1>0, <1>1 DEF AfterOK, line_count, TypeOK
<1>3. PICK z : z = InsertAt(lines, after + 1, NULL)
  OBVIOUS
<1>4. /\ z \in Seq(Blocks \cup {NULL}) /\ Len(z) = Len(lines) + 1
      /\ \A i \in 1 .. Len(lines) + 1 :
           z[i] = IF i <= after THEN lines[i] ELSE IF i = after + 1 THEN NULL ELSE lines[i - 1]
  <2>1. NULL \in Blocks \cup {NULL} /\ lines \in Seq(Blocks \cup {NULL}) /\ after \in 0 .. Len(lines)
    BY <1>1, <1>2
  <2>2. IsInserted(z, Blocks \cup {NULL}, lines, after, NULL)
    BY <1>3, <2>1, Inserted, Zenon
  <2> QED BY <2>2, Zenon DEF IsInserted
<1>5. lines' = SubSeq(z, 1, Len(lines))
  BY <1>a, <1>3 DEF Shifted, line_count
<1>6. lines' \in Seq(Blocks \cup {NULL}) /\ Len(lines') = Len(lines)
      /\ \A i \in 1 .. Len(lines) : lines'[i] = z[i]
  <2>1. Len(lines) \in 0 .. Len(z)
    BY <1>1, <1>4
  <2> QED BY <1>4, <1>5, <2>1, Beginning
<1>7. DOMAIN lines' = 1 .. Len(lines) /\ DOMAIN lines' \subseteq Int
  BY <1>6, <1>1
<1>8. \A i \in 1 .. Len(lines) :
        lines'[i] = IF i <= after THEN lines[i] ELSE IF i = after + 1 THEN NULL ELSE lines[i - 1]
  BY <1>1, <1>4, <1>6
<1> DEFINE o == [k \in DOMAIN lines' |-> IF k <= after THEN k ELSE IF k = after + 1 THEN 0 ELSE k - 1]
<1>9. o \in [DOMAIN lines' -> 0 .. Len(lines)]
  BY <1>1, <1>2, <1>7
<1>10. \A k \in DOMAIN lines' : /\ o[k] # 0 => lines'[k] = lines[o[k]]
                                /\ o[k] = 0 => k = after + 1 /\ lines'[k] = NULL
  BY <1>1, <1>2, <1>7, <1>8
<1>11. \A k, l \in DOMAIN lines' : k < l /\ o[k] # 0 /\ o[l] # 0 => o[k] < o[l]
  BY <1>1, <1>2, <1>7
<1>12. InOrder /\ \A k, l \in DOMAIN lines' : lines'[k] = lines'[l] /\ lines'[k] # NULL => k = l
  <2> HIDE DEF o
  <2>1. \A k, l \in DOMAIN lines' : o[k] = 0 /\ o[l] = 0 => k = l
    BY <1>10
  <2> QED BY <1>7, <1>9, <1>10, <1>11, <2>1, Carried
<1>13. \A k \in DOMAIN lines' : lines'[k] = NULL \/ lines'[k] \in ToSet(lines)
  <2> SUFFICES ASSUME NEW k \in 1 .. Len(lines), lines'[k] # NULL
               PROVE  \E i \in 1 .. Len(lines) : lines'[k] = lines[i]
    BY <1>1, <1>7 DEF ToSet
  <2>1. o[k] \in 1 .. Len(lines) /\ lines'[k] = lines[o[k]]
    <3>1. o[k] \in 0 .. Len(lines) /\ k \in DOMAIN lines'
      BY <1>7, <1>9
    <3> HIDE DEF o
    <3> QED BY <3>1, <1>1, <1>10
  <2> QED BY <2>1
<1>14. NoAlias'
  <2>1. ToSet(lines') \subseteq live' \cup {NULL}
    BY <1>b, <1>0, <1>13 DEF NoAlias, ToSet, heap
  <2> QED BY <1>12, <2>1 DEF NoAlias
<1>15. TypeOK'
  <2>1. after' \in 0 .. MaxLines /\ line_count' <= MaxLines
    BY <1>b, <1>1, <1>6 DEF line_count
  <2> QED BY <1>b, <1>0, <1>6, <2>1 DEF TypeOK, heap
<1>16. CASE after < Len(lines)
  <2>1. "nomem" \in excuse'
    BY <1>b, <1>16 DEF line_count
  <2> QED BY <1>b, <1>0, <1>12, <1>14, <1>15, <2>1
          DEF EdInd, WildOnlyWithoutMemory, DiskOK, AfterOK, Saved
<1>17. CASE ~(after < Len(lines))
  <2>1. \A i \in 1 .. Len(lines) : lines'[i] = lines[i]
    BY <1>1, <1>2, <1>8, <1>17
  <2>2. lines' = lines
    BY <1>1, <1>6, <2>1, SameSeq
  <2>3. excuse' = excuse
    BY <1>b, <1>17 DEF line_count
  <2>4. after' \in 0 .. MaxLines /\ pc' = "command" /\ pc' # "insert"
    BY <1>b, <1>1
  <2> QED BY <1>b, <1>0, <2>2, <2>3, <2>4, Quiet DEF TypeOK, EdInd, heap
<1> QED BY <1>16, <1>17

LEMMA DeleteSound ==
  ASSUME EdInd, NEW a \in Int, NEW b \in Int, Delete(a, b)
  PROVE  EdInd' /\ InOrder
<1>0. TypeOK /\ NoAlias /\ WildOnlyWithoutMemory /\ DiskOK /\ AfterOK
  BY DEF EdInd
<1>1. Len(lines) \in Nat /\ Len(lines) <= MaxLines /\ MaxLines \in Nat /\ DOMAIN lines = 1 .. Len(lines)
      /\ lines \in Seq(Blocks \cup {NULL})
  BY <1>0, LinesAre DEF TypeOK
<1>2. PICK from : from = Max({a, 1})
  OBVIOUS
<1>3. PICK to : to = Min({b, line_count})
  OBVIOUS
<1>4. PICK gone : gone = ToSet(SubSeq(lines, from, to)) \ {NULL}
  OBVIOUS
<1>5. /\ pc = "command" /\ from <= to /\ lines' = Without(from, to)
      /\ live' = live \ gone /\ text' = Release(gone, text)
      /\ current' = IF current > Len(lines') /\ lines' # <<>> THEN Len(lines') ELSE current
      /\ modified' = TRUE
      /\ UNCHANGED <<filename, disk, pc, after, copy, excuse, shown>>
  BY <1>2, <1>3, <1>4 DEF Delete
<1>6. /\ from \in Nat /\ to \in Nat /\ 1 <= from /\ from <= to /\ to <= Len(lines)
      /\ from \in 1 .. Len(lines) /\ to \in from .. Len(lines)
  <2>1. from = IF a >= 1 THEN a ELSE 1
    BY <1>2, Greatest2
  <2>2. to = IF b <= Len(lines) THEN b ELSE Len(lines)
    BY <1>1, <1>3, Least2 DEF line_count
  <2>3. from <= to
    BY <1>5
  <2>4. from \in Int /\ 1 <= from
    BY <2>1
  <2>5. to \in Int /\ to <= Len(lines)
    <3>1. Len(lines) \in Int
      BY <1>1
    <3>2. CASE b <= Len(lines)
      BY <2>2, <3>1, <3>2
    <3>3. CASE ~(b <= Len(lines))
      BY <2>2, <3>1, <3>3
    <3> QED BY <3>2, <3>3
  <2> QED BY <2>3, <2>4, <2>5, <1>1
<1>7. PICK n : n = to - from + 1
  OBVIOUS
<1>8. /\ lines' \in Seq(Blocks \cup {NULL}) /\ Len(lines') = Len(lines) - n
      /\ \A i \in 1 .. Len(lines') : lines'[i] = IF i < from THEN lines[i] ELSE lines[i + n]
      /\ n \in Nat /\ n >= 1
  <2>1. lines' = SubSeq(lines, 1, from - 1) \o SubSeq(lines, to + 1, Len(lines))
    BY <1>5 DEF Without, line_count
  <2>2. IsCutOut(lines', Blocks \cup {NULL}, lines, from, to)
    BY <1>1, <1>6, <2>1, CutOut, Zenon
  <2>3. n \in Nat /\ n >= 1
    BY <1>6, <1>7
  <2> QED BY <2>2, <2>3, <1>7, Zenon DEF IsCutOut
<1>9. /\ DOMAIN lines' = 1 .. Len(lines') /\ DOMAIN lines' \subseteq Int /\ Len(lines') \in Nat
      /\ Len(lines') <= Len(lines)
  BY <1>8, <1>1
<1> DEFINE o == [k \in DOMAIN lines' |-> IF k < from THEN k ELSE k + n]
<1>10. \A k \in DOMAIN lines' : o[k] \in 1 .. Len(lines) /\ o[k] \notin from .. to
  BY <1>1, <1>6, <1>7, <1>8, <1>9
<1>11. \A k \in DOMAIN lines' : lines'[k] = lines[o[k]]
  BY <1>8, <1>9
<1>12. \A k, l \in DOMAIN lines' : k < l => o[k] < o[l]
  BY <1>6, <1>8, <1>9
<1>a. DOMAIN o = DOMAIN lines' /\ o = [k \in DOMAIN lines' |-> o[k]]
  OBVIOUS
<1> HIDE DEF o
<1>13. InOrder /\ \A k, l \in DOMAIN lines' : lines'[k] = lines'[l] /\ lines'[k] # NULL => k = l
  <2>1. \A k \in DOMAIN lines' : o[k] # 0 /\ o[k] \in 0 .. Len(lines)
    BY <1>1, <1>10
  <2>2. o \in [DOMAIN lines' -> 0 .. Len(lines)]
    BY <2>1, <1>a
  <2> QED BY <1>9, <1>11, <1>12, <2>1, <2>2, Carried
<1>14. \A x \in gone : \E i \in from .. to : x = lines[i]
  <2>0. \A i \in from .. to : lines[i] \in Blocks \cup {NULL}
    BY <1>1, <1>6
  <2>1. PICK s : s = SubSeq(lines, from, to)
    OBVIOUS
  <2>2. /\ s \in Seq(Blocks \cup {NULL}) /\ Len(s) = IF from <= to THEN to - from + 1 ELSE 0
        /\ \A i \in 1 .. to - from + 1 : s[i] = lines[from + i - 1]
    BY <1>6, <2>0, <2>1, SubSeqProperties
  <2>3. Len(s) = to - from + 1 /\ DOMAIN s = 1 .. to - from + 1
    BY <1>6, <2>2
  <2>4. ASSUME NEW x \in gone PROVE \E i \in from .. to : x = lines[i]
    <3>1. PICK i \in 1 .. to - from + 1 : x = s[i]
      BY <1>4, <2>1, <2>3 DEF ToSet
    <3>2. from + i - 1 \in from .. to /\ x = lines[from + i - 1]
      BY <3>1, <2>2, <1>6
    <3> QED BY <3>2
  <2> QED BY <2>4
<1>15. NoAlias'
  <2>1. ASSUME NEW k \in DOMAIN lines', lines'[k] # NULL PROVE lines'[k] \in live'
    <3>1. o[k] \in 1 .. Len(lines) /\ o[k] \notin from .. to /\ lines'[k] = lines[o[k]]
      BY <1>10, <1>11
    <3>2. lines'[k] \in live
      BY <1>0, <1>1, <2>1, <3>1 DEF NoAlias, ToSet
    <3>3. lines'[k] \notin gone
      <4> SUFFICES ASSUME lines'[k] \in gone PROVE FALSE
        OBVIOUS
      <4>1. PICK i \in from .. to : lines[o[k]] = lines[i]
        BY <1>14, <3>1
      <4>2. i \in 1 .. Len(lines)
        BY <1>6, <1>1
      <4>3. i = o[k]
        BY <1>0, <1>1, <2>1, <3>1, <4>1, <4>2 DEF NoAlias
      <4> QED BY <3>1, <4>3
    <3> QED BY <3>2, <3>3, <1>5
  <2>2. ToSet(lines') \subseteq live' \cup {NULL}
    BY <2>1 DEF ToSet
  <2> QED BY <1>13, <2>2 DEF NoAlias
<1>16. TypeOK'
  <2>1. text' \in [Blocks -> Texts]
    BY <1>0, <1>5, EdAssumption DEF TypeOK, Release, Texts
  <2>2. current' \in Addresses
    BY <1>0, <1>1, <1>5, <1>9 DEF TypeOK, Addresses
  <2>3. line_count' <= MaxLines
    BY <1>1, <1>9 DEF line_count
  <2>4. lines' \in Seq(Blocks \cup {NULL}) /\ live' \subseteq Blocks
    BY <1>0, <1>5, <1>8 DEF TypeOK
  <2> QED BY <1>0, <1>5, <2>1, <2>2, <2>3, <2>4 DEF TypeOK
<1>17. WildOnlyWithoutMemory'
  <2>1. NULL \in ToSet(lines') => NULL \in ToSet(lines)
    BY <1>1, <1>10, <1>11 DEF ToSet
  <2> QED BY <1>0, <1>5, <2>1 DEF WildOnlyWithoutMemory
<1>18. DiskOK' /\ AfterOK' /\ Saved'
  BY <1>0, <1>5 DEF DiskOK, AfterOK, Saved
<1> QED BY <1>13, <1>15, <1>16, <1>17, <1>18 DEF EdInd

LEMMA PatternIs ==
  ASSUME NEW g \in Given
  PROVE  Pattern(g) \in Nat /\ Replacement(g) \in Nat
<1>1. g \in Seq(Nat \cup {Slash})
  BY EdAssumption
<1>2. \A s \in Seq(Nat \cup {Slash}) : s # <<>> => s[1] \in Nat \cup {Slash} /\ Tail(s) \in Seq(Nat \cup {Slash})
  OBVIOUS
<1>3. Pattern(g) \in Nat
  BY <1>1, <1>2 DEF Pattern
<1>4. PICK rest : rest = IF Pattern(g) = 0 THEN g ELSE Tail(g)
  OBVIOUS
<1>5. Pattern(g) # 0 => g # <<>>
  BY DEF Pattern
<1>6. rest \in Seq(Nat \cup {Slash})
  BY <1>1, <1>2, <1>4, <1>5
<1>7. PICK r : r = IF rest # <<>> /\ rest[1] = Slash THEN Tail(rest) ELSE rest
  OBVIOUS
<1>8. r \in Seq(Nat \cup {Slash})
  BY <1>2, <1>6, <1>7
<1>9. Replacement(g) = IF r # <<>> /\ r[1] # Slash THEN r[1] ELSE 0
  BY <1>4, <1>7 DEF Replacement
<1>10. r # <<>> /\ r[1] # Slash => r[1] \in Nat
  BY <1>2, <1>8
<1>11. Replacement(g) \in Nat
  BY <1>9, <1>10
<1> QED BY <1>3, <1>11

(* do_substitute has replaced a line: the old block is free, and no line   *)
(* is in it.                                                               *)
LEMMA ReplaceSound ==
  ASSUME EdInd, NEW a \in 1 .. Len(lines), NEW t \in Texts, lines[a] # NULL,
         live # Blocks, pc = "command", Replace(a, t),
         UNCHANGED <<current, filename, disk, pc, after, copy, excuse>>
  PROVE  EdInd' /\ InOrder
<1>0. TypeOK /\ NoAlias /\ WildOnlyWithoutMemory /\ DiskOK /\ AfterOK
  BY DEF EdInd
<1>1. Len(lines) \in Nat /\ Len(lines) <= MaxLines /\ MaxLines \in Nat /\ DOMAIN lines = 1 .. Len(lines)
      /\ lines \in Seq(Blocks \cup {NULL})
  BY <1>0, LinesAre DEF TypeOK
<1>2. PICK m : m = Malloc
  OBVIOUS
<1>3. m \in Blocks /\ m \notin live /\ m # NULL
  BY <1>0, <1>2, MallocIs DEF TypeOK
<1>4. PICK old : old = lines[a]
  OBVIOUS
<1>5. /\ lines' = [lines EXCEPT ![a] = m] /\ live' = (live \cup {m}) \ {old}
      /\ text' = [Release({old}, text) EXCEPT ![m] = t] /\ modified' = TRUE
  BY <1>2, <1>4 DEF Replace
<1>6. /\ lines' \in Seq(Blocks \cup {NULL}) /\ Len(lines') = Len(lines) /\ DOMAIN lines' = 1 .. Len(lines)
      /\ lines'[a] = m /\ \A i \in 1 .. Len(lines) : i # a => lines'[i] = lines[i]
  BY <1>1, <1>3, <1>5
<1>7. old \in live /\ m # old
  BY <1>0, <1>1, <1>3, <1>4 DEF NoAlias, ToSet
<1> DEFINE o == [k \in DOMAIN lines' |-> IF k = a THEN 0 ELSE k]
<1>8. o \in [DOMAIN lines' -> 0 .. Len(lines)]
  BY <1>1, <1>6
<1>9. \A k \in DOMAIN lines' : /\ o[k] # 0 => o[k] = k /\ k # a
                               /\ o[k] = 0 => k = a
  BY <1>1, <1>6
<1> HIDE DEF o
<1>10. InOrder /\ \A k, l \in DOMAIN lines' : lines'[k] = lines'[l] /\ lines'[k] # NULL => k = l
  <2>1. \A k \in DOMAIN lines' : o[k] # 0 => lines'[k] = lines[o[k]]
    BY <1>6, <1>9
  <2>2. \A k \in DOMAIN lines' : o[k] = 0 => lines'[k] = NULL \/ lines'[k] \notin live
    BY <1>3, <1>6, <1>9
  <2>3. \A k, l \in DOMAIN lines' : o[k] = 0 /\ o[l] = 0 => k = l
    BY <1>9
  <2>4. \A k, l \in DOMAIN lines' : k < l /\ o[k] # 0 /\ o[l] # 0 => o[k] < o[l]
    BY <1>9
  <2>5. DOMAIN lines' \subseteq Int
    BY <1>1, <1>6
  <2> QED BY <1>8, <2>1, <2>2, <2>3, <2>4, <2>5, Carried
<1>11. NoAlias'
  <2>1. ASSUME NEW k \in 1 .. Len(lines), lines'[k] # NULL PROVE lines'[k] \in live'
    <3>1. CASE k = a
      BY <1>5, <1>6, <1>7, <3>1
    <3>2. CASE k # a
      <4>1. lines'[k] = lines[k] /\ lines[k] \in live
        BY <1>0, <1>1, <1>6, <2>1, <3>2 DEF NoAlias, ToSet
      <4>2. lines[k] # old
        BY <1>0, <1>1, <1>4, <3>2 DEF NoAlias
      <4> QED BY <4>1, <4>2, <1>5
    <3> QED BY <3>1, <3>2
  <2>2. ToSet(lines') \subseteq live' \cup {NULL}
    BY <1>6, <2>1 DEF ToSet
  <2> QED BY <1>10, <2>2 DEF NoAlias
<1>12. TypeOK'
  <2>1. Release({old}, text) \in [Blocks -> Texts]
    BY <1>0, EdAssumption DEF TypeOK, Release, Texts
  <2>2. text' \in [Blocks -> Texts]
    BY <1>5, <2>1
  <2>3. live' \subseteq Blocks /\ line_count' <= MaxLines
    BY <1>0, <1>1, <1>3, <1>5, <1>6 DEF TypeOK, line_count
  <2> QED BY <1>0, <1>5, <1>6, <2>2, <2>3 DEF TypeOK
<1>13. WildOnlyWithoutMemory'
  <2>1. NULL \in ToSet(lines') => NULL \in ToSet(lines)
    BY <1>1, <1>3, <1>6 DEF ToSet
  <2> QED BY <1>0, <2>1 DEF WildOnlyWithoutMemory
<1>14. DiskOK' /\ AfterOK' /\ Saved'
  BY <1>0, <1>5 DEF DiskOK, AfterOK, Saved
<1> QED BY <1>10, <1>11, <1>12, <1>13, <1>14 DEF EdInd

LEMMA SubstituteSound ==
  ASSUME EdInd, NEW g \in Given, NEW a, NEW hit, NEW mem, Substitute(g, a, hit, mem)
  PROVE  EdInd' /\ InOrder
<1>0. TypeOK /\ NoAlias /\ WildOnlyWithoutMemory /\ DiskOK /\ AfterOK
  BY DEF EdInd
<1>1. pc = "command" /\ (mem => live # Blocks) /\ Substituted(g, a, hit, mem)
      /\ UNCHANGED <<current, filename, disk, after, copy, excuse>>
  BY DEF Substitute
<1>2. CASE UNCHANGED <<lines, heap, modified, pc>>
  BY <1>0, <1>1, <1>2, Quiet DEF TypeOK, EdInd
<1>3. CASE ~UNCHANGED <<lines, heap, modified, pc>>
  <2>1. a \in 1 .. Len(lines)
    BY <1>1, <1>3 DEF Substituted, line_count
  <2>2. CASE lines[a] = NULL
    <3>1. pc' = "wild" /\ UNCHANGED <<lines, heap, modified>>
      BY <1>1, <1>3, <2>2 DEF Substituted
    <3>2. NULL \in ToSet(lines)
      BY <1>0, <2>1, <2>2, LinesAre
    <3>3. InOrder
      BY <1>0, <3>1 DEF InOrder, NoAlias
    <3>4. TypeOK' /\ NoAlias' /\ DiskOK' /\ AfterOK' /\ Saved'
      BY <1>0, <1>1, <3>1 DEF TypeOK, NoAlias, DiskOK, AfterOK, Saved, heap, line_count
    <3>5. WildOnlyWithoutMemory'
      BY <1>0, <1>1, <3>2 DEF WildOnlyWithoutMemory
    <3> QED BY <3>3, <3>4, <3>5 DEF EdInd
  <2>3. CASE lines[a] # NULL
    <3>1. PICK t : t = text[lines[a]] - Pattern(g) + Replacement(g)
      OBVIOUS
    <3>2. mem /\ live # Blocks /\ Pattern(g) <= text[lines[a]] /\ t <= MaxLen /\ Replace(a, t) /\ UNCHANGED pc
      BY <1>1, <1>3, <2>3, <3>1 DEF Substituted
    <3>3. lines[a] \in Blocks /\ text[lines[a]] \in Nat
      BY <1>0, <2>1, <2>3, LinesAre, EdAssumption DEF TypeOK, Texts
    <3>4. Pattern(g) \in Nat /\ Replacement(g) \in Nat
      BY PatternIs
    <3>5. t \in Int /\ t >= 0
      BY <3>1, <3>2, <3>3, <3>4
    <3>6. t \in Texts
      BY <3>2, <3>5, EdAssumption DEF Texts
    <3> QED BY <1>1, <2>1, <2>3, <3>2, <3>6, ReplaceSound
  <2> QED BY <2>2, <2>3
<1> QED BY <1>2, <1>3

(* load_file: the new lines are in blocks of their own, and hold what was  *)
(* read of the file.                                                       *)
LEMMA EditSound ==
  ASSUME EdInd, NEW e \in Files \cup {NoName}, Edit(e)
  PROVE  EdInd'
<1>0. TypeOK /\ DiskOK
  BY DEF EdInd
<1>1. PICK f : f = Named(e)
  OBVIOUS
<1>2. f \in Files /\ disk[f] # NoFile /\ pc = "command" /\ UNCHANGED <<disk, pc, after, shown>>
  BY <1>0, <1>1 DEF Edit, Named, TypeOK
<1>3. disk[f] \in Seq(Texts)
  BY <1>0, <1>2 DEF DiskOK
<1>4. PICK g : g = Read(disk[f])
  OBVIOUS
<1>5. g \in Seq(Texts) /\ (Size(disk[f]) <= BufSize - 1 => g \in Reread(disk[f])) /\ Len(g) \in Nat
      /\ Size(disk[f]) \in Nat /\ BufSize \in Nat
  <2>1. PICK h : h = disk[f]
    OBVIOUS
  <2>2. h \in Seq(Texts) /\ g = Read(h)
    BY <1>3, <1>4, <2>1
  <2>3. g \in Seq(Texts) /\ (Size(h) <= BufSize - 1 => g \in Reread(h))
    BY <2>2, ReadIs
  <2>4. Size(h) \in Nat /\ BufSize \in Nat /\ Len(g) \in Nat
    BY <2>2, <2>3, EndsIs, EdAssumption DEF Size
  <2> QED BY <2>1, <2>3, <2>4
<1>6. PICK kept : kept = live \ ToSet(lines)
  OBVIOUS
<1>7. IsFiniteSet(Blocks \ kept)
  BY FS_Difference, EdAssumption
<1>8. PICK c : c = Cardinality(Blocks \ kept)
  OBVIOUS
<1>9. PICK got : got = SetToSeq(Blocks \ kept)
  OBVIOUS
<1>10. /\ c \in Nat /\ got \in [1 .. c -> Blocks \ kept]
       /\ \A i, j \in 1 .. c : got[i] = got[j] => i = j
  BY <1>7, <1>8, <1>9, Counted
<1>11. PICK m : m = LoadedCount(g)
  OBVIOUS
<1>n. PICK n \in 0 .. m : Load(f, n)
  BY <1>1, <1>4, <1>11 DEF Edit
<1>12. n \in Nat /\ n <= Len(g) /\ n <= MaxLines /\ n <= c /\ MaxLines \in Nat
  <2>1. m = Min({Len(g), MaxLines, c})
    BY <1>6, <1>8, <1>11 DEF LoadedCount
  <2>2. MaxLines \in Nat
    BY EdAssumption
  <2>3. Len(g) \in Int /\ MaxLines \in Int /\ c \in Int
    BY <2>2, <1>5, <1>10
  <2>4. m \in {Len(g), MaxLines, c} /\ m <= Len(g) /\ m <= MaxLines /\ m <= c
    BY <2>1, <2>3, Least3
  <2>5. m \in Nat
    BY <2>2, <2>4, <1>5, <1>10
  <2> QED BY <2>2, <2>3, <2>4, <2>5, <1>n
<1>13. /\ lines' = SubSeq(got, 1, n) /\ live' = kept \cup ToSet(SubSeq(got, 1, n))
       /\ text' = [b \in Blocks |-> IF \E i \in 1 .. n : got[i] = b
                                    THEN g[CHOOSE i \in 1 .. n : got[i] = b]
                                    ELSE IF b \in kept THEN text[b] ELSE 0]
       /\ current' = 0 /\ filename' = f /\ modified' = FALSE /\ copy' = f
       /\ excuse' = (IF Size(disk[f]) > BufSize - 1 THEN {"cut"} ELSE {})
                    \cup (IF n < Len(g) THEN {"nomem"} ELSE {})
  BY <1>n, <1>4, <1>6, <1>9, Zenon DEF Load
<1>14. lines' \in Seq(Blocks \ kept) /\ Len(lines') = n /\ \A i \in 1 .. n : lines'[i] = got[i]
  <2>1. got \in Seq(Blocks \ kept) /\ Len(got) = c
    BY <1>10
  <2>2. n \in 0 .. Len(got)
    BY <1>10, <1>12, <2>1
  <2>3. lines' = SubSeq(got, 1, n)
    BY <1>13
  <2> QED BY <2>1, <2>2, <2>3, Beginning
<1>15. DOMAIN lines' = 1 .. n /\ \A i \in 1 .. n : i \in 1 .. c /\ got[i] \in Blocks \ kept
  BY <1>10, <1>12, <1>14
<1>16. NULL \notin ToSet(lines')
  BY <1>14, <1>15, EdAssumption DEF ToSet
<1>17. \A i \in 1 .. n : text'[got[i]] = g[i]
  <2> SUFFICES ASSUME NEW i \in 1 .. n PROVE text'[got[i]] = g[i]
    OBVIOUS
  <2>1. got[i] \in Blocks
    BY <1>15
  <2>2. PICK b : b = got[i]
    OBVIOUS
  <2>3. PICK k : k = CHOOSE j \in 1 .. n : got[j] = b
    OBVIOUS
  <2>4. k \in 1 .. n /\ got[k] = b
    BY <2>2, <2>3
  <2>5. k = i
    BY <1>10, <1>15, <2>2, <2>4
  <2>6. text'[b] = g[k]
    BY <1>13, <2>1, <2>2, <2>3
  <2> QED BY <2>2, <2>5, <2>6
<1>18. NoAlias'
  <2>1. ToSet(lines') \subseteq live'
    BY <1>13
  <2>2. \A i, j \in DOMAIN lines' : lines'[i] = lines'[j] => i = j
    BY <1>10, <1>14, <1>15
  <2> QED BY <2>1, <2>2 DEF NoAlias
<1>19. text' \in [Blocks -> Texts]
  <2> SUFFICES ASSUME NEW b \in Blocks PROVE text'[b] \in Texts
    BY <1>13
  <2>1. CASE \E i \in 1 .. n : got[i] = b
    <3>1. PICK i \in 1 .. n : got[i] = b
      BY <2>1
    <3>2. text'[b] = g[i] /\ i \in 1 .. Len(g)
      BY <3>1, <1>5, <1>12, <1>17
    <3> QED BY <3>2, <1>5
  <2>2. CASE ~\E i \in 1 .. n : got[i] = b
    <3>1. text'[b] = IF b \in kept THEN text[b] ELSE 0
      BY <1>13, <2>2
    <3> QED BY <3>1, <1>0, EdAssumption DEF TypeOK, Texts
  <2> QED BY <2>1, <2>2
<1>20. TypeOK'
  <2>1. lines' \in Seq(Blocks \cup {NULL})
    BY <1>14, SeqMonotonic
  <2>2. live' \subseteq Blocks
    <3>1. ToSet(lines') \subseteq Blocks
      BY <1>14, <1>15 DEF ToSet
    <3> QED BY <3>1, <1>0, <1>6, <1>13 DEF TypeOK
  <2>3. current' \in Addresses /\ line_count' <= MaxLines
    BY <1>12, <1>13, <1>14 DEF Addresses, line_count
  <2>4. filename' \in Files /\ copy' \in Files /\ modified' \in BOOLEAN
    BY <1>2, <1>13
  <2> QED BY <1>0, <1>2, <1>19, <2>1, <2>2, <2>3, <2>4 DEF TypeOK
<1>21. WildOnlyWithoutMemory' /\ DiskOK' /\ AfterOK'
  BY <1>0, <1>2, <1>16 DEF WildOnlyWithoutMemory, DiskOK, AfterOK
<1>22. Saved'
  <2> SUFFICES ASSUME excuse' = {} PROVE disk'[copy'] \in Seq(Texts) /\ Text' \in Reread(disk'[copy'])
    BY DEF Saved
  <2>1. Size(disk[f]) <= BufSize - 1 /\ ~(n < Len(g))
    BY <1>5, <1>13
  <2>2. n = Len(g)
    BY <2>1, <1>5, <1>12
  <2>3. Text' = g
    <3>1. Text' = [i \in 1 .. n |-> text'[lines'[i]]]
      BY <1>15 DEF Text, TextOf
    <3>2. PICK tx : tx = Text'
      OBVIOUS
    <3>3. tx = [i \in 1 .. n |-> g[i]]
      <4>1. \A i \in 1 .. n : text'[lines'[i]] = g[i]
        BY <1>14, <1>17
      <4> QED BY <3>1, <3>2, <4>1
    <3>4. g = [i \in 1 .. n |-> g[i]]
      BY <1>5, <2>2
    <3> QED BY <3>2, <3>3, <3>4
  <2>4. disk'[copy'] = disk[f]
    BY <1>2, <1>13
  <2> QED BY <1>3, <1>5, <2>1, <2>3, <2>4
<1> QED BY <1>18, <1>20, <1>21, <1>22 DEF EdInd

LEMMA InitSound ==
  ASSUME Init
  PROVE  EdInd
<1> USE DEF Init
<1>0. lines = <<>> /\ Len(lines) = 0 /\ DOMAIN lines = {} /\ ToSet(lines) = {} /\ lines \in Seq(Blocks \cup {NULL})
  BY DEF ToSet
<1>1. TypeOK
  <2>1. text \in [Blocks -> Texts] /\ live \subseteq Blocks
    BY EdAssumption DEF Texts
  <2>2. current \in Addresses /\ line_count <= MaxLines /\ after \in 0 .. MaxLines
    BY <1>0, EdAssumption DEF Addresses, line_count
  <2> QED BY <1>0, <2>1, <2>2 DEF TypeOK
<1>2. NoAlias /\ WildOnlyWithoutMemory
  BY <1>0 DEF NoAlias, WildOnlyWithoutMemory
<1>3. DiskOK
  BY EdAssumption DEF DiskOK
<1>4. AfterOK /\ Saved
  BY DEF AfterOK, Saved
<1> QED BY <1>1, <1>2, <1>3, <1>4 DEF EdInd

LEMMA InsertPointSound ==
  ASSUME EdInd, NEW a \in InsertPoints, Insert(a)
  PROVE  EdInd' /\ InOrder
<1>0. TypeOK
  BY DEF EdInd
<1>1. Len(lines) \in Nat /\ Len(lines) <= MaxLines /\ MaxLines \in Nat
  BY <1>0, LinesAre
<1>2. a \in Int
  BY <1>0, <1>1 DEF InsertPoints, Addresses, TypeOK, line_count
<1>3. PICK m : m = Min({a, line_count})
  OBVIOUS
<1>4. m \in Int /\ m <= Len(lines)
  <2>1. m = IF a <= Len(lines) THEN a ELSE Len(lines)
    BY <1>1, <1>2, <1>3, Least2 DEF line_count
  <2>2. Len(lines) \in Int
    BY <1>1
  <2>3. CASE a <= Len(lines)
    BY <1>2, <2>1, <2>2, <2>3
  <2>4. CASE ~(a <= Len(lines))
    BY <2>1, <2>2, <2>4
  <2> QED BY <2>3, <2>4
<1>5. after' = IF 0 >= m THEN 0 ELSE m
  <2>1. after' = Max({0, m})
    BY <1>3 DEF Insert
  <2>2. 0 \in Int /\ m \in Int
    BY <1>4
  <2>3. Max({0, m}) = IF 0 >= m THEN 0 ELSE m
    BY <2>2, Greatest2
  <2> QED BY <2>1, <2>3
<1>6. after' \in 0 .. MaxLines /\ after' <= line_count
  BY <1>1, <1>4, <1>5 DEF line_count
<1> QED BY <1>0, <1>6, Quiet DEF Insert, TypeOK, EdInd

LEMMA PrintSound ==
  ASSUME EdInd, NEW r \in Listed, PrintLines(r[1], r[2])
  PROVE  EdInd' /\ InOrder
<1>0. TypeOK
  BY DEF EdInd
<1>1. Len(lines) \in Nat /\ Len(lines) <= MaxLines /\ MaxLines \in Nat
  BY <1>0, LinesAre
<1>2. r[2] = line_count \/ r[2] \in 1 .. line_count
  BY DEF Listed
<1>3. r[2] \in Addresses
  BY <1>1, <1>2 DEF Addresses, line_count
<1> QED BY <1>0, <1>3, Quiet DEF PrintLines, TypeOK, EdInd

(* A step of ed, e apart.                                                  *)
LEMMA StepSound ==
  ASSUME EdInd, Next, ~\E f \in Files \cup {NoName} : Edit(f)
  PROVE  EdInd' /\ InOrder
<1>0. TypeOK
  BY DEF EdInd
<1>1. ASSUME NEW f \in Files \cup {NoName}, Write(f) PROVE EdInd' /\ InOrder
  BY <1>1, WriteSound
<1>2. ASSUME NEW f \in Files \cup {NoName}, WriteFails(f) PROVE EdInd' /\ InOrder
  BY <1>2, WriteFailsSound
<1>3. ASSUME NEW f \in Files, SetFile(f) PROVE EdInd' /\ InOrder
  BY <1>0, <1>3, Quiet DEF SetFile, TypeOK, EdInd
<1>4. ASSUME NEW r \in Listed, PrintLines(r[1], r[2]) PROVE EdInd' /\ InOrder
  BY <1>4, PrintSound
<1>5. ASSUME NEW a \in InsertPoints, Insert(a) PROVE EdInd' /\ InOrder
  BY <1>5, InsertPointSound
<1>6. ASSUME NEW t \in Texts, InsertLine(t) PROVE EdInd' /\ InOrder
  BY <1>6, InsertionSound, NoMemSound DEF InsertLine
<1>7. ASSUME InsertEnd PROVE EdInd' /\ InOrder
  <2>1. after' \in 0 .. MaxLines
    BY <1>7, EdAssumption DEF InsertEnd
  <2> QED BY <1>0, <1>7, <2>1, Quiet DEF InsertEnd, TypeOK, EdInd
<1>8. ASSUME NEW r \in Deleted, Delete(r[1], r[2]) PROVE EdInd' /\ InOrder
  <2>1. Len(lines) \in Nat /\ MaxLines \in Nat
    BY <1>0, LinesAre
  <2>2. r[1] \in Int /\ r[2] \in Int
    BY <2>1 DEF Deleted, Addresses, line_count
  <2> QED BY <1>8, <2>2, DeleteSound
<1>9. ASSUME NEW g \in Given, NEW a, NEW hit, NEW mem, Substitute(g, a, hit, mem) PROVE EdInd' /\ InOrder
  BY <1>9, SubstituteSound
<1>10. ASSUME Quit \/ QuitAnyway PROVE EdInd' /\ InOrder
  BY <1>10, LeaveSound DEF Quit, QuitAnyway
<1> QED BY <1>1, <1>2, <1>3, <1>4, <1>5, <1>6, <1>7, <1>8, <1>9, <1>10 DEF Next

LEMMA EdIndSteps ==
  ASSUME EdInd, [Next]_vars
  PROVE  EdInd' /\ [~(\E f \in Files \cup {NoName} : Edit(f)) => InOrder]_vars
<1>1. CASE UNCHANGED vars
  <2>1. EdInd'
    BY <1>1 DEF vars, heap, EdInd, TypeOK, NoAlias, WildOnlyWithoutMemory, DiskOK, AfterOK,
               Saved, Text, line_count
  <2> QED BY <1>1, <2>1
<1>2. CASE Next
  <2>1. CASE \E f \in Files \cup {NoName} : Edit(f)
    BY <2>1, EditSound
  <2>2. CASE ~\E f \in Files \cup {NoName} : Edit(f)
    BY <1>2, <2>2, StepSound
  <2> QED BY <2>1, <2>2
<1> QED BY <1>1, <1>2

(* The inductive invariant of ed.c: LinesInv, NothingToLose while lines    *)
(* are typed as well, and that do_insert's after lies within the table.    *)
THEOREM EdInvariant == Spec => []EdInd
<1>1. Init => EdInd
  BY InitSound
<1>2. EdInd /\ [Next]_vars => EdInd'
  BY EdIndSteps
<1> QED BY <1>1, <1>2, PTL DEF Spec

(* The table of lines of ed.c never outgrows MAX_LINES, no two lines share *)
(* a block and none lies in a freed one, and NULL is read as a line only   *)
(* after malloc has failed, for every table, buffer and heap.              *)
THEOREM LinesSound == Spec => []LinesInv
<1>1. EdInd => LinesInv
  BY DEF EdInd, LinesInv
<1> QED BY <1>1, EdInvariant, PTL

(* What q throws away without a warning is in the file last loaded or      *)
(* saved, through read and save buffers of every size: load_file reads     *)
(* what save_file has written, up to an empty last line of a file that     *)
(* just fills the buffer.                                                  *)
THEOREM QuitLosesNothing == Spec => []NothingToLose
<1>1. EdInd => NothingToLose
  BY DEF EdInd, Saved, NothingToLose
<1> QED BY <1>1, EdInvariant, PTL

(* No command of ed.c but e changes the order of the lines that stay.      *)
THEOREM LinesStayInOrder == Spec => OrderKept
<1>1. EdInd /\ [Next]_vars => [~(\E f \in Files \cup {NoName} : Edit(f)) => InOrder]_vars
  BY EdIndSteps
<1>2. Spec => [][~(\E f \in Files \cup {NoName} : Edit(f)) => InOrder]_vars
  BY <1>1, EdInvariant, PTL DEF Spec
<1> QED BY <1>2 DEF OrderKept, InOrder
=============================================================================
