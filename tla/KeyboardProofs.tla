---------------------------- MODULE KeyboardProofs ----------------------------
(***************************************************************************)
(* For every BUF_SIZE, keyboard and serial input: the ring of keyboard.c,  *)
(* with its interrupt handler between any two steps of keyboard_read,      *)
(* implements a first-in first-out queue, and the decoder of the handler   *)
(* loses keystrokes in two places only.                                    *)
(***************************************************************************)
EXTENDS Keyboard, SequenceTheorems, TLAPS

(* The inductive invariant.  A reader that has seen head # tail can rely   *)
(* on it, since the handler never fills the ring up; the character it has  *)
(* fetched is still the one at tail.                                       *)
KeyInv ==
  /\ buf \in [Index -> Chars] /\ head \in Index /\ tail \in Index
  /\ esc \in {"normal", "seen", "csi", "digit"} /\ param \in Digits
  /\ fifo \in Seq(SerialIn) /\ c \in Chars
  /\ pc \in {"test", "poll", "hlt", "asleep", "get", "advance", "out"}
  /\ pc \in {"get", "advance"} => head # tail
  /\ pc = "advance" => c = buf[tail]

-----------------------------------------------------------------------------
(* Arithmetic of indexes.                                                  *)
LEMMA ModAdd ==
  ASSUME NEW B \in Nat \ {0}, NEW x \in 0 .. B - 1, NEW n \in 0 .. B
  PROVE  (x + n) % B = IF x + n < B THEN x + n ELSE x + n - B
OBVIOUS

LEMMA ModSub ==
  ASSUME NEW B \in Nat \ {0}, NEW x \in 0 .. B - 1, NEW y \in 0 .. B - 1
  PROVE  (x - y) % B = IF y <= x THEN x - y ELSE x - y + B
OBVIOUS

(* Used, the contents and the room, without the modulus.                   *)
LEMMA UsedIs ==
  ASSUME KeyInv
  PROVE  /\ Used = IF tail <= head THEN head - tail ELSE head - tail + BufSize
         /\ Used \in 0 .. BufSize - 1 /\ Room \in 0 .. BufSize - 1
         /\ Contents \in Seq(Chars) /\ Len(Contents) = Used
         /\ \A k \in 1 .. Used :
              Contents[k] = buf[IF tail + k - 1 < BufSize THEN tail + k - 1
                                ELSE tail + k - 1 - BufSize]
<1>1. BufSize \in Nat \ {0} /\ head \in 0 .. BufSize - 1 /\ tail \in 0 .. BufSize - 1
  BY KeyAssumption DEF KeyInv, Index
<1>2. Used = IF tail <= head THEN head - tail ELSE head - tail + BufSize
  BY <1>1, ModSub DEF Used
<1>3. Used \in 0 .. BufSize - 1 /\ Room \in 0 .. BufSize - 1
  BY <1>1, <1>2 DEF Room
<1>4. ASSUME NEW k \in 1 .. Used
      PROVE  /\ (tail + k - 1) % BufSize = IF tail + k - 1 < BufSize THEN tail + k - 1
                                           ELSE tail + k - 1 - BufSize
             /\ (tail + k - 1) % BufSize \in Index
  <2>1. k - 1 \in 0 .. BufSize /\ tail + k - 1 = tail + (k - 1)
    BY <1>1, <1>3
  <2>2. (tail + (k - 1)) % BufSize = IF tail + (k - 1) < BufSize THEN tail + (k - 1)
                                     ELSE tail + (k - 1) - BufSize
    BY <1>1, <2>1, ModAdd
  <2> QED BY <1>1, <1>3, <2>1, <2>2 DEF Index
<1>5. \A k \in 1 .. Used : buf[(tail + k - 1) % BufSize] \in Chars
  BY <1>4 DEF KeyInv
<1>6. Contents \in [1 .. Used -> Chars]
  BY <1>5 DEF Contents
<1>7. Contents \in Seq(Chars) /\ Len(Contents) = Used
  BY <1>3, <1>6
<1>8. \A k \in 1 .. Used : Contents[k] = buf[(tail + k - 1) % BufSize]
  BY DEF Contents
<1> QED BY <1>2, <1>3, <1>4, <1>7, <1>8

(* buffer_char, for a string of characters: those that fit are appended.   *)
Fits(s) == IF Len(s) < Room THEN Len(s) ELSE Room
LEMMA BufferAppends ==
  ASSUME KeyInv, NEW s \in Seq(Chars), Buffer(s)
  PROVE  /\ buf' \in [Index -> Chars] /\ head' \in Index
         /\ Fits(s) \in 0 .. Len(s) /\ Fits(s) <= Room
         /\ Used' = Used + Fits(s)
         /\ head # tail => head' # tail /\ buf'[tail] = buf[tail]
         /\ Contents' \in Seq(Chars) /\ Len(Contents') = Used'
         /\ \A k \in 1 .. Used : Contents'[k] = Contents[k]
         /\ \A k \in 1 .. Fits(s) : Contents'[Used + k] = s[k]
<1> DEFINE n == Fits(s)
           offset(i) == (i - head) % BufSize
<1>1. BufSize \in Nat \ {0} /\ head \in 0 .. BufSize - 1 /\ tail \in 0 .. BufSize - 1
  BY KeyAssumption DEF KeyInv, Index
<1>2. /\ Used = IF tail <= head THEN head - tail ELSE head - tail + BufSize
      /\ Used \in 0 .. BufSize - 1 /\ Room \in 0 .. BufSize - 1 /\ Room = BufSize - 1 - Used
  BY UsedIs DEF Room
<1>3. n \in 0 .. Len(s) /\ n <= Room /\ n \in Nat
  BY <1>2 DEF Fits
<1>4. \A i \in Index : offset(i) = IF head <= i THEN i - head ELSE i - head + BufSize
  BY <1>1, ModSub DEF Index
<1>5. /\ buf' = [i \in Index |-> IF offset(i) < n THEN s[offset(i) + 1] ELSE buf[i]]
      /\ head' = (head + n) % BufSize /\ tail' = tail
  BY DEF Buffer, Fits
<1>6. head' = IF head + n < BufSize THEN head + n ELSE head + n - BufSize
  <2>1. n \in 0 .. BufSize
    BY <1>1, <1>2, <1>3
  <2> HIDE DEF n
  <2> QED BY <1>1, <1>5, <2>1, ModAdd
<1> HIDE DEF n
<1>7. \A i \in Index : offset(i) < n => offset(i) + 1 \in 1 .. Len(s) /\ s[offset(i) + 1] \in Chars
  BY <1>1, <1>3, <1>4 DEF Index
<1>8. buf' \in [Index -> Chars] /\ head' \in Index
  <2>1. head' \in Index
    BY <1>1, <1>2, <1>3, <1>6 DEF Index
  <2> HIDE DEF offset
  <2> QED BY <1>5, <1>7, <2>1 DEF KeyInv
<1>9. Used' = (head' - tail') % BufSize
  BY DEF Used
<1>10. Used' = Used + n
  <2>1. head' \in 0 .. BufSize - 1 /\ tail' \in 0 .. BufSize - 1
    BY <1>1, <1>5, <1>8 DEF Index
  <2>2. Used' = IF tail' <= head' THEN head' - tail' ELSE head' - tail' + BufSize
    BY <1>1, <1>9, <2>1, ModSub
  <2> QED BY <1>1, <1>2, <1>3, <1>5, <1>6, <2>1, <2>2
<1>11. \A k \in 1 .. Used' :
         (tail + k - 1) % BufSize = IF tail + k - 1 < BufSize THEN tail + k - 1
                                    ELSE tail + k - 1 - BufSize
  <2> SUFFICES ASSUME NEW k \in 1 .. Used'
               PROVE  (tail + k - 1) % BufSize = IF tail + k - 1 < BufSize THEN tail + k - 1
                                                 ELSE tail + k - 1 - BufSize
    OBVIOUS
  <2>1. k - 1 \in 0 .. BufSize /\ tail + k - 1 = tail + (k - 1)
    BY <1>1, <1>2, <1>3, <1>10
  <2>2. (tail + (k - 1)) % BufSize = IF tail + (k - 1) < BufSize THEN tail + (k - 1)
                                     ELSE tail + (k - 1) - BufSize
    BY <1>1, <2>1, ModAdd
  <2> QED BY <1>1, <2>1, <2>2
<1> DEFINE slot(k) == IF tail + k - 1 < BufSize THEN tail + k - 1 ELSE tail + k - 1 - BufSize
<1>12. \A k \in 1 .. Used' : Contents'[k] = buf'[slot(k)]
  BY <1>5, <1>11 DEF Contents
<1>13. \A k \in 1 .. Used' : slot(k) \in Index
  BY <1>1, <1>2, <1>3, <1>10 DEF Index
<1>14. Contents' \in Seq(Chars) /\ Len(Contents') = Used'
  <2>1. Contents' = [k \in 1 .. Used' |-> buf'[(tail + k - 1) % BufSize]]
    BY <1>5 DEF Contents
  <2>2. \A k \in 1 .. Used' : buf'[(tail + k - 1) % BufSize] \in Chars
    BY <1>8, <1>11, <1>13
  <2>3. Contents' \in [1 .. Used' -> Chars] /\ Used' \in Nat
    BY <1>2, <1>3, <1>10, <2>1, <2>2
  <2> QED BY <2>3
<1>15. ASSUME NEW k \in 1 .. Used PROVE Contents'[k] = Contents[k]
  <2>1. k \in 1 .. Used' /\ ~(offset(slot(k)) < n)
    BY <1>1, <1>2, <1>3, <1>4, <1>10, <1>13 DEF Index
  <2>2. buf'[slot(k)] = buf[slot(k)]
    <3> HIDE DEF offset, slot
    <3> QED BY <1>5, <1>13, <2>1
  <2> QED BY <1>12, <2>1, <2>2, UsedIs
<1>16. ASSUME NEW k \in 1 .. n PROVE Contents'[Used + k] = s[k]
  <2>1. Used + k \in 1 .. Used' /\ offset(slot(Used + k)) = k - 1
    BY <1>1, <1>2, <1>3, <1>4, <1>10, <1>13 DEF Index
  <2>2. k - 1 < n /\ (k - 1) + 1 = k
    BY <1>3
  <2>3. buf'[slot(Used + k)] = s[k]
    <3> HIDE DEF offset, slot
    <3> QED BY <1>5, <1>13, <2>1, <2>2
  <2> QED BY <1>12, <2>1, <2>3
<1>17. head # tail => head' # tail /\ buf'[tail] = buf[tail]
  <2> SUFFICES ASSUME head # tail PROVE head' # tail /\ buf'[tail] = buf[tail]
    OBVIOUS
  <2>1. head' # tail /\ tail \in Index /\ ~(offset(tail) < n)
    BY <1>1, <1>2, <1>3, <1>4, <1>6 DEF Index
  <2>2. buf'[tail] = buf[tail]
    <3> HIDE DEF offset
    <3> QED BY <1>5, <2>1
  <2> QED BY <2>1, <2>2
<1> QED BY <1>3, <1>8, <1>10, <1>14, <1>15, <1>16, <1>17 DEF n

-----------------------------------------------------------------------------
(* What the decoder puts into the ring are characters.                     *)
LEMMA CharOfIsChar == ASSUME NEW k \in Keys PROVE CharOf(k) \in Chars
<1>1. \E r \in KeyRows : r[1] = k
  BY KeyAssumption DEF AllKeys
<1>2. PICK r \in KeyRows : r = CHOOSE x \in KeyRows : x[1] = k
  BY <1>1
<1>3. r[2] \in Chars /\ r[3] \in Chars
  BY <1>2 DEF Chars
<1> QED BY <1>2, <1>3 DEF CharOf

LEMMA SomeChars == "ESC" \in Chars /\ "[" \in Chars /\ Digits \subseteq Chars /\ NoChar \in Chars
<1>1. /\ <<"[", "[", "{">> \in KeyRows /\ <<"1", "1", "!">> \in KeyRows
      /\ <<"3", "3", "#">> \in KeyRows /\ <<"4", "4", "$">> \in KeyRows
      /\ <<"7", "7", "&">> \in KeyRows /\ <<"Esc", "NUL", "NUL">> \in KeyRows
  BY DEF KeyRows
<1>2. \A r \in KeyRows : r[2] \in Chars
  BY DEF Chars
<1>3. /\ <<"[", "[", "{">>[2] = "[" /\ <<"1", "1", "!">>[2] = "1"
      /\ <<"3", "3", "#">>[2] = "3" /\ <<"4", "4", "$">>[2] = "4"
      /\ <<"7", "7", "&">>[2] = "7" /\ <<"Esc", "NUL", "NUL">>[2] = "NUL"
  OBVIOUS
<1>4. "[" \in Chars /\ "1" \in Chars /\ "3" \in Chars /\ "4" \in Chars /\ "7" \in Chars
      /\ "NUL" \in Chars
  BY <1>1, <1>2, <1>3
<1>5. "ESC" \in Chars
  BY DEF Chars
<1> QED BY <1>4, <1>5 DEF Digits, NoChar

LEMMA SpecialIsChar ==
  ASSUME NEW x, NEW s,
         s \in Special(E0Key, x) \/ s \in Special(CsiKey, x) \/ s \in Special(TildeKey, x)
  PROVE  s \in Chars
BY DEF Special, Chars

LEMMA FlushedAreChars ==
  ASSUME KeyInv, NEW k \in Keys PROVE HeldBack \o Literal(CharOf(k)) \in Seq(Chars)
<1>1. HeldBack \in Seq(Chars)
  <2>1. "ESC" \in Chars /\ "[" \in Chars /\ param \in Chars
    BY SomeChars DEF KeyInv
  <2>2. /\ <<>> \in Seq(Chars) /\ <<"ESC">> \in Seq(Chars) /\ <<"ESC", "[">> \in Seq(Chars)
        /\ <<"ESC", "[", param>> \in Seq(Chars)
    BY <2>1
  <2>3. HeldBack \in {<<>>, <<"ESC">>, <<"ESC", "[">>, <<"ESC", "[", param>>}
    BY DEF HeldBack, KeyInv
  <2> QED BY <2>2, <2>3
<1>2. Literal(CharOf(k)) \in Seq(Chars)
  BY CharOfIsChar DEF Literal
<1> QED BY <1>1, <1>2

(* What a step of the handler does to the ring: nothing, or buffer_char.   *)
LEMMA PressBuffers ==
  ASSUME KeyInv, NEW k \in Keys, Press(k)
  PROVE  UNCHANGED ring \/ \E s \in Seq(Chars) : Buffer(s)
<1>1. ASSUME NEW s \in Chars PROVE <<s>> \in Seq(Chars)
  OBVIOUS
<1>2. ASSUME NEW s \in Special(E0Key, k) PROVE s \in Chars
  BY SpecialIsChar
<1>3. ASSUME NEW s \in Completes(k) PROVE s \in Chars
  <2>1. s \in Special(CsiKey, CharOf(k)) \/ s \in Special(TildeKey, param)
    BY <1>3 DEF Completes
  <2> QED BY <2>1, SpecialIsChar
<1> QED BY <1>1, <1>2, <1>3, FlushedAreChars DEF Press, Flush

-----------------------------------------------------------------------------
LEMMA InitKey == Init => KeyInv
<1> SUFFICES ASSUME Init PROVE KeyInv
  OBVIOUS
<1>1. NoChar \in Chars /\ 0 \in Index /\ "1" \in Digits
  BY SomeChars, KeyAssumption DEF Index, Digits
<1> QED BY <1>1 DEF Init, KeyInv

LEMMA PressKey == ASSUME KeyInv, NEW k \in Keys, Press(k) PROVE KeyInv'
<1>1. UNCHANGED <<tail, fifo, c>>
  BY DEF Press, Flush, Buffer, ring
<1>2. esc' \in {"normal", "seen", "csi", "digit"} /\ param' \in Digits
  <2>1. CASE Continues(k) /\ esc' = Successor[esc]
              /\ param' = IF esc = "csi" THEN CharOf(k) ELSE param
    <3>1. esc = "csi" => CharOf(k) \in Digits
      BY <2>1 DEF Continues
    <3>2. esc \in {"normal", "seen", "csi"}
      BY <2>1 DEF Continues
    <3>3. Successor[esc] \in {"seen", "csi", "digit"}
      BY <3>2 DEF Successor
    <3> QED BY <2>1, <3>1, <3>3 DEF KeyInv
  <2>2. CASE (esc' = "normal" \/ esc' = esc) /\ param' = param
    BY <2>2 DEF KeyInv
  <2> QED BY <2>1, <2>2 DEF Press
<1>3. pc' = pc \/ (pc = "asleep" /\ pc' = "test")
  BY DEF Press, Wake
<1>4. /\ buf' \in [Index -> Chars] /\ head' \in Index
      /\ head # tail => head' # tail /\ buf'[tail] = buf[tail]
  <2>1. CASE UNCHANGED ring
    BY <2>1 DEF ring, KeyInv
  <2>2. ASSUME NEW s \in Seq(Chars), Buffer(s)
        PROVE  /\ buf' \in [Index -> Chars] /\ head' \in Index
               /\ head # tail => head' # tail /\ buf'[tail] = buf[tail]
    BY <2>2, BufferAppends
  <2> QED BY <2>1, <2>2, PressBuffers
<1> QED BY <1>1, <1>2, <1>3, <1>4 DEF KeyInv

(* A step of the handler that leaves the ring alone.                       *)
LEMMA QuietKey ==
  ASSUME KeyInv, UNCHANGED <<ring, esc, param, fifo, c>>, Wake \/ UNCHANGED pc
  PROVE  KeyInv'
BY DEF KeyInv, ring, Wake

LEMMA ReadKey == ASSUME KeyInv, Read PROVE KeyInv'
<1> USE DEF At, ring, decoder
<1>1. CASE ReadCall
  BY <1>1 DEF ReadCall, KeyInv
<1>2. CASE Test
  BY <1>2 DEF Test, KeyInv
<1>3. CASE PollSerial
  <2>1. CASE fifo = <<>>
    BY <1>3, <2>1 DEF PollSerial, KeyInv
  <2>2. CASE fifo # <<>>
    <3>1. Head(fifo) \in SerialIn /\ Tail(fifo) \in Seq(SerialIn)
      BY <2>2 DEF KeyInv
    <3>2. FromSerial(Head(fifo)) \in Chars
      BY <3>1 DEF Chars
    <3> QED BY <1>3, <2>2, <3>1, <3>2 DEF PollSerial, KeyInv
  <2> QED BY <2>1, <2>2
<1>4. CASE Hlt
  BY <1>4 DEF Hlt, KeyInv
<1>5. CASE GetChar
  <2>1. buf[tail] \in Chars
    BY DEF KeyInv
  <2> QED BY <1>5, <2>1 DEF GetChar, KeyInv
<1>6. CASE Advance
  <2>1. tail' \in Index
    <3>1. BufSize \in Nat \ {0} /\ tail \in 0 .. BufSize - 1 /\ 1 \in 0 .. BufSize
      BY KeyAssumption DEF KeyInv, Index
    <3> QED BY <1>6, <3>1, ModAdd DEF Advance, Index
  <2> QED BY <1>6, <2>1 DEF Advance, KeyInv
<1> QED BY <1>1, <1>2, <1>3, <1>4, <1>5, <1>6 DEF Read

LEMMA SerialKey == ASSUME KeyInv, SerialByte PROVE KeyInv'
<1>1. fifo' \in Seq(SerialIn)
  BY DEF KeyInv, SerialByte
<1> QED BY <1>1 DEF KeyInv, SerialByte, ring, decoder, reader

LEMMA NextKey == KeyInv /\ [Next]_vars => KeyInv'
<1> SUFFICES ASSUME KeyInv, [Next]_vars PROVE KeyInv'
  OBVIOUS
<1>1. ASSUME NEW k \in Keys, Press(k) PROVE KeyInv'
  BY <1>1, PressKey
<1>2. CASE (\E m \in Modifiers, down \in BOOLEAN : Modifier(m, down)) \/ Release \/ PrefixE0 \/ Tick
  BY <1>2, QuietKey DEF Modifier, Release, PrefixE0, Tick, decoder
<1>3. CASE Read
  BY <1>3, ReadKey
<1>4. CASE SerialByte
  BY <1>4, SerialKey
<1>5. CASE UNCHANGED vars
  BY <1>5, QuietKey DEF vars, decoder, reader
<1> QED BY <1>1, <1>2, <1>3, <1>4, <1>5 DEF Next, Irq1

LEMMA KeyInvHolds == Spec => []KeyInv
BY InitKey, NextKey, PTL DEF Spec

-----------------------------------------------------------------------------
(* The refinement: each step of the driver is a step of the queue or none. *)
Result == IF pc = "out" THEN c ELSE Waiting

LEMMA QueueInit == Init => Queue!QInit
<1> SUFFICES ASSUME Init PROVE Queue!QInit
  OBVIOUS
<1>1. Used = 0 /\ Contents \in Seq(Chars) /\ Len(Contents) = Used
  BY InitKey, UsedIs DEF Init
<1> QED BY <1>1 DEF Init, Queue!QInit

(* buffer_char is the Put of the queue, or finds the ring full.            *)
LEMMA BufferPuts ==
  ASSUME KeyInv, NEW s \in Seq(Chars), Buffer(s), Result' = Result
  PROVE  Queue!Put \/ UNCHANGED <<Contents, Result>>
<1>1. /\ Fits(s) \in 0 .. Len(s) /\ Fits(s) <= Room
      /\ Used' = Used + Fits(s) /\ Contents' \in Seq(Chars) /\ Len(Contents') = Used'
      /\ \A k \in 1 .. Used : Contents'[k] = Contents[k]
  BY BufferAppends
<1>2. /\ Used \in 0 .. BufSize - 1 /\ Room = BufSize - 1 - Used
      /\ Contents \in Seq(Chars) /\ Len(Contents) = Used /\ BufSize \in Nat
  BY UsedIs, KeyAssumption DEF Room
<1>3. CASE Fits(s) = 0
  <2>1. Used' = Used
    BY <1>1, <1>2, <1>3
  <2>2. Contents' = Contents
    BY <1>1, <1>2, <2>1
  <2> QED BY <2>2
<1>4. CASE Fits(s) # 0
  <2>1. Len(Contents') \in Len(Contents) + 1 .. BufSize - 1
    BY <1>1, <1>2, <1>4
  <2>2. SubSeq(Contents', 1, Len(Contents)) = Contents
    BY <1>1, <1>2
  <2> QED BY <1>1, <2>1, <2>2 DEF Queue!Put, Result
<1> QED BY <1>3, <1>4

(* keyboard_read takes the oldest character out when it advances tail.     *)
LEMMA AdvanceGets == ASSUME KeyInv, Advance PROVE Queue!Get
<1>1. /\ BufSize \in Nat \ {0} /\ BufSize >= 2 /\ head \in 0 .. BufSize - 1
      /\ tail \in 0 .. BufSize - 1 /\ head # tail /\ c = buf[tail]
      /\ tail' = (tail + 1) % BufSize /\ UNCHANGED <<buf, head, c>>
      /\ pc = "advance" /\ pc' = "out"
  BY KeyAssumption DEF KeyInv, Advance, At, Index
<1>2. tail' = IF tail + 1 < BufSize THEN tail + 1 ELSE tail + 1 - BufSize
  <2>1. 1 \in 0 .. BufSize
    BY <1>1
  <2> QED BY <1>1, <2>1, ModAdd
<1>3. KeyInv'
  BY ReadKey DEF Read
<1>4. /\ Used = IF tail <= head THEN head - tail ELSE head - tail + BufSize
      /\ Contents \in Seq(Chars) /\ Len(Contents) = Used
      /\ \A k \in 1 .. Used :
           Contents[k] = buf[IF tail + k - 1 < BufSize THEN tail + k - 1
                             ELSE tail + k - 1 - BufSize]
  BY UsedIs
<1>5. Used > 0 /\ Used \in Nat /\ Contents # <<>> /\ Head(Contents) = c
  <2>1. Used > 0 /\ Used \in Nat
    BY <1>1, <1>4
  <2>2. Contents[1] = buf[tail]
    BY <1>1, <1>4, <2>1
  <2> QED BY <1>1, <1>4, <2>1, <2>2
<1>6. Used' = Used - 1
  <2>1. Used' = (head' - tail') % BufSize /\ tail' \in 0 .. BufSize - 1
    BY <1>1, <1>2 DEF Used
  <2>2. Used' = IF tail' <= head THEN head - tail' ELSE head - tail' + BufSize
    BY <1>1, <2>1, ModSub
  <2> QED BY <1>1, <1>2, <1>4, <2>2
<1>7. Contents' = Tail(Contents)
  <2>1. Contents' = [k \in 1 .. Used' |-> buf[(tail' + k - 1) % BufSize]]
    BY <1>1 DEF Contents
  <2>2. ASSUME NEW k \in 1 .. Used'
        PROVE  buf[(tail' + k - 1) % BufSize] = Contents[k + 1]
    <3>1. /\ tail' \in 0 .. BufSize - 1 /\ k - 1 \in 0 .. BufSize /\ k + 1 \in 1 .. Used
          /\ tail' + k - 1 = tail' + (k - 1)
      BY <1>1, <1>2, <1>4, <1>6
    <3>2. (tail' + k - 1) % BufSize
            = IF tail' + k - 1 < BufSize THEN tail' + k - 1 ELSE tail' + k - 1 - BufSize
      BY <1>1, <3>1, ModAdd
    <3>3. (tail' + k - 1) % BufSize
            = IF tail + (k + 1) - 1 < BufSize THEN tail + (k + 1) - 1
              ELSE tail + (k + 1) - 1 - BufSize
      BY <1>1, <1>2, <1>4, <1>6, <3>1, <3>2
    <3> QED BY <1>4, <3>1, <3>3
  <2>3. /\ Tail(Contents) \in Seq(Chars) /\ Len(Tail(Contents)) = Used - 1
        /\ \A k \in 1 .. Used - 1 : Tail(Contents)[k] = Contents[k + 1]
    BY <1>4, <1>5, HeadTailProperties
  <2>4. \A k \in 1 .. Used' : Contents'[k] = Contents[k + 1] /\ Contents[k + 1] \in Chars
    BY <1>4, <1>5, <1>6, <2>1, <2>2
  <2>5. Contents' \in Seq(Chars) /\ Len(Contents') = Used'
    BY <1>5, <1>6, <2>1, <2>4
  <2> QED BY <1>6, <2>3, <2>4, <2>5, SeqEqual
<1> QED BY <1>1, <1>5, <1>7 DEF Queue!Get, Waiting

LEMMA QueueStep == KeyInv /\ [Next]_vars => [Queue!QNext]_<<Contents, Result>>
<1> SUFFICES ASSUME KeyInv, [Next]_vars
             PROVE  Queue!QNext \/ UNCHANGED <<Contents, Result>>
  BY DEF Result
<1>1. ASSUME UNCHANGED ring PROVE Contents' = Contents
  BY <1>1 DEF ring, Contents, Used
<1>2. ASSUME Wake \/ UNCHANGED pc, UNCHANGED c PROVE Result' = Result
  BY <1>2 DEF Wake, Result
<1>3. ASSUME NEW k \in Keys, Press(k)
      PROVE  Queue!QNext \/ UNCHANGED <<Contents, Result>>
  <2>1. Result' = Result
    BY <1>2, <1>3 DEF Press
  <2> QED BY <1>1, <1>3, <2>1, PressBuffers, BufferPuts DEF Queue!QNext
<1>4. CASE (\E m \in Modifiers, down \in BOOLEAN : Modifier(m, down)) \/ Release \/ PrefixE0 \/ Tick
           \/ SerialByte \/ UNCHANGED vars
  BY <1>1, <1>2, <1>4 DEF Modifier, Release, PrefixE0, Tick, SerialByte, vars, reader
<1>5. CASE Read
  <2>1. CASE Advance
    BY <2>1, AdvanceGets DEF Queue!QNext
  <2>2. CASE ReadCall
    <3>1. Queue!Call \/ UNCHANGED <<Contents, Result>>
      BY <1>1, <2>2 DEF ReadCall, At, Queue!Call, Result
    <3> QED BY <3>1 DEF Queue!QNext
  <2>3. CASE PollSerial /\ fifo # <<>>
    <3>1. Head(fifo) \in SerialIn
      BY <2>3 DEF KeyInv
    <3>2. FromSerial(Head(fifo)) \in Chars
      BY <3>1 DEF Chars
    <3>3. Queue!Serial
      BY <1>1, <2>3, <3>2 DEF PollSerial, At, Queue!Serial, Waiting
    <3> QED BY <3>3 DEF Queue!QNext
  <2>4. CASE Test \/ Hlt \/ GetChar \/ (PollSerial /\ fifo = <<>>)
    <3>1. Result' = Waiting /\ Result = Waiting
      BY <2>4 DEF Test, Hlt, GetChar, PollSerial, At, Result
    <3> QED BY <1>1, <2>4, <3>1 DEF Test, Hlt, GetChar, PollSerial
  <2> QED BY <1>5, <2>1, <2>2, <2>3, <2>4 DEF Read
<1> QED BY <1>3, <1>4, <1>5 DEF Next, Irq1

(* For every BUF_SIZE, the ring between keyboard_handler and keyboard_read *)
(* is a first-in first-out queue of BUF_SIZE - 1 characters.               *)
THEOREM RingIsQueue == Spec => IsQueue
<1>1. KeyInv /\ [Next]_vars => [Queue!QNext]_<<Contents, IF pc = "out" THEN c ELSE Waiting>>
  BY QueueStep DEF Result
<1> QED BY <1>1, QueueInit, KeyInvHolds, PTL DEF Spec, IsQueue, Queue!QSpec

-----------------------------------------------------------------------------
(* The decoder.                                                            *)

(* buffer_char adds what fits, and nothing else.                           *)
LEMMA BufferAdds ==
  ASSUME KeyInv, NEW s \in Seq(Chars), Buffer(s) PROVE Added = Fitting(s)
<1>1. /\ Fits(s) \in 0 .. Len(s) /\ Used' = Used + Fits(s)
      /\ Contents' \in Seq(Chars) /\ Len(Contents') = Used'
      /\ \A k \in 1 .. Fits(s) : Contents'[Used + k] = s[k]
  BY BufferAppends
<1>2. Used \in Nat /\ Fits(s) \in Nat
  BY UsedIs, <1>1, KeyAssumption
<1>3. Fitting(s) = SubSeq(s, 1, Fits(s))
  BY DEF Fitting, Fits
<1>4. /\ Fitting(s) \in Seq(Chars) /\ Len(Fitting(s)) = Fits(s)
      /\ \A k \in 1 .. Fits(s) : Fitting(s)[k] = s[k]
  BY <1>1, <1>2, <1>3
<1>5. /\ Added \in Seq(Chars) /\ Len(Added) = Fits(s)
      /\ \A k \in 1 .. Fits(s) : Added[k] = Contents'[Used + k]
  BY <1>1, <1>2 DEF Added
<1> QED BY <1>1, <1>2, <1>4, <1>5, SeqEqual

LEMMA NothingAdded == ASSUME KeyInv, UNCHANGED ring PROVE Added = <<>>
<1>1. Used' = Used /\ Contents' = Contents
  BY DEF ring, Used, Contents
<1>2. Used \in Nat /\ Contents \in Seq(Chars) /\ Len(Contents) = Used
  BY UsedIs, KeyAssumption
<1> QED BY <1>1, <1>2 DEF Added

(* The maps have no character for the key Esc.                             *)
LEMMA EscHasNoChar == CharOf("Esc") = NoChar
<1>1. ASSUME NEW r \in KeyRows, r[1] = "Esc"
      PROVE  r[2] = "NUL" /\ r[3] = "NUL"
  <2>1. CASE \E k \in {"Esc", "F5", "Kp8", "Kp2", "Kp4", "Kp6", "Kp7", "Kp1", "KpDot"} :
               r = <<k, "NUL", "NUL">>
    <3>1. PICK k : r = <<k, "NUL", "NUL">>
      BY <2>1
    <3> QED BY <3>1
  <2>2. CASE r \in {<<"a", "a", "A">>, <<"b", "b", "B">>, <<"c", "c", "C">>, <<"d", "d", "D">>,
                    <<"f", "f", "F">>, <<"h", "h", "H">>, <<"x", "x", "X">>}
    BY <1>1, <2>2
  <2>3. CASE r \in {<<"[", "[", "{">>, <<"1", "1", "!">>, <<"3", "3", "#">>, <<"4", "4", "$">>,
                    <<"7", "7", "&">>, <<"tick", "tick", "~">>}
    <3>1. CASE r = <<"[", "[", "{">>
      BY <1>1, <3>1
    <3>2. CASE r = <<"1", "1", "!">>
      BY <1>1, <3>2
    <3>3. CASE r = <<"3", "3", "#">>
      BY <1>1, <3>3
    <3>4. CASE r = <<"4", "4", "$">>
      BY <1>1, <3>4
    <3>5. CASE r = <<"7", "7", "&">>
      BY <1>1, <3>5
    <3>6. CASE r = <<"tick", "tick", "~">>
      BY <1>1, <3>6
    <3> QED BY <2>3, <3>1, <3>2, <3>3, <3>4, <3>5, <3>6, Zenon
  <2>4. \/ r \in {<<"a", "a", "A">>, <<"b", "b", "B">>, <<"c", "c", "C">>, <<"d", "d", "D">>,
               <<"f", "f", "F">>, <<"h", "h", "H">>, <<"x", "x", "X">>}
        \/ r \in {<<"[", "[", "{">>, <<"1", "1", "!">>, <<"3", "3", "#">>, <<"4", "4", "$">>,
               <<"7", "7", "&">>, <<"tick", "tick", "~">>}
        \/ \E k \in {"Esc", "F5", "Kp8", "Kp2", "Kp4", "Kp6", "Kp7", "Kp1", "KpDot"} :
             r = <<k, "NUL", "NUL">>
    BY Zenon DEF KeyRows
  <2> QED BY <2>1, <2>2, <2>3, <2>4
<1>2. \E r \in KeyRows : r[1] = "Esc"
  <2>1. <<"Esc", "NUL", "NUL">> \in KeyRows /\ <<"Esc", "NUL", "NUL">>[1] = "Esc"
    BY DEF KeyRows
  <2> QED BY <2>1
<1>3. PICK r : r = CHOOSE x \in KeyRows : x[1] = "Esc"
  OBVIOUS
<1>4. r \in KeyRows /\ r[1] = "Esc"
  BY <1>2, <1>3
<1> QED BY <1>1, <1>3, <1>4 DEF CharOf, NoChar

(* A key that continues an escape sequence is held back with the rest.     *)
LEMMA ContinueHolds ==
  ASSUME KeyInv, NEW k \in Keys, Continues(k), esc' = Successor[esc],
         param' = IF esc = "csi" THEN CharOf(k) ELSE param
  PROVE  HeldBack' = HeldBack \o Typed(k)
<1>1. CASE esc = "normal" /\ k = "Esc"
  <2>1. HeldBack = <<>> /\ HeldBack' = <<"ESC">> /\ Typed(k) = <<"ESC">>
    BY <1>1 DEF HeldBack, Typed, Successor
  <2> QED BY <2>1
<1>2. CASE esc = "seen" /\ k = "["
  <2>1. HeldBack = <<"ESC">> /\ HeldBack' = <<"ESC", "[">> /\ Typed(k) = <<"[">>
    BY <1>2 DEF HeldBack, Typed, Successor
  <2> QED BY <2>1
<1>3. CASE esc = "csi" /\ CharOf(k) \in Digits
  <2>1. /\ HeldBack = <<"ESC", "[">> /\ HeldBack' = <<"ESC", "[", CharOf(k)>>
        /\ Typed(k) = <<CharOf(k)>>
    BY <1>3, EscHasNoChar DEF HeldBack, Typed, Successor, Digits, Literal, NoChar
  <2> QED BY <2>1
<1> QED BY <1>1, <1>2, <1>3 DEF Continues

(* A special key is what its characters spell.                             *)
LEMMA CompletesSpells ==
  ASSUME KeyInv, NEW k \in Keys, ~Continues(k), NEW s \in Completes(k)
  PROVE  \E p \in Spelling : p[1] = HeldBack \o Typed(k) /\ p[2] = s
<1>1. CASE esc = "csi"
  <2>1. PICK p \in CsiKey : p[1] = CharOf(k) /\ s = p[2]
    BY <1>1 DEF Completes, Special
  <2>2. CharOf(k) # NoChar
    BY <2>1 DEF CsiKey, NoChar
  <2>3. HeldBack = <<"ESC", "[">> /\ Typed(k) = <<CharOf(k)>>
    BY <1>1, <2>2, EscHasNoChar DEF HeldBack, Typed, Literal
  <2>4. HeldBack \o Typed(k) = <<"ESC", "[", p[1]>>
    <3>1. PICK w : w = <<"ESC", "[", CharOf(k)>>
      OBVIOUS
    <3>2. w = HeldBack \o Typed(k)
      BY <2>3, <3>1
    <3> QED BY <2>1, <3>1, <3>2
  <2>5. <<<<"ESC", "[", p[1]>>, p[2]>> \in Spelling
    BY DEF Spelling
  <2> QED BY <2>1, <2>4, <2>5
<1>2. CASE esc = "digit" /\ CharOf(k) = "~"
  <2>1. PICK p \in TildeKey : p[1] = param /\ s = p[2]
    BY <1>2 DEF Completes, Special
  <2>2. HeldBack = <<"ESC", "[", param>> /\ Typed(k) = <<"~">>
    BY <1>2, EscHasNoChar DEF HeldBack, Typed, Literal, NoChar
  <2>3. HeldBack \o Typed(k) = <<"ESC", "[", p[1], "~">>
    <3>1. PICK w : w = <<"ESC", "[", param, "~">>
      OBVIOUS
    <3>2. w = HeldBack \o Typed(k)
      BY <2>2, <3>1
    <3> QED BY <2>1, <3>1, <3>2
  <2>4. <<<<"ESC", "[", p[1], "~">>, p[2]>> \in Spelling
    BY DEF Spelling
  <2> QED BY <2>1, <2>3, <2>4
<1> QED BY <1>1, <1>2 DEF Completes

(* A key that is no special one, no Ctrl-C and no Esc in the middle of a   *)
(* sequence is kept.                                                       *)
LEMMA KeyKept ==
  ASSUME KeyInv, NEW k \in Keys, Press(k), ~e0, ~CtrlC(k), ~(k = "Esc" /\ HeldBack # <<>>)
  PROVE  Kept(k)
<1>1. CASE Continues(k)
  <2>1. /\ esc' = Successor[esc] /\ UNCHANGED ring
        /\ param' = IF esc = "csi" THEN CharOf(k) ELSE param
    BY <1>1 DEF Press
  <2> QED BY <1>1, <2>1, ContinueHolds, NothingAdded DEF Kept
<1>2. CASE ~Continues(k) /\ Completes(k) # {}
  <2>1. PICK s \in Completes(k) : Buffer(<<s>>) /\ esc' = "normal"
    BY <1>2 DEF Press
  <2>2. s \in Special(CsiKey, CharOf(k)) \/ s \in Special(TildeKey, param)
    BY DEF Completes
  <2>3. <<s>> \in Seq(Chars)
    BY <2>2, SpecialIsChar
  <2>4. Added = Fitting(<<s>>)
    BY <2>1, <2>3, BufferAdds
  <2>5. HeldBack' = <<>>
    BY <2>1 DEF HeldBack
  <2> QED BY <1>2, <2>4, <2>5, CompletesSpells DEF Kept
<1>3. CASE ~Continues(k) /\ Completes(k) = {}
  <2>1. Flush(k) /\ esc' = "normal"
    BY <1>3 DEF Press
  <2>2. k # "Esc"
    BY <1>3 DEF Continues, HeldBack, KeyInv
  <2>3. Typed(k) = Literal(CharOf(k))
    BY <1>3, <2>2 DEF Typed, Continues
  <2>4. Added = Fitting(HeldBack \o Typed(k))
    BY <2>1, <2>3, FlushedAreChars, BufferAdds DEF Flush
  <2>5. HeldBack' = <<>>
    BY <2>1 DEF HeldBack
  <2> QED BY <2>4, <2>5 DEF Kept
<1> QED BY <1>1, <1>2, <1>3

(* An Esc in the middle of a sequence passes the sequence on without it.   *)
LEMMA EscDropped ==
  ASSUME KeyInv, "Esc" \in Keys, Press("Esc"), ~e0, ~CtrlC("Esc"), HeldBack # <<>>
  PROVE  HeldBack' = <<>> /\ Added = Fitting(HeldBack)
<1>1. CharOf("Esc") = NoChar /\ esc # "normal"
  BY EscHasNoChar DEF HeldBack
<1>2. ~Continues("Esc") /\ Completes("Esc") = {}
  BY <1>1 DEF Continues, Completes, Special, CsiKey, Digits, NoChar
<1>3. Flush("Esc") /\ esc' = "normal"
  BY <1>2 DEF Press
<1>4. HeldBack \o Literal(CharOf("Esc")) = HeldBack /\ HeldBack \in Seq(Chars)
  <2>1. HeldBack \in Seq(Chars)
    BY SomeChars DEF HeldBack, KeyInv
  <2> QED BY <1>1, <2>1 DEF Literal
<1>5. Added = Fitting(HeldBack)
  BY <1>3, <1>4, BufferAdds DEF Flush
<1> QED BY <1>3, <1>5 DEF HeldBack

(* After the prefix E0 a key is a special one or none.                     *)
LEMMA PrefixedKey ==
  ASSUME KeyInv, NEW k \in Keys, Press(k), e0
  PROVE  /\ HeldBack' = HeldBack
         /\ Added = <<>> \/ \E x \in Special(E0Key, k) : Added = Fitting(<<x>>)
<1>1. UNCHANGED <<esc, param>>
  BY DEF Press
<1>2. CASE UNCHANGED ring
  BY <1>1, <1>2, NothingAdded DEF HeldBack
<1>3. CASE \E x \in Special(E0Key, k) : Buffer(<<x>>)
  <2>1. PICK x \in Special(E0Key, k) : Buffer(<<x>>)
    BY <1>3
  <2>2. <<x>> \in Seq(Chars)
    BY SpecialIsChar
  <2>3. Added = Fitting(<<x>>)
    BY <2>1, <2>2, BufferAdds
  <2> QED BY <1>1, <2>3 DEF HeldBack
<1> QED BY <1>2, <1>3 DEF Press

(* Where every keystroke goes, for every ring size and state of the        *)
(* modifiers: an Esc that breaks off a sequence is lost, Ctrl-C drops what *)
(* is held back (keyboard.c:105, 118-126), and every other key is held     *)
(* back, passed on as typed, or part of a special key.                     *)
THEOREM KeystrokesTraced == Spec => KeystrokesAccounted
<1> DEFINE Outcome(k) ==
       CASE e0 -> HeldBack' = HeldBack
                  /\ (Added = <<>> \/ \E x \in Special(E0Key, k) : Added = Fitting(<<x>>))
         [] ~e0 /\ CtrlC(k) -> HeldBack' = <<>> /\ Added = <<>>
         [] ~e0 /\ ~CtrlC(k) /\ k = "Esc" /\ HeldBack # <<>> ->
              HeldBack' = <<>> /\ Added = Fitting(HeldBack)
         [] OTHER -> Kept(k)
<1>1. KeyInv => \A k \in Keys : Press(k) => Outcome(k)
  <2> SUFFICES ASSUME KeyInv, NEW k \in Keys, Press(k) PROVE Outcome(k)
    OBVIOUS
  <2>1. CASE e0
    BY <2>1, PrefixedKey
  <2>2. CASE ~e0 /\ CtrlC(k)
    <3>1. UNCHANGED ring /\ esc' = "normal"
      BY <2>2 DEF Press
    <3>2. HeldBack' = <<>> /\ Added = <<>>
      BY <3>1, NothingAdded DEF HeldBack
    <3> QED BY <2>2, <3>2
  <2>3. CASE ~e0 /\ ~CtrlC(k) /\ k = "Esc" /\ HeldBack # <<>>
    BY <2>3, EscDropped
  <2>4. CASE ~e0 /\ ~CtrlC(k) /\ ~(k = "Esc" /\ HeldBack # <<>>)
    BY <2>4, KeyKept
  <2> QED BY <2>1, <2>2, <2>3, <2>4
<1> QED BY <1>1, KeyInvHolds, PTL DEF Spec, KeystrokesAccounted
=============================================================================
