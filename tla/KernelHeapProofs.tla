--------------------------- MODULE KernelHeapProofs ---------------------------
(***************************************************************************)
(* For every size of the heap, of the header and of the requests: the      *)
(* blocks tile the heap, what memory_alloc hands out never overlaps,       *)
(* heap_merge leaves no two free blocks side by side, and memory_alloc     *)
(* gives up only when nothing fits.                                        *)
(***************************************************************************)
EXTENDS KernelHeap, TLAPS

(* memory_init makes one free block of the whole area.                     *)
LEMMA InitInv == Init => HeapInv
BY HeapAssumption DEF Init, HeapInv, TypeOK, Tiling, UsedEnough, BehindSound,
   FreePair, Fits, End, Addrs, Start, NULL

(* A block that has a next ends where that begins, and it is in the list.  *)
LEMMA NextInList ==
  ASSUME HeapInv, NEW b \in hdr, next[b] # NULL
  PROVE  /\ next[b] = End(b) /\ next[b] \in hdr /\ b < next[b] /\ next[b] < HeapSize
         /\ \A c \in hdr : c < next[b] <=> c <= b
<1>1. next[b] = End(b) /\ End(b) # HeapSize
  BY DEF HeapInv, Tiling
<1>2. b \in Int /\ size[b] \in Int /\ HeapSize \in Nat /\ Header \in Nat /\ Header > 0
      /\ size[b] >= 0 /\ End(b) <= HeapSize
  BY HeapAssumption DEF HeapInv, TypeOK, Tiling, Addrs
<1>3. b < End(b) /\ End(b) < HeapSize /\ End(b) \in hdr
  BY <1>1, <1>2 DEF HeapInv, Tiling, End
<1>4. \A c \in hdr : c \in Int
  BY DEF HeapInv, TypeOK, Addrs
<1>5. \A c \in hdr : c < End(b) <=> c <= b
  BY <1>2, <1>3, <1>4 DEF HeapInv, Tiling, End
<1> QED BY <1>1, <1>3, <1>5

(* The steps of a walk that only move curr, and the start and the end of a *)
(* call.                                                                   *)
LEMMA AllocInv == ASSUME HeapInv, NEW n \in Requests, Alloc(n) PROVE HeapInv'
<1>1. TypeOK' /\ Tiling' /\ UsedEnough'
  BY HeapAssumption DEF HeapInv, Alloc, TypeOK, Tiling, UsedEnough, End, blocks
<1>2. BehindSound'
  BY DEF HeapInv, Alloc, BehindSound, FreePair, Fits, blocks, TypeOK, Start, NULL, Addrs
<1> QED BY <1>1, <1>2 DEF HeapInv

LEMMA SkipInv == ASSUME HeapInv, Skip PROVE HeapInv'
<1>1. curr \in hdr
  BY DEF HeapInv, TypeOK, Skip
<1>2. next[curr] # NULL => next[curr] \in hdr /\ \A c \in hdr : c < next[curr] <=> c <= curr
  BY <1>1, NextInList
<1>3. TypeOK' /\ Tiling' /\ UsedEnough'
  BY <1>2 DEF HeapInv, Skip, TypeOK, Tiling, UsedEnough, End, blocks
<1>4. next[curr] = NULL => \A c \in hdr : c <= curr
  <2> SUFFICES ASSUME next[curr] = NULL, NEW c \in hdr PROVE c <= curr
    OBVIOUS
  <2>1. End(curr) = HeapSize
    BY <1>1, HeapAssumption DEF HeapInv, Tiling, TypeOK, NULL, End, Addrs
  <2> QED BY <1>1, <2>1, HeapAssumption DEF HeapInv, Tiling, TypeOK, Addrs, End
<1>5. \A c \in hdr : c \in Int
  BY DEF HeapInv, TypeOK, Addrs
<1>6. BehindSound'
  BY <1>1, <1>2, <1>4, <1>5 DEF HeapInv, Skip, BehindSound, FreePair, Fits, blocks
<1> QED BY <1>3, <1>6 DEF HeapInv

LEMMA NoMemoryInv == ASSUME HeapInv, NoMemory PROVE HeapInv'
BY DEF HeapInv, NoMemory, TypeOK, Tiling, UsedEnough, BehindSound, FreePair, Fits, End, blocks

LEMMA FreeInv == ASSUME HeapInv, NEW b \in given, Free(b) PROVE HeapInv'
<1>1. TypeOK'
  BY DEF HeapInv, Free, TypeOK, Tiling, Start, NULL, Addrs
<1>2. Tiling' /\ UsedEnough'
  BY DEF HeapInv, Free, Tiling, UsedEnough, End, TypeOK
<1>3. BehindSound'
  <2>1. \A c \in hdr : ~(c < Start)
    BY DEF HeapInv, TypeOK, Addrs, Start
  <2> QED BY <2>1 DEF Free, BehindSound
<1> QED BY <1>1, <1>2, <1>3 DEF HeapInv

LEMMA StepInv == ASSUME HeapInv, Step PROVE HeapInv'
<1>1. curr \in hdr
  BY DEF HeapInv, TypeOK, Step
<1>2. next[curr] \in hdr /\ \A c \in hdr : c < next[curr] <=> c <= curr
  BY <1>1, NextInList DEF Step
<1>3. TypeOK' /\ Tiling' /\ UsedEnough'
  BY <1>2 DEF HeapInv, Step, TypeOK, Tiling, UsedEnough, End, blocks, Addrs, NULL
<1>4. \A c \in hdr : c \in Int
  BY DEF HeapInv, TypeOK, Addrs
<1>5. BehindSound'
  BY <1>1, <1>2, <1>4 DEF HeapInv, Step, BehindSound, FreePair, Fits, blocks
<1> QED BY <1>3, <1>5 DEF HeapInv

LEMMA MergedInv == ASSUME HeapInv, Merged PROVE HeapInv'
<1>1. curr \in hdr
  BY DEF HeapInv, TypeOK, Merged
<1>2. End(curr) = HeapSize
  BY <1>1, HeapAssumption DEF HeapInv, Tiling, TypeOK, NULL, End, Addrs, Merged
<1>3. \A c \in hdr : c \in Int /\ c <= curr
  BY <1>1, <1>2, HeapAssumption DEF HeapInv, Tiling, TypeOK, Addrs, End
<1>4. TypeOK' /\ Tiling' /\ UsedEnough'
  BY DEF HeapInv, Merged, TypeOK, Tiling, UsedEnough, End, blocks
<1>5. BehindSound'
  BY <1>1, <1>3 DEF HeapInv, Merged, BehindSound, FreePair, Fits, blocks
<1> QED BY <1>4, <1>5 DEF HeapInv

(* A block is handed out as it is.                                         *)
LEMMA TakeWholeInv ==
  ASSUME HeapInv, Take, ~Splits(curr, req) PROVE HeapInv'
<1>1. curr \in hdr /\ curr \in Addrs /\ free[curr] /\ size[curr] >= req /\ op = "alloc"
  BY DEF HeapInv, TypeOK, Take, Fits
<1>2. /\ free' = [free EXCEPT ![curr] = FALSE] /\ UNCHANGED <<size, next, hdr>>
      /\ op' = "none" /\ curr' = NULL /\ req' = 0
      /\ given' = given \cup {curr} /\ asked' = [asked EXCEPT ![curr] = req]
  BY DEF Take
<1>3. TypeOK' /\ Tiling'
  BY <1>1, <1>2 DEF HeapInv, TypeOK, Tiling, End
<1>4. UsedEnough'
  BY <1>1, <1>2 DEF HeapInv, TypeOK, UsedEnough, Addrs
<1>5. BehindSound'
  BY <1>1, <1>2 DEF HeapInv, TypeOK, BehindSound, FreePair, Fits
<1> QED BY <1>3, <1>4, <1>5 DEF HeapInv

(* A block is split: the rest becomes a free block behind it.              *)
LEMMA TakeSplitInv ==
  ASSUME HeapInv, Take, Splits(curr, req) PROVE HeapInv'
<1>0. PICK k, new : k = curr /\ new = curr + Header + req
  OBVIOUS
<1>1. k \in hdr /\ k \in Addrs /\ free[k] /\ size[k] >= req /\ op = "alloc"
  BY <1>0 DEF HeapInv, TypeOK, Take, Fits
<1>2. /\ size' = [size EXCEPT ![new] = size[k] - req - Header, ![k] = req]
      /\ free' = [free EXCEPT ![new] = TRUE, ![k] = FALSE]
      /\ next' = [next EXCEPT ![new] = next[k], ![k] = new]
      /\ hdr' = hdr \cup {new}
      /\ op' = "none" /\ curr' = NULL /\ req' = 0
      /\ given' = given \cup {k} /\ asked' = [asked EXCEPT ![k] = req]
  BY <1>0 DEF Take
<1>3. /\ k \in Int /\ req \in Nat /\ Header \in Nat /\ Header > 0 /\ size[k] \in Int
      /\ Slack \in Nat /\ HeapSize \in Nat /\ k >= 0 /\ hdr \subseteq Int
      /\ size[k] > req + Header + Slack /\ End(k) <= HeapSize
  BY <1>0, <1>1, HeapAssumption DEF HeapInv, TypeOK, Tiling, Splits, Addrs
<1>4. /\ new \in Int /\ new = k + Header + req /\ new \in Addrs /\ new < HeapSize
      /\ k < new /\ new < End(k) /\ End(k) \in Int /\ new # k
  BY <1>0, <1>3 DEF Addrs, End
<1>5. new \notin hdr
  BY <1>1, <1>3, <1>4 DEF HeapInv, Tiling
<1>6. \A b \in hdr \ {k} : size'[b] = size[b] /\ next'[b] = next[b] /\ free'[b] = free[b]
  BY <1>2, <1>4, <1>5 DEF HeapInv, TypeOK
<1>7. /\ size'[k] = req /\ size'[new] = size[k] - req - Header
      /\ next'[k] = new /\ next'[new] = next[k] /\ free'[new] = TRUE /\ free'[k] = FALSE
  BY <1>1, <1>2, <1>4 DEF HeapInv, TypeOK
<1>8. TypeOK'
  <2>1. size' \in [Addrs -> Int]
    BY <1>1, <1>2, <1>3, <1>4 DEF HeapInv, TypeOK
  <2>2. free' \in [Addrs -> BOOLEAN] /\ next' \in [Addrs -> Addrs \cup {NULL}]
    BY <1>1, <1>2, <1>4 DEF HeapInv, TypeOK
  <2>3. hdr' \subseteq Addrs /\ given' \subseteq hdr' /\ asked' \in [Addrs -> Nat]
    BY <1>1, <1>2, <1>3, <1>4 DEF HeapInv, TypeOK
  <2> QED BY <1>2, <2>1, <2>2, <2>3 DEF TypeOK
<1>9. Tiling'
  <2>1. End(k)' = new /\ End(new)' = End(k) /\ \A b \in hdr \ {k} : End(b)' = End(b)
    <3>1. k + Header + size'[k] = new
      BY <1>4, <1>7
    <3>2. new + Header + size'[new] = k + Header + size[k]
      BY <1>3, <1>4, <1>7
    <3> QED BY <1>6, <3>1, <3>2 DEF End
  <2>2. Start \in hdr'
    BY <1>2 DEF HeapInv, Tiling
  <2>3. ASSUME NEW b \in hdr'
        PROVE  /\ size'[b] >= 0 /\ End(b)' <= HeapSize
               /\ next'[b] = IF End(b)' = HeapSize THEN NULL ELSE End(b)'
               /\ End(b)' < HeapSize => End(b)' \in hdr'
    <3>1. CASE b = k
      BY <1>2, <1>3, <1>4, <1>7, <2>1, <3>1
    <3>2. CASE b = new
      BY <1>1, <1>2, <1>3, <1>7, <2>1, <3>2 DEF HeapInv, Tiling
    <3>3. CASE b \in hdr \ {k}
      BY <1>2, <1>6, <2>1, <3>3 DEF HeapInv, Tiling
    <3> QED BY <1>2, <3>1, <3>2, <3>3
  <2>4. ASSUME NEW b \in hdr', NEW c \in hdr', b < c PROVE End(b)' <= c
    <3>0. \A d \in hdr : End(d) \in Int
      BY <1>3 DEF HeapInv, TypeOK, End
    <3>1. CASE b = k
      BY <1>1, <1>2, <1>3, <1>4, <2>1, <2>4, <3>0, <3>1 DEF HeapInv, Tiling
    <3>2. CASE b = new
      BY <1>1, <1>2, <1>3, <1>4, <2>1, <2>4, <3>0, <3>2 DEF HeapInv, Tiling
    <3>3. CASE b \in hdr \ {k}
      <4>1. CASE c = new
        BY <1>1, <1>3, <1>4, <1>5, <2>1, <2>4, <3>0, <3>3, <4>1 DEF HeapInv, Tiling
      <4>2. CASE c \in hdr
        BY <2>1, <2>4, <3>3, <4>2 DEF HeapInv, Tiling
      <4> QED BY <1>2, <4>1, <4>2
    <3> QED BY <1>2, <3>1, <3>2, <3>3
  <2> QED BY <2>2, <2>3, <2>4 DEF Tiling
<1>10. UsedEnough'
  <2>1. \A b \in given \ {k} : asked'[b] = asked[b] /\ b \in hdr \ {k}
    BY <1>2 DEF HeapInv, TypeOK
  <2>2. asked'[k] = req
    BY <1>1, <1>2 DEF HeapInv, TypeOK
  <2>3. \A b \in given \ {k} : ~free'[b] /\ asked'[b] <= size'[b]
    BY <1>6, <2>1 DEF HeapInv, UsedEnough
  <2>4. ~free'[k] /\ asked'[k] <= size'[k]
    BY <1>3, <1>7, <2>2
  <2> QED BY <1>2, <2>3, <2>4 DEF UsedEnough
<1>11. BehindSound'
  <2>1. \A b \in hdr \ {k} : ~FreePair(b)'
    <3> SUFFICES ASSUME NEW b \in hdr \ {k}, free'[b], next'[b] # NULL PROVE ~free'[next'[b]]
      BY DEF FreePair
    <3>1. free[b] /\ next[b] # NULL /\ next'[b] = next[b]
      BY <1>6
    <3>2. next[b] \in hdr /\ ~free[next[b]]
      BY <1>1, <3>1, NextInList DEF HeapInv, BehindSound, FreePair
    <3> QED BY <1>1, <1>6, <3>1, <3>2
  <2>2. ~FreePair(k)'
    BY <1>7 DEF FreePair
  <2>3. ~FreePair(new)'
    <3> SUFFICES ASSUME next[k] # NULL PROVE ~free'[next[k]]
      BY <1>7 DEF FreePair
    <3>1. next[k] \in hdr /\ next[k] # k /\ ~free[next[k]]
      BY <1>1, <1>3, NextInList DEF HeapInv, BehindSound, FreePair
    <3> QED BY <1>6, <3>1
  <2>4. \A b \in hdr' : ~FreePair(b)'
    BY <1>2, <2>1, <2>2, <2>3
  <2> QED BY <1>2, <2>4 DEF BehindSound
<1> QED BY <1>8, <1>9, <1>10, <1>11 DEF HeapInv

(* Two free blocks become one.                                             *)
LEMMA JoinInv == ASSUME HeapInv, Join PROVE HeapInv'
<1>0. PICK k, nx : k = curr /\ nx = next[curr]
  OBVIOUS
<1>1. /\ k \in hdr /\ k = curr /\ nx = next[k] /\ op = "merge" /\ nx # NULL /\ free[k] /\ free[nx]
      /\ size' = [size EXCEPT ![k] = @ + Header + size[nx], ![nx] = 0]
      /\ free' = [free EXCEPT ![nx] = FALSE]
      /\ next' = [next EXCEPT ![k] = next[nx], ![nx] = NULL]
      /\ hdr' = hdr \ {nx} /\ UNCHANGED <<op, curr, req, given, asked>>
  BY <1>0 DEF HeapInv, TypeOK, Join
<1>2. /\ nx = End(k) /\ nx \in hdr /\ k < nx /\ nx < HeapSize
      /\ \A c \in hdr : c < nx <=> c <= k
  BY <1>1, NextInList
<1>3. /\ k \in Int /\ nx \in Int /\ hdr \subseteq Int /\ k # nx
      /\ size[k] \in Int /\ size[nx] \in Int /\ Header \in Nat /\ HeapSize \in Nat
      /\ size[k] >= 0 /\ size[nx] >= 0
  BY <1>1, <1>2, HeapAssumption DEF HeapInv, TypeOK, Tiling, Addrs
<1>4. \A b \in hdr \ {k, nx} : size'[b] = size[b] /\ next'[b] = next[b] /\ free'[b] = free[b]
  BY <1>1 DEF HeapInv, TypeOK
<1>5. size'[k] = size[k] + Header + size[nx] /\ next'[k] = next[nx] /\ free'[k] = TRUE
  BY <1>1, <1>3 DEF HeapInv, TypeOK
<1>6. TypeOK'
  <2>1. nx \notin given
    BY <1>1 DEF HeapInv, UsedEnough
  <2>2. size' \in [Addrs -> Int] /\ free' \in [Addrs -> BOOLEAN]
    BY <1>1, <1>2, <1>3 DEF HeapInv, TypeOK
  <2>3. next' \in [Addrs -> Addrs \cup {NULL}]
    BY <1>1, <1>2 DEF HeapInv, TypeOK
  <2>4. curr' \in hdr' /\ given' \subseteq hdr' /\ hdr' \subseteq Addrs
    BY <1>1, <1>3, <2>1 DEF HeapInv, TypeOK
  <2> QED BY <1>1, <2>2, <2>3, <2>4 DEF HeapInv, TypeOK
<1>7. Tiling'
  <2>1. End(k)' = End(nx) /\ \A b \in hdr \ {k, nx} : End(b)' = End(b)
    <3>1. nx = k + Header + size[k]
      BY <1>2 DEF End
    <3>2. k + Header + size'[k] = nx + Header + size[nx]
      BY <1>3, <1>5, <3>1
    <3> QED BY <1>4, <3>2 DEF End
  <2>2. Start \in hdr'
    BY <1>1, <1>2, <1>3 DEF HeapInv, Tiling, TypeOK, Addrs, Start
  <2>3. \A b \in hdr : End(b) \in Int /\ (End(b) = nx => b = k)
    <3> SUFFICES ASSUME NEW b \in hdr PROVE End(b) \in Int /\ (End(b) = nx => b = k)
      OBVIOUS
    <3>1. End(b) \in Int /\ b < End(b)
      BY <1>3, HeapAssumption DEF HeapInv, TypeOK, Tiling, End
    <3>2. b < k => End(b) <= k
      BY <1>1 DEF HeapInv, Tiling
    <3> QED BY <1>2, <1>3, <3>1, <3>2
  <2>4. ASSUME NEW b \in hdr'
        PROVE  /\ size'[b] >= 0 /\ End(b)' <= HeapSize
               /\ next'[b] = IF End(b)' = HeapSize THEN NULL ELSE End(b)'
               /\ End(b)' < HeapSize => End(b)' \in hdr'
    <3>1. CASE b = k
      <4>1. End(nx) # nx /\ (End(nx) < HeapSize => End(nx) \in hdr)
        BY <1>2, <1>3, HeapAssumption DEF HeapInv, Tiling, End
      <4> QED BY <1>1, <1>2, <1>3, <1>5, <2>1, <3>1, <4>1 DEF HeapInv, Tiling
    <3>2. CASE b # k
      <4>1. b \in hdr \ {k, nx} /\ End(b) # nx
        BY <1>1, <2>3, <3>2
      <4>2. size'[b] = size[b] /\ next'[b] = next[b] /\ End(b)' = End(b)
        BY <1>4, <2>1, <4>1
      <4>3. /\ size[b] >= 0 /\ End(b) <= HeapSize
            /\ next[b] = IF End(b) = HeapSize THEN NULL ELSE End(b)
            /\ End(b) < HeapSize => End(b) \in hdr'
        BY <1>1, <4>1 DEF HeapInv, Tiling
      <4> QED BY <4>2, <4>3
    <3> QED BY <3>1, <3>2
  <2>5. ASSUME NEW b \in hdr', NEW c \in hdr', b < c PROVE End(b)' <= c
    <3>1. CASE b = k
      BY <1>1, <1>2, <1>3, <2>1, <2>5, <3>1 DEF HeapInv, Tiling
    <3>2. CASE b # k
      BY <1>1, <2>1, <2>5, <3>2 DEF HeapInv, Tiling
    <3> QED BY <3>1, <3>2
  <2> QED BY <2>2, <2>4, <2>5 DEF Tiling
<1>8. UsedEnough'
  <2>1. k \notin given /\ nx \notin given
    BY <1>1 DEF HeapInv, UsedEnough
  <2> QED BY <1>1, <1>4, <2>1 DEF HeapInv, UsedEnough, TypeOK
<1>9. BehindSound'
  <2> SUFFICES ASSUME NEW b \in hdr', b < k, free'[b], next'[b] # NULL PROVE ~free'[next'[b]]
    BY <1>1 DEF BehindSound, FreePair
  <2>1. b \in hdr \ {k, nx} /\ free[b] /\ next'[b] = next[b]
    <3>1. b \in Int /\ b # k /\ b # nx
      BY <1>1, <1>3
    <3> QED BY <1>1, <1>4, <3>1
  <2>2. ~free[next[b]] /\ next[b] \in hdr
    BY <1>1, <2>1, NextInList DEF HeapInv, BehindSound, FreePair
  <2>3. next[b] # k /\ next[b] # nx
    BY <1>1, <2>2
  <2> QED BY <1>4, <2>1, <2>2, <2>3
<1> QED BY <1>6, <1>7, <1>8, <1>9 DEF HeapInv

LEMMA StutterInv == ASSUME HeapInv, UNCHANGED vars PROVE HeapInv'
BY DEF HeapInv, vars, blocks, TypeOK, Tiling, UsedEnough, BehindSound, FreePair, Fits, End

LEMMA NextInv == ASSUME HeapInv, [Next]_vars PROVE HeapInv'
<1>1. CASE Take
  BY <1>1, TakeWholeInv, TakeSplitInv
<1>2. ASSUME NEW n \in Requests, Alloc(n) PROVE HeapInv'
  BY <1>2, AllocInv
<1>3. ASSUME NEW b \in given, Free(b) PROVE HeapInv'
  BY <1>3, FreeInv
<1> QED BY <1>1, <1>2, <1>3, SkipInv, NoMemoryInv, JoinInv, StepInv, MergedInv, StutterInv
        DEF Next, Walk

(* The inductive invariant holds throughout.                               *)
THEOREM HeapInvariant == Spec => []HeapInv
<1>1. Init => HeapInv
  BY InitInv
<1>2. HeapInv /\ [Next]_vars => HeapInv'
  BY NextInv
<1> QED BY <1>1, <1>2, PTL DEF Spec

(* The blocks of the kernel's heap always tile it: memory_alloc's split    *)
(* and heap_merge's join keep sizes and links in step.                     *)
THEOREM HeapTiled == Spec => [](TypeOK /\ Tiling)
BY HeapInvariant, PTL DEF HeapInv

(* No two blocks that memory_alloc has handed out overlap, and each is as  *)
(* large as it was asked for.                                              *)
THEOREM HandsOutDisjoint == Spec => []GivenSound
<1>1. HeapInv => GivenSound
  <2> SUFFICES ASSUME HeapInv, NEW b \in given
               PROVE  /\ ~free[b] /\ asked[b] <= size[b] /\ End(b) <= HeapSize
                      /\ \A c \in given : b < c => b + Header + asked[b] <= c
    BY DEF GivenSound
  <2>1. b \in hdr /\ given \subseteq hdr /\ hdr \subseteq Int /\ size[b] \in Int
        /\ asked[b] \in Int /\ Header \in Int
    BY HeapAssumption DEF HeapInv, TypeOK, Addrs
  <2> QED BY <2>1 DEF HeapInv, UsedEnough, Tiling, End
<1> QED BY <1>1, HeapInvariant, PTL

(* memory_alloc never hands out a block again before it was freed.         *)
THEOREM NotHandedOutTwice == Spec => NeverTwice
<1>1. HeapInv /\ [Next]_vars => [Take => curr \notin given]_vars
  BY DEF HeapInv, UsedEnough, Take, Fits
<1> QED BY <1>1, HeapInvariant, PTL DEF Spec, NeverTwice

(* Between calls no two neighbouring blocks are both free (heap_merge), so *)
(* what memory_free gives back is never lost to fragments side by side.    *)
THEOREM MergeIsComplete == Spec => []NoFreePair
<1>1. HeapInv => NoFreePair
  BY DEF HeapInv, BehindSound, NoFreePair, FreePair
<1> QED BY <1>1, HeapInvariant, PTL

(* memory_alloc returns NULL only when no free block is large enough.      *)
THEOREM NullOnlyWhenFull == Spec => []FailsOnlyIfFull
<1>1. HeapInv => FailsOnlyIfFull
  BY DEF HeapInv, BehindSound, FailsOnlyIfFull
<1> QED BY <1>1, HeapInvariant, PTL
=============================================================================
