------------------------------ MODULE KernelHeap ------------------------------
(***************************************************************************)
(* The kernel's heap: memory_alloc, memory_free and heap_merge of          *)
(* kernel/memory.c.  Blocks follow each other in one area, each with a     *)
(* header in front, and are linked by next.  A step is one round of a loop *)
(* of the code, so that the walks are along the links, whatever they are.  *)
(*                                                                         *)
(* Callers free what they were given, once: the stacks of tasks and the    *)
(* buffers of the program loader.                                          *)
(***************************************************************************)
EXTENDS Integers

CONSTANTS HeapSize,   \* bytes of the area
          Header,     \* sizeof(block_t)
          Slack,      \* the 8 in the test whether to split
          Requests    \* the sizes asked for

ASSUME HeapAssumption == /\ Header \in Nat \ {0} /\ Slack \in Nat
                         /\ HeapSize \in Nat /\ HeapSize >= Header
                         /\ Requests \subseteq Nat

NULL  == -1
Start == 0
Addrs == 0 .. HeapSize - 1

VARIABLES size, free, next,   \* the fields of block_t, at every address
          hdr,    \* history: where the headers of the list are
          op,     \* what runs: none, memory_alloc or heap_merge
          curr,   \* its local variable
          req,    \* the size asked for
          given,  \* history: the blocks handed out and not yet freed
          asked   \* history: what each of them was asked for with

blocks == <<size, free, next, hdr>>
vars   == <<blocks, op, curr, req, given, asked>>

(* memory_init.                                                            *)
Init ==
  /\ size = [a \in Addrs |-> IF a = Start THEN HeapSize - Header ELSE 0]
  /\ free = [a \in Addrs |-> a = Start]
  /\ next = [a \in Addrs |-> NULL] /\ hdr = {Start}
  /\ op = "none" /\ curr = NULL /\ req = 0
  /\ given = {} /\ asked = [a \in Addrs |-> 0]

(* a mutant: the header is counted as room.                                *)
FitsHeader(b, n) == free[b] /\ size[b] + Header >= n
Fits(b, n)       == free[b] /\ size[b] >= n

(* memory_alloc: walk until a free block is large enough, split it if more *)
(* than a header is left over, and hand it out.                            *)
Alloc(n) ==
  /\ op = "none" /\ op' = "alloc" /\ curr' = Start /\ req' = n
  /\ UNCHANGED <<blocks, given, asked>>
Skip ==
  /\ op = "alloc" /\ curr # NULL /\ ~Fits(curr, req) /\ curr' = next[curr]
  /\ UNCHANGED <<blocks, op, req, given, asked>>
NoMemory ==
  /\ op = "alloc" /\ curr = NULL /\ op' = "none" /\ req' = 0
  /\ UNCHANGED <<blocks, curr, given, asked>>
(* a mutant: the header of the new block is not counted.                   *)
SplitsHere(b, n)    == size[b] > n + Slack
Splits(b, n)        == size[b] > n + Header + Slack
Take ==
  /\ op = "alloc" /\ curr # NULL /\ Fits(curr, req)
  /\ LET new == curr + Header + req IN
       IF Splits(curr, req)
       THEN /\ size' = [size EXCEPT ![new] = size[curr] - req - Header, ![curr] = req]
            /\ free' = [free EXCEPT ![new] = TRUE, ![curr] = FALSE]
            /\ next' = [next EXCEPT ![new] = next[curr], ![curr] = new]
            /\ hdr' = hdr \cup {new}
       ELSE free' = [free EXCEPT ![curr] = FALSE] /\ UNCHANGED <<size, next, hdr>>
  /\ op' = "none" /\ curr' = NULL /\ req' = 0
  /\ given' = given \cup {curr} /\ asked' = [asked EXCEPT ![curr] = req]

(* memory_free of a block, then heap_merge from the start.                 *)
Free(b) ==
  /\ op = "none" /\ free' = [free EXCEPT ![b] = TRUE]
  /\ op' = "merge" /\ curr' = Start
  /\ given' = given \ {b} /\ asked' = [asked EXCEPT ![b] = 0]
  /\ UNCHANGED <<size, next, hdr, req>>
(* A header that was joined to the block in front is no longer in the      *)
(* list, and nothing reads it: its fields are cleared here.                *)
(* a mutant: the walk goes on after a join.                                *)
JoinOnce ==
  /\ op = "merge" /\ next[curr] # NULL /\ free[curr] /\ free[next[curr]]
  /\ size' = [size EXCEPT ![curr] = @ + Header + size[next[curr]], ![next[curr]] = 0]
  /\ free' = [free EXCEPT ![next[curr]] = FALSE]
  /\ next' = [next EXCEPT ![curr] = next[next[curr]], ![next[curr]] = NULL]
  /\ hdr' = hdr \ {next[curr]}
  /\ curr' = IF next[next[curr]] # NULL THEN next[next[curr]] ELSE curr
  /\ UNCHANGED <<op, req, given, asked>>
Join ==
  /\ op = "merge" /\ next[curr] # NULL /\ free[curr] /\ free[next[curr]]
  /\ size' = [size EXCEPT ![curr] = @ + Header + size[next[curr]], ![next[curr]] = 0]
  /\ free' = [free EXCEPT ![next[curr]] = FALSE]
  /\ next' = [next EXCEPT ![curr] = next[next[curr]], ![next[curr]] = NULL]
  /\ hdr' = hdr \ {next[curr]}
  /\ UNCHANGED <<op, curr, req, given, asked>>
(* a mutant: the walk stays at a free block.                               *)
StepStays ==
  /\ op = "merge" /\ next[curr] # NULL /\ ~(free[curr] /\ free[next[curr]])
  /\ curr' = IF free[curr] THEN curr ELSE next[curr]
  /\ UNCHANGED <<blocks, op, req, given, asked>>
Step ==
  /\ op = "merge" /\ next[curr] # NULL /\ ~(free[curr] /\ free[next[curr]])
  /\ curr' = next[curr]
  /\ UNCHANGED <<blocks, op, req, given, asked>>
Merged ==
  /\ op = "merge" /\ next[curr] = NULL /\ op' = "none" /\ curr' = NULL
  /\ UNCHANGED <<blocks, req, given, asked>>

Walk == Skip \/ NoMemory \/ Take \/ Join \/ Step \/ Merged
Next == Walk \/ (\E n \in Requests : Alloc(n)) \/ (\E b \in given : Free(b))
Spec == Init /\ [][Next]_vars
(* A call runs to its end.                                                 *)
FairSpec == Spec /\ WF_vars(Walk)

-----------------------------------------------------------------------------
End(b) == b + Header + size[b]

(* The types of the block headers and of the running call; sizes, addresses and *)
(* links stay inside the heap (memory.c).                                     *)
TypeOK ==
  /\ size \in [Addrs -> Int] /\ free \in [Addrs -> BOOLEAN]
  /\ next \in [Addrs -> Addrs \cup {NULL}] /\ hdr \subseteq Addrs
  /\ op \in {"none", "alloc", "merge"} /\ curr \in hdr \cup {NULL}
  /\ (op = "merge" => curr # NULL) /\ req \in Nat
  /\ given \subseteq hdr /\ asked \in [Addrs -> Nat]

(* The blocks of the list fill the area: each ends where its next begins,  *)
(* the last one at the end of the area, and none lies inside another.      *)
Tiling ==
  /\ Start \in hdr
  /\ \A b \in hdr : /\ size[b] >= 0 /\ End(b) <= HeapSize
                    /\ next[b] = IF End(b) = HeapSize THEN NULL ELSE End(b)
                    /\ End(b) < HeapSize => End(b) \in hdr
  /\ \A b, c \in hdr : b < c => End(b) <= c

(* What was handed out is marked used, as large as it was asked for, and   *)
(* shares no byte with anything else that is handed out.                   *)
GivenSound ==
  \A b \in given : /\ ~free[b] /\ asked[b] <= size[b] /\ End(b) <= HeapSize
                   /\ \A c \in given : b < c => b + Header + asked[b] <= c

(* memory_alloc never hands out a block that somebody still holds.         *)
NeverTwice == [][Take => curr \notin given]_vars

(* heap_merge leaves no two free blocks next to each other, so that what   *)
(* was freed can be had in one piece again.                                *)
NoFreePair ==
  op = "none" => \A b \in hdr : free[b] /\ next[b] # NULL => ~free[next[b]]

(* memory_alloc gives up only when no free block is large enough.          *)
FailsOnlyIfFull ==
  op = "alloc" /\ curr = NULL => \A b \in hdr : ~Fits(b, req)

(* The inductive strengthening: what is handed out is in use, a merge has  *)
(* left no pair of free blocks behind it, and a search no block that fits. *)
FreePair(b) == free[b] /\ next[b] # NULL /\ free[next[b]]
UsedEnough  == \A b \in given : ~free[b] /\ asked[b] <= size[b]
BehindSound ==
  /\ \A b \in hdr : (op = "merge" => b < curr) => ~FreePair(b)
  /\ \A b \in hdr : op = "alloc" /\ (curr # NULL => b < curr) => ~Fits(b, req)
HeapInv == TypeOK /\ Tiling /\ UsedEnough /\ BehindSound

(* Every call returns: the links have no cycle.                            *)
Returns == op # "none" ~> op = "none"
=============================================================================
