----------------------------- MODULE PipeProofs -----------------------------
(***************************************************************************)
(* For every number of pipes, tasks and descriptors and every size of the  *)
(* buffer: the references of a pipe are its descriptors, and a reader that *)
(* sleeps at the end of the file is woken by a kill alone.  With one       *)
(* reading and one writing task: the count stays between empty and full,   *)
(* bytes are read in order, and a task sleeps beside work only if it has   *)
(* missed a wakeup.                                                        *)
(***************************************************************************)
EXTENDS Pipe, FiniteSetTheorems, WellFoundedInduction, TLAPS

-----------------------------------------------------------------------------
(* The inductive invariant.                                                *)

(* Where a task is: in read or write, in pipe_close_end (from the store of *)
(* the reference on the descriptor no longer counts), in pipe_ref_inc.     *)
Moving   == {"test", "open", "mark", "block", "unmark", "copy", "load", "store", "wake", "clear"}
Given    == {"czero", "ctest", "cfree", "cdone"}
Closings == {"close", "cstore"} \cup Given
Incs     == {"inc", "istore"}

PipeRecords == [used : BOOLEAN, head : 0 .. N - 1, tail : 0 .. N - 1, count : Int,
                open : [Ends -> BOOLEAN], ref : [Ends -> Nat],
                blk : [Ends -> Tasks \cup {None}], buf : [0 .. N - 1 -> Int]]
Locals == [end : Ends \cup {"none"}, p : Pipes, f : Fds, len : Nat, total : Int, c : Int,
           chunk : Int, todo : SUBSET Fds, next : {"user", "exit", "dup", "fork"}, who : Nat]
Descriptors == {Shut} \cup [end : Ends, p : Pipes]

TypesInv ==
  /\ pipe \in [Pipes -> PipeRecords] /\ fd \in [Tasks -> [Fds -> Descriptors]]
  /\ st \in [Tasks -> {"UNUSED", "READY", "BLOCKED", "ZOMBIE"}]
  /\ pc \in [Tasks -> {"user", "create"} \cup Moving \cup Closings \cup Incs]
  /\ l \in [Tasks -> Locals]
  /\ sent \in [Pipes -> Int] /\ got \in [Pipes -> Int]
  /\ garbled \in BOOLEAN /\ missed \in BOOLEAN
  /\ leaked \in [Pipes -> [Ends -> Nat]]

(* What a task in a call knows: that it has a descriptor for what it reads *)
(* or writes, which descriptors are still to be closed or counted, and     *)
(* which one dup2 copies.                                                  *)
CallInv(t) ==
  /\ pc[t] # "user" => st[t] \in {"READY", "BLOCKED"}
  /\ st[t] = "BLOCKED" => pc[t] = "unmark"
  /\ pc[t] \in Moving => l[t].end \in Ends
                         /\ \E f \in Fds : fd[t][f] = [end |-> l[t].end, p |-> l[t].p]
  /\ pc[t] = "create" => Cardinality(FreeFds(t)) >= 2
  /\ pc[t] \in Closings \cup Incs => l[t].todo \subseteq PipeFds(t)
  /\ pc[t] \in Given \cup {"cstore", "istore"} =>
       l[t].f \in l[t].todo /\ l[t].p = fd[t][l[t].f].p
  /\ pc[t] \in {"cstore", "istore"} => l[t].c \in Nat
  /\ l[t].next \in {"exit", "dup"} => pc[t] \in Closings
  /\ l[t].next = "fork" => pc[t] \in Incs /\ l[t].who \in Tasks /\ l[t].who # t
  /\ l[t].next = "dup" =>
       /\ l[t].who \in PipeFds(t) \ l[t].todo /\ l[t].len \in Fds \ {l[t].who}
       /\ l[t].len \in l[t].todo \/ fd[t][l[t].len] = Shut
  /\ pc[t] \in Incs /\ l[t].next = "user" =>
       l[t].who \in Fds \ l[t].todo /\ \A f \in l[t].todo : fd[t][f] = fd[t][l[t].who]

(* A name left at an end of a pipe is that of a task that waits there.     *)
NamesInv == \A p \in Pipes, e \in Ends, t \in Tasks :
              pipe[p].blk[e] = t =>
                pc[t] \in {"block", "unmark"} /\ l[t].p = p /\ l[t].end = e

CallsInv == TypesInv /\ NamesInv /\ \A t \in Tasks : CallInv(t)

(* The descriptors that are counted: those of the tasks, except the one    *)
(* that a close is done with and the copy that dup2 has not counted yet;   *)
(* and those that a fork has counted for the slot it fills.                *)
Uncounted(t) == IF pc[t] \in Given THEN {l[t].f}
                ELSE IF pc[t] \in Incs /\ l[t].next = "user" THEN l[t].todo ELSE {}
Filled(t)    == IF l[t].next = "fork" THEN {l[t].who} \X (Fds \ l[t].todo) ELSE {}
Counted(t, f) == \/ st[t] # "UNUSED" /\ f \notin Uncounted(t)
                 \/ \E v \in Tasks : <<t, f>> \in Filled(v)
Refs(p, e) == {x \in Tasks \X Fds :
                 Counted(x[1], x[2]) /\ fd[x[1]][x[2]] = [end |-> e, p |-> p]}

(* One fork at a time fills a slot, which holds what its parent holds.     *)
ForkInv == \A t \in Tasks : l[t].next = "fork" =>
             /\ st[l[t].who] = "UNUSED" /\ fd[l[t].who] = fd[t]
             /\ \A v \in Tasks : l[v].next = "fork" => v = t

RefInv == \A p \in Pipes, e \in Ends :
            /\ pipe[p].used => pipe[p].ref[e] = Cardinality(Refs(p, e)) + leaked[p][e]
            /\ Refs(p, e) # {} => pipe[p].used /\ pipe[p].open[e]

PipeInv == CallsInv /\ (NoRefLost => ForkInv /\ RefInv)

-----------------------------------------------------------------------------
(* Operators of the model.                                                 *)

LEMMA MinIn ==
  ASSUME NEW S, S \subseteq Nat, S # {}
  PROVE  Min(S) \in S
<1>1. PICK R : R = OpToRel(<, Nat)
  OBVIOUS
<1>2. IsWellFoundedOn(R, Nat)
  BY <1>1, NatLessThanWellFounded
<1>3. PICK x \in S : \A y \in S : ~(<<y, x>> \in R)
  BY <1>2, WFMin
<1>4. \A y \in S : y < x => <<y, x>> \in R
  BY <1>1 DEF OpToRel
<1>5. \A y \in S : x <= y
  <2> TAKE y \in S
  <2>1. ~(y < x)
    BY <1>3, <1>4
  <2> QED BY <2>1
<1> QED BY <1>5 DEF Min

LEMMA Sizes ==
  /\ N \in Nat \ {0} /\ NPipes \in Nat \ {0} /\ MaxFds \in Nat \ {0} /\ Procs \in Nat \ {0}
  /\ MaxLen \in Nat \ {0}
  /\ 0 \in Pipes /\ 0 \in Fds /\ 0 \in Tasks /\ Pipes \subseteq Nat /\ Fds \subseteq Nat
  /\ Tasks \subseteq Nat /\ None \notin Tasks /\ DupTo \subseteq Fds
  /\ Shut \in Descriptors /\ NoLocals \in Locals /\ Fresh \in PipeRecords
  /\ [Fresh EXCEPT !.used = FALSE] \in PipeRecords
  /\ \A e \in Ends : Other(e) \in Ends /\ Other(e) # e /\ Other(Other(e)) = e
  /\ "none" \notin Ends
<1>1. /\ N \in Nat \ {0} /\ NPipes \in Nat \ {0} /\ MaxFds \in Nat \ {0} /\ Procs \in Nat \ {0}
      /\ MaxLen \in Nat \ {0}
  BY PipeAssumption
<1>2. /\ 0 \in Pipes /\ 0 \in Fds /\ 0 \in Tasks /\ Pipes \subseteq Nat /\ Fds \subseteq Nat
      /\ Tasks \subseteq Nat /\ None \notin Tasks /\ DupTo \subseteq Fds
  BY <1>1, PipeAssumption DEF Pipes, Fds, Tasks, None
<1>3. Shut \in Descriptors /\ NoLocals \in Locals
  BY <1>2 DEF Shut, Descriptors, NoLocals, Work, Locals
<1>4. 0 \in 0 .. N - 1 /\ [i \in 0 .. N - 1 |-> 0] \in [0 .. N - 1 -> Int]
  BY <1>1
<1>5. Fresh \in PipeRecords /\ [Fresh EXCEPT !.used = FALSE] \in PipeRecords
  BY <1>4 DEF Fresh, PipeRecords, None
<1> QED BY <1>1, <1>2, <1>3, <1>5 DEF Ends, Other

(* The fields of what is well-typed.                                       *)
LEMMA Fields ==
  ASSUME TypesInv, NEW t \in Tasks
  PROVE  /\ l[t].end \in Ends \cup {"none"} /\ l[t].p \in Pipes /\ l[t].f \in Fds
         /\ l[t].len \in Nat /\ l[t].total \in Int /\ l[t].c \in Int /\ l[t].chunk \in Int
         /\ l[t].todo \subseteq Fds /\ l[t].next \in {"user", "exit", "dup", "fork"} /\ l[t].who \in Nat
         /\ l[t].todo \subseteq Nat
         /\ pc[t] \in {"user", "create"} \cup Moving \cup Closings \cup Incs
         /\ st[t] \in {"UNUSED", "READY", "BLOCKED", "ZOMBIE"}
         /\ \A f \in Fds : fd[t][f] \in Descriptors /\ fd[t][f].p \in Pipes
                           /\ (fd[t][f] # Shut => fd[t][f].end \in Ends)
                           /\ fd[t][f] = [end |-> fd[t][f].end, p |-> fd[t][f].p]
<1>1. l[t] \in Locals /\ \A f \in Fds : fd[t][f] \in Descriptors
  BY DEF TypesInv
<1>2. \A d \in Descriptors : d.p \in Pipes /\ (d # Shut => d.end \in Ends)
                             /\ d = [end |-> d.end, p |-> d.p]
  BY Sizes DEF Descriptors, Shut
<1>3. l[t].todo \subseteq Nat
  BY <1>1, Sizes DEF Locals
<1> QED BY <1>1, <1>2, <1>3 DEF TypesInv, Locals

LEMMA PipeFields ==
  ASSUME TypesInv, NEW p \in Pipes
  PROVE  /\ pipe[p].used \in BOOLEAN /\ pipe[p].head \in 0 .. N - 1 /\ pipe[p].tail \in 0 .. N - 1
         /\ pipe[p].count \in Int /\ pipe[p].open \in [Ends -> BOOLEAN]
         /\ pipe[p].ref \in [Ends -> Nat] /\ pipe[p].blk \in [Ends -> Tasks \cup {None}]
         /\ pipe[p].buf \in [0 .. N - 1 -> Int]
         /\ pipe[p] \in PipeRecords
BY DEF TypesInv, PipeRecords

-----------------------------------------------------------------------------
(* The state stays well-typed.                                             *)

(* What the updates of a field of a pipe or of a local variable leave.     *)
LEMMA UpdatePipe ==
  ASSUME TypesInv, NEW q \in Pipes, NEW x \in PipeRecords, pipe' = [pipe EXCEPT ![q] = x]
  PROVE  pipe' \in [Pipes -> PipeRecords] /\ pipe'[q] = x
         /\ \A p \in Pipes : p # q => pipe'[p] = pipe[p]
BY DEF TypesInv

LEMMA UpdateLocals ==
  ASSUME TypesInv, NEW t \in Tasks, NEW x \in Locals, l' = [l EXCEPT ![t] = x]
  PROVE  l' \in [Tasks -> Locals] /\ l'[t] = x /\ \A v \in Tasks : v # t => l'[v] = l[v]
BY DEF TypesInv

LEMMA UpdatePc ==
  ASSUME TypesInv, NEW t \in Tasks,
         NEW x \in {"user", "create"} \cup Moving \cup Closings \cup Incs, Goto(t, x)
  PROVE  /\ pc' \in [Tasks -> {"user", "create"} \cup Moving \cup Closings \cup Incs]
         /\ pc'[t] = x /\ \A v \in Tasks : v # t => pc'[v] = pc[v]
BY DEF TypesInv, Goto

LEMMA AdvanceIn ==
  ASSUME NEW i \in Int, NEW n \in Int
  PROVE  Advance(i, n) \in 0 .. N - 1
<1>1. N \in Nat /\ N > 0
  BY Sizes
<1> QED BY <1>1 DEF Advance

LEMMA WokenType ==
  ASSUME TypesInv, NEW u \in Tasks \cup {None}
  PROVE  /\ Woken(u) \in [Tasks -> {"UNUSED", "READY", "BLOCKED", "ZOMBIE"}]
         /\ \A v \in Tasks : Woken(u)[v] = st[v] \/ (v = u /\ st[v] = "BLOCKED" /\ Woken(u)[v] = "READY")
         /\ \A v \in Tasks : v = u /\ st[v] = "BLOCKED" => Woken(u)[v] = "READY"
BY Sizes DEF TypesInv, Woken

LEMMA MinOfTwo ==
  ASSUME NEW a \in Int, NEW b \in Int
  PROVE  /\ Min({a, b}) \in Int /\ Min({a, b}) <= a /\ Min({a, b}) <= b
         /\ Min({a, b}) = a \/ Min({a, b}) = b
<1>1. \E x \in {a, b} : \A y \in {a, b} : x <= y
  OBVIOUS
<1> QED BY <1>1 DEF Min

(* The steps of read and write: what they leave alone.  The task itself    *)
(* stays in its call, begins one with a descriptor for it, or returns.     *)
Stays(t) == l'[t].end = l[t].end /\ l'[t].p = l[t].p
MoveFrame(t) ==
  /\ fd' = fd /\ leaked' = leaked /\ ("ref" \in raced => "ref" \in raced')
  /\ \A p \in Pipes : /\ pipe'[p].used = pipe[p].used /\ pipe'[p].open = pipe[p].open
                      /\ pipe'[p].ref = pipe[p].ref
  /\ \A v \in Tasks : v # t => pc'[v] = pc[v] /\ l'[v] = l[v]
  /\ \A v \in Tasks : v # t => st'[v] = st[v] \/ (st[v] = "BLOCKED" /\ st'[v] = "READY")
  /\ st[t] = "READY" /\ (st'[t] = "READY" \/ (st'[t] = "BLOCKED" /\ pc'[t] = "unmark"))
  /\ pc[t] \in Moving \cup {"user"} /\ pc'[t] \in Moving \cup {"user"} /\ l'[t].next = "user"
  /\ pc'[t] \in Moving =>
       \/ pc[t] \in Moving /\ Stays(t)
       \/ pc[t] = "user" /\ \E f \in Fds : fd[t][f] = [end |-> l'[t].end, p |-> l'[t].p]
                                           /\ l'[t].end \in Ends

LEMMA ReturnFacts ==
  ASSUME TypesInv, NEW t \in Tasks, Return(t)
  PROVE  /\ pc' \in [Tasks -> {"user", "create"} \cup Moving \cup Closings \cup Incs]
         /\ pc'[t] = "user" /\ \A v \in Tasks : v # t => pc'[v] = pc[v]
         /\ l' \in [Tasks -> Locals] /\ l'[t] = NoLocals /\ \A v \in Tasks : v # t => l'[v] = l[v]
<1>1. NoLocals \in Locals
  BY Sizes
<1>2. l' = [l EXCEPT ![t] = NoLocals] /\ Goto(t, "user")
  BY DEF Return
<1> HIDE DEF NoLocals, Work
<1>3. l' \in [Tasks -> Locals] /\ l'[t] = NoLocals /\ \A v \in Tasks : v # t => l'[v] = l[v]
  BY <1>1, <1>2, UpdateLocals
<1> QED BY <1>2, <1>3, UpdatePc

LEMMA BeginFrame ==
  ASSUME CallsInv, NEW t \in Tasks, NEW e \in Ends, NEW f \in Fds, NEW n \in 1 .. MaxLen,
         Begin(t, e, f, n)
  PROVE  TypesInv' /\ MoveFrame(t) /\ pipe' = pipe /\ pc'[t] \in {"user", "test"}
         /\ pc[t] = "user" /\ fd[t][f].end = e
         /\ l'[t] = [NoLocals EXCEPT !.end = e, !.p = fd[t][f].p, !.len = n]
<1> DEFINE x == [NoLocals EXCEPT !.end = e, !.p = fd[t][f].p, !.len = n]
<1>1. TypesInv
  BY DEF CallsInv
<1>2. x \in Locals /\ x.end = e /\ x.p = fd[t][f].p /\ x.next = "user"
  <2>1. MaxLen \in Nat
    BY Sizes
  <2>2. n \in Nat
    BY <2>1
  <2>3. fd[t][f].p \in Pipes
    BY <1>1, Fields
  <2> QED BY <2>2, <2>3, Sizes DEF NoLocals, Work, Locals
<1>3. l' = [l EXCEPT ![t] = x]
  BY DEF Begin
<1> HIDE DEF x
<1>4. l' \in [Tasks -> Locals] /\ l'[t] = x /\ \A v \in Tasks : v # t => l'[v] = l[v]
  BY <1>1, <1>2, <1>3, UpdateLocals
<1>5. /\ pc' \in [Tasks -> {"user", "create"} \cup Moving \cup Closings \cup Incs]
      /\ pc'[t] \in {"user", "test"} /\ \A v \in Tasks : v # t => pc'[v] = pc[v]
  <2>1. CASE UNCHANGED pc
    BY <1>1, <2>1 DEF Begin, At, TypesInv
  <2>2. CASE Goto(t, "test")
    BY <1>1, <2>2, UpdatePc DEF Moving
  <2> QED BY <2>1, <2>2 DEF Begin
<1>6. UNCHANGED <<pipe, fd, st, sent, got, garbled, missed, raced, leaked>> /\ At(t, "user") /\ fd[t][f].end = e
  BY DEF Begin, hist
<1>7. TypesInv'
  BY <1>1, <1>4, <1>5, <1>6 DEF TypesInv
<1>8. fd[t][f] = [end |-> x.end, p |-> x.p]
  BY <1>1, <1>2, <1>6, Fields
<1>9. MoveFrame(t)
  BY <1>2, <1>4, <1>5, <1>6, <1>8 DEF MoveFrame, At, Moving
<1> QED BY <1>4, <1>5, <1>6, <1>7, <1>9 DEF At, x

(* The steps of read and write in a call.                                  *)
LEMMA WaitFrame ==
  ASSUME CallsInv, NEW t \in Tasks, NEW e \in Ends, Wait(t, e)
  PROVE  TypesInv' /\ MoveFrame(t) /\ l[t].end = e /\ pc[t] \in Moving
<1>1. TypesInv
  BY DEF CallsInv
<1>2. l[t].p \in Pipes /\ l[t] \in Locals /\ PipeOf(t) \in PipeRecords /\ PipeOf(t).count \in Int
  BY <1>1, Fields, PipeFields DEF PipeOf, TypesInv
<1>3. CASE TestCount(t, e)
  <2>1. UNCHANGED <<pipe, fd, st, sent, got, garbled, missed, raced, leaked>> /\ AtEnd(t, e, "test")
    BY <1>3 DEF TestCount, hist
  <2>2. /\ pc' \in [Tasks -> {"user", "create"} \cup Moving \cup Closings \cup Incs]
        /\ pc'[t] \in {"open", "copy"} /\ \A v \in Tasks : v # t => pc'[v] = pc[v]
    BY <1>1, <1>3, UpdatePc DEF TestCount, Moving
  <2>3. l' \in [Tasks -> Locals] /\ Stays(t) /\ l'[t].next = l[t].next
        /\ \A v \in Tasks : v # t => l'[v] = l[v]
    <3>1. CASE l' = l
      BY <1>1, <3>1 DEF TypesInv, Stays
    <3>2. CASE l' = [l EXCEPT ![t].chunk = Chunk(t)]
      <4>1. Chunk(t) \in Int
        <5>1. N \in Int /\ l[t].len \in Int /\ l[t].total \in Int
          BY <1>1, Sizes, Fields
        <5> DEFINE a == l[t].len - l[t].total
                   b == N - PipeOf(t).count
        <5>2. a \in Int /\ b \in Int /\ Chunk(t) = Min({a, b})
          BY <1>2, <5>1 DEF Chunk
        <5> HIDE DEF a, b
        <5> QED BY <5>2, MinOfTwo
      <4>2. [l[t] EXCEPT !.chunk = Chunk(t)] \in Locals
        BY <1>2, <4>1 DEF Locals
      <4> QED BY <1>1, <3>2, <4>2 DEF TypesInv, Stays, Locals
    <3> QED BY <1>3, <3>1, <3>2 DEF TestCount
  <2>4. TypesInv'
    BY <1>1, <2>1, <2>2, <2>3 DEF TypesInv
  <2>5. l[t].next = "user"
    BY <1>1, <2>1, Fields DEF CallsInv, CallInv, AtEnd, At, Closings, Given, Incs
  <2> QED BY <2>1, <2>2, <2>3, <2>4, <2>5 DEF MoveFrame, AtEnd, At, Moving
<1>4. CASE TestOpen(t, e)
  <2>1. UNCHANGED <<pipe, fd, st, sent, got, garbled, missed, raced, leaked>> /\ AtEnd(t, e, "open")
    BY <1>4 DEF TestOpen, hist
  <2>2. CASE Goto(t, "mark") /\ UNCHANGED l
    <3>1. /\ pc' \in [Tasks -> {"user", "create"} \cup Moving \cup Closings \cup Incs]
          /\ pc'[t] = "mark" /\ \A v \in Tasks : v # t => pc'[v] = pc[v]
      BY <1>1, <2>2, UpdatePc DEF Moving
    <3>2. TypesInv'
      BY <1>1, <2>1, <2>2, <3>1 DEF TypesInv
    <3>3. l[t].next = "user"
      BY <1>1, <2>1, Fields DEF CallsInv, CallInv, AtEnd, At, Closings, Given, Incs
    <3> QED BY <2>1, <2>2, <3>1, <3>2, <3>3 DEF MoveFrame, AtEnd, At, Moving, Stays
  <2>3. CASE Return(t)
    <3>1. TypesInv'
      BY <1>1, <2>1, <2>3, ReturnFacts DEF TypesInv
    <3> QED BY <1>1, <2>1, <2>3, <3>1, ReturnFacts DEF MoveFrame, AtEnd, At, Moving, NoLocals, Work
  <2> QED BY <1>4, <2>2, <2>3 DEF TestOpen
<1>5. CASE Mark(t, e)
  <2>1. UNCHANGED <<fd, st, l, sent, got, garbled, missed, raced, leaked>> /\ AtEnd(t, e, "mark")
    BY <1>5 DEF Mark, hist
  <2> DEFINE x == [PipeOf(t) EXCEPT !.blk[e] = t]
  <2>2. pipe' = [pipe EXCEPT ![l[t].p] = x]
    BY <1>5 DEF Mark, PipeOf
  <2>3. x \in PipeRecords /\ x.used = PipeOf(t).used /\ x.open = PipeOf(t).open /\ x.ref = PipeOf(t).ref
    BY <1>2 DEF PipeRecords
  <2> HIDE DEF x
  <2>4. pipe' \in [Pipes -> PipeRecords] /\ pipe'[l[t].p] = x
        /\ \A p \in Pipes : p # l[t].p => pipe'[p] = pipe[p]
    BY <1>1, <1>2, <2>2, <2>3, UpdatePipe
  <2>5. /\ pc' \in [Tasks -> {"user", "create"} \cup Moving \cup Closings \cup Incs]
        /\ pc'[t] = "block" /\ \A v \in Tasks : v # t => pc'[v] = pc[v]
    BY <1>1, <1>5, UpdatePc DEF Moving, Mark
  <2>6. TypesInv'
    BY <1>1, <2>1, <2>4, <2>5 DEF TypesInv
  <2>7. l[t].next = "user"
    BY <1>1, <2>1, Fields DEF CallsInv, CallInv, AtEnd, At, Closings, Given, Incs
  <2> QED BY <2>1, <2>3, <2>4, <2>5, <2>6, <2>7 DEF MoveFrame, AtEnd, At, Moving, Stays, PipeOf
<1>6. CASE Block(t, e)
  <2>1. UNCHANGED <<pipe, fd, l, sent, got, garbled, missed, raced, leaked>> /\ AtEnd(t, e, "block")
        /\ st' = [st EXCEPT ![t] = "BLOCKED"]
    BY <1>6 DEF Block, hist
  <2>5. /\ pc' \in [Tasks -> {"user", "create"} \cup Moving \cup Closings \cup Incs]
        /\ pc'[t] = "unmark" /\ \A v \in Tasks : v # t => pc'[v] = pc[v]
    BY <1>1, <1>6, UpdatePc DEF Moving, Block
  <2>6. TypesInv'
    BY <1>1, <2>1, <2>5 DEF TypesInv
  <2>7. l[t].next = "user"
    BY <1>1, <2>1, Fields DEF CallsInv, CallInv, AtEnd, At, Closings, Given, Incs
  <2>8. st'[t] = "BLOCKED" /\ \A v \in Tasks : v # t => st'[v] = st[v]
    BY <1>1, <2>1 DEF TypesInv
  <2> QED BY <2>1, <2>5, <2>6, <2>7, <2>8 DEF MoveFrame, AtEnd, At, Moving, Stays
<1>7. CASE Unmark(t, e)
  <2>1. UNCHANGED <<fd, st, sent, got, garbled, missed, raced, leaked>> /\ AtEnd(t, e, "unmark")
    BY <1>7 DEF Unmark, hist
  <2> DEFINE x == [PipeOf(t) EXCEPT !.blk[e] = None]
  <2>2. pipe' = [pipe EXCEPT ![l[t].p] = x]
    BY <1>7 DEF Unmark, PipeOf
  <2>3. x \in PipeRecords /\ x.used = PipeOf(t).used /\ x.open = PipeOf(t).open /\ x.ref = PipeOf(t).ref
    BY <1>2 DEF PipeRecords
  <2> HIDE DEF x
  <2>4. pipe' \in [Pipes -> PipeRecords] /\ pipe'[l[t].p] = x
        /\ \A p \in Pipes : p # l[t].p => pipe'[p] = pipe[p]
    BY <1>1, <1>2, <2>2, <2>3, UpdatePipe
  <2>5. CASE Goto(t, "test") /\ UNCHANGED l
    <3>1. /\ pc' \in [Tasks -> {"user", "create"} \cup Moving \cup Closings \cup Incs]
          /\ pc'[t] = "test" /\ \A v \in Tasks : v # t => pc'[v] = pc[v]
      BY <1>1, <2>5, UpdatePc DEF Moving
    <3>2. TypesInv'
      BY <1>1, <2>1, <2>4, <2>5, <3>1 DEF TypesInv
    <3>3. l[t].next = "user"
      BY <1>1, <2>1, Fields DEF CallsInv, CallInv, AtEnd, At, Closings, Given, Incs
    <3> QED BY <2>1, <2>3, <2>4, <2>5, <3>1, <3>2, <3>3 DEF MoveFrame, AtEnd, At, Moving, Stays, PipeOf
  <2>6. CASE Return(t)
    <3>1. TypesInv'
      BY <1>1, <2>1, <2>4, <2>6, ReturnFacts DEF TypesInv
    <3> QED BY <1>1, <2>1, <2>3, <2>4, <2>6, <3>1, ReturnFacts DEF MoveFrame, AtEnd, At, Moving, NoLocals, Work, PipeOf
  <2> QED BY <1>7, <2>5, <2>6 DEF Unmark
<1> QED BY <1>3, <1>4, <1>5, <1>6, <1>7 DEF Wait

LEMMA MoveFrames ==
  ASSUME CallsInv, NEW t \in Tasks, NEW e \in Ends, Move(t, e)
  PROVE  TypesInv' /\ MoveFrame(t) /\ l[t].end = e /\ pc[t] \in Moving
<1>1. TypesInv
  BY DEF CallsInv
<1>2. l[t].p \in Pipes /\ l[t] \in Locals /\ PipeOf(t) \in PipeRecords /\ PipeOf(t).count \in Int
      /\ l[t].c \in Int /\ l[t].chunk \in Int /\ l[t].total \in Int
  BY <1>1, Fields, PipeFields DEF PipeOf, TypesInv
<1>3. l[t].next = "user"
  <2>1. pc[t] \notin Closings \cup Incs
    BY DEF Move, LoadCount, StoreCount, Wake, Clear, AtEnd, At, Closings, Given, Incs
  <2> QED BY <1>1, <2>1, Fields DEF CallsInv, CallInv
<1>4. CASE LoadCount(t, e)
  <2>1. UNCHANGED <<pipe, fd, st, sent, got, garbled, missed, raced, leaked>> /\ AtEnd(t, e, "load")
    BY <1>4 DEF LoadCount, hist
  <2> DEFINE x == [l[t] EXCEPT !.c = PipeOf(t).count]
  <2>2. l' = [l EXCEPT ![t] = x]
    BY <1>4 DEF LoadCount
  <2>3. x \in Locals /\ x.end = l[t].end /\ x.p = l[t].p /\ x.next = l[t].next
    BY <1>2 DEF Locals
  <2> HIDE DEF x
  <2>4. l' \in [Tasks -> Locals] /\ l'[t] = x /\ \A v \in Tasks : v # t => l'[v] = l[v]
    BY <1>1, <2>2, <2>3, UpdateLocals
  <2>5. /\ pc' \in [Tasks -> {"user", "create"} \cup Moving \cup Closings \cup Incs]
        /\ pc'[t] = "store" /\ \A v \in Tasks : v # t => pc'[v] = pc[v]
    BY <1>1, <1>4, UpdatePc DEF Moving, LoadCount
  <2>6. TypesInv'
    BY <1>1, <2>1, <2>4, <2>5 DEF TypesInv
  <2> QED BY <1>3, <2>1, <2>3, <2>4, <2>5, <2>6 DEF MoveFrame, AtEnd, At, Moving, Stays
<1>5. CASE StoreCount(t, e)
  <2>1. UNCHANGED <<fd, st, sent, got, garbled, missed, leaked>> /\ AtEnd(t, e, "store")
        /\ raced \subseteq raced'
    BY <1>5 DEF StoreCount, hist, Raced
  <2> DEFINE m == l[t].total + l[t].chunk
             x == [l[t] EXCEPT !.c = 0, !.chunk = 0, !.total = m]
             n == IF e = "r" THEN l[t].c - 1 ELSE l[t].c + l[t].chunk
             y == [PipeOf(t) EXCEPT !.count = n]
  <2>2. l' = [l EXCEPT ![t] = x] /\ pipe' = [pipe EXCEPT ![l[t].p] = y]
    BY <1>1, <1>2, <1>5 DEF StoreCount, PipeOf, TypesInv
  <2>4. n \in Int
    BY <1>2
  <2>m. m \in Int
    BY <1>2
  <2> HIDE DEF m
  <2>3. x \in Locals /\ x.end = l[t].end /\ x.p = l[t].p /\ x.next = l[t].next
    <3> DEFINE x1 == [l[t] EXCEPT !.c = 0]
               x2 == [x1 EXCEPT !.chunk = 0]
    <3>1. x1 \in Locals /\ x1.end = l[t].end /\ x1.p = l[t].p /\ x1.next = l[t].next
      BY <1>2 DEF Locals
    <3>2. x = [x2 EXCEPT !.total = m]
      BY <1>2 DEF Locals
    <3> HIDE DEF x1, x
    <3>3. x2 \in Locals /\ x2.end = l[t].end /\ x2.p = l[t].p /\ x2.next = l[t].next
      BY <3>1 DEF Locals
    <3> HIDE DEF x2
    <3> QED BY <2>m, <3>2, <3>3 DEF Locals
  <2> HIDE DEF x, n
  <2>5. y \in PipeRecords /\ y.used = PipeOf(t).used /\ y.open = PipeOf(t).open /\ y.ref = PipeOf(t).ref
    BY <1>2, <2>4 DEF PipeRecords
  <2> HIDE DEF y
  <2>6. l' \in [Tasks -> Locals] /\ l'[t] = x /\ \A v \in Tasks : v # t => l'[v] = l[v]
    BY <1>1, <2>2, <2>3, UpdateLocals
  <2>7. pipe' \in [Pipes -> PipeRecords] /\ pipe'[l[t].p] = y
        /\ \A p \in Pipes : p # l[t].p => pipe'[p] = pipe[p]
    BY <1>1, <1>2, <2>2, <2>5, UpdatePipe
  <2>8. /\ pc' \in [Tasks -> {"user", "create"} \cup Moving \cup Closings \cup Incs]
        /\ pc'[t] \in {"copy", "wake"} /\ \A v \in Tasks : v # t => pc'[v] = pc[v]
    BY <1>1, <1>5, UpdatePc DEF Moving, StoreCount
  <2>9. TypesInv'
    BY <1>1, <2>1, <2>6, <2>7, <2>8 DEF TypesInv
  <2> QED BY <1>3, <2>1, <2>3, <2>5, <2>6, <2>7, <2>8, <2>9 DEF MoveFrame, AtEnd, At, Moving, Stays, PipeOf
<1>6. CASE Wake(t, e)
  <2>1. UNCHANGED <<pipe, fd, sent, got, garbled, raced, leaked>> /\ AtEnd(t, e, "wake")
        /\ st' = Woken(PipeOf(t).blk[Other(e)]) /\ missed' \in BOOLEAN
    BY <1>1, <1>6 DEF Wake, TypesInv
  <2>2. PipeOf(t).blk[Other(e)] \in Tasks \cup {None}
    BY <1>2, Sizes DEF PipeRecords
  <2>3. /\ st' \in [Tasks -> {"UNUSED", "READY", "BLOCKED", "ZOMBIE"}]
        /\ \A v \in Tasks : st'[v] = st[v] \/ (st[v] = "BLOCKED" /\ st'[v] = "READY")
    BY <1>1, <2>1, <2>2, WokenType
  <2>5. CASE (Goto(t, "test") \/ Goto(t, "clear")) /\ UNCHANGED l
    <3>1. /\ pc' \in [Tasks -> {"user", "create"} \cup Moving \cup Closings \cup Incs]
          /\ pc'[t] \in {"test", "clear"} /\ \A v \in Tasks : v # t => pc'[v] = pc[v]
      BY <1>1, <2>5, UpdatePc DEF Moving
    <3>2. TypesInv'
      BY <1>1, <2>1, <2>3, <2>5, <3>1 DEF TypesInv
    <3> QED BY <1>3, <2>1, <2>3, <2>5, <3>1, <3>2 DEF MoveFrame, AtEnd, At, Moving, Stays
  <2>6. CASE Return(t)
    <3>1. TypesInv'
      BY <1>1, <2>1, <2>3, <2>6, ReturnFacts DEF TypesInv
    <3> QED BY <1>1, <2>1, <2>3, <2>6, <3>1, ReturnFacts DEF MoveFrame, AtEnd, At, Moving, NoLocals, Work
  <2> QED BY <1>6, <2>5, <2>6 DEF Wake, GoOn
<1>7. CASE Clear(t, e)
  <2>1. UNCHANGED <<fd, st, sent, got, garbled, raced, leaked>> /\ AtEnd(t, e, "clear")
        /\ missed' \in BOOLEAN
    BY <1>1, <1>7 DEF Clear, TypesInv
  <2> DEFINE x == [PipeOf(t) EXCEPT !.blk[Other(e)] = None]
  <2>2. pipe' = [pipe EXCEPT ![l[t].p] = x]
    BY <1>7 DEF Clear, PipeOf
  <2>3. x \in PipeRecords /\ x.used = PipeOf(t).used /\ x.open = PipeOf(t).open /\ x.ref = PipeOf(t).ref
    BY <1>2 DEF PipeRecords
  <2> HIDE DEF x
  <2>4. pipe' \in [Pipes -> PipeRecords] /\ pipe'[l[t].p] = x
        /\ \A p \in Pipes : p # l[t].p => pipe'[p] = pipe[p]
    BY <1>1, <1>2, <2>2, <2>3, UpdatePipe
  <2>5. CASE Goto(t, "test") /\ UNCHANGED l
    <3>1. /\ pc' \in [Tasks -> {"user", "create"} \cup Moving \cup Closings \cup Incs]
          /\ pc'[t] = "test" /\ \A v \in Tasks : v # t => pc'[v] = pc[v]
      BY <1>1, <2>5, UpdatePc DEF Moving
    <3>2. TypesInv'
      BY <1>1, <2>1, <2>4, <2>5, <3>1 DEF TypesInv
    <3> QED BY <1>3, <2>1, <2>3, <2>4, <2>5, <3>1, <3>2 DEF MoveFrame, AtEnd, At, Moving, Stays, PipeOf
  <2>6. CASE Return(t)
    <3>1. TypesInv'
      BY <1>1, <2>1, <2>4, <2>6, ReturnFacts DEF TypesInv
    <3> QED BY <1>1, <2>1, <2>3, <2>4, <2>6, <3>1, ReturnFacts DEF MoveFrame, AtEnd, At, Moving, NoLocals, Work, PipeOf
  <2> QED BY <1>7, <2>5, <2>6 DEF Clear, GoOn
<1> QED BY <1>4, <1>5, <1>6, <1>7 DEF Move

LEMMA CopyFrame ==
  ASSUME CallsInv, NEW t \in Tasks, Take(t) \/ Put(t)
  PROVE  TypesInv' /\ MoveFrame(t) /\ pc[t] = "copy" /\ Stays(t)
<1>1. TypesInv
  BY DEF CallsInv
<1>2. l[t].p \in Pipes /\ l[t] \in Locals /\ PipeOf(t) \in PipeRecords /\ PipeOf(t).count \in Int
      /\ l[t].c \in Int /\ l[t].chunk \in Int /\ l[t].total \in Int
      /\ PipeOf(t).tail \in 0 .. N - 1 /\ PipeOf(t).head \in 0 .. N - 1
      /\ PipeOf(t).buf \in [0 .. N - 1 -> Int]
  BY <1>1, Fields, PipeFields DEF PipeOf, TypesInv
<1>3. l[t].next = "user" /\ pc[t] = "copy"
  <2>1. pc[t] = "copy"
    BY DEF Take, Put, AtEnd, At
  <2>2. pc[t] \notin Closings \cup Incs
    BY <2>1 DEF Closings, Given, Incs
  <2> QED BY <1>1, <2>1, <2>2, Fields DEF CallsInv, CallInv
<1>4. CASE Take(t) /\ ~(l[t].total < l[t].len /\ PipeOf(t).count > 0)
  <2>1. UNCHANGED <<pipe, fd, st, l, sent, got, garbled, missed, raced, leaked>> /\ AtEnd(t, "r", "copy")
        /\ Goto(t, "wake")
    BY <1>4 DEF Take
  <2>2. /\ pc' \in [Tasks -> {"user", "create"} \cup Moving \cup Closings \cup Incs]
        /\ pc'[t] = "wake" /\ \A v \in Tasks : v # t => pc'[v] = pc[v]
    BY <1>1, <2>1, UpdatePc DEF Moving
  <2>3. TypesInv'
    BY <1>1, <2>1, <2>2 DEF TypesInv
  <2> QED BY <1>3, <2>1, <2>2, <2>3 DEF MoveFrame, AtEnd, At, Moving, Stays
<1>5. CASE Take(t) /\ l[t].total < l[t].len /\ PipeOf(t).count > 0
  <2>1. UNCHANGED <<fd, st, sent, missed, raced, leaked>> /\ AtEnd(t, "r", "copy") /\ Goto(t, "load")
        /\ garbled' \in BOOLEAN /\ got' = [got EXCEPT ![l[t].p] = PipeOf(t).buf[PipeOf(t).tail]]
    BY <1>1, <1>5 DEF Take, TypesInv
  <2> DEFINE m == l[t].total + 1
             x == [l[t] EXCEPT !.total = m]
             n == Advance(PipeOf(t).tail, 1)
             y == [PipeOf(t) EXCEPT !.tail = n]
  <2>2. l' = [l EXCEPT ![t] = x] /\ pipe' = [pipe EXCEPT ![l[t].p] = y]
    BY <1>1, <1>2, <1>5 DEF Take, PipeOf, TypesInv
  <2>m. m \in Int
    BY <1>2
  <2> HIDE DEF m
  <2>3. x \in Locals /\ x.end = l[t].end /\ x.p = l[t].p /\ x.next = l[t].next
    BY <1>2, <2>m DEF Locals
  <2>4. n \in 0 .. N - 1
    <3>1. PipeOf(t).tail \in Int /\ 1 \in Int
      BY <1>2
    <3> QED BY <3>1, AdvanceIn
  <2> HIDE DEF x, n
  <2>5. y \in PipeRecords /\ y.used = PipeOf(t).used /\ y.open = PipeOf(t).open /\ y.ref = PipeOf(t).ref
    BY <1>2, <2>4 DEF PipeRecords
  <2> HIDE DEF y
  <2>6. l' \in [Tasks -> Locals] /\ l'[t] = x /\ \A v \in Tasks : v # t => l'[v] = l[v]
    BY <1>1, <2>2, <2>3, UpdateLocals
  <2>7. pipe' \in [Pipes -> PipeRecords] /\ pipe'[l[t].p] = y
        /\ \A p \in Pipes : p # l[t].p => pipe'[p] = pipe[p]
    BY <1>1, <1>2, <2>2, <2>5, UpdatePipe
  <2>8. /\ pc' \in [Tasks -> {"user", "create"} \cup Moving \cup Closings \cup Incs]
        /\ pc'[t] = "load" /\ \A v \in Tasks : v # t => pc'[v] = pc[v]
    BY <1>1, <2>1, UpdatePc DEF Moving
  <2>9. PipeOf(t).buf[PipeOf(t).tail] \in Int
    BY <1>2
  <2>10. TypesInv'
    BY <1>1, <2>1, <2>6, <2>7, <2>8, <2>9 DEF TypesInv
  <2> QED BY <1>3, <2>1, <2>3, <2>5, <2>6, <2>7, <2>8, <2>10 DEF MoveFrame, AtEnd, At, Moving, Stays, PipeOf
<1>6. CASE Put(t)
  <2> DEFINE n == l[t].chunk
             h == PipeOf(t).head
             b == [i \in 0 .. N - 1 |-> IF (i - h) % N < n THEN sent[l[t].p] + 1 + ((i - h) % N)
                                        ELSE PipeOf(t).buf[i]]
             y == [PipeOf(t) EXCEPT !.buf = b, !.head = Advance(h, n)]
  <2>1. UNCHANGED <<fd, st, l, got, garbled, missed, raced, leaked>> /\ AtEnd(t, "w", "copy") /\ Goto(t, "load")
        /\ sent' = [sent EXCEPT ![l[t].p] = @ + n]
    BY <1>6 DEF Put
  <2>2. pipe' = [pipe EXCEPT ![l[t].p] = y]
    BY <1>1, <1>2, <1>6 DEF Put, PipeOf, TypesInv
  <2>3. sent[l[t].p] \in Int /\ h \in Int /\ n \in Int /\ N \in Nat \ {0}
    BY <1>1, <1>2, Sizes DEF TypesInv
  <2>4. b \in [0 .. N - 1 -> Int] /\ sent' \in [Pipes -> Int]
    <3>1. ASSUME NEW i \in 0 .. N - 1 PROVE b[i] \in Int
      <4>1. (i - h) % N \in Int /\ PipeOf(t).buf[i] \in Int
        BY <1>2, <2>3
      <4> QED BY <2>3, <4>1
    <3>2. sent[l[t].p] + n \in Int
      BY <2>3
    <3> QED BY <1>1, <2>1, <3>1, <3>2 DEF TypesInv
  <2>5. Advance(h, n) \in 0 .. N - 1
    BY <2>3, AdvanceIn
  <2> HIDE DEF b, h, n
  <2>6. y \in PipeRecords /\ y.used = PipeOf(t).used /\ y.open = PipeOf(t).open /\ y.ref = PipeOf(t).ref
    BY <1>2, <2>4, <2>5 DEF PipeRecords
  <2> HIDE DEF y
  <2>7. pipe' \in [Pipes -> PipeRecords] /\ pipe'[l[t].p] = y
        /\ \A p \in Pipes : p # l[t].p => pipe'[p] = pipe[p]
    BY <1>1, <1>2, <2>2, <2>6, UpdatePipe
  <2>8. /\ pc' \in [Tasks -> {"user", "create"} \cup Moving \cup Closings \cup Incs]
        /\ pc'[t] = "load" /\ \A v \in Tasks : v # t => pc'[v] = pc[v]
    BY <1>1, <2>1, UpdatePc DEF Moving
  <2>9. TypesInv'
    BY <1>1, <2>1, <2>4, <2>7, <2>8 DEF TypesInv
  <2> QED BY <1>3, <2>1, <2>6, <2>7, <2>8, <2>9 DEF MoveFrame, AtEnd, At, Moving, Stays, PipeOf
<1> QED BY <1>4, <1>5, <1>6

-----------------------------------------------------------------------------
(* What a step of one task leaves of what the others know.                 *)

LEMMA OthersCalls ==
  ASSUME CallsInv, NEW v \in Tasks, pc'[v] = pc[v], l'[v] = l[v],
         pc[v] # "user" => fd'[v] = fd[v] /\ st'[v] \in {st[v], "READY"},
         st'[v] = "BLOCKED" => st[v] = "BLOCKED"
  PROVE  CallInv(v)'
<1>1. CallInv(v) /\ TypesInv
  BY DEF CallsInv
<1>2. CASE pc[v] = "user"
  <2>1. l[v].next \notin {"exit", "dup", "fork"}
    BY <1>1, <1>2 DEF CallInv, Closings, Given, Incs
  <2> QED BY <1>1, <1>2, <2>1 DEF CallInv, Moving, Closings, Given, Incs
<1>3. CASE pc[v] # "user"
  <2>1. fd'[v] = fd[v] /\ FreeFds(v)' = FreeFds(v) /\ PipeFds(v)' = PipeFds(v)
    BY <1>3 DEF FreeFds, PipeFds
  <2>2. st'[v] \in {"READY", "BLOCKED"} /\ (st'[v] = "BLOCKED" => pc'[v] = "unmark")
    BY <1>1, <1>3 DEF CallInv
  <2> QED BY <1>1, <1>3, <2>1, <2>2 DEF CallInv
<1> QED BY <1>2, <1>3

LEMMA OthersNames ==
  ASSUME NamesInv, NEW t \in Tasks,
         \A v \in Tasks : v # t => pc'[v] = pc[v] /\ l'[v] = l[v],
         \A p \in Pipes, e \in Ends, v \in Tasks :
           v # t /\ pipe'[p].blk[e] = v => pipe[p].blk[e] = v,
         \A p \in Pipes, e \in Ends : pipe'[p].blk[e] = t =>
           pc'[t] \in {"block", "unmark"} /\ l'[t].p = p /\ l'[t].end = e
  PROVE  NamesInv'
BY DEF NamesInv

(* The counted descriptors, where no task enters or leaves a close or a    *)
(* count.                                                                  *)
LEMMA SameRefs ==
  ASSUME fd' = fd, \A v \in Tasks : (st'[v] = "UNUSED") <=> (st[v] = "UNUSED"),
         \A v \in Tasks : Uncounted(v)' = Uncounted(v) /\ Filled(v)' = Filled(v)
  PROVE  \A p \in Pipes, e \in Ends : Refs(p, e)' = Refs(p, e)
<1>1. \A t \in Tasks, f \in Fds : Counted(t, f)' <=> Counted(t, f)
  BY DEF Counted
<1> SUFFICES ASSUME NEW p \in Pipes, NEW e \in Ends PROVE Refs(p, e)' = Refs(p, e)
  OBVIOUS
<1>2. \A x \in Tasks \X Fds : x[1] \in Tasks /\ x[2] \in Fds
  OBVIOUS
<1>3. \A x \in Tasks \X Fds : x \in Refs(p, e)' <=> x \in Refs(p, e)
  BY <1>1, <1>2 DEF Refs
<1>4. Refs(p, e)' \subseteq Tasks \X Fds /\ Refs(p, e) \subseteq Tasks \X Fds
  BY DEF Refs
<1> QED BY <1>3, <1>4

LEMMA MoveCalls ==
  ASSUME PipeInv, NEW t \in Tasks, MoveFrame(t), TypesInv', NamesInv'
  PROVE  PipeInv'
<1>1. CallsInv /\ TypesInv
  BY DEF PipeInv, CallsInv
<1>2. ASSUME NEW v \in Tasks PROVE CallInv(v)'
  <2>1. CASE v # t
    <3>1. /\ pc'[v] = pc[v] /\ l'[v] = l[v] /\ fd'[v] = fd[v] /\ st'[v] \in {st[v], "READY"}
          /\ (st'[v] = "BLOCKED" => st[v] = "BLOCKED")
      BY <2>1 DEF MoveFrame
    <3> QED BY <1>1, <3>1, OthersCalls
  <2>2. CASE v = t
    <3>1. pc'[t] \notin {"create"} \cup Closings \cup Incs /\ l'[t].next = "user"
          /\ pc'[t] \notin Given \cup {"cstore", "istore"}
      BY DEF MoveFrame, Moving, Closings, Given, Incs
    <3>2. pc'[t] \in Moving => l'[t].end \in Ends
                         /\ \E f \in Fds : fd'[t][f] = [end |-> l'[t].end, p |-> l'[t].p]
      BY <1>1 DEF MoveFrame, Stays, CallsInv, CallInv
    <3>3. /\ pc'[t] # "user" => st'[t] \in {"READY", "BLOCKED"}
          /\ st'[t] = "BLOCKED" => pc'[t] = "unmark"
      BY DEF MoveFrame
    <3> QED BY <2>2, <3>1, <3>2, <3>3 DEF CallInv
  <2> QED BY <2>1, <2>2
<1>3. CallsInv'
  BY <1>2 DEF CallsInv
<1>4. \A v \in Tasks : l'[v].next = "fork" => v # t /\ l'[v] = l[v]
  BY DEF MoveFrame
<1>5. \A v \in Tasks : (st'[v] = "UNUSED") <=> (st[v] = "UNUSED")
  BY DEF MoveFrame
<1>6. ASSUME NEW v \in Tasks PROVE Uncounted(v)' = Uncounted(v) /\ Filled(v)' = Filled(v)
  <2>1. CASE v # t
    BY <2>1 DEF MoveFrame, Uncounted, Filled
  <2>2. CASE v = t
    <3>1. pc[t] \notin Closings \cup Incs /\ pc'[t] \notin Closings \cup Incs /\ l'[t].next = "user"
      BY DEF MoveFrame, Moving, Closings, Given, Incs
    <3>2. l[t].next # "fork"
      BY <1>1, <3>1 DEF CallsInv, CallInv
    <3> QED BY <2>2, <3>1, <3>2 DEF Uncounted, Filled, Closings
  <2> QED BY <2>1, <2>2
<1>7. ASSUME NoRefLost' PROVE ForkInv' /\ RefInv'
  <2>1. NoRefLost
    BY <1>7 DEF NoRefLost, MoveFrame
  <2>2. ForkInv /\ RefInv
    BY <2>1 DEF PipeInv
  <2>3. ForkInv'
    <3> SUFFICES ASSUME NEW v \in Tasks, l'[v].next = "fork"
                 PROVE  /\ st'[l'[v].who] = "UNUSED" /\ fd'[l'[v].who] = fd'[v]
                        /\ \A w \in Tasks : l'[w].next = "fork" => w = v
      BY DEF ForkInv
    <3>1. l'[v] = l[v] /\ l[v].next = "fork" /\ l[v].who \in Tasks
      BY <1>1, <1>4 DEF CallsInv, CallInv
    <3>2. st[l[v].who] = "UNUSED" /\ fd[l[v].who] = fd[v] /\ \A w \in Tasks : l[w].next = "fork" => w = v
      BY <2>2, <3>1 DEF ForkInv
    <3> QED BY <1>4, <1>5, <3>1, <3>2 DEF MoveFrame
  <2>4. \A p \in Pipes, e \in Ends : Refs(p, e)' = Refs(p, e)
    BY <1>5, <1>6, SameRefs DEF MoveFrame
  <2>5. RefInv'
    BY <2>2, <2>4 DEF RefInv, MoveFrame
  <2> QED BY <2>3, <2>5
<1> QED BY <1>3, <1>7 DEF PipeInv

(* The names at the ends, in the steps of read and write.                  *)
LEMMA SameNames ==
  ASSUME CallsInv, NEW t \in Tasks, MoveFrame(t),
         \A p \in Pipes : pipe'[p].blk = pipe[p].blk,
         pc[t] \in {"block", "unmark"} => pc'[t] = "unmark" /\ Stays(t)
  PROVE  NamesInv'
<1>1. NamesInv
  BY DEF CallsInv
<1>2. \A v \in Tasks : v # t => pc'[v] = pc[v] /\ l'[v] = l[v]
  BY DEF MoveFrame
<1>3. \A p \in Pipes, e \in Ends : pipe'[p].blk[e] = t =>
        pc'[t] \in {"block", "unmark"} /\ l'[t].p = p /\ l'[t].end = e
  BY <1>1 DEF NamesInv, Stays
<1> QED BY <1>1, <1>2, <1>3, OthersNames

LEMMA MarkBlk ==
  ASSUME TypesInv, NEW q \in Pipes, NEW d \in Ends, NEW x \in Tasks \cup {None},
         pipe' = [pipe EXCEPT ![q].blk[d] = x]
  PROVE  \A p \in Pipes, e \in Ends :
           pipe'[p].blk[e] = IF p = q /\ e = d THEN x ELSE pipe[p].blk[e]
<1>1. pipe[q] \in PipeRecords
  BY DEF TypesInv
<1> DEFINE y == [pipe[q] EXCEPT !.blk[d] = x]
<1>2. \A p \in Pipes : pipe'[p] = IF p = q THEN y ELSE pipe[p]
  BY DEF TypesInv
<1>3. \A e \in Ends : y.blk[e] = IF e = d THEN x ELSE pipe[q].blk[e]
  BY <1>1 DEF PipeRecords
<1> HIDE DEF y
<1> TAKE p \in Pipes, e \in Ends
<1>4. CASE p = q
  BY <1>2, <1>3, <1>4
<1>5. CASE p # q
  BY <1>2, <1>5
<1> QED BY <1>4, <1>5

LEMMA WaitNames ==
  ASSUME CallsInv, NEW t \in Tasks, NEW e \in Ends, Wait(t, e)
  PROVE  NamesInv'
<1>1. MoveFrame(t) /\ TypesInv /\ TypesInv' /\ l[t].end = e
  BY WaitFrame DEF CallsInv
<1>2. l[t].p \in Pipes /\ NamesInv
  BY <1>1, Fields DEF CallsInv
<1>3. CASE TestCount(t, e) \/ TestOpen(t, e) \/ Block(t, e)
  <2>1. pipe' = pipe /\ (pc[t] \in {"block", "unmark"} => pc'[t] = "unmark" /\ Stays(t))
    BY <1>1, <1>3 DEF TestCount, TestOpen, Block, AtEnd, At, Goto, Stays, TypesInv
  <2> QED BY <1>1, <2>1, SameNames
<1>4. \A v \in Tasks : v # t => pc'[v] = pc[v] /\ l'[v] = l[v]
  BY <1>1 DEF MoveFrame
<1>5. CASE Mark(t, e)
  <2>1. pipe' = [pipe EXCEPT ![l[t].p].blk[e] = t] /\ pc[t] = "mark" /\ l' = l /\ Goto(t, "block")
    BY <1>5 DEF Mark, AtEnd, At
  <2>2. \A p \in Pipes, d \in Ends :
           pipe'[p].blk[d] = IF p = l[t].p /\ d = e THEN t ELSE pipe[p].blk[d]
    <3>1. PICK q \in Pipes : q = l[t].p
      BY <1>2
    <3>2. pipe' = [pipe EXCEPT ![q].blk[e] = t] /\ TypesInv /\ t \in Tasks \cup {None}
      BY <1>1, <2>1, <3>1
    <3>3. \A p \in Pipes, d \in Ends :
            pipe'[p].blk[d] = IF p = q /\ d = e THEN t ELSE pipe[p].blk[d]
      BY <3>2, MarkBlk
    <3> QED BY <3>1, <3>3
  <2>3. pc'[t] = "block"
    BY <1>1, <2>1 DEF Goto, TypesInv
  <2>4. \A p \in Pipes, d \in Ends : pipe[p].blk[d] # t
    BY <1>2, <2>1 DEF NamesInv
  <2>5. \A p \in Pipes, d \in Ends : pipe'[p].blk[d] = t =>
           pc'[t] \in {"block", "unmark"} /\ l'[t].p = p /\ l'[t].end = d
    BY <1>1, <2>1, <2>2, <2>3, <2>4
  <2> QED BY <1>2, <1>4, <2>2, <2>5, OthersNames
<1>6. CASE Unmark(t, e)
  <2>1. pipe' = [pipe EXCEPT ![l[t].p].blk[e] = None]
    BY <1>6 DEF Unmark
  <2>2. \A p \in Pipes, d \in Ends :
           pipe'[p].blk[d] = IF p = l[t].p /\ d = e THEN None ELSE pipe[p].blk[d]
    <3>1. PICK q \in Pipes : q = l[t].p
      BY <1>2
    <3>2. pipe' = [pipe EXCEPT ![q].blk[e] = None] /\ TypesInv /\ None \in Tasks \cup {None}
      BY <1>1, <2>1, <3>1
    <3>3. \A p \in Pipes, d \in Ends :
            pipe'[p].blk[d] = IF p = q /\ d = e THEN None ELSE pipe[p].blk[d]
      BY <3>2, MarkBlk
    <3> QED BY <3>1, <3>3
  <2>3. \A p \in Pipes, d \in Ends : pipe'[p].blk[d] # t
    BY <1>1, <1>2, <2>2, Sizes DEF NamesInv
  <2>4. \A p \in Pipes, d \in Ends, v \in Tasks : pipe'[p].blk[d] = v => pipe[p].blk[d] = v
    BY <2>2, Sizes
  <2> QED BY <1>2, <1>4, <2>3, <2>4, OthersNames
<1> QED BY <1>3, <1>5, <1>6 DEF Wait

LEMMA MoveNames ==
  ASSUME CallsInv, NEW t \in Tasks, NEW e \in Ends, Move(t, e)
  PROVE  NamesInv'
<1>1. MoveFrame(t) /\ TypesInv /\ TypesInv' /\ l[t].end = e
  BY MoveFrames DEF CallsInv
<1>2. l[t].p \in Pipes /\ NamesInv
  BY <1>1, Fields DEF CallsInv
<1>3. CASE LoadCount(t, e) \/ StoreCount(t, e) \/ Wake(t, e)
  <2>1. pc[t] \notin {"block", "unmark"}
    BY <1>3 DEF LoadCount, StoreCount, Wake, AtEnd, At
  <2>2. \A p \in Pipes : pipe'[p].blk = pipe[p].blk
    <3>1. CASE pipe' = pipe
      BY <3>1
    <3>2. CASE StoreCount(t, e)
      <4> DEFINE n == IF e = "r" THEN l[t].c - 1 ELSE l[t].c + l[t].chunk
                 y == [pipe[l[t].p] EXCEPT !.count = n]
      <4>1. pipe' = [pipe EXCEPT ![l[t].p] = y]
        BY <3>2 DEF StoreCount
      <4> HIDE DEF n
      <4>2. y.blk = pipe[l[t].p].blk
        BY <1>1, <1>2 DEF TypesInv, PipeRecords
      <4> HIDE DEF y
      <4> QED BY <1>1, <1>2, <4>1, <4>2 DEF TypesInv
    <3> QED BY <1>3, <3>1, <3>2 DEF LoadCount, Wake
  <2> QED BY <1>1, <2>1, <2>2, SameNames
<1>4. CASE Clear(t, e)
  <2>1. pipe' = [pipe EXCEPT ![l[t].p].blk[Other(e)] = None] /\ pc[t] = "clear"
    BY <1>4 DEF Clear, AtEnd, At
  <2>2. \A p \in Pipes, d \in Ends :
           pipe'[p].blk[d] = IF p = l[t].p /\ d = Other(e) THEN None ELSE pipe[p].blk[d]
    <3>1. PICK q \in Pipes, o \in Ends : q = l[t].p /\ o = Other(e)
      BY <1>2, Sizes
    <3>2. pipe' = [pipe EXCEPT ![q].blk[o] = None] /\ TypesInv /\ None \in Tasks \cup {None}
      BY <1>1, <2>1, <3>1
    <3>3. \A p \in Pipes, d \in Ends :
            pipe'[p].blk[d] = IF p = q /\ d = o THEN None ELSE pipe[p].blk[d]
      BY <3>2, MarkBlk
    <3> QED BY <3>1, <3>3
  <2>3. \A p \in Pipes, d \in Ends : pipe'[p].blk[d] # t
    BY <1>2, <2>1, <2>2, Sizes DEF NamesInv
  <2>4. \A p \in Pipes, d \in Ends, v \in Tasks : pipe'[p].blk[d] = v => pipe[p].blk[d] = v
    BY <2>2, Sizes
  <2>5. \A v \in Tasks : v # t => pc'[v] = pc[v] /\ l'[v] = l[v]
    BY <1>1 DEF MoveFrame
  <2> QED BY <1>2, <2>3, <2>4, <2>5, OthersNames
<1> QED BY <1>3, <1>4 DEF Move

LEMMA CopyNames ==
  ASSUME CallsInv, NEW t \in Tasks, Take(t) \/ Put(t)
  PROVE  NamesInv'
<1>1. MoveFrame(t) /\ TypesInv /\ TypesInv' /\ pc[t] = "copy"
  BY CopyFrame DEF CallsInv
<1>2. l[t].p \in Pipes
  BY <1>1, Fields
<1>3. \A p \in Pipes : pipe'[p].blk = pipe[p].blk
  <2>1. CASE Take(t)
    <3> DEFINE n == Advance(pipe[l[t].p].tail, 1)
               y == [pipe[l[t].p] EXCEPT !.tail = n]
    <3>1. pipe' = pipe \/ pipe' = [pipe EXCEPT ![l[t].p] = y]
      BY <2>1 DEF Take
    <3> HIDE DEF n
    <3>2. y.blk = pipe[l[t].p].blk
      BY <1>1, <1>2 DEF TypesInv, PipeRecords
    <3> HIDE DEF y
    <3> QED BY <1>1, <1>2, <3>1, <3>2 DEF TypesInv
  <2>2. CASE Put(t)
    <3> DEFINE q == l[t].p
               b == [i \in 0 .. N - 1 |-> IF (i - pipe[q].head) % N < l[t].chunk
                                          THEN sent[q] + 1 + ((i - pipe[q].head) % N)
                                          ELSE pipe[q].buf[i]]
               h == Advance(pipe[q].head, l[t].chunk)
               y == [pipe[q] EXCEPT !.buf = b, !.head = h]
    <3>1. pipe' = [pipe EXCEPT ![q] = y]
      BY <1>1, <1>2, <2>2 DEF Put, TypesInv
    <3> HIDE DEF b, h
    <3>2. y.blk = pipe[q].blk
      BY <1>1, <1>2 DEF TypesInv, PipeRecords
    <3> HIDE DEF y
    <3> QED BY <1>1, <1>2, <3>1, <3>2 DEF TypesInv
  <2> QED BY <2>1, <2>2
<1> QED BY <1>1, <1>3, SameNames

(* A kill only makes a blocked task READY.                                 *)
LEMMA KillFrame ==
  ASSUME CallsInv, NEW t \in Tasks, NEW u \in Tasks, Kill(t, u)
  PROVE  /\ TypesInv' /\ MoveFrame(t) /\ pc[t] = "user" /\ u # t /\ st[u] = "BLOCKED" /\ st'[u] = "READY"
         /\ UNCHANGED <<pipe, fd, pc, l, sent, got, garbled, missed, raced, leaked>>
         /\ \A v \in Tasks : v # u => st'[v] = st[v]
<1>1. TypesInv /\ CallInv(t)
  BY DEF CallsInv
<1>2. /\ UNCHANGED <<pipe, fd, pc, l, sent, got, garbled, missed, raced, leaked>>
      /\ pc[t] = "user" /\ st[t] = "READY" /\ st[u] = "BLOCKED" /\ st' = [st EXCEPT ![u] = "READY"]
  BY DEF Kill, At, hist
<1>3. u # t
  BY <1>2
<1>4. st' \in [Tasks -> {"UNUSED", "READY", "BLOCKED", "ZOMBIE"}] /\ st'[u] = "READY"
      /\ \A v \in Tasks : v # u => st'[v] = st[v]
  BY <1>1, <1>2 DEF TypesInv
<1>5. TypesInv'
  BY <1>1, <1>2, <1>4 DEF TypesInv
<1>6. l[t].next = "user"
  BY <1>1, <1>2, Fields DEF CallInv, Closings, Given, Incs
<1>7. MoveFrame(t)
  BY <1>2, <1>3, <1>4, <1>6 DEF MoveFrame, Moving
<1> QED BY <1>2, <1>3, <1>4, <1>5, <1>7

(* The steps of read and write, and a kill, keep the invariant.            *)
LEMMA MovesInv ==
  ASSUME PipeInv, NEW t \in Tasks,
         \/ \E e \in Ends : Wait(t, e) \/ Move(t, e)
         \/ Take(t) \/ Put(t)
         \/ \E f \in Fds, n \in 1 .. MaxLen : Read(t, f, n) \/ Write(t, f, n)
         \/ \E u \in Tasks : Kill(t, u)
  PROVE  PipeInv' /\ MoveFrame(t)
<1>1. CallsInv
  BY DEF PipeInv
<1>2. TypesInv' /\ MoveFrame(t) /\ NamesInv'
  <2>1. CASE \E e \in Ends : Wait(t, e) \/ Move(t, e)
    BY <1>1, <2>1, WaitFrame, WaitNames, MoveFrames, MoveNames
  <2>2. CASE Take(t) \/ Put(t)
    BY <1>1, <2>2, CopyFrame, CopyNames
  <2>3. CASE \E f \in Fds, n \in 1 .. MaxLen : Read(t, f, n) \/ Write(t, f, n)
    <3>1. PICK f \in Fds, n \in 1 .. MaxLen, e \in Ends : Begin(t, e, f, n)
      BY <2>3 DEF Read, Write, Ends
    <3>2. TypesInv' /\ MoveFrame(t) /\ pipe' = pipe /\ pc[t] = "user"
      BY <1>1, <3>1, BeginFrame
    <3> QED BY <1>1, <3>2, SameNames
  <2>4. CASE \E u \in Tasks : Kill(t, u)
    <3>1. TypesInv' /\ MoveFrame(t) /\ pipe' = pipe /\ pc[t] = "user"
      BY <1>1, <2>4, KillFrame
    <3> QED BY <1>1, <3>1, SameNames
  <2> QED BY <2>1, <2>2, <2>3, <2>4
<1> QED BY <1>2, MoveCalls

-----------------------------------------------------------------------------
(* The calls that change descriptors.                                      *)

FdFrame(t) ==
  /\ pc[t] \notin {"block", "unmark"}
  /\ \A v \in Tasks : v # t =>
       /\ pc'[v] = pc[v] /\ l'[v] = l[v]
       /\ pc[v] # "user" => fd'[v] = fd[v] /\ st'[v] \in {st[v], "READY"}
       /\ st'[v] = "BLOCKED" => st[v] = "BLOCKED"
  /\ \A p \in Pipes, e \in Ends : pipe'[p].blk[e] \in {pipe[p].blk[e], None}

LEMMA FdCalls ==
  ASSUME CallsInv, NEW t \in Tasks, FdFrame(t), TypesInv', CallInv(t)'
  PROVE  CallsInv'
<1>1. ASSUME NEW v \in Tasks PROVE CallInv(v)'
  <2>1. CASE v # t
    BY <2>1, OthersCalls DEF FdFrame
  <2> QED BY <2>1
<1>2. NamesInv'
  <2>1. NamesInv
    BY DEF CallsInv
  <2>2. \A p \in Pipes, e \in Ends : pipe'[p].blk[e] # t
    BY <2>1, Sizes DEF FdFrame, NamesInv
  <2>3. \A p \in Pipes, e \in Ends, v \in Tasks : pipe'[p].blk[e] = v => pipe[p].blk[e] = v
    BY Sizes DEF FdFrame
  <2>4. \A v \in Tasks : v # t => pc'[v] = pc[v] /\ l'[v] = l[v]
    BY DEF FdFrame
  <2> QED BY <2>1, <2>2, <2>3, <2>4, OthersNames
<1> QED BY <1>1, <1>2 DEF CallsInv

(* A step that counts nothing and changes no descriptor.                   *)
LEMMA QuietRefs ==
  ASSUME PipeInv, CallsInv', fd' = fd, leaked' = leaked, NoRefLost' => NoRefLost,
         \A v \in Tasks : (st'[v] = "UNUSED") <=> (st[v] = "UNUSED"),
         \A v \in Tasks : Uncounted(v)' = Uncounted(v) /\ Filled(v)' = Filled(v),
         \A v \in Tasks : l'[v].next = "fork" => l[v].next = "fork" /\ l'[v].who = l[v].who,
         \A p \in Pipes : /\ pipe'[p].used = pipe[p].used /\ pipe'[p].open = pipe[p].open
                          /\ pipe'[p].ref = pipe[p].ref
  PROVE  PipeInv'
<1>1. ASSUME NoRefLost' PROVE ForkInv' /\ RefInv'
  <2>2. ForkInv /\ RefInv /\ CallsInv
    BY <1>1 DEF PipeInv
  <2>3. ForkInv'
    <3> SUFFICES ASSUME NEW v \in Tasks, l'[v].next = "fork"
                 PROVE  /\ st'[l'[v].who] = "UNUSED" /\ fd'[l'[v].who] = fd'[v]
                        /\ \A w \in Tasks : l'[w].next = "fork" => w = v
      BY DEF ForkInv
    <3>1. l'[v].who = l[v].who /\ l[v].next = "fork" /\ l[v].who \in Tasks
      BY <2>2 DEF CallsInv, CallInv
    <3>2. st[l[v].who] = "UNUSED" /\ fd[l[v].who] = fd[v] /\ \A w \in Tasks : l[w].next = "fork" => w = v
      BY <2>2, <3>1 DEF ForkInv
    <3> QED BY <3>1, <3>2
  <2>4. \A p \in Pipes, e \in Ends : Refs(p, e)' = Refs(p, e)
    BY SameRefs
  <2>5. RefInv'
    BY <2>2, <2>4 DEF RefInv
  <2> QED BY <2>3, <2>5
<1> QED BY <1>1 DEF PipeInv

(* The same, for a step of t that changes the pipes and states in no way.  *)
LEMMA StillRefs ==
  ASSUME PipeInv, NEW t \in Tasks, UNCHANGED <<pipe, fd, raced, leaked>>, TypesInv', CallInv(t)',
         \A v \in Tasks : v # t => pc'[v] = pc[v] /\ l'[v] = l[v] /\ st'[v] = st[v],
         st[t] = "READY", st'[t] # "UNUSED", pc[t] \notin {"block", "unmark"},
         Uncounted(t)' = Uncounted(t) /\ Filled(t)' = Filled(t),
         l'[t].next = "fork" => l[t].next = "fork" /\ l'[t].who = l[t].who
  PROVE  PipeInv'
<1>1. CallsInv
  BY DEF PipeInv
<1>2. FdFrame(t)
  BY DEF FdFrame
<1>3. CallsInv'
  BY <1>1, <1>2, FdCalls
<1>4. \A v \in Tasks : Uncounted(v)' = Uncounted(v) /\ Filled(v)' = Filled(v)
  <2> TAKE v \in Tasks
  <2>1. CASE v # t
    BY <2>1 DEF Uncounted, Filled
  <2> QED BY <2>1
<1>5. NoRefLost' => NoRefLost
  BY DEF NoRefLost
<1>6. \A v \in Tasks : (st'[v] = "UNUSED") <=> (st[v] = "UNUSED")
  <2> TAKE v \in Tasks
  <2> QED OBVIOUS
<1>7. \A v \in Tasks : l'[v].next = "fork" => l[v].next = "fork" /\ l'[v].who = l[v].who
  <2> TAKE v \in Tasks
  <2> QED OBVIOUS
<1> QED BY <1>3, <1>4, <1>5, <1>6, <1>7, QuietRefs

LEMMA WorkType ==
  ASSUME NEW T \in SUBSET Fds, NEW n \in {"user", "exit", "dup", "fork"}, NEW w \in Nat, NEW k \in Nat
  PROVE  /\ Work(T, n, w, k) \in Locals /\ Work(T, n, w, k).todo = T /\ Work(T, n, w, k).next = n
         /\ Work(T, n, w, k).who = w /\ Work(T, n, w, k).len = k
<1>1. 0 \in Pipes /\ 0 \in Fds
  BY Sizes
<1> QED BY <1>1 DEF Work, Locals

LEMMA CallsBegin ==
  ASSUME PipeInv, NEW t \in Tasks,
         \/ \E f \in Fds : Close(t, f) \/ \E g \in DupTo : Dup2(t, f, g)
         \/ Exit(t)
  PROVE  PipeInv'
<1>1. CallsInv /\ TypesInv
  BY DEF PipeInv, CallsInv
<1>2. At(t, "user") /\ UNCHANGED <<pipe, fd, st, sent, got, garbled, missed, raced, leaked>> /\ Goto(t, "close")
  BY DEF Close, Exit, Dup2, Closing, hist
<1>3. PICK T \in SUBSET Fds, n \in {"user", "exit", "dup"}, w \in Nat, k \in Nat :
        /\ l' = [l EXCEPT ![t] = Work(T, n, w, k)]
        /\ T \subseteq PipeFds(t)
        /\ n = "dup" => /\ w \in PipeFds(t) \ T /\ k \in Fds \ {w}
                        /\ k \in T \/ fd[t][k] = Shut
  <2>1. CASE \E f \in Fds : Close(t, f)
    <3>1. PICK f \in Fds : Close(t, f)
      BY <2>1
    <3>2. l' = [l EXCEPT ![t] = Work({f}, "user", 0, 0)] /\ {f} \subseteq PipeFds(t) /\ {f} \in SUBSET Fds
      BY <3>1 DEF Close, Closing
    <3> QED BY <3>2
  <2>2. CASE Exit(t)
    <3>2. l' = [l EXCEPT ![t] = Work(PipeFds(t), "exit", 0, 0)]
      BY <2>2 DEF Exit, Closing
    <3>3. PipeFds(t) \in SUBSET Fds
      BY DEF PipeFds
    <3> QED BY <3>2, <3>3
  <2>3. CASE \E f \in Fds : \E g \in DupTo : Dup2(t, f, g)
    <3>1. PICK f \in Fds, g \in DupTo : Dup2(t, f, g)
      BY <2>3
    <3>2. /\ l' = [l EXCEPT ![t] = Work({g} \cap PipeFds(t), "dup", f, g)]
          /\ f \in PipeFds(t) /\ f # g
      BY <3>1 DEF Dup2
    <3>3. g \in Fds /\ f \in Nat /\ g \in Nat
      BY Sizes
    <3>4. {g} \cap PipeFds(t) \in SUBSET Fds /\ (g \in {g} \cap PipeFds(t) \/ fd[t][g] = Shut)
          /\ f \notin {g} \cap PipeFds(t)
      BY <3>2, <3>3 DEF PipeFds
    <3> QED BY <3>2, <3>3, <3>4
  <2> QED BY <2>1, <2>2, <2>3
<1> DEFINE x == Work(T, n, w, k)
<1>4. x \in Locals /\ x.todo = T /\ x.next = n /\ x.who = w /\ x.len = k
  <2>1. n \in {"user", "exit", "dup", "fork"}
    OBVIOUS
  <2> QED BY <2>1, WorkType
<1>5. l' = [l EXCEPT ![t] = x]
  BY <1>3
<1> HIDE DEF x
<1>6. l' \in [Tasks -> Locals] /\ l'[t] = x /\ \A v \in Tasks : v # t => l'[v] = l[v]
  BY <1>1, <1>4, <1>5, UpdateLocals
<1>7. /\ pc' \in [Tasks -> {"user", "create"} \cup Moving \cup Closings \cup Incs]
      /\ pc'[t] = "close" /\ \A v \in Tasks : v # t => pc'[v] = pc[v]
  BY <1>1, <1>2, UpdatePc DEF Closings
<1>8. TypesInv'
  BY <1>1, <1>2, <1>6, <1>7 DEF TypesInv
<1>9. CallInv(t)'
  <2>1. FreeFds(t)' = FreeFds(t) /\ PipeFds(t)' = PipeFds(t)
    BY <1>2 DEF FreeFds, PipeFds
  <2> QED BY <1>2, <1>3, <1>4, <1>6, <1>7, <2>1 DEF CallInv, At, Moving, Closings, Given, Incs
<1>10. Uncounted(t)' = Uncounted(t) /\ Filled(t)' = Filled(t)
  <2>1. l[t].next # "fork"
    BY <1>1, <1>2 DEF CallsInv, CallInv, At, Incs
  <2> QED BY <1>2, <1>4, <1>6, <1>7, <2>1 DEF Uncounted, Filled, Given, Incs, At
<1> QED BY <1>2, <1>4, <1>6, <1>7, <1>8, <1>9, <1>10, StillRefs DEF At

(* Updates of several local variables.                                     *)
SetFPC(y, f, p, c) == [y EXCEPT !.f = f, !.p = p, !.c = c]
LEMMA SetsFPC ==
  ASSUME NEW y \in Locals, NEW f \in Fds, NEW p \in Pipes, NEW c \in Int
  PROVE  LET z == SetFPC(y, f, p, c) IN
         /\ z \in Locals /\ z.f = f /\ z.p = p /\ z.c = c /\ z.todo = y.todo /\ z.next = y.next
         /\ z.who = y.who /\ z.len = y.len /\ z.end = y.end
<1> DEFINE x1 == [y EXCEPT !.f = f]
           x2 == [x1 EXCEPT !.p = p]
           x == [x2 EXCEPT !.c = c]
<1>1. x = SetFPC(y, f, p, c)
  BY DEF Locals, SetFPC
<1>2. x1 \in Locals /\ x1.f = f /\ x1.todo = y.todo /\ x1.next = y.next
      /\ x1.who = y.who /\ x1.len = y.len /\ x1.end = y.end
  BY DEF Locals
<1> HIDE DEF x1
<1>3. x2 \in Locals /\ x2.f = f /\ x2.p = p /\ x2.todo = y.todo /\ x2.next = y.next
      /\ x2.who = y.who /\ x2.len = y.len /\ x2.end = y.end
  BY <1>2 DEF Locals
<1> HIDE DEF x2
<1>4. x \in Locals /\ x.f = f /\ x.p = p /\ x.c = c /\ x.todo = y.todo /\ x.next = y.next
      /\ x.who = y.who /\ x.len = y.len /\ x.end = y.end
  BY <1>3 DEF Locals
<1> HIDE DEF x
<1> QED BY <1>1, <1>4

LEMMA LoadLocals ==
  ASSUME CallsInv, NEW t \in Tasks, LoadRef(t) \/ LoadInc(t)
  PROVE  /\ l' \in [Tasks -> Locals] /\ \A v \in Tasks : v # t => l'[v] = l[v]
         /\ l'[t].f \in l[t].todo /\ l'[t].p = fd[t][l'[t].f].p /\ l'[t].c \in Nat
         /\ l'[t].todo = l[t].todo /\ l'[t].next = l[t].next /\ l'[t].who = l[t].who
         /\ l'[t].len = l[t].len
<1> DEFINE f == Min(l[t].todo)
           d == fd[t][f]
           c == pipe[d.p].ref[d.end]
           x == SetFPC(l[t], f, d.p, c)
<1>1. TypesInv /\ CallInv(t)
  BY DEF CallsInv
<1>2. l[t].todo \subseteq PipeFds(t)
  BY <1>1 DEF CallInv, LoadRef, LoadInc, At, Closings, Incs
<1>3. f \in l[t].todo
  <2>1. l[t].todo \subseteq Nat /\ l[t].todo # {}
    BY <1>1, Fields DEF LoadRef, LoadInc
  <2> QED BY <2>1, MinIn
<1>4. f \in Fds /\ d.p \in Pipes /\ d.end \in Ends
  BY <1>1, <1>2, <1>3, Fields DEF PipeFds
<1>5. c \in Nat
  BY <1>1, <1>4, PipeFields
<1>6. l' = [l EXCEPT ![t] = x]
  BY DEF LoadRef, LoadInc, SetFPC
<1>7. d.p = fd[t][f].p
  OBVIOUS
<1> HIDE DEF f, c
<1>8. l[t] \in Locals /\ c \in Int
  BY <1>1, <1>5 DEF TypesInv
<1>9. /\ x \in Locals /\ x.f = f /\ x.p = d.p /\ x.c = c /\ x.todo = l[t].todo /\ x.next = l[t].next
      /\ x.who = l[t].who /\ x.len = l[t].len
  <2> HIDE DEF d
  <2> QED BY <1>4, <1>8, SetsFPC
<1> HIDE DEF x
<1>10. l' \in [Tasks -> Locals] /\ l'[t] = x /\ \A v \in Tasks : v # t => l'[v] = l[v]
  BY <1>1, <1>6, <1>9, UpdateLocals
<1> QED BY <1>3, <1>5, <1>9, <1>10

LEMMA LoadsInv ==
  ASSUME PipeInv, NEW t \in Tasks, LoadRef(t) \/ LoadInc(t)
  PROVE  PipeInv'
<1>1. CallsInv /\ TypesInv /\ CallInv(t)
  BY DEF PipeInv, CallsInv
<1>2. UNCHANGED <<pipe, fd, st, sent, got, garbled, missed, raced, leaked>>
      /\ \/ At(t, "close") /\ Goto(t, "cstore")
         \/ At(t, "inc") /\ Goto(t, "istore")
  BY DEF LoadRef, LoadInc, hist
<1>3. /\ pc' \in [Tasks -> {"user", "create"} \cup Moving \cup Closings \cup Incs]
      /\ pc'[t] = (IF pc[t] = "close" THEN "cstore" ELSE "istore")
      /\ \A v \in Tasks : v # t => pc'[v] = pc[v]
  BY <1>1, <1>2, UpdatePc DEF Closings, Incs, At
<1>4. TypesInv'
  BY <1>1, <1>2, <1>3, LoadLocals DEF TypesInv
<1>5. CallInv(t)'
  <2>1. FreeFds(t)' = FreeFds(t) /\ PipeFds(t)' = PipeFds(t)
    BY <1>2 DEF FreeFds, PipeFds
  <2>2. CASE At(t, "close") /\ pc'[t] = "cstore"
    BY <1>1, <1>2, <2>1, <2>2, LoadLocals DEF CallInv, At, Moving, Closings, Given, Incs
  <2>3. CASE At(t, "inc") /\ pc'[t] = "istore"
    BY <1>1, <1>2, <2>1, <2>3, LoadLocals DEF CallInv, At, Moving, Closings, Given, Incs
  <2> QED BY <1>2, <1>3, <2>2, <2>3 DEF At
<1>6. Uncounted(t)' = Uncounted(t) /\ Filled(t)' = Filled(t)
  BY <1>1, <1>2, <1>3, LoadLocals DEF Uncounted, Filled, Given, Incs, At
<1>7. st[t] = "READY" /\ st'[t] # "UNUSED" /\ pc[t] \notin {"block", "unmark"}
  BY <1>2 DEF At
<1>8. \A v \in Tasks : v # t => pc'[v] = pc[v] /\ l'[v] = l[v] /\ st'[v] = st[v]
  BY <1>1, <1>2, <1>3, LoadLocals
<1>9. l'[t].next = "fork" => l[t].next = "fork" /\ l'[t].who = l[t].who
  BY <1>1, LoadLocals
<1> QED BY <1>2, <1>4, <1>5, <1>6, <1>7, <1>8, <1>9, StillRefs

LEMMA SysPipeInv ==
  ASSUME PipeInv, NEW t \in Tasks, SysPipe(t)
  PROVE  PipeInv'
<1> DEFINE free == {p \in Pipes : ~pipe[p].used}
           x == [l[t] EXCEPT !.p = Min(free)]
<1>1. CallsInv /\ TypesInv /\ CallInv(t) /\ l[t] \in Locals
  BY DEF PipeInv, CallsInv, TypesInv
<1>2. UNCHANGED <<pipe, fd, st, sent, got, garbled, missed, raced, leaked>> /\ At(t, "user")
      /\ Goto(t, "create") /\ Cardinality(FreeFds(t)) >= 2 /\ free # {} /\ l' = [l EXCEPT ![t] = x]
  BY DEF SysPipe, hist
<1>3. Min(free) \in Pipes
  <2>1. free \subseteq Nat
    BY Sizes
  <2> HIDE DEF free
  <2>2. Min(free) \in free
    BY <1>2, <2>1, MinIn
  <2> QED BY <2>2 DEF free
<1> HIDE DEF free
<1>4. x \in Locals /\ x.next = l[t].next /\ x.who = l[t].who
  BY <1>1, <1>3 DEF Locals
<1> HIDE DEF x
<1>5. l' \in [Tasks -> Locals] /\ l'[t] = x /\ \A v \in Tasks : v # t => l'[v] = l[v]
  BY <1>1, <1>2, <1>4, UpdateLocals
<1>6. /\ pc' \in [Tasks -> {"user", "create"} \cup Moving \cup Closings \cup Incs]
      /\ pc'[t] = "create" /\ \A v \in Tasks : v # t => pc'[v] = pc[v]
  BY <1>1, <1>2, UpdatePc
<1>7. TypesInv'
  BY <1>1, <1>2, <1>5, <1>6 DEF TypesInv
<1>8. l[t].next = "user"
  BY <1>1, <1>2, Fields DEF CallInv, At, Closings, Given, Incs
<1>9. CallInv(t)'
  <2>1. FreeFds(t)' = FreeFds(t)
    BY <1>2 DEF FreeFds
  <2> QED BY <1>2, <1>4, <1>5, <1>6, <1>8, <2>1 DEF CallInv, At, Moving, Closings, Given, Incs
<1>10. Uncounted(t)' = Uncounted(t) /\ Filled(t)' = Filled(t)
  BY <1>2, <1>4, <1>5, <1>6, <1>8 DEF Uncounted, Filled, Given, Incs, At
<1> QED BY <1>2, <1>4, <1>5, <1>6, <1>7, <1>8, <1>9, <1>10, StillRefs DEF At

LEMMA TestShutInv ==
  ASSUME PipeInv, NEW t \in Tasks, TestShut(t)
  PROVE  PipeInv'
<1>1. CallsInv /\ TypesInv /\ CallInv(t)
  BY DEF PipeInv, CallsInv
<1>2. UNCHANGED <<pipe, fd, st, l, sent, got, garbled, missed, raced, leaked>> /\ At(t, "ctest")
  BY DEF TestShut, hist
<1>3. /\ pc' \in [Tasks -> {"user", "create"} \cup Moving \cup Closings \cup Incs]
      /\ pc'[t] \in {"cfree", "cdone"} /\ \A v \in Tasks : v # t => pc'[v] = pc[v]
  BY <1>1, UpdatePc DEF TestShut, Closings, Given
<1>4. TypesInv'
  BY <1>1, <1>2, <1>3 DEF TypesInv
<1>5. CallInv(t)'
  <2>1. FreeFds(t)' = FreeFds(t) /\ PipeFds(t)' = PipeFds(t)
    BY <1>2 DEF FreeFds, PipeFds
  <2> QED BY <1>1, <1>2, <1>3, <2>1 DEF CallInv, At, Moving, Closings, Given, Incs
<1>6. Uncounted(t)' = Uncounted(t) /\ Filled(t)' = Filled(t)
  BY <1>2, <1>3 DEF Uncounted, Filled, Given, At
<1> QED BY <1>2, <1>3, <1>4, <1>5, <1>6, StillRefs DEF At

-----------------------------------------------------------------------------
(* The reference counts.                                                   *)

LEMMA RefsFinite ==
  ASSUME NEW p, NEW e
  PROVE  IsFiniteSet(Refs(p, e)) /\ Cardinality(Refs(p, e)) \in Nat
         /\ (Cardinality(Refs(p, e)) = 0 <=> Refs(p, e) = {})
<1>1. IsFiniteSet(Tasks) /\ IsFiniteSet(Fds)
  BY Sizes, FS_Interval DEF Tasks, Fds
<1>2. IsFiniteSet(Tasks \X Fds)
  BY <1>1, FS_Product
<1>3. Refs(p, e) \subseteq Tasks \X Fds
  BY DEF Refs
<1>4. IsFiniteSet(Refs(p, e))
  BY <1>2, <1>3, FS_Subset
<1> HIDE DEF Refs
<1> QED BY <1>4, FS_CardinalityType, FS_EmptySet

(* An end without references has no descriptor that counts.                *)
LEMMA NoRefs ==
  ASSUME CallsInv, RefInv, NEW p \in Pipes, NEW e \in Ends, pipe[p].ref[e] = 0
  PROVE  Refs(p, e) = {}
<1>1. CASE pipe[p].used
  <2>1. 0 = Cardinality(Refs(p, e)) + leaked[p][e] /\ leaked[p][e] \in Nat
    BY <1>1 DEF RefInv, CallsInv, TypesInv
  <2>2. Cardinality(Refs(p, e)) \in Nat /\ (Cardinality(Refs(p, e)) = 0 <=> Refs(p, e) = {})
    BY RefsFinite
  <2> HIDE DEF Refs
  <2> QED BY <2>1, <2>2
<1>2. CASE ~pipe[p].used
  BY <1>2 DEF RefInv
<1> QED BY <1>1, <1>2

LEMMA ForkSame ==
  ASSUME CallsInv, ForkInv,
         \A v \in Tasks : st[v] = "UNUSED" => st'[v] = "UNUSED" /\ fd'[v] = fd[v],
         \A v \in Tasks : l'[v].next = "fork" =>
           l[v].next = "fork" /\ l'[v].who = l[v].who /\ fd'[v] = fd[v]
  PROVE  ForkInv'
<1> SUFFICES ASSUME NEW v \in Tasks, l'[v].next = "fork"
             PROVE  /\ st'[l'[v].who] = "UNUSED" /\ fd'[l'[v].who] = fd'[v]
                    /\ \A w \in Tasks : l'[w].next = "fork" => w = v
  BY DEF ForkInv
<1>1. l'[v].who = l[v].who /\ l[v].next = "fork" /\ l[v].who \in Tasks
  BY DEF CallsInv, CallInv
<1>2. st[l[v].who] = "UNUSED" /\ fd[l[v].who] = fd[v] /\ \A w \in Tasks : l[w].next = "fork" => w = v
  BY <1>1 DEF ForkInv
<1> QED BY <1>1, <1>2

(* Who closes a descriptor is not filled by a fork.                        *)
LEMMA NotFilled ==
  ASSUME CallsInv, ForkInv, NEW t \in Tasks, st[t] # "UNUSED"
  PROVE  \A v \in Tasks, f \in Fds : <<t, f>> \notin Filled(v)
BY DEF ForkInv, Filled

LEMMA ZeroInv ==
  ASSUME PipeInv, NEW t \in Tasks, Zero(t)
  PROVE  PipeInv'
<1> DEFINE q == l[t].p
           e == fd[t][l[t].f].end
           y == [pipe[q] EXCEPT !.open[e] = FALSE, !.blk[e] = None]
<1>1. CallsInv /\ TypesInv /\ CallInv(t)
  BY DEF PipeInv, CallsInv
<1>2. UNCHANGED <<fd, l, sent, got, garbled, missed, raced, leaked>> /\ At(t, "czero") /\ Goto(t, "ctest")
  BY DEF Zero, hist
<1>3. q \in Pipes /\ e \in Ends /\ pipe[q] \in PipeRecords
  <2>1. l[t].f \in Fds /\ fd[t][l[t].f] # Shut /\ l[t].p \in Pipes
    BY <1>1, <1>2, Fields DEF CallInv, At, Given, Closings, PipeFds
  <2> QED BY <1>1, <2>1, Fields, PipeFields
<1>4. /\ pc' \in [Tasks -> {"user", "create"} \cup Moving \cup Closings \cup Incs]
      /\ pc'[t] = "ctest" /\ \A v \in Tasks : v # t => pc'[v] = pc[v]
  BY <1>1, <1>2, UpdatePc DEF Closings, Given
<1>5. \/ pipe[q].ref[e] # 0 /\ UNCHANGED <<pipe, st>>
      \/ pipe[q].ref[e] = 0 /\ pipe' = [pipe EXCEPT ![q] = y] /\ st' = Woken(pipe[q].blk[e])
  BY <1>3 DEF Zero, PipeOf, TypesInv
<1> HIDE DEF q, e
<1>6. /\ y \in PipeRecords /\ y.used = pipe[q].used /\ y.ref = pipe[q].ref
      /\ \A d \in Ends : y.open[d] = (IF d = e THEN FALSE ELSE pipe[q].open[d])
      /\ \A d \in Ends : y.blk[d] \in {pipe[q].blk[d], None}
  <2> DEFINE z == [pipe[q] EXCEPT !.open[e] = FALSE]
  <2>1. /\ z \in PipeRecords /\ z.used = pipe[q].used /\ z.ref = pipe[q].ref
        /\ \A d \in Ends : z.open[d] = (IF d = e THEN FALSE ELSE pipe[q].open[d])
        /\ z.blk = pipe[q].blk
    BY <1>3 DEF PipeRecords
  <2>2. y = [z EXCEPT !.blk[e] = None]
    BY <1>3 DEF PipeRecords
  <2> HIDE DEF z, y
  <2>3. /\ y \in PipeRecords /\ y.used = z.used /\ y.ref = z.ref /\ y.open = z.open
        /\ \A d \in Ends : y.blk[d] \in {z.blk[d], None}
    BY <1>3, <2>1, <2>2 DEF PipeRecords
  <2> QED BY <2>1, <2>3
<1> HIDE DEF y
<1>7. /\ pipe' \in [Pipes -> PipeRecords]
      /\ \A p \in Pipes : pipe'[p].used = pipe[p].used /\ pipe'[p].ref = pipe[p].ref
      /\ \A p \in Pipes, d \in Ends :
           /\ pipe'[p].blk[d] \in {pipe[p].blk[d], None}
           /\ pipe'[p].open[d] = pipe[p].open[d] \/ pipe[p].ref[d] = 0
  <2>1. CASE UNCHANGED pipe
    BY <1>1, <2>1 DEF TypesInv
  <2>2. CASE pipe[q].ref[e] = 0 /\ pipe' = [pipe EXCEPT ![q] = y]
    <3>1. pipe' \in [Pipes -> PipeRecords] /\ pipe'[q] = y /\ \A p \in Pipes : p # q => pipe'[p] = pipe[p]
      BY <1>1, <1>3, <1>6, <2>2, UpdatePipe
    <3> QED BY <1>6, <2>2, <3>1
  <2> QED BY <1>5, <2>1, <2>2
<1>8. /\ st' \in [Tasks -> {"UNUSED", "READY", "BLOCKED", "ZOMBIE"}]
      /\ \A v \in Tasks : st'[v] = st[v] \/ (st[v] = "BLOCKED" /\ st'[v] = "READY")
  <2>1. pipe[q].blk[e] \in Tasks \cup {None}
    BY <1>3 DEF PipeRecords
  <2>2. CASE UNCHANGED st
    BY <1>1, <2>2 DEF TypesInv
  <2>3. CASE st' = Woken(pipe[q].blk[e])
    BY <1>1, <2>1, <2>3, WokenType
  <2> QED BY <1>5, <2>2, <2>3
<1>9. TypesInv'
  BY <1>1, <1>2, <1>4, <1>7, <1>8 DEF TypesInv
<1>10. CallInv(t)'
  <2>1. FreeFds(t)' = FreeFds(t) /\ PipeFds(t)' = PipeFds(t)
    BY <1>2 DEF FreeFds, PipeFds
  <2> QED BY <1>1, <1>2, <1>4, <1>8, <2>1 DEF CallInv, At, Moving, Closings, Given, Incs
<1>11. CallsInv'
  <2>1. FdFrame(t)
    BY <1>2, <1>4, <1>7, <1>8 DEF FdFrame, At
  <2> QED BY <1>1, <1>9, <1>10, <2>1, FdCalls
<1>12. ASSUME NoRefLost' PROVE ForkInv' /\ RefInv'
  <2>1. ForkInv /\ RefInv
    BY <1>2, <1>12 DEF NoRefLost, PipeInv
  <2>2. ForkInv'
    BY <1>1, <1>2, <1>8, <2>1, ForkSame
  <2>3. \A v \in Tasks : Uncounted(v)' = Uncounted(v) /\ Filled(v)' = Filled(v)
    <3> TAKE v \in Tasks
    <3>1. CASE v # t
      BY <1>2, <1>4, <3>1 DEF Uncounted, Filled
    <3>2. CASE v = t
      BY <1>2, <1>4, <3>2 DEF Uncounted, Filled, At, Given
    <3> QED BY <3>1, <3>2
  <2>4. \A p \in Pipes, d \in Ends : Refs(p, d)' = Refs(p, d)
    BY <1>2, <1>8, <2>3, SameRefs
  <2>5. RefInv'
    <3> SUFFICES ASSUME NEW p \in Pipes, NEW d \in Ends
                 PROVE  /\ pipe'[p].used => pipe'[p].ref[d] = Cardinality(Refs(p, d)') + leaked'[p][d]
                        /\ Refs(p, d)' # {} => pipe'[p].used /\ pipe'[p].open[d]
      BY DEF RefInv
    <3>1. pipe[p].ref[d] = 0 => Refs(p, d) = {}
      BY <1>1, <2>1, NoRefs
    <3> QED BY <1>2, <1>7, <2>1, <2>4, <3>1 DEF RefInv
  <2> QED BY <2>2, <2>5
<1> QED BY <1>11, <1>12 DEF PipeInv

LEMMA UnuseInv ==
  ASSUME PipeInv, NEW t \in Tasks, Unuse(t)
  PROVE  PipeInv'
<1> DEFINE q == l[t].p
           y == [pipe[q] EXCEPT !.used = FALSE]
<1>1. CallsInv /\ TypesInv /\ CallInv(t)
  BY DEF PipeInv, CallsInv
<1>2. UNCHANGED <<fd, l, st, sent, got, garbled, missed, leaked>> /\ At(t, "cfree") /\ Goto(t, "cdone")
      /\ pipe' = [pipe EXCEPT ![q] = y]
      /\ raced' = Raced("ref", \E e \in Ends : pipe[q].open[e])
  BY DEF Unuse, hist, PipeOf
<1>3. q \in Pipes /\ pipe[q] \in PipeRecords
  BY <1>1, Fields, PipeFields
<1>4. /\ pc' \in [Tasks -> {"user", "create"} \cup Moving \cup Closings \cup Incs]
      /\ pc'[t] = "cdone" /\ \A v \in Tasks : v # t => pc'[v] = pc[v]
  BY <1>1, <1>2, UpdatePc DEF Closings, Given
<1> HIDE DEF q
<1>5. /\ y \in PipeRecords /\ y.used = FALSE /\ y.ref = pipe[q].ref /\ y.open = pipe[q].open
      /\ y.blk = pipe[q].blk
  BY <1>3 DEF PipeRecords
<1> HIDE DEF y
<1>6. pipe' \in [Pipes -> PipeRecords] /\ pipe'[q] = y /\ \A p \in Pipes : p # q => pipe'[p] = pipe[p]
  BY <1>1, <1>2, <1>3, <1>5, UpdatePipe
<1>9. TypesInv'
  BY <1>1, <1>2, <1>4, <1>6 DEF TypesInv
<1>10. CallInv(t)'
  <2>1. FreeFds(t)' = FreeFds(t) /\ PipeFds(t)' = PipeFds(t)
    BY <1>2 DEF FreeFds, PipeFds
  <2> QED BY <1>1, <1>2, <1>4, <2>1 DEF CallInv, At, Moving, Closings, Given, Incs
<1>11. CallsInv'
  <2>1. FdFrame(t)
    BY <1>2, <1>4, <1>5, <1>6 DEF FdFrame, At
  <2> QED BY <1>1, <1>9, <1>10, <2>1, FdCalls
<1>12. ASSUME NoRefLost' PROVE ForkInv' /\ RefInv'
  <2>1. ForkInv /\ RefInv /\ \A e \in Ends : ~pipe[q].open[e]
    BY <1>2, <1>12 DEF NoRefLost, PipeInv, Raced
  <2>2. ForkInv'
    BY <1>1, <1>2, <2>1, ForkSame
  <2>3. \A v \in Tasks : Uncounted(v)' = Uncounted(v) /\ Filled(v)' = Filled(v)
    <3> TAKE v \in Tasks
    <3>1. CASE v # t
      BY <1>2, <1>4, <3>1 DEF Uncounted, Filled
    <3>2. CASE v = t
      BY <1>2, <1>4, <3>2 DEF Uncounted, Filled, At, Given
    <3> QED BY <3>1, <3>2
  <2>4. \A p \in Pipes, d \in Ends : Refs(p, d)' = Refs(p, d)
    BY <1>2, <2>3, SameRefs
  <2>5. RefInv'
    <3> SUFFICES ASSUME NEW p \in Pipes, NEW d \in Ends
                 PROVE  /\ pipe'[p].used => pipe'[p].ref[d] = Cardinality(Refs(p, d)') + leaked'[p][d]
                        /\ Refs(p, d)' # {} => pipe'[p].used /\ pipe'[p].open[d]
      BY DEF RefInv
    <3>1. CASE p # q
      BY <1>2, <1>6, <2>1, <2>4, <3>1 DEF RefInv
    <3>2. CASE p = q
      BY <1>3, <1>5, <1>6, <2>1, <2>4, <3>2 DEF RefInv
    <3> QED BY <3>1, <3>2
  <2> QED BY <2>2, <2>5
<1> QED BY <1>11, <1>12 DEF PipeInv

WithRef(q, d, x) == [pipe EXCEPT ![q].ref[d] = x]
LEMMA SetRef ==
  ASSUME TypesInv, NEW q \in Pipes, NEW d \in Ends, NEW x \in Nat, pipe' = WithRef(q, d, x)
  PROVE  /\ pipe' \in [Pipes -> PipeRecords]
         /\ \A p \in Pipes : /\ pipe'[p].used = pipe[p].used /\ pipe'[p].open = pipe[p].open
                             /\ pipe'[p].blk = pipe[p].blk /\ pipe'[p].count = pipe[p].count
                             /\ pipe'[p].head = pipe[p].head /\ pipe'[p].tail = pipe[p].tail
                             /\ pipe'[p].buf = pipe[p].buf
         /\ \A p \in Pipes, e \in Ends :
              pipe'[p].ref[e] = IF p = q /\ e = d THEN x ELSE pipe[p].ref[e]
<1> DEFINE y == [pipe[q] EXCEPT !.ref[d] = x]
<1>1. pipe[q] \in PipeRecords /\ pipe' = [pipe EXCEPT ![q] = y]
  BY DEF TypesInv, WithRef
<1>2. /\ y \in PipeRecords /\ y.used = pipe[q].used /\ y.open = pipe[q].open
      /\ y.blk = pipe[q].blk /\ y.count = pipe[q].count
      /\ y.head = pipe[q].head /\ y.tail = pipe[q].tail /\ y.buf = pipe[q].buf
      /\ \A e \in Ends : y.ref[e] = IF e = d THEN x ELSE pipe[q].ref[e]
  BY <1>1 DEF PipeRecords
<1> HIDE DEF y
<1>3. pipe' \in [Pipes -> PipeRecords] /\ pipe'[q] = y /\ \A p \in Pipes : p # q => pipe'[p] = pipe[p]
  BY <1>1, <1>2, UpdatePipe
<1>4. ASSUME NEW p \in Pipes, NEW e \in Ends
      PROVE  pipe'[p].ref[e] = IF p = q /\ e = d THEN x ELSE pipe[p].ref[e]
  <2>1. CASE p = q
    BY <1>2, <1>3, <2>1
  <2>2. CASE p # q
    BY <1>3, <2>2
  <2> QED BY <2>1, <2>2
<1>5. ASSUME NEW p \in Pipes
      PROVE  /\ pipe'[p].used = pipe[p].used /\ pipe'[p].open = pipe[p].open
             /\ pipe'[p].blk = pipe[p].blk /\ pipe'[p].count = pipe[p].count
             /\ pipe'[p].head = pipe[p].head /\ pipe'[p].tail = pipe[p].tail
             /\ pipe'[p].buf = pipe[p].buf
  <2>1. CASE p = q
    BY <1>2, <1>3, <2>1
  <2>2. CASE p # q
    BY <1>3, <2>2
  <2> QED BY <2>1, <2>2
<1> QED BY <1>3, <1>4, <1>5

(* One descriptor x less, or one more, counts.                             *)
LEMMA LessRefs ==
  ASSUME fd' = fd, NEW x \in Tasks \X Fds, Counted(x[1], x[2]),
         \A t \in Tasks, f \in Fds : Counted(t, f)' <=> Counted(t, f) /\ <<t, f>> # x
  PROVE  \A p \in Pipes, e \in Ends :
           /\ Refs(p, e)' = Refs(p, e) \ {x}
           /\ x \in Refs(p, e) <=> fd[x[1]][x[2]] = [end |-> e, p |-> p]
<1> TAKE p \in Pipes, e \in Ends
<1>1. \A y \in Tasks \X Fds : y[1] \in Tasks /\ y[2] \in Fds /\ y = <<y[1], y[2]>>
  OBVIOUS
<1>2. \A y \in Tasks \X Fds : y \in Refs(p, e)' <=> y \in Refs(p, e) /\ y # x
  BY <1>1 DEF Refs
<1>3. Refs(p, e)' \subseteq Tasks \X Fds /\ Refs(p, e) \subseteq Tasks \X Fds
  BY DEF Refs
<1>4. x \in Refs(p, e) <=> fd[x[1]][x[2]] = [end |-> e, p |-> p]
  BY DEF Refs
<1> QED BY <1>2, <1>3, <1>4

LEMMA MoreRefs ==
  ASSUME fd' = fd, NEW x \in Tasks \X Fds, ~Counted(x[1], x[2]),
         \A t \in Tasks, f \in Fds : Counted(t, f)' <=> Counted(t, f) \/ <<t, f>> = x
  PROVE  \A p \in Pipes, e \in Ends :
           IF fd[x[1]][x[2]] = [end |-> e, p |-> p]
           THEN Refs(p, e)' = Refs(p, e) \cup {x} /\ x \notin Refs(p, e)
           ELSE Refs(p, e)' = Refs(p, e)
<1> TAKE p \in Pipes, e \in Ends
<1>1. \A y \in Tasks \X Fds : y[1] \in Tasks /\ y[2] \in Fds /\ y = <<y[1], y[2]>>
  OBVIOUS
<1>2. \A y \in Tasks \X Fds : y # x => (y \in Refs(p, e)' <=> y \in Refs(p, e))
  BY <1>1 DEF Refs
<1>3. Refs(p, e)' \subseteq Tasks \X Fds /\ Refs(p, e) \subseteq Tasks \X Fds
  BY DEF Refs
<1>4. /\ x \notin Refs(p, e)
      /\ x \in Refs(p, e)' <=> fd[x[1]][x[2]] = [end |-> e, p |-> p]
  BY <1>1 DEF Refs
<1> HIDE DEF Refs
<1> QED BY <1>2, <1>3, <1>4

LEMMA StoreRefInv ==
  ASSUME PipeInv, NEW t \in Tasks, StoreRef(t)
  PROVE  PipeInv'
<1>1. CallsInv /\ TypesInv /\ CallInv(t)
  BY DEF PipeInv, CallsInv
<1>0. At(t, "cstore")
  BY DEF StoreRef
<1>3. PICK q \in Pipes, f \in Fds, e \in Ends, c \in Nat :
        /\ l[t].p = q /\ l[t].f = f /\ l[t].c = c /\ f \in l[t].todo
        /\ fd[t][f].end = e /\ fd[t][f] = [end |-> e, p |-> q]
  <2>1. l[t].f \in l[t].todo /\ l[t].todo \subseteq PipeFds(t) /\ l[t].p = fd[t][l[t].f].p /\ l[t].c \in Nat
    BY <1>1, <1>0 DEF CallInv, At, Given, Closings
  <2>2. l[t].f \in Fds /\ fd[t][l[t].f] # Shut
    BY <2>1 DEF PipeFds
  <2>3. l[t].p \in Pipes /\ fd[t][l[t].f].end \in Ends
        /\ fd[t][l[t].f] = [end |-> fd[t][l[t].f].end, p |-> l[t].p]
    BY <1>1, <2>1, <2>2, Fields
  <2> QED BY <2>1, <2>2, <2>3
<1> DEFINE y == [l[t] EXCEPT !.c = 0]
<1>2. /\ UNCHANGED <<fd, st, sent, got, garbled, missed, leaked>> /\ Goto(t, "czero")
      /\ pipe' = IF c > 0 THEN [pipe EXCEPT ![q].ref[e] = c - 1] ELSE pipe
      /\ raced' = Raced("ref", pipe[q].ref[e] # c)
      /\ l' = [l EXCEPT ![t] = y] /\ At(t, "cstore")
  BY <1>3 DEF StoreRef, hist, PipeOf
<1>4. /\ pc' \in [Tasks -> {"user", "create"} \cup Moving \cup Closings \cup Incs]
      /\ pc'[t] = "czero" /\ \A v \in Tasks : v # t => pc'[v] = pc[v]
  BY <1>1, <1>2, UpdatePc DEF Closings, Given
<1>5. /\ y \in Locals /\ y.todo = l[t].todo /\ y.f = f /\ y.p = q /\ y.next = l[t].next
      /\ y.who = l[t].who /\ y.len = l[t].len
  <2>1. l[t] \in Locals
    BY <1>1 DEF TypesInv
  <2> QED BY <1>3, <2>1 DEF Locals
<1> HIDE DEF y
<1>6. l' \in [Tasks -> Locals] /\ l'[t] = y /\ \A v \in Tasks : v # t => l'[v] = l[v]
  BY <1>1, <1>2, <1>5, UpdateLocals
<1>7. /\ pipe' \in [Pipes -> PipeRecords]
      /\ \A p \in Pipes : /\ pipe'[p].used = pipe[p].used /\ pipe'[p].open = pipe[p].open
                          /\ pipe'[p].blk = pipe[p].blk
      /\ \A p \in Pipes, d \in Ends : pipe'[p].ref[d] =
           IF p = q /\ d = e /\ c > 0 THEN c - 1 ELSE pipe[p].ref[d]
  <2>1. CASE c > 0
    <3>1. PICK x \in Nat : x = c - 1
      BY <2>1
    <3>2. pipe' = WithRef(q, e, x)
      BY <1>2, <2>1, <3>1 DEF WithRef
    <3>3. /\ pipe' \in [Pipes -> PipeRecords]
          /\ \A p \in Pipes : /\ pipe'[p].used = pipe[p].used /\ pipe'[p].open = pipe[p].open
                              /\ pipe'[p].blk = pipe[p].blk
          /\ \A p \in Pipes, d \in Ends :
               pipe'[p].ref[d] = IF p = q /\ d = e THEN x ELSE pipe[p].ref[d]
      BY <1>1, <3>2, SetRef
    <3>4. ASSUME NEW p \in Pipes, NEW d \in Ends
          PROVE  pipe'[p].ref[d] = IF p = q /\ d = e /\ c > 0 THEN c - 1 ELSE pipe[p].ref[d]
      BY <2>1, <3>1, <3>3
    <3> QED BY <3>3, <3>4
  <2>2. CASE ~(c > 0)
    BY <1>1, <1>2, <2>2 DEF TypesInv
  <2> QED BY <2>1, <2>2
<1>9. TypesInv'
  BY <1>1, <1>2, <1>4, <1>6, <1>7 DEF TypesInv
<1>10. CallInv(t)'
  <2>1. FreeFds(t)' = FreeFds(t) /\ PipeFds(t)' = PipeFds(t)
    BY <1>2 DEF FreeFds, PipeFds
  <2>2. l'[t].f \in l'[t].todo /\ l'[t].p = fd'[t][l'[t].f].p
    BY <1>2, <1>3, <1>5, <1>6
  <2> QED BY <1>1, <1>2, <1>4, <1>5, <1>6, <2>1, <2>2 DEF CallInv, At, Moving, Closings, Given, Incs
<1>11. CallsInv'
  <2>1. FdFrame(t)
    BY <1>2, <1>4, <1>6, <1>7 DEF FdFrame, At
  <2> QED BY <1>1, <1>9, <1>10, <2>1, FdCalls
<1>12. ASSUME NoRefLost' PROVE ForkInv' /\ RefInv'
  <2>1. ForkInv /\ RefInv /\ pipe[q].ref[e] = c
    BY <1>2, <1>12 DEF NoRefLost, PipeInv, Raced
  <2>0. \A v \in Tasks : l'[v].next = l[v].next /\ l'[v].who = l[v].who /\ l'[v].todo = l[v].todo
    <3> TAKE v \in Tasks
    <3> QED BY <1>5, <1>6
  <2>2. ForkInv'
    BY <1>1, <1>2, <2>0, <2>1, ForkSame
  <2>3. PICK x \in Tasks \X Fds : x = <<t, f>> /\ x[1] = t /\ x[2] = f
    <3>1. <<t, f>> \in Tasks \X Fds /\ <<t, f>>[1] = t /\ <<t, f>>[2] = f
      OBVIOUS
    <3> QED BY <3>1
  <2>4. \A u \in Tasks, g \in Fds : Counted(u, g)' <=> Counted(u, g) /\ <<u, g>> # x
    <3> TAKE u \in Tasks, g \in Fds
    <3>1. \A v \in Tasks : Filled(v)' = Filled(v)
      BY <2>0 DEF Filled
    <3>2. CASE u # t
      <4>1. Uncounted(u)' = Uncounted(u)
        BY <1>4, <1>6, <3>2 DEF Uncounted
      <4> QED BY <1>2, <2>3, <3>1, <3>2, <4>1 DEF Counted
    <3>3. CASE u = t
      <4>1. Uncounted(t)' = {f} /\ Uncounted(t) = {}
        BY <1>2, <1>4, <1>5, <1>6 DEF Uncounted, At, Given, Incs
      <4>2. \A v \in Tasks : <<t, g>> \notin Filled(v)
        BY <1>1, <1>2, <2>1, NotFilled DEF At
      <4> QED BY <1>2, <2>3, <3>1, <3>3, <4>1, <4>2 DEF Counted, At
    <3> QED BY <3>2, <3>3
  <2>5. Counted(x[1], x[2])
    BY <1>2, <2>3 DEF Counted, Uncounted, At, Given, Incs
  <2>6. \A p \in Pipes, d \in Ends :
           /\ Refs(p, d)' = Refs(p, d) \ {x}
           /\ x \in Refs(p, d) <=> fd[t][f] = [end |-> d, p |-> p]
    <3>1. \A p \in Pipes, d \in Ends :
            /\ Refs(p, d)' = Refs(p, d) \ {x}
            /\ x \in Refs(p, d) <=> fd[x[1]][x[2]] = [end |-> d, p |-> p]
      BY <1>2, <2>4, <2>5, LessRefs
    <3> QED BY <2>3, <3>1
  <2>7. RefInv'
    <3> SUFFICES ASSUME NEW p \in Pipes, NEW d \in Ends
                 PROVE  /\ pipe'[p].used => pipe'[p].ref[d] = Cardinality(Refs(p, d)') + leaked'[p][d]
                        /\ Refs(p, d)' # {} => pipe'[p].used /\ pipe'[p].open[d]
      BY DEF RefInv
    <3>1. CASE p # q \/ d # e
      <4>1. x \notin Refs(p, d)
        <5>1. [end |-> e, p |-> q] # [end |-> d, p |-> p]
          BY <3>1
        <5> QED BY <1>3, <2>6, <5>1
      <4>2. Refs(p, d)' = Refs(p, d)
        BY <2>6, <4>1
      <4> QED BY <1>2, <1>7, <2>1, <3>1, <4>2 DEF RefInv
    <3>2. CASE p = q /\ d = e
      <4>1. x \in Refs(p, d) /\ Refs(p, d)' = Refs(p, d) \ {x}
        BY <1>3, <2>6, <3>2
      <4>2. IsFiniteSet(Refs(p, d)) /\ Cardinality(Refs(p, d)) \in Nat
        BY RefsFinite
      <4>3. pipe[p].used /\ pipe[p].open[d] /\ c = Cardinality(Refs(p, d)) + leaked[p][d]
        BY <2>1, <3>2, <4>1 DEF RefInv
      <4>4. Cardinality(Refs(p, d)') = Cardinality(Refs(p, d)) - 1 /\ Cardinality(Refs(p, d)) # 0
        <5> HIDE DEF Refs
        <5> QED BY <4>1, <4>2, FS_RemoveElement, FS_EmptySet
      <4>5. leaked[p][d] \in Nat
        BY <1>1 DEF TypesInv
      <4>6. c > 0
        BY <4>2, <4>3, <4>4, <4>5
      <4>7. pipe'[p].ref[d] = c - 1
        BY <1>7, <3>2, <4>6
      <4> QED BY <1>2, <1>7, <4>2, <4>3, <4>4, <4>5, <4>7
    <3> QED BY <3>1, <3>2
  <2> QED BY <2>2, <2>7
<1> QED BY <1>11, <1>12 DEF PipeInv

(* A descriptor is done with.                                              *)
Dropped(y, f) == [y EXCEPT !.todo = @ \ {f}, !.f = 0, !.p = 0]
LEMMA DropsLocals ==
  ASSUME NEW y \in Locals, NEW f \in Fds
  PROVE  LET z == Dropped(y, f) IN
         /\ z \in Locals /\ z.todo = y.todo \ {f} /\ z.next = y.next
         /\ z.who = y.who /\ z.len = y.len /\ z.end = y.end
<1> DEFINE T == y.todo \ {f}
           x1 == [y EXCEPT !.todo = T]
           x2 == [x1 EXCEPT !.f = 0]
           x == [x2 EXCEPT !.p = 0]
<1>0. T \in SUBSET Fds /\ 0 \in Fds /\ 0 \in Pipes
  BY Sizes DEF Locals
<1>1. x = Dropped(y, f)
  BY DEF Locals, Dropped
<1> HIDE DEF T
<1>2. x1 \in Locals /\ x1.todo = T /\ x1.next = y.next
      /\ x1.who = y.who /\ x1.len = y.len /\ x1.end = y.end
  BY <1>0 DEF Locals
<1> HIDE DEF x1
<1>3. x2 \in Locals /\ x2.todo = T /\ x2.next = y.next
      /\ x2.who = y.who /\ x2.len = y.len /\ x2.end = y.end
  BY <1>0, <1>2 DEF Locals
<1> HIDE DEF x2
<1>4. x \in Locals /\ x.todo = T /\ x.next = y.next
      /\ x.who = y.who /\ x.len = y.len /\ x.end = y.end
  BY <1>0, <1>3 DEF Locals
<1> HIDE DEF x
<1> QED BY <1>1, <1>4 DEF T

LEMMA StoreIncCalls ==
  ASSUME PipeInv, NEW t \in Tasks, StoreInc(t)
  PROVE  /\ CallsInv' /\ UNCHANGED <<fd, st, leaked>> /\ At(t, "istore") /\ pc'[t] = "inc"
         /\ \A v \in Tasks : v # t => pc'[v] = pc[v] /\ l'[v] = l[v]
         /\ l'[t].todo = l[t].todo \ {l[t].f} /\ l'[t].next = l[t].next /\ l'[t].who = l[t].who
         /\ \E q \in Pipes, f \in Fds, e \in Ends, c \in Nat :
              /\ l[t].f = f /\ f \in l[t].todo /\ fd[t][f] = [end |-> e, p |-> q]
              /\ raced' = Raced("ref", pipe[q].ref[e] # c)
              /\ pipe' \in [Pipes -> PipeRecords]
              /\ \A p \in Pipes : pipe'[p].used = pipe[p].used /\ pipe'[p].open = pipe[p].open
              /\ \A p \in Pipes, d \in Ends : pipe'[p].ref[d] =
                   IF p = q /\ d = e THEN c + 1 ELSE pipe[p].ref[d]
<1>1. CallsInv /\ TypesInv /\ CallInv(t) /\ l[t] \in Locals
  BY DEF PipeInv, CallsInv, TypesInv
<1>0. At(t, "istore")
  BY DEF StoreInc
<1>3. PICK q \in Pipes, f \in Fds, e \in Ends, c \in Nat :
        /\ l[t].p = q /\ l[t].f = f /\ l[t].c = c /\ f \in l[t].todo
        /\ fd[t][f].end = e /\ fd[t][f] = [end |-> e, p |-> q]
  <2>1. l[t].f \in l[t].todo /\ l[t].todo \subseteq PipeFds(t) /\ l[t].p = fd[t][l[t].f].p /\ l[t].c \in Nat
    BY <1>1, <1>0 DEF CallInv, At, Incs
  <2>2. l[t].f \in Fds /\ fd[t][l[t].f] # Shut
    BY <2>1 DEF PipeFds
  <2>3. l[t].p \in Pipes /\ fd[t][l[t].f].end \in Ends
        /\ fd[t][l[t].f] = [end |-> fd[t][l[t].f].end, p |-> l[t].p]
    BY <1>1, <2>1, <2>2, Fields
  <2> QED BY <2>1, <2>2, <2>3
<1> DEFINE z == Dropped(l[t], f)
           y == [z EXCEPT !.c = 0]
<1>2. /\ UNCHANGED <<fd, st, sent, got, garbled, missed, leaked>> /\ Goto(t, "inc")
      /\ pipe' = WithRef(q, e, c + 1)
      /\ raced' = Raced("ref", pipe[q].ref[e] # c)
  BY <1>3 DEF StoreInc, hist, PipeOf, WithRef
<1>20. l' = [l EXCEPT ![t] = y]
  <2>1. y = [l[t] EXCEPT !.todo = @ \ {f}, !.f = 0, !.p = 0, !.c = 0]
    BY <1>1 DEF Dropped, Locals
  <2> QED BY <1>3, <2>1 DEF StoreInc
<1>4. /\ pc' \in [Tasks -> {"user", "create"} \cup Moving \cup Closings \cup Incs]
      /\ pc'[t] = "inc" /\ \A v \in Tasks : v # t => pc'[v] = pc[v]
  BY <1>1, <1>2, UpdatePc DEF Incs
<1>50. /\ z \in Locals /\ z.todo = l[t].todo \ {f} /\ z.next = l[t].next
       /\ z.who = l[t].who /\ z.len = l[t].len
  BY <1>1, DropsLocals
<1> HIDE DEF z
<1>5. /\ y \in Locals /\ y.todo = l[t].todo \ {f} /\ y.next = l[t].next
      /\ y.who = l[t].who /\ y.len = l[t].len
  BY <1>50 DEF Locals
<1> HIDE DEF y
<1>6. l' \in [Tasks -> Locals] /\ l'[t] = y /\ \A v \in Tasks : v # t => l'[v] = l[v]
  BY <1>1, <1>20, <1>5, UpdateLocals
<1>7. /\ pipe' \in [Pipes -> PipeRecords]
      /\ \A p \in Pipes : /\ pipe'[p].used = pipe[p].used /\ pipe'[p].open = pipe[p].open
                          /\ pipe'[p].blk = pipe[p].blk
      /\ \A p \in Pipes, d \in Ends : pipe'[p].ref[d] =
           IF p = q /\ d = e THEN c + 1 ELSE pipe[p].ref[d]
  <2>1. PICK x \in Nat : x = c + 1
    OBVIOUS
  <2>2. pipe' = WithRef(q, e, x)
    BY <1>2, <2>1
  <2>3. /\ pipe' \in [Pipes -> PipeRecords]
        /\ \A p \in Pipes : /\ pipe'[p].used = pipe[p].used /\ pipe'[p].open = pipe[p].open
                            /\ pipe'[p].blk = pipe[p].blk
        /\ \A p \in Pipes, d \in Ends : pipe'[p].ref[d] =
             IF p = q /\ d = e THEN x ELSE pipe[p].ref[d]
    BY <1>1, <2>2, SetRef
  <2> QED BY <2>1, <2>3
<1>9. TypesInv'
  BY <1>1, <1>2, <1>4, <1>6, <1>7 DEF TypesInv
<1>10. CallInv(t)'
  <2>1. FreeFds(t)' = FreeFds(t) /\ PipeFds(t)' = PipeFds(t) /\ fd'[t] = fd[t] /\ st'[t] = st[t]
    BY <1>2 DEF FreeFds, PipeFds
  <2> QED BY <1>1, <1>0, <1>4, <1>5, <1>6, <2>1 DEF CallInv, At, Moving, Closings, Given, Incs
<1>11. CallsInv'
  <2>1. FdFrame(t)
    BY <1>0, <1>2, <1>4, <1>6, <1>7 DEF FdFrame, At
  <2> QED BY <1>1, <1>9, <1>10, <2>1, FdCalls
<1> QED BY <1>0, <1>2, <1>3, <1>4, <1>5, <1>6, <1>7, <1>11

LEMMA StoreIncInv ==
  ASSUME PipeInv, NEW t \in Tasks, StoreInc(t)
  PROVE  PipeInv'
<1>1. CallsInv /\ CallsInv' /\ CallInv(t) /\ TypesInv
  BY StoreIncCalls DEF PipeInv, CallsInv
<1>2. UNCHANGED <<fd, st, leaked>> /\ st[t] = "READY" /\ pc[t] = "istore" /\ pc'[t] = "inc"
      /\ \A v \in Tasks : v # t => pc'[v] = pc[v] /\ l'[v] = l[v]
  BY StoreIncCalls DEF At
<1>3. PICK q \in Pipes, f \in Fds, e \in Ends, c \in Nat :
         /\ l[t].f = f /\ f \in l[t].todo /\ fd[t][f] = [end |-> e, p |-> q]
         /\ raced' = Raced("ref", pipe[q].ref[e] # c)
         /\ pipe' \in [Pipes -> PipeRecords]
         /\ \A p \in Pipes : pipe'[p].used = pipe[p].used /\ pipe'[p].open = pipe[p].open
         /\ \A p \in Pipes, d \in Ends : pipe'[p].ref[d] =
              IF p = q /\ d = e THEN c + 1 ELSE pipe[p].ref[d]
  BY StoreIncCalls
<1>4. l'[t].todo = l[t].todo \ {f} /\ l'[t].next = l[t].next /\ l'[t].who = l[t].who
  BY <1>3, StoreIncCalls
<1>5. SUFFICES ASSUME NoRefLost' PROVE ForkInv' /\ RefInv'
  BY <1>1 DEF PipeInv
<1>6. ForkInv /\ RefInv /\ pipe[q].ref[e] = c
  BY <1>3, <1>5 DEF NoRefLost, PipeInv, Raced
<1>7. ForkInv'
  BY <1>1, <1>2, <1>4, <1>6, ForkSame
<1>8. l[t].next \in {"user", "fork"}
  BY <1>1, <1>2, Fields DEF CallInv, Closings, Given
<1>9. PICK x \in Tasks \X Fds :
        /\ x = IF l[t].next = "user" THEN <<t, f>> ELSE <<l[t].who, f>>
        /\ fd[x[1]][x[2]] = [end |-> e, p |-> q]
        /\ ~Counted(x[1], x[2])
        /\ \A u \in Tasks, g \in Fds : Counted(u, g)' <=> Counted(u, g) \/ <<u, g>> = x
        /\ Refs(q, e) # {}
  <2>1. CASE l[t].next = "user"
    <3>1. <<t, f>> \in Tasks \X Fds /\ <<t, f>>[1] = t /\ <<t, f>>[2] = f
      OBVIOUS
    <3>2. Uncounted(t) = l[t].todo /\ Uncounted(t)' = l[t].todo \ {f}
      BY <1>2, <1>4, <2>1 DEF Uncounted, Given, Incs
    <3>3. \A v \in Tasks : Filled(v)' = Filled(v)
      <4> TAKE v \in Tasks
      <4>1. CASE v # t
        BY <1>2, <4>1 DEF Filled
      <4>2. CASE v = t
        BY <1>4, <2>1, <4>2 DEF Filled
      <4> QED BY <4>1, <4>2
    <3>4. \A v \in Tasks, g \in Fds : <<t, g>> \notin Filled(v)
      BY <1>1, <1>2, <1>6, NotFilled
    <3>5. ~Counted(t, f)
      BY <1>3, <3>2, <3>4 DEF Counted
    <3>6. \A u \in Tasks, g \in Fds : Counted(u, g)' <=> Counted(u, g) \/ <<u, g>> = <<t, f>>
      <4> TAKE u \in Tasks, g \in Fds
      <4>1. CASE u # t
        <5>1. Uncounted(u)' = Uncounted(u)
          BY <1>2, <4>1 DEF Uncounted
        <5> QED BY <1>2, <3>3, <4>1, <5>1 DEF Counted
      <4>2. CASE u = t
        BY <1>2, <3>2, <3>3, <3>4, <4>2 DEF Counted
      <4> QED BY <4>1, <4>2
    <3>7. Refs(q, e) # {}
      <4>1. PICK w \in Fds : w = l[t].who /\ w \notin l[t].todo /\ fd[t][w] = [end |-> e, p |-> q]
        BY <1>1, <1>2, <1>3, <2>1 DEF CallInv, Incs
      <4>2. Counted(t, w)
        BY <1>2, <3>2, <4>1 DEF Counted
      <4>3. <<t, w>> \in Refs(q, e)
        BY <4>1, <4>2 DEF Refs
      <4> QED BY <4>3
    <3> QED BY <1>3, <2>1, <3>1, <3>5, <3>6, <3>7
  <2>2. CASE l[t].next = "fork"
    <3>1. PICK w \in Tasks : w = l[t].who /\ st[w] = "UNUSED" /\ fd[w] = fd[t]
                             /\ \A v \in Tasks : l[v].next = "fork" => v = t
      BY <1>1, <1>6, <2>2 DEF CallInv, ForkInv
    <3>2. <<w, f>> \in Tasks \X Fds /\ <<w, f>>[1] = w /\ <<w, f>>[2] = f
      OBVIOUS
    <3>3. \A v \in Tasks : v # t => Filled(v) = {} /\ Filled(v)' = {}
      BY <1>2, <3>1 DEF Filled
    <3>4. /\ \A u \in Tasks, g \in Fds : <<u, g>> \in Filled(t) <=> u = w /\ g \notin l[t].todo
          /\ \A u \in Tasks, g \in Fds : <<u, g>> \in Filled(t)' <=> u = w /\ g \notin l[t].todo \ {f}
      BY <1>4, <2>2, <3>1 DEF Filled
    <3>5. \A v \in Tasks : Uncounted(v)' = Uncounted(v)
      <4> TAKE v \in Tasks
      <4>1. CASE v # t
        BY <1>2, <4>1 DEF Uncounted
      <4>2. CASE v = t
        BY <1>2, <1>4, <2>2, <4>2 DEF Uncounted, Given
      <4> QED BY <4>1, <4>2
    <3>6. ~Counted(w, f)
      BY <1>3, <3>1, <3>3, <3>4 DEF Counted
    <3>7. \A u \in Tasks, g \in Fds : Counted(u, g)' <=> Counted(u, g) \/ <<u, g>> = <<w, f>>
      <4> TAKE u \in Tasks, g \in Fds
      <4>1. (\E v \in Tasks : <<u, g>> \in Filled(v)) <=> <<u, g>> \in Filled(t)
        BY <3>3
      <4>2. (\E v \in Tasks : <<u, g>> \in Filled(v)') <=> <<u, g>> \in Filled(t)'
        BY <3>3
      <4>3. <<u, g>> \in Filled(t)' <=> <<u, g>> \in Filled(t) \/ (u = w /\ g = f)
        BY <1>3, <3>4
      <4> QED BY <1>2, <3>5, <4>1, <4>2, <4>3 DEF Counted
    <3>8. Refs(q, e) # {}
      <4>1. Uncounted(t) = {}
        BY <1>2, <2>2 DEF Uncounted, Given
      <4>2. Counted(t, f)
        BY <1>2, <4>1 DEF Counted
      <4>3. <<t, f>> \in Refs(q, e)
        BY <1>3, <4>2 DEF Refs
      <4> QED BY <4>3
    <3> QED BY <1>3, <2>2, <3>1, <3>2, <3>6, <3>7, <3>8
  <2> QED BY <1>8, <2>1, <2>2
<1>10. \A p \in Pipes, d \in Ends :
           IF fd[x[1]][x[2]] = [end |-> d, p |-> p]
           THEN Refs(p, d)' = Refs(p, d) \cup {x} /\ x \notin Refs(p, d)
           ELSE Refs(p, d)' = Refs(p, d)
  BY <1>2, <1>9, MoreRefs
<1>11. RefInv'
  <2> SUFFICES ASSUME NEW p \in Pipes, NEW d \in Ends
               PROVE  /\ pipe'[p].used => pipe'[p].ref[d] = Cardinality(Refs(p, d)') + leaked'[p][d]
                      /\ Refs(p, d)' # {} => pipe'[p].used /\ pipe'[p].open[d]
    BY DEF RefInv
  <2>1. CASE p # q \/ d # e
    <3>1. [end |-> e, p |-> q] # [end |-> d, p |-> p]
      BY <2>1
    <3>2. Refs(p, d)' = Refs(p, d)
      BY <1>9, <1>10, <3>1
    <3> QED BY <1>2, <1>3, <1>6, <2>1, <3>2 DEF RefInv
  <2>2. CASE p = q /\ d = e
    <3>1. Refs(p, d)' = Refs(p, d) \cup {x} /\ x \notin Refs(p, d)
      BY <1>9, <1>10, <2>2
    <3>2. IsFiniteSet(Refs(p, d)) /\ Cardinality(Refs(p, d)) \in Nat
      BY RefsFinite
    <3>3. pipe[p].used /\ pipe[p].open[d] /\ c = Cardinality(Refs(p, d)) + leaked[p][d]
      BY <1>6, <1>9, <2>2 DEF RefInv
    <3>4. Cardinality(Refs(p, d)') = Cardinality(Refs(p, d)) + 1
      <4> HIDE DEF Refs
      <4> QED BY <3>1, <3>2, FS_AddElement
    <3>5. leaked[p][d] \in Nat
      BY <1>1 DEF TypesInv
    <3>6. pipe'[p].ref[d] = c + 1
      BY <1>3, <2>2
    <3>7. pipe'[p].used /\ pipe'[p].open[d] /\ leaked'[p][d] = leaked[p][d]
      BY <1>2, <1>3, <3>3
    <3>8. pipe'[p].ref[d] = Cardinality(Refs(p, d)') + leaked'[p][d]
      BY <3>2, <3>3, <3>4, <3>5, <3>6, <3>7
    <3> QED BY <3>7, <3>8
  <2> QED BY <2>1, <2>2
<1> QED BY <1>7, <1>11

LEMMA EqualRefs ==
  ASSUME NEW p \in Pipes, NEW e \in Ends,
         \A t \in Tasks, f \in Fds :
           (Counted(t, f)' /\ fd'[t][f] = [end |-> e, p |-> p])
             <=> (Counted(t, f) /\ fd[t][f] = [end |-> e, p |-> p])
  PROVE  Refs(p, e)' = Refs(p, e)
<1>1. \A y \in Tasks \X Fds : y[1] \in Tasks /\ y[2] \in Fds /\ y = <<y[1], y[2]>>
  OBVIOUS
<1>2. \A y \in Tasks \X Fds : y \in Refs(p, e)' <=> y \in Refs(p, e)
  BY <1>1 DEF Refs
<1>3. Refs(p, e)' \subseteq Tasks \X Fds /\ Refs(p, e) \subseteq Tasks \X Fds
  BY DEF Refs
<1> HIDE DEF Refs
<1> QED BY <1>2, <1>3

(* A step of t that changes one descriptor, which does not count before or *)
(* after, or is none.                                                      *)
LEMMA OneFd ==
  ASSUME PipeInv, CallsInv', NEW t \in Tasks, NEW f \in Fds, st[t] = "READY",
         UNCHANGED <<pipe, st, raced, leaked>>,
         \A v \in Tasks, g \in Fds : v # t \/ g # f => fd'[v][g] = fd[v][g],
         \A v \in Tasks : v # t => fd'[v] = fd[v],
         \A v \in Tasks : v # t => pc'[v] = pc[v] /\ l'[v] = l[v],
         f \in Uncounted(t) \/ fd[t][f] = Shut, f \in Uncounted(t)' \/ fd'[t][f] = Shut,
         Uncounted(t) \ {f} = Uncounted(t)' \ {f},
         l[t].next # "fork", l'[t].next # "fork"
  PROVE  PipeInv'
<1>1. CallsInv /\ TypesInv
  BY DEF PipeInv, CallsInv
<1>2. SUFFICES ASSUME NoRefLost' PROVE ForkInv' /\ RefInv'
  BY DEF PipeInv
<1>3. ForkInv /\ RefInv
  BY <1>2 DEF NoRefLost, PipeInv
<1>4. ForkInv'
  <2>1. \A v \in Tasks : st[v] = "UNUSED" => st'[v] = "UNUSED" /\ fd'[v] = fd[v]
    OBVIOUS
  <2>2. \A v \in Tasks : l'[v].next = "fork" =>
          l[v].next = "fork" /\ l'[v].who = l[v].who /\ fd'[v] = fd[v]
    OBVIOUS
  <2> QED BY <1>1, <1>3, <2>1, <2>2, ForkSame
<1>5. \A v \in Tasks : Filled(v)' = Filled(v)
  <2> TAKE v \in Tasks
  <2>1. CASE v # t
    BY <2>1 DEF Filled
  <2>2. CASE v = t
    BY <2>2 DEF Filled
  <2> QED BY <2>1, <2>2
<1>6. \A v \in Tasks, g \in Fds : <<t, g>> \notin Filled(v)
  BY <1>1, <1>3, NotFilled
<1>7. ASSUME NEW p \in Pipes, NEW e \in Ends PROVE Refs(p, e)' = Refs(p, e)
  <2> DEFINE d == [end |-> e, p |-> p]
  <2>0. d # Shut
    BY Sizes DEF Shut
  <2> SUFFICES ASSUME NEW v \in Tasks, NEW g \in Fds
               PROVE  Counted(v, g)' /\ fd'[v][g] = d <=> Counted(v, g) /\ fd[v][g] = d
    BY EqualRefs
  <2> HIDE DEF d
  <2>1. CASE v # t
    <3>1. Uncounted(v)' = Uncounted(v) /\ fd'[v] = fd[v] /\ st'[v] = st[v]
      BY <2>1 DEF Uncounted
    <3>2. Counted(v, g)' <=> Counted(v, g)
      BY <1>5, <3>1 DEF Counted
    <3> QED BY <3>1, <3>2
  <2>2. CASE v = t
    <3>1. /\ Counted(t, g) <=> g \notin Uncounted(t)
          /\ Counted(t, g)' <=> g \notin Uncounted(t)'
      BY <1>5, <1>6 DEF Counted
    <3>2. CASE g = f
      BY <2>0, <2>2, <3>1, <3>2
    <3>3. CASE g # f
      BY <2>2, <3>1, <3>3
    <3> QED BY <3>2, <3>3
  <2> QED BY <2>1, <2>2
<1>8. RefInv'
  BY <1>3, <1>7 DEF RefInv
<1> QED BY <1>4, <1>8

LEMMA ClearFdInv ==
  ASSUME PipeInv, NEW t \in Tasks, ClearFd(t)
  PROVE  PipeInv'
<1>1. CallsInv /\ TypesInv /\ CallInv(t) /\ l[t] \in Locals
  BY DEF PipeInv, CallsInv, TypesInv
<1>2. PICK f \in Fds : f = l[t].f
  BY <1>1, Fields
<1> DEFINE y == Dropped(l[t], f)
<1>3. /\ UNCHANGED <<pipe, st, sent, got, garbled, missed, raced, leaked>> /\ Goto(t, "close")
      /\ fd' = [fd EXCEPT ![t][f] = Shut] /\ l' = [l EXCEPT ![t] = y]
      /\ st[t] = "READY" /\ pc[t] = "cdone"
  BY <1>2 DEF ClearFd, hist, Dropped, At
<1>4. /\ pc' \in [Tasks -> {"user", "create"} \cup Moving \cup Closings \cup Incs]
      /\ pc'[t] = "close" /\ \A v \in Tasks : v # t => pc'[v] = pc[v]
  BY <1>1, <1>3, UpdatePc DEF Closings
<1>5. /\ y \in Locals /\ y.todo = l[t].todo \ {f} /\ y.next = l[t].next
      /\ y.who = l[t].who /\ y.len = l[t].len
  BY <1>1, DropsLocals
<1> HIDE DEF y
<1>6. l' \in [Tasks -> Locals] /\ l'[t] = y /\ \A v \in Tasks : v # t => l'[v] = l[v]
  BY <1>1, <1>3, <1>5, UpdateLocals
<1>7. /\ fd' \in [Tasks -> [Fds -> Descriptors]] /\ fd'[t][f] = Shut
      /\ \A v \in Tasks : v # t => fd'[v] = fd[v]
      /\ \A g \in Fds : g # f => fd'[t][g] = fd[t][g]
  BY <1>1, <1>3, Sizes DEF TypesInv
<1>8. TypesInv'
  BY <1>1, <1>3, <1>4, <1>6, <1>7 DEF TypesInv
<1>9. f \in l[t].todo /\ l[t].todo \subseteq PipeFds(t)
  BY <1>1, <1>2, <1>3 DEF CallInv, Given, Closings
<1>10. CallInv(t)'
  <2>1. \A g \in Fds : g \in PipeFds(t)' <=> g \in PipeFds(t) /\ g # f
    BY <1>7 DEF PipeFds
  <2>2. l'[t].todo \subseteq PipeFds(t)'
    BY <1>5, <1>6, <1>9, <2>1 DEF PipeFds
  <2>3. l'[t].next = "dup" =>
          /\ l'[t].who \in PipeFds(t)' \ l'[t].todo /\ l'[t].len \in Fds \ {l'[t].who}
          /\ l'[t].len \in l'[t].todo \/ fd'[t][l'[t].len] = Shut
    <3> SUFFICES ASSUME l[t].next = "dup"
                 PROVE /\ l[t].who \in PipeFds(t)' \ (l[t].todo \ {f}) /\ l[t].len \in Fds \ {l[t].who}
                       /\ l[t].len \in l[t].todo \ {f} \/ fd'[t][l[t].len] = Shut
      BY <1>5, <1>6
    <3>1. /\ l[t].who \in PipeFds(t) \ l[t].todo /\ l[t].len \in Fds \ {l[t].who}
          /\ l[t].len \in l[t].todo \/ fd[t][l[t].len] = Shut
      BY <1>1 DEF CallInv
    <3>2. l[t].who \in Fds /\ l[t].who # f
      BY <1>9, <3>1 DEF PipeFds
    <3> QED BY <1>7, <2>1, <3>1, <3>2
  <2>4. l'[t].next # "fork"
    BY <1>1, <1>3, <1>5, <1>6 DEF CallInv, Incs
  <2> QED BY <1>3, <1>4, <2>2, <2>3, <2>4 DEF CallInv, Moving, Closings, Given, Incs
<1>11. CallsInv'
  <2>1. FdFrame(t)
    BY <1>3, <1>4, <1>6, <1>7 DEF FdFrame
  <2> QED BY <1>1, <1>8, <1>10, <2>1, FdCalls
<1>12. Uncounted(t) = {f} /\ Uncounted(t)' = {}
  BY <1>2, <1>3, <1>4 DEF Uncounted, Given, Incs
<1>13. l[t].next # "fork" /\ l'[t].next # "fork"
  BY <1>1, <1>3, <1>5, <1>6 DEF CallInv, Incs
<1>14. \A v \in Tasks, g \in Fds : v # t \/ g # f => fd'[v][g] = fd[v][g]
  BY <1>7
<1> QED BY <1>3, <1>4, <1>6, <1>7, <1>11, <1>12, <1>13, <1>14, OneFd

(* The copy of dup2 is still to be counted.                                *)
Copying(y, g) == [y EXCEPT !.todo = {g}, !.next = "user"]
LEMMA CopyLocals ==
  ASSUME NEW y \in Locals, NEW g \in Fds
  PROVE  LET z == Copying(y, g) IN
         z \in Locals /\ z.todo = {g} /\ z.next = "user" /\ z.who = y.who /\ z.len = y.len
<1> DEFINE x1 == [y EXCEPT !.todo = {g}]
           x == [x1 EXCEPT !.next = "user"]
<1>1. x = Copying(y, g)
  BY DEF Locals, Copying
<1>2. x1 \in Locals /\ x1.todo = {g} /\ x1.who = y.who /\ x1.len = y.len
  BY DEF Locals
<1> HIDE DEF x1
<1>3. x \in Locals /\ x.todo = {g} /\ x.next = "user" /\ x.who = y.who /\ x.len = y.len
  BY <1>2 DEF Locals
<1> HIDE DEF x
<1> QED BY <1>1, <1>3

LEMMA ClosedInv ==
  ASSUME PipeInv, NEW t \in Tasks, Closed(t)
  PROVE  PipeInv'
<1>1. CallsInv /\ TypesInv /\ CallInv(t) /\ l[t] \in Locals
  BY DEF PipeInv, CallsInv, TypesInv
<1>2. UNCHANGED <<pipe, sent, got, garbled, missed, raced, leaked>> /\ st[t] = "READY" /\ pc[t] = "close"
      /\ l[t].todo = {}
  BY DEF Closed, hist, At
<1>3. CASE l[t].next \in {"user", "exit"}
  <2>1. Return(t) /\ UNCHANGED fd
    BY <1>3 DEF Closed
  <2>2. st' \in [Tasks -> {"UNUSED", "READY", "BLOCKED", "ZOMBIE"}] /\ st'[t] \in {"READY", "ZOMBIE"}
        /\ \A v \in Tasks : v # t => st'[v] = st[v]
    BY <1>1, <1>2, <1>3 DEF Closed, TypesInv
  <2>3. /\ pc' \in [Tasks -> {"user", "create"} \cup Moving \cup Closings \cup Incs]
        /\ pc'[t] = "user" /\ \A v \in Tasks : v # t => pc'[v] = pc[v]
        /\ l' \in [Tasks -> Locals] /\ l'[t] = NoLocals /\ \A v \in Tasks : v # t => l'[v] = l[v]
    BY <1>1, <2>1, ReturnFacts
  <2>4. l'[t].next = "user"
    BY <2>3 DEF NoLocals, Work
  <2>5. TypesInv'
    BY <1>1, <1>2, <2>1, <2>2, <2>3 DEF TypesInv
  <2>6. CallInv(t)'
    BY <2>2, <2>3, <2>4 DEF CallInv, Moving, Closings, Given, Incs
  <2>7. Uncounted(t)' = Uncounted(t) /\ Filled(t)' = Filled(t)
    BY <1>2, <1>3, <2>3, <2>4 DEF Uncounted, Filled, Given, Incs
  <2> QED BY <1>2, <2>1, <2>2, <2>3, <2>4, <2>5, <2>6, <2>7, StillRefs
<1>4. CASE l[t].next = "dup"
  <2>1. PICK w \in Fds, f \in Fds : w = l[t].who /\ f = l[t].len /\ f # w
                                    /\ fd[t][w] # Shut /\ fd[t][f] = Shut
    BY <1>1, <1>2, <1>4 DEF CallInv, PipeFds
  <2> DEFINE y == Copying(l[t], f)
  <2>2. /\ UNCHANGED st /\ fd' = [fd EXCEPT ![t][f] = fd[t][w]] /\ Goto(t, "inc")
        /\ l' = [l EXCEPT ![t] = y]
    BY <1>4, <2>1 DEF Closed, Copying
  <2>3. y \in Locals /\ y.todo = {f} /\ y.next = "user" /\ y.who = w
    BY <1>1, <2>1, CopyLocals
  <2> HIDE DEF y
  <2>4. l' \in [Tasks -> Locals] /\ l'[t] = y /\ \A v \in Tasks : v # t => l'[v] = l[v]
    BY <1>1, <2>2, <2>3, UpdateLocals
  <2>5. /\ pc' \in [Tasks -> {"user", "create"} \cup Moving \cup Closings \cup Incs]
        /\ pc'[t] = "inc" /\ \A v \in Tasks : v # t => pc'[v] = pc[v]
    BY <1>1, <2>2, UpdatePc DEF Incs
  <2>6. /\ fd' \in [Tasks -> [Fds -> Descriptors]] /\ fd'[t][f] = fd[t][w] /\ fd'[t][w] = fd[t][w]
        /\ \A v \in Tasks : v # t => fd'[v] = fd[v]
        /\ \A g \in Fds : g # f => fd'[t][g] = fd[t][g]
    BY <1>1, <2>1, <2>2 DEF TypesInv
  <2>7. TypesInv'
    BY <1>1, <1>2, <2>2, <2>4, <2>5, <2>6 DEF TypesInv
  <2>8. CallInv(t)'
    <3>1. l'[t].todo = {f} /\ l'[t].who = w /\ l'[t].next = "user"
      BY <2>3, <2>4
    <3>2. l'[t].todo \subseteq PipeFds(t)'
      BY <2>1, <2>6, <3>1 DEF PipeFds
    <3>3. l'[t].who \in Fds \ l'[t].todo /\ \A g \in l'[t].todo : fd'[t][g] = fd'[t][l'[t].who]
      BY <2>1, <2>6, <3>1
    <3>4. st'[t] = "READY"
      BY <1>2, <2>2
    <3> QED BY <2>5, <3>1, <3>2, <3>3, <3>4 DEF CallInv, Moving, Closings, Given, Incs
  <2>9. CallsInv'
    <3>1. FdFrame(t)
      BY <1>2, <2>2, <2>4, <2>5, <2>6 DEF FdFrame
    <3> QED BY <1>1, <2>7, <2>8, <3>1, FdCalls
  <2>10. Uncounted(t) = {} /\ Uncounted(t)' = {f}
    BY <1>2, <2>3, <2>4, <2>5 DEF Uncounted, Given, Incs
  <2>11. \A v \in Tasks, g \in Fds : v # t \/ g # f => fd'[v][g] = fd[v][g]
    BY <2>6
  <2>12. l[t].next # "fork" /\ l'[t].next # "fork"
    BY <1>4, <2>3, <2>4
  <2> QED BY <1>2, <2>1, <2>2, <2>4, <2>5, <2>6, <2>9, <2>10, <2>11, <2>12, OneFd
<1>5. l[t].next \in {"user", "exit", "dup"}
  BY <1>1, <1>2, Fields DEF CallInv, Incs
<1> QED BY <1>3, <1>4, <1>5

LEMMA ForkBegins ==
  ASSUME PipeInv, NEW t \in Tasks, Fork(t)
  PROVE  PipeInv'
<1>1. CallsInv /\ TypesInv /\ CallInv(t)
  BY DEF PipeInv, CallsInv
<1>2. PICK u \in Tasks, T \in SUBSET Fds :
        /\ st[u] = "UNUSED" /\ T = PipeFds(t) /\ fd' = [fd EXCEPT ![u] = fd[t]]
        /\ l' = [l EXCEPT ![t] = Work(T, "fork", u, 0)]
  <2>1. PICK u \in NextSlot : /\ fd' = [fd EXCEPT ![u] = fd[t]]
                              /\ l' = [l EXCEPT ![t] = Work(PipeFds(t), "fork", u, 0)]
    BY DEF Fork
  <2>2. u \in Tasks /\ st[u] = "UNUSED"
    BY DEF NextSlot
  <2>3. PipeFds(t) \in SUBSET Fds
    BY DEF PipeFds
  <2> QED BY <2>1, <2>2, <2>3
<1>3. UNCHANGED <<pipe, st, sent, got, garbled, missed, leaked>> /\ st[t] = "READY" /\ pc[t] = "user"
      /\ Goto(t, "inc") /\ raced' = Raced("ref", \E v \in Tasks : l[v].next = "fork")
  BY DEF Fork, hist, At
<1>4. u # t /\ pc[u] = "user"
  <2>1. CallInv(u)
    BY <1>1 DEF CallsInv
  <2> QED BY <1>2, <1>3, <2>1 DEF CallInv
<1> DEFINE y == Work(T, "fork", u, 0)
<1>5. y \in Locals /\ y.todo = T /\ y.next = "fork" /\ y.who = u
  <2>1. u \in Nat /\ 0 \in Nat /\ "fork" \in {"user", "exit", "dup", "fork"}
    BY Sizes
  <2> QED BY <2>1, WorkType
<1>50. l' = [l EXCEPT ![t] = y]
  BY <1>2
<1> HIDE DEF y
<1>6. l' \in [Tasks -> Locals] /\ l'[t] = y /\ \A v \in Tasks : v # t => l'[v] = l[v]
  BY <1>1, <1>5, <1>50, UpdateLocals
<1>7. /\ pc' \in [Tasks -> {"user", "create"} \cup Moving \cup Closings \cup Incs]
      /\ pc'[t] = "inc" /\ \A v \in Tasks : v # t => pc'[v] = pc[v]
  BY <1>1, <1>3, UpdatePc DEF Incs
<1>8. /\ fd' \in [Tasks -> [Fds -> Descriptors]] /\ fd'[u] = fd[t] /\ fd'[t] = fd[t]
      /\ \A v \in Tasks : v # u => fd'[v] = fd[v]
  BY <1>1, <1>2, <1>4 DEF TypesInv
<1>9. TypesInv'
  BY <1>1, <1>3, <1>6, <1>7, <1>8 DEF TypesInv
<1>10. CallInv(t)'
  <2>1. PipeFds(t)' = PipeFds(t)
    BY <1>8 DEF PipeFds
  <2>2. l'[t].todo = T /\ l'[t].next = "fork" /\ l'[t].who = u /\ st'[t] = "READY"
    BY <1>3, <1>5, <1>6
  <2> QED BY <1>2, <1>4, <1>7, <2>1, <2>2 DEF CallInv, Moving, Closings, Given, Incs
<1>11. CallsInv'
  <2>1. FdFrame(t)
    BY <1>3, <1>4, <1>6, <1>7, <1>8 DEF FdFrame
  <2> QED BY <1>1, <1>9, <1>10, <2>1, FdCalls
<1>12. SUFFICES ASSUME NoRefLost' PROVE ForkInv' /\ RefInv'
  BY <1>11 DEF PipeInv
<1>13. ForkInv /\ RefInv /\ \A v \in Tasks : l[v].next # "fork"
  BY <1>3, <1>12 DEF NoRefLost, PipeInv, Raced
<1>14. ForkInv'
  <2> SUFFICES ASSUME NEW v \in Tasks, l'[v].next = "fork"
               PROVE  /\ st'[l'[v].who] = "UNUSED" /\ fd'[l'[v].who] = fd'[v]
                      /\ \A w \in Tasks : l'[w].next = "fork" => w = v
    BY DEF ForkInv
  <2>1. v = t /\ \A w \in Tasks : l'[w].next = "fork" => w = t
    BY <1>6, <1>13
  <2>2. l'[v].who = u
    BY <1>5, <1>6, <2>1
  <2> QED BY <1>2, <1>3, <1>8, <2>1, <2>2
<1>15. \A v \in Tasks : Filled(v) = {} /\ (v # t => Filled(v)' = {})
  BY <1>6, <1>13 DEF Filled
<1>16. \A v \in Tasks, g \in Fds : <<v, g>> \in Filled(t)' <=> v = u /\ g \notin T
  BY <1>5, <1>6 DEF Filled
<1>17. \A v \in Tasks : Uncounted(v)' = Uncounted(v)
  <2> TAKE v \in Tasks
  <2>1. CASE v # t
    BY <1>6, <1>7, <2>1 DEF Uncounted
  <2>2. CASE v = t
    BY <1>3, <1>5, <1>6, <1>7, <2>2 DEF Uncounted, Given, Incs
  <2> QED BY <2>1, <2>2
<1>18. ASSUME NEW p \in Pipes, NEW e \in Ends PROVE Refs(p, e)' = Refs(p, e)
  <2> DEFINE d == [end |-> e, p |-> p]
  <2>0. d # Shut
    BY Sizes DEF Shut
  <2> SUFFICES ASSUME NEW v \in Tasks, NEW g \in Fds
               PROVE  Counted(v, g)' /\ fd'[v][g] = d <=> Counted(v, g) /\ fd[v][g] = d
    BY EqualRefs
  <2> HIDE DEF d
  <2>3. (\E w \in Tasks : <<v, g>> \in Filled(w)') <=> <<v, g>> \in Filled(t)'
    BY <1>15
  <2>1. CASE v # u
    <3>1. Counted(v, g)' <=> Counted(v, g)
      BY <1>3, <1>15, <1>16, <1>17, <2>1, <2>3 DEF Counted
    <3> QED BY <1>8, <2>1, <3>1
  <2>2. CASE v = u
    <3>1. ~Counted(u, g)
      BY <1>2, <1>15 DEF Counted
    <3>2. Counted(u, g)' => g \notin T
      BY <1>2, <1>3, <1>16, <2>2, <2>3 DEF Counted
    <3>3. g \notin T => fd'[u][g] = Shut
      BY <1>2, <1>8 DEF PipeFds
    <3> QED BY <2>0, <2>2, <3>1, <3>2, <3>3
  <2> QED BY <2>1, <2>2
<1>19. RefInv'
  BY <1>3, <1>13, <1>18 DEF RefInv
<1> QED BY <1>14, <1>19

(* pipe_create fills a slot that nobody refers to.                         *)
LEMMA FreeTwo ==
  ASSUME NEW t \in Tasks, Cardinality(FreeFds(t)) >= 2
  PROVE  \E f \in Fds, g \in Fds :
           /\ f = Min(FreeFds(t)) /\ g = Min(FreeFds(t) \ {f}) /\ f # g
           /\ fd[t][f] = Shut /\ fd[t][g] = Shut
<1>1. FreeFds(t) \subseteq Fds /\ FreeFds(t) \subseteq Nat /\ \A f \in FreeFds(t) : fd[t][f] = Shut
  BY Sizes DEF FreeFds
<1> HIDE DEF FreeFds
<1>2. IsFiniteSet(FreeFds(t))
  <2>1. IsFiniteSet(Fds)
    BY Sizes, FS_Interval DEF Fds
  <2> QED BY <1>1, <2>1, FS_Subset
<1>3. Cardinality(FreeFds(t)) \in Nat
  BY <1>2, FS_CardinalityType
<1>4. FreeFds(t) # {}
  BY <1>2, <1>3, FS_EmptySet
<1>5. PICK f \in FreeFds(t) : f = Min(FreeFds(t))
  BY <1>1, <1>4, MinIn
<1>6. IsFiniteSet(FreeFds(t) \ {f}) /\ Cardinality(FreeFds(t) \ {f}) = Cardinality(FreeFds(t)) - 1
  BY <1>2, FS_RemoveElement
<1>7. FreeFds(t) \ {f} # {}
  <2>1. Cardinality(FreeFds(t) \ {f}) # 0
    BY <1>3, <1>6
  <2> QED BY <1>6, <2>1, FS_EmptySet
<1>8. FreeFds(t) \ {f} \subseteq Nat
  BY <1>1
<1>9. PICK g \in FreeFds(t) \ {f} : g = Min(FreeFds(t) \ {f})
  BY <1>7, <1>8, MinIn
<1> QED BY <1>1, <1>5, <1>9

LEMMA FreshFields ==
  /\ Fresh \in PipeRecords /\ Fresh.used /\ Fresh.count = 0 /\ Fresh.head = 0 /\ Fresh.tail = 0
  /\ \A e \in Ends : Fresh.open[e] /\ Fresh.ref[e] = 1 /\ Fresh.blk[e] = None
BY Sizes DEF Fresh

LEMMA CreateInv ==
  ASSUME PipeInv, NEW t \in Tasks, Create(t)
  PROVE  PipeInv'
<1>1. CallsInv /\ TypesInv /\ CallInv(t) /\ st[t] = "READY" /\ pc[t] = "create"
  BY DEF PipeInv, CallsInv, Create, At
<1>2. PICK q \in Pipes : q = l[t].p
  BY <1>1, Fields
<1>3. PICK f \in Fds, g \in Fds :
        /\ f = Min(FreeFds(t)) /\ g = Min(FreeFds(t) \ {f}) /\ f # g
        /\ fd[t][f] = Shut /\ fd[t][g] = Shut
  BY <1>1, FreeTwo DEF CallInv
<1> DEFINE r == [end |-> "r", p |-> q]
           w == [end |-> "w", p |-> q]
<1>4. /\ Return(t) /\ UNCHANGED <<st, garbled, missed>> /\ pipe' = [pipe EXCEPT ![q] = Fresh]
      /\ fd' = [fd EXCEPT ![t][f] = r, ![t][g] = w]
      /\ raced' = Raced("ref", pipe[q].used)
      /\ sent' = [sent EXCEPT ![q] = 0] /\ got' = [got EXCEPT ![q] = 0]
      /\ leaked' = [leaked EXCEPT ![q] = [e \in Ends |-> 0]]
  BY <1>2, <1>3 DEF Create
<1>5. r \in Descriptors /\ w \in Descriptors
  BY DEF Descriptors, Ends
<1>6. /\ fd' \in [Tasks -> [Fds -> Descriptors]] /\ fd'[t][f] = r /\ fd'[t][g] = w
      /\ \A v \in Tasks : v # t => fd'[v] = fd[v]
      /\ \A h \in Fds : h # f /\ h # g => fd'[t][h] = fd[t][h]
  <2> HIDE DEF r, w
  <2>1. fd \in [Tasks -> [Fds -> Descriptors]]
    BY <1>1 DEF TypesInv
  <2> DEFINE F == [fd EXCEPT ![t][f] = r]
  <2>2. /\ F \in [Tasks -> [Fds -> Descriptors]] /\ F[t][f] = r
        /\ \A v \in Tasks : v # t => F[v] = fd[v]
        /\ \A h \in Fds : h # f => F[t][h] = fd[t][h]
    BY <1>5, <2>1
  <2>3. fd' = [F EXCEPT ![t][g] = w]
    BY <1>4, <2>1
  <2> HIDE DEF F
  <2> QED BY <1>3, <1>5, <2>2, <2>3
<1>7. pipe' \in [Pipes -> PipeRecords] /\ pipe'[q] = Fresh /\ \A p \in Pipes : p # q => pipe'[p] = pipe[p]
  <2>1. Fresh \in PipeRecords
    BY FreshFields
  <2> HIDE DEF Fresh
  <2> QED BY <1>1, <1>4, <2>1, UpdatePipe
<1>8. /\ pc' \in [Tasks -> {"user", "create"} \cup Moving \cup Closings \cup Incs]
      /\ pc'[t] = "user" /\ \A v \in Tasks : v # t => pc'[v] = pc[v]
      /\ l' \in [Tasks -> Locals] /\ l'[t] = NoLocals /\ \A v \in Tasks : v # t => l'[v] = l[v]
  BY <1>1, <1>4, ReturnFacts
<1>9. l'[t].next = "user"
  BY <1>8 DEF NoLocals, Work
<1>10. /\ leaked' \in [Pipes -> [Ends -> Nat]] /\ \A e \in Ends : leaked'[q][e] = 0
       /\ \A p \in Pipes : p # q => leaked'[p] = leaked[p]
  BY <1>1, <1>4 DEF TypesInv
<1>11. TypesInv'
  <2>1. sent' \in [Pipes -> Int] /\ got' \in [Pipes -> Int]
    BY <1>1, <1>4 DEF TypesInv
  <2> QED BY <1>1, <1>4, <1>6, <1>7, <1>8, <1>10, <2>1 DEF TypesInv
<1>12. CallInv(t)'
  BY <1>1, <1>4, <1>8, <1>9 DEF CallInv, Moving, Closings, Given, Incs
<1>13. CallsInv'
  <2>1. \A p \in Pipes, e \in Ends : pipe'[p].blk[e] \in {pipe[p].blk[e], None}
    <3> TAKE p \in Pipes, e \in Ends
    <3>1. CASE p = q
      BY <1>7, <3>1, FreshFields
    <3>2. CASE p # q
      BY <1>7, <3>2
    <3> QED BY <3>1, <3>2
  <2>2. FdFrame(t)
    BY <1>1, <1>4, <1>6, <1>8, <2>1 DEF FdFrame
  <2> QED BY <1>1, <1>11, <1>12, <2>2, FdCalls
<1>14. SUFFICES ASSUME NoRefLost' PROVE ForkInv' /\ RefInv'
  BY <1>13 DEF PipeInv
<1>15. ForkInv /\ RefInv /\ ~pipe[q].used
  BY <1>4, <1>14 DEF NoRefLost, PipeInv, Raced
<1>16. ForkInv'
  <2>1. \A v \in Tasks : st[v] = "UNUSED" => st'[v] = "UNUSED" /\ fd'[v] = fd[v]
    BY <1>1, <1>4, <1>6
  <2>2. \A v \in Tasks : l'[v].next = "fork" =>
          l[v].next = "fork" /\ l'[v].who = l[v].who /\ fd'[v] = fd[v]
    BY <1>6, <1>8, <1>9
  <2> QED BY <1>1, <1>15, <2>1, <2>2, ForkSame
<1>17. \A v \in Tasks : Uncounted(v)' = Uncounted(v) /\ Filled(v)' = Filled(v)
  <2> TAKE v \in Tasks
  <2>1. CASE v # t
    BY <1>8, <2>1 DEF Uncounted, Filled
  <2>2. CASE v = t
    <3>1. l[t].next # "fork"
      BY <1>1 DEF CallInv, Incs
    <3> QED BY <1>1, <1>8, <1>9, <2>2, <3>1 DEF Uncounted, Filled, Given, Incs
  <2> QED BY <2>1, <2>2
<1>18. \A v \in Tasks, h \in Fds : Counted(v, h)' <=> Counted(v, h)
  BY <1>4, <1>17 DEF Counted
<1>19. \A h \in Fds : Counted(t, h)
  BY <1>1 DEF Counted, Uncounted, Given, Incs
<1>20. \A e \in Ends : Refs(q, e) = {}
  BY <1>15 DEF RefInv
<1>21. ASSUME NEW p \in Pipes, NEW e \in Ends, p # q PROVE Refs(p, e)' = Refs(p, e)
  <2> DEFINE d == [end |-> e, p |-> p]
  <2>0. d # Shut /\ d # r /\ d # w
    BY <1>21, Sizes DEF Shut
  <2> SUFFICES ASSUME NEW v \in Tasks, NEW h \in Fds
               PROVE  Counted(v, h)' /\ fd'[v][h] = d <=> Counted(v, h) /\ fd[v][h] = d
    BY EqualRefs
  <2> HIDE DEF d, r, w
  <2>1. CASE v # t \/ (h # f /\ h # g)
    BY <1>6, <1>18, <2>1
  <2>2. CASE v = t /\ h \in {f, g}
    BY <1>3, <1>6, <2>0, <2>2
  <2> QED BY <2>1, <2>2
<1>22. ASSUME NEW e \in Ends PROVE Cardinality(Refs(q, e)') = 1
  <2>1. PICK h \in Fds : h = IF e = "r" THEN f ELSE g
    OBVIOUS
  <2> DEFINE d == [end |-> e, p |-> q]
  <2>2. /\ d # Shut /\ fd'[t][h] = d
        /\ \A k \in {f, g} : k # h => fd'[t][k] # d
    <3>1. "r" # "w" /\ r # w
      OBVIOUS
    <3>2. CASE e = "r"
      BY <1>3, <1>6, <2>1, <3>1, <3>2 DEF Shut
    <3>3. CASE e = "w"
      BY <1>3, <1>6, <2>1, <3>1, <3>3 DEF Shut
    <3> QED BY <3>2, <3>3 DEF Ends
  <2>3. \A v \in Tasks, k \in Fds : <<v, k>> \notin Refs(q, e)
    BY <1>20
  <2>4. \A v \in Tasks, k \in Fds : ~(Counted(v, k) /\ fd[v][k] = d)
    BY <2>3 DEF Refs
  <2> HIDE DEF d, r, w
  <2>5. \A v \in Tasks, k \in Fds : Counted(v, k)' /\ fd'[v][k] = d <=> v = t /\ k = h
    <3> TAKE v \in Tasks, k \in Fds
    <3>1. CASE v # t \/ (k # f /\ k # g)
      <4>1. fd'[v][k] = fd[v][k]
        BY <1>6, <3>1
      <4>2. ~(v = t /\ k = h)
        BY <2>1, <3>1
      <4> QED BY <1>18, <2>4, <4>1, <4>2
    <3>2. CASE v = t /\ k \in {f, g}
      BY <1>18, <1>19, <2>2, <3>2
    <3> QED BY <3>1, <3>2
  <2>6. Refs(q, e)' = {<<t, h>>}
    <3>1. \A y \in Tasks \X Fds : y[1] \in Tasks /\ y[2] \in Fds /\ y = <<y[1], y[2]>>
      OBVIOUS
    <3>2. \A y \in Tasks \X Fds : y \in Refs(q, e)' <=> y = <<t, h>>
      BY <2>5, <3>1 DEF Refs, d
    <3>3. Refs(q, e)' \subseteq Tasks \X Fds /\ <<t, h>> \in Tasks \X Fds
      BY DEF Refs
    <3> HIDE DEF Refs
    <3> QED BY <3>2, <3>3
  <2> QED BY <2>6, FS_Singleton
<1>23. RefInv'
  <2> SUFFICES ASSUME NEW p \in Pipes, NEW d \in Ends
               PROVE  /\ pipe'[p].used => pipe'[p].ref[d] = Cardinality(Refs(p, d)') + leaked'[p][d]
                      /\ Refs(p, d)' # {} => pipe'[p].used /\ pipe'[p].open[d]
    BY DEF RefInv
  <2>1. CASE p = q
    BY <1>7, <1>10, <1>22, <2>1, FreshFields
  <2>2. CASE p # q
    BY <1>7, <1>10, <1>15, <1>21, <2>2 DEF RefInv
  <2> QED BY <2>1, <2>2
<1> QED BY <1>16, <1>23

(* A fork that fails leaves the references it has counted for the slot.    *)
LEMMA LeftRefs ==
  ASSUME NEW w \in Tasks, NEW p \in Pipes, NEW e \in Ends, fd' = fd,
         \A f \in Fds : Counted(w, f),
         \A v \in Tasks, f \in Fds : Counted(v, f)' <=> Counted(v, f) /\ v # w
  PROVE  /\ Cardinality(Refs(p, e)) = Cardinality(Refs(p, e)') + Count(w, p, e)
         /\ Refs(p, e)' \subseteq Refs(p, e) /\ Count(w, p, e) \in Nat
<1> DEFINE d == [end |-> e, p |-> p]
           S == {f \in Fds : fd[w][f] = d}
           T == {w} \X S
           Old == Refs(p, e)
           New == Refs(p, e)'
<1>1. \A y \in Tasks \X Fds : y[1] \in Tasks /\ y[2] \in Fds /\ y = <<y[1], y[2]>>
  OBVIOUS
<1>2. Old \subseteq Tasks \X Fds /\ New \subseteq Tasks \X Fds /\ T \subseteq Tasks \X Fds
  BY DEF Refs
<1>3. \A y \in Tasks \X Fds : /\ y \in Old <=> Counted(y[1], y[2]) /\ fd[y[1]][y[2]] = d
                              /\ y \in New <=> Counted(y[1], y[2]) /\ y[1] # w /\ fd[y[1]][y[2]] = d
                              /\ y \in T <=> y[1] = w /\ fd[y[1]][y[2]] = d
  BY <1>1 DEF Refs
<1>4. \A y \in Tasks \X Fds : y[1] = w => Counted(y[1], y[2])
  BY <1>1
<1>5. IsFiniteSet(Old) /\ Cardinality(Old) \in Nat
  BY RefsFinite
<1>6. IsFiniteSet(S) /\ Cardinality(S) = Count(w, p, e) /\ Cardinality(S) \in Nat
  <2>1. IsFiniteSet(Fds)
    BY Sizes, FS_Interval DEF Fds
  <2>2. S \subseteq Fds
    OBVIOUS
  <2>3. IsFiniteSet(S)
    BY <2>1, <2>2, FS_Subset
  <2>4. Cardinality(S) = Count(w, p, e)
    BY DEF Count
  <2> HIDE DEF S
  <2> QED BY <2>3, <2>4, FS_CardinalityType
<1>7. T \subseteq Old /\ New = Old \ T
  <2> HIDE DEF T, Old, New, d
  <2>1. T \subseteq Old
    BY <1>2, <1>3, <1>4
  <2>2. \A y \in Tasks \X Fds : y \in New <=> y \in Old /\ y \notin T
    BY <1>3
  <2> QED BY <1>2, <2>1, <2>2
<1>8. Cardinality(T) = Cardinality(S)
  <2> HIDE DEF S
  <2>1. IsFiniteSet({w}) /\ Cardinality({w}) = 1
    BY FS_Singleton
  <2>2. Cardinality(T) = Cardinality({w}) * Cardinality(S)
    BY <1>6, <2>1, FS_Product
  <2> QED BY <1>6, <2>1, <2>2
<1> HIDE DEF S, T, Old, New
<1>9. Cardinality(New) = Cardinality(Old) - Cardinality(T)
  <2>1. Cardinality(Old \ T) = Cardinality(Old) - Cardinality(Old \cap T)
    BY <1>5, FS_Difference
  <2>2. Old \cap T = T
    BY <1>7
  <2> QED BY <1>7, <2>1, <2>2
<1>10. Cardinality(Old) = Cardinality(New) + Count(w, p, e) /\ New \subseteq Old /\ Count(w, p, e) \in Nat
  BY <1>5, <1>6, <1>7, <1>8, <1>9
<1> QED BY <1>10 DEF Old, New

LEMMA IncrementedCalls ==
  ASSUME PipeInv, NEW t \in Tasks, Incremented(t)
  PROVE  /\ CallsInv' /\ UNCHANGED <<pipe, fd, raced>>
         /\ st[t] = "READY" /\ pc[t] = "inc" /\ pc'[t] = "user" /\ l[t].todo = {} /\ l'[t].next = "user"
         /\ \A v \in Tasks : v # t => pc'[v] = pc[v] /\ l'[v] = l[v]
         /\ \/ l[t].next = "user" /\ UNCHANGED <<st, leaked>>
            \/ /\ l[t].next = "fork" /\ UNCHANGED leaked
               /\ \A v \in Tasks : st'[v] = IF v = l[t].who THEN "READY" ELSE st[v]
            \/ /\ l[t].next = "fork" /\ UNCHANGED st
               /\ \A p \in Pipes, e \in Ends : leaked'[p][e] = leaked[p][e] + Count(l[t].who, p, e)
<1>1. CallsInv /\ TypesInv /\ CallInv(t)
  BY DEF PipeInv, CallsInv
<1>2. /\ UNCHANGED <<pipe, fd, sent, got, garbled, missed, raced>> /\ st[t] = "READY" /\ pc[t] = "inc"
      /\ l[t].todo = {} /\ Return(t)
  BY DEF Incremented, hist, At
<1>3. /\ pc' \in [Tasks -> {"user", "create"} \cup Moving \cup Closings \cup Incs]
      /\ pc'[t] = "user" /\ \A v \in Tasks : v # t => pc'[v] = pc[v]
      /\ l' \in [Tasks -> Locals] /\ l'[t] = NoLocals /\ \A v \in Tasks : v # t => l'[v] = l[v]
  BY <1>1, <1>2, ReturnFacts
<1>4. l'[t].next = "user"
  BY <1>3 DEF NoLocals, Work
<1>5. /\ \/ l[t].next = "user" /\ UNCHANGED <<st, leaked>>
         \/ /\ l[t].next = "fork" /\ UNCHANGED leaked
            /\ \A v \in Tasks : st'[v] = IF v = l[t].who THEN "READY" ELSE st[v]
         \/ /\ l[t].next = "fork" /\ UNCHANGED st
            /\ \A p \in Pipes, e \in Ends : leaked'[p][e] = leaked[p][e] + Count(l[t].who, p, e)
      /\ st' \in [Tasks -> {"UNUSED", "READY", "BLOCKED", "ZOMBIE"}]
      /\ leaked' \in [Pipes -> [Ends -> Nat]] /\ st'[t] = "READY"
      /\ \A v \in Tasks : st'[v] \in {st[v], "READY"}
  <2>1. CASE l[t].next = "user" /\ UNCHANGED <<st, leaked>>
    BY <1>1, <1>2, <2>1 DEF TypesInv
  <2>2. CASE l[t].next = "fork" /\ st' = [st EXCEPT ![l[t].who] = "READY"] /\ UNCHANGED leaked
    <3>1. PICK w \in Tasks : w = l[t].who /\ w # t
      BY <1>1, <2>2 DEF CallInv
    <3>2. st' = [st EXCEPT ![w] = "READY"]
      BY <2>2, <3>1
    <3>3. /\ st' \in [Tasks -> {"UNUSED", "READY", "BLOCKED", "ZOMBIE"}]
          /\ \A v \in Tasks : st'[v] = IF v = w THEN "READY" ELSE st[v]
      BY <1>1, <3>2 DEF TypesInv
    <3> QED BY <1>1, <1>2, <2>2, <3>1, <3>3 DEF TypesInv
  <2>3. CASE /\ l[t].next = "fork" /\ UNCHANGED st
             /\ leaked' = [p \in Pipes |-> [e \in Ends |-> leaked[p][e] + Count(l[t].who, p, e)]]
    <3>1. \A p \in Pipes, e \in Ends : Count(l[t].who, p, e) \in Nat
      <4> TAKE p \in Pipes, e \in Ends
      <4> DEFINE S == {f \in Fds : fd[l[t].who][f] = [end |-> e, p |-> p]}
      <4>1. IsFiniteSet(Fds) /\ S \subseteq Fds
        BY Sizes, FS_Interval DEF Fds
      <4>2. Count(l[t].who, p, e) = Cardinality(S)
        BY DEF Count
      <4> HIDE DEF S
      <4> QED BY <4>1, <4>2, FS_Subset, FS_CardinalityType
    <3> HIDE DEF Count
    <3>2. \A p \in Pipes, e \in Ends : leaked'[p][e] = leaked[p][e] + Count(l[t].who, p, e)
      BY <2>3
    <3>3. \A p \in Pipes, e \in Ends : leaked[p][e] + Count(l[t].who, p, e) \in Nat
      <4> TAKE p \in Pipes, e \in Ends
      <4>1. leaked[p][e] \in Nat
        BY <1>1 DEF TypesInv
      <4> QED BY <3>1, <4>1
    <3>4. leaked' \in [Pipes -> [Ends -> Nat]]
      BY <2>3, <3>3
    <3>5. st' \in [Tasks -> {"UNUSED", "READY", "BLOCKED", "ZOMBIE"}] /\ st'[t] = "READY" /\ st' = st
      BY <1>1, <1>2, <2>3 DEF TypesInv
    <3> QED BY <2>3, <3>2, <3>4, <3>5
  <2> QED BY <2>1, <2>2, <2>3 DEF Incremented
<1>6. TypesInv'
  BY <1>1, <1>2, <1>3, <1>5 DEF TypesInv
<1>7. CallInv(t)'
  BY <1>3, <1>4, <1>5 DEF CallInv, Moving, Closings, Given, Incs
<1>8. CallsInv'
  <2>1. FdFrame(t)
    BY <1>2, <1>3, <1>5 DEF FdFrame
  <2> QED BY <1>1, <1>6, <1>7, <2>1, FdCalls
<1> QED BY <1>2, <1>3, <1>4, <1>5, <1>8

LEMMA IncrementedInv ==
  ASSUME PipeInv, NEW t \in Tasks, Incremented(t)
  PROVE  PipeInv'
<1>1. CallsInv /\ CallsInv' /\ CallInv(t) /\ TypesInv
  BY IncrementedCalls DEF PipeInv, CallsInv
<1>2. /\ UNCHANGED <<pipe, fd, raced>> /\ l[t].todo = {}
      /\ st[t] = "READY" /\ pc[t] = "inc" /\ pc'[t] = "user" /\ l'[t].next = "user"
      /\ \A v \in Tasks : v # t => pc'[v] = pc[v] /\ l'[v] = l[v]
  BY IncrementedCalls
<1>3. SUFFICES ASSUME NoRefLost' PROVE ForkInv' /\ RefInv'
  BY <1>1 DEF PipeInv
<1>4. ForkInv /\ RefInv
  BY <1>2, <1>3 DEF NoRefLost, PipeInv
<1>5. \A v \in Tasks : Uncounted(v)' = Uncounted(v)
  <2> TAKE v \in Tasks
  <2>1. CASE v # t
    BY <1>2, <2>1 DEF Uncounted
  <2>2. CASE v = t
    BY <1>2, <2>2 DEF Uncounted, Given, Incs
  <2> QED BY <2>1, <2>2
<1>6. CASE l[t].next = "user"
  <2>1. UNCHANGED <<st, leaked>>
    BY <1>6, IncrementedCalls
  <2>2. \A v \in Tasks : l'[v].next = "fork" => l[v].next = "fork" /\ l'[v].who = l[v].who
    BY <1>2
  <2>3. ForkInv'
    BY <1>1, <1>2, <1>4, <2>1, <2>2, ForkSame
  <2>4. \A v \in Tasks : Filled(v)' = Filled(v)
    <3> TAKE v \in Tasks
    <3>1. CASE v # t
      BY <1>2, <3>1 DEF Filled
    <3>2. CASE v = t
      BY <1>2, <1>6, <3>2 DEF Filled
    <3> QED BY <3>1, <3>2
  <2>5. \A p \in Pipes, d \in Ends : Refs(p, d)' = Refs(p, d)
    BY <1>2, <1>5, <2>1, <2>4, SameRefs
  <2>6. RefInv'
    BY <1>2, <1>4, <2>1, <2>5 DEF RefInv
  <2> QED BY <2>3, <2>6
<1>7. CASE l[t].next = "fork"
  <2>1. PICK w \in Tasks : w = l[t].who /\ w # t /\ st[w] = "UNUSED" /\ fd[w] = fd[t]
                           /\ \A v \in Tasks : l[v].next = "fork" => v = t
    BY <1>1, <1>4, <1>7 DEF CallInv, ForkInv
  <2>2. \A v \in Tasks : l'[v].next # "fork"
    BY <1>2, <2>1
  <2>3. ForkInv'
    BY <2>2 DEF ForkInv
  <2>4. \A v \in Tasks : Filled(v)' = {} /\ (v # t => Filled(v) = {})
    BY <1>2, <2>1, <2>2 DEF Filled
  <2>5. \A v \in Tasks, f \in Fds : <<v, f>> \in Filled(t) <=> v = w
    BY <1>2, <1>7, <2>1 DEF Filled
  <2>6. \A v \in Tasks, f \in Fds : Counted(v, f) <=> (st[v] # "UNUSED" /\ f \notin Uncounted(v)) \/ v = w
    BY <2>4, <2>5 DEF Counted
  <2>7. \A v \in Tasks, f \in Fds : Counted(v, f)' <=> st'[v] # "UNUSED" /\ f \notin Uncounted(v)
    BY <1>5, <2>4 DEF Counted
  <2>8. Uncounted(w) = {}
    <3>1. pc[w] = "user"
      BY <1>1, <2>1 DEF CallsInv, CallInv
    <3> QED BY <3>1 DEF Uncounted, Given, Incs
  <2>9. CASE UNCHANGED leaked /\ \A v \in Tasks : st'[v] = IF v = l[t].who THEN "READY" ELSE st[v]
    <3>1. \A v \in Tasks, f \in Fds : Counted(v, f)' <=> Counted(v, f)
      BY <2>1, <2>6, <2>7, <2>8, <2>9
    <3>2. ASSUME NEW p \in Pipes, NEW d \in Ends PROVE Refs(p, d)' = Refs(p, d)
      BY <1>2, <3>1, EqualRefs
    <3>3. RefInv'
      BY <1>2, <1>4, <2>9, <3>2 DEF RefInv
    <3> QED BY <2>3, <3>3
  <2>10. CASE /\ UNCHANGED st
              /\ \A p \in Pipes, e \in Ends : leaked'[p][e] = leaked[p][e] + Count(l[t].who, p, e)
    <3>1. \A v \in Tasks, f \in Fds : Counted(v, f)' <=> Counted(v, f) /\ v # w
      BY <2>1, <2>6, <2>7, <2>10
    <3>2. \A f \in Fds : Counted(w, f)
      BY <2>6
    <3>3. RefInv'
      <4> SUFFICES ASSUME NEW p \in Pipes, NEW d \in Ends
                   PROVE  /\ pipe'[p].used => pipe'[p].ref[d] = Cardinality(Refs(p, d)') + leaked'[p][d]
                          /\ Refs(p, d)' # {} => pipe'[p].used /\ pipe'[p].open[d]
        BY DEF RefInv
      <4>1. /\ Cardinality(Refs(p, d)) = Cardinality(Refs(p, d)') + Count(w, p, d)
            /\ Refs(p, d)' \subseteq Refs(p, d) /\ Count(w, p, d) \in Nat
        BY <1>2, <3>1, <3>2, LeftRefs
      <4>2. Cardinality(Refs(p, d)') \in Nat
        <5>1. Cardinality(Refs(p, d)) \in Nat /\ IsFiniteSet(Refs(p, d))
          BY RefsFinite
        <5>2. IsFiniteSet(Refs(p, d)')
          <6> HIDE DEF Refs
          <6> QED BY <4>1, <5>1, FS_Subset
        <5> HIDE DEF Refs
        <5> QED BY <5>2, FS_CardinalityType
      <4>3. leaked[p][d] \in Nat /\ leaked'[p][d] = leaked[p][d] + Count(w, p, d)
        BY <1>1, <2>1, <2>10 DEF TypesInv
      <4>4. /\ pipe[p].used => pipe[p].ref[d] = Cardinality(Refs(p, d)) + leaked[p][d]
            /\ Refs(p, d) # {} => pipe[p].used /\ pipe[p].open[d]
        BY <1>4 DEF RefInv
      <4>5. pipe' = pipe
        BY <1>2
      <4> HIDE DEF Refs, Count
      <4>6. Cardinality(Refs(p, d)) + leaked[p][d] = Cardinality(Refs(p, d)') + leaked'[p][d]
        BY <4>1, <4>2, <4>3
      <4> QED BY <4>1, <4>4, <4>5, <4>6
    <3> QED BY <2>3, <3>3
  <2> QED BY <1>7, <2>9, <2>10, IncrementedCalls
<1>8. l[t].next \in {"user", "fork"}
  BY IncrementedCalls
<1> QED BY <1>6, <1>7, <1>8

-----------------------------------------------------------------------------
LEMMA InitInv == Init => PipeInv
<1> SUFFICES ASSUME Init PROVE PipeInv
  OBVIOUS
<1>1. /\ pipe = [p \in Pipes |-> [Fresh EXCEPT !.used = FALSE]]
      /\ fd = [t \in Tasks |-> [f \in Fds |-> Shut]]
      /\ st = [t \in Tasks |-> IF t = 0 THEN "READY" ELSE "UNUSED"]
      /\ pc = [t \in Tasks |-> "user"] /\ l = [t \in Tasks |-> NoLocals]
      /\ sent = [p \in Pipes |-> 0] /\ got = [p \in Pipes |-> 0]
      /\ garbled = FALSE /\ raced = {} /\ missed = FALSE
      /\ leaked = [p \in Pipes |-> [e \in Ends |-> 0]]
  BY DEF Init
<1>2. \A p \in Pipes : /\ pipe[p] \in PipeRecords /\ ~pipe[p].used
                       /\ \A e \in Ends : pipe[p].blk[e] = None
  BY <1>1, Sizes DEF Fresh
<1>3. NoLocals \in Locals /\ NoLocals.next = "user"
  BY Sizes DEF NoLocals, Work
<1> HIDE DEF NoLocals
<1>4. TypesInv
  <2>1. pipe \in [Pipes -> PipeRecords]
    <3> HIDE DEF PipeRecords, Fresh
    <3> QED BY <1>1, <1>2
  <2>2. fd \in [Tasks -> [Fds -> Descriptors]]
    BY <1>1, Sizes
  <2>3. /\ l \in [Tasks -> Locals] /\ st \in [Tasks -> {"UNUSED", "READY", "BLOCKED", "ZOMBIE"}]
        /\ pc \in [Tasks -> {"user", "create"} \cup Moving \cup Closings \cup Incs]
        /\ leaked \in [Pipes -> [Ends -> Nat]] /\ sent \in [Pipes -> Int] /\ got \in [Pipes -> Int]
    BY <1>1, <1>3
  <2> QED BY <1>1, <2>1, <2>2, <2>3 DEF TypesInv
<1>5. \A t \in Tasks : pc[t] = "user" /\ l[t].next = "user" /\ st[t] \in {"READY", "UNUSED"}
                       /\ \A f \in Fds : fd[t][f] = Shut
  BY <1>1, <1>3
<1>6. CallsInv
  <2>1. NamesInv
    BY <1>2, Sizes DEF NamesInv
  <2>2. \A t \in Tasks : CallInv(t)
    BY <1>5 DEF CallInv, Moving, Closings, Given, Incs
  <2> QED BY <1>4, <2>1, <2>2 DEF CallsInv
<1>7. ForkInv
  BY <1>5 DEF ForkInv
<1>8. RefInv
  <2> SUFFICES ASSUME NEW p \in Pipes, NEW e \in Ends PROVE Refs(p, e) = {}
    BY <1>2 DEF RefInv
  <2>1. \A x \in Tasks \X Fds : fd[x[1]][x[2]] = Shut
    BY <1>5
  <2>2. [end |-> e, p |-> p] # Shut
    BY Sizes DEF Shut
  <2> QED BY <2>1, <2>2 DEF Refs
<1> QED BY <1>6, <1>7, <1>8 DEF PipeInv

LEMMA NextInv == PipeInv /\ [Next]_vars => PipeInv'
<1> SUFFICES ASSUME PipeInv, [Next]_vars PROVE PipeInv'
  OBVIOUS
<1>1. CASE UNCHANGED vars
  <2>1. UNCHANGED <<pipe, fd, st, pc, l, sent, got, garbled, missed, raced, leaked>>
    BY <1>1 DEF vars, hist
  <2>2. CallsInv'
    <3>1. TypesInv' /\ NamesInv'
      BY <2>1 DEF PipeInv, CallsInv, TypesInv, NamesInv
    <3>2. \A t \in Tasks : CallInv(t)'
      BY <2>1 DEF PipeInv, CallsInv, CallInv, FreeFds, PipeFds
    <3> QED BY <3>1, <3>2 DEF CallsInv
  <2>3. \A v \in Tasks : Uncounted(v)' = Uncounted(v) /\ Filled(v)' = Filled(v)
    BY <2>1 DEF Uncounted, Filled
  <2>4. NoRefLost' => NoRefLost
    BY <2>1 DEF NoRefLost
  <2> QED BY <2>1, <2>2, <2>3, <2>4, QuietRefs
<1>2. CASE Next
  <2>1. PICK t \in Tasks : Step(t) \/ Call(t)
    BY <1>2 DEF Next
  <2>2. CASE Step(t)
    BY <2>2, MovesInv, CreateInv, LoadsInv, StoreRefInv, ZeroInv, TestShutInv, UnuseInv, ClearFdInv,
       ClosedInv, StoreIncInv, IncrementedInv DEF Step, CloseStep
  <2>3. CASE Call(t)
    <3>1. CASE \E f \in Fds : \E n \in 1..MaxLen : Read(t, f, n) \/ Write(t, f, n)
      BY <3>1, MovesInv
    <3>2. CASE \/ \E f \in Fds : Close(t, f) \/ \E g \in DupTo : Dup2(t, f, g)
               \/ Exit(t)
      BY <3>2, CallsBegin
    <3>3. CASE SysPipe(t)
      BY <3>3, SysPipeInv
    <3>4. CASE Fork(t)
      BY <3>4, ForkBegins
    <3>5. CASE \E u \in Tasks : Kill(t, u)
      BY <3>5, MovesInv
    <3> QED BY <2>3, <3>1, <3>2, <3>3, <3>4, <3>5 DEF Call
  <2> QED BY <2>1, <2>2, <2>3
<1> QED BY <1>1, <1>2

(* The invariant holds in every state of the pipes, whatever the number of *)
(* tasks that share them.                                                  *)
THEOREM PipeInvariant == Spec => []PipeInv
<1>1. Init => PipeInv
  BY InitInv
<1>2. PipeInv /\ [Next]_vars => PipeInv'
  BY NextInv
<1> QED BY <1>1, <1>2, PTL DEF Spec

(* Between calls the references of a pipe (pipe.c:93-110, 118-122) are the *)
(* descriptors for it and what forks that failed have left, and no         *)
(* descriptor is for an unused pipe or a closed end: for every number of   *)
(* tasks, pipes and descriptors, unless two unlocked updates of a count    *)
(* have met.                                                               *)
THEOREM ReferencesExact == Spec => []RefsExact
<1>1. PipeInv => RefsExact
  <2> SUFFICES ASSUME PipeInv, "ref" \notin raced, \A t \in Tasks : ~InFdCall(t),
                      NEW p \in Pipes, NEW e \in Ends
               PROVE  LET fds == Cardinality({x \in Live \X Fds : fd[x[1]][x[2]] = [end |-> e, p |-> p]})
                      IN  /\ pipe[p].used => pipe[p].ref[e] = fds + leaked[p][e]
                          /\ fds > 0 => pipe[p].used /\ pipe[p].open[e]
    BY DEF RefsExact
  <2>1. RefInv /\ CallsInv
    BY DEF PipeInv, NoRefLost
  <2>2. \A t \in Tasks : pc[t] \notin Closings \cup Incs
    BY DEF InFdCall, Closings, Given, Incs
  <2>3. \A t \in Tasks : Uncounted(t) = {} /\ Filled(t) = {}
    <3> TAKE t \in Tasks
    <3>1. CallInv(t)
      BY <2>1 DEF CallsInv
    <3> QED BY <2>2, <3>1 DEF CallInv, Uncounted, Filled, Closings
  <2>4. \A t \in Tasks, f \in Fds : Counted(t, f) <=> t \in Live
    BY <2>3 DEF Counted, Live
  <2> DEFINE S == {x \in Live \X Fds : fd[x[1]][x[2]] = [end |-> e, p |-> p]}
  <2>5. Refs(p, e) = S
    <3>1. Refs(p, e) \subseteq Tasks \X Fds /\ S \subseteq Tasks \X Fds
      BY DEF Refs, Live
    <3>2. \A y \in Tasks \X Fds : y[1] \in Tasks /\ y[2] \in Fds /\ y = <<y[1], y[2]>>
      OBVIOUS
    <3>3. \A y \in Tasks \X Fds : y \in Refs(p, e) <=> y \in S
      BY <2>4, <3>2 DEF Refs
    <3> HIDE DEF Refs, S
    <3> QED BY <3>1, <3>3
  <2>6. Cardinality(Refs(p, e)) \in Nat /\ (Cardinality(Refs(p, e)) = 0 <=> Refs(p, e) = {})
    BY RefsFinite
  <2>7. /\ pipe[p].used => pipe[p].ref[e] = Cardinality(Refs(p, e)) + leaked[p][e]
        /\ Refs(p, e) # {} => pipe[p].used /\ pipe[p].open[e]
    BY <2>1 DEF RefInv
  <2> HIDE DEF Refs
  <2>8. /\ pipe[p].used => pipe[p].ref[e] = Cardinality(S) + leaked[p][e]
        /\ Cardinality(S) > 0 => pipe[p].used /\ pipe[p].open[e]
    <3> HIDE DEF S
    <3> QED BY <2>5, <2>6, <2>7
  <2> QED BY <2>8
<1> QED BY <1>1, PipeInvariant, PTL

-----------------------------------------------------------------------------
(* Who sleeps, and who wakes it.                                           *)

(* A step of u leaves the place and the local variables of other tasks.    *)
LEMMA OthersStay ==
  ASSUME CallsInv, NEW u \in Tasks, Step(u) \/ Call(u), NEW v \in Tasks, v # u
  PROVE  pc'[v] = pc[v] /\ l'[v] = l[v]
<1>0. pc \in [Tasks -> {"user", "create"} \cup Moving \cup Closings \cup Incs] /\ l \in [Tasks -> Locals]
  BY DEF CallsInv, TypesInv
<1>1. CASE \E e \in Ends : Wait(u, e) \/ Move(u, e)
  BY <1>0, <1>1 DEF Wait, Move, TestCount, TestOpen, Mark, Block, Unmark, LoadCount, StoreCount,
     Wake, Clear, GoOn, Goto, Return
<1>2. CASE Take(u) \/ Put(u) \/ Create(u)
  BY <1>0, <1>2 DEF Take, Put, Create, Goto, Return
<1>3. CASE CloseStep(u)
  <2>1. CASE LoadRef(u) \/ StoreRef(u) \/ Zero(u) \/ TestShut(u) \/ Unuse(u) \/ ClearFd(u)
    BY <1>0, <2>1 DEF LoadRef, StoreRef, Zero, TestShut, Unuse, ClearFd, Goto
  <2>2. CASE Closed(u)
    <3>1. l[u].next \in {"user", "exit", "dup"}
      <4>1. CallInv(u) /\ pc[u] = "close" /\ TypesInv
        BY <2>2 DEF CallsInv, Closed, At
      <4> QED BY <4>1, Fields DEF CallInv, Incs
    <3> QED BY <1>0, <2>2, <3>1 DEF Closed, Goto, Return
  <2> QED BY <1>3, <2>1, <2>2 DEF CloseStep
<1>4. CASE LoadInc(u) \/ StoreInc(u) \/ Incremented(u)
  BY <1>0, <1>4 DEF LoadInc, StoreInc, Incremented, Goto, Return
<1>5. CASE \E f \in Fds : \E n \in 1..MaxLen : Read(u, f, n) \/ Write(u, f, n)
  BY <1>0, <1>5 DEF Read, Write, Begin, Goto
<1>6. CASE \/ \E f \in Fds : Close(u, f) \/ \E g \in DupTo : Dup2(u, f, g)
           \/ SysPipe(u) \/ Exit(u) \/ Fork(u)
  BY <1>0, <1>6 DEF Close, Dup2, SysPipe, Exit, Fork, Closing, Goto
<1>7. CASE \E w \in Tasks : Kill(u, w)
  BY <1>7, KillFrame
<1> QED BY <1>1, <1>2, <1>3, <1>4, <1>5, <1>6, <1>7 DEF Step, Call

(* Only the wakeup of the other side, a close of the last reference to the *)
(* same end, the end of a fork and a kill start another task.              *)
LEMMA Starts ==
  ASSUME CallsInv, NEW u \in Tasks, Step(u) \/ Call(u), NEW v \in Tasks, v # u, st'[v] # st[v]
  PROVE  \/ \E e \in Ends : Wake(u, e)
         \/ Zero(u) \/ Incremented(u) \/ Kill(u, v)
<1>0. st \in [Tasks -> {"UNUSED", "READY", "BLOCKED", "ZOMBIE"}]
  BY DEF CallsInv, TypesInv
<1>1. CASE \E e \in Ends : Wait(u, e) \/ Move(u, e)
  BY <1>0, <1>1 DEF Wait, Move, TestCount, TestOpen, Mark, Block, Unmark, LoadCount, StoreCount, Clear
<1>2. CASE Take(u) \/ Put(u) \/ Create(u)
  BY <1>0, <1>2 DEF Take, Put, Create
<1>3. CASE CloseStep(u)
  <2>1. CASE LoadRef(u) \/ StoreRef(u) \/ TestShut(u) \/ Unuse(u) \/ ClearFd(u)
    BY <1>0, <2>1 DEF LoadRef, StoreRef, TestShut, Unuse, ClearFd
  <2>2. CASE Closed(u)
    <3>1. l[u].next \in {"user", "exit", "dup"}
      <4>1. CallInv(u) /\ pc[u] = "close" /\ TypesInv
        BY <2>2 DEF CallsInv, Closed, At
      <4> QED BY <4>1, Fields DEF CallInv, Incs
    <3> QED BY <1>0, <2>2, <3>1 DEF Closed
  <2> QED BY <1>3, <2>1, <2>2 DEF CloseStep, Ends
<1>4. CASE LoadInc(u) \/ StoreInc(u) \/ Incremented(u)
  BY <1>0, <1>4 DEF LoadInc, StoreInc, Ends
<1>5. CASE \E f \in Fds : \E n \in 1..MaxLen : Read(u, f, n) \/ Write(u, f, n)
  BY <1>0, <1>5 DEF Read, Write, Begin
<1>6. CASE \/ \E f \in Fds : Close(u, f) \/ \E g \in DupTo : Dup2(u, f, g)
           \/ SysPipe(u) \/ Exit(u) \/ Fork(u)
  BY <1>0, <1>6 DEF Close, Dup2, SysPipe, Exit, Fork, Closing
<1>7. CASE \E w \in Tasks : Kill(u, w)
  BY <1>7, KillFrame
<1> QED BY <1>1, <1>2, <1>3, <1>4, <1>5, <1>6, <1>7 DEF Step, Call

(* Whoever reads or writes holds a reference to its end.                   *)
LEMMA HoldsEnd ==
  ASSUME PipeInv, NoRefLost, NEW t \in Tasks, pc[t] \in Moving
  PROVE  /\ l[t].p \in Pipes /\ l[t].end \in Ends /\ Refs(l[t].p, l[t].end) # {}
         /\ pipe[l[t].p].open[l[t].end] /\ pipe[l[t].p].used
<1>1. CallInv(t) /\ TypesInv /\ RefInv
  BY DEF PipeInv, CallsInv
<1>2. l[t].p \in Pipes /\ l[t].end \in Ends
  BY <1>1, Fields DEF CallInv
<1>3. PICK f \in Fds : fd[t][f] = [end |-> l[t].end, p |-> l[t].p]
  BY <1>1 DEF CallInv
<1>4. st[t] # "UNUSED" /\ Uncounted(t) = {}
  BY <1>1 DEF CallInv, Moving, Uncounted, Given, Incs
<1>5. Counted(t, f)
  BY <1>4 DEF Counted
<1>6. <<t, f>> \in Refs(l[t].p, l[t].end)
  <2>1. PICK d : d = [end |-> l[t].end, p |-> l[t].p]
    OBVIOUS
  <2>2. fd[t][f] = d
    BY <1>3, <2>1
  <2>3. <<t, f>> \in Tasks \X Fds /\ <<t, f>>[1] = t /\ <<t, f>>[2] = f
    OBVIOUS
  <2> QED BY <1>5, <2>1, <2>2, <2>3 DEF Refs
<1> QED BY <1>1, <1>2, <1>6 DEF RefInv

LEMMA EofStep ==
  ASSUME PipeInv, Next, NEW t \in Tasks, NEW p \in Pipes, Asleep(t, p, "r"), ~pipe'[p].open["w"],
         "ref" \notin raced', ~\E u \in Tasks : Kill(u, t)
  PROVE  Asleep(t, p, "r")'
<1>1. CallsInv /\ TypesInv /\ NamesInv
  BY DEF PipeInv, CallsInv
<1>2. st[t] = "BLOCKED" /\ l[t].p = p /\ l[t].end = "r" /\ pc[t] = "unmark"
  BY DEF Asleep
<1>3. PICK u \in Tasks : Step(u) \/ Call(u)
  BY DEF Next
<1>4. u # t
  <2>1. CASE Step(u)
    BY <1>2, <2>1 DEF Step, Wait, Move, CloseStep, TestCount, TestOpen, Mark, Block, Unmark, LoadCount,
       StoreCount, Wake, Clear, Take, Put, Create, LoadRef, StoreRef, Zero, TestShut, Unuse, ClearFd,
       Closed, LoadInc, StoreInc, Incremented, AtEnd, At
  <2>2. CASE Call(u)
    BY <1>2, <2>2 DEF Call, Read, Write, Begin, Close, Dup2, SysPipe, Exit, Fork, Kill, At
  <2> QED BY <1>3, <2>1, <2>2
<1>5. pc'[t] = pc[t] /\ l'[t] = l[t]
  BY <1>1, <1>3, <1>4, OthersStay
<1>6. ASSUME st'[t] # st[t] PROVE FALSE
  <2>1. CASE \E e \in Ends : Wake(u, e)
    <3>1. PICK e \in Ends : Wake(u, e)
      BY <2>1
    <3>2. /\ pc[u] = "wake" /\ l[u].end = e /\ UNCHANGED <<pipe, raced>>
          /\ st' = Woken(pipe[l[u].p].blk[Other(e)])
      BY <3>1 DEF Wake, AtEnd, At, PipeOf
    <3>3. NoRefLost
      BY <3>2 DEF NoRefLost
    <3>4. l[u].p \in Pipes /\ pipe[l[u].p].open[e]
      BY <3>2, <3>3, HoldsEnd DEF Moving
    <3>5. pipe[l[u].p].blk[Other(e)] = t
      <4>1. pipe[l[u].p].blk[Other(e)] \in Tasks \cup {None}
        BY <1>1, <3>4, PipeFields, Sizes
      <4> QED BY <1>1, <1>6, <3>2, <4>1, WokenType
    <3>6. l[u].p = p /\ Other(e) = "r"
      BY <1>1, <1>2, <3>4, <3>5, Sizes DEF NamesInv
    <3>7. e = "w"
      BY <3>6 DEF Other, Ends
    <3> QED BY <3>2, <3>4, <3>6, <3>7
  <2>2. CASE Zero(u)
    <3>1. PICK e \in Ends, q \in Pipes :
            /\ q = l[u].p /\ e = fd[u][l[u].f].end
      <4>1. l[u].f \in Fds /\ fd[u][l[u].f] # Shut /\ l[u].p \in Pipes
        <5>1. CallInv(u) /\ pc[u] = "czero"
          BY <1>1, <2>2 DEF CallsInv, Zero, At
        <5> QED BY <1>1, <5>1, Fields DEF CallInv, Given, Closings, PipeFds
      <4> QED BY <1>1, <4>1, Fields
    <3>2. pipe[q].ref[e] = 0 /\ st' = Woken(pipe[q].blk[e]) /\ UNCHANGED raced
      BY <1>6, <2>2, <3>1 DEF Zero, PipeOf
    <3>3. NoRefLost
      BY <3>2 DEF NoRefLost
    <3>4. pipe[q].blk[e] = t
      <4>1. pipe[q].blk[e] \in Tasks \cup {None}
        BY <1>1, PipeFields
      <4> QED BY <1>1, <1>6, <3>2, <4>1, WokenType
    <3>5. q = p /\ e = "r"
      BY <1>1, <1>2, <3>4 DEF NamesInv
    <3>6. Refs(p, "r") # {}
      BY <1>2, <3>3, HoldsEnd DEF Moving
    <3> QED BY <1>1, <3>2, <3>3, <3>5, <3>6, NoRefs DEF PipeInv
  <2>3. CASE Incremented(u)
    <3>1. UNCHANGED raced /\ (UNCHANGED st \/ (l[u].next = "fork" /\ st' = [st EXCEPT ![l[u].who] = "READY"]))
      BY <2>3 DEF Incremented
    <3>2. l[u].next = "fork" /\ st' = [st EXCEPT ![l[u].who] = "READY"]
      BY <1>6, <3>1
    <3>3. ForkInv
      BY <3>1 DEF PipeInv, NoRefLost
    <3>4. st[l[u].who] = "UNUSED"
      BY <3>2, <3>3 DEF ForkInv
    <3> QED BY <1>1, <1>2, <1>6, <3>2, <3>4 DEF TypesInv
  <2> QED BY <1>1, <1>3, <1>4, <1>6, <2>1, <2>2, <2>3, Starts
<1> QED BY <1>2, <1>5, <1>6 DEF Asleep

(* A reader that sleeps when the last write end is closed is woken by      *)
(* nothing but a signal: not by pipe_close_end, which wakes the end being  *)
(* closed (pipe.c:106), and by no other call, however many tasks share the *)
(* pipe; only by sys_kill (scheduler.c:282).                               *)
THEOREM EndOfFileOnlyByKill == Spec => OnlyKillWakesAtEof
<1> DEFINE Stay == \A t \in Tasks, p \in Pipes :
                     Asleep(t, p, "r") /\ ~pipe'[p].open["w"] /\ "ref" \notin raced'
                       => Asleep(t, p, "r")' \/ \E u \in Tasks : Kill(u, t)
<1>1. PipeInv /\ [Next]_vars => [Stay]_vars
  BY EofStep
<1> QED BY <1>1, PipeInvariant, PTL DEF Spec, OnlyKillWakesAtEof

-----------------------------------------------------------------------------
(* One reading and one writing task.                                       *)
OneEach == /\ \A t, u \in Readers : t = u
           /\ \A t, u \in Writers : t = u

(* What the two know of the count between their steps.  A write that is    *)
(* overtaken by a read has seen a count that is too high, a read that is   *)
(* overtaken one that is too low: neither leaves the bounds.               *)
In(t, e, p, where) == l[t].end = e /\ l[t].p = p /\ pc[t] \in where
RoleInv(t) == /\ pc[t] \in Moving /\ l[t].end = "r" => t \in Readers /\ l[t].chunk = 0
              /\ pc[t] \in Moving /\ l[t].end = "w" => t \in Writers
WriterInv(t) ==
  /\ pc[t] \in {"test", "open", "mark", "block", "unmark"} => l[t].total < l[t].len
  /\ pc[t] \in {"copy", "load", "store"} =>
       1 <= l[t].chunk /\ l[t].total + l[t].chunk <= l[t].len
  /\ pc[t] \in {"wake", "clear"} => l[t].total <= l[t].len
  /\ pc[t] \in {"copy", "load"} => l[t].chunk <= N - pipe[l[t].p].count
  /\ pc[t] = "store" => pipe[l[t].p].count <= l[t].c /\ l[t].c + l[t].chunk <= N
ReaderInv(t) ==
  /\ pc[t] = "load" => 1 <= pipe[l[t].p].count
  /\ pc[t] = "store" => 1 <= l[t].c /\ l[t].c <= pipe[l[t].p].count
CountInv ==
  /\ \A p \in Pipes : pipe[p].count \in 0 .. N
  /\ \A t \in Tasks : /\ pc[t] \in Moving /\ l[t].end = "w" => WriterInv(t)
                      /\ pc[t] \in Moving /\ l[t].end = "r" => ReaderInv(t)

(* The bytes in the ring, while no update is lost: a is what a write has   *)
(* put there and not counted yet, b what a read has taken and still counts.*)
Holds(t, e, p) == In(t, e, p, {"load", "store"})
Ahead(p, a)  == IF \E t \in Tasks : Holds(t, "w", p)
                THEN \A t \in Tasks : Holds(t, "w", p) => a = l[t].chunk
                ELSE a = 0
Behind(p, b) == b = IF \E t \in Tasks : Holds(t, "r", p) THEN 1 ELSE 0
RingOk(n, g, head, tail, buf) ==
  /\ n \in 0 .. N /\ head = Advance(tail, n)
  /\ \A k \in 1 .. N : k <= n => buf[Advance(tail, k - 1)] = g + k
RingSound(p) ==
  /\ RingOk(sent[p] - got[p], got[p], pipe[p].head, pipe[p].tail, pipe[p].buf)
  /\ \E a \in 0 .. N, b \in 0 .. 1 :
       Ahead(p, a) /\ Behind(p, b) /\ sent[p] - got[p] = pipe[p].count + a - b
BytesInv == ~garbled /\ \A p \in Pipes : RingSound(p)

(* A task on its way to sleep, or asleep, has left its name and will find  *)
(* nothing to do, or the other side is on its way to wake it.              *)
Sleepy(t) == pc[t] \in {"open", "mark", "block"} \/ (pc[t] = "unmark" /\ st[t] = "BLOCKED")
Wakes(e) == IF e = "r" THEN {"wake"} ELSE {"copy", "load", "store", "wake"}
Excused(p, e) == MustWait(p, e) \/ \E u \in Tasks : In(u, Other(e), p, Wakes(e))
SleepInv == \A t \in Tasks : Sleepy(t) =>
              /\ pc[t] \in {"block", "unmark"} => pipe[l[t].p].blk[l[t].end] = t
              /\ Excused(l[t].p, l[t].end)

-----------------------------------------------------------------------------
(* The count.                                                              *)

RolesInv == PipeInv /\ \A t \in Tasks : RoleInv(t)

LEMMA SameCounts ==
  ASSUME TypesInv, CountInv, NEW t \in Tasks,
         \A p \in Pipes : pipe'[p].count = pipe[p].count,
         \A v \in Tasks : v # t => pc'[v] = pc[v] /\ l'[v] = l[v],
         pc'[t] \in Moving /\ l'[t].end = "w" => WriterInv(t)',
         pc'[t] \in Moving /\ l'[t].end = "r" => ReaderInv(t)'
  PROVE  CountInv'
<1>1. \A p \in Pipes : pipe'[p].count \in 0 .. N
  BY DEF CountInv
<1>2. ASSUME NEW v \in Tasks
      PROVE  /\ pc'[v] \in Moving /\ l'[v].end = "w" => WriterInv(v)'
             /\ pc'[v] \in Moving /\ l'[v].end = "r" => ReaderInv(v)'
  <2>1. CASE v = t
    BY <2>1
  <2>2. CASE v # t
    <3>1. pc'[v] = pc[v] /\ l'[v] = l[v] /\ pipe'[l[v].p].count = pipe[l[v].p].count
      BY <2>2, Fields
    <3>2. /\ pc[v] \in Moving /\ l[v].end = "w" => WriterInv(v)
          /\ pc[v] \in Moving /\ l[v].end = "r" => ReaderInv(v)
      BY DEF CountInv
    <3> QED BY <3>1, <3>2 DEF WriterInv, ReaderInv
  <2> QED BY <2>1, <2>2
<1> QED BY <1>1, <1>2 DEF CountInv

(* The others of the same end are none.                                    *)
LEMMA Alone ==
  ASSUME OneEach, NEW t \in Tasks, NEW v \in Tasks, RoleInv(t), RoleInv(v),
         pc[t] \in Moving, pc[v] \in Moving, l[t].end = l[v].end, l[t].end \in Ends
  PROVE  t = v
BY DEF RoleInv, OneEach, Ends

(* What the steps of a wait do to the locals and to the ring.              *)
LEMMA WaitEffect ==
  ASSUME CallsInv, NEW t \in Tasks, NEW e \in Ends, Wait(t, e)
  PROVE  /\ \A p \in Pipes : /\ pipe'[p].count = pipe[p].count /\ pipe'[p].head = pipe[p].head
                             /\ pipe'[p].tail = pipe[p].tail /\ pipe'[p].buf = pipe[p].buf
         /\ UNCHANGED <<sent, got, garbled, raced, missed>>
         /\ \/ pc[t] = "test" /\ pc'[t] = "open" /\ MustWait(l[t].p, e) /\ UNCHANGED <<pipe, st, l>>
            \/ /\ pc[t] = "test" /\ pc'[t] = "copy" /\ ~MustWait(l[t].p, e) /\ UNCHANGED <<pipe, st>>
               /\ l'[t].total = l[t].total /\ l'[t].len = l[t].len /\ Stays(t)
               /\ l'[t].chunk = IF e = "r" THEN l[t].chunk ELSE Chunk(t)
            \/ pc[t] = "open" /\ pc'[t] = "mark" /\ UNCHANGED <<pipe, st, l>>
            \/ /\ pc[t] = "mark" /\ pc'[t] = "block" /\ UNCHANGED <<st, l>>
               /\ \A p \in Pipes, d \in Ends :
                    pipe'[p].blk[d] = IF p = l[t].p /\ d = e THEN t ELSE pipe[p].blk[d]
            \/ /\ pc[t] = "block" /\ pc'[t] = "unmark" /\ UNCHANGED <<pipe, l>>
               /\ \A v \in Tasks : st'[v] = IF v = t THEN "BLOCKED" ELSE st[v]
            \/ /\ pc[t] = "unmark" /\ pc'[t] \in {"test", "user"} /\ UNCHANGED st
               /\ pc'[t] = "test" => UNCHANGED l
               /\ \A p \in Pipes, d \in Ends :
                    pipe'[p].blk[d] = IF p = l[t].p /\ d = e THEN None ELSE pipe[p].blk[d]
            \/ pc[t] = "open" /\ pc'[t] = "user" /\ UNCHANGED <<pipe, st>>
<1>1. TypesInv /\ l[t] \in Locals
  BY DEF CallsInv, TypesInv
<1>2. PICK q \in Pipes : q = l[t].p
  BY <1>1, Fields
<1>3. CASE TestCount(t, e)
  <2>1. UNCHANGED <<pipe, st, sent, got, garbled, raced, missed>> /\ pc[t] = "test"
    BY <1>3 DEF TestCount, AtEnd, At, hist
  <2>2. CASE MustWait(l[t].p, e) /\ Goto(t, "open") /\ UNCHANGED l
    BY <1>1, <2>1, <2>2 DEF Goto, TypesInv
  <2>3. CASE ~MustWait(l[t].p, e) /\ Goto(t, "copy")
             /\ l' = IF e = "r" THEN l ELSE [l EXCEPT ![t].chunk = Chunk(t)]
    <3> HIDE DEF Chunk
    <3>1. pc'[t] = "copy"
      BY <1>1, <2>3 DEF Goto, TypesInv
    <3>2. /\ l'[t].total = l[t].total /\ l'[t].len = l[t].len /\ Stays(t)
          /\ l'[t].chunk = IF e = "r" THEN l[t].chunk ELSE Chunk(t)
      BY <1>1, <2>3 DEF TypesInv, Locals, Stays
    <3> QED BY <2>1, <2>3, <3>1, <3>2
  <2> QED BY <1>3, <2>2, <2>3 DEF TestCount
<1>4. CASE TestOpen(t, e)
  <2>1. UNCHANGED <<pipe, st, sent, got, garbled, raced, missed>> /\ pc[t] = "open"
    BY <1>4 DEF TestOpen, AtEnd, At, hist
  <2>2. CASE Goto(t, "mark") /\ UNCHANGED l
    BY <1>1, <2>1, <2>2 DEF Goto, TypesInv
  <2>3. CASE Return(t)
    BY <1>1, <2>1, <2>3, ReturnFacts
  <2> QED BY <1>4, <2>2, <2>3 DEF TestOpen
<1>5. ASSUME NEW x \in Tasks \cup {None}, pipe' = [pipe EXCEPT ![q].blk[e] = x]
      PROVE  /\ \A p \in Pipes : /\ pipe'[p].count = pipe[p].count /\ pipe'[p].head = pipe[p].head
                                 /\ pipe'[p].tail = pipe[p].tail /\ pipe'[p].buf = pipe[p].buf
             /\ \A p \in Pipes, d \in Ends :
                  pipe'[p].blk[d] = IF p = q /\ d = e THEN x ELSE pipe[p].blk[d]
  <2> DEFINE y == [pipe[q] EXCEPT !.blk[e] = x]
  <2>1. pipe' = [pipe EXCEPT ![q] = y] /\ pipe[q] \in PipeRecords
    BY <1>1, <1>5 DEF TypesInv
  <2>2. /\ y \in PipeRecords /\ y.count = pipe[q].count /\ y.head = pipe[q].head /\ y.tail = pipe[q].tail
        /\ y.buf = pipe[q].buf /\ \A d \in Ends : y.blk[d] = IF d = e THEN x ELSE pipe[q].blk[d]
    BY <2>1 DEF PipeRecords
  <2> HIDE DEF y
  <2>3. pipe'[q] = y /\ \A p \in Pipes : p # q => pipe'[p] = pipe[p]
    BY <1>1, <2>1, <2>2, UpdatePipe
  <2>4. \A p \in Pipes : /\ pipe'[p].count = pipe[p].count /\ pipe'[p].head = pipe[p].head
                         /\ pipe'[p].tail = pipe[p].tail /\ pipe'[p].buf = pipe[p].buf
    BY <2>2, <2>3
  <2>5. ASSUME NEW p \in Pipes, NEW d \in Ends
        PROVE  pipe'[p].blk[d] = IF p = q /\ d = e THEN x ELSE pipe[p].blk[d]
    BY <2>2, <2>3
  <2> QED BY <2>4, <2>5
<1>6. CASE Mark(t, e)
  <2>1. UNCHANGED <<st, l, sent, got, garbled, raced, missed>> /\ pc[t] = "mark" /\ Goto(t, "block")
        /\ pipe' = [pipe EXCEPT ![q].blk[e] = t]
    BY <1>2, <1>6 DEF Mark, AtEnd, At, hist
  <2>2. pc'[t] = "block"
    BY <1>1, <2>1 DEF Goto, TypesInv
  <2>3. /\ \A p \in Pipes : /\ pipe'[p].count = pipe[p].count /\ pipe'[p].head = pipe[p].head
                            /\ pipe'[p].tail = pipe[p].tail /\ pipe'[p].buf = pipe[p].buf
        /\ \A p \in Pipes, d \in Ends :
             pipe'[p].blk[d] = IF p = q /\ d = e THEN t ELSE pipe[p].blk[d]
    BY <1>5, <2>1
  <2> QED BY <1>2, <2>1, <2>2, <2>3
<1>7. CASE Block(t, e)
  <2>1. UNCHANGED <<pipe, l, sent, got, garbled, raced, missed>> /\ pc[t] = "block" /\ Goto(t, "unmark")
        /\ st' = [st EXCEPT ![t] = "BLOCKED"]
    BY <1>7 DEF Block, AtEnd, At, hist
  <2> QED BY <1>1, <2>1 DEF Goto, TypesInv
<1>8. CASE Unmark(t, e)
  <2>1. UNCHANGED <<st, sent, got, garbled, raced, missed>> /\ pc[t] = "unmark"
        /\ pipe' = [pipe EXCEPT ![q].blk[e] = None]
        /\ (Return(t) \/ (Goto(t, "test") /\ UNCHANGED l))
    BY <1>2, <1>8 DEF Unmark, AtEnd, At, hist
  <2>2. pc'[t] \in {"user", "test"} /\ (pc'[t] = "test" => UNCHANGED l)
    <3>1. CASE Return(t)
      BY <1>1, <3>1, ReturnFacts
    <3>2. CASE Goto(t, "test") /\ UNCHANGED l
      BY <1>1, <3>2 DEF Goto, TypesInv
    <3> QED BY <2>1, <3>1, <3>2
  <2>3. None \in Tasks \cup {None}
    OBVIOUS
  <2>4. /\ \A p \in Pipes : /\ pipe'[p].count = pipe[p].count /\ pipe'[p].head = pipe[p].head
                            /\ pipe'[p].tail = pipe[p].tail /\ pipe'[p].buf = pipe[p].buf
        /\ \A p \in Pipes, d \in Ends :
             pipe'[p].blk[d] = IF p = q /\ d = e THEN None ELSE pipe[p].blk[d]
    BY <1>5, <2>1, <2>3
  <2> QED BY <1>2, <2>1, <2>2, <2>4
<1> QED BY <1>3, <1>4, <1>6, <1>7, <1>8 DEF Wait

(* The rings, and what the tasks know, but for the names at the ends.      *)
SameRings == \A p \in Pipes : /\ pipe'[p].count = pipe[p].count /\ pipe'[p].head = pipe[p].head
                              /\ pipe'[p].tail = pipe[p].tail /\ pipe'[p].buf = pipe[p].buf

LEMMA LoadEffect ==
  ASSUME CallsInv, NEW t \in Tasks, NEW e \in Ends, LoadCount(t, e)
  PROVE  /\ UNCHANGED <<pipe, st, sent, got, garbled, raced, missed>>
         /\ pc[t] = "load" /\ pc'[t] = "store" /\ l[t].end = e /\ Stays(t)
         /\ l'[t].total = l[t].total /\ l'[t].len = l[t].len /\ l'[t].chunk = l[t].chunk
         /\ l'[t].c = pipe[l[t].p].count
<1>1. TypesInv /\ l[t] \in Locals
  BY DEF CallsInv, TypesInv
<1>2. /\ UNCHANGED <<pipe, st, sent, got, garbled, raced, missed>> /\ pc[t] = "load" /\ l[t].end = e
      /\ Goto(t, "store") /\ l' = [l EXCEPT ![t].c = PipeOf(t).count]
  BY DEF LoadCount, AtEnd, At, hist
<1> QED BY <1>1, <1>2 DEF TypesInv, Locals, Goto, Stays, PipeOf

(* The store of the count, with the locals that follow it.                 *)
Stored(y, m) == [y EXCEPT !.c = 0, !.chunk = 0, !.total = m]
LEMMA StoresLocals ==
  ASSUME NEW y \in Locals, NEW m \in Int
  PROVE  LET z == Stored(y, m) IN
         /\ z \in Locals /\ z.c = 0 /\ z.chunk = 0 /\ z.total = m /\ z.len = y.len
         /\ z.end = y.end /\ z.p = y.p
<1> DEFINE x1 == [y EXCEPT !.c = 0]
           x2 == [x1 EXCEPT !.chunk = 0]
           x == [x2 EXCEPT !.total = m]
<1>1. x = Stored(y, m)
  BY DEF Locals, Stored
<1>2. x1 \in Locals /\ x1.c = 0 /\ x1.len = y.len /\ x1.end = y.end /\ x1.p = y.p
  BY DEF Locals
<1> HIDE DEF x1
<1>3. x2 \in Locals /\ x2.c = 0 /\ x2.chunk = 0 /\ x2.len = y.len /\ x2.end = y.end /\ x2.p = y.p
  BY <1>2 DEF Locals
<1> HIDE DEF x2
<1>4. /\ x \in Locals /\ x.c = 0 /\ x.chunk = 0 /\ x.total = m /\ x.len = y.len
      /\ x.end = y.end /\ x.p = y.p
  BY <1>3 DEF Locals
<1> HIDE DEF x
<1> QED BY <1>1, <1>4

LEMMA StoreEffect ==
  ASSUME CallsInv, NEW t \in Tasks, NEW e \in Ends, StoreCount(t, e)
  PROVE  /\ UNCHANGED <<st, sent, got, garbled, missed>>
         /\ pc[t] = "store" /\ pc'[t] = (IF e = "r" THEN "copy" ELSE "wake") /\ l[t].end = e /\ Stays(t)
         /\ l'[t].total = l[t].total + l[t].chunk /\ l'[t].len = l[t].len /\ l'[t].chunk = 0
         /\ raced' = Raced("count", pipe[l[t].p].count # l[t].c)
         /\ \A p \in Pipes : /\ pipe'[p].head = pipe[p].head /\ pipe'[p].tail = pipe[p].tail
                             /\ pipe'[p].buf = pipe[p].buf /\ pipe'[p].blk = pipe[p].blk
                             /\ pipe'[p].count = IF p # l[t].p THEN pipe[p].count
                                                 ELSE IF e = "r" THEN l[t].c - 1
                                                 ELSE l[t].c + l[t].chunk
<1>1. TypesInv /\ l[t] \in Locals /\ l[t].total \in Int /\ l[t].chunk \in Int /\ l[t].c \in Int
  BY Fields DEF CallsInv, TypesInv
<1>2. PICK q \in Pipes, m \in Int, n \in Int :
        /\ q = l[t].p /\ m = l[t].total + l[t].chunk
        /\ n = IF e = "r" THEN l[t].c - 1 ELSE l[t].c + l[t].chunk
  <2>1. l[t].p \in Pipes /\ l[t].total + l[t].chunk \in Int
        /\ (IF e = "r" THEN l[t].c - 1 ELSE l[t].c + l[t].chunk) \in Int
    BY <1>1, Fields
  <2> QED BY <2>1
<1>3. /\ UNCHANGED <<st, sent, got, garbled, missed>> /\ pc[t] = "store" /\ l[t].end = e
      /\ Goto(t, IF e = "r" THEN "copy" ELSE "wake")
      /\ raced' = Raced("count", pipe[q].count # l[t].c)
      /\ pipe' = [pipe EXCEPT ![q].count = n]
      /\ l' = [l EXCEPT ![t] = Stored(l[t], m)]
  BY <1>1, <1>2 DEF StoreCount, AtEnd, At, hist, PipeOf, Stored, TypesInv
<1>4. pc'[t] = IF e = "r" THEN "copy" ELSE "wake"
  BY <1>1, <1>3 DEF Goto, TypesInv
<1> DEFINE z == Stored(l[t], m)
<1>5. /\ z \in Locals /\ z.chunk = 0 /\ z.total = m /\ z.len = l[t].len
      /\ z.end = l[t].end /\ z.p = l[t].p
  BY <1>1, StoresLocals
<1>6. l'[t] = z
  BY <1>1, <1>3 DEF TypesInv
<1> HIDE DEF z
<1> DEFINE y == [pipe[q] EXCEPT !.count = n]
<1>7. pipe' = [pipe EXCEPT ![q] = y] /\ pipe[q] \in PipeRecords
  BY <1>1, <1>3 DEF TypesInv
<1>8. /\ y \in PipeRecords /\ y.count = n /\ y.head = pipe[q].head /\ y.tail = pipe[q].tail
      /\ y.buf = pipe[q].buf /\ y.blk = pipe[q].blk
  BY <1>7 DEF PipeRecords
<1> HIDE DEF y
<1>9. pipe'[q] = y /\ \A p \in Pipes : p # q => pipe'[p] = pipe[p]
  BY <1>1, <1>7, <1>8, UpdatePipe
<1>10. ASSUME NEW p \in Pipes
       PROVE  /\ pipe'[p].head = pipe[p].head /\ pipe'[p].tail = pipe[p].tail
              /\ pipe'[p].buf = pipe[p].buf /\ pipe'[p].blk = pipe[p].blk
              /\ pipe'[p].count = IF p # q THEN pipe[p].count ELSE n
  BY <1>8, <1>9
<1>11. \A p \in Pipes : /\ pipe'[p].head = pipe[p].head /\ pipe'[p].tail = pipe[p].tail
                        /\ pipe'[p].buf = pipe[p].buf /\ pipe'[p].blk = pipe[p].blk
                        /\ pipe'[p].count = IF p # l[t].p THEN pipe[p].count
                                            ELSE IF e = "r" THEN l[t].c - 1
                                            ELSE l[t].c + l[t].chunk
  BY <1>2, <1>10
<1> QED BY <1>2, <1>3, <1>4, <1>5, <1>6, <1>11 DEF Stays

LEMMA WakeEffect ==
  ASSUME CallsInv, NEW t \in Tasks, NEW e \in Ends, Wake(t, e)
  PROVE  /\ UNCHANGED <<pipe, sent, got, garbled, raced>>
         /\ pc[t] = "wake" /\ l[t].end = e
         /\ \/ pc'[t] = "clear" /\ UNCHANGED l
            \/ pc'[t] = "test" /\ UNCHANGED l /\ e = "w" /\ l[t].total < l[t].len
            \/ pc'[t] = "user"
         /\ st' = Woken(pipe[l[t].p].blk[Other(e)])
         /\ missed' = (missed \/ Between(l[t].p, Other(e)) # {})
<1>1. TypesInv
  BY DEF CallsInv
<1>2. CASE Return(t)
  <2>1. pc'[t] = "user"
    BY <1>1, <1>2, ReturnFacts
  <2> QED BY <1>1, <2>1 DEF Wake, AtEnd, At, PipeOf, TypesInv
<1>3. CASE Goto(t, "clear") /\ UNCHANGED l
  BY <1>1, <1>3 DEF Wake, AtEnd, At, Goto, PipeOf, TypesInv
<1>4. CASE e = "w" /\ l[t].total < l[t].len /\ Goto(t, "test") /\ UNCHANGED l
  BY <1>1, <1>4 DEF Wake, AtEnd, At, Goto, PipeOf, TypesInv
<1> QED BY <1>2, <1>3, <1>4 DEF Wake, GoOn

LEMMA ClearEffect ==
  ASSUME CallsInv, NEW t \in Tasks, NEW e \in Ends, Clear(t, e)
  PROVE  /\ UNCHANGED <<st, sent, got, garbled, raced>> /\ SameRings
         /\ pc[t] = "clear" /\ l[t].end = e
         /\ missed' = (missed \/ \E u \in Tasks :
                  /\ l[u].p = l[t].p /\ l[u].end = Other(e)
                  /\ (pc[u] = "block" \/ (pc[u] = "unmark" /\ st[u] = "BLOCKED")))
         /\ \/ pc'[t] = "test" /\ UNCHANGED l /\ e = "w" /\ l[t].total < l[t].len
            \/ pc'[t] = "user"
         /\ \A p \in Pipes, d \in Ends :
              pipe'[p].blk[d] = IF p = l[t].p /\ d = Other(e) THEN None ELSE pipe[p].blk[d]
<1>1. TypesInv /\ l[t] \in Locals
  BY DEF CallsInv, TypesInv
<1>2. PICK q \in Pipes, o \in Ends : q = l[t].p /\ o = Other(e)
  BY <1>1, Fields, Sizes
<1>3. /\ UNCHANGED <<st, sent, got, garbled, raced>> /\ pc[t] = "clear" /\ l[t].end = e
      /\ pipe' = [pipe EXCEPT ![q].blk[o] = None]
      /\ missed' = (missed \/ \E u \in Tasks :
                  /\ l[u].p = l[t].p /\ l[u].end = Other(e)
                  /\ (pc[u] = "block" \/ (pc[u] = "unmark" /\ st[u] = "BLOCKED")))
  BY <1>2 DEF Clear, AtEnd, At
<1>4. \/ pc'[t] = "test" /\ UNCHANGED l /\ e = "w" /\ l[t].total < l[t].len
      \/ pc'[t] = "user"
  <2>1. CASE Return(t)
    BY <1>1, <2>1, ReturnFacts
  <2>2. CASE e = "w" /\ l[t].total < l[t].len /\ Goto(t, "test") /\ UNCHANGED l
    BY <1>1, <2>2 DEF Goto, TypesInv
  <2> QED BY <2>1, <2>2 DEF Clear, GoOn
<1> DEFINE y == [pipe[q] EXCEPT !.blk[o] = None]
<1>5. pipe' = [pipe EXCEPT ![q] = y] /\ pipe[q] \in PipeRecords
  BY <1>1, <1>3 DEF TypesInv
<1>6. /\ y \in PipeRecords /\ y.count = pipe[q].count /\ y.head = pipe[q].head /\ y.tail = pipe[q].tail
      /\ y.buf = pipe[q].buf /\ \A d \in Ends : y.blk[d] = IF d = o THEN None ELSE pipe[q].blk[d]
  BY <1>5 DEF PipeRecords
<1> HIDE DEF y
<1>7. pipe'[q] = y /\ \A p \in Pipes : p # q => pipe'[p] = pipe[p]
  BY <1>1, <1>5, <1>6, UpdatePipe
<1>8. SameRings
  BY <1>6, <1>7 DEF SameRings
<1>9. ASSUME NEW p \in Pipes, NEW d \in Ends
      PROVE  pipe'[p].blk[d] = IF p = l[t].p /\ d = Other(e) THEN None ELSE pipe[p].blk[d]
  BY <1>2, <1>6, <1>7
<1> QED BY <1>3, <1>4, <1>8, <1>9

(* A byte is taken, or the reader has all it can.                          *)
LEMMA TakeEffect ==
  ASSUME CallsInv, NEW t \in Tasks, Take(t)
  PROVE  /\ UNCHANGED <<st, sent, raced, missed>>
         /\ pc[t] = "copy" /\ l[t].end = "r" /\ Stays(t)
         /\ l'[t].len = l[t].len /\ l'[t].chunk = l[t].chunk /\ l'[t].c = l[t].c
         /\ \A p \in Pipes : /\ pipe'[p].head = pipe[p].head /\ pipe'[p].count = pipe[p].count
                             /\ pipe'[p].buf = pipe[p].buf /\ pipe'[p].blk = pipe[p].blk
         /\ \/ pc'[t] = "wake" /\ UNCHANGED <<pipe, l, garbled, got>>
            \/ /\ pc'[t] = "load" /\ pipe[l[t].p].count > 0
               /\ \A p \in Pipes : pipe'[p].tail = IF p = l[t].p THEN Advance(pipe[p].tail, 1)
                                                   ELSE pipe[p].tail
               /\ garbled' = (garbled \/ pipe[l[t].p].buf[pipe[l[t].p].tail] # got[l[t].p] + 1)
               /\ \A p \in Pipes : got'[p] = IF p = l[t].p THEN pipe[p].buf[pipe[p].tail] ELSE got[p]
<1>1. TypesInv /\ l[t] \in Locals /\ l[t].total \in Int
  BY Fields DEF CallsInv, TypesInv
<1>2. /\ UNCHANGED <<st, sent, raced, missed>> /\ pc[t] = "copy" /\ l[t].end = "r"
  BY DEF Take, AtEnd, At
<1>3. CASE Goto(t, "wake") /\ UNCHANGED <<l, pipe, garbled, got>>
  BY <1>1, <1>2, <1>3 DEF Goto, TypesInv, Stays
<1>4. CASE ~(Goto(t, "wake") /\ UNCHANGED <<l, pipe, garbled, got>>)
  <2>1. PICK q \in Pipes, m \in Int, n \in 0 .. N - 1 :
          q = l[t].p /\ m = l[t].total + 1 /\ n = Advance(pipe[q].tail, 1)
    <3>1. l[t].p \in Pipes /\ l[t].total + 1 \in Int
      BY <1>1, Fields
    <3>2. pipe[l[t].p].tail \in 0 .. N - 1
      BY <1>1, <3>1, PipeFields
    <3>3. Advance(pipe[l[t].p].tail, 1) \in 0 .. N - 1
      <4>1. pipe[l[t].p].tail \in Int /\ 1 \in Int
        BY <3>2
      <4> QED BY <4>1, AdvanceIn
    <3> QED BY <3>1, <3>3
  <2>2. /\ Goto(t, "load") /\ pipe[q].count > 0 /\ l' = [l EXCEPT ![t].total = m]
        /\ pipe' = [pipe EXCEPT ![q].tail = n]
        /\ garbled' = (garbled \/ pipe[q].buf[pipe[q].tail] # got[q] + 1)
        /\ got' = [got EXCEPT ![q] = pipe[q].buf[pipe[q].tail]]
    BY <1>1, <1>4, <2>1 DEF Take, PipeOf, TypesInv
  <2>3. pc'[t] = "load"
    BY <1>1, <2>2 DEF Goto, TypesInv
  <2>4. Stays(t) /\ l'[t].len = l[t].len /\ l'[t].chunk = l[t].chunk /\ l'[t].c = l[t].c
    BY <1>1, <2>2 DEF TypesInv, Locals, Stays
  <2>5. \A p \in Pipes : got'[p] = IF p = q THEN pipe[p].buf[pipe[p].tail] ELSE got[p]
    BY <1>1, <2>2 DEF TypesInv
  <2> DEFINE y == [pipe[q] EXCEPT !.tail = n]
  <2>6. pipe' = [pipe EXCEPT ![q] = y] /\ pipe[q] \in PipeRecords
    BY <1>1, <2>2 DEF TypesInv
  <2>7. /\ y \in PipeRecords /\ y.count = pipe[q].count /\ y.head = pipe[q].head /\ y.tail = n
        /\ y.buf = pipe[q].buf /\ y.blk = pipe[q].blk
    BY <2>6 DEF PipeRecords
  <2> HIDE DEF y
  <2>8. pipe'[q] = y /\ \A p \in Pipes : p # q => pipe'[p] = pipe[p]
    BY <1>1, <2>6, <2>7, UpdatePipe
  <2>9. ASSUME NEW p \in Pipes
        PROVE  /\ pipe'[p].head = pipe[p].head /\ pipe'[p].count = pipe[p].count
               /\ pipe'[p].buf = pipe[p].buf /\ pipe'[p].blk = pipe[p].blk
               /\ pipe'[p].tail = IF p = q THEN Advance(pipe[p].tail, 1) ELSE pipe[p].tail
    BY <2>1, <2>7, <2>8
  <2> QED BY <1>2, <2>1, <2>2, <2>3, <2>4, <2>5, <2>9
<1> QED BY <1>3, <1>4

LEMMA PutEffect ==
  ASSUME CallsInv, NEW t \in Tasks, Put(t)
  PROVE  /\ UNCHANGED <<st, l, got, garbled, raced, missed>>
         /\ pc[t] = "copy" /\ pc'[t] = "load" /\ l[t].end = "w"
         /\ \A p \in Pipes : /\ pipe'[p].tail = pipe[p].tail /\ pipe'[p].count = pipe[p].count
                             /\ pipe'[p].blk = pipe[p].blk
                             /\ p # l[t].p => pipe'[p] = pipe[p] /\ sent'[p] = sent[p]
         /\ \E q \in Pipes, n \in Int :
              /\ q = l[t].p /\ n = l[t].chunk /\ sent'[q] = sent[q] + n
              /\ pipe'[q].head = Advance(pipe[q].head, n)
              /\ \A i \in 0 .. N - 1 :
                   pipe'[q].buf[i] = IF (i - pipe[q].head) % N < n
                                     THEN sent[q] + 1 + ((i - pipe[q].head) % N) ELSE pipe[q].buf[i]
<1>1. TypesInv
  BY DEF CallsInv
<1>2. PICK q \in Pipes, n \in Int, h \in 0 .. N - 1, g \in 0 .. N - 1, s \in Int :
         /\ q = l[t].p /\ n = l[t].chunk /\ h = pipe[q].head /\ g = Advance(h, n) /\ s = sent[q]
  <2>1. l[t].p \in Pipes /\ l[t].chunk \in Int
    BY <1>1, Fields
  <2>2. pipe[l[t].p].head \in 0 .. N - 1 /\ sent[l[t].p] \in Int
    BY <1>1, <2>1, PipeFields DEF TypesInv
  <2>3. pipe[l[t].p].head \in Int
    BY <2>2
  <2>4. Advance(pipe[l[t].p].head, l[t].chunk) \in 0 .. N - 1
    BY <2>1, <2>3, AdvanceIn
  <2> QED BY <2>1, <2>2, <2>4
<1> DEFINE b == [i \in 0 .. N - 1 |-> IF (i - h) % N < n THEN s + 1 + ((i - h) % N) ELSE pipe[q].buf[i]]
           x == [pipe[q] EXCEPT !.buf = b]
           y == [x EXCEPT !.head = g]
<1>3. /\ UNCHANGED <<st, l, got, garbled, raced, missed>> /\ pc[t] = "copy" /\ l[t].end = "w"
      /\ Goto(t, "load") /\ sent' = [sent EXCEPT ![q] = s + n]
  BY <1>2 DEF Put, AtEnd, At
<1>4. pipe' = [pipe EXCEPT ![q] = y]
  BY <1>1, <1>2 DEF Put, TypesInv
<1>5. pc'[t] = "load"
  BY <1>1, <1>3 DEF Goto, TypesInv
<1>6. b \in [0 .. N - 1 -> Int]
  <2>1. ASSUME NEW i \in 0 .. N - 1
        PROVE  (IF (i - h) % N < n THEN s + 1 + ((i - h) % N) ELSE pipe[q].buf[i]) \in Int
    <3>1. N \in Nat \ {0} /\ pipe[q].buf \in [0 .. N - 1 -> Int]
      BY <1>1, Sizes, PipeFields
    <3>2. (i - h) % N \in Int /\ pipe[q].buf[i] \in Int
      BY <3>1
    <3> QED BY <3>2
  <2> QED BY <2>1
<1>7. \A i \in 0 .. N - 1 : b[i] = IF (i - h) % N < n THEN s + 1 + ((i - h) % N) ELSE pipe[q].buf[i]
  OBVIOUS
<1> HIDE DEF b
<1>8. pipe[q] \in PipeRecords
  BY <1>1 DEF TypesInv
<1>9. /\ x \in PipeRecords /\ x.buf = b /\ x.tail = pipe[q].tail /\ x.count = pipe[q].count
      /\ x.blk = pipe[q].blk
  BY <1>6, <1>8 DEF PipeRecords
<1> HIDE DEF x
<1>10. /\ y \in PipeRecords /\ y.buf = b /\ y.tail = pipe[q].tail /\ y.count = pipe[q].count
       /\ y.blk = pipe[q].blk /\ y.head = g
  BY <1>9 DEF PipeRecords
<1> HIDE DEF y
<1>11. pipe'[q] = y /\ \A p \in Pipes : p # q => pipe'[p] = pipe[p]
  BY <1>1, <1>4, <1>10, UpdatePipe
<1>12. sent'[q] = sent[q] + n /\ \A p \in Pipes : p # q => sent'[p] = sent[p]
  BY <1>1, <1>2, <1>3 DEF TypesInv
<1>13. \A p \in Pipes : /\ pipe'[p].tail = pipe[p].tail /\ pipe'[p].count = pipe[p].count
                        /\ pipe'[p].blk = pipe[p].blk
                        /\ p # l[t].p => pipe'[p] = pipe[p] /\ sent'[p] = sent[p]
  BY <1>2, <1>10, <1>11, <1>12
<1>14. /\ q = l[t].p /\ n = l[t].chunk /\ sent'[q] = sent[q] + n
       /\ pipe'[q].head = Advance(pipe[q].head, n)
       /\ \A i \in 0 .. N - 1 :
            pipe'[q].buf[i] = IF (i - pipe[q].head) % N < n
                              THEN sent[q] + 1 + ((i - pipe[q].head) % N) ELSE pipe[q].buf[i]
  BY <1>2, <1>7, <1>10, <1>11, <1>12
<1> QED BY <1>3, <1>5, <1>13, <1>14

(* The steps of the calls that open, copy and close descriptors.           *)
FdStep(u) == \/ Create(u) \/ CloseStep(u) \/ LoadInc(u) \/ StoreInc(u) \/ Incremented(u)
             \/ \E f \in Fds : Close(u, f) \/ \E g \in DupTo : Dup2(u, f, g)
             \/ SysPipe(u) \/ Exit(u) \/ Fork(u)

LEMMA FdPlaces ==
  ASSUME CallsInv, NEW u \in Tasks, FdStep(u)
  PROVE  pc[u] \notin Moving /\ pc'[u] \notin Moving /\ raced \subseteq raced' /\ UNCHANGED <<garbled, missed>>
<1>0. pc \in [Tasks -> {"user", "create"} \cup Moving \cup Closings \cup Incs] /\ TypesInv
  BY DEF CallsInv, TypesInv
<1>1. CASE Create(u)
  BY <1>0, <1>1 DEF Create, Return, Goto, At, Moving, Raced
<1>2. CASE LoadRef(u) \/ StoreRef(u) \/ Zero(u) \/ TestShut(u) \/ Unuse(u) \/ ClearFd(u)
  BY <1>0, <1>2 DEF LoadRef, StoreRef, Zero, TestShut, Unuse, ClearFd, Goto, At, Moving, Raced, hist
<1>3. CASE Closed(u)
  <2>1. l[u].next \in {"user", "exit", "dup"}
    <3>1. CallInv(u) /\ pc[u] = "close"
      BY <1>3 DEF CallsInv, Closed, At
    <3> QED BY <1>0, <3>1, Fields DEF CallInv, Incs
  <2>2. pc' = [pc EXCEPT ![u] = "user"] \/ pc' = [pc EXCEPT ![u] = "inc"]
    BY <1>3, <2>1 DEF Closed, Return, Goto
  <2>3. pc[u] = "close" /\ raced' = raced /\ UNCHANGED <<garbled, missed>>
    BY <1>3 DEF Closed, At, hist
  <2> QED BY <1>0, <2>2, <2>3 DEF Moving
<1>4. CASE LoadInc(u) \/ StoreInc(u) \/ Incremented(u)
  BY <1>0, <1>4 DEF LoadInc, StoreInc, Incremented, Return, Goto, At, Moving, Raced, hist
<1>5. CASE \/ \E f \in Fds : Close(u, f) \/ \E g \in DupTo : Dup2(u, f, g)
           \/ SysPipe(u) \/ Exit(u) \/ Fork(u)
  BY <1>0, <1>5 DEF Close, Dup2, SysPipe, Exit, Fork, Closing, Goto, At, Moving, Raced, hist
<1> QED BY <1>1, <1>2, <1>3, <1>4, <1>5 DEF FdStep, CloseStep

LEMMA FdRings ==
  ASSUME CallsInv, NEW u \in Tasks, FdStep(u), ~Create(u)
  PROVE  /\ SameRings /\ UNCHANGED <<sent, got>>
         /\ \A p \in Pipes, e \in Ends :
              pipe'[p].blk[e] = pipe[p].blk[e] \/ (Zero(u) /\ pipe[p].ref[e] = 0)
<1>1. TypesInv
  BY DEF CallsInv
<1>2. CASE UNCHANGED <<pipe, sent, got>>
  BY <1>2 DEF SameRings
<1>3. CASE StoreRef(u) \/ StoreInc(u)
  <2>1. UNCHANGED <<sent, got>>
    BY <1>3 DEF StoreRef, StoreInc, hist
  <2>2. pipe' = pipe \/ \E q \in Pipes, e \in Ends, x \in Nat : pipe' = WithRef(q, e, x)
    <3>1. CallInv(u) /\ (At(u, "cstore") \/ At(u, "istore"))
      BY <1>3 DEF CallsInv, StoreRef, StoreInc
    <3>2. l[u].f \in l[u].todo /\ l[u].todo \subseteq PipeFds(u) /\ l[u].c \in Nat
      BY <3>1 DEF CallInv, At, Given, Closings, Incs
    <3>3. l[u].f \in Fds /\ fd[u][l[u].f] # Shut
      BY <3>2 DEF PipeFds
    <3>4. PICK q \in Pipes, e \in Ends, c \in Nat : q = l[u].p /\ e = fd[u][l[u].f].end /\ c = l[u].c
      BY <1>1, <3>2, <3>3, Fields
    <3>5. c > 0 => c - 1 \in Nat
      OBVIOUS
    <3>6. c + 1 \in Nat
      OBVIOUS
    <3>7. CASE StoreRef(u)
      <4>1. pipe' = pipe \/ (c > 0 /\ pipe' = WithRef(q, e, c - 1))
        BY <3>4, <3>7 DEF StoreRef, WithRef
      <4> QED BY <3>5, <4>1
    <3>8. CASE StoreInc(u)
      <4>1. pipe' = WithRef(q, e, c + 1)
        BY <3>4, <3>8 DEF StoreInc, WithRef
      <4> QED BY <3>6, <4>1
    <3> QED BY <1>3, <3>7, <3>8
  <2>3. CASE pipe' = pipe
    BY <2>1, <2>3 DEF SameRings
  <2>4. CASE \E q \in Pipes, e \in Ends, x \in Nat : pipe' = WithRef(q, e, x)
    <3>1. PICK q \in Pipes, e \in Ends, x \in Nat : pipe' = WithRef(q, e, x)
      BY <2>4
    <3>2. \A p \in Pipes : /\ pipe'[p].blk = pipe[p].blk /\ pipe'[p].count = pipe[p].count
                           /\ pipe'[p].head = pipe[p].head /\ pipe'[p].tail = pipe[p].tail
                           /\ pipe'[p].buf = pipe[p].buf
      BY <1>1, <3>1, SetRef
    <3> QED BY <2>1, <3>2 DEF SameRings
  <2> QED BY <2>2, <2>3, <2>4
<1>4. CASE Zero(u) \/ Unuse(u)
  <2>1. UNCHANGED <<sent, got>>
    BY <1>4 DEF Zero, Unuse, hist
  <2>2. PICK q \in Pipes : q = l[u].p
    BY <1>1, Fields
  <2>3. pipe[q] \in PipeRecords
    BY <1>1 DEF TypesInv
  <2>4. CASE Unuse(u)
    <3> DEFINE y == [pipe[q] EXCEPT !.used = FALSE]
    <3>1. pipe' = [pipe EXCEPT ![q] = y]
      BY <2>2, <2>4 DEF Unuse
    <3>2. /\ y \in PipeRecords /\ y.count = pipe[q].count /\ y.head = pipe[q].head /\ y.tail = pipe[q].tail
          /\ y.buf = pipe[q].buf /\ y.blk = pipe[q].blk
      BY <2>3 DEF PipeRecords
    <3> HIDE DEF y
    <3>3. pipe'[q] = y /\ \A p \in Pipes : p # q => pipe'[p] = pipe[p]
      BY <1>1, <3>1, <3>2, UpdatePipe
    <3> QED BY <2>1, <3>2, <3>3 DEF SameRings
  <2>5. CASE Zero(u)
    <3>1. PICK e \in Ends : e = fd[u][l[u].f].end
      <4>1. CallInv(u) /\ pc[u] = "czero"
        BY <2>5 DEF CallsInv, Zero, At
      <4>2. l[u].f \in Fds /\ fd[u][l[u].f] # Shut
        BY <1>1, <4>1, Fields DEF CallInv, Given, Closings, PipeFds
      <4> QED BY <1>1, <4>2, Fields
    <3> DEFINE x == [pipe[q] EXCEPT !.open[e] = FALSE]
               y == [x EXCEPT !.blk[e] = None]
    <3>2. pipe' = pipe \/ (pipe[q].ref[e] = 0 /\ pipe' = [pipe EXCEPT ![q] = y])
      BY <1>1, <2>2, <2>5, <3>1 DEF Zero, PipeOf, TypesInv
    <3>3. /\ x \in PipeRecords /\ x.count = pipe[q].count /\ x.head = pipe[q].head /\ x.tail = pipe[q].tail
          /\ x.buf = pipe[q].buf /\ x.blk = pipe[q].blk
      BY <2>3 DEF PipeRecords
    <3> HIDE DEF x
    <3>4. /\ y \in PipeRecords /\ y.count = pipe[q].count /\ y.head = pipe[q].head /\ y.tail = pipe[q].tail
          /\ y.buf = pipe[q].buf /\ \A d \in Ends : d # e => y.blk[d] = pipe[q].blk[d]
      BY <3>3 DEF PipeRecords
    <3> HIDE DEF y
    <3>5. CASE pipe' = pipe
      BY <2>1, <3>5 DEF SameRings
    <3>6. CASE pipe[q].ref[e] = 0 /\ pipe' = [pipe EXCEPT ![q] = y]
      <4>1. pipe'[q] = y /\ \A p \in Pipes : p # q => pipe'[p] = pipe[p]
        BY <1>1, <3>4, <3>6, UpdatePipe
      <4>2. SameRings
        BY <3>4, <4>1 DEF SameRings
      <4>3. ASSUME NEW p \in Pipes, NEW d \in Ends
            PROVE  pipe'[p].blk[d] = pipe[p].blk[d] \/ pipe[p].ref[d] = 0
        BY <3>4, <3>6, <4>1
      <4> QED BY <2>1, <2>5, <4>2, <4>3
    <3> QED BY <3>2, <3>5, <3>6
  <2> QED BY <1>4, <2>4, <2>5
<1>5. \/ UNCHANGED <<pipe, sent, got>> \/ StoreRef(u) \/ StoreInc(u) \/ Zero(u) \/ Unuse(u)
  BY DEF FdStep, CloseStep, LoadRef, TestShut, ClearFd, Closed, LoadInc, Incremented, Close, Dup2,
     SysPipe, Exit, Fork, Closing, hist
<1> QED BY <1>2, <1>3, <1>4, <1>5

(* A pipe that is created was used by nobody.                              *)
LEMMA CreateRing ==
  ASSUME PipeInv, NEW u \in Tasks, Create(u), NoRefLost'
  PROVE  /\ NoRefLost /\ l[u].p \in Pipes /\ pipe'[l[u].p] = Fresh /\ sent'[l[u].p] = 0 /\ got'[l[u].p] = 0
         /\ \A p \in Pipes : p # l[u].p => pipe'[p] = pipe[p] /\ sent'[p] = sent[p] /\ got'[p] = got[p]
         /\ \A v \in Tasks : pc[v] \in Moving => l[v].p # l[u].p
<1>1. TypesInv
  BY DEF PipeInv, CallsInv
<1>2. PICK q \in Pipes : q = l[u].p
  BY <1>1, Fields
<1>3. /\ pipe' = [pipe EXCEPT ![q] = Fresh] /\ sent' = [sent EXCEPT ![q] = 0] /\ got' = [got EXCEPT ![q] = 0]
      /\ raced' = Raced("ref", pipe[q].used)
  BY <1>2 DEF Create
<1>4. NoRefLost /\ ~pipe[q].used
  BY <1>3 DEF NoRefLost, Raced
<1>5. Fresh \in PipeRecords
  BY Sizes
<1> HIDE DEF Fresh
<1>6. pipe'[q] = Fresh /\ \A p \in Pipes : p # q => pipe'[p] = pipe[p]
  BY <1>1, <1>3, <1>5, UpdatePipe
<1>7. /\ sent'[q] = 0 /\ got'[q] = 0
      /\ \A p \in Pipes : p # q => sent'[p] = sent[p] /\ got'[p] = got[p]
  BY <1>1, <1>3 DEF TypesInv
<1>8. \A v \in Tasks : pc[v] \in Moving => l[v].p # q
  BY <1>4, HoldsEnd
<1> QED BY <1>2, <1>4, <1>6, <1>7, <1>8

-----------------------------------------------------------------------------
LEMMA FdStepCounts ==
  ASSUME RolesInv, NEW u \in Tasks, FdStep(u), NoRefLost => CountInv
  PROVE  (\A v \in Tasks : RoleInv(v)') /\ (NoRefLost' => CountInv')
<1>1. CallsInv /\ TypesInv /\ PipeInv
  BY DEF RolesInv, PipeInv, CallsInv
<1>2. pc[u] \notin Moving /\ pc'[u] \notin Moving /\ raced \subseteq raced'
  BY <1>1, FdPlaces
<1>3. \A v \in Tasks : v # u => pc'[v] = pc[v] /\ l'[v] = l[v]
  BY <1>1, OthersStay DEF FdStep, Step, Call
<1>4. ASSUME NEW v \in Tasks PROVE RoleInv(v)'
  <2>1. RoleInv(v)
    BY DEF RolesInv
  <2>2. CASE v # u
    BY <1>3, <2>1, <2>2 DEF RoleInv
  <2>3. CASE v = u
    BY <1>2, <2>3 DEF RoleInv
  <2> QED BY <2>2, <2>3
<1>5. ASSUME NoRefLost' PROVE CountInv'
  <2>1. NoRefLost /\ CountInv
    BY <1>2, <1>5 DEF NoRefLost
  <2>2. CASE ~Create(u)
    <3>1. \A p \in Pipes : pipe'[p].count = pipe[p].count
      BY <1>1, <2>2, FdRings DEF SameRings
    <3> QED BY <1>1, <1>2, <1>3, <2>1, <3>1, SameCounts
  <2>3. CASE Create(u)
    <3>1. PICK q \in Pipes : /\ pipe'[q] = Fresh /\ \A p \in Pipes : p # q => pipe'[p] = pipe[p]
                             /\ \A v \in Tasks : pc[v] \in Moving => l[v].p # q
      BY <1>1, <1>5, <2>3, CreateRing
    <3>2. \A p \in Pipes : pipe'[p].count \in 0 .. N
      <4> TAKE p \in Pipes
      <4>1. CASE p = q
        <5>1. pipe'[p].count = 0
          BY <3>1, <4>1, FreshFields
        <5> QED BY <5>1, Sizes
      <4>2. CASE p # q
        BY <2>1, <3>1, <4>2 DEF CountInv
      <4> QED BY <4>1, <4>2
    <3>3. ASSUME NEW v \in Tasks, pc'[v] \in Moving
          PROVE  /\ l'[v].end = "w" => WriterInv(v)'
                 /\ l'[v].end = "r" => ReaderInv(v)'
      <4>1. pc'[v] = pc[v] /\ l'[v] = l[v] /\ pipe'[l[v].p] = pipe[l[v].p]
        BY <1>1, <1>2, <1>3, <3>1, <3>3, Fields
      <4>2. /\ l[v].end = "w" => WriterInv(v)
            /\ l[v].end = "r" => ReaderInv(v)
        BY <2>1, <3>3, <4>1 DEF CountInv
      <4> QED BY <4>1, <4>2 DEF WriterInv, ReaderInv
    <3> QED BY <3>2, <3>3 DEF CountInv
  <2> QED BY <2>2, <2>3
<1> QED BY <1>4, <1>5

(* Begin: the locals.                                                      *)
LEMMA BeginEffect ==
  ASSUME CallsInv, NEW t \in Tasks, NEW e \in Ends, NEW f \in Fds, NEW n \in 1 .. MaxLen,
         Begin(t, e, f, n)
  PROVE  /\ UNCHANGED <<pipe, st, sent, got, garbled, raced, missed>>
         /\ pc[t] = "user" /\ pc'[t] \in {"user", "test"}
         /\ l'[t].end = e /\ l'[t].chunk = 0 /\ l'[t].total = 0 /\ l'[t].len = n
<1>1. TypesInv
  BY DEF CallsInv
<1>2. l' = [l EXCEPT ![t] = [NoLocals EXCEPT !.end = e, !.p = fd[t][f].p, !.len = n]]
      /\ pc[t] = "user" /\ pc'[t] \in {"user", "test"}
  <2>1. pc[t] = "user" /\ (UNCHANGED pc \/ Goto(t, "test"))
    BY DEF Begin, At
  <2> QED BY <1>1, <2>1 DEF Begin, TypesInv, Goto
<1>3. UNCHANGED <<pipe, st, sent, got, garbled, raced, missed>>
  BY DEF Begin, hist
<1>4. PICK d : d = fd[t][f].p
  OBVIOUS
<1>5. l'[t] = [NoLocals EXCEPT !.end = e, !.p = d, !.len = n]
  BY <1>1, <1>2, <1>4 DEF TypesInv
<1>6. l'[t].end = e /\ l'[t].chunk = 0 /\ l'[t].total = 0 /\ l'[t].len = n
  BY <1>5 DEF NoLocals, Work
<1> QED BY <1>2, <1>3, <1>6

MoveStep(t) == \/ \E e \in Ends : Wait(t, e) \/ Move(t, e)
               \/ Take(t) \/ Put(t)
               \/ \E f \in Fds, n \in 1 .. MaxLen : Read(t, f, n) \/ Write(t, f, n)
               \/ \E u \in Tasks : Kill(t, u)

(* What a wait adds to what the task knows.                                *)
LEMMA WaitKnows ==
  ASSUME CallsInv, CountInv, NEW t \in Tasks, NEW e \in Ends, Wait(t, e), pc'[t] \in Moving
  PROVE  /\ l'[t].end = "w" => WriterInv(t)'
         /\ l'[t].end = "r" => ReaderInv(t)'
<1>1. TypesInv /\ SameRings /\ l[t].end = e /\ pc[t] \in Moving
  BY WaitFrame, WaitEffect DEF CallsInv, SameRings
<1>2. PICK q \in Pipes, c \in 0 .. N, k \in Int, m \in Int :
        q = l[t].p /\ c = pipe[q].count /\ k = l[t].len /\ m = l[t].total
  <2>1. l[t].p \in Pipes /\ l[t].len \in Int /\ l[t].total \in Int
    BY <1>1, Fields
  <2> QED BY <2>1 DEF CountInv
<1>3. pipe'[q].count = c
  BY <1>1, <1>2 DEF SameRings
<1>4. N \in Nat
  BY Sizes
<1>5. CASE e = "r"
  <2>1. pc'[t] \notin {"load", "store"} /\ (pc'[t] \in Moving => l'[t].end = "r")
    <3>1. \/ pc'[t] \in {"open", "mark", "block", "unmark", "test"} /\ l' = l
          \/ pc'[t] = "copy" /\ Stays(t)
          \/ pc'[t] = "user"
      BY WaitEffect
    <3> QED BY <1>1, <1>5, <3>1 DEF Stays, Moving
  <2> QED BY <2>1 DEF ReaderInv
<1>6. CASE e = "w"
  <2>1. WriterInv(t)
    BY <1>1, <1>6 DEF CountInv
  <2>2. \/ /\ pc'[t] \in {"open", "mark", "block", "unmark", "test"} /\ l' = l
           /\ pc[t] \in {"test", "open", "mark", "block", "unmark"}
        \/ /\ pc[t] = "test" /\ pc'[t] = "copy" /\ Stays(t) /\ l'[t].total = l[t].total
           /\ l'[t].len = l[t].len /\ l'[t].chunk = Chunk(t) /\ ~MustWait(l[t].p, "w")
    BY <1>6, WaitEffect DEF Moving
  <2>3. CASE /\ pc'[t] \in {"open", "mark", "block", "unmark", "test"} /\ l' = l
             /\ pc[t] \in {"test", "open", "mark", "block", "unmark"}
    BY <1>1, <1>6, <2>1, <2>3 DEF WriterInv
  <2>4. CASE /\ pc[t] = "test" /\ pc'[t] = "copy" /\ Stays(t) /\ l'[t].total = l[t].total
             /\ l'[t].len = l[t].len /\ l'[t].chunk = Chunk(t) /\ ~MustWait(l[t].p, "w")
    <3>1. m < k /\ c < N
      BY <1>2, <1>4, <2>1, <2>4 DEF WriterInv, MustWait
    <3>2. PICK a \in Int, b \in Int : a = k - m /\ b = N - c
      BY <1>2, <1>4
    <3>3. Chunk(t) = Min({a, b})
      BY <1>2, <3>2 DEF Chunk, PipeOf
    <3>4. PICK h \in Int : h = Chunk(t) /\ h <= a /\ h <= b /\ (h = a \/ h = b)
      BY <3>3, MinOfTwo
    <3>5. 1 <= h /\ m + h <= k /\ h <= N - c
      BY <1>2, <1>4, <3>1, <3>2, <3>4
    <3>6. l'[t].chunk = h /\ l'[t].total = m /\ l'[t].len = k /\ l'[t].p = q /\ l'[t].end = "w"
      BY <1>1, <1>2, <1>6, <2>4, <3>4 DEF Stays
    <3> QED BY <1>3, <2>4, <3>5, <3>6 DEF WriterInv
  <2> QED BY <2>2, <2>3, <2>4
<1> QED BY <1>5, <1>6 DEF Ends

LEMMA StoreCounts ==
  ASSUME OneEach, CallsInv, \A v \in Tasks : RoleInv(v), CountInv, NEW t \in Tasks, NEW e \in Ends,
         StoreCount(t, e)
  PROVE  CountInv'
<1>1. TypesInv /\ pc[t] = "store" /\ l[t].end = e /\ pc[t] \in Moving
  BY StoreEffect DEF CallsInv, Moving
<1>2. PICK q \in Pipes, c \in Int, k \in Int, x \in Int, n \in 0 .. N, m \in Int :
        /\ q = l[t].p /\ c = l[t].c /\ k = l[t].chunk /\ n = pipe[q].count /\ m = l[t].total
        /\ x = IF e = "r" THEN c - 1 ELSE c + k
  <2>1. l[t].p \in Pipes /\ l[t].c \in Int /\ l[t].chunk \in Int /\ l[t].total \in Int
    BY <1>1, Fields
  <2>2. pipe[l[t].p].count \in 0 .. N
    BY <2>1 DEF CountInv
  <2>3. (IF e = "r" THEN l[t].c - 1 ELSE l[t].c + l[t].chunk) \in Int
    BY <2>1
  <2> QED BY <2>1, <2>2, <2>3
<1>3. pipe'[q].count = x /\ \A p \in Pipes : p # q => pipe'[p].count = pipe[p].count
  BY <1>2, StoreEffect
<1>4. /\ pc'[t] = (IF e = "r" THEN "copy" ELSE "wake") /\ l'[t].end = e
      /\ l'[t].total = m + k /\ l'[t].len = l[t].len
  BY <1>1, <1>2, StoreEffect DEF Stays
<1>5. N \in Nat /\ n \in Int
  BY Sizes
<1>6. \A v \in Tasks : v # t => pc'[v] = pc[v] /\ l'[v] = l[v]
  BY OthersStay DEF Step, Move
<1>7. e = "r" => 1 <= c /\ c <= n /\ x = c - 1
  BY <1>1, <1>2 DEF CountInv, ReaderInv
<1>8. e = "w" => n <= c /\ 1 <= k /\ c + k <= N /\ m + k <= l[t].len /\ x = c + k
  BY <1>1, <1>2 DEF CountInv, WriterInv
<1>9. x \in 0 .. N
  BY <1>2, <1>5, <1>7, <1>8 DEF Ends
<1>10. \A p \in Pipes : pipe'[p].count \in 0 .. N
  BY <1>3, <1>9 DEF CountInv
<1>11. ASSUME NEW v \in Tasks, pc'[v] \in Moving
       PROVE  /\ l'[v].end = "w" => WriterInv(v)'
              /\ l'[v].end = "r" => ReaderInv(v)'
  <2>1. CASE v = t
    <3>1. CASE e = "r"
      BY <1>4, <2>1, <3>1 DEF ReaderInv
    <3>2. CASE e = "w"
      BY <1>4, <1>8, <2>1, <3>2 DEF WriterInv
    <3> QED BY <3>1, <3>2 DEF Ends
  <2>2. CASE v # t
    <3>1. pc'[v] = pc[v] /\ l'[v] = l[v] /\ pc[v] \in Moving /\ l[v].p \in Pipes
      BY <1>1, <1>6, <1>11, <2>2, Fields
    <3>2. l[v].end # e
      BY <1>1, <2>2, <3>1, Alone
    <3>3. CASE l[v].p # q
      <4>1. pipe'[l[v].p].count = pipe[l[v].p].count
        BY <1>3, <3>1, <3>3
      <4> QED BY <3>1, <4>1 DEF CountInv, WriterInv, ReaderInv
    <3>4. CASE l[v].p = q
      <4>1. PICK d \in Int, h \in Int : d = l[v].c /\ h = l[v].chunk
        BY <1>1, Fields
      <4>2. CASE e = "r"
        <5>1. x <= n
          BY <1>2, <1>5, <1>7, <4>2
        <5>2. l[v].end = "w" => WriterInv(v)
          BY <3>1 DEF CountInv
        <5>3. h <= N - n => h <= N - x
          BY <1>5, <5>1
        <5>4. n <= d => x <= d
          BY <1>5, <5>1
        <5>5. l[v].end = "w" => WriterInv(v)'
          BY <1>2, <1>3, <3>1, <3>4, <4>1, <5>2, <5>3, <5>4 DEF WriterInv
        <5> QED BY <3>1, <3>2, <4>2, <5>5
      <4>3. CASE e = "w"
        <5>1. n <= x
          BY <1>2, <1>5, <1>8, <4>3
        <5>2. l[v].end = "r" => ReaderInv(v)
          BY <3>1 DEF CountInv
        <5>3. 1 <= n => 1 <= x
          BY <1>5, <5>1
        <5>4. d <= n => d <= x
          BY <1>5, <5>1
        <5>5. l[v].end = "r" => ReaderInv(v)'
          BY <1>2, <1>3, <3>1, <3>4, <4>1, <5>2, <5>3, <5>4 DEF ReaderInv
        <5> QED BY <3>1, <3>2, <4>3, <5>5
      <4> QED BY <4>2, <4>3 DEF Ends
    <3> QED BY <3>3, <3>4
  <2> QED BY <2>1, <2>2
<1> QED BY <1>10, <1>11 DEF CountInv

(* A step of read or write.                                                *)
LEMMA MoveStepFrame ==
  ASSUME CallsInv, NEW t \in Tasks, MoveStep(t)
  PROVE  /\ TypesInv' /\ MoveFrame(t)
         /\ raced \subseteq raced' /\ \A v \in Tasks : v # t => pc'[v] = pc[v] /\ l'[v] = l[v]
<1>1. ASSUME NEW f \in Fds, NEW n \in 1 .. MaxLen, Read(t, f, n) \/ Write(t, f, n)
      PROVE  \E e \in Ends : Begin(t, e, f, n)
  BY <1>1 DEF Read, Write, Ends
<1>2. TypesInv' /\ MoveFrame(t)
  BY <1>1, BeginFrame, WaitFrame, MoveFrames, CopyFrame, KillFrame DEF MoveStep
<1>3. CASE \E e \in Ends : StoreCount(t, e)
  BY <1>2, <1>3 DEF StoreCount, Raced, MoveFrame
<1>4. CASE ~\E e \in Ends : StoreCount(t, e)
  <2>1. raced' = raced
    BY <1>1, <1>4 DEF MoveStep, Wait, Move, TestCount, TestOpen, Mark, Block, Unmark, LoadCount, Wake,
       Clear, Take, Put, Begin, Kill
  <2> QED BY <1>2, <2>1 DEF MoveFrame
<1> QED BY <1>3, <1>4

LEMMA MoveRoles ==
  ASSUME RolesInv, NEW t \in Tasks, MoveStep(t)
  PROVE  \A v \in Tasks : RoleInv(v)'
<1>1. CallsInv /\ TypesInv /\ RoleInv(t) /\ MoveFrame(t)
  BY MoveStepFrame DEF RolesInv, PipeInv, CallsInv
<1>2. ASSUME NEW v \in Tasks, v # t PROVE RoleInv(v)'
  <2>1. RoleInv(v) /\ pc'[v] = pc[v] /\ l'[v] = l[v]
    BY <1>2, MoveStepFrame, <1>1 DEF RolesInv
  <2> QED BY <2>1 DEF RoleInv
<1>3. ASSUME pc'[t] \in Moving, pc[t] \in Moving, l'[t].end = "r" => l'[t].chunk = 0 PROVE RoleInv(t)'
  <2>1. Stays(t)
    BY <1>1, <1>3 DEF MoveFrame, Moving
  <2> QED BY <1>1, <1>3, <2>1 DEF RoleInv, Stays
<1>4. ASSUME \E e \in Ends : Wait(t, e)
      PROVE  RoleInv(t)'
  <2>1. PICK e \in Ends : Wait(t, e)
    BY <1>4
  <2>2. l[t].end = e /\ pc[t] \in Moving
    BY <1>1, <2>1, WaitFrame
  <2>3. pc'[t] \in Moving => l'[t].end = e /\ (e = "r" => l'[t].chunk = l[t].chunk)
    <3>1. \/ l' = l \/ (Stays(t) /\ (e = "r" => l'[t].chunk = l[t].chunk)) \/ pc'[t] = "user"
      BY <1>1, <2>1, WaitEffect
    <3> QED BY <2>2, <3>1 DEF Stays, Moving
  <2> QED BY <1>1, <1>3, <2>2, <2>3 DEF RoleInv
<1>5. ASSUME \E e \in Ends : Move(t, e)
      PROVE  RoleInv(t)'
  <2>1. PICK e \in Ends : Move(t, e)
    BY <1>5
  <2>2. l[t].end = e /\ pc[t] \in Moving
    BY <1>1, <2>1, MoveFrames
  <2>3. pc'[t] \in Moving => l'[t].end = e /\ (l'[t].chunk = l[t].chunk \/ l'[t].chunk = 0)
    <3>1. CASE LoadCount(t, e)
      BY <1>1, <3>1, LoadEffect DEF Stays
    <3>2. CASE StoreCount(t, e)
      BY <1>1, <3>2, StoreEffect DEF Stays
    <3>3. CASE Wake(t, e)
      BY <1>1, <2>2, <3>3, WakeEffect DEF Moving
    <3>4. CASE Clear(t, e)
      BY <1>1, <2>2, <3>4, ClearEffect DEF Moving
    <3> QED BY <2>1, <3>1, <3>2, <3>3, <3>4 DEF Move
  <2> QED BY <1>1, <1>3, <2>2, <2>3 DEF RoleInv
<1>6. ASSUME Take(t) \/ Put(t)
      PROVE  RoleInv(t)'
  <2>1. pc[t] \in Moving /\ l'[t].chunk = l[t].chunk /\ l'[t].end = l[t].end
    BY <1>1, <1>6, TakeEffect, PutEffect DEF Stays, Moving
  <2> QED BY <1>1, <1>3, <2>1 DEF RoleInv
<1>7. ASSUME \E f \in Fds, n \in 1 .. MaxLen : Read(t, f, n) \/ Write(t, f, n)
      PROVE  RoleInv(t)'
  <2>1. PICK f \in Fds, n \in 1 .. MaxLen, e \in Ends :
          Begin(t, e, f, n) /\ (e = "r" => t \in Readers) /\ (e = "w" => t \in Writers)
    BY <1>7 DEF Read, Write, Ends
  <2>2. l'[t].end = e /\ l'[t].chunk = 0
    BY <1>1, <2>1, BeginEffect
  <2> QED BY <2>1, <2>2 DEF RoleInv
<1>8. pc'[t] \notin Moving => RoleInv(t)'
  BY DEF RoleInv
<1>k. ASSUME \E u \in Tasks : Kill(t, u)
      PROVE  RoleInv(t)'
  <2>1. pc'[t] = "user"
    BY <1>1, <1>k, KillFrame
  <2> QED BY <1>8, <2>1 DEF Moving
<1>9. RoleInv(t)'
  BY <1>4, <1>5, <1>6, <1>7, <1>8, <1>k DEF MoveStep
<1> QED BY <1>2, <1>9

LEMMA MoveCounts ==
  ASSUME OneEach, RolesInv, NEW t \in Tasks, MoveStep(t), CountInv
  PROVE  CountInv'
<1>1. CallsInv /\ TypesInv /\ TypesInv' /\ \A v \in Tasks : v # t => pc'[v] = pc[v] /\ l'[v] = l[v]
  BY MoveStepFrame DEF RolesInv, PipeInv, CallsInv
<1>2. ASSUME \A p \in Pipes : pipe'[p].count = pipe[p].count,
             pc'[t] \in Moving =>
               (l'[t].end = "w" => WriterInv(t)') /\ (l'[t].end = "r" => ReaderInv(t)')
      PROVE  CountInv'
  BY <1>1, <1>2, SameCounts
<1>3. ASSUME NEW e \in Ends, Wait(t, e) PROVE CountInv'
  <2>1. \A p \in Pipes : pipe'[p].count = pipe[p].count
    BY <1>1, <1>3, WaitEffect
  <2> QED BY <1>1, <1>2, <1>3, <2>1, WaitKnows
<1>4. ASSUME NEW e \in Ends, Move(t, e) PROVE CountInv'
  <2>0. l[t].end = e /\ pc[t] \in Moving
    BY <1>1, <1>4, MoveFrames
  <2>k. (e = "w" => WriterInv(t)) /\ (e = "r" => ReaderInv(t))
    BY <2>0 DEF CountInv
  <2>1. CASE LoadCount(t, e)
    <3>1. /\ UNCHANGED pipe /\ pc[t] = "load" /\ pc'[t] = "store" /\ Stays(t)
          /\ l'[t].total = l[t].total /\ l'[t].len = l[t].len /\ l'[t].chunk = l[t].chunk
          /\ l'[t].c = pipe[l[t].p].count
      BY <1>1, <2>1, LoadEffect
    <3>2. PICK c \in 0 .. N, k \in Int : c = pipe[l[t].p].count /\ k = l[t].chunk
      <4>1. l[t].p \in Pipes /\ l[t].chunk \in Int
        BY <1>1, Fields
      <4> QED BY <4>1 DEF CountInv
    <3>3. e = "w" => 1 <= k /\ k <= N - c /\ l[t].total + k <= l[t].len
      BY <2>k, <3>1, <3>2 DEF WriterInv
    <3>4. N \in Nat
      BY Sizes
    <3>5. e = "w" => c <= c /\ c + k <= N
      BY <3>2, <3>3, <3>4
    <3>6. e = "w" => WriterInv(t)'
      BY <3>1, <3>2, <3>3, <3>5 DEF WriterInv, Stays
    <3>7. e = "r" => 1 <= c /\ c <= c
      BY <2>k, <3>1, <3>2, <3>4 DEF ReaderInv
    <3>8. e = "r" => ReaderInv(t)'
      BY <3>1, <3>2, <3>7 DEF ReaderInv, Stays
    <3> QED BY <1>2, <2>0, <3>1, <3>6, <3>8 DEF Stays
  <2>2. CASE StoreCount(t, e)
    BY <1>1, <2>2, StoreCounts DEF RolesInv
  <2>3. CASE Wake(t, e)
    <3>1. /\ UNCHANGED pipe /\ pc[t] = "wake"
          /\ \/ pc'[t] = "clear" /\ UNCHANGED l
             \/ pc'[t] = "test" /\ UNCHANGED l /\ e = "w" /\ l[t].total < l[t].len
             \/ pc'[t] = "user"
      BY <1>1, <2>3, WakeEffect
    <3> QED BY <1>2, <2>0, <2>k, <3>1 DEF WriterInv, ReaderInv, Moving
  <2>4. CASE Clear(t, e)
    <3>1. SameRings /\ ((pc'[t] = "test" /\ UNCHANGED l /\ e = "w" /\ l[t].total < l[t].len)
                        \/ pc'[t] = "user")
      BY <1>1, <2>4, ClearEffect
    <3> QED BY <1>2, <2>0, <2>k, <3>1 DEF WriterInv, ReaderInv, SameRings, Moving
  <2> QED BY <1>4, <2>1, <2>2, <2>3, <2>4 DEF Move
<1>5. CASE Take(t)
  <2>1. /\ pc'[t] \in {"wake", "load"} /\ (pc'[t] = "load" => pipe[l[t].p].count > 0)
        /\ l[t].end = "r" /\ Stays(t)
        /\ \A p \in Pipes : pipe'[p].count = pipe[p].count
    BY <1>1, <1>5, TakeEffect
  <2>2. l[t].p \in Pipes
    BY <1>1, Fields
  <2>3. PICK c \in 0 .. N : c = pipe[l[t].p].count
    BY <2>2 DEF CountInv
  <2>4. N \in Nat
    BY Sizes
  <2>5. c > 0 => 1 <= c
    BY <2>3, <2>4
  <2>6. ReaderInv(t)'
    BY <2>1, <2>2, <2>3, <2>5 DEF ReaderInv, Stays
  <2> QED BY <1>2, <2>1, <2>6 DEF Stays
<1>6. CASE Put(t)
  <2>1. /\ pc[t] = "copy" /\ pc'[t] = "load" /\ l[t].end = "w" /\ l' = l
        /\ \A p \in Pipes : pipe'[p].count = pipe[p].count
    BY <1>1, <1>6, PutEffect
  <2>2. WriterInv(t) /\ pipe'[l[t].p].count = pipe[l[t].p].count
    BY <1>1, <2>1, Fields DEF CountInv, Moving
  <2>3. WriterInv(t)'
    BY <2>1, <2>2 DEF WriterInv
  <2> QED BY <1>2, <2>1, <2>3
<1>7. CASE \E f \in Fds, n \in 1 .. MaxLen : Read(t, f, n) \/ Write(t, f, n)
  <2>1. PICK f \in Fds, n \in 1 .. MaxLen, e \in Ends : Begin(t, e, f, n)
    BY <1>7 DEF Read, Write, Ends
  <2>2. UNCHANGED pipe /\ pc'[t] \in {"user", "test"} /\ l'[t].total = 0 /\ l'[t].len = n
    BY <1>1, <2>1, BeginEffect
  <2>3. MaxLen \in Nat
    BY Sizes
  <2>4. 0 < n
    BY <2>3
  <2>5. pc'[t] = "test" => WriterInv(t)' /\ ReaderInv(t)'
    BY <2>2, <2>4 DEF WriterInv, ReaderInv
  <2> QED BY <1>2, <2>2, <2>5 DEF Moving
<1>8. CASE \E u \in Tasks : Kill(t, u)
  <2>1. UNCHANGED pipe /\ pc'[t] = "user"
    BY <1>1, <1>8, KillFrame
  <2> QED BY <1>2, <2>1 DEF Moving
<1> QED BY <1>3, <1>4, <1>5, <1>6, <1>7, <1>8 DEF MoveStep

(* A step is one of read and write or one of the calls on descriptors.     *)
LEMMA Kinds ==
  ASSUME NEW t \in Tasks, Step(t) \/ Call(t)
  PROVE  MoveStep(t) \/ FdStep(t)
BY DEF Step, Call, MoveStep, FdStep

CountsInv == RolesInv /\ (NoRefLost => CountInv)

LEMMA CountsInit ==
  ASSUME OneEach, Init
  PROVE  CountsInv
<1>1. PipeInv /\ TypesInv
  BY InitInv DEF PipeInv, CallsInv
<1>2. \A t \in Tasks : pc[t] \notin Moving
  BY DEF Init, Moving
<1>3. \A p \in Pipes : pipe[p].count = 0
  BY Sizes DEF Init, Fresh
<1>4. 0 \in 0 .. N
  BY Sizes
<1> QED BY <1>1, <1>2, <1>3, <1>4 DEF CountsInv, RolesInv, RoleInv, CountInv

LEMMA CountsNext ==
  ASSUME OneEach, CountsInv, [Next]_vars
  PROVE  CountsInv'
<1>1. PipeInv'
  BY NextInv DEF CountsInv, RolesInv
<1>2. CASE UNCHANGED vars
  <2>1. UNCHANGED <<pipe, pc, l, raced>>
    BY <1>2 DEF vars
  <2> QED BY <1>1, <2>1 DEF CountsInv, RolesInv, RoleInv, CountInv, WriterInv, ReaderInv, NoRefLost
<1>3. ASSUME NEW t \in Tasks, Step(t) \/ Call(t)
      PROVE  CountsInv'
  <2>1. CASE MoveStep(t)
    <3>1. raced \subseteq raced'
      BY <2>1, MoveStepFrame DEF CountsInv, RolesInv, PipeInv
    <3>2. \A v \in Tasks : RoleInv(v)'
      BY <2>1, MoveRoles DEF CountsInv
    <3>3. NoRefLost' => CountInv'
      BY <2>1, <3>1, MoveCounts DEF CountsInv, NoRefLost
    <3> QED BY <1>1, <3>2, <3>3 DEF CountsInv, RolesInv
  <2>2. CASE FdStep(t)
    BY <1>1, <2>2, FdStepCounts DEF CountsInv, RolesInv
  <2> QED BY <1>3, <2>1, <2>2, Kinds
<1> QED BY <1>2, <1>3 DEF Next

(* With one reading and one writing task, head, tail and count stay inside *)
(* the ring, though the updates of the count (pipe.c:44, pipe.c:78) are    *)
(* not locked and may overtake each other.                                 *)
THEOREM RingStaysBounded == ASSUME OneEach PROVE Spec => []RingInv
<1>1. Init => CountsInv
  BY CountsInit
<1>2. CountsInv /\ [Next]_vars => CountsInv'
  BY CountsNext
<1>3. CountsInv => RingInv
  <2> SUFFICES ASSUME CountsInv PROVE RingInv
    OBVIOUS
  <2>1. TypesInv
    BY DEF CountsInv, RolesInv, PipeInv, CallsInv
  <2>2. TypeOK
    <3>1. ASSUME NEW p \in Pipes
          PROVE  /\ pipe[p].head \in 0 .. N - 1 /\ pipe[p].tail \in 0 .. N - 1
                 /\ \A e \in Ends : pipe[p].ref[e] \in Nat /\ pipe[p].blk[e] \in Tasks \cup {None}
      BY <2>1, PipeFields
    <3> QED BY <2>1, <3>1 DEF TypeOK, TypesInv, Descriptors
  <2> QED BY <2>2 DEF RingInv, CountBounded, CountsInv, CountInv, NoRefLost
<1> QED BY <1>1, <1>2, <1>3, PTL DEF Spec

-----------------------------------------------------------------------------
(* The bytes in the ring.                                                  *)

LEMMA AdvanceIs ==
  ASSUME NEW i \in 0 .. N - 1, NEW n \in 0 .. N
  PROVE  Advance(i, n) = IF i + n < N THEN i + n ELSE i + n - N
<1>1. N \in Nat /\ N > 0
  BY Sizes
<1> QED BY <1>1 DEF Advance

LEMMA DistanceIs ==
  ASSUME NEW i \in 0 .. N - 1, NEW j \in 0 .. N - 1
  PROVE  (i - j) % N = IF i - j >= 0 THEN i - j ELSE i - j + N
<1>1. PICK B : B = N
  OBVIOUS
<1>2. B \in Nat /\ B > 0 /\ i \in 0 .. B - 1 /\ j \in 0 .. B - 1
  BY <1>1, Sizes
<1>3. (i - j) % B = IF i - j >= 0 THEN i - j ELSE i - j + B
  BY <1>2
<1> QED BY <1>1, <1>3

LEMMA AdvanceTwice ==
  ASSUME NEW i \in 0 .. N - 1, NEW m \in 0 .. N, NEW n \in 0 .. N, m + n <= N
  PROVE  Advance(Advance(i, m), n) = Advance(i, m + n) /\ Advance(i, m) \in 0 .. N - 1
<1>1. N \in Nat /\ N > 0
  BY Sizes
<1>2. Advance(i, m) \in 0 .. N - 1
  BY <1>1, AdvanceIn
<1>3. m + n \in 0 .. N
  BY <1>1
<1>4. PICK j \in 0 .. N - 1 : j = Advance(i, m)
  BY <1>2
<1>5. /\ j = IF i + m < N THEN i + m ELSE i + m - N
      /\ Advance(j, n) = IF j + n < N THEN j + n ELSE j + n - N
      /\ Advance(i, m + n) = IF i + (m + n) < N THEN i + (m + n) ELSE i + (m + n) - N
  BY <1>3, <1>4, AdvanceIs
<1>6. Advance(j, n) = Advance(i, m + n)
  BY <1>1, <1>5
<1> QED BY <1>2, <1>4, <1>6

LEMMA Wraps ==
  ASSUME NEW d \in Int, NEW m \in Int, NEW B \in Int, m < B, d = m - B
  PROVE  ~(d >= 0) /\ d + B = m
OBVIOUS

(* The oldest byte is the next to be read, and the rest is as it was.      *)
LEMMA RingTake ==
  ASSUME NEW n \in Int, NEW g \in Int, NEW h \in 0 .. N - 1, NEW i \in 0 .. N - 1, NEW b,
         RingOk(n, g, h, i, b), n >= 1
  PROVE  b[i] = g + 1 /\ RingOk(n - 1, g + 1, h, Advance(i, 1), b)
<1>1. N \in Nat /\ N > 0 /\ n \in 0 .. N
  BY Sizes DEF RingOk
<1>2. PICK j \in 0 .. N - 1 : j = Advance(i, 1)
  <2>1. i \in Int /\ 1 \in Int
    BY <1>1
  <2> QED BY <2>1, AdvanceIn
<1>3. b[i] = g + 1
  <2>1. 1 \in 1 .. N /\ 1 <= n /\ 0 \in 0 .. N
    BY <1>1
  <2>2. Advance(i, 1 - 1) = i
    BY <1>1, <2>1, AdvanceIs
  <2>3. b[Advance(i, 1 - 1)] = g + 1
    BY <2>1 DEF RingOk
  <2> QED BY <2>2, <2>3
<1>4. n - 1 \in 0 .. N /\ 1 \in 0 .. N /\ 1 + (n - 1) = n
  BY <1>1
<1>5. h = Advance(j, n - 1)
  <2>1. Advance(j, n - 1) = Advance(i, 1 + (n - 1))
    BY <1>1, <1>2, <1>4, AdvanceTwice
  <2> QED BY <1>4, <2>1 DEF RingOk
<1>6. ASSUME NEW k \in 1 .. N, k <= n - 1
      PROVE  b[Advance(j, k - 1)] = (g + 1) + k
  <2>1. k + 1 \in 1 .. N /\ k + 1 <= n /\ k - 1 \in 0 .. N /\ 1 + (k - 1) <= N /\ 1 + (k - 1) = (k + 1) - 1
    BY <1>1, <1>6
  <2>2. Advance(j, k - 1) = Advance(i, 1 + (k - 1))
    BY <1>2, <1>4, <2>1, AdvanceTwice
  <2>3. b[Advance(i, (k + 1) - 1)] = g + (k + 1)
    BY <2>1 DEF RingOk
  <2>4. g + (k + 1) = (g + 1) + k
    BY <1>1
  <2> QED BY <2>1, <2>2, <2>3, <2>4
<1> QED BY <1>2, <1>3, <1>4, <1>5, <1>6 DEF RingOk

(* m bytes put behind the n that are there.                                *)
LEMMA RingPut ==
  ASSUME NEW n \in Int, NEW g \in Int, NEW h \in 0 .. N - 1, NEW i \in 0 .. N - 1, NEW b,
         RingOk(n, g, h, i, b), NEW m \in 1 .. N, n + m <= N, NEW c, NEW s \in Int, s = g + n,
         \A x \in 0 .. N - 1 : c[x] = IF (x - h) % N < m THEN s + 1 + ((x - h) % N) ELSE b[x]
  PROVE  RingOk(n + m, g, Advance(h, m), i, c)
<1>1. N \in Nat /\ N > 0 /\ n \in 0 .. N /\ m \in 0 .. N /\ h = Advance(i, n)
  BY Sizes DEF RingOk
<1>2. n + m \in 0 .. N
  BY <1>1
<1>3. Advance(h, m) = Advance(i, n + m)
  BY <1>1, <1>2, AdvanceTwice
<1>4. ASSUME NEW k \in 1 .. N, k <= n + m
      PROVE  c[Advance(i, k - 1)] = g + k
  <2>1. k - 1 \in 0 .. N
    BY <1>1
  <2>2. PICK x \in 0 .. N - 1 : x = Advance(i, k - 1)
    <3>1. i \in Int /\ k - 1 \in Int
      BY <1>1
    <3> QED BY <3>1, AdvanceIn
  <2>3. x = IF i + (k - 1) < N THEN i + (k - 1) ELSE i + (k - 1) - N
    BY <2>1, <2>2, AdvanceIs
  <2>4. h = IF i + n < N THEN i + n ELSE i + n - N
    BY <1>1, AdvanceIs
  <2>5. (x - h) % N = IF x - h >= 0 THEN x - h ELSE x - h + N
    BY <1>1, DistanceIs
  <2>6. CASE k <= n
    <3>1. (x - h) % N >= m
      <4>1. x - h = k - 1 - n \/ x - h = k - 1 - n + N
        BY <1>1, <2>3, <2>4, <2>6
      <4> QED BY <1>1, <2>5, <2>6, <4>1
    <3>2. c[x] = b[x]
      <4>1. (x - h) % N \in Int
        BY <1>1
      <4>2. ~((x - h) % N < m)
        BY <3>1, <4>1
      <4> QED BY <4>2
    <3> QED BY <2>2, <2>6, <3>2 DEF RingOk
  <2>7. CASE k > n
    <3>1. (x - h) % N = k - 1 - n
      <4>1. x - h = k - 1 - n \/ x - h = k - 1 - n - N
        BY <1>1, <1>4, <2>3, <2>4, <2>7
      <4>2. x - h = k - 1 - n => x - h >= 0
        BY <1>1, <2>7
      <4>3. ASSUME x - h = k - 1 - n - N
            PROVE  ~(x - h >= 0) /\ x - h + N = k - 1 - n
        <5>1. x - h \in Int /\ k - 1 - n \in Int /\ N \in Int
          BY <1>1
        <5>2. k - 1 - n < N
          BY <1>1, <1>4
        <5> QED BY <4>3, <5>1, <5>2, Wraps
      <4> QED BY <2>5, <4>1, <4>2, <4>3
    <3>2. c[x] = s + 1 + (k - 1 - n)
      <4>1. k - 1 - n < m
        BY <1>1, <1>4
      <4> QED BY <3>1, <4>1
    <3>3. s + 1 + (k - 1 - n) = g + k
      BY <1>1
    <3> QED BY <2>2, <3>2, <3>3
  <2> QED BY <1>1, <2>6, <2>7
<1> QED BY <1>2, <1>3, <1>4 DEF RingOk

LEMMA EmptyRing ==
  ASSUME NEW b
  PROVE  RingOk(0, 0, 0, 0, b)
<1>1. N \in Nat /\ N > 0
  BY Sizes
<1>2. 0 = Advance(0, 0)
  BY <1>1, AdvanceIs
<1>3. \A k \in 1 .. N : ~(k <= 0)
  BY <1>1
<1> QED BY <1>1, <1>2, <1>3 DEF RingOk

LEMMA SoundKept ==
  ASSUME NEW p \in Pipes, RingSound(p),
         pipe'[p].count = pipe[p].count, pipe'[p].head = pipe[p].head, pipe'[p].tail = pipe[p].tail,
         pipe'[p].buf = pipe[p].buf, sent'[p] = sent[p], got'[p] = got[p],
         \A v \in Tasks, e \in Ends : Holds(v, e, p)' <=> Holds(v, e, p),
         \A v \in Tasks : Holds(v, "w", p) => l'[v].chunk = l[v].chunk
  PROVE  RingSound(p)'
<1>1. PICK a \in 0 .. N, b \in 0 .. 1 : Ahead(p, a) /\ Behind(p, b) /\ sent[p] - got[p] = pipe[p].count + a - b
  BY DEF RingSound
<1>2. "w" \in Ends /\ "r" \in Ends
  BY DEF Ends
<1>3. Ahead(p, a)'
  BY <1>1, <1>2 DEF Ahead
<1>4. Behind(p, b)'
  BY <1>1, <1>2 DEF Behind
<1>5. RingOk(sent[p] - got[p], got[p], pipe[p].head, pipe[p].tail, pipe[p].buf)'
  BY DEF RingSound
<1> QED BY <1>1, <1>3, <1>4, <1>5 DEF RingSound

(* A task that neither holds nor gets anything at a pipe.                  *)
LEMMA OthersHold ==
  ASSUME NEW t \in Tasks, NEW p \in Pipes,
         \A v \in Tasks : v # t => pc'[v] = pc[v] /\ l'[v] = l[v],
         pc[t] \notin {"load", "store"} \/ l[t].p # p,
         pc'[t] \notin {"load", "store"} \/ l'[t].p # p
  PROVE  /\ \A v \in Tasks, e \in Ends : Holds(v, e, p)' <=> Holds(v, e, p)
         /\ \A v \in Tasks : Holds(v, "w", p) => l'[v].chunk = l[v].chunk
<1>1. ASSUME NEW v \in Tasks, NEW e \in Ends
      PROVE  /\ Holds(v, e, p)' <=> Holds(v, e, p)
             /\ Holds(v, e, p) => l'[v].chunk = l[v].chunk
  BY DEF Holds, In
<1> QED BY <1>1 DEF Ends

(* Steps that leave the rings alone.                                       *)
LEMMA QuietBytes ==
  ASSUME BytesInv, NEW t \in Tasks, SameRings, UNCHANGED <<sent, got, garbled>>,
         \A v \in Tasks : v # t => pc'[v] = pc[v] /\ l'[v] = l[v],
         \/ pc[t] \notin {"load", "store"} /\ pc'[t] \notin {"load", "store"}
         \/ /\ pc[t] \in {"load", "store"} /\ pc'[t] \in {"load", "store"}
            /\ Stays(t) /\ l'[t].chunk = l[t].chunk
  PROVE  BytesInv'
<1>1. ASSUME NEW p \in Pipes PROVE RingSound(p)'
  <2>1. /\ \A v \in Tasks, e \in Ends : Holds(v, e, p)' <=> Holds(v, e, p)
        /\ \A v \in Tasks : Holds(v, "w", p) => l'[v].chunk = l[v].chunk
    <3>1. CASE pc[t] \notin {"load", "store"} /\ pc'[t] \notin {"load", "store"}
      BY <3>1, OthersHold
    <3>2. CASE /\ pc[t] \in {"load", "store"} /\ pc'[t] \in {"load", "store"}
               /\ Stays(t) /\ l'[t].chunk = l[t].chunk
      <4>1. ASSUME NEW v \in Tasks, NEW e \in Ends
            PROVE  /\ Holds(v, e, p)' <=> Holds(v, e, p)
                   /\ Holds(v, e, p) => l'[v].chunk = l[v].chunk
        <5>1. CASE v = t
          BY <3>2, <5>1 DEF Holds, In, Stays
        <5>2. CASE v # t
          BY <5>2 DEF Holds, In
        <5> QED BY <5>1, <5>2
      <4> QED BY <4>1 DEF Ends
    <3> QED BY <3>1, <3>2
  <2>2. RingSound(p)
    BY DEF BytesInv
  <2> QED BY <2>1, <2>2, SoundKept DEF SameRings
<1> QED BY <1>1 DEF BytesInv

(* The task alone at its end.                                              *)
LEMMA HoldsAlone ==
  ASSUME OneEach, RolesInv, NEW t \in Tasks, pc[t] \in Moving, NEW v \in Tasks, NEW p \in Pipes,
         Holds(v, l[t].end, p)
  PROVE  v = t
<1>1. CallInv(t) /\ RoleInv(t) /\ RoleInv(v)
  BY DEF RolesInv, PipeInv, CallsInv
<1>2. pc[v] \in Moving /\ l[v].end = l[t].end /\ l[t].end \in Ends
  BY <1>1 DEF Holds, In, Moving, CallInv
<1> QED BY <1>1, <1>2, Alone

LEMMA TakeBytes ==
  ASSUME OneEach, CountsInv, NoRefLost, NEW t \in Tasks, Take(t), BytesInv
  PROVE  BytesInv'
<1>1. CallsInv /\ TypesInv /\ RolesInv /\ CountInv
  BY DEF CountsInv, RolesInv, PipeInv, CallsInv
<1>2. /\ UNCHANGED sent /\ pc[t] = "copy" /\ l[t].end = "r" /\ Stays(t)
      /\ \A p \in Pipes : /\ pipe'[p].head = pipe[p].head /\ pipe'[p].count = pipe[p].count
                          /\ pipe'[p].buf = pipe[p].buf
  BY <1>1, TakeEffect
<1>3. \A v \in Tasks : v # t => pc'[v] = pc[v] /\ l'[v] = l[v]
  BY <1>1, MoveStepFrame DEF MoveStep
<1>4. CASE pc'[t] = "wake" /\ UNCHANGED <<pipe, l, garbled, got>>
  BY <1>2, <1>3, <1>4, QuietBytes DEF SameRings
<1>5. CASE /\ pc'[t] = "load" /\ pipe[l[t].p].count > 0
           /\ \A p \in Pipes : pipe'[p].tail = IF p = l[t].p THEN Advance(pipe[p].tail, 1)
                                               ELSE pipe[p].tail
           /\ garbled' = (garbled \/ pipe[l[t].p].buf[pipe[l[t].p].tail] # got[l[t].p] + 1)
           /\ \A p \in Pipes : got'[p] = IF p = l[t].p THEN pipe[p].buf[pipe[p].tail] ELSE got[p]
  <2>1. PICK q \in Pipes, g \in Int, s \in Int, c \in 0 .. N, h \in 0 .. N - 1, i \in 0 .. N - 1,
             f \in [0 .. N - 1 -> Int] :
          /\ q = l[t].p /\ g = got[q] /\ s = sent[q] /\ c = pipe[q].count
          /\ h = pipe[q].head /\ i = pipe[q].tail /\ f = pipe[q].buf
    <3>1. l[t].p \in Pipes
      BY <1>1, Fields
    <3>2. /\ got[l[t].p] \in Int /\ sent[l[t].p] \in Int /\ pipe[l[t].p].count \in 0 .. N
          /\ pipe[l[t].p].head \in 0 .. N - 1 /\ pipe[l[t].p].tail \in 0 .. N - 1
          /\ pipe[l[t].p].buf \in [0 .. N - 1 -> Int]
      BY <1>1, <3>1, PipeFields DEF TypesInv, CountInv
    <3> QED BY <3>1, <3>2
  <2>2. PICK a \in 0 .. N, b \in 0 .. 1 : Ahead(q, a) /\ Behind(q, b) /\ s - g = c + a - b
    BY <2>1 DEF BytesInv, RingSound
  <2>3. \A v \in Tasks : ~Holds(v, "r", q)
    <3> TAKE v \in Tasks
    <3>1. Holds(v, "r", q) => v = t
      BY <1>1, <1>2, HoldsAlone DEF Moving
    <3>2. ~Holds(t, "r", q)
      BY <1>2 DEF Holds, In
    <3> QED BY <3>1, <3>2
  <2>4. b = 0
    BY <2>2, <2>3 DEF Behind
  <2>5. N \in Nat /\ c > 0
    BY <1>5, <2>1, Sizes
  <2>6. PICK n \in Int : n = s - g /\ n = c + a /\ n >= 1
    BY <2>2, <2>4, <2>5
  <2>7. RingOk(n, g, h, i, f)
    BY <2>1, <2>6 DEF BytesInv, RingSound
  <2>8. f[i] = g + 1 /\ RingOk(n - 1, g + 1, h, Advance(i, 1), f)
    BY <2>6, <2>7, RingTake
  <2>9. ~garbled'
    BY <1>5, <2>1, <2>8 DEF BytesInv
  <2>10. got'[q] = g + 1 /\ pipe'[q].tail = Advance(i, 1) /\ sent'[q] = s /\ pipe'[q].count = c
         /\ pipe'[q].head = h /\ pipe'[q].buf = f
    BY <1>2, <1>5, <2>1, <2>8
  <2>11. ASSUME NEW p \in Pipes PROVE RingSound(p)'
    <3>1. CASE p # q
      <4>1. l[t].p # p /\ l'[t].p # p
        BY <1>2, <2>1, <3>1 DEF Stays
      <4>2. /\ \A v \in Tasks, e \in Ends : Holds(v, e, p)' <=> Holds(v, e, p)
            /\ \A v \in Tasks : Holds(v, "w", p) => l'[v].chunk = l[v].chunk
        BY <1>3, <4>1, OthersHold
      <4>3. RingSound(p) /\ pipe'[p].tail = pipe[p].tail /\ got'[p] = got[p] /\ sent'[p] = sent[p]
            /\ pipe'[p].count = pipe[p].count /\ pipe'[p].head = pipe[p].head /\ pipe'[p].buf = pipe[p].buf
        BY <1>2, <1>5, <4>1 DEF BytesInv
      <4> QED BY <4>2, <4>3, SoundKept
    <3>2. CASE p = q
      <4>1. \A v \in Tasks : Holds(v, "w", q)' <=> Holds(v, "w", q)
        <5> TAKE v \in Tasks
        <5>1. CASE v = t
          BY <1>2, <5>1 DEF Holds, In, Stays
        <5>2. CASE v # t
          BY <1>3, <5>2 DEF Holds, In
        <5> QED BY <5>1, <5>2
      <4>2. \A v \in Tasks : Holds(v, "w", q) => l'[v].chunk = l[v].chunk
        BY <1>2, <1>3 DEF Holds, In
      <4>3. Ahead(q, a)'
        BY <2>2, <4>1, <4>2 DEF Ahead
      <4>4. Holds(t, "r", q)'
        BY <1>2, <1>5, <2>1 DEF Holds, In, Stays
      <4>5. Behind(q, 1)'
        BY <4>4 DEF Behind
      <4>6. s - (g + 1) = n - 1 /\ n - 1 = c + a - 1 /\ 1 \in 0 .. 1
        BY <2>2, <2>5, <2>6
      <4>7. RingOk(s - (g + 1), g + 1, h, Advance(i, 1), f)
        BY <2>8, <4>6
      <4>8. s - (g + 1) = c + a - 1
        BY <4>6
      <4>9. \E x \in 0 .. N, y \in 0 .. 1 : Ahead(q, x)' /\ Behind(q, y)' /\ s - (g + 1) = c + x - y
        BY <4>3, <4>5, <4>6, <4>8
      <4>10. RingSound(q)'
        BY <2>10, <4>7, <4>9 DEF RingSound
      <4> QED BY <3>2, <4>10
    <3> QED BY <3>1, <3>2
  <2> QED BY <2>9, <2>11 DEF BytesInv
<1> QED BY <1>1, <1>4, <1>5, TakeEffect

(* A chunk no longer than the space that was seen fits behind the bytes.   *)
LEMMA ChunkFits ==
  ASSUME NEW c \in 0 .. N, NEW b \in 0 .. 1, NEW m \in Int, 1 <= m, m <= N - c,
         NEW n \in Int, NEW s \in Int, NEW g \in Int, n = s - g, n = c - b
  PROVE  /\ m \in 1 .. N /\ m \in 0 .. N /\ n + m <= N /\ s = g + n
         /\ s + m - g = n + m /\ s + m - g = c + m - b
<1>1. N \in Nat
  BY Sizes
<1> QED BY <1>1

LEMMA PutBytes ==
  ASSUME OneEach, CountsInv, NoRefLost, NEW t \in Tasks, Put(t), BytesInv
  PROVE  BytesInv'
<1>1. CallsInv /\ TypesInv /\ RolesInv /\ CountInv
  BY DEF CountsInv, RolesInv, PipeInv, CallsInv
<1>2. /\ UNCHANGED <<l, got, garbled>> /\ pc[t] = "copy" /\ pc'[t] = "load" /\ l[t].end = "w"
      /\ \A p \in Pipes : /\ pipe'[p].tail = pipe[p].tail /\ pipe'[p].count = pipe[p].count
                          /\ p # l[t].p => pipe'[p] = pipe[p] /\ sent'[p] = sent[p]
  BY <1>1, PutEffect
<1>3. \A v \in Tasks : v # t => pc'[v] = pc[v] /\ l'[v] = l[v]
  BY <1>1, MoveStepFrame DEF MoveStep
<1>4. PICK q \in Pipes, m \in Int :
        /\ q = l[t].p /\ m = l[t].chunk /\ sent'[q] = sent[q] + m
        /\ pipe'[q].head = Advance(pipe[q].head, m)
        /\ \A x \in 0 .. N - 1 :
             pipe'[q].buf[x] = IF (x - pipe[q].head) % N < m
                               THEN sent[q] + 1 + ((x - pipe[q].head) % N) ELSE pipe[q].buf[x]
  BY <1>1, PutEffect
<1>5. PICK g \in Int, s \in Int, c \in 0 .. N, h \in 0 .. N - 1, i \in 0 .. N - 1,
           f \in [0 .. N - 1 -> Int], f2 \in [0 .. N - 1 -> Int] :
        /\ g = got[q] /\ s = sent[q] /\ c = pipe[q].count
        /\ h = pipe[q].head /\ i = pipe[q].tail /\ f = pipe[q].buf /\ f2 = pipe'[q].buf
  <2>1. /\ got[q] \in Int /\ sent[q] \in Int /\ pipe[q].count \in 0 .. N
        /\ pipe[q].head \in 0 .. N - 1 /\ pipe[q].tail \in 0 .. N - 1
        /\ pipe[q].buf \in [0 .. N - 1 -> Int]
    BY <1>1, PipeFields DEF TypesInv, CountInv
  <2>2. TypesInv'
    BY <1>1, MoveStepFrame DEF MoveStep
  <2>3. pipe'[q].buf \in [0 .. N - 1 -> Int]
    BY <2>2 DEF TypesInv, PipeRecords
  <2> QED BY <2>1, <2>3
<1>6. PICK a \in 0 .. N, b \in 0 .. 1 : Ahead(q, a) /\ Behind(q, b) /\ s - g = c + a - b
  BY <1>5 DEF BytesInv, RingSound
<1>7. \A v \in Tasks : ~Holds(v, "w", q)
  <2> TAKE v \in Tasks
  <2>1. Holds(v, "w", q) => v = t
    BY <1>1, <1>2, HoldsAlone DEF Moving
  <2>2. ~Holds(t, "w", q)
    BY <1>2 DEF Holds, In
  <2> QED BY <2>1, <2>2
<1>8. a = 0
  BY <1>6, <1>7 DEF Ahead
<1>9. N \in Nat /\ 1 <= m /\ m <= N - c
  <2>1. WriterInv(t)
    BY <1>1, <1>2 DEF CountInv, Moving
  <2> QED BY <1>2, <1>4, <1>5, <2>1, Sizes DEF WriterInv
<1>10. PICK n \in Int : n = s - g /\ n = c - b
  BY <1>5, <1>6, <1>8, <1>9
<1>11. m \in 1 .. N /\ m \in 0 .. N /\ n + m <= N /\ s = g + n
  BY <1>9, <1>10, ChunkFits
<1>12. RingOk(n, g, h, i, f)
  BY <1>5, <1>10 DEF BytesInv, RingSound
<1>13. \A x \in 0 .. N - 1 : f2[x] = IF (x - h) % N < m THEN s + 1 + ((x - h) % N) ELSE f[x]
  BY <1>4, <1>5
<1>14. RingOk(n + m, g, Advance(h, m), i, f2)
  BY <1>11, <1>12, <1>13, RingPut
<1>15. ASSUME NEW p \in Pipes PROVE RingSound(p)'
  <2>1. CASE p # q
    <3>1. l[t].p # p /\ l'[t].p # p
      BY <1>2, <1>4, <2>1
    <3>2. /\ \A v \in Tasks, e \in Ends : Holds(v, e, p)' <=> Holds(v, e, p)
          /\ \A v \in Tasks : Holds(v, "w", p) => l'[v].chunk = l[v].chunk
      BY <1>3, <3>1, OthersHold
    <3>3. RingSound(p) /\ pipe'[p] = pipe[p] /\ got'[p] = got[p] /\ sent'[p] = sent[p]
      BY <1>2, <3>1 DEF BytesInv
    <3> QED BY <3>2, <3>3, SoundKept
  <2>2. CASE p = q
    <3>1. \A v \in Tasks : Holds(v, "r", q)' <=> Holds(v, "r", q)
      <4> TAKE v \in Tasks
      <4>1. CASE v = t
        BY <1>2, <4>1 DEF Holds, In
      <4>2. CASE v # t
        BY <1>3, <4>2 DEF Holds, In
      <4> QED BY <4>1, <4>2
    <3>2. Behind(q, b)'
      BY <1>6, <3>1 DEF Behind
    <3>3. Holds(t, "w", q)' /\ \A v \in Tasks : Holds(v, "w", q)' => v = t
      <4>1. Holds(t, "w", q)'
        BY <1>2, <1>4 DEF Holds, In
      <4>2. ASSUME NEW v \in Tasks, v # t PROVE ~Holds(v, "w", q)'
        BY <1>3, <1>7, <4>2 DEF Holds, In
      <4> QED BY <4>1, <4>2
    <3>4. Ahead(q, m)'
      BY <1>2, <1>4, <3>3 DEF Ahead
    <3>5. s + m - g = n + m /\ s + m - g = c + m - b
      BY <1>9, <1>10, ChunkFits
    <3>6. /\ sent'[q] = s + m /\ got'[q] = g /\ pipe'[q].head = Advance(h, m) /\ pipe'[q].tail = i
          /\ pipe'[q].buf = f2 /\ pipe'[q].count = c
      BY <1>2, <1>4, <1>5
    <3>7. RingOk(s + m - g, g, Advance(h, m), i, f2)
      BY <1>14, <3>5
    <3>8. \E x \in 0 .. N, y \in 0 .. 1 : Ahead(q, x)' /\ Behind(q, y)' /\ s + m - g = c + x - y
      BY <1>11, <3>2, <3>4, <3>5
    <3>9. RingSound(q)'
      BY <3>6, <3>7, <3>8 DEF RingSound
    <3> QED BY <2>2, <3>9
  <2> QED BY <2>1, <2>2
<1> QED BY <1>2, <1>15 DEF BytesInv

(* A store of the count that was not overtaken.                            *)
LEMMA StoreBytes ==
  ASSUME OneEach, CountsInv, NoRefLost, NEW t \in Tasks, NEW e \in Ends, StoreCount(t, e), BytesInv,
         raced' = {}
  PROVE  BytesInv'
<1>1. CallsInv /\ TypesInv /\ RolesInv /\ CountInv
  BY DEF CountsInv, RolesInv, PipeInv, CallsInv
<1>2. /\ UNCHANGED <<sent, got, garbled>> /\ pc[t] = "store" /\ l[t].end = e /\ Stays(t)
      /\ pc'[t] \notin {"load", "store"}
      /\ raced' = Raced("count", pipe[l[t].p].count # l[t].c)
      /\ \A p \in Pipes : /\ pipe'[p].head = pipe[p].head /\ pipe'[p].tail = pipe[p].tail
                          /\ pipe'[p].buf = pipe[p].buf
                          /\ pipe'[p].count = IF p # l[t].p THEN pipe[p].count
                                              ELSE IF e = "r" THEN l[t].c - 1
                                              ELSE l[t].c + l[t].chunk
  BY <1>1, StoreEffect
<1>3. \A v \in Tasks : v # t => pc'[v] = pc[v] /\ l'[v] = l[v]
  BY <1>1, MoveStepFrame DEF MoveStep, Move
<1>4. PICK q \in Pipes, g \in Int, s \in Int, c \in 0 .. N, k \in Int :
        /\ q = l[t].p /\ g = got[q] /\ s = sent[q] /\ c = pipe[q].count /\ k = l[t].chunk
  <2>1. l[t].p \in Pipes /\ l[t].chunk \in Int
    BY <1>1, Fields
  <2>2. got[l[t].p] \in Int /\ sent[l[t].p] \in Int /\ pipe[l[t].p].count \in 0 .. N
    BY <1>1, <2>1 DEF TypesInv, CountInv
  <2> QED BY <2>1, <2>2
<1>5. l[t].c = c
  BY <1>2, <1>4 DEF Raced
<1>6. PICK a \in 0 .. N, b \in 0 .. 1 : Ahead(q, a) /\ Behind(q, b) /\ s - g = c + a - b
  BY <1>4 DEF BytesInv, RingSound
<1>7. N \in Nat /\ c \in Int
  BY Sizes
<1>8. Holds(t, e, q)
  BY <1>2, <1>4 DEF Holds, In
<1>9. \A v \in Tasks : ~Holds(v, e, q)'
  <2> TAKE v \in Tasks
  <2>1. CASE v = t
    BY <1>2, <2>1 DEF Holds, In
  <2>2. CASE v # t
    <3>1. ~Holds(v, e, q)
      BY <1>1, <1>2, <2>2, HoldsAlone DEF Moving
    <3> QED BY <1>3, <2>2, <3>1 DEF Holds, In
  <2> QED BY <2>1, <2>2
<1>10. ASSUME NEW v \in Tasks, NEW d \in Ends, d # e
       PROVE  /\ Holds(v, d, q)' <=> Holds(v, d, q)
              /\ Holds(v, d, q) => l'[v].chunk = l[v].chunk
  <2>1. CASE v = t
    BY <1>2, <1>10, <2>1 DEF Holds, In, Stays
  <2>2. CASE v # t
    BY <1>3, <2>2 DEF Holds, In
  <2> QED BY <2>1, <2>2
<1>11. ASSUME NEW p \in Pipes PROVE RingSound(p)'
  <2>1. CASE p # q
    <3>1. l[t].p # p /\ l'[t].p # p
      BY <1>2, <1>4, <2>1 DEF Stays
    <3>2. /\ \A v \in Tasks, d \in Ends : Holds(v, d, p)' <=> Holds(v, d, p)
          /\ \A v \in Tasks : Holds(v, "w", p) => l'[v].chunk = l[v].chunk
      BY <1>3, <3>1, OthersHold
    <3>3. RingSound(p) /\ got'[p] = got[p] /\ sent'[p] = sent[p] /\ pipe'[p].tail = pipe[p].tail
          /\ pipe'[p].count = pipe[p].count /\ pipe'[p].head = pipe[p].head /\ pipe'[p].buf = pipe[p].buf
      BY <1>2, <3>1 DEF BytesInv
    <3> QED BY <3>2, <3>3, SoundKept
  <2>2. CASE p = q
    <3>1. RingOk(sent[q] - got[q], got[q], pipe[q].head, pipe[q].tail, pipe[q].buf)'
      <4>1. RingOk(sent[q] - got[q], got[q], pipe[q].head, pipe[q].tail, pipe[q].buf)
        BY DEF BytesInv, RingSound
      <4> QED BY <1>2, <4>1
    <3>2. \E x \in 0 .. N, y \in 0 .. 1 :
            Ahead(q, x)' /\ Behind(q, y)' /\ s - g = pipe'[q].count + x - y
      <4>1. CASE e = "r"
        <5>1. b = 1
          BY <1>6, <1>8, <4>1 DEF Behind
        <5>2. Behind(q, 0)'
          BY <1>9, <4>1 DEF Behind
        <5>3. Ahead(q, a)'
          <6>1. "w" \in Ends /\ "w" # e
            BY <4>1 DEF Ends
          <6>2. \A v \in Tasks : /\ Holds(v, "w", q)' <=> Holds(v, "w", q)
                                 /\ Holds(v, "w", q) => l'[v].chunk = l[v].chunk
            BY <1>10, <6>1
          <6> QED BY <1>6, <6>2 DEF Ahead
        <5>4. pipe'[q].count = c - 1
          BY <1>2, <1>4, <1>5, <4>1
        <5>5. s - g = c - 1 + a - 0 /\ 0 \in 0 .. 1
          BY <1>6, <1>7, <5>1
        <5> QED BY <5>2, <5>3, <5>4, <5>5
      <4>2. CASE e = "w"
        <5>1. a = k
          BY <1>4, <1>6, <1>8, <4>2 DEF Ahead
        <5>2. Ahead(q, 0)'
          BY <1>9, <4>2 DEF Ahead
        <5>3. Behind(q, b)'
          <6>1. "r" \in Ends /\ "r" # e
            BY <4>2 DEF Ends
          <6>2. \A v \in Tasks : Holds(v, "r", q)' <=> Holds(v, "r", q)
            BY <1>10, <6>1
          <6> QED BY <1>6, <6>2 DEF Behind
        <5>4. pipe'[q].count = c + k
          BY <1>2, <1>4, <1>5, <4>2
        <5>5. s - g = c + k + 0 - b /\ 0 \in 0 .. N
          BY <1>6, <1>7, <5>1
        <5> QED BY <5>2, <5>3, <5>4, <5>5
      <4> QED BY <4>1, <4>2 DEF Ends
    <3>3. RingSound(q)'
      BY <1>2, <1>4, <3>1, <3>2 DEF RingSound
    <3> QED BY <2>2, <3>3
  <2> QED BY <2>1, <2>2
<1> QED BY <1>2, <1>11 DEF BytesInv

LEMMA MoveBytes ==
  ASSUME OneEach, CountsInv, NEW t \in Tasks, MoveStep(t), raced' = {}, BytesInv
  PROVE  BytesInv'
<1>1. CallsInv /\ TypesInv
  BY DEF CountsInv, RolesInv, PipeInv, CallsInv
<1>2. /\ raced \subseteq raced' /\ \A v \in Tasks : v # t => pc'[v] = pc[v] /\ l'[v] = l[v]
  BY <1>1, MoveStepFrame
<1>3. NoRefLost
  BY <1>2 DEF NoRefLost
<1>4. ASSUME NEW e \in Ends, Wait(t, e) PROVE BytesInv'
  <2>1. SameRings /\ UNCHANGED <<sent, got, garbled>>
    BY <1>1, <1>4, WaitEffect DEF SameRings
  <2>2. pc[t] \notin {"load", "store"} /\ pc'[t] \notin {"load", "store"}
    BY <1>1, <1>4, WaitEffect
  <2> QED BY <1>2, <2>1, <2>2, QuietBytes
<1>5. ASSUME NEW e \in Ends, Move(t, e) PROVE BytesInv'
  <2>1. CASE LoadCount(t, e)
    <3>1. SameRings /\ UNCHANGED <<sent, got, garbled>> /\ pc[t] = "load" /\ pc'[t] = "store"
          /\ Stays(t) /\ l'[t].chunk = l[t].chunk
      BY <1>1, <2>1, LoadEffect DEF SameRings
    <3> QED BY <1>2, <3>1, QuietBytes
  <2>2. CASE StoreCount(t, e)
    BY <1>3, <2>2, StoreBytes
  <2>3. CASE Wake(t, e)
    <3>1. /\ SameRings /\ UNCHANGED <<sent, got, garbled>> /\ pc[t] = "wake"
          /\ pc'[t] \in {"clear", "test", "user"}
      BY <1>1, <2>3, WakeEffect DEF SameRings
    <3> QED BY <1>2, <3>1, QuietBytes
  <2>4. CASE Clear(t, e)
    <3>1. SameRings /\ UNCHANGED <<sent, got, garbled>> /\ pc[t] = "clear" /\ pc'[t] \in {"test", "user"}
      BY <1>1, <2>4, ClearEffect
    <3> QED BY <1>2, <3>1, QuietBytes
  <2> QED BY <1>5, <2>1, <2>2, <2>3, <2>4 DEF Move
<1>6. CASE Take(t)
  BY <1>3, <1>6, TakeBytes
<1>7. CASE Put(t)
  BY <1>3, <1>7, PutBytes
<1>8. CASE \E f \in Fds, n \in 1 .. MaxLen : Read(t, f, n) \/ Write(t, f, n)
  <2>1. PICK f \in Fds, n \in 1 .. MaxLen, e \in Ends : Begin(t, e, f, n)
    BY <1>8 DEF Read, Write, Ends
  <2>2. UNCHANGED <<pipe, sent, got, garbled>> /\ pc[t] = "user" /\ pc'[t] \in {"user", "test"}
    BY <1>1, <2>1, BeginEffect
  <2> QED BY <1>2, <2>2, QuietBytes DEF SameRings
<1>9. CASE \E u \in Tasks : Kill(t, u)
  <2>1. UNCHANGED <<pipe, sent, got, garbled>> /\ pc[t] = "user" /\ pc'[t] = "user"
    BY <1>1, <1>9, KillFrame
  <2> QED BY <1>2, <2>1, QuietBytes DEF SameRings
<1> QED BY <1>4, <1>5, <1>6, <1>7, <1>8, <1>9 DEF MoveStep

LEMMA FdBytes ==
  ASSUME PipeInv, NEW u \in Tasks, FdStep(u), raced' = {}, BytesInv
  PROVE  BytesInv'
<1>1. CallsInv /\ TypesInv
  BY DEF PipeInv, CallsInv
<1>2. pc[u] \notin Moving /\ pc'[u] \notin Moving /\ UNCHANGED garbled
  BY <1>1, FdPlaces
<1>3. \A v \in Tasks : v # u => pc'[v] = pc[v] /\ l'[v] = l[v]
  BY <1>1, OthersStay DEF FdStep, Step, Call
<1>4. pc[u] \notin {"load", "store"} /\ pc'[u] \notin {"load", "store"}
  BY <1>2 DEF Moving
<1>5. CASE ~Create(u)
  <2>1. SameRings /\ UNCHANGED <<sent, got>>
    BY <1>1, <1>5, FdRings
  <2> QED BY <1>2, <1>3, <1>4, <2>1, QuietBytes
<1>6. CASE Create(u)
  <2>1. NoRefLost'
    BY DEF NoRefLost
  <2>2. PICK q \in Pipes :
          /\ pipe'[q] = Fresh /\ sent'[q] = 0 /\ got'[q] = 0
          /\ \A p \in Pipes : p # q => pipe'[p] = pipe[p] /\ sent'[p] = sent[p] /\ got'[p] = got[p]
          /\ \A v \in Tasks : pc[v] \in Moving => l[v].p # q
    BY <1>6, <2>1, CreateRing
  <2>3. ASSUME NEW p \in Pipes PROVE RingSound(p)'
    <3>1. CASE p # q
      <4>1. /\ \A v \in Tasks, e \in Ends : Holds(v, e, p)' <=> Holds(v, e, p)
            /\ \A v \in Tasks : Holds(v, "w", p) => l'[v].chunk = l[v].chunk
        BY <1>3, <1>4, OthersHold
      <4>2. RingSound(p) /\ pipe'[p] = pipe[p] /\ got'[p] = got[p] /\ sent'[p] = sent[p]
        BY <2>2, <3>1 DEF BytesInv
      <4> QED BY <4>1, <4>2, SoundKept
    <3>2. CASE p = q
      <4>1. \A v \in Tasks, e \in Ends : ~Holds(v, e, q)'
        <5> TAKE v \in Tasks, e \in Ends
        <5>1. CASE v = u
          BY <1>4, <5>1 DEF Holds, In
        <5>2. CASE v # u
          BY <1>3, <2>2, <5>2 DEF Holds, In, Moving
        <5> QED BY <5>1, <5>2
      <4>2. Ahead(q, 0)' /\ Behind(q, 0)'
        BY <4>1 DEF Ahead, Behind, Ends
      <4>3. pipe'[q].head = 0 /\ pipe'[q].tail = 0 /\ pipe'[q].count = 0
        BY <2>2, FreshFields
      <4>4. RingOk(0, 0, 0, 0, pipe'[q].buf)
        BY EmptyRing
      <4>5. 0 - 0 = 0 /\ 0 = 0 + 0 - 0 /\ 0 \in 0 .. N /\ 0 \in 0 .. 1
        BY Sizes
      <4>6. RingSound(q)'
        BY <2>2, <4>2, <4>3, <4>4, <4>5 DEF RingSound
      <4> QED BY <3>2, <4>6
    <3> QED BY <3>1, <3>2
  <2> QED BY <1>2, <2>3 DEF BytesInv
<1> QED BY <1>5, <1>6

BytesOk == CountsInv /\ (raced = {} => BytesInv)

LEMMA BytesInit ==
  ASSUME OneEach, Init
  PROVE  BytesOk
<1>1. CountsInv
  BY CountsInit
<1>2. ASSUME NEW p \in Pipes PROVE RingSound(p)
  <2>1. sent[p] = 0 /\ got[p] = 0 /\ pipe[p].head = 0 /\ pipe[p].tail = 0 /\ pipe[p].count = 0
    BY Sizes DEF Init, Fresh
  <2>2. \A v \in Tasks, e \in Ends : ~Holds(v, e, p)
    BY DEF Init, Holds, In
  <2>3. Ahead(p, 0) /\ Behind(p, 0)
    BY <2>2 DEF Ahead, Behind, Ends
  <2>4. RingOk(0, 0, 0, 0, pipe[p].buf)
    BY EmptyRing
  <2>5. 0 - 0 = 0 /\ 0 = 0 + 0 - 0 /\ 0 \in 0 .. N /\ 0 \in 0 .. 1
    BY Sizes
  <2> QED BY <2>1, <2>3, <2>4, <2>5 DEF RingSound
<1>3. ~garbled
  BY DEF Init
<1> QED BY <1>1, <1>2, <1>3 DEF BytesOk, BytesInv

LEMMA BytesNext ==
  ASSUME OneEach, BytesOk, [Next]_vars
  PROVE  BytesOk'
<1>1. CountsInv'
  BY CountsNext DEF BytesOk
<1>2. CASE UNCHANGED vars
  <2>1. UNCHANGED <<pipe, pc, l, raced, garbled, sent, got>>
    BY <1>2 DEF vars, hist
  <2>2. BytesInv' <=> BytesInv
    BY <2>1 DEF BytesInv, RingSound, Ahead, Behind, Holds, In
  <2> QED BY <1>1, <2>1, <2>2 DEF BytesOk
<1>3. ASSUME NEW t \in Tasks, Step(t) \/ Call(t), raced' = {}
      PROVE  BytesInv'
  <2>1. PipeInv /\ CallsInv /\ CountsInv
    BY DEF BytesOk, CountsInv, RolesInv, PipeInv
  <2>2. CASE MoveStep(t)
    <3>1. raced = {}
      BY <1>3, <2>1, <2>2, MoveStepFrame
    <3> QED BY <1>3, <2>1, <2>2, <3>1, MoveBytes DEF BytesOk
  <2>3. CASE FdStep(t)
    <3>1. raced = {}
      BY <1>3, <2>1, <2>3, FdPlaces
    <3> QED BY <1>3, <2>1, <2>3, <3>1, FdBytes DEF BytesOk
  <2> QED BY <1>3, <2>2, <2>3, Kinds
<1> QED BY <1>1, <1>2, <1>3 DEF Next, BytesOk

(* With one reading and one writing task, every byte is read once and in   *)
(* the order of the writes, unless an update of the count (pipe.c:44,      *)
(* pipe.c:78) or of a reference was lost.                                  *)
THEOREM BytesReadInOrder == ASSUME OneEach PROVE Spec => []InOrder
<1>1. Init => BytesOk
  BY BytesInit
<1>2. BytesOk /\ [Next]_vars => BytesOk'
  BY BytesNext
<1>3. BytesOk => InOrder
  BY DEF BytesOk, BytesInv, InOrder
<1> QED BY <1>1, <1>2, <1>3, PTL DEF Spec

-----------------------------------------------------------------------------
(* Sleep and wakeup.                                                       *)

LEMMA SleepyMoves ==
  ASSUME NEW t \in Tasks, Sleepy(t)
  PROVE  pc[t] \in Moving
BY DEF Sleepy, Moving

(* A task that did not move is not closer to sleep than before.            *)
LEMMA StillSleepy ==
  ASSUME CallsInv, NEW t \in Tasks, Step(t) \/ Call(t), NEW v \in Tasks, v # t, Sleepy(v)'
  PROVE  Sleepy(v) /\ pc'[v] = pc[v] /\ l'[v] = l[v]
<1>1. pc'[v] = pc[v] /\ l'[v] = l[v] /\ TypesInv
  BY OthersStay DEF CallsInv
<1>2. st'[v] = "BLOCKED" => st[v] = "BLOCKED"
  <2>1. CASE st'[v] = st[v]
    BY <2>1
  <2>2. CASE st'[v] # st[v]
    <3>1. \/ MoveStep(t) \/ Zero(t) \/ Incremented(t)
      BY <2>2, Starts DEF MoveStep, Move
    <3>2. CASE MoveStep(t)
      <4>1. MoveFrame(t)
        BY <3>2, MoveStepFrame
      <4> QED BY <2>2, <4>1 DEF MoveFrame
    <3>3. CASE Zero(t)
      <4>1. l[t].p \in Pipes /\ l[t].f \in Fds
        BY <1>1, Fields
      <4>2. fd[t][l[t].f].end \in Ends
        <5>1. CallInv(t) /\ pc[t] = "czero"
          BY <3>3 DEF CallsInv, Zero, At
        <5>2. fd[t][l[t].f] # Shut
          BY <5>1 DEF CallInv, Given, Closings, PipeFds
        <5> QED BY <1>1, <4>1, <5>2, Fields
      <4>3. pipe[l[t].p].blk[fd[t][l[t].f].end] \in Tasks \cup {None}
        BY <1>1, <4>1, <4>2, PipeFields
      <4>4. st' = Woken(pipe[l[t].p].blk[fd[t][l[t].f].end])
        BY <2>2, <3>3 DEF Zero, PipeOf
      <4>5. st'[v] = st[v] \/ st'[v] = "READY"
        BY <1>1, <4>3, <4>4, WokenType
      <4> QED BY <2>2, <4>5
    <3>4. CASE Incremented(t)
      BY <1>1, <2>2, <3>4 DEF Incremented, TypesInv
    <3> QED BY <3>1, <3>2, <3>3, <3>4
  <2> QED BY <2>1, <2>2
<1> QED BY <1>1, <1>2 DEF Sleepy

(* A mover that stays where it wakes, or was nowhere near, leaves the      *)
(* excuse of the sleepers at the other end.                                *)
LEMMA StillExcused ==
  ASSUME NEW t \in Tasks, NEW p \in Pipes, NEW e \in Ends, Excused(p, e),
         \A v \in Tasks : v # t => pc'[v] = pc[v] /\ l'[v] = l[v],
         pipe'[p].count = pipe[p].count,
         In(t, Other(e), p, Wakes(e)) => In(t, Other(e), p, Wakes(e))'
  PROVE  Excused(p, e)'
<1>1. CASE MustWait(p, e)
  BY <1>1 DEF Excused, MustWait
<1>2. CASE \E u \in Tasks : In(u, Other(e), p, Wakes(e))
  <2>1. PICK u \in Tasks : In(u, Other(e), p, Wakes(e))
    BY <1>2
  <2>2. In(u, Other(e), p, Wakes(e))'
    <3>1. CASE u = t
      BY <2>1, <3>1
    <3>2. CASE u # t
      BY <2>1, <3>2 DEF In
    <3> QED BY <3>1, <3>2
  <2> QED BY <2>2 DEF Excused
<1> QED BY <1>1, <1>2 DEF Excused

SleeperOk(v) == /\ pc[v] \in {"block", "unmark"} => pipe[l[v].p].blk[l[v].end] = v
                /\ Excused(l[v].p, l[v].end)

LEMMA FdSleeps ==
  ASSUME PipeInv, NEW u \in Tasks, FdStep(u), NoRefLost', SleepInv
  PROVE  SleepInv'
<1>1. CallsInv /\ TypesInv
  BY DEF PipeInv, CallsInv
<1>2. pc[u] \notin Moving /\ pc'[u] \notin Moving /\ NoRefLost
  BY <1>1, FdPlaces DEF NoRefLost
<1>3. Step(u) \/ Call(u)
  BY DEF FdStep, Step, Call
<1>4. \A v \in Tasks : v # u => pc'[v] = pc[v] /\ l'[v] = l[v]
  BY <1>1, <1>3, OthersStay
<1>5. ASSUME NEW v \in Tasks, Sleepy(v)'
      PROVE  SleeperOk(v)'
  <2>1. v # u
    BY <1>2, <1>5 DEF Sleepy, Moving
  <2>2. Sleepy(v) /\ pc'[v] = pc[v] /\ l'[v] = l[v]
    BY <1>1, <1>3, <1>5, <2>1, StillSleepy
  <2>3. pc[v] \in Moving
    BY <2>2, SleepyMoves
  <2>4. PICK p \in Pipes, e \in Ends : p = l[v].p /\ e = l[v].end
    BY <1>2, <2>3, HoldsEnd
  <2>5. (pc[v] \in {"block", "unmark"} => pipe[p].blk[e] = v) /\ Excused(p, e)
    BY <2>2, <2>4 DEF SleepInv
  <2>6. ~In(u, Other(e), p, Wakes(e))
    BY <1>2 DEF In, Wakes, Moving
  <2>7. pipe'[p].count = pipe[p].count /\ pipe'[p].blk[e] = pipe[p].blk[e]
    <3>1. CASE Create(u)
      <4>1. pipe'[p] = pipe[p]
        BY <2>3, <2>4, <3>1, CreateRing
      <4> QED BY <4>1
    <3>2. CASE ~Create(u)
      <4>1. Refs(p, e) # {} /\ RefInv
        BY <1>2, <2>3, <2>4, HoldsEnd DEF PipeInv
      <4>2. pipe[p].ref[e] # 0
        BY <1>1, <4>1, NoRefs
      <4>3. SameRings /\ (pipe'[p].blk[e] = pipe[p].blk[e] \/ (Zero(u) /\ pipe[p].ref[e] = 0))
        BY <1>1, <3>2, FdRings
      <4> QED BY <4>2, <4>3 DEF SameRings
    <3> QED BY <3>1, <3>2
  <2>8. Excused(p, e)'
    BY <1>4, <2>5, <2>6, <2>7, StillExcused
  <2> QED BY <2>2, <2>4, <2>5, <2>7, <2>8 DEF SleeperOk
<1> QED BY <1>5 DEF SleepInv, SleeperOk

(* Only a wait brings a task nearer to sleep.                              *)
LEMMA OnlyWaits ==
  ASSUME CallsInv, NEW t \in Tasks, MoveStep(t), Sleepy(t)'
  PROVE  \E e \in Ends : Wait(t, e)
<1>1. ASSUME NEW e \in Ends, Move(t, e) PROVE FALSE
  <2>1. CASE LoadCount(t, e)
    BY <2>1, LoadEffect DEF Sleepy
  <2>2. CASE StoreCount(t, e)
    BY <2>2, StoreEffect DEF Sleepy
  <2>3. CASE Wake(t, e)
    BY <2>3, WakeEffect DEF Sleepy
  <2>4. CASE Clear(t, e)
    BY <2>4, ClearEffect DEF Sleepy
  <2> QED BY <1>1, <2>1, <2>2, <2>3, <2>4 DEF Move
<1>2. CASE Take(t) \/ Put(t)
  BY <1>2, TakeEffect, PutEffect DEF Sleepy
<1>3. CASE \E f \in Fds, n \in 1 .. MaxLen : Read(t, f, n) \/ Write(t, f, n)
  <2>1. PICK f \in Fds, n \in 1 .. MaxLen, e \in Ends : Begin(t, e, f, n)
    BY <1>3 DEF Read, Write, Ends
  <2> QED BY <2>1, BeginEffect DEF Sleepy
<1>4. CASE \E u \in Tasks : Kill(t, u)
  BY <1>4, KillFrame DEF Sleepy
<1> QED BY <1>1, <1>2, <1>3, <1>4 DEF MoveStep

LEMMA OwnSleep ==
  ASSUME CallsInv, SleepInv, NEW t \in Tasks, MoveStep(t), Sleepy(t)'
  PROVE  SleeperOk(t)'
<1>1. PICK e \in Ends : Wait(t, e)
  BY OnlyWaits
<1>2. TypesInv /\ l[t].end = e /\ SameRings /\ st[t] = "READY"
      /\ \A v \in Tasks : v # t => pc'[v] = pc[v] /\ l'[v] = l[v]
  <2>1. l[t].end = e /\ MoveFrame(t)
    BY <1>1, WaitFrame
  <2>2. SameRings
    BY <1>1, WaitEffect DEF SameRings
  <2> QED BY <2>1, <2>2 DEF CallsInv, MoveFrame
<1>3. PICK p \in Pipes : p = l[t].p
  BY <1>2, Fields
<1>4. pipe'[p].count = pipe[p].count /\ ~In(t, Other(e), p, Wakes(e))
  BY <1>2, Sizes DEF SameRings, In
<1>5. CASE pc[t] = "test" /\ pc'[t] = "open" /\ MustWait(l[t].p, e) /\ UNCHANGED <<pipe, st, l>>
  BY <1>2, <1>5 DEF SleeperOk, Excused, MustWait
<1>6. CASE Sleepy(t) /\ UNCHANGED l /\ (pc'[t] \in {"block", "unmark"} => pipe'[p].blk[e] = t)
  <2>1. Excused(p, e)
    BY <1>2, <1>3, <1>6 DEF SleepInv
  <2>2. Excused(p, e)'
    BY <1>2, <1>4, <2>1, StillExcused
  <2> QED BY <1>2, <1>3, <1>6, <2>2 DEF SleeperOk
<1>7. CASE pc[t] = "open" /\ pc'[t] = "mark" /\ UNCHANGED <<pipe, st, l>>
  BY <1>6, <1>7 DEF Sleepy
<1>8. CASE /\ pc[t] = "mark" /\ pc'[t] = "block" /\ UNCHANGED <<st, l>>
           /\ \A q \in Pipes, d \in Ends :
                pipe'[q].blk[d] = IF q = l[t].p /\ d = e THEN t ELSE pipe[q].blk[d]
  <2>1. pipe'[p].blk[e] = t
    BY <1>3, <1>8
  <2> QED BY <1>6, <1>8, <2>1 DEF Sleepy
<1>9. CASE pc[t] = "block" /\ pc'[t] = "unmark" /\ UNCHANGED <<pipe, l>>
  <2>1. Sleepy(t)
    BY <1>9 DEF Sleepy
  <2>2. pipe[p].blk[e] = t
    BY <1>2, <1>3, <1>9, <2>1 DEF SleepInv
  <2> QED BY <1>6, <1>9, <2>1, <2>2
<1>10. pc'[t] \notin {"copy", "user", "test"}
  BY DEF Sleepy
<1> QED BY <1>1, <1>5, <1>7, <1>8, <1>9, <1>10, WaitEffect

(* What a step of read or write leaves of the names at the ends.           *)
LEMMA MoveBlk ==
  ASSUME CallsInv, NEW t \in Tasks, MoveStep(t), NEW p \in Pipes, NEW e \in Ends
  PROVE  \/ pipe'[p].blk[e] = pipe[p].blk[e]
         \/ pc[t] \in Moving /\ l[t].p = p /\ l[t].end = e
         \/ Clear(t, Other(e)) /\ l[t].p = p
<1>1. ASSUME NEW d \in Ends, Wait(t, d)
      PROVE  \/ pipe'[p].blk[e] = pipe[p].blk[e]
             \/ pc[t] \in Moving /\ l[t].p = p /\ l[t].end = e
  <2>1. pc[t] \in Moving /\ l[t].end = d
    BY <1>1, WaitFrame
  <2>2. pipe'[p].blk[e] = pipe[p].blk[e] \/ (p = l[t].p /\ e = d)
    BY <1>1, WaitEffect
  <2> QED BY <2>1, <2>2
<1>2. ASSUME NEW d \in Ends, Move(t, d)
      PROVE  \/ pipe'[p].blk[e] = pipe[p].blk[e]
             \/ Clear(t, Other(e)) /\ l[t].p = p
  <2>1. CASE LoadCount(t, d) \/ StoreCount(t, d) \/ Wake(t, d)
    BY <2>1, LoadEffect, StoreEffect, WakeEffect
  <2>2. CASE Clear(t, d)
    <3>1. pipe'[p].blk[e] = pipe[p].blk[e] \/ (p = l[t].p /\ e = Other(d))
      BY <2>2, ClearEffect
    <3>2. e = Other(d) => Other(e) = d
      BY Sizes
    <3> QED BY <2>2, <3>1, <3>2
  <2> QED BY <1>2, <2>1, <2>2 DEF Move
<1>3. CASE Take(t) \/ Put(t)
  BY <1>3, TakeEffect, PutEffect
<1>4. CASE \E f \in Fds, n \in 1 .. MaxLen : Read(t, f, n) \/ Write(t, f, n)
  <2>1. PICK f \in Fds, n \in 1 .. MaxLen, d \in Ends : Begin(t, d, f, n)
    BY <1>4 DEF Read, Write, Ends
  <2> QED BY <2>1, BeginEffect
<1>5. CASE \E u \in Tasks : Kill(t, u)
  BY <1>5, KillFrame
<1> QED BY <1>1, <1>2, <1>3, <1>4, <1>5 DEF MoveStep

(* A mover leaves the sleepers at the other end an excuse, or wakes them.  *)
LEMMA MoveExcuse ==
  ASSUME CallsInv, NEW t \in Tasks, MoveStep(t), NEW p \in Pipes, NEW e \in Ends, Excused(p, e),
         pc[t] \in Moving => ~(l[t].p = p /\ l[t].end = e)
  PROVE  Excused(p, e)' \/ (Wake(t, Other(e)) /\ l[t].p = p)
<1>1. TypesInv /\ \A v \in Tasks : v # t => pc'[v] = pc[v] /\ l'[v] = l[v]
  BY MoveStepFrame DEF CallsInv
<1>2. Other(e) \in Ends /\ Other(e) # e /\ Other(Other(e)) = e
  BY Sizes
<1>3. ASSUME NEW d \in Ends, StoreCount(t, d) PROVE Excused(p, e)'
  <2>1. /\ pc[t] = "store" /\ pc'[t] = (IF d = "r" THEN "copy" ELSE "wake") /\ l[t].end = d /\ Stays(t)
        /\ p # l[t].p => pipe'[p].count = pipe[p].count
    BY <1>3, StoreEffect
  <2>2. CASE l[t].p = p
    <3>1. d = Other(e)
      BY <2>1, <2>2 DEF Moving, Ends, Other
    <3>2. pc'[t] \in Wakes(e)
      BY <2>1, <3>1 DEF Wakes, Ends, Other
    <3>3. In(t, Other(e), p, Wakes(e))'
      BY <2>1, <2>2, <3>1, <3>2 DEF In, Stays
    <3> QED BY <3>3 DEF Excused
  <2>3. CASE l[t].p # p
    <3>1. ~In(t, Other(e), p, Wakes(e))
      BY <2>3 DEF In
    <3> QED BY <1>1, <2>1, <2>3, <3>1, StillExcused
  <2> QED BY <2>2, <2>3
<1>4. ASSUME \A q \in Pipes : pipe'[q].count = pipe[q].count,
             In(t, Other(e), p, Wakes(e)) => In(t, Other(e), p, Wakes(e))'
      PROVE  Excused(p, e)'
  BY <1>1, <1>4, StillExcused
<1>5. ASSUME NEW d \in Ends, Wait(t, d) PROVE Excused(p, e)'
  <2>1. \A q \in Pipes : pipe'[q].count = pipe[q].count
    BY <1>5, WaitEffect
  <2>2. pc[t] \in {"test", "open", "mark", "block", "unmark"}
    BY <1>5, WaitEffect
  <2>3. ~In(t, Other(e), p, Wakes(e))
    BY <2>2 DEF In, Wakes
  <2> QED BY <1>4, <2>1, <2>3
<1>6. ASSUME NEW d \in Ends, LoadCount(t, d) PROVE Excused(p, e)'
  <2>1. UNCHANGED pipe /\ pc[t] = "load" /\ pc'[t] = "store" /\ Stays(t)
    BY <1>6, LoadEffect
  <2>2. In(t, Other(e), p, Wakes(e)) => In(t, Other(e), p, Wakes(e))'
    BY <2>1 DEF In, Wakes, Stays
  <2> QED BY <1>4, <2>1, <2>2
<1>7. ASSUME NEW d \in Ends, Clear(t, d) PROVE Excused(p, e)'
  <2>1. SameRings /\ pc[t] = "clear"
    BY <1>7, ClearEffect
  <2>2. ~In(t, Other(e), p, Wakes(e))
    BY <2>1 DEF In, Wakes
  <2> QED BY <1>4, <2>1, <2>2 DEF SameRings
<1>8. ASSUME NEW d \in Ends, Wake(t, d)
      PROVE  Excused(p, e)' \/ (Wake(t, Other(e)) /\ l[t].p = p)
  <2>1. UNCHANGED pipe /\ l[t].end = d
    BY <1>8, WakeEffect
  <2>2. CASE l[t].p = p /\ d = Other(e)
    BY <1>8, <2>2
  <2>3. CASE ~(l[t].p = p /\ d = Other(e))
    <3>1. ~In(t, Other(e), p, Wakes(e))
      BY <2>1, <2>3 DEF In
    <3> QED BY <1>4, <2>1, <3>1
  <2> QED BY <2>2, <2>3
<1>9. CASE Take(t)
  <2>1. /\ pc[t] = "copy" /\ pc'[t] \in {"wake", "load"} /\ l[t].end = "r" /\ Stays(t)
        /\ \A q \in Pipes : pipe'[q].count = pipe[q].count
    BY <1>9, TakeEffect
  <2>2. In(t, Other(e), p, Wakes(e)) => In(t, Other(e), p, Wakes(e))'
    BY <2>1 DEF In, Wakes, Stays
  <2> QED BY <1>4, <2>1, <2>2
<1>10. CASE Put(t)
  <2>1. /\ pc[t] = "copy" /\ l[t].end = "w" /\ \A q \in Pipes : pipe'[q].count = pipe[q].count
    BY <1>10, PutEffect
  <2>2. ~In(t, Other(e), p, Wakes(e))
    BY <2>1 DEF In, Wakes, Other, Ends
  <2> QED BY <1>4, <2>1, <2>2
<1>11. CASE \E f \in Fds, n \in 1 .. MaxLen : Read(t, f, n) \/ Write(t, f, n)
  <2>1. PICK f \in Fds, n \in 1 .. MaxLen, d \in Ends : Begin(t, d, f, n)
    BY <1>11 DEF Read, Write, Ends
  <2>2. UNCHANGED pipe /\ pc[t] = "user"
    BY <2>1, BeginEffect
  <2>3. ~In(t, Other(e), p, Wakes(e))
    BY <2>2 DEF In, Wakes
  <2> QED BY <1>4, <2>2, <2>3
<1>12. CASE \E u \in Tasks : Kill(t, u)
  <2>1. UNCHANGED pipe /\ pc[t] = "user"
    BY <1>12, KillFrame
  <2>2. ~In(t, Other(e), p, Wakes(e))
    BY <2>1 DEF In, Wakes
  <2> QED BY <1>4, <2>1, <2>2
<1> QED BY <1>3, <1>5, <1>6, <1>7, <1>8, <1>9, <1>10, <1>11, <1>12 DEF MoveStep, Move

LEMMA MoveSleeps ==
  ASSUME OneEach, RolesInv, NEW t \in Tasks, MoveStep(t), ~missed', SleepInv
  PROVE  SleepInv'
<1>1. CallsInv /\ TypesInv /\ TypesInv'
  BY MoveStepFrame DEF RolesInv, PipeInv, CallsInv
<1>2. Step(t) \/ Call(t)
  BY DEF MoveStep, Step, Call
<1>3. ASSUME NEW v \in Tasks, Sleepy(v)', v # t
      PROVE  SleeperOk(v)'
  <2>1. Sleepy(v) /\ pc'[v] = pc[v] /\ l'[v] = l[v] /\ pc[v] \in Moving
    BY <1>1, <1>2, <1>3, StillSleepy, SleepyMoves
  <2>2. CallInv(v) /\ RoleInv(v) /\ RoleInv(t)
    BY DEF RolesInv, PipeInv, CallsInv
  <2>3. PICK p \in Pipes, e \in Ends : p = l[v].p /\ e = l[v].end
    BY <1>1, <2>1, <2>2, Fields DEF CallInv
  <2>4. (pc[v] \in {"block", "unmark"} => pipe[p].blk[e] = v) /\ Excused(p, e)
    BY <2>1, <2>3 DEF SleepInv
  <2>5. pc[t] \in Moving => ~(l[t].p = p /\ l[t].end = e)
    BY <1>3, <2>1, <2>2, <2>3, Alone
  <2>6. Other(e) \in Ends /\ Other(Other(e)) = e
    BY Sizes
  <2>7. pc[v] \in {"block", "unmark"} => pipe'[p].blk[e] = v
    <3> SUFFICES ASSUME pc[v] \in {"block", "unmark"} PROVE pipe'[p].blk[e] = v
      OBVIOUS
    <3>1. ~(Clear(t, Other(e)) /\ l[t].p = p)
      <4> SUFFICES ASSUME Clear(t, Other(e)), l[t].p = p PROVE FALSE
        OBVIOUS
      <4>1. missed' = (missed \/ \E u \in Tasks :
                  /\ l[u].p = l[t].p /\ l[u].end = e
                  /\ (pc[u] = "block" \/ (pc[u] = "unmark" /\ st[u] = "BLOCKED")))
        BY <1>1, <2>6, ClearEffect
      <4>2. pc[v] = "block" \/ (pc[v] = "unmark" /\ st[v] = "BLOCKED")
        BY <2>1 DEF Sleepy
      <4> QED BY <2>3, <4>1, <4>2
    <3> QED BY <1>1, <2>4, <2>5, <3>1, MoveBlk
  <2>8. ~(Wake(t, Other(e)) /\ l[t].p = p)
    <3> SUFFICES ASSUME Wake(t, Other(e)), l[t].p = p PROVE FALSE
      OBVIOUS
    <3>1. /\ st' = Woken(pipe[p].blk[e]) /\ missed' = (missed \/ Between(p, e) # {})
      BY <1>1, <2>6, WakeEffect
    <3>2. CASE pc[v] \in {"open", "mark", "block"}
      <4>1. st[v] # "UNUSED"
        BY <2>1, <2>2 DEF CallInv, Moving
      <4>2. v \in Between(p, e)
        BY <2>3, <3>2, <4>1 DEF Between
      <4> QED BY <3>1, <4>2
    <3>3. CASE pc[v] = "unmark" /\ st[v] = "BLOCKED"
      <4>1. st'[v] = "READY"
        BY <1>1, <2>4, <3>1, <3>3, WokenType
      <4> QED BY <1>3, <2>1, <3>3, <4>1 DEF Sleepy
    <3> QED BY <2>1, <3>2, <3>3 DEF Sleepy
  <2>9. Excused(p, e)'
    BY <1>1, <2>4, <2>5, <2>8, MoveExcuse
  <2> QED BY <2>1, <2>3, <2>7, <2>9 DEF SleeperOk
<1>4. Sleepy(t)' => SleeperOk(t)'
  BY <1>1, OwnSleep
<1> QED BY <1>3, <1>4 DEF SleepInv, SleeperOk

SleepOk == CountsInv /\ (raced = {} /\ ~missed => SleepInv)

LEMMA MissedStays ==
  ASSUME CallsInv, NEW t \in Tasks, Step(t) \/ Call(t)
  PROVE  raced \subseteq raced' /\ (missed => missed')
<1>1. CASE MoveStep(t)
  <2>1. raced \subseteq raced'
    BY <1>1, MoveStepFrame
  <2>2. missed => missed'
    BY <1>1 DEF MoveStep, Wait, Move, TestCount, TestOpen, Mark, Block, Unmark, LoadCount, StoreCount,
       Wake, Clear, Take, Put, Read, Write, Begin, Kill, hist
  <2> QED BY <2>1, <2>2
<1>2. CASE FdStep(t)
  BY <1>2, FdPlaces
<1> QED BY <1>1, <1>2, Kinds

LEMMA SleepNext ==
  ASSUME OneEach, SleepOk, [Next]_vars
  PROVE  SleepOk'
<1>1. CountsInv'
  BY CountsNext DEF SleepOk
<1>2. CASE UNCHANGED vars
  <2>1. UNCHANGED <<pipe, pc, l, st, raced, missed>>
    BY <1>2 DEF vars, hist
  <2>2. SleepInv' <=> SleepInv
    BY <2>1 DEF SleepInv, Sleepy, Excused, MustWait, In
  <2> QED BY <1>1, <2>1, <2>2 DEF SleepOk
<1>3. ASSUME NEW t \in Tasks, Step(t) \/ Call(t), raced' = {}, ~missed'
      PROVE  SleepInv'
  <2>1. PipeInv /\ CallsInv /\ RolesInv
    BY DEF SleepOk, CountsInv, RolesInv, PipeInv
  <2>2. raced = {} /\ ~missed
    BY <1>3, <2>1, MissedStays
  <2>3. SleepInv /\ NoRefLost'
    BY <1>3, <2>2 DEF SleepOk, NoRefLost
  <2>4. CASE MoveStep(t)
    BY <1>3, <2>1, <2>3, <2>4, MoveSleeps
  <2>5. CASE FdStep(t)
    BY <2>1, <2>3, <2>5, FdSleeps
  <2> QED BY <1>3, <2>4, <2>5, Kinds
<1> QED BY <1>1, <1>2, <1>3 DEF Next, SleepOk

(* With one reading and one writing task, a task sleeps at a pipe that it  *)
(* could use only if the wakeup came between its test and its sleep        *)
(* (pipe.c:33-36, 62-65), an update was lost, or whoever moves the bytes   *)
(* is still on its way to wake it.                                         *)
THEOREM OnlyMissedWakeupsSleep == ASSUME OneEach PROVE Spec => []SleepsOnlyIfMissed
<1>1. Init => SleepOk
  <2> SUFFICES ASSUME Init PROVE SleepOk
    OBVIOUS
  <2>1. CountsInv
    BY CountsInit
  <2>2. \A t \in Tasks : ~Sleepy(t)
    BY DEF Init, Sleepy
  <2> QED BY <2>1, <2>2 DEF SleepOk, SleepInv
<1>2. SleepOk /\ [Next]_vars => SleepOk'
  BY SleepNext
<1>3. SleepOk => SleepsOnlyIfMissed
  <2> SUFFICES ASSUME SleepOk, NEW t \in Tasks, NEW p \in Pipes, NEW e \in Ends,
                      Asleep(t, p, e), ~MustWait(p, e), raced = {}, ~missed
               PROVE  \E u \in Tasks : l[u].p = p /\ l[u].end = Other(e) /\ pc[u] \in Wakes(e)
    BY DEF SleepsOnlyIfMissed, Wakes
  <2>1. Sleepy(t) /\ l[t].p = p /\ l[t].end = e
    BY DEF Asleep, Sleepy
  <2>2. Excused(p, e)
    BY <2>1 DEF SleepOk, SleepInv
  <2> QED BY <2>2 DEF Excused, In
<1> QED BY <1>1, <1>2, <1>3, PTL DEF Spec

=============================================================================
