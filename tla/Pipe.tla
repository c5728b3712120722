--------------------------------- MODULE Pipe ---------------------------------
(***************************************************************************)
(* Pipes and file descriptors: kernel/pipe.c and the calls read, write,    *)
(* pipe, dup2, close, fork, exit and kill of kernel/syscall.c, for tasks   *)
(* that share pipes.                                                       *)
(*                                                                         *)
(* A system call runs with interrupts enabled and the timer switches tasks *)
(* anywhere in it, so a step here is one access to what tasks share: the   *)
(* kernel is built without optimisation, and count--, count += chunk and   *)
(* the reference counts are a load and a later store.  The buffer, head    *)
(* and tail belong to one side each and are not split.                     *)
(***************************************************************************)
EXTENDS Integers, FiniteSets, FiniteSetsExt

CONSTANTS N,         \* PIPE_BUF_SIZE
          NPipes,    \* MAX_PIPES
          FirstFd, MaxFds,    \* 3, the lowest that SYS_PIPE hands out, and MAX_FDS
          Procs,     \* task slots
          Readers, Writers,  \* the tasks that call read, and write
          Dups, Exits, \* those that call dup2, and exit
          DupTo,     \* what dup2 replaces: standard descriptors
          MaxLen,    \* bound: bytes per call
          MaxBytes,  \* bound: bytes written to a pipe
          MaxFail    \* bound: forks that fail

ASSUME PipeAssumption == /\ {N, NPipes, MaxFds, Procs, MaxLen} \subseteq Nat \ {0}
                         /\ FirstFd \in Nat /\ DupTo \subseteq 0 .. MaxFds - 1
                         /\ Readers \cup Writers \cup Dups \cup Exits \subseteq 0 .. Procs - 1

Tasks == 0 .. Procs - 1
Fds   == 0 .. MaxFds - 1
Pipes == 0 .. NPipes - 1
Ends  == {"r", "w"}
None  == -1
Shut  == [end |-> "none", p |-> 0]
Other(e) == IF e = "r" THEN "w" ELSE "r"

VARIABLES pipe,  \* pipe_pool; its fields per end are functions of the end
          fd,    \* fd_type and fd_data of the tasks
          st,    \* the state of a task; READY stands for RUNNING too
          pc, l, \* where a task is, and its local variables
          fails, \* forks that have failed
          sent, got,      \* history, per pipe: bytes written, bytes read in order
          garbled,        \* history: a byte was read that was not the next one
          raced,          \* history: what was changed from a stale value: count, ref
          missed,         \* history: a wakeup came in between test and sleep
          leaked          \* history: references of forks that failed

hist == <<sent, got, garbled, missed>>
vars == <<pipe, fd, st, pc, l, fails, hist, raced, leaked>>

(* a mutant: the slot is taken without a reset of the count.               *)
FreshKeepsCount == [used |-> TRUE, head |-> 0, tail |-> 0, count |-> 1,
          open |-> [e \in Ends |-> TRUE], ref |-> [e \in Ends |-> 1],
          blk |-> [e \in Ends |-> None], buf |-> [i \in 0 .. N - 1 |-> 0]]
(* pipe_create, with the two references that SYS_PIPE adds.                *)
Fresh == [used |-> TRUE, head |-> 0, tail |-> 0, count |-> 0,
          open |-> [e \in Ends |-> TRUE], ref |-> [e \in Ends |-> 1],
          blk |-> [e \in Ends |-> None], buf |-> [i \in 0 .. N - 1 |-> 0]]
(* The locals of a call that works through the descriptors in todo.        *)
Work(todo, next, who, len) ==
  [end |-> "none", p |-> 0, f |-> 0, len |-> len, total |-> 0, c |-> 0, chunk |-> 0,
   todo |-> todo, next |-> next, who |-> who]
NoLocals == Work({}, "user", 0, 0)

Init ==
  /\ pipe = [p \in Pipes |-> [Fresh EXCEPT !.used = FALSE]]
  /\ fd = [t \in Tasks |-> [f \in Fds |-> Shut]]
  /\ st = [t \in Tasks |-> IF t = 0 THEN "READY" ELSE "UNUSED"]
  /\ pc = [t \in Tasks |-> "user"] /\ l = [t \in Tasks |-> NoLocals] /\ fails = 0
  /\ sent = [p \in Pipes |-> 0] /\ got = [p \in Pipes |-> 0]
  /\ garbled = FALSE /\ raced = {} /\ missed = FALSE
  /\ leaked = [p \in Pipes |-> [e \in Ends |-> 0]]

At(t, where) == st[t] = "READY" /\ pc[t] = where
AtEnd(t, e, where) == At(t, where) /\ l[t].end = e
Goto(t, where) == pc' = [pc EXCEPT ![t] = where]
Raced(what, stale) == IF stale THEN raced \cup {what} ELSE raced
PipeOf(t) == pipe[l[t].p]
Return(t) == Goto(t, "user") /\ l' = [l EXCEPT ![t] = NoLocals]

-----------------------------------------------------------------------------
(* pipe_read and pipe_write wait alike: e is the task's own end.  Whoever  *)
(* finds the pipe empty (full) looks whether the other end is open, leaves *)
(* its name, and goes to sleep; all of that in separate steps.             *)
MustWait(p, e) == IF e = "r" THEN pipe[p].count = 0 ELSE pipe[p].count >= N

Begin(t, e, f, len) ==
  /\ At(t, "user") /\ fd[t][f].end = e
  /\ l' = [l EXCEPT ![t] = [NoLocals EXCEPT !.end = e, !.p = fd[t][f].p, !.len = len]]
  /\ IF e = "w" /\ ~pipe[fd[t][f].p].open["r"]
     THEN UNCHANGED pc ELSE Goto(t, "test")
  /\ UNCHANGED <<pipe, fd, st, fails, hist, raced, leaked>>
Read(t, f, len)  == t \in Readers /\ Begin(t, "r", f, len)
Write(t, f, len) == /\ t \in Writers /\ fd[t][f].end = "w"
                    /\ sent[fd[t][f].p] + len <= MaxBytes /\ Begin(t, "w", f, len)

(* a mutant: the space in the buffer is not looked at.                     *)
ChunkTooLong(t) == l[t].len - l[t].total
Chunk(t) == Min({l[t].len - l[t].total, N - PipeOf(t).count})

TestCount(t, e) ==
  /\ AtEnd(t, e, "test")
  /\ IF MustWait(l[t].p, e) THEN Goto(t, "open") /\ UNCHANGED l
     ELSE /\ Goto(t, "copy")
          /\ l' = IF e = "r" THEN l ELSE [l EXCEPT ![t].chunk = Chunk(t)]
  /\ UNCHANGED <<pipe, fd, st, fails, hist, raced, leaked>>
TestOpen(t, e) ==
  /\ AtEnd(t, e, "open")
  /\ IF PipeOf(t).open[Other(e)] THEN Goto(t, "mark") /\ UNCHANGED l ELSE Return(t)
  /\ UNCHANGED <<pipe, fd, st, fails, hist, raced, leaked>>
Mark(t, e) ==
  /\ AtEnd(t, e, "mark") /\ Goto(t, "block")
  /\ pipe' = [pipe EXCEPT ![l[t].p].blk[e] = t]
  /\ UNCHANGED <<fd, st, l, fails, hist, raced, leaked>>
(* task_block.  The idle task is always READY, so the caller does stop.    *)
Block(t, e) ==
  /\ AtEnd(t, e, "block") /\ Goto(t, "unmark")
  /\ st' = [st EXCEPT ![t] = "BLOCKED"]
  /\ UNCHANGED <<pipe, fd, l, fails, hist, raced, leaked>>
(* It runs again.  A writer looks at once whether it still has a reader.   *)
Unmark(t, e) ==
  /\ AtEnd(t, e, "unmark")
  /\ pipe' = [pipe EXCEPT ![l[t].p].blk[e] = None]
  /\ IF e = "w" /\ ~PipeOf(t).open["r"] THEN Return(t)
     ELSE Goto(t, "test") /\ UNCHANGED l
  /\ UNCHANGED <<fd, st, fails, hist, raced, leaked>>
Wait(t, e) == TestCount(t, e) \/ TestOpen(t, e) \/ Mark(t, e) \/ Block(t, e) \/ Unmark(t, e)

(* head and tail go round.                                                 *)
Advance(i, n) == (i + n) % N

(* The loop of pipe_read takes a byte, and then lowers the count.          *)
Take(t) ==
  /\ AtEnd(t, "r", "copy")
  /\ IF l[t].total < l[t].len /\ PipeOf(t).count > 0
     THEN /\ Goto(t, "load") /\ l' = [l EXCEPT ![t].total = @ + 1]
          /\ pipe' = [pipe EXCEPT ![l[t].p].tail = Advance(@, 1)]
          /\ garbled' = (garbled \/ PipeOf(t).buf[PipeOf(t).tail] # got[l[t].p] + 1)
          /\ got' = [got EXCEPT ![l[t].p] = PipeOf(t).buf[PipeOf(t).tail]]
     ELSE Goto(t, "wake") /\ UNCHANGED <<l, pipe, garbled, got>>
  /\ UNCHANGED <<fd, st, fails, sent, missed, raced, leaked>>
(* pipe_write fills the space it has seen, and then raises the count.      *)
Put(t) ==
  /\ AtEnd(t, "w", "copy") /\ Goto(t, "load")
  /\ LET p == l[t].p n == l[t].chunk IN
       /\ pipe' = [pipe EXCEPT
            ![p].buf = [i \in 0 .. N - 1 |->
                          IF (i - pipe[p].head) % N < n
                          THEN sent[p] + 1 + ((i - pipe[p].head) % N) ELSE @[i]],
            ![p].head = Advance(@, n)]
       /\ sent' = [sent EXCEPT ![p] = @ + n]
  /\ UNCHANGED <<fd, st, l, fails, got, garbled, missed, raced, leaked>>
LoadCount(t, e) ==
  /\ AtEnd(t, e, "load") /\ Goto(t, "store")
  /\ l' = [l EXCEPT ![t].c = PipeOf(t).count]
  /\ UNCHANGED <<pipe, fd, st, fails, hist, raced, leaked>>
StoreCount(t, e) ==
  /\ AtEnd(t, e, "store") /\ Goto(t, IF e = "r" THEN "copy" ELSE "wake")
  /\ pipe' = [pipe EXCEPT ![l[t].p].count =
                            IF e = "r" THEN l[t].c - 1 ELSE l[t].c + l[t].chunk]
  /\ raced' = Raced("count", PipeOf(t).count # l[t].c)
  /\ l' = [l EXCEPT ![t].c = 0, ![t].chunk = 0, ![t].total = @ + l[t].chunk]
  /\ UNCHANGED <<fd, st, fails, hist, leaked>>

(* If the other side has left its name: task_wakeup, and then the name is  *)
(* removed.  A task that has tested the count and does not sleep yet       *)
(* misses the wakeup; one that is woken and sleeps again before its name   *)
(* is removed misses the next.                                             *)
Woken(u) == IF u # None /\ st[u] = "BLOCKED" THEN [st EXCEPT ![u] = "READY"] ELSE st
Between(p, e) == {u \in Tasks : l[u].p = p /\ st[u] # "UNUSED" /\
                                l[u].end = e /\ pc[u] \in {"open", "mark", "block"}}
(* What follows: the next chunk of a write, or the end of the call.        *)
GoOn(t, e) == IF e = "w" /\ l[t].total < l[t].len THEN Goto(t, "test") /\ UNCHANGED l
              ELSE Return(t)
(* a mutant: the sleeping task is only forgotten.                          *)
WakeNobody(t, e) ==
  /\ AtEnd(t, e, "wake")
  /\ IF PipeOf(t).blk[Other(e)] = None THEN GoOn(t, e) ELSE Goto(t, "clear") /\ UNCHANGED l
  /\ missed' = (missed \/ Between(l[t].p, Other(e)) # {})
  /\ UNCHANGED <<pipe, fd, st, fails, sent, got, garbled, raced, leaked>>
Wake(t, e) ==
  /\ AtEnd(t, e, "wake")
  /\ IF PipeOf(t).blk[Other(e)] = None THEN GoOn(t, e) ELSE Goto(t, "clear") /\ UNCHANGED l
  /\ st' = Woken(PipeOf(t).blk[Other(e)])
  /\ missed' = (missed \/ Between(l[t].p, Other(e)) # {})
  /\ UNCHANGED <<pipe, fd, fails, sent, got, garbled, raced, leaked>>
Clear(t, e) ==
  /\ AtEnd(t, e, "clear")
  /\ pipe' = [pipe EXCEPT ![l[t].p].blk[Other(e)] = None]
  /\ missed' = (missed \/ \E u \in Tasks :
                  /\ l[u].p = l[t].p /\ l[u].end = Other(e)
                  /\ (pc[u] = "block" \/ (pc[u] = "unmark" /\ st[u] = "BLOCKED")))
  /\ GoOn(t, e)
  /\ UNCHANGED <<fd, st, fails, sent, got, garbled, raced, leaked>>
Move(t, e) == LoadCount(t, e) \/ StoreCount(t, e) \/ Wake(t, e) \/ Clear(t, e)

-----------------------------------------------------------------------------
(* SYS_PIPE: two free descriptors from 3 on, and the first unused pipe.      *)
FreeFds(t) == {f \in Fds : f >= FirstFd /\ fd[t][f] = Shut}
SysPipe(t) ==
  /\ At(t, "user") /\ Cardinality(FreeFds(t)) >= 2
  /\ LET free == {p \in Pipes : ~pipe[p].used} IN
       /\ free # {} /\ l' = [l EXCEPT ![t].p = Min(free)] /\ Goto(t, "create")
  /\ UNCHANGED <<pipe, fd, st, fails, hist, raced, leaked>>
Create(t) ==
  /\ At(t, "create") /\ Return(t)
  /\ LET p == l[t].p f1 == Min(FreeFds(t)) f2 == Min(FreeFds(t) \ {f1}) IN
       /\ pipe' = [pipe EXCEPT ![p] = Fresh]
       /\ fd' = [fd EXCEPT ![t][f1] = [end |-> "r", p |-> p], ![t][f2] = [end |-> "w", p |-> p]]
       /\ raced' = Raced("ref", pipe[p].used)
       /\ sent' = [sent EXCEPT ![p] = 0] /\ got' = [got EXCEPT ![p] = 0]
       /\ leaked' = [leaked EXCEPT ![p] = [e \in Ends |-> 0]]
  /\ UNCHANGED <<st, fails, garbled, missed>>

(* pipe_close_end on the descriptors in todo, one after the other.         *)
PipeFds(t) == {f \in Fds : fd[t][f] # Shut}
Closing(t, todo, next, who) ==
  /\ Goto(t, "close")
  /\ l' = [l EXCEPT ![t] = Work(todo, next, who, 0)]
  /\ UNCHANGED <<pipe, fd, st, fails, hist, raced, leaked>>
Close(t, f) == /\ At(t, "user") /\ f >= FirstFd /\ f \in PipeFds(t)
               /\ Closing(t, {f}, "user", 0)
Exit(t)     == At(t, "user") /\ t \in Exits /\ Closing(t, PipeFds(t), "exit", 0)
Dup2(t, old, new) ==
  /\ At(t, "user") /\ t \in Dups /\ old \in PipeFds(t) /\ old # new
  /\ l' = [l EXCEPT ![t] = Work({new} \cap PipeFds(t), "dup", old, new)]
  /\ Goto(t, "close") /\ UNCHANGED <<pipe, fd, st, fails, hist, raced, leaked>>

LoadRef(t) ==
  /\ At(t, "close") /\ l[t].todo # {}
  /\ LET f == Min(l[t].todo) d == fd[t][f] IN
       l' = [l EXCEPT ![t].f = f, ![t].p = d.p, ![t].c = pipe[d.p].ref[d.end]]
  /\ Goto(t, "cstore")
  /\ UNCHANGED <<pipe, fd, st, fails, hist, raced, leaked>>
(* a mutant: the reference is kept.                                        *)
StoreRefKept(t) ==
  /\ At(t, "cstore") /\ Goto(t, "czero")
  /\ UNCHANGED <<pipe, fd, st, l, fails, hist, raced, leaked>>
StoreRef(t) ==
  /\ At(t, "cstore") /\ Goto(t, "czero")
  /\ LET e == fd[t][l[t].f].end IN
       /\ pipe' = IF l[t].c > 0 THEN [pipe EXCEPT ![l[t].p].ref[e] = l[t].c - 1] ELSE pipe
       /\ raced' = Raced("ref", PipeOf(t).ref[e] # l[t].c)
  /\ l' = [l EXCEPT ![t].c = 0]
  /\ UNCHANGED <<fd, st, fails, hist, leaked>>
(* The last reference to an end: it wakes a task that sleeps at the SAME   *)
(* end.                                                                    *)
Zero(t) ==
  /\ At(t, "czero") /\ Goto(t, "ctest")
  /\ LET e == fd[t][l[t].f].end IN
       IF PipeOf(t).ref[e] # 0 THEN UNCHANGED <<pipe, st>>
       ELSE /\ pipe' = [pipe EXCEPT ![l[t].p].open[e] = FALSE, ![l[t].p].blk[e] = None]
            /\ st' = Woken(PipeOf(t).blk[e])
  /\ UNCHANGED <<fd, l, fails, hist, raced, leaked>>
TestShut(t) ==
  /\ At(t, "ctest")
  /\ Goto(t, IF \A e \in Ends : ~PipeOf(t).open[e] THEN "cfree" ELSE "cdone")
  /\ UNCHANGED <<pipe, fd, st, l, fails, hist, raced, leaked>>
Unuse(t) ==
  /\ At(t, "cfree") /\ Goto(t, "cdone")
  /\ pipe' = [pipe EXCEPT ![l[t].p].used = FALSE]
  /\ raced' = Raced("ref", \E e \in Ends : PipeOf(t).open[e])
  /\ UNCHANGED <<fd, st, l, fails, hist, leaked>>
ClearFd(t) ==
  /\ At(t, "cdone") /\ Goto(t, "close")
  /\ fd' = [fd EXCEPT ![t][l[t].f] = Shut]
  /\ l' = [l EXCEPT ![t].todo = @ \ {l[t].f}, ![t].f = 0, ![t].p = 0]
  /\ UNCHANGED <<pipe, st, fails, hist, raced, leaked>>
(* What follows: nothing, the end of sys_exit, or the copy of dup2.        *)
Closed(t) ==
  /\ At(t, "close") /\ l[t].todo = {}
  /\ CASE l[t].next = "user" -> Return(t) /\ UNCHANGED <<st, fd>>
       [] l[t].next = "exit" -> Return(t) /\ st' = [st EXCEPT ![t] = "ZOMBIE"] /\ UNCHANGED fd
       [] l[t].next = "dup"  -> /\ fd' = [fd EXCEPT ![t][l[t].len] = fd[t][l[t].who]]
                                /\ l' = [l EXCEPT ![t].todo = {l[t].len}, ![t].next = "user"]
                                /\ Goto(t, "inc") /\ UNCHANGED st
  /\ UNCHANGED <<pipe, fails, hist, raced, leaked>>
CloseStep(t) == LoadRef(t) \/ StoreRef(t) \/ Zero(t) \/ TestShut(t) \/ Unuse(t)
                \/ ClearFd(t) \/ Closed(t)

(* task_copy_fds in sys_fork: the next slot gets the descriptors, and the  *)
(* pipes a reference for each.                                             *)
NextSlot == {u \in Tasks : st[u] = "UNUSED" /\ \A v \in Tasks : v < u => st[v] # "UNUSED"}
Fork(t) ==
  /\ At(t, "user")
  /\ \E u \in NextSlot :
       /\ fd' = [fd EXCEPT ![u] = fd[t]]
       /\ l' = [l EXCEPT ![t] = Work(PipeFds(t), "fork", u, 0)]
  /\ Goto(t, "inc")
  /\ raced' = Raced("ref", \E v \in Tasks : l[v].next = "fork")   \* both fill one slot
  /\ UNCHANGED <<pipe, st, fails, hist, leaked>>
(* pipe_ref_inc.                                                           *)
LoadInc(t) ==
  /\ At(t, "inc") /\ l[t].todo # {} /\ Goto(t, "istore")
  /\ LET f == Min(l[t].todo) d == fd[t][f] IN
       l' = [l EXCEPT ![t].f = f, ![t].p = d.p, ![t].c = pipe[d.p].ref[d.end]]
  /\ UNCHANGED <<pipe, fd, st, fails, hist, raced, leaked>>
(* a mutant: the reference is not counted.                                 *)
StoreIncKept(t) ==
  /\ At(t, "istore") /\ Goto(t, "inc")
  /\ l' = [l EXCEPT ![t].todo = @ \ {l[t].f}, ![t].f = 0, ![t].p = 0, ![t].c = 0]
  /\ UNCHANGED <<pipe, fd, st, fails, hist, raced, leaked>>
StoreInc(t) ==
  /\ At(t, "istore") /\ Goto(t, "inc")
  /\ LET e == fd[t][l[t].f].end IN
       /\ pipe' = [pipe EXCEPT ![l[t].p].ref[e] = l[t].c + 1]
       /\ raced' = Raced("ref", PipeOf(t).ref[e] # l[t].c)
  /\ l' = [l EXCEPT ![t].todo = @ \ {l[t].f}, ![t].f = 0, ![t].p = 0, ![t].c = 0]
  /\ UNCHANGED <<fd, st, fails, hist, leaked>>
(* The rest of sys_fork: the child becomes a task, or memory is missing    *)
(* and the references stay.                                                *)
Count(u, p, e) == Cardinality({f \in Fds : fd[u][f] = [end |-> e, p |-> p]})
Incremented(t) ==
  /\ At(t, "inc") /\ l[t].todo = {} /\ Return(t)
  /\ \/ l[t].next = "user" /\ UNCHANGED <<st, fails, leaked>>
     \/ l[t].next = "fork" /\ st' = [st EXCEPT ![l[t].who] = "READY"] /\ UNCHANGED <<fails, leaked>>
     \/ /\ l[t].next = "fork" /\ fails < MaxFail /\ fails' = fails + 1
        /\ leaked' = [p \in Pipes |-> [e \in Ends |-> leaked[p][e] + Count(l[t].who, p, e)]]
        /\ UNCHANGED st
  /\ UNCHANGED <<pipe, fd, hist, raced>>

(* sys_kill: a task that is blocked becomes READY, and goes on behind its  *)
(* task_block.  What the signal does otherwise is in the module Tasks.     *)
Kill(t, u) ==
  /\ At(t, "user") /\ st[u] = "BLOCKED" /\ st' = [st EXCEPT ![u] = "READY"]
  /\ UNCHANGED <<pipe, fd, pc, l, fails, hist, raced, leaked>>

-----------------------------------------------------------------------------
Step(t) == \/ \E e \in Ends : Wait(t, e) \/ Move(t, e)
           \/ Take(t) \/ Put(t) \/ Create(t) \/ CloseStep(t)
           \/ LoadInc(t) \/ StoreInc(t) \/ Incremented(t)
Call(t) == \/ \E f \in Fds : \/ \E n \in 1..MaxLen : Read(t, f, n) \/ Write(t, f, n)
                             \/ Close(t, f)
                             \/ \E g \in DupTo : Dup2(t, f, g)
           \/ SysPipe(t) \/ Exit(t) \/ Fork(t) \/ \E u \in Tasks : Kill(t, u)
Next == \E t \in Tasks : Step(t) \/ Call(t)
Spec == Init /\ [][Next]_vars

-----------------------------------------------------------------------------
(* For runs about what holds as long as no reference is lost.              *)
NoRefLost == "ref" \notin raced

InFdCall(t) == pc[t] \in {"create", "close", "cstore", "czero", "ctest", "cfree",
                          "cdone", "inc", "istore"}
Live == {t \in Tasks : st[t] # "UNUSED"}
Asleep(t, p, e) == st[t] = "BLOCKED" /\ l[t].p = p /\ l[t].end = e /\ pc[t] = "unmark"

(* The types of the pipe pool and of the descriptors; head and tail stay inside *)
(* the ring (pipe.c:43, pipe.c:76).                                          *)
TypeOK ==
  /\ \A p \in Pipes : /\ pipe[p].head \in 0 .. N - 1 /\ pipe[p].tail \in 0 .. N - 1
                      /\ \A e \in Ends : pipe[p].ref[e] \in Nat /\ pipe[p].blk[e] \in Tasks \cup {None}
  /\ fd \in [Tasks -> [Fds -> {Shut} \cup [end : Ends, p : Pipes]]]
  /\ st \in [Tasks -> {"UNUSED", "READY", "BLOCKED", "ZOMBIE"}]

(* With one reading and one writing task the count of a pipe stays between *)
(* empty and full, even when its unlocked updates overtake each other: no  *)
(* wrap below zero, no write past the space (pipe.c:44, pipe.c:78); as     *)
(* long as no reference is lost, which would hand out the pipe again.      *)
CountBounded == "ref" \notin raced => \A p \in Pipes : pipe[p].count \in 0 .. N

(* The ring stays within its bounds, and the rest of the state well-typed. *)
RingInv == TypeOK /\ CountBounded

(* Every byte is read once and in the order of the writes, unless an       *)
(* update of the count or of a reference was lost.                         *)
InOrder == garbled => raced # {}

(* A task sleeps at a pipe that it could use only if the wakeup came       *)
(* between its test and its sleep (pipe.c:33-36, 62-65), an update was     *)
(* lost, or whoever moves the bytes is still on its way to wake it.        *)
SleepsOnlyIfMissed ==
  \A t \in Tasks, p \in Pipes, e \in Ends :
    Asleep(t, p, e) /\ ~MustWait(p, e) /\ raced = {} /\ ~missed
      => \E u \in Tasks : /\ l[u].p = p
                          /\ l[u].end = Other(e)
                          /\ pc[u] \in (IF e = "r" THEN {"wake"}
                                        ELSE {"copy", "load", "store", "wake"})

(* A reader that sleeps when the last write end is closed sleeps on until  *)
(* a signal wakes it: pipe_close_end wakes the tasks at the end being      *)
(* closed, where nobody is left, and not the ones at the other end         *)
(* (pipe.c:106); only sys_kill makes the reader READY, to find the end of  *)
(* the file (scheduler.c:282).                                             *)
OnlyKillWakesAtEof ==
  [][\A t \in Tasks, p \in Pipes :
       Asleep(t, p, "r") /\ ~pipe'[p].open["w"] /\ "ref" \notin raced'
         => Asleep(t, p, "r")' \/ \E u \in Tasks : Kill(u, t)]_vars

(* Between calls, the references of a pipe are the descriptors for it and  *)
(* what forks that failed have left, and no descriptor is for a pipe that  *)
(* is unused or for an end that is closed.                                 *)
RefsExact ==
  ("ref" \notin raced /\ \A t \in Tasks : ~InFdCall(t)) =>
    \A p \in Pipes, e \in Ends :
      LET fds == Cardinality({x \in Live \X Fds : fd[x[1]][x[2]] = [end |-> e, p |-> p]})
      IN  /\ pipe[p].used => pipe[p].ref[e] = fds + leaked[p][e]
          /\ fds > 0 => pipe[p].used /\ pipe[p].open[e]
=============================================================================
