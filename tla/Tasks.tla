-------------------------------- MODULE Tasks --------------------------------
(***************************************************************************)
(* Tasks, task switches and signals: kernel/scheduler.c, the interrupt     *)
(* path of kernel/isr.asm and handle_interrupt in kernel/idt.c.            *)
(*                                                                         *)
(* A task is a slot of task_pool.  Slot 0 is the main task, which runs the *)
(* shell and everything the shell executes; slot 1 is the idle task; the   *)
(* others are children made by fork.  Slots are linked in order, so the    *)
(* ring of the next pointers is the slots 0 .. ring - 1.                   *)
(*                                                                         *)
(* An interrupt runs with interrupts disabled: it is Tick or Yield,        *)
(* Deliver and SwitchCheck, with nothing in between.  What a task does in  *)
(* a system call can be interrupted anywhere, since the gate of int 0x80   *)
(* is a trap gate.                                                         *)
(***************************************************************************)
EXTENDS Integers, FiniteSets

CONSTANTS MaxTasks,   \* MAX_TASKS
          MaxPid,     \* bound: forks that are tried
          Sigs,       \* the signals that are sent, of 1 .. NSIGS - 1
          Handlers    \* what SYS_SIGACTION installs

ASSUME TasksAssumption == /\ MaxTasks \in Nat /\ MaxTasks >= 2
                          /\ MaxPid \in Nat \ {0} /\ Sigs \subseteq 1..31
                          /\ Handlers \subseteq {"SIG_DFL", "SIG_IGN", "fn"}

Slots   == 0 .. MaxTasks - 1
Main    == 0
Idle    == 1
None    == "none"
NoSlot  == -1
SIGINT  == 2
SIGKILL == 9

(* default_action: the signals that end a task without a handler.          *)
Terminates(sig) == sig \notin {14, 17, 18}

(* Where a stack pointer points: at the frame that an interrupt of user    *)
(* mode pushes below rsp0 ("boot" with the first rsp0 of go_userspace,     *)
(* "top" with the one of scheduler_tick), at a frame deeper in the main    *)
(* task's stack, at the frame on the idle task's own stack, or, for the    *)
(* child of a fork, into the C frame of syscall_handler.                   *)
Frames == {None, "boot", "top", "deep", "own", "cframe"}

VARIABLES state, pid, parent, waited, code,   \* the fields of task_t
          pend, handler, insig,   \* signal_pending, signal_handlers, in_signal
          rsp,        \* the saved stack pointer
          ring, half, \* slots in the ring; the last one's next is still NULL
          count, nextpid, cur,    \* task_count, next_pid, current_task
          rsp0,       \* the frame an interrupt of user mode will push
          psw, prsp,  \* pending_switch (a slot), pending_rsp
          pc,         \* what the main task does
          wait,       \* the slot waitpid found
          phase,      \* "run", or the stage of an interrupt
          at,         \* the frame a task was last interrupted in
          cpu,        \* "ok", or how the machine was lost
          ret,        \* what waitpid last returned, and for which pid
          died,       \* history: what each pid died of
          overwritten \* history: a pending switch was replaced unsaved

task   == <<state, pid, parent, waited, code>>
sig    == <<pend, handler, insig>>
sched  == <<ring, half, count, nextpid>>
frames == <<rsp, rsp0, psw, prsp, at>>
hist   == <<ret, died, overwritten>>
vars   == <<task, sig, sched, frames, cur, pc, wait, phase, cpu, hist>>

(* The types of the task table, of the frames isr.asm saves and of the CPU's *)
(* position; no task slot beyond MAX_TASKS is ever filled (scheduler.c:151). *)
TypeOK ==
  /\ state \in [Slots -> {"UNUSED", "READY", "RUNNING", "BLOCKED", "ZOMBIE"}]
  /\ pid \in [Slots -> 0..MaxPid] /\ parent \in [Slots -> 0..MaxPid]
  /\ waited \in [Slots -> BOOLEAN] /\ code \in [Slots -> {0, 1} \cup Sigs]
  /\ pend \in [Slots -> SUBSET Sigs] /\ insig \in [Slots -> BOOLEAN]
  /\ handler \in [Slots -> [Sigs -> {"SIG_DFL"} \cup Handlers]]
  /\ rsp \in [Slots -> Frames] /\ prsp \in Frames
  /\ at \in [Slots -> Frames \ {"cframe"}]
  /\ rsp0 \in {"boot", "top", "own"} /\ psw \in Slots \cup {NoSlot}
  /\ ring \in 2..MaxTasks /\ count \in 2..MaxTasks /\ half \in BOOLEAN
  /\ nextpid \in 2..MaxPid + 1 /\ cur \in 0 .. ring - 1
  /\ pc \in {"user", "kernel", "blocked", "link", "waiting", "exit"} /\ wait \in Slots
  /\ phase \in {"run", "deliver", "switch"}
  /\ cpu \in {"ok", "gpf", "wildframe", "wildring"}
  /\ ret \in [p : 0..MaxPid, code : {-1, 0, 1} \cup Sigs]
  /\ died \in [0..MaxPid -> {-1, 0, 1} \cup Sigs] /\ overwritten \in BOOLEAN

(* scheduler_init, task_create("idle"), go_userspace.                      *)
Init ==
  /\ state = [s \in Slots |-> CASE s = Main -> "RUNNING" [] s = Idle -> "READY"
                                [] OTHER -> "UNUSED"]
  /\ pid = [s \in Slots |-> IF s = Idle THEN 1 ELSE 0]
  /\ parent = [s \in Slots |-> 0] /\ waited = [s \in Slots |-> FALSE]
  /\ code = [s \in Slots |-> 0]
  /\ pend = [s \in Slots |-> {}] /\ insig = [s \in Slots |-> FALSE]
  /\ handler = [s \in Slots |-> [g \in Sigs |-> "SIG_DFL"]]
  /\ rsp = [s \in Slots |-> IF s = Idle THEN "own" ELSE None]
  /\ at = [s \in Slots |-> IF s = Idle THEN "own" ELSE None]
  /\ ring = 2 /\ half = FALSE /\ count = 2 /\ nextpid = 2 /\ cur = Main
  /\ rsp0 = "boot" /\ psw = NoSlot /\ prsp = None
  /\ pc = "user" /\ wait = Main /\ phase = "run" /\ cpu = "ok"
  /\ ret = [p |-> 0, code |-> -1] /\ died = [p \in 0..MaxPid |-> -1]
  /\ overwritten = FALSE

-----------------------------------------------------------------------------
(* scheduler_next, from slot c: the first READY task behind it, or itself. *)
(* A NULL next of a task being linked leads back to task_list.             *)
Behind(c, s) == (s - c) % ring
(* a mutant: the walk leaves out the head of the list, as that of waitpid. *)
NextButHead(st, c) ==
  LET ready == {s \in (1 .. ring - 1) \ {c} : st[s] = "READY"} IN
    IF ready = {} THEN c
    ELSE CHOOSE s \in ready : \A t \in ready : Behind(c, s) <= Behind(c, t)
(* a mutant: the walk takes every task that has not exited.                *)
NextAlive(st, c) ==
  LET alive == {s \in (0 .. ring - 1) \ {c} : st[s] # "ZOMBIE"} IN
    IF alive = {} THEN c
    ELSE CHOOSE s \in alive : \A t \in alive : Behind(c, s) <= Behind(c, t)
SchedulerNext(st, c) ==
  LET ready == {s \in (0 .. ring - 1) \ {c} : st[s] = "READY"} IN
    IF ready = {} THEN c
    ELSE CHOOSE s \in ready : \A t \in ready : Behind(c, s) <= Behind(c, t)

(* a mutant: the task that stops is left RUNNING.                          *)
TickLeavesRunning(st, c) ==
  LET n == SchedulerNext(st, c) IN
    /\ state' = [st EXCEPT ![n] = "RUNNING"] /\ cur' = n
    /\ rsp0' = IF n = Main THEN "top" ELSE "own"
    /\ psw' = c /\ prsp' = rsp[n]
    /\ overwritten' = (overwritten \/ psw # NoSlot)
(* scheduler_tick, on states st and current task c.  The replaced pending  *)
(* switch, if there is one, is never saved.                                *)
SchedulerTick(st, c) ==
  LET n == SchedulerNext(st, c) IN
    IF n = c THEN state' = st /\ cur' = c /\ UNCHANGED <<rsp0, psw, prsp, overwritten>>
    ELSE /\ state' = [st EXCEPT ![c] = IF @ = "RUNNING" THEN "READY" ELSE @,
                                ![n] = "RUNNING"]
         /\ cur' = n
         /\ rsp0' = IF n = Main THEN "top" ELSE "own"
         /\ psw' = c /\ prsp' = rsp[n]
         /\ overwritten' = (overwritten \/ psw # NoSlot)

(* irq_common and handle_interrupt for int 32, from the timer or by        *)
(* software: push a frame, run the tick.  Signals are only looked at when  *)
(* user mode was interrupted.                                              *)
Interrupt(fromUser) ==
  /\ phase = "run" /\ cpu = "ok"
  /\ at' = [at EXCEPT ![cur] = CASE cur # Main -> "own" [] fromUser -> rsp0
                                 [] OTHER -> "deep"]
  /\ SchedulerTick(state, cur)
  /\ phase' = IF fromUser THEN "deliver" ELSE "switch"
  /\ UNCHANGED <<pid, parent, waited, code, sig, sched, rsp, pc, wait, cpu,
                 ret, died>>

Tick == Interrupt(cur = Main /\ pc = "user")

-----------------------------------------------------------------------------
(* signal_deliver acts on current_task, which the tick may just have       *)
(* changed, with the frame of the task it interrupted.                     *)
Deliverable(s) ==
  {g \in pend[s] : ~(\/ handler[s][g] = "SIG_IGN"
                     \/ handler[s][g] = "SIG_DFL" /\ ~Terminates(g))}
FirstSig(s)   == CHOOSE g \in Deliverable(s) : \A h \in Deliverable(s) : g <= h

(* sys_exit in the signal path: the task becomes a zombie and int 32 runs  *)
(* inside the interrupt, on the same stack.  Some task is READY then: the  *)
(* one that the outer tick switched away from.                             *)
ExitOn(g, pends) ==
  /\ code' = [code EXCEPT ![cur] = g]
  /\ died' = [died EXCEPT ![pid[cur]] = g]
  /\ pend' = [pend EXCEPT ![cur] = pends]
  /\ SchedulerTick([state EXCEPT ![cur] = "ZOMBIE"], cur)
  /\ phase' = "switch"
  /\ UNCHANGED <<pid, parent, waited, handler, insig, sched, rsp, at, pc, wait,
                 cpu, ret>>

SignalReturn(pends, installed) ==
  /\ pend' = [pend EXCEPT ![cur] = pends]
  /\ insig' = [insig EXCEPT ![cur] = installed]
  /\ phase' = "switch"
  /\ UNCHANGED <<task, handler, sched, frames, cur, pc, wait, cpu, hist>>

(* Its first test: pid 0 is the main task, or one that was reaped.         *)
(* a mutant: it lets a signal through that the task wants to catch.        *)
ExemptUnlessCaught ==
  pid[cur] = 0 /\ \A g \in pend[cur] \ {SIGKILL} : handler[cur][g] # "fn"
Exempt == pid[cur] = 0

Deliver ==
  /\ phase = "deliver"
  /\ IF Exempt
     THEN SignalReturn(pend[cur], insig[cur])
     ELSE IF SIGKILL \in pend[cur] THEN ExitOn(SIGKILL, {})
     ELSE IF insig[cur] THEN SignalReturn(pend[cur], TRUE)
     ELSE IF Deliverable(cur) = {} THEN SignalReturn({}, FALSE)
     ELSE LET g == FirstSig(cur) left == {h \in pend[cur] : h > g} IN
            IF handler[cur][g] = "SIG_DFL" THEN ExitOn(g, left)
            ELSE SignalReturn(left, TRUE)

(* switch_check: save the stack pointer in the task that stops, load the   *)
(* one of the task that starts, and pop a frame there.  A frame that is    *)
(* not the one the task was interrupted in is another program state; a C   *)
(* frame of the kernel is no frame for iretq, which faults.                *)
(* a mutant: the stack pointer is not saved.                               *)
SwitchUnsaved ==
  /\ phase = "switch"
  /\ phase' = "run" /\ psw' = NoSlot /\ prsp' = None
  /\ cpu' = IF psw = NoSlot THEN "ok"
            ELSE CASE prsp = "cframe" -> "gpf" [] prsp = at[cur] -> "ok"
                   [] OTHER -> "wildframe"
  /\ UNCHANGED <<task, sig, sched, rsp, rsp0, at, cur, pc, wait, hist>>
SwitchCheck ==
  /\ phase = "switch"
  /\ rsp' = IF psw = NoSlot THEN rsp ELSE [rsp EXCEPT ![psw] = at[psw]]
  /\ phase' = "run" /\ psw' = NoSlot /\ prsp' = None
  /\ cpu' = IF psw = NoSlot THEN "ok"
            ELSE CASE prsp = "cframe" -> "gpf" [] prsp = at[cur] -> "ok"
                   [] OTHER -> "wildframe"
  /\ UNCHANGED <<task, sig, sched, rsp0, at, cur, pc, wait, hist>>

(* Ctrl-C in keyboard_handler: SIGINT to every task that is no zombie and  *)
(* whose pid is not 0.  Unlike the scheduler it does not expect a NULL     *)
(* next, and reads low memory as a task.                                   *)
CtrlC ==
  /\ phase = "run" /\ cpu = "ok" /\ SIGINT \in Sigs
  /\ IF half THEN cpu' = "wildring" /\ UNCHANGED pend
     ELSE /\ pend' = [s \in Slots |-> IF /\ s < ring /\ pid[s] # 0
                                         /\ state[s] # "ZOMBIE"
                                      THEN pend[s] \cup {SIGINT} ELSE pend[s]]
          /\ UNCHANGED cpu
  /\ UNCHANGED <<task, handler, insig, sched, frames, cur, pc, wait, phase,
                 hist>>

-----------------------------------------------------------------------------
(* The system calls of the main task.                                      *)
Call(at_pc) == phase = "run" /\ cpu = "ok" /\ cur = Main /\ pc = at_pc

(* Any other call: it spends time in the kernel, and may hlt or block      *)
(* there.                                                                  *)
Enter  == /\ Call("user") /\ pc' = "kernel"
          /\ UNCHANGED <<task, sig, sched, frames, cur, wait, phase, cpu, hist>>
Leave  == /\ Call("kernel") /\ pc' = "user"
          /\ UNCHANGED <<task, sig, sched, frames, cur, wait, phase, cpu, hist>>

(* task_block, in the loops of pipe_read on an empty and pipe_write on a   *)
(* full pipe.  The int 32 behind it is Yield; a tick may come first.  When *)
(* int 32 finds no other task it returns, and the loop blocks again: the   *)
(* pipe has not changed, since nobody else makes a system call.            *)
Block  == /\ Call("kernel") /\ pc' = "blocked"
          /\ state' = [state EXCEPT ![Main] = "BLOCKED"]
          /\ UNCHANGED <<pid, parent, waited, code, sig, sched, frames, cur, wait,
                         phase, cpu, hist>>

(* The stack pointer that fork gives the child: that of the parent inside  *)
(* syscall_handler.                                                        *)
(* a mutant: that of the frame r, on the child's own stack.                *)
FrameOfR  == "own"
ChildRsp  == "cframe"

(* No slot is ever given back.                                             *)
Full        == count >= MaxTasks

(* sys_fork: fill the slot; memory may be missing for the stack or for the *)
(* page tables.                                                            *)
Fork ==
  /\ Call("user") /\ nextpid <= MaxPid
  /\ IF Full THEN UNCHANGED <<task, sig, sched, frames, pc>>
     ELSE \E out \in {"linked", "noheap", "nopages"} :
       /\ state' = [state EXCEPT ![count] = IF out = "nopages" THEN "ZOMBIE"
                                            ELSE "READY"]
       /\ pid' = [pid EXCEPT ![count] = nextpid]
       /\ parent' = [parent EXCEPT ![count] = pid[cur]]
       /\ waited' = [waited EXCEPT ![count] = FALSE]
       /\ code' = [code EXCEPT ![count] = 0]
       /\ handler' = [handler EXCEPT ![count] = handler[cur]]
       /\ pend' = [pend EXCEPT ![count] = {}]
       /\ insig' = [insig EXCEPT ![count] = FALSE]
       /\ nextpid' = nextpid + 1
       /\ rsp' = [rsp EXCEPT ![count] = ChildRsp]
       /\ at' = [at EXCEPT ![count] = "own"]
       /\ pc' = IF out = "linked" THEN "link" ELSE "user"
       /\ UNCHANGED <<ring, half, count, rsp0, psw, prsp>>
  /\ UNCHANGED <<cur, wait, phase, cpu, hist>>

(* Its end: last->next = child; child->next = task_list; task_count++.     *)
Link ==
  /\ Call("link")
  /\ IF half THEN half' = FALSE /\ count' = count + 1 /\ pc' = "user" /\ UNCHANGED ring
     ELSE half' = TRUE /\ ring' = ring + 1 /\ UNCHANGED <<count, pc>>
  /\ UNCHANGED <<task, sig, nextpid, frames, cur, wait, phase, cpu, hist>>

(* sys_exit by the main task, and the hlt loop behind it.                  *)
Exit ==
  /\ Call("user")
  /\ state' = [state EXCEPT ![Main] = "ZOMBIE"] /\ code' = [code EXCEPT ![Main] = 1]
  /\ pc' = "exit"
  /\ UNCHANGED <<pid, parent, waited, sig, sched, frames, cur, wait, phase,
                 cpu, hist>>

(* sys_waitpid: look the child up, yield until it is a zombie, reap it     *)
(* with scheduler_remove_zombie.                                           *)
WaitPid(p) ==
  /\ Call("user")
  /\ LET found == {s \in 1 .. ring - 1 : pid[s] = p /\ parent[s] = pid[Main]} IN
       \/ /\ found = {} /\ ret' = [p |-> p, code |-> -1] /\ UNCHANGED <<wait, pc>>
       \/ \E s \in found : /\ \A t \in found : s <= t
                           /\ wait' = s /\ pc' = "waiting" /\ UNCHANGED ret
  /\ UNCHANGED <<task, sig, sched, frames, cur, phase, cpu, died, overwritten>>
(* scheduler_yield, in waitpid and in task_block.                          *)
Yield == /\ Call("blocked") \/ (Call("waiting") /\ state[wait] # "ZOMBIE")
         /\ Interrupt(FALSE)
(* a mutant: the child is not marked as waited for, and so is not reaped.  *)
ReapUnmarked ==
  /\ Call("waiting") /\ state[wait] = "ZOMBIE" /\ pc' = "user" /\ wait' = Main
  /\ ret' = [p |-> pid[wait], code |-> code[wait]]
  /\ UNCHANGED <<task, sig, sched, frames, cur, phase, cpu, died, overwritten>>
Reap ==
  /\ Call("waiting") /\ state[wait] = "ZOMBIE" /\ pc' = "user" /\ wait' = Main
  /\ IF waited[wait] THEN ret' = [p |-> pid[wait], code |-> -1] /\ UNCHANGED <<waited, pid>>
     ELSE /\ ret' = [p |-> pid[wait], code |-> code[wait]]
          /\ waited' = [waited EXCEPT ![wait] = TRUE]
          /\ pid' = [pid EXCEPT ![wait] = 0]
  /\ UNCHANGED <<state, parent, code, sig, sched, frames, cur, phase,
                 cpu, died, overwritten>>

(* sys_kill, which wakes a blocked task, and SYS_SIGACTION.                *)
Kill(p, g) ==
  /\ Call("user")
  /\ LET hits   == {s \in 0 .. ring - 1 : pid[s] = p /\ state[s] # "ZOMBIE"}
         Hit(s) == s \in hits /\ \A t \in hits : s <= t IN
       /\ pend' = [s \in Slots |-> IF Hit(s) THEN pend[s] \cup {g} ELSE pend[s]]
       /\ state' = [s \in Slots |-> IF Hit(s) /\ state[s] = "BLOCKED" THEN "READY"
                                     ELSE state[s]]
  /\ UNCHANGED <<pid, parent, waited, code, handler, insig, sched, frames, cur, pc, wait, phase,
                 cpu, hist>>
SigAction(g, h) ==
  /\ Call("user") /\ handler' = [handler EXCEPT ![Main][g] = h]
  /\ UNCHANGED <<task, pend, insig, sched, frames, cur, pc, wait, phase,
                 cpu, hist>>

Syscall == \/ Enter \/ Leave \/ Block \/ Fork \/ Link \/ Exit \/ Yield \/ Reap
           \/ \E p \in 0..MaxPid : WaitPid(p) \/ \E g \in Sigs : Kill(p, g)
           \/ \E g \in Sigs, h \in Handlers : SigAction(g, h)

Next == Tick \/ Deliver \/ SwitchCheck \/ CtrlC \/ Syscall

(* The timer never stops, and an interrupt runs to its end.                *)
Spec == Init /\ [][Next]_vars /\ WF_vars(Tick \/ Deliver \/ SwitchCheck)

-----------------------------------------------------------------------------
(* What the machine is doing is known: no interrupt is in progress.        *)
Settled == phase = "run" /\ cpu = "ok"

(* A task always continues where it was interrupted (switch_check loads    *)
(* the frame that was saved last), unless the pending switch of that       *)
(* interrupt was replaced before isr.asm had saved the stack pointer,      *)
(* which only the exit of a signalled task inside the tick can do.         *)
ContinuesWhereStopped == cpu = "wildframe" => overwritten

(* The child of a fork never gets to run: its saved stack pointer is not   *)
(* that of an interrupt frame, and the first switch to it ends in a        *)
(* general protection fault.  (ed.c:7: "always just makes a general        *)
(* protection fault error".)                                               *)
ChildNeverRuns == Settled => cur \in {Main, Idle}

(* Only the current task is RUNNING.  It is not RUNNING itself only in the *)
(* hlt loop of sys_exit and between task_block's store and its switch.     *)
OneRunning ==
  Settled => /\ \A s \in Slots : state[s] = "RUNNING" => s = cur
             /\ \/ state[cur] = "RUNNING"
                \/ cur = Main /\ state[cur] = "ZOMBIE" /\ pc = "exit"
                \/ cur = Main /\ state[cur] = "BLOCKED" /\ pc = "blocked"

(* fork adds the slot behind the last one to the ring, in two writes; what *)
(* waitpid found stays in the ring.                                        *)
RingSound ==
  /\ ring = IF half THEN count + 1 ELSE count
  /\ half => pc = "link"
  /\ pc = "link" => count < MaxTasks
  /\ pc = "waiting" => wait \in 1 .. ring - 1

(* Where current_task and the states stand, in an interrupt too: signals   *)
(* are delivered with the main task stopped or current, and a child is     *)
(* current only inside the interrupt that switches to it.                  *)
RunSound ==
  /\ phase = "run" => psw = NoSlot
  /\ phase # "run" => cpu = "ok"
  /\ phase = "deliver" => pc = "user" /\ psw = IF cur = Main THEN NoSlot ELSE Main
  /\ psw # cur
  /\ \A s \in Slots : state[s] = "RUNNING" => s = cur
  /\ state[Main] = CASE pc = "exit" -> "ZOMBIE" [] pc = "blocked" -> "BLOCKED"
                     [] OTHER -> IF cur = Main THEN "RUNNING" ELSE "READY"
  /\ \A s \in Slots : state[s] = "BLOCKED" => s = Main
  /\ cur # Main => state[cur] = "RUNNING"
  /\ cur \notin {Main, Idle} => cpu # "ok" \/ (phase # "run" /\ psw # NoSlot)

(* What the saved stack pointers point at.  That of the main task is stale *)
(* only until switch_check has saved it, or after a replaced switch.       *)
FrameSound ==
  /\ at[Idle] = "own" /\ rsp[Idle] = "own"
  /\ \A s \in Slots \ {Main, Idle} :
       /\ state[s] \in {"READY", "RUNNING"} => rsp[s] = "cframe"
       /\ psw = s => state[s] = "ZOMBIE"
  /\ psw # NoSlot => prsp = rsp[cur]
  /\ \/ overwritten \/ psw = Main \/ (cur = Main /\ psw = NoSlot)
     \/ rsp[Main] = at[Main]
  /\ cpu = "wildframe" => overwritten

(* Who can have a handler, and who can be inside one.                      *)
HandlerSound ==
  /\ pid[Main] = 0
  /\ \A g \in Sigs : handler[Idle][g] = "SIG_DFL"
  /\ \A s \in Slots : insig[s] => s = cur /\ s \notin {Main, Idle} /\ phase # "deliver"

(* The slots that have a pid, the one that is being linked included.       *)
Members == 0 .. IF pc = "link" THEN count ELSE count - 1
(* A pid names one slot, and a zombie keeps the status until it is reaped. *)
StatusSound ==
  /\ \A s \in Members : pid[s] < nextpid
  /\ \A s, t \in Members : pid[s] = pid[t] /\ pid[s] # 0 => s = t
  /\ \A s \in Members \ {Main} :
       state[s] = "ZOMBIE" /\ ~waited[s] => died[pid[s]] = code[s]

(* The state is well-typed, one task runs, and the ring, the frames, the   *)
(* handlers and the statuses are what every handler leaves to the next:    *)
(* the inductive invariant of scheduler.c and the interrupt path.          *)
TasksInv == /\ TypeOK /\ OneRunning
            /\ RingSound /\ RunSound /\ FrameSound /\ HandlerSound /\ StatusSound

(* No signal handler of a user program is ever entered: the tasks that can *)
(* have one run as pid 0, which signal_deliver skips, and where a handler  *)
(* is installed in the wrong frame the switch that follows faults.         *)
NoHandlerRuns == Settled => \A s \in Slots : ~insig[s]

(* waitpid hands out the status that the child died of, once.              *)
StatusOnce == [][\A p \in 1..MaxPid :
                   ret' # ret /\ ret'.p = p /\ ret'.code # -1
                     => /\ ret'.code = died[p]
                        /\ \A s \in Slots : pid'[s] = p => s >= ring]_vars

(* A main task that blocks on a pipe stays blocked for ever: what would    *)
(* wake it, task_wakeup at the pipe's other end or sys_kill, is a system   *)
(* call, and no task but the blocked one makes any.                        *)
BlockedForEver == [][state[Main] = "BLOCKED" => state'[Main] = "BLOCKED"]_vars

(* Round robin: a main task that was switched away from READY runs again,  *)
(* as long as the machine does.  (One that blocked does not.)              *)
MainRunsAgain == state[Main] = "READY" ~> (cur = Main \/ cpu # "ok")
=============================================================================
