----------------------------- MODULE TasksProofs -----------------------------
(***************************************************************************)
(* For every size of the task pool, number of forks, set of signals and    *)
(* set of handlers: one task runs, a task continues where it stopped       *)
(* unless a pending switch was replaced, the child of a fork never runs,   *)
(* no handler of a user program is entered, and waitpid hands out the      *)
(* status a child died of, once.                                           *)
(***************************************************************************)
EXTENDS Tasks, WellFoundedInduction, TLAPS

(* A nonempty set of naturals has a least element.                         *)
LEMMA MinExists ==
  ASSUME NEW T, T \subseteq Nat, T # {}
  PROVE  \E x \in T : \A y \in T : x <= y
<1>1. PICK R : R = OpToRel(<, Nat)
  OBVIOUS
<1>2. IsWellFoundedOn(R, Nat)
  BY <1>1, NatLessThanWellFounded
<1>3. PICK x \in T : \A y \in T : ~(<<y, x>> \in R)
  BY <1>2, WFMin
<1>4. \A y \in T : y < x => <<y, x>> \in R
  BY <1>1 DEF OpToRel
<1>5. \A y \in T : ~(y < x)
  BY <1>3, <1>4
<1>6. \A y \in Nat, z \in Nat : ~(y < z) => z <= y
  OBVIOUS
<1> QED BY <1>5, <1>6

-----------------------------------------------------------------------------
(* scheduler_next gives a READY task other than c, if the ring has one.    *)
LEMMA NextIsReady ==
  ASSUME TypeOK, NEW st, NEW c \in 0 .. ring - 1
  PROVE  LET n == SchedulerNext(st, c) IN
           /\ n \in 0 .. ring - 1
           /\ n # c => st[n] = "READY"
           /\ n = c => \A s \in 0 .. ring - 1 : s # c => st[s] # "READY"
<1> DEFINE ready == {s \in (0 .. ring - 1) \ {c} : st[s] = "READY"}
           least(s) == \A t \in ready : Behind(c, s) <= Behind(c, t)
<1>1. CASE ready = {}
  BY <1>1 DEF SchedulerNext
<1>2. CASE ready # {}
  <2>1. ring \in Nat /\ ring > 0
    BY DEF TypeOK
  <2>2. \A s \in ready : Behind(c, s) \in Nat
    BY <2>1 DEF Behind
  <2> DEFINE T == {Behind(c, s) : s \in ready}
  <2>3. T \subseteq Nat /\ T # {}
    BY <1>2, <2>2
  <2>4. \E x \in T : \A y \in T : x <= y
    <3> HIDE DEF T
    <3> QED BY <2>3, MinExists
  <2>5. \E s \in ready : least(s)
    BY <2>4
  <2>6. SchedulerNext(st, c) = CHOOSE s \in ready : least(s)
    BY <1>2 DEF SchedulerNext
  <2>7. SchedulerNext(st, c) \in ready
    <3> HIDE DEF ready, least
    <3> QED BY <2>5, <2>6
  <2> QED BY <2>7
<1> QED BY <1>1, <1>2

(* scheduler_tick either finds no other task and changes nothing but what  *)
(* its caller changed, or makes the READY task n current.                  *)
Switched(st, c, n) ==
  /\ n \in 0 .. ring - 1 /\ n # c /\ st[n] = "READY"
  /\ state' = [st EXCEPT ![c] = IF @ = "RUNNING" THEN "READY" ELSE @,
                         ![n] = "RUNNING"]
  /\ cur' = n
  /\ rsp0' = IF n = Main THEN "top" ELSE "own"
  /\ psw' = c /\ prsp' = rsp[n]
  /\ overwritten' = (overwritten \/ psw # NoSlot)
Kept(st, c) ==
  /\ \A s \in 0 .. ring - 1 : s # c => st[s] # "READY"
  /\ state' = st /\ cur' = c /\ UNCHANGED <<rsp0, psw, prsp, overwritten>>
LEMMA TickSwitches ==
  ASSUME TypeOK, NEW st, NEW c \in 0 .. ring - 1, SchedulerTick(st, c)
  PROVE  Kept(st, c) \/ \E n \in Slots : Switched(st, c, n)
<1> DEFINE n == SchedulerNext(st, c)
<1>1. /\ n \in 0 .. ring - 1 /\ n \in Slots
      /\ n # c => st[n] = "READY"
      /\ n = c => \A s \in 0 .. ring - 1 : s # c => st[s] # "READY"
  BY NextIsReady, TasksAssumption DEF TypeOK, Slots
<1>2. CASE n = c
  BY <1>1, <1>2 DEF SchedulerTick, Kept
<1>3. CASE n # c
  <2>1. Switched(st, c, n)
    BY <1>1, <1>3 DEF SchedulerTick, Switched
  <2> QED BY <1>1, <2>1
<1> QED BY <1>2, <1>3

-----------------------------------------------------------------------------
(* The parts of TasksInv that are inductive together.  OneRunning follows. *)
Core == TypeOK /\ RingSound /\ RunSound /\ FrameSound /\ HandlerSound /\ StatusSound

LEMMA RunsOne == Core => OneRunning
BY DEF Core, TypeOK, RunSound, OneRunning, Settled, Slots, Main

LEMMA MembersAreSlots == Core => Members \subseteq Slots
BY TasksAssumption DEF Core, TypeOK, RingSound, Members, Slots

LEMMA InitCore == Init => Core
<1> SUFFICES ASSUME Init PROVE Core
  OBVIOUS
<1>1. TypeOK
  <2>1. /\ state \in [Slots -> {"UNUSED", "READY", "RUNNING", "BLOCKED", "ZOMBIE"}]
        /\ pid \in [Slots -> 0..MaxPid] /\ parent \in [Slots -> 0..MaxPid]
        /\ rsp \in [Slots -> Frames] /\ prsp \in Frames
        /\ at \in [Slots -> Frames \ {"cframe"}]
    BY TasksAssumption DEF Init, Main, Idle, None, Frames
  <2>2. /\ ret \in [p : 0..MaxPid, code : {-1, 0, 1} \cup Sigs]
        /\ died \in [0..MaxPid -> {-1, 0, 1} \cup Sigs]
    BY TasksAssumption DEF Init
  <2>3. /\ waited \in [Slots -> BOOLEAN] /\ code \in [Slots -> {0, 1} \cup Sigs]
        /\ pend \in [Slots -> SUBSET Sigs] /\ insig \in [Slots -> BOOLEAN]
        /\ handler \in [Slots -> [Sigs -> {"SIG_DFL"} \cup Handlers]]
    BY DEF Init
  <2>4. /\ wait \in Slots /\ cur \in 0 .. ring - 1 /\ ring \in 2 .. MaxTasks
        /\ count \in 2 .. MaxTasks /\ nextpid \in 2 .. MaxPid + 1
    BY TasksAssumption DEF Init, Slots, Main
  <2> QED BY <2>1, <2>2, <2>3, <2>4 DEF Init, TypeOK
<1>2. RingSound /\ RunSound /\ FrameSound /\ HandlerSound /\ StatusSound
  BY TasksAssumption DEF Init, Slots, Main, Idle, NoSlot, None, RingSound, RunSound,
     FrameSound, HandlerSound, StatusSound, Members
<1> QED BY <1>1, <1>2 DEF Core

-----------------------------------------------------------------------------
(* The stages of an interrupt.                                             *)

LEMMA InterruptCore ==
  ASSUME Core, NEW u \in BOOLEAN, Interrupt(u), u => cur = Main /\ pc = "user"
  PROVE  Core'
<1> USE DEF Core
<1>1. /\ cur \in 0 .. ring - 1 /\ ring \in 2 .. MaxTasks /\ cur \in Slots
      /\ phase = "run" /\ cpu = "ok" /\ psw = NoSlot /\ cur \in {Main, Idle}
  BY TasksAssumption DEF TypeOK, Interrupt, RunSound, Slots
<1>2. /\ at' = [at EXCEPT ![cur] = CASE cur # Main -> "own" [] u -> rsp0 [] OTHER -> "deep"]
      /\ phase' = (IF u THEN "deliver" ELSE "switch")
      /\ UNCHANGED <<pid, parent, waited, code, pend, handler, insig, ring, half, count,
                     nextpid, rsp, pc, wait, cpu, ret, died>>
  BY DEF Interrupt, sig, sched
<1>3. at' \in [Slots -> Frames \ {"cframe"}]
  BY <1>1, <1>2 DEF TypeOK, Frames
<1>4. Kept(state, cur) \/ \E n \in Slots : Switched(state, cur, n)
  BY <1>1, TickSwitches DEF Interrupt
<1>5. RingSound'
  BY <1>2 DEF RingSound
<1>6. CASE Kept(state, cur)
  <2>1. TypeOK'
    BY <1>2, <1>3, <1>6 DEF TypeOK, Kept
  <2>2. RunSound'
    BY <1>1, <1>2, <1>6 DEF RunSound, Kept, TypeOK, RingSound, Main, Idle, NoSlot, Slots
  <2>3. FrameSound'
    BY <1>1, <1>2, <1>6 DEF FrameSound, Kept, RunSound, TypeOK, Main, Idle, NoSlot, Slots
  <2>4. HandlerSound' /\ StatusSound'
    BY <1>1, <1>2, <1>6 DEF HandlerSound, StatusSound, Kept, Members, RunSound
  <2> QED BY <1>5, <2>1, <2>2, <2>3, <2>4
<1>7. ASSUME NEW n \in Slots, Switched(state, cur, n) PROVE Core'
  <2>1. TypeOK'
    BY <1>1, <1>2, <1>3, <1>7 DEF TypeOK, Switched, Main
  <2>2. /\ n \in 0 .. ring - 1 /\ n # cur /\ state[n] = "READY" /\ cur' = n
        /\ psw' = cur /\ prsp' = rsp[n] /\ overwritten' = overwritten
    BY <1>1, <1>7 DEF Switched, TypeOK
  <2>3. /\ state'[n] = "RUNNING"
        /\ state'[cur] = IF state[cur] = "RUNNING" THEN "READY" ELSE state[cur]
        /\ \A s \in Slots : s # n /\ s # cur => state'[s] = state[s]
    BY <1>1, <1>7, <2>2 DEF Switched, TypeOK
  <2>4. RunSound'
    <3>1. Main \in Slots /\ NoSlot \notin Slots
      BY TasksAssumption, <1>1, <2>2 DEF Slots, Main, NoSlot
    <3> QED BY <1>1, <1>2, <2>2, <2>3, <3>1 DEF RunSound
  <2>5. FrameSound'
    <3>1. at'[Idle] = "own" /\ rsp'[Idle] = "own" /\ cpu' # "wildframe"
      BY <1>1, <1>2 DEF FrameSound, TypeOK, Main, Idle, Slots
    <3>2. \A s \in Slots \ {Main, Idle} :
            /\ state'[s] \in {"READY", "RUNNING"} => rsp'[s] = "cframe"
            /\ psw' = s => state'[s] = "ZOMBIE"
      BY <1>1, <1>2, <2>2, <2>3 DEF FrameSound
    <3>3. prsp' = rsp'[cur']
      BY <1>2, <2>2
    <3>4. \/ overwritten' \/ psw' = Main \/ (cur' = Main /\ psw' = NoSlot)
          \/ rsp'[Main] = at'[Main]
      <4>1. CASE cur = Main
        BY <2>2, <4>1
      <4>2. CASE cur # Main
        <5>1. at'[Main] = at[Main] /\ psw # Main
          BY <1>1, <1>2, <4>2, TasksAssumption DEF TypeOK, Main, Slots, NoSlot
        <5> QED BY <1>1, <1>2, <2>2, <4>2, <5>1 DEF FrameSound
      <4> QED BY <4>1, <4>2
    <3> QED BY <3>1, <3>2, <3>3, <3>4 DEF FrameSound
  <2>6. HandlerSound'
    BY <1>1, <1>2, <2>2 DEF HandlerSound, RunSound
  <2>7. StatusSound'
    <3>1. \A s \in Slots : state'[s] = "ZOMBIE" => state[s] = "ZOMBIE"
      BY <1>1, <2>2, <2>3
    <3>2. Members \subseteq Slots
      BY MembersAreSlots
    <3> QED BY <1>2, <3>1, <3>2 DEF StatusSound, Members
  <2> QED BY <1>5, <2>1, <2>4, <2>5, <2>6, <2>7
<1> QED BY <1>4, <1>6, <1>7

(* sys_exit in the signal path, of a task that is not the main one.        *)
LEMMA ExitOnCore ==
  ASSUME Core, NEW g \in Sigs, NEW ps \in SUBSET Sigs, phase = "deliver",
         pid[cur] # 0, ExitOn(g, ps)
  PROVE  Core'
<1> USE DEF Core
<1> DEFINE st == [state EXCEPT ![cur] = "ZOMBIE"]
<1>1. /\ cur \in 0 .. ring - 1 /\ ring \in 2 .. MaxTasks /\ cur \in Slots
      /\ cpu = "ok" /\ cur # Main /\ psw = Main /\ pc = "user" /\ state[Main] = "READY"
      /\ state[cur] = "RUNNING"
  BY TasksAssumption DEF TypeOK, RunSound, HandlerSound, Slots
<1>2. /\ code' = [code EXCEPT ![cur] = g] /\ died' = [died EXCEPT ![pid[cur]] = g]
      /\ pend' = [pend EXCEPT ![cur] = ps] /\ phase' = "switch"
      /\ UNCHANGED <<pid, parent, waited, handler, insig, ring, half, count,
                     nextpid, rsp, at, pc, wait, cpu, ret>>
  BY DEF ExitOn, sched
<1>3. Kept(st, cur) \/ \E n \in Slots : Switched(st, cur, n)
  BY <1>1, TickSwitches DEF ExitOn
<1>4. ~Kept(st, cur)
  BY <1>1 DEF Kept, TypeOK, Main, Slots
<1>5. PICK n \in Slots : Switched(st, cur, n)
  BY <1>3, <1>4
<1>6. /\ n # cur /\ n \in 0 .. ring - 1 /\ cur' = n
      /\ rsp0' = (IF n = Main THEN "top" ELSE "own") /\ psw' = cur /\ prsp' = rsp[n]
      /\ overwritten' = (overwritten \/ psw # NoSlot)
  BY <1>5 DEF Switched
<1>6b. overwritten' /\ overwritten' \in BOOLEAN
  <2>1. psw # NoSlot
    BY <1>1 DEF Main, NoSlot
  <2> QED BY <1>6, <2>1
<1>7. /\ state' \in [Slots -> {"UNUSED", "READY", "RUNNING", "BLOCKED", "ZOMBIE"}]
      /\ state[n] = "READY" /\ state'[n] = "RUNNING" /\ state'[cur] = "ZOMBIE"
      /\ \A s \in Slots : s # n /\ s # cur => state'[s] = state[s]
  <2>1. /\ st \in [Slots -> {"UNUSED", "READY", "RUNNING", "BLOCKED", "ZOMBIE"}]
        /\ st[cur] = "ZOMBIE" /\ \A s \in Slots : s # cur => st[s] = state[s]
    BY <1>1 DEF TypeOK
  <2> HIDE DEF st
  <2> QED BY <1>1, <1>5, <1>6, <2>1 DEF Switched
<1>8. TypeOK'
  BY <1>1, <1>2, <1>6, <1>7, <1>6b DEF TypeOK, Main
<1>9. RingSound' /\ RunSound'
  <2>1. RingSound'
    BY <1>2 DEF RingSound
  <2>2. Main \in Slots /\ NoSlot \notin Slots
    BY TasksAssumption DEF Main, NoSlot, Slots
  <2>3. \A s \in Slots : /\ state'[s] = "RUNNING" => s = cur'
                        /\ state'[s] = "BLOCKED" => s = Main
    BY <1>1, <1>6, <1>7 DEF RunSound
  <2>4. state'[Main] = IF cur' = Main THEN "RUNNING" ELSE "READY"
    BY <1>1, <1>6, <1>7, <2>2
  <2> QED BY <1>1, <1>2, <1>6, <1>7, <2>1, <2>2, <2>3, <2>4 DEF RunSound
<1>10. FrameSound'
  BY <1>1, <1>2, <1>6, <1>7, <1>6b DEF FrameSound, TypeOK, Main, Idle, NoSlot, Slots
<1>11. HandlerSound'
  BY <1>1, <1>2, <1>6 DEF HandlerSound, TypeOK
<1>12. StatusSound'
  <2>1. cur \in Members /\ \A s \in Members : s # cur => pid[s] # pid[cur]
    BY <1>1 DEF StatusSound, RingSound, TypeOK, Members
  <2>2. pid \in [Slots -> 0 .. MaxPid] /\ Members \subseteq Slots
    BY MembersAreSlots DEF TypeOK
  <2>3. ASSUME NEW s \in Members \ {Main}, state'[s] = "ZOMBIE", ~waited[s]
        PROVE  died'[pid[s]] = code'[s]
    BY <1>1, <1>2, <1>6, <1>7, <1>6b, <2>1, <2>2, <2>3 DEF StatusSound, TypeOK
  <2> QED BY <1>2, <2>3 DEF StatusSound, Members
<1> QED BY <1>8, <1>9, <1>10, <1>11, <1>12

(* signal_deliver comes back; a handler was installed only for a child.    *)
LEMMA SignalReturnCore ==
  ASSUME Core, NEW ps \in SUBSET Sigs, NEW i \in BOOLEAN, phase = "deliver",
         i => cur \notin {Main, Idle}, SignalReturn(ps, i)
  PROVE  Core'
<1> USE DEF Core, SignalReturn, task, sched, frames, hist
<1>1. TypeOK'
  <2>1. pend' \in [Slots -> SUBSET Sigs] /\ insig' \in [Slots -> BOOLEAN]
    BY DEF TypeOK
  <2>2. phase' \in {"run", "deliver", "switch"}
    OBVIOUS
  <2> QED BY <2>1, <2>2 DEF TypeOK
<1>2. RingSound' /\ RunSound' /\ FrameSound'
  BY DEF RingSound, RunSound, FrameSound
<1>3. HandlerSound' /\ StatusSound'
  BY DEF HandlerSound, StatusSound, Members, TypeOK
<1> QED BY <1>1, <1>2, <1>3

(* The signal that signal_deliver acts on is one of the pending ones.      *)
LEMMA FirstSigPends ==
  ASSUME TypeOK, NEW s \in Slots, Deliverable(s) # {}
  PROVE  FirstSig(s) \in Deliverable(s)
<1> DEFINE T == Deliverable(s)
<1>0. pend[s] \subseteq Sigs /\ Sigs \subseteq Nat
  BY TasksAssumption DEF TypeOK
<1>1. T \subseteq Nat /\ T # {}
  BY <1>0 DEF Deliverable
<1>2. FirstSig(s) = CHOOSE g \in T : \A h \in T : g <= h
  BY DEF FirstSig
<1> HIDE DEF T
<1>3. \E x \in T : \A y \in T : x <= y
  BY <1>1, MinExists
<1>4. FirstSig(s) \in T
  BY <1>2, <1>3
<1> QED BY <1>4 DEF T

LEMMA DeliverCore == ASSUME Core, Deliver PROVE Core'
<1>1. /\ cur \in Slots /\ phase = "deliver" /\ pend[cur] \in SUBSET Sigs
      /\ \A s \in Slots : ~insig[s]
  BY TasksAssumption DEF Core, TypeOK, HandlerSound, Deliver, Slots
<1>2. CASE Exempt
  <2>1. SignalReturn(pend[cur], insig[cur]) /\ insig[cur] \in BOOLEAN
    BY <1>1, <1>2 DEF Deliver, Core, TypeOK
  <2> QED BY <1>1, <2>1, SignalReturnCore
<1>3. CASE ~Exempt /\ SIGKILL \in pend[cur]
  <2>1. ExitOn(SIGKILL, {}) /\ SIGKILL \in Sigs /\ pid[cur] # 0
    BY <1>1, <1>3 DEF Deliver, Exempt
  <2> QED BY <1>1, <2>1, ExitOnCore
<1>4. CASE ~Exempt /\ SIGKILL \notin pend[cur] /\ Deliverable(cur) = {}
  <2>1. SignalReturn({}, FALSE)
    BY <1>1, <1>4 DEF Deliver
  <2> QED BY <1>1, <2>1, SignalReturnCore
<1>5. CASE ~Exempt /\ SIGKILL \notin pend[cur] /\ Deliverable(cur) # {}
  <2> DEFINE g == FirstSig(cur)
             left == {h \in pend[cur] : h > g}
  <2>1. g \in Deliverable(cur)
    BY <1>1, <1>5, FirstSigPends DEF Core
  <2>2. g \in Sigs /\ left \in SUBSET Sigs /\ pid[cur] # 0
    BY <1>1, <1>5, <2>1 DEF Deliverable, Exempt
  <2>3. IF handler[cur][g] = "SIG_DFL" THEN ExitOn(g, left) ELSE SignalReturn(left, TRUE)
    BY <1>1, <1>5 DEF Deliver
  <2> HIDE DEF g, left
  <2>4. CASE handler[cur][g] = "SIG_DFL"
    BY <1>1, <2>2, <2>3, <2>4, ExitOnCore
  <2>5. CASE handler[cur][g] # "SIG_DFL"
    <3>1. cur \notin {Main, Idle}
      BY <2>2, <2>5 DEF Core, HandlerSound
    <3> QED BY <1>1, <2>2, <2>3, <2>5, <3>1, SignalReturnCore
  <2> QED BY <2>4, <2>5
<1> QED BY <1>2, <1>3, <1>4, <1>5

(* The frame that is loaded is the one that was saved last.                *)
LEMMA SwitchCheckCore == ASSUME Core, SwitchCheck PROVE Core'
<1> USE DEF Core
<1>1. /\ phase = "switch" /\ phase' = "run" /\ psw' = NoSlot /\ prsp' = None
      /\ rsp' = (IF psw = NoSlot THEN rsp ELSE [rsp EXCEPT ![psw] = at[psw]])
      /\ cpu' = (IF psw = NoSlot THEN "ok"
                 ELSE CASE prsp = "cframe" -> "gpf" [] prsp = at[cur] -> "ok"
                        [] OTHER -> "wildframe")
      /\ UNCHANGED <<state, pid, parent, waited, code, pend, handler, insig, ring, half,
                     count, nextpid, rsp0, at, cur, pc, wait, ret, died, overwritten>>
  BY DEF SwitchCheck, task, sig, sched, hist
<1>2. cur \in Slots /\ Main \in Slots /\ Idle \in Slots /\ NoSlot \notin Slots /\ Main # Idle
  BY TasksAssumption DEF TypeOK, Slots, Main, Idle, NoSlot
<1>3. /\ rsp' \in [Slots -> Frames] /\ cpu' \in {"ok", "gpf", "wildframe", "wildring"}
      /\ None \in Frames
  <2>1. cpu' \in {"ok", "gpf", "wildframe", "wildring"}
    BY <1>1
  <2>2. rsp' \in [Slots -> Frames]
    BY <1>1, <1>2 DEF TypeOK
  <2>3. None \in Frames
    BY DEF Frames
  <2> QED BY <2>1, <2>2, <2>3
<1>4. TypeOK'
  BY <1>1, <1>3 DEF TypeOK
<1>5. \A s \in Slots : rsp'[s] = IF psw = s THEN at[s] ELSE rsp[s]
  BY <1>1, <1>2 DEF TypeOK
<1>6. psw # NoSlot /\ cur \notin {Main, Idle} => cpu' = "gpf"
  <2>1. at[cur] # "cframe"
    BY <1>2 DEF TypeOK
  <2> QED BY <1>1, <1>2, <2>1 DEF RunSound, FrameSound
<1>7. cpu' = "wildframe" => overwritten
  <2> SUFFICES ASSUME psw # NoSlot, prsp # "cframe", prsp # at[cur] PROVE overwritten
    BY <1>1
  <2>1. cur = Main
    BY <1>2 DEF RunSound, FrameSound
  <2> QED BY <1>2, <2>1 DEF FrameSound, RunSound
<1>8. RingSound' /\ RunSound'
  BY <1>1, <1>2, <1>6 DEF RingSound, RunSound
<1>9. FrameSound'
  <2>1. \A s \in Slots \ {Main, Idle} :
          state[s] \in {"READY", "RUNNING"} => rsp'[s] = "cframe"
    BY <1>5 DEF FrameSound
  <2>2. at[Idle] = "own" /\ rsp'[Idle] = "own"
    BY <1>2, <1>5 DEF FrameSound
  <2>3. \/ overwritten \/ (cur = Main /\ psw = NoSlot) \/ rsp'[Main] = at[Main]
    BY <1>2, <1>5 DEF FrameSound
  <2> QED BY <1>1, <1>2, <1>7, <2>1, <2>2, <2>3 DEF FrameSound
<1>10. HandlerSound' /\ StatusSound'
  BY <1>1 DEF HandlerSound, StatusSound, Members
<1> QED BY <1>4, <1>8, <1>9, <1>10

LEMMA CtrlCCore == ASSUME Core, CtrlC PROVE Core'
<1> USE DEF Core, CtrlC, task, sched, frames, hist
<1>1. TypeOK'
  <2>1. \A s \in Slots : /\ pend[s] \in SUBSET Sigs
                         /\ pend[s] \cup {SIGINT} \in SUBSET Sigs
    BY DEF TypeOK
  <2>2. CASE half
    BY <2>2 DEF TypeOK
  <2>3. CASE ~half
    <3>1. pend' \in [Slots -> SUBSET Sigs]
      BY <2>1, <2>3
    <3> QED BY <2>3, <3>1 DEF TypeOK
  <2> QED BY <2>2, <2>3
<1>2. RingSound' /\ RunSound' /\ FrameSound'
  BY DEF RingSound, RunSound, FrameSound
<1>3. HandlerSound' /\ StatusSound'
  BY DEF HandlerSound, StatusSound, Members
<1> QED BY <1>1, <1>2, <1>3

-----------------------------------------------------------------------------
(* The system calls.                                                       *)

(* A call that changes only what the main task does.                       *)
LEMMA MoveCore == ASSUME Core, Enter \/ Leave PROVE Core'
<1> USE DEF Core, Enter, Leave, Call, task, sig, sched, frames, hist
<1>1. TypeOK' /\ RingSound'
  BY DEF TypeOK, RingSound
<1>2. RunSound' /\ FrameSound'
  BY DEF RunSound, FrameSound
<1>3. HandlerSound' /\ StatusSound'
  BY DEF HandlerSound, StatusSound, Members
<1> QED BY <1>1, <1>2, <1>3

LEMMA ForkCore == ASSUME Core, Fork PROVE Core'
<1> USE DEF Core
<1>1. CASE Full
  BY <1>1 DEF Fork, task, sig, sched, frames, hist, TypeOK, RingSound, RunSound,
     FrameSound, HandlerSound, StatusSound, Members
<1>2. CASE ~Full
  <2>1. /\ phase = "run" /\ cpu = "ok" /\ cur = Main /\ pc = "user" /\ nextpid <= MaxPid
        /\ UNCHANGED <<cur, wait, phase, cpu, ret, died, overwritten>>
        /\ UNCHANGED <<ring, half, count, rsp0, psw, prsp>>
        /\ nextpid' = nextpid + 1
    BY <1>2 DEF Fork, Call, hist
  <2>2. PICK out \in {"linked", "noheap", "nopages"} :
          /\ state' = [state EXCEPT ![count] = IF out = "nopages" THEN "ZOMBIE" ELSE "READY"]
          /\ pc' = IF out = "linked" THEN "link" ELSE "user"
    BY <1>2 DEF Fork
  <2>3. /\ pid' = [pid EXCEPT ![count] = nextpid]
        /\ parent' = [parent EXCEPT ![count] = pid[cur]]
        /\ waited' = [waited EXCEPT ![count] = FALSE]
        /\ code' = [code EXCEPT ![count] = 0]
        /\ handler' = [handler EXCEPT ![count] = handler[cur]]
        /\ pend' = [pend EXCEPT ![count] = {}]
        /\ insig' = [insig EXCEPT ![count] = FALSE]
        /\ rsp' = [rsp EXCEPT ![count] = "cframe"]
        /\ at' = [at EXCEPT ![count] = "own"]
    BY <1>2 DEF Fork, ChildRsp
  <2>4. /\ count \in Slots /\ count >= 2 /\ count \notin {Main, Idle} /\ ring = count
        /\ Main \in Slots /\ Idle \in Slots /\ count \notin 0 .. count - 1 /\ ~half
        /\ count < MaxTasks /\ NoSlot \notin Slots
    BY <1>2, <2>1, TasksAssumption DEF TypeOK, RingSound, Full, Slots, Main, Idle, NoSlot
  <2>5. TypeOK'
    <3>1. state' \in [Slots -> {"UNUSED", "READY", "RUNNING", "BLOCKED", "ZOMBIE"}]
      BY <2>2 DEF TypeOK
    <3>2. /\ pid' \in [Slots -> 0..MaxPid] /\ parent' \in [Slots -> 0..MaxPid]
          /\ waited' \in [Slots -> BOOLEAN] /\ insig' \in [Slots -> BOOLEAN]
      <4>1. nextpid \in 0 .. MaxPid /\ pid[cur] \in 0 .. MaxPid
        BY <2>1, <2>4, TasksAssumption DEF TypeOK
      <4> QED BY <2>3, <4>1 DEF TypeOK
    <3>5. /\ code' \in [Slots -> {0, 1} \cup Sigs] /\ pend' \in [Slots -> SUBSET Sigs]
          /\ handler' \in [Slots -> [Sigs -> {"SIG_DFL"} \cup Handlers]]
      BY <2>1, <2>3, <2>4 DEF TypeOK
    <3>3. rsp' \in [Slots -> Frames] /\ at' \in [Slots -> Frames \ {"cframe"}]
      BY <2>3 DEF TypeOK, Frames
    <3>4. nextpid' \in 2 .. MaxPid + 1
      BY <2>1, TasksAssumption DEF TypeOK
    <3> QED BY <2>1, <2>2, <3>1, <3>2, <3>3, <3>4, <3>5 DEF TypeOK
  <2>6. RingSound' /\ RunSound'
    BY <2>1, <2>2, <2>4 DEF RingSound, RunSound, TypeOK
  <2>7. FrameSound'
    BY <2>1, <2>2, <2>3, <2>4 DEF FrameSound, RunSound, TypeOK
  <2>8. HandlerSound'
    BY <2>1, <2>3, <2>4 DEF HandlerSound, TypeOK
  <2>9. StatusSound'
    <3>1. /\ Members = 0 .. count - 1 /\ Members' \subseteq 0 .. count
          /\ 0 .. count \subseteq Slots /\ \A s \in 0 .. count - 1 : s \in Slots /\ s # count
      BY <2>1, <2>2, <2>4, TasksAssumption DEF Members, TypeOK, Slots
    <3>2. /\ \A s \in 0 .. count - 1 : /\ pid'[s] = pid[s] /\ state'[s] = state[s]
                                       /\ waited'[s] = waited[s] /\ code'[s] = code[s]
          /\ pid'[count] = nextpid
      BY <2>2, <2>3, <2>4, <3>1 DEF TypeOK
    <3>3. \A s \in 0 .. count : s = count \/ s \in 0 .. count - 1
      BY <2>4 DEF TypeOK
    <3>4. /\ \A s \in 0 .. count - 1 : pid[s] < nextpid /\ pid[s] \in Int
          /\ nextpid \in Int
      BY <3>1 DEF StatusSound, TypeOK
    <3>5. \A s \in Members' : pid'[s] < nextpid'
      <4>1. \A s \in 0 .. count - 1 : pid[s] < nextpid + 1
        BY <3>4
      <4>2. \A s \in 0 .. count : pid'[s] < nextpid + 1
        BY <3>2, <3>3, <3>4, <4>1
      <4> QED BY <2>1, <3>1, <4>2
    <3>6. \A s, t \in Members' : pid'[s] = pid'[t] /\ pid'[s] # 0 => s = t
      <4>1. \A s, t \in 0 .. count - 1 : pid[s] = pid[t] /\ pid[s] # 0 => s = t
        BY <3>1 DEF StatusSound
      <4>2. \A s \in 0 .. count - 1 : pid'[s] # pid'[count]
        BY <3>2, <3>4
      <4>3. ASSUME NEW s \in 0 .. count, NEW t \in 0 .. count,
                   pid'[s] = pid'[t], pid'[s] # 0
            PROVE  s = t
        BY <3>2, <3>3, <4>1, <4>2, <4>3
      <4> QED BY <3>1, <4>3
    <3>7. ASSUME NEW s \in Members' \ {Main}, state'[s] = "ZOMBIE", ~waited'[s]
          PROVE  died[pid'[s]] = code'[s]
      <4>1. s \in 0 .. count - 1
        <5>1. CASE out = "linked"
          <6>1. state'[count] = "READY"
            BY <2>2, <2>4, <5>1 DEF TypeOK
          <6> QED BY <3>1, <3>3, <3>7, <6>1
        <5>2. CASE out # "linked"
          BY <2>1, <2>2, <5>2 DEF Members
        <5> QED BY <5>1, <5>2
      <4> QED BY <3>1, <3>2, <3>7, <4>1 DEF StatusSound
    <3> QED BY <2>1, <3>5, <3>6, <3>7 DEF StatusSound
  <2> QED BY <2>5, <2>6, <2>7, <2>8, <2>9
<1> QED BY <1>1, <1>2

LEMMA LinkCore == ASSUME Core, Link PROVE Core'
<1> USE DEF Core
<1>1. /\ phase = "run" /\ cpu = "ok" /\ cur = Main /\ pc = "link" /\ count < MaxTasks
      /\ IF half THEN half' = FALSE /\ count' = count + 1 /\ pc' = "user" /\ UNCHANGED ring
         ELSE half' = TRUE /\ ring' = ring + 1 /\ UNCHANGED <<count, pc>>
      /\ UNCHANGED <<state, pid, parent, waited, code, pend, handler, insig, nextpid, rsp,
                     rsp0, psw, prsp, at, cur, wait, phase, cpu, ret, died, overwritten>>
  BY DEF Link, Call, task, sig, frames, hist, RingSound
<1>2. /\ ring \in 2 .. MaxTasks /\ count \in 2 .. MaxTasks /\ MaxTasks \in Nat
      /\ ring = IF half THEN count + 1 ELSE count
  BY TasksAssumption DEF TypeOK, RingSound
<1>3. /\ ring' \in 2 .. MaxTasks /\ count' \in 2 .. MaxTasks /\ half' \in BOOLEAN
      /\ cur \in 0 .. ring' - 1
  <2>1. cur \in 0 .. ring - 1
    BY DEF TypeOK
  <2>2. CASE half
    BY <1>1, <1>2, <2>1, <2>2
  <2>3. CASE ~half
    BY <1>1, <1>2, <2>1, <2>3
  <2> QED BY <2>2, <2>3
<1>4. TypeOK' /\ RingSound'
  <2>1. TypeOK'
    BY <1>1, <1>3 DEF TypeOK
  <2>2. RingSound'
    BY <1>1, <1>2 DEF RingSound
  <2> QED BY <2>1, <2>2
<1>5. RunSound' /\ FrameSound' /\ HandlerSound'
  BY <1>1 DEF RunSound, FrameSound, HandlerSound
<1>6. StatusSound'
  <2>1. Members' = Members
    BY <1>1, <1>2 DEF Members
  <2> QED BY <1>1, <2>1 DEF StatusSound
<1> QED BY <1>4, <1>5, <1>6

LEMMA ExitCore == ASSUME Core, Exit PROVE Core'
<1> USE DEF Core, Exit, Call, sig, sched, frames, hist
<1>1. Main \in Slots /\ NoSlot \notin Slots
  BY TasksAssumption DEF Slots, Main, NoSlot
<1>2. TypeOK'
  BY <1>1 DEF TypeOK
<1>3. RingSound' /\ RunSound'
  BY <1>1 DEF RingSound, RunSound, TypeOK
<1>4. FrameSound' /\ HandlerSound'
  BY <1>1 DEF FrameSound, HandlerSound, TypeOK
<1>5. StatusSound'
  BY <1>1, MembersAreSlots DEF StatusSound, Members, TypeOK
<1> QED BY <1>2, <1>3, <1>4, <1>5

LEMMA WaitPidCore == ASSUME Core, NEW p \in 0 .. MaxPid, WaitPid(p) PROVE Core'
<1> USE DEF Core
<1>1. /\ phase = "run" /\ cpu = "ok" /\ cur = Main /\ pc = "user"
      /\ UNCHANGED <<task, sig, sched, frames, cur, phase, cpu, died, overwritten>>
      /\ \/ ret' = [p |-> p, code |-> -1] /\ UNCHANGED <<wait, pc>>
         \/ wait' \in 1 .. ring - 1 /\ pc' = "waiting" /\ UNCHANGED ret
  BY DEF WaitPid, Call
<1> USE DEF task, sig, sched, frames
<1>2. TypeOK'
  <2>1. wait' \in Slots
    BY <1>1, TasksAssumption DEF TypeOK, Slots
  <2>2. ret' \in [p : 0..MaxPid, code : {-1, 0, 1} \cup Sigs]
    BY <1>1 DEF TypeOK
  <2> QED BY <1>1, <2>1, <2>2 DEF TypeOK
<1>3. RingSound' /\ RunSound' /\ FrameSound'
  BY <1>1 DEF RingSound, RunSound, FrameSound
<1>4. HandlerSound' /\ StatusSound'
  BY <1>1 DEF HandlerSound, StatusSound, Members
<1> QED BY <1>2, <1>3, <1>4

LEMMA ReapCore == ASSUME Core, Reap PROVE Core'
<1> USE DEF Core
<1>1. /\ phase = "run" /\ cpu = "ok" /\ cur = Main /\ pc = "waiting" /\ pc' = "user"
      /\ wait' = Main /\ wait \in 1 .. ring - 1 /\ wait \in Slots /\ Main \in Slots
      /\ UNCHANGED <<state, parent, code, sig, sched, frames, cur, phase, cpu, died,
                     overwritten>>
  BY TasksAssumption DEF Reap, Call, RingSound, TypeOK, Slots, Main
<1>2. \/ UNCHANGED <<waited, pid>>
      \/ waited' = [waited EXCEPT ![wait] = TRUE] /\ pid' = [pid EXCEPT ![wait] = 0]
  BY DEF Reap
<1>3. ret' \in [p : 0..MaxPid, code : {-1, 0, 1} \cup Sigs]
  <2>1. pid[wait] \in 0 .. MaxPid /\ code[wait] \in {-1, 0, 1} \cup Sigs
    BY <1>1 DEF TypeOK
  <2> QED BY <2>1 DEF Reap
<1> USE DEF sig, sched, frames
<1>4. TypeOK'
  <2>1. pid' \in [Slots -> 0..MaxPid] /\ waited' \in [Slots -> BOOLEAN]
    <3>1. 0 \in 0 .. MaxPid
      BY TasksAssumption
    <3>2. CASE UNCHANGED <<waited, pid>>
      BY <3>2 DEF TypeOK
    <3>3. CASE waited' = [waited EXCEPT ![wait] = TRUE] /\ pid' = [pid EXCEPT ![wait] = 0]
      BY <3>1, <3>3 DEF TypeOK
    <3> QED BY <1>2, <3>2, <3>3
  <2> QED BY <1>1, <1>3, <2>1 DEF TypeOK
<1>5. RingSound' /\ RunSound' /\ FrameSound'
  BY <1>1 DEF RingSound, RunSound, FrameSound
<1>6. \A s \in Slots : /\ pid'[s] = pid[s] \/ (pid'[s] = 0 /\ s = wait /\ waited'[s])
                       /\ waited[s] => waited'[s]
  BY <1>1, <1>2 DEF TypeOK
<1>7. HandlerSound'
  BY <1>1, <1>6 DEF HandlerSound
<1>8. StatusSound'
  <2>1. Members \subseteq Slots /\ Members' = Members
    BY <1>1, MembersAreSlots DEF Members
  <2>2. \A s \in Members : pid'[s] < nextpid
    <3>1. nextpid \in Nat /\ 0 < nextpid
      BY DEF TypeOK
    <3> QED BY <1>6, <2>1, <3>1 DEF StatusSound
  <2>3. \A s, t \in Members : pid'[s] = pid'[t] /\ pid'[s] # 0 => s = t
    BY <1>6, <2>1 DEF StatusSound
  <2>4. \A s \in Members \ {Main} :
          state[s] = "ZOMBIE" /\ ~waited'[s] => died[pid'[s]] = code[s]
    BY <1>6, <2>1 DEF StatusSound
  <2> QED BY <1>1, <2>1, <2>2, <2>3, <2>4 DEF StatusSound
<1> QED BY <1>4, <1>5, <1>7, <1>8

LEMMA BlockCore == ASSUME Core, Block PROVE Core'
<1> USE DEF Core, Block, Call, sig, sched, frames, hist
<1>1. Main \in Slots /\ Idle \in Slots /\ NoSlot \notin Slots
  BY TasksAssumption DEF Slots, Main, Idle, NoSlot
<1>2. TypeOK'
  BY <1>1 DEF TypeOK
<1>3. RingSound' /\ RunSound'
  BY <1>1 DEF RingSound, RunSound, TypeOK
<1>4. FrameSound' /\ HandlerSound'
  BY <1>1 DEF FrameSound, HandlerSound, TypeOK
<1>5. StatusSound'
  BY <1>1, MembersAreSlots DEF StatusSound, Members, TypeOK
<1> QED BY <1>2, <1>3, <1>4, <1>5

(* The only task that could be blocked is the one that calls sys_kill.     *)
LEMMA KillCore == ASSUME Core, NEW p \in 0 .. MaxPid, NEW g \in Sigs, Kill(p, g) PROVE Core'
<1> USE DEF Core
<1>1. /\ UNCHANGED <<pid, parent, waited, code, handler, insig, sched, frames, cur, pc,
                     wait, phase, cpu, hist>>
      /\ cur = Main /\ pc = "user"
  BY DEF Kill, Call
<1>2. pend' \in [Slots -> SUBSET Sigs]
  <2>1. \A s \in Slots : pend[s] \in SUBSET Sigs /\ pend[s] \cup {g} \in SUBSET Sigs
    BY DEF TypeOK
  <2> QED BY <2>1 DEF Kill
<1>3. state' = state
  <2>1. \A s \in Slots : state[s] # "BLOCKED"
    BY <1>1 DEF RunSound
  <2>2. state' = [s \in Slots |-> state[s]]
    BY <2>1 DEF Kill
  <2> QED BY <2>2 DEF TypeOK
<1> USE DEF sched, frames, hist
<1>4. TypeOK' /\ RingSound' /\ RunSound'
  <2>1. TypeOK'
    BY <1>1, <1>2, <1>3 DEF TypeOK
  <2>2. RingSound' /\ RunSound'
    BY <1>1, <1>3 DEF RingSound, RunSound
  <2> QED BY <2>1, <2>2
<1>5. FrameSound' /\ HandlerSound' /\ StatusSound'
  BY <1>1, <1>2, <1>3 DEF FrameSound, HandlerSound, StatusSound, Members
<1> QED BY <1>4, <1>5

LEMMA SigActionCore ==
  ASSUME Core, NEW g \in Sigs, NEW h \in Handlers, SigAction(g, h) PROVE Core'
<1> USE DEF Core
<1>1. UNCHANGED <<task, pend, insig, sched, frames, cur, pc, wait, phase, cpu, hist>>
  BY DEF SigAction
<1>2. Main \in Slots /\ Idle \in Slots /\ Main # Idle
  BY TasksAssumption DEF Slots, Main, Idle
<1>3. /\ handler' \in [Slots -> [Sigs -> {"SIG_DFL"} \cup Handlers]]
      /\ handler'[Idle] = handler[Idle]
  BY <1>2 DEF SigAction, TypeOK
<1> USE DEF task, sched, frames, hist
<1>4. TypeOK' /\ RingSound' /\ RunSound'
  <2>1. TypeOK'
    BY <1>1, <1>3 DEF TypeOK
  <2>2. RingSound' /\ RunSound'
    BY <1>1 DEF RingSound, RunSound
  <2> QED BY <2>1, <2>2
<1>5. FrameSound' /\ HandlerSound' /\ StatusSound'
  BY <1>1, <1>3 DEF FrameSound, HandlerSound, StatusSound, Members
<1> QED BY <1>4, <1>5

-----------------------------------------------------------------------------
LEMMA NextCore == Core /\ [Next]_vars => Core'
<1> SUFFICES ASSUME Core, [Next]_vars PROVE Core'
  OBVIOUS
<1>1. CASE Tick
  BY <1>1, InterruptCore DEF Tick
<1>2. CASE Deliver
  BY <1>2, DeliverCore
<1>3. CASE SwitchCheck
  BY <1>3, SwitchCheckCore
<1>4. CASE CtrlC
  BY <1>4, CtrlCCore
<1>5. CASE Syscall
  <2>1. CASE Enter \/ Leave
    BY <2>1, MoveCore
  <2>10. CASE Block
    BY <2>10, BlockCore
  <2>2. CASE Fork
    BY <2>2, ForkCore
  <2>3. CASE Link
    BY <2>3, LinkCore
  <2>4. CASE Exit
    BY <2>4, ExitCore
  <2>5. CASE Yield
    BY <2>5, InterruptCore DEF Yield
  <2>6. CASE Reap
    BY <2>6, ReapCore
  <2>7. ASSUME NEW p \in 0 .. MaxPid, WaitPid(p) PROVE Core'
    BY <2>7, WaitPidCore
  <2>8. ASSUME NEW p \in 0 .. MaxPid, NEW g \in Sigs, Kill(p, g) PROVE Core'
    BY <2>8, KillCore
  <2>9. ASSUME NEW g \in Sigs, NEW h \in Handlers, SigAction(g, h) PROVE Core'
    BY <2>9, SigActionCore
  <2> QED BY <1>5, <2>1, <2>2, <2>3, <2>4, <2>5, <2>6, <2>7, <2>8, <2>9, <2>10 DEF Syscall
<1>6. CASE UNCHANGED vars
  BY <1>6 DEF vars, task, sig, sched, frames, hist, Core, TypeOK, RingSound, RunSound,
     FrameSound, HandlerSound, StatusSound, Members
<1> QED BY <1>1, <1>2, <1>3, <1>4, <1>5, <1>6 DEF Next

LEMMA CoreHolds == Spec => []Core
BY InitCore, NextCore, PTL DEF Spec

(* In every reachable state the task table is well-typed, no task but the  *)
(* current one is RUNNING (and that one is, unless it has just exited or   *)
(* blocked), and the ring, the saved frames, the handlers and the statuses *)
(* are what scheduler.c relies on.                                         *)
THEOREM TasksInvariant == Spec => []TasksInv
<1>1. Core => TasksInv
  BY RunsOne DEF Core, TasksInv
<1> QED BY <1>1, CoreHolds, PTL

(* switch_check resumes a task in the frame it was interrupted in, unless  *)
(* the switch that would have saved that frame was replaced first.         *)
THEOREM ResumesWhereStopped == Spec => []ContinuesWhereStopped
<1>1. Core => ContinuesWhereStopped
  BY DEF Core, FrameSound, ContinuesWhereStopped
<1> QED BY <1>1, CoreHolds, PTL

(* Whatever the signals and forks, a child of sys_fork executes nothing:   *)
(* while the machine runs, the current task is the main or the idle one.   *)
THEOREM NoChildRuns == Spec => []ChildNeverRuns
<1>1. Core => ChildNeverRuns
  BY DEF Core, RunSound, ChildNeverRuns, Settled
<1> QED BY <1>1, CoreHolds, PTL

(* No program ever runs inside its signal handler: signal_deliver skips    *)
(* pid 0, and a child that was given one faults on the way to it.          *)
THEOREM HandlersNeverRun == Spec => []NoHandlerRuns
<1>1. Core => NoHandlerRuns
  BY DEF Core, RunSound, HandlerSound, NoHandlerRuns, Settled
<1> QED BY <1>1, CoreHolds, PTL

(* A main task that blocks on a pipe (task_block) is never made READY      *)
(* again, by no tick, signal or other step of the system.                  *)
THEOREM BlockedStaysBlocked == Spec => BlockedForEver
<1> DEFINE Stays == state[Main] = "BLOCKED" => state'[Main] = "BLOCKED"
<1>1. Core /\ [Next]_vars => [Stays]_vars
  <2> SUFFICES ASSUME Core, Next, state[Main] = "BLOCKED" PROVE state'[Main] = "BLOCKED"
    OBVIOUS
  <2>1. Core'
    BY NextCore
  <2>2. pc = "blocked"
    BY DEF Core, RunSound
  <2>3. pc' = "blocked"
    BY <2>2 DEF Next, Tick, Interrupt, Deliver, ExitOn, SignalReturn, SwitchCheck, CtrlC,
       Syscall, Call, Enter, Leave, Block, Fork, Link, Exit, Yield, WaitPid, Reap, Kill,
       SigAction
  <2> QED BY <2>1, <2>3 DEF Core, RunSound
<1> QED BY <1>1, CoreHolds, PTL DEF Spec, BlockedForEver

(* sys_waitpid returns the status its child died of, and no slot of the    *)
(* ring answers to that pid afterwards: it is handed out once.             *)
THEOREM StatusHandedOutOnce == Spec => StatusOnce
<1> DEFINE Once == \A p \in 1..MaxPid :
                     ret' # ret /\ ret'.p = p /\ ret'.code # -1
                       => /\ ret'.code = died[p]
                          /\ \A s \in Slots : pid'[s] = p => s >= ring
<1>1. Core /\ [Next]_vars => [Once]_vars
  <2> SUFFICES ASSUME Core, Next, NEW p \in 1..MaxPid,
                      ret' # ret, ret'.p = p, ret'.code # -1
               PROVE  /\ ret'.code = died[p]
                      /\ \A s \in Slots : pid'[s] = p => s >= ring
    OBVIOUS
  <2>1. Reap
    BY DEF Next, Tick, Interrupt, Deliver, ExitOn, SignalReturn, SwitchCheck, CtrlC,
       Syscall, Enter, Leave, Block, Fork, Link, Exit, Yield, WaitPid, Kill, SigAction, hist
  <2>2. /\ state[wait] = "ZOMBIE" /\ ~waited[wait] /\ pc = "waiting"
        /\ wait \in 1 .. ring - 1 /\ wait \in Slots /\ ring = count
    BY <2>1, TasksAssumption DEF Reap, Call, Core, RingSound, TypeOK, Slots
  <2>3. pid[wait] = p /\ ret'.code = code[wait] /\ pid' = [pid EXCEPT ![wait] = 0]
    BY <2>1, <2>2 DEF Reap
  <2>4. Members = 0 .. ring - 1 /\ wait \in Members \ {Main}
    BY <2>2 DEF Members, Core, TypeOK, Main
  <2>5. ret'.code = died[p]
    BY <2>2, <2>3, <2>4 DEF Core, StatusSound
  <2>6. ASSUME NEW s \in Slots, pid'[s] = p PROVE s >= ring
    <3>1. s # wait /\ pid[s] = p
      BY <2>2, <2>3, <2>6 DEF Core, TypeOK
    <3>2. s \notin Members
      BY <2>3, <2>4, <3>1 DEF Core, StatusSound
    <3>3. s \in Nat /\ ring \in Nat
      BY TasksAssumption DEF Slots, Core, TypeOK
    <3> QED BY <2>4, <3>2, <3>3
  <2> QED BY <2>5, <2>6
<1> QED BY <1>1, CoreHolds, PTL DEF Spec, StatusOnce
=============================================================================
