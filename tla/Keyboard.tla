------------------------------ MODULE Keyboard ------------------------------
(***************************************************************************)
(* The keyboard driver, kernel/keyboard.c: the interrupt handler that      *)
(* decodes scan codes into a ring of characters, and keyboard_read, which  *)
(* takes them out, or polls the serial line, or halts until the next       *)
(* interrupt.                                                              *)
(*                                                                         *)
(* keyboard_read runs with interrupts enabled (the gate of int 0x80 is a   *)
(* trap gate), so the handlers run between any two of its steps; the       *)
(* handlers themselves run with interrupts disabled and are one step.      *)
(* Two tasks are runnable, the shell that reads and the idle task, and     *)
(* every timer tick switches between them.                                 *)
(***************************************************************************)
EXTENDS Integers, Sequences

CONSTANTS BufSize,    \* BUF_SIZE
          Keys,       \* the keys of the keyboard, a subset of AllKeys
          Modifiers,  \* its modifiers, of "Shift" and "Ctrl"
          SerialIn,   \* the bytes that arrive on the serial line
          FifoSize    \* bytes the serial port holds

(* The two rows of keymap and keymap_shift, for the keys that the handler  *)
(* tells apart and a few others.  A key goes by its name in the first row. *)
KeyRows == {<<"a", "a", "A">>, <<"b", "b", "B">>, <<"c", "c", "C">>,
            <<"d", "d", "D">>, <<"f", "f", "F">>, <<"h", "h", "H">>,
            <<"x", "x", "X">>, <<"[", "[", "{">>, <<"1", "1", "!">>,
            <<"3", "3", "#">>, <<"4", "4", "$">>, <<"7", "7", "&">>,
            <<"tick", "tick", "~">>}
             \cup {<<k, "NUL", "NUL">> : k \in {"Esc", "F5", "Kp8", "Kp2",
                                   "Kp4", "Kp6", "Kp7", "Kp1", "KpDot"}}

AllKeys   == {r[1] : r \in KeyRows}
NoChar    == "NUL"
Digits    == {"1", "3", "4", "7"}

ASSUME KeyAssumption == /\ BufSize \in Nat /\ BufSize >= 2
                        /\ FifoSize \in Nat /\ Keys \subseteq AllKeys
                        /\ Modifiers \subseteq {"Shift", "Ctrl"}

(* The special keys: after the prefix E0, after ESC [, after ESC [ digit ~.*)
E0Key    == {<<"Kp8", "KEY_UP">>, <<"Kp2", "KEY_DOWN">>, <<"Kp4", "KEY_LEFT">>,
             <<"Kp6", "KEY_RIGHT">>, <<"Kp7", "KEY_HOME">>, <<"Kp1", "KEY_END">>,
             <<"KpDot", "KEY_DELETE">>}
CsiKey   == {<<"A", "KEY_UP">>, <<"B", "KEY_DOWN">>, <<"C", "KEY_LEFT">>,
             <<"D", "KEY_RIGHT">>, <<"H", "KEY_HOME">>, <<"F", "KEY_END">>}
TildeKey == {<<"3", "KEY_DELETE">>, <<"1", "KEY_HOME">>, <<"4", "KEY_END">>}
Special(table, x) == {p[2] : p \in {r \in table : r[1] = x}}

(* keyboard_read's conversion of a serial byte.                            *)
FromSerial(x) == CASE x = "CR" -> "LF" [] x = "DEL" -> "BS" [] OTHER -> x

Chars == {r[2] : r \in KeyRows} \cup {r[3] : r \in KeyRows} \cup {"ESC"}
           \cup {p[2] : p \in E0Key \cup CsiKey \cup TildeKey}
           \cup {FromSerial(x) : x \in SerialIn}

VARIABLES buf, head, tail,     \* the ring
          shift, ctrl, e0,     \* shift_pressed, ctrl_pressed, e0_prefix
          esc, param,          \* esc_state, esc_param
          sigint,              \* SIGINT is pending for the idle task
          fifo,                \* the bytes in the serial port
          running,             \* whether the shell is the current task
          pc,                  \* where keyboard_read is
          c                    \* its result

ring    == <<buf, head, tail>>
decoder == <<shift, ctrl, e0, esc, param, sigint>>
reader  == <<pc, c>>
vars    == <<ring, decoder, fifo, running, reader>>

Index == 0 .. (BufSize - 1)

(* keyboard_init; the first keyboard_read is under way.                    *)
Init ==
  /\ buf = [i \in Index |-> NoChar] /\ head = 0 /\ tail = 0
  /\ shift = FALSE /\ ctrl = FALSE /\ e0 = FALSE
  /\ esc = "normal" /\ param = "1" /\ sigint = FALSE
  /\ fifo = <<>> /\ running = TRUE
  /\ pc = "test" /\ c = NoChar

-----------------------------------------------------------------------------
(* The ring.                                                               *)

Used     == (head - tail) % BufSize
Contents == [k \in 1 .. Used |-> buf[(tail + k - 1) % BufSize]]

(* How many characters buffer_char accepts before it finds the ring full.  *)
RoomToTheBrim == BufSize - Used         \* a mutant: head may catch up
Room == BufSize - 1 - Used

(* buffer_char for each character of s in turn.                            *)
Buffer(s) ==
  LET n == IF Len(s) < Room THEN Len(s) ELSE Room
      offset(i) == (i - head) % BufSize
  IN  /\ buf' = [i \in Index |->
                   IF offset(i) < n THEN s[offset(i) + 1] ELSE buf[i]]
      /\ head' = (head + n) % BufSize
      /\ UNCHANGED tail

-----------------------------------------------------------------------------
(* The decoder.                                                            *)

CharOf(k) == LET r == CHOOSE r \in KeyRows : r[1] = k
             IN  IF shift THEN r[3] ELSE r[2]

Literal(ch) == IF ch = NoChar THEN <<>> ELSE <<ch>>

CtrlC(k) == ctrl /\ CharOf(k) \in {"c", "C"}

(* The characters an unfinished escape sequence holds back.                *)
HeldBack == CASE esc = "normal" -> <<>>
              [] esc = "seen"   -> <<"ESC">>
              [] esc = "csi"    -> <<"ESC", "[">>
              [] esc = "digit"  -> <<"ESC", "[", param>>

(* The special key that key k completes, if any.                           *)
Completes(k) == CASE esc = "csi" -> Special(CsiKey, CharOf(k))
                  [] esc = "digit" /\ CharOf(k) = "~" -> Special(TildeKey, param)
                  [] OTHER -> {}

(* Whether key k continues the sequence.                                   *)
Continues(k) == \/ esc = "normal" /\ k = "Esc"
                \/ esc = "seen" /\ k = "["
                \/ esc = "csi" /\ CharOf(k) \in Digits

Successor == [normal |-> "seen", seen |-> "csi", csi |-> "digit"]

(* A sequence that turns out to be none is passed on as it was typed.      *)
FlushNothing(k) == Buffer(Literal(CharOf(k)))   \* a mutant: ESC is dropped
Flush(k) == Buffer(HeldBack \o Literal(CharOf(k)))

(* An interrupt ends a hlt of the task it interrupts.                      *)
Wake == pc' = IF running /\ pc = "asleep" THEN "test" ELSE pc

(* keyboard_handler for the press of key k.                                *)
Press(k) ==
  /\ e0' = FALSE /\ Wake /\ UNCHANGED <<shift, ctrl, fifo, running, c>>
  /\ \/ e0 /\ Special(E0Key, k) = {} /\ UNCHANGED <<ring, esc, param, sigint>>
     \/ /\ e0
        /\ \E s \in Special(E0Key, k) : Buffer(<<s>>)
        /\ UNCHANGED <<esc, param, sigint>>
     \/ /\ ~e0 /\ CtrlC(k)
        /\ esc' = "normal" /\ sigint' = TRUE
        /\ UNCHANGED <<ring, param>>
     \/ /\ ~e0 /\ ~CtrlC(k) /\ Continues(k)
        /\ esc' = Successor[esc]
        /\ param' = IF esc = "csi" THEN CharOf(k) ELSE param
        /\ UNCHANGED <<ring, sigint>>
     \/ /\ ~e0 /\ ~CtrlC(k) /\ ~Continues(k)
        /\ \E s \in Completes(k) : Buffer(<<s>>)
        /\ esc' = "normal" /\ UNCHANGED <<param, sigint>>
     \/ /\ ~e0 /\ ~CtrlC(k) /\ ~Continues(k) /\ Completes(k) = {}
        /\ Flush(k)
        /\ esc' = "normal" /\ UNCHANGED <<param, sigint>>

(* keyboard_handler for shift and control, and for the release of a key.   *)
(* After the prefix E0 they are ignored.                                   *)
Modifier(m, down) ==
  /\ shift' = IF m = "Shift" /\ ~e0 THEN down ELSE shift
  /\ ctrl'  = IF m = "Ctrl" /\ ~e0 THEN down ELSE ctrl
  /\ e0' = FALSE /\ Wake
  /\ UNCHANGED <<ring, esc, param, sigint, fifo, running, c>>

Release == /\ e0' = FALSE /\ Wake
           /\ UNCHANGED <<ring, shift, ctrl, esc, param, sigint, fifo, running, c>>

PrefixE0 == /\ e0' = TRUE /\ Wake
            /\ UNCHANGED <<ring, shift, ctrl, esc, param, sigint, fifo, running, c>>

-----------------------------------------------------------------------------
(* keyboard_read, and what happens around it.                              *)

At(label, next) == /\ running /\ pc = label /\ pc' = next
                   /\ UNCHANGED <<decoder, running>>

ReadCall == At("out", "test") /\ UNCHANGED <<ring, fifo, c>>

Test == /\ At("test", IF head = tail THEN "poll" ELSE "get")
        /\ UNCHANGED <<ring, fifo, c>>

PollSerial == /\ At("poll", IF fifo = <<>> THEN "hlt" ELSE "out")
              /\ IF fifo = <<>>
                   THEN UNCHANGED <<fifo, c>>
                   ELSE fifo' = Tail(fifo) /\ c' = FromSerial(Head(fifo))
              /\ UNCHANGED ring

Hlt == At("hlt", "asleep") /\ UNCHANGED <<ring, fifo, c>>

GetChar == /\ At("get", "advance")
           /\ c' = buf[tail]
           /\ UNCHANGED <<ring, fifo>>

Advance == /\ At("advance", "out")
           /\ tail' = (tail + 1) % BufSize
           /\ UNCHANGED <<buf, head, fifo, c>>

Read == ReadCall \/ Test \/ PollSerial \/ Hlt \/ GetChar \/ Advance

(* timer_handler: scheduler_tick switches to the other task.               *)
TickLeavesAsleep ==                     \* a mutant: the tick does not end hlt
  running' = ~running /\ UNCHANGED <<ring, decoder, fifo, reader>>
Tick == running' = ~running /\ Wake /\ UNCHANGED <<ring, decoder, fifo, c>>

SerialByte == /\ Len(fifo) < FifoSize
              /\ \E ch \in SerialIn : fifo' = Append(fifo, ch)
              /\ UNCHANGED <<ring, decoder, running, reader>>

Irq1 == \/ \E k \in Keys : Press(k)
        \/ \E m \in Modifiers, down \in BOOLEAN : Modifier(m, down)
        \/ Release
        \/ PrefixE0

Next == Irq1 \/ Read \/ Tick \/ SerialByte

Spec == Init /\ [][Next]_vars

(* The timer ticks for ever, and in its time slices, infinitely many, the  *)
(* shell gets to execute instructions.                                     *)
FairSpec == Spec /\ WF_vars(Tick) /\ SF_vars(Read)

-----------------------------------------------------------------------------
Waiting == "waiting"

(* The ring, filled by the handler and emptied by keyboard_read between    *)
(* its interrupts, is a first-in first-out queue of BUF_SIZE - 1           *)
(* characters: no character is overwritten, duplicated or read twice.      *)
Queue == INSTANCE KeyQueue WITH
           Capacity <- BufSize - 1,
           q   <- Contents,
           res <- IF pc = "out" THEN c ELSE Waiting
IsQueue == Queue!QSpec

(* What a key types, and what the special keys are spelt with.  The key [  *)
(* after ESC counts as [ even with shift down; a key that the maps have no *)
(* character for types nothing, but for Esc.                               *)
Spelling == {<<<<"ESC", "[", p[1]>>, p[2]>> : p \in CsiKey}
              \cup {<<<<"ESC", "[", p[1], "~">>, p[2]>> : p \in TildeKey}
Typed(k) == CASE k = "Esc" -> <<"ESC">>
              [] k = "[" /\ esc = "seen" -> <<"[">>
              [] OTHER -> Literal(CharOf(k))
Added == SubSeq(Contents', Used + 1, Used')
Fitting(s) == SubSeq(s, 1, IF Len(s) < Room THEN Len(s) ELSE Room)

(* What is typed joins the characters held back, which stay held back, or  *)
(* reach the ring in order as far as there is room, or spell a special key.*)
Kept(k) == LET w == HeldBack \o Typed(k) IN
             \/ HeldBack' = w /\ Added = <<>>
             \/ HeldBack' = <<>> /\ Added = Fitting(w)
             \/ HeldBack' = <<>> /\ \E p \in Spelling : p[1] = w /\ Added = Fitting(<<p[2]>>)

(* Where keystrokes go, over any sequence of them.  The decoder loses some *)
(* in two places only: an Esc that breaks off a sequence is dropped while  *)
(* the rest of the sequence is passed on (keyboard.c:118-126, the maps     *)
(* have 0 for it), and Ctrl-C drops all that is held back                  *)
(* (keyboard.c:105).  A key with the prefix E0 leaves what is held back    *)
(* alone; every other keystroke is kept.                                   *)
KeystrokesAccounted ==
  [][\A k \in Keys : Press(k) =>
       CASE e0 -> HeldBack' = HeldBack
                  /\ (Added = <<>> \/ \E x \in Special(E0Key, k) : Added = Fitting(<<x>>))
         [] ~e0 /\ CtrlC(k) -> HeldBack' = <<>> /\ Added = <<>>
         [] ~e0 /\ ~CtrlC(k) /\ k = "Esc" /\ HeldBack # <<>> ->
              HeldBack' = <<>> /\ Added = Fitting(HeldBack)
         [] OTHER -> Kept(k)]_vars

(* keyboard_read returns once there is a character for it, even when the   *)
(* character came between the test for it and the hlt.                     *)
ReadReturns == (pc # "out" /\ (head # tail \/ fifo # <<>>)) ~> (pc = "out")

=============================================================================
