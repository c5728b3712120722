------------------------------ MODULE KeyQueue ------------------------------
(***************************************************************************)
(* What the keyboard driver promises its reader: a bounded first-in        *)
(* first-out queue of characters between the keyboard interrupt and        *)
(* keyboard_read.                                                          *)
(***************************************************************************)
EXTENDS Integers, Sequences

CONSTANTS Chars,     \* what keyboard_read can return
          Capacity,  \* characters the queue holds
          Waiting    \* stands for the result while keyboard_read runs

VARIABLES q,         \* the characters typed and not yet read
          res        \* the last result of keyboard_read, or Waiting

QInit == q = <<>> /\ res = Waiting

(* An interrupt adds characters at the end, as long as there is room.      *)
Put == /\ q' \in Seq(Chars)
       /\ Len(q') \in Len(q) + 1 .. Capacity
       /\ SubSeq(q', 1, Len(q)) = q
       /\ UNCHANGED res

Call == res # Waiting /\ res' = Waiting /\ UNCHANGED q

(* keyboard_read returns the oldest character, or one from the serial line.*)
Get    == res = Waiting /\ q # <<>> /\ res' = Head(q) /\ q' = Tail(q)
Serial == res = Waiting /\ res' \in Chars /\ UNCHANGED q

QNext == Put \/ Call \/ Get \/ Serial

QSpec == QInit /\ [][QNext]_<<q, res>>

=============================================================================
