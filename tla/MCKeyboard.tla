----------------------------- MODULE MCKeyboard -----------------------------
(***************************************************************************)
(* The keyboard driver with a small ring and a few keys.                   *)
(***************************************************************************)
EXTENDS Keyboard

(* Enough keys to start, finish, break off and abandon every kind of       *)
(* escape sequence, with shift (C, ~) and without.                         *)
SomeKeys == {"Esc", "[", "c", "1", "tick", "Kp7"}

(* Not told apart: the slots of the ring that hold no character, which are *)
(* written before they are read; where in the ring the others begin; the   *)
(* local of keyboard_read before it is assigned; the pending SIGINT, which *)
(* the driver never looks at.                                              *)
RunView == <<Contents, shift, ctrl, e0, esc, param, fifo, running, pc,
             IF pc \in {"advance", "out"} THEN c ELSE NoChar>>
=============================================================================
