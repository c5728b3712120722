------------------------------ MODULE MCShellEnv ------------------------------
(* Values for the constants of ShellEnv.                                   *)
EXTENDS ShellEnv

(* Every name but the empty one is as long as an entry allows.             *)
Lengths == [k \in Keys |-> IF k = Empty THEN 0 ELSE KeyMax - 1]
=============================================================================
