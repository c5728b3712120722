------------------------------ MODULE MCTinyFS ------------------------------
(***************************************************************************)
(* TinyFS on small disks.                                                  *)
(***************************************************************************)
EXTENDS TinyFSInd, TLC

CONSTANTS a, b, x, y

(* Every name fits in a directory entry.                                   *)
IdentityClip == [n \in Names |-> n]

Symmetry == Permutations(Chunks) \cup Permutations(Names)

(* What follows a torn rename is not explored: no invariant speaks of it.  *)
NotTorn == ~torn

=============================================================================
