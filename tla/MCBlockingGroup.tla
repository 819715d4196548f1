-------------------------- MODULE MCBlockingGroup --------------------------
(***************************************************************************)
(* BlockingGroup for TLC: two trees, two contracts in the first of them    *)
(* and, where there is a third contract, one in the second.                *)
(***************************************************************************)
EXTENDS BlockingGroup, TLC

CONSTANTS c1, c2, c3, tr1, tr2

MCTreeOf == [c \in Contracts |-> IF c = c3 THEN tr2 ELSE tr1]

Symmetry == Permutations(Schedulers)
=============================================================================
