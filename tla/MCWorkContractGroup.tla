------------------------ MODULE MCWorkContractGroup ------------------------
(***************************************************************************)
(* WorkContractGroup for TLC: sets of model values come from the .cfg, and *)
(* their elements are interchangeable in the runs that check only safety.  *)
(***************************************************************************)
EXTENDS WorkContractGroup, TLC

Symmetry ==
  Permutations(Contracts) \cup Permutations(Workers) \cup Permutations(Clients)
=============================================================================
