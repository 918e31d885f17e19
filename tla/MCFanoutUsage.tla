--------------------------- MODULE MCFanoutUsage ---------------------------
(***************************************************************************)
(* Instances of FanoutUsage for TLC.                                       *)
(***************************************************************************)
EXTENDS FanoutUsage

Corrections == {1, -1, -2}

KeySymmetry == Permutations(Clients) \cup Permutations(Finance)
=============================================================================
