---------------------------- MODULE MCSharedState ----------------------------
(***************************************************************************)
(* Two objects and two resources: enough for one object to be left the     *)
(* resource, or the setting, of the other.                                 *)
(***************************************************************************)
EXTENDS SharedState, TLC

MCSymmetry == Permutations(Objects) \union Permutations(Resources)
=============================================================================
