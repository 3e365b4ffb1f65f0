--------------------------- MODULE MCRuntimeHealth ---------------------------
(***************************************************************************)
(* Instances of RuntimeHealth for TLC.                                     *)
(***************************************************************************)
EXTENDS RuntimeHealth, TLC

(* No action and no invariant tells applications apart. *)
AppSymmetry == Permutations(Apps)
=============================================================================
