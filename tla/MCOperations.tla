----------------------------- MODULE MCOperations -----------------------------
(***************************************************************************)
(* An instance of Operations for TLC.                                      *)
(***************************************************************************)
EXTENDS Operations, TLC

CONSTANT k1

(* What applicants fill in: for a hosted author, for one with a key, and   *)
(* without a key and the terms.                                            *)
FilledIn ==
    {[mode |-> "talpaversum_hosted", key |-> None, terms |-> TRUE],
     [mode |-> "trusted_self_hosted", key |-> k1, terms |-> TRUE],
     [mode |-> "trusted_self_hosted", key |-> None, terms |-> FALSE]}

(* No action and no invariant tells applications apart. *)
AppSymmetry == Permutations(Apps)
=============================================================================
