------------------------------ MODULE MCServices ------------------------------
(***************************************************************************)
(* An instance of Services for TLC.                                        *)
(***************************************************************************)
EXTENDS Services, TLC

CONSTANTS t1, c1, w1, w2

(* Two workers of one application, with tokens of one of two tenants. *)
BothForC1 == (w1 :> c1) @@ (w2 :> c1)
BothInT1 == (w1 :> t1) @@ (w2 :> t1)
=============================================================================
