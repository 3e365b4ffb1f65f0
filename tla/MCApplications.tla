---------------------------- MODULE MCApplications ----------------------------
(***************************************************************************)
(* An instance of Applications for TLC.                                    *)
(***************************************************************************)
EXTENDS Applications, TLC

CONSTANTS o1, o2, v1, p1, p2, p3, p4

(* Two builds of one release of o1, and o2 in the same service, with a     *)
(* package that the policy refuses.                                        *)
PackageApp == (p1 :> o1) @@ (p2 :> o1) @@ (p3 :> o2) @@ (p4 :> o2)
PackageManifest == (p1 :> 1) @@ (p2 :> 1) @@ (p3 :> 2) @@ (p4 :> 1)
In(v, p) == [service |-> v, package |-> p]
EntriesOffered ==
    {<<o1, [manifest |-> 1, plan |-> In(v1, p1)]>>, <<o1, [manifest |-> 1, plan |-> In(v1, p2)]>>,
     <<o1, [manifest |-> 2, plan |-> None]>>, <<o2, [manifest |-> 2, plan |-> In(v1, p3)]>>,
     <<o2, [manifest |-> 1, plan |-> In(v1, p4)]>>}

(* Applications, services, request slots and connections are               *)
(* interchangeable.                                                        *)
ApplicationSymmetry ==
    Permutations(Apps) \cup Permutations(Urls) \cup Permutations(Requests)
      \cup Permutations(Conns)
=============================================================================
