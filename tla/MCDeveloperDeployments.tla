------------------------ MODULE MCDeveloperDeployments -----------------------
(***************************************************************************)
(* Instances of DeveloperDeployments for TLC.                              *)
(***************************************************************************)
EXTENDS DeveloperDeployments, TLC

(* Revisions, manifests and request slots are interchangeable. *)
DeploymentSymmetry ==
    Permutations(Revs) \cup Permutations(Manifests) \cup Permutations(Requests)

(* Actions write containers and the runtime status only.  Of these only    *)
(* OneAnswers and HealthyRuns speak, and not after an overlap or abandoned *)
(* containers: an action at work after one shows nothing new.              *)
ActionsWhereTheyShow ==
    Spared({"overlap", "abandoned"}) \/ \A q \in Requests : ~Doing(q, "action")
=============================================================================
