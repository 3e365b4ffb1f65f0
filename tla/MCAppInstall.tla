----------------------------- MODULE MCAppInstall -----------------------------
(***************************************************************************)
(* Instances of AppInstall for TLC.                                        *)
(***************************************************************************)
EXTENDS AppInstall, TLC

(* Applications, slugs, services and request slots are interchangeable. *)
InstallSymmetry ==
    Permutations(Apps) \cup Permutations(Slugs) \cup Permutations(Urls)
      \cup Permutations(Requests)
=============================================================================
