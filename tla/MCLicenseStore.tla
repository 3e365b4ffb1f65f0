--------------------------- MODULE MCLicenseStore ---------------------------
(***************************************************************************)
(* Instances of LicenseStore for TLC.                                      *)
(***************************************************************************)
EXTENDS LicenseStore, TLC

CONSTANTS t1, t2, a1, j1, j2, author, k1, k2, root

License(j, t, kid, exp) ==
    [jti |-> j, tenant |-> t, app |-> a1, author |-> author, kid |-> kid,
     root |-> root, nbf |-> 0, exp |-> exp, certExp |-> 9, claimsOk |-> TRUE]

(* A license that expires at 1, its renewal under a rotated key, and a     *)
(* license of another tenant with the same jti.                            *)
OneJti == {License(j1, t1, k1, 1), License(j1, t1, k2, 9), License(j1, t2, k2, 9)}

(* Licenses of two tenants. *)
TwoTenants == {License(j1, t1, k1, 9), License(j2, t2, k2, 9)}

RevokeKidLocally == {<<"author_kid", k1>>}
RevokeKid == {<<"author_kid", author, k1>>}
NoRevocations == {}

(* Requests are interchangeable. *)
RequestSymmetry == Permutations(Requests)
=============================================================================
