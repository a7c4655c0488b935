---------------------------- MODULE MCHugekeeper ----------------------------
(* Small instances of Hugekeeper: values for the constants of the .cfg files. *)
EXTENDS Hugekeeper, TLC
CONSTANTS p1, p2, admin, n1, n2, n3, tenant, root
\* Tenants of one uid, which may be denied while both hold leases, and the operator.
Tenants         == {p1, p2}
TenantsAndAdmin == {p1, p2, admin}
OneAndAdmin     == {p1, admin}
Operator        == {admin}
NoPeers         == {}
MCUidOf         == (p1 :> tenant) @@ (p2 :> tenant) @@ (admin :> root)
MCAllowed       == {tenant}
TwoInodes       == {n1, n2}
ThreeInodes     == {n1, n2, n3}
\* The tenants are interchangeable: same uid, and no definition chooses among them.
TenantSymmetry  == Permutations(Tenants)
=============================================================================
