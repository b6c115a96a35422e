------------------------- MODULE MCTenantProvisioning -------------------------
(* Two or three tenants, each with a default suffix of its own.            *)
EXTENDS TenantProvisioning, TLC

CONSTANTS t1, t2, t3, s1, s2, s3, l1, l2, l3

MCDefaultSuffix == [t \in Tenants |-> ((t1 :> s1) @@ (t2 :> s2) @@ (t3 :> s3))[t]]
LoginSymmetry == Permutations(Logins)
=============================================================================
