------------------------------- MODULE MCBastion -------------------------------
(* Two Tenants whose lists of keys have none, one or two valid keys, a     *)
(* malformed one and a repeated one.                                       *)
EXTENDS Bastion, TLC

CONSTANTS t1, t2, k1, k2

MCKeyLists == {<<>>, <<k1>>, <<k1, BadKey, k2>>, <<k2, k2>>}
TenantSymmetry == Permutations(Tenants)
================================================================================
