--------------------------- MODULE MCTenantOperator ---------------------------
(* Small instances of the tenant operator. *)
EXTENDS TenantOperator

CONSTANTS t1, w1

Listed(w, r) == [ws |-> w, role |-> r]

(* Workspace lists: none, one workspace, and that workspace listed twice.  *)
ListOne == {<<Listed(w1, "user")>>}
ListNoneOrTwice == {<< >>, <<Listed(w1, "user"), Listed(w1, "manager")>>}
=============================================================================
