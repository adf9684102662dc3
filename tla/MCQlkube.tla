------------------------------ MODULE MCQlkube ------------------------------
(***************************************************************************)
(* Two subscribers that share a key of the cache, two paths of the OpenAPI *)
(* document, the kinds of CrownLabs next to one of another group, and      *)
(* lists of subscriptions of which two cannot be served.                   *)
(***************************************************************************)
EXTENDS Qlkube

MCSubs == {<<"ann", "n1", 1>>, <<"ann", "n1", 2>>}

MCWrappers == <<[query |-> "Template", host |-> "Instance"], [query |-> "Tenant", host |-> "Instance"],
                [query |-> "Workspace", host |-> "Tenant"]>>

MCOffers == {{"openapi"}, {"openapi", "swagger"}}

MCConfigs == {<<"Instance", "Template">>, <<"Instance", "Instance">>, <<"Instance", "Pod">>}
=============================================================================
