----------------------------- MODULE MCInstance -----------------------------
(* Scenarios for the Instance controller. *)
EXTENDS Instance

Scenario(kind, edits, n, fails, m) ==
  [kind |-> kind, disk |-> kind = "container", edits |-> edits, ops |-> n,
   faults |-> fails, failures |-> m]

MCScenarios ==
  {Scenario("persistent", {"toggle"}, 2, {}, 0),
   Scenario("persistent", {"toggle"}, 1, {"call"}, 1),
   Scenario("persistent", {}, 0, {"call", "restart"}, 2),
   Scenario("container", {"delete"}, 1, {"call", "status", "vm", "restart"}, 2),
   Scenario("vm", {"delete"}, 1, {}, 0),
   Scenario("vm", {}, 0, {"call", "status", "slow", "vm", "restart"}, 3)}
=============================================================================
