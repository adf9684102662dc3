--------------------------- MODULE TenantController ---------------------------
(***************************************************************************)
(* The tenant reconciler (pkg/tenant-controller/tenant_controller.go with  *)
(* the user half of keycloak_utils.go). tproc[t] is the reconciliation of  *)
(* tenant t in flight, if any: the step it has reached, the workspace list *)
(* and finalizer of its copy of the tenant, whether retrigErr is set,      *)
(* whether the namespace is in place, the entries whose workspace exists   *)
(* and the Keycloak roles to take away. The rest of the copy is not used   *)
(* but to write it back, which the API server accepts only while the copy  *)
(* is current.                                                             *)
(***************************************************************************)
EXTENDS Cluster

CONSTANT Concurrency      \* MaxConcurrentReconciles

ASSUME ConcurrencyAssumption == Concurrency \in Nat \ {0}

VARIABLE tproc

TnSteps == {"fin", "res", "kcuser", "kcget", "kcdel", "kcadd", "nc",
            "status", "labels", "delkc", "delnc", "delfin"}

TnProc == [pc : TnSteps, spec : Seq(Entry), fin : BOOLEAN, err : BOOLEAN, nsOk : BOOLEAN,
           exist : SUBSET Nat, drop : SUBSET KcRole]

TnIdle == [pc |-> "idle"]

TnTypeOK ==
  /\ tproc \in [Tenants -> TnProc \cup {TnIdle}]
  /\ \A t \in Tenants : tproc[t] # TnIdle => tproc[t].exist \subseteq DOMAIN tproc[t].spec

TnAt(t, pc) == tproc[t].pc = pc

Goto(t, pc) == tproc' = [tproc EXCEPT ![t].pc = pc]

Fail(t, pc) == tproc' = [tproc EXCEPT ![t].pc = pc, ![t].err = TRUE]

TnReturn(t, err, after) ==
  /\ tproc' = [tproc EXCEPT ![t] = TnIdle]
  /\ tnQueue' = IF err THEN tnQueue \cup {t} ELSE tnQueue
  /\ tnDelayed' = IF ~err /\ after THEN tnDelayed \cup {t} ELSE tnDelayed
  /\ UNCHANGED <<wsQueue, wsDelayed>>

-----------------------------------------------------------------------------
TnGet(t) ==
  /\ t \in tnQueue /\ tproc[t] = TnIdle
  /\ Cardinality({u \in Tenants : tproc[u] # TnIdle}) < Concurrency
  /\ tnQueue' = tnQueue \ {t}
  /\ LET o == tnCache[t]
         start(pc) == [pc |-> pc, spec |-> o.spec, fin |-> o.fin, err |-> FALSE, nsOk |-> FALSE,
                       exist |-> {}, drop |-> {}]
     IN IF ~o.live \/ ~o.sel \/ (o.del /\ ~o.fin)
        THEN UNCHANGED <<tproc, tnFresh>>
        ELSE /\ tproc' = [tproc EXCEPT ![t] =
                            start(IF o.del THEN "delkc" ELSE IF o.fin THEN "res" ELSE "fin")]
             /\ tnFresh' = [tnFresh EXCEPT ![t] = CopyFresh(@, "tenant")]
  /\ UNCHANGED <<tn, tnCache, wsVars, kcVars, ncUsers, tnDelayed, wsQueue, wsDelayed,
                 faults, ops>>

(* variant: on a conflict the copy is written over the newer version *)
TnAddFinalizer_force(t) ==
  /\ TnAt(t, "fin") /\ tn[t].live
  /\ StoreTn(t, [tn[t] EXCEPT !.spec = tproc[t].spec, !.fin = TRUE], {"tenant"}, {})
  /\ tproc' = [tproc EXCEPT ![t].pc = "res", ![t].fin = TRUE]
  /\ UNCHANGED <<tnCache, wsVars, kcVars, ncUsers, queueVars, faults, ops>>

(* A failed Update is remembered but the reconciliation goes on. *)
TnAddFinalizer(t) ==
  /\ TnAt(t, "fin")
  /\ \E ok \in BOOLEAN :
       /\ UpdateTn(t, "tenant", [tn[t] EXCEPT !.spec = tproc[t].spec, !.fin = TRUE], ok, {})
       /\ tproc' = [tproc EXCEPT ![t].pc = "res", ![t].fin = TRUE, ![t].err = @ \/ ~ok]
  /\ UNCHANGED <<wsVars, kcVars, ncUsers, queueVars, ops>>

(* variant: every entry is taken, no workspace is looked up *)
TnResources_unchecked(t) ==
  /\ TnAt(t, "res")
  /\ tproc' = [tproc EXCEPT ![t].pc = "kcuser", ![t].nsOk = TRUE,
                            ![t].exist = DOMAIN tproc[t].spec]
  /\ UNCHANGED clusterVars

(* The namespace and what lives in it are owned by the tenant, so only the *)
(* outcome is kept: a failure anywhere is returned, and without the        *)
(* namespace the rest is not attempted.                                    *)
CreateOrUpdateTnResources(nsOk, resOk) ==
  (nsOk /\ resOk /\ UNCHANGED faults) \/ (~resOk /\ Fault)

(* After them, the entries whose workspace is not found in the cache are   *)
(* left out.                                                               *)
TnResources(t) ==
  /\ TnAt(t, "res")
  /\ LET spec == tproc[t].spec
         exist == {i \in DOMAIN spec : wsCache[spec[i].ws].live}
     IN \E nsOk, resOk \in BOOLEAN :
          /\ CreateOrUpdateTnResources(nsOk, resOk)
          /\ tproc' = [tproc EXCEPT ![t].pc = "kcuser", ![t].nsOk = nsOk, ![t].exist = exist,
                                    ![t].err = @ \/ ~resOk \/ exist # DOMAIN spec]
  /\ UNCHANGED <<tnVars, wsVars, kcVars, ncUsers, queueVars, ops>>

(* handleKeycloakSubscription: the user is created or updated; an error,   *)
(* even one met after the user was created, skips its roles.               *)
TnKcUser(t) ==
  /\ TnAt(t, "kcuser")
  /\ \/ kcUsers' = kcUsers \cup {t} /\ Goto(t, "kcget") /\ UNCHANGED faults
     \/ Fault /\ kcUsers' \in {kcUsers, kcUsers \cup {t}} /\ Fail(t, "nc")
  /\ UNCHANGED <<tnVars, wsVars, kcRoles, kcHas, ncUsers, queueVars, ops>>

(* updateUserRoles: every wanted role must exist ... *)
TnKcGetRoles(t) ==
  /\ TnAt(t, "kcget")
  /\ LET wanted == RolesOf(tproc[t].spec, tproc[t].exist) IN
     \/ /\ wanted \subseteq kcRoles /\ UNCHANGED faults
        /\ LET drop == kcHas[t] \ wanted IN
           tproc' = [tproc EXCEPT ![t].pc = IF drop = {} THEN "kcadd" ELSE "kcdel",
                                  ![t].drop = drop]
     \/ ~(wanted \subseteq kcRoles) /\ UNCHANGED faults /\ Fail(t, "nc")
     \/ Fault /\ Fail(t, "nc")
  /\ UNCHANGED <<tnVars, wsVars, kcVars, ncUsers, queueVars, ops>>

(* ... the others are taken away, if there are any ... *)
TnKcDeleteRoles(t) ==
  /\ TnAt(t, "kcdel")
  /\ LET drop == tproc[t].drop IN
     \/ /\ drop \subseteq kcRoles /\ UNCHANGED faults
        /\ kcHas' = [kcHas EXCEPT ![t] = @ \ drop]
        /\ tproc' = [tproc EXCEPT ![t].pc = "kcadd", ![t].drop = {}]
     \/ ~(drop \subseteq kcRoles) /\ UNCHANGED <<kcHas, faults>> /\ Fail(t, "nc")
     \/ Fault /\ kcHas' \in {kcHas, [kcHas EXCEPT ![t] = @ \ drop]} /\ Fail(t, "nc")
  /\ UNCHANGED <<tnVars, wsVars, kcRoles, kcUsers, ncUsers, queueVars, ops>>

(* ... and the wanted ones are given, unless one is gone by now. *)
TnKcAddRoles(t) ==
  /\ TnAt(t, "kcadd")
  /\ LET wanted == RolesOf(tproc[t].spec, tproc[t].exist)
         given == [kcHas EXCEPT ![t] = @ \cup wanted]
     IN \/ wanted \subseteq kcRoles /\ UNCHANGED faults /\ kcHas' = given /\ Goto(t, "nc")
        \/ ~(wanted \subseteq kcRoles) /\ UNCHANGED <<kcHas, faults>> /\ Fail(t, "nc")
        \/ /\ Fault /\ Fail(t, "nc")
           /\ kcHas' = kcHas \/ (wanted \subseteq kcRoles /\ kcHas' = given)
  /\ UNCHANGED <<tnVars, wsVars, kcRoles, kcUsers, ncUsers, queueVars, ops>>

(* variant: a failure is logged and not remembered *)
TnNextcloud_logOnly(t) ==
  /\ TnAt(t, "nc") /\ Goto(t, "status")
  /\ \/ tproc[t].nsOk /\ ncUsers' = ncUsers \cup {t} /\ UNCHANGED faults
     \/ tproc[t].nsOk /\ Fault /\ UNCHANGED ncUsers
     \/ ~tproc[t].nsOk /\ UNCHANGED <<ncUsers, faults>>
  /\ UNCHANGED <<tnVars, wsVars, kcVars, queueVars, ops>>

(* handleNextcloudSubscription, attempted only with the namespace in place *)
TnNextcloud(t) ==
  /\ TnAt(t, "nc")
  /\ \/ tproc[t].nsOk /\ ncUsers' = ncUsers \cup {t} /\ Goto(t, "status") /\ UNCHANGED faults
     \/ /\ tproc[t].nsOk /\ Fault /\ Fail(t, "status")
        /\ ncUsers' \in {ncUsers, ncUsers \cup {t}}
     \/ ~tproc[t].nsOk /\ Goto(t, "status") /\ UNCHANGED <<ncUsers, faults>>
  /\ UNCHANGED <<tnVars, wsVars, kcVars, queueVars, ops>>

(* Status().Update: the server keeps its own metadata and spec. *)
TnStatus(t) ==
  /\ TnAt(t, "status")
  /\ \E ok \in BOOLEAN :
       /\ UpdateTn(t, "tenant", [tn[t] EXCEPT !.ready = ~tproc[t].err], ok, {})
       /\ tproc' = [tproc EXCEPT ![t].pc = "labels", ![t].err = @ \/ ~ok]
  /\ UNCHANGED <<wsVars, kcVars, ncUsers, queueVars, ops>>

(* variant: the label holds the workspace instead of the role *)
LabelsOf_workspace(spec, idx) ==
  [w \in Workspaces |-> IF \E i \in idx : spec[i].ws = w THEN w ELSE "none"]

(* updateTnLabels: a later entry of the same workspace overwrites an       *)
(* earlier one.                                                            *)
LabelsOf(spec, idx) ==
  [w \in Workspaces |->
     LET found == {i \in idx : spec[i].ws = w}
     IN IF found = {} THEN "none"
        ELSE spec[CHOOSE i \in found : \A j \in found : j <= i].role]

(* variant: labels of workspaces left meanwhile are not cleaned up *)
WithLabels_noClean(t) ==
  LET new == LabelsOf(tproc[t].spec, tproc[t].exist)
  IN [tn[t] EXCEPT !.spec = tproc[t].spec, !.fin = tproc[t].fin,
        !.labels = [w \in Workspaces |-> IF new[w] = "none" THEN @[w] ELSE new[w]]]

WithLabels(t) == [tn[t] EXCEPT !.spec = tproc[t].spec, !.fin = tproc[t].fin,
                               !.labels = LabelsOf(tproc[t].spec, tproc[t].exist)]

TnLabels(t) ==
  /\ TnAt(t, "labels")
  /\ \E ok \in BOOLEAN :
       /\ UpdateTn(t, "tenant", WithLabels(t), ok, {"tenant"})
       /\ TnReturn(t, tproc[t].err \/ ~ok, TRUE)
  /\ UNCHANGED <<wsVars, kcVars, ncUsers, ops>>

-----------------------------------------------------------------------------
(* Deletion: both accounts are tried whatever the other gives, and the     *)
(* finalizer is removed only when neither failed.                          *)

TnDeleteKcUser(t) ==
  /\ TnAt(t, "delkc")
  /\ LET gone == kcUsers' = kcUsers \ {t} /\ kcHas' = [kcHas EXCEPT ![t] = {}] IN
     \/ gone /\ Goto(t, "delnc") /\ UNCHANGED faults
     \/ Fault /\ (gone \/ UNCHANGED <<kcUsers, kcHas>>) /\ Fail(t, "delnc")
  /\ UNCHANGED <<tnVars, wsVars, kcRoles, ncUsers, queueVars, ops>>

(* variant: only the error of the Keycloak deletion is returned *)
TnDeleteNcUser_logOnly(t) ==
  /\ TnAt(t, "delnc") /\ Goto(t, "delfin")
  /\ \/ ncUsers' = ncUsers \ {t} /\ UNCHANGED faults
     \/ Fault /\ UNCHANGED ncUsers
  /\ UNCHANGED <<tnVars, wsVars, kcVars, queueVars, ops>>

TnDeleteNcUser(t) ==
  /\ TnAt(t, "delnc")
  /\ \/ ncUsers' = ncUsers \ {t} /\ Goto(t, "delfin") /\ UNCHANGED faults
     \/ Fault /\ ncUsers' \in {ncUsers, ncUsers \ {t}} /\ Fail(t, "delfin")
  /\ UNCHANGED <<tnVars, wsVars, kcVars, queueVars, ops>>

TnRemoveFinalizer(t) ==
  /\ TnAt(t, "delfin")
  /\ IF tproc[t].err
     THEN DropTn(t, {"tenant"}) /\ UNCHANGED <<tnCache, faults>> /\ TnReturn(t, TRUE, FALSE)
     ELSE \E ok \in BOOLEAN :
            /\ UpdateTn(t, "tenant", [tn[t] EXCEPT !.spec = tproc[t].spec, !.fin = FALSE], ok, {"tenant"})
            /\ TnReturn(t, ~ok, FALSE)
  /\ UNCHANGED <<wsVars, kcVars, ncUsers, ops>>

TnRun(t) ==
  \/ TnAddFinalizer(t) \/ TnResources(t)
  \/ TnKcUser(t) \/ TnKcGetRoles(t) \/ TnKcDeleteRoles(t) \/ TnKcAddRoles(t)
  \/ TnNextcloud(t) \/ TnStatus(t) \/ TnLabels(t)
  \/ TnDeleteKcUser(t) \/ TnDeleteNcUser(t) \/ TnRemoveFinalizer(t)

TnStep == \E t \in Tenants : TnRun(t) \/ TnGet(t)
=============================================================================
