------------------------- MODULE WorkspaceController -------------------------
(***************************************************************************)
(* The workspace reconciler (pkg/tenant-controller/workspace_controller.go *)
(* with the role half of keycloak_utils.go). One worker; wproc is the      *)
(* reconciliation in flight: the step it has reached, the workspace,       *)
(* whether retrigErr is set, the Keycloak roles still to handle and the    *)
(* listed tenants still to unsubscribe, with their workspace lists.        *)
(* Of its copy of the workspace only the finalizer is ever changed.        *)
(***************************************************************************)
EXTENDS Cluster

VARIABLE wproc

WsSteps == {"fin", "res", "create", "status", "delete", "list", "unsubscribe", "delfin"}

WsProc == [pc : WsSteps, w : Workspaces, err : BOOLEAN, todo : SUBSET Roles,
           items : SUBSET Tenants, specs : [Tenants -> Seq(Entry)]]

WsIdle == [pc |-> "idle"]

WsBusy == wproc # WsIdle

WsTypeOK == wproc \in WsProc \cup {WsIdle}

At(pc) == WsBusy /\ wproc.pc = pc

(* The reconciliation returns: an error puts the key back in the queue,    *)
(* success outside the deletion branch asks for a RequeueAfter.            *)
WsReturn(err, after) ==
  /\ wproc' = WsIdle
  /\ wsQueue' = IF err THEN wsQueue \cup {wproc.w} ELSE wsQueue
  /\ wsDelayed' = IF ~err /\ after THEN wsDelayed \cup {wproc.w} ELSE wsDelayed
  /\ UNCHANGED <<tnQueue, tnDelayed>>

-----------------------------------------------------------------------------
(* Reads the cached workspace; gone or without the target label: returns.  *)
WsGet(w) ==
  /\ w \in wsQueue /\ ~WsBusy
  /\ wsQueue' = wsQueue \ {w}
  /\ LET o == wsCache[w]
         start(pc) == [pc |-> pc, w |-> w, err |-> FALSE, todo |-> Roles,
                       items |-> {}, specs |-> [t \in Tenants |-> << >>]]
     IN IF ~o.live \/ ~o.sel \/ (o.del /\ ~o.fin)
        THEN UNCHANGED <<wproc, wsFresh>>
        ELSE /\ wproc' = start(IF o.del THEN "delete" ELSE IF o.fin THEN "res" ELSE "fin")
             /\ wsFresh' = [wsFresh EXCEPT ![w] = CopyFresh(@, "workspace")]
  /\ UNCHANGED <<tnVars, ws, wsCache, kcVars, ncUsers, tnQueue, tnDelayed, wsDelayed,
                 faults, ops>>

(* A failed Update is remembered but the reconciliation goes on. *)
WsAddFinalizer ==
  /\ At("fin")
  /\ \E ok \in BOOLEAN :
       /\ UpdateWs(wproc.w, "workspace", [ws[wproc.w] EXCEPT !.fin = TRUE], ok, {})
       /\ wproc' = [wproc EXCEPT !.pc = "res", !.err = @ \/ ~ok]
  /\ UNCHANGED <<tnVars, kcVars, ncUsers, queueVars, ops>>

(* Namespace and role bindings: owned by the workspace, so only the        *)
(* outcome is kept.                                                        *)
CreateOrUpdateWsResources(ok) == (ok /\ UNCHANGED faults) \/ (~ok /\ Fault)

WsClusterResources ==
  /\ At("res")
  /\ \E ok \in BOOLEAN :
       /\ CreateOrUpdateWsResources(ok)
       /\ wproc' = [wproc EXCEPT !.pc = "create", !.err = @ \/ ~ok]
  /\ UNCHANGED <<tnVars, wsVars, kcVars, ncUsers, queueVars, ops>>

(* variant: the loop returns after the first role *)
WsCreateRole_oneRole(r) ==
  /\ At("create") /\ r \in wproc.todo
  /\ kcRoles' = kcRoles \cup {<<wproc.w, r>>}
  /\ wproc' = [wproc EXCEPT !.todo = {}, !.pc = "status"]
  /\ UNCHANGED <<tnVars, wsVars, kcUsers, kcHas, ncUsers, queueVars, faults, ops>>

(* The roles are the keys of a Go map: taken in any order, up to the first *)
(* error, which may come after Keycloak did what it was asked.             *)
WsCreateRole(r) ==
  /\ At("create") /\ r \in wproc.todo
  /\ LET role == <<wproc.w, r>>
         next(todo) == [wproc EXCEPT !.todo = todo,
                                     !.pc = IF todo = {} THEN "status" ELSE "create"]
     IN \/ /\ kcRoles' = kcRoles \cup {role} /\ UNCHANGED faults
           /\ wproc' = next(wproc.todo \ {r})
        \/ /\ Fault /\ kcRoles' \in {kcRoles, kcRoles \cup {role}}
           /\ wproc' = [next({}) EXCEPT !.err = TRUE]
  /\ UNCHANGED <<tnVars, wsVars, kcUsers, kcHas, ncUsers, queueVars, ops>>

(* Status().Update: the server keeps its own metadata. *)
WsStatus ==
  /\ At("status")
  /\ \E ok \in BOOLEAN :
       /\ UpdateWs(wproc.w, "workspace", [ws[wproc.w] EXCEPT !.ready = ~wproc.err], ok,
                   {"workspace"})
       /\ WsReturn(wproc.err \/ ~ok, TRUE)
  /\ UNCHANGED <<tnVars, kcVars, ncUsers, ops>>

-----------------------------------------------------------------------------
(* Deletion *)

(* Keycloak takes a deleted role away from the users that hold it. *)
WsDeleteRole(r) ==
  /\ At("delete") /\ r \in wproc.todo
  /\ LET role == <<wproc.w, r>>
         gone == /\ kcRoles' = kcRoles \ {role}
                 /\ kcHas' = [t \in Tenants |-> kcHas[t] \ {role}]
         next(todo) == [wproc EXCEPT !.todo = todo,
                                     !.pc = IF todo = {} THEN "list" ELSE "delete"]
     IN \/ gone /\ UNCHANGED faults /\ wproc' = next(wproc.todo \ {r})
        \/ /\ Fault /\ (gone \/ UNCHANGED <<kcRoles, kcHas>>)
           /\ wproc' = [next({}) EXCEPT !.err = TRUE]
  /\ UNCHANGED <<tnVars, wsVars, kcUsers, ncUsers, queueVars, ops>>

(* variant: the listed copies are written whatever their version *)
WsList_anyVersion ==
  /\ At("list")
  /\ LET found == {t \in Tenants : tnCache[t].live /\ tnCache[t].labels[wproc.w] # "none"} IN
     /\ wproc' = [wproc EXCEPT !.items = found,
                    !.specs = [t \in Tenants |-> IF t \in found THEN tnCache[t].spec ELSE << >>],
                    !.pc = IF found = {} THEN "delfin" ELSE "unsubscribe"]
     /\ tnFresh' = [t \in Tenants |-> IF t \in found THEN tnFresh[t] \cup {"workspace"}
                                      ELSE tnFresh[t]]
  /\ UNCHANGED <<tn, tnCache, wsVars, kcVars, ncUsers, queueVars, faults, ops>>

(* Lists, from the cache, the tenants that carry the workspace's label. *)
WsList ==
  /\ At("list")
  /\ LET found == {t \in Tenants : tnCache[t].live /\ tnCache[t].labels[wproc.w] # "none"} IN
     /\ wproc' = [wproc EXCEPT !.items = found,
                    !.specs = [t \in Tenants |-> IF t \in found THEN tnCache[t].spec ELSE << >>],
                    !.pc = IF found = {} THEN "delfin" ELSE "unsubscribe"]
     /\ tnFresh' = [t \in Tenants |-> IF t \in found THEN CopyFresh(tnFresh[t], "workspace")
                                      ELSE tnFresh[t]]
  /\ UNCHANGED <<tn, tnCache, wsVars, kcVars, ncUsers, queueVars, faults, ops>>

(* removeWsFromTn: the index kept is that of the last entry found *)
RemoveWsFromTn(spec, w) ==
  LET found == {i \in DOMAIN spec : spec[i].ws = w}
      last == CHOOSE i \in found : \A j \in found : j <= i
  IN IF found = {} THEN spec
     ELSE SubSeq(spec, 1, last - 1) \o SubSeq(spec, last + 1, Len(spec))

WsUnsubscribe(t) ==
  /\ At("unsubscribe") /\ t \in wproc.items
  /\ LET new == [tn[t] EXCEPT !.spec = RemoveWsFromTn(wproc.specs[t], wproc.w)]
         rest == wproc.items \ {t}
     IN \E ok \in BOOLEAN :
          /\ UpdateTn(t, "workspace", new, ok, {"workspace"})
          /\ wproc' = [wproc EXCEPT !.items = rest, !.specs[t] = << >>, !.err = @ \/ ~ok,
                                    !.pc = IF rest = {} THEN "delfin" ELSE "unsubscribe"]
  /\ UNCHANGED <<wsVars, kcVars, ncUsers, queueVars, ops>>

(* The finalizer is removed when retrigErr # nil, as the code tests it.    *)
WsRemoveFinalizer ==
  /\ At("delfin")
  /\ IF wproc.err
     THEN \E ok \in BOOLEAN : UpdateWs(wproc.w, "workspace", [ws[wproc.w] EXCEPT !.fin = FALSE],
                                       ok, {"workspace"})
     ELSE DropWs(wproc.w, {"workspace"}) /\ UNCHANGED <<wsCache, faults>>
  /\ WsReturn(wproc.err, FALSE)
  /\ UNCHANGED <<tnVars, kcVars, ncUsers, ops>>

WsRun ==
  \/ WsAddFinalizer \/ WsClusterResources \/ WsStatus
  \/ WsList \/ WsRemoveFinalizer
  \/ \E r \in Roles : WsCreateRole(r) \/ WsDeleteRole(r)
  \/ \E t \in Tenants : WsUnsubscribe(t)

WsStep == WsRun \/ \E w \in Workspaces : WsGet(w)
=============================================================================
