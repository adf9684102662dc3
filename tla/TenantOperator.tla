--------------------------- MODULE TenantOperator ---------------------------
(***************************************************************************)
(* The tenant operator: both reconcilers run concurrently in one process   *)
(* over one cache, one API server, Keycloak and Nextcloud.                 *)
(***************************************************************************)
EXTENDS WorkspaceController, TenantController

vars == <<clusterVars, wproc, tproc>>

Init == /\ ClusterInit
        /\ wproc = WsIdle
        /\ tproc = [t \in Tenants |-> TnIdle]

(* A crash loses what is in flight. *)
Restart == /\ ClusterRestart
           /\ wproc' = WsIdle
           /\ tproc' = [t \in Tenants |-> TnIdle]

Next == \/ EnvStep /\ UNCHANGED <<wproc, tproc>>
        \/ WsStep /\ UNCHANGED tproc
        \/ TnStep /\ UNCHANGED wproc
        \/ Restart

Spec == Init /\ [][Next]_vars

(* Fairness. Watches deliver, delayed entries fall due and a started       *)
(* reconciliation goes on (weak). A queued key is eventually taken even if *)
(* other keys keep the worker busy in between, since the work queue is     *)
(* first in, first out (strong). Nobody is obliged to edit anything.       *)
Fairness ==
  /\ \A t \in Tenants :
       /\ WF_vars(WatchTn(t) /\ UNCHANGED <<wproc, tproc>>)
       /\ WF_vars(RequeueTn(t) /\ UNCHANGED <<wproc, tproc>>)
       /\ WF_vars(TnRun(t) /\ UNCHANGED wproc)
       /\ SF_vars(TnGet(t) /\ UNCHANGED wproc)
  /\ \A w \in Workspaces :
       /\ WF_vars(WatchWs(w) /\ UNCHANGED <<wproc, tproc>>)
       /\ WF_vars(RequeueWs(w) /\ UNCHANGED <<wproc, tproc>>)
       /\ SF_vars(WsGet(w) /\ UNCHANGED tproc)
  /\ WF_vars(WsRun /\ UNCHANGED tproc)

FairSpec == Spec /\ Fairness

-----------------------------------------------------------------------------
(* Every variable keeps its type: objects, copies, queues and the two      *)
(* reconcilers' local state (Reconcile of both controllers).               *)
TypeOK == ClusterTypeOK /\ WsTypeOK /\ TnTypeOK

(* What each copy of a tenant, and the cached copy of a workspace, has in  *)
(* common with the stored object as long as it is of the stored version.   *)
TnCacheCurrent(t) == "cache" \in tnFresh[t] => tnCache[t] = Cached(tn[t])

TnCopyCurrent(t) ==
  "tenant" \in tnFresh[t] /\ tproc[t] # TnIdle =>
    /\ tn[t].live
    /\ tn[t].sel /\ tn[t].spec = tproc[t].spec
    /\ tn[t].del <=> tproc[t].pc \in {"delkc", "delnc", "delfin"}
    /\ tn[t].fin => tproc[t].fin

TnListedCurrent(t) ==
  WsBusy /\ t \in wproc.items /\ "workspace" \in tnFresh[t] =>
    tn[t].live /\ wproc.specs[t] = tn[t].spec

WsCacheCurrent(w) == "cache" \in wsFresh[w] => wsCache[w] = Cached(ws[w])

(* The resourceVersion check protects the right thing: a copy that the API *)
(* server would accept in an Update describes the object as it is stored,  *)
(* apart from a finalizer the tenant reconciler added to its copy before   *)
(* the Update that was to store it failed (tenant_controller.go:112).      *)
FreshCopies ==
  /\ \A t \in Tenants : TnCacheCurrent(t) /\ TnCopyCurrent(t) /\ TnListedCurrent(t)
  /\ \A w \in Workspaces : WsCacheCurrent(w)

(* No step of the operator overwrites a subscription: the only change it   *)
(* makes to a tenant's workspace list is to drop an entry of the workspace *)
(* whose deletion it is handling, from the list as it is stored at that    *)
(* moment, however many edits and reconciliations are in between           *)
(* (workspace_controller.go:205, tenant_controller.go:115 and 200).        *)
NoLostSubscription ==
  [][ops' = ops => \A t \in Tenants :
       tn'[t].live /\ tn'[t].spec # tn[t].spec =>
         At("unsubscribe") /\ tn'[t].spec = RemoveWsFromTn(tn[t].spec, wproc.w)]_vars

(* A tenant that leaves the API server because the operator removed its    *)
(* finalizer has neither a Keycloak nor a Nextcloud account left           *)
(* (tenant_controller.go:91).                                              *)
CleanupBeforeFinalizer ==
  [][\A t \in Tenants :
       tn[t].fin /\ ~tn'[t].live => t \notin kcUsers /\ t \notin ncUsers]_vars

(* A workspace reported ready has its two Keycloak roles, until somebody   *)
(* asks for its deletion; also when a workspace of the same name was       *)
(* deleted before and its deletion is still being retried on a stale copy  *)
(* (workspace_controller.go:136 and 187).                                  *)
ReadyWorkspaceHasRoles ==
  \A w \in Workspaces : ws[w].ready /\ ~ws[w].del => {w} \X Roles \subseteq kcRoles

(* A tenant reported ready has both accounts, until its deletion is        *)
(* requested (tenant_controller.go:185).                                   *)
ReadyTenantHasAccounts ==
  \A t \in Tenants : tn[t].ready /\ ~tn[t].del => t \in kcUsers /\ t \in ncUsers

(* Nothing is pending for the tenant: its last version has been seen and   *)
(* reconciled.                                                             *)
Settled(t) ==
  /\ tn[t].live /\ ~tn[t].del /\ tn[t].sel
  /\ "cache" \in tnFresh[t] /\ t \notin tnQueue /\ tproc[t] = TnIdle

(* No change is missed: once nothing is pending for a tenant, it is ready, *)
(* its labels are those of its workspace list and its Keycloak user holds  *)
(* no role the list does not give (tenant_controller.go:159 to 210).       *)
SettledTenantIsConsistent ==
  \A t \in Tenants : Settled(t) =>
    /\ tn[t].ready
    /\ tn[t].labels = LabelsOf(tn[t].spec, DOMAIN tn[t].spec)
    /\ kcHas[t] \subseteq RolesOf(tn[t].spec, DOMAIN tn[t].spec)

(* When people stop editing, every tenant of this operator either goes     *)
(* away, if its deletion was asked for, or ends up with labels that name   *)
(* exactly the listed workspaces that exist, whatever calls fail and       *)
(* wherever the operator crashes (tenant_controller.go:83, 141 and 193).   *)
TenantConverges ==
  \A t \in Tenants : <>[](tn[t].live /\ tn[t].sel =>
    /\ ~tn[t].del
    /\ tn[t].labels = LabelsOf(tn[t].spec, {i \in DOMAIN tn[t].spec : ws[tn[t].spec[i].ws].live}))

-----------------------------------------------------------------------------
(* What a comment says, and the code does not do: "can remove the          *)
(* finalizer from the workspace if the eternal resources have been         *)
(* successfully deleted" (workspace_controller.go:79). A workspace that    *)
(* loses its finalizer has no Keycloak role left.                          *)
WsCleanupBeforeFinalizer ==
  [][\A w \in Workspaces :
       ws[w].fin /\ ~ws'[w].live => kcRoles \cap ({w} \X Roles) = {}]_vars
=============================================================================
