---------------------------- MODULE TenantProofs ----------------------------
(***************************************************************************)
(* What is proved of the tenant operator, in two parts.                    *)
(*                                                                         *)
(* TypeOK is an invariant: the edits, the watches, the restart and the     *)
(* steps of both reconcilers keep it. The copies the reconcilers may still *)
(* write are those of the stored objects (FreshCopies, inductive together  *)
(* with TypeOK), and therefore no subscription is lost                     *)
(* (NoLostSubscription).                                                   *)
(*                                                                         *)
(* What the operator has done when it says so: a tenant leaves only after  *)
(* its accounts (CleanupBeforeFinalizer), a tenant or workspace that is    *)
(* reported ready has its accounts or roles (ReadyTenantHasAccounts,       *)
(* ReadyWorkspaceHasRoles), and no change of a tenant is missed            *)
(* (SettledTenantIsConsistent).                                            *)
(***************************************************************************)
EXTENDS TenantOperator, TLAPS

WF == INSTANCE WellFoundedInduction

-----------------------------------------------------------------------------
(* A non-empty set of indices of a list has a last element: the index that *)
(* removeWsFromTn and updateTnLabels end up with after looping over it.    *)
LEMMA LastIndex ==
  ASSUME NEW n \in Nat, NEW S \in SUBSET (1 .. n), S # {}
  PROVE  \E i \in S : \A j \in S : j <= i
<1> DEFINE T == {n - i : i \in S}
           R == {ss \in Nat \X Nat : ss[1] < ss[2]}
<1>1. WF!IsWellFoundedOn(R, Nat)
  BY WF!NatLessThanWellFounded DEF WF!OpToRel
<1>2. T \subseteq Nat /\ T # {}
  <2>1. \A i \in S : n - i \in Nat
    OBVIOUS
  <2>2. PICK i \in S : TRUE
    OBVIOUS
  <2>3. n - i \in T
    BY <2>2
  <2> QED
    BY <2>1, <2>3
<1>3. PICK x \in T : \A y \in T : <<y, x>> \notin R
  BY <1>1, <1>2, WF!WFMin
<1>4. PICK i \in S : x = n - i
  BY <1>3
<1>5. \A j \in S : j <= i
  <2> SUFFICES ASSUME NEW j \in S PROVE j <= i
    OBVIOUS
  <2>1. n - j \in T /\ n - j \in Nat /\ x \in Nat
    BY <1>2, <1>3
  <2>2. ~(n - j < x)
    BY <2>1, <1>3
  <2> QED
    BY <2>2, <1>4
<1> QED
  BY <1>5

(* Dropping a workspace from a list of subscriptions leaves a list of      *)
(* subscriptions (removeWsFromTn).                                         *)
LEMMA RemoveWsType ==
  ASSUME NEW spec \in Seq(Entry), NEW w
  PROVE  RemoveWsFromTn(spec, w) \in Seq(Entry)
<1> DEFINE found == {i \in DOMAIN spec : spec[i].ws = w}
           k == CHOOSE i \in found : \A j \in found : j <= i
<1>1. CASE found = {}
  BY <1>1 DEF RemoveWsFromTn
<1>2. CASE found # {}
  <2>1. Len(spec) \in Nat /\ DOMAIN spec = 1 .. Len(spec)
    OBVIOUS
  <2>2. k \in 1 .. Len(spec)
    BY <1>2, <2>1, LastIndex
  <2> HIDE DEF k
  <2>3. SubSeq(spec, 1, k - 1) \in Seq(Entry) /\ SubSeq(spec, k + 1, Len(spec)) \in Seq(Entry)
    BY <2>1, <2>2
  <2>4. SubSeq(spec, 1, k - 1) \o SubSeq(spec, k + 1, Len(spec)) \in Seq(Entry)
    BY <2>3
  <2> QED
    BY <2>4, <1>2 DEF RemoveWsFromTn, k
<1> QED
  BY <1>1, <1>2

(* The labels computed from a list give every workspace a role or none     *)
(* (the label loop of the tenant's Reconcile).                             *)
LEMMA LabelsType ==
  ASSUME NEW spec \in Seq(Entry), NEW idx \in SUBSET DOMAIN spec
  PROVE  LabelsOf(spec, idx) \in [Workspaces -> Roles \cup {"none"}]
<1> SUFFICES ASSUME NEW w \in Workspaces
             PROVE  LabelsOf(spec, idx)[w] \in Roles \cup {"none"}
  BY DEF LabelsOf
<1> DEFINE found == {i \in idx : spec[i].ws = w}
           k == CHOOSE i \in found : \A j \in found : j <= i
<1>1. CASE found = {}
  BY <1>1 DEF LabelsOf
<1>2. CASE found # {}
  <2>1. Len(spec) \in Nat /\ DOMAIN spec = 1 .. Len(spec)
    OBVIOUS
  <2>2. k \in DOMAIN spec
    BY <1>2, <2>1, LastIndex
  <2> HIDE DEF k
  <2>3. spec[k] \in Entry
    BY <2>1, <2>2
  <2>4. spec[k].role \in Roles
    BY <2>3 DEF Entry
  <2> QED
    BY <2>4, <1>2 DEF LabelsOf, k
<1> QED
  BY <1>1, <1>2

-----------------------------------------------------------------------------
(* The values that stand for a deleted object are objects.                 *)
LEMMA NoObjects == NoTenant \in TenantObj /\ NoWorkspace \in WorkspaceObj
<1>1. << >> \in Seq(Entry)
  OBVIOUS
<1> QED
  BY <1>1 DEF NoTenant, NoWorkspace, TenantObj, WorkspaceObj, NoLabels

(* What users create is an object of its kind.                             *)
LEMMA NewObjects == NewTenants \subseteq TenantObj /\ NewWorkspace \in WorkspaceObj
<1>1. NewWorkspace \in WorkspaceObj
  BY NoObjects DEF NewWorkspace, WorkspaceObj
<1>2. ASSUME NEW s \in Specs
      PROVE  [NoTenant EXCEPT !.live = TRUE, !.sel = TRUE, !.spec = s] \in TenantObj
  <2>1. s \in Seq(Entry)
    BY ClusterAssumption
  <2> QED
    BY <2>1, NoObjects DEF TenantObj
<1> QED
  BY <1>1, <1>2 DEF NewTenants

(* The copy of an object in the informer cache is an object.               *)
LEMMA CachedType ==
  /\ \A obj \in TenantObj : Cached(obj) \in TenantObj
  /\ \A obj \in WorkspaceObj : Cached(obj) \in WorkspaceObj
BY DEF Cached, TenantObj, WorkspaceObj

(* An Update of a tenant, accepted, refused or lost, keeps the types of    *)
(* the tenant variables.                                                   *)
LEMMA UpdateTnType ==
  ASSUME TnVarsOK, BudgetsOK, NEW t \in Tenants, NEW h \in Holders, NEW new \in TenantObj,
         NEW ok \in BOOLEAN, NEW drop, UpdateTn(t, h, new, ok, drop)
  PROVE  TnVarsOK' /\ faults' \in Nat
<1>1. faults' \in Nat
  BY DEF UpdateTn, Fault, BudgetsOK
<1>2. CASE DropTn(t, drop)
  BY <1>1, <1>2 DEF UpdateTn, DropTn, TnVarsOK
<1>3. ASSUME NEW hs \in SUBSET Holders, StoreTn(t, new, hs, drop)
      PROVE  tn' \in [Tenants -> TenantObj] /\ tnFresh' \in [Tenants -> SUBSET Holders]
  BY <1>3, NoObjects DEF StoreTn, TnVarsOK
<1>4. CASE StoreTn(t, new, {h}, drop) \/ StoreTn(t, new, {}, drop)
  BY <1>1, <1>3, <1>4 DEF UpdateTn, TnVarsOK
<1> QED
  BY <1>2, <1>4 DEF UpdateTn

(* An Update of a workspace keeps the types of the workspace variables.    *)
LEMMA UpdateWsType ==
  ASSUME WsVarsOK, BudgetsOK, NEW w \in Workspaces, NEW h \in Holders, NEW new \in WorkspaceObj,
         NEW ok \in BOOLEAN, NEW drop, UpdateWs(w, h, new, ok, drop)
  PROVE  WsVarsOK' /\ faults' \in Nat
<1>1. faults' \in Nat
  BY DEF UpdateWs, Fault, BudgetsOK
<1>2. CASE DropWs(w, drop)
  BY <1>1, <1>2 DEF UpdateWs, DropWs, WsVarsOK
<1>3. ASSUME NEW hs \in SUBSET Holders, StoreWs(w, new, hs, drop)
      PROVE  ws' \in [Workspaces -> WorkspaceObj] /\ wsFresh' \in [Workspaces -> SUBSET Holders]
  BY <1>3, NoObjects DEF StoreWs, WsVarsOK
<1>4. CASE StoreWs(w, new, {h}, drop) \/ StoreWs(w, new, {}, drop)
  BY <1>1, <1>3, <1>4 DEF UpdateWs, WsVarsOK
<1> QED
  BY <1>2, <1>4 DEF UpdateWs

(* The initial state is well typed.                                        *)
LEMMA InitType == Init => TypeOK
<1> SUFFICES ASSUME Init PROVE TypeOK
  OBVIOUS
<1> USE DEF Init, ClusterInit
<1>1. TnVarsOK
  BY NoObjects, NewObjects DEF TnVarsOK, Holders
<1>2. WsVarsOK
  BY NoObjects, NewObjects DEF WsVarsOK, Holders
<1>3. KcVarsOK /\ QueuesOK /\ BudgetsOK
  BY ClusterAssumption DEF KcVarsOK, QueuesOK, BudgetsOK
<1>4. WsTypeOK /\ TnTypeOK
  BY DEF WsTypeOK, TnTypeOK
<1> QED
  BY <1>1, <1>2, <1>3, <1>4 DEF TypeOK, ClusterTypeOK

(* A user's write of a tenant keeps every type.                            *)
LEMMA UserPutTnType ==
  ASSUME TypeOK, NEW t \in Tenants, NEW kind, NEW new \in TenantObj,
         UserPutTn(t, kind, new), UNCHANGED <<wproc, tproc>>
  PROVE  TypeOK'
<1>1. TnVarsOK'
  BY NoObjects DEF TypeOK, ClusterTypeOK, UserPutTn, StoreTn, TnVarsOK
<1>2. WsVarsOK' /\ KcVarsOK' /\ QueuesOK' /\ BudgetsOK'
  BY DEF TypeOK, ClusterTypeOK, UserPutTn, UserEdit, wsVars, kcVars, queueVars,
                     WsVarsOK, KcVarsOK, QueuesOK, BudgetsOK
<1>3. WsTypeOK' /\ TnTypeOK'
  BY DEF TypeOK, ClusterTypeOK, TnVarsOK, WsVarsOK, KcVarsOK, QueuesOK,
    BudgetsOK, WsTypeOK, TnTypeOK
<1> QED
  BY <1>1, <1>2, <1>3 DEF TypeOK, ClusterTypeOK

(* A user's write of a workspace keeps every type.                         *)
LEMMA UserPutWsType ==
  ASSUME TypeOK, NEW w \in Workspaces, NEW kind, NEW new \in WorkspaceObj,
         UserPutWs(w, kind, new), UNCHANGED <<wproc, tproc>>
  PROVE  TypeOK'
<1>1. WsVarsOK'
  BY NoObjects DEF TypeOK, ClusterTypeOK, UserPutWs, StoreWs, WsVarsOK
<1>2. TnVarsOK' /\ KcVarsOK' /\ QueuesOK' /\ BudgetsOK'
  BY DEF TypeOK, ClusterTypeOK, UserPutWs, UserEdit, tnVars, kcVars, queueVars,
                     TnVarsOK, KcVarsOK, QueuesOK, BudgetsOK
<1>3. WsTypeOK' /\ TnTypeOK'
  BY DEF TypeOK, ClusterTypeOK, TnVarsOK, WsVarsOK, KcVarsOK, QueuesOK,
    BudgetsOK, WsTypeOK, TnTypeOK
<1> QED
  BY <1>1, <1>2, <1>3 DEF TypeOK, ClusterTypeOK

(* Edits by users, watch events and requeues keep every type.              *)
LEMMA EnvType == TypeOK /\ EnvStep /\ UNCHANGED <<wproc, tproc>> => TypeOK'
<1> SUFFICES ASSUME TypeOK, EnvStep, UNCHANGED <<wproc, tproc>> PROVE TypeOK'
  OBVIOUS
<1>t. /\ tn \in [Tenants -> TenantObj] /\ ws \in [Workspaces -> WorkspaceObj]
      /\ Specs \subseteq Seq(Entry)
  BY ClusterAssumption DEF TypeOK, ClusterTypeOK, TnVarsOK, WsVarsOK
<1>1. ASSUME NEW t \in Tenants, WatchTn(t) PROVE TypeOK'
  BY <1>1, CachedType DEF WatchTn, TypeOK, ClusterTypeOK, TnVarsOK, WsVarsOK, KcVarsOK, QueuesOK,
    BudgetsOK, WsTypeOK, TnTypeOK, Holders, wsVars, kcVars
<1>2. ASSUME NEW t \in Tenants, RequeueTn(t) PROVE TypeOK'
  BY <1>2 DEF RequeueTn, TypeOK, ClusterTypeOK, TnVarsOK, WsVarsOK, KcVarsOK, QueuesOK,
    BudgetsOK, WsTypeOK, TnTypeOK, tnVars, wsVars, kcVars
<1>3. ASSUME NEW t \in Tenants,
             UserCreateTn(t) \/ UserSubscribeTn(t) \/ UserRelabelTn(t) \/ UserDeleteTn(t)
      PROVE  TypeOK'
  <2>1. CASE UserCreateTn(t)
    BY <2>1, UserPutTnType, NewObjects DEF UserCreateTn
  <2>2. CASE UserSubscribeTn(t)
    <3>1. PICK spec \in Specs : UserPutTn(t, "subscribe", [tn[t] EXCEPT !.spec = spec])
      BY <2>2 DEF UserSubscribeTn
    <3>2. [tn[t] EXCEPT !.spec = spec] \in TenantObj
      BY <1>t DEF TenantObj
    <3> QED
      BY <3>1, <3>2, UserPutTnType
  <2>3. CASE UserRelabelTn(t)
    <3>1. [tn[t] EXCEPT !.sel = ~@] \in TenantObj
      BY <1>t DEF TenantObj
    <3> QED
      BY <2>3, <3>1, UserPutTnType DEF UserRelabelTn
  <2>4. CASE UserDeleteTn(t)
    <3>1. [tn[t] EXCEPT !.del = TRUE] \in TenantObj
      BY <1>t DEF TenantObj
    <3> QED
      BY <2>4, <3>1, UserPutTnType DEF UserDeleteTn
  <2> QED
    BY <1>3, <2>1, <2>2, <2>3, <2>4
<1>4. ASSUME NEW w \in Workspaces, WatchWs(w) PROVE TypeOK'
  BY <1>4, CachedType DEF WatchWs, TypeOK, ClusterTypeOK, TnVarsOK, WsVarsOK, KcVarsOK, QueuesOK,
    BudgetsOK, WsTypeOK, TnTypeOK, Holders, tnVars, kcVars
<1>5. ASSUME NEW w \in Workspaces, RequeueWs(w) PROVE TypeOK'
  BY <1>5 DEF RequeueWs, TypeOK, ClusterTypeOK, TnVarsOK, WsVarsOK, KcVarsOK, QueuesOK,
    BudgetsOK, WsTypeOK, TnTypeOK, tnVars, wsVars, kcVars
<1>6. ASSUME NEW w \in Workspaces, UserCreateWs(w) \/ UserRelabelWs(w) \/ UserDeleteWs(w)
      PROVE  TypeOK'
  <2>1. CASE UserCreateWs(w)
    BY <2>1, UserPutWsType, NewObjects DEF UserCreateWs
  <2>2. CASE UserRelabelWs(w)
    <3>1. [ws[w] EXCEPT !.sel = ~@] \in WorkspaceObj
      BY <1>t DEF WorkspaceObj
    <3> QED
      BY <2>2, <3>1, UserPutWsType DEF UserRelabelWs
  <2>3. CASE UserDeleteWs(w)
    <3>1. [ws[w] EXCEPT !.del = TRUE] \in WorkspaceObj
      BY <1>t DEF WorkspaceObj
    <3> QED
      BY <2>3, <3>1, UserPutWsType DEF UserDeleteWs
  <2> QED
    BY <1>6, <2>1, <2>2, <2>3
<1> QED
  BY <1>1, <1>2, <1>3, <1>4, <1>5, <1>6 DEF EnvStep

(* A restart of the operator keeps every type.                             *)
LEMMA RestartType == TypeOK /\ Restart => TypeOK'
BY CachedType DEF Restart, ClusterRestart, Fault, TypeOK, ClusterTypeOK, TnVarsOK, WsVarsOK,
                  KcVarsOK, QueuesOK,
    BudgetsOK, WsTypeOK, TnTypeOK,
                  Holders, kcVars

(* Every step of the workspace reconciler keeps every type                 *)
(* (workspace_controller.go, Reconcile).                                   *)
LEMMA WsType == TypeOK /\ WsStep /\ UNCHANGED tproc => TypeOK'
<1> SUFFICES ASSUME TypeOK, WsStep, UNCHANGED tproc PROVE TypeOK'
  OBVIOUS
<1>t. TnTypeOK'
  BY DEF TypeOK, TnTypeOK
<1>b. WsBusy => wproc \in WsProc
  BY DEF TypeOK, WsTypeOK, WsBusy
<1>r. ASSUME WsBusy, NEW err, NEW after, WsReturn(err, after) PROVE WsTypeOK' /\ QueuesOK'
  BY <1>b, <1>r DEF WsReturn, WsTypeOK, TypeOK, ClusterTypeOK, QueuesOK, WsProc
<1>1. ASSUME NEW w \in Workspaces, WsGet(w) PROVE TypeOK'
  <2>1. WsTypeOK'
    <3> DEFINE start(pc) == [pc |-> pc, w |-> w, err |-> FALSE, todo |-> Roles, items |-> {},
                             specs |-> [t \in Tenants |-> << >>]]
    <3>1. [t \in Tenants |-> << >>] \in [Tenants -> Seq(Entry)]
      OBVIOUS
    <3>2. \A pc \in WsSteps : start(pc) \in WsProc
      BY <3>1 DEF WsProc
    <3>3. wproc' = wproc \/ \E pc \in {"delete", "res", "fin"} : wproc' = start(pc)
      BY <1>1 DEF WsGet
    <3> HIDE DEF start
    <3> QED
      BY <3>2, <3>3 DEF TypeOK, WsTypeOK, WsSteps
  <2>2. WsVarsOK' /\ TnVarsOK' /\ KcVarsOK' /\ QueuesOK' /\ BudgetsOK'
    BY <1>1 DEF WsGet, CopyFresh, Holders, tnVars, kcVars, TypeOK, ClusterTypeOK, TnVarsOK,
                WsVarsOK, KcVarsOK, QueuesOK, BudgetsOK
  <2> QED
    BY <1>t, <2>1, <2>2 DEF TypeOK, ClusterTypeOK
<1>2. CASE WsAddFinalizer
  <2>1. wproc \in WsProc
    BY <1>2, <1>b DEF WsAddFinalizer, At
  <2>2. PICK ok \in BOOLEAN :
          /\ UpdateWs(wproc.w, "workspace", [ws[wproc.w] EXCEPT !.fin = TRUE], ok, {})
          /\ wproc' = [wproc EXCEPT !.pc = "res", !.err = @ \/ ~ok]
    BY <1>2 DEF WsAddFinalizer
  <2>3. [ws[wproc.w] EXCEPT !.fin = TRUE] \in WorkspaceObj /\ wproc.w \in Workspaces
    <3>1. wproc.w \in Workspaces /\ wproc.err \in BOOLEAN
      BY <2>1 DEF WsProc
    <3>2. ws[wproc.w] \in WorkspaceObj
      BY <3>1 DEF TypeOK, ClusterTypeOK, WsVarsOK
    <3> QED
      BY <3>1, <3>2 DEF WorkspaceObj
  <2>4. WsVarsOK' /\ faults' \in Nat
    BY <2>2, <2>3, UpdateWsType DEF TypeOK, ClusterTypeOK, Holders
  <2>5. WsTypeOK'
    BY <2>1, <2>2 DEF WsTypeOK, WsProc, WsSteps
  <2>6. TnVarsOK' /\ KcVarsOK' /\ QueuesOK' /\ BudgetsOK'
    BY <1>2, <2>4 DEF WsAddFinalizer, tnVars, kcVars, queueVars, TypeOK, ClusterTypeOK,
                      TnVarsOK, WsVarsOK, KcVarsOK, QueuesOK, BudgetsOK
  <2> QED
    BY <1>t, <2>4, <2>5, <2>6 DEF TypeOK, ClusterTypeOK
<1>3. CASE WsClusterResources
  <2>1. wproc \in WsProc
    BY <1>3, <1>b DEF WsClusterResources, At
  <2>2. WsTypeOK'
    BY <1>3, <2>1 DEF WsClusterResources, WsTypeOK, WsProc, WsSteps
  <2>3. TnVarsOK' /\ WsVarsOK' /\ KcVarsOK' /\ QueuesOK' /\ BudgetsOK'
    BY <1>3 DEF WsClusterResources, CreateOrUpdateWsResources, Fault, tnVars, wsVars, kcVars,
                queueVars, TypeOK, ClusterTypeOK, TnVarsOK, WsVarsOK, KcVarsOK, QueuesOK,
                BudgetsOK
  <2> QED
    BY <1>t, <2>2, <2>3 DEF TypeOK, ClusterTypeOK
<1>4. ASSUME NEW r \in Roles, WsCreateRole(r) PROVE TypeOK'
  <2>1. wproc \in WsProc
    BY <1>4, <1>b DEF WsCreateRole, At
  <2>2. WsTypeOK'
    <3>1. wproc.todo \in SUBSET Roles /\ wproc.err \in BOOLEAN
      BY <2>1 DEF WsProc
    <3>2. CASE wproc' = [wproc EXCEPT !.todo = wproc.todo \ {r},
                           !.pc = IF wproc.todo \ {r} = {} THEN "status" ELSE "create"]
      BY <2>1, <3>1, <3>2 DEF WsTypeOK, WsProc, WsSteps
    <3>3. CASE wproc' = [wproc EXCEPT !.todo = {}, !.pc = "status", !.err = TRUE]
      BY <2>1, <3>3 DEF WsTypeOK, WsProc, WsSteps
    <3> QED
      BY <1>4, <3>2, <3>3 DEF WsCreateRole
  <2>3. KcVarsOK'
    BY <1>4, <2>1 DEF WsCreateRole, WsProc, TypeOK, ClusterTypeOK, KcVarsOK, KcRole
  <2>4. TnVarsOK' /\ WsVarsOK' /\ QueuesOK' /\ BudgetsOK'
    BY <1>4 DEF WsCreateRole, Fault, tnVars, wsVars, queueVars, TypeOK, ClusterTypeOK, TnVarsOK,
                WsVarsOK, KcVarsOK, QueuesOK, BudgetsOK
  <2> QED
    BY <1>t, <2>2, <2>3, <2>4 DEF TypeOK, ClusterTypeOK
<1>5. CASE WsStatus
  <2>1. wproc \in WsProc
    BY <1>5, <1>b DEF WsStatus, At
  <2>2. PICK ok \in BOOLEAN :
          /\ UpdateWs(wproc.w, "workspace", [ws[wproc.w] EXCEPT !.ready = ~wproc.err], ok,
                      {"workspace"})
          /\ WsReturn(wproc.err \/ ~ok, TRUE)
    BY <1>5 DEF WsStatus
  <2>3. [ws[wproc.w] EXCEPT !.ready = ~wproc.err] \in WorkspaceObj /\ wproc.w \in Workspaces
    <3>1. wproc.w \in Workspaces /\ wproc.err \in BOOLEAN
      BY <2>1 DEF WsProc
    <3>2. ws[wproc.w] \in WorkspaceObj
      BY <3>1 DEF TypeOK, ClusterTypeOK, WsVarsOK
    <3> QED
      BY <3>1, <3>2 DEF WorkspaceObj
  <2>4. WsVarsOK' /\ faults' \in Nat
    BY <2>2, <2>3, UpdateWsType DEF TypeOK, ClusterTypeOK, Holders
  <2>5. WsTypeOK' /\ QueuesOK'
    BY <1>5, <1>r, <2>2 DEF WsStatus, At
  <2>6. TnVarsOK' /\ KcVarsOK' /\ BudgetsOK'
    BY <1>5, <2>4 DEF WsStatus, tnVars, kcVars, TypeOK, ClusterTypeOK, TnVarsOK, WsVarsOK,
                      KcVarsOK, QueuesOK, BudgetsOK
  <2> QED
    BY <1>t, <2>4, <2>5, <2>6 DEF TypeOK, ClusterTypeOK
<1>6. ASSUME NEW r \in Roles, WsDeleteRole(r) PROVE TypeOK'
  <2>1. wproc \in WsProc
    BY <1>6, <1>b DEF WsDeleteRole, At
  <2>2. WsTypeOK'
    <3>1. wproc.todo \in SUBSET Roles /\ wproc.err \in BOOLEAN
      BY <2>1 DEF WsProc
    <3>2. CASE wproc' = [wproc EXCEPT !.todo = wproc.todo \ {r},
                           !.pc = IF wproc.todo \ {r} = {} THEN "list" ELSE "delete"]
      BY <2>1, <3>1, <3>2 DEF WsTypeOK, WsProc, WsSteps
    <3>3. CASE wproc' = [wproc EXCEPT !.todo = {}, !.pc = "list", !.err = TRUE]
      BY <2>1, <3>3 DEF WsTypeOK, WsProc, WsSteps
    <3> QED
      BY <1>6, <3>2, <3>3 DEF WsDeleteRole
  <2>3. KcVarsOK'
    BY <1>6 DEF WsDeleteRole, TypeOK, ClusterTypeOK, KcVarsOK
  <2>4. TnVarsOK' /\ WsVarsOK' /\ QueuesOK' /\ BudgetsOK'
    BY <1>6 DEF WsDeleteRole, Fault, tnVars, wsVars, queueVars, TypeOK, ClusterTypeOK, TnVarsOK,
                WsVarsOK, KcVarsOK, QueuesOK, BudgetsOK
  <2> QED
    BY <1>t, <2>2, <2>3, <2>4 DEF TypeOK, ClusterTypeOK
<1>7. CASE WsList
  <2>1. wproc \in WsProc
    BY <1>7, <1>b DEF WsList, At
  <2>2. \A u \in Tenants : tnCache[u].spec \in Seq(Entry) /\ << >> \in Seq(Entry)
    BY DEF TypeOK, ClusterTypeOK, TnVarsOK, TenantObj
  <2>3. WsTypeOK'
    BY <1>7, <2>1, <2>2 DEF WsList, WsTypeOK, WsProc, WsSteps
  <2>4. TnVarsOK' /\ WsVarsOK' /\ KcVarsOK' /\ QueuesOK' /\ BudgetsOK'
    BY <1>7 DEF WsList, CopyFresh, Holders, wsVars, kcVars, queueVars, TypeOK, ClusterTypeOK,
                TnVarsOK, WsVarsOK, KcVarsOK, QueuesOK, BudgetsOK
  <2> QED
    BY <1>t, <2>3, <2>4 DEF TypeOK, ClusterTypeOK
<1>8. ASSUME NEW t \in Tenants, WsUnsubscribe(t) PROVE TypeOK'
  <2> DEFINE new == [tn[t] EXCEPT !.spec = RemoveWsFromTn(wproc.specs[t], wproc.w)]
  <2>1. wproc \in WsProc
    BY <1>8, <1>b DEF WsUnsubscribe, At
  <2>2. new \in TenantObj
    <3>1. wproc.specs[t] \in Seq(Entry)
      BY <2>1 DEF WsProc
    <3>2. RemoveWsFromTn(wproc.specs[t], wproc.w) \in Seq(Entry)
      BY <3>1, RemoveWsType
    <3> QED
      BY <3>2 DEF TenantObj, TypeOK, ClusterTypeOK, TnVarsOK
  <2>3. PICK ok \in BOOLEAN :
          /\ UpdateTn(t, "workspace", new, ok, {"workspace"})
          /\ wproc' = [wproc EXCEPT !.items = wproc.items \ {t}, !.specs[t] = << >>,
                                    !.err = @ \/ ~ok,
                                    !.pc = IF wproc.items \ {t} = {} THEN "delfin"
                                           ELSE "unsubscribe"]
    BY <1>8 DEF WsUnsubscribe
  <2>4. TnVarsOK' /\ faults' \in Nat
    BY <2>2, <2>3, UpdateTnType DEF TypeOK, ClusterTypeOK, Holders
  <2>5. WsTypeOK'
    <3>1. << >> \in Seq(Entry)
      OBVIOUS
    <3> QED
      BY <2>1, <2>3, <3>1 DEF WsTypeOK, WsProc, WsSteps
  <2>6. WsVarsOK' /\ KcVarsOK' /\ QueuesOK' /\ BudgetsOK'
    BY <1>8, <2>4 DEF WsUnsubscribe, wsVars, kcVars, queueVars, TypeOK, ClusterTypeOK, TnVarsOK,
                      WsVarsOK, KcVarsOK, QueuesOK, BudgetsOK
  <2> QED
    BY <1>t, <2>4, <2>5, <2>6 DEF TypeOK, ClusterTypeOK
<1>9. CASE WsRemoveFinalizer
  <2>1. wproc \in WsProc
    BY <1>9, <1>b DEF WsRemoveFinalizer, At
  <2>2. WsTypeOK' /\ QueuesOK'
    BY <1>9, <1>r DEF WsRemoveFinalizer, At
  <2>3. WsVarsOK' /\ faults' \in Nat
    <3>1. CASE wproc.err
      <4>0. wproc.w \in Workspaces /\ ws[wproc.w] \in WorkspaceObj
        BY <2>1 DEF WsProc, TypeOK, ClusterTypeOK, WsVarsOK
      <4>1. [ws[wproc.w] EXCEPT !.fin = FALSE] \in WorkspaceObj /\ wproc.w \in Workspaces
        BY <4>0 DEF WorkspaceObj
      <4> QED
        BY <1>9, <3>1, <4>1, UpdateWsType DEF WsRemoveFinalizer, TypeOK, ClusterTypeOK, Holders
    <3>2. CASE ~wproc.err
      BY <1>9, <3>2 DEF WsRemoveFinalizer, DropWs, TypeOK, ClusterTypeOK, WsVarsOK, BudgetsOK
    <3> QED
      BY <3>1, <3>2
  <2>4. TnVarsOK' /\ KcVarsOK' /\ BudgetsOK'
    BY <1>9, <2>3 DEF WsRemoveFinalizer, tnVars, kcVars, TypeOK, ClusterTypeOK, TnVarsOK,
                      WsVarsOK, KcVarsOK, QueuesOK, BudgetsOK
  <2> QED
    BY <1>t, <2>2, <2>3, <2>4 DEF TypeOK, ClusterTypeOK
<1> QED
  BY <1>1, <1>2, <1>3, <1>4, <1>5, <1>6, <1>7, <1>8, <1>9 DEF WsStep, WsRun

-----------------------------------------------------------------------------
(* Every step of the tenant reconciler keeps every type                    *)
(* (tenant_controller.go, Reconcile).                                      *)
LEMMA TnType == TypeOK /\ TnStep /\ UNCHANGED wproc => TypeOK'
<1> SUFFICES ASSUME TypeOK, NEW t \in Tenants, TnRun(t) \/ TnGet(t), UNCHANGED wproc
             PROVE  TypeOK'
  BY DEF TnStep
<1>w. WsTypeOK'
  BY DEF TypeOK, WsTypeOK
<1>b. ASSUME NEW pc \in TnSteps, TnAt(t, pc)
      PROVE  tproc[t] \in TnProc /\ tproc[t] # TnIdle /\ tproc[t].exist \subseteq DOMAIN tproc[t].spec
  BY <1>b DEF TnAt, TypeOK, TnTypeOK, TnIdle, TnSteps
<1>s. tproc \in [Tenants -> TnProc \cup {TnIdle}]
  BY DEF TypeOK, TnTypeOK
<1>p. ASSUME NEW p \in TnProc \cup {TnIdle}, tproc' = [tproc EXCEPT ![t] = p],
             p # TnIdle => p.exist \subseteq DOMAIN p.spec
      PROVE  TnTypeOK'
  BY <1>p DEF TypeOK, TnTypeOK
<1>g. ASSUME NEW pc \in TnSteps, TnAt(t, pc), NEW q \in TnSteps, NEW err \in BOOLEAN,
             tproc' = [tproc EXCEPT ![t].pc = q, ![t].err = err]
      PROVE  TnTypeOK'
  <2> DEFINE p == [tproc[t] EXCEPT !.pc = q, !.err = err]
  <2>1. p \in TnProc /\ p.exist = tproc[t].exist /\ p.spec = tproc[t].spec
    BY <1>g, <1>b DEF TnProc
  <2>2. tproc' = [tproc EXCEPT ![t] = p]
    BY <1>g
  <2> HIDE DEF p
  <2> QED
    BY <1>b, <1>g, <1>p, <2>1, <2>2
<1>h. ASSUME NEW pc \in TnSteps, TnAt(t, pc), NEW q \in TnSteps, Goto(t, q) \/ Fail(t, q)
      PROVE  TnTypeOK'
  <2>1. tproc[t].err \in BOOLEAN /\ tproc[t] = [tproc[t] EXCEPT !.err = tproc[t].err]
    BY <1>b, <1>h DEF TnProc
  <2>2. CASE Fail(t, q)
    BY <1>h, <1>g, <2>2 DEF Fail
  <2>3. CASE Goto(t, q)
    <3>1. tproc' = [tproc EXCEPT ![t].pc = q, ![t].err = tproc[t].err]
      BY <1>h, <1>b, <1>s, <2>1, <2>3 DEF Goto, TnProc
    <3> QED
      BY <1>h, <1>g, <2>1, <3>1
  <2> QED
    BY <1>h, <2>2, <2>3
<1>r. ASSUME NEW err, NEW after, TnReturn(t, err, after) PROVE TnTypeOK' /\ QueuesOK'
  BY <1>r DEF TnReturn, TypeOK, ClusterTypeOK, QueuesOK, TnTypeOK
<1>o. tn[t] \in TenantObj /\ tnCache[t] \in TenantObj
  BY DEF TypeOK, ClusterTypeOK, TnVarsOK
<1>1. CASE TnGet(t)
  <2> DEFINE start(pc) == [pc |-> pc, spec |-> tnCache[t].spec, fin |-> tnCache[t].fin,
                           err |-> FALSE, nsOk |-> FALSE, exist |-> {}, drop |-> {}]
  <2>1. \A pc \in TnSteps : start(pc) \in TnProc /\ start(pc).exist = {}
    BY <1>o DEF TnProc, TenantObj
  <2>2. tproc' = tproc \/ \E pc \in TnSteps : tproc' = [tproc EXCEPT ![t] = start(pc)]
    BY <1>1 DEF TnGet, TnSteps
  <2> HIDE DEF start
  <2>3. TnTypeOK'
    <3>1. CASE tproc' = tproc
      BY <3>1 DEF TypeOK, TnTypeOK
    <3>2. ASSUME NEW pc \in TnSteps, tproc' = [tproc EXCEPT ![t] = start(pc)] PROVE TnTypeOK'
      BY <1>p, <2>1, <3>2 DEF TypeOK, TnTypeOK
    <3> QED
      BY <2>2, <3>1, <3>2
  <2>4. TnVarsOK'
    <3>1. /\ UNCHANGED <<tn, tnCache>>
          /\ tnFresh' = tnFresh \/ tnFresh' = [tnFresh EXCEPT ![t] = CopyFresh(@, "tenant")]
      BY <1>1 DEF TnGet
    <3> QED
      BY <3>1 DEF CopyFresh, Holders, TypeOK, ClusterTypeOK, TnVarsOK
  <2>5. WsVarsOK' /\ KcVarsOK' /\ QueuesOK' /\ BudgetsOK'
    BY <1>1 DEF TnGet, wsVars, kcVars, TypeOK, ClusterTypeOK, WsVarsOK, KcVarsOK, QueuesOK, BudgetsOK
  <2> QED
    BY <1>w, <2>3, <2>4, <2>5 DEF TypeOK, ClusterTypeOK
<1>2. CASE TnAddFinalizer(t)
  <2> DEFINE new == [tn[t] EXCEPT !.spec = tproc[t].spec, !.fin = TRUE]
  <2>1. TnAt(t, "fin") /\ "fin" \in TnSteps
    BY <1>2 DEF TnAddFinalizer, TnSteps
  <2>2. tproc[t] \in TnProc
    BY <1>b, <2>1
  <2>3. new \in TenantObj
    BY <1>o, <2>2 DEF TnProc, TenantObj
  <2>4. PICK ok \in BOOLEAN :
          /\ UpdateTn(t, "tenant", new, ok, {})
          /\ tproc' = [tproc EXCEPT ![t].pc = "res", ![t].fin = TRUE, ![t].err = @ \/ ~ok]
    BY <1>2 DEF TnAddFinalizer
  <2>5. TnVarsOK' /\ faults' \in Nat
    BY <2>3, <2>4, UpdateTnType DEF TypeOK, ClusterTypeOK, Holders
  <2>6. TnTypeOK'
    <3> DEFINE p == [tproc[t] EXCEPT !.pc = "res", !.fin = TRUE, !.err = @ \/ ~ok]
    <3>1. p \in TnProc /\ p.exist = tproc[t].exist /\ p.spec = tproc[t].spec
      BY <2>2 DEF TnProc, TnSteps
    <3>2. tproc' = [tproc EXCEPT ![t] = p]
      BY <2>4
    <3> HIDE DEF p
    <3> QED
      BY <1>b, <1>p, <2>1, <3>1, <3>2
  <2>7. WsVarsOK' /\ KcVarsOK' /\ QueuesOK' /\ BudgetsOK'
    BY <1>2, <2>5 DEF TnAddFinalizer, wsVars, kcVars, queueVars, TypeOK, ClusterTypeOK,
                      WsVarsOK, KcVarsOK, QueuesOK, BudgetsOK
  <2> QED
    BY <1>w, <2>5, <2>6, <2>7 DEF TypeOK, ClusterTypeOK
<1>3. CASE TnResources(t)
  <2> DEFINE exist == {i \in DOMAIN tproc[t].spec : wsCache[tproc[t].spec[i].ws].live}
  <2>1. tproc[t] \in TnProc
    BY <1>3, <1>b DEF TnResources, TnSteps
  <2>2. PICK nsOk, err \in BOOLEAN :
          tproc' = [tproc EXCEPT ![t].pc = "kcuser", ![t].nsOk = nsOk, ![t].exist = exist,
                                 ![t].err = err]
    <3>1. PICK nsOk, resOk \in BOOLEAN :
            tproc' = [tproc EXCEPT ![t].pc = "kcuser", ![t].nsOk = nsOk, ![t].exist = exist,
                      ![t].err = tproc[t].err \/ ~resOk \/ exist # DOMAIN tproc[t].spec]
      BY <1>3 DEF TnResources, CreateOrUpdateTnResources
    <3>2. (tproc[t].err \/ ~resOk \/ exist # DOMAIN tproc[t].spec) \in BOOLEAN
      OBVIOUS
    <3> QED
      BY <3>1, <3>2
  <2>3. exist \subseteq DOMAIN tproc[t].spec /\ exist \subseteq Nat
    BY <2>1 DEF TnProc
  <2> HIDE DEF exist
  <2>4. TnTypeOK'
    <3> DEFINE p == [tproc[t] EXCEPT !.pc = "kcuser", !.nsOk = nsOk, !.exist = exist, !.err = err]
    <3>1. p \in TnProc /\ p.exist = exist /\ p.spec = tproc[t].spec
      BY <2>1, <2>2, <2>3 DEF TnProc, TnSteps
    <3>2. tproc' = [tproc EXCEPT ![t] = p]
      BY <2>2
    <3> HIDE DEF p
    <3> QED
      BY <1>p, <2>3, <3>1, <3>2
  <2>5. UNCHANGED <<tnVars, wsVars, kcVars, ncUsers, queueVars, ops>>
    BY <1>3 DEF TnResources, CreateOrUpdateTnResources
  <2>6. faults' \in Nat
    <3>1. UNCHANGED faults \/ Fault
      BY <1>3 DEF TnResources, CreateOrUpdateTnResources
    <3> QED
      BY <3>1 DEF Fault, TypeOK, ClusterTypeOK, BudgetsOK
  <2>7. TnVarsOK' /\ WsVarsOK' /\ KcVarsOK' /\ QueuesOK' /\ BudgetsOK'
    BY <2>5, <2>6 DEF tnVars, wsVars, kcVars, queueVars, TypeOK, ClusterTypeOK,
                TnVarsOK, WsVarsOK, KcVarsOK, QueuesOK, BudgetsOK
  <2> QED
    BY <1>w, <2>4, <2>7 DEF TypeOK, ClusterTypeOK
<1>4. CASE TnKcUser(t) \/ TnNextcloud(t) \/ TnDeleteNcUser(t)
  <2>1. TnTypeOK'
    BY <1>4, <1>h DEF TnKcUser, TnNextcloud, TnDeleteNcUser, TnSteps
  <2>2. KcVarsOK' /\ BudgetsOK'
    <3>1. CASE TnKcUser(t)
      BY <3>1 DEF TnKcUser, Fault, TypeOK, ClusterTypeOK, KcVarsOK, BudgetsOK
    <3>2. CASE TnNextcloud(t)
      BY <3>2 DEF TnNextcloud, Fault, kcVars, TypeOK, ClusterTypeOK, KcVarsOK, BudgetsOK
    <3>3. CASE TnDeleteNcUser(t)
      BY <3>3 DEF TnDeleteNcUser, Fault, kcVars, TypeOK, ClusterTypeOK, KcVarsOK, BudgetsOK
    <3> QED
      BY <1>4, <3>1, <3>2, <3>3
  <2>3. TnVarsOK' /\ WsVarsOK' /\ QueuesOK'
    BY <1>4 DEF TnKcUser, TnNextcloud, TnDeleteNcUser, tnVars, wsVars, queueVars, TypeOK,
                ClusterTypeOK, TnVarsOK, WsVarsOK, QueuesOK
  <2> QED
    BY <1>w, <2>1, <2>2, <2>3 DEF TypeOK, ClusterTypeOK
<1>5. ASSUME NEW pc \in TnSteps, TnAt(t, pc), NEW q \in TnSteps, NEW drop \in SUBSET KcRole,
             tproc' = [tproc EXCEPT ![t].pc = q, ![t].drop = drop]
      PROVE  TnTypeOK'
  <2> DEFINE p == [tproc[t] EXCEPT !.pc = q, !.drop = drop]
  <2>1. p \in TnProc /\ p.exist = tproc[t].exist /\ p.spec = tproc[t].spec
    BY <1>5, <1>b DEF TnProc
  <2>2. tproc' = [tproc EXCEPT ![t] = p]
    BY <1>5
  <2> HIDE DEF p
  <2> QED
    BY <1>b, <1>5, <1>p, <2>1, <2>2
<1>6. CASE TnKcGetRoles(t)
  <2> DEFINE wanted == RolesOf(tproc[t].spec, tproc[t].exist)
             drop == kcHas[t] \ wanted
             q == IF drop = {} THEN "kcadd" ELSE "kcdel"
  <2>1. TnAt(t, "kcget") /\ "kcget" \in TnSteps /\ "nc" \in TnSteps /\ q \in TnSteps
    BY <1>6 DEF TnKcGetRoles, TnSteps
  <2>2. drop \in SUBSET KcRole
    BY DEF TypeOK, ClusterTypeOK, KcVarsOK
  <2>3. tproc' = [tproc EXCEPT ![t].pc = q, ![t].drop = drop] \/ Fail(t, "nc")
    BY <1>6 DEF TnKcGetRoles
  <2> HIDE DEF drop, q
  <2>4. TnTypeOK'
    BY <1>5, <1>h, <2>1, <2>2, <2>3
  <2>5. TnVarsOK' /\ WsVarsOK' /\ KcVarsOK' /\ QueuesOK' /\ BudgetsOK'
    BY <1>6 DEF TnKcGetRoles, Fault, tnVars, wsVars, kcVars, queueVars, TypeOK, ClusterTypeOK,
                TnVarsOK,
                WsVarsOK, KcVarsOK, QueuesOK, BudgetsOK
  <2> QED
    BY <1>w, <2>4, <2>5 DEF TypeOK, ClusterTypeOK
<1>7. CASE TnKcDeleteRoles(t)
  <2>1. TnAt(t, "kcdel") /\ "kcdel" \in TnSteps /\ "kcadd" \in TnSteps /\ "nc" \in TnSteps
    BY <1>7 DEF TnKcDeleteRoles, TnSteps
  <2>2. tproc' = [tproc EXCEPT ![t].pc = "kcadd", ![t].drop = {}] \/ Fail(t, "nc")
    BY <1>7 DEF TnKcDeleteRoles
  <2>3. TnTypeOK'
    BY <1>5, <1>h, <2>1, <2>2
  <2>4. TnVarsOK' /\ WsVarsOK' /\ KcVarsOK' /\ QueuesOK' /\ BudgetsOK'
    BY <1>7 DEF TnKcDeleteRoles, Fault, tnVars, wsVars, queueVars, TypeOK, ClusterTypeOK,
                TnVarsOK,
                WsVarsOK, KcVarsOK, QueuesOK, BudgetsOK
  <2> QED
    BY <1>w, <2>3, <2>4 DEF TypeOK, ClusterTypeOK
<1>8. CASE TnKcAddRoles(t)
  <2> DEFINE wanted == RolesOf(tproc[t].spec, tproc[t].exist)
  <2>1. TnAt(t, "kcadd") /\ "kcadd" \in TnSteps /\ "nc" \in TnSteps
    BY <1>8 DEF TnKcAddRoles, TnSteps
  <2>2. Goto(t, "nc") \/ Fail(t, "nc")
    BY <1>8 DEF TnKcAddRoles
  <2>3. TnTypeOK'
    BY <1>h, <2>1, <2>2
  <2>4. kcHas' = kcHas \/ (wanted \subseteq kcRoles /\ kcHas' = [kcHas EXCEPT ![t] = @ \cup wanted])
    BY <1>8 DEF TnKcAddRoles
  <2> HIDE DEF wanted
  <2>5. KcVarsOK'
    BY <1>8, <2>4 DEF TnKcAddRoles, TypeOK, ClusterTypeOK, KcVarsOK
  <2>6. TnVarsOK' /\ WsVarsOK' /\ QueuesOK' /\ BudgetsOK'
    BY <1>8 DEF TnKcAddRoles, Fault, tnVars, wsVars, queueVars, TypeOK, ClusterTypeOK, TnVarsOK,
                WsVarsOK, KcVarsOK, QueuesOK, BudgetsOK
  <2> QED
    BY <1>w, <2>3, <2>5, <2>6 DEF TypeOK, ClusterTypeOK
<1>9. CASE TnStatus(t)
  <2>1. TnAt(t, "status") /\ "status" \in TnSteps /\ "labels" \in TnSteps
    BY <1>9 DEF TnStatus, TnSteps
  <2>2. tproc[t] \in TnProc
    BY <1>b, <2>1
  <2>3. [tn[t] EXCEPT !.ready = ~tproc[t].err] \in TenantObj
    BY <1>o, <2>2 DEF TnProc, TenantObj
  <2>4. PICK ok \in BOOLEAN :
          /\ UpdateTn(t, "tenant", [tn[t] EXCEPT !.ready = ~tproc[t].err], ok, {})
          /\ tproc' = [tproc EXCEPT ![t].pc = "labels", ![t].err = @ \/ ~ok]
    BY <1>9 DEF TnStatus
  <2>5. TnVarsOK' /\ faults' \in Nat
    BY <2>3, <2>4, UpdateTnType DEF TypeOK, ClusterTypeOK, Holders
  <2>6. TnTypeOK'
    <3>1. (tproc[t].err \/ ~ok) \in BOOLEAN
      OBVIOUS
    <3> QED
      BY <1>g, <2>1, <2>4, <3>1
  <2>7. WsVarsOK' /\ KcVarsOK' /\ QueuesOK' /\ BudgetsOK'
    BY <1>9, <2>5 DEF TnStatus, wsVars, kcVars, queueVars, TypeOK, ClusterTypeOK, TnVarsOK,
                WsVarsOK, KcVarsOK, QueuesOK, BudgetsOK
  <2> QED
    BY <1>w, <2>5, <2>6, <2>7 DEF TypeOK, ClusterTypeOK
<1>10. CASE TnLabels(t)
  <2>1. TnAt(t, "labels") /\ "labels" \in TnSteps
    BY <1>10 DEF TnLabels, TnSteps
  <2>2. tproc[t] \in TnProc /\ tproc[t].exist \subseteq DOMAIN tproc[t].spec
    BY <1>b, <2>1
  <2>3. WithLabels(t) \in TenantObj
    <3>1. tproc[t].spec \in Seq(Entry) /\ tproc[t].fin \in BOOLEAN
      BY <2>2 DEF TnProc
    <3>2. LabelsOf(tproc[t].spec, tproc[t].exist) \in [Workspaces -> Roles \cup {"none"}]
      BY <2>2, <3>1, LabelsType
    <3> QED
      BY <1>o, <3>1, <3>2 DEF WithLabels, TenantObj
  <2>4. PICK ok \in BOOLEAN :
          /\ UpdateTn(t, "tenant", WithLabels(t), ok, {"tenant"})
          /\ TnReturn(t, tproc[t].err \/ ~ok, TRUE)
    BY <1>10 DEF TnLabels
  <2>5. TnVarsOK' /\ faults' \in Nat
    BY <2>3, <2>4, UpdateTnType DEF TypeOK, ClusterTypeOK, Holders
  <2>6. TnTypeOK' /\ QueuesOK'
    BY <1>r, <2>4
  <2>7. WsVarsOK' /\ KcVarsOK' /\ BudgetsOK'
    BY <1>10, <2>5 DEF TnLabels, wsVars, kcVars, TypeOK, ClusterTypeOK, TnVarsOK,
                WsVarsOK, KcVarsOK, QueuesOK, BudgetsOK
  <2> QED
    BY <1>w, <2>5, <2>6, <2>7 DEF TypeOK, ClusterTypeOK
<1>11. CASE TnDeleteKcUser(t)
  <2>1. TnTypeOK'
    BY <1>11, <1>h DEF TnDeleteKcUser, TnSteps
  <2>2. TnVarsOK' /\ WsVarsOK' /\ KcVarsOK' /\ QueuesOK' /\ BudgetsOK'
    BY <1>11 DEF TnDeleteKcUser, Fault, tnVars, wsVars, queueVars, TypeOK, ClusterTypeOK,
                 TnVarsOK,
                WsVarsOK, KcVarsOK, QueuesOK, BudgetsOK
  <2> QED
    BY <1>w, <2>1, <2>2 DEF TypeOK, ClusterTypeOK
<1>12. CASE TnRemoveFinalizer(t)
  <2>1. TnAt(t, "delfin") /\ "delfin" \in TnSteps
    BY <1>12 DEF TnRemoveFinalizer, TnSteps
  <2>2. tproc[t] \in TnProc
    BY <1>b, <2>1
  <2>3. TnTypeOK' /\ QueuesOK'
    BY <1>12, <1>r DEF TnRemoveFinalizer
  <2>4. TnVarsOK' /\ faults' \in Nat
    <3>1. CASE tproc[t].err
      BY <1>12, <3>1 DEF TnRemoveFinalizer, DropTn, TypeOK, ClusterTypeOK, TnVarsOK, BudgetsOK
    <3>2. CASE ~tproc[t].err
      <4>1. [tn[t] EXCEPT !.spec = tproc[t].spec, !.fin = FALSE] \in TenantObj
        BY <1>o, <2>2 DEF TnProc, TenantObj
      <4> QED
        BY <1>12, <3>2, <4>1, UpdateTnType DEF TnRemoveFinalizer, TypeOK, ClusterTypeOK, Holders
    <3> QED
      BY <3>1, <3>2
  <2>5. WsVarsOK' /\ KcVarsOK' /\ BudgetsOK'
    BY <1>12, <2>4 DEF TnRemoveFinalizer, wsVars, kcVars, TypeOK, ClusterTypeOK, TnVarsOK,
                WsVarsOK, KcVarsOK, QueuesOK, BudgetsOK
  <2> QED
    BY <1>w, <2>3, <2>4, <2>5 DEF TypeOK, ClusterTypeOK
<1> QED
  BY <1>1, <1>2, <1>3, <1>4, <1>6, <1>7, <1>8, <1>9, <1>10, <1>11, <1>12 DEF TnRun

-----------------------------------------------------------------------------
(* Every behaviour of the operator keeps TypeOK, for every set of tenants  *)
(* and workspaces and every bound.                                         *)
THEOREM TypeCorrect == Spec => []TypeOK
<1>1. Init => TypeOK
  BY InitType
<1>2. TypeOK /\ [Next]_vars => TypeOK'
  <2> SUFFICES ASSUME TypeOK, [Next]_vars PROVE TypeOK'
    OBVIOUS
  <2>1. CASE UNCHANGED vars
    BY <2>1 DEF vars, clusterVars, tnVars, wsVars, kcVars, queueVars, TypeOK, ClusterTypeOK,
                TnVarsOK, WsVarsOK, KcVarsOK, QueuesOK, BudgetsOK, WsTypeOK, TnTypeOK
  <2> QED
    BY <2>1, EnvType, WsType, TnType, RestartType DEF Next
<1> QED
  BY <1>1, <1>2, PTL DEF Spec

-----------------------------------------------------------------------------

(* What an Update of a tenant by one of the reconcilers does: nothing but  *)
(* forget some copies, or store the new object, which leaves nobody but    *)
(* the writer with a copy of the stored version.                           *)
TnUpdated(t, h, new, drop) ==
  /\ tnCache' = tnCache
  /\ \A u \in Tenants \ {t} : tn'[u] = tn[u] /\ tnFresh'[u] = tnFresh[u]
  /\ \/ tn'[t] = tn[t] /\ tnFresh'[t] = tnFresh[t] \ drop
     \/ /\ h \in tnFresh[t] /\ tnFresh'[t] \subseteq {h} \ drop
        /\ tn'[t] = IF new.del /\ ~new.fin THEN NoTenant ELSE new

(* UpdateTn does that, whatever the answer.                                *)
LEMMA UpdateTnEffect ==
  ASSUME TnVarsOK, NEW t \in Tenants, NEW h, NEW new, NEW ok \in BOOLEAN, NEW drop,
         UpdateTn(t, h, new, ok, drop)
  PROVE  TnUpdated(t, h, new, drop)
<1>1. CASE DropTn(t, drop)
  BY <1>1 DEF UpdateTn, DropTn, TnVarsOK, TnUpdated
<1>2. ASSUME NEW hs, hs = {h} \/ hs = {}, h \in tnFresh[t], StoreTn(t, new, hs, drop),
             tnCache' = tnCache
      PROVE  TnUpdated(t, h, new, drop)
  BY <1>2 DEF StoreTn, TnVarsOK, TnUpdated
<1> QED
  BY <1>1, <1>2 DEF UpdateTn

(* An Update of a workspace by its reconciler leaves the cached copy of    *)
(* the stored version or makes it one of an older version.                 *)
LEMMA UpdateWsEffect ==
  ASSUME WsVarsOK, NEW w \in Workspaces, NEW new, NEW ok \in BOOLEAN, NEW drop,
         UpdateWs(w, "workspace", new, ok, drop), \A v \in Workspaces : WsCacheCurrent(v)
  PROVE  \A v \in Workspaces : WsCacheCurrent(v)'
<1>1. CASE DropWs(w, drop)
  BY <1>1 DEF UpdateWs, DropWs, WsVarsOK, WsCacheCurrent
<1>2. ASSUME NEW hs \in SUBSET {"workspace"}, StoreWs(w, new, hs, drop), UNCHANGED wsCache
      PROVE  \A v \in Workspaces : WsCacheCurrent(v)'
  BY <1>2 DEF StoreWs, WsVarsOK, WsCacheCurrent
<1> QED
  BY <1>1, <1>2 DEF UpdateWs

(* A write by a user leaves no copy of the stored version.                 *)
LEMMA UserTnCopies ==
  ASSUME TypeOK, FreshCopies, NEW t \in Tenants, NEW kind, NEW new,
         UserPutTn(t, kind, new), UNCHANGED <<wproc, tproc>>
  PROVE  FreshCopies'
<1>1. \A u \in Tenants : (tn'[u] = tn[u] /\ tnFresh'[u] = tnFresh[u]) \/ tnFresh'[u] = {}
  BY DEF UserPutTn, StoreTn, TypeOK, ClusterTypeOK, TnVarsOK
<1>2. tnCache' = tnCache /\ wsCache' = wsCache /\ ws' = ws /\ wsFresh' = wsFresh
  BY DEF UserPutTn, wsVars
<1> QED
  BY <1>1, <1>2 DEF FreshCopies, TnCacheCurrent, TnCopyCurrent, TnListedCurrent, WsCacheCurrent,
                    WsBusy

(* The same for a workspace.                                               *)
LEMMA UserWsCopies ==
  ASSUME TypeOK, FreshCopies, NEW w \in Workspaces, NEW kind, NEW new,
         UserPutWs(w, kind, new), UNCHANGED <<wproc, tproc>>
  PROVE  FreshCopies'
<1>1. \A v \in Workspaces : (ws'[v] = ws[v] /\ wsFresh'[v] = wsFresh[v]) \/ wsFresh'[v] = {}
  BY DEF UserPutWs, StoreWs, TypeOK, ClusterTypeOK, WsVarsOK
<1>2. tnCache' = tnCache /\ wsCache' = wsCache /\ tn' = tn /\ tnFresh' = tnFresh
  BY DEF UserPutWs, tnVars
<1> QED
  BY <1>1, <1>2 DEF FreshCopies, TnCacheCurrent, TnCopyCurrent, TnListedCurrent, WsCacheCurrent,
                    WsBusy

(* Edits by users, watch events and requeues keep FreshCopies.             *)
LEMMA EnvCopies == TypeOK /\ FreshCopies /\ EnvStep /\ UNCHANGED <<wproc, tproc>> => FreshCopies'
<1> SUFFICES ASSUME TypeOK, FreshCopies, EnvStep, UNCHANGED <<wproc, tproc>> PROVE FreshCopies'
  OBVIOUS
<1> USE DEF FreshCopies, TnCacheCurrent, TnCopyCurrent, TnListedCurrent, WsCacheCurrent, WsBusy
<1>1. ASSUME NEW t \in Tenants, WatchTn(t) PROVE FreshCopies'
  BY <1>1 DEF WatchTn, TypeOK, ClusterTypeOK, TnVarsOK, wsVars
<1>2. ASSUME NEW t \in Tenants, RequeueTn(t) PROVE FreshCopies'
  BY <1>2 DEF RequeueTn, tnVars, wsVars
<1>3. ASSUME NEW w \in Workspaces, WatchWs(w) PROVE FreshCopies'
  BY <1>3 DEF WatchWs, TypeOK, ClusterTypeOK, WsVarsOK, tnVars
<1>4. ASSUME NEW w \in Workspaces, RequeueWs(w) PROVE FreshCopies'
  BY <1>4 DEF RequeueWs, tnVars, wsVars
<1>5. ASSUME NEW t \in Tenants,
             UserCreateTn(t) \/ UserSubscribeTn(t) \/ UserRelabelTn(t) \/ UserDeleteTn(t)
      PROVE  FreshCopies'
  BY <1>5, UserTnCopies DEF UserCreateTn, UserSubscribeTn, UserRelabelTn, UserDeleteTn
<1>6. ASSUME NEW w \in Workspaces, UserCreateWs(w) \/ UserRelabelWs(w) \/ UserDeleteWs(w)
      PROVE  FreshCopies'
  BY <1>6, UserWsCopies DEF UserCreateWs, UserRelabelWs, UserDeleteWs
<1> QED
  BY <1>1, <1>2, <1>3, <1>4, <1>5, <1>6 DEF EnvStep

(* After a restart every copy is a new cached one.                         *)
LEMMA RestartCopies == TypeOK /\ Restart => FreshCopies'
<1> SUFFICES ASSUME Restart PROVE FreshCopies'
  OBVIOUS
<1>1. /\ UNCHANGED <<tn, ws>> /\ tnCache' = [t \in Tenants |-> Cached(tn[t])]
      /\ wsCache' = [w \in Workspaces |-> Cached(ws[w])]
      /\ tproc' = [t \in Tenants |-> TnIdle] /\ wproc' = WsIdle
  BY DEF Restart, ClusterRestart
<1>2. \A t \in Tenants : TnCacheCurrent(t)' /\ TnCopyCurrent(t)' /\ TnListedCurrent(t)'
  BY <1>1 DEF TnCacheCurrent, TnCopyCurrent, TnListedCurrent, WsBusy
<1>3. \A w \in Workspaces : WsCacheCurrent(w)'
  BY <1>1 DEF WsCacheCurrent
<1> QED
  BY <1>2, <1>3 DEF FreshCopies

(* Every step of the workspace reconciler keeps FreshCopies: the list it   *)
(* takes from the cache is current where the cache is, and the Update that *)
(* uses a listed copy also uses it up.                                     *)
LEMMA WsCopies == TypeOK /\ FreshCopies /\ WsStep /\ UNCHANGED tproc => FreshCopies'
<1> SUFFICES ASSUME TypeOK, FreshCopies, WsStep, UNCHANGED tproc PROVE FreshCopies'
  OBVIOUS
<1>b. WsBusy => wproc \in WsProc
  BY DEF TypeOK, WsTypeOK, WsBusy
<1>v. TnVarsOK /\ WsVarsOK
  BY DEF TypeOK, ClusterTypeOK
<1>n. ASSUME UNCHANGED tnVars, \A w \in Workspaces : WsCacheCurrent(w)',
             \/ wproc' = WsIdle
             \/ wproc'.items = {}
             \/ WsBusy /\ wproc'.items = wproc.items /\ wproc'.specs = wproc.specs
             \/ wproc' = wproc
      PROVE  FreshCopies'
  BY <1>n DEF FreshCopies, TnCacheCurrent, TnCopyCurrent, TnListedCurrent, WsBusy, tnVars
<1>c. UNCHANGED wsVars => \A w \in Workspaces : WsCacheCurrent(w)'
  BY DEF wsVars, FreshCopies, WsCacheCurrent
<1>1. ASSUME NEW w \in Workspaces, WsGet(w) PROVE FreshCopies'
  <2>1. \A v \in Workspaces : WsCacheCurrent(v)'
    BY <1>1, <1>v DEF WsGet, CopyFresh, WsVarsOK, FreshCopies, WsCacheCurrent
  <2>2. wproc' = wproc \/ wproc'.items = {}
    BY <1>1 DEF WsGet
  <2> QED
    BY <1>1, <1>n, <2>1, <2>2 DEF WsGet
<1>2. CASE WsAddFinalizer
  <2>1. wproc \in WsProc /\ WsBusy
    BY <1>2, <1>b DEF WsAddFinalizer, At
  <2>2. PICK ok \in BOOLEAN :
          /\ UpdateWs(wproc.w, "workspace", [ws[wproc.w] EXCEPT !.fin = TRUE], ok, {})
          /\ wproc' = [wproc EXCEPT !.pc = "res", !.err = @ \/ ~ok]
    BY <1>2 DEF WsAddFinalizer
  <2>3. wproc'.items = wproc.items /\ wproc'.specs = wproc.specs /\ wproc.w \in Workspaces
    BY <2>1, <2>2 DEF WsProc
  <2>4. \A v \in Workspaces : WsCacheCurrent(v)'
    BY <1>v, <2>2, <2>3, UpdateWsEffect DEF FreshCopies
  <2> QED
    BY <1>2, <1>n, <2>1, <2>3, <2>4 DEF WsAddFinalizer
<1>3. CASE WsClusterResources
  <2>1. wproc \in WsProc /\ WsBusy
    BY <1>3, <1>b DEF WsClusterResources, At
  <2>2. wproc'.items = wproc.items /\ wproc'.specs = wproc.specs
    BY <1>3, <2>1 DEF WsClusterResources, WsProc
  <2> QED
    BY <1>3, <1>c, <1>n, <2>1, <2>2 DEF WsClusterResources
<1>4. ASSUME NEW r \in Roles, WsCreateRole(r) \/ WsDeleteRole(r) PROVE FreshCopies'
  <2>1. wproc \in WsProc /\ WsBusy
    BY <1>4, <1>b DEF WsCreateRole, WsDeleteRole, At
  <2>2. wproc'.items = wproc.items /\ wproc'.specs = wproc.specs
    <3>1. CASE WsCreateRole(r)
      BY <3>1, <2>1 DEF WsCreateRole, WsProc
    <3>2. CASE WsDeleteRole(r)
      BY <3>2, <2>1 DEF WsDeleteRole, WsProc
    <3> QED
      BY <1>4, <3>1, <3>2
  <2> QED
    BY <1>4, <1>c, <1>n, <2>1, <2>2 DEF WsCreateRole, WsDeleteRole
<1>5. CASE WsStatus \/ WsRemoveFinalizer
  <2>1. wproc.w \in Workspaces
    BY <1>5, <1>b DEF WsStatus, WsRemoveFinalizer, At, WsProc
  <2>2. \/ \E new : \E ok \in BOOLEAN : UpdateWs(wproc.w, "workspace", new, ok, {"workspace"})
        \/ DropWs(wproc.w, {"workspace"}) /\ UNCHANGED wsCache
    BY <1>5 DEF WsStatus, WsRemoveFinalizer
  <2>3. CASE DropWs(wproc.w, {"workspace"}) /\ UNCHANGED wsCache
    <3>1. \A v \in Workspaces : WsCacheCurrent(v)'
      BY <1>v, <2>1, <2>3 DEF DropWs, WsVarsOK, FreshCopies, WsCacheCurrent
    <3> QED
      BY <1>5, <1>n, <3>1 DEF WsStatus, WsRemoveFinalizer, WsReturn
  <2>4. CASE \E new : \E ok \in BOOLEAN : UpdateWs(wproc.w, "workspace", new, ok, {"workspace"})
    <3>1. \A v \in Workspaces : WsCacheCurrent(v)'
      BY <1>v, <2>1, <2>4, UpdateWsEffect DEF FreshCopies
    <3> QED
      BY <1>5, <1>n, <3>1 DEF WsStatus, WsRemoveFinalizer, WsReturn
  <2> QED
    BY <2>2, <2>3, <2>4
<1>6. CASE WsList
  <2> DEFINE found == {t \in Tenants : tnCache[t].live /\ tnCache[t].labels[wproc.w] # "none"}
  <2>1. wproc \in WsProc /\ WsBusy
    BY <1>6, <1>b DEF WsList, At
  <2>2. /\ wproc'.items = found
        /\ \A t \in found : wproc'.specs[t] = tnCache[t].spec
    BY <1>6, <2>1 DEF WsList, WsProc
  <2>3. \A t \in Tenants :
          tnFresh'[t] = IF t \in found THEN CopyFresh(tnFresh[t], "workspace") ELSE tnFresh[t]
    BY <1>6 DEF WsList
  <2>4. \A t \in Tenants : TnListedCurrent(t)'
    <3> SUFFICES ASSUME NEW t \in Tenants, t \in found, "workspace" \in tnFresh'[t]
                 PROVE  tn'[t].live /\ wproc'.specs[t] = tn'[t].spec
      BY <2>2 DEF TnListedCurrent
    <3>1. "cache" \in tnFresh[t]
      BY <2>3 DEF CopyFresh
    <3>2. tnCache[t] = Cached(tn[t]) /\ tn[t] \in TenantObj
      BY <1>v, <3>1 DEF FreshCopies, TnCacheCurrent, TnVarsOK
    <3>3. tnCache[t].live = tn[t].live /\ tnCache[t].spec = tn[t].spec
      BY <3>2 DEF Cached, TenantObj
    <3> QED
      BY <1>6, <2>2, <3>3 DEF WsList
  <2>5. \A t \in Tenants : TnCacheCurrent(t)' /\ TnCopyCurrent(t)'
    BY <1>6, <2>3 DEF WsList, CopyFresh, FreshCopies, TnCacheCurrent, TnCopyCurrent
  <2> QED
    BY <1>6, <1>c, <2>4, <2>5 DEF WsList, FreshCopies
<1>7. ASSUME NEW t \in Tenants, WsUnsubscribe(t) PROVE FreshCopies'
  <2> DEFINE new == [tn[t] EXCEPT !.spec = RemoveWsFromTn(wproc.specs[t], wproc.w)]
  <2>1. wproc \in WsProc /\ WsBusy
    BY <1>7, <1>b DEF WsUnsubscribe, At
  <2>2. PICK ok \in BOOLEAN :
          /\ UpdateTn(t, "workspace", new, ok, {"workspace"})
          /\ wproc' = [wproc EXCEPT !.items = wproc.items \ {t}, !.specs[t] = << >>,
                                    !.err = @ \/ ~ok,
                                    !.pc = IF wproc.items \ {t} = {} THEN "delfin"
                                           ELSE "unsubscribe"]
    BY <1>7 DEF WsUnsubscribe
  <2>3. /\ wproc'.items = wproc.items \ {t}
        /\ \A u \in Tenants \ {t} : wproc'.specs[u] = wproc.specs[u]
    BY <2>1, <2>2 DEF WsProc
  <2> HIDE DEF new
  <2>4. /\ tnCache' = tnCache
        /\ \A u \in Tenants \ {t} : tn'[u] = tn[u] /\ tnFresh'[u] = tnFresh[u]
        /\ \/ tn'[t] = tn[t] /\ tnFresh'[t] \subseteq tnFresh[t]
           \/ tnFresh'[t] = {}
    <3>1. UpdateTn(t, "workspace", new, ok, {"workspace"})
      BY <2>2
    <3>2. TnUpdated(t, "workspace", new, {"workspace"})
      BY <1>v, <3>1, UpdateTnEffect
    <3> QED
      BY <3>2 DEF TnUpdated
  <2>5. \A u \in Tenants : TnCacheCurrent(u)' /\ TnCopyCurrent(u)'
    BY <2>4 DEF FreshCopies, TnCacheCurrent, TnCopyCurrent
  <2>6. \A u \in Tenants : TnListedCurrent(u)'
    BY <2>1, <2>3, <2>4 DEF FreshCopies, TnListedCurrent
  <2> QED
    BY <1>7, <1>c, <2>5, <2>6 DEF WsUnsubscribe, FreshCopies
<1> QED
  BY <1>1, <1>2, <1>3, <1>4, <1>5, <1>6, <1>7 DEF WsStep, WsRun

(* Every step of the tenant reconciler keeps FreshCopies: its copy comes   *)
(* from the cache, its Updates store that copy and leave no other of the   *)
(* stored version, and its last one ends with the reconciliation.          *)
LEMMA TnCopies == TypeOK /\ FreshCopies /\ TnStep /\ UNCHANGED wproc => FreshCopies'
<1> SUFFICES ASSUME TypeOK, FreshCopies, NEW t \in Tenants, TnRun(t) \/ TnGet(t),
                    UNCHANGED wproc
             PROVE  FreshCopies'
  BY DEF TnStep
<1>v. TnVarsOK /\ tn[t] \in TenantObj /\ tproc \in [Tenants -> TnProc \cup {TnIdle}]
  BY DEF TypeOK, ClusterTypeOK, TnVarsOK, TnTypeOK
<1>b. ASSUME NEW pc \in TnSteps, TnAt(t, pc) PROVE tproc[t] \in TnProc /\ tproc[t] # TnIdle
  BY <1>b, <1>v DEF TnAt, TnIdle, TnSteps
<1>w. \A w \in Workspaces : WsCacheCurrent(w)'
  <2>1. UNCHANGED wsVars
    BY DEF TnRun, TnGet, TnAddFinalizer, TnResources, TnKcUser, TnKcGetRoles, TnKcDeleteRoles,
           TnKcAddRoles, TnNextcloud, TnStatus, TnLabels, TnDeleteKcUser, TnDeleteNcUser,
           TnRemoveFinalizer
  <2> QED
    BY <2>1 DEF wsVars, FreshCopies, WsCacheCurrent
(* a step that writes nothing *)
<1>q. ASSUME UNCHANGED tnVars, \A u \in Tenants \ {t} : tproc'[u] = tproc[u],
             tproc[t] # TnIdle, tproc'[t].spec = tproc[t].spec, tproc'[t].fin = tproc[t].fin,
             tproc'[t].pc \in {"delkc", "delnc", "delfin"} <=>
               tproc[t].pc \in {"delkc", "delnc", "delfin"}
      PROVE  FreshCopies'
  BY <1>q, <1>w DEF tnVars, FreshCopies, TnCacheCurrent, TnCopyCurrent, TnListedCurrent, WsBusy
(* a step that writes the tenant, or only forgets copies of it *)
<1>u. ASSUME tnCache' = tnCache,
             \A u \in Tenants \ {t} : /\ tn'[u] = tn[u] /\ tnFresh'[u] = tnFresh[u]
                                      /\ tproc'[u] = tproc[u],
             \/ tn'[t] = tn[t] /\ tnFresh'[t] \subseteq tnFresh[t]
             \/ tnFresh'[t] \subseteq {"tenant"},
             TnCopyCurrent(t)'
      PROVE  FreshCopies'
  <2>1. \A u \in Tenants : TnCacheCurrent(u)' /\ TnListedCurrent(u)'
    <3> SUFFICES ASSUME NEW u \in Tenants PROVE TnCacheCurrent(u)' /\ TnListedCurrent(u)'
      OBVIOUS
    <3>1. \A h \in {"cache", "workspace"} : h \in tnFresh'[u] => h \in tnFresh[u] /\ tn'[u] = tn[u]
      BY <1>u
    <3>2. TnCacheCurrent(u) /\ TnListedCurrent(u) /\ tnCache' = tnCache
      BY <1>u DEF FreshCopies
    <3> QED
      BY <3>1, <3>2 DEF TnCacheCurrent, TnListedCurrent, WsBusy
  <2>2. \A u \in Tenants : TnCopyCurrent(u)'
    BY <1>u DEF FreshCopies, TnCopyCurrent
  <2> QED
    BY <1>w, <2>1, <2>2 DEF FreshCopies
<1>g. ASSUME NEW pc \in TnSteps, TnAt(t, pc), NEW q, UNCHANGED tnVars,
             q \in {"delkc", "delnc", "delfin"} <=> pc \in {"delkc", "delnc", "delfin"},
             Goto(t, q) \/ Fail(t, q) \/ \E d : tproc' = [tproc EXCEPT ![t].pc = q, ![t].drop = d]
      PROVE  FreshCopies'
  <2>1. tproc[t] \in TnProc /\ tproc[t] # TnIdle
    BY <1>b, <1>g
  <2>2. /\ tproc'[t].pc = q /\ tproc'[t].spec = tproc[t].spec /\ tproc'[t].fin = tproc[t].fin
        /\ \A u \in Tenants \ {t} : tproc'[u] = tproc[u]
    BY <1>g, <1>v, <2>1 DEF Goto, Fail, TnProc
  <2> QED
    BY <1>g, <1>q, <2>1, <2>2 DEF TnAt
<1>1. CASE TnGet(t)
  <2>1. CASE UNCHANGED <<tproc, tnFresh>>
    BY <1>1, <1>w, <2>1 DEF TnGet, FreshCopies, TnCacheCurrent, TnCopyCurrent, TnListedCurrent,
                            WsBusy
  <2>2. CASE ~UNCHANGED <<tproc, tnFresh>>
    <3>1. tnCache[t].live /\ tnCache[t].sel
      BY <1>1, <2>2 DEF TnGet
    <3>2. /\ tproc'[t].spec = tnCache[t].spec /\ tproc'[t].fin = tnCache[t].fin
          /\ tproc'[t].pc = IF tnCache[t].del THEN "delkc"
                            ELSE IF tnCache[t].fin THEN "res" ELSE "fin"
          /\ \A u \in Tenants \ {t} : tproc'[u] = tproc[u]
      <4> DEFINE pc == IF tnCache[t].del THEN "delkc" ELSE IF tnCache[t].fin THEN "res" ELSE "fin"
                 start == [pc |-> pc, spec |-> tnCache[t].spec, fin |-> tnCache[t].fin,
                           err |-> FALSE, nsOk |-> FALSE, exist |-> {}, drop |-> {}]
      <4>1. tproc' = [tproc EXCEPT ![t] = start]
        BY <1>1, <2>2 DEF TnGet
      <4>2. start.spec = tnCache[t].spec /\ start.fin = tnCache[t].fin /\ start.pc = pc
        OBVIOUS
      <4> HIDE DEF start
      <4>3. tproc'[t] = start /\ \A u \in Tenants \ {t} : tproc'[u] = tproc[u]
        BY <1>v, <4>1
      <4> QED
        BY <4>2, <4>3
    <3>3. /\ tnFresh'[t] = CopyFresh(tnFresh[t], "tenant")
          /\ \A u \in Tenants \ {t} : tnFresh'[u] = tnFresh[u]
      BY <1>1, <1>v, <2>2 DEF TnGet, TnVarsOK
    <3>4. tn' = tn /\ tnCache' = tnCache
      BY <1>1 DEF TnGet
    <3>5. TnCopyCurrent(t)'
      <4> SUFFICES ASSUME "tenant" \in tnFresh'[t]
                   PROVE  /\ tn[t].live
                          /\ tn[t].sel /\ tn[t].spec = tproc'[t].spec
                          /\ tn[t].del <=> tproc'[t].pc \in {"delkc", "delnc", "delfin"}
                          /\ tn[t].fin => tproc'[t].fin
        BY <3>4 DEF TnCopyCurrent
      <4>1. tnCache[t] = Cached(tn[t])
        BY <3>3 DEF CopyFresh, FreshCopies, TnCacheCurrent
      <4>2. /\ tnCache[t].live = tn[t].live /\ tnCache[t].sel = tn[t].sel
            /\ tnCache[t].spec = tn[t].spec /\ tnCache[t].del = tn[t].del
            /\ tnCache[t].fin = tn[t].fin
        BY <1>v, <4>1 DEF Cached, TenantObj
      <4> QED
        BY <3>1, <3>2, <4>2
    <3>6. TnCacheCurrent(t)' /\ TnListedCurrent(t)'
      <4>1. /\ "cache" \in tnFresh'[t] => "cache" \in tnFresh[t]
            /\ "workspace" \in tnFresh'[t] => "workspace" \in tnFresh[t]
        BY <3>3 DEF CopyFresh
      <4>2. TnCacheCurrent(t) /\ TnListedCurrent(t)
        BY DEF FreshCopies
      <4> QED
        BY <3>4, <4>1, <4>2 DEF TnCacheCurrent, TnListedCurrent, WsBusy
    <3>7. \A u \in Tenants \ {t} : TnCacheCurrent(u)' /\ TnCopyCurrent(u)' /\ TnListedCurrent(u)'
      BY <3>2, <3>3, <3>4 DEF FreshCopies, TnCacheCurrent, TnCopyCurrent, TnListedCurrent, WsBusy
    <3>8. \A u \in Tenants : TnCacheCurrent(u)' /\ TnCopyCurrent(u)' /\ TnListedCurrent(u)'
      BY <3>5, <3>6, <3>7, Zenon
    <3> QED
      BY <1>w, <3>8 DEF FreshCopies
  <2> QED
    BY <2>1, <2>2, Zenon
<1>2. CASE TnAddFinalizer(t)
  <2> DEFINE new == [tn[t] EXCEPT !.spec = tproc[t].spec, !.fin = TRUE]
  <2>1. tproc[t] \in TnProc /\ tproc[t] # TnIdle /\ tproc[t].pc = "fin"
    BY <1>2, <1>b DEF TnAddFinalizer, TnSteps, TnAt
  <2>2. PICK ok \in BOOLEAN :
          /\ UpdateTn(t, "tenant", new, ok, {})
          /\ tproc' = [tproc EXCEPT ![t].pc = "res", ![t].fin = TRUE, ![t].err = @ \/ ~ok]
    BY <1>2 DEF TnAddFinalizer
  <2>3. /\ tproc'[t].pc = "res" /\ tproc'[t].fin /\ tproc'[t].spec = tproc[t].spec
        /\ \A u \in Tenants \ {t} : tproc'[u] = tproc[u]
    BY <1>v, <2>1, <2>2 DEF TnProc
  <2>4. /\ new.fin /\ new.live = tn[t].live /\ new.sel = tn[t].sel /\ new.del = tn[t].del
        /\ new.spec = tproc[t].spec
    BY <1>v DEF TenantObj
  <2>5. UpdateTn(t, "tenant", new, ok, {})
    BY <2>2
  <2> HIDE DEF new
  <2>6. TnUpdated(t, "tenant", new, {})
    BY <1>v, <2>5, UpdateTnEffect
  <2>7. TnCopyCurrent(t)'
    BY <2>1, <2>3, <2>4, <2>6 DEF FreshCopies, TnCopyCurrent, TnUpdated
  <2> QED
    BY <1>u, <2>3, <2>6, <2>7 DEF TnUpdated
<1>3. CASE TnResources(t)
  <2>1. tproc[t] \in TnProc /\ tproc[t] # TnIdle /\ tproc[t].pc = "res"
    BY <1>3, <1>b DEF TnResources, TnSteps, TnAt
  <2>2. PICK nsOk, exist, err :
          tproc' = [tproc EXCEPT ![t].pc = "kcuser", ![t].nsOk = nsOk, ![t].exist = exist,
                                 ![t].err = err]
    BY <1>3 DEF TnResources
  <2>3. /\ tproc'[t].pc = "kcuser" /\ tproc'[t].spec = tproc[t].spec
        /\ tproc'[t].fin = tproc[t].fin
        /\ \A u \in Tenants \ {t} : tproc'[u] = tproc[u]
    BY <1>v, <2>1, <2>2 DEF TnProc
  <2>4. UNCHANGED tnVars
    BY <1>3 DEF TnResources
  <2> QED
    BY <1>q, <2>1, <2>3, <2>4
<1>4. CASE TnKcUser(t) \/ TnKcGetRoles(t) \/ TnKcDeleteRoles(t) \/ TnKcAddRoles(t)
           \/ TnNextcloud(t)
  <2>1. CASE TnKcUser(t)
    BY <2>1, <1>g DEF TnKcUser, TnSteps
  <2>2. CASE TnKcGetRoles(t)
    BY <2>2, <1>g DEF TnKcGetRoles, TnSteps
  <2>3. CASE TnKcDeleteRoles(t)
    BY <2>3, <1>g DEF TnKcDeleteRoles, TnSteps
  <2>4. CASE TnKcAddRoles(t)
    BY <2>4, <1>g DEF TnKcAddRoles, TnSteps
  <2>5. CASE TnNextcloud(t)
    BY <2>5, <1>g DEF TnNextcloud, TnSteps
  <2> QED
    BY <1>4, <2>1, <2>2, <2>3, <2>4, <2>5
<1>5. CASE TnDeleteKcUser(t) \/ TnDeleteNcUser(t)
  <2>1. CASE TnDeleteKcUser(t)
    BY <2>1, <1>g DEF TnDeleteKcUser, TnSteps
  <2>2. CASE TnDeleteNcUser(t)
    BY <2>2, <1>g DEF TnDeleteNcUser, TnSteps
  <2> QED
    BY <1>5, <2>1, <2>2
<1>6. CASE TnStatus(t)
  <2> DEFINE new == [tn[t] EXCEPT !.ready = ~tproc[t].err]
  <2>1. tproc[t] \in TnProc /\ tproc[t] # TnIdle /\ tproc[t].pc = "status"
    BY <1>6, <1>b DEF TnStatus, TnSteps, TnAt
  <2>2. PICK ok \in BOOLEAN :
          /\ UpdateTn(t, "tenant", new, ok, {})
          /\ tproc' = [tproc EXCEPT ![t].pc = "labels", ![t].err = @ \/ ~ok]
    BY <1>6 DEF TnStatus
  <2>3. /\ tproc'[t].pc = "labels" /\ tproc'[t].fin = tproc[t].fin
        /\ tproc'[t].spec = tproc[t].spec
        /\ \A u \in Tenants \ {t} : tproc'[u] = tproc[u]
    BY <1>v, <2>1, <2>2 DEF TnProc
  <2>4. /\ new.fin = tn[t].fin /\ new.live = tn[t].live /\ new.sel = tn[t].sel
        /\ new.del = tn[t].del /\ new.spec = tn[t].spec
    BY <1>v DEF TenantObj
  <2>5. UpdateTn(t, "tenant", new, ok, {})
    BY <2>2
  <2> HIDE DEF new
  <2>6. TnUpdated(t, "tenant", new, {})
    BY <1>v, <2>5, UpdateTnEffect
  <2>7. TnCopyCurrent(t)'
    BY <2>1, <2>3, <2>4, <2>6 DEF FreshCopies, TnCopyCurrent, TnUpdated
  <2> QED
    BY <1>u, <2>3, <2>6, <2>7 DEF TnUpdated
<1>7. CASE TnLabels(t) \/ TnRemoveFinalizer(t)
  <2>1. tproc' = [tproc EXCEPT ![t] = TnIdle]
    BY <1>7 DEF TnLabels, TnRemoveFinalizer, TnReturn
  <2>2. \/ \E new : \E ok \in BOOLEAN : UpdateTn(t, "tenant", new, ok, {"tenant"})
        \/ DropTn(t, {"tenant"}) /\ UNCHANGED tnCache
    BY <1>7 DEF TnLabels, TnRemoveFinalizer
  <2>3. TnCopyCurrent(t)' /\ \A u \in Tenants \ {t} : tproc'[u] = tproc[u]
    BY <1>v, <2>1 DEF TnCopyCurrent
  <2>4. CASE DropTn(t, {"tenant"}) /\ UNCHANGED tnCache
    <3>1. /\ tn' = tn /\ tnFresh'[t] \subseteq tnFresh[t]
          /\ \A u \in Tenants \ {t} : tnFresh'[u] = tnFresh[u]
      BY <1>v, <2>4 DEF DropTn, TnVarsOK
    <3> QED
      BY <1>u, <2>3, <2>4, <3>1
  <2>5. CASE \E new : \E ok \in BOOLEAN : UpdateTn(t, "tenant", new, ok, {"tenant"})
    <3>1. PICK new : \E ok \in BOOLEAN : UpdateTn(t, "tenant", new, ok, {"tenant"})
      BY <2>5
    <3>2. TnUpdated(t, "tenant", new, {"tenant"})
      BY <1>v, <3>1, UpdateTnEffect
    <3> QED
      BY <1>u, <2>3, <3>2 DEF TnUpdated
  <2> QED
    BY <2>2, <2>4, <2>5
<1> QED
  BY <1>1, <1>2, <1>3, <1>4, <1>5, <1>6, <1>7 DEF TnRun

-----------------------------------------------------------------------------
(* In every behaviour of the operator, with any number of tenants and      *)
(* workspaces, edits and failures, a copy the API server would accept      *)
(* describes the stored object.                                            *)
THEOREM CopiesAreFresh == Spec => []FreshCopies
<1>1. Init => FreshCopies
  <2>1. \A obj \in NewTenants \cup {NoTenant} : Cached(obj) = obj
    <3>1. NoTenant \in TenantObj /\ NoTenant.ready = FALSE
      BY NoObjects DEF NoTenant
    <3>2. ASSUME NEW s \in Specs
          PROVE  [NoTenant EXCEPT !.live = TRUE, !.sel = TRUE, !.spec = s].ready = FALSE
      BY <3>1 DEF TenantObj
    <3>3. \A obj \in NewTenants : obj \in TenantObj /\ obj.ready = FALSE
      BY <3>2, NewObjects DEF NewTenants
    <3> QED
      BY <3>1, <3>3 DEF Cached, TenantObj
  <2>2. \A obj \in {NewWorkspace, NoWorkspace} : Cached(obj) = obj
    <3>1. NoWorkspace \in WorkspaceObj /\ NoWorkspace.ready = FALSE
      BY NoObjects DEF NoWorkspace
    <3>2. NewWorkspace \in WorkspaceObj /\ NewWorkspace.ready = FALSE
      BY <3>1, NewObjects DEF NewWorkspace, WorkspaceObj
    <3> QED
      BY <3>1, <3>2 DEF Cached, WorkspaceObj
  <2> SUFFICES ASSUME Init PROVE FreshCopies
    OBVIOUS
  <2>3. ASSUME NEW t \in Tenants PROVE TnCacheCurrent(t)
    BY <2>1 DEF Init, ClusterInit, TnCacheCurrent
  <2>4. ASSUME NEW t \in Tenants PROVE TnCopyCurrent(t) /\ TnListedCurrent(t)
    BY DEF Init, ClusterInit, TnCopyCurrent, TnListedCurrent, WsBusy
  <2>5. ASSUME NEW w \in Workspaces PROVE WsCacheCurrent(w)
    BY <2>2 DEF Init, ClusterInit, WsCacheCurrent
  <2> QED
    BY <2>3, <2>4, <2>5 DEF FreshCopies
<1>2. TypeOK /\ FreshCopies /\ [Next]_vars => FreshCopies'
  <2> SUFFICES ASSUME TypeOK, FreshCopies, [Next]_vars PROVE FreshCopies'
    OBVIOUS
  <2>1. CASE UNCHANGED vars
    BY <2>1 DEF vars, clusterVars, tnVars, wsVars, FreshCopies, TnCacheCurrent, TnCopyCurrent,
                TnListedCurrent, WsCacheCurrent, WsBusy
  <2> QED
    BY <2>1, EnvCopies, WsCopies, TnCopies, RestartCopies DEF Next
<1> QED
  BY <1>1, <1>2, TypeCorrect, PTL DEF Spec

-----------------------------------------------------------------------------
(* What a step of the operator may do to the workspace list of a tenant.   *)
ListKept(t) ==
  tn'[t].live /\ tn'[t].spec # tn[t].spec =>
    At("unsubscribe") /\ tn'[t].spec = RemoveWsFromTn(tn[t].spec, wproc.w)

(* A write with a copy of the stored version, of the stored list or of the *)
(* list without the entry of the workspace being deleted, loses nothing.   *)
LEMMA UpdateKeepsLists ==
  ASSUME NEW t \in Tenants, NEW h, NEW new, NEW drop, TnUpdated(t, h, new, drop),
         h \in tnFresh[t] =>
           \/ new.spec = tn[t].spec
           \/ At("unsubscribe") /\ new.spec = RemoveWsFromTn(tn[t].spec, wproc.w)
  PROVE  \A u \in Tenants : ListKept(u)
<1>1. ~NoTenant.live
  BY DEF NoTenant
<1> QED
  BY <1>1 DEF TnUpdated, ListKept

(* The steps that do not write a tenant keep its list.                     *)
LEMMA UnwrittenLists == UNCHANGED tn => \A t \in Tenants : ListKept(t)
BY DEF ListKept

(* No step of the workspace reconciler loses a subscription.               *)
LEMMA WsKeepsLists ==
  ASSUME TypeOK, FreshCopies, WsStep PROVE \A t \in Tenants : ListKept(t)
<1>1. ASSUME NEW t \in Tenants, WsUnsubscribe(t) PROVE \A u \in Tenants : ListKept(u)
  <2> DEFINE new == [tn[t] EXCEPT !.spec = RemoveWsFromTn(wproc.specs[t], wproc.w)]
  <2>1. At("unsubscribe") /\ WsBusy /\ t \in wproc.items
    BY <1>1 DEF WsUnsubscribe, At
  <2>2. PICK ok \in BOOLEAN : UpdateTn(t, "workspace", new, ok, {"workspace"})
    BY <1>1 DEF WsUnsubscribe
  <2>3. new.spec = RemoveWsFromTn(wproc.specs[t], wproc.w)
    BY DEF TypeOK, ClusterTypeOK, TnVarsOK, TenantObj
  <2>4. UpdateTn(t, "workspace", new, ok, {"workspace"})
    BY <2>2
  <2> HIDE DEF new
  <2>5. TnUpdated(t, "workspace", new, {"workspace"})
    BY <2>4, UpdateTnEffect DEF TypeOK, ClusterTypeOK
  <2>6. "workspace" \in tnFresh[t] => wproc.specs[t] = tn[t].spec
    BY <2>1 DEF FreshCopies, TnListedCurrent
  <2> QED
    BY <2>1, <2>3, <2>5, <2>6, UpdateKeepsLists
<1>2. ASSUME \A t \in Tenants : ~WsUnsubscribe(t) PROVE UNCHANGED tn
  BY <1>2 DEF WsStep, WsRun, WsGet, WsAddFinalizer, WsClusterResources, WsCreateRole, WsStatus,
              WsDeleteRole, WsList, WsRemoveFinalizer, tnVars
<1> QED
  BY <1>1, <1>2, UnwrittenLists

(* No step of the tenant reconciler loses a subscription.                  *)
LEMMA TnKeepsLists ==
  ASSUME TypeOK, FreshCopies, TnStep PROVE \A t \in Tenants : ListKept(t)
<1> SUFFICES ASSUME NEW t \in Tenants, TnRun(t) \/ TnGet(t)
             PROVE  \A u \in Tenants : ListKept(u)
  BY DEF TnStep
<1> DEFINE writes == TnAddFinalizer(t) \/ TnStatus(t) \/ TnLabels(t) \/ TnRemoveFinalizer(t)
<1>1. CASE ~writes
  <2>1. UNCHANGED tn
    BY <1>1 DEF TnRun, TnGet, TnResources, TnKcUser, TnKcGetRoles, TnKcDeleteRoles, TnKcAddRoles,
                TnNextcloud, TnDeleteKcUser, TnDeleteNcUser, tnVars
  <2> QED
    BY <2>1, UnwrittenLists
<1>2. CASE writes
  <2>1. tproc[t] # TnIdle
    <3>1. tproc[t].pc \in {"fin", "status", "labels", "delfin"}
      BY <1>2 DEF TnAddFinalizer, TnStatus, TnLabels, TnRemoveFinalizer, TnAt
    <3> QED
      BY <3>1 DEF TnIdle
  <2>2. "tenant" \in tnFresh[t] => tproc[t].spec = tn[t].spec
    BY <2>1 DEF FreshCopies, TnCopyCurrent
  <2>3. tn[t] \in TenantObj /\ TnVarsOK
    BY DEF TypeOK, ClusterTypeOK, TnVarsOK
  <2>4. ASSUME NEW new, new.spec \in {tn[t].spec, tproc[t].spec}, NEW ok \in BOOLEAN, NEW drop,
               UpdateTn(t, "tenant", new, ok, drop)
        PROVE  \A u \in Tenants : ListKept(u)
    <3>1. TnUpdated(t, "tenant", new, drop)
      BY <2>3, <2>4, UpdateTnEffect
    <3> QED
      BY <2>2, <2>4, <3>1, UpdateKeepsLists
  <2>5. CASE TnAddFinalizer(t)
    <3> DEFINE new == [tn[t] EXCEPT !.spec = tproc[t].spec, !.fin = TRUE]
    <3>1. new.spec = tproc[t].spec
      BY <2>3 DEF TenantObj
    <3>2. \E ok \in BOOLEAN : UpdateTn(t, "tenant", new, ok, {})
      BY <2>5 DEF TnAddFinalizer
    <3> HIDE DEF new
    <3> QED
      BY <2>4, <3>1, <3>2
  <2>6. CASE TnStatus(t)
    <3> DEFINE new == [tn[t] EXCEPT !.ready = ~tproc[t].err]
    <3>1. new.spec = tn[t].spec
      BY <2>3 DEF TenantObj
    <3>2. \E ok \in BOOLEAN : UpdateTn(t, "tenant", new, ok, {})
      BY <2>6 DEF TnStatus
    <3> HIDE DEF new
    <3> QED
      BY <2>4, <3>1, <3>2
  <2>7. CASE TnLabels(t)
    <3>1. WithLabels(t).spec = tproc[t].spec
      BY <2>3 DEF WithLabels, TenantObj
    <3> QED
      BY <2>4, <2>7, <3>1 DEF TnLabels
  <2>8. CASE TnRemoveFinalizer(t)
    <3> DEFINE new == [tn[t] EXCEPT !.spec = tproc[t].spec, !.fin = FALSE]
    <3>1. new.spec = tproc[t].spec
      BY <2>3 DEF TenantObj
    <3>2. UNCHANGED tn \/ \E ok \in BOOLEAN : UpdateTn(t, "tenant", new, ok, {"tenant"})
      BY <2>8 DEF TnRemoveFinalizer, DropTn
    <3> HIDE DEF new
    <3> QED
      BY <2>4, <3>1, <3>2, UnwrittenLists
  <2> QED
    BY <1>2, <2>5, <2>6, <2>7, <2>8
<1> QED
  BY <1>1, <1>2

(* In every behaviour of the operator the only change it makes to a        *)
(* tenant's workspace list is to drop an entry of the workspace being      *)
(* deleted from the list as it is stored.                                  *)
THEOREM NoSubscriptionIsLost == Spec => NoLostSubscription
<1>1. TypeOK /\ FreshCopies /\ [Next]_vars =>
        [ops' = ops => \A t \in Tenants : ListKept(t)]_vars
  <2> SUFFICES ASSUME TypeOK, FreshCopies, Next, ops' = ops
               PROVE  \A t \in Tenants : ListKept(t)
    OBVIOUS
  <2>1. CASE EnvStep
    <3>1. ops \in Nat
      BY DEF TypeOK, ClusterTypeOK, BudgetsOK
    <3>2. ASSUME NEW kind PROVE ~UserEdit(kind)
      BY <3>1 DEF UserEdit
    <3>3. ASSUME NEW t, NEW kind, NEW new PROVE ~UserPutTn(t, kind, new) /\ ~UserPutWs(t, kind, new)
      BY <3>2 DEF UserPutTn, UserPutWs
    <3>4. \A t : ~UserCreateTn(t) /\ ~UserSubscribeTn(t) /\ ~UserRelabelTn(t) /\ ~UserDeleteTn(t)
      BY <3>3 DEF UserCreateTn, UserSubscribeTn, UserRelabelTn, UserDeleteTn
    <3>5. \A w : ~UserCreateWs(w) /\ ~UserRelabelWs(w) /\ ~UserDeleteWs(w)
      BY <3>3 DEF UserCreateWs, UserRelabelWs, UserDeleteWs
    <3>6. UNCHANGED tn
      BY <2>1, <3>4, <3>5 DEF EnvStep, WatchTn, RequeueTn, WatchWs, RequeueWs, tnVars
    <3> QED
      BY <3>6, UnwrittenLists
  <2>2. CASE Restart
    BY <2>2, UnwrittenLists DEF Restart, ClusterRestart
  <2> QED
    BY <2>1, <2>2, WsKeepsLists, TnKeepsLists DEF Next
<1> QED
  BY <1>1, TypeCorrect, CopiesAreFresh, PTL DEF Spec, NoLostSubscription, ListKept

-----------------------------------------------------------------------------
(* The second part says once, by the step it has reached, what a           *)
(* reconciliation of a tenant does, and what anyone else may do to a       *)
(* tenant meanwhile; the invariants are kept because of these facts. All   *)
(* of them rest on TypeOK and FreshCopies.                                 *)

DelSteps == {"delkc", "delnc", "delfin"}

(* What a reconciliation of t leaves alone of its local state.             *)
Kept(t) == /\ tproc'[t].spec = tproc[t].spec /\ tproc'[t].exist = tproc[t].exist
           /\ tproc'[t].nsOk = tproc[t].nsOk

(* A reconciliation of one tenant leaves the others alone.                 *)
LEMMA OthersKept ==
  ASSUME TypeOK, NEW t \in Tenants, TnRun(t) \/ TnGet(t), NEW u \in Tenants \ {t}
  PROVE  /\ tproc'[u] = tproc[u] /\ tn'[u] = tn[u] /\ tnFresh'[u] = tnFresh[u]
         /\ kcHas'[u] = kcHas[u] /\ (u \in kcUsers' <=> u \in kcUsers)
         /\ (u \in ncUsers' <=> u \in ncUsers) /\ (u \in tnQueue' <=> u \in tnQueue)
<1>v. /\ tproc \in [Tenants -> TnProc \cup {TnIdle}] /\ kcHas \in [Tenants -> SUBSET KcRole]
      /\ TnVarsOK
  BY DEF TypeOK, ClusterTypeOK, TnTypeOK, KcVarsOK
<1>1. tproc'[u] = tproc[u]
  <2>1. CASE TnGet(t)
    BY <1>v, <2>1 DEF TnGet
  <2>2. CASE TnAddFinalizer(t) \/ TnResources(t) \/ TnStatus(t) \/ TnLabels(t)
    BY <1>v, <2>2 DEF TnAddFinalizer, TnResources, TnStatus, TnLabels, TnReturn
  <2>3. CASE TnKcUser(t) \/ TnKcGetRoles(t) \/ TnKcDeleteRoles(t) \/ TnKcAddRoles(t)
    BY <1>v, <2>3 DEF TnKcUser, TnKcGetRoles, TnKcDeleteRoles, TnKcAddRoles, Goto, Fail
  <2>4. CASE TnNextcloud(t) \/ TnDeleteKcUser(t) \/ TnDeleteNcUser(t) \/ TnRemoveFinalizer(t)
    BY <1>v, <2>4 DEF TnNextcloud, TnDeleteKcUser, TnDeleteNcUser, TnRemoveFinalizer, TnReturn,
                      Goto, Fail
  <2> QED
    BY <2>1, <2>2, <2>3, <2>4 DEF TnRun
<1>2. tn'[u] = tn[u] /\ tnFresh'[u] = tnFresh[u]
  <2>1. CASE TnGet(t)
    BY <1>v, <2>1 DEF TnGet, TnVarsOK
  <2>2. ASSUME NEW new, NEW ok \in BOOLEAN, NEW drop, UpdateTn(t, "tenant", new, ok, drop)
        PROVE  tn'[u] = tn[u] /\ tnFresh'[u] = tnFresh[u]
    <3>1. TnUpdated(t, "tenant", new, drop)
      BY <1>v, <2>2, UpdateTnEffect
    <3> QED
      BY <3>1 DEF TnUpdated
  <2>3. CASE TnAddFinalizer(t) \/ TnStatus(t) \/ TnLabels(t) \/ TnRemoveFinalizer(t)
    <3>1. CASE TnAddFinalizer(t)
      BY <2>2, <3>1 DEF TnAddFinalizer
    <3>2. CASE TnStatus(t)
      BY <2>2, <3>2 DEF TnStatus
    <3>3. CASE TnLabels(t)
      BY <2>2, <3>3 DEF TnLabels
    <3>4. CASE TnRemoveFinalizer(t)
      <4>1. CASE DropTn(t, {"tenant"})
        BY <1>v, <4>1 DEF DropTn, TnVarsOK
      <4> QED
        BY <2>2, <3>4, <4>1 DEF TnRemoveFinalizer
    <3> QED
      BY <2>3, <3>1, <3>2, <3>3, <3>4
  <2>4. CASE TnResources(t) \/ TnKcUser(t) \/ TnKcGetRoles(t) \/ TnKcDeleteRoles(t)
             \/ TnKcAddRoles(t) \/ TnNextcloud(t) \/ TnDeleteKcUser(t) \/ TnDeleteNcUser(t)
    BY <2>4 DEF TnResources, TnKcUser, TnKcGetRoles, TnKcDeleteRoles, TnKcAddRoles, TnNextcloud,
                TnDeleteKcUser, TnDeleteNcUser, tnVars
  <2> QED
    BY <2>1, <2>3, <2>4 DEF TnRun
<1>3. kcHas'[u] = kcHas[u]
  BY <1>v DEF TnRun, TnGet, TnAddFinalizer, TnResources, TnKcUser, TnKcGetRoles, TnKcDeleteRoles,
              TnKcAddRoles, TnNextcloud, TnStatus, TnLabels, TnDeleteKcUser, TnDeleteNcUser,
              TnRemoveFinalizer, kcVars
<1>4. (u \in kcUsers' <=> u \in kcUsers) /\ (u \in ncUsers' <=> u \in ncUsers)
  BY DEF TnRun, TnGet, TnAddFinalizer, TnResources, TnKcUser, TnKcGetRoles, TnKcDeleteRoles,
         TnKcAddRoles, TnNextcloud, TnStatus, TnLabels, TnDeleteKcUser, TnDeleteNcUser,
         TnRemoveFinalizer, kcVars
<1>5. u \in tnQueue' <=> u \in tnQueue
  BY DEF TnRun, TnGet, TnAddFinalizer, TnResources, TnKcUser, TnKcGetRoles, TnKcDeleteRoles,
         TnKcAddRoles, TnNextcloud, TnStatus, TnLabels, TnDeleteKcUser, TnDeleteNcUser,
         TnRemoveFinalizer, TnReturn, queueVars
<1> QED
  BY <1>1, <1>2, <1>3, <1>4, <1>5

(* What a step of the reconciliation of t does, by the step it has         *)
(* reached: an error is never forgotten, and a step that meets none has    *)
(* done what it is there for.                                              *)
TnMoved(t) ==
  LET p == tproc[t]
      q == tproc'[t]
      wanted == RolesOf(p.spec, p.exist)
  IN /\ p \in TnProc /\ p # TnIdle
     /\ (q = TnIdle /\ p.pc \in {"labels", "delfin"}) \/ (q # TnIdle /\ (p.err => q.err))
     /\ p.pc \in DelSteps => q = TnIdle \/ q.pc \in DelSteps
     /\ p.pc \notin DelSteps =>
          /\ q.pc \notin DelSteps
          /\ t \in kcUsers => t \in kcUsers'
          /\ t \in ncUsers => t \in ncUsers'
     /\ p.pc = "fin" => q.pc = "res" /\ UNCHANGED kcHas
     /\ p.pc = "res" => /\ q.pc = "kcuser" /\ q.spec = p.spec /\ UNCHANGED kcHas
                        /\ q.err \/ (q.nsOk /\ q.exist = DOMAIN q.spec)
     /\ p.pc = "kcuser" => /\ Kept(t) /\ UNCHANGED kcHas
                           /\ q.err \/ (q.pc = "kcget" /\ t \in kcUsers')
     /\ p.pc = "kcget" =>
          /\ Kept(t) /\ UNCHANGED kcHas
          /\ \/ q.err
             \/ q.pc = "kcadd" /\ kcHas[t] \subseteq wanted
             \/ q.pc = "kcdel" /\ q.drop = kcHas[t] \ wanted
     /\ p.pc = "kcdel" =>
          Kept(t) /\ (q.err \/ (q.pc = "kcadd" /\ kcHas'[t] = kcHas[t] \ p.drop))
     /\ p.pc = "kcadd" =>
          Kept(t) /\ (q.err \/ (q.pc = "nc" /\ kcHas'[t] = kcHas[t] \cup wanted))
     /\ p.pc = "nc" => /\ Kept(t) /\ q.pc = "status" /\ UNCHANGED kcHas
                       /\ q.err \/ ~p.nsOk \/ t \in ncUsers'
     /\ p.pc = "status" => Kept(t) /\ q.pc = "labels" /\ UNCHANGED kcHas
     /\ p.pc = "labels" => q = TnIdle /\ UNCHANGED kcHas
     /\ p.pc = "delkc" => q.pc = "delnc" /\ (q.err \/ t \notin kcUsers')
     /\ p.pc = "delnc" => /\ q.pc = "delfin" /\ (q.err \/ t \notin ncUsers')
                          /\ t \notin kcUsers => t \notin kcUsers'
     /\ p.pc = "delfin" => q = TnIdle

(* Every step of a reconciliation moves so (tenant_controller.go).         *)
LEMMA TnMoves == ASSUME TypeOK, NEW t \in Tenants, TnRun(t) PROVE TnMoved(t)
<1>v. /\ tproc \in [Tenants -> TnProc \cup {TnIdle}] /\ kcHas \in [Tenants -> SUBSET KcRole]
  BY DEF TypeOK, ClusterTypeOK, TnTypeOK, KcVarsOK
<1>b. ASSUME NEW pc \in TnSteps, TnAt(t, pc)
      PROVE  tproc[t] \in TnProc /\ tproc[t] # TnIdle /\ tproc[t].pc = pc
  BY <1>b, <1>v DEF TnAt, TnIdle, TnSteps
(* a step that ends with Goto or Fail *)
<1>g. ASSUME tproc[t] \in TnProc, NEW pc \in TnSteps, Goto(t, pc)
      PROVE  /\ tproc'[t] # TnIdle /\ tproc'[t].pc = pc /\ Kept(t)
             /\ tproc'[t].err = tproc[t].err
  <2>1. tproc'[t] = [tproc[t] EXCEPT !.pc = pc]
    BY <1>g, <1>v DEF Goto
  <2> QED
    BY <1>g, <2>1 DEF TnProc, TnSteps, TnIdle, Kept
<1>f. ASSUME tproc[t] \in TnProc, NEW pc \in TnSteps, Fail(t, pc)
      PROVE  tproc'[t] # TnIdle /\ tproc'[t].pc = pc /\ Kept(t) /\ tproc'[t].err
  <2>1. tproc'[t] = [tproc[t] EXCEPT !.pc = pc, !.err = TRUE]
    BY <1>f, <1>v DEF Fail
  <2> QED
    BY <1>f, <2>1 DEF TnProc, TnSteps, TnIdle, Kept
<1>1. CASE TnAddFinalizer(t)
  <2>1. tproc[t] \in TnProc /\ tproc[t] # TnIdle /\ tproc[t].pc = "fin"
    BY <1>1, <1>b DEF TnAddFinalizer, TnSteps
  <2>2. PICK ok \in BOOLEAN :
          tproc' = [tproc EXCEPT ![t].pc = "res", ![t].fin = TRUE, ![t].err = @ \/ ~ok]
    BY <1>1 DEF TnAddFinalizer
  <2>3. tproc'[t] = [tproc[t] EXCEPT !.pc = "res", !.fin = TRUE, !.err = @ \/ ~ok]
    BY <1>v, <2>2
  <2>4. tproc'[t].pc = "res" /\ tproc'[t] # TnIdle /\ (tproc[t].err => tproc'[t].err)
    BY <2>1, <2>3 DEF TnProc, TnIdle
  <2>5. UNCHANGED <<kcHas, kcUsers, ncUsers>>
    BY <1>1 DEF TnAddFinalizer, kcVars
  <2> QED
    BY <2>1, <2>4, <2>5 DEF TnMoved, DelSteps
<1>2. CASE TnResources(t)
  <2> DEFINE exist == {i \in DOMAIN tproc[t].spec : wsCache[tproc[t].spec[i].ws].live}
  <2>1. tproc[t] \in TnProc /\ tproc[t] # TnIdle /\ tproc[t].pc = "res"
    BY <1>2, <1>b DEF TnResources, TnSteps
  <2>2. PICK nsOk, resOk \in BOOLEAN :
          /\ resOk => nsOk
          /\ tproc' = [tproc EXCEPT ![t].pc = "kcuser", ![t].nsOk = nsOk, ![t].exist = exist,
                      ![t].err = tproc[t].err \/ ~resOk \/ exist # DOMAIN tproc[t].spec]
    BY <1>2 DEF TnResources, CreateOrUpdateTnResources
  <2> HIDE DEF exist
  <2>3. tproc'[t] = [tproc[t] EXCEPT !.pc = "kcuser", !.nsOk = nsOk, !.exist = exist,
                       !.err = tproc[t].err \/ ~resOk \/ exist # DOMAIN tproc[t].spec]
    BY <1>v, <2>2
  <2>4. /\ tproc'[t].pc = "kcuser" /\ tproc'[t] # TnIdle /\ tproc'[t].spec = tproc[t].spec
        /\ tproc'[t].nsOk = nsOk /\ tproc'[t].exist = exist
        /\ tproc'[t].err = (tproc[t].err \/ ~resOk \/ exist # DOMAIN tproc[t].spec)
    BY <2>1, <2>3 DEF TnProc, TnIdle
  <2>5. UNCHANGED <<kcHas, kcUsers, ncUsers>>
    BY <1>2 DEF TnResources, kcVars
  <2> QED
    BY <2>1, <2>2, <2>4, <2>5 DEF TnMoved, DelSteps
<1>3. CASE TnKcUser(t)
  <2>1. tproc[t] \in TnProc /\ tproc[t] # TnIdle /\ tproc[t].pc = "kcuser"
    BY <1>3, <1>b DEF TnKcUser, TnSteps
  <2>2. \/ kcUsers' = kcUsers \cup {t} /\ Goto(t, "kcget")
        \/ kcUsers' \in {kcUsers, kcUsers \cup {t}} /\ Fail(t, "nc")
    BY <1>3 DEF TnKcUser
  <2>3. UNCHANGED <<kcHas, ncUsers>>
    BY <1>3 DEF TnKcUser
  <2> QED
    BY <1>f, <1>g, <2>1, <2>2, <2>3 DEF TnMoved, DelSteps, TnSteps
<1>4. CASE TnKcGetRoles(t)
  <2> DEFINE wanted == RolesOf(tproc[t].spec, tproc[t].exist)
             drop == kcHas[t] \ wanted
  <2>1. tproc[t] \in TnProc /\ tproc[t] # TnIdle /\ tproc[t].pc = "kcget"
    BY <1>4, <1>b DEF TnKcGetRoles, TnSteps
  <2>2. \/ tproc' = [tproc EXCEPT ![t].pc = IF drop = {} THEN "kcadd" ELSE "kcdel",
                                  ![t].drop = drop]
        \/ Fail(t, "nc")
    BY <1>4 DEF TnKcGetRoles
  <2>3. UNCHANGED <<kcHas, kcUsers, ncUsers>>
    BY <1>4 DEF TnKcGetRoles, kcVars
  <2>4. CASE Fail(t, "nc")
    BY <1>f, <2>1, <2>3, <2>4 DEF TnMoved, DelSteps, TnSteps
  <2>5. CASE ~Fail(t, "nc")
    <3>1. tproc'[t] = [tproc[t] EXCEPT !.pc = IF drop = {} THEN "kcadd" ELSE "kcdel",
                                       !.drop = drop]
      BY <1>v, <2>2, <2>5
    <3>2. /\ tproc'[t].pc = (IF drop = {} THEN "kcadd" ELSE "kcdel") /\ tproc'[t] # TnIdle
          /\ Kept(t) /\ tproc'[t].err = tproc[t].err /\ tproc'[t].drop = drop
      BY <2>1, <3>1 DEF TnProc, TnIdle, Kept
    <3>3. drop = {} => kcHas[t] \subseteq wanted
      OBVIOUS
    <3> QED
      BY <2>1, <2>3, <3>2, <3>3 DEF TnMoved, DelSteps
  <2> QED
    BY <2>4, <2>5
<1>5. CASE TnKcDeleteRoles(t)
  <2>1. tproc[t] \in TnProc /\ tproc[t] # TnIdle /\ tproc[t].pc = "kcdel"
    BY <1>5, <1>b DEF TnKcDeleteRoles, TnSteps
  <2>2. \/ /\ kcHas' = [kcHas EXCEPT ![t] = @ \ tproc[t].drop]
           /\ tproc' = [tproc EXCEPT ![t].pc = "kcadd", ![t].drop = {}]
        \/ Fail(t, "nc")
    BY <1>5 DEF TnKcDeleteRoles
  <2>3. UNCHANGED <<kcUsers, ncUsers>>
    BY <1>5 DEF TnKcDeleteRoles
  <2>4. CASE Fail(t, "nc")
    BY <1>f, <2>1, <2>3, <2>4 DEF TnMoved, DelSteps, TnSteps
  <2>5. CASE ~Fail(t, "nc")
    <3>1. /\ tproc'[t] = [tproc[t] EXCEPT !.pc = "kcadd", !.drop = {}]
          /\ kcHas'[t] = kcHas[t] \ tproc[t].drop
      BY <1>v, <2>2, <2>5
    <3>2. /\ tproc'[t].pc = "kcadd" /\ tproc'[t] # TnIdle
          /\ Kept(t) /\ tproc'[t].err = tproc[t].err
      BY <2>1, <3>1 DEF TnProc, TnIdle, Kept
    <3> QED
      BY <2>1, <2>3, <3>1, <3>2 DEF TnMoved, DelSteps
  <2> QED
    BY <2>4, <2>5
<1>6. CASE TnKcAddRoles(t)
  <2> DEFINE wanted == RolesOf(tproc[t].spec, tproc[t].exist)
  <2>1. tproc[t] \in TnProc /\ tproc[t] # TnIdle /\ tproc[t].pc = "kcadd"
    BY <1>6, <1>b DEF TnKcAddRoles, TnSteps
  <2>2. \/ kcHas' = [kcHas EXCEPT ![t] = @ \cup wanted] /\ Goto(t, "nc")
        \/ Fail(t, "nc")
    BY <1>6 DEF TnKcAddRoles
  <2>3. UNCHANGED <<kcUsers, ncUsers>>
    BY <1>6 DEF TnKcAddRoles
  <2>4. kcHas' = [kcHas EXCEPT ![t] = @ \cup wanted] => kcHas'[t] = kcHas[t] \cup wanted
    BY <1>v
  <2> QED
    BY <1>f, <1>g, <2>1, <2>2, <2>3, <2>4 DEF TnMoved, DelSteps, TnSteps
<1>7. CASE TnNextcloud(t)
  <2>1. tproc[t] \in TnProc /\ tproc[t] # TnIdle /\ tproc[t].pc = "nc"
    BY <1>7, <1>b DEF TnNextcloud, TnSteps
  <2>2. \/ ncUsers' = ncUsers \cup {t} /\ Goto(t, "status")
        \/ ncUsers' \in {ncUsers, ncUsers \cup {t}} /\ Fail(t, "status")
        \/ ~tproc[t].nsOk /\ Goto(t, "status") /\ UNCHANGED ncUsers
    BY <1>7 DEF TnNextcloud
  <2>3. UNCHANGED <<kcHas, kcUsers>>
    BY <1>7 DEF TnNextcloud, kcVars
  <2> QED
    BY <1>f, <1>g, <2>1, <2>2, <2>3 DEF TnMoved, DelSteps, TnSteps
<1>8. CASE TnStatus(t)
  <2>1. tproc[t] \in TnProc /\ tproc[t] # TnIdle /\ tproc[t].pc = "status"
    BY <1>8, <1>b DEF TnStatus, TnSteps
  <2>2. PICK ok \in BOOLEAN : tproc' = [tproc EXCEPT ![t].pc = "labels", ![t].err = @ \/ ~ok]
    BY <1>8 DEF TnStatus
  <2>3. tproc'[t] = [tproc[t] EXCEPT !.pc = "labels", !.err = @ \/ ~ok]
    BY <1>v, <2>2
  <2>4. /\ tproc'[t].pc = "labels" /\ tproc'[t] # TnIdle /\ (tproc[t].err => tproc'[t].err)
        /\ Kept(t)
    BY <2>1, <2>3 DEF TnProc, TnIdle, Kept
  <2>5. UNCHANGED <<kcHas, kcUsers, ncUsers>>
    BY <1>8 DEF TnStatus, kcVars
  <2> QED
    BY <2>1, <2>4, <2>5 DEF TnMoved, DelSteps
<1>9. CASE TnLabels(t) \/ TnRemoveFinalizer(t)
  <2>1. tproc[t] \in TnProc /\ tproc[t] # TnIdle /\ tproc[t].pc \in {"labels", "delfin"}
    BY <1>9, <1>b DEF TnLabels, TnRemoveFinalizer, TnSteps
  <2>2. tproc'[t] = TnIdle
    BY <1>9, <1>v DEF TnLabels, TnRemoveFinalizer, TnReturn
  <2>3. UNCHANGED <<kcHas, kcUsers, ncUsers>>
    BY <1>9 DEF TnLabels, TnRemoveFinalizer, kcVars
  <2>4. TnIdle.pc \notin DelSteps
    BY DEF TnIdle, DelSteps
  <2> QED
    BY <2>1, <2>2, <2>3, <2>4 DEF TnMoved, DelSteps
<1>10. CASE TnDeleteKcUser(t)
  <2>1. tproc[t] \in TnProc /\ tproc[t] # TnIdle /\ tproc[t].pc = "delkc"
    BY <1>10, <1>b DEF TnDeleteKcUser, TnSteps
  <2>2. (kcUsers' = kcUsers \ {t} /\ Goto(t, "delnc")) \/ Fail(t, "delnc")
    BY <1>10 DEF TnDeleteKcUser
  <2> QED
    BY <1>f, <1>g, <2>1, <2>2 DEF TnMoved, DelSteps, TnSteps
<1>11. CASE TnDeleteNcUser(t)
  <2>1. tproc[t] \in TnProc /\ tproc[t] # TnIdle /\ tproc[t].pc = "delnc"
    BY <1>11, <1>b DEF TnDeleteNcUser, TnSteps
  <2>2. (ncUsers' = ncUsers \ {t} /\ Goto(t, "delfin")) \/ Fail(t, "delfin")
    BY <1>11 DEF TnDeleteNcUser
  <2>3. UNCHANGED kcUsers
    BY <1>11 DEF TnDeleteNcUser, kcVars
  <2> QED
    BY <1>f, <1>g, <2>1, <2>2, <2>3 DEF TnMoved, DelSteps, TnSteps
<1> QED
  BY <1>1, <1>2, <1>3, <1>4, <1>5, <1>6, <1>7, <1>8, <1>9, <1>10, <1>11 DEF TnRun

(* What the same step does to the stored tenant. Only the status may make  *)
(* it ready, the labels are the last write, and after it the tenant is not *)
(* queued only if nothing went wrong.                                      *)
TnWrote(t) ==
  LET p == tproc[t] IN
  /\ tnCache' = tnCache
  /\ \/ tn'[t] = tn[t] /\ tnFresh'[t] \subseteq tnFresh[t]
     \/ /\ "tenant" \in tnFresh[t] /\ tnFresh'[t] \subseteq {"tenant"}
        /\ \/ tn'[t] = NoTenant
           \/ /\ tn'[t].del = tn[t].del
              /\ tn'[t].ready = tn[t].ready \/ (p.pc = "status" /\ tn'[t].ready = ~p.err)
  /\ p.pc = "status" /\ ~tproc'[t].err => tn'[t].ready
  /\ p.pc \in {"labels", "delfin"} /\ t \notin tnQueue' =>
       \/ "cache" \notin tnFresh'[t]
       \/ ~tn'[t].live
       \/ /\ p.pc = "labels" /\ ~p.err /\ "tenant" \in tnFresh[t]
          /\ tn'[t] = tn[t] /\ tn[t].labels = LabelsOf(p.spec, p.exist)

(* Every step of a reconciliation writes so.                               *)
LEMMA TnWrites == ASSUME TypeOK, FreshCopies, NEW t \in Tenants, TnRun(t) PROVE TnWrote(t)
<1>v. /\ tproc \in [Tenants -> TnProc \cup {TnIdle}] /\ TnVarsOK /\ tn[t] \in TenantObj
  BY DEF TypeOK, ClusterTypeOK, TnTypeOK, TnVarsOK
<1>m. tproc[t] # TnIdle /\ tproc[t] \in TnProc
  BY TnMoves DEF TnMoved
<1>c. "tenant" \in tnFresh[t] =>
        /\ tn[t].live /\ (tn[t].del <=> tproc[t].pc \in DelSteps)
        /\ tn[t].spec = tproc[t].spec
  BY <1>m DEF FreshCopies, TnCopyCurrent, DelSteps
<1>1. CASE tproc[t].pc \notin {"fin", "status", "labels", "delfin"}
  BY <1>1 DEF TnRun, TnAddFinalizer, TnResources, TnKcUser, TnKcGetRoles, TnKcDeleteRoles,
              TnKcAddRoles, TnNextcloud, TnStatus, TnLabels, TnDeleteKcUser, TnDeleteNcUser,
              TnRemoveFinalizer, TnAt, tnVars, TnWrote
<1>2. CASE TnAddFinalizer(t)
  <2> DEFINE new == [tn[t] EXCEPT !.spec = tproc[t].spec, !.fin = TRUE]
  <2>1. new.del = tn[t].del /\ new.ready = tn[t].ready
    BY <1>v DEF TenantObj
  <2>2. \E ok \in BOOLEAN : UpdateTn(t, "tenant", new, ok, {})
    BY <1>2 DEF TnAddFinalizer
  <2> HIDE DEF new
  <2>3. TnUpdated(t, "tenant", new, {})
    BY <1>v, <2>2, UpdateTnEffect
  <2>4. tproc[t].pc = "fin"
    BY <1>2 DEF TnAddFinalizer, TnAt
  <2> QED
    BY <2>1, <2>3, <2>4 DEF TnWrote, TnUpdated
<1>3. CASE TnStatus(t)
  <2> DEFINE new == [tn[t] EXCEPT !.ready = ~tproc[t].err]
  <2>1. new.del = tn[t].del /\ new.ready = ~tproc[t].err
    BY <1>v DEF TenantObj
  <2>2. PICK ok \in BOOLEAN :
          /\ UpdateTn(t, "tenant", new, ok, {})
          /\ tproc' = [tproc EXCEPT ![t].pc = "labels", ![t].err = @ \/ ~ok]
    BY <1>3 DEF TnStatus
  <2> HIDE DEF new
  <2>3. TnUpdated(t, "tenant", new, {})
    BY <1>v, <2>2, UpdateTnEffect
  <2>4. tproc[t].pc = "status"
    BY <1>3 DEF TnStatus, TnAt
  <2>5. ~tproc'[t].err => ok /\ ~tproc[t].err
    <3>1. tproc'[t] = [tproc[t] EXCEPT !.pc = "labels", !.err = @ \/ ~ok]
      BY <1>v, <2>2
    <3>2. tproc'[t].err = (tproc[t].err \/ ~ok)
      BY <1>m, <3>1 DEF TnProc
    <3> QED
      BY <3>2
  <2>6. ok => "tenant" \in tnFresh[t] /\ tn'[t] = IF new.del /\ ~new.fin THEN NoTenant ELSE new
    BY <1>v, <2>2 DEF UpdateTn, StoreTn, TnVarsOK
  <2>7. ok => tn'[t] = new
    BY <1>c, <2>1, <2>4, <2>6 DEF DelSteps
  <2> QED
    BY <2>1, <2>3, <2>4, <2>5, <2>7 DEF TnWrote, TnUpdated
<1>4. CASE TnLabels(t)
  <2> DEFINE new == WithLabels(t)
  <2>1. /\ new.del = tn[t].del /\ new.ready = tn[t].ready
        /\ new.labels = LabelsOf(tproc[t].spec, tproc[t].exist)
    BY <1>v DEF TenantObj, WithLabels
  <2>2. PICK ok \in BOOLEAN :
          UpdateTn(t, "tenant", new, ok, {"tenant"}) /\ TnReturn(t, tproc[t].err \/ ~ok, TRUE)
    BY <1>4 DEF TnLabels
  <2> HIDE DEF new
  <2>3. TnUpdated(t, "tenant", new, {"tenant"})
    BY <1>v, <2>2, UpdateTnEffect
  <2>4. tproc[t].pc = "labels"
    BY <1>4 DEF TnLabels, TnAt
  <2>5. t \notin tnQueue' => ok /\ ~tproc[t].err
    BY <2>2 DEF TnReturn
  <2>6. ok => /\ "tenant" \in tnFresh[t] /\ tn'[t] = IF new.del /\ ~new.fin THEN NoTenant ELSE new
              /\ "cache" \in tnFresh'[t] => tn'[t] = tn[t]
    BY <1>v, <2>2 DEF UpdateTn, StoreTn, TnVarsOK
  <2>7. ~NoTenant.live
    BY DEF NoTenant
  <2> QED
    BY <2>1, <2>3, <2>4, <2>5, <2>6, <2>7 DEF TnWrote, TnUpdated
<1>5. CASE TnRemoveFinalizer(t)
  <2> DEFINE new == [tn[t] EXCEPT !.spec = tproc[t].spec, !.fin = FALSE]
  <2>1. new.del = tn[t].del /\ new.ready = tn[t].ready /\ ~new.fin
    BY <1>v DEF TenantObj
  <2>2. tproc[t].pc = "delfin"
    BY <1>5 DEF TnRemoveFinalizer, TnAt
  <2>3. CASE DropTn(t, {"tenant"}) /\ UNCHANGED tnCache /\ TnReturn(t, TRUE, FALSE)
    BY <1>v, <2>2, <2>3 DEF DropTn, TnReturn, TnWrote, TnVarsOK
  <2>4. CASE \E ok \in BOOLEAN : /\ UpdateTn(t, "tenant", new, ok, {"tenant"})
                                 /\ TnReturn(t, ~ok, FALSE)
    <3>1. PICK ok \in BOOLEAN : /\ UpdateTn(t, "tenant", new, ok, {"tenant"})
                                /\ TnReturn(t, ~ok, FALSE)
      BY <2>4
    <3> HIDE DEF new
    <3>2. TnUpdated(t, "tenant", new, {"tenant"})
      BY <1>v, <3>1, UpdateTnEffect
    <3>3. t \notin tnQueue' => ok
      BY <3>1 DEF TnReturn
    <3>4. ok => "tenant" \in tnFresh[t] /\ tn'[t] = IF new.del /\ ~new.fin THEN NoTenant ELSE new
      BY <1>v, <3>1 DEF UpdateTn, StoreTn, TnVarsOK
    <3>5. ok => tn'[t] = NoTenant /\ ~NoTenant.live
      BY <1>c, <2>1, <2>2, <3>4 DEF DelSteps, NoTenant
    <3> QED
      BY <2>1, <2>2, <3>2, <3>3, <3>5 DEF TnWrote, TnUpdated
  <2> QED
    BY <1>5, <2>3, <2>4 DEF TnRemoveFinalizer
<1> QED
  BY <1>1, <1>2, <1>3, <1>4, <1>5
     DEF TnRun, TnResources, TnKcUser, TnKcGetRoles, TnKcDeleteRoles, TnKcAddRoles, TnNextcloud,
         TnDeleteKcUser, TnDeleteNcUser, TnAt

(* Taking a tenant from the queue.                                         *)
TnTaken(t) ==
  LET o == tnCache[t]
      q == tproc'[t]
  IN /\ UNCHANGED <<tn, tnCache, kcUsers, ncUsers, kcHas>>
     /\ tproc[t] = TnIdle /\ t \notin tnQueue'
     /\ \/ (~o.live \/ ~o.sel \/ o.del) /\ UNCHANGED <<tproc, tnFresh>>
        \/ /\ tnFresh'[t] = CopyFresh(tnFresh[t], "tenant") /\ q # TnIdle /\ ~q.err
           /\ q.pc = IF o.del THEN "delkc" ELSE IF o.fin THEN "res" ELSE "fin"

(* TnGet does that.                                                        *)
LEMMA TnTakes == ASSUME TypeOK, NEW t \in Tenants, TnGet(t) PROVE TnTaken(t)
<1>v. tproc \in [Tenants -> TnProc \cup {TnIdle}] /\ TnVarsOK
  BY DEF TypeOK, ClusterTypeOK, TnTypeOK
<1>1. UNCHANGED <<tn, tnCache, kcUsers, ncUsers, kcHas>> /\ tproc[t] = TnIdle /\ t \notin tnQueue'
  BY DEF TnGet, kcVars
<1>2. CASE UNCHANGED <<tproc, tnFresh>> /\ (~tnCache[t].live \/ ~tnCache[t].sel \/ tnCache[t].del)
  BY <1>1, <1>2 DEF TnTaken
<1>3. CASE ~(~tnCache[t].live \/ ~tnCache[t].sel \/ (tnCache[t].del /\ ~tnCache[t].fin))
  <2> DEFINE pc == IF tnCache[t].del THEN "delkc" ELSE IF tnCache[t].fin THEN "res" ELSE "fin"
             q == [pc |-> pc, spec |-> tnCache[t].spec, fin |-> tnCache[t].fin, err |-> FALSE,
                   nsOk |-> FALSE, exist |-> {}, drop |-> {}]
  <2>1. tproc' = [tproc EXCEPT ![t] = q] /\ tnFresh' = [tnFresh EXCEPT ![t] = CopyFresh(@, "tenant")]
    BY <1>3 DEF TnGet
  <2>2. tproc'[t] = q /\ tnFresh'[t] = CopyFresh(tnFresh[t], "tenant")
    BY <1>v, <2>1 DEF TnVarsOK
  <2>3. q.pc = pc /\ ~q.err /\ q # TnIdle
    BY DEF TnIdle
  <2> QED
    BY <1>1, <2>2, <2>3 DEF TnTaken
<1> QED
  BY <1>2, <1>3 DEF TnGet

-----------------------------------------------------------------------------
(* What a step of anyone else does to a tenant: nothing, bring the cache   *)
(* up to date and queue it, or store a version nobody has a copy of, which *)
(* is not newly ready and whose deletion is not taken back.                *)
TnLeft(t) ==
  /\ tproc'[t] = tproc[t] /\ (t \in kcUsers' <=> t \in kcUsers)
  /\ (t \in ncUsers' <=> t \in ncUsers) /\ kcHas'[t] \subseteq kcHas[t]
  /\ t \in tnQueue => t \in tnQueue'
  /\ \/ /\ tn'[t] = tn[t] /\ tnCache'[t] = tnCache[t]
        /\ \A h \in {"cache", "tenant"} : h \in tnFresh'[t] <=> h \in tnFresh[t]
     \/ /\ tn'[t] = tn[t] /\ tnCache'[t] = Cached(tn[t])
        /\ tnFresh'[t] = tnFresh[t] \cup {"cache"}
        /\ tn[t].live /\ tn[t].sel => t \in tnQueue'
     \/ /\ tnCache'[t] = tnCache[t] /\ tnFresh'[t] = {}
        /\ tn'[t].ready => tn[t].ready /\ (tn[t].del => tn'[t].del)

(* The watch, the timer and people do no more than that.                   *)
LEMMA EnvLeaves ==
  ASSUME TypeOK, EnvStep, UNCHANGED <<wproc, tproc>> PROVE \A t \in Tenants : TnLeft(t)
<1>v. TnVarsOK /\ tn \in [Tenants -> TenantObj] /\ ~NoTenant.ready
  BY DEF TypeOK, ClusterTypeOK, TnVarsOK, NoTenant
<1>1. ASSUME UNCHANGED <<tnVars, kcVars, ncUsers>>, tnQueue \subseteq tnQueue'
      PROVE  \A t \in Tenants : TnLeft(t)
  BY <1>1 DEF TnLeft, tnVars, kcVars
<1>2. ASSUME NEW t \in Tenants, WatchTn(t) PROVE \A u \in Tenants : TnLeft(u)
  BY <1>2, <1>v DEF WatchTn, TnLeft, kcVars, TnVarsOK
<1>3. ASSUME NEW t \in Tenants, NEW kind, NEW new, UserPutTn(t, kind, new),
             new.ready => tn[t].ready /\ (tn[t].del => new.del)
      PROVE  \A u \in Tenants : TnLeft(u)
  <2>1. /\ \A u \in Tenants \ {t} : tn'[u] = tn[u] /\ tnFresh'[u] = tnFresh[u]
        /\ tn'[t] = IF new.del /\ ~new.fin THEN NoTenant ELSE new
        /\ tnFresh'[t] = {} \/ (tnFresh'[t] = tnFresh[t] /\ tn'[t] = tn[t])
    BY <1>3, <1>v DEF UserPutTn, StoreTn, TnVarsOK
  <2>2. UNCHANGED <<tnCache, kcUsers, ncUsers, kcHas, tnQueue>>
    BY <1>3 DEF UserPutTn, UserEdit, kcVars, queueVars
  <2> QED
    BY <1>3, <1>v, <2>1, <2>2 DEF TnLeft
<1>4. ASSUME NEW t \in Tenants,
             UserCreateTn(t) \/ UserSubscribeTn(t) \/ UserRelabelTn(t) \/ UserDeleteTn(t)
      PROVE  \A u \in Tenants : TnLeft(u)
  <2>1. tn[t] \in TenantObj
    BY <1>v
  <2>2. CASE UserCreateTn(t)
    <3>1. PICK new \in NewTenants : UserPutTn(t, "create", new)
      BY <2>2 DEF UserCreateTn
    <3>2. ~new.ready
      <4>1. \A s \in Specs : ~[NoTenant EXCEPT !.live = TRUE, !.sel = TRUE, !.spec = s].ready
        BY <1>v, NoObjects DEF TenantObj
      <4> QED
        BY <4>1 DEF NewTenants
    <3> QED
      BY <1>3, <3>1, <3>2
  <2>3. CASE UserSubscribeTn(t)
    <3>1. PICK spec \in Specs : UserPutTn(t, "subscribe", [tn[t] EXCEPT !.spec = spec])
      BY <2>3 DEF UserSubscribeTn
    <3> DEFINE new == [tn[t] EXCEPT !.spec = spec]
    <3>2. new.ready = tn[t].ready /\ new.del = tn[t].del
      BY <2>1 DEF TenantObj
    <3> QED
      BY <1>3, <3>1, <3>2
  <2>4. CASE UserRelabelTn(t)
    <3> DEFINE new == [tn[t] EXCEPT !.sel = ~@]
    <3>1. new.ready = tn[t].ready /\ new.del = tn[t].del
      BY <2>1 DEF TenantObj
    <3> QED
      BY <1>3, <2>4, <3>1 DEF UserRelabelTn
  <2>5. CASE UserDeleteTn(t)
    <3> DEFINE new == [tn[t] EXCEPT !.del = TRUE]
    <3>1. new.ready = tn[t].ready /\ new.del
      BY <2>1 DEF TenantObj
    <3> QED
      BY <1>3, <2>5, <3>1 DEF UserDeleteTn
  <2> QED
    BY <1>4, <2>2, <2>3, <2>4, <2>5
<1>5. ASSUME NEW t \in Tenants, RequeueTn(t) PROVE \A u \in Tenants : TnLeft(u)
  BY <1>1, <1>5 DEF RequeueTn
<1>6. ASSUME NEW w \in Workspaces, WatchWs(w) \/ RequeueWs(w) \/ UserCreateWs(w)
                                   \/ UserRelabelWs(w) \/ UserDeleteWs(w)
      PROVE  \A u \in Tenants : TnLeft(u)
  BY <1>1, <1>6 DEF WatchWs, RequeueWs, UserCreateWs, UserRelabelWs, UserDeleteWs, UserPutWs,
                    UserEdit, queueVars
<1> QED
  BY <1>2, <1>4, <1>5, <1>6 DEF EnvStep

(* Nor does the workspace reconciler: it removes roles and entries.        *)
LEMMA WsLeaves ==
  ASSUME TypeOK, WsStep, UNCHANGED tproc PROVE \A t \in Tenants : TnLeft(t)
<1>v. TnVarsOK /\ tn \in [Tenants -> TenantObj] /\ ~NoTenant.ready
  BY DEF TypeOK, ClusterTypeOK, TnVarsOK, NoTenant
<1>1. ASSUME UNCHANGED <<tnVars, kcUsers, ncUsers, tnQueue>>,
             \A t \in Tenants : kcHas'[t] \subseteq kcHas[t]
      PROVE  \A t \in Tenants : TnLeft(t)
  BY <1>1 DEF TnLeft, tnVars
<1>2. ASSUME NEW t \in Tenants, WsUnsubscribe(t) PROVE \A u \in Tenants : TnLeft(u)
  <2> DEFINE new == [tn[t] EXCEPT !.spec = RemoveWsFromTn(wproc.specs[t], wproc.w)]
  <2>1. \E ok \in BOOLEAN : UpdateTn(t, "workspace", new, ok, {"workspace"})
    BY <1>2 DEF WsUnsubscribe
  <2>2. new.ready = tn[t].ready /\ new.del = tn[t].del
    BY <1>v DEF TenantObj
  <2> HIDE DEF new
  <2>3. TnUpdated(t, "workspace", new, {"workspace"})
    BY <1>v, <2>1, UpdateTnEffect
  <2>4. UNCHANGED <<kcUsers, ncUsers, kcHas, tnQueue>>
    BY <1>2 DEF WsUnsubscribe, kcVars, queueVars
  <2>5. {"workspace"} \ {"workspace"} = {}
    OBVIOUS
  <2> QED
    BY <1>v, <2>2, <2>3, <2>4, <2>5 DEF TnUpdated, TnLeft
<1>3. CASE WsList
  <2>1. \A t \in Tenants : \A h \in {"cache", "tenant"} : h \in tnFresh'[t] <=> h \in tnFresh[t]
    BY <1>3 DEF WsList, CopyFresh
  <2>2. UNCHANGED <<tn, tnCache, kcUsers, ncUsers, kcHas, tnQueue>>
    BY <1>3 DEF WsList, kcVars, queueVars
  <2> QED
    BY <2>1, <2>2 DEF TnLeft
<1>4. ASSUME NEW r \in Roles, WsDeleteRole(r) PROVE \A u \in Tenants : TnLeft(u)
  BY <1>1, <1>4 DEF WsDeleteRole, queueVars
<1>5. CASE \/ WsAddFinalizer \/ WsClusterResources \/ WsStatus \/ WsRemoveFinalizer
           \/ (\E r \in Roles : WsCreateRole(r)) \/ (\E w \in Workspaces : WsGet(w))
  BY <1>1, <1>5 DEF WsAddFinalizer, WsClusterResources, WsStatus, WsRemoveFinalizer, WsCreateRole,
                    WsGet, WsReturn, kcVars, queueVars
<1> QED
  BY <1>2, <1>3, <1>4, <1>5 DEF WsStep, WsRun

-----------------------------------------------------------------------------
(* Past the deletion of an account, and with no error, it is gone: nobody  *)
(* else reconciles the same tenant meanwhile.                              *)
Deleted(t) ==
  tproc[t] # TnIdle /\ ~tproc[t].err =>
    /\ tproc[t].pc \in {"delnc", "delfin"} => t \notin kcUsers
    /\ tproc[t].pc = "delfin" => t \notin ncUsers

AccountsGone == \A t \in Tenants : Deleted(t)

FinalizerOnLive == \A t \in Tenants : tn[t].fin => tn[t].live

(* The reconciliation of a tenant deletes its accounts in this order.      *)
LEMMA TnAccounts == TypeOK /\ AccountsGone /\ TnStep => AccountsGone'
<1> SUFFICES ASSUME TypeOK, AccountsGone, NEW t \in Tenants, TnRun(t) \/ TnGet(t)
             PROVE  AccountsGone'
  BY DEF TnStep
<1>1. \A u \in Tenants \ {t} : Deleted(u)'
  BY OthersKept DEF AccountsGone, Deleted
<1>2. CASE TnGet(t)
  <2>1. TnTaken(t)
    BY <1>2, TnTakes
  <2> QED
    BY <1>1, <2>1 DEF TnTaken, AccountsGone, Deleted
<1>3. CASE TnRun(t)
  <2>1. TnMoved(t) /\ tproc[t].pc \in TnSteps
    BY <1>3, TnMoves DEF TnMoved, TnProc
  <2>2. Deleted(t)'
    BY <2>1 DEF TnMoved, TnSteps, DelSteps, AccountsGone, Deleted
  <2> QED
    BY <1>1, <2>2 DEF AccountsGone
<1> QED
  BY <1>2, <1>3

(* Past the deletion of its accounts, a tenant has none.                   *)
LEMMA AccountsInvariant == Spec => []AccountsGone
<1>1. Init => AccountsGone
  BY DEF Init, AccountsGone, Deleted
<1>2. TypeOK /\ AccountsGone /\ [Next]_vars => AccountsGone'
  <2> SUFFICES ASSUME TypeOK, AccountsGone, [Next]_vars PROVE AccountsGone'
    OBVIOUS
  <2>1. ASSUME \A t \in Tenants : TnLeft(t) PROVE AccountsGone'
    BY <2>1 DEF TnLeft, AccountsGone, Deleted
  <2>2. CASE Restart
    BY <2>2 DEF Restart, AccountsGone, Deleted
  <2>3. CASE UNCHANGED vars
    BY <2>3 DEF vars, clusterVars, kcVars, AccountsGone, Deleted
  <2> QED
    BY <2>1, <2>2, <2>3, EnvLeaves, WsLeaves, TnAccounts DEF Next
<1> QED
  BY <1>1, <1>2, TypeCorrect, PTL DEF Spec

-----------------------------------------------------------------------------
(* What a step may do to a tenant that carries a finalizer: the tenant is  *)
(* still there afterwards, or it has no account; and a finalizer is put on *)
(* an object that exists.                                                  *)
LeavesClean(t) ==
  /\ tn[t].fin /\ ~tn'[t].live => t \notin kcUsers /\ t \notin ncUsers
  /\ tn'[t].fin => tn'[t].live

(* A write that keeps the finalizer, or whose writer has deleted both      *)
(* accounts ...                                                            *)
SafeWrite(t, h, new) ==
  h \in tnFresh[t] =>
    /\ new.live \/ (~new.fin /\ ~tn[t].fin)
    /\ (tn[t].fin /\ new.del => new.fin) \/ (t \notin kcUsers /\ t \notin ncUsers)

(* ... is such a step.                                                     *)
LEMMA UpdateLeavesClean ==
  ASSUME FinalizerOnLive, NEW t \in Tenants, NEW h, NEW new, NEW drop,
         TnUpdated(t, h, new, drop), SafeWrite(t, h, new)
  PROVE  \A u \in Tenants : LeavesClean(u)
<1>1. ~NoTenant.live /\ ~NoTenant.fin
  BY DEF NoTenant
<1> QED
  BY <1>1 DEF TnUpdated, SafeWrite, LeavesClean, FinalizerOnLive

(* So is one that leaves the tenants alone.                                *)
LEMMA UnwrittenLeavesClean ==
  FinalizerOnLive /\ UNCHANGED tn => \A t \in Tenants : LeavesClean(t)
BY DEF LeavesClean, FinalizerOnLive

(* A user's request keeps an object that has the finalizer.                *)
LEMMA EnvLeavesClean ==
  ASSUME TypeOK, FinalizerOnLive, EnvStep PROVE \A t \in Tenants : LeavesClean(t)
<1>v. tn \in [Tenants -> TenantObj]
  BY DEF TypeOK, ClusterTypeOK, TnVarsOK
<1>1. ASSUME NEW t \in Tenants, NEW kind, NEW new \in TenantObj, UserPutTn(t, kind, new),
             new.live, tn[t].fin => new.fin
      PROVE  \A u \in Tenants : LeavesClean(u)
  <2>1. ~NoTenant.live /\ ~NoTenant.fin
    BY DEF NoTenant
  <2>2. /\ \A u \in Tenants \ {t} : tn'[u] = tn[u]
        /\ tn'[t] = IF new.del /\ ~new.fin THEN NoTenant ELSE new
    BY <1>1, <1>v DEF UserPutTn, StoreTn
  <2> QED
    BY <1>1, <2>1, <2>2 DEF LeavesClean, FinalizerOnLive
<1>2. ASSUME NEW t \in Tenants, UserCreateTn(t) PROVE \A u \in Tenants : LeavesClean(u)
  <2>1. PICK new \in NewTenants : UserPutTn(t, "create", new)
    BY <1>2 DEF UserCreateTn
  <2>2. ASSUME NEW s \in Specs
        PROVE  [NoTenant EXCEPT !.live = TRUE, !.sel = TRUE, !.spec = s].live
    BY NoObjects DEF TenantObj
  <2>3. new \in TenantObj /\ new.live
    BY <2>1, <2>2, NewObjects DEF NewTenants
  <2>4. ~tn[t].fin
    BY <1>2 DEF UserCreateTn, FinalizerOnLive
  <2> QED
    BY <1>1, <2>1, <2>3, <2>4
<1>3. ASSUME NEW t \in Tenants, UserSubscribeTn(t) \/ UserRelabelTn(t) \/ UserDeleteTn(t)
      PROVE  \A u \in Tenants : LeavesClean(u)
  <2>1. tn[t].live /\ tn[t] \in TenantObj
    BY <1>3, <1>v DEF UserSubscribeTn, UserRelabelTn, UserDeleteTn
  <2>2. CASE UserSubscribeTn(t)
    <3>1. PICK spec \in Specs : UserPutTn(t, "subscribe", [tn[t] EXCEPT !.spec = spec])
      BY <2>2 DEF UserSubscribeTn
    <3> DEFINE new == [tn[t] EXCEPT !.spec = spec]
    <3>2. new \in TenantObj /\ new.live /\ new.fin = tn[t].fin
      BY <2>1, ClusterAssumption DEF TenantObj
    <3> QED
      BY <1>1, <3>1, <3>2
  <2>3. CASE UserRelabelTn(t)
    <3> DEFINE new == [tn[t] EXCEPT !.sel = ~@]
    <3>1. new \in TenantObj /\ new.live /\ new.fin = tn[t].fin
      BY <2>1 DEF TenantObj
    <3> QED
      BY <1>1, <2>3, <3>1 DEF UserRelabelTn
  <2>4. CASE UserDeleteTn(t)
    <3> DEFINE new == [tn[t] EXCEPT !.del = TRUE]
    <3>1. new \in TenantObj /\ new.live /\ new.fin = tn[t].fin
      BY <2>1 DEF TenantObj
    <3> QED
      BY <1>1, <2>4, <3>1 DEF UserDeleteTn
  <2> QED
    BY <1>3, <2>2, <2>3, <2>4
<1>4. ASSUME \A t \in Tenants : ~UserCreateTn(t) /\ ~UserSubscribeTn(t) /\ ~UserRelabelTn(t)
                                /\ ~UserDeleteTn(t)
      PROVE  UNCHANGED tn
  BY <1>4 DEF EnvStep, WatchTn, RequeueTn, WatchWs, RequeueWs, UserCreateWs, UserRelabelWs,
              UserDeleteWs, UserPutWs, tnVars
<1> QED
  BY <1>2, <1>3, <1>4, UnwrittenLeavesClean

(* The workspace reconciler leaves the finalizers of tenants alone.        *)
LEMMA WsLeavesClean ==
  ASSUME TypeOK, FinalizerOnLive, WsStep PROVE \A t \in Tenants : LeavesClean(t)
<1>1. ASSUME NEW t \in Tenants, WsUnsubscribe(t) PROVE \A u \in Tenants : LeavesClean(u)
  <2> DEFINE new == [tn[t] EXCEPT !.spec = RemoveWsFromTn(wproc.specs[t], wproc.w)]
  <2>1. \E ok \in BOOLEAN : UpdateTn(t, "workspace", new, ok, {"workspace"})
    BY <1>1 DEF WsUnsubscribe
  <2>2. new.live = tn[t].live /\ new.fin = tn[t].fin
    BY DEF TypeOK, ClusterTypeOK, TnVarsOK, TenantObj
  <2> HIDE DEF new
  <2>3. TnUpdated(t, "workspace", new, {"workspace"})
    BY <2>1, UpdateTnEffect DEF TypeOK, ClusterTypeOK
  <2>4. SafeWrite(t, "workspace", new)
    BY <2>2 DEF FinalizerOnLive, SafeWrite
  <2> QED
    BY <2>3, <2>4, UpdateLeavesClean
<1>2. ASSUME \A t \in Tenants : ~WsUnsubscribe(t) PROVE UNCHANGED tn
  BY <1>2 DEF WsStep, WsRun, WsGet, WsAddFinalizer, WsClusterResources, WsCreateRole, WsStatus,
              WsDeleteRole, WsList, WsRemoveFinalizer, tnVars
<1> QED
  BY <1>1, <1>2, UnwrittenLeavesClean

(* The tenant reconciler removes a finalizer only after both accounts.     *)
LEMMA TnLeavesClean ==
  ASSUME TypeOK, FreshCopies, AccountsGone, FinalizerOnLive, TnStep
  PROVE  \A t \in Tenants : LeavesClean(t)
<1> SUFFICES ASSUME NEW t \in Tenants, TnRun(t) \/ TnGet(t)
             PROVE  \A u \in Tenants : LeavesClean(u)
  BY DEF TnStep
<1> DEFINE writes == TnAddFinalizer(t) \/ TnStatus(t) \/ TnLabels(t) \/ TnRemoveFinalizer(t)
<1>1. CASE ~writes
  <2>1. UNCHANGED tn
    BY <1>1 DEF TnRun, TnGet, TnResources, TnKcUser, TnKcGetRoles, TnKcDeleteRoles, TnKcAddRoles,
                TnNextcloud, TnDeleteKcUser, TnDeleteNcUser, tnVars
  <2> QED
    BY <2>1, UnwrittenLeavesClean
<1>2. CASE writes
  <2>1. tproc[t].pc \in {"fin", "status", "labels", "delfin"} /\ tproc[t] # TnIdle
    <3>1. tproc[t].pc \in {"fin", "status", "labels", "delfin"}
      BY <1>2 DEF TnAddFinalizer, TnStatus, TnLabels, TnRemoveFinalizer, TnAt
    <3> QED
      BY <3>1 DEF TnIdle
  <2>2. "tenant" \in tnFresh[t] =>
          /\ tn[t].live /\ (tn[t].fin => tproc[t].fin)
          /\ tn[t].del <=> tproc[t].pc = "delfin"
    BY <2>1 DEF FreshCopies, TnCopyCurrent
  <2>3. tn[t] \in TenantObj /\ TnVarsOK
    BY DEF TypeOK, ClusterTypeOK, TnVarsOK
  <2>4. ASSUME NEW new, new.live = tn[t].live, NEW ok \in BOOLEAN, NEW drop,
               UpdateTn(t, "tenant", new, ok, drop),
               \/ new.del = tn[t].del /\ (tn[t].fin /\ tn[t].del => new.fin)
               \/ tproc[t].pc # "delfin" /\ new.del = tn[t].del
               \/ t \notin kcUsers /\ t \notin ncUsers
        PROVE  \A u \in Tenants : LeavesClean(u)
    <3>1. TnUpdated(t, "tenant", new, drop)
      BY <2>3, <2>4, UpdateTnEffect
    <3>2. SafeWrite(t, "tenant", new)
      BY <2>2, <2>4 DEF SafeWrite
    <3> QED
      BY <3>1, <3>2, UpdateLeavesClean
  <2>5. CASE TnAddFinalizer(t)
    <3> DEFINE new == [tn[t] EXCEPT !.spec = tproc[t].spec, !.fin = TRUE]
    <3>1. new.live = tn[t].live /\ new.del = tn[t].del /\ new.fin
      BY <2>3 DEF TenantObj
    <3>2. \E ok \in BOOLEAN : UpdateTn(t, "tenant", new, ok, {})
      BY <2>5 DEF TnAddFinalizer
    <3> HIDE DEF new
    <3> QED
      BY <2>4, <3>1, <3>2
  <2>6. CASE TnStatus(t)
    <3> DEFINE new == [tn[t] EXCEPT !.ready = ~tproc[t].err]
    <3>1. new.live = tn[t].live /\ new.del = tn[t].del /\ new.fin = tn[t].fin
      BY <2>3 DEF TenantObj
    <3>2. \E ok \in BOOLEAN : UpdateTn(t, "tenant", new, ok, {})
      BY <2>6 DEF TnStatus
    <3> HIDE DEF new
    <3> QED
      BY <2>4, <3>1, <3>2
  <2>7. CASE TnLabels(t)
    <3>1. WithLabels(t).live = tn[t].live /\ WithLabels(t).del = tn[t].del
      BY <2>3 DEF WithLabels, TenantObj
    <3>2. tproc[t].pc # "delfin"
      BY <2>7 DEF TnLabels, TnAt
    <3> QED
      BY <2>4, <2>7, <3>1, <3>2 DEF TnLabels
  <2>8. CASE TnRemoveFinalizer(t)
    <3> DEFINE new == [tn[t] EXCEPT !.spec = tproc[t].spec, !.fin = FALSE]
    <3>1. new.live = tn[t].live
      BY <2>3 DEF TenantObj
    <3>2. \/ UNCHANGED tn
          \/ ~tproc[t].err /\ \E ok \in BOOLEAN : UpdateTn(t, "tenant", new, ok, {"tenant"})
      BY <2>8 DEF TnRemoveFinalizer, DropTn
    <3> HIDE DEF new
    <3>3. ~tproc[t].err => t \notin kcUsers /\ t \notin ncUsers
      BY <2>1, <2>8 DEF TnRemoveFinalizer, TnAt, AccountsGone, Deleted
    <3> QED
      BY <2>4, <3>1, <3>2, <3>3, UnwrittenLeavesClean
  <2> QED
    BY <1>2, <2>5, <2>6, <2>7, <2>8
<1> QED
  BY <1>1, <1>2

(* In every behaviour of the operator, whatever fails and whenever it      *)
(* restarts, a tenant that goes away while it has the finalizer has no     *)
(* account left.                                                           *)
THEOREM CleanupComesFirst == Spec => CleanupBeforeFinalizer
<1>1. Init => FinalizerOnLive
  <2>1. ~NoTenant.fin /\ \A obj \in NewTenants : ~obj.fin
    <3>1. NoTenant \in TenantObj /\ ~NoTenant.fin
      BY NoObjects DEF NoTenant
    <3>2. ASSUME NEW s \in Specs
          PROVE  ~[NoTenant EXCEPT !.live = TRUE, !.sel = TRUE, !.spec = s].fin
      BY <3>1 DEF TenantObj
    <3> QED
      BY <3>1, <3>2 DEF NewTenants
  <2> QED
    BY <2>1 DEF Init, ClusterInit, FinalizerOnLive
<1>2. TypeOK /\ FreshCopies /\ AccountsGone /\ FinalizerOnLive /\ [Next]_vars =>
        \A t \in Tenants : LeavesClean(t)
  <2> SUFFICES ASSUME TypeOK, FreshCopies, AccountsGone, FinalizerOnLive, [Next]_vars
               PROVE  \A t \in Tenants : LeavesClean(t)
    OBVIOUS
  <2>1. CASE Restart \/ UNCHANGED vars
    BY <2>1, UnwrittenLeavesClean DEF Restart, ClusterRestart, vars, clusterVars, tnVars
  <2> QED
    BY <2>1, EnvLeavesClean, WsLeavesClean, TnLeavesClean DEF Next
<1>3. (\A t \in Tenants : LeavesClean(t)) => FinalizerOnLive'
  BY DEF LeavesClean, FinalizerOnLive
<1>4. (\A t \in Tenants : LeavesClean(t)) =>
        \A t \in Tenants : tn[t].fin /\ ~tn'[t].live => t \notin kcUsers /\ t \notin ncUsers
  BY DEF LeavesClean
<1> QED
  BY <1>1, <1>2, <1>3, <1>4, TypeCorrect, CopiesAreFresh, AccountsInvariant, PTL
     DEF Spec, CleanupBeforeFinalizer

-----------------------------------------------------------------------------
(* A tenant reported ready whose deletion is not requested has its         *)
(* accounts, and nobody is about to delete them: no deletion is being      *)
(* handled, not even one of an earlier tenant of that name, and none is    *)
(* left in the cache.                                                      *)
Reported(t) ==
  tn[t].ready /\ ~tn[t].del =>
    /\ t \in kcUsers /\ t \in ncUsers
    /\ ~tnCache[t].del /\ tproc[t].pc \notin DelSteps

(* A reconciliation that has met no error has created the accounts it got  *)
(* to; while its copy is current no deletion is in the cache.              *)
Underway(t) ==
  LET p == tproc[t] IN
  p # TnIdle /\ p.pc \notin DelSteps =>
    /\ "tenant" \in tnFresh[t] => ~tnCache[t].del
    /\ ~p.err =>
         /\ p.pc \in {"kcuser", "kcget", "kcdel", "kcadd", "nc"} => p.nsOk
         /\ p.pc \in {"kcget", "kcdel", "kcadd", "nc", "status"} => t \in kcUsers
         /\ p.pc = "status" => t \in ncUsers

AccountsReady == \A t \in Tenants : Reported(t) /\ Underway(t)

(* The reconciliation of a tenant keeps AccountsReady: it reports ready    *)
(* what it has created, on a copy that is current.                         *)
LEMMA TnReady == TypeOK /\ FreshCopies /\ AccountsReady /\ TnStep => AccountsReady'
<1> SUFFICES ASSUME TypeOK, FreshCopies, AccountsReady, NEW t \in Tenants, TnRun(t) \/ TnGet(t)
             PROVE  AccountsReady'
  BY DEF TnStep
<1>c. tnCache' = tnCache
  BY TnWrites, TnTakes DEF TnWrote, TnTaken
<1>o. \A u \in Tenants \ {t} : Reported(u)' /\ Underway(u)'
  BY <1>c, OthersKept DEF AccountsReady, Reported, Underway
<1>v. tn[t] \in TenantObj /\ ~NoTenant.ready /\ TnIdle.pc \notin DelSteps
  BY DEF TypeOK, ClusterTypeOK, TnVarsOK, NoTenant, TnIdle, DelSteps
<1>1. CASE TnGet(t)
  <2>1. TnTaken(t)
    BY <1>1, TnTakes
  <2>2. "cache" \in tnFresh[t] => tnCache[t].del = tn[t].del
    BY <1>v DEF FreshCopies, TnCacheCurrent, Cached, TenantObj
  <2>3. Reported(t)'
    BY <2>1, <1>v DEF TnTaken, AccountsReady, Reported, DelSteps
  <2>4. Underway(t)'
    BY <2>1, <1>v DEF TnTaken, AccountsReady, Underway, DelSteps
  <2> QED
    BY <1>o, <2>3, <2>4 DEF AccountsReady
<1>2. CASE TnRun(t)
  <2>1. TnMoved(t) /\ TnWrote(t)
    BY <1>2, TnMoves, TnWrites
  <2>2. tproc[t] # TnIdle /\ tproc[t].pc \in TnSteps
    BY <2>1 DEF TnMoved, TnProc
  <2>3. "tenant" \in tnFresh[t] => (tn[t].del <=> tproc[t].pc \in DelSteps)
    BY <2>2 DEF FreshCopies, TnCopyCurrent, DelSteps
  <2>4. Underway(t)'
    BY <2>1, <2>2 DEF TnMoved, TnWrote, Kept, AccountsReady, Underway, DelSteps, TnSteps
  <2>5. Reported(t)'
    BY <1>v, <2>1, <2>2, <2>3 DEF TnMoved, TnWrote, AccountsReady, Underway, Reported, DelSteps
  <2> QED
    BY <1>o, <2>4, <2>5 DEF AccountsReady
<1> QED
  BY <1>1, <1>2

(* A tenant reported ready has both accounts until its deletion is         *)
(* requested, whatever fails and whenever the operator restarts.           *)
THEOREM ReadyMeansAccounts == Spec => []ReadyTenantHasAccounts
<1>1. Init => AccountsReady
  <2>1. ~NoTenant.ready /\ \A obj \in NewTenants : ~obj.ready
    <3>1. NoTenant \in TenantObj /\ ~NoTenant.ready
      BY NoObjects DEF NoTenant
    <3>2. \A s \in Specs : ~[NoTenant EXCEPT !.live = TRUE, !.sel = TRUE, !.spec = s].ready
      BY <3>1 DEF TenantObj
    <3> QED
      BY <3>1, <3>2 DEF NewTenants
  <2> QED
    BY <2>1 DEF Init, ClusterInit, AccountsReady, Reported, Underway
<1>2. TypeOK /\ FreshCopies /\ AccountsReady /\ [Next]_vars => AccountsReady'
  <2> SUFFICES ASSUME TypeOK, FreshCopies, AccountsReady, [Next]_vars PROVE AccountsReady'
    OBVIOUS
  <2>v. \A t \in Tenants : Cached(tn[t]).del = tn[t].del
    BY DEF Cached, TypeOK, ClusterTypeOK, TnVarsOK, TenantObj
  <2>1. ASSUME \A t \in Tenants : TnLeft(t) PROVE AccountsReady'
    <3> SUFFICES ASSUME NEW t \in Tenants PROVE Reported(t)' /\ Underway(t)'
      BY DEF AccountsReady
    <3>1. TnLeft(t) /\ Reported(t) /\ Underway(t) /\ TnCopyCurrent(t)
      BY <2>1 DEF AccountsReady, FreshCopies
    <3>2. Cached(tn[t]).del = tn[t].del
      BY <2>v
    <3>3. Reported(t)'
      BY <3>1, <3>2 DEF TnLeft, Reported, Underway, TnCopyCurrent, DelSteps
    <3>4. Underway(t)'
      <4>1. /\ tproc'[t] = tproc[t] /\ (t \in kcUsers' <=> t \in kcUsers)
            /\ (t \in ncUsers' <=> t \in ncUsers)
            /\ "tenant" \in tnFresh'[t] =>
                 /\ "tenant" \in tnFresh[t] /\ tn'[t] = tn[t]
                 /\ tnCache'[t] = tnCache[t] \/ tnCache'[t].del = tn[t].del
        BY <3>1, <3>2 DEF TnLeft
      <4> QED
        BY <3>1, <4>1 DEF Underway, TnCopyCurrent, DelSteps
    <3> QED
      BY <3>3, <3>4
  <2>2. CASE Restart
    BY <2>2, <2>v DEF Restart, ClusterRestart, AccountsReady, Reported, Underway, TnIdle,
                      DelSteps,
                      kcVars
  <2>3. CASE UNCHANGED vars
    BY <2>3 DEF vars, clusterVars, tnVars, kcVars, AccountsReady, Reported, Underway
  <2> QED
    BY <2>1, <2>2, <2>3, EnvLeaves, WsLeaves, TnReady DEF Next
<1>3. AccountsReady => ReadyTenantHasAccounts
  BY DEF AccountsReady, Reported, ReadyTenantHasAccounts
<1> QED
  BY <1>1, <1>2, <1>3, TypeCorrect, CopiesAreFresh, PTL DEF Spec

-----------------------------------------------------------------------------
(* A reconciliation that has met no error found every workspace of its     *)
(* list, has taken away the roles the list does not give once it is past   *)
(* that point, and has reported ready if its copy is still current.        *)
Consistent(t) ==
  LET p == tproc[t]
      wanted == RolesOf(p.spec, DOMAIN p.spec)
  IN p # TnIdle /\ ~p.err =>
       /\ p.pc \in {"kcuser", "kcget", "kcdel", "kcadd", "nc", "status", "labels"} =>
            p.exist = DOMAIN p.spec
       /\ p.pc = "kcdel" => kcHas[t] \subseteq wanted \cup p.drop
       /\ p.pc \in {"kcadd", "nc", "status", "labels"} => kcHas[t] \subseteq wanted
       /\ p.pc = "labels" /\ "tenant" \in tnFresh[t] => tn[t].ready

SettledConsistent(t) ==
  Settled(t) => /\ tn[t].ready
                /\ tn[t].labels = LabelsOf(tn[t].spec, DOMAIN tn[t].spec)
                /\ kcHas[t] \subseteq RolesOf(tn[t].spec, DOMAIN tn[t].spec)

AllConsistent == \A t \in Tenants : Consistent(t) /\ SettledConsistent(t)

(* The reconciliation of a tenant keeps AllConsistent: it leaves the       *)
(* tenant alone for good only after a last write, with no error before,    *)
(* that changed nothing.                                                   *)
LEMMA TnConsistent == TypeOK /\ FreshCopies /\ AllConsistent /\ TnStep => AllConsistent'
<1> SUFFICES ASSUME TypeOK, FreshCopies, AllConsistent, NEW t \in Tenants, TnRun(t) \/ TnGet(t)
             PROVE  AllConsistent'
  BY DEF TnStep
<1>o. \A u \in Tenants \ {t} : Consistent(u)' /\ SettledConsistent(u)'
  <2> SUFFICES ASSUME NEW u \in Tenants \ {t} PROVE Consistent(u)' /\ SettledConsistent(u)'
    OBVIOUS
  <2>1. /\ tproc'[u] = tproc[u] /\ tn'[u] = tn[u] /\ tnFresh'[u] = tnFresh[u]
        /\ kcHas'[u] = kcHas[u] /\ (u \in tnQueue' <=> u \in tnQueue)
    BY OthersKept
  <2>2. Consistent(u) /\ SettledConsistent(u)
    BY DEF AllConsistent
  <2>3. Consistent(u)'
    BY <2>1, <2>2 DEF Consistent
  <2> QED
    BY <2>1, <2>2, <2>3 DEF SettledConsistent, Settled
<1>v. tn[t] \in TenantObj
  BY DEF TypeOK, ClusterTypeOK, TnVarsOK
<1>1. CASE TnGet(t)
  <2>1. TnTaken(t)
    BY <1>1, TnTakes
  <2>2. "cache" \in tnFresh[t] => /\ tnCache[t].live = tn[t].live /\ tnCache[t].sel = tn[t].sel
                                  /\ tnCache[t].del = tn[t].del
    BY <1>v DEF FreshCopies, TnCacheCurrent, Cached, TenantObj
  <2>3. Consistent(t)'
    BY <2>1 DEF TnTaken, AllConsistent, Consistent
  <2>4. SettledConsistent(t)'
    BY <2>1, <2>2 DEF TnTaken, SettledConsistent, Settled
  <2> QED
    BY <1>o, <2>3, <2>4 DEF AllConsistent
<1>2. CASE TnRun(t)
  <2>1. TnMoved(t) /\ TnWrote(t) /\ Consistent(t)
    BY <1>2, TnMoves, TnWrites DEF AllConsistent
  <2>2. tproc[t] # TnIdle /\ tproc[t].pc \in TnSteps
    BY <2>1 DEF TnMoved, TnProc
  <2>3. "tenant" \in tnFresh[t] => tn[t].spec = tproc[t].spec
    BY <2>2 DEF FreshCopies, TnCopyCurrent
  <2>4. Consistent(t)'
    <3>1. CASE tproc'[t] = TnIdle
      BY <3>1 DEF Consistent
    <3>2. CASE tproc[t].pc \in DelSteps /\ tproc'[t] # TnIdle
      BY <2>1, <3>2 DEF TnMoved, Consistent, DelSteps
    <3>3. CASE tproc[t].pc \in {"fin", "res", "kcuser"}
      BY <2>1, <3>3 DEF TnMoved, Kept, Consistent, DelSteps
    <3>4. CASE tproc[t].pc \in {"kcget", "kcdel", "kcadd"}
      BY <2>1, <3>4 DEF TnMoved, Kept, Consistent, DelSteps
    <3>5. CASE tproc[t].pc \in {"nc", "status"}
      BY <2>1, <3>5 DEF TnMoved, TnWrote, Kept, Consistent, DelSteps
    <3> QED
      BY <2>1, <2>2, <3>1, <3>2, <3>3, <3>4, <3>5 DEF TnMoved, TnSteps, DelSteps
  <2>5. SettledConsistent(t)'
    <3> SUFFICES ASSUME Settled(t)'
                 PROVE  /\ tn'[t].ready
                        /\ tn'[t].labels = LabelsOf(tn'[t].spec, DOMAIN tn'[t].spec)
                        /\ kcHas'[t] \subseteq RolesOf(tn'[t].spec, DOMAIN tn'[t].spec)
      BY DEF SettledConsistent
    <3>1. /\ tproc[t].pc = "labels" /\ ~tproc[t].err /\ "tenant" \in tnFresh[t]
          /\ tn'[t] = tn[t] /\ tn[t].labels = LabelsOf(tproc[t].spec, tproc[t].exist)
      BY <2>1 DEF Settled, TnMoved, TnWrote
    <3>2. kcHas' = kcHas
      BY <2>1, <3>1 DEF TnMoved
    <3> QED
      BY <2>1, <2>2, <2>3, <3>1, <3>2 DEF Consistent
  <2> QED
    BY <1>o, <2>4, <2>5 DEF AllConsistent
<1> QED
  BY <1>1, <1>2

(* No change of a tenant is missed: once nothing is pending for it, it is  *)
(* ready, with the labels of its list and no role beyond it.               *)
THEOREM NoChangeIsMissed == Spec => []SettledTenantIsConsistent
<1>1. Init => AllConsistent
  BY DEF Init, ClusterInit, AllConsistent, Consistent, SettledConsistent, Settled
<1>2. TypeOK /\ FreshCopies /\ AllConsistent /\ [Next]_vars => AllConsistent'
  <2> SUFFICES ASSUME TypeOK, FreshCopies, AllConsistent, [Next]_vars PROVE AllConsistent'
    OBVIOUS
  <2>1. ASSUME \A t \in Tenants : TnLeft(t) PROVE AllConsistent'
    <3> SUFFICES ASSUME NEW t \in Tenants PROVE Consistent(t)' /\ SettledConsistent(t)'
      BY DEF AllConsistent
    <3>1. TnLeft(t) /\ Consistent(t) /\ SettledConsistent(t)
      BY <2>1 DEF AllConsistent
    <3>2. Consistent(t)'
      <4>1. /\ tproc'[t] = tproc[t] /\ kcHas'[t] \subseteq kcHas[t]
            /\ "tenant" \in tnFresh'[t] => "tenant" \in tnFresh[t] /\ tn'[t] = tn[t]
        BY <3>1 DEF TnLeft
      <4> QED
        BY <3>1, <4>1 DEF Consistent
    <3>3. SettledConsistent(t)'
      BY <3>1 DEF TnLeft, SettledConsistent, Settled
    <3> QED
      BY <3>2, <3>3
  <2>2. CASE Restart
    BY <2>2 DEF Restart, ClusterRestart, AllConsistent, Consistent, SettledConsistent, Settled
  <2>3. CASE UNCHANGED vars
    BY <2>3 DEF vars, clusterVars, tnVars, kcVars, queueVars, AllConsistent, Consistent,
                SettledConsistent, Settled
  <2> QED
    BY <2>1, <2>2, <2>3, EnvLeaves, WsLeaves, TnConsistent DEF Next
<1>3. AllConsistent => SettledTenantIsConsistent
  BY DEF AllConsistent, SettledConsistent, SettledTenantIsConsistent
<1> QED
  BY <1>1, <1>2, <1>3, TypeCorrect, CopiesAreFresh, PTL DEF Spec

-----------------------------------------------------------------------------
WsDelSteps == {"delete", "list", "unsubscribe", "delfin"}

(* A workspace reported ready whose deletion is not requested has its      *)
(* roles, and nobody is about to delete them.                              *)
WsReported(w) ==
  ws[w].ready /\ ~ws[w].del =>
    /\ {w} \X Roles \subseteq kcRoles /\ ~wsCache[w].del
    /\ WsBusy /\ wproc.pc \in WsDelSteps => wproc.w # w

(* A reconciliation has created the roles it is done with, and while its   *)
(* copy is current no deletion of the workspace is known.                  *)
WsUnderway ==
  WsBusy /\ wproc.pc \notin WsDelSteps =>
    /\ "workspace" \in wsFresh[wproc.w] => ~wsCache[wproc.w].del /\ ~ws[wproc.w].del
    /\ wproc.pc \in {"fin", "res"} => wproc.todo = Roles
    /\ ~wproc.err /\ wproc.pc = "create" => {wproc.w} \X (Roles \ wproc.todo) \subseteq kcRoles
    /\ ~wproc.err /\ wproc.pc = "status" => {wproc.w} \X Roles \subseteq kcRoles

RolesReady == WsUnderway /\ \A w \in Workspaces : WsReported(w)

(* What a step may do to a stored workspace and its cached copy, unless    *)
(* the reconciler reports it ready: a version that is stored is not newly  *)
(* ready, and none of its deletion is taken back.                          *)
WsLeft(w) ==
  \/ /\ ws'[w] = ws[w] /\ wsCache'[w] = wsCache[w]
     /\ "workspace" \in wsFresh'[w] => "workspace" \in wsFresh[w]
  \/ /\ ws'[w] = ws[w] /\ wsCache'[w].del = ws[w].del
     /\ "workspace" \in wsFresh'[w] => "workspace" \in wsFresh[w]
  \/ /\ wsCache'[w] = wsCache[w]
     /\ "workspace" \in wsFresh'[w] => "workspace" \in wsFresh[w] /\ (ws'[w].del => ws[w].del)
     /\ ws'[w].ready => ws[w].ready /\ (ws[w].del => ws'[w].del)

(* An Update that does not make the workspace ready is such a step.        *)
LEMMA UpdateWsLeaves ==
  ASSUME TypeOK, NEW w \in Workspaces, NEW new, NEW ok \in BOOLEAN, NEW drop,
         UpdateWs(w, "workspace", new, ok, drop),
         new.ready => ws[w].ready, new.del = ws[w].del
  PROVE  \A v \in Workspaces : WsLeft(v)
<1>v. WsVarsOK /\ ~NoWorkspace.ready
  BY DEF TypeOK, ClusterTypeOK, NoWorkspace
<1>1. CASE DropWs(w, drop)
  BY <1>1, <1>v DEF UpdateWs, DropWs, WsVarsOK, WsLeft
<1>2. ASSUME NEW hs \in SUBSET {"workspace"}, "workspace" \in wsFresh[w],
             StoreWs(w, new, hs, drop), UNCHANGED wsCache
      PROVE  \A v \in Workspaces : WsLeft(v)
  <2>1. /\ \A v \in Workspaces \ {w} : ws'[v] = ws[v] /\ wsFresh'[v] = wsFresh[v]
        /\ ws'[w] = IF new.del /\ ~new.fin THEN NoWorkspace ELSE new
    BY <1>2, <1>v DEF StoreWs, WsVarsOK
  <2>2. ~NoWorkspace.del
    BY DEF NoWorkspace
  <2> QED
    BY <1>2, <1>v, <2>1, <2>2 DEF WsLeft
<1> QED
  BY <1>1, <1>2 DEF UpdateWs

(* Steps that leave the reconciliation and the roles alone keep RolesReady *)
LEMMA LeftKeepsRoles ==
  ASSUME RolesReady, \A w \in Workspaces : WsLeft(w), UNCHANGED <<wproc, kcRoles>>,
         WsBusy => wproc.w \in Workspaces
  PROVE  RolesReady'
BY DEF RolesReady, WsUnderway, WsReported, WsLeft, WsBusy

(* Watches, timers and people.                                             *)
LEMMA EnvKeepsRoles ==
  ASSUME TypeOK, EnvStep PROVE UNCHANGED kcRoles /\ \A w \in Workspaces : WsLeft(w)
<1>v. WsVarsOK /\ ws \in [Workspaces -> WorkspaceObj] /\ ~NoWorkspace.ready /\ ~NoWorkspace.del
  BY DEF TypeOK, ClusterTypeOK, WsVarsOK, NoWorkspace
<1>1. ASSUME UNCHANGED <<ws, wsCache, wsFresh>> PROVE \A w \in Workspaces : WsLeft(w)
  BY <1>1 DEF WsLeft
<1>2. ASSUME NEW w \in Workspaces, WatchWs(w) PROVE \A v \in Workspaces : WsLeft(v)
  <2>1. Cached(ws[w]).del = ws[w].del
    BY <1>v DEF Cached, WorkspaceObj
  <2>2. /\ wsCache'[w] = Cached(ws[w]) /\ wsFresh'[w] = wsFresh[w] \cup {"cache"} /\ ws' = ws
        /\ \A v \in Workspaces \ {w} : wsCache'[v] = wsCache[v] /\ wsFresh'[v] = wsFresh[v]
    BY <1>2, <1>v DEF WatchWs, WsVarsOK
  <2>3. WsLeft(w)
    BY <2>1, <2>2 DEF WsLeft
  <2>4. ASSUME NEW v \in Workspaces \ {w} PROVE WsLeft(v)
    BY <2>2 DEF WsLeft
  <2> QED
    BY <2>3, <2>4
<1>3. ASSUME NEW w \in Workspaces, NEW kind, NEW new, UserPutWs(w, kind, new),
             new.ready => ws[w].ready /\ (ws[w].del => new.del)
      PROVE  \A v \in Workspaces : WsLeft(v)
  <2>1. /\ \A v \in Workspaces \ {w} : ws'[v] = ws[v] /\ wsFresh'[v] = wsFresh[v]
        /\ ws'[w] = IF new.del /\ ~new.fin THEN NoWorkspace ELSE new
        /\ wsFresh'[w] = {} \/ (wsFresh'[w] = wsFresh[w] /\ ws'[w] = ws[w])
        /\ wsCache' = wsCache
    BY <1>3, <1>v DEF UserPutWs, StoreWs, WsVarsOK
  <2> QED
    BY <1>3, <1>v, <2>1 DEF WsLeft
<1>4. ASSUME NEW w \in Workspaces, UserCreateWs(w) \/ UserRelabelWs(w) \/ UserDeleteWs(w)
      PROVE  \A v \in Workspaces : WsLeft(v)
  <2>1. ws[w] \in WorkspaceObj
    BY <1>v
  <2>2. CASE UserCreateWs(w)
    <3>1. ~NewWorkspace.ready
      BY NoObjects, <1>v DEF NewWorkspace, WorkspaceObj
    <3> QED
      BY <1>3, <2>2, <3>1 DEF UserCreateWs
  <2>3. CASE UserRelabelWs(w)
    <3> DEFINE new == [ws[w] EXCEPT !.sel = ~@]
    <3>1. new.ready = ws[w].ready /\ new.del = ws[w].del
      BY <2>1 DEF WorkspaceObj
    <3> QED
      BY <1>3, <2>3, <3>1 DEF UserRelabelWs
  <2>4. CASE UserDeleteWs(w)
    <3> DEFINE new == [ws[w] EXCEPT !.del = TRUE]
    <3>1. new.ready = ws[w].ready /\ new.del
      BY <2>1 DEF WorkspaceObj
    <3> QED
      BY <1>3, <2>4, <3>1 DEF UserDeleteWs
  <2> QED
    BY <1>4, <2>2, <2>3, <2>4
<1>5. ASSUME NEW t \in Tenants, WatchTn(t) \/ RequeueTn(t) \/ UserCreateTn(t) \/ UserSubscribeTn(t)
                                \/ UserRelabelTn(t) \/ UserDeleteTn(t)
      PROVE  UNCHANGED <<ws, wsCache, wsFresh>>
  BY <1>5 DEF WatchTn, RequeueTn, UserCreateTn, UserSubscribeTn, UserRelabelTn, UserDeleteTn,
              UserPutTn, wsVars
<1>6. ASSUME NEW w \in Workspaces, RequeueWs(w) PROVE UNCHANGED <<ws, wsCache, wsFresh>>
  BY <1>6 DEF RequeueWs, wsVars
<1>7. UNCHANGED kcRoles
  BY DEF EnvStep, WatchTn, RequeueTn, UserCreateTn, UserSubscribeTn, UserRelabelTn, UserDeleteTn,
         UserPutTn, WatchWs, RequeueWs, UserCreateWs, UserRelabelWs, UserDeleteWs, UserPutWs,
         UserEdit, kcVars
<1> QED
  BY <1>1, <1>2, <1>4, <1>5, <1>6, <1>7 DEF EnvStep

(* The tenant reconciler touches neither workspaces nor client roles.      *)
LEMMA TnKeepsRoles == TnStep => UNCHANGED kcRoles /\ \A w \in Workspaces : WsLeft(w)
<1> SUFFICES ASSUME NEW t \in Tenants, TnRun(t) \/ TnGet(t)
             PROVE  UNCHANGED kcRoles /\ \A w \in Workspaces : WsLeft(w)
  BY DEF TnStep
<1>1. UNCHANGED <<kcRoles, ws, wsCache, wsFresh>>
  BY DEF TnRun, TnGet, TnAddFinalizer, TnResources, TnKcUser, TnKcGetRoles, TnKcDeleteRoles,
         TnKcAddRoles, TnNextcloud, TnStatus, TnLabels, TnDeleteKcUser, TnDeleteNcUser,
         TnRemoveFinalizer, kcVars, wsVars
<1> QED
  BY <1>1 DEF WsLeft

(* The workspace reconciler keeps RolesReady: it reports ready only with   *)
(* all roles in place, and deletes none of a workspace that is ready.      *)
LEMMA WsKeepsRoles == TypeOK /\ FreshCopies /\ RolesReady /\ WsStep => RolesReady'
<1> SUFFICES ASSUME TypeOK, FreshCopies, RolesReady, WsStep PROVE RolesReady'
  OBVIOUS
<1>v. /\ WsVarsOK /\ ws \in [Workspaces -> WorkspaceObj] /\ WsIdle.pc = "idle"
      /\ wproc \in WsProc \cup {WsIdle}
  BY DEF TypeOK, ClusterTypeOK, WsVarsOK, WsTypeOK, WsIdle
<1>b. WsBusy => wproc \in WsProc /\ wproc.w \in Workspaces
  BY <1>v DEF WsBusy, WsProc
<1>1. ASSUME NEW w \in Workspaces, WsGet(w) PROVE RolesReady'
  <2>1. ~WsBusy /\ UNCHANGED <<ws, wsCache, kcRoles>>
    BY <1>1 DEF WsGet, kcVars
  <2>2. CASE UNCHANGED <<wproc, wsFresh>>
    BY <2>1, <2>2 DEF RolesReady, WsUnderway, WsReported, WsBusy
  <2>3. CASE ~UNCHANGED <<wproc, wsFresh>>
    <3> DEFINE pc == IF wsCache[w].del THEN "delete" ELSE IF wsCache[w].fin THEN "res" ELSE "fin"
    <3>1. /\ wproc' = [pc |-> pc, w |-> w, err |-> FALSE, todo |-> Roles, items |-> {},
                       specs |-> [t \in Tenants |-> << >>]]
          /\ wsFresh'[w] = CopyFresh(wsFresh[w], "workspace")
      BY <1>1, <1>v, <2>3 DEF WsGet, WsVarsOK
    <3>2. wproc'.pc = pc /\ wproc'.w = w /\ wproc'.todo = Roles
      BY <3>1
    <3>3. "cache" \in wsFresh[w] => wsCache[w].del = ws[w].del
      BY <1>v DEF FreshCopies, WsCacheCurrent, Cached, WorkspaceObj
    <3>4. WsUnderway'
      BY <2>1, <3>1, <3>2, <3>3 DEF WsUnderway, CopyFresh, WsDelSteps
    <3>5. \A v \in Workspaces : WsReported(v)'
      BY <2>1, <3>2 DEF RolesReady, WsReported, WsDelSteps
    <3> QED
      BY <3>4, <3>5 DEF RolesReady
  <2> QED
    BY <2>2, <2>3
<1>2. CASE WsAddFinalizer
  <2> DEFINE new == [ws[wproc.w] EXCEPT !.fin = TRUE]
  <2>1. WsBusy /\ wproc.pc = "fin" /\ wproc \in WsProc /\ wproc.w \in Workspaces
    BY <1>2, <1>b DEF WsAddFinalizer, At
  <2>2. PICK ok \in BOOLEAN : /\ UpdateWs(wproc.w, "workspace", new, ok, {})
                              /\ wproc' = [wproc EXCEPT !.pc = "res", !.err = @ \/ ~ok]
    BY <1>2 DEF WsAddFinalizer
  <2>3. new.ready = ws[wproc.w].ready /\ new.del = ws[wproc.w].del
    BY <1>v, <2>1 DEF WorkspaceObj
  <2> HIDE DEF new
  <2>4. \A v \in Workspaces : WsLeft(v)
    BY <2>1, <2>2, <2>3, UpdateWsLeaves
  <2>5. wproc'.pc = "res" /\ wproc'.w = wproc.w /\ wproc'.todo = wproc.todo
    BY <2>1, <2>2 DEF WsProc
  <2>6. UNCHANGED kcRoles
    BY <1>2 DEF WsAddFinalizer, kcVars
  <2>7. WsUnderway'
    BY <2>1, <2>4, <2>5, <2>6 DEF RolesReady, WsUnderway, WsLeft, WsDelSteps
  <2>8. \A v \in Workspaces : WsReported(v)'
    BY <2>1, <2>4, <2>5, <2>6 DEF RolesReady, WsReported, WsLeft, WsDelSteps, WsBusy
  <2> QED
    BY <2>7, <2>8 DEF RolesReady
<1>3. CASE WsClusterResources
  <2>1. WsBusy /\ wproc.pc = "res" /\ wproc \in WsProc
    BY <1>3, <1>b DEF WsClusterResources, At
  <2>2. \E ok \in BOOLEAN : wproc' = [wproc EXCEPT !.pc = "create", !.err = @ \/ ~ok]
    BY <1>3 DEF WsClusterResources
  <2>3. wproc'.pc = "create" /\ wproc'.w = wproc.w /\ wproc'.todo = wproc.todo
    BY <2>1, <2>2 DEF WsProc
  <2>4. UNCHANGED <<ws, wsCache, wsFresh, kcRoles>>
    BY <1>3 DEF WsClusterResources, wsVars, kcVars
  <2>5. WsUnderway'
    BY <2>1, <2>3, <2>4 DEF RolesReady, WsUnderway, WsDelSteps
  <2>6. \A v \in Workspaces : WsReported(v)'
    BY <2>1, <2>3, <2>4 DEF RolesReady, WsReported, WsDelSteps, WsBusy
  <2> QED
    BY <2>5, <2>6 DEF RolesReady
<1>4. ASSUME NEW r \in Roles, WsCreateRole(r) PROVE RolesReady'
  <2> DEFINE todo == wproc.todo \ {r}
  <2>1. WsBusy /\ wproc.pc = "create" /\ wproc \in WsProc
    BY <1>4, <1>b DEF WsCreateRole, At
  <2>2. UNCHANGED <<ws, wsCache, wsFresh>> /\ kcRoles \subseteq kcRoles'
    BY <1>4 DEF WsCreateRole, wsVars
  <2>3. \/ /\ kcRoles' = kcRoles \cup {<<wproc.w, r>>}
           /\ wproc' = [wproc EXCEPT !.todo = todo, !.pc = IF todo = {} THEN "status" ELSE "create"]
        \/ wproc' = [[wproc EXCEPT !.todo = {}, !.pc = "status"] EXCEPT !.err = TRUE]
    BY <1>4 DEF WsCreateRole
  <2>4. wproc'.pc \in {"create", "status"} /\ wproc'.w = wproc.w
    BY <2>1, <2>3 DEF WsProc
  <2>5. \/ /\ kcRoles' = kcRoles \cup {<<wproc.w, r>>} /\ wproc'.todo = todo
           /\ wproc'.err = wproc.err /\ (wproc'.pc = "status" => todo = {})
        \/ wproc'.err
    BY <2>1, <2>3 DEF WsProc
  <2>6. WsUnderway'
    <3>1. /\ "workspace" \in wsFresh[wproc.w] => ~wsCache[wproc.w].del /\ ~ws[wproc.w].del
          /\ ~wproc.err => {wproc.w} \X (Roles \ wproc.todo) \subseteq kcRoles
      BY <2>1 DEF RolesReady, WsUnderway, WsDelSteps
    <3>2. ~wproc'.err => {wproc.w} \X (Roles \ todo) \subseteq kcRoles'
      <4> SUFFICES ASSUME ~wproc'.err, NEW q \in Roles \ todo PROVE <<wproc.w, q>> \in kcRoles'
        OBVIOUS
      <4>1. q = r \/ q \in Roles \ wproc.todo
        OBVIOUS
      <4> HIDE DEF todo
      <4> QED
        BY <2>5, <3>1, <4>1
    <3>3. ~wproc'.err => wproc'.todo = todo /\ (wproc'.pc = "status" => todo = {})
      BY <2>5
    <3> HIDE DEF todo
    <3> QED
      BY <2>2, <2>4, <3>1, <3>2, <3>3 DEF WsUnderway
  <2>7. \A v \in Workspaces : WsReported(v)'
    BY <2>1, <2>2, <2>4 DEF RolesReady, WsReported, WsDelSteps, WsBusy
  <2> QED
    BY <2>6, <2>7 DEF RolesReady
<1>5. CASE WsStatus
  <2> DEFINE w == wproc.w
             new == [ws[w] EXCEPT !.ready = ~wproc.err]
  <2>1. WsBusy /\ wproc.pc = "status" /\ wproc \in WsProc /\ w \in Workspaces
    BY <1>5, <1>b DEF WsStatus, At
  <2>2. PICK ok \in BOOLEAN : UpdateWs(w, "workspace", new, ok, {"workspace"})
    BY <1>5 DEF WsStatus
  <2>3. new.ready = ~wproc.err /\ new.del = ws[w].del
    BY <1>v, <2>1 DEF WorkspaceObj
  <2>4. wproc' = WsIdle /\ UNCHANGED <<wsCache, kcRoles>>
    BY <1>5 DEF WsStatus, WsReturn, UpdateWs, kcVars
  <2> HIDE DEF new
  <2>5. /\ \A v \in Workspaces \ {w} : ws'[v] = ws[v]
        /\ \/ ws'[w] = ws[w]
           \/ "workspace" \in wsFresh[w] /\ ws'[w] = IF new.del /\ ~new.fin THEN NoWorkspace ELSE new
    BY <1>v, <2>1, <2>2 DEF UpdateWs, StoreWs, DropWs, WsVarsOK
  <2>6. ~NoWorkspace.ready
    BY DEF NoWorkspace
  <2>7. WsUnderway'
    BY <2>4 DEF WsUnderway, WsBusy
  <2>8. \A v \in Workspaces : WsReported(v)'
    BY <2>1, <2>3, <2>4, <2>5, <2>6 DEF RolesReady, WsUnderway, WsReported, WsBusy, WsDelSteps
  <2> QED
    BY <2>7, <2>8 DEF RolesReady
<1>6. ASSUME NEW r \in Roles, WsDeleteRole(r) PROVE RolesReady'
  <2>1. WsBusy /\ wproc.pc = "delete" /\ wproc \in WsProc
    BY <1>6, <1>b DEF WsDeleteRole, At
  <2>2. UNCHANGED <<ws, wsCache, wsFresh>> /\ kcRoles' \in {kcRoles, kcRoles \ {<<wproc.w, r>>}}
    BY <1>6 DEF WsDeleteRole, wsVars
  <2>3. \E todo, err : \/ wproc' = [wproc EXCEPT !.todo = todo, !.pc = IF todo = {} THEN "list" ELSE "delete"]
                       \/ wproc' = [[wproc EXCEPT !.todo = todo, !.pc = "list"] EXCEPT !.err = err]
    BY <1>6 DEF WsDeleteRole
  <2>4. wproc'.pc \in WsDelSteps /\ wproc'.w = wproc.w
    BY <2>1, <2>3 DEF WsProc, WsDelSteps
  <2>5. WsUnderway'
    BY <2>4 DEF WsUnderway
  <2>6. \A v \in Workspaces : WsReported(v)'
    BY <2>1, <2>2, <2>4 DEF RolesReady, WsReported, WsDelSteps
  <2> QED
    BY <2>5, <2>6 DEF RolesReady
<1>7. CASE WsList \/ \E t \in Tenants : WsUnsubscribe(t)
  <2>1. WsBusy /\ wproc.pc \in WsDelSteps /\ wproc \in WsProc
    BY <1>7, <1>b DEF WsList, WsUnsubscribe, At, WsDelSteps
  <2>2. UNCHANGED <<ws, wsCache, wsFresh, kcRoles>>
    BY <1>7 DEF WsList, WsUnsubscribe, wsVars, kcVars
  <2>3. wproc'.pc \in {"delfin", "unsubscribe"} /\ wproc'.w = wproc.w
    <3>1. CASE WsList
      BY <2>1, <3>1 DEF WsList, WsProc
    <3>2. ASSUME NEW t \in Tenants, WsUnsubscribe(t)
          PROVE  wproc'.pc \in {"delfin", "unsubscribe"} /\ wproc'.w = wproc.w
      BY <2>1, <3>2 DEF WsUnsubscribe, WsProc
    <3> QED
      BY <1>7, <3>1, <3>2
  <2>4. WsUnderway'
    BY <2>3 DEF WsUnderway, WsDelSteps
  <2>5. \A v \in Workspaces : WsReported(v)'
    BY <2>1, <2>2, <2>3 DEF RolesReady, WsReported, WsDelSteps
  <2> QED
    BY <2>4, <2>5 DEF RolesReady
<1>8. CASE WsRemoveFinalizer
  <2> DEFINE new == [ws[wproc.w] EXCEPT !.fin = FALSE]
  <2>1. WsBusy /\ wproc.w \in Workspaces
    BY <1>8, <1>b DEF WsRemoveFinalizer, At
  <2>2. wproc' = WsIdle /\ UNCHANGED kcRoles
    BY <1>8 DEF WsRemoveFinalizer, WsReturn, kcVars
  <2>3. new.ready = ws[wproc.w].ready /\ new.del = ws[wproc.w].del
    BY <1>v, <2>1 DEF WorkspaceObj
  <2>4. \A v \in Workspaces : WsLeft(v)
    <3>1. CASE wproc.err
      <4>1. \E ok \in BOOLEAN : UpdateWs(wproc.w, "workspace", new, ok, {"workspace"})
        BY <1>8, <3>1 DEF WsRemoveFinalizer
      <4> HIDE DEF new
      <4> QED
        BY <2>1, <2>3, <4>1, UpdateWsLeaves
    <3>2. CASE ~wproc.err
      BY <1>8, <1>v, <3>2 DEF WsRemoveFinalizer, DropWs, WsVarsOK, WsLeft
    <3> QED
      BY <3>1, <3>2
  <2>5. WsUnderway'
    BY <2>2 DEF WsUnderway, WsBusy
  <2>6. \A v \in Workspaces : WsReported(v)'
    BY <2>2, <2>4 DEF RolesReady, WsReported, WsLeft, WsBusy
  <2> QED
    BY <2>5, <2>6 DEF RolesReady
<1> QED
  BY <1>1, <1>2, <1>3, <1>4, <1>5, <1>6, <1>7, <1>8 DEF WsStep, WsRun

(* A workspace reported ready has its two roles in Keycloak until its      *)
(* deletion is requested.                                                  *)
THEOREM ReadyMeansRoles == Spec => []ReadyWorkspaceHasRoles
<1>1. Init => RolesReady
  <2>1. ~NoWorkspace.ready /\ ~NewWorkspace.ready
    BY NoObjects DEF NoWorkspace, NewWorkspace, WorkspaceObj
  <2> QED
    BY <2>1 DEF Init, ClusterInit, RolesReady, WsUnderway, WsReported, WsBusy
<1>2. TypeOK /\ FreshCopies /\ RolesReady /\ [Next]_vars => RolesReady'
  <2> SUFFICES ASSUME TypeOK, FreshCopies, RolesReady, [Next]_vars PROVE RolesReady'
    OBVIOUS
  <2>b. WsBusy => wproc.w \in Workspaces
    BY DEF TypeOK, WsTypeOK, WsBusy, WsProc
  <2>1. CASE Restart
    <3>1. \A w \in Workspaces : Cached(ws[w]).del = ws[w].del
      BY DEF Cached, TypeOK, ClusterTypeOK, WsVarsOK, WorkspaceObj
    <3> QED
      BY <2>1, <3>1 DEF Restart, ClusterRestart, RolesReady, WsUnderway, WsReported, WsBusy,
                        kcVars
  <2>2. CASE UNCHANGED vars
    BY <2>2 DEF vars, clusterVars, wsVars, kcVars, RolesReady, WsUnderway, WsReported, WsBusy
  <2>3. CASE EnvStep /\ UNCHANGED <<wproc, tproc>>
    BY <2>b, <2>3, EnvKeepsRoles, LeftKeepsRoles
  <2>4. CASE TnStep /\ UNCHANGED wproc
    BY <2>b, <2>4, TnKeepsRoles, LeftKeepsRoles
  <2> QED
    BY <2>1, <2>2, <2>3, <2>4, WsKeepsRoles DEF Next
<1>3. RolesReady => ReadyWorkspaceHasRoles
  BY DEF RolesReady, WsReported, ReadyWorkspaceHasRoles
<1> QED
  BY <1>1, <1>2, <1>3, TypeCorrect, CopiesAreFresh, PTL DEF Spec
=============================================================================
