------------------------------- MODULE Cluster -------------------------------
(***************************************************************************)
(* What the two reconcilers of the tenant operator share: the Tenant and   *)
(* Workspace objects at the API server, the operator's watch caches and    *)
(* work queues, and the accounts and roles it manages in Keycloak and      *)
(* Nextcloud.                                                              *)
(*                                                                         *)
(* A resourceVersion is only ever compared with the one the API server     *)
(* holds, so a copy of an object carries no number: tnFresh[t] and         *)
(* wsFresh[w] are the sets of holders whose copy is the current version.   *)
(* An Update by any other holder is a conflict (or NotFound) error.        *)
(*                                                                         *)
(* Bounds: Edits is the set of kinds of edits people make and MaxOps caps  *)
(* their number; MaxFaults caps the calls that fail and the crashes of the *)
(* operator.                                                               *)
(***************************************************************************)
EXTENDS Naturals, Sequences, FiniteSets

CONSTANTS Tenants, Workspaces,
          Specs,          \* the workspace lists a tenant may be given
          Edits, MaxOps, MaxFaults

Roles == {"manager", "user"}
Entry == [ws : Workspaces, role : Roles]
KcRole == Workspaces \X Roles
Holders == {"cache", "tenant", "workspace"}

ASSUME ClusterAssumption ==
  /\ Specs \subseteq Seq(Entry)
  /\ Edits \subseteq {"create", "subscribe", "relabel", "delete"}
  /\ MaxFaults \in Nat
  /\ MaxOps \in Nat

VARIABLES
  tn, tnCache, tnFresh,      \* tenants at the API server, in the cache, and who is current
  ws, wsCache, wsFresh,      \* the same for workspaces
  kcRoles, kcUsers, kcHas,   \* Keycloak: client roles, users, roles each user holds
  ncUsers,                   \* Nextcloud users
  tnQueue, tnDelayed,        \* work queue of the tenant controller, its RequeueAfter entries
  wsQueue, wsDelayed,
  faults, ops                \* what is left of the two budgets

tnVars == <<tn, tnCache, tnFresh>>
wsVars == <<ws, wsCache, wsFresh>>
kcVars == <<kcRoles, kcUsers, kcHas>>
queueVars == <<tnQueue, tnDelayed, wsQueue, wsDelayed>>
clusterVars == <<tnVars, wsVars, kcVars, ncUsers, queueVars, faults, ops>>

-----------------------------------------------------------------------------
(* Objects: del is the deletion timestamp, fin the operator's finalizer,   *)
(* sel whether the object carries the operator's target label; labels maps *)
(* a workspace to the value of its label on the tenant; ready is the flag  *)
(* of the status.                                                          *)

TenantObj == [live : BOOLEAN, del : BOOLEAN, fin : BOOLEAN, sel : BOOLEAN, ready : BOOLEAN,
              spec : Seq(Entry), labels : [Workspaces -> Roles \cup {"none"}]]

WorkspaceObj == [live : BOOLEAN, del : BOOLEAN, fin : BOOLEAN, sel : BOOLEAN,
                 ready : BOOLEAN]

NoLabels == [w \in Workspaces |-> "none"]

NoTenant == [live |-> FALSE, del |-> FALSE, fin |-> FALSE, sel |-> FALSE, ready |-> FALSE,
             spec |-> << >>, labels |-> NoLabels]

NoWorkspace == [live |-> FALSE, del |-> FALSE, fin |-> FALSE, sel |-> FALSE,
                ready |-> FALSE]

(* What a cache entry is used for: the reconcilers never read a ready flag *)
Cached(obj) == [obj EXCEPT !.ready = FALSE]

(* A selection of the entries of a workspace list is a set of its indices *)
RolesOf(spec, idx) == {<<spec[i].ws, spec[i].role>> : i \in idx}

TnVarsOK == /\ tn \in [Tenants -> TenantObj] /\ tnCache \in [Tenants -> TenantObj]
            /\ tnFresh \in [Tenants -> SUBSET Holders]

WsVarsOK == /\ ws \in [Workspaces -> WorkspaceObj] /\ wsCache \in [Workspaces -> WorkspaceObj]
            /\ wsFresh \in [Workspaces -> SUBSET Holders]

KcVarsOK == /\ kcRoles \in SUBSET KcRole /\ kcUsers \in SUBSET Tenants
            /\ kcHas \in [Tenants -> SUBSET KcRole] /\ ncUsers \in SUBSET Tenants

QueuesOK == /\ tnQueue \in SUBSET Tenants /\ tnDelayed \in SUBSET Tenants
            /\ wsQueue \in SUBSET Workspaces /\ wsDelayed \in SUBSET Workspaces

BudgetsOK == faults \in Nat /\ ops \in Nat

ClusterTypeOK == TnVarsOK /\ WsVarsOK /\ KcVarsOK /\ QueuesOK /\ BudgetsOK

NewTenants == {[NoTenant EXCEPT !.live = TRUE, !.sel = TRUE, !.spec = s] : s \in Specs}

NewWorkspace == [NoWorkspace EXCEPT !.live = TRUE, !.sel = TRUE]

(* The operator starts on a cluster where people may have created tenants  *)
(* and workspaces that no operator has handled yet.                        *)
ClusterInit ==
  /\ tn \in [Tenants -> NewTenants \cup {NoTenant}] /\ tnCache = tn
  /\ tnFresh = [t \in Tenants |-> {"cache"}]
  /\ ws \in [Workspaces -> {NewWorkspace, NoWorkspace}] /\ wsCache = ws
  /\ wsFresh = [w \in Workspaces |-> {"cache"}]
  /\ kcRoles = {} /\ kcUsers = {} /\ kcHas = [t \in Tenants |-> {}] /\ ncUsers = {}
  /\ tnQueue = {t \in Tenants : tn[t].live} /\ tnDelayed = {}
  /\ wsQueue = {w \in Workspaces : ws[w].live} /\ wsDelayed = {}
  /\ faults = MaxFaults /\ ops = MaxOps

-----------------------------------------------------------------------------
(* The API server *)

Fault == faults > 0 /\ faults' = faults - 1

(* A stored version makes every copy out of date but those of hs. A write  *)
(* that changes nothing makes no new version; a deleted object whose       *)
(* finalizer is removed goes away. The holders in drop let their copy go.  *)
StoreTn(t, new, hs, drop) ==
  LET obj == IF new.del /\ ~new.fin THEN NoTenant ELSE new IN
  /\ tn' = [tn EXCEPT ![t] = obj]
  /\ tnFresh' = [tnFresh EXCEPT ![t] = (IF obj = tn[t] THEN @ ELSE hs) \ drop]

StoreWs(w, new, hs, drop) ==
  LET obj == IF new.del /\ ~new.fin THEN NoWorkspace ELSE new IN
  /\ ws' = [ws EXCEPT ![w] = obj]
  /\ wsFresh' = [wsFresh EXCEPT ![w] = (IF obj = ws[w] THEN @ ELSE hs) \ drop]

DropTn(t, drop) == tnFresh' = [tnFresh EXCEPT ![t] = @ \ drop] /\ UNCHANGED tn

DropWs(w, drop) == wsFresh' = [wsFresh EXCEPT ![w] = @ \ drop] /\ UNCHANGED ws

(* Update and Status().Update by holder h: stored, refused because the     *)
(* copy is not the current version, lost on the way to the server, or      *)
(* stored with the answer lost.                                            *)
UpdateTn(t, h, new, ok, drop) ==
  /\ \/ ok /\ h \in tnFresh[t] /\ StoreTn(t, new, {h}, drop) /\ UNCHANGED faults
     \/ ~ok /\ h \notin tnFresh[t] /\ DropTn(t, drop) /\ UNCHANGED faults
     \/ ~ok /\ Fault /\ DropTn(t, drop)
     \/ ~ok /\ h \in tnFresh[t] /\ Fault /\ StoreTn(t, new, {}, drop)
  /\ UNCHANGED tnCache

UpdateWs(w, h, new, ok, drop) ==
  /\ \/ ok /\ h \in wsFresh[w] /\ StoreWs(w, new, {h}, drop) /\ UNCHANGED faults
     \/ ~ok /\ h \notin wsFresh[w] /\ DropWs(w, drop) /\ UNCHANGED faults
     \/ ~ok /\ Fault /\ DropWs(w, drop)
     \/ ~ok /\ h \in wsFresh[w] /\ Fault /\ StoreWs(w, new, {}, drop)
  /\ UNCHANGED wsCache

(* Holder h replaces its copy by the cached one *)
CopyFresh(fresh, h) == IF "cache" \in fresh THEN fresh \cup {h} ELSE fresh \ {h}

-----------------------------------------------------------------------------
(* Watches and queues. An event whose object has no target label is       *)
(* filtered out; a deletion is filtered on the last known object.          *)

WatchTn(t) ==
  /\ "cache" \notin tnFresh[t]
  /\ tnCache' = [tnCache EXCEPT ![t] = Cached(tn[t])]
  /\ tnFresh' = [tnFresh EXCEPT ![t] = @ \cup {"cache"}]
  /\ tnQueue' = IF (IF tn[t].live THEN tn[t] ELSE tnCache[t]).sel
                THEN tnQueue \cup {t} ELSE tnQueue
  /\ UNCHANGED <<tn, wsVars, kcVars, ncUsers, tnDelayed, wsQueue, wsDelayed, faults, ops>>

WatchWs(w) ==
  /\ "cache" \notin wsFresh[w]
  /\ wsCache' = [wsCache EXCEPT ![w] = Cached(ws[w])]
  /\ wsFresh' = [wsFresh EXCEPT ![w] = @ \cup {"cache"}]
  /\ wsQueue' = IF (IF ws[w].live THEN ws[w] ELSE wsCache[w]).sel
                THEN wsQueue \cup {w} ELSE wsQueue
  /\ UNCHANGED <<ws, tnVars, kcVars, ncUsers, tnQueue, tnDelayed, wsDelayed, faults, ops>>

(* A RequeueAfter entry falls due *)
RequeueTn(t) ==
  /\ t \in tnDelayed
  /\ tnDelayed' = tnDelayed \ {t} /\ tnQueue' = tnQueue \cup {t}
  /\ UNCHANGED <<tnVars, wsVars, kcVars, ncUsers, wsQueue, wsDelayed, faults, ops>>

RequeueWs(w) ==
  /\ w \in wsDelayed
  /\ wsDelayed' = wsDelayed \ {w} /\ wsQueue' = wsQueue \cup {w}
  /\ UNCHANGED <<tnVars, wsVars, kcVars, ncUsers, tnQueue, tnDelayed, faults, ops>>

-----------------------------------------------------------------------------
(* People, through the API server *)

UserEdit(kind) ==
  /\ kind \in Edits /\ ops > 0 /\ ops' = ops - 1
  /\ UNCHANGED <<kcVars, ncUsers, queueVars, faults>>

UserPutTn(t, kind, new) == 
  UserEdit(kind) /\ StoreTn(t, new, {}, {}) /\ UNCHANGED <<tnCache, wsVars>>

UserPutWs(w, kind, new) == 
  UserEdit(kind) /\ StoreWs(w, new, {}, {}) /\ UNCHANGED <<wsCache, tnVars>>

UserCreateTn(t) == ~tn[t].live /\ \E new \in NewTenants : UserPutTn(t, "create", new)

UserSubscribeTn(t) ==
  tn[t].live /\ \E spec \in Specs \ {tn[t].spec} :
    UserPutTn(t, "subscribe", [tn[t] EXCEPT !.spec = spec])

UserRelabelTn(t) == tn[t].live /\ UserPutTn(t, "relabel", [tn[t] EXCEPT !.sel = ~@])

UserDeleteTn(t) ==
  tn[t].live /\ ~tn[t].del /\ UserPutTn(t, "delete", [tn[t] EXCEPT !.del = TRUE])

UserCreateWs(w) == ~ws[w].live /\ UserPutWs(w, "create", NewWorkspace)

UserRelabelWs(w) == ws[w].live /\ UserPutWs(w, "relabel", [ws[w] EXCEPT !.sel = ~@])

UserDeleteWs(w) ==
  ws[w].live /\ ~ws[w].del /\ UserPutWs(w, "delete", [ws[w] EXCEPT !.del = TRUE])

EnvStep ==
  \/ \E t \in Tenants : \/ WatchTn(t) \/ RequeueTn(t) \/ UserCreateTn(t)
                        \/ UserSubscribeTn(t) \/ UserRelabelTn(t) \/ UserDeleteTn(t)
  \/ \E w \in Workspaces : \/ WatchWs(w) \/ RequeueWs(w) \/ UserCreateWs(w)
                           \/ UserRelabelWs(w) \/ UserDeleteWs(w)

(* The operator process restarts: queues are empty, then refilled with     *)
(* every object its fresh lists return.                                    *)
ClusterRestart ==
  /\ Fault
  /\ tnCache' = [t \in Tenants |-> Cached(tn[t])]
  /\ tnFresh' = [t \in Tenants |-> {"cache"}]
  /\ wsCache' = [w \in Workspaces |-> Cached(ws[w])]
  /\ wsFresh' = [w \in Workspaces |-> {"cache"}]
  /\ tnQueue' = {t \in Tenants : tn[t].live /\ tn[t].sel} /\ tnDelayed' = {}
  /\ wsQueue' = {w \in Workspaces : ws[w].live /\ ws[w].sel} /\ wsDelayed' = {}
  /\ UNCHANGED <<tn, ws, kcVars, ncUsers, ops>>
=============================================================================
