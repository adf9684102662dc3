---------------------------- MODULE KeycloakUsers ----------------------------
(***************************************************************************)
(* The Keycloak half of a tenant's reconciliation in full                  *)
(* (handleKeycloakSubscription, the Keycloak part of handleDeletion and    *)
(* the user half of keycloak_utils.go): how the account of a tenant is     *)
(* looked up by name, created or updated, mailed, and given its roles.     *)
(*                                                                         *)
(* Keycloak answers a query by user name with every account whose name     *)
(* contains it: Inside has the pairs <<t, u>> where the name of t is a     *)
(* proper part of the name of u. An email <<t, n>> is one of those that    *)
(* tenant t may give; Keycloak refuses one that another account has.       *)
(* MaxOps caps the number of edits people make and MaxFaults that of the   *)
(* calls that fail.                                                        *)
(***************************************************************************)
EXTENDS Naturals, FiniteSets

CONSTANTS Tenants, Inside, WsRoles, MaxOps, MaxFaults

ASSUME KeycloakAssumption ==
  /\ Inside \subseteq Tenants \X Tenants /\ "other" \notin WsRoles
  /\ MaxOps \in Nat /\ MaxFaults \in Nat

VARIABLES
  want,          \* the tenants: whether they exist, are being deleted, their email and roles
  acc, mailed,   \* the accounts, and the email each was last sent its actions at
  queue, proc, faults, ops

vars == <<want, acc, mailed, queue, proc, faults, ops>>

Email == Tenants \X {1, 2}

(* "other" stands for the roles without the prefix workspace-, given by    *)
(* hand                                                                    *)
Roles == WsRoles \cup {"other"}

NoAccount == [found |-> FALSE, email |-> << >>, roles |-> {}]
NoTenant == [live |-> FALSE, del |-> FALSE, email |-> << >>, roles |-> {}]
Idle == [pc |-> "idle"]
Steps == {"info", "create", "update", "mail", "current", "remove", "add", "delinfo", "delete"}

(* The variables have their types; in particular an account always has an  *)
(* email of some tenant (createKcUser, updateKcUser).                      *)
TypeOK ==
  /\ want \in [Tenants -> [live : {TRUE}, del : BOOLEAN, email : Email, roles : SUBSET WsRoles]
                          \cup {NoTenant}]
  /\ acc \in [Tenants -> [found : {TRUE}, email : Email, roles : SUBSET Roles] \cup {NoAccount}]
  /\ mailed \in [Tenants -> Email \cup {<< >>}]
  /\ queue \subseteq Tenants
  /\ proc \in [Tenants -> [pc : Steps, email : Email, roles : SUBSET WsRoles, id : Tenants,
                           drop : SUBSET Roles] \cup {Idle}]
  /\ faults \in 0 .. MaxFaults /\ ops \in 0 .. MaxOps

Init ==
  /\ want = [t \in Tenants |-> NoTenant] /\ acc = [t \in Tenants |-> NoAccount]
  /\ mailed = [t \in Tenants |-> << >>] /\ queue = {} /\ proc = [t \in Tenants |-> Idle]
  /\ faults = MaxFaults /\ ops = MaxOps

-----------------------------------------------------------------------------
(* People edit a tenant, or a role in Keycloak *)

Edit == ops > 0 /\ ops' = ops - 1 /\ UNCHANGED <<mailed, proc, faults>>

Put(t, new) ==
  /\ Edit /\ new # want[t] /\ want' = [want EXCEPT ![t] = new]
  /\ queue' = queue \cup {t} /\ UNCHANGED acc

UserEdit(t) ==
  \/ /\ ~want[t].live
     /\ \E r \in SUBSET WsRoles :
          Put(t, [live |-> TRUE, del |-> FALSE, email |-> <<t, 1>>, roles |-> r])
  \/ want[t].live /\ \E n \in {1, 2} : Put(t, [want[t] EXCEPT !.email = <<t, n>>])
  \/ want[t].live /\ \E r \in SUBSET WsRoles : Put(t, [want[t] EXCEPT !.roles = r])
  \/ want[t].live /\ Put(t, [want[t] EXCEPT !.del = TRUE])

Grant(t) ==
  /\ Edit /\ acc[t].found /\ acc' = [acc EXCEPT ![t].roles = @ \cup {"other"}]
  /\ UNCHANGED <<want, queue>>

-----------------------------------------------------------------------------
Fault == faults > 0 /\ faults' = faults - 1

At(t, pc) == proc[t].pc = pc

Goto(t, pc) == proc' = [proc EXCEPT ![t].pc = pc] /\ UNCHANGED queue

Return(t) == proc' = [proc EXCEPT ![t] = Idle] /\ UNCHANGED queue

ReturnError(t) == proc' = [proc EXCEPT ![t] = Idle] /\ queue' = queue \cup {t}

(* A call that gives the accounts the value new, refused without cond:     *)
(* done, refused, lost, or done with the answer lost                       *)
Call(t, cond, new, next) ==
  \/ cond /\ acc' = new /\ next /\ UNCHANGED faults
  \/ ~cond /\ ReturnError(t) /\ UNCHANGED <<acc, faults>>
  \/ Fault /\ ReturnError(t) /\ (UNCHANGED acc \/ (cond /\ acc' = new))

Start(t) ==
  /\ t \in queue /\ proc[t] = Idle /\ queue' = queue \ {t}
  /\ proc' = IF ~want[t].live THEN proc
             ELSE [proc EXCEPT ![t] = [pc |-> IF want[t].del THEN "delinfo" ELSE "info",
                                       email |-> want[t].email, roles |-> want[t].roles,
                                       id |-> t, drop |-> {}]]
  /\ UNCHANGED <<want, acc, mailed, faults, ops>>

Found(t) == {u \in Tenants : acc[u].found /\ (u = t \/ <<t, u>> \in Inside)}

(* variant: any account found is taken *)
GetUserInfo_any(t) ==
  /\ proc[t].pc \in {"info", "delinfo"}
  /\ LET del == At(t, "delinfo")
     IN \/ Found(t) = {} /\ ~del /\ Goto(t, "create") /\ UNCHANGED want
        \/ Found(t) = {} /\ del /\ Return(t) /\ want' = [want EXCEPT ![t] = NoTenant]
        \/ \E u \in Found(t) :
             /\ proc' = [proc EXCEPT ![t].pc = IF del THEN "delete" ELSE "update", ![t].id = u]
             /\ UNCHANGED <<want, queue>>
  /\ UNCHANGED <<acc, mailed, faults, ops>>

(* getUserInfo: nobody, the only account found, or the exact match among   *)
(* several; several without an exact match are an error.                   *)
GetUserInfo(t) ==
  /\ proc[t].pc \in {"info", "delinfo"}
  /\ LET found == Found(t)
         del == At(t, "delinfo")
     IN \/ found = {} /\ ~del /\ Goto(t, "create") /\ UNCHANGED <<want, faults>>
        \/ /\ found = {} /\ del /\ Return(t) /\ UNCHANGED faults
           /\ want' = [want EXCEPT ![t] = NoTenant]
        \/ \E u \in found :
             /\ found = {u} \/ u = t
             /\ proc' = [proc EXCEPT ![t].pc = IF del THEN "delete" ELSE "update", ![t].id = u]
             /\ UNCHANGED <<want, queue, faults>>
        \/ /\ Cardinality(found) > 1 /\ t \notin found
           /\ ReturnError(t) /\ UNCHANGED <<want, faults>>
        \/ Fault /\ ReturnError(t) /\ UNCHANGED want
  /\ UNCHANGED <<acc, mailed, ops>>

Taken(email, id) == \E u \in Tenants \ {id} : acc[u].found /\ acc[u].email = email

CreateKcUser(t) ==
  /\ At(t, "create")
  /\ Call(t, ~acc[t].found /\ ~Taken(proc[t].email, t),
          [acc EXCEPT ![t] = [found |-> TRUE, email |-> proc[t].email, roles |-> {}]],
          Goto(t, "mail"))
  /\ mailed' = [mailed EXCEPT ![t] = IF acc'[t] = acc[t] THEN @ ELSE << >>]
  /\ UNCHANGED <<want, ops>>

(* Only a change of the email asks for a new mail. *)
UpdateKcUser(t) ==
  /\ At(t, "update")
  /\ LET id == proc[t].id
         new == [acc EXCEPT ![id].email = proc[t].email]
     IN Call(t, acc[id].found /\ ~Taken(proc[t].email, id), new,
             Goto(t, IF acc[id].email = proc[t].email THEN "current" ELSE "mail"))
  /\ UNCHANGED <<want, mailed, ops>>

(* ExecuteActionsEmail *)
SendMail(t) ==
  /\ At(t, "mail")
  /\ \/ /\ Goto(t, "current") /\ UNCHANGED faults
        /\ mailed' = [mailed EXCEPT ![proc[t].id] = proc[t].email]
     \/ Fault /\ ReturnError(t) /\ UNCHANGED mailed
  /\ UNCHANGED <<want, acc, ops>>

(* subtractRoles, with the prefix workspace- *)
SubtractRoles(current, wanted) == {r \in current : r \in WsRoles /\ r \notin wanted}

(* updateUserRoles: the current roles, the ones to remove, the ones to add *)
GetRoles(t) ==
  /\ At(t, "current")
  /\ LET id == proc[t].id
         drop == SubtractRoles(acc[id].roles, proc[t].roles)
     IN \/ /\ acc[id].found /\ UNCHANGED <<queue, faults>>
           /\ proc' = [proc EXCEPT ![t].pc = IF drop = {} THEN "add" ELSE "remove",
                                   ![t].drop = drop]
        \/ ~acc[id].found /\ ReturnError(t) /\ UNCHANGED faults
        \/ Fault /\ ReturnError(t)
  /\ UNCHANGED <<want, acc, mailed, ops>>

RemoveRoles(t) ==
  /\ At(t, "remove")
  /\ LET id == proc[t].id IN
     Call(t, acc[id].found, [acc EXCEPT ![id].roles = @ \ proc[t].drop], Goto(t, "add"))
  /\ UNCHANGED <<want, mailed, ops>>

(* variant: a failure is logged and not returned *)
AddRoles_logOnly(t) ==
  /\ At(t, "add") /\ Return(t)
  /\ \/ acc' = [acc EXCEPT ![t].roles = @ \cup proc[t].roles] /\ UNCHANGED faults
     \/ Fault /\ UNCHANGED acc
  /\ UNCHANGED <<want, mailed, ops>>

AddRoles(t) ==
  /\ At(t, "add")
  /\ LET id == proc[t].id IN
     Call(t, acc[id].found, [acc EXCEPT ![id].roles = @ \cup proc[t].roles], Return(t))
  /\ UNCHANGED <<want, mailed, ops>>

(* handleDeletion, after which the tenant goes away *)
DeleteUser(t) ==
  /\ At(t, "delete")
  /\ LET id == proc[t].id
         gone == [acc EXCEPT ![id] = NoAccount]
     IN \/ /\ acc[id].found /\ acc' = gone /\ UNCHANGED faults
           /\ Return(t) /\ want' = [want EXCEPT ![t] = NoTenant]
        \/ ~acc[id].found /\ ReturnError(t) /\ UNCHANGED <<want, acc, faults>>
        \/ Fault /\ ReturnError(t) /\ acc' \in {acc, gone} /\ UNCHANGED want
  /\ UNCHANGED <<mailed, ops>>

Reconcile(t) ==
  \/ Start(t) \/ GetUserInfo(t) \/ CreateKcUser(t) \/ UpdateKcUser(t) \/ SendMail(t)
  \/ GetRoles(t) \/ RemoveRoles(t) \/ AddRoles(t) \/ DeleteUser(t)

Next == \E t \in Tenants : UserEdit(t) \/ Grant(t) \/ Reconcile(t)

Spec == Init /\ [][Next]_vars

-----------------------------------------------------------------------------
Settled(t) == want[t].live /\ ~want[t].del /\ t \notin queue /\ proc[t] = Idle

(* A tenant whose name has nothing in common with another's *)
Alone(t) == \A u \in Tenants : <<t, u>> \notin Inside /\ <<u, t>> \notin Inside

(* Once the last reconciliation of a tenant returned without an error, the *)
(* tenant has an account with its email and, of the roles workspace-..,    *)
(* exactly the ones of its workspaces, provided that its name is no part   *)
(* of another's: getUserInfo takes the only account found for the right    *)
(* one.                                                                    *)
AccountFollows ==
  /\ TypeOK
  /\ \A t \in Tenants :
       Settled(t) /\ Alone(t) => /\ acc[t].found /\ acc[t].email = want[t].email
                                /\ acc[t].roles \cap WsRoles = want[t].roles

(* An account is deleted or given another email only for the tenant it is  *)
(* named after, or for one whose name is a part of that name and that has  *)
(* no account of its own at that moment; never for a tenant that has one   *)
(* (getUserInfo, updateKcUser, handleDeletion). The roles that are not of  *)
(* workspaces stay for as long as the account exists (updateUserRoles),    *)
(* also when reconciliations of several tenants work on one account.       *)
OwnAccountFirst ==
  [][\A u \in Tenants :
       /\ acc[u].found /\ acc'[u].email # acc[u].email =>
            \E t \in Tenants :
              /\ t = u \/ (<<t, u>> \in Inside /\ ~acc[t].found)
              /\ IF acc'[u].found THEN At(t, "update") /\ acc'[u].email = proc[t].email
                 ELSE At(t, "delete") /\ want[t].del
       /\ "other" \in acc[u].roles /\ acc'[u].found => "other" \in acc'[u].roles]_vars
=============================================================================
