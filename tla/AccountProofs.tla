---------------------------- MODULE AccountProofs ----------------------------
(***************************************************************************)
(* What is proved of the accounts that tenants have outside the cluster,   *)
(* in Keycloak (AccountFollows, OwnAccountFirst) and in Nextcloud          *)
(* (KeepsPassword).                                                        *)
(***************************************************************************)
EXTENDS Accounts, TLAPS

Want == [live : {TRUE}, del : BOOLEAN, email : Email, roles : SUBSET WsRoles]
Account == [found : {TRUE}, email : Email, roles : SUBSET Roles]
Proc == [pc : Steps, email : Email, roles : SUBSET WsRoles, id : Tenants, drop : SUBSET Roles]

(* The account a reconciliation works on is the tenant's own, or the       *)
(* tenant has none; only a tenant being deleted has its account deleted.   *)
Sound(t) ==
  proc[t] # Idle =>
    /\ proc[t].id = t \/ (<<t, proc[t].id>> \in Inside /\ ~acc[t].found)
    /\ proc[t].pc \in {"info", "delinfo", "create"} => proc[t].id = t
    /\ proc[t].drop \subseteq WsRoles
    /\ proc[t].pc \in {"delinfo", "delete"} => want[t].del

(* How far the reconciliation of a tenant has come, unless another is due  *)
Consistent(t) ==
  /\ acc[t].found /\ acc[t].email = want[t].email
  /\ acc[t].roles \cap WsRoles = want[t].roles

Underway(t) ==
  LET p == proc[t] IN
  /\ p.email = want[t].email /\ p.roles = want[t].roles /\ p.pc \notin {"delinfo", "delete"}
  /\ p.pc \in {"mail", "current", "remove", "add"} => acc[t].found /\ acc[t].email = p.email
  /\ p.pc = "remove" => p.drop = SubtractRoles(acc[t].roles, p.roles)
  /\ p.pc = "add" => acc[t].roles \cap WsRoles \subseteq p.roles

Following(t) ==
  Alone(t) /\ want[t].live /\ ~want[t].del /\ t \notin queue =>
    IF proc[t] = Idle THEN Consistent(t) ELSE Underway(t)

Inv == TypeOK /\ \A t \in Tenants : Sound(t) /\ Following(t)

-----------------------------------------------------------------------------
(* What a step for tenant t leaves to the others: their tenants, their     *)
(* reconciliations, and every account but one whose name contains t's      *)
Apart(t) ==
  \A u \in Tenants \ {t} :
    /\ want'[u] = want[u] /\ proc'[u] = proc[u] /\ (u \in queue' <=> u \in queue)
    /\ acc'[u] = acc[u] \/ (acc[u].found /\ <<t, u>> \in Inside)

(* A step for t disturbs neither the reconciliation of another tenant nor, *)
(* when that tenant's name is apart, its account.                          *)
LEMMA OthersKeep ==
  ASSUME Inv, NEW t \in Tenants, Apart(t), NEW u \in Tenants \ {t}
  PROVE  Sound(u)' /\ Following(u)'
<1>1. /\ want'[u] = want[u] /\ proc'[u] = proc[u] /\ (u \in queue' <=> u \in queue)
      /\ acc'[u] = acc[u] \/ (acc[u].found /\ <<t, u>> \in Inside)
  BY DEF Apart
<1>2. Sound(u) /\ Following(u)
  BY DEF Inv
<1>3. Sound(u)'
  BY <1>1, <1>2 DEF Sound
<1>4. Following(u)'
  BY <1>1, <1>2 DEF Following, Alone, Consistent, Underway
<1>5. QED
  BY <1>3, <1>4

(* So a step for t keeps the invariant when it keeps t's part of it.       *)
LEMMA OwnPart ==
  ASSUME Inv, NEW t \in Tenants, Apart(t), TypeOK', Sound(t)', Following(t)'
  PROVE  Inv'
<1>1. \A u \in Tenants : Sound(u)' /\ Following(u)'
  BY OthersKeep
<1>2. QED
  BY <1>1 DEF Inv

(* Where a reconciliation that is under way stands, field by field         *)
LEMMA Running ==
  ASSUME TypeOK, NEW t \in Tenants, proc[t].pc \in Steps
  PROVE  proc[t] # Idle /\ proc[t] \in Proc
BY DEF TypeOK, Idle, Steps, Proc

(* A tenant, or an account, that exists has its fields. *)
LEMMA Existing ==
  ASSUME TypeOK, NEW t \in Tenants
  PROVE  /\ want[t].live => want[t] \in Want
         /\ ~want[t].live => ~want[t].del
         /\ acc[t].found => acc[t] \in Account
         /\ ~acc[t].found => acc[t] = NoAccount
<1>1. want[t] \in Want \/ want[t] = NoTenant
  BY DEF TypeOK, Want
<1>2. acc[t] \in Account \/ acc[t] = NoAccount
  BY DEF TypeOK, Account
<1>3. ~NoTenant.live /\ ~NoTenant.del /\ ~NoAccount.found
  BY DEF NoTenant, NoAccount
<1>4. \A w \in Want : w.live
  BY DEF Want
<1>5. \A a \in Account : a.found
  BY DEF Account
<1>6. QED
  BY <1>1, <1>2, <1>3, <1>4, <1>5

(* An edit of a tenant puts it in the queue, and an edit of an account     *)
(* adds a role that is not of a workspace.                                 *)
LEMMA PeopleStep ==
  ASSUME Inv, NEW t \in Tenants, UserEdit(t) \/ Grant(t)
  PROVE  Inv'
<1> USE KeycloakAssumption
<1>0. TypeOK /\ Sound(t) /\ Following(t)
  BY DEF Inv
<1>1. CASE UserEdit(t)
  <2>1. PICK new : Put(t, new) /\ new \in Want /\ (want[t].del => new.del)
    <3>1. want[t].live => want[t] \in Want
      BY <1>0, Existing
    <3>2. <<t, 1>> \in Email /\ <<t, 2>> \in Email
      BY DEF Email
    <3>3. ~want[t].live => ~want[t].del
      BY <1>0, Existing
    <3>4. CASE ~want[t].live
      BY <1>1, <3>2, <3>3, <3>4 DEF UserEdit, Want
    <3>5. CASE want[t].live
      <4>1. \A n \in {1, 2} : LET w == [want[t] EXCEPT !.email = <<t, n>>]
                             IN w \in Want /\ w.del = want[t].del
        BY <3>1, <3>2, <3>5 DEF Want
      <4>2. \A r \in SUBSET WsRoles : LET w == [want[t] EXCEPT !.roles = r]
                                     IN w \in Want /\ w.del = want[t].del
        BY <3>1, <3>5 DEF Want
      <4>3. LET w == [want[t] EXCEPT !.del = TRUE] IN w \in Want /\ w.del
        BY <3>1, <3>5 DEF Want
      <4>4. QED
        BY <1>1, <3>5, <4>1, <4>2, <4>3 DEF UserEdit
    <3>6. QED
      BY <3>4, <3>5
  <2>2. /\ want' = [want EXCEPT ![t] = new] /\ queue' = queue \cup {t} /\ acc' = acc
        /\ mailed' = mailed /\ proc' = proc /\ faults' = faults /\ ops' \in 0 .. MaxOps
    BY <2>1, <1>0 DEF Put, Edit, TypeOK
  <2>3. TypeOK'
    BY <2>1, <2>2, <1>0 DEF TypeOK, Want
  <2>4. Apart(t)
    BY <2>2, <1>0 DEF Apart
  <2>5. Sound(t)' /\ Following(t)'
    BY <2>1, <2>2, <1>0 DEF Sound, Following
  <2>6. QED
    BY <2>3, <2>4, <2>5, OwnPart
<1>2. CASE Grant(t)
  <2>1. /\ acc[t].found /\ acc' = [acc EXCEPT ![t].roles = @ \cup {"other"}]
        /\ UNCHANGED <<want, queue, mailed, proc, faults>> /\ ops' \in 0 .. MaxOps
    BY <1>2, <1>0 DEF Grant, Edit, TypeOK
  <2>2. acc[t] \in Account
    BY <2>1, <1>0, Existing
  <2>3. /\ acc'[t] \in Account /\ acc'[t].found /\ acc'[t].email = acc[t].email
        /\ acc'[t].roles = acc[t].roles \cup {"other"}
    BY <2>1, <2>2, <1>0 DEF Account, Roles, TypeOK
  <2>4. \A u \in Tenants \ {t} : acc'[u] = acc[u]
    BY <2>1, <1>0
  <2>5. TypeOK'
    BY <2>1, <2>3, <2>4, <1>0 DEF TypeOK, Account
  <2>6. Apart(t)
    BY <2>1, <2>4 DEF Apart
  <2>7. Sound(t)'
    BY <2>1, <2>3, <1>0 DEF Sound, Account
  <2>8. Following(t)'
    BY <2>1, <2>3, <1>0 DEF Following, Consistent, Underway, SubtractRoles
  <2>9. QED
    BY <2>5, <2>6, <2>7, <2>8, OwnPart
<1>3. QED
  BY <1>1, <1>2

-----------------------------------------------------------------------------
(* A value of the accounts that a call made for t may leave *)
Touches(t, new) ==
  /\ new \in [Tenants -> Account \cup {NoAccount}]
  /\ \A u \in Tenants \ {t} : new[u] = acc[u] \/ (acc[u].found /\ <<t, u>> \in Inside)

(* What a step of a reconciliation of t may do to the rest of the state *)
Aside(t) ==
  /\ Touches(t, acc') /\ mailed' \in [Tenants -> Email \cup {<< >>}]
  /\ faults' \in 0 .. MaxFaults /\ ops' = ops

(* A call that failed is tried again, whether or not it had its effect.    *)
LEMMA Failing ==
  ASSUME Inv, NEW t \in Tenants, ReturnError(t), Aside(t), want' = want
  PROVE  Inv'
<1>0. TypeOK
  BY DEF Inv
<1>1. /\ proc' \in [Tenants -> Proc \cup {Idle}] /\ proc'[t] = Idle
      /\ \A u \in Tenants \ {t} : proc'[u] = proc[u]
  BY <1>0 DEF TypeOK, Proc, ReturnError
<1>2. queue' = queue \cup {t}
  BY DEF ReturnError
<1>3. TypeOK'
  BY <1>0, <1>1, <1>2 DEF TypeOK, Aside, Touches, Proc, Account
<1>4. Apart(t)
  BY <1>1, <1>2 DEF Apart, Aside, Touches
<1>5. Sound(t)' /\ Following(t)'
  BY <1>1, <1>2 DEF Sound, Following
<1>6. QED
  BY <1>3, <1>4, <1>5, OwnPart

(* A step of the reconciliation of t that goes on, or ends it              *)
LEMMA Going ==
  ASSUME Inv, NEW t \in Tenants, Aside(t), want' \in [Tenants -> Want \cup {NoTenant}],
         queue' = queue, proc' \in [Tenants -> Proc \cup {Idle}],
         \A u \in Tenants \ {t} : proc'[u] = proc[u] /\ want'[u] = want[u],
         Sound(t)', Following(t)'
  PROVE  Inv'
<1>1. TypeOK'
  BY DEF Inv, TypeOK, Aside, Touches, Proc, Account, Want
<1>2. Apart(t)
  BY DEF Apart, Aside, Touches
<1>3. QED
  BY <1>1, <1>2, OwnPart

(* A call that changes no account, or one of them, is nothing to the rest. *)
LEMMA Unchanged ==
  ASSUME TypeOK, NEW t \in Tenants
  PROVE  Touches(t, acc)
BY DEF TypeOK, Touches, Account

(* Nor is a change of the tenant's own account, or of one its name is part *)
(* of.                                                                     *)
LEMMA Changed ==
  ASSUME TypeOK, NEW t \in Tenants, NEW id \in Tenants, NEW a \in Account \cup {NoAccount},
         id = t \/ (acc[id].found /\ <<t, id>> \in Inside)
  PROVE  Touches(t, [acc EXCEPT ![id] = a])
BY DEF TypeOK, Touches, Account

(* The fields of a reconciliation that goes to its next call *)
LEMMA GotoEffect ==
  ASSUME TypeOK, NEW t \in Tenants, proc[t] \in Proc, NEW pc \in Steps, Goto(t, pc)
  PROVE  /\ proc' \in [Tenants -> Proc \cup {Idle}] /\ queue' = queue
         /\ \A u \in Tenants \ {t} : proc'[u] = proc[u]
         /\ proc'[t] \in Proc /\ proc'[t].pc = pc /\ proc'[t].email = proc[t].email
         /\ proc'[t].roles = proc[t].roles /\ proc'[t].id = proc[t].id
         /\ proc'[t].drop = proc[t].drop
<1>1. proc' = [proc EXCEPT ![t] = [proc[t] EXCEPT !.pc = pc]] /\ queue' = queue
  BY DEF Goto
<1>2. proc \in [Tenants -> Proc \cup {Idle}]
  BY DEF TypeOK, Proc
<1>3. LET q == [proc[t] EXCEPT !.pc = pc]
      IN /\ q \in Proc /\ q.pc = pc /\ q.email = proc[t].email /\ q.roles = proc[t].roles
         /\ q.id = proc[t].id /\ q.drop = proc[t].drop
  BY DEF Proc
<1>4. QED
  BY <1>1, <1>2, <1>3

(* Nor does one that has ended keep anything. *)
LEMMA ReturnEffect ==
  ASSUME TypeOK, NEW t \in Tenants, Return(t)
  PROVE  /\ proc' \in [Tenants -> Proc \cup {Idle}] /\ queue' = queue /\ proc'[t] = Idle
         /\ \A u \in Tenants \ {t} : proc'[u] = proc[u]
BY DEF TypeOK, Proc, Return

(* A reconciliation under way is not the idle one. *)
LEMMA IdleApart == \A p \in Proc : p # Idle /\ p.pc \in Steps
BY DEF Idle, Proc, Steps

-----------------------------------------------------------------------------
(* The reconciliation reads the tenant, and looks its account up.          *)
LEMMA LookupStep ==
  ASSUME Inv, NEW t \in Tenants, Start(t) \/ GetUserInfo(t)
  PROVE  Inv'
<1>0. TypeOK /\ Sound(t) /\ Following(t)
  BY DEF Inv
<1>1. CASE Start(t)
  <2>1. /\ UNCHANGED <<want, acc, mailed, faults, ops>> /\ queue' = queue \ {t}
        /\ proc[t] = Idle
    BY <1>1 DEF Start
  <2>2. CASE ~want[t].live
    <3>1. proc' = proc
      BY <1>1, <2>2 DEF Start
    <3>2. QED
      BY <1>0, <2>1, <2>2, <3>1, OwnPart DEF TypeOK, Apart, Sound, Following
  <2>3. CASE want[t].live
    <3> DEFINE q == [pc |-> IF want[t].del THEN "delinfo" ELSE "info",
                     email |-> want[t].email, roles |-> want[t].roles, id |-> t, drop |-> {}]
    <3>1. proc' = [proc EXCEPT ![t] = q]
      BY <1>1, <2>3 DEF Start
    <3>2. /\ q \in Proc /\ q.pc = (IF want[t].del THEN "delinfo" ELSE "info")
          /\ q.email = want[t].email /\ q.roles = want[t].roles /\ q.id = t /\ q.drop = {}
      BY <1>0, <2>3, Existing DEF Proc, Want, Steps
    <3> HIDE DEF q
    <3>3. /\ proc' \in [Tenants -> Proc \cup {Idle}] /\ proc'[t] = q
          /\ \A u \in Tenants \ {t} : proc'[u] = proc[u]
      BY <1>0, <3>1, <3>2 DEF TypeOK, Proc
    <3>4. TypeOK'
      BY <1>0, <2>1, <3>3 DEF TypeOK, Proc
    <3>5. Apart(t)
      BY <2>1, <3>3 DEF Apart
    <3>6. Sound(t)'
      BY <2>1, <3>2, <3>3 DEF Sound
    <3>7. Following(t)'
      BY <2>1, <3>2, <3>3, IdleApart DEF Following, Underway
    <3>8. QED
      BY <3>4, <3>5, <3>6, <3>7, OwnPart
  <2>4. QED
    BY <2>2, <2>3
<1>2. CASE GetUserInfo(t)
  <2>1. UNCHANGED <<acc, mailed, ops>> /\ proc[t].pc \in {"info", "delinfo"}
    BY <1>2 DEF GetUserInfo
  <2>2. proc[t] # Idle /\ proc[t] \in Proc
    BY <2>1, <1>0, Running DEF Steps
  <2>3. faults' \in 0 .. MaxFaults
    BY <1>2, <1>0, KeycloakAssumption DEF GetUserInfo, Fault, TypeOK
  <2>4. Aside(t)
    BY <2>1, <2>3, <1>0, Unchanged DEF Aside, TypeOK
  <2>5. CASE Found(t) = {} /\ ~At(t, "delinfo") /\ Goto(t, "create") /\ want' = want
    <3>1. /\ proc' \in [Tenants -> Proc \cup {Idle}] /\ queue' = queue
          /\ \A u \in Tenants \ {t} : proc'[u] = proc[u]
          /\ proc'[t] \in Proc /\ proc'[t].pc = "create" /\ proc'[t].email = proc[t].email
          /\ proc'[t].roles = proc[t].roles /\ proc'[t].id = proc[t].id
          /\ proc'[t].drop = proc[t].drop
      BY <1>0, <2>2, <2>5, GotoEffect DEF Steps
    <3>2. proc[t].pc = "info"
      BY <2>1, <2>5 DEF At
    <3>3. Sound(t)'
      BY <1>0, <2>1, <2>2, <2>5, <3>1, <3>2 DEF Sound
    <3>4. Following(t)'
      BY <1>0, <2>1, <2>2, <2>5, <3>1, <3>2, IdleApart DEF Following, Underway
    <3>5. QED
      BY <1>0, <2>4, <2>5, <3>1, <3>3, <3>4, Going DEF TypeOK, Want
  <2>6. CASE /\ Found(t) = {} /\ At(t, "delinfo") /\ Return(t)
             /\ want' = [want EXCEPT ![t] = NoTenant]
    BY <1>0, <2>4, <2>6, ReturnEffect, Going
      DEF TypeOK, Want, NoTenant, Sound, Following
  <2>7. CASE /\ \E u \in Found(t) :
                  /\ Found(t) = {u} \/ u = t
                  /\ proc' = [proc EXCEPT ![t].pc = IF At(t, "delinfo") THEN "delete" ELSE "update",
                                          ![t].id = u]
             /\ UNCHANGED <<want, queue, faults>>
    <3>1. PICK u \in Found(t) :
            /\ Found(t) = {u} \/ u = t
            /\ proc' = [proc EXCEPT ![t].pc = IF At(t, "delinfo") THEN "delete" ELSE "update",
                                    ![t].id = u]
      BY <2>7
    <3>2. u \in Tenants /\ (u = t \/ (<<t, u>> \in Inside /\ ~acc[t].found))
      BY <3>1 DEF Found
    <3> DEFINE pc == IF At(t, "delinfo") THEN "delete" ELSE "update"
               q == [proc[t] EXCEPT !.pc = pc, !.id = u]
    <3>3. proc' = [proc EXCEPT ![t] = q]
      BY <3>1, <1>0, <2>2 DEF TypeOK
    <3>4. /\ q \in Proc /\ q.pc = pc /\ q.email = proc[t].email /\ q.roles = proc[t].roles
          /\ q.id = u /\ q.drop = proc[t].drop
      BY <2>2, <3>2 DEF Proc, Steps
    <3> HIDE DEF q
    <3>5. /\ proc' \in [Tenants -> Proc \cup {Idle}] /\ proc'[t] = q
          /\ \A v \in Tenants \ {t} : proc'[v] = proc[v]
      BY <1>0, <3>3, <3>4 DEF TypeOK, Proc
    <3>6. Sound(t)'
      BY <1>0, <2>1, <2>2, <2>7, <3>2, <3>4, <3>5 DEF Sound, At
    <3>7. Following(t)'
      BY <1>0, <2>1, <2>2, <2>7, <3>2, <3>4, <3>5, IdleApart DEF Following, Underway, At
    <3>8. QED
      BY <1>0, <2>4, <2>7, <3>5, <3>6, <3>7, Going DEF TypeOK, Want
  <2>8. CASE ReturnError(t) /\ want' = want
    BY <2>4, <2>8, Failing
  <2>9. QED
    BY <1>2, <2>5, <2>6, <2>7, <2>8 DEF GetUserInfo
<1>3. QED
  BY <1>1, <1>2

-----------------------------------------------------------------------------
(* The account is created, or given the tenant's email, and mailed.        *)
LEMMA AccountStep ==
  ASSUME Inv, NEW t \in Tenants, CreateKcUser(t) \/ UpdateKcUser(t) \/ SendMail(t)
  PROVE  Inv'
<1>0. TypeOK /\ Sound(t) /\ Following(t)
  BY DEF Inv
<1>1. want' = want /\ ops' = ops /\ proc[t].pc \in {"create", "update", "mail"}
  BY DEF CreateKcUser, UpdateKcUser, SendMail, At
<1>2. /\ proc[t] # Idle /\ proc[t] \in Proc /\ proc[t].id \in Tenants
      /\ proc[t].email \in Email /\ proc[t].roles \subseteq WsRoles
  BY <1>0, <1>1, Running DEF Steps, Proc
<1>3. faults' \in 0 .. MaxFaults
  BY <1>0, KeycloakAssumption
    DEF CreateKcUser, UpdateKcUser, SendMail, Call, Fault, TypeOK
<1>4. mailed' \in [Tenants -> Email \cup {<< >>}]
  BY <1>0, <1>2 DEF CreateKcUser, UpdateKcUser, SendMail, TypeOK
<1>5. want \in [Tenants -> Want \cup {NoTenant}]
  BY <1>0 DEF TypeOK, Want
<1>6. CASE CreateKcUser(t)
  <2> DEFINE a == [found |-> TRUE, email |-> proc[t].email, roles |-> {}]
             new == [acc EXCEPT ![t] = a]
  <2>1. a \in Account /\ a.found /\ a.email = proc[t].email
    BY <1>2 DEF Account
  <2> HIDE DEF a
  <2>2. Touches(t, new)
    BY <1>0, <2>1, Changed
  <2>3. new[t] = a
    BY <1>0 DEF TypeOK
  <2>4. Touches(t, acc)
    BY <1>0, Unchanged
  <2> HIDE DEF new
  <2>5. /\ At(t, "create")
        /\ \/ acc' = new /\ Goto(t, "mail") /\ ~acc[t].found
           \/ ReturnError(t) /\ acc' \in {acc, new}
    BY <1>6 DEF CreateKcUser, Call, a, new
  <2>6. Aside(t)
    BY <1>1, <1>3, <1>4, <2>2, <2>4, <2>5 DEF Aside
  <2>7. CASE ReturnError(t)
    BY <1>1, <2>6, <2>7, Failing
  <2>8. CASE acc' = new /\ Goto(t, "mail")
    <3>1. /\ proc' \in [Tenants -> Proc \cup {Idle}] /\ queue' = queue
          /\ \A u \in Tenants \ {t} : proc'[u] = proc[u]
          /\ proc'[t] \in Proc /\ proc'[t].pc = "mail" /\ proc'[t].email = proc[t].email
          /\ proc'[t].roles = proc[t].roles /\ proc'[t].id = proc[t].id
          /\ proc'[t].drop = proc[t].drop
      BY <1>0, <1>2, <2>8, GotoEffect DEF Steps
    <3>2. proc[t].id = t
      BY <1>0, <1>2, <2>5 DEF Sound, At
    <3>3. Sound(t)'
      BY <1>0, <1>2, <3>1, <3>2 DEF Sound
    <3>4. Following(t)'
      BY <1>0, <1>1, <1>2, <2>1, <2>3, <2>5, <2>8, <3>1, IdleApart DEF Following, Underway, At
    <3>5. QED
      BY <1>1, <1>5, <2>6, <3>1, <3>3, <3>4, Going
  <2>9. QED
    BY <2>5, <2>7, <2>8
<1>7. CASE UpdateKcUser(t)
  <2> DEFINE id == proc[t].id
             a == [acc[id] EXCEPT !.email = proc[t].email]
             new == [acc EXCEPT ![id] = a]
  <2>1. acc[id].found => a \in Account /\ a.found /\ a.email = proc[t].email
    <3>1. acc[id].found => acc[id] \in Account
      BY <1>0, <1>2, Existing
    <3>2. QED
      BY <1>2, <3>1 DEF Account
  <2> HIDE DEF a
  <2>2. acc[id].found => Touches(t, new)
    <3>1. id = t \/ <<t, id>> \in Inside
      BY <1>0, <1>2 DEF Sound
    <3>2. QED
      BY <1>0, <1>2, <2>1, <3>1, Changed
  <2>3. new[id] = a /\ \A u \in Tenants \ {id} : new[u] = acc[u]
    BY <1>0, <1>2 DEF TypeOK
  <2>4. Touches(t, acc)
    BY <1>0, Unchanged
  <2> HIDE DEF new
  <2>5. /\ At(t, "update")
        /\ \/ acc' = new /\ acc[id].found
              /\ \E pc \in {"current", "mail"} : Goto(t, pc)
           \/ ReturnError(t) /\ (acc' = acc \/ (acc[id].found /\ acc' = new))
    <3>1. new = [acc EXCEPT ![proc[t].id].email = proc[t].email]
      BY DEF new, a
    <3>2. QED
      BY <1>7, <3>1 DEF UpdateKcUser, Call
  <2>6. Aside(t)
    BY <1>1, <1>3, <1>4, <2>2, <2>4, <2>5 DEF Aside
  <2>7. CASE ReturnError(t)
    BY <1>1, <2>6, <2>7, Failing
  <2>8. ASSUME acc' = new, acc[id].found, NEW pc \in {"current", "mail"}, Goto(t, pc)
        PROVE  Inv'
    <3>1. /\ proc' \in [Tenants -> Proc \cup {Idle}] /\ queue' = queue
          /\ \A u \in Tenants \ {t} : proc'[u] = proc[u]
          /\ proc'[t] \in Proc /\ proc'[t].pc = pc /\ proc'[t].email = proc[t].email
          /\ proc'[t].roles = proc[t].roles /\ proc'[t].id = proc[t].id
          /\ proc'[t].drop = proc[t].drop
      BY <1>0, <1>2, <2>8, GotoEffect DEF Steps
    <3>2. Sound(t)'
      BY <1>0, <1>2, <2>3, <2>8, <3>1 DEF Sound
    <3>3. Alone(t) => id = t
      BY <1>0, <1>2 DEF Sound, Alone
    <3>4. Following(t)'
      BY <1>0, <1>1, <1>2, <2>1, <2>3, <2>5, <2>8, <3>1, <3>3, IdleApart
        DEF Following, Underway, At, Alone
    <3>5. QED
      BY <1>1, <1>5, <2>6, <3>1, <3>2, <3>4, Going
  <2>9. QED
    BY <2>5, <2>7, <2>8
<1>8. CASE SendMail(t)
  <2>1. At(t, "mail") /\ acc' = acc /\ (Goto(t, "current") \/ ReturnError(t))
    BY <1>8 DEF SendMail
  <2>2. Aside(t)
    BY <1>0, <1>1, <1>3, <1>4, <2>1, Unchanged DEF Aside
  <2>3. CASE ReturnError(t)
    BY <1>1, <2>2, <2>3, Failing
  <2>4. CASE Goto(t, "current")
    <3>1. /\ proc' \in [Tenants -> Proc \cup {Idle}] /\ queue' = queue
          /\ \A u \in Tenants \ {t} : proc'[u] = proc[u]
          /\ proc'[t] \in Proc /\ proc'[t].pc = "current" /\ proc'[t].email = proc[t].email
          /\ proc'[t].roles = proc[t].roles /\ proc'[t].id = proc[t].id
          /\ proc'[t].drop = proc[t].drop
      BY <1>0, <1>2, <2>4, GotoEffect DEF Steps
    <3>2. Sound(t)'
      BY <1>0, <1>2, <2>1, <3>1 DEF Sound
    <3>3. Following(t)'
      BY <1>0, <1>1, <1>2, <2>1, <3>1, IdleApart DEF Following, Underway, At
    <3>4. QED
      BY <1>1, <1>5, <2>2, <3>1, <3>2, <3>3, Going
  <2>5. QED
    BY <2>1, <2>3, <2>4
<1>9. QED
  BY <1>6, <1>7, <1>8

-----------------------------------------------------------------------------
(* The roles of workspaces that the tenant has not are taken away, then    *)
(* the others are given: after that the two agree.                         *)
LEMMA RolesStep ==
  ASSUME Inv, NEW t \in Tenants, GetRoles(t) \/ RemoveRoles(t) \/ AddRoles(t)
  PROVE  Inv'
<1> DEFINE id == proc[t].id
<1>0. TypeOK /\ Sound(t) /\ Following(t)
  BY DEF Inv
<1>1. /\ want' = want /\ ops' = ops /\ mailed' = mailed
      /\ proc[t].pc \in {"current", "remove", "add"}
  BY DEF GetRoles, RemoveRoles, AddRoles, At
<1>2. /\ proc[t] # Idle /\ proc[t] \in Proc /\ id \in Tenants
      /\ proc[t].email \in Email /\ proc[t].roles \subseteq WsRoles
  BY <1>0, <1>1, Running DEF Steps, Proc
<1>3. faults' \in 0 .. MaxFaults
  BY <1>0, KeycloakAssumption DEF GetRoles, RemoveRoles, AddRoles, Call, Fault, TypeOK
<1>4. want \in [Tenants -> Want \cup {NoTenant}] /\ mailed' \in [Tenants -> Email \cup {<< >>}]
  BY <1>0, <1>1 DEF TypeOK, Want
<1>5. Touches(t, acc)
  BY <1>0, Unchanged
<1>6. id = t \/ <<t, id>> \in Inside
  BY <1>0, <1>2 DEF Sound
<1>7. ASSUME acc[id].found, NEW rs \in SUBSET Roles
      PROVE  LET new == [acc EXCEPT ![id].roles = rs]
             IN /\ Touches(t, new) /\ new[id].found /\ new[id].email = acc[id].email
                /\ new[id].roles = rs /\ \A u \in Tenants \ {id} : new[u] = acc[u]
  <2> DEFINE a == [acc[id] EXCEPT !.roles = rs]
             new == [acc EXCEPT ![id].roles = rs]
  <2>1. acc[id] \in Account
    BY <1>0, <1>2, <1>7, Existing
  <2>2. a \in Account /\ a.found /\ a.email = acc[id].email /\ a.roles = rs
    BY <1>7, <2>1 DEF Account
  <2>3. new = [acc EXCEPT ![id] = a]
    OBVIOUS
  <2> HIDE DEF a
  <2>4. Touches(t, new)
    BY <1>0, <1>2, <1>6, <1>7, <2>2, <2>3, Changed
  <2>5. new[id] = a /\ \A u \in Tenants \ {id} : new[u] = acc[u]
    BY <1>0, <1>2, <2>3 DEF TypeOK
  <2> HIDE DEF new
  <2>6. QED
    BY <2>2, <2>4, <2>5 DEF new
<1>8. acc[id].found => acc[id].roles \in SUBSET Roles
  BY <1>0, <1>2, Existing DEF Account
<1>9. Alone(t) => id = t
  BY <1>2, <1>6 DEF Alone
<1>10. CASE GetRoles(t)
  <2> DEFINE drop == SubtractRoles(acc[id].roles, proc[t].roles)
             pc == IF drop = {} THEN "add" ELSE "remove"
             q == [proc[t] EXCEPT !.pc = pc, !.drop = drop]
  <2>1. /\ At(t, "current") /\ acc' = acc
        /\ \/ acc[id].found /\ queue' = queue /\ proc' = [proc EXCEPT ![t] = q]
           \/ ReturnError(t)
    BY <1>10 DEF GetRoles
  <2>2. Aside(t)
    BY <1>1, <1>3, <1>4, <1>5, <2>1 DEF Aside
  <2>3. CASE ReturnError(t)
    BY <1>1, <2>2, <2>3, Failing
  <2>4. CASE acc[id].found /\ queue' = queue /\ proc' = [proc EXCEPT ![t] = q]
    <3>1. drop \subseteq WsRoles /\ drop \subseteq Roles
      BY DEF SubtractRoles, Roles
    <3>2. /\ q \in Proc /\ q.pc = pc /\ q.email = proc[t].email /\ q.roles = proc[t].roles
          /\ q.id = id /\ q.drop = drop
      BY <1>2, <3>1 DEF Proc, Steps
    <3> HIDE DEF q
    <3>3. /\ proc' \in [Tenants -> Proc \cup {Idle}] /\ proc'[t] = q
          /\ \A v \in Tenants \ {t} : proc'[v] = proc[v]
      BY <1>0, <2>4, <3>2 DEF TypeOK, Proc
    <3>4. Sound(t)'
      BY <1>0, <1>2, <2>1, <3>1, <3>2, <3>3 DEF Sound
    <3>5. drop = {} => acc[id].roles \cap WsRoles \subseteq proc[t].roles
      BY DEF SubtractRoles
    <3>6. Following(t)'
      BY <1>0, <1>1, <1>2, <1>9, <2>1, <2>4, <3>2, <3>3, <3>5, IdleApart
        DEF Following, Underway, At, Alone
    <3>7. QED
      BY <1>1, <1>4, <2>2, <2>4, <3>3, <3>4, <3>6, Going
  <2>5. QED
    BY <2>1, <2>3, <2>4
<1>11. CASE RemoveRoles(t)
  <2> DEFINE rs == acc[id].roles \ proc[t].drop
             new == [acc EXCEPT ![id].roles = rs]
  <2>1. acc[id].found => /\ Touches(t, new) /\ new[id].found /\ new[id].email = acc[id].email
                        /\ new[id].roles = rs /\ \A u \in Tenants \ {id} : new[u] = acc[u]
    BY <1>7, <1>8
  <2>2. /\ At(t, "remove")
        /\ \/ acc[id].found /\ acc' = new /\ Goto(t, "add")
           \/ ReturnError(t) /\ (acc' = acc \/ (acc[id].found /\ acc' = new))
    BY <1>11 DEF RemoveRoles, Call
  <2> HIDE DEF new
  <2>3. Aside(t)
    BY <1>1, <1>3, <1>4, <1>5, <2>1, <2>2 DEF Aside
  <2>4. CASE ReturnError(t)
    BY <1>1, <2>3, <2>4, Failing
  <2>5. CASE acc[id].found /\ acc' = new /\ Goto(t, "add")
    <3>1. /\ proc' \in [Tenants -> Proc \cup {Idle}] /\ queue' = queue
          /\ \A u \in Tenants \ {t} : proc'[u] = proc[u]
          /\ proc'[t] \in Proc /\ proc'[t].pc = "add" /\ proc'[t].email = proc[t].email
          /\ proc'[t].roles = proc[t].roles /\ proc'[t].id = proc[t].id
          /\ proc'[t].drop = proc[t].drop
      BY <1>0, <1>2, <2>5, GotoEffect DEF Steps
    <3>2. Sound(t)'
      BY <1>0, <1>2, <2>1, <2>5, <3>1 DEF Sound
    <3>3. Following(t)'
      <4> SUFFICES ASSUME Alone(t), want[t].live, ~want[t].del, t \notin queue
                   PROVE  proc'[t] # Idle /\ Underway(t)'
        BY <1>1, <3>1 DEF Following, Alone
      <4>1. id = t /\ Underway(t)
        BY <1>0, <1>2, <1>9 DEF Following
      <4>2. acc'[t].roles \cap WsRoles \subseteq proc[t].roles
        BY <2>1, <2>2, <2>5, <4>1 DEF Underway, At, SubtractRoles
      <4>3. acc'[t].found /\ acc'[t].email = proc[t].email
        BY <2>1, <2>2, <2>5, <4>1 DEF Underway, At
      <4>4. QED
        BY <1>1, <3>1, <4>1, <4>2, <4>3, IdleApart DEF Underway
    <3>4. QED
      BY <1>1, <1>4, <2>3, <3>1, <3>2, <3>3, Going
  <2>6. QED
    BY <2>2, <2>4, <2>5
<1>12. CASE AddRoles(t)
  <2> DEFINE rs == acc[id].roles \cup proc[t].roles
             new == [acc EXCEPT ![id].roles = rs]
  <2>1. acc[id].found => /\ Touches(t, new) /\ new[id].found /\ new[id].email = acc[id].email
                        /\ new[id].roles = rs /\ \A u \in Tenants \ {id} : new[u] = acc[u]
    BY <1>2, <1>7, <1>8 DEF Roles
  <2>2. /\ At(t, "add")
        /\ \/ acc[id].found /\ acc' = new /\ Return(t)
           \/ ReturnError(t) /\ (acc' = acc \/ (acc[id].found /\ acc' = new))
    BY <1>12 DEF AddRoles, Call
  <2> HIDE DEF new
  <2>3. Aside(t)
    BY <1>1, <1>3, <1>4, <1>5, <2>1, <2>2 DEF Aside
  <2>4. CASE ReturnError(t)
    BY <1>1, <2>3, <2>4, Failing
  <2>5. CASE acc[id].found /\ acc' = new /\ Return(t)
    <3>1. /\ proc' \in [Tenants -> Proc \cup {Idle}] /\ queue' = queue /\ proc'[t] = Idle
          /\ \A u \in Tenants \ {t} : proc'[u] = proc[u]
      BY <1>0, <2>5, ReturnEffect
    <3>2. Sound(t)'
      BY <3>1 DEF Sound
    <3>3. Following(t)'
      <4> SUFFICES ASSUME Alone(t), want[t].live, ~want[t].del, t \notin queue
                   PROVE  Consistent(t)'
        BY <1>1, <3>1 DEF Following, Alone
      <4>1. id = t /\ Underway(t)
        BY <1>0, <1>2, <1>9 DEF Following
      <4>2. acc'[t].roles \cap WsRoles = want[t].roles
        BY <1>2, <2>1, <2>2, <2>5, <4>1 DEF Underway, At
      <4>3. acc'[t].found /\ acc'[t].email = want[t].email
        BY <2>1, <2>2, <2>5, <4>1 DEF Underway, At
      <4>4. QED
        BY <1>1, <4>2, <4>3 DEF Consistent
    <3>4. QED
      BY <1>1, <1>4, <2>3, <3>1, <3>2, <3>3, Going
  <2>6. QED
    BY <2>2, <2>4, <2>5
<1>13. QED
  BY <1>10, <1>11, <1>12

(* A tenant that goes away leaves no account of its own to look after.     *)
LEMMA DeleteStep ==
  ASSUME Inv, NEW t \in Tenants, DeleteUser(t)
  PROVE  Inv'
<1> DEFINE id == proc[t].id
           gone == [acc EXCEPT ![id] = NoAccount]
<1>0. TypeOK /\ Sound(t) /\ At(t, "delete")
  BY DEF Inv, DeleteUser
<1>1. proc[t] # Idle /\ id \in Tenants
  BY <1>0, Running DEF Steps, Proc, At
<1>2. id = t \/ <<t, id>> \in Inside
  BY <1>0, <1>1 DEF Sound
<1>3. Touches(t, acc) /\ Touches(t, gone)
  <2>1. acc[id].found \/ gone = acc
    BY <1>0, <1>1, Existing DEF TypeOK
  <2>2. QED
    BY <1>0, <1>1, <1>2, <2>1, Unchanged, Changed
<1>4. /\ mailed' \in [Tenants -> Email \cup {<< >>}] /\ ops' = ops
      /\ faults' \in 0 .. MaxFaults
  BY <1>0, KeycloakAssumption DEF DeleteUser, Fault, TypeOK
<1>5. Aside(t)
  BY <1>3, <1>4 DEF Aside, DeleteUser
<1>6. CASE ReturnError(t) /\ want' = want
  BY <1>5, <1>6, Failing
<1>7. CASE Return(t) /\ want' = [want EXCEPT ![t] = NoTenant]
  BY <1>0, <1>5, <1>7, ReturnEffect, Going DEF TypeOK, Want, NoTenant, Sound, Following
<1>8. QED
  BY <1>6, <1>7 DEF DeleteUser

(* The invariant holds at the start and is kept by every step.             *)
LEMMA InvHolds == Spec => []Inv
<1>1. Init => Inv
  <2> SUFFICES ASSUME Init PROVE Inv
    OBVIOUS
  <2>1. TypeOK
    BY KeycloakAssumption DEF Init, TypeOK
  <2>2. ASSUME NEW t \in Tenants PROVE Sound(t) /\ Following(t)
    BY DEF Init, Sound, Following, NoTenant
  <2>3. QED
    BY <2>1, <2>2 DEF Inv
<1>2. Inv /\ [Next]_vars => Inv'
  <2>1. CASE UNCHANGED vars
    BY <2>1 DEF vars, Inv, TypeOK, Sound, Following, Consistent, Underway
  <2>2. ASSUME Inv, Next PROVE Inv'
    BY <2>2, PeopleStep, LookupStep, AccountStep, RolesStep, DeleteStep DEF Next, Reconcile
  <2>3. QED
    BY <2>1, <2>2
<1>3. QED
  BY <1>1, <1>2, PTL DEF Spec

(* Whatever edits, failed calls and reconciliations of other tenants come  *)
(* in between: when the last reconciliation of a tenant whose name is      *)
(* apart returned without an error, its account is what the tenant says    *)
(* (AccountFollows).                                                       *)
THEOREM AccountsFollowTenants == Spec => []AccountFollows
<1>1. Inv => AccountFollows
  BY DEF Inv, AccountFollows, Settled, Following, Consistent
<1>2. QED
  BY <1>1, InvHolds, PTL

(* The accounts a step for t may change, and how *)
LEMMA OwnAccountStep ==
  ASSUME Inv, [Next]_vars, NEW u \in Tenants
  PROVE  /\ acc[u].found /\ acc'[u].email # acc[u].email =>
               \E t \in Tenants :
                 /\ t = u \/ (<<t, u>> \in Inside /\ ~acc[t].found)
                 /\ IF acc'[u].found THEN At(t, "update") /\ acc'[u].email = proc[t].email
                    ELSE At(t, "delete") /\ want[t].del
         /\ "other" \in acc[u].roles /\ acc'[u].found => "other" \in acc'[u].roles
<1>0. TypeOK
  BY DEF Inv
<1> SUFFICES ASSUME acc[u].found, acc'[u] # acc[u]
             PROVE  /\ acc'[u].email # acc[u].email =>
                          \E t \in Tenants :
                            /\ t = u \/ (<<t, u>> \in Inside /\ ~acc[t].found)
                            /\ IF acc'[u].found
                               THEN At(t, "update") /\ acc'[u].email = proc[t].email
                               ELSE At(t, "delete") /\ want[t].del
                    /\ "other" \in acc[u].roles /\ acc'[u].found => "other" \in acc'[u].roles
  <2>1. ~acc[u].found => "other" \notin acc[u].roles
    BY <1>0, Existing DEF NoAccount
  <2>2. QED
    BY <2>1
<1>1. acc[u] \in Account
  BY <1>0, Existing
<1>2. PICK t \in Tenants : UserEdit(t) \/ Grant(t) \/ Reconcile(t)
  BY DEF Next, vars
<1>3. Sound(t)
  BY DEF Inv
<1>4. CASE Grant(t)
  BY <1>0, <1>1, <1>4 DEF Grant, TypeOK, Account
<1>5. ~UserEdit(t) /\ ~Start(t) /\ ~GetUserInfo(t) /\ ~SendMail(t) /\ ~GetRoles(t)
  BY DEF UserEdit, Put, Start, GetUserInfo, SendMail, GetRoles
<1>6. CASE CreateKcUser(t)
  BY <1>0, <1>6 DEF CreateKcUser, Call, TypeOK
<1>7. CASE UpdateKcUser(t)
  <2>1. /\ At(t, "update") /\ u = proc[t].id
        /\ acc'[u].email = proc[t].email /\ acc'[u].found /\ acc'[u].roles = acc[u].roles
    BY <1>0, <1>1, <1>7 DEF UpdateKcUser, Call, TypeOK, Account
  <2>2. t = u \/ (<<t, u>> \in Inside /\ ~acc[t].found)
    BY <1>0, <1>3, <2>1, Running DEF Sound, At, Steps
  <2>3. QED
    BY <2>1, <2>2
<1>8. CASE RemoveRoles(t)
  <2>1. /\ At(t, "remove") /\ acc'[u].roles = acc[u].roles \ proc[t].drop
        /\ acc'[u].email = acc[u].email
    BY <1>0, <1>1, <1>8 DEF RemoveRoles, Call, TypeOK, Account
  <2>2. "other" \notin proc[t].drop
    BY <1>0, <1>3, <2>1, Running, KeycloakAssumption DEF Sound, At, Steps
  <2>3. QED
    BY <2>1, <2>2
<1>9. CASE AddRoles(t)
  <2>1. "other" \in acc[u].roles => "other" \in acc'[u].roles
    BY <1>0, <1>1, <1>9 DEF AddRoles, Call, TypeOK, Account
  <2>2. acc'[u].email = acc[u].email
    BY <1>0, <1>1, <1>9 DEF AddRoles, Call, TypeOK, Account
  <2>3. QED
    BY <2>1, <2>2
<1>10. CASE DeleteUser(t)
  <2>1. At(t, "delete") /\ u = proc[t].id /\ acc'[u] = NoAccount
    BY <1>0, <1>10 DEF DeleteUser, TypeOK
  <2>2. want[t].del /\ (t = u \/ (<<t, u>> \in Inside /\ ~acc[t].found))
    BY <1>0, <1>3, <2>1, Running DEF Sound, At, Steps
  <2>3. QED
    BY <2>1, <2>2 DEF NoAccount
<1>11. QED
  BY <1>2, <1>4, <1>5, <1>6, <1>7, <1>8, <1>9, <1>10 DEF Reconcile

(* No step deletes or renames the account of a tenant for the sake of      *)
(* another one that has an account of its own, and none takes a role that  *)
(* is not of a workspace (OwnAccountFirst).                                *)
THEOREM OwnAccountIsKept == Spec => OwnAccountFirst
<1> DEFINE Own ==
      \A u \in Tenants :
        /\ acc[u].found /\ acc'[u].email # acc[u].email =>
             \E t \in Tenants :
               /\ t = u \/ (<<t, u>> \in Inside /\ ~acc[t].found)
               /\ IF acc'[u].found THEN At(t, "update") /\ acc'[u].email = proc[t].email
                  ELSE At(t, "delete") /\ want[t].del
        /\ "other" \in acc[u].roles /\ acc'[u].found => "other" \in acc'[u].roles
<1>1. Inv /\ [Next]_vars => [Own]_vars
  BY OwnAccountStep
<1>2. QED
  BY <1>1, InvHolds, PTL DEF Spec, OwnAccountFirst

-----------------------------------------------------------------------------
(* Nextcloud *)

(* A reconciliation about to set a password found no Secret,    *)
(* and until it is done nobody else makes one.                             *)
NcProc == [pc : N!Steps, name : Names, shown : Names \cup {"none"}, psw : N!Passwords \cup {0}]
NcUser == [found : {TRUE}, psw : N!Passwords, name : Names]

NcInv ==
  /\ name \in Names
  /\ user \in NcUser \cup {N!NoUser}
  /\ ncProc \in NcProc \cup {N!Idle}
  /\ ncProc.pc \in {"password", "create"} => ncProc.psw \in N!Passwords
  /\ ncProc.pc = "password" => secret = 0 \/ suspect

(* Of four passwords one is none of the three in use.                      *)
LEMMA PasswordsLast == N!NewPassword \in N!Passwords
<1>1. \E p \in N!Passwords : p \notin {user.psw, secret, cache}
  BY DEF N!Passwords
<1>2. QED
  BY <1>1 DEF N!NewPassword

(* An account that exists has a password and a name.                       *)
LEMMA NcExisting == NcInv /\ user.found => user \in NcUser
<1>1. ~N!NoUser.found
  BY DEF N!NoUser
<1>2. QED
  BY <1>1 DEF NcInv

(* Every step of a reconciliation, and of anybody else, keeps it so.       *)
LEMMA NcStep == NcInv /\ [N!Next]_(N!vars) => NcInv'
<1> SUFFICES ASSUME NcInv, [N!Next]_(N!vars) PROVE NcInv'
  OBVIOUS
<1>1. CASE UNCHANGED N!vars
  BY <1>1 DEF N!vars, NcInv
<1>2. CASE N!Rename \/ N!DeleteSecret \/ N!DeleteAccount \/ N!WatchSecret \/ N!Requeue
  BY <1>2 DEF NcInv, N!Rename, N!DeleteSecret, N!DeleteAccount, N!WatchSecret, N!Requeue, N!Edit
<1>3. CASE N!Start
  BY <1>3 DEF NcInv, N!Start, NcProc, N!Steps
<1>4. CASE N!GetUser \/ N!GetSecret
  <2>1. ncProc \in NcProc /\ UNCHANGED <<name, user, secret, cache>>
    BY <1>4 DEF NcInv, N!GetUser, N!GetSecret, N!At, N!Idle
  <2>2. ncProc' \in NcProc \cup {N!Idle}
    <3>1. user.found => user.name \in Names
      BY NcExisting DEF NcUser
    <3>2. QED
      BY <1>4, <2>1, <3>1, PasswordsLast
        DEF N!GetUser, N!GetSecret, N!Goto, N!Return, N!ReturnError, NcProc, N!Steps
  <2>3. N!GetUser => /\ ncProc'.pc \in {"secret", "create", "idle"}
                     /\ ncProc'.pc = "create" => ncProc'.psw = N!NewPassword
    <3>1. N!GetUser => \/ ncProc' = [ncProc EXCEPT !.pc = "secret", !.shown = user.name]
                       \/ ncProc' = [ncProc EXCEPT !.pc = "create", !.psw = N!NewPassword]
                       \/ ncProc' = N!Idle
      BY DEF N!GetUser, N!ReturnError
    <3>2. CASE ncProc' = [ncProc EXCEPT !.pc = "secret", !.shown = user.name]
      BY <2>1, <3>2 DEF NcProc
    <3>3. CASE ncProc' = [ncProc EXCEPT !.pc = "create", !.psw = N!NewPassword]
      BY <2>1, <3>3 DEF NcProc
    <3>4. CASE ncProc' = N!Idle
      BY <3>4 DEF N!Idle
    <3>5. QED
      BY <3>1, <3>2, <3>3, <3>4, Zenon
  <2>4. N!GetSecret => /\ ncProc'.pc \in {"password", "name", "idle"}
                       /\ ncProc'.pc = "password" => cache = 0 /\ ncProc'.psw = N!NewPassword
    <3>1. ASSUME N!GetSecret, cache = 0
          PROVE  ncProc'.pc = "password" /\ ncProc'.psw = N!NewPassword
      BY <2>1, <3>1 DEF N!GetSecret, NcProc
    <3>2. ASSUME N!GetSecret, cache # 0 PROVE ncProc'.pc \in {"name", "idle"}
      BY <2>1, <3>2 DEF N!GetSecret, N!Goto, N!Return, N!Idle, NcProc
    <3>3. QED
      BY <3>1, <3>2
  <2>5. N!GetSecret /\ cache = 0 => secret = 0 \/ suspect'
    BY Zenon DEF N!GetSecret
  <2>6. QED
    BY <1>4, <2>1, <2>2, <2>3, <2>4, <2>5, PasswordsLast DEF NcInv
<1>5. CASE N!UpdatePassword \/ N!CreateUser \/ N!StoreSecret \/ N!UpdateName
  <2>1. ncProc \in NcProc /\ name' = name
    BY <1>5 DEF NcInv, N!UpdatePassword, N!CreateUser, N!StoreSecret, N!UpdateName, N!At, N!Idle
  <2>2. ncProc' \in NcProc \cup {N!Idle} /\ ncProc'.pc \notin {"password", "create"}
    BY <1>5, <2>1
      DEF N!UpdatePassword, N!CreateUser, N!StoreSecret, N!UpdateName, N!CallUser, N!Goto,
          N!Return, N!ReturnError, N!Idle, NcProc, N!Steps
  <2>3. CASE N!StoreSecret
    BY <2>1, <2>2, <2>3 DEF NcInv, N!StoreSecret
  <2>4. CASE N!CreateUser
    <3>1. user' = user \/ user' \in NcUser
      <4>1. ncProc.psw \in N!Passwords /\ ncProc.name \in Names
        BY <2>1, <2>4 DEF N!CreateUser, NcProc, NcInv, N!At
      <4>2. [found |-> TRUE, psw |-> ncProc.psw, name |-> ncProc.name] \in NcUser
        BY <4>1 DEF NcUser
      <4>3. QED
        BY <2>4, <4>2 DEF N!CreateUser, N!CallUser
    <3>2. QED
      BY <2>1, <2>2, <3>1 DEF NcInv
  <2>5. CASE N!UpdatePassword \/ N!UpdateName
    <3>1. user' = user \/ user' \in NcUser
      BY <2>1, <2>5, NcExisting
        DEF N!UpdatePassword, N!UpdateName, N!CallUser, NcUser, NcProc, NcInv, N!At
    <3>2. QED
      BY <2>1, <2>2, <3>1 DEF NcInv
  <2>6. QED
    BY <1>5, <2>3, <2>4, <2>5
<1>6. QED
  BY <1>1, <1>2, <1>3, <1>4, <1>5 DEF N!Next, N!Reconcile

(* Only an account without Secret, or with one that the cache hid, is      *)
(* given another password (KeepsPassword).                                 *)
THEOREM PasswordIsKept == N!Spec => KeepsPassword
<1>1. N!Init => NcInv
  BY DEF N!Init, NcInv, N!Idle
<1>2. NcInv /\ [N!Next]_(N!vars) =>
        [user.found /\ user'.found /\ user'.psw # user.psw => secret = 0 \/ suspect]_(N!vars)
  <2> SUFFICES ASSUME NcInv, N!Next, user.found, user'.found, user'.psw # user.psw
               PROVE  secret = 0 \/ suspect
    OBVIOUS
  <2>1. user \in NcUser
    BY NcExisting
  <2>2. ~N!UpdateName /\ ~N!CreateUser
    BY <2>1 DEF NcUser, N!UpdateName, N!CreateUser, N!CallUser
  <2>3. CASE N!UpdatePassword
    BY <2>3 DEF N!UpdatePassword, N!At, NcInv
  <2>4. QED
    BY <2>2, <2>3
      DEF N!Next, N!Reconcile, N!Rename, N!DeleteSecret, N!DeleteAccount, N!WatchSecret, N!Requeue,
          N!Start, N!GetUser, N!GetSecret, N!StoreSecret, N!NoUser
<1>3. QED
  BY <1>1, <1>2, NcStep, PTL DEF N!Spec, KeepsPassword, N!KeepsPassword
=============================================================================
