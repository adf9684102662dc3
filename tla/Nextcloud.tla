------------------------------ MODULE Nextcloud ------------------------------
(***************************************************************************)
(* The Nextcloud half of a tenant's reconciliation in full                 *)
(* (handleNextcloudSubscription and nextcloud_utils.go): the account at    *)
(* the Nextcloud server and the Secret nextcloud-credentials, which the    *)
(* tenant uses to mount the account, must hold the same password. They     *)
(* live in two systems and are written one after the other, the Secret is  *)
(* read through the operator's cache, and the account's password can be    *)
(* set but not read.                                                       *)
(*                                                                         *)
(* A generated password differs from every one in use: Passwords has one   *)
(* member more than there are places that hold one. suspect records that,  *)
(* since the Secret was last removed by somebody, a reconciliation met one *)
(* of the two situations from which the code may not recover: an account   *)
(* is missing and its Secret is not, or a Secret exists and the cache does *)
(* not show it yet.                                                        *)
(* MaxOps caps the number of edits people make and MaxFaults that of the   *)
(* calls that fail.                                                        *)
(***************************************************************************)
EXTENDS Naturals

CONSTANTS Names, MaxOps, MaxFaults

VARIABLES
  name,            \* the tenant's name, from which the display name is made
  user,            \* the account: whether it exists, its password and display name
  secret, cache,   \* the password in the Secret and in the cached one, 0 without Secret
  event,           \* a watch event of the Secret is under way
  queued, proc,    \* whether the tenant is in the work queue, and its reconciliation
  suspect,
  faults, ops

vars == <<name, user, secret, cache, event, queued, proc, suspect, faults, ops>>

Passwords == 1 .. 4

NoUser == [found |-> FALSE, psw |-> 0, name |-> "none"]

Steps == {"user", "secret", "password", "create", "store", "name"}

Idle == [pc |-> "idle"]

(* The variables have their types; in particular every account has a       *)
(* password and shows the name of a tenant (CreateUser, UpdateUserData).   *)
TypeOK ==
  /\ name \in Names
  /\ user \in [found : {TRUE}, psw : Passwords, name : Names] \cup {NoUser}
  /\ secret \in Passwords \cup {0} /\ cache \in Passwords \cup {0} /\ event \in BOOLEAN
  /\ queued \in BOOLEAN /\ suspect \in BOOLEAN
  /\ proc \in [pc : Steps, name : Names, shown : Names \cup {"none"},
               psw : Passwords \cup {0}] \cup {Idle}
  /\ faults \in 0 .. MaxFaults /\ ops \in 0 .. MaxOps

Init ==
  /\ name \in Names /\ user = NoUser /\ secret = 0 /\ cache = 0 /\ event = FALSE
  /\ queued = TRUE /\ proc = Idle /\ suspect = FALSE /\ faults = MaxFaults /\ ops = MaxOps

-----------------------------------------------------------------------------
(* People and the cluster *)

Edit == ops > 0 /\ ops' = ops - 1 /\ UNCHANGED <<cache, proc, faults>>

Rename ==
  /\ Edit /\ name' \in Names \ {name} /\ queued' = TRUE
  /\ UNCHANGED <<user, secret, event, suspect>>

(* Somebody removes the Secret to be given a new password ... *)
DeleteSecret ==
  /\ Edit /\ secret # 0 /\ secret' = 0 /\ event' = TRUE /\ suspect' = FALSE
  /\ UNCHANGED <<name, user, queued>>

(* ... or the account, at the Nextcloud server: no event tells of it. *)
DeleteAccount ==
  /\ Edit /\ user.found /\ user' = NoUser
  /\ UNCHANGED <<name, secret, event, queued, suspect>>

Settled == ~queued /\ ~event /\ proc = Idle

WatchSecret ==
  /\ event /\ event' = FALSE /\ cache' = secret /\ queued' = TRUE
  /\ UNCHANGED <<name, user, secret, proc, suspect, faults, ops>>

(* The RequeueAfter of the last reconciliation falls due, hours later, when *)
(* the watch has long caught up.                                           *)
Requeue ==
  /\ Settled /\ queued' = TRUE
  /\ UNCHANGED <<name, user, secret, cache, event, proc, suspect, faults, ops>>

-----------------------------------------------------------------------------
(* The reconciliation *)

Fault == faults > 0 /\ faults' = faults - 1

At(pc) == proc.pc = pc

Goto(pc) == proc' = [proc EXCEPT !.pc = pc] /\ UNCHANGED queued

Return == proc' = Idle /\ UNCHANGED queued

ReturnError == proc' = Idle /\ queued' = TRUE

NewPassword == CHOOSE p \in Passwords : p \notin {user.psw, secret, cache}

(* A call that changes the account to new, which the server refuses        *)
(* without cond: done, refused, lost, or done with the answer lost.        *)
CallUser(cond, new, next) ==
  \/ cond /\ user' = new /\ next /\ UNCHANGED faults
  \/ ~cond /\ ReturnError /\ UNCHANGED <<user, faults>>
  \/ Fault /\ ReturnError /\ (UNCHANGED user \/ (cond /\ user' = new))

Start ==
  /\ queued /\ proc = Idle /\ queued' = FALSE
  /\ proc' = [pc |-> "user", name |-> name, shown |-> "none", psw |-> 0]
  /\ UNCHANGED <<name, user, secret, cache, event, suspect, faults, ops>>

GetUser ==
  /\ At("user") /\ suspect' = (suspect \/ (~user.found /\ secret # 0))
  /\ \/ /\ user.found /\ UNCHANGED <<faults, queued>>
        /\ proc' = [proc EXCEPT !.pc = "secret", !.shown = user.name]
     \/ /\ ~user.found /\ UNCHANGED <<faults, queued>>
        /\ proc' = [proc EXCEPT !.pc = "create", !.psw = NewPassword]
     \/ Fault /\ ReturnError
  /\ UNCHANGED <<name, user, secret, cache, event, ops>>

(* variant: the password is renewed at every reconciliation *)
GetSecret_always ==
  /\ At("secret") /\ proc' = [proc EXCEPT !.pc = "password", !.psw = NewPassword]
  /\ UNCHANGED <<name, user, secret, cache, event, queued, suspect, faults, ops>>

(* variant: a missing Secret is made again without setting the password *)
GetSecret_unset ==
  /\ At("secret")
  /\ IF cache = 0
     THEN proc' = [proc EXCEPT !.pc = "store", !.psw = NewPassword] /\ UNCHANGED queued
     ELSE Return
  /\ UNCHANGED <<name, user, secret, cache, event, suspect, faults, ops>>

GetSecret ==
  /\ At("secret") /\ suspect' = (suspect \/ (cache = 0 /\ secret # 0))
  /\ CASE cache = 0 -> /\ proc' = [proc EXCEPT !.pc = "password", !.psw = NewPassword]
                       /\ UNCHANGED queued
       [] cache # 0 /\ proc.shown # proc.name -> Goto("name")
       [] OTHER -> Return
  /\ UNCHANGED <<name, user, secret, cache, event, faults, ops>>

(* UpdateUserData(password) *)
UpdatePassword ==
  /\ At("password") /\ CallUser(user.found, [user EXCEPT !.psw = proc.psw], Goto("store"))
  /\ UNCHANGED <<name, secret, cache, event, suspect, ops>>

CreateUser ==
  /\ At("create")
  /\ CallUser(~user.found, [found |-> TRUE, psw |-> proc.psw, name |-> proc.name], Goto("store"))
  /\ UNCHANGED <<name, secret, cache, event, suspect, ops>>

(* CreateOrUpdate reads the cache: an Update needs the cached copy to be   *)
(* the current one, a Create that there is no Secret.                      *)
StoreSecret ==
  /\ At("store")
  /\ LET accepted == IF cache # 0 THEN ~event ELSE secret = 0
         stored == secret' = proc.psw /\ event' = TRUE
     IN \/ accepted /\ stored /\ Return /\ UNCHANGED faults
        \/ ~accepted /\ ReturnError /\ UNCHANGED <<secret, event, faults>>
        \/ Fault /\ ReturnError /\ (UNCHANGED <<secret, event>> \/ (accepted /\ stored))
  /\ UNCHANGED <<name, user, cache, suspect, ops>>

(* UpdateUserData(displayname) *)
UpdateName ==
  /\ At("name") /\ CallUser(user.found, [user EXCEPT !.name = proc.name], Return)
  /\ UNCHANGED <<name, secret, cache, event, suspect, ops>>

Reconcile ==
  \/ Start \/ GetUser \/ GetSecret \/ UpdatePassword \/ CreateUser \/ StoreSecret
  \/ UpdateName

Next == Rename \/ DeleteSecret \/ DeleteAccount \/ WatchSecret \/ Requeue \/ Reconcile

Spec == Init /\ [][Next]_vars

-----------------------------------------------------------------------------
(* handleNextcloudSubscription never changes the password of an account    *)
(* that has its Secret, so mounts made with it keep working, unless the    *)
(* cache hid that Secret.                                                  *)
KeepsPassword ==
  [][user.found /\ user'.found /\ user'.psw # user.psw => secret = 0 \/ suspect]_vars

(* Whatever calls fail half way, whatever is renamed or removed, in        *)
(* Nextcloud or in the cluster, the tenant ends up with an account that    *)
(* shows its name, and with the Secret of that account; and removing the   *)
(* Secret is always a remedy, as SetupWithManager says (the credentials    *)
(* are right unless they became suspect after it).                         *)
CredentialsConverge ==
  /\ []TypeOK
  /\ <>[](user.found /\ user.name = name /\ secret # 0 /\ (suspect \/ secret = user.psw))
=============================================================================
