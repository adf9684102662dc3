------------------------------ MODULE Accounts ------------------------------
(***************************************************************************)
(* The accounts of tenants outside the cluster. Keycloak and Nextcloud are *)
(* reconciled one after the other and share no state: a behaviour is about *)
(* one of the two systems, the other being left alone.                     *)
(***************************************************************************)
EXTENDS KeycloakUsers

CONSTANTS Names, NcOps, NcFaults

VARIABLES system, name, user, secret, cache, event, queued, ncProc, suspect, ncFaults, ncOps

N == INSTANCE Nextcloud WITH proc <- ncProc, faults <- ncFaults, ops <- ncOps,
                             MaxOps <- NcOps, MaxFaults <- NcFaults

ncVars == <<name, user, secret, cache, event, queued, ncProc, suspect, ncFaults, ncOps>>

accountVars == <<system, vars, ncVars>>

AccountsInit ==
  /\ system \in {"keycloak", "nextcloud"}
  /\ Init /\ N!Init
  /\ system = "keycloak" => name = CHOOSE n \in Names : TRUE

Nextcloud(Action) == system = "nextcloud" /\ Action /\ UNCHANGED <<system, vars>>

AccountsNext ==
  \/ system = "keycloak" /\ Next /\ UNCHANGED <<system, ncVars>>
  \/ Nextcloud(N!Next)

(* The worker, the watch and the RequeueAfter timer keep going. *)
AccountsSpec ==
  /\ AccountsInit /\ [][AccountsNext]_accountVars
  /\ WF_accountVars(Nextcloud(N!Reconcile))
  /\ WF_accountVars(Nextcloud(N!WatchSecret))
  /\ WF_accountVars(Nextcloud(N!Requeue))

-----------------------------------------------------------------------------
(* A password in use is not changed (Nextcloud, the property of that name).*)
KeepsPassword == N!KeepsPassword

(* Account, Secret and display name converge, and removing the Secret is   *)
(* always a remedy (Nextcloud, the property of that name).                 *)
CredentialsConverge == system = "nextcloud" => N!CredentialsConverge
=============================================================================
