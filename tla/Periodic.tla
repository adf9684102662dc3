------------------------------ MODULE Periodic ------------------------------
(***************************************************************************)
(* The three activities of CrownLabs that a timer starts: the renewal of   *)
(* the Keycloak token, the deletion of stale instances and the update of   *)
(* the list of images. They share no state: a behaviour is about one of    *)
(* them, the others being left alone.                                      *)
(***************************************************************************)
EXTENDS KeycloakToken

CONSTANTS Names, Jobs, Spans, Unit, MaxAge, MaxOps, MaxFaults, None, Repos, Tags, ListOps, ListFaults, NoList

VARIABLES system, inst, tmpl, job, faults, ops, registry, saved, proc, listFaults, listOps

S == INSTANCE StaleInstances

ASSUME StaleAssumption ==
  /\ MaxAge \in Nat /\ None \notin Names /\ \A s \in Spans : S!ConvertToTime(s) \in Nat

I == INSTANCE ImageList WITH faults <- listFaults, ops <- listOps, MaxOps <- ListOps,
                             MaxFaults <- ListFaults

staleVars == <<inst, tmpl, job, faults, ops>>

listVars == <<registry, saved, proc, listFaults, listOps>>

periodicVars == <<system, vars, staleVars, listVars>>

PeriodicInit ==
  /\ system \in {"token", "stale", "images"}
  /\ Init /\ S!Init /\ I!Init
  /\ system # "token" => left = Lifetime
  /\ system # "stale" => tmpl = [n \in Names |-> CHOOSE s \in Spans : TRUE]
  /\ system # "images" => registry = [r \in Repos |-> {}]

Stale(Action) == system = "stale" /\ Action /\ UNCHANGED <<system, vars, listVars>>

Images(Action) == system = "images" /\ Action /\ UNCHANGED <<system, vars, staleVars>>

PeriodicNext ==
  \/ system = "token" /\ Next /\ UNCHANGED <<system, staleVars, listVars>>
  \/ Stale(S!Next)
  \/ Images(I!Next)

(* Time passes, the CronJob starts a job again and again, and the          *)
(* scheduler of the image list keeps running updates.                      *)
PeriodicSpec ==
  /\ PeriodicInit /\ [][PeriodicNext]_periodicVars
  /\ WF_periodicVars(Stale(S!Time))
  /\ \A j \in Jobs : WF_periodicVars(Stale(S!Run(j)))
  /\ WF_periodicVars(Images(I!Update))

-----------------------------------------------------------------------------
(* A job deletes only what the instance it listed had outlived             *)
(* (StaleInstances, the property of that name).                            *)
OnlyExpiredDeleted == S!OnlyExpiredDeleted

(* In the end no instance is left whose template says when to delete it    *)
(* (StaleInstances, the property of that name).                            *)
StaleInstancesGo == S!StaleInstancesGo

(* In the end the object lists exactly the images of the registry          *)
(* (ImageList, the property of that name).                                 *)
ListConverges == system = "images" => I!ListConverges
=============================================================================
