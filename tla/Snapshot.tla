------------------------------- MODULE Snapshot -------------------------------
(***************************************************************************)
(* The InstanceSnapshot controller (pkg/instancesnapshot-controller), for  *)
(* one InstanceSnapshot name. The snapshot is handled by a Job of the same *)
(* name, which exports the disk of a persistent VM and pushes it as an     *)
(* image. snap and job are the objects at the API server, a uid tells      *)
(* apart the snapshots created in turn under the name. eligible says       *)
(* whether the referenced VM may be snapshotted (it exists, is persistent  *)
(* and is off). seen holds what the controller's caches show of the three. *)
(* fresh is the set of copies of the snapshot that are the current version *)
(* (see Cluster). images are the uids whose image is in the registry.      *)
(*                                                                         *)
(* Bounds: MaxUid snapshots, MaxOps actions of people, MaxFaults failed    *)
(* calls and crashes.                                                      *)
(***************************************************************************)
EXTENDS Naturals

CONSTANTS MaxUid, MaxOps, MaxFaults

ASSUME SnapshotAssumption ==
  MaxUid \in Nat /\ MaxOps \in Nat /\ MaxFaults \in Nat

VARIABLES snap, fresh, job, eligible, seen, images, queued, proc, uids, faults, ops

vars == <<snap, fresh, job, eligible, seen, images, queued, proc, uids, faults, ops>>

Phases == {"none", "Pending", "Processing", "Completed", "Failed"}
Uids == 0 .. MaxUid           \* 0: no object
JobStates == {"running", "complete", "failed"}

SnapObj == [uid : Uids, phase : Phases]
JobObj == [owner : Uids, st : JobStates]

NoSnap == [uid |-> 0, phase |-> "none"]
NoJob == [owner |-> 0, st |-> "failed"]

Steps == {"idle", "job", "pending", "validate", "fail", "create", "processing", "finish"}

(* The reconciliation in flight: the uid of its copy of the snapshot and   *)
(* the phase it is to report for the job it found.                         *)
Proc == [pc : Steps, uid : Uids, report : Phases]
Idle == [pc |-> "idle", uid |-> 0, report |-> "none"]

(* spec is false while an edit of the specification, and events is true    *)
(* while a change of the job, has still to be delivered.                   *)
SeenObj == [uid : Uids, spec : BOOLEAN, job : JobObj, events : BOOLEAN, eligible : BOOLEAN]

Init ==
  /\ snap = NoSnap /\ fresh = {"cache"} /\ job = NoJob
  /\ eligible \in BOOLEAN
  /\ seen = [uid |-> 0, spec |-> TRUE, job |-> NoJob, events |-> FALSE, eligible |-> eligible]
  /\ images = {} /\ queued = FALSE /\ proc = Idle /\ uids = 0
  /\ faults = MaxFaults /\ ops = MaxOps

Fault == faults > 0 /\ faults' = faults - 1

-----------------------------------------------------------------------------
(* People *)

StoreJob(new) == job' = new /\ seen' = [seen EXCEPT !.events = TRUE]

Edit == ops > 0 /\ ops' = ops - 1

UserCreate ==
  /\ snap = NoSnap /\ uids < MaxUid
  /\ uids' = uids + 1 /\ snap' = [uid |-> uids', phase |-> "none"] /\ fresh' = {}
  /\ UNCHANGED <<job, eligible, seen, images, queued, proc, faults, ops>>

(* An edit of the specification, the only kind of update that is not       *)
(* filtered out by the GenerationChangedPredicate.                         *)
UserEdit ==
  /\ snap # NoSnap /\ Edit /\ fresh' = {} /\ seen' = [seen EXCEPT !.spec = FALSE]
  /\ UNCHANGED <<snap, job, eligible, images, queued, proc, uids, faults>>

UserDelete ==
  /\ snap # NoSnap /\ Edit /\ snap' = NoSnap /\ fresh' = {}
  /\ UNCHANGED <<job, eligible, seen, images, queued, proc, uids, faults>>

UserPower ==
  /\ Edit /\ eligible' = ~eligible
  /\ UNCHANGED <<snap, fresh, job, seen, images, queued, proc, uids, faults>>

UserDeleteJob ==
  /\ job # NoJob /\ Edit /\ StoreJob(NoJob)
  /\ UNCHANGED <<snap, fresh, eligible, images, queued, proc, uids, faults>>

-----------------------------------------------------------------------------
(* Kubernetes: the job runs and ends, a job whose owner is gone is garbage *)
(* collected, and watches bring the caches up to date. A status update of  *)
(* the snapshot does not queue it, any change of its job does.             *)

JobEnd ==
  /\ job # NoJob /\ job.st = "running"
  /\ \/ StoreJob([job EXCEPT !.st = "complete"]) /\ images' = images \cup {job.owner}
     \/ StoreJob([job EXCEPT !.st = "failed"]) /\ UNCHANGED images
  /\ UNCHANGED <<snap, fresh, eligible, queued, proc, uids, faults, ops>>

CollectJob ==
  /\ job # NoJob /\ job.owner # snap.uid /\ StoreJob(NoJob)
  /\ UNCHANGED <<snap, fresh, eligible, images, queued, proc, uids, faults, ops>>

WatchSnap ==
  /\ "cache" \notin fresh /\ fresh' = fresh \cup {"cache"}
  /\ seen' = [seen EXCEPT !.uid = snap.uid, !.spec = TRUE]
  /\ queued' = (queued \/ snap.uid # seen.uid \/ ~seen.spec)
  /\ UNCHANGED <<snap, job, eligible, images, proc, uids, faults, ops>>

WatchJob ==
  /\ seen.events /\ seen' = [seen EXCEPT !.job = job, !.events = FALSE] /\ queued' = TRUE
  /\ UNCHANGED <<snap, fresh, job, eligible, images, proc, uids, faults, ops>>

WatchVm ==
  /\ eligible # seen.eligible /\ seen' = [seen EXCEPT !.eligible = eligible]
  /\ UNCHANGED <<snap, fresh, job, eligible, images, queued, proc, uids, faults, ops>>

(* After a crash every snapshot found is queued. *)
Restart ==
  /\ Fault /\ proc' = Idle /\ fresh' = {"cache"} /\ queued' = (snap # NoSnap \/ job # NoJob)
  /\ seen' = [uid |-> snap.uid, spec |-> TRUE, job |-> job, events |-> FALSE,
             eligible |-> eligible]
  /\ UNCHANGED <<snap, job, eligible, images, uids, ops>>

-----------------------------------------------------------------------------
(* The reconciler *)

At(pc) == proc.pc = pc

Goto(pc) == proc' = [proc EXCEPT !.pc = pc] /\ UNCHANGED queued

Done == proc' = Idle /\ UNCHANGED queued

Retry == proc' = Idle /\ queued' = TRUE

(* Status().Update with the reconciler's copy: stored, refused, lost, or   *)
(* stored with the answer lost.                                            *)
Report(phase, ok) ==
  LET stored(hs) ==
        /\ "copy" \in fresh /\ snap' = [snap EXCEPT !.phase = phase]
        /\ fresh' = IF snap.phase = phase THEN fresh ELSE hs
  IN \/ ok /\ stored({"copy"}) /\ UNCHANGED faults
     \/ ~ok /\ "copy" \notin fresh /\ UNCHANGED <<snap, fresh, faults>>
     \/ ~ok /\ Fault /\ (UNCHANGED <<snap, fresh>> \/ stored({}))

SnapGet ==
  /\ queued /\ At("idle")
  /\ IF seen.uid = 0
     THEN proc' = Idle /\ queued' = FALSE /\ UNCHANGED <<fresh, faults>>
     ELSE \/ /\ proc' = [pc |-> "job", uid |-> seen.uid, report |-> "none"]
             /\ queued' = FALSE /\ UNCHANGED faults
             /\ fresh' = IF "cache" \in fresh THEN fresh \cup {"copy"} ELSE fresh \ {"copy"}
          \/ Fault /\ UNCHANGED <<proc, queued, fresh>>
  /\ UNCHANGED <<snap, job, eligible, seen, images, uids, ops>>

(* variant: a failed job is reported as completed *)
SnapFindJob_anyEnd ==
  /\ At("job")
  /\ IF seen.job = NoJob THEN Goto("pending")
     ELSE IF seen.job.st = "running" THEN Done
     ELSE proc' = [proc EXCEPT !.pc = "finish", !.report = "Completed"] /\ UNCHANGED queued
  /\ UNCHANGED <<snap, fresh, job, eligible, seen, images, uids, faults, ops>>

(* The job is looked for by name. One that has ended is to be reported; a  *)
(* running one is left alone.                                              *)
SnapFindJob ==
  /\ At("job")
  /\ \/ /\ UNCHANGED faults
        /\ IF seen.job = NoJob THEN Goto("pending")
           ELSE IF seen.job.st = "running" THEN Done
           ELSE /\ proc' = [proc EXCEPT !.pc = "finish",
                              !.report = IF seen.job.st = "complete" THEN "Completed" ELSE "Failed"]
                /\ UNCHANGED queued
     \/ Fault /\ Retry
  /\ UNCHANGED <<snap, fresh, job, eligible, seen, images, uids, ops>>

(* variant: a failed report is logged and not retried *)
SnapFinish_logOnly ==
  /\ At("finish")
  /\ \E ok \in BOOLEAN : Report(proc.report, ok) /\ Done
  /\ UNCHANGED <<job, eligible, seen, images, uids, ops>>

SnapFinish ==
  /\ At("finish")
  /\ \E ok \in BOOLEAN : Report(proc.report, ok) /\ IF ok THEN Done ELSE Retry
  /\ UNCHANGED <<job, eligible, seen, images, uids, ops>>

SnapPending ==
  /\ At("pending")
  /\ \E ok \in BOOLEAN : Report("Pending", ok) /\ IF ok THEN Goto("validate") ELSE Retry
  /\ UNCHANGED <<job, eligible, seen, images, uids, ops>>

(* ValidateRequest reads the instance and its template from the cache. *)
SnapValidate ==
  /\ At("validate")
  /\ \/ Goto(IF seen.eligible THEN "create" ELSE "fail") /\ UNCHANGED faults
     \/ Fault /\ Retry
  /\ UNCHANGED <<snap, fresh, job, eligible, seen, images, uids, ops>>

(* variant: an invalid request is an error like any other *)
SnapFail_retry ==
  At("fail") /\ Retry /\ UNCHANGED <<snap, fresh, job, eligible, seen, images, uids, faults, ops>>

(* An invalid request is not tried again. *)
SnapFail ==
  /\ At("fail")
  /\ \E ok \in BOOLEAN : Report("Failed", ok) /\ IF ok THEN Done ELSE Retry
  /\ UNCHANGED <<job, eligible, seen, images, uids, ops>>

(* The job is named after the snapshot and owned by it; a name already     *)
(* taken, or an instance that is gone by now, is an error.                 *)
SnapCreate ==
  /\ At("create")
  /\ LET created == job = NoJob /\ StoreJob([owner |-> proc.uid, st |-> "running"])
     IN \/ created /\ Goto("processing") /\ UNCHANGED faults
        \/ (job # NoJob \/ ~seen.eligible) /\ Retry /\ UNCHANGED <<job, seen, faults>>
        \/ Fault /\ Retry /\ (created \/ UNCHANGED <<job, seen>>)
  /\ UNCHANGED <<snap, fresh, eligible, images, uids, ops>>

SnapProcessing ==
  /\ At("processing")
  /\ \E ok \in BOOLEAN : Report("Processing", ok) /\ IF ok THEN Done ELSE Retry
  /\ UNCHANGED <<job, eligible, seen, images, uids, ops>>

SnapRun == \/ SnapFindJob \/ SnapFinish \/ SnapPending \/ SnapValidate
           \/ SnapFail \/ SnapCreate \/ SnapProcessing

Next == \/ UserCreate \/ UserEdit \/ UserDelete \/ UserPower \/ UserDeleteJob
        \/ JobEnd \/ CollectJob \/ WatchSnap \/ WatchJob \/ WatchVm \/ Restart
        \/ SnapGet \/ SnapRun

Spec == Init /\ [][Next]_vars

(* The controller and the watches go on and a job ends; nobody is obliged  *)
(* to do anything.                                                         *)
Fairness == /\ WF_vars(SnapGet) /\ WF_vars(SnapRun)
            /\ WF_vars(WatchSnap) /\ WF_vars(WatchJob) /\ WF_vars(WatchVm)
            /\ WF_vars(JobEnd) /\ WF_vars(CollectJob)

FairSpec == Spec /\ Fairness

-----------------------------------------------------------------------------
(* Every variable keeps its type (Reconcile, CreateSnapshottingJob,        *)
(* HandleExistingJob).                                                     *)
TypeOK ==
  /\ snap \in SnapObj /\ fresh \in SUBSET {"cache", "copy"} /\ job \in JobObj
  /\ eligible \in BOOLEAN /\ seen \in SeenObj /\ images \in SUBSET Uids
  /\ queued \in BOOLEAN /\ proc \in Proc /\ uids \in Uids
  /\ faults \in Nat /\ ops \in Nat

(* The controller has seen everything and has nothing left to do. *)
Settled == /\ ~queued /\ At("idle")
           /\ "cache" \in fresh /\ ~seen.events

(* No end is missed: once nothing is pending, the phase of a snapshot      *)
(* tells how its job ended, and one without a job is Failed, whatever      *)
(* calls were lost, caches late or jobs deleted by hand in between         *)
(* (instancesnapshot_controller.go:99).                                    *)
SettledPhase ==
  /\ TypeOK
  /\ Settled /\ snap # NoSnap /\ job.owner \in {0, snap.uid} /\ (job # NoJob => job.st # "running")
       => snap.phase = IF job.st = "complete" THEN "Completed" ELSE "Failed"

Promise == INSTANCE SnapshotPromise
  WITH phase <- snap.phase, image <- images # {}, record <- job.st = "complete"

(* The controller keeps the promise of SnapshotPromise: Completed is       *)
(* reported only with an image of that name in the registry and not taken  *)
(* back while the completed job is there, not by a retry, a stale cache, a *)
(* restart or a new snapshot of that name (instancesnapshot_logic.go:66).  *)
KeepsPromise == Promise!Spec

(* Every snapshot is reported Completed or Failed, or deleted.             *)
(* (instancesnapshot_controller.go:145: status updates do not queue the    *)
(* snapshot, so its end is only noticed through its job.)                  *)
SnapshotEnds ==
  \A u \in Uids \ {0} : snap.uid = u ~> snap.uid # u \/ snap.phase \in {"Completed", "Failed"}

=============================================================================
