--------------------------- MODULE SnapshotProofs ---------------------------
(***************************************************************************)
(* The Snapshot controller keeps the promise of SnapshotPromise            *)
(* (KeepsPromise) and misses no end of a job (SettledPhase), for any       *)
(* number of snapshots, actions of people, failed calls and crashes.       *)
(*                                                                         *)
(* Both come down to the one reconciliation that is in flight. A job is    *)
(* created only by a reconciliation that has just stored Pending, so a     *)
(* phase Completed belongs to an earlier job (Kept); and whatever the      *)
(* reconciliation concludes from the cache is corrected by another one, or *)
(* the cache has not changed since (Heeded).                               *)
(***************************************************************************)
EXTENDS Snapshot, TLAPS

EndOf(j) == IF j.st = "complete" THEN "Completed" ELSE "Failed"

(* There is an image wherever a completed job is heard of. *)
Imaged ==
  /\ "complete" \in {job.st, seen.job.st} => images # {}
  /\ "Completed" \in {proc.report, snap.phase} => images # {}

(* While there is a job that has not failed, a snapshot that is Completed  *)
(* is not about to become anything else.                                   *)
Kept ==
  /\ proc.pc \in {"validate", "fail", "create", "processing"} => snap.phase # "Completed"
  /\ proc.pc = "finish" => proc.report \in {"Completed", "Failed"}
  /\ job.st # "failed" /\ proc.pc = "finish" /\ proc.report = "Completed" =>
       seen.job.st # "failed"
  /\ job.st # "failed" /\ snap.phase = "Completed" =>
       /\ seen.job.st # "failed" /\ proc.pc # "pending"
       /\ proc.pc = "finish" => proc.report = "Completed"

(* The caches lag behind, and say when they do. *)
Tracked ==
  /\ "cache" \in fresh => seen.uid = snap.uid
  /\ ~seen.events => seen.job = job
  /\ snap.uid <= uids /\ seen.uid <= uids
  /\ "copy" \in fresh => snap.uid # 0
  /\ snap.uid = 0 => snap = NoSnap

(* A reconciliation follows, or the one in flight acts on what the cache   *)
(* still shows, or the last one did.                                       *)
Heeded ==
  snap.uid # 0 /\ seen.uid = snap.uid /\ ~queued =>
    /\ proc.pc = "idle" =>
         seen.events \/ seen.job.st = "running" \/ snap.phase = EndOf(seen.job)
    /\ proc.pc = "finish" => proc.report = EndOf(seen.job)
    /\ proc.pc \in {"pending", "validate", "fail", "create"} => seen.job = NoJob
    /\ proc.pc = "processing" => seen.events

Inv == TypeOK /\ Imaged /\ Kept /\ Tracked /\ Heeded

-----------------------------------------------------------------------------
(* What a status update may do (Report): nothing to the phase, or it is    *)
(* stored, the reconciler's copy being the current version.                *)
LEMMA ReportEffect ==
  ASSUME TypeOK, NEW phase \in Phases, NEW ok \in BOOLEAN, Report(phase, ok)
  PROVE  /\ faults' \in Nat /\ fresh' \in SUBSET {"cache", "copy"} /\ snap' \in SnapObj
         /\ \/ ~ok /\ snap' = snap /\ fresh' = fresh
            \/ /\ "copy" \in fresh /\ snap' = [uid |-> snap.uid, phase |-> phase]
               /\ fresh' \subseteq fresh \cup {"copy"}
<1>1. snap = [uid |-> snap.uid, phase |-> snap.phase] /\ faults \in Nat
  BY DEF TypeOK, SnapObj
<1>2. [snap EXCEPT !.phase = phase] = [uid |-> snap.uid, phase |-> phase]
  BY <1>1
<1> QED
  BY <1>1, <1>2 DEF Report, Fault, TypeOK, SnapObj

(* The records after an update of some of their fields.                    *)
LEMMA ProcUpdate ==
  ASSUME TypeOK, NEW pc \in Steps, proc' = [proc EXCEPT !.pc = pc]
  PROVE  proc' \in Proc /\ proc'.pc = pc /\ proc'.report = proc.report
  BY DEF TypeOK, Proc

(* The reconciliation with a phase to report.                              *)
LEMMA ProcReport ==
  ASSUME TypeOK, NEW pc \in Steps, NEW r \in Phases, proc' = [proc EXCEPT !.pc = pc, !.report = r]
  PROVE  proc' \in Proc /\ proc'.pc = pc /\ proc'.report = r
  BY DEF TypeOK, Proc

(* The job with its outcome.                                               *)
LEMMA JobStored ==
  ASSUME TypeOK, NEW new \in JobObj, StoreJob(new)
  PROVE  /\ job' = new /\ seen' \in SeenObj /\ seen'.events
         /\ seen'.uid = seen.uid /\ seen'.job = seen.job
  BY DEF StoreJob, TypeOK, SeenObj

(* People and Kubernetes leave the reconciliation alone.                   *)
LEMMA EnvStep ==
  ASSUME Inv, \/ UserCreate \/ UserEdit \/ UserDelete \/ UserPower \/ UserDeleteJob
              \/ JobEnd \/ CollectJob
  PROVE  Inv'
<1> USE SnapshotAssumption DEF Inv
<1>1. CASE UserCreate
  BY <1>1 DEF UserCreate, Imaged, Kept, Tracked, Heeded, Phases, NoSnap, TypeOK, SnapObj,
              SeenObj, Uids
<1>2. CASE UserEdit
  <2>1. /\ seen' \in SeenObj /\ seen'.events = seen.events /\ seen'.uid = seen.uid
        /\ seen'.job = seen.job
    BY <1>2 DEF UserEdit, TypeOK, SeenObj
  <2>2. UNCHANGED <<snap, job, images, queued, proc, uids, eligible, faults>> /\ fresh' = {} /\ ops' \in Nat
    BY <1>2 DEF UserEdit, Edit, TypeOK
  <2> QED
    BY <2>1, <2>2 DEF Imaged, Kept, Tracked, Heeded, EndOf, TypeOK
<1>3. CASE UserDelete
  BY <1>3 DEF UserDelete, Edit, Imaged, Kept, Tracked, Heeded, NoSnap, Phases, TypeOK, SnapObj,
              Uids, SeenObj
<1>4. CASE UserPower
  BY <1>4 DEF UserPower, Edit, Imaged, Kept, Tracked, Heeded, TypeOK
<1>5. ASSUME StoreJob(NoJob), UNCHANGED <<snap, fresh, eligible, images, queued, proc, uids, faults>>,
             ops' \in Nat
      PROVE  Inv'
  <2>1. NoJob \in JobObj /\ NoJob.st = "failed"
    BY DEF NoJob, JobObj, JobStates, Uids
  <2>2. /\ job' = NoJob /\ seen' \in SeenObj /\ seen'.events
        /\ seen'.uid = seen.uid /\ seen'.job = seen.job
    BY <1>5, <2>1, JobStored
  <2> QED
    BY <1>5, <2>1, <2>2 DEF Imaged, Kept, Tracked, Heeded, EndOf, TypeOK
<1>6. CASE JobEnd
  <2>1. PICK st \in {"complete", "failed"} :
          /\ StoreJob([job EXCEPT !.st = st])
          /\ images' = IF st = "complete" THEN images \cup {job.owner} ELSE images
    BY <1>6 DEF JobEnd
  <2>2. [job EXCEPT !.st = st] \in JobObj /\ [job EXCEPT !.st = st].st = st
    BY DEF TypeOK, JobObj, JobStates
  <2>3. /\ job' \in JobObj /\ job'.st = st /\ seen' \in SeenObj /\ seen'.events
        /\ seen'.uid = seen.uid /\ seen'.job = seen.job
    BY <2>1, <2>2, JobStored
  <2>4. job.st = "running" /\ UNCHANGED <<snap, fresh, eligible, queued, proc, uids, faults, ops>>
    BY <1>6 DEF JobEnd
  <2>5. images' \in SUBSET Uids /\ images \subseteq images' /\ (st = "complete" => images' # {})
    BY <2>1 DEF TypeOK, JobObj
  <2> QED
    BY <2>3, <2>4, <2>5 DEF Imaged, Kept, Tracked, Heeded, EndOf, TypeOK
<1> QED
  BY <1>1, <1>2, <1>3, <1>4, <1>5, <1>6 DEF UserDeleteJob, CollectJob, Edit, TypeOK

(* The watches and a restart.                                              *)
LEMMA WatchStep == ASSUME Inv, WatchSnap \/ WatchJob \/ WatchVm \/ Restart PROVE Inv'
<1> USE SnapshotAssumption DEF Inv
<1>1. CASE WatchSnap
  <2>1. /\ seen' \in SeenObj /\ seen'.events = seen.events /\ seen'.uid = snap.uid
        /\ seen'.job = seen.job
    BY <1>1 DEF WatchSnap, TypeOK, SeenObj, SnapObj
  <2> QED
    BY <1>1, <2>1 DEF WatchSnap, Imaged, Kept, Tracked, Heeded, EndOf, TypeOK
<1>2. CASE WatchJob
  <2>1. seen' \in SeenObj /\ ~seen'.events /\ seen'.uid = seen.uid /\ seen'.job = job
    BY <1>2 DEF WatchJob, TypeOK, SeenObj
  <2> QED
    BY <1>2, <2>1 DEF WatchJob, Imaged, Kept, Tracked, Heeded, EndOf, TypeOK
<1>3. CASE WatchVm
  <2>1. /\ seen' \in SeenObj /\ seen'.events = seen.events /\ seen'.uid = seen.uid
        /\ seen'.job = seen.job
    BY <1>3 DEF WatchVm, TypeOK, SeenObj
  <2> QED
    BY <1>3, <2>1 DEF WatchVm, Imaged, Kept, Tracked, Heeded, EndOf, TypeOK
<1>4. CASE Restart
  <2>1. seen' \in SeenObj /\ ~seen'.events /\ seen'.uid = snap.uid /\ seen'.job = job
    BY <1>4 DEF Restart, TypeOK, SeenObj, SnapObj
  <2>2. proc' \in Proc /\ proc'.pc = "idle" /\ proc'.report = "none"
    BY <1>4 DEF Restart, Idle, Proc, Steps, Phases, Uids
  <2>3. snap.uid # 0 => queued'
    <3>1. NoSnap.uid = 0
      BY DEF NoSnap
    <3>2. snap # NoSnap => queued'
      BY <1>4, Zenon DEF Restart
    <3> QED
      BY <3>1, <3>2
  <2>4. fresh' = {"cache"} /\ faults' \in Nat /\ UNCHANGED <<snap, job, eligible, images, uids, ops>>
    BY <1>4 DEF Restart, Fault, TypeOK
  <2>5. queued' \in BOOLEAN
    BY <1>4 DEF Restart
  <2> QED
    BY <2>1, <2>2, <2>3, <2>4, <2>5 DEF Imaged, Kept, Tracked, Heeded, TypeOK
<1> QED
  BY <1>1, <1>2, <1>3, <1>4

(* The steps of a reconciliation.                                          *)
LEMMA ReconcileStep == ASSUME Inv, SnapGet \/ SnapRun PROVE Inv'
<1> USE SnapshotAssumption DEF Inv
<1>p. /\ Phases = {"none", "Pending", "Processing", "Completed", "Failed"}
      /\ Steps = {"idle", "job", "pending", "validate", "fail", "create", "processing", "finish"}
      /\ proc.pc \in Steps /\ proc.report \in Phases
  BY DEF Phases, Steps, TypeOK, Proc
<1>i. ASSUME proc' = Idle
      PROVE  proc' \in Proc /\ proc'.pc = "idle" /\ proc'.report = "none"
  BY <1>i, <1>p DEF Idle, Proc, Uids
<1>g. ASSUME NEW pc \in Steps, Goto(pc)
      PROVE  /\ proc' \in Proc /\ proc'.pc = pc /\ proc'.report = proc.report
             /\ queued' = queued
  BY <1>g, ProcUpdate DEF Goto
<1>f. Fault => faults' \in Nat
  BY DEF Fault, TypeOK
<1>1. CASE SnapGet
  <2>1. /\ proc.pc = "idle" /\ UNCHANGED <<snap, job, eligible, seen, images, uids, ops>>
        /\ queued /\ fresh' \subseteq {"cache", "copy"} /\ queued' \in BOOLEAN
        /\ "cache" \in fresh' <=> "cache" \in fresh
    BY <1>1 DEF SnapGet, At, TypeOK
  <2>2. faults' \in Nat
    BY <1>1, <1>f DEF SnapGet, TypeOK
  <2>3. /\ proc' \in Proc /\ proc'.pc \in {"idle", "job"} /\ proc'.report \in {"none", proc.report}
        /\ proc'.pc = "idle" => seen.uid = 0 \/ queued'
    <3>1. CASE proc' = Idle /\ seen.uid = 0
      BY <1>i, <3>1
    <3>2. CASE proc' = [pc |-> "job", uid |-> seen.uid, report |-> "none"]
      BY <1>p, <3>2 DEF Proc, TypeOK, SeenObj
    <3>3. CASE proc' = proc /\ queued' = queued
      BY <2>1, <3>3 DEF TypeOK
    <3> QED
      BY <1>1, <3>1, <3>2, <3>3 DEF SnapGet
  <2>4. "copy" \in fresh' => "copy" \in fresh \/ ("cache" \in fresh /\ seen.uid # 0)
    BY <1>1 DEF SnapGet
  <2> QED
    BY <2>1, <2>2, <2>3, <2>4 DEF TypeOK, Imaged, Kept, Tracked, Heeded
<1>2. CASE SnapFindJob
  <2>1. /\ proc.pc = "job" /\ UNCHANGED <<snap, fresh, job, eligible, seen, images, uids, ops>>
        /\ faults' \in Nat
    BY <1>2, <1>f DEF SnapFindJob, At, TypeOK
  <2>2. NoJob.st = "failed" /\ seen.job.st \in JobStates
    BY DEF NoJob, TypeOK, SeenObj, JobObj
  <2>3. \/ seen.job = NoJob /\ Goto("pending")
        \/ seen.job.st = "running" /\ Done
        \/ /\ seen.job.st # "running"
           /\ proc' = [proc EXCEPT !.pc = "finish", !.report = EndOf(seen.job)] /\ queued' = queued
        \/ Retry
    BY <1>2 DEF SnapFindJob, EndOf
  <2>4. EndOf(seen.job) \in Phases
    BY <1>p DEF EndOf
  <2>5. /\ proc' \in Proc /\ queued' \in BOOLEAN
        /\ \/ seen.job = NoJob /\ proc'.pc = "pending" /\ queued' = queued /\ proc'.report = proc.report
           \/ /\ seen.job.st = "running" /\ proc'.pc = "idle" /\ queued' = queued
              /\ proc'.report = "none"
           \/ /\ seen.job.st # "running" /\ proc'.pc = "finish" /\ proc'.report = EndOf(seen.job)
              /\ queued' = queued
           \/ proc'.pc = "idle" /\ queued' = TRUE /\ proc'.report = "none"
    BY <1>p, <1>i, <1>g, <2>3, <2>4, ProcReport DEF Done, Retry, TypeOK
  <2> QED
    BY <2>1, <2>2, <2>5 DEF TypeOK, Imaged, Kept, Tracked, Heeded, EndOf, JobStates
<1>3. CASE SnapFinish
  <2>1. PICK ok \in BOOLEAN : Report(proc.report, ok) /\ IF ok THEN Done ELSE Retry
    BY <1>3 DEF SnapFinish
  <2>2. /\ faults' \in Nat /\ fresh' \in SUBSET {"cache", "copy"} /\ snap' \in SnapObj
        /\ \/ ~ok /\ snap' = snap /\ fresh' = fresh
           \/ /\ "copy" \in fresh /\ snap' = [uid |-> snap.uid, phase |-> proc.report]
              /\ fresh' \subseteq fresh \cup {"copy"}
    BY <1>p, <2>1, ReportEffect
  <2>3. /\ proc' \in Proc /\ proc'.report \in {"none", proc.report}
        /\ IF ok THEN proc'.pc = "idle" /\ queued' = queued ELSE proc'.pc = "idle" /\ queued' = TRUE
        /\ queued' \in BOOLEAN
    BY <1>p, <1>i, <1>g, <2>1 DEF Done, Retry, TypeOK
  <2>4. proc.pc = "finish" /\ UNCHANGED <<job, eligible, seen, images, uids, ops>>
    BY <1>3 DEF SnapFinish, At
  <2>5. TypeOK'
    BY <2>2, <2>3, <2>4 DEF TypeOK
  <2>6. Imaged'
    BY <1>p, <2>2, <2>3, <2>4 DEF Imaged
  <2>7. Kept'
    BY <1>p, <2>2, <2>3, <2>4 DEF Kept
  <2>8. Tracked'
    BY <1>p, <2>2, <2>3, <2>4 DEF Tracked
  <2>9. Heeded'
    BY <1>p, <2>2, <2>3, <2>4 DEF Heeded
  <2> QED
    BY <2>5, <2>6, <2>7, <2>8, <2>9
<1>4. CASE SnapPending
  <2>1. PICK ok \in BOOLEAN : Report("Pending", ok) /\ IF ok THEN Goto("validate") ELSE Retry
    BY <1>4 DEF SnapPending
  <2>2. /\ faults' \in Nat /\ fresh' \in SUBSET {"cache", "copy"} /\ snap' \in SnapObj
        /\ \/ ~ok /\ snap' = snap /\ fresh' = fresh
           \/ /\ "copy" \in fresh /\ snap' = [uid |-> snap.uid, phase |-> "Pending"]
              /\ fresh' \subseteq fresh \cup {"copy"}
    BY <1>p, <2>1, ReportEffect
  <2>3. /\ proc' \in Proc /\ proc'.report \in {"none", proc.report}
        /\ IF ok THEN proc'.pc = "validate" /\ queued' = queued ELSE proc'.pc = "idle" /\ queued' = TRUE
        /\ queued' \in BOOLEAN
    BY <1>p, <1>i, <1>g, <2>1 DEF Done, Retry, TypeOK
  <2>4. proc.pc = "pending" /\ UNCHANGED <<job, eligible, seen, images, uids, ops>>
    BY <1>4 DEF SnapPending, At
  <2>5. TypeOK'
    BY <2>2, <2>3, <2>4 DEF TypeOK
  <2>6. Imaged'
    BY <1>p, <2>2, <2>3, <2>4 DEF Imaged
  <2>7. Kept'
    BY <1>p, <2>2, <2>3, <2>4 DEF Kept
  <2>8. Tracked'
    BY <1>p, <2>2, <2>3, <2>4 DEF Tracked
  <2>9. Heeded'
    BY <1>p, <2>2, <2>3, <2>4 DEF Heeded
  <2> QED
    BY <2>5, <2>6, <2>7, <2>8, <2>9
<1>5. CASE SnapValidate
  <2>1. /\ proc.pc = "validate" /\ UNCHANGED <<snap, fresh, job, eligible, seen, images, uids, ops>>
        /\ faults' \in Nat
    BY <1>5, <1>f DEF SnapValidate, At, TypeOK
  <2>2. Goto("create") \/ Goto("fail") \/ Retry
    BY <1>5 DEF SnapValidate
  <2>3. /\ proc' \in Proc /\ proc'.report \in {"none", proc.report}
        /\ \/ proc'.pc \in {"create", "fail"} /\ queued' = queued
           \/ proc'.pc = "idle" /\ queued' = TRUE
    BY <1>p, <1>i, <1>g, <2>2 DEF Retry
  <2>4. TypeOK'
    BY <2>1, <2>3 DEF TypeOK
  <2>5. Imaged'
    BY <2>1, <2>3 DEF Imaged
  <2>6. Kept'
    BY <2>1, <2>3 DEF Kept
  <2>7. Tracked'
    BY <2>1, <2>3 DEF Tracked
  <2>8. Heeded'
    BY <2>1, <2>3 DEF Heeded
  <2> QED
    BY <2>4, <2>5, <2>6, <2>7, <2>8
<1>6. CASE SnapFail
  <2>1. PICK ok \in BOOLEAN : Report("Failed", ok) /\ IF ok THEN Done ELSE Retry
    BY <1>6 DEF SnapFail
  <2>2. /\ faults' \in Nat /\ fresh' \in SUBSET {"cache", "copy"} /\ snap' \in SnapObj
        /\ \/ ~ok /\ snap' = snap /\ fresh' = fresh
           \/ /\ "copy" \in fresh /\ snap' = [uid |-> snap.uid, phase |-> "Failed"]
              /\ fresh' \subseteq fresh \cup {"copy"}
    BY <1>p, <2>1, ReportEffect
  <2>3. /\ proc' \in Proc /\ proc'.report \in {"none", proc.report}
        /\ IF ok THEN proc'.pc = "idle" /\ queued' = queued ELSE proc'.pc = "idle" /\ queued' = TRUE
        /\ queued' \in BOOLEAN
    BY <1>p, <1>i, <1>g, <2>1 DEF Done, Retry, TypeOK
  <2>4. proc.pc = "fail" /\ UNCHANGED <<job, eligible, seen, images, uids, ops>>
    BY <1>6 DEF SnapFail, At
  <2>5. TypeOK'
    BY <2>2, <2>3, <2>4 DEF TypeOK
  <2>6. Imaged'
    BY <1>p, <2>2, <2>3, <2>4 DEF Imaged
  <2>7. Kept'
    BY <1>p, <2>2, <2>3, <2>4 DEF Kept
  <2>8. Tracked'
    BY <1>p, <2>2, <2>3, <2>4 DEF Tracked
  <2>9. Heeded'
    BY <1>p, <2>2, <2>3, <2>4 DEF Heeded, EndOf, NoJob
  <2> QED
    BY <2>5, <2>6, <2>7, <2>8, <2>9
<1>7. CASE SnapCreate
  <2> DEFINE new == [owner |-> proc.uid, st |-> "running"]
  <2>1. /\ proc.pc = "create" /\ UNCHANGED <<snap, fresh, eligible, images, uids, ops>>
        /\ faults' \in Nat
    BY <1>7, <1>f DEF SnapCreate, At, TypeOK
  <2>2. new \in JobObj /\ new.st = "running"
    BY DEF TypeOK, Proc, JobObj, JobStates
  <2>3. \/ StoreJob(new) /\ (Goto("processing") \/ Retry)
        \/ UNCHANGED <<job, seen>> /\ Retry
    BY <1>7 DEF SnapCreate
  <2> HIDE DEF new
  <2>4. \/ /\ job' = new /\ seen' \in SeenObj /\ seen'.events
           /\ seen'.uid = seen.uid /\ seen'.job = seen.job
        \/ UNCHANGED <<job, seen>> /\ queued' = TRUE
    BY <2>2, <2>3, JobStored DEF Retry
  <2>5. /\ proc' \in Proc /\ proc'.report \in {"none", proc.report}
        /\ \/ proc'.pc = "processing" /\ queued' = queued
           \/ proc'.pc = "idle" /\ queued' = TRUE
        /\ queued' \in BOOLEAN
    BY <1>p, <1>i, <1>g, <2>3 DEF Retry, TypeOK
  <2> QED
    BY <2>1, <2>2, <2>4, <2>5 DEF TypeOK, Imaged, Kept, Tracked, Heeded
<1>8. CASE SnapProcessing
  <2>1. PICK ok \in BOOLEAN : Report("Processing", ok) /\ IF ok THEN Done ELSE Retry
    BY <1>8 DEF SnapProcessing
  <2>2. /\ faults' \in Nat /\ fresh' \in SUBSET {"cache", "copy"} /\ snap' \in SnapObj
        /\ \/ ~ok /\ snap' = snap /\ fresh' = fresh
           \/ /\ "copy" \in fresh /\ snap' = [uid |-> snap.uid, phase |-> "Processing"]
              /\ fresh' \subseteq fresh \cup {"copy"}
    BY <1>p, <2>1, ReportEffect
  <2>3. /\ proc' \in Proc /\ proc'.report \in {"none", proc.report}
        /\ IF ok THEN proc'.pc = "idle" /\ queued' = queued ELSE proc'.pc = "idle" /\ queued' = TRUE
        /\ queued' \in BOOLEAN
    BY <1>p, <1>i, <1>g, <2>1 DEF Done, Retry, TypeOK
  <2>4. proc.pc = "processing" /\ UNCHANGED <<job, eligible, seen, images, uids, ops>>
    BY <1>8 DEF SnapProcessing, At
  <2>5. TypeOK'
    BY <2>2, <2>3, <2>4 DEF TypeOK
  <2>6. Imaged'
    BY <1>p, <2>2, <2>3, <2>4 DEF Imaged
  <2>7. Kept'
    BY <1>p, <2>2, <2>3, <2>4 DEF Kept
  <2>8. Tracked'
    BY <1>p, <2>2, <2>3, <2>4 DEF Tracked
  <2>9. Heeded'
    BY <1>p, <2>2, <2>3, <2>4 DEF Heeded
  <2> QED
    BY <2>5, <2>6, <2>7, <2>8, <2>9
<1> QED
  BY <1>1, <1>2, <1>3, <1>4, <1>5, <1>6, <1>7, <1>8 DEF SnapRun

(* The invariant holds of every behaviour of the controller.               *)
LEMMA InvHolds == Spec => []Inv
<1>1. Init => Inv
  <2> SUFFICES ASSUME Init PROVE Inv
    OBVIOUS
  <2>1. /\ snap \in SnapObj /\ snap.uid = 0 /\ snap.phase = "none" /\ uids = 0 /\ fresh = {"cache"}
        /\ job \in JobObj /\ job.st = "failed" /\ proc \in Proc /\ proc = Idle
    BY SnapshotAssumption DEF Init, SnapObj, JobObj, Proc, NoSnap, NoJob, Idle, Uids, Phases,
                              Steps, JobStates
  <2>2. seen \in SeenObj /\ seen.uid = 0 /\ seen.job = job
    BY <2>1, SnapshotAssumption DEF Init, SeenObj, Uids
  <2>3. eligible \in BOOLEAN /\ queued \in BOOLEAN
    BY Zenon DEF Init
  <2>4. images \in SUBSET Uids /\ uids \in Uids /\ faults \in Nat /\ ops \in Nat
    BY <2>1, SnapshotAssumption DEF Init, Uids
  <2>5. TypeOK
    BY <2>1, <2>2, <2>3, <2>4 DEF TypeOK
  <2> QED
    BY <2>1, <2>2, <2>5 DEF Init, Inv, Imaged, Kept, Tracked, Heeded, Idle
<1>2. Inv /\ [Next]_vars => Inv'
  <2>1. Inv /\ UNCHANGED vars => Inv'
    BY DEF vars, Inv, TypeOK, Imaged, Kept, Tracked, Heeded
  <2> QED
    BY <2>1, EnvStep, WatchStep, ReconcileStep DEF Next
<1> QED
  BY <1>1, <1>2, PTL DEF Spec

(* No end is missed: once no event and no reconciliation is pending, the   *)
(* phase of a snapshot tells how its job ended (Reconcile,                 *)
(* HandleExistingJob).                                                     *)
THEOREM NoEndIsMissed == Spec => []SettledPhase
<1>1. Inv => SettledPhase
  <2>1. NoSnap.uid = 0 /\ NoJob.st = "failed"
    BY DEF NoSnap, NoJob
  <2> QED
    BY <2>1 DEF Inv, Tracked, Heeded, EndOf, SettledPhase, Settled, At
<1> QED
  BY <1>1, InvHolds, PTL

-----------------------------------------------------------------------------
(* Every step is one that SnapshotPromise allows, or leaves the phase, the *)
(* image and the record as they are.                                       *)
LEMMA StepKeepsPromise ==
  ASSUME Inv, [Next]_vars
  PROVE  [Promise!Next]_<<snap.phase, images # {}, job.st = "complete">>
<1> USE DEF Inv
(* steps that leave the three as they are *)
<1>1. ASSUME snap'.phase = snap.phase, images' = images,
             job'.st = "complete" <=> job.st = "complete"
      PROVE  [Promise!Next]_<<snap.phase, images # {}, job.st = "complete">>
  BY <1>1
<1>2. CASE UserCreate \/ UserDelete
  <2>1. snap'.phase = "none" /\ UNCHANGED <<job, images>>
    BY <1>2 DEF UserCreate, UserDelete, NoSnap
  <2> QED
    BY <2>1 DEF Promise!Next, Promise!Delete
<1>3. CASE UserDeleteJob \/ CollectJob
  <2>1. job'.st = "failed" /\ UNCHANGED <<snap, images>>
    BY <1>3 DEF UserDeleteJob, CollectJob, StoreJob, NoJob
  <2> QED
    BY <2>1 DEF Promise!Next, Promise!Forget
<1>4. CASE JobEnd
  <2>1. job.st = "running" /\ UNCHANGED snap
    BY <1>4 DEF JobEnd
  <2>2. \/ job'.st = "complete" /\ images' # {}
        \/ job'.st = "failed" /\ images' = images
    BY <1>4 DEF JobEnd, StoreJob, TypeOK, JobObj
  <2> QED
    BY <2>1, <2>2 DEF Promise!Next, Promise!Push
<1>5. ASSUME NEW phase \in Phases, NEW ok \in BOOLEAN, Report(phase, ok), UNCHANGED <<job, images>>,
             phase = "Completed" => images # {},
             phase # "Completed" /\ snap.phase = "Completed" => job.st # "complete"
      PROVE  [Promise!Next]_<<snap.phase, images # {}, job.st = "complete">>
  <2>1. snap' = snap \/ snap'.phase = phase
    BY <1>5, ReportEffect
  <2> QED
    BY <1>5, <2>1 DEF Promise!Next, Promise!Report, Promise!Open, Phases
<1>6. CASE SnapFinish
  <2>1. PICK ok \in BOOLEAN : Report(proc.report, ok)
    BY <1>6 DEF SnapFinish
  <2>2. proc.pc = "finish" /\ UNCHANGED <<job, images>> /\ proc.report \in Phases
    BY <1>6 DEF SnapFinish, At, TypeOK, Proc
  <2> QED
    BY <1>5, <2>1, <2>2 DEF Imaged, Kept
<1>7. CASE SnapPending
  <2>1. PICK ok \in BOOLEAN : Report("Pending", ok)
    BY <1>7 DEF SnapPending
  <2>2. proc.pc = "pending" /\ UNCHANGED <<job, images>> /\ "Pending" \in Phases
    BY <1>7 DEF SnapPending, At, Phases
  <2> QED
    BY <1>5, <2>1, <2>2 DEF Kept
<1>8. CASE SnapFail
  <2>1. PICK ok \in BOOLEAN : Report("Failed", ok)
    BY <1>8 DEF SnapFail
  <2>2. proc.pc = "fail" /\ UNCHANGED <<job, images>> /\ "Failed" \in Phases
    BY <1>8 DEF SnapFail, At, Phases
  <2> QED
    BY <1>5, <2>1, <2>2 DEF Kept
<1>9. CASE SnapProcessing
  <2>1. PICK ok \in BOOLEAN : Report("Processing", ok)
    BY <1>9 DEF SnapProcessing
  <2>2. proc.pc = "processing" /\ UNCHANGED <<job, images>> /\ "Processing" \in Phases
    BY <1>9 DEF SnapProcessing, At, Phases
  <2> QED
    BY <1>5, <2>1, <2>2 DEF Kept
<1>10. CASE SnapCreate
  <2>1. UNCHANGED <<snap, images>> /\ (job' = job \/ (job.st = "failed" /\ job'.st = "running"))
    BY <1>10 DEF SnapCreate, StoreJob, NoJob
  <2> QED
    BY <1>1, <2>1
<1>11. CASE \/ UserEdit \/ UserPower \/ WatchSnap \/ WatchJob \/ WatchVm \/ Restart
           \/ SnapGet \/ SnapFindJob \/ SnapValidate \/ UNCHANGED vars
  <2>1. UNCHANGED <<snap, images, job>>
    BY <1>11 DEF UserEdit, UserPower, WatchSnap, WatchJob, WatchVm, Restart, SnapGet, SnapFindJob,
                 SnapValidate, vars
  <2> QED
    BY <1>1, <2>1
<1> QED
  BY <1>2, <1>3, <1>4, <1>6, <1>7, <1>8, <1>9, <1>10, <1>11 DEF Next, SnapRun

(* Completed is reported only with an image in the registry and stands     *)
(* while the completed job is there (HandleExistingJob,                    *)
(* instancesnapshot_logic.go:66).                                          *)
THEOREM CompletedIsFinal == Spec => KeepsPromise
<1>1. Init => Promise!Init
  BY DEF Init, Promise!Init, NoSnap, NoJob
<1> QED
  BY <1>1, StepKeepsPromise, InvHolds, PTL DEF Spec, KeepsPromise, Promise!Spec
=============================================================================
