--------------------------- MODULE InstanceProofs ---------------------------
(***************************************************************************)
(* The Instance controller publishes VmiReady only for an environment that *)
(* has answered (ReadyWasReached), and the machine follows the Instance    *)
(* (MachineFollowsSpec), in every set of scenarios and with any number of  *)
(* goroutines.                                                             *)
(*                                                                         *)
(* The inductive invariant says what the reconciliation in flight relies   *)
(* on. While the Instance is there nothing it owns is collected, so what   *)
(* an earlier step has found or created is still so (Ordered); and as long *)
(* as no event is pending the reconciliation acts on the specification at  *)
(* the API server, or the last one did (Followed).                         *)
(***************************************************************************)
EXTENDS Instance, TLAPS

(* Whoever may publish VmiReady knows that the environment has answered. *)
ReadyKnown ==
  /\ inst.st.phase = "VmiReady" => reached
  /\ answers => reached
  /\ depl.ready => reached
  /\ proc.ready => reached
  /\ \A i \in Slots : pollers[i].pc = "ready" => reached

(* The steps belong to the kind of environment. *)
Paths ==
  /\ proc.pc \in {"volume", "importing"} => Kind = "persistent"
  /\ proc.pc \in {"secret", "machine", "publish"} => Kind # "container"
  /\ proc.pc \in {"claim", "deploy", "deployed"} => Kind = "container"

(* The disk comes before the machine, the claim before the Deployment. *)
Ordered ==
  inst.live =>
    /\ seen.dv # "none" => dv # "none"
    /\ seen.dv = "Succeeded" => dv = "Succeeded"
    /\ Kind = "persistent" /\ (vm.made \/ proc.pc \in {"secret", "expose", "machine", "publish"}) =>
         dv = "Succeeded"
    /\ \/ depl.made /\ depl.volume = "claim"
       \/ Disk /\ proc.pc \in {"deploy", "deployed"}
       => pvc

(* What has been done once nothing is left to do but wait for the disk. *)
Achieved ==
  /\ Kind = "persistent" =>
       \/ vm.made /\ vm.running = inst.running
       \/ dv # "none" /\ seen.dv # "Succeeded"
  /\ Kind = "vm" => vm.made
  /\ Kind = "container" => depl.made

Followed ==
  inst.live /\ ~dirty =>
    /\ seen.inst.live /\ seen.inst.running = inst.running
    /\ ~queued =>
         /\ proc.pc # "idle" => proc.running = inst.running
         /\ proc.pc \in {"idle", "importing", "publish", "deployed"} => Achieved

Inv == TypeOK /\ ReadyKnown /\ Paths /\ Ordered /\ Followed

-----------------------------------------------------------------------------
(* The Instance after an attempt to publish a reason of rs. *)
StatusOnly(rs) ==
  /\ inst' \in InstObj /\ inst'.live = inst.live /\ inst'.running = inst.running
  /\ inst'.st.phase \in {inst.st.phase} \cup rs

(* A step that leaves the Instance alone publishes nothing.                *)
LEMMA Unpublished == ASSUME TypeOK, UNCHANGED inst, NEW rs PROVE StatusOnly(rs)
BY DEF TypeOK, StatusOnly

(* setInstanceStatus touches nothing but the status, and stores no phase   *)
(* but the one it is called with.                                          *)
LEMMA StatusEffect ==
  ASSUME TypeOK, NEW base, NEW type, NEW reason \in Reasons, NEW url \in BOOLEAN,
         SetStatus(base, type, reason, url)
  PROVE  StatusOnly({reason})
<1> DEFINE st == Patched(base, [phase |-> reason, url |-> url])
<1>1. inst.st.phase \in Reasons /\ inst.st.url \in BOOLEAN
  BY DEF TypeOK, InstObj, Status
<1>2. st \in Status /\ st.phase \in {inst.st.phase, reason}
  BY <1>1 DEF Patched, Status
<1> HIDE DEF st
<1>3. CASE inst' = [inst EXCEPT !.st = st]
  <2>1. inst' \in InstObj /\ inst'.live = inst.live /\ inst'.running = inst.running /\ inst'.st = st
    BY <1>2, <1>3 DEF TypeOK, InstObj
  <2> QED
    BY <1>2, <2>1 DEF StatusOnly
<1> QED
  BY <1>3, Unpublished DEF SetStatus, st

(* The number of failures left stays within its bounds.                    *)
LEMMA FaultEffect ==
  ASSUME TypeOK, NEW kind, Fault(kind), UNCHANGED env
  PROVE  faults' \in 0 .. env'.failures
BY InstanceAssumption DEF Fault, TypeOK, ScenarioOK

(* A reason published, or not for a failure.                               *)
LEMMA PublishEffect ==
  ASSUME TypeOK, NEW base, NEW type, NEW reason \in Reasons, NEW url \in BOOLEAN, UNCHANGED env,
         Publish(base, type, reason, url)
  PROVE  StatusOnly({reason}) /\ faults' \in 0 .. env'.failures
BY StatusEffect, FaultEffect, Unpublished DEF Publish, TypeOK

(* The status written at the end of a reconciliation.                      *)
LEMMA ReportEffect ==
  ASSUME TypeOK, NEW type, NEW reason \in Reasons, Report(type, reason)
  PROVE  StatusOnly({reason})
BY StatusEffect, Unpublished DEF Report

(* The reconciliation after Goto, Done and Retry.                          *)
LEMMA GotoEffect ==
  ASSUME TypeOK, NEW pc \in Steps, Goto(pc)
  PROVE  /\ proc' \in Proc /\ proc'.pc = pc /\ proc'.running = proc.running
         /\ proc'.ready = proc.ready /\ queued' = queued /\ queued' \in BOOLEAN
BY DEF Goto, TypeOK, Proc

(* What there is before the first reconciliation.                          *)
LEMMA IdleType == Idle \in Proc /\ Idle.pc = "idle" /\ Idle.ready = FALSE /\ NoPoller \in Poller
                  /\ NoPoller.pc = "none"
BY DEF Idle, NoPoller, Proc, Poller, Steps, Status, NoStatus, Reasons

-----------------------------------------------------------------------------
(* People: a change of the specification is an event yet to be delivered.  *)
LEMMA PeopleStep == ASSUME Inv, People PROVE Inv'
<1> USE DEF Inv
<1>1. ops' \in 0 .. env'.ops /\ dirty' = TRUE
  BY InstanceAssumption DEF People, UserToggle, UserDelete, Edit, TypeOK, ScenarioOK
<1>2. UNCHANGED <<cluster, seen, moved, queued, proc, pollers, faults, env>>
  BY DEF People, UserToggle, UserDelete
<1>3. inst' \in InstObj /\ (inst'.live => inst.live) /\ inst'.st.phase \in {inst.st.phase, "none"}
  <2>1. CASE UserToggle
    BY <2>1 DEF UserToggle, TypeOK, InstObj
  <2>2. CASE UserDelete
    BY <2>2 DEF UserDelete, NoInst, NoStatus, InstObj, Status, Reasons
  <2> QED
    BY <2>1, <2>2 DEF People
<1> QED
  BY <1>1, <1>2, <1>3 DEF cluster, TypeOK, ReadyKnown, Paths, Ordered, Followed, Kind, Disk

(* The platform: only what belongs to a deleted Instance is taken away.    *)
LEMMA PlatformStep == ASSUME Inv, Platform \/ VmFail \/ PodReady PROVE Inv'
<1> USE DEF Inv
<1>1. CASE Import
  BY <1>1 DEF Import, watched, TypeOK, DvPhases, ReadyKnown, Paths, Ordered, Followed, Achieved,
              Kind, Disk
<1>2. ASSUME NEW phase \in VmiPhases \cup {"none"}, NEW up \in BOOLEAN, Virt(phase, up),
             faults' \in 0 .. env.failures
      PROVE  Inv'
  BY <1>2 DEF Virt, watched, TypeOK, ReadyKnown, Paths, Ordered, Followed, Achieved, Kind, Disk
<1>3. CASE VmStart \/ VmRun \/ VmAnswer \/ VmEnd \/ VmGone
  BY <1>2, <1>3 DEF VmStart, VmRun, VmAnswer, VmEnd, VmGone, VmiPhases, TypeOK
<1>4. CASE VmFail
  BY <1>2, <1>4, FaultEffect DEF VmFail, VmiPhases, Virt
<1>5. CASE PodReady
  <2>1. faults' \in 0 .. env'.failures
    BY <1>5, FaultEffect DEF PodReady, TypeOK, DeplObj
  <2>2. depl' \in DeplObj /\ depl'.made = depl.made /\ depl'.volume = depl.volume
    BY <1>5 DEF PodReady, TypeOK, DeplObj
  <2>3. moved' = TRUE /\ reached' \in BOOLEAN /\ (reached => reached') /\ (depl'.ready => reached')
    BY <1>5 DEF PodReady, TypeOK
  <2>4. UNCHANGED <<inst, dv, vm, vmi, answers, pvc, seen, dirty, queued, proc, pollers, ops, env>>
    BY <1>5 DEF PodReady
  <2> QED
    BY <2>1, <2>2, <2>3, <2>4 DEF TypeOK, ReadyKnown, Paths, Ordered, Followed, Achieved, Kind,
                                  Disk
<1>6. CASE Collect
  <2>1. vm' \in VmObj /\ depl' \in DeplObj /\ ~depl'.ready /\ dv' \in DvPhases /\ pvc' \in BOOLEAN
    BY <1>6 DEF Collect, TypeOK, VmObj, NoVm, NoDepl, DeplObj, DvPhases
  <2>2. moved' \in BOOLEAN
    BY <1>6 DEF Collect
  <2>3. /\ ~inst.live
        /\ UNCHANGED <<inst, vmi, answers, reached, seen, dirty, queued, proc, pollers, faults, ops, env>>
    BY <1>6 DEF Collect
  <2> QED
    BY <2>1, <2>2, <2>3 DEF TypeOK, ReadyKnown, Paths, Ordered, Followed, Achieved, Kind, Disk
<1> QED
  BY <1>1, <1>3, <1>4, <1>5, <1>6 DEF Platform

(* The watches and a restart: an event queues the Instance.                *)
LEMMA WatchStep == ASSUME Inv, Watches \/ Restart PROVE Inv'
<1> USE DEF Inv
<1>1. CASE WatchInst
  <2>1. /\ seen' \in [inst : InstObj, dv : DvPhases, vm : VmObj, vmi : VmiPhases \cup {"none"}, depl : DeplObj]
        /\ seen'.inst = inst /\ seen'.dv = seen.dv
    BY <1>1 DEF WatchInst, TypeOK
  <2>2. dirty' = FALSE /\ queued' \in BOOLEAN /\ (queued \/ dirty => queued')
    BY <1>1 DEF WatchInst
  <2>3. UNCHANGED <<inst, cluster, moved, proc, pollers, faults, ops, env>>
    BY <1>1 DEF WatchInst
  <2>4. TypeOK'
    BY <2>1, <2>2, <2>3 DEF TypeOK, cluster
  <2>5. Followed'
    BY <2>1, <2>2, <2>3 DEF Followed, Achieved, Kind, cluster
  <2> QED
    BY <2>1, <2>3, <2>4, <2>5 DEF ReadyKnown, Paths, Ordered, Kind, Disk, cluster
<1>2. CASE WatchVolume
  <2>1. /\ seen' \in [inst : InstObj, dv : DvPhases, vm : VmObj, vmi : VmiPhases \cup {"none"}, depl : DeplObj]
        /\ seen'.inst = seen.inst /\ seen'.dv = dv
    BY <1>2 DEF WatchVolume, TypeOK
  <2>2. queued' \in BOOLEAN /\ (queued \/ "Succeeded" \in {dv, seen.dv} => queued')
    BY <1>2 DEF WatchVolume
  <2>3. UNCHANGED <<inst, cluster, dirty, moved, proc, pollers, faults, ops, env>>
    BY <1>2 DEF WatchVolume
  <2> QED
    BY <2>1, <2>2, <2>3 DEF TypeOK, ReadyKnown, Paths, Ordered, Followed, Achieved, Kind, Disk,
                            cluster
<1>3. CASE WatchMachine \/ WatchDeployment
  <2>1. /\ seen' \in [inst : InstObj, dv : DvPhases, vm : VmObj, vmi : VmiPhases \cup {"none"}, depl : DeplObj]
        /\ seen'.inst = seen.inst /\ seen'.dv = seen.dv
    BY <1>3 DEF WatchMachine, WatchDeployment, TypeOK
  <2>2. queued' \in BOOLEAN /\ (queued => queued') /\ moved' \in BOOLEAN
    BY <1>3 DEF WatchMachine, WatchDeployment, TypeOK
  <2>3. UNCHANGED <<inst, cluster, dirty, proc, pollers, faults, ops, env>>
    BY <1>3 DEF WatchMachine, WatchDeployment
  <2> QED
    BY <2>1, <2>2, <2>3 DEF TypeOK, ReadyKnown, Paths, Ordered, Followed, Achieved, Kind, Disk,
                            cluster
<1>4. CASE Restart
  <2>1. /\ seen' \in [inst : InstObj, dv : DvPhases, vm : VmObj, vmi : VmiPhases \cup {"none"}, depl : DeplObj]
        /\ seen'.inst = inst /\ seen'.dv = dv
    BY <1>4 DEF Restart, TypeOK
  <2>2. faults' \in 0 .. env'.failures
    BY <1>4, FaultEffect DEF Restart
  <2>3. /\ queued' = inst.live /\ dirty' = FALSE /\ moved' = FALSE /\ proc' = Idle
        /\ pollers' = [i \in Slots |-> NoPoller] /\ UNCHANGED <<inst, cluster, ops, env>>
    BY <1>4 DEF Restart
  <2>4. queued' \in BOOLEAN
    BY <2>3 DEF TypeOK, InstObj
  <2> QED
    BY <2>1, <2>2, <2>3, <2>4, IdleType DEF TypeOK, ReadyKnown, Paths, Ordered, Followed,
                                            Achieved, Kind, Disk, cluster
<1> QED
  BY <1>1, <1>2, <1>3, <1>4 DEF Watches

(* A reconciliation that ends early is tried again, and may have published *)
(* a reason that is not VmiReady; this keeps the invariant whatever it has *)
(* created on the way, as long as the Instance's objects stay in order.    *)
LEMMA RetryStep ==
  ASSUME Inv, Retry, StatusOnly(Reasons \ {"VmiReady"}), faults' \in 0 .. env'.failures,
         UNCHANGED <<vmi, answers, reached, seen, dirty, pollers, ops, env>>,
         dv' \in DvPhases, dv' # dv => dv = "none", vm' \in VmObj, pvc' \in BOOLEAN, pvc => pvc',
         depl' \in DeplObj, depl'.ready => depl.ready, moved' \in BOOLEAN,
         inst.live => /\ Kind = "persistent" /\ vm'.made => vm.made \/ dv = "Succeeded"
                      /\ depl'.made /\ depl'.volume = "claim" => pvc
  PROVE  Inv'
<1>1. proc' \in Proc /\ proc'.pc = "idle" /\ proc'.ready = FALSE /\ queued' = TRUE
  BY IdleType DEF Retry
<1>2. /\ inst' \in InstObj /\ inst'.live = inst.live /\ inst'.running = inst.running
      /\ inst'.st.phase = "VmiReady" => inst.st.phase = "VmiReady"
  BY DEF StatusOnly
<1>3. TypeOK'
  BY <1>1, <1>2 DEF Inv, TypeOK
<1>4. ReadyKnown' /\ Paths'
  BY <1>1, <1>2 DEF Inv, ReadyKnown, Paths
<1>5. Ordered'
  BY <1>1, <1>2 DEF Inv, Ordered, Kind, Disk
<1>6. Followed'
  BY <1>1, <1>2 DEF Inv, Followed
<1> QED
  BY <1>3, <1>4, <1>5, <1>6 DEF Inv

(* What a reconciliation creates, it creates in order.                     *)
LEMMA ReconcileStep == ASSUME Inv, Reconcile PROVE Inv'
<1> USE DEF Inv
<1>k. /\ Kind \in {"vm", "persistent", "container"} /\ Disk \in BOOLEAN
      /\ proc.pc \in Steps /\ proc.running \in BOOLEAN /\ proc.ready \in BOOLEAN
      /\ proc.base \in Status /\ queued \in BOOLEAN
  BY InstanceAssumption DEF TypeOK, ScenarioOK, Kind, Disk, Proc
<1>s. Steps = {"idle", "volume", "importing", "secret", "expose", "machine", "publish",
               "claim", "deploy", "deployed"}
  BY DEF Steps
<1>r. {"Importing", "SecretNotCreated", "ServiceNotCreated", "IngressNotCreated", "VmiNotCreated",
       "VmiCreated", "VmiOff", "VmiReady"} \subseteq Reasons
  BY DEF Reasons
<1>u. StatusOnly({"VmiNotCreated"}) => StatusOnly(Reasons \ {"VmiReady"})
  BY <1>r DEF StatusOnly
<1>t. UNCHANGED env /\ (UNCHANGED faults \/ Fault("call")) => faults' \in 0 .. env'.failures
  BY FaultEffect DEF TypeOK
<1>d. /\ dv \in DvPhases /\ vm \in VmObj /\ depl \in DeplObj /\ pvc \in BOOLEAN /\ moved \in BOOLEAN
  BY DEF TypeOK
<1>o. inst.live => /\ Kind = "persistent" /\ vm.made => dv = "Succeeded"
                   /\ depl.made /\ depl.volume = "claim" => pvc
  BY DEF Ordered
<1>1. CASE InstGet
  <2>1. UNCHANGED <<inst, cluster, watched, pollers, ops, env>> /\ faults' \in 0 .. env'.failures
    BY <1>1, <1>t DEF InstGet, TypeOK
  <2>2. CASE Retry
    BY <1>d, <1>o, <2>1, <2>2, RetryStep, Unpublished DEF cluster, watched
  <2>3. CASE ~seen.inst.live /\ proc' = Idle /\ queued' = FALSE
    BY <2>1, <2>3, IdleType DEF TypeOK, ReadyKnown, Paths, Ordered, Followed, Achieved, Kind,
                                Disk, cluster, watched
  <2>4. CASE /\ proc' = [pc |-> FirstStep, base |-> seen.inst.st,
                         running |-> seen.inst.running, ready |-> FALSE]
             /\ queued' = FALSE
    <3>1. /\ Kind = "persistent" => FirstStep = "volume"
          /\ Kind = "vm" => FirstStep = "secret"
          /\ Kind = "container" => FirstStep = "expose"
      BY DEF FirstStep
    <3>2. FirstStep \in Steps
      BY <1>k, <1>s, <3>1
    <3> HIDE DEF FirstStep
    <3>3. /\ proc' \in Proc /\ proc'.pc = FirstStep /\ proc'.running = seen.inst.running
          /\ proc'.ready = FALSE
      BY <2>4, <3>2 DEF Proc, TypeOK, InstObj
    <3>4. TypeOK'
      BY <2>1, <2>4, <3>3 DEF TypeOK, cluster, watched
    <3>5. ReadyKnown' /\ Paths'
      BY <1>k, <2>1, <3>1, <3>3 DEF ReadyKnown, Paths, Kind, cluster
    <3>6. Ordered'
      BY <1>k, <2>1, <3>1, <3>3 DEF Ordered, Kind, Disk, cluster, watched
    <3>7. Followed'
      BY <1>k, <2>1, <3>1, <3>3 DEF Followed, Kind, cluster, watched
    <3> QED
      BY <3>4, <3>5, <3>6, <3>7
  <2> QED
    BY <1>1, <2>2, <2>3, <2>4 DEF InstGet
<1>2. CASE InstVolume
  <2>1. /\ proc.pc = "volume" /\ faults' \in 0 .. env'.failures
        /\ UNCHANGED <<inst, vm, vmi, answers, pvc, depl, reached, watched, pollers, ops, env>>
    BY <1>2, <1>t DEF InstVolume, At
  <2>2. dv' \in DvPhases /\ (dv' # dv => dv = "none" /\ dv' = "Importing")
    BY <1>2, <1>d DEF InstVolume, DvPhases
  <2>3. CASE Retry
    BY <1>d, <1>o, <2>1, <2>2, <2>3, RetryStep, Unpublished DEF watched
  <2>4. CASE /\ seen.dv # "none" /\ dv' = dv
             /\ Goto(IF seen.dv = "Succeeded" THEN "secret" ELSE "importing")
    <3>1. /\ proc' \in Proc /\ proc'.running = proc.running /\ proc'.ready = proc.ready
          /\ proc'.pc = (IF seen.dv = "Succeeded" THEN "secret" ELSE "importing")
          /\ queued' = queued /\ queued' \in BOOLEAN
      BY <1>s, <2>4, GotoEffect
    <3> QED
      BY <2>1, <2>4, <3>1 DEF TypeOK, ReadyKnown, Paths, Ordered, Followed, Achieved, Kind,
                              Disk, watched
  <2>5. CASE seen.dv = "none" /\ dv' = "Importing" /\ Goto("importing")
    <3>1. /\ proc' \in Proc /\ proc'.running = proc.running /\ proc'.ready = proc.ready
          /\ proc'.pc = "importing" /\ queued' = queued /\ queued' \in BOOLEAN
      BY <1>s, <2>5, GotoEffect
    <3> QED
      BY <2>1, <2>2, <2>5, <3>1 DEF TypeOK, ReadyKnown, Paths, Ordered, Followed, Achieved,
                                    Kind, Disk, watched
  <2> QED
    BY <1>2, <2>3, <2>4, <2>5 DEF InstVolume
<1>3. CASE InstImporting
  <2>1. /\ proc.pc = "importing" /\ proc' = Idle /\ queued' = queued
        /\ UNCHANGED <<cluster, watched, pollers, ops, env>>
    BY <1>3 DEF InstImporting, At, Done
  <2>2. StatusOnly({"Importing"}) /\ faults' \in 0 .. env'.failures
    BY <1>3, <1>r, <2>1, PublishEffect DEF InstImporting
  <2> QED
    BY <2>1, <2>2, IdleType DEF TypeOK, ReadyKnown, Paths, Ordered, Followed, Achieved, Kind,
                                Disk, StatusOnly, cluster, watched
<1>4. CASE InstSecret
  <2>1. /\ proc.pc = "secret" /\ Goto("expose") /\ UNCHANGED <<cluster, watched, pollers, ops, env>>
        /\ faults' \in 0 .. env'.failures
    BY <1>4, <1>t DEF InstSecret, At
  <2>2. StatusOnly({"SecretNotCreated"})
    BY <1>4, <1>r, ReportEffect, Unpublished DEF InstSecret
  <2>3. /\ proc' \in Proc /\ proc'.running = proc.running /\ proc'.ready = proc.ready
        /\ proc'.pc = "expose" /\ queued' = queued
    BY <1>s, <2>1, GotoEffect
  <2> QED
    BY <2>1, <2>2, <2>3 DEF TypeOK, ReadyKnown, Paths, Ordered, Followed, Achieved, Kind, Disk,
                            StatusOnly, cluster, watched
<1>5. CASE InstExpose
  <2>1. /\ proc.pc = "expose" /\ UNCHANGED <<cluster, watched, pollers, ops, env>>
        /\ faults' \in 0 .. env'.failures
    BY <1>5, <1>t DEF InstExpose, At
  <2>2. CASE Retry /\ \E reason \in {"ServiceNotCreated", "IngressNotCreated"} : Report("Error", reason)
    <3>1. StatusOnly(Reasons \ {"VmiReady"})
      BY <1>r, <2>2, ReportEffect DEF StatusOnly
    <3> QED
      BY <1>d, <1>o, <2>1, <2>2, <3>1, RetryStep DEF cluster, watched
  <2>3. CASE Goto(AfterExpose) /\ UNCHANGED inst
    <3>1. /\ Kind # "container" => AfterExpose = "machine"
          /\ Kind = "container" /\ Disk => AfterExpose = "claim"
          /\ Kind = "container" /\ ~Disk => AfterExpose = "deploy"
      BY DEF AfterExpose
    <3>2. AfterExpose \in {"machine", "claim", "deploy"}
      BY <1>k, <3>1
    <3> HIDE DEF AfterExpose
    <3>3. /\ proc' \in Proc /\ proc'.running = proc.running /\ proc'.ready = proc.ready
          /\ proc'.pc = AfterExpose /\ queued' = queued /\ queued' \in BOOLEAN
      BY <1>s, <2>3, <3>2, GotoEffect
    <3>4. TypeOK' /\ ReadyKnown'
      BY <2>1, <2>3, <3>3 DEF TypeOK, ReadyKnown, cluster, watched
    <3>5. Paths'
      BY <1>k, <2>1, <3>1, <3>3 DEF Paths, Kind, Disk
    <3>6. Ordered'
      BY <1>k, <2>1, <2>3, <3>1, <3>2, <3>3 DEF Ordered, Kind, Disk, cluster, watched
    <3>7. Followed'
      BY <2>1, <2>3, <3>2, <3>3 DEF Followed, cluster, watched
    <3> QED
      BY <3>4, <3>5, <3>6, <3>7
  <2> QED
    BY <1>5, <2>2, <2>3 DEF InstExpose
<1>6. CASE InstMachine
  <2>1. /\ proc.pc = "machine" /\ faults' \in 0 .. env'.failures
        /\ UNCHANGED <<dv, vmi, answers, pvc, depl, reached, watched, pollers, ops, env>>
    BY <1>6, <1>t DEF InstMachine, At
  <2>2. Machine \in VmObj /\ Machine.made /\ Machine.running = (Kind = "vm" \/ proc.running)
    BY <1>k DEF Machine, VmObj
  <2>3. vm' \in VmObj
    BY <1>6, <1>d, <2>2 DEF InstMachine
  <2>4. CASE Retry /\ Report("Warning", "VmiNotCreated")
    <3>1. StatusOnly(Reasons \ {"VmiReady"})
      BY <1>r, <1>u, <2>4, ReportEffect
    <3>2. inst.live /\ Kind = "persistent" => dv = "Succeeded"
      BY <2>1 DEF Ordered
    <3> QED
      BY <1>d, <1>o, <2>1, <2>3, <2>4, <3>1, <3>2, RetryStep DEF watched
  <2>5. CASE vm' = Machine /\ Goto("publish") /\ UNCHANGED inst
    <3>1. /\ proc' \in Proc /\ proc'.running = proc.running /\ proc'.ready = proc.ready
          /\ proc'.pc = "publish" /\ queued' = queued
      BY <1>s, <2>5, GotoEffect
    <3>2. vm'.made /\ (Kind = "persistent" => vm'.running = proc.running)
      BY <1>k, <2>2, <2>5
    <3>3. TypeOK' /\ ReadyKnown' /\ Paths'
      BY <2>1, <2>3, <2>5, <3>1 DEF TypeOK, ReadyKnown, Paths, Kind, watched
    <3>4. Ordered' /\ Followed'
      BY <2>1, <2>5, <3>1, <3>2 DEF Paths, Ordered, Followed, Achieved, Kind, Disk, watched
    <3> QED
      BY <3>3, <3>4
  <2> QED
    BY <1>6, <2>4, <2>5 DEF InstMachine
<1>7. CASE InstPublish
  <2>1. /\ proc.pc = "publish" /\ proc' = Idle /\ queued' = queued
        /\ UNCHANGED <<cluster, watched, ops, env>>
    BY <1>7 DEF InstPublish, At, Done
  <2>2. StatusOnly({"VmiOff", "VmiCreated"}) /\ faults' \in 0 .. env'.failures
    <3>1. \E reason \in {"VmiOff", "VmiCreated"} : Publish(proc.base, "Normal", reason, FALSE)
      BY <1>7 DEF InstPublish
    <3> QED
      BY <1>r, <2>1, <3>1, PublishEffect DEF StatusOnly
  <2>3. /\ pollers' \in [Slots -> Poller]
        /\ \A i \in Slots : pollers'[i].pc = "ready" => pollers[i].pc = "ready"
    <3> DEFINE new == [pc |-> "poll", base |-> proc.base, last |-> "none"]
    <3>1. new \in Poller /\ new.pc = "poll"
      BY <1>k DEF Poller
    <3>2. pollers' = pollers \/ pollers' = [pollers EXCEPT ![FreeSlot] = new]
      BY <1>7 DEF InstPublish
    <3> HIDE DEF new, FreeSlot
    <3> QED
      BY <3>1, <3>2 DEF TypeOK
  <2>4. TypeOK' /\ ReadyKnown'
    BY <2>1, <2>2, <2>3, IdleType DEF TypeOK, ReadyKnown, StatusOnly, cluster, watched
  <2>5. Paths' /\ Ordered' /\ Followed'
    BY <2>1, <2>2, <2>3, IdleType DEF TypeOK, Paths, Ordered, Followed, Achieved, Kind, Disk,
                                      StatusOnly, cluster, watched
  <2> QED
    BY <2>4, <2>5
<1>8. CASE InstClaim
  <2>1. /\ proc.pc = "claim" /\ faults' \in 0 .. env'.failures /\ pvc' \in BOOLEAN /\ (pvc => pvc')
        /\ UNCHANGED <<dv, vm, vmi, answers, depl, reached, watched, pollers, ops, env>>
    BY <1>8, <1>d, <1>t DEF InstClaim, At
  <2>2. CASE Retry /\ Report("Error", "VmiNotCreated")
    <3>1. StatusOnly(Reasons \ {"VmiReady"})
      BY <1>r, <1>u, <2>2, ReportEffect
    <3> QED
      BY <1>d, <1>o, <2>1, <2>2, <3>1, RetryStep DEF watched
  <2>3. CASE pvc' = TRUE /\ Goto("deploy") /\ UNCHANGED inst
    <3>1. /\ proc' \in Proc /\ proc'.running = proc.running /\ proc'.ready = proc.ready
          /\ proc'.pc = "deploy" /\ queued' = queued
      BY <1>s, <2>3, GotoEffect
    <3> QED
      BY <2>1, <2>3, <3>1 DEF TypeOK, ReadyKnown, Paths, Ordered, Followed, Achieved, Kind,
                              Disk, watched
  <2> QED
    BY <1>8, <2>2, <2>3 DEF InstClaim
<1>9. CASE InstDeploy
  <2>1. /\ proc.pc = "deploy" /\ faults' \in 0 .. env'.failures
        /\ UNCHANGED <<dv, vm, vmi, answers, pvc, reached, seen, dirty, pollers, ops, env>>
    BY <1>9, <1>t DEF InstDeploy, At
  <2>2. ASSUME Deployed
        PROVE  /\ depl' \in DeplObj /\ depl'.made /\ depl'.ready = depl.ready /\ moved' \in BOOLEAN
               /\ depl'.volume = "claim" => Disk
    BY <1>d, <2>2 DEF Deployed, DeplObj
  <2>3. inst.live /\ Disk => pvc
    BY <2>1 DEF Ordered
  <2>4. CASE Retry /\ Report("Error", "VmiNotCreated") /\ (UNCHANGED <<depl, moved>> \/ Deployed)
    <3>1. StatusOnly(Reasons \ {"VmiReady"})
      BY <1>r, <1>u, <2>4, ReportEffect
    <3>2. /\ depl' \in DeplObj /\ (depl'.ready => depl.ready) /\ moved' \in BOOLEAN
          /\ inst.live /\ depl'.made /\ depl'.volume = "claim" => pvc
      BY <1>d, <1>o, <2>2, <2>3, <2>4
    <3> QED
      BY <1>d, <1>o, <2>1, <2>4, <3>1, <3>2, RetryStep
  <2>5. CASE /\ Deployed /\ proc' = [proc EXCEPT !.pc = "deployed", !.ready = depl.ready]
             /\ UNCHANGED <<inst, queued>>
    <3>1. /\ proc' \in Proc /\ proc'.pc = "deployed" /\ proc'.running = proc.running
          /\ proc'.ready = depl.ready
      BY <1>d, <1>s, <2>5 DEF Proc, TypeOK, DeplObj
    <3>2. TypeOK' /\ ReadyKnown' /\ Paths'
      BY <2>1, <2>2, <2>5, <3>1 DEF TypeOK, ReadyKnown, Paths, Kind
    <3>3. Ordered' /\ Followed'
      BY <2>1, <2>2, <2>3, <2>5, <3>1 DEF Paths, Ordered, Followed, Achieved, Kind, Disk
    <3> QED
      BY <3>2, <3>3
  <2> QED
    BY <1>9, <2>4, <2>5 DEF InstDeploy
<1>10. CASE InstDeployed
  <2>1. /\ proc.pc = "deployed" /\ proc' = Idle /\ queued' = queued
        /\ UNCHANGED <<cluster, watched, pollers, ops, env>>
    BY <1>10 DEF InstDeployed, At, Done
  <2> DEFINE reason == IF proc.ready THEN "VmiReady" ELSE "VmiCreated"
  <2>2. reason \in Reasons /\ (reason = "VmiReady" => reached)
    BY <1>k, <1>r DEF ReadyKnown
  <2>3. Publish(proc.base, "Normal", reason, proc.ready)
    BY <1>10 DEF InstDeployed
  <2> HIDE DEF reason
  <2>4. StatusOnly({reason}) /\ faults' \in 0 .. env'.failures
    BY <1>k, <2>1, <2>2, <2>3, PublishEffect
  <2> QED
    BY <2>1, <2>2, <2>4, IdleType DEF TypeOK, ReadyKnown, Paths, Ordered, Followed, Achieved,
                                      Kind, Disk, StatusOnly, cluster, watched
<1> QED
  BY <1>1, <1>2, <1>3, <1>4, <1>5, <1>6, <1>7, <1>8, <1>9, <1>10 DEF Reconcile

(* The goroutines only write the status.                                   *)
LEMMA PollStep == ASSUME Inv, NEW i \in Slots, Poll(i) PROVE Inv'
<1> USE DEF Inv
<1>1. UNCHANGED <<cluster, watched, queued, proc, ops, env>>
  BY DEF Poll, PollVmi, Dial, PollReady
<1>2. ASSUME StatusOnly(Reasons), inst'.st.phase = "VmiReady" => reached, faults' \in 0 .. env'.failures,
             NEW p \in Poller, pollers' = [pollers EXCEPT ![i] = p], p.pc = "ready" => reached
      PROVE  Inv'
  <2>1. /\ pollers' \in [Slots -> Poller]
        /\ \A j \in Slots : pollers'[j].pc = "ready" => pollers[j].pc = "ready" \/ reached
    BY <1>2 DEF TypeOK
  <2>2. TypeOK' /\ ReadyKnown'
    BY <1>1, <1>2, <2>1 DEF TypeOK, ReadyKnown, StatusOnly, cluster, watched
  <2>3. Paths' /\ Ordered' /\ Followed'
    BY <1>1, <1>2 DEF Paths, Ordered, Followed, Achieved, Kind, Disk, StatusOnly, cluster, watched
  <2> QED
    BY <2>2, <2>3
<1>3. ASSUME NEW pc \in {"poll", "dial", "ready"}, NEW last \in VmiPhases \cup {"none"}, Advance(i, pc, last)
      PROVE  \E p \in Poller : pollers' = [pollers EXCEPT ![i] = p] /\ p.pc = pc
  <2> DEFINE p == [pollers[i] EXCEPT !.pc = pc, !.last = last]
  <2>1. p \in Poller /\ p.pc = pc
    BY <1>3 DEF TypeOK, Poller
  <2>2. pollers' = [pollers EXCEPT ![i] = p]
    BY <1>3 DEF Advance
  <2> QED
    BY <2>1, <2>2
<1>4. End(i) => \E p \in Poller : pollers' = [pollers EXCEPT ![i] = p] /\ p.pc = "none"
  BY IdleType DEF End
<1>5. pollers[i] \in Poller /\ pollers[i].base \in Status /\ pollers[i].last \in VmiPhases \cup {"none"}
  BY DEF TypeOK, Poller
<1>6. CASE PollVmi(i)
  <2>1. PICK reason \in {VmiReason[p] : p \in VmiPhases} :
          \/ Publish(pollers[i].base, "Warning", reason, FALSE)
          \/ Publish(pollers[i].base, "Normal", reason, TRUE)
    <3>1. VmiReason["Failed"] = "VmiFailed" /\ "Failed" \in VmiPhases /\ seen.vmi \in VmiPhases
      BY <1>6 DEF PollVmi, VmiReason, VmiPhases, TypeOK
    <3> QED
      BY <1>6, <3>1 DEF PollVmi
  <2>2. reason \in Reasons /\ reason # "VmiReady"
    <3>1. \A p \in VmiPhases : VmiReason[p] \in Reasons /\ VmiReason[p] # "VmiReady"
      BY DEF Reasons, VmiReason, VmiPhases
    <3> QED
      BY <2>1, <3>1
  <2>3. StatusOnly({reason}) /\ faults' \in 0 .. env'.failures
    BY <1>1, <2>1, <2>2, PublishEffect
  <2>4. StatusOnly(Reasons) /\ (inst'.st.phase = "VmiReady" => reached)
    BY <2>2, <2>3 DEF StatusOnly, ReadyKnown
  <2>5. \/ End(i)
        \/ \E pc \in {"poll", "dial"} : Advance(i, pc, seen.vmi)
    BY <1>6 DEF PollVmi
  <2>6. PICK p \in Poller : pollers' = [pollers EXCEPT ![i] = p] /\ p.pc # "ready"
    BY <1>3, <1>4, <2>5 DEF TypeOK
  <2> QED
    BY <1>2, <2>3, <2>4, <2>6
<1>7. CASE Dial(i)
  <2>1. /\ UNCHANGED inst /\ faults' \in 0 .. env'.failures
        /\ (answers /\ Advance(i, "ready", pollers[i].last)) \/ End(i)
    BY <1>1, <1>7, FaultEffect DEF Dial, TypeOK
  <2>2. PICK p \in Poller : pollers' = [pollers EXCEPT ![i] = p] /\ (p.pc = "ready" => reached)
    BY <1>3, <1>4, <1>5, <2>1 DEF ReadyKnown
  <2>3. StatusOnly(Reasons) /\ (inst'.st.phase = "VmiReady" => reached)
    BY <2>1, Unpublished DEF ReadyKnown
  <2> QED
    BY <1>2, <2>1, <2>2, <2>3
<1>8. CASE PollReady(i)
  <2>1. pollers[i].pc = "ready" /\ Publish(pollers[i].base, "Normal", "VmiReady", TRUE) /\ End(i)
    BY <1>8 DEF PollReady
  <2>2. "VmiReady" \in Reasons /\ reached
    BY <2>1 DEF ReadyKnown, Reasons
  <2>3. StatusOnly({"VmiReady"}) /\ faults' \in 0 .. env'.failures
    BY <1>1, <2>1, <2>2, PublishEffect
  <2>4. StatusOnly(Reasons)
    BY <2>2, <2>3 DEF StatusOnly
  <2>5. PICK p \in Poller : pollers' = [pollers EXCEPT ![i] = p] /\ p.pc # "ready"
    BY <1>4, <2>1
  <2> QED
    BY <1>2, <2>2, <2>3, <2>4, <2>5
<1> QED
  BY <1>6, <1>7, <1>8 DEF Poll

-----------------------------------------------------------------------------
(* The invariant holds of every behaviour of the controller.               *)
LEMMA InvHolds == Spec => []Inv
<1>1. Init => Inv
  <2> SUFFICES ASSUME Init PROVE Inv
    OBVIOUS
  <2>1. NoStatus \in Status /\ NoInst \in InstObj /\ NoVm \in VmObj /\ NoDepl \in DeplObj
    BY DEF NoStatus, Status, Reasons, NoInst, InstObj, NoVm, VmObj, NoDepl, DeplObj
  <2>2. inst \in InstObj /\ inst.st.phase = "none"
    BY <2>1 DEF Init, InstObj, NoStatus
  <2>3. /\ seen \in [inst : InstObj, dv : DvPhases, vm : VmObj, vmi : VmiPhases \cup {"none"}, depl : DeplObj]
        /\ seen.dv = "none"
    BY <2>1 DEF Init, DvPhases
  <2>4. /\ dv = "none" /\ vm \in VmObj /\ vm.made = FALSE /\ vmi = "none" /\ depl \in DeplObj
        /\ depl.made = FALSE /\ depl.ready = FALSE /\ env \in Scenarios
    BY <2>1 DEF Init, NoVm, NoDepl
  <2>5. /\ answers = FALSE /\ pvc = FALSE /\ moved = FALSE /\ reached = FALSE /\ dirty = TRUE
        /\ queued = FALSE /\ proc = Idle /\ pollers = [i \in Slots |-> NoPoller]
    BY DEF Init
  <2>6. faults \in 0 .. env.failures /\ ops \in 0 .. env.ops
    BY <2>4, InstanceAssumption DEF Init, ScenarioOK
  <2>7. TypeOK
    BY <2>2, <2>3, <2>4, <2>5, <2>6, IdleType DEF TypeOK, DvPhases
  <2> QED
    BY <2>2, <2>3, <2>4, <2>5, <2>7, IdleType DEF Inv, ReadyKnown, Paths, Ordered, Followed
<1>2. Inv /\ [Next]_vars => Inv'
  <2>1. Inv /\ UNCHANGED vars => Inv'
    <3> SUFFICES ASSUME Inv, UNCHANGED vars PROVE Inv'
      OBVIOUS
    <3>1. TypeOK' /\ ReadyKnown'
      BY DEF vars, cluster, watched, Inv, TypeOK, ReadyKnown
    <3>2. Paths' /\ Ordered' /\ Followed'
      BY DEF vars, cluster, watched, Inv, Paths, Ordered, Followed, Achieved, Kind, Disk
    <3> QED
      BY <3>1, <3>2 DEF Inv
  <2> QED
    BY <2>1, PeopleStep, PlatformStep, WatchStep, ReconcileStep, PollStep DEF Next
<1> QED
  BY <1>1, <1>2, PTL DEF Spec

(* VmiReady is published only for an environment that has answered         *)
(* (getVmiStatus, waitForConnection, ReadyReplicas), by whichever          *)
(* reconciliation or goroutine.                                            *)
THEOREM ReadyIsEarned == Spec => []ReadyWasReached
<1>1. Inv => ReadyWasReached
  BY DEF Inv, ReadyKnown, ReadyWasReached
<1> QED
  BY <1>1, InvHolds, PTL

(* Once nothing is pending the machine is what the Instance asks for, and  *)
(* at no time does it lack its disk or its claim (createPersistentlogic,   *)
(* CreateContainerEnvironment).                                            *)
THEOREM MachineIsFollowed == Spec => []MachineFollowsSpec
<1>1. Inv => MachineFollowsSpec
  BY DEF Inv, Ordered, Followed, Achieved, TypeOK, DvPhases, MachineFollowsSpec, Settled, At
<1> QED
  BY <1>1, InvHolds, PTL
=============================================================================
