------------------------------- MODULE Instance -------------------------------
(***************************************************************************)
(* The Instance controller (pkg/instance-controller) for one Instance of a *)
(* template with one environment, of Kind "vm", "persistent" or            *)
(* "container" (Disk tells whether a container has a disk). env is one of  *)
(* the Scenarios: the environment, what people do and what fails. inst is  *)
(* the Instance at the API server; dv, vm, vmi, pvc and depl are the objects   *)
(* of its environment, run by CDI, KubeVirt and Kubernetes. seen holds     *)
(* what the controller's caches show; dirty and moved say that an event of *)
(* the Instance (a change of its specification) or of the Deployment has   *)
(* yet to be delivered. pollers are the goroutines that follow the virtual *)
(* machine once a reconciliation has created it: they outlive it, and go   *)
(* on with the copy of the Instance it had read. reached records whether   *)
(* the environment ever answered.                                          *)
(*                                                                         *)
(* Status writes are merge patches: only the fields that differ from the   *)
(* writer's own copy are sent. The specification of a VirtualMachine or    *)
(* Deployment is built anew on every reconciliation and lacks the defaults *)
(* the API server filled in, so it is always sent, with the version read.  *)
(* url stands for both url and ip of the status.                           *)
(*                                                                         *)
(* Bounds: MaxPollers goroutines and, for each scenario, its number of     *)
(* actions of people (out of its edits) and of failures (of the kinds in   *)
(* its faults).                                                            *)
(***************************************************************************)
EXTENDS Naturals

CONSTANTS Scenarios, MaxPollers

ScenarioOK(sc) ==
  /\ sc.kind \in {"vm", "persistent", "container"} /\ sc.disk \in BOOLEAN
  /\ sc.edits \subseteq {"toggle", "delete"} /\ sc.ops \in Nat
  /\ sc.faults \subseteq {"call", "status", "slow", "vm", "restart"} /\ sc.failures \in Nat

ASSUME InstanceAssumption == MaxPollers \in Nat /\ \A sc \in Scenarios : ScenarioOK(sc)

VARIABLES inst, dv, vm, vmi, answers, pvc, depl, seen, dirty, moved, queued, proc,
          pollers, reached, env, faults, ops

cluster == <<dv, vm, vmi, answers, pvc, depl, reached>>
watched == <<seen, dirty, moved>>
Kind == env.kind
Disk == env.disk
vars == <<inst, cluster, watched, queued, proc, pollers, faults, ops, env>>

VmiPhases == {"Scheduling", "Running", "Succeeded", "Failed"}
VmiReason == [Scheduling |-> "VmiScheduling", Running |-> "VmiRunning",
              Succeeded |-> "VmiSucceeded", Failed |-> "VmiFailed"]
Reasons == {VmiReason[p] : p \in VmiPhases} \cup
  {"none", "Importing", "SecretNotCreated", "ServiceNotCreated", "IngressNotCreated",
   "VmiNotCreated", "VmiCreated", "VmiOff", "VmiReady"}

Status == [phase : Reasons, url : BOOLEAN]
InstObj == [live : BOOLEAN, running : BOOLEAN, st : Status]
DvPhases == {"none", "Importing", "Succeeded"}
VmObj == [made : BOOLEAN, running : BOOLEAN, owned : BOOLEAN]
DeplObj == [made : BOOLEAN, ready : BOOLEAN, volume : {"claim", "emptyDir"}]
Steps == {"idle", "volume", "importing", "secret", "expose", "machine", "publish",
          "claim", "deploy", "deployed"}
Proc == [pc : Steps, base : Status, running : BOOLEAN, ready : BOOLEAN]
Poller == [pc : {"none", "poll", "dial", "ready"}, base : Status, last : VmiPhases \cup {"none"}]

NoStatus == [phase |-> "none", url |-> FALSE]
NoInst == [live |-> FALSE, running |-> FALSE, st |-> NoStatus]
NoVm == [made |-> FALSE, running |-> FALSE, owned |-> FALSE]
NoDepl == [made |-> FALSE, ready |-> FALSE, volume |-> "emptyDir"]
Idle == [pc |-> "idle", base |-> NoStatus, running |-> FALSE, ready |-> FALSE]
NoPoller == [pc |-> "none", base |-> NoStatus, last |-> "none"]
Slots == 1 .. MaxPollers

Init ==
  /\ inst = [live |-> TRUE, running |-> TRUE, st |-> NoStatus]
  /\ dv = "none" /\ vm = NoVm /\ vmi = "none" /\ answers = FALSE /\ pvc = FALSE
  /\ depl = NoDepl /\ moved = FALSE /\ reached = FALSE
  /\ seen = [inst |-> NoInst, dv |-> "none", vm |-> NoVm, vmi |-> "none", depl |-> NoDepl]
  /\ dirty = TRUE /\ queued = FALSE /\ proc = Idle
  /\ pollers = [i \in Slots |-> NoPoller]
  /\ env \in Scenarios /\ faults = env.failures /\ ops = env.ops

Fault(kind) == kind \in env.faults /\ faults > 0 /\ faults' = faults - 1

-----------------------------------------------------------------------------
(* People *)

Edit(kind) == kind \in env.edits /\ inst.live /\ ops > 0 /\ ops' = ops - 1 /\ dirty' = TRUE

UserToggle ==
  /\ Edit("toggle") /\ inst' = [inst EXCEPT !.running = ~@]
  /\ UNCHANGED <<cluster, seen, moved, queued, proc, pollers, faults, env>>

UserDelete ==
  /\ Edit("delete") /\ inst' = NoInst
  /\ UNCHANGED <<cluster, seen, moved, queued, proc, pollers, faults, env>>

-----------------------------------------------------------------------------
(* CDI imports the disk; KubeVirt runs the virtual machine; the Deployment *)
(* controller runs the pod; the garbage collector removes owned objects.   *)

Import ==
  /\ dv = "Importing" /\ dv' = "Succeeded"
  /\ UNCHANGED <<inst, vm, vmi, answers, pvc, depl, reached, watched, queued, proc, pollers,
                 faults, ops, env>>

Virt(phase, up) ==
  /\ vmi' = phase /\ answers' = up /\ reached' = (reached \/ up)
  /\ UNCHANGED <<inst, dv, vm, pvc, depl, watched, queued, proc, pollers, ops, env>>

VmStart == vm.made /\ vm.running /\ vmi = "none" /\ Virt("Scheduling", FALSE) /\ UNCHANGED faults
VmRun == vmi = "Scheduling" /\ Virt("Running", FALSE) /\ UNCHANGED faults
VmAnswer == vmi = "Running" /\ ~answers /\ Virt("Running", TRUE) /\ UNCHANGED faults
VmFail == vmi \in {"Scheduling", "Running"} /\ Fault("vm") /\ Virt("Failed", FALSE)
VmEnd ==
  /\ vmi \in {"Scheduling", "Running"} /\ ~(vm.made /\ vm.running)
  /\ Virt("Succeeded", FALSE) /\ UNCHANGED faults
VmGone ==
  /\ vmi \in {"Succeeded", "Failed"} /\ (Kind = "persistent" \/ ~vm.made)
  /\ Virt("none", FALSE) /\ UNCHANGED faults

PodReady ==
  /\ depl.made /\ (depl.ready => Fault("vm")) /\ (~depl.ready => UNCHANGED faults)
  /\ depl' = [depl EXCEPT !.ready = ~@] /\ moved' = TRUE /\ reached' = (reached \/ depl'.ready)
  /\ UNCHANGED <<inst, dv, vm, vmi, answers, pvc, seen, dirty, queued, proc, pollers, ops, env>>

Collect ==
  /\ ~inst.live /\ (dv # "none" \/ (vm.made /\ vm.owned) \/ pvc \/ depl.made)
  /\ dv' = "none" /\ pvc' = FALSE /\ depl' = NoDepl /\ moved' = (moved \/ depl.made)
  /\ vm' = IF vm.owned THEN NoVm ELSE vm
  /\ UNCHANGED <<inst, vmi, answers, reached, seen, dirty, queued, proc, pollers, faults, ops, env>>

-----------------------------------------------------------------------------
(* Watches. An Instance is queued by a change of its specification only    *)
(* (GenerationChangedPredicate), by any event of its Deployment and by     *)
(* those of its DataVolume once imported (dataVolumePredicate).            *)

WatchInst ==
  /\ seen.inst # inst \/ dirty
  /\ seen' = [seen EXCEPT !.inst = inst] /\ dirty' = FALSE /\ queued' = (queued \/ dirty)
  /\ UNCHANGED <<inst, cluster, moved, proc, pollers, faults, ops, env>>

WatchVolume ==
  /\ seen.dv # dv /\ seen' = [seen EXCEPT !.dv = dv]
  /\ queued' = (queued \/ "Succeeded" \in {dv, seen.dv})
  /\ UNCHANGED <<inst, cluster, dirty, moved, proc, pollers, faults, ops, env>>

WatchMachine ==
  /\ \/ seen.vm # vm /\ seen' = [seen EXCEPT !.vm = vm]
     \/ seen.vmi # vmi /\ seen' = [seen EXCEPT !.vmi = vmi]
  /\ UNCHANGED <<inst, cluster, dirty, moved, queued, proc, pollers, faults, ops, env>>

WatchDeployment ==
  /\ moved /\ moved' = FALSE /\ seen' = [seen EXCEPT !.depl = depl] /\ queued' = TRUE
  /\ UNCHANGED <<inst, cluster, dirty, proc, pollers, faults, ops, env>>

Restart ==
  /\ Fault("restart") /\ proc' = Idle /\ pollers' = [i \in Slots |-> NoPoller]
  /\ seen' = [inst |-> inst, dv |-> dv, vm |-> vm, vmi |-> vmi, depl |-> depl]
  /\ dirty' = FALSE /\ moved' = FALSE /\ queued' = inst.live
  /\ UNCHANGED <<inst, cluster, ops, env>>

-----------------------------------------------------------------------------
(* setInstanceStatus with a copy of the Instance whose status was base. *)

Patched(base, new) ==
  [phase |-> IF new.phase = base.phase THEN inst.st.phase ELSE new.phase,
   url |-> IF new.url = base.url THEN inst.st.url ELSE new.url]

SetStatus(base, type, reason, url) ==
  IF \/ ~inst.live
     \/ base.phase = "VmiReady" /\ reason \notin {"VmiReady", "VmiOff"} /\ type = "Normal"
  THEN UNCHANGED inst
  ELSE inst' = [inst EXCEPT !.st = Patched(base, [phase |-> reason, url |-> url])]

(* The patch succeeds, or its failure is logged. *)
Publish(base, type, reason, url) ==
  \/ SetStatus(base, type, reason, url) /\ UNCHANGED faults
  \/ UNCHANGED inst /\ Fault("status")

(* A call fails and the reconciler tries to publish the reason. *)
Report(type, reason) ==
  SetStatus(proc.base, type, reason, FALSE) \/ ("status" \in env.faults /\ UNCHANGED inst)

-----------------------------------------------------------------------------
(* The reconciler *)

At(pc) == proc.pc = pc
Goto(pc) == proc' = [proc EXCEPT !.pc = pc] /\ UNCHANGED queued
Done == proc' = Idle /\ UNCHANGED queued
Retry == proc' = Idle /\ queued' = TRUE

FirstStep == CASE Kind = "persistent" -> "volume" [] Kind = "vm" -> "secret" [] OTHER -> "expose"
AfterExpose == IF Kind # "container" THEN "machine" ELSE IF Disk THEN "claim" ELSE "deploy"

(* The namespace and the template are looked up as well: an error requeues *)
(* the Instance, without a change of its status.                           *)
InstGet ==
  /\ queued /\ At("idle") /\ \E i \in Slots : pollers[i] = NoPoller
  /\ IF ~seen.inst.live
     THEN proc' = Idle /\ queued' = FALSE /\ UNCHANGED faults
     ELSE \/ /\ proc' = [pc |-> FirstStep, base |-> seen.inst.st,
                         running |-> seen.inst.running, ready |-> FALSE]
             /\ queued' = FALSE /\ UNCHANGED faults
          \/ Fault("call") /\ Retry
  /\ UNCHANGED <<inst, cluster, watched, pollers, ops, env>>

(* A DataVolume found in the cache tells whether the import is over. One   *)
(* that is not found is created, which fails if it exists after all.       *)
InstVolume ==
  /\ At("volume")
  /\ \/ seen.dv # "none" /\ Goto(IF seen.dv = "Succeeded" THEN "secret" ELSE "importing")
        /\ UNCHANGED <<dv, faults>>
     \/ seen.dv = "none" /\ dv = "none" /\ dv' = "Importing" /\ Goto("importing")
        /\ UNCHANGED faults
     \/ seen.dv = "none" /\ dv # "none" /\ Retry /\ UNCHANGED <<dv, faults>>
     \/ Fault("call") /\ Retry /\ dv' \in {dv, IF dv = "none" THEN "Importing" ELSE dv}
  /\ UNCHANGED <<inst, vm, vmi, answers, pvc, depl, reached, watched, pollers, ops, env>>

InstImporting ==
  /\ At("importing") /\ Publish(proc.base, "Normal", "Importing", FALSE) /\ Done
  /\ UNCHANGED <<cluster, watched, pollers, ops, env>>

(* WebDAV credentials and public keys that cannot be read are left out of  *)
(* the secret; a secret that cannot be created does not end the reconciliation. *)
InstSecret ==
  /\ At("secret") /\ Goto("expose")
  /\ \/ UNCHANGED <<inst, faults>>
     \/ Fault("call") /\ Report("Warning", "SecretNotCreated")
  /\ UNCHANGED <<cluster, watched, pollers, ops, env>>

InstExpose ==
  /\ At("expose")
  /\ \/ Goto(AfterExpose) /\ UNCHANGED <<inst, faults>>
     \/ Fault("call") /\ Retry
        /\ \E reason \in {"ServiceNotCreated", "IngressNotCreated"} : Report("Error", reason)
  /\ UNCHANGED <<cluster, watched, pollers, ops, env>>

(* variant: no owner reference is set *)
Machine_noOwner == [made |-> TRUE, running |-> Kind = "vm" \/ proc.running, owned |-> FALSE]
Machine == [made |-> TRUE, running |-> Kind = "vm" \/ proc.running, owned |-> TRUE]

(* variant: a failure is logged and not returned *)
InstMachine_logOnly ==
  /\ At("machine")
  /\ \/ seen.vm = vm /\ vm' = Machine /\ Goto("publish") /\ UNCHANGED <<inst, faults>>
     \/ seen.vm # vm /\ Report("Warning", "VmiNotCreated") /\ Done /\ UNCHANGED <<vm, faults>>
     \/ Fault("call") /\ Done /\ UNCHANGED <<inst, vm>>
  /\ UNCHANGED <<dv, vmi, answers, pvc, depl, reached, watched, pollers, ops, env>>

(* A VirtualMachine is sent with the version in the cache, a               *)
(* VirtualMachineInstance is only created.                                 *)
InstMachine ==
  /\ At("machine")
  /\ \/ seen.vm = vm /\ vm' = Machine /\ Goto("publish") /\ UNCHANGED <<inst, faults>>
     \/ seen.vm # vm /\ Report("Warning", "VmiNotCreated") /\ Retry /\ UNCHANGED <<vm, faults>>
     \/ Fault("call") /\ Report("Warning", "VmiNotCreated") /\ Retry
        /\ (UNCHANGED vm \/ (seen.vm = vm /\ vm' = Machine))
  /\ UNCHANGED <<dv, vmi, answers, pvc, depl, reached, watched, pollers, ops, env>>

FreeSlot == CHOOSE i \in Slots : pollers[i] = NoPoller /\ \A j \in Slots : pollers[j] = NoPoller => i <= j

(* variant: a machine already reported as created is not followed again *)
InstPublish_firstOnly ==
  /\ At("publish") /\ Done
  /\ IF Kind = "persistent" /\ ~proc.running
     THEN Publish(proc.base, "Normal", "VmiOff", FALSE) /\ UNCHANGED pollers
     ELSE /\ Publish(proc.base, "Normal", "VmiCreated", FALSE)
          /\ pollers' = [pollers EXCEPT ![FreeSlot] =
                           IF proc.base.phase = "VmiCreated" THEN NoPoller
                           ELSE [pc |-> "poll", base |-> proc.base, last |-> "none"]]
  /\ UNCHANGED <<cluster, watched, ops, env>>

InstPublish ==
  /\ At("publish") /\ Done
  /\ IF Kind = "persistent" /\ ~proc.running
     THEN Publish(proc.base, "Normal", "VmiOff", FALSE) /\ UNCHANGED pollers
     ELSE /\ Publish(proc.base, "Normal", "VmiCreated", FALSE)
          /\ pollers' = [pollers EXCEPT ![FreeSlot] =
                           [pc |-> "poll", base |-> proc.base, last |-> "none"]]
  /\ UNCHANGED <<cluster, watched, ops, env>>

InstClaim ==
  /\ At("claim")
  /\ \/ pvc' = TRUE /\ Goto("deploy") /\ UNCHANGED <<inst, faults>>
     \/ Fault("call") /\ Report("Error", "VmiNotCreated") /\ Retry /\ pvc' \in {pvc, TRUE}
  /\ UNCHANGED <<dv, vm, vmi, answers, depl, reached, watched, pollers, ops, env>>

(* The Deployment is sent with the version in the cache; the answer tells  *)
(* whether a replica is ready.                                             *)
Deployed ==
  /\ seen.depl = depl /\ ~moved
  /\ depl' = [made |-> TRUE, ready |-> depl.ready,
              volume |-> IF Disk THEN "claim" ELSE "emptyDir"]
  /\ moved' = (depl' # depl)

InstDeploy ==
  /\ At("deploy")
  /\ \/ Deployed /\ proc' = [proc EXCEPT !.pc = "deployed", !.ready = depl.ready]
        /\ UNCHANGED <<inst, queued, faults>>
     \/ (moved \/ seen.depl # depl) /\ Report("Error", "VmiNotCreated") /\ Retry
        /\ UNCHANGED <<depl, moved, faults>>
     \/ Fault("call") /\ Report("Error", "VmiNotCreated") /\ Retry
        /\ (UNCHANGED <<depl, moved>> \/ Deployed)
  /\ UNCHANGED <<dv, vm, vmi, answers, pvc, reached, seen, dirty, pollers, ops, env>>

InstDeployed ==
  /\ At("deployed") /\ Done
  /\ Publish(proc.base, "Normal", IF proc.ready THEN "VmiReady" ELSE "VmiCreated", proc.ready)
  /\ UNCHANGED <<cluster, watched, pollers, ops, env>>

-----------------------------------------------------------------------------
(* getVmiStatus, in a goroutine per reconciliation: it follows the phase of *)
(* the virtual machine until it runs, dials it until it answers (for at    *)
(* most 120 attempts) and publishes VmiReady. While the virtual machine    *)
(* does not exist it keeps polling.                                        *)

Advance(i, pc, last) == pollers' = [pollers EXCEPT ![i] = [@ EXCEPT !.pc = pc, !.last = last]]
End(i) == pollers' = [pollers EXCEPT ![i] = NoPoller]

PollVmi(i) ==
  LET p == pollers[i] IN
  /\ p.pc = "poll" /\ seen.vmi \notin {"none", p.last}
  /\ IF seen.vmi = "Failed"
     THEN Publish(p.base, "Warning", "VmiFailed", FALSE) /\ End(i)
     ELSE /\ Publish(p.base, "Normal", VmiReason[seen.vmi], TRUE)
          /\ Advance(i, IF seen.vmi = "Running" THEN "dial" ELSE "poll", seen.vmi)
  /\ UNCHANGED <<cluster, watched, queued, proc, ops, env>>

(* variant: one attempt is enough, whatever it gives *)
Dial_once(i) ==
  /\ pollers[i].pc = "dial" /\ Advance(i, "ready", pollers[i].last) /\ UNCHANGED faults
  /\ UNCHANGED <<inst, cluster, watched, queued, proc, ops, env>>

Dial(i) ==
  /\ pollers[i].pc = "dial"
  /\ \/ answers /\ Advance(i, "ready", pollers[i].last) /\ UNCHANGED faults
     \/ ~answers /\ Fault("slow") /\ End(i)
  /\ UNCHANGED <<inst, cluster, watched, queued, proc, ops, env>>

PollReady(i) ==
  /\ pollers[i].pc = "ready" /\ Publish(pollers[i].base, "Normal", "VmiReady", TRUE) /\ End(i)
  /\ UNCHANGED <<cluster, watched, queued, proc, ops, env>>

-----------------------------------------------------------------------------
People == UserToggle \/ UserDelete
Platform == Import \/ VmStart \/ VmRun \/ VmAnswer \/ VmEnd \/ VmGone \/ Collect
Watches == WatchInst \/ WatchVolume \/ WatchMachine \/ WatchDeployment
Reconcile ==
  \/ InstGet \/ InstVolume \/ InstImporting \/ InstSecret \/ InstExpose \/ InstMachine
  \/ InstPublish \/ InstClaim \/ InstDeploy \/ InstDeployed
Poll(i) == PollVmi(i) \/ Dial(i) \/ PollReady(i)

Next ==
  People \/ Platform \/ VmFail \/ PodReady \/ Watches \/ Restart \/ Reconcile
  \/ \E i \in Slots : Poll(i)

Spec == Init /\ [][Next]_vars

(* The platform, the watches and the work queue make progress, and a       *)
(* goroutine that can take a step takes it.                                *)
FairSpec ==
  /\ Spec /\ WF_vars(WatchInst) /\ WF_vars(WatchVolume) /\ WF_vars(WatchMachine)
  /\ WF_vars(WatchDeployment) /\ WF_vars(Platform) /\ WF_vars(PodReady /\ ~depl.ready)
  /\ WF_vars(Reconcile) /\ \A i \in Slots : WF_vars(Poll(i))

-----------------------------------------------------------------------------
(* Properties *)

(* The variables have the types of the objects and steps they stand for;   *)
(* in particular setInstanceStatus stores no other phase.                  *)
TypeOK ==
  /\ inst \in InstObj /\ dv \in DvPhases /\ vm \in VmObj /\ vmi \in VmiPhases \cup {"none"}
  /\ answers \in BOOLEAN /\ pvc \in BOOLEAN /\ depl \in DeplObj /\ moved \in BOOLEAN
  /\ seen \in [inst : InstObj, dv : DvPhases, vm : VmObj, vmi : VmiPhases \cup {"none"},
               depl : DeplObj]
  /\ dirty \in BOOLEAN /\ queued \in BOOLEAN /\ proc \in Proc
  /\ pollers \in [Slots -> Poller] /\ reached \in BOOLEAN
  /\ env \in Scenarios /\ faults \in 0 .. env.failures /\ ops \in 0 .. env.ops

(* VmiReady is never published for an environment that has not answered a  *)
(* connection (waitForConnection, ReadyReplicas), whichever reconciliation *)
(* or goroutine writes it and however old the copy it patches.             *)
ReadyWasReached == inst.st.phase = "VmiReady" => reached

Settled ==
  /\ inst.live /\ ~queued /\ ~dirty /\ ~moved /\ At("idle") /\ seen.inst = inst
  /\ seen.dv = dv /\ dv # "Importing"

(* Once no event and no reconciliation is pending, the machine exists and  *)
(* a persistent one is on if and only if the Instance asks for it, after   *)
(* any sequence of toggles, stale reads, failed calls and restarts; and at *)
(* no time is there a persistent machine without its imported disk, or a   *)
(* Deployment without the claim it mounts (createPersistentlogic,          *)
(* CreateContainerEnvironment).                                            *)
MachineFollowsSpec ==
  /\ TypeOK
  /\ Settled => /\ Kind = "persistent" => vm.made /\ vm.running = inst.running
                /\ Kind = "vm" => vm.made
                /\ Kind = "container" => depl.made
  /\ Kind = "persistent" /\ vm.made /\ inst.live => dv = "Succeeded"
  /\ depl.made /\ inst.live /\ depl.volume = "claim" => pvc

(* An Instance that is neither deleted nor switched off becomes VmiReady,  *)
(* whatever calls fail and wherever the operator is restarted: a failed    *)
(* reconciliation is retried, the end of the import queues the Instance,   *)
(* and a restart starts a new goroutine to follow the machine. (Not if a   *)
(* status patch is lost, or the machine fails or does not answer in time.) *)
BecomesReady ==
  env.faults \subseteq {"call", "restart"} =>
    <>(inst.st.phase = "VmiReady" \/ ~inst.live \/ ~inst.running)

(* Everything created for an Instance is gone for good some time after its *)
(* deletion, also what a reconciliation that had read it before creates    *)
(* afterwards: every object is created with the Instance as its owner.     *)
NothingOutlives ==
  <>[](inst.live \/ (dv = "none" /\ ~vm.made /\ vmi = "none" /\ ~pvc /\ ~depl.made))

=============================================================================
