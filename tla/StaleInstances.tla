---------------------------- MODULE StaleInstances ----------------------------
(***************************************************************************)
(* The cron job that deletes the instances older than the deleteAfter of   *)
(* their template (cmd/delete-stale-instances). The job lists the          *)
(* instances once, then reads the template of each and deletes the         *)
(* instance by its name. Nothing keeps two jobs from overlapping, nor      *)
(* people from editing meanwhile.                                          *)
(*                                                                         *)
(* Ages stop growing once older than every life span (MaxAge). A template  *)
(* gives a number and a unit, whose length in steps of the clock is Unit;  *)
(* every instance has a template of its own. MaxOps caps the number of     *)
(* edits people make and MaxFaults that of the calls that fail.            *)
(***************************************************************************)
EXTENDS Naturals, FiniteSets

CONSTANTS Names, Jobs, Spans, Unit, MaxAge, MaxOps, MaxFaults, None

ConvertToTime(deleteAfter) == deleteAfter[1] * Unit[deleteAfter[2]]

VARIABLES
  inst,        \* for each name: whether the instance exists, and its age
  tmpl,        \* the deleteAfter of its template, None if there is no template
  job,         \* the jobs
  faults, ops

vars == <<inst, tmpl, job, faults, ops>>

Idle == [todo |-> {}, age |-> [n \in Names |-> 0], cur |-> None, span |-> 0]

(* The variables have their types; in particular a job works on one of the *)
(* instances it listed, with the life span its template gave               *)
(* (delete_instance_expired).                                              *)
TypeOK ==
  /\ inst \in [Names -> [live : BOOLEAN, age : 0 .. MaxAge]]
  /\ tmpl \in [Names -> Spans \cup {None}]
  /\ job \in [Jobs -> [todo : SUBSET Names, age : [Names -> 0 .. MaxAge],
                       cur : Names \cup {None}, span : {ConvertToTime(s) : s \in Spans} \cup {0}]]
  /\ \A j \in Jobs : job[j].cur # None => job[j].cur \in job[j].todo
  /\ faults \in 0 .. MaxFaults /\ ops \in 0 .. MaxOps

Init ==
  /\ inst = [n \in Names |-> [live |-> FALSE, age |-> 0]]
  /\ tmpl \in [Names -> Spans] /\ job = [j \in Jobs |-> Idle]
  /\ faults = MaxFaults /\ ops = MaxOps

-----------------------------------------------------------------------------
Older(age) == IF age = MaxAge THEN age ELSE age + 1

(* The timestamps of the instances, and of the listed ones, get older *)
Time ==
  /\ inst' = [n \in Names |-> IF inst[n].live THEN [inst[n] EXCEPT !.age = Older(@)] ELSE inst[n]]
  /\ job' = [j \in Jobs |-> [job[j] EXCEPT !.age =
               [n \in Names |-> IF n \in job[j].todo THEN Older(@[n]) ELSE 0]]]
  /\ inst' # inst \/ job' # job
  /\ UNCHANGED <<tmpl, faults, ops>>

Edit == ops > 0 /\ ops' = ops - 1 /\ UNCHANGED <<job, faults>>

UserEdit(n) ==
  \/ /\ Edit /\ ~inst[n].live
     /\ inst' = [inst EXCEPT ![n] = [live |-> TRUE, age |-> 0]] /\ UNCHANGED tmpl
  \/ /\ Edit /\ inst[n].live
     /\ inst' = [inst EXCEPT ![n].live = FALSE, ![n].age = 0] /\ UNCHANGED tmpl
  \/ /\ Edit /\ tmpl' \in {[tmpl EXCEPT ![n] = s] : s \in Spans \cup {None}}
     /\ tmpl' # tmpl /\ UNCHANGED inst

-----------------------------------------------------------------------------
(* The job *)

Fault == faults > 0 /\ faults' = faults - 1

(* A list that fails is None, on which the job ends with an exception. *)
GetInstanceList(j) ==
  /\ job[j] = Idle
  /\ \/ /\ UNCHANGED faults
        /\ LET found == {n \in Names : inst[n].live} IN
           job' = [job EXCEPT ![j].todo = found,
                              ![j].age = [n \in Names |-> IF n \in found THEN inst[n].age ELSE 0]]
     \/ Fault /\ UNCHANGED job
  /\ UNCHANGED <<inst, tmpl, ops>>

(* Done with n *)
Skip(jb, n) ==
  IF jb.todo = {n} THEN Idle
  ELSE [jb EXCEPT !.todo = @ \ {n}, !.age[n] = 0, !.cur = None, !.span = 0]

InstanceIsExpired(time, age) == age > time

(* variant: an instance at its limit is deleted *)
GetLifeSpan_atLimit(j, n) ==
  /\ n \in job[j].todo /\ job[j].cur = None /\ tmpl[n] # None
  /\ LET time == ConvertToTime(tmpl[n]) IN
     job' = [job EXCEPT ![j] = IF job[j].age[n] >= time THEN [@ EXCEPT !.cur = n, !.span = time]
                               ELSE Skip(@, n)]
  /\ UNCHANGED <<inst, tmpl, faults, ops>>

(* variant: an instance without a template ends the loop *)
GetLifeSpan_stop(j, n) ==
  /\ n \in job[j].todo /\ job[j].cur = None
  /\ job' = [job EXCEPT ![j] = IF tmpl[n] = None THEN Idle
                               ELSE IF InstanceIsExpired(ConvertToTime(tmpl[n]), job[j].age[n])
                               THEN [@ EXCEPT !.cur = n, !.span = ConvertToTime(tmpl[n])]
                               ELSE Skip(@, n)]
  /\ UNCHANGED <<inst, tmpl, faults, ops>>

(* The template of the next instance: without one the instance is skipped *)
GetLifeSpan(j, n) ==
  /\ n \in job[j].todo /\ job[j].cur = None
  /\ \/ /\ tmpl[n] # None /\ UNCHANGED faults
        /\ LET time == ConvertToTime(tmpl[n]) IN
           job' = [job EXCEPT ![j] = IF InstanceIsExpired(time, job[j].age[n])
                                     THEN [@ EXCEPT !.cur = n, !.span = time] ELSE Skip(@, n)]
     \/ /\ tmpl[n] = None /\ UNCHANGED faults
        /\ job' = [job EXCEPT ![j] = Skip(@, n)]
     \/ Fault /\ job' = [job EXCEPT ![j] = Skip(@, n)]
  /\ UNCHANGED <<inst, tmpl, ops>>

(* The deletion, by name; an error is logged. *)
DeleteInstance(j) ==
  /\ job[j].cur # None
  /\ LET n == job[j].cur IN
     /\ job' = [job EXCEPT ![j] = Skip(@, n)]
     /\ \/ inst' = [inst EXCEPT ![n].live = FALSE, ![n].age = 0] /\ UNCHANGED faults
        \/ Fault /\ UNCHANGED inst
  /\ UNCHANGED <<tmpl, ops>>

Run(j) == GetInstanceList(j) \/ DeleteInstance(j) \/ \E n \in Names : GetLifeSpan(j, n)

Next == Time \/ (\E n \in Names : UserEdit(n)) \/ \E j \in Jobs : Run(j)

Spec == Init /\ [][Next]_vars

-----------------------------------------------------------------------------
(* A job only deletes an instance that is older than the life span its     *)
(* template had when the job read it, or one that has taken the name of    *)
(* the instance that was: delete_instance_expired deletes by name, without *)
(* the uid it listed.                                                      *)
OnlyExpiredDeleted ==
  [][\A j \in Jobs : LET n == job[j].cur IN
       n # None /\ job'[j].cur # n /\ inst[n].live /\ ~inst'[n].live
         => \/ InstanceIsExpired(job[j].span, inst[n].age)
            \/ inst[n].age < job[j].age[n] /\ InstanceIsExpired(job[j].span, job[j].age[n])]_vars

(* Whatever calls fail and whichever templates are missing, in the end no  *)
(* instance is left whose template says when to delete it.                 *)
StaleInstancesGo ==
  /\ []TypeOK
  /\ <>[](\A n \in Names : inst[n].live => tmpl[n] = None)
=============================================================================
