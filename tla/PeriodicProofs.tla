--------------------------- MODULE PeriodicProofs ---------------------------
(***************************************************************************)
(* The token that the operator calls Keycloak with never expires           *)
(* (TokenValid), and the jobs that delete stale instances delete no other  *)
(* (OnlyExpiredDeleted).                                                   *)
(***************************************************************************)
EXTENDS Periodic, TLAPS

-----------------------------------------------------------------------------
(* The token of the operator *)

TokenInv == TypeOK /\ Margin

(* Every step of checkAndRenewTokenPeriodically, and the passing of time,  *)
(* keeps the token ahead of the next tick and of the login that follows.   *)
LEMMA TokenStep ==
  ASSUME TokenInv, [Next]_vars
  PROVE  TokenInv'
<1> USE TokenAssumption DEF TokenInv, TypeOK, Margin
<1>1. CASE Time
  BY <1>1 DEF Time
<1>2. CASE Check
  BY <1>2 DEF Check
<1>3. CASE Renew
  BY <1>3 DEF Renew
<1>4. CASE Fatal
  BY <1>4 DEF Fatal
<1>5. CASE Restart
  BY <1>5 DEF Restart
<1>6. CASE UNCHANGED vars
  BY <1>6 DEF vars
<1>7. QED
  BY <1>1, <1>2, <1>3, <1>4, <1>5, <1>6 DEF Next

(* TokenValid holds of every behaviour: the limit need only exceed an      *)
(* interval and a login, and the lifetime an interval and two logins.      *)
THEOREM TokenNeverExpires == Spec => []TokenValid
<1>1. Init => TokenInv
  BY TokenAssumption DEF Init, TokenInv, TypeOK, Margin
<1>2. TokenInv /\ [Next]_vars => TokenInv'
  BY TokenStep
<1>3. TokenInv => TokenValid
  BY TokenAssumption DEF TokenInv, TypeOK, Margin, TokenValid
<1>4. QED
  BY <1>1, <1>2, <1>3, PTL DEF Spec

-----------------------------------------------------------------------------
(* The jobs that delete stale instances *)

Job == [todo : SUBSET Names, age : [Names -> 0 .. MaxAge], cur : Names \cup {None}, span : Nat]

(* What a job is about to delete was too old when it was listed, and has   *)
(* not become younger in the list.                                         *)
StaleInv ==
  /\ inst \in [Names -> [live : BOOLEAN, age : 0 .. MaxAge]]
  /\ tmpl \in [Names -> Spans \cup {None}] /\ job \in [Jobs -> Job]
  /\ \A j \in Jobs : job[j].cur # None =>
       /\ job[j].cur \in job[j].todo
       /\ S!InstanceIsExpired(job[j].span, job[j].age[job[j].cur])

(* A job that is done with an instance has nothing in hand.                *)
LEMMA SkipEffect ==
  ASSUME NEW jb \in Job, NEW n \in Names
  PROVE  S!Skip(jb, n) \in Job /\ S!Skip(jb, n).cur = None
<1>1. S!Idle \in Job /\ S!Idle.cur = None
  BY StaleAssumption DEF S!Idle, Job
<1> DEFINE rest == [jb EXCEPT !.todo = @ \ {n}, !.age[n] = 0, !.cur = None, !.span = 0]
<1>2. rest \in Job /\ rest.cur = None
  <2> DEFINE age == [jb.age EXCEPT ![n] = 0]
  <2>1. rest = [jb EXCEPT !.todo = @ \ {n}, !.age = age, !.cur = None, !.span = 0]
    BY DEF Job
  <2>2. age \in [Names -> 0 .. MaxAge]
    BY StaleAssumption DEF Job
  <2> HIDE DEF age
  <2>3. QED
    BY <2>1, <2>2 DEF Job
<1>3. QED
  BY <1>1, <1>2 DEF S!Skip

(* A name whose instance is deleted.                                       *)
LEMMA Vacant ==
  ASSUME StaleInv, NEW n \in Names
  PROVE  [inst EXCEPT ![n].live = FALSE, ![n].age = 0]
           \in [Names -> [live : BOOLEAN, age : 0 .. MaxAge]]
<1> DEFINE r == [inst[n] EXCEPT !.live = FALSE, !.age = 0]
<1>1. r \in [live : BOOLEAN, age : 0 .. MaxAge]
  <2>1. inst[n] \in [live : BOOLEAN, age : 0 .. MaxAge] /\ 0 \in 0 .. MaxAge
    BY StaleAssumption DEF StaleInv
  <2>2. \A x \in [live : BOOLEAN, age : 0 .. MaxAge] :
          [x EXCEPT !.live = FALSE, !.age = 0] \in [live : BOOLEAN, age : 0 .. MaxAge]
    BY <2>1
  <2>3. QED
    BY <2>1, <2>2, Zenon
<1>2. [inst EXCEPT ![n].live = FALSE, ![n].age = 0] = [inst EXCEPT ![n] = r]
  BY DEF StaleInv
<1> HIDE DEF r
<1>3. QED
  BY <1>1, <1>2 DEF StaleInv

(* The clock, the people and the jobs keep it so.                          *)
LEMMA StaleStep ==
  ASSUME StaleInv, [S!Next]_(S!vars)
  PROVE  StaleInv'
<1>1. CASE UNCHANGED S!vars
  BY <1>1 DEF S!vars, StaleInv
<1>2. CASE S!Time
  <2>1. \A a \in 0 .. MaxAge : S!Older(a) \in 0 .. MaxAge /\ S!Older(a) >= a
    BY StaleAssumption DEF S!Older
  <2>2. inst' \in [Names -> [live : BOOLEAN, age : 0 .. MaxAge]] /\ tmpl' = tmpl
    BY <1>2, <2>1 DEF S!Time, StaleInv
  <2>3. ASSUME NEW j \in Jobs
        PROVE  /\ job'[j] \in Job /\ job'[j].cur = job[j].cur /\ job'[j].todo = job[j].todo
               /\ job'[j].span = job[j].span
               /\ \A n \in job[j].todo : job'[j].age[n] >= job[j].age[n]
    <3> DEFINE age == [n \in Names |-> IF n \in job[j].todo THEN S!Older(job[j].age[n]) ELSE 0]
    <3>1. job[j] \in Job
      BY DEF StaleInv
    <3>2. job'[j] = [job[j] EXCEPT !.age = age]
      BY <1>2, <3>1 DEF S!Time, Job
    <3>3. age \in [Names -> 0 .. MaxAge] /\ \A n \in job[j].todo : age[n] >= job[j].age[n]
      BY <2>1, <3>1, StaleAssumption DEF Job
    <3> HIDE DEF age
    <3>4. QED
      BY <3>1, <3>2, <3>3 DEF Job
  <2>4. job' \in [Jobs -> Job]
    BY <1>2, <2>3 DEF S!Time
  <2>5. ASSUME NEW j \in Jobs, job'[j].cur # None
        PROVE  /\ job'[j].cur \in job'[j].todo
               /\ S!InstanceIsExpired(job'[j].span, job'[j].age[job'[j].cur])
    <3>1. job[j] \in Job /\ job'[j] \in Job
      BY <2>3 DEF StaleInv
    <3>2. QED
      BY <2>3, <2>5, <3>1 DEF StaleInv, S!InstanceIsExpired, Job
  <2>6. QED
    BY <2>2, <2>4, <2>5 DEF StaleInv
<1>3. ASSUME NEW n \in Names, S!UserEdit(n) PROVE StaleInv'
  <2>1. job' = job /\ tmpl' \in [Names -> Spans \cup {None}]
    BY <1>3 DEF S!UserEdit, S!Edit, StaleInv
  <2>2. inst' \in [Names -> [live : BOOLEAN, age : 0 .. MaxAge]]
    <3>1. [live |-> TRUE, age |-> 0] \in [live : BOOLEAN, age : 0 .. MaxAge]
      BY StaleAssumption
    <3>2. QED
      BY <1>3, <3>1, Vacant DEF S!UserEdit, StaleInv
  <2>3. QED
    BY <2>1, <2>2 DEF StaleInv
<1>4. ASSUME NEW j \in Jobs, S!Run(j) PROVE StaleInv'
  <2>0. job[j] \in Job /\ tmpl' = tmpl
    BY <1>4 DEF StaleInv, S!Run, S!GetInstanceList, S!GetLifeSpan, S!DeleteInstance
  <2>1. inst' \in [Names -> [live : BOOLEAN, age : 0 .. MaxAge]]
    <3>1. CASE inst' = inst
      BY <3>1 DEF StaleInv
    <3>2. CASE S!DeleteInstance(j)
      <4>1. job[j].cur \in Names
        BY <2>0, <3>2 DEF S!DeleteInstance, Job
      <4>2. inst' = [inst EXCEPT ![job[j].cur].live = FALSE, ![job[j].cur].age = 0] \/ inst' = inst
        BY <3>2 DEF S!DeleteInstance
      <4>3. CASE inst' = [inst EXCEPT ![job[j].cur].live = FALSE, ![job[j].cur].age = 0]
        BY <4>1, <4>3, Vacant, Zenon
      <4>4. QED
        BY <3>1, <4>2, <4>3
    <3>3. QED
      BY <1>4, <3>1, <3>2 DEF S!Run, S!GetInstanceList, S!GetLifeSpan
  <2>2. SUFFICES \/ job' = job
                 \/ \E q \in Job :
                      /\ job' = [job EXCEPT ![j] = q]
                      /\ q.cur # None => /\ q.cur \in q.todo
                                         /\ S!InstanceIsExpired(q.span, q.age[q.cur])
    BY <2>0, <2>1 DEF StaleInv
  <2>3. CASE S!GetInstanceList(j)
    <3> DEFINE found == {n \in Names : inst[n].live}
               age == [n \in Names |-> IF n \in found THEN inst[n].age ELSE 0]
               q == [job[j] EXCEPT !.todo = found, !.age = age]
    <3>1. job' = job \/ job' = [job EXCEPT ![j] = q]
      BY <2>3 DEF S!GetInstanceList
    <3>2. age \in [Names -> 0 .. MaxAge]
      BY StaleAssumption DEF StaleInv
    <3> HIDE DEF age, found
    <3>3. found \subseteq Names /\ job[j].cur = None
      BY <2>3 DEF found, S!GetInstanceList, S!Idle
    <3>4. q \in Job /\ q.cur = None
      BY <2>0, <3>2, <3>3 DEF Job
    <3> HIDE DEF q
    <3>5. QED
      BY <3>1, <3>4
  <2>4. CASE S!DeleteInstance(j)
    <3>1. job[j].cur \in Names
      BY <2>0, <2>4 DEF S!DeleteInstance, Job
    <3>2. QED
      BY <2>0, <2>4, <3>1, SkipEffect DEF S!DeleteInstance
  <2>5. ASSUME NEW n \in Names, S!GetLifeSpan(j, n)
        PROVE  \E q \in Job :
                 /\ job' = [job EXCEPT ![j] = q]
                 /\ q.cur # None => /\ q.cur \in q.todo
                                    /\ S!InstanceIsExpired(q.span, q.age[q.cur])
    <3> DEFINE time == S!ConvertToTime(tmpl[n])
               q == [job[j] EXCEPT !.cur = n, !.span = time]
    <3>1. \/ job' = [job EXCEPT ![j] = S!Skip(job[j], n)]
          \/ /\ tmpl[n] # None /\ S!InstanceIsExpired(time, job[j].age[n])
             /\ job' = [job EXCEPT ![j] = q]
      BY <2>5 DEF S!GetLifeSpan
    <3>2. CASE job' = [job EXCEPT ![j] = S!Skip(job[j], n)]
      BY <2>0, <3>2, SkipEffect
    <3>3. CASE /\ tmpl[n] # None /\ S!InstanceIsExpired(time, job[j].age[n])
               /\ job' = [job EXCEPT ![j] = q]
      <4>1. time \in Nat /\ n \in job[j].todo
        BY <2>5, <3>3, StaleAssumption DEF StaleInv, S!GetLifeSpan
      <4> HIDE DEF time
      <4>2. /\ q \in Job /\ q.cur = n /\ q.todo = job[j].todo /\ q.span = time
            /\ q.age = job[j].age
        BY <2>0, <4>1 DEF Job
      <4> HIDE DEF q
      <4>3. QED
        BY <3>3, <4>1, <4>2
    <3>4. QED
      BY <3>1, <3>2, <3>3
  <2>6. QED
    BY <1>4, <2>3, <2>4, <2>5 DEF S!Run
<1>5. QED
  BY <1>1, <1>2, <1>3, <1>4 DEF S!Next

(* Every instance a job deletes had outlived its template's deleteAfter,   *)
(* or has the name of one that had (delete_instance_expired).              *)
THEOREM OnlyStaleAreDeleted == S!Spec => OnlyExpiredDeleted
<1> DEFINE Expired ==
      \A j \in Jobs : LET n == job[j].cur IN
        n # None /\ job'[j].cur # n /\ inst[n].live /\ ~inst'[n].live
          => \/ S!InstanceIsExpired(job[j].span, inst[n].age)
             \/ inst[n].age < job[j].age[n] /\ S!InstanceIsExpired(job[j].span, job[j].age[n])
<1>1. S!Init => StaleInv
  <2> SUFFICES ASSUME S!Init PROVE StaleInv
    OBVIOUS
  <2>1. S!Idle \in Job /\ S!Idle.cur = None
    BY StaleAssumption DEF S!Idle, Job
  <2>2. inst \in [Names -> [live : BOOLEAN, age : 0 .. MaxAge]]
    BY StaleAssumption DEF S!Init
  <2>3. QED
    BY <2>1, <2>2 DEF S!Init, StaleInv
<1>2. StaleInv /\ [S!Next]_(S!vars) => StaleInv'
  BY StaleStep
<1>3. StaleInv => [Expired]_(S!vars)
  <2> SUFFICES ASSUME StaleInv, NEW j \in Jobs, job[j].cur # None
               PROVE  LET n == job[j].cur IN
                      \/ S!InstanceIsExpired(job[j].span, inst[n].age)
                      \/ /\ inst[n].age < job[j].age[n]
                         /\ S!InstanceIsExpired(job[j].span, job[j].age[n])
    OBVIOUS
  <2>1. job[j] \in Job /\ job[j].cur \in Names
    BY DEF StaleInv, Job
  <2>2. inst[job[j].cur].age \in 0 .. MaxAge
    BY <2>1 DEF StaleInv
  <2>3. QED
    BY <2>1, <2>2, StaleAssumption DEF StaleInv, S!InstanceIsExpired, Job
<1>4. QED
  BY <1>1, <1>2, <1>3, PTL DEF S!Spec, OnlyExpiredDeleted, S!OnlyExpiredDeleted
=============================================================================
