---------------------------- MODULE KeycloakToken ----------------------------
(***************************************************************************)
(* The goroutine that keeps the operator's Keycloak token alive            *)
(* (checkAndRenewTokenPeriodically, cmd/tenant-operator/main.go). At every *)
(* tick of a Ticker it renews the token if less than Limit is left of it.  *)
(* A Ticker ticks every Interval and holds at most one tick that nobody    *)
(* took. A token is good for Lifetime from when Keycloak issues it; a      *)
(* login takes at most Latency. Times are in a unit of one's choice.       *)
(***************************************************************************)
EXTENDS Integers

CONSTANTS Interval, Limit, Lifetime, Latency

ASSUME TokenAssumption ==
  /\ Interval \in Nat \ {0} /\ Limit \in Nat /\ Lifetime \in Nat /\ Latency \in Nat
  /\ Limit > Interval + Latency
  /\ Lifetime > Interval + 2 * Latency

VARIABLES
  pc,     \* waiting for a tick, logging in, or the process is down
  left,   \* how long the stored token is still good for
  next,   \* time to the next tick
  ticks,  \* the ticks in the channel, which has room for one
  busy    \* for how long the login has been under way

vars == <<pc, left, next, ticks, busy>>

(* The variables have their types; the channel of a Ticker never holds     *)
(* more than one tick, and no login is waited for longer than Latency      *)
(* (checkAndRenewTokenPeriodically).                                       *)
TypeOK ==
  /\ pc \in {"wait", "login", "down"} /\ left \in 0 .. Lifetime /\ next \in 1 .. Interval
  /\ ticks \in {0, 1} /\ busy \in 0 .. Latency

(* NewKcActor logs in before the manager starts. *)
Init ==
  /\ pc = "wait" /\ left \in Lifetime - Latency .. Lifetime /\ next = Interval
  /\ ticks = 0 /\ busy = 0

(* Time goes by; a tick is taken and a login answered in time. *)
Time ==
  /\ ~(pc = "wait" /\ ticks = 1) /\ (pc = "login" => busy < Latency)
  /\ left' = IF left = 0 THEN 0 ELSE left - 1
  /\ next' = IF next = 1 THEN Interval ELSE next - 1
  /\ ticks' = IF next = 1 THEN 1 ELSE ticks
  /\ busy' = IF pc = "login" THEN busy + 1 ELSE busy
  /\ UNCHANGED pc

(* variant: a token that has expired is renewed, one about to is not *)
Check_expired ==
  /\ pc = "wait" /\ ticks = 1 /\ ticks' = 0
  /\ pc' = IF left = 0 THEN "login" ELSE "wait"
  /\ UNCHANGED <<left, next, busy>>

Check ==
  /\ pc = "wait" /\ ticks = 1 /\ ticks' = 0
  /\ pc' = IF left < Limit THEN "login" ELSE "wait"
  /\ UNCHANGED <<left, next, busy>>

(* LoginAdmin answers with a token issued since it was asked, SetToken     *)
Renew ==
  /\ pc = "login" /\ pc' = "wait" /\ busy' = 0
  /\ left' \in Lifetime - busy .. Lifetime
  /\ UNCHANGED <<next, ticks>>

(* klog.Fatal ends the process ... *)
Fatal == pc = "login" /\ pc' = "down" /\ busy' = 0 /\ UNCHANGED <<left, next, ticks>>

(* ... and Kubernetes starts it again *)
Restart ==
  /\ pc = "down" /\ pc' = "wait" /\ next' = Interval /\ ticks' = 0
  /\ left' \in Lifetime - Latency .. Lifetime /\ UNCHANGED busy

Next == Time \/ Check \/ Renew \/ Fatal \/ Restart

Spec == Init /\ [][Next]_vars

-----------------------------------------------------------------------------
(* The token that GetAccessToken hands to the reconcilers is never an      *)
(* expired one, however ticks, logins and restarts fall.                   *)
TokenValid == pc # "down" => left > 0

(* What makes it so: at any time the token outlives the next tick and the  *)
(* login that may follow it.                                               *)
Margin ==
  /\ pc = "wait" => left > Latency + (IF ticks = 1 THEN 0 ELSE next)
  /\ pc = "login" => left > Latency - busy
=============================================================================
