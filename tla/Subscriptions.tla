---------------------------- MODULE Subscriptions ----------------------------
(***************************************************************************)
(* The subscriptions of qlkube for one kind of resource in one namespace   *)
(* (watch.js, pubsub.js, decorateSubscription.js): a watch publishes       *)
(* events, and each subscriber's filter hands on, one after the other,     *)
(* those of the name it asked for, if its token may watch them. Asking     *)
(* the API server takes a while, in which other subscribers go on, and the *)
(* answer is cached for Limit from when it arrived.                        *)
(*                                                                         *)
(* A subscriber has a token, a name or Any, and a number; those that       *)
(* differ only in the number share an entry of the cache. Times are in a   *)
(* unit of one's choice: Limit is how long an answer is good for, Period   *)
(* how often the cache is cleared, Latency the longest way of an answer.   *)
(* MaxEvents caps the events, MaxOps the changes of permission and         *)
(* MaxFaults the requests and watches that fail.                           *)
(***************************************************************************)
EXTENDS Naturals, Sequences

CONSTANTS Subs, Names, Tokens, Any, None, Limit, Period, Latency, MaxEvents, MaxOps, MaxFaults

ASSUME SubscriptionsAssumption ==
  /\ Subs \subseteq Tokens \X (Names \cup {Any}) \X Nat
  /\ None \notin BOOLEAN /\ Limit \in Nat /\ Period \in Nat \ {0} /\ Latency \in Nat
  /\ MaxEvents \in Nat /\ MaxOps \in Nat /\ MaxFaults \in Nat

VARIABLES
  watch,       \* up, waiting to be started again, stopped, or down while nothing is served
  since,       \* for how long each token has not been allowed to watch, None if it is allowed
  cache,       \* for each key: the age of its entry, or None
  sweep,       \* time to the next clearCache
  inbox,       \* the events published and not yet filtered
  ask,         \* the request of each subscriber's filter, if it waits for one
  got,         \* the number of events handed to each subscriber
  log,         \* the names of the objects of the events published
  faults, ops

vars == <<watch, since, cache, sweep, inbox, ask, got, log, faults, ops>>

(* Ages beyond which nothing changes *)
LongAgo == Limit + Latency + 1
TooOld == Limit + Period + 1

Key(s) == <<s[1], s[2]>>
Keys == {Key(s) : s \in Subs}

NoRequest == [sent |-> FALSE, answer |-> None, age |-> 0]

(* The variables have their types. In particular the cache forgets: no     *)
(* entry outlives its validity by more than the period of clearCache,      *)
(* whether or not its token is ever used again; and a filter that waits    *)
(* for an answer waits at an event.                                        *)
TypeOK ==
  /\ watch \in {"down", "up", "waiting", "stopped"} /\ since \in [Tokens -> 0 .. LongAgo \cup {None}]
  /\ cache \in [Keys -> 0 .. Limit + Period \cup {None}] /\ sweep \in 0 .. Period
  /\ inbox \in [Subs -> Seq(Names)] /\ got \in [Subs -> 0 .. MaxEvents]
  /\ ask \in [Subs -> [sent : BOOLEAN, answer : BOOLEAN \cup {None}, age : 0 .. Latency]]
  /\ \A s \in Subs : ask[s].sent => inbox[s] # << >>
  /\ log \in Seq(Names) /\ Len(log) <= MaxEvents /\ faults \in 0 .. MaxFaults /\ ops \in 0 .. MaxOps

Init ==
  /\ watch = "down" /\ since \in [Tokens -> {None, LongAgo}] /\ cache = [k \in Keys |-> None]
  /\ sweep = Period /\ inbox = [s \in Subs |-> << >>] /\ ask = [s \in Subs |-> NoRequest]
  /\ got = [s \in Subs |-> 0] /\ log = << >> /\ faults = MaxFaults /\ ops = MaxOps

-----------------------------------------------------------------------------
Fault == faults > 0 /\ faults' = faults - 1

Upto(n, max) == IF n < max THEN n + 1 ELSE max

(* Time passes; the timer of clearCache and answers are not late *)
Time ==
  /\ sweep > 0 /\ \A s \in Subs : ask[s].answer # None => ask[s].age < Latency
  /\ since' = [t \in Tokens |-> IF since[t] = None THEN None ELSE Upto(since[t], LongAgo)]
  /\ cache' = [k \in Keys |-> IF cache[k] = None THEN None ELSE Upto(cache[k], TooOld)]
  /\ ask' = [s \in Subs |-> IF ask[s].answer = None THEN ask[s] ELSE [ask[s] EXCEPT !.age = @ + 1]]
  /\ sweep' = sweep - 1
  /\ UNCHANGED <<watch, inbox, got, log, faults, ops>>

(* The cluster gives or takes away the permission to watch *)
Permit(t) ==
  /\ ops > 0 /\ ops' = ops - 1
  /\ since' = [since EXCEPT ![t] = IF @ = None THEN 0 ELSE None]
  /\ UNCHANGED <<watch, cache, sweep, inbox, ask, got, log, faults>>

(* The process listens and watches *)
Open ==
  /\ watch = "down" /\ watch' = "up" /\ sweep' = Period
  /\ UNCHANGED <<since, cache, inbox, ask, got, log, faults, ops>>

(* The process ends, and what it had in memory is gone *)
Close ==
  /\ watch # "down" /\ Fault /\ watch' = "down"
  /\ cache' = [k \in Keys |-> None] /\ inbox' = [s \in Subs |-> << >>]
  /\ ask' = [s \in Subs |-> NoRequest]
  /\ UNCHANGED <<since, sweep, got, log, ops>>

(* kwatch: an object changes and every iterator is given the event *)
Publish(n) ==
  /\ watch = "up" /\ Len(log) < MaxEvents /\ log' = Append(log, n)
  /\ inbox' = [s \in Subs |-> Append(inbox[s], n)]
  /\ UNCHANGED <<watch, since, cache, sweep, ask, got, faults, ops>>

(* The watch ends: only Not Found starts it again, after a while *)
WatchEnds ==
  /\ watch = "up" /\ Fault /\ watch' \in {"waiting", "stopped"}
  /\ UNCHANGED <<since, cache, sweep, inbox, ask, got, log, ops>>

WatchRestarts ==
  /\ watch = "waiting" /\ watch' = "up"
  /\ UNCHANGED <<since, cache, sweep, inbox, ask, got, log, faults, ops>>

-----------------------------------------------------------------------------
(* The filter of subscriber s at the head of its inbox *)

Waiting(s) == inbox[s] # << >> /\ ~ask[s].sent

Matches(s) == s[2] \in {Any, Head(inbox[s])}

(* variant: an entry is good for ever *)
Cached_forever(s) == cache[Key(s)] # None

Cached(s) == cache[Key(s)] # None /\ ~(cache[Key(s)] > Limit)

Take(s) == inbox' = [inbox EXCEPT ![s] = Tail(@)]

(* The head goes to the subscriber if it is allowed, else it is skipped;   *)
(* withFilter takes an exception for a refusal.                            *)
HandOn(s, allowed) ==
  Take(s) /\ got' = IF allowed THEN [got EXCEPT ![s] = @ + 1] ELSE got

(* variant: without a cached answer the event is skipped *)
Filter_skip(s) ==
  /\ Waiting(s) /\ HandOn(s, Matches(s) /\ Cached(s))
  /\ UNCHANGED <<watch, since, cache, sweep, ask, log, faults, ops>>

(* checkPermission up to the await; an entry found too old is deleted *)
Filter(s) ==
  /\ Waiting(s)
  /\ IF ~Matches(s) \/ Cached(s)
     THEN HandOn(s, Matches(s)) /\ UNCHANGED <<cache, ask>>
     ELSE /\ cache' = [cache EXCEPT ![Key(s)] = None]
          /\ ask' = [ask EXCEPT ![s].sent = TRUE] /\ UNCHANGED <<inbox, got>>
  /\ UNCHANGED <<watch, since, sweep, log, faults, ops>>

(* The API server reviews the request *)
Review(s) ==
  /\ ask[s].sent /\ ask[s].answer = None
  /\ ask' = [ask EXCEPT ![s].answer = (since[s[1]] = None)]
  /\ UNCHANGED <<watch, since, cache, sweep, inbox, got, log, faults, ops>>

(* checkPermission after the await: the entry is dated now *)
Answer(s) ==
  /\ ask[s].answer # None
  /\ ask' = [ask EXCEPT ![s] = NoRequest] /\ HandOn(s, ask[s].answer)
  /\ cache' = IF ask[s].answer THEN [cache EXCEPT ![Key(s)] = 0] ELSE cache
  /\ UNCHANGED <<watch, since, sweep, log, faults, ops>>

(* The request fails, on its way there or back *)
RequestFails(s) ==
  /\ ask[s].sent /\ Fault
  /\ ask' = [ask EXCEPT ![s] = NoRequest] /\ HandOn(s, FALSE)
  /\ UNCHANGED <<watch, since, cache, sweep, log, ops>>

(* variant: the entries that are still good are deleted *)
ClearCache_inverted ==
  /\ sweep = 0 /\ sweep' = Period
  /\ cache' = [k \in Keys |-> IF cache[k] # None /\ cache[k] > Limit THEN cache[k] ELSE None]
  /\ UNCHANGED <<watch, since, inbox, ask, got, log, faults, ops>>

ClearCache ==
  /\ sweep = 0 /\ sweep' = Period
  /\ cache' = [k \in Keys |-> IF cache[k] # None /\ cache[k] > Limit THEN None ELSE cache[k]]
  /\ UNCHANGED <<watch, since, inbox, ask, got, log, faults, ops>>

Step(s) == Filter(s) \/ Review(s) \/ Answer(s) \/ RequestFails(s)

Next ==
  \/ Time \/ ClearCache \/ WatchEnds \/ WatchRestarts
  \/ \E t \in Tokens : Permit(t)
  \/ \E n \in Names : Publish(n)
  \/ \E s \in Subs : Step(s)

-----------------------------------------------------------------------------
(* An event is handed on only to a subscriber whose token was allowed to   *)
(* watch no longer ago than Limit and the way of an answer: a permission   *)
(* taken away is noticed in that time, whichever cached answers and        *)
(* requests of other subscribers are under way.                            *)
StaleBound ==
  [][\A s \in Subs : got'[s] # got[s] => since[s[1]] \in 0 .. Limit + Latency \cup {None}]_vars

Wanted(s) == SelectSeq(log, LAMBDA n : s[2] \in {Any, n})
=============================================================================
