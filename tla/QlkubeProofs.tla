---------------------------- MODULE QlkubeProofs ----------------------------
(***************************************************************************)
(* What is proved of qlkube, for all subscribers and tokens and every      *)
(* Limit, Period and Latency.                                              *)
(*                                                                         *)
(* How long a permission taken away goes unnoticed (StaleBound): what is   *)
(* needed is how old the permission is in each place it is remembered. A   *)
(* positive answer under way is no older than the request, and an entry of *)
(* the cache, dated when the answer arrived, is at most Latency younger    *)
(* than the review it comes from.                                          *)
(*                                                                         *)
(* How long the cache remembers (QlkubeTypeOK): an entry was within Limit  *)
(* at the last clearing, so that its age and the time to the next one      *)
(* never exceed Limit + Period. And a process that serves has all that it  *)
(* is configured to watch (ServesAllItWatches), from how far its start has *)
(* come.                                                                   *)
(***************************************************************************)
EXTENDS Qlkube, TLAPS

(* The token t was allowed to watch no longer ago than n *)
AllowedWithin(t, n) == since[t] = None \/ since[t] <= n

Request == [sent : BOOLEAN, answer : BOOLEAN \cup {None}, age : 0 .. Latency]

Types ==
  /\ since \in [Tokens -> 0 .. LongAgo \cup {None}]
  /\ cache \in [Keys -> Nat \cup {None}]
  /\ ask \in [Subs -> Request]

CacheInv == \A k \in Keys : cache[k] # None => AllowedWithin(k[1], cache[k] + Latency)

AskInv == \A s \in Subs : ask[s].answer = TRUE => AllowedWithin(s[1], ask[s].age)

IInv == Types /\ CacheInv /\ AskInv

GotInv == got \in [Subs -> Nat]

-----------------------------------------------------------------------------
(* The keys of the cache have the tokens of their subscribers *)
LEMMA KeyFacts ==
  /\ \A s \in Subs : Key(s) \in Keys /\ Key(s)[1] = s[1] /\ s[1] \in Tokens
  /\ \A k \in Keys : k[1] \in Tokens
  BY SubscriptionsAssumption DEF Key, Keys

(* A subscriber that does not wait has no answer *)
LEMMA NoRequestFacts == NoRequest \in Request /\ NoRequest.answer # TRUE
  <1>1. None # TRUE
    BY SubscriptionsAssumption
  <1>2. NoRequest.answer = None
    BY DEF NoRequest
  <1>3. NoRequest \in Request
    BY SubscriptionsAssumption DEF NoRequest, Request
  <1> QED
    BY <1>1, <1>2, <1>3

(* Nothing is cached, and no answer under way, when qlkube starts first *)
LEMMA InitInv == QlkubeInit => IInv
  <1> SUFFICES ASSUME Init PROVE IInv
    BY DEF QlkubeInit
  <1>1. Types
    BY SubscriptionsAssumption, NoRequestFacts DEF Init, Types, LongAgo, Request
  <1>2. CacheInv
    BY DEF Init, CacheInv
  <1>3. AskInv
    BY NoRequestFacts DEF Init, AskInv
  <1> QED
    BY <1>1, <1>2, <1>3 DEF IInv

(* Time ages the permission, the answers and the entries alike, and the    *)
(* caps of the ages are far enough apart.                                  *)
LEMMA TimeInv == IInv /\ Time => IInv'
  <1> SUFFICES ASSUME IInv, Time PROVE IInv'
    OBVIOUS
  <1>1. Types'
    <2>1. since' \in [Tokens -> 0 .. LongAgo \cup {None}] /\ cache' \in [Keys -> Nat \cup {None}]
      BY SubscriptionsAssumption DEF IInv, Types, Time, Upto, LongAgo, TooOld
    <2>2. ASSUME NEW s \in Subs
          PROVE  (IF ask[s].answer = None THEN ask[s] ELSE [ask[s] EXCEPT !.age = @ + 1]) \in Request
      <3>1. ask[s] \in Request /\ (ask[s].answer # None => ask[s].age < Latency)
        BY DEF IInv, Types, Time
      <3> QED
        BY <3>1, SubscriptionsAssumption DEF Request
    <2>3. ask' \in [Subs -> Request]
      BY <2>2 DEF Time
    <2> QED
      BY <2>1, <2>3 DEF Types
  <1>2. CacheInv'
    BY SubscriptionsAssumption, KeyFacts
    DEF IInv, Types, CacheInv, AllowedWithin, Time, Upto, LongAgo, TooOld
  <1>3. ASSUME NEW s \in Subs, ask'[s].answer = TRUE
        PROVE  AllowedWithin(s[1], ask[s].age)'
    <2>1. ask[s] \in Request /\ ask[s].answer # None
      BY <1>3, SubscriptionsAssumption DEF IInv, Types, Request, Time
    <2>2. ask'[s] = [ask[s] EXCEPT !.age = @ + 1]
      BY <2>1 DEF Time
    <2>3. ask[s].answer = TRUE /\ ask'[s].age = ask[s].age + 1
      BY <1>3, <2>1, <2>2 DEF Request
    <2>4. s[1] \in Tokens /\ ask[s].age \in Nat /\ AllowedWithin(s[1], ask[s].age)
      BY <2>1, <2>3, KeyFacts, SubscriptionsAssumption DEF IInv, AskInv, Request
    <2>5. since'[s[1]] = IF since[s[1]] = None THEN None ELSE Upto(since[s[1]], LongAgo)
      BY <2>4 DEF Time
    <2>6. since[s[1]] \in 0 .. LongAgo \cup {None} /\ LongAgo \in Nat
      BY <2>4, SubscriptionsAssumption DEF IInv, Types, LongAgo
    <2> QED
      BY <2>3, <2>4, <2>5, <2>6 DEF AllowedWithin, Upto
  <1> QED
    BY <1>1, <1>2, <1>3 DEF IInv, AskInv

(* A permission taken away just now was there just now *)
LEMMA PermitInv == ASSUME IInv, NEW t \in Tokens, Permit(t) PROVE IInv'
  <1> USE SubscriptionsAssumption, KeyFacts
  <1>1. /\ since' = [since EXCEPT ![t] = IF @ = None THEN 0 ELSE None]
        /\ cache' = cache /\ ask' = ask
    BY DEF Permit
  <1>2. Types'
    BY <1>1 DEF IInv, Types, LongAgo
  <1>3. CacheInv'
    BY <1>1 DEF IInv, Types, CacheInv, AllowedWithin
  <1>4. AskInv'
    BY <1>1 DEF IInv, Types, AskInv, AllowedWithin, Request
  <1> QED
    BY <1>2, <1>3, <1>4 DEF IInv

(* An event under way is filtered: what is remembered gets no newer,       *)
(* except by the review, which sees the permission itself.                 *)
LEMMA StepInv == ASSUME IInv, NEW s \in Subs, Step(s) PROVE IInv'
  <1> USE SubscriptionsAssumption, KeyFacts
  <1>1. CASE Filter(s)
    <2>1. cache' \in [Keys -> Nat \cup {None}] /\ CacheInv'
      BY <1>1 DEF IInv, Types, CacheInv, AllowedWithin, Filter
    <2>2. ask' \in [Subs -> Request] /\ \A r \in Subs : ask'[r].answer = ask[r].answer /\ ask'[r].age = ask[r].age
      <3> DEFINE new == [ask[s] EXCEPT !.sent = TRUE]
      <3>1. ask' = ask \/ ask' = [ask EXCEPT ![s] = new]
        BY <1>1 DEF Filter
      <3>2. ask \in [Subs -> Request]
        BY DEF IInv, Types
      <3>3. new \in Request /\ new.answer = ask[s].answer /\ new.age = ask[s].age
        BY <3>2 DEF Request
      <3> HIDE DEF new
      <3> QED
        BY <3>1, <3>2, <3>3
    <2>3. since' = since
      BY <1>1 DEF Filter
    <2> QED
      BY <2>1, <2>2, <2>3 DEF IInv, Types, AskInv, AllowedWithin, Request
  <1>2. CASE Review(s)
    <2> DEFINE allowed == since[s[1]] = None
    <2>1. /\ ask' = [ask EXCEPT ![s] = [ask[s] EXCEPT !.answer = allowed]]
          /\ since' = since /\ cache' = cache
      BY <1>2 DEF Review
    <2>2. allowed \in BOOLEAN
      OBVIOUS
    <2>3. Types'
      <3> HIDE DEF allowed
      <3> QED
        BY <2>1, <2>2 DEF IInv, Types, Request
    <2>4. CacheInv'
      BY <2>1 DEF IInv, CacheInv, AllowedWithin
    <2>5. AskInv'
      <3>1. ask'[s].answer = allowed /\ \A r \in Subs \ {s} : ask'[r] = ask[r]
        <4> HIDE DEF allowed
        <4> QED
          BY <2>1, <2>2 DEF IInv, Types, Request
      <3> QED
        BY <2>1, <3>1 DEF IInv, AskInv, AllowedWithin
    <2> QED
      BY <2>3, <2>4, <2>5 DEF IInv
  <1>3. CASE Answer(s)
    <2>1. ask' = [ask EXCEPT ![s] = NoRequest] /\ since' = since
      BY <1>3 DEF Answer
    <2>2. ask' \in [Subs -> Request] /\ AskInv'
      BY <2>1, NoRequestFacts DEF IInv, Types, AskInv, AllowedWithin, Request
    <2>3. CASE ask[s].answer = TRUE
      <3>1. cache' = [cache EXCEPT ![Key(s)] = 0]
        BY <1>3, <2>3 DEF Answer
      <3>2. AllowedWithin(s[1], Latency)
        BY <2>3 DEF IInv, Types, AskInv, AllowedWithin, LongAgo, Request
      <3> QED
        BY <2>1, <2>2, <3>1, <3>2 DEF IInv, Types, CacheInv, AllowedWithin, Request
    <2>4. CASE ask[s].answer # TRUE
      <3>1. ask[s].answer = FALSE
        BY <1>3, <2>4 DEF Answer, IInv, Types, Request
      <3>2. cache' = cache
        BY <1>3, <3>1 DEF Answer
      <3> QED
        BY <2>1, <2>2, <3>2 DEF IInv, Types, CacheInv, AllowedWithin, Request
    <2> QED
      BY <2>3, <2>4
  <1>4. CASE RequestFails(s)
    <2>1. ask' = [ask EXCEPT ![s] = NoRequest] /\ UNCHANGED <<since, cache>>
      BY <1>4 DEF RequestFails
    <2> QED
      BY <2>1, NoRequestFacts DEF IInv, Types, CacheInv, AskInv, AllowedWithin, Request
  <1> QED
    BY <1>1, <1>2, <1>3, <1>4 DEF Step

(* ClearCache only forgets, and so does the end of the process *)
LEMMA ForgetInv == IInv /\ (ClearCache \/ Close) => IInv'
  <1>1. ASSUME IInv, ClearCache PROVE IInv'
    BY <1>1, SubscriptionsAssumption, KeyFacts
    DEF IInv, Types, CacheInv, AskInv, AllowedWithin, ClearCache
  <1>2. ASSUME IInv, Close PROVE IInv'
    <2>1. cache' = [k \in Keys |-> None] /\ ask' = [s \in Subs |-> NoRequest] /\ since' = since
      BY <1>2 DEF Close
    <2> QED
      BY <1>2, <2>1, NoRequestFacts DEF IInv, Types, CacheInv, AskInv, Request
  <1> QED
    BY <1>1, <1>2

(* Only a filter hands events on, one at a time *)
LEMMA GotStep == GotInv /\ [QlkubeNext]_qlkubeVars => GotInv'
  <1> SUFFICES ASSUME GotInv, [QlkubeNext]_qlkubeVars PROVE GotInv'
    OBVIOUS
  <1>1. CASE got' = got
    BY <1>1 DEF GotInv
  <1>2. CASE \E r \in Subs : got' = [got EXCEPT ![r] = @ + 1]
    BY <1>2 DEF GotInv
  <1>3. got' = got \/ \E r \in Subs : Step(r)
    BY DEF QlkubeNext, qlkubeVars, vars, Start, WatchCloses, Open, Close, Next, Time, ClearCache,
           WatchEnds, WatchRestarts, Permit, Publish
  <1>4. ASSUME NEW r \in Subs, Step(r) PROVE got' = got \/ got' = [got EXCEPT ![r] = @ + 1]
    BY <1>4 DEF Step, Filter, Review, Answer, RequestFails, HandOn
  <1> QED
    BY <1>1, <1>2, <1>3, <1>4

(* What starts the process, publishes or restarts a watch remembers nothing *)
LEMMA OtherInv == IInv /\ UNCHANGED <<since, cache, ask>> => IInv'
  BY DEF IInv, Types, CacheInv, AskInv, AllowedWithin

(* Every step of qlkube keeps the ages *)
LEMMA NextInv == IInv /\ [QlkubeNext]_qlkubeVars => IInv'
  <1> SUFFICES ASSUME IInv, [QlkubeNext]_qlkubeVars PROVE IInv'
    OBVIOUS
  <1>1. CASE Start
    BY <1>1, OtherInv DEF Start, Open, vars
  <1>2. CASE WatchCloses
    BY <1>2, ForgetInv DEF WatchCloses
  <1>3. CASE Install /\ UNCHANGED vars
    BY <1>3, OtherInv DEF vars
  <1>4. CASE Next
    <2>1. CASE WatchEnds \/ WatchRestarts \/ \E n \in Names : Publish(n)
      BY <2>1, OtherInv DEF WatchEnds, WatchRestarts, Publish
    <2> QED
      BY <1>4, <2>1, TimeInv, ForgetInv, PermitInv, StepInv DEF Next
  <1>5. CASE UNCHANGED qlkubeVars
    BY <1>5, OtherInv DEF qlkubeVars, vars
  <1> QED
    BY <1>1, <1>2, <1>3, <1>4, <1>5 DEF QlkubeNext

-----------------------------------------------------------------------------
(* An event is handed on by Filter with a cached answer that is still good *)
(* or by Answer with a positive one: the permission is recent enough.      *)
LEMMA HandedOn ==
  ASSUME IInv, GotInv, NEW s \in Subs, NEW r \in Subs, Step(r), got'[s] # got[s]
  PROVE  since[s[1]] \in 0 .. Limit + Latency \cup {None}
  <1> USE SubscriptionsAssumption, KeyFacts
  <1>1. CASE Filter(r)
    <2>1. got' = got \/ (Cached(r) /\ got' = [got EXCEPT ![r] = @ + 1])
      BY <1>1 DEF Filter, HandOn
    <2>2. Cached(r) /\ s = r
      BY <2>1 DEF GotInv
    <2> QED
      BY <2>2 DEF Cached, IInv, Types, CacheInv, AllowedWithin, LongAgo
  <1>2. CASE Review(r)
    BY <1>2 DEF Review
  <1>3. CASE Answer(r)
    <2>1. s = r /\ ask[r].answer = TRUE
      BY <1>3 DEF Answer, HandOn, IInv, Types, Request, GotInv
    <2> QED
      BY <2>1 DEF IInv, Types, AskInv, AllowedWithin, LongAgo, Request
  <1>4. CASE RequestFails(r)
    BY <1>4 DEF RequestFails, HandOn
  <1> QED
    BY <1>1, <1>2, <1>3, <1>4 DEF Step

(* The filter of decorateSubscription.js notices a permission taken away   *)
(* in time, whatever is cached and asked meanwhile, for any number of      *)
(* subscribers and however the process ends and starts again.              *)
THEOREM PermissionIsRecent == QlkubeSpec => StaleBound
  <1>1. IInv /\ GotInv /\ [QlkubeNext]_qlkubeVars =>
          [\A s \in Subs : got'[s] # got[s] => since[s[1]] \in 0 .. Limit + Latency \cup {None}]_vars
    <2> SUFFICES ASSUME IInv, GotInv, [QlkubeNext]_qlkubeVars,
                        NEW s \in Subs, got'[s] # got[s]
                 PROVE  since[s[1]] \in 0 .. Limit + Latency \cup {None}
      OBVIOUS
    <2>1. PICK r \in Subs : Step(r)
      BY DEF QlkubeNext, qlkubeVars, vars, Start, WatchCloses, Open, Close, Next, Time,
             ClearCache,
             WatchEnds, WatchRestarts, Permit, Publish
    <2> QED
      BY <2>1, HandedOn
  <1>2. QlkubeInit => GotInv
    BY DEF QlkubeInit, Init, GotInv
  <1> QED
    BY <1>1, <1>2, InitInv, NextInv, GotStep, PTL DEF QlkubeSpec, StaleBound

-----------------------------------------------------------------------------
(* The cache forgets: what an entry still has to live is what is left to   *)
(* the next clearCache, and a process that is down has no entries.         *)
Forgets ==
  \A k \in Keys : cache[k] # None => cache[k] + sweep <= Limit + Period /\ watch # "down"

(* What a subscriber was given or waits for was published, and an answer   *)
(* is for a request.                                                       *)
Counted ==
  \A s \in Subs :
    got[s] + Len(inbox[s]) <= Len(log) /\ (ask[s].answer # None => ask[s].sent)

Started == StartTypeOK /\ doc.paths \subseteq Grouped /\ ServesAllItWatches

Served == TypeOK /\ Forgets /\ Counted

Inv == Started /\ Served /\ (watch = "down" <=> phase # "serve")

(* What a start needs of the constants and of its empty records            *)
LEMMA Empty ==
  /\ NoDoc \in [paths : SUBSET Kinds, definitions : SUBSET (Kinds \cup Machinery)]
  /\ NoDoc.paths = {}
  /\ NoSchema \in [queries : SUBSET Kinds, wrappers : SUBSET Kinds, updates : SUBSET Kinds]
BY DEF NoDoc, NoSchema

(* The requests: while one is waited for main is at oas, and the document  *)
(* that is taken has the paths of the configured groups alone.             *)
LEMMA RequestStep ==
  ASSUME Started,
         \/ ReadToken \/ Restart \/ Install
         \/ \E p \in Endpoints : SpecArrives(p) \/ SpecFails(p)
  PROVE  Started' /\ (phase' = "serve" <=> phase = "serve")
<1>1. UNCHANGED <<offered, schema, labels, config>>
  BY DEF ReadToken, Restart, Install, SpecArrives, SpecFails
<1>2. phase' = "serve" <=> phase = "serve"
  BY DEF ReadToken, Restart, Install, SpecArrives, SpecFails, Started, StartTypeOK
<1>3. ServesAllItWatches'
  BY <1>1, <1>2 DEF Started, ServesAllItWatches
<1>4. CASE ReadToken \/ Restart \/ Install
  BY <1>1, <1>3, <1>2, <1>4, StartupAssumption
    DEF ReadToken, Restart, Install, Started, StartTypeOK
<1>5. ASSUME NEW p \in Endpoints, SpecArrives(p) PROVE Started'
  <2> DEFINE d == [paths |-> kinds \cap Grouped,
                   definitions |-> (kinds \cup Machinery) \cap (Grouped \cup Machinery)]
  <2>1. doc' = d
    BY <1>5 DEF SpecArrives, DecorateOpenapi
  <2>2. /\ d \in [paths : SUBSET Kinds, definitions : SUBSET (Kinds \cup Machinery)]
        /\ d.paths \subseteq Grouped
    BY StartupAssumption DEF Started, StartTypeOK
  <2> HIDE DEF d
  <2>3. QED
    BY <1>1, <1>2, <1>3, <1>5, <2>1, <2>2 DEF SpecArrives, Started, StartTypeOK
<1>6. ASSUME NEW p \in Endpoints, SpecFails(p) PROVE Started'
  BY <1>1, <1>2, <1>3, <1>6 DEF SpecFails, Started, StartTypeOK
<1>7. QED
  BY <1>2, <1>4, <1>5, <1>6

(* The rest of main: when nothing throws, the queries and the types that   *)
(* wrappers and subscriptions ask for are there, each type once.           *)
LEMMA ListenStep ==
  ASSUME Started, Listen
  PROVE  Started' /\ phase' = "serve"
<1> DEFINE new == [queries |-> Queries(doc), wrappers |-> {Wrappers[i].query : i \in DOMAIN Wrappers},
                   updates |-> {config[i] : i \in DOMAIN config}]
<1>1. /\ schema' = new /\ phase = "schema" /\ phase' = "serve" /\ labels' = config
      /\ doc' = NoDoc /\ UNCHANGED <<offered, kinds, asked, config>> /\ ~Throws(doc)
  BY DEF Listen
<1>2. /\ Queries(doc) \subseteq Grouped /\ Queries(doc) \subseteq Kinds
  BY StartupAssumption DEF Started, Queries
<1>3. \A i \in DOMAIN Wrappers : Wrappers[i].query \in Queries(doc)
  BY <1>1 DEF Throws, WrapperThrows
<1>4. config \in Seq(Kinds)
  BY StartupAssumption DEF Started, StartTypeOK
<1>5. \A i \in DOMAIN config :
        config[i] \in Queries(doc) /\ \A j \in 1 .. i - 1 : config[j] # config[i]
  BY <1>1 DEF Throws, SubscriptionThrows
<1>6. \A i, j \in DOMAIN config : i # j => config[i] # config[j]
  <2> SUFFICES ASSUME NEW i \in DOMAIN config, NEW j \in DOMAIN config, i # j
               PROVE  config[i] # config[j]
    OBVIOUS
  <2>1. i \in Nat \ {0} /\ j \in Nat \ {0}
    BY <1>4
  <2>2. i \in 1 .. j - 1 \/ j \in 1 .. i - 1
    BY <2>1
  <2>3. QED
    BY <1>5, <2>2
<1>7. /\ new \in [queries : SUBSET Kinds, wrappers : SUBSET Kinds, updates : SUBSET Kinds]
      /\ new.updates \cup new.wrappers \subseteq new.queries /\ new.queries \subseteq Grouped
      /\ new.updates = {config[i] : i \in DOMAIN config}
  BY <1>2, <1>3, <1>5
<1> HIDE DEF new
<1>8. StartTypeOK'
  BY <1>1, <1>4, <1>7, Empty DEF Started, StartTypeOK
<1>9. ServesAllItWatches'
  BY <1>1, <1>6, <1>7 DEF ServesAllItWatches
<1>10. QED
  BY <1>1, <1>8, <1>9, Empty DEF Started

(* The end of a process *)
LEMMA EndStep ==
  ASSUME Started, Exit \/ Crash
  PROVE  Started' /\ phase' # "serve" /\ (Exit => phase # "serve")
<1>1. phase' = "down" /\ ServesAllItWatches' /\ (Exit => phase # "serve")
  BY DEF Exit, Crash, ServesAllItWatches
<1>2. << >> \in Seq(Kinds)
  OBVIOUS
<1>3. CASE Exit
  BY <1>1, <1>3, Empty DEF Exit, Started, StartTypeOK
<1>4. CASE Crash
  BY <1>1, <1>2, <1>4, Empty DEF Crash, Started, StartTypeOK
<1>5. QED
  BY <1>1, <1>3, <1>4

(* The ages of the cache: an entry and the time to the next clearCache     *)
(* grow and shrink together.                                               *)
LEMMA ClockStep ==
  ASSUME Served, watch # "down", Time \/ ClearCache
  PROVE  Served' /\ watch' = watch
<1> USE SubscriptionsAssumption
<1>1. UNCHANGED <<watch, inbox, got, log, faults, ops>>
  BY DEF Time, ClearCache
<1>2. CASE Time
  <2>1. since' \in [Tokens -> 0 .. LongAgo \cup {None}]
    BY <1>2 DEF Served, TypeOK, Time, Upto, LongAgo
  <2>2. sweep' \in 0 .. Period /\ sweep' = sweep - 1 /\ sweep \in Nat
    BY <1>2 DEF Served, TypeOK, Time
  <2>3. ASSUME NEW k \in Keys
        PROVE  /\ cache'[k] \in 0 .. Limit + Period \cup {None}
               /\ cache'[k] # None => cache'[k] + sweep' <= Limit + Period
    <3>1. cache[k] \in 0 .. Limit + Period \cup {None}
      BY DEF Served, TypeOK
    <3>2. cache[k] # None => cache[k] + sweep <= Limit + Period /\ sweep > 0
      BY <1>2 DEF Served, Forgets, Time
    <3>3. cache'[k] = IF cache[k] = None THEN None ELSE Upto(cache[k], TooOld)
      BY <1>2 DEF Time
    <3>4. QED
      BY <2>2, <3>1, <3>2, <3>3 DEF Upto, TooOld
  <2>4. cache' \in [Keys -> 0 .. Limit + Period \cup {None}]
    BY <1>2, <2>3 DEF Time
  <2>5. ASSUME NEW s \in Subs
        PROVE  /\ ask'[s] \in Request /\ ask'[s].sent = ask[s].sent
               /\ ask'[s].answer = ask[s].answer
    <3>1. ask[s] \in Request /\ (ask[s].answer # None => ask[s].age < Latency)
      BY <1>2 DEF Served, TypeOK, Request, Time
    <3>2. ask'[s] = IF ask[s].answer = None THEN ask[s] ELSE [ask[s] EXCEPT !.age = @ + 1]
      BY <1>2 DEF Time
    <3>3. QED
      BY <3>1, <3>2 DEF Request
  <2>6. ask' \in [Subs -> Request]
    BY <1>2, <2>5 DEF Time
  <2>7. TypeOK'
    BY <1>1, <2>1, <2>2, <2>4, <2>5, <2>6 DEF Served, TypeOK, Request
  <2>8. QED
    BY <1>1, <2>3, <2>5, <2>7 DEF Served, Forgets, Counted
<1>3. CASE ClearCache
  <2>1. ask' = ask /\ since' = since /\ sweep' = Period
    BY <1>3 DEF ClearCache
  <2>2. ASSUME NEW k \in Keys
        PROVE  /\ cache'[k] \in 0 .. Limit + Period \cup {None}
               /\ cache'[k] # None => cache'[k] + sweep' <= Limit + Period
    <3>1. cache[k] \in 0 .. Limit + Period \cup {None}
      BY DEF Served, TypeOK
    <3>2. cache'[k] = IF cache[k] # None /\ cache[k] > Limit THEN None ELSE cache[k]
      BY <1>3 DEF ClearCache
    <3>3. QED
      BY <2>1, <3>1, <3>2
  <2>3. cache' \in [Keys -> 0 .. Limit + Period \cup {None}]
    BY <1>3, <2>2 DEF ClearCache
  <2>4. TypeOK'
    BY <1>1, <2>1, <2>3 DEF Served, TypeOK
  <2>5. QED
    BY <1>1, <2>1, <2>2, <2>4 DEF Served, Forgets, Counted
<1>4. QED
  BY <1>1, <1>2, <1>3

(* The watch, and who may watch *)
LEMMA WatchStep ==
  ASSUME Served, watch # "down",
         WatchEnds \/ WatchRestarts \/ (\E t \in Tokens : Permit(t)) \/ \E n \in Names : Publish(n)
  PROVE  Served' /\ watch' # "down"
<1> USE SubscriptionsAssumption
<1>1. UNCHANGED <<cache, sweep, ask, got>> /\ watch' \in {"up", "waiting", "stopped"}
  BY DEF WatchEnds, WatchRestarts, Permit, Publish, Served, TypeOK
<1>2. faults' \in 0 .. MaxFaults /\ ops' \in 0 .. MaxOps
  BY DEF WatchEnds, WatchRestarts, Permit, Publish, Served, TypeOK, Fault
<1>3. since' \in [Tokens -> 0 .. LongAgo \cup {None}]
  <2>1. ASSUME NEW t \in Tokens, Permit(t) PROVE since' \in [Tokens -> 0 .. LongAgo \cup {None}]
    <3>1. since' = [since EXCEPT ![t] = IF @ = None THEN 0 ELSE None] /\ 0 \in 0 .. LongAgo
      BY <2>1 DEF Permit, LongAgo
    <3>2. QED
      BY <3>1 DEF Served, TypeOK
  <2>2. QED
    BY <2>1 DEF WatchEnds, WatchRestarts, Publish, Served, TypeOK
<1>4. CASE UNCHANGED <<inbox, log>>
  BY <1>1, <1>2, <1>3, <1>4 DEF Served, TypeOK, Forgets, Counted
<1>5. ASSUME NEW n \in Names, Publish(n) PROVE Served'
  <2>1. /\ log' = Append(log, n) /\ Len(log) < MaxEvents /\ log \in Seq(Names)
        /\ inbox' = [s \in Subs |-> Append(inbox[s], n)]
    BY <1>5 DEF Publish, Served, TypeOK
  <2>2. log' \in Seq(Names) /\ Len(log') = Len(log) + 1 /\ Len(log') <= MaxEvents
    BY <2>1
  <2>3. ASSUME NEW s \in Subs
        PROVE  /\ inbox'[s] \in Seq(Names) /\ Len(inbox'[s]) = Len(inbox[s]) + 1
               /\ inbox'[s] # << >> /\ Len(inbox[s]) \in Nat
    <3>1. inbox[s] \in Seq(Names) /\ inbox'[s] = Append(inbox[s], n)
      BY <2>1 DEF Served, TypeOK
    <3>2. QED
      BY <3>1
  <2>4. inbox' \in [Subs -> Seq(Names)]
    BY <2>1, <2>3
  <2>5. TypeOK'
    BY <1>1, <1>2, <1>3, <2>2, <2>3, <2>4 DEF Served, TypeOK
  <2>6. Counted'
    BY <1>1, <2>1, <2>2, <2>3 DEF Served, Counted, TypeOK
  <2>7. QED
    BY <1>1, <2>5, <2>6 DEF Served, Forgets
<1>6. QED
  BY <1>1, <1>4, <1>5 DEF WatchEnds, WatchRestarts, Permit

(* An event taken from the inbox of a subscriber, and handed on or not     *)
LEMMA HandOnEffect ==
  ASSUME Served, NEW s \in Subs, inbox[s] # << >>, NEW allowed, HandOn(s, allowed)
  PROVE  /\ inbox' \in [Subs -> Seq(Names)] /\ got' \in [Subs -> 0 .. MaxEvents]
         /\ \A r \in Subs : got'[r] + Len(inbox'[r]) <= Len(log)
         /\ \A r \in Subs \ {s} : inbox'[r] = inbox[r]
<1>1. /\ inbox[s] \in Seq(Names) /\ inbox \in [Subs -> Seq(Names)] /\ log \in Seq(Names)
      /\ got \in [Subs -> 0 .. MaxEvents] /\ Len(log) <= MaxEvents /\ MaxEvents \in Nat
  BY SubscriptionsAssumption DEF Served, TypeOK
<1>2. /\ Tail(inbox[s]) \in Seq(Names) /\ Len(Tail(inbox[s])) = Len(inbox[s]) - 1
      /\ Len(inbox[s]) \in Nat \ {0}
  BY <1>1
<1>3. inbox' = [inbox EXCEPT ![s] = Tail(inbox[s])]
  BY DEF HandOn, Take
<1>4. inbox' \in [Subs -> Seq(Names)] /\ \A r \in Subs \ {s} : inbox'[r] = inbox[r]
  BY <1>1, <1>2, <1>3
<1>5. \A r \in Subs : Len(inbox[r]) \in Nat /\ got[r] \in Nat /\ got[r] + Len(inbox[r]) <= Len(log)
  BY <1>1 DEF Served, Counted
<1>6. Len(inbox'[s]) = Len(inbox[s]) - 1
  BY <1>1, <1>2, <1>3
<1>7. got' = got \/ got' = [got EXCEPT ![s] = got[s] + 1]
  BY DEF HandOn
<1>8. \A r \in Subs : got'[r] + Len(inbox'[r]) <= Len(log)
  <2> SUFFICES ASSUME NEW r \in Subs PROVE got'[r] + Len(inbox'[r]) <= Len(log)
    OBVIOUS
  <2>0. Len(log) \in Nat
    BY <1>1
  <2>1. CASE r = s
    <3>1. got'[s] = got[s] \/ got'[s] = got[s] + 1
      BY <1>1, <1>7
    <3>2. QED
      BY <1>2, <1>5, <1>6, <2>0, <2>1, <3>1
  <2>2. CASE r # s
    BY <1>1, <1>4, <1>5, <1>7, <2>2
  <2>3. QED
    BY <2>1, <2>2
<1>9. got' \in [Subs -> 0 .. MaxEvents]
  <2>1. got[s] + 1 \in 0 .. MaxEvents
    <3>1. Len(log) \in Nat
      BY <1>1
    <3>2. QED
      BY <1>1, <1>2, <1>5, <3>1
  <2>2. QED
    BY <1>1, <1>7, <2>1
<1>10. QED
  BY <1>4, <1>8, <1>9

(* A filter answers for the event at which it waits, and only once. *)
LEMMA FilterStep ==
  ASSUME Served, watch # "down", NEW s \in Subs, Step(s)
  PROVE  Served' /\ watch' = watch
<1> USE SubscriptionsAssumption
<1>1. UNCHANGED <<watch, since, sweep, log, ops>> /\ faults' \in 0 .. MaxFaults
  <2>1. UNCHANGED <<watch, since, sweep, log, ops>> /\ (faults' = faults \/ Fault)
    BY DEF Step, Filter, Review, Answer, RequestFails
  <2>2. QED
    BY <2>1 DEF Fault, Served, TypeOK
<1>2. /\ ask \in [Subs -> Request] /\ Key(s) \in Keys /\ sweep \in 0 .. Period
      /\ cache \in [Keys -> 0 .. Limit + Period \cup {None}]
  BY KeyFacts DEF Served, TypeOK, Request
<1>3. /\ NoRequest \in Request /\ ~NoRequest.sent /\ NoRequest.answer = None
  BY NoRequestFacts DEF NoRequest
<1>4. CASE Filter(s)
  <2>1. CASE ~Matches(s) \/ Cached(s)
    <3>1. /\ inbox[s] # << >> /\ ~ask[s].sent /\ HandOn(s, Matches(s)) /\ UNCHANGED <<cache, ask>>
      BY <1>4, <2>1 DEF Filter, Waiting
    <3>2. /\ inbox' \in [Subs -> Seq(Names)] /\ got' \in [Subs -> 0 .. MaxEvents]
          /\ \A r \in Subs : got'[r] + Len(inbox'[r]) <= Len(log)
          /\ \A r \in Subs \ {s} : inbox'[r] = inbox[r]
      BY <3>1, HandOnEffect
    <3>3. TypeOK'
      BY <1>1, <3>1, <3>2 DEF Served, TypeOK
    <3>4. QED
      BY <1>1, <3>1, <3>2, <3>3 DEF Served, Forgets, Counted
  <2>2. CASE ~(~Matches(s) \/ Cached(s))
    <3> DEFINE new == [ask[s] EXCEPT !.sent = TRUE]
    <3>1. /\ inbox[s] # << >> /\ cache' = [cache EXCEPT ![Key(s)] = None]
          /\ ask' = [ask EXCEPT ![s] = new] /\ UNCHANGED <<inbox, got>>
      BY <1>4, <2>2 DEF Filter, Waiting
    <3>2. new \in Request /\ new.sent /\ new.answer = ask[s].answer
      BY <1>2 DEF Request
    <3> HIDE DEF new
    <3>3. /\ ask' \in [Subs -> Request]
          /\ \A r \in Subs : ask'[r].answer = ask[r].answer /\ (ask'[r].sent <=> ask[r].sent \/ r = s)
      BY <1>2, <3>1, <3>2
    <3>4. /\ cache' \in [Keys -> 0 .. Limit + Period \cup {None}]
          /\ \A k \in Keys : cache'[k] # None => cache'[k] = cache[k]
      BY <1>2, <3>1
    <3>5. TypeOK'
      BY <1>1, <3>1, <3>3, <3>4 DEF Served, TypeOK, Request
    <3>6. QED
      BY <1>1, <3>1, <3>3, <3>4, <3>5 DEF Served, Forgets, Counted
  <2>3. QED
    BY <2>1, <2>2
<1>5. CASE Review(s)
  <2> DEFINE allowed == since[s[1]] = None
             new == [ask[s] EXCEPT !.answer = allowed]
  <2>1. ask[s].sent /\ ask' = [ask EXCEPT ![s] = new] /\ UNCHANGED <<cache, inbox, got, faults>>
    BY <1>5 DEF Review
  <2>2. allowed \in BOOLEAN
    OBVIOUS
  <2> HIDE DEF allowed
  <2>3. new \in Request /\ new.sent
    BY <1>2, <2>1, <2>2 DEF Request
  <2> HIDE DEF new
  <2>4. ask' \in [Subs -> Request] /\ ask'[s].sent /\ \A r \in Subs \ {s} : ask'[r] = ask[r]
    BY <1>2, <2>1, <2>3
  <2>5. TypeOK'
    BY <1>1, <2>1, <2>4 DEF Served, TypeOK, Request
  <2>6. QED
    BY <1>1, <2>1, <2>4, <2>5 DEF Served, Forgets, Counted
<1>6. CASE Answer(s) \/ RequestFails(s)
  <2>1. ask[s].sent /\ inbox[s] # << >> /\ ask' = [ask EXCEPT ![s] = NoRequest]
    BY <1>6 DEF Answer, RequestFails, Served, Counted, TypeOK
  <2>2. /\ inbox' \in [Subs -> Seq(Names)] /\ got' \in [Subs -> 0 .. MaxEvents]
        /\ \A r \in Subs : got'[r] + Len(inbox'[r]) <= Len(log)
        /\ \A r \in Subs \ {s} : inbox'[r] = inbox[r]
    BY <1>6, <2>1, HandOnEffect DEF Answer, RequestFails
  <2>3. /\ ask' \in [Subs -> Request] /\ ask'[s] = NoRequest
        /\ \A r \in Subs \ {s} : ask'[r] = ask[r]
    BY <1>2, <1>3, <2>1
  <2>4. /\ cache' \in [Keys -> 0 .. Limit + Period \cup {None}]
        /\ \A k \in Keys : cache'[k] = cache[k] \/ cache'[k] = 0
    <3>1. cache' = cache \/ cache' = [cache EXCEPT ![Key(s)] = 0]
      BY <1>6 DEF Answer, RequestFails
    <3>2. 0 \in 0 .. Limit + Period
      OBVIOUS
    <3>3. QED
      BY <1>2, <3>1, <3>2
  <2>5. TypeOK'
    BY <1>1, <1>3, <2>2, <2>3, <2>4 DEF Served, TypeOK, Request
  <2>6. Forgets'
    <3>1. Forgets /\ UNCHANGED <<sweep, watch>>
      BY <1>1 DEF Served
    <3>2. sweep <= Limit + Period /\ 0 + sweep <= Limit + Period /\ watch # "down"
      BY <1>1, <1>2
    <3> QED
      BY <2>4, <3>1, <3>2 DEF Forgets
  <2>7. Counted'
    BY <1>1, <1>3, <2>2, <2>3 DEF Served, Counted
  <2>8. QED
    BY <1>1, <2>5, <2>6, <2>7 DEF Served
<1>7. QED
  BY <1>1, <1>4, <1>5, <1>6 DEF Step

(* A process that listens has an empty memory, and one that ends loses it. *)
LEMMA ProcessStep ==
  ASSUME Served,
         \/ Open \/ Close \/ UNCHANGED vars
         \/ Fault /\ UNCHANGED <<watch, since, cache, sweep, inbox, ask, got, log, ops>>
  PROVE  Served'
<1> USE SubscriptionsAssumption
<1>1. CASE Open
  <2>1. /\ sweep' = Period /\ watch' = "up" /\ \A k \in Keys : cache[k] = None
        /\ UNCHANGED <<since, cache, inbox, ask, got, log, faults, ops>>
    BY <1>1 DEF Open, Served, Forgets
  <2>2. QED
    BY <2>1 DEF Served, TypeOK, Forgets, Counted
<1>2. CASE Close
  <2>1. /\ watch' = "down" /\ cache' = [k \in Keys |-> None] /\ inbox' = [s \in Subs |-> << >>]
        /\ ask' = [s \in Subs |-> NoRequest] /\ UNCHANGED <<since, sweep, got, log, ops>>
        /\ faults' \in 0 .. MaxFaults
    BY <1>2 DEF Close, Fault, Served, TypeOK
  <2>2. /\ NoRequest \in Request /\ ~NoRequest.sent /\ NoRequest.answer = None
    BY NoRequestFacts DEF NoRequest
  <2>3. << >> \in Seq(Names) /\ Len(<< >>) = 0
    OBVIOUS
  <2>4. TypeOK'
    BY <2>1, <2>2, <2>3 DEF Served, TypeOK, Request
  <2>5. Counted'
    <3>1. \A s \in Subs : got[s] \in Nat /\ Len(inbox[s]) \in Nat /\ Len(log) \in Nat
      BY DEF Served, TypeOK
    <3>2. \A s \in Subs : got[s] + 0 <= Len(log)
      BY <3>1 DEF Served, Counted
    <3>3. QED
      BY <2>1, <2>2, <2>3, <3>2 DEF Counted
  <2>6. QED
    BY <2>1, <2>4, <2>5 DEF Served, Forgets
<1>3. CASE \/ UNCHANGED vars
           \/ Fault /\ UNCHANGED <<watch, since, cache, sweep, inbox, ask, got, log, ops>>
  <2>1. /\ UNCHANGED <<watch, since, cache, sweep, inbox, ask, got, log, ops>>
        /\ faults' \in 0 .. MaxFaults
    BY <1>3 DEF vars, Fault, Served, TypeOK
  <2>2. QED
    BY <2>1 DEF Served, TypeOK, Forgets, Counted
<1>4. QED
  BY <1>1, <1>2, <1>3

(* The invariant of both parts holds of every behaviour of qlkube.         *)
LEMMA InvHolds == QlkubeSpec => []Inv
<1>1. QlkubeInit => Inv
  <2> SUFFICES ASSUME Init, StartInit PROVE Inv
    BY DEF QlkubeInit
  <2>1. Started
    <3>1. << >> \in Seq(Kinds)
      OBVIOUS
    <3>2. QED
      BY <3>1, Empty, StartupAssumption DEF StartInit, Started, StartTypeOK, ServesAllItWatches
  <2>2. /\ NoRequest \in Request /\ ~NoRequest.sent /\ NoRequest.answer = None
    BY NoRequestFacts DEF NoRequest
  <2>3. << >> \in Seq(Names) /\ Len(<< >>) = 0
    OBVIOUS
  <2>4. TypeOK
    BY <2>2, <2>3, SubscriptionsAssumption DEF Init, TypeOK, Request, LongAgo
  <2>5. Served
    BY <2>2, <2>3, <2>4 DEF Init, Served, Forgets, Counted
  <2>6. QED
    BY <2>1, <2>5 DEF Inv, Init, StartInit
<1>2. ASSUME Inv, [QlkubeNext]_qlkubeVars PROVE Inv'
  <2>0. Started /\ Served /\ (watch = "down" <=> phase # "serve")
    BY <1>2 DEF Inv
  <2>1. CASE UNCHANGED qlkubeVars
    <3>1. UNCHANGED vars /\ UNCHANGED startVars
      BY <2>1 DEF qlkubeVars
    <3>2. Started'
      BY <2>0, <3>1 DEF startVars, Started, StartTypeOK, ServesAllItWatches
    <3>3. QED
      BY <2>0, <3>1, <3>2, ProcessStep DEF Inv, vars, startVars
  <2>2. CASE Install /\ UNCHANGED vars
    BY <2>0, <2>2, RequestStep, ProcessStep DEF Inv, vars
  <2>3. CASE WatchCloses
    BY <2>0, <2>3, EndStep, ProcessStep DEF Inv, WatchCloses, Close
  <2>4. CASE Listen /\ Open
    BY <2>0, <2>4, ListenStep, ProcessStep DEF Inv, Open
  <2>5. CASE Start /\ ~(Listen /\ Open)
    <3>1. offered \subseteq Endpoints
      BY <2>0 DEF Started, StartTypeOK
    <3>2. \/ UNCHANGED vars
          \/ Fault /\ UNCHANGED <<watch, since, cache, sweep, inbox, ask, got, log, ops>>
      BY <2>5 DEF Start
    <3>3. Served' /\ watch' = watch
      BY <2>0, <3>2, ProcessStep DEF vars
    <3>4. Started' /\ (phase' = "serve" <=> phase = "serve")
      BY <2>0, <2>5, <3>1, RequestStep, EndStep DEF Start
    <3>5. QED
      BY <2>0, <3>3, <3>4 DEF Inv
  <2>6. CASE phase = "serve" /\ Next /\ UNCHANGED startVars
    <3>1. Started' /\ phase' = "serve"
      BY <2>0, <2>6 DEF startVars, Started, StartTypeOK, ServesAllItWatches
    <3>2. watch # "down"
      BY <2>0, <2>6
    <3>3. Served' /\ watch' # "down"
      BY <2>0, <2>6, <3>2, ClockStep, WatchStep, FilterStep DEF Next
    <3>4. QED
      BY <3>1, <3>3 DEF Inv
  <2>7. QED
    BY <1>2, <2>1, <2>2, <2>3, <2>4, <2>5, <2>6 DEF QlkubeNext
<1>3. QED
  BY <1>1, <1>2, PTL DEF QlkubeSpec

(* The cache never holds an entry for longer than clearCache's period      *)
(* beyond its validity, whichever token it is of, and a filter never has   *)
(* an answer for an event that is not there (QlkubeTypeOK).                *)
THEOREM CacheForgets == QlkubeSpec => []QlkubeTypeOK
<1>1. Inv => QlkubeTypeOK
  BY DEF Inv, Started, Served, QlkubeTypeOK
<1>2. QED
  BY <1>1, InvHolds, PTL

(* Whatever the configuration, the groups and the wrappers: a process that *)
(* serves serves all it was configured for, under labels that differ, and  *)
(* nothing outside the groups (index.js, decorateSubscription.js).         *)
THEOREM ServesAllOrNothing == QlkubeSpec => []ServesAllItWatches
<1>1. Inv => ServesAllItWatches
  BY DEF Inv, Started
<1>2. QED
  BY <1>1, InvHolds, PTL
=============================================================================
