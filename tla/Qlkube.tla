------------------------------- MODULE Qlkube -------------------------------
(***************************************************************************)
(* qlkube: it starts (QlkubeStartup), and serves subscriptions             *)
(* (Subscriptions) until a watch that ends without an error takes the      *)
(* process down with all it has in memory. Clients connect again as soon   *)
(* as it listens. A start takes no time: nothing ages meanwhile that is in *)
(* memory.                                                                 *)
(***************************************************************************)
EXTENDS Subscriptions, QlkubeStartup

qlkubeVars == <<vars, startVars>>

QlkubeInit == Init /\ StartInit

(* main, and a request that fails although its path is there is a fault *)
Start ==
  \/ (ReadToken \/ Exit \/ Restart \/ \E p \in Endpoints : SpecArrives(p)) /\ UNCHANGED vars
  \/ \E p \in Endpoints \ offered : SpecFails(p) /\ UNCHANGED vars
  \/ \E p \in offered : SpecFails(p) /\ Fault /\ UNCHANGED <<watch, since, cache, sweep, inbox, ask, got, log, ops>>
  \/ Listen /\ Open

(* The callback of kwatch is given no error, and throws *)
WatchCloses ==
  /\ watch = "up" /\ Crash /\ Close

QlkubeNext ==
  \/ Start \/ WatchCloses \/ (Install /\ UNCHANGED vars)
  \/ phase = "serve" /\ Next /\ UNCHANGED startVars

QlkubeSpec == QlkubeInit /\ [][QlkubeNext]_qlkubeVars

(* Main goes on and the process is started again; requests are answered or *)
(* fail, and the event loop comes to every filter. A start and a filter    *)
(* never happen at the same time, so that one condition covers both.       *)
QlkubeFairSpec ==
  QlkubeSpec /\ \A s \in Subs : WF_qlkubeVars(Start \/ (Step(s) /\ UNCHANGED startVars))

-----------------------------------------------------------------------------
(* The variables have their types, those of both parts.                    *)
QlkubeTypeOK == TypeOK /\ StartTypeOK /\ (watch = "down" <=> phase # "serve")

(* qlkube serves all it is configured for or nothing: while it serves,     *)
(* every configured subscription and the query and the wrappers it needs   *)
(* are in the schema, no two watches publish under one label, and no query *)
(* is outside the configured groups, also when the custom resources were   *)
(* installed or a path failed while it was starting.                       *)
ServesAllItWatches ==
  phase = "serve" =>
    /\ schema.updates \cup schema.wrappers \subseteq schema.queries /\ schema.queries \subseteq Grouped
    /\ \A i, j \in DOMAIN labels : labels[i] \in schema.updates /\ (i # j => labels[i] # labels[j])

(* A configuration of watched kinds that are served, none of them twice.   *)
Sane == \A i, j \in DOMAIN config : config[i] \in Grouped /\ (i # j => config[i] # config[j])

(* qlkube gets to serve, and again after every crash, as long as one of    *)
(* the paths has the document: custom resources that are installed late,   *)
(* the failure of the other path and a request that fails only delay it.   *)
ServesAgain == []<>(phase = "serve" \/ ~Sane \/ kinds # Kinds)

(* A subscriber that is allowed for good is handed every event of its name *)
(* that is published, unless a request fails or the process ends: the      *)
(* expiry of the cached permission loses none. And no filter gets stuck:   *)
(* every event published is looked at.                                     *)
EventsArrive ==
  \A s \in Subs :
    /\ [](since[s[1]] = None /\ faults = MaxFaults) => <>[](got[s] = Len(Wanted(s)))
    /\ []<>(inbox[s] = << >>)
=============================================================================
