---------------------------- MODULE QlkubeStartup ----------------------------
(***************************************************************************)
(* How qlkube starts (index.js): it asks the API server for its OpenAPI    *)
(* document at several paths at once and takes the first answer (oas.js),  *)
(* keeps what belongs to the configured groups (decorateOpenapi.js), makes *)
(* a GraphQL schema of it with wrappers (schema.js, decorateBaseSchema.js) *)
(* and subscriptions (decorateSubscription.js), listens and watches. What  *)
(* is wrong with the schema ends the process, and the Deployment starts it *)
(* again.                                                                  *)
(*                                                                         *)
(* A kind stands for the path, the definition, the query and the type that *)
(* are named after it; Machinery are definitions every group uses. Config  *)
(* is the list of the types of subscriptions.js.                           *)
(***************************************************************************)
EXTENDS Naturals, Sequences

CONSTANTS
  Endpoints,    \* openApiPaths,
  Offers,       \* and which of them an API server may have
  Kinds,        \* the kinds of resources of any cluster,
  Grouped,      \* those of the groups in apiGroups.js
  Machinery,    \* definitions of io.k8s.apimachinery
  Wrappers,     \* the wrappers of schema.js, a sequence of [query, host]
  Configs       \* the lists of subscriptions to start with

ASSUME StartupAssumption ==
  /\ Endpoints # {} /\ Offers \subseteq SUBSET Endpoints /\ Grouped \subseteq Kinds
  /\ Configs \subseteq Seq(Kinds)

VARIABLES
  phase,       \* where main is; down is a process that has ended
  offered,     \* the paths the API server has
  kinds,       \* the kinds the API server has
  asked,       \* the requests for the document
  doc,         \* the document, once there is one
  schema,      \* the schema served
  labels,      \* the labels of the watches, in the order of their start
  config       \* subscriptions.js

startVars == <<phase, offered, kinds, asked, doc, schema, labels, config>>

NoDoc == [paths |-> {}, definitions |-> {}]
NoSchema == [queries |-> {}, wrappers |-> {}, updates |-> {}]

StartTypeOK ==
  /\ phase \in {"token", "oas", "schema", "serve", "down"}
  /\ offered \subseteq Endpoints /\ kinds \subseteq Kinds /\ asked \subseteq Endpoints
  /\ doc \in [paths : SUBSET Kinds, definitions : SUBSET (Kinds \cup Machinery)]
  /\ schema \in [queries : SUBSET Kinds, wrappers : SUBSET Kinds, updates : SUBSET Kinds]
  /\ config \in Configs /\ labels \in Seq(Kinds)
  /\ (phase = "oas" <=> asked # {}) /\ (phase # "serve" => labels = << >>)

StartInit ==
  /\ phase = "token" /\ offered \in Offers /\ kinds = Kinds \ Grouped
  /\ asked = {} /\ doc = NoDoc /\ schema = NoSchema /\ labels = << >> /\ config \in Configs

-----------------------------------------------------------------------------
(* decorateOpenapi *)
DecorateOpenapi(oas) ==
  [paths |-> oas.paths \cap Grouped, definitions |-> oas.definitions \cap (Grouped \cup Machinery)]

(* oasToGraphQlSchema makes a query of a path whose definition is there *)
Queries(oas) == oas.paths \cap oas.definitions

(* decorateBaseSchema, the i-th time: the query and the type to extend     *)
(* must be there, and the wrapper must not.                                *)
WrapperThrows(oas, i) ==
  \/ Wrappers[i].query \notin Queries(oas) \/ Wrappers[i].host \notin oas.definitions
  \/ \E j \in 1 .. i - 1 : Wrappers[j].query = Wrappers[i].query

(* decorateEnum *)
EnumThrows(oas) == "UpdateType" \in oas.definitions

(* variant: a type may be given two subscriptions *)
SubscriptionThrows_twice(oas, i) == config[i] \notin Queries(oas)

(* decorateSubscription, the i-th time: the type must be there, and must   *)
(* not have a subscription yet.                                            *)
SubscriptionThrows(oas, i) ==
  config[i] \notin Queries(oas) \/ \E j \in 1 .. i - 1 : config[j] = config[i]

(* createSchema and setupSubscriptions: the first exception ends the process *)
Throws(oas) ==
  \/ \E i \in DOMAIN Wrappers : WrapperThrows(oas, i)
  \/ EnumThrows(oas)
  \/ \E i \in DOMAIN config : SubscriptionThrows(oas, i)

-----------------------------------------------------------------------------
(* main up to the requests *)
ReadToken ==
  /\ phase = "token" /\ phase' = "oas" /\ asked' = Endpoints
  /\ UNCHANGED <<offered, kinds, doc, schema, labels, config>>

(* The first answer is taken, the other requests are no longer waited for *)
SpecArrives(p) ==
  /\ p \in asked \cap offered
  /\ asked' = {} /\ phase' = "schema"
  /\ doc' = DecorateOpenapi([paths |-> kinds, definitions |-> kinds \cup Machinery])
  /\ UNCHANGED <<offered, kinds, schema, labels, config>>

(* variant: the first request to end decides *)
SpecFails_race(p) ==
  /\ p \in asked /\ asked' = {} /\ phase' = "down"
  /\ UNCHANGED <<offered, kinds, doc, schema, labels, config>>

(* A request fails or takes too long; when all have, main throws, and a    *)
(* process with nothing left to do ends.                                   *)
SpecFails(p) ==
  /\ p \in asked /\ asked' = asked \ {p}
  /\ phase' = IF asked' = {} THEN "down" ELSE phase
  /\ UNCHANGED <<offered, kinds, doc, schema, labels, config>>

(* The rest of main, without a pause: the schema, the server, the watches  *)
Listen ==
  /\ phase = "schema" /\ ~Throws(doc)
  /\ schema' = [queries |-> Queries(doc), wrappers |-> {Wrappers[i].query : i \in DOMAIN Wrappers},
                updates |-> {config[i] : i \in DOMAIN config}]
  /\ phase' = "serve" /\ labels' = config /\ doc' = NoDoc
  /\ UNCHANGED <<offered, kinds, asked, config>>

(* or it throws on the way *)
Exit ==
  /\ phase = "schema" /\ Throws(doc)
  /\ phase' = "down" /\ doc' = NoDoc
  /\ UNCHANGED <<offered, kinds, asked, schema, labels, config>>

(* What ends a process that serves *)
Crash ==
  /\ phase = "serve" /\ phase' = "down" /\ schema' = NoSchema /\ labels' = << >>
  /\ UNCHANGED <<offered, kinds, asked, doc, config>>

(* The Deployment starts the process again *)
Restart ==
  /\ phase = "down" /\ phase' = "token"
  /\ UNCHANGED <<offered, kinds, asked, doc, schema, labels, config>>

(* The custom resources are installed *)
Install ==
  /\ kinds # Kinds /\ kinds' = Kinds
  /\ UNCHANGED <<phase, offered, asked, doc, schema, labels, config>>
=============================================================================
