---------------------------- MODULE GqlResponse ----------------------------
(***************************************************************************)
(* The responses to the frontend's GraphQL queries and beautifyGqlResponse, *)
(* which flattens them: the fields of a nested object move up into the     *)
(* object around it, where a field of the same key is overwritten.  The    *)
(* queries give their fields aliases so that no two of them meet.          *)
(*                                                                         *)
(* A value is a leaf, a null, a list or an object; the fields of an object *)
(* are a sequence, because the order of Object.keys decides who wins.      *)
(***************************************************************************)
EXTENDS Integers, SequencesExt

CONSTANT MaxItems \* the longest list in a response

VARIABLES response, flat \* what arrived last, and what became of it

gqlVars == <<response, flat>>

Leaf(v) == [kind |-> "leaf", value |-> v]
Null == [kind |-> "null"]
List(items) == [kind |-> "list", items |-> items]
Fields(fields) == [kind |-> "object", fields |-> fields]

-----------------------------------------------------------------------------
(* The function. *)

\* newObj[key] = value: in place if the key is there, at the end otherwise.
Put(fields, field) ==
  IF \E i \in DOMAIN fields : fields[i][1] = field[1]
    THEN [i \in DOMAIN fields |-> IF fields[i][1] = field[1] THEN field ELSE fields[i]]
    ELSE Append(fields, field)

RECURSIVE BeautifyGqlResponse(_)
BeautifyGqlResponse(obj) ==
  CASE obj.kind \in {"leaf", "null"} -> obj
    [] obj.kind = "list" ->
         List([i \in DOMAIN obj.items |-> BeautifyGqlResponse(obj.items[i])])
    [] obj.kind = "object" ->
         LET Add(newObj, field) ==
               LET tmp == BeautifyGqlResponse(field[2])
               IN  IF tmp.kind # "object" THEN Put(newObj, <<field[1], tmp>>)
                                          ELSE FoldLeft(Put, newObj, tmp.fields)
         IN  Fields(FoldLeft(Add, <<>>, obj.fields))

-----------------------------------------------------------------------------
(* The responses: an object of the schema may be null (absent), a list has *)
(* up to MaxItems items, and the cache of the Apollo client asks for the   *)
(* __typename of every object.                                             *)

Object(type, fields) == Fields(Append(fields, <<"__typename", Leaf(type)>>))

Scalars(keys) == [i \in DOMAIN keys |-> <<keys[i], Leaf(keys[i])>>]

\* The object itself, or null if its type is among the absent ones.
OrNull(absent, type, fields) ==
  IF type \in absent THEN Null ELSE Object(type, fields)

Times(n, item) == List([i \in 1 .. n |-> item])

OwnedInstances(absent, n) ==
  LET template == OrNull(absent, "template", << <<"spec", OrNull(absent, "templateSpec",
        Scalars(<<"templateName", "templateDescription">>) \o
        << <<"environmentList", Times(n, Object("env", Scalars(<<"guiEnabled", "persistent">>)))>> >>)>> >>)
      ref == OrNull(absent, "ref", Scalars(<<"name", "namespace">>) \o
        << <<"templateWrapper", OrNull(absent, "wrapper",
               << <<"itPolitoCrownlabsV1alpha2Template", template>> >>)>> >>)
  IN  Object("query", << <<"instanceList", Object("list", << <<"instances", Times(n, Object("instance",
        << <<"status", OrNull(absent, "status", Scalars(<<"ip", "phase", "url">>))>>,
           <<"spec", OrNull(absent, "spec", Scalars(<<"running">>) \o
              << <<"templateCrownlabsPolitoItTemplateRef", ref>> >>)>> >>))>> >>)>> >>)

SshKeys(absent, n) ==
  Object("query", << <<"tenant", OrNull(absent, "tenant", << <<"spec", OrNull(absent, "spec",
    Scalars(<<"email", "firstName", "lastName">>) \o
    << <<"publicKeys", Times(n, Leaf("key"))>> >>)>> >>)>> >>)

WorkspaceTemplates(absent, n) ==
  Object("query", << <<"templateList", Object("list", << <<"templates", Times(n, Object("template",
    << <<"spec", OrNull(absent, "spec", Scalars(<<"name", "description">>) \o
          << <<"environmentList", Times(n, Object("env", Scalars(<<"guiEnabled", "persistent">>) \o
               << <<"resources", OrNull(absent, "resources",
                      Scalars(<<"cpu", "disk", "memory">>))>> >>))>> >>)>>,
       <<"metadata", OrNull(absent, "metadata", << <<"id", Leaf("metadata.name")>> >>)>> >>))>> >>)>> >>)

\* The query of the tenant, by the aliases of the names in it.
TenantAs(absent, n, id, name, namespace) ==
  LET workspace == OrNull(absent, "workspace",
        << <<"spec", OrNull(absent, "workspaceSpec", Scalars(<<name>>))>>,
           <<"status", OrNull(absent, "status",
                << <<"namespace", OrNull(absent, "namespace", << <<namespace, Leaf("ns")>> >>)>> >>)>> >>)
      ref == OrNull(absent, "ref", Scalars(<<id>>) \o
        << <<"workspaceWrapper", OrNull(absent, "wrapper",
               << <<"itPolitoCrownlabsV1alpha1Workspace", workspace>> >>)>> >>)
  IN  Object("query", << <<"tenant", OrNull(absent, "tenant", << <<"spec", OrNull(absent, "spec",
        Scalars(<<"email", "firstName", "lastName">>) \o
        << <<"workspaces", Times(n, Object("item",
               Scalars(<<"role">>) \o << <<"workspaceRef", ref>> >>))>> >>)>> >>)>> >>)

\* The query without the aliases of the two fields called name.
Tenant_plain(absent, n) == TenantAs(absent, n, "name", "prettyName", "name")

Tenant(absent, n) == TenantAs(absent, n, "workspaceId", "workspaceName", "workspaceNamespace")

GqlInit == response = Null /\ flat = Null

Receive(obj) ==
  /\ response' = obj
  /\ flat' = BeautifyGqlResponse(obj)

GqlNext ==
  \E n \in 0 .. MaxItems :
    \/ \E absent \in SUBSET {"template", "templateSpec", "ref", "wrapper", "status", "spec"} :
         Receive(OwnedInstances(absent, n))
    \/ \E absent \in SUBSET {"tenant", "spec"} : Receive(SshKeys(absent, n))
    \/ \E absent \in SUBSET {"spec", "resources", "metadata"} :
         Receive(WorkspaceTemplates(absent, n))
    \/ \E absent \in SUBSET {"workspace", "workspaceSpec", "status", "namespace", "ref",
                             "wrapper", "tenant", "spec"} :
         Receive(Tenant(absent, n))

-----------------------------------------------------------------------------
\* The value b holds everything that a does: the leaves of the objects nested in
\* an object under their own keys, and the items of a list one by one.
RECURSIVE Holds(_, _)
Holds(b, a) ==
  CASE a.kind \in {"leaf", "null"} -> b = a
    [] a.kind = "list" ->
         /\ b.kind = "list" /\ Len(b.items) = Len(a.items)
         /\ \A i \in DOMAIN a.items : Holds(b.items[i], a.items[i])
    [] a.kind = "object" ->
         \A i \in DOMAIN a.fields :
           LET key == a.fields[i][1]
               value == a.fields[i][2]
           IN  \/ key = "__typename"
               \/ value.kind = "object" /\ Holds(b, value)
               \/ /\ value.kind # "object"
                  /\ \E j \in DOMAIN b.fields :
                       b.fields[j][1] = key /\ Holds(b.fields[j][2], value)

(* Flattening (utiles.ts:1) loses nothing of the answer to any query of    *)
(* the frontend, whichever of the nested objects are missing: every leaf,  *)
(* null and list is in the result under its own key, and no level of it    *)
(* has an object below an object.                                          *)
FlatteningKeeps ==
  /\ Holds(flat, response)
  /\ flat.kind = "object" =>
       \A i \in DOMAIN flat.fields : flat.fields[i][2].kind # "object"
=============================================================================
