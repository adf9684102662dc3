----------------------------- MODULE ActivePage -----------------------------
(***************************************************************************)
(* The page of the active instances of the new frontend: a table of the    *)
(* tenant's templates or, in the view of a manager, a table of workspaces  *)
(* whose open rows hold a table of templates each (NestedTables).  The     *)
(* outer table is the same React element in both views, so its state       *)
(* survives the switch; the tables inside its rows do not.                 *)
(***************************************************************************)
EXTENDS Integers, Sequences

VARIABLES isTenantManager, \* the property the page is rendered with
          managerView,     \* the state of ActiveLanding
          expandedID,      \* the expanded key of the outer table, or ""
          nestedID,        \* per workspace, the expanded key of its table, or ""
          touched          \* the rows the user has clicked: [view, table, key]

activeVars == <<isTenantManager, managerView, expandedID, nestedID, touched>>

-----------------------------------------------------------------------------
(* The data of the page. *)

templates == {"LANDC-labs", "TSR-labs", "LANDC-project"}

workspaces ==
  [k \in {"01SQOOV", "02KPNOV"} |->
     IF k = "02KPNOV" THEN {"TSR-labs"} ELSE {"LANDC-labs", "LANDC-project"}]

\* The keys of the rows of the outer table.
Rows == IF managerView THEN DOMAIN workspaces ELSE templates

ActiveInit ==
  /\ isTenantManager \in BOOLEAN
  /\ managerView = FALSE
  /\ expandedID = ""
  /\ nestedID = [k \in DOMAIN workspaces |-> ""]
  /\ touched = {}

-----------------------------------------------------------------------------
(* A click in a table of antd: onExpand learns whether the row is to be    *)
(* open, and accordion leaves that row alone expanded.                     *)

\* A click on the row, or on an entry of the menu of its heading, which calls
\* destroyAll and lets the event go on to the row.
Toggled(expanded, key) == IF expanded = key THEN "" ELSE key

\* A click on the caret is handled by the caret and again by the row.  Both
\* work on one set of keys: the first call takes an expanded key out of the set,
\* so the second one finds the row closed and opens it again.
Careted(expanded, key) == key

\* A click on the row or on its caret.
ClickOuter(key) ==
  /\ expandedID' \in {Toggled(expandedID, key), Careted(expandedID, key)}
  /\ touched' = touched \union {[view |-> managerView, table |-> "", key |-> key]}
  /\ UNCHANGED <<isTenantManager, managerView, nestedID>>

\* A table inside an open row of the manager's view.
ClickNested(ws, key) ==
  /\ managerView /\ expandedID = ws
  /\ \E id \in {Toggled(nestedID[ws], key), Careted(nestedID[ws], key)} :
       nestedID' = [nestedID EXCEPT ![ws] = id]
  /\ touched' = touched \union {[view |-> managerView, table |-> ws, key |-> key]}
  /\ UNCHANGED <<isTenantManager, managerView, expandedID>>

\* The radio buttons; antd keeps a nested table while its row is on the page,
\* open or not, and drops it with the row.
SetManagerView(view) ==
  /\ isTenantManager
  /\ view # managerView
  /\ managerView' = view
  /\ nestedID' = [k \in DOMAIN workspaces |-> ""]
  /\ UNCHANGED <<isTenantManager, expandedID, touched>>

ActiveNext ==
  \/ \E key \in Rows : ClickOuter(key)
  \/ \E ws \in DOMAIN workspaces : \E key \in workspaces[ws] : ClickNested(ws, key)
  \/ \E view \in BOOLEAN : SetManagerView(view)

ActiveSpec == ActiveInit /\ [][ActiveNext]_activeVars

-----------------------------------------------------------------------------
(* What is on the screen: the open rows of the outer table, and those of   *)
(* the nested tables that can be seen.                                     *)
OpenRows ==
  {[view |-> managerView, table |-> "", key |-> k] : k \in Rows \intersect {expandedID}}
    \union {[view |-> managerView, table |-> ws, key |-> nestedID[ws]] :
              ws \in {w \in DOMAIN workspaces :
                        managerView /\ expandedID = w /\ nestedID[w] # ""}}

(* One list of expanded keys serves the personal and the managed view      *)
(* (NestedTables.tsx:34): however the tenant switches and clicks, no row   *)
(* is open that was not clicked in that very view and table, so the rows   *)
(* of one view never open those of the other; and a tenant who manages     *)
(* nothing only ever sees templates, "the only view for user-privileged    *)
(* tenants" (NestedTables.stories.tsx).                                    *)
RowsFollowUser ==
  /\ OpenRows \subseteq touched
  /\ ~isTenantManager => Rows = templates
=============================================================================
