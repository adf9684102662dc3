--------------------------- MODULE WorkspacesPage ---------------------------
(***************************************************************************)
(* The workspaces page of the new frontend: the grid of workspaces, and    *)
(* for the selected one the table of its templates, whose rows open as an  *)
(* accordion.  React keeps the state of the table from one workspace to    *)
(* the next as long as both have templates, and starts afresh otherwise.   *)
(***************************************************************************)
EXTENDS Integers, Sequences

VARIABLES selectedWs, \* the selected workspace, -1 for none
          expandedId, \* the keys antd is told are expanded: one id, or ""
          clicked     \* the rows the user has opened: pairs of workspace and id

workspacesVars == <<selectedWs, expandedId, clicked>>

-----------------------------------------------------------------------------
(* The data of the page: the role in each workspace and, for each template *)
(* in order, its id, whether it has a screen and how many instances run.   *)

Template(id, gui, instances) == [id |-> id, gui |-> gui, instances |-> instances]

Ws(id, role, templates) == [id |-> id, role |-> role, templates |-> templates]

\* The same data with ids that are unique in a workspace only.
data_local ==
  << Ws(0, "manager", << Template("1", TRUE, 2), Template("2", FALSE, 0), Template("3", TRUE, 1) >>),
     Ws(1, "user", << Template("1", TRUE, 3), Template("2", FALSE, 0), Template("3", TRUE, 0) >>),
     Ws(4, "user", <<>>) >>

data ==
  << Ws(0, "manager", << Template("0_1", TRUE, 2), Template("0_2", FALSE, 0), Template("0_3", TRUE, 1),
                         Template("0_4", FALSE, 0), Template("0_5", TRUE, 3), Template("0_6", TRUE, 3) >>),
     Ws(1, "user", << Template("1_1", TRUE, 3), Template("1_2", FALSE, 0), Template("1_3", TRUE, 0) >>),
     Ws(2, "user", << Template("2_1", TRUE, 0), Template("2_2", TRUE, 0), Template("2_3", FALSE, 0) >>),
     Ws(3, "user", << Template("3_1", FALSE, 0) >>),
     Ws(4, "user", <<>>), Ws(5, "user", <<>>), Ws(6, "user", <<>>),
     Ws(7, "user", <<>>), Ws(8, "user", <<>>) >>

WsIds == {data[i].id : i \in DOMAIN data}

\* data.find: the workspace with the selected id.
Workspace(id) == data[CHOOSE i \in DOMAIN data : data[i].id = id]

\* The templates of the selected workspace, none while nothing is selected.
TemplatesOf(id) == IF id \in WsIds THEN Workspace(id).templates ELSE <<>>

WorkspacesInit ==
  /\ selectedWs = -1
  /\ expandedId = ""
  /\ clicked = {}

-----------------------------------------------------------------------------
(* What is on the screen. *)

\* The square of a workspace in the grid.
GridItem(id) == [id |-> id, active |-> selectedWs = id]

\* The pane beside the grid: the welcome, the empty workspace or the table.
Pane ==
  CASE selectedWs \notin WsIds -> "welcome"
    [] selectedWs \in WsIds /\ TemplatesOf(selectedWs) = <<>> -> "empty"
    [] OTHER -> "table"

\* The buttons in the header of the pane, for the manager of the workspace.
HeaderButtons(role) == IF role = "manager" THEN {"users", "add"} ELSE {}

\* What TemplatesEmpty says in a workspace without templates, and the welcome of
\* a page without a workspace.
Message ==
  CASE Pane = "welcome" -> "select a workspace"
    [] Pane = "empty" /\ Workspace(selectedWs).role = "manager" -> "create one"
    [] Pane = "empty" /\ Workspace(selectedWs).role = "user" -> "none available"
    [] OTHER -> ""

\* A badge of zero is not drawn.
Badge(value) == IF value = 0 THEN {} ELSE {value}

\* The menu of a template: on a narrow screen it also holds Create.
SettingsMenu == <<"Create", "Edit", "Delete">>

\* A row of the table; the arrow of a template without instances is not drawn,
\* and antd does not open it either.
TableRow(role, template) ==
  [id |-> template.id,
   icon |-> IF template.gui THEN "desktop" ELSE "console",
   badge |-> Badge(template.instances),
   menu |-> IF role = "manager" THEN SettingsMenu ELSE <<>>,
   arrow |-> template.instances > 0,
   open |-> template.instances > 0 /\ template.id = expandedId]

\* The page: its grid, and the pane of the selected workspace.
Screen ==
  [grid |-> {GridItem(id) : id \in WsIds},
   pane |-> Pane,
   message |-> Message,
   header |-> IF Pane = "welcome" THEN {} ELSE HeaderButtons(Workspace(selectedWs).role),
   rows |-> [i \in DOMAIN TemplatesOf(selectedWs) |->
               TableRow(Workspace(selectedWs).role, TemplatesOf(selectedWs)[i])]]

-----------------------------------------------------------------------------
(* What the user does. *)

\* A click on a workspace; the table keeps its state if it stays on the page.
Select(id) ==
  /\ selectedWs' = id
  /\ expandedId' = IF Pane = "table" /\ TemplatesOf(id) # <<>> THEN expandedId ELSE ""
  /\ UNCHANGED clicked

\* A click on the arrow of a row: antd tells handleAccordion whether the row is
\* to be open now.
HandleAccordion(i) ==
  LET row == Screen.rows[i]
  IN  /\ row.arrow
      /\ expandedId' = IF row.open THEN "" ELSE row.id
      /\ clicked' = clicked \union {<<selectedWs, row.id>>}
      /\ UNCHANGED selectedWs

WorkspacesNext ==
  \/ \E id \in WsIds : Select(id)
  \/ \E i \in DOMAIN TemplatesOf(selectedWs) : HandleAccordion(i)

WorkspacesSpec == WorkspacesInit /\ [][WorkspacesNext]_workspacesVars

-----------------------------------------------------------------------------
(* One accordion serves every workspace (TemplatesTable.tsx:55), yet after *)
(* any walk through the grid at most one row is open, it is a row the user *)
(* opened in the workspace whose square is active, and its badge counts    *)
(* something; a workspace without the manager's header never has a row     *)
(* with the manager's menu or the manager's message.                       *)
AccordionFollowsUser ==
  LET open == {i \in DOMAIN Screen.rows : Screen.rows[i].open}
  IN  /\ \A i, j \in open : i = j
      /\ \A i \in open : \E item \in Screen.grid :
           item.active /\ <<item.id, Screen.rows[i].id>> \in clicked
      /\ \A i \in open : Screen.rows[i].badge # {}
      /\ Screen.header = {} => /\ Screen.message # "create one"
                               /\ \A i \in DOMAIN Screen.rows : Screen.rows[i].menu = <<>>
=============================================================================
