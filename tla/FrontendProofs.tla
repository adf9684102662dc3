--------------------------- MODULE FrontendProofs ---------------------------
(***************************************************************************)
(* What is proved of the pages in the browser: the dashboard and its form, *)
(* and of the new frontend the theme, the start and the open rows of the   *)
(* two pages of tables.                                                    *)
(***************************************************************************)
EXTENDS Dashboard, Theme, AppShell, FrontendTables, FiniteSetTheorems, WellFoundedInduction,
        TLAPS

-----------------------------------------------------------------------------
(* The theme survives loads and the other tabs, for any set of tabs.       *)

Themes == BOOLEAN \union {NotSet}

(* The class of a body may lag behind the state only in a tab whose effect *)
(* is pending, such a tab is open, and storage holds what was applied last.*)
ThemeInv ==
  /\ isDarkTheme \in [Tabs -> Themes] /\ stored \in Themes
  /\ dirty \subseteq Tabs /\ listening \subseteq Tabs
  /\ \A t \in dirty : Open(t)
  /\ \A t \in listening : Open(t)
  /\ stored = applied
  /\ \A t \in Tabs : Open(t) /\ t \notin dirty => (t \in light <=> ~isDarkTheme[t])

(* Before anything is loaded nothing is stored.                            *)
LEMMA InitTheme == ThemeInit => ThemeInv
  BY DEF ThemeInit, ThemeInv, Themes, Open

(* A page starts from a theme, whatever is stored (useState in             *)
(* ThemeContextProvider).                                                  *)
LEMMA InitialIsTheme == stored \in Themes => Initial \in BOOLEAN
  BY DEF Initial, Themes

(* Every load, effect, switch, change of preference and closing keeps      *)
(* state, class and storage together.                                      *)
LEMMA StepTheme == ThemeInv /\ [ThemeNext]_themeVars => ThemeInv'
<1> SUFFICES ASSUME ThemeInv, [ThemeNext]_themeVars PROVE ThemeInv'
  OBVIOUS
<1> USE ThemeAssumption DEF ThemeInv, Themes, Open
<1>1. ASSUME NEW t \in Tabs, Load(t) PROVE ThemeInv'
  BY <1>1, InitialIsTheme DEF Load
<1>2. ASSUME NEW t \in Tabs, Reflect(t) PROVE ThemeInv'
  BY <1>2 DEF Reflect
<1>3. ASSUME NEW t \in Tabs, Switch(t) PROVE ThemeInv'
  <2>1. PICK b \in BOOLEAN : isDarkTheme' = [isDarkTheme EXCEPT ![t] = b]
    <3>1. (~isDarkTheme[t]) \in BOOLEAN
      OBVIOUS
    <3>2. QED
      BY <1>3, <3>1 DEF Switch
  <2>2. QED
    BY <1>3, <2>1 DEF Switch
<1>4. ASSUME NEW t \in Tabs, Close(t) PROVE ThemeInv'
  BY <1>4 DEF Close
<1>5. ASSUME NEW scheme \in Schemes, Prefer(scheme) PROVE ThemeInv'
  <2> DEFINE new == [t \in Tabs |-> IF t \in listening /\ scheme # "none"
                                      THEN scheme = "dark" ELSE isDarkTheme[t]]
  <2>1. /\ isDarkTheme' = new
        /\ dirty' = dirty \union {t \in Tabs : new[t] # isDarkTheme[t]}
        /\ UNCHANGED <<light, stored, listening, applied>>
    BY <1>5 DEF Prefer
  <2>2. \A t \in Tabs : new[t] \in Themes /\ (Open(t) <=> new[t] # NotSet)
    <3>1. (scheme = "dark") \in BOOLEAN
      OBVIOUS
    <3>2. QED
      BY <3>1
  <2>3. \A t \in Tabs \ dirty' : new[t] = isDarkTheme[t]
    BY <2>1
  <2> HIDE DEF new
  <2>4. isDarkTheme' \in [Tabs -> Themes]
    BY <2>1, <2>2 DEF new
  <2>5. QED
    BY <2>1, <2>2, <2>3, <2>4
<1>6. CASE UNCHANGED themeVars
  BY <1>6 DEF themeVars
<1>7. QED
  BY <1>1, <1>2, <1>3, <1>4, <1>5, <1>6 DEF ThemeNext

(* A page loaded at any time starts with the theme applied last by any     *)
(* tab, and a tab shows the theme it holds (ThemeContext.tsx:27 and 44),   *)
(* however many tabs are open.                                             *)
THEOREM ThemeAlwaysSurvives == ThemeSpec => []ThemeSurvives
<1>1. ThemeInv => ThemeSurvives
  BY DEF ThemeInv, ThemeSurvives, Initial
<1>2. QED
  BY <1>1, InitTheme, StepTheme, PTL DEF ThemeSpec

-----------------------------------------------------------------------------
(* The start of the new frontend. *)

(* A page that is drawn has read every variable.                           *)
ReadAll == app \in [drawn : BOOLEAN, read : SUBSET EnvVars] /\ (app.drawn => EnvVars \subseteq app.read)

(* The links of a page lead to pages.                                      *)
LEMMA LinksLead == \A p \in Links : Route(p) # ""
<1>1. Links \subseteq {"/active", "/account", "/"}
  BY DEF Links
<1>2. Route("/active") = "active" /\ Route("/account") = "account" /\ Route("/") = "home"
  BY DEF Route
<1>3. QED
  BY <1>1, <1>2

(* Whatever config.js becomes and whichever links are followed, what is on *)
(* the screen was loaded with everything defined (getEnvVar).              *)
THEOREM DrawnMeansConfigured == ShellSpec => []HomeMeansConfigured
<1> DEFINE I == ReadAll /\ built \subseteq EnvVars /\ window \subseteq EnvVars
<1>1. ShellInit => I
  BY DEF ShellInit, ReadAll, NoPage
<1>2. I /\ [ShellNext]_shellVars => I'
  <2> SUFFICES ASSUME I, [ShellNext]_shellVars PROVE I'
    OBVIOUS
  <2>1. ASSUME NEW p \in Paths, LoadPage(p) PROVE I'
    BY <2>1 DEF LoadPage, GetEnvVar, ReadAll, NoPage
  <2>2. CASE (\E names \in SUBSET EnvVars : Configure(names)) \/ \E p \in Paths : Follow(p)
    BY <2>2 DEF Configure, Follow, ReadAll
  <2>3. CASE UNCHANGED shellVars
    BY <2>3 DEF shellVars, ReadAll
  <2>4. QED
    BY <2>1, <2>2, <2>3 DEF ShellNext
<1>3. I => HomeMeansConfigured
  BY LinksLead DEF ReadAll, HomeMeansConfigured
<1>4. QED
  BY <1>1, <1>2, <1>3, PTL DEF ShellSpec

-----------------------------------------------------------------------------
(* The rows of the page of the active instances.                           *)

(* The managed view is a manager's; an expanded key was clicked in the     *)
(* view it belongs to, and a nested one in its table of the managed view.  *)
ActiveInv ==
  /\ managerView \in BOOLEAN /\ (managerView => isTenantManager)
  /\ expandedID # "" =>
       \/ expandedID \in templates /\ [view |-> FALSE, table |-> "", key |-> expandedID] \in touched
       \/ expandedID \in DOMAIN workspaces /\ [view |-> TRUE, table |-> "", key |-> expandedID] \in touched
  /\ nestedID \in [DOMAIN workspaces -> templates \union {""}]
  /\ \A ws \in DOMAIN workspaces : nestedID[ws] # "" =>
       managerView /\ [view |-> TRUE, table |-> ws, key |-> nestedID[ws]] \in touched

(* The keys of the two views differ, and none is the empty one.            *)
LEMMA KeysDiffer ==
  /\ DOMAIN workspaces = {"01SQOOV", "02KPNOV"} /\ templates \intersect DOMAIN workspaces = {}
  /\ "" \notin templates /\ "" \notin DOMAIN workspaces
  /\ \A ws \in DOMAIN workspaces : workspaces[ws] \subseteq templates
  BY DEF workspaces, templates

(* Every click and every change of the view keeps that.                    *)
LEMMA ActiveStep == ActiveInv /\ [ActiveNext]_activeVars => ActiveInv'
<1> SUFFICES ASSUME ActiveInv, [ActiveNext]_activeVars PROVE ActiveInv'
  OBVIOUS
<1>1. ASSUME NEW key \in Rows, ClickOuter(key) PROVE ActiveInv'
  <2>1. /\ expandedID' \in {"", key} /\ UNCHANGED <<isTenantManager, managerView, nestedID>>
        /\ touched' = touched \union {[view |-> managerView, table |-> "", key |-> key]}
    BY <1>1 DEF ClickOuter, Toggled, Careted
  <2>2. managerView \in BOOLEAN
    BY DEF ActiveInv
  <2>3. CASE managerView
    <3>1. key \in DOMAIN workspaces /\ managerView = TRUE
      BY <2>2, <2>3 DEF Rows
    <3>2. QED
      BY <2>1, <3>1 DEF ActiveInv
  <2>4. CASE ~managerView
    <3>1. key \in templates /\ managerView = FALSE
      BY <2>2, <2>4 DEF Rows
    <3>2. QED
      BY <2>1, <3>1 DEF ActiveInv
  <2>5. QED
    BY <2>3, <2>4
<1>2. ASSUME NEW ws \in DOMAIN workspaces, NEW key \in workspaces[ws], ClickNested(ws, key)
      PROVE  ActiveInv'
  <2>1. managerView = TRUE /\ key \in templates
    BY <1>2, KeysDiffer DEF ClickNested, ActiveInv
  <2>2. PICK id \in {"", key} : nestedID' = [nestedID EXCEPT ![ws] = id]
    BY <1>2 DEF ClickNested, Toggled, Careted
  <2>3. /\ touched' = touched \union {[view |-> TRUE, table |-> ws, key |-> key]}
        /\ UNCHANGED <<isTenantManager, managerView, expandedID>>
    BY <1>2, <2>1 DEF ClickNested
  <2>4. QED
    BY <2>1, <2>2, <2>3 DEF ActiveInv
<1>3. ASSUME NEW v \in BOOLEAN, SetManagerView(v) PROVE ActiveInv'
  <2>1. /\ isTenantManager /\ managerView' = v /\ nestedID' = [k \in DOMAIN workspaces |-> ""]
        /\ UNCHANGED <<isTenantManager, expandedID, touched>>
    BY <1>3 DEF SetManagerView
  <2>2. QED
    BY <2>1 DEF ActiveInv
<1>4. CASE UNCHANGED activeVars
  BY <1>4 DEF activeVars, ActiveInv
<1>5. QED
  BY <1>1, <1>2, <1>3, <1>4 DEF ActiveNext

(* A page that satisfies it has only open rows the user clicked there.     *)
LEMMA ActiveFollows == ActiveInv => RowsFollowUser
<1> SUFFICES ASSUME ActiveInv PROVE RowsFollowUser
  OBVIOUS
<1>1. managerView \in BOOLEAN
  BY DEF ActiveInv
<1>2. ~isTenantManager => Rows = templates
  BY DEF ActiveInv, Rows
<1>3. ASSUME NEW k \in Rows, k = expandedID PROVE [view |-> managerView, table |-> "", key |-> k] \in touched
  <2>1. CASE managerView
    <3>1. k \in DOMAIN workspaces /\ managerView = TRUE
      BY <1>1, <1>3, <2>1 DEF Rows
    <3>2. QED
      BY <1>3, <3>1, KeysDiffer DEF ActiveInv
  <2>2. CASE ~managerView
    <3>1. k \in templates /\ managerView = FALSE
      BY <1>1, <1>3, <2>2 DEF Rows
    <3>2. QED
      BY <1>3, <3>1, KeysDiffer DEF ActiveInv
  <2>3. QED
    BY <2>1, <2>2
<1>4. ASSUME NEW ws \in DOMAIN workspaces, managerView, nestedID[ws] # ""
      PROVE  [view |-> managerView, table |-> ws, key |-> nestedID[ws]] \in touched
  <2>1. managerView = TRUE
    BY <1>1, <1>4
  <2>2. QED
    BY <1>4, <2>1 DEF ActiveInv
<1>5. OpenRows \subseteq touched
  BY <1>3, <1>4 DEF OpenRows
<1>6. QED
  BY <1>2, <1>5 DEF RowsFollowUser

-----------------------------------------------------------------------------
(* The rows of the workspaces page.                                        *)

(* Workspaces are numbered from 0, in order.                               *)
LEMMA WorkspaceData ==
  /\ DOMAIN data = 1 .. 9 /\ \A a \in 1 .. 9 : data[a].id = a - 1
  /\ \A a \in 1 .. 9 : data[a].role \in {"manager", "user"}
<1>1. DOMAIN data = 1 .. 9
  BY DEF data
<1>2. /\ data[1].id = 0 /\ data[2].id = 1 /\ data[3].id = 2 /\ data[4].id = 3 /\ data[5].id = 4
      /\ data[6].id = 5 /\ data[7].id = 6 /\ data[8].id = 7 /\ data[9].id = 8
  BY DEF data, Ws
<1>3. /\ data[1].role = "manager" /\ data[2].role = "user" /\ data[3].role = "user"
      /\ data[4].role = "user" /\ data[5].role = "user" /\ data[6].role = "user"
      /\ data[7].role = "user" /\ data[8].role = "user" /\ data[9].role = "user"
  BY DEF data, Ws
<1>4. QED
  BY <1>1, <1>2, <1>3

(* A row of the table of some workspace, by their places and its id.       *)
IsRow(a, i, id) ==
  <<a, i, id>> \in
    {<<1, 1, "0_1">>, <<1, 2, "0_2">>, <<1, 3, "0_3">>, <<1, 4, "0_4">>, <<1, 5, "0_5">>,
     <<1, 6, "0_6">>, <<2, 1, "1_1">>, <<2, 2, "1_2">>, <<2, 3, "1_3">>, <<3, 1, "2_1">>,
     <<3, 2, "2_2">>, <<3, 3, "2_3">>, <<4, 1, "3_1">>}

(* The rows are these.                                                     *)
LEMMA RowData ==
  ASSUME NEW a \in 1 .. 9, NEW i \in DOMAIN data[a].templates
  PROVE  IsRow(a, i, data[a].templates[i].id)
<1>1. /\ DOMAIN data[1].templates = 1 .. 6 /\ DOMAIN data[2].templates = 1 .. 3
      /\ DOMAIN data[3].templates = 1 .. 3 /\ DOMAIN data[4].templates = 1 .. 1
  BY DEF data, Ws
<1>2. /\ DOMAIN data[5].templates = {} /\ DOMAIN data[6].templates = {}
      /\ DOMAIN data[7].templates = {} /\ DOMAIN data[8].templates = {} /\ DOMAIN data[9].templates = {}
  BY DEF data, Ws
<1>3. /\ data[1].templates[1].id = "0_1" /\ data[1].templates[2].id = "0_2"
      /\ data[1].templates[3].id = "0_3" /\ data[1].templates[4].id = "0_4"
      /\ data[1].templates[5].id = "0_5" /\ data[1].templates[6].id = "0_6"
      /\ data[2].templates[1].id = "1_1" /\ data[2].templates[2].id = "1_2"
      /\ data[2].templates[3].id = "1_3" /\ data[3].templates[1].id = "2_1"
      /\ data[3].templates[2].id = "2_2" /\ data[3].templates[3].id = "2_3"
      /\ data[4].templates[1].id = "3_1"
  BY DEF data, Ws, Template
<1>4. /\ IsRow(1, 1, "0_1") /\ IsRow(1, 2, "0_2") /\ IsRow(1, 3, "0_3") /\ IsRow(1, 4, "0_4")
      /\ IsRow(1, 5, "0_5") /\ IsRow(1, 6, "0_6") /\ IsRow(2, 1, "1_1") /\ IsRow(2, 2, "1_2")
      /\ IsRow(2, 3, "1_3") /\ IsRow(3, 1, "2_1") /\ IsRow(3, 2, "2_2") /\ IsRow(3, 3, "2_3")
      /\ IsRow(4, 1, "3_1")
  BY DEF IsRow
<1>5. CASE a = 1
  <2>1. i \in {1, 2, 3, 4, 5, 6}
    BY <1>1, <1>5
  <2>2. QED
    BY <1>3, <1>4, <1>5, <2>1
<1>6. CASE a = 2
  <2>1. i \in {1, 2, 3}
    BY <1>1, <1>6
  <2>2. QED
    BY <1>3, <1>4, <1>6, <2>1
<1>7. CASE a = 3
  <2>1. i \in {1, 2, 3}
    BY <1>1, <1>7
  <2>2. QED
    BY <1>3, <1>4, <1>7, <2>1
<1>8. CASE a = 4
  BY <1>1, <1>3, <1>4, <1>8
<1>9. CASE a \in 5 .. 9
  BY <1>2, <1>9
<1>10. QED
  BY <1>5, <1>6, <1>7, <1>8, <1>9

(* An id is never empty and names one row of one workspace.                *)
LEMMA IdsAreUnique ==
  ASSUME NEW a, NEW b, NEW i, NEW j, NEW id, IsRow(a, i, id), IsRow(b, j, id)
  PROVE  id # "" /\ a = b /\ i = j
  BY DEF IsRow

(* The workspace of an id is the one at its place.                         *)
LEMMA WorkspacePlace ==
  /\ WsIds = 0 .. 8 /\ -1 \notin WsIds
  /\ \A w \in WsIds : w + 1 \in 1 .. 9 /\ Workspace(w) = data[w + 1]
                      /\ TemplatesOf(w) = data[w + 1].templates
<1>1. WsIds = 0 .. 8
  <2>1. \A w \in 0 .. 8 : w + 1 \in DOMAIN data /\ data[w + 1].id = w
    BY WorkspaceData
  <2>2. QED
    BY <2>1, WorkspaceData DEF WsIds
<1>2. ASSUME NEW w \in WsIds PROVE w + 1 \in 1 .. 9 /\ Workspace(w) = data[w + 1]
  <2>1. w + 1 \in DOMAIN data /\ data[w + 1].id = w /\ \A a \in DOMAIN data : data[a].id = w => a = w + 1
    BY <1>1, WorkspaceData
  <2>2. (CHOOSE a \in DOMAIN data : data[a].id = w) = w + 1
    BY <2>1
  <2>3. QED
    BY <2>1, <2>2, WorkspaceData DEF Workspace
<1>3. QED
  BY <1>1, <1>2 DEF TemplatesOf

(* An expanded key is the id of a row the user opened in its workspace.    *)
WorkspacesInv ==
  /\ selectedWs \in WsIds \union {-1}
  /\ expandedId # "" => \E w \in WsIds, i \in Nat : IsRow(w + 1, i, expandedId) /\ <<w, expandedId>> \in clicked

(* Selecting a workspace and opening a row keep that.                      *)
LEMMA WorkspacesStep == WorkspacesInv /\ [WorkspacesNext]_workspacesVars => WorkspacesInv'
<1> SUFFICES ASSUME WorkspacesInv, [WorkspacesNext]_workspacesVars PROVE WorkspacesInv'
  OBVIOUS
<1>1. ASSUME NEW id \in WsIds, Select(id) PROVE WorkspacesInv'
  <2>1. selectedWs' = id /\ expandedId' \in {expandedId, ""} /\ clicked' = clicked
    BY <1>1 DEF Select
  <2>2. QED
    BY <2>1 DEF WorkspacesInv
<1>2. ASSUME NEW i \in DOMAIN TemplatesOf(selectedWs), HandleAccordion(i) PROVE WorkspacesInv'
  <2>1. selectedWs \in WsIds
    BY <1>2 DEF TemplatesOf
  <2> DEFINE w == selectedWs  id == data[w + 1].templates[i].id
  <2>2. w + 1 \in 1 .. 9 /\ i \in DOMAIN data[w + 1].templates /\ TemplatesOf(w) = data[w + 1].templates
    BY <1>2, <2>1, WorkspacePlace
  <2>3. IsRow(w + 1, i, id) /\ i \in Nat
    <3>1. IsRow(w + 1, i, id)
      BY <2>2, RowData
    <3>2. QED
      BY <3>1 DEF IsRow
  <2>4. Screen.rows[i].id = id
    BY <1>2, <2>2 DEF Screen, TableRow
  <2>5. expandedId' \in {"", id} /\ clicked' = clicked \union {<<w, id>>} /\ selectedWs' = selectedWs
    BY <1>2, <2>4 DEF HandleAccordion
  <2> HIDE DEF id
  <2>6. QED
    BY <2>1, <2>3, <2>5 DEF WorkspacesInv
<1>3. CASE UNCHANGED workspacesVars
  BY <1>3 DEF workspacesVars, WorkspacesInv
<1>4. QED
  BY <1>1, <1>2, <1>3 DEF WorkspacesNext

(* A page that satisfies it has at most one open row, which the user       *)
(* opened there, and shows the manager's controls together.                *)
LEMMA WorkspacesFollow == WorkspacesInv => AccordionFollowsUser
<1> SUFFICES ASSUME WorkspacesInv PROVE AccordionFollowsUser
  OBVIOUS
<1> DEFINE w == selectedWs  rows == Screen.rows  ts == TemplatesOf(w)
           open == {i \in DOMAIN rows : rows[i].open}
<1>1. rows = [i \in DOMAIN ts |-> TableRow(Workspace(w).role, ts[i])]
  BY DEF Screen
<1>2. w \notin WsIds => DOMAIN rows = {}
  BY <1>1 DEF TemplatesOf
<1>3. ASSUME NEW i \in open
      PROVE  /\ w \in WsIds /\ IsRow(w + 1, i, expandedId) /\ <<w, expandedId>> \in clicked
             /\ rows[i].id = expandedId /\ rows[i].badge # {}
  <2>1. i \in DOMAIN ts /\ rows[i] = TableRow(Workspace(w).role, ts[i]) /\ rows[i].open
    BY <1>1
  <2>2. w \in WsIds
    BY <1>2, <2>1
  <2>3. w + 1 \in 1 .. 9 /\ ts = data[w + 1].templates
    BY <2>2, WorkspacePlace
  <2> HIDE DEF rows, open, ts
  <2>4. ts[i].instances > 0 /\ ts[i].id = expandedId /\ rows[i].id = expandedId
    <3> DEFINE t == ts[i]  role == Workspace(w).role
    <3>1. TableRow(role, t).id = t.id
      BY DEF TableRow
    <3>2. TableRow(role, t).open <=> t.instances > 0 /\ t.id = expandedId
      BY DEF TableRow
    <3> HIDE DEF t, role
    <3>3. rows[i] = TableRow(role, t) /\ rows[i].open
      BY <2>1 DEF t, role
    <3>4. QED
      BY <3>1, <3>2, <3>3 DEF t
  <2>5. IsRow(w + 1, i, expandedId)
    BY <2>1, <2>3, <2>4, RowData
  <2>6. rows[i].badge # {}
    BY <2>1, <2>4 DEF TableRow, Badge
  <2>7. expandedId # ""
    BY <2>5 DEF IsRow
  <2>8. PICK v \in WsIds, j \in Nat : IsRow(v + 1, j, expandedId) /\ <<v, expandedId>> \in clicked
    BY <2>7 DEF WorkspacesInv
  <2>9. v + 1 = w + 1
    BY <2>5, <2>8, IdsAreUnique
  <2>10. v = w
    BY <2>2, <2>9, WorkspacePlace
  <2>11. QED
    BY <2>2, <2>4, <2>5, <2>6, <2>8, <2>10
<1>4. \A i, j \in open : i = j
  BY <1>3, IdsAreUnique
<1>5. ASSUME NEW i \in open
      PROVE  \E item \in Screen.grid : item.active /\ <<item.id, rows[i].id>> \in clicked
  <2>1. GridItem(w) \in Screen.grid
    BY <1>3 DEF Screen
  <2>2. GridItem(w).active /\ GridItem(w).id = w
    BY DEF GridItem
  <2>3. QED
    BY <1>3, <2>1, <2>2
<1>6. ASSUME Screen.header = {}
      PROVE  Screen.message # "create one" /\ \A i \in DOMAIN rows : rows[i].menu = <<>>
  <2>1. CASE w \notin WsIds
    <3>1. Message = "select a workspace"
      BY <2>1 DEF Message, Pane
    <3>2. QED
      BY <1>2, <2>1, <3>1 DEF Screen
  <2>2. CASE w \in WsIds
    <3>1. Pane # "welcome"
      BY <2>2 DEF Pane
    <3>2. Workspace(w).role # "manager"
      BY <1>6, <3>1 DEF Screen, HeaderButtons
    <3>3. Workspace(w).role = "user"
      BY <2>2, <3>2, WorkspacePlace, WorkspaceData
    <3>4. Message # "create one"
      BY <3>1, <3>3 DEF Message
    <3>5. \A i \in DOMAIN rows : rows[i].menu = <<>>
      BY <1>1, <3>2 DEF TableRow
    <3>6. QED
      BY <3>4, <3>5 DEF Screen
  <2>3. QED
    BY <2>1, <2>2
<1>7. QED
  BY <1>3, <1>4, <1>5, <1>6 DEF AccordionFollowsUser

(* Whatever workspaces and views the user walks through, no row of either  *)
(* page of tables is open that was not clicked where it is shown           *)
(* (TemplatesTable.tsx:55 and NestedTables.tsx:34).                        *)
THEOREM AccordionsFollow == WorkspacesSpec /\ ActiveSpec => []AccordionsFollowUser
<1>1. WorkspacesInit => WorkspacesInv
  BY DEF WorkspacesInit, WorkspacesInv
<1>2. ActiveInit => ActiveInv
  BY KeysDiffer DEF ActiveInit, ActiveInv
<1>3. WorkspacesInv /\ ActiveInv => AccordionsFollowUser
  BY WorkspacesFollow, ActiveFollows DEF AccordionsFollowUser
<1>4. QED
  BY <1>1, <1>2, <1>3, WorkspacesStep, ActiveStep, PTL DEF WorkspacesSpec, ActiveSpec

-----------------------------------------------------------------------------
(***************************************************************************)
(* The dashboard.  The page: a tenant it holds has a namespace or is a     *)
(* professor's; before the first tenant nothing but the tenant is asked    *)
(* for, so that no template is listed, watched or awaited.                 *)
(***************************************************************************)
View == [mounted : {"yes", "no", "crashed"}, loading : BOOLEAN, runs : Nat,
         tenants : Tenant \cup {None}, templates : [Tmpl -> Nat], captured : Tenant \cup {None},
         instances : Table, pro : Table, paired : SUBSET Tmpl, terminating : SUBSET Names,
         notice : BOOLEAN]
News == [tenants : BOOLEAN, templates : SUBSET Tmpl, instances : SUBSET Names]

HomeTypes ==
  /\ professor \in BOOLEAN /\ tenant \in Tenant /\ cinst \in Table /\ view \in View
  /\ past \subseteq {"failure", "deletion", "told"}
  /\ req \subseteq [on : Resource, run : 0 .. view.runs]
  /\ live \subseteq watch /\ watch \subseteq Resource
  /\ news \in News
  /\ ~Mounted => live = {}

(* The watch that belongs to a request *)
WatchOf(o) == IF o[1] = "templates" THEN o ELSE <<o[1], None>>

Watched ==
  /\ \A r \in req : WatchOf(r.on) \in watch
  /\ news.tenants => <<"tenants", None>> \in watch

BeforeTenant ==
  /\ \A r \in req : r.on[1] = "tenants"
  /\ \A o \in live : o[1] # "templates"
  /\ news.templates = {}

CanStart(t) == t # None /\ (professor \/ t.ns)

HomeInv ==
  /\ HomeTypes
  /\ Mounted => /\ Watched
                /\ BeforeTenant \/ CanStart(view.tenants)
                /\ view.tenants # None => CanStart(view.tenants)
                /\ (\E t \in Tmpl : HasTemplate(t)) => CanStart(view.captured)

(***************************************************************************)
(* The form: whatever version is offered, some list had it for the image.  *)
(***************************************************************************)
OfferedNow(v) ==
  form.image # None /\ \E i \in DOMAIN form.images : v \in form.images[i][form.image]

FormInv ==
  /\ FormTypeOK
  /\ form.images # << >> => form.registry
  /\ form.image # None => form.registry
  /\ \A v \in form.versions : OfferedNow(v)
  /\ form.version # NoVersion => OfferedNow(form.version)

FormRecord ==
  [visible : BOOLEAN, courses : SUBSET Workspaces, course : Workspaces \cup {None},
   images : Seq(ImageLists), registry : BOOLEAN, fetches : 0 .. MaxFetch,
   image : Images \cup {None}, versions : SUBSET Versions,
   version : Versions \cup {NoVersion}, filled : BOOLEAN, env : BOOLEAN, acks : Nat]

(* What the image and its version depend on is as before.                  *)
SameChoice(f) ==
  f.images = form.images /\ f.registry = form.registry /\ f.image = form.image
    /\ f.versions = form.versions /\ f.version = form.version

(* A step that leaves the choice of the image alone keeps the invariant.   *)
LEMMA ChoiceKept ==
  ASSUME FormInv, ctmpl' \subseteq Tmpl, list' \in ImageLists, posts' \subseteq Item,
         form' \in FormRecord, SameChoice(form')
  PROVE  FormInv'
BY DEF FormInv, FormTypeOK, FormRecord, SameChoice, OfferedNow

(* An only member is a member.                                             *)
LEMMA OnlyOne == ASSUME NEW S, Cardinality(S) = 1 PROVE (CHOOSE x \in S : TRUE) \in S
BY FS_EmptySet

(* New templates leave the choice of the image alone.                      *)
LEMMA EffectOnForm ==
  ASSUME FormInv, NEW ts PROVE TemplatesEffect(form, ts) \in FormRecord /\ SameChoice(TemplatesEffect(form, ts))
<1> DEFINE ws == Courses(ts)
<1> DEFINE course == IF Cardinality(ws) = 1 THEN CHOOSE w \in ws : TRUE ELSE form.course
<1>1. form \in FormRecord
  BY DEF FormInv, FormTypeOK, FormRecord
<1>2. ws \subseteq Workspaces
  BY DEF Courses
<1>3. course \in Workspaces \cup {None}
  BY <1>1, <1>2, OnlyOne DEF FormRecord
<1> HIDE DEF ws
<1>4. TemplatesEffect(form, ts) =
        [form EXCEPT !.fetches = IF @ < MaxFetch THEN @ + 1 ELSE @,
                     !.courses = IF ws = {} THEN @ ELSE ws, !.course = course]
  BY DEF TemplatesEffect, ws
<1> DEFINE fetches == IF form.fetches < MaxFetch THEN form.fetches + 1 ELSE form.fetches
<1> DEFINE courses == IF ws = {} THEN form.courses ELSE ws
<1> HIDE DEF course
<1>5. fetches \in 0 .. MaxFetch
  BY <1>1, FormAssumption DEF FormRecord
<1>6. courses \in SUBSET Workspaces
  BY <1>1, <1>2 DEF FormRecord
<1>7. TemplatesEffect(form, ts) = [form EXCEPT !.fetches = fetches, !.courses = courses, !.course = course]
  BY <1>4
<1> HIDE DEF fetches, courses
<1>8. QED
  BY <1>1, <1>3, <1>5, <1>6, <1>7 DEF FormRecord, SameChoice

(* A set of numbers that is not empty has a least one.                     *)
LEMMA Least == ASSUME NEW S, S \subseteq Nat, S # {} PROVE \E i \in S : \A j \in S : i <= j
<1> DEFINE R == OpToRel(<, Nat)
<1>1. IsWellFoundedOn(R, Nat)
  BY NatLessThanWellFounded
<1>2. PICK x \in S : \A y \in S : ~ (<<y, x>> \in R)
  BY <1>1, WFMin
<1>3. R = {ss \in Nat \X Nat : ss[1] < ss[2]}
  BY DEF OpToRel
<1> HIDE DEF R
<1>4. \A y \in S : ~ (y < x)
  BY <1>2, <1>3
<1>5. QED
  BY <1>4

(* What is offered for an image comes from one of the lists.               *)
LEMMA VersionsAreListed ==
  ASSUME FormInv, NEW image \in Images,
         \E i \in DOMAIN form.images : form.images[i][image] # {}
  PROVE  \E i \in DOMAIN form.images : VersionsOf(image) = form.images[i][image]
<1> DEFINE has == {i \in DOMAIN form.images : form.images[i][image] # {}}
<1> DEFINE first == CHOOSE i \in has : \A j \in has : i <= j
<1>1. form.images \in Seq(ImageLists)
  BY DEF FormInv, FormTypeOK
<1>2. has \subseteq Nat /\ has # {}
  BY <1>1
<1> HIDE DEF has
<1>3. first \in has
  BY <1>2, Least
<1>4. VersionsOf(image) = form.images[first][image]
  BY DEF VersionsOf, first, has
<1>5. QED
  BY <1>3, <1>4 DEF has

(* Choosing an image offers its versions and no other.                     *)
LEMMA ImageChosen == ASSUME FormInv, NEW image \in Images, SelectImage(image) PROVE FormInv'
<1> DEFINE vs == VersionsOf(image)
<1> DEFINE v == IF Cardinality(vs) = 1 THEN CHOOSE x \in vs : TRUE ELSE NoVersion
<1>1. form \in FormRecord
  BY DEF FormInv, FormTypeOK, FormRecord
<1>2. PICK i \in DOMAIN form.images : vs = form.images[i][image]
  BY VersionsAreListed DEF SelectImage
<1>3. vs \subseteq Versions
  BY <1>1, <1>2 DEF FormRecord, ImageLists
<1>4. v \in vs \cup {NoVersion}
  BY OnlyOne
<1>5. form' = [form EXCEPT !.image = image, !.versions = vs, !.version = v]
  BY DEF SelectImage
<1>6. UNCHANGED <<ctmpl, list, posts>>
  BY DEF SelectImage
<1> HIDE DEF vs, v
<1>7. /\ form' \in FormRecord /\ form'.image = image /\ form'.versions = vs /\ form'.version = v
      /\ form'.images = form.images /\ form'.registry = form.registry
  BY <1>1, <1>3, <1>4, <1>5 DEF FormRecord
<1>8. form.registry
  BY <1>1, <1>2 DEF FormInv, FormRecord
<1>9. \A x \in vs : OfferedNow(x)'
  BY <1>2, <1>7, FormAssumption DEF OfferedNow
<1>10. FormTypeOK'
  BY <1>6, <1>7 DEF FormInv, FormTypeOK, FormRecord
<1>11. QED
  BY <1>4, <1>7, <1>8, <1>9, <1>10 DEF FormInv

(* What the user does in the form keeps it.                                *)
LEMMA FormFields ==
  ASSUME FormInv, NEW ts, OpenCreate \/ Cancel \/ SelectField \/ AddTemplate(ts) PROVE FormInv'
<1>1. form \in FormRecord /\ ctmpl \subseteq Tmpl /\ list \in ImageLists /\ posts \subseteq Item
  BY DEF FormInv, FormTypeOK, FormRecord
<1>2. CASE OpenCreate \/ Cancel
  <2>1. form' \in FormRecord /\ SameChoice(form')
    BY <1>1, <1>2 DEF OpenCreate, Cancel, FormRecord, SameChoice
  <2>2. QED
    BY <1>1, <1>2, <2>1, ChoiceKept DEF OpenCreate, Cancel
<1>3. CASE SelectField
  <2>1. UNCHANGED <<ctmpl, list, posts>>
    BY <1>3 DEF SelectField
  <2>2. ASSUME NEW w \in form.courses, form' = [form EXCEPT !.course = w] PROVE FormInv'
    <3>1. form' \in FormRecord /\ SameChoice(form')
      BY <1>1, <2>2 DEF FormRecord, SameChoice
    <3>2. QED
      BY <1>1, <2>1, <3>1, ChoiceKept
  <2>3. ASSUME NEW v \in form.versions, form' = [form EXCEPT !.version = v] PROVE FormInv'
    <3>1. /\ form' \in FormRecord /\ form'.version = v /\ form'.images = form.images
          /\ form'.image = form.image /\ form'.registry = form.registry /\ form'.versions = form.versions
      BY <1>1, <2>3 DEF FormRecord
    <3>2. FormTypeOK'
      BY <1>1, <2>1, <3>1 DEF FormTypeOK, FormRecord
    <3>3. QED
      BY <3>1, <3>2 DEF FormInv, OfferedNow
  <2>4. CASE form' = [form EXCEPT !.filled = TRUE] \/ form' = [form EXCEPT !.env = TRUE]
    <3>1. form' \in FormRecord /\ SameChoice(form')
      BY <1>1, <2>4 DEF FormRecord, SameChoice
    <3>2. QED
      BY <1>1, <2>1, <3>1, ChoiceKept
  <2>5. QED
    BY <1>3, <2>2, <2>3, <2>4 DEF SelectField
<1>4. CASE AddTemplate(ts)
  <2> DEFINE num == LabNums(form.course, ts) + 1
  <2> DEFINE item == [course |-> form.course, num |-> num, image |-> form.image,
                      version |-> form.version, env |-> form.env]
  <2>1. num \in 1 .. MaxLab /\ posts' = posts \cup {item} /\ UNCHANGED <<ctmpl, list, form>>
    BY <1>4 DEF AddTemplate
  <2>2. form.course \in Workspaces /\ form.image \in Images
    BY <1>1, <1>4 DEF AddTemplate, Refused, FormRecord
  <2> HIDE DEF num
  <2>3. item \in Item
    BY <1>1, <2>1, <2>2 DEF Item, FormRecord
  <2>4. SameChoice(form')
    BY <2>1 DEF SameChoice
  <2>5. QED
    BY <1>1, <2>1, <2>3, <2>4, ChoiceKept
<1>5. QED
  BY <1>2, <1>3, <1>4

(* A list that arrives comes after the ones that were there.               *)
LEMMA ListArrives == ASSUME FormInv, ImagesArrive PROVE FormInv'
<1>1. form \in FormRecord /\ ctmpl \subseteq Tmpl /\ list \in ImageLists /\ posts \subseteq Item
  BY DEF FormInv, FormTypeOK, FormRecord
<1>2. UNCHANGED <<ctmpl, list, posts>> /\ form.fetches - 1 \in 0 .. MaxFetch
  BY <1>1, FormAssumption DEF ImagesArrive, FormRecord
<1>3. CASE form' = [form EXCEPT !.fetches = @ - 1]
  <2>1. form' \in FormRecord /\ SameChoice(form')
    BY <1>1, <1>2, <1>3 DEF FormRecord, SameChoice
  <2>2. QED
    BY <1>1, <1>2, <2>1, ChoiceKept
<1>4. CASE form' = [form EXCEPT !.fetches = @ - 1, !.registry = TRUE, !.images = Append(@, list)]
  <2> DEFINE images == Append(form.images, list)
  <2>1. /\ images \in Seq(ImageLists) /\ DOMAIN form.images \subseteq DOMAIN images
        /\ \A i \in DOMAIN form.images : images[i] = form.images[i]
    BY <1>1 DEF FormRecord
  <2>2. form' = [form EXCEPT !.fetches = form.fetches - 1, !.registry = TRUE, !.images = images]
    BY <1>4
  <2> HIDE DEF images
  <2>3. /\ form' \in FormRecord /\ form'.registry /\ form'.images = images /\ form'.image = form.image
        /\ form'.versions = form.versions /\ form'.version = form.version
    BY <1>1, <1>2, <2>1, <2>2 DEF FormRecord
  <2>4. \A v : OfferedNow(v) => OfferedNow(v)'
    BY <2>1, <2>3 DEF OfferedNow
  <2>5. FormTypeOK'
    BY <1>1, <1>2, <2>3 DEF FormTypeOK, FormRecord
  <2>6. QED
    BY <2>3, <2>4, <2>5 DEF FormInv
<1>5. QED
  BY <1>3, <1>4 DEF ImagesArrive

-----------------------------------------------------------------------------
(* The page. *)

(* A step that leaves alone what the property depends on                   *)
Stays ==
  /\ view' \in View /\ view'.mounted = view.mounted /\ view'.runs = view.runs
  /\ view'.tenants = view.tenants /\ view'.templates = view.templates
  /\ view'.captured = view.captured

(* What the changes of the cluster may add to the events to come           *)
NewsFrom ==
  /\ news' \in News /\ (news'.tenants => news.tenants \/ <<"tenants", None>> \in live)
  /\ \A t \in news'.templates : t \in news.templates \/ <<"templates", t[1]>> \in live

ClusterTypes ==
  professor' = professor /\ tenant' \in Tenant /\ cinst' \in Table
    /\ past' \subseteq {"failure", "deletion", "told"}

Quiet == Stays /\ NewsFrom /\ req' \subseteq req /\ live' = live

(* A step that starts no watch but that of the instances keeps the         *)
(* invariant.                                                              *)
LEMMA QuietStep ==
  ASSUME HomeInv, Stays, NewsFrom, ClusterTypes, watch' = watch, req' \subseteq req,
         live' = live \/ (Mounted /\ <<"instances", None>> \in watch
                                   /\ live' = live \cup {<<"instances", None>>})
  PROVE  HomeInv'
<1>1. HomeTypes /\ Mounted' = Mounted
  BY DEF HomeInv, Stays, Mounted
<1>2. HomeTypes'
  BY <1>1 DEF HomeTypes, Stays, NewsFrom, ClusterTypes
<1>3. Watched => Watched'
  BY <1>1 DEF HomeTypes, Watched, WatchOf, NewsFrom
<1>4. BeforeTenant => BeforeTenant'
  <2> SUFFICES ASSUME BeforeTenant PROVE BeforeTenant'
    OBVIOUS
  <2>1. \A t : <<"templates", t[1]>> \notin live
    BY DEF BeforeTenant
  <2>2. \A t \in news'.templates : FALSE
    BY <2>1 DEF BeforeTenant, NewsFrom
  <2>3. \A o \in live' : o[1] # "templates"
    BY DEF BeforeTenant
  <2>4. QED
    BY <2>2, <2>3 DEF BeforeTenant
<1>5. CanStart(view.tenants)' = CanStart(view.tenants) /\ CanStart(view.captured)' = CanStart(view.captured)
  BY DEF CanStart, Stays, ClusterTypes
<1>6. \A t \in Tmpl : HasTemplate(t)' = HasTemplate(t)
  BY DEF HasTemplate, Stays
<1>7. view'.tenants = view.tenants
  BY DEF Stays
<1>8. QED
  BY <1>1, <1>2, <1>3, <1>4, <1>5, <1>6, <1>7, Zenon DEF HomeInv

(* A change of an instance adds no event but its own.                      *)
LEMMA ChangeInstanceKeeps ==
  ASSUME HomeInv, NEW n \in Names, NEW inst \in Inst \cup {None}, ChangeInstance(n, inst)
  PROVE  cinst' \in Table /\ NewsFrom
<1>1. cinst \in Table /\ news \in News
  BY DEF HomeInv, HomeTypes
<1>2. cinst' \in Table
  BY <1>1 DEF ChangeInstance, Table
<1>3. CASE news' = news
  BY <1>1, <1>2, <1>3 DEF NewsFrom
<1>4. CASE news' = [news EXCEPT !.instances = @ \cup {n}]
  <2>1. news' \in News /\ news'.tenants = news.tenants /\ news'.templates = news.templates
    BY <1>1, <1>4 DEF News
  <2>2. QED
    BY <1>2, <2>1 DEF NewsFrom
<1>5. QED
  BY <1>3, <1>4 DEF ChangeInstance

(* A change of a template is told to those who watch its workspace.        *)
LEMMA ChangeTemplatesKeeps ==
  ASSUME HomeInv, NEW ts, NEW t \in Tmpl, ChangeTemplates(ts, t)
  PROVE  ctmpl' = ts /\ past' \subseteq {"failure", "deletion", "told"} /\ NewsFrom
<1>1. past \subseteq {"failure", "deletion", "told"} /\ news \in News
  BY DEF HomeInv, HomeTypes
<1>2. ctmpl' = ts /\ past' \subseteq {"failure", "deletion", "told"}
  BY <1>1 DEF ChangeTemplates
<1>3. CASE news' = news
  BY <1>1, <1>2, <1>3 DEF NewsFrom
<1>4. CASE <<"templates", t[1]>> \in live /\ news' = [news EXCEPT !.templates = @ \cup {t}]
  <2>1. news' \in News /\ news'.tenants = news.tenants /\ news'.templates = news.templates \cup {t}
    BY <1>1, <1>4 DEF News
  <2>2. QED
    BY <1>2, <1>4, <2>1 DEF NewsFrom
<1>5. QED
  BY <1>3, <1>4 DEF ChangeTemplates

(* Nothing to tell                                                         *)
LEMMA NoNews == ASSUME HomeInv, news' = news PROVE NewsFrom
BY DEF HomeInv, HomeTypes, NewsFrom

(* New instances change the two tables and nothing else.                   *)
LEMMA InstancesSet ==
  ASSUME view \in View, NEW table \in Table, view' = SetInstances(view, table) PROVE Stays
<1> DEFINE known == {t \in Tmpl : view.templates[t] > 0}
<1> DEFINE pairs == [n \in Names |-> IF table[n] # None /\ table[n].tmpl \in known THEN table[n] ELSE None]
<1>1. pairs \in Table /\ known \in SUBSET Tmpl
  BY DEF Table
<1>2. \/ view' = [view EXCEPT !.instances = table, !.pro = pairs, !.paired = known]
      \/ view' = [view EXCEPT !.instances = table]
  BY DEF SetInstances
<1> HIDE DEF known, pairs
<1>3. QED
  BY <1>1, <1>2 DEF View, Stays

(* A new tenant: the page goes, or holds a tenant that can start templates *)
(* and watches whatever it asks for.                                       *)
LEMMA NewTenant ==
  ASSUME HomeInv, Mounted, SetTenants(tenant), <<"tenants", None>> \in watch,
         NewsFrom, UNCHANGED <<professor, tenant, cinst, past>>
  PROVE  HomeInv'
<1> DEFINE run == view.runs + 1
<1> DEFINE new == {<<"templates", w>> : w \in Listed(tenant)}
                    \cup (IF professor THEN {} ELSE {<<"instances", None>>})
<1> DEFINE rest == req \ {[on |-> <<"tenants", None>>, run |-> 0]}
<1>1. HomeTypes /\ Watched /\ run \in Nat /\ run > view.runs /\ 0 .. view.runs \subseteq 0 .. run
  BY DEF HomeInv, HomeTypes, View
<1>2. new \subseteq Resource /\ \A o \in new : WatchOf(o) = o
  BY DEF Resource, Listed, WatchOf
<1>3. CASE ~professor /\ ~tenant.ns
  <2>1. /\ view' = [view EXCEPT !.tenants = tenant, !.runs = run, !.mounted = "crashed"]
        /\ req' = rest /\ watch' = {} /\ live' = {}
    BY <1>3 DEF SetTenants
  <2>2. view' \in View /\ view'.mounted = "crashed" /\ view'.runs = run
    BY <1>1, <2>1 DEF View, HomeTypes
  <2>3. req' \subseteq [on : Resource, run : 0 .. run]
    BY <1>1, <2>1 DEF HomeTypes
  <2>4. HomeTypes'
    BY <1>1, <2>1, <2>2, <2>3 DEF HomeTypes, NewsFrom
  <2>5. QED
    BY <2>2, <2>4 DEF HomeInv, Mounted
<1>4. CASE professor \/ tenant.ns
  <2> DEFINE loading == IF Listed(tenant) # {} THEN TRUE ELSE ~professor /\ view.loading
  <2>1. /\ view' = [view EXCEPT !.tenants = tenant, !.runs = run, !.loading = loading]
        /\ req' = rest \cup {[on |-> o, run |-> run] : o \in new}
        /\ watch' = watch \cup new
        /\ live' = live \cup {<<"tenants", None>>}
    BY <1>4 DEF SetTenants
  <2> HIDE DEF loading, new, rest, run
  <2>2. loading \in BOOLEAN
    BY Zenon DEF loading
  <2>3. /\ view' \in View /\ view'.mounted = "yes" /\ view'.runs = run /\ view'.tenants = tenant
        /\ view'.templates = view.templates /\ view'.captured = view.captured
    BY <1>1, <2>1, <2>2 DEF View, HomeTypes, Mounted
  <2>4. rest \subseteq req
    BY DEF rest
  <2>5. req' \subseteq [on : Resource, run : 0 .. run]
    BY <1>1, <1>2, <2>1, <2>4 DEF HomeTypes
  <2>6. HomeTypes'
    BY <1>1, <1>2, <2>1, <2>3, <2>5 DEF HomeTypes, NewsFrom, Mounted
  <2>7. \A r \in req' : WatchOf(r.on) \in watch'
    BY <1>1, <1>2, <2>1, <2>4 DEF Watched
  <2>8. Watched'
    BY <2>1, <2>7 DEF Watched
  <2>9. CanStart(view.tenants)'
    BY <1>1, <1>4, <2>3, HomeAssumption DEF CanStart, HomeTypes
  <2>10. (\E t \in Tmpl : HasTemplate(t)') => CanStart(view.captured)'
    BY <2>3 DEF HomeInv, HasTemplate, CanStart, Mounted
  <2>11. QED
    BY <2>6, <2>8, <2>9, <2>10, Zenon DEF HomeInv
<1>5. QED
  BY <1>1, <1>3, <1>4

(* The templates change in a page that holds a tenant.                     *)
LEMMA NewTemplates ==
  ASSUME HomeInv, Mounted, ~BeforeTenant,
         view'.mounted = "yes", view'.tenants = view.tenants, view'.captured = view.tenants,
         HomeTypes', Watched', professor' = professor
  PROVE  HomeInv'
<1>1. CanStart(view.tenants)
  BY DEF HomeInv
<1>2. CanStart(view.tenants)' /\ CanStart(view.captured)'
  BY <1>1 DEF CanStart
<1>3. QED
  BY <1>2 DEF HomeInv

(* The answers: of the tenant, the templates, the instances.               *)
LEMMA AnswerStep ==
  ASSUME HomeInv, FormInv, NEW r \in req, Answer(r) PROVE HomeInv' /\ FormInv'
<1>1. UNCHANGED <<ctmpl, list, posts, professor, tenant, cinst, news, past>>
  BY DEF Answer
<1>2. /\ HomeTypes /\ NewsFrom /\ ClusterTypes /\ r.on \in Resource /\ r.run \in 0 .. view.runs
      /\ r \in [on : Resource, run : 0 .. view.runs]
  BY <1>1, NoNews DEF HomeInv, HomeTypes, ClusterTypes
<1>3. /\ form \in FormRecord /\ ctmpl \subseteq Tmpl /\ list \in ImageLists /\ posts \subseteq Item
      /\ SameChoice(form)
  BY DEF FormInv, FormTypeOK, FormRecord, SameChoice
<1>4. ASSUME form' = form PROVE FormInv'
  BY <1>1, <1>3, <1>4, ChoiceKept
<1>5. view' = view => Stays
  BY <1>2 DEF Stays, HomeTypes
<1>6. CASE TenantArrives(r)
  <2>1. CASE Mounted
    <3>1. <<"tenants", None>> \in watch
      BY <1>6, <2>1 DEF HomeInv, Watched, WatchOf, TenantArrives
    <3>2. HomeInv'
      BY <1>1, <1>2, <1>6, <2>1, <3>1, NewTenant DEF TenantArrives
    <3>3. QED
      BY <1>4, <1>6, <3>2 DEF TenantArrives
  <2>2. CASE ~Mounted
    <3>1. req' \subseteq req /\ UNCHANGED <<view, watch, live, form>>
      BY <1>6, <2>2 DEF TenantArrives
    <3>2. QED
      BY <1>2, <1>4, <1>5, <3>1, QuietStep
  <2>3. QED
    BY <2>1, <2>2
<1>7. CASE TemplatesArrive(r)
  <2> DEFINE more == [t \in Tmpl |-> view.templates[t] + (IF t \in ctmpl /\ t[1] = r.on[2] THEN 1 ELSE 0)]
  <2> DEFINE next == [r EXCEPT !.on = <<"instances", r.on[2]>>]
  <2>1. next \in [on : Resource, run : 0 .. view.runs] /\ next.on = <<"instances", r.on[2]>>
    BY <1>2 DEF Resource
  <2>2. <<"instances", None>> \in Resource
    BY DEF Resource
  <2>3. \/ req' = (req \ {r}) \cup {next} /\ watch' = watch \cup {<<"instances", None>>}
        \/ req' = req \ {r} /\ watch' = watch
    BY <1>7 DEF TemplatesArrive
  <2> HIDE DEF next
  <2>4. /\ req' \subseteq [on : Resource, run : 0 .. view.runs]
        /\ watch \subseteq watch' /\ watch' \subseteq Resource
    BY <1>2, <2>1, <2>2, <2>3 DEF HomeTypes
  <2>5. CASE ~Mounted
    <3>1. UNCHANGED <<view, form, live>>
      BY <1>7, <2>5 DEF TemplatesArrive
    <3>2. HomeTypes'
      BY <1>1, <1>2, <2>4, <3>1 DEF HomeTypes, Mounted
    <3>3. QED
      BY <1>4, <2>5, <3>1, <3>2 DEF HomeInv, Mounted
  <2>6. CASE Mounted
    <3>1. /\ view' = [SetTemplates(view, more) EXCEPT !.loading = FALSE]
          /\ form' = TemplatesEffect(form, more)
          /\ live' = live \cup {r.on}
      BY <1>7, <2>6 DEF TemplatesArrive
    <3>2. more \in [Tmpl -> Nat]
      <4>1. view.templates \in [Tmpl -> Nat]
        BY <1>2 DEF HomeTypes, View
      <4>2. QED
        BY <4>1
    <3> HIDE DEF more
    <3>3. /\ view' \in View /\ view'.mounted = "yes" /\ view'.runs = view.runs
          /\ view'.tenants = view.tenants /\ view'.captured = view.tenants
      BY <1>2, <2>6, <3>1, <3>2 DEF HomeTypes, View, SetTemplates, Mounted
    <3>4. Watched /\ WatchOf(r.on) = r.on /\ r.on[1] = "templates"
      BY <1>7, <2>6 DEF HomeInv, WatchOf, TemplatesArrive
    <3>5. HomeTypes'
      BY <1>1, <1>2, <2>4, <3>1, <3>3, <3>4 DEF HomeTypes, Mounted, Watched
    <3>6. WatchOf(next.on) = <<"instances", None>>
      BY <2>1 DEF WatchOf
    <3>7. Watched'
      BY <1>1, <2>3, <2>4, <3>4, <3>6 DEF Watched
    <3>8. HomeInv'
      BY <1>1, <2>6, <3>3, <3>4, <3>5, <3>7, NewTemplates DEF BeforeTenant
    <3>9. FormInv'
      BY <1>1, <1>3, <3>1, EffectOnForm, ChoiceKept
    <3>10. QED
      BY <3>8, <3>9
  <2>7. QED
    BY <2>5, <2>6
<1>8. CASE InstancesArrive(r)
  <2>1. UNCHANGED <<watch, form>> /\ req' \subseteq req
    BY <1>8 DEF InstancesArrive
  <2>2. CASE Mounted
    <3>1. view' = SetInstances(view, cinst) /\ live' = live \cup {<<"instances", None>>}
      BY <1>8, <2>2 DEF InstancesArrive
    <3>2. Stays
      BY <1>2, <3>1, InstancesSet DEF HomeTypes
    <3>3. <<"instances", None>> \in watch
      BY <1>8, <2>2 DEF HomeInv, Watched, WatchOf, InstancesArrive
    <3>4. QED
      BY <1>2, <1>4, <2>1, <2>2, <3>1, <3>2, <3>3, QuietStep
  <2>3. CASE ~Mounted
    BY <1>2, <1>4, <1>5, <1>8, <2>1, <2>3, QuietStep DEF InstancesArrive
  <2>4. QED
    BY <2>2, <2>3
<1>9. QED
  BY <1>6, <1>7, <1>8 DEF Answer

(* The events of the watches                                               *)
LEMMA EventStep == ASSUME HomeInv, FormInv, Event PROVE HomeInv' /\ FormInv'
<1>1. Mounted /\ UNCHANGED <<ctmpl, list, posts, professor, tenant, cinst, past>>
  BY DEF Event
<1>2. HomeTypes /\ Watched /\ ClusterTypes /\ news \in News
  BY <1>1 DEF HomeInv, HomeTypes, ClusterTypes
<1>3. /\ form \in FormRecord /\ ctmpl \subseteq Tmpl /\ list \in ImageLists /\ posts \subseteq Item
      /\ SameChoice(form)
  BY DEF FormInv, FormTypeOK, FormRecord, SameChoice
<1>4. ASSUME form' = form PROVE FormInv'
  BY <1>1, <1>3, <1>4, ChoiceKept
<1>5. CASE news.tenants /\ news' = [news EXCEPT !.tenants = FALSE] /\ SetTenants(tenant) /\ UNCHANGED form
  <2>1. NewsFrom
    BY <1>2, <1>5 DEF NewsFrom, News
  <2>2. <<"tenants", None>> \in watch
    BY <1>2, <1>5 DEF Watched
  <2>3. QED
    BY <1>1, <1>4, <1>5, <2>1, <2>2, NewTenant
<1>6. ASSUME NEW t \in news.templates,
             LET now == [view.templates EXCEPT ![t] = IF t \notin ctmpl THEN 0 ELSE IF @ = 0 THEN 1 ELSE @]
             IN /\ news' = [news EXCEPT !.templates = @ \ {t}]
                /\ view' = SetTemplates(view, now) /\ form' = TemplatesEffect(form, now)
                /\ UNCHANGED <<req, watch, live>>
      PROVE  HomeInv' /\ FormInv'
  <2> DEFINE now == [view.templates EXCEPT ![t] = IF t \notin ctmpl THEN 0 ELSE IF @ = 0 THEN 1 ELSE @]
  <2>1. /\ news' = [news EXCEPT !.templates = @ \ {t}] /\ UNCHANGED <<req, watch, live>>
        /\ view' = SetTemplates(view, now) /\ form' = TemplatesEffect(form, now)
    BY <1>6
  <2>2. now \in [Tmpl -> Nat]
    BY <1>2 DEF HomeTypes, View
  <2> HIDE DEF now
  <2>3. /\ view' \in View /\ view'.mounted = "yes" /\ view'.runs = view.runs
        /\ view'.tenants = view.tenants /\ view'.captured = view.tenants
    BY <1>1, <1>2, <2>1, <2>2 DEF HomeTypes, View, SetTemplates, Mounted
  <2>4. news' \in News /\ news'.tenants = news.tenants
    BY <1>2, <2>1 DEF News
  <2>5. HomeTypes'
    BY <1>1, <1>2, <2>1, <2>3, <2>4 DEF HomeTypes, Mounted
  <2>6. Watched'
    BY <1>2, <2>1, <2>4 DEF Watched
  <2>7. HomeInv'
    BY <1>1, <1>6, <2>3, <2>5, <2>6, NewTemplates DEF BeforeTenant
  <2>8. FormInv'
    BY <1>1, <1>3, <2>1, EffectOnForm, ChoiceKept
  <2>9. QED
    BY <2>7, <2>8
<1>7. ASSUME NEW n \in news.instances,
             news' = [news EXCEPT !.instances = @ \ {n}],
             view' = SetInstances(view, [view.instances EXCEPT ![n] = cinst[n]]),
             UNCHANGED <<form, req, watch, live>>
      PROVE  HomeInv' /\ FormInv'
  <2> DEFINE table == [view.instances EXCEPT ![n] = cinst[n]]
  <2>1. table \in Table
    BY <1>2 DEF HomeTypes, View, Table, News
  <2> HIDE DEF table
  <2>2. Stays
    BY <1>2, <1>7, <2>1, InstancesSet DEF HomeTypes, table
  <2>3. NewsFrom
    BY <1>2, <1>7 DEF NewsFrom, News
  <2>4. QED
    BY <1>2, <1>4, <1>7, <2>2, <2>3, QuietStep
<1>8. QED
  BY <1>5, <1>6, <1>7 DEF Event

(* A page that is left                                                     *)
LEMMA UnmountStep == ASSUME HomeInv, FormInv, Unmount PROVE HomeInv' /\ FormInv'
<1>1. /\ view' = [view EXCEPT !.mounted = "no"] /\ watch' = {} /\ live' = {}
      /\ news' = [tenants |-> FALSE, templates |-> {}, instances |-> {}]
      /\ UNCHANGED <<formVars, professor, tenant, cinst, req, past>>
  BY DEF Unmount
<1>2. view' \in View /\ view'.mounted = "no" /\ view'.runs = view.runs
  BY <1>1 DEF HomeInv, HomeTypes, View
<1>3. news' \in News
  BY <1>1 DEF News
<1>4. HomeTypes'
  BY <1>1, <1>2, <1>3 DEF HomeInv, HomeTypes
<1>5. FormInv'
  BY <1>1 DEF FormInv, FormTypeOK, OfferedNow, formVars
<1>6. QED
  BY <1>2, <1>4, <1>5 DEF HomeInv, Mounted

(* What other people and the operator do to the cluster                    *)
LEMMA EditStep == ASSUME HomeInv, FormInv, Edit PROVE HomeInv' /\ FormInv' /\ Quiet
<1>1. UNCHANGED <<form, posts, professor, view, req, watch, live>>
  BY DEF Edit
<1>2. /\ HomeTypes /\ Stays /\ news \in News /\ tenant \in Tenant /\ cinst \in Table
      /\ past \subseteq {"failure", "deletion", "told"}
  BY <1>1 DEF HomeInv, HomeTypes, Stays
<1>3. /\ form \in FormRecord /\ ctmpl \subseteq Tmpl /\ list \in ImageLists /\ posts \subseteq Item
      /\ SameChoice(form)
  BY DEF FormInv, FormTypeOK, FormRecord, SameChoice
<1>4. ASSUME ctmpl' \subseteq Tmpl, list' \in ImageLists, ClusterTypes, NewsFrom
      PROVE  HomeInv' /\ FormInv' /\ Quiet
  <2>1. HomeInv' /\ Quiet
    BY <1>1, <1>2, <1>4, QuietStep DEF Quiet
  <2>2. FormInv'
    BY <1>1, <1>3, <1>4, ChoiceKept
  <2>3. QED
    BY <2>1, <2>2
<1>5. CASE /\ \/ \E w \in Workspaces, role \in Roles : tenant' = [tenant EXCEPT !.ws[w] = role]
              \/ tenant' = [tenant EXCEPT !.ns = TRUE]
           /\ news' = [news EXCEPT !.tenants = @ \/ <<"tenants", None>> \in live]
           /\ UNCHANGED <<ctmpl, cinst, list, past>>
  <2>1. tenant' \in Tenant
    <3>1. ASSUME NEW w \in Workspaces, NEW role \in Roles, tenant' = [tenant EXCEPT !.ws[w] = role]
          PROVE  tenant' \in Tenant
      <4> DEFINE ws == [tenant.ws EXCEPT ![w] = role]
      <4>1. ws \in [Workspaces -> Roles]
        BY <1>2 DEF Tenant
      <4>2. tenant' = [tenant EXCEPT !.ws = ws]
        BY <3>1
      <4> HIDE DEF ws
      <4>3. QED
        BY <1>2, <4>1, <4>2 DEF Tenant
    <3>2. CASE tenant' = [tenant EXCEPT !.ns = TRUE]
      BY <1>2, <3>2 DEF Tenant
    <3>3. QED
      BY <1>5, <3>1, <3>2
  <2>2. news' \in News /\ news'.templates = news.templates
        /\ news'.tenants = (news.tenants \/ <<"tenants", None>> \in live)
    BY <1>2, <1>5 DEF News
  <2>3. QED
    BY <1>1, <1>2, <1>3, <1>4, <1>5, <2>1, <2>2 DEF ClusterTypes, NewsFrom
<1>6. CASE /\ \/ \E t \in ctmpl : ChangeTemplates(ctmpl \ {t}, t)
              \/ \E t \in Tmpl : ChangeTemplates(ctmpl \cup {t}, t)
           /\ UNCHANGED <<tenant, cinst, list>>
  <2>1. \E t \in Tmpl, ts \in SUBSET Tmpl : ChangeTemplates(ts, t)
    BY <1>3, <1>6
  <2>2. ctmpl' \subseteq Tmpl /\ past' \subseteq {"failure", "deletion", "told"} /\ NewsFrom
    BY <2>1, ChangeTemplatesKeeps
  <2>3. QED
    BY <1>1, <1>2, <1>3, <1>4, <1>6, <2>2 DEF ClusterTypes
<1>7. CASE /\ \E n \in Names :
                \/ ChangeInstance(n, None)
                \/ \E t \in ctmpl : ChangeInstance(n, [tmpl |-> t, phase |-> "", running |-> TRUE])
           /\ UNCHANGED <<tenant, ctmpl, list, past>>
  <2>1. \A t \in ctmpl : [tmpl |-> t, phase |-> "", running |-> TRUE] \in Inst
    BY <1>3 DEF Inst
  <2>2. \E n \in Names, inst \in Inst \cup {None} : ChangeInstance(n, inst)
    BY <1>7, <2>1
  <2>3. cinst' \in Table /\ NewsFrom
    BY <2>2, ChangeInstanceKeeps
  <2>4. QED
    BY <1>1, <1>2, <1>3, <1>4, <1>7, <2>3 DEF ClusterTypes
<1>8. CASE /\ \E i \in Images : list' = [list EXCEPT ![i] = Versions]
           /\ UNCHANGED <<tenant, ctmpl, cinst, news, past>>
  <2>1. list' \in ImageLists
    BY <1>3, <1>8 DEF ImageLists
  <2>2. QED
    BY <1>1, <1>2, <1>3, <1>4, <1>8, <2>1, NoNews DEF ClusterTypes
<1>9. QED
  <2>1. \/ \E w \in Workspaces : LET t == <<w, Cardinality({u \in ctmpl : u[1] = w}) + 1>> IN
                t \in Tmpl \ ctmpl /\ ChangeTemplates(ctmpl \cup {t}, t)
        => \E t \in Tmpl : ChangeTemplates(ctmpl \cup {t}, t)
    OBVIOUS
  <2>2. QED
    BY <1>5, <1>6, <1>7, <1>8, <2>1 DEF Edit

(* The tables: what their buttons do to the page                           *)
LEMMA FlipStays == ASSUME HomeInv, NEW n \in Names, Flip(n) PROVE Stays
<1> DEFINE old == Shown[n]
<1> DEFINE set(table) == IF table[n] = old THEN [table EXCEPT ![n].running = ~@] ELSE table
<1>1. view \in View /\ view.pro \in Table /\ view.instances \in Table
  BY DEF HomeInv, HomeTypes, View
<1>2. view' = [view EXCEPT !.pro = set(view.pro), !.instances = set(view.instances)]
  BY DEF Flip
<1>3. old # None
  BY DEF Flip, HasRow, Row
<1>4. ASSUME NEW table \in Table PROVE set(table) \in Table
  <2>1. CASE table[n] = old
    <3>1. table[n] \in Inst
      BY <1>3, <2>1 DEF Table
    <3> DEFINE inst == [table[n] EXCEPT !.running = ~@]
    <3>2. inst \in Inst
      BY <3>1 DEF Inst
    <3>3. set(table) = [table EXCEPT ![n] = inst]
      BY <2>1
    <3> HIDE DEF inst, set
    <3>4. QED
      BY <3>2, <3>3 DEF Table
  <2>2. QED
    BY <2>1
<1> HIDE DEF set
<1>5. QED
  BY <1>1, <1>2, <1>4 DEF View, Stays

(* The steps of the tables and of the operator                             *)
LEMMA TableStep ==
  ASSUME HomeInv, FormInv,
         \/ CloseNotice \/ CallFails
         \/ \E n \in Names : Operate(n) \/ Toggle(n) \/ Destroy(n)
         \/ \E t \in Tmpl : StartLab(t)
         \/ \E r \in req : RequestFails(r)
  PROVE  HomeInv' /\ FormInv' /\ Quiet
<1>1. /\ HomeTypes /\ view \in View /\ news \in News /\ tenant \in Tenant /\ cinst \in Table
      /\ past \subseteq {"failure", "deletion", "told"} /\ professor \in BOOLEAN
  BY DEF HomeInv, HomeTypes
<1>2. UNCHANGED formVars /\ UNCHANGED <<professor, tenant, watch, live>>
  BY DEF CloseNotice, CallFails, Operate, Toggle, Destroy, StartLab, RequestFails, formVars
<1>3. FormInv'
  BY <1>2 DEF FormInv, FormTypeOK, OfferedNow, formVars
<1>4. ASSUME Stays, cinst' \in Table, NewsFrom, past' \subseteq {"failure", "deletion", "told"},
             req' \subseteq req
      PROVE  HomeInv' /\ FormInv' /\ Quiet
  BY <1>1, <1>2, <1>3, <1>4, QuietStep DEF ClusterTypes, Quiet
<1>5. ASSUME view' = view PROVE Stays
  BY <1>1, <1>5 DEF Stays
<1>6. ASSUME NEW n \in Names, view' = [view EXCEPT !.terminating = @ \cup {n}] PROVE Stays
  BY <1>1, <1>6 DEF Stays, View
<1>7. ASSUME UNCHANGED <<cinst, news>> PROVE cinst' \in Table /\ NewsFrom
  BY <1>1, <1>7, NoNews
<1>8. CASE CloseNotice
  <2>1. Stays
    BY <1>1, <1>8 DEF CloseNotice, Stays, View
  <2>2. QED
    BY <1>1, <1>4, <1>7, <1>8, <2>1 DEF CloseNotice
<1>9. CASE CallFails
  BY <1>1, <1>4, <1>6, <1>7, <1>9, FlipStays DEF CallFails
<1>10. ASSUME NEW n \in Names, Operate(n) PROVE HomeInv' /\ FormInv' /\ Quiet
  <2> DEFINE phase == IF cinst[n].running THEN "VmiReady" ELSE "VmiOff"
  <2>1. cinst[n] \in Inst
    BY <1>1, <1>10 DEF Table, Operate
  <2>2. [cinst[n] EXCEPT !.phase = phase] \in Inst
    BY <2>1 DEF Inst
  <2>3. cinst' \in Table /\ NewsFrom
    BY <1>10, <2>2, ChangeInstanceKeeps DEF Operate
  <2>4. QED
    BY <1>1, <1>4, <1>5, <1>10, <2>3 DEF Operate
<1>11. ASSUME NEW n \in Names, Toggle(n) PROVE HomeInv' /\ FormInv' /\ Quiet
  <2>1. CASE cinst[n] # None /\ ChangeInstance(n, [cinst[n] EXCEPT !.running = ~Shown[n].running])
    <3>1. cinst[n] \in Inst
      BY <1>1, <2>1 DEF Table
    <3>2. [cinst[n] EXCEPT !.running = ~Shown[n].running] \in Inst
      BY <3>1 DEF Inst
    <3>3. cinst' \in Table /\ NewsFrom
      BY <2>1, <3>2, ChangeInstanceKeeps
    <3>4. QED
      BY <1>1, <1>4, <1>11, <3>3, FlipStays DEF Toggle
  <2>2. CASE UNCHANGED <<cinst, news>>
    BY <1>1, <1>4, <1>7, <1>11, <2>2, FlipStays DEF Toggle
  <2>3. QED
    BY <1>11, <2>1, <2>2 DEF Toggle
<1>12. ASSUME NEW n \in Names, Destroy(n) PROVE HomeInv' /\ FormInv' /\ Quiet
  <2>1. cinst' \in Table /\ NewsFrom
    BY <1>7, <1>12, ChangeInstanceKeeps DEF Destroy
  <2>2. QED
    BY <1>1, <1>4, <1>6, <1>12, <2>1 DEF Destroy
<1>13. ASSUME NEW t \in Tmpl, StartLab(t) PROVE HomeInv' /\ FormInv' /\ Quiet
  <2>1. [tmpl |-> t, phase |-> "", running |-> TRUE] \in Inst
    BY DEF Inst
  <2>2. cinst' \in Table /\ NewsFrom
    BY <1>13, <2>1, ChangeInstanceKeeps DEF StartLab
  <2>3. QED
    BY <1>1, <1>4, <1>5, <1>13, <2>2 DEF StartLab
<1>14. ASSUME NEW r \in req, RequestFails(r) PROVE HomeInv' /\ FormInv' /\ Quiet
  <2>1. Stays
    BY <1>1, <1>14 DEF RequestFails, Stays, View
  <2>2. QED
    BY <1>1, <1>4, <1>7, <1>14, <2>1 DEF RequestFails
<1>15. QED
  BY <1>8, <1>9, <1>10, <1>11, <1>12, <1>13, <1>14

(* The form and the deletion of a template                                 *)
LEMMA FormAndTemplates ==
  ASSUME HomeInv, FormInv, FormStep \/ FormAnswers \/ \E t \in Tmpl : DeleteTemplate(t)
  PROVE  HomeInv' /\ FormInv' /\ Quiet
<1>1. HomeTypes /\ view \in View /\ past \subseteq {"failure", "deletion", "told"}
  BY DEF HomeInv, HomeTypes
<1>2. UNCHANGED <<professor, tenant, cinst, view, req, watch, live>>
  BY DEF FormStep, FormAnswers, DeleteTemplate
<1>3. ASSUME NewsFrom, past' \subseteq {"failure", "deletion", "told"} PROVE HomeInv' /\ Quiet
  <2>1. Stays /\ ClusterTypes
    BY <1>1, <1>2, <1>3 DEF Stays, ClusterTypes, HomeTypes
  <2>2. QED
    BY <1>2, <1>3, <2>1, QuietStep DEF Quiet
<1>4. UNCHANGED <<news, past>> => HomeInv' /\ Quiet
  BY <1>1, <1>3, NoNews
<1>5. /\ form \in FormRecord /\ ctmpl \subseteq Tmpl /\ list \in ImageLists /\ posts \subseteq Item
      /\ SameChoice(form)
  BY DEF FormInv, FormTypeOK, FormRecord, SameChoice
<1>6. CASE FormStep
  BY <1>4, <1>6, FormFields, ImageChosen DEF FormStep
<1>7. CASE ImagesArrive /\ UNCHANGED <<news, past>>
  BY <1>4, <1>7, ListArrives
<1>8. ASSUME NEW p \in posts, posts' = posts \ {p}, UNCHANGED list,
             IF <<p.course, p.num>> \in ctmpl THEN UNCHANGED <<ctmpl, form, news, past>>
             ELSE /\ ChangeTemplates(ctmpl \cup {<<p.course, p.num>>}, <<p.course, p.num>>)
                  /\ form' = [form EXCEPT !.acks = @ + 1]
      PROVE  HomeInv' /\ FormInv' /\ Quiet
  <2>1. CASE UNCHANGED <<ctmpl, form, news, past>>
    BY <1>4, <1>5, <1>8, <2>1, ChoiceKept
  <2>2. CASE /\ ChangeTemplates(ctmpl \cup {<<p.course, p.num>>}, <<p.course, p.num>>)
             /\ form' = [form EXCEPT !.acks = @ + 1]
    <3>1. <<p.course, p.num>> \in Tmpl
      BY <1>5 DEF Item, Tmpl
    <3>2. /\ ctmpl' = ctmpl \cup {<<p.course, p.num>>} /\ NewsFrom
          /\ past' \subseteq {"failure", "deletion", "told"}
      BY <2>2, <3>1, ChangeTemplatesKeeps
    <3>3. form.acks + 1 \in Nat
      BY <1>5 DEF FormRecord
    <3>4. form' \in FormRecord /\ SameChoice(form')
      BY <1>5, <2>2, <3>3 DEF FormRecord, SameChoice
    <3>5. QED
      BY <1>3, <1>5, <1>8, <3>1, <3>2, <3>4, ChoiceKept
  <2>3. QED
    BY <1>8, <2>1, <2>2
<1>9. CASE form.acks > 0 /\ form' = [form EXCEPT !.acks = @ - 1, !.visible = FALSE]
             /\ UNCHANGED <<ctmpl, list, posts, news, past>>
  <2>1. form.acks - 1 \in Nat
    BY <1>5, <1>9 DEF FormRecord
  <2>2. form' \in FormRecord /\ SameChoice(form')
    BY <1>5, <1>9, <2>1 DEF FormRecord, SameChoice
  <2>3. QED
    BY <1>4, <1>5, <1>9, <2>2, ChoiceKept
<1>10. ASSUME NEW t \in Tmpl, DeleteTemplate(t) PROVE HomeInv' /\ FormInv' /\ Quiet
  <2>1. ctmpl' = ctmpl \ {t} /\ past' \subseteq {"failure", "deletion", "told"} /\ NewsFrom
    BY <1>10, ChangeTemplatesKeeps DEF DeleteTemplate
  <2>2. UNCHANGED <<list, form, posts>>
    BY <1>10 DEF DeleteTemplate
  <2>3. QED
    BY <1>3, <1>5, <2>1, <2>2, ChoiceKept
<1>11. QED
  BY <1>6, <1>7, <1>8, <1>9, <1>10, Zenon DEF FormAnswers, FormAnswer

(* The page as it starts: nothing is listed, and only the tenant is asked  *)
(* for.                                                                    *)
LEMMA InitialPage ==
  ASSUME Init
  PROVE  /\ \E s \in Scenarios :
              /\ professor = s.professor /\ tenant = s.tenant /\ list = s.list /\ past = s.past
              /\ ctmpl = s.courses \X {1}
              /\ cinst = [n \in Names |-> IF s.of[n] = None THEN None ELSE
                            [tmpl |-> s.of[n], phase |-> "VmiReady", running |-> TRUE]]
         /\ form = NewForm /\ posts = {} /\ live = {}
         /\ view \in View /\ view.mounted = "yes" /\ view.runs = 0 /\ view.tenants = None
         /\ view.templates = [t \in Tmpl |-> 0]
         /\ news \in News /\ news.tenants = FALSE /\ news.templates = {}
         /\ watch \subseteq Resource /\ req \subseteq [on : Resource, run : 0 .. 0]
         /\ \A r \in req : r.on[1] = "tenants" /\ WatchOf(r.on) \in watch
<1>1. \E s \in Scenarios :
        /\ professor = s.professor /\ tenant = s.tenant /\ list = s.list /\ past = s.past
        /\ ctmpl = s.courses \X {1}
        /\ cinst = [n \in Names |-> IF s.of[n] = None THEN None ELSE
                      [tmpl |-> s.of[n], phase |-> "VmiReady", running |-> TRUE]]
  BY Zenon DEF Init
<1>2. PICK token \in BOOLEAN :
        /\ view = NewPage(token)
        /\ watch = IF token THEN {<<"tenants", None>>} ELSE {}
        /\ req = IF token THEN {[on |-> <<"tenants", None>>, run |-> 0]} ELSE {}
  BY Zenon DEF Init
<1>3. form = NewForm /\ posts = {} /\ live = {} /\ news = [tenants |-> FALSE, templates |-> {}, instances |-> {}]
  BY Zenon DEF Init
<1>4. Empty \in Table /\ [t \in Tmpl |-> 0] \in [Tmpl -> Nat] /\ ("told" \notin past) \in BOOLEAN
  BY DEF Empty, Table
<1>5. /\ view \in View /\ view.mounted = "yes" /\ view.runs = 0 /\ view.tenants = None
      /\ view.templates = [t \in Tmpl |-> 0]
  BY <1>2, <1>4 DEF View, NewPage
<1>6. news \in News /\ news.tenants = FALSE /\ news.templates = {}
  BY <1>3 DEF News
<1>7. <<"tenants", None>> \in Resource
  BY DEF Resource
<1>8. watch \subseteq Resource /\ req \subseteq [on : Resource, run : 0 .. 0]
  BY <1>2, <1>7
<1>9. \A r \in req : r.on[1] = "tenants" /\ WatchOf(r.on) \in watch
  BY <1>2 DEF WatchOf
<1>10. QED
  BY <1>1, <1>3, <1>5, <1>6, <1>8, <1>9, Zenon

(* The invariants hold of it.                                              *)
LEMMA PageInit == Init => HomeInv /\ FormInv
<1> SUFFICES ASSUME Init PROVE HomeInv /\ FormInv
  OBVIOUS
<1>1. PICK s \in Scenarios :
        /\ professor = s.professor /\ tenant = s.tenant /\ list = s.list /\ past = s.past
        /\ ctmpl = s.courses \X {1}
        /\ cinst = [n \in Names |-> IF s.of[n] = None THEN None ELSE
                      [tmpl |-> s.of[n], phase |-> "VmiReady", running |-> TRUE]]
  BY InitialPage, Zenon
<1>2. form = NewForm /\ posts = {}
  BY InitialPage, Zenon
<1>3. /\ view \in View /\ view.mounted = "yes" /\ view.runs = 0 /\ live = {} /\ news \in News
      /\ watch \subseteq Resource /\ req \subseteq [on : Resource, run : 0 .. 0]
  BY InitialPage, Zenon
<1>4. /\ news.tenants = FALSE /\ news.templates = {} /\ live = {}
      /\ \A r \in req : r.on[1] = "tenants" /\ WatchOf(r.on) \in watch
  BY InitialPage, Zenon
<1>5. /\ professor \in BOOLEAN /\ tenant \in Tenant /\ list \in ImageLists
      /\ past \subseteq {"failure", "deletion", "told"}
      /\ s.courses \subseteq Workspaces /\ s.of \in [Names -> Tmpl \cup {None}]
  BY <1>1, HomeAssumption, Zenon
<1>6. cinst \in Table
  <2>1. \A n \in Names : s.of[n] # None =>
          [tmpl |-> s.of[n], phase |-> "VmiReady", running |-> TRUE] \in Inst
    BY <1>5 DEF Inst
  <2>2. QED
    BY <1>1, <2>1 DEF Table
<1>7. HomeTypes
  BY <1>3, <1>5, <1>6 DEF HomeTypes, Mounted
<1>8. Watched /\ BeforeTenant
  BY <1>4 DEF Watched, BeforeTenant
<1>9. \A t \in Tmpl : ~HasTemplate(t)
  <2>1. view.templates = [t \in Tmpl |-> 0]
    BY InitialPage, Zenon
  <2>2. QED
    BY <2>1 DEF HasTemplate
<1>10. HomeInv
  BY <1>7, <1>8, <1>9, InitialPage, Zenon DEF HomeInv
<1>11. ctmpl \subseteq Tmpl
  BY <1>1, <1>5, FormAssumption DEF Tmpl
<1>12. form \in FormRecord
  <2>1. << >> \in Seq(ImageLists) /\ 1 \in 0 .. MaxFetch
    BY FormAssumption
  <2>2. QED
    BY <1>2, <2>1 DEF FormRecord, NewForm
<1>13. FormTypeOK
  BY <1>2, <1>5, <1>11, <1>12 DEF FormTypeOK, FormRecord
<1>14. form.images = << >> /\ form.image = None /\ form.versions = {} /\ form.version = NoVersion
  BY <1>2 DEF NewForm
<1>15. QED
  BY <1>10, <1>13, <1>14 DEF FormInv

(* Both invariants hold of every behaviour.                                *)
LEMMA PageInv == Spec => [](HomeInv /\ FormInv)
<1>1. HomeInv /\ FormInv /\ [Next]_vars => HomeInv' /\ FormInv'
  <2> SUFFICES ASSUME HomeInv, FormInv, [Next]_vars PROVE HomeInv' /\ FormInv'
    OBVIOUS
  <2>1. CASE UNCHANGED vars
    <3>1. UNCHANGED formVars /\ UNCHANGED homeVars
      BY <2>1 DEF vars
    <3>2. FormInv'
      BY <3>1 DEF formVars, FormInv, FormTypeOK, OfferedNow
    <3>3. HomeInv'
      BY <3>1 DEF homeVars, HomeInv, HomeTypes, Watched, BeforeTenant, CanStart, HasTemplate,
                  Mounted
    <3>4. QED
      BY <3>2, <3>3
  <2>2. QED
    BY <2>1, AnswerStep, EventStep, UnmountStep, EditStep, TableStep, FormAndTemplates DEF Next
<1>2. QED
  BY <1>1, PageInit, PTL DEF Spec

(* However the answers, the events and the changes of the tenant are       *)
(* ordered, a template that can be started has a namespace to be started   *)
(* in (startLab reads the tenant captured by the columns).                 *)
THEOREM StartsInNamespace == Spec => []StartHasNamespace
<1>1. HomeInv /\ FormInv => StartHasNamespace
  BY DEF HomeInv, HomeTypes, View, News, FormInv, StartHasNamespace, TypeOK, CanStart, Mounted
<1>2. QED
  BY <1>1, PageInv, PTL

(* No template is created with the version of another image, however many  *)
(* lists have been fetched.                                                *)
THEOREM ImageWasOffered == Spec => []ImageIsOffered
<1>1. FormInv => ImageIsOffered
  BY DEF FormInv, ImageIsOffered, OfferedNow
<1>2. QED
  BY <1>1, PageInv, PTL

-----------------------------------------------------------------------------
(* The numbers of the labs.  Induction over numbers is the choice of a     *)
(* least counterexample (Least).                                           *)

(* The sum of LabNums, up to k                                             *)
IsSum(f, k, w, ts) == f = [n \in 0 .. k |-> IF n = 0 THEN 0 ELSE f[n - 1] + ts[<<w, n>>]]

(* There is such a sum: the recursion of LabNums is well defined.          *)
LEMMA SumExists == ASSUME NEW w, NEW ts PROVE \E f : IsSum(f, MaxLab, w, ts)
<1> DEFINE Bad == {k \in 0 .. MaxLab : ~ \E f : IsSum(f, k, w, ts)}
<1> SUFFICES ASSUME Bad # {} PROVE FALSE
  BY FormAssumption
<1>1. PICK k \in Bad : \A j \in Bad : k <= j
  <2>1. Bad \subseteq Nat
    BY FormAssumption
  <2> HIDE DEF Bad
  <2>2. QED
    BY <2>1, Least
<1>2. k \in 0 .. MaxLab /\ ~ \E f : IsSum(f, k, w, ts)
  BY <1>1
<1>3. k # 0
  <2>1. IsSum([n \in 0 .. 0 |-> 0], 0, w, ts)
    BY DEF IsSum
  <2>2. QED
    BY <1>2, <2>1
<1>4. k - 1 \in 0 .. MaxLab /\ k - 1 \notin Bad
  BY <1>1, <1>2, <1>3, FormAssumption
<1>5. PICK g : IsSum(g, k - 1, w, ts)
  BY <1>4
<1> DEFINE h == [n \in 0 .. k |-> IF n = k THEN g[k - 1] + ts[<<w, k>>] ELSE g[n]]
<1>6. \A n \in 0 .. k : h[n] = IF n = 0 THEN 0 ELSE h[n - 1] + ts[<<w, n>>]
  <2> TAKE n \in 0 .. k
  <2>1. CASE n = k
    BY <1>2, <1>3, <2>1, FormAssumption
  <2>2. CASE n # k
    <3>1. n \in 0 .. k - 1
      BY <1>2, <2>2, FormAssumption
    <3>2. g[n] = IF n = 0 THEN 0 ELSE g[n - 1] + ts[<<w, n>>]
      BY <1>5, <3>1 DEF IsSum
    <3>3. n \in 0 .. k /\ (n # 0 => n - 1 \in 0 .. k /\ n - 1 # k)
      BY <1>2, <3>1, FormAssumption
    <3>4. h[n] = g[n] /\ (n # 0 => h[n - 1] = g[n - 1])
      BY <2>2, <3>3, Zenon
    <3>5. QED
      BY <3>2, <3>4, Zenon
  <2>3. QED
    BY <2>1, <2>2
<1>7. IsSum(h, k, w, ts)
  <2>1. h = [n \in 0 .. k |-> h[n]]
    OBVIOUS
  <2> HIDE DEF h
  <2>2. QED
    BY <1>6, <2>1 DEF IsSum
<1>8. QED
  BY <1>2, <1>7

(* A course whose templates are listed at most once each, and only if they *)
(* are among the first m, counts no more than m of them.                   *)
LEMMA SumIsBounded ==
  ASSUME NEW w, NEW ts, NEW m \in Nat,
         \A n \in 1 .. MaxLab : ts[<<w, n>>] \in {0, 1} /\ (n > m => ts[<<w, n>>] = 0)
  PROVE  LabNums(w, ts) \in 0 .. m
<1> DEFINE f == CHOOSE g : IsSum(g, MaxLab, w, ts)
<1>1. IsSum(f, MaxLab, w, ts)
  BY SumExists
<1>2. LabNums(w, ts) = f[MaxLab]
  BY DEF LabNums, IsSum
<1> HIDE DEF f
<1> DEFINE Bad == {n \in 0 .. MaxLab : ~(f[n] \in Nat /\ f[n] <= n /\ f[n] <= m)}
<1>3. Bad = {}
  <2> SUFFICES ASSUME Bad # {} PROVE FALSE
    OBVIOUS
  <2>1. PICK n \in Bad : \A j \in Bad : n <= j
    <3>1. Bad \subseteq Nat
      BY FormAssumption
    <3> HIDE DEF Bad
    <3>2. QED
      BY <3>1, Least
  <2>2. n \in 0 .. MaxLab /\ ~(f[n] \in Nat /\ f[n] <= n /\ f[n] <= m)
    BY <2>1
  <2>3. f[n] = IF n = 0 THEN 0 ELSE f[n - 1] + ts[<<w, n>>]
    BY <1>1, <2>2 DEF IsSum
  <2>4. n # 0
    <3> SUFFICES ASSUME n = 0 PROVE FALSE
      OBVIOUS
    <3>1. f[n] = 0
      BY <2>3
    <3>2. QED
      BY <2>2, <3>1
  <2>5. n - 1 \in 0 .. MaxLab /\ n - 1 \notin Bad
    BY <2>1, <2>2, <2>4, FormAssumption
  <2>6. f[n - 1] \in Nat /\ f[n - 1] <= n - 1 /\ f[n - 1] <= m
    BY <2>5
  <2>7. ts[<<w, n>>] \in {0, 1} /\ (n > m => ts[<<w, n>>] = 0)
    BY <2>2, <2>4, FormAssumption
  <2>8. QED
    BY <2>2, <2>3, <2>4, <2>6, <2>7, FormAssumption
<1>4. QED
  BY <1>2, <1>3, FormAssumption

(* Numbers without a gap are the numbers up to one of them.                *)
LEMMA Prefix ==
  ASSUME NEW C, C \subseteq 1 .. MaxLab, \A n \in 1 .. MaxLab - 1 : n + 1 \in C => n \in C
  PROVE  \E m \in 0 .. MaxLab : C = 1 .. m
<1> DEFINE Ends == {k \in 0 .. MaxLab : k + 1 \notin C}
<1>1. MaxLab \in Ends /\ Ends \subseteq Nat
  BY FormAssumption
<1>2. PICK m \in Ends : \A j \in Ends : m <= j
  BY <1>1, Least
<1>3. m \in 0 .. MaxLab /\ m + 1 \notin C
  BY <1>2
<1>4. \A n \in 1 .. m : n \in C
  BY <1>2, <1>3, FormAssumption
<1> DEFINE Above == {n \in C : n > m}
<1>5. Above = {}
  <2> SUFFICES ASSUME Above # {} PROVE FALSE
    OBVIOUS
  <2>1. Above \subseteq Nat
    <3>1. 1 .. MaxLab \subseteq Nat
      OBVIOUS
    <3>2. QED
      BY <3>1
  <2>2. PICK n \in Above : \A j \in Above : n <= j
    BY <2>1, Least
  <2>3. n \in C /\ n > m /\ n # m + 1 /\ n \in 1 .. MaxLab
    BY <1>3, <2>2
  <2>4. n - 1 \in 1 .. MaxLab - 1 /\ n - 1 > m /\ (n - 1) + 1 = n
    BY <1>3, <2>3, FormAssumption
  <2>5. n - 1 \in C
    BY <2>3, <2>4
  <2>6. n - 1 \in Above
    BY <2>4, <2>5
  <2>7. QED
    BY <2>2, <2>3, <2>6, FormAssumption
<1>6. C = 1 .. m
  <2>1. \A n \in C : n \in 1 .. MaxLab /\ ~(n > m)
    BY <1>5
  <2> HIDE DEF Above
  <2>2. \A n \in C : n \in 1 .. m
    BY <1>3, <2>1, FormAssumption
  <2>3. QED
    BY <1>4, <2>2
<1>7. QED
  BY <1>3, <1>6

(* The labs have no gap, and neither have they with a creation under way;  *)
(* until a second list is asked for, the page lists no template twice, and *)
(* none that is not there.                                                 *)
Numbered ==
  /\ \A w \in Workspaces : \A n \in 1 .. MaxLab - 1 : <<w, n + 1>> \in ctmpl => <<w, n>> \in ctmpl
  /\ \A p \in posts : p.num > 1 => <<p.course, p.num - 1>> \in ctmpl

ListedOnce ==
  /\ \A t \in Tmpl : view.templates[t] <= 1
  /\ \A t \in Tmpl : view.templates[t] > 0 => t \in ctmpl /\ <<"templates", t[1]>> \in live
  /\ \A t \in news.templates : <<"templates", t[1]>> \in live
  /\ \A r \in req : r.on[1] = "templates" => r.run = 1 /\ r.on \notin live
  /\ view.runs = 0 => \A o \in live : o[1] # "templates"

NumInv == "deletion" \notin past /\ view.runs <= 1 => Numbered /\ (Mounted => ListedOnce)

(* The labs of a course are those up to some number, which counts them.    *)
LEMMA CourseNumbers ==
  ASSUME Numbered, ctmpl \subseteq Tmpl, NEW w \in Workspaces
  PROVE  \E m \in 0 .. MaxLab : /\ \A n \in 1 .. MaxLab : <<w, n>> \in ctmpl <=> n <= m
                                /\ Cardinality({u \in ctmpl : u[1] = w}) = m
<1> DEFINE C == {n \in 1 .. MaxLab : <<w, n>> \in ctmpl}
<1> DEFINE U == {u \in ctmpl : u[1] = w}
<1>1. \A n \in 1 .. MaxLab - 1 : n + 1 \in C => n \in C
  BY FormAssumption DEF Numbered
<1>2. PICK m \in 0 .. MaxLab : C = 1 .. m
  <2>1. C \subseteq 1 .. MaxLab
    OBVIOUS
  <2> HIDE DEF C
  <2>2. QED
    BY <1>1, <2>1, Prefix
<1>3. \A n \in 1 .. MaxLab : <<w, n>> \in ctmpl <=> n <= m
  BY <1>2, FormAssumption
<1> DEFINE f == [n \in 1 .. m |-> <<w, n>>]
<1>4. \A n \in 1 .. m : <<w, n>> \in U
  BY <1>2
<1>5. \A u \in U : \E n \in 1 .. m : u = <<w, n>>
  <2> TAKE u \in U
  <2>1. u = <<w, u[2]>> /\ u[2] \in 1 .. MaxLab /\ <<w, u[2]>> \in ctmpl
    BY DEF Tmpl
  <2>2. u[2] \in C
    BY <2>1
  <2>3. QED
    BY <1>2, <2>1, <2>2
<1> HIDE DEF U
<1>6. f \in Bijection(1 .. m, U)
  BY <1>4, <1>5 DEF Bijection, Injection, Surjection, IsInjective
<1>7. Cardinality(U) = m
  BY <1>6, FormAssumption, FS_CountingElements DEF ExistsBijection
<1>8. QED
  BY <1>3, <1>7 DEF U

(* A template with the next number leaves no gap.                          *)
LEMMA NextNumber ==
  ASSUME Numbered, NEW w \in Workspaces, NEW k \in 1 .. MaxLab,
         k > 1 => <<w, k - 1>> \in ctmpl, ctmpl' = ctmpl \cup {<<w, k>>}, posts' \subseteq posts
  PROVE  Numbered'
<1>1. \A v \in Workspaces : \A n \in 1 .. MaxLab - 1 : <<v, n + 1>> \in ctmpl' => <<v, n>> \in ctmpl'
  <2> SUFFICES ASSUME NEW v \in Workspaces, NEW n \in 1 .. MaxLab - 1, <<v, n + 1>> \in ctmpl'
               PROVE  <<v, n>> \in ctmpl'
    OBVIOUS
  <2>1. CASE <<v, n + 1>> \in ctmpl
    BY <2>1 DEF Numbered
  <2>2. CASE v = w /\ n + 1 = k
    <3>1. k > 1 /\ k - 1 = n
      BY <2>2, FormAssumption
    <3>2. QED
      BY <2>2, <3>1
  <2>3. QED
    BY <2>1, <2>2
<1>2. QED
  BY <1>1 DEF Numbered

(* The form counts what the page lists, and that is at most what there is. *)
LEMMA NewNumber ==
  ASSUME HomeInv, FormInv, Numbered, ListedOnce, AddTemplate(view.templates) PROVE Numbered'
<1> DEFINE num == LabNums(form.course, view.templates) + 1
<1> DEFINE item == [course |-> form.course, num |-> num, image |-> form.image,
                    version |-> form.version, env |-> form.env]
<1>1. posts' = posts \cup {item} /\ ctmpl' = ctmpl
  BY DEF AddTemplate
<1>2. form.course \in Workspaces /\ ctmpl \subseteq Tmpl /\ view.templates \in [Tmpl -> Nat]
  BY DEF AddTemplate, Refused, FormInv, FormTypeOK, HomeInv, HomeTypes, View
<1>3. PICK m \in 0 .. MaxLab : \A n \in 1 .. MaxLab : <<form.course, n>> \in ctmpl <=> n <= m
  BY <1>2, CourseNumbers
<1>4. \A n \in 1 .. MaxLab : /\ view.templates[<<form.course, n>>] \in {0, 1}
                             /\ n > m => view.templates[<<form.course, n>>] = 0
  <2> TAKE n \in 1 .. MaxLab
  <2>1. <<form.course, n>> \in Tmpl
    BY <1>2 DEF Tmpl
  <2>2. view.templates[<<form.course, n>>] \in Nat
    BY <1>2, <2>1
  <2>3. /\ view.templates[<<form.course, n>>] <= 1
        /\ view.templates[<<form.course, n>>] > 0 => <<form.course, n>> \in ctmpl
    BY <2>1 DEF ListedOnce
  <2>4. n > m => <<form.course, n>> \notin ctmpl
    BY <1>3, FormAssumption
  <2>5. QED
    BY <2>2, <2>3, <2>4
<1>5. LabNums(form.course, view.templates) \in 0 .. m
  BY <1>3, <1>4, FormAssumption, SumIsBounded
<1>6. num > 1 => <<form.course, num - 1>> \in ctmpl
  BY <1>3, <1>5, FormAssumption
<1> HIDE DEF num
<1>7. item.num = num /\ item.course = form.course
  OBVIOUS
<1> HIDE DEF item
<1>8. QED
  BY <1>1, <1>6, <1>7 DEF Numbered

(* A step that lists nothing                                               *)
LEMMA QuietNumbers ==
  ASSUME HomeInv, NumInv, Stays, NewsFrom, req' \subseteq req,
         live' = live \/ live' = live \cup {<<"instances", None>>},
         past \subseteq past',
         "deletion" \in past' \/ (ctmpl \subseteq ctmpl' /\ (NumInv /\ "deletion" \notin past /\ view.runs <= 1 => Numbered'))
  PROVE  NumInv'
<1> SUFFICES ASSUME "deletion" \notin past', view.runs <= 1 PROVE Numbered' /\ (Mounted => ListedOnce')
  BY DEF NumInv, Stays, Mounted
<1>1. ctmpl \subseteq ctmpl' /\ Numbered' /\ (Mounted => ListedOnce)
  BY DEF NumInv
<1> SUFFICES ASSUME Mounted PROVE ListedOnce'
  BY <1>1
<1>2. \A t \in news'.templates : <<"templates", t[1]>> \in live'
  BY <1>1 DEF ListedOnce, NewsFrom
<1>3. \A r \in req' : r.on[1] = "templates" => r.run = 1 /\ r.on \notin live'
  BY <1>1 DEF ListedOnce
<1>4. view'.runs = 0 => \A o \in live' : o[1] # "templates"
  <2>1. view'.runs = 0 => \A o \in live : o[1] # "templates"
    BY <1>1, Zenon DEF ListedOnce, Stays
  <2>2. QED
    BY <2>1
<1>5. \A t \in Tmpl : view'.templates[t] > 0 => t \in ctmpl' /\ <<"templates", t[1]>> \in live'
  BY <1>1 DEF ListedOnce, Stays
<1>6. \A t \in Tmpl : view'.templates[t] <= 1
  BY <1>1 DEF ListedOnce, Stays
<1>7. QED
  BY <1>2, <1>3, <1>4, <1>5, <1>6, Zenon DEF ListedOnce

(* The first tenant starts the lists; a second one ends the claim.         *)
LEMMA TenantNumbers ==
  ASSUME HomeInv, NumInv, Mounted, SetTenants(tenant), NewsFrom, UNCHANGED <<ctmpl, posts, past>>
  PROVE  NumInv'
<1> DEFINE run == view.runs + 1
<1> DEFINE new == {<<"templates", w>> : w \in Listed(tenant)}
                    \cup (IF professor THEN {} ELSE {<<"instances", None>>})
<1> DEFINE rest == req \ {[on |-> <<"tenants", None>>, run |-> 0]}
<1> DEFINE loading == IF Listed(tenant) # {} THEN TRUE ELSE ~professor /\ view.loading
<1>1. view \in View /\ view.runs \in Nat /\ req \subseteq [on : Resource, run : 0 .. view.runs]
  BY DEF HomeInv, HomeTypes, View
<1>2. Numbered => Numbered'
  BY DEF Numbered
<1>3. CASE ~professor /\ ~tenant.ns
  <2>1. view' = [view EXCEPT !.tenants = tenant, !.runs = run, !.mounted = "crashed"]
    BY <1>3 DEF SetTenants
  <2>2. view'.runs = run /\ view'.mounted = "crashed"
    BY <1>1, <2>1 DEF View
  <2>3. view'.runs <= 1 => view.runs <= 1
    BY <1>1, <2>2
  <2>4. QED
    BY <1>2, <2>2, <2>3 DEF NumInv, Mounted
<1>4. CASE professor \/ tenant.ns
  <2>1. /\ view' = [view EXCEPT !.tenants = tenant, !.runs = run, !.loading = loading]
        /\ req' = rest \cup {[on |-> o, run |-> run] : o \in new}
        /\ live' = live \cup {<<"tenants", None>>}
    BY <1>4 DEF SetTenants
  <2> HIDE DEF loading
  <2>2. view'.runs = run /\ view'.templates = view.templates
    BY <1>1, <2>1 DEF View
  <2> SUFFICES ASSUME "deletion" \notin past', view'.runs <= 1 PROVE Numbered' /\ ListedOnce'
    BY DEF NumInv
  <2>3. view.runs = 0 /\ run = 1 /\ Numbered /\ ListedOnce
    BY <1>1, <2>2 DEF NumInv
  <2>4. \A r \in req : r.on[1] # "templates"
    BY <1>1, <2>3 DEF ListedOnce
  <2>5. \A o \in live' : o[1] # "templates"
    BY <2>1, <2>3 DEF ListedOnce
  <2>6. \A r \in req' : r.on[1] = "templates" => r.run = 1 /\ r.on \notin live'
    BY <2>1, <2>3, <2>4, <2>5
  <2>7. \A t \in news'.templates : <<"templates", t[1]>> \in live'
    BY <2>1, <2>3 DEF ListedOnce, NewsFrom
  <2>8. \A t \in Tmpl : /\ view'.templates[t] <= 1
                        /\ view'.templates[t] > 0 => t \in ctmpl' /\ <<"templates", t[1]>> \in live'
    BY <2>1, <2>2, <2>3 DEF ListedOnce
  <2>9. ListedOnce'
    <3>1. view'.runs # 0
      BY <2>2, <2>3
    <3> QED
      BY <2>6, <2>7, <2>8, <3>1 DEF ListedOnce
  <2>10. QED
    BY <1>2, <2>3, <2>9
<1>5. QED
  BY <1>3, <1>4

(* Each list is answered once.                                             *)
LEMMA TemplatesNumbers ==
  ASSUME HomeInv, NumInv, FormInv, NEW r \in req, TemplatesArrive(r),
         UNCHANGED <<ctmpl, posts, news, past>>
  PROVE  NumInv'
<1> DEFINE more == [t \in Tmpl |-> view.templates[t] + (IF t \in ctmpl /\ t[1] = r.on[2] THEN 1 ELSE 0)]
<1> DEFINE next == [r EXCEPT !.on = <<"instances", r.on[2]>>]
<1>1. /\ view \in View /\ view.templates \in [Tmpl -> Nat] /\ r.on[1] = "templates" /\ r.on \in Resource
      /\ req \subseteq [on : Resource, run : 0 .. view.runs]
  BY DEF HomeInv, HomeTypes, View, TemplatesArrive
<1>2. Numbered => Numbered'
  BY DEF Numbered
<1>3. next.on[1] = "instances"
  BY <1>1
<1>4. req' \subseteq (req \ {r}) \cup {next}
  BY DEF TemplatesArrive
<1> HIDE DEF next
<1>5. CASE ~Mounted
  <2>1. view' = view
    BY <1>5 DEF TemplatesArrive
  <2>2. QED
    BY <1>2, <1>5, <2>1 DEF NumInv, Mounted
<1>6. CASE Mounted
  <2>1. view' = [SetTemplates(view, more) EXCEPT !.loading = FALSE] /\ live' = live \cup {r.on}
    BY <1>6 DEF TemplatesArrive
  <2>2. \A t \in Tmpl : more[t] = view.templates[t] + (IF t \in ctmpl /\ t[1] = r.on[2] THEN 1 ELSE 0)
    OBVIOUS
  <2> HIDE DEF more
  <2>3. view'.runs = view.runs /\ view'.templates = more
    BY <1>1, <2>1 DEF SetTemplates, View
  <2> SUFFICES ASSUME "deletion" \notin past, view.runs <= 1 PROVE Numbered' /\ ListedOnce'
    BY <2>3 DEF NumInv
  <2>4. Numbered /\ ListedOnce
    BY <1>6 DEF NumInv
  <2>5. r.run = 1 /\ r.on \notin live /\ r.on = <<"templates", r.on[2]>>
    BY <1>1, <2>4 DEF ListedOnce, Resource
  <2>6. \A t \in Tmpl : t[1] = r.on[2] => view.templates[t] = 0
    <3> SUFFICES ASSUME NEW t \in Tmpl, t[1] = r.on[2] PROVE view.templates[t] = 0
      OBVIOUS
    <3>1. view.templates[t] > 0 => <<"templates", t[1]>> \in live
      BY <2>4 DEF ListedOnce
    <3>2. view.templates[t] \in Nat
      BY <1>1
    <3> QED
      BY <2>5, <3>1, <3>2
  <2>7. \A t \in Tmpl : more[t] <= 1 /\ (more[t] > 0 => t \in ctmpl' /\ <<"templates", t[1]>> \in live')
    <3> TAKE t \in Tmpl
    <3>1. view.templates[t] \in Nat
      BY <1>1
    <3>2. CASE t \in ctmpl /\ t[1] = r.on[2]
      BY <2>1, <2>2, <2>5, <2>6, <3>2
    <3>3. CASE ~(t \in ctmpl /\ t[1] = r.on[2])
      <4>1. more[t] = view.templates[t] + 0
        BY <2>2, <3>3, Zenon
      <4>2. more[t] = view.templates[t]
        BY <3>1, <4>1
      <4>3. QED
        BY <2>1, <2>4, <4>2 DEF ListedOnce
    <3>4. QED
      BY <3>2, <3>3
  <2>8. \A q \in req' : q.on[1] = "templates" => q.run = 1 /\ q.on \notin live'
    <3> SUFFICES ASSUME NEW q \in req', q.on[1] = "templates" PROVE q.run = 1 /\ q.on \notin live'
      OBVIOUS
    <3>1. q \in req /\ q # r
      BY <1>3, <1>4
    <3>2. q.run = 1 /\ q.on \notin live
      BY <2>4, <3>1 DEF ListedOnce
    <3>3. q.on # r.on
      BY <1>1, <2>5, <3>1, <3>2
    <3>4. QED
      BY <2>1, <3>2, <3>3
  <2>9. view.runs # 0
    BY <1>1, <2>5
  <2>10. ListedOnce'
    BY <2>1, <2>3, <2>4, <2>7, <2>8, <2>9 DEF ListedOnce
  <2>11. QED
    BY <1>2, <2>4, <2>10
<1>7. QED
  BY <1>5, <1>6

(* An answer lists templates once more only where none were listed.        *)
LEMMA AnswerNumbers == ASSUME HomeInv, FormInv, NumInv, NEW r \in req, Answer(r) PROVE NumInv'
<1>1. UNCHANGED <<ctmpl, posts, professor, tenant, cinst, news, past>>
  BY DEF Answer
<1>2. NewsFrom /\ HomeTypes /\ view \in View
  BY <1>1, NoNews DEF HomeInv, HomeTypes
<1>3. Numbered => Numbered'
  BY <1>1, Zenon DEF Numbered
<1>4. view' = view => Stays
  BY <1>2 DEF Stays
<1>5. CASE TenantArrives(r)
  <2>1. CASE Mounted
    BY <1>1, <1>2, <1>5, <2>1, TenantNumbers DEF TenantArrives
  <2>2. CASE ~Mounted
    <3>1. req' \subseteq req /\ view' = view /\ live' = live
      BY <1>5, <2>2 DEF TenantArrives
    <3>2. QED
      BY <1>1, <1>2, <1>3, <1>4, <3>1, QuietNumbers DEF NumInv
  <2>3. QED
    BY <2>1, <2>2
<1>6. CASE TemplatesArrive(r)
  BY <1>1, <1>6, TemplatesNumbers
<1>7. CASE InstancesArrive(r)
  <2>1. Stays
    BY <1>2, <1>4, <1>7, InstancesSet DEF InstancesArrive, HomeTypes
  <2>2. req' \subseteq req /\ (live' = live \/ live' = live \cup {<<"instances", None>>})
    BY <1>7 DEF InstancesArrive
  <2>3. QED
    BY <1>1, <1>2, <1>3, <2>1, <2>2, QuietNumbers DEF NumInv
<1>8. QED
  BY <1>5, <1>6, <1>7 DEF Answer

(* The event of a template lists it once or not at all.                    *)
LEMMA EventNumbers == ASSUME HomeInv, FormInv, NumInv, Event PROVE NumInv'
<1>1. Mounted /\ UNCHANGED <<ctmpl, posts, professor, tenant, cinst, past>>
  BY DEF Event
<1>2. HomeTypes /\ view \in View /\ news \in News
  BY DEF HomeInv, HomeTypes
<1>3. Numbered => Numbered'
  BY <1>1 DEF Numbered
<1>4. CASE news.tenants /\ news' = [news EXCEPT !.tenants = FALSE] /\ SetTenants(tenant)
  <2>1. NewsFrom
    BY <1>2, <1>4 DEF NewsFrom, News
  <2>2. QED
    BY <1>1, <1>4, <2>1, TenantNumbers
<1>5. ASSUME NEW t \in news.templates,
             LET now == [view.templates EXCEPT ![t] = IF t \notin ctmpl THEN 0 ELSE IF @ = 0 THEN 1 ELSE @]
             IN /\ news' = [news EXCEPT !.templates = @ \ {t}]
                /\ view' = SetTemplates(view, now)
                /\ UNCHANGED <<req, watch, live>>
      PROVE  NumInv'
  <2> DEFINE now == [view.templates EXCEPT ![t] = IF t \notin ctmpl THEN 0 ELSE IF @ = 0 THEN 1 ELSE @]
  <2>1. /\ news' = [news EXCEPT !.templates = @ \ {t}] /\ UNCHANGED <<req, watch, live>>
        /\ view' = SetTemplates(view, now)
    BY <1>5
  <2>2. view.templates \in [Tmpl -> Nat] /\ t \in Tmpl
    BY <1>2 DEF View, News
  <2>3. \A u \in Tmpl : \/ now[u] = view.templates[u]
                        \/ u = t /\ (now[u] = 0 \/ (t \in ctmpl /\ now[u] = 1))
    BY <2>2
  <2> HIDE DEF now
  <2>4. view'.runs = view.runs /\ view'.templates = now
    BY <1>2, <2>1 DEF SetTemplates, View
  <2>5. news'.templates \subseteq news.templates
    BY <1>2, <2>1 DEF News
  <2> SUFFICES ASSUME "deletion" \notin past, view.runs <= 1 PROVE Numbered' /\ ListedOnce'
    BY <1>1, <2>4 DEF NumInv
  <2>6. Numbered /\ ListedOnce
    BY <1>1 DEF NumInv
  <2>7. <<"templates", t[1]>> \in live
    BY <2>6 DEF ListedOnce
  <2>8. \A u \in Tmpl : now[u] <= 1 /\ (now[u] > 0 => u \in ctmpl /\ <<"templates", u[1]>> \in live)
    <3> TAKE u \in Tmpl
    <3>1. CASE now[u] = view.templates[u]
      BY <2>6, <3>1 DEF ListedOnce
    <3>2. CASE u = t /\ (now[u] = 0 \/ (t \in ctmpl /\ now[u] = 1))
      BY <2>7, <3>2
    <3>3. QED
      BY <2>3, <3>1, <3>2
  <2>9. ListedOnce'
    BY <1>1, <2>1, <2>4, <2>5, <2>6, <2>8 DEF ListedOnce
  <2>10. QED
    BY <1>3, <2>6, <2>9
<1>6. ASSUME NEW n \in news.instances,
             news' = [news EXCEPT !.instances = @ \ {n}],
             view' = SetInstances(view, [view.instances EXCEPT ![n] = cinst[n]]),
             UNCHANGED <<req, watch, live>>
      PROVE  NumInv'
  <2> DEFINE table == [view.instances EXCEPT ![n] = cinst[n]]
  <2>1. table \in Table
    BY <1>2 DEF HomeTypes, View, Table, News
  <2> HIDE DEF table
  <2>2. Stays
    BY <1>2, <1>6, <2>1, InstancesSet DEF table
  <2>3. NewsFrom
    BY <1>2, <1>6 DEF NewsFrom, News
  <2>4. QED
    BY <1>1, <1>3, <1>6, <2>2, <2>3, QuietNumbers DEF NumInv
<1>7. QED
  BY <1>4, <1>5, <1>6 DEF Event

(* Other people take the next number of a course, or delete.               *)
LEMMA EditNumbers == ASSUME HomeInv, FormInv, NumInv, Edit PROVE NumInv'
<1>1. Quiet /\ posts' = posts
  BY EditStep DEF Edit
<1>2. ctmpl \subseteq Tmpl
  BY DEF FormInv, FormTypeOK
<1>3. CASE ctmpl' = ctmpl /\ past' = past
  <2>1. Numbered => Numbered'
    BY <1>1, <1>3 DEF Numbered
  <2>2. QED
    BY <1>1, <1>3, <2>1, QuietNumbers DEF NumInv, Quiet
<1>4. ASSUME NEW t \in ctmpl, ChangeTemplates(ctmpl \ {t}, t) PROVE NumInv'
  <2>1. past \subseteq past' /\ "deletion" \in past'
    BY <1>4 DEF ChangeTemplates
  <2>2. QED
    BY <2>1 DEF NumInv
<1>5. ASSUME NEW w \in Workspaces,
             LET t == <<w, Cardinality({u \in ctmpl : u[1] = w}) + 1>> IN
               t \in Tmpl \ ctmpl /\ ChangeTemplates(ctmpl \cup {t}, t)
      PROVE  NumInv'
  <2> DEFINE c == Cardinality({u \in ctmpl : u[1] = w})
  <2>1. /\ c + 1 \in 1 .. MaxLab /\ ctmpl' = ctmpl \cup {<<w, c + 1>>} /\ past \subseteq past'
    BY <1>5 DEF Tmpl, ChangeTemplates
  <2>2. Numbered => Numbered'
    <3> SUFFICES ASSUME Numbered PROVE Numbered'
      OBVIOUS
    <3>1. PICK m \in 0 .. MaxLab : (\A n \in 1 .. MaxLab : <<w, n>> \in ctmpl <=> n <= m) /\ c = m
      BY <1>2, CourseNumbers
    <3> HIDE DEF c
    <3>2. c + 1 > 1 => <<w, (c + 1) - 1>> \in ctmpl
      BY <3>1, FormAssumption
    <3>3. QED
      BY <1>1, <2>1, <3>2, NextNumber
  <2>3. QED
    BY <1>1, <2>1, <2>2, QuietNumbers DEF NumInv, Quiet
<1>6. QED
  <2>1. \/ ctmpl' = ctmpl /\ past' = past
        \/ \E t \in ctmpl : ChangeTemplates(ctmpl \ {t}, t)
        \/ \E w \in Workspaces : LET t == <<w, Cardinality({u \in ctmpl : u[1] = w}) + 1>> IN
              t \in Tmpl \ ctmpl /\ ChangeTemplates(ctmpl \cup {t}, t)
    BY DEF Edit
  <2>2. QED
    BY <1>3, <1>4, <1>5, <2>1

(* The form, the tables and the page that is left                          *)
LEMMA FormNumbers ==
  ASSUME HomeInv, FormInv, NumInv, FormStep \/ FormAnswers \/ \E t \in Tmpl : DeleteTemplate(t)
  PROVE  NumInv'
<1>1. Quiet
  BY FormAndTemplates
<1>2. ASSUME ctmpl' = ctmpl, past' = past, posts' \subseteq posts PROVE NumInv'
  <2>1. Numbered => Numbered'
    BY <1>2 DEF Numbered
  <2>2. QED
    BY <1>1, <1>2, <2>1, QuietNumbers DEF NumInv, Quiet
<1>3. ASSUME Mounted, ctmpl' = ctmpl, past' = past, AddTemplate(view.templates) PROVE NumInv'
  <2>1. "deletion" \notin past /\ view.runs <= 1 => Numbered'
    BY <1>3, NewNumber DEF NumInv
  <2>2. QED
    BY <1>1, <1>3, <2>1, QuietNumbers DEF Quiet
<1>4. CASE FormStep
  BY <1>2, <1>3, <1>4, Zenon DEF FormStep, OpenCreate, Cancel, SelectField, SelectImage,
                                 AddTemplate
<1>5. ASSUME NEW p \in posts, posts' = posts \ {p}, <<p.course, p.num>> \notin ctmpl,
             ChangeTemplates(ctmpl \cup {<<p.course, p.num>>}, <<p.course, p.num>>)
      PROVE  NumInv'
  <2>1. p.course \in Workspaces /\ p.num \in 1 .. MaxLab
    BY DEF FormInv, FormTypeOK, Item
  <2>2. ctmpl' = ctmpl \cup {<<p.course, p.num>>} /\ past \subseteq past' /\ posts' \subseteq posts
    BY <1>5 DEF ChangeTemplates
  <2>3. Numbered => Numbered'
    <3> SUFFICES ASSUME Numbered PROVE Numbered'
      OBVIOUS
    <3>1. p.num > 1 => <<p.course, p.num - 1>> \in ctmpl
      BY DEF Numbered
    <3>2. QED
      BY <2>1, <2>2, <3>1, NextNumber
  <2>4. QED
    BY <1>1, <2>2, <2>3, QuietNumbers DEF NumInv, Quiet
<1>6. CASE FormAnswers
  BY <1>2, <1>5, <1>6 DEF FormAnswers, FormAnswer, ImagesArrive
<1>7. ASSUME NEW t \in Tmpl, DeleteTemplate(t) PROVE NumInv'
  <2>1. "deletion" \in past'
    BY <1>7 DEF DeleteTemplate, ChangeTemplates
  <2>2. QED
    BY <2>1 DEF NumInv
<1>8. QED
  BY <1>4, <1>6, <1>7

(* The other steps leave the templates alone.                              *)
LEMMA OtherNumbers ==
  ASSUME HomeInv, FormInv, NumInv,
         \/ CloseNotice \/ CallFails \/ Unmount
         \/ \E n \in Names : Operate(n) \/ Toggle(n) \/ Destroy(n)
         \/ \E t \in Tmpl : StartLab(t)
         \/ \E r \in req : RequestFails(r)
  PROVE  NumInv'
<1>1. UNCHANGED formVars /\ past \subseteq past'
  BY DEF CloseNotice, CallFails, Unmount, Operate, Toggle, Destroy, StartLab, RequestFails,
         formVars
<1>2. Numbered => Numbered'
  BY <1>1 DEF Numbered, formVars
<1>3. CASE Unmount
  <2>1. view'.mounted = "no" /\ view'.runs = view.runs
    BY <1>3 DEF Unmount, HomeInv, HomeTypes, View
  <2>2. QED
    BY <1>1, <1>2, <2>1 DEF NumInv, Mounted
<1>4. CASE Quiet
  BY <1>1, <1>2, <1>4, QuietNumbers DEF NumInv, Quiet, formVars
<1>5. QED
  BY <1>3, <1>4, TableStep

(* Neither a second click before the answer nor a list that lags behind    *)
(* makes the form skip a number, whatever is in the cluster and however    *)
(* many courses and labs there are (addTemplate counts what is listed).    *)
THEOREM LabsHaveNoGap == Spec => []LabsAreNumbered
<1>1. Init => NumInv
  <2> SUFFICES ASSUME Init PROVE Numbered /\ ListedOnce
    BY DEF NumInv
  <2>1. PICK s \in Scenarios : ctmpl = s.courses \X {1}
    BY InitialPage, Zenon
  <2>2. Numbered
    <3>1. \A w \in Workspaces : \A n \in 1 .. MaxLab - 1 : <<w, n + 1>> \notin ctmpl
      BY <2>1, FormAssumption
    <3>2. QED
      BY <3>1, InitialPage DEF Numbered
  <2>3. \A t \in Tmpl : view.templates[t] = 0
    BY InitialPage
  <2>4. live = {} /\ news.templates = {} /\ \A r \in req : r.on[1] # "templates"
    BY InitialPage
  <2>5. \A t \in Tmpl : view.templates[t] <= 1 /\ ~ (view.templates[t] > 0)
    BY <2>3
  <2>6. ListedOnce
    BY <2>4, <2>5, Zenon DEF ListedOnce
  <2>7. QED
    BY <2>2, <2>6
<1>2. HomeInv /\ FormInv /\ NumInv /\ [Next]_vars => NumInv'
  <2> SUFFICES ASSUME HomeInv, FormInv, NumInv, [Next]_vars PROVE NumInv'
    OBVIOUS
  <2>1. CASE UNCHANGED vars
    BY <2>1, Zenon DEF vars, formVars, homeVars, NumInv, Numbered, ListedOnce, Mounted
  <2>2. QED
    BY <2>1, AnswerNumbers, EventNumbers, EditNumbers, FormNumbers, OtherNumbers DEF Next
<1>3. NumInv => LabsAreNumbered
  BY DEF NumInv, Numbered, LabsAreNumbered
<1>4. QED
  BY <1>1, <1>2, <1>3, PageInv, PTL DEF Spec
=============================================================================
