--------------------------- MODULE FrontendTables ---------------------------
(***************************************************************************)
(* The two pages of the new frontend that show tables with rows to expand. *)
(* They are drawn inside the same shell and share no state.                *)
(***************************************************************************)
EXTENDS WorkspacesPage, ActivePage

(* The accordions of both pages of tables follow the clicks of the user    *)
(* (WorkspacesPage and ActivePage, TemplatesTable.tsx:55 and               *)
(* NestedTables.tsx:34): no row is open that was not clicked where it is   *)
(* shown.                                                                  *)
AccordionsFollowUser == AccordionFollowsUser /\ RowsFollowUser
=============================================================================
