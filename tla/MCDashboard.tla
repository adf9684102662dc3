----------------------------- MODULE MCDashboard -----------------------------
(***************************************************************************)
(* Two workspaces with up to three templates each, two names of instances  *)
(* and two images, one with two versions. The scenarios give the steps to  *)
(* other people, to the tables, to failures or to the form.                *)
(***************************************************************************)
EXTENDS Dashboard, TLC

CONSTANTS w1, w2, a, b, v1, v2, i1, i2

MCPersistent == {w1} \X (1 .. MaxLab)
MCContainers == {w2} \X (1 .. MaxLab)
MCGui == Workspaces \X {1}

Budget(edit, act, fm, fault) == "edit" :> edit @@ "act" :> act @@ "form" :> fm @@ "fault" :> fault

MCScenarios ==
  LET both == w1 :> "manager" @@ w2 :> "manager"
      one == w1 :> "manager" @@ w2 :> "user"
      none == w1 :> "none" @@ w2 :> "none"
      lists == {a :> {v1, v2} @@ b :> {v1}}
      full == i1 :> <<w1, 1>> @@ i2 :> <<w2, 1>>
      half == i1 :> <<w1, 1>> @@ i2 :> None
      Home(past0, steps) ==
        [professor : BOOLEAN, tenant : [ws : {both, one, none}, ns : BOOLEAN], list : lists,
         courses : {{w1, w2}}, of : {full, half}, past : {past0}, left : steps]
      Fill(ws, courses, steps) ==
        [professor : {TRUE}, tenant : [ws : {ws}, ns : {TRUE}], list : lists,
         courses : {courses}, of : {half}, past : {{"told"}}, left : steps]
  IN UNION {Home({"told"}, {Budget(2, 0, 0, 0), Budget(1, 1, 0, 0)}),
            Home({}, {Budget(0, 2, 0, 1)}),
            Fill(one, {w1}, {Budget(1, 0, 5, 0), Budget(0, 0, 7, 0)}),
            Fill(both, {w1, w2}, {Budget(0, 0, 6, 0)})}
=============================================================================
