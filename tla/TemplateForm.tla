---------------------------- MODULE TemplateForm ----------------------------
(***************************************************************************)
(* The form of the dashboard in which a professor creates a template       *)
(* (TemplateForm.js). A template is numbered in its course: <<w, n>> is    *)
(* the one called w-lab<n>. The form is given the templates that the page  *)
(* lists, a function from templates to the number of times each is listed, *)
(* and fetches the list of images every time they change.                  *)
(*                                                                         *)
(* Description and type of the machine are one field here; the sliders,    *)
(* which always have a value, are left out. NoVersion is the empty array   *)
(* the code puts for a version that is not chosen yet. MaxLab caps the     *)
(* numbers of templates and MaxFetch the requests for images under way.    *)
(***************************************************************************)
EXTENDS Naturals, Sequences, FiniteSets

CONSTANTS Workspaces, MaxLab, Images, Versions, None, NoVersion, MaxFetch

ASSUME FormAssumption ==
  /\ MaxLab \in Nat \ {0} /\ MaxFetch \in Nat \ {0}
  /\ None \notin Images /\ None \notin Workspaces /\ NoVersion \notin Versions

Tmpl == Workspaces \X (1 .. MaxLab)

ImageLists == [Images -> SUBSET Versions]

VARIABLES
  ctmpl,       \* the templates in the cluster
  list,        \* the ImageList in the cluster: the versions of each image
  form,        \* the state of the form
  posts        \* the creations under way, by their items

formVars == <<ctmpl, list, form, posts>>

Item == [course : Workspaces, num : 1 .. MaxLab, image : Images, version : Versions \cup {NoVersion},
         env : BOOLEAN]

FormTypeOK ==
  /\ ctmpl \subseteq Tmpl /\ list \in ImageLists
  /\ form \in [visible : BOOLEAN, courses : SUBSET Workspaces, course : Workspaces \cup {None},
               images : Seq(ImageLists), registry : BOOLEAN, fetches : 0 .. MaxFetch,
               image : Images \cup {None}, versions : SUBSET Versions,
               version : Versions \cup {NoVersion}, filled : BOOLEAN, env : BOOLEAN, acks : Nat]
  /\ posts \subseteq Item

(* The state after the first effects: they asked for the images, and put   *)
(* NoVersion in the place of null.                                         *)
NewForm ==
  [visible |-> FALSE, courses |-> {}, course |-> None, images |-> << >>, registry |-> FALSE,
   fetches |-> 1, image |-> None, versions |-> {}, version |-> NoVersion, filled |-> FALSE,
   env |-> FALSE, acks |-> 0]

-----------------------------------------------------------------------------
Courses(templates) == {w \in Workspaces : \E n \in 1 .. MaxLab : templates[<<w, n>>] > 0}

(* The effect of new templates on form f: the images are fetched again,    *)
(* the courses are those of the templates, and an only one is chosen.      *)
TemplatesEffect(f, templates) ==
  LET ws == Courses(templates) IN
  [f EXCEPT !.fetches = IF @ < MaxFetch THEN @ + 1 ELSE @,
            !.courses = IF ws = {} THEN @ ELSE ws,
            !.course = IF Cardinality(ws) = 1 THEN CHOOSE w \in ws : TRUE ELSE @]

(* The answer is added to what is there already, one that fails is ignored *)
ImagesArrive ==
  /\ form.fetches > 0
  /\ \/ form' = [form EXCEPT !.fetches = @ - 1, !.registry = TRUE, !.images = Append(@, list)]
     \/ form' = [form EXCEPT !.fetches = @ - 1]
  /\ UNCHANGED <<ctmpl, list, posts>>

(* images.find: of all the lists fetched the first that has the image *)
VersionsOf(image) ==
  LET has == {i \in DOMAIN form.images : form.images[i][image] # {}}
      first == CHOOSE i \in has : \A j \in has : i <= j
  IN form.images[first][image]

(* variant: the version chosen for another image is kept *)
SelectImage_keeps(image) ==
  /\ form.visible /\ image # form.image
  /\ \E i \in DOMAIN form.images : form.images[i][image] # {}
  /\ form' = [form EXCEPT !.image = image, !.versions = VersionsOf(image)]
  /\ UNCHANGED <<ctmpl, list, posts>>

(* An image is chosen, and the effect that depends on it: its versions are *)
(* offered, and an only one is chosen.                                     *)
SelectImage(image) ==
  /\ form.visible /\ image # form.image
  /\ \E i \in DOMAIN form.images : form.images[i][image] # {}
  /\ LET vs == VersionsOf(image) IN
     form' = [form EXCEPT !.image = image, !.versions = vs,
                          !.version = IF Cardinality(vs) = 1 THEN CHOOSE v \in vs : TRUE
                                      ELSE NoVersion]
  /\ UNCHANGED <<ctmpl, list, posts>>

(* The other fields *)
SelectField ==
  /\ form.visible
  /\ \/ \E w \in form.courses \ {form.course} : form' = [form EXCEPT !.course = w]
     \/ \E v \in form.versions \ {form.version} : form' = [form EXCEPT !.version = v]
     \/ ~form.filled /\ form' = [form EXCEPT !.filled = TRUE]
     \/ ~form.env /\ form' = [form EXCEPT !.env = TRUE]
  /\ UNCHANGED <<ctmpl, list, posts>>

OpenCreate ==
  /\ ~form.visible /\ form' = [form EXCEPT !.visible = TRUE] /\ UNCHANGED <<ctmpl, list, posts>>

Cancel ==
  /\ form.visible /\ form' = [form EXCEPT !.visible = FALSE] /\ UNCHANGED <<ctmpl, list, posts>>

(* variant: the templates of all the courses are counted *)
LabNums_all(w, templates) ==
  Cardinality({t \in Tmpl : templates[t] > 0})

(* How many templates of the course the page lists, each as often as it is listed *)
LabNums(w, templates) ==
  LET sum[n \in 0 .. MaxLab] == IF n = 0 THEN 0 ELSE sum[n - 1] + templates[<<w, n>>] IN sum[MaxLab]

(* "Please fill all the fields": an empty array is a version to this test, *)
(* and the type of the environment is not looked at.                       *)
Refused == form.course = None \/ form.image = None \/ ~form.filled

(* addTemplate *)
AddTemplate(templates) ==
  /\ form.visible /\ ~Refused
  /\ LET num == LabNums(form.course, templates) + 1 IN
     /\ num \in 1 .. MaxLab
     /\ posts' = posts \cup {[course |-> form.course, num |-> num, image |-> form.image,
                              version |-> form.version, env |-> form.env]}
  /\ UNCHANGED <<ctmpl, list, form>>
=============================================================================
