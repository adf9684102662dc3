------------------------------ MODULE Dashboard ------------------------------
(***************************************************************************)
(* The page of the dashboard (CrownLabsHome.js) with its two tables, the   *)
(* templates (Templates.js) and the instances (Instances.js), and the form *)
(* of TemplateForm. The page asks for the tenant; the effect of every new  *)
(* tenant asks for the templates of its workspaces and for the instances.  *)
(* Requests are answered in any order, fail, and outlive the page.         *)
(*                                                                         *)
(* window.api is external: a request registers a watch of its resource,    *)
(* abortWatch removes the watches of a kind. An answer is what the cluster *)
(* holds when it arrives; what changes afterwards comes as an event of the *)
(* watch, in any order with the others, and two changes of one object may  *)
(* come as one event.                                                      *)
(*                                                                         *)
(* Every step takes one from a budget of its kind, chosen in Init, so that *)
(* one instance covers several scenarios.                                  *)
(***************************************************************************)
EXTENDS TemplateForm

CONSTANTS
  Names,        \* names of instances
  Persistent,   \* the templates with persistent machines,
  Gui,          \* with a graphical interface
  Containers,   \* and of containers
  Scenarios     \* where the page starts, and the budgets [edit, act, form, fault] of the steps

Roles == {"none", "user", "manager"}
Tenant == [ws : [Workspaces -> Roles], ns : BOOLEAN]
Inst == [tmpl : Tmpl, phase : {"", "VmiReady", "VmiOff"}, running : BOOLEAN]
Table == [Names -> Inst \cup {None}]
Resource == {"tenants", "templates", "instances"} \X (Workspaces \cup {None})

ASSUME HomeAssumption ==
  /\ None \notin Inst /\ None \notin Tenant
  /\ \A s \in Scenarios :
       /\ s.professor \in BOOLEAN /\ s.tenant \in Tenant /\ s.list \in ImageLists
       /\ s.courses \subseteq Workspaces /\ s.of \in [Names -> Tmpl \cup {None}]
       /\ s.past \subseteq {"failure", "deletion", "told"}

VARIABLES
  professor,   \* which of the two paths the page is on
  tenant,      \* the Tenant in the cluster
  cinst,       \* the instances in the cluster
  view,        \* the state of the page
  req,         \* the requests under way, [on : Resource, run : Nat]
  watch,       \* the resources watched by window.api
  live,        \* the watches whose list has been answered
  news,        \* changes whose event is still to come
  left,        \* the budgets
  past         \* what has happened: "failure" of a call, "deletion" of a template, and
               \* "told", the mark in localStorage that the notice was closed

homeVars == <<professor, tenant, cinst, view, req, watch, live, news, left, past>>
vars == <<formVars, homeVars>>

Empty == [n \in Names |-> None]

(* Captured is the tenant in the closure of the columns of the templates,  *)
(* paired is a history variable: the templates the instances of a          *)
(* professor were last paired with.                                        *)
TypeOK ==
  /\ FormTypeOK
  /\ tenant \in Tenant /\ cinst \in Table
  /\ view \in [mounted : {"yes", "no", "crashed"}, loading : BOOLEAN, runs : Nat,
               tenants : Tenant \cup {None}, templates : [Tmpl -> Nat], captured : Tenant \cup {None},
               instances : Table, pro : Table, paired : SUBSET Tmpl, terminating : SUBSET Names,
               notice : BOOLEAN]
  /\ past \subseteq {"failure", "deletion", "told"}
  /\ \A r \in req : r.on \in Resource /\ r.run \in 0 .. view.runs
  /\ live \subseteq watch /\ watch \subseteq Resource
  /\ news \in [tenants : BOOLEAN, templates : SUBSET Tmpl, instances : SUBSET Names]
  /\ (view.mounted # "yes" => live = {})

(* The page after its first render; it loads on only if the token can be   *)
(* read.                                                                   *)
NewPage(token) ==
  [mounted |-> "yes", loading |-> token, runs |-> 0, tenants |-> None,
   templates |-> [t \in Tmpl |-> 0], captured |-> None, instances |-> Empty, pro |-> Empty,
   paired |-> {}, terminating |-> {}, notice |-> "told" \notin past]

(* The page is on the screen: the tenant has been asked for, if the token  *)
(* can be read, and the notice is open unless it was closed once.          *)
Init ==
  /\ \E s \in Scenarios :
       /\ professor = s.professor /\ tenant = s.tenant /\ list = s.list
       /\ left = s.left /\ past = s.past
       /\ ctmpl = s.courses \X {1}
       /\ cinst = [n \in Names |-> IF s.of[n] = None THEN None ELSE
                     [tmpl |-> s.of[n], phase |-> "VmiReady", running |-> TRUE]]
  /\ form = NewForm /\ posts = {}
  /\ \E token \in BOOLEAN :
     /\ view = NewPage(token)
     /\ watch = IF token THEN {<<"tenants", None>>} ELSE {}
     /\ req = IF token THEN {[on |-> <<"tenants", None>>, run |-> 0]} ELSE {}
  /\ live = {} /\ news = [tenants |-> FALSE, templates |-> {}, instances |-> {}]

Spend(kinds) ==
  /\ \A k \in kinds : left[k] > 0
  /\ left' = [k \in DOMAIN left |-> IF k \in kinds THEN left[k] - 1 ELSE left[k]]

-----------------------------------------------------------------------------
(* What the setters and the effects that follow them make of a page v.     *)

(* setTenants([t]) and its effect: the requests of the workspaces, managed *)
(* ones on the path of the professors. A student's tenant that has no      *)
(* status yet throws in the effect, and the page is gone.                  *)
Listed(t) == {w \in Workspaces : IF professor THEN t.ws[w] = "manager" ELSE t.ws[w] # "none"}

(* variant: status?.personalNamespace?.name *)
SetTenants_lenient(t) ==
  LET run == view.runs + 1
      new == {<<"templates", w>> : w \in Listed(t)} \cup (IF professor THEN {} ELSE {<<"instances", None>>})
  IN /\ view' = [view EXCEPT !.tenants = t, !.runs = run,
                             !.loading = IF Listed(t) # {} THEN TRUE ELSE ~professor /\ @]
     /\ req' = (req \ {[on |-> <<"tenants", None>>, run |-> 0]}) \cup {[on |-> o, run |-> run] : o \in new}
     /\ watch' = watch \cup new
     /\ live' = live \cup {<<"tenants", None>>}

SetTenants(t) ==
  LET run == view.runs + 1
      crash == ~professor /\ ~t.ns
      new == {<<"templates", w>> : w \in Listed(t)} \cup (IF professor THEN {} ELSE {<<"instances", None>>})
      rest == req \ {[on |-> <<"tenants", None>>, run |-> 0]}
  IN IF crash
     THEN /\ view' = [view EXCEPT !.tenants = t, !.runs = run, !.mounted = "crashed"]
          /\ req' = rest /\ watch' = {} /\ live' = {}
     ELSE /\ view' = [view EXCEPT !.tenants = t, !.runs = run,
                                  !.loading = IF Listed(t) # {} THEN TRUE ELSE ~professor /\ @]
          /\ req' = rest \cup {[on |-> o, run |-> run] : o \in new}
          /\ watch' = watch \cup new
          /\ live' = live \cup {<<"tenants", None>>}

(* setTemplates: the columns of the table are built again, with the tenant *)
(* of this render in their closure.                                        *)
SetTemplates(v, templates) == [v EXCEPT !.templates = templates, !.captured = v.tenants]

(* variant: the instances of a professor are paired once *)
SetInstances_once(v, table) ==
  LET known == {t \in Tmpl : v.templates[t] > 0}
      pairs == [n \in Names |-> IF table[n] # None /\ table[n].tmpl \in known THEN table[n] ELSE None]
  IN IF professor /\ v.instances = Empty
     THEN [v EXCEPT !.instances = table, !.pro = pairs, !.paired = known]
     ELSE [v EXCEPT !.instances = table]

(* setInstances: a professor's are paired with the templates listed by now *)
SetInstances(v, table) ==
  LET known == {t \in Tmpl : v.templates[t] > 0}
      pairs == [n \in Names |-> IF table[n] # None /\ table[n].tmpl \in known THEN table[n] ELSE None]
  IN IF professor /\ table # Empty
     THEN [v EXCEPT !.instances = table, !.pro = pairs, !.paired = known]
     ELSE [v EXCEPT !.instances = table]

Mounted == view.mounted = "yes"

-----------------------------------------------------------------------------
(* The answers                                                             *)

TenantArrives(r) ==
  /\ r.on[1] = "tenants"
  /\ IF Mounted THEN SetTenants(tenant)
     ELSE req' = req \ {r} /\ UNCHANGED <<view, watch, live>>
  /\ UNCHANGED form

(* variant: setLoading(false) is left to the instances *)
TemplatesArrive_loading(r) ==
  /\ r.on[1] = "templates"
  /\ LET w == r.on[2]
         more == [t \in Tmpl |-> view.templates[t] + (IF t \in ctmpl /\ t[1] = w THEN 1 ELSE 0)]
     IN IF Mounted
        THEN /\ view' = SetTemplates(view, more)
             /\ form' = TemplatesEffect(form, more)
             /\ live' = live \cup {r.on}
        ELSE UNCHANGED <<view, form, live>>
  /\ IF professor
     THEN /\ req' = (req \ {r}) \cup {[r EXCEPT !.on = <<"instances", r.on[2]>>]}
          /\ watch' = watch \cup {<<"instances", None>>}
     ELSE req' = req \ {r} /\ UNCHANGED watch

(* The templates of a workspace are added to the list. The instances are   *)
(* asked for next on the path of the professors, whether the page is still *)
(* there or not.                                                           *)
TemplatesArrive(r) ==
  /\ r.on[1] = "templates"
  /\ LET w == r.on[2]
         more == [t \in Tmpl |-> view.templates[t] + (IF t \in ctmpl /\ t[1] = w THEN 1 ELSE 0)]
     IN IF Mounted
        THEN /\ view' = [SetTemplates(view, more) EXCEPT !.loading = FALSE]
             /\ form' = TemplatesEffect(form, more)
             /\ live' = live \cup {r.on}
        ELSE UNCHANGED <<view, form, live>>
  /\ IF professor
     THEN /\ req' = (req \ {r}) \cup {[r EXCEPT !.on = <<"instances", r.on[2]>>]}
          /\ watch' = watch \cup {<<"instances", None>>}
     ELSE req' = req \ {r} /\ UNCHANGED watch

InstancesArrive(r) ==
  /\ r.on[1] = "instances"
  /\ req' = req \ {r}
  /\ IF Mounted THEN /\ view' = SetInstances(view, cinst)
                     /\ live' = live \cup {<<"instances", None>>}
     ELSE UNCHANGED <<view, live>>
  /\ UNCHANGED <<watch, form>>

RequestFails(r) ==
  /\ Spend({"fault"}) /\ past' = past \cup {"failure"}
  /\ req' = req \ {r}
  /\ view' = [view EXCEPT !.loading = ~Mounted /\ @]
  /\ UNCHANGED <<ctmpl, list, form, posts, professor, tenant, cinst, watch, live, news>>

Answer(r) ==
  /\ TenantArrives(r) \/ TemplatesArrive(r) \/ InstancesArrive(r)
  /\ UNCHANGED <<ctmpl, list, posts, professor, tenant, cinst, news, left, past>>

(* The events of the watches *)
Event ==
  /\ Mounted
  /\ \/ /\ news.tenants /\ news' = [news EXCEPT !.tenants = FALSE]
        /\ SetTenants(tenant) /\ UNCHANGED form
     \/ \E t \in news.templates :
          LET now == [view.templates EXCEPT ![t] = IF t \notin ctmpl THEN 0 ELSE IF @ = 0 THEN 1 ELSE @]
          IN /\ news' = [news EXCEPT !.templates = @ \ {t}]
             /\ view' = SetTemplates(view, now) /\ form' = TemplatesEffect(form, now)
             /\ UNCHANGED <<req, watch, live>>
     \/ \E n \in news.instances :
          /\ news' = [news EXCEPT !.instances = @ \ {n}]
          /\ view' = SetInstances(view, [view.instances EXCEPT ![n] = cinst[n]])
          /\ UNCHANGED <<form, req, watch, live>>
  /\ UNCHANGED <<ctmpl, list, posts, professor, tenant, cinst, left, past>>

(* The page is left: the watches are aborted, the requests are not *)
Unmount ==
  /\ Mounted /\ Spend({"act"})
  /\ view' = [view EXCEPT !.mounted = "no"]
  /\ watch' = {} /\ live' = {} /\ news' = [tenants |-> FALSE, templates |-> {}, instances |-> {}]
  /\ UNCHANGED <<formVars, professor, tenant, cinst, req, past>>

-----------------------------------------------------------------------------
(* What changes the cluster. A watch that is live has an event of it.      *)
ChangeInstance(n, inst) ==
  /\ cinst' = [cinst EXCEPT ![n] = inst]
  /\ news' = IF <<"instances", None>> \in live THEN [news EXCEPT !.instances = @ \cup {n}] ELSE news

ChangeTemplates(ts, t) ==
  /\ ctmpl' = ts
  /\ past' = IF ts \subseteq ctmpl THEN past \cup {"deletion"} ELSE past
  /\ news' = IF <<"templates", t[1]>> \in live THEN [news EXCEPT !.templates = @ \cup {t}] ELSE news

(* Other pages and other people: the tenant gets another role or its       *)
(* namespace, templates and instances come and go, an image gets versions. *)
Edit ==
  /\ Spend({"edit"})
  /\ \/ /\ \/ \E w \in Workspaces, role \in Roles : tenant' = [tenant EXCEPT !.ws[w] = role]
           \/ tenant' = [tenant EXCEPT !.ns = TRUE]
        /\ tenant' # tenant
        /\ news' = [news EXCEPT !.tenants = @ \/ <<"tenants", None>> \in live]
        /\ UNCHANGED <<ctmpl, cinst, list, past>>
     \/ /\ \/ \E t \in ctmpl : ChangeTemplates(ctmpl \ {t}, t)
           \/ \E w \in Workspaces : LET t == <<w, Cardinality({u \in ctmpl : u[1] = w}) + 1>> IN
                t \in Tmpl \ ctmpl /\ ChangeTemplates(ctmpl \cup {t}, t)
        /\ UNCHANGED <<tenant, cinst, list>>
     \/ /\ \E n \in Names :
             \/ cinst[n] # None /\ ChangeInstance(n, None)
             \/ cinst[n] = None /\ \E t \in ctmpl :
                  ChangeInstance(n, [tmpl |-> t, phase |-> "", running |-> TRUE])
        /\ UNCHANGED <<tenant, ctmpl, list, past>>
     \/ /\ left.form > 0 /\ \E i \in Images : list' = [list EXCEPT ![i] = Versions] /\ list' # list
        /\ UNCHANGED <<tenant, ctmpl, cinst, news, past>>
  /\ UNCHANGED <<form, posts, professor, view, req, watch, live>>

(* The operator brings the machine where its instance wants it *)
Operate(n) ==
  /\ cinst[n] # None
  /\ LET phase == IF cinst[n].running THEN "VmiReady" ELSE "VmiOff" IN
     cinst[n].phase # phase /\ ChangeInstance(n, [cinst[n] EXCEPT !.phase = phase])
  /\ UNCHANGED <<formVars, professor, tenant, view, req, watch, live, left, past>>

-----------------------------------------------------------------------------
(* What the user sees and does. The row of an instance: its icon, whether  *)
(* there is a button to connect, and the button to control it.             *)
Shown == IF professor THEN view.pro ELSE view.instances

Icon(n, inst) ==
  CASE n \in view.terminating -> "changing"
    [] n \notin view.terminating /\ inst.phase = "VmiReady" -> "ready"
    [] n \notin view.terminating /\ inst.phase = "VmiOff" -> "off"
    [] OTHER -> "changing"

Connect(inst) == inst.tmpl \in Gui /\ inst.phase = "VmiReady"

Control(inst) ==
  IF inst.tmpl \in Persistent
  THEN IF inst.phase = "" THEN "nothing" ELSE IF inst.running THEN "shutdown" ELSE "start"
  ELSE IF inst.tmpl \in Containers /\ inst.phase # "" THEN "files" ELSE "nothing"

(* An instance has a row if its template is listed *)
HasTemplate(t) == view.templates[t] > 0

Row(n, inst) ==
  IF inst = None THEN None
  ELSE IF ~HasTemplate(inst.tmpl) THEN None
       ELSE [icon |-> Icon(n, inst), connect |-> Connect(inst), control |-> Control(inst)]

HasRow(n) == Row(n, Shown[n]) # None

(* The button that starts a lab is in the row of a listed template, in     *)
(* columns built when the templates last changed.                          *)
StartButton(t) == Mounted /\ HasTemplate(t)

(* startLab: the namespace is that of the captured tenant; a name that is  *)
(* taken is refused and logged. Without a namespace it throws.             *)
StartLab(t) ==
  /\ StartButton(t) /\ Spend({"act"})
  /\ view.captured # None /\ view.captured.ns
  /\ \E n \in Names :
       /\ cinst[n] = None
       /\ ChangeInstance(n, [tmpl |-> t, phase |-> "", running |-> TRUE])
  /\ UNCHANGED <<formVars, professor, tenant, view, req, watch, live, past>>

DeleteTemplate(t) ==
  /\ Mounted /\ Spend({"act"}) /\ professor /\ HasTemplate(t)
  /\ ChangeTemplates(ctmpl \ {t}, t)
  /\ UNCHANGED <<list, form, posts, professor, tenant, cinst, view, req, watch, live>>

(* The control button of a persistent instance writes into the object that *)
(* the tables share before it sends the update.                            *)
Flip(n) ==
  LET old == Shown[n]
      set(table) == IF table[n] = old THEN [table EXCEPT ![n].running = ~@] ELSE table
  IN /\ HasRow(n) /\ Control(old) \in {"shutdown", "start"}
     /\ view' = [view EXCEPT !.pro = set(@), !.instances = set(@)]

(* The update is refused if what it was made from is out of date.          *)
Toggle(n) ==
  /\ Mounted /\ Spend({"act"}) /\ Flip(n)
  /\ \/ cinst[n] # None /\ ChangeInstance(n, [cinst[n] EXCEPT !.running = ~Shown[n].running])
     \/ (cinst[n] = None \/ n \in news.instances) /\ UNCHANGED <<cinst, news>>
  /\ UNCHANGED <<formVars, professor, tenant, req, watch, live, past>>

Destroy(n) ==
  /\ Mounted /\ Spend({"act"}) /\ HasRow(n)
  /\ view' = [view EXCEPT !.terminating = @ \cup {n}]
  /\ IF cinst[n] # None THEN ChangeInstance(n, None) ELSE UNCHANGED <<cinst, news>>
  /\ UNCHANGED <<formVars, professor, tenant, req, watch, live, past>>

(* onClose of the notice, which outlives the page *)
CloseNotice ==
  /\ view.notice /\ Spend({"act"})
  /\ view' = [view EXCEPT !.notice = FALSE] /\ past' = past \cup {"told"}
  /\ UNCHANGED <<formVars, professor, tenant, cinst, req, watch, live, news>>

(* A call of the tables that fails: the page has done its part already.    *)
CallFails ==
  /\ Mounted /\ Spend({"act", "fault"}) /\ past' = past \cup {"failure"}
  /\ \E n \in Names :
       \/ Flip(n)
       \/ HasRow(n) /\ view' = [view EXCEPT !.terminating = @ \cup {n}]
  /\ UNCHANGED <<formVars, professor, tenant, cinst, req, watch, live, news>>

(* The form *)
FormStep ==
  /\ Mounted /\ professor /\ Spend({"form"})
  /\ \/ OpenCreate \/ Cancel \/ SelectField
     \/ \E image \in Images : SelectImage(image)
     \/ AddTemplate(view.templates)
  /\ UNCHANGED <<professor, tenant, cinst, view, req, watch, live, news, past>>

(* What comes for the form: images, and the answers to its creations. One  *)
(* whose name is taken is refused.                                         *)
FormAnswer ==
  \/ /\ Mounted /\ left.form > 0 /\ ImagesArrive /\ UNCHANGED <<news, past>>
  \/ \E p \in posts :
       /\ posts' = posts \ {p} /\ UNCHANGED list
       /\ IF <<p.course, p.num>> \in ctmpl THEN UNCHANGED <<ctmpl, form, news, past>>
          ELSE /\ ChangeTemplates(ctmpl \cup {<<p.course, p.num>>}, <<p.course, p.num>>)
               /\ form' = [form EXCEPT !.acks = @ + 1]
  \/ /\ form.acks > 0 /\ form' = [form EXCEPT !.acks = @ - 1, !.visible = FALSE]
     /\ UNCHANGED <<ctmpl, list, posts, news, past>>

FormAnswers == FormAnswer /\ UNCHANGED <<professor, tenant, cinst, view, req, watch, live, left>>

Next ==
  \/ \E r \in req : Answer(r) \/ RequestFails(r)
  \/ Event \/ Unmount \/ Edit \/ CloseNotice \/ CallFails \/ FormStep \/ FormAnswers
  \/ \E n \in Names : Operate(n) \/ Toggle(n) \/ Destroy(n)
  \/ \E t \in Tmpl : StartLab(t) \/ DeleteTemplate(t)

Spec == Init /\ [][Next]_vars

(* Every request is answered or fails, events arrive, the operator works   *)
FairSpec ==
  /\ Spec
  /\ WF_vars(\E r \in req : Answer(r) \/ RequestFails(r))
  /\ WF_vars(Event) /\ WF_vars(FormAnswers)
  /\ \A n \in Names : WF_vars(Operate(n))

-----------------------------------------------------------------------------
(* The spinner of the tables ends: whatever the order of the answers and   *)
(* whichever of them fail, a professor's page and that of a student who    *)
(* is in a workspace stop loading, or are left.                            *)
LoadingEnds ==
  [](professor \/ Listed(tenant) # {}) => []<>(~view.loading \/ ~Mounted)

(* The table of the instances gets to show the cluster: if no call fails,  *)
(* what a row shows is the instance as it is in the end, no instance of a  *)
(* listed template is missing and no other has a row. On the path of the   *)
(* professors the claim is about the templates listed when the last event  *)
(* of an instance came, and needs an instance to be left.                  *)
Awaited(n) ==
  IF cinst[n] = None \/ (professor /\ cinst[n].tmpl \notin view.paired) THEN None ELSE cinst[n]

TableConverges ==
  ([](past \cap {"failure"} = {})) =>
    <>[](Mounted /\ view.runs > 0 /\ (professor => Listed(tenant) # {} /\ cinst # Empty)
           => \A n \in Names : Row(n, Shown[n]) = Row(n, Awaited(n)))

(* A template is started in a namespace that is there: while the table     *)
(* lists a template, the closure of its columns holds a tenant, and on the *)
(* path of the students that tenant has its namespace, however the answers *)
(* and the changes of the tenant are ordered.                              *)
StartHasNamespace ==
  /\ TypeOK
  /\ Mounted /\ (\E t \in Tmpl : HasTemplate(t)) =>
       view.captured # None /\ (professor \/ view.captured.ns)

(* The version in the form is one that some list offered for the image in  *)
(* the form, and then the registry is known: no template is created with   *)
(* the version of another image.                                           *)
ImageIsOffered ==
  /\ form.image # None => form.registry
  /\ form.version # NoVersion =>
       form.image # None /\ \E i \in DOMAIN form.images : form.version \in form.images[i][form.image]

(* As long as nobody deletes a template and the page has read the tenant   *)
(* once, the templates of a course are numbered from 1 without a gap:      *)
(* neither a second click before the answer nor a list that lags behind    *)
(* makes the form skip a number or take one twice.                         *)
LabsAreNumbered ==
  past \cap {"deletion"} = {} /\ view.runs <= 1 =>
    \A w \in Workspaces : \A n \in 1 .. MaxLab - 1 : <<w, n + 1>> \in ctmpl => <<w, n>> \in ctmpl

(* "Delete any reference to the component in the api service": once the    *)
(* page is left, window.api watches nothing for it.                        *)
NoReferenceLeft == Mounted \/ watch = {}
=============================================================================
