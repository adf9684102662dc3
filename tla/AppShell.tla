------------------------------ MODULE AppShell ------------------------------
(***************************************************************************)
(* The start of the new frontend (env, index, App): the modules read the   *)
(* environment, from what was built in or from the window, which           *)
(* config.js fills when the container runs; then the router shows the page *)
(* of the path.                                                            *)
(***************************************************************************)
EXTENDS Integers

CONSTANTS EnvVars, \* the names env.ts reads
          Paths    \* the paths a user may enter, the ones of the routes and others

VARIABLES built,   \* the names defined by process.env when the bundle was built
          window,  \* the names config.js defines at present
          app,     \* the page in the browser: none, the names it read, or nothing drawn
          path

shellVars == <<built, window, app, path>>

NoPage == [drawn |-> FALSE, read |-> {}]

ShellInit ==
  /\ built \in SUBSET EnvVars
  /\ window = {}
  /\ app = NoPage
  /\ path = "/"

\* The slip of using a name that nobody defined as if it were empty.
GetEnvVar_lenient(name) == TRUE

\* getEnvVar does not throw: process.env has the name, or else the window.
GetEnvVar(name) == name \in built \union window

\* The operator of the cluster changes config.js; a loaded page keeps its values.
Configure(names) ==
  /\ names # window
  /\ window' = names
  /\ UNCHANGED <<built, app, path>>

\* The page is loaded at p; the first name that is missing throws, and nothing
\* is rendered.
LoadPage(p) ==
  /\ path' = p
  /\ app' = IF \A name \in EnvVars : GetEnvVar(name)
              THEN [drawn |-> TRUE, read |-> built \union window] ELSE NoPage
  /\ UNCHANGED <<built, window>>

\* The route that Switch chooses, or "" for none: "/" is the only exact one.
Route(p) ==
  CASE p \in {"/active", "/active/x"} -> "active"
    [] p = "/account" -> "account"
    [] p = "/" -> "home"
    [] OTHER -> ""

Links == CASE Route(path) = "home" -> {"/active", "/account"}
           [] Route(path) \in {"active", "account"} -> {"/"}
           [] OTHER -> {}

\* A link changes the path without loading anything.
Follow(p) ==
  /\ app.drawn /\ p \in Links
  /\ path' = p
  /\ UNCHANGED <<built, window, app>>

ShellNext ==
  \/ \E names \in SUBSET EnvVars : Configure(names)
  \/ \E p \in Paths : LoadPage(p) \/ Follow(p)

ShellSpec == ShellInit /\ [][ShellNext]_shellVars

-----------------------------------------------------------------------------
(* "If you start the app locally and see the apiserver url on the home     *)
(* page everything is working fine" (frontend/README.md): a page is drawn  *)
(* only if every variable was defined, built in or by config.js, when it   *)
(* was loaded, whatever config.js has become since and whichever links     *)
(* have led to it, and a link never leads to a path without a page.        *)
HomeMeansConfigured ==
  app.drawn => EnvVars \subseteq app.read /\ \A p \in Links : Route(p) # ""
=============================================================================
