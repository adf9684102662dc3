----------------------------- MODULE MCFrontend -----------------------------
(***************************************************************************)
(* The pages of the new frontend share no state: a behaviour is one of     *)
(* them in use, the others being left alone.                               *)
(***************************************************************************)
EXTENDS AccountPage, Theme, FrontendTables, AppShell, GqlResponse

VARIABLE page

MCAlgorithms == {<<"ssh-rsa">>}

MCParts == {":", "ssh-rsa", "pgp", "AAAA", "me", "laptop", "my", "pc"}

\* A name of one word, one of two, one of white space, and an emptied field.
MCNames == { << <<"laptop">> >>, << <<"my">>, <<"pc">> >>, << <<>>, <<>> >>, << <<>> >> }

\* Keys with and without comment, with white space before, after and instead of
\* the body, of another algorithm, with too many words, and an emptied field.
MCKeys ==
  { << <<"ssh-rsa">>, <<"AAAA">> >>, << <<"ssh-rsa">>, <<"AAAA">>, <<"me">> >>,
    << <<"ssh-rsa">>, <<"AAAA">>, <<>> >>, << <<>>, <<"ssh-rsa">>, <<"AAAA">> >>,
    << <<"ssh-rsa">>, <<>> >>, << <<"pgp">>, <<"AAAA">> >>, << <<"ssh-rsa">> >>,
    << <<"ssh-rsa">>, <<"AAAA">>, <<"me">>, <<>> >>, << <<>> >> }

vars == <<page, accountVars, themeVars, workspacesVars, activeVars, gqlVars, shellVars>>

MCInit ==
  /\ page \in {"account", "theme", "workspaces", "active", "gql", "shell"}
  /\ AccountInit /\ ThemeInit /\ WorkspacesInit /\ ActiveInit /\ GqlInit /\ ShellInit
  /\ page # "active" => ~isTenantManager
  /\ page # "shell" => built = {}

MCNext ==
  /\ UNCHANGED page
  /\ \/ /\ page = "account" /\ AccountNext
        /\ UNCHANGED <<themeVars, workspacesVars, activeVars, gqlVars, shellVars>>
     \/ /\ page = "theme" /\ ThemeNext
        /\ UNCHANGED <<accountVars, workspacesVars, activeVars, gqlVars, shellVars>>
     \/ /\ page = "workspaces" /\ WorkspacesNext
        /\ UNCHANGED <<accountVars, themeVars, activeVars, gqlVars, shellVars>>
     \/ /\ page = "active" /\ ActiveNext
        /\ UNCHANGED <<accountVars, themeVars, workspacesVars, gqlVars, shellVars>>
     \/ /\ page = "gql" /\ GqlNext
        /\ UNCHANGED <<accountVars, themeVars, workspacesVars, activeVars, shellVars>>
     \/ /\ page = "shell" /\ ShellNext
        /\ UNCHANGED <<accountVars, themeVars, workspacesVars, activeVars, gqlVars>>

MCSpec == MCInit /\ [][MCNext]_vars
=============================================================================
