----------------------------- MODULE MCAccounts -----------------------------
(* One name is a part of two others. *)
EXTENDS Accounts

MCInside == {<<"ann", "joann">>, <<"ann", "anna">>}
=============================================================================
