-------------------------------- MODULE MCBus --------------------------------
(***************************************************************************)
(* An instance of Bus: the gateway, the service that takes the command,    *)
(* one that only answers, one that consumes the events, and a registry     *)
(* that grows by an operation.                                             *)
(***************************************************************************)
EXTENDS Bus

First == {<<"member", "create">>, <<"project", "read">>}

TwoBuilds == {First, First \cup {<<"auditLog", "read">>}}

Credentials == <<"gateway", "identity", "projects", "audit", "bootstrap">>
=============================================================================
