-------------------------- MODULE DaemonLifecycleMC --------------------------
(* Two daemons of this release and one of an earlier one, two commands that may *)
(* overlap, one commit and two schema versions.                                 *)
EXTENDS DaemonLifecycle

CONSTANTS old, new1, new2, cli, app

MCDaemons == {old, new1, new2}
MCLegacy == {old}
MCClients == {cli, app}
=============================================================================
