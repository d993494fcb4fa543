-------------------------- MODULE MCSshConnection --------------------------
(* Small instances of the SSH connection manager: the commands, and the    *)
(* bounds each run sets in its .cfg.                                       *)
EXTENDS SshConnection

CONSTANTS c1, c2

OneCommand == {c1}
TwoCommands == {c1, c2}
=============================================================================
