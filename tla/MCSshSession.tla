--------------------------- MODULE MCSshSession ---------------------------
(* A comment and a command to push, one command before and one after.     *)
EXTENDS SshSession

MCLines == {"terminal", "!", "rule", "write"}
MCPre == <<"terminal">>
MCActivation == <<"!", "rule">>
MCPost == <<"write">>
=============================================================================
