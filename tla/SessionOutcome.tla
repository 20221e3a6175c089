-------------------------- MODULE SessionOutcome --------------------------
(***************************************************************************)
(* What a session promises the installer (FirewallInstaller connects       *)
(* sessionFinished_sign and sessionFatalError_sign of SSHSession to the    *)
(* next job and to the end of the installation of one firewall): at most   *)
(* one status, success only when the client has ended, and a status for    *)
(* every client that ends by itself.                                       *)
(***************************************************************************)
VARIABLES
  client,    \* the ssh client: "none", "failed" (not started), "running", "ended", "killed"
  outcome    \* the status the installer was told: "none", "ok", "error"

vars == <<client, outcome>>

Init == client = "none" /\ outcome = "none"

Start == client = "none" /\ client' \in {"running", "failed"} /\ UNCHANGED outcome

End == client = "running" /\ client' = "ended" /\ UNCHANGED outcome

\* a client that does not end when it is told to is killed, and nobody is told
Kill == client = "running" /\ client' = "killed" /\ UNCHANGED outcome

\* an error can be seen while the client runs
ReportError ==
  /\ client \notin {"none", "failed"} /\ outcome = "none"
  /\ outcome' = "error" /\ UNCHANGED client

ReportEnd ==
  /\ client = "ended" /\ outcome = "none"
  /\ outcome' \in {"ok", "error"} /\ UNCHANGED client

Next == Start \/ End \/ Kill \/ ReportError \/ ReportEnd

Spec == Init /\ [][Next]_vars /\ WF_vars(ReportEnd)
=============================================================================
