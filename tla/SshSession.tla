---------------------------- MODULE SshSession ----------------------------
(***************************************************************************)
(* One session of the installer with a firewall: SSHSession and the        *)
(* dialogues derived from it (SSHUnx, SSHPIX, SSHIOS, SSHNXOS,             *)
(* SSHProcurve, SSHJunos).  An external ssh client is a QProcess; what it  *)
(* prints is appended to stdoutBuffer and handed to stateMachine(), which  *)
(* looks for prompts and error messages and writes the next command.       *)
(*                                                                         *)
(* The session is one record; the C++ methods are operators from a session *)
(* to the session they leave behind, so that the order of the statements   *)
(* is the nesting of the operators.  A method that enters an event loop of *)
(* its own (the question about a new host key, SSHCisco::cmd, terminate)   *)
(* pushes a frame on "loops"; what follows the loop in the code is the     *)
(* action that pops the frame.                                             *)
(*                                                                         *)
(* A chunk of output is one token: the class of text the dialogues tell    *)
(* apart.  The device may print any token at any time.                     *)
(***************************************************************************)
EXTENDS Naturals, Sequences, SequencesExt

CONSTANTS
  Kinds,        \* the classes of session that are explored
  Lines,        \* lines of a configuration
  Pre,          \* pre_config_commands
  Activation,   \* activation_commands, with comment lines
  Post,         \* post_config_commands
  Comment       \* a line that starts with the comment symbol

AllKinds == {"unx", "pix", "ios", "nxos", "procurve", "junos"}

\* The configlets end every list of activation commands with "exit", "commit" or
\* "copy": a comment is never the last line.
ASSUME KindsAssumption == Kinds \subseteq AllKinds
ASSUME ListsAssumption == {Pre, Activation, Post} \subseteq Seq(Lines)
ASSUME ActivationAssumption == Activation # <<>> /\ Last(Activation) # Comment

VARIABLES kind, backup0, s
vars == <<kind, backup0, s>>

(* What the client prints: prompts ("config" is a prompt of Junos alone, on the
   other devices the configuration prompt ends like the enable prompt), a question of
   the device, the greeting of a Procurve, the question about the host key, messages
   in errorsInit and in the other error lists, and text nobody looks for.  Only the
   tokens the dialogue of this kind looks for are kept apart from the last.  *)
Tokens == {"password", "normal", "enable", "config", "greeting", "question", "newkey",
           "errInit", "errCmd", "text"}
Says ==
  {"password", "normal", "newkey", "errInit", "text"}
    \cup (IF kind = "unx" THEN {} ELSE {"enable", "errCmd"})
    \cup (IF kind \in {"unx", "pix"} THEN {} ELSE {"question"})
    \cup (IF kind = "procurve" THEN {"greeting"} ELSE {})
    \cup (IF kind = "junos" THEN {"config"} ELSE {})

\* the first n lines to activate, without the comments
Stripped[n \in 0..Len(Activation)] ==
  IF n = 0 THEN <<>>
  ELSE IF Activation[n] = Comment THEN Stripped[n-1] ELSE Append(Stripped[n-1], Activation[n])

Commands == Stripped[Len(Activation)]

-----------------------------------------------------------------------------
\* cmpPrompt with a pattern that may match anywhere, or only at the end of the buffer
Has(x, tok)  == tok \in x.buf
Ends(x, tok) == x.last = tok

Clear(x) == [x EXCEPT !.buf = {}, !.last = ""]
Goto(x, st) == [x EXCEPT !.state = st]

\* proc->write: a write through a NULL proc ends the program
Write(x) == IF x.proc = "running" THEN x ELSE [x EXCEPT !.crashed = TRUE]

\* sendCommand
SendCommand(x, c) ==
  LET w == Write(Clear(x))
  IN  IF w.crashed THEN w ELSE [w EXCEPT !.pushed = Append(@, c)]

\* mutant: the status is not protected by session_completed (#1699)
SessionCompleteAgain(x, err) ==
  [x EXCEPT !.beats = FALSE, !.completed = TRUE, !.error = err,
            !.reports = Append(@, IF err THEN "error" ELSE "ok")]

\* sessionComplete: the first status is the one that is reported
SessionComplete(x, err) ==
  [x EXCEPT !.beats = FALSE,
            !.completed = TRUE,
            !.error = IF x.completed THEN @ ELSE err,
            !.reports = IF x.completed THEN @
                        ELSE Append(@, IF err THEN "error" ELSE "ok")]

InLoop(x) == x.loops # <<>>
Top(x) == Last(x.loops)
Push(x, loop, by) == [x EXCEPT !.loops = Append(@, [loop |-> loop, by |-> by])]
Pop(x) == [x EXCEPT !.loops = Front(@)]

\* terminate: wait for the client to end, then tell it to, at most 20 seconds
Terminate(x, by) ==
  LET y == [x EXCEPT !.beating = FALSE]
  IN  IF y.proc = "running" THEN Push(y, "terminate", by) ELSE [y EXCEPT !.proc = "none"]

-----------------------------------------------------------------------------
\* checkForErrors: the token that is an error in this state of this dialogue
ErrorIn(x) ==
  IF kind = "unx" THEN Has(x, "errInit") \/ Has(x, "errCmd")
  ELSE LET commandErrors ==
             IF kind = "junos"
             THEN {"LOGGEDIN", "ENABLE", "WAITING_FOR_CONFIG_PROMPT", "PUSHING_CONFIG"}
             ELSE {"LOGGEDIN", "WAITING_FOR_ENABLE", "ENABLE"}
       IN  IF x.state \in commandErrors THEN Has(x, "errCmd") ELSE Has(x, "errInit")

OnError(x) ==
  LET y == [Clear(x) EXCEPT !.errorSeen = TRUE]
  IN  SessionComplete(y, TRUE)

OnErrorJunos(x, by) ==
  LET y == [Clear(x) EXCEPT !.errorSeen = TRUE, !.error = TRUE]
  IN  IF x.state = "WAITING_FOR_CONFIG_PROMPT"
      THEN Goto(y, "EXIT_FROM_CONFIG")
      ELSE Terminate(SessionComplete(IF x.state = "PUSHING_CONFIG" THEN Write(y) ELSE y,
                                     TRUE), by)

\* the question about the key of an unknown host: a modal box
AskNewKey(x, by) == Push([x EXCEPT !.beating = FALSE], "newkey", by)

-----------------------------------------------------------------------------
\* SSHUnx::stateMachine.  The command is on the command line of ssh; the dialogue
\* only gives passwords.
UnxStep(x, by) ==
  CASE x.state = "NONE" /\ Has(x, "password") -> Write(Clear(x))
    [] x.state = "NONE" /\ ~Has(x, "password") /\ Has(x, "normal")
         -> Clear(Goto(x, "PUSHING_CONFIG"))
    [] x.state = "NONE" /\ ~Has(x, "password") /\ ~Has(x, "normal") /\ Has(x, "newkey")
         -> AskNewKey(x, by)
    [] x.state = "PUSHING_CONFIG" /\ Has(x, "password") -> Write(Clear(x))
    [] x.state = "PUSHING_CONFIG" /\ ~Has(x, "password") -> Clear(x)
    [] OTHER -> x

PasswordPrompt(x) == IF kind = "pix" THEN Ends(x, "password") ELSE Has(x, "password")
EnablePasswordPrompt(x) ==
  IF kind = "procurve" THEN Ends(x, "password") ELSE Has(x, "password")

\* mutant: waits in a state stateMachine() does not know
EnableStepLost(x) ==
  IF ~Ends(x, "enable") THEN x ELSE Write(Goto(Clear(x), "PRE_CONFIG_COMMANDS"))

\* the ENABLE case: pre_config_commands, the backup, then configuration mode
EnableStep(x) ==
  IF ~Ends(x, "enable") THEN x
  ELSE IF x.pre # <<>>
       THEN SendCommand([x EXCEPT !.pre = Tail(@)], Head(x.pre))
       ELSE IF x.backup
            THEN [Clear(x) EXCEPT !.timer = TRUE]
            ELSE Write(Goto(Clear(x), "WAITING_FOR_CONFIG_PROMPT"))

\* stateMachine() called again in the state that was just entered
ReenterEnable(x, by) ==
  LET y == Goto(x, "ENABLE")
  IN  IF ErrorIn(y) THEN IF kind = "junos" THEN OnErrorJunos(y, by) ELSE OnError(y)
      ELSE EnableStep(y)
ReenterWaiting(x, by) ==
  LET y == Goto(x, "WAITING_FOR_ENABLE")
  IN  IF ErrorIn(y) THEN IF kind = "junos" THEN OnErrorJunos(y, by) ELSE OnError(y)
      ELSE IF kind # "junos" /\ EnablePasswordPrompt(y) THEN Write(Clear(y))
           ELSE ReenterEnable(y, by)

\* mutant: the command is looked at and not popped
PushNextKept(x) ==
  LET n == CHOOSE i \in 1..Len(x.act) :
             x.act[i] # Comment /\ \A j \in 1..(i-1) : x.act[j] = Comment
  IN  IF Len(x.pushed) > 4 THEN x ELSE SendCommand(x, x.act[n])

\* the activation command that is sent next, after the comments before it
PushNext(x) ==
  LET n == CHOOSE i \in 1..Len(x.act) :
             x.act[i] # Comment /\ \A j \in 1..(i-1) : x.act[j] = Comment
  IN  SendCommand([x EXCEPT !.act = SubSeq(@, n + 1, Len(@))], x.act[n])

\* EXIT_FROM_CONFIG: post_config_commands, then the end of the session.  Procurve
\* says "logout" and Cisco "exit"; Junos only asks for one more prompt.
ExitFromConfigStep(x) ==
  IF ~Ends(x, "enable") THEN x
  ELSE IF x.post # <<>>
       THEN SendCommand([x EXCEPT !.post = Tail(@)], Head(x.post))
       ELSE LET y == Write(Goto(Clear(x), "EXIT"))
            IN  IF kind = "junos" THEN y ELSE [y EXCEPT !.bye = TRUE]

-----------------------------------------------------------------------------
\* SSHCisco::stateMachine with the cases SSHPIX, SSHIOS, SSHNXOS and SSHProcurve add.
\* SCHEDULE_RELOAD_DIALOG is left out: the installer always expands the configlets
\* with schedule_rollback false, no command holds "reload in".
CiscoStep(x, by) ==
  CASE x.state = "NONE" /\ kind = "procurve" /\ Ends(x, "greeting") -> Write(Clear(x))
    [] x.state = "NONE" /\ PasswordPrompt(x) -> Write(Clear(x))
    [] x.state = "NONE" /\ ~PasswordPrompt(x) /\ Ends(x, "normal")
         -> Write(Goto(Clear(x), "LOGGEDIN"))
    [] x.state = "NONE" /\ ~PasswordPrompt(x) /\ Ends(x, "enable")
         -> ReenterWaiting(x, by)
    [] x.state = "NONE" /\ ~PasswordPrompt(x) /\ ~Ends(x, "normal")
         /\ ~Ends(x, "enable") /\ ~(kind = "procurve" /\ Ends(x, "greeting"))
         /\ Has(x, "newkey")
         -> AskNewKey(x, by)
    [] x.state = "LOGGEDIN" /\ EnablePasswordPrompt(x)
         -> Write(Goto(Clear(x), "WAITING_FOR_ENABLE"))
    [] x.state = "WAITING_FOR_ENABLE" /\ EnablePasswordPrompt(x) -> Write(Clear(x))
    [] x.state = "WAITING_FOR_ENABLE" /\ ~EnablePasswordPrompt(x) /\ Ends(x, "enable")
         -> ReenterEnable(x, by)
    [] x.state = "ENABLE" -> EnableStep(x)
    [] x.state = "EXECUTING_COMMAND" /\ Ends(x, "enable")
         -> [Goto(x, "COMMAND_DONE") EXCEPT !.loopExit = TRUE]
    [] x.state = "WAITING_FOR_CONFIG_PROMPT" /\ Ends(x, "enable")
         -> Write(Clear(Goto(x, "PUSHING_CONFIG")))
    [] x.state = "PUSHING_CONFIG" /\ kind # "pix" /\ Has(x, "question") -> Write(Clear(x))
    [] x.state = "PUSHING_CONFIG" /\ (kind = "pix" \/ ~Has(x, "question"))
         /\ Ends(x, "enable")
         -> IF x.act # <<>> THEN PushNext(x) ELSE Write(Goto(x, "EXIT_FROM_CONFIG"))
    [] x.state = "EXIT_FROM_CONFIG" -> ExitFromConfigStep(x)
    [] x.state = "EXIT" /\ kind = "procurve" /\ Has(x, "question")
         -> Write(Goto(Clear(x), "FINISH"))
    [] OTHER -> x

\* SSHJunos::stateMachine
JunosStep(x, by) ==
  CASE x.state = "NONE" /\ PasswordPrompt(x) -> Write(Clear(x))
    [] x.state = "NONE" /\ ~PasswordPrompt(x) /\ Ends(x, "normal")
         -> Write(Goto(Clear(x), "LOGGEDIN"))
    [] x.state = "NONE" /\ ~PasswordPrompt(x) /\ Ends(x, "enable")
         -> ReenterWaiting(x, by)
    [] x.state = "NONE" /\ ~PasswordPrompt(x) /\ ~Ends(x, "normal")
         /\ ~Ends(x, "enable") /\ Has(x, "newkey")
         -> AskNewKey(x, by)
    [] x.state = "NONE" /\ ~PasswordPrompt(x) /\ ~Ends(x, "normal")
         /\ ~Ends(x, "enable") /\ ~Has(x, "newkey") /\ Has(x, "question")
         -> Write(Clear(x))
    [] x.state = "LOGGEDIN" /\ Ends(x, "normal")
         -> Write(Goto(Clear(x), "WAITING_FOR_ENABLE"))
    [] x.state \in {"LOGGEDIN", "WAITING_FOR_ENABLE"} /\ Ends(x, "enable")
         -> ReenterEnable(x, by)
    [] x.state = "ENABLE" -> EnableStep(x)
    [] x.state = "WAITING_FOR_CONFIG_PROMPT" /\ Ends(x, "config")
         -> Write(Clear(Goto(x, "PUSHING_CONFIG")))
    [] x.state = "PUSHING_CONFIG" /\ Ends(x, "config")
         -> IF x.act # <<>> THEN PushNext(x) ELSE Write(Goto(x, "EXIT_FROM_CONFIG"))
    [] x.state = "EXIT_FROM_CONFIG" -> ExitFromConfigStep(x)
    [] x.state = "EXIT" /\ (Ends(x, "enable") \/ Ends(x, "normal"))
         -> LET y == [Write(Clear(x)) EXCEPT !.bye = TRUE]
            IN  IF y.error THEN Terminate(SessionComplete(y, TRUE), by) ELSE y
    [] OTHER -> x

\* stateMachine(), dispatched on the class of the session
StateMachine(x, by) ==
  IF ErrorIn(x) THEN IF kind = "junos" THEN OnErrorJunos(x, by) ELSE OnError(x)
  ELSE IF kind = "unx" THEN UnxStep(x, by)
       ELSE IF kind = "junos" THEN JunosStep(x, by)
            ELSE CiscoStep(IF kind = "nxos" /\ Has(x, "question") THEN Write(Clear(x)) ELSE x,
                           by)

-----------------------------------------------------------------------------
Init ==
  /\ kind \in Kinds
  /\ backup0 \in IF kind = "pix" THEN BOOLEAN ELSE {FALSE}
  /\ s = [state |-> "NONE", buf |-> {}, last |-> "", proc |-> "none", started |-> FALSE,
          client |-> "none", code |-> 0,
          pre |-> Pre, act |-> Activation, post |-> Post, backup |-> backup0,
          beating |-> FALSE,    \* heartBeatTimer runs
          beats |-> TRUE,       \* its timeout() is connected to heartBeat()
          completed |-> FALSE,  \* session_completed
          error |-> FALSE,
          timer |-> FALSE,      \* singleShot(0, PIXbackup) is pending
          loops |-> <<>>,       \* the event loops entered by methods of the session
          loopExit |-> FALSE,   \* local_event_loop->exit() was called
          (* history *)
          reports |-> <<>>, pushed |-> <<>>, bye |-> FALSE, errorSeen |-> FALSE,
          stopped |-> FALSE, outlived |-> FALSE, crashed |-> FALSE]

Alive == ~s.crashed

\* startSession: a client that can not be started leaves only a line in the log
StartSession ==
  /\ ~s.started
  /\ \E ok \in BOOLEAN :
       s' = [s EXCEPT !.started = TRUE, !.beating = TRUE,
                      !.proc = IF ok THEN "running" ELSE "failed",
                      !.client = IF ok THEN "running" ELSE "failed"]
  /\ UNCHANGED <<kind, backup0>>

\* mutant: the slots stay connected and do not look at proc
MayReadUnguarded(by) == s.started /\ \A i \in 1..Len(s.loops) : s.loops[i].by # by

\* A channel does not call its slot again while that slot has not returned: QProcess
\* does not emit readyRead recursively, a timer does not fire in its own handler.
MayRead(by) ==
  /\ s.proc = "running"
  /\ \A i \in 1..Len(s.loops) : s.loops[i].by # by
  /\ by = "timer" => s.beating /\ s.beats

\* readFromStdout, from readyReadStandardOutput() ("signal") or from heartBeat()
\* ("timer").  A zero timer fires in the pass of the loop that follows, before more
\* output is read.
ReadFromStdout(tok, by) ==
  /\ Alive /\ ~s.timer
  /\ MayRead(by)
  /\ s' = StateMachine([s EXCEPT !.buf = @ \cup {tok}, !.last = tok], by)
  /\ UNCHANGED <<kind, backup0>>

\* the user answers the question about the host key
AnswerNewKey(yes) ==
  /\ Alive /\ InLoop(s) /\ Top(s).loop = "newkey"
  /\ LET y == Clear(Pop([s EXCEPT !.beating = TRUE]))
     IN  s' = IF yes THEN Write(y) ELSE SessionComplete(y, TRUE)
  /\ UNCHANGED <<kind, backup0>>

\* SSHCisco::cmd: send, then wait in local_event_loop
Cmd(x, c) ==
  LET y == Write(Clear(x))
  IN  IF y.crashed THEN y ELSE Push(Goto(y, "EXECUTING_COMMAND"), c, "single")

\* SSHPIX::PIXbackup, called by the zero timer: the first of its two commands
PIXbackup ==
  /\ Alive /\ s.timer
  /\ s' = Cmd([s EXCEPT !.timer = FALSE], "pager")
  /\ UNCHANGED <<kind, backup0>>

\* local_event_loop->exec() returns in cmd; PIXbackup goes on behind it.  FINISH is
\* tested in the code, and no step of SSHPIX sets it.
CmdReturns ==
  /\ Alive /\ s.loopExit /\ InLoop(s) /\ Top(s).loop \in {"pager", "show run"}
  /\ LET y == Pop([s EXCEPT !.loopExit = FALSE])
     IN  s' = IF Top(s).loop = "pager" THEN Cmd(y, "show run")
              ELSE Write(IF y.state = "COMMAND_DONE"
                         THEN Goto([y EXCEPT !.backup = FALSE], "ENABLE") ELSE y)
  /\ UNCHANGED <<kind, backup0>>

-----------------------------------------------------------------------------
\* The exit status of the client: 0 when the remote shell was told to leave (for a
\* Unix firewall, when the command it was started with ends); 255 when the connection
\* breaks or the client is told to end.  Any other status, 1, is like 255 except to a
\* Procurve.
ExitCodes == {255} \cup (IF kind = "procurve" THEN {1} ELSE {})
                   \cup (IF s.bye \/ kind = "unx" THEN {0} ELSE {})

ClientEnds(code) ==
  /\ s.proc = "running" /\ s.client = "running"
  /\ s' = [s EXCEPT !.client = "ended", !.code = code]
  /\ UNCHANGED <<kind, backup0>>

\* a handler of the session has yet to go on: behind a loop it entered, or from a
\* zero timer
Suspended == s.timer \/ \E i \in 1..Len(s.loops) : s.loops[i].loop # "terminate"

\* mutant: every class takes 255 for a success
Success255(code) == code \in {0, 255}

\* SSHProcurve::finished: 0 and 255 are success
Success(code) == IF kind = "procurve" THEN code \in {0, 255} ELSE code = 0

\* the slot finished(): cleanUp and sessionComplete
Finished ==
  /\ Alive /\ s.proc = "running" /\ s.client = "ended"
  /\ s' = SessionComplete([s EXCEPT !.proc = "none", !.outlived = @ \/ Suspended],
                          ~Success(s.code))
  /\ UNCHANGED <<kind, backup0>>

\* terminate() after 20 seconds: the client is killed, its signals are disconnected
\* and nothing is reported
KillClient ==
  /\ Alive /\ InLoop(s) /\ Top(s).loop = "terminate"
  /\ s.proc = "running" /\ s.client = "running"
  /\ s' = [Pop(s) EXCEPT !.proc = "none", !.client = "killed", !.outlived = @ \/ Suspended]
  /\ UNCHANGED <<kind, backup0>>

\* terminate() finds proc NULL after a wait
TerminateReturns ==
  /\ Alive /\ InLoop(s) /\ Top(s).loop = "terminate" /\ s.proc = "none"
  /\ s' = Pop(s)
  /\ UNCHANGED <<kind, backup0>>

\* Stop and Cancel call FirewallInstaller::terminate, once for a batch.  The question
\* about the host key is modal and terminate lets no user input in.
Stop ==
  /\ Alive /\ s.started /\ ~s.stopped
  /\ \A i \in 1..Len(s.loops) : s.loops[i].loop \notin {"newkey", "terminate"}
  /\ s' = [Terminate(s, "user") EXCEPT !.stopped = TRUE]
  /\ UNCHANGED <<kind, backup0>>

\* the program waits for the device or the user, or the session is over
Idle == s.started /\ UNCHANGED vars

Next ==
  \/ StartSession
  \/ \E tok \in Says, by \in {"signal", "timer"} : ReadFromStdout(tok, by)
  \/ \E yes \in BOOLEAN : AnswerNewKey(yes)
  \/ PIXbackup
  \/ CmdReturns
  \/ \E code \in ExitCodes : ClientEnds(code)
  \/ Finished
  \/ KillClient
  \/ TerminateReturns
  \/ Stop
  \/ Idle

(* Qt delivers finished() of a process that has ended: every action of the model
   ends in an event loop, the main one or one the session has entered.  Nothing is
   assumed of the device or of the user.  *)
Spec == Init /\ [][Next]_vars /\ WF_vars(Finished)

-----------------------------------------------------------------------------
States == {"NONE", "LOGGEDIN", "WAITING_FOR_ENABLE", "ENABLE", "EXECUTING_COMMAND",
           "COMMAND_DONE", "WAITING_FOR_CONFIG_PROMPT", "PUSHING_CONFIG",
           "EXIT_FROM_CONFIG", "EXIT", "FINISH"}

\* Type invariant of the session record.
TypeOK ==
  /\ kind \in Kinds /\ backup0 \in BOOLEAN
  /\ s.state \in States /\ s.buf \subseteq Tokens /\ s.last \in Tokens \cup {""}
  /\ s.proc \in {"none", "failed", "running"}
  /\ s.client \in {"none", "failed", "running", "ended", "killed"}
  /\ s.loops \in Seq([loop : {"newkey", "pager", "show run", "terminate"},
                      by : {"signal", "timer", "single", "user"}])
  /\ s.reports \in Seq({"ok", "error"})
  /\ \A f \in {s.started, s.backup, s.beating, s.beats, s.completed, s.error, s.timer,
               s.loopExit, s.bye, s.errorSeen, s.stopped, s.outlived, s.crashed} :
       f \in BOOLEAN

\* What reaches the device is always a prefix of pre_config, activation and
\* post_config commands, in this order and without repetition, whatever prompts the
\* device prints, doubles or leaves out and wherever the session is interrupted.  Only
\* Junos may go from the configuration database it can not lock straight to the
\* post_config commands.
CommandsInOrder ==
  \/ IsPrefix(s.pushed, Pre \o Commands \o Post)
  \/ kind = "junos" /\ s.error /\ IsPrefix(s.pushed, Pre \o Post)

\* A session is reported as a success only when all of the configuration was handed to
\* the device and the device was told good-bye.  Unix sessions push nothing and a
\* Procurve session is excluded: for it 255, the status of a broken connection, is a
\* success.
SuccessMeansPushed ==
  ("ok" \in Range(s.reports) /\ kind \notin {"unx", "procurve"})
    => s.pushed = Pre \o Commands \o Post

\* Writing through the NULL proc takes a handler that was suspended (in the host key
\* question, in a backup command, in the timer that starts the backup) while the
\* session lost its client; no other order of output, exit and Stop does it.
NullWriteNeedsSuspension == s.crashed => s.outlived

\* The session keeps the promise made to the installer: one status, the first one,
\* although errors seen in the output, the exit status and Stop come in any order and
\* Junos goes on talking after an error; success only after the client has ended; a
\* status for every client that ends.
Outcome == INSTANCE SessionOutcome WITH
             client <- s.client,
             outcome <- IF s.reports = <<>> THEN "none"
                        ELSE IF Len(s.reports) = 1 THEN s.reports[1] ELSE "several"
KeepsPromise == Outcome!Spec

\* "If session finishes with an error, we always terminate installer"
\* (FirewallInstaller::runSSHSession): after the fatal error no further command of the
\* configuration goes to the device.  The code does not keep this (README).
NothingPushedAfterError ==
  [][s.reports # <<>> => s'.pushed = s.pushed]_vars
=============================================================================
