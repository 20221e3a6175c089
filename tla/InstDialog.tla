------------------------------ MODULE InstDialog ------------------------------
(***************************************************************************)
(* The compile and install wizard of libgui (instDialog) with the process  *)
(* it runs compilers and install scripts in (one QProcess for all), the    *)
(* FirewallInstaller of the firewall being installed and its ssh sessions. *)
(*                                                                         *)
(* Everything runs in the GUI thread: an action is what one event handler  *)
(* does until it returns or enters a nested event loop.  loops is the      *)
(* stack of nested loops: a frame says where the handler that entered the  *)
(* loop goes on once it returns.  In a nested loop timers fire, processes  *)
(* end and, unless it is that of the modal options dialog, the user clicks.*)
(* The loop interpretLogLine() runs for a line of output is left out: it   *)
(* takes no user input, and what it may deliver is delivered when the      *)
(* handler has ended.                                                      *)
(*                                                                         *)
(* The lists of firewalls are sets: the order of the tree is left out.     *)
(***************************************************************************)
EXTENDS Naturals, Sequences

CONSTANTS
  Firewalls, Clusters, Member, \* Member[c]: the firewalls cluster c consists of
  NoObject,      \* the value of cnf.fwobj before the first use
  NoCompiler,    \* units with no compiler: no platform, no compiler option
  NotStartable,  \* units whose compiler can not be started
  Scripted,      \* firewalls installed by a user defined script
  Moves,         \* what the user does besides the usual, see AllMoves
  MaxNesting     \* bound: nested event loops

Units == Clusters \cup (Firewalls \ UNION {Member[c] : c \in Clusters})
Objects == Firewalls \cup Clusters
AllMoves == {"back while busy",  \* Back while a compiler runs
             "show while busy",  \* the menu item again while work is pending
             "click in loop",    \* a click that arrives in a processEvents()
             "early stop",       \* Stop in the install phase, before it is wired to it
             "hide",             \* the window is closed, or Escape pressed
             "select all"}       \* Select All and Select None

ASSUME ObjectAssumption ==
  /\ Firewalls \cap Clusters = {} /\ NoObject \notin Objects
  /\ Member \in [Clusters -> SUBSET Firewalls] /\ \A c \in Clusters : Member[c] # {}
ASSUME UnitAssumption ==
  NoCompiler \subseteq Units /\ NotStartable \subseteq Units /\ Scripted \subseteq Firewalls
ASSUME MovesAssumption == Moves \subseteq AllMoves /\ MaxNesting \in Nat \ {0}

VARIABLES
  visible, compileOnly, rejectDialogFlag, canceledAll,
  batch,        \* batchInstall is checked in the options dialog
  page, op,     \* current page; page_1_op
  complete,     \* compile_complete
  finished,
  next, back,   \* nextEnabled and backEnabled of page "work"
  finishOn,     \* finishEnabled, per page
  stopOn, stopSlot,           \* the Stop button and the slot it is connected to
  compileBox, installBox,     \* checked boxes of selectTable
  compileList, installList,   \* compile_fw_list, install_fw_list
  cur,          \* cnf.fwobj
  proc,         \* the QProcess and the object it was started for
  installer,    \* the FirewallInstaller
  sessions,     \* ssh sessions in progress
  timers,       \* single shot timers pending, per slot
  loops,        \* nested event loops, innermost last
  outcome,      \* history: result of each unit since page "choose" was left
  halted        \* history: the slot Stop has run since Next was clicked

modeVars   == <<visible, compileOnly, rejectDialogFlag, canceledAll, batch>>
pageVars   == <<page, op, complete, finished>>
buttonVars == <<next, back, finishOn, stopOn, stopSlot>>
boxVars    == <<compileBox, installBox>>
listVars   == <<compileList, installList>>
jobVars    == <<proc, installer, sessions>>
histVars   == <<outcome, halted>>
vars == <<modeVars, pageVars, buttonVars, boxVars, listVars, cur, jobVars,
          timers, loops, histVars>>

Pages == {"choose", "work"}
Jobs  == {"copy", "activate", "script"}
Idle  == [run |-> FALSE, unit |-> NoObject, slot |-> "compile", stopped |-> FALSE, killed |-> FALSE]
NoInstaller == [alive |-> FALSE, fw |-> NoObject, jobs |-> <<>>, session |-> "none"]
Session(f, job) == [fw |-> f, job |-> job]

\* The firewalls unit u produces scripts for, and the unit that does it for f.
Targets(u) == IF u \in Clusters THEN Member[u] ELSE {u}
Owners(f)  == {u \in Units : f \in Targets(u)}

Plus(t)  == [timers EXCEPT ![t] = @ + 1]
Minus(t) == [timers EXCEPT ![t] = @ - 1]

\* A handler enters a loop in showPage(), runCompiler() etc. (at) for object
\* obj; b: showPage is on the stack and calls setBackEnabled(1, true) at its end.
Frame(at, obj, b) == [at |-> at, obj |-> obj, back |-> b]
Enter(k, at, obj, b) == Len(k) < MaxNesting /\ loops' = Append(k, Frame(at, obj, b))
Top  == loops[Len(loops)]
Rest == SubSeq(loops, 1, Len(loops) - 1)
In(at) == loops # <<>> /\ Top.at = at
Modal == \E i \in DOMAIN loops : loops[i].at = "options"
SetBack(b) == back' = (back \/ b)

Busy == proc.run \/ loops # <<>> \/ sessions # {} \/ \E t \in DOMAIN timers : timers[t] > 0
CanClick == visible /\ ~Modal /\ (loops = <<>> \/ "click in loop" \in Moves)

Init ==
  /\ visible = FALSE /\ compileOnly = TRUE /\ rejectDialogFlag = FALSE
  /\ canceledAll = FALSE /\ batch = FALSE
  /\ page = "choose" /\ op = "compile" /\ complete = FALSE /\ finished = FALSE
  /\ next = FALSE /\ back = TRUE /\ finishOn = [p \in Pages |-> FALSE]
  /\ stopOn = FALSE /\ stopSlot = "none"
  /\ compileBox = {} /\ installBox = {} /\ compileList = {} /\ installList = {}
  /\ cur = NoObject /\ proc = Idle /\ installer = NoInstaller /\ sessions = {}
  /\ timers = [t \in {"compile", "install", "kill"} |-> 0] /\ loops = <<>>
  /\ outcome = [x \in Objects |-> "none"] /\ halted = "no"

-----------------------------------------------------------------------------
(* showPage *)

(* Mutant: clusters get a box for install too. *)
FillTableClusters(only) ==
  /\ compileBox' \in SUBSET Units
  /\ installBox' \in IF only THEN {{}} ELSE SUBSET Objects

(* fillCompileSelectList: the boxes of what needs compile and install.     *)
(* The time stamps that decide are left out.                               *)
FillTable(only) ==
  /\ compileBox' \in SUBSET Units
  /\ installBox' \in IF only THEN {{}} ELSE SUBSET Firewalls

(* Mutant: compile_complete survives the return to the first page. *)
ShowPageChooseComplete(only) ==
  /\ page' = "choose" /\ finished' = FALSE /\ complete' = complete
  /\ FillTable(only)
  /\ outcome' = [x \in Objects |-> "none"]

ShowPageChoose(only) ==
  /\ page' = "choose" /\ finished' = FALSE /\ complete' = FALSE
  /\ FillTable(only)
  /\ outcome' = [x \in Objects |-> "none"]

(* showPage(COMPILE_INSTALL) with page_1_op = o and compile_complete = c,  *)
(* up to the loop it enters.  The test for a successfully compiled         *)
(* firewall before setNextEnabled is true whatever the status is.  INSPECT *)
(* returns early if the files are gone.                                    *)
ShowPageWork(o, c, k, b) ==
  /\ compileList' = compileBox /\ installList' = installBox
  /\ IF compileBox = {} /\ installBox = {}
     THEN /\ ShowPageChoose(compileOnly)
          /\ op' = o /\ next' = FALSE /\ back' = b /\ loops' = k
     ELSE /\ page' = "work" /\ complete' = c
          /\ op' = IF compileBox = {} THEN "install" ELSE o
          /\ UNCHANGED <<finished, boxVars, outcome>>
          /\ \/ /\ op' = "compile" /\ c
                /\ next' = TRUE /\ back' = TRUE /\ loops' = k
             \/ /\ op' = "compile" /\ ~c
                /\ next' = FALSE /\ back' = FALSE
                /\ Enter(k, "compile page", NoObject, TRUE)
             \/ /\ op' = "install"
                /\ next' = FALSE
                /\ IF installBox = {}
                     THEN loops' = k /\ back' = b
                     ELSE Enter(k, "install page", NoObject, b) /\ back' = FALSE
             \/ /\ op' = "inspect" /\ loops' = k
                /\ \E files \in BOOLEAN :
                     next' = (files /\ ~compileOnly) /\ back' = (files \/ b)

-----------------------------------------------------------------------------
(* The compile phase *)

(* executeCommand: start() on a process that runs is ignored, and          *)
(* waitForStarted() then says it has started.                              *)
ExecuteCommand(x, slot, starts) ==
  /\ stopOn' = TRUE
  /\ proc' = IF proc.run \/ ~starts
               THEN [proc EXCEPT !.slot = slot]
               ELSE [Idle EXCEPT !.run = TRUE, !.unit = x, !.slot = slot]

CommandFails(starts) == ~proc.run /\ ~starts

(* Mutant: the next unit is scheduled when the compiler has started. *)
RunCompilerWrongTest ==
  /\ In("compiler")
  /\ LET u == Top.obj IN
     /\ u \notin NoCompiler
     /\ stopSlot' = "compile"
     /\ ExecuteCommand(u, "compile", u \notin NotStartable)
     /\ timers' = Plus("compile")
     /\ UNCHANGED outcome
  /\ SetBack(Top.back) /\ loops' = Rest
  /\ UNCHANGED <<modeVars, pageVars, next, finishOn, boxVars, listVars, cur,
                 installer, sessions, halted>>

(* runCompiler after its processEvents().  Without compiler arguments it   *)
(* returns and nothing goes on.                                            *)
RunCompiler ==
  /\ In("compiler")
  /\ LET u == Top.obj IN
     \/ /\ u \in NoCompiler
        /\ UNCHANGED <<stopOn, stopSlot, proc, timers, outcome>>
     \/ /\ u \notin NoCompiler
        /\ stopSlot' = "compile"
        /\ ExecuteCommand(u, "compile", u \notin NotStartable)
        /\ IF CommandFails(u \notin NotStartable)
             THEN /\ timers' = Plus("compile")
                  /\ outcome' = [outcome EXCEPT ![cur] = "error"]
             ELSE UNCHANGED <<timers, outcome>>
  /\ SetBack(Top.back) /\ loops' = Rest
  /\ UNCHANGED <<modeVars, pageVars, next, finishOn, boxVars, listVars, cur,
                 installer, sessions, halted>>

(* mainLoopCompile: next unit, or the end of the phase. *)
MainLoopCompile(k, b) ==
  \/ /\ finished
     /\ SetBack(b) /\ loops' = k
     /\ UNCHANGED <<pageVars, next, finishOn, stopOn, boxVars, listVars, cur, outcome>>
  \/ /\ ~finished /\ compileList # {}
     /\ \E u \in compileList :
          /\ compileList' = compileList \ {u} /\ cur' = u
          /\ Enter(k, "compiler", u, b)
     /\ stopOn' = TRUE
     /\ UNCHANGED <<pageVars, next, back, finishOn, boxVars, installList, outcome>>
  \/ /\ ~finished /\ compileList = {} /\ compileOnly
     /\ installList' = installBox
     /\ complete' = TRUE /\ finished' = TRUE
     /\ finishOn' = [finishOn EXCEPT ![page] = TRUE] /\ stopOn' = FALSE
     /\ SetBack(b) /\ loops' = k
     /\ UNCHANGED <<page, op, next, boxVars, compileList, cur, outcome>>
  \/ /\ ~finished /\ compileList = {} /\ ~compileOnly
     /\ ShowPageWork(op, TRUE, k, b)
     /\ stopOn' = FALSE
     /\ UNCHANGED <<finishOn, cur>>

CompileTimer ==
  /\ timers["compile"] > 0 /\ timers' = Minus("compile")
  /\ MainLoopCompile(loops, FALSE)
  /\ UNCHANGED <<modeVars, stopSlot, jobVars, halted>>

CompilePage ==
  /\ In("compile page")
  /\ MainLoopCompile(Rest, TRUE)
  /\ UNCHANGED <<modeVars, stopSlot, jobVars, timers, halted>>

BlockInstall(us) == installBox' = installBox \ UNION {Targets(u) : u \in us}

(* Mutant: a failed compile leaves the firewall checked for install. *)
CompilerFinishedUnblocked(ok) ==
  /\ timers' = Plus("compile")
  /\ UNCHANGED <<visible, rejectDialogFlag, installBox>>
  /\ outcome' = [outcome EXCEPT ![cur] = IF ok THEN "ok" ELSE "error"]

(* Mutant: the main loop is not called again. *)
CompilerFinishedForgets(ok) ==
  /\ UNCHANGED <<visible, rejectDialogFlag, timers>>
  /\ IF ok THEN UNCHANGED installBox ELSE BlockInstall({cur})
  /\ outcome' = [outcome EXCEPT ![cur] = IF ok THEN "ok" ELSE "error"]

(* compilerFinished.  Success and warning are one. *)
CompilerFinished(ok) ==
  IF rejectDialogFlag
  THEN /\ rejectDialogFlag' = FALSE /\ visible' = FALSE
       /\ UNCHANGED <<installBox, outcome, timers>>
  ELSE /\ UNCHANGED <<visible, rejectDialogFlag>>
       /\ IF ok THEN UNCHANGED installBox ELSE BlockInstall({cur})
       /\ outcome' = [outcome EXCEPT ![cur] = IF ok THEN "ok" ELSE "error"]
       /\ timers' = Plus("compile")

-----------------------------------------------------------------------------
(* The install phase *)

(* The options are known: runInstaller(f) up to its processEvents().  The  *)
(* address may be unusable or the ssh path unset.                          *)
OptionsKnown(f, k, b, t) ==
  \/ /\ timers' = [t EXCEPT !["install"] = @ + 1] /\ SetBack(b) /\ loops' = k
  \/ /\ timers' = t /\ UNCHANGED back /\ Enter(k, "installer", f, b)

(* Mutant: "cancel all" ends only the firewall it was answered for. *)
MainLoopInstallIgnoresCancel(k, b, t) ==
  /\ ~finished
  /\ \/ /\ installList # {}
        /\ \E f \in installList :
             /\ installList' = installList \ {f} /\ cur' = f
             /\ IF batch THEN OptionsKnown(f, k, b, t)
                ELSE Enter(k, "options", f, b) /\ timers' = t /\ UNCHANGED back
        /\ stopOn' = TRUE
        /\ UNCHANGED <<finished, finishOn>>
     \/ /\ installList = {}
        /\ installList' = {} /\ finished' = TRUE
        /\ finishOn' = [finishOn EXCEPT ![page] = TRUE] /\ stopOn' = FALSE
        /\ timers' = t /\ SetBack(b) /\ loops' = k
        /\ UNCHANGED cur

(* mainLoopInstall.  In batch mode the options dialog is not shown again.  *)
MainLoopInstall(k, b, t) ==
  \/ /\ finished
     /\ timers' = t /\ SetBack(b) /\ loops' = k
     /\ UNCHANGED <<finished, finishOn, stopOn, installList, cur>>
  \/ /\ ~finished /\ installList # {} /\ ~canceledAll
     /\ \E f \in installList :
          /\ installList' = installList \ {f} /\ cur' = f
          /\ IF batch THEN OptionsKnown(f, k, b, t)
             ELSE Enter(k, "options", f, b) /\ timers' = t /\ UNCHANGED back
     /\ stopOn' = TRUE
     /\ UNCHANGED <<finished, finishOn>>
  \/ /\ ~finished /\ (installList = {} \/ canceledAll)
     /\ installList' = {} /\ finished' = TRUE
     /\ finishOn' = [finishOn EXCEPT ![page] = TRUE] /\ stopOn' = FALSE
     /\ timers' = t /\ SetBack(b) /\ loops' = k
     /\ UNCHANGED cur

InstallTimer ==
  /\ timers["install"] > 0
  /\ MainLoopInstall(loops, FALSE, Minus("install"))
  /\ UNCHANGED <<modeVars, page, op, complete, next, stopSlot, boxVars, compileList, jobVars, histVars>>

InstallPage ==
  /\ In("install page")
  /\ MainLoopInstall(Rest, Top.back, timers)
  /\ UNCHANGED <<modeVars, page, op, complete, next, stopSlot, boxVars, compileList, jobVars, histVars>>

(* getInstOptions: the user accepts, cancels, or, with more firewalls to  *)
(* come, accepts for all or cancels all.                                   *)
OptionsAnswered ==
  /\ In("options")
  /\ \/ /\ batch' \in {FALSE, installList # {}} /\ OptionsKnown(Top.obj, Rest, Top.back, timers)
        /\ UNCHANGED canceledAll
     \/ /\ canceledAll' \in {canceledAll, canceledAll \/ installList # {}}
        /\ timers' = Plus("install") /\ SetBack(Top.back) /\ loops' = Rest
        /\ UNCHANGED batch
  /\ UNCHANGED <<visible, compileOnly, rejectDialogFlag, pageVars, next, finishOn, stopOn,
                 stopSlot, boxVars, listVars, cur, jobVars, histVars>>

(* FirewallInstaller::runJobs up to the loop of the job it takes. *)
RunJobs(f, jobs, k, b) ==
  IF finished
  THEN /\ installer' = [alive |-> TRUE, fw |-> f, jobs |-> jobs, session |-> "none"]
       /\ SetBack(b) /\ loops' = k /\ UNCHANGED timers
  ELSE /\ Enter(k, Head(jobs), f, b)
       /\ installer' = [alive |-> TRUE, fw |-> f, jobs |-> Tail(jobs), session |-> "none"]
       /\ UNCHANGED <<timers, back>>

(* packInstallJobsList: a script, or files to copy and a command to run. *)
Plan(f) == IF f \in Scripted THEN <<"script">> ELSE <<"copy", "activate">>

(* The rest of runInstaller: the manifest may be missing or have no files. *)
RunInstaller ==
  /\ In("installer")
  /\ LET f == Top.obj IN
     \/ /\ stopSlot' = "install"
        /\ RunJobs(f, Plan(f), Rest, Top.back)
     \/ /\ f \notin Scripted
        /\ installer' = [NoInstaller EXCEPT !.alive = TRUE, !.fw = f]
        /\ timers' = Plus("install") /\ SetBack(Top.back) /\ loops' = Rest
        /\ UNCHANGED stopSlot
  /\ UNCHANGED <<modeVars, pageVars, next, finishOn, stopOn, boxVars, listVars,
                 cur, proc, sessions, histVars>>

(* executeExternalInstallScript after its processEvents().  The process is *)
(* the dialog's, so it is used even when the installer has been deleted.   *)
RunScript ==
  /\ In("script")
  /\ \E starts \in BOOLEAN :
       /\ ExecuteCommand(Top.obj, "install", starts)
       /\ timers' = IF CommandFails(starts) THEN Plus("install") ELSE timers
  /\ SetBack(Top.back) /\ loops' = Rest
  /\ UNCHANGED <<modeVars, pageVars, next, finishOn, stopSlot, boxVars, listVars,
                 cur, installer, sessions, histVars>>

(* Mutant: startSession is taken to return when the session has ended. *)
RunSessionSynchronous ==
  /\ In("copy") \/ In("activate")
  /\ sessions' = sessions \cup {Session(Top.obj, Top.at)}
  /\ installer' = [installer EXCEPT !.session = Top.at]
  /\ timers' = Plus("install")
  /\ SetBack(Top.back) /\ loops' = Rest
  /\ UNCHANGED <<modeVars, pageVars, next, finishOn, stopOn, stopSlot, boxVars, listVars,
                 cur, proc, histVars>>

(* copyFile and executeSession after their processEvents(): the session    *)
(* starts.  If the installer was deleted in the loop the code goes on with *)
(* freed memory: the session starts all the same, or nothing does.         *)
RunSession ==
  /\ In("copy") \/ In("activate")
  /\ LET s == Session(Top.obj, Top.at) IN
     IF installer.alive /\ installer.fw = Top.obj
     THEN sessions' = sessions \cup {s} /\ installer' = [installer EXCEPT !.session = Top.at]
     ELSE sessions' \in {sessions, sessions \cup {s}} /\ UNCHANGED installer
  /\ SetBack(Top.back) /\ loops' = Rest
  /\ UNCHANGED <<modeVars, pageVars, next, finishOn, stopOn, stopSlot, boxVars, listVars,
                 cur, proc, timers, histVars>>

IsRunning(s) == installer.alive /\ installer.session = s.job /\ installer.fw = s.fw

(* A session ends: after a copy runJobs, if the installer is still there;  *)
(* after the activation, or an error, installerSuccess or installerError.  *)
SessionEnds(s, ok) ==
  /\ s \in sessions /\ sessions' = sessions \ {s}
  /\ IF ok /\ s.job = "copy"
     THEN IF IsRunning(s)
          THEN RunJobs(s.fw, installer.jobs, loops, FALSE)
          ELSE UNCHANGED <<installer, loops, back, timers>>
     ELSE timers' = Plus("install") /\ UNCHANGED <<installer, loops, back>>
  /\ UNCHANGED <<modeVars, pageVars, next, finishOn, stopOn, stopSlot, boxVars, listVars,
                 cur, proc, histVars>>

(* The process ends.  installerFinished first runs an event loop. *)
ProcessEnds ==
  /\ proc.run
  /\ proc' = [Idle EXCEPT !.slot = proc.slot]
  /\ \E ok \in IF proc.killed THEN {FALSE} ELSE BOOLEAN :
       \/ /\ proc.slot = "compile" /\ CompilerFinished(ok) /\ UNCHANGED loops
       \/ /\ proc.slot = "install" /\ Enter(loops, "script ended", proc.unit, FALSE)
          /\ UNCHANGED <<visible, rejectDialogFlag, installBox, outcome, timers>>
  /\ UNCHANGED <<compileOnly, canceledAll, batch, pageVars, buttonVars, compileBox, listVars,
                 cur, installer, sessions, halted>>

ScriptEnded ==
  /\ In("script ended")
  /\ timers' = Plus("install") /\ SetBack(Top.back) /\ loops' = Rest
  /\ UNCHANGED <<modeVars, pageVars, next, finishOn, stopOn, stopSlot, boxVars, listVars,
                 cur, jobVars, histVars>>

KillTimer ==
  /\ timers["kill"] > 0 /\ timers' = Minus("kill")
  /\ proc' = [proc EXCEPT !.killed = proc.run]
  /\ UNCHANGED <<modeVars, pageVars, buttonVars, boxVars, listVars, cur, installer,
                 sessions, loops, histVars>>

-----------------------------------------------------------------------------
(* The user *)

(* A box of the table is clicked.  In a wizard that only compiles the      *)
(* column of the install boxes is hidden.                                  *)
ToggleBox ==
  /\ CanClick /\ page = "choose"
  /\ \/ /\ \E u \in Units : compileBox' = (compileBox \ {u}) \cup ({u} \ compileBox)
        /\ UNCHANGED installBox
     \/ /\ ~compileOnly
        /\ \E f \in Firewalls : installBox' = (installBox \ {f}) \cup ({f} \ installBox)
        /\ UNCHANGED compileBox
  /\ UNCHANGED <<modeVars, pageVars, buttonVars, listVars, cur, jobVars, timers, loops, histVars>>

(* setSelectStateAll sets the hidden boxes too. *)
SelectAll ==
  /\ CanClick /\ page = "choose" /\ "select all" \in Moves
  /\ \E all \in BOOLEAN :
       /\ compileBox' = IF all THEN Units ELSE {}
       /\ installBox' = IF all THEN Firewalls ELSE {}
  /\ UNCHANGED <<modeVars, pageVars, buttonVars, listVars, cur, jobVars, timers, loops, histVars>>

NextClicked ==
  /\ CanClick
  /\ \/ /\ page = "choose" /\ compileBox \cup installBox # {}
        /\ ShowPageWork("compile", complete, loops, FALSE)
     \/ /\ page = "work" /\ next /\ op # "install"
        /\ ShowPageWork("install", complete, loops, FALSE)
  /\ halted' = "no"
  /\ UNCHANGED <<modeVars, finishOn, stopOn, stopSlot, cur, jobVars, timers>>

BackClicked ==
  /\ CanClick /\ page = "work" /\ back
  /\ \/ /\ op = "compile" /\ (Busy => "back while busy" \in Moves)
        /\ ShowPageChoose(compileOnly)
        /\ UNCHANGED <<op, next, back, listVars, loops>>
     \/ /\ op = "inspect"
        /\ ShowPageWork("compile", complete, loops, FALSE)
  /\ UNCHANGED <<modeVars, finishOn, stopOn, stopSlot, cur, jobVars, timers, halted>>

InspectFiles ==
  /\ CanClick /\ page = "work" /\ op = "compile" /\ complete
  /\ ShowPageWork("inspect", complete, loops, FALSE)
  /\ UNCHANGED <<modeVars, finishOn, stopOn, stopSlot, cur, jobVars, timers, halted>>

FinishClicked ==
  /\ CanClick /\ finishOn[page]
  /\ finished' = TRUE /\ visible' = FALSE
  /\ UNCHANGED <<compileOnly, rejectDialogFlag, canceledAll, batch, page, op, complete, buttonVars,
                 boxVars, listVars, cur, jobVars, timers, loops, histVars>>

(* Mutant: runJobs does not ask whether the wizard has finished. *)
TerminateInstallerUnasked(t, fin) ==
  LET s == Session(installer.fw, installer.session) IN
  /\ installer' = NoInstaller
  /\ IF ~installer.alive \/ s \notin sessions
     THEN timers' = t /\ sessions' = sessions
     ELSE \/ timers' = [t EXCEPT !["install"] = @ + 1] /\ sessions' = sessions \ {s}
          \/ /\ s.job = "copy" /\ timers' = t
             /\ sessions' = (sessions \ {s}) \cup {Session(s.fw, Head(installer.jobs))}

(* installer->terminate() and its deletion, with the timers t already set. *)
(* SSHSession::terminate waits for the end of a running session: the       *)
(* session's signals arrive here.  It fails; or it does not end in time    *)
(* and sends no signal; or it had just succeeded, and then runJobs takes   *)
(* the next job unless the wizard has finished (fin).  The loop that       *)
(* runJobs enters is left out here.                                        *)
TerminateInstaller(t, fin) ==
  LET s == Session(installer.fw, installer.session) IN
  /\ installer' = NoInstaller
  /\ IF ~installer.alive \/ s \notin sessions
     THEN timers' = t /\ sessions' = sessions
     ELSE \/ timers' = [t EXCEPT !["install"] = @ + 1] /\ sessions' = sessions \ {s}
          \/ timers' = t /\ sessions' = sessions \ {s}
          \/ /\ s.job = "copy" /\ ~fin /\ timers' = t
             /\ sessions' = (sessions \ {s}) \cup {Session(s.fw, Head(installer.jobs))}

Signal(sig) == proc' = IF proc.run THEN [proc EXCEPT !.stopped = TRUE, !.killed = (@ \/ sig = "kill")]
                       ELSE proc

(* Mutant: the list of what is left to compile is not cleared. *)
StopCompileCurrent ==
  /\ stopSlot = "compile" /\ stopSlot' = "none" /\ stopOn' = FALSE
  /\ Signal("term") /\ timers' = Plus("kill")
  /\ BlockInstall({cur})
  /\ UNCHANGED <<finishOn, outcome, compileList, installList, installer, sessions>>

StopCompile ==
  /\ stopSlot = "compile" /\ stopSlot' = "none" /\ stopOn' = FALSE
  /\ Signal("term") /\ timers' = Plus("kill")
  /\ BlockInstall({cur} \cup compileList)
  /\ outcome' = [x \in Objects |-> IF x \in compileList THEN "error" ELSE outcome[x]]
  /\ compileList' = {}
  /\ UNCHANGED <<finishOn, installList, installer, sessions>>

StopInstall ==
  /\ stopSlot = "install" /\ stopSlot' = "none" /\ stopOn' = FALSE
  /\ Signal("term")
  /\ TerminateInstaller(Plus("kill"), finished)
  /\ installList' = {}
  /\ finishOn' = [finishOn EXCEPT ![page] = TRUE]
  /\ UNCHANGED <<installBox, outcome, compileList>>

StopClicked ==
  /\ CanClick /\ page = "work" /\ stopOn
  /\ op = "install" /\ stopSlot = "compile" => "early stop" \in Moves
  /\ StopCompile \/ StopInstall
  /\ halted' = stopSlot
  /\ UNCHANGED <<modeVars, pageVars, next, back, compileBox, cur, loops>>

CancelClicked ==
  /\ CanClick
  /\ finished' = TRUE /\ visible' = FALSE
  /\ rejectDialogFlag' = (rejectDialogFlag \/ proc.run)
  /\ Signal("kill")
  /\ TerminateInstaller(timers, TRUE)
  /\ UNCHANGED <<compileOnly, canceledAll, batch, page, op, complete, buttonVars, boxVars,
                 listVars, cur, loops, histVars>>

(* closeEvent stops what runs, not the batch. *)
CloseWindow ==
  /\ CanClick /\ "hide" \in Moves
  /\ visible' = FALSE
  /\ Signal("kill")
  /\ TerminateInstaller(timers, finished)
  /\ UNCHANGED <<compileOnly, rejectDialogFlag, canceledAll, batch, pageVars, buttonVars, boxVars,
                 listVars, cur, loops, histVars>>

(* The Escape key: QDialog::reject() only hides the window. *)
EscapePressed ==
  /\ CanClick /\ "hide" \in Moves
  /\ visible' = FALSE
  /\ UNCHANGED <<compileOnly, rejectDialogFlag, canceledAll, batch, pageVars, buttonVars, boxVars,
                 listVars, cur, jobVars, timers, loops, histVars>>

(* FWWindow::compile and install show the one wizard there is.  When it is *)
(* visible only canceledAll is reset.  Bound: not while a session runs.    *)
(* The user is slower than a timer of 0 ms and the end of a killed process.*)
Show(only) ==
  /\ loops = <<>> /\ sessions = {} /\ timers["compile"] = 0 /\ ~proc.killed
  /\ Busy => "show while busy" \in Moves
  /\ canceledAll' = FALSE
  /\ IF visible
     THEN UNCHANGED <<visible, compileOnly, rejectDialogFlag, batch, pageVars, finishOn, stopOn,
                      boxVars, listVars, installer, histVars>>
     ELSE /\ visible' = TRUE /\ compileOnly' = only
          /\ rejectDialogFlag' = FALSE /\ batch' = FALSE
          /\ installer' = NoInstaller /\ op' = "compile"
          /\ compileList' = {} /\ installList' = {}
          /\ finishOn' = [p \in Pages |-> FALSE] /\ stopOn' = FALSE
          /\ ShowPageChoose(only)
          /\ halted' = "no"
  /\ UNCHANGED <<next, back, stopSlot, cur, proc, sessions, timers, loops>>

-----------------------------------------------------------------------------
LoopReturns ==
  \/ CompilePage
  \/ InstallPage
  \/ RunCompiler
  \/ RunInstaller
  \/ RunScript
  \/ RunSession
  \/ ScriptEnded

TimerFires == CompileTimer \/ InstallTimer \/ KillTimer

SomeSessionEnds == \E s \in sessions, ok \in BOOLEAN : SessionEnds(s, ok)

User ==
  \/ ToggleBox
  \/ SelectAll
  \/ NextClicked
  \/ BackClicked
  \/ InspectFiles
  \/ FinishClicked
  \/ StopClicked
  \/ CancelClicked
  \/ CloseWindow
  \/ EscapePressed
  \/ \E only \in BOOLEAN : Show(only)

Next == LoopReturns \/ OptionsAnswered \/ TimerFires \/ SomeSessionEnds \/ ProcessEnds \/ User

Spec == Init /\ [][Next]_vars

(* Qt returns from processEvents() and fires timers; compilers, scripts    *)
(* and ssh clients end; the user answers a modal dialog.  Nothing is       *)
(* assumed about clicks in the wizard.                                     *)
Fairness ==
  /\ WF_vars(LoopReturns) /\ WF_vars(OptionsAnswered)
  /\ WF_vars(CompileTimer) /\ WF_vars(InstallTimer) /\ WF_vars(KillTimer)
  /\ WF_vars(SomeSessionEnds) /\ WF_vars(ProcessEnds)

FairSpec == Spec /\ Fairness

-----------------------------------------------------------------------------
TypeOK ==
  /\ {visible, compileOnly, rejectDialogFlag, canceledAll, batch, complete, finished,
      next, back, stopOn} \subseteq BOOLEAN
  /\ halted \in {"no", "compile", "install"}
  /\ page \in Pages /\ op \in {"compile", "install", "inspect"}
  /\ finishOn \in [Pages -> BOOLEAN] /\ stopSlot \in {"none", "compile", "install"}
  /\ compileBox \subseteq Units /\ compileList \subseteq Units
  /\ installBox \subseteq Firewalls /\ installList \subseteq Firewalls
  /\ cur \in Objects \cup {NoObject}
  /\ proc \in [run : BOOLEAN, unit : Objects \cup {NoObject}, slot : {"compile", "install"},
                stopped : BOOLEAN, killed : BOOLEAN]
  /\ installer.alive \in BOOLEAN /\ installer.fw \in Firewalls \cup {NoObject}
  /\ installer.jobs \in Seq(Jobs) /\ installer.session \in Jobs \cup {"none"}
  /\ sessions \subseteq [fw : Firewalls, job : Jobs]
  /\ timers \in [{"compile", "install", "kill"} -> Nat]
  /\ Len(loops) <= MaxNesting
  /\ outcome \in [Objects -> {"none", "ok", "error"}]

(* Whatever ends, process or session, was started for the firewall in      *)
(* cnf.fwobj, to which the slots attribute its result.                     *)
ResultGoesToItsUnit ==
  /\ proc.run => proc.unit = cur
  /\ \A s \in sessions : s.fw = cur

(* The wizard runs one compiler, script or ssh session at a time. *)
OneJobAtATime ==
  \A s \in sessions : ~proc.run /\ sessions = {s}

(* When the wizard says the compile phase is over, every checked unit has  *)
(* a result of this pass.                                                  *)
CompleteMeansCompiled ==
  page = "work" /\ op = "compile" /\ complete =>
    \A u \in compileBox : outcome[u] # "none"

(* No firewall is installed whose own compile, or that of its cluster,     *)
(* failed or was cancelled in this pass.                                   *)
FailedNotInstalled ==
  \A i \in DOMAIN loops :
    loops[i].at \in Jobs \cup {"options", "installer"} =>
      \A u \in Owners(loops[i].obj) : outcome[u] # "error"

Begins ==
  \/ ~proc.run /\ proc'.run
  \/ ~(sessions' \subseteq sessions)
  \/ /\ Len(loops') > 0 /\ loops' # loops
     /\ loops'[Len(loops')].at \in {"compiler", "options", "installer"}

(* Nothing is begun by a wizard that was finished or cancelled, after Stop  *)
(* until the user clicks Next again, or, after "cancel all", for another    *)
(* firewall of the batch, whatever timer, process or session ends late.     *)
StoppedStartsNothing ==
  [][Begins => /\ ~finished'
               /\ halted = op => NextClicked
               /\ ~(canceledAll /\ canceledAll' /\ op = "install")]_vars

(* FirewallInstaller.cpp:536: "If user clicked Cancel or Finish button     *)
(* (...), runJobs() should not continue".  The code does not keep this when *)
(* Cancel is clicked in the event loop of a job (README).                  *)
FinishedRunsNoJob == [][finished' => sessions' \subseteq sessions]_vars

(* instDialog.cpp:474: "enable "Next" button only if there is at least one *)
(* firewall that was successfully compiled".  The code does not keep this  *)
(* (README).                                                               *)
NextNeedsSuccess ==
  page = "work" /\ op = "compile" /\ complete /\ next =>
    \E u \in compileBox : outcome[u] = "ok"

(* A batch ends: it completes, or the user leaves the page or stops it. *)
BatchEnds ==
  /\ (visible /\ page = "work" /\ op = "compile") ~> (complete \/ page = "choose" \/ ~visible)
  /\ (page = "work" /\ op = "install" /\ installList # {}) ~> (finished \/ halted # "no" \/ ~visible)
=============================================================================
