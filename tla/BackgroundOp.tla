----------------------------- MODULE BackgroundOp -----------------------------
(***************************************************************************)
(* libfwbuilder's BackgroundOp: an operation object owned by a GUI dialog, *)
(* run by a detached thread that may outlive it.  The dialog is            *)
(* newFirewallDialog or newHostDialog (same code): it starts one           *)
(* SNMP_interface_query at a time, polls it from a zero-timeout timer and  *)
(* deletes it when it has finished, or when the dialog is destroyed.       *)
(*                                                                         *)
(* Two threads share, for every operation o: the object itself, the flag   *)
(* iamdead (a mutex and a Boolean that outlive the object), the logger.    *)
(* The GUI thread's calls are split where the other thread can run between *)
(* two of their accesses.  A critical section that only reads or writes    *)
(* the flag it locks is one step.                                          *)
(*                                                                         *)
(* connected and error are left out: nothing calls disconnect(), and the   *)
(* only reader of error (DiscoveryDruid) is not part of the build.  The    *)
(* accesses to them are kept, as the critical sections they happen in.     *)
(***************************************************************************)
EXTENDS Naturals, FiniteSets

CONSTANTS Ops,       \* operation objects, each created at most once
          NoOp,      \* the null pointer
          MaxLines   \* bound: lines run_impl writes to one logger

ASSUME NoOpAssumption == NoOp \notin Ops
ASSUME MaxLinesAssumption == MaxLines \in Nat

VARIABLES
  obj,       \* the BackgroundOp object: none, alive, dying (in ~BackgroundOp), deleted
  running,   \* BackgroundOp::running
  stop,      \* value of *stop_program
  isdead,    \* value of *iamdead
  holder,    \* does the thread hold the mutex of *iamdead
  flagMem,   \* memory of *iamdead: none, live, freed
  logMem,    \* memory of the QueueLogger: none, live, freed
  written,   \* lines pushed to the logger
  shown,     \* lines the dialog took from the logger
  pc,        \* control of background_thread, "none" before pthread_create
  q, logger, \* the dialog's pointers, NoOp for NULL
  timer,     \* the dialog's timer is active
  polled,    \* snmpPollCompleted
  dialog,    \* the modal dialog exists
  gui,       \* control of the GUI thread, "idle" in the event loop
  caller     \* who runs `delete q': monitor() or the dialog's destructor

opVars     == <<obj, running, stop, isdead, flagMem>>
threadVars == <<holder, pc>>
logVars    == <<logMem, written, shown>>
dlgVars    == <<q, logger, timer, polled, dialog>>
guiVars    == <<gui, caller>>
vars       == <<opVars, threadVars, logVars, dlgVars, guiVars>>

GuiPoints == {"idle", "askRunning", "results", "dtorStop", "dtorFlag", "dtorFree"}

ThreadPoints == {"none", "sysinfo", "interfaces", "caught", "setError",
                 "finish", "done", "clear", "wait", "connected", "ended"}

Pending(o) == written[o] - shown[o]

Init ==
  /\ obj     = [o \in Ops |-> "none"]
  /\ running = [o \in Ops |-> FALSE]
  /\ stop    = [o \in Ops |-> FALSE]
  /\ isdead  = [o \in Ops |-> FALSE]
  /\ holder  = [o \in Ops |-> FALSE]
  /\ flagMem = [o \in Ops |-> "none"]
  /\ logMem  = [o \in Ops |-> "none"]
  /\ written = [o \in Ops |-> 0]
  /\ shown   = [o \in Ops |-> 0]
  /\ pc      = [o \in Ops |-> "none"]
  /\ q = NoOp /\ logger = NoOp
  /\ timer = FALSE /\ polled = FALSE /\ dialog = TRUE
  /\ gui = "idle" /\ caller = "monitor"

-----------------------------------------------------------------------------
(* The GUI thread. *)

(* Mutant: the constructor leaves q uninitialised. *)
OpenDialogUninitialised ==
  /\ gui = "idle" /\ ~dialog
  /\ dialog' = TRUE /\ q' = "uninitialised" /\ logger' = NoOp
  /\ timer' = FALSE /\ polled' = FALSE
  /\ UNCHANGED <<opVars, threadVars, logVars, guiVars>>

(* The constructor of the dialog; it is shown with exec().  logger is not  *)
(* initialised: it may be anything.                                        *)
OpenDialog ==
  /\ gui = "idle" /\ ~dialog
  /\ dialog' = TRUE /\ q' = NoOp /\ logger' \in Ops \cup {NoOp}
  /\ timer' = FALSE /\ polled' = FALSE
  /\ UNCHANGED <<opVars, threadVars, logVars, guiVars>>

(* getInterfacesViaSNMP returns early: no community, no address. *)
PollRefused ==
  /\ gui = "idle" /\ dialog /\ q = NoOp
  /\ polled' = FALSE
  /\ UNCHANGED <<opVars, threadVars, logVars, q, logger, timer, dialog, guiVars>>

(* What start_operation does before it creates the thread, on an object    *)
(* the constructor has just initialised.                                   *)
NewOperation(o) ==
  /\ obj'     = [obj EXCEPT ![o] = "alive"]
  /\ stop'    = [stop EXCEPT ![o] = FALSE]
  /\ isdead'  = [isdead EXCEPT ![o] = FALSE]
  /\ flagMem' = [flagMem EXCEPT ![o] = "live"]
  /\ running' = [running EXCEPT ![o] = TRUE]
  /\ logMem'  = [logMem EXCEPT ![o] = "live"]
  /\ UNCHANGED <<holder, written, shown>>

(* getInterfacesViaSNMP up to its end: start_operation returns the logger, *)
(* or throws because pthread_create failed; the dialog ignores that.       *)
StartPoll(o) ==
  /\ gui = "idle" /\ dialog /\ q = NoOp /\ obj[o] = "none"
  /\ NewOperation(o)
  /\ q' = o /\ timer' = TRUE /\ polled' = FALSE
  /\ \/ pc' = [pc EXCEPT ![o] = "sysinfo"] /\ logger' = o
     \/ pc' = pc /\ logger' = NoOp
  /\ UNCHANGED <<dialog, guiVars>>

(* monitor(): show one line, or go on to ask whether q is running.  With a *)
(* null pointer it returns at once, which changes nothing.                 *)
MonitorReady ==
  /\ gui = "idle" /\ dialog /\ timer
  /\ logger # NoOp /\ q # NoOp
  /\ IF Pending(logger) > 0
       THEN shown' = [shown EXCEPT ![logger] = @ + 1] /\ gui' = gui
       ELSE shown' = shown /\ gui' = "askRunning"
  /\ UNCHANGED <<opVars, threadVars, logMem, written, dlgVars, caller>>

(* Mutant: an empty logger is taken for the end of the operation. *)
MonitorRunningUnasked ==
  /\ gui = "askRunning"
  /\ gui' = "results" /\ timer' = FALSE
  /\ UNCHANGED <<opVars, threadVars, logVars, q, logger, polled, dialog, caller>>

MonitorRunning ==
  /\ gui = "askRunning"
  /\ IF running[q]
       THEN gui' = "idle" /\ timer' = timer
       ELSE gui' = "results" /\ timer' = FALSE
  /\ UNCHANGED <<opVars, threadVars, logVars, q, logger, polled, dialog, caller>>

(* monitor() has read the interfaces out of q and deletes it. *)
MonitorResults ==
  /\ gui = "results"
  /\ gui' = "dtorStop" /\ caller' = "monitor"
  /\ obj' = [obj EXCEPT ![q] = "dying"]
  /\ UNCHANGED <<running, stop, isdead, flagMem, threadVars, logVars, dlgVars>>

(* ~newFirewallDialog, after exec() returned. *)
CloseDialog ==
  /\ gui = "idle" /\ dialog
  /\ timer' = FALSE
  /\ IF q = NoOp
       THEN dialog' = FALSE /\ UNCHANGED <<obj, guiVars>>
       ELSE /\ dialog' = dialog
            /\ gui' = "dtorStop" /\ caller' = "close"
            /\ obj' = [obj EXCEPT ![q] = "dying"]
  /\ UNCHANGED <<running, stop, isdead, flagMem, threadVars, logVars, q, logger, polled>>

(* ~BackgroundOp, in three steps. *)
DtorStop ==
  /\ gui = "dtorStop"
  /\ stop' = [stop EXCEPT ![q] = TRUE]
  /\ gui' = "dtorFlag"
  /\ UNCHANGED <<obj, running, isdead, flagMem, threadVars, logVars, dlgVars, caller>>

(* Mutants: iamdead set without its lock, and not set at all. *)
DtorFlagUnlocked ==
  /\ gui = "dtorFlag"
  /\ isdead' = [isdead EXCEPT ![q] = TRUE]
  /\ gui' = "dtorFree"
  /\ UNCHANGED <<obj, running, stop, flagMem, threadVars, logVars, dlgVars, caller>>

DtorFlagForgotten ==
  /\ gui = "dtorFlag" /\ ~holder[q]
  /\ gui' = "dtorFree"
  /\ UNCHANGED <<opVars, threadVars, logVars, dlgVars, caller>>

DtorFlag ==
  /\ gui = "dtorFlag" /\ ~holder[q]
  /\ isdead' = [isdead EXCEPT ![q] = TRUE]
  /\ gui' = "dtorFree"
  /\ UNCHANGED <<obj, running, stop, flagMem, threadVars, logVars, dlgVars, caller>>

(* Mutant: the destructor deletes iamdead, which the thread still uses. *)
DtorFreeFlag ==
  /\ gui = "dtorFree"
  /\ obj' = [obj EXCEPT ![q] = "deleted"]
  /\ flagMem' = [flagMem EXCEPT ![q] = "freed"]
  /\ q' = NoOp /\ gui' = "idle"
  /\ polled' = (IF caller = "monitor" THEN TRUE ELSE polled)
  /\ dialog' = (caller = "monitor")
  /\ UNCHANGED <<running, stop, isdead, threadVars, logVars, logger, timer, caller>>

(* The members are destroyed, the memory freed, and the caller goes on.    *)
DtorFree ==
  /\ gui = "dtorFree"
  /\ obj' = [obj EXCEPT ![q] = "deleted"]
  /\ q' = NoOp /\ gui' = "idle"
  /\ polled' = (IF caller = "monitor" THEN TRUE ELSE polled)
  /\ dialog' = (caller = "monitor")
  /\ UNCHANGED <<running, stop, isdead, flagMem, threadVars, logVars, logger, timer, caller>>

Monitor == MonitorReady \/ MonitorRunning \/ MonitorResults
Dtor    == DtorStop \/ DtorFlag \/ DtorFree

-----------------------------------------------------------------------------
(* The background thread of o. *)

Goto(o, from, to) == pc[o] = from /\ pc' = [pc EXCEPT ![o] = to]

Log(o) == written' = [written EXCEPT ![o] = @ + 1]

(* Lock iamdead and look at it.  If the object is gone the thread frees    *)
(* what it owns and ends; otherwise it goes on inside the critical section.*)
LockAndPeek(o, from, to) ==
  /\ ~holder[o]
  /\ IF isdead[o]
       THEN /\ Goto(o, from, "ended")
            /\ logMem'  = [logMem EXCEPT ![o] = "freed"]
            /\ flagMem' = [flagMem EXCEPT ![o] = "freed"]
            /\ UNCHANGED holder
       ELSE /\ Goto(o, from, to)
            /\ holder' = [holder EXCEPT ![o] = TRUE]
            /\ UNCHANGED <<logMem, flagMem>>

Unlock(o) == holder' = [holder EXCEPT ![o] = FALSE]

(* run_impl writes a line: both of its phases do. *)
RunLogs(o) ==
  /\ pc[o] \in {"sysinfo", "interfaces"}
  /\ written[o] < MaxLines
  /\ Log(o)
  /\ UNCHANGED <<opVars, threadVars, logMem, shown, dlgVars, guiVars>>

(* fetchSysInfo is over: CHECK_STOP_AND_THROW_EXCEPTION. *)
RunCheckStop(o) ==
  /\ Goto(o, "sysinfo", IF stop[o] THEN "caught" ELSE "interfaces")
  /\ UNCHANGED <<opVars, holder, logVars, dlgVars, guiVars>>

(* run_impl throws (no answer, or stopped while it reads a table). *)
RunThrows(o) ==
  /\ \E p \in {"sysinfo", "interfaces"} : Goto(o, p, "caught")
  /\ UNCHANGED <<opVars, holder, logVars, dlgVars, guiVars>>

RunReturns(o) ==
  /\ Goto(o, "interfaces", "finish")
  /\ UNCHANGED <<opVars, holder, logVars, dlgVars, guiVars>>

(* catch (FWException &ex) *)
CatchLock(o) ==
  /\ LockAndPeek(o, "caught", "setError")
  /\ UNCHANGED <<obj, running, stop, isdead, written, shown, dlgVars, guiVars>>

(* Log the exception, store it in bop->error, unlock. *)
CatchSetError(o) ==
  /\ Goto(o, "setError", "finish")
  /\ Log(o)
  /\ Unlock(o)
  /\ UNCHANGED <<opVars, logMem, shown, dlgVars, guiVars>>

LogFinished(o) ==
  /\ Goto(o, "finish", "done")
  /\ Log(o)
  /\ UNCHANGED <<opVars, holder, logMem, shown, dlgVars, guiVars>>

DoneLock(o) ==
  /\ LockAndPeek(o, "done", "clear")
  /\ UNCHANGED <<obj, running, stop, isdead, written, shown, dlgVars, guiVars>>

(* Mutants: running is not cleared; the thread does not wait for the GUI   *)
(* before it frees the logger.                                             *)
DoneClearForgotten(o) ==
  /\ Goto(o, "clear", "wait")
  /\ Unlock(o)
  /\ UNCHANGED <<opVars, logVars, dlgVars, guiVars>>

DoneClearAndEnd(o) ==
  /\ Goto(o, "clear", "ended")
  /\ running' = [running EXCEPT ![o] = FALSE]
  /\ logMem' = [logMem EXCEPT ![o] = "freed"]
  /\ Unlock(o)
  /\ UNCHANGED <<obj, stop, isdead, flagMem, written, shown, dlgVars, guiVars>>

(* bop->clearRunning() and unlock. *)
DoneClear(o) ==
  /\ Goto(o, "clear", "wait")
  /\ running' = [running EXCEPT ![o] = FALSE]
  /\ Unlock(o)
  /\ UNCHANGED <<obj, stop, isdead, flagMem, logVars, dlgVars, guiVars>>

(* The last loop: lock, and if the object is gone unlock, free the logger  *)
(* and end.  Unlike LockAndPeek, iamdead is not freed here.                *)
WaitLock(o) ==
  /\ ~holder[o]
  /\ IF isdead[o]
       THEN /\ Goto(o, "wait", "ended")
            /\ logMem' = [logMem EXCEPT ![o] = "freed"]
            /\ UNCHANGED holder
       ELSE /\ Goto(o, "wait", "connected")
            /\ holder' = [holder EXCEPT ![o] = TRUE]
            /\ UNCHANGED logMem
  /\ UNCHANGED <<opVars, written, shown, dlgVars, guiVars>>

(* bop->isConnected() is true: unlock and sleep. *)
WaitConnected(o) ==
  /\ Goto(o, "connected", "wait")
  /\ Unlock(o)
  /\ UNCHANGED <<opVars, logVars, dlgVars, guiVars>>

background_thread(o) ==
  \/ RunLogs(o) \/ RunCheckStop(o) \/ RunThrows(o) \/ RunReturns(o)
  \/ CatchLock(o) \/ CatchSetError(o) \/ LogFinished(o)
  \/ DoneLock(o) \/ DoneClear(o) \/ WaitLock(o) \/ WaitConnected(o)

Next ==
  \/ OpenDialog \/ PollRefused \/ CloseDialog
  \/ \E o \in Ops : StartPoll(o)
  \/ Monitor \/ Dtor
  \/ \E o \in Ops : background_thread(o)

Spec == Init /\ [][Next]_vars

(* The event loop fires the zero-timeout timer whenever it is idle and a   *)
(* destructor that was called goes on; every thread is scheduled, and an   *)
(* SNMP query ends (retries and timeouts are bounded).  The destructor     *)
(* competes for iamdead's mutex with a thread that sleeps a second outside *)
(* it, hence strong fairness.                                              *)
FairSpec ==
  /\ Spec
  /\ WF_vars(Monitor)
  /\ WF_vars(DtorStop \/ DtorFree)
  /\ SF_vars(DtorFlag)
  /\ \A o \in Ops : WF_vars(background_thread(o))

-----------------------------------------------------------------------------
(* Properties. *)

TypeOK ==
  /\ obj \in [Ops -> {"none", "alive", "dying", "deleted"}]
  /\ running \in [Ops -> BOOLEAN]
  /\ stop \in [Ops -> BOOLEAN]
  /\ isdead \in [Ops -> BOOLEAN]
  /\ holder \in [Ops -> BOOLEAN]
  /\ flagMem \in [Ops -> {"none", "live", "freed"}]
  /\ logMem \in [Ops -> {"none", "live", "freed"}]
  /\ written \in [Ops -> Nat]
  /\ shown \in [Ops -> Nat]
  /\ pc \in [Ops -> ThreadPoints]
  /\ q \in Ops \cup {NoOp}
  /\ logger \in Ops \cup {NoOp}
  /\ timer \in BOOLEAN /\ polled \in BOOLEAN /\ dialog \in BOOLEAN
  /\ gui \in GuiPoints /\ caller \in {"monitor", "close"}

Epilogue == {"setError", "clear", "connected"}
ThreadLives(o) == pc[o] \notin {"none", "ended"}

(* After run_impl the thread writes bop->error, bop->running and reads     *)
(* bop->connected only while the BackgroundOp part of the object exists,   *)
(* however the dialog was closed in the meantime (BackgroundOp.cpp:57-65). *)
EpilogueTouchesLiveObject ==
  \A o \in Ops : pc[o] \in Epilogue => obj[o] \in {"alive", "dying"}

(* Flag and logger outlive both sides.  Whoever is about to lock iamdead    *)
(* finds it allocated: the destructor, and the thread at every point of its *)
(* life, after the object is gone too.  monitor() and run_impl only call a  *)
(* logger that has not been deleted, though it is the thread that deletes   *)
(* it, and the dialog keeps its pointer afterwards.                         *)
FlagAndLoggerLive ==
  /\ gui \in {"dtorStop", "dtorFlag"} => flagMem[q] = "live"
  /\ gui = "idle" /\ q # NoOp /\ logger # NoOp => logMem[logger] = "live"
  /\ \A o \in Ops : ThreadLives(o) => flagMem[o] = "live" /\ logMem[o] = "live"

(* monitor() reads the interfaces out of q only when run_impl, which fills *)
(* them in without a lock, can write to them no more.                      *)
ResultsReadAfterRun ==
  gui = "results" => pc[q] \in {"wait", "connected"}

(* The inductive invariant the three above follow from.  An object exists   *)
(* while the dialog points to it; it is dying while the destructor runs,   *)
(* and iamdead says so from the middle of the destructor on.               *)
ObjectInv(o) ==
  /\ (q = o) <=> (obj[o] \in {"alive", "dying"})
  /\ (obj[o] = "dying") <=> (q = o /\ gui \in {"dtorStop", "dtorFlag", "dtorFree"})
  /\ isdead[o] <=> (obj[o] = "deleted" \/ (q = o /\ gui = "dtorFree"))

(* The thread holds the lock inside its three critical sections, where the *)
(* object is not dead, and ends only after the object's death.             *)
ThreadInv(o) ==
  /\ holder[o] <=> (pc[o] \in Epilogue)
  /\ holder[o] => ~isdead[o]
  /\ pc[o] = "ended" => isdead[o]
  /\ obj[o] # "none" /\ ~running[o] => pc[o] \in {"wait", "connected", "ended"}

(* Flag and logger are there from start_operation to the end of the thread.*)
MemoryInv(o) ==
  /\ obj[o] = "none" => pc[o] = "none"
  /\ obj[o] # "none" /\ pc[o] # "ended" => flagMem[o] = "live" /\ logMem[o] = "live"

GuiInv ==
  /\ gui # "idle" => q # NoOp
  /\ ~dialog => q = NoOp
  /\ q # NoOp /\ logger # NoOp => logger = q
  /\ gui = "results" => ~running[q]

HandshakeInv == GuiInv /\ \A o \in Ops : ObjectInv(o) /\ ThreadInv(o) /\ MemoryInv(o)

(* A poll whose thread was created ends: its object is deleted, by         *)
(* monitor() or with the dialog.  (When pthread_create fails, logger stays *)
(* NULL, q does not, and neither monitor() nor another poll gets past that.)*)
PollEnds == \A o \in Ops : (q = o /\ logger = o) ~> (q # o)

(* The thread of a deleted operation notices, frees the logger and ends.   *)
OrphanThreadEnds ==
  \A o \in Ops : (obj[o] = "deleted" /\ ThreadLives(o)) ~> (pc[o] = "ended" /\ logMem[o] = "freed")

(* The lock and the value of iamdead make the object a resource that is    *)
(* never destroyed while it is borrowed nor borrowed once destroyed.       *)
LifeOf   == [o \in Ops |-> IF obj[o] = "none" THEN "none"
                          ELSE IF isdead[o] THEN "destroyed" ELSE "alive"]
Borrowed == {o \in Ops : pc[o] \in Epilogue}
Lifetime == INSTANCE BorrowedObject
              WITH Objects <- Ops, life <- LifeOf, borrowed <- Borrowed
ImplementsLifetime == Lifetime!Spec

(* What a comment promises and the code does not do (README).  BackgroundOp.h:83:*)
(* run_impl uses neither the object nor its members, for the object may be *)
(* destroyed before the operation ends.                                    *)
RunImplTouchesLiveObject ==
  \A o \in Ops : pc[o] \in {"sysinfo", "interfaces"} => obj[o] = "alive"

=============================================================================
