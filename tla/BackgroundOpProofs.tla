-------------------------- MODULE BackgroundOpProofs --------------------------
(***************************************************************************)
(* The safety of BackgroundOp's handshake, for any number of operations:   *)
(* HandshakeInv is inductive, and the invariants about accesses to the     *)
(* object, to iamdead and to the logger follow from it.                    *)
(***************************************************************************)
EXTENDS BackgroundOp, TLAPS

USE DEF ThreadPoints, GuiPoints

(* What a step of a thread may change. *)
LEMMA ThreadTypes ==
  ASSUME TypeOK, UNCHANGED <<obj, stop, isdead, shown, dlgVars, guiVars>>,
         running' \in [Ops -> BOOLEAN], holder' \in [Ops -> BOOLEAN],
         flagMem' \in [Ops -> {"none", "live", "freed"}],
         logMem' \in [Ops -> {"none", "live", "freed"}],
         written' \in [Ops -> Nat], pc' \in [Ops -> ThreadPoints]
  PROVE  TypeOK'
BY DEF TypeOK, dlgVars, guiVars

LEMMA PeekTypes ==
  ASSUME TypeOK, NEW o \in Ops, NEW from, NEW to \in ThreadPoints, LockAndPeek(o, from, to)
  PROVE  /\ holder' \in [Ops -> BOOLEAN] /\ pc' \in [Ops -> ThreadPoints]
         /\ logMem' \in [Ops -> {"none", "live", "freed"}]
         /\ flagMem' \in [Ops -> {"none", "live", "freed"}]
<1>1. holder' \in [Ops -> BOOLEAN] /\ pc' \in [Ops -> ThreadPoints]
  BY DEF LockAndPeek, Goto, TypeOK
<1>2. /\ logMem' \in [Ops -> {"none", "live", "freed"}]
      /\ flagMem' \in [Ops -> {"none", "live", "freed"}]
  BY DEF LockAndPeek, TypeOK
<1>3. QED
  BY <1>1, <1>2

(* Every variable keeps its type: in particular the counters of lines stay *)
(* natural numbers although neither side bounds the other.                 *)
THEOREM TypeCorrect == Spec => []TypeOK
<1>1. Init => TypeOK
  <2> SUFFICES ASSUME Init PROVE TypeOK
    OBVIOUS
  <2> USE DEF Init
  <2>1. obj \in [Ops -> {"none", "alive", "dying", "deleted"}] /\ running \in [Ops -> BOOLEAN]
    OBVIOUS
  <2>2. stop \in [Ops -> BOOLEAN] /\ isdead \in [Ops -> BOOLEAN] /\ holder \in [Ops -> BOOLEAN]
    OBVIOUS
  <2>3. flagMem \in [Ops -> {"none", "live", "freed"}] /\ logMem \in [Ops -> {"none", "live", "freed"}]
    OBVIOUS
  <2>4. written \in [Ops -> Nat] /\ shown \in [Ops -> Nat] /\ pc \in [Ops -> ThreadPoints]
    OBVIOUS
  <2>5. timer \in BOOLEAN /\ polled \in BOOLEAN /\ dialog \in BOOLEAN
    OBVIOUS
  <2>6. q \in Ops \cup {NoOp} /\ logger \in Ops \cup {NoOp} /\ gui \in GuiPoints /\ caller \in {"monitor", "close"}
    OBVIOUS
  <2>7. QED
    BY <2>1, <2>2, <2>3, <2>4, <2>5, <2>6 DEF TypeOK
<1>2. TypeOK /\ [Next]_vars => TypeOK'
  <2> SUFFICES ASSUME TypeOK, [Next]_vars PROVE TypeOK'
    OBVIOUS
  <2> USE DEF opVars, threadVars, logVars, dlgVars, guiVars
  <2>1. CASE OpenDialog
    BY <2>1 DEF OpenDialog, TypeOK
  <2>2. CASE PollRefused
    BY <2>2 DEF PollRefused, TypeOK
  <2>3. CASE CloseDialog
    BY <2>3 DEF CloseDialog, TypeOK
  <2>4. ASSUME NEW o \in Ops, StartPoll(o) PROVE TypeOK'
    BY <2>4 DEF StartPoll, NewOperation, TypeOK
  <2>5. CASE Monitor
    <3>1. CASE MonitorReady
      <4>1. CASE Pending(logger) > 0
        BY <3>1, <4>1 DEF MonitorReady, TypeOK
      <4>2. CASE ~(Pending(logger) > 0)
        BY <3>1, <4>2 DEF MonitorReady, TypeOK
      <4>3. QED
        BY <4>1, <4>2
    <3>2. CASE MonitorRunning
      BY <3>2 DEF MonitorRunning, TypeOK
    <3>3. CASE MonitorResults
      BY <3>3 DEF MonitorResults, TypeOK
    <3>4. QED
      BY <2>5, <3>1, <3>2, <3>3 DEF Monitor
  <2>6. CASE Dtor
    BY <2>6 DEF Dtor, DtorStop, DtorFlag, DtorFree, TypeOK
  <2>7. ASSUME NEW o \in Ops, background_thread(o) PROVE TypeOK'
    <3> USE DEF Goto, Log, Unlock
    <3>1. CASE RunLogs(o) \/ RunCheckStop(o) \/ RunThrows(o) \/ RunReturns(o)
      BY <3>1 DEF RunLogs, RunCheckStop, RunThrows, RunReturns, TypeOK
    <3>2. CASE CatchSetError(o) \/ LogFinished(o)
      <4>1. written[o] + 1 \in Nat
        BY DEF TypeOK
      <4>2. CASE CatchSetError(o)
        <5>1. written' \in [Ops -> Nat] /\ holder' \in [Ops -> BOOLEAN]
          BY <4>1, <4>2 DEF CatchSetError, TypeOK
        <5>2. pc' \in [Ops -> ThreadPoints]
          BY <4>2 DEF CatchSetError, TypeOK
        <5>3. QED
          BY <4>2, <5>1, <5>2, ThreadTypes DEF CatchSetError, TypeOK
      <4>3. CASE LogFinished(o)
        <5>1. written' \in [Ops -> Nat] /\ pc' \in [Ops -> ThreadPoints]
          BY <4>1, <4>3 DEF LogFinished, TypeOK
        <5>2. QED
          BY <4>3, <5>1, ThreadTypes DEF LogFinished, TypeOK
      <4>4. QED
        BY <3>2, <4>2, <4>3
    <3>3. CASE CatchLock(o) \/ DoneLock(o) \/ DoneClear(o)
      <4>1. CASE CatchLock(o)
        BY <4>1, PeekTypes, ThreadTypes DEF CatchLock, TypeOK
      <4>2. CASE DoneLock(o)
        BY <4>2, PeekTypes, ThreadTypes DEF DoneLock, TypeOK
      <4>3. CASE DoneClear(o)
        BY <4>3 DEF DoneClear, TypeOK
      <4>4. QED
        BY <3>3, <4>1, <4>2, <4>3
    <3>4. CASE WaitLock(o) \/ WaitConnected(o)
      <4>1. CASE WaitLock(o)
        <5>1. holder' \in [Ops -> BOOLEAN] /\ pc' \in [Ops -> ThreadPoints]
          BY <4>1 DEF WaitLock, TypeOK
        <5>2. logMem' \in [Ops -> {"none", "live", "freed"}]
          BY <4>1 DEF WaitLock, TypeOK
        <5>3. QED
          BY <4>1, <5>1, <5>2, ThreadTypes DEF WaitLock, TypeOK
      <4>2. CASE WaitConnected(o)
        BY <4>2 DEF WaitConnected, TypeOK
      <4>3. QED
        BY <3>4, <4>1, <4>2
    <3>5. QED
      BY <2>7, <3>1, <3>2, <3>3, <3>4 DEF background_thread
  <2>8. CASE UNCHANGED vars
    BY <2>8 DEF vars, TypeOK
  <2>9. QED
    BY <2>1, <2>2, <2>3, <2>4, <2>5, <2>6, <2>7, <2>8 DEF Next
<1>3. QED
  BY <1>1, <1>2, PTL DEF Spec

-----------------------------------------------------------------------------
LEMMA HandshakeInit == Init => HandshakeInv
  BY NoOpAssumption
  DEF Init, HandshakeInv, GuiInv, ObjectInv, ThreadInv, MemoryInv, Epilogue

(* A step of the dialog or of a destructor. *)
LEMMA HandshakeGui ==
  ASSUME TypeOK, HandshakeInv,
         OpenDialog \/ PollRefused \/ CloseDialog \/ Monitor \/ Dtor
  PROVE  HandshakeInv'
<1> USE NoOpAssumption DEF opVars, threadVars, logVars, dlgVars, guiVars, Epilogue
<1> USE DEF HandshakeInv, GuiInv, ObjectInv, ThreadInv, MemoryInv, TypeOK
<1>1. CASE OpenDialog
  BY <1>1 DEF OpenDialog
<1>2. CASE PollRefused
  BY <1>2 DEF PollRefused
<1>3. CASE CloseDialog
  <2>1. CASE q = NoOp
    BY <1>3, <2>1 DEF CloseDialog
  <2>2. CASE q # NoOp
    BY <1>3, <2>2 DEF CloseDialog
  <2>3. QED
    BY <2>1, <2>2
<1>4. CASE MonitorReady
  BY <1>4 DEF MonitorReady
<1>5. CASE MonitorRunning
  BY <1>5 DEF MonitorRunning
<1>6. CASE MonitorResults
  BY <1>6 DEF MonitorResults
<1>7. CASE DtorStop
  BY <1>7 DEF DtorStop
<1>8. CASE DtorFlag
  BY <1>8 DEF DtorFlag
<1>9. CASE DtorFree
  BY <1>9 DEF DtorFree
<1>10. QED
  BY <1>1, <1>2, <1>3, <1>4, <1>5, <1>6, <1>7, <1>8, <1>9 DEF Monitor, Dtor

LEMMA HandshakeStart ==
  ASSUME TypeOK, HandshakeInv, NEW o \in Ops, StartPoll(o)
  PROVE  HandshakeInv'
  BY NoOpAssumption
  DEF StartPoll, NewOperation, dlgVars, guiVars, Epilogue, TypeOK,
      HandshakeInv, GuiInv, ObjectInv, ThreadInv, MemoryInv

(* A step of the thread of o changes nothing the invariant says of another *)
(* operation, nor of the dialog.                                           *)
LEMMA HandshakeThread ==
  ASSUME TypeOK, HandshakeInv, NEW o \in Ops, background_thread(o)
  PROVE  HandshakeInv'
<1> USE DEF opVars, threadVars, logVars, dlgVars, guiVars, Epilogue
<1> USE DEF HandshakeInv, GuiInv, ObjectInv, ThreadInv, MemoryInv, TypeOK
<1> USE DEF Goto, Log, Unlock, LockAndPeek
<1>1. CASE RunLogs(o)
  BY <1>1 DEF RunLogs
<1>2. CASE RunCheckStop(o) \/ RunThrows(o) \/ RunReturns(o)
  BY <1>2 DEF RunCheckStop, RunThrows, RunReturns
<1>3. CASE CatchLock(o)
  BY <1>3 DEF CatchLock
<1>4. CASE CatchSetError(o) \/ LogFinished(o)
  BY <1>4 DEF CatchSetError, LogFinished
<1>5. CASE DoneLock(o)
  BY <1>5 DEF DoneLock
<1>6. CASE DoneClear(o)
  BY <1>6 DEF DoneClear
<1>7. CASE WaitLock(o)
  BY <1>7 DEF WaitLock
<1>8. CASE WaitConnected(o)
  BY <1>8 DEF WaitConnected
<1>9. QED
  BY <1>1, <1>2, <1>3, <1>4, <1>5, <1>6, <1>7, <1>8 DEF background_thread

LEMMA HandshakeStep == TypeOK /\ HandshakeInv /\ [Next]_vars => HandshakeInv'
<1> SUFFICES ASSUME TypeOK, HandshakeInv, [Next]_vars PROVE HandshakeInv'
  OBVIOUS
<1>1. CASE UNCHANGED vars
  BY <1>1 DEF vars, opVars, threadVars, logVars, dlgVars, guiVars, Epilogue,
              HandshakeInv, GuiInv, ObjectInv, ThreadInv, MemoryInv
<1>2. QED
  BY <1>1, HandshakeGui, HandshakeStart, HandshakeThread DEF Next

(* The handshake between ~BackgroundOp and background_thread keeps its     *)
(* bookkeeping consistent, for any number of operations and any schedule.  *)
THEOREM Handshake == Spec => []HandshakeInv
  BY TypeCorrect, HandshakeInit, HandshakeStep, PTL DEF Spec

(* The epilogue of the thread touches no object that has been destroyed.   *)
THEOREM EpilogueSafe == Spec => []EpilogueTouchesLiveObject
<1>1. TypeOK /\ HandshakeInv => EpilogueTouchesLiveObject
  BY NoOpAssumption
  DEF TypeOK, HandshakeInv, ObjectInv, ThreadInv, MemoryInv, EpilogueTouchesLiveObject, Epilogue
<1>2. QED
  BY <1>1, TypeCorrect, Handshake, PTL

(* Destructor and thread only ever lock an iamdead that is allocated, and  *)
(* monitor() and run_impl only ever call a logger that is.                 *)
THEOREM FlagAndLoggerSafe == Spec => []FlagAndLoggerLive
<1>1. TypeOK /\ HandshakeInv => FlagAndLoggerLive
  BY NoOpAssumption
  DEF TypeOK, HandshakeInv, GuiInv, ObjectInv, ThreadInv, MemoryInv, FlagAndLoggerLive,
      ThreadLives
<1>2. QED
  BY <1>1, TypeCorrect, Handshake, PTL

(* monitor() reads the results of a poll only after run_impl has returned. *)
THEOREM ResultsSafe == Spec => []ResultsReadAfterRun
<1>1. TypeOK /\ HandshakeInv => ResultsReadAfterRun
  BY NoOpAssumption
  DEF TypeOK, HandshakeInv, GuiInv, ObjectInv, ThreadInv, MemoryInv, ResultsReadAfterRun
<1>2. QED
  BY <1>1, TypeCorrect, Handshake, PTL

-----------------------------------------------------------------------------
(* Refinement.  Creating the object, setting iamdead, and the two ends of  *)
(* the thread's critical sections are the abstract steps; all the others   *)
(* leave the abstract state alone.                                         *)
AbstractStutter == LifeOf' = LifeOf /\ Borrowed' = Borrowed

LEMMA LifetimeStart ==
  ASSUME TypeOK, HandshakeInv, NEW o \in Ops, StartPoll(o)
  PROVE  Lifetime!Next
<1> USE DEF StartPoll, NewOperation, TypeOK, HandshakeInv, ThreadInv, MemoryInv
<1>1. LifeOf[o] = "none" /\ LifeOf' = [LifeOf EXCEPT ![o] = "alive"]
  BY DEF LifeOf
<1>2. Borrowed' = Borrowed
  BY DEF Borrowed, Epilogue
<1>3. Lifetime!Create(o)
  BY <1>1, <1>2 DEF Lifetime!Create
<1>4. QED
  BY <1>3 DEF Lifetime!Next

LEMMA LifetimeDestroy ==
  ASSUME TypeOK, HandshakeInv, DtorFlag
  PROVE  Lifetime!Next
<1> USE DEF DtorFlag, threadVars, TypeOK, HandshakeInv, GuiInv, ObjectInv, ThreadInv
<1>1. q \in Ops /\ obj[q] = "dying" /\ ~isdead[q]
  OBVIOUS
<1>2. LifeOf[q] = "alive" /\ LifeOf' = [LifeOf EXCEPT ![q] = "destroyed"]
  BY <1>1 DEF LifeOf
<1>3. q \notin Borrowed /\ Borrowed' = Borrowed
  BY <1>1 DEF Borrowed
<1>4. Lifetime!Destroy(q)
  BY <1>2, <1>3 DEF Lifetime!Destroy
<1>5. QED
  BY <1>1, <1>4 DEF Lifetime!Next

LEMMA LifetimeGui ==
  ASSUME TypeOK, HandshakeInv,
         OpenDialog \/ PollRefused \/ CloseDialog \/ Monitor \/ DtorStop \/ DtorFree
  PROVE  AbstractStutter
<1> USE DEF opVars, threadVars, TypeOK, HandshakeInv, GuiInv, ObjectInv
<1>1. pc' = pc /\ isdead' = isdead
  BY DEF OpenDialog, PollRefused, CloseDialog, Monitor, MonitorReady, MonitorRunning,
         MonitorResults, DtorStop, DtorFree
<1>2. Borrowed' = Borrowed
  BY <1>1 DEF Borrowed
<1>3. \A o \in Ops : obj[o] = "none" <=> obj'[o] = "none"
  <2>1. CASE OpenDialog \/ PollRefused \/ MonitorReady \/ MonitorRunning \/ DtorStop
    <3>1. obj' = obj
      BY <2>1 DEF OpenDialog, PollRefused, MonitorReady, MonitorRunning, DtorStop
    <3>2. QED
      BY <3>1
  <2>2. CASE CloseDialog
    <3>1. CASE q = NoOp
      BY <2>2, <3>1 DEF CloseDialog
    <3>2. CASE q # NoOp
      BY <2>2, <3>2 DEF CloseDialog
    <3>3. QED
      BY <3>1, <3>2
  <2>3. CASE MonitorResults
    BY <2>3 DEF MonitorResults
  <2>4. CASE DtorFree
    BY <2>4 DEF DtorFree
  <2>5. QED
    BY <2>1, <2>2, <2>3, <2>4 DEF Monitor
<1>4. QED
  BY <1>1, <1>2, <1>3 DEF LifeOf, AbstractStutter

LEMMA LifetimeThread ==
  ASSUME TypeOK, HandshakeInv, NEW o \in Ops, background_thread(o)
  PROVE  Lifetime!Next \/ AbstractStutter
<1> USE DEF opVars, Goto, Log, Unlock, LockAndPeek
<1> USE DEF TypeOK, HandshakeInv, ObjectInv, ThreadInv, MemoryInv
<1>1. obj' = obj /\ isdead' = isdead /\ LifeOf' = LifeOf
  BY DEF background_thread, RunLogs, RunCheckStop, RunThrows, RunReturns, CatchLock,
         CatchSetError, LogFinished, DoneLock, DoneClear, WaitLock, WaitConnected, LifeOf
<1>2. CASE ~holder[o] /\ ~isdead[o] /\ \E to \in Epilogue : pc' = [pc EXCEPT ![o] = to]
  <2>1. o \notin Borrowed /\ Borrowed' = Borrowed \cup {o}
    BY <1>2 DEF Borrowed
  <2>2. LifeOf[o] = "alive"
    BY <1>2 DEF LifeOf, background_thread, RunLogs, RunCheckStop, RunThrows, RunReturns,
         CatchLock, CatchSetError, LogFinished, DoneLock, DoneClear, WaitLock, WaitConnected
  <2>3. QED
    BY <1>1, <2>1, <2>2 DEF Lifetime!Next, Lifetime!Borrow
<1>3. CASE holder[o] /\ \E to \in ThreadPoints \ Epilogue : pc' = [pc EXCEPT ![o] = to]
  <2>1. o \in Borrowed /\ Borrowed' = Borrowed \ {o}
    BY <1>3 DEF Borrowed, Epilogue
  <2>2. QED
    BY <1>1, <2>1 DEF Lifetime!Next, Lifetime!Return
<1>4. CASE ~holder[o] /\ (pc' = pc \/ \E to \in ThreadPoints \ Epilogue : pc' = [pc EXCEPT ![o] = to])
  <2>1. Borrowed' = Borrowed
    BY <1>4 DEF Borrowed
  <2>2. QED
    BY <1>1, <2>1 DEF AbstractStutter
<1>5. \/ ~holder[o] /\ ~isdead[o] /\ \E to \in Epilogue : pc' = [pc EXCEPT ![o] = to]
      \/ holder[o] /\ \E to \in ThreadPoints \ Epilogue : pc' = [pc EXCEPT ![o] = to]
      \/ ~holder[o] /\ (pc' = pc \/ \E to \in ThreadPoints \ Epilogue : pc' = [pc EXCEPT ![o] = to])
  <2> USE DEF Epilogue
  <2>1. CASE RunLogs(o)
    BY <2>1 DEF RunLogs, threadVars
  <2>2. CASE RunCheckStop(o) \/ RunThrows(o) \/ RunReturns(o) \/ LogFinished(o)
    BY <2>2 DEF RunCheckStop, RunThrows, RunReturns, LogFinished
  <2>3. CASE CatchLock(o) \/ DoneLock(o)
    BY <2>3 DEF CatchLock, DoneLock
  <2>4. CASE CatchSetError(o) \/ DoneClear(o) \/ WaitConnected(o)
    BY <2>4 DEF CatchSetError, DoneClear, WaitConnected
  <2>5. CASE WaitLock(o)
    BY <2>5 DEF WaitLock
  <2>6. QED
    BY <2>1, <2>2, <2>3, <2>4, <2>5 DEF background_thread
<1>6. QED
  BY <1>2, <1>3, <1>4, <1>5

(* BackgroundOp and its thread implement an object that is destroyed only  *)
(* while it is not borrowed and is not borrowed again once destroyed.      *)
THEOREM Refinement == Spec => ImplementsLifetime
<1>1. Init => Lifetime!Init
  BY DEF Init, Lifetime!Init, LifeOf, Borrowed, Epilogue
<1>2. TypeOK /\ HandshakeInv /\ [Next]_vars => [Lifetime!Next]_<<LifeOf, Borrowed>>
  <2> SUFFICES ASSUME TypeOK, HandshakeInv, [Next]_vars
               PROVE  Lifetime!Next \/ AbstractStutter
    BY DEF AbstractStutter
  <2>1. CASE UNCHANGED vars
    BY <2>1 DEF vars, opVars, threadVars, AbstractStutter, LifeOf, Borrowed
  <2>2. QED
    BY <2>1, LifetimeStart, LifetimeDestroy, LifetimeGui, LifetimeThread DEF Next, Dtor
<1>3. QED
  BY <1>1, <1>2, TypeCorrect, Handshake, PTL DEF Spec, ImplementsLifetime, Lifetime!Spec

=============================================================================
