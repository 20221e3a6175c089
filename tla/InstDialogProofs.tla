-------------------------- MODULE InstDialogProofs --------------------------
(***************************************************************************)
(* The safety of InstDialog for any firewalls and clusters and any depth   *)
(* of event loops, when the user waits: no Back and no new start while     *)
(* something is going on, no clicks in an event loop of a handler.  Then   *)
(* the wizard does one thing at a time, from which the rest follows.       *)
(***************************************************************************)
EXTENDS InstDialog, TLAPS

\* The user turns no page and starts nothing while a handler, timer or job is at
\* work, but stops, cancels, closes and hides the wizard at any time.
UserWaits == Moves \subseteq {"early stop", "hide", "select all"}

Ops == {"compile", "install", "inspect"}
Timers == [{"compile", "install", "kill"} -> Nat]
Results == [Objects -> {"none", "ok", "error"}]
Procs == [run : BOOLEAN, unit : Objects \cup {NoObject}, slot : {"compile", "install"},
          stopped : BOOLEAN, killed : BOOLEAN]

\* The conjuncts of TypeOK: what a page shows and what a phase has to do, the
\* installer, and the rest.
TypePage ==
  /\ page \in Pages /\ op \in Ops /\ complete \in BOOLEAN /\ finished \in BOOLEAN
  /\ next \in BOOLEAN /\ back \in BOOLEAN
  /\ compileBox \subseteq Units /\ compileList \subseteq Units
  /\ installBox \subseteq Firewalls /\ installList \subseteq Firewalls
  /\ outcome \in Results
TypeInstaller ==
  installer \in [alive : BOOLEAN, fw : Firewalls \cup {NoObject},
                jobs : Seq(Jobs), session : Jobs \cup {"none"}]
TypeRest ==
  /\ visible \in BOOLEAN /\ compileOnly \in BOOLEAN /\ rejectDialogFlag \in BOOLEAN
  /\ canceledAll \in BOOLEAN /\ batch \in BOOLEAN /\ stopOn \in BOOLEAN
  /\ halted \in {"no", "compile", "install"}
  /\ finishOn \in [Pages -> BOOLEAN] /\ stopSlot \in {"none", "compile", "install"}
  /\ cur \in Objects \cup {NoObject} /\ proc \in Procs
  /\ sessions \subseteq [fw : Firewalls, job : Jobs] /\ timers \in Timers

Places == {"compile page", "install page", "compiler", "options", "installer",
           "copy", "activate", "script", "script ended"}
Frames == [at : Places, obj : Objects \cup {NoObject}, back : BOOLEAN]

\* where the one handler is that waits in an event loop, and for what
Where == IF loops = << >> THEN "nowhere" ELSE loops[1].at
What  == IF loops = << >> THEN NoObject ELSE loops[1].obj

NoTimer == timers["compile"] = 0 /\ timers["install"] = 0
NoJob   == ~proc.run /\ sessions = {}
Quiet   == loops = << >> /\ NoTimer /\ NoJob

LoopInv == loops = << >> \/ \E fr \in Frames : loops = <<fr>>

\* One thing at a time: a handler in an event loop, a timer, a process or a session.
OneThing ==
  \/ NoTimer /\ NoJob
  \/ /\ loops = << >> /\ NoJob
     /\ \/ timers["compile"] = 1 /\ timers["install"] = 0
        \/ timers["compile"] = 0 /\ timers["install"] = 1
  \/ loops = << >> /\ NoTimer /\ proc.run /\ sessions = {}
  \/ loops = << >> /\ NoTimer /\ ~proc.run /\ \E s \in sessions : sessions = {s}

\* It belongs to the phase the page shows, and that phase is not over.
Compiling ==
  \/ timers["compile"] # 0
  \/ Where \in {"compile page", "compiler"}
  \/ proc.run /\ proc.slot = "compile"
Installing ==
  \/ timers["install"] # 0
  \/ Where \in Places \ {"compile page", "compiler"}
  \/ proc.run /\ proc.slot = "install"
  \/ sessions # {}
PhaseInv ==
  /\ Compiling  => page = "work" /\ op = "compile" /\ ~complete /\ ~next
  /\ Installing => page = "work" /\ op = "install"
  /\ page = "choose" => ~complete /\ outcome = [x \in Objects |-> "none"]

\* It is done for the firewall in cnf.fwobj.
ObjectInv ==
  /\ ResultGoesToItsUnit
  /\ Where = "compiler" => What = cur /\ cur \in Units
  /\ Where \in {"options", "installer", "copy", "activate", "script"} =>
       What = cur /\ cur \in Firewalls

\* After a copy there is the activation to do, and the installer to do it.
JobInv ==
  /\ Where = "copy" => installer.alive /\ installer.fw = What /\ installer.jobs = <<"activate">>
  /\ installer.session = "copy" => installer.jobs = <<"activate">>
  /\ \A s \in sessions : s.job = "copy" => IsRunning(s)

Inv ==
  /\ TypePage /\ TypeInstaller /\ TypeRest
  /\ LoopInv /\ OneThing /\ PhaseInv /\ ObjectInv /\ JobInv

LEMMA TypeParts == Inv => TypeOK
<1> SUFFICES ASSUME Inv PROVE TypeOK
  OBVIOUS
<1>1. Len(loops) <= MaxNesting
  BY MovesAssumption DEF Inv, LoopInv
<1>2. {visible, compileOnly, rejectDialogFlag, canceledAll, batch, complete, finished,
       next, back, stopOn} \subseteq BOOLEAN
  BY DEF Inv, TypePage, TypeRest
<1>3. QED
  BY <1>1, <1>2 DEF Inv, TypeOK, TypePage, TypeRest, TypeInstaller, Ops, Results, Timers, Procs

-----------------------------------------------------------------------------
(* Event loops *)

\* What a handler finds that comes back from its event loop.
LEMMA LoopReturned ==
  ASSUME LoopInv, loops # << >>
  PROVE  /\ Len(loops) = 1 /\ Top = loops[1] /\ Rest = << >>
         /\ Top \in Frames /\ Top.at = Where /\ Top.obj = What /\ Top.back \in BOOLEAN
         /\ Where \in Places
<1>1. PICK fr \in Frames : loops = <<fr>>
  BY DEF LoopInv
<1>2. Len(loops) = 1 /\ loops[1] = fr /\ Rest = << >>
  BY <1>1 DEF Rest
<1>3. QED
  BY <1>1, <1>2 DEF Top, Where, What, Frames

\* What a handler leaves that enters one.
LEMMA LoopEntered ==
  ASSUME NEW at \in Places, NEW obj \in Objects \cup {NoObject}, NEW b \in BOOLEAN,
         Enter(<< >>, at, obj, b)
  PROVE  /\ LoopInv' /\ Len(loops') = 1 /\ loops' # << >>
         /\ Where' = at /\ What' = obj /\ Top'.back = b
<1>1. loops' = <<Frame(at, obj, b)>>
  BY DEF Enter
<1>2. Frame(at, obj, b) \in Frames
  BY DEF Frame, Frames
<1>3. Len(loops') = 1 /\ loops'[1] = Frame(at, obj, b) /\ loops' # << >>
  BY <1>1
<1>4. QED
  BY <1>1, <1>2, <1>3 DEF LoopInv, Where, What, Top, Frame

\* The user who waits clicks only when no handler is in an event loop.
LEMMA ClicksWait ==
  ASSUME UserWaits, CanClick
  PROVE  loops = << >> /\ Where = "nowhere" /\ What = NoObject
  BY DEF UserWaits, CanClick, Where, What

-----------------------------------------------------------------------------
(* Pages and phases *)

LEMMA ChooseShown ==
  ASSUME NEW only \in BOOLEAN, ShowPageChoose(only)
  PROVE  /\ page' = "choose" /\ ~finished' /\ ~complete' /\ finished' \in BOOLEAN /\ complete' \in BOOLEAN
         /\ compileBox' \subseteq Units /\ installBox' \subseteq Firewalls
         /\ outcome' = [x \in Objects |-> "none"] /\ outcome' \in Results
  BY DEF ShowPageChoose, FillTable, Results

\* What showPage(COMPILE_INSTALL) leaves.
LEMMA WorkShown ==
  ASSUME TypePage, compileOnly \in BOOLEAN,
         NEW o \in Ops, NEW c \in BOOLEAN, NEW b \in BOOLEAN, ShowPageWork(o, c, << >>, b)
  PROVE  /\ TypePage' /\ LoopInv'
         /\ compileList' = compileBox /\ installList' = installBox
         /\ Where' \in {"nowhere", "compile page", "install page"}
         /\ Where' = "nowhere" => loops' = << >>
         /\ Where' = "compile page" => page' = "work" /\ op' = "compile" /\ ~complete' /\ ~next'
         /\ Where' = "install page" => page' = "work" /\ op' = "install"
         /\ page' = "choose" => ~complete' /\ outcome' = [x \in Objects |-> "none"]
         /\ page' = "work" => /\ complete' = c /\ UNCHANGED <<finished, boxVars, outcome>>
                              /\ op' = IF compileBox = {} THEN "install" ELSE o
<1>1. CASE compileBox = {} /\ installBox = {}
  <2>1. /\ ShowPageChoose(compileOnly) /\ compileList' = compileBox /\ installList' = installBox
        /\ op' = o /\ next' = FALSE /\ back' = b /\ loops' = << >>
    BY <1>1 DEF ShowPageWork
  <2>2. LoopInv' /\ Where' = "nowhere"
    BY <2>1 DEF LoopInv, Where
  <2>3. QED
    BY <2>1, <2>2, ChooseShown DEF TypePage, Pages
<1>2. CASE ~(compileBox = {} /\ installBox = {})
  <2>1. /\ compileList' = compileBox /\ installList' = installBox
        /\ page' = "work" /\ complete' = c /\ UNCHANGED <<finished, boxVars, outcome>>
        /\ op' = IF compileBox = {} THEN "install" ELSE o
    BY <1>2 DEF ShowPageWork
  <2>2. /\ next' \in BOOLEAN /\ back' \in BOOLEAN
        /\ \/ loops' = << >>
           \/ Enter(<< >>, "compile page", NoObject, TRUE) /\ op' = "compile" /\ ~c /\ ~next'
           \/ Enter(<< >>, "install page", NoObject, b) /\ op' = "install"
    BY <1>2 DEF ShowPageWork
  <2>3. TypePage'
    BY <2>1, <2>2 DEF TypePage, Pages, boxVars, Ops
  <2>4. CASE loops' = << >>
    BY <2>1, <2>3, <2>4 DEF LoopInv, Where
  <2>5. CASE Enter(<< >>, "compile page", NoObject, TRUE) /\ op' = "compile" /\ ~c /\ ~next'
    BY <2>1, <2>3, <2>5, LoopEntered DEF Places
  <2>6. CASE Enter(<< >>, "install page", NoObject, b) /\ op' = "install"
    BY <2>1, <2>3, <2>6, LoopEntered DEF Places
  <2>7. QED
    BY <2>2, <2>4, <2>5, <2>6
<1>3. QED
  BY <1>1, <1>2

\* What mainLoopCompile leaves: it has finished, or begins a unit, or ends the phase.
LEMMA CompileLoop ==
  ASSUME TypePage, compileOnly \in BOOLEAN, stopOn \in BOOLEAN, finishOn \in [Pages -> BOOLEAN],
         page = "work", op = "compile",
         NEW b \in BOOLEAN, MainLoopCompile(<< >>, b)
  PROVE  /\ TypePage' /\ LoopInv' /\ stopOn' \in BOOLEAN /\ finishOn' \in [Pages -> BOOLEAN]
         /\ \/ /\ finished /\ loops' = << >>
               /\ UNCHANGED <<pageVars, next, boxVars, listVars, cur, outcome>>
            \/ /\ ~finished /\ loops' # << >> /\ Where' = "compiler" /\ What' = cur'
               /\ cur' \in compileList /\ compileList' = compileList \ {cur'}
               /\ UNCHANGED <<pageVars, next, boxVars, outcome>>
            \/ /\ ~finished /\ compileList = {} /\ cur' = cur /\ installList' = installBox
               /\ Where' \in {"nowhere", "install page"} /\ (Where' = "nowhere" => loops' = << >>)
               /\ Where' = "install page" => page' = "work" /\ op' = "install"
               /\ page' = "choose" => ~complete' /\ outcome' = [x \in Objects |-> "none"]
               /\ page' = "work" => /\ complete' /\ UNCHANGED <<boxVars, outcome>>
                                    /\ op' \in {"compile", "install"}
                                    /\ op' = "install" => compileBox = {}
<1>1. CASE finished
  BY <1>1 DEF MainLoopCompile, SetBack, TypePage, LoopInv, pageVars, boxVars, listVars
<1>2. CASE ~finished /\ compileList # {}
  <2>1. PICK u \in compileList :
          compileList' = compileList \ {u} /\ cur' = u /\ Enter(<< >>, "compiler", u, b)
    BY <1>2 DEF MainLoopCompile
  <2>2. /\ stopOn' = TRUE
        /\ UNCHANGED <<pageVars, next, back, finishOn, boxVars, installList, outcome>>
    BY <1>2 DEF MainLoopCompile
  <2>3. u \in Objects
    BY <2>1 DEF TypePage, Units, Objects
  <2>4. TypePage'
    BY <2>1, <2>2 DEF TypePage, pageVars, boxVars
  <2>5. QED
    BY <1>2, <2>1, <2>2, <2>3, <2>4, LoopEntered DEF Places
<1>3. CASE ~finished /\ compileList = {} /\ compileOnly
  <2>1. /\ installList' = installBox /\ complete' = TRUE /\ finished' = TRUE
        /\ finishOn' = [finishOn EXCEPT ![page] = TRUE] /\ stopOn' = FALSE
        /\ SetBack(b) /\ loops' = << >>
        /\ UNCHANGED <<page, op, next, boxVars, compileList, cur, outcome>>
    BY <1>3 DEF MainLoopCompile
  <2>2. TypePage' /\ LoopInv' /\ Where' = "nowhere"
    BY <2>1 DEF TypePage, LoopInv, Where, SetBack, boxVars
  <2>3. QED
    BY <1>3, <2>1, <2>2
<1>4. CASE ~finished /\ compileList = {} /\ ~compileOnly
  <2>1. /\ ShowPageWork("compile", TRUE, << >>, b)
        /\ stopOn' = FALSE /\ UNCHANGED <<finishOn, cur>>
    BY <1>4 DEF MainLoopCompile
  <2>2. /\ TypePage' /\ LoopInv' /\ installList' = installBox
        /\ Where' \in {"nowhere", "compile page", "install page"}
        /\ Where' = "nowhere" => loops' = << >>
        /\ Where' = "compile page" => page' = "work" /\ ~complete'
        /\ Where' = "install page" => page' = "work" /\ op' = "install"
        /\ page' = "choose" => ~complete' /\ outcome' = [x \in Objects |-> "none"]
        /\ page' = "work" => /\ complete' = TRUE /\ UNCHANGED <<finished, boxVars, outcome>>
                             /\ op' = IF compileBox = {} THEN "install" ELSE "compile"
    BY <2>1, WorkShown DEF Ops
  <2>3. QED
    BY <1>4, <2>1, <2>2
<1>5. QED
  BY <1>1, <1>2, <1>3, <1>4

\* What mainLoopInstall leaves: it has finished, or begins a firewall, or ends the phase.
LEMMA InstallLoop ==
  ASSUME TypePage, stopOn \in BOOLEAN, finishOn \in [Pages -> BOOLEAN],
         NEW b \in BOOLEAN, NEW t \in Timers, t["install"] = 0, t["compile"] = 0,
         MainLoopInstall(<< >>, b, t)
  PROVE  /\ LoopInv' /\ stopOn' \in BOOLEAN /\ finishOn' \in [Pages -> BOOLEAN]
         /\ back' \in BOOLEAN /\ finished' \in BOOLEAN /\ installList' \subseteq installList
         /\ timers' \in Timers /\ timers'["compile"] = 0
         /\ \/ /\ finished' /\ loops' = << >> /\ timers' = t /\ cur' = cur
            \/ /\ ~finished /\ ~canceledAll /\ finished' = finished
               /\ cur' \in installList /\ installList' = installList \ {cur'}
               /\ \/ loops' = << >> /\ timers'["install"] = 1
                  \/ /\ Where' \in {"options", "installer"} /\ What' = cur' /\ loops' # << >>
                     /\ timers' = t
<1>1. CASE finished \/ installList = {} \/ canceledAll
  BY <1>1 DEF MainLoopInstall, SetBack, TypePage, LoopInv, Timers
<1>2. CASE ~finished /\ installList # {} /\ ~canceledAll
  <2>1. PICK f \in installList :
          /\ installList' = installList \ {f} /\ cur' = f
          /\ IF batch THEN OptionsKnown(f, << >>, b, t)
             ELSE Enter(<< >>, "options", f, b) /\ timers' = t /\ UNCHANGED back
    BY <1>2 DEF MainLoopInstall
  <2>2. stopOn' = TRUE /\ UNCHANGED <<finished, finishOn>>
    BY <1>2 DEF MainLoopInstall
  <2>3. f \in Objects
    BY <2>1 DEF TypePage, Objects
  <2>4. \/ timers' = [t EXCEPT !["install"] = @ + 1] /\ SetBack(b) /\ loops' = << >>
        \/ timers' = t /\ UNCHANGED back /\ Enter(<< >>, "installer", f, b)
        \/ timers' = t /\ UNCHANGED back /\ Enter(<< >>, "options", f, b)
    BY <2>1 DEF OptionsKnown
  <2>5. back' \in BOOLEAN
    BY <2>4 DEF TypePage, SetBack
  <2>6. CASE timers' = [t EXCEPT !["install"] = @ + 1] /\ SetBack(b) /\ loops' = << >>
    BY <1>2, <2>1, <2>2, <2>5, <2>6 DEF LoopInv, TypePage, Timers
  <2>7. ASSUME NEW at \in {"installer", "options"}, timers' = t, Enter(<< >>, at, f, b)
        PROVE  LoopInv' /\ Where' = at /\ What' = cur' /\ loops' # << >>
    BY <2>1, <2>3, <2>7, LoopEntered DEF Places
  <2>8. CASE timers' = t /\ \E at \in {"installer", "options"} : Enter(<< >>, at, f, b)
    BY <1>2, <2>1, <2>2, <2>5, <2>7, <2>8 DEF TypePage
  <2>9. QED
    BY <2>4, <2>6, <2>8
<1>3. QED
  BY <1>1, <1>2

-----------------------------------------------------------------------------
(* What the one thing that happens says of the others *)

LEMMA InLoop ==
  ASSUME Inv, NEW at \in Places, In(at)
  PROVE  /\ Where = at /\ loops # << >> /\ Rest = << >> /\ Top.obj = What /\ Top.back \in BOOLEAN
         /\ NoTimer /\ NoJob
<1>1. loops # << >> /\ Top.at = at
  BY DEF In
<1>2. QED
  BY <1>1, LoopReturned DEF Inv, OneThing

LEMMA AtTimer ==
  ASSUME Inv, NEW t \in {"compile", "install"}, timers[t] > 0
  PROVE  /\ loops = << >> /\ Where = "nowhere" /\ NoJob /\ timers[t] # 0 /\ Minus(t) \in Timers
         /\ Minus(t)["compile"] = 0 /\ Minus(t)["install"] = 0
<1>1. loops = << >> /\ NoJob /\ timers[t] = 1 /\ timers["compile"] + timers["install"] = 1
  BY DEF Inv, OneThing, NoTimer, TypeRest, Timers
<1>2. QED
  BY <1>1 DEF Inv, TypeRest, Timers, Minus, Where

LEMMA AtJob ==
  ASSUME Inv, proc.run \/ sessions # {}
  PROVE  /\ loops = << >> /\ Where = "nowhere" /\ NoTimer
         /\ proc.run => sessions = {}
         /\ \A s, d \in sessions : s = d
  BY DEF Inv, OneThing, NoTimer, NoJob, Where, TypeRest, Timers

-----------------------------------------------------------------------------
(* The steps, one lemma each *)

\* Boxes and what is on the screen concern the invariant little.
LEMMA BoxesClicked ==
  ASSUME Inv, ToggleBox \/ SelectAll
  PROVE  Inv'
<1>1. /\ compileBox' \subseteq Units /\ installBox' \subseteq Firewalls /\ page = "choose"
      /\ UNCHANGED <<modeVars, pageVars, buttonVars, listVars, cur, jobVars, timers, loops, histVars>>
  BY DEF Inv, ToggleBox, SelectAll, TypePage
<1>2. TypePage' /\ TypeRest' /\ TypeInstaller'
  BY <1>1 DEF Inv, TypePage, TypeRest, TypeInstaller, modeVars, pageVars, buttonVars,
     listVars, jobVars, histVars
<1>3. LoopInv' /\ OneThing' /\ PhaseInv' /\ ObjectInv' /\ JobInv'
  BY <1>1 DEF Inv, LoopInv, OneThing, PhaseInv, ObjectInv, JobInv, NoTimer, NoJob, Compiling, Installing,
     Where, What, ResultGoesToItsUnit, IsRunning, modeVars, pageVars, buttonVars,
     listVars, jobVars, histVars
<1>4. QED
  BY <1>2, <1>3 DEF Inv

\* The handlers that only hide or finish the wizard.
LEMMA WizardHidden ==
  ASSUME Inv, FinishClicked \/ EscapePressed
  PROVE  Inv'
<1>1. /\ visible' \in BOOLEAN /\ finished' \in BOOLEAN
      /\ UNCHANGED <<compileOnly, rejectDialogFlag, canceledAll, batch, page, op, complete, buttonVars,
                     boxVars, listVars, cur, jobVars, timers, loops, histVars>>
  BY DEF Inv, FinishClicked, EscapePressed, TypePage, pageVars
<1>2. TypePage' /\ TypeRest' /\ TypeInstaller'
  BY <1>1 DEF Inv, TypePage, TypeRest, TypeInstaller, buttonVars, boxVars, listVars, jobVars, histVars
<1>3. LoopInv' /\ OneThing' /\ PhaseInv' /\ ObjectInv' /\ JobInv'
  BY <1>1 DEF Inv, LoopInv, OneThing, PhaseInv, ObjectInv, JobInv, NoTimer, NoJob, Compiling, Installing,
     Where, What, ResultGoesToItsUnit, IsRunning, buttonVars, boxVars, listVars, jobVars, histVars
<1>4. QED
  BY <1>2, <1>3 DEF Inv

\* The main loop of the compile phase, called by the timer or behind the page's loop.
LEMMA CompileStep ==
  ASSUME Inv, CompileTimer \/ CompilePage
  PROVE  /\ Compiling /\ NoJob
         /\ timers' \in Timers /\ timers'["compile"] = 0 /\ timers'["install"] = 0
         /\ UNCHANGED <<modeVars, stopSlot, jobVars, halted>>
         /\ page = "work" /\ op = "compile" /\ ~complete /\ ~next
         /\ TypePage' /\ LoopInv' /\ stopOn' \in BOOLEAN /\ finishOn' \in [Pages -> BOOLEAN]
         /\ \/ /\ finished /\ loops' = << >>
               /\ UNCHANGED <<pageVars, next, boxVars, listVars, cur, outcome>>
            \/ /\ ~finished /\ loops' # << >> /\ Where' = "compiler" /\ What' = cur'
               /\ cur' \in compileList /\ compileList' = compileList \ {cur'}
               /\ UNCHANGED <<pageVars, next, boxVars, outcome>>
            \/ /\ ~finished /\ compileList = {} /\ cur' = cur /\ installList' = installBox
               /\ Where' \in {"nowhere", "install page"} /\ (Where' = "nowhere" => loops' = << >>)
               /\ Where' = "install page" => page' = "work" /\ op' = "install"
               /\ page' = "choose" => ~complete' /\ outcome' = [x \in Objects |-> "none"]
               /\ page' = "work" => /\ complete' /\ UNCHANGED <<boxVars, outcome>>
                                    /\ op' \in {"compile", "install"}
                                    /\ op' = "install" => compileBox = {}
<1>1. /\ \E b \in BOOLEAN : MainLoopCompile(<< >>, b)
      /\ Compiling /\ NoJob
      /\ timers' \in Timers /\ timers'["compile"] = 0 /\ timers'["install"] = 0
      /\ UNCHANGED <<modeVars, stopSlot, jobVars, halted>>
  <2>1. CASE CompileTimer
    BY <2>1, AtTimer DEF CompileTimer, Compiling
  <2>2. CASE CompilePage
    <3>1. Where = "compile page" /\ Rest = << >> /\ NoTimer /\ NoJob
      BY <2>2, InLoop DEF CompilePage, Places
    <3>2. QED
      BY <2>2, <3>1 DEF CompilePage, Compiling, NoTimer, Inv, TypeRest
  <2>3. QED
    BY <2>1, <2>2
<1>2. PICK b \in BOOLEAN : MainLoopCompile(<< >>, b)
  BY <1>1
<1>3. page = "work" /\ op = "compile" /\ ~complete /\ ~next
  BY <1>1 DEF Inv, PhaseInv
<1>4. QED
  BY <1>1, <1>2, <1>3, CompileLoop DEF Inv, TypeRest

LEMMA CompileGoesOn ==
  ASSUME Inv, CompileTimer \/ CompilePage
  PROVE  Inv'
<1>1. /\ Compiling /\ NoJob
      /\ timers' \in Timers /\ timers'["compile"] = 0 /\ timers'["install"] = 0
      /\ UNCHANGED <<modeVars, stopSlot, jobVars, halted>>
  BY CompileStep
<1>3. page = "work" /\ op = "compile" /\ ~complete /\ ~next
  BY CompileStep
<1>4. /\ TypePage' /\ LoopInv' /\ stopOn' \in BOOLEAN /\ finishOn' \in [Pages -> BOOLEAN]
      /\ \/ /\ finished /\ loops' = << >>
            /\ UNCHANGED <<pageVars, next, boxVars, listVars, cur, outcome>>
         \/ /\ ~finished /\ loops' # << >> /\ Where' = "compiler" /\ What' = cur'
            /\ cur' \in compileList /\ compileList' = compileList \ {cur'}
            /\ UNCHANGED <<pageVars, next, boxVars, outcome>>
         \/ /\ ~finished /\ compileList = {} /\ cur' = cur /\ installList' = installBox
            /\ Where' \in {"nowhere", "install page"} /\ (Where' = "nowhere" => loops' = << >>)
            /\ Where' = "install page" => page' = "work" /\ op' = "install"
            /\ page' = "choose" => ~complete' /\ outcome' = [x \in Objects |-> "none"]
            /\ page' = "work" => /\ complete' /\ UNCHANGED <<boxVars, outcome>>
                                 /\ op' \in {"compile", "install"}
                                 /\ op' = "install" => compileBox = {}
  BY CompileStep
<1>5. cur' \in Objects \cup {NoObject} /\ (Where' = "compiler" => cur' \in Units)
  BY <1>4 DEF Inv, TypePage, TypeRest, Units, Objects, Where
<1>6. TypeRest' /\ TypeInstaller'
  BY <1>1, <1>4, <1>5 DEF Inv, TypeRest, TypeInstaller, modeVars, jobVars
<1>7. OneThing' /\ NoJob'
  BY <1>1 DEF OneThing, NoTimer, NoJob, jobVars
<1>8. PhaseInv'
  <2>1. /\ Compiling' => Where' \in {"compile page", "compiler"}
        /\ Installing' => Where' \in Places \ {"compile page", "compiler"}
    <3>1. ~proc'.run /\ sessions' = {} /\ timers'["compile"] = 0 /\ timers'["install"] = 0
      BY <1>1 DEF NoJob, jobVars
    <3>2. QED
      BY <3>1 DEF Compiling, Installing
  <2>2. loops' = << >> => Where' = "nowhere"
    BY DEF Where
  <2>3. QED
    <3>1. CASE loops' = << >>
      BY <1>3, <1>4, <2>1, <2>2, <3>1 DEF PhaseInv, Places, pageVars
    <3>2. CASE Where' = "compiler" /\ UNCHANGED <<pageVars, next, boxVars, outcome>>
      BY <1>3, <2>1, <3>2 DEF PhaseInv, pageVars
    <3>3. CASE Where' = "install page"
      BY <1>4, <2>1, <2>2, <3>3 DEF PhaseInv
    <3>4. QED
      BY <1>4, <3>1, <3>2, <3>3
<1>9. ObjectInv' /\ JobInv'
  BY <1>1, <1>4, <1>5, <1>7 DEF Inv, ObjectInv, JobInv, ResultGoesToItsUnit, NoJob, IsRunning, jobVars, Where
<1>10. QED
  BY <1>4, <1>6, <1>7, <1>8, <1>9 DEF Inv

\* In the install phase the page stays.
LEMMA InstallStep ==
  ASSUME Inv, Installing, UNCHANGED <<page, op>>, ~Compiling'
  PROVE  PhaseInv'
<1>1. page = "work" /\ op = "install"
  BY DEF Inv, PhaseInv
<1>2. QED
  BY <1>1 DEF PhaseInv

\* The main loop of the install phase, called by the timer or behind the page's loop.
LEMMA InstallLoopCalled ==
  ASSUME Inv, InstallTimer \/ InstallPage
  PROVE  /\ \E b \in BOOLEAN, t \in Timers :
              t["compile"] = 0 /\ t["install"] = 0 /\ MainLoopInstall(<< >>, b, t)
         /\ Installing /\ NoJob
         /\ UNCHANGED <<modeVars, page, op, complete, next, stopSlot, boxVars, compileList, jobVars, histVars>>
<1>1. CASE InstallTimer
  BY <1>1, AtTimer DEF InstallTimer, Installing
<1>2. CASE InstallPage
  <2>1. /\ Where = "install page" /\ Rest = << >> /\ NoTimer /\ NoJob
        /\ Top.back \in BOOLEAN /\ timers \in Timers
    BY <1>2, InLoop DEF InstallPage, Places, Inv, TypeRest
  <2>2. QED
    BY <1>2, <2>1 DEF InstallPage, Installing, NoTimer, Places
<1>3. QED
  BY <1>1, <1>2

LEMMA InstallGoesOn ==
  ASSUME Inv, InstallTimer \/ InstallPage
  PROVE  Inv'
<1>1. /\ Installing /\ NoJob
      /\ UNCHANGED <<modeVars, page, op, complete, next, stopSlot, boxVars, compileList, jobVars, histVars>>
  BY InstallLoopCalled
<1>2. PICK b \in BOOLEAN, t \in Timers :
        t["compile"] = 0 /\ t["install"] = 0 /\ MainLoopInstall(<< >>, b, t)
  BY InstallLoopCalled
<1>3. /\ LoopInv' /\ stopOn' \in BOOLEAN /\ finishOn' \in [Pages -> BOOLEAN]
      /\ back' \in BOOLEAN /\ finished' \in BOOLEAN /\ installList' \subseteq installList
      /\ timers' \in Timers /\ timers'["compile"] = 0
      /\ \/ /\ finished' /\ loops' = << >> /\ timers' = t /\ cur' = cur
         \/ /\ ~finished /\ ~canceledAll /\ finished' = finished
            /\ cur' \in installList /\ installList' = installList \ {cur'}
            /\ \/ loops' = << >> /\ timers'["install"] = 1
               \/ /\ Where' \in {"options", "installer"} /\ What' = cur' /\ loops' # << >>
                  /\ timers' = t
  BY <1>2, InstallLoop DEF Inv, TypeRest
<1>4. loops' = << >> => Where' = "nowhere"
  BY DEF Where
<1>5. cur' \in Objects \cup {NoObject} /\ (Where' \in {"options", "installer"} => cur' \in Firewalls)
  BY <1>3, <1>4 DEF Inv, TypePage, TypeRest, Objects
<1>6. ~proc'.run /\ sessions' = {} /\ proc' = proc /\ installer' = installer
  BY <1>1 DEF NoJob, jobVars
<1>7. TypePage' /\ TypeRest' /\ TypeInstaller'
  BY <1>1, <1>3, <1>5, <1>6 DEF Inv, TypePage, TypeRest, TypeInstaller, modeVars, boxVars, histVars
<1>8. OneThing'
  BY <1>2, <1>3, <1>6 DEF OneThing, NoTimer, NoJob
<1>9. PhaseInv'
  <2>1. ~Compiling'
    BY <1>3, <1>4, <1>6 DEF Compiling
  <2>2. QED
    BY <1>1, <2>1, InstallStep
<1>10. ObjectInv' /\ JobInv'
  BY <1>3, <1>4, <1>5, <1>6 DEF Inv, ObjectInv, JobInv, ResultGoesToItsUnit
<1>11. QED
  BY <1>3, <1>7, <1>8, <1>9, <1>10 DEF Inv

\* The options dialog is answered.
LEMMA OptionsGiven ==
  ASSUME Inv, OptionsAnswered
  PROVE  Inv'
<1>1. /\ Where = "options" /\ Rest = << >> /\ Top.obj = What /\ Top.back \in BOOLEAN
      /\ NoTimer /\ NoJob /\ What = cur /\ cur \in Firewalls /\ Installing
  BY InLoop DEF OptionsAnswered, Places, Inv, ObjectInv, Installing
<1>2. UNCHANGED <<visible, compileOnly, rejectDialogFlag, pageVars, next, finishOn, stopOn,
                  stopSlot, boxVars, listVars, cur, jobVars, histVars>>
  BY DEF OptionsAnswered
<1>3. \/ timers' = Plus("install") /\ SetBack(Top.back) /\ loops' = << >>
      \/ timers' = timers /\ UNCHANGED back /\ Enter(<< >>, "installer", cur, Top.back)
  BY <1>1 DEF OptionsAnswered, OptionsKnown, Plus
<1>4. /\ LoopInv' /\ back' \in BOOLEAN /\ timers' \in Timers /\ timers'["compile"] = 0
      /\ \/ loops' = << >> /\ Where' = "nowhere" /\ timers'["install"] = 1
         \/ Where' = "installer" /\ What' = cur /\ timers'["install"] = 0
  <2>1. CASE timers' = Plus("install") /\ SetBack(Top.back) /\ loops' = << >>
    BY <1>1, <2>1 DEF Inv, TypePage, TypeRest, Timers, Plus, NoTimer, SetBack, LoopInv, Where
  <2>2. CASE timers' = timers /\ UNCHANGED back /\ Enter(<< >>, "installer", cur, Top.back)
    BY <1>1, <2>2, LoopEntered DEF Inv, TypePage, TypeRest, NoTimer, Places, Objects
  <2>3. QED
    BY <1>3, <2>1, <2>2
<1>5. ~proc'.run /\ sessions' = {} /\ proc' = proc /\ installer' = installer /\ cur' = cur
  BY <1>1, <1>2 DEF NoJob, jobVars
<1>6. batch' \in BOOLEAN /\ canceledAll' \in BOOLEAN
  BY DEF OptionsAnswered, Inv, TypeRest
<1>7. TypePage' /\ TypeRest' /\ TypeInstaller'
  BY <1>2, <1>4, <1>5, <1>6 DEF Inv, TypePage, TypeRest, TypeInstaller, pageVars, boxVars, listVars, histVars
<1>8. OneThing'
  BY <1>4, <1>5 DEF OneThing, NoTimer, NoJob
<1>9. PhaseInv'
  <2>1. ~Compiling'
    BY <1>4, <1>5 DEF Compiling
  <2>2. QED
    BY <1>1, <1>2, <2>1, InstallStep DEF pageVars
<1>10. ObjectInv' /\ JobInv'
  BY <1>1, <1>4, <1>5 DEF Inv, ObjectInv, JobInv, ResultGoesToItsUnit
<1>11. QED
  BY <1>4, <1>7, <1>8, <1>9, <1>10 DEF Inv

-----------------------------------------------------------------------------
(* Compilers, scripts and sessions *)

\* A handler comes back from its loop and enters no other: what is left in hand is
\* a timer or a job.
LEMMA LoopLeft ==
  ASSUME Inv, NEW b \in BOOLEAN, SetBack(b), loops' = << >>
  PROVE  LoopInv' /\ Where' = "nowhere" /\ What' = NoObject /\ back' \in BOOLEAN
  BY DEF Inv, TypePage, SetBack, LoopInv, Where, What

LEMMA CompilerRuns ==
  ASSUME Inv, RunCompiler
  PROVE  Inv'
<1>1. /\ Where = "compiler" /\ Rest = << >> /\ Top.obj = cur /\ Top.back \in BOOLEAN
      /\ NoTimer /\ NoJob /\ cur \in Units /\ Compiling
  BY InLoop DEF RunCompiler, Places, Inv, ObjectInv, Compiling
<1>2. page = "work" /\ op = "compile" /\ ~complete /\ ~next /\ cur \in Objects
  BY <1>1 DEF Inv, PhaseInv, Units, Objects
<1>3. /\ LoopInv' /\ Where' = "nowhere" /\ loops' = << >> /\ back' \in BOOLEAN
      /\ UNCHANGED <<modeVars, pageVars, next, finishOn, boxVars, listVars, cur, installer, sessions, halted>>
  BY <1>1, LoopLeft DEF RunCompiler
<1>4. \/ UNCHANGED <<stopOn, stopSlot, proc, timers, outcome>>
      \/ /\ stopSlot' = "compile" /\ stopOn' = TRUE
         /\ proc' = [Idle EXCEPT !.run = TRUE, !.unit = cur, !.slot = "compile"]
         /\ UNCHANGED <<timers, outcome>>
      \/ /\ stopSlot' = "compile" /\ stopOn' = TRUE
         /\ proc' = [proc EXCEPT !.slot = "compile"]
         /\ timers' = Plus("compile") /\ outcome' = [outcome EXCEPT ![cur] = "error"]
  BY <1>1 DEF RunCompiler, ExecuteCommand, CommandFails, NoJob
<1>5. /\ stopSlot' \in {"none", "compile", "install"} /\ stopOn' \in BOOLEAN
      /\ proc' \in Procs /\ outcome' \in Results
  <2>1. stopSlot' \in {"none", "compile", "install"} /\ stopOn' \in BOOLEAN
    BY <1>4 DEF Inv, TypeRest
  <2>2. /\ proc \in Procs /\ [proc EXCEPT !.slot = "compile"] \in Procs
        /\ [Idle EXCEPT !.run = TRUE, !.unit = cur, !.slot = "compile"] \in Procs
    BY <1>2 DEF Inv, TypeRest, Procs, Idle
  <2>3. outcome \in Results /\ [outcome EXCEPT ![cur] = "error"] \in Results
    BY <1>2 DEF Inv, TypePage, Results
  <2>4. QED
    BY <1>4, <2>1, <2>2, <2>3
<1>6. /\ timers' \in Timers /\ timers'["install"] = 0 /\ sessions' = {}
      /\ \/ ~proc'.run /\ timers'["compile"] \in {0, 1}
         \/ timers'["compile"] = 0 /\ proc'.run /\ proc'.unit = cur /\ proc'.slot = "compile"
  <2>1. /\ proc' = [Idle EXCEPT !.run = TRUE, !.unit = cur, !.slot = "compile"]
             => proc'.run /\ proc'.unit = cur /\ proc'.slot = "compile"
        /\ proc' = [proc EXCEPT !.slot = "compile"] => ~proc'.run
    BY <1>1 DEF Idle, Inv, TypeRest, Procs, NoJob
  <2>2. /\ Plus("compile") \in Timers /\ Plus("compile")["compile"] = 1 /\ Plus("compile")["install"] = 0
        /\ timers \in Timers /\ timers["compile"] = 0 /\ timers["install"] = 0
    BY <1>1 DEF Inv, TypeRest, Timers, NoTimer, Plus
  <2>3. QED
    BY <1>1, <1>3, <1>4, <2>1, <2>2 DEF NoJob
<1>7. TypePage' /\ TypeRest' /\ TypeInstaller'
  BY <1>3, <1>5, <1>6 DEF Inv, TypePage, TypeRest, TypeInstaller, modeVars, pageVars, boxVars, listVars
<1>8. OneThing'
  BY <1>3, <1>6 DEF OneThing, NoTimer, NoJob
<1>9. PhaseInv'
  <2>1. ~Installing' /\ page' = "work" /\ op' = "compile" /\ ~complete' /\ ~next'
    BY <1>2, <1>3, <1>6 DEF Installing, Places, pageVars
  <2>2. QED
    BY <2>1 DEF PhaseInv
<1>10. ObjectInv' /\ JobInv'
  BY <1>3, <1>6 DEF Inv, ObjectInv, JobInv, ResultGoesToItsUnit
<1>11. QED
  BY <1>3, <1>7, <1>8, <1>9, <1>10 DEF Inv

\* executeExternalInstallScript.
LEMMA ScriptRuns ==
  ASSUME Inv, RunScript
  PROVE  Inv'
<1>1. /\ Where = "script" /\ Rest = << >> /\ Top.obj = cur /\ Top.back \in BOOLEAN
      /\ NoTimer /\ NoJob /\ cur \in Objects /\ Installing
  BY InLoop DEF RunScript, Places, Inv, ObjectInv, Installing, Objects
<1>2. /\ LoopInv' /\ Where' = "nowhere" /\ loops' = << >> /\ back' \in BOOLEAN
      /\ UNCHANGED <<modeVars, pageVars, next, finishOn, stopSlot, boxVars, listVars,
                     cur, installer, sessions, histVars>>
  BY <1>1, LoopLeft DEF RunScript
<1>3. /\ stopOn' = TRUE
      /\ \/ /\ proc' = [Idle EXCEPT !.run = TRUE, !.unit = cur, !.slot = "install"]
            /\ timers' = timers
         \/ /\ proc' = [proc EXCEPT !.slot = "install"]
            /\ timers' = Plus("install")
  BY <1>1 DEF RunScript, ExecuteCommand, CommandFails, NoJob
<1>4. proc' \in Procs
  BY <1>1, <1>3 DEF Inv, TypeRest, Procs, Idle
<1>5. /\ timers' \in Timers /\ timers'["compile"] = 0 /\ sessions' = {}
      /\ \/ ~proc'.run /\ timers'["install"] \in {0, 1}
         \/ timers'["install"] = 0 /\ proc'.run /\ proc'.unit = cur /\ proc'.slot = "install"
  <2>1. /\ proc' = [Idle EXCEPT !.run = TRUE, !.unit = cur, !.slot = "install"]
             => proc'.run /\ proc'.unit = cur /\ proc'.slot = "install"
        /\ proc' = [proc EXCEPT !.slot = "install"] => ~proc'.run
    <3>1. proc' = [Idle EXCEPT !.run = TRUE, !.unit = cur, !.slot = "install"]
             => proc'.run /\ proc'.unit = cur /\ proc'.slot = "install"
      BY DEF Idle
    <3>2. proc' = [proc EXCEPT !.slot = "install"] => ~proc'.run
      BY <1>1 DEF Inv, TypeRest, Procs, NoJob
    <3>3. QED
      BY <3>1, <3>2
  <2>2. timers \in Timers /\ timers["install"] = 0 /\ timers["compile"] = 0
    BY <1>1 DEF Inv, TypeRest, NoTimer
  <2>3. /\ Plus("install") \in Timers /\ Plus("install")["install"] = 1
        /\ Plus("install")["compile"] = 0
    BY <2>2 DEF Timers, Plus
  <2>4. QED
    BY <1>1, <1>2, <1>3, <2>1, <2>2, <2>3 DEF NoJob
<1>6. TypePage' /\ TypeRest' /\ TypeInstaller'
  BY <1>2, <1>3, <1>4, <1>5 DEF Inv, TypePage, TypeRest, TypeInstaller, modeVars, pageVars, boxVars,
     listVars, histVars
<1>7. OneThing'
  BY <1>2, <1>5 DEF OneThing, NoTimer, NoJob
<1>8. PhaseInv'
  <2>1. ~Compiling'
    BY <1>2, <1>5 DEF Compiling
  <2>2. QED
    BY <1>1, <1>2, <2>1, InstallStep DEF pageVars
<1>9. ObjectInv' /\ JobInv'
  BY <1>2, <1>5 DEF Inv, ObjectInv, JobInv, ResultGoesToItsUnit
<1>10. QED
  BY <1>2, <1>6, <1>7, <1>8, <1>9 DEF Inv

\* copyFile and executeSession.
LEMMA SessionRuns ==
  ASSUME Inv, RunSession
  PROVE  Inv'
<1>1. /\ Where \in {"copy", "activate"} /\ In(Where) /\ Where \in Places
  BY InLoop DEF RunSession, Places
<1>2. /\ Rest = << >> /\ Top.obj = cur /\ Top.obj = What /\ Top.at = Where /\ Top.back \in BOOLEAN
      /\ NoTimer /\ NoJob /\ cur \in Firewalls /\ Installing
  BY <1>1, InLoop DEF In, Inv, ObjectInv, Installing
<1>3. /\ LoopInv' /\ Where' = "nowhere" /\ loops' = << >> /\ back' \in BOOLEAN
      /\ UNCHANGED <<modeVars, pageVars, next, finishOn, stopOn, stopSlot, boxVars, listVars,
                     cur, proc, timers, histVars>>
  BY <1>2, LoopLeft DEF RunSession
<1>4. /\ sessions' \in {{}, {Session(cur, Where)}}
      /\ \/ /\ installer.alive /\ installer.fw = cur
            /\ installer' = [installer EXCEPT !.session = Where]
         \/ ~(installer.alive /\ installer.fw = cur) /\ installer' = installer
  BY <1>2 DEF RunSession, NoJob
<1>5. sessions' \subseteq [fw : Firewalls, job : Jobs]
  BY <1>1, <1>2, <1>4 DEF Session, Jobs
<1>6. TypeInstaller'
  BY <1>1, <1>4 DEF Inv, TypeInstaller, Jobs
<1>7. TypePage' /\ TypeRest'
  BY <1>3, <1>5 DEF Inv, TypePage, TypeRest, modeVars, pageVars, boxVars, listVars, histVars
<1>8. OneThing'
  BY <1>2, <1>3, <1>4 DEF OneThing, NoTimer, NoJob
<1>9. PhaseInv'
  <2>1. ~Compiling'
    BY <1>2, <1>3 DEF Compiling, NoTimer, NoJob
  <2>2. QED
    BY <1>2, <1>3, <2>1, InstallStep DEF pageVars
<1>10. ObjectInv'
  <2>1. cur' = cur /\ \A s \in sessions' : s.fw = cur
    BY <1>3, <1>4 DEF Session
  <2>2. ~proc'.run
    BY <1>2, <1>3 DEF NoJob
  <2>3. QED
    BY <1>3, <2>1, <2>2 DEF ObjectInv, ResultGoesToItsUnit
<1>11. JobInv'
  <2>1. /\ installer'.jobs = installer.jobs
        /\ Where = "copy" => installer.alive /\ installer.fw = cur /\ installer.jobs = <<"activate">>
    BY <1>2, <1>4 DEF Inv, JobInv, TypeInstaller
  <2>2. installer'.session = "copy" => installer'.jobs = <<"activate">>
    BY <1>1, <1>4, <2>1 DEF Inv, JobInv, TypeInstaller
  <2>3. \A s \in sessions' : s.job = "copy" => IsRunning(s)'
    BY <1>4, <2>1 DEF IsRunning, Session, Inv, TypeInstaller
  <2>4. QED
    BY <1>3, <2>2, <2>3 DEF JobInv
<1>12. QED
  BY <1>3, <1>6, <1>7, <1>8, <1>9, <1>10, <1>11 DEF Inv

JobLists == {<<"script">>, <<"copy", "activate">>, <<"activate">>}

\* What runJobs leaves: the loop of the first job, or nothing if the wizard has finished.
LEMMA JobTaken ==
  ASSUME TypePage, NEW f \in Firewalls, NEW jobs \in JobLists, NEW b \in BOOLEAN,
         RunJobs(f, jobs, << >>, b)
  PROVE  /\ LoopInv' /\ TypeInstaller' /\ back' \in BOOLEAN /\ timers' = timers
         /\ installer'.alive /\ installer'.fw = f /\ installer'.session = "none"
         /\ \/ finished /\ loops' = << >> /\ Where' = "nowhere"
            \/ ~finished /\ Where' = jobs[1] /\ Where' \in Jobs /\ What' = f
         /\ Where' = "copy" => installer'.jobs = <<"activate">> /\ jobs = <<"copy", "activate">>
<1>1. /\ Head(jobs) = jobs[1] /\ jobs[1] \in Jobs /\ jobs \in Seq(Jobs) /\ Tail(jobs) \in Seq(Jobs)
      /\ jobs[1] = "copy" => Tail(jobs) = <<"activate">> /\ jobs = <<"copy", "activate">>
  <2>1. CASE jobs = <<"script">>
    BY <2>1 DEF Jobs
  <2>2. CASE jobs = <<"activate">>
    BY <2>2 DEF Jobs
  <2>3. CASE jobs = <<"copy", "activate">>
    <3>1. Head(jobs) = "copy" /\ jobs[1] = "copy" /\ Tail(jobs) = <<"activate">>
      BY <2>3
    <3>2. QED
      BY <2>3, <3>1 DEF Jobs
  <2>4. QED
    BY <2>1, <2>2, <2>3 DEF JobLists
<1>2. jobs[1] \in Places /\ f \in Objects
  BY <1>1 DEF Jobs, Places, Objects
<1>3. CASE finished
  <2>1. /\ installer' = [alive |-> TRUE, fw |-> f, jobs |-> jobs, session |-> "none"]
        /\ SetBack(b) /\ loops' = << >> /\ UNCHANGED timers
    BY <1>3 DEF RunJobs
  <2>2. LoopInv' /\ Where' = "nowhere" /\ back' \in BOOLEAN
    BY <2>1 DEF TypePage, SetBack, LoopInv, Where
  <2>3. TypeInstaller'
    BY <1>1, <2>1 DEF TypeInstaller
  <2>4. QED
    BY <1>3, <2>1, <2>2, <2>3
<1>4. CASE ~finished
  <2>1. /\ Enter(<< >>, jobs[1], f, b) /\ UNCHANGED <<timers, back>>
        /\ installer' = [alive |-> TRUE, fw |-> f, jobs |-> Tail(jobs), session |-> "none"]
    BY <1>1, <1>4 DEF RunJobs
  <2>2. LoopInv' /\ Where' = jobs[1] /\ What' = f
    BY <1>2, <2>1, LoopEntered
  <2>3. TypeInstaller'
    BY <1>1, <2>1 DEF TypeInstaller
  <2>4. QED
    BY <1>1, <1>4, <2>1, <2>2, <2>3 DEF TypePage
<1>5. QED
  BY <1>3, <1>4

\* runInstaller and the first job.
LEMMA InstallerRuns ==
  ASSUME Inv, RunInstaller
  PROVE  Inv'
<1>1. /\ Where = "installer" /\ Rest = << >> /\ Top.obj = cur /\ Top.back \in BOOLEAN
      /\ NoTimer /\ NoJob /\ cur \in Firewalls /\ Installing
  BY InLoop DEF RunInstaller, Places, Inv, ObjectInv, Installing
<1>2. UNCHANGED <<modeVars, pageVars, next, finishOn, stopOn, boxVars, listVars,
                  cur, proc, sessions, histVars>>
  BY DEF RunInstaller
<1>3. \/ stopSlot' = "install" /\ RunJobs(cur, Plan(cur), << >>, Top.back)
      \/ /\ installer' = [NoInstaller EXCEPT !.alive = TRUE, !.fw = cur]
         /\ timers' = Plus("install") /\ SetBack(Top.back) /\ loops' = << >>
         /\ UNCHANGED stopSlot
  BY <1>1 DEF RunInstaller
<1>4. Plan(cur) \in JobLists
  BY DEF Plan, JobLists
<1>5. ~proc'.run /\ sessions' = {} /\ proc' = proc /\ cur' = cur /\ timers["compile"] = 0 /\ timers["install"] = 0
  BY <1>1, <1>2 DEF NoJob, NoTimer
<1>6. /\ LoopInv' /\ TypeInstaller' /\ back' \in BOOLEAN /\ timers' \in Timers
      /\ timers'["compile"] = 0 /\ timers'["install"] \in {0, 1} /\ stopSlot' \in {"none", "compile", "install"}
      /\ installer'.session = "none"
      /\ \/ loops' = << >> /\ Where' = "nowhere"
         \/ Where' \in Jobs /\ What' = cur /\ timers'["install"] = 0
      /\ Where' = "copy" => installer'.alive /\ installer'.fw = What' /\ installer'.jobs = <<"activate">>
  <2>1. CASE stopSlot' = "install" /\ RunJobs(cur, Plan(cur), << >>, Top.back)
    BY <1>1, <1>4, <1>5, <2>1, JobTaken DEF Inv, TypeRest
  <2>2. CASE /\ installer' = [NoInstaller EXCEPT !.alive = TRUE, !.fw = cur]
             /\ timers' = Plus("install") /\ SetBack(Top.back) /\ loops' = << >>
             /\ UNCHANGED stopSlot
    <3>1. LoopInv' /\ Where' = "nowhere" /\ back' \in BOOLEAN
      BY <1>1, <2>2, LoopLeft
    <3>2. TypeInstaller' /\ installer'.session = "none"
      <4>1. << >> \in Seq(Jobs)
        OBVIOUS
      <4>2. QED
        BY <1>1, <2>2, <4>1 DEF TypeInstaller, NoInstaller
    <3>3. timers' \in Timers /\ timers'["compile"] = 0 /\ timers'["install"] \in {0, 1}
      BY <1>5, <2>2 DEF Plus, Inv, TypeRest, Timers
    <3>4. QED
      BY <2>2, <3>1, <3>2, <3>3 DEF Inv, TypeRest
  <2>3. QED
    BY <1>3, <2>1, <2>2
<1>7. TypePage' /\ TypeRest'
  BY <1>2, <1>6 DEF Inv, TypePage, TypeRest, modeVars, pageVars, boxVars, listVars, histVars
<1>8. OneThing'
  BY <1>5, <1>6 DEF OneThing, NoTimer, NoJob, Where, Jobs
<1>9. PhaseInv'
  <2>1. ~Compiling'
    BY <1>5, <1>6 DEF Compiling, Jobs
  <2>2. QED
    BY <1>1, <1>2, <2>1, InstallStep DEF pageVars
<1>10. ObjectInv' /\ JobInv'
  BY <1>1, <1>5, <1>6 DEF ObjectInv, JobInv, ResultGoesToItsUnit, Jobs
<1>11. QED
  BY <1>6, <1>7, <1>8, <1>9, <1>10 DEF Inv

\* A session ends; after a copy the activation begins.
LEMMA SessionOver ==
  ASSUME Inv, SomeSessionEnds
  PROVE  Inv'
<1>1. PICK s \in sessions, ok \in BOOLEAN : SessionEnds(s, ok)
  BY DEF SomeSessionEnds
<1>2. /\ loops = << >> /\ Where = "nowhere" /\ NoTimer /\ ~proc.run /\ sessions = {s}
      /\ s.fw = cur /\ s \in [fw : Firewalls, job : Jobs] /\ cur \in Firewalls /\ Installing
  BY <1>1, AtJob DEF Inv, ObjectInv, ResultGoesToItsUnit, TypeRest, Installing
<1>3. /\ sessions' = {}
      /\ UNCHANGED <<modeVars, pageVars, next, finishOn, stopOn, stopSlot, boxVars, listVars,
                     cur, proc, histVars>>
  BY <1>1, <1>2 DEF SessionEnds
<1>4. ~proc'.run /\ proc' = proc /\ cur' = cur /\ timers["compile"] = 0 /\ timers["install"] = 0
  BY <1>2, <1>3 DEF NoTimer
<1>5. s.job = "copy" => installer.alive /\ installer.session = "copy" /\ installer.jobs = <<"activate">>
  BY <1>1 DEF Inv, JobInv, IsRunning
<1>6. \/ RunJobs(cur, <<"activate">>, << >>, FALSE)
      \/ UNCHANGED <<installer, loops, back, timers>>
      \/ timers' = Plus("install") /\ UNCHANGED <<installer, loops, back>>
  BY <1>1, <1>2, <1>5 DEF SessionEnds
<1>7. /\ LoopInv' /\ TypeInstaller' /\ back' \in BOOLEAN /\ timers' \in Timers
      /\ timers'["compile"] = 0 /\ timers'["install"] \in {0, 1}
      /\ installer'.session = "copy" => installer'.jobs = <<"activate">>
      /\ \/ loops' = << >> /\ Where' = "nowhere"
         \/ Where' = "activate" /\ What' = cur /\ timers'["install"] = 0
  <2>1. CASE RunJobs(cur, <<"activate">>, << >>, FALSE)
    BY <1>2, <1>4, <2>1, JobTaken DEF Inv, TypeRest, JobLists
  <2>2. CASE UNCHANGED <<installer, loops, back>> /\ timers' \in {timers, Plus("install")}
    <3>1. LoopInv' /\ TypeInstaller' /\ back' \in BOOLEAN /\ loops' = << >> /\ Where' = "nowhere"
      BY <1>2, <2>2 DEF Inv, TypePage, LoopInv, Where, TypeInstaller
    <3>2. timers' \in Timers /\ timers'["compile"] = 0 /\ timers'["install"] \in {0, 1}
      BY <1>4, <2>2 DEF Plus, Inv, TypeRest, Timers
    <3>3. QED
      BY <2>2, <3>1, <3>2 DEF Inv, JobInv
  <2>3. QED
    BY <1>6, <2>1, <2>2
<1>8. TypePage' /\ TypeRest'
  BY <1>3, <1>7 DEF Inv, TypePage, TypeRest, modeVars, pageVars, boxVars, listVars, histVars
<1>9. OneThing'
  BY <1>3, <1>4, <1>7 DEF OneThing, NoTimer, NoJob, Where
<1>10. PhaseInv'
  <2>1. ~Compiling'
    BY <1>4, <1>7 DEF Compiling
  <2>2. QED
    BY <1>2, <1>3, <2>1, InstallStep DEF pageVars
<1>11. ObjectInv' /\ JobInv'
  BY <1>2, <1>3, <1>4, <1>7 DEF ObjectInv, JobInv, ResultGoesToItsUnit
<1>12. QED
  BY <1>7, <1>8, <1>9, <1>10, <1>11 DEF Inv

\* The compiler or the install script ends.
LEMMA ProcessOver ==
  ASSUME Inv, ProcessEnds
  PROVE  Inv'
<1>1. /\ loops = << >> /\ Where = "nowhere" /\ NoTimer /\ sessions = {} /\ proc.run
      /\ cur \in Objects \cup {NoObject} /\ proc.unit = cur /\ proc.slot \in {"compile", "install"}
  BY AtJob DEF ProcessEnds, Inv, ObjectInv, ResultGoesToItsUnit, TypeRest, Procs, OneThing, NoJob
<1>2. /\ proc' = [Idle EXCEPT !.slot = proc.slot]
      /\ UNCHANGED <<compileOnly, canceledAll, batch, pageVars, buttonVars, compileBox, listVars,
                     cur, installer, sessions, halted>>
  BY DEF ProcessEnds
<1>3. proc' \in Procs /\ ~proc'.run /\ sessions' = {} /\ cur' = cur /\ installer' = installer
  BY <1>1, <1>2 DEF Idle, Procs
<1>4. PICK ok \in BOOLEAN :
        \/ proc.slot = "compile" /\ CompilerFinished(ok) /\ UNCHANGED loops
        \/ /\ proc.slot = "install" /\ Enter(<< >>, "script ended", cur, FALSE)
           /\ UNCHANGED <<visible, rejectDialogFlag, installBox, outcome, timers>>
  BY <1>1 DEF ProcessEnds
<1>5. /\ visible' \in BOOLEAN /\ rejectDialogFlag' \in BOOLEAN /\ installBox' \subseteq Firewalls
      /\ outcome' \in Results /\ timers' \in Timers /\ LoopInv'
      /\ \/ /\ proc.slot = "compile" /\ loops' = << >> /\ Where' = "nowhere"
            /\ timers'["install"] = 0 /\ timers'["compile"] \in {0, 1}
         \/ /\ proc.slot = "install" /\ Where' = "script ended" /\ What' = cur
            /\ timers'["install"] = 0 /\ timers'["compile"] = 0
  <2>1. CASE proc.slot = "compile" /\ CompilerFinished(ok) /\ UNCHANGED loops
    <3>1. /\ visible' \in {visible, FALSE} /\ rejectDialogFlag' \in {rejectDialogFlag, FALSE}
          /\ installBox' \in {installBox, installBox \ UNION {Targets(u) : u \in {cur}}}
          /\ outcome' \in {outcome, [outcome EXCEPT ![cur] = "ok"], [outcome EXCEPT ![cur] = "error"]}
          /\ timers' \in {timers, Plus("compile")}
      BY <2>1 DEF CompilerFinished, BlockInstall
    <3>2. Plus("compile") \in Timers /\ Plus("compile")["compile"] = 1 /\ Plus("compile")["install"] = 0
      BY <1>1 DEF Plus, Inv, TypeRest, Timers, NoTimer
    <3>3. LoopInv' /\ loops' = << >> /\ Where' = "nowhere"
      BY <1>1, <2>1 DEF LoopInv, Where
    <3>4. installBox' \subseteq Firewalls /\ outcome' \in Results
      BY <3>1 DEF Inv, TypePage, Results
    <3>5. visible' \in BOOLEAN /\ rejectDialogFlag' \in BOOLEAN /\ timers' \in Timers
      BY <3>1, <3>2 DEF Inv, TypeRest
    <3>6. timers'["install"] = 0 /\ timers'["compile"] \in {0, 1}
      BY <1>1, <3>1, <3>2 DEF NoTimer
    <3>7. QED
      BY <2>1, <3>3, <3>4, <3>5, <3>6
  <2>2. CASE /\ proc.slot = "install" /\ Enter(<< >>, "script ended", cur, FALSE)
             /\ UNCHANGED <<visible, rejectDialogFlag, installBox, outcome, timers>>
    BY <1>1, <2>2, LoopEntered DEF Places, Inv, TypePage, TypeRest, NoTimer
  <2>3. QED
    BY <1>4, <2>1, <2>2
<1>6. TypePage' /\ TypeRest' /\ TypeInstaller'
  <2>1. TypePage'
    BY <1>2, <1>5 DEF Inv, TypePage, pageVars, buttonVars, listVars
  <2>2. TypeRest'
    BY <1>2, <1>3, <1>5 DEF Inv, TypeRest, buttonVars
  <2>3. TypeInstaller'
    BY <1>3 DEF Inv, TypeInstaller
  <2>4. QED
    BY <2>1, <2>2, <2>3
<1>7. OneThing'
  BY <1>3, <1>5 DEF OneThing, NoTimer, NoJob
<1>8. PhaseInv'
  <2>1. CASE proc.slot = "compile"
    <3>1. page' = "work" /\ op' = "compile" /\ ~complete' /\ ~next'
      BY <1>1, <1>2, <2>1 DEF Inv, PhaseInv, Compiling, pageVars, buttonVars
    <3>2. ~Installing'
      BY <1>3, <1>5, <2>1 DEF Installing, Places
    <3>3. QED
      BY <3>1, <3>2 DEF PhaseInv
  <2>2. CASE proc.slot = "install"
    <3>1. ~Compiling'
      BY <1>3, <1>5, <2>2 DEF Compiling
    <3>2. Installing
      BY <1>1, <2>2 DEF Installing
    <3>3. QED
      BY <1>2, <3>1, <3>2, InstallStep DEF pageVars
  <2>3. QED
    BY <1>1, <2>1, <2>2
<1>9. ObjectInv' /\ JobInv'
  BY <1>3, <1>5 DEF Inv, ObjectInv, JobInv, ResultGoesToItsUnit
<1>10. QED
  BY <1>5, <1>6, <1>7, <1>8, <1>9 DEF Inv

\* installerFinished behind its loop.
LEMMA ScriptOver ==
  ASSUME Inv, ScriptEnded
  PROVE  Inv'
<1>1. /\ Where = "script ended" /\ Rest = << >> /\ Top.back \in BOOLEAN
      /\ NoTimer /\ NoJob /\ Installing
  BY InLoop DEF ScriptEnded, Places, Installing
<1>2. /\ LoopInv' /\ Where' = "nowhere" /\ loops' = << >> /\ back' \in BOOLEAN
      /\ UNCHANGED <<modeVars, pageVars, next, finishOn, stopOn, stopSlot, boxVars, listVars,
                     cur, jobVars, histVars>>
  BY <1>1, LoopLeft DEF ScriptEnded
<1>3. /\ timers' \in Timers /\ timers'["compile"] = 0 /\ timers'["install"] = 1
      /\ ~proc'.run /\ sessions' = {}
  <2>1. timers' \in Timers /\ timers'["compile"] = 0 /\ timers'["install"] = 1
    <3>1. timers' = [timers EXCEPT !["install"] = @ + 1]
      BY DEF ScriptEnded, Plus
    <3>2. timers["compile"] = 0 /\ timers["install"] = 0 /\ timers \in Timers
      BY <1>1 DEF Inv, TypeRest, NoTimer
    <3>3. QED
      BY <3>1, <3>2 DEF Timers
  <2>2. ~proc'.run /\ sessions' = {}
    BY <1>1, <1>2 DEF NoJob, jobVars
  <2>3. QED
    BY <2>1, <2>2
<1>4. TypePage' /\ TypeRest' /\ TypeInstaller'
  BY <1>2, <1>3 DEF Inv, TypePage, TypeRest, TypeInstaller, modeVars, pageVars, boxVars,
     listVars, jobVars, histVars
<1>5. OneThing'
  BY <1>2, <1>3 DEF OneThing, NoTimer, NoJob
<1>6. PhaseInv'
  <2>1. ~Compiling'
    BY <1>2, <1>3 DEF Compiling
  <2>2. QED
    BY <1>1, <1>2, <2>1, InstallStep DEF pageVars
<1>7. ObjectInv' /\ JobInv'
  BY <1>2, <1>3 DEF Inv, ObjectInv, JobInv, ResultGoesToItsUnit, jobVars
<1>8. QED
  BY <1>2, <1>4, <1>5, <1>6, <1>7 DEF Inv

\* The kill a second after Stop changes what is left of the process only.
LEMMA KillFires ==
  ASSUME Inv, KillTimer
  PROVE  Inv'
<1>1. /\ timers' \in Timers /\ timers'["compile"] = timers["compile"]
      /\ timers'["install"] = timers["install"]
      /\ proc' \in Procs /\ proc'.run = proc.run /\ proc'.unit = proc.unit /\ proc'.slot = proc.slot
  BY DEF KillTimer, Minus, Inv, TypeRest, Timers, Procs
<1>2. UNCHANGED <<modeVars, pageVars, buttonVars, boxVars, listVars, cur, installer,
                  sessions, loops, histVars>>
  BY DEF KillTimer
<1>3. TypePage' /\ TypeRest' /\ TypeInstaller'
  BY <1>1, <1>2 DEF Inv, TypePage, TypeRest, TypeInstaller, modeVars, pageVars, buttonVars,
     boxVars, listVars, histVars
<1>4. LoopInv' /\ OneThing' /\ ObjectInv' /\ JobInv'
  BY <1>1, <1>2 DEF Inv, LoopInv, OneThing, ObjectInv, JobInv, NoTimer, NoJob,
     Where, What, ResultGoesToItsUnit, IsRunning
<1>5. PhaseInv'
  BY <1>1, <1>2 DEF Inv, PhaseInv, Compiling, Installing, Where, pageVars, buttonVars, histVars
<1>6. QED
  BY <1>3, <1>4, <1>5 DEF Inv

-----------------------------------------------------------------------------
(* The user *)

LEMMA PhaseOver ==
  ASSUME Inv, ~Compiling, ~Installing
  PROVE  NoTimer /\ NoJob
<1>1. timers["compile"] = 0 /\ timers["install"] = 0 /\ sessions = {}
  BY DEF Compiling, Installing
<1>2. ~proc.run
  BY DEF Compiling, Installing, Inv, TypeRest, Procs
<1>3. QED
  BY <1>1, <1>2 DEF NoTimer, NoJob

\* A page is shown while nothing is going on.
LEMMA PageShown ==
  ASSUME Inv, NoTimer, NoJob, NEW o \in Ops, ShowPageWork(o, complete, << >>, FALSE),
         UNCHANGED <<modeVars, finishOn, stopOn, stopSlot, cur, jobVars, timers>>,
         halted' \in {halted, "no"}
  PROVE  Inv'
<1>1. /\ TypePage' /\ LoopInv'
      /\ Where' \in {"nowhere", "compile page", "install page"}
      /\ Where' = "compile page" => page' = "work" /\ op' = "compile" /\ ~complete' /\ ~next'
      /\ Where' = "install page" => page' = "work" /\ op' = "install"
      /\ page' = "choose" => ~complete' /\ outcome' = [x \in Objects |-> "none"]
  BY WorkShown DEF Inv, TypePage, TypeRest
<1>2. timers' = timers /\ timers["compile"] = 0 /\ timers["install"] = 0
      /\ ~proc'.run /\ sessions' = {} /\ proc' = proc /\ installer' = installer /\ cur' = cur
  BY DEF NoTimer, NoJob, jobVars
<1>3. TypeRest' /\ TypeInstaller'
  <2>1. TypeInstaller'
    BY <1>2 DEF Inv, TypeInstaller
  <2>2. /\ UNCHANGED <<modeVars, finishOn, stopOn, stopSlot, cur, proc, sessions, timers>>
        /\ halted' \in {"no", "compile", "install"}
    BY DEF Inv, TypeRest, jobVars
  <2>3. QED
    BY <2>1, <2>2 DEF Inv, TypeRest, modeVars
<1>4. OneThing'
  BY <1>2 DEF OneThing, NoTimer, NoJob
<1>5. PhaseInv'
  BY <1>1, <1>2 DEF PhaseInv, Compiling, Installing, Places
<1>6. ObjectInv' /\ JobInv'
  BY <1>1, <1>2 DEF Inv, ObjectInv, JobInv, ResultGoesToItsUnit
<1>7. QED
  BY <1>1, <1>3, <1>4, <1>5, <1>6 DEF Inv

LEMMA NextShown ==
  ASSUME Inv, UserWaits, NextClicked
  PROVE  Inv'
<1>1. loops = << >>
  BY ClicksWait DEF NextClicked
<1>2. ~Compiling /\ ~Installing
  BY DEF NextClicked, Inv, PhaseInv
<1>3. QED
  BY <1>1, <1>2, PhaseOver, PageShown DEF NextClicked, Ops

LEMMA FilesShown ==
  ASSUME Inv, UserWaits, InspectFiles
  PROVE  Inv'
<1>1. loops = << >>
  BY ClicksWait DEF InspectFiles
<1>2. ~Compiling /\ ~Installing
  BY DEF InspectFiles, Inv, PhaseInv
<1>3. QED
  BY <1>1, <1>2, PhaseOver, PageShown DEF InspectFiles, Ops

LEMMA NotBusy ==
  ASSUME Inv, ~Busy
  PROVE  loops = << >> /\ NoTimer /\ NoJob
<1>1. ~proc.run /\ loops = << >> /\ sessions = {}
  BY DEF Busy
<1>2. timers["compile"] = 0 /\ timers["install"] = 0
  BY DEF Busy, Inv, TypeRest, Timers
<1>3. QED
  BY <1>1, <1>2 DEF NoTimer, NoJob

\* The first page is shown while nothing is going on.
LEMMA FirstPageShown ==
  ASSUME Inv, NoTimer, NoJob, loops = << >>, NEW only \in BOOLEAN, ShowPageChoose(only),
         TypeInstaller', TypeRest', op' \in Ops, compileList' \subseteq Units,
         installList' \subseteq Firewalls, ~(installer'.session = "copy") \/ UNCHANGED installer,
         UNCHANGED <<next, back, cur, proc, sessions, timers, loops>>
  PROVE  Inv'
<1>1. /\ page' = "choose" /\ ~complete' /\ outcome' = [x \in Objects |-> "none"] /\ TypePage'
  BY ChooseShown DEF Inv, TypePage, Pages
<1>2. /\ loops' = << >> /\ Where' = "nowhere" /\ What' = NoObject /\ timers' = timers
      /\ timers["compile"] = 0 /\ timers["install"] = 0
      /\ ~proc'.run /\ sessions' = {} /\ proc' = proc /\ cur' = cur
  BY DEF NoTimer, NoJob, Where, What
<1>3. OneThing' /\ LoopInv'
  BY <1>2 DEF OneThing, NoTimer, NoJob, LoopInv
<1>4. PhaseInv'
  BY <1>1, <1>2 DEF PhaseInv, Compiling, Installing, Places
<1>5. ObjectInv' /\ JobInv'
  BY <1>1, <1>2 DEF Inv, ObjectInv, JobInv, ResultGoesToItsUnit
<1>6. QED
  BY <1>1, <1>3, <1>4, <1>5 DEF Inv

LEMMA BackShown ==
  ASSUME Inv, UserWaits, BackClicked
  PROVE  Inv'
<1>1. loops = << >>
  BY ClicksWait DEF BackClicked
<1>2. UNCHANGED <<modeVars, finishOn, stopOn, stopSlot, cur, jobVars, timers, halted>>
  BY DEF BackClicked
<1>3. CASE op = "inspect" /\ ShowPageWork("compile", complete, loops, FALSE)
  <2>1. ~Compiling /\ ~Installing
    BY <1>3 DEF Inv, PhaseInv
  <2>2. QED
    BY <1>1, <1>2, <1>3, <2>1, PhaseOver, PageShown DEF Ops
<1>4. CASE /\ (Busy => "back while busy" \in Moves) /\ ShowPageChoose(compileOnly)
           /\ UNCHANGED <<op, next, back, listVars, loops>>
  <2>1. NoTimer /\ NoJob
    BY <1>4, NotBusy DEF UserWaits
  <2>2. TypeInstaller' /\ TypeRest' /\ UNCHANGED installer
    BY <1>2 DEF Inv, TypeInstaller, TypeRest, modeVars, jobVars
  <2>3. QED
    BY <1>1, <1>2, <1>4, <2>1, <2>2, FirstPageShown DEF Inv, TypeRest, TypePage, listVars, jobVars
<1>5. QED
  BY <1>3, <1>4 DEF BackClicked

\* The menu item.
LEMMA WizardShown ==
  ASSUME Inv, UserWaits, NEW only \in BOOLEAN, Show(only)
  PROVE  Inv'
<1>1. NoTimer /\ NoJob /\ loops = << >>
  BY NotBusy DEF UserWaits, Show
<1>2. canceledAll' = FALSE /\ UNCHANGED <<next, back, stopSlot, cur, proc, sessions, timers, loops>>
  BY DEF Show
<1>3. CASE visible
  <2>1. UNCHANGED <<visible, compileOnly, rejectDialogFlag, batch, pageVars, finishOn, stopOn,
                    boxVars, listVars, installer, histVars>>
    BY <1>3 DEF Show
  <2>2. TypePage' /\ TypeInstaller'
    BY <1>2, <2>1 DEF Inv, TypePage, TypeInstaller, pageVars, boxVars, listVars, histVars
  <2>3. TypeRest'
    <3>1. canceledAll' \in BOOLEAN
      BY <1>2
    <3>2. QED
      BY <1>2, <2>1, <3>1 DEF Inv, TypeRest, histVars
  <2>4. LoopInv' /\ OneThing' /\ PhaseInv' /\ ObjectInv' /\ JobInv'
    BY <1>2, <2>1 DEF Inv, LoopInv, OneThing, PhaseInv, ObjectInv, JobInv, NoTimer, NoJob, Compiling,
       Installing, Where, What, ResultGoesToItsUnit, IsRunning, pageVars, boxVars, listVars, histVars
  <2>5. QED
    BY <2>2, <2>3, <2>4 DEF Inv
<1>4. CASE ~visible
  <2>1. /\ visible' = TRUE /\ compileOnly' = only
        /\ rejectDialogFlag' = FALSE /\ batch' = FALSE
        /\ installer' = NoInstaller /\ op' = "compile"
        /\ compileList' = {} /\ installList' = {}
        /\ finishOn' = [p \in Pages |-> FALSE] /\ stopOn' = FALSE
        /\ ShowPageChoose(only)
        /\ halted' = "no"
    BY <1>4 DEF Show
  <2>2. TypeInstaller' /\ installer'.session # "copy"
    <3>1. << >> \in Seq(Jobs)
      OBVIOUS
    <3>2. QED
      BY <2>1, <3>1 DEF TypeInstaller, NoInstaller
  <2>3. TypeRest'
    BY <1>2, <2>1 DEF Inv, TypeRest
  <2>4. QED
    BY <1>1, <1>2, <2>1, <2>2, <2>3, FirstPageShown DEF Ops
<1>5. QED
  BY <1>3, <1>4 DEF Inv, TypeRest

\* terminate() or kill() sent to the process.
LEMMA ProcessSignalled ==
  ASSUME Inv, NEW sig, Signal(sig)
  PROVE  proc' \in Procs /\ proc'.run = proc.run /\ proc'.unit = proc.unit /\ proc'.slot = proc.slot
  BY DEF Signal, Inv, TypeRest, Procs

\* The installer is gone, its session as well or replaced by the activation, or failed.
LEMMA InstallerGone ==
  ASSUME Inv, loops = << >>, NEW t \in Timers, t["compile"] = timers["compile"],
         t["install"] = timers["install"], NEW fin \in BOOLEAN, TerminateInstaller(t, fin)
  PROVE  /\ installer' = NoInstaller /\ TypeInstaller'
         /\ sessions' \subseteq [fw : Firewalls, job : Jobs]
         /\ timers' \in Timers /\ timers'["compile"] = timers["compile"]
         /\ \A s \in sessions' : s.fw = cur /\ s.job # "copy"
         /\ \/ sessions' = sessions /\ timers' = t
            \/ /\ NoTimer /\ ~proc.run /\ sessions # {}
               /\ \/ sessions' = {} /\ timers'["install"] \in {0, 1}
                  \/ /\ timers'["install"] = 0 /\ ~fin /\ \E d \in sessions' : sessions' = {d}
                     /\ \E d \in sessions : d.job = "copy"
<1>1. installer' = NoInstaller
  BY DEF TerminateInstaller
<1>2. TypeInstaller'
  <2>1. << >> \in Seq(Jobs)
    OBVIOUS
  <2>2. QED
    BY <1>1, <2>1 DEF TypeInstaller, NoInstaller
<1> DEFINE s == Session(installer.fw, installer.session)
<1>3. CASE ~installer.alive \/ s \notin sessions
  <2>1. sessions' = sessions /\ timers' = t
    BY <1>3 DEF TerminateInstaller
  <2>2. ASSUME NEW d \in sessions, d.job = "copy" PROVE FALSE
    <3>1. IsRunning(d) /\ d \in [fw : Firewalls, job : Jobs]
      BY <2>2 DEF Inv, JobInv, TypeRest
    <3>2. d = s /\ installer.alive
      BY <3>1 DEF IsRunning, Session
    <3>3. QED
      BY <1>3, <3>2
  <2>3. QED
    BY <1>1, <1>2, <2>1, <2>2 DEF Inv, TypeRest, ObjectInv, ResultGoesToItsUnit
<1>4. CASE installer.alive /\ s \in sessions
  <2>1. /\ sessions = {s} /\ NoTimer /\ ~proc.run /\ s.fw = cur
        /\ cur \in Firewalls /\ t["compile"] = 0 /\ t["install"] = 0
    BY <1>4, AtJob DEF NoTimer, Inv, ObjectInv, ResultGoesToItsUnit, TypeRest
  <2>2. s.job = "copy" => Head(installer.jobs) = "activate"
    BY DEF Inv, JobInv, Session
  <2>3. \/ timers' = [t EXCEPT !["install"] = @ + 1] /\ sessions' = {}
        \/ timers' = t /\ sessions' = {}
        \/ timers' = t /\ sessions' = {Session(cur, "activate")} /\ ~fin /\ s.job = "copy"
    BY <1>4, <2>1, <2>2 DEF TerminateInstaller
  <2>4. timers' \in Timers /\ timers'["compile"] = 0 /\ timers'["install"] \in {0, 1}
    BY <2>1, <2>3 DEF Timers
  <2>5. CASE sessions' = {}
    <3>1. sessions # {} /\ NoTimer /\ ~proc.run /\ timers'["compile"] = timers["compile"]
      BY <2>1, <2>4 DEF NoTimer
    <3>2. QED
      BY <1>1, <1>2, <2>4, <2>5, <3>1
  <2>6. CASE timers' = t /\ sessions' = {Session(cur, "activate")} /\ ~fin /\ s.job = "copy"
    BY <1>1, <1>2, <2>1, <2>4, <2>6 DEF Session, Jobs
  <2>7. QED
    BY <2>3, <2>5, <2>6
<1>5. QED
  BY <1>3, <1>4

\* The wizard is stopped, closed or cancelled: page and phase stay.
LEMMA JobsTerminated ==
  ASSUME Inv, loops = << >>, NEW sig, Signal(sig),
         NEW t \in Timers, t["compile"] = timers["compile"], t["install"] = timers["install"],
         NEW fin \in BOOLEAN, TerminateInstaller(t, fin),
         UNCHANGED <<page, op, complete, next, back, outcome, compileBox, installBox, compileList, cur, loops>>,
         visible' \in BOOLEAN, finished' \in BOOLEAN, rejectDialogFlag' \in BOOLEAN, stopOn' \in BOOLEAN,
         stopSlot' \in {"none", "compile", "install"}, finishOn' \in [Pages -> BOOLEAN],
         installList' \subseteq Firewalls, halted' \in {"no", "compile", "install"},
         UNCHANGED <<compileOnly, canceledAll, batch>>
  PROVE  Inv'
<1>1. proc' \in Procs /\ proc'.run = proc.run /\ proc'.unit = proc.unit /\ proc'.slot = proc.slot
  BY ProcessSignalled
<1>2. /\ installer' = NoInstaller /\ TypeInstaller'
      /\ sessions' \subseteq [fw : Firewalls, job : Jobs]
      /\ timers' \in Timers /\ timers'["compile"] = timers["compile"]
      /\ \A s \in sessions' : s.fw = cur /\ s.job # "copy"
      /\ \/ sessions' = sessions /\ timers' = t
         \/ /\ NoTimer /\ ~proc.run /\ sessions # {}
            /\ \/ sessions' = {} /\ timers'["install"] \in {0, 1}
               \/ timers'["install"] = 0 /\ ~fin /\ \E d \in sessions' : sessions' = {d}
  BY InstallerGone
<1>3. loops' = << >> /\ Where' = "nowhere" /\ Where = "nowhere" /\ LoopInv'
  BY DEF Where, LoopInv
<1>4. TypePage' /\ TypeRest'
  BY <1>1, <1>2 DEF Inv, TypePage, TypeRest
<1>5. OneThing'
  <2>1. CASE sessions' = sessions /\ timers' = t
    BY <1>1, <1>3, <2>1 DEF Inv, OneThing, NoTimer, NoJob
  <2>2. CASE /\ NoTimer /\ ~proc.run /\ timers'["install"] = 0
             /\ \E d \in sessions' : sessions' = {d}
    BY <1>1, <1>2, <1>3, <2>2 DEF OneThing, NoTimer
  <2>3. CASE NoTimer /\ ~proc.run /\ sessions' = {} /\ timers'["install"] \in {0, 1}
    BY <1>1, <1>2, <1>3, <2>3 DEF OneThing, NoTimer, NoJob
  <2>4. QED
    BY <1>2, <2>1, <2>2, <2>3
<1>6. PhaseInv'
  <2>1. Compiling' => Compiling
    BY <1>1, <1>2, <1>3 DEF Compiling
  <2>2. Installing' => Installing
    BY <1>1, <1>2, <1>3 DEF Installing, Places
  <2>3. QED
    BY <2>1, <2>2 DEF Inv, PhaseInv
<1>7. ObjectInv'
  BY <1>1, <1>2, <1>3 DEF Inv, ObjectInv, ResultGoesToItsUnit
<1>8. JobInv'
  BY <1>2, <1>3 DEF JobInv, NoInstaller
<1>9. QED
  BY <1>2, <1>3, <1>4, <1>5, <1>6, <1>7, <1>8 DEF Inv

LEMMA KillScheduled ==
  ASSUME Inv
  PROVE  Plus("kill") \in Timers /\ \A t \in {"compile", "install"} : Plus("kill")[t] = timers[t]
  BY DEF Inv, TypeRest, Timers, Plus

LEMMA WizardStopped ==
  ASSUME Inv, UserWaits, StopClicked
  PROVE  Inv'
<1>1. loops = << >> /\ halted' \in {"compile", "install"}
  BY ClicksWait DEF StopClicked, StopCompile, StopInstall, Inv, TypeRest
<1>2. UNCHANGED <<modeVars, pageVars, next, back, compileBox, cur, loops>>
  BY DEF StopClicked
<1>3. CASE StopCompile
  <2>1. /\ stopSlot' = "none" /\ stopOn' = FALSE /\ timers' = Plus("kill")
        /\ installBox' \subseteq installBox /\ compileList' = {}
        /\ outcome' = [x \in Objects |-> IF x \in compileList THEN "error" ELSE outcome[x]]
        /\ UNCHANGED <<finishOn, installList, installer, sessions>>
    BY <1>3 DEF StopCompile, BlockInstall
  <2>2. proc' \in Procs /\ proc'.run = proc.run /\ proc'.unit = proc.unit /\ proc'.slot = proc.slot
    BY <1>3, ProcessSignalled DEF StopCompile
  <2>3. timers' \in Timers /\ timers'["compile"] = timers["compile"] /\ timers'["install"] = timers["install"]
    BY <2>1, KillScheduled
  <2>4. outcome' \in Results
    BY <2>1 DEF Inv, TypePage, Results
  <2>5. TypePage' /\ TypeRest' /\ TypeInstaller'
    <3>1. TypePage' /\ TypeInstaller'
      BY <1>2, <2>1, <2>4 DEF Inv, TypePage, TypeInstaller, pageVars
    <3>2. stopOn' \in BOOLEAN
      BY <2>1
    <3>3. TypeRest'
      BY <1>1, <1>2, <2>1, <2>2, <2>3, <3>2 DEF Inv, TypeRest, modeVars
    <3>4. QED
      BY <3>1, <3>3
  <2>6. LoopInv' /\ OneThing' /\ ObjectInv' /\ JobInv'
    BY <1>2, <2>1, <2>2, <2>3 DEF Inv, LoopInv, OneThing, ObjectInv, JobInv, NoTimer, NoJob, Where, What,
       ResultGoesToItsUnit, IsRunning
  <2>7. PhaseInv'
    <3>1. page = "work" /\ UNCHANGED <<page, op, complete, next>>
      BY <1>2 DEF StopClicked, pageVars
    <3>2. (Compiling' => Compiling) /\ (Installing' => Installing)
      BY <1>2, <2>1, <2>2, <2>3 DEF Compiling, Installing, Where
    <3>3. QED
      BY <3>1, <3>2 DEF Inv, PhaseInv
  <2>8. QED
    BY <2>5, <2>6, <2>7 DEF Inv
<1>4. CASE StopInstall
  <2>1. /\ stopSlot' = "none" /\ stopOn' = FALSE /\ Signal("term")
        /\ TerminateInstaller(Plus("kill"), finished) /\ installList' = {}
        /\ finishOn' = [finishOn EXCEPT ![page] = TRUE]
        /\ UNCHANGED <<installBox, outcome, compileList>>
    BY <1>4 DEF StopInstall
  <2>2. finishOn' \in [Pages -> BOOLEAN]
    BY <2>1 DEF Inv, TypeRest
  <2>3. finished \in BOOLEAN /\ visible \in BOOLEAN /\ rejectDialogFlag \in BOOLEAN
    BY DEF Inv, TypePage, TypeRest
  <2>4. QED
    BY <1>1, <1>2, <2>1, <2>2, <2>3, KillScheduled, JobsTerminated DEF modeVars, pageVars
<1>5. QED
  BY <1>3, <1>4 DEF StopClicked

\* Cancel and the close button of the window.
LEMMA WizardClosed ==
  ASSUME Inv, UserWaits, CancelClicked \/ CloseWindow
  PROVE  Inv'
<1>1. loops = << >>
  BY ClicksWait DEF CancelClicked, CloseWindow
<1>2. PICK fin \in BOOLEAN : TerminateInstaller(timers, fin)
  BY DEF CancelClicked, CloseWindow, Inv, TypePage
<1>3. Signal("kill")
  BY DEF CancelClicked, CloseWindow
<1>4. /\ finished' \in BOOLEAN /\ visible' \in BOOLEAN /\ rejectDialogFlag' \in BOOLEAN
      /\ UNCHANGED <<compileOnly, canceledAll, batch, page, op, complete, buttonVars, boxVars,
                     listVars, cur, loops, histVars>>
  <2>1. CASE CancelClicked
    BY <2>1 DEF CancelClicked, Inv, TypeRest, Procs
  <2>2. CASE CloseWindow
    BY <2>2 DEF CloseWindow, Inv, TypePage, TypeRest, pageVars
  <2>3. QED
    BY <2>1, <2>2
<1>5. timers \in Timers /\ installList \subseteq Firewalls /\ halted \in {"no", "compile", "install"}
      /\ finishOn \in [Pages -> BOOLEAN] /\ stopOn \in BOOLEAN /\ stopSlot \in {"none", "compile", "install"}
  BY DEF Inv, TypePage, TypeRest
<1>6. QED
  BY <1>1, <1>2, <1>3, <1>4, <1>5, JobsTerminated DEF buttonVars, boxVars, listVars, histVars

-----------------------------------------------------------------------------
(* The invariant *)

LEMMA InitInv == Init => Inv
<1> SUFFICES ASSUME Init PROVE Inv
  OBVIOUS
<1>1. TypePage
  BY DEF Init, TypePage, Pages, Ops, Results
<1>2. TypeInstaller
  <2>1. << >> \in Seq(Jobs)
    OBVIOUS
  <2>2. QED
    BY <2>1 DEF Init, TypeInstaller, NoInstaller
<1>3. TypeRest
  BY DEF Init, TypeRest, Idle, Procs, Timers
<1>4. /\ loops = << >> /\ Where = "nowhere" /\ timers["compile"] = 0 /\ timers["install"] = 0
      /\ ~proc.run /\ sessions = {} /\ installer.session = "none"
  BY DEF Init, Where, Idle, NoInstaller
<1>5. LoopInv /\ OneThing
  BY <1>4 DEF LoopInv, OneThing, NoTimer, NoJob
<1>6. PhaseInv
  BY <1>4 DEF Init, PhaseInv, Compiling, Installing, Places
<1>7. ObjectInv /\ JobInv
  BY <1>4 DEF ObjectInv, JobInv, ResultGoesToItsUnit
<1>8. QED
  BY <1>1, <1>2, <1>3, <1>5, <1>6, <1>7 DEF Inv

LEMMA StutterInv ==
  ASSUME Inv, UNCHANGED vars
  PROVE  Inv'
<1>1. TypePage' /\ TypeRest' /\ TypeInstaller'
  BY DEF Inv, TypePage, TypeRest, TypeInstaller, vars, modeVars, pageVars, buttonVars,
     boxVars, listVars, jobVars, histVars
<1>2. LoopInv' /\ OneThing' /\ ObjectInv' /\ JobInv'
  BY DEF Inv, LoopInv, OneThing, ObjectInv, JobInv, NoTimer, NoJob, Where, What,
     ResultGoesToItsUnit, IsRunning, vars, jobVars
<1>3. PhaseInv'
  BY DEF Inv, PhaseInv, Compiling, Installing, Where, vars, pageVars, buttonVars, jobVars, histVars
<1>4. QED
  BY <1>1, <1>2, <1>3 DEF Inv

LEMMA Inductive ==
  ASSUME Inv, UserWaits, [Next]_vars
  PROVE  Inv'
<1>1. CASE LoopReturns
  BY <1>1, CompileGoesOn, InstallGoesOn, CompilerRuns, InstallerRuns, ScriptRuns, SessionRuns,
     ScriptOver DEF LoopReturns
<1>2. CASE TimerFires
  BY <1>2, CompileGoesOn, InstallGoesOn, KillFires DEF TimerFires
<1>3. CASE OptionsAnswered \/ SomeSessionEnds \/ ProcessEnds
  BY <1>3, OptionsGiven, SessionOver, ProcessOver
<1>4. CASE User
  BY <1>4, BoxesClicked, NextShown, BackShown, FilesShown, WizardHidden, WizardStopped,
     WizardClosed, WizardShown DEF User
<1>5. CASE UNCHANGED vars
  BY <1>5, StutterInv
<1>6. QED
  BY <1>1, <1>2, <1>3, <1>4, <1>5 DEF Next

LEMMA Always == UserWaits => (Spec => []Inv)
<1> SUFFICES ASSUME UserWaits PROVE Spec => []Inv
  OBVIOUS
<1>1. Inv /\ [Next]_vars => Inv'
  BY Inductive
<1>2. QED
  BY InitInv, <1>1, PTL DEF Spec

\* The values the wizard's variables take (instDialog.h, FirewallInstaller.h).
THEOREM TypeSafe == UserWaits => (Spec => []TypeOK)
<1> SUFFICES ASSUME UserWaits PROVE Spec => []TypeOK
  OBVIOUS
<1>1. QED
  BY Always, TypeParts, PTL

\* A process or session that ends was started for the firewall in cnf.fwobj, so
\* compilerFinished and installerFinished mark the right line of the list.
THEOREM ResultSafe == UserWaits => (Spec => []ResultGoesToItsUnit)
<1> SUFFICES ASSUME UserWaits PROVE Spec => []ResultGoesToItsUnit
  OBVIOUS
<1>1. Inv => ResultGoesToItsUnit
  BY DEF Inv, ObjectInv
<1>2. QED
  BY Always, <1>1, PTL

\* The wizard runs one compiler, script or ssh session at a time, however timers
\* and ends of processes fall.
THEOREM OneJobSafe == UserWaits => (Spec => []OneJobAtATime)
<1> SUFFICES ASSUME UserWaits PROVE Spec => []OneJobAtATime
  OBVIOUS
<1>1. Inv => OneJobAtATime
  BY DEF Inv, OneThing, NoJob, OneJobAtATime
<1>2. QED
  BY Always, <1>1, PTL

-----------------------------------------------------------------------------
(* What the phases leave for each other, by the invariant above: every unit  *)
(* gets its result, what failed is not installed, and nothing begins after   *)
(* Stop, Cancel or Finish.                                                   *)

\* Every unit that is no longer in the list has a result, but for the one at work.
Handled(done) == \A u \in compileBox : u \in compileList \cup done \/ outcome[u] # "none"
ResultsInv ==
  /\ page = "work" /\ complete => \A u \in compileBox : outcome[u] # "none"
  /\ timers["compile"] # 0 => Handled({})
  /\ Where = "compile page" => compileList = compileBox
  /\ Where = "compiler" \/ (proc.run /\ proc.slot = "compile") => Handled({cur})

\* What failed has no box, is not in the list and is not being installed.
FailedInv ==
  \A u \in Units : outcome[u] = "error" =>
    /\ Targets(u) \cap installBox = {}
    /\ op = "install" => Targets(u) \cap installList = {}
    /\ Where \in Jobs \cup {"options", "installer"} => What \notin Targets(u)
    /\ \A s \in sessions : s.fw \notin Targets(u)

\* A wizard that has finished has no job in hand, and "cancel all" none but a
\* script; what Stop has run on leaves nothing to begin.
Active == Jobs \cup {"compiler", "options", "installer"}
StopInv ==
  /\ Where \in Active => ~finished
  /\ Where \in Active \ {"compiler"} \/ sessions # {} => ~canceledAll
  /\ page = "work" /\ op = "inspect" => complete
  /\ page = "work" /\ op # "install" => compileBox # {}
  /\ halted = "compile" /\ Compiling =>
       compileList = {} /\ Where = "nowhere"
  /\ halted = "install" /\ Installing =>
       /\ installList = {} /\ Where \in {"nowhere", "script ended"}
       /\ \A s \in sessions : s.job # "copy"

-----------------------------------------------------------------------------
(* What the steps of the phases leave alone *)

InstallSteps ==
  \/ InstallTimer \/ InstallPage
  \/ OptionsAnswered
  \/ RunInstaller
  \/ RunScript
  \/ RunSession
  \/ ScriptEnded
  \/ SomeSessionEnds
  \/ ProcessEnds /\ proc.slot = "install"

\* The install phase keeps to itself.
LEMMA InstallPhase ==
  ASSUME Inv, InstallSteps
  PROVE  /\ Installing /\ op = "install" /\ page = "work"
         /\ UNCHANGED <<page, op, complete, boxVars, compileList, histVars>>
<1>1. Installing
  <2>1. CASE \E at \in {"install page", "options", "installer", "script", "copy", "activate",
                       "script ended"} : In(at)
    BY <2>1, InLoop DEF Places, Installing
  <2>2. CASE timers["install"] > 0 \/ sessions # {} \/ (proc.run /\ proc.slot = "install")
    BY <2>2, AtTimer DEF Installing
  <2>3. QED
    BY <2>1, <2>2 DEF InstallSteps, InstallTimer, InstallPage, OptionsAnswered, RunInstaller, RunScript,
       RunSession, ScriptEnded, SomeSessionEnds, ProcessEnds
<1>2. UNCHANGED <<page, op, complete, boxVars, compileList, histVars>>
  BY DEF InstallSteps, InstallTimer, InstallPage, OptionsAnswered, RunInstaller, RunScript,
     RunSession, ScriptEnded, SomeSessionEnds, SessionEnds, ProcessEnds, pageVars, listVars, boxVars, histVars
<1>3. QED
  BY <1>1, <1>2 DEF Inv, PhaseInv

\* Where nothing is compiled it is not the compile phase, or it is over.
LEMMA NotCompiling ==
  ASSUME Inv, page = "choose" \/ op # "compile" \/ complete
  PROVE  /\ timers["compile"] = 0 /\ Where # "compile page" /\ Where # "compiler"
         /\ ~(proc.run /\ proc.slot = "compile")
<1>1. ~Compiling
  BY DEF Inv, PhaseInv
<1>2. QED
  BY <1>1 DEF Compiling

\* The same of the state a step leads to.
LEMMA CompilingOver ==
  ASSUME Inv', page' = "choose" \/ op' # "compile" \/ complete'
  PROVE  /\ timers'["compile"] = 0 /\ Where' # "compile page" /\ Where' # "compiler"
         /\ ~(proc'.run /\ proc'.slot = "compile")
<1>1. ~Compiling'
  BY DEF Inv, PhaseInv
<1>2. QED
  BY <1>1 DEF Compiling

-----------------------------------------------------------------------------
(* Every unit gets its result *)

\* Where nothing is being compiled only the results that are there matter.
LEMMA ResultsStand ==
  ASSUME Inv, Inv', ResultsInv, UNCHANGED <<page, complete, compileBox, outcome>>,
         page' = "choose" \/ op' # "compile" \/ complete'
  PROVE  ResultsInv'
<1>1. page' = "work" /\ complete' => \A u \in compileBox' : outcome'[u] # "none"
  BY DEF ResultsInv
<1>2. QED
  BY <1>1, CompilingOver DEF ResultsInv

\* What does not touch the compile phase leaves its results.
LEMMA ResultsUntouched ==
  ASSUME Inv, ResultsInv, UNCHANGED <<page, complete, compileBox, compileList, cur, outcome, loops>>,
         timers'["compile"] = timers["compile"], proc'.run = proc.run, proc'.slot = proc.slot
  PROVE  ResultsInv'
<1>1. Where' = Where
  BY DEF Where
<1>2. QED
  BY <1>1 DEF ResultsInv, Handled

LEMMA ResultsOnFirstPage ==
  ASSUME Inv', page' = "choose"
  PROVE  ResultsInv'
  BY CompilingOver DEF ResultsInv

LEMMA ResultsLoop ==
  ASSUME Inv, ResultsInv, CompileTimer \/ CompilePage
  PROVE  ResultsInv'
<1>1. Handled({})
  <2>1. CASE CompileTimer
    BY <2>1, AtTimer DEF CompileTimer, ResultsInv
  <2>2. CASE CompilePage
    BY <2>2, InLoop DEF CompilePage, Places, ResultsInv, Handled
  <2>3. QED
    BY <2>1, <2>2
<1>2. timers'["compile"] = 0 /\ ~proc'.run /\ ~complete /\ page = "work"
  <2>1. ~proc'.run
    BY CompileStep DEF NoJob, jobVars
  <2>2. QED
    BY <2>1, CompileStep
<1>3. CASE finished /\ loops' = << >> /\ UNCHANGED <<pageVars, next, boxVars, listVars, cur, outcome>>
  BY <1>2, <1>3 DEF ResultsInv, Where, pageVars
<1>4. CASE /\ Where' = "compiler"
           /\ cur' \in compileList /\ compileList' = compileList \ {cur'}
           /\ UNCHANGED <<pageVars, next, boxVars, outcome>>
  <2>1. Handled({cur})'
    BY <1>1, <1>4 DEF Handled, boxVars
  <2>2. ~complete'
    BY <1>2, <1>4 DEF pageVars
  <2>3. QED
    BY <1>2, <1>4, <2>1, <2>2 DEF ResultsInv
<1>5. CASE /\ compileList = {} /\ Where' \in {"nowhere", "install page"}
           /\ page' = "work" => complete' /\ UNCHANGED <<boxVars, outcome>>
  BY <1>1, <1>2, <1>5 DEF ResultsInv, Handled, boxVars
<1>6. QED
  BY CompileStep, <1>3, <1>4, <1>5

LEMMA ResultsRun ==
  ASSUME Inv, ResultsInv, RunCompiler
  PROVE  ResultsInv'
<1>1. /\ Where = "compiler" /\ NoJob /\ Top.obj = cur /\ Rest = << >> /\ Handled({cur})
      /\ cur \in Objects
  BY InLoop DEF RunCompiler, Places, ResultsInv, Inv, ObjectInv, Units, Objects
<1>2. ~complete
  BY <1>1 DEF Inv, PhaseInv, Compiling
<1>3. /\ loops' = << >> /\ UNCHANGED <<page, complete, compileBox, compileList, cur>>
  BY <1>1 DEF RunCompiler, pageVars, boxVars, listVars
<1>4. Where' = "nowhere"
  BY <1>3 DEF Where
<1>5. CASE outcome' = outcome /\ timers' = timers
  <2>1. Handled({cur})'
    BY <1>1, <1>3, <1>5 DEF Handled
  <2>2. timers'["compile"] = 0
    BY <1>1, <1>5, InLoop DEF RunCompiler, Places, NoTimer
  <2>3. QED
    BY <1>2, <1>3, <1>4, <2>1, <2>2 DEF ResultsInv
<1>6. CASE outcome' = [outcome EXCEPT ![cur] = "error"] /\ ~proc'.run
  <2>1. Handled({})'
    BY <1>1, <1>3, <1>6 DEF Handled, Inv, TypePage, Results
  <2>2. QED
    BY <1>2, <1>3, <1>4, <1>6, <2>1 DEF ResultsInv
<1>7. \/ outcome' = outcome /\ timers' = timers
      \/ outcome' = [outcome EXCEPT ![cur] = "error"] /\ ~proc'.run
  <2>1. CASE Top.obj \in NoCompiler
    BY <2>1 DEF RunCompiler
  <2>2. CASE ~CommandFails(Top.obj \notin NotStartable)
    BY <2>2 DEF RunCompiler
  <2>3. CASE Top.obj \notin NoCompiler /\ CommandFails(Top.obj \notin NotStartable)
    <3>1. proc' = [proc EXCEPT !.slot = "compile"] /\ ~proc.run
      BY <2>3 DEF RunCompiler, ExecuteCommand, CommandFails
    <3>2. ~proc'.run
      BY <3>1 DEF Inv, TypeRest, Procs
    <3>3. QED
      BY <2>3, <3>2 DEF RunCompiler
  <2>4. QED
    BY <2>1, <2>2, <2>3
<1>8. QED
  BY <1>5, <1>6, <1>7

LEMMA ResultsEnd ==
  ASSUME Inv, ResultsInv, ProcessEnds, proc.slot = "compile"
  PROVE  ResultsInv'
<1>1. /\ proc.run /\ loops = << >> /\ loops' = << >> /\ ~proc'.run /\ Handled({cur})
      /\ timers["compile"] = 0 /\ ~complete
      /\ UNCHANGED <<page, complete, compileBox, compileList, cur>>
  <2>1. proc.run /\ loops = << >> /\ timers["compile"] = 0 /\ Handled({cur}) /\ ~complete
    BY AtJob DEF ProcessEnds, NoTimer, ResultsInv, Inv, PhaseInv, Compiling
  <2>2. ~proc'.run
    BY DEF ProcessEnds, Idle
  <2>3. QED
    BY <2>1, <2>2 DEF ProcessEnds, pageVars, listVars
<1>2. Where' = "nowhere"
  BY <1>1 DEF Where
<1>3. \/ outcome' = outcome /\ timers' = timers
      \/ \E r \in {"ok", "error"} : outcome' = [outcome EXCEPT ![cur] = r]
  BY DEF ProcessEnds, CompilerFinished
<1>4. CASE outcome' = outcome /\ timers' = timers
  BY <1>1, <1>2, <1>4 DEF ResultsInv
<1>5. ASSUME NEW r \in {"ok", "error"}, outcome' = [outcome EXCEPT ![cur] = r]
      PROVE  ResultsInv'
  <2>1. cur \in compileBox => cur \in Objects
    BY DEF Inv, TypePage, Units, Objects
  <2>2. Handled({})'
    BY <1>1, <1>5, <2>1 DEF Handled, Inv, TypePage, Results
  <2>3. QED
    BY <1>1, <1>2, <2>2 DEF ResultsInv
<1>6. QED
  BY <1>3, <1>4, <1>5

\* The user turns a page.
PageTurns == NextClicked \/ InspectFiles \/ (BackClicked /\ op = "inspect")

\* What the page shows then.
LEMMA PageTurned ==
  ASSUME Inv, UserWaits, PageTurns
  PROVE  /\ loops = << >> /\ NoTimer /\ NoJob /\ UNCHANGED <<modeVars, cur, jobVars, timers>>
         /\ \E o \in Ops :
              /\ ShowPageWork(o, complete, << >>, FALSE)
              /\ page = "choose" => o = "compile"
              /\ o # "install" => page = "choose" \/ complete \/ op = "inspect"
              /\ o = "inspect" => complete
              /\ ~NextClicked => page = "work" /\ op # "install" /\ o # "install"
         /\ halted' = IF NextClicked THEN "no" ELSE halted
         /\ page = "choose" => ~complete
<1>1. loops = << >>
  BY ClicksWait DEF PageTurns, NextClicked, InspectFiles, BackClicked
<1>2. ~Compiling /\ ~Installing /\ (page = "choose" => ~complete)
  BY DEF PageTurns, NextClicked, InspectFiles, BackClicked, Inv, PhaseInv
<1>3. NoTimer /\ NoJob
  BY <1>2, PhaseOver
<1>4. UNCHANGED <<modeVars, cur, jobVars, timers>> /\ (halted' = IF NextClicked THEN "no" ELSE halted)
  <2>1. CASE NextClicked
    BY <2>1 DEF NextClicked
  <2>2. CASE ~NextClicked
    BY <2>2 DEF PageTurns, InspectFiles, BackClicked
  <2>3. QED
    BY <2>1, <2>2
<1>5. \E o \in Ops :
         /\ ShowPageWork(o, complete, << >>, FALSE)
         /\ page = "choose" => o = "compile"
         /\ o # "install" => page = "choose" \/ complete \/ op = "inspect"
         /\ o = "inspect" => complete
         /\ ~NextClicked => page = "work" /\ op # "install" /\ o # "install"
  <2>1. CASE NextClicked
    BY <1>1, <2>1 DEF NextClicked, Ops
  <2>2. CASE ~NextClicked
    BY <1>1, <2>2 DEF PageTurns, InspectFiles, BackClicked, Ops
  <2>3. QED
    BY <2>1, <2>2
<1>6. QED
  BY <1>1, <1>2, <1>3, <1>4, <1>5

LEMMA ResultsPage ==
  ASSUME Inv, Inv', UserWaits, ResultsInv, PageTurns
  PROVE  ResultsInv'
<1>1. PICK o \in Ops : ShowPageWork(o, complete, << >>, FALSE)
  BY PageTurned
<1>2. /\ compileList' = compileBox
      /\ Where' \in {"nowhere", "compile page", "install page"}
      /\ page' = "work" => complete' = complete /\ UNCHANGED <<finished, boxVars, outcome>>
      /\ Where' = "compile page" => page' = "work"
  BY <1>1, WorkShown DEF Inv, TypeRest, TypePage
<1>3. timers'["compile"] = 0 /\ ~proc'.run
  BY PageTurned DEF NoTimer, NoJob, jobVars
<1>4. page' = "work" /\ complete' => \A u \in compileBox' : outcome'[u] # "none"
  <2>1. SUFFICES ASSUME page' = "work", complete' PROVE \A u \in compileBox' : outcome'[u] # "none"
    OBVIOUS
  <2>2. complete /\ page = "work"
    BY <1>2, <2>1, PageTurned DEF Inv, TypePage, Pages
  <2>3. QED
    BY <1>2, <2>1, <2>2 DEF ResultsInv, boxVars
<1>5. QED
  BY <1>2, <1>3, <1>4 DEF ResultsInv, boxVars

LEMMA ResultsStop ==
  ASSUME Inv, Inv', UserWaits, ResultsInv, StopClicked
  PROVE  ResultsInv'
<1>1. loops = << >> /\ loops' = << >> /\ UNCHANGED <<page, complete, compileBox, cur>>
  BY ClicksWait DEF StopClicked, pageVars
<1>2. Where = "nowhere" /\ Where' = "nowhere"
  BY <1>1 DEF Where
<1>3. CASE StopCompile
  <2>1. /\ compileList' = {} /\ timers' = Plus("kill") /\ Signal("term")
        /\ outcome' = [x \in Objects |-> IF x \in compileList THEN "error" ELSE outcome[x]]
    BY <1>3 DEF StopCompile
  <2>2. proc'.run = proc.run /\ proc'.slot = proc.slot /\ timers'["compile"] = timers["compile"]
    BY <2>1, ProcessSignalled, KillScheduled
  <2>3. \A u \in compileBox : u \in Objects
    BY DEF Inv, TypePage, Units, Objects
  <2>4. \A u \in compileBox : outcome[u] # "none" => outcome'[u] # "none"
    BY <2>1, <2>3
  <2>5. Handled({}) => Handled({})'
    BY <1>1, <2>1, <2>3 DEF Handled
  <2>6. Handled({cur}) => Handled({cur})'
    BY <1>1, <2>1, <2>3 DEF Handled
  <2>7. QED
    BY <1>1, <1>2, <2>2, <2>4, <2>5, <2>6 DEF ResultsInv
<1>4. CASE StopInstall
  <2>1. /\ Signal("term") /\ TerminateInstaller(Plus("kill"), finished)
        /\ UNCHANGED <<outcome, compileList>>
    BY <1>4 DEF StopInstall
  <2>2. proc'.run = proc.run /\ proc'.slot = proc.slot /\ timers'["compile"] = timers["compile"]
    BY <1>1, <2>1, ProcessSignalled, KillScheduled, InstallerGone DEF Inv, TypePage
  <2>3. QED
    BY <1>1, <2>1, <2>2, ResultsUntouched
<1>5. QED
  BY <1>3, <1>4 DEF StopClicked

LEMMA ResultsClosed ==
  ASSUME Inv, UserWaits, ResultsInv, CancelClicked \/ CloseWindow
  PROVE  ResultsInv'
<1>1. loops = << >> /\ UNCHANGED <<page, complete, compileBox, compileList, cur, outcome, loops>>
  BY ClicksWait DEF CancelClicked, CloseWindow, pageVars, boxVars, listVars, histVars
<1>2. PICK fin \in BOOLEAN : TerminateInstaller(timers, fin)
  BY DEF CancelClicked, CloseWindow, Inv, TypePage
<1>3. timers \in Timers /\ Signal("kill")
  BY DEF CancelClicked, CloseWindow, Inv, TypeRest
<1>4. proc'.run = proc.run /\ proc'.slot = proc.slot /\ timers'["compile"] = timers["compile"]
  BY <1>1, <1>2, <1>3, ProcessSignalled, InstallerGone
<1>5. QED
  BY <1>1, <1>4, ResultsUntouched

LEMMA ResultsInductive ==
  ASSUME Inv, Inv', UserWaits, ResultsInv, [Next]_vars
  PROVE  ResultsInv'
<1>1. CASE InstallSteps
  BY <1>1, InstallPhase, ResultsStand DEF boxVars, histVars
<1>2. CASE CompileTimer \/ CompilePage \/ RunCompiler \/ (ProcessEnds /\ proc.slot = "compile")
  BY <1>2, ResultsLoop, ResultsRun, ResultsEnd
<1>3. CASE KillTimer
  <2>1. /\ UNCHANGED <<page, complete, compileBox, compileList, cur, outcome, loops>>
        /\ proc' = [proc EXCEPT !.killed = proc.run] /\ timers' = Minus("kill")
    BY <1>3 DEF KillTimer, pageVars, boxVars, listVars, histVars
  <2>2. proc'.run = proc.run /\ proc'.slot = proc.slot /\ timers'["compile"] = timers["compile"]
    BY <2>1 DEF Inv, TypeRest, Timers, Procs, Minus
  <2>3. QED
    BY <2>1, <2>2, ResultsUntouched
<1>4. CASE ToggleBox \/ SelectAll
  BY <1>4, ResultsOnFirstPage DEF ToggleBox, SelectAll, pageVars
<1>5. CASE PageTurns
  BY <1>5, ResultsPage
<1>6. CASE BackClicked /\ op # "inspect"
  BY <1>6, ResultsOnFirstPage DEF BackClicked, ShowPageChoose
<1>7. CASE FinishClicked \/ EscapePressed \/ UNCHANGED vars
  BY <1>7, ResultsUntouched DEF FinishClicked, EscapePressed, vars, pageVars, boxVars, listVars,
     jobVars, histVars
<1>8. CASE StopClicked
  BY <1>8, ResultsStop
<1>9. CASE CancelClicked \/ CloseWindow
  BY <1>9, ResultsClosed
<1>10. ASSUME NEW only \in BOOLEAN, Show(only) PROVE ResultsInv'
  <2>1. CASE visible
    BY <1>10, <2>1, ResultsUntouched DEF Show, pageVars, boxVars, listVars, histVars
  <2>2. CASE ~visible
    BY <1>10, <2>2, ResultsOnFirstPage DEF Show, ShowPageChoose
  <2>3. QED
    BY <2>1, <2>2 DEF Inv, TypeRest
<1>11. proc.run => proc.slot \in {"compile", "install"}
  BY DEF Inv, TypeRest, Procs
<1>12. CASE Next
  <2>1. CASE LoopReturns
    BY <2>1, <1>1, <1>2 DEF LoopReturns, InstallSteps
  <2>2. CASE TimerFires \/ OptionsAnswered \/ SomeSessionEnds
    BY <2>2, <1>1, <1>2, <1>3 DEF TimerFires, InstallSteps
  <2>3. CASE ProcessEnds
    BY <2>3, <1>1, <1>2, <1>11 DEF InstallSteps, ProcessEnds
  <2>4. CASE User
    BY <2>4, <1>4, <1>5, <1>6, <1>7, <1>8, <1>9, <1>10 DEF User, PageTurns
  <2>5. QED
    BY <1>12, <2>1, <2>2, <2>3, <2>4 DEF Next
<1>13. QED
  BY <1>7, <1>12

\* When page "work" says that the compile phase is over, each checked unit has its
\* result: what mainLoopCompile promises by compile_complete.
THEOREM CompleteSafe == UserWaits => (Spec => []CompleteMeansCompiled)
<1> SUFFICES ASSUME UserWaits PROVE Spec => []CompleteMeansCompiled
  OBVIOUS
<1>1. Init => ResultsInv
  BY DEF Init, ResultsInv, Where, Idle
<1>2. Inv /\ Inv' /\ ResultsInv /\ [Next]_vars => ResultsInv'
  BY ResultsInductive
<1>3. ResultsInv => CompleteMeansCompiled
  BY DEF ResultsInv, CompleteMeansCompiled
<1>4. QED
  BY <1>1, <1>2, <1>3, Always, PTL DEF Spec

-----------------------------------------------------------------------------
(* Nothing begins that should not *)

\* A first page over which nothing is going on.
LEMMA StopFirstPage ==
  ASSUME Inv', page' = "choose", loops' = << >>
  PROVE  StopInv'
<1>1. Where' = "nowhere"
  BY DEF Where
<1>2. ~Compiling' /\ ~Installing'
  BY DEF Inv, PhaseInv
<1>3. sessions' = {}
  BY <1>2 DEF Installing
<1>4. QED
  BY <1>1, <1>2, <1>3 DEF StopInv, Active, Jobs

\* What ends jobs and begins none keeps StopInv.
LEMMA StopSame ==
  ASSUME Inv, StopInv,
         UNCHANGED <<page, op, complete, compileBox, compileList, installList, loops, halted>>,
         loops = << >> \/ finished' = finished, canceledAll' \in {canceledAll, FALSE},
         sessions' # {} => sessions # {},
         \A s \in sessions' : s.job = "copy" => \E d \in sessions : d.job = "copy",
         Compiling' => Compiling, Installing' => Installing
  PROVE  StopInv'
<1>1. Where' = Where /\ (Where = "nowhere" \/ finished' = finished)
  BY DEF Where
<1>2. "nowhere" \notin Active
  BY DEF Active, Jobs
<1>3. /\ Where' \in Active => ~finished'
      /\ Where' \in Active \ {"compiler"} \/ sessions' # {} => ~canceledAll'
  <2>1. ASSUME Where' \in Active PROVE ~finished'
    BY <1>1, <1>2, <2>1 DEF StopInv
  <2>2. ASSUME Where' \in Active \ {"compiler"} \/ sessions' # {} PROVE ~canceledAll'
    <3>1. ~canceledAll
      BY <1>1, <2>2 DEF StopInv
    <3>2. canceledAll' = canceledAll \/ canceledAll' = FALSE
      OBVIOUS
    <3>3. QED
      BY <3>1, <3>2
  <2>3. QED
    BY <2>1, <2>2
<1>4. /\ page' = "work" /\ op' = "inspect" => complete'
      /\ page' = "work" /\ op' # "install" => compileBox' # {}
      /\ halted' = "compile" /\ Compiling' => compileList' = {} /\ Where' = "nowhere"
  BY <1>1 DEF StopInv
<1>5. halted' = "install" /\ Installing' =>
        /\ installList' = {} /\ Where' \in {"nowhere", "script ended"}
        /\ \A s \in sessions' : s.job # "copy"
  BY <1>1 DEF StopInv
<1>6. QED
  BY <1>3, <1>4, <1>5 DEF StopInv

\* In the install phase.
LEMMA StopInInstall ==
  ASSUME Inv, Inv', StopInv, op = "install",
         UNCHANGED <<page, op, complete, compileBox, halted>>,
         Where' \in Active => ~finished',
         Where' \in Active \ {"compiler"} \/ sessions' # {} => ~canceledAll',
         halted = "install" => /\ installList' = {} /\ Where' \in {"nowhere", "script ended"}
                               /\ \A s \in sessions' : s.job # "copy"
  PROVE  StopInv'
<1>1. ~Compiling'
  BY DEF Inv, PhaseInv
<1>2. /\ page' = "work" /\ op' = "inspect" => complete'
      /\ page' = "work" /\ op' # "install" => compileBox' # {}
  OBVIOUS
<1>3. QED
  BY <1>1, <1>2 DEF StopInv

\* What a step that begins something has to have before it.
Allowed == ~finished' /\ halted # op /\ ~(canceledAll /\ canceledAll' /\ op = "install")

LEMMA BeginsMeans ==
  ASSUME LoopInv', Begins
  PROVE  \/ ~proc.run /\ proc'.run
         \/ ~(sessions' \subseteq sessions)
         \/ loops' # loops /\ Where' \in {"compiler", "options", "installer"}
<1>1. CASE Len(loops') > 0 /\ loops' # loops /\ loops'[Len(loops')].at \in {"compiler", "options", "installer"}
  <2>1. PICK fr \in Frames : loops' = <<fr>>
    BY <1>1 DEF LoopInv
  <2>2. Len(loops') = 1 /\ loops' # << >>
    BY <2>1
  <2>3. Where' = loops'[1].at
    BY <2>2 DEF Where
  <2>4. QED
    BY <1>1, <2>2, <2>3
<1>2. QED
  BY <1>1 DEF Begins

LEMMA StopLoopInstall ==
  ASSUME Inv, Inv', StopInv, InstallTimer \/ InstallPage
  PROVE  StopInv' /\ (Begins => Allowed)
<1>1. op = "install" /\ Installing /\ UNCHANGED <<page, op, complete, boxVars, compileList, histVars>>
  BY InstallPhase DEF InstallSteps
<1>2. PICK b \in BOOLEAN, t \in Timers :
        t["compile"] = 0 /\ t["install"] = 0 /\ MainLoopInstall(<< >>, b, t)
  BY InstallLoopCalled
<1>3. /\ installList' \subseteq installList
      /\ \/ finished' /\ loops' = << >>
         \/ /\ ~finished /\ ~canceledAll /\ finished' = finished /\ cur' \in installList
            /\ loops' = << >> \/ Where' \in {"options", "installer"}
  BY <1>2, InstallLoop DEF Inv, TypeRest
<1>4. NoJob /\ UNCHANGED <<modeVars, jobVars>>
  BY InstallLoopCalled
<1>5. loops' = << >> => Where' = "nowhere"
  BY DEF Where
<1>6. Where' \in {"nowhere", "options", "installer"} /\ sessions' = {} /\ sessions = {} /\ proc' = proc
  BY <1>3, <1>4, <1>5 DEF NoJob, jobVars
<1>7. Where' # "nowhere" =>
        ~finished' /\ ~canceledAll /\ ~canceledAll' /\ halted # "install"
  <2>1. SUFFICES ASSUME Where' # "nowhere"
                 PROVE  ~finished' /\ ~canceledAll /\ ~canceledAll' /\ halted # "install"
    OBVIOUS
  <2>2. ~finished' /\ ~canceledAll /\ cur' \in installList
    BY <1>3, <1>5, <2>1
  <2>3. ~canceledAll'
    BY <1>4, <2>2 DEF modeVars
  <2>4. halted # "install"
    BY <1>1, <2>2 DEF StopInv
  <2>5. QED
    BY <2>2, <2>3, <2>4
<1>8. halted = "install" => installList' = {} /\ Where' = "nowhere"
  BY <1>1, <1>3, <1>7 DEF StopInv
<1>9. "nowhere" \notin Active
  BY DEF Active, Jobs
<1>10. StopInv'
  BY <1>1, <1>6, <1>7, <1>8, <1>9, StopInInstall DEF boxVars, histVars
<1>11. ASSUME Begins PROVE Allowed
  <2>1. Where' \in {"compiler", "options", "installer"}
    BY <1>6, <1>11, BeginsMeans DEF Inv
  <2>2. QED
    BY <1>1, <1>7, <2>1 DEF Allowed
<1>12. QED
  BY <1>10, <1>11

\* Behind the loop of a job, or of what leads to one: the wizard has not finished,
\* nothing is cancelled, and Stop has not run in this phase.
LEMMA JobWanted ==
  ASSUME Inv, StopInv, Where \in Active \ {"compiler"}
  PROVE  ~finished /\ ~canceledAll /\ halted # "install" /\ op = "install"
<1>1. Installing
  BY DEF Installing, Places, Active, Jobs
<1>2. Where \notin {"nowhere", "script ended"}
  BY DEF Active, Jobs
<1>3. QED
  BY <1>1, <1>2 DEF StopInv, Inv, PhaseInv

LEMMA StopOptions ==
  ASSUME Inv, Inv', StopInv, OptionsAnswered
  PROVE  StopInv' /\ Allowed /\ Where' \in {"nowhere", "installer"}
<1>1. /\ Where = "options" /\ Rest = << >> /\ NoTimer /\ NoJob
      /\ What \in Objects \cup {NoObject} /\ Top.obj = What /\ Top.back \in BOOLEAN
  BY InLoop, LoopReturned DEF OptionsAnswered, Places, Inv, Frames
<1>2. ~finished /\ ~canceledAll /\ halted # "install" /\ op = "install"
  BY <1>1, JobWanted DEF Active
<1>3. UNCHANGED <<finished, page, op, complete, boxVars, histVars, sessions>> /\ sessions' = {}
  BY <1>1 DEF OptionsAnswered, pageVars, jobVars, NoJob
<1>4. \/ loops' = << >>
      \/ canceledAll' = canceledAll /\ Enter(<< >>, "installer", What, Top.back)
  BY <1>1 DEF OptionsAnswered, OptionsKnown
<1>5. \/ loops' = << >> /\ Where' = "nowhere"
      \/ Where' = "installer" /\ canceledAll' = canceledAll
  BY <1>1, <1>4, LoopEntered DEF Where, Places
<1>6. ~finished' /\ "nowhere" \notin Active /\ (Where' \in Active => ~canceledAll')
  BY <1>2, <1>3, <1>5 DEF Active, Jobs
<1>7. StopInv'
  BY <1>2, <1>3, <1>6, StopInInstall DEF boxVars, histVars
<1>8. QED
  BY <1>2, <1>3, <1>5, <1>6, <1>7 DEF Allowed

LEMMA StopInstaller ==
  ASSUME Inv, Inv', StopInv, RunInstaller
  PROVE  StopInv' /\ Allowed
<1>1. Where = "installer" /\ NoJob
  BY InLoop DEF RunInstaller, Places
<1>2. ~finished /\ ~canceledAll /\ halted # "install" /\ op = "install"
  BY <1>1, JobWanted DEF Active
<1>3. UNCHANGED <<modeVars, finished, page, op, complete, boxVars, histVars>> /\ sessions' = {}
  BY <1>1 DEF RunInstaller, pageVars, NoJob
<1>4. ~finished' /\ ~canceledAll'
  BY <1>2, <1>3 DEF modeVars
<1>5. StopInv'
  BY <1>2, <1>3, <1>4, StopInInstall DEF boxVars, histVars
<1>6. QED
  BY <1>2, <1>4, <1>5 DEF Allowed

LEMMA StopJob ==
  ASSUME Inv, Inv', StopInv, RunScript \/ RunSession
  PROVE  StopInv' /\ Allowed
<1>1. Where \in Jobs /\ NoJob
  BY InLoop DEF RunScript, RunSession, Places, Jobs
<1>2. ~finished /\ ~canceledAll /\ halted # "install" /\ op = "install"
  BY <1>1, JobWanted DEF Active, Jobs
<1>3. UNCHANGED <<modeVars, finished, page, op, complete, boxVars, histVars>>
  BY DEF RunScript, RunSession, pageVars
<1>4. ~finished' /\ ~canceledAll'
  BY <1>2, <1>3 DEF modeVars
<1>5. StopInv'
  BY <1>2, <1>3, <1>4, StopInInstall DEF boxVars, histVars
<1>6. QED
  BY <1>2, <1>4, <1>5 DEF Allowed

LEMMA StopJobOver ==
  ASSUME Inv, Inv', StopInv,
         ScriptEnded \/ SomeSessionEnds \/ (ProcessEnds /\ proc.slot = "install")
  PROVE  StopInv' /\ ~Begins
<1>1. /\ op = "install" /\ Installing
      /\ UNCHANGED <<page, op, complete, boxVars, compileList, histVars>>
  BY InstallPhase DEF InstallSteps
<1>2. UNCHANGED <<canceledAll, finished, installList>>
  BY DEF ScriptEnded, SomeSessionEnds, SessionEnds, ProcessEnds, modeVars, pageVars, listVars,
     RunJobs, CompilerFinished
<1>3. /\ sessions' = {} /\ (proc'.run => proc.run)
      /\ \/ Where' \in {"nowhere", "script ended"}
         \/ Where' = "activate" /\ ~finished /\ ~canceledAll /\ halted # "install"
  <2>1. CASE ScriptEnded
    <3>1. NoJob /\ Rest = << >>
      BY <2>1, InLoop DEF ScriptEnded, Places
    <3>2. QED
      BY <2>1, <3>1 DEF ScriptEnded, NoJob, Where, jobVars
  <2>2. CASE ProcessEnds /\ proc.slot = "install"
    <3>1. sessions' = {} /\ proc'.run = FALSE /\ loops = << >>
      BY <2>2, AtJob DEF ProcessEnds, Idle
    <3>2. Enter(<< >>, "script ended", proc.unit, FALSE) /\ proc.unit \in Objects \cup {NoObject}
      BY <2>2, <3>1 DEF ProcessEnds, Inv, TypeRest, Procs
    <3>3. QED
      BY <3>1, <3>2, LoopEntered DEF Places
  <2>3. CASE SomeSessionEnds
    <3>1. PICK s \in sessions, ok \in BOOLEAN : SessionEnds(s, ok)
      BY <2>3 DEF SomeSessionEnds
    <3>2. loops = << >> /\ sessions = {s} /\ s.fw = cur /\ cur \in Firewalls
      BY AtJob, <3>1 DEF Inv, ObjectInv, ResultGoesToItsUnit, TypeRest
    <3>3. sessions' = {} /\ proc' = proc
      BY <3>1, <3>2 DEF SessionEnds
    <3>4. CASE loops' = loops
      BY <3>2, <3>3, <3>4 DEF Where
    <3>5. CASE ok /\ s.job = "copy" /\ IsRunning(s)
      <4>1. RunJobs(cur, <<"activate">>, << >>, FALSE)
        BY <3>1, <3>2, <3>5 DEF SessionEnds, Inv, JobInv, IsRunning
      <4>2. Where' = "nowhere" \/ (~finished /\ Where' = "activate")
        BY <3>2, <4>1, JobTaken DEF JobLists, Inv
      <4>3. ~canceledAll /\ halted # "install"
        BY <1>1, <3>5 DEF StopInv
      <4>4. QED
        BY <3>3, <4>2, <4>3
    <3>6. QED
      BY <3>1, <3>4, <3>5 DEF SessionEnds
  <2>4. QED
    BY <2>1, <2>2, <2>3
<1>4. StopInv'
  <2>1. halted = "install" => installList' = {}
    BY <1>1, <1>2 DEF StopInv
  <2>2. QED
    BY <1>1, <1>2, <1>3, <2>1, StopInInstall DEF Active, Jobs, boxVars, histVars
<1>5. ~Begins
  BY <1>3, BeginsMeans DEF Inv
<1>6. QED
  BY <1>4, <1>5

LEMMA StopLoopCompile ==
  ASSUME Inv, Inv', StopInv, CompileTimer \/ CompilePage
  PROVE  StopInv' /\ (Begins => Allowed)
<1>1. /\ page = "work" /\ op = "compile" /\ ~complete /\ Compiling
      /\ UNCHANGED <<modeVars, jobVars, halted>> /\ NoJob
      /\ timers'["compile"] = 0 /\ timers'["install"] = 0
  BY CompileStep
<1>2. ~proc'.run /\ sessions' = {} /\ proc' = proc /\ sessions' = sessions
  BY <1>1 DEF NoJob, jobVars
<1>3. compileBox # {} /\ (halted = "compile" => compileList = {})
  BY <1>1 DEF StopInv
<1>4. CASE finished /\ loops' = << >> /\ UNCHANGED <<pageVars, boxVars, listVars>>
  <2>1. Where' = "nowhere"
    BY <1>4 DEF Where
  <2>2. ~Compiling' /\ ~Installing'
    BY <1>1, <1>2, <2>1 DEF Compiling, Installing, Places
  <2>3. StopInv'
    BY <1>1, <1>2, <1>3, <1>4, <2>1, <2>2 DEF StopInv, Active, Jobs, pageVars, boxVars
  <2>4. QED
    BY <1>2, <2>1, <2>3, BeginsMeans DEF Inv
<1>5. CASE /\ ~finished /\ Where' = "compiler" /\ cur' \in compileList
           /\ UNCHANGED <<pageVars, boxVars>>
  <2>1. ~Installing' /\ halted' # "compile" /\ ~finished' /\ op' = "compile"
    BY <1>1, <1>2, <1>3, <1>5 DEF Installing, Places, pageVars
  <2>2. StopInv'
    BY <1>1, <1>2, <1>3, <1>5, <2>1 DEF StopInv, boxVars
  <2>3. Allowed
    BY <1>1, <2>1 DEF Allowed
  <2>4. QED
    BY <2>2, <2>3
<1>6. CASE /\ compileList = {} /\ Where' \in {"nowhere", "install page"}
           /\ Where' = "install page" => page' = "work" /\ op' = "install"
           /\ page' = "work" => /\ complete' /\ UNCHANGED <<boxVars, outcome>>
                                /\ op' \in {"compile", "install"}
                                /\ op' = "install" => compileBox = {}
  <2>1. Where' = "nowhere"
    BY <1>3, <1>6
  <2>2. ~Compiling' /\ ~Installing'
    BY <1>1, <1>2, <2>1 DEF Compiling, Installing, Places
  <2>3. StopInv'
    BY <1>2, <1>3, <1>6, <2>1, <2>2 DEF StopInv, Active, Jobs, boxVars
  <2>4. QED
    BY <1>2, <2>1, <2>3, BeginsMeans DEF Inv
<1>7. QED
  BY CompileStep, <1>4, <1>5, <1>6

LEMMA StopCompiler ==
  ASSUME Inv, Inv', StopInv, RunCompiler
  PROVE  StopInv' /\ Allowed
<1>1. Where = "compiler" /\ NoJob /\ Rest = << >>
  BY InLoop DEF RunCompiler, Places
<1>2. page = "work" /\ op = "compile" /\ ~complete /\ Compiling
  BY <1>1 DEF Inv, PhaseInv, Compiling
<1>3. ~finished /\ halted # "compile" /\ compileBox # {}
  BY <1>1, <1>2 DEF StopInv, Active
<1>4. /\ loops' = << >> /\ sessions' = {}
      /\ UNCHANGED <<page, op, complete, finished, compileBox, halted>>
  BY <1>1 DEF RunCompiler, NoJob, pageVars, boxVars
<1>5. Where' = "nowhere" /\ ~Installing'
  BY <1>2, <1>4 DEF Where, Inv, PhaseInv
<1>6. StopInv'
  BY <1>2, <1>3, <1>4, <1>5 DEF StopInv, Active, Jobs
<1>7. QED
  BY <1>2, <1>3, <1>4, <1>6 DEF Allowed

LEMMA StopCompilerOver ==
  ASSUME Inv, Inv', StopInv, ProcessEnds, proc.slot = "compile"
  PROVE  StopInv' /\ ~Begins
<1>1. proc.run /\ loops = << >> /\ sessions = {} /\ ~proc'.run
  BY AtJob DEF ProcessEnds, Idle
<1>2. page = "work" /\ op = "compile" /\ Compiling
  BY <1>1 DEF Inv, PhaseInv, Compiling
<1>3. /\ loops' = << >> /\ sessions' = {}
      /\ UNCHANGED <<page, op, complete, finished, compileBox, compileList, halted>>
  BY <1>1 DEF ProcessEnds, pageVars, listVars
<1>4. Where' = "nowhere" /\ ~Installing'
  BY <1>2, <1>3 DEF Where, Inv, PhaseInv
<1>5. StopInv'
  BY <1>2, <1>3, <1>4 DEF StopInv, Active, Jobs
<1>6. ~Begins
  BY <1>1, <1>3, <1>4, BeginsMeans DEF Inv
<1>7. QED
  BY <1>5, <1>6

LEMMA StopPage ==
  ASSUME Inv, Inv', StopInv, UserWaits, PageTurns
  PROVE  StopInv' /\ ~Begins
<1>1. PICK o \in Ops :
        /\ ShowPageWork(o, complete, << >>, FALSE)
        /\ o # "install" => page = "choose" \/ complete \/ op = "inspect"
        /\ o = "inspect" => complete
        /\ ~NextClicked => page = "work" /\ op # "install" /\ o # "install"
  BY PageTurned
<1>2. /\ Where' \in {"nowhere", "compile page", "install page"}
      /\ Where' = "compile page" => page' = "work" /\ op' = "compile" /\ ~complete'
      /\ Where' = "install page" => page' = "work" /\ op' = "install"
      /\ page' = "work" => /\ complete' = complete /\ UNCHANGED <<finished, boxVars, outcome>>
                           /\ op' = IF compileBox = {} THEN "install" ELSE o
  BY <1>1, WorkShown DEF Inv, TypeRest, TypePage
<1>3. /\ proc' = proc /\ ~proc'.run /\ sessions' = {} /\ sessions' = sessions
      /\ timers'["compile"] = 0 /\ timers'["install"] = 0
      /\ (halted' = IF NextClicked THEN "no" ELSE halted)
      /\ page = "choose" => ~complete
  <2>1. ~proc'.run
    BY PageTurned DEF NoJob, jobVars
  <2>2. QED
    BY <2>1, PageTurned DEF NoTimer, NoJob, jobVars
<1>4. /\ Compiling' => Where' = "compile page"
      /\ Installing' => Where' = "install page"
  <2>1. \A p \in {"nowhere", "compile page", "install page"} :
          (p \in {"compile page", "compiler"} => p = "compile page")
          /\ (p \in Places \ {"compile page", "compiler"} => p = "install page")
    BY DEF Places
  <2>2. /\ Compiling' => Where' \in {"compile page", "compiler"}
        /\ Installing' => Where' \in Places \ {"compile page", "compiler"}
    BY <1>3 DEF Compiling, Installing
  <2>3. QED
    BY <1>2, <2>1, <2>2
<1>5. /\ page' = "work" /\ op' = "inspect" => complete'
      /\ page' = "work" /\ op' # "install" => compileBox' # {}
  <2>1. SUFFICES ASSUME page' = "work"
                 PROVE  (op' = "inspect" => complete') /\ (op' # "install" => compileBox' # {})
    OBVIOUS
  <2>2. compileBox' = compileBox /\ (op' = IF compileBox = {} THEN "install" ELSE o)
    BY <1>2, <2>1 DEF boxVars
  <2>3. ASSUME op' = "inspect" PROVE complete'
    <3>1. o = "inspect"
      BY <2>2, <2>3
    <3>2. complete /\ complete' = complete
      BY <1>1, <1>2, <2>1, <3>1
    <3>3. QED
      BY <3>2
  <2>4. QED
    BY <2>2, <2>3
<1>6. ASSUME Compiling' \/ Installing' PROVE halted' = "no"
  <2>1. page' = "work"
    BY <1>2, <1>4, <1>6
  <2>2. CASE ~NextClicked
    <3>1. page = "work" /\ op # "install" /\ compileBox # {} /\ o # "install"
      BY <1>1, <2>2 DEF StopInv
    <3>2. op' = o /\ complete' = complete
      BY <1>2, <2>1, <3>1
    <3>3. Compiling' /\ ~complete /\ op = "inspect"
      BY <1>1, <1>2, <1>4, <1>6, <3>1, <3>2
    <3>4. QED
      BY <3>1, <3>3 DEF StopInv
  <2>3. QED
    BY <1>3, <2>2
<1>7. StopInv'
  BY <1>2, <1>3, <1>5, <1>6 DEF StopInv, Active, Jobs
<1>8. ~Begins
  BY <1>2, <1>3, BeginsMeans DEF Inv
<1>9. QED
  BY <1>7, <1>8

\* Stop, Cancel and the close button in the phase that is going on.
LEMMA StopTerminates ==
  ASSUME Inv, Inv', StopInv, loops = << >>, NEW sig, Signal(sig),
         NEW t \in Timers, t["compile"] = timers["compile"], t["install"] = timers["install"],
         NEW fin \in BOOLEAN, TerminateInstaller(t, fin), finished' => fin,
         UNCHANGED <<page, op, complete, compileBox, compileList, canceledAll, loops>>,
         \/ halted' = "install" /\ installList' = {}
         \/ UNCHANGED <<halted, installList>>
  PROVE  StopInv' /\ (Begins => Allowed)
<1>1. proc'.run = proc.run /\ proc'.slot = proc.slot
  BY ProcessSignalled
<1>2. /\ timers'["compile"] = timers["compile"]
      /\ \A s \in sessions' : s.fw = cur /\ s.job # "copy"
      /\ \/ sessions' = sessions /\ timers' = t
         \/ sessions # {} /\ sessions' = {}
         \/ sessions # {} /\ ~fin /\ \E d \in sessions : d.job = "copy"
  BY InstallerGone
<1>3. Where = "nowhere" /\ Where' = "nowhere"
  BY DEF Where
<1>4. (Compiling' => Compiling) /\ (Installing' => Installing)
  BY <1>1, <1>2, <1>3 DEF Compiling, Installing, Places
<1>5. sessions' # {} => ~canceledAll
  BY <1>2 DEF StopInv
<1>6. /\ page' = "work" /\ op' = "inspect" => complete'
      /\ page' = "work" /\ op' # "install" => compileBox' # {}
  BY DEF StopInv
<1>7. StopInv'
  <2>1. halted' = "compile" /\ Compiling' => compileList' = {}
    BY <1>4 DEF StopInv
  <2>2. halted' = "install" /\ Installing' => installList' = {}
    BY <1>4 DEF StopInv
  <2>3. "nowhere" \notin Active
    BY DEF Active, Jobs
  <2>4. QED
    BY <1>2, <1>3, <1>5, <1>6, <2>1, <2>2, <2>3 DEF StopInv
<1>8. ASSUME Begins PROVE Allowed
  <2>1. ~(sessions' \subseteq sessions)
    BY <1>1, <1>3, <1>8, BeginsMeans DEF Inv
  <2>2. sessions # {} /\ ~fin /\ \E d \in sessions : d.job = "copy"
    BY <1>2, <2>1
  <2>3. Installing /\ op = "install"
    BY <2>2 DEF Installing, Inv, PhaseInv
  <2>4. halted # "install" /\ ~canceledAll
    BY <2>2, <2>3 DEF StopInv
  <2>5. QED
    BY <2>2, <2>3, <2>4 DEF Allowed
<1>9. QED
  BY <1>7, <1>8

LEMMA StopStopped ==
  ASSUME Inv, Inv', StopInv, UserWaits, StopClicked
  PROVE  StopInv' /\ (Begins => Allowed)
<1>1. loops = << >> /\ UNCHANGED <<modeVars, pageVars, next, back, compileBox, cur, loops>>
  BY ClicksWait DEF StopClicked
<1>2. CASE StopCompile
  <2>1. /\ compileList' = {} /\ timers' = Plus("kill") /\ Signal("term") /\ halted' = "compile"
        /\ UNCHANGED <<finishOn, installList, installer, sessions>>
    BY <1>2 DEF StopCompile, StopClicked
  <2>2. Where = "nowhere" /\ Where' = "nowhere" /\ "nowhere" \notin Active
    BY <1>1 DEF Where, Active, Jobs
  <2>3. sessions' # {} => ~canceledAll'
    BY <1>1, <2>1 DEF StopInv, modeVars
  <2>4. /\ page' = "work" /\ op' = "inspect" => complete'
        /\ page' = "work" /\ op' # "install" => compileBox' # {}
    BY <1>1 DEF StopInv, pageVars
  <2>5. StopInv'
    BY <2>1, <2>2, <2>3, <2>4 DEF StopInv
  <2>6. ~Begins
    BY <1>1, <2>1, BeginsMeans, ProcessSignalled DEF Inv
  <2>7. QED
    BY <2>5, <2>6
<1>3. CASE StopInstall
  <2>1. /\ Signal("term") /\ TerminateInstaller(Plus("kill"), finished) /\ installList' = {}
        /\ UNCHANGED <<outcome, compileList>> /\ halted' = "install"
    BY <1>3 DEF StopInstall, StopClicked
  <2>2. finished \in BOOLEAN /\ finished' = finished
    BY <1>1 DEF Inv, TypePage, pageVars
  <2>3. QED
    BY <1>1, <2>1, <2>2, KillScheduled, StopTerminates DEF modeVars, pageVars
<1>4. QED
  BY <1>2, <1>3 DEF StopClicked

LEMMA StopClosed ==
  ASSUME Inv, Inv', StopInv, UserWaits, CancelClicked \/ CloseWindow
  PROVE  StopInv' /\ (Begins => Allowed)
<1>1. loops = << >> /\ Signal("kill") /\ timers \in Timers
  BY ClicksWait DEF CancelClicked, CloseWindow, Inv, TypeRest
<1>2. UNCHANGED <<page, op, complete, compileBox, compileList, canceledAll, loops, halted, installList>>
  BY DEF CancelClicked, CloseWindow, pageVars, boxVars, listVars, histVars
<1>3. \E fin \in BOOLEAN : TerminateInstaller(timers, fin) /\ (finished' => fin)
  <2>1. CASE CancelClicked
    BY <2>1 DEF CancelClicked
  <2>2. CASE CloseWindow
    BY <2>2 DEF CloseWindow, Inv, TypePage, pageVars
  <2>3. QED
    BY <2>1, <2>2
<1>4. QED
  BY <1>1, <1>2, <1>3, StopTerminates

\* Steps without process, session or loop to begin.
LEMMA NothingBegun ==
  ASSUME Inv', proc'.run => proc.run, sessions' = sessions, loops' = loops
  PROVE  ~Begins
  BY BeginsMeans DEF Inv

LEMMA StopStep ==
  ASSUME Inv, Inv', UserWaits, StopInv, Next
  PROVE  StopInv' /\ (Begins => Allowed)
<1>1. CASE LoopReturns
  <2>1. CASE InstallPage
    BY <2>1, StopLoopInstall
  <2>2. CASE CompilePage \/ RunCompiler \/ RunInstaller \/ RunScript \/ RunSession \/ ScriptEnded
    BY <2>2, StopLoopCompile, StopCompiler, StopInstaller, StopJob, StopJobOver
  <2>3. QED
    BY <1>1, <2>1, <2>2 DEF LoopReturns
<1>2. CASE InstallTimer
  BY <1>2, StopLoopInstall
<1>3. CASE KillTimer
  <2>1. /\ UNCHANGED <<page, op, complete, compileBox, compileList, installList, loops, halted,
                       finished, canceledAll, sessions>>
        /\ proc' = [proc EXCEPT !.killed = proc.run] /\ timers' = Minus("kill")
    BY <1>3 DEF KillTimer, modeVars, pageVars, boxVars, listVars, histVars
  <2>2. /\ proc'.run = proc.run /\ proc'.slot = proc.slot /\ timers'["compile"] = timers["compile"]
        /\ timers'["install"] = timers["install"]
    BY <2>1 DEF Inv, TypeRest, Timers, Procs, Minus
  <2>3. (Compiling' => Compiling) /\ (Installing' => Installing)
    BY <2>1, <2>2 DEF Compiling, Installing, Where
  <2>4. QED
    BY <2>1, <2>2, <2>3, StopSame, NothingBegun
<1>4. CASE CompileTimer \/ OptionsAnswered \/ SomeSessionEnds
  BY <1>4, StopLoopCompile, StopOptions, StopJobOver
<1>5. CASE ProcessEnds
  BY <1>5, StopCompilerOver, StopJobOver DEF ProcessEnds, Inv, TypeRest, Procs
<1>6. CASE ToggleBox \/ SelectAll \/ (BackClicked /\ op # "inspect")
  <2>1. page' = "choose" /\ loops' = << >> /\ UNCHANGED <<proc, sessions, loops>>
    BY <1>6, ClicksWait DEF ToggleBox, SelectAll, BackClicked, ShowPageChoose, pageVars, jobVars
  <2>2. QED
    BY <2>1, StopFirstPage, NothingBegun
<1>7. CASE PageTurns
  BY <1>7, StopPage
<1>8. CASE StopClicked \/ CancelClicked \/ CloseWindow
  BY <1>8, StopStopped, StopClosed
<1>9. CASE FinishClicked \/ EscapePressed
  <2>1. /\ loops = << >>
        /\ UNCHANGED <<page, op, complete, compileBox, compileList, installList, loops, halted,
                       canceledAll, sessions, proc, timers>>
    BY <1>9, ClicksWait DEF FinishClicked, EscapePressed, pageVars, boxVars, listVars, jobVars, histVars
  <2>2. (Compiling' => Compiling) /\ (Installing' => Installing)
    BY <2>1 DEF Compiling, Installing, Where
  <2>3. QED
    BY <2>1, <2>2, StopSame, NothingBegun
<1>10. ASSUME NEW only \in BOOLEAN, Show(only) PROVE StopInv' /\ ~Begins
  <2>1. loops = << >> /\ canceledAll' = FALSE /\ UNCHANGED <<proc, sessions, timers, loops>>
    BY <1>10 DEF Show
  <2>2. CASE visible
    <3>1. UNCHANGED <<page, op, complete, compileBox, compileList, installList, halted>>
      BY <1>10, <2>2 DEF Show, pageVars, boxVars, listVars, histVars
    <3>2. (Compiling' => Compiling) /\ (Installing' => Installing)
      BY <2>1 DEF Compiling, Installing, Where
    <3>3. QED
      BY <2>1, <3>1, <3>2, StopSame, NothingBegun
  <2>3. CASE ~visible
    <3>1. page' = "choose"
      BY <1>10, <2>3 DEF Show, ShowPageChoose
    <3>2. QED
      BY <2>1, <3>1, StopFirstPage, NothingBegun
  <2>4. QED
    BY <2>2, <2>3 DEF Inv, TypeRest
<1>11. CASE User
  BY <1>11, <1>6, <1>7, <1>8, <1>9, <1>10 DEF User, PageTurns
<1>12. QED
  BY <1>1, <1>2, <1>3, <1>4, <1>5, <1>11 DEF Next, TimerFires

LEMMA StopStutter ==
  ASSUME StopInv, UNCHANGED vars
  PROVE  StopInv'
<1>1. Where' = Where /\ Compiling' = Compiling /\ Installing' = Installing
  BY DEF Where, Compiling, Installing, vars, jobVars
<1>2. QED
  BY <1>1 DEF StopInv, vars, modeVars, pageVars, boxVars, listVars, jobVars, histVars

LEMMA AlwaysStop == UserWaits => (Spec => []StopInv)
<1> SUFFICES ASSUME UserWaits PROVE Spec => []StopInv
  OBVIOUS
<1>1. Init => StopInv
  BY DEF Init, StopInv, Where, Active, Jobs, Idle
<1>2. Inv /\ Inv' /\ StopInv /\ [Next]_vars => StopInv'
  BY StopStep, StopStutter
<1>3. QED
  BY <1>1, <1>2, Always, PTL DEF Spec

\* Whatever timer, process or session ends late, nothing is begun by a wizard that
\* was finished or cancelled, that Stop has stopped, or that was told to cancel all:
\* clearing the lists and asking "finished" (instDialog_compile.cpp:61) is enough.
THEOREM StopSafe == UserWaits => (Spec => StoppedStartsNothing)
<1> SUFFICES ASSUME UserWaits PROVE Spec => StoppedStartsNothing
  OBVIOUS
<1> DEFINE A == Begins => /\ ~finished' /\ (halted = op => NextClicked)
                          /\ ~(canceledAll /\ canceledAll' /\ op = "install")
<1>1. Inv /\ Inv' /\ StopInv /\ [Next]_vars => [A]_vars
  BY StopStep DEF Allowed
<1>2. QED
  BY <1>1, Always, AlwaysStop, PTL DEF Spec, StoppedStartsNothing

-----------------------------------------------------------------------------
(* What failed is not installed *)

\* Every compiler starts, and Stop acts on the phase the page shows.
FailuresKnown == NotStartable = {} /\ "early stop" \notin Moves

InHand == Jobs \cup {"options", "installer"}

LEMMA FailedFirstPage ==
  ASSUME page' = "choose", Inv'
  PROVE  FailedInv'
<1>1. outcome' = [x \in Objects |-> "none"]
  BY DEF Inv, PhaseInv
<1>2. \A u \in Units : outcome'[u] = "none"
  BY <1>1 DEF Units, Objects
<1>3. QED
  BY <1>2 DEF FailedInv

LEMMA FailedSame ==
  ASSUME Inv, FailedInv, UNCHANGED <<op, installBox, outcome, loops>>, installList' \subseteq installList,
         \A s \in sessions' : \E d \in sessions : s.fw = d.fw
  PROVE  FailedInv'
<1>1. Where' = Where /\ What' = What
  BY DEF Where, What
<1>2. QED
  BY <1>1 DEF FailedInv

LEMMA FailedInInstall ==
  ASSUME Inv, FailedInv, op = "install", UNCHANGED <<op, installBox, outcome>>,
         installList' \subseteq installList,
         Where' \in InHand => \/ What' \in installList
                              \/ Where \in InHand /\ What' = What
                              \/ \E s \in sessions : What' = s.fw,
         \A s \in sessions' : s \in sessions \/ (Where \in InHand /\ s.fw = What)
  PROVE  FailedInv'
<1> SUFFICES ASSUME NEW u \in Units, outcome[u] = "error"
             PROVE  /\ Targets(u) \cap installBox = {}
                    /\ Targets(u) \cap installList' = {}
                    /\ Where' \in InHand => What' \notin Targets(u)
                    /\ \A s \in sessions' : s.fw \notin Targets(u)
  BY DEF FailedInv, InHand
<1>1. /\ Targets(u) \cap installBox = {} /\ Targets(u) \cap installList = {}
      /\ Where \in InHand => What \notin Targets(u)
      /\ \A s \in sessions : s.fw \notin Targets(u)
  BY DEF FailedInv, InHand
<1>2. QED
  BY <1>1

LEMMA FailedInstallStep ==
  ASSUME Inv, FailedInv, InstallSteps
  PROVE  FailedInv'
<1>1. op = "install" /\ UNCHANGED <<op, installBox, outcome>>
  BY InstallPhase DEF boxVars, histVars
<1>2. CASE InstallTimer \/ InstallPage
  <2>1. PICK b \in BOOLEAN, t \in Timers :
          t["compile"] = 0 /\ t["install"] = 0 /\ MainLoopInstall(<< >>, b, t)
    BY <1>2, InstallLoopCalled
  <2>2. /\ installList' \subseteq installList
        /\ loops' = << >> \/ (What' = cur' /\ cur' \in installList)
    BY <2>1, InstallLoop DEF Inv, TypeRest
  <2>3. sessions' = {}
    BY <1>2, InstallLoopCalled DEF NoJob, jobVars
  <2>4. loops' = << >> => Where' = "nowhere"
    BY DEF Where
  <2>5. "nowhere" \notin InHand
    BY DEF InHand, Jobs
  <2>6. QED
    BY <1>1, <2>2, <2>3, <2>4, <2>5, FailedInInstall
<1>3. ASSUME NEW at \in {"options", "installer", "script", "copy", "activate", "script ended"}, In(at),
             OptionsAnswered \/ RunInstaller \/ RunScript \/ RunSession \/ ScriptEnded
      PROVE  FailedInv'
  <2>1. /\ Where = at /\ Rest = << >> /\ NoJob /\ Top.obj = What /\ Top.back \in BOOLEAN
        /\ What \in Objects \cup {NoObject} /\ at \in Places
    BY <1>3, InLoop, LoopReturned DEF Places, Inv, Frames
  <2>2. installList' = installList
    BY <1>3 DEF OptionsAnswered, RunInstaller, RunScript, RunSession, ScriptEnded, listVars
  <2>3. CASE RunScript \/ RunSession \/ ScriptEnded
    <3>1. Where' = "nowhere" /\ "nowhere" \notin InHand
      BY <2>1, <2>3 DEF RunScript, RunSession, ScriptEnded, Where, InHand, Jobs
    <3>2. \A s \in sessions' : Where \in InHand /\ s.fw = What
      <4>1. CASE RunScript \/ ScriptEnded
        BY <2>1, <4>1 DEF RunScript, ScriptEnded, NoJob, jobVars
      <4>2. CASE RunSession
        <5>1. Where \in InHand
          BY <4>2, InLoop DEF RunSession, Places, InHand, Jobs
        <5>2. \A s \in sessions' : s = Session(What, Top.at)
          BY <2>1, <4>2 DEF RunSession, NoJob
        <5>3. Session(What, Top.at).fw = What
          BY DEF Session
        <5>4. QED
          BY <5>1, <5>2, <5>3
      <4>3. QED
        BY <2>3, <4>1, <4>2
    <3>3. QED
      BY <1>1, <2>2, <3>1, <3>2, FailedInInstall
  <2>4. CASE OptionsAnswered
    <3>1. Where \in InHand /\ sessions' = {}
      BY <2>1, <2>4, InLoop DEF OptionsAnswered, InHand, NoJob, Places, jobVars
    <3>2. loops' = << >> \/ Enter(<< >>, "installer", What, Top.back)
      BY <2>1, <2>4 DEF OptionsAnswered, OptionsKnown
    <3>3. Where' = "nowhere" \/ What' = What
      BY <2>1, <3>2, LoopEntered DEF Where, Places
    <3>4. "nowhere" \notin InHand
      BY DEF InHand, Jobs
    <3>5. QED
      BY <1>1, <2>2, <3>1, <3>3, <3>4, FailedInInstall
  <2>5. CASE RunInstaller
    <3>1. Where = "installer" /\ What = cur /\ cur \in Firewalls /\ sessions' = {}
      BY <2>1, <2>5, InLoop DEF RunInstaller, NoJob, Places, Inv, ObjectInv
    <3>2. Where \in InHand /\ "nowhere" \notin InHand /\ Plan(What) \in JobLists
      BY <3>1 DEF InHand, Jobs, Plan, JobLists
    <3>3. loops' = << >> \/ RunJobs(What, Plan(What), << >>, Top.back)
      BY <2>1, <2>5 DEF RunInstaller
    <3>4. Where' = "nowhere" \/ What' = What
      BY <2>1, <3>1, <3>2, <3>3, JobTaken DEF Where, Inv
    <3>5. QED
      BY <1>1, <2>2, <3>1, <3>2, <3>4, FailedInInstall
  <2>6. QED
    BY <1>3, <2>3, <2>4, <2>5
<1>4. CASE SomeSessionEnds
  <2>1. PICK s \in sessions, ok \in BOOLEAN : SessionEnds(s, ok)
    BY <1>4 DEF SomeSessionEnds
  <2>2. loops = << >> /\ sessions = {s} /\ s.fw = cur /\ cur \in Firewalls
    BY AtJob, <2>1 DEF Inv, ObjectInv, ResultGoesToItsUnit, TypeRest
  <2>3. sessions' = {} /\ installList' = installList
    BY <2>1, <2>2 DEF SessionEnds, listVars
  <2>4. loops' = loops \/ RunJobs(cur, <<"activate">>, << >>, FALSE)
    BY <2>1, <2>2 DEF SessionEnds, Inv, JobInv, IsRunning
  <2>5. Where' = "nowhere" \/ What' = s.fw
    BY <2>2, <2>4, JobTaken DEF JobLists, Inv, Where
  <2>6. "nowhere" \notin InHand
    BY DEF InHand, Jobs
  <2>7. QED
    BY <1>1, <2>1, <2>3, <2>5, <2>6, FailedInInstall
<1>5. CASE ProcessEnds /\ proc.slot = "install"
  <2>1. sessions' = {} /\ loops = << >> /\ installList' = installList
    BY <1>5, AtJob DEF ProcessEnds, listVars
  <2>2. Enter(<< >>, "script ended", proc.unit, FALSE) /\ proc.unit \in Objects \cup {NoObject}
    BY <1>5, <2>1 DEF ProcessEnds, Inv, TypeRest, Procs
  <2>3. Where' = "script ended" /\ "script ended" \notin InHand
    BY <2>2, LoopEntered DEF Places, InHand, Jobs
  <2>4. QED
    BY <1>1, <2>1, <2>3, FailedInInstall
<1>6. QED
  BY <1>2, <1>3, <1>4, <1>5 DEF InstallSteps, OptionsAnswered, RunInstaller, RunScript, RunSession, ScriptEnded

\* Outside the install phase no firewall is in hand.
LEMMA FailedIdle ==
  ASSUME FailedInv, Where' \in {"nowhere", "compiler", "compile page", "install page"}, sessions' = {},
         \/ UNCHANGED <<installBox, outcome>> /\ installList' = installBox
         \/ /\ \A u \in Units : outcome'[u] = "error" => Targets(u) \cap installBox' = {}
            /\ op' # "install"
  PROVE  FailedInv'
<1>1. Where' \notin Jobs \cup {"options", "installer"}
  BY DEF Jobs
<1>2. QED
  BY <1>1 DEF FailedInv

LEMMA FailedCompile ==
  ASSUME Inv, Inv', FailedInv, FailuresKnown,
         CompileTimer \/ CompilePage \/ RunCompiler \/ (ProcessEnds /\ proc.slot = "compile")
  PROVE  FailedInv'
<1>1. CASE CompileTimer \/ CompilePage
  <2>1. op = "compile" /\ sessions' = {}
    BY <1>1, CompileStep DEF NoJob, jobVars
  <2>2. loops' = << >> => Where' = "nowhere"
    BY DEF Where
  <2>3. CASE UNCHANGED <<pageVars, boxVars, outcome>> /\ (loops' = << >> \/ Where' = "compiler")
    <3>1. \A u \in Units : outcome'[u] = "error" => Targets(u) \cap installBox' = {}
      BY <2>3 DEF FailedInv, boxVars
    <3>2. op' # "install"
      BY <2>1, <2>3 DEF pageVars
    <3>3. QED
      BY <2>1, <2>2, <2>3, <3>1, <3>2, FailedIdle
  <2>4. CASE /\ installList' = installBox /\ Where' \in {"nowhere", "install page"}
             /\ page' = "work" => UNCHANGED <<boxVars, outcome>>
    <3>1. CASE page' = "work"
      BY <2>1, <2>4, <3>1, FailedIdle DEF boxVars
    <3>2. QED
      BY <3>1, FailedFirstPage DEF Inv, TypePage, Pages
  <2>5. QED
    BY <1>1, <2>3, <2>4, CompileStep
<1>2. CASE RunCompiler
  <2>1. Where = "compiler" /\ NoJob /\ Rest = << >> /\ op = "compile"
    BY <1>2, InLoop DEF RunCompiler, Places, Inv, PhaseInv, Compiling
  <2>2. /\ loops' = << >> /\ sessions' = {} /\ op' = op
        /\ installBox' = installBox /\ outcome' = outcome
    BY <1>2, <2>1 DEF RunCompiler, CommandFails, FailuresKnown, NoJob, pageVars, boxVars
  <2>3. Where' = "nowhere"
    BY <2>2 DEF Where
  <2>4. \A u \in Units : outcome'[u] = "error" => Targets(u) \cap installBox' = {}
    BY <2>2 DEF FailedInv
  <2>5. QED
    BY <2>1, <2>2, <2>3, <2>4, FailedIdle
<1>3. CASE ProcessEnds /\ proc.slot = "compile"
  <2>1. proc.run /\ loops = << >> /\ sessions = {} /\ op = "compile"
    BY <1>3, AtJob DEF ProcessEnds, Inv, PhaseInv, Compiling
  <2>2. loops' = << >> /\ sessions' = {} /\ op' = op
    BY <1>3, <2>1 DEF ProcessEnds, pageVars
  <2>3. Where' = "nowhere"
    BY <2>2 DEF Where
  <2>4. \/ installBox' = installBox /\ outcome' \in {outcome, [outcome EXCEPT ![cur] = "ok"]}
        \/ installBox' = installBox \ Targets(cur) /\ outcome' = [outcome EXCEPT ![cur] = "error"]
    <3>1. UNION {Targets(u) : u \in {cur}} = Targets(cur)
      OBVIOUS
    <3>2. QED
      BY <1>3, <3>1 DEF ProcessEnds, CompilerFinished, BlockInstall
  <2>5. ASSUME NEW u \in Units, outcome'[u] = "error" PROVE Targets(u) \cap installBox' = {}
    <3>1. u \in Objects /\ outcome \in Results
      BY DEF Units, Objects, Inv, TypePage
    <3>2. installBox' \subseteq installBox
      BY <2>4
    <3>3. CASE outcome[u] = "error"
      BY <3>2, <3>3 DEF FailedInv
    <3>4. CASE outcome[u] # "error"
      <4>1. u = cur /\ installBox' = installBox \ Targets(cur)
        BY <2>4, <2>5, <3>1, <3>4 DEF Results
      <4>2. QED
        BY <4>1
    <3>5. QED
      BY <3>3, <3>4
  <2>6. QED
    BY <2>1, <2>2, <2>3, <2>5, FailedIdle
<1>4. QED
  BY <1>1, <1>2, <1>3

LEMMA FailedPage ==
  ASSUME Inv, Inv', UserWaits, FailedInv, PageTurns
  PROVE  FailedInv'
<1>1. PICK o \in Ops : ShowPageWork(o, complete, << >>, FALSE)
  BY PageTurned
<1>2. /\ installList' = installBox
      /\ Where' \in {"nowhere", "compile page", "install page"}
      /\ page' = "work" => UNCHANGED <<finished, boxVars, outcome>>
  BY <1>1, WorkShown DEF Inv, TypeRest, TypePage
<1>3. sessions' = {}
  BY PageTurned DEF NoJob, jobVars
<1>4. CASE page' = "work"
  BY <1>2, <1>3, <1>4, FailedIdle DEF boxVars
<1>5. QED
  BY <1>4, FailedFirstPage DEF Inv, TypePage, Pages

LEMMA FailedStop ==
  ASSUME Inv, Inv', UserWaits, FailuresKnown, FailedInv, StopClicked
  PROVE  FailedInv'
<1>1. loops = << >> /\ UNCHANGED <<page, op, loops>>
  BY ClicksWait DEF StopClicked, pageVars
<1>2. CASE StopCompile
  <2>1. op # "install"
    BY <1>2 DEF StopClicked, StopCompile, FailuresKnown
  <2>2. sessions' = {} /\ Where' = "nowhere" /\ op' # "install"
    BY <1>1, <1>2, <2>1 DEF StopCompile, Inv, PhaseInv, Installing, Where
  <2>3. /\ installBox' = installBox \ UNION {Targets(u) : u \in {cur} \cup compileList}
        /\ outcome' = [x \in Objects |-> IF x \in compileList THEN "error" ELSE outcome[x]]
    BY <1>2 DEF StopCompile, BlockInstall
  <2>4. ASSUME NEW u \in Units, outcome'[u] = "error" PROVE Targets(u) \cap installBox' = {}
    <3>1. u \in compileList \/ outcome[u] = "error"
      BY <2>3, <2>4 DEF Units, Objects
    <3>2. CASE u \in compileList
      BY <2>3, <3>2
    <3>3. CASE outcome[u] = "error"
      BY <2>3, <3>3 DEF FailedInv
    <3>4. QED
      BY <3>1, <3>2, <3>3
  <2>5. QED
    BY <2>2, <2>4, FailedIdle
<1>3. CASE StopInstall
  <2>1. /\ TerminateInstaller(Plus("kill"), finished) /\ installList' = {}
        /\ UNCHANGED <<installBox, outcome>> /\ finished \in BOOLEAN
    BY <1>3 DEF StopInstall, Inv, TypePage
  <2>2. \A s \in sessions' : \E d \in sessions : s.fw = d.fw
    BY <1>1, <2>1, KillScheduled, InstallerGone DEF Inv, ObjectInv, ResultGoesToItsUnit
  <2>3. QED
    BY <1>1, <2>1, <2>2, FailedSame
<1>4. QED
  BY <1>2, <1>3 DEF StopClicked

LEMMA FailedClosed ==
  ASSUME Inv, UserWaits, FailedInv, CancelClicked \/ CloseWindow
  PROVE  FailedInv'
<1>1. loops = << >> /\ timers \in Timers
  BY ClicksWait DEF CancelClicked, CloseWindow, Inv, TypeRest
<1>2. UNCHANGED <<op, installBox, outcome, loops, installList>>
  BY DEF CancelClicked, CloseWindow, pageVars, boxVars, listVars, histVars
<1>3. PICK fin \in BOOLEAN : TerminateInstaller(timers, fin)
  BY DEF CancelClicked, CloseWindow, Inv, TypePage
<1>4. \A s \in sessions' : \E d \in sessions : s.fw = d.fw
  BY <1>1, <1>3, InstallerGone DEF Inv, ObjectInv, ResultGoesToItsUnit
<1>5. QED
  BY <1>2, <1>4, FailedSame

LEMMA FailedStep ==
  ASSUME Inv, Inv', UserWaits, FailuresKnown, FailedInv, [Next]_vars
  PROVE  FailedInv'
<1>1. CASE KillTimer \/ FinishClicked \/ EscapePressed \/ UNCHANGED vars
  <2>1. UNCHANGED <<op, installBox, outcome, loops, installList, sessions>>
    BY <1>1 DEF KillTimer, FinishClicked, EscapePressed, vars, pageVars, boxVars, listVars, jobVars, histVars
  <2>2. QED
    BY <2>1, FailedSame
<1>2. CASE ToggleBox \/ SelectAll \/ (BackClicked /\ op # "inspect")
  BY <1>2, FailedFirstPage DEF ToggleBox, SelectAll, BackClicked, ShowPageChoose, pageVars
<1>3. ASSUME NEW only \in BOOLEAN, Show(only) PROVE FailedInv'
  <2>1. CASE visible
    BY <1>3, <2>1, FailedSame DEF Show, pageVars, boxVars, listVars, histVars
  <2>2. CASE ~visible
    BY <1>3, <2>2, FailedFirstPage DEF Show, ShowPageChoose
  <2>3. QED
    BY <2>1, <2>2 DEF Inv, TypeRest
<1>4. CASE LoopReturns
  BY <1>4, FailedInstallStep, FailedCompile DEF LoopReturns, InstallSteps
<1>5. CASE TimerFires \/ OptionsAnswered \/ SomeSessionEnds
  BY <1>1, <1>5, FailedInstallStep, FailedCompile DEF TimerFires, InstallSteps
<1>6. CASE ProcessEnds
  BY <1>6, FailedInstallStep, FailedCompile DEF ProcessEnds, InstallSteps, Inv, TypeRest, Procs
<1>7. CASE User
  BY <1>1, <1>2, <1>3, <1>7, FailedPage, FailedStop, FailedClosed DEF User, PageTurns
<1>8. QED
  BY <1>1, <1>4, <1>5, <1>6, <1>7 DEF Next

\* No firewall whose own compile or that of its cluster failed or was stopped comes to
\* the options, the installer or a job: blockInstallForFirewall() is called wherever
\* it must be, and the lists of the install phase are made after it.
THEOREM FailedSafe == UserWaits /\ FailuresKnown => (Spec => []FailedNotInstalled)
<1> SUFFICES ASSUME UserWaits, FailuresKnown PROVE Spec => []FailedNotInstalled
  OBVIOUS
<1>1. Init => FailedInv
  BY DEF Init, FailedInv, Units, Objects
<1>2. Inv /\ Inv' /\ FailedInv /\ [Next]_vars => FailedInv'
  BY FailedStep
<1>3. Inv /\ FailedInv => FailedNotInstalled
  <2> SUFFICES ASSUME Inv, FailedInv, NEW i \in DOMAIN loops,
                      loops[i].at \in Jobs \cup {"options", "installer"},
                      NEW u \in Owners(loops[i].obj)
               PROVE  outcome[u] # "error"
    BY DEF FailedNotInstalled
  <2>1. PICK fr \in Frames : loops = <<fr>>
    BY DEF Inv, LoopInv
  <2>2. i = 1 /\ loops # << >>
    BY <2>1
  <2>3. Where = loops[i].at /\ What = loops[i].obj
    BY <2>2 DEF Where, What
  <2>4. u \in Units /\ What \in Targets(u)
    BY <2>3 DEF Owners
  <2>5. QED
    BY <2>3, <2>4 DEF FailedInv
<1>4. QED
  BY <1>1, <1>2, <1>3, Always, PTL DEF Spec

=============================================================================
