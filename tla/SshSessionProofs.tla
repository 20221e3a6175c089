-------------------------- MODULE SshSessionProofs --------------------------
(***************************************************************************)
(* Sessions with a firewall, for all the dialogues and any lists of        *)
(* commands: a session steps as SessionOutcome allows, a write through the *)
(* NULL process takes a handler that was suspended, the commands go out in *)
(* order, and a success means that all of them did.                        *)
(***************************************************************************)
EXTENDS SshSession, SequenceTheorems, WellFoundedInduction, TLAPS

Fields == {"state", "buf", "last", "proc", "started", "client", "code", "pre", "act", "post",
           "backup", "beating", "beats", "completed", "error", "timer", "loops", "loopExit",
           "reports", "pushed", "bye", "errorSeen", "stopped", "outlived", "crashed"}

Frames == [loop : {"newkey", "pager", "show run", "terminate"},
           by : {"signal", "timer", "single", "user"}]

\* the fields of which only the type matters
Typed(x) ==
  /\ x.state \in States /\ x.buf \subseteq Tokens /\ x.last \in Tokens \cup {""}
  /\ {x.backup, x.beating, x.beats, x.error, x.loopExit, x.bye, x.errorSeen, x.stopped}
       \subseteq BOOLEAN

\* what the methods that only read and write leave alone
Same(x, y) ==
  /\ DOMAIN y = Fields /\ (Typed(x) => Typed(y))
  /\ y.proc = x.proc /\ y.client = x.client /\ y.started = x.started
  /\ y.outlived = x.outlived /\ y.timer = x.timer /\ y.loops = x.loops
  /\ y.completed = x.completed /\ y.reports = x.reports
  /\ x.proc = "running" => y.crashed = x.crashed

\* what the state machine may do besides: report an error, start the zero timer and
\* enter an event loop
Dialogue(x, y) ==
  /\ DOMAIN y = Fields /\ (Typed(x) => Typed(y))
  /\ y.proc = x.proc /\ y.client = x.client /\ y.started = x.started
  /\ y.outlived = x.outlived /\ y.crashed = x.crashed
  /\ y.timer \in {x.timer, TRUE}
  /\ \/ y.completed = x.completed /\ y.reports = x.reports
     \/ /\ y.completed = TRUE
        /\ y.reports = IF x.completed THEN x.reports ELSE Append(x.reports, "error")
  /\ \/ y.loops = x.loops
     \/ \E f \in Frames : f.loop \in {"newkey", "terminate"} /\ y.loops = Append(x.loops, f)

-----------------------------------------------------------------------------
LEMMA TypedKept ==
  ASSUME NEW x, NEW y, Typed(x),
         y.state = x.state, y.buf = x.buf, y.last = x.last, y.backup = x.backup,
         y.beating = x.beating, y.beats = x.beats, y.error = x.error,
         y.loopExit = x.loopExit, y.bye = x.bye, y.errorSeen = x.errorSeen,
         y.stopped = x.stopped
  PROVE  Typed(y)
BY DEF Typed

LEMMA ClearSame == ASSUME NEW x, DOMAIN x = Fields PROVE Same(x, Clear(x))
BY DEF Same, Typed, Clear, Fields

LEMMA GotoSame == ASSUME NEW x, NEW st \in States, DOMAIN x = Fields PROVE Same(x, Goto(x, st))
BY DEF Same, Typed, Goto, Fields

LEMMA WriteSame == ASSUME NEW x, DOMAIN x = Fields PROVE Same(x, Write(x))
BY DEF Same, Typed, Write, Fields

LEMMA FlagSame ==
  ASSUME NEW x, DOMAIN x = Fields
  PROVE  /\ Same(x, [x EXCEPT !.errorSeen = TRUE]) /\ DOMAIN [x EXCEPT !.errorSeen = TRUE] = Fields
         /\ Same(x, [x EXCEPT !.error = TRUE]) /\ DOMAIN [x EXCEPT !.error = TRUE] = Fields
<1>1. Same(x, [x EXCEPT !.errorSeen = TRUE])
  BY DEF Same, Typed, Fields
<1>2. Same(x, [x EXCEPT !.error = TRUE])
  BY DEF Same, Typed, Fields
<1>3. QED
  BY <1>1, <1>2 DEF Same

LEMMA SameTrans ==
  ASSUME NEW x, NEW y, NEW z, Same(x, y), Same(y, z) PROVE Same(x, z)
BY DEF Same

LEMMA SendSame == ASSUME NEW x, NEW c, DOMAIN x = Fields PROVE Same(x, SendCommand(x, c))
<1> DEFINE w == Write(Clear(x))
<1>1. Same(x, Clear(x)) /\ DOMAIN Clear(x) = Fields
  BY ClearSame DEF Same
<1>2. Same(x, w) /\ DOMAIN w = Fields
  BY <1>1, WriteSame, SameTrans DEF Same
<1>3. Same(w, [w EXCEPT !.pushed = Append(@, c)])
  BY <1>2 DEF Same, Typed, Fields
<1>4. QED
  BY <1>2, <1>3, SameTrans DEF SendCommand
LEMMA PushNextSame == ASSUME NEW x, DOMAIN x = Fields PROVE Same(x, PushNext(x))
<1> DEFINE n == CHOOSE i \in 1..Len(x.act) :
                  x.act[i] # Comment /\ \A j \in 1..(i-1) : x.act[j] = Comment
           y == [x EXCEPT !.act = SubSeq(@, n + 1, Len(@))]
<1>1. Same(x, y) /\ DOMAIN y = Fields
  BY DEF Same, Typed, Fields
<1>2. Same(y, SendCommand(y, x.act[n]))
  BY <1>1, SendSame
<1>3. QED
  BY <1>1, <1>2, SameTrans DEF PushNext

\* the answers made of these, in each state of a dialogue
LEMMA Answers ==
  ASSUME NEW x, DOMAIN x = Fields
  PROVE  /\ Same(x, x)
         /\ Same(x, Write(Clear(x)))
         /\ \A st \in States : /\ Same(x, Clear(Goto(x, st)))
                               /\ Same(x, Write(Goto(x, st)))
                               /\ Same(x, Write(Goto(Clear(x), st)))
                               /\ Same(x, Write(Clear(Goto(x, st))))
<1>1. Same(x, x)
  BY DEF Same
<1>2. Same(x, Clear(x)) /\ DOMAIN Clear(x) = Fields
  BY ClearSame DEF Same
<1>3. Same(x, Write(Clear(x)))
  BY <1>2, WriteSame, SameTrans
<1>4. ASSUME NEW st \in States
      PROVE  /\ Same(x, Clear(Goto(x, st))) /\ Same(x, Write(Goto(x, st)))
             /\ Same(x, Write(Goto(Clear(x), st))) /\ Same(x, Write(Clear(Goto(x, st))))
  <2>1. Same(x, Goto(x, st)) /\ DOMAIN Goto(x, st) = Fields
    BY GotoSame DEF Same
  <2>2. Same(x, Clear(Goto(x, st))) /\ DOMAIN Clear(Goto(x, st)) = Fields
    BY <2>1, ClearSame, SameTrans DEF Same
  <2>3. Same(x, Goto(Clear(x), st)) /\ DOMAIN Goto(Clear(x), st) = Fields
    BY <1>2, GotoSame, SameTrans DEF Same
  <2>4. Same(x, Write(Goto(x, st))) /\ Same(x, Write(Goto(Clear(x), st)))
        /\ Same(x, Write(Clear(Goto(x, st))))
    BY <2>1, <2>2, <2>3, WriteSame, SameTrans
  <2>5. QED
    BY <2>2, <2>4
<1>5. QED
  BY <1>1, <1>3, <1>4

LEMMA ExitSame == ASSUME NEW x, DOMAIN x = Fields PROVE Same(x, ExitFromConfigStep(x))
<1> DEFINE p == [x EXCEPT !.post = Tail(@)]
           y == Write(Goto(Clear(x), "EXIT"))
<1>1. Same(x, p) /\ DOMAIN p = Fields
  BY DEF Same, Typed, Fields
<1>2. Same(x, SendCommand(p, Head(x.post)))
  BY <1>1, SendSame, SameTrans
<1>3. Same(x, y) /\ DOMAIN y = Fields
  BY Answers DEF Same, States
<1>4. Same(y, [y EXCEPT !.bye = TRUE])
  BY <1>3 DEF Same, Typed, Fields
<1>5. Same(x, [y EXCEPT !.bye = TRUE])
  BY <1>3, <1>4, SameTrans
<1>6. QED
  BY <1>2, <1>3, <1>5, Answers DEF ExitFromConfigStep

-----------------------------------------------------------------------------
(* A client runs and the program has not crashed when output is read.       *)

LEMMA SameDialogue ==
  ASSUME NEW x, NEW y, x.proc = "running", Same(x, y) PROVE Dialogue(x, y)
BY DEF Same, Dialogue

LEMMA DialogueAfterSame ==
  ASSUME NEW x, NEW y, NEW z, x.proc = "running", Same(x, y), Dialogue(y, z)
  PROVE  Dialogue(x, z)
BY DEF Same, Dialogue

LEMMA CompleteDialogue ==
  ASSUME NEW x, DOMAIN x = Fields
  PROVE  LET y == SessionComplete(x, TRUE)
         IN  /\ Dialogue(x, y) /\ y.loops = x.loops /\ y.timer = x.timer
<1> DEFINE y == SessionComplete(x, TRUE)
<1>1. Typed(x) => Typed(y)
  <2>1. /\ y.state = x.state /\ y.buf = x.buf /\ y.last = x.last /\ y.backup = x.backup
        /\ y.beating = x.beating /\ y.loopExit = x.loopExit /\ y.bye = x.bye
        /\ y.errorSeen = x.errorSeen /\ y.stopped = x.stopped
    BY DEF SessionComplete, Fields
  <2>2. y.beats = FALSE /\ y.error \in {x.error, TRUE}
    BY DEF SessionComplete, Fields
  <2> HIDE DEF y
  <2>3. QED
    BY <2>1, <2>2 DEF Typed
<1>2. /\ DOMAIN y = Fields /\ y.proc = x.proc /\ y.client = x.client /\ y.started = x.started
      /\ y.outlived = x.outlived /\ y.crashed = x.crashed /\ y.timer = x.timer
      /\ y.loops = x.loops
      /\ y.completed = TRUE
      /\ y.reports = IF x.completed THEN x.reports ELSE Append(x.reports, "error")
  BY DEF SessionComplete, Fields
<1> HIDE DEF y
<1>3. Dialogue(x, y) /\ y.loops = x.loops /\ y.timer = x.timer
  BY <1>1, <1>2 DEF Dialogue
<1>4. QED
  BY <1>3 DEF y

LEMMA TerminateDialogue ==
  ASSUME NEW x, NEW by \in {"signal", "timer", "single", "user"}, DOMAIN x = Fields,
         x.proc = "running"
  PROVE  LET y == Terminate(x, by)
         IN  /\ Dialogue(x, y) /\ y.completed = x.completed /\ y.reports = x.reports
             /\ y.timer = x.timer
<1> DEFINE b == [x EXCEPT !.beating = FALSE]
           f == [loop |-> "terminate", by |-> by]
<1>1. Same(x, b) /\ DOMAIN b = Fields
  BY DEF Same, Typed, Fields
<1>2. Terminate(x, by) = [b EXCEPT !.loops = Append(@, f)]
  BY <1>1 DEF Terminate, Push, Same
<1>3. f \in Frames /\ f.loop = "terminate"
  BY DEF Frames
<1>4. Typed(b) => Typed([b EXCEPT !.loops = Append(@, f)])
  BY <1>1 DEF Typed, Fields
<1>5. QED
  BY <1>1, <1>2, <1>3, <1>4 DEF Same, Dialogue, Fields

LEMMA ErrorDialogue ==
  ASSUME NEW x, NEW by \in {"signal", "timer"}, DOMAIN x = Fields, x.proc = "running"
  PROVE  Dialogue(x, OnError(x)) /\ Dialogue(x, OnErrorJunos(x, by))
<1> DEFINE c == [Clear(x) EXCEPT !.errorSeen = TRUE]
           d == [Clear(x) EXCEPT !.errorSeen = TRUE, !.error = TRUE]
           w == IF x.state = "PUSHING_CONFIG" THEN Write(d) ELSE d
           e == SessionComplete(w, TRUE)
<1>1. Same(x, Clear(x)) /\ DOMAIN Clear(x) = Fields
  BY ClearSame DEF Same
<1>2. Same(x, c) /\ DOMAIN c = Fields /\ Same(x, d) /\ DOMAIN d = Fields
  <2>1. Same(Clear(x), c) /\ DOMAIN c = Fields
    BY <1>1, FlagSame
  <2>2. d = [c EXCEPT !.error = TRUE]
    OBVIOUS
  <2>3. Same(c, d) /\ DOMAIN d = Fields
    <3> HIDE DEF c, d
    <3>1. QED
      BY <2>1, <2>2, FlagSame
  <2>4. QED
    BY <1>1, <2>1, <2>3, SameTrans
<1>3. Same(x, w) /\ DOMAIN w = Fields
  <2>1. Same(d, Write(d))
    BY <1>2, WriteSame
  <2>2. Same(x, Write(d)) /\ DOMAIN Write(d) = Fields
    BY <1>2, <2>1, SameTrans DEF Same
  <2>3. QED
    BY <1>2, <2>2
<1>4. Dialogue(x, OnError(x))
  BY <1>2, CompleteDialogue, DialogueAfterSame DEF OnError
<1>5. Dialogue(w, e) /\ e.loops = w.loops /\ e.timer = w.timer /\ e.proc = "running"
      /\ DOMAIN e = Fields
  BY <1>3, CompleteDialogue DEF Dialogue, Same
<1>6. /\ Dialogue(e, Terminate(e, by)) /\ Terminate(e, by).completed = e.completed
      /\ Terminate(e, by).reports = e.reports /\ Terminate(e, by).timer = e.timer
  <2> HIDE DEF w, e
  <2>1. QED
    BY <1>5, TerminateDialogue
<1>7. Dialogue(w, Terminate(e, by))
  <2> HIDE DEF w, e
  <2>1. QED
    BY <1>5, <1>6 DEF Dialogue
<1>8. Dialogue(x, Terminate(e, by))
  BY <1>3, <1>7, DialogueAfterSame
<1>9. Same(x, Goto(d, "EXIT_FROM_CONFIG"))
  BY <1>2, GotoSame, SameTrans DEF States
<1>10. QED
  BY <1>4, <1>8, <1>9, SameDialogue DEF OnErrorJunos

LEMMA AskDialogue ==
  ASSUME NEW x, NEW by \in {"signal", "timer"}, DOMAIN x = Fields
  PROVE  Dialogue(x, AskNewKey(x, by))
<1> DEFINE b == [x EXCEPT !.beating = FALSE]
           f == [loop |-> "newkey", by |-> by]
<1>1. f \in Frames /\ f.loop = "newkey"
  BY DEF Frames
<1>2. AskNewKey(x, by) = [b EXCEPT !.loops = Append(@, f)]
  BY DEF AskNewKey, Push
<1> DEFINE y == [b EXCEPT !.loops = Append(@, f)]
<1>3. Typed(x) => Typed(y)
  <2>1. /\ y.state = x.state /\ y.buf = x.buf /\ y.last = x.last /\ y.backup = x.backup
        /\ y.beating = FALSE /\ y.beats = x.beats /\ y.error = x.error
        /\ y.loopExit = x.loopExit /\ y.bye = x.bye /\ y.errorSeen = x.errorSeen
        /\ y.stopped = x.stopped
    BY DEF Fields
  <2> HIDE DEF y
  <2>2. QED
    BY <2>1 DEF Typed
<1>4. /\ DOMAIN y = Fields /\ y.proc = x.proc /\ y.client = x.client /\ y.started = x.started
      /\ y.outlived = x.outlived /\ y.crashed = x.crashed /\ y.timer = x.timer
      /\ y.completed = x.completed /\ y.reports = x.reports
      /\ y.loops = Append(x.loops, f)
  BY DEF Fields
<1>5. Dialogue(x, y)
  <2> HIDE DEF y, f
  <2>1. QED
    BY <1>1, <1>3, <1>4 DEF Dialogue
<1>6. QED
  BY <1>2, <1>5

LEMMA EnableDialogue ==
  ASSUME NEW x, DOMAIN x = Fields, x.proc = "running"
  PROVE  Dialogue(x, EnableStep(x))
<1> DEFINE p == [x EXCEPT !.pre = Tail(@)]
           t == [Clear(x) EXCEPT !.timer = TRUE]
<1>1. Same(x, p) /\ DOMAIN p = Fields
  BY DEF Same, Typed, Fields
<1>2. Same(x, SendCommand(p, Head(x.pre)))
  BY <1>1, SendSame, SameTrans
<1>3. Same(x, Clear(x)) /\ DOMAIN Clear(x) = Fields
  BY ClearSame DEF Same
<1>4. Dialogue(x, t)
  BY <1>3 DEF Same, Dialogue, Typed, Fields
<1>5. Same(x, x) /\ Same(x, Write(Goto(Clear(x), "WAITING_FOR_CONFIG_PROMPT")))
  BY Answers DEF States
<1>6. QED
  BY <1>2, <1>4, <1>5, SameDialogue DEF EnableStep

LEMMA ReenterDialogue ==
  ASSUME NEW x, NEW by \in {"signal", "timer"}, DOMAIN x = Fields, x.proc = "running"
  PROVE  Dialogue(x, ReenterEnable(x, by)) /\ Dialogue(x, ReenterWaiting(x, by))
<1>1. ASSUME NEW z, DOMAIN z = Fields, z.proc = "running"
      PROVE  Dialogue(z, ReenterEnable(z, by))
  <2> DEFINE y == Goto(z, "ENABLE")
  <2>1. Same(z, y) /\ DOMAIN y = Fields /\ y.proc = "running"
    BY <1>1, GotoSame DEF Same, States
  <2>2. Dialogue(z, OnError(y)) /\ Dialogue(z, OnErrorJunos(y, by)) /\ Dialogue(z, EnableStep(y))
    BY <1>1, <2>1, ErrorDialogue, EnableDialogue, DialogueAfterSame
  <2>3. QED
    BY <2>2 DEF ReenterEnable
<1> DEFINE y == Goto(x, "WAITING_FOR_ENABLE")
<1>2. Same(x, y) /\ DOMAIN y = Fields /\ y.proc = "running"
  BY GotoSame DEF Same, States
<1>3. Dialogue(x, OnError(y)) /\ Dialogue(x, OnErrorJunos(y, by))
      /\ Dialogue(x, ReenterEnable(y, by))
  BY <1>1, <1>2, ErrorDialogue, DialogueAfterSame
<1>4. Same(y, Write(Clear(y)))
  BY <1>2, Answers
<1>5. Dialogue(x, Write(Clear(y)))
  BY <1>2, <1>4, SameTrans, SameDialogue
<1>6. QED
  BY <1>1, <1>3, <1>5 DEF ReenterWaiting

LEMMA UnxDialogue ==
  ASSUME NEW x, NEW by \in {"signal", "timer"}, DOMAIN x = Fields, x.proc = "running"
  PROVE  Dialogue(x, UnxStep(x, by))
<1>1. UnxStep(x, by) \in {x, Clear(x), Write(Clear(x)), Clear(Goto(x, "PUSHING_CONFIG")),
                          AskNewKey(x, by)}
  BY DEF UnxStep
<1>2. Same(x, x) /\ Same(x, Clear(x)) /\ Same(x, Write(Clear(x)))
      /\ Same(x, Clear(Goto(x, "PUSHING_CONFIG")))
  BY Answers, ClearSame DEF States
<1>3. QED
  BY <1>1, <1>2, SameDialogue, AskDialogue

LEMMA CiscoDialogue ==
  ASSUME NEW x, NEW by \in {"signal", "timer"}, DOMAIN x = Fields, x.proc = "running"
  PROVE  Dialogue(x, CiscoStep(x, by))
<1> DEFINE g == Goto(x, "COMMAND_DONE")
           l == [g EXCEPT !.loopExit = TRUE]
<1>2. /\ Same(x, x) /\ Same(x, Write(Clear(x)))
      /\ Same(x, Write(Goto(Clear(x), "LOGGEDIN")))
      /\ Same(x, Write(Goto(Clear(x), "WAITING_FOR_ENABLE")))
      /\ Same(x, Write(Clear(Goto(x, "PUSHING_CONFIG"))))
      /\ Same(x, Write(Goto(x, "EXIT_FROM_CONFIG")))
      /\ Same(x, Write(Goto(Clear(x), "FINISH")))
  BY Answers DEF States
<1>3. Same(x, g) /\ DOMAIN g = Fields
  BY GotoSame DEF Same, States
<1>4. Same(x, l)
  BY <1>3 DEF Same, Typed, Fields
<1>5. Same(x, PushNext(x)) /\ Same(x, ExitFromConfigStep(x))
  BY PushNextSame, ExitSame
<1>6. /\ Dialogue(x, AskNewKey(x, by)) /\ Dialogue(x, EnableStep(x))
      /\ Dialogue(x, ReenterWaiting(x, by)) /\ Dialogue(x, ReenterEnable(x, by))
  BY AskDialogue, EnableDialogue, ReenterDialogue
<1>7. /\ Dialogue(x, x) /\ Dialogue(x, Write(Clear(x)))
      /\ Dialogue(x, Write(Goto(Clear(x), "LOGGEDIN")))
      /\ Dialogue(x, Write(Goto(Clear(x), "WAITING_FOR_ENABLE")))
      /\ Dialogue(x, Write(Clear(Goto(x, "PUSHING_CONFIG"))))
      /\ Dialogue(x, Write(Goto(x, "EXIT_FROM_CONFIG")))
      /\ Dialogue(x, Write(Goto(Clear(x), "FINISH")))
      /\ Dialogue(x, [Goto(x, "COMMAND_DONE") EXCEPT !.loopExit = TRUE])
      /\ Dialogue(x, PushNext(x)) /\ Dialogue(x, ExitFromConfigStep(x))
  BY <1>2, <1>4, <1>5, SameDialogue
<1>8. CASE x.state = "NONE"
  BY <1>6, <1>7, <1>8 DEF CiscoStep
<1>9. CASE x.state \in {"LOGGEDIN", "WAITING_FOR_ENABLE", "ENABLE"}
  BY <1>6, <1>7, <1>9 DEF CiscoStep
<1>10. CASE x.state \in {"EXECUTING_COMMAND", "WAITING_FOR_CONFIG_PROMPT", "PUSHING_CONFIG"}
  BY <1>7, <1>10 DEF CiscoStep
<1>11. CASE x.state \in {"EXIT_FROM_CONFIG", "EXIT"}
  BY <1>7, <1>11 DEF CiscoStep
<1>12. CASE x.state \notin {"NONE", "LOGGEDIN", "WAITING_FOR_ENABLE", "ENABLE",
                           "EXECUTING_COMMAND", "WAITING_FOR_CONFIG_PROMPT",
                           "PUSHING_CONFIG", "EXIT_FROM_CONFIG", "EXIT"}
  BY <1>7, <1>12 DEF CiscoStep
<1>13. QED
  BY <1>8, <1>9, <1>10, <1>11, <1>12

LEMMA JunosDialogue ==
  ASSUME NEW x, NEW by \in {"signal", "timer"}, DOMAIN x = Fields, x.proc = "running"
  PROVE  Dialogue(x, JunosStep(x, by))
<1> DEFINE w == Write(Clear(x))
           y == [w EXCEPT !.bye = TRUE]
           e == SessionComplete(y, TRUE)
<1>2. /\ Same(x, x) /\ Same(x, w) /\ Same(x, Write(Goto(Clear(x), "LOGGEDIN")))
      /\ Same(x, Write(Goto(Clear(x), "WAITING_FOR_ENABLE")))
      /\ Same(x, Write(Clear(Goto(x, "PUSHING_CONFIG"))))
      /\ Same(x, Write(Goto(x, "EXIT_FROM_CONFIG")))
  BY Answers DEF States
<1>3. DOMAIN w = Fields /\ Same(w, y)
  <2>1. DOMAIN w = Fields
    BY <1>2 DEF Same
  <2> HIDE DEF w
  <2>2. QED
    BY <2>1 DEF Same, Typed, Fields
<1>4. Same(x, y) /\ DOMAIN y = Fields
  BY <1>2, <1>3, SameTrans DEF Same
<1>5. Same(x, PushNext(x)) /\ Same(x, ExitFromConfigStep(x))
  BY PushNextSame, ExitSame
<1>6. /\ Dialogue(x, AskNewKey(x, by)) /\ Dialogue(x, EnableStep(x))
      /\ Dialogue(x, ReenterWaiting(x, by)) /\ Dialogue(x, ReenterEnable(x, by))
  BY AskDialogue, EnableDialogue, ReenterDialogue
<1>7. Dialogue(y, e) /\ e.loops = y.loops /\ e.timer = y.timer /\ e.proc = "running"
      /\ DOMAIN e = Fields
  BY <1>4, CompleteDialogue DEF Dialogue, Same
<1>8. /\ Dialogue(e, Terminate(e, by)) /\ Terminate(e, by).completed = e.completed
      /\ Terminate(e, by).reports = e.reports /\ Terminate(e, by).timer = e.timer
  BY <1>7, TerminateDialogue
<1>9. Dialogue(y, Terminate(e, by))
  BY <1>7, <1>8 DEF Dialogue
<1>10. Dialogue(x, Terminate(e, by))
  BY <1>4, <1>9, DialogueAfterSame
<1>11. /\ Dialogue(x, x) /\ Dialogue(x, w) /\ Dialogue(x, y)
       /\ Dialogue(x, Write(Goto(Clear(x), "LOGGEDIN")))
       /\ Dialogue(x, Write(Goto(Clear(x), "WAITING_FOR_ENABLE")))
       /\ Dialogue(x, Write(Clear(Goto(x, "PUSHING_CONFIG"))))
       /\ Dialogue(x, Write(Goto(x, "EXIT_FROM_CONFIG")))
       /\ Dialogue(x, PushNext(x)) /\ Dialogue(x, ExitFromConfigStep(x))
  BY <1>2, <1>4, <1>5, SameDialogue
<1>12. CASE x.state \in {"NONE", "LOGGEDIN", "WAITING_FOR_ENABLE", "ENABLE"}
  BY <1>6, <1>11, <1>12 DEF JunosStep
<1>13. CASE x.state \in {"WAITING_FOR_CONFIG_PROMPT", "PUSHING_CONFIG", "EXIT_FROM_CONFIG"}
  BY <1>11, <1>13 DEF JunosStep
<1>14. CASE x.state = "EXIT"
  BY <1>10, <1>11, <1>14 DEF JunosStep
<1>15. CASE x.state \notin {"NONE", "LOGGEDIN", "WAITING_FOR_ENABLE", "ENABLE",
                           "WAITING_FOR_CONFIG_PROMPT", "PUSHING_CONFIG",
                           "EXIT_FROM_CONFIG", "EXIT"}
  BY <1>11, <1>15 DEF JunosStep
<1>16. QED
  BY <1>12, <1>13, <1>14, <1>15

\* Whatever the device says, the state machine stays within Dialogue.
LEMMA StateMachineDialogue ==
  ASSUME NEW x, NEW by \in {"signal", "timer"}, DOMAIN x = Fields, x.proc = "running"
  PROVE  Dialogue(x, StateMachine(x, by))
<1> DEFINE q == IF kind = "nxos" /\ Has(x, "question") THEN Write(Clear(x)) ELSE x
<1>1. Same(x, q) /\ DOMAIN q = Fields /\ q.proc = "running"
  BY Answers DEF Same
<1>2. Dialogue(x, CiscoStep(q, by))
  BY <1>1, CiscoDialogue, DialogueAfterSame
<1>3. QED
  BY <1>2, ErrorDialogue, UnxDialogue, JunosDialogue DEF StateMachine

-----------------------------------------------------------------------------
(* The inductive invariant.                                                  *)

Shape(x) ==
  /\ DOMAIN x = Fields
  /\ {x.started, x.completed, x.timer, x.outlived, x.crashed} \subseteq BOOLEAN
  /\ Typed(x)
  /\ x.proc \in {"none", "failed", "running"}
  /\ x.client \in {"none", "failed", "running", "ended", "killed"}
  /\ x.loops \in Seq(Frames)

\* the first status is the only one
Reported(x) ==
  \/ x.completed = FALSE /\ x.reports = <<>>
  \/ x.completed = TRUE /\ (x.reports = <<"ok">> \/ x.reports = <<"error">>)

\* proc and the client it stands for; nothing happens in a session without a client
Phase(x) ==
  /\ x.proc = "running" => x.client \in {"running", "ended"}
  /\ x.client = "running" => x.proc = "running"
  /\ ~x.started => x.client = "none"
  /\ x.client \in {"none", "failed"} => x.loops = <<>> /\ ~x.timer /\ x.reports = <<>>

Waiting(x) == x.timer \/ \E i \in 1..Len(x.loops) : x.loops[i].loop # "terminate"

\* a suspended handler has its client, or is known to have lost it
Lost(x) ==
  /\ Waiting(x) => x.proc = "running" \/ x.outlived
  /\ x.crashed => x.outlived

SInv(x) == Shape(x) /\ Reported(x) /\ Phase(x) /\ Lost(x)

LEMMA FirstReport == Append(<<>>, "error") = <<"error">> /\ Append(<<>>, "ok") = <<"ok">>
OBVIOUS

LEMMA PushLoops ==
  ASSUME NEW x, NEW y, x.loops \in Seq(Frames), NEW f \in Frames,
         y.loops = Append(x.loops, f)
  PROVE  /\ y.loops \in Seq(Frames) /\ y.loops # <<>>
         /\ (Waiting(y) /\ y.timer = x.timer /\ f.loop = "terminate") => Waiting(x)
<1>1. /\ y.loops \in Seq(Frames) /\ Len(y.loops) = Len(x.loops) + 1
      /\ \A i \in 1..Len(x.loops) : y.loops[i] = x.loops[i]
      /\ y.loops[Len(x.loops) + 1] = f
  OBVIOUS
<1>2. y.loops # <<>>
  BY <1>1
<1>3. ASSUME Waiting(y), y.timer = x.timer, f.loop = "terminate" PROVE Waiting(x)
  <2>1. CASE y.timer
    BY <1>3, <2>1 DEF Waiting
  <2>2. ASSUME NEW i \in 1..Len(y.loops), y.loops[i].loop # "terminate" PROVE Waiting(x)
    <3>1. Len(x.loops) \in Nat /\ i \in 1..(Len(x.loops) + 1)
      BY <1>1, <2>2
    <3>2. i # Len(x.loops) + 1
      BY <1>1, <1>3, <2>2
    <3>3. i \in 1..Len(x.loops) /\ x.loops[i].loop # "terminate"
      BY <1>1, <2>2, <3>1, <3>2
    <3>4. QED
      BY <3>3 DEF Waiting
  <2>3. QED
    BY <1>3, <2>1, <2>2 DEF Waiting
<1>4. QED
  BY <1>1, <1>2, <1>3

LEMMA PopLoops ==
  ASSUME NEW x, DOMAIN x = Fields, x.loops \in Seq(Frames), x.loops # <<>>
  PROVE  LET y == Pop(x)
         IN  /\ y = [x EXCEPT !.loops = Front(x.loops)]
             /\ y.loops \in Seq(Frames)
             /\ \A i \in 1..Len(y.loops) : i \in 1..Len(x.loops) /\ y.loops[i] = x.loops[i]
             /\ Top(x) \in Frames
             /\ Top(x).loop # "terminate" => \E i \in 1..Len(x.loops) : x.loops[i].loop # "terminate"
<1>1. Front(x.loops) \in Seq(Frames) /\ Len(Front(x.loops)) = Len(x.loops) - 1
      /\ \A i \in 1..Len(Front(x.loops)) : Front(x.loops)[i] = x.loops[i]
  BY DEF Front
<1>2. Len(x.loops) \in 1..Len(x.loops) /\ Top(x) = x.loops[Len(x.loops)] /\ Top(x) \in Frames
  BY DEF Top, Last
<1>3. Pop(x) = [x EXCEPT !.loops = Front(x.loops)] /\ Pop(x).loops = Front(x.loops)
  BY DEF Pop, Fields
<1>4. QED
  BY <1>1, <1>2, <1>3

\* Reading output keeps the invariant.
LEMMA DialogueInv ==
  ASSUME NEW x, NEW y, SInv(x), x.proc = "running", Dialogue(x, y)
  PROVE  SInv(y)
<1>1. y.loops \in Seq(Frames) /\ y.timer \in BOOLEAN
  BY PushLoops DEF SInv, Shape, Dialogue
<1>2. Shape(y)
  <2>1. y.completed \in BOOLEAN
    BY DEF SInv, Shape, Dialogue
  <2>2. QED
    BY <1>1, <2>1 DEF SInv, Shape, Dialogue
<1>3. Reported(y)
  BY FirstReport DEF SInv, Reported, Dialogue
<1>4. Phase(y)
  BY DEF SInv, Shape, Phase, Dialogue
<1>5. Lost(y)
  BY DEF SInv, Lost, Dialogue
<1>6. QED
  BY <1>2, <1>3, <1>4, <1>5 DEF SInv

LEMMA PushTyped ==
  ASSUME NEW x, NEW loop, NEW by, DOMAIN x = Fields, Typed(x) PROVE Typed(Push(x, loop, by))
BY TypedKept DEF Push, Fields

-----------------------------------------------------------------------------
(* One lemma for each group of actions: the invariant, and what the         *)
(* installer can see of the step.                                           *)

\* the client stays, and the error may be reported that was not reported before
ErrorAtMost ==
  /\ s'.client = s.client
  /\ s'.reports # s.reports =>
       s.reports = <<>> /\ s'.reports = <<"error">> /\ s.client \notin {"none", "failed"}

LEMMA InitInv == Init => SInv(s)
<1> SUFFICES ASSUME Init PROVE SInv(s)
  OBVIOUS
<1>1. /\ DOMAIN s = Fields /\ Typed(s) /\ s.proc = "none" /\ s.started = FALSE /\ s.client = "none"
      /\ s.completed = FALSE /\ s.timer = FALSE /\ s.loops = <<>> /\ s.reports = <<>>
      /\ s.outlived = FALSE /\ s.crashed = FALSE
  <2>1. Typed(s)
    <3>1. s.state = "NONE" /\ s.buf = {} /\ s.last = "" /\ s.backup \in BOOLEAN
          /\ {s.beating, s.beats, s.error, s.loopExit, s.bye, s.errorSeen, s.stopped}
               \subseteq BOOLEAN
      BY DEF Init
    <3>2. QED
      BY <3>1 DEF Typed, States
  <2>2. /\ DOMAIN s = Fields /\ s.proc = "none" /\ s.started = FALSE /\ s.client = "none"
        /\ s.completed = FALSE /\ s.timer = FALSE /\ s.loops = <<>> /\ s.reports = <<>>
        /\ s.outlived = FALSE /\ s.crashed = FALSE
    BY DEF Init, Fields
  <2>3. QED
    BY <2>1, <2>2
<1>2. Shape(s)
  <2>1. <<>> \in Seq(Frames)
    OBVIOUS
  <2>2. QED
    BY <1>1, <2>1 DEF Shape
<1>3. Reported(s) /\ Phase(s)
  BY <1>1 DEF Reported, Phase
<1>4. Lost(s)
  BY <1>1 DEF Lost, Waiting
<1>5. QED
  BY <1>2, <1>3, <1>4 DEF SInv

LEMMA StartInv == ASSUME SInv(s), StartSession PROVE SInv(s') /\ s'.reports = s.reports
<1> PICK ok \in BOOLEAN :
      s' = [s EXCEPT !.started = TRUE, !.beating = TRUE,
                     !.proc = IF ok THEN "running" ELSE "failed",
                     !.client = IF ok THEN "running" ELSE "failed"]
  BY DEF StartSession
<1>1. s'.loops = <<>> /\ ~s'.timer /\ s'.reports = <<>> /\ s'.reports = s.reports
  BY DEF SInv, Shape, Phase, StartSession, Fields
<1>2. Shape(s') /\ Reported(s')
  <2>1. Typed(s')
    <3>1. Typed(s) /\ DOMAIN s = Fields
      BY DEF SInv, Shape
    <3>2. /\ s'.state = s.state /\ s'.buf = s.buf /\ s'.last = s.last
          /\ s'.backup = s.backup /\ s'.beating = TRUE /\ s'.beats = s.beats
          /\ s'.error = s.error /\ s'.loopExit = s.loopExit /\ s'.bye = s.bye
          /\ s'.errorSeen = s.errorSeen /\ s'.stopped = s.stopped
      BY <3>1 DEF Fields
    <3>3. QED
      BY <3>1, <3>2 DEF Typed
  <2>2. QED
    BY <2>1 DEF SInv, Shape, Reported, Fields
<1>3. Phase(s')
  BY <1>1 DEF SInv, Shape, Phase, Fields
<1>4. Lost(s')
  BY <1>1 DEF SInv, Shape, Lost, Waiting, Fields
<1>5. QED
  BY <1>1, <1>2, <1>3, <1>4 DEF SInv

LEMMA ReadInv ==
  ASSUME SInv(s), NEW tok \in Says, NEW by \in {"signal", "timer"}, ReadFromStdout(tok, by)
  PROVE  SInv(s') /\ ErrorAtMost
<1> DEFINE x == [s EXCEPT !.buf = @ \cup {tok}, !.last = tok]
<1>1. s.proc = "running" /\ s' = StateMachine(x, by)
  BY DEF ReadFromStdout, MayRead
<1>2. Same(s, x) /\ DOMAIN x = Fields /\ Typed(x) /\ x.proc = "running"
  <2>1. tok \in Tokens
    BY DEF Says, Tokens
  <2>2. Typed(s) => Typed(x)
    BY <1>1, <2>1 DEF SInv, Shape, Typed, Fields
  <2>3. QED
    BY <1>1, <2>2 DEF SInv, Shape, Same, Fields
<1>3. Dialogue(s, s')
  BY <1>1, <1>2, StateMachineDialogue, DialogueAfterSame
<1>4. SInv(s')
  BY <1>1, <1>3, DialogueInv
<1>5. ErrorAtMost
  BY <1>1, <1>3, FirstReport DEF Dialogue, SInv, Reported, Phase, ErrorAtMost
<1>6. QED
  BY <1>4, <1>5

LEMMA AnswerInv ==
  ASSUME SInv(s), NEW yes \in BOOLEAN, AnswerNewKey(yes)
  PROVE  SInv(s') /\ ErrorAtMost
<1> DEFINE b == [s EXCEPT !.beating = TRUE]
           p == Pop(b)
           y == Clear(p)
<1>1. b.loops = s.loops /\ s.loops # <<>> /\ DOMAIN b = Fields /\ Typed(b) /\ s.loops \in Seq(Frames)
      /\ Top(b).loop = "newkey"
  BY DEF AnswerNewKey, InLoop, Top, SInv, Shape, Typed, Fields
<1>2. /\ p = [b EXCEPT !.loops = Front(b.loops)]
      /\ p.loops \in Seq(Frames)
      /\ \A i \in 1..Len(p.loops) : i \in 1..Len(s.loops) /\ p.loops[i] = s.loops[i]
      /\ \E i \in 1..Len(s.loops) : s.loops[i].loop # "terminate"
  <2> HIDE DEF b
  <2>1. b.loops \in Seq(Frames) /\ b.loops # <<>> /\ Top(b).loop # "terminate"
    BY <1>1
  <2>2. QED
    BY <1>1, <2>1, PopLoops
<1>3. s.client \notin {"none", "failed"} /\ (s.proc = "running" \/ s.outlived)
  BY <1>1, <1>2 DEF SInv, Phase, Lost, Waiting
<1>4. /\ DOMAIN y = Fields /\ Typed(y) /\ y.loops = p.loops
      /\ y.proc = s.proc /\ y.client = s.client /\ y.started = s.started /\ y.timer = s.timer
      /\ y.outlived = s.outlived /\ y.crashed = s.crashed
      /\ y.completed = s.completed /\ y.reports = s.reports
  <2>1. Typed(y)
    <3>1. DOMAIN p = Fields /\ Typed(s)
      BY <1>1, <1>2 DEF SInv, Shape
    <3>2. Typed(b)
      BY <1>1, <3>1 DEF Typed, Fields
    <3>3. Typed(p)
      BY <1>1, <1>2, <3>2, TypedKept DEF Fields
    <3>4. QED
      BY <3>1, <3>3, ClearSame DEF Same
  <2>2. /\ DOMAIN y = Fields /\ y.loops = p.loops
        /\ y.proc = s.proc /\ y.client = s.client /\ y.started = s.started /\ y.timer = s.timer
        /\ y.outlived = s.outlived /\ y.crashed = s.crashed
        /\ y.completed = s.completed /\ y.reports = s.reports
    BY <1>1, <1>2 DEF Clear, SInv, Shape, Fields
  <2>3. QED
    BY <2>1, <2>2
<1>5. SInv(y)
  <2> HIDE DEF y, p, b
  <2>1. Shape(y) /\ Reported(y)
    BY <1>2, <1>4 DEF SInv, Shape, Reported
  <2>2. Phase(y)
    BY <1>3, <1>4 DEF SInv, Phase
  <2>3. Lost(y)
    BY <1>3, <1>4 DEF SInv, Lost
  <2>4. QED
    BY <2>1, <2>2, <2>3 DEF SInv
<1>6. CASE yes
  <2>1. s' = Write(y)
    BY <1>6 DEF AnswerNewKey
  <2>2. SInv(s') /\ s'.client = y.client /\ s'.reports = y.reports
    <3> HIDE DEF y, p, b
    <3>1. /\ Typed(s') /\ DOMAIN s' = Fields /\ s'.proc = y.proc /\ s'.client = y.client
          /\ s'.started = y.started /\ s'.outlived = y.outlived /\ s'.timer = y.timer
          /\ s'.loops = y.loops /\ s'.completed = y.completed /\ s'.reports = y.reports
      BY <2>1, <1>4, WriteSame DEF Same
    <3>2. s' = y \/ (y.proc # "running" /\ s' = [y EXCEPT !.crashed = TRUE])
      BY <2>1 DEF Write
    <3>3. s'.crashed \in BOOLEAN /\ (s'.crashed => s'.outlived)
      <4>1. CASE s' = y
        BY <1>5, <4>1 DEF SInv, Shape, Lost
      <4>2. CASE y.proc # "running" /\ s' = [y EXCEPT !.crashed = TRUE]
        <5>1. s'.crashed = TRUE /\ s'.outlived = y.outlived
          BY <1>4, <4>2 DEF Fields
        <5>2. y.outlived = TRUE
          BY <1>3, <1>4, <1>5, <4>2 DEF SInv, Shape
        <5>3. QED
          BY <5>1, <5>2
      <4>3. QED
        BY <3>2, <4>1, <4>2
    <3>4. Shape(s')
      BY <1>5, <3>1, <3>3 DEF SInv, Shape
    <3>5. Reported(s') /\ Phase(s')
      BY <1>5, <3>1 DEF SInv, Reported, Phase
    <3>6. Lost(s')
      BY <1>5, <3>1, <3>3 DEF SInv, Lost, Waiting
    <3>7. QED
      BY <3>1, <3>4, <3>5, <3>6 DEF SInv
  <2>3. QED
    BY <2>2, <1>4 DEF ErrorAtMost
<1>7. CASE ~yes
  <2>1. s' = SessionComplete(y, TRUE)
    BY <1>7 DEF AnswerNewKey
  <2>2. /\ DOMAIN s' = Fields /\ Typed(s') /\ s'.loops = y.loops /\ s'.proc = y.proc
        /\ s'.client = y.client /\ s'.started = y.started /\ s'.timer = y.timer
        /\ s'.outlived = y.outlived /\ s'.crashed = y.crashed /\ s'.completed = TRUE
        /\ s'.reports = IF y.completed THEN y.reports ELSE Append(y.reports, "error")
    <3>1. Typed(s')
      BY <2>1, <1>4, CompleteDialogue DEF Dialogue
    <3>2. /\ DOMAIN s' = Fields /\ s'.loops = y.loops /\ s'.proc = y.proc
          /\ s'.client = y.client /\ s'.started = y.started /\ s'.timer = y.timer
          /\ s'.outlived = y.outlived /\ s'.crashed = y.crashed /\ s'.completed = TRUE
          /\ s'.reports = IF y.completed THEN y.reports ELSE Append(y.reports, "error")
      BY <2>1, <1>4 DEF SessionComplete, Fields
    <3>3. QED
      BY <3>1, <3>2
  <2>3. Reported(s') /\ ErrorAtMost
    BY <2>2, <1>3, <1>4, <1>5, FirstReport DEF SInv, Reported, ErrorAtMost
  <2>4. Shape(s')
    BY <2>2, <1>5 DEF SInv, Shape
  <2>5. Phase(s') /\ Lost(s')
    BY <2>2, <1>3, <1>4, <1>5 DEF SInv, Phase, Lost, Waiting
  <2>6. QED
    BY <2>3, <2>4, <2>5 DEF SInv
<1>8. QED
  BY <1>6, <1>7

\* a suspended handler that goes on: "pager" is sent by the timer, "show run" behind it
LEMMA CmdInv ==
  ASSUME NEW x, NEW c \in {"pager", "show run"}, SInv(x), x.proc = "running" \/ x.outlived,
         x.client \notin {"none", "failed"}
  PROVE  LET y == Cmd(x, c) IN SInv(y) /\ y.client = x.client /\ y.reports = x.reports
<1> DEFINE w == Write(Clear(x))
           g == Goto(w, "EXECUTING_COMMAND")
           f == [loop |-> c, by |-> "single"]
           y == Cmd(x, c)
<1>1. /\ DOMAIN w = Fields /\ Typed(w) /\ w.loops = x.loops /\ w.proc = x.proc /\ w.client = x.client
      /\ w.started = x.started /\ w.timer = x.timer /\ w.outlived = x.outlived
      /\ w.completed = x.completed /\ w.reports = x.reports
      /\ w.crashed \in {x.crashed, TRUE} /\ (w.crashed # x.crashed => x.proc # "running")
  BY DEF Clear, Write, SInv, Shape, Typed, Fields
<1>2. SInv(w)
  <2> HIDE DEF w
  <2>1. Shape(w) /\ Reported(w)
    BY <1>1 DEF SInv, Shape, Reported
  <2>2. Phase(w) /\ Lost(w)
    BY <1>1 DEF SInv, Shape, Phase, Lost, Waiting
  <2>3. QED
    BY <2>1, <2>2 DEF SInv
<1>3. f \in Frames
  BY DEF Frames
<1>4. CASE ~w.crashed
  <2>1. y = Push(g, c, "single")
    BY <1>4 DEF Cmd
  <2>2. /\ DOMAIN y = Fields /\ Typed(y) /\ y.loops = Append(w.loops, f) /\ y.proc = w.proc
        /\ y.client = w.client /\ y.started = w.started /\ y.timer = w.timer
        /\ y.outlived = w.outlived /\ y.crashed = w.crashed
        /\ y.completed = w.completed /\ y.reports = w.reports
    <3>1. Typed(y)
      <4>1. Typed(g) /\ DOMAIN g = Fields
        BY <1>1, GotoSame DEF Same, States
      <4>2. QED
        BY <2>1, <4>1, PushTyped
    <3>2. /\ DOMAIN y = Fields /\ y.loops = Append(w.loops, f) /\ y.proc = w.proc
          /\ y.client = w.client /\ y.started = w.started /\ y.timer = w.timer
          /\ y.outlived = w.outlived /\ y.crashed = w.crashed
          /\ y.completed = w.completed /\ y.reports = w.reports
      BY <1>1, <2>1 DEF Push, Goto, Fields
    <3>3. QED
      BY <3>1, <3>2
  <2> HIDE DEF y, f, w
  <2>3. y.loops \in Seq(Frames)
    BY <1>2, <1>3, <2>2, PushLoops DEF SInv, Shape
  <2>4. Shape(y) /\ Reported(y)
    BY <1>2, <2>2, <2>3 DEF SInv, Shape, Reported
  <2>5. Phase(y) /\ Lost(y)
    BY <1>1, <1>2, <2>2 DEF SInv, Phase, Lost
  <2>6. QED
    BY <1>1, <2>2, <2>4, <2>5 DEF SInv, y
<1>5. CASE w.crashed
  BY <1>1, <1>2, <1>5 DEF Cmd
<1>6. QED
  BY <1>4, <1>5

LEMMA BackupInv == ASSUME SInv(s), PIXbackup PROVE SInv(s') /\ ErrorAtMost
<1> DEFINE x == [s EXCEPT !.timer = FALSE]
<1>1. s.timer = TRUE /\ s' = Cmd(x, "pager")
  BY DEF PIXbackup, SInv, Shape
<1>2. (s.proc = "running" \/ s.outlived) /\ s.client \notin {"none", "failed"}
  BY <1>1 DEF SInv, Lost, Waiting, Phase
<1>3. /\ DOMAIN x = Fields /\ Typed(x) /\ x.loops = s.loops /\ x.proc = s.proc /\ x.client = s.client
      /\ x.started = s.started /\ x.timer = FALSE /\ x.outlived = s.outlived
      /\ x.crashed = s.crashed /\ x.completed = s.completed /\ x.reports = s.reports
  BY DEF SInv, Shape, Typed, Fields
<1>4. SInv(x)
  <2> HIDE DEF x
  <2>1. Shape(x) /\ Reported(x)
    BY <1>3 DEF SInv, Shape, Reported
  <2>2. Phase(x) /\ Lost(x)
    BY <1>2, <1>3 DEF SInv, Phase, Lost
  <2>3. QED
    BY <2>1, <2>2 DEF SInv
<1> HIDE DEF x
<1>5. SInv(s') /\ s'.client = x.client /\ s'.reports = x.reports
  BY <1>1, <1>2, <1>3, <1>4, CmdInv
<1>6. QED
  BY <1>3, <1>5 DEF ErrorAtMost

LEMMA CmdReturnsInv == ASSUME SInv(s), CmdReturns PROVE SInv(s') /\ ErrorAtMost
<1> DEFINE b == [s EXCEPT !.loopExit = FALSE]
           y == Pop(b)
           z == IF y.state = "COMMAND_DONE" THEN Goto([y EXCEPT !.backup = FALSE], "ENABLE")
                ELSE y
<1>1. b.loops = s.loops /\ s.loops # <<>> /\ DOMAIN b = Fields /\ Typed(b) /\ s.loops \in Seq(Frames)
      /\ Top(b) = Top(s) /\ Top(s).loop # "terminate"
  BY DEF CmdReturns, InLoop, Top, SInv, Shape, Typed, Fields
<1>2. /\ y = [b EXCEPT !.loops = Front(b.loops)]
      /\ y.loops \in Seq(Frames)
      /\ \A i \in 1..Len(y.loops) : i \in 1..Len(s.loops) /\ y.loops[i] = s.loops[i]
      /\ \E i \in 1..Len(s.loops) : s.loops[i].loop # "terminate"
  <2> HIDE DEF b
  <2>1. b.loops \in Seq(Frames) /\ b.loops # <<>> /\ Top(b).loop # "terminate"
    BY <1>1
  <2>2. QED
    BY <1>1, <2>1, PopLoops
<1>3. s.client \notin {"none", "failed"} /\ (s.proc = "running" \/ s.outlived)
  BY <1>1, <1>2 DEF SInv, Phase, Lost, Waiting
<1>4. /\ DOMAIN y = Fields /\ Typed(y)
      /\ y.proc = s.proc /\ y.client = s.client /\ y.started = s.started /\ y.timer = s.timer
      /\ y.outlived = s.outlived /\ y.crashed = s.crashed
      /\ y.completed = s.completed /\ y.reports = s.reports
  <2>1. Typed(b)
    BY <1>1 DEF SInv, Shape, Typed, Fields
  <2>2. Typed(y)
    <3> HIDE DEF y, b
    <3>1. /\ y.state = b.state /\ y.buf = b.buf /\ y.last = b.last /\ y.backup = b.backup
          /\ y.beating = b.beating /\ y.beats = b.beats /\ y.error = b.error
          /\ y.loopExit = b.loopExit /\ y.bye = b.bye /\ y.errorSeen = b.errorSeen
          /\ y.stopped = b.stopped
      BY <1>1, <1>2 DEF Fields
    <3>2. QED
      BY <2>1, <3>1, TypedKept
  <2>3. /\ DOMAIN y = Fields
        /\ y.proc = s.proc /\ y.client = s.client /\ y.started = s.started
        /\ y.timer = s.timer /\ y.outlived = s.outlived /\ y.crashed = s.crashed
        /\ y.completed = s.completed /\ y.reports = s.reports
    BY <1>1, <1>2 DEF SInv, Shape, Fields
  <2>4. QED
    BY <2>2, <2>3
<1>5. SInv(y)
  <2> HIDE DEF y, b
  <2>1. Shape(y) /\ Reported(y)
    BY <1>2, <1>4 DEF SInv, Shape, Reported
  <2>2. Phase(y)
    BY <1>3, <1>4 DEF SInv, Phase
  <2>3. Lost(y)
    BY <1>3, <1>4 DEF SInv, Lost
  <2>4. QED
    BY <2>1, <2>2, <2>3 DEF SInv
<1>6. CASE Top(s).loop = "pager"
  <2>1. s' = Cmd(y, "show run")
    BY <1>6 DEF CmdReturns
  <2> HIDE DEF y
  <2>2. SInv(s') /\ s'.client = y.client /\ s'.reports = y.reports
    BY <2>1, <1>3, <1>4, <1>5, CmdInv
  <2>3. QED
    BY <1>4, <2>2 DEF ErrorAtMost
<1>7. CASE Top(s).loop # "pager"
  <2>1. s' = Write(z)
    BY <1>7 DEF CmdReturns
  <2> HIDE DEF y
  <2>2. /\ DOMAIN z = Fields /\ Typed(z) /\ z.loops = y.loops /\ z.proc = y.proc /\ z.client = y.client
        /\ z.started = y.started /\ z.timer = y.timer /\ z.outlived = y.outlived
        /\ z.crashed = y.crashed /\ z.completed = y.completed /\ z.reports = y.reports
    <3>1. Typed(z)
      <4>1. Typed([y EXCEPT !.backup = FALSE]) /\ DOMAIN [y EXCEPT !.backup = FALSE] = Fields
        BY <1>4 DEF Typed, Fields
      <4>2. QED
        BY <1>4, <4>1, GotoSame DEF Same, States
    <3>2. /\ DOMAIN z = Fields /\ z.loops = y.loops /\ z.proc = y.proc /\ z.client = y.client
          /\ z.started = y.started /\ z.timer = y.timer /\ z.outlived = y.outlived
          /\ z.crashed = y.crashed /\ z.completed = y.completed /\ z.reports = y.reports
      BY <1>4 DEF Goto, Fields
    <3>3. QED
      BY <3>1, <3>2
  <2> HIDE DEF z
  <2>3. /\ DOMAIN s' = Fields /\ Typed(s') /\ s'.loops = y.loops /\ s'.proc = y.proc
        /\ s'.client = y.client /\ s'.started = y.started /\ s'.timer = y.timer
        /\ s'.outlived = y.outlived /\ s'.completed = y.completed /\ s'.reports = y.reports
        /\ s'.crashed \in {y.crashed, TRUE} /\ (s'.crashed # y.crashed => y.proc # "running")
    BY <2>1, <2>2 DEF Write, Typed, Fields
  <2>4. Shape(s') /\ Reported(s')
    BY <1>5, <2>3 DEF SInv, Shape, Reported
  <2>5. Phase(s') /\ Lost(s')
    BY <1>3, <1>4, <1>5, <2>3 DEF SInv, Phase, Lost, Waiting
  <2>6. QED
    BY <1>4, <2>3, <2>4, <2>5 DEF SInv, ErrorAtMost
<1>8. QED
  BY <1>6, <1>7

LEMMA EndsInv ==
  ASSUME SInv(s), NEW code, ClientEnds(code)
  PROVE  SInv(s') /\ s.client = "running" /\ s'.client = "ended" /\ s'.reports = s.reports
<1>1. /\ DOMAIN s' = Fields /\ Typed(s') /\ s'.loops = s.loops /\ s'.proc = s.proc /\ s'.client = "ended"
      /\ s'.started = s.started /\ s'.timer = s.timer /\ s'.outlived = s.outlived
      /\ s'.crashed = s.crashed /\ s'.completed = s.completed /\ s'.reports = s.reports
      /\ s.client = "running"
  BY DEF ClientEnds, SInv, Shape, Typed, Fields
<1>2. Shape(s') /\ Reported(s')
  BY <1>1 DEF SInv, Shape, Reported
<1>3. Phase(s') /\ Lost(s')
  BY <1>1 DEF SInv, Shape, Phase, Lost, Waiting
<1>4. QED
  BY <1>1, <1>2, <1>3 DEF SInv

LEMMA FinishedInv ==
  ASSUME SInv(s), Finished
  PROVE  /\ SInv(s') /\ s.client = "ended" /\ s'.client = "ended"
         /\ \/ s'.reports = s.reports
            \/ s.reports = <<>> /\ s'.reports \in {<<"ok">>, <<"error">>}
<1> DEFINE x == [s EXCEPT !.proc = "none", !.outlived = @ \/ Suspended]
           err == ~Success(s.code)
<1>1. s' = SessionComplete(x, err) /\ s.client = "ended" /\ s.proc = "running"
  BY DEF Finished
<1>2. Waiting(s) <=> Suspended
  BY DEF Waiting, Suspended
<1>3. /\ DOMAIN x = Fields /\ Typed(x) /\ x.loops = s.loops /\ x.proc = "none" /\ x.client = "ended"
      /\ x.started = s.started /\ x.timer = s.timer /\ x.outlived = (s.outlived \/ Suspended)
      /\ x.crashed = s.crashed /\ x.completed = s.completed /\ x.reports = s.reports
  BY <1>1 DEF SInv, Shape, Typed, Fields
<1>0. err \in BOOLEAN
  OBVIOUS
<1> HIDE DEF x, err
<1>4. /\ DOMAIN s' = Fields /\ Typed(s') /\ s'.loops = s.loops /\ s'.proc = "none" /\ s'.client = "ended"
      /\ s'.started = s.started /\ s'.timer = s.timer
      /\ s'.outlived = (s.outlived \/ Suspended)
      /\ s'.crashed = s.crashed /\ s'.completed = TRUE
      /\ s'.reports = IF s.completed THEN s.reports
                      ELSE Append(s.reports, IF err THEN "error" ELSE "ok")
  <2>1. Typed(s')
    <3>1. s'.error \in BOOLEAN
      BY <1>0, <1>1, <1>3 DEF SessionComplete, Typed, Fields
    <3>2. /\ s'.state = x.state /\ s'.buf = x.buf /\ s'.last = x.last
          /\ s'.backup = x.backup /\ s'.beating = x.beating /\ s'.beats = FALSE
          /\ s'.loopExit = x.loopExit /\ s'.bye = x.bye
          /\ s'.errorSeen = x.errorSeen /\ s'.stopped = x.stopped
      BY <1>1, <1>3 DEF SessionComplete, Fields
    <3>3. QED
      BY <1>3, <3>1, <3>2 DEF Typed
  <2>2. /\ DOMAIN s' = Fields /\ s'.loops = s.loops /\ s'.proc = "none" /\ s'.client = "ended"
        /\ s'.started = s.started /\ s'.timer = s.timer
        /\ s'.outlived = (s.outlived \/ Suspended)
        /\ s'.crashed = s.crashed /\ s'.completed = TRUE
        /\ s'.reports = IF s.completed THEN s.reports
                        ELSE Append(s.reports, IF err THEN "error" ELSE "ok")
    BY <1>1, <1>3 DEF SessionComplete, Fields
  <2>3. QED
    BY <2>1, <2>2
<1>5. s'.outlived \in BOOLEAN
  BY <1>4
<1>6. Shape(s')
  BY <1>4, <1>5 DEF SInv, Shape
<1>7. /\ Reported(s')
      /\ \/ s'.reports = s.reports
         \/ s.reports = <<>> /\ s'.reports \in {<<"ok">>, <<"error">>}
  BY <1>4, FirstReport DEF SInv, Reported
<1>8. Phase(s')
  BY <1>1, <1>4 DEF SInv, Phase
<1>9. Lost(s')
  <2>1. Waiting(s') => Suspended
    BY <1>2, <1>4 DEF Waiting
  <2>2. s'.outlived = TRUE \/ ~Suspended
    BY <1>4
  <2>3. s'.crashed => s'.outlived
    BY <1>4 DEF SInv, Lost
  <2>4. QED
    BY <2>1, <2>2, <2>3 DEF Lost
<1>10. QED
  BY <1>1, <1>4, <1>6, <1>7, <1>8, <1>9 DEF SInv

LEMMA KillInv ==
  ASSUME SInv(s), KillClient
  PROVE  SInv(s') /\ s.client = "running" /\ s'.client = "killed" /\ s'.reports = s.reports
<1>1. s' = [Pop(s) EXCEPT !.proc = "none", !.client = "killed", !.outlived = @ \/ Suspended]
      /\ s.loops # <<>> /\ s.client = "running" /\ DOMAIN s = Fields /\ Typed(s)
      /\ s.loops \in Seq(Frames)
  BY DEF KillClient, InLoop, SInv, Shape
<1>2. /\ Pop(s) = [s EXCEPT !.loops = Front(s.loops)]
      /\ Pop(s).loops \in Seq(Frames)
      /\ \A i \in 1..Len(Pop(s).loops) : i \in 1..Len(s.loops) /\ Pop(s).loops[i] = s.loops[i]
  BY <1>1, PopLoops
<1>3. /\ DOMAIN s' = Fields /\ Typed(s') /\ s'.loops = Pop(s).loops /\ s'.proc = "none"
      /\ s'.client = "killed" /\ s'.started = s.started /\ s'.timer = s.timer
      /\ s'.outlived = (s.outlived \/ Suspended) /\ s'.crashed = s.crashed
      /\ s'.completed = s.completed /\ s'.reports = s.reports
  <2>1. Typed(s')
    BY <1>1, <1>2, TypedKept DEF SInv, Shape, Fields
  <2>2. /\ DOMAIN s' = Fields /\ s'.loops = Pop(s).loops /\ s'.proc = "none"
        /\ s'.client = "killed" /\ s'.started = s.started /\ s'.timer = s.timer
        /\ s'.outlived = (s.outlived \/ Suspended) /\ s'.crashed = s.crashed
        /\ s'.completed = s.completed /\ s'.reports = s.reports
    BY <1>1, <1>2 DEF Fields
  <2>3. QED
    BY <2>1, <2>2
<1>4. Shape(s') /\ Reported(s')
  <2>1. s'.outlived \in BOOLEAN
    BY <1>3
  <2>2. QED
    BY <1>2, <1>3, <2>1 DEF SInv, Shape, Reported
<1>5. Phase(s')
  BY <1>1, <1>3 DEF SInv, Phase
<1>6. Lost(s')
  <2>1. Waiting(s') => Suspended
    BY <1>2, <1>3 DEF Waiting, Suspended
  <2>2. s'.outlived = TRUE \/ ~Suspended
    BY <1>3
  <2>3. s'.crashed => s'.outlived
    BY <1>3 DEF SInv, Lost
  <2>4. QED
    BY <2>1, <2>2, <2>3 DEF Lost
<1>7. QED
  BY <1>1, <1>3, <1>4, <1>5, <1>6 DEF SInv

LEMMA TerminateReturnsInv ==
  ASSUME SInv(s), TerminateReturns PROVE SInv(s') /\ ErrorAtMost
<1>1. s' = Pop(s) /\ s.loops # <<>> /\ DOMAIN s = Fields /\ Typed(s) /\ s.loops \in Seq(Frames)
  BY DEF TerminateReturns, InLoop, SInv, Shape
<1>2. /\ s' = [s EXCEPT !.loops = Front(s.loops)]
      /\ s'.loops \in Seq(Frames)
      /\ \A i \in 1..Len(s'.loops) : i \in 1..Len(s.loops) /\ s'.loops[i] = s.loops[i]
  BY <1>1, PopLoops
<1>3. /\ DOMAIN s' = Fields /\ Typed(s') /\ s'.proc = s.proc
      /\ s'.client = s.client /\ s'.started = s.started /\ s'.timer = s.timer
      /\ s'.outlived = s.outlived /\ s'.crashed = s.crashed
      /\ s'.completed = s.completed /\ s'.reports = s.reports
  BY <1>1, <1>2 DEF Typed, Fields
<1>4. Shape(s') /\ Reported(s')
  BY <1>2, <1>3 DEF SInv, Shape, Reported
<1>5. Phase(s')
  BY <1>1, <1>3 DEF SInv, Phase
<1>6. Lost(s')
  BY <1>2, <1>3 DEF SInv, Lost, Waiting
<1>7. QED
  BY <1>3, <1>4, <1>5, <1>6 DEF SInv, ErrorAtMost

LEMMA StopInv == ASSUME SInv(s), Stop PROVE SInv(s') /\ ErrorAtMost
<1> DEFINE b == [s EXCEPT !.beating = FALSE]
           f == [loop |-> "terminate", by |-> "user"]
           x == Terminate(s, "user")
<1>1. /\ DOMAIN b = Fields /\ Typed(b) /\ b.loops = s.loops /\ b.proc = s.proc /\ b.client = s.client
      /\ b.started = s.started /\ b.timer = s.timer /\ b.outlived = s.outlived
      /\ b.crashed = s.crashed /\ b.completed = s.completed /\ b.reports = s.reports
  BY DEF SInv, Shape, Typed, Fields
<1>2. x = IF b.proc = "running" THEN Push(b, "terminate", "user")
          ELSE [b EXCEPT !.proc = "none"]
  BY DEF Terminate
<1>3. s' = [x EXCEPT !.stopped = TRUE]
  BY DEF Stop
<1> HIDE DEF x, b
<1>4. /\ DOMAIN s' = Fields /\ Typed(s') /\ s'.client = s.client
      /\ s'.started = s.started /\ s'.timer = s.timer /\ s'.outlived = s.outlived
      /\ s'.crashed = s.crashed /\ s'.completed = s.completed /\ s'.reports = s.reports
      /\ s'.proc = IF s.proc = "running" THEN s.proc ELSE "none"
      /\ s'.loops = IF s.proc = "running" THEN Append(s.loops, f) ELSE s.loops
  <2>1. Typed(s')
    <3>1. Typed([b EXCEPT !.proc = "none"]) /\ DOMAIN [b EXCEPT !.proc = "none"] = Fields
      BY <1>1, TypedKept DEF Fields
    <3>2. Typed(x) /\ DOMAIN x = Fields
      BY <1>1, <1>2, <3>1, PushTyped DEF Push, Fields
    <3>3. /\ s'.state = x.state /\ s'.buf = x.buf /\ s'.last = x.last
          /\ s'.backup = x.backup /\ s'.beating = x.beating /\ s'.beats = x.beats
          /\ s'.error = x.error /\ s'.loopExit = x.loopExit /\ s'.bye = x.bye
          /\ s'.errorSeen = x.errorSeen /\ s'.stopped = TRUE
      BY <1>3, <3>2 DEF Fields
    <3>4. QED
      BY <3>2, <3>3 DEF Typed
  <2>2. /\ DOMAIN s' = Fields /\ s'.client = s.client
        /\ s'.started = s.started /\ s'.timer = s.timer /\ s'.outlived = s.outlived
        /\ s'.crashed = s.crashed /\ s'.completed = s.completed /\ s'.reports = s.reports
        /\ s'.proc = IF s.proc = "running" THEN s.proc ELSE "none"
        /\ s'.loops = IF s.proc = "running" THEN Append(s.loops, f) ELSE s.loops
    BY <1>1, <1>2, <1>3 DEF Push, Fields
  <2>3. QED
    BY <2>1, <2>2
<1>5. f \in Frames /\ f.loop = "terminate"
  BY DEF Frames
<1> HIDE DEF f
<1>6. s'.loops \in Seq(Frames) /\ (Waiting(s') => Waiting(s))
  <2>1. CASE s.proc = "running"
    BY <1>4, <1>5, <2>1, PushLoops DEF SInv, Shape
  <2>2. CASE s.proc # "running"
    BY <1>4, <2>2 DEF SInv, Shape, Waiting
  <2>3. QED
    BY <2>1, <2>2
<1>7. Shape(s') /\ Reported(s')
  BY <1>4, <1>6 DEF SInv, Shape, Reported
<1>8. Phase(s')
  BY <1>4 DEF SInv, Phase
<1>9. Lost(s')
  BY <1>4, <1>6 DEF SInv, Lost
<1>10. QED
  BY <1>4, <1>7, <1>8, <1>9 DEF SInv, ErrorAtMost

-----------------------------------------------------------------------------
OutcomeOf(x) == IF x.reports = <<>> THEN "none"
                ELSE IF Len(x.reports) = 1 THEN x.reports[1] ELSE "several"

LEMMA OutcomeValues ==
  /\ \A x : x.reports = <<>> => OutcomeOf(x) = "none"
  /\ \A x : x.reports = <<"ok">> => OutcomeOf(x) = "ok"
  /\ \A x : x.reports = <<"error">> => OutcomeOf(x) = "error"
<1>1. /\ Len(<<"ok">>) = 1 /\ <<"ok">>[1] = "ok" /\ <<"ok">> # <<>>
      /\ Len(<<"error">>) = 1 /\ <<"error">>[1] = "error" /\ <<"error">> # <<>>
  OBVIOUS
<1>2. ASSUME NEW x, x.reports = <<>> PROVE OutcomeOf(x) = "none"
  BY <1>2 DEF OutcomeOf
<1>3. ASSUME NEW x, x.reports = <<"ok">> PROVE OutcomeOf(x) = "ok"
  BY <1>1, <1>3, Zenon DEF OutcomeOf
<1>4. ASSUME NEW x, x.reports = <<"error">> PROVE OutcomeOf(x) = "error"
  BY <1>1, <1>4, Zenon DEF OutcomeOf
<1>5. QED
  BY <1>2, <1>3, <1>4

\* A step that reports an error at most is a step of the promise.
LEMMA ErrorAtMostOutcome ==
  ASSUME ErrorAtMost PROVE [Outcome!Next]_(Outcome!vars)
<1>1. CASE s'.reports = s.reports
  BY <1>1 DEF ErrorAtMost, Outcome!vars
<1>2. CASE s'.reports # s.reports
  <2>1. OutcomeOf(s) = "none" /\ OutcomeOf(s)' = "error"
    BY <1>2, OutcomeValues DEF ErrorAtMost, OutcomeOf
  <2>2. Outcome!ReportError
    BY <1>2, <2>1 DEF ErrorAtMost, Outcome!ReportError, OutcomeOf
  <2>3. QED
    BY <2>2 DEF Outcome!Next
<1>3. QED
  BY <1>1, <1>2

LEMMA StepInv ==
  ASSUME SInv(s), [Next]_vars PROVE SInv(s') /\ [Outcome!Next]_(Outcome!vars)
<1>1. CASE StartSession
  <2>1. SInv(s') /\ s'.reports = s.reports
    BY <1>1, StartInv
  <2>2. s.client = "none" /\ s'.client \in {"running", "failed"}
    BY <1>1 DEF StartSession, SInv, Shape, Phase, Typed, Fields
  <2>3. Outcome!Start
    BY <2>1, <2>2 DEF Outcome!Start
  <2>4. QED
    BY <2>1, <2>3 DEF Outcome!Next
<1>2. ASSUME NEW tok \in Says, NEW by \in {"signal", "timer"}, ReadFromStdout(tok, by)
      PROVE  SInv(s') /\ [Outcome!Next]_(Outcome!vars)
  BY <1>2, ReadInv, ErrorAtMostOutcome
<1>3. ASSUME NEW yes \in BOOLEAN, AnswerNewKey(yes)
      PROVE  SInv(s') /\ [Outcome!Next]_(Outcome!vars)
  BY <1>3, AnswerInv, ErrorAtMostOutcome
<1>4. CASE PIXbackup
  BY <1>4, BackupInv, ErrorAtMostOutcome
<1>5. CASE CmdReturns
  BY <1>5, CmdReturnsInv, ErrorAtMostOutcome
<1>6. ASSUME NEW code \in ExitCodes, ClientEnds(code)
      PROVE  SInv(s') /\ [Outcome!Next]_(Outcome!vars)
  <2>1. SInv(s') /\ s.client = "running" /\ s'.client = "ended" /\ s'.reports = s.reports
    BY <1>6, EndsInv
  <2>2. Outcome!End
    BY <2>1 DEF Outcome!End
  <2>3. QED
    BY <2>1, <2>2 DEF Outcome!Next
<1>7. CASE Finished
  <2>1. /\ SInv(s') /\ s.client = "ended" /\ s'.client = "ended"
        /\ \/ s'.reports = s.reports
           \/ s.reports = <<>> /\ s'.reports \in {<<"ok">>, <<"error">>}
    BY <1>7, FinishedInv
  <2>2. CASE s'.reports = s.reports
    BY <2>1, <2>2 DEF Outcome!vars
  <2>3. CASE s.reports = <<>> /\ s'.reports \in {<<"ok">>, <<"error">>}
    <3>1. OutcomeOf(s) = "none" /\ OutcomeOf(s)' \in {"ok", "error"}
      BY <2>3, OutcomeValues DEF OutcomeOf
    <3>2. Outcome!ReportEnd
      BY <2>1, <3>1 DEF Outcome!ReportEnd, OutcomeOf
    <3>3. QED
      BY <2>1, <3>2 DEF Outcome!Next
  <2>4. QED
    BY <2>1, <2>2, <2>3
<1>8. CASE KillClient
  <2>1. SInv(s') /\ s.client = "running" /\ s'.client = "killed" /\ s'.reports = s.reports
    BY <1>8, KillInv
  <2>2. Outcome!Kill
    BY <2>1 DEF Outcome!Kill
  <2>3. QED
    BY <2>1, <2>2 DEF Outcome!Next
<1>9. CASE TerminateReturns
  BY <1>9, TerminateReturnsInv, ErrorAtMostOutcome
<1>10. CASE Stop
  BY <1>10, StopInv, ErrorAtMostOutcome
<1>11. CASE UNCHANGED vars
  BY <1>11 DEF vars, Outcome!vars
<1>12. QED
  BY <1>1, <1>2, <1>3, <1>4, <1>5, <1>6, <1>7, <1>8, <1>9, <1>10, <1>11 DEF Next, Idle

-----------------------------------------------------------------------------
\* Every session keeps its invariant: one status at most, proc stands for a client that
\* runs or has ended, and a handler that is suspended (host key question, backup
\* commands, timer of the backup) has its client or is known to have outlived it.
THEOREM SessionInvariant == Spec => []SInv(s)
<1>1. SInv(s) /\ [Next]_vars => SInv(s)'
  BY StepInv
<1>2. QED
  BY InitInv, <1>1, PTL DEF Spec

\* The session is well typed.
THEOREM SessionTyped == Spec => []TypeOK
<1> DEFINE K == kind \in Kinds /\ backup0 \in BOOLEAN
<1>1. Init => K
  BY DEF Init
<1>2. K /\ [Next]_vars => K'
  BY DEF Next, StartSession, ReadFromStdout, AnswerNewKey, PIXbackup, CmdReturns, ClientEnds,
         Finished, KillClient, TerminateReturns, Stop, Idle, vars
<1>3. K /\ SInv(s) => TypeOK
  <2> SUFFICES ASSUME K, SInv(s) PROVE TypeOK
    OBVIOUS
  <2>1. s.reports \in Seq({"ok", "error"})
    <3>1. /\ <<>> \in Seq({"ok", "error"}) /\ <<"ok">> \in Seq({"ok", "error"})
          /\ <<"error">> \in Seq({"ok", "error"})
      OBVIOUS
    <3>2. QED
      BY <3>1 DEF SInv, Reported
  <2>2. s.loops \in Seq([loop : {"newkey", "pager", "show run", "terminate"},
                         by : {"signal", "timer", "single", "user"}])
    BY DEF SInv, Shape, Frames
  <2>3. s.completed \in BOOLEAN
    BY DEF SInv, Shape
  <2>4. QED
    BY <2>1, <2>2, <2>3 DEF SInv, Shape, Typed, TypeOK
<1> HIDE DEF K
<1>4. QED
  BY SessionInvariant, <1>1, <1>2, <1>3, PTL DEF Spec

\* The only way to a write through the NULL proc: a handler of the session was
\* suspended while the session lost its client.
THEOREM CrashNeedsSuspension == Spec => []NullWriteNeedsSuspension
<1>1. SInv(s) => NullWriteNeedsSuspension
  BY DEF SInv, Lost, NullWriteNeedsSuspension
<1>2. QED
  BY SessionInvariant, <1>1, PTL

\* A session starts and steps as SessionOutcome allows: the installer gets one status
\* at most, the first one, and success only for a client that has ended.
THEOREM SessionStepsAsPromised == Spec => Outcome!Init /\ [][Outcome!Next]_(Outcome!vars)
<1>1. ASSUME Init PROVE Outcome!Init
  <2>1. s.client = "none" /\ s.reports = <<>>
    BY <1>1 DEF Init
  <2>2. QED
    BY <2>1 DEF Outcome!Init
<1>2. SInv(s) /\ [Next]_vars => [Outcome!Next]_(Outcome!vars)
  BY StepInv
<1>3. QED
  BY SessionInvariant, <1>1, <1>2, PTL DEF Spec

-----------------------------------------------------------------------------
(* Counting.  The induction theorems of the library take an operator, so    *)
(* these go through the least element of a set of numbers.                  *)

LEMMA LeastNumber ==
  ASSUME NEW T \in SUBSET Nat, T # {} PROVE \E n \in T : \A m \in T : n <= m
<1> DEFINE R == OpToRel(<, Nat)
<1>1. IsWellFoundedOn(R, Nat)
  BY NatLessThanWellFounded
<1>2. PICK n \in T : \A m \in T : ~(<<m, n>> \in R)
  <2> HIDE DEF R
  <2>1. QED
    BY <1>1, WFMin
<1>3. ASSUME NEW m \in T PROVE n <= m
  <2>1. ~(<<m, n>> \in R)
    BY <1>2
  <2>2. ~(m < n)
    BY <2>1 DEF OpToRel
  <2>3. QED
    BY <2>2
<1>4. QED
  BY <1>3

LEMMA Counting ==
  ASSUME NEW N \in Nat, NEW S, 0 \in S, \A n \in 0..(N - 1) : n \in S => n + 1 \in S
  PROVE  0..N \subseteq S
<1> SUFFICES ASSUME (0..N) \ S # {} PROVE FALSE
  OBVIOUS
<1>1. PICK n \in (0..N) \ S : \A m \in (0..N) \ S : n <= m
  <2> DEFINE T == (0..N) \ S
  <2>1. T \in SUBSET Nat /\ T # {}
    OBVIOUS
  <2> HIDE DEF T
  <2>2. QED
    BY <2>1, LeastNumber DEF T
<1>2. n # 0 /\ n - 1 \in 0..(N - 1)
  BY <1>1
<1>3. n - 1 \in S
  BY <1>1, <1>2
<1>4. (n - 1) + 1 \in S
  BY <1>2, <1>3
<1>5. QED
  BY <1>2, <1>4

-----------------------------------------------------------------------------
(* What Stripped computes.                                                   *)

L == Len(Activation)

LEMMA Lists ==
  /\ Pre \in Seq(Lines) /\ Activation \in Seq(Lines) /\ Post \in Seq(Lines)
  /\ L \in Nat \ {0} /\ Activation[L] # Comment
  /\ \A n \in 1..L : Activation[n] \in Lines
BY ListsAssumption, ActivationAssumption DEF L, Last

\* the body of Stripped
Body(f, n) == IF n = 0 THEN <<>>
              ELSE IF Activation[n] = Comment THEN f[n-1] ELSE Append(f[n-1], Activation[n])

\* a function that Stripped stands for exists up to any number of lines
StrippedTo(n) == {f \in [0..n -> Seq(Lines)] : \A m \in 0..n : f[m] = Body(f, m)}

LEMMA StrippedExists == StrippedTo(L) # {}
<1> DEFINE S == {n \in 0..L : StrippedTo(n) # {}}
<1>1. 0 \in S
  <2> DEFINE f == [m \in 0..0 |-> <<>>]
  <2>1. f \in [0..0 -> Seq(Lines)] /\ f[0] = <<>> /\ \A m \in 0..0 : m = 0
    OBVIOUS
  <2> HIDE DEF f
  <2>2. f \in StrippedTo(0)
    BY <2>1 DEF StrippedTo, Body
  <2>3. QED
    BY <2>2, Lists
<1>2. ASSUME NEW n \in 0..(L - 1), n \in S PROVE n + 1 \in S
  <2>1. PICK f \in StrippedTo(n) : TRUE
    BY <1>2
  <2>2. f \in [0..n -> Seq(Lines)] /\ \A m \in 0..n : f[m] = Body(f, m)
    BY <2>1 DEF StrippedTo
  <2> DEFINE l == IF Activation[n+1] = Comment THEN f[n] ELSE Append(f[n], Activation[n+1])
             g == [m \in 0..(n+1) |-> IF m = n + 1 THEN l ELSE f[m]]
  <2>3. n + 1 \in 1..L /\ n \in 0..n /\ f[n] \in Seq(Lines) /\ Activation[n+1] \in Lines
    BY <2>2, Lists
  <2>4. l \in Seq(Lines)
    BY <2>3
  <2>5. g \in [0..(n+1) -> Seq(Lines)] /\ g[n+1] = l /\ \A m \in 0..n : g[m] = f[m]
    <3> HIDE DEF l
    <3>1. QED
      BY <2>2, <2>4
  <2> HIDE DEF g
  <2>6. ASSUME NEW m \in 0..(n+1) PROVE g[m] = Body(g, m)
    <3>1. CASE m = n + 1
      <4>1. g[m-1] = f[n] /\ m # 0
        BY <2>3, <2>5, <3>1
      <4>2. QED
        BY <2>5, <3>1, <4>1 DEF Body
    <3>2. CASE m \in 0..n
      <4>1. g[m] = f[m] /\ (m # 0 => g[m-1] = f[m-1])
        BY <2>5, <3>2
      <4>2. QED
        BY <2>2, <3>2, <4>1 DEF Body
    <3>3. QED
      BY <3>1, <3>2
  <2>7. g \in StrippedTo(n+1)
    BY <2>5, <2>6 DEF StrippedTo
  <2>8. QED
    BY <2>3, <2>7
<1> HIDE DEF S
<1>3. 0..L \subseteq S
  BY <1>1, <1>2, Counting, Lists
<1>4. QED
  BY <1>3, Lists DEF S

LEMMA StrippedSteps ==
  /\ Stripped \in [0..L -> Seq(Lines)]
  /\ Stripped[0] = <<>>
  /\ \A n \in 1..L : Stripped[n] = IF Activation[n] = Comment THEN Stripped[n-1]
                                   ELSE Append(Stripped[n-1], Activation[n])
<1>1. PICK f \in StrippedTo(L) : TRUE
  BY StrippedExists
<1>2. f \in [0..L -> Seq(Lines)] /\ \A n \in 0..L : f[n] = Body(f, n)
  BY <1>1 DEF StrippedTo
<1>3. Stripped = CHOOSE g : g = [n \in 0..L |-> Body(g, n)]
  BY DEF Stripped, Body, L
<1>4. f = [n \in 0..L |-> Body(f, n)]
  BY <1>2
<1>5. \E g : g = [n \in 0..L |-> Body(g, n)]
  BY <1>4
<1>6. Stripped = [n \in 0..L |-> Body(Stripped, n)]
  BY <1>3, <1>5, Zenon
<1>7. \A n \in 0..L : Stripped[n] = Body(Stripped, n)
  BY <1>6, Zenon
<1>8. DOMAIN Stripped = 0..L
  BY <1>6
<1> DEFINE S == {n \in 0..L : Stripped[n] \in Seq(Lines)}
<1>9. 0..L \subseteq S
  <2>1. 0 \in S
    <3>1. 0 \in 0..L /\ Stripped[0] = <<>>
      BY <1>7, Lists DEF Body
    <3>2. QED
      BY <3>1, EmptySeq
  <2>2. ASSUME NEW n \in 0..(L - 1), n \in S PROVE n + 1 \in S
    <3>1. n + 1 \in 0..L /\ n + 1 # 0 /\ (n + 1) - 1 = n /\ Activation[n+1] \in Lines
      BY Lists
    <3>2. Stripped[n+1] \in {Stripped[n], Append(Stripped[n], Activation[n+1])}
      <4>1. Stripped[n+1] = Body(Stripped, n + 1)
        BY <1>7, <3>1
      <4>2. Body(Stripped, n + 1) \in {Stripped[n], Append(Stripped[n], Activation[n+1])}
        BY <3>1 DEF Body
      <4>3. QED
        BY <4>1, <4>2
    <3>3. Stripped[n] \in Seq(Lines)
      BY <2>2
    <3>4. Append(Stripped[n], Activation[n+1]) \in Seq(Lines)
      BY <3>1, <3>3, AppendProperties
    <3>5. Stripped[n+1] \in Seq(Lines)
      BY <3>2, <3>3, <3>4
    <3>6. QED
      BY <3>1, <3>5
  <2> HIDE DEF S
  <2>3. QED
    BY <2>1, <2>2, Counting, Lists
<1>10. Stripped \in [0..L -> Seq(Lines)]
  <2>1. \A n \in 0..L : Stripped[n] \in Seq(Lines)
    BY <1>9
  <2>2. Stripped = [n \in 0..L |-> Stripped[n]]
    BY <1>6, <1>7
  <2>3. QED
    BY <2>1, <2>2
<1>11. Stripped[0] = <<>>
  BY <1>7, Lists DEF Body
<1>12. ASSUME NEW n \in 1..L
       PROVE  Stripped[n] = IF Activation[n] = Comment THEN Stripped[n-1]
                            ELSE Append(Stripped[n-1], Activation[n])
  BY <1>7, Lists DEF Body
<1>13. QED
  BY <1>10, <1>11, <1>12

\* The comments between the n-th line and the next command change nothing.
LEMMA StrippedSkips ==
  ASSUME NEW n \in 0..L, NEW m \in 1..(L - n), Activation[n + m] # Comment,
         \A j \in 1..(m - 1) : Activation[n + j] = Comment
  PROVE  Stripped[n + m] = Append(Stripped[n], Activation[n + m])
<1> DEFINE S == {j \in 0..(m - 1) : Stripped[n + j] = Stripped[n]}
<1>1. 0 \in S
  BY Lists
<1>2. ASSUME NEW j \in 0..((m - 1) - 1), j \in S PROVE j + 1 \in S
  <2>1. j + 1 \in 1..(m - 1) /\ n + (j + 1) \in 1..L /\ (n + (j + 1)) - 1 = n + j
    BY Lists
  <2>2. Stripped[n + (j + 1)] = Stripped[n + j]
    BY <2>1, StrippedSteps
  <2>3. QED
    BY <1>2, <2>1, <2>2
<1> HIDE DEF S
<1>3. 0..(m - 1) \subseteq S
  <2>1. m - 1 \in Nat
    BY Lists
  <2>2. QED
    BY <1>1, <1>2, <2>1, Counting
<1>4. Stripped[n + (m - 1)] = Stripped[n]
  BY <1>3, Lists DEF S
<1>5. n + m \in 1..L /\ (n + m) - 1 = n + (m - 1)
  BY Lists
<1>6. QED
  BY <1>4, <1>5, StrippedSteps

-----------------------------------------------------------------------------
(* The lists of commands: what was pushed and what is left of each list,    *)
(* in each state of a dialogue.                                             *)

Before == {"NONE", "LOGGEDIN", "WAITING_FOR_ENABLE", "ENABLE"}
InBackup == {"EXECUTING_COMMAND", "COMMAND_DONE"}

All == Pre \o Commands \o Post

\* before configuration mode, pre_config_commands are under way
Early(x) ==
  /\ x.state \in Before \cup InBackup
  /\ x.act = Activation /\ x.post = Post /\ x.pushed \o x.pre = Pre

\* in configuration mode, the first n lines to activate have been popped
Middle(x) ==
  /\ x.state \in {"WAITING_FOR_CONFIG_PROMPT", "PUSHING_CONFIG"}
  /\ x.post = Post
  /\ \E n \in 0..Len(Activation) :
       /\ x.state = "WAITING_FOR_CONFIG_PROMPT" => n = 0
       /\ x.act = SubSeq(Activation, n + 1, Len(Activation))
       /\ x.pushed = Pre \o Stripped[n]

\* after it, post_config_commands are; Junos may have skipped configuration mode
Late(x, k) ==
  /\ x.state \in {"EXIT_FROM_CONFIG", "EXIT", "FINISH"}
  /\ \/ x.pushed \o x.post = All
     \/ k = "junos" /\ x.error = TRUE /\ x.pushed \o x.post = Pre \o Post
  /\ x.state # "EXIT_FROM_CONFIG" => x.post = <<>>

Listed(x, k) ==
  /\ {x.pre, x.act, x.post, x.pushed} \subseteq Seq(Lines)
  /\ Early(x) \/ Middle(x) \/ Late(x, k)

IsBackup(f) == f.loop \in {"pager", "show run"}

\* one backup at a time, in states of its own
Backup(x) ==
  /\ x.timer => x.state = "ENABLE"
  /\ \A i \in 1..Len(x.loops) : IsBackup(x.loops[i]) => x.state \in InBackup
  /\ \A i, j \in 1..Len(x.loops) : IsBackup(x.loops[i]) /\ IsBackup(x.loops[j]) => i = j

Done(x) == x.state \in {"EXIT", "FINISH"} /\ x.pushed = All

\* the client ends well when it was told to, which is when all was pushed or an error
\* has been reported
Ending(x, k) ==
  /\ x.bye => Done(x) \/ x.completed = TRUE
  /\ x.client = "ended" /\ x.code = 0 => x.bye
  /\ x.reports = <<"ok">> /\ k # "procurve" => Done(x)

Order(x, k) == IF k = "unx" THEN x.pushed = <<>>
               ELSE Listed(x, k) /\ Backup(x) /\ Ending(x, k)

-----------------------------------------------------------------------------
(* What reading may do to a dialogue of a device, field by field.           *)

\* the client runs, and so does the program
Running(x) == DOMAIN x = Fields /\ x.proc = "running" /\ x.crashed = FALSE

\* the lists stay
Kept(x, y) ==
  /\ Running(y) /\ y.code = x.code /\ y.error \in {x.error, TRUE}
  /\ y.pre = x.pre /\ y.act = x.act /\ y.post = x.post /\ y.pushed = x.pushed
Quiet(x, y) == Kept(x, y) /\ y.timer = x.timer /\ y.bye = x.bye

Moves ==
  (Before \X Before) \cup
  {<<"EXECUTING_COMMAND", "COMMAND_DONE">>, <<"WAITING_FOR_CONFIG_PROMPT", "PUSHING_CONFIG">>,
   <<"EXIT", "FINISH">>}
Moved(x, y) == Quiet(x, y) /\ (y.state = x.state \/ <<x.state, y.state>> \in Moves)

\* a command is sent: the only change of pushed
Sent(x, y, c) ==
  /\ Running(y) /\ y.code = x.code /\ y.error = x.error
  /\ y.timer = x.timer /\ y.bye = x.bye /\ y.pushed = Append(x.pushed, c)

SendsPre(x, y) ==
  /\ x.state \in Before /\ y.state = "ENABLE" /\ x.pre # <<>>
  /\ Sent(x, y, Head(x.pre)) /\ y.pre = Tail(x.pre) /\ y.act = x.act /\ y.post = x.post
StartsBackup(x, y) ==
  /\ x.state \in Before /\ y.state = "ENABLE" /\ y.timer = TRUE
  /\ Kept(x, y) /\ y.bye = x.bye
EntersConfig(x, y) ==
  /\ x.state \in Before /\ y.state = "WAITING_FOR_CONFIG_PROMPT"
  /\ x.pre = <<>> /\ Quiet(x, y)

\* the first command after comments
Next1(act) == CHOOSE i \in 1..Len(act) :
                act[i] # Comment /\ \A j \in 1..(i-1) : act[j] = Comment
SendsActivation(x, y) ==
  /\ x.state = "PUSHING_CONFIG" /\ y.state = "PUSHING_CONFIG" /\ x.act # <<>>
  /\ Sent(x, y, x.act[Next1(x.act)]) /\ y.act = SubSeq(x.act, Next1(x.act) + 1, Len(x.act))
  /\ y.pre = x.pre /\ y.post = x.post
LeavesConfig(x, y) ==
  /\ x.state = "PUSHING_CONFIG" /\ y.state = "EXIT_FROM_CONFIG"
  /\ x.act = <<>> /\ Quiet(x, y)
SkipsConfig(x, y) ==
  /\ kind = "junos" /\ x.state = "WAITING_FOR_CONFIG_PROMPT" /\ y.state = "EXIT_FROM_CONFIG"
  /\ Quiet(x, y) /\ y.error = TRUE
SendsPost(x, y) ==
  /\ x.state = "EXIT_FROM_CONFIG" /\ y.state = "EXIT_FROM_CONFIG" /\ x.post # <<>>
  /\ Sent(x, y, Head(x.post)) /\ y.post = Tail(x.post) /\ y.pre = x.pre /\ y.act = x.act
Exits(x, y) ==
  /\ x.state = "EXIT_FROM_CONFIG" /\ y.state = "EXIT" /\ x.post = <<>>
  /\ Kept(x, y) /\ y.timer = x.timer
  /\ y.bye = IF kind = "junos" THEN x.bye ELSE TRUE
SaysBye(x, y) ==
  /\ kind = "junos" /\ x.state = "EXIT" /\ y.state = "EXIT" /\ y.bye = TRUE
  /\ Kept(x, y) /\ y.timer = x.timer
  /\ x.error = TRUE => y.completed = TRUE

Said(x, y) ==
  \/ Moved(x, y)
  \/ SendsPre(x, y) \/ StartsBackup(x, y) \/ EntersConfig(x, y)
  \/ SendsActivation(x, y) \/ LeavesConfig(x, y) \/ SkipsConfig(x, y)
  \/ SendsPost(x, y) \/ Exits(x, y) \/ SaysBye(x, y)

LEMMA QuietSteps ==
  ASSUME NEW x, Running(x)
  PROVE  /\ Quiet(x, x)
         /\ Quiet(x, Clear(x)) /\ Clear(x).state = x.state
         /\ \A st : Quiet(x, Goto(x, st)) /\ Goto(x, st).state = st
         /\ Write(x) = x
BY DEF Running, Quiet, Kept, Clear, Goto, Write, Fields

LEMMA QuietTrans ==
  ASSUME NEW x, NEW y, NEW z, Quiet(x, y), Quiet(y, z) PROVE Quiet(x, z)
BY DEF Quiet, Kept

\* the answers of Answers once more
LEMMA QuietAnswers ==
  ASSUME NEW x, Running(x)
  PROVE  /\ Quiet(x, Write(Clear(x))) /\ Write(Clear(x)).state = x.state
         /\ \A st : /\ Quiet(x, Clear(Goto(x, st))) /\ Clear(Goto(x, st)).state = st
                    /\ Quiet(x, Write(Goto(x, st))) /\ Write(Goto(x, st)).state = st
                    /\ Quiet(x, Write(Goto(Clear(x), st)))
                    /\ Write(Goto(Clear(x), st)).state = st
                    /\ Quiet(x, Write(Clear(Goto(x, st))))
                    /\ Write(Clear(Goto(x, st))).state = st
<1>1. Quiet(x, Clear(x)) /\ Running(Clear(x))
      /\ Clear(x).state = x.state
  BY QuietSteps DEF Quiet, Kept
<1>2. Quiet(x, Write(Clear(x))) /\ Write(Clear(x)).state = x.state
  BY <1>1, QuietSteps
<1>3. ASSUME NEW st
      PROVE  /\ Quiet(x, Clear(Goto(x, st))) /\ Clear(Goto(x, st)).state = st
             /\ Quiet(x, Write(Goto(x, st))) /\ Write(Goto(x, st)).state = st
             /\ Quiet(x, Write(Goto(Clear(x), st))) /\ Write(Goto(Clear(x), st)).state = st
             /\ Quiet(x, Write(Clear(Goto(x, st)))) /\ Write(Clear(Goto(x, st))).state = st
  <2> DEFINE g == Goto(x, st)
             c == Clear(g)
             h == Goto(Clear(x), st)
  <2>1. Quiet(x, g) /\ Running(g) /\ g.state = st
    <3>1. Quiet(x, g) /\ g.state = st
      BY QuietSteps
    <3>2. QED
      BY <3>1 DEF Quiet, Kept
  <2>2. Quiet(x, h) /\ Running(h) /\ h.state = st
    <3>1. Quiet(Clear(x), h) /\ h.state = st
      BY <1>1, QuietSteps
    <3>2. QED
      BY <1>1, <3>1, QuietTrans DEF Quiet, Kept
  <2>3. Quiet(x, c) /\ Running(c) /\ c.state = st
    <3>1. Quiet(g, c) /\ c.state = g.state
      <4> HIDE DEF g
      <4>1. QED
        BY <2>1, QuietSteps
    <3>2. QED
      BY <2>1, <3>1, QuietTrans DEF Quiet, Kept
  <2>4. Write(g) = g /\ Write(h) = h /\ Write(c) = c
    <3> HIDE DEF g, h, c
    <3>1. QED
      BY <2>1, <2>2, <2>3, QuietSteps
  <2>5. QED
    BY <2>1, <2>2, <2>3, <2>4
<1>4. QED
  BY <1>2, <1>3

LEMMA SaidAfter ==
  ASSUME NEW x, NEW y, NEW z, Quiet(x, y),
         y.state = x.state \/ (x.state \in Before /\ y.state \in Before),
         y.completed = x.completed, y.error = x.error,
         Said(y, z)
  PROVE  Said(x, z)
<1>1. CASE Moved(y, z)
  BY <1>1 DEF Moved, Quiet, Kept, Moves, Before, Said
<1>2. CASE SendsPre(y, z) \/ StartsBackup(y, z) \/ EntersConfig(y, z)
  <2>1. x.state \in Before
    BY <1>2 DEF SendsPre, StartsBackup, EntersConfig, Before
  <2>2. QED
    BY <1>2, <2>1 DEF SendsPre, StartsBackup, EntersConfig, Sent, Quiet, Kept, Said
<1>3. CASE SendsActivation(y, z) \/ LeavesConfig(y, z) \/ SkipsConfig(y, z)
  BY <1>3 DEF SendsActivation, LeavesConfig, SkipsConfig, Sent, Quiet, Kept, Said, Before
<1>4. CASE SendsPost(y, z) \/ Exits(y, z) \/ SaysBye(y, z)
  BY <1>4 DEF SendsPost, Exits, SaysBye, Sent, Quiet, Kept, Said, Before
<1>5. QED
  BY <1>1, <1>2, <1>3, <1>4 DEF Said

-----------------------------------------------------------------------------
(* The methods of the dialogues, each as one of these.                      *)

LEMMA CompleteQuiet ==
  ASSUME NEW x, Running(x)
  PROVE  LET y == SessionComplete(x, TRUE)
         IN  Quiet(x, y) /\ y.state = x.state /\ y.completed = TRUE
BY DEF SessionComplete, Quiet, Kept, Running, Fields

LEMMA TerminateQuiet ==
  ASSUME NEW x, NEW by, Running(x)
  PROVE  LET y == Terminate(x, by)
         IN  Quiet(x, y) /\ y.state = x.state /\ y.completed = x.completed
<1> DEFINE b == [x EXCEPT !.beating = FALSE]
<1>1. Running(b) /\ Quiet(x, b) /\ b.state = x.state /\ b.completed = x.completed
  BY DEF Quiet, Kept, Running, Fields
<1>2. Terminate(x, by) = Push(b, "terminate", by)
  BY <1>1 DEF Terminate, Running
<1> HIDE DEF b
<1>3. /\ Quiet(b, Push(b, "terminate", by)) /\ Push(b, "terminate", by).state = b.state
      /\ Push(b, "terminate", by).completed = b.completed
  BY <1>1 DEF Push, Quiet, Kept, Running, Fields
<1>4. QED
  BY <1>1, <1>2, <1>3, QuietTrans

LEMMA OnErrorSaid ==
  ASSUME NEW x, NEW by, Running(x)
  PROVE  Moved(x, OnError(x)) /\ (kind = "junos" => Said(x, OnErrorJunos(x, by)))
<1> DEFINE c == [Clear(x) EXCEPT !.errorSeen = TRUE]
           d == [Clear(x) EXCEPT !.errorSeen = TRUE, !.error = TRUE]
           e == SessionComplete(IF x.state = "PUSHING_CONFIG" THEN Write(d) ELSE d, TRUE)
<1>1. Running(c) /\ Quiet(x, c) /\ c.state = x.state
  BY DEF Clear, Quiet, Kept, Running, Fields
<1>2. Running(d) /\ Quiet(x, d) /\ d.state = x.state /\ d.error = TRUE
  BY DEF Clear, Quiet, Kept, Running, Fields
<1>3. Write(d) = d
  <2> HIDE DEF d
  <2>1. QED
    BY <1>2 DEF Write, Running
<1>4. Moved(x, OnError(x))
  <2> HIDE DEF c
  <2>1. Quiet(c, SessionComplete(c, TRUE)) /\ SessionComplete(c, TRUE).state = c.state
    BY <1>1, CompleteQuiet
  <2>2. Moved(x, SessionComplete(c, TRUE))
    BY <1>1, <2>1, QuietTrans DEF Moved
  <2>3. QED
    BY <2>2 DEF OnError, c
<1>5. CASE kind = "junos" /\ x.state = "WAITING_FOR_CONFIG_PROMPT"
  <2> HIDE DEF d
  <2>1. Quiet(d, Goto(d, "EXIT_FROM_CONFIG"))
        /\ Goto(d, "EXIT_FROM_CONFIG").state = "EXIT_FROM_CONFIG"
        /\ Goto(d, "EXIT_FROM_CONFIG").error = TRUE
    BY <1>2 DEF Goto, Quiet, Kept, Running, Fields
  <2>2. SkipsConfig(x, Goto(d, "EXIT_FROM_CONFIG"))
    BY <1>2, <1>5, <2>1, QuietTrans DEF SkipsConfig
  <2>3. QED
    BY <1>4, <1>5, <2>2 DEF OnErrorJunos, Said, d
<1>6. CASE x.state # "WAITING_FOR_CONFIG_PROMPT"
  <2>1. e = SessionComplete(d, TRUE)
    BY <1>3
  <2>2. OnErrorJunos(x, by) = Terminate(e, by)
    BY <1>6 DEF OnErrorJunos
  <2> HIDE DEF d, e
  <2>3. Quiet(d, e) /\ e.state = d.state
    BY <1>2, <2>1, CompleteQuiet
  <2>4. Running(e) /\ Quiet(x, e) /\ e.state = x.state
    BY <1>2, <2>3, QuietTrans DEF Running, Quiet, Kept
  <2>5. Quiet(x, Terminate(e, by)) /\ Terminate(e, by).state = x.state
    BY <2>4, TerminateQuiet, QuietTrans
  <2>6. QED
    BY <1>4, <2>2, <2>5 DEF Said, Moved
<1>7. QED
  BY <1>4, <1>5, <1>6

LEMMA AskSaid ==
  ASSUME NEW x, NEW by, Running(x) PROVE Said(x, AskNewKey(x, by))
<1> DEFINE b == [x EXCEPT !.beating = FALSE]
<1>1. Running(b) /\ Quiet(x, b) /\ b.state = x.state
  BY DEF Quiet, Kept, Running, Fields
<1> HIDE DEF b
<1>2. Quiet(b, Push(b, "newkey", by)) /\ Push(b, "newkey", by).state = b.state
  BY <1>1 DEF Push, Quiet, Kept, Running, Fields
<1>3. Moved(x, Push(b, "newkey", by))
  BY <1>1, <1>2, QuietTrans DEF Moved
<1>4. QED
  BY <1>3 DEF AskNewKey, Said, b

LEMMA SendSent ==
  ASSUME NEW x, NEW c, Running(x)
  PROVE  LET y == SendCommand(x, c)
         IN  /\ Sent(x, y, c) /\ y.state = x.state
             /\ y.pre = x.pre /\ y.act = x.act /\ y.post = x.post
BY DEF SendCommand, Write, Clear, Sent, Running, Fields

LEMMA EnableSaid ==
  ASSUME NEW x, Running(x), x.state = "ENABLE" PROVE Said(x, EnableStep(x))
<1> DEFINE p == [x EXCEPT !.pre = Tail(@)]
           t == [Clear(x) EXCEPT !.timer = TRUE]
<1>1. CASE ~Ends(x, "enable")
  BY <1>1, QuietSteps DEF EnableStep, Said, Moved, Running
<1>2. CASE Ends(x, "enable") /\ x.pre # <<>>
  <2>1. /\ Running(p) /\ p.pre = Tail(x.pre) /\ p.act = x.act /\ p.post = x.post
        /\ p.pushed = x.pushed /\ p.code = x.code /\ p.error = x.error /\ p.timer = x.timer
        /\ p.bye = x.bye /\ p.state = x.state
    BY DEF Running, Fields
  <2>2. EnableStep(x) = SendCommand(p, Head(x.pre))
    BY <1>2 DEF EnableStep
  <2> HIDE DEF p
  <2>3. SendsPre(x, SendCommand(p, Head(x.pre)))
    BY <1>2, <2>1, SendSent DEF SendsPre, Sent, Before
  <2>4. QED
    BY <2>2, <2>3 DEF Said
<1>3. CASE Ends(x, "enable") /\ x.pre = <<>> /\ x.backup
  <2>1. StartsBackup(x, t)
    BY DEF StartsBackup, Kept, Clear, Before, Running, Fields
  <2>2. QED
    BY <1>3, <2>1 DEF EnableStep, Said
<1>4. CASE Ends(x, "enable") /\ x.pre = <<>> /\ ~x.backup
  <2>1. EntersConfig(x, Write(Goto(Clear(x), "WAITING_FOR_CONFIG_PROMPT")))
    BY <1>4, QuietAnswers DEF EntersConfig, Before, Running
  <2>2. QED
    BY <1>4, <2>1 DEF EnableStep, Said
<1>5. QED
  BY <1>1, <1>2, <1>3, <1>4

LEMMA PushSaid ==
  ASSUME NEW x, Running(x), x.state = "PUSHING_CONFIG", x.act # <<>>
  PROVE  Said(x, PushNext(x))
<1> DEFINE n == Next1(x.act)
           p == [x EXCEPT !.act = SubSeq(@, n + 1, Len(@))]
<1>1. PushNext(x) = SendCommand(p, x.act[n])
  BY DEF PushNext, Next1
<1>2. /\ Running(p) /\ p.act = SubSeq(x.act, n + 1, Len(x.act)) /\ p.pre = x.pre
      /\ p.post = x.post /\ p.pushed = x.pushed /\ p.code = x.code /\ p.error = x.error
      /\ p.timer = x.timer /\ p.bye = x.bye /\ p.state = x.state
  BY DEF Running, Fields
<1> HIDE DEF p
<1>3. SendsActivation(x, SendCommand(p, x.act[n]))
  BY <1>2, SendSent DEF SendsActivation, Sent
<1>4. QED
  BY <1>1, <1>3 DEF Said

LEMMA ExitSaid ==
  ASSUME NEW x, Running(x), x.state = "EXIT_FROM_CONFIG" PROVE Said(x, ExitFromConfigStep(x))
<1> DEFINE p == [x EXCEPT !.post = Tail(@)]
           w == Write(Goto(Clear(x), "EXIT"))
<1>1. CASE ~Ends(x, "enable")
  BY <1>1, QuietSteps DEF ExitFromConfigStep, Said, Moved, Running
<1>2. CASE Ends(x, "enable") /\ x.post # <<>>
  <2>1. /\ Running(p) /\ p.pre = x.pre /\ p.act = x.act /\ p.post = Tail(x.post)
        /\ p.pushed = x.pushed /\ p.code = x.code /\ p.error = x.error /\ p.timer = x.timer
        /\ p.bye = x.bye /\ p.state = x.state
    BY DEF Running, Fields
  <2>2. ExitFromConfigStep(x) = SendCommand(p, Head(x.post))
    BY <1>2 DEF ExitFromConfigStep
  <2> HIDE DEF p
  <2>3. SendsPost(x, SendCommand(p, Head(x.post)))
    BY <1>2, <2>1, SendSent DEF SendsPost, Sent
  <2>4. QED
    BY <2>2, <2>3 DEF Said
<1>3. CASE Ends(x, "enable") /\ x.post = <<>>
  <2>1. Quiet(x, w) /\ w.state = "EXIT"
    BY QuietAnswers, Zenon
  <2>2. ExitFromConfigStep(x) = IF kind = "junos" THEN w ELSE [w EXCEPT !.bye = TRUE]
    BY <1>3 DEF ExitFromConfigStep
  <2> HIDE DEF w
  <2>3. CASE kind = "junos"
    <3>1. Exits(x, w)
      BY <1>3, <2>1, <2>3 DEF Exits, Quiet, Kept
    <3>2. QED
      BY <2>2, <2>3, <3>1 DEF Said
  <2>4. CASE kind # "junos"
    <3> DEFINE v == [w EXCEPT !.bye = TRUE]
    <3>1. DOMAIN w = Fields
      BY <2>1 DEF Quiet, Kept, Running
    <3>2. /\ DOMAIN v = Fields /\ v.proc = w.proc /\ v.crashed = w.crashed
          /\ v.code = w.code /\ v.error = w.error /\ v.pre = w.pre
          /\ v.act = w.act /\ v.post = w.post /\ v.pushed = w.pushed /\ v.state = w.state
          /\ v.timer = w.timer /\ v.bye = TRUE
      BY <3>1 DEF Fields
    <3> HIDE DEF v
    <3>3. Exits(x, v)
      BY <1>3, <2>1, <2>4, <3>2 DEF Exits, Quiet, Kept, Running
    <3>4. QED
      BY <2>2, <2>4, <3>3 DEF Said, v
  <2>5. QED
    BY <2>3, <2>4
<1>4. QED
  BY <1>1, <1>2, <1>3

LEMMA ReenterSaid ==
  ASSUME NEW x, NEW by, Running(x), x.state \in Before
  PROVE  Said(x, ReenterEnable(x, by)) /\ Said(x, ReenterWaiting(x, by))
<1>1. ASSUME NEW z, Running(z), z.state \in Before PROVE Said(z, ReenterEnable(z, by))
  <2> DEFINE y == Goto(z, "ENABLE")
  <2>1. /\ Running(y) /\ Quiet(z, y) /\ y.state = "ENABLE" /\ y.completed = z.completed
        /\ y.error = z.error
    BY <1>1 DEF Goto, Quiet, Kept, Running, Fields
  <2>2. ReenterEnable(z, by) = IF ErrorIn(y)
                               THEN IF kind = "junos" THEN OnErrorJunos(y, by) ELSE OnError(y)
                               ELSE EnableStep(y)
    BY DEF ReenterEnable
  <2> HIDE DEF y
  <2>3. Said(y, ReenterEnable(z, by))
    BY <2>1, <2>2, OnErrorSaid, EnableSaid DEF Said
  <2>4. QED
    BY <1>1, <2>1, <2>3, SaidAfter DEF Before
<1> DEFINE y == Goto(x, "WAITING_FOR_ENABLE")
<1>2. /\ Running(y) /\ Quiet(x, y) /\ y.state = "WAITING_FOR_ENABLE"
      /\ y.completed = x.completed /\ y.error = x.error
  BY DEF Goto, Quiet, Kept, Running, Fields
<1>3. ReenterWaiting(x, by) =
        IF ErrorIn(y) THEN IF kind = "junos" THEN OnErrorJunos(y, by) ELSE OnError(y)
        ELSE IF kind # "junos" /\ EnablePasswordPrompt(y) THEN Write(Clear(y))
             ELSE ReenterEnable(y, by)
  BY DEF ReenterWaiting
<1> HIDE DEF y
<1>4. y.state \in Before
  BY <1>2 DEF Before
<1>5. Said(y, Write(Clear(y)))
  BY <1>2, QuietAnswers DEF Said, Moved, Running
<1>6. Said(y, ReenterWaiting(x, by))
  BY <1>1, <1>2, <1>3, <1>4, <1>5, OnErrorSaid DEF Said
<1>7. Said(x, ReenterWaiting(x, by))
  BY <1>2, <1>4, <1>6, SaidAfter
<1>8. QED
  BY <1>1, <1>7

LEMMA StaySaid ==
  ASSUME NEW x, Running(x)
  PROVE  /\ Said(x, x) /\ Said(x, Write(Clear(x)))
         /\ x.state = "NONE" => Said(x, Write(Goto(Clear(x), "LOGGEDIN")))
         /\ x.state = "LOGGEDIN" => Said(x, Write(Goto(Clear(x), "WAITING_FOR_ENABLE")))
         /\ x.state = "EXECUTING_COMMAND" =>
              Said(x, [Goto(x, "COMMAND_DONE") EXCEPT !.loopExit = TRUE])
         /\ x.state = "WAITING_FOR_CONFIG_PROMPT" =>
              Said(x, Write(Clear(Goto(x, "PUSHING_CONFIG"))))
         /\ x.state = "PUSHING_CONFIG" /\ x.act = <<>> => Said(x, Write(Goto(x, "EXIT_FROM_CONFIG")))
         /\ x.state = "EXIT" => Said(x, Write(Goto(Clear(x), "FINISH")))
<1>1. Said(x, x) /\ Said(x, Write(Clear(x)))
  BY QuietSteps, QuietAnswers DEF Said, Moved
<1>2. /\ x.state = "NONE" => Moved(x, Write(Goto(Clear(x), "LOGGEDIN")))
      /\ x.state = "LOGGEDIN" => Moved(x, Write(Goto(Clear(x), "WAITING_FOR_ENABLE")))
      /\ x.state = "WAITING_FOR_CONFIG_PROMPT" =>
           Moved(x, Write(Clear(Goto(x, "PUSHING_CONFIG"))))
      /\ x.state = "EXIT" => Moved(x, Write(Goto(Clear(x), "FINISH")))
  BY QuietAnswers DEF Moved, Moves, Before
<1>3. x.state = "PUSHING_CONFIG" /\ x.act = <<>> =>
        LeavesConfig(x, Write(Goto(x, "EXIT_FROM_CONFIG")))
  BY QuietAnswers DEF LeavesConfig
<1> DEFINE g == Goto(x, "COMMAND_DONE")
<1>4. Quiet(x, g) /\ Running(g) /\ g.state = "COMMAND_DONE"
  <2>1. Quiet(x, g) /\ g.state = "COMMAND_DONE"
    BY QuietSteps
  <2>2. QED
    BY <2>1 DEF Quiet, Kept
<1>5. Quiet(g, [g EXCEPT !.loopExit = TRUE]) /\ [g EXCEPT !.loopExit = TRUE].state = g.state
  <2> HIDE DEF g
  <2>1. QED
    BY <1>4 DEF Quiet, Kept, Running, Fields
<1>6. x.state = "EXECUTING_COMMAND" => Moved(x, [g EXCEPT !.loopExit = TRUE])
  <2> HIDE DEF g
  <2>1. QED
    BY <1>4, <1>5, QuietTrans DEF Moved, Moves
<1>7. QED
  BY <1>1, <1>2, <1>3, <1>6 DEF Said

LEMMA CiscoSaid ==
  ASSUME NEW x, NEW by, Running(x), kind \notin {"unx", "junos"}
  PROVE  Said(x, CiscoStep(x, by))
<1>1. Said(x, x) /\ Said(x, Write(Clear(x))) /\ Said(x, AskNewKey(x, by))
  BY StaySaid, AskSaid
<1>2. CASE x.state = "NONE"
  <2>1. Said(x, ReenterWaiting(x, by)) /\ Said(x, Write(Goto(Clear(x), "LOGGEDIN")))
    BY <1>2, ReenterSaid, StaySaid DEF Before
  <2>2. CiscoStep(x, by) \in {Write(Clear(x)), Write(Goto(Clear(x), "LOGGEDIN")),
                              ReenterWaiting(x, by), AskNewKey(x, by), x}
    BY <1>2 DEF CiscoStep
  <2>3. QED
    BY <1>1, <2>1, <2>2
<1>3. CASE x.state \in {"LOGGEDIN", "WAITING_FOR_ENABLE"}
  <2>1. Said(x, ReenterEnable(x, by))
        /\ (x.state = "LOGGEDIN" => Said(x, Write(Goto(Clear(x), "WAITING_FOR_ENABLE"))))
    BY <1>3, ReenterSaid, StaySaid DEF Before
  <2>2. \/ CiscoStep(x, by) \in {Write(Clear(x)), ReenterEnable(x, by), x}
        \/ x.state = "LOGGEDIN" /\ CiscoStep(x, by) = Write(Goto(Clear(x), "WAITING_FOR_ENABLE"))
    BY <1>3 DEF CiscoStep
  <2>3. QED
    BY <1>1, <2>1, <2>2
<1>4. CASE x.state = "ENABLE"
  BY <1>4, EnableSaid DEF CiscoStep
<1>5. CASE x.state = "EXECUTING_COMMAND"
  <2>1. CiscoStep(x, by) \in {[Goto(x, "COMMAND_DONE") EXCEPT !.loopExit = TRUE], x}
    BY <1>5 DEF CiscoStep
  <2>2. QED
    BY <1>1, <1>5, <2>1, StaySaid
<1>6. CASE x.state = "WAITING_FOR_CONFIG_PROMPT"
  <2>1. CiscoStep(x, by) \in {Write(Clear(Goto(x, "PUSHING_CONFIG"))), x}
    BY <1>6 DEF CiscoStep
  <2>2. QED
    BY <1>1, <1>6, <2>1, StaySaid
<1>7. CASE x.state = "PUSHING_CONFIG"
  <2>1. CiscoStep(x, by) \in {Write(Clear(x)), x,
                              IF x.act # <<>> THEN PushNext(x)
                              ELSE Write(Goto(x, "EXIT_FROM_CONFIG"))}
    BY <1>7 DEF CiscoStep
  <2>2. QED
    BY <1>1, <1>7, <2>1, StaySaid, PushSaid
<1>8. CASE x.state = "EXIT_FROM_CONFIG"
  BY <1>8, ExitSaid DEF CiscoStep
<1>9. CASE x.state = "EXIT"
  <2>1. CiscoStep(x, by) \in {Write(Goto(Clear(x), "FINISH")), x}
    BY <1>9 DEF CiscoStep
  <2>2. QED
    BY <1>1, <1>9, <2>1, StaySaid
<1>10. CASE x.state \notin {"NONE", "LOGGEDIN", "WAITING_FOR_ENABLE", "ENABLE",
                            "EXECUTING_COMMAND", "WAITING_FOR_CONFIG_PROMPT",
                            "PUSHING_CONFIG", "EXIT_FROM_CONFIG", "EXIT"}
  BY <1>1, <1>10 DEF CiscoStep
<1>11. QED
  BY <1>2, <1>3, <1>4, <1>5, <1>6, <1>7, <1>8, <1>9, <1>10

LEMMA JunosSaid ==
  ASSUME NEW x, NEW by, Running(x), kind = "junos"
  PROVE  Said(x, JunosStep(x, by))
<1>1. Said(x, x) /\ Said(x, Write(Clear(x))) /\ Said(x, AskNewKey(x, by))
  BY StaySaid, AskSaid
<1>2. CASE x.state = "NONE"
  <2>1. Said(x, ReenterWaiting(x, by)) /\ Said(x, Write(Goto(Clear(x), "LOGGEDIN")))
    BY <1>2, ReenterSaid, StaySaid DEF Before
  <2>2. JunosStep(x, by) \in {Write(Clear(x)), Write(Goto(Clear(x), "LOGGEDIN")),
                              ReenterWaiting(x, by), AskNewKey(x, by), x}
    BY <1>2 DEF JunosStep
  <2>3. QED
    BY <1>1, <2>1, <2>2
<1>3. CASE x.state \in {"LOGGEDIN", "WAITING_FOR_ENABLE"}
  <2>1. Said(x, ReenterEnable(x, by))
        /\ (x.state = "LOGGEDIN" => Said(x, Write(Goto(Clear(x), "WAITING_FOR_ENABLE"))))
    BY <1>3, ReenterSaid, StaySaid DEF Before
  <2>2. CASE x.state = "LOGGEDIN"
    BY <1>1, <2>1, <2>2 DEF JunosStep
  <2>3. CASE x.state = "WAITING_FOR_ENABLE"
    BY <1>1, <2>1, <2>3 DEF JunosStep
  <2>4. QED
    BY <1>3, <2>2, <2>3
<1>4. CASE x.state = "ENABLE"
  BY <1>4, EnableSaid DEF JunosStep
<1>5. CASE x.state = "WAITING_FOR_CONFIG_PROMPT"
  <2>1. JunosStep(x, by) \in {Write(Clear(Goto(x, "PUSHING_CONFIG"))), x}
    BY <1>5 DEF JunosStep
  <2>2. QED
    BY <1>1, <1>5, <2>1, StaySaid
<1>6. CASE x.state = "PUSHING_CONFIG"
  <2>1. JunosStep(x, by) \in {x, IF x.act # <<>> THEN PushNext(x)
                                 ELSE Write(Goto(x, "EXIT_FROM_CONFIG"))}
    BY <1>6 DEF JunosStep
  <2>2. QED
    BY <1>1, <1>6, <2>1, StaySaid, PushSaid
<1>7. CASE x.state = "EXIT_FROM_CONFIG"
  BY <1>7, ExitSaid DEF JunosStep
<1>8. CASE x.state = "EXIT"
  <2> DEFINE w == Write(Clear(x))
             y == [w EXCEPT !.bye = TRUE]
             e == SessionComplete(y, TRUE)
  <2>1. Quiet(x, w) /\ w.state = "EXIT" /\ w.error = x.error
    <3>1. Quiet(x, w) /\ w.state = "EXIT" /\ Quiet(x, Clear(x)) /\ Write(Clear(x)) = Clear(x)
      BY <1>8, QuietSteps, QuietAnswers DEF Quiet, Kept
    <3>2. Clear(x).error = x.error
      BY DEF Clear, Running, Fields
    <3>3. QED
      BY <3>1, <3>2
  <2>2. Said(x, Terminate(e, by)) /\ (~y.error => Said(x, y))
    <3> HIDE DEF w
    <3>1. /\ Running(y) /\ Kept(x, y) /\ y.timer = x.timer /\ y.bye = TRUE /\ y.state = "EXIT"
          /\ y.error = x.error
      BY <2>1 DEF Quiet, Kept, Running, Fields
    <3> HIDE DEF y
    <3>2. Quiet(y, e) /\ e.state = "EXIT" /\ e.completed = TRUE
      BY <3>1, CompleteQuiet
    <3> HIDE DEF e
    <3>3. Running(e)
      BY <3>2 DEF Quiet, Kept
    <3>4. Quiet(e, Terminate(e, by)) /\ Terminate(e, by).state = "EXIT"
          /\ Terminate(e, by).completed = TRUE
      BY <3>2, <3>3, TerminateQuiet
    <3>5. Quiet(y, Terminate(e, by))
      BY <3>2, <3>4, QuietTrans
    <3>6. SaysBye(x, Terminate(e, by))
      BY <1>8, <3>1, <3>4, <3>5 DEF SaysBye, Quiet, Kept
    <3>7. ~y.error => SaysBye(x, y)
      BY <1>8, <3>1 DEF SaysBye
    <3>8. QED
      BY <3>6, <3>7 DEF Said
  <2>3. QED
    BY <1>1, <1>8, <2>2 DEF JunosStep
<1>9. CASE x.state \notin {"NONE", "LOGGEDIN", "WAITING_FOR_ENABLE", "ENABLE",
                           "WAITING_FOR_CONFIG_PROMPT", "PUSHING_CONFIG",
                           "EXIT_FROM_CONFIG", "EXIT"}
  BY <1>1, <1>9 DEF JunosStep
<1>10. QED
  BY <1>2, <1>3, <1>4, <1>5, <1>6, <1>7, <1>8, <1>9

LEMMA StateMachineSaid ==
  ASSUME NEW x, NEW by, Running(x)
  PROVE  LET y == StateMachine(x, by)
         IN  IF kind = "unx" THEN y.pushed = x.pushed ELSE Said(x, y)
<1>1. CASE kind = "unx"
  <2>1. UnxStep(x, by) \in {x, Clear(x), Write(Clear(x)), Clear(Goto(x, "PUSHING_CONFIG")),
                            AskNewKey(x, by)}
    BY DEF UnxStep
  <2>2. Quiet(x, Clear(x)) /\ Quiet(x, Write(Clear(x))) /\ Quiet(x, Clear(Goto(x, "PUSHING_CONFIG")))
    BY QuietSteps, QuietAnswers
  <2>3. AskNewKey(x, by).pushed = x.pushed
    BY DEF AskNewKey, Push, Running, Fields
  <2>4. OnError(x).pushed = x.pushed
    BY OnErrorSaid DEF Moved, Quiet, Kept
  <2>5. UnxStep(x, by).pushed = x.pushed
    BY <2>1, <2>2, <2>3 DEF Quiet, Kept
  <2>6. QED
    BY <1>1, <2>4, <2>5 DEF StateMachine
<1>2. CASE kind = "junos"
  BY <1>2, OnErrorSaid, JunosSaid DEF StateMachine, Said
<1>3. CASE kind \notin {"unx", "junos"}
  <2> DEFINE w == Write(Clear(x))
  <2>1. Quiet(x, w) /\ w.state = x.state /\ w.completed = x.completed /\ w.error = x.error
    BY QuietAnswers DEF Write, Clear, Running, Fields
  <2>2. Running(w)
    BY <2>1 DEF Quiet, Kept
  <2>3. Said(x, CiscoStep(w, by))
    <3> HIDE DEF w
    <3>1. Said(w, CiscoStep(w, by))
      BY <1>3, <2>2, CiscoSaid
    <3>2. QED
      BY <2>1, <3>1, SaidAfter
  <2>4. Said(x, CiscoStep(x, by)) /\ Said(x, OnError(x))
    BY <1>3, CiscoSaid, OnErrorSaid DEF Said
  <2>5. QED
    BY <1>3, <2>3, <2>4 DEF StateMachine
<1>4. QED
  BY <1>1, <1>2, <1>3

-----------------------------------------------------------------------------
(* Each of these keeps the order of the commands.                           *)

LEMMA AppendLast ==
  ASSUME NEW p \in Seq(Lines), NEW q \in Seq(Lines), NEW c \in Lines
  PROVE  p \o Append(q, c) = Append(p \o q, c) /\ Append(p \o q, c) \in Seq(Lines)
<1>1. <<c>> \in Seq(Lines)
  OBVIOUS
<1>2. p \o (q \o <<c>>) = (p \o q) \o <<c>>
  BY <1>1, ConcatAssociative
<1>3. p \o q \in Seq(Lines)
  BY ConcatProperties
<1>4. Append(q, c) = q \o <<c>> /\ Append(p \o q, c) = (p \o q) \o <<c>>
      /\ Append(p \o q, c) \in Seq(Lines)
  BY <1>3, AppendIsConcat, AppendProperties
<1>5. QED
  BY <1>2, <1>4

LEMMA HeadMoves ==
  ASSUME NEW p \in Seq(Lines), NEW q \in Seq(Lines), q # <<>>
  PROVE  /\ Head(q) \in Lines /\ Tail(q) \in Seq(Lines) /\ Append(p, Head(q)) \in Seq(Lines)
         /\ Append(p, Head(q)) \o Tail(q) = p \o q
<1>1. Head(q) \in Lines /\ Tail(q) \in Seq(Lines)
  BY HeadTailProperties
<1>2. <<Head(q)>> \in Seq(Lines)
  BY <1>1
<1>3. Append(p, Head(q)) = p \o <<Head(q)>> /\ Append(p, Head(q)) \in Seq(Lines)
  BY <1>1, AppendIsConcat, AppendProperties
<1>4. q = <<Head(q)>> \o Tail(q)
  <2>1. SubSeq(q, 1, Len(q)) = q /\ Tail(q) = SubSeq(q, 2, Len(q)) /\ Head(q) = q[1]
    BY SubSeqFull, TailIsSubSeq
  <2>2. Len(q) \in Nat \ {0}
    BY EmptySeq
  <2>3. SubSeq(q, 1, Len(q)) = <<q[1]>> \o SubSeq(q, 1 + 1, Len(q))
    BY <2>2, SubSeqRecursiveFirst
  <2>4. 1 + 1 = 2
    OBVIOUS
  <2>5. QED
    BY <2>1, <2>3, <2>4
<1>5. (p \o <<Head(q)>>) \o Tail(q) = p \o (<<Head(q)>> \o Tail(q))
  BY <1>1, <1>2, ConcatAssociative
<1>6. QED
  BY <1>1, <1>3, <1>4, <1>5

LEMMA CommandLists ==
  /\ Commands \in Seq(Lines) /\ Commands = Stripped[L]
  /\ All \in Seq(Lines)
  /\ \A n \in 0..L : Stripped[n] \in Seq(Lines)
  /\ SubSeq(Activation, 0 + 1, L) = Activation
<1>1. \A n \in 0..L : Stripped[n] \in Seq(Lines)
  BY StrippedSteps
<1>2. Commands = Stripped[L] /\ Commands \in Seq(Lines)
  BY <1>1, Lists DEF Commands, L
<1>3. All \in Seq(Lines)
  BY <1>2, Lists, ConcatProperties DEF All
<1>4. SubSeq(Activation, 1, L) = Activation
  BY Lists, SubSeqFull DEF L
<1>5. QED
  BY <1>1, <1>2, <1>3, <1>4

\* What is left of the lines to activate after the n-th.
LEMMA Rest ==
  ASSUME NEW n \in 0..L
  PROVE  LET r == SubSeq(Activation, n + 1, L)
         IN  /\ r \in Seq(Lines) /\ Len(r) = L - n
             /\ \A i \in 1..(L - n) : r[i] = Activation[n + i]
             /\ r = <<>> => n = L
<1> DEFINE r == SubSeq(Activation, n + 1, L)
<1>1. n + 1 \in Int /\ L \in Int /\ \A i \in (n + 1)..L : Activation[i] \in Lines
  BY Lists
<1>2. /\ r \in Seq(Lines)
      /\ Len(r) = IF n + 1 <= L THEN L - (n + 1) + 1 ELSE 0
      /\ \A i \in 1..(L - (n + 1) + 1) : r[i] = Activation[(n + 1) + i - 1]
  BY <1>1, SubSeqProperties
<1> HIDE DEF r
<1>3. Len(r) = L - n
  BY <1>2, Lists
<1>4. \A i \in 1..(L - n) : r[i] = Activation[n + i]
  <2>1. TAKE i \in 1..(L - n)
  <2>2. i \in 1..(L - (n + 1) + 1) /\ (n + 1) + i - 1 = n + i
    BY Lists
  <2>3. QED
    BY <1>2, <2>2
<1>5. r = <<>> => n = L
  BY <1>3, Lists
<1>6. QED
  BY <1>2, <1>3, <1>4, <1>5 DEF r

\* The command that is sent is the next one of Commands, and what is left follows it.
LEMMA NextCommand ==
  ASSUME NEW n \in 0..L, n # L
  PROVE  LET r == SubSeq(Activation, n + 1, L)
             m == Next1(r)
         IN  /\ m \in 1..(L - n) /\ n + m \in 0..L /\ r[m] \in Lines
             /\ SubSeq(r, m + 1, Len(r)) = SubSeq(Activation, (n + m) + 1, L)
             /\ Stripped[n + m] = Append(Stripped[n], r[m])
<1> DEFINE r == SubSeq(Activation, n + 1, L)
           T == {i \in 1..(L - n) : r[i] # Comment}
           m == Next1(r)
<1>1. /\ r \in Seq(Lines) /\ Len(r) = L - n
      /\ \A i \in 1..(L - n) : r[i] = Activation[n + i]
  BY Rest
<1>2. L - n \in T
  <2>1. L - n \in 1..(L - n) /\ n + (L - n) = L
    BY Lists
  <2>2. QED
    BY <1>1, <2>1, Lists
<1>3. PICK k \in T : \A i \in T : k <= i
  <2>1. T \in SUBSET Nat
    <3>1. 1..(L - n) \subseteq Nat
      BY Lists
    <3>2. QED
      BY <3>1
  <2>2. T # {}
    BY <1>2
  <2> HIDE DEF T
  <2>3. QED
    BY <2>1, <2>2, LeastNumber
<1>4. k \in 1..Len(r) /\ r[k] # Comment /\ \A j \in 1..(k-1) : r[j] = Comment
  <2>1. k \in 1..(L - n) /\ r[k] # Comment
    BY <1>3
  <2>2. ASSUME NEW j \in 1..(k-1) PROVE r[j] = Comment
    <3>1. j \in 1..(L - n) /\ ~(k <= j)
      BY <2>1, Lists
    <3>2. j \notin T
      BY <1>3, <3>1
    <3>3. QED
      BY <3>1, <3>2
  <2>3. QED
    BY <1>1, <2>1, <2>2
<1>5. m \in 1..Len(r) /\ r[m] # Comment /\ \A j \in 1..(m-1) : r[j] = Comment
  <2> HIDE DEF r
  <2>1. QED
    BY <1>4, Zenon DEF Next1
<1> HIDE DEF m
<1>6. m \in 1..(L - n) /\ n + m \in 0..L /\ n + m \in 1..L
  BY <1>1, <1>5, Lists
<1>7. r[m] = Activation[n + m] /\ r[m] \in Lines
  BY <1>1, <1>6, Lists
<1>8. Stripped[n + m] = Append(Stripped[n], r[m])
  <2>1. Activation[n + m] # Comment
    BY <1>5, <1>7
  <2>2. \A j \in 1..(m - 1) : Activation[n + j] = Comment
    <3>1. TAKE j \in 1..(m - 1)
    <3>2. j \in 1..(L - n)
      BY <1>6, Lists
    <3>3. QED
      BY <1>1, <1>5, <3>2
  <2>3. QED
    BY <1>6, <1>7, <2>1, <2>2, StrippedSkips
<1>9. SubSeq(r, m + 1, Len(r)) = SubSeq(Activation, (n + m) + 1, L)
  <2> DEFINE u == SubSeq(r, m + 1, L - n)
             v == SubSeq(Activation, (n + m) + 1, L)
  <2>1. /\ v \in Seq(Lines) /\ Len(v) = L - (n + m)
        /\ \A i \in 1..(L - (n + m)) : v[i] = Activation[(n + m) + i]
    BY <1>6, Rest
  <2>2. m + 1 \in Int /\ L - n \in Int /\ \A i \in (m + 1)..(L - n) : r[i] \in Lines
    <3>1. m + 1 \in Int /\ L - n \in Int
      BY <1>6, Lists
    <3>2. ASSUME NEW i \in (m + 1)..(L - n) PROVE r[i] \in Lines
      <4>1. i \in 1..(L - n) /\ n + i \in 1..L
        BY <1>6, Lists
      <4>2. QED
        BY <1>1, <4>1, Lists
    <3>3. QED
      BY <3>1, <3>2
  <2>3. /\ u \in Seq(Lines)
        /\ Len(u) = IF m + 1 <= L - n THEN (L - n) - (m + 1) + 1 ELSE 0
        /\ \A i \in 1..((L - n) - (m + 1) + 1) : u[i] = r[(m + 1) + i - 1]
    <3> HIDE DEF r
    <3>1. QED
      BY <2>2, SubSeqProperties
  <2> HIDE DEF u, v
  <2>4. Len(u) = L - (n + m) /\ Len(v) = Len(u)
    BY <1>6, <2>1, <2>3, Lists
  <2>5. ASSUME NEW i \in 1..Len(u) PROVE u[i] = v[i]
    <3>1. i \in 1..((L - n) - (m + 1) + 1) /\ (m + 1) + i - 1 = m + i
      BY <1>6, <2>4, Lists
    <3>2. m + i \in 1..(L - n) /\ n + (m + i) = (n + m) + i
      BY <1>6, <2>4, Lists
    <3>3. u[i] = Activation[(n + m) + i]
      BY <1>1, <2>3, <3>1, <3>2
    <3>4. QED
      BY <2>1, <2>4, <3>3
  <2>6. u = v
    BY <2>1, <2>3, <2>4, <2>5, SeqEqual
  <2>7. QED
    BY <1>1, <2>6 DEF u, v
<1>10. QED
  BY <1>6, <1>7, <1>8, <1>9 DEF m

LEMMA ListedSaid ==
  ASSUME NEW x, NEW y, Listed(x, kind), Said(x, y), x.error \in BOOLEAN
  PROVE  Listed(y, kind)
<1>1. x.pre \in Seq(Lines) /\ x.act \in Seq(Lines) /\ x.post \in Seq(Lines)
      /\ x.pushed \in Seq(Lines)
  BY DEF Listed
<1>2. CASE Moved(x, y)
  <2>1. {y.pre, y.act, y.post, y.pushed} \subseteq Seq(Lines)
    BY <1>1, <1>2 DEF Moved, Quiet, Kept
  <2>2. Early(x) => Early(y)
    BY <1>2 DEF Moved, Quiet, Kept, Early, Before, InBackup, Moves
  <2>3. Middle(x) => Middle(y)
    <3>1. SUFFICES ASSUME Middle(x) PROVE Middle(y)
      OBVIOUS
    <3>2. y.state = x.state \/ (x.state = "WAITING_FOR_CONFIG_PROMPT" /\ y.state = "PUSHING_CONFIG")
      BY <1>2, <3>1 DEF Moved, Middle, Moves, Before
    <3>3. QED
      BY <1>2, <3>1, <3>2 DEF Moved, Quiet, Kept, Middle
  <2>4. Late(x, kind) => Late(y, kind)
    BY <1>2 DEF Moved, Quiet, Kept, Late, Before, Moves
  <2>5. QED
    BY <2>1, <2>2, <2>3, <2>4 DEF Listed
<1>3. CASE SendsPre(x, y)
  <2>1. Early(x)
    BY <1>3 DEF SendsPre, Listed, Middle, Late, Before
  <2>2. /\ Head(x.pre) \in Lines /\ Tail(x.pre) \in Seq(Lines)
        /\ Append(x.pushed, Head(x.pre)) \in Seq(Lines)
        /\ Append(x.pushed, Head(x.pre)) \o Tail(x.pre) = x.pushed \o x.pre
    BY <1>1, <1>3, HeadMoves DEF SendsPre
  <2>3. Early(y)
    BY <1>3, <2>1, <2>2 DEF SendsPre, Sent, Early, Before
  <2>4. QED
    BY <1>1, <1>3, <2>2, <2>3 DEF SendsPre, Sent, Listed
<1>4. CASE StartsBackup(x, y)
  <2>1. Early(x)
    BY <1>4 DEF StartsBackup, Listed, Middle, Late, Before
  <2>2. Early(y)
    BY <1>4, <2>1 DEF StartsBackup, Kept, Early, Before
  <2>3. QED
    BY <1>1, <1>4, <2>2 DEF StartsBackup, Kept, Listed
<1>5. CASE EntersConfig(x, y)
  <2>1. Early(x)
    BY <1>5 DEF EntersConfig, Listed, Middle, Late, Before
  <2>2. x.pushed = Pre /\ Pre \o <<>> = Pre
    <3>1. x.pushed \o <<>> = x.pushed /\ Pre \o <<>> = Pre
      BY <1>1, Lists, ConcatEmptySeq
    <3>2. QED
      BY <1>5, <2>1, <3>1 DEF EntersConfig, Early
  <2>3. Middle(y)
    <3>1. 0 \in 0..Len(Activation) /\ SubSeq(Activation, 0 + 1, Len(Activation)) = Activation
          /\ Stripped[0] = <<>>
      BY Lists, CommandLists, StrippedSteps DEF L
    <3>2. y.state = "WAITING_FOR_CONFIG_PROMPT" /\ y.post = Post /\ y.act = Activation
          /\ y.pushed = Pre
      BY <1>5, <2>1, <2>2 DEF EntersConfig, Quiet, Kept, Early
    <3>3. QED
      BY <2>2, <3>1, <3>2 DEF Middle
  <2>4. QED
    BY <1>1, <1>5, <2>3 DEF EntersConfig, Quiet, Kept, Listed
<1>6. CASE SendsActivation(x, y)
  <2>1. Middle(x)
    BY <1>6 DEF SendsActivation, Listed, Early, Late, Before, InBackup
  <2>2. PICK n \in 0..L : x.act = SubSeq(Activation, n + 1, L) /\ x.pushed = Pre \o Stripped[n]
    BY <2>1 DEF Middle, L
  <2> DEFINE m == Next1(x.act)
  <2>3. n # L
    BY <1>6, <2>2, Lists, SubSeqEmpty DEF SendsActivation
  <2>4. /\ n + m \in 0..L /\ x.act[m] \in Lines
        /\ SubSeq(x.act, m + 1, Len(x.act)) = SubSeq(Activation, (n + m) + 1, L)
        /\ Stripped[n + m] = Append(Stripped[n], x.act[m])
    BY <2>2, <2>3, NextCommand
  <2>5. y.act = SubSeq(x.act, m + 1, Len(x.act)) /\ y.pushed = Append(x.pushed, x.act[m])
        /\ y.pre = x.pre /\ y.post = x.post /\ y.state = "PUSHING_CONFIG"
    BY <1>6 DEF SendsActivation, Sent
  <2> HIDE DEF m
  <2>6. y.pushed = Pre \o Stripped[n + m] /\ y.pushed \in Seq(Lines)
    <3>1. Stripped[n] \in Seq(Lines)
      BY StrippedSteps
    <3>2. Pre \o Append(Stripped[n], x.act[m]) = Append(Pre \o Stripped[n], x.act[m])
          /\ Append(Pre \o Stripped[n], x.act[m]) \in Seq(Lines)
      BY <2>4, <3>1, Lists, AppendLast
    <3>3. QED
      BY <2>2, <2>4, <2>5, <3>2
  <2>7. y.act \in Seq(Lines) /\ y.act = SubSeq(Activation, (n + m) + 1, L)
    BY <2>4, <2>5, Rest
  <2>8. Middle(y)
    <3>1. y.post = Post
      BY <2>1, <2>5 DEF Middle
    <3>2. QED
      BY <2>4, <2>5, <2>6, <2>7, <3>1 DEF Middle, L
  <2>9. QED
    BY <1>1, <2>5, <2>6, <2>7, <2>8 DEF Listed
<1>7. CASE LeavesConfig(x, y)
  <2>1. Middle(x)
    BY <1>7 DEF LeavesConfig, Listed, Early, Late, Before, InBackup
  <2>2. PICK n \in 0..L : x.act = SubSeq(Activation, n + 1, L) /\ x.pushed = Pre \o Stripped[n]
    BY <2>1 DEF Middle, L
  <2>3. n = L
    BY <1>7, <2>2, Rest DEF LeavesConfig
  <2>4. x.pushed \o x.post = All
    <3>1. Commands = Stripped[L] /\ (Pre \o Commands) \o Post = Pre \o Commands \o Post
      BY CommandLists
    <3>2. x.post = Post
      BY <2>1 DEF Middle
    <3>3. QED
      BY <2>2, <2>3, <3>1, <3>2 DEF All
  <2>5. Late(y, kind)
    BY <1>7, <2>4 DEF LeavesConfig, Quiet, Kept, Late
  <2>6. QED
    BY <1>1, <1>7, <2>5 DEF LeavesConfig, Quiet, Kept, Listed
<1>8. CASE SkipsConfig(x, y)
  <2>1. Middle(x)
    BY <1>8 DEF SkipsConfig, Listed, Early, Late, Before, InBackup
  <2>2. x.pushed = Pre /\ x.post = Post
    <3>1. x.pushed = Pre \o Stripped[0] /\ x.post = Post
      BY <1>8, <2>1 DEF SkipsConfig, Middle
    <3>2. Stripped[0] = <<>> /\ Pre \o <<>> = Pre
      BY StrippedSteps, Lists, ConcatEmptySeq
    <3>3. QED
      BY <3>1, <3>2
  <2>3. Late(y, kind)
    BY <1>8, <2>2 DEF SkipsConfig, Quiet, Kept, Late
  <2>4. QED
    BY <1>1, <1>8, <2>3 DEF SkipsConfig, Quiet, Kept, Listed
<1>9. CASE SendsPost(x, y)
  <2>1. Late(x, kind)
    BY <1>9 DEF SendsPost, Listed, Early, Middle, Before, InBackup
  <2>2. /\ Head(x.post) \in Lines /\ Tail(x.post) \in Seq(Lines)
        /\ Append(x.pushed, Head(x.post)) \in Seq(Lines)
        /\ Append(x.pushed, Head(x.post)) \o Tail(x.post) = x.pushed \o x.post
    BY <1>1, <1>9, HeadMoves DEF SendsPost
  <2>3. Late(y, kind)
    BY <1>9, <2>1, <2>2 DEF SendsPost, Sent, Late
  <2>4. QED
    BY <1>1, <1>9, <2>2, <2>3 DEF SendsPost, Sent, Listed
<1>10. CASE Exits(x, y) \/ SaysBye(x, y)
  <2>1. Late(x, kind)
    BY <1>10 DEF Exits, SaysBye, Listed, Early, Middle, Before, InBackup
  <2>2. Late(y, kind)
    BY <1>10, <2>1 DEF Exits, SaysBye, Kept, Late
  <2>3. QED
    BY <1>1, <1>10, <2>2 DEF Exits, SaysBye, Kept, Listed
<1>11. QED
  BY <1>2, <1>3, <1>4, <1>5, <1>6, <1>7, <1>8, <1>9, <1>10 DEF Said

LEMMA BackupSaid ==
  ASSUME NEW x, NEW y, Backup(x), x.loops \in Seq(Frames),
         \/ y.loops = x.loops
         \/ \E f \in Frames : f.loop \in {"newkey", "terminate"} /\ y.loops = Append(x.loops, f),
         y.timer => y.state = "ENABLE",
         x.state \in InBackup => y.state \in InBackup
  PROVE  Backup(y)
<1>1. ASSUME NEW i \in 1..Len(y.loops), IsBackup(y.loops[i])
      PROVE  i \in 1..Len(x.loops) /\ y.loops[i] = x.loops[i]
  <2>1. CASE y.loops = x.loops
    BY <1>1, <2>1
  <2>2. ASSUME NEW f \in Frames, f.loop \in {"newkey", "terminate"}, y.loops = Append(x.loops, f)
        PROVE  i \in 1..Len(x.loops) /\ y.loops[i] = x.loops[i]
    <3>1. /\ Len(y.loops) = Len(x.loops) + 1 /\ Len(x.loops) \in Nat
          /\ \A j \in 1..Len(x.loops) : y.loops[j] = x.loops[j]
          /\ y.loops[Len(x.loops) + 1] = f
      BY <2>2
    <3>2. i # Len(x.loops) + 1
      BY <1>1, <2>2, <3>1 DEF IsBackup
    <3>3. QED
      BY <1>1, <3>1, <3>2
  <2>3. QED
    BY <2>1, <2>2
<1>2. \A i \in 1..Len(y.loops) : IsBackup(y.loops[i]) => y.state \in InBackup
  BY <1>1 DEF Backup
<1>3. \A i, j \in 1..Len(y.loops) : IsBackup(y.loops[i]) /\ IsBackup(y.loops[j]) => i = j
  BY <1>1 DEF Backup
<1>4. QED
  BY <1>2, <1>3 DEF Backup

LEMMA EndingSaid ==
  ASSUME NEW x, NEW y, NEW k, Ending(x, k),
         Done(x) => Done(y), x.completed = TRUE => y.completed = TRUE,
         y.bye => x.bye \/ Done(y) \/ y.completed = TRUE,
         y.client = x.client, y.code = x.code, x.bye => y.bye,
         y.reports = <<"ok">> => x.reports = <<"ok">>
  PROVE  Ending(y, k)
BY DEF Ending

LEMMA ReadOrder ==
  ASSUME NEW x, NEW y, kind # "unx", Order(x, kind), SInv(x), x.timer = FALSE,
         Dialogue(x, y), Said(x, y)
  PROVE  Order(y, kind)
<1>1. Listed(y, kind) /\ Listed(x, kind) /\ Backup(x) /\ Ending(x, kind)
  BY ListedSaid DEF Order, SInv, Shape, Typed
<1>2. y.timer => y.state = "ENABLE"
  BY DEF Said, Moved, Quiet, Kept, SendsPre, Sent, StartsBackup, EntersConfig, SendsActivation,
         LeavesConfig, SkipsConfig, SendsPost, Exits, SaysBye
<1>3. x.state \in InBackup => y.state \in InBackup
  BY DEF Said, Moved, Moves, Before, InBackup, SendsPre, StartsBackup, EntersConfig,
         SendsActivation, LeavesConfig, SkipsConfig, SendsPost, Exits, SaysBye
<1>4. Backup(y)
  BY <1>1, <1>2, <1>3, BackupSaid DEF SInv, Shape, Dialogue
<1>5. Done(x) => Done(y)
  BY DEF Done, Said, Moved, Moves, Quiet, Kept, Before, SendsPre, StartsBackup, EntersConfig,
         SendsActivation, LeavesConfig, SkipsConfig, SendsPost, Exits, SaysBye
<1>6. y.bye => x.bye \/ Done(y) \/ y.completed = TRUE
  <2>1. CASE Exits(x, y)
    <3>1. kind # "junos" => y.pushed = All /\ y.state = "EXIT"
      <4>1. Late(x, kind)
        BY <1>1, <2>1 DEF Exits, Listed, Early, Middle, Before, InBackup
      <4>2. x.pushed \o <<>> = x.pushed
        BY <1>1, ConcatEmptySeq DEF Listed
      <4>3. QED
        BY <2>1, <4>1, <4>2 DEF Exits, Kept, Late
    <3>2. QED
      BY <2>1, <3>1 DEF Exits, Done
  <2>2. CASE SaysBye(x, y)
    <3>1. Late(x, kind)
      BY <1>1, <2>2 DEF SaysBye, Listed, Early, Middle, Before, InBackup
    <3>2. x.pushed \o <<>> = x.pushed
      BY <1>1, ConcatEmptySeq DEF Listed
    <3>3. x.error # TRUE => y.pushed = All
      BY <2>2, <3>1, <3>2 DEF SaysBye, Kept, Late
    <3>4. QED
      BY <2>2, <3>3 DEF SaysBye, Done
  <2>3. CASE y.bye = x.bye
    BY <2>3
  <2>4. QED
    BY <2>1, <2>2, <2>3 DEF Said, Moved, Quiet, SendsPre, Sent, StartsBackup, EntersConfig,
         SendsActivation, LeavesConfig, SkipsConfig, SendsPost
<1>7. x.bye => y.bye
  BY DEF Said, Moved, Quiet, SendsPre, Sent, StartsBackup, EntersConfig,
         SendsActivation, LeavesConfig, SkipsConfig, SendsPost, Exits, SaysBye
<1>8. y.code = x.code
  BY DEF Said, Moved, Quiet, Kept, SendsPre, Sent, StartsBackup, EntersConfig,
         SendsActivation, LeavesConfig, SkipsConfig, SendsPost, Exits, SaysBye
<1>9. y.client = x.client /\ (x.completed = TRUE => y.completed = TRUE)
      /\ (y.reports = <<"ok">> => x.reports = <<"ok">>)
  <2>1. <<"error">> # <<"ok">>
    OBVIOUS
  <2>2. QED
    BY <2>1, FirstReport DEF Dialogue, SInv, Reported
<1>10. Ending(y, kind)
  BY <1>1, <1>5, <1>6, <1>7, <1>8, <1>9, EndingSaid
<1>11. QED
  BY <1>1, <1>4, <1>10 DEF Order

-----------------------------------------------------------------------------
(* The other actions push nothing.                                          *)

Still(x, y) ==
  /\ y.pre = x.pre /\ y.act = x.act /\ y.post = x.post /\ y.pushed = x.pushed
  /\ y.state = x.state /\ y.bye = x.bye /\ y.error \in {x.error, TRUE}

\* no event loop of a backup is entered
NoNewBackup(x, y) ==
  \A i \in 1..Len(y.loops) :
    IsBackup(y.loops[i]) => i \in 1..Len(x.loops) /\ y.loops[i] = x.loops[i]

LEMMA StillOrder ==
  ASSUME NEW x, NEW y, NEW k, Order(x, k), Still(x, y),
         y.timer => x.timer, NoNewBackup(x, y),
         x.completed = TRUE => y.completed = TRUE,
         y.client = "ended" /\ y.code = 0 /\ k # "unx" => y.bye,
         y.reports = <<"ok">> => x.reports = <<"ok">>
  PROVE  Order(y, k)
<1>1. CASE k = "unx"
  BY <1>1 DEF Order, Still
<1>2. CASE k # "unx"
  <2>1. Listed(x, k) /\ Backup(x) /\ Ending(x, k)
    BY <1>2 DEF Order
  <2>2. Listed(y, k)
    <3>1. Early(x) => Early(y)
      BY DEF Still, Early
    <3>2. Middle(x) => Middle(y)
      BY DEF Still, Middle
    <3>3. Late(x, k) => Late(y, k)
      BY DEF Still, Late
    <3>4. QED
      BY <2>1, <3>1, <3>2, <3>3 DEF Listed, Still
  <2>3. Backup(y)
    BY <2>1 DEF Backup, NoNewBackup, Still
  <2>4. Ending(y, k)
    BY <1>2, <2>1 DEF Ending, Done, Still
  <2>5. QED
    BY <1>2, <2>2, <2>3, <2>4 DEF Order
<1>3. QED
  BY <1>1, <1>2

\* the clause of Ending a step needs that leaves client and code
LEMMA ExitCode ==
  ASSUME NEW x, NEW y, NEW k, Order(x, k), Still(x, y), y.client = x.client, y.code = x.code
  PROVE  y.client = "ended" /\ y.code = 0 /\ k # "unx" => y.bye
BY DEF Order, Ending, Still

LEMMA StartOrder == ASSUME SInv(s), Order(s, kind), StartSession PROVE Order(s', kind)
<1>1. DOMAIN s = Fields
  BY DEF SInv, Shape
<1>2. /\ Still(s, s') /\ s'.timer = s.timer /\ s'.loops = s.loops /\ s'.completed = s.completed
      /\ s'.reports = s.reports /\ s'.client \in {"running", "failed"}
  BY <1>1 DEF StartSession, Still, Fields
<1>3. NoNewBackup(s, s')
  BY <1>2 DEF NoNewBackup
<1>4. QED
  BY <1>2, <1>3, StillOrder

LEMMA PopNoNew ==
  ASSUME NEW x, NEW y, x.loops \in Seq(Frames), x.loops # <<>>, y.loops = Front(x.loops)
  PROVE  /\ NoNewBackup(x, y) /\ Len(y.loops) = Len(x.loops) - 1 /\ Len(x.loops) \in Nat \ {0}
         /\ \A i \in 1..Len(y.loops) : i \in 1..Len(x.loops) /\ y.loops[i] = x.loops[i]
BY DEF NoNewBackup, Front

LEMMA PushNoNew ==
  ASSUME NEW x, NEW y, x.loops \in Seq(Frames), NEW f \in Frames, ~IsBackup(f),
         y.loops = Append(x.loops, f)
  PROVE  NoNewBackup(x, y)
<1>1. /\ Len(y.loops) = Len(x.loops) + 1 /\ Len(x.loops) \in Nat
      /\ \A j \in 1..Len(x.loops) : y.loops[j] = x.loops[j]
      /\ y.loops[Len(x.loops) + 1] = f
  OBVIOUS
<1>2. ASSUME NEW i \in 1..Len(y.loops), IsBackup(y.loops[i])
      PROVE  i \in 1..Len(x.loops) /\ y.loops[i] = x.loops[i]
  <2>1. i # Len(x.loops) + 1
    BY <1>1, <1>2
  <2>2. QED
    BY <1>1, <1>2, <2>1
<1>3. QED
  BY <1>2 DEF NoNewBackup

LEMMA AnswerOrder ==
  ASSUME SInv(s), Order(s, kind), NEW yes \in BOOLEAN, AnswerNewKey(yes)
  PROVE  Order(s', kind)
<1> DEFINE b == [s EXCEPT !.beating = TRUE]
           y == Clear(Pop(b))
<1>1. DOMAIN s = Fields /\ s.loops \in Seq(Frames) /\ s.loops # <<>>
  BY DEF AnswerNewKey, InLoop, SInv, Shape
<1>2. /\ Still(s, y) /\ y.timer = s.timer /\ y.loops = Front(s.loops) /\ DOMAIN y = Fields
      /\ y.completed = s.completed /\ y.reports = s.reports /\ y.client = s.client
      /\ y.code = s.code
  BY <1>1 DEF Clear, Pop, Still, Fields
<1>3. s' = IF yes THEN Write(y) ELSE SessionComplete(y, TRUE)
  BY DEF AnswerNewKey
<1> HIDE DEF y
<1>4. /\ Still(y, s') /\ s'.timer = y.timer /\ s'.loops = y.loops /\ s'.client = y.client
      /\ s'.code = y.code
      /\ s'.completed \in {y.completed, TRUE}
      /\ s'.reports \in {y.reports, Append(y.reports, "error")}
  BY <1>2, <1>3 DEF Write, SessionComplete, Still, Fields
<1>5. Still(s, s')
  BY <1>2, <1>4 DEF Still
<1>6. s'.reports = <<"ok">> => s.reports = <<"ok">>
  <2>1. /\ Append(<<>>, "error") # <<"ok">> /\ Append(<<"ok">>, "error") # <<"ok">>
        /\ Append(<<"error">>, "error") # <<"ok">>
    OBVIOUS
  <2>2. QED
    BY <1>2, <1>4, <2>1 DEF SInv, Reported
<1>7. NoNewBackup(s, s')
  BY <1>1, <1>2, <1>4, PopNoNew
<1>8. s'.client = s.client /\ s'.code = s.code /\ s'.timer = s.timer
      /\ (s.completed = TRUE => s'.completed = TRUE)
  BY <1>2, <1>4
<1>9. QED
  BY <1>5, <1>6, <1>7, <1>8, ExitCode, StillOrder

LEMMA EndsOrder ==
  ASSUME SInv(s), Order(s, kind), NEW code \in ExitCodes, ClientEnds(code)
  PROVE  Order(s', kind)
<1>1. DOMAIN s = Fields
  BY DEF SInv, Shape
<1>2. /\ Still(s, s') /\ s'.timer = s.timer /\ s'.loops = s.loops /\ s'.completed = s.completed
      /\ s'.reports = s.reports /\ s'.code = code
  BY <1>1 DEF ClientEnds, Still, Fields
<1>3. code = 0 /\ kind # "unx" => s'.bye
  BY <1>2 DEF ExitCodes, Still
<1>4. NoNewBackup(s, s')
  BY <1>2 DEF NoNewBackup
<1>5. QED
  BY <1>2, <1>3, <1>4, StillOrder

LEMMA KillOrder == ASSUME SInv(s), Order(s, kind), KillClient PROVE Order(s', kind)
<1>1. DOMAIN s = Fields /\ s.loops \in Seq(Frames) /\ s.loops # <<>>
  BY DEF KillClient, InLoop, SInv, Shape
<1>2. /\ Still(s, s') /\ s'.timer = s.timer /\ s'.loops = Front(s.loops)
      /\ s'.completed = s.completed /\ s'.reports = s.reports /\ s'.client = "killed"
  BY <1>1 DEF KillClient, Pop, Still, Fields
<1>3. NoNewBackup(s, s')
  BY <1>1, <1>2, PopNoNew
<1>4. QED
  BY <1>2, <1>3, StillOrder

LEMMA TerminateReturnsOrder ==
  ASSUME SInv(s), Order(s, kind), TerminateReturns PROVE Order(s', kind)
<1>1. DOMAIN s = Fields /\ s.loops \in Seq(Frames) /\ s.loops # <<>>
  BY DEF TerminateReturns, InLoop, SInv, Shape
<1>2. /\ Still(s, s') /\ s'.timer = s.timer /\ s'.loops = Front(s.loops)
      /\ s'.completed = s.completed /\ s'.reports = s.reports /\ s'.client = s.client
      /\ s'.code = s.code
  BY <1>1 DEF TerminateReturns, Pop, Still, Fields
<1>3. NoNewBackup(s, s')
  BY <1>1, <1>2, PopNoNew
<1>4. QED
  BY <1>2, <1>3, ExitCode, StillOrder

LEMMA StopOrder == ASSUME SInv(s), Order(s, kind), Stop PROVE Order(s', kind)
<1> DEFINE b == [s EXCEPT !.beating = FALSE]
           f == [loop |-> "terminate", by |-> "user"]
           t == IF b.proc = "running" THEN [b EXCEPT !.loops = Append(@, f)]
                ELSE [b EXCEPT !.proc = "none"]
<1>1. DOMAIN s = Fields /\ s.loops \in Seq(Frames)
  BY DEF SInv, Shape
<1>2. f \in Frames /\ ~IsBackup(f)
  BY DEF Frames, IsBackup
<1>3. s' = [t EXCEPT !.stopped = TRUE]
  BY DEF Stop, Terminate, Push
<1>4. /\ DOMAIN b = Fields /\ Still(s, b) /\ b.timer = s.timer /\ b.loops = s.loops
      /\ b.completed = s.completed /\ b.reports = s.reports /\ b.client = s.client
      /\ b.code = s.code
  BY <1>1 DEF Still, Fields
<1> HIDE DEF b, f
<1>5. /\ Still(b, s') /\ s'.timer = b.timer /\ s'.loops \in {b.loops, Append(b.loops, f)}
      /\ s'.completed = b.completed /\ s'.reports = b.reports /\ s'.client = b.client
      /\ s'.code = b.code
  BY <1>3, <1>4 DEF Still, Fields
<1>6. Still(s, s')
  BY <1>4, <1>5 DEF Still
<1>7. NoNewBackup(s, s')
  <2>1. CASE s'.loops = s.loops
    BY <2>1 DEF NoNewBackup
  <2>2. CASE s'.loops = Append(s.loops, f)
    BY <1>1, <1>2, <2>2, PushNoNew
  <2>3. QED
    BY <1>4, <1>5, <2>1, <2>2
<1>8. QED
  BY <1>4, <1>5, <1>6, <1>7, ExitCode, StillOrder

LEMMA InitOrder == ASSUME Init PROVE Order(s, kind)
<1>1. /\ s.state = "NONE" /\ s.pre = Pre /\ s.act = Activation /\ s.post = Post
      /\ s.pushed = <<>> /\ s.timer = FALSE /\ s.loops = <<>> /\ s.bye = FALSE
      /\ s.client = "none" /\ s.reports = <<>>
  BY DEF Init
<1>2. <<>> \in Seq(Lines) /\ <<>> \o Pre = Pre
  BY Lists, ConcatEmptySeq, EmptySeq
<1>3. Listed(s, kind)
  BY <1>1, <1>2, Lists DEF Listed, Early, Before
<1>4. Backup(s)
  BY <1>1 DEF Backup
<1>5. Ending(s, kind)
  <2>1. <<"ok">> # <<>>
    OBVIOUS
  <2>2. QED
    BY <1>1, <2>1 DEF Ending
<1>6. QED
  BY <1>1, <1>3, <1>4, <1>5 DEF Order

LEMMA ReadStepOrder ==
  ASSUME SInv(s), Order(s, kind), NEW tok \in Says, NEW by \in {"signal", "timer"},
         ReadFromStdout(tok, by)
  PROVE  Order(s', kind)
<1> DEFINE x == [s EXCEPT !.buf = @ \cup {tok}, !.last = tok]
<1>1. s.proc = "running" /\ s.crashed = FALSE /\ s.timer = FALSE /\ s' = StateMachine(x, by)
  BY DEF ReadFromStdout, MayRead, Alive, SInv, Shape
<1>2. Same(s, x) /\ DOMAIN x = Fields /\ Typed(x) /\ Running(x)
  <2>1. tok \in Tokens
    BY DEF Says, Tokens
  <2>2. Typed(s) => Typed(x)
    BY <1>1, <2>1 DEF SInv, Shape, Typed, Fields
  <2>3. QED
    BY <1>1, <2>2 DEF SInv, Shape, Same, Running, Fields
<1>3. /\ Still(s, x) /\ x.timer = s.timer /\ x.loops = s.loops /\ x.completed = s.completed
      /\ x.client = s.client /\ x.code = s.code /\ x.reports = s.reports
  BY DEF SInv, Shape, Still, Fields
<1> HIDE DEF x
<1>4. Order(x, kind)
  <2>1. NoNewBackup(s, x)
    BY <1>3 DEF NoNewBackup
  <2>2. QED
    BY <1>3, <2>1, ExitCode, StillOrder
<1>5. SInv(x)
  BY <1>1, <1>2, SameDialogue, DialogueInv
<1>6. Dialogue(x, s')
  BY <1>1, <1>2, StateMachineDialogue DEF Running
<1>7. IF kind = "unx" THEN (s').pushed = x.pushed ELSE Said(x, s')
  BY <1>1, <1>2, StateMachineSaid
<1>8. CASE kind = "unx"
  BY <1>4, <1>7, <1>8 DEF Order
<1>9. CASE kind # "unx"
  BY <1>1, <1>3, <1>4, <1>5, <1>6, <1>7, <1>9, ReadOrder
<1>10. QED
  BY <1>8, <1>9

LEMMA LastPushed ==
  ASSUME NEW x, NEW y, x.loops \in Seq(Frames), NEW f \in Frames,
         y.loops = Append(x.loops, f)
  PROVE  /\ \A i \in 1..Len(y.loops) : i \notin 1..Len(x.loops) => i = Len(x.loops) + 1
         /\ \A j \in 1..Len(x.loops) : y.loops[j] = x.loops[j]
OBVIOUS

\* A command of the backup, in a session with no other one under way.
LEMMA CmdOrder ==
  ASSUME NEW x, NEW k, Order(x, k), NEW c \in {"pager", "show run"},
         DOMAIN x = Fields, x.loops \in Seq(Frames), x.timer = FALSE,
         k # "unx" => Early(x) /\ \A i \in 1..Len(x.loops) : ~IsBackup(x.loops[i])
  PROVE  Order(Cmd(x, c), k)
<1> DEFINE w == Write(Clear(x))
           y == Cmd(x, c)
           f == [loop |-> c, by |-> "single"]
<1>1. /\ DOMAIN w = Fields /\ Still(x, w) /\ w.timer = x.timer /\ w.loops = x.loops
      /\ w.completed = x.completed /\ w.reports = x.reports /\ w.client = x.client
      /\ w.code = x.code
  BY DEF Write, Clear, Still, Fields
<1>2. Order(w, k)
  <2> HIDE DEF w
  <2>1. NoNewBackup(x, w)
    BY <1>1 DEF NoNewBackup
  <2>2. QED
    BY <1>1, <2>1, ExitCode, StillOrder
<1>3. y = IF w.crashed THEN w ELSE Push(Goto(w, "EXECUTING_COMMAND"), c, "single")
  BY DEF Cmd
<1> HIDE DEF w, y
<1>4. CASE w.crashed
  BY <1>2, <1>3, <1>4 DEF y
<1>5. CASE ~w.crashed
  <2>1. /\ y.pre = w.pre /\ y.act = w.act /\ y.post = w.post /\ y.pushed = w.pushed
        /\ y.state = "EXECUTING_COMMAND" /\ y.bye = w.bye
        /\ y.timer = w.timer /\ y.loops = Append(w.loops, f) /\ y.completed = w.completed
        /\ y.reports = w.reports /\ y.client = w.client /\ y.code = w.code
    BY <1>1, <1>3, <1>5 DEF Push, Goto, Fields
  <2> HIDE DEF f
  <2>2. CASE k = "unx"
    BY <1>2, <2>1, <2>2 DEF Order, y
  <2>3. CASE k # "unx"
    <3>1. Early(x) /\ \A i \in 1..Len(x.loops) : ~IsBackup(x.loops[i])
      BY <2>3
    <3>2. Listed(y, k)
      <4>1. Early(y)
        BY <1>1, <2>1, <3>1 DEF Early, Still, InBackup
      <4>2. QED
        BY <1>2, <2>1, <2>3, <4>1 DEF Order, Listed
    <3>3. Backup(y)
      <4>1. /\ \A i \in 1..Len(y.loops) : i \notin 1..Len(x.loops) => i = Len(x.loops) + 1
            /\ \A j \in 1..Len(x.loops) : y.loops[j] = x.loops[j]
        <5>1. f \in Frames
          BY DEF Frames, f
        <5>2. x.loops \in Seq(Frames) /\ y.loops = Append(x.loops, f)
          BY <1>1, <2>1
        <5>3. QED
          BY <5>1, <5>2, LastPushed
      <4>2. ASSUME NEW i \in 1..Len(y.loops), IsBackup(y.loops[i])
            PROVE  i = Len(x.loops) + 1
        <5>1. i \notin 1..Len(x.loops)
          BY <3>1, <4>1, <4>2, Zenon
        <5>2. QED
          BY <4>1, <5>1, Zenon
      <4>3. \A i, j \in 1..Len(y.loops) : IsBackup(y.loops[i]) /\ IsBackup(y.loops[j]) => i = j
        BY <4>2
      <4>4. y.timer = FALSE /\ y.state \in InBackup
        BY <1>1, <2>1 DEF InBackup
      <4>5. QED
        BY <4>3, <4>4 DEF Backup
    <3>4. Ending(y, k)
      <4>1. ~Done(w)
        BY <1>1, <3>1 DEF Early, Still, Done, Before, InBackup
      <4>2. Ending(w, k)
        BY <1>2, <2>3 DEF Order
      <4>3. QED
        BY <2>1, <4>1, <4>2 DEF Ending
    <3>5. QED
      BY <2>3, <3>2, <3>3, <3>4 DEF Order, y
  <2>4. QED
    BY <2>2, <2>3
<1>6. QED
  BY <1>4, <1>5

LEMMA BackupOrder == ASSUME SInv(s), Order(s, kind), PIXbackup PROVE Order(s', kind)
<1> DEFINE x == [s EXCEPT !.timer = FALSE]
<1>1. s.timer = TRUE /\ s' = Cmd(x, "pager") /\ DOMAIN s = Fields /\ s.loops \in Seq(Frames)
  BY DEF PIXbackup, SInv, Shape
<1>2. /\ Still(s, x) /\ x.timer = FALSE /\ x.loops = s.loops /\ x.completed = s.completed
      /\ x.client = s.client /\ x.code = s.code /\ x.reports = s.reports /\ DOMAIN x = Fields
  BY <1>1 DEF Still, Fields
<1> HIDE DEF x
<1>3. Order(x, kind)
  <2>1. NoNewBackup(s, x)
    BY <1>2 DEF NoNewBackup
  <2>2. QED
    BY <1>2, <2>1, ExitCode, StillOrder
<1>4. kind # "unx" => Early(x) /\ \A i \in 1..Len(x.loops) : ~IsBackup(x.loops[i])
  <2> SUFFICES ASSUME kind # "unx"
               PROVE  Early(x) /\ \A i \in 1..Len(x.loops) : ~IsBackup(x.loops[i])
    OBVIOUS
  <2>1. Listed(x, kind) /\ Backup(x) /\ Backup(s)
    BY <1>3 DEF Order
  <2>2. x.state = "ENABLE"
    BY <1>1, <1>2, <2>1 DEF Backup, Still
  <2>3. Early(x)
    BY <2>1, <2>2 DEF Listed, Middle, Late
  <2>4. QED
    BY <2>1, <2>2, <2>3 DEF Backup, InBackup
<1>5. QED
  BY <1>1, <1>2, <1>3, <1>4, CmdOrder

LEMMA CmdReturnsOrder == ASSUME SInv(s), Order(s, kind), CmdReturns PROVE Order(s', kind)
<1> DEFINE b == [s EXCEPT !.loopExit = FALSE]
           y == Pop(b)
           z == IF y.state = "COMMAND_DONE" THEN Goto([y EXCEPT !.backup = FALSE], "ENABLE")
                ELSE y
<1>1. /\ DOMAIN s = Fields /\ s.loops \in Seq(Frames) /\ s.loops # <<>> /\ IsBackup(Top(s))
      /\ s.timer \in BOOLEAN
  BY DEF CmdReturns, InLoop, IsBackup, SInv, Shape
<1>2. s' = IF Top(s).loop = "pager" THEN Cmd(y, "show run") ELSE Write(z)
  BY DEF CmdReturns
<1>3. /\ DOMAIN y = Fields /\ Still(s, y) /\ y.timer = s.timer /\ y.loops = Front(s.loops)
      /\ y.completed = s.completed /\ y.reports = s.reports /\ y.client = s.client
      /\ y.code = s.code
  BY <1>1 DEF Pop, Still, Fields
<1> HIDE DEF y
<1>4. /\ NoNewBackup(s, y) /\ Len(y.loops) = Len(s.loops) - 1 /\ Len(s.loops) \in Nat \ {0}
      /\ \A i \in 1..Len(y.loops) : i \in 1..Len(s.loops) /\ y.loops[i] = s.loops[i]
      /\ y.loops \in Seq(Frames)
  <2>1. Front(s.loops) \in Seq(Frames)
    BY <1>1 DEF Front
  <2>2. QED
    BY <1>1, <1>3, <2>1, PopNoNew
<1>5. Order(y, kind)
  BY <1>3, <1>4, ExitCode, StillOrder
<1>6. kind # "unx" => /\ Early(y) /\ y.timer = FALSE
                      /\ \A i \in 1..Len(y.loops) : ~IsBackup(y.loops[i])
  <2> SUFFICES ASSUME kind # "unx"
               PROVE  /\ Early(y) /\ y.timer = FALSE
                      /\ \A i \in 1..Len(y.loops) : ~IsBackup(y.loops[i])
    OBVIOUS
  <2>1. Listed(y, kind) /\ Backup(s)
    BY <1>5 DEF Order
  <2>2. Len(s.loops) \in 1..Len(s.loops) /\ IsBackup(s.loops[Len(s.loops)])
    BY <1>1, <1>4 DEF Top, Last
  <2>3. s.state \in InBackup
    BY <2>1, <2>2 DEF Backup
  <2>4. Early(y)
    BY <1>3, <2>1, <2>3 DEF Still, InBackup, Listed, Middle, Late
  <2>5. y.timer = FALSE
    BY <1>1, <1>3, <2>1, <2>3 DEF Backup, InBackup
  <2>6. ASSUME NEW i \in 1..Len(y.loops), IsBackup(y.loops[i]) PROVE FALSE
    <3>1. i \in 1..Len(s.loops) /\ IsBackup(s.loops[i])
      BY <1>4, <2>6
    <3>2. i = Len(s.loops)
      BY <2>1, <2>2, <3>1 DEF Backup
    <3>3. QED
      BY <1>4, <3>2
  <2>7. QED
    BY <2>4, <2>5, <2>6
<1>7. CASE kind = "unx"
  <2>1. (s').pushed = y.pushed
    BY <1>2, <1>3 DEF Cmd, Write, Clear, Push, Goto, Fields
  <2>2. QED
    BY <1>5, <1>7, <2>1 DEF Order
<1>8. CASE kind # "unx" /\ Top(s).loop = "pager"
  BY <1>2, <1>3, <1>4, <1>5, <1>6, <1>8, CmdOrder
<1>9. CASE kind # "unx" /\ Top(s).loop # "pager"
  <2>1. /\ (s').pre = y.pre /\ (s').act = y.act /\ (s').post = y.post
        /\ (s').pushed = y.pushed /\ (s').state \in {y.state, "ENABLE"}
        /\ (s').bye = y.bye /\ (s').timer = y.timer /\ (s').loops = y.loops
        /\ (s').completed = y.completed /\ (s').reports = y.reports
        /\ (s').client = y.client /\ (s').code = y.code
    <3>1. s' = Write(z)
      BY <1>2, <1>9
    <3>2. /\ z.pre = y.pre /\ z.act = y.act /\ z.post = y.post
          /\ z.pushed = y.pushed /\ z.state \in {y.state, "ENABLE"}
          /\ z.bye = y.bye /\ z.timer = y.timer /\ z.loops = y.loops
          /\ z.completed = y.completed /\ z.reports = y.reports
          /\ z.client = y.client /\ z.code = y.code /\ DOMAIN z = Fields
      BY <1>3 DEF Goto, Fields
    <3> HIDE DEF z
    <3>3. QED
      BY <3>1, <3>2 DEF Write, Fields
  <2>2. Early(y) /\ y.timer = FALSE /\ \A i \in 1..Len(y.loops) : ~IsBackup(y.loops[i])
    BY <1>6, <1>9
  <2>3. Listed(y, kind) /\ Ending(y, kind)
    BY <1>5, <1>9 DEF Order
  <2>4. Listed(s', kind)
    <3>1. Early(s')
      BY <2>1, <2>2 DEF Early, Before
    <3>2. QED
      BY <2>1, <2>3, <3>1 DEF Listed
  <2>5. Backup(s')
    BY <2>1, <2>2 DEF Backup
  <2>6. Ending(s', kind)
    <3>1. ~Done(y)
      BY <2>2 DEF Early, Done, Before, InBackup
    <3>2. QED
      BY <2>1, <2>3, <3>1 DEF Ending
  <2>7. QED
    BY <1>9, <2>4, <2>5, <2>6 DEF Order
<1>10. QED
  BY <1>7, <1>8, <1>9

\* The end of the client: success only when it was told good-bye.
LEMMA FinishedOrder == ASSUME SInv(s), Order(s, kind), Finished PROVE Order(s', kind)
<1> DEFINE x == [s EXCEPT !.proc = "none", !.outlived = @ \/ Suspended]
           err == ~Success(s.code)
<1>1. /\ s' = SessionComplete(x, err) /\ s.client = "ended" /\ DOMAIN s = Fields
      /\ err \in BOOLEAN /\ s.error \in BOOLEAN /\ s.completed \in BOOLEAN
  BY DEF Finished, SInv, Shape, Typed
<1>2. /\ x.pre = s.pre /\ x.act = s.act /\ x.post = s.post /\ x.pushed = s.pushed
      /\ x.state = s.state /\ x.bye = s.bye /\ x.error = s.error /\ x.timer = s.timer
      /\ x.loops = s.loops /\ x.completed = s.completed /\ x.reports = s.reports
      /\ x.client = s.client /\ x.code = s.code /\ DOMAIN x = Fields
  BY <1>1 DEF Fields
<1> HIDE DEF x, err
<1>3. /\ (s').pre = s.pre /\ (s').act = s.act /\ (s').post = s.post /\ (s').pushed = s.pushed
      /\ (s').state = s.state /\ (s').bye = s.bye /\ (s').timer = s.timer
      /\ (s').loops = s.loops /\ (s').client = s.client /\ (s').code = s.code
      /\ (s').completed = TRUE
      /\ (s').error = IF s.completed THEN s.error ELSE err
      /\ (s').reports = IF s.completed THEN s.reports
                        ELSE Append(s.reports, IF err THEN "error" ELSE "ok")
  BY <1>1, <1>2 DEF SessionComplete, Fields
<1>4. CASE kind = "unx"
  BY <1>3, <1>4 DEF Order
<1>5. CASE kind # "unx"
  <2>1. Listed(s, kind) /\ Backup(s) /\ Ending(s, kind)
    BY <1>5 DEF Order
  <2>2. Backup(s')
    BY <1>3, <2>1 DEF Backup
  <2>3. s.completed = FALSE /\ err = FALSE /\ kind # "procurve" => Done(s)
    <3>1. err = FALSE /\ kind # "procurve" => s.code = 0
      BY DEF err, Success
    <3>2. QED
      BY <1>1, <1>5, <2>1, <3>1 DEF Ending
  <2>4. Listed(s', kind)
    <3>1. Early(s) => Early(s')
      BY <1>3 DEF Early
    <3>2. Middle(s) => Middle(s')
      BY <1>3 DEF Middle
    <3>3. ASSUME Late(s, kind) PROVE Late(s', kind)
      <4>1. CASE s.pushed \o s.post = All
        BY <1>3, <3>3, <4>1 DEF Late
      <4>2. CASE s.error = TRUE /\ (s').error = TRUE
        BY <1>3, <3>3, <4>2 DEF Late
      <4>3. CASE kind = "junos" /\ s.error = TRUE /\ (s').error # TRUE
        <5>1. s.completed = FALSE /\ err = FALSE
          BY <1>1, <1>3, <4>3
        <5>2. s.post = <<>> /\ s.pushed = All
          BY <2>3, <3>3, <4>3, <5>1 DEF Done, Late
        <5>3. All \o <<>> = All
          BY CommandLists, ConcatEmptySeq
        <5>4. QED
          BY <1>3, <3>3, <5>2, <5>3 DEF Late
      <4>4. QED
        BY <3>3, <4>1, <4>2, <4>3 DEF Late
    <3>4. QED
      BY <1>3, <2>1, <3>1, <3>2, <3>3 DEF Listed
  <2>5. Ending(s', kind)
    <3>1. (s').reports = <<"ok">> =>
            s.reports = <<"ok">> \/ (s.completed = FALSE /\ err = FALSE)
      <4>1. Append(<<>>, "error") # <<"ok">>
        OBVIOUS
      <4>2. s.completed = FALSE => s.reports = <<>>
        BY DEF SInv, Reported
      <4>3. QED
        BY <1>1, <1>3, <4>1, <4>2
    <3>2. Done(s) => Done(s')
      BY <1>3 DEF Done
    <3>3. QED
      BY <1>3, <2>1, <2>3, <3>1, <3>2 DEF Ending
  <2>6. QED
    BY <1>5, <2>2, <2>4, <2>5 DEF Order
<1>6. QED
  BY <1>4, <1>5

LEMMA StepOrder == ASSUME SInv(s), Order(s, kind), [Next]_vars PROVE Order(s, kind)'
<1>1. kind' = kind
  BY DEF Next, StartSession, ReadFromStdout, AnswerNewKey, PIXbackup, CmdReturns, ClientEnds,
         Finished, KillClient, TerminateReturns, Stop, Idle, vars
<1>2. Order(s', kind)
  <2>1. ASSUME NEW tok \in Says, NEW by \in {"signal", "timer"}, ReadFromStdout(tok, by)
        PROVE  Order(s', kind)
    BY <2>1, ReadStepOrder
  <2>2. ASSUME NEW yes \in BOOLEAN, AnswerNewKey(yes) PROVE Order(s', kind)
    BY <2>2, AnswerOrder
  <2>3. ASSUME NEW code \in ExitCodes, ClientEnds(code) PROVE Order(s', kind)
    BY <2>3, EndsOrder
  <2>4. CASE StartSession
    BY <2>4, StartOrder
  <2>5. CASE PIXbackup
    BY <2>5, BackupOrder
  <2>6. CASE CmdReturns
    BY <2>6, CmdReturnsOrder
  <2>7. CASE Finished
    BY <2>7, FinishedOrder
  <2>8. CASE KillClient
    BY <2>8, KillOrder
  <2>9. CASE TerminateReturns
    BY <2>9, TerminateReturnsOrder
  <2>10. CASE Stop
    BY <2>10, StopOrder
  <2>11. CASE UNCHANGED vars
    BY <2>11 DEF vars
  <2>12. QED
    BY <2>1, <2>2, <2>3, <2>4, <2>5, <2>6, <2>7, <2>8, <2>9, <2>10, <2>11 DEF Next, Idle
<1>3. Order(s', kind')
  BY <1>1, <1>2
<1>4. QED
  BY <1>3

-----------------------------------------------------------------------------
(* What the order says of the commands that went out.                       *)

\* Whatever follows.
LEMMA PrefixOfConcat ==
  ASSUME NEW p \in Seq(Lines), NEW q \in Seq(Lines)
  PROVE  IsPrefix(p, p \o q)
<1>1. /\ Len(p) \in Nat /\ Len(q) \in Nat /\ Len(p \o q) = Len(p) + Len(q)
      /\ p \o q \in Seq(Lines)
      /\ \A i \in 1..Len(p) : (p \o q)[i] = p[i]
  BY ConcatProperties, LenProperties
<1> DEFINE t == p \o q
<1> HIDE DEF t
<1>2. SubSeq(p, 1, Len(p)) = p
  BY SubSeqFull
<1>3. SubSeq(t, 1, Len(p)) = p
  <2>1. \A i \in 1..Len(p) : t[i] \in Lines
    <3>1. \A i \in 1..Len(p) : p[i] \in Lines
      OBVIOUS
    <3>2. QED
      BY <1>1, <3>1 DEF t
  <2> DEFINE u == SubSeq(t, 1, Len(p))
  <2>2. /\ u \in Seq(Lines)
        /\ Len(u) = IF 1 <= Len(p) THEN Len(p) - 1 + 1 ELSE 0
        /\ \A i \in 1..(Len(p) - 1 + 1) : u[i] = t[1 + i - 1]
    BY <1>1, <2>1, SubSeqProperties
  <2> HIDE DEF u
  <2>3. Len(u) = Len(p)
    BY <1>1, <2>2
  <2>4. ASSUME NEW i \in 1..Len(p) PROVE u[i] = p[i]
    <3>1. i \in 1..(Len(p) - 1 + 1) /\ 1 + i - 1 = i
      BY <1>1
    <3>2. u[i] = t[1 + i - 1]
      BY <2>2, <3>1
    <3>3. QED
      BY <1>1, <3>1, <3>2 DEF t
  <2>5. u = p
    BY <2>2, <2>3, <2>4, SeqEqual
  <2>6. QED
    BY <2>5 DEF u
<1>4. Len(p) <= Len(t)
  BY <1>1 DEF t
<1>5. QED
  BY <1>2, <1>3, <1>4, Zenon DEF IsPrefix, t

\* The lines to activate that have been sent are the first of all of them.
LEMMA StrippedGrows ==
  ASSUME NEW n \in 0..L
  PROVE  \E u \in Seq(Lines) : Stripped[n] \o u = Commands
<1> DEFINE S == {j \in 0..(L - n) : \E u \in Seq(Lines) : Stripped[n] \o u = Stripped[n + j]}
<1>1. \A j \in 0..L : Stripped[j] \in Seq(Lines)
  BY StrippedSteps
<1>2. 0 \in S
  <2>1. Stripped[n] \o <<>> = Stripped[n] /\ <<>> \in Seq(Lines)
    BY <1>1, ConcatEmptySeq, EmptySeq
  <2>2. 0 \in 0..(L - n) /\ n + 0 = n
    BY Lists
  <2>3. QED
    BY <2>1, <2>2
<1>3. ASSUME NEW j \in 0..((L - n) - 1), j \in S PROVE j + 1 \in S
  <2>1. PICK u \in Seq(Lines) : Stripped[n] \o u = Stripped[n + j]
    BY <1>3
  <2>2. n + (j + 1) \in 1..L /\ (n + (j + 1)) - 1 = n + j /\ j + 1 \in 0..(L - n)
    BY Lists
  <2> DEFINE m == n + (j + 1)
  <2>3. CASE Activation[m] = Comment
    <3>1. Stripped[m] = Stripped[n + j]
      BY <2>2, <2>3, StrippedSteps
    <3>2. QED
      BY <2>1, <2>2, <3>1
  <2>4. CASE Activation[m] # Comment
    <3>1. Stripped[m] = Append(Stripped[n + j], Activation[m]) /\ Activation[m] \in Lines
      BY <2>2, <2>4, StrippedSteps, Lists
    <3>2. Stripped[n] \o Append(u, Activation[m]) = Append(Stripped[n] \o u, Activation[m])
      BY <1>1, <3>1, AppendLast
    <3>3. Append(u, Activation[m]) \in Seq(Lines)
      BY <3>1, AppendProperties
    <3>4. QED
      BY <2>1, <2>2, <3>1, <3>2, <3>3
  <2>5. QED
    BY <2>3, <2>4
<1>4. L - n \in Nat /\ n + (L - n) = L
  BY Lists
<1> HIDE DEF S
<1>5. L - n \in S
  <2>1. 0..(L - n) \subseteq S
    BY <1>2, <1>3, <1>4, Counting
  <2>2. QED
    BY <1>4, <2>1
<1>6. QED
  BY <1>4, <1>5, CommandLists DEF S

LEMMA ConcatLines ==
  ASSUME NEW p \in Seq(Lines), NEW q \in Seq(Lines), NEW r \in Seq(Lines)
  PROVE  p \o q \in Seq(Lines) /\ (p \o q) \o r = p \o (q \o r)
BY ConcatAssociative, ConcatProperties

LEMMA OrderSays ==
  ASSUME SInv(s), Order(s, kind) PROVE CommandsInOrder /\ SuccessMeansPushed
<1>1. All = Pre \o Commands \o Post /\ All \in Seq(Lines) /\ Pre \o Post \in Seq(Lines)
      /\ Commands \in Seq(Lines) /\ Pre \o Commands \in Seq(Lines)
  BY CommandLists, Lists, ConcatProperties DEF All
<1>2. CASE kind = "unx"
  <2>1. s.pushed = <<>> /\ <<>> \in Seq(Lines) /\ <<>> \o All = All
    BY <1>1, <1>2, ConcatEmptySeq, EmptySeq DEF Order
  <2>2. IsPrefix(s.pushed, All)
    BY <1>1, <2>1, PrefixOfConcat
  <2>3. QED
    BY <1>1, <1>2, <2>2 DEF CommandsInOrder, SuccessMeansPushed
<1>3. CASE kind # "unx"
  <2>1. Listed(s, kind) /\ Ending(s, kind)
    BY <1>3 DEF Order
  <2>2. /\ s.pre \in Seq(Lines) /\ s.act \in Seq(Lines) /\ s.post \in Seq(Lines)
        /\ s.pushed \in Seq(Lines)
    BY <2>1 DEF Listed
  <2>3. ASSUME Early(s) PROVE CommandsInOrder
    <3>1. s.pushed \o s.pre = Pre
      BY <2>3 DEF Early
    <3> DEFINE r == Commands \o Post
    <3>2. r \in Seq(Lines) /\ All = Pre \o r
      BY <1>1, Lists, ConcatLines
    <3> HIDE DEF r
    <3>3. s.pushed \o (s.pre \o r) = All /\ s.pre \o r \in Seq(Lines)
      <4>1. (s.pushed \o s.pre) \o r = s.pushed \o (s.pre \o r) /\ s.pre \o r \in Seq(Lines)
        <5> DEFINE p == s.pushed
                   q == s.pre
        <5>1. p \in Seq(Lines) /\ q \in Seq(Lines)
          BY <2>2
        <5> HIDE DEF p, q
        <5>2. (p \o q) \o r = p \o (q \o r) /\ q \o r \in Seq(Lines)
          BY <3>2, <5>1, ConcatLines
        <5>3. QED
          BY <5>2 DEF p, q
      <4>2. QED
        BY <3>1, <3>2, <4>1
    <3>4. QED
      BY <1>1, <2>2, <3>3, PrefixOfConcat DEF CommandsInOrder
  <2>4. ASSUME Middle(s) PROVE CommandsInOrder
    <3>1. \E v, u \in Seq(Lines) : s.pushed = Pre \o v /\ v \o u = Commands
      <4>1. PICK n \in 0..L : s.pushed = Pre \o Stripped[n]
        BY <2>4 DEF Middle, L
      <4>2. Stripped[n] \in Seq(Lines) /\ \E u \in Seq(Lines) : Stripped[n] \o u = Commands
        BY StrippedSteps, StrippedGrows
      <4>3. QED
        BY <4>1, <4>2
    <3>2. PICK v \in Seq(Lines), u \in Seq(Lines) : s.pushed = Pre \o v /\ v \o u = Commands
      BY <3>1
    <3>3. Pre \in Seq(Lines) /\ Post \in Seq(Lines)
      BY Lists
    <3>4. (Pre \o v) \o u = Pre \o Commands
      <4>1. (Pre \o v) \o u = Pre \o (v \o u)
        BY <3>3, ConcatLines
      <4>2. QED
        BY <3>2, <4>1
    <3>5. s.pushed \o (u \o Post) = All /\ u \o Post \in Seq(Lines)
      <4>1. (s.pushed \o u) \o Post = s.pushed \o (u \o Post) /\ u \o Post \in Seq(Lines)
        <5> DEFINE q == s.pushed
        <5>1. q \in Seq(Lines)
          BY <2>2
        <5> HIDE DEF q
        <5>2. (q \o u) \o Post = q \o (u \o Post) /\ u \o Post \in Seq(Lines)
          BY <3>3, <5>1, ConcatLines
        <5>3. QED
          BY <5>2 DEF q
      <4>2. (s.pushed \o u) \o Post = All
        BY <1>1, <3>2, <3>4
      <4>3. QED
        BY <4>1, <4>2
    <3>6. QED
      BY <1>1, <2>2, <3>5, PrefixOfConcat DEF CommandsInOrder
  <2>5. ASSUME Late(s, kind) PROVE CommandsInOrder
    <3>1. IsPrefix(s.pushed, s.pushed \o s.post)
      BY <2>2, PrefixOfConcat
    <3>2. QED
      BY <1>1, <2>5, <3>1 DEF Late, CommandsInOrder
  <2>6. SuccessMeansPushed
    <3>1. s.reports \in {<<>>, <<"ok">>, <<"error">>}
      BY DEF SInv, Reported
    <3>2. "ok" \in Range(s.reports) => s.reports = <<"ok">>
      <4>1. "ok" \notin Range(<<>>) /\ "ok" \notin Range(<<"error">>)
        BY DEF Range
      <4>2. QED
        BY <3>1, <4>1
    <3>3. QED
      BY <1>1, <1>3, <2>1, <3>2 DEF SuccessMeansPushed, Ending, Done
  <2>7. QED
    BY <2>1, <2>3, <2>4, <2>5, <2>6 DEF Listed
<1>4. QED
  BY <1>2, <1>3

\* What was pushed and what is left of the three lists make up the configuration, in
\* every state of every dialogue; a backup has its own states; the client ends well
\* only when it was told good-bye.
THEOREM CommandOrderInvariant == Spec => []Order(s, kind)
<1>1. Init => Order(s, kind)
  BY InitOrder
<1>2. SInv(s) /\ Order(s, kind) /\ [Next]_vars => Order(s, kind)'
  BY StepOrder
<1>3. QED
  BY SessionInvariant, <1>1, <1>2, PTL DEF Spec

\* The device gets pre_config, activation and post_config commands in this order,
\* without repetition, whatever it prints and wherever the session stops; only Junos
\* may skip the activation commands, after an error.
THEOREM CommandsGoInOrder == Spec => []CommandsInOrder
<1>1. SInv(s) /\ Order(s, kind) => CommandsInOrder
  BY OrderSays
<1>2. QED
  BY SessionInvariant, CommandOrderInvariant, <1>1, PTL

\* A device other than a Procurve is reported as installed only when all of the
\* configuration was pushed: stateMachine() says "exit" behind the last of
\* post_config_commands, and no other exit status than 0 is a success.
THEOREM SuccessIsComplete == Spec => []SuccessMeansPushed
<1>1. SInv(s) /\ Order(s, kind) => SuccessMeansPushed
  BY OrderSays
<1>2. QED
  BY SessionInvariant, CommandOrderInvariant, <1>1, PTL
=============================================================================
