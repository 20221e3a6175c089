--------------------------- MODULE DataFileProofs ---------------------------
(***************************************************************************)
(* The safety of DataFile for any set of copies and any bounds, when every *)
(* user runs one copy: locks are held by users, so the archive can not     *)
(* tell the copies of one user apart.                                      *)
(***************************************************************************)
EXTENDS DataFile, TLAPS

OneCopyPerUser == \A c, d \in Copies : User[c] = User[d] => c = d

Places == {"none", "reload", "preview", "repreview", "open", "log", "ci", "relock",
           "hollow", "gone"}
Goals == {"none", "close", "quit", "commit", "add"}
Objects == [data : Data, dirty : BOOLEAN, readOnly : BOOLEAN, onDisk : Data]

\* the conjuncts of TypeOK about the disk, and those about one window in state
\* p with RCS object r
TypeDisk ==
  /\ revisions \in Seq(Data) /\ Len(revisions) <= MaxRevisions
  /\ head \in 0..Len(revisions)
  /\ locks \subseteq Users \X (1..Len(revisions))
  /\ file \in [data : Data, owner : Users, writable : BOOLEAN]

\* a file that co would replace without -f holds nothing that is not in the
\* archive, and a writable one belongs to a user who has a lock
DiskInv ==
  /\ head = 0 => revisions = << >>
  /\ ~file.writable => \E r \in 1..Len(revisions) : revisions[r] = file.data
  /\ file.writable /\ head # 0 => \E r \in 1..Len(revisions) : <<file.owner, r>> \in locks

\* what a window believes of the archive and the file
LockBelief(c) ==
  /\ rcs[c].checked_out => <<User[c], rcs[c].selectedRev>> \in locks
  /\ rcs[c].locked /\ rcs[c].locked_by = User[c] => <<User[c], rcs[c].locked_rev>> \in locks
FlagBelief(c) ==
  /\ InPreview(c) => ~rcs[c].checked_out
  /\ ~rcs[c].locked /\ InPreview(c) => rcs[c].locked_by = NoUser
  /\ rcs[c].locked_by = User[c] /\ ~InPreview(c) /\ ~rcs[c].ro
       => rcs[c].selectedRev = rcs[c].locked_rev
  /\ rcs[c].locked \/ rcs[c].locked_by # NoUser => head # 0
  /\ pc[c] \in {"log", "ci"} => rcs[c].checked_out
  /\ pc[c] = "relock" /\ rcs[c].locked => rcs[c].checked_out
FileBelief(c) ==
  rcs[c].checked_out /\ file.owner = User[c] /\ file.writable
    => file.data \in {db[c].onDisk, revisions[rcs[c].selectedRev]}

Belief(c) == LockBelief(c) /\ FlagBelief(c) /\ FileBelief(c)

Inv == TypeOK /\ DiskInv /\ \A c \in Copies : Belief(c)

\* the types of one window, and that a step is c's alone
TypeWindow(c) ==
  /\ pc[c] \in Places /\ goal[c] \in Goals /\ rcs[c] \in RcsObject /\ db[c] \in Objects
  /\ rcs[c].checked_out \/ pc[c] = "relock" => rcs[c].selectedRev # 0
OnlyWindow(c) ==
  /\ pc' = [pc EXCEPT ![c] = pc'[c]] /\ goal' = [goal EXCEPT ![c] = goal'[c]]
  /\ rcs' = [rcs EXCEPT ![c] = rcs'[c]] /\ db' = [db EXCEPT ![c] = db'[c]]

\* what u's step does to the disk leaves the revisions and the others' locks and
\* files alone
DiskStep(u) ==
  /\ \A v \in Users, r \in 1..Len(revisions) :
       v # u /\ <<v, r>> \in locks => <<v, r>> \in locks'
  /\ head # 0 => head' # 0
  /\ Len(revisions) <= Len(revisions')
  /\ \A r \in 1..Len(revisions) : revisions'[r] = revisions[r]
  /\ file' = file \/ file'.owner = u

DiskOK(u) == TypeDisk' /\ DiskInv' /\ DiskStep(u)

-----------------------------------------------------------------------------
(* The changes to the disk.                                                 *)

LEMMA TypeParts ==
  ASSUME TypeOK
  PROVE  /\ TypeDisk /\ edits \in Data
         /\ pc \in [Copies -> Places] /\ goal \in [Copies -> Goals]
         /\ rcs \in [Copies -> RcsObject] /\ db \in [Copies -> Objects]
         /\ \A c \in Copies : TypeWindow(c) /\ User[c] \in Users
BY DEF TypeOK, TypeDisk, TypeWindow, Users, Places, Goals, Objects

LEMMA SameDisk ==
  ASSUME TypeDisk, DiskInv, UNCHANGED disk, NEW u \in Users
  PROVE  DiskOK(u)
BY DEF TypeDisk, DiskInv, disk, DiskOK, DiskStep

\* A save writes the user's own writable file.
LEMMA SavedDisk ==
  ASSUME TypeDisk, DiskInv, NEW u \in Users, NEW data \in Data,
         file.writable, file.owner = u, file' = [file EXCEPT !.data = data],
         UNCHANGED <<revisions, head, locks>>
  PROVE  DiskOK(u)
<1>1. file' = [data |-> data, owner |-> u, writable |-> TRUE]
  BY DEF TypeDisk
<1>2. TypeDisk'
  BY <1>1 DEF TypeDisk
<1>3. DiskInv'
  BY <1>1 DEF DiskInv, TypeDisk
<1>4. DiskStep(u)
  BY <1>1 DEF DiskStep, TypeDisk
<1>5. QED
  BY <1>2, <1>3, <1>4 DEF DiskOK

LEMMA CoLockDisk ==
  ASSUME TypeDisk, DiskInv, NEW u \in Users, NEW r \in 1..Len(revisions), CoLock(u, r)
  PROVE  DiskOK(u) /\ <<u, r>> \in locks' /\ head # 0
<1>1. revisions[r] \in Data /\ revisions # << >>
  BY DEF TypeDisk
<1>2. file' = [data |-> revisions[r], owner |-> u, writable |-> TRUE]
      /\ locks' = locks \cup {<<u, r>>} /\ UNCHANGED <<revisions, head>>
  BY DEF CoLock, Working
<1>3. TypeDisk'
  BY <1>1, <1>2 DEF TypeDisk
<1>4. DiskInv'
  BY <1>1, <1>2 DEF DiskInv, TypeDisk
<1>5. DiskStep(u)
  BY <1>2 DEF DiskStep, TypeDisk
<1>6. QED
  BY <1>1, <1>2, <1>3, <1>4, <1>5 DEF DiskOK, DiskInv

LEMMA CoUnlockDisk ==
  ASSUME TypeDisk, DiskInv, head # 0, NEW u \in Users, CoUnlock(u)
  PROVE  DiskOK(u)
<1>1. PICK r \in UnlockTarget(u) :
        /\ file' = [data |-> revisions[r], owner |-> u, writable |-> FALSE]
        /\ locks' = locks \ {<<u, r>>} /\ UNCHANGED <<revisions, head>>
  BY DEF CoUnlock, Working
<1>2. r \in 1..Len(revisions) /\ revisions[r] \in Data
  BY DEF UnlockTarget, LocksOf, TypeDisk
<1>3. TypeDisk'
  BY <1>1, <1>2 DEF TypeDisk
<1>4. DiskInv'
  BY <1>1, <1>2 DEF DiskInv, TypeDisk
<1>5. DiskStep(u)
  BY <1>1 DEF DiskStep, TypeDisk
<1>6. QED
  BY <1>3, <1>4, <1>5 DEF DiskOK

LEMMA Appending ==
  ASSUME NEW S, NEW q \in Seq(S), NEW e \in S
  PROVE  /\ Len(q) \in Nat /\ Append(q, e) \in Seq(S) /\ Len(Append(q, e)) = Len(q) + 1
         /\ Append(q, e)[Len(q) + 1] = e
         /\ \A i \in 1..Len(q) : Append(q, e)[i] = q[i]
OBVIOUS

LEMMA CiDisk ==
  ASSUME TypeDisk, DiskInv, NEW u \in Users, CiUnlock(u)
  PROVE  DiskOK(u)
<1>1. PICK r \in LocksOf(u) :
        /\ locks' = locks \ {<<u, r>>}
        /\ file' = [file EXCEPT !.owner = u, !.writable = FALSE]
        /\ IF file.data = revisions[r] THEN UNCHANGED <<revisions, head>>
           ELSE /\ Len(revisions) < MaxRevisions
                /\ revisions' = Append(revisions, file.data)
                /\ head' = IF r = head THEN Len(revisions) + 1 ELSE head
  BY DEF CiUnlock
<1>2. r \in 1..Len(revisions) /\ head # 0
  BY DEF LocksOf, TypeDisk, DiskInv
<1>3. /\ Len(revisions) \in Nat /\ file.data \in Data
      /\ file' = [data |-> file.data, owner |-> u, writable |-> FALSE]
      /\ locks' \subseteq Users \X (1..Len(revisions))
  <2>1. locks' = locks \ {<<u, r>>} /\ file' = [file EXCEPT !.owner = u, !.writable = FALSE]
    BY <1>1
  <2>2. file \in [data : Data, owner : Users, writable : BOOLEAN]
    BY DEF TypeDisk
  <2>3. file' = [data |-> file.data, owner |-> u, writable |-> FALSE] /\ file.data \in Data
    BY <2>1, <2>2
  <2>4. locks \subseteq Users \X (1..Len(revisions)) /\ Len(revisions) \in Nat
    BY DEF TypeDisk
  <2>5. locks' \subseteq Users \X (1..Len(revisions))
    BY <2>1, <2>4, Zenon
  <2>6. QED
    BY <2>3, <2>4, <2>5
<1>4. CASE file.data = revisions[r]
  <2>1. UNCHANGED <<revisions, head>>
    BY <1>1, <1>4
  <2>2. TypeDisk'
    BY <1>3, <2>1 DEF TypeDisk
  <2>3. DiskInv'
    BY <1>2, <1>3, <1>4, <2>1 DEF DiskInv
  <2>4. DiskStep(u)
    BY <1>1, <1>3, <2>1 DEF DiskStep
  <2>5. QED
    BY <2>2, <2>3, <2>4 DEF DiskOK
<1>5. CASE file.data # revisions[r]
  <2>1. /\ revisions' = Append(revisions, file.data) /\ revisions' \in Seq(Data)
        /\ Len(revisions') = Len(revisions) + 1 /\ Len(revisions') <= MaxRevisions
        /\ revisions'[Len(revisions')] = file.data
        /\ \A i \in 1..Len(revisions) : revisions'[i] = revisions[i]
    BY <1>1, <1>3, <1>5, Appending, BoundAssumption DEF TypeDisk
  <2>2. head' \in 0..Len(revisions') /\ head' # 0
    BY <1>1, <1>2, <1>3, <1>5, <2>1 DEF TypeDisk
  <2>3. TypeDisk'
    <3>1. 1..Len(revisions) \subseteq 1..Len(revisions')
      BY <1>3, <2>1
    <3>2. locks' \subseteq Users \X (1..Len(revisions'))
      BY <1>3, <3>1
    <3>3. file' \in [data : Data, owner : Users, writable : BOOLEAN]
      BY <1>3
    <3>4. QED
      BY <2>1, <2>2, <3>2, <3>3 DEF TypeDisk
  <2>4. DiskInv'
    BY <1>3, <2>1, <2>2 DEF DiskInv
  <2>5. DiskStep(u)
    BY <1>1, <1>3, <2>1, <2>2 DEF DiskStep, TypeDisk
  <2>6. QED
    BY <2>3, <2>4, <2>5 DEF DiskOK
<1>6. QED
  BY <1>4, <1>5

LEMMA AddDisk ==
  ASSUME TypeDisk, DiskInv, NEW u \in Users, head = 0, NEW data \in Data,
         file' = [file EXCEPT !.data = data, !.owner = u, !.writable = FALSE],
         revisions' = <<data>>, head' = 1, UNCHANGED locks
  PROVE  DiskOK(u)
<1>1. revisions = << >> /\ locks = {}
  BY DEF TypeDisk, DiskInv
<1>2. /\ revisions' \in Seq(Data) /\ Len(revisions') = 1 /\ revisions'[1] = data
      /\ Len(revisions) = 0
  BY <1>1
<1>3. file' = [data |-> data, owner |-> u, writable |-> FALSE]
  BY DEF TypeDisk
<1>4. TypeDisk'
  <2>1. locks' \subseteq Users \X (1..Len(revisions'))
    BY <1>1
  <2>2. head' \in 0..Len(revisions') /\ Len(revisions') <= MaxRevisions
    BY <1>2, BoundAssumption
  <2>3. QED
    BY <1>2, <1>3, <2>1, <2>2 DEF TypeDisk
<1>5. DiskInv'
  BY <1>2, <1>3 DEF DiskInv
<1>6. DiskStep(u)
  BY <1>1, <1>2, <1>3 DEF DiskStep
<1>7. QED
  BY <1>4, <1>5, <1>6 DEF DiskOK

-----------------------------------------------------------------------------
(* One window's step and the beliefs of all.                                *)

\* The archive only grows, so what a window refers to stays in it.
LEMMA RcsObjectGrows ==
  ASSUME Len(revisions) \in Nat, Len(revisions') \in Nat, Len(revisions) <= Len(revisions')
  PROVE  RcsObject \subseteq RcsObject'
<1>1. 0..Len(revisions) \subseteq 0..Len(revisions')
  OBVIOUS
<1>2. QED
  BY <1>1 DEF RcsObject

LEMMA PlainIsOne ==
  ASSUME Len(revisions) \in Nat
  PROVE  Plain \in RcsObject
BY DEF RcsObject, Plain

LEMMA Combine ==
  ASSUME Inv, OneCopyPerUser, NEW c \in Copies, DiskOK(User[c]), edits' \in Data,
         OnlyWindow(c), TypeWindow(c)', Belief(c)'
  PROVE  Inv'
<1>1. TypeDisk /\ TypeDisk' /\ DiskInv' /\ DiskStep(User[c])
  BY TypeParts DEF Inv, DiskOK
<1>2. Len(revisions) \in Nat /\ Len(revisions') \in Nat /\ Len(revisions) <= Len(revisions')
  BY <1>1 DEF TypeDisk, DiskStep
<1>3. \A d \in Copies \ {c} :
        /\ pc'[d] = pc[d] /\ goal'[d] = goal[d] /\ rcs'[d] = rcs[d] /\ db'[d] = db[d]
        /\ TypeWindow(d)' /\ User[d] # User[c] /\ User[d] \in Users
  BY <1>2, TypeParts, RcsObjectGrows DEF Inv, OnlyWindow, OneCopyPerUser, TypeWindow
<1>4. TypeOK'
  BY <1>1, <1>2, <1>3, TypeParts, RcsObjectGrows
     DEF Inv, OnlyWindow, TypeOK, TypeDisk, TypeWindow, Places, Goals, Objects
<1>5. ASSUME NEW d \in Copies \ {c}
      PROVE  Belief(d)'
  <2>1. TypeWindow(d) /\ Belief(d) /\ d \in Copies
    BY TypeParts DEF Inv
  <2>2. /\ rcs[d].selectedRev \in 0..Len(revisions)
        /\ rcs[d].locked_rev \in 0..Len(revisions)
        /\ rcs[d].checked_out => rcs[d].selectedRev \in 1..Len(revisions)
    BY <1>2, <2>1 DEF TypeWindow, RcsObject
  <2>3. \A r : <<User[d], r>> \in locks => <<User[d], r>> \in locks'
    BY <1>1, <1>3 DEF TypeDisk, DiskStep
  <2>4. LockBelief(d)'
    BY <1>3, <2>1, <2>3 DEF Belief, LockBelief
  <2>5. FlagBelief(d)'
    BY <1>1, <1>3, <2>1 DEF Belief, FlagBelief, DiskStep, InPreview
  <2>6. FileBelief(d)'
    BY <1>1, <1>3, <2>1, <2>2 DEF Belief, FileBelief, DiskStep
  <2>7. QED
    BY <2>4, <2>5, <2>6 DEF Belief
<1>6. QED
  BY <1>1, <1>4, <1>5 DEF Inv

-----------------------------------------------------------------------------
(* The steps.                                                               *)

\* A window that is closed believes nothing.
LEMMA LeaveOK ==
  ASSUME Inv, OneCopyPerUser, NEW c \in Copies, DiskOK(User[c]), UNCHANGED edits,
         NEW where \in {"none", "reload", "hollow", "gone"}, Leave(c, where)
  PROVE  Inv'
<1>1. /\ pc'[c] = where /\ goal'[c] = "none" /\ rcs'[c] = Plain /\ db'[c] = NoObjects
      /\ OnlyWindow(c)
  BY TypeParts DEF Inv, Leave, OnlyWindow
<1>2. Len(revisions') \in Nat /\ 0 \in Data /\ NoUser # User[c]
  BY BoundAssumption, UserAssumption, TypeParts DEF DiskOK, TypeDisk, Data, Inv
<1>3. TypeWindow(c)'
  BY <1>1, <1>2 DEF TypeWindow, Plain, RcsObject, NoObjects, Loaded, Objects, Places, Goals
<1>4. Belief(c)'
  BY <1>1, <1>2 DEF Belief, LockBelief, FlagBelief, FileBelief, InPreview, Plain
<1>5. QED
  BY <1>1, <1>3, <1>4, Combine, TypeParts DEF Inv

\* What is saved is what the window then has of the file.
LEMMA Saved ==
  ASSUME Inv, NEW c \in Copies, file' = FileSaved(c), UNCHANGED <<revisions, head, locks>>
  PROVE  /\ DiskOK(User[c]) /\ DbSaved(c) \in Objects
         /\ (file' = file /\ DbSaved(c) = db[c]) \/ file'.data = DbSaved(c).onDisk
<1>1. TypeDisk /\ DiskInv /\ User[c] \in Users /\ db[c] \in Objects
  BY TypeParts DEF Inv
<1>2. CASE CanSave(c)
  <2>1. /\ file' = [file EXCEPT !.data = db[c].data] /\ file.writable /\ file.owner = User[c]
        /\ DbSaved(c) = [db[c] EXCEPT !.dirty = FALSE, !.onDisk = db[c].data]
    BY <1>2 DEF FileSaved, CanSave, DbSaved
  <2>2. /\ db[c].data \in Data /\ DbSaved(c) \in Objects /\ DbSaved(c).onDisk = db[c].data
        /\ file'.data = db[c].data
    BY <1>1, <2>1 DEF Objects, TypeDisk
  <2>3. QED
    BY <1>1, <2>1, <2>2, SavedDisk
<1>3. CASE ~CanSave(c)
  <2>1. file' = file /\ DbSaved(c) = db[c]
    BY <1>3 DEF FileSaved, DbSaved
  <2>2. QED
    BY <1>1, <2>1, SameDisk DEF disk
<1>4. QED
  BY <1>2, <1>3

LEMMA AnswerTypes ==
  ASSUME Inv, NEW c \in Copies, NEW a \in Answers(c)
  PROVE  /\ a.db \in Objects /\ a.file.data \in Data
         /\ a.file \in [data : Data, owner : Users, writable : BOOLEAN]
<1>1. /\ db[c] \in Objects /\ db[c].data \in Data
      /\ file \in [data : Data, owner : Users, writable : BOOLEAN]
  BY TypeParts DEF Inv, TypeDisk, Objects
<1>2. CASE a = [file |-> file, db |-> [db[c] EXCEPT !.dirty = FALSE]]
  BY <1>1, <1>2 DEF Objects
<1>3. CASE a = [file |-> FileSaved(c), db |-> DbSaved(c)]
  <2>1. FileSaved(c) \in [data : Data, owner : Users, writable : BOOLEAN]
    BY <1>1 DEF FileSaved
  <2>2. DbSaved(c) \in Objects
    BY <1>1 DEF DbSaved, Objects
  <2>3. QED
    BY <1>3, <2>1, <2>2
<1>4. QED
  BY <1>2, <1>3 DEF Answers

LEMMA Answered ==
  ASSUME Inv, NEW c \in Copies, NEW a \in Answers(c), file' = a.file,
         UNCHANGED <<revisions, head, locks>>
  PROVE  /\ DiskOK(User[c]) /\ a.db \in Objects
         /\ (file' = file /\ a.db.onDisk = db[c].onDisk) \/ file'.data = a.db.onDisk
<1>1. TypeDisk /\ DiskInv /\ User[c] \in Users /\ db[c] \in Objects
  BY TypeParts DEF Inv
<1>2. CASE a = [file |-> file, db |-> [db[c] EXCEPT !.dirty = FALSE]]
  BY <1>1, <1>2, SameDisk DEF disk, Objects
<1>3. CASE a = [file |-> FileSaved(c), db |-> DbSaved(c)]
  BY <1>3, Saved
<1>4. QED
  BY <1>2, <1>3 DEF Answers

\* A window that goes on with the same RCS object, its objects saved or edited.
LEMMA StaysOK ==
  ASSUME Inv, OneCopyPerUser, NEW c \in Copies, DiskOK(User[c]), edits' \in Data,
         UNCHANGED <<revisions, head, locks, rcs>>, pc[c] \in {"open", "log"},
         NEW p \in {"open", "log", "ci"}, NEW g \in Goals, NEW d \in Objects,
         pc' = [pc EXCEPT ![c] = p], goal' = [goal EXCEPT ![c] = g],
         db' = [db EXCEPT ![c] = d], p = "open" \/ rcs[c].checked_out,
         (file' = file /\ d.onDisk = db[c].onDisk) \/ file'.data = d.onDisk
  PROVE  Inv'
<1>1. TypeWindow(c) /\ Belief(c)
  BY TypeParts DEF Inv
<1>2. /\ pc'[c] = p /\ goal'[c] = g /\ rcs'[c] = rcs[c] /\ db'[c] = d
      /\ OnlyWindow(c)
  BY TypeParts DEF Inv, OnlyWindow
<1>3. TypeWindow(c)'
  BY <1>1, <1>2 DEF TypeWindow, RcsObject, Places
<1>4. Belief(c)'
  BY <1>1, <1>2 DEF Belief, LockBelief, FlagBelief, FileBelief, InPreview
<1>5. QED
  BY <1>2, <1>3, <1>4, Combine

\* The steps that end in closing the window or the program.
LEMMA LeavingSteps ==
  ASSUME Inv, OneCopyPerUser, NEW c \in Copies,
         \/ PreviewCancel(c) \/ CloseUnlocked(c) \/ FileDiscard(c) \/ FileSaveAs(c)
         \/ Hollow(c) \/ Crash(c) \/ Restart(c)
  PROVE  Inv'
<1>1. TypeDisk /\ DiskInv /\ User[c] \in Users /\ TypeWindow(c) /\ Belief(c)
  BY TypeParts DEF Inv
<1>2. UNCHANGED disk => DiskOK(User[c])
  BY <1>1, SameDisk
<1>3. CASE PreviewCancel(c)
  <2>1. PICK where \in {"none", "hollow"} : Leave(c, where)
    BY <1>3 DEF PreviewCancel, NotLoaded
  <2>2. QED
    BY <1>2, <1>3, <2>1, LeaveOK DEF PreviewCancel
<1>4. CASE CloseUnlocked(c)
  <2>1. PICK a \in Answers(c) : file' = a.file /\ Closed(c, a.db.dirty)
    BY <1>4 DEF CloseUnlocked
  <2>2. PICK where \in {"none", "gone"} : Leave(c, where)
    BY <2>1 DEF Closed
  <2>3. DiskOK(User[c])
    BY <1>4, <2>1, Answered DEF CloseUnlocked
  <2>4. QED
    BY <1>4, <2>2, <2>3, LeaveOK DEF CloseUnlocked
<1>5. CASE FileDiscard(c)
  <2>1. head # 0
    BY <1>1, <1>5 DEF FileDiscard, Belief, LockBelief, TypeDisk, DiskInv
  <2>2. DiskOK(User[c])
    BY <1>1, <1>2, <1>5, <2>1, CoUnlockDisk DEF FileDiscard
  <2>3. PICK where \in {"reload", "gone"} : Leave(c, where)
    BY <1>5 DEF FileDiscard
  <2>4. QED
    BY <1>5, <2>2, <2>3, LeaveOK DEF FileDiscard
<1>6. CASE FileSaveAs(c)
  <2>1. IsInRCS(c) => head # 0
    BY <1>1 DEF IsInRCS, TypeWindow, RcsObject, TypeDisk, DiskInv
  <2>2. DiskOK(User[c])
    BY <1>1, <1>2, <1>6, <2>1, CoUnlockDisk DEF FileSaveAs
  <2>3. PICK where \in {"none", "gone"} : Leave(c, where)
    BY <1>6 DEF FileSaveAs
  <2>4. QED
    BY <1>6, <2>2, <2>3, LeaveOK DEF FileSaveAs
<1>7. CASE Hollow(c) \/ Crash(c) \/ Restart(c)
  <2>1. PICK where \in {"none", "gone"} : Leave(c, where)
    BY <1>7 DEF Hollow, Crash, Restart
  <2>2. QED
    BY <1>2, <1>7, <2>1, LeaveOK DEF Hollow, Crash, Restart
<1>8. QED
  BY <1>3, <1>4, <1>5, <1>6, <1>7

\* The steps that edit and save, up to the check-in.
LEMMA StayingSteps ==
  ASSUME Inv, OneCopyPerUser, NEW c \in Copies,
         \/ Edit(c) \/ FileSave(c) \/ BeginClose(c) \/ FileCommit(c) \/ LogCancel(c)
  PROVE  Inv'
<1>1. TypeDisk /\ DiskInv /\ User[c] \in Users /\ TypeWindow(c) /\ Belief(c) /\ edits \in Data
  BY TypeParts DEF Inv
<1>2. UNCHANGED disk => DiskOK(User[c])
  BY <1>1, SameDisk
<1>3. /\ pc \in [Copies -> Places] /\ goal \in [Copies -> Goals]
      /\ pc = [pc EXCEPT ![c] = pc[c]] /\ goal = [goal EXCEPT ![c] = goal[c]]
      /\ db = [db EXCEPT ![c] = db[c]]
      /\ goal[c] \in Goals /\ db[c] \in Objects
  BY TypeParts DEF Inv
<1>4. CASE Edit(c)
  <2>1. edits + 1 \in Data
    BY <1>1, <1>4, BoundAssumption DEF Edit, Data
  <2>2. PICK d \in Objects : db' = [db EXCEPT ![c] = d] /\ d.onDisk = db[c].onDisk
    <3>1. db' = [db EXCEPT ![c] = [db[c] EXCEPT !.data = edits + 1, !.dirty = TRUE]]
      BY <1>3, <1>4 DEF Edit
    <3>2. PICK d : d = [db[c] EXCEPT !.data = edits + 1, !.dirty = TRUE]
      OBVIOUS
    <3>3. d \in Objects /\ d.onDisk = db[c].onDisk
      BY <1>3, <2>1, <3>2 DEF Objects
    <3>4. QED
      BY <3>1, <3>2, <3>3
  <2>3. /\ pc' = [pc EXCEPT ![c] = "open"] /\ pc[c] = "open"
        /\ goal' = [goal EXCEPT ![c] = goal[c]] /\ UNCHANGED <<disk, rcs>> /\ edits' \in Data
    BY <1>3, <1>4, <2>1 DEF Edit
  <2>4. UNCHANGED <<revisions, head, locks, file>>
    BY <2>3 DEF disk
  <2>5. QED
    BY <1>2, <1>3, <2>2, <2>3, <2>4, StaysOK
<1>5. CASE FileSave(c)
  <2>1. DiskOK(User[c]) /\ DbSaved(c) \in Objects
        /\ ((file' = file /\ DbSaved(c) = db[c]) \/ file'.data = DbSaved(c).onDisk)
    BY <1>5, Saved DEF FileSave
  <2>2. /\ UNCHANGED <<revisions, head, locks, rcs>> /\ edits' \in Data
        /\ pc' = [pc EXCEPT ![c] = "open"] /\ pc[c] = "open"
        /\ goal' = [goal EXCEPT ![c] = goal[c]] /\ goal[c] \in Goals
        /\ db' = [db EXCEPT ![c] = DbSaved(c)] /\ file' = FileSaved(c)
    BY <1>1, <1>3, <1>5 DEF FileSave
  <2>3. (file' = file /\ DbSaved(c).onDisk = db[c].onDisk) \/ file'.data = DbSaved(c).onDisk
    BY <2>1
  <2>4. QED
    BY <1>1, <2>1, <2>2, <2>3, StaysOK
<1>6. CASE BeginClose(c)
  <2>1. PICK a \in Answers(c) : file' = a.file /\ db' = [db EXCEPT ![c] = a.db]
    BY <1>6 DEF BeginClose
  <2>2. PICK for \in {"close", "quit"} : BeginCheckin(c, for)
    BY <1>6 DEF BeginClose
  <2>3. PICK p \in {"log", "ci"} : pc' = [pc EXCEPT ![c] = p]
    BY <2>2 DEF BeginCheckin
  <2>4. /\ DiskOK(User[c]) /\ a.db \in Objects
        /\ (file' = file /\ a.db.onDisk = db[c].onDisk) \/ file'.data = a.db.onDisk
    BY <2>1, <2>2, Answered DEF BeginCheckin
  <2>5. QED
    BY <1>1, <1>6, <2>1, <2>2, <2>3, <2>4, StaysOK
       DEF BeginClose, BeginCheckin, NeedsCheckin, Goals
<1>7. CASE FileCommit(c)
  <2>1. PICK p \in {"log", "ci"} : pc' = [pc EXCEPT ![c] = p]
    BY <1>7 DEF FileCommit, BeginCheckin
  <2>2. DiskOK(User[c]) /\ DbSaved(c) \in Objects
        /\ ((file' = file /\ DbSaved(c) = db[c]) \/ file'.data = DbSaved(c).onDisk)
    BY <1>7, Saved DEF FileCommit, BeginCheckin
  <2>3. QED
    BY <1>1, <1>7, <2>1, <2>2, StaysOK DEF FileCommit, BeginCheckin, Goals
<1>8. CASE LogCancel(c)
  <2>1. CASE goal[c] = "quit"
    BY <1>2, <1>8, <2>1, LeaveOK DEF LogCancel
  <2>2. CASE goal[c] # "quit"
    BY <1>1, <1>2, <1>3, <1>8, <2>2, StaysOK DEF LogCancel, disk, Goals
  <2>3. QED
    BY <2>1, <2>2
<1>9. QED
  BY <1>4, <1>5, <1>6, <1>7, <1>8

\* The steps that open the file.
LEMMA OpeningSteps ==
  ASSUME Inv, OneCopyPerUser, NEW c \in Copies,
         FileOpen(c) \/ OpenReadOnly(c) \/ OpenLocked(c) \/ OpenCheckout(c)
  PROVE  Inv'
<1>1. TypeDisk /\ DiskInv /\ User[c] \in Users /\ TypeWindow(c) /\ Belief(c) /\ edits \in Data
  BY TypeParts DEF Inv
<1>2. UNCHANGED disk => DiskOK(User[c]) /\ RcsObject' = RcsObject
  BY <1>1, SameDisk DEF disk, RcsObject
<1>3. /\ pc \in [Copies -> Places] /\ goal \in [Copies -> Goals]
      /\ rcs \in [Copies -> RcsObject] /\ db \in [Copies -> Objects]
  BY TypeParts DEF Inv
<1>4. /\ 0 \in Data /\ NoUser # User[c] /\ file.data \in Data /\ Len(revisions) \in Nat
      /\ \A r \in 1..Len(revisions) : revisions[r] \in Data
  BY <1>1, BoundAssumption, UserAssumption DEF TypeDisk, Data
<1>5. /\ \A d \in Data, b \in BOOLEAN : Loaded(d, b) \in Objects /\ Loaded(d, b).onDisk = d
      /\ Plain \in RcsObject /\ rcs[c] \in RcsObject
  BY <1>1, <1>4, PlainIsOne DEF Loaded, Objects, TypeWindow
<1>6. CASE FileOpen(c)
  <2>1. DiskOK(User[c]) /\ RcsObject' = RcsObject /\ edits' \in Data
        /\ goal'[c] = goal[c] /\ OnlyWindow(c)
    BY <1>1, <1>2, <1>3, <1>6 DEF FileOpen, Goto, OnlyWindow
  <2>2. CASE head = 0
    <3>1. pc'[c] = "open" /\ rcs'[c] = Plain /\ db'[c] = Loaded(file.data, FALSE)
      BY <1>3, <1>6, <2>2 DEF FileOpen, Goto
    <3>2. TypeWindow(c)'
      <4>1. db'[c] \in Objects /\ rcs'[c] \in RcsObject'
        BY <1>4, <1>5, <2>1, <3>1
      <4>2. ~rcs'[c].checked_out
        BY <3>1 DEF Plain
      <4>3. QED
        BY <1>1, <2>1, <3>1, <4>1, <4>2 DEF TypeWindow, Places
    <3>3. Belief(c)'
      BY <1>4, <3>1 DEF Belief, LockBelief, FlagBelief, FileBelief, InPreview, Plain
    <3>4. QED
      BY <2>1, <3>2, <3>3, Combine
  <2>3. CASE head # 0
    <3>1. PICK seen \in ReadLog : rcs' = [rcs EXCEPT ![c] = seen]
      BY <1>6, <2>3 DEF FileOpen
    <3>2. /\ pc'[c] \in {"preview", "repreview"} /\ rcs'[c] = seen /\ db'[c] = db[c]
          /\ UNCHANGED disk
      BY <1>3, <1>6, <2>3, <3>1 DEF FileOpen, Goto
    <3>3. /\ seen \in RcsObject /\ ~seen.checked_out
          /\ ~seen.locked => seen.locked_by = NoUser
          /\ seen.locked => <<seen.locked_by, seen.locked_rev>> \in locks
      <4>1. PICK base : base = [Plain EXCEPT !.revisions = Len(revisions), !.head = head,
                                             !.selectedRev = head]
        OBVIOUS
      <4>2. /\ base \in RcsObject /\ ~base.checked_out /\ ~base.locked
            /\ base.locked_by = NoUser
        <5>1. Len(revisions) \in 0..Len(revisions) /\ head \in 0..Len(revisions)
          BY <1>1, <1>4 DEF TypeDisk
        <5>2. base \in RcsObject
          BY <1>5, <4>1, <5>1 DEF RcsObject
        <5>3. QED
          BY <4>1, <5>2 DEF Plain
      <4>3. \/ seen = base
            \/ \E l \in locks : seen = [base EXCEPT !.locked = TRUE, !.locked_by = l[1],
                                                    !.locked_rev = l[2]]
        BY <3>1, <4>1 DEF ReadLog
      <4>4. ASSUME NEW l \in locks,
                   seen = [base EXCEPT !.locked = TRUE, !.locked_by = l[1],
                                       !.locked_rev = l[2]]
            PROVE  seen \in RcsObject /\ ~seen.checked_out /\ seen.locked
                   /\ <<seen.locked_by, seen.locked_rev>> \in locks
        <5>1. l[1] \in Users /\ l[2] \in 0..Len(revisions) /\ l = <<l[1], l[2]>>
          BY <1>1, <1>4 DEF TypeDisk
        <5>2. QED
          BY <4>2, <4>4, <5>1 DEF RcsObject
      <4>5. QED
        BY <4>2, <4>3, <4>4
    <3>4. TypeWindow(c)'
      BY <1>1, <2>1, <3>2, <3>3 DEF TypeWindow, Places
    <3>5. Belief(c)'
      BY <2>3, <3>2, <3>3 DEF Belief, LockBelief, FlagBelief, FileBelief, InPreview, disk
    <3>6. QED
      BY <2>1, <3>4, <3>5, Combine
  <2>4. QED
    BY <2>2, <2>3
<1>7. CASE OpenReadOnly(c)
  <2>1. /\ DiskOK(User[c]) /\ RcsObject' = RcsObject /\ edits' \in Data /\ InPreview(c)
        /\ pc'[c] = "open" /\ goal'[c] = goal[c] /\ UNCHANGED disk
    BY <1>1, <1>2, <1>3, <1>7 DEF OpenReadOnly, Goto
  <2>2. PICK r \in 1..rcs[c].revisions :
          \/ /\ rcs' = [rcs EXCEPT ![c].ro = TRUE]
             /\ db' = [db EXCEPT ![c] = Loaded(file.data, TRUE)]
          \/ /\ rcs' = [rcs EXCEPT ![c].ro = TRUE, ![c].temp = TRUE, ![c].locked = FALSE,
                                   ![c].selectedRev = r]
             /\ db' = [db EXCEPT ![c] = Loaded(revisions[r], TRUE)]
    BY <1>7 DEF OpenReadOnly
  <2>3. r \in 1..Len(revisions) /\ r \in 0..Len(revisions)
    BY <1>1, <1>4 DEF TypeWindow, RcsObject
  <2>4. db'[c] \in Objects
    <3>1. \/ db'[c] = Loaded(file.data, TRUE)
          \/ db'[c] = Loaded(revisions[r], TRUE)
      BY <1>3, <2>2
    <3>2. QED
      BY <1>4, <1>5, <2>3, <3>1
  <2>5. /\ rcs'[c] \in RcsObject /\ rcs'[c].checked_out = rcs[c].checked_out
        /\ rcs'[c].locked => rcs[c].locked
        /\ rcs'[c].locked_by = rcs[c].locked_by /\ rcs'[c].locked_rev = rcs[c].locked_rev
        /\ rcs'[c].ro
    <3>1. \/ rcs'[c] = [rcs[c] EXCEPT !.ro = TRUE]
          \/ rcs'[c] = [rcs[c] EXCEPT !.ro = TRUE, !.temp = TRUE, !.locked = FALSE,
                                      !.selectedRev = r]
      BY <1>3, <2>2
    <3>2. CASE rcs'[c] = [rcs[c] EXCEPT !.ro = TRUE]
      BY <1>5, <3>2 DEF RcsObject
    <3>3. CASE rcs'[c] = [rcs[c] EXCEPT !.ro = TRUE, !.temp = TRUE, !.locked = FALSE,
                                        !.selectedRev = r]
      BY <1>5, <2>3, <3>3 DEF RcsObject
    <3>4. QED
      BY <3>1, <3>2, <3>3
  <2>6. OnlyWindow(c)
    BY <1>3, <1>7, <2>2 DEF OpenReadOnly, Goto, OnlyWindow
  <2>7. TypeWindow(c)' /\ Belief(c)'
    BY <1>1, <2>1, <2>4, <2>5
       DEF TypeWindow, Places, Belief, LockBelief, FlagBelief, FileBelief, InPreview, disk
  <2>8. QED
    BY <2>1, <2>6, <2>7, Combine
<1>8. CASE OpenLocked(c)
  <2>1. /\ DiskOK(User[c]) /\ RcsObject' = RcsObject /\ edits' \in Data /\ InPreview(c)
        /\ pc'[c] = "open" /\ goal'[c] = goal[c] /\ UNCHANGED disk /\ rcs[c].locked
    BY <1>1, <1>2, <1>3, <1>8 DEF OpenLocked, Goto
  <2>2. CASE \E r \in 1..rcs[c].revisions :
               /\ rcs' = [rcs EXCEPT ![c].ro = TRUE, ![c].selectedRev = r]
               /\ db' = [db EXCEPT ![c] = Loaded(file.data, TRUE)]
    <3>1. PICK r \in 1..rcs[c].revisions :
            /\ rcs' = [rcs EXCEPT ![c].ro = TRUE, ![c].selectedRev = r]
            /\ db' = [db EXCEPT ![c] = Loaded(file.data, TRUE)]
      BY <2>2
    <3>2. r \in 0..Len(revisions)
      BY <1>1, <1>4 DEF TypeWindow, RcsObject
    <3>3. /\ rcs'[c] \in RcsObject /\ rcs'[c].checked_out = rcs[c].checked_out
          /\ rcs'[c].locked = rcs[c].locked /\ rcs'[c].locked_by = rcs[c].locked_by
          /\ rcs'[c].locked_rev = rcs[c].locked_rev /\ rcs'[c].ro
          /\ db'[c] \in Objects
      BY <1>3, <1>4, <1>5, <3>1, <3>2 DEF RcsObject
    <3>4. OnlyWindow(c)
      BY <1>3, <1>8, <3>1 DEF OpenLocked, Goto, OnlyWindow
    <3>5. TypeWindow(c)' /\ Belief(c)'
      BY <1>1, <2>1, <3>3
         DEF TypeWindow, Places, Belief, LockBelief, FlagBelief, FileBelief, InPreview, disk
    <3>6. QED
      BY <2>1, <3>4, <3>5, Combine
  <2>3. CASE ContinueEditing(c) /\ db' = [db EXCEPT ![c] = Loaded(file.data, FALSE)]
    <3>1. /\ rcs' = [rcs EXCEPT ![c].checked_out = TRUE, ![c].selectedRev = rcs[c].locked_rev]
          /\ rcs[c].locked /\ rcs[c].locked_by = User[c]
      BY <2>3 DEF ContinueEditing
    <3>2. /\ rcs'[c] \in RcsObject /\ rcs'[c].checked_out
          /\ rcs'[c].selectedRev = rcs[c].locked_rev
          /\ rcs'[c].locked = rcs[c].locked /\ rcs'[c].locked_by = rcs[c].locked_by
          /\ rcs'[c].locked_rev = rcs[c].locked_rev
      BY <1>3, <3>1 DEF RcsObject
    <3>3. db'[c] \in Objects /\ db'[c].onDisk = file.data /\ OnlyWindow(c)
      BY <1>3, <1>4, <1>5, <1>8, <2>3, <3>1 DEF OpenLocked, Goto, OnlyWindow
    <3>4. <<User[c], rcs[c].locked_rev>> \in locks /\ rcs[c].locked_rev # 0
      BY <1>1, <1>4, <3>1 DEF Belief, LockBelief, TypeDisk
    <3>5. TypeWindow(c)' /\ Belief(c)'
      <4>1. UNCHANGED <<revisions, head, locks, file>>
        BY <2>1 DEF disk
      <4>2. TypeWindow(c)'
        BY <1>1, <2>1, <3>2, <3>3, <3>4 DEF TypeWindow, Places
      <4>3. LockBelief(c)' /\ FileBelief(c)'
        BY <2>1, <3>2, <3>3, <3>4, <4>1 DEF LockBelief, FileBelief
      <4>4. FlagBelief(c)'
        BY <1>1, <2>1, <3>1, <3>2, <4>1 DEF Belief, FlagBelief, InPreview
      <4>5. QED
        BY <4>2, <4>3, <4>4 DEF Belief
    <3>6. QED
      BY <2>1, <3>3, <3>5, Combine
  <2>4. QED
    BY <1>8, <2>2, <2>3 DEF OpenLocked
<1>9. CASE OpenCheckout(c)
  <2>1. PICK r \in 1..rcs[c].revisions :
          \/ /\ CoLock(User[c], r)
             /\ rcs' = [rcs EXCEPT ![c].checked_out = TRUE, ![c].locked = TRUE,
                                   ![c].selectedRev = r]
             /\ db' = [db EXCEPT ![c] = Loaded(revisions[r], FALSE)]
             /\ Goto(c, "open")
          \/ NotLoaded(c) /\ UNCHANGED disk
    BY <1>9 DEF OpenCheckout
  <2>2. r \in 1..Len(revisions) /\ r \in 0..Len(revisions)
    BY <1>1, <1>4 DEF TypeWindow, RcsObject
  <2>3. CASE NotLoaded(c) /\ UNCHANGED disk
    <3>1. PICK where \in {"none", "hollow"} : Leave(c, where)
      BY <2>3 DEF NotLoaded
    <3>2. QED
      BY <1>2, <1>9, <2>3, <3>1, LeaveOK DEF OpenCheckout
  <2>4. CASE /\ CoLock(User[c], r)
             /\ rcs' = [rcs EXCEPT ![c].checked_out = TRUE, ![c].locked = TRUE,
                                   ![c].selectedRev = r]
             /\ db' = [db EXCEPT ![c] = Loaded(revisions[r], FALSE)]
             /\ Goto(c, "open")
    <3>1. /\ DiskOK(User[c]) /\ <<User[c], r>> \in locks' /\ head # 0
          /\ UNCHANGED <<revisions, head>> /\ RcsObject' = RcsObject
      BY <1>1, <2>2, <2>4, CoLockDisk DEF CoLock, RcsObject
    <3>2. file'.data = revisions[r]
      BY <2>4 DEF CoLock, Working
    <3>3. /\ rcs'[c] \in RcsObject /\ rcs'[c].checked_out /\ rcs'[c].locked
          /\ rcs'[c].selectedRev = r /\ rcs'[c].locked_by = rcs[c].locked_by
      <4>1. rcs'[c] = [rcs[c] EXCEPT !.checked_out = TRUE, !.locked = TRUE, !.selectedRev = r]
        BY <1>3, <2>4
      <4>2. QED
        BY <1>5, <2>2, <4>1 DEF RcsObject
    <3>4. /\ db'[c] \in Objects /\ pc'[c] = "open" /\ goal'[c] = goal[c] /\ OnlyWindow(c)
          /\ edits' \in Data /\ InPreview(c) /\ ~rcs[c].locked
          /\ db'[c].onDisk = revisions[r]
      BY <1>1, <1>3, <1>4, <1>5, <1>9, <2>2, <2>4 DEF Goto, OnlyWindow, OpenCheckout
    <3>5. rcs[c].locked_by = NoUser
      BY <1>1, <3>4 DEF Belief, FlagBelief
    <3>6. TypeWindow(c)'
      BY <1>1, <1>4, <2>2, <3>1, <3>3, <3>4 DEF TypeWindow, Places
    <3>7. Belief(c)'
      BY <1>4, <3>1, <3>2, <3>3, <3>4, <3>5
         DEF Belief, LockBelief, FlagBelief, FileBelief, InPreview
    <3>8. QED
      BY <3>1, <3>4, <3>6, <3>7, Combine
  <2>5. QED
    BY <2>1, <2>3, <2>4
<1>10. QED
  BY <1>6, <1>7, <1>8, <1>9

\* The check-in and what follows it, and adding the file to RCS.
LEMMA CheckinSteps ==
  ASSUME Inv, OneCopyPerUser, NEW c \in Copies,
         Checkin(c) \/ CoAgain(c) \/ CoStillLocked(c) \/ CoReadOnly(c) \/ FileAddToRCS(c)
  PROVE  Inv'
<1>1. TypeDisk /\ DiskInv /\ User[c] \in Users /\ TypeWindow(c) /\ Belief(c) /\ edits \in Data
  BY TypeParts DEF Inv
<1>2. UNCHANGED disk => DiskOK(User[c]) /\ RcsObject' = RcsObject
  BY <1>1, SameDisk DEF disk, RcsObject
<1>3. /\ pc \in [Copies -> Places] /\ goal \in [Copies -> Goals]
      /\ rcs \in [Copies -> RcsObject] /\ db \in [Copies -> Objects]
      /\ rcs[c] \in RcsObject /\ db[c] \in Objects /\ Len(revisions) \in Nat
  BY <1>1, TypeParts DEF Inv, TypeDisk
<1>4. DiskOK(User[c]) => Len(revisions') \in Nat /\ RcsObject \subseteq RcsObject'
  BY <1>1, <1>3, RcsObjectGrows DEF DiskOK, TypeDisk, DiskStep
<1>5. CASE Checkin(c)
  <2>1. PICK ok \in BOOLEAN :
          /\ IF ok THEN CiUnlock(User[c]) ELSE UNCHANGED disk
          /\ IF goal[c] = "commit"
             THEN /\ Goto(c, "relock") /\ UNCHANGED db
                  /\ rcs' = IF ok
                            THEN [rcs EXCEPT ![c].checked_out = FALSE, ![c].locked = FALSE]
                            ELSE rcs
             ELSE Closed(c, db[c].dirty)
    BY <1>5 DEF Checkin
  <2>2. DiskOK(User[c]) /\ edits' \in Data /\ pc[c] \in {"log", "ci"} /\ rcs[c].checked_out
    BY <1>1, <1>2, <1>5, <2>1, CiDisk DEF Checkin, Belief, FlagBelief
  <2>3. CASE goal[c] # "commit"
    <3>1. PICK where \in {"none", "gone"} : Leave(c, where)
      BY <2>1, <2>3 DEF Closed
    <3>2. QED
      BY <1>5, <2>2, <3>1, LeaveOK DEF Checkin
  <2>4. CASE goal[c] = "commit"
    <3>1. /\ pc'[c] = "relock" /\ goal'[c] = goal[c] /\ db'[c] = db[c]
      BY <1>3, <2>1, <2>4 DEF Goto
    <3>2. OnlyWindow(c)
      BY <1>3, <2>1, <2>4 DEF Goto, OnlyWindow
    <3>3. CASE ok
      <4>1. rcs'[c] = [rcs[c] EXCEPT !.checked_out = FALSE, !.locked = FALSE]
        BY <1>3, <2>1, <2>4, <3>3
      <4>2. /\ rcs'[c] \in RcsObject /\ ~rcs'[c].checked_out /\ ~rcs'[c].locked
            /\ rcs'[c].selectedRev = rcs[c].selectedRev /\ rcs'[c].ro = rcs[c].ro
            /\ rcs'[c].locked_by = rcs[c].locked_by /\ rcs'[c].locked_rev = rcs[c].locked_rev
        BY <1>3, <4>1 DEF RcsObject
      <4>3. TypeWindow(c)'
        BY <1>1, <1>4, <2>2, <3>1, <4>2 DEF TypeWindow, Places
      <4>4. Belief(c)'
        BY <1>1, <2>2, <3>1, <4>2
           DEF Belief, LockBelief, FlagBelief, FileBelief, InPreview, DiskOK, DiskStep
      <4>5. QED
        BY <2>2, <3>2, <4>3, <4>4, Combine
    <3>4. CASE ~ok
      <4>1. UNCHANGED disk /\ rcs'[c] = rcs[c]
        BY <2>1, <2>4, <3>4
      <4>2. TypeWindow(c)'
        BY <1>1, <1>4, <2>2, <3>1, <4>1 DEF TypeWindow, Places
      <4>3. Belief(c)'
        BY <1>1, <2>2, <3>1, <4>1
           DEF Belief, LockBelief, FlagBelief, FileBelief, InPreview, disk
      <4>4. QED
        BY <2>2, <3>2, <4>2, <4>3, Combine
    <3>5. QED
      BY <3>3, <3>4
  <2>5. QED
    BY <2>3, <2>4
<1>6. CASE CoAgain(c) \/ CoStillLocked(c) \/ CoReadOnly(c)
  <2>1. pc[c] = "relock" /\ edits' \in Data /\ rcs[c].selectedRev \in 1..Len(revisions)
    <3>1. pc[c] = "relock" /\ UNCHANGED edits
      BY <1>6 DEF CoAgain, CoStillLocked, CoReadOnly
    <3>2. rcs[c].selectedRev \in 0..Len(revisions) /\ rcs[c].selectedRev # 0
      BY <1>1, <3>1 DEF TypeWindow, RcsObject
    <3>3. QED
      BY <1>1, <1>3, <3>1, <3>2
  <2>2. ASSUME Reopened(c)
        PROVE  pc'[c] = "open" /\ goal'[c] = "none"
               /\ pc' = [pc EXCEPT ![c] = pc'[c]] /\ goal' = [goal EXCEPT ![c] = goal'[c]]
    BY <1>3, <2>2 DEF Reopened
  <2>3. ASSUME Reopened(c), UNCHANGED <<disk, rcs, db>>
        PROVE  Inv'
    <3>1. TypeWindow(c)' /\ OnlyWindow(c)
      BY <1>1, <1>2, <1>3, <2>1, <2>2, <2>3 DEF TypeWindow, OnlyWindow, Places, Goals
    <3>2. Belief(c)'
      BY <1>1, <2>1, <2>2, <2>3
         DEF Belief, LockBelief, FlagBelief, FileBelief, InPreview, disk
    <3>3. QED
      BY <1>2, <2>1, <2>3, <3>1, <3>2, Combine
  <2>4. ASSUME CoThrows(c)
        PROVE  Inv'
    <3>1. UNCHANGED edits
      BY <1>6 DEF CoAgain, CoStillLocked, CoReadOnly
    <3>2. QED
      BY <1>2, <2>3, <2>4, <3>1, LeaveOK DEF CoThrows
  <2>5. CASE /\ CoLock(User[c], rcs[c].selectedRev) /\ Reopened(c) /\ UNCHANGED db
             /\ rcs' = [rcs EXCEPT ![c].checked_out = TRUE, ![c].locked = TRUE]
             /\ ~rcs[c].ro
    <3>1. /\ DiskOK(User[c]) /\ <<User[c], rcs[c].selectedRev>> \in locks' /\ head # 0
          /\ UNCHANGED <<revisions, head>>
      BY <1>1, <2>1, <2>5, CoLockDisk DEF CoLock
    <3>2. file'.data = revisions[rcs[c].selectedRev]
      BY <2>5 DEF CoLock, Working
    <3>3. rcs'[c] = [rcs[c] EXCEPT !.checked_out = TRUE, !.locked = TRUE]
      BY <1>3, <2>5
    <3>4. /\ rcs'[c] \in RcsObject /\ rcs'[c].selectedRev = rcs[c].selectedRev
          /\ rcs'[c].locked_by = rcs[c].locked_by /\ rcs'[c].locked_rev = rcs[c].locked_rev
      BY <1>3, <3>3 DEF RcsObject
    <3>5. OnlyWindow(c) /\ db'[c] = db[c]
      BY <1>3, <2>2, <2>5 DEF OnlyWindow
    <3>6. TypeWindow(c)'
      BY <1>1, <1>3, <1>4, <2>1, <2>2, <2>5, <3>1, <3>4, <3>5 DEF TypeWindow, Places, Goals
    <3>7. LockBelief(c)' /\ FileBelief(c)'
      BY <1>1, <2>1, <2>5, <3>1, <3>2, <3>4
         DEF LockBelief, FileBelief, Belief, FlagBelief, InPreview
    <3>8. FlagBelief(c)'
      BY <1>1, <2>1, <2>2, <2>5, <3>1, <3>4 DEF Belief, FlagBelief, InPreview
    <3>9. QED
      BY <2>1, <3>1, <3>5, <3>6, <3>7, <3>8, Combine DEF Belief
  <2>6. CASE /\ rcs' = [rcs EXCEPT ![c].ro = TRUE] /\ Reopened(c) /\ UNCHANGED <<disk, db>>
    <3>1. rcs'[c] = [rcs[c] EXCEPT !.ro = TRUE]
      BY <1>3, <2>6
    <3>2. /\ rcs'[c] \in RcsObject /\ rcs'[c].selectedRev = rcs[c].selectedRev
          /\ rcs'[c].locked_by = rcs[c].locked_by /\ rcs'[c].locked_rev = rcs[c].locked_rev
          /\ rcs'[c].checked_out = rcs[c].checked_out /\ rcs'[c].locked = rcs[c].locked
          /\ rcs'[c].ro
      BY <1>3, <3>1 DEF RcsObject
    <3>3. TypeWindow(c)' /\ OnlyWindow(c)
      BY <1>1, <1>2, <1>3, <2>2, <2>6, <3>2 DEF TypeWindow, OnlyWindow, Places, Goals
    <3>4. Belief(c)'
      BY <1>1, <2>1, <2>2, <2>6, <3>2
         DEF Belief, LockBelief, FlagBelief, FileBelief, InPreview, disk
    <3>5. QED
      BY <1>2, <2>1, <2>6, <3>3, <3>4, Combine
  <2>7. CASE /\ ContinueEditing(c) /\ Reopened(c) /\ UNCHANGED <<disk, db>> /\ ~rcs[c].ro
    <3>1. rcs[c].checked_out /\ rcs[c].selectedRev = rcs[c].locked_rev
      BY <1>1, <2>1, <2>7 DEF ContinueEditing, Belief, FlagBelief, InPreview
    <3>2. rcs'[c] = [rcs[c] EXCEPT !.checked_out = TRUE, !.selectedRev = rcs[c].locked_rev]
      BY <1>3, <2>7 DEF ContinueEditing
    <3>3. rcs'[c] = rcs[c]
      BY <1>3, <3>1, <3>2 DEF RcsObject
    <3>4. UNCHANGED rcs
      BY <1>3, <2>7, <3>1, <3>3 DEF ContinueEditing
    <3>5. QED
      BY <2>3, <2>7, <3>4
  <2>8. CASE CoReadOnly(c) /\ rcs[c].selectedRev # rcs[c].head
    <3>1. rcs'[c] = [rcs[c] EXCEPT !.temp = TRUE, !.checked_out = FALSE, !.locked = FALSE]
      BY <1>3, <2>8 DEF CoReadOnly
    <3>2. /\ rcs'[c] \in RcsObject /\ ~rcs'[c].checked_out /\ ~rcs'[c].locked
          /\ rcs'[c].locked_by = rcs[c].locked_by /\ rcs'[c].ro
      BY <1>3, <2>8, <3>1 DEF RcsObject, CoReadOnly
    <3>3. TypeWindow(c)' /\ OnlyWindow(c)
      BY <1>1, <1>2, <1>3, <2>2, <2>8, <3>2
         DEF TypeWindow, OnlyWindow, Places, Goals, CoReadOnly
    <3>4. Belief(c)'
      BY <1>1, <2>1, <2>2, <2>8, <3>2
         DEF Belief, LockBelief, FlagBelief, FileBelief, InPreview, disk, CoReadOnly
    <3>5. QED
      BY <1>2, <2>1, <2>8, <3>3, <3>4, Combine DEF CoReadOnly
  <2>9. CASE CoReadOnly(c) /\ rcs[c].selectedRev = rcs[c].head
    <3>1. UNCHANGED <<disk, rcs, db>> /\ Reopened(c)
      BY <1>3, <2>9 DEF CoReadOnly
    <3>2. QED
      BY <2>3, <3>1
  <2>10. QED
    BY <1>6, <2>4, <2>5, <2>6, <2>7, <2>8, <2>9 DEF CoAgain, CoStillLocked
<1>7. CASE FileAddToRCS(c)
  <2>1. PICK a \in Answers(c) :
          /\ db' = [db EXCEPT ![c] = a.db]
          /\ IF head = 0
             THEN /\ file' = [a.file EXCEPT !.owner = User[c], !.writable = FALSE]
                  /\ revisions' = <<a.file.data>> /\ head' = 1
                  /\ rcs' = [rcs EXCEPT ![c].head = 1, ![c].selectedRev = 1]
                  /\ pc' = [pc EXCEPT ![c] = "relock"] /\ goal' = [goal EXCEPT ![c] = "add"]
             ELSE file' = a.file /\ UNCHANGED <<revisions, head, rcs, pc, goal>>
    BY <1>7 DEF FileAddToRCS
  <2>2. pc[c] = "open" /\ ~rcs[c].checked_out /\ UNCHANGED locks /\ edits' \in Data
    BY <1>1, <1>7 DEF FileAddToRCS
  <2>3. CASE head # 0
    <3>1. /\ DiskOK(User[c]) /\ a.db \in Objects
          /\ (file' = file /\ a.db.onDisk = db[c].onDisk) \/ file'.data = a.db.onDisk
      BY <2>1, <2>2, <2>3, Answered
    <3>2. /\ pc' = [pc EXCEPT ![c] = "open"] /\ goal' = [goal EXCEPT ![c] = goal[c]]
          /\ goal[c] \in Goals
      BY <1>3, <2>1, <2>2, <2>3
    <3>3. QED
      BY <2>1, <2>2, <2>3, <3>1, <3>2, StaysOK
  <2>4. CASE head = 0
    <3>1. a.db \in Objects /\ a.file \in [data : Data, owner : Users, writable : BOOLEAN]
          /\ a.file.data \in Data
      BY AnswerTypes
    <3>2. file' = [file EXCEPT !.data = a.file.data, !.owner = User[c], !.writable = FALSE]
      BY <1>1, <2>1, <2>4, <3>1 DEF TypeDisk
    <3>3. DiskOK(User[c])
      BY <1>1, <2>1, <2>2, <2>4, <3>1, <3>2, AddDisk
    <3>4. rcs'[c] = [rcs[c] EXCEPT !.head = 1, !.selectedRev = 1]
      BY <1>3, <2>1, <2>4
    <3>5. 1 \in 0..Len(revisions') /\ rcs[c] \in RcsObject'
      <4>1. Len(revisions') = 1
        BY <2>1, <2>4
      <4>2. QED
        BY <1>3, <1>4, <3>3, <4>1
    <3>6. /\ rcs'[c] \in RcsObject' /\ ~rcs'[c].checked_out /\ rcs'[c].selectedRev = 1
          /\ rcs'[c].locked = rcs[c].locked /\ rcs'[c].locked_by = rcs[c].locked_by
      BY <2>2, <3>4, <3>5 DEF RcsObject
    <3>7. ~rcs[c].locked /\ rcs[c].locked_by = NoUser /\ NoUser # User[c]
      BY <1>1, <2>4, UserAssumption DEF Belief, FlagBelief
    <3>8. /\ pc'[c] = "relock" /\ goal'[c] = "add" /\ db'[c] = a.db /\ OnlyWindow(c)
      BY <1>3, <2>1, <2>4 DEF OnlyWindow
    <3>9. TypeWindow(c)'
      BY <3>1, <3>6, <3>8 DEF TypeWindow, Places, Goals
    <3>10. Belief(c)'
      BY <3>6, <3>7, <3>8 DEF Belief, LockBelief, FlagBelief, FileBelief, InPreview
    <3>11. QED
      BY <2>2, <3>3, <3>8, <3>9, <3>10, Combine
  <2>5. QED
    BY <2>3, <2>4
<1>8. QED
  BY <1>5, <1>6, <1>7

-----------------------------------------------------------------------------
(* The theorems.                                                            *)

LEMMA Initially == Init => Inv
<1> SUFFICES ASSUME Init PROVE Inv
  OBVIOUS
<1>1. revisions \in Seq(Data) /\ Len(revisions) = 0 /\ 0 \in Data
  BY BoundAssumption DEF Init, Data
<1>2. Plain \in RcsObject /\ NoObjects \in Objects
  BY <1>1, PlainIsOne DEF NoObjects, Loaded, Objects
<1>3. ASSUME NEW c \in Copies
      PROVE  /\ rcs[c] = Plain /\ ~rcs[c].checked_out /\ ~rcs[c].locked
             /\ rcs[c].locked_by = NoUser /\ pc[c] = "none"
  BY DEF Init, Plain
<1>4. TypeOK
  <2>1. file \in [data : Data, owner : Users, writable : BOOLEAN] /\ edits \in Data
    BY <1>1 DEF Init
  <2>2. rcs \in [Copies -> RcsObject] /\ db \in [Copies -> Objects]
    BY <1>2 DEF Init
  <2>3. \A c \in Copies :
          rcs[c].checked_out \/ pc[c] = "relock" => rcs[c].selectedRev # 0
    BY <1>3
  <2>4. QED
    BY <1>1, <2>1, <2>2, <2>3, BoundAssumption DEF Init, TypeOK, Objects
<1>5. DiskInv
  BY DEF Init, DiskInv
<1>6. \A c \in Copies : Belief(c)
  BY <1>3, UserAssumption DEF Belief, LockBelief, FlagBelief, FileBelief, InPreview, Users
<1>7. QED
  BY <1>4, <1>5, <1>6 DEF Inv

LEMMA Inductive == OneCopyPerUser /\ Inv /\ [Next]_vars => Inv'
<1> SUFFICES ASSUME OneCopyPerUser, Inv, [Next]_vars PROVE Inv'
  OBVIOUS
<1>1. CASE Next
  BY <1>1, OpeningSteps, StayingSteps, CheckinSteps, LeavingSteps DEF Next
<1>2. CASE UNCHANGED vars
  BY <1>2 DEF vars, disk, Inv, TypeOK, RcsObject, DiskInv, Belief, LockBelief, FlagBelief,
              FileBelief, InPreview
<1>3. QED
  BY <1>1, <1>2

THEOREM Always == OneCopyPerUser => (Spec => []Inv)
<1> SUFFICES ASSUME OneCopyPerUser PROVE Spec => []Inv
  OBVIOUS
<1>1. Inv /\ [Next]_vars => Inv'
  BY Inductive
<1>2. QED
  BY <1>1, Initially, PTL DEF Spec

\* Every lock is on a revision of the archive, and what a window is about to
\* check in or out is one too: RCS never runs ci or co on a revision that is
\* not there, however often the archive grows behind its snapshot of the log.
THEOREM TypeCorrect == OneCopyPerUser => (Spec => []TypeOK)
<1>1. Inv => TypeOK
  BY DEF Inv
<1>2. QED
  BY <1>1, Always, PTL

\* A window that takes the file for checked out has the lock on its revision,
\* through commits, failed commands and crashes of any number of copies.
THEOREM CheckedOutAlwaysLocked == OneCopyPerUser => (Spec => []CheckedOutIsLocked)
<1>1. Inv => CheckedOutIsLocked
  BY DEF Inv, Belief, LockBelief, CheckedOutIsLocked
<1>2. QED
  BY <1>1, Always, PTL

\* A step of a copy changes the place of no other.
LEMMA PlaceIsOwn ==
  ASSUME Inv, NEW c \in Copies, NEW e \in Copies, c # e, pc'[c] # pc[c],
         NEW p, pc' = [pc EXCEPT ![e] = p]
  PROVE  FALSE
BY TypeParts DEF Inv

\* What the check-in of the user's own working file adds to the archive is what
\* the window last saved or read.
THEOREM CommitsRecordSaves == OneCopyPerUser => (Spec => CommitRecordsLastSave)
<1> DEFINE Recorded(c) ==
      /\ pc[c] \in {"log", "ci"} /\ pc'[c] # pc[c] /\ revisions' # revisions
      /\ file.owner = User[c] /\ file.writable
      => revisions'[Len(revisions')] = db[c].onDisk
<1>1. ASSUME Inv, Next, NEW c \in Copies
      PROVE  Recorded(c)
  <2> SUFFICES ASSUME pc[c] \in {"log", "ci"}, pc'[c] # pc[c], revisions' # revisions,
                      file.owner = User[c], file.writable
               PROVE  revisions'[Len(revisions')] = db[c].onDisk
    OBVIOUS
  <2>1. TypeDisk /\ TypeWindow(c) /\ Belief(c)
    BY <1>1, TypeParts DEF Inv
  <2>2. PICK e \in Copies : Checkin(e) \/ FileAddToRCS(e)
    <3>1. ASSUME NEW e \in Copies,
                 \/ FileOpen(e) \/ PreviewCancel(e) \/ OpenReadOnly(e) \/ OpenLocked(e)
                 \/ OpenCheckout(e) \/ CoAgain(e) \/ CoStillLocked(e) \/ CoReadOnly(e)
          PROVE  revisions' = revisions
      BY <3>1 DEF FileOpen, PreviewCancel, OpenReadOnly, OpenLocked, OpenCheckout,
                  CoAgain, CoStillLocked, CoReadOnly, CoThrows, CoLock, CoUnlock, disk
    <3>2. ASSUME NEW e \in Copies,
                 \/ Edit(e) \/ FileSave(e) \/ BeginClose(e) \/ CloseUnlocked(e) \/ FileCommit(e)
                 \/ LogCancel(e)
          PROVE  revisions' = revisions
      BY <3>2 DEF Edit, FileSave, BeginClose, BeginCheckin, CloseUnlocked, FileCommit,
                  LogCancel, disk
    <3>3. ASSUME NEW e \in Copies,
                 FileDiscard(e) \/ FileSaveAs(e) \/ Hollow(e) \/ Crash(e) \/ Restart(e)
          PROVE  revisions' = revisions
      BY <3>3 DEF FileDiscard, FileSaveAs, Hollow, Crash, Restart, CoUnlock, disk
    <3>4. QED
      BY <1>1, <3>1, <3>2, <3>3 DEF Next
  <2>3. CASE FileAddToRCS(e)
    <3>1. pc[e] = "open" /\ (UNCHANGED pc \/ pc' = [pc EXCEPT ![e] = "relock"])
      BY <2>3 DEF FileAddToRCS
    <3>2. QED
      BY <1>1, <3>1, PlaceIsOwn
  <2>4. CASE Checkin(e)
    <3>1. e = c
      <4>1. \E p : pc' = [pc EXCEPT ![e] = p]
        BY <2>4 DEF Checkin, Goto, Closed, Leave
      <4>2. QED
        BY <1>1, <4>1, PlaceIsOwn
    <3>2. CiUnlock(User[c]) /\ rcs[c].checked_out
      BY <2>1, <2>4, <3>1 DEF Checkin, disk, Belief, FlagBelief
    <3>3. PICK r \in LocksOf(User[c]) :
            /\ LocksOf(User[c]) = {r} /\ file.data # revisions[r]
            /\ revisions' = Append(revisions, file.data)
      BY <3>2 DEF CiUnlock
    <3>4. r = rcs[c].selectedRev
      <4>1. <<User[c], rcs[c].selectedRev>> \in locks
        BY <2>1, <3>2 DEF Belief, LockBelief
      <4>2. rcs[c].selectedRev \in LocksOf(User[c])
        BY <4>1 DEF LocksOf
      <4>3. QED
        BY <3>3, <4>2
    <3>5. file.data = db[c].onDisk
      BY <2>1, <3>2, <3>3, <3>4 DEF Belief, FileBelief
    <3>6. revisions \in Seq(Data) /\ file.data \in Data
      BY <2>1 DEF TypeDisk
    <3>7. QED
      BY <3>3, <3>5, <3>6, Appending
  <2>5. QED
    BY <2>2, <2>3, <2>4
<1>2. Inv /\ [Next]_vars => [\A c \in Copies : Recorded(c)]_vars
  BY <1>1
<1>3. QED
  BY <1>2, Always, PTL DEF Spec, CommitRecordsLastSave

\* While the head is locked and nothing else is, what its user saved and has not
\* committed changes by a step of his own copy only.
THEOREM SavedWorkKept == OneCopyPerUser => (Spec => SavedWorkIsKept)
<1> DEFINE Kept(u) ==
      /\ locks = {<<u, head>>} /\ \A r \in DOMAIN revisions : revisions[r] # file.data
      /\ file'.data # file.data
      => \E c \in Copies : User[c] = u /\ (pc'[c] # pc[c] \/ db'[c] # db[c])
<1>1. ASSUME Inv, Next, NEW u \in Users
      PROVE  Kept(u)
  <2> SUFFICES ASSUME locks = {<<u, head>>}, file'.data # file.data,
                      \A r \in DOMAIN revisions : revisions[r] # file.data
               PROVE  \E c \in Copies : User[c] = u /\ (pc'[c] # pc[c] \/ db'[c] # db[c])
    OBVIOUS
  <2>1. /\ TypeDisk /\ DiskInv /\ DOMAIN revisions = 1..Len(revisions)
        /\ pc \in [Copies -> Places] /\ db \in [Copies -> Objects]
    BY <1>1, TypeParts DEF Inv, TypeDisk
  <2>2. head # 0 /\ file.writable /\ file.owner = u
    BY <2>1 DEF TypeDisk, DiskInv
  <2>3. PICK e \in Copies :
          \/ FileSave(e) \/ BeginClose(e) \/ CloseUnlocked(e) \/ FileCommit(e)
          \/ OpenCheckout(e) \/ Checkin(e) \/ CoAgain(e)
          \/ FileAddToRCS(e) \/ FileDiscard(e) \/ FileSaveAs(e)
    BY <1>1 DEF Next, FileOpen, PreviewCancel, OpenReadOnly, OpenLocked, Edit, LogCancel,
                CoStillLocked, CoReadOnly, CoThrows, Hollow, Crash, Restart, disk
  <2>4. ASSUME file' = FileSaved(e), db[e].dirty
        PROVE  User[e] = u /\ ~DbSaved(e).dirty
    BY <2>1, <2>2, <2>4 DEF FileSaved, DbSaved, CanSave, Objects
  <2>5. ASSUME NEW a \in Answers(e), file' = a.file
        PROVE  User[e] = u /\ db[e].dirty /\ ~a.db.dirty
    BY <2>4, <2>5 DEF Answers
  <2>6. ASSUME CoUnlock(User[e])
        PROVE  User[e] = u
    BY <2>6 DEF CoUnlock, UnlockTarget, LocksOf, LockedByOther
  <2>7. ASSUME NEW where \in {"none", "gone", "reload"}, Leave(e, where), pc[e] = "open"
        PROVE  pc'[e] # pc[e]
    BY <2>1, <2>7 DEF Leave
  <2>8. CASE FileSave(e)
    BY <2>1, <2>4, <2>8 DEF FileSave
  <2>9. CASE BeginClose(e) \/ FileCommit(e)
    <3>1. User[e] = u
      BY <2>4, <2>5, <2>9 DEF BeginClose, FileCommit
    <3>2. pc'[e] # pc[e]
      BY <2>1, <2>9 DEF BeginClose, FileCommit, BeginCheckin
    <3>3. QED
      BY <3>1, <3>2
  <2>10. CASE CloseUnlocked(e)
    BY <2>5, <2>7, <2>10 DEF CloseUnlocked, Closed
  <2>11. CASE OpenCheckout(e) \/ CoAgain(e)
    BY <2>2, <2>11 DEF OpenCheckout, CoAgain, CanLock, CoThrows, disk
  <2>12. CASE Checkin(e)
    <3>1. file' = file \/ file' = [file EXCEPT !.owner = User[e], !.writable = FALSE]
      BY <2>12 DEF Checkin, CiUnlock, disk
    <3>2. QED
      BY <2>1, <3>1 DEF TypeDisk
  <2>13. CASE FileAddToRCS(e)
    <3>1. PICK a \in Answers(e) : db' = [db EXCEPT ![e] = a.db] /\ file' = a.file
      BY <2>2, <2>13 DEF FileAddToRCS
    <3>2. QED
      BY <2>1, <2>5, <3>1
  <2>14. CASE FileDiscard(e) \/ FileSaveAs(e)
    <3>1. CoUnlock(User[e]) /\ pc[e] = "open"
      BY <2>14 DEF FileDiscard, FileSaveAs, disk
    <3>2. PICK where \in {"none", "gone", "reload"} : Leave(e, where)
      BY <2>14 DEF FileDiscard, FileSaveAs
    <3>3. QED
      BY <2>6, <2>7, <3>1, <3>2
  <2>15. QED
    BY <2>3, <2>8, <2>9, <2>10, <2>11, <2>12, <2>13, <2>14
<1>2. Inv /\ [Next]_vars => [\A u \in Users : Kept(u)]_vars
  BY <1>1
<1>3. QED
  BY <1>2, Always, PTL DEF Spec, SavedWorkIsKept
=============================================================================
