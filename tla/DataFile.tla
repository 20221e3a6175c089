------------------------------ MODULE DataFile ------------------------------
(***************************************************************************)
(* One data file under revision control and the copies of the program that *)
(* have it open: class RCS, RCSFilePreview and the File menu of            *)
(* ProjectPanel (open, save, commit, discard, add to RCS, save as, close). *)
(*                                                                         *)
(* A copy is one window on the file, run by one user; copies see each other*)
(* only through the disk: the working file, the RCS archive and its locks. *)
(* While a copy shows a dialogue, or between two of the rcs commands it    *)
(* runs, the others go on.  A copy may be killed at any time.              *)
(*                                                                         *)
(* What the commands co and ci do is modelled by their locking rules: co   *)
(* refuses a revision another user has locked and, without -f, a working   *)
(* file that is writable; co -u takes the revision its caller has locked,  *)
(* and the head if there is none; ci wants exactly one lock of its caller. *)
(* ci may also fail for other reasons.  Revisions are numbered as they are *)
(* checked in; one whose predecessor is not the head is on a branch.       *)
(***************************************************************************)
EXTENDS Naturals, Sequences, FiniteSets

CONSTANTS
  Copies,        \* windows, each of its own run of the program
  User,          \* who runs each of them: user_name
  NoUser,        \* the empty name
  MaxEdits,      \* bound: edits in all
  MaxRevisions   \* bound: revisions in the archive

Users == {User[c] : c \in Copies}

ASSUME UserAssumption == User = [c \in Copies |-> User[c]] /\ NoUser \notin Users
ASSUME BoundAssumption == MaxEdits \in Nat /\ MaxRevisions \in Nat \ {0}

VARIABLES
  revisions,    \* the archive: the data of each revision
  head,         \* the last revision on the trunk; 0: the file is not in RCS
  locks,        \* pairs of a user and the revision he has locked
  file,         \* the working file
  edits,        \* how many edits there were: the data of an edit is its number
  pc,           \* where each copy is
  goal,         \* the menu item that runs checkin or co
  rcs,          \* the RCS object of each window
  db            \* its objects

disk == <<revisions, head, locks, file>>
vars == <<disk, edits, pc, goal, rcs, db>>

Data == 0..MaxEdits

\* an RCS object (revision 0 is the empty string) and one for a file that is not
\* in RCS
RcsObject ==
  LET Revision == 0..Len(revisions)
  IN  [checked_out : BOOLEAN, locked : BOOLEAN, locked_by : Users \cup {NoUser},
       locked_rev : Revision, revisions : Revision, head : Revision,
       selectedRev : Revision, ro : BOOLEAN, temp : BOOLEAN]
Plain == [checked_out |-> FALSE, locked |-> FALSE, locked_by |-> NoUser, locked_rev |-> 0,
          revisions |-> 0, head |-> 0, selectedRev |-> 0, ro |-> FALSE, temp |-> FALSE]
IsInRCS(c) == rcs[c].head # 0

\* onDisk is history: what the window last read from the file or saved to it
Loaded(data, readOnly) ==
  [data |-> data, dirty |-> FALSE, readOnly |-> readOnly, onDisk |-> data]
NoObjects == Loaded(0, TRUE)

Init ==
  /\ revisions = << >> /\ head = 0 /\ locks = {}
  /\ \E u \in Users : file = [data |-> 0, owner |-> u, writable |-> TRUE]
  /\ edits = 0
  /\ pc = [c \in Copies |-> "none"] /\ goal = [c \in Copies |-> "none"]
  /\ rcs = [c \in Copies |-> Plain] /\ db = [c \in Copies |-> NoObjects]

-----------------------------------------------------------------------------
(* The programs co and ci.                                                  *)

LocksOf(u) == {l[2] : l \in {k \in locks : k[1] = u}}
LockedByOther(u, r) == \E l \in locks : l[2] = r /\ l[1] # u
Working(u, r, writable) == [data |-> revisions[r], owner |-> u, writable |-> writable]

\* co -l, with -f if force
CanLock(u, r, force) == ~LockedByOther(u, r) /\ (file.writable => force)
CoLock(u, r) ==
  /\ file' = Working(u, r, TRUE)
  /\ locks' = locks \cup {<<u, r>>}
  /\ UNCHANGED <<revisions, head>>

\* co -f -u without a revision
UnlockTarget(u) ==
  {r \in (IF LocksOf(u) = {} THEN {head} ELSE LocksOf(u)) :
     LocksOf(u) \subseteq {r} /\ ~LockedByOther(u, r)}
CoUnlock(u) ==
  \E r \in UnlockTarget(u) :
    /\ file' = Working(u, r, FALSE)
    /\ locks' = locks \ {<<u, r>>}
    /\ UNCHANGED <<revisions, head>>

\* ci -u
CiUnlock(u) ==
  \E r \in LocksOf(u) :
    /\ LocksOf(u) = {r}
    /\ locks' = locks \ {<<u, r>>}
    /\ file' = [file EXCEPT !.owner = u, !.writable = FALSE]
    /\ IF file.data = revisions[r]
       THEN UNCHANGED <<revisions, head>>
       ELSE /\ Len(revisions) < MaxRevisions
            /\ revisions' = Append(revisions, file.data)
            /\ head' = IF r = head THEN Len(revisions) + 1 ELSE head

-----------------------------------------------------------------------------
(* Opening the file.                                                        *)

Goto(c, where) == pc' = [pc EXCEPT ![c] = where] /\ UNCHANGED goal

\* the window is closed, or the program has ended: nothing of it is left
Leave(c, where) ==
  /\ pc' = [pc EXCEPT ![c] = where] /\ goal' = [goal EXCEPT ![c] = "none"]
  /\ rcs' = [rcs EXCEPT ![c] = Plain] /\ db' = [db EXCEPT ![c] = NoObjects]

\* what the RCS object reads from rlog: the head and one of the locks
ReadLog ==
  LET seen == [Plain EXCEPT !.revisions = Len(revisions), !.head = head, !.selectedRev = head]
  IN  IF locks = {} THEN {seen}
      ELSE {[seen EXCEPT !.locked = TRUE, !.locked_by = l[1], !.locked_rev = l[2]] : l \in locks}

\* loadFile up to the preview of the revisions, which is shown for a file in RCS
FileOpen(c) ==
  /\ pc[c] \in {"none", "reload"}
  /\ IF head = 0
     THEN /\ Goto(c, "open")
          /\ rcs' = [rcs EXCEPT ![c] = Plain]
          /\ db' = [db EXCEPT ![c] = Loaded(file.data, FALSE)]
     ELSE /\ Goto(c, IF pc[c] = "none" THEN "preview" ELSE "repreview")
          /\ \E seen \in ReadLog : rcs' = [rcs EXCEPT ![c] = seen]
          /\ UNCHANGED db
  /\ UNCHANGED <<disk, edits>>

InPreview(c) == pc[c] \in {"preview", "repreview"}

\* loadFile returns false.  A new window is deleted; the window of fileDiscard
\* stays, without an RCS object
NotLoaded(c) == Leave(c, IF pc[c] = "preview" THEN "none" ELSE "hollow")

\* Cancel in the preview, or in the question about the lock
PreviewCancel(c) ==
  /\ InPreview(c) /\ NotLoaded(c)
  /\ UNCHANGED <<disk, edits>>

\* co for a read-only window: the working file, or an old revision in a
\* temporary file
OpenReadOnly(c) ==
  /\ InPreview(c)
  /\ \E r \in 1..rcs[c].revisions :
       IF r = rcs[c].head
       THEN /\ rcs' = [rcs EXCEPT ![c].ro = TRUE]
            /\ db' = [db EXCEPT ![c] = Loaded(file.data, TRUE)]
       ELSE /\ rcs' = [rcs EXCEPT ![c].ro = TRUE, ![c].temp = TRUE, ![c].locked = FALSE,
                                  ![c].selectedRev = r]
            /\ db' = [db EXCEPT ![c] = Loaded(revisions[r], TRUE)]
  /\ Goto(c, "open")
  /\ UNCHANGED <<disk, edits>>

\* mutant: on with any lock
ContinueAnyLock(c) ==
  /\ rcs[c].locked
  /\ rcs' = [rcs EXCEPT ![c].checked_out = TRUE, ![c].selectedRev = rcs[c].locked_rev]

\* co when rlog showed a lock: read-only, or on with the user's own lock
ContinueEditing(c) ==
  /\ rcs[c].locked /\ rcs[c].locked_by = User[c]
  /\ rcs' = [rcs EXCEPT ![c].checked_out = TRUE, ![c].selectedRev = rcs[c].locked_rev]

OpenLocked(c) ==
  /\ InPreview(c) /\ rcs[c].locked
  /\ \/ /\ \E r \in 1..rcs[c].revisions :
             rcs' = [rcs EXCEPT ![c].ro = TRUE, ![c].selectedRev = r]
        /\ db' = [db EXCEPT ![c] = Loaded(file.data, TRUE)]
     \/ /\ ContinueEditing(c)
        /\ db' = [db EXCEPT ![c] = Loaded(file.data, FALSE)]
  /\ Goto(c, "open")
  /\ UNCHANGED <<disk, edits>>

\* mutant: -f on every checkout
OpenCheckoutForced(c) ==
  /\ InPreview(c) /\ ~rcs[c].locked
  /\ \E r \in 1..rcs[c].revisions :
       /\ CanLock(User[c], r, TRUE) /\ CoLock(User[c], r)
       /\ rcs' = [rcs EXCEPT ![c].checked_out = TRUE, ![c].locked = TRUE, ![c].selectedRev = r]
       /\ db' = [db EXCEPT ![c] = Loaded(revisions[r], FALSE)]
  /\ Goto(c, "open")
  /\ UNCHANGED edits

\* co when rlog showed no lock: check out and lock, or the error box
OpenCheckout(c) ==
  /\ InPreview(c) /\ ~rcs[c].locked
  /\ \E r \in 1..rcs[c].revisions :
       \/ /\ CanLock(User[c], r, FALSE) /\ CoLock(User[c], r)
          /\ rcs' = [rcs EXCEPT ![c].checked_out = TRUE, ![c].locked = TRUE,
                                ![c].selectedRev = r]
          /\ db' = [db EXCEPT ![c] = Loaded(revisions[r], FALSE)]
          /\ Goto(c, "open")
       \/ /\ ~CanLock(User[c], r, FALSE) /\ NotLoaded(c)
          /\ UNCHANGED disk
  /\ UNCHANGED edits

-----------------------------------------------------------------------------
(* Editing and saving.                                                      *)

Edit(c) ==
  /\ pc[c] = "open" /\ ~db[c].readOnly /\ edits < MaxEdits
  /\ edits' = edits + 1
  /\ db' = [db EXCEPT ![c].data = edits + 1, ![c].dirty = TRUE]
  /\ UNCHANGED <<disk, pc, goal, rcs>>

\* save() writes nothing for a read-only window, and shows an error if it can not
CanSave(c) ==
  /\ ~rcs[c].ro /\ ~rcs[c].temp
  /\ file.writable /\ file.owner = User[c]
FileSaved(c) == IF CanSave(c) THEN [file EXCEPT !.data = db[c].data] ELSE file
\* mutant: the edits count as saved whether or not they were written
DbSavedAnyway(c) == [db[c] EXCEPT !.dirty = FALSE, !.onDisk = db[c].data]
DbSaved(c) ==
  IF CanSave(c) THEN [db[c] EXCEPT !.dirty = FALSE, !.onDisk = db[c].data] ELSE db[c]

\* also the timer of autoSave
FileSave(c) ==
  /\ pc[c] = "open" /\ db[c].dirty
  /\ file' = FileSaved(c) /\ db' = [db EXCEPT ![c] = DbSaved(c)]
  /\ UNCHANGED <<revisions, head, locks, edits, pc, goal, rcs>>

\* saveIfModified, unless the answer is Cancel: nothing to ask or Discard, or
\* Save.  It returns true even if the save failed
Answers(c) ==
  {[file |-> file, db |-> [db[c] EXCEPT !.dirty = FALSE]]}
    \cup {a \in {[file |-> FileSaved(c), db |-> DbSaved(c)]} : db[c].dirty}

-----------------------------------------------------------------------------
(* Closing and committing.                                                  *)

NeedsCheckin(c) == rcs[c].checked_out /\ ~rcs[c].temp

\* checkin up to the dialogue for the log record, shown if the file differs
\* from the revision
BeginCheckin(c, for) ==
  /\ pc' = [pc EXCEPT ![c] =
              IF file'.data # revisions[rcs[c].selectedRev] THEN "log" ELSE "ci"]
  /\ goal' = [goal EXCEPT ![c] = for]
  /\ UNCHANGED <<revisions, head, locks, edits, rcs>>

\* File/Close, the window's own button or Quit: "close".  The main window's
\* button: "quit"
BeginClose(c) ==
  /\ pc[c] = "open" /\ NeedsCheckin(c)
  /\ \E a \in Answers(c) : file' = a.file /\ db' = [db EXCEPT ![c] = a.db]
  /\ \E for \in {"close", "quit"} : BeginCheckin(c, for)

\* closing a window whose edits could not be saved: fileClose frees the RCS
\* object, then closes the window, whose handler asks about the edits again
Closed(c, dirty) == \E where \in {"none"} \cup {w \in {"gone"} : dirty} : Leave(c, where)

CloseUnlocked(c) ==
  /\ pc[c] = "open" /\ ~NeedsCheckin(c)
  /\ \E a \in Answers(c) : file' = a.file /\ Closed(c, a.db.dirty)
  /\ UNCHANGED <<revisions, head, locks, edits>>

FileCommit(c) ==
  /\ pc[c] = "open" /\ rcs[c].checked_out /\ db[c].dirty
  /\ file' = FileSaved(c) /\ db' = [db EXCEPT ![c] = DbSaved(c)]
  /\ BeginCheckin(c, "commit")

\* Cancel in the log dialogue; the main window closes all the same
LogCancel(c) ==
  /\ pc[c] = "log"
  /\ IF goal[c] = "quit" THEN Leave(c, "none")
     ELSE /\ pc' = [pc EXCEPT ![c] = "open"] /\ goal' = [goal EXCEPT ![c] = "none"]
          /\ UNCHANGED <<rcs, db>>
  /\ UNCHANGED <<disk, edits>>

\* mutant: the file still counts as checked out after ci -u
CheckinKeepsFlag(c) ==
  /\ pc[c] \in {"log", "ci"}
  /\ \E ok \in BOOLEAN :
       /\ IF ok THEN CiUnlock(User[c]) ELSE UNCHANGED disk
       /\ IF goal[c] = "commit"
          THEN Goto(c, "relock") /\ UNCHANGED <<db, rcs>>
          ELSE Closed(c, db[c].dirty)
  /\ UNCHANGED edits

\* ci, which returns true also when the program failed, and what follows it
Checkin(c) ==
  /\ pc[c] \in {"log", "ci"}
  /\ \E ok \in BOOLEAN :
       /\ IF ok THEN CiUnlock(User[c]) ELSE UNCHANGED disk
       /\ IF goal[c] = "commit"
          THEN /\ Goto(c, "relock") /\ UNCHANGED db
               /\ rcs' = IF ok THEN [rcs EXCEPT ![c].checked_out = FALSE, ![c].locked = FALSE]
                         ELSE rcs
          ELSE Closed(c, db[c].dirty)
  /\ UNCHANGED edits

Reopened(c) == pc' = [pc EXCEPT ![c] = "open"] /\ goal' = [goal EXCEPT ![c] = "none"]

\* an exception of co: nobody catches that of fileCommit, the program ends
CoThrows(c) ==
  /\ IF goal[c] = "commit" THEN Leave(c, "gone") ELSE Reopened(c) /\ UNCHANGED <<rcs, db>>
  /\ UNCHANGED disk

\* the co that ends fileCommit and fileAddToRCS; the objects are not read again
CoAgain(c) ==
  /\ pc[c] = "relock" /\ ~rcs[c].ro /\ ~rcs[c].locked
  /\ LET r == rcs[c].selectedRev IN
       \/ /\ CanLock(User[c], r, FALSE) /\ CoLock(User[c], r)
          /\ rcs' = [rcs EXCEPT ![c].checked_out = TRUE, ![c].locked = TRUE]
          /\ Reopened(c) /\ UNCHANGED db
       \/ ~CanLock(User[c], r, FALSE) /\ CoThrows(c)
  /\ UNCHANGED edits

\* the same when ci failed and left the RCS object locked
CoStillLocked(c) ==
  /\ pc[c] = "relock" /\ ~rcs[c].ro /\ rcs[c].locked
  /\ \/ CoThrows(c)
     \/ /\ \/ rcs' = [rcs EXCEPT ![c].ro = TRUE]
           \/ ContinueEditing(c)
        /\ Reopened(c) /\ UNCHANGED <<disk, db>>
  /\ UNCHANGED edits

\* the same for a window that became read-only that way
CoReadOnly(c) ==
  /\ pc[c] = "relock" /\ rcs[c].ro
  /\ rcs' = [rcs EXCEPT ![c] = IF @.selectedRev = @.head THEN @
                               ELSE [@ EXCEPT !.temp = TRUE, !.checked_out = FALSE,
                                              !.locked = FALSE]]
  /\ Reopened(c)
  /\ UNCHANGED <<disk, edits, db>>

-----------------------------------------------------------------------------
(* The other operations on the file.                                        *)

\* mutant: add() does not say which revision it made
FileAddToRCSNoRev(c) ==
  /\ pc[c] = "open" /\ ~rcs[c].checked_out
  /\ \E a \in Answers(c) :
       /\ db' = [db EXCEPT ![c] = a.db]
       /\ IF head = 0
          THEN /\ file' = [a.file EXCEPT !.owner = User[c], !.writable = FALSE]
               /\ revisions' = <<a.file.data>> /\ head' = 1
               /\ rcs' = [rcs EXCEPT ![c].head = 1]
               /\ pc' = [pc EXCEPT ![c] = "relock"] /\ goal' = [goal EXCEPT ![c] = "add"]
          ELSE file' = a.file /\ UNCHANGED <<revisions, head, rcs, pc, goal>>
  /\ UNCHANGED <<locks, edits>>

\* saveIfModified and add(), of a file that still is not in RCS; otherwise add
\* shows an error or is not called
FileAddToRCS(c) ==
  /\ pc[c] = "open" /\ ~rcs[c].checked_out
  /\ \E a \in Answers(c) :
       /\ db' = [db EXCEPT ![c] = a.db]
       /\ IF head = 0
          THEN /\ file' = [a.file EXCEPT !.owner = User[c], !.writable = FALSE]
               /\ revisions' = <<a.file.data>> /\ head' = 1
               /\ rcs' = [rcs EXCEPT ![c].head = 1, ![c].selectedRev = 1]
               /\ pc' = [pc EXCEPT ![c] = "relock"] /\ goal' = [goal EXCEPT ![c] = "add"]
          ELSE file' = a.file /\ UNCHANGED <<revisions, head, rcs, pc, goal>>
  /\ UNCHANGED <<locks, edits>>

\* abandon(), whose exception ends the program.  The RCS object of a temporary
\* file asks co for a file that is not in RCS
CanAbandon(c) == ~rcs[c].temp /\ UnlockTarget(User[c]) # {}

FileDiscard(c) ==
  /\ pc[c] = "open" /\ rcs[c].checked_out /\ db[c].dirty
  /\ IF CanAbandon(c) THEN CoUnlock(User[c]) /\ Leave(c, "reload")
     ELSE UNCHANGED disk /\ Leave(c, "gone")
  /\ UNCHANGED edits

\* the window goes on with another file
FileSaveAs(c) ==
  /\ pc[c] = "open"
  /\ IF ~IsInRCS(c) THEN UNCHANGED disk /\ Leave(c, "none")
     ELSE IF CanAbandon(c) THEN CoUnlock(User[c]) /\ Leave(c, "none")
     ELSE UNCHANGED disk /\ Leave(c, "gone")
  /\ UNCHANGED edits

\* the window that fileDiscard left without an RCS object: it can be closed,
\* Save As ends the program
Hollow(c) ==
  /\ pc[c] = "hollow" /\ \E where \in {"none", "gone"} : Leave(c, where)
  /\ UNCHANGED <<disk, edits>>

Crash(c) ==
  /\ pc[c] \notin {"none", "gone"} /\ Leave(c, "none")
  /\ UNCHANGED <<disk, edits>>

\* the program is started again
Restart(c) ==
  /\ pc[c] = "gone" /\ Leave(c, "none")
  /\ UNCHANGED <<disk, edits>>

Next == \E c \in Copies :
  \/ FileOpen(c) \/ PreviewCancel(c) \/ OpenReadOnly(c) \/ OpenLocked(c) \/ OpenCheckout(c)
  \/ Edit(c) \/ FileSave(c) \/ BeginClose(c) \/ CloseUnlocked(c)
  \/ FileCommit(c) \/ LogCancel(c) \/ Checkin(c)
  \/ CoAgain(c) \/ CoStillLocked(c) \/ CoReadOnly(c)
  \/ FileAddToRCS(c) \/ FileDiscard(c) \/ FileSaveAs(c) \/ Hollow(c)
  \/ Crash(c) \/ Restart(c)

Spec == Init /\ [][Next]_vars

-----------------------------------------------------------------------------
(* Properties.                                                              *)

\* The types of the variables.  Every lock is on a revision of the archive,
\* and what a window is about to check in or check out is one too.
TypeOK ==
  /\ revisions \in Seq(Data) /\ Len(revisions) <= MaxRevisions
  /\ head \in 0..Len(revisions)
  /\ locks \subseteq Users \X (1..Len(revisions))
  /\ file \in [data : Data, owner : Users, writable : BOOLEAN]
  /\ edits \in Data
  /\ pc \in [Copies -> {"none", "reload", "preview", "repreview", "open", "log", "ci",
                        "relock", "hollow", "gone"}]
  /\ goal \in [Copies -> {"none", "close", "quit", "commit", "add"}]
  /\ rcs \in [Copies -> RcsObject]
  /\ db \in [Copies -> [data : Data, dirty : BOOLEAN, readOnly : BOOLEAN, onDisk : Data]]
  /\ \A c \in Copies : rcs[c].checked_out \/ pc[c] = "relock" => rcs[c].selectedRev # 0

\* A window that takes the file for checked out, from what rlog said when it
\* was opened and from the commands it ran itself, has the lock on the
\* revision it thinks it edits: RCS::co, RCS::ci and RCS::abandon keep their
\* flags in step with the archive through commits, failures and crashes.
CheckedOutIsLocked ==
  \A c \in Copies : rcs[c].checked_out => <<User[c], rcs[c].selectedRev>> \in locks

\* What checkin() adds to the archive from the user's own working file is what
\* the window last saved or read, never something it believes saved and is not.
CommitRecordsLastSave ==
  [][\A c \in Copies :
       /\ pc[c] \in {"log", "ci"} /\ pc'[c] # pc[c] /\ revisions' # revisions
       /\ file.owner = User[c] /\ file.writable
       => revisions'[Len(revisions')] = db[c].onDisk]_vars

\* While the head is locked and nothing else is, what its user has saved and
\* not yet committed is replaced by his own copy of the program only: not by
\* others who open, look at, save under another name or leave the file, also
\* when his copy has crashed.
SavedWorkIsKept ==
  [][\A u \in Users :
       /\ locks = {<<u, head>>} /\ \A r \in DOMAIN revisions : revisions[r] # file.data
       /\ file'.data # file.data
       => \E c \in Copies : User[c] = u /\ (pc'[c] # pc[c] \/ db'[c] # db[c])]_vars

\* What is said of RCS::co: if a file has been opened and locked by a user,
\* another user can only open it read-only.
OneUserWrites ==
  \A c, d \in Copies :
    (rcs[c].checked_out /\ ~rcs[c].ro /\ rcs[d].checked_out /\ ~rcs[d].ro) => User[c] = User[d]

\* What is said of fileCommit: it commits the file and keeps it opened, so the
\* user can continue editing it: the working file then is what the window shows.
CommitKeepsFile ==
  [][\A c \in Copies :
       (goal[c] = "commit" /\ CoAgain(c) /\ rcs'[c].checked_out) => file'.data = db[c].onDisk]_vars

\* What is said of fileSaveAs: if the old file was in RCS, it is reverted to
\* the head revision.
SaveAsRevertsToHead ==
  [][\A c \in Copies :
       (FileSaveAs(c) /\ IsInRCS(c) /\ pc'[c] = "none") => file'.data = revisions[head]]_vars

\* What is said of an old revision opened read-only: Save As is disabled, so
\* the user can not end the program with it.
OldRevisionEndsNothing == [][\A c \in Copies : pc'[c] = "gone" => ~rcs[c].temp]_vars
=============================================================================
