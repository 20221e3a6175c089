---------------------------- MODULE ObjectDeletion ----------------------------
(***************************************************************************)
(* The object tree of a project, edited through commands on an undo stack  *)
(* (libgui's ObjectManipulator, GroupObjectDialog, RuleSetView and FWCmd*  *)
(* classes on libfwbuilder's FWObject).                                    *)
(*                                                                         *)
(* Deleting an object moves it to the Deleted Objects library and takes    *)
(* its references out of the groups and rules that hold them; deleting it  *)
(* there takes it out of the tree, and from then on only the command on    *)
(* the undo stack keeps it in memory.  When that command is discarded, it  *)
(* frees the object if the reference counter says nobody else uses it.     *)
(* Groups and rule elements keep references, counted in the object they    *)
(* point to; an emptied rule element gets the reference to Any back.       *)
(*                                                                         *)
(* References are kept as sets (the editors refuse duplicates).  Groups    *)
(* hold hosts; groups of groups, objects with children, cut (a copy and a  *)
(* deletion in one macro) and objects of other files are left out.         *)
(***************************************************************************)
EXTENDS Integers, FiniteSets, Sequences, SequencesExt

CONSTANTS
  Hosts,      \* leaf objects
  Groups,     \* user-defined object groups, which hold references
  FreshGroups,\* the groups that do not exist at first
  Rules,      \* one source rule element for each rule
  AnyObject,  \* the predefined member of an element no object restricts
  DummyObject,\* the one shown in its stead if the user prefers so
  NoObject,   \* the empty clipboard
  MaxStack,   \* bound on the commands done at a time
  MaxCount    \* bound on reference counters

Objects == Hosts \cup Groups
Holders == Groups \cup Rules

ASSUME DeletionAssumption ==
  /\ FreshGroups \subseteq Groups
  /\ Hosts \cap Groups = {} /\ Objects \cap Rules = {}
  /\ IsFiniteSet(Hosts) /\ IsFiniteSet(Groups) /\ IsFiniteSet(Rules)
  /\ AnyObject # DummyObject
  /\ {AnyObject, DummyObject, NoObject} \cap (Objects \cup Rules) = {}
  /\ MaxStack \in Nat /\ MaxCount \in Nat

VARIABLES
  db,         \* the object database: where each object is, what each holder
              \* refers to, the reference counters, what has been freed
  stack,      \* the commands of the undo stack, the oldest first
  done,       \* how many of them are done (the others can be redone)
  clip,       \* the object in the clipboard
  dummies,    \* preference defaultSource: Dummy instead of Any in rules
  uncounted,  \* for each object, the references a copy made without counting
  past, future \* documents before and after the present one (history)

vars == <<db, stack, done, clip, dummies, uncounted, past, future>>

InTree == {"library", "deleted"}
Holds(d, h) == IF h \in Rules \/ d.place[h] \in InTree THEN d.refs[h] ELSE {}

\* The part of the database the user sees.
Document(d) ==
  [place |-> [x \in Objects |-> IF d.place[x] \in InTree THEN d.place[x]
                                                         ELSE "nowhere"],
   refs  |-> [h \in Holders |-> Holds(d, h)]]

Documents == [place : [Objects -> {"library", "deleted", "nowhere"}],
              refs : [Holders -> SUBSET (Objects \cup {AnyObject, DummyObject})]]

-----------------------------------------------------------------------------
(***************************************************************************)
(* Members of a holder: FWObject::addRef and removeRef, with what          *)
(* RuleElement makes of them.                                              *)
(***************************************************************************)
\* Mutant: FWObject::addRef, which leaves Any beside the new member.
AddRefBesideAny(h, members, x) == members \cup {x}

AddRef(h, members, x) ==
  IF h \in Rules /\ members = {AnyObject} THEN {x} ELSE members \cup {x}

\* Mutant: every emptied holder gets Any, groups too.
TakeRefAnyGroup(h, members, x) ==
  IF members \ {x} = {} THEN {AnyObject} ELSE members \ {x}

TakeRef(h, members, x) ==
  IF h \in Rules /\ members \ {x} = {} THEN {AnyObject} ELSE members \ {x}

\* useDummy and setDummy: an element back at Any shows Dummy if so preferred.
SetDummy(h, members) ==
  IF h \in Rules /\ dummies /\ members = {AnyObject} THEN {DummyObject} ELSE members

\* FWObject::ref n times for each object of a set.
Count(d, xs, n) == [d EXCEPT !.rc = [x \in Objects |->
                                       IF x \in xs THEN @[x] + n ELSE @[x]]]

PutAt(d, x, where) == [d EXCEPT !.place[x] = where]

\* Mutant: rule elements only.
ReferenceHoldersRules(d, x) == {h \in Rules : x \in d.refs[h]}

\* findAllReferenceHolders: the search skips the Deleted Objects library.
ReferenceHolders(d, x) ==
  {h \in Holders : x \in d.refs[h] /\ (h \in Groups => d.place[h] = "library")}

-----------------------------------------------------------------------------
(***************************************************************************)
(* The commands.  redo and undo take the database to the next one.         *)
(***************************************************************************)
Move(x, to, holders) ==
  [kind |-> "move", obj |-> x, from |-> db.place[x], to |-> to, holders |-> holders]
Delete(x) == [kind |-> "delete", obj |-> x]
Add(g) == [kind |-> "add", obj |-> g]
Change(h, members) ==
  [kind |-> "change", obj |-> h, from |-> db.refs[h], to |-> members]

MoveRedo(c, d) ==
  LET moved == [PutAt(d, c.obj, c.to) EXCEPT !.refs = [h \in Holders |->
                  IF h \in c.holders THEN SetDummy(h, TakeRef(h, @[h], c.obj))
                                     ELSE @[h]]]
  IN  Count(moved, {c.obj}, -Cardinality(c.holders))

\* Mutant: the references come back to rule elements only.
MoveUndoRules(c, d) ==
  [PutAt(d, c.obj, c.from) EXCEPT !.refs = [h \in Holders |->
     IF h \in c.holders \cap Rules THEN AddRef(h, @[h] \ {DummyObject}, c.obj)
                                   ELSE @[h]]]

MoveUndo(c, d) ==
  LET Unset(h) == IF dummies /\ d.refs[h] = {DummyObject} THEN {AnyObject} ELSE d.refs[h]
      moved == [PutAt(d, c.obj, c.from) EXCEPT !.refs = [h \in Holders |->
                  IF h \in c.holders THEN AddRef(h, Unset(h), c.obj) ELSE @[h]]]
  IN  Count(moved, {c.obj}, Cardinality(c.holders))

\* FWCmdDeleteObject::redo and undo, and FWCmdAddObject::undo and redo.
TakeOut(c, d) == Count(PutAt(d, c.obj, "nowhere"), {c.obj}, -1)
PutBack(c, d, where) == Count(PutAt(d, c.obj, where), {c.obj}, 1)

\* Group::duplicateForUndo counts what the holder gets, not what it loses.
Restore(h, members, d) ==
  Count([d EXCEPT !.refs[h] = members], members \cap Objects, 1)

Redone(c, d) ==
  CASE c.kind = "move"   -> MoveRedo(c, d)
    [] c.kind = "delete" -> TakeOut(c, d)
    [] c.kind = "add"    -> PutBack(c, d, "library")
    [] c.kind = "change" -> Restore(c.obj, c.to, d)

Undone(c, d) ==
  CASE c.kind = "move"   -> MoveUndo(c, d)
    [] c.kind = "delete" -> PutBack(c, d, "deleted")
    [] c.kind = "add"    -> TakeOut(c, d)
    [] c.kind = "change" -> Restore(c.obj, c.from, d)

\* How many of the commands at some positions of the stack keep the object.
Keeps(c, x) == c.kind \in {"delete", "add"} /\ c.obj = x
Keepers(at, x) == Cardinality({i \in at : Keeps(stack[i], x)})

\* Mutant: an owner that does not ask the counter.
DestroyAlways(at, d) ==
  [d EXCEPT !.freed = @ \cup {x \in Objects : Keepers(at, x) > 0}]

\* The destructors of the commands at some positions.  Each of those that keep an
\* object counts one less, or frees it when the counter is down to one.
Destroy(at, d) ==
  [d EXCEPT
     !.freed = @ \cup {x \in Objects : Keepers(at, x) > 0 /\ d.rc[x] <= Keepers(at, x)},
     !.rc = [x \in Objects |-> IF @[x] > Keepers(at, x) THEN @[x] - Keepers(at, x)
                               ELSE IF @[x] > 1 THEN 1 ELSE @[x]]]

\* Mutant: no delobj->ref().
NewDeleteUncounted(x) ==
  IF x \in Groups THEN Count(db, db.refs[x], 2) ELSE db

\* What the constructors count.  The states a change keeps are copies of the
\* holder, and the new one is edited before the command is pushed.
NewDelete(x) ==
  Count(IF x \in Groups THEN Count(db, db.refs[x], 2) ELSE db, {x}, 1)

NewChange(h, members) ==
  LET kept == Count(db, db.refs[h] \cap Objects, 2)
  IN  Count(Count(kept, members \ db.refs[h], 1), db.refs[h] \ members, -1)

-----------------------------------------------------------------------------
(***************************************************************************)
(* QUndoStack, modelled from how the program uses it: push redoes the      *)
(* command first and then deletes the undone ones.                         *)
(***************************************************************************)

\* Nothing defined follows the use of freed memory, and FWCmdMoveObject::redo
\* takes the only object left in an element for an Address.
Usable(d) == \A x \in d.freed : d.place[x] \notin InTree /\ clip # x
CastsAddress(c, d) ==
  c.kind = "move" /\ dummies =>
    \A r \in c.holders \cap Rules, g \in Groups : d.refs[r] # {g, c.obj}

Bounded(d) == \A x \in Objects : d.rc[x] <= MaxCount

Push(c, d) ==
  /\ Usable(db) /\ done < MaxStack /\ CastsAddress(c, d)
  /\ db' = Destroy((done + 1)..Len(stack), Redone(c, d))
  /\ Bounded(db')
  /\ stack' = Append(SubSeq(stack, 1, done), c)
  /\ done' = done + 1
  /\ past' = Append(past, Document(db))
  /\ future' = <<>>
  /\ UNCHANGED dummies

Undo ==
  /\ Usable(db) /\ done > 0 /\ stack[done].obj \notin db.freed
  /\ db' = Undone(stack[done], db)
  /\ Bounded(db')
  /\ done' = done - 1
  /\ past' = Front(past)
  /\ future' = <<Document(db)>> \o future
  /\ UNCHANGED <<stack, clip, dummies, uncounted>>

Redo ==
  /\ Usable(db) /\ done < Len(stack) /\ stack[done + 1].obj \notin db.freed
  /\ CastsAddress(stack[done + 1], db)
  /\ db' = Redone(stack[done + 1], db)
  /\ Bounded(db')
  /\ done' = done + 1
  /\ past' = Append(past, Document(db))
  /\ future' = Tail(future)
  /\ UNCHANGED <<stack, clip, dummies, uncounted>>

-----------------------------------------------------------------------------
(***************************************************************************)
(* What the user can do.                                                   *)
(***************************************************************************)
DeleteObject(x) ==
  /\ db.place[x] = "library"
  /\ Push(Move(x, "deleted", ReferenceHolders(db, x)), db)
  /\ UNCHANGED <<clip, uncounted>>

DeleteForever(x) ==
  /\ db.place[x] = "deleted"
  /\ Push(Delete(x), NewDelete(x))
  /\ UNCHANGED <<clip, uncounted>>

\* "Undelete" is a move without reference holders.
Undelete(x) ==
  /\ db.place[x] = "deleted"
  /\ Push(Move(x, "library", {}), db)
  /\ UNCHANGED <<clip, uncounted>>

NewGroup(g) ==
  /\ db.place[g] = "unborn"
  /\ Push(Add(g), Count([db EXCEPT !.refs[g] = {}], {g}, 1))
  /\ UNCHANGED <<clip, uncounted>>

\* The references of the copy are not counted in what they point to.
Duplicate(g, copy) ==
  /\ db.place[g] = "library" /\ db.place[copy] = "unborn"
  /\ Push(Add(copy), Count([db EXCEPT !.refs[copy] = db.refs[g]], {copy}, 1))
  /\ uncounted' = [x \in Objects |-> uncounted[x] + IF x \in db.refs[g] THEN 1 ELSE 0]
  /\ UNCHANGED clip

\* Editors are open on holders in the tree.
Editable(h) == h \in Groups => db.place[h] \in InTree
Edit(h, members) ==
  /\ Editable(h)
  /\ Push(Change(h, members), NewChange(h, members))
  /\ UNCHANGED <<clip, uncounted>>

\* Paste or drop in the group editor or the rule set view: no deleted object.
InsertObject(h, x) ==
  /\ db.place[x] = "library" /\ x \notin db.refs[h]
  /\ h \in Groups => x \in Hosts
  /\ Edit(h, AddRef(h, db.refs[h], x) \ {DummyObject})

RemoveObject(h, x) ==
  /\ x \in db.refs[h]
  /\ h \in Rules => IF dummies THEN x # DummyObject ELSE db.refs[h] # {AnyObject}
  /\ Edit(h, SetDummy(h, TakeRef(h, db.refs[h], x)))

ConvertToAny(r, x) == x \in db.refs[r] /\ Edit(r, TakeRef(r, db.refs[r], x))

\* Paste onto a group selected in the tree.
PasteInTree(g) ==
  /\ clip \in Hosts \ db.refs[g]
  /\ Edit(g, AddRef(g, db.refs[g], clip))

Copy(x) ==
  /\ Usable(db) /\ db.place[x] \in InTree
  /\ db' = Count(Count(db, {clip}, -1), {x}, 1)
  /\ Bounded(db')
  /\ clip' = x
  /\ UNCHANGED <<stack, done, dummies, uncounted, past, future>>

-----------------------------------------------------------------------------
\* A file has been loaded: reIndex has counted the parent and the references.
Init ==
  /\ \E place \in [Objects -> {"library"}], groups \in [Groups -> SUBSET Hosts] :
       \E rules \in [Rules -> {{AnyObject}} \cup ((SUBSET Objects) \ {{}})] :
         LET refs == [h \in Holders |-> IF h \in Rules THEN rules[h] ELSE groups[h]]
             living == Objects \ FreshGroups
         IN  /\ \A g \in FreshGroups : groups[g] = {}
             /\ \A h \in Holders : refs[h] \subseteq living \cup {AnyObject}
             /\ db = [place |-> [x \in Objects |-> IF x \in living THEN place[x]
                                                                   ELSE "unborn"],
                      refs  |-> refs,
                      rc    |-> [x \in Objects |-> IF x \in living
                                  THEN 1 + Cardinality({h \in Holders : x \in refs[h]})
                                  ELSE 0],
                      freed |-> {}]
  /\ stack = <<>> /\ done = 0
  /\ clip = NoObject
  /\ dummies \in BOOLEAN
  /\ uncounted = [x \in Objects |-> 0]
  /\ past = <<>> /\ future = <<>>

Next ==
  \/ \E x \in Objects : DeleteObject(x) \/ DeleteForever(x) \/ Undelete(x)
  \/ \E x \in Hosts : Copy(x)
  \/ \E g \in Groups : NewGroup(g) \/ PasteInTree(g)
  \/ \E g, copy \in Groups : Duplicate(g, copy)
  \/ \E h \in Holders, x \in Objects : InsertObject(h, x)
  \/ \E h \in Holders, x \in Objects \cup {AnyObject, DummyObject} : RemoveObject(h, x)
  \/ \E r \in Rules, x \in Objects \cup {DummyObject} : ConvertToAny(r, x)
  \/ Undo \/ Redo

Spec == Init /\ [][Next]_vars

-----------------------------------------------------------------------------
Commands ==
  [kind : {"move"}, obj : Objects, from : InTree, to : InTree, holders : SUBSET Holders]
  \cup [kind : {"delete"}, obj : Objects] \cup [kind : {"add"}, obj : Groups]
  \cup [kind : {"change"}, obj : Holders, from : SUBSET (Objects \cup {AnyObject, DummyObject}),
        to : SUBSET (Objects \cup {AnyObject, DummyObject})]

\* Types; a group holds hosts only, whatever the rules are given.
TypeOK ==
  /\ db.place \in [Objects -> {"unborn", "library", "deleted", "nowhere"}]
  /\ \A g \in Groups : db.refs[g] \subseteq Hosts
  /\ \A r \in Rules : db.refs[r] \subseteq Objects \cup {AnyObject, DummyObject}
  /\ db.rc \in [Objects -> Int] /\ db.freed \subseteq Objects
  /\ stack \in Seq(Commands) /\ done \in 0..Len(stack)
  /\ clip \in Objects \cup {NoObject} /\ dummies \in BOOLEAN
  /\ uncounted \in [Objects -> Nat]
  /\ past \in Seq(Documents) /\ future \in Seq(Documents)

\* The undo stack gives back exactly the document there was: the places of
\* the objects and every reference in groups and rules, over deletions that
\* strip references, deletions for ever, edits and copies, in any order.
History == INSTANCE EditHistory WITH document <- Document(db)
UndoRestores == History!Spec

\* A rule element is never empty, and Any or Dummy, which stand for no
\* restriction, are never beside a member (else the rule would match more
\* than its members), however deletions, edits, undo and redo follow.
RuleElementShape ==
  \A r \in Rules : /\ db.refs[r] # {}
                   /\ db.refs[r] \cap {AnyObject, DummyObject} # {} => Cardinality(db.refs[r]) = 1

\* A holder in the libraries that refers to what is not in them.
Stray(d, h, x) ==
  /\ h \in Groups => d.place[h] = "library"
  /\ x \in d.refs[h] \cap Objects /\ d.place[x] # "library"

\* Deleting an object leaves no reference to it in any group or rule in use:
\* such a reference only comes from a group that had one when it was deleted,
\* from a paste, or from a copy of such a group, never from a deletion, an
\* edit or a new object.
DeletionStrips ==
  [][\A h \in Holders, x \in Objects :
       Stray(db, h, x)' /\ ~Stray(db, h, x) =>
         \/ Undo \/ Redo \/ PasteInTree(h) \/ Undelete(h)
         \/ \E g \in Groups : Stray(db, g, x) /\ Duplicate(g, h)]_vars

Uses(x) ==
  (IF db.place[x] \in InTree THEN 1 ELSE 0)
  + Cardinality({h \in Holders \ db.freed : x \in db.refs[h]})
  + Keepers(DOMAIN stack, x)
  + (IF clip = x THEN 1 ELSE 0)

\* The counter of an object never falls below the number of places that
\* refer to it or keep it (the tree, groups and rules, commands, clipboard),
\* but for the references a copy did not count.
CountsCoverUses ==
  \A x \in Objects \ db.freed : db.rc[x] + uncounted[x] >= Uses(x)

\* An object is freed only when neither the tree nor the clipboard nor a
\* command that may still be undone or redone has it, unless it was in a
\* group that was duplicated.
FreedIsUnused ==
  \A x \in db.freed : uncounted[x] = 0 =>
    /\ db.place[x] \notin InTree /\ clip # x
    /\ \A i \in DOMAIN stack : stack[i].obj # x

\* The fix of #1976, "do not allow pasting object that has been deleted", as
\* a property of every paste.  The code does not keep this (README).
PasteSkipsDeleted ==
  [][\A g \in Groups : PasteInTree(g) => db.place[clip] = "library"]_vars

\* The comment of FWCmdMoveObject: the object always belongs to the tree and
\* so the command need not keep it; at least it must not be freed while the
\* command may be undone or redone.
MovedObjectLives ==
  \A i \in DOMAIN stack : stack[i].kind = "move" => stack[i].obj \notin db.freed

=============================================================================
