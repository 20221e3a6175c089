------------------------- MODULE ObjectDeletionProofs -------------------------
(***************************************************************************)
(* The undo stack of ObjectDeletion, for any number of objects, groups,    *)
(* rules and commands: every command takes the document before it to the   *)
(* one after it and back (HistoryInv), and from this follow that Undo      *)
(* restores the document, that the counters cover the uses and that an     *)
(* object is freed only when nothing refers to it.                         *)
(***************************************************************************)
EXTENDS ObjectDeletion, FiniteSetTheorems, SequenceTheorems, TLAPS

Members == Objects \cup {AnyObject, DummyObject}
Places == {"unborn", "library", "deleted", "nowhere"}
Databases == [place : [Objects -> Places], refs : [Holders -> SUBSET Members],
              rc : [Objects -> Int], freed : SUBSET Objects]

TypeInv == TypeOK /\ db \in Databases

\* the members of a rule element
Shaped(m) ==
  /\ m # {}
  /\ AnyObject \in m => m = {AnyObject}
  /\ DummyObject \in m => m = {DummyObject}
  /\ ~dummies => DummyObject \notin m

ShapeInv == \A r \in Rules : Shaped(db.refs[r])

\* what a command puts into the holders is fit for them
Fit(c) ==
  /\ c.kind = "move" => c.obj \in Hosts \/ c.holders \subseteq Rules
  /\ c.kind = "change" => IF c.obj \in Rules THEN Shaped(c.from) /\ Shaped(c.to)
                          ELSE c.from \subseteq Hosts /\ c.to \subseteq Hosts

FitInv == \A i \in DOMAIN stack : Fit(stack[i])

-----------------------------------------------------------------------------
(* The documents around the commands: the command at position i takes       *)
(* Docs(i) to Docs(i + 1), and the present document is Docs(done + 1).       *)
Docs(i) ==
  IF i <= done THEN past[i]
  ELSE IF i = done + 1 THEN Document(db) ELSE future[i - done - 1]

Positions == 1..Len(stack)
Points == 1..(Len(stack) + 1)

\* what is not in the tree shows no members
DocOK(D) ==
  D \in Documents /\ \A g \in Groups : D.place[g] = "nowhere" => D.refs[g] = {}

MoveStep(c, D, E) ==
  /\ D.place[c.obj] = c.from /\ E.place = [D.place EXCEPT ![c.obj] = c.to]
  /\ \A h \in c.holders : c.obj \in D.refs[h] /\ (h \in Rules => Shaped(D.refs[h]))
  /\ \A h \in Holders : E.refs[h] = IF h \in c.holders
                                    THEN SetDummy(h, TakeRef(h, D.refs[h], c.obj))
                                    ELSE D.refs[h]

DeleteStep(c, D, E) ==
  /\ D.place[c.obj] = "deleted" /\ E.place = [D.place EXCEPT ![c.obj] = "nowhere"]
  /\ \A h \in Holders : E.refs[h] = IF h = c.obj THEN {} ELSE D.refs[h]

AddStep(c, D, E) ==
  /\ D.place[c.obj] = "nowhere" /\ E.place = [D.place EXCEPT ![c.obj] = "library"]
  /\ \A h \in Holders : h # c.obj => E.refs[h] = D.refs[h]

ChangeStep(c, D, E) ==
  /\ E.place = D.place /\ (c.obj \in Groups => D.place[c.obj] # "nowhere")
  /\ D.refs[c.obj] = c.from
  /\ \A h \in Holders : E.refs[h] = IF h = c.obj THEN c.to ELSE D.refs[h]

Step(c, D, E) ==
  \/ c.kind = "move" /\ MoveStep(c, D, E)
  \/ c.kind = "delete" /\ DeleteStep(c, D, E)
  \/ c.kind = "add" /\ AddStep(c, D, E)
  \/ c.kind = "change" /\ ChangeStep(c, D, E)

HistoryInv ==
  /\ Len(past) = done /\ Len(future) = Len(stack) - done
  /\ \A j \in Points : DocOK(Docs(j))
  /\ \A i \in Positions : Step(stack[i], Docs(i), Docs(i + 1))

\* A group that is made comes from nowhere and one deleted for ever is gone for good;
\* while it is away nothing changes its members.
AwayInv ==
  \A i \in Positions :
    /\ stack[i].kind = "add" =>
         /\ \A j \in 1..i : Docs(j).place[stack[i].obj] = "nowhere"
         /\ done < i => db.refs[stack[i].obj] = Docs(i + 1).refs[stack[i].obj]
    /\ stack[i].kind = "delete" =>
         /\ \A j \in (i + 1)..(Len(stack) + 1) : Docs(j).place[stack[i].obj] = "nowhere"
         /\ i <= done /\ stack[i].obj \in Groups =>
              db.refs[stack[i].obj] = Docs(i).refs[stack[i].obj]

\* a group that has never been made has no part in all this
UnbornInv ==
  \A x \in Objects : db.place[x] = "unborn" =>
    /\ x \notin db.freed
    /\ \A i \in Positions : ~Keeps(stack[i], x)
    /\ \A j \in Points : Docs(j).place[x] = "nowhere"

\* what was in the tree and is not any more has been deleted in between
WentInv ==
  \A x \in Objects, j \in Points : \A i \in 1..j :
    Docs(i).place[x] # "nowhere" /\ Docs(j).place[x] = "nowhere" =>
      \E k \in i..(j - 1) : Keeps(stack[k], x)

Inv == /\ TypeInv /\ ShapeInv /\ FitInv /\ HistoryInv /\ AwayInv /\ UnbornInv /\ WentInv
       /\ CountsCoverUses /\ FreedIsUnused

-----------------------------------------------------------------------------
(* The operators on the database.                                           *)

LEMMA FiniteHolders ==
  /\ IsFiniteSet(Holders) /\ IsFiniteSet(Objects)
  /\ \A s \in SUBSET Holders : IsFiniteSet(s) /\ Cardinality(s) \in Nat
<1>1. IsFiniteSet(Holders) /\ IsFiniteSet(Objects)
  BY DeletionAssumption, FS_Union DEF Holders, Objects
<1>2. QED
  BY <1>1, FS_Subset, FS_CardinalityType

LEMMA Kinds ==
  ASSUME NEW c \in Commands
  PROVE  \/ /\ c.kind = "move" /\ c.obj \in Objects /\ c.from \in InTree /\ c.to \in InTree
            /\ c.holders \subseteq Holders
         \/ c.kind = "delete" /\ c.obj \in Objects
         \/ c.kind = "add" /\ c.obj \in Groups
         \/ /\ c.kind = "change" /\ c.obj \in Holders
            /\ c.from \subseteq Members /\ c.to \subseteq Members
BY DEF Commands, Members

LEMMA Apart ==
  /\ \A g \in Groups : g \notin Hosts /\ g \notin Rules /\ g \in Objects /\ g \in Holders
  /\ \A r \in Rules : r \notin Objects /\ r \in Holders
  /\ \A x \in Hosts : x \notin Holders /\ x \in Objects
  /\ \A x \in Objects : x # AnyObject /\ x # DummyObject /\ x # NoObject
  /\ AnyObject # DummyObject
BY DeletionAssumption DEF Objects, Holders

LEMMA CountFields ==
  ASSUME NEW d \in Databases, NEW xs, NEW n \in Int
  PROVE  /\ Count(d, xs, n) \in Databases
         /\ Count(d, xs, n).place = d.place /\ Count(d, xs, n).refs = d.refs
         /\ Count(d, xs, n).freed = d.freed
         /\ \A x \in Objects : Count(d, xs, n).rc[x] = IF x \in xs THEN d.rc[x] + n ELSE d.rc[x]
BY DEF Count, Databases

LEMMA PutAtFields ==
  ASSUME NEW d \in Databases, NEW x \in Objects, NEW p \in Places
  PROVE  /\ PutAt(d, x, p) \in Databases
         /\ PutAt(d, x, p).place = [d.place EXCEPT ![x] = p]
         /\ PutAt(d, x, p).refs = d.refs /\ PutAt(d, x, p).freed = d.freed
         /\ PutAt(d, x, p).rc = d.rc
BY DEF PutAt, Databases

LEMMA Members1 ==
  ASSUME NEW h \in Holders, NEW m \in SUBSET Members, NEW x \in Objects
  PROVE  /\ AddRef(h, m, x) \subseteq Members /\ TakeRef(h, m, x) \subseteq Members
         /\ SetDummy(h, m) \subseteq Members
BY DEF AddRef, TakeRef, SetDummy, Members

LEMMA MoveRedoFields ==
  ASSUME NEW d \in Databases, NEW c, c.obj \in Objects, c.to \in InTree,
         c.holders \subseteq Holders
  PROVE  LET e == MoveRedo(c, d)
         IN  /\ e \in Databases /\ e.freed = d.freed
             /\ e.place = [d.place EXCEPT ![c.obj] = c.to]
             /\ e.refs = [h \in Holders |-> IF h \in c.holders
                                            THEN SetDummy(h, TakeRef(h, d.refs[h], c.obj))
                                            ELSE d.refs[h]]
             /\ \A x \in Objects : e.rc[x] = IF x = c.obj
                                             THEN d.rc[x] - Cardinality(c.holders)
                                             ELSE d.rc[x]
<1> DEFINE p == PutAt(d, c.obj, c.to)
           refs == [h \in Holders |-> IF h \in c.holders
                                      THEN SetDummy(h, TakeRef(h, p.refs[h], c.obj))
                                      ELSE p.refs[h]]
           m == [p EXCEPT !.refs = refs]
<1>1. /\ p \in Databases /\ p.place = [d.place EXCEPT ![c.obj] = c.to] /\ p.refs = d.refs
      /\ p.freed = d.freed /\ p.rc = d.rc
  <2>1. c.to \in Places
    BY DEF Places, InTree
  <2>2. QED
    BY <2>1, PutAtFields
<1>2. refs \in [Holders -> SUBSET Members]
  <2>1. ASSUME NEW h \in Holders
        PROVE  /\ p.refs[h] \in SUBSET Members
               /\ SetDummy(h, TakeRef(h, p.refs[h], c.obj)) \in SUBSET Members
    <3> HIDE DEF p
    <3>1. p.refs[h] \in SUBSET Members
      BY <1>1, <2>1 DEF Databases
    <3>2. TakeRef(h, p.refs[h], c.obj) \in SUBSET Members
      BY <2>1, <3>1, Members1
    <3>3. QED
      BY <2>1, <3>1, <3>2, Members1
  <2>2. QED
    BY <2>1
<1>3. /\ m \in Databases /\ m.place = p.place /\ m.refs = refs /\ m.freed = p.freed
      /\ m.rc = p.rc
  <2> HIDE DEF p, refs
  <2>1. QED
    BY <1>1, <1>2 DEF Databases
<1>4. -Cardinality(c.holders) \in Int
  BY FiniteHolders
<1>5. MoveRedo(c, d) = Count(m, {c.obj}, -Cardinality(c.holders))
  BY DEF MoveRedo
<1>6. QED
  <2> HIDE DEF m, p, refs
  <2>1. /\ MoveRedo(c, d) \in Databases /\ MoveRedo(c, d).place = m.place
        /\ MoveRedo(c, d).refs = m.refs /\ MoveRedo(c, d).freed = m.freed
        /\ \A x \in Objects : MoveRedo(c, d).rc[x]
             = IF x \in {c.obj} THEN m.rc[x] + (-Cardinality(c.holders)) ELSE m.rc[x]
    BY <1>3, <1>4, <1>5, CountFields
  <2>2. \A x \in Objects : m.rc[x] \in Int /\ Cardinality(c.holders) \in Int
    BY <1>3, FiniteHolders DEF Databases
  <2>3. QED
    BY <1>1, <1>3, <2>1, <2>2 DEF refs

\* an element shown as Dummy is given Any back before the object returns
Unset(h, m) == IF dummies /\ m = {DummyObject} THEN {AnyObject} ELSE m

LEMMA MoveUndoFields ==
  ASSUME NEW d \in Databases, NEW c, c.obj \in Objects, c.from \in InTree,
         c.holders \subseteq Holders
  PROVE  LET e == MoveUndo(c, d)
         IN  /\ e \in Databases /\ e.freed = d.freed
             /\ e.place = [d.place EXCEPT ![c.obj] = c.from]
             /\ e.refs = [h \in Holders |-> IF h \in c.holders
                                            THEN AddRef(h, Unset(h, d.refs[h]), c.obj)
                                            ELSE d.refs[h]]
             /\ \A x \in Objects : e.rc[x] = IF x = c.obj
                                             THEN d.rc[x] + Cardinality(c.holders)
                                             ELSE d.rc[x]
<1> DEFINE p == PutAt(d, c.obj, c.from)
           refs == [h \in Holders |-> IF h \in c.holders
                                      THEN AddRef(h, Unset(h, d.refs[h]), c.obj)
                                      ELSE p.refs[h]]
           m == [p EXCEPT !.refs = refs]
<1>1. /\ p \in Databases /\ p.place = [d.place EXCEPT ![c.obj] = c.from] /\ p.refs = d.refs
      /\ p.freed = d.freed /\ p.rc = d.rc
  <2>1. c.from \in Places
    BY DEF Places, InTree
  <2>2. QED
    BY <2>1, PutAtFields
<1>2. refs \in [Holders -> SUBSET Members]
  <2>1. ASSUME NEW h \in Holders
        PROVE  /\ d.refs[h] \in SUBSET Members /\ p.refs[h] \in SUBSET Members
               /\ AddRef(h, Unset(h, d.refs[h]), c.obj) \in SUBSET Members
    <3> HIDE DEF p
    <3>1. d.refs[h] \in SUBSET Members /\ p.refs[h] \in SUBSET Members
      BY <1>1, <2>1 DEF Databases
    <3>2. Unset(h, d.refs[h]) \in SUBSET Members
      BY <3>1 DEF Unset, Members
    <3>3. QED
      BY <2>1, <3>1, <3>2, Members1
  <2>2. QED
    BY <2>1
<1>3. /\ m \in Databases /\ m.place = p.place /\ m.refs = refs /\ m.freed = p.freed
      /\ m.rc = p.rc
  <2> HIDE DEF p, refs
  <2>1. QED
    BY <1>1, <1>2 DEF Databases
<1>4. Cardinality(c.holders) \in Int
  BY FiniteHolders
<1>5. MoveUndo(c, d) = Count(m, {c.obj}, Cardinality(c.holders))
  BY DEF MoveUndo, Unset
<1>6. QED
  <2> HIDE DEF m, p, refs
  <2>1. /\ MoveUndo(c, d) \in Databases /\ MoveUndo(c, d).place = m.place
        /\ MoveUndo(c, d).refs = m.refs /\ MoveUndo(c, d).freed = m.freed
        /\ \A x \in Objects : MoveUndo(c, d).rc[x]
             = IF x \in {c.obj} THEN m.rc[x] + Cardinality(c.holders) ELSE m.rc[x]
    BY <1>3, <1>4, <1>5, CountFields
  <2>2. QED
    BY <1>1, <1>3, <2>1 DEF refs

LEMMA TakeOutFields ==
  ASSUME NEW d \in Databases, NEW c, c.obj \in Objects
  PROVE  LET e == TakeOut(c, d)
         IN  /\ e \in Databases /\ e.place = [d.place EXCEPT ![c.obj] = "nowhere"]
             /\ e.refs = d.refs /\ e.freed = d.freed
             /\ \A x \in Objects : e.rc[x] = IF x = c.obj THEN d.rc[x] - 1 ELSE d.rc[x]
<1> DEFINE n == PutAt(d, c.obj, "nowhere")
<1>1. "nowhere" \in Places
  BY DEF Places
<1>2. /\ n \in Databases /\ n.place = [d.place EXCEPT ![c.obj] = "nowhere"] /\ n.refs = d.refs
      /\ n.freed = d.freed /\ n.rc = d.rc
  BY <1>1, PutAtFields
<1>3. TakeOut(c, d) = Count(n, {c.obj}, -1)
  BY DEF TakeOut
<1> HIDE DEF n
<1>4. LET e == Count(n, {c.obj}, -1)
      IN  /\ e \in Databases /\ e.place = n.place /\ e.refs = n.refs /\ e.freed = n.freed
          /\ \A x \in Objects : e.rc[x] = IF x \in {c.obj} THEN n.rc[x] + (-1) ELSE n.rc[x]
  BY <1>2, CountFields
<1>5. \A x \in Objects : d.rc[x] \in Int /\ d.rc[x] + (-1) = d.rc[x] - 1
  BY DEF Databases
<1>6. QED
  BY <1>2, <1>3, <1>4, <1>5

LEMMA PutBackFields ==
  ASSUME NEW d \in Databases, NEW c, c.obj \in Objects, NEW p \in Places
  PROVE  LET e == PutBack(c, d, p)
         IN  /\ e \in Databases /\ e.place = [d.place EXCEPT ![c.obj] = p]
             /\ e.refs = d.refs /\ e.freed = d.freed
             /\ \A x \in Objects : e.rc[x] = IF x = c.obj THEN d.rc[x] + 1 ELSE d.rc[x]
<1> DEFINE b == PutAt(d, c.obj, p)
<1>1. /\ b \in Databases /\ b.place = [d.place EXCEPT ![c.obj] = p] /\ b.refs = d.refs
      /\ b.freed = d.freed /\ b.rc = d.rc
  BY PutAtFields
<1>2. PutBack(c, d, p) = Count(b, {c.obj}, 1)
  BY DEF PutBack
<1> HIDE DEF b
<1>3. LET e == Count(b, {c.obj}, 1)
      IN  /\ e \in Databases /\ e.place = b.place /\ e.refs = b.refs /\ e.freed = b.freed
          /\ \A x \in Objects : e.rc[x] = IF x \in {c.obj} THEN b.rc[x] + 1 ELSE b.rc[x]
  BY <1>1, CountFields
<1>4. QED
  BY <1>1, <1>2, <1>3

LEMMA RestoreFields ==
  ASSUME NEW d \in Databases, NEW h \in Holders, NEW m \in SUBSET Members
  PROVE  LET e == Restore(h, m, d)
         IN  /\ e \in Databases /\ e.place = d.place /\ e.freed = d.freed
             /\ e.refs = [d.refs EXCEPT ![h] = m]
             /\ \A x \in Objects : e.rc[x] = IF x \in m THEN d.rc[x] + 1 ELSE d.rc[x]
<1> DEFINE n == [d EXCEPT !.refs[h] = m]
<1>1. /\ n \in Databases /\ n.place = d.place /\ n.freed = d.freed /\ n.rc = d.rc
      /\ n.refs = [d.refs EXCEPT ![h] = m]
  BY DEF Databases
<1>2. Restore(h, m, d) = Count(n, m \cap Objects, 1)
  BY DEF Restore
<1> HIDE DEF n
<1>3. QED
  BY <1>1, <1>2, CountFields


LEMMA DatabaseFields ==
  ASSUME NEW d \in Databases
  PROVE  /\ d.place \in [Objects -> Places] /\ d.refs \in [Holders -> SUBSET Members]
         /\ d.rc \in [Objects -> Int] /\ d.freed \subseteq Objects
BY DEF Databases

-----------------------------------------------------------------------------
(* The document of a database.                                              *)

Visible(d, h) == h \in Rules \/ d.place[h] \in InTree

LEMMA DocumentFields ==
  ASSUME NEW d \in Databases
  PROVE  LET D == Document(d)
         IN  /\ DocOK(D)
             /\ \A x \in Objects : D.place[x] = IF d.place[x] \in InTree THEN d.place[x]
                                                ELSE "nowhere"
             /\ \A h \in Holders : D.refs[h] = IF Visible(d, h) THEN d.refs[h] ELSE {}
<1> DEFINE D == Document(d)
           place == [x \in Objects |-> IF d.place[x] \in InTree THEN d.place[x] ELSE "nowhere"]
           refs == [h \in Holders |-> Holds(d, h)]
<1>1. D = [place |-> place, refs |-> refs]
  BY DEF Document
<1>2. place \in [Objects -> {"library", "deleted", "nowhere"}]
  BY DEF InTree
<1>3. \A h \in Holders : Holds(d, h) = IF Visible(d, h) THEN d.refs[h] ELSE {}
  BY DEF Holds, Visible
<1>4. \A h \in Holders : Holds(d, h) \in SUBSET Members
  BY <1>3, DatabaseFields
<1>5. refs \in [Holders -> SUBSET Members]
  BY <1>4
<1>6. D.place = place /\ D.refs = refs
  BY <1>1
<1>7. D \in Documents
  <2> HIDE DEF D, place, refs
  <2>1. QED
    BY <1>1, <1>2, <1>5 DEF Documents, Members
<1>8. ASSUME NEW g \in Groups, D.place[g] = "nowhere"
      PROVE  D.refs[g] = {}
  <2>1. g \in Objects /\ g \in Holders /\ g \notin Rules
    BY Apart
  <2>2. D.place[g] = place[g] /\ D.refs[g] = Holds(d, g)
    BY <1>6, <2>1
  <2>3. d.place[g] \notin InTree
    BY <1>8, <2>1, <2>2 DEF InTree
  <2>4. QED
    BY <1>3, <2>1, <2>2, <2>3 DEF Visible
<1>9. /\ \A x \in Objects : D.place[x] = IF d.place[x] \in InTree THEN d.place[x] ELSE "nowhere"
      /\ \A h \in Holders : D.refs[h] = IF Visible(d, h) THEN d.refs[h] ELSE {}
  BY <1>3, <1>6
<1>10. DocOK(D)
  <2> HIDE DEF D
  <2>1. QED
    BY <1>7, <1>8 DEF DocOK
<1>11. QED
  BY <1>9, <1>10

LEMMA DocumentIs ==
  ASSUME NEW d \in Databases, NEW D \in Documents,
         \A x \in Objects : D.place[x] = IF d.place[x] \in InTree THEN d.place[x]
                                         ELSE "nowhere",
         \A h \in Holders : D.refs[h] = IF Visible(d, h) THEN d.refs[h] ELSE {}
  PROVE  Document(d) = D
<1>1. /\ D = [place |-> D.place, refs |-> D.refs]
      /\ D.place = [x \in Objects |-> D.place[x]]
      /\ D.refs = [h \in Holders |-> D.refs[h]]
  BY DEF Documents
<1>2. D.place = [x \in Objects |-> IF d.place[x] \in InTree THEN d.place[x] ELSE "nowhere"]
  BY <1>1
<1>3. \A h \in Holders : D.refs[h] = Holds(d, h)
  BY DEF Holds, Visible
<1>4. D.refs = [h \in Holders |-> Holds(d, h)]
  BY <1>1, <1>3
<1>5. QED
  BY <1>1, <1>2, <1>4 DEF Document

LEMMA SameDocument ==
  ASSUME NEW d \in Databases, NEW e \in Databases, d.place = e.place, d.refs = e.refs
  PROVE  Document(d) = Document(e)
BY DEF Document, Holds

\* what the document shows of a holder is what the database has of it
LEMMA Shown ==
  ASSUME NEW d \in Databases
  PROVE  LET D == Document(d)
         IN  /\ \A x \in Objects : D.place[x] # "nowhere" <=> d.place[x] \in InTree
             /\ \A x \in Objects : D.place[x] # "nowhere" => d.place[x] = D.place[x]
             /\ \A r \in Rules : d.refs[r] = D.refs[r]
             /\ \A g \in Groups : D.place[g] # "nowhere" => d.refs[g] = D.refs[g]
<1> DEFINE D == Document(d)
<1>1. /\ \A x \in Objects : D.place[x] = IF d.place[x] \in InTree THEN d.place[x] ELSE "nowhere"
      /\ \A h \in Holders : D.refs[h] = IF Visible(d, h) THEN d.refs[h] ELSE {}
  BY DocumentFields
<1> HIDE DEF D
<1>2. \A x \in Objects : D.place[x] # "nowhere" <=> d.place[x] \in InTree
  BY <1>1 DEF InTree
<1>3. \A r \in Rules : d.refs[r] = D.refs[r]
  BY <1>1, Apart DEF Visible
<1>4. \A g \in Groups : D.place[g] # "nowhere" => d.refs[g] = D.refs[g]
  BY <1>1, <1>2, Apart DEF Visible
<1>5. QED
  BY <1>1, <1>2, <1>3, <1>4 DEF D

-----------------------------------------------------------------------------
(* A command, done or undone on a database whose document is the one it was *)
(* made for, gives the document on its other side.                           *)

\* A rule element or a group gets back the members it had before the object left.
LEMMA TakenAndPutBack ==
  ASSUME NEW h \in Holders, NEW m, NEW x \in Objects, x \in m,
         h \in Rules => Shaped(m), h \in Groups => m \subseteq Hosts
  PROVE  AddRef(h, Unset(h, SetDummy(h, TakeRef(h, m, x))), x) = m
<1>1. x # AnyObject /\ x # DummyObject /\ AnyObject # DummyObject
  BY Apart
<1>2. CASE h \in Rules
  <2>1. AnyObject \notin m /\ DummyObject \notin m
    BY <1>1, <1>2 DEF Shaped
  <2>2. CASE m = {x}
    BY <1>1, <1>2, <2>2 DEF AddRef, Unset, SetDummy, TakeRef
  <2>3. CASE m # {x}
    <3>1. m \ {x} # {} /\ m \ {x} # {AnyObject} /\ m \ {x} # {DummyObject}
      BY <2>1, <2>3
    <3>2. SetDummy(h, TakeRef(h, m, x)) = m \ {x}
      BY <3>1 DEF SetDummy, TakeRef
    <3>3. Unset(h, m \ {x}) = m \ {x}
      BY <3>1 DEF Unset
    <3>4. AddRef(h, m \ {x}, x) = m
      BY <3>1 DEF AddRef
    <3>5. QED
      BY <3>2, <3>3, <3>4
  <2>4. QED
    BY <2>2, <2>3
<1>3. CASE h \notin Rules
  <2>1. m \subseteq Hosts /\ DummyObject \notin m
    BY <1>3, Apart DEF Holders
  <2>2. SetDummy(h, TakeRef(h, m, x)) = m \ {x}
    BY <1>3 DEF SetDummy, TakeRef
  <2>3. Unset(h, m \ {x}) = m \ {x}
    BY <2>1 DEF Unset
  <2>4. AddRef(h, m \ {x}, x) = m
    BY <1>3 DEF AddRef
  <2>5. QED
    BY <2>2, <2>3, <2>4
<1>4. QED
  BY <1>2, <1>3

\* groups hold hosts and rule elements are well formed
Proper(d) ==
  /\ d \in Databases
  /\ \A g \in Groups : d.refs[g] \subseteq Hosts
  /\ \A r \in Rules : Shaped(d.refs[r])

\* what a command about an object does besides the document
Follows(d, e, o) ==
  /\ Proper(e) /\ e.freed = d.freed
  /\ \A x \in Objects : IF x = o THEN e.place[x] # "unborn" ELSE e.place[x] = d.place[x]
  /\ \A g \in Groups : d.place[g] \notin InTree /\ e.place[g] \notin InTree
                       => e.refs[g] = d.refs[g]

LEMMA MoveUndone ==
  ASSUME NEW d, Proper(d), NEW c \in Commands, c.kind = "move", Fit(c),
         NEW D, DocOK(D), MoveStep(c, D, Document(d))
  PROVE  Document(MoveUndo(c, d)) = D /\ Follows(d, MoveUndo(c, d), c.obj)
<1> DEFINE e == MoveUndo(c, d)
           E == Document(d)
<1>0. /\ c.obj \in Objects /\ c.from \in InTree /\ c.to \in InTree /\ c.holders \subseteq Holders
      /\ d \in Databases /\ D \in Documents
  BY Kinds DEF Proper, DocOK
<1>1. /\ e \in Databases /\ e.freed = d.freed
      /\ e.place = [d.place EXCEPT ![c.obj] = c.from]
      /\ e.refs = [h \in Holders |-> IF h \in c.holders THEN AddRef(h, Unset(h, d.refs[h]), c.obj)
                                                        ELSE d.refs[h]]
  BY <1>0, MoveUndoFields
<1> HIDE DEF e
<1>2. /\ d.place \in [Objects -> Places] /\ D.place \in [Objects -> {"library", "deleted", "nowhere"}]
      /\ D.refs \in [Holders -> SUBSET Members]
  BY <1>0, DatabaseFields DEF Documents, Members
<1>3. /\ D.place[c.obj] = c.from /\ E.place = [D.place EXCEPT ![c.obj] = c.to]
      /\ \A h \in c.holders : c.obj \in D.refs[h] /\ (h \in Rules => Shaped(D.refs[h]))
      /\ \A h \in Holders : E.refs[h] = IF h \in c.holders
                                        THEN SetDummy(h, TakeRef(h, D.refs[h], c.obj))
                                        ELSE D.refs[h]
  BY DEF MoveStep
<1>4. /\ \A x \in Objects : E.place[x] = IF d.place[x] \in InTree THEN d.place[x] ELSE "nowhere"
      /\ \A h \in Holders : E.refs[h] = IF Visible(d, h) THEN d.refs[h] ELSE {}
  BY <1>0, DocumentFields
<1> HIDE DEF E
<1>5. /\ \A x \in Objects : x # c.obj => E.place[x] = D.place[x] /\ e.place[x] = d.place[x]
      /\ e.place[c.obj] = c.from /\ E.place[c.obj] = c.to
  BY <1>0, <1>1, <1>2, <1>3
<1>6. d.place[c.obj] = c.to /\ c.to # "nowhere" /\ c.from # "nowhere" /\ c.from # "unborn"
  BY <1>0, <1>4, <1>5 DEF InTree
<1>7. \A x \in Objects : D.place[x] = IF e.place[x] \in InTree THEN e.place[x] ELSE "nowhere"
  BY <1>0, <1>3, <1>4, <1>5
<1>8. \A h \in Holders : Visible(d, h) <=> Visible(e, h)
  <2>1. ASSUME NEW g \in Groups
        PROVE  d.place[g] \in InTree <=> e.place[g] \in InTree
    <3>1. g \in Objects
      BY Apart
    <3>2. QED
      BY <1>0, <1>5, <1>6, <3>1
  <2>2. QED
    BY <2>1 DEF Visible, Holders
<1>9. ASSUME NEW h \in c.holders
      PROVE  Visible(d, h) /\ e.refs[h] = D.refs[h]
  <2>1. h \in Holders /\ c.obj \in D.refs[h] /\ (h \in Rules => Shaped(D.refs[h]))
    BY <1>0, <1>3
  <2>2. Visible(d, h)
    <3>1. CASE h \in Groups
      <4>1. D.place[h] # "nowhere" /\ h \in Objects
        BY <2>1, <3>1, Apart DEF DocOK
      <4>2. E.place[h] # "nowhere"
        BY <1>5, <1>6, <4>1
      <4>3. QED
        BY <1>4, <4>1, <4>2 DEF Visible
    <3>2. QED
      BY <2>1, <3>1 DEF Visible, Holders
  <2>3. d.refs[h] = SetDummy(h, TakeRef(h, D.refs[h], c.obj))
    BY <1>3, <1>4, <2>1, <2>2
  <2>4. h \in Groups => D.refs[h] \subseteq Hosts
    <3>1. CASE h \in Groups
      <4>1. h \notin Rules /\ d.refs[h] \subseteq Hosts
        BY <3>1, Apart DEF Proper
      <4>2. d.refs[h] = D.refs[h] \ {c.obj}
        BY <2>3, <4>1 DEF SetDummy, TakeRef
      <4>3. c.obj \in Hosts
        BY <3>1, Apart DEF Fit
      <4>4. QED
        BY <4>1, <4>2, <4>3
    <3>2. QED
      BY <3>1
  <2>5. AddRef(h, Unset(h, d.refs[h]), c.obj) = D.refs[h]
    BY <1>0, <2>1, <2>3, <2>4, TakenAndPutBack
  <2>6. QED
    BY <1>1, <2>1, <2>2, <2>5
<1>10. \A h \in Holders : h \notin c.holders => e.refs[h] = d.refs[h]
  BY <1>1
<1>11. \A h \in Holders : D.refs[h] = IF Visible(e, h) THEN e.refs[h] ELSE {}
  BY <1>3, <1>4, <1>8, <1>9, <1>10
<1>12. Document(e) = D
  BY <1>0, <1>1, <1>7, <1>11, DocumentIs
<1>13. \A g \in Groups : e.refs[g] \subseteq Hosts
  <2>1. ASSUME NEW g \in Groups
        PROVE  e.refs[g] \subseteq Hosts
    <3>1. g \in Holders /\ g \notin Rules /\ d.refs[g] \subseteq Hosts
      BY Apart DEF Proper
    <3>2. CASE g \in c.holders
      <4>1. c.obj \in Hosts
        BY <3>1, <3>2 DEF Fit
      <4>2. DummyObject \notin d.refs[g]
        BY <3>1, Apart
      <4>3. Unset(g, d.refs[g]) = d.refs[g]
        BY <4>2 DEF Unset
      <4>4. e.refs[g] = d.refs[g] \cup {c.obj}
        BY <1>1, <3>1, <3>2, <4>3 DEF AddRef
      <4>5. QED
        BY <3>1, <4>1, <4>4
    <3>3. QED
      BY <1>10, <3>1, <3>2
  <2>2. QED
    BY <2>1
<1>14. \A r \in Rules : Shaped(e.refs[r])
  BY <1>3, <1>9, <1>10, Apart DEF Proper
<1>15. \A g \in Groups : d.place[g] \notin InTree => e.refs[g] = d.refs[g]
  BY <1>9, <1>10, Apart DEF Visible
<1>16. QED
  <2>1. Proper(e)
    BY <1>1, <1>13, <1>14 DEF Proper
  <2>2. \A x \in Objects : IF x = c.obj THEN e.place[x] # "unborn" ELSE e.place[x] = d.place[x]
    BY <1>5, <1>6
  <2>3. QED
    BY <1>1, <1>12, <1>15, <2>1, <2>2 DEF Follows, e

LEMMA MoveRedone ==
  ASSUME NEW d, Proper(d), NEW c \in Commands, c.kind = "move", Fit(c),
         d.place[c.obj] = c.from,
         \A h \in c.holders : c.obj \in d.refs[h] /\ Visible(d, h)
  PROVE  /\ MoveStep(c, Document(d), Document(MoveRedo(c, d)))
         /\ Follows(d, MoveRedo(c, d), c.obj)
<1> DEFINE e == MoveRedo(c, d)
           D == Document(d)
           E == Document(e)
<1>0. /\ c.obj \in Objects /\ c.from \in InTree /\ c.to \in InTree /\ c.holders \subseteq Holders
      /\ d \in Databases
  BY Kinds DEF Proper
<1>1. /\ e \in Databases /\ e.freed = d.freed
      /\ e.place = [d.place EXCEPT ![c.obj] = c.to]
      /\ e.refs = [h \in Holders |-> IF h \in c.holders
                                     THEN SetDummy(h, TakeRef(h, d.refs[h], c.obj))
                                     ELSE d.refs[h]]
  BY <1>0, MoveRedoFields
<1> HIDE DEF e
<1>2. /\ d.place \in [Objects -> Places] /\ d.refs \in [Holders -> SUBSET Members]
      /\ \A x \in Objects : d.place[x] \in Places
  BY <1>0, DatabaseFields
<1>3. /\ DocOK(D)
      /\ \A x \in Objects : D.place[x] = IF d.place[x] \in InTree THEN d.place[x] ELSE "nowhere"
      /\ \A h \in Holders : D.refs[h] = IF Visible(d, h) THEN d.refs[h] ELSE {}
  BY <1>0, DocumentFields
<1>4. /\ DocOK(E)
      /\ \A x \in Objects : E.place[x] = IF e.place[x] \in InTree THEN e.place[x] ELSE "nowhere"
      /\ \A h \in Holders : E.refs[h] = IF Visible(e, h) THEN e.refs[h] ELSE {}
  BY <1>1, DocumentFields
<1> HIDE DEF D, E
<1>5. /\ \A x \in Objects : x # c.obj => e.place[x] = d.place[x]
      /\ e.place[c.obj] = c.to
  BY <1>0, <1>1, <1>2
<1>6. c.to # "unborn"
  BY <1>0 DEF InTree
<1>7. \A h \in Holders : Visible(d, h) <=> Visible(e, h)
  <2>1. ASSUME NEW g \in Groups
        PROVE  d.place[g] \in InTree <=> e.place[g] \in InTree
    <3>1. g \in Objects
      BY Apart
    <3>2. QED
      BY <1>0, <1>5, <3>1
  <2>2. QED
    BY <2>1 DEF Visible, Holders
<1>8. /\ D.place \in [Objects -> {"library", "deleted", "nowhere"}]
      /\ E.place \in [Objects -> {"library", "deleted", "nowhere"}]
      /\ D.refs \in [Holders -> SUBSET Members] /\ E.refs \in [Holders -> SUBSET Members]
  BY <1>3, <1>4 DEF DocOK, Documents, Members
<1>9. \A x \in Objects : E.place[x] = [D.place EXCEPT ![c.obj] = c.to][x]
  BY <1>0, <1>3, <1>4, <1>5, <1>8
<1>10. E.place = [D.place EXCEPT ![c.obj] = c.to] /\ D.place[c.obj] = c.from
  BY <1>0, <1>3, <1>8, <1>9
<1>11. \A h \in c.holders : c.obj \in D.refs[h] /\ (h \in Rules => Shaped(D.refs[h]))
  BY <1>0, <1>3 DEF Proper
<1>12. \A h \in Holders : E.refs[h] = IF h \in c.holders
                                      THEN SetDummy(h, TakeRef(h, D.refs[h], c.obj))
                                      ELSE D.refs[h]
  <2>1. ASSUME NEW h \in c.holders
        PROVE  E.refs[h] = SetDummy(h, TakeRef(h, D.refs[h], c.obj))
    <3>1. h \in Holders /\ Visible(d, h) /\ Visible(e, h)
      BY <1>0, <1>7
    <3>2. QED
      BY <1>1, <1>3, <1>4, <3>1
  <2>2. ASSUME NEW h \in Holders, h \notin c.holders
        PROVE  E.refs[h] = D.refs[h]
    BY <1>1, <1>3, <1>4, <1>7, <2>2
  <2>3. QED
    BY <2>1, <2>2
<1>13. MoveStep(c, D, E)
  BY <1>10, <1>11, <1>12 DEF MoveStep
<1>14. \A g \in Groups : e.refs[g] \subseteq Hosts
  <2>1. ASSUME NEW g \in Groups
        PROVE  e.refs[g] \subseteq Hosts
    <3>1. g \in Holders /\ g \notin Rules /\ d.refs[g] \subseteq Hosts
      BY Apart DEF Proper
    <3>2. SetDummy(g, TakeRef(g, d.refs[g], c.obj)) = d.refs[g] \ {c.obj}
      BY <3>1 DEF SetDummy, TakeRef
    <3>3. QED
      BY <1>1, <3>1, <3>2
  <2>2. QED
    BY <2>1
<1>15. \A r \in Rules : Shaped(e.refs[r])
  <2>1. ASSUME NEW r \in Rules
        PROVE  Shaped(e.refs[r])
    <3>1. r \in Holders /\ Shaped(d.refs[r]) /\ AnyObject # DummyObject
      BY Apart DEF Proper
    <3>2. CASE r \in c.holders
      <4>1. AnyObject \notin d.refs[r] /\ DummyObject \notin d.refs[r]
        BY <1>0, <3>1, <3>2, Apart DEF Shaped
      <4>2. e.refs[r] = SetDummy(r, TakeRef(r, d.refs[r], c.obj))
        BY <1>1, <3>1, <3>2
      <4>3. CASE d.refs[r] \ {c.obj} = {}
        <5>1. e.refs[r] = IF dummies THEN {DummyObject} ELSE {AnyObject}
          BY <4>2, <4>3 DEF SetDummy, TakeRef
        <5>2. QED
          BY <3>1, <5>1 DEF Shaped
      <4>4. CASE d.refs[r] \ {c.obj} # {}
        <5>1. e.refs[r] = d.refs[r] \ {c.obj}
          BY <4>1, <4>2, <4>4 DEF SetDummy, TakeRef
        <5>2. QED
          BY <4>1, <4>4, <5>1 DEF Shaped
      <4>5. QED
        BY <4>3, <4>4
    <3>3. QED
      BY <1>1, <3>1, <3>2
  <2>2. QED
    BY <2>1
<1>16. \A g \in Groups : d.place[g] \notin InTree => e.refs[g] = d.refs[g]
  <2>1. \A g \in Groups : g \in Holders /\ g \notin Rules
    BY Apart
  <2>2. QED
    BY <1>1, <2>1 DEF Visible
<1>17. QED
  <2>1. Proper(e)
    BY <1>1, <1>14, <1>15 DEF Proper
  <2>2. \A x \in Objects : IF x = c.obj THEN e.place[x] # "unborn" ELSE e.place[x] = d.place[x]
    BY <1>5, <1>6
  <2>3. QED
    BY <1>1, <1>13, <1>16, <2>1, <2>2 DEF Follows, e, D, E

\* an object put out of the tree or into it, its members as they are
LEMMA PlaceFollows ==
  ASSUME NEW d, Proper(d), NEW o \in Objects, NEW e \in Databases,
         NEW p \in Places \ {"unborn"},
         e.place = [d.place EXCEPT ![o] = p], e.refs = d.refs, e.freed = d.freed
  PROVE  /\ Follows(d, e, o)
         /\ \A x \in Objects : x # o => Document(e).place[x] = Document(d).place[x]
         /\ Document(e).place[o] = IF p \in InTree THEN p ELSE "nowhere"
         /\ \A h \in Holders : h # o => Document(e).refs[h] = Document(d).refs[h]
         /\ o \in Groups => Document(e).refs[o] = IF p \in InTree THEN d.refs[o] ELSE {}
<1>1. d \in Databases
  BY DEF Proper
<1>2. \A x \in Objects : e.place[x] = IF x = o THEN p ELSE d.place[x]
  BY <1>1, DatabaseFields
<1>3. Follows(d, e, o)
  BY <1>2 DEF Follows, Proper
<1>4. /\ \A x \in Objects : Document(d).place[x] = IF d.place[x] \in InTree THEN d.place[x]
                                                   ELSE "nowhere"
      /\ \A h \in Holders : Document(d).refs[h] = IF Visible(d, h) THEN d.refs[h] ELSE {}
      /\ \A x \in Objects : Document(e).place[x] = IF e.place[x] \in InTree THEN e.place[x]
                                                   ELSE "nowhere"
      /\ \A h \in Holders : Document(e).refs[h] = IF Visible(e, h) THEN e.refs[h] ELSE {}
  BY <1>1, DocumentFields
<1>5. \A h \in Holders : h # o => (Visible(d, h) <=> Visible(e, h))
  BY <1>2, Apart DEF Visible, Holders
<1>6. o \in Groups => o \in Holders /\ (Visible(e, o) <=> p \in InTree)
  BY <1>2, Apart DEF Visible
<1>7. QED
  BY <1>2, <1>3, <1>4, <1>5, <1>6

LEMMA DeleteUndone ==
  ASSUME NEW d, Proper(d), NEW c \in Commands, c.kind = "delete",
         NEW D, DocOK(D), DeleteStep(c, D, Document(d)),
         c.obj \in Groups => d.refs[c.obj] = D.refs[c.obj]
  PROVE  /\ Document(PutBack(c, d, "deleted")) = D /\ Follows(d, PutBack(c, d, "deleted"), c.obj)
         /\ PutBack(c, d, "deleted").refs = d.refs
<1> DEFINE e == PutBack(c, d, "deleted")
           E == Document(d)
           F == Document(e)
<1>0. c.obj \in Objects /\ d \in Databases /\ D \in Documents /\ "deleted" \in Places
  BY Kinds DEF Proper, DocOK, Places
<1>1. /\ e \in Databases /\ e.place = [d.place EXCEPT ![c.obj] = "deleted"]
      /\ e.refs = d.refs /\ e.freed = d.freed
  BY <1>0, PutBackFields
<1> HIDE DEF e
<1>2. /\ Follows(d, e, c.obj)
      /\ \A x \in Objects : x # c.obj => F.place[x] = E.place[x]
      /\ F.place[c.obj] = "deleted"
      /\ \A h \in Holders : h # c.obj => F.refs[h] = E.refs[h]
      /\ c.obj \in Groups => F.refs[c.obj] = d.refs[c.obj]
  BY <1>0, <1>1, PlaceFollows DEF InTree
<1>3. /\ F \in Documents
      /\ D.place \in [Objects -> {"library", "deleted", "nowhere"}]
      /\ D.refs \in [Holders -> SUBSET Members]
      /\ D = [place |-> D.place, refs |-> D.refs]
  BY <1>0, <1>1, DocumentFields DEF DocOK, Documents, Members
<1>4. /\ F.place \in [Objects -> {"library", "deleted", "nowhere"}]
      /\ F.refs \in [Holders -> SUBSET Members]
      /\ F = [place |-> F.place, refs |-> F.refs]
  BY <1>3 DEF Documents, Members
<1>5. /\ D.place[c.obj] = "deleted" /\ \A x \in Objects : x # c.obj => E.place[x] = D.place[x]
      /\ \A h \in Holders : h # c.obj => E.refs[h] = D.refs[h]
  BY <1>3 DEF DeleteStep
<1> HIDE DEF E, F
<1>6. \A x \in Objects : F.place[x] = D.place[x]
  BY <1>2, <1>5
<1>7. \A h \in Holders : F.refs[h] = D.refs[h]
  BY <1>0, <1>2, <1>5, Apart DEF Holders
<1>8. F.place = D.place /\ F.refs = D.refs
  BY <1>3, <1>4, <1>6, <1>7
<1>9. F = D
  BY <1>3, <1>4, <1>8
<1>10. QED
  BY <1>1, <1>2, <1>9 DEF e, F

LEMMA DeleteRedone ==
  ASSUME NEW d, Proper(d), NEW c \in Commands, c.kind = "delete",
         d.place[c.obj] = "deleted"
  PROVE  /\ DeleteStep(c, Document(d), Document(TakeOut(c, d))) /\ Follows(d, TakeOut(c, d), c.obj)
         /\ TakeOut(c, d).refs = d.refs
<1> DEFINE e == TakeOut(c, d)
           D == Document(d)
           E == Document(e)
<1>0. c.obj \in Objects /\ d \in Databases /\ "nowhere" \in Places
  BY Kinds DEF Proper, Places
<1>1. /\ e \in Databases /\ e.place = [d.place EXCEPT ![c.obj] = "nowhere"]
      /\ e.refs = d.refs /\ e.freed = d.freed
  BY <1>0, TakeOutFields
<1> HIDE DEF e
<1>2. /\ Follows(d, e, c.obj)
      /\ \A x \in Objects : x # c.obj => E.place[x] = D.place[x]
      /\ E.place[c.obj] = "nowhere"
      /\ \A h \in Holders : h # c.obj => E.refs[h] = D.refs[h]
      /\ c.obj \in Groups => E.refs[c.obj] = {}
  BY <1>0, <1>1, PlaceFollows DEF InTree
<1>3. D \in Documents /\ E \in Documents /\ D.place[c.obj] = "deleted"
  BY <1>0, <1>1, DocumentFields DEF DocOK, InTree
<1>4. /\ D.place \in [Objects -> {"library", "deleted", "nowhere"}]
      /\ E.place \in [Objects -> {"library", "deleted", "nowhere"}]
  BY <1>3 DEF Documents
<1> HIDE DEF D, E
<1>5. \A x \in Objects : E.place[x] = [D.place EXCEPT ![c.obj] = "nowhere"][x]
  BY <1>2, <1>4
<1>6. E.place = [D.place EXCEPT ![c.obj] = "nowhere"]
  BY <1>4, <1>5
<1>7. \A h \in Holders : E.refs[h] = IF h = c.obj THEN {} ELSE D.refs[h]
  BY <1>0, <1>2, Apart DEF Holders
<1>8. DeleteStep(c, D, E)
  BY <1>3, <1>6, <1>7 DEF DeleteStep
<1>9. QED
  BY <1>1, <1>2, <1>8 DEF e, D, E

LEMMA AddUndone ==
  ASSUME NEW d, Proper(d), NEW c \in Commands, c.kind = "add",
         NEW D, DocOK(D), AddStep(c, D, Document(d))
  PROVE  /\ Document(TakeOut(c, d)) = D /\ Follows(d, TakeOut(c, d), c.obj)
         /\ TakeOut(c, d).refs = d.refs
<1> DEFINE e == TakeOut(c, d)
           E == Document(d)
           F == Document(e)
<1>0. /\ c.obj \in Groups /\ c.obj \in Objects /\ d \in Databases /\ D \in Documents
      /\ "nowhere" \in Places
  BY Kinds, Apart DEF Proper, DocOK, Places
<1>1. /\ e \in Databases /\ e.place = [d.place EXCEPT ![c.obj] = "nowhere"]
      /\ e.refs = d.refs /\ e.freed = d.freed
  BY <1>0, TakeOutFields
<1> HIDE DEF e
<1>2. /\ Follows(d, e, c.obj)
      /\ \A x \in Objects : x # c.obj => F.place[x] = E.place[x]
      /\ F.place[c.obj] = "nowhere"
      /\ \A h \in Holders : h # c.obj => F.refs[h] = E.refs[h]
      /\ F.refs[c.obj] = {}
  BY <1>0, <1>1, PlaceFollows DEF InTree
<1>3. /\ F \in Documents
      /\ D.place \in [Objects -> {"library", "deleted", "nowhere"}]
      /\ D.refs \in [Holders -> SUBSET Members]
      /\ D = [place |-> D.place, refs |-> D.refs]
  BY <1>0, <1>1, DocumentFields DEF DocOK, Documents, Members
<1>4. /\ F.place \in [Objects -> {"library", "deleted", "nowhere"}]
      /\ F.refs \in [Holders -> SUBSET Members]
      /\ F = [place |-> F.place, refs |-> F.refs]
  BY <1>3 DEF Documents, Members
<1>5. /\ D.place[c.obj] = "nowhere" /\ \A x \in Objects : x # c.obj => E.place[x] = D.place[x]
      /\ \A h \in Holders : h # c.obj => E.refs[h] = D.refs[h]
  BY <1>3 DEF AddStep
<1>6. D.refs[c.obj] = {}
  BY <1>0, <1>5 DEF DocOK
<1> HIDE DEF E, F
<1>7. \A x \in Objects : F.place[x] = D.place[x]
  BY <1>2, <1>5
<1>8. \A h \in Holders : F.refs[h] = D.refs[h]
  BY <1>2, <1>5, <1>6
<1>9. F.place = D.place /\ F.refs = D.refs
  BY <1>3, <1>4, <1>7, <1>8
<1>10. F = D
  BY <1>3, <1>4, <1>9
<1>11. QED
  BY <1>1, <1>2, <1>10 DEF e, F

LEMMA AddRedone ==
  ASSUME NEW d, Proper(d), NEW c \in Commands, c.kind = "add",
         d.place[c.obj] \notin InTree
  PROVE  LET e == PutBack(c, d, "library")
         IN  /\ AddStep(c, Document(d), Document(e)) /\ Follows(d, e, c.obj) /\ e.refs = d.refs
             /\ Document(e).refs[c.obj] = d.refs[c.obj]
<1> DEFINE e == PutBack(c, d, "library")
           D == Document(d)
           E == Document(e)
<1>0. c.obj \in Groups /\ c.obj \in Objects /\ d \in Databases /\ "library" \in Places
  BY Kinds, Apart DEF Proper, Places
<1>1. /\ e \in Databases /\ e.place = [d.place EXCEPT ![c.obj] = "library"]
      /\ e.refs = d.refs /\ e.freed = d.freed
  BY <1>0, PutBackFields
<1> HIDE DEF e
<1>2. /\ Follows(d, e, c.obj)
      /\ \A x \in Objects : x # c.obj => E.place[x] = D.place[x]
      /\ E.place[c.obj] = "library"
      /\ \A h \in Holders : h # c.obj => E.refs[h] = D.refs[h]
      /\ E.refs[c.obj] = d.refs[c.obj]
  BY <1>0, <1>1, PlaceFollows DEF InTree
<1>3. D \in Documents /\ E \in Documents /\ D.place[c.obj] = "nowhere"
  BY <1>0, <1>1, DocumentFields DEF DocOK
<1>4. /\ D.place \in [Objects -> {"library", "deleted", "nowhere"}]
      /\ E.place \in [Objects -> {"library", "deleted", "nowhere"}]
  BY <1>3 DEF Documents
<1> HIDE DEF D, E
<1>5. \A x \in Objects : E.place[x] = [D.place EXCEPT ![c.obj] = "library"][x]
  BY <1>2, <1>4
<1>6. E.place = [D.place EXCEPT ![c.obj] = "library"]
  BY <1>4, <1>5
<1>7. AddStep(c, D, E)
  BY <1>2, <1>3, <1>6 DEF AddStep
<1>8. QED
  BY <1>1, <1>2, <1>7 DEF e, D, E

\* the members a change gives its holder, in either direction
LEMMA ChangeMade ==
  ASSUME NEW d, Proper(d), NEW h \in Holders,
         NEW m \in SUBSET Members, h \in Rules => Shaped(m), h \in Groups => m \subseteq Hosts,
         Visible(d, h)
  PROVE  /\ Follows(d, Restore(h, m, d), h)
         /\ Document(Restore(h, m, d)).place = Document(d).place
         /\ \A k \in Holders : Document(Restore(h, m, d)).refs[k]
                                = IF k = h THEN m ELSE Document(d).refs[k]
<1> DEFINE e == Restore(h, m, d)
           D == Document(d)
           E == Document(e)
<1>0. d \in Databases
  BY DEF Proper
<1>1. /\ e \in Databases /\ e.place = d.place /\ e.freed = d.freed
      /\ e.refs = [d.refs EXCEPT ![h] = m]
  BY <1>0, RestoreFields
<1> HIDE DEF e
<1>2. d.refs \in [Holders -> SUBSET Members]
  BY <1>0, DatabaseFields
<1>3. \A k \in Holders : e.refs[k] = IF k = h THEN m ELSE d.refs[k]
  BY <1>1, <1>2
<1>4. /\ \A x \in Objects : D.place[x] = IF d.place[x] \in InTree THEN d.place[x] ELSE "nowhere"
      /\ \A k \in Holders : D.refs[k] = IF Visible(d, k) THEN d.refs[k] ELSE {}
      /\ \A x \in Objects : E.place[x] = IF e.place[x] \in InTree THEN e.place[x] ELSE "nowhere"
      /\ \A k \in Holders : E.refs[k] = IF Visible(e, k) THEN e.refs[k] ELSE {}
      /\ D \in Documents /\ E \in Documents
  BY <1>0, <1>1, DocumentFields DEF DocOK
<1>5. /\ D.place \in [Objects -> {"library", "deleted", "nowhere"}]
      /\ E.place \in [Objects -> {"library", "deleted", "nowhere"}]
      /\ D.refs \in [Holders -> SUBSET Members] /\ E.refs \in [Holders -> SUBSET Members]
  BY <1>4 DEF Documents, Members
<1> HIDE DEF D, E
<1>6. \A k \in Holders : Visible(e, k) <=> Visible(d, k)
  BY <1>1 DEF Visible
<1>7. E.place = D.place
  BY <1>1, <1>4, <1>5
<1>8. \A k \in Holders : E.refs[k] = IF k = h THEN m ELSE D.refs[k]
  BY <1>3, <1>4, <1>6
<1>9. Proper(e)
  <2>1. ASSUME NEW g \in Groups
        PROVE  e.refs[g] \subseteq Hosts
    BY <1>3, Apart DEF Proper
  <2>2. ASSUME NEW r \in Rules
        PROVE  Shaped(e.refs[r])
    BY <1>3, Apart DEF Proper
  <2>3. QED
    BY <1>1, <2>1, <2>2 DEF Proper
<1>10. \A x \in Objects : IF x = h THEN e.place[x] # "unborn" ELSE e.place[x] = d.place[x]
  <2>1. ASSUME NEW x \in Objects, x = h
        PROVE  d.place[x] # "unborn"
    BY <2>1, Apart DEF Visible, InTree
  <2>2. QED
    BY <1>1, <2>1
<1>11. \A g \in Groups : d.place[g] \notin InTree => e.refs[g] = d.refs[g]
  BY <1>3, Apart DEF Visible
<1>12. QED
  BY <1>1, <1>7, <1>8, <1>9, <1>10, <1>11 DEF Follows, e, D, E

-----------------------------------------------------------------------------
(* What the constructors of the commands count.                             *)

LEMMA NewDeleteFields ==
  ASSUME db \in Databases, NEW x \in Objects
  PROVE  LET e == NewDelete(x)
         IN  /\ e \in Databases /\ e.place = db.place /\ e.refs = db.refs /\ e.freed = db.freed
             /\ \A y \in Objects : e.rc[y] >= db.rc[y] + IF y = x THEN 1 ELSE 0
<1> DEFINE k == IF x \in Groups THEN Count(db, db.refs[x], 2) ELSE db
<1>1. /\ k \in Databases /\ k.place = db.place /\ k.refs = db.refs /\ k.freed = db.freed
      /\ \A y \in Objects : k.rc[y] >= db.rc[y]
  <2>1. CASE x \in Groups
    <3>1. /\ k \in Databases /\ k.place = db.place /\ k.refs = db.refs /\ k.freed = db.freed
          /\ \A y \in Objects : k.rc[y] = IF y \in db.refs[x] THEN db.rc[y] + 2 ELSE db.rc[y]
      BY <2>1, CountFields
    <3>2. \A y \in Objects : db.rc[y] \in Int
      BY DatabaseFields
    <3> HIDE DEF k
    <3>3. QED
      BY <3>1, <3>2
  <2>2. CASE x \notin Groups
    <3>1. \A y \in Objects : db.rc[y] \in Int
      BY DatabaseFields
    <3>2. k = db
      BY <2>2
    <3>3. QED
      BY <3>1, <3>2
  <2>3. QED
    BY <2>1, <2>2
<1>2. NewDelete(x) = Count(k, {x}, 1)
  BY DEF NewDelete
<1> HIDE DEF k
<1>3. \A y \in Objects : k.rc[y] \in Int /\ db.rc[y] \in Int
  BY <1>1, DatabaseFields
<1>4. LET e == Count(k, {x}, 1)
      IN  /\ e \in Databases /\ e.place = k.place /\ e.refs = k.refs /\ e.freed = k.freed
          /\ \A y \in Objects : e.rc[y] = IF y \in {x} THEN k.rc[y] + 1 ELSE k.rc[y]
  BY <1>1, CountFields
<1>5. ASSUME NEW y \in Objects
      PROVE  NewDelete(x).rc[y] >= db.rc[y] + IF y = x THEN 1 ELSE 0
  <2>1. NewDelete(x).rc[y] = k.rc[y] + IF y = x THEN 1 ELSE 0
    <3>1. CASE y = x
      BY <1>2, <1>4, <3>1
    <3>2. CASE y # x
      <4>1. NewDelete(x).rc[y] = k.rc[y]
        BY <1>2, <1>4, <3>2
      <4>2. QED
        BY <1>3, <3>2, <4>1
    <3>3. QED
      BY <3>1, <3>2
  <2>2. k.rc[y] >= db.rc[y] /\ k.rc[y] \in Int /\ db.rc[y] \in Int
    BY <1>1, <1>3
  <2>3. QED
    BY <2>1, <2>2
<1>6. QED
  BY <1>1, <1>2, <1>4, <1>5

LEMMA NewChangeFields ==
  ASSUME db \in Databases, NEW h \in Holders, NEW m \in SUBSET Members
  PROVE  LET e == NewChange(h, m)
         IN  /\ e \in Databases /\ e.place = db.place /\ e.refs = db.refs /\ e.freed = db.freed
             /\ \A y \in Objects : e.rc[y] >= db.rc[y]
<1> DEFINE k == Count(db, db.refs[h] \cap Objects, 2)
           l == Count(k, m \ db.refs[h], 1)
<1>1. /\ k \in Databases /\ k.place = db.place /\ k.refs = db.refs /\ k.freed = db.freed
      /\ \A y \in Objects : k.rc[y] = IF y \in db.refs[h] \cap Objects THEN db.rc[y] + 2
                                                                      ELSE db.rc[y]
  BY CountFields
<1>2. NewChange(h, m) = Count(l, db.refs[h] \ m, -1)
  BY DEF NewChange
<1> HIDE DEF k
<1>3. /\ l \in Databases /\ l.place = k.place /\ l.refs = k.refs /\ l.freed = k.freed
      /\ \A y \in Objects : l.rc[y] = IF y \in m \ db.refs[h] THEN k.rc[y] + 1 ELSE k.rc[y]
  BY <1>1, CountFields
<1> HIDE DEF l
<1>4. LET e == Count(l, db.refs[h] \ m, -1)
      IN  /\ e \in Databases /\ e.place = l.place /\ e.refs = l.refs /\ e.freed = l.freed
          /\ \A y \in Objects : e.rc[y] = IF y \in db.refs[h] \ m THEN l.rc[y] + (-1)
                                                                  ELSE l.rc[y]
  BY <1>3, CountFields
<1>5. \A y \in Objects : db.rc[y] \in Int /\ k.rc[y] \in Int /\ l.rc[y] \in Int
  BY <1>1, <1>3, DatabaseFields
<1>6. ASSUME NEW y \in Objects
      PROVE  NewChange(h, m).rc[y] >= db.rc[y]
  <2> DEFINE n == NewChange(h, m)
  <2>1. n.rc[y] = IF y \in db.refs[h] \ m THEN l.rc[y] + (-1) ELSE l.rc[y]
    BY <1>2, <1>4
  <2>2. l.rc[y] = IF y \in m \ db.refs[h] THEN k.rc[y] + 1 ELSE k.rc[y]
    BY <1>3
  <2>3. k.rc[y] = IF y \in db.refs[h] THEN db.rc[y] + 2 ELSE db.rc[y]
    BY <1>1
  <2>4. db.rc[y] \in Int
    BY <1>5
  <2> HIDE DEF n
  <2>5. n.rc[y] >= db.rc[y]
    <3>1. CASE y \in db.refs[h] /\ y \in m
      BY <2>1, <2>2, <2>3, <2>4, <3>1
    <3>2. CASE y \in db.refs[h] /\ y \notin m
      BY <2>1, <2>2, <2>3, <2>4, <3>2
    <3>3. CASE y \notin db.refs[h] /\ y \in m
      BY <2>1, <2>2, <2>3, <2>4, <3>3
    <3>4. CASE y \notin db.refs[h] /\ y \notin m
      BY <2>1, <2>2, <2>3, <2>4, <3>4
    <3>5. QED
      BY <3>1, <3>2, <3>3, <3>4
  <2>6. QED
    BY <1>2, <2>5 DEF n
<1>7. QED
  BY <1>1, <1>2, <1>3, <1>4, <1>6

LEMMA NewGroupFields ==
  ASSUME db \in Databases, NEW g \in Groups, NEW m \in SUBSET Members
  PROVE  LET e == Count([db EXCEPT !.refs[g] = m], {g}, 1)
         IN  /\ e \in Databases /\ e.place = db.place /\ e.refs = [db.refs EXCEPT ![g] = m]
             /\ e.freed = db.freed
             /\ \A y \in Objects : e.rc[y] = IF y = g THEN db.rc[y] + 1 ELSE db.rc[y]
<1> DEFINE k == [db EXCEPT !.refs[g] = m]
<1>1. /\ k \in Databases /\ k.place = db.place /\ k.refs = [db.refs EXCEPT ![g] = m]
      /\ k.freed = db.freed /\ k.rc = db.rc
  BY Apart DEF Databases
<1> HIDE DEF k
<1>2. LET e == Count(k, {g}, 1)
      IN  /\ e \in Databases /\ e.place = k.place /\ e.refs = k.refs /\ e.freed = k.freed
          /\ \A y \in Objects : e.rc[y] = IF y \in {g} THEN k.rc[y] + 1 ELSE k.rc[y]
  BY <1>1, CountFields
<1>3. QED
  BY <1>1, <1>2 DEF k

-----------------------------------------------------------------------------
(* The destructors of discarded commands.                                   *)

LEMMA KeepersAreNat ==
  ASSUME NEW at, IsFiniteSet(at), NEW x
  PROVE  /\ IsFiniteSet({i \in at : Keeps(stack[i], x)}) /\ Keepers(at, x) \in Nat
         /\ Keepers(at, x) = 0 <=> \A i \in at : ~Keeps(stack[i], x)
<1> DEFINE S == {i \in at : Keeps(stack[i], x)}
<1>1. IsFiniteSet(S) /\ Cardinality(S) \in Nat /\ (Cardinality(S) = 0 <=> S = {})
  BY FS_Subset, FS_CardinalityType, FS_EmptySet
<1>2. QED
  BY <1>1 DEF Keepers

LEMMA KeepersSplit ==
  ASSUME stack \in Seq(Commands), done \in 0..Len(stack), NEW x
  PROVE  /\ Keepers(DOMAIN stack, x) = Keepers(1..done, x) + Keepers((done + 1)..Len(stack), x)
         /\ IsFiniteSet(DOMAIN stack) /\ IsFiniteSet(1..done)
         /\ IsFiniteSet((done + 1)..Len(stack))
<1> DEFINE A == {i \in 1..done : Keeps(stack[i], x)}
           B == {i \in (done + 1)..Len(stack) : Keeps(stack[i], x)}
           C == {i \in DOMAIN stack : Keeps(stack[i], x)}
<1>1. DOMAIN stack = 1..Len(stack) /\ Len(stack) \in Nat /\ done \in Nat
  BY LenProperties
<1>2. IsFiniteSet(1..done) /\ IsFiniteSet((done + 1)..Len(stack)) /\ IsFiniteSet(1..Len(stack))
  BY <1>1, FS_Interval
<1>3. IsFiniteSet(A) /\ IsFiniteSet(B)
  BY <1>2, FS_Subset
<1>4. C = A \cup B /\ A \cap B = {}
  BY <1>1
<1>5. C = {i \in DOMAIN stack : Keeps(stack[i], x)} /\ Keepers(DOMAIN stack, x) = Cardinality(C)
      /\ Keepers(1..done, x) = Cardinality(A) /\ Keepers((done + 1)..Len(stack), x) = Cardinality(B)
  BY DEF Keepers
<1> HIDE DEF A, B, C
<1>6. Cardinality(A \cup B) = Cardinality(A) + Cardinality(B) - Cardinality(A \cap B)
  BY <1>3, FS_Union
<1>7. Cardinality(A \cap B) = 0 /\ Cardinality(A) \in Nat /\ Cardinality(B) \in Nat
  BY <1>3, <1>4, FS_EmptySet, FS_CardinalityType
<1>8. Cardinality(C) = Cardinality(A) + Cardinality(B)
  BY <1>4, <1>6, <1>7
<1>9. QED
  BY <1>1, <1>2, <1>5, <1>8

LEMMA DestroyFields ==
  ASSUME NEW d \in Databases, NEW at, IsFiniteSet(at)
  PROVE  LET e == Destroy(at, d)
         IN  /\ e \in Databases /\ e.place = d.place /\ e.refs = d.refs
             /\ e.freed = d.freed \cup {x \in Objects : /\ Keepers(at, x) > 0
                                                        /\ d.rc[x] <= Keepers(at, x)}
             /\ \A x \in Objects : e.rc[x] = IF d.rc[x] > Keepers(at, x)
                                             THEN d.rc[x] - Keepers(at, x)
                                             ELSE IF d.rc[x] > 1 THEN 1 ELSE d.rc[x]
<1> DEFINE rc == [x \in Objects |-> IF d.rc[x] > Keepers(at, x) THEN d.rc[x] - Keepers(at, x)
                                    ELSE IF d.rc[x] > 1 THEN 1 ELSE d.rc[x]]
           freed == d.freed \cup {x \in Objects : /\ Keepers(at, x) > 0
                                                  /\ d.rc[x] <= Keepers(at, x)}
           e == [d EXCEPT !.freed = freed, !.rc = rc]
<1>1. \A x \in Objects : d.rc[x] \in Int /\ Keepers(at, x) \in Nat
  BY KeepersAreNat, DatabaseFields
<1>2. Destroy(at, d) = e
  BY DEF Destroy
<1>3. rc \in [Objects -> Int]
  BY <1>1
<1>4. freed \in SUBSET Objects
  BY DatabaseFields
<1>5. \A x \in Objects : rc[x] = IF d.rc[x] > Keepers(at, x) THEN d.rc[x] - Keepers(at, x)
                                 ELSE IF d.rc[x] > 1 THEN 1 ELSE d.rc[x]
  OBVIOUS
<1> HIDE DEF rc, freed
<1>6. /\ e \in Databases /\ e.place = d.place /\ e.refs = d.refs
      /\ e.freed = freed /\ e.rc = rc
  BY <1>3, <1>4 DEF Databases
<1>7. QED
  BY <1>2, <1>5, <1>6 DEF freed

-----------------------------------------------------------------------------
(* How many places use an object, and how its counter follows them.         *)

Holding(d, x) == {h \in Holders \ d.freed : x \in d.refs[h]}
Weight(d, x) == (IF d.place[x] \in InTree THEN 1 ELSE 0) + Cardinality(Holding(d, x))

\* the counters of e are as far above the uses as those of d
Even(d, e) ==
  \A x \in Objects \ d.freed : e.rc[x] + Weight(d, x) >= d.rc[x] + Weight(e, x)

LEMMA HoldingFinite ==
  ASSUME NEW d, NEW x
  PROVE  /\ IsFiniteSet(Holding(d, x)) /\ Cardinality(Holding(d, x)) \in Nat
         /\ Weight(d, x) \in Nat
<1>1. Holding(d, x) \in SUBSET Holders
  BY DEF Holding
<1>2. IsFiniteSet(Holding(d, x)) /\ Cardinality(Holding(d, x)) \in Nat
  BY <1>1, FiniteHolders
<1>3. QED
  BY <1>2 DEF Weight

LEMMA FewerHolding ==
  ASSUME NEW d, NEW e, NEW x, Holding(e, x) \subseteq Holding(d, x)
  PROVE  Cardinality(Holding(e, x)) <= Cardinality(Holding(d, x))
BY HoldingFinite, FS_Subset

LEMMA OneMoreHolding ==
  ASSUME NEW d, NEW e, NEW x, NEW h, Holding(e, x) \subseteq Holding(d, x) \cup {h}
  PROVE  Cardinality(Holding(e, x)) <= Cardinality(Holding(d, x)) + 1
<1>1. IsFiniteSet(Holding(d, x)) /\ Cardinality(Holding(d, x)) \in Nat
      /\ Cardinality(Holding(e, x)) \in Nat
  BY HoldingFinite
<1>2. /\ IsFiniteSet(Holding(d, x) \cup {h})
      /\ Cardinality(Holding(d, x) \cup {h})
           = IF h \in Holding(d, x) THEN Cardinality(Holding(d, x))
                                    ELSE Cardinality(Holding(d, x)) + 1
  BY <1>1, FS_AddElement
<1>3. Cardinality(Holding(e, x)) <= Cardinality(Holding(d, x) \cup {h})
  BY <1>2, FS_Subset
<1>4. QED
  BY <1>1, <1>2, <1>3

LEMMA EvenMoveRedo ==
  ASSUME NEW d \in Databases, NEW c \in Commands, c.kind = "move", d.place[c.obj] \in InTree,
         \A h \in c.holders : c.obj \in d.refs[h] /\ h \notin d.freed
  PROVE  Even(d, MoveRedo(c, d))
<1> DEFINE e == MoveRedo(c, d)
           n == Cardinality(c.holders)
<1>0. c.obj \in Objects /\ c.to \in InTree /\ c.holders \subseteq Holders
  BY Kinds
<1>1. /\ e \in Databases /\ e.freed = d.freed
      /\ e.place = [d.place EXCEPT ![c.obj] = c.to]
      /\ e.refs = [h \in Holders |-> IF h \in c.holders
                                     THEN SetDummy(h, TakeRef(h, d.refs[h], c.obj))
                                     ELSE d.refs[h]]
      /\ \A x \in Objects : e.rc[x] = IF x = c.obj THEN d.rc[x] - n ELSE d.rc[x]
  BY <1>0, MoveRedoFields
<1> HIDE DEF e
<1>2. \A x \in Objects : e.place[x] \in InTree <=> d.place[x] \in InTree
  BY <1>0, <1>1, DatabaseFields
<1>3. \A h \in Holders, x \in Objects :
        x \in SetDummy(h, TakeRef(h, d.refs[h], c.obj)) <=> x \in d.refs[h] /\ x # c.obj
  BY Apart DEF SetDummy, TakeRef
<1>4. \A x \in Objects : x # c.obj => Holding(e, x) = Holding(d, x)
  BY <1>1, <1>3 DEF Holding
<1>5. Holding(e, c.obj) = Holding(d, c.obj) \ c.holders
  BY <1>0, <1>1, <1>3 DEF Holding
<1>6. c.holders \subseteq Holding(d, c.obj)
  BY <1>0 DEF Holding
<1>7. Cardinality(Holding(e, c.obj)) = Cardinality(Holding(d, c.obj)) - n
  <2>1. Holding(d, c.obj) \cap c.holders = c.holders
    BY <1>6
  <2>2. Cardinality(Holding(d, c.obj) \ c.holders)
          = Cardinality(Holding(d, c.obj)) - Cardinality(Holding(d, c.obj) \cap c.holders)
    BY HoldingFinite, FS_Difference
  <2>3. QED
    BY <1>5, <2>1, <2>2
<1>8. n \in Nat
  BY <1>0, FiniteHolders
<1> HIDE DEF n
<1>9. ASSUME NEW x \in Objects
      PROVE  e.rc[x] + Weight(d, x) >= d.rc[x] + Weight(e, x)
  <2>1. /\ d.rc[x] \in Int /\ Cardinality(Holding(d, x)) \in Nat
        /\ Cardinality(Holding(e, x)) \in Nat
    BY HoldingFinite, DatabaseFields
  <2>2. CASE x = c.obj
    <3>1. Weight(e, x) = Weight(d, x) - n
      BY <1>2, <1>7, <1>8, <2>1, <2>2 DEF Weight
    <3>2. e.rc[x] = d.rc[x] - n
      BY <1>1, <2>2
    <3>3. QED
      BY <1>8, <2>1, <3>1, <3>2, HoldingFinite
  <2>3. CASE x # c.obj
    <3>1. Weight(e, x) = Weight(d, x)
      BY <1>2, <1>4, <2>3 DEF Weight
    <3>2. e.rc[x] = d.rc[x]
      BY <1>1, <2>3
    <3>3. QED
      BY <2>1, <3>1, <3>2, HoldingFinite
  <2>4. QED
    BY <2>2, <2>3
<1>10. QED
  BY <1>9 DEF Even, e

LEMMA EvenMoveUndo ==
  ASSUME NEW d \in Databases, NEW c \in Commands, c.kind = "move", d.place[c.obj] \in InTree
  PROVE  Even(d, MoveUndo(c, d))
<1> DEFINE e == MoveUndo(c, d)
           n == Cardinality(c.holders)
<1>0. c.obj \in Objects /\ c.from \in InTree /\ c.holders \subseteq Holders
  BY Kinds
<1>1. /\ e \in Databases /\ e.freed = d.freed
      /\ e.place = [d.place EXCEPT ![c.obj] = c.from]
      /\ e.refs = [h \in Holders |-> IF h \in c.holders
                                     THEN AddRef(h, Unset(h, d.refs[h]), c.obj)
                                     ELSE d.refs[h]]
      /\ \A x \in Objects : e.rc[x] = IF x = c.obj THEN d.rc[x] + n ELSE d.rc[x]
  BY <1>0, MoveUndoFields
<1> HIDE DEF e
<1>2. \A x \in Objects : e.place[x] \in InTree <=> d.place[x] \in InTree
  BY <1>0, <1>1, DatabaseFields
<1>3. \A h \in Holders, x \in Objects :
        x \in AddRef(h, Unset(h, d.refs[h]), c.obj) <=> x \in d.refs[h] \/ x = c.obj
  BY Apart DEF AddRef, Unset
<1>4. \A x \in Objects : x # c.obj => Holding(e, x) = Holding(d, x)
  BY <1>1, <1>3 DEF Holding
<1>5. Holding(e, c.obj) \subseteq Holding(d, c.obj) \cup c.holders
  BY <1>0, <1>1, <1>3 DEF Holding
<1>6. n \in Nat /\ IsFiniteSet(c.holders)
  BY <1>0, FiniteHolders
<1>7. Cardinality(Holding(e, c.obj)) <= Cardinality(Holding(d, c.obj)) + n
  <2> DEFINE H == Holding(d, c.obj)
  <2>1. IsFiniteSet(H) /\ Cardinality(H) \in Nat /\ Cardinality(Holding(e, c.obj)) \in Nat
    BY HoldingFinite
  <2> HIDE DEF H
  <2>2. /\ IsFiniteSet(H \cup c.holders)
        /\ Cardinality(H \cup c.holders) = Cardinality(H) + n - Cardinality(H \cap c.holders)
    BY <1>6, <2>1, FS_Union
  <2>3. Cardinality(H \cap c.holders) \in Nat
    BY <2>1, FS_Intersection, FS_CardinalityType
  <2>4. Cardinality(Holding(e, c.obj)) <= Cardinality(H \cup c.holders)
    BY <1>5, <2>2, FS_Subset DEF H
  <2>5. Cardinality(Holding(e, c.obj)) <= Cardinality(H) + n
    <3> HIDE DEF n
    <3>1. QED
      BY <1>6, <2>1, <2>2, <2>3, <2>4
  <2>6. QED
    BY <2>5 DEF H
<1> HIDE DEF n
<1>8. ASSUME NEW x \in Objects
      PROVE  e.rc[x] + Weight(d, x) >= d.rc[x] + Weight(e, x)
  <2>1. /\ d.rc[x] \in Int /\ Cardinality(Holding(d, x)) \in Nat
        /\ Cardinality(Holding(e, x)) \in Nat
    BY HoldingFinite, DatabaseFields
  <2>2. CASE x = c.obj
    <3>1. Weight(e, x) <= Weight(d, x) + n
      BY <1>2, <1>6, <1>7, <2>1, <2>2 DEF Weight
    <3>2. e.rc[x] = d.rc[x] + n
      BY <1>1, <2>2
    <3>3. QED
      BY <1>6, <2>1, <3>1, <3>2, HoldingFinite
  <2>3. CASE x # c.obj
    <3>1. Weight(e, x) = Weight(d, x)
      BY <1>2, <1>4, <2>3 DEF Weight
    <3>2. e.rc[x] = d.rc[x]
      BY <1>1, <2>3
    <3>3. QED
      BY <2>1, <3>1, <3>2, HoldingFinite
  <2>4. QED
    BY <2>2, <2>3
<1>9. QED
  BY <1>8 DEF Even, e

LEMMA EvenTakeOut ==
  ASSUME NEW d \in Databases, NEW c, c.obj \in Objects, d.place[c.obj] \in InTree
  PROVE  Even(d, TakeOut(c, d))
<1> DEFINE e == TakeOut(c, d)
<1>1. /\ e \in Databases /\ e.freed = d.freed /\ e.refs = d.refs
      /\ e.place = [d.place EXCEPT ![c.obj] = "nowhere"]
      /\ \A x \in Objects : e.rc[x] = IF x = c.obj THEN d.rc[x] - 1 ELSE d.rc[x]
  BY TakeOutFields
<1> HIDE DEF e
<1>2. \A x \in Objects : e.place[x] = IF x = c.obj THEN "nowhere" ELSE d.place[x]
  BY <1>1, DatabaseFields
<1>3. \A x \in Objects : Holding(e, x) = Holding(d, x)
  BY <1>1 DEF Holding
<1>4. ASSUME NEW x \in Objects
      PROVE  e.rc[x] + Weight(d, x) >= d.rc[x] + Weight(e, x)
  <2>1. d.rc[x] \in Int /\ Cardinality(Holding(d, x)) \in Nat
    BY HoldingFinite, DatabaseFields
  <2>2. CASE x = c.obj
    <3>1. Weight(d, x) = 1 + Cardinality(Holding(d, x))
      BY <2>2 DEF Weight
    <3>2. Weight(e, x) = 0 + Cardinality(Holding(d, x))
      BY <1>2, <1>3, <2>2 DEF Weight, InTree
    <3>3. e.rc[x] = d.rc[x] - 1
      BY <1>1, <2>2
    <3>4. QED
      BY <2>1, <3>1, <3>2, <3>3
  <2>3. CASE x # c.obj
    <3>1. Weight(e, x) = Weight(d, x)
      BY <1>2, <1>3, <2>3 DEF Weight
    <3>2. e.rc[x] = d.rc[x]
      BY <1>1, <2>3
    <3>3. QED
      BY <2>1, <3>1, <3>2, HoldingFinite
  <2>4. QED
    BY <2>2, <2>3
<1>5. QED
  BY <1>4 DEF Even, e

LEMMA EvenPutBack ==
  ASSUME NEW d \in Databases, NEW c, c.obj \in Objects, NEW p \in Places
  PROVE  Even(d, PutBack(c, d, p))
<1> DEFINE e == PutBack(c, d, p)
<1>1. /\ e \in Databases /\ e.freed = d.freed /\ e.refs = d.refs
      /\ e.place = [d.place EXCEPT ![c.obj] = p]
      /\ \A x \in Objects : e.rc[x] = IF x = c.obj THEN d.rc[x] + 1 ELSE d.rc[x]
  BY PutBackFields
<1> HIDE DEF e
<1>2. \A x \in Objects : x # c.obj => e.place[x] = d.place[x]
  BY <1>1, DatabaseFields
<1>3. \A x \in Objects : Holding(e, x) = Holding(d, x)
  BY <1>1 DEF Holding
<1>4. ASSUME NEW x \in Objects
      PROVE  e.rc[x] + Weight(d, x) >= d.rc[x] + Weight(e, x)
  <2>1. d.rc[x] \in Int /\ Cardinality(Holding(d, x)) \in Nat
    BY HoldingFinite, DatabaseFields
  <2>2. CASE x = c.obj
    <3>1. Weight(d, x) >= Cardinality(Holding(d, x))
      BY <2>1 DEF Weight
    <3>2. Weight(e, x) <= 1 + Cardinality(Holding(d, x))
      BY <1>3, <2>1 DEF Weight
    <3>3. e.rc[x] = d.rc[x] + 1
      BY <1>1, <2>2
    <3>4. QED
      BY <2>1, <3>1, <3>2, <3>3, HoldingFinite
  <2>3. CASE x # c.obj
    <3>1. Weight(e, x) = Weight(d, x)
      BY <1>2, <1>3, <2>3 DEF Weight
    <3>2. e.rc[x] = d.rc[x]
      BY <1>1, <2>3
    <3>3. QED
      BY <2>1, <3>1, <3>2, HoldingFinite
  <2>4. QED
    BY <2>2, <2>3
<1>5. QED
  BY <1>4 DEF Even, e

LEMMA EvenRestore ==
  ASSUME NEW d \in Databases, NEW h \in Holders, NEW m \in SUBSET Members
  PROVE  Even(d, Restore(h, m, d))
<1> DEFINE e == Restore(h, m, d)
<1>1. /\ e \in Databases /\ e.freed = d.freed /\ e.place = d.place
      /\ e.refs = [d.refs EXCEPT ![h] = m]
      /\ \A x \in Objects : e.rc[x] = IF x \in m THEN d.rc[x] + 1 ELSE d.rc[x]
  BY RestoreFields
<1> HIDE DEF e
<1>2. \A k \in Holders : e.refs[k] = IF k = h THEN m ELSE d.refs[k]
  BY <1>1, DatabaseFields
<1>3. ASSUME NEW x \in Objects
      PROVE  e.rc[x] + Weight(d, x) >= d.rc[x] + Weight(e, x)
  <2>1. /\ d.rc[x] \in Int /\ Cardinality(Holding(d, x)) \in Nat
        /\ Cardinality(Holding(e, x)) \in Nat
    BY HoldingFinite, DatabaseFields
  <2>2. CASE x \in m
    <3>1. Holding(e, x) \subseteq Holding(d, x) \cup {h}
      BY <1>1, <1>2 DEF Holding
    <3>2. Cardinality(Holding(e, x)) <= Cardinality(Holding(d, x)) + 1
      BY <3>1, OneMoreHolding
    <3>3. Weight(e, x) <= Weight(d, x) + 1
      BY <1>1, <2>1, <3>2 DEF Weight
    <3>4. e.rc[x] = d.rc[x] + 1
      BY <1>1, <2>2
    <3>5. QED
      BY <2>1, <3>3, <3>4, HoldingFinite
  <2>3. CASE x \notin m
    <3>1. Holding(e, x) \subseteq Holding(d, x)
      BY <1>1, <1>2, <2>3 DEF Holding
    <3>2. Cardinality(Holding(e, x)) <= Cardinality(Holding(d, x))
      BY <3>1, FewerHolding
    <3>3. Weight(e, x) <= Weight(d, x)
      BY <1>1, <2>1, <3>2 DEF Weight
    <3>4. e.rc[x] = d.rc[x]
      BY <1>1, <2>3
    <3>5. QED
      BY <2>1, <3>3, <3>4, HoldingFinite
  <2>4. QED
    BY <2>2, <2>3
<1>4. QED
  BY <1>3 DEF Even, e

-----------------------------------------------------------------------------
(* The documents stay where they are as the commands are undone and redone,  *)
(* and a new command puts one more behind the present one.                   *)

LEMMA Sequences ==
  ASSUME TypeInv, ShapeInv, HistoryInv
  PROVE  /\ Len(stack) \in Nat /\ done \in Nat /\ done <= Len(stack)
         /\ DOMAIN stack = Positions /\ \A i \in Positions : stack[i] \in Commands
         /\ Len(past) = done /\ Len(future) = Len(stack) - done
         /\ Proper(db) /\ Document(db) \in Documents
<1>1. /\ stack \in Seq(Commands) /\ done \in 0..Len(stack) /\ db \in Databases
  BY DEF TypeInv, TypeOK
<1>2. Len(stack) \in Nat /\ DOMAIN stack = 1..Len(stack)
  BY <1>1, LenProperties
<1>3. \A i \in 1..Len(stack) : stack[i] \in Commands
  BY <1>1, ElementOfSeq
<1>4. Proper(db)
  BY <1>1 DEF TypeInv, TypeOK, ShapeInv, Proper
<1>5. Document(db) \in Documents
  BY <1>1, DocumentFields DEF DocOK
<1>6. QED
  BY <1>1, <1>2, <1>3, <1>4, <1>5 DEF HistoryInv, Positions

LEMMA UndoDocs ==
  ASSUME TypeInv, ShapeInv, HistoryInv, done > 0, done' = done - 1, stack' = stack,
         past' = Front(past), future' = <<Document(db)>> \o future,
         Document(db') = past[done]
  PROVE  /\ past' \in Seq(Documents) /\ future' \in Seq(Documents)
         /\ Len(past') = done' /\ Len(future') = Len(stack') - done'
         /\ Positions' = Positions /\ Points' = Points
         /\ \A j \in Points : Docs(j)' = Docs(j)
<1>1. /\ Len(stack) \in Nat /\ done \in Nat /\ done <= Len(stack) /\ Len(past) = done
      /\ Len(future) = Len(stack) - done /\ Document(db) \in Documents
      /\ past \in Seq(Documents) /\ future \in Seq(Documents)
  BY Sequences DEF TypeInv, TypeOK
<1>2. past' = SubSeq(past, 1, done - 1)
  BY <1>1 DEF Front
<1>3. \A i \in 1..(done - 1) : past[i] \in Documents
  BY <1>1, ElementOfSeq
<1>4. /\ past' \in Seq(Documents) /\ Len(past') = done - 1
      /\ \A i \in 1..(done - 1) : past'[i] = past[i]
  <2>1. 1 \in Int /\ done - 1 \in Int
    BY <1>1
  <2>2. /\ SubSeq(past, 1, done - 1) \in Seq(Documents)
        /\ Len(SubSeq(past, 1, done - 1)) = IF 1 <= done - 1 THEN (done - 1) - 1 + 1 ELSE 0
        /\ \A i \in 1..((done - 1) - 1 + 1) : SubSeq(past, 1, done - 1)[i] = past[1 + i - 1]
    BY <1>3, <2>1, SubSeqProperties
  <2>3. \A i \in 1..(done - 1) : i \in 1..((done - 1) - 1 + 1) /\ 1 + i - 1 = i
    BY <1>1
  <2>4. (IF 1 <= done - 1 THEN (done - 1) - 1 + 1 ELSE 0) = done - 1
    BY <1>1
  <2>5. QED
    BY <1>2, <2>2, <2>3, <2>4
<1>5. /\ <<Document(db)>> \in Seq(Documents) /\ Len(<<Document(db)>>) = 1
      /\ <<Document(db)>>[1] = Document(db)
  BY <1>1
<1> DEFINE one == <<Document(db)>>
<1>6. /\ future' \in Seq(Documents) /\ Len(future') = 1 + Len(future)
      /\ \A i \in 1..(1 + Len(future)) : future'[i] = IF i <= 1 THEN one[i] ELSE future[i - 1]
  <2>1. one \in Seq(Documents) /\ Len(one) = 1 /\ future' = one \o future
    BY <1>5
  <2> HIDE DEF one
  <2>2. /\ one \o future \in Seq(Documents) /\ Len(one \o future) = Len(one) + Len(future)
        /\ \A i \in 1..(Len(one) + Len(future)) :
             (one \o future)[i] = IF i <= Len(one) THEN one[i] ELSE future[i - Len(one)]
    BY <1>1, <2>1, ConcatProperties
  <2>3. QED
    BY <2>1, <2>2
<1>7. future'[1] = Document(db) /\ \A i \in 1..Len(future) : future'[i + 1] = future[i]
  BY <1>1, <1>5, <1>6
<1>8. ASSUME NEW j \in Points
      PROVE  Docs(j)' = Docs(j)
  <2>1. j \in 1..(Len(stack) + 1)
    BY DEF Points
  <2>2. Docs(j)' = IF j <= done - 1 THEN past'[j]
                   ELSE IF j = done - 1 + 1 THEN Document(db') ELSE future'[j - (done - 1) - 1]
    BY DEF Docs, Document, Holds
  <2>3. CASE j <= done - 1
    BY <1>1, <1>4, <2>1, <2>2, <2>3 DEF Docs
  <2>4. CASE j = done
    BY <1>1, <2>1, <2>2, <2>4 DEF Docs
  <2>5. CASE j = done + 1
    <3>1. Docs(j)' = future'[j - (done - 1) - 1]
      BY <1>1, <2>2, <2>5
    <3>2. j - (done - 1) - 1 = 1
      BY <1>1, <2>5
    <3>3. Docs(j) = Document(db)
      BY <1>1, <2>5 DEF Docs
    <3>4. QED
      BY <1>7, <3>1, <3>2, <3>3
  <2>6. CASE j > done + 1
    <3>1. Docs(j)' = future'[j - (done - 1) - 1]
      BY <1>1, <2>1, <2>2, <2>6
    <3>2. j - (done - 1) - 1 = (j - done - 1) + 1 /\ j - done - 1 \in 1..Len(future)
      BY <1>1, <2>1, <2>6
    <3>3. Docs(j) = future[j - done - 1]
      BY <1>1, <2>1, <2>6 DEF Docs
    <3>4. QED
      BY <1>7, <3>1, <3>2, <3>3
  <2>7. QED
    BY <1>1, <2>1, <2>3, <2>4, <2>5, <2>6
<1>9. QED
  BY <1>1, <1>4, <1>6, <1>8 DEF Positions, Points

LEMMA RedoDocs ==
  ASSUME TypeInv, ShapeInv, HistoryInv, done < Len(stack), done' = done + 1, stack' = stack,
         past' = Append(past, Document(db)), future' = Tail(future),
         Document(db') = future[1]
  PROVE  /\ past' \in Seq(Documents) /\ future' \in Seq(Documents)
         /\ Len(past') = done' /\ Len(future') = Len(stack') - done'
         /\ Positions' = Positions /\ Points' = Points
         /\ \A j \in Points : Docs(j)' = Docs(j)
<1>1. /\ Len(stack) \in Nat /\ done \in Nat /\ done <= Len(stack) /\ Len(past) = done
      /\ Len(future) = Len(stack) - done /\ Document(db) \in Documents
      /\ past \in Seq(Documents) /\ future \in Seq(Documents)
  BY Sequences DEF TypeInv, TypeOK
<1>2. /\ past' \in Seq(Documents) /\ Len(past') = done + 1 /\ past'[done + 1] = Document(db)
      /\ \A i \in 1..done : past'[i] = past[i]
  BY <1>1, AppendProperties
<1>3. future # <<>>
  BY <1>1
<1>4. /\ future' \in Seq(Documents) /\ Len(future') = Len(future) - 1
      /\ \A i \in 1..(Len(future) - 1) : future'[i] = future[i + 1]
  BY <1>1, <1>3, HeadTailProperties
<1>5. ASSUME NEW j \in Points
      PROVE  Docs(j)' = Docs(j)
  <2>1. j \in 1..(Len(stack) + 1)
    BY DEF Points
  <2>2. Docs(j)' = IF j <= done + 1 THEN past'[j]
                   ELSE IF j = done + 1 + 1 THEN Document(db') ELSE future'[j - (done + 1) - 1]
    BY DEF Docs, Document, Holds
  <2>3. CASE j <= done
    BY <1>1, <1>2, <2>1, <2>2, <2>3 DEF Docs
  <2>4. CASE j = done + 1
    BY <1>1, <1>2, <2>1, <2>2, <2>4 DEF Docs
  <2>5. CASE j = done + 2
    <3>1. Docs(j)' = future[1]
      BY <1>1, <2>2, <2>5
    <3>2. Docs(j) = future[j - done - 1] /\ j - done - 1 = 1
      BY <1>1, <2>5 DEF Docs
    <3>3. QED
      BY <3>1, <3>2
  <2>6. CASE j > done + 2
    <3>1. Docs(j)' = future'[j - (done + 1) - 1]
      BY <1>1, <2>1, <2>2, <2>6
    <3>2. /\ j - (done + 1) - 1 \in 1..(Len(future) - 1)
          /\ (j - (done + 1) - 1) + 1 = j - done - 1
      BY <1>1, <2>1, <2>6
    <3>3. Docs(j) = future[j - done - 1]
      BY <1>1, <2>1, <2>6 DEF Docs
    <3>4. QED
      BY <1>4, <3>1, <3>2, <3>3
  <2>7. QED
    BY <1>1, <2>1, <2>3, <2>4, <2>5, <2>6
<1>6. QED
  BY <1>1, <1>2, <1>4, <1>5 DEF Positions, Points

LEMMA PushDocs ==
  ASSUME TypeInv, ShapeInv, HistoryInv, NEW c \in Commands, done' = done + 1,
         stack' = Append(SubSeq(stack, 1, done), c),
         past' = Append(past, Document(db)), future' = <<>>
  PROVE  /\ past' \in Seq(Documents) /\ future' \in Seq(Documents) /\ stack' \in Seq(Commands)
         /\ Len(stack') = done + 1 /\ Len(past') = done' /\ Len(future') = Len(stack') - done'
         /\ Positions' = 1..(done + 1) /\ Points' = 1..(done + 2)
         /\ stack'[done + 1] = c /\ \A i \in 1..done : stack'[i] = stack[i]
         /\ \A j \in Nat : j = done + 2 => Docs(j)' = Document(db')
         /\ \A j \in 1..(done + 1) : Docs(j)' = Docs(j)
<1>1. /\ Len(stack) \in Nat /\ done \in Nat /\ done <= Len(stack) /\ Len(past) = done
      /\ Len(future) = Len(stack) - done /\ Document(db) \in Documents
      /\ past \in Seq(Documents) /\ stack \in Seq(Commands)
  BY Sequences DEF TypeInv, TypeOK
<1>2. /\ past' \in Seq(Documents) /\ Len(past') = done + 1 /\ past'[done + 1] = Document(db)
      /\ \A i \in 1..done : past'[i] = past[i]
  BY <1>1, AppendProperties
<1> DEFINE kept == SubSeq(stack, 1, done)
<1>3. /\ kept \in Seq(Commands) /\ Len(kept) = done
      /\ \A i \in 1..done : kept[i] = stack[i]
  <2>1. \A i \in 1..done : stack[i] \in Commands
    BY <1>1, ElementOfSeq
  <2>2. /\ kept \in Seq(Commands)
        /\ Len(kept) = IF 1 <= done THEN done - 1 + 1 ELSE 0
        /\ \A i \in 1..(done - 1 + 1) : kept[i] = stack[1 + i - 1]
    BY <1>1, <2>1, SubSeqProperties
  <2>3. \A i \in 1..done : i \in 1..(done - 1 + 1) /\ 1 + i - 1 = i
    BY <1>1
  <2>4. (IF 1 <= done THEN done - 1 + 1 ELSE 0) = done
    BY <1>1
  <2> HIDE DEF kept
  <2>5. QED
    BY <2>2, <2>3, <2>4
<1>4. stack' = Append(kept, c)
  OBVIOUS
<1> HIDE DEF kept
<1>5. /\ stack' \in Seq(Commands) /\ Len(stack') = done + 1 /\ stack'[done + 1] = c
      /\ \A i \in 1..done : stack'[i] = stack[i]
  BY <1>3, <1>4, AppendProperties
<1>6. future' \in Seq(Documents) /\ Len(future') = 0
  BY EmptySeq
<1>7. ASSUME NEW j \in 1..(done + 2)
      PROVE  Docs(j)' = IF j <= done + 1 THEN past'[j]
                        ELSE IF j = done + 2 THEN Document(db') ELSE future'[j - (done + 1) - 1]
  <2>1. Docs(j)' = IF j <= done + 1 THEN past'[j]
                   ELSE IF j = done + 1 + 1 THEN Document(db') ELSE future'[j - (done + 1) - 1]
    BY DEF Docs, Document, Holds
  <2>2. done + 1 + 1 = done + 2
    BY <1>1
  <2>3. QED
    BY <2>1, <2>2
<1>8. ASSUME NEW j \in Nat, j = done + 2
      PROVE  Docs(j)' = Document(db')
  <2>1. j \in 1..(done + 2) /\ ~(j <= done + 1)
    BY <1>1, <1>8
  <2>2. QED
    BY <1>7, <1>8, <2>1
<1>9. ASSUME NEW j \in 1..(done + 1)
      PROVE  Docs(j)' = Docs(j)
  <2>1. j \in 1..(done + 2) /\ j <= done + 1 /\ (j <= done \/ j = done + 1)
    BY <1>1
  <2>2. Docs(j)' = past'[j]
    BY <1>7, <2>1
  <2>3. CASE j <= done
    BY <1>1, <1>2, <2>2, <2>3 DEF Docs
  <2>4. CASE j = done + 1
    BY <1>1, <1>2, <2>2, <2>4 DEF Docs
  <2>5. QED
    BY <2>1, <2>3, <2>4
<1>10. QED
  <2>1. Positions' = 1..(done + 1) /\ Points' = 1..(done + 2)
    BY <1>1, <1>5 DEF Positions, Points
  <2>2. Len(future') = Len(stack') - done'
    BY <1>1, <1>5, <1>6
  <2>3. QED
    BY <1>2, <1>5, <1>6, <1>8, <1>9, <2>1, <2>2

-----------------------------------------------------------------------------
(* Undo and redo bring the documents around the command.                    *)

\* the members of a group put in or taken out stay as they are
StaysAsItIs(d, e, c) == c.kind \in {"delete", "add"} => e.refs = d.refs

LEMMA KindsApart ==
  ASSUME NEW c, NEW D, NEW E, Step(c, D, E)
  PROVE  /\ c.kind = "move" => MoveStep(c, D, E)
         /\ c.kind = "delete" => DeleteStep(c, D, E)
         /\ c.kind = "add" => AddStep(c, D, E)
         /\ c.kind = "change" => ChangeStep(c, D, E)
BY DEF Step

LEMMA UndoResult ==
  ASSUME TypeInv, ShapeInv, FitInv, HistoryInv, AwayInv, done > 0
  PROVE  LET c == stack[done]
             e == Undone(c, db)
         IN  /\ c \in Commands /\ done \in Positions
             /\ Document(e) = past[done] /\ Follows(db, e, c.obj) /\ Even(db, e)
             /\ StaysAsItIs(db, e, c)
<1> DEFINE c == stack[done]
           e == Undone(c, db)
           D == past[done]
<1>1. /\ Len(stack) \in Nat /\ done \in Nat /\ done <= Len(stack) /\ Proper(db)
      /\ Len(past) = done /\ \A i \in Positions : stack[i] \in Commands
  BY Sequences
<1>2. done \in Positions /\ done \in Points /\ done + 1 \in Points
  BY <1>1 DEF Positions, Points
<1>3. Docs(done) = D /\ Docs(done + 1) = Document(db)
  BY <1>1 DEF Docs
<1>4. c \in Commands /\ DocOK(D) /\ Step(c, D, Document(db))
  BY <1>1, <1>2, <1>3 DEF HistoryInv
<1>5. Fit(c)
  BY <1>1, <1>2, Sequences DEF FitInv
<1>6. db \in Databases /\ db.place \in [Objects -> Places]
  BY <1>1, DatabaseFields DEF Proper
<1>7. c.kind = "delete" /\ c.obj \in Groups => db.refs[c.obj] = D.refs[c.obj]
  BY <1>1, <1>2, <1>3 DEF AwayInv
<1>8. D \in Documents
  BY <1>4 DEF DocOK
<1>9. /\ D.place \in [Objects -> {"library", "deleted", "nowhere"}]
      /\ D.refs \in [Holders -> SUBSET Members]
  BY <1>8 DEF Documents, Members
<1>10. /\ c.kind = "move" => MoveStep(c, D, Document(db))
       /\ c.kind = "delete" => DeleteStep(c, D, Document(db))
       /\ c.kind = "add" => AddStep(c, D, Document(db))
       /\ c.kind = "change" => ChangeStep(c, D, Document(db))
  BY <1>4, KindsApart
<1> HIDE DEF c, D
<1>11. CASE c.kind = "move"
  <2>1. e = MoveUndo(c, db) /\ MoveStep(c, D, Document(db))
    BY <1>10, <1>11 DEF Undone
  <2>2. Document(e) = D /\ Follows(db, e, c.obj)
    BY <1>1, <1>4, <1>5, <1>11, <2>1, MoveUndone
  <2>3. c.obj \in Objects /\ c.to \in InTree
    BY <1>4, <1>11, Kinds
  <2>4. Document(db).place[c.obj] = c.to
    BY <1>9, <2>1, <2>3 DEF MoveStep
  <2>5. db.place[c.obj] \in InTree
    BY <1>6, <2>3, <2>4, Shown DEF InTree
  <2>6. Even(db, e)
    BY <1>4, <1>6, <1>11, <2>1, <2>5, EvenMoveUndo
  <2>7. QED
    BY <1>2, <1>4, <1>11, <2>2, <2>6 DEF StaysAsItIs, c, D
<1>12. CASE c.kind = "delete"
  <2>1. e = PutBack(c, db, "deleted") /\ DeleteStep(c, D, Document(db))
    BY <1>10, <1>12 DEF Undone
  <2>2. Document(e) = D /\ Follows(db, e, c.obj) /\ e.refs = db.refs
    BY <1>1, <1>4, <1>7, <1>12, <2>1, DeleteUndone
  <2>3. c.obj \in Objects /\ "deleted" \in Places
    BY <1>4, <1>12, Kinds DEF Places
  <2>4. Even(db, e)
    BY <1>6, <2>1, <2>3, EvenPutBack
  <2>5. QED
    BY <1>2, <1>4, <2>2, <2>4 DEF StaysAsItIs, c, D
<1>13. CASE c.kind = "add"
  <2>1. e = TakeOut(c, db) /\ AddStep(c, D, Document(db))
    BY <1>10, <1>13 DEF Undone
  <2>2. Document(e) = D /\ Follows(db, e, c.obj) /\ e.refs = db.refs
    BY <1>1, <1>4, <1>13, <2>1, AddUndone
  <2>3. c.obj \in Objects
    BY <1>4, <1>13, Kinds, Apart
  <2>4. Document(db).place[c.obj] = "library"
    BY <1>9, <2>1, <2>3 DEF AddStep
  <2>5. db.place[c.obj] \in InTree
    BY <1>6, <2>3, <2>4, Shown
  <2>6. Even(db, e)
    BY <1>6, <2>1, <2>3, <2>5, EvenTakeOut
  <2>7. QED
    BY <1>2, <1>4, <2>2, <2>6 DEF StaysAsItIs, c, D
<1>14. CASE c.kind = "change"
  <2>1. e = Restore(c.obj, c.from, db) /\ ChangeStep(c, D, Document(db))
    BY <1>10, <1>14 DEF Undone
  <2>2. c.obj \in Holders /\ c.from \in SUBSET Members
    BY <1>4, <1>14, Kinds
  <2>3. (c.obj \in Rules => Shaped(c.from)) /\ (c.obj \in Groups => c.from \subseteq Hosts)
    BY <1>5, <1>14, Apart DEF Fit
  <2>4. /\ Document(db).place = D.place /\ (c.obj \in Groups => D.place[c.obj] # "nowhere")
        /\ D.refs[c.obj] = c.from
        /\ \A k \in Holders : k # c.obj => Document(db).refs[k] = D.refs[k]
    BY <2>1 DEF ChangeStep
  <2>5. Visible(db, c.obj)
    BY <1>6, <2>2, <2>4, Shown, Apart DEF Visible, Holders
  <2>6. /\ Follows(db, e, c.obj) /\ Document(e).place = Document(db).place
        /\ \A k \in Holders : Document(e).refs[k] = IF k = c.obj THEN c.from
                                                    ELSE Document(db).refs[k]
    BY <1>1, <1>4, <2>1, <2>2, <2>3, <2>5, ChangeMade
  <2>7. Document(e) \in Documents
    <3>1. e \in Databases
      BY <2>6 DEF Follows, Proper
    <3>2. QED
      BY <3>1, DocumentFields DEF DocOK
  <2>8. Document(e).refs \in [Holders -> SUBSET Members]
    BY <2>7 DEF Documents, Members
  <2>9. Document(e).place = D.place /\ Document(e).refs = D.refs
    BY <1>9, <2>4, <2>6, <2>8
  <2>10. Document(e) = D
    BY <1>8, <2>7, <2>9 DEF Documents
  <2>11. Even(db, e)
    BY <1>6, <2>1, <2>2, EvenRestore
  <2>12. QED
    BY <1>2, <1>4, <1>14, <2>6, <2>10, <2>11 DEF StaysAsItIs, c, D
<1>15. QED
  BY <1>4, <1>11, <1>12, <1>13, <1>14, Kinds DEF c

LEMMA RedoResult ==
  ASSUME TypeInv, ShapeInv, FitInv, HistoryInv, AwayInv, done < Len(stack), Usable(db)
  PROVE  LET c == stack[done + 1]
             e == Redone(c, db)
         IN  /\ c \in Commands /\ done + 1 \in Positions
             /\ Document(e) = future[1] /\ Follows(db, e, c.obj) /\ Even(db, e)
             /\ StaysAsItIs(db, e, c)
<1> DEFINE c == stack[done + 1]
           e == Redone(c, db)
           D == Document(db)
           E == future[1]
<1>1. /\ Len(stack) \in Nat /\ done \in Nat /\ done <= Len(stack) /\ Proper(db)
      /\ Len(future) = Len(stack) - done /\ \A i \in Positions : stack[i] \in Commands
  BY Sequences
<1>2. done + 1 \in Positions /\ done + 1 \in Points /\ done + 2 \in Points
      /\ (done + 1) + 1 = done + 2
  BY <1>1 DEF Positions, Points
<1>3. Docs(done + 1) = D /\ Docs(done + 2) = E
  <2>1. (done + 2) - done - 1 = 1 /\ ~(done + 2 <= done) /\ done + 2 # done + 1
    BY <1>1
  <2>2. QED
    BY <1>1, <2>1 DEF Docs
<1>4. c \in Commands /\ DocOK(D) /\ DocOK(E) /\ Step(c, D, E)
  BY <1>1, <1>2, <1>3 DEF HistoryInv
<1>5. Fit(c)
  BY <1>1, <1>2, Sequences DEF FitInv
<1>6. db \in Databases
  BY <1>1 DEF Proper
<1>7. c.kind = "add" => db.refs[c.obj] = E.refs[c.obj]
  BY <1>1, <1>2, <1>3 DEF AwayInv
<1>8. D \in Documents /\ E \in Documents
  BY <1>4 DEF DocOK
<1>9. /\ D.place \in [Objects -> {"library", "deleted", "nowhere"}]
      /\ D.refs \in [Holders -> SUBSET Members]
      /\ E.place \in [Objects -> {"library", "deleted", "nowhere"}]
      /\ E.refs \in [Holders -> SUBSET Members]
  BY <1>8 DEF Documents, Members
<1>10. /\ \A x \in Objects : D.place[x] # "nowhere" <=> db.place[x] \in InTree
       /\ \A x \in Objects : D.place[x] # "nowhere" => db.place[x] = D.place[x]
       /\ \A r \in Rules : db.refs[r] = D.refs[r]
       /\ \A g \in Groups : D.place[g] # "nowhere" => db.refs[g] = D.refs[g]
       /\ \A g \in Groups : D.place[g] = "nowhere" => D.refs[g] = {}
  BY <1>4, <1>6, Shown DEF DocOK
<1>11. /\ c.kind = "move" => MoveStep(c, D, E)
       /\ c.kind = "delete" => DeleteStep(c, D, E)
       /\ c.kind = "add" => AddStep(c, D, E)
       /\ c.kind = "change" => ChangeStep(c, D, E)
  BY <1>4, KindsApart
<1>12. Proper(e) => Document(e) \in Documents
  BY DocumentFields DEF Proper, DocOK
<1> HIDE DEF c, D, E
<1>13. CASE c.kind = "move"
  <2>1. e = MoveRedo(c, db) /\ MoveStep(c, D, E)
    BY <1>11, <1>13 DEF Redone
  <2>2. c.obj \in Objects /\ c.from \in InTree /\ c.holders \subseteq Holders
    BY <1>4, <1>13, Kinds
  <2>3. db.place[c.obj] = c.from /\ db.place[c.obj] \in InTree
    BY <1>10, <2>1, <2>2 DEF MoveStep, InTree
  <2>4. ASSUME NEW h \in c.holders
        PROVE  c.obj \in db.refs[h] /\ Visible(db, h) /\ h \notin db.freed
    <3>1. h \in Holders /\ c.obj \in D.refs[h]
      BY <2>1, <2>2 DEF MoveStep
    <3>2. CASE h \in Rules
      BY <1>6, <1>10, <3>1, <3>2, Apart, DatabaseFields DEF Visible
    <3>3. CASE h \in Groups
      <4>1. D.place[h] # "nowhere" /\ h \in Objects
        BY <1>10, <3>1, <3>3, Apart
      <4>2. db.place[h] \in InTree /\ db.refs[h] = D.refs[h]
        BY <1>10, <3>3, <4>1
      <4>3. QED
        BY <3>1, <4>2 DEF Visible, Usable
    <3>4. QED
      BY <3>1, <3>2, <3>3 DEF Holders
  <2>5. MoveStep(c, D, Document(e)) /\ Follows(db, e, c.obj)
    BY <1>1, <1>4, <1>5, <1>13, <2>1, <2>3, <2>4, MoveRedone DEF D
  <2>6. /\ Document(e).place = E.place
        /\ \A h \in Holders : Document(e).refs[h] = E.refs[h]
    BY <2>1, <2>5 DEF MoveStep
  <2>7. Document(e) \in Documents
    BY <1>12, <2>5 DEF Follows
  <2>8. Document(e).refs \in [Holders -> SUBSET Members]
    BY <2>7 DEF Documents, Members
  <2>9. Document(e).refs = E.refs
    BY <1>9, <2>6, <2>8
  <2>10. Document(e) = E
    BY <1>8, <2>6, <2>7, <2>9 DEF Documents
  <2>11. Even(db, e)
    BY <1>4, <1>6, <1>13, <2>1, <2>3, <2>4, EvenMoveRedo
  <2>12. QED
    BY <1>2, <1>4, <1>13, <2>5, <2>10, <2>11 DEF StaysAsItIs, c, E
<1>14. CASE c.kind = "delete"
  <2>1. e = TakeOut(c, db) /\ DeleteStep(c, D, E)
    BY <1>11, <1>14 DEF Redone
  <2>2. c.obj \in Objects
    BY <1>4, <1>14, Kinds
  <2>3. db.place[c.obj] = "deleted" /\ db.place[c.obj] \in InTree
    BY <1>10, <2>1, <2>2 DEF DeleteStep
  <2>4. DeleteStep(c, D, Document(e)) /\ Follows(db, e, c.obj) /\ e.refs = db.refs
    BY <1>1, <1>4, <1>14, <2>1, <2>3, DeleteRedone DEF D
  <2>5. /\ Document(e).place = E.place
        /\ \A h \in Holders : Document(e).refs[h] = E.refs[h]
    BY <2>1, <2>4 DEF DeleteStep
  <2>6. Document(e) = E
    <3>1. Document(e) \in Documents
      BY <1>12, <2>4 DEF Follows
    <3>2. Document(e).refs \in [Holders -> SUBSET Members]
      BY <3>1 DEF Documents, Members
    <3>3. Document(e).refs = E.refs
      BY <1>9, <2>5, <3>2
    <3>4. QED
      BY <1>8, <2>5, <3>1, <3>3 DEF Documents
  <2>7. Even(db, e)
    BY <1>6, <2>1, <2>2, <2>3, EvenTakeOut
  <2>8. QED
    BY <1>2, <1>4, <2>4, <2>6, <2>7 DEF StaysAsItIs, c, E
<1>15. CASE c.kind = "add"
  <2>1. e = PutBack(c, db, "library") /\ AddStep(c, D, E)
    BY <1>11, <1>15 DEF Redone
  <2>2. c.obj \in Groups /\ c.obj \in Objects /\ c.obj \in Holders /\ "library" \in Places
    BY <1>4, <1>15, Kinds, Apart DEF Places
  <2>3. db.place[c.obj] \notin InTree
    BY <1>10, <2>1, <2>2 DEF AddStep
  <2>4. /\ AddStep(c, D, Document(e)) /\ Follows(db, e, c.obj) /\ e.refs = db.refs
        /\ Document(e).refs[c.obj] = db.refs[c.obj]
    BY <1>1, <1>4, <1>15, <2>1, <2>3, AddRedone DEF D
  <2>5. /\ Document(e).place = E.place
        /\ \A h \in Holders : Document(e).refs[h] = E.refs[h]
    BY <1>7, <1>15, <2>1, <2>4 DEF AddStep
  <2>6. Document(e) = E
    <3>1. Document(e) \in Documents
      BY <1>12, <2>4 DEF Follows
    <3>2. Document(e).refs \in [Holders -> SUBSET Members]
      BY <3>1 DEF Documents, Members
    <3>3. Document(e).refs = E.refs
      BY <1>9, <2>5, <3>2
    <3>4. QED
      BY <1>8, <2>5, <3>1, <3>3 DEF Documents
  <2>7. Even(db, e)
    BY <1>6, <2>1, <2>2, EvenPutBack
  <2>8. QED
    BY <1>2, <1>4, <2>4, <2>6, <2>7 DEF StaysAsItIs, c, E
<1>16. CASE c.kind = "change"
  <2>1. e = Restore(c.obj, c.to, db) /\ ChangeStep(c, D, E)
    BY <1>11, <1>16 DEF Redone
  <2>2. c.obj \in Holders /\ c.to \in SUBSET Members
    BY <1>4, <1>16, Kinds
  <2>3. (c.obj \in Rules => Shaped(c.to)) /\ (c.obj \in Groups => c.to \subseteq Hosts)
    BY <1>5, <1>16, Apart DEF Fit
  <2>4. /\ E.place = D.place /\ (c.obj \in Groups => D.place[c.obj] # "nowhere")
        /\ \A k \in Holders : E.refs[k] = IF k = c.obj THEN c.to ELSE D.refs[k]
    BY <2>1 DEF ChangeStep
  <2>5. Visible(db, c.obj)
    BY <1>10, <2>2, <2>4, Apart DEF Visible, Holders
  <2>6. /\ Follows(db, e, c.obj) /\ Document(e).place = D.place
        /\ \A k \in Holders : Document(e).refs[k] = IF k = c.obj THEN c.to ELSE D.refs[k]
    <3>1. /\ Follows(db, e, c.obj) /\ Document(e).place = Document(db).place
          /\ \A k \in Holders : Document(e).refs[k] = IF k = c.obj THEN c.to
                                                      ELSE Document(db).refs[k]
      BY <1>1, <1>4, <2>1, <2>2, <2>3, <2>5, ChangeMade
    <3>2. QED
      BY <3>1 DEF D
  <2>7. Document(e) \in Documents
    BY <1>12, <2>6 DEF Follows
  <2>8. Document(e).refs \in [Holders -> SUBSET Members]
    BY <2>7 DEF Documents, Members
  <2>9. Document(e).place = E.place /\ Document(e).refs = E.refs
    BY <1>9, <2>4, <2>6, <2>8
  <2>10. Document(e) = E
    BY <1>8, <2>7, <2>9 DEF Documents
  <2>11. Even(db, e)
    BY <1>6, <2>1, <2>2, EvenRestore
  <2>12. QED
    BY <1>2, <1>4, <1>16, <2>6, <2>10, <2>11 DEF StaysAsItIs, c, E
<1>17. QED
  BY <1>4, <1>13, <1>14, <1>15, <1>16, Kinds DEF c

-----------------------------------------------------------------------------
(* Undo and Redo keep the invariant.                                        *)

\* the command at position k is done or undone
Along(k) ==
  /\ k \in Positions /\ ((done = k /\ done' = k - 1) \/ (done = k - 1 /\ done' = k))
  /\ Usable(db) /\ stack[k].obj \notin db.freed
  /\ Follows(db, db', stack[k].obj) /\ Even(db, db') /\ StaysAsItIs(db, db', stack[k])
  /\ stack' = stack /\ clip' = clip /\ dummies' = dummies /\ uncounted' = uncounted
  /\ past' \in Seq(Documents) /\ future' \in Seq(Documents)
  /\ Len(past') = done' /\ Len(future') = Len(stack') - done'
  /\ Positions' = Positions /\ Points' = Points /\ \A j \in Points : Docs(j)' = Docs(j)

\* the members of a database whose groups and rules are well formed
LEMMA ProperTypes ==
  ASSUME Proper(db)', dummies' = dummies
  PROVE  /\ db' \in Databases
         /\ db'.place \in [Objects -> Places] /\ db'.refs \in [Holders -> SUBSET Members]
         /\ db'.rc \in [Objects -> Int] /\ db'.freed \subseteq Objects
         /\ \A g \in Groups : db'.refs[g] \subseteq Hosts
         /\ \A r \in Rules : db'.refs[r] \subseteq Objects \cup {AnyObject, DummyObject}
         /\ ShapeInv'
<1>1. /\ db' \in Databases /\ \A g \in Groups : db'.refs[g] \subseteq Hosts
      /\ ShapeInv'
  BY DEF Proper, ShapeInv, Shaped
<1>2. /\ db'.place \in [Objects -> Places] /\ db'.refs \in [Holders -> SUBSET Members]
      /\ db'.rc \in [Objects -> Int] /\ db'.freed \subseteq Objects
  BY <1>1, DatabaseFields
<1>3. \A r \in Rules : db'.refs[r] \subseteq Objects \cup {AnyObject, DummyObject}
  BY <1>2, Apart DEF Members
<1>4. QED
  BY <1>1, <1>2, <1>3

LEMMA ProperPrime ==
  ASSUME Proper(db'), dummies' = dummies
  PROVE  Proper(db)'
BY DEF Proper, Shaped

LEMMA FitPrime ==
  ASSUME dummies' = dummies, FitInv, stack' = stack
  PROVE  FitInv'
BY DEF FitInv, Fit, Shaped

LEMMA AlongTypes ==
  ASSUME TypeInv, ShapeInv, FitInv, NEW k, Along(k)
  PROVE  TypeInv' /\ ShapeInv' /\ FitInv'
<1>1. Proper(db') /\ dummies' = dummies /\ stack' = stack /\ uncounted' = uncounted /\ clip' = clip
      /\ past' \in Seq(Documents) /\ future' \in Seq(Documents)
  BY DEF Along, Follows
<1>2. /\ db' \in Databases
      /\ db'.place \in [Objects -> Places] /\ db'.refs \in [Holders -> SUBSET Members]
      /\ db'.rc \in [Objects -> Int] /\ db'.freed \subseteq Objects
      /\ \A g \in Groups : db'.refs[g] \subseteq Hosts
      /\ \A r \in Rules : db'.refs[r] \subseteq Objects \cup {AnyObject, DummyObject}
      /\ ShapeInv'
  BY <1>1, ProperPrime, ProperTypes
<1>3. done' \in 0..Len(stack')
  <2>1. stack \in Seq(Commands) /\ done \in 0..Len(stack)
    BY DEF TypeInv, TypeOK
  <2>2. Len(stack) \in Nat
    BY <2>1, LenProperties
  <2>3. k \in 1..Len(stack) /\ (done' = k - 1 \/ done' = k)
    BY DEF Along, Positions
  <2>4. QED
    BY <1>1, <2>1, <2>2, <2>3
<1>4. /\ stack' \in Seq(Commands) /\ clip' \in Objects \cup {NoObject} /\ dummies' \in BOOLEAN
      /\ uncounted' \in [Objects -> Nat]
  BY <1>1 DEF TypeInv, TypeOK
<1>5. TypeOK'
  BY <1>1, <1>2, <1>3, <1>4 DEF TypeOK, Places
<1>6. QED
  BY <1>1, <1>2, <1>5, FitPrime DEF TypeInv

LEMMA AlongHistory ==
  ASSUME TypeInv, ShapeInv, HistoryInv, WentInv, NEW k, Along(k)
  PROVE  HistoryInv' /\ WentInv'
<1>1. /\ stack' = stack /\ dummies' = dummies /\ Points' = Points /\ Positions' = Positions
      /\ \A j \in Points : Docs(j)' = Docs(j)
      /\ Len(past') = done' /\ Len(future') = Len(stack') - done'
  BY DEF Along
<1>2. \A i \in Positions : i \in Points /\ i + 1 \in Points
  BY Sequences DEF Points, Positions
<1>3. \A j \in Points : DocOK(Docs(j))'
  BY <1>1 DEF HistoryInv, DocOK
<1>4. ASSUME NEW i \in Positions
      PROVE  Step(stack[i], Docs(i), Docs(i + 1))'
  <2>1. PICK c, D, E : c = stack[i] /\ D = Docs(i) /\ E = Docs(i + 1)
    OBVIOUS
  <2>2. stack'[i] = c /\ Docs(i)' = D /\ Docs(i + 1)' = E
    BY <1>1, <1>2, <2>1
  <2>3. Step(c, D, E)
    BY <2>1 DEF HistoryInv
  <2>4. Step(c, D, E)'
    BY <1>1, <2>3 DEF Step, MoveStep, DeleteStep, AddStep, ChangeStep, SetDummy, Shaped
  <2>5. QED
    BY <2>2, <2>4 DEF Step, MoveStep, DeleteStep, AddStep, ChangeStep
<1>5. HistoryInv'
  BY <1>1, <1>3, <1>4 DEF HistoryInv
<1>6. WentInv'
  <2>1. ASSUME NEW x \in Objects, NEW j \in Points, NEW i \in 1..j,
               Docs(i)'.place[x] # "nowhere", Docs(j)'.place[x] = "nowhere"
        PROVE  \E m \in i..(j - 1) : Keeps(stack'[m], x)
    <3>1. i \in Points
      BY Sequences DEF Points
    <3>2. QED
      BY <1>1, <2>1, <3>1 DEF WentInv
  <2>2. QED
    BY <1>1, <2>1 DEF WentInv, Keeps
<1>7. QED
  BY <1>5, <1>6

LEMMA AlongDocs ==
  ASSUME TypeInv, ShapeInv, HistoryInv, NEW k, Along(k)
  PROVE  /\ k \in 1..Len(stack) /\ k \in Points /\ k + 1 \in Points
         /\ done = k => Docs(k) = Document(db') /\ Docs(k + 1) = Document(db)
         /\ done = k - 1 => Docs(k) = Document(db) /\ Docs(k + 1) = Document(db')
<1>1. Len(stack) \in Nat /\ done \in Nat
  BY Sequences
<1>2. k \in 1..Len(stack) /\ k \in Points /\ k + 1 \in Points
  BY <1>1 DEF Along, Positions, Points
<1>3. \A j \in Points : Docs(j)' = Docs(j)
  BY DEF Along
<1>4. CASE done = k
  <2>1. Docs(k + 1) = Document(db)
    BY <1>1, <1>2, <1>4 DEF Docs
  <2>2. done' = k - 1
    BY <1>2, <1>4 DEF Along
  <2>3. ASSUME NEW j \in Points, j = k
        PROVE  Docs(j)' = Document(db')
    <3>1. Docs(j)' = IF j <= done' THEN past'[j]
                     ELSE IF j = done' + 1 THEN Document(db') ELSE future'[j - done' - 1]
      BY DEF Docs, Document, Holds
    <3>2. ~(j <= done') /\ j = done' + 1
      BY <1>2, <2>2, <2>3
    <3>3. QED
      BY <3>1, <3>2
  <2>4. QED
    BY <1>2, <1>3, <1>4, <2>1, <2>3
<1>5. CASE done = k - 1
  <2>1. Docs(k) = Document(db)
    BY <1>1, <1>2, <1>5 DEF Docs
  <2>2. done' = k
    BY <1>2, <1>5 DEF Along
  <2>3. ASSUME NEW j \in Points, j = k + 1
        PROVE  Docs(j)' = Document(db')
    <3>1. Docs(j)' = IF j <= done' THEN past'[j]
                     ELSE IF j = done' + 1 THEN Document(db') ELSE future'[j - done' - 1]
      BY DEF Docs, Document, Holds
    <3>2. ~(j <= done') /\ j = done' + 1
      BY <1>2, <2>2, <2>3
    <3>3. QED
      BY <3>1, <3>2
  <2>4. QED
    BY <1>2, <1>3, <1>5, <2>1, <2>3
<1>6. QED
  BY <1>2, <1>4, <1>5

LEMMA AlongAway ==
  ASSUME TypeInv, ShapeInv, HistoryInv, AwayInv, NEW k, Along(k)
  PROVE  AwayInv'
<1>1. /\ Len(stack) \in Nat /\ done \in Nat /\ done <= Len(stack) /\ Proper(db)
      /\ Positions = 1..Len(stack) /\ Points = 1..(Len(stack) + 1)
      /\ \A i \in Positions : stack[i] \in Commands
  BY Sequences DEF Positions, Points
<1>2. /\ k \in 1..Len(stack) /\ k \in Points /\ k + 1 \in Points
      /\ done = k => Docs(k) = Document(db') /\ Docs(k + 1) = Document(db)
      /\ done = k - 1 => Docs(k) = Document(db) /\ Docs(k + 1) = Document(db')
  BY AlongDocs
<1>3. /\ stack' = stack /\ Points' = Points /\ Positions' = Positions
      /\ \A j \in Points : Docs(j)' = Docs(j)
      /\ ((done = k /\ done' = k - 1) \/ (done = k - 1 /\ done' = k))
      /\ Follows(db, db', stack[k].obj) /\ StaysAsItIs(db, db', stack[k])
  BY DEF Along
<1>4. db \in Databases /\ db' \in Databases
  BY <1>1, <1>3 DEF Proper, Follows
<1>5. ASSUME NEW g \in Groups, Docs(k).place[g] = "nowhere", Docs(k + 1).place[g] = "nowhere"
      PROVE  db'.refs[g] = db.refs[g]
  <2>1. Document(db).place[g] = "nowhere" /\ Document(db').place[g] = "nowhere"
    BY <1>2, <1>3, <1>5
  <2>2. db.place[g] \notin InTree /\ db'.place[g] \notin InTree
    BY <1>4, <2>1, Shown, Apart
  <2>3. QED
    BY <1>3, <2>2 DEF Follows
<1>6. ASSUME NEW i \in Positions, stack[i].kind = "add"
      PROVE  /\ \A j \in 1..i : Docs(j).place[stack[i].obj] = "nowhere"
             /\ done' < i => db'.refs[stack[i].obj] = Docs(i + 1).refs[stack[i].obj]
  <2>1. /\ \A j \in 1..i : Docs(j).place[stack[i].obj] = "nowhere"
        /\ done < i => db.refs[stack[i].obj] = Docs(i + 1).refs[stack[i].obj]
    BY <1>6 DEF AwayInv
  <2>2. i \in 1..Len(stack) /\ stack[i].obj \in Groups
    BY <1>1, <1>6, Kinds
  <2>3. ASSUME done' < i, i # k
        PROVE  db'.refs[stack[i].obj] = Docs(i + 1).refs[stack[i].obj]
    <3>1. done < i /\ k \in 1..i /\ k + 1 \in 1..i
      BY <1>1, <1>2, <1>3, <2>2, <2>3
    <3>2. QED
      BY <1>5, <2>1, <2>2, <3>1
  <2>4. ASSUME done' < i, i = k
        PROVE  db'.refs[stack[i].obj] = Docs(i + 1).refs[stack[i].obj]
    <3>1. done = k /\ Docs(k + 1) = Document(db)
      BY <1>2, <1>3, <2>4
    <3>2. db'.refs = db.refs
      BY <1>3, <1>6, <2>4 DEF StaysAsItIs
    <3>3. AddStep(stack[k], Docs(k), Docs(k + 1))
      BY <1>6, <2>4, KindsApart DEF HistoryInv
    <3>4. Docs(k + 1).place[stack[k].obj] = "library"
      <4>1. Docs(k) \in Documents
        BY <1>2 DEF HistoryInv, DocOK
      <4>2. Docs(k).place \in [Objects -> {"library", "deleted", "nowhere"}]
        BY <4>1 DEF Documents
      <4>3. QED
        BY <2>2, <2>4, <3>3, <4>2, Apart DEF AddStep
    <3>5. db.refs[stack[k].obj] = Document(db).refs[stack[k].obj]
      BY <1>4, <2>2, <2>4, <3>1, <3>4, Shown
    <3>6. QED
      BY <2>4, <3>1, <3>2, <3>5
  <2>5. QED
    BY <2>1, <2>3, <2>4
<1>7. ASSUME NEW i \in Positions, stack[i].kind = "delete"
      PROVE  /\ \A j \in (i + 1)..(Len(stack) + 1) : Docs(j).place[stack[i].obj] = "nowhere"
             /\ i <= done' /\ stack[i].obj \in Groups =>
                  db'.refs[stack[i].obj] = Docs(i).refs[stack[i].obj]
  <2>1. /\ \A j \in (i + 1)..(Len(stack) + 1) : Docs(j).place[stack[i].obj] = "nowhere"
        /\ i <= done /\ stack[i].obj \in Groups =>
             db.refs[stack[i].obj] = Docs(i).refs[stack[i].obj]
    BY <1>7 DEF AwayInv
  <2>2. i \in 1..Len(stack) /\ stack[i].obj \in Objects
    BY <1>1, <1>7, Kinds
  <2>3. ASSUME i <= done', stack[i].obj \in Groups, i # k
        PROVE  db'.refs[stack[i].obj] = Docs(i).refs[stack[i].obj]
    <3>1. i <= done /\ k \in (i + 1)..(Len(stack) + 1) /\ k + 1 \in (i + 1)..(Len(stack) + 1)
      BY <1>1, <1>2, <1>3, <2>2, <2>3
    <3>2. QED
      BY <1>5, <2>1, <2>3, <3>1
  <2>4. ASSUME i <= done', stack[i].obj \in Groups, i = k
        PROVE  db'.refs[stack[i].obj] = Docs(i).refs[stack[i].obj]
    <3>1. done = k - 1 /\ Docs(k) = Document(db)
      BY <1>1, <1>2, <1>3, <2>4
    <3>2. db'.refs = db.refs
      BY <1>3, <1>7, <2>4 DEF StaysAsItIs
    <3>3. DeleteStep(stack[k], Docs(k), Docs(k + 1))
      BY <1>7, <2>4, KindsApart DEF HistoryInv
    <3>4. Docs(k).place[stack[k].obj] = "deleted"
      BY <3>3 DEF DeleteStep
    <3>5. db.refs[stack[k].obj] = Document(db).refs[stack[k].obj]
      BY <1>4, <2>4, <3>1, <3>4, Shown
    <3>6. QED
      BY <2>4, <3>1, <3>2, <3>5
  <2>5. QED
    BY <2>1, <2>3, <2>4
<1>8. ASSUME NEW i \in Positions
      PROVE  /\ i + 1 \in Points /\ i \in Points /\ \A j \in 1..i : j \in Points
             /\ \A j \in (i + 1)..(Len(stack) + 1) : j \in Points
  BY <1>1
<1>9. QED
  <2>1. ASSUME NEW i \in Positions
        PROVE  /\ stack'[i].kind = "add" =>
                    /\ \A j \in 1..i : Docs(j)'.place[stack'[i].obj] = "nowhere"
                    /\ done' < i => db'.refs[stack'[i].obj] = Docs(i + 1)'.refs[stack'[i].obj]
               /\ stack'[i].kind = "delete" =>
                    /\ \A j \in (i + 1)..(Len(stack') + 1) :
                         Docs(j)'.place[stack'[i].obj] = "nowhere"
                    /\ i <= done' /\ stack'[i].obj \in Groups =>
                         db'.refs[stack'[i].obj] = Docs(i)'.refs[stack'[i].obj]
    BY <1>3, <1>6, <1>7, <1>8
  <2>2. QED
    BY <1>3, <2>1 DEF AwayInv

LEMMA AlongUnborn ==
  ASSUME TypeInv, ShapeInv, HistoryInv, UnbornInv, NEW k, Along(k)
  PROVE  UnbornInv'
<1>1. /\ stack' = stack /\ Points' = Points /\ Positions' = Positions
      /\ \A j \in Points : Docs(j)' = Docs(j) /\ Follows(db, db', stack[k].obj)
  BY DEF Along, Follows
<1>2. db'.freed = db.freed
  BY DEF Along, Follows
<1>3. ASSUME NEW x \in Objects, db'.place[x] = "unborn"
      PROVE  db.place[x] = "unborn"
  BY <1>3 DEF Along, Follows
<1>4. ASSUME NEW x \in Objects, db'.place[x] = "unborn"
      PROVE  /\ x \notin db'.freed
             /\ \A i \in Positions' : ~Keeps(stack'[i], x)
             /\ \A j \in Points' : Docs(j)'.place[x] = "nowhere"
  BY <1>1, <1>2, <1>3, <1>4 DEF UnbornInv
<1>5. QED
  BY <1>4 DEF UnbornInv, Keeps

LEMMA UsesIs ==
  ASSUME NEW x
  PROVE  /\ Uses(x) = Weight(db, x) + Keepers(DOMAIN stack, x) + (IF clip = x THEN 1 ELSE 0)
         /\ Uses(x)' = Weight(db', x) + Cardinality({i \in DOMAIN stack' : Keeps(stack'[i], x)})
                       + (IF clip' = x THEN 1 ELSE 0)
<1>1. Uses(x) = Weight(db, x) + Keepers(DOMAIN stack, x) + (IF clip = x THEN 1 ELSE 0)
  BY DEF Uses, Weight, Holding
<1>2. Uses(x)' = Weight(db', x) + Cardinality({i \in DOMAIN stack' : Keeps(stack'[i], x)})
                 + (IF clip' = x THEN 1 ELSE 0)
  BY DEF Uses, Weight, Holding, Keepers, Keeps
<1>3. QED
  BY <1>1, <1>2

LEMMA AlongCounts ==
  ASSUME TypeInv, ShapeInv, HistoryInv, CountsCoverUses, FreedIsUnused, NEW k, Along(k)
  PROVE  CountsCoverUses' /\ FreedIsUnused'
<1>1. /\ stack' = stack /\ clip' = clip /\ uncounted' = uncounted /\ db'.freed = db.freed
      /\ Even(db, db') /\ stack[k].obj \notin db.freed /\ Usable(db)
      /\ \A x \in Objects : x # stack[k].obj => db'.place[x] = db.place[x]
      /\ db \in Databases /\ db' \in Databases /\ uncounted \in [Objects -> Nat]
      /\ stack \in Seq(Commands) /\ done \in 0..Len(stack)
  BY DEF Along, Follows, Proper, TypeInv, TypeOK
<1>2. ASSUME NEW x \in Objects, x \notin db'.freed
      PROVE  db'.rc[x] + uncounted'[x] >= Uses(x)'
  <2> DEFINE n == Keepers(DOMAIN stack, x)
             b == IF clip = x THEN 1 ELSE 0
  <2>1. db'.rc[x] + Weight(db, x) >= db.rc[x] + Weight(db', x)
    BY <1>1, <1>2 DEF Even
  <2>2. db.rc[x] + uncounted[x] >= Uses(x)
    BY <1>1, <1>2 DEF CountsCoverUses
  <2>3. Uses(x) = Weight(db, x) + n + b /\ Uses(x)' = Weight(db', x) + n + b
    <3>1. n = Cardinality({i \in DOMAIN stack' : Keeps(stack'[i], x)})
      BY <1>1 DEF Keepers
    <3>2. Uses(x) = Weight(db, x) + n + b
      BY UsesIs
    <3>3. Uses(x)' = Weight(db', x) + n + b
      BY <1>1, <3>1, UsesIs
    <3>4. QED
      BY <3>2, <3>3
  <2>4. /\ Weight(db, x) \in Nat /\ Weight(db', x) \in Nat /\ db.rc[x] \in Int /\ db'.rc[x] \in Int
        /\ uncounted[x] \in Nat /\ n \in Nat /\ b \in Nat
    BY <1>1, HoldingFinite, KeepersAreNat, KeepersSplit, DatabaseFields
  <2> HIDE DEF n, b
  <2>5. db'.rc[x] + uncounted[x] >= Weight(db', x) + n + b
    BY <2>1, <2>2, <2>3, <2>4
  <2>6. QED
    BY <1>1, <2>3, <2>5
<1>3. ASSUME NEW x \in db.freed, uncounted[x] = 0
      PROVE  /\ db'.place[x] \notin InTree /\ clip' # x
             /\ \A i \in DOMAIN stack' : stack'[i].obj # x
  BY <1>1, <1>3, DatabaseFields DEF FreedIsUnused
<1>4. QED
  BY <1>1, <1>2, <1>3 DEF CountsCoverUses, FreedIsUnused

LEMMA AlongKeeps ==
  ASSUME Inv, NEW k, Along(k)
  PROVE  Inv'
BY AlongTypes, AlongHistory, AlongAway, AlongUnborn, AlongCounts DEF Inv

LEMMA UndoKeeps ==
  ASSUME Inv, Undo
  PROVE  Inv' /\ Document(db') = past[done] /\ past # <<>> /\ Len(past) = done
<1>1. /\ TypeInv /\ ShapeInv /\ FitInv /\ HistoryInv /\ AwayInv
  BY DEF Inv
<1>2. /\ done > 0 /\ Usable(db) /\ stack[done].obj \notin db.freed
      /\ db' = Undone(stack[done], db) /\ done' = done - 1 /\ stack' = stack
      /\ past' = Front(past) /\ future' = <<Document(db)>> \o future
      /\ clip' = clip /\ dummies' = dummies /\ uncounted' = uncounted
  BY DEF Undo
<1>3. /\ done \in Positions /\ Document(db') = past[done] /\ Follows(db, db', stack[done].obj)
      /\ Even(db, db') /\ StaysAsItIs(db, db', stack[done])
  BY <1>1, <1>2, UndoResult
<1>4. /\ past' \in Seq(Documents) /\ future' \in Seq(Documents)
      /\ Len(past') = done' /\ Len(future') = Len(stack') - done'
      /\ Positions' = Positions /\ Points' = Points
      /\ \A j \in Points : Docs(j)' = Docs(j)
  BY <1>1, <1>2, <1>3, UndoDocs
<1>5. Along(done)
  <2>1. /\ done = done /\ done' = done - 1 /\ Usable(db) /\ stack[done].obj \notin db.freed
        /\ stack' = stack /\ clip' = clip /\ dummies' = dummies /\ uncounted' = uncounted
    BY <1>2
  <2>2. QED
    BY <1>3, <1>4, <2>1 DEF Along
<1>6. Len(past) = done /\ past # <<>>
  BY <1>1, <1>2, Sequences
<1>7. QED
  BY <1>3, <1>5, <1>6, AlongKeeps

LEMMA RedoKeeps ==
  ASSUME Inv, Redo
  PROVE  Inv' /\ Document(db') = future[1] /\ future # <<>>
<1>1. /\ TypeInv /\ ShapeInv /\ FitInv /\ HistoryInv /\ AwayInv
  BY DEF Inv
<1>2. /\ done < Len(stack) /\ Usable(db) /\ stack[done + 1].obj \notin db.freed
      /\ db' = Redone(stack[done + 1], db) /\ done' = done + 1 /\ stack' = stack
      /\ past' = Append(past, Document(db)) /\ future' = Tail(future)
      /\ clip' = clip /\ dummies' = dummies /\ uncounted' = uncounted
  BY DEF Redo
<1>3. /\ done + 1 \in Positions /\ Document(db') = future[1]
      /\ Follows(db, db', stack[done + 1].obj)
      /\ Even(db, db') /\ StaysAsItIs(db, db', stack[done + 1])
  BY <1>1, <1>2, RedoResult
<1>4. /\ past' \in Seq(Documents) /\ future' \in Seq(Documents)
      /\ Len(past') = done' /\ Len(future') = Len(stack') - done'
      /\ Positions' = Positions /\ Points' = Points
      /\ \A j \in Points : Docs(j)' = Docs(j)
  BY <1>1, <1>2, <1>3, RedoDocs
<1>5. Len(stack) \in Nat /\ done \in Nat /\ Len(future) = Len(stack) - done
  BY <1>1, Sequences
<1>6. done = (done + 1) - 1 /\ done' = done + 1
  BY <1>2, <1>5
<1>7. Along(done + 1)
  BY <1>2, <1>3, <1>4, <1>6 DEF Along
<1>8. future # <<>>
  BY <1>2, <1>5
<1>9. QED
  BY <1>3, <1>7, <1>8, AlongKeeps

-----------------------------------------------------------------------------
(* A new command keeps the invariant.                                       *)

\* c takes the present database to e, before the undone commands are discarded
Makes(c, e) ==
  /\ c \in Commands /\ Fit(c) /\ Proper(e) /\ e.freed = db.freed
  /\ Step(c, Document(db), Document(e))
  /\ \A x \in Objects :
       /\ db.place[x] = "nowhere" => e.place[x] = "nowhere"
       /\ e.place[x] = "unborn" => db.place[x] = "unborn" /\ ~Keeps(c, x)
       /\ c.obj = x => db.place[x] # "nowhere"
  /\ \A g \in Groups : db.place[g] = "nowhere" => e.refs[g] = db.refs[g]
  /\ c.kind = "add" => db.place[c.obj] = "unborn"
  /\ c.kind = "delete" /\ c.obj \in Groups =>
       e.refs[c.obj] = db.refs[c.obj] /\ db.place[c.obj] = "deleted"

\* it counts what it uses and keeps
Counts(c, e) ==
  \A x \in Objects \ db.freed :
    e.rc[x] + uncounted'[x] + Weight(db, x)
      >= db.rc[x] + uncounted[x] + Weight(e, x) + (IF Keeps(c, x) THEN 1 ELSE 0)

Pushed(c, e) ==
  /\ Makes(c, e) /\ Counts(c, e) /\ Usable(db)
  /\ db' = Destroy((done + 1)..Len(stack), e)
  /\ stack' = Append(SubSeq(stack, 1, done), c) /\ done' = done + 1
  /\ past' = Append(past, Document(db)) /\ future' = <<>>
  /\ dummies' = dummies /\ clip' = clip /\ uncounted' \in [Objects -> Nat]
  /\ \A x \in Objects : uncounted'[x] >= uncounted[x]

LEMMA PushFields ==
  ASSUME TypeInv, ShapeInv, HistoryInv, NEW c, NEW e, Pushed(c, e)
  PROVE  /\ past' \in Seq(Documents) /\ future' \in Seq(Documents) /\ stack' \in Seq(Commands)
         /\ Len(stack') = done + 1 /\ Len(past') = done' /\ Len(future') = Len(stack') - done'
         /\ Positions' = 1..(done + 1) /\ Points' = 1..(done + 2)
         /\ stack'[done + 1] = c /\ \A i \in 1..done : stack'[i] = stack[i]
         /\ \A j \in Nat : j = done + 2 => Docs(j)' = Document(e)
         /\ \A j \in 1..(done + 1) : Docs(j)' = Docs(j)
         /\ db' \in Databases /\ db'.place = e.place /\ db'.refs = e.refs
         /\ Document(db') = Document(e) /\ Proper(db')
<1>1. /\ c \in Commands /\ Proper(e) /\ db' = Destroy((done + 1)..Len(stack), e)
      /\ stack' = Append(SubSeq(stack, 1, done), c) /\ done' = done + 1
      /\ past' = Append(past, Document(db)) /\ future' = <<>>
  BY DEF Pushed, Makes
<1>2. e \in Databases
  BY <1>1 DEF Proper
<1>3. IsFiniteSet((done + 1)..Len(stack))
  BY Sequences, FS_Interval
<1>4. db' \in Databases /\ db'.place = e.place /\ db'.refs = e.refs
  BY <1>1, <1>2, <1>3, DestroyFields
<1>5. Document(db') = Document(e)
  BY <1>2, <1>4, SameDocument
<1>6. Proper(db')
  BY <1>1, <1>4 DEF Proper
<1>7. /\ past' \in Seq(Documents) /\ future' \in Seq(Documents) /\ stack' \in Seq(Commands)
      /\ Len(stack') = done + 1 /\ Len(past') = done' /\ Len(future') = Len(stack') - done'
      /\ Positions' = 1..(done + 1) /\ Points' = 1..(done + 2)
      /\ stack'[done + 1] = c /\ \A i \in 1..done : stack'[i] = stack[i]
      /\ \A j \in Nat : j = done + 2 => Docs(j)' = Document(db')
      /\ \A j \in 1..(done + 1) : Docs(j)' = Docs(j)
  BY <1>1, PushDocs
<1>8. QED
  BY <1>4, <1>5, <1>6, <1>7

LEMMA PushTypes ==
  ASSUME TypeInv, ShapeInv, FitInv, HistoryInv, NEW c, NEW e, Pushed(c, e)
  PROVE  TypeInv' /\ ShapeInv' /\ FitInv'
<1>1. /\ past' \in Seq(Documents) /\ future' \in Seq(Documents) /\ stack' \in Seq(Commands)
      /\ Len(stack') = done + 1 /\ Proper(db')
      /\ stack'[done + 1] = c /\ \A i \in 1..done : stack'[i] = stack[i]
  BY PushFields
<1>2. /\ dummies' = dummies /\ clip' = clip /\ uncounted' \in [Objects -> Nat]
      /\ Fit(c) /\ done' = done + 1
  BY DEF Pushed, Makes
<1>3. /\ db' \in Databases
      /\ db'.place \in [Objects -> Places] /\ db'.refs \in [Holders -> SUBSET Members]
      /\ db'.rc \in [Objects -> Int] /\ db'.freed \subseteq Objects
      /\ \A g \in Groups : db'.refs[g] \subseteq Hosts
      /\ \A r \in Rules : db'.refs[r] \subseteq Objects \cup {AnyObject, DummyObject}
      /\ ShapeInv'
  BY <1>1, <1>2, ProperPrime, ProperTypes
<1>4. done \in Nat /\ done <= Len(stack) /\ DOMAIN stack = 1..Len(stack) /\ Len(stack) \in Nat
  BY Sequences DEF Positions
<1>5. done' \in 0..Len(stack') /\ clip' \in Objects \cup {NoObject} /\ dummies' \in BOOLEAN
  BY <1>1, <1>2, <1>4 DEF TypeInv, TypeOK
<1>6. TypeOK'
  BY <1>1, <1>2, <1>3, <1>5 DEF TypeOK, Places
<1>7. DOMAIN stack' = 1..(done + 1)
  BY <1>1, LenProperties
<1>8. ASSUME NEW i \in 1..(done + 1)
      PROVE  Fit(stack'[i])
  <2>1. CASE i = done + 1
    BY <1>1, <1>2, <2>1
  <2>2. CASE i # done + 1
    <3>1. i \in 1..done /\ i \in DOMAIN stack
      BY <1>4, <2>2
    <3>2. QED
      BY <1>1, <3>1 DEF FitInv
  <2>3. QED
    BY <2>1, <2>2
<1>9. FitInv'
  BY <1>2, <1>7, <1>8 DEF FitInv, Fit, Shaped
<1>10. QED
  BY <1>3, <1>6, <1>9 DEF TypeInv

LEMMA PushHistory ==
  ASSUME TypeInv, ShapeInv, HistoryInv, WentInv, NEW c, NEW e, Pushed(c, e)
  PROVE  HistoryInv' /\ WentInv'
<1>1. /\ Len(past') = done' /\ Len(future') = Len(stack') - done'
      /\ Positions' = 1..(done + 1) /\ Points' = 1..(done + 2)
      /\ stack'[done + 1] = c /\ \A i \in 1..done : stack'[i] = stack[i]
      /\ \A j \in Nat : j = done + 2 => Docs(j)' = Document(e)
      /\ \A j \in 1..(done + 1) : Docs(j)' = Docs(j)
  BY PushFields
<1>2. /\ c \in Commands /\ e \in Databases /\ Step(c, Document(db), Document(e))
      /\ dummies' = dummies
  BY DEF Pushed, Makes, Proper
<1>3. /\ Len(stack) \in Nat /\ done \in Nat /\ done <= Len(stack) /\ db \in Databases
      /\ Positions = 1..Len(stack) /\ Points = 1..(Len(stack) + 1)
  BY Sequences DEF Positions, Points, Proper
<1>4. Docs(done + 1) = Document(db)
  BY <1>3 DEF Docs
<1>5. \A j \in 1..(done + 1) : j \in Points
  BY <1>3
<1>6. \A i \in 1..done : i \in Positions /\ i \in 1..(done + 1) /\ i + 1 \in 1..(done + 1)
  BY <1>3
<1>7. ASSUME NEW j \in 1..(done + 2)
      PROVE  DocOK(Docs(j)')
  <2>1. CASE j = done + 2
    BY <1>1, <1>2, <2>1, DocumentFields
  <2>2. CASE j # done + 2
    <3>1. j \in 1..(done + 1) /\ j \in Points
      BY <1>3, <2>2
    <3>2. QED
      BY <1>1, <3>1 DEF HistoryInv
  <2>3. QED
    BY <2>1, <2>2
<1>8. ASSUME NEW i \in 1..(done + 1)
      PROVE  Step(stack[i], Docs(i), Docs(i + 1))'
  <2>1. Step(stack'[i], Docs(i)', Docs(i + 1)')
    <3>1. CASE i = done + 1
      <4>1. i + 1 = done + 2 /\ i + 1 \in Nat /\ i \in 1..(done + 1)
        BY <1>3, <3>1
      <4>2. Docs(i + 1)' = Document(e) /\ Docs(i)' = Document(db) /\ stack'[i] = c
        BY <1>1, <1>4, <3>1, <4>1
      <4>3. QED
        BY <1>2, <4>2
    <3>2. CASE i # done + 1
      <4>1. i \in 1..done
        BY <1>3, <3>2
      <4>2. Docs(i + 1)' = Docs(i + 1) /\ Docs(i)' = Docs(i) /\ stack'[i] = stack[i]
        BY <1>1, <1>6, <4>1
      <4>3. QED
        BY <1>6, <4>1, <4>2 DEF HistoryInv
    <3>3. QED
      BY <3>1, <3>2
  <2>2. PICK b, D, E : b = stack'[i] /\ D = Docs(i)' /\ E = Docs(i + 1)'
    OBVIOUS
  <2>3. Step(b, D, E)
    BY <2>1, <2>2
  <2>4. Step(b, D, E)'
    BY <1>2, <2>3 DEF Step, MoveStep, DeleteStep, AddStep, ChangeStep, SetDummy, Shaped
  <2>5. QED
    BY <2>2, <2>4 DEF Step, MoveStep, DeleteStep, AddStep, ChangeStep
<1>9. HistoryInv'
  BY <1>1, <1>7, <1>8 DEF HistoryInv, DocOK
<1>10. ASSUME NEW x \in Objects, NEW j \in 1..(done + 2), NEW i \in 1..j,
              Docs(i)'.place[x] # "nowhere", Docs(j)'.place[x] = "nowhere"
       PROVE  \E m \in i..(j - 1) : Keeps(stack'[m], x)
  <2>1. CASE j # done + 2
    <3>1. j \in 1..(done + 1) /\ i \in 1..(done + 1) /\ j \in Points /\ \A m \in i..(j - 1) : m \in 1..done
      BY <1>3, <2>1
    <3>2. \E m \in i..(j - 1) : Keeps(stack[m], x)
      BY <1>1, <1>10, <3>1 DEF WentInv
    <3>3. QED
      BY <1>1, <3>1, <3>2
  <2>2. CASE j = done + 2
    <3>1. i \in 1..(done + 1)
      <4>1. i # j
        BY <1>10
      <4>2. QED
        BY <1>3, <2>2, <4>1
    <3>2. Docs(i).place[x] # "nowhere" /\ Document(e).place[x] = "nowhere"
      BY <1>1, <1>3, <1>10, <2>2, <3>1
    <3>3. CASE Document(db).place[x] = "nowhere"
      <4>1. done + 1 \in Points /\ i \in 1..(done + 1)
        BY <1>3, <3>1
      <4>2. \E m \in i..((done + 1) - 1) : Keeps(stack[m], x)
        BY <1>4, <3>2, <3>3, <4>1 DEF WentInv
      <4>3. \A m \in i..((done + 1) - 1) : m \in i..(j - 1) /\ m \in 1..done
        BY <1>3, <2>2, <3>1
      <4>4. QED
        BY <1>1, <4>2, <4>3
    <3>4. CASE Document(db).place[x] # "nowhere"
      <4>1. c.kind = "delete" /\ c.obj = x
        <5>1. /\ Document(db).place \in [Objects -> {"library", "deleted", "nowhere"}]
          BY <1>3, DocumentFields DEF DocOK, Documents
        <5>2. CASE c.kind = "move" /\ MoveStep(c, Document(db), Document(e))
          <6>1. Document(e).place = [Document(db).place EXCEPT ![c.obj] = c.to] /\ c.to # "nowhere"
            BY <1>2, <5>2, Kinds DEF MoveStep, InTree
          <6>2. QED
            BY <3>2, <3>4, <5>1, <6>1
        <5>3. CASE c.kind = "delete" /\ DeleteStep(c, Document(db), Document(e))
          BY <3>2, <3>4, <5>1, <5>3 DEF DeleteStep
        <5>4. CASE c.kind = "add" /\ AddStep(c, Document(db), Document(e))
          BY <3>2, <3>4, <5>1, <5>4 DEF AddStep
        <5>5. CASE c.kind = "change" /\ ChangeStep(c, Document(db), Document(e))
          BY <3>2, <3>4, <5>5 DEF ChangeStep
        <5>6. QED
          BY <1>2, <5>2, <5>3, <5>4, <5>5 DEF Step
      <4>2. done + 1 \in i..(j - 1) /\ Keeps(stack'[done + 1], x)
        BY <1>1, <1>3, <2>2, <3>1, <4>1 DEF Keeps
      <4>3. QED
        BY <4>2
    <3>5. QED
      BY <3>3, <3>4
  <2>3. QED
    BY <2>1, <2>2
<1>11. WentInv'
  BY <1>1, <1>10 DEF WentInv, Keeps
<1>12. QED
  BY <1>9, <1>11

LEMMA PushAway ==
  ASSUME TypeInv, ShapeInv, HistoryInv, AwayInv, UnbornInv, NEW c, NEW e, Pushed(c, e)
  PROVE  AwayInv'
<1>1. /\ Len(stack') = done + 1 /\ done' = done + 1
      /\ Positions' = 1..(done + 1) /\ Points' = 1..(done + 2)
      /\ stack'[done + 1] = c /\ \A i \in 1..done : stack'[i] = stack[i]
      /\ \A j \in Nat : j = done + 2 => Docs(j)' = Document(e)
      /\ \A j \in 1..(done + 1) : Docs(j)' = Docs(j)
      /\ db'.refs = e.refs
  BY PushFields DEF Pushed
<1>2. /\ c \in Commands /\ e \in Databases /\ Step(c, Document(db), Document(e))
      /\ \A x \in Objects : db.place[x] = "nowhere" => e.place[x] = "nowhere"
      /\ \A g \in Groups : db.place[g] = "nowhere" => e.refs[g] = db.refs[g]
      /\ c.kind = "add" => db.place[c.obj] = "unborn"
      /\ c.kind = "delete" /\ c.obj \in Groups =>
           e.refs[c.obj] = db.refs[c.obj] /\ db.place[c.obj] = "deleted"
  BY DEF Pushed, Makes, Proper
<1>3. /\ Len(stack) \in Nat /\ done \in Nat /\ done <= Len(stack) /\ db \in Databases
      /\ Positions = 1..Len(stack) /\ Points = 1..(Len(stack) + 1)
      /\ \A i \in Positions : stack[i] \in Commands
  BY Sequences DEF Positions, Points, Proper
<1>4. Docs(done + 1) = Document(db)
  BY <1>3 DEF Docs
<1>5. ASSUME NEW i \in 1..done, stack[i].kind = "add"
      PROVE  \A j \in 1..i : Docs(j)'.place[stack[i].obj] = "nowhere"
  <2>1. i \in Positions /\ \A j \in 1..i : j \in 1..(done + 1)
    BY <1>3
  <2>2. QED
    BY <1>1, <1>5, <2>1 DEF AwayInv
<1>6. ASSUME NEW i \in 1..done, stack[i].kind = "delete"
      PROVE  /\ \A j \in (i + 1)..(done + 2) : Docs(j)'.place[stack[i].obj] = "nowhere"
             /\ stack[i].obj \in Groups => db'.refs[stack[i].obj] = Docs(i).refs[stack[i].obj]
  <2>1. i \in Positions /\ i <= done /\ done + 1 \in (i + 1)..(Len(stack) + 1)
        /\ stack[i].obj \in Objects
    BY <1>3, <1>6, Kinds
  <2>2. /\ \A j \in (i + 1)..(Len(stack) + 1) : Docs(j).place[stack[i].obj] = "nowhere"
        /\ stack[i].obj \in Groups => db.refs[stack[i].obj] = Docs(i).refs[stack[i].obj]
    BY <1>6, <2>1 DEF AwayInv
  <2>3. Document(db).place[stack[i].obj] = "nowhere"
    BY <1>4, <2>1, <2>2
  <2>4. db.place[stack[i].obj] \notin InTree
    BY <1>3, <2>1, <2>3, Shown
  <2>5. db.place[stack[i].obj] # "unborn"
    <3>1. Keeps(stack[i], stack[i].obj)
      BY <1>6 DEF Keeps
    <3>2. QED
      BY <2>1, <3>1 DEF UnbornInv
  <2>6. db.place[stack[i].obj] = "nowhere"
    <3>1. db.place[stack[i].obj] \in Places
      BY <1>3, <2>1, DatabaseFields
    <3>2. QED
      BY <2>4, <2>5, <3>1 DEF Places, InTree
  <2>7. e.place[stack[i].obj] = "nowhere"
    BY <1>2, <2>1, <2>6
  <2>8. Document(e).place[stack[i].obj] = "nowhere"
    BY <1>2, <2>1, <2>7, Shown DEF InTree
  <2>9. ASSUME NEW j \in (i + 1)..(done + 2)
        PROVE  Docs(j)'.place[stack[i].obj] = "nowhere"
    <3>1. CASE j = done + 2
      BY <1>1, <2>8, <3>1
    <3>2. CASE j # done + 2
      <4>1. j \in 1..(done + 1) /\ j \in (i + 1)..(Len(stack) + 1)
        BY <1>3, <3>2
      <4>2. QED
        BY <1>1, <2>2, <4>1
    <3>3. QED
      BY <3>1, <3>2
  <2>10. stack[i].obj \in Groups => db'.refs[stack[i].obj] = Docs(i).refs[stack[i].obj]
    BY <1>1, <1>2, <2>2, <2>6
  <2>11. QED
    BY <2>9, <2>10
<1>7. ASSUME c.kind = "add"
      PROVE  \A j \in 1..(done + 1) : Docs(j)'.place[c.obj] = "nowhere"
  <2>1. c.obj \in Objects /\ \A j \in 1..(done + 1) : j \in Points
    BY <1>2, <1>3, <1>7, Kinds, Apart
  <2>2. QED
    BY <1>1, <1>2, <1>7, <2>1 DEF UnbornInv
<1>8. ASSUME c.kind = "delete"
      PROVE  /\ \A j \in (done + 2)..(done + 2) : Docs(j)'.place[c.obj] = "nowhere"
             /\ c.obj \in Groups => db'.refs[c.obj] = Document(db).refs[c.obj]
  <2>1. c.obj \in Objects
    BY <1>2, <1>8, Kinds
  <2>2. Document(e).place[c.obj] = "nowhere"
    <3>1. DeleteStep(c, Document(db), Document(e))
      BY <1>2, <1>8, KindsApart
    <3>2. Document(db).place \in [Objects -> {"library", "deleted", "nowhere"}]
      BY <1>3, DocumentFields DEF DocOK, Documents
    <3>3. QED
      BY <2>1, <3>1, <3>2 DEF DeleteStep
  <2>3. \A j \in (done + 2)..(done + 2) : j = done + 2 /\ j \in Nat
    BY <1>3
  <2>4. c.obj \in Groups => db.refs[c.obj] = Document(db).refs[c.obj]
    <3>1. c.obj \in Groups => Document(db).place[c.obj] # "nowhere"
      BY <1>2, <1>3, <1>8, <2>1, Shown DEF InTree
    <3>2. QED
      BY <1>3, <3>1, Shown
  <2>5. QED
    BY <1>1, <1>2, <1>8, <2>2, <2>3, <2>4
<1>9. ASSUME NEW i \in 1..(done + 1)
      PROVE  /\ stack'[i].kind = "add" =>
                  /\ \A j \in 1..i : Docs(j)'.place[stack'[i].obj] = "nowhere"
                  /\ done' < i => db'.refs[stack'[i].obj] = Docs(i + 1)'.refs[stack'[i].obj]
             /\ stack'[i].kind = "delete" =>
                  /\ \A j \in (i + 1)..(done + 2) : Docs(j)'.place[stack'[i].obj] = "nowhere"
                  /\ i <= done' /\ stack'[i].obj \in Groups =>
                       db'.refs[stack'[i].obj] = Docs(i)'.refs[stack'[i].obj]
  <2>1. ~(done' < i) /\ i \in 1..(done + 1)
    BY <1>1, <1>3
  <2>2. CASE i = done + 1
    <3>1. stack'[i] = c /\ Docs(i)' = Document(db) /\ i + 1 = done + 2
      BY <1>1, <1>3, <1>4, <2>1, <2>2
    <3>2. QED
      BY <1>7, <1>8, <2>1, <2>2, <3>1
  <2>3. CASE i # done + 1
    <3>1. i \in 1..done
      BY <1>3, <2>3
    <3>2. stack'[i] = stack[i] /\ Docs(i)' = Docs(i)
      BY <1>1, <2>1, <3>1
    <3>3. QED
      BY <1>5, <1>6, <2>1, <3>1, <3>2
  <2>4. QED
    BY <2>2, <2>3
<1>10. Len(stack') + 1 = done + 2
  BY <1>1, <1>3
<1>11. QED
  BY <1>1, <1>9, <1>10 DEF AwayInv

LEMMA PushUnborn ==
  ASSUME TypeInv, ShapeInv, HistoryInv, UnbornInv, NEW c, NEW e, Pushed(c, e)
  PROVE  UnbornInv'
<1>1. /\ Positions' = 1..(done + 1) /\ Points' = 1..(done + 2)
      /\ stack'[done + 1] = c /\ \A i \in 1..done : stack'[i] = stack[i]
      /\ \A j \in Nat : j = done + 2 => Docs(j)' = Document(e)
      /\ \A j \in 1..(done + 1) : Docs(j)' = Docs(j)
      /\ db'.place = e.place
  BY PushFields
<1>2. /\ e \in Databases /\ e.freed = db.freed /\ db' = Destroy((done + 1)..Len(stack), e)
      /\ \A x \in Objects : e.place[x] = "unborn" => db.place[x] = "unborn" /\ ~Keeps(c, x)
  BY DEF Pushed, Makes, Proper
<1>3. /\ Len(stack) \in Nat /\ done \in Nat /\ done <= Len(stack)
      /\ Positions = 1..Len(stack) /\ Points = 1..(Len(stack) + 1)
  BY Sequences DEF Positions, Points
<1>4. IsFiniteSet((done + 1)..Len(stack))
  BY <1>3, FS_Interval
<1>5. ASSUME NEW x \in Objects, e.place[x] = "unborn"
      PROVE  /\ x \notin db'.freed
             /\ \A i \in 1..(done + 1) : ~Keeps(stack'[i], x)
             /\ \A j \in 1..(done + 2) : Docs(j)'.place[x] = "nowhere"
  <2>1. /\ db.place[x] = "unborn" /\ ~Keeps(c, x) /\ x \notin db.freed
        /\ \A i \in Positions : ~Keeps(stack[i], x)
        /\ \A j \in Points : Docs(j).place[x] = "nowhere"
    BY <1>2, <1>5 DEF UnbornInv
  <2>2. x \notin db'.freed
    <3>1. Keepers((done + 1)..Len(stack), x) = 0
      <4>1. \A i \in (done + 1)..Len(stack) : ~Keeps(stack[i], x)
        BY <1>3, <2>1
      <4>2. QED
        BY <1>4, <4>1, KeepersAreNat
    <3>2. db'.freed = e.freed \cup {y \in Objects : /\ Keepers((done + 1)..Len(stack), y) > 0
                                                    /\ e.rc[y] <= Keepers((done + 1)..Len(stack), y)}
      BY <1>2, <1>4, DestroyFields
    <3>3. QED
      BY <1>2, <2>1, <3>1, <3>2
  <2>3. ASSUME NEW i \in 1..(done + 1)
        PROVE  ~Keeps(stack'[i], x)
    <3>1. i = done + 1 \/ (i \in 1..done /\ i \in Positions)
      BY <1>3
    <3>2. QED
      BY <1>1, <2>1, <3>1
  <2>4. Document(e).place[x] = "nowhere"
    BY <1>2, <1>5, Shown DEF InTree
  <2>5. ASSUME NEW j \in 1..(done + 2)
        PROVE  Docs(j)'.place[x] = "nowhere"
    <3>1. (j = done + 2 /\ j \in Nat) \/ (j \in 1..(done + 1) /\ j \in Points)
      BY <1>3
    <3>2. QED
      BY <1>1, <2>1, <2>4, <3>1
  <2>6. QED
    BY <2>2, <2>3, <2>5
<1>6. QED
  BY <1>1, <1>5 DEF UnbornInv, Keeps

LEMMA PushCounts ==
  ASSUME TypeInv, ShapeInv, HistoryInv, WentInv, UnbornInv, CountsCoverUses, FreedIsUnused,
         NEW c, NEW e, Pushed(c, e)
  PROVE  CountsCoverUses' /\ FreedIsUnused'
<1> DEFINE D == (done + 1)..Len(stack)
           K(x) == Keepers(D, x)
           B(x) == Keepers(1..done, x)
           k(x) == IF Keeps(c, x) THEN 1 ELSE 0
           b(x) == IF clip = x THEN 1 ELSE 0
           N(x) == Cardinality({i \in DOMAIN stack' : Keeps(stack'[i], x)})
<1>1. /\ Positions' = 1..(done + 1) /\ Points' = 1..(done + 2)
      /\ stack' \in Seq(Commands) /\ Len(stack') = done + 1
      /\ stack'[done + 1] = c /\ \A i \in 1..done : stack'[i] = stack[i]
      /\ \A j \in Nat : j = done + 2 => Docs(j)' = Document(e)
      /\ \A j \in 1..(done + 1) : Docs(j)' = Docs(j)
      /\ db'.place = e.place /\ db'.refs = e.refs
  BY PushFields
<1>2. /\ c \in Commands /\ e \in Databases /\ e.freed = db.freed /\ db' = Destroy(D, e)
      /\ clip' = clip /\ Usable(db) /\ uncounted' \in [Objects -> Nat]
      /\ \A x \in Objects : uncounted'[x] >= uncounted[x]
      /\ \A x \in Objects :
           /\ db.place[x] = "nowhere" => e.place[x] = "nowhere"
           /\ c.obj = x => db.place[x] # "nowhere"
      /\ Counts(c, e)
  BY DEF Pushed, Makes, Proper
<1>3. /\ Len(stack) \in Nat /\ done \in Nat /\ done <= Len(stack) /\ db \in Databases
      /\ DOMAIN stack = 1..Len(stack) /\ stack \in Seq(Commands) /\ done \in 0..Len(stack)
      /\ uncounted \in [Objects -> Nat] /\ \A i \in 1..Len(stack) : stack[i] \in Commands
  BY Sequences DEF Positions, Proper, TypeInv, TypeOK
<1>4. IsFiniteSet(D) /\ IsFiniteSet(1..done) /\ IsFiniteSet(DOMAIN stack)
  BY <1>3, FS_Interval
<1>5. \A x : /\ Keepers(DOMAIN stack, x) = B(x) + K(x)
             /\ B(x) \in Nat /\ K(x) \in Nat
  BY <1>3, <1>4, KeepersSplit, KeepersAreNat
<1>6. DOMAIN stack' = 1..(done + 1)
  BY <1>1, LenProperties
<1>7. \A x : N(x) = B(x) + k(x)
  <2>1. ASSUME NEW x
        PROVE  N(x) = B(x) + k(x)
    <3> DEFINE S == {i \in 1..done : Keeps(stack[i], x)}
               T == {i \in DOMAIN stack' : Keeps(stack'[i], x)}
    <3>1. IsFiniteSet(S) /\ Cardinality(S) = B(x) /\ Cardinality(S) \in Nat
      BY <1>4, KeepersAreNat DEF Keepers
    <3>2. done + 1 \notin S /\ \A i \in 1..(done + 1) : i \in 1..done \/ i = done + 1
      BY <1>3
    <3>3. CASE Keeps(c, x)
      <4>1. T = S \cup {done + 1}
        BY <1>1, <1>3, <1>6, <3>2, <3>3
      <4> HIDE DEF S, T
      <4>2. Cardinality(T) = Cardinality(S) + 1
        BY <3>1, <3>2, <4>1, FS_AddElement
      <4>3. QED
        BY <3>1, <3>3, <4>2 DEF T
    <3>4. CASE ~Keeps(c, x)
      <4>1. T = S
        BY <1>1, <1>3, <1>6, <3>2, <3>4
      <4> HIDE DEF S
      <4>2. QED
        BY <3>1, <3>4, <4>1
    <3>5. QED
      BY <3>3, <3>4
  <2>2. QED
    BY <2>1
<1>8. /\ db'.freed = e.freed \cup {x \in Objects : K(x) > 0 /\ e.rc[x] <= K(x)}
      /\ \A x \in Objects : db'.rc[x] = IF e.rc[x] > K(x) THEN e.rc[x] - K(x)
                                        ELSE IF e.rc[x] > 1 THEN 1 ELSE e.rc[x]
  BY <1>2, <1>4, DestroyFields
<1> HIDE DEF D, K, B
\* what is still alive is counted with the discarded commands
<1>9. ASSUME NEW x \in Objects, x \notin db.freed
      PROVE  e.rc[x] + uncounted'[x] >= Weight(e, x) + B(x) + K(x) + k(x) + b(x)
  <2>1. e.rc[x] + uncounted'[x] + Weight(db, x)
          >= db.rc[x] + uncounted[x] + Weight(e, x) + k(x)
    BY <1>2, <1>9 DEF Counts
  <2>2. db.rc[x] + uncounted[x] >= Weight(db, x) + Keepers(DOMAIN stack, x) + b(x)
    BY <1>9, UsesIs DEF CountsCoverUses
  <2>3. /\ Weight(db, x) \in Nat /\ Weight(e, x) \in Nat /\ db.rc[x] \in Int /\ e.rc[x] \in Int
        /\ uncounted[x] \in Nat /\ uncounted'[x] \in Nat /\ k(x) \in Nat /\ b(x) \in Nat
        /\ B(x) \in Nat /\ K(x) \in Nat /\ Keepers(DOMAIN stack, x) = B(x) + K(x)
    BY <1>2, <1>3, <1>5, HoldingFinite, DatabaseFields
  <2> HIDE DEF k, b
  <2>4. QED
    BY <2>1, <2>2, <2>3
<1>10. \A x \in Objects : Weight(db', x) <= Weight(e, x)
  <2>1. ASSUME NEW x \in Objects
        PROVE  Weight(db', x) <= Weight(e, x)
    <3>1. Holding(db', x) \subseteq Holding(e, x)
      BY <1>1, <1>8 DEF Holding
    <3>2. Cardinality(Holding(db', x)) <= Cardinality(Holding(e, x))
      BY <3>1, FewerHolding
    <3>3. Cardinality(Holding(db', x)) \in Nat /\ Cardinality(Holding(e, x)) \in Nat
      BY HoldingFinite
    <3>4. QED
      BY <1>1, <3>2, <3>3 DEF Weight
  <2>2. QED
    BY <2>1
<1>11. ASSUME NEW x \in Objects, x \notin db'.freed
       PROVE  db'.rc[x] + uncounted'[x] >= Uses(x)'
  <2>1. x \notin db.freed /\ ~(K(x) > 0 /\ e.rc[x] <= K(x))
    BY <1>2, <1>8, <1>11
  <2>2. Uses(x)' = Weight(db', x) + B(x) + k(x) + b(x)
    <3>1. Uses(x)' = Weight(db', x) + N(x) + b(x)
      BY <1>2, UsesIs
    <3>2. /\ N(x) = B(x) + k(x) /\ Weight(db', x) \in Nat /\ B(x) \in Nat /\ k(x) \in Nat
          /\ b(x) \in Nat
      BY <1>5, <1>7, HoldingFinite
    <3> HIDE DEF N, k, b
    <3>3. QED
      BY <3>1, <3>2
  <2>3. e.rc[x] + uncounted'[x] >= Weight(e, x) + B(x) + K(x) + k(x) + b(x)
    BY <1>9, <2>1
  <2>4. /\ Weight(db', x) \in Nat /\ Weight(e, x) \in Nat /\ e.rc[x] \in Int
        /\ uncounted'[x] \in Nat /\ k(x) \in Nat /\ b(x) \in Nat /\ B(x) \in Nat /\ K(x) \in Nat
        /\ Weight(db', x) <= Weight(e, x)
    BY <1>2, <1>5, <1>10, HoldingFinite, DatabaseFields
  <2>5. db'.rc[x] = e.rc[x] - K(x)
    <3>1. CASE e.rc[x] > K(x)
      BY <1>8, <3>1
    <3>2. CASE ~(e.rc[x] > K(x))
      <4>1. K(x) = 0 /\ e.rc[x] <= 0
        BY <2>1, <2>4, <3>2
      <4>2. QED
        BY <1>8, <2>4, <3>2, <4>1
    <3>3. QED
      BY <3>1, <3>2
  <2> HIDE DEF k, b
  <2>6. QED
    BY <2>2, <2>3, <2>4, <2>5
<1>12. ASSUME NEW x \in db.freed, uncounted'[x] = 0
       PROVE  /\ db'.place[x] \notin InTree /\ clip' # x
              /\ \A i \in DOMAIN stack' : stack'[i].obj # x
  <2>1. x \in Objects /\ uncounted[x] = 0
    BY <1>2, <1>3, <1>12, DatabaseFields
  <2>2. /\ db.place[x] \notin InTree /\ clip # x /\ \A i \in DOMAIN stack : stack[i].obj # x
    BY <1>12, <2>1 DEF FreedIsUnused
  <2>3. db.place[x] = "nowhere"
    <3>1. db.place[x] \in Places /\ db.place[x] # "unborn"
      BY <1>3, <1>12, <2>1, DatabaseFields DEF UnbornInv
    <3>2. QED
      BY <2>2, <3>1 DEF Places, InTree
  <2>4. db'.place[x] = "nowhere" /\ c.obj # x
    BY <1>1, <1>2, <2>1, <2>3
  <2>5. ASSUME NEW i \in DOMAIN stack'
        PROVE  stack'[i].obj # x
    <3>1. i = done + 1 \/ (i \in 1..done /\ i \in DOMAIN stack)
      BY <1>3, <1>6
    <3>2. QED
      BY <1>1, <2>2, <2>4, <3>1
  <2>6. QED
    BY <1>2, <2>2, <2>4, <2>5 DEF InTree
<1>13. ASSUME NEW x \in Objects, x \notin db.freed, K(x) > 0, e.rc[x] <= K(x), uncounted'[x] = 0
       PROVE  /\ db'.place[x] \notin InTree /\ clip' # x
              /\ \A i \in DOMAIN stack' : stack'[i].obj # x
  <2>1. e.rc[x] + uncounted'[x] >= Weight(e, x) + B(x) + K(x) + k(x) + b(x)
    BY <1>9, <1>13
  <2>2. /\ Weight(e, x) \in Nat /\ e.rc[x] \in Int
        /\ k(x) \in Nat /\ b(x) \in Nat /\ B(x) \in Nat /\ K(x) \in Nat
    BY <1>2, <1>5, HoldingFinite, DatabaseFields
  <2>3. Weight(e, x) = 0 /\ B(x) = 0 /\ k(x) = 0 /\ b(x) = 0
    <3> HIDE DEF k, b
    <3>1. QED
      BY <1>13, <2>1, <2>2
  <2>4. e.place[x] \notin InTree
    <3>1. Cardinality(Holding(e, x)) \in Nat
      BY HoldingFinite
    <3>2. QED
      BY <2>3, <3>1 DEF Weight
  <2>5. ~Keeps(c, x) /\ clip # x
    BY <2>3
  <2>6. \A i \in 1..done : ~Keeps(stack[i], x)
    BY <1>4, <2>3, KeepersAreNat DEF B
  <2>7. ASSUME NEW i \in DOMAIN stack'
        PROVE  ~Keeps(stack'[i], x)
    <3>1. i = done + 1 \/ i \in 1..done
      BY <1>3, <1>6
    <3>2. QED
      BY <1>1, <2>5, <2>6, <3>1
  <2>8. Document(e).place[x] = "nowhere"
    BY <1>2, <1>13, <2>4, Shown
  <2>9. WentInv' /\ HistoryInv'
    BY PushHistory
  <2>10. ASSUME NEW i \in DOMAIN stack'
         PROVE  stack'[i].obj # x
    <3>1. i \in 1..(done + 1) /\ stack'[i] \in Commands /\ i \in Positions'
      BY <1>1, <1>6, ElementOfSeq
    <3>2. stack'[i].kind = "delete" \/ stack'[i].kind = "add" => stack'[i].obj # x
      BY <2>7 DEF Keeps
    <3>3. ASSUME stack'[i].obj = x, stack'[i].kind = "move" \/ stack'[i].kind = "change"
          PROVE  Docs(i)'.place[x] # "nowhere"
      <4>1. Step(stack[i], Docs(i), Docs(i + 1))'
        BY <2>9, <3>1 DEF HistoryInv
      <4>2. \/ stack'[i].kind = "move" /\ Docs(i)'.place[stack'[i].obj] = stack'[i].from
            \/ /\ stack'[i].kind = "change"
               /\ stack'[i].obj \in Groups => Docs(i)'.place[stack'[i].obj] # "nowhere"
        BY <3>3, <4>1 DEF Step, MoveStep, ChangeStep
      <4>3. stack'[i].kind = "move" => stack'[i].from # "nowhere"
        BY <3>1, Kinds DEF InTree
      <4>4. stack'[i].kind = "change" => stack'[i].obj \in Groups
        BY <1>13, <3>1, <3>3, Kinds, Apart DEF Holders
      <4>5. QED
        BY <3>3, <4>2, <4>3, <4>4
    <3>4. ASSUME Docs(i)'.place[x] # "nowhere"
          PROVE  FALSE
      <4>1. PICK j : j = done + 2
        OBVIOUS
      <4>2. j \in Points' /\ j \in Nat /\ i \in 1..j
        BY <1>1, <1>3, <3>1, <4>1
      <4>3. Docs(j)'.place[x] = "nowhere"
        BY <1>1, <2>8, <4>1, <4>2
      <4>4. \E m \in i..(j - 1) : Keeps(stack[m], x)'
        BY <1>13, <2>9, <3>4, <4>2, <4>3 DEF WentInv
      <4>5. \A m \in i..(j - 1) : m \in DOMAIN stack'
        BY <1>3, <1>6, <3>1, <4>1
      <4>6. QED
        BY <2>7, <4>4, <4>5 DEF Keeps
    <3>5. QED
      BY <3>1, <3>2, <3>3, <3>4, Kinds
  <2>11. QED
    BY <1>1, <1>2, <2>4, <2>5, <2>10
<1>14. FreedIsUnused'
  <2>1. ASSUME NEW x \in db'.freed, uncounted'[x] = 0
        PROVE  /\ db'.place[x] \notin InTree /\ clip' # x
               /\ \A i \in DOMAIN stack' : stack'[i].obj # x
    BY <1>2, <1>8, <1>12, <1>13, <2>1
  <2>2. QED
    BY <2>1 DEF FreedIsUnused
<1>15. CountsCoverUses'
  BY <1>11 DEF CountsCoverUses
<1>16. QED
  BY <1>14, <1>15

LEMMA PushKeeps ==
  ASSUME Inv, NEW c, NEW e, Pushed(c, e)
  PROVE  Inv' /\ Document(db') \in Documents
<1>1. /\ TypeInv /\ ShapeInv /\ FitInv /\ HistoryInv /\ AwayInv /\ UnbornInv /\ WentInv
      /\ CountsCoverUses /\ FreedIsUnused
  BY DEF Inv
<1>2. TypeInv' /\ ShapeInv' /\ FitInv'
  BY <1>1, PushTypes
<1>3. HistoryInv' /\ WentInv'
  BY <1>1, PushHistory
<1>4. AwayInv' /\ UnbornInv'
  BY <1>1, PushAway, PushUnborn
<1>5. CountsCoverUses' /\ FreedIsUnused'
  BY <1>1, PushCounts
<1>6. Document(db') \in Documents
  <2>1. Document(db') = Document(e) /\ e \in Databases
    BY <1>1, PushFields DEF Pushed, Makes, Proper
  <2>2. QED
    BY <2>1, DocumentFields DEF DocOK
<1>7. QED
  BY <1>2, <1>3, <1>4, <1>5, <1>6 DEF Inv

-----------------------------------------------------------------------------
(* Every action that pushes a command makes what that command needs.        *)

\* the constructor of c took the database to d, which shows the same document
Prepared(c, d) ==
  /\ d \in Databases /\ d.place = db.place /\ d.freed = db.freed /\ Document(d) = Document(db)
  /\ \A g \in Groups : db.place[g] = "nowhere" => d.refs[g] = db.refs[g]
  /\ \A x \in Objects \ db.freed :
       d.rc[x] + uncounted'[x] + Weight(db, x)
         >= db.rc[x] + uncounted[x] + Weight(d, x) + (IF Keeps(c, x) THEN 1 ELSE 0)

\* redone there, c takes d to e
Applied(c, d, e) ==
  /\ Step(c, Document(d), Document(e)) /\ Follows(d, e, c.obj) /\ Even(d, e)
  /\ c.obj \in Objects => db.place[c.obj] # "nowhere"
  /\ c.kind = "add" => db.place[c.obj] = "unborn"
  /\ c.kind = "delete" => db.place[c.obj] = "deleted" /\ e.refs = db.refs

LEMMA PreparedAndApplied ==
  ASSUME TypeInv, NEW c \in Commands, Fit(c), NEW d, NEW e, Prepared(c, d), Applied(c, d, e),
         uncounted' \in [Objects -> Nat]
  PROVE  Makes(c, e) /\ Counts(c, e)
<1>1. /\ Proper(e) /\ e \in Databases /\ d \in Databases /\ e.freed = db.freed
      /\ \A x \in Objects : IF x = c.obj THEN e.place[x] # "unborn"
                            ELSE e.place[x] = db.place[x]
  BY DEF Prepared, Applied, Follows, Proper
<1>2. Step(c, Document(db), Document(e))
  BY DEF Prepared, Applied
<1>3. c.kind = "delete" \/ c.kind = "add" => c.obj \in Objects
  BY Kinds, Apart
<1>4. \A x \in Objects :
        /\ db.place[x] = "nowhere" => e.place[x] = "nowhere"
        /\ e.place[x] = "unborn" => db.place[x] = "unborn" /\ ~Keeps(c, x)
        /\ c.obj = x => db.place[x] # "nowhere"
  BY <1>1 DEF Applied, Keeps
<1>5. \A g \in Groups : db.place[g] = "nowhere" => e.refs[g] = db.refs[g]
  <2>1. ASSUME NEW g \in Groups, db.place[g] = "nowhere"
        PROVE  e.refs[g] = db.refs[g]
    <3>1. d.place[g] \notin InTree /\ e.place[g] \notin InTree
      BY <1>4, <2>1, Apart DEF Prepared, InTree
    <3>2. e.refs[g] = d.refs[g]
      BY <3>1 DEF Applied, Follows
    <3>3. QED
      BY <2>1, <3>2 DEF Prepared
  <2>2. QED
    BY <2>1
<1>6. Makes(c, e)
  <2>1. c.kind = "add" => db.place[c.obj] = "unborn"
    BY DEF Applied
  <2>2. c.kind = "delete" => db.place[c.obj] = "deleted" /\ e.refs = db.refs
    BY DEF Applied
  <2>3. QED
    BY <1>1, <1>2, <1>4, <1>5, <2>1, <2>2 DEF Makes
<1>7. ASSUME NEW x \in Objects, x \notin db.freed
      PROVE  e.rc[x] + uncounted'[x] + Weight(db, x)
               >= db.rc[x] + uncounted[x] + Weight(e, x) + (IF Keeps(c, x) THEN 1 ELSE 0)
  <2> DEFINE k == IF Keeps(c, x) THEN 1 ELSE 0
  <2>1. d.rc[x] + uncounted'[x] + Weight(db, x) >= db.rc[x] + uncounted[x] + Weight(d, x) + k
    BY <1>7 DEF Prepared
  <2>2. e.rc[x] + Weight(d, x) >= d.rc[x] + Weight(e, x)
    BY <1>7 DEF Applied, Even, Prepared
  <2>3. /\ d.rc[x] \in Int /\ e.rc[x] \in Int /\ db.rc[x] \in Int /\ k \in Nat
        /\ Weight(d, x) \in Nat /\ Weight(e, x) \in Nat /\ Weight(db, x) \in Nat
        /\ uncounted[x] \in Nat /\ uncounted'[x] \in Nat
    BY <1>1, HoldingFinite, DatabaseFields DEF TypeInv, TypeOK
  <2> HIDE DEF k
  <2>4. e.rc[x] + uncounted'[x] + Weight(db, x) >= db.rc[x] + uncounted[x] + Weight(e, x) + k
    BY <2>1, <2>2, <2>3
  <2>5. QED
    BY <2>4 DEF k
<1>8. QED
  BY <1>6, <1>7 DEF Counts

LEMMA PushedIs ==
  ASSUME TypeInv, NEW c \in Commands, Fit(c), NEW d, Push(c, d),
         Prepared(c, d), Applied(c, d, Redone(c, d)),
         clip' = clip, uncounted' \in [Objects -> Nat],
         \A x \in Objects : uncounted'[x] >= uncounted[x]
  PROVE  Pushed(c, Redone(c, d))
<1>1. /\ Usable(db) /\ db' = Destroy((done + 1)..Len(stack), Redone(c, d))
      /\ stack' = Append(SubSeq(stack, 1, done), c) /\ done' = done + 1
      /\ past' = Append(past, Document(db)) /\ future' = <<>> /\ dummies' = dummies
  BY DEF Push
<1>2. Makes(c, Redone(c, d)) /\ Counts(c, Redone(c, d))
  BY PreparedAndApplied
<1>3. QED
  BY <1>1, <1>2 DEF Pushed

LEMMA SameUncounted ==
  ASSUME TypeInv, uncounted' = uncounted
  PROVE  /\ uncounted' \in [Objects -> Nat] /\ \A x \in Objects : uncounted'[x] >= uncounted[x]
BY DEF TypeInv, TypeOK

\* a constructor that only counts, and counts what the command keeps
LEMMA OnlyCounts ==
  ASSUME TypeInv, uncounted' = uncounted, NEW c, NEW d \in Databases,
         d.place = db.place, d.refs = db.refs, d.freed = db.freed,
         \A x \in Objects : d.rc[x] >= db.rc[x] + (IF Keeps(c, x) THEN 1 ELSE 0)
  PROVE  Prepared(c, d)
<1>1. db \in Databases
  BY DEF TypeInv
<1>2. Document(d) = Document(db)
  BY <1>1, SameDocument
<1>3. \A x : Weight(d, x) = Weight(db, x) /\ Weight(db, x) \in Nat
  BY HoldingFinite DEF Weight, Holding
<1>4. ASSUME NEW x \in Objects, x \notin db.freed
      PROVE  d.rc[x] + uncounted'[x] + Weight(db, x)
               >= db.rc[x] + uncounted[x] + Weight(d, x) + (IF Keeps(c, x) THEN 1 ELSE 0)
  <2> DEFINE k == IF Keeps(c, x) THEN 1 ELSE 0
  <2>1. /\ d.rc[x] \in Int /\ db.rc[x] \in Int /\ uncounted'[x] = uncounted[x]
        /\ uncounted[x] \in Nat /\ k \in Nat /\ d.rc[x] >= db.rc[x] + k
    BY <1>1, DatabaseFields DEF TypeInv, TypeOK
  <2> HIDE DEF k
  <2>2. d.rc[x] + uncounted'[x] + Weight(db, x) >= db.rc[x] + uncounted[x] + Weight(d, x) + k
    BY <1>3, <2>1
  <2>3. QED
    BY <2>2 DEF k
<1>5. QED
  BY <1>2, <1>4 DEF Prepared

LEMMA NothingFreedHolds ==
  ASSUME TypeInv, ShapeInv, Usable(db)
  PROVE  /\ Proper(db)
         /\ \A h \in Holders : (h \in Rules \/ db.place[h] \in InTree) => h \notin db.freed
<1>1. Proper(db)
  BY DEF Proper, TypeInv, TypeOK, ShapeInv
<1>2. db.freed \subseteq Objects
  BY <1>1, DatabaseFields DEF Proper
<1>3. QED
  BY <1>1, <1>2, Apart DEF Usable

\* deletions and undeletions: the constructor of the command counts nothing
LEMMA PushedMove ==
  ASSUME Inv, NEW x \in Objects, NEW to \in InTree, NEW hs \in SUBSET Holders,
         db.place[x] \in InTree, x \in Hosts \/ hs \subseteq Rules,
         \A h \in hs : x \in db.refs[h] /\ Visible(db, h),
         Push(Move(x, to, hs), db), clip' = clip, uncounted' = uncounted
  PROVE  Pushed(Move(x, to, hs), MoveRedo(Move(x, to, hs), db))
<1> DEFINE c == Move(x, to, hs)
<1>1. /\ c.kind = "move" /\ c.obj = x /\ c.from = db.place[x] /\ c.to = to /\ c.holders = hs
      /\ c \in Commands
  BY DEF Move, Commands
<1>2. Push(c, db)
  OBVIOUS
<1>3. TypeInv /\ ShapeInv /\ Usable(db)
  BY <1>2 DEF Push, Inv
<1> HIDE DEF c
<1>4. /\ Proper(db) /\ db \in Databases
      /\ \A h \in Holders : (h \in Rules \/ db.place[h] \in InTree) => h \notin db.freed
  BY <1>3, NothingFreedHolds DEF Proper
<1>5. Fit(c)
  BY <1>1 DEF Fit
<1>6. Redone(c, db) = MoveRedo(c, db)
  BY <1>1 DEF Redone
<1>7. Prepared(c, db)
  <2>1. \A y \in Objects : db.rc[y] \in Int /\ ~Keeps(c, y)
    BY <1>1, <1>4, DatabaseFields DEF Keeps
  <2>2. \A y \in Objects : db.rc[y] >= db.rc[y] + (IF Keeps(c, y) THEN 1 ELSE 0)
    BY <2>1
  <2>3. QED
    BY <1>3, <1>4, <2>2, OnlyCounts
<1>8. Applied(c, db, MoveRedo(c, db))
  <2>1. MoveStep(c, Document(db), Document(MoveRedo(c, db))) /\ Follows(db, MoveRedo(c, db), c.obj)
    BY <1>1, <1>4, <1>5, MoveRedone
  <2>2. \A h \in c.holders : c.obj \in db.refs[h] /\ h \notin db.freed
    BY <1>1, <1>4 DEF Visible
  <2>3. Even(db, MoveRedo(c, db))
    BY <1>1, <1>4, <2>2, EvenMoveRedo
  <2>4. db.place[c.obj] # "nowhere"
    BY <1>1 DEF InTree
  <2>5. QED
    BY <1>1, <2>1, <2>3, <2>4 DEF Applied, Step
<1>9. uncounted' \in [Objects -> Nat] /\ \A y \in Objects : uncounted'[y] >= uncounted[y]
  BY <1>3, SameUncounted
<1>10. Pushed(c, Redone(c, db))
  BY <1>1, <1>2, <1>3, <1>5, <1>6, <1>7, <1>8, <1>9, PushedIs
<1>11. QED
  BY <1>6, <1>10 DEF c

LEMMA DeleteObjectPushes ==
  ASSUME Inv, NEW x \in Objects, DeleteObject(x)
  PROVE  LET c == Move(x, "deleted", ReferenceHolders(db, x)) IN Pushed(c, MoveRedo(c, db))
<1> DEFINE hs == ReferenceHolders(db, x)
<1>1. /\ db.place[x] = "library" /\ Push(Move(x, "deleted", hs), db)
      /\ clip' = clip /\ uncounted' = uncounted
  BY DEF DeleteObject
<1>2. /\ hs \in SUBSET Holders /\ \A h \in hs : x \in db.refs[h]
      /\ \A h \in hs : h \in Groups => db.place[h] = "library"
  BY DEF ReferenceHolders
<1> HIDE DEF hs
<1>3. \A h \in hs : Visible(db, h)
  BY <1>2 DEF Visible, InTree, Holders
<1>4. x \in Hosts \/ hs \subseteq Rules
  <2>1. \A g \in Groups : db.refs[g] \subseteq Hosts
    BY DEF Inv, TypeInv, TypeOK
  <2>2. QED
    BY <1>2, <2>1 DEF Holders
<1>5. Pushed(Move(x, "deleted", hs), MoveRedo(Move(x, "deleted", hs), db))
  BY <1>1, <1>2, <1>3, <1>4, PushedMove DEF InTree
<1>6. QED
  BY <1>5 DEF hs

LEMMA UndeletePushes ==
  ASSUME Inv, NEW x \in Objects, Undelete(x)
  PROVE  LET c == Move(x, "library", {}) IN Pushed(c, MoveRedo(c, db))
<1>1. /\ db.place[x] = "deleted" /\ Push(Move(x, "library", {}), db)
      /\ clip' = clip /\ uncounted' = uncounted
  BY DEF Undelete
<1>2. QED
  BY <1>1, PushedMove DEF InTree

LEMMA DeleteForeverPushes ==
  ASSUME Inv, NEW x \in Objects, DeleteForever(x)
  PROVE  Pushed(Delete(x), TakeOut(Delete(x), NewDelete(x)))
<1> DEFINE c == Delete(x)
           d == NewDelete(x)
<1>1. /\ db.place[x] = "deleted" /\ Push(c, d) /\ clip' = clip /\ uncounted' = uncounted
  BY DEF DeleteForever
<1>2. c.kind = "delete" /\ c.obj = x /\ c \in Commands
  BY DEF Delete, Commands
<1>3. TypeInv /\ ShapeInv /\ Usable(db)
  BY <1>1 DEF Push, Inv
<1>4. Proper(db) /\ db \in Databases
  BY <1>3, NothingFreedHolds DEF Proper
<1>5. /\ d \in Databases /\ d.place = db.place /\ d.refs = db.refs /\ d.freed = db.freed
      /\ \A y \in Objects : d.rc[y] >= db.rc[y] + IF y = x THEN 1 ELSE 0
  BY <1>4, NewDeleteFields
<1> HIDE DEF c, d
<1>6. Proper(d)
  BY <1>4, <1>5 DEF Proper
<1>7. Fit(c)
  BY <1>2 DEF Fit
<1>8. Redone(c, d) = TakeOut(c, d)
  BY <1>2 DEF Redone
<1>9. Prepared(c, d)
  <2>1. \A y \in Objects : Keeps(c, y) <=> y = x
    BY <1>2 DEF Keeps
  <2>2. \A y \in Objects : d.rc[y] >= db.rc[y] + (IF Keeps(c, y) THEN 1 ELSE 0)
    BY <1>5, <2>1
  <2>3. QED
    BY <1>1, <1>3, <1>5, <2>2, OnlyCounts
<1>10. Applied(c, d, TakeOut(c, d))
  <2>1. /\ DeleteStep(c, Document(d), Document(TakeOut(c, d)))
        /\ Follows(d, TakeOut(c, d), c.obj) /\ TakeOut(c, d).refs = d.refs
    BY <1>1, <1>2, <1>5, <1>6, DeleteRedone
  <2>2. Even(d, TakeOut(c, d))
    BY <1>1, <1>2, <1>5, EvenTakeOut DEF InTree
  <2>3. QED
    BY <1>1, <1>2, <1>5, <2>1, <2>2 DEF Applied, Step
<1>11. uncounted' \in [Objects -> Nat] /\ \A y \in Objects : uncounted'[y] >= uncounted[y]
  BY <1>1, <1>3, SameUncounted
<1>12. Pushed(c, Redone(c, d))
  BY <1>1, <1>2, <1>3, <1>7, <1>8, <1>9, <1>10, <1>11, PushedIs
<1>13. QED
  BY <1>8, <1>12 DEF c, d

\* A group that is made, empty or with the members of another.  The references of
\* its members are not counted.
LEMMA GroupPushes ==
  ASSUME Inv, NEW g \in Groups, NEW m \in SUBSET Hosts, NEW d,
         d = Count([db EXCEPT !.refs[g] = m], {g}, 1),
         db.place[g] = "unborn", Push(Add(g), d), clip' = clip,
         uncounted' \in [Objects -> Nat],
         \A x \in Objects : uncounted'[x] >= uncounted[x] + IF x \in m THEN 1 ELSE 0
  PROVE  Pushed(Add(g), PutBack(Add(g), d, "library"))
<1> DEFINE c == Add(g)
<1>1. c.kind = "add" /\ c.obj = g /\ c \in Commands
  BY DEF Add, Commands
<1>2. Push(c, d)
  OBVIOUS
<1>3. TypeInv /\ ShapeInv /\ Usable(db)
  BY <1>2 DEF Push, Inv
<1>4. Proper(db) /\ db \in Databases /\ g \in Objects /\ g \in Holders /\ m \in SUBSET Members
  BY <1>3, NothingFreedHolds, Apart DEF Proper, Members, Objects
<1>5. /\ d \in Databases /\ d.place = db.place /\ d.refs = [db.refs EXCEPT ![g] = m]
      /\ d.freed = db.freed
      /\ \A y \in Objects : d.rc[y] = IF y = g THEN db.rc[y] + 1 ELSE db.rc[y]
  <2> DEFINE e == Count([db EXCEPT !.refs[g] = m], {g}, 1)
  <2>1. /\ e \in Databases /\ e.place = db.place /\ e.refs = [db.refs EXCEPT ![g] = m]
        /\ e.freed = db.freed
        /\ \A y \in Objects : e.rc[y] = IF y = g THEN db.rc[y] + 1 ELSE db.rc[y]
    BY <1>4, NewGroupFields
  <2>2. d = e
    OBVIOUS
  <2> HIDE DEF e
  <2>3. QED
    BY <2>1, <2>2
<1>6. \A h \in Holders : d.refs[h] = IF h = g THEN m ELSE db.refs[h]
  BY <1>4, <1>5, DatabaseFields
<1> HIDE DEF c
<1>7. Proper(d)
  <2>1. \A k \in Groups : d.refs[k] \subseteq Hosts
    BY <1>4, <1>6, Apart DEF Proper
  <2>2. \A r \in Rules : Shaped(d.refs[r])
    BY <1>4, <1>6, Apart DEF Proper
  <2>3. QED
    BY <1>5, <2>1, <2>2 DEF Proper
<1>8. Document(d) = Document(db)
  <2>1. /\ Document(db) \in Documents
        /\ \A x \in Objects : Document(db).place[x] = IF db.place[x] \in InTree THEN db.place[x]
                                                      ELSE "nowhere"
        /\ \A h \in Holders : Document(db).refs[h] = IF Visible(db, h) THEN db.refs[h] ELSE {}
    BY <1>4, DocumentFields DEF DocOK
  <2>2. ~Visible(db, g)
    BY Apart DEF Visible, InTree
  <2>3. \A h \in Holders : Visible(d, h) <=> Visible(db, h)
    BY <1>5 DEF Visible
  <2>4. \A h \in Holders : Document(db).refs[h] = IF Visible(d, h) THEN d.refs[h] ELSE {}
    BY <1>6, <2>1, <2>2, <2>3
  <2>5. \A x \in Objects : Document(db).place[x] = IF d.place[x] \in InTree THEN d.place[x]
                                                  ELSE "nowhere"
    BY <1>5, <2>1
  <2>6. QED
    BY <1>5, <2>1, <2>4, <2>5, DocumentIs
<1>9. Fit(c)
  BY <1>1 DEF Fit
<1>10. Redone(c, d) = PutBack(c, d, "library")
  BY <1>1 DEF Redone
<1>11. \A x \in Objects : uncounted'[x] >= uncounted[x]
  <2>1. \A x \in Objects : uncounted[x] \in Nat /\ uncounted'[x] \in Nat
    BY <1>3 DEF TypeInv, TypeOK
  <2>2. QED
    BY <2>1
<1>12. Prepared(c, d)
  <2>1. ASSUME NEW x \in Objects, x \notin db.freed
        PROVE  d.rc[x] + uncounted'[x] + Weight(db, x)
                 >= db.rc[x] + uncounted[x] + Weight(d, x) + (IF Keeps(c, x) THEN 1 ELSE 0)
    <3> DEFINE k == IF Keeps(c, x) THEN 1 ELSE 0
               u == IF x \in m THEN 1 ELSE 0
    <3>1. d.rc[x] = db.rc[x] + k
      <4>1. Keeps(c, x) <=> x = g
        BY <1>1 DEF Keeps
      <4>2. db.rc[x] \in Int /\ d.rc[x] = IF x = g THEN db.rc[x] + 1 ELSE db.rc[x]
        BY <1>4, <1>5, DatabaseFields
      <4>3. QED
        BY <4>1, <4>2
    <3>2. Weight(d, x) <= Weight(db, x) + u
      <4>1. CASE x \in m
        <5>1. Holding(d, x) \subseteq Holding(db, x) \cup {g}
          BY <1>5, <1>6 DEF Holding
        <5>2. Cardinality(Holding(d, x)) <= Cardinality(Holding(db, x)) + 1
          BY <5>1, OneMoreHolding
        <5>3. QED
          BY <1>5, <4>1, <5>2, HoldingFinite DEF Weight
      <4>2. CASE x \notin m
        <5>1. Holding(d, x) \subseteq Holding(db, x)
          BY <1>5, <1>6, <4>2 DEF Holding
        <5>2. Cardinality(Holding(d, x)) <= Cardinality(Holding(db, x))
          BY <5>1, FewerHolding
        <5>3. QED
          BY <1>5, <4>2, <5>2, HoldingFinite DEF Weight
      <4>3. QED
        BY <4>1, <4>2
    <3>3. /\ d.rc[x] \in Int /\ db.rc[x] \in Int /\ uncounted[x] \in Nat /\ uncounted'[x] \in Nat
          /\ Weight(d, x) \in Nat /\ Weight(db, x) \in Nat /\ k \in Nat /\ u \in Nat
          /\ uncounted'[x] >= uncounted[x] + u
      BY <1>3, <1>4, <1>5, HoldingFinite, DatabaseFields DEF TypeInv, TypeOK
    <3> HIDE DEF k, u
    <3>4. d.rc[x] + uncounted'[x] + Weight(db, x) >= db.rc[x] + uncounted[x] + Weight(d, x) + k
      BY <3>1, <3>2, <3>3
    <3>5. QED
      BY <3>4 DEF k
  <2>2. \A k \in Groups : db.place[k] = "nowhere" => d.refs[k] = db.refs[k]
    BY <1>6, Apart
  <2>3. QED
    BY <1>5, <1>8, <2>1, <2>2 DEF Prepared
<1>13. Applied(c, d, PutBack(c, d, "library"))
  <2>1. /\ AddStep(c, Document(d), Document(PutBack(c, d, "library")))
        /\ Follows(d, PutBack(c, d, "library"), c.obj)
    BY <1>1, <1>5, <1>7, AddRedone DEF InTree
  <2>2. Even(d, PutBack(c, d, "library"))
    BY <1>1, <1>4, <1>5, EvenPutBack DEF Places
  <2>3. QED
    BY <1>1, <2>1, <2>2 DEF Applied, Step
<1>14. Pushed(c, Redone(c, d))
  BY <1>1, <1>2, <1>3, <1>9, <1>10, <1>11, <1>12, <1>13, PushedIs
<1>15. QED
  BY <1>10, <1>14 DEF c

LEMMA EditPushes ==
  ASSUME Inv, NEW h \in Holders, NEW m \in SUBSET Members, Edit(h, m),
         h \in Rules => Shaped(m), h \in Groups => m \subseteq Hosts
  PROVE  Pushed(Change(h, m), Restore(h, m, NewChange(h, m)))
<1> DEFINE c == Change(h, m)
           d == NewChange(h, m)
<1>1. /\ Editable(h) /\ Push(c, d) /\ clip' = clip /\ uncounted' = uncounted
  BY DEF Edit
<1>2. TypeInv /\ ShapeInv /\ Usable(db)
  BY <1>1 DEF Push, Inv
<1>3. Proper(db) /\ db \in Databases
  BY <1>2, NothingFreedHolds DEF Proper
<1>4. /\ c.kind = "change" /\ c.obj = h /\ c.from = db.refs[h] /\ c.to = m /\ c \in Commands
  <2>1. db.refs[h] \in SUBSET (Objects \cup {AnyObject, DummyObject})
    BY <1>3, DatabaseFields DEF Members
  <2>2. QED
    BY <2>1 DEF Change, Commands, Members
<1>5. /\ d \in Databases /\ d.place = db.place /\ d.refs = db.refs /\ d.freed = db.freed
      /\ \A y \in Objects : d.rc[y] >= db.rc[y]
  BY <1>3, NewChangeFields
<1> HIDE DEF c, d
<1>6. Proper(d)
  BY <1>3, <1>5 DEF Proper
<1>7. Fit(c)
  BY <1>3, <1>4, Apart DEF Fit, Proper, Holders
<1>8. Redone(c, d) = Restore(h, m, d)
  BY <1>4 DEF Redone
<1>9. Prepared(c, d)
  <2>1. \A y \in Objects : ~Keeps(c, y) /\ d.rc[y] \in Int /\ db.rc[y] \in Int
    BY <1>3, <1>4, <1>5, DatabaseFields DEF Keeps
  <2>2. \A y \in Objects : d.rc[y] >= db.rc[y] + (IF Keeps(c, y) THEN 1 ELSE 0)
    BY <1>5, <2>1
  <2>3. QED
    BY <1>1, <1>2, <1>5, <2>2, OnlyCounts
<1>10. Visible(d, h) /\ (h \in Groups => db.place[h] \in InTree)
  BY <1>1, <1>5 DEF Editable, Visible, Holders
<1>11. Applied(c, d, Restore(h, m, d))
  <2>1. /\ Follows(d, Restore(h, m, d), h)
        /\ Document(Restore(h, m, d)).place = Document(d).place
        /\ \A k \in Holders : Document(Restore(h, m, d)).refs[k]
                               = IF k = h THEN m ELSE Document(d).refs[k]
    BY <1>6, <1>10, ChangeMade
  <2>2. Document(d).refs[h] = db.refs[h]
    BY <1>5, <1>10, DocumentFields
  <2>3. h \in Groups => Document(d).place[h] # "nowhere"
    BY <1>5, <1>10, Shown, Apart
  <2>4. ChangeStep(c, Document(d), Document(Restore(h, m, d)))
    BY <1>4, <2>1, <2>2, <2>3 DEF ChangeStep
  <2>5. Even(d, Restore(h, m, d))
    BY <1>5, EvenRestore
  <2>6. c.obj \in Objects => db.place[c.obj] # "nowhere"
    BY <1>4, <1>10, Apart DEF Holders, InTree
  <2>7. QED
    BY <1>4, <2>1, <2>4, <2>5, <2>6 DEF Applied, Step
<1>12. uncounted' \in [Objects -> Nat] /\ \A y \in Objects : uncounted'[y] >= uncounted[y]
  BY <1>1, <1>2, SameUncounted
<1>13. Pushed(c, Redone(c, d))
  BY <1>1, <1>2, <1>4, <1>7, <1>8, <1>9, <1>11, <1>12, PushedIs
<1>14. QED
  BY <1>8, <1>13 DEF c, d

\* what an editor puts into a rule element or a group
LEMMA Edited ==
  ASSUME Inv, NEW h \in Holders, NEW x \in Members
  PROVE  /\ InsertObject(h, x) /\ x \in Objects =>
              LET m == AddRef(h, db.refs[h], x) \ {DummyObject}
              IN  m \subseteq Members /\ (h \in Rules => Shaped(m)) /\ (h \in Groups => m \subseteq Hosts)
         /\ RemoveObject(h, x) =>
              LET m == SetDummy(h, TakeRef(h, db.refs[h], x))
              IN  m \subseteq Members /\ (h \in Rules => Shaped(m)) /\ (h \in Groups => m \subseteq Hosts)
         /\ h \in Rules /\ ConvertToAny(h, x) =>
              LET m == TakeRef(h, db.refs[h], x)
              IN  m \subseteq Members /\ Shaped(m)
         /\ h \in Groups /\ PasteInTree(h) =>
              AddRef(h, db.refs[h], clip) \subseteq Hosts
<1> DEFINE old == db.refs[h]
<1>1. /\ old \subseteq Members /\ (h \in Rules => Shaped(old)) /\ (h \in Groups => old \subseteq Hosts)
      /\ dummies \in BOOLEAN
  <2>1. TypeInv /\ ShapeInv
    BY DEF Inv
  <2>2. db.refs[h] \subseteq Members
    BY <2>1, DatabaseFields DEF TypeInv
  <2>3. QED
    BY <2>1, <2>2 DEF TypeInv, TypeOK, ShapeInv
<1>2. h \in Groups => h \notin Rules
  BY Apart
<1>3. AnyObject \in Members /\ DummyObject \in Members /\ AnyObject # DummyObject
  BY Apart DEF Members
<1>4. /\ AnyObject \notin Hosts /\ DummyObject \notin Hosts
      /\ x \in Objects => x # AnyObject /\ x # DummyObject
  BY Apart
<1>5. ASSUME InsertObject(h, x), x \in Objects
      PROVE  LET m == AddRef(h, old, x) \ {DummyObject}
             IN  m \subseteq Members /\ (h \in Rules => Shaped(m)) /\ (h \in Groups => m \subseteq Hosts)
  <2>1. x \notin old /\ (h \in Groups => x \in Hosts)
    BY <1>5 DEF InsertObject
  <2> HIDE DEF old
  <2>2. QED
    BY <1>1, <1>2, <1>3, <1>4, <1>5, <2>1 DEF AddRef, Shaped
<1>6. ASSUME RemoveObject(h, x)
      PROVE  LET m == SetDummy(h, TakeRef(h, old, x))
             IN  m \subseteq Members /\ (h \in Rules => Shaped(m)) /\ (h \in Groups => m \subseteq Hosts)
  <2>1. /\ x \in old
        /\ h \in Rules => IF dummies THEN x # DummyObject ELSE old # {AnyObject}
    BY <1>6 DEF RemoveObject
  <2> HIDE DEF old
  <2>2. CASE h \in Rules
    <3>1. TakeRef(h, old, x) \subseteq Members /\ Shaped(TakeRef(h, old, x))
      BY <1>1, <1>3, <2>1, <2>2 DEF TakeRef, Shaped
    <3>2. QED
      BY <1>1, <1>2, <1>3, <2>2, <3>1 DEF SetDummy, Shaped
  <2>3. CASE h \notin Rules
    BY <1>1, <2>3 DEF SetDummy, TakeRef
  <2>4. QED
    BY <2>2, <2>3
<1>7. ASSUME h \in Rules, ConvertToAny(h, x)
      PROVE  LET m == TakeRef(h, old, x) IN m \subseteq Members /\ Shaped(m)
  <2>1. x \in old
    BY <1>7 DEF ConvertToAny
  <2> HIDE DEF old
  <2>2. QED
    BY <1>1, <1>3, <1>7, <2>1 DEF TakeRef, Shaped
<1>8. ASSUME h \in Groups, PasteInTree(h)
      PROVE  AddRef(h, old, clip) \subseteq Hosts
  BY <1>1, <1>2, <1>8 DEF PasteInTree, AddRef
<1>9. QED
  BY <1>5, <1>6, <1>7, <1>8

\* what a step of the program is to the undo stack
Pushes == \E c, e : Pushed(c, e)

LEMMA EditsPush ==
  ASSUME Inv, NEW h \in Holders, NEW x \in Members,
         \/ InsertObject(h, x) /\ x \in Objects
         \/ RemoveObject(h, x)
         \/ ConvertToAny(h, x) /\ h \in Rules
         \/ PasteInTree(h) /\ h \in Groups
  PROVE  Pushes
<1>1. ASSUME NEW m, Edit(h, m), m \subseteq Members, h \in Rules => Shaped(m),
             h \in Groups => m \subseteq Hosts
      PROVE  Pushes
  BY <1>1, EditPushes DEF Pushes
<1>2. CASE InsertObject(h, x) /\ x \in Objects
  <2>1. Edit(h, AddRef(h, db.refs[h], x) \ {DummyObject})
    BY <1>2 DEF InsertObject
  <2>2. QED
    BY <1>1, <1>2, <2>1, Edited
<1>3. CASE RemoveObject(h, x)
  <2>1. Edit(h, SetDummy(h, TakeRef(h, db.refs[h], x)))
    BY <1>3 DEF RemoveObject
  <2>2. QED
    BY <1>1, <1>3, <2>1, Edited
<1>4. CASE ConvertToAny(h, x) /\ h \in Rules
  <2>1. Edit(h, TakeRef(h, db.refs[h], x))
    BY <1>4 DEF ConvertToAny
  <2>2. QED
    BY <1>1, <1>4, <2>1, Edited, Apart
<1>5. CASE PasteInTree(h) /\ h \in Groups
  <2>1. Edit(h, AddRef(h, db.refs[h], clip))
    BY <1>5 DEF PasteInTree
  <2>2. h \notin Rules /\ AddRef(h, db.refs[h], clip) \subseteq Hosts
    BY <1>5, Edited, Apart
  <2>3. AddRef(h, db.refs[h], clip) \subseteq Members
    BY <2>2 DEF Members, Objects
  <2>4. QED
    BY <1>1, <2>1, <2>2, <2>3
<1>6. QED
  BY <1>2, <1>3, <1>4, <1>5

LEMMA GroupsPush ==
  ASSUME Inv, NEW g \in Groups, NEW copy \in Groups, NewGroup(g) \/ Duplicate(g, copy)
  PROVE  Pushes
<1>1. TypeInv /\ uncounted \in [Objects -> Nat] /\ db.refs[g] \in SUBSET Hosts
  BY DEF Inv, TypeInv, TypeOK
<1>2. CASE NewGroup(g)
  <2> DEFINE d == Count([db EXCEPT !.refs[g] = {}], {g}, 1)
  <2>1. /\ db.place[g] = "unborn" /\ Push(Add(g), d) /\ clip' = clip /\ uncounted' = uncounted
    BY <1>2 DEF NewGroup
  <2>2. /\ uncounted' \in [Objects -> Nat]
        /\ \A x \in Objects : uncounted'[x] >= uncounted[x] + IF x \in {} THEN 1 ELSE 0
    BY <1>1, <2>1
  <2>3. PICK m \in SUBSET Hosts : m = {}
    OBVIOUS
  <2>4. d = Count([db EXCEPT !.refs[g] = m], {g}, 1)
    BY <2>3
  <2>5. \A x \in Objects : uncounted'[x] >= uncounted[x] + IF x \in m THEN 1 ELSE 0
    BY <2>2, <2>3
  <2> HIDE DEF d
  <2>6. Pushed(Add(g), PutBack(Add(g), d, "library"))
    BY <2>1, <2>2, <2>4, <2>5, GroupPushes
  <2>7. QED
    BY <2>6 DEF Pushes
<1>3. CASE Duplicate(g, copy)
  <2> DEFINE d == Count([db EXCEPT !.refs[copy] = db.refs[g]], {copy}, 1)
  <2>1. /\ db.place[copy] = "unborn" /\ Push(Add(copy), d) /\ clip' = clip
        /\ uncounted' = [x \in Objects |-> uncounted[x] + IF x \in db.refs[g] THEN 1 ELSE 0]
    BY <1>3 DEF Duplicate
  <2>2. /\ uncounted' \in [Objects -> Nat]
        /\ \A x \in Objects : uncounted'[x] >= uncounted[x] + IF x \in db.refs[g] THEN 1 ELSE 0
    <3>1. \A x \in Objects : uncounted[x] \in Nat
      BY <1>1
    <3>2. QED
      BY <2>1, <3>1
  <2>3. PICK m \in SUBSET Hosts : m = db.refs[g]
    BY <1>1
  <2>4. d = Count([db EXCEPT !.refs[copy] = m], {copy}, 1)
    BY <2>3
  <2>5. \A x \in Objects : uncounted'[x] >= uncounted[x] + IF x \in m THEN 1 ELSE 0
    BY <2>2, <2>3
  <2> HIDE DEF d
  <2>6. Pushed(Add(copy), PutBack(Add(copy), d, "library"))
    BY <2>1, <2>2, <2>4, <2>5, GroupPushes
  <2>7. QED
    BY <2>6 DEF Pushes
<1>4. QED
  BY <1>2, <1>3

\* a step that leaves the commands and the document alone
LEMMA AsideKeeps ==
  ASSUME Inv, stack' = stack, done' = done, past' = past, future' = future, dummies' = dummies,
         db' \in Databases, db'.place = db.place, db'.refs = db.refs, db'.freed = db.freed
  PROVE  /\ Document(db') = Document(db)
         /\ db' \in Databases /\ ShapeInv' /\ FitInv' /\ HistoryInv' /\ AwayInv' /\ UnbornInv'
         /\ WentInv'
<1>1. TypeInv /\ ShapeInv /\ FitInv /\ HistoryInv /\ AwayInv /\ UnbornInv /\ WentInv
  BY DEF Inv
<1>2. Document(db') = Document(db)
  BY <1>1, SameDocument DEF TypeInv
<1>3. \A j \in Points : Docs(j)' = Docs(j)
  BY <1>2 DEF Docs
<1>4. Positions' = Positions /\ Points' = Points
  BY DEF Positions, Points
<1>5. ShapeInv'
  BY <1>1 DEF ShapeInv, Shaped
<1>6. FitInv'
  BY <1>1, FitPrime
<1>7. \A i \in Positions : i \in Points /\ i + 1 \in Points /\ stack'[i] = stack[i]
  BY <1>1, Sequences DEF Positions, Points
<1>8. HistoryInv'
  <2>1. Len(past') = done' /\ Len(future') = Len(stack') - done'
    BY <1>1 DEF HistoryInv
  <2>2. \A j \in Points' : DocOK(Docs(j)')
    BY <1>1, <1>3, <1>4 DEF HistoryInv
  <2>3. ASSUME NEW i \in Positions'
        PROVE  Step(stack[i], Docs(i), Docs(i + 1))'
    <3>1. /\ i \in Positions /\ Docs(i)' = Docs(i) /\ Docs(i + 1)' = Docs(i + 1)
          /\ stack'[i] = stack[i]
      BY <1>3, <1>4, <1>7
    <3>2. PICK c, D, E : c = stack[i] /\ D = Docs(i) /\ E = Docs(i + 1)
      OBVIOUS
    <3>3. Step(c, D, E)
      BY <1>1, <3>1, <3>2 DEF HistoryInv
    <3>4. Step(c, D, E)'
      BY <3>3 DEF Step, MoveStep, DeleteStep, AddStep, ChangeStep, Shaped, SetDummy, TakeRef
    <3>5. QED
      BY <3>1, <3>2, <3>4
  <2>4. QED
    BY <2>1, <2>2, <2>3 DEF HistoryInv, DocOK
<1>9. AwayInv'
  <2>1. ASSUME NEW i \in Positions, NEW j, j \in 1..i \/ j \in (i + 1)..(Len(stack) + 1)
        PROVE  Docs(j)' = Docs(j)
    <3>1. j \in Points
      BY <1>1, <2>1, Sequences DEF Positions, Points
    <3>2. QED
      BY <1>3, <3>1
  <2>2. QED
    BY <1>1, <1>3, <1>4, <1>7, <2>1 DEF AwayInv
<1>10. UnbornInv'
  BY <1>1, <1>3, <1>4 DEF UnbornInv, Keeps
<1>11. WentInv'
  <2>1. \A j \in Points : \A i \in 1..j : i \in Points
    BY <1>1, Sequences DEF Points
  <2>2. QED
    BY <1>1, <1>3, <1>4, <2>1 DEF WentInv, Keeps
<1>12. QED
  BY <1>2, <1>5, <1>6, <1>8, <1>9, <1>10, <1>11

\* the clipboard counts what it holds
LEMMA CopyKeeps ==
  ASSUME Inv, NEW x \in Hosts, Copy(x)
  PROVE  Inv' /\ Document(db') = Document(db)
<1> DEFINE a == Count(db, {clip}, -1)
           e == Count(a, {x}, 1)
<1>1. /\ Usable(db) /\ db.place[x] \in InTree /\ db' = e /\ clip' = x
      /\ stack' = stack /\ done' = done /\ dummies' = dummies /\ uncounted' = uncounted
      /\ past' = past /\ future' = future
  BY DEF Copy
<1>2. TypeInv /\ db \in Databases /\ x \in Objects /\ CountsCoverUses /\ FreedIsUnused
  BY Apart DEF Inv, TypeInv
<1>3. /\ a \in Databases /\ a.place = db.place /\ a.refs = db.refs /\ a.freed = db.freed
      /\ \A y \in Objects : a.rc[y] = IF y \in {clip} THEN db.rc[y] + (-1) ELSE db.rc[y]
  BY <1>2, CountFields
<1> HIDE DEF a
<1>4. /\ e \in Databases /\ e.place = a.place /\ e.refs = a.refs /\ e.freed = a.freed
      /\ \A y \in Objects : e.rc[y] = IF y \in {x} THEN a.rc[y] + 1 ELSE a.rc[y]
  BY <1>3, CountFields
<1> HIDE DEF e
<1>5. /\ db' \in Databases /\ db'.place = db.place /\ db'.refs = db.refs /\ db'.freed = db.freed
  BY <1>1, <1>3, <1>4
<1>6. /\ Document(db') = Document(db)
      /\ ShapeInv' /\ FitInv' /\ HistoryInv' /\ AwayInv' /\ UnbornInv' /\ WentInv'
  BY <1>1, <1>5, AsideKeeps
<1>7. TypeInv'
  <2>1. /\ db'.place \in [Objects -> Places] /\ db'.rc \in [Objects -> Int]
        /\ db'.freed \subseteq Objects
    BY <1>5, DatabaseFields
  <2>2. QED
    BY <1>1, <1>2, <1>5, <2>1 DEF TypeInv, TypeOK, Places
<1>8. CountsCoverUses'
  <2>1. ASSUME NEW y \in Objects, y \notin db'.freed
        PROVE  db'.rc[y] + uncounted'[y] >= Uses(y)'
    <3> DEFINE b == IF clip = y THEN 1 ELSE 0
               n == IF x = y THEN 1 ELSE 0
               K == Keepers(DOMAIN stack, y)
    <3>1. db.rc[y] + uncounted[y] >= Weight(db, y) + K + b
      BY <1>2, <1>5, <2>1, UsesIs DEF CountsCoverUses
    <3>2. /\ Weight(db', y) = Weight(db, y) /\ Weight(db, y) \in Nat
      BY <1>5, HoldingFinite DEF Weight, Holding
    <3>3. Uses(y)' = Weight(db', y) + K + n
      BY <1>1, UsesIs DEF Keepers
    <3>4. a.rc[y] = db.rc[y] - b
      BY <1>2, <1>3, DatabaseFields
    <3>5. db'.rc[y] = a.rc[y] + n
      BY <1>1, <1>3, <1>4, DatabaseFields
    <3>6. /\ db.rc[y] \in Int /\ uncounted[y] \in Nat /\ b \in Nat /\ n \in Nat
      BY <1>2, DatabaseFields DEF TypeInv, TypeOK
    <3>7. K \in Nat
      <4>1. IsFiniteSet(DOMAIN stack)
        BY <1>2, KeepersSplit DEF TypeInv, TypeOK
      <4>2. QED
        BY <4>1, KeepersAreNat
    <3> HIDE DEF b, n, K
    <3>8. QED
      BY <1>1, <3>1, <3>2, <3>3, <3>4, <3>5, <3>6, <3>7
  <2>2. QED
    BY <2>1 DEF CountsCoverUses
<1>9. FreedIsUnused'
  <2>1. x \notin db.freed
    BY <1>1 DEF Usable
  <2>2. QED
    BY <1>1, <1>2, <1>5, <2>1 DEF FreedIsUnused
<1>10. QED
  BY <1>6, <1>7, <1>8, <1>9 DEF Inv

LEMMA StutterKeeps ==
  ASSUME Inv, UNCHANGED vars
  PROVE  Inv' /\ Document(db') = Document(db)
<1>1. /\ db' = db /\ stack' = stack /\ done' = done /\ clip' = clip /\ dummies' = dummies
      /\ uncounted' = uncounted /\ past' = past /\ future' = future
  BY DEF vars
<1>2. /\ TypeInv /\ db \in Databases /\ CountsCoverUses /\ FreedIsUnused
  BY DEF Inv, TypeInv
<1>3. /\ Document(db') = Document(db)
      /\ ShapeInv' /\ FitInv' /\ HistoryInv' /\ AwayInv' /\ UnbornInv' /\ WentInv'
  BY <1>1, <1>2, AsideKeeps
<1>4. TypeInv'
  BY <1>1, <1>2 DEF TypeInv, TypeOK
<1>5. CountsCoverUses' /\ FreedIsUnused'
  BY <1>1, <1>2 DEF CountsCoverUses, FreedIsUnused, Uses, Keepers, Keeps
<1>6. QED
  BY <1>3, <1>4, <1>5 DEF Inv

-----------------------------------------------------------------------------
(* A loaded file.                                                           *)

LEMMA InitDatabase ==
  ASSUME Init
  PROVE  /\ Proper(db) /\ db.freed = {} /\ \A x \in Objects : db.place[x] \in {"library", "unborn"}
         /\ \A x \in Objects : db.rc[x] >= Weight(db, x)
<1>1. PICK place \in [Objects -> {"library"}], groups \in [Groups -> SUBSET Hosts],
           rules \in [Rules -> {{AnyObject}} \cup ((SUBSET Objects) \ {{}})] :
        LET refs == [h \in Holders |-> IF h \in Rules THEN rules[h] ELSE groups[h]]
            living == Objects \ FreshGroups
        IN  /\ \A g \in FreshGroups : groups[g] = {}
            /\ \A h \in Holders : refs[h] \subseteq living \cup {AnyObject}
            /\ db = [place |-> [x \in Objects |-> IF x \in living THEN place[x] ELSE "unborn"],
                     refs  |-> refs,
                     rc    |-> [x \in Objects |-> IF x \in living
                                 THEN 1 + Cardinality({h \in Holders : x \in refs[h]})
                                 ELSE 0],
                     freed |-> {}]
  BY DEF Init
<1> DEFINE refs == [h \in Holders |-> IF h \in Rules THEN rules[h] ELSE groups[h]]
           living == Objects \ FreshGroups
           where == [x \in Objects |-> IF x \in living THEN place[x] ELSE "unborn"]
           rc == [x \in Objects |-> IF x \in living
                                    THEN 1 + Cardinality({h \in Holders : x \in refs[h]})
                                    ELSE 0]
<1>2. /\ db = [place |-> where, refs |-> refs, rc |-> rc, freed |-> {}]
      /\ \A h \in Holders : refs[h] \subseteq living \cup {AnyObject}
  BY <1>1
<1>3. /\ \A r \in Rules : refs[r] = rules[r] /\ refs[r] \subseteq Members /\ Shaped(refs[r])
      /\ \A g \in Groups : refs[g] = groups[g] /\ refs[g] \subseteq Hosts /\ refs[g] \subseteq Members
  <2>1. ASSUME NEW r \in Rules
        PROVE  refs[r] = rules[r] /\ refs[r] \subseteq Members /\ Shaped(refs[r])
    <3>1. refs[r] = rules[r]
      BY Apart
    <3>2. rules[r] = {AnyObject} \/ (rules[r] \subseteq Objects /\ rules[r] # {})
      <4> HIDE DEF refs, living, where, rc
      <4>1. rules[r] \in {{AnyObject}} \cup ((SUBSET Objects) \ {{}})
        OBVIOUS
      <4>2. QED
        BY <4>1
    <3>3. AnyObject \notin Objects /\ DummyObject \notin Objects /\ AnyObject # DummyObject
      BY Apart
    <3> HIDE DEF refs
    <3>4. QED
      BY <3>1, <3>2, <3>3 DEF Shaped, Members
  <2>2. ASSUME NEW g \in Groups
        PROVE  refs[g] = groups[g] /\ refs[g] \subseteq Hosts /\ refs[g] \subseteq Members
    <3>1. refs[g] = groups[g]
      BY Apart
    <3> HIDE DEF refs
    <3>2. QED
      BY <3>1 DEF Members, Objects
  <2>3. QED
    BY <2>1, <2>2
<1>4. refs \in [Holders -> SUBSET Members]
  <2>1. \A h \in Holders : refs[h] \in SUBSET Members
    BY <1>3 DEF Holders
  <2>2. QED
    BY <2>1
<1>5. \A x : /\ IsFiniteSet({h \in Holders : x \in refs[h]})
             /\ Cardinality({h \in Holders : x \in refs[h]}) \in Nat
  <2>1. \A x : {h \in Holders : x \in refs[h]} \in SUBSET Holders
    OBVIOUS
  <2>2. QED
    BY <2>1, FiniteHolders
<1>6. where \in [Objects -> Places] /\ \A x \in Objects : where[x] \in {"library", "unborn"}
  BY DEF Places
<1>7. rc \in [Objects -> Int]
  <2>1. \A x \in Objects : rc[x] \in Int
    <3> DEFINE n(x) == Cardinality({h \in Holders : x \in refs[h]})
    <3>1. \A x \in Objects : n(x) \in Nat
      BY <1>5
    <3>2. \A x \in Objects : rc[x] = IF x \in living THEN 1 + n(x) ELSE 0
      OBVIOUS
    <3> HIDE DEF refs, rc, living, n
    <3>3. QED
      BY <3>1, <3>2
  <2>2. QED
    BY <2>1
<1>8. \A x \in Objects : x \notin living => rc[x] = 0 /\ where[x] = "unborn"
                                            /\ {h \in Holders : x \in refs[h]} = {}
  <2>1. \A x \in Objects : x \notin living => rc[x] = 0 /\ where[x] = "unborn"
    OBVIOUS
  <2>2. ASSUME NEW x \in Objects, x \notin living
        PROVE  {h \in Holders : x \in refs[h]} = {}
    <3>1. x # AnyObject
      BY Apart
    <3> HIDE DEF refs, living
    <3>2. QED
      BY <1>2, <2>2, <3>1
  <2>3. QED
    BY <2>1, <2>2
<1>9. \A x \in Objects : x \in living => rc[x] = 1 + Cardinality({h \in Holders : x \in refs[h]})
  OBVIOUS
<1> HIDE DEF refs, where, rc, living
<1>10. /\ db.place = where /\ db.refs = refs /\ db.rc = rc /\ db.freed = {} /\ db \in Databases
  BY <1>2, <1>4, <1>6, <1>7 DEF Databases
<1>11. Proper(db)
  BY <1>3, <1>10 DEF Proper
<1>12. ASSUME NEW x \in Objects
       PROVE  db.rc[x] >= Weight(db, x)
  <2> DEFINE S == {h \in Holders : x \in refs[h]}
  <2>1. Holding(db, x) = S
    BY <1>10 DEF Holding
  <2>2. Cardinality(S) \in Nat
    BY <1>5
  <2>3. CASE x \in living
    <3>1. rc[x] = 1 + Cardinality(S)
      BY <1>9, <2>3
    <3> HIDE DEF S
    <3>2. QED
      BY <1>10, <2>1, <2>2, <3>1 DEF Weight
  <2>4. CASE x \notin living
    <3>1. rc[x] = 0 /\ where[x] = "unborn" /\ S = {}
      BY <1>8, <2>4
    <3>2. Cardinality(S) = 0
      BY <3>1, FS_EmptySet
    <3> HIDE DEF S
    <3>3. QED
      BY <1>10, <2>1, <3>1, <3>2 DEF Weight, InTree
  <2>5. QED
    BY <2>3, <2>4
<1>13. QED
  BY <1>6, <1>10, <1>11, <1>12

LEMMA InitHolds ==
  ASSUME Init
  PROVE  Inv
<1>1. /\ stack = <<>> /\ done = 0 /\ clip = NoObject /\ dummies \in BOOLEAN
      /\ uncounted = [x \in Objects |-> 0] /\ past = <<>> /\ future = <<>>
  BY DEF Init
<1>2. /\ Proper(db) /\ db \in Databases /\ db.freed = {}
      /\ \A x \in Objects : db.place[x] \in {"library", "unborn"}
      /\ \A x \in Objects : db.rc[x] >= Weight(db, x)
  BY InitDatabase DEF Proper
<1>3. Len(stack) = 0 /\ DOMAIN stack = {} /\ stack \in Seq(Commands)
      /\ Len(past) = 0 /\ Len(future) = 0 /\ past \in Seq(Documents) /\ future \in Seq(Documents)
  BY <1>1
<1>4. Positions = {} /\ Points = {1}
  BY <1>3 DEF Positions, Points
<1>5. Docs(1) = Document(db)
  BY <1>1 DEF Docs
<1>6. TypeInv
  <2>1. /\ db.place \in [Objects -> {"unborn", "library", "deleted", "nowhere"}]
        /\ db.rc \in [Objects -> Int] /\ db.freed \subseteq Objects
    BY <1>2, DatabaseFields DEF Places
  <2>2. /\ \A g \in Groups : db.refs[g] \subseteq Hosts
        /\ \A r \in Rules : db.refs[r] \subseteq Objects \cup {AnyObject, DummyObject}
    BY <1>2, DatabaseFields, Apart DEF Proper, Members
  <2>3. done \in 0..Len(stack) /\ uncounted \in [Objects -> Nat]
    BY <1>1, <1>3
  <2>4. QED
    BY <1>1, <1>2, <1>3, <2>1, <2>2, <2>3 DEF TypeInv, TypeOK
<1>7. ShapeInv /\ FitInv
  BY <1>2, <1>3 DEF ShapeInv, FitInv, Proper
<1>8. HistoryInv
  <2>1. DocOK(Document(db))
    BY <1>2, DocumentFields
  <2>2. QED
    BY <1>1, <1>3, <1>4, <1>5, <2>1 DEF HistoryInv
<1>9. AwayInv /\ UnbornInv
  <2>1. \A x \in Objects : db.place[x] = "unborn" => Document(db).place[x] = "nowhere"
    BY <1>2, Shown DEF InTree
  <2>2. QED
    BY <1>2, <1>4, <1>5, <2>1 DEF AwayInv, UnbornInv
<1>10. WentInv
  <2>1. \A j \in Points : j = 1 /\ \A i \in 1..j : i = 1
    BY <1>4
  <2>2. QED
    BY <2>1 DEF WentInv
<1>11. CountsCoverUses
  <2>1. ASSUME NEW x \in Objects
        PROVE  db.rc[x] + uncounted[x] >= Uses(x)
    <3>1. Keepers(DOMAIN stack, x) = 0
      BY <1>3, FS_EmptySet, KeepersAreNat
    <3>2. Uses(x) = Weight(db, x)
      <4>1. Uses(x) = Weight(db, x) + Keepers(DOMAIN stack, x) + (IF clip = x THEN 1 ELSE 0)
        BY UsesIs
      <4>2. clip # x /\ Weight(db, x) \in Nat
        BY <1>1, Apart, HoldingFinite
      <4>3. QED
        BY <3>1, <4>1, <4>2
    <3>3. db.rc[x] \in Int /\ Weight(db, x) \in Nat /\ uncounted[x] = 0
      BY <1>1, <1>2, DatabaseFields, HoldingFinite
    <3>4. QED
      BY <1>2, <3>2, <3>3
  <2>2. QED
    BY <2>1 DEF CountsCoverUses
<1>12. FreedIsUnused
  BY <1>2 DEF FreedIsUnused
<1>13. QED
  BY <1>6, <1>7, <1>8, <1>9, <1>10, <1>11, <1>12 DEF Inv

-----------------------------------------------------------------------------
(* Every step keeps the invariant and is one the abstract undo stack allows. *)

LEMMA StepPushes ==
  ASSUME Inv, NEW x \in Objects, DeleteObject(x) \/ DeleteForever(x) \/ Undelete(x)
  PROVE  Pushes
BY DeleteObjectPushes, DeleteForeverPushes, UndeletePushes DEF Pushes

LEMMA NextIs ==
  ASSUME Inv, [Next]_vars
  PROVE  \/ Pushes \/ Undo \/ Redo \/ UNCHANGED vars
         \/ \E x \in Hosts : Copy(x)
<1>1. CASE \E x \in Objects : DeleteObject(x) \/ DeleteForever(x) \/ Undelete(x)
  BY <1>1, StepPushes
<1>2. CASE \E g \in Groups : NewGroup(g) \/ PasteInTree(g)
  <2>1. PICK g \in Groups : NewGroup(g) \/ PasteInTree(g)
    BY <1>2
  <2>2. CASE NewGroup(g)
    BY <2>2, GroupsPush
  <2>3. CASE PasteInTree(g)
    <3>1. g \in Holders /\ g \in Members
      BY Apart DEF Members
    <3>2. QED
      BY <2>3, <3>1, EditsPush
  <2>4. QED
    BY <2>1, <2>2, <2>3
<1>3. CASE \E g, copy \in Groups : Duplicate(g, copy)
  BY <1>3, GroupsPush
<1>4. CASE \E h \in Holders, x \in Objects : InsertObject(h, x)
  <2>1. PICK h \in Holders, x \in Objects : InsertObject(h, x)
    BY <1>4
  <2>2. x \in Members
    BY DEF Members
  <2>3. QED
    BY <2>1, <2>2, EditsPush
<1>5. CASE \E h \in Holders, x \in Objects \cup {AnyObject, DummyObject} : RemoveObject(h, x)
  <2>1. PICK h \in Holders, x \in Members : RemoveObject(h, x)
    BY <1>5 DEF Members
  <2>2. QED
    BY <2>1, EditsPush
<1>6. CASE \E r \in Rules, x \in Objects \cup {DummyObject} : ConvertToAny(r, x)
  <2>1. PICK r \in Rules, x \in Objects \cup {DummyObject} : ConvertToAny(r, x)
    BY <1>6
  <2>2. x \in Members /\ r \in Holders
    BY Apart DEF Members
  <2>3. QED
    BY <2>1, <2>2, EditsPush
<1>7. QED
  BY <1>1, <1>2, <1>3, <1>4, <1>5, <1>6 DEF Next

LEMMA StepKeeps ==
  ASSUME Inv, [Next]_vars
  PROVE  Inv' /\ [History!Next]_<<Document(db), past, future>>
<1>1. CASE Pushes
  <2>1. PICK c, e : Pushed(c, e)
    BY <1>1 DEF Pushes
  <2>2. Inv' /\ Document(db') \in Documents
    BY <2>1, PushKeeps
  <2>3. past' = Append(past, Document(db)) /\ future' = <<>>
    BY <2>1 DEF Pushed
  <2>4. QED
    BY <2>2, <2>3 DEF History!Next, History!Edit
<1>2. CASE Undo
  <2>1. Inv' /\ Document(db') = past[done] /\ past # <<>> /\ Len(past) = done
    BY <1>2, UndoKeeps
  <2>2. past' = Front(past) /\ future' = <<Document(db)>> \o future
    BY <1>2 DEF Undo
  <2>3. Document(db') = Last(past)
    BY <2>1 DEF Last
  <2>4. QED
    BY <2>1, <2>2, <2>3 DEF History!Next, History!Undo, Front, History!Front, History!Last, Last
<1>3. CASE Redo
  <2>1. Inv' /\ Document(db') = future[1] /\ future # <<>>
    BY <1>3, RedoKeeps
  <2>2. past' = Append(past, Document(db)) /\ future' = Tail(future)
    BY <1>3 DEF Redo
  <2>3. QED
    BY <2>1, <2>2 DEF History!Next, History!Redo
<1>4. CASE \E x \in Hosts : Copy(x)
  <2>1. PICK x \in Hosts : Copy(x)
    BY <1>4
  <2>2. Inv' /\ Document(db') = Document(db)
    BY <2>1, CopyKeeps
  <2>3. past' = past /\ future' = future
    BY <2>1 DEF Copy
  <2>4. QED
    BY <2>2, <2>3
<1>5. CASE UNCHANGED vars
  <2>1. Inv' /\ Document(db') = Document(db)
    BY <1>5, StutterKeeps
  <2>2. past' = past /\ future' = future
    BY <1>5 DEF vars
  <2>3. QED
    BY <2>1, <2>2
<1>6. QED
  BY <1>1, <1>2, <1>3, <1>4, <1>5, NextIs

\* The documents on both sides of every command on the stack are the ones it takes to
\* each other, and the counters and the freed objects agree with the whole stack.
THEOREM StackInvariant == Spec => []Inv
<1>1. Init => Inv
  BY InitHolds
<1>2. Inv /\ [Next]_vars => Inv'
  BY StepKeeps
<1>3. QED
  BY <1>1, <1>2, PTL DEF Spec

\* The database, the stack and the histories are well typed, and groups hold hosts only.
THEOREM DeletionTyped == Spec => []TypeOK
<1>1. Inv => TypeOK
  BY DEF Inv, TypeInv
<1>2. QED
  BY <1>1, StackInvariant, PTL

\* A rule element is never empty, and Any or Dummy is never beside a member, after any
\* sequence of deletions, edits, undo and redo (RuleElement with FWCmdMoveObject).
THEOREM ElementsKeepShape == Spec => []RuleElementShape
<1>1. Inv => RuleElementShape
  <2> SUFFICES ASSUME Inv, NEW r \in Rules
               PROVE  /\ db.refs[r] # {}
                      /\ db.refs[r] \cap {AnyObject, DummyObject} # {}
                           => Cardinality(db.refs[r]) = 1
    BY DEF RuleElementShape
  <2>1. Shaped(db.refs[r])
    BY DEF Inv, ShapeInv
  <2>2. ASSUME db.refs[r] \cap {AnyObject, DummyObject} # {}
        PROVE  Cardinality(db.refs[r]) = 1
    <3>1. db.refs[r] = {AnyObject} \/ db.refs[r] = {DummyObject}
      BY <2>1, <2>2 DEF Shaped
    <3>2. QED
      BY <3>1, FS_Singleton
  <2>3. QED
    BY <2>1, <2>2 DEF Shaped
<1>2. QED
  BY <1>1, StackInvariant, PTL

\* The reference counter of an object never falls below the number of places that refer
\* to it or keep it, but for what copies of groups did not count.
THEOREM CountersCover == Spec => []CountsCoverUses
<1>1. Inv => CountsCoverUses
  BY DEF Inv
<1>2. QED
  BY <1>1, StackInvariant, PTL

\* The destructors of discarded commands free no object that the tree, the clipboard or a
\* command that can be undone or redone still has, unless it was in a duplicated group.
THEOREM FreedNotUsed == Spec => []FreedIsUnused
<1>1. Inv => FreedIsUnused
  BY DEF Inv
<1>2. QED
  BY <1>1, StackInvariant, PTL

\* Undo gives back exactly the document there was before the command, and redo the one
\* after it, over any sequence of the program's commands: it implements EditHistory.
THEOREM UndoStackRestores == Spec => UndoRestores
<1>1. Init => History!Init
  <2> SUFFICES ASSUME Init PROVE History!Init
    OBVIOUS
  <2>1. Document(db) \in Documents
    BY InitDatabase, DocumentFields DEF Proper, DocOK
  <2>2. QED
    BY <2>1 DEF Init, History!Init
<1>2. Inv /\ [Next]_vars => [History!Next]_<<Document(db), past, future>>
  BY StepKeeps
<1>3. QED
  BY <1>1, <1>2, StackInvariant, PTL DEF Spec, UndoRestores, History!Spec

-----------------------------------------------------------------------------
(* Which steps leave a reference to what is not in the libraries.           *)

LEMMA PushedDatabase ==
  ASSUME Inv, NEW c, NEW e, Pushed(c, e)
  PROVE  db'.place = e.place /\ db'.refs = e.refs /\ db \in Databases
BY PushFields DEF Inv, TypeInv

\* Without Undo, Redo and the paste, a stray reference was there before, in the same
\* holder or in the one it is a copy of, or its holder has come back.
LEMMA MovedStrays ==
  ASSUME Inv, NEW y \in Objects, DeleteObject(y) \/ Undelete(y),
         NEW h \in Holders, NEW x \in Objects, Stray(db', h, x)
  PROVE  Stray(db, h, x) \/ (Undelete(y) /\ h = y)
<1>1. CASE DeleteObject(y)
  <2> DEFINE hs == ReferenceHolders(db, y)
             c == Move(y, "deleted", hs)
  <2>1. Pushed(c, MoveRedo(c, db)) /\ db.place[y] = "library"
    BY <1>1, DeleteObjectPushes DEF DeleteObject
  <2>2. hs \subseteq Holders
    BY DEF ReferenceHolders
  <2>3. y \in db.refs[h] /\ (h \in Groups => db.place[h] = "library") => h \in hs
    BY DEF ReferenceHolders
  <2> HIDE DEF hs
  <2>4. c.obj = y /\ c.to = "deleted" /\ c.holders = hs
    BY DEF Move
  <2> HIDE DEF c
  <2>5. /\ db'.place = MoveRedo(c, db).place /\ db'.refs = MoveRedo(c, db).refs
        /\ db \in Databases
    BY <2>1, PushedDatabase
  <2>6. /\ MoveRedo(c, db).place = [db.place EXCEPT ![y] = "deleted"]
        /\ MoveRedo(c, db).refs = [k \in Holders |-> IF k \in hs
                                                     THEN SetDummy(k, TakeRef(k, db.refs[k], y))
                                                     ELSE db.refs[k]]
    BY <2>2, <2>4, <2>5, MoveRedoFields DEF InTree
  <2>7. /\ db'.refs[h] = IF h \in hs THEN SetDummy(h, TakeRef(h, db.refs[h], y)) ELSE db.refs[h]
        /\ \A z \in Objects : db'.place[z] = IF z = y THEN "deleted" ELSE db.place[z]
    BY <2>5, <2>6, DatabaseFields
  <2>8. h \in Groups => h # y /\ db.place[h] = "library"
    BY <2>7, Apart DEF Stray
  <2>9. x \in db.refs[h] /\ x # y
    <3>1. x # AnyObject /\ x # DummyObject /\ x \in db'.refs[h]
      BY Apart DEF Stray
    <3>2. QED
      BY <2>3, <2>7, <2>8, <3>1 DEF SetDummy, TakeRef
  <2>10. db.place[x] # "library"
    BY <2>7, <2>9 DEF Stray
  <2>11. QED
    BY <2>8, <2>9, <2>10 DEF Stray
<1>2. CASE Undelete(y) /\ h # y
  <2> DEFINE c == Move(y, "library", {})
  <2>1. Pushed(c, MoveRedo(c, db))
    BY <1>2, UndeletePushes
  <2>2. c.obj = y /\ c.to = "library" /\ c.holders = {}
    BY DEF Move
  <2> HIDE DEF c
  <2>3. /\ db'.place = MoveRedo(c, db).place /\ db'.refs = MoveRedo(c, db).refs
        /\ db \in Databases
    BY <2>1, PushedDatabase
  <2>4. /\ MoveRedo(c, db).place = [db.place EXCEPT ![y] = "library"]
        /\ MoveRedo(c, db).refs = [k \in Holders |-> IF k \in {}
                                                     THEN SetDummy(k, TakeRef(k, db.refs[k], y))
                                                     ELSE db.refs[k]]
    BY <2>2, <2>3, MoveRedoFields DEF InTree
  <2>5. /\ db'.refs[h] = db.refs[h]
        /\ \A z \in Objects : db'.place[z] = IF z = y THEN "library" ELSE db.place[z]
    BY <2>3, <2>4, DatabaseFields
  <2>6. QED
    BY <1>2, <2>5, Apart DEF Stray
<1>3. QED
  BY <1>1, <1>2

LEMMA GoneStrays ==
  ASSUME Inv, NEW y \in Objects, DeleteForever(y),
         NEW h \in Holders, NEW x \in Objects, Stray(db', h, x)
  PROVE  Stray(db, h, x)
<1> DEFINE c == Delete(y)
           d == NewDelete(y)
<1>1. Pushed(c, TakeOut(c, d)) /\ db.place[y] = "deleted"
  BY DeleteForeverPushes DEF DeleteForever
<1>2. c.obj = y
  BY DEF Delete
<1> HIDE DEF c
<1>3. /\ db'.place = TakeOut(c, d).place /\ db'.refs = TakeOut(c, d).refs /\ db \in Databases
  BY <1>1, PushedDatabase
<1>4. d \in Databases /\ d.place = db.place /\ d.refs = db.refs
  BY <1>3, NewDeleteFields
<1> HIDE DEF d
<1>5. TakeOut(c, d).place = [d.place EXCEPT ![y] = "nowhere"] /\ TakeOut(c, d).refs = d.refs
  BY <1>2, <1>4, TakeOutFields
<1>6. /\ db'.refs = db.refs
      /\ \A z \in Objects : db'.place[z] = IF z = y THEN "nowhere" ELSE db.place[z]
  BY <1>3, <1>4, <1>5, DatabaseFields
<1>7. QED
  BY <1>1, <1>6, Apart DEF Stray

LEMMA EditedDatabase ==
  ASSUME Inv, NEW h \in Holders, NEW m \in SUBSET Members, Edit(h, m),
         h \in Rules => Shaped(m), h \in Groups => m \subseteq Hosts
  PROVE  /\ db'.place = db.place
         /\ \A k \in Holders : db'.refs[k] = IF k = h THEN m ELSE db.refs[k]
<1> DEFINE d == NewChange(h, m)
           e == Restore(h, m, d)
<1>1. db'.place = e.place /\ db'.refs = e.refs /\ db \in Databases
  BY EditPushes, PushedDatabase
<1>2. d \in Databases /\ d.place = db.place /\ d.refs = db.refs
  BY <1>1, NewChangeFields
<1> HIDE DEF d
<1>3. e.place = d.place /\ e.refs = [d.refs EXCEPT ![h] = m]
  BY <1>2, RestoreFields
<1>4. QED
  BY <1>1, <1>2, <1>3, DatabaseFields

LEMMA EditedStrays ==
  ASSUME Inv, NEW k \in Holders, NEW y \in Members,
         \/ InsertObject(k, y) /\ y \in Objects
         \/ RemoveObject(k, y)
         \/ ConvertToAny(k, y) /\ k \in Rules
         \/ PasteInTree(k) /\ k \in Groups,
         NEW h \in Holders, NEW x \in Objects, Stray(db', h, x)
  PROVE  Stray(db, h, x) \/ (PasteInTree(k) /\ h = k)
<1>1. ASSUME NEW m, Edit(k, m), m \subseteq Members, k \in Rules => Shaped(m),
             k \in Groups => m \subseteq Hosts,
             h = k => (x \in m => x \in db.refs[k] \/ db.place[x] = "library")
      PROVE  Stray(db, h, x)
  <2>1. /\ db'.place = db.place
        /\ \A i \in Holders : db'.refs[i] = IF i = k THEN m ELSE db.refs[i]
    BY <1>1, EditedDatabase
  <2>2. QED
    BY <1>1, <2>1 DEF Stray
<1>2. x # AnyObject /\ x # DummyObject
  BY Apart
<1>3. CASE InsertObject(k, y) /\ y \in Objects
  <2> DEFINE m == AddRef(k, db.refs[k], y) \ {DummyObject}
  <2>1. Edit(k, m) /\ db.place[y] = "library"
    BY <1>3 DEF InsertObject
  <2>2. m \subseteq Members /\ (k \in Rules => Shaped(m)) /\ (k \in Groups => m \subseteq Hosts)
    BY <1>3, Edited
  <2>3. x \in m => x \in db.refs[k] \/ db.place[x] = "library"
    BY <2>1 DEF AddRef
  <2> HIDE DEF m
  <2>4. QED
    BY <1>1, <2>1, <2>2, <2>3
<1>4. CASE RemoveObject(k, y)
  <2> DEFINE m == SetDummy(k, TakeRef(k, db.refs[k], y))
  <2>1. Edit(k, m)
    BY <1>4 DEF RemoveObject
  <2>2. m \subseteq Members /\ (k \in Rules => Shaped(m)) /\ (k \in Groups => m \subseteq Hosts)
    BY <1>4, Edited
  <2>3. x \in m => x \in db.refs[k]
    BY <1>2 DEF SetDummy, TakeRef
  <2> HIDE DEF m
  <2>4. QED
    BY <1>1, <2>1, <2>2, <2>3
<1>5. CASE ConvertToAny(k, y) /\ k \in Rules
  <2> DEFINE m == TakeRef(k, db.refs[k], y)
  <2>1. Edit(k, m)
    BY <1>5 DEF ConvertToAny
  <2>2. m \subseteq Members /\ Shaped(m) /\ k \notin Groups
    BY <1>5, Edited, Apart
  <2>3. x \in m => x \in db.refs[k]
    BY <1>2 DEF TakeRef
  <2> HIDE DEF m
  <2>4. QED
    BY <1>1, <2>1, <2>2, <2>3
<1>6. CASE PasteInTree(k) /\ k \in Groups /\ h # k
  <2> DEFINE m == AddRef(k, db.refs[k], clip)
  <2>1. Edit(k, m) /\ k \notin Rules
    BY <1>6, Apart DEF PasteInTree
  <2>2. m \subseteq Hosts
    BY <1>6, Edited
  <2>3. m \subseteq Members
    BY <2>2 DEF Members, Objects
  <2> HIDE DEF m
  <2>4. QED
    BY <1>1, <1>6, <2>1, <2>2, <2>3
<1>7. QED
  BY <1>3, <1>4, <1>5, <1>6

LEMMA MadeStrays ==
  ASSUME Inv, NEW g \in Groups, NEW copy \in Groups, NewGroup(copy) \/ Duplicate(g, copy),
         NEW h \in Holders, NEW x \in Objects, Stray(db', h, x)
  PROVE  Stray(db, h, x) \/ (Duplicate(g, copy) /\ h = copy /\ Stray(db, g, x))
<1>1. PICK m \in SUBSET Hosts : m = IF NewGroup(copy) THEN {} ELSE db.refs[g]
  BY DEF Inv, TypeInv, TypeOK
<1> DEFINE d == Count([db EXCEPT !.refs[copy] = m], {copy}, 1)
           c == Add(copy)
<1>2. TypeInv /\ db \in Databases /\ uncounted \in [Objects -> Nat]
  BY DEF Inv, TypeInv, TypeOK
<1>3. /\ db.place[copy] = "unborn" /\ Push(c, d) /\ clip' = clip
      /\ NewGroup(copy) => uncounted' = uncounted
      /\ ~NewGroup(copy) =>
           uncounted' = [z \in Objects |-> uncounted[z] + IF z \in db.refs[g] THEN 1 ELSE 0]
  BY <1>1 DEF NewGroup, Duplicate
<1>4. /\ uncounted' \in [Objects -> Nat]
      /\ \A z \in Objects : uncounted'[z] >= uncounted[z] + IF z \in m THEN 1 ELSE 0
  <2>1. \A z \in Objects : uncounted[z] \in Nat
    BY <1>2
  <2>2. CASE NewGroup(copy)
    BY <1>1, <1>2, <1>3, <2>1, <2>2
  <2>3. CASE ~NewGroup(copy)
    BY <1>1, <1>3, <2>1, <2>3
  <2>4. QED
    BY <2>2, <2>3
<1> HIDE DEF c
<1>5. Pushed(c, PutBack(c, d, "library"))
  <2> HIDE DEF d
  <2>1. d = Count([db EXCEPT !.refs[copy] = m], {copy}, 1)
    BY DEF d
  <2>2. QED
    BY <1>3, <1>4, <2>1, GroupPushes DEF c
<1>6. db'.place = PutBack(c, d, "library").place /\ db'.refs = PutBack(c, d, "library").refs
  BY <1>5, PushedDatabase
<1>7. d \in Databases /\ d.place = db.place /\ d.refs = [db.refs EXCEPT ![copy] = m]
  <2>1. m \in SUBSET Members
    BY DEF Members, Objects
  <2>2. QED
    BY <1>2, <2>1, NewGroupFields
<1> HIDE DEF d
<1>8. /\ PutBack(c, d, "library").place = [d.place EXCEPT ![copy] = "library"]
      /\ PutBack(c, d, "library").refs = d.refs
  <2>1. c.obj = copy /\ copy \in Objects /\ "library" \in Places
    BY Apart DEF c, Add, Places
  <2>2. QED
    BY <1>7, <2>1, PutBackFields
<1>9. /\ \A z \in Objects : db'.place[z] = IF z = copy THEN "library" ELSE db.place[z]
      /\ db'.refs[h] = IF h = copy THEN m ELSE db.refs[h]
  BY <1>2, <1>6, <1>7, <1>8, DatabaseFields
<1>10. x # copy /\ db.place[x] # "library" /\ x \in db'.refs[h]
  BY <1>9 DEF Stray
<1>11. CASE h = copy
  <2>1. x \in m /\ ~NewGroup(copy)
    BY <1>1, <1>9, <1>10, <1>11
  <2>2. Duplicate(g, copy) /\ db.place[g] = "library" /\ x \in db.refs[g]
    BY <1>1, <2>1 DEF Duplicate
  <2>3. QED
    BY <1>10, <1>11, <2>2 DEF Stray
<1>12. CASE h # copy
  BY <1>9, <1>10, <1>12, Apart DEF Stray
<1>13. QED
  BY <1>11, <1>12

\* Deleting an object takes its references out of every group and rule in use: one that
\* is there after a step was there before, or the step is one of those that bring back
\* what had it (FWCmdMoveObject over findAllReferenceHolders).
THEOREM DeletionLeavesNoStrays == Spec => DeletionStrips
<1> DEFINE Allowed(h, x) ==
             \/ Undo \/ Redo \/ PasteInTree(h) \/ Undelete(h)
             \/ \E g \in Groups : Stray(db, g, x) /\ Duplicate(g, h)
           Strips == \A h \in Holders, x \in Objects :
                       Stray(db, h, x)' /\ ~Stray(db, h, x) => Allowed(h, x)
<1>1. Inv /\ [Next]_vars => [Strips]_vars
  <2> SUFFICES ASSUME Inv, Next, NEW h \in Holders, NEW x \in Objects,
                      Stray(db, h, x)', ~Stray(db, h, x)
               PROVE  Allowed(h, x)
    OBVIOUS
  <2>0. Stray(db', h, x)
    BY DEF Stray
  <2>1. CASE \E y \in Objects : DeleteObject(y) \/ DeleteForever(y) \/ Undelete(y)
    BY <2>0, <2>1, MovedStrays, GoneStrays
  <2>2. CASE \E y \in Hosts : Copy(y)
    <3>1. PICK y \in Hosts : Copy(y)
      BY <2>2
    <3>2. db'.place = db.place /\ db'.refs = db.refs
      <4> DEFINE a == Count(db, {clip}, -1)
      <4>1. a \in Databases /\ a.place = db.place /\ a.refs = db.refs
        BY CountFields DEF Inv, TypeInv
      <4>2. db' = Count(a, {y}, 1)
        BY <3>1 DEF Copy
      <4> HIDE DEF a
      <4>3. Count(a, {y}, 1).place = a.place /\ Count(a, {y}, 1).refs = a.refs
        BY <4>1, CountFields
      <4>4. QED
        BY <4>1, <4>2, <4>3
    <3>3. QED
      BY <2>0, <3>2 DEF Stray
  <2>3. CASE \E g \in Groups : NewGroup(g) \/ PasteInTree(g)
    <3>1. PICK g \in Groups : NewGroup(g) \/ PasteInTree(g)
      BY <2>3
    <3>2. g \in Holders /\ g \in Members
      BY Apart DEF Members
    <3>3. CASE NewGroup(g)
      <4>1. Stray(db, h, x) \/ (Duplicate(g, g) /\ h = g /\ Stray(db, g, x))
        BY <2>0, <3>3, MadeStrays
      <4>2. QED
        BY <4>1
    <3>4. CASE PasteInTree(g)
      BY <2>0, <3>2, <3>4, EditedStrays
    <3>5. QED
      BY <3>1, <3>3, <3>4
  <2>4. CASE \E g, copy \in Groups : Duplicate(g, copy)
    BY <2>0, <2>4, MadeStrays
  <2>5. CASE \E k \in Holders, y \in Objects : InsertObject(k, y)
    <3>1. PICK k \in Holders, y \in Objects : InsertObject(k, y)
      BY <2>5
    <3>2. y \in Members
      BY DEF Members
    <3>3. Stray(db, h, x) \/ (PasteInTree(k) /\ h = k)
      BY <2>0, <3>1, <3>2, EditedStrays
    <3>4. QED
      BY <3>3
  <2>6. CASE \E k \in Holders, y \in Objects \cup {AnyObject, DummyObject} : RemoveObject(k, y)
    <3>1. PICK k \in Holders, y \in Members : RemoveObject(k, y)
      BY <2>6 DEF Members
    <3>2. Stray(db, h, x) \/ (PasteInTree(k) /\ h = k)
      BY <2>0, <3>1, EditedStrays
    <3>3. QED
      BY <3>2
  <2>7. CASE \E r \in Rules, y \in Objects \cup {DummyObject} : ConvertToAny(r, y)
    <3>1. PICK r \in Rules, y \in Objects \cup {DummyObject} : ConvertToAny(r, y)
      BY <2>7
    <3>2. r \in Holders /\ y \in Members
      BY Apart DEF Members
    <3>3. Stray(db, h, x) \/ (PasteInTree(r) /\ h = r)
      BY <2>0, <3>1, <3>2, EditedStrays
    <3>4. QED
      BY <3>3
  <2>8. QED
    BY <2>1, <2>2, <2>3, <2>4, <2>5, <2>6, <2>7 DEF Next
<1>2. QED
  BY <1>1, StackInvariant, PTL DEF Spec, DeletionStrips
=============================================================================
