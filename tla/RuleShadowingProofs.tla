------------------------ MODULE RuleShadowingProofs ------------------------
(***************************************************************************)
(* The detection of shadowing, for every rule set, every set of objects    *)
(* and every set of packets: the cache gives the right answers, no         *)
(* shadowed atom is missed, and what is reported is covered by the atom    *)
(* above it, whatever the identifiers, wherever no other pair of objects   *)
(* has the same key.                                                       *)
(***************************************************************************)
EXTENDS RuleCoverage, TLAPS

USE ObjectAssumption DEF input

LEMMA AtomsType ==
  ASSUME NEW n \in Nat, NEW r \in Rule, NEW a \in Atoms(n, r)
  PROVE  a \in AtomRecord /\ a.rule = n /\ a.head = r
<1>1. a \in Split(n, r, r.src, r.dst, r.action)
        \/ a \in Split(n, r, FwAddresses, r.dst, "Return")
        \/ a \in Split(n, r, r.src, FwAddresses, "Return")
  BY DEF Atoms
<1>2. \A srcs, dsts \in SUBSET Addresses, act \in Actions :
        a \in Split(n, r, srcs, dsts, act) => a \in AtomRecord /\ a.rule = n /\ a.head = r
  <2> SUFFICES ASSUME NEW srcs \in SUBSET Addresses, NEW dsts \in SUBSET Addresses,
                      NEW act \in Actions, a \in Split(n, r, srcs, dsts, act)
               PROVE  a \in AtomRecord /\ a.rule = n /\ a.head = r
    OBVIOUS
  <2>1. PICK s \in srcs, d \in dsts, v \in r.srv, i \in r.itf : a = Atom(n, r, s, d, v, i, act)
    BY DEF Split
  <2>2. v \in Services /\ i \in Interfaces \cup {AnyItf}
    BY DEF Rule
  <2>3. QED
    BY <2>1, <2>2 DEF Atom, AtomRecord
<1>3. r.src \in SUBSET Addresses /\ r.dst \in SUBSET Addresses /\ r.action \in Actions
  BY DEF Rule
<1>4. "Return" \in Actions /\ FwAddresses \in SUBSET Addresses
  BY DEF Actions
<1>5. QED
  BY <1>1, <1>2, <1>3, <1>4

(* Pairs of objects that share a key collide in 32-bit arithmetic.          *)
LEMMA SameKeyCollides ==
  ASSUME NEW p \in Pairs, NEW q \in Pairs, Key(p[1], p[2]) = Key(q[1], q[2])
  PROVE  Collide(p, q)
<1> DEFINE a == p[1].id
           b == p[2].id
           c == q[1].id
           d == q[2].id
<1>1. a \in Nat /\ b \in Nat /\ c \in Nat /\ d \in Nat
  <2>1. \A x \in Pairs : x[1].id \in Nat /\ x[2].id \in Nat
    BY DEF Pairs, Address, Service
  <2>2. QED
    BY <2>1
<1>2. a % 65536 = c % 65536 /\ ((a \div 65536) + b) % 65536 = ((c \div 65536) + d) % 65536
  BY DEF Key
<1> HIDE DEF a, b, c, d
<1>3. (c - a) % 65536 = 0 /\ ((c - a) \div 65536 + d - b) % 65536 = 0
  BY <1>1, <1>2
<1>4. QED
  BY <1>3 DEF Collide, a, b, c, d

(* So a pair that is alone has its key for itself.                          *)
LEMMA AloneHasKey ==
  ASSUME NEW q \in Alone, NEW p \in Pairs, Key(q[1], q[2]) = Key(p[1], p[2])
  PROVE  p = q
<1> SUFFICES ASSUME p # q PROVE FALSE
  OBVIOUS
<1>1. q \in Pairs /\ q \notin Colliding
  BY DEF Alone
<1>2. Collide(q, p)
  BY <1>1, SameKeyCollides
<1>3. q \in Colliding
  <2>1. <<q, p>> \in {pq \in Pairs \X Pairs : pq[1] # pq[2] /\ Collide(pq[1], pq[2])}
    BY <1>1, <1>2
  <2>2. QED
    BY <2>1 DEF Colliding
<1>4. QED
  BY <1>1, <1>3

LEMMA RememberType ==
  ASSUME NEW c, c \in [DOMAIN c -> BOOLEAN], NEW o1, NEW o2, NEW fresh \in BOOLEAN
  PROVE  /\ Remember(c, o1, o2, fresh) \in [DOMAIN Remember(c, o1, o2, fresh) -> BOOLEAN]
         /\ Answer(c, o1, o2, fresh) \in BOOLEAN
  BY DEF Remember, Answer

(* The kinds of objects and the comparisons have truth values.              *)
LEMMA ShadesBoolean ==
  \A o1, o2 : AddressShades(o1, o2) \in BOOLEAN /\ ServiceShades(o1, o2) \in BOOLEAN
  BY DEF AddressShades, ServiceShades

LEMMA CacheAfterType ==
  ASSUME NEW c, c \in [DOMAIN c -> BOOLEAN], NEW r1, NEW r2
  PROVE  CacheAfter(c, r1, r2) \in [DOMAIN CacheAfter(c, r1, r2) -> BOOLEAN]
<1> DEFINE c1 == SrcCache(c, r1, r2)
           c2 == DstCache(c1, r1, r2)
           c3 == SrvCache(c2, r1, r2)
<1>1. c1 \in [DOMAIN c1 -> BOOLEAN]
  BY RememberType, ShadesBoolean DEF SrcCache
<1>2. c2 \in [DOMAIN c2 -> BOOLEAN]
  <2> HIDE DEF c1
  <2> QED
    BY <1>1, RememberType, ShadesBoolean DEF DstCache
<1>3. c3 \in [DOMAIN c3 -> BOOLEAN]
  <2> HIDE DEF c2
  <2> QED
    BY <1>2, RememberType, ShadesBoolean DEF SrvCache
<1>4. CacheAfter(c, r1, r2) \in {c, c1, c2, c3}
  BY DEF CacheAfter
<1>5. QED
  <2> HIDE DEF c1, c2, c3
  <2> QED
    BY <1>1, <1>2, <1>3, <1>4

(* Every variable keeps its type, and the search stays inside the atoms     *)
(* seen so far.                                                             *)
THEOREM TypeCorrect == Spec => []TypeOK
<1>1. Init => TypeOK
  <2> SUFFICES ASSUME Init PROVE TypeOK
    OBVIOUS
  <2>1. policy \in Seq(Rule)
    BY PolicyAssumption DEF Init
  <2>2. next \in 1..(Len(policy) + 1)
    BY <2>1 DEF Init
  <2>3. seen \in Seq(AtomRecord) /\ at \in 1..(Len(seen) + 1)
    BY DEF Init
  <2>4. cache \in [DOMAIN cache -> BOOLEAN]
    BY DEF Init
  <2>5. QED
    BY <2>1, <2>2, <2>3, <2>4 DEF Init, TypeOK
<1>2. TypeOK /\ [Next]_vars => TypeOK'
  <2> SUFFICES ASSUME TypeOK, [Next]_vars PROVE TypeOK'
    OBVIOUS
  <2>1. CASE ReadRule
    <3>1. next \in Nat /\ policy[next] \in Rule
      BY <2>1 DEF ReadRule, TypeOK
    <3>2. pending' \subseteq AtomRecord
      BY <2>1, <3>1, AtomsType DEF ReadRule
    <3>3. next' \in 1..(Len(policy') + 1)
      BY <2>1 DEF ReadRule, TypeOK
    <3>4. QED
      BY <2>1, <3>2, <3>3 DEF ReadRule, TypeOK
  <2>2. ASSUME NEW a \in pending, PassHidden(a) PROVE TypeOK'
    BY <2>2 DEF PassHidden, TypeOK
  <2>3. ASSUME NEW a \in pending, Take(a) PROVE TypeOK'
    BY <2>3 DEF Take, TypeOK
  <2>4. ASSUME phase = "search", at <= Len(seen) PROVE seen[at] \in AtomRecord
    BY <2>4 DEF TypeOK
  <2>5. ASSUME cache' = CacheAfter(cache, current, seen[at])
        PROVE  (cache \in [DOMAIN cache -> BOOLEAN])'
    BY <2>5, CacheAfterType DEF TypeOK
  <2>6. ASSUME phase = "search", Push
        PROVE  (seen \in Seq(AtomRecord) /\ at \in 1..(Len(seen) + 1))'
    BY <2>6 DEF Push, TypeOK
  <2>7. CASE Differs
    <3>1. at' \in 1..(Len(seen') + 1)
      BY <2>7 DEF Differs, TypeOK
    <3>2. QED
      BY <2>5, <2>7, <3>1 DEF Differs, TypeOK
  <2>8. CASE FoundInSameRule
    <3>1. current' = None
      BY <2>8 DEF FoundInSameRule, Push
    <3>2. (seen \in Seq(AtomRecord) /\ at \in 1..(Len(seen) + 1))'
      BY <2>6, <2>8 DEF FoundInSameRule
    <3>3. QED
      BY <2>5, <2>8, <3>1, <3>2 DEF FoundInSameRule, TypeOK
  <2>9. CASE FoundShadowing
    <3>1. report' \subseteq [upper : AtomRecord, lower : AtomRecord]
      BY <2>4, <2>9 DEF FoundShadowing, TypeOK
    <3>2. (cache \in [DOMAIN cache -> BOOLEAN])'
      BY <2>5, <2>9 DEF FoundShadowing
    <3>3. CASE test_mode
      <4>1. Push /\ phase' = "read"
        BY <2>9, <3>3 DEF FoundShadowing
      <4>2. (seen \in Seq(AtomRecord) /\ at \in 1..(Len(seen) + 1))' /\ current' = None
        BY <2>6, <2>9, <4>1 DEF FoundShadowing, Push
      <4>3. QED
        BY <2>9, <3>1, <3>2, <4>1, <4>2 DEF FoundShadowing, TypeOK
    <3>4. CASE ~test_mode
      BY <2>9, <3>1, <3>2, <3>4 DEF FoundShadowing, TypeOK
    <3>5. QED
      BY <3>3, <3>4
  <2>10. CASE NotFound
    <3>1. (seen \in Seq(AtomRecord) /\ at \in 1..(Len(seen) + 1))' /\ current' = None
      BY <2>6, <2>10 DEF NotFound, Push
    <3>2. QED
      BY <2>10, <3>1 DEF NotFound, TypeOK
  <2>11. CASE Finish
    BY <2>11 DEF Finish, TypeOK
  <2>12. CASE UNCHANGED vars
    BY <2>12 DEF vars, TypeOK
  <2>13. QED
    BY <2>1, <2>2, <2>3, <2>7, <2>8, <2>9, <2>10, <2>11, <2>12 DEF Next
<1>3. QED
  BY <1>1, <1>2, PTL DEF Spec

-----------------------------------------------------------------------------
LEMMA RememberAddress ==
  ASSUME NEW c, AnswersRight(c), NEW p1 \in Addresses, NEW p2 \in Addresses
  PROVE  /\ AnswersRight(Remember(c, p1, p2, AddressShades(p1, p2)))
         /\ <<p1, p2>> \in Alone =>
              (Answer(c, p1, p2, AddressShades(p1, p2)) <=> AddressShades(p1, p2))
<1> DEFINE d == Remember(c, p1, p2, AddressShades(p1, p2))
<1>0. <<p1, p2>> \in Pairs
  BY DEF Pairs
<1>1. ASSUME NEW o1 \in Addresses, NEW o2 \in Addresses,
             Key(o1, o2) \in DOMAIN d, <<o1, o2>> \in Alone
      PROVE  d[Key(o1, o2)] <=> AddressShades(o1, o2)
  <2>1. CASE Key(o1, o2) \in DOMAIN c
    BY <1>1, <2>1 DEF Remember, AnswersRight
  <2>2. CASE Key(o1, o2) \notin DOMAIN c
    <3>1. Key(o1, o2) = Key(p1, p2)
      BY <1>1, <2>2 DEF Remember
    <3>2. <<o1, o2>> = <<p1, p2>>
      BY <1>0, <1>1, <3>1, AloneHasKey
    <3>3. QED
      BY <1>1, <2>2, <3>2 DEF Remember
  <2>3. QED
    BY <2>1, <2>2
<1>2. ASSUME NEW o1 \in Services, NEW o2 \in Services,
             Key(o1, o2) \in DOMAIN d, <<o1, o2>> \in Alone
      PROVE  d[Key(o1, o2)] <=> ServiceShades(o1, o2)
  <2>1. Key(o1, o2) # Key(p1, p2)
    <3>1. <<o1, o2>> # <<p1, p2>>
      BY IdAssumption
    <3>2. QED
      BY <1>0, <1>2, <3>1, AloneHasKey
  <2>2. Key(o1, o2) \in DOMAIN c /\ d[Key(o1, o2)] = c[Key(o1, o2)]
    BY <1>2, <2>1 DEF Remember
  <2>3. QED
    BY <1>2, <2>2 DEF AnswersRight
<1>3. AnswersRight(d)
  <2> HIDE DEF d
  <2> QED
    BY <1>1, <1>2 DEF AnswersRight
<1>4. <<p1, p2>> \in Alone =>
        (Answer(c, p1, p2, AddressShades(p1, p2)) <=> AddressShades(p1, p2))
  BY DEF Answer, AnswersRight
<1>5. QED
  BY <1>3, <1>4

LEMMA RememberService ==
  ASSUME NEW c, AnswersRight(c), NEW p1 \in Services, NEW p2 \in Services
  PROVE  /\ AnswersRight(Remember(c, p1, p2, ServiceShades(p1, p2)))
         /\ <<p1, p2>> \in Alone =>
              (Answer(c, p1, p2, ServiceShades(p1, p2)) <=> ServiceShades(p1, p2))
<1> DEFINE d == Remember(c, p1, p2, ServiceShades(p1, p2))
<1>0. <<p1, p2>> \in Pairs
  BY DEF Pairs
<1>1. ASSUME NEW o1 \in Services, NEW o2 \in Services,
             Key(o1, o2) \in DOMAIN d, <<o1, o2>> \in Alone
      PROVE  d[Key(o1, o2)] <=> ServiceShades(o1, o2)
  <2>1. CASE Key(o1, o2) \in DOMAIN c
    BY <1>1, <2>1 DEF Remember, AnswersRight
  <2>2. CASE Key(o1, o2) \notin DOMAIN c
    <3>1. Key(o1, o2) = Key(p1, p2)
      BY <1>1, <2>2 DEF Remember
    <3>2. <<o1, o2>> = <<p1, p2>>
      BY <1>0, <1>1, <3>1, AloneHasKey
    <3>3. QED
      BY <1>1, <2>2, <3>2 DEF Remember
  <2>3. QED
    BY <2>1, <2>2
<1>2. ASSUME NEW o1 \in Addresses, NEW o2 \in Addresses,
             Key(o1, o2) \in DOMAIN d, <<o1, o2>> \in Alone
      PROVE  d[Key(o1, o2)] <=> AddressShades(o1, o2)
  <2>1. Key(o1, o2) # Key(p1, p2)
    <3>1. <<o1, o2>> # <<p1, p2>>
      BY IdAssumption
    <3>2. QED
      BY <1>0, <1>2, <3>1, AloneHasKey
  <2>2. Key(o1, o2) \in DOMAIN c /\ d[Key(o1, o2)] = c[Key(o1, o2)]
    BY <1>2, <2>1 DEF Remember
  <2>3. QED
    BY <1>2, <2>2 DEF AnswersRight
<1>3. AnswersRight(d)
  <2> HIDE DEF d
  <2> QED
    BY <1>1, <1>2 DEF AnswersRight
<1>4. <<p1, p2>> \in Alone =>
        (Answer(c, p1, p2, ServiceShades(p1, p2)) <=> ServiceShades(p1, p2))
  BY DEF Answer, AnswersRight
<1>5. QED
  BY <1>3, <1>4

(* A cached comparison leaves right answers behind, and is the comparison   *)
(* itself when nothing is mixed up.                                         *)
LEMMA CachedComparison ==
  ASSUME NEW c, AnswersRight(c), NEW r1 \in AtomRecord, NEW r2 \in AtomRecord
  PROVE  /\ AnswersRight(CacheAfter(c, r1, r2))
         /\ Unmixed(r1, r2) => (MoreGeneral(c, r1, r2) <=> Shades(r1, r2))
<1> DEFINE c1 == SrcCache(c, r1, r2)
           c2 == DstCache(c1, r1, r2)
           c3 == SrvCache(c2, r1, r2)
<1>0. /\ r1.src \in Addresses /\ r2.src \in Addresses
      /\ r1.dst \in Addresses /\ r2.dst \in Addresses
      /\ r1.srv \in Services /\ r2.srv \in Services
  BY DEF AtomRecord
<1>1. /\ AnswersRight(c1)
      /\ Unmixed(r1, r2) => (SrcAnswer(c, r1, r2) <=> AddressShades(r1.src, r2.src))
  BY <1>0, RememberAddress DEF SrcCache, SrcAnswer, Unmixed
<1>2. /\ AnswersRight(c2)
      /\ Unmixed(r1, r2) => (DstAnswer(c1, r1, r2) <=> AddressShades(r1.dst, r2.dst))
  <2> HIDE DEF c1
  <2> QED
    BY <1>0, <1>1, RememberAddress DEF DstCache, DstAnswer, Unmixed
<1>3. /\ AnswersRight(c3)
      /\ Unmixed(r1, r2) => (SrvAnswer(c2, r1, r2) <=> ServiceShades(r1.srv, r2.srv))
  <2> HIDE DEF c2
  <2> QED
    BY <1>0, <1>2, RememberService DEF SrvCache, SrvAnswer, Unmixed
<1>4. CacheAfter(c, r1, r2) \in {c, c1, c2, c3}
  BY DEF CacheAfter
<1>5. MoreGeneral(c, r1, r2) <=>
        /\ InterfaceShades(r1, r2) /\ Comparable(r1, r2)
        /\ SrcAnswer(c, r1, r2) /\ DstAnswer(c1, r1, r2) /\ SrvAnswer(c2, r1, r2)
        /\ LimitShades(r1, r2)
  BY DEF MoreGeneral
<1>6. QED
  <2> HIDE DEF c1, c2, c3
  <2>1. AnswersRight(CacheAfter(c, r1, r2))
    BY <1>1, <1>2, <1>3, <1>4
  <2>2. ASSUME Unmixed(r1, r2) PROVE MoreGeneral(c, r1, r2) <=> Shades(r1, r2)
    <3> DEFINE A == InterfaceShades(r1, r2) /\ Comparable(r1, r2)
               L == LimitShades(r1, r2)
               S == AddressShades(r1.src, r2.src)
               D == AddressShades(r1.dst, r2.dst)
               V == ServiceShades(r1.srv, r2.srv)
    <3>1. Shades(r1, r2) <=> A /\ S /\ D /\ V /\ L
      BY DEF Shades
    <3>2. MoreGeneral(c, r1, r2) <=> A /\ SrcAnswer(c, r1, r2) /\ DstAnswer(c1, r1, r2)
                                      /\ SrvAnswer(c2, r1, r2) /\ L
      BY <1>5
    <3> HIDE DEF A, L, S, D, V
    <3>3. QED
      BY <1>1, <1>2, <1>3, <2>2, <3>1, <3>2 DEF S, D, V
  <2>3. QED
    BY <2>1, <2>2

(* The cache has the right answer for every pair of objects no other pair   *)
(* collides with, whatever the identifiers.                                 *)
THEOREM CacheCorrect == Spec => []CacheRight
<1>1. Init => CacheRight
  BY DEF Init, CacheRight, AnswersRight
<1>2. TypeOK /\ CacheRight /\ [Next]_vars => CacheRight'
  <2> SUFFICES ASSUME TypeOK, CacheRight, [Next]_vars PROVE AnswersRight(cache')
    BY DEF CacheRight
  <2>1. AnswersRight(cache)
    BY DEF CacheRight
  <2>2. CASE UNCHANGED cache
    BY <2>1, <2>2
  <2>3. CASE Differs \/ FoundInSameRule \/ FoundShadowing
    <3>1. cache' = CacheAfter(cache, current, seen[at])
      BY <2>3 DEF Differs, FoundInSameRule, FoundShadowing
    <3>2. current \in AtomRecord /\ seen[at] \in AtomRecord
      BY <2>3 DEF Differs, FoundInSameRule, FoundShadowing, TypeOK
    <3>3. QED
      BY <2>1, <3>1, <3>2, CachedComparison
  <2>4. QED
    BY <2>2, <2>3
    DEF Next, ReadRule, PassHidden, Take, NotFound, Finish, vars
<1>3. QED
  BY <1>1, <1>2, TypeCorrect, PTL DEF Spec

-----------------------------------------------------------------------------
LEMMA SearchInit == Init => SearchInv
<1> SUFFICES ASSUME Init PROVE SearchInv
  OBVIOUS
<1>1. OrderInv
  BY DEF Init, OrderInv, Searching
<1>2. CollectedInv
  BY DEF Init, CollectedInv
<1>3. SearchedInv /\ PutAwayInv /\ ReportInv
  BY DEF Init, SearchedInv, PutAwayInv, ReportInv
<1>4. QED
  BY <1>1, <1>2, <1>3 DEF SearchInv

LEMMA SeenAtoms ==
  ASSUME TypeOK
  PROVE  \A i \in DOMAIN seen : seen[i] \in AtomRecord /\ seen[i].rule \in Nat
<1>1. \A i \in DOMAIN seen : seen[i] \in AtomRecord
  BY DEF TypeOK
<1>2. \A a \in AtomRecord : a.rule \in Nat
  BY DEF AtomRecord
<1>3. QED
  BY <1>1, <1>2

(* The current atom joins the ones seen: the order of rules is kept and the *)
(* atom stays where it can be found.                                        *)
LEMMA PushKeepsOrder ==
  ASSUME TypeOK, OrderInv, CollectedInv, phase = "search", Push, phase' = "read",
         UNCHANGED <<policy, next, pending>>
  PROVE  OrderInv' /\ CollectedInv'
<1>1. /\ DOMAIN seen = 1..Len(seen) /\ DOMAIN seen' = 1..(Len(seen) + 1)
      /\ Len(seen) \in Nat
      /\ seen'[Len(seen) + 1] = current
      /\ \A i \in DOMAIN seen : seen'[i] = seen[i]
  BY DEF Push, TypeOK
<1>2. current.rule = next - 1 /\ next \in Nat
  BY DEF OrderInv, Searching, TypeOK
<1>3. OrderInv'
  <2>1. \A i \in DOMAIN seen : seen[i].rule < next /\ seen[i].rule \in Nat
    BY SeenAtoms DEF OrderInv
  <2>2. \A i \in DOMAIN seen' : seen'[i].rule < next
    BY <1>1, <1>2, <2>1
  <2>3. \A i, j \in DOMAIN seen' : i <= j => seen'[i].rule <= seen'[j].rule
    <3> SUFFICES ASSUME NEW i \in DOMAIN seen', NEW j \in DOMAIN seen', i <= j
                 PROVE  seen'[i].rule <= seen'[j].rule
      OBVIOUS
    <3>1. CASE j = Len(seen) + 1
      BY <1>1, <1>2, <2>1, <3>1
    <3>2. CASE j \in DOMAIN seen
      BY <1>1, <3>2 DEF OrderInv
    <3>3. QED
      BY <1>1, <3>1, <3>2
  <2>4. QED
    BY <2>2, <2>3 DEF OrderInv, Searching
<1>4. CollectedInv'
  <2> SUFFICES ASSUME NEW n \in 1..(next - 1), NEW a \in Checked(n)
               PROVE  a \in pending \/ \E i \in DOMAIN seen' : seen'[i] = a
    BY DEF CollectedInv, Checked
  <2>1. CASE a \in pending
    BY <2>1
  <2>2. CASE a = current
    BY <1>1, <2>2
  <2>3. CASE \E i \in DOMAIN seen : seen[i] = a
    BY <1>1, <2>3
  <2>4. QED
    BY <2>1, <2>2, <2>3 DEF CollectedInv
<1>5. QED
  BY <1>3, <1>4

(* It may be put away when it is reported or no atom of a rule above shades *)
(* it.                                                                      *)
LEMMA PushKeepsReports ==
  ASSUME TypeOK, OrderInv, PutAwayInv, phase = "search", Push, report \subseteq report',
         \/ \E r \in report' : r.lower = current
         \/ \A i \in DOMAIN seen : seen[i].rule < current.rule => ~SurelyShades(current, seen[i])
  PROVE  PutAwayInv'
<1>1. /\ DOMAIN seen = 1..Len(seen) /\ DOMAIN seen' = 1..(Len(seen) + 1)
      /\ Len(seen) \in Nat
      /\ seen'[Len(seen) + 1] = current
      /\ \A i \in DOMAIN seen : seen'[i] = seen[i]
  BY DEF Push, TypeOK
<1>2. current.rule \in Nat
  BY DEF TypeOK, AtomRecord
<1>3. current.rule = next - 1 /\ \A i \in DOMAIN seen : seen[i].rule < next /\ seen[i].rule \in Nat
  BY SeenAtoms DEF OrderInv, Searching
<1> SUFFICES ASSUME NEW i \in DOMAIN seen', NEW j \in DOMAIN seen',
                    seen'[i].rule < seen'[j].rule, SurelyShades(seen'[j], seen'[i])
             PROVE  \E r \in report' : r.lower = seen'[j]
  BY DEF PutAwayInv, Reported
<1>4. CASE i = Len(seen) + 1
  <2>1. seen'[i] = current
    BY <1>1, <1>4
  <2>2. seen'[j].rule <= current.rule /\ seen'[j].rule \in Nat
    <3>1. CASE j = Len(seen) + 1
      BY <1>1, <1>2, <3>1
    <3>2. CASE j \in DOMAIN seen
      <4>1. seen[j].rule < next /\ seen[j].rule \in Nat /\ next \in Nat
        BY <1>3, <3>2 DEF TypeOK
      <4>2. seen'[j] = seen[j]
        BY <1>1, <3>2
      <4>3. QED
        BY <1>3, <4>1, <4>2
    <3>3. QED
      BY <1>1, <3>1, <3>2
  <2>3. QED
    BY <1>2, <2>1, <2>2
<1>5. CASE i \in DOMAIN seen /\ j = Len(seen) + 1
  BY <1>1, <1>5
<1>6. CASE i \in DOMAIN seen /\ j \in DOMAIN seen
  <2>1. Reported(seen[j])
    BY <1>1, <1>6 DEF PutAwayInv
  <2>2. QED
    BY <1>1, <1>6, <2>1 DEF Reported
<1>7. QED
  BY <1>1, <1>4, <1>5, <1>6

LEMMA SearchNext == TypeOK /\ CacheRight /\ SearchInv /\ [Next]_vars => SearchInv'
<1> SUFFICES ASSUME TypeOK, CacheRight, SearchInv, [Next]_vars PROVE SearchInv'
  OBVIOUS
<1> USE DEF SearchInv
<1>1. ASSUME phase = "search", at <= Len(seen)
      PROVE  /\ at \in DOMAIN seen
             /\ Unmixed(current, seen[at]) =>
                  (MoreGeneral(cache, current, seen[at]) <=> Shades(current, seen[at]))
  <2>1. at \in DOMAIN seen /\ current \in AtomRecord /\ seen[at] \in AtomRecord
    BY <1>1 DEF TypeOK
  <2>2. QED
    BY <2>1, CachedComparison DEF CacheRight
<1>2. CASE ReadRule
  <2>1. next \in Nat /\ next - 1 \in Nat /\ policy[next] \in Rule
    BY <1>2 DEF ReadRule, TypeOK
  <2>2. \A a \in Atoms(next, policy[next]) : a.rule = next
    BY <2>1, AtomsType
  <2>3. OrderInv'
    <3>1. \A a \in pending' : a.rule = next' - 1
      BY <1>2, <2>1, <2>2 DEF ReadRule
    <3>2. ~Searching' /\ phase' # "done"
      BY <1>2 DEF ReadRule, Searching
    <3>3. \A i \in DOMAIN seen' : seen'[i].rule < next'
      BY <1>2, <2>1, SeenAtoms DEF ReadRule, OrderInv
    <3>4. QED
      BY <1>2, <3>1, <3>2, <3>3 DEF ReadRule, OrderInv
  <2>4. CollectedInv'
    <3> SUFFICES ASSUME NEW n \in 1..(next' - 1), NEW a \in Checked(n)'
                 PROVE  a \in pending' \/ \E i \in DOMAIN seen' : seen'[i] = a
      BY DEF CollectedInv
    <3>1. a \in Checked(n) /\ a \in Atoms(n, policy[n])
      BY <1>2 DEF ReadRule, Checked
    <3>2. CASE n = next
      BY <1>2, <3>1, <3>2 DEF ReadRule
    <3>3. CASE n \in 1..(next - 1)
      BY <1>2, <3>1, <3>3 DEF ReadRule, CollectedInv, Searching
    <3>4. QED
      BY <1>2, <2>1, <3>2, <3>3 DEF ReadRule
  <2>5. SearchedInv' /\ PutAwayInv' /\ ReportInv'
    BY <1>2 DEF ReadRule, SearchedInv, PutAwayInv, ReportInv, Reported
  <2>6. QED
    BY <2>3, <2>4, <2>5
<1>3. ASSUME NEW b \in pending, PassHidden(b) PROVE SearchInv'
  <2>1. OrderInv'
    BY <1>3 DEF PassHidden, OrderInv, Searching
  <2>2. CollectedInv'
    BY <1>3 DEF PassHidden, CollectedInv, Checked, Searching
  <2>3. SearchedInv' /\ PutAwayInv' /\ ReportInv'
    BY <1>3 DEF PassHidden, SearchedInv, PutAwayInv, ReportInv, Reported
  <2>4. QED
    BY <2>1, <2>2, <2>3
<1>4. ASSUME NEW b \in pending, Take(b) PROVE SearchInv'
  <2>1. OrderInv'
    BY <1>4 DEF Take, OrderInv, Searching
  <2>2. CollectedInv'
    BY <1>4 DEF Take, CollectedInv, Checked, Searching
  <2>3. SearchedInv' /\ PutAwayInv' /\ ReportInv'
    BY <1>4 DEF Take, SearchedInv, PutAwayInv, ReportInv, Reported
  <2>4. QED
    BY <2>1, <2>2, <2>3
<1>5. CASE Differs
  <2>1. OrderInv' /\ CollectedInv'
    BY <1>5 DEF Differs, OrderInv, CollectedInv, Checked, Searching
  <2>2. ~SurelyShades(current, seen[at])
    BY <1>1, <1>5 DEF Differs, SurelyShades
  <2>3. SearchedInv'
    <3>1. \A k \in 1..(at' - 1) : k = at \/ k \in 1..(at - 1)
      BY <1>5 DEF Differs, TypeOK
    <3>2. QED
      BY <1>5, <2>2, <3>1 DEF Differs, SearchedInv
  <2>4. PutAwayInv' /\ ReportInv'
    BY <1>5 DEF Differs, PutAwayInv, ReportInv, Reported
  <2>5. QED
    BY <2>1, <2>3, <2>4
<1>6. CASE FoundInSameRule
  <2>1. phase = "search" /\ Push /\ phase' = "read" /\ at \in DOMAIN seen
    BY <1>1, <1>6 DEF FoundInSameRule
  <2>2. OrderInv' /\ CollectedInv'
    BY <1>6, <2>1, PushKeepsOrder DEF FoundInSameRule
  <2>3. \A i \in DOMAIN seen : seen[i].rule < current.rule => ~SurelyShades(current, seen[i])
    <3> SUFFICES ASSUME NEW i \in DOMAIN seen, seen[i].rule < current.rule
                 PROVE  ~SurelyShades(current, seen[i])
      OBVIOUS
    <3>1. ~(at <= i)
      <4>1. seen[at].rule = current.rule /\ seen[at].rule \in Nat /\ seen[i].rule \in Nat
        BY <1>6, <2>1, SeenAtoms DEF FoundInSameRule
      <4>2. at <= i => seen[at].rule <= seen[i].rule
        BY <2>1 DEF OrderInv
      <4>3. QED
        BY <4>1, <4>2
    <3>2. i \in 1..(at - 1)
      BY <2>1, <3>1 DEF TypeOK
    <3>3. QED
      BY <2>1, <3>2 DEF SearchedInv
  <2>4. PutAwayInv'
    BY <1>6, <2>1, <2>3, PushKeepsReports DEF FoundInSameRule
  <2>5. SearchedInv' /\ ReportInv'
    BY <1>6, <2>1 DEF FoundInSameRule, SearchedInv, ReportInv
  <2>6. QED
    BY <2>2, <2>4, <2>5
<1>7. CASE FoundShadowing
  <2>1. /\ phase = "search" /\ report \subseteq report'
        /\ Unmixed(current, seen[at]) => Shades(current, seen[at])
    BY <1>1, <1>7 DEF FoundShadowing
  <2>2. ReportInv'
    BY <1>7, <2>1 DEF FoundShadowing, ReportInv
  <2>3. \E r \in report' : r.lower = current
    <3>1. [upper |-> seen[at], lower |-> current] \in report'
      BY <1>7 DEF FoundShadowing
    <3>2. [upper |-> seen[at], lower |-> current].lower = current
      OBVIOUS
    <3>3. QED
      BY <3>1, <3>2
  <2>4. CASE test_mode
    <3>1. Push /\ phase' = "read" /\ UNCHANGED <<policy, next, pending>>
      BY <1>7, <2>4 DEF FoundShadowing
    <3>2. OrderInv' /\ CollectedInv'
      BY <2>1, <3>1, PushKeepsOrder
    <3>3. PutAwayInv'
      BY <2>1, <2>3, <3>1, PushKeepsReports
    <3>4. SearchedInv'
      BY <3>1 DEF SearchedInv
    <3>5. QED
      BY <2>2, <3>2, <3>3, <3>4
  <2>5. CASE ~test_mode
    <3>1. phase' = "aborted" /\ UNCHANGED <<policy, next, pending, current, at, seen>>
      BY <1>7, <2>5 DEF FoundShadowing
    <3>2. OrderInv' /\ CollectedInv'
      BY <2>1, <3>1 DEF OrderInv, CollectedInv, Checked, Searching
    <3>3. PutAwayInv' /\ SearchedInv'
      BY <2>1, <3>1 DEF PutAwayInv, SearchedInv, Reported
    <3>4. QED
      BY <2>2, <3>2, <3>3
  <2>6. QED
    BY <2>4, <2>5
<1>8. CASE NotFound
  <2>1. phase = "search" /\ Push /\ phase' = "read" /\ UNCHANGED <<policy, next, pending, report>>
    BY <1>8 DEF NotFound
  <2>2. OrderInv' /\ CollectedInv'
    BY <2>1, PushKeepsOrder
  <2>3. \A i \in DOMAIN seen : ~SurelyShades(current, seen[i])
    <3>1. \A i \in DOMAIN seen : i \in 1..(at - 1)
      BY <1>8 DEF NotFound, TypeOK
    <3>2. QED
      BY <2>1, <3>1 DEF SearchedInv
  <2>4. PutAwayInv'
    BY <2>1, <2>3, PushKeepsReports
  <2>5. SearchedInv' /\ ReportInv'
    BY <2>1 DEF SearchedInv, ReportInv
  <2>6. QED
    BY <2>2, <2>4, <2>5
<1>9. CASE Finish
  <2>1. OrderInv'
    BY <1>9 DEF Finish, OrderInv, Searching
  <2>2. CollectedInv'
    BY <1>9 DEF Finish, CollectedInv, Checked, Searching
  <2>3. SearchedInv' /\ PutAwayInv' /\ ReportInv'
    BY <1>9 DEF Finish, SearchedInv, PutAwayInv, ReportInv, Reported
  <2>4. QED
    BY <2>1, <2>2, <2>3
<1>10. CASE UNCHANGED vars
  <2>1. OrderInv' /\ CollectedInv'
    BY <1>10 DEF vars, OrderInv, CollectedInv, Checked, Searching
  <2>2. SearchedInv' /\ PutAwayInv' /\ ReportInv'
    BY <1>10 DEF vars, SearchedInv, PutAwayInv, ReportInv, Reported
  <2>3. QED
    BY <2>1, <2>2
<1>11. QED
  BY <1>2, <1>3, <1>4, <1>5, <1>6, <1>7, <1>8, <1>9, <1>10 DEF Next

(* The pass keeps its invariant.                                            *)
THEOREM SearchCorrect == Spec => []SearchInv
<1>1. QED
  BY SearchInit, SearchNext, TypeCorrect, CacheCorrect, PTL DEF Spec

(* When the pass has ended, an error was reported for every atom shadowed   *)
(* by an atom of a rule above it, unless the keys asked about the two are   *)
(* shared.                                                                  *)
THEOREM NothingMissed == Spec => []NoneMissed
<1>1. TypeOK /\ SearchInv => NoneMissed
  <2> SUFFICES ASSUME TypeOK, SearchInv, phase = "done",
                      NEW m \in DOMAIN policy, NEW n \in DOMAIN policy, m < n,
                      NEW a \in Checked(m), NEW b \in Checked(n), SurelyShades(b, a)
               PROVE  Reported(b)
    BY DEF NoneMissed, SurelyShades
  <2>1. m \in Nat /\ n \in Nat /\ policy[m] \in Rule /\ policy[n] \in Rule
    BY DEF TypeOK
  <2>2. a.rule = m /\ b.rule = n
    BY <2>1, AtomsType DEF Checked
  <2>3. m \in 1..(next - 1) /\ n \in 1..(next - 1)
    BY DEF SearchInv, OrderInv, TypeOK
  <2>4. pending = {} /\ ~Searching
    BY DEF SearchInv, OrderInv, Searching
  <2>5. (\E i \in DOMAIN seen : seen[i] = a) /\ (\E i \in DOMAIN seen : seen[i] = b)
    BY <2>3, <2>4 DEF SearchInv, CollectedInv
  <2>6. QED
    BY <2>2, <2>5 DEF SearchInv, PutAwayInv
<1>2. QED
  BY <1>1, SearchCorrect, TypeCorrect, PTL

-----------------------------------------------------------------------------
(* Comparing objects is sound: what the first one matches, the second does. *)
LEMMA AddressCovers ==
  ASSUME NEW o1 \in Addresses, NEW o2 \in Addresses, AddressShades(o1, o2),
         o1.kind # "runtime", o2.kind # "runtime",
         NEW e \in Endpoint, NEW f1 \in BOOLEAN, NEW f2 \in BOOLEAN,
         o2.kind = "any" => f2,
         InAddress(o1, e, f1)
  PROVE  InAddress(o2, e, f2)
<1>1. /\ o1.kind \in AddressKinds /\ o2.kind \in AddressKinds
      /\ o1.lo \in Int /\ o1.hi \in Int /\ o2.lo \in Int /\ o2.hi \in Int
      /\ e.ip \in Int
  BY DEF Address, Endpoint
<1>2. CASE o1 = o2
  BY <1>1, <1>2 DEF InAddress, AddressKinds
<1>3. CASE o2.kind = "any"
  BY <1>3 DEF InAddress
<1>4. CASE o1 # o2 /\ o2.kind # "any"
  <2>1. o1.id # o2.id
    BY <1>4, IdAssumption
  <2>2. \/ o1.kind = "mac" /\ o2.kind = "mac" /\ o1.lo = o2.lo
        \/ /\ o1.kind = "address" /\ o2.kind = "address"
           /\ o2.lo <= o1.lo /\ o1.hi <= o2.hi
    BY <1>1, <1>4, <2>1 DEF AddressShades, AddressKinds
  <2>3. CASE o1.kind = "mac" /\ o2.kind = "mac" /\ o1.lo = o2.lo
    BY <2>3 DEF InAddress
  <2>4. CASE /\ o1.kind = "address" /\ o2.kind = "address"
             /\ o2.lo <= o1.lo /\ o1.hi <= o2.hi
    BY <1>1, <2>4 DEF InAddress
  <2>5. QED
    BY <2>2, <2>3, <2>4
<1>5. QED
  BY <1>2, <1>3, <1>4

LEMMA PortsCover ==
  ASSUME NEW o1 \in Services, NEW o2 \in Services, PortsShade(o1, o2),
         NEW p \in Packet, Ports(o1, p)
  PROVE  Ports(o2, p)
<1>1. /\ o1.slo \in 0..MaxPort /\ o1.shi \in 0..MaxPort /\ o1.dlo \in 0..MaxPort
      /\ o1.dhi \in 0..MaxPort /\ o2.slo \in 0..MaxPort /\ o2.shi \in 0..MaxPort
      /\ o2.dlo \in 0..MaxPort /\ o2.dhi \in 0..MaxPort
  BY DEF Service
<1>2. p.sport \in 0..MaxPort /\ p.dport \in 0..MaxPort
  BY DEF Packet
<1>3. \A lo1, hi1, lo2, hi2, x \in 0..MaxPort :
        lo1 >= lo2 /\ LastPort(lo1, hi1) <= LastPort(lo2, hi2) /\ InPorts(lo1, hi1, x)
          => InPorts(lo2, hi2, x)
  BY DEF LastPort, InPorts
<1>4. InPorts(o2.slo, o2.shi, p.sport)
  <2>1. /\ o1.slo >= o2.slo /\ LastPort(o1.slo, o1.shi) <= LastPort(o2.slo, o2.shi)
        /\ InPorts(o1.slo, o1.shi, p.sport)
    BY DEF PortsShade, Ports
  <2>2. QED
    BY <1>1, <1>2, <1>3, <2>1
<1>5. InPorts(o2.dlo, o2.dhi, p.dport)
  <2>1. /\ o1.dlo >= o2.dlo /\ LastPort(o1.dlo, o1.dhi) <= LastPort(o2.dlo, o2.dhi)
        /\ InPorts(o1.dlo, o1.dhi, p.dport)
    BY DEF PortsShade, Ports
  <2>2. QED
    BY <1>1, <1>2, <1>3, <2>1
<1>6. QED
  BY <1>4, <1>5 DEF Ports

(* Equal where they are compared and not overlooked elsewhere, the options  *)
(* above are matched by what matches those below.                           *)
LEMMA SameOptionsCover ==
  ASSUME NEW o1 \in Services, NEW o2 \in Services, o1.kind = "ip", o2.kind = "ip",
         SameOptions(o1, o2),
         ~OptionsOverlooked(o1, o2),
         NEW p \in Packet, InOptions(o1, p)
  PROVE  InOptions(o2, p)
<1>1. \A x \in {"fragm", "short_fragm", "lsrr", "ssrr", "rr", "ts"} :
        x \in o1.opts <=> x \in o2.opts
  BY DEF SameOptions, ComparedOptions
<1>2. \A x \in {"any_opt", "rtralt"} : x \in o2.opts => x \in o1.opts
  BY DEF OptionsOverlooked, UncomparedOptions
<1>3. o2.opts \cap {"fragm", "short_fragm"} # {} => "fragm" \in p.opts
  BY <1>1 DEF InOptions
<1>4. CASE "any_opt" \in o1.opts /\ "any_opt" \notin o2.opts
  <2>1. o2.opts \cap IpOptions = {}
    BY <1>4 DEF OptionsOverlooked, UncomparedOptions
  <2>2. QED
    BY <1>3, <1>4, <2>1 DEF InOptions
<1>5. CASE "any_opt" \in o1.opts /\ "any_opt" \in o2.opts
  BY <1>3, <1>5 DEF InOptions
<1>6. CASE "any_opt" \notin o1.opts
  <2>1. o2.opts \cap IpOptions \subseteq o1.opts \cap IpOptions
    BY <1>1, <1>2 DEF IpOptions
  <2>2. QED
    BY <1>2, <1>3, <1>6, <2>1 DEF InOptions
<1>7. QED
  BY <1>4, <1>5, <1>6

LEMMA ServiceCovers ==
  ASSUME NEW o1 \in Services, NEW o2 \in Services, ServiceShades(o1, o2),
         o2.kind = "ip" /\ o2.tos # NoTos => o1.kind = "ip",
         ~OptionsOverlooked(o1, o2),
         NEW p \in Packet, InService(o1, p)
  PROVE  InService(o2, p)
<1>1. o1.kind \in ServiceKinds /\ o2.kind \in ServiceKinds
  BY DEF Service
<1>2. CASE o1 = o2
  BY <1>2
<1>3. CASE o2.kind = "any"
  BY <1>3 DEF InService
<1>4. CASE o1.kind = o2.kind /\ SameTypeShades(o1, o2)
  <2>1. CASE o1.kind = "ip"
    <3>1. SameOptions(o1, o2) /\ o1.tos = o2.tos /\ o2.num \in {0, o1.num}
      BY <1>4, <2>1 DEF SameTypeShades
    <3>2. o1.num \in {0, p.proto} /\ InOptions(o1, p) /\ o1.tos \in {NoTos, p.tos}
      BY <2>1 DEF InService
    <3>3. InOptions(o2, p)
      <4>1. o1.kind = "ip" /\ o2.kind = "ip" /\ SameOptions(o1, o2) /\ InOptions(o1, p)
        BY <1>4, <2>1, <3>1, <3>2
      <4>2. QED
        BY <4>1, SameOptionsCover
    <3>4. o2.num \in {0, p.proto} /\ o2.tos \in {NoTos, p.tos}
      BY <3>1, <3>2
    <3>5. QED
      BY <1>4, <2>1, <3>3, <3>4 DEF InService
  <2>2. CASE o1.kind = "icmp"
    BY <1>4, <2>2 DEF SameTypeShades, InService
  <2>3. CASE o1.kind = "tcp" \/ o1.kind = "udp"
    <3>1. PortsShade(o1, o2) /\ (o1.kind = "tcp" => o1.flags = o2.flags)
      BY <1>4, <2>3 DEF SameTypeShades
    <3>2. Ports(o1, p) => Ports(o2, p)
      BY <3>1, PortsCover
    <3>3. QED
      BY <1>4, <2>3, <3>1, <3>2 DEF InService
  <2>4. CASE o1.kind \in {"tag", "user"}
    BY <1>4, <2>4 DEF SameTypeShades, InService
  <2>5. QED
    BY <1>4, <2>1, <2>2, <2>3, <2>4 DEF SameTypeShades
<1>5. CASE /\ o1.kind # "ip" /\ o2.kind = "ip"
           /\ o2.num = 0 /\ o2.opts \cap ComparedOptions = {}
  <2>1. UncomparedOptions(o2) = {}
    BY <1>5 DEF OptionsOverlooked, UncomparedOptions
  <2>2. InOptions(o2, p)
    BY <1>5, <2>1 DEF UncomparedOptions, InOptions, IpOptions, ComparedOptions
  <2>3. QED
    BY <1>5, <2>2 DEF InService
<1>6. QED
  BY <1>2, <1>3, <1>4, <1>5, IdAssumption DEF ServiceShades

LEMMA LimitCovers ==
  ASSUME NEW lower \in AtomRecord, NEW upper \in AtomRecord, LimitShades(lower, upper),
         ~Overlooked(lower, upper), NEW p \in Packet, InLimit(lower.head, p)
  PROVE  InLimit(upper.head, p)
<1>1. /\ lower.head.limit \in Nat \cup {NoLimit} /\ upper.head.limit \in Nat \cup {NoLimit}
      /\ lower.head.unit \in Units /\ upper.head.limit_not \in BOOLEAN
  BY DEF AtomRecord, Rule
<1>2. p.rate[lower.head.unit] \in Nat
  BY <1>1 DEF Packet
<1>3. CASE ~(upper.head.limit > 0)
  BY <1>3 DEF InLimit
<1>4. CASE upper.head.limit > 0
  <2>1. /\ lower.head.limit # 0 /\ ~upper.head.limit_not
        /\ ~lower.head.limit_not /\ lower.head.unit = upper.head.unit
        /\ lower.head.limit \in Nat /\ upper.head.limit \in Nat
        /\ lower.head.limit <= upper.head.limit
    BY <1>1, <1>4 DEF Overlooked, LimitShades, Slower, NoLimit
  <2>2. QED
    BY <1>1, <1>2, <1>4, <2>1 DEF InLimit
<1>5. QED
  BY <1>3, <1>4

(* A pair the compiler stops at is a real one wherever the comparison looks *)
(* at everything and the keys asked about it are not shared.                *)
THEOREM ReportsSound == Spec => []ShadowSound
<1>1. TypeOK /\ SearchInv => ShadowSound
  <2> SUFFICES ASSUME TypeOK, SearchInv, NEW r \in report,
                      ~Overlooked(r.lower, r.upper), Unmixed(r.lower, r.upper),
                      NEW p \in Packets, Matches(r.lower, p)
               PROVE  Matches(r.upper, p)
    BY DEF ShadowSound
  <2> DEFINE lower == r.lower
             upper == r.upper
  <2>1. lower \in AtomRecord /\ upper \in AtomRecord /\ Shades(lower, upper)
    BY DEF TypeOK, SearchInv, ReportInv
  <2>2. Matches(lower, p) /\ ~Overlooked(lower, upper)
    OBVIOUS
  <2> HIDE DEF lower, upper
  <2>3. p \in Packet /\ p.src \in Endpoint /\ p.dst \in Endpoint
    BY PacketAssumption DEF Packet
  <2>4. /\ lower.src \in Addresses /\ lower.dst \in Addresses /\ lower.srv \in Services
        /\ upper.src \in Addresses /\ upper.dst \in Addresses /\ upper.srv \in Services
        /\ lower.head.fw_in_any \in BOOLEAN /\ upper.head.fw_in_any \in BOOLEAN
    BY <2>1 DEF AtomRecord, Rule
  <2>5. Comparable(lower, upper) /\ InterfaceShades(lower, upper)
    BY <2>1 DEF Shades
  <2>6. /\ InAddress(lower.src, p.src, lower.head.fw_in_any)
        /\ InAddress(lower.dst, p.dst, lower.head.fw_in_any)
        /\ InService(lower.srv, p)
    BY <2>2, <2>5 DEF Matches, Comparable
  <2>7. InAddress(upper.src, p.src, upper.head.fw_in_any)
    BY <2>1, <2>2, <2>3, <2>4, <2>5, <2>6, AddressCovers DEF Shades, Comparable, Overlooked
  <2>8. InAddress(upper.dst, p.dst, upper.head.fw_in_any)
    BY <2>1, <2>2, <2>3, <2>4, <2>5, <2>6, AddressCovers DEF Shades, Comparable, Overlooked
  <2>9. InService(upper.srv, p)
    BY <2>1, <2>2, <2>3, <2>4, <2>6, ServiceCovers DEF Shades, Overlooked
  <2>10. InLimit(upper.head, p)
    BY <2>1, <2>2, <2>3, LimitCovers DEF Shades, Matches
  <2>11. upper.itf \in {AnyItf, p.itf}
    BY <2>2, <2>5 DEF Matches, InterfaceShades
  <2>12. upper.head.dir \in {"Both", p.dir} /\ upper.head.always
    BY <2>2 DEF Matches, Overlooked
  <2>13. upper.head.neg = {}
    BY <2>5 DEF Comparable
  <2>14. Matches(upper, p)
    <3>1. "src" \notin upper.head.neg /\ "dst" \notin upper.head.neg /\ "srv" \notin upper.head.neg
      BY <2>13
    <3>2. QED
      BY <2>7, <2>8, <2>9, <2>10, <2>11, <2>12, <3>1 DEF Matches
  <2>15. QED
    BY <2>14 DEF upper
<1>2. QED
  BY <1>1, SearchCorrect, TypeCorrect, PTL
=============================================================================
