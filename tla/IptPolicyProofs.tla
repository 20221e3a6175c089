-------------------------- MODULE IptPolicyProofs --------------------------
(***************************************************************************)
(* What the queues of IptPolicy hold, for any objects, services,           *)
(* interfaces and policies: every processor takes rules of a policy and    *)
(* puts out such rules, and a rule for a chain of the firewall's own       *)
(* packets never has the direction such packets do not have.  One lemma    *)
(* for each processor says what it puts out; the steps of the queues       *)
(* follow from them.                                                       *)
(***************************************************************************)
EXTENDS IptPolicy, SequenceTheorems, FiniteSetTheorems, FunctionTheorems, TLAPS

Directions == {"Both", "Inbound", "Outbound"}
Actions == {"Accept", "Deny", "Continue", "Return"}
Elem(S) == [neg : BOOLEAN, single : BOOLEAN, objs : SUBSET S]
Addrs == Elem(Obj)
Services == Elem(Srv \cup {AnyTCP})
Interfaces == Elem(Iface \cup {AllIfaces})

\* chains and targets
Kinds == {"", "INPUT", "OUTPUT", "FORWARD", "C", "RULE", "LOG", "ACCEPT", "DROP",
          "RETURN", ".CONTINUE"}
Sides == Directions \cup {""}
Quad(k, n, m, d) == <<k, n, m, d>>
Chains == {Quad(k, n, m, d) : k \in Kinds, n \in Nat, m \in Nat, d \in Sides}

SuffixValues == 0..3

Rules(N) ==
  [src : Addrs, dst : Addrs, srv : Services, itf : Interfaces,
   dir : Directions, action : Actions, log : BOOLEAN, pos : 1..N,
   chain : Chains, target : Chains, suffix : SuffixValues,
   noOutput : BOOLEAN, noInput : BOOLEAN, upNeg : BOOLEAN, final : BOOLEAN]

\* Before FinalizeChain the direction of a rule goes with its chain, behind it the
\* two do not contradict each other: FinalizeChain takes INPUT for "Both" as well.
Directed(r) == /\ r.chain = Input => r.dir = "Inbound"
               /\ r.chain = Output => r.dir = "Outbound"
Fits(r) == /\ r.chain = Input => r.dir # "Outbound"
           /\ r.chain = Output => r.dir # "Inbound"

Early(N) == {r \in Rules(N) : Directed(r)}
Late(N) == {r \in Rules(N) : Fits(r)}

-----------------------------------------------------------------------------
(* Chains, elements and sequences *)

LEMMA Quads ==
  ASSUME NEW k \in Kinds, NEW n \in Nat, NEW m \in Nat, NEW d \in Sides
  PROVE  Quad(k, n, m, d) \in Chains
BY DEF Chains

LEMMA NamedChains == \A k \in Kinds : Named(k) \in Chains
<1>1. TAKE k \in Kinds
<1>2. Named(k) = Quad(k, 0, 0, "")
  BY DEF Named, Quad
<1>3. 0 \in Nat
  OBVIOUS
<1>4. "" \in Sides
  BY DEF Sides
<1>5. QED
  BY <1>2, <1>3, <1>4, Quads

LEMMA ChainNames ==
  /\ Input \in Chains /\ Output \in Chains /\ Forward \in Chains /\ Unset \in Chains
  /\ Input # Output /\ Input # Unset /\ Output # Unset /\ Input # Forward /\ Output # Forward
<1>1. Input \in Chains /\ Output \in Chains /\ Forward \in Chains /\ Unset \in Chains
  BY NamedChains DEF Input, Output, Forward, Unset, Kinds
<1>2. Input # Output
  BY DEF Input, Output, Named
<1>3. Input # Unset
  BY DEF Input, Unset, Named
<1>4. Output # Unset
  BY DEF Unset, Output, Named
<1>5. Input # Forward
  BY DEF Input, Forward, Named
<1>6. Output # Forward
  BY DEF Forward, Output, Named
<1>7. QED
  BY <1>1, <1>2, <1>3, <1>4, <1>5, <1>6

\* the chains that are not the firewall's own
Inner == {c \in Chains : c # Input /\ c # Output}

LEMMA LogChains ==
  ASSUME NEW N \in Nat, NEW r \in Rules(N)
  PROVE  LogChain(r) \in Inner
<1>1. r.pos \in Nat /\ r.suffix \in Nat /\ r.dir \in Directions
  BY DEF Rules, SuffixValues
<1>2. LogChain(r) = Quad("RULE", r.pos, r.suffix, r.dir)
  BY DEF LogChain, Quad
<1>3. r.dir \in Sides /\ "RULE" \in Kinds
  BY <1>1 DEF Sides, Kinds
<1>4. LogChain(r) \in Chains
  BY <1>1, <1>2, <1>3, Quads
<1>5. LogChain(r) # Input
  BY DEF LogChain, Input, Named
<1>6. LogChain(r) # Output
  BY DEF LogChain, Output, Named
<1>7. QED
  BY <1>4, <1>5, <1>6 DEF Inner

LEMMA SuffixNumbers == 0 \in SuffixValues /\ 1 \in SuffixValues /\ 2 \in SuffixValues /\ 3 \in SuffixValues
BY DEF SuffixValues

LEMMA Seqs ==
  ASSUME NEW S
  PROVE  /\ <<>> \in Seq(S)
         /\ \A x \in S : <<x>> \in Seq(S)
         /\ \A x, y \in S : <<x, y>> \in Seq(S)
         /\ \A x, y, z \in S : <<x, y, z>> \in Seq(S)
OBVIOUS

LEMMA ElementParts ==
  ASSUME NEW S, NEW e \in Elem(S)
  PROVE  /\ e.neg \in BOOLEAN /\ e.single \in BOOLEAN /\ e.objs \subseteq S
         /\ Reset(e) \in Elem(S)
         /\ \A b \in BOOLEAN : [e EXCEPT !.neg = b] \in Elem(S)
         /\ \A b \in BOOLEAN : [e EXCEPT !.single = b] \in Elem(S)
         /\ \A T \in SUBSET S : [e EXCEPT !.objs = T] \in Elem(S)
BY DEF Elem, Reset

(* Any order SetToSeq chooses for a finite set is a sequence of its members. *)
LEMMA Sequence ==
  ASSUME NEW S, NEW T, IsFiniteSet(S), S \subseteq T
  PROVE  SetToSeq(S) \in Seq(T)
<1>1. PICK n \in Nat : ExistsBijection(1..n, S)
  BY FS_NatBijection
<1>2. Cardinality(S) \in Nat /\ ExistsBijection(1..Cardinality(S), S)
  BY FS_CardinalityType
<1>3. PICK f \in Bijection(1..Cardinality(S), S) : TRUE
  BY <1>2 DEF ExistsBijection
<1>4. f \in [1..Cardinality(S) -> S] /\ IsInjective(f)
  BY <1>3 DEF Bijection, Injection, IsInjective
<1>5. SetToSeq(S) \in [1..Cardinality(S) -> S]
  BY <1>4 DEF SetToSeq
<1>6. QED
  BY <1>2, <1>5

LEMMA FiniteElements ==
  ASSUME NEW N \in Nat, NEW r \in Rules(N)
  PROVE  IsFiniteSet(r.src.objs) /\ IsFiniteSet(r.dst.objs) /\ IsFiniteSet(r.itf.objs)
<1>1. /\ r.src.objs \subseteq Obj /\ r.dst.objs \subseteq Obj
      /\ r.itf.objs \subseteq Iface \cup {AllIfaces}
  BY DEF Rules, Addrs, Interfaces, Elem
<1>2. IsFiniteSet(Obj) /\ IsFiniteSet(Iface)
  BY ObjAssumption
<1>3. IsFiniteSet(Iface \cup {AllIfaces})
  BY <1>2, FS_AddElement
<1>4. QED
  BY <1>1, <1>2, <1>3, FS_Subset

LEMMA AtomsFinite ==
  ASSUME NEW e \in Addrs, IsFiniteSet(e.objs)
  PROVE  /\ IsFiniteSet({Only(e, o) : o \in e.objs})
         /\ {Only(e, o) : o \in e.objs} \subseteq Addrs
<1> DEFINE T == {Only(e, o) : o \in e.objs}
           f == [o \in e.objs |-> Only(e, o)]
<1>1. f \in Surjection(e.objs, T)
  BY DEF Surjection
<1>2. IsFiniteSet(T)
  BY <1>1, FS_Surjection DEF ExistsSurjection
<1>3. \A o \in e.objs : Only(e, o) \in Addrs
  BY DEF Only, Addrs, Elem
<1>4. QED
  BY <1>2, <1>3
-----------------------------------------------------------------------------
(* The processors before FinalizeChain *)

LEMMA ItfNegationStages ==
  ASSUME NEW N \in Nat, NEW r \in Early(N)
  PROVE  /\ SingleItfNegation(r) \in Seq(Early(N))
         /\ ItfNegation(r) \in Seq(Early(N))
         /\ InterfaceAndDirection(r) \in Seq(Early(N))
<1> DEFINE p == [r EXCEPT !.itf.neg = FALSE, !.itf.single = TRUE]
           q == [r EXCEPT !.itf.neg = FALSE, !.itf.objs = Iface \ @]
           s == [r EXCEPT !.itf.objs = {AllIfaces}]
<1>1. r \in Rules(N) /\ Directed(r)
  BY DEF Early
<1>2. p \in Rules(N) /\ p.chain = r.chain /\ p.dir = r.dir
  BY <1>1 DEF Rules, Interfaces, Elem
<1>3. q \in Rules(N) /\ q.chain = r.chain /\ q.dir = r.dir
  BY <1>1 DEF Rules, Interfaces, Elem
<1>4. s \in Rules(N) /\ s.chain = r.chain /\ s.dir = r.dir
  BY <1>1 DEF Rules, Interfaces, Elem
<1>5. p \in Early(N) /\ q \in Early(N) /\ s \in Early(N)
  BY <1>1, <1>2, <1>3, <1>4 DEF Early, Directed
<1>6. SingleItfNegation(r) \in Seq(Early(N))
  BY <1>5, Seqs DEF SingleItfNegation
<1>7. ItfNegation(r) \in Seq(Early(N))
  BY <1>5, Seqs DEF ItfNegation
<1>8. InterfaceAndDirection(r) \in Seq(Early(N))
  BY <1>5, Seqs DEF InterfaceAndDirection
<1>9. QED
  BY <1>6, <1>7, <1>8

(* Only a rule of both directions is split, and it has no chain of the *)
(* firewall's own packets. *)
LEMMA BothDirectionsStages ==
  ASSUME NEW N \in Nat, NEW r \in Early(N)
  PROVE  /\ SplitIfIfaceAndDirectionBoth(r) \in Seq(Early(N))
         /\ SpecialCaseWithFW1(r) \in Seq(Early(N))
<1> DEFINE p == [r EXCEPT !.dir = "Inbound"]
           q == [r EXCEPT !.dir = "Outbound"]
<1>1. r \in Rules(N) /\ Directed(r)
  BY DEF Early
<1>2. p \in Rules(N) /\ q \in Rules(N) /\ p.chain = r.chain /\ q.chain = r.chain
  BY <1>1 DEF Rules, Directions
<1>3. ASSUME Both(r) PROVE p \in Early(N) /\ q \in Early(N)
  BY <1>1, <1>2, <1>3 DEF Early, Directed, Both
<1>4. SplitIfIfaceAndDirectionBoth(r) \in Seq(Early(N))
  <2>1. CASE ~IsAny(r.itf) /\ Both(r)
    BY <1>3, <2>1, Seqs DEF SplitIfIfaceAndDirectionBoth
  <2>2. CASE ~(~IsAny(r.itf) /\ Both(r))
    BY <2>2, Seqs DEF SplitIfIfaceAndDirectionBoth
  <2>3. QED
    BY <2>1, <2>2
<1>5. SpecialCaseWithFW1(r) \in Seq(Early(N))
  <2>1. CASE FirstIsFw(r.src) /\ FirstIsFw(r.dst) /\ Both(r)
    BY <1>3, <2>1, Seqs DEF SpecialCaseWithFW1
  <2>2. CASE ~(FirstIsFw(r.src) /\ FirstIsFw(r.dst) /\ Both(r))
    BY <2>2, Seqs DEF SpecialCaseWithFW1
  <2>3. QED
    BY <2>1, <2>2
<1>6. QED
  BY <1>4, <1>5

LEMMA SingleNegationStages ==
  ASSUME NEW N \in Nat, NEW r \in Early(N)
  PROVE  /\ SingleNegation(r, "src") \in Seq(Early(N))
         /\ SingleNegation(r, "dst") \in Seq(Early(N))
<1> DEFINE p == [r EXCEPT !["src"].neg = FALSE, !["src"].single = TRUE]
           q == [r EXCEPT !["dst"].neg = FALSE, !["dst"].single = TRUE]
<1>1. r \in Rules(N) /\ Directed(r)
  BY DEF Early
<1>2. p \in Rules(N) /\ p.chain = r.chain /\ p.dir = r.dir
  BY <1>1 DEF Rules, Addrs, Elem
<1>3. q \in Rules(N) /\ q.chain = r.chain /\ q.dir = r.dir
  BY <1>1 DEF Rules, Addrs, Elem
<1>4. p \in Early(N) /\ q \in Early(N)
  BY <1>1, <1>2, <1>3 DEF Early, Directed
<1>5. QED
  BY <1>4, Seqs DEF SingleNegation

LEMMA SplitIfSrcNegAndFwStage ==
  ASSUME NEW N \in Nat, NEW r \in Early(N)
  PROVE  SplitIfSrcNegAndFw(r) \in Seq(Early(N))
<1> DEFINE fw == {o \in r.src.objs : FwLike(o)}
           p == [r EXCEPT !.chain = Output, !.dir = "Outbound", !.src.objs = fw]
           q == [r EXCEPT !.noOutput = TRUE, !.src.objs = @ \ fw,
                          !.src.neg = ~(r.src.objs \subseteq fw)]
<1>1. r \in Rules(N) /\ Directed(r)
  BY DEF Early
<1> HIDE DEF fw
<1>2. fw \subseteq r.src.objs
  BY DEF fw
<1>3. p \in Rules(N) /\ p.chain = Output /\ p.dir = "Outbound"
  BY <1>1, <1>2, ChainNames DEF Rules, Addrs, Elem, Directions
<1>4. q \in Rules(N) /\ q.chain = r.chain /\ q.dir = r.dir
  BY <1>1, <1>2 DEF Rules, Addrs, Elem
<1>5. p \in Early(N) /\ q \in Early(N)
  BY <1>1, <1>3, <1>4, ChainNames DEF Early, Directed
<1>6. SplitIfSrcNegAndFw(r) = <<p, q>> \/ SplitIfSrcNegAndFw(r) = <<r>>
  BY DEF SplitIfSrcNegAndFw, SplitIfNegAndFw, fw
<1>7. QED
  BY <1>5, <1>6, Seqs

LEMMA SplitIfDstNegAndFwStage ==
  ASSUME NEW N \in Nat, NEW r \in Early(N)
  PROVE  SplitIfDstNegAndFw(r) \in Seq(Early(N))
<1> DEFINE fw == {o \in r.dst.objs : FwLike(o)}
           p == [r EXCEPT !.chain = Input, !.dir = "Inbound", !.dst.objs = fw]
           q == [r EXCEPT !.noInput = TRUE, !.dst.objs = @ \ fw,
                          !.dst.neg = ~(r.dst.objs \subseteq fw)]
<1>1. r \in Rules(N) /\ Directed(r)
  BY DEF Early
<1> HIDE DEF fw
<1>2. fw \subseteq r.dst.objs
  BY DEF fw
<1>3. p \in Rules(N) /\ p.chain = Input /\ p.dir = "Inbound"
  BY <1>1, <1>2, ChainNames DEF Rules, Addrs, Elem, Directions
<1>4. q \in Rules(N) /\ q.chain = r.chain /\ q.dir = r.dir
  BY <1>1, <1>2 DEF Rules, Addrs, Elem
<1>5. p \in Early(N) /\ q \in Early(N)
  BY <1>1, <1>3, <1>4, ChainNames DEF Early, Directed
<1>6. SplitIfDstNegAndFw(r) = <<p, q>> \/ SplitIfDstNegAndFw(r) = <<r>>
  BY DEF SplitIfDstNegAndFw, SplitIfNegAndFw, fw
<1>7. QED
  BY <1>5, <1>6, Seqs

LEMMA FinalServices ==
  ASSUME NEW N \in Nat, NEW r \in Rules(N)
  PROVE  FinalSrv(r) \in Services
BY DEF FinalSrv, Reset, Rules, Services, Elem

LEMMA NegationStage ==
  ASSUME NEW N \in Nat, NEW r \in Early(N), NEW c \in Inner
  PROVE  /\ Negation(r, "srv", c) \in Seq(Early(N))
         /\ Negation(r, "src", c) \in Seq(Early(N))
         /\ Negation(r, "dst", c) \in Seq(Early(N))
<1>1. r \in Rules(N) /\ Directed(r)
  BY DEF Early
<1>2. c \in Chains /\ c # Input /\ c # Output
  BY DEF Inner
<1>3. /\ r.src \in Addrs /\ r.dst \in Addrs /\ r.srv \in Services /\ r.itf \in Interfaces
      /\ Reset(r.src) \in Addrs /\ Reset(r.dst) \in Addrs /\ Reset(r.srv) \in Services
      /\ Reset(r.itf) \in Interfaces
      /\ [r.src EXCEPT !.neg = FALSE] \in Addrs /\ [r.dst EXCEPT !.neg = FALSE] \in Addrs
      /\ [r.srv EXCEPT !.neg = FALSE] \in Services
  BY <1>1, ElementParts DEF Rules, Addrs, Services, Interfaces
<1>4. Unset \in Chains /\ FinalSrv(r) \in Services
  BY <1>1, ChainNames, FinalServices
<1>5. ASSUME NEW el \in {"src", "dst", "srv"}
      PROVE  Jump(r, el, c) \in Early(N)
  <2> DEFINE up == r.upNeg \/ el # "srv"
             j == Jump(r, el, c)
  <2>1. up \in BOOLEAN
    OBVIOUS
  <2> HIDE DEF up
  <2>2. j = [r EXCEPT ![el] = Reset(@), !.log = FALSE, !.target = c, !.suffix = 1,
                      !.upNeg = up]
    BY DEF Jump, up
  <2>3. j \in Rules(N) /\ j.chain = r.chain /\ j.dir = r.dir
    <3>1. CASE el = "src"
      BY <1>1, <1>2, <1>3, <2>1, <2>2, SuffixNumbers, <3>1 DEF Rules
    <3>2. CASE el = "dst"
      BY <1>1, <1>2, <1>3, <2>1, <2>2, SuffixNumbers, <3>2 DEF Rules
    <3>3. CASE el = "srv"
      BY <1>1, <1>2, <1>3, <2>1, <2>2, SuffixNumbers, <3>3 DEF Rules
    <3>4. QED
      BY <1>5, <3>1, <3>2, <3>3
  <2>4. QED
    BY <1>1, <2>3 DEF Early, Directed
<1>6. ASSUME NEW el \in {"src", "dst", "srv"}
      PROVE  Return(r, el, c) \in Early(N)
  <2> DEFINE kept(x) == IF x = el THEN [r[x] EXCEPT !.neg = FALSE] ELSE Reset(r[x])
             up == r.upNeg \/ el # "srv"
             t == Return(r, el, c)
  <2>1. kept("src") \in Addrs /\ kept("dst") \in Addrs /\ kept("srv") \in Services
    BY <1>3
  <2>2. up \in BOOLEAN
    OBVIOUS
  <2> HIDE DEF kept, up
  <2>3. t = [r EXCEPT !.src = kept("src"), !.dst = kept("dst"), !.srv = kept("srv"),
                      !.itf = Reset(@), !.action = "Return", !.log = FALSE,
                      !.chain = c, !.target = Unset, !.suffix = 2, !.upNeg = up]
    BY DEF Return, kept, up
  <2>4. t \in Rules(N) /\ t.chain = c
    <3>1. "Return" \in Actions
      BY DEF Actions
    <3> DEFINE u == [r EXCEPT !.src = kept("src"), !.dst = kept("dst"),
                              !.srv = kept("srv"), !.itf = Reset(@)]
               v == [u EXCEPT !.action = "Return", !.log = FALSE, !.chain = c,
                              !.target = Unset, !.suffix = 2, !.upNeg = up]
    <3>2. u \in Rules(N)
      BY <1>1, <1>3, <2>1 DEF Rules
    <3>3. t = v
      BY <2>3
    <3> HIDE DEF t, u
    <3>4. v \in Rules(N) /\ v.chain = c
      BY <1>2, <1>4, <2>2, <3>1, <3>2, SuffixNumbers DEF Rules
    <3>5. QED
      BY <3>3, <3>4
  <2>5. QED
    BY <1>2, <2>4 DEF Early, Directed
<1>7. ASSUME NEW el \in {"src", "dst", "srv"}
      PROVE  Rest(r, el, c) \in Early(N)
  <2> DEFINE srv == IF el = "srv" THEN Reset(r.srv) ELSE FinalSrv(r)
             t == Rest(r, el, c)
  <2>1. srv \in Services
    BY <1>3, <1>4
  <2> HIDE DEF srv
  <2>2. t = [r EXCEPT !.src = Reset(@), !.dst = Reset(@), !.itf = Reset(@), !.srv = srv,
                      !.chain = c, !.suffix = 3, !.final = TRUE, !.upNeg = TRUE]
    BY DEF Rest, srv
  <2>3. t \in Rules(N) /\ t.chain = c
    BY <1>1, <1>2, <1>3, <2>1, <2>2, SuffixNumbers DEF Rules
  <2>4. QED
    BY <1>2, <2>3 DEF Early, Directed
<1>8. QED
  BY <1>5, <1>6, <1>7, Seqs DEF Negation

LEMMA LogStage ==
  ASSUME NEW N \in Nat, NEW r \in Early(N)
  PROVE  Logging2(r) \in Seq(Early(N))
<1> DEFINE c == LogChain(r)
           bare == [r EXCEPT !.src = Reset(@), !.dst = Reset(@), !.itf = Reset(@),
                             !.chain = c, !.dir = "Both", !.log = FALSE]
           p == [r EXCEPT !.target = c, !.log = FALSE, !.action = "Continue"]
           q == [bare EXCEPT !.srv = Reset(@), !.target = Named("LOG"), !.action = "Continue"]
           s == [bare EXCEPT !.srv = FinalSrv(r), !.final = TRUE]
           t == [r EXCEPT !.target = Named("LOG")]
<1>1. r \in Rules(N) /\ Directed(r)
  BY DEF Early
<1>2. c \in Inner
  BY <1>1, LogChains
<1> HIDE DEF c
<1>3. c \in Chains /\ c # Input /\ c # Output /\ Named("LOG") \in Chains
  BY <1>2, NamedChains DEF Inner, Kinds
<1>4. /\ Reset(r.src) \in Addrs /\ Reset(r.dst) \in Addrs
      /\ Reset(r.itf) \in Interfaces /\ FinalSrv(r) \in Services
  BY <1>1, ElementParts, FinalServices DEF Rules, Addrs, Services, Interfaces
<1>5. "Both" \in Directions /\ "Continue" \in Actions
  BY DEF Directions, Actions
<1>6. bare \in Rules(N) /\ bare.chain = c
  BY <1>1, <1>3, <1>4, <1>5 DEF Rules
<1>7. p \in Rules(N) /\ p.chain = r.chain /\ p.dir = r.dir
  BY <1>1, <1>3, <1>5 DEF Rules
<1>8. q \in Rules(N) /\ q.chain = c
  <2>1. Reset(bare.srv) \in Services
    BY <1>6, ElementParts DEF Rules, Services
  <2> HIDE DEF bare
  <2>2. QED
    BY <1>3, <1>5, <1>6, <2>1 DEF Rules
<1>9. s \in Rules(N) /\ s.chain = c
  <2> HIDE DEF bare
  <2>1. QED
    BY <1>4, <1>6 DEF Rules
<1>10. t \in Rules(N) /\ t.chain = r.chain /\ t.dir = r.dir
  BY <1>1, <1>3 DEF Rules
<1>11. p \in Early(N) /\ q \in Early(N) /\ s \in Early(N) /\ t \in Early(N)
  BY <1>1, <1>3, <1>7, <1>8, <1>9, <1>10 DEF Early, Directed
<1>12. LogAndAct(r) = <<p, q, s>>
  BY DEF LogAndAct, c
<1>13. QED
  BY <1>11, <1>12, Seqs DEF Logging2

(* A rule sent to a chain of the firewall's own packets, as six processors do it. *)
LEMMA OwnChains ==
  ASSUME NEW N \in Nat, NEW r \in Early(N)
  PROVE  /\ [r EXCEPT !.chain = Output, !.dir = "Outbound"] \in Early(N)
         /\ [r EXCEPT !.chain = Input, !.dir = "Inbound"] \in Early(N)
<1> DEFINE p == [r EXCEPT !.chain = Output, !.dir = "Outbound"]
           q == [r EXCEPT !.chain = Input, !.dir = "Inbound"]
<1>1. p \in Rules(N) /\ p.chain = Output /\ p.dir = "Outbound"
  BY ChainNames DEF Early, Rules, Directions
<1>2. q \in Rules(N) /\ q.chain = Input /\ q.dir = "Inbound"
  BY ChainNames DEF Early, Rules, Directions
<1>3. QED
  BY <1>1, <1>2, ChainNames DEF Early, Directed

LEMMA OwnChainStages ==
  ASSUME NEW N \in Nat, NEW r \in Early(N)
  PROVE  /\ SplitIfSrcAny(r) \in Seq(Early(N))
         /\ SplitIfDstAny(r) \in Seq(Early(N))
         /\ DecideOnChainIfDstFW(r) \in Seq(Early(N))
         /\ DecideOnChainIfSrcFW(r) \in Seq(Early(N))
         /\ SplitIfSrcFWNetwork(r) \in Seq(Early(N))
         /\ SplitIfDstFWNetwork(r) \in Seq(Early(N))
<1> DEFINE p == [r EXCEPT !.chain = Output, !.dir = "Outbound"]
           q == [r EXCEPT !.chain = Input, !.dir = "Inbound"]
<1>1. p \in Early(N) /\ q \in Early(N)
  BY OwnChains
<1>2. /\ <<p, r>> \in Seq(Early(N)) /\ <<q, r>> \in Seq(Early(N))
      /\ <<p>> \in Seq(Early(N)) /\ <<q>> \in Seq(Early(N)) /\ <<r>> \in Seq(Early(N))
  BY <1>1, Seqs
<1>3. SplitIfSrcAny(r) \in Seq(Early(N))
  BY <1>2 DEF SplitIfSrcAny
<1>4. SplitIfDstAny(r) \in Seq(Early(N))
  BY <1>2 DEF SplitIfDstAny
<1>5. DecideOnChainIfDstFW(r) \in Seq(Early(N))
  BY <1>2 DEF DecideOnChainIfDstFW
<1>6. DecideOnChainIfSrcFW(r) \in Seq(Early(N))
  BY <1>2 DEF DecideOnChainIfSrcFW
<1>7. SplitIfSrcFWNetwork(r) \in Seq(Early(N))
  BY <1>2 DEF SplitIfSrcFWNetwork
<1>8. SplitIfDstFWNetwork(r) \in Seq(Early(N))
  BY <1>2 DEF SplitIfDstFWNetwork
<1>9. QED
  BY <1>3, <1>4, <1>5, <1>6, <1>7, <1>8

LEMMA Counted ==
  ASSUME NEW n \in Nat, NEW S, NEW f \in [1..n -> S]
  PROVE  f \in Seq(S)
OBVIOUS

LEMMA SplitIfMatchesFwStages ==
  ASSUME NEW N \in Nat, NEW r \in Early(N)
  PROVE  /\ SplitIfMatchesFw(r, "src") \in Seq(Early(N))
         /\ SplitIfMatchesFw(r, "dst") \in Seq(Early(N))
<1>1. r \in Rules(N) /\ Directed(r)
  BY DEF Early
<1>2. ASSUME NEW el \in {"src", "dst"}
      PROVE  SplitIfMatchesFw(r, el) \in Seq(Early(N))
  <2> DEFINE all == r[el].objs
             fw == {o \in all : FwLike(o)}
             out == IF fw # all THEN fw ELSE fw \ {First(r[el])}
             own == SetToSeq(out)
             part(S) == [r EXCEPT ![el].objs = S]
  <2>1. all \subseteq Obj /\ IsFiniteSet(all)
    BY <1>1, FiniteElements DEF Rules, Addrs, Elem
  <2>2. \A S \in SUBSET Obj : part(S) \in Early(N)
    <3>1. TAKE S \in SUBSET Obj
    <3>2. part(S) \in Rules(N) /\ part(S).chain = r.chain /\ part(S).dir = r.dir
      <4>1. [r.src EXCEPT !.objs = S] \in Addrs /\ [r.dst EXCEPT !.objs = S] \in Addrs
        BY <1>1, ElementParts DEF Rules, Addrs
      <4>2. CASE el = "src"
        BY <1>1, <4>1, <4>2 DEF Rules
      <4>3. CASE el = "dst"
        BY <1>1, <4>1, <4>3 DEF Rules
      <4>4. QED
        BY <1>2, <4>2, <4>3
    <3>3. QED
      BY <1>1, <3>2 DEF Early, Directed
  <2>3. out \subseteq all
    OBVIOUS
  <2>4. own \in Seq(Obj)
    BY <2>1, <2>3, FS_Subset, Sequence
  <2> HIDE DEF fw, out, own, part
  <2>5. [i \in 1..Len(own) |-> part({own[i]})] \in Seq(Early(N))
    <3>1. Len(own) \in Nat /\ \A i \in 1..Len(own) : own[i] \in Obj
      BY <2>4
    <3>2. [i \in 1..Len(own) |-> part({own[i]})] \in [1..Len(own) -> Early(N)]
      BY <2>2, <3>1
    <3>3. QED
      BY <3>1, <3>2, Counted
  <2>6. part(all \ out) \in Early(N)
    BY <2>1, <2>2
  <2>7. Append([i \in 1..Len(own) |-> part({own[i]})], part(all \ out)) \in Seq(Early(N))
    BY <2>5, <2>6
  <2>8. \/ SplitIfMatchesFw(r, el) = <<r>>
        \/ SplitIfMatchesFw(r, el)
             = Append([i \in 1..Len(own) |-> part({own[i]})], part(all \ out))
    BY DEF SplitIfMatchesFw, own, out, fw, part
  <2>9. QED
    BY <2>7, <2>8, Seqs
<1>3. QED
  BY <1>2

LEMMA InterfacesStage ==
  ASSUME NEW N \in Nat, NEW r \in Early(N)
  PROVE  InterfacePolicyRules(r) \in Seq(Early(N))
<1> DEFINE each == SetToSeq(r.itf.objs)
           one(o) == [r EXCEPT !.itf = Only(Reset(@), o)]
<1>1. r \in Rules(N) /\ Directed(r)
  BY DEF Early
<1>2. each \in Seq(Iface \cup {AllIfaces})
  BY <1>1, FiniteElements, Sequence DEF Rules, Interfaces, Elem
<1>3. \A o \in Iface \cup {AllIfaces} : one(o) \in Early(N)
  <2>1. TAKE o \in Iface \cup {AllIfaces}
  <2>2. Only(Reset(r.itf), o) \in Interfaces
    BY <1>1 DEF Only, Reset, Rules, Interfaces, Elem
  <2>3. one(o) \in Rules(N) /\ one(o).chain = r.chain /\ one(o).dir = r.dir
    BY <1>1, <2>2 DEF Rules
  <2>4. QED
    BY <1>1, <2>3 DEF Early, Directed
<1> HIDE DEF each, one
<1>4. Len(each) \in Nat /\ \A i \in 1..Len(each) : each[i] \in Iface \cup {AllIfaces}
  BY <1>2
<1>5. [i \in 1..Len(each) |-> one(each[i])] \in [1..Len(each) -> Early(N)]
  BY <1>3, <1>4
<1>6. [i \in 1..Len(each) |-> one(each[i])] \in Seq(Early(N))
  BY <1>4, <1>5, Counted
<1>7. \/ InterfacePolicyRules(r) = <<r>>
      \/ InterfacePolicyRules(r) = [i \in 1..Len(each) |-> one(each[i])]
  BY DEF InterfacePolicyRules, each, one
<1>8. QED
  BY <1>6, <1>7, Seqs

-----------------------------------------------------------------------------
(* FinalizeChain and the processors behind it *)

(* What FinalizeChain takes over: a chain of the firewall's own packets only  *)
(* for a direction that does not contradict it.                               *)
LEMMA FinalizeChainStage ==
  ASSUME NEW N \in Nat, NEW r \in Early(N)
  PROVE  FinalizeChain(r) \in Seq(Late(N))
<1> DEFINE c == FinalChain(r)
           p == [r EXCEPT !.chain = c]
<1>1. r \in Rules(N) /\ Directed(r)
  BY DEF Early
<1>2. /\ c \in {r.chain, Input, Output, Forward}
      /\ r.chain # Unset => c = r.chain
      /\ r.chain = Unset /\ c = Input => r.dir # "Outbound"
      /\ r.chain = Unset /\ c = Output => r.dir # "Inbound"
  <2>1. CASE r.chain # Unset
    BY <2>1 DEF FinalChain
  <2>2. CASE r.chain = Unset
    BY <2>2, ChainNames DEF FinalChain
  <2>3. QED
    BY <2>1, <2>2
<1> HIDE DEF c
<1>3. p \in Rules(N) /\ p.chain = c /\ p.dir = r.dir
  BY <1>1, <1>2, ChainNames DEF Rules
<1>4. Fits(p)
  <2>1. CASE r.chain # Unset
    BY <1>1, <1>2, <1>3, <2>1 DEF Fits, Directed
  <2>2. CASE r.chain = Unset
    BY <1>2, <1>3, <2>2 DEF Fits
  <2>3. QED
    BY <2>1, <2>2
<1>5. p \in Late(N)
  BY <1>3, <1>4 DEF Late
<1>6. FinalizeChain(r) = << >> \/ FinalizeChain(r) = <<p>>
  BY DEF FinalizeChain, c
<1>7. QED
  BY <1>5, <1>6, Seqs

LEMMA FwOutboundStage ==
  ASSUME NEW N \in Nat, NEW r \in Late(N)
  PROVE  SpecialCaseWithFWInDstAndOutbound(r) \in Seq(Late(N))
BY Seqs DEF SpecialCaseWithFWInDstAndOutbound

LEMMA TargetStage ==
  ASSUME NEW N \in Nat, NEW r \in Late(N)
  PROVE  DecideOnTarget(r) \in Seq(Late(N))
<1>1. r \in Rules(N) /\ Fits(r)
  BY DEF Late
<1>2. \A t \in Chains : [r EXCEPT !.target = t] \in Late(N)
  <2>1. TAKE t \in Chains
  <2> DEFINE p == [r EXCEPT !.target = t]
  <2>2. p \in Rules(N) /\ p.chain = r.chain /\ p.dir = r.dir
    BY <1>1 DEF Rules
  <2>3. QED
    BY <1>1, <2>2 DEF Late, Fits
<1>3. /\ Named("ACCEPT") \in Chains /\ Named("DROP") \in Chains
      /\ Named("RETURN") \in Chains /\ Named(".CONTINUE") \in Chains
  BY NamedChains DEF Kinds
<1>4. r.action \in Actions
  BY <1>1 DEF Rules
<1>5. \/ DecideOnTarget(r) = <<r>>
      \/ \E t \in Chains : DecideOnTarget(r) = <<[r EXCEPT !.target = t]>>
  <2>1. CASE r.action = "Accept"
    BY <1>3, <2>1 DEF DecideOnTarget
  <2>2. CASE r.action = "Deny"
    BY <1>3, <2>2 DEF DecideOnTarget
  <2>3. CASE r.action = "Return"
    BY <1>3, <2>3 DEF DecideOnTarget
  <2>4. CASE r.action = "Continue"
    BY <1>3, <2>4 DEF DecideOnTarget
  <2>5. QED
    BY <1>4, <2>1, <2>2, <2>3, <2>4 DEF Actions
<1>6. QED
  BY <1>2, <1>5, Seqs

(* A rule with other elements stays where it is. *)
LEMMA OtherElements ==
  ASSUME NEW N \in Nat, NEW r \in Late(N), NEW s \in Addrs, NEW d \in Addrs
  PROVE  [r EXCEPT !.src = s, !.dst = d] \in Late(N)
<1> DEFINE p == [r EXCEPT !.src = s, !.dst = d]
<1>1. r \in Rules(N) /\ Fits(r)
  BY DEF Late
<1>2. p \in Rules(N) /\ p.chain = r.chain /\ p.dir = r.dir
  BY <1>1 DEF Rules
<1>3. QED
  BY <1>1, <1>2 DEF Late, Fits

LEMMA OtherServices ==
  ASSUME NEW N \in Nat, NEW r \in Late(N), NEW v \in Services
  PROVE  [r EXCEPT !.srv = v] \in Late(N)
<1> DEFINE p == [r EXCEPT !.srv = v]
<1>1. r \in Rules(N) /\ Fits(r)
  BY DEF Late
<1>2. p \in Rules(N) /\ p.chain = r.chain /\ p.dir = r.dir
  BY <1>1 DEF Rules
<1>3. QED
  BY <1>1, <1>2 DEF Late, Fits

LEMMA OtherInterfaces ==
  ASSUME NEW N \in Nat, NEW r \in Late(N), NEW v \in Interfaces
  PROVE  [r EXCEPT !.itf = v] \in Late(N)
<1> DEFINE p == [r EXCEPT !.itf = v]
<1>1. r \in Rules(N) /\ Fits(r)
  BY DEF Late
<1>2. p \in Rules(N) /\ p.chain = r.chain /\ p.dir = r.dir
  BY <1>1 DEF Rules
<1>3. QED
  BY <1>1, <1>2 DEF Late, Fits

LEMMA RemoveFWStage ==
  ASSUME NEW N \in Nat, NEW r \in Late(N)
  PROVE  RemoveFW(r) \in Seq(Late(N))
<1> DEFINE drop(e, chain) == IF r.chain = chain /\ ~r.upNeg /\ First(e) = FwObj
                             THEN Reset(e) ELSE e
           d == IF IsAny(r.dst) THEN r.dst ELSE drop(r.dst, Input)
           s == IF IsAny(r.src) THEN r.src ELSE drop(r.src, Output)
<1>1. r.src \in Addrs /\ r.dst \in Addrs /\ Reset(r.src) \in Addrs /\ Reset(r.dst) \in Addrs
  BY ElementParts DEF Late, Rules, Addrs
<1>2. d \in Addrs /\ s \in Addrs
  BY <1>1
<1> HIDE DEF d, s
<1>3. [r EXCEPT !.src = s, !.dst = d] \in Late(N)
  BY <1>2, OtherElements
<1>4. RemoveFW(r) = <<[r EXCEPT !.dst = d, !.src = s]>>
  BY DEF RemoveFW, d, s
<1>5. [r EXCEPT !.dst = d, !.src = s] = [r EXCEPT !.src = s, !.dst = d]
  BY DEF Late, Rules
<1>6. QED
  BY <1>3, <1>4, <1>5, Seqs

LEMMA AddressesStage ==
  ASSUME NEW N \in Nat, NEW r \in Late(N)
  PROVE  ExpandMultipleAddresses(r) \in Seq(Late(N))
<1> DEFINE addresses(e) == IF FwObj \in e.objs
                           THEN [e EXCEPT !.objs = (@ \ {FwObj}) \cup FwAddrObj]
                           ELSE e
<1>1. r.src \in Addrs /\ r.dst \in Addrs
  BY DEF Late, Rules
<1>2. \A e \in Addrs : addresses(e) \in Addrs
  BY ObjAssumption DEF Addrs, Elem
<1> HIDE DEF addresses
<1>3. [r EXCEPT !.src = addresses(r.src), !.dst = addresses(r.dst)] \in Late(N)
  BY <1>1, <1>2, OtherElements
<1>4. ExpandMultipleAddresses(r) = <<[r EXCEPT !.src = addresses(r.src), !.dst = addresses(r.dst)]>>
  BY DEF ExpandMultipleAddresses, addresses
<1>5. QED
  BY <1>3, <1>4, Seqs

LEMMA OptimizeStage ==
  ASSUME NEW N \in Nat, NEW r \in Late(N), NEW el, NEW c \in Inner
  PROVE  OptimizeFor(r, el, c) \in Seq(Late(N))
<1> DEFINE stays(x) == x = el \/ Size(r[x]) = 1
           old(x) == IF stays(x) THEN r[x] ELSE Reset(r[x])
           new(x) == IF stays(x) THEN Reset(r[x]) ELSE r[x]
           p == [r EXCEPT !.src = old("src"), !.dst = old("dst"), !.srv = old("srv"),
                          !.target = c]
           q == [r EXCEPT !.src = new("src"), !.dst = new("dst"), !.srv = new("srv"),
                          !.itf = Reset(@), !.chain = c, !.dir = "Both"]
<1>1. r \in Rules(N) /\ Fits(r) /\ c \in Chains /\ c # Input /\ c # Output
  BY DEF Late, Inner
<1>2. /\ r.src \in Addrs /\ r.dst \in Addrs /\ r.srv \in Services
      /\ Reset(r.src) \in Addrs /\ Reset(r.dst) \in Addrs /\ Reset(r.srv) \in Services
      /\ Reset(r.itf) \in Interfaces
  BY <1>1, ElementParts DEF Rules, Addrs, Services, Interfaces
<1>3. old("src") \in Addrs /\ old("dst") \in Addrs /\ old("srv") \in Services
  BY <1>2
<1>4. new("src") \in Addrs /\ new("dst") \in Addrs /\ new("srv") \in Services
  BY <1>2
<1>5. OptimizeFor(r, el, c) = <<p, q>>
  BY DEF OptimizeFor
<1> HIDE DEF old, new
<1>6. "Both" \in Directions
  BY DEF Directions
<1>7. p \in Rules(N) /\ p.chain = r.chain /\ p.dir = r.dir
  BY <1>1, <1>3 DEF Rules
<1>8. q \in Rules(N) /\ q.chain = c
  BY <1>1, <1>2, <1>4, <1>6 DEF Rules
<1>9. p \in Late(N) /\ q \in Late(N)
  BY <1>1, <1>7, <1>8 DEF Late, Fits
<1>10. QED
  BY <1>5, <1>9, Seqs

LEMMA Optimize2Stage ==
  ASSUME NEW N \in Nat, NEW r \in Late(N)
  PROVE  Optimize2(r) \in Seq(Late(N))
<1>1. Reset(r.srv) \in Services
  BY ElementParts DEF Late, Rules, Services
<1>2. [r EXCEPT !.srv = Reset(r.srv)] \in Late(N)
  BY <1>1, OtherServices
<1>3. QED
  BY <1>2, Seqs DEF Optimize2

LEMMA AtomicStage ==
  ASSUME NEW N \in Nat, NEW r \in Late(N)
  PROVE  ConvertToAtomic(r) \in Seq(Late(N))
<1> DEFINE each(e) == IF IsAny(e) THEN {e} ELSE {Only(e, o) : o \in e.objs}
           atoms == each(r.src) \X each(r.dst)
           pairs == SetToSeq(atoms)
           one(p) == [r EXCEPT !.src = p[1], !.dst = p[2]]
<1>1. r \in Rules(N) /\ r.src \in Addrs /\ r.dst \in Addrs
  BY DEF Late, Rules
<1>2. ASSUME NEW e \in Addrs, IsFiniteSet(e.objs)
      PROVE  IsFiniteSet(each(e)) /\ each(e) \subseteq Addrs
  BY <1>2, AtomsFinite, FS_Singleton
<1> HIDE DEF each
<1>3. IsFiniteSet(each(r.src)) /\ IsFiniteSet(each(r.dst))
      /\ each(r.src) \subseteq Addrs /\ each(r.dst) \subseteq Addrs
  BY <1>1, <1>2, FiniteElements
<1>4. IsFiniteSet(atoms) /\ atoms \subseteq Addrs \X Addrs
  BY <1>3, FS_Product
<1>5. pairs \in Seq(Addrs \X Addrs)
  BY <1>4, Sequence
<1>6. \A p \in Addrs \X Addrs : one(p) \in Late(N)
  <2>1. TAKE p \in Addrs \X Addrs
  <2>2. p[1] \in Addrs /\ p[2] \in Addrs
    OBVIOUS
  <2>3. QED
    BY <2>2, OtherElements
<1>7. ConvertToAtomic(r) = [i \in 1..Len(pairs) |-> one(pairs[i])]
  BY DEF ConvertToAtomic, each
<1> HIDE DEF pairs, one
<1>8. Len(pairs) \in Nat /\ \A i \in 1..Len(pairs) : pairs[i] \in Addrs \X Addrs
  BY <1>5
<1>9. [i \in 1..Len(pairs) |-> one(pairs[i])] \in [1..Len(pairs) -> Late(N)]
  BY <1>6, <1>8
<1>10. QED
  BY <1>7, <1>8, <1>9, Counted

LEMMA LastStages ==
  ASSUME NEW N \in Nat, NEW r \in Late(N)
  PROVE  /\ Optimize3(r) \in Seq(Late(N))
         /\ OptimizeForMinusIOPlus(r) \in Seq(Late(N))
<1>1. Reset(r.itf) \in Interfaces
  BY ElementParts DEF Late, Rules, Interfaces
<1>2. [r EXCEPT !.itf = Reset(r.itf)] \in Late(N)
  BY <1>1, OtherInterfaces
<1>3. Optimize3(r) \in Seq(Late(N))
  BY Seqs DEF Optimize3
<1>4. OptimizeForMinusIOPlus(r) \in Seq(Late(N))
  BY <1>2, Seqs DEF OptimizeForMinusIOPlus
<1>5. QED
  BY <1>3, <1>4

-----------------------------------------------------------------------------
(* The invariant and the steps of the queues *)

Length == Len(policy.rules)

(* What a queue holds: before FinalizeChain, the direction goes with the      *)
(* chain; behind it, it does not contradict it.                               *)
Stage(i, N) == IF i <= 22 THEN Early(N) ELSE Late(N)

Commands ==
  {c \in [pos : Nat, chain : Chains, src : Element, dst : Element,
          srv : SUBSET (Srv \cup {AnyTCP}), in : Element, out : Element, target : Chains] :
     /\ c.chain = Input => c.out.objs = {}
     /\ c.chain = Output => c.in.objs = {}}

QueuesHoldStages ==
  /\ DOMAIN queue = 0..Slurped
  /\ \A i \in 0..Slurped : queue[i] \in Seq(Stage(i, Length))

Inv ==
  /\ policy \in Policies
  /\ QueuesHoldStages
  /\ tmpChainNo \in [1..Length -> Nat]
  /\ printed \in Seq(Commands)
  /\ phase \in {"pull", "print", "done"}

LEMMA Sized == policy \in Policies => Length \in Nat
BY PoliciesAssumption DEF Length

LEMMA FreshRules ==
  ASSUME policy \in Policies, NEW n \in 1..Length
  PROVE  Fresh(policy.rules[n], n) \in Early(Length)
<1> DEFINE User == [src : Written(Obj), dst : Written(Obj), srv : Written(Srv),
                    itf : Written(Iface), dir : {"Both", "Inbound", "Outbound"},
                    action : {"Accept", "Deny", "Continue"}, log : BOOLEAN]
           w == policy.rules[n]
           r == Fresh(w, n)
<1>1. policy.rules \in Seq(User)
  BY PoliciesAssumption
<1>2. w \in User
  <2> HIDE DEF User
  <2>1. QED
    BY <1>1 DEF Length
<1>3. /\ w.src \in Addrs /\ w.dst \in Addrs /\ w.srv \in Services /\ w.itf \in Interfaces
      /\ w.dir \in Directions /\ w.action \in Actions /\ w.log \in BOOLEAN
  BY <1>2 DEF Written, Addrs, Services, Interfaces, Elem, Directions, Actions
<1> HIDE DEF w
<1>4. r \in Rules(Length) /\ r.chain = Unset
  BY <1>3, ChainNames, SuffixNumbers DEF Fresh, Rules
<1>5. Directed(r)
  BY <1>4, ChainNames DEF Directed
<1>6. QED
  BY <1>4, <1>5 DEF Early, w

LEMMA InitInv == Init => Inv
<1> SUFFICES ASSUME Init PROVE Inv
  OBVIOUS
<1> DEFINE first == [n \in 1..Length |-> Fresh(policy.rules[n], n)]
<1>1. policy \in Policies /\ Length \in Nat
  BY Sized DEF Init
<1>2. first \in [1..Length -> Early(Length)]
  BY <1>1, FreshRules
<1>3. first \in Seq(Early(Length))
  BY <1>1, <1>2, Counted
<1>4. queue = [i \in 0..Slurped |-> IF i = 0 THEN first ELSE << >>]
  BY DEF Init, Length
<1> HIDE DEF first
<1>5. QueuesHoldStages
  BY <1>3, <1>4, Seqs DEF QueuesHoldStages, Stage, Slurped
<1>6. tmpChainNo \in [1..Length -> Nat]
  BY DEF Init, Length
<1>7. printed \in Seq(Commands) /\ phase \in {"pull", "print", "done"}
  BY Seqs DEF Init
<1>8. QED
  BY <1>1, <1>5, <1>6, <1>7 DEF Inv

LEMMA TmpChains ==
  ASSUME Inv, NEW r \in Rules(Length)
  PROVE  TmpChain(r) \in Inner
<1>1. r.pos \in Nat /\ r.pos \in 1..Length
  BY Sized DEF Inv, Rules
<1>2. tmpChainNo[r.pos] \in Nat
  BY <1>1 DEF Inv
<1>3. TmpChain(r) = Quad("C", r.pos, tmpChainNo[r.pos], "")
  BY DEF TmpChain, Quad
<1>4. "" \in Sides /\ "C" \in Kinds
  BY DEF Sides, Kinds
<1>5. TmpChain(r) \in Chains
  BY <1>1, <1>2, <1>3, <1>4, Quads
<1>6. TmpChain(r) # Input
  BY DEF TmpChain, Input, Named
<1>7. TmpChain(r) # Output
  BY DEF TmpChain, Output, Named
<1>8. QED
  BY <1>5, <1>6, <1>7 DEF Inner

LEMMA NextRule ==
  ASSUME Inv, NEW i \in 1..Slurped, MayPull(i)
  PROVE  /\ Length \in Nat
         /\ i <= 23 => Next1(i) \in Early(Length)
         /\ i > 23 => Next1(i) \in Late(Length)
         /\ Next1(i) \in Rules(Length)
<1>1. i - 1 \in 0..Slurped /\ Length \in Nat
  BY Sized DEF Inv, Slurped
<1>2. queue[i - 1] \in Seq(Stage(i - 1, Length)) /\ queue[i - 1] # << >>
  BY <1>1 DEF Inv, QueuesHoldStages, MayPull
<1>3. Next1(i) \in Stage(i - 1, Length)
  BY <1>2 DEF Next1
<1>4. QED
  BY <1>1, <1>3 DEF Stage, Early, Late, Slurped

LEMMA TwoPlaces ==
  ASSUME NEW q, NEW a \in DOMAIN q, NEW b \in DOMAIN q, a # b, NEW x, NEW o
  PROVE  LET p == [q EXCEPT ![a] = x, ![b] = @ \o o]
         IN  /\ DOMAIN p = DOMAIN q /\ p[a] = x /\ p[b] = q[b] \o o
             /\ \A j \in DOMAIN q : j # a /\ j # b => p[j] = q[j]
OBVIOUS

LEMMA PutKeeps ==
  ASSUME Inv, NEW i \in 1..Slurped, MayPull(i), NEW o \in Seq(Stage(i, Length)), Put(i, o),
         UNCHANGED policy
  PROVE  QueuesHoldStages'
<1>1. i - 1 \in 0..Slurped /\ i \in 0..Slurped /\ i # i - 1
  BY DEF Slurped
<1>2. DOMAIN queue = 0..Slurped /\ \A j \in 0..Slurped : queue[j] \in Seq(Stage(j, Length))
  BY DEF Inv, QueuesHoldStages
<1>3. /\ DOMAIN queue' = 0..Slurped /\ queue'[i - 1] = Tail(queue[i - 1])
      /\ queue'[i] = queue[i] \o o
      /\ \A j \in 0..Slurped : j # i - 1 /\ j # i => queue'[j] = queue[j]
  BY <1>1, <1>2, TwoPlaces DEF Put
<1>4. queue[i - 1] # << >>
  BY DEF MayPull
<1>5. queue'[i - 1] \in Seq(Stage(i - 1, Length))
  BY <1>1, <1>2, <1>3, <1>4
<1>6. queue'[i] \in Seq(Stage(i, Length))
  BY <1>1, <1>2, <1>3
<1>7. \A j \in 0..Slurped : queue'[j] \in Seq(Stage(j, Length))
  BY <1>2, <1>3, <1>5, <1>6
<1>8. Length' = Length /\ Slurped' = Slurped
  BY DEF Length, Slurped
<1>9. QED
  BY <1>3, <1>7, <1>8 DEF QueuesHoldStages, Stage, Early, Late, Rules

(* A step of a processor keeps the invariant if what it puts out may be in    *)
(* its queue.                                                                 *)
LEMMA PullKeeps ==
  ASSUME Inv, NEW i \in 1..Slurped, MayPull(i), NEW o, Put(i, o),
         i <= 22 => o \in Seq(Early(Length)), i > 22 => o \in Seq(Late(Length)),
         UNCHANGED <<policy, printed, phase>>,
         tmpChainNo' \in [1..Length -> Nat]
  PROVE  Inv'
<1>1. o \in Seq(Stage(i, Length))
  BY DEF Stage, Slurped
<1>2. QueuesHoldStages'
  BY <1>1, PutKeeps
<1>3. Length' = Length /\ Commands' = Commands
  BY DEF Length, Commands
<1>4. QED
  BY <1>2, <1>3 DEF Inv

LEMMA ChainNumbers ==
  ASSUME Inv, NEW i \in 1..Slurped, MayPull(i), NEW changes,
         tmpChainNo' = [tmpChainNo EXCEPT ![Next1(i).pos] = IF changes THEN @ + 1 ELSE @]
  PROVE  tmpChainNo' \in [1..Length -> Nat]
<1>1. Next1(i).pos \in 1..Length
  BY NextRule DEF Rules
<1>2. QED
  BY <1>1 DEF Inv

(* Interfaces, directions and single negations. *)
LEMMA NegationPulls ==
  ASSUME Inv,
         \/ SingleItfNegationNext
         \/ ItfNegationNext
         \/ InterfaceAndDirectionNext
         \/ SplitIfIfaceAndDirectionBothNext
         \/ SingleSrcNegationNext
         \/ SingleDstNegationNext
         \/ SplitIfSrcNegAndFwNext
         \/ SplitIfDstNegAndFwNext
  PROVE  Inv'
<1>1. CASE SingleItfNegationNext
  <2>1. /\ 1 \in 1..Slurped /\ MayPull(1) /\ Put(1, SingleItfNegation(Next1(1)))
        /\ UNCHANGED <<policy, tmpChainNo, printed, phase>>
    BY <1>1 DEF SingleItfNegationNext, Pull, Slurped
  <2>2. SingleItfNegation(Next1(1)) \in Seq(Early(Length))
    BY <2>1, NextRule, ItfNegationStages
  <2>3. QED
    BY <2>1, <2>2, PullKeeps DEF Inv
<1>2. CASE ItfNegationNext
  <2>1. /\ 2 \in 1..Slurped /\ MayPull(2) /\ Put(2, ItfNegation(Next1(2)))
        /\ UNCHANGED <<policy, tmpChainNo, printed, phase>>
    BY <1>2 DEF ItfNegationNext, Pull, Slurped
  <2>2. ItfNegation(Next1(2)) \in Seq(Early(Length))
    BY <2>1, NextRule, ItfNegationStages
  <2>3. QED
    BY <2>1, <2>2, PullKeeps DEF Inv
<1>3. CASE InterfaceAndDirectionNext
  <2>1. /\ 3 \in 1..Slurped /\ MayPull(3) /\ Put(3, InterfaceAndDirection(Next1(3)))
        /\ UNCHANGED <<policy, tmpChainNo, printed, phase>>
    BY <1>3 DEF InterfaceAndDirectionNext, Pull, Slurped
  <2>2. InterfaceAndDirection(Next1(3)) \in Seq(Early(Length))
    BY <2>1, NextRule, ItfNegationStages
  <2>3. QED
    BY <2>1, <2>2, PullKeeps DEF Inv
<1>4. CASE SplitIfIfaceAndDirectionBothNext
  <2>1. /\ 4 \in 1..Slurped /\ MayPull(4) /\ Put(4, SplitIfIfaceAndDirectionBoth(Next1(4)))
        /\ UNCHANGED <<policy, tmpChainNo, printed, phase>>
    BY <1>4 DEF SplitIfIfaceAndDirectionBothNext, Pull, Slurped
  <2>2. SplitIfIfaceAndDirectionBoth(Next1(4)) \in Seq(Early(Length))
    BY <2>1, NextRule, BothDirectionsStages
  <2>3. QED
    BY <2>1, <2>2, PullKeeps DEF Inv
<1>5. CASE SingleSrcNegationNext
  <2>1. /\ 6 \in 1..Slurped /\ MayPull(6) /\ Put(6, SingleNegation(Next1(6), "src"))
        /\ UNCHANGED <<policy, tmpChainNo, printed, phase>>
    BY <1>5 DEF SingleSrcNegationNext, Pull, Slurped
  <2>2. SingleNegation(Next1(6), "src") \in Seq(Early(Length))
    BY <2>1, NextRule, SingleNegationStages
  <2>3. QED
    BY <2>1, <2>2, PullKeeps DEF Inv
<1>6. CASE SingleDstNegationNext
  <2>1. /\ 7 \in 1..Slurped /\ MayPull(7) /\ Put(7, SingleNegation(Next1(7), "dst"))
        /\ UNCHANGED <<policy, tmpChainNo, printed, phase>>
    BY <1>6 DEF SingleDstNegationNext, Pull, Slurped
  <2>2. SingleNegation(Next1(7), "dst") \in Seq(Early(Length))
    BY <2>1, NextRule, SingleNegationStages
  <2>3. QED
    BY <2>1, <2>2, PullKeeps DEF Inv
<1>7. CASE SplitIfSrcNegAndFwNext
  <2>1. /\ 8 \in 1..Slurped /\ MayPull(8) /\ Put(8, SplitIfSrcNegAndFw(Next1(8)))
        /\ UNCHANGED <<policy, tmpChainNo, printed, phase>>
    BY <1>7 DEF SplitIfSrcNegAndFwNext, Pull, Slurped
  <2>2. SplitIfSrcNegAndFw(Next1(8)) \in Seq(Early(Length))
    BY <2>1, NextRule, SplitIfSrcNegAndFwStage
  <2>3. QED
    BY <2>1, <2>2, PullKeeps DEF Inv
<1>8. CASE SplitIfDstNegAndFwNext
  <2>1. /\ 9 \in 1..Slurped /\ MayPull(9) /\ Put(9, SplitIfDstNegAndFw(Next1(9)))
        /\ UNCHANGED <<policy, tmpChainNo, printed, phase>>
    BY <1>8 DEF SplitIfDstNegAndFwNext, Pull, Slurped
  <2>2. SplitIfDstNegAndFw(Next1(9)) \in Seq(Early(Length))
    BY <2>1, NextRule, SplitIfDstNegAndFwStage
  <2>3. QED
    BY <2>1, <2>2, PullKeeps DEF Inv
<1>9. QED
  BY <1>1, <1>2, <1>3, <1>4, <1>5, <1>6, <1>7, <1>8

(* Logging and the choice of the chain. *)
LEMMA ChainPulls ==
  ASSUME Inv,
         \/ Logging2Next
         \/ SplitIfSrcAnyNext
         \/ SplitIfDstAnyNext
         \/ SplitIfSrcMatchesFwNext
         \/ SplitIfDstMatchesFwNext
         \/ SpecialCaseWithFW1Next
         \/ DecideOnChainIfDstFWNext
         \/ SplitIfSrcFWNetworkNext
         \/ DecideOnChainIfSrcFWNext
         \/ SplitIfDstFWNetworkNext
         \/ InterfacePolicyRulesNext
  PROVE  Inv'
<1>1. CASE Logging2Next
  <2>1. /\ 12 \in 1..Slurped /\ MayPull(12) /\ Put(12, Logging2(Next1(12)))
        /\ UNCHANGED <<policy, tmpChainNo, printed, phase>>
    BY <1>1 DEF Logging2Next, Pull, Slurped
  <2>2. Logging2(Next1(12)) \in Seq(Early(Length))
    BY <2>1, NextRule, LogStage
  <2>3. QED
    BY <2>1, <2>2, PullKeeps DEF Inv
<1>2. CASE SplitIfSrcAnyNext
  <2>1. /\ 13 \in 1..Slurped /\ MayPull(13) /\ Put(13, SplitIfSrcAny(Next1(13)))
        /\ UNCHANGED <<policy, tmpChainNo, printed, phase>>
    BY <1>2 DEF SplitIfSrcAnyNext, Pull, Slurped
  <2>2. SplitIfSrcAny(Next1(13)) \in Seq(Early(Length))
    BY <2>1, NextRule, OwnChainStages
  <2>3. QED
    BY <2>1, <2>2, PullKeeps DEF Inv
<1>3. CASE SplitIfDstAnyNext
  <2>1. /\ 14 \in 1..Slurped /\ MayPull(14) /\ Put(14, SplitIfDstAny(Next1(14)))
        /\ UNCHANGED <<policy, tmpChainNo, printed, phase>>
    BY <1>3 DEF SplitIfDstAnyNext, Pull, Slurped
  <2>2. SplitIfDstAny(Next1(14)) \in Seq(Early(Length))
    BY <2>1, NextRule, OwnChainStages
  <2>3. QED
    BY <2>1, <2>2, PullKeeps DEF Inv
<1>4. CASE SplitIfSrcMatchesFwNext
  <2>1. /\ 15 \in 1..Slurped /\ MayPull(15) /\ Put(15, SplitIfMatchesFw(Next1(15), "src"))
        /\ UNCHANGED <<policy, tmpChainNo, printed, phase>>
    BY <1>4 DEF SplitIfSrcMatchesFwNext, Pull, Slurped
  <2>2. SplitIfMatchesFw(Next1(15), "src") \in Seq(Early(Length))
    BY <2>1, NextRule, SplitIfMatchesFwStages
  <2>3. QED
    BY <2>1, <2>2, PullKeeps DEF Inv
<1>5. CASE SplitIfDstMatchesFwNext
  <2>1. /\ 16 \in 1..Slurped /\ MayPull(16) /\ Put(16, SplitIfMatchesFw(Next1(16), "dst"))
        /\ UNCHANGED <<policy, tmpChainNo, printed, phase>>
    BY <1>5 DEF SplitIfDstMatchesFwNext, Pull, Slurped
  <2>2. SplitIfMatchesFw(Next1(16), "dst") \in Seq(Early(Length))
    BY <2>1, NextRule, SplitIfMatchesFwStages
  <2>3. QED
    BY <2>1, <2>2, PullKeeps DEF Inv
<1>6. CASE SpecialCaseWithFW1Next
  <2>1. /\ 17 \in 1..Slurped /\ MayPull(17) /\ Put(17, SpecialCaseWithFW1(Next1(17)))
        /\ UNCHANGED <<policy, tmpChainNo, printed, phase>>
    BY <1>6 DEF SpecialCaseWithFW1Next, Pull, Slurped
  <2>2. SpecialCaseWithFW1(Next1(17)) \in Seq(Early(Length))
    BY <2>1, NextRule, BothDirectionsStages
  <2>3. QED
    BY <2>1, <2>2, PullKeeps DEF Inv
<1>7. CASE DecideOnChainIfDstFWNext
  <2>1. /\ 18 \in 1..Slurped /\ MayPull(18) /\ Put(18, DecideOnChainIfDstFW(Next1(18)))
        /\ UNCHANGED <<policy, tmpChainNo, printed, phase>>
    BY <1>7 DEF DecideOnChainIfDstFWNext, Pull, Slurped
  <2>2. DecideOnChainIfDstFW(Next1(18)) \in Seq(Early(Length))
    BY <2>1, NextRule, OwnChainStages
  <2>3. QED
    BY <2>1, <2>2, PullKeeps DEF Inv
<1>8. CASE SplitIfSrcFWNetworkNext
  <2>1. /\ 19 \in 1..Slurped /\ MayPull(19) /\ Put(19, SplitIfSrcFWNetwork(Next1(19)))
        /\ UNCHANGED <<policy, tmpChainNo, printed, phase>>
    BY <1>8 DEF SplitIfSrcFWNetworkNext, Pull, Slurped
  <2>2. SplitIfSrcFWNetwork(Next1(19)) \in Seq(Early(Length))
    BY <2>1, NextRule, OwnChainStages
  <2>3. QED
    BY <2>1, <2>2, PullKeeps DEF Inv
<1>9. CASE DecideOnChainIfSrcFWNext
  <2>1. /\ 20 \in 1..Slurped /\ MayPull(20) /\ Put(20, DecideOnChainIfSrcFW(Next1(20)))
        /\ UNCHANGED <<policy, tmpChainNo, printed, phase>>
    BY <1>9 DEF DecideOnChainIfSrcFWNext, Pull, Slurped
  <2>2. DecideOnChainIfSrcFW(Next1(20)) \in Seq(Early(Length))
    BY <2>1, NextRule, OwnChainStages
  <2>3. QED
    BY <2>1, <2>2, PullKeeps DEF Inv
<1>10. CASE SplitIfDstFWNetworkNext
  <2>1. /\ 21 \in 1..Slurped /\ MayPull(21) /\ Put(21, SplitIfDstFWNetwork(Next1(21)))
        /\ UNCHANGED <<policy, tmpChainNo, printed, phase>>
    BY <1>10 DEF SplitIfDstFWNetworkNext, Pull, Slurped
  <2>2. SplitIfDstFWNetwork(Next1(21)) \in Seq(Early(Length))
    BY <2>1, NextRule, OwnChainStages
  <2>3. QED
    BY <2>1, <2>2, PullKeeps DEF Inv
<1>11. CASE InterfacePolicyRulesNext
  <2>1. /\ 22 \in 1..Slurped /\ MayPull(22) /\ Put(22, InterfacePolicyRules(Next1(22)))
        /\ UNCHANGED <<policy, tmpChainNo, printed, phase>>
    BY <1>11 DEF InterfacePolicyRulesNext, Pull, Slurped
  <2>2. InterfacePolicyRules(Next1(22)) \in Seq(Early(Length))
    BY <2>1, NextRule, InterfacesStage
  <2>3. QED
    BY <2>1, <2>2, PullKeeps DEF Inv
<1>12. QED
  BY <1>1, <1>2, <1>3, <1>4, <1>5, <1>6, <1>7, <1>8, <1>9, <1>10, <1>11

(* From the chosen chain to commands. *)
LEMMA CommandPulls ==
  ASSUME Inv,
         \/ FinalizeChainNext
         \/ SpecialCaseWithFWInDstAndOutboundNext
         \/ DecideOnTargetNext
         \/ RemoveFWNext
         \/ ExpandMultipleAddressesNext
         \/ Optimize2Next
         \/ ConvertToAtomicNext
         \/ OptimizeForMinusIOPlusNext
         \/ SlurpNext
  PROVE  Inv'
<1>1. CASE FinalizeChainNext
  <2>1. /\ 23 \in 1..Slurped /\ MayPull(23) /\ Put(23, FinalizeChain(Next1(23)))
        /\ UNCHANGED <<policy, tmpChainNo, printed, phase>>
    BY <1>1 DEF FinalizeChainNext, Pull, Slurped
  <2>2. FinalizeChain(Next1(23)) \in Seq(Late(Length))
    BY <2>1, NextRule, FinalizeChainStage
  <2>3. QED
    BY <2>1, <2>2, PullKeeps DEF Inv
<1>2. CASE SpecialCaseWithFWInDstAndOutboundNext
  <2>1. /\ 24 \in 1..Slurped /\ MayPull(24) /\ Put(24, SpecialCaseWithFWInDstAndOutbound(Next1(24)))
        /\ UNCHANGED <<policy, tmpChainNo, printed, phase>>
    BY <1>2 DEF SpecialCaseWithFWInDstAndOutboundNext, Pull, Slurped
  <2>2. SpecialCaseWithFWInDstAndOutbound(Next1(24)) \in Seq(Late(Length))
    BY <2>1, NextRule, FwOutboundStage
  <2>3. QED
    BY <2>1, <2>2, PullKeeps DEF Inv
<1>3. CASE DecideOnTargetNext
  <2>1. /\ 25 \in 1..Slurped /\ MayPull(25) /\ Put(25, DecideOnTarget(Next1(25)))
        /\ UNCHANGED <<policy, tmpChainNo, printed, phase>>
    BY <1>3 DEF DecideOnTargetNext, Pull, Slurped
  <2>2. DecideOnTarget(Next1(25)) \in Seq(Late(Length))
    BY <2>1, NextRule, TargetStage
  <2>3. QED
    BY <2>1, <2>2, PullKeeps DEF Inv
<1>4. CASE RemoveFWNext
  <2>1. /\ 26 \in 1..Slurped /\ MayPull(26) /\ Put(26, RemoveFW(Next1(26)))
        /\ UNCHANGED <<policy, tmpChainNo, printed, phase>>
    BY <1>4 DEF RemoveFWNext, Pull, Slurped
  <2>2. RemoveFW(Next1(26)) \in Seq(Late(Length))
    BY <2>1, NextRule, RemoveFWStage
  <2>3. QED
    BY <2>1, <2>2, PullKeeps DEF Inv
<1>5. CASE ExpandMultipleAddressesNext
  <2>1. /\ 27 \in 1..Slurped /\ MayPull(27) /\ Put(27, ExpandMultipleAddresses(Next1(27)))
        /\ UNCHANGED <<policy, tmpChainNo, printed, phase>>
    BY <1>5 DEF ExpandMultipleAddressesNext, Pull, Slurped
  <2>2. ExpandMultipleAddresses(Next1(27)) \in Seq(Late(Length))
    BY <2>1, NextRule, AddressesStage
  <2>3. QED
    BY <2>1, <2>2, PullKeeps DEF Inv
<1>6. CASE Optimize2Next
  <2>1. /\ 31 \in 1..Slurped /\ MayPull(31) /\ Put(31, Optimize2(Next1(31)))
        /\ UNCHANGED <<policy, tmpChainNo, printed, phase>>
    BY <1>6 DEF Optimize2Next, Pull, Slurped
  <2>2. Optimize2(Next1(31)) \in Seq(Late(Length))
    BY <2>1, NextRule, Optimize2Stage
  <2>3. QED
    BY <2>1, <2>2, PullKeeps DEF Inv
<1>7. CASE ConvertToAtomicNext
  <2>1. /\ 32 \in 1..Slurped /\ MayPull(32) /\ Put(32, ConvertToAtomic(Next1(32)))
        /\ UNCHANGED <<policy, tmpChainNo, printed, phase>>
    BY <1>7 DEF ConvertToAtomicNext, Pull, Slurped
  <2>2. ConvertToAtomic(Next1(32)) \in Seq(Late(Length))
    BY <2>1, NextRule, AtomicStage
  <2>3. QED
    BY <2>1, <2>2, PullKeeps DEF Inv
<1>8. CASE OptimizeForMinusIOPlusNext
  <2>1. /\ 34 \in 1..Slurped /\ MayPull(34) /\ Put(34, OptimizeForMinusIOPlus(Next1(34)))
        /\ UNCHANGED <<policy, tmpChainNo, printed, phase>>
    BY <1>8 DEF OptimizeForMinusIOPlusNext, Pull, Slurped
  <2>2. OptimizeForMinusIOPlus(Next1(34)) \in Seq(Late(Length))
    BY <2>1, NextRule, LastStages
  <2>3. QED
    BY <2>1, <2>2, PullKeeps DEF Inv
<1>9. CASE SlurpNext
  <2> DEFINE o == <<Next1(35)>>
  <2>1. /\ 35 \in 1..Slurped /\ MayPull(35) /\ Put(35, o)
        /\ UNCHANGED <<policy, tmpChainNo, printed, phase>>
    BY <1>9 DEF SlurpNext, Pull, Slurped
  <2>2. o \in Seq(Late(Length))
    BY <2>1, NextRule, Seqs
  <2> HIDE DEF o
  <2>3. QED
    BY <2>1, <2>2, PullKeeps DEF Inv
<1>10. QED
  BY <1>1, <1>2, <1>3, <1>4, <1>5, <1>6, <1>7, <1>8, <1>9

(* Each processor of negation takes a chain for the rules it changes. *)
LEMMA NegationChainPulls ==
  ASSUME Inv, SrvNegationNext \/ SrcNegationNext \/ DstNegationNext
  PROVE  Inv'
<1>1. CASE SrvNegationNext
  <2> DEFINE r == Next1(5)
             o == IF r.srv.neg THEN Negation(r, "srv", TmpChain(r)) ELSE <<r>>
  <2>1. /\ 5 \in 1..Slurped /\ MayPull(5) /\ Put(5, o)
        /\ tmpChainNo' = [tmpChainNo EXCEPT ![Next1(5).pos] = IF r.srv.neg THEN @ + 1 ELSE @]
        /\ UNCHANGED <<policy, printed, phase>>
    BY <1>1 DEF SrvNegationNext, PullWithChain, Slurped
  <2>2. Length \in Nat /\ r \in Early(Length) /\ r \in Rules(Length)
    BY <2>1, NextRule
  <2>3. TmpChain(r) \in Inner
    BY <2>2, TmpChains
  <2>4. o \in Seq(Early(Length))
    BY <2>2, <2>3, NegationStage, Seqs
  <2>5. tmpChainNo' \in [1..Length -> Nat]
    BY <2>1, ChainNumbers
  <2> HIDE DEF o
  <2>6. QED
    BY <2>1, <2>4, <2>5, PullKeeps
<1>2. CASE SrcNegationNext
  <2> DEFINE r == Next1(10)
             o == IF r.src.neg THEN Negation(r, "src", TmpChain(r)) ELSE <<r>>
  <2>1. /\ 10 \in 1..Slurped /\ MayPull(10) /\ Put(10, o)
        /\ tmpChainNo' = [tmpChainNo EXCEPT ![Next1(10).pos] = IF r.src.neg THEN @ + 1 ELSE @]
        /\ UNCHANGED <<policy, printed, phase>>
    BY <1>2 DEF SrcNegationNext, PullWithChain, Slurped
  <2>2. Length \in Nat /\ r \in Early(Length) /\ r \in Rules(Length)
    BY <2>1, NextRule
  <2>3. TmpChain(r) \in Inner
    BY <2>2, TmpChains
  <2>4. o \in Seq(Early(Length))
    BY <2>2, <2>3, NegationStage, Seqs
  <2>5. tmpChainNo' \in [1..Length -> Nat]
    BY <2>1, ChainNumbers
  <2> HIDE DEF o
  <2>6. QED
    BY <2>1, <2>4, <2>5, PullKeeps
<1>3. CASE DstNegationNext
  <2> DEFINE r == Next1(11)
             o == IF r.dst.neg THEN Negation(r, "dst", TmpChain(r)) ELSE <<r>>
  <2>1. /\ 11 \in 1..Slurped /\ MayPull(11) /\ Put(11, o)
        /\ tmpChainNo' = [tmpChainNo EXCEPT ![Next1(11).pos] = IF r.dst.neg THEN @ + 1 ELSE @]
        /\ UNCHANGED <<policy, printed, phase>>
    BY <1>3 DEF DstNegationNext, PullWithChain, Slurped
  <2>2. Length \in Nat /\ r \in Early(Length) /\ r \in Rules(Length)
    BY <2>1, NextRule
  <2>3. TmpChain(r) \in Inner
    BY <2>2, TmpChains
  <2>4. o \in Seq(Early(Length))
    BY <2>2, <2>3, NegationStage, Seqs
  <2>5. tmpChainNo' \in [1..Length -> Nat]
    BY <2>1, ChainNumbers
  <2> HIDE DEF o
  <2>6. QED
    BY <2>1, <2>4, <2>5, PullKeeps
<1>4. QED
  BY <1>1, <1>2, <1>3

LEMMA OptimizePulls ==
  ASSUME Inv, Optimize1Next
  PROVE  Inv'
<1>1. PICK i \in 28..30 : PullWithChain(i, Optimizable(Next1(i)), Optimize1)
  BY DEF Optimize1Next
<1> DEFINE r == Next1(i)
           o == IF Optimizable(r) THEN OptimizeFor(r, OptimizedElement(r), TmpChain(r)) ELSE <<r>>
<1>2. /\ i \in 1..Slurped /\ i > 23 /\ MayPull(i) /\ Put(i, o)
      /\ tmpChainNo' = [tmpChainNo EXCEPT ![Next1(i).pos] = IF Optimizable(r) THEN @ + 1 ELSE @]
      /\ UNCHANGED <<policy, printed, phase>>
  BY <1>1 DEF PullWithChain, Optimize1, Slurped
<1>3. Length \in Nat /\ r \in Late(Length) /\ r \in Rules(Length)
  BY <1>2, NextRule
<1>4. TmpChain(r) \in Inner
  BY <1>3, TmpChains
<1>5. o \in Seq(Late(Length))
  BY <1>3, <1>4, OptimizeStage, Seqs
<1>6. tmpChainNo' \in [1..Length -> Nat]
  BY <1>2, ChainNumbers
<1> HIDE DEF o
<1>7. QED
  BY <1>2, <1>5, <1>6, PullKeeps

LEMMA Optimize3Pull ==
  ASSUME Inv, Optimize3Next
  PROVE  Inv'
<1>1. /\ 33 \in 1..Slurped /\ MayPull(33) /\ Put(33, Optimize3(Next1(33)))
      /\ UNCHANGED <<policy, tmpChainNo, printed, phase>>
  BY DEF Optimize3Next, Slurped
<1>2. Optimize3(Next1(33)) \in Seq(Late(Length))
  BY <1>1, NextRule, LastStages
<1>3. QED
  BY <1>1, <1>2, PullKeeps DEF Inv

(* What is printed of a rule that has passed all the processors: iptables     *)
(* tests an interface on the way in or on the way out, and only where there   *)
(* is one.                                                                    *)
LEMMA CommandsPrinted ==
  ASSUME NEW N \in Nat, NEW r \in Late(N)
  PROVE  Command(r) \in Commands
<1> DEFINE test(e) == [neg |-> ~IsAny(e) /\ e.single, objs |-> e.objs]
           none == [neg |-> FALSE, objs |-> {}]
           itf(dir) == IF r.dir = dir THEN test(r.itf) ELSE none
           c == Command(r)
<1>1. r \in Rules(N) /\ Fits(r)
  BY DEF Late
<1>2. /\ r.src \in Addrs /\ r.dst \in Addrs /\ r.itf \in Interfaces
      /\ r.srv.objs \subseteq Srv \cup {AnyTCP}
      /\ r.pos \in Nat /\ r.chain \in Chains /\ r.target \in Chains
  BY <1>1 DEF Rules, Services, Elem
<1>3. none \in Element
  BY DEF Element
<1>4. test(r.src) \in Element /\ test(r.dst) \in Element /\ test(r.itf) \in Element
  <2>1. ASSUME NEW S, S \subseteq Obj \cup Srv \cup Iface \cup {AnyTCP, AllIfaces},
               NEW e \in Elem(S)
        PROVE  test(e) \in Element
    <3>1. e.objs \subseteq Obj \cup Srv \cup Iface \cup {AnyTCP, AllIfaces}
      BY <2>1 DEF Elem
    <3>2. (~IsAny(e) /\ e.single) \in BOOLEAN
      OBVIOUS
    <3>3. QED
      BY <3>1, <3>2 DEF Element
  <2>2. QED
    BY <1>2, <2>1 DEF Addrs, Interfaces
<1>5. c = [pos |-> r.pos, chain |-> r.chain, src |-> test(r.src), dst |-> test(r.dst),
           srv |-> r.srv.objs, in |-> itf("Inbound"), out |-> itf("Outbound"),
           target |-> r.target]
  BY DEF Command
<1>6. none.objs = {}
  OBVIOUS
<1> HIDE DEF test, none
<1>7. itf("Inbound") \in Element /\ itf("Outbound") \in Element
  BY <1>3, <1>4
<1>8. /\ r.chain = Input => itf("Outbound").objs = {}
      /\ r.chain = Output => itf("Inbound").objs = {}
  BY <1>1, <1>6 DEF Fits
<1> HIDE DEF itf
<1>9. QED
  BY <1>2, <1>4, <1>5, <1>7, <1>8 DEF Commands

LEMMA OutputSteps ==
  ASSUME Inv, CountChainUsage \/ PrintRule \/ Done
  PROVE  Inv'
<1>1. CASE CountChainUsage \/ Done
  BY <1>1 DEF CountChainUsage, Done, Inv, QueuesHoldStages, Length, Stage, Early, Late,
              Rules, Commands
<1>2. CASE PrintRule
  <2> DEFINE r == Head(queue[Slurped])
  <2>1. /\ queue[Slurped] # << >> /\ queue' = [queue EXCEPT ![Slurped] = Tail(@)]
        /\ printed' = printed \/ printed' = Append(printed, Command(r))
        /\ UNCHANGED <<policy, tmpChainNo, phase>>
    BY <1>2 DEF PrintRule
  <2>2. /\ Slurped \in 0..Slurped /\ DOMAIN queue = 0..Slurped
        /\ \A j \in 0..Slurped : queue[j] \in Seq(Stage(j, Length))
    BY DEF Inv, QueuesHoldStages, Slurped
  <2>3. queue[Slurped] \in Seq(Late(Length))
    BY <2>2 DEF Stage, Slurped
  <2>4. r \in Late(Length) /\ Length \in Nat
    BY <2>1, <2>3, Sized DEF Inv
  <2>5. Command(r) \in Commands
    BY <2>4, CommandsPrinted
  <2>6. printed' \in Seq(Commands)
    BY <2>1, <2>5 DEF Inv
  <2>7. \A j \in 0..Slurped : queue'[j] \in Seq(Stage(j, Length))
    <3>1. Tail(queue[Slurped]) \in Seq(Stage(Slurped, Length))
      BY <2>1, <2>2
    <3>2. QED
      BY <2>1, <2>2, <3>1
  <2>8. Length' = Length /\ Commands' = Commands
    BY <2>1 DEF Length, Commands
  <2>9. QueuesHoldStages'
    BY <2>1, <2>2, <2>7, <2>8 DEF QueuesHoldStages, Stage, Early, Late, Rules
  <2>10. QED
    BY <2>1, <2>6, <2>8, <2>9 DEF Inv
<1>3. QED
  BY <1>1, <1>2

(* Every processor hands on rules that may be in its queue, so the invariant  *)
(* holds for any policy the assumption on Policies admits.                    *)
THEOREM QueueInvariant == Spec => []Inv
<1>1. Init => Inv
  BY InitInv
<1>2. Inv /\ [Next]_vars => Inv'
  <2> SUFFICES ASSUME Inv, [Next]_vars PROVE Inv'
    OBVIOUS
  <2>1. CASE Next
    BY <2>1, NegationPulls, ChainPulls, CommandPulls, NegationChainPulls, OptimizePulls,
       Optimize3Pull, OutputSteps DEF Next
  <2>2. CASE UNCHANGED vars
    BY <2>2 DEF vars, Inv, QueuesHoldStages, Length, Stage, Early, Late, Rules, Commands
  <2>3. QED
    BY <2>1, <2>2
<1>3. QED
  BY <1>1, <1>2, PTL DEF Spec

LEMMA InvTyped == Inv => TypeOK
<1> SUFFICES ASSUME Inv PROVE TypeOK
  OBVIOUS
<1>1. DOMAIN queue = 0..Slurped /\ \A i \in 0..Slurped : queue[i] \in Seq(Stage(i, Length))
  BY DEF Inv, QueuesHoldStages
<1>2. ASSUME NEW i \in 0..Slurped, NEW r \in Range(queue[i])
      PROVE  /\ r.pos \in 1..Len(policy.rules) /\ r.suffix \in 0..3
             /\ r.dir \in {"Both", "Inbound", "Outbound"}
             /\ r.src.objs \subseteq Obj /\ r.dst.objs \subseteq Obj
             /\ r.srv.objs \subseteq Srv \cup {AnyTCP}
             /\ r.itf.objs \subseteq Iface \cup {AllIfaces}
  <2>1. r \in Stage(i, Length)
    BY <1>1 DEF Range
  <2>2. r \in Rules(Length)
    BY <2>1 DEF Stage, Early, Late
  <2>3. QED
    BY <2>2 DEF Rules, Length, SuffixValues, Directions, Addrs, Services, Interfaces, Elem
<1>3. ASSUME NEW c \in Range(printed)
      PROVE  {c.src, c.dst, c.in, c.out} \subseteq Element
  <2>1. c \in Commands
    BY DEF Inv, Range
  <2>2. QED
    BY <2>1 DEF Commands
<1>4. phase \in {"pull", "print", "done"} /\ DOMAIN tmpChainNo = 1..Len(policy.rules)
  BY DEF Inv, Length
<1>5. QED
  BY <1>1, <1>2, <1>3, <1>4 DEF TypeOK

(* Every rule in a queue is a rule of the policy under compilation, with      *)
(* elements of the right kinds, and the printed commands have the shape       *)
(* PolicyRuleToString gives them.                                             *)
THEOREM TypeCorrect == Spec => []TypeOK
BY QueueInvariant, InvTyped, PTL

(* No command for chain INPUT tests the interface a packet leaves by, none    *)
(* for OUTPUT the one it came in by: iptables would refuse it.                *)
THEOREM InterfacesFit == Spec => []InterfaceFitsChain
<1>1. Inv => InterfaceFitsChain
  <2> SUFFICES ASSUME Inv, NEW c \in Range(printed)
               PROVE  /\ c.chain = Input  => c.out.objs = {}
                      /\ c.chain = Output => c.in.objs = {}
    BY DEF InterfaceFitsChain
  <2>1. c \in Commands
    BY DEF Inv, Range
  <2>2. QED
    BY <2>1 DEF Commands
<1>2. QED
  BY <1>1, QueueInvariant, PTL
=============================================================================
