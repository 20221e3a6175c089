--------------------------- MODULE RuleShadowing ---------------------------
(***************************************************************************)
(* Detection of rule shadowing: the pass the iptables policy compiler runs *)
(* over a rule set before it compiles it.  Rules are split into atoms, one *)
(* interface, source, destination and service each; every atom is compared *)
(* with all the atoms seen before it, until one is found that matches all  *)
(* the packets it matches.  If that one comes from another rule the        *)
(* compiler stops.                                                         *)
(*                                                                         *)
(* Answers about pairs of objects are kept in a cache whose key is         *)
(* computed from the identifiers of the two objects.                       *)
(*                                                                         *)
(* A rule is what is left when groups are expanded, hosts are replaced by  *)
(* their addresses, empty rules dropped and the negation of interfaces is  *)
(* resolved; an element that is "any" holds one object of kind "any".      *)
(***************************************************************************)
EXTENDS Integers, Sequences

CONSTANTS
  Addresses,    \* records with id, kind, lo and hi (a MAC address is lo)
  Services,     \* records with id, kind, num, opts, unset, tos, flags, slo, shi, dlo, dhi
  Interfaces,
  AnyItf,       \* the Interface element that is empty
  FwAddresses,  \* the addresses of the firewall
  Units,        \* of the rate limits (/second, /minute, ...)
  Policies,     \* the rule sets: sequences of rules
  MaxPort,      \* 65535
  None

VARIABLES
  policy,       \* the rule set
  test_mode,    \* the compiler was started with -xt: errors do not stop it
  next,         \* the next rule to be read
  pending,      \* atoms of the rule that was read last, still in the queue
  current,      \* the atom whose more general atom is looked for
  at,           \* position of the search in seen
  seen,         \* rules_seen_so_far
  cache,        \* object_comparison_cache
  report,       \* the pairs of atoms an error was reported for
  phase

vars == <<policy, test_mode, next, pending, current, at, seen, cache, report, phase>>
input == <<policy, test_mode>>

AddressKinds == {"any", "address", "dynamic", "mac", "runtime"}
ServiceKinds == {"any", "ip", "icmp", "tcp", "udp", "tag", "user", "custom"}
Actions == {"Accept", "Deny", "Accounting", "Return", "Branch", "Continue"}
Directions == {"Both", "Inbound", "Outbound"}
Elements == {"src", "dst", "srv"}
AnyType == -1
NoLimit == -1
NoTos == "none"

Address == [id : Nat, kind : AddressKinds, lo : Int, hi : Int]
Service == [id : Nat, kind : ServiceKinds, num : Int, opts : SUBSET STRING, unset : SUBSET STRING,
            tos : STRING, flags : SUBSET STRING, slo : 0..MaxPort, shi : 0..MaxPort,
            dlo : 0..MaxPort, dhi : 0..MaxPort]
Rule == [src : SUBSET Addresses, dst : SUBSET Addresses, srv : SUBSET Services,
         itf : SUBSET (Interfaces \cup {AnyItf}), neg : SUBSET Elements,
         dir : Directions, action : Actions, hidden : BOOLEAN, routing : BOOLEAN,
         limit : Nat \cup {NoLimit}, unit : Units, limit_not : BOOLEAN, always : BOOLEAN,
         fw_in_any : BOOLEAN]
Objects == Addresses \cup Services

ASSUME ObjectAssumption ==
  /\ Addresses \subseteq Address
  /\ Services \subseteq Service
  /\ FwAddresses \subseteq Addresses
  /\ MaxPort \in Nat
  /\ MaxPort < 65536
ASSUME PolicyAssumption == Policies \subseteq Seq(Rule)
(* Every object has an identifier of its own.                               *)
ASSUME IdAssumption ==
  /\ \A o1, o2 \in Addresses : o1.id = o2.id => o1 = o2
  /\ \A o1, o2 \in Services : o1.id = o2.id => o1 = o2
  /\ \A a \in Addresses, s \in Services : a.id # s.id

-----------------------------------------------------------------------------
(* Comparing two objects: does o2 match everything that o1 matches?         *)

AddressShades(o1, o2) ==
  \/ o1.id = o2.id
  \/ /\ o1.kind # "dynamic" /\ o2.kind # "dynamic"
     /\ \/ o1.kind = "mac" /\ o2.kind = "mac" /\ o1.lo = o2.lo
        \/ /\ o1.kind # "mac" /\ o2.kind # "mac"
           /\ \/ o2.kind = "any"
              \/ /\ o1.kind # "any"
                 /\ o2.lo <= o1.lo /\ o1.hi <= o2.hi

(* A range of 0..0 stands for all the ports.                                *)
LastPort(lo, hi) == IF lo = 0 /\ hi = 0 THEN 65536 ELSE hi

PortsShade(o1, o2) ==
  /\ o1.slo >= o2.slo /\ LastPort(o1.slo, o1.shi) <= LastPort(o2.slo, o2.shi)
  /\ o1.dlo >= o2.dlo /\ LastPort(o1.dlo, o1.dhi) <= LastPort(o2.dlo, o2.dhi)

(* The options of an IP service (opts has those that are on, unset those    *)
(* the data file does not give) that are compared.  An option that is off   *)
(* differs from one that is not given.                                      *)
ComparedOptions == {"fragm", "short_fragm", "lsrr", "ssrr", "rr", "ts"}
SameOptions(o1, o2) ==
  /\ o1.opts \cap ComparedOptions = o2.opts \cap ComparedOptions
  /\ o1.unset \cap ComparedOptions = o2.unset \cap ComparedOptions

(* Mutant: flags of TCP services are not compared.                          *)
SameTypeIgnoresFlags(o1, o2) ==
  \/ o1.kind = "ip" /\ SameOptions(o1, o2) /\ (o1.num = o2.num \/ o2.num = 0)
  \/ o1.kind = "icmp" /\ o1.num # AnyType /\ o2.num = AnyType
  \/ o1.kind \in {"tcp", "udp"} /\ PortsShade(o1, o2)
  \/ o1.kind \in {"tag", "user"} /\ o1.num = o2.num

SameTypeShades(o1, o2) ==
  \/ /\ o1.kind = "ip"
     /\ SameOptions(o1, o2) /\ o1.tos = o2.tos
     /\ o1.num = o2.num \/ o2.num = 0
  \/ o1.kind = "icmp" /\ o1.num # AnyType /\ o2.num = AnyType
  \/ o1.kind = "tcp" /\ o1.flags = o2.flags /\ PortsShade(o1, o2)
  \/ o1.kind = "udp" /\ PortsShade(o1, o2)
  \/ o1.kind \in {"tag", "user"} /\ o1.num = o2.num

ServiceShades(o1, o2) ==
  \/ o1.id = o2.id
  \/ /\ o1.kind # "any"
     /\ \/ o2.kind = "any"
        \/ o1.kind = o2.kind /\ SameTypeShades(o1, o2)
        \/ /\ o1.kind # "ip" /\ o2.kind = "ip"
           /\ o2.num = 0 /\ o2.opts \cap ComparedOptions = {}

(* Mutant: each identifier is cut to 16 bits, nothing is carried over.      *)
KeyOfHalves(o1, o2) == <<o1.id % 65536, o2.id % 65536>>

(* The 32-bit integer id1 + (id2 << 16), as its lower and its upper half.   *)
Key(o1, o2) == <<o1.id % 65536, ((o1.id \div 65536) + o2.id) % 65536>>

(* The answer of one comparison and the cache it leaves behind.             *)
Answer(c, o1, o2, fresh) == IF Key(o1, o2) \in DOMAIN c THEN c[Key(o1, o2)] ELSE fresh
Remember(c, o1, o2, fresh) ==
  [k \in DOMAIN c \cup {Key(o1, o2)} |->
     IF k \in DOMAIN c THEN c[k] ELSE fresh]

-----------------------------------------------------------------------------
(* Comparing two atoms.                                                     *)

InterfaceShades(r1, r2) == r2.itf = AnyItf \/ r1.itf = r2.itf

(* What is looked at before the objects are.                                *)
Comparable(r1, r2) ==
  /\ r1.head.neg = {} /\ r2.head.neg = {}
  /\ ~r1.head.routing /\ ~r2.head.routing
  /\ r1.action \notin {"Accounting", "Return", "Branch"}
  /\ r2.action \notin {"Accounting", "Return", "Branch", "Continue"}
  /\ "runtime" \notin {r1.src.kind, r1.dst.kind, r2.src.kind, r2.dst.kind}
  /\ r1.head.dir = "Both" \/ r2.head.dir = "Both" \/ r1.head.dir = r2.head.dir

(* Module limit of iptables: the larger rate is the more general.           *)
Slower(rate1, rate2) == rate2 = NoLimit \/ (rate1 # NoLimit /\ rate1 <= rate2)
LimitShades(r1, r2) ==
  (r1.head.limit > 0 \/ r2.head.limit > 0) =>
    /\ Slower(r1.head.limit, r2.head.limit)
    /\ r1.head.limit_not = r2.head.limit_not
    /\ r1.head.unit = r2.head.unit

(* r2 shades r1, computed without the cache.                                *)
Shades(r1, r2) ==
  /\ InterfaceShades(r1, r2)
  /\ Comparable(r1, r2)
  /\ AddressShades(r1.src, r2.src)
  /\ AddressShades(r1.dst, r2.dst)
  /\ ServiceShades(r1.srv, r2.srv)
  /\ LimitShades(r1, r2)

(* The same from the cache c: the answers for source, destination and       *)
(* service, each asked only if the one before it was positive.              *)
SrcAnswer(c, r1, r2) == Answer(c, r1.src, r2.src, AddressShades(r1.src, r2.src))
SrcCache(c, r1, r2) == Remember(c, r1.src, r2.src, AddressShades(r1.src, r2.src))
DstAnswer(c, r1, r2) == Answer(c, r1.dst, r2.dst, AddressShades(r1.dst, r2.dst))
DstCache(c, r1, r2) == Remember(c, r1.dst, r2.dst, AddressShades(r1.dst, r2.dst))
SrvAnswer(c, r1, r2) == Answer(c, r1.srv, r2.srv, ServiceShades(r1.srv, r2.srv))
SrvCache(c, r1, r2) == Remember(c, r1.srv, r2.srv, ServiceShades(r1.srv, r2.srv))

MoreGeneral(c, r1, r2) ==
  /\ InterfaceShades(r1, r2)
  /\ Comparable(r1, r2)
  /\ SrcAnswer(c, r1, r2)
  /\ LET c1 == SrcCache(c, r1, r2)
     IN  /\ DstAnswer(c1, r1, r2)
         /\ SrvAnswer(DstCache(c1, r1, r2), r1, r2)
  /\ LimitShades(r1, r2)

CacheAfter(c, r1, r2) ==
  IF ~(InterfaceShades(r1, r2) /\ Comparable(r1, r2)) THEN c
  ELSE LET c1 == SrcCache(c, r1, r2)
           c2 == DstCache(c1, r1, r2)
       IN  IF ~SrcAnswer(c, r1, r2) THEN c1
           ELSE IF ~DstAnswer(c1, r1, r2) THEN c2
           ELSE SrvCache(c2, r1, r2)

-----------------------------------------------------------------------------
(* Splitting a rule into atoms.                                             *)

Atom(n, r, s, d, v, i, action) ==
  [rule |-> n, head |-> r, src |-> s, dst |-> d, srv |-> v, itf |-> i, action |-> action]

IsAny(element) == \E o \in element : o.kind = "any"

(* If the firewall is not part of "any", an atom with action Return is put  *)
(* in front of the rule for every address of the firewall.                  *)
Split(n, r, srcs, dsts, action) ==
  {Atom(n, r, s, d, v, i, action) : s \in srcs, d \in dsts, v \in r.srv, i \in r.itf}

Atoms(n, r) ==
  Split(n, r, r.src, r.dst, r.action)
    \cup (IF ~r.fw_in_any /\ IsAny(r.src) THEN Split(n, r, FwAddresses, r.dst, "Return") ELSE {})
    \cup (IF ~r.fw_in_any /\ IsAny(r.dst) THEN Split(n, r, r.src, FwAddresses, "Return") ELSE {})

-----------------------------------------------------------------------------
Init ==
  /\ policy \in Policies
  /\ test_mode \in BOOLEAN
  /\ next = 1
  /\ pending = {}
  /\ current = None
  /\ at = 1
  /\ seen = <<>>
  /\ cache = [k \in {} |-> FALSE]
  /\ report = {}
  /\ phase = "read"

(* The queue is empty: the next rule is split.                              *)
ReadRule ==
  /\ phase = "read"
  /\ pending = {}
  /\ next <= Len(policy)
  /\ pending' = Atoms(next, policy[next])
  /\ next' = next + 1
  /\ UNCHANGED <<input, current, at, seen, cache, report, phase>>

(* Fallback and hidden rules are neither checked nor compared with.         *)
PassHidden(a) ==
  /\ phase = "read"
  /\ a.head.hidden
  /\ pending' = pending \ {a}
  /\ UNCHANGED <<input, next, current, at, seen, cache, report, phase>>

Take(a) ==
  /\ phase = "read"
  /\ ~a.head.hidden
  /\ pending' = pending \ {a}
  /\ current' = a
  /\ at' = 1
  /\ phase' = "search"
  /\ UNCHANGED <<input, next, seen, cache, report>>

(* Mutants: the atom is put in front of the others; the queue of atoms is  *)
(* thrown away with it.                                                     *)
PushFront ==
  /\ seen' = <<current>> \o seen
  /\ current' = None
  /\ at' = 1
PushWithoutReset ==
  /\ seen' = Append(seen, current)
  /\ current' = None
  /\ at' = at + 2

Push ==
  /\ seen' = Append(seen, current)
  /\ current' = None
  /\ at' = 1

(* The atom at this position is not more general: on to the next one.       *)
Differs ==
  /\ phase = "search"
  /\ at <= Len(seen)
  /\ ~MoreGeneral(cache, current, seen[at])
  /\ cache' = CacheAfter(cache, current, seen[at])
  /\ at' = at + 1
  /\ UNCHANGED <<input, next, pending, current, seen, report, phase>>

(* The first more general atom comes from the same rule: that is allowed.   *)
FoundInSameRule ==
  /\ phase = "search"
  /\ at <= Len(seen)
  /\ MoreGeneral(cache, current, seen[at])
  /\ seen[at].rule = current.rule
  /\ cache' = CacheAfter(cache, current, seen[at])
  /\ Push
  /\ phase' = "read"
  /\ UNCHANGED <<input, next, pending, report>>

(* It comes from a rule above: an error, and the end unless in test mode.   *)
FoundShadowing ==
  /\ phase = "search"
  /\ at <= Len(seen)
  /\ MoreGeneral(cache, current, seen[at])
  /\ seen[at].rule # current.rule
  /\ cache' = CacheAfter(cache, current, seen[at])
  /\ report' = report \cup {[upper |-> seen[at], lower |-> current]}
  /\ IF test_mode
     THEN Push /\ phase' = "read"
     ELSE phase' = "aborted" /\ UNCHANGED <<current, at, seen>>
  /\ UNCHANGED <<input, next, pending>>

NotFound ==
  /\ phase = "search"
  /\ at > Len(seen)
  /\ Push
  /\ phase' = "read"
  /\ UNCHANGED <<input, next, pending, cache, report>>

Finish ==
  /\ phase = "read"
  /\ pending = {}
  /\ next > Len(policy)
  /\ phase' = "done"
  /\ UNCHANGED <<input, next, pending, current, at, seen, cache, report>>

Next ==
  \/ ReadRule
  \/ \E a \in pending : PassHidden(a) \/ Take(a)
  \/ Differs
  \/ FoundInSameRule
  \/ FoundShadowing
  \/ NotFound
  \/ Finish

Spec == Init /\ [][Next]_vars

-----------------------------------------------------------------------------
AtomRecord ==
  [rule : Nat, head : Rule, src : Addresses, dst : Addresses, srv : Services,
   itf : Interfaces \cup {AnyItf}, action : Actions]

(* Every variable keeps its type; a search stays inside the atoms seen.     *)
TypeOK ==
  /\ policy \in Seq(Rule)
  /\ test_mode \in BOOLEAN
  /\ next \in 1..(Len(policy) + 1)
  /\ pending \subseteq AtomRecord
  /\ phase \in {"read", "search", "done", "aborted"}
  /\ IF phase \in {"search", "aborted"} THEN current \in AtomRecord ELSE current = None
  /\ seen \in Seq(AtomRecord)
  /\ at \in 1..(Len(seen) + 1)
  /\ cache \in [DOMAIN cache -> BOOLEAN]
  /\ report \subseteq [upper : AtomRecord, lower : AtomRecord]

(* Two pairs of objects whose keys are equal in 32 bits: what the first     *)
(* identifiers differ by is a multiple of 65536 and made up for by the      *)
(* second ones.                                                             *)
Collide(p, q) ==
  /\ (q[1].id - p[1].id) % 65536 = 0
  /\ ((q[1].id - p[1].id) \div 65536 + q[2].id - p[2].id) % 65536 = 0

(* The pairs that collide with no other, be it of the other kind of objects. *)
Pairs == (Addresses \X Addresses) \cup (Services \X Services)
Colliding ==
  {c[1] : c \in {pq \in Pairs \X Pairs : pq[1] # pq[2] /\ Collide(pq[1], pq[2])}}
Alone == Pairs \ Colliding

(* Nothing that is asked about two atoms has its key from another pair.     *)
Unmixed(r1, r2) ==
  {<<r1.src, r2.src>>, <<r1.dst, r2.dst>>, <<r1.srv, r2.srv>>} \subseteq Alone

AnswersRight(c) ==
  /\ \A o1, o2 \in Addresses :
       Key(o1, o2) \in DOMAIN c /\ <<o1, o2>> \in Alone =>
         (c[Key(o1, o2)] <=> AddressShades(o1, o2))
  /\ \A o1, o2 \in Services :
       Key(o1, o2) \in DOMAIN c /\ <<o1, o2>> \in Alone =>
         (c[Key(o1, o2)] <=> ServiceShades(o1, o2))

(* The answer object_comparison_cache has for two objects is the one their  *)
(* comparison would give, unless another pair of addresses or of services   *)
(* in the rule set has the same key in 32 bits: it never mixes up a pair    *)
(* and its converse, an address and a service, or identifiers past 65535    *)
(* that do not collide.                                                     *)
CacheRight == AnswersRight(cache)

Reported(b) == \E r \in report : r.lower = b
(* The atoms of rule n that take part.                                      *)
Checked(n) == {a \in Atoms(n, policy[n]) : ~a.head.hidden}

(* When the pass ends an error was reported for every atom that is shadowed *)
(* by an atom of a rule above it, although each search stops at the first   *)
(* more general atom it finds, be it one of the same rule: a compilation    *)
(* that goes on has no shadowed atom in it.  Only what is asked about these *)
(* two atoms must have keys of its own; wrong answers about the others do   *)
(* no harm.                                                                 *)
NoneMissed ==
  phase = "done" =>
    \A m, n \in DOMAIN policy : m < n =>
      \A a \in Checked(m), b \in Checked(n) :
        Shades(b, a) /\ Unmixed(b, a) => Reported(b)

(* PolicyCompiler_ipt.h: if the firewall is not part of "any", then "any"   *)
(* does not shadow the firewall.                                            *)
AnyDoesNotShadowFirewall ==
  \A r \in report : ~r.upper.head.fw_in_any =>
    /\ r.upper.src.kind = "any" => r.lower.src \notin FwAddresses
    /\ r.upper.dst.kind = "any" => r.lower.dst \notin FwAddresses

(* Compiler_ops.cpp: an IP service shades one of another type only "when    *)
(* all flags are cleared" in it.                                            *)
OnlyClearedFlagsShade ==
  \A r \in report :
    r.upper.srv.kind = "ip" /\ r.lower.srv.kind # "ip" => r.upper.srv.opts = {}

-----------------------------------------------------------------------------
(* Why nothing is missed: atoms come in the order of their rules, each atom *)
(* of a rule read so far is in one place, the search has refused every atom *)
(* before its position, and no atom was put away unreported.                *)
Searching == phase \in {"search", "aborted"}

OrderInv ==
  /\ phase = "done" => pending = {} /\ next > Len(policy)
  /\ \A a \in pending : a.rule = next - 1
  /\ Searching => current.rule = next - 1
  /\ \A i \in DOMAIN seen : seen[i].rule < next
  /\ \A i, j \in DOMAIN seen : i <= j => seen[i].rule <= seen[j].rule

CollectedInv ==
  \A n \in 1..(next - 1) : \A a \in Checked(n) :
    \/ a \in pending
    \/ Searching /\ a = current
    \/ \E i \in DOMAIN seen : seen[i] = a

SurelyShades(r1, r2) == Shades(r1, r2) /\ Unmixed(r1, r2)

SearchedInv == phase = "search" => \A k \in 1..(at - 1) : ~SurelyShades(current, seen[k])

PutAwayInv ==
  \A i, j \in DOMAIN seen :
    seen[i].rule < seen[j].rule /\ SurelyShades(seen[j], seen[i]) => Reported(seen[j])

ReportInv == \A r \in report : Unmixed(r.lower, r.upper) => Shades(r.lower, r.upper)

SearchInv == OrderInv /\ CollectedInv /\ SearchedInv /\ PutAwayInv /\ ReportInv
=============================================================================
