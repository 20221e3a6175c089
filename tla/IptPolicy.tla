---------------------------- MODULE IptPolicy ----------------------------
(***************************************************************************)
(* The policy compiler for iptables, filter table: the chain of rule       *)
(* processors that PolicyCompiler_ipt::compile() builds turns the rules of *)
(* a policy into commands for the chains INPUT, OUTPUT, FORWARD and for    *)
(* chains of its own.  The promise is that the kernel, walking those       *)
(* chains, decides about every packet as the policy does.                  *)
(*                                                                         *)
(* A processor takes one rule from the one before it and puts any number   *)
(* of rules in its own queue; it is asked for the next rule only when the  *)
(* queues behind it are empty (BasicRuleProcessor::getNextRule).  The last *)
(* but one reads all the rules to count the uses of chains, the last one   *)
(* prints.                                                                 *)
(*                                                                         *)
(* The data: an object of a rule denotes a set of addresses, an empty rule *)
(* element is "any".  All services are TCP.  Not modelled here: time,      *)
(* tagging, classification, routing, the mangle table, bridges, clusters,  *)
(* address ranges, objects resolved at run time, action Reject.            *)
(***************************************************************************)
EXTENDS Naturals, Sequences, FiniteSets, SequencesExt

CONSTANTS
  Obj,            \* objects used in Source and Destination
  Net,            \* those that are networks
  FwObj,          \* the object of the firewall itself
  Denote,         \* the addresses an object stands for
  FwAddrObj,      \* the firewall's own addresses, as objects
  Srv,            \* services
  AnyTCP,         \* the service object that stands for all of TCP
  Iface,          \* interfaces of the firewall, without the loopback
  AllIfaces,      \* the pseudo interface "*"
  Policies        \* the policies to compile: [rules, afpa, ipforward]

ASSUME ObjAssumption ==
  /\ FwObj \in Obj /\ FwAddrObj \subseteq Obj /\ Net \subseteq Obj
  /\ FwObj \notin Net /\ FwObj \notin FwAddrObj /\ Net \cap FwAddrObj = {}
  /\ \A o \in Obj : Denote[o] # {}
  /\ \A o \in FwAddrObj : Denote[o] \subseteq Denote[FwObj]
  /\ AnyTCP \notin Srv /\ AllIfaces \notin Iface
  /\ IsFiniteSet(Obj) /\ IsFiniteSet(Iface)

(* an element of a rule as the user writes it; "any" is the empty set        *)
Written(S) == [neg : BOOLEAN, single : {FALSE}, objs : SUBSET S]

ASSUME PoliciesAssumption ==
  Policies \subseteq
    [rules : Seq([src : Written(Obj), dst : Written(Obj), srv : Written(Srv),
                  itf : Written(Iface), dir : {"Both", "Inbound", "Outbound"},
                  action : {"Accept", "Deny", "Continue"}, log : BOOLEAN]),
     afpa : BOOLEAN, ipforward : BOOLEAN]

VARIABLES
  policy,         \* the policy under compilation
  queue,          \* tmp_queue of every processor; queue[0] is that of Begin
  tmpChainNo,     \* tmp_chain_no: temporary chains made so far, for each rule
  seen,           \* rules_seen_so_far of optimize3
  usage,          \* chain_usage_counter
  printed,        \* the commands of the script
  phase           \* "pull", "print", "done"

vars == <<policy, queue, tmpChainNo, seen, usage, printed, phase>>
-----------------------------------------------------------------------------
(* Rule elements.  reset() leaves the flag single_object_negation alone.    *)

IsAny(e) == e.objs = {}
Size(e)  == IF IsAny(e) THEN 1 ELSE Cardinality(e.objs)
Reset(e) == [e EXCEPT !.objs = {}, !.neg = FALSE]
First(e) == CHOOSE o \in e.objs : TRUE
Only(e, o) == [e EXCEPT !.objs = {o}]

(* Chains and targets are tuples <<kind, rule, number, direction>>.         *)
Named(k) == <<k, 0, 0, "">>
Unset    == Named("")
Input    == Named("INPUT")
Output   == Named("OUTPUT")
Forward  == Named("FORWARD")
Standard == {Input, Output, Forward}
Verdicts == {Named("ACCEPT"), Named("DROP")}
TmpChain(r) == <<"C", r.pos, tmpChainNo[r.pos], "">>
(* getNewChainName: the number of uses is counted but not put in the name   *)
LogChain(r) == <<"RULE", r.pos, r.suffix, r.dir>>
UserChain(c) == c[1] \in {"C", "RULE"}

(* ObjectMatcher::complexMatch with the firewall: itself or one of its own  *)
(* addresses; a network never matches, even if it holds such an address     *)
FwLike(o) == o = FwObj \/ (o \notin Net /\ Denote[o] \subseteq Denote[FwObj])
FirstIsFw(e) == ~IsAny(e) /\ FwLike(First(e))
FwNetworks(e) == {o \in e.objs : o \in Net /\ Denote[o] \cap Denote[FwObj] # {}}

Both(r) == r.dir = "Both"
-----------------------------------------------------------------------------
(* Interface and direction.                                                 *)

SingleItfNegation(r) ==
  IF r.itf.neg /\ Size(r.itf) = 1
  THEN <<[r EXCEPT !.itf.neg = FALSE, !.itf.single = TRUE]>>
  ELSE <<r>>

ItfNegation(r) ==
  IF r.itf.neg
  THEN <<[r EXCEPT !.itf.neg = FALSE, !.itf.objs = Iface \ @]>>
  ELSE <<r>>

InterfaceAndDirection(r) ==
  IF IsAny(r.itf) /\ ~Both(r)
  THEN <<[r EXCEPT !.itf.objs = {AllIfaces}]>>
  ELSE <<r>>

SplitIfIfaceAndDirectionBoth(r) ==
  IF ~IsAny(r.itf) /\ Both(r)
  THEN <<[r EXCEPT !.dir = "Inbound"], [r EXCEPT !.dir = "Outbound"]>>
  ELSE <<r>>
-----------------------------------------------------------------------------
(* Negation.  A rule whose element el is negated becomes a jump for every   *)
(* packet the other elements match, a RETURN for what el holds and the      *)
(* action for the rest.                                                     *)

SingleNegation(r, el) ==
  IF r[el].neg /\ Size(r[el]) = 1 /\ ~FwLike(First(r[el]))
  THEN <<[r EXCEPT ![el].neg = FALSE, ![el].single = TRUE]>>
  ELSE <<r>>

(* the firewall's own objects leave the negated element for a rule of their *)
(* own in the chain of the firewall's packets                               *)
SplitIfNegAndFw(r, el, chain, dir, opposite, flag) ==
  LET fwLikes == {o \in r[el].objs : FwLike(o)}
  IN  IF r.chain = Unset /\ r.dir # opposite /\ r[el].neg /\ fwLikes # {}
      THEN << [r EXCEPT !.chain = chain, !.dir = dir, ![el].objs = fwLikes],
              [r EXCEPT ![flag] = TRUE, ![el].objs = @ \ fwLikes,
                        ![el].neg = ~(r[el].objs \subseteq fwLikes)] >>
      ELSE <<r>>

SplitIfSrcNegAndFw(r) ==
  SplitIfNegAndFw(r, "src", Output, "Outbound", "Inbound", "noOutput")
SplitIfDstNegAndFw(r) ==
  SplitIfNegAndFw(r, "dst", Input, "Inbound", "Outbound", "noInput")

(* what is left of the services of a rule that ends a chain *)
FinalSrv(r) == IF IsAny(r.srv) THEN Reset(r.srv)
               ELSE [r.srv EXCEPT !.objs = {AnyTCP}]

Jump(r, el, c) ==
  [r EXCEPT ![el] = Reset(@), !.log = FALSE, !.target = c, !.suffix = 1,
            !.upNeg = @ \/ el # "srv"]

Return(r, el, c) ==
  LET kept(x) == IF x = el THEN [r[x] EXCEPT !.neg = FALSE] ELSE Reset(r[x])
  IN  [r EXCEPT !.src = kept("src"), !.dst = kept("dst"), !.srv = kept("srv"),
                !.itf = Reset(@), !.action = "Return", !.log = FALSE,
                !.chain = c, !.target = Unset, !.suffix = 2,
                !.upNeg = @ \/ el # "srv"]

Rest(r, el, c) ==
  [r EXCEPT !.src = Reset(@), !.dst = Reset(@), !.itf = Reset(@),
            !.srv = IF el = "srv" THEN Reset(@) ELSE FinalSrv(r),
            !.chain = c, !.suffix = 3, !.final = TRUE, !.upNeg = TRUE]

(* mutant: the rule that ends the chain comes before the RETURN *)
NegationOutOfOrder(r, el, c) == <<Jump(r, el, c), Rest(r, el, c), Return(r, el, c)>>
(* mutant: the jump keeps logging on *)
NegationLogsTwice(r, el, c) ==
  << [Jump(r, el, c) EXCEPT !.log = r.log], Return(r, el, c), Rest(r, el, c) >>

Negation(r, el, c) == <<Jump(r, el, c), Return(r, el, c), Rest(r, el, c)>>
-----------------------------------------------------------------------------
(* Logging: a chain with the LOG and then the action.                       *)

LogAndAct(r) ==
  LET c == LogChain(r)
      bare == [r EXCEPT !.src = Reset(@), !.dst = Reset(@), !.itf = Reset(@),
                        !.chain = c, !.dir = "Both", !.log = FALSE]
  IN << [r EXCEPT !.target = c, !.log = FALSE, !.action = "Continue"],
        [bare EXCEPT !.srv = Reset(@), !.target = Named("LOG"), !.action = "Continue"],
        [bare EXCEPT !.srv = FinalSrv(r), !.final = TRUE] >>

Logging2(r) ==
  IF ~r.log THEN <<r>>
  ELSE IF r.action = "Continue" THEN <<[r EXCEPT !.target = Named("LOG")]>>
  ELSE LogAndAct(r)
-----------------------------------------------------------------------------
(* The choice of the chain.                                                 *)

(* the test of splitIfSrcAny and splitIfDstAny on the element *)
MayBeFw(e) == IsAny(e) \/ (e.single /\ Size(e) = 1 /\ ~FwLike(First(e)))

SplitIfSrcAny(r) ==
  IF /\ policy.afpa /\ ~r.noOutput /\ r.chain = Unset
     /\ r.dir # "Inbound" /\ MayBeFw(r.src)
  THEN <<[r EXCEPT !.chain = Output, !.dir = "Outbound"], r>>
  ELSE <<r>>

SplitIfDstAny(r) ==
  IF /\ policy.afpa /\ ~r.noInput /\ r.chain = Unset
     /\ r.dir # "Outbound" /\ MayBeFw(r.dst)
  THEN <<[r EXCEPT !.chain = Input, !.dir = "Inbound"], r>>
  ELSE <<r>>

(* splitIfRuleElementMatchesFW: a rule of its own for every object that is  *)
(* the firewall, but the last object of the element stays                   *)
SplitIfMatchesFw(r, el) ==
  LET fwLikes == {o \in r[el].objs : FwLike(o)}
      out == IF fwLikes # r[el].objs THEN fwLikes
             ELSE fwLikes \ {First(r[el])}
  IN  IF Size(r[el]) = 1 THEN <<r>>
      ELSE LET own == SetToSeq(out)
           IN  Append([i \in 1..Len(own) |-> [r EXCEPT ![el].objs = {own[i]}]],
                      [r EXCEPT ![el].objs = @ \ out])

SpecialCaseWithFW1(r) ==
  IF FirstIsFw(r.src) /\ FirstIsFw(r.dst) /\ Both(r)
  THEN <<[r EXCEPT !.dir = "Inbound"], [r EXCEPT !.dir = "Outbound"]>>
  ELSE <<r>>

DecideOnChainIfDstFW(r) ==
  IF r.chain = Unset /\ r.dir # "Outbound" /\ FirstIsFw(r.dst)
  THEN <<[r EXCEPT !.chain = Input, !.dir = "Inbound"]>>
  ELSE <<r>>

DecideOnChainIfSrcFW(r) ==
  IF r.chain = Unset /\ r.dir # "Inbound" /\ FirstIsFw(r.src)
  THEN <<[r EXCEPT !.chain = Output, !.dir = "Outbound"]>>
  ELSE <<r>>

SplitIfSrcFWNetwork(r) ==
  IF /\ policy.afpa /\ ~r.noOutput /\ r.chain = Unset
     /\ r.dir # "Inbound" /\ FwNetworks(r.src) # {}
  THEN <<[r EXCEPT !.chain = Output, !.dir = "Outbound"], r>>
  ELSE <<r>>

SplitIfDstFWNetwork(r) ==
  IF /\ policy.afpa /\ ~r.noInput /\ r.chain = Unset
     /\ r.dir # "Outbound" /\ FwNetworks(r.dst) # {}
  THEN <<[r EXCEPT !.chain = Input, !.dir = "Inbound"], r>>
  ELSE <<r>>

InterfacePolicyRules(r) ==
  IF IsAny(r.itf) THEN <<r>>
  ELSE LET each == SetToSeq(r.itf.objs)
       IN  [i \in 1..Len(each) |-> [r EXCEPT !.itf = Only(Reset(@), each[i])]]

(* mutant: a rule for packets that leave goes to INPUT *)
FinalChainIgnoresDirection(r) ==
  IF r.chain # Unset THEN r.chain
  ELSE IF FirstIsFw(r.dst) THEN Input
  ELSE IF FirstIsFw(r.src) THEN Output
  ELSE Forward

FinalChain(r) ==
  IF r.chain # Unset THEN r.chain
  ELSE IF r.dir # "Outbound" /\ FirstIsFw(r.dst) THEN Input
  ELSE IF r.dir # "Inbound" /\ FirstIsFw(r.src) THEN Output
  ELSE Forward

FinalizeChain(r) ==
  IF r.chain = Unset /\ FinalChain(r) = Forward /\ ~policy.ipforward
  THEN << >>
  ELSE <<[r EXCEPT !.chain = FinalChain(r)]>>

(* a packet for the firewall itself never leaves through an interface *)
SpecialCaseWithFWInDstAndOutbound(r) ==
  IF /\ r.dir = "Outbound" /\ r.itf.objs \cap Iface # {} /\ r.chain # Output
     /\ ~r.src.neg /\ ~r.src.single /\ ~FirstIsFw(r.src) /\ FirstIsFw(r.dst)
  THEN << >>
  ELSE <<r>>
-----------------------------------------------------------------------------
(* From the rule to commands.                                               *)

DecideOnTarget(r) ==
  LET target == CASE r.action = "Accept"   -> Named("ACCEPT")
                  [] r.action = "Deny"     -> Named("DROP")
                  [] r.action = "Return"   -> Named("RETURN")
                  [] r.action = "Continue" -> Named(".CONTINUE")
  IN  IF r.target = Unset THEN <<[r EXCEPT !.target = target]>> ELSE <<r>>

(* In the chains of its own packets the firewall need not be tested.  The   *)
(* chains below INPUT and OUTPUT exist so early only after a negation, when *)
(* nothing is removed.                                                      *)
RemoveFW(r) ==
  LET drop(e, chain) == IF r.chain = chain /\ ~r.upNeg /\ First(e) = FwObj
                        THEN Reset(e) ELSE e
  IN  << [r EXCEPT !.dst = IF IsAny(@) THEN @ ELSE drop(@, Input),
                   !.src = IF IsAny(@) THEN @ ELSE drop(@, Output)] >>

ExpandMultipleAddresses(r) ==
  LET addresses(e) == IF FwObj \in e.objs
                      THEN [e EXCEPT !.objs = (@ \ {FwObj}) \cup FwAddrObj]
                      ELSE e
  IN  <<[r EXCEPT !.src = addresses(@), !.dst = addresses(@)]>>

(* optimizeForRuleElement: one element is tested in the old chain, the      *)
(* others in a new one.  An element of one object stays in the old chain.   *)
OptimizeFor(r, el, c) ==
  LET stays(x) == x = el \/ Size(r[x]) = 1
      old(x) == IF stays(x) THEN r[x] ELSE Reset(r[x])
      new(x) == IF stays(x) THEN Reset(r[x]) ELSE r[x]
  IN << [r EXCEPT !.src = old("src"), !.dst = old("dst"), !.srv = old("srv"),
                  !.target = c],
        [r EXCEPT !.src = new("src"), !.dst = new("dst"), !.srv = new("srv"),
                  !.itf = Reset(@), !.chain = c, !.dir = "Both"] >>

Optimizable(r) ==
  /\ ~(Size(r.src) = 1 /\ Size(r.dst) = 1)
  /\ Cardinality({x \in {"src", "dst", "srv"} : IsAny(r[x])}) < 2

(* TCP services count as one, since multiport takes them all *)
OptimizedElement(r) ==
  CASE ~IsAny(r.srv) -> "srv"
    [] IsAny(r.srv) /\ Size(r.src) <= Size(r.dst) -> "src"
    [] OTHER -> "dst"

Optimize1(r) == OptimizeFor(r, OptimizedElement(r), TmpChain(r))

Optimize2(r) == IF r.final THEN <<[r EXCEPT !.srv = Reset(@)]>> ELSE <<r>>

ConvertToAtomic(r) ==
  LET each(e) == IF IsAny(e) THEN {e} ELSE {Only(e, o) : o \in e.objs}
      pairs == SetToSeq(each(r.src) \X each(r.dst))
  IN  [i \in 1..Len(pairs) |-> [r EXCEPT !.src = pairs[i][1], !.dst = pairs[i][2]]]

(* PolicyRuleToString: the flag of negation is printed with an object only, *)
(* the interface only with a direction.  The services go to multiport.      *)
Command(r) ==
  LET test(e) == [neg |-> ~IsAny(e) /\ e.single, objs |-> e.objs]
      itf(dir) == IF r.dir = dir THEN test(r.itf) ELSE [neg |-> FALSE, objs |-> {}]
  IN  [pos |-> r.pos, chain |-> r.chain, src |-> test(r.src), dst |-> test(r.dst),
       srv |-> r.srv.objs, in |-> itf("Inbound"), out |-> itf("Outbound"),
       target |-> r.target]

(* the same command for the same rule is not wanted twice *)
Optimize3(r) == IF Command(r) \in seen THEN << >> ELSE <<r>>

OptimizeForMinusIOPlus(r) ==
  IF AllIfaces \in r.itf.objs /\ r.chain \in {Input, Output}
  THEN <<[r EXCEPT !.itf = Reset(@)]>>
  ELSE <<r>>
-----------------------------------------------------------------------------
(* The processors at work.  BasicRuleProcessor::getNextRule runs the one    *)
(* before it until there is a rule in its queue, so the processor at work   *)
(* is the one with all the queues from its own on empty.                    *)

Slurped == 35       \* countChainUsage, which takes all the rules
MayPull(i) == /\ phase = "pull"
              /\ queue[i - 1] # << >>
              /\ \A j \in i..(Slurped - 1) : queue[j] = << >>

Next1(i) == Head(queue[i - 1])
Put(i, rules) == queue' = [queue EXCEPT ![i - 1] = Tail(@), ![i] = @ \o rules]

Pull(i, out(_)) ==
  /\ MayPull(i)
  /\ Put(i, out(Next1(i)))
  /\ UNCHANGED <<policy, tmpChainNo, seen, usage, printed, phase>>

(* a processor that takes a new temporary chain for the rules it changes *)
PullWithChain(i, changes, out(_)) ==
  /\ MayPull(i)
  /\ Put(i, IF changes THEN out(Next1(i)) ELSE <<Next1(i)>>)
  /\ tmpChainNo' = [tmpChainNo EXCEPT ![Next1(i).pos] = IF changes THEN @ + 1 ELSE @]
  /\ UNCHANGED <<policy, seen, usage, printed, phase>>

SingleItfNegationNext == Pull(1, SingleItfNegation)
ItfNegationNext == Pull(2, ItfNegation)
InterfaceAndDirectionNext == Pull(3, InterfaceAndDirection)
SplitIfIfaceAndDirectionBothNext == Pull(4, SplitIfIfaceAndDirectionBoth)
SrvNegationNext ==
  PullWithChain(5, Next1(5).srv.neg, LAMBDA r : Negation(r, "srv", TmpChain(r)))
SingleSrcNegationNext == Pull(6, LAMBDA r : SingleNegation(r, "src"))
SingleDstNegationNext == Pull(7, LAMBDA r : SingleNegation(r, "dst"))
SplitIfSrcNegAndFwNext == Pull(8, SplitIfSrcNegAndFw)
SplitIfDstNegAndFwNext == Pull(9, SplitIfDstNegAndFw)
SrcNegationNext ==
  PullWithChain(10, Next1(10).src.neg, LAMBDA r : Negation(r, "src", TmpChain(r)))
DstNegationNext ==
  PullWithChain(11, Next1(11).dst.neg, LAMBDA r : Negation(r, "dst", TmpChain(r)))
Logging2Next == Pull(12, Logging2)
SplitIfSrcAnyNext == Pull(13, SplitIfSrcAny)
SplitIfDstAnyNext == Pull(14, SplitIfDstAny)
SplitIfSrcMatchesFwNext == Pull(15, LAMBDA r : SplitIfMatchesFw(r, "src"))
SplitIfDstMatchesFwNext == Pull(16, LAMBDA r : SplitIfMatchesFw(r, "dst"))
SpecialCaseWithFW1Next == Pull(17, SpecialCaseWithFW1)
DecideOnChainIfDstFWNext == Pull(18, DecideOnChainIfDstFW)
SplitIfSrcFWNetworkNext == Pull(19, SplitIfSrcFWNetwork)
DecideOnChainIfSrcFWNext == Pull(20, DecideOnChainIfSrcFW)
SplitIfDstFWNetworkNext == Pull(21, SplitIfDstFWNetwork)
InterfacePolicyRulesNext == Pull(22, InterfacePolicyRules)
FinalizeChainNext == Pull(23, FinalizeChain)
SpecialCaseWithFWInDstAndOutboundNext ==
  Pull(24, SpecialCaseWithFWInDstAndOutbound)
DecideOnTargetNext == Pull(25, DecideOnTarget)
RemoveFWNext == Pull(26, RemoveFW)
ExpandMultipleAddressesNext == Pull(27, ExpandMultipleAddresses)
Optimize1Next ==
  \E i \in 28..30 : PullWithChain(i, Optimizable(Next1(i)), Optimize1)
Optimize2Next == Pull(31, Optimize2)
ConvertToAtomicNext == Pull(32, ConvertToAtomic)
Optimize3Next ==
  /\ MayPull(33)
  /\ Put(33, Optimize3(Next1(33)))
  /\ seen' = seen \cup {Command(Next1(33))}
  /\ UNCHANGED <<policy, tmpChainNo, usage, printed, phase>>
OptimizeForMinusIOPlusNext == Pull(34, OptimizeForMinusIOPlus)
SlurpNext == Pull(35, LAMBDA r : <<r>>)

(* countChainUsage: a chain nothing jumps to is not printed, and what it    *)
(* jumps to counts as unused from then on.                                  *)
Used(rules) ==
  LET chains == Standard \cup UNION {{r.chain, r.target} : r \in Range(rules)}
      jumps(c) == Cardinality({i \in 1..Len(rules) : rules[i].target = c})
      first == [c \in chains |-> jumps(c) + (IF c \in Standard THEN 1 ELSE 0)]
      drop(u, r) == IF u[r.chain] = 0 THEN [u EXCEPT ![r.target] = 0] ELSE u
  IN  FoldLeft(drop, first, rules)

CountChainUsage ==
  /\ phase = "pull" /\ \A j \in 0..(Slurped - 1) : queue[j] = << >>
  /\ usage' = Used(queue[Slurped])
  /\ phase' = "print"
  /\ UNCHANGED <<policy, queue, tmpChainNo, seen, printed>>

PrintRule ==
  /\ phase = "print" /\ queue[Slurped] # << >>
  /\ LET r == Head(queue[Slurped])
     IN  printed' = IF usage[r.chain] > 0 THEN Append(printed, Command(r)) ELSE printed
  /\ queue' = [queue EXCEPT ![Slurped] = Tail(@)]
  /\ UNCHANGED <<policy, tmpChainNo, seen, usage, phase>>

Done ==
  /\ phase = "print" /\ queue[Slurped] = << >>
  /\ phase' = "done"
  /\ UNCHANGED <<policy, queue, tmpChainNo, seen, usage, printed>>

(* mutant: rules are numbered from 0 *)
FreshUnnumbered(rule, pos) ==
  rule @@ [pos |-> pos - 1, chain |-> Unset, target |-> Unset, suffix |-> 0,
           noOutput |-> FALSE, noInput |-> FALSE, upNeg |-> FALSE, final |-> FALSE]

(* what the processors add to a rule of the policy *)
Fresh(rule, pos) ==
  [src |-> rule.src, dst |-> rule.dst, srv |-> rule.srv, itf |-> rule.itf,
   dir |-> rule.dir, action |-> rule.action, log |-> rule.log,
   pos |-> pos, chain |-> Unset, target |-> Unset, suffix |-> 0,
   noOutput |-> FALSE, noInput |-> FALSE, upNeg |-> FALSE, final |-> FALSE]

Init ==
  /\ policy \in Policies
  /\ queue = [i \in 0..Slurped |->
                IF i = 0 THEN [n \in 1..Len(policy.rules) |-> Fresh(policy.rules[n], n)]
                ELSE << >>]
  /\ tmpChainNo = [n \in 1..Len(policy.rules) |-> 0]
  /\ seen = {} /\ usage = [c \in {} |-> 0] /\ printed = << >> /\ phase = "pull"

Next ==
  \/ SingleItfNegationNext \/ ItfNegationNext \/ InterfaceAndDirectionNext
  \/ SplitIfIfaceAndDirectionBothNext \/ SrvNegationNext
  \/ SingleSrcNegationNext \/ SingleDstNegationNext
  \/ SplitIfSrcNegAndFwNext \/ SplitIfDstNegAndFwNext
  \/ SrcNegationNext \/ DstNegationNext \/ Logging2Next
  \/ SplitIfSrcAnyNext \/ SplitIfDstAnyNext
  \/ SplitIfSrcMatchesFwNext \/ SplitIfDstMatchesFwNext
  \/ SpecialCaseWithFW1Next \/ DecideOnChainIfDstFWNext
  \/ SplitIfSrcFWNetworkNext \/ DecideOnChainIfSrcFWNext
  \/ SplitIfDstFWNetworkNext \/ InterfacePolicyRulesNext
  \/ FinalizeChainNext \/ SpecialCaseWithFWInDstAndOutboundNext
  \/ DecideOnTargetNext \/ RemoveFWNext \/ ExpandMultipleAddressesNext
  \/ Optimize1Next \/ Optimize2Next \/ ConvertToAtomicNext \/ Optimize3Next
  \/ OptimizeForMinusIOPlusNext \/ SlurpNext
  \/ CountChainUsage \/ PrintRule \/ Done

Spec == Init /\ [][Next]_vars
-----------------------------------------------------------------------------
Element == [neg : BOOLEAN, objs : SUBSET (Obj \cup Srv \cup Iface \cup {AnyTCP, AllIfaces})]

(* Every rule in a queue is a rule of the policy, and the printed commands  *)
(* have the shape the printer gives them.                                   *)
TypeOK ==
  /\ DOMAIN queue = 0..Slurped
  /\ \A i \in 0..Slurped : \A r \in Range(queue[i]) :
       /\ r.pos \in 1..Len(policy.rules) /\ r.suffix \in 0..3
       /\ r.dir \in {"Both", "Inbound", "Outbound"}
       /\ r.src.objs \subseteq Obj /\ r.dst.objs \subseteq Obj
       /\ r.srv.objs \subseteq Srv \cup {AnyTCP}
       /\ r.itf.objs \subseteq Iface \cup {AllIfaces}
  /\ \A c \in Range(printed) : {c.src, c.dst, c.in, c.out} \subseteq Element
  /\ phase \in {"pull", "print", "done"}
  /\ DOMAIN tmpChainNo = 1..Len(policy.rules)

(* iptables refuses -o in chain INPUT and -i in OUTPUT, and the script ends  *)
(* with an error: such a command is never printed.                           *)
InterfaceFitsChain ==
  \A c \in Range(printed) : /\ c.chain = Input  => c.out.objs = {}
                            /\ c.chain = Output => c.in.objs = {}
=============================================================================
