------------------------- MODULE IptPolicyMeaning -------------------------
(***************************************************************************)
(* What the commands of IptPolicy do to the first packet of a connection,  *)
(* and what the policy says should be done to it.                          *)
(*                                                                         *)
(* A packet is seen by INPUT if the firewall is its destination, by OUTPUT *)
(* if the firewall sent it, else by FORWARD.  Packets the firewall sends   *)
(* to itself are left out: they cross both chains, and the compiler deals  *)
(* with them by rules for the loopback interface that are not modelled.    *)
(***************************************************************************)
EXTENDS IptPolicy

CONSTANTS
  NoIface,        \* the interface a packet does not have
  Decision        \* the verdict for packets nothing decides about

Addr == UNION {Denote[o] : o \in Obj}
Self(a) == a \in Denote[FwObj]

(* the packets of a hook; forwarding may be off *)
Packets ==
  LET p(src, dst, srv, in, out, hook) ==
        [src |-> src, dst |-> dst, srv |-> srv, in |-> in, out |-> out, hook |-> hook]
      far == {a \in Addr : ~Self(a)}
      own == Denote[FwObj]
  IN  {p(s, d, v, i, NoIface, Input) : s \in far, d \in own, v \in Srv, i \in Iface}
      \cup {p(s, d, v, NoIface, o, Output) : s \in own, d \in far, v \in Srv, o \in Iface}
      \cup (IF policy.ipforward
            THEN {p(s, d, v, i, o, Forward) :
                    s \in far, d \in far, v \in Srv, i \in Iface, o \in Iface}
            ELSE {})
-----------------------------------------------------------------------------
(* The kernel: iptables, used by the generated script.                      *)

Holds(e, a) == e.objs = {} \/ (e.neg # \E o \in e.objs : a \in Denote[o])
HoldsSrv(objs, v) == objs = {} \/ AnyTCP \in objs \/ v \in objs
HoldsItf(e, i) == e.objs = {} \/ AllIfaces \in e.objs \/ (e.neg # (i \in e.objs))

Hit(cmd, p) ==
  /\ Holds(cmd.src, p.src) /\ Holds(cmd.dst, p.dst) /\ HoldsSrv(cmd.srv, p.srv)
  /\ HoldsItf(cmd.in, p.in) /\ HoldsItf(cmd.out, p.out)

(* the walk of a packet through chain c from the i-th command on *)
RECURSIVE Walk(_, _, _)
Walk(p, c, i) ==
  IF i > Len(printed) THEN [verdict |-> Decision, log |-> << >>]
  ELSE LET cmd == printed[i]
           on == Walk(p, c, i + 1)
           sub == Walk(p, cmd.target, 1)
       IN IF cmd.chain # c \/ ~Hit(cmd, p) THEN on
          ELSE CASE cmd.target \in Verdicts    -> [verdict |-> cmd.target, log |-> << >>]
            [] cmd.target = Named("RETURN")    -> [verdict |-> Decision, log |-> << >>]
            [] cmd.target = Named(".CONTINUE") -> on
            [] cmd.target = Named("LOG") -> [on EXCEPT !.log = <<cmd.pos>> \o @]
            [] OTHER -> IF sub.verdict # Decision THEN sub
                        ELSE [on EXCEPT !.log = sub.log \o @]

Compiled(p) == Walk(p, p.hook, 1)
-----------------------------------------------------------------------------
(* The policy: the first rule that matches decides.                         *)

(* The firewall's own addresses are meant by the objects that are the       *)
(* firewall; by "any", networks and negations only if the policy assumes    *)
(* that the firewall is part of them, or if it is excluded by name.         *)
Meant(e, a) ==
  LET in == \E o \in e.objs : a \in Denote[o]
      byName == \E o \in e.objs : FwLike(o) /\ a \in Denote[o]
      part == policy.afpa \/ ~Self(a)
  IN  IF IsAny(e) THEN part
      ELSE IF e.neg THEN ~in /\ (part \/ \E o \in e.objs : FwLike(o))
      ELSE byName \/ (in /\ part)

MeantItf(e, i) == IsAny(e) \/ (e.neg # (i \in e.objs))
MeantDirection(rule, p) ==
  LET in == p.in # NoIface /\ MeantItf(rule.itf, p.in)
      out == p.out # NoIface /\ MeantItf(rule.itf, p.out)
  IN  CASE rule.dir = "Inbound"  -> in
        [] rule.dir = "Outbound" -> out
        [] OTHER                 -> in \/ out

Matches(rule, p) ==
  /\ Meant(rule.src, p.src) /\ Meant(rule.dst, p.dst) /\ MeantDirection(rule, p)
  /\ IsAny(rule.srv) \/ (rule.srv.neg # (p.srv \in rule.srv.objs))

Matching(p) == {n \in 1..Len(policy.rules) : Matches(policy.rules[n], p)}
Deciding(p) == {n \in Matching(p) : policy.rules[n].action # "Continue"}
First2(S) == CHOOSE n \in S : \A m \in S : n <= m

Verdict(p) ==
  IF Deciding(p) = {} THEN Decision
  ELSE IF policy.rules[First2(Deciding(p))].action = "Accept"
       THEN Named("ACCEPT") ELSE Named("DROP")

(* the rules whose match is to be logged, in order *)
Logged(p) ==
  LET last == IF Deciding(p) = {} THEN Len(policy.rules) ELSE First2(Deciding(p))
  IN  SelectSeq([n \in 1..last |-> n],
                LAMBDA n : n \in Matching(p) /\ policy.rules[n].log)
-----------------------------------------------------------------------------
(* The kernel decides about every packet as the policy does, and logs it    *)
(* for the rules of the policy that log it, once for each and in their      *)
(* order: the chains PolicyCompiler_ipt::compile makes of negations,        *)
(* logging and "any" that includes the firewall, the copies Logging2 and    *)
(* the splits make and the optimizations change neither.                    *)
PolicyKept ==
  phase = "done" =>
    \A p \in Packets : LET c == Compiled(p)
                        IN  c.verdict = Verdict(p) /\ c.log = Logged(p)

(* No command sends packets to a chain that has no commands.  countChainUsage *)
(* says it drops a chain only if nothing jumps to it: "if chain the rule      *)
(* belongs to has never been used as a target then the target chain of the    *)
(* rule will never be used as well".  But two chains may jump to the same one. *)
NoEmptyChain ==
  phase = "done" =>
    \A c \in Range(printed) :
      UserChain(c.target) => \E d \in Range(printed) : d.chain = c.target
=============================================================================
