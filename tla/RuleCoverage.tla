---------------------------- MODULE RuleCoverage ----------------------------
(***************************************************************************)
(* What the atoms of RuleShadowing match, as packets: the reference that   *)
(* the comparisons of objects and atoms are checked against.               *)
(***************************************************************************)
EXTENDS RuleShadowing

CONSTANT Packets

(* One end of a packet: its address, its MAC address, and the objects with  *)
(* an address known at run time only that it belongs to.                    *)
Endpoint == [ip : Int, mac : Int, objects : SUBSET Nat]
Packet == [src : Endpoint, dst : Endpoint, itf : Interfaces, dir : {"Inbound", "Outbound"},
           proto : Nat, opts : SUBSET STRING, tos : STRING, icmp : Int,
           flags : SUBSET STRING, sport : 0..MaxPort, dport : 0..MaxPort,
           tag : Int, user : Int, custom : SUBSET Nat,
           rate : [Units -> Nat], in_time : BOOLEAN]

ASSUME PacketAssumption == Packets \subseteq Packet
-----------------------------------------------------------------------------
FwIps == {a.lo : a \in FwAddresses}

InAddress(a, e, fw_in_any) ==
  CASE a.kind = "any" -> fw_in_any \/ e.ip \notin FwIps
    [] a.kind = "address" -> a.lo <= e.ip /\ e.ip <= a.hi
    [] a.kind = "mac" -> e.mac = a.lo
    [] OTHER -> a.id \in e.objects

InPorts(lo, hi, port) == (lo = 0 /\ hi = 0) \/ (lo <= port /\ port <= hi)
Ports(o, p) == InPorts(o.slo, o.shi, p.sport) /\ InPorts(o.dlo, o.dhi, p.dport)

(* What _printIP writes for the options: -f for fragments; the option "any" *)
(* alone if it is on, else each of the others.                              *)
IpOptions == {"lsrr", "ssrr", "rr", "ts", "rtralt"}
InOptions(o, p) ==
  /\ o.opts \cap {"fragm", "short_fragm"} # {} => "fragm" \in p.opts
  /\ IF "any_opt" \in o.opts
     THEN p.opts \cap IpOptions # {}
     ELSE o.opts \cap IpOptions \subseteq p.opts

InService(o, p) ==
  CASE o.kind = "any" -> TRUE
    [] o.kind = "ip" -> /\ o.num \in {0, p.proto}
                        /\ InOptions(o, p)
                        /\ o.tos \in {NoTos, p.tos}
    [] o.kind = "icmp" -> p.proto = 1 /\ o.num \in {AnyType, p.icmp}
    [] o.kind = "tcp" -> p.proto = 6 /\ o.flags = p.flags /\ Ports(o, p)
    [] o.kind = "udp" -> p.proto = 17 /\ Ports(o, p)
    [] o.kind = "tag" -> p.tag = o.num
    [] o.kind = "user" -> p.user = o.num
    [] OTHER -> o.id \in p.custom

(* "rule 1 matches rates between 0 and 49": up to the limit, or above it.   *)
InLimit(r, p) ==
  r.limit > 0 => IF r.limit_not THEN p.rate[r.unit] >= r.limit ELSE p.rate[r.unit] < r.limit

Matches(a, p) ==
  /\ (InAddress(a.src, p.src, a.head.fw_in_any) <=> "src" \notin a.head.neg)
  /\ (InAddress(a.dst, p.dst, a.head.fw_in_any) <=> "dst" \notin a.head.neg)
  /\ (InService(a.srv, p) <=> "srv" \notin a.head.neg)
  /\ a.itf \in {AnyItf, p.itf}
  /\ a.head.dir \in {"Both", p.dir}
  /\ InLimit(a.head, p)
  /\ a.head.always \/ p.in_time

(* The options of an IP service that are matched but never compared: "any   *)
(* option" and "router alert".  The service above may have one of them that *)
(* the one below has not, and the one below "any option" in place of        *)
(* options that were compared.                                              *)
UncomparedOptions(o) == IF o.kind = "ip" THEN o.opts \cap {"any_opt", "rtralt"} ELSE {}
OptionsOverlooked(o1, o2) ==
  \/ ~(UncomparedOptions(o2) \subseteq UncomparedOptions(o1))
  \/ /\ "any_opt" \in UncomparedOptions(o1) \ UncomparedOptions(o2)
     /\ o2.kind = "ip" /\ o2.opts \cap IpOptions # {}

(* What the comparison does not look at.  The Interval element is never     *)
(* compared; a rule for one direction is compared with one for both as if   *)
(* they agreed; "any" is compared as if the firewall were part of it; an    *)
(* IP service for all protocols as if it had no TOS; rates as if a limit    *)
(* of 0 were one and a negated limit grew like any other; IP services as if *)
(* they had neither "any option" nor "router alert".                        *)
Overlooked(lower, upper) ==
  \/ ~upper.head.always
  \/ upper.head.dir \notin {"Both", lower.head.dir}
  \/ ~upper.head.fw_in_any /\ (upper.src.kind = "any" \/ upper.dst.kind = "any")
  \/ upper.srv.kind = "ip" /\ upper.srv.tos # NoTos /\ lower.srv.kind # "ip"
  \/ OptionsOverlooked(lower.srv, upper.srv)
  \/ upper.head.limit > 0 /\ (lower.head.limit = 0 \/ upper.head.limit_not)

(* A pair the compiler stops at is one where the atom above matches every   *)
(* packet the atom below does, wherever nothing is overlooked and no answer *)
(* about the pair has a key that another pair of objects shares: the user   *)
(* is not made to change a policy that works.                               *)
ShadowSound ==
  \A r \in report :
    ~Overlooked(r.lower, r.upper) /\ Unmixed(r.lower, r.upper) =>
      \A p \in Packets : Matches(r.lower, p) => Matches(r.upper, p)
=============================================================================
