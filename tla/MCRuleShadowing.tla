-------------------------- MODULE MCRuleShadowing --------------------------
EXTENDS RuleCoverage

Addr(id, kind, lo, hi) == [id |-> id, kind |-> kind, lo |-> lo, hi |-> hi]
AnyAddr == Addr(1, "any", 0, 9)
FwAddr == Addr(2, "address", 1, 1)
Host == Addr(3, "address", 5, 5)
Net == Addr(4, "address", 4, 7)
Twin == Addr(5, "address", 4, 7)
Across == Addr(6, "address", 6, 9)
NearAddresses ==
  {AnyAddr, FwAddr, Host, Net, Twin, Across, Addr(7, "dynamic", 0, 0),
   Addr(8, "mac", 3, 3), Addr(9, "mac", 3, 3), Addr(10, "runtime", 0, 0)}

MCFwAddresses == {FwAddr}

Serv(id, kind, num) ==
  [id |-> id, kind |-> kind, num |-> num, opts |-> {}, unset |-> {}, tos |-> NoTos, flags |-> {},
   slo |-> 0, shi |-> 0, dlo |-> 0, dhi |-> 0]
AnySrv == Serv(21, "any", 0)
Web == [Serv(22, "tcp", 0) EXCEPT !.dlo = 2, !.dhi = 2]
AnyOption == [Serv(37, "ip", 0) EXCEPT !.opts = {"any_opt"}]
NearServices ==
  {AnySrv, Web,
   [Serv(23, "tcp", 0) EXCEPT !.dlo = 1, !.dhi = 3],
   [Serv(24, "tcp", 0) EXCEPT !.dlo = 1, !.dhi = 3, !.flags = {"syn"}],
   [Serv(25, "udp", 0) EXCEPT !.slo = 0, !.shi = 3],
   Serv(26, "udp", 0), Serv(27, "icmp", AnyType), Serv(28, "icmp", 8),
   Serv(29, "ip", 0), Serv(30, "ip", 6),
   [Serv(31, "ip", 0) EXCEPT !.opts = {"lsrr"}],
   AnyOption, [Serv(38, "ip", 0) EXCEPT !.opts = {"rtralt"}],
   [Serv(39, "ip", 0) EXCEPT !.opts = {"lsrr", "any_opt"}],
   [Serv(40, "ip", 0) EXCEPT !.opts = {"short_fragm"}],
   [Serv(41, "ip", 6) EXCEPT !.unset = {"fragm"}],
   [Serv(32, "ip", 0) EXCEPT !.tos = "0x10"],
   Serv(33, "tag", 1), Serv(34, "tag", 1), Serv(35, "user", 1), Serv(36, "custom", 0)}

R == [src |-> {AnyAddr}, dst |-> {AnyAddr}, srv |-> {AnySrv}, itf |-> {AnyItf}, neg |-> {},
      dir |-> "Both", action |-> "Accept", hidden |-> FALSE, routing |-> FALSE,
      limit |-> NoLimit, unit |-> "/second", limit_not |-> FALSE, always |-> TRUE,
      fw_in_any |-> TRUE]

(* Every pair of addresses and every pair of services: asked in both orders *)
(* about a rule that is not shaded for another reason before, and once more *)
(* so that the answer comes from the cache.                                 *)
AddressPairs ==
  {<<[R EXCEPT !.src = {a}, !.dst = {Net}], [R EXCEPT !.src = {b}, !.dst = {Host}],
     [R EXCEPT !.src = {b}, !.dst = {FwAddr}], [R EXCEPT !.src = {a}, !.dst = {FwAddr}],
     [R EXCEPT !.src = {b}, !.dst = {Net}, !.srv = {Web}]>> : a, b \in NearAddresses}
ServicePairs ==
  {<<[R EXCEPT !.dst = {Net}, !.srv = {b}], [R EXCEPT !.src = {Net}, !.dst = {Host}, !.srv = {a}],
     [R EXCEPT !.dst = {FwAddr}, !.srv = {a}],
     [R EXCEPT !.src = {Net}, !.dst = {FwAddr}, !.srv = {b}],
     [R EXCEPT !.src = {Across}, !.dst = {Host}, !.srv = {a}]>> : a, b \in NearServices}

(* what else a rule may have *)
Heads ==
  {[R EXCEPT !.src = {Net, Host}, !.itf = {"e1"}],
   [R EXCEPT !.src = {Host}, !.dst = {FwAddr}, !.srv = {Web, AnySrv}],
   [R EXCEPT !.src = {Host}, !.dir = "Inbound", !.itf = {"e1", "e2"}],
   [R EXCEPT !.dst = {Across}, !.action = "Continue"],
   [R EXCEPT !.action = "Accounting"],
   [R EXCEPT !.src = {Net}, !.action = "Deny", !.fw_in_any = FALSE],
   [R EXCEPT !.src = {FwAddr}],
   [R EXCEPT !.src = {Host}, !.neg = {"src"}],
   [R EXCEPT !.src = {Host}, !.hidden = TRUE],
   [R EXCEPT !.src = {Host}, !.limit = 2], [R EXCEPT !.src = {Net}, !.limit = 3],
   [R EXCEPT !.src = {Host}, !.limit = 2, !.limit_not = TRUE],
   [R EXCEPT !.src = {Net}, !.limit = 0],
   [R EXCEPT !.src = {Net}, !.routing = TRUE],
   [R EXCEPT !.always = FALSE, !.src = {Net}],
   [R EXCEPT !.dir = "Outbound", !.src = {Twin}]}
Triples == {<<a, b, c>> : a, b \in Heads, c \in Heads \cup {R}}

(* Identifiers past 65535.  The pairs (Client, Office), (Guest, Branch) and *)
(* (Ssh, Low) share a key, and so do (x, Office) and (x, Lab) for any x;    *)
(* (Client, Floor) and (Guest, Floor) do not, although Client and Guest     *)
(* differ by 65536.                                                         *)
Client == Addr(2001, "address", 5, 5)
Office == Addr(3001, "address", 4, 7)
Guest == Addr(67537, "address", 8, 8)
Branch == Addr(3000, "address", 4, 7)
Lab == Addr(68537, "address", 8, 9)
Floor == Addr(3500, "address", 5, 6)
Ssh == [Serv(133073, "tcp", 0) EXCEPT !.dlo = 2, !.dhi = 2]
Low == [Serv(2999, "tcp", 0) EXCEPT !.dlo = 3, !.dhi = 4]
FarAddresses == {Client, Office, Guest, Branch, Lab, Floor}
FarServices == {Ssh, Low}
FarRules == {[R EXCEPT !.src = {a}] : a \in FarAddresses}
FarMixed ==
  {[R EXCEPT !.src = {a}, !.srv = {v}] : a \in {AnyAddr, Client, Office}, v \in {AnySrv, Ssh, Low}}
FarPolicies ==
  {<<a, b, c, d>> : a, b, c, d \in FarRules} \cup {<<a, b, c>> : a, b, c \in FarMixed}

MCAddresses == NearAddresses \cup FarAddresses
MCServices == NearServices \cup FarServices
MCPolicies == UNION {AddressPairs, ServicePairs, Triples, FarPolicies}

(* "Any" with the firewall outside of it, above a rule for the firewall     *)
MCFirewallRule ==
  {<<[R EXCEPT !.action = "Deny", !.fw_in_any = FALSE], [R EXCEPT !.src = {FwAddr}]>>}

(* Any IP option above a TCP service                                        *)
MCOptionsRule == {<<[R EXCEPT !.srv = {AnyOption}], [R EXCEPT !.srv = {Web}]>>}

Ends == {[ip |-> i, mac |-> 4, objects |-> {}] : i \in {1, 5, 6, 8}}
          \cup {[ip |-> 5, mac |-> 3, objects |-> {}], [ip |-> 8, mac |-> 4, objects |-> {7}]}
End == [ip |-> 5, mac |-> 4, objects |-> {}]
P == [src |-> End, dst |-> End, itf |-> "e1", dir |-> "Inbound", proto |-> 6, opts |-> {},
      tos |-> NoTos, icmp |-> 0, flags |-> {}, sport |-> 1, dport |-> 2, tag |-> 0, user |-> 0,
      custom |-> {}, rate |-> [u \in {"/second"} |-> 0], in_time |-> TRUE]
MCPackets ==
  {[P EXCEPT !.src = s, !.dst = d] : s, d \in Ends}
  \cup {[P EXCEPT !.proto = n, !.flags = f, !.sport = sp, !.dport = dp] :
          n \in {6, 17}, f \in {{}, {"syn"}}, sp \in {1, 5}, dp \in {2, 3, 5}}
  \cup {[P EXCEPT !.proto = n, !.opts = o, !.tos = t, !.icmp = i] :
          n \in {1, 6}, o \in {{}, {"lsrr"}, {"rtralt"}, {"fragm"}}, t \in {NoTos, "0x10"}, i \in {0, 8}}
  \cup {[P EXCEPT !.tag = t, !.user = u, !.custom = c] : t, u \in {0, 1}, c \in {{}, {36}}}
  \cup {[P EXCEPT !.itf = i, !.dir = d, !.rate = [u \in {"/second"} |-> n], !.in_time = b] :
          i \in {"e1", "e2"}, d \in {"Inbound", "Outbound"}, n \in {0, 2, 5}, b \in BOOLEAN}
=============================================================================
