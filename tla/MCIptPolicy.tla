--------------------------- MODULE MCIptPolicy ---------------------------
EXTENDS IptPolicyMeaning

(* A firewall with addresses f1, f2 and interfaces e1, e2; N is a network   *)
(* with its address f1 in it, h a host of that network, k one elsewhere.    *)
MCObj == {"fw", "f1", "f2", "h", "k", "N"}
MCDenote == [fw |-> {"f1", "f2"}, f1 |-> {"f1"}, f2 |-> {"f2"},
             h |-> {"h"}, k |-> {"k"}, N |-> {"f1", "h"}]

El(neg, objs) == [neg |-> neg, single |-> FALSE, objs |-> objs]
Anything == El(FALSE, {})
Elements(objs, n) ==
  {Anything} \cup {El(neg, s) : neg \in BOOLEAN,
                           s \in {t \in SUBSET objs : Cardinality(t) \in 1..n}}

Rule(src, dst, srv, itf, dir, action, log) ==
  [src |-> src, dst |-> dst, srv |-> srv, itf |-> itf, dir |-> dir,
   action |-> action, log |-> log]
Policy(rules, afpa, ipforward) ==
  [rules |-> rules, afpa |-> afpa, ipforward |-> ipforward]

Dirs == {"Both", "Inbound", "Outbound"}

(* all the pairs of Source and Destination *)
Addressing ==
  {Policy(<<Rule(s, d, Anything, Anything, dir, "Deny", FALSE)>>, afpa, TRUE) :
     s \in Elements({"fw", "f1", "h", "N"}, 2), d \in Elements({"fw", "f1", "h", "N"}, 2),
     dir \in Dirs, afpa \in BOOLEAN}

(* interfaces and directions, with what the choice of a chain depends on *)
Few == {Anything, El(FALSE, {"fw"}), El(FALSE, {"N"}), El(TRUE, {"h"}),
        El(FALSE, {"f1", "h"}), El(TRUE, {"fw", "h"}), El(TRUE, {"N", "k"})}
Itfs == Elements(Iface, 2) \ {El(TRUE, Iface)}
Interfaces ==
  {Policy(<<Rule(s, d, Anything, itf, dir, "Accept", FALSE)>>, TRUE, fwd) :
     s \in Few, d \in Few, itf \in Itfs, dir \in Dirs, fwd \in BOOLEAN}

(* services and negation in all the elements, with logging *)
Services ==
  {Policy(<<Rule(s, d, v, itf, dir, "Accept", TRUE)>>, TRUE, TRUE) :
     s \in Few, d \in Few, v \in Elements(Srv, 2), itf \in {Anything, El(TRUE, {"e1"})},
     dir \in Dirs}

(* two rules, the first of which may only log *)
Pairs ==
  {Policy(<<Rule(s1, d1, Anything, Anything, dir1, a1, TRUE),
            Rule(s2, Anything, Anything, Anything, "Both", "Deny", TRUE)>>, afpa, TRUE) :
     s1 \in Few, d1 \in Few, dir1 \in Dirs, a1 \in {"Accept", "Continue"},
     s2 \in {Anything, El(FALSE, {"f1", "h"}), El(TRUE, {"fw", "h"})}, afpa \in BOOLEAN}

(* Two kinds of policies are left out of the sets above, because the code   *)
(* gets them wrong: those that negate all the interfaces of the firewall,   *)
(* and those that log, negate several objects and are not forwarding.       *)
MCPolicies == UNION {Addressing, Interfaces, Services, Pairs}

(* one of the latter *)
MCLostChain ==
  {Policy(<<Rule(El(TRUE, {"f1", "h"}), Anything, Anything, Anything, "Outbound",
                 "Accept", TRUE)>>, TRUE, FALSE)}
==========================================================================
