---------------------------- MODULE MCInstDialog ----------------------------
(* A firewall f1 of its own and a cluster c1 with one member f2: two units *)
(* and two firewalls to install, one over ssh and one with a script.  The  *)
(* run in which compilers are missing has one firewall more.               *)
EXTENDS InstDialog
CONSTANTS f1, f2, f3, c1
MCMember == [c \in {c1} |-> {f2}]
=============================================================================
