--------------------------- MODULE MCObjectDeletion ---------------------------
(* One host, one group and one group yet to be made, and one rule.          *)
EXTENDS ObjectDeletion

CONSTANTS x, g, n, r
MCHosts == {x}
MCGroups == {g, n}
MCFreshGroups == {n}
MCRules == {r}
=============================================================================
