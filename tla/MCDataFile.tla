----------------------------- MODULE MCDataFile -----------------------------
(* Two users with a copy of the program each: one who works and one who     *)
(* comes in between; a third copy stands for a user who only looks.  In the *)
(* runs that show what shared accounts do, the first two copies are the     *)
(* same user's.                                                             *)
EXTENDS DataFile, TLC

CONSTANTS c1, c2, c3

OwnUser == [c \in Copies |-> c]
SharedUser == [c \in Copies |-> IF c = c2 THEN c1 ELSE c]
CopiesSymmetric == Permutations(Copies)
=============================================================================
