---------------------------- MODULE BorrowedObject ----------------------------
(***************************************************************************)
(* What the iamdead protocol of BackgroundOp promises: an object is created*)
(* once, a second thread may borrow it for a while, and it is destroyed    *)
(* only while it is not borrowed, after which nobody borrows it again.     *)
(***************************************************************************)
CONSTANT Objects

VARIABLES life,     \* [Objects -> {"none", "alive", "destroyed"}]
          borrowed  \* the objects the second thread is using

Init == life = [o \in Objects |-> "none"] /\ borrowed = {}

Create(o) ==
  /\ life[o] = "none"
  /\ life' = [life EXCEPT ![o] = "alive"]
  /\ UNCHANGED borrowed

Borrow(o) ==
  /\ life[o] = "alive" /\ o \notin borrowed
  /\ borrowed' = borrowed \cup {o}
  /\ UNCHANGED life

Return(o) ==
  /\ o \in borrowed
  /\ borrowed' = borrowed \ {o}
  /\ UNCHANGED life

Destroy(o) ==
  /\ life[o] = "alive" /\ o \notin borrowed
  /\ life' = [life EXCEPT ![o] = "destroyed"]
  /\ UNCHANGED borrowed

Next == \E o \in Objects : Create(o) \/ Borrow(o) \/ Return(o) \/ Destroy(o)

Spec == Init /\ [][Next]_<<life, borrowed>>

=============================================================================
