------------------------------ MODULE EditHistory ------------------------------
(***************************************************************************)
(* What an undo stack promises to the user: an edit may change the         *)
(* document in any way, Undo brings back exactly the document that was     *)
(* there before the last edit, and Redo the one that was there before the  *)
(* last Undo.                                                              *)
(***************************************************************************)
EXTENDS Sequences, SequencesExt

CONSTANT Documents  \* the documents an edit may produce

VARIABLES document,  \* what the user sees
          past,      \* the documents Undo goes back to, the latest last
          future     \* the documents Redo goes forward to, the next one first

Init == document \in Documents /\ past = <<>> /\ future = <<>>

Edit ==
  /\ document' \in Documents
  /\ past' = Append(past, document)
  /\ future' = <<>>

Undo ==
  /\ past # <<>>
  /\ document' = Last(past)
  /\ past' = Front(past)
  /\ future' = <<document>> \o future

Redo ==
  /\ future # <<>>
  /\ document' = Head(future)
  /\ past' = Append(past, document)
  /\ future' = Tail(future)

Next == Edit \/ Undo \/ Redo

Spec == Init /\ [][Next]_<<document, past, future>>

=============================================================================
