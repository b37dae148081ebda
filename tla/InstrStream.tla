----------------------------- MODULE InstrStream -----------------------------
(***************************************************************************)
(* What encoding and decoding instructions through a section promises: a   *)
(* queue.  A writer appends pieces (an instruction header, an operand with *)
(* its offset, the data of an operand), a reader takes them in order, each *)
(* as it was written, and a reader that goes on asking gets all of them.   *)
(* There are no bytes, positions, buffers or failures here.                *)
(***************************************************************************)
EXTENDS Naturals, Sequences

CONSTANTS Piece   \* what may be written

VARIABLES
  sent,   \* the pieces written, in order
  got     \* the pieces read, in order

vars == <<sent, got>>

Init == sent = <<>> /\ got = <<>>

Send ==
  /\ Len(sent') = Len(sent) + 1
  /\ SubSeq(sent', 1, Len(sent)) = sent
  /\ sent'[Len(sent')] \in Piece
  /\ UNCHANGED got

Receive ==
  /\ Len(got) < Len(sent)
  /\ got' = Append(got, sent[Len(got) + 1])
  /\ UNCHANGED sent

Next == Send \/ Receive

(* What may happen, and that what can be received is in the end received. *)
Safe == Init /\ [][Next]_vars
Spec == Safe /\ WF_vars(Receive)
=============================================================================
