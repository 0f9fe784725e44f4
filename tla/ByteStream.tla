---------------------------- MODULE ByteStream ----------------------------
(***************************************************************************)
(* What one direction of an established connection promises: the bytes one *)
(* application hands to Write come out of the other one's Read in order,   *)
(* each exactly once, however they are cut; and the end of the stream is   *)
(* reported only after everything that was written.                        *)
(***************************************************************************)
EXTENDS Naturals, Sequences

VARIABLES sent, received, ended

vars == <<sent, received, ended>>

Init == sent = <<>> /\ received = <<>> /\ ended = FALSE

(* Some more bytes are written: sent only grows at its end.                *)
Push ==
  /\ Len(sent') >= Len(sent)
  /\ SubSeq(sent', 1, Len(sent)) = sent
  /\ UNCHANGED <<received, ended>>

(* Some of the bytes not yet read are read.                                *)
Pull ==
  /\ ~ended
  /\ Len(received') \in Len(received) .. Len(sent)
  /\ received' = SubSeq(sent, 1, Len(received'))
  /\ UNCHANGED <<sent, ended>>

End ==
  /\ received = sent
  /\ ended' = TRUE
  /\ UNCHANGED <<sent, received>>

Next == Push \/ Pull \/ End

Spec == Init /\ [][Next]_vars
=============================================================================
