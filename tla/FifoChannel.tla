---------------------------- MODULE FifoChannel ----------------------------
(***************************************************************************)
(* What the event path of the Meshtastic service promises its listeners:   *)
(* what has been put in comes out once, in the same order, and does come   *)
(* out unless the channel is closed.                                       *)
(***************************************************************************)
EXTENDS Naturals, Sequences

CONSTANT Event

VARIABLES
  sent,      \* what has been put in
  received,  \* what has come out
  closed     \* nothing need come out any more

vars == <<sent, received, closed>>

Send ==
  /\ \E e \in Event : sent' = Append(sent, e)
  /\ UNCHANGED <<received, closed>>

Receive ==
  /\ ~ closed
  /\ Len(received) < Len(sent)
  /\ received' = Append(received, sent[Len(received) + 1])
  /\ UNCHANGED <<sent, closed>>

Close ==
  /\ closed' = TRUE
  /\ UNCHANGED <<sent, received>>

Init == sent = <<>> /\ received = <<>> /\ closed = FALSE

Next == Send \/ Receive \/ Close

Spec == Init /\ [][Next]_vars /\ WF_vars(Receive)
=============================================================================
