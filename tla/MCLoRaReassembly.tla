------------------------- MODULE MCLoRaReassembly -------------------------
(***************************************************************************)
(* Instances of LoRaReassembly for TLC.  Sizes are scaled down and keep    *)
(* their relations: a full frame is MaxFragments - 1 full payloads and a   *)
(* shorter last one, and the radio refuses a packet with a full payload.   *)
(***************************************************************************)
EXTENDS LoRaReassembly, TLC

\* A packet that would overflow the frame buffer, and one that announces more
\* fragments than a frame may have.
MCForeign ==
  { [id |-> 0, total |-> 3, index |-> 2, len |-> 2],
    [id |-> 1, total |-> 4, index |-> 1, len |-> 1] }

NoForeign == {}

MCSymmetry == Permutations(Sender)
=============================================================================
