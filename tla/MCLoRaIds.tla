---------------------------- MODULE MCLoRaIds ----------------------------
(***************************************************************************)
(* Instances of LoRaIds for TLC, in the sizes of MCLoRaReassembly.         *)
(***************************************************************************)
EXTENDS LoRaIds, TLC

\* The last fragment of a frame of two packets, from a stranger.
MCForeign == { [id |-> 1, total |-> 2, index |-> 1, len |-> 1] }

MCSymmetry == Permutations(Sender)
=============================================================================
