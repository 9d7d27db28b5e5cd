------------------------------ MODULE LoRaIds ------------------------------
(***************************************************************************)
(* What the 4-bit ids of the LoRa link can be trusted with.  The module    *)
(* adds to LoRaReassembly, for each id, a record of who has used it and    *)
(* how long it has been silent.  Nothing is asked of the senders: ids      *)
(* wrap, two senders take the same id, a sender starts again at id 0       *)
(* before the remains of its last frames are gone.                         *)
(***************************************************************************)
EXTENDS LoRaReassembly

VARIABLES
  users,  \* history: [FragId -> SUBSET Nat]: the frames that have used the
          \* id since it was last silent for a Lifetime; 0 for a foreign packet
  since   \* history: [FragId -> 0..Lifetime]: seconds the id has been silent

history == <<users, since>>
allVars == <<vars, users, since>>

\* What an entry can live for: FRAG_TIMEOUT_SEC, and the time until the loop
\* looks for expired entries again.
Lifetime == FragTimeout + CleanupPeriod + Stall

\* A packet of frame k with id m goes on the air.
Use(m, k) ==
  /\ users' = [users EXCEPT ![m] = @ \cup {k}]
  /\ since' = [since EXCEPT ![m] = 0]

OnAir(m) == \E s \in Sender : \E f \in air[s] : f.id = m

\* A second passes; it is silent for the ids of which nothing is on the air.
Pass ==
  /\ since' = [m \in FragId |-> IF OnAir(m) THEN 0
                                ELSE IF since[m] < Lifetime THEN since[m] + 1
                                ELSE since[m]]
  /\ users' = [m \in FragId |-> IF since'[m] = Lifetime THEN {} ELSE users[m]]

IdInit ==
  /\ Init
  /\ users = [m \in FragId |-> {}]
  /\ since = [m \in FragId |-> Lifetime]

IdNext ==
  \/ \E s \in Sender :
       \/ HandleTapRead(s) /\ Use(nextFragId[s], Len(sent'))
       \/ (Receive(s) \/ Lose(s) \/ SenderCrash(s)) /\ UNCHANGED history
  \/ \E h \in Foreign : ReceiveForeign(h) /\ Use(h.id, 0)
  \/ (IdleIteration \/ ReceiverRestart) /\ UNCHANGED history
  \/ Tick /\ Pass

IdSpec == IdInit /\ [][IdNext]_allVars

-----------------------------------------------------------------------------
(* Properties.                                                             *)

\* The frame of this packet is the only user of its id.
Alone(f) == users[f.id] = {f.frame}

\* The packet f of sender s arrives in this step.
Arrives(s, f) == Receive(s) /\ f \notin air'[s]

FrameSent(f) == WholeFrame(f.frame, sent[f.frame].len)

\* Only the reuse of an id within an entry's lifetime can mix two frames: when
\* no other packet has used the id of f for that long, what the arrival of f
\* makes handle_lora_irq write to TAP is the frame that handle_tap_read took,
\* every byte of it in its place and no byte more.
AloneIsWhole ==
  [][\A s \in Sender : \A f \in air[s] :
        Arrives(s, f) /\ Alone(f) => tap' \in {tap, Append(tap, FrameSent(f))}]_allVars

\* A frame of one packet that arrives is written to TAP at once, unless its
\* id has been used by another within an entry's lifetime: no older remains,
\* full table or count of fragments stands in its way.
SingleFragmentDelivered ==
  [][\A s \in Sender : \A f \in air[s] :
        Arrives(s, f) /\ Alone(f) /\ f.total = 1 => tap' = Append(tap, FrameSent(f))]_allVars
=============================================================================
