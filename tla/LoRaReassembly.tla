--------------------------- MODULE LoRaReassembly ---------------------------
(***************************************************************************)
(* The LoRa link of the TAP bridge (firmware/lora-bridge): any number of   *)
(* sending bridges fragment Ethernet frames onto one shared radio channel  *)
(* and one receiving bridge puts them together again.                      *)
(*                                                                         *)
(* A step of a sender is one handle_tap_read(), which fragments a frame    *)
(* and blocks until every fragment is out.  A step of the receiver is one  *)
(* iteration of the select() loop of main(): at most one packet, then the  *)
(* check for the periodic cleanup.  The channel keeps the order of a       *)
(* sender's packets and may lose any of them.                              *)
(*                                                                         *)
(* Time is counted in seconds, the resolution of time(NULL).  An entry     *)
(* keeps its age, now - first_seen, so the clock itself needs no bound.    *)
(* A payload is abstracted to the frame it was cut from and its length.    *)
(***************************************************************************)
EXTENDS Naturals, Sequences, FiniteSets

CONSTANTS
  Sender,               \* bridges that transmit, besides the receiver
  FragMaxPayload,       \* FRAG_MAX_PAYLOAD, 252 bytes
  FragHeaderSize,       \* FRAG_HEADER_SIZE, 3 bytes
  RadioMaxPayload,      \* SX1262_MAX_PAYLOAD, 254 bytes
  MaxFrameSize,         \* MAX_FRAME_SIZE, 1500 bytes
  MaxFragments,         \* MAX_FRAGMENTS, 6
  MaxFragId,            \* MAX_FRAG_ID, 16: ids wrap at this value
  MaxReassemblyEntries, \* MAX_REASSEMBLY_ENTRIES, 16
  FragTimeout,          \* FRAG_TIMEOUT_SEC, 5
  CleanupPeriod,        \* the literal 5 of the main loop
  Stall,                \* longest iteration of the receiver's loop, seconds
  RestartSec,           \* RestartSec of lora-bridge.service
  FrameLens,            \* the frame lengths that TAP delivers
  Foreign,              \* headers of packets no bridge sent
  MaxFrames             \* bound on the number of frames of a behaviour

ASSUME SizesAssumption ==
  /\ FragMaxPayload \in Nat \ {0}
  /\ FragHeaderSize \in Nat
  /\ RadioMaxPayload \in Nat
  /\ MaxFrameSize \in Nat \ {0}
  /\ MaxFragments \in Nat \ {0}
  /\ FrameLens \subseteq 1 .. MaxFrameSize

\* The 4-bit id gives at most as many entries as the table has room for.
ASSUME IdsAssumption ==
  /\ MaxFragId \in Nat \ {0}
  /\ MaxReassemblyEntries \in Nat
  /\ MaxFragId <= MaxReassemblyEntries

\* select() wakes the loop after one second at the latest; an iteration that
\* also sends a frame waits up to half a second for each fragment.
ASSUME TimesAssumption ==
  /\ FragTimeout \in Nat \ {0}
  /\ CleanupPeriod \in Nat
  /\ Stall \in Nat \ {0}
  /\ RestartSec \in Nat
  /\ MaxFrames \in Nat

FragId == 0 .. MaxFragId - 1
Index == 0 .. MaxFragments - 1
PayloadLen == 0 .. FragMaxPayload

\* What the four header fields of a decoded packet can hold.
Header == [id : FragId, total : Nat, index : Nat, len : Nat]

ASSUME ForeignAssumption == Foreign \subseteq Header

\* A piece of payload: which frame it is a part of (0 for none) and its bytes.
Chunk == [frame : Nat, len : PayloadLen]
Zeroes == [frame |-> 0, len |-> 0]

Fragment == [id : FragId, total : Nat, index : Nat, len : Nat, frame : Nat]

Entry == [id : FragId, total : 1 .. MaxFragments, mask : SUBSET Index,
          data : [Index -> Chunk], len : 0 .. MaxFrameSize, age : Nat]

\* What tap_write is given for a frame of n fragments.
FrameOfSize(n) == [chunks : [0 .. n - 1 -> Chunk], len : 0 .. MaxFrameSize]
AreFrames(q) == \A k \in DOMAIN q : \E n \in 1 .. MaxFragments : q[k] \in FrameOfSize(n)

VARIABLES
  nextFragId,    \* [Sender -> FragId]: next_frag_id
  air,           \* [Sender -> SUBSET Fragment]: packets not yet received
  down,          \* [Sender -> 0..RestartSec]: seconds until systemd restarts it
  list,          \* reassembly_list of the receiver
  sinceCleanup,  \* now - last_cleanup of the receiver
  sent,          \* history: the frames read from TAP, in order
  tap            \* history: the frames written to the receiver's TAP, in order

senderVars == <<nextFragId, air, down, sent>>
receiverVars == <<list, sinceCleanup, tap>>
vars == <<nextFragId, air, down, list, sinceCleanup, sent, tap>>

-----------------------------------------------------------------------------
(* Fragmentation: fragment_frame, and what the radio driver makes of it.   *)

NumFrags(len) == (len + FragMaxPayload - 1) \div FragMaxPayload

PayloadLenAt(len, i) ==
  LET remaining == len - i * FragMaxPayload
  IN  IF remaining > FragMaxPayload THEN FragMaxPayload ELSE remaining

FragmentFrame(id, len, frame) ==
  { [id |-> id, total |-> NumFrags(len), index |-> i,
     len |-> PayloadLenAt(len, i), frame |-> frame] :
        i \in 0 .. NumFrags(len) - 1 }

\* sx1262_transmit refuses a packet longer than SX1262_MAX_PAYLOAD; the
\* caller logs it and goes on with the next fragment.
Transmits(f) == FragHeaderSize + f.len <= RadioMaxPayload

-----------------------------------------------------------------------------
(* Reassembly.                                                             *)

\* fragment_decode: the checks on a packet that arrived whole.
Decodes(f) ==
  /\ f.len <= FragMaxPayload
  /\ f.index < MaxFragments
  /\ f.index < f.total

\* find_or_create_entry: the entry of this id, whoever the sender is ...
EntriesOf(id) == { e \in list : e.id = id }

NewEntry(f) ==
  [id |-> f.id, total |-> f.total, mask |-> {},
   data |-> [i \in Index |-> Zeroes], len |-> 0, age |-> 0]

\* Mutant: every fragment opens an entry.
AlwaysNewEntry(f) == NewEntry(f)

EntryFor(f) ==
  IF EntriesOf(f.id) # {} THEN CHOOSE e \in EntriesOf(f.id) : TRUE
                          ELSE NewEntry(f)

\* Mutant: the last place of the table is never given away.
FullOneEarly(id) ==
  EntriesOf(id) = {} /\ Cardinality(list) + 1 >= MaxReassemblyEntries

\* ... unless a new one would exceed the table.
TableFull(id) ==
  EntriesOf(id) = {} /\ Cardinality(list) >= MaxReassemblyEntries

\* Mutant: the announced number of fragments is not checked.
RefusesOnlyWhenFull(f) == TableFull(f.id)

Refuses(f) == f.total \notin 1 .. MaxFragments \/ TableFull(f.id)

End(f) == f.index * FragMaxPayload + f.len
Overflows(f) == End(f) > MaxFrameSize
\* Mutant: no check of the received mask before the payload is copied.
NeverDuplicate(e, f) == FALSE

Duplicate(e, f) == f.index \in e.mask

\* Mutant: total_len follows the last fragment, not the furthest.
StoreLastLen(e, f) ==
  [e EXCEPT !.mask = @ \cup {f.index},
            !.data[f.index] = [frame |-> f.frame, len |-> f.len],
            !.len = End(f)]

Store(e, f) ==
  [id |-> e.id, total |-> e.total, age |-> e.age,
   mask |-> e.mask \cup {f.index},
   data |-> [e.data EXCEPT ![f.index] = [frame |-> f.frame, len |-> f.len]],
   len |-> IF End(f) > e.len THEN End(f) ELSE e.len]

\* The expected mask comes from the header of the packet just received.
Full(e, f) == e.mask = 0 .. f.total - 1

\* The frame handed to tap_write: total_len bytes of the entry's buffer.
FrameOf(e, f) ==
  [chunks |-> [i \in 0 .. f.total - 1 |-> e.data[i]], len |-> e.len]

\* reassemble_fragment, when f passes both sets of header checks.
Completes(f) ==
  /\ Decodes(f)
  /\ ~ Refuses(f)
  /\ ~ Duplicate(EntryFor(f), f)
  /\ ~ Overflows(f)
  /\ Full(Store(EntryFor(f), f), f)

\* Mutant: the changed entry is linked in beside the old one.
ListKeepsOld(f) ==
  IF ~ Decodes(f) \/ Refuses(f) \/ Duplicate(EntryFor(f), f) THEN list
  ELSE list \cup {Store(EntryFor(f), f)}

ListAfter(f) ==
  LET e == EntryFor(f)
  IN  CASE ~ Decodes(f) \/ Refuses(f) -> list
        [] Decodes(f) /\ ~ Refuses(f) ->
             IF Duplicate(e, f) THEN list
             ELSE (list \ {e}) \cup
                  (IF Overflows(f) \/ Full(Store(e, f), f) THEN {}
                                                           ELSE {Store(e, f)})

-----------------------------------------------------------------------------
(* The receiver's loop.                                                    *)

\* Mutant: an entry of exactly the timeout's age survives.
ExpiresLate(l) ==
  IF sinceCleanup >= CleanupPeriod
    THEN /\ list' = { e \in l : e.age <= FragTimeout }
         /\ sinceCleanup' = 0
    ELSE /\ list' = l
         /\ UNCHANGED sinceCleanup

\* Mutant: a cleanup starts the clock of what it leaves anew.
RestartsClock(l) ==
  IF sinceCleanup >= CleanupPeriod
    THEN /\ list' = { [e EXCEPT !.age = 0] : e \in { d \in l : d.age < FragTimeout + Stall } }
         /\ sinceCleanup' = 0
    ELSE /\ list' = l
         /\ UNCHANGED sinceCleanup

\* reassembly_cleanup_expired, when the loop finds five seconds have passed.
EndOfIteration(l) ==
  IF sinceCleanup >= CleanupPeriod
    THEN /\ list' = { e \in l : e.age < FragTimeout }
         /\ sinceCleanup' = 0
    ELSE /\ list' = l
         /\ UNCHANGED sinceCleanup

\* handle_lora_irq with the packet f in the radio's buffer.
HandleLoraIrq(f) ==
  /\ EndOfIteration(ListAfter(f))
  /\ tap' = IF Completes(f) THEN Append(tap, FrameOf(Store(EntryFor(f), f), f))
                            ELSE tap

NextOnAir(s, f) ==
  /\ f \in air[s]
  /\ \A g \in air[s] : f.index <= g.index

Receive(s) ==
  \E f \in air[s] :
    /\ NextOnAir(s, f)
    /\ HandleLoraIrq(f)
    /\ air' = [air EXCEPT ![s] = @ \ {f}]
    /\ UNCHANGED <<nextFragId, down, sent>>

ReceiveForeign(h) ==
  /\ HandleLoraIrq([id |-> h.id, total |-> h.total, index |-> h.index,
                    len |-> h.len, frame |-> 0])
  /\ UNCHANGED senderVars

\* An iteration that only finds the cleanup due.
IdleIteration ==
  /\ sinceCleanup >= CleanupPeriod
  /\ EndOfIteration(list)
  /\ UNCHANGED <<nextFragId, air, down, sent, tap>>

\* The daemon stops, whatever the cause, and starts over with fragment_init.
ReceiverRestart ==
  /\ list' = {}
  /\ sinceCleanup' = 0
  /\ UNCHANGED <<nextFragId, air, down, sent, tap>>

-----------------------------------------------------------------------------
(* The senders and the channel.                                            *)

\* handle_tap_read.  The handler returns when the last fragment is out, so a
\* sender has the fragments of one frame in the air at a time.
HandleTapRead(s) ==
  \E len \in FrameLens :
    /\ down[s] = 0
    /\ air[s] = {}
    /\ Len(sent) < MaxFrames
    /\ sent' = Append(sent, [src |-> s, len |-> len])
    /\ nextFragId' = [nextFragId EXCEPT ![s] = (@ + 1) % MaxFragId]
    /\ air' = [air EXCEPT ![s] =
                { f \in FragmentFrame(nextFragId[s], len, Len(sent')) :
                    Transmits(f) }]
    /\ UNCHANGED <<down, receiverVars>>

\* A packet is lost in the air, fails its CRC, meets a deaf receiver, or its
\* transmission fails and the sender's loop continues with the next one.
Lose(s) ==
  \E f \in air[s] :
    /\ NextOnAir(s, f)
    /\ air' = [air EXCEPT ![s] = @ \ {f}]
    /\ UNCHANGED <<nextFragId, down, sent, receiverVars>>

\* A sender stops in the middle of anything; systemd starts it RestartSec
\* later, with next_frag_id back at 0.
SenderCrash(s) ==
  /\ down[s] = 0
  /\ down' = [down EXCEPT ![s] = RestartSec]
  /\ nextFragId' = [nextFragId EXCEPT ![s] = 0]
  /\ air' = [air EXCEPT ![s] = {}]
  /\ UNCHANGED <<sent, receiverVars>>

\* A second passes, unless the loop's own pace forces an iteration first.
Tick ==
  /\ sinceCleanup < CleanupPeriod + Stall
  /\ sinceCleanup' = sinceCleanup + 1
  /\ list' = { [e EXCEPT !.age = @ + 1] : e \in list }
  /\ down' = [s \in Sender |-> IF down[s] > 0 THEN down[s] - 1 ELSE 0]
  /\ UNCHANGED <<nextFragId, air, sent, tap>>

-----------------------------------------------------------------------------
Init ==
  /\ nextFragId = [s \in Sender |-> 0]
  /\ air = [s \in Sender |-> {}]
  /\ down = [s \in Sender |-> 0]
  /\ list = {}
  /\ sinceCleanup = 0
  /\ sent = <<>>
  /\ tap = <<>>

Next ==
  \/ \E s \in Sender : HandleTapRead(s) \/ Receive(s) \/ Lose(s) \/ SenderCrash(s)
  \/ \E h \in Foreign : ReceiveForeign(h)
  \/ IdleIteration
  \/ ReceiverRestart
  \/ Tick

Spec == Init /\ [][Next]_vars

\* The clock runs and select() returns at least once a second, so a due
\* cleanup is carried out.  Nothing obliges a sender, the channel or a crash.
FairSpec == Spec /\ WF_vars(Tick) /\ WF_vars(IdleIteration)

-----------------------------------------------------------------------------
(* Properties.                                                             *)

\* Every variable holds a value of its C type and bound.
TypeOK ==
  /\ nextFragId \in [Sender -> FragId]
  /\ air \in [Sender -> SUBSET Fragment]
  /\ down \in [Sender -> 0 .. RestartSec]
  /\ list \subseteq Entry
  /\ sinceCleanup \in 0 .. CleanupPeriod + Stall
  /\ sent \in Seq([src : Sender, len : FrameLens])
  /\ AreFrames(tap)

\* The linked list never holds two entries of one id, so that the search of
\* find_or_create_entry and remove_entry mean the same entry.
UniqueIds == \A d, e \in list : d.id = e.id => d = e

\* An entry holds exactly what was received for it: the buffer is zero
\* outside the received mask, and total_len is the end of the furthest piece,
\* so a completed frame is never longer than its last byte.
BufferMatchesMask ==
  \A e \in list :
    /\ e.mask # {}
    /\ \A i \in Index \ e.mask : e.data[i] = Zeroes
    /\ \E i \in e.mask : e.len = i * FragMaxPayload + e.data[i].len
    /\ \A i \in e.mask : i * FragMaxPayload + e.data[i].len <= e.len

\* "Too many reassembly entries" is never printed: the table has a place for
\* every id a header can carry, whatever is on the air.
NeverFull == \A id \in FragId : ~ TableFull(id)

\* No entry outlives the timeout by more than the time between two cleanups:
\* a lost fragment costs its id for at most this long.
LifetimeBound == \A e \in list : e.age < FragTimeout + CleanupPeriod + Stall

\* A fragment once stored is not overwritten by a later packet with the same
\* id and index, whichever frame that belongs to.
FirstCopyWins ==
  [][\A e \in list : \A d \in list' :
        d.id = e.id => \A i \in e.mask : i \in d.mask /\ d.data[i] = e.data[i]]_vars

\* Frame k of length len as handle_tap_read cut it, unmixed.
WholeFrame(k, len) ==
  [chunks |-> [i \in 0 .. NumFrags(len) - 1 |-> [frame |-> k, len |-> PayloadLenAt(len, i)]],
   len |-> len]

\* No incomplete frame keeps its id for good, though packets of strangers with
\* that id should never cease (reassembly_cleanup_expired).
Drains == \A id \in FragId : []<>(id \notin { e.id : e \in list })

\* README.md: frames of up to 1500 bytes are fragmented automatically.  Every
\* fragment of a frame that handle_tap_read accepts goes on the air.
FramesGoOutWhole ==
  [][\A s \in Sender :
        Len(sent') > Len(sent) /\ sent'[Len(sent')].src = s =>
          Cardinality(air'[s]) = NumFrags(sent'[Len(sent')].len)]_vars

\* SECURITY-FIXES-APPLIED.md: incomplete frames come "from different sources",
\* each in an entry of its own.  No entry holds pieces of two senders.
SourcesKeptApart ==
  \A e \in list : \A i, j \in e.mask :
    e.data[i].frame # 0 /\ e.data[j].frame # 0 =>
      sent[e.data[i].frame].src = sent[e.data[j].frame].src
=============================================================================
