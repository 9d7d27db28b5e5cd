----------------------- MODULE LoRaReassemblyProofs -----------------------
(***************************************************************************)
(* Proofs about the reassembly table of LoRaReassembly, for every number   *)
(* of senders, every size and time limit and every foreign packet; in the  *)
(* second part, about what is written to TAP when ids are reused.          *)
(***************************************************************************)
EXTENDS LoRaIds, FiniteSetTheorems, SequenceTheorems, TLAPS

\* Products of naturals, which the arithmetic below meets as indices times
\* FRAG_MAX_PAYLOAD.
LEMMA ProductNat ==
  ASSUME NEW a \in Nat, NEW b \in Nat
  PROVE  a * b \in Nat
OBVIOUS

\* Fragmenting a frame gives well-formed fragments: the number of fragments is
\* natural and none of them has a negative length.
LEMMA FragmentFrameType ==
  ASSUME NEW id \in FragId, NEW len \in 1 .. MaxFrameSize, NEW k \in Nat
  PROVE  FragmentFrame(id, len, k) \subseteq Fragment
<1> DEFINE N == NumFrags(len)
<1>1. N \in Nat /\ N * FragMaxPayload <= len + FragMaxPayload - 1
  BY SizesAssumption, Z3 DEF NumFrags
<1>2. ASSUME NEW i \in 0 .. N - 1
      PROVE  i \in Nat /\ PayloadLenAt(len, i) \in Nat
  <2>1. i \in Nat /\ i + 1 <= N
    BY <1>1
  <2>2. (i + 1) * FragMaxPayload <= N * FragMaxPayload
    BY <2>1, <1>1, SizesAssumption, Z3
  <2>3. (i + 1) * FragMaxPayload = i * FragMaxPayload + FragMaxPayload
    BY <2>1, SizesAssumption, Z3
  <2>4. i * FragMaxPayload \in Nat /\ N * FragMaxPayload \in Nat
    BY <2>1, <1>1, ProductNat, SizesAssumption
  <2>5. i * FragMaxPayload <= len
    BY <2>2, <2>3, <2>4, <1>1, SizesAssumption
  <2>6. QED
    BY <2>1, <2>4, <2>5, SizesAssumption DEF PayloadLenAt
<1>3. QED
  BY <1>1, <1>2 DEF FragmentFrame, Fragment

-----------------------------------------------------------------------------
(* The table, as a value: what reassemble_fragment and the cleanup keep.   *)

UniqueIn(l) == \A d, e \in l : d.id = e.id => d = e

Matches(e) ==
  /\ e.mask # {}
  /\ \A i \in Index \ e.mask : e.data[i] = Zeroes
  /\ \E i \in e.mask : e.len = i * FragMaxPayload + e.data[i].len
  /\ \A i \in e.mask : i * FragMaxPayload + e.data[i].len <= e.len

TableOK(l) == l \subseteq Entry /\ UniqueIn(l) /\ \A e \in l : Matches(e)

\* find_or_create_entry returns an entry of the id asked for: the one in the
\* list, or an empty one.
LEMMA EntryForType ==
  ASSUME list \subseteq Entry, NEW f \in Fragment, ~ Refuses(f)
  PROVE  /\ EntryFor(f) \in Entry
         /\ EntryFor(f).id = f.id
         /\ \/ EntryFor(f) \in list
            \/ EntryFor(f) = NewEntry(f) /\ EntriesOf(f.id) = {}
<1>1. f.total \in 1 .. MaxFragments /\ f.id \in FragId
  BY DEF Refuses, Fragment
<1>2. CASE EntriesOf(f.id) # {}
  <2>1. EntryFor(f) \in EntriesOf(f.id)
    BY <1>2 DEF EntryFor
  <2>2. QED
    BY <2>1 DEF EntriesOf
<1>3. CASE EntriesOf(f.id) = {}
  <2>1. EntryFor(f) = NewEntry(f)
    BY <1>3 DEF EntryFor
  <2>2. Zeroes \in Chunk /\ 0 \in 0 .. MaxFrameSize
    BY SizesAssumption DEF Zeroes, Chunk, PayloadLen
  <2>3. NewEntry(f) \in Entry /\ NewEntry(f).id = f.id
    BY <1>1, <2>2 DEF NewEntry, Entry
  <2>4. QED
    BY <1>3, <2>1, <2>3
<1>4. QED
  BY <1>2, <1>3

\* Storing a piece that fits keeps an entry well formed, its id and its age.
LEMMA StoreType ==
  ASSUME NEW e \in Entry, NEW f \in Fragment, Decodes(f), ~ Overflows(f)
  PROVE  /\ Store(e, f) \in Entry
         /\ Store(e, f).id = e.id
         /\ Store(e, f).age = e.age
         /\ Store(e, f).mask = e.mask \cup {f.index}
         /\ Store(e, f).len = IF End(f) > e.len THEN End(f) ELSE e.len
         /\ Store(e, f).data[f.index] = [frame |-> f.frame, len |-> f.len]
         /\ \A i \in Index \ {f.index} : Store(e, f).data[i] = e.data[i]
<1>1. f.index \in Index /\ f.len \in PayloadLen /\ f.frame \in Nat
  BY SizesAssumption DEF Decodes, Fragment, Index, PayloadLen
<1>2. End(f) \in 0 .. MaxFrameSize
  <2>1. f.index \in Nat /\ f.len \in Nat
    BY DEF Fragment
  <2>2. f.index * FragMaxPayload \in Nat
    BY <2>1, ProductNat, SizesAssumption
  <2>3. QED
    BY <2>1, <2>2, SizesAssumption DEF End, Overflows
<1>3. [frame |-> f.frame, len |-> f.len] \in Chunk
  BY <1>1 DEF Chunk
<1>4. QED
  BY <1>1, <1>2, <1>3 DEF Store, Entry

\* ... and its agreement with what was received.
LEMMA StoreMatches ==
  ASSUME NEW e \in Entry, NEW f \in Fragment, Decodes(f), ~ Overflows(f),
         ~ Duplicate(e, f), Matches(e) \/ e = NewEntry(f)
  PROVE  Matches(Store(e, f))
<1> DEFINE d == Store(e, f)
<1>1. /\ d.mask = e.mask \cup {f.index}
      /\ d.len = IF End(f) > e.len THEN End(f) ELSE e.len
      /\ d.data[f.index] = [frame |-> f.frame, len |-> f.len]
      /\ \A i \in Index \ {f.index} : d.data[i] = e.data[i]
  BY StoreType
<1>2. f.index \in Index /\ f.index \notin e.mask /\ e.mask \subseteq Index
  BY SizesAssumption DEF Decodes, Fragment, Index, Duplicate, Entry
<1>3. f.index * FragMaxPayload + d.data[f.index].len = End(f)
  BY <1>1 DEF End
<1>4. \A i \in e.mask : d.data[i] = e.data[i]
  BY <1>1, <1>2
<1>5. End(f) \in Nat /\ e.len \in Nat
  <2>1. f.index \in Nat /\ f.len \in Nat
    BY DEF Fragment
  <2>2. f.index * FragMaxPayload \in Nat
    BY <2>1, ProductNat, SizesAssumption
  <2>3. QED
    BY <2>1, <2>2, SizesAssumption DEF End, Entry
<1>6. \A i \in Index \ d.mask : d.data[i] = Zeroes
  <2>1. \A i \in Index \ e.mask : e.data[i] = Zeroes
    BY DEF Matches, NewEntry
  <2>2. QED
    BY <1>1, <2>1
<1>7. \A i \in e.mask : /\ i * FragMaxPayload + e.data[i].len \in Nat
                        /\ i * FragMaxPayload + e.data[i].len <= e.len
  <2>1. ASSUME NEW i \in e.mask
        PROVE  i * FragMaxPayload + e.data[i].len \in Nat
    <3>1. i \in Nat /\ e.data[i].len \in Nat
      BY <1>2, SizesAssumption DEF Entry, Chunk, PayloadLen, Index
    <3>2. i * FragMaxPayload \in Nat
      BY <3>1, ProductNat, SizesAssumption
    <3>3. QED
      BY <3>1, <3>2
  <2>2. QED
    BY <2>1 DEF Matches, NewEntry
<1>8. \A i \in d.mask : i * FragMaxPayload + d.data[i].len <= d.len
  <2>1. ASSUME NEW i \in d.mask
        PROVE  i * FragMaxPayload + d.data[i].len <= d.len
    <3>1. CASE i = f.index
      BY <3>1, <1>1, <1>3, <1>5
    <3>2. CASE i \in e.mask
      <4>1. i * FragMaxPayload + d.data[i].len = i * FragMaxPayload + e.data[i].len
        BY <3>2, <1>4
      <4>2. QED
        BY <3>2, <4>1, <1>1, <1>5, <1>7
    <3>3. QED
      BY <2>1, <3>1, <3>2, <1>1
  <2>2. QED
    BY <2>1
<1>9. \E i \in d.mask : d.len = i * FragMaxPayload + d.data[i].len
  <2>1. CASE End(f) > e.len
    BY <2>1, <1>1, <1>3
  <2>2. CASE ~ End(f) > e.len /\ Matches(e)
    <3>1. PICK i \in e.mask : e.len = i * FragMaxPayload + e.data[i].len
      BY <2>2 DEF Matches
    <3>2. d.len = i * FragMaxPayload + d.data[i].len
      BY <2>2, <3>1, <1>1, <1>4
    <3>3. QED
      BY <3>1, <3>2, <1>1
  <2>3. CASE ~ End(f) > e.len /\ e = NewEntry(f)
    <3>1. e.len = 0
      BY <2>3 DEF NewEntry
    <3>2. d.len = End(f)
      BY <2>3, <3>1, <1>1, <1>5
    <3>3. QED
      BY <3>2, <1>1, <1>3
  <2>4. QED
    BY <2>1, <2>2, <2>3
<1>10. QED
  BY <1>1, <1>6, <1>8, <1>9 DEF Matches

\* What the two branches of ListAfter amount to: the list as it was, without
\* the entry of f's id, or with that entry grown by f.
LEMMA ListAfterCases ==
  ASSUME TableOK(list), NEW f \in Fragment
  PROVE  \/ ListAfter(f) = list
         \/ /\ Decodes(f) /\ ~ Refuses(f) /\ ~ Duplicate(EntryFor(f), f)
            /\ \/ ListAfter(f) = list \ {EntryFor(f)}
               \/ /\ ~ Overflows(f)
                  /\ ListAfter(f) =
                       (list \ {EntryFor(f)}) \cup {Store(EntryFor(f), f)}
BY DEF ListAfter

\* A received packet leaves the table in order, and no entry of the result is
\* older than the entry of that id was.
LEMMA ListAfterOK ==
  ASSUME TableOK(list), NEW f \in Fragment
  PROVE  /\ TableOK(ListAfter(f))
         /\ \A d \in ListAfter(f) : d.age = 0 \/ \E e \in list : d.age = e.age
<1> DEFINE e == EntryFor(f)
           rest == list \ {e}
<1>1. CASE ListAfter(f) = list \/ ListAfter(f) = rest
  BY <1>1 DEF TableOK, UniqueIn
<1>2. CASE /\ Decodes(f) /\ ~ Refuses(f) /\ ~ Duplicate(e, f) /\ ~ Overflows(f)
           /\ ListAfter(f) = rest \cup {Store(e, f)}
  <2>1. /\ e \in Entry /\ e.id = f.id
        /\ e \in list \/ (e = NewEntry(f) /\ EntriesOf(f.id) = {})
    BY <1>2, EntryForType DEF TableOK
  <2>2. /\ Store(e, f) \in Entry
        /\ Store(e, f).id = f.id /\ Store(e, f).age = e.age
    BY <1>2, <2>1, StoreType
  <2>3. Matches(Store(e, f))
    BY <1>2, <2>1, StoreMatches DEF TableOK
  <2>4. \A d \in rest : d.id # f.id
    BY <2>1 DEF EntriesOf, TableOK, UniqueIn
  <2>5. UniqueIn(rest \cup {Store(e, f)})
    BY <2>2, <2>4 DEF TableOK, UniqueIn
  <2>6. TableOK(ListAfter(f))
    BY <1>2, <2>2, <2>3, <2>5 DEF TableOK
  <2>7. e \in list \/ e.age = 0
    BY <2>1 DEF NewEntry
  <2>8. QED
    BY <1>2, <2>2, <2>6, <2>7
<1>3. QED
  BY <1>1, <1>2, ListAfterCases

\* What a packet leaves in the list of an id still holds every piece that was
\* there before it.
LEMMA ListAfterKeepsPieces ==
  ASSUME TableOK(list), NEW f \in Fragment,
         NEW e \in list, NEW d \in ListAfter(f), d.id = e.id, NEW i \in e.mask
  PROVE  i \in d.mask /\ d.data[i] = e.data[i]
<1>1. CASE d \in list
  BY <1>1 DEF TableOK, UniqueIn
<1>2. CASE d \notin list
  <2>1. /\ Decodes(f) /\ ~ Refuses(f) /\ ~ Duplicate(EntryFor(f), f)
        /\ ~ Overflows(f) /\ d = Store(EntryFor(f), f)
    BY <1>2, ListAfterCases
  <2>2. /\ EntryFor(f) \in Entry /\ EntryFor(f).id = f.id
        /\ EntryFor(f) \in list \/ EntriesOf(f.id) = {}
    BY <2>1, EntryForType DEF TableOK
  <2>3. /\ d.id = EntryFor(f).id
        /\ d.mask = EntryFor(f).mask \cup {f.index}
        /\ \A j \in Index \ {f.index} : d.data[j] = EntryFor(f).data[j]
    BY <2>1, <2>2, StoreType
  <2>4. e = EntryFor(f)
    BY <2>2, <2>3 DEF EntriesOf, TableOK, UniqueIn
  <2>5. i \in Index /\ i # f.index
    BY <2>1, <2>4 DEF Duplicate, TableOK, Entry
  <2>6. QED
    BY <2>3, <2>4, <2>5
<1>3. QED
  BY <1>1, <1>2

-----------------------------------------------------------------------------
(* The inductive invariant.  TypeOK alone is not inductive: that a stored  *)
(* piece ends inside the buffer and that a packet's entry is the only one  *)
(* of its id are what reassemble_fragment relies on.  YoungEnough is what  *)
(* makes LifetimeBound inductive: right after a cleanup every entry is     *)
(* younger than the timeout, and ages at the pace of sinceCleanup.         *)

YoungEnough(l, now) == \A e \in l : e.age < FragTimeout + now

Frame == UNION { FrameOfSize(n) : n \in 1 .. MaxFragments }

IInv ==
  /\ TypeOK /\ tap \in Seq(Frame)
  /\ TableOK(list) /\ YoungEnough(list, sinceCleanup)

LEMMA FramesAre == \A q \in Seq(Frame) : AreFrames(q)
  BY DEF AreFrames, Frame

\* The end of an iteration keeps part of the list it is given.
LEMMA EndOfIterationOK ==
  ASSUME NEW l, TableOK(l), YoungEnough(l, sinceCleanup),
         sinceCleanup \in 0 .. CleanupPeriod + Stall, EndOfIteration(l)
  PROVE  /\ list' \subseteq l
         /\ TableOK(list')
         /\ YoungEnough(list', sinceCleanup')
         /\ sinceCleanup' \in 0 .. CleanupPeriod + Stall
<1>1. CASE sinceCleanup >= CleanupPeriod
  <2>1. list' = { e \in l : e.age < FragTimeout } /\ sinceCleanup' = 0
    BY <1>1 DEF EndOfIteration
  <2>2. YoungEnough(list', sinceCleanup')
    BY <2>1, TimesAssumption DEF YoungEnough
  <2>3. QED
    BY <2>1, <2>2, TimesAssumption DEF TableOK, UniqueIn
<1>2. CASE ~ (sinceCleanup >= CleanupPeriod)
  BY <1>2 DEF EndOfIteration
<1>3. QED
  BY <1>1, <1>2

\* The frame written to TAP has one chunk for every fragment.
LEMMA FrameType ==
  ASSUME NEW e \in Entry, NEW f \in Fragment, f.total \in 1 .. MaxFragments
  PROVE  FrameOf(e, f) \in FrameOfSize(f.total)
<1>1. \A i \in 0 .. f.total - 1 : i \in Index
  BY SizesAssumption DEF Index
<1>2. \A i \in 0 .. f.total - 1 : e.data[i] \in Chunk
  BY <1>1 DEF Entry
<1>3. e.len \in 0 .. MaxFrameSize
  BY DEF Entry
<1>4. QED
  BY <1>2, <1>3 DEF FrameOf, FrameOfSize

\* An iteration with a packet keeps the receiver's part of the invariant.
LEMMA HandleLoraIrqOK ==
  ASSUME IInv, NEW f \in Fragment, HandleLoraIrq(f)
  PROVE  /\ TableOK(list')
         /\ YoungEnough(list', sinceCleanup')
         /\ sinceCleanup' \in 0 .. CleanupPeriod + Stall
         /\ tap' \in Seq(Frame)
<1>1. EndOfIteration(ListAfter(f)) /\ sinceCleanup \in 0 .. CleanupPeriod + Stall
  BY DEF HandleLoraIrq, IInv, TypeOK
<1>2. /\ TableOK(ListAfter(f))
      /\ \A d \in ListAfter(f) : d.age = 0 \/ \E e \in list : d.age = e.age
  BY ListAfterOK DEF IInv
<1>3. YoungEnough(ListAfter(f), sinceCleanup)
  BY <1>1, <1>2, TimesAssumption DEF IInv, YoungEnough
<1>4. /\ TableOK(list')
      /\ YoungEnough(list', sinceCleanup')
      /\ sinceCleanup' \in 0 .. CleanupPeriod + Stall
  BY <1>1, <1>2, <1>3, EndOfIterationOK
<1>5. tap' \in Seq(Frame)
  <2>1. CASE ~ Completes(f)
    BY <2>1 DEF HandleLoraIrq, IInv, TypeOK
  <2>2. CASE Completes(f)
    <3> DEFINE d == FrameOf(Store(EntryFor(f), f), f)
    <3>1. Decodes(f) /\ ~ Refuses(f) /\ ~ Overflows(f)
      BY <2>2 DEF Completes
    <3>2. Store(EntryFor(f), f) \in Entry
      BY <3>1, EntryForType, StoreType DEF IInv, TableOK
    <3>3. f.total \in 1 .. MaxFragments
      BY <3>1 DEF Refuses
    <3>4. d \in FrameOfSize(f.total)
      BY <3>2, <3>3, FrameType
    <3>5. tap' = Append(tap, d)
      BY <2>2 DEF HandleLoraIrq
    <3>6. d \in Frame
      BY <3>3, <3>4 DEF Frame
    <3> HIDE DEF d
    <3>7. QED
      BY <3>5, <3>6 DEF IInv, TypeOK
  <2>3. QED
    BY <2>1, <2>2
<1>6. QED
  BY <1>4, <1>5

\* A second makes every entry a second older and nothing else.
LEMMA TickOK ==
  ASSUME IInv, Tick
  PROVE  /\ TableOK(list')
         /\ YoungEnough(list', sinceCleanup')
         /\ sinceCleanup' \in 0 .. CleanupPeriod + Stall
         /\ down' \in [Sender -> 0 .. RestartSec]
<1> DEFINE older(e) == [e EXCEPT !.age = @ + 1]
<1>1. list' = { older(e) : e \in list } /\ sinceCleanup' = sinceCleanup + 1
  BY DEF Tick
<1>2. sinceCleanup \in Nat /\ sinceCleanup' \in 0 .. CleanupPeriod + Stall
  BY TimesAssumption DEF Tick, IInv, TypeOK
<1>3. ASSUME NEW e \in Entry
      PROVE  /\ older(e) \in Entry
             /\ older(e).id = e.id /\ older(e).age = e.age + 1
             /\ older(e).mask = e.mask /\ older(e).data = e.data
             /\ older(e).len = e.len
  BY DEF Entry
<1>4. list' \subseteq Entry /\ UniqueIn(list')
  <2>1. \A e \in list : older(e) \in Entry /\ older(e).id = e.id
    BY <1>3 DEF IInv, TableOK
  <2>2. \A d, e \in list : d.id = e.id => d = e
    BY DEF IInv, TableOK, UniqueIn
  <2> HIDE DEF older
  <2>3. QED
    BY <1>1, <2>1, <2>2 DEF UniqueIn
<1>5. \A d \in list' : Matches(d)
  <2>1. ASSUME NEW e \in list
        PROVE  Matches(older(e))
    <3>1. e \in Entry /\ Matches(e)
      BY DEF IInv, TableOK
    <3>2. /\ older(e).mask = e.mask /\ older(e).data = e.data
          /\ older(e).len = e.len
      BY <3>1, <1>3
    <3> HIDE DEF older
    <3>3. QED
      BY <3>1, <3>2 DEF Matches
  <2> HIDE DEF older
  <2>2. QED
    BY <2>1, <1>1
<1>6. YoungEnough(list', sinceCleanup')
  <2>1. \A e \in list : e.age \in Nat /\ e.age < FragTimeout + sinceCleanup
    BY DEF IInv, TableOK, YoungEnough, Entry
  <2>2. \A d \in list' : \E e \in list : d.age = e.age + 1
    BY <1>1, <1>3 DEF IInv, TableOK
  <2>3. QED
    BY <2>1, <2>2, <1>1, <1>2, TimesAssumption DEF YoungEnough
<1>7. down' \in [Sender -> 0 .. RestartSec]
  BY TimesAssumption DEF Tick, IInv, TypeOK
<1>8. QED
  BY <1>2, <1>4, <1>5, <1>6, <1>7 DEF TableOK

-----------------------------------------------------------------------------
LEMMA InitOK == Init => IInv
<1> SUFFICES ASSUME Init PROVE IInv
  OBVIOUS
<1>1. /\ list = {} /\ tap = <<>> /\ sinceCleanup = 0
  BY DEF Init
<1>2. tap \in Seq(Frame)
  BY <1>1
<1>3. AreFrames(tap)
  BY <1>2, FramesAre
<1>4. TypeOK
  BY <1>3, IdsAssumption, TimesAssumption DEF Init, TypeOK, FragId
<1>5. QED
  BY <1>1, <1>2, <1>4 DEF IInv, TableOK, UniqueIn, YoungEnough

\* A sender's action leaves the receiver alone.
LEMMA SenderStepOK ==
  ASSUME IInv, NEW s \in Sender,
         HandleTapRead(s) \/ Lose(s) \/ SenderCrash(s)
  PROVE  IInv'
<1>1. UNCHANGED receiverVars
  BY DEF HandleTapRead, Lose, SenderCrash
<1>2. (tap \in Seq(Frame) /\ TableOK(list) /\ YoungEnough(list, sinceCleanup))'
  BY <1>1 DEF IInv, receiverVars
<1>3. TypeOK'
  <2>1. CASE HandleTapRead(s)
    <3>1. PICK len \in FrameLens :
            /\ sent' = Append(sent, [src |-> s, len |-> len])
            /\ nextFragId' = [nextFragId EXCEPT ![s] = (@ + 1) % MaxFragId]
            /\ air' = [air EXCEPT ![s] =
                        { f \in FragmentFrame(nextFragId[s], len, Len(sent')) :
                            Transmits(f) }]
            /\ down' = down
      BY <2>1 DEF HandleTapRead
    <3>2. [src |-> s, len |-> len] \in [src : Sender, len : FrameLens]
      OBVIOUS
    <3>3. sent' \in Seq([src : Sender, len : FrameLens]) /\ Len(sent') \in Nat
      BY <3>1, <3>2 DEF IInv, TypeOK
    <3>4. len \in 1 .. MaxFrameSize
      BY SizesAssumption
    <3>5. air' \in [Sender -> SUBSET Fragment]
      BY <3>1, <3>3, <3>4, FragmentFrameType DEF IInv, TypeOK
    <3>6. \A n \in FragId : (n + 1) % MaxFragId \in FragId
      BY IdsAssumption DEF FragId
    <3>7. nextFragId' \in [Sender -> FragId]
      BY <3>1, <3>6 DEF IInv, TypeOK
    <3>8. QED
      BY <3>1, <3>3, <3>5, <3>7, <1>1, TimesAssumption
         DEF IInv, TypeOK, receiverVars, TableOK
  <2>2. CASE Lose(s)
    BY <2>2, <1>1 DEF Lose, IInv, TypeOK, receiverVars
  <2>3. CASE SenderCrash(s)
    BY <2>3, <1>1, IdsAssumption, TimesAssumption
       DEF SenderCrash, IInv, TypeOK, receiverVars, FragId
  <2>4. QED
    BY <2>1, <2>2, <2>3
<1>4. QED
  BY <1>2, <1>3 DEF IInv

LEMMA NextOK == IInv /\ [Next]_vars => IInv'
<1> SUFFICES ASSUME IInv, [Next]_vars PROVE IInv'
  OBVIOUS
<1>1. ASSUME NEW s \in Sender, HandleTapRead(s) \/ Lose(s) \/ SenderCrash(s)
      PROVE  IInv'
  BY <1>1, SenderStepOK
<1>2. ASSUME NEW s \in Sender, Receive(s)
      PROVE  IInv'
  <2>1. PICK f \in air[s] :
          /\ HandleLoraIrq(f)
          /\ air' = [air EXCEPT ![s] = @ \ {f}]
          /\ UNCHANGED <<nextFragId, down, sent>>
    BY <1>2 DEF Receive
  <2>2. f \in Fragment
    BY DEF IInv, TypeOK
  <2>3. QED
    BY <2>1, <2>2, HandleLoraIrqOK, FramesAre DEF IInv, TypeOK, TableOK
<1>3. ASSUME NEW h \in Foreign, ReceiveForeign(h)
      PROVE  IInv'
  <2>1. /\ HandleLoraIrq([id |-> h.id, total |-> h.total, index |-> h.index,
                          len |-> h.len, frame |-> 0])
        /\ UNCHANGED senderVars
    BY <1>3 DEF ReceiveForeign
  <2>2. [id |-> h.id, total |-> h.total, index |-> h.index,
         len |-> h.len, frame |-> 0] \in Fragment
    BY ForeignAssumption DEF Header, Fragment
  <2>3. QED
    BY <2>1, <2>2, HandleLoraIrqOK, FramesAre DEF IInv, TypeOK, TableOK, senderVars
<1>4. CASE IdleIteration
  <2>1. /\ EndOfIteration(list)
        /\ UNCHANGED <<nextFragId, air, down, sent, tap>>
        /\ sinceCleanup \in 0 .. CleanupPeriod + Stall
    BY <1>4 DEF IdleIteration, IInv, TypeOK
  <2>2. QED
    BY <2>1, EndOfIterationOK DEF IInv, TypeOK, TableOK
<1>5. CASE ReceiverRestart
  BY <1>5, TimesAssumption
     DEF ReceiverRestart, IInv, TypeOK, TableOK, UniqueIn, YoungEnough
<1>6. CASE Tick
  BY <1>6, TickOK DEF Tick, IInv, TypeOK, TableOK
<1>7. CASE UNCHANGED vars
  BY <1>7 DEF vars, IInv, TypeOK, TableOK, UniqueIn, YoungEnough
<1>8. QED
  BY <1>1, <1>2, <1>3, <1>4, <1>5, <1>6, <1>7 DEF Next

\* Every reachable state satisfies the inductive invariant.
LEMMA Inductive == Spec => []IInv
<1>1. QED
  BY InitOK, NextOK, PTL DEF Spec

-----------------------------------------------------------------------------
(* The theorems.                                                           *)

\* Every variable keeps its type: no packet, foreign or mixed, makes
\* reassemble_fragment store outside the entry's buffer or index range.
THEOREM TypeCorrect == Spec => []TypeOK
<1>1. IInv => TypeOK
  BY DEF IInv
<1>2. QED
  BY <1>1, Inductive, PTL

\* find_or_create_entry and remove_entry always mean the same entry.
THEOREM IdsUnique == Spec => []UniqueIds
<1>1. IInv => UniqueIds
  BY DEF IInv, TableOK, UniqueIn, UniqueIds
<1>2. QED
  BY <1>1, Inductive, PTL

\* An entry's buffer and length are exactly what its mask says was received.
THEOREM BuffersMatch == Spec => []BufferMatchesMask
<1>1. IInv => BufferMatchesMask
  BY DEF IInv, TableOK, Matches, BufferMatchesMask
<1>2. QED
  BY <1>1, Inductive, PTL

\* The time an incomplete frame can hold its id, for all the time constants.
THEOREM LifetimeBounded == Spec => []LifetimeBound
<1>1. ASSUME IInv PROVE LifetimeBound
  <2>1. sinceCleanup \in Nat /\ sinceCleanup <= CleanupPeriod + Stall
    BY <1>1, TimesAssumption DEF IInv, TypeOK
  <2>2. \A e \in list : e.age \in Nat /\ e.age < FragTimeout + sinceCleanup
    BY <1>1 DEF IInv, TableOK, YoungEnough, Entry
  <2>3. QED
    BY <2>1, <2>2, TimesAssumption DEF LifetimeBound
<1>2. QED
  BY <1>1, Inductive, PTL

\* Entries have different ids, so there are at most as many as ids.
LEMMA EntriesCount ==
  ASSUME IInv, NEW Ids, IsFiniteSet(Ids), \A e \in list : e.id \in Ids
  PROVE  Cardinality(list) \in Nat /\ Cardinality(list) <= Cardinality(Ids)
<1> DEFINE idOf == [e \in list |-> e.id]
<1>1. idOf \in [list -> Ids]
  OBVIOUS
<1>2. \A d, e \in list : idOf[d] = idOf[e] => d = e
  BY DEF IInv, TableOK, UniqueIn
<1>3. idOf \in Injection(list, Ids)
  BY <1>1, <1>2 DEF Injection, IsInjective
<1>4. QED
  BY <1>3, FS_Injection, FS_CardinalityType

\* When the id of a packet has no entry, the entries there are have the other
\* ids.
LEMMA RoomForAll ==
  ASSUME IInv
  PROVE  NeverFull
<1>1. ASSUME NEW id \in FragId, EntriesOf(id) = {}
      PROVE  ~ (Cardinality(list) >= MaxReassemblyEntries)
  <2> DEFINE Others == FragId \ {id}
  <2>1. IsFiniteSet(FragId) /\ Cardinality(FragId) = MaxFragId
    BY FS_Interval, IdsAssumption DEF FragId
  <2>2. IsFiniteSet(Others) /\ Cardinality(Others) = MaxFragId - 1
    BY <1>1, <2>1, FS_RemoveElement
  <2>3. \A e \in list : e.id \in Others
    BY <1>1 DEF IInv, TableOK, Entry, EntriesOf
  <2>4. Cardinality(list) \in Nat /\ Cardinality(list) <= MaxFragId - 1
    BY <1>1, <2>2, <2>3, EntriesCount
  <2>5. QED
    BY <2>4, IdsAssumption
<1>2. QED
  BY <1>1 DEF NeverFull, TableFull

\* The reassembly table is never full, whatever is on the air.
THEOREM TableNeverFull == Spec => []NeverFull
<1>1. IInv => NeverFull
  BY RoomForAll
<1>2. QED
  BY <1>1, Inductive, PTL

\* No step replaces a stored piece by another one: not a duplicate, not a
\* fragment of another frame with the same id, not the passing of time.
THEOREM StoredPiecesStay == Spec => FirstCopyWins
<1> DEFINE Keeps == \A e \in list : \A d \in list' :
                      d.id = e.id =>
                        \A i \in e.mask : i \in d.mask /\ d.data[i] = e.data[i]
<1>1. ASSUME IInv, list' \subseteq list
      PROVE  Keeps
  BY <1>1 DEF IInv, TableOK, UniqueIn
<1>2. ASSUME IInv, NEW f \in Fragment, HandleLoraIrq(f)
      PROVE  Keeps
  <2>1. EndOfIteration(ListAfter(f))
    BY <1>2 DEF HandleLoraIrq
  <2>2. list' \subseteq ListAfter(f)
    BY <2>1 DEF EndOfIteration
  <2>3. QED
    BY <1>2, <2>2, ListAfterKeepsPieces DEF IInv
<1>3. ASSUME IInv, [Next]_vars
      PROVE  Keeps
  <2>1. ASSUME NEW s \in Sender, Receive(s)
        PROVE  Keeps
    <3>1. PICK f \in air[s] : HandleLoraIrq(f)
      BY <2>1 DEF Receive
    <3>2. f \in Fragment
      BY <1>3 DEF IInv, TypeOK
    <3>3. QED
      BY <1>2, <1>3, <3>1, <3>2
  <2>2. ASSUME NEW h \in Foreign, ReceiveForeign(h)
        PROVE  Keeps
    <3>1. HandleLoraIrq([id |-> h.id, total |-> h.total, index |-> h.index,
                         len |-> h.len, frame |-> 0])
      BY <2>2 DEF ReceiveForeign
    <3>2. [id |-> h.id, total |-> h.total, index |-> h.index,
           len |-> h.len, frame |-> 0] \in Fragment
      BY ForeignAssumption DEF Header, Fragment
    <3>3. QED
      BY <1>2, <1>3, <3>1, <3>2
  <2>3. CASE Tick
    <3>1. list' = { [e EXCEPT !.age = @ + 1] : e \in list }
      BY <2>3 DEF Tick
    <3>2. \A e \in Entry : LET o == [e EXCEPT !.age = @ + 1]
                           IN  o.id = e.id /\ o.mask = e.mask /\ o.data = e.data
      BY DEF Entry
    <3>3. ASSUME NEW d \in list'
          PROVE  \E e \in list :
                   d.id = e.id /\ d.mask = e.mask /\ d.data = e.data
      <4>1. PICK e \in list : d = [e EXCEPT !.age = @ + 1]
        BY <3>1
      <4>2. e \in Entry
        BY <1>3 DEF IInv, TableOK
      <4>3. QED
        BY <3>2, <4>1, <4>2
    <3>4. QED
      BY <1>3, <3>3 DEF IInv, TableOK, UniqueIn
  <2>4. ASSUME NEW s \in Sender,
               HandleTapRead(s) \/ Lose(s) \/ SenderCrash(s)
        PROVE  Keeps
    BY <1>1, <1>3, <2>4 DEF HandleTapRead, Lose, SenderCrash, receiverVars
  <2>5. CASE IdleIteration \/ ReceiverRestart \/ UNCHANGED vars
    BY <1>1, <1>3, <2>5 DEF IdleIteration, EndOfIteration, ReceiverRestart, vars
  <2>6. QED
    BY <1>3, <2>1, <2>2, <2>3, <2>4, <2>5 DEF Next
<1>4. IInv /\ [Next]_vars => [Keeps]_vars
  BY <1>3
<1>5. QED
  BY <1>4, Inductive, PTL DEF Spec, FirstCopyWins

-----------------------------------------------------------------------------
(* What the reuse of ids can do, for any number of senders, every size and *)
(* time limit and every foreign packet.                                    *)
(*                                                                         *)
(* A piece in an entry is of a frame that the record of its id names, for  *)
(* an entry is never younger than the silence of its id, and LifetimeBound *)
(* says how old it can be: the record is not cleared before the entry is   *)
(* gone.  When it names one frame only, the entry holds pieces of this     *)
(* frame, each as it was cut, and none that is still to come.              *)

\* Fragment i of frame k as fragment_frame cut it.
Piece(k, i) == [frame |-> k, len |-> PayloadLenAt(sent[k].len, i)]

\* A piece of a frame sent is a fragment of it, at its place.
IsCut(c, i) ==
  /\ c.frame \in 1 .. Len(sent)
  /\ i \in 0 .. NumFrags(sent[c.frame].len) - 1
  /\ c = Piece(c.frame, i)

EntryTells(e) ==
  /\ e.age >= since[e.id]
  /\ \A i \in e.mask :
       /\ e.data[i].frame \in users[e.id]
       /\ e.data[i].frame # 0 => IsCut(e.data[i], i)
       /\ \A s \in Sender : \A f \in air[s] : f.frame = e.data[i].frame => f.index # i

PacketTells(s, f) ==
  /\ since[f.id] = 0 /\ f.frame \in users[f.id]
  /\ f.frame \in 1 .. Len(sent) /\ sent[f.frame].src = s
  /\ f.total = NumFrags(sent[f.frame].len)
  /\ f.index \in 0 .. f.total - 1
  /\ f.len = PayloadLenAt(sent[f.frame].len, f.index)
  /\ \A g \in air[s] : g.frame = f.frame /\ g.id = f.id

HistoryType ==
  /\ users \in [FragId -> SUBSET Nat]
  /\ since \in [FragId -> 0 .. Lifetime]

IdInv ==
  /\ IInv /\ HistoryType
  /\ \A e \in list : EntryTells(e)
  /\ \A s \in Sender : \A f \in air[s] : PacketTells(s, f)

\* The record of an id says no less than before, and no longer silence.
Records(m) == users[m] \subseteq users'[m] /\ since'[m] \in {0, since[m]}

\* The fragments of a frame end within it, the last one with it.
LEMMA FrameEnds ==
  ASSUME NEW len \in 1 .. MaxFrameSize
  PROVE  /\ NumFrags(len) \in Nat /\ NumFrags(len) >= 1
         /\ \A i \in 0 .. NumFrags(len) - 1 :
              i * FragMaxPayload + PayloadLenAt(len, i) <= len
         /\ (NumFrags(len) - 1) * FragMaxPayload
              + PayloadLenAt(len, NumFrags(len) - 1) = len
<1> DEFINE N == NumFrags(len)
<1>1. /\ N \in Nat /\ N * FragMaxPayload <= len + FragMaxPayload - 1
      /\ len + FragMaxPayload - 1 < N * FragMaxPayload + FragMaxPayload
  BY SizesAssumption, Z3 DEF NumFrags
<1>2. N >= 1
  BY <1>1, SizesAssumption, Z3
<1> HIDE DEF N
<1>3. (N - 1) * FragMaxPayload \in Nat
      /\ (N - 1) * FragMaxPayload + FragMaxPayload = N * FragMaxPayload
  BY <1>1, <1>2, SizesAssumption, Z3
<1>4. (N - 1) * FragMaxPayload < len /\ len <= (N - 1) * FragMaxPayload + FragMaxPayload
  BY <1>1, <1>3, SizesAssumption
<1>5. (N - 1) * FragMaxPayload + PayloadLenAt(len, N - 1) = len
  BY <1>3, <1>4, SizesAssumption DEF PayloadLenAt
<1>6. ASSUME NEW i \in 0 .. N - 1
      PROVE  i * FragMaxPayload + PayloadLenAt(len, i) <= len
  <2>1. i * FragMaxPayload \in Nat
    BY <1>1, SizesAssumption, ProductNat
  <2>2. QED
    BY <2>1, SizesAssumption DEF PayloadLenAt
<1>7. QED
  BY <1>1, <1>2, <1>5, <1>6 DEF N

-----------------------------------------------------------------------------
(* The steps.                                                              *)

\* The types that the invariant gives.
LEMMA IdTypes ==
  ASSUME IdInv
  PROVE  /\ sent \in Seq([src : Sender, len : FrameLens]) /\ Len(sent) \in Nat
         /\ air \in [Sender -> SUBSET Fragment] /\ list \subseteq Entry
         /\ nextFragId \in [Sender -> FragId] /\ Lifetime \in Nat \ {0}
         /\ \A k \in 1 .. Len(sent) : sent[k] \in [src : Sender, len : FrameLens]
         /\ \A m \in FragId : since[m] \in 0 .. Lifetime /\ since[m] \in Nat
<1>1. /\ sent \in Seq([src : Sender, len : FrameLens])
      /\ air \in [Sender -> SUBSET Fragment] /\ list \subseteq Entry
      /\ nextFragId \in [Sender -> FragId]
  BY DEF IdInv, IInv, TypeOK
<1>2. Lifetime \in Nat \ {0}
  BY TimesAssumption DEF Lifetime
<1>3. \A m \in FragId : since[m] \in 0 .. Lifetime
  BY DEF IdInv, HistoryType
<1>4. /\ Len(sent) \in Nat
      /\ \A k \in 1 .. Len(sent) : sent[k] \in [src : Sender, len : FrameLens]
  <2> DEFINE R == [src : Sender, len : FrameLens]
  <2>1. sent \in Seq(R)
    BY <1>1
  <2> HIDE DEF R
  <2>2. Len(sent) \in Nat /\ \A k \in 1 .. Len(sent) : sent[k] \in R
    BY <2>1
  <2>3. QED
    BY <2>2 DEF R
<1>5. \A m \in FragId : since[m] \in Nat
  BY <1>2, <1>3
<1>6. QED
  BY <1>1, <1>2, <1>3, <1>4, <1>5

\* A use of an id records more and no silence.
LEMMA UseRecords ==
  ASSUME IdInv, NEW m \in FragId, NEW k \in Nat, Use(m, k)
  PROVE  /\ HistoryType' /\ \A n \in FragId : Records(n)
         /\ users'[m] = users[m] \cup {k} /\ since'[m] = 0
<1>1. Lifetime \in Nat
  BY IdTypes
<1>2. QED
  BY <1>1 DEF Use, IdInv, HistoryType, Records

\* Entries and packets there were, when the record says no less.
LEMMA OldTells ==
  ASSUME IdInv, \A m \in FragId : Records(m),
         NEW n \in Nat, n = Len(sent'), Len(sent) <= n,
         \A k \in 1 .. Len(sent) : sent'[k] = sent[k]
  PROVE  /\ \A e \in list :
              (\A s \in Sender : \A f \in air'[s] : f \in air[s] \/ f.frame > Len(sent)) =>
                EntryTells(e)'
         /\ \A s \in Sender : \A f \in air[s] : air'[s] \subseteq air[s] => PacketTells(s, f)'
<1>1. /\ Len(sent) \in Nat /\ \A k \in 1 .. Len(sent) : k \in 1 .. n
      /\ list \subseteq Entry /\ air \in [Sender -> SUBSET Fragment]
  BY IdTypes
<1>2. ASSUME NEW e \in list,
             \A s \in Sender : \A f \in air'[s] : f \in air[s] \/ f.frame > Len(sent)
      PROVE  EntryTells(e)'
  <2>1. EntryTells(e) /\ e.id \in FragId /\ e.age \in Nat /\ e \in Entry
    BY <1>1 DEF IdInv, Entry
  <2>2. e.age >= since'[e.id] /\ users[e.id] \subseteq users'[e.id]
    BY <2>1 DEF Records, EntryTells
  <2>3. ASSUME NEW i \in e.mask
        PROVE  /\ e.data[i].frame \in users'[e.id]
               /\ e.data[i].frame # 0 => IsCut(e.data[i], i)'
               /\ \A s \in Sender : \A f \in air'[s] :
                    f.frame = e.data[i].frame => f.index # i
    <3>1. e.data[i].frame \in Nat
      BY <2>1 DEF Entry, Chunk
    <3>2. e.data[i].frame # 0 => IsCut(e.data[i], i)'
      BY <1>1, <2>1 DEF EntryTells, IsCut, Piece
    <3>3. ASSUME NEW s \in Sender, NEW f \in air'[s], f.frame = e.data[i].frame
          PROVE  f.index # i
      <4>1. ~ (f.frame > Len(sent))
        BY <1>1, <2>1, <3>1, <3>3 DEF EntryTells, IsCut
      <4>2. f \in air[s]
        BY <1>2, <4>1
      <4>3. QED
        BY <2>1, <3>3, <4>2 DEF EntryTells
    <3>4. QED
      BY <2>1, <2>2, <3>2, <3>3 DEF EntryTells
  <2>4. QED
    BY <2>2, <2>3 DEF EntryTells
<1>3. ASSUME NEW s \in Sender, NEW f \in air[s], air'[s] \subseteq air[s]
      PROVE  PacketTells(s, f)'
  <2>1. PacketTells(s, f) /\ f.id \in FragId
    BY <1>1 DEF IdInv, Fragment
  <2>2. since'[f.id] = 0 /\ f.frame \in users'[f.id]
    BY <2>1 DEF PacketTells, Records
  <2>3. f.frame \in 1 .. Len(sent') /\ sent'[f.frame] = sent[f.frame]
    BY <1>1, <2>1 DEF PacketTells
  <2>4. QED
    BY <1>3, <2>1, <2>2, <2>3 DEF PacketTells
<1>4. QED
  BY <1>2, <1>3

\* Fewer entries, fewer packets, and nothing recorded.
LEMMA FewerTell ==
  ASSUME IdInv, IInv', list' \subseteq list, \A s \in Sender : air'[s] \subseteq air[s],
         sent' = sent, UNCHANGED history
  PROVE  IdInv'
<1>1. HistoryType' /\ \A m \in FragId : Records(m)
  BY DEF history, IdInv, HistoryType, Records
<1>2. Len(sent) \in Nat
  BY IdTypes
<1>3. \A e \in list : EntryTells(e)'
  BY <1>1, <1>2, OldTells
<1>4. \A s \in Sender : \A f \in air[s] : PacketTells(s, f)'
  BY <1>1, <1>2, OldTells
<1>5. QED
  BY <1>1, <1>3, <1>4 DEF IdInv

\* A frame that goes out: its packets are of a frame that no entry knows.
LEMMA TapReadTells ==
  ASSUME IdInv, IInv', NEW s \in Sender, HandleTapRead(s),
         Use(nextFragId[s], Len(sent'))
  PROVE  IdInv'
<1>1. PICK len \in FrameLens :
        /\ air[s] = {}
        /\ sent' = Append(sent, [src |-> s, len |-> len])
        /\ air' = [air EXCEPT ![s] =
                    { f \in FragmentFrame(nextFragId[s], len, Len(sent')) :
                        Transmits(f) }]
        /\ list' = list
  BY DEF HandleTapRead, receiverVars
<1>2. /\ Len(sent) \in Nat /\ nextFragId[s] \in FragId
      /\ sent \in Seq([src : Sender, len : FrameLens])
      /\ air \in [Sender -> SUBSET Fragment]
  BY IdTypes
<1>3. PICK n \in Nat :
        /\ n = Len(sent') /\ n = Len(sent) + 1
        /\ sent'[n] = [src |-> s, len |-> len]
        /\ \A k \in 1 .. Len(sent) : sent'[k] = sent[k]
  BY <1>1, <1>2
<1>4. /\ HistoryType' /\ \A m \in FragId : Records(m)
      /\ n \in users'[nextFragId[s]] /\ since'[nextFragId[s]] = 0
  BY <1>2, <1>3, UseRecords
<1>5. ASSUME NEW f \in air'[s]
      PROVE  /\ f.id = nextFragId[s] /\ f.frame = n /\ f.total = NumFrags(len)
             /\ f.index \in 0 .. NumFrags(len) - 1
             /\ f.len = PayloadLenAt(len, f.index)
  <2>1. f \in FragmentFrame(nextFragId[s], len, n)
    BY <1>1, <1>2, <1>3
  <2>2. QED
    BY <2>1 DEF FragmentFrame
<1>6. \A f \in air'[s] : PacketTells(s, f)'
  BY <1>3, <1>4, <1>5 DEF PacketTells
<1>7. \A u \in Sender \ {s} : air'[u] = air[u]
  BY <1>1, <1>2
<1>8. \A u \in Sender \ {s} : \A f \in air'[u] : PacketTells(u, f)'
  BY <1>2, <1>3, <1>4, <1>7, OldTells
<1>9. \A e \in list : EntryTells(e)'
  <2>1. \A u \in Sender : \A f \in air'[u] : f \in air[u] \/ f.frame > Len(sent)
    BY <1>2, <1>3, <1>5, <1>7
  <2>2. QED
    BY <1>2, <1>3, <1>4, <2>1, OldTells
<1>10. QED
  BY <1>1, <1>4, <1>6, <1>8, <1>9 DEF IdInv

\* Packets with the frame and the index of another are that packet.
LEMMA SamePacket ==
  ASSUME IdInv, NEW s \in Sender, NEW u \in Sender, NEW f \in air[s], NEW g \in air[u],
         f.frame = g.frame, f.index = g.index
  PROVE  f = g
<1>1. PacketTells(s, f) /\ PacketTells(u, g) /\ f \in Fragment /\ g \in Fragment
  BY IdTypes DEF IdInv
<1>2. s = u
  BY <1>1 DEF PacketTells
<1>3. f.id = g.id /\ f.total = g.total /\ f.len = g.len
  BY <1>1, <1>2 DEF PacketTells
<1>4. QED
  BY <1>1, <1>3 DEF Fragment

\* What an iteration with the packet f leaves in the table is of the table, or
\* is the entry in which f has been stored.
LEMMA TableAfter ==
  ASSUME IdInv, NEW f \in Fragment, HandleLoraIrq(f), NEW d \in list', d \notin list
  PROVE  /\ Decodes(f) /\ ~ Refuses(f) /\ ~ Duplicate(EntryFor(f), f) /\ ~ Overflows(f)
         /\ d = Store(EntryFor(f), f)
<1>1. d \in ListAfter(f)
  BY DEF HandleLoraIrq, EndOfIteration
<1>2. QED
  BY <1>1 DEF ListAfter

\* The entry in which a packet has been stored tells of the packet, and of the
\* entry of its id.
LEMMA StoredTells ==
  ASSUME IdInv, NEW f \in Fragment, HandleLoraIrq(f), NEW d \in list', d \notin list,
         sent' = sent, \A m \in FragId : Records(m),
         \A u \in Sender : air'[u] \subseteq air[u],
         since'[f.id] = 0, f.frame \in users'[f.id],
         f.frame # 0 => IsCut([frame |-> f.frame, len |-> f.len], f.index),
         \A u \in Sender : \A g \in air'[u] : g.frame = f.frame => g.index # f.index
  PROVE  EntryTells(d)'
<1> DEFINE e == EntryFor(f)
<1>1. Decodes(f) /\ ~ Refuses(f) /\ ~ Duplicate(e, f) /\ ~ Overflows(f) /\ d = Store(e, f)
  BY TableAfter
<1>2. e \in Entry /\ e.id = f.id /\ (e \in list \/ e = NewEntry(f)) /\ list \subseteq Entry
  BY <1>1, EntryForType DEF IdInv, IInv, TableOK
<1>3. /\ d.id = f.id /\ d.age = e.age /\ d.age \in Nat /\ d.mask = e.mask \cup {f.index}
      /\ d.data[f.index] = [frame |-> f.frame, len |-> f.len]
      /\ \A i \in e.mask : i # f.index /\ d.data[i] = e.data[i]
  <2>1. /\ d.id = e.id /\ d.age = e.age /\ d.mask = e.mask \cup {f.index} /\ d \in Entry
        /\ d.data[f.index] = [frame |-> f.frame, len |-> f.len]
        /\ \A i \in Index \ {f.index} : d.data[i] = e.data[i]
    BY <1>1, <1>2, StoreType
  <2>2. e.mask \subseteq Index /\ f.index \notin e.mask
    BY <1>1, <1>2 DEF Entry, Duplicate
  <2> HIDE DEF e
  <2>3. QED
    BY <1>2, <2>1, <2>2 DEF Entry
<1>4. f.id \in FragId /\ f.frame \in Nat
  BY DEF Fragment
<1>5. \A i \in e.mask : e \in list
  BY <1>2 DEF NewEntry
<1>6. e \in list => EntryTells(e)
  BY DEF IdInv
<1> HIDE DEF e
<1>7. ASSUME NEW i \in d.mask
      PROVE  /\ d.data[i].frame \in users'[d.id]
             /\ d.data[i].frame # 0 => IsCut(d.data[i], i)'
             /\ \A u \in Sender : \A g \in air'[u] : g.frame = d.data[i].frame => g.index # i
  <2>1. CASE i = f.index
    <3>1. d.data[i] = [frame |-> f.frame, len |-> f.len]
      BY <1>3, <2>1
    <3>2. d.data[i].frame = f.frame
      BY <3>1
    <3>3. f.frame # 0 => IsCut(d.data[i], i)'
      BY <2>1, <3>1 DEF IsCut, Piece
    <3>4. QED
      BY <1>3, <2>1, <3>2, <3>3
  <2>2. CASE i \in e.mask
    <3>1. EntryTells(e) /\ d.data[i] = e.data[i] /\ users[e.id] \subseteq users'[e.id]
      BY <1>2, <1>3, <1>4, <1>5, <1>6, <2>2 DEF Records
    <3>2. /\ e.data[i].frame \in users'[d.id]
          /\ \A u \in Sender : \A g \in air'[u] : g.frame = e.data[i].frame => g.index # i
      BY <1>2, <1>3, <2>2, <3>1 DEF EntryTells
    <3>3. d.data[i].frame # 0 => IsCut(d.data[i], i)'
      BY <2>2, <3>1 DEF EntryTells, IsCut, Piece
    <3>4. QED
      BY <3>1, <3>2, <3>3
  <2>3. QED
    BY <1>3, <2>1, <2>2
<1>8. d.age >= since'[d.id]
  BY <1>3
<1>9. QED
  BY <1>7, <1>8 DEF EntryTells

\* A packet of a sender arrives.
LEMMA ReceiveTells ==
  ASSUME IdInv, IInv', NEW s \in Sender, Receive(s), UNCHANGED history
  PROVE  IdInv'
<1>1. PICK f \in air[s] :
        HandleLoraIrq(f) /\ air' = [air EXCEPT ![s] = @ \ {f}] /\ sent' = sent
  BY DEF Receive
<1>2. air \in [Sender -> SUBSET Fragment] /\ f \in Fragment /\ Len(sent) \in Nat
  BY IdTypes
<1>3. \A u \in Sender : air'[u] \subseteq air[u]
  BY <1>1, <1>2
<1>4. HistoryType' /\ \A m \in FragId : Records(m)
  BY DEF history, IdInv, HistoryType, Records
<1>5. PacketTells(s, f)
  BY DEF IdInv
<1>6. ASSUME NEW u \in Sender, NEW g \in air'[u], g.frame = f.frame
      PROVE  g.index # f.index
  <2>1. g \in air[u] /\ (u = s => g # f)
    BY <1>1, <1>2
  <2>2. PacketTells(u, g)
    BY <2>1 DEF IdInv
  <2>3. u = s
    BY <1>5, <1>6, <2>2 DEF PacketTells
  <2>4. QED
    BY <1>6, <2>1, <2>3, SamePacket
<1>7. ASSUME NEW d \in list' PROVE EntryTells(d)'
  <2>1. CASE d \in list
    BY <1>1, <1>2, <1>3, <1>4, <2>1, OldTells
  <2>2. CASE d \notin list
    <3>1. /\ since'[f.id] = 0 /\ f.frame \in users'[f.id]
          /\ IsCut([frame |-> f.frame, len |-> f.len], f.index)
      BY <1>5 DEF PacketTells, history, IsCut, Piece
    <3>2. QED
      BY <1>1, <1>2, <1>3, <1>4, <1>6, <2>2, <3>1, StoredTells
  <2>3. QED
    BY <2>1, <2>2
<1>8. \A u \in Sender : \A g \in air'[u] : PacketTells(u, g)'
  BY <1>1, <1>2, <1>3, <1>4, OldTells
<1>9. QED
  BY <1>4, <1>7, <1>8 DEF IdInv

\* A packet arrives that no bridge sent.
LEMMA ForeignTells ==
  ASSUME IdInv, IInv', NEW h \in Foreign, ReceiveForeign(h), Use(h.id, 0)
  PROVE  IdInv'
<1> DEFINE f == [id |-> h.id, total |-> h.total, index |-> h.index, len |-> h.len, frame |-> 0]
<1>1. /\ HandleLoraIrq(f) /\ air' = air /\ sent' = sent
  BY DEF ReceiveForeign, senderVars
<1>2. f \in Fragment /\ h.id \in FragId /\ f.id = h.id /\ f.frame = 0
  BY ForeignAssumption DEF Header, Fragment
<1>3. /\ HistoryType' /\ \A m \in FragId : Records(m)
      /\ 0 \in users'[h.id] /\ since'[h.id] = 0
  BY <1>2, UseRecords
<1>4. Len(sent) \in Nat
  BY IdTypes
<1>5. \A u \in Sender : \A g \in air'[u] : PacketTells(u, g)'
  BY <1>1, <1>3, <1>4, OldTells
<1>6. \A u \in Sender : \A g \in air'[u] : g.frame # f.frame
  BY <1>1, <1>2, <1>4 DEF IdInv, PacketTells
<1> HIDE DEF f
<1>7. ASSUME NEW d \in list' PROVE EntryTells(d)'
  <2>1. CASE d \in list
    BY <1>1, <1>3, <1>4, <2>1, OldTells
  <2>2. CASE d \notin list
    BY <1>1, <1>2, <1>3, <1>6, <2>2, StoredTells
  <2>3. QED
    BY <2>1, <2>2
<1>8. QED
  BY <1>3, <1>5, <1>7 DEF IdInv

\* A second makes an entry older and at most as much of the silence of its id;
\* when a record is cleared, an entry of the id would be too old to be there.
LEMMA TickTells ==
  ASSUME IdInv, IInv', Tick, Pass
  PROVE  IdInv'
<1>1. /\ list' = { [e EXCEPT !.age = @ + 1] : e \in list }
      /\ UNCHANGED <<air, sent>>
  BY DEF Tick
<1>2. Lifetime \in Nat \ {0} /\ list \subseteq Entry
      /\ \A m \in FragId : since[m] \in Nat /\ since[m] <= Lifetime
  BY IdTypes
<1>3. HistoryType'
  BY <1>2 DEF Pass, IdInv, HistoryType
<1>4. ASSUME NEW m \in FragId
      PROVE  /\ since'[m] = 0 \/ since'[m] <= since[m] + 1
             /\ since'[m] # Lifetime => users'[m] = users[m]
             /\ OnAir(m) => since'[m] = 0
  BY <1>2 DEF Pass
<1>5. ASSUME NEW d \in list' PROVE EntryTells(d)'
  <2>1. PICK e \in list : d = [e EXCEPT !.age = @ + 1]
    BY <1>1
  <2>2. /\ e \in Entry /\ d.id = e.id /\ d.mask = e.mask /\ d.data = e.data
        /\ d.age = e.age + 1 /\ e.age \in Nat /\ d.id \in FragId
    BY <1>2, <2>1 DEF Entry
  <2>3. EntryTells(e)
    BY DEF IdInv
  <2>4. d.age >= since'[d.id] /\ since'[d.id] \in Nat
    BY <1>2, <1>3, <1>4, <2>2, <2>3 DEF EntryTells, HistoryType
  <2>5. d.age < Lifetime
    <3>1. d.age < FragTimeout + sinceCleanup' /\ sinceCleanup' \in 0 .. CleanupPeriod + Stall
      BY DEF IInv, YoungEnough, TypeOK
    <3>2. QED
      BY <2>2, <3>1, TimesAssumption DEF Lifetime
  <2>6. users'[d.id] = users[d.id]
    BY <1>2, <1>4, <2>2, <2>4, <2>5
  <2>7. QED
    BY <1>1, <2>2, <2>3, <2>4, <2>6 DEF EntryTells, IsCut, Piece
<1>6. ASSUME NEW s \in Sender, NEW f \in air'[s]
      PROVE  PacketTells(s, f)'
  <2>1. PacketTells(s, f) /\ f.id \in FragId /\ OnAir(f.id)
    BY <1>1, IdTypes DEF IdInv, OnAir, Fragment
  <2>2. since'[f.id] = 0 /\ users'[f.id] = users[f.id]
    BY <1>2, <1>4, <2>1
  <2>3. QED
    BY <1>1, <2>1, <2>2 DEF PacketTells
<1>7. QED
  BY <1>3, <1>5, <1>6 DEF IdInv

\* Every step keeps the invariant.
LEMMA IdNextOK == IdInv /\ [IdNext]_allVars => IdInv'
<1> SUFFICES ASSUME IdInv, [IdNext]_allVars PROVE IdInv'
  OBVIOUS
<1>1. IInv'
  BY NextOK DEF IdInv, IdNext, Next, allVars
<1>2. ASSUME NEW s \in Sender, HandleTapRead(s), Use(nextFragId[s], Len(sent'))
      PROVE  IdInv'
  BY <1>1, <1>2, TapReadTells
<1>3. ASSUME NEW s \in Sender, Receive(s), UNCHANGED history
      PROVE  IdInv'
  BY <1>1, <1>3, ReceiveTells
<1>4. ASSUME NEW s \in Sender, Lose(s) \/ SenderCrash(s), UNCHANGED history
      PROVE  IdInv'
  <2>1. \A u \in Sender : air'[u] \subseteq air[u]
    BY <1>4, IdTypes DEF Lose, SenderCrash
  <2>2. list' = list /\ sent' = sent
    BY <1>4 DEF Lose, SenderCrash, receiverVars
  <2>3. QED
    BY <1>1, <1>4, <2>1, <2>2, FewerTell
<1>5. ASSUME NEW h \in Foreign, ReceiveForeign(h), Use(h.id, 0)
      PROVE  IdInv'
  BY <1>1, <1>5, ForeignTells
<1>6. CASE (IdleIteration \/ ReceiverRestart \/ UNCHANGED vars) /\ UNCHANGED history
  <2>1. list' \subseteq list /\ air' = air /\ sent' = sent
    BY <1>6 DEF IdleIteration, EndOfIteration, ReceiverRestart, vars
  <2>2. QED
    BY <1>1, <1>6, <2>1, FewerTell
<1>7. CASE Tick /\ Pass
  BY <1>1, <1>7, TickTells
<1>8. QED
  BY <1>2, <1>3, <1>4, <1>5, <1>6, <1>7 DEF IdNext, allVars, history

LEMMA IdInitOK == IdInit => IdInv
<1> SUFFICES ASSUME IdInit PROVE IdInv
  OBVIOUS
<1>1. IInv /\ list = {} /\ \A s \in Sender : air[s] = {}
  BY InitOK DEF IdInit, Init
<1>2. HistoryType
  BY TimesAssumption DEF IdInit, HistoryType, Lifetime
<1>3. QED
  BY <1>1, <1>2 DEF IdInv

\* Every reachable state satisfies the invariant of the ids.
LEMMA IdInductive == IdSpec => []IdInv
<1>1. QED
  BY IdInitOK, IdNextOK, PTL DEF IdSpec

-----------------------------------------------------------------------------
(* The theorems about ids.                                                 *)

\* The packet that arrives is the one that was taken off the air.
LEMMA TheArrival ==
  ASSUME IdInv, NEW s \in Sender, NEW f \in air[s], Arrives(s, f)
  PROVE  HandleLoraIrq(f) /\ f \in Fragment /\ PacketTells(s, f)
<1>1. PICK g \in air[s] : HandleLoraIrq(g) /\ air' = [air EXCEPT ![s] = @ \ {g}]
  BY DEF Arrives, Receive
<1>2. air \in [Sender -> SUBSET Fragment]
  BY IdTypes
<1>3. f = g
  BY <1>1, <1>2 DEF Arrives
<1>4. QED
  BY <1>1, <1>2, <1>3 DEF IdInv

\* The entry of a packet that is alone holds pieces of its frame only.
LEMMA AloneParts ==
  ASSUME IdInv, NEW s \in Sender, NEW f \in air[s], f \in Fragment, PacketTells(s, f),
         Alone(f), NEW e \in list, e.id = f.id, NEW i \in e.mask
  PROVE  IsCut(e.data[i], i) /\ e.data[i] = Piece(f.frame, i) /\ i # f.index
<1>1. EntryTells(e) /\ e.data[i].frame \in {f.frame}
  BY DEF IdInv, EntryTells, Alone
<1>2. f.frame # 0
  BY IdTypes DEF PacketTells
<1>3. QED
  BY <1>1, <1>2 DEF EntryTells, IsCut

\* A complete entry of pieces of one frame is the frame.
LEMMA CompleteIsFrame ==
  ASSUME IdInv, NEW s \in Sender, NEW f \in air[s], f \in Fragment, PacketTells(s, f),
         Alone(f), Completes(f)
  PROVE  FrameOf(Store(EntryFor(f), f), f) = FrameSent(f)
<1> DEFINE e == EntryFor(f)
           d == Store(e, f)
           n == f.frame
           L == sent[n].len
           N == NumFrags(L)
<1>1. L \in 1 .. MaxFrameSize /\ f.total = N
  BY IdTypes, SizesAssumption DEF PacketTells
<1>2. e \in Entry /\ e.id = f.id /\ (e \in list \/ e = NewEntry(f))
  BY EntryForType DEF Completes, IdInv, IInv, TableOK
<1>3. /\ d \in Entry /\ d.mask = e.mask \cup {f.index}
      /\ d.data[f.index] = [frame |-> n, len |-> f.len]
      /\ \A i \in Index \ {f.index} : d.data[i] = e.data[i]
  BY <1>2, StoreType DEF Completes
<1>4. Matches(d)
  BY <1>2, StoreMatches DEF Completes, IdInv, IInv, TableOK
<1>5. d.mask = 0 .. N - 1
  BY <1>1 DEF Completes, Full
<1>6. ASSUME NEW i \in e.mask PROVE e.data[i] = Piece(n, i) /\ i # f.index /\ i \in Index
  <2>1. e \in list
    BY <1>2, <1>6 DEF NewEntry
  <2>2. QED
    BY <1>2, <2>1, AloneParts DEF Entry
<1>7. [frame |-> n, len |-> f.len] = Piece(n, f.index)
  BY DEF PacketTells, Piece
<1>8. \A i \in d.mask : d.data[i] = Piece(n, i)
  BY <1>3, <1>6, <1>7
<1>9. \A i \in 0 .. N - 1 : d.data[i] = [frame |-> n, len |-> PayloadLenAt(L, i)]
  BY <1>5, <1>8 DEF Piece
<1> HIDE DEF d, L
<1>10. d.len = L
  <2>1. PICK i \in 0 .. N - 1 : d.len = i * FragMaxPayload + PayloadLenAt(L, i)
    <3>1. PICK i \in d.mask : d.len = i * FragMaxPayload + d.data[i].len
      BY <1>4 DEF Matches
    <3>2. d.data[i] = [frame |-> n, len |-> PayloadLenAt(L, i)]
      BY <1>5, <1>9, <3>1
    <3>3. QED
      BY <1>5, <3>1, <3>2
  <2>2. d.len <= L
    BY <1>1, <2>1, FrameEnds
  <2>3. N - 1 \in 0 .. N - 1
    BY <1>1, FrameEnds
  <2>4. (N - 1) * FragMaxPayload + d.data[N - 1].len <= d.len
    BY <1>4, <1>5, <2>3 DEF Matches
  <2>5. L <= d.len
    <3>1. d.data[N - 1] = [frame |-> n, len |-> PayloadLenAt(L, N - 1)]
      BY <1>9, <2>3
    <3>2. (N - 1) * FragMaxPayload + PayloadLenAt(L, N - 1) = L
      BY <1>1, FrameEnds
    <3>3. QED
      BY <2>4, <3>1, <3>2
  <2>6. d.len \in Nat /\ L \in Nat
    BY <1>1, <1>3, SizesAssumption DEF Entry
  <2>7. QED
    BY <2>2, <2>5, <2>6
<1>11. FrameOf(d, f) = [chunks |-> [i \in 0 .. N - 1 |-> d.data[i]], len |-> d.len]
  BY <1>1 DEF FrameOf
<1>12. [i \in 0 .. N - 1 |-> d.data[i]] = [i \in 0 .. N - 1 |-> [frame |-> n, len |-> PayloadLenAt(L, i)]]
  BY <1>9
<1>13. QED
  BY <1>10, <1>11, <1>12 DEF d, L, WholeFrame, FrameSent

\* What an arrival makes the bridge write is the frame as it was read, when no
\* other packet has used the id for as long as an entry can live.
THEOREM AloneWritesWhole == IdSpec => AloneIsWhole
<1> DEFINE Whole == \A s \in Sender : \A f \in air[s] :
              Arrives(s, f) /\ Alone(f) => tap' \in {tap, Append(tap, FrameSent(f))}
<1>1. ASSUME IdInv, NEW s \in Sender, NEW f \in air[s], Arrives(s, f), Alone(f)
      PROVE  tap' \in {tap, Append(tap, FrameSent(f))}
  <2>1. HandleLoraIrq(f) /\ f \in Fragment /\ PacketTells(s, f)
    BY <1>1, TheArrival
  <2>2. Completes(f) => tap' = Append(tap, FrameSent(f))
    BY <1>1, <2>1, CompleteIsFrame DEF HandleLoraIrq
  <2>3. ~ Completes(f) => tap' = tap
    BY <2>1 DEF HandleLoraIrq
  <2>4. QED
    BY <2>2, <2>3
<1>2. IdInv /\ [IdNext]_allVars => [Whole]_allVars
  BY <1>1
<1>3. QED
  BY <1>2, IdInductive, PTL DEF IdSpec, AloneIsWhole

\* A packet that is a whole frame and alone finds no entry of its id, and room.
LEMMA AloneSingleCompletes ==
  ASSUME IdInv, NEW s \in Sender, NEW f \in air[s], f \in Fragment, PacketTells(s, f),
         Alone(f), f.total = 1
  PROVE  Completes(f)
<1> DEFINE L == sent[f.frame].len
<1>1. f.index = 0 /\ f.len = PayloadLenAt(L, 0) /\ L \in 1 .. MaxFrameSize /\ NumFrags(L) = 1
  <2>1. /\ f.frame \in 1 .. Len(sent) /\ f.total = NumFrags(L)
        /\ f.index \in 0 .. f.total - 1 /\ f.len = PayloadLenAt(L, f.index)
    BY DEF PacketTells
  <2>2. L \in FrameLens
    BY <2>1, IdTypes
  <2> HIDE DEF L
  <2>3. f.index = 0
    BY <2>1
  <2>4. QED
    BY <2>1, <2>2, <2>3, SizesAssumption
<1>2. f.len \in Nat /\ f.id \in FragId
  BY DEF Fragment
<1> HIDE DEF L
<1>3. f.len <= FragMaxPayload /\ f.len <= MaxFrameSize /\ 0 * FragMaxPayload = 0
  BY <1>1, <1>2, SizesAssumption DEF PayloadLenAt
<1>4. Decodes(f) /\ ~ Overflows(f)
  BY <1>1, <1>2, <1>3, SizesAssumption DEF Decodes, Overflows, End
<1>5. EntriesOf(f.id) = {}
  <2>1. SUFFICES ASSUME NEW e \in list, e.id = f.id PROVE FALSE
    BY DEF EntriesOf
  <2>2. e \in Entry /\ Matches(e)
    BY DEF IdInv, IInv, TableOK
  <2>3. PICK i \in e.mask : TRUE
    BY <2>2 DEF Matches
  <2>a. IsCut(e.data[i], i) /\ e.data[i] = Piece(f.frame, i) /\ i # f.index
    BY <2>1, <2>3, AloneParts
  <2>4. IsCut(e.data[i], i) /\ e.data[i].frame = f.frame /\ i # f.index
    BY <2>a DEF Piece
  <2>5. i \in 0 .. f.total - 1
    BY <2>4 DEF IsCut, PacketTells
  <2>6. QED
    BY <1>1, <2>4, <2>5
<1>6. ~ Refuses(f)
  <2>1. 1 \in 1 .. MaxFragments
    BY SizesAssumption
  <2>2. ~ TableFull(f.id)
    BY <1>2, RoomForAll DEF IdInv, NeverFull
  <2>3. QED
    BY <2>1, <2>2 DEF Refuses
<1>7. EntryFor(f) = NewEntry(f)
  BY <1>5 DEF EntryFor
<1>8. ~ Duplicate(EntryFor(f), f) /\ Full(Store(EntryFor(f), f), f)
  BY <1>1, <1>7 DEF Duplicate, NewEntry, Full, Store
<1>9. QED
  BY <1>4, <1>6, <1>8 DEF Completes

\* A frame of one packet is written to TAP in the step that takes its packet,
\* unless another has used its id within an entry's lifetime.
THEOREM SingleDelivered == IdSpec => SingleFragmentDelivered
<1> DEFINE Delivers == \A s \in Sender : \A f \in air[s] :
              Arrives(s, f) /\ Alone(f) /\ f.total = 1 => tap' = Append(tap, FrameSent(f))
<1>1. ASSUME IdInv, NEW s \in Sender, NEW f \in air[s], Arrives(s, f), Alone(f), f.total = 1
      PROVE  tap' = Append(tap, FrameSent(f))
  <2>1. HandleLoraIrq(f) /\ f \in Fragment /\ PacketTells(s, f)
    BY <1>1, TheArrival
  <2>2. Completes(f)
    BY <1>1, <2>1, AloneSingleCompletes
  <2>3. QED
    BY <1>1, <2>1, <2>2, CompleteIsFrame DEF HandleLoraIrq
<1>2. IdInv /\ [IdNext]_allVars => [Delivers]_allVars
  BY <1>1
<1>3. QED
  BY <1>2, IdInductive, PTL DEF IdSpec, SingleFragmentDelivered
=============================================================================
