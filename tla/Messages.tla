------------------------------ MODULE Messages ------------------------------
(***************************************************************************)
(* The messages of the mesh store: where they come from, what a merge      *)
(* keeps of them, and how a REST client pages through them                 *)
(* (backend/app/services/mesh_store.py, reticulum_service.py,              *)
(* live_data_source.py, routers/messages.py).                              *)
(*                                                                         *)
(* LXMF messages arrive on a thread of Reticulum and wait in the inbox;    *)
(* the store shows them from the next merge on, and a merge happens when   *)
(* the state of the mesh has changed.  The time of an LXMF message is that *)
(* of its sender, the time of a posted one that of this device, which has  *)
(* no clock of its own: neither need grow.  The id of an LXMF message has  *)
(* the second only, so that a later message can take the place of one of   *)
(* the same second, with a time of its own.                                *)
(***************************************************************************)
EXTENDS Naturals, Sequences, FiniteSets, SequencesExt, Ordering

CONSTANTS
  Source,     \* destinations that send LXMF messages
  Time,       \* times of messages, finer than seconds
  TicksPerSecond,
  PageLimit,  \* how many messages the client asks for
  MaxMessages \* bound: messages that arrive or are posted

\* limit is at least 1 (get_messages).
ASSUME MessagesAssumption ==
  /\ Time \subseteq Nat /\ Time # {} /\ TicksPerSecond \in Nat \ {0}
  /\ PageLimit \in Nat \ {0} /\ MaxMessages \in Nat

VARIABLES
  live,       \* Reticulum has started
  lxmf,       \* ReticulumBridge._inbox
  held,       \* MeshStore._messages, in the order of the dictionary
  made,       \* messages that have arrived or have been posted
  merged,     \* history: length of the inbox at the last merge
  deleted,    \* history: ids deleted since the last merge
  reader      \* a client that reads page after page

messageVars == <<live, lxmf, held, made, merged, deleted, reader>>
storeVars == <<live, lxmf, held, made, merged, deleted>>

\* int() of a timestamp.
Second(t) == t \div TicksPerSecond

\* Who sent a message, and when; content is its number.  A Message can be made
\* of it if it fits: a text of no more than max_length, a time a datetime has.
Lxmf == [ from : Source, at : Time, content : 1 .. MaxMessages, fits : BOOLEAN ]

\* lxmf_<hash>_<second>, msg_<uuid> or the id of a mock message.
MockId == <<"mock", "nobody", 0>>
Posted(n) == <<"msg", "nobody", n>>
Id == ({"lxmf"} \X Source \X { Second(t) : t \in Time })
        \cup { Posted(n) : n \in 1 .. MaxMessages } \cup {MockId}
Message == [ id : Id, at : Time, content : 0 .. MaxMessages ]

IdsOf(messages) == { m.id : m \in ToSet(messages) }
Contents == { m.content : m \in ToSet(held) }

-----------------------------------------------------------------------------
(* The sources.                                                            *)

AsMessage(m) ==
  [ id |-> <<"lxmf", m.from, Second(m.at)>>, at |-> m.at, content |-> m.content ]

\* The assignments to a dictionary, one after the other: a key has the place of
\* its first value, and its last value.
Assigned(messages) ==
  LET same(i) == { j \in DOMAIN messages : messages[j].id = messages[i].id }
      latest == [ i \in DOMAIN messages |->
                    messages[CHOOSE j \in same(i) : \A k \in same(i) : k <= j] ]
  IN  Part(latest, { i \in DOMAIN messages : \A j \in same(i) : i <= j })

MockMessages ==
  <<[ id |-> MockId, at |-> CHOOSE t \in Time : TRUE, content |-> 0 ]>>

\* LiveDataSource.get_messages, and the assignments of the merge: of an inbox
\* with a message that does not fit, nothing is taken.
Fetched ==
  IF \A i \in DOMAIN lxmf : lxmf[i].fits
  THEN Assigned([ i \in DOMAIN lxmf |-> AsMessage(lxmf[i]) ])
  ELSE MockMessages

\* A message a reader is to find is one that never leaves the store.
StoreBecomes(messages) ==
  /\ held' = messages
  /\ reader' = [ reader EXCEPT !.throughout =
                   @ \cap { m.content : m \in ToSet(messages) } ]

\* _on_message
ReceiveLxmf ==
  /\ live /\ made < MaxMessages
  /\ made' = made + 1
  /\ \E s \in Source, t \in Time, fits \in BOOLEAN :
       lxmf' = Append(lxmf, [ from |-> s, at |-> t, content |-> made', fits |-> fits ])
  /\ UNCHANGED <<live, held, merged, deleted, reader>>

\* add_message of a new id and a node that exists.
AddMessage(m) == StoreBecomes(Append(held, m))

\* POST messages
CreateMessage ==
  /\ made < MaxMessages
  /\ made' = made + 1
  /\ \E t \in Time : AddMessage([ id |-> Posted(made'), at |-> t, content |-> made' ])
  /\ UNCHANGED <<live, lxmf, merged, deleted>>

RemoveMessage(id) ==
  /\ id \in IdsOf(held)
  /\ StoreBecomes(Part(held, { i \in DOMAIN held : held[i].id # id }))

\* DELETE messages/{id}: the inbox keeps it.
DeleteMessage ==
  \E id \in IdsOf(held) :
    /\ RemoveMessage(id)
    /\ deleted' = deleted \cup {id}
    /\ UNCHANGED <<live, lxmf, made, merged>>

\* Mutant: what the store has is kept, and only what is new is added.
MergeAdds ==
  LET new == IF live THEN Fetched ELSE MockMessages
  IN  held \o Part(new, { i \in DOMAIN new : new[i].id \notin IdsOf(held) })

\* All messages are cleared and loaded anew, those that were posted too.
MergedMessages == IF live THEN Fetched ELSE MockMessages

\* merge_from_source
MergeMessages ==
  /\ StoreBecomes(MergedMessages)
  /\ merged' = Len(lxmf)
  /\ deleted' = {}
  /\ UNCHANGED <<live, lxmf, made>>

-----------------------------------------------------------------------------
(* GET messages.                                                           *)

\* get_all_messages: newest first, equal ones as the dictionary has them.
NewestFirst ==
  { p \in (DOMAIN held) \X (DOMAIN held) :
      \/ held[p[1]].at > held[p[2]].at
      \/ held[p[1]].at = held[p[2]].at /\ p[1] < p[2] }

Sorted ==
  LET order == InOrder(DOMAIN held, NewestFirst)
  IN  [ i \in DOMAIN order |-> held[order[i]] ]

\* Mutant: the page starts after as many messages as have been read.
AfterCount ==
  SubSeq(Sorted, Cardinality(reader.seen) + 1, Len(held))

\* What follows the cursor; nothing, if the cursor is not found.
AfterCursor ==
  LET all == Sorted
      found == { i \in DOMAIN all : all[i].id = reader.cursor }
  IN  IF found = {} THEN <<>>
      ELSE SubSeq(all, (CHOOSE i \in found : TRUE) + 1, Len(all))

\* at is the time of the cursor's message when it was read.  History: the cursor
\* was gone, or its message had another time, when a page was asked for.
NoReader == [ state |-> "idle", cursor |-> MockId, at |-> 0, seen |-> {}, twice |-> FALSE,
              cut |-> FALSE, moved |-> FALSE, throughout |-> {} ]

\* The answer to a client that has read what the second parameter says.  It
\* asks on until a page is not full.
AnswerPage(from, r) ==
  LET page == SubSeq(from, 1, IF Len(from) < PageLimit THEN Len(from) ELSE PageLimit)
      contents == { m.content : m \in ToSet(page) }
  IN  reader' = [ r EXCEPT
         !.state = IF Len(page) < PageLimit THEN "done" ELSE "reading",
         !.cursor = IF page = <<>> THEN @ ELSE page[Len(page)].id,
         !.at = IF page = <<>> THEN @ ELSE page[Len(page)].at,
         !.seen = @ \cup contents,
         !.twice = @ \/ r.seen \cap contents # {} ]

FirstPage ==
  /\ reader.state = "idle"
  /\ AnswerPage(Sorted, [ NoReader EXCEPT !.throughout = Contents ])
  /\ UNCHANGED storeVars

CursorMoved ==
  \E m \in ToSet(held) : m.id = reader.cursor /\ m.at # reader.at

NextPage ==
  /\ reader.state = "reading"
  /\ AnswerPage(AfterCursor,
                [ reader EXCEPT !.cut = reader.cursor \notin IdsOf(held),
                                !.moved = @ \/ CursorMoved ])
  /\ UNCHANGED storeVars

\* load_from_source when the process starts: the inbox is empty.
MessagesInit ==
  /\ live \in BOOLEAN
  /\ lxmf = <<>>
  /\ held = IF live THEN <<>> ELSE MockMessages
  /\ made = 0 /\ merged = 0 /\ deleted = {}
  /\ reader = NoReader

MessagesNext ==
  \/ ReceiveLxmf \/ CreateMessage \/ DeleteMessage \/ MergeMessages
  \/ FirstPage \/ NextPage

MessagesSpec == MessagesInit /\ [][MessagesNext]_messageVars

-----------------------------------------------------------------------------
(* Properties.                                                             *)

\* Every variable keeps its type.
MessagesTypeOK ==
  /\ live \in BOOLEAN /\ lxmf \in Seq(Lxmf) /\ held \in Seq(Message)
  /\ made \in 0 .. MaxMessages /\ merged \in 0 .. Len(lxmf)
  /\ deleted \subseteq Id
  /\ reader.state \in {"idle", "reading", "done"}
  /\ reader.cursor \in Id /\ reader.at \in Nat
  /\ reader.seen \cup reader.throughout \subseteq 0 .. MaxMessages
  /\ reader.twice \in BOOLEAN /\ reader.cut \in BOOLEAN /\ reader.moved \in BOOLEAN

\* Whatever arrives, is deleted or is merged between two pages, a client sees
\* no message twice, and when it has read all pages it has seen every message
\* that was in the store all the time, unless the cursor itself was deleted, or
\* a merge has put a message of another time in the place of the cursor's
\* (get_messages of routers/messages.py).
PagesAreComplete ==
  ~ reader.moved =>
    /\ ~ reader.twice
    /\ reader.state = "done" /\ ~ reader.cut => reader.throughout \subseteq reader.seen

\* If all that the last merge found in the inbox fits, each message of it is in
\* the store with the time it was sent, unless it has been deleted since or
\* another one from its sender in the same second follows it; if one message
\* does not fit, the store has none of them (LiveDataSource.get_messages,
\* merge_from_source).
StoreShowsInbox ==
  LET last(i) == \A j \in i + 1 .. merged : AsMessage(lxmf[j]).id # AsMessage(lxmf[i]).id
  IN  IF \A i \in 1 .. merged : lxmf[i].fits
      THEN \A i \in 1 .. merged :
             last(i) => \/ AsMessage(lxmf[i]) \in ToSet(held)
                        \/ AsMessage(lxmf[i]).id \in deleted
      ELSE \A m \in ToSet(held) : m.id[1] # "lxmf"
=============================================================================
