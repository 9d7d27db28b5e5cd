------------------------- MODULE AuthSessionsProofs -------------------------
(***************************************************************************)
(* Proofs about sessions and tokens, for every number of users, threads    *)
(* and sessions and all lives of tokens.                                   *)
(*                                                                         *)
(* A session's row is good when it is inserted and never again, so that    *)
(* what holds of all good rows is kept by whatever spoils rows; a refresh  *)
(* spoils the one good row of its chain before it inserts another.         *)
(***************************************************************************)
EXTENDS AuthSessions, SequenceTheorems, TLAPS

Good(i) == sessions[i].row = "good"

\* Of the sessions that descend from one login one has a good row.
OneGoodRow ==
  \A i, j \in DOMAIN sessions :
    Good(i) /\ Good(j) /\ sessions[i].chain = sessions[j].chain => i = j

\* A chain bears the number of its first session.
ChainsBeginEarlier == \A i \in DOMAIN sessions : sessions[i].chain <= i

\* DeactivatedAreOut, of rows whose token has not been minted, too.
GoodRowsLate ==
  \A i \in DOMAIN sessions :
    Good(i) /\ sessions[i].user \in out => sessions[i].late

\* Row and token expire together.
ExpireTogether ==
  \A i \in DOMAIN sessions :
    Good(i) /\ sessions[i].held => sessions[i].left = sessions[i].exp

Minting(w) == login[w].step = "mint"

\* A session waits for its token with one thread, and its whole life is left.
MintOnce ==
  /\ \A w \in Worker : Minting(w) =>
       LET s == sessions[login[w].session]
       IN  ~ s.held /\ (s.row = "good" => s.left = Life(s.kind))
  /\ \A v, w \in Worker :
       Minting(v) /\ Minting(w) /\ login[v].session = login[w].session => v = w

IInv ==
  /\ TypeOK /\ OneGoodRow /\ ChainsBeginEarlier
  /\ GoodRowsLate /\ ExpireTogether /\ MintOnce

LEMMA InitOK == Init => IInv
<1> SUFFICES ASSUME Init PROVE IInv
  OBVIOUS
<1>1. /\ sessions = <<>> /\ sessions \in Seq(Session) /\ Len(sessions) = 0
      /\ DOMAIN sessions = {} /\ out = {}
  BY DEF Init
<1>2. login \in [Worker -> Login] /\ \A w \in Worker : login[w].step = "idle"
  BY DEF Init, Idle, Login
<1>3. TypeOK
  BY <1>1, <1>2, LivesAssumption DEF Init, TypeOK
<1>4. MintOnce
  BY <1>2 DEF MintOnce, Minting
<1>5. QED
  BY <1>1, <1>3, <1>4 DEF IInv, OneGoodRow, ChainsBeginEarlier, GoodRowsLate, ExpireTogether

-----------------------------------------------------------------------------
(* Sessions.                                                               *)

LEMMA LifeType ==
  ASSUME NEW k \in Kind
  PROVE  Life(k) \in Time /\ Life(k) > 0
  BY LivesAssumption DEF Life, Time, Kind

LEMMA NewRowType ==
  ASSUME NEW u \in User, NEW k \in Kind, NEW c \in 1 .. MaxSessions, NEW l \in BOOLEAN
  PROVE  /\ NewRow(u, k, c, l) \in Session
         /\ Minted(NewRow(u, k, c, l)) \in Session
         /\ LET m == Minted(NewRow(u, k, c, l))
            IN  /\ m.row = "good" /\ m.left = Life(k) /\ m.exp = Life(k) /\ m.held
                /\ m.user = u /\ m.chain = c /\ m.late = l
<1>1. Life(k) \in Time /\ 0 \in Time
  BY LifeType, LivesAssumption DEF Time
<1>2. QED
  BY <1>1 DEF NewRow, Minted, Session

\* What a session becomes: of the same login, and good only if it was.
Later(s, t) ==
  /\ t \in Session
  /\ t.user = s.user /\ t.kind = s.kind /\ t.chain = s.chain /\ t.late = s.late
  /\ t.row = "good" => s.row = "good"

\* Every session is what it was or later.
AllLater ==
  /\ sessions' \in Seq(Session) /\ Len(sessions') = Len(sessions)
  /\ \A i \in DOMAIN sessions : Later(sessions[i], sessions'[i])

LEMMA RevokedType ==
  ASSUME TypeOK, NEW ss
  PROVE  /\ Revoked(ss) \in Seq(Session) /\ Len(Revoked(ss)) = Len(sessions)
         /\ DOMAIN Revoked(ss) = DOMAIN sessions
         /\ \A i \in DOMAIN sessions :
              LET t == Revoked(ss)[i]
              IN  /\ Later(sessions[i], t)
                  /\ t.left = sessions[i].left /\ t.exp = sessions[i].exp
                  /\ t.held = sessions[i].held
                  /\ t.row = "good" => i \notin ss
<1>1. sessions \in Seq(Session) /\ DOMAIN sessions = 1 .. Len(sessions) /\ Len(sessions) \in Nat
  BY DEF TypeOK
<1>2. ASSUME NEW i \in DOMAIN sessions
      PROVE  LET t == Revoked(ss)[i]
             IN  /\ Later(sessions[i], t)
                 /\ t.left = sessions[i].left /\ t.exp = sessions[i].exp
                 /\ t.held = sessions[i].held
                 /\ t.row = "good" => i \notin ss
  <2>1. sessions[i] \in Session
    BY <1>1, ElementOfSeq
  <2>2. CASE i \in ss /\ sessions[i].row = "good"
    <3>1. Revoked(ss)[i] = [ sessions[i] EXCEPT !.row = "revoked" ]
      BY <2>2 DEF Revoked
    <3>2. QED
      BY <2>1, <3>1 DEF Later, Session
  <2>3. CASE ~ (i \in ss /\ sessions[i].row = "good")
    <3>1. Revoked(ss)[i] = sessions[i]
      BY <2>3 DEF Revoked
    <3>2. QED
      BY <2>1, <2>3, <3>1 DEF Later
  <2>4. QED
    BY <2>2, <2>3
<1>3. DOMAIN Revoked(ss) = 1 .. Len(sessions)
  BY <1>1 DEF Revoked
<1>4. \A i \in 1 .. Len(sessions) : Revoked(ss)[i] \in Session
  BY <1>1, <1>2 DEF Later
<1>5. Revoked(ss) \in Seq(Session) /\ Len(Revoked(ss)) = Len(sessions)
  <2>1. Revoked(ss) \in [1 .. Len(sessions) -> Session]
    BY <1>3, <1>4 DEF Revoked
  <2>2. QED
    BY <1>1, <2>1, SeqDef, LenProperties
<1>6. QED
  BY <1>1, <1>2, <1>3, <1>5

LEMMA RevokedLater ==
  ASSUME TypeOK, NEW ss, sessions' = Revoked(ss)
  PROVE  AllLater
  BY RevokedType DEF AllLater

\* What is kept when sessions become later and no thread starts to mint.
LEMMA LaterKeeps ==
  ASSUME IInv, AllLater,
         active' \subseteq User, admin' \subseteq User, out' \subseteq User,
         login' \in [Worker -> Login],
         \A w \in Worker : Minting(w)' => Minting(w) /\ login'[w] = login[w],
         \A i \in DOMAIN sessions :
           sessions'[i].user \in out' => sessions[i].user \in out \/ ~ Good(i)'
  PROVE  TypeOK' /\ OneGoodRow' /\ ChainsBeginEarlier' /\ GoodRowsLate'
<1>1. /\ sessions' \in Seq(Session) /\ sessions \in Seq(Session)
      /\ DOMAIN sessions' = DOMAIN sessions /\ Len(sessions') = Len(sessions)
  BY DEF IInv, TypeOK, AllLater
<1>2. TypeOK'
  BY <1>1 DEF IInv, TypeOK, Minting
<1>3. \A i \in DOMAIN sessions :
        /\ Good(i)' => Good(i)
        /\ sessions'[i].chain = sessions[i].chain
        /\ sessions'[i].user = sessions[i].user
        /\ sessions'[i].late = sessions[i].late
  BY DEF AllLater, Later, Good
<1>4. OneGoodRow'
  BY <1>1, <1>3 DEF IInv, OneGoodRow
<1>5. ChainsBeginEarlier'
  BY <1>1, <1>3 DEF IInv, ChainsBeginEarlier
<1>6. GoodRowsLate'
  BY <1>1, <1>3 DEF IInv, GoodRowsLate
<1>7. QED
  BY <1>2, <1>4, <1>5, <1>6

\* Revoking keeps everything.
LEMMA RevokingKeeps ==
  ASSUME IInv, NEW ss, sessions' = Revoked(ss),
         active' \subseteq User, admin' \subseteq User, out' \subseteq User,
         login' = login,
         \A i \in DOMAIN sessions : sessions[i].user \in out' => sessions[i].user \in out \/ i \in ss
  PROVE  IInv'
<1>1. /\ DOMAIN sessions' = DOMAIN sessions
      /\ \A i \in DOMAIN sessions :
           /\ sessions'[i].left = sessions[i].left /\ sessions'[i].exp = sessions[i].exp
           /\ sessions'[i].held = sessions[i].held /\ sessions'[i].kind = sessions[i].kind
           /\ sessions'[i].user = sessions[i].user
           /\ Good(i)' => Good(i) /\ i \notin ss
  BY RevokedType DEF IInv, Later, Good
<1>2. TypeOK' /\ OneGoodRow' /\ ChainsBeginEarlier' /\ GoodRowsLate'
  <2>1. login' \in [Worker -> Login] /\ (\A w \in Worker : Minting(w)' => Minting(w))
    BY DEF IInv, TypeOK, Minting
  <2>2. QED
    BY <1>1, <2>1, RevokedLater, LaterKeeps DEF IInv
<1>3. ExpireTogether'
  BY <1>1 DEF IInv, ExpireTogether
<1>4. MintOnce'
  <2>1. \A w \in Worker : Minting(w) => login[w].session \in DOMAIN sessions
    BY DEF IInv, TypeOK, Minting
  <2>2. ASSUME NEW w \in Worker, Minting(w)
        PROVE  LET t == sessions'[login[w].session]
               IN  ~ t.held /\ (t.row = "good" => t.left = Life(t.kind))
    BY <1>1, <2>1, <2>2 DEF IInv, MintOnce, Good
  <2>3. QED
    BY <2>2 DEF IInv, MintOnce, Minting
<1>5. QED
  BY <1>2, <1>3, <1>4 DEF IInv

-----------------------------------------------------------------------------
(* A session is added.                                                     *)

\* A row is appended to what the sessions have become, in a chain of which none
\* is good any more.
LEMMA AppendingKeeps ==
  ASSUME IInv, NEW old \in Seq(Session), Len(old) = Len(sessions),
         Len(sessions) < MaxSessions, NEW row \in Session,
         sessions' = Append(old, row), UNCHANGED userVars,
         \A i \in DOMAIN sessions :
           /\ Later(sessions[i], old[i])
           /\ old[i].left = sessions[i].left /\ old[i].exp = sessions[i].exp
           /\ old[i].held = sessions[i].held
           /\ old[i].row = "good" => old[i].chain # row.chain,
         row.chain <= Len(sessions) + 1,
         row.user \in out => row.late,
         row.held => row.left = row.exp,
         \/ login' = login
         \/ /\ \E w \in Worker :
                 login' = [login EXCEPT ![w] = [ step |-> "mint", session |-> Len(sessions) + 1 ]]
            /\ ~ row.held /\ row.left = Life(row.kind)
  PROVE  IInv'
<1> DEFINE n == Len(sessions) + 1
<1>1. /\ Len(sessions) \in Nat /\ DOMAIN sessions = 1 .. Len(sessions)
      /\ sessions' \in Seq(Session) /\ Len(sessions') = n /\ DOMAIN sessions' = 1 .. n
      /\ sessions'[n] = row /\ \A i \in DOMAIN sessions : sessions'[i] = old[i]
  <2>1. sessions \in Seq(Session) /\ Len(sessions) \in Nat /\ DOMAIN sessions = 1 .. Len(sessions)
    BY DEF IInv, TypeOK
  <2>2. QED
    BY <2>1, AppendProperties
<1>2. \A i \in DOMAIN sessions' : i = n \/ (i \in DOMAIN sessions /\ i < n)
  BY <1>1
<1>3. \A i \in DOMAIN sessions :
        /\ Good(i)' => Good(i) /\ sessions'[i].chain # row.chain
        /\ sessions'[i].chain = sessions[i].chain
        /\ sessions'[i].user = sessions[i].user /\ sessions'[i].kind = sessions[i].kind
        /\ sessions'[i].late = sessions[i].late
        /\ sessions'[i].left = sessions[i].left /\ sessions'[i].exp = sessions[i].exp
        /\ sessions'[i].held = sessions[i].held
  BY <1>1 DEF Later, Good
<1>4. /\ login' \in [Worker -> Login]
      /\ \A w \in Worker : Minting(w)' =>
           \/ Minting(w) /\ login'[w] = login[w] /\ login'[w].session \in DOMAIN sessions
           \/ /\ login'[w] = [ step |-> "mint", session |-> n ]
              /\ ~ row.held /\ row.left = Life(row.kind)
              /\ \A v \in Worker \ {w} : login'[v] = login[v]
  <2>1. /\ login \in [Worker -> Login] /\ n \in 1 .. MaxSessions
        /\ \A w \in Worker : Minting(w) => login[w].session \in DOMAIN sessions
    BY <1>1, LivesAssumption DEF IInv, TypeOK, Minting
  <2>2. CASE login' = login
    BY <2>1, <2>2 DEF Minting
  <2>3. CASE /\ \E w \in Worker :
                  login' = [login EXCEPT ![w] = [ step |-> "mint", session |-> n ]]
             /\ ~ row.held /\ row.left = Life(row.kind)
    <3>1. PICK w \in Worker :
            login' = [login EXCEPT ![w] = [ step |-> "mint", session |-> n ]]
      BY <2>3
    <3>2. [ step |-> "mint", session |-> n ] \in Login
      BY <2>1 DEF Login
    <3>3. login' \in [Worker -> Login]
      BY <2>1, <3>1, <3>2
    <3>4. /\ login'[w] = [ step |-> "mint", session |-> n ]
          /\ \A v \in Worker \ {w} : login'[v] = login[v]
      BY <2>1, <3>1
    <3>5. QED
      BY <2>1, <2>3, <3>3, <3>4 DEF Minting
  <2>4. QED
    BY <2>2, <2>3
<1>5. TypeOK'
  <2>1. n \in DOMAIN sessions' /\ DOMAIN sessions \subseteq DOMAIN sessions' /\ n <= MaxSessions
    BY <1>1, LivesAssumption
  <2>2. \A w \in Worker : Minting(w)' => login'[w].session \in DOMAIN sessions'
    BY <1>4, <2>1
  <2>3. QED
    BY <1>1, <1>4, <2>1, <2>2 DEF IInv, TypeOK, userVars, Minting
<1>6. OneGoodRow'
  BY <1>1, <1>2, <1>3 DEF IInv, OneGoodRow, Good
<1>7. ChainsBeginEarlier'
  BY <1>1, <1>2, <1>3 DEF IInv, ChainsBeginEarlier
<1>8. GoodRowsLate'
  BY <1>1, <1>2, <1>3 DEF IInv, GoodRowsLate, Good, userVars
<1>9. ExpireTogether'
  BY <1>1, <1>2, <1>3 DEF IInv, ExpireTogether, Good
<1>10. MintOnce'
  <2>1. ASSUME NEW w \in Worker, Minting(w)'
        PROVE  LET t == sessions'[login'[w].session]
               IN  ~ t.held /\ (t.row = "good" => t.left = Life(t.kind))
    <3>1. CASE Minting(w) /\ login'[w] = login[w] /\ login'[w].session \in DOMAIN sessions
      <4>1. LET s == sessions[login[w].session]
            IN  ~ s.held /\ (s.row = "good" => s.left = Life(s.kind))
        BY <3>1 DEF IInv, MintOnce
      <4>2. QED
        BY <1>3, <3>1, <4>1 DEF Good
    <3>2. CASE /\ login'[w] = [ step |-> "mint", session |-> n ]
               /\ ~ row.held /\ row.left = Life(row.kind)
      BY <1>1, <3>2
    <3>3. QED
      BY <1>4, <2>1, <3>1, <3>2
  <2>2. ASSUME NEW v \in Worker, NEW w \in Worker, Minting(v)', Minting(w)',
               login'[v].session = login'[w].session
        PROVE  v = w
    <3>1. n \notin DOMAIN sessions
      BY <1>1
    <3>2. \A u \in Worker : Minting(u) /\ login'[u] = login[u]
                              => login'[u].session = login[u].session
      OBVIOUS
    <3>3. CASE login'[v].session \in DOMAIN sessions
      <4>1. Minting(v) /\ Minting(w) /\ login[v].session = login[w].session
        BY <1>4, <2>2, <3>1, <3>3
      <4>2. QED
        BY <4>1 DEF IInv, MintOnce
    <3>4. CASE login'[v].session \notin DOMAIN sessions
      <4>1. /\ login'[v].session = n
            /\ \A u \in Worker \ {v} : login'[u] = login[u]
        BY <1>4, <2>2, <3>4
      <4>2. ASSUME w # v PROVE FALSE
        <5>1. login'[w] = login[w]
          BY <4>1, <4>2
        <5>2. Minting(w)
          BY <2>2, <5>1 DEF Minting
        <5>3. login[w].session \in DOMAIN sessions
          BY <5>2 DEF IInv, TypeOK, Minting
        <5>4. QED
          BY <2>2, <3>1, <4>1, <5>1, <5>3
      <4>3. QED
        BY <4>2
    <3>5. QED
      BY <3>3, <3>4
  <2>3. QED
    BY <2>1, <2>2 DEF MintOnce
<1>11. QED
  BY <1>5, <1>6, <1>7, <1>8, <1>9, <1>10 DEF IInv

-----------------------------------------------------------------------------
(* The steps.                                                              *)

LEMMA SameSessions ==
  ASSUME IInv, sessions' = sessions,
         active' \subseteq User, admin' \subseteq User, out' \subseteq out,
         login' \in [Worker -> Login],
         \A w \in Worker : Minting(w)' => login'[w] = login[w]
  PROVE  IInv'
<1>1. \A w \in Worker : Minting(w)' => Minting(w)
  BY DEF Minting
<1>2. TypeOK'
  BY <1>1 DEF IInv, TypeOK, Minting
<1>3. MintOnce'
  BY <1>1 DEF IInv, MintOnce
<1>4. OneGoodRow' /\ ChainsBeginEarlier' /\ GoodRowsLate' /\ ExpireTogether'
  BY DEF IInv, OneGoodRow, ChainsBeginEarlier, GoodRowsLate, ExpireTogether, Good
<1>5. QED
  BY <1>2, <1>3, <1>4 DEF IInv

LEMMA LoginCheckOK ==
  ASSUME IInv, NEW w \in Worker, NEW u \in User, NEW k \in Kind, LoginCheck(w, u, k)
  PROVE  IInv'
<1>1. [ step |-> "hash", user |-> u, kind |-> k ] \in Login
  BY DEF Login
<1>2. login' \in [Worker -> Login]
  BY <1>1 DEF LoginCheck, IInv, TypeOK
<1>3. \A v \in Worker : Minting(v)' => login'[v] = login[v]
  BY DEF LoginCheck, IInv, TypeOK, Minting
<1>4. QED
  BY <1>2, <1>3, SameSessions DEF LoginCheck, userVars, IInv, TypeOK

LEMMA LoginFailsOK ==
  ASSUME IInv, NEW w \in Worker, LoginFails(w)
  PROVE  IInv'
<1>1. login' \in [Worker -> Login]
  BY DEF LoginFails, IInv, TypeOK, Login
<1>2. \A v \in Worker : Minting(v)' => login'[v] = login[v]
  BY DEF LoginFails, IInv, TypeOK, Minting, Idle
<1>3. QED
  BY <1>1, <1>2, SameSessions DEF LoginFails, userVars, IInv, TypeOK

LEMMA UpdateUserOK ==
  ASSUME IInv, NEW u \in User, UpdateUser(u)
  PROVE  IInv'
<1>1. active' \subseteq User /\ admin' \subseteq User /\ out' \subseteq out
  BY DEF UpdateUser, IInv, TypeOK
<1>2. QED
  BY <1>1, SameSessions DEF UpdateUser, IInv, TypeOK

LEMMA LoginInsertOK ==
  ASSUME IInv, NEW w \in Worker, LoginInsert(w)
  PROVE  IInv'
<1> DEFINE n == Len(sessions) + 1
           row == NewRow(login[w].user, login[w].kind, n, login[w].user \in out)
<1>1. /\ login[w].step = "hash" /\ n <= MaxSessions /\ sessions' = Append(sessions, row)
      /\ login' = [login EXCEPT ![w] = [ step |-> "mint", session |-> n ]]
      /\ UNCHANGED userVars
  BY DEF LoginInsert
<1>2. login[w].user \in User /\ login[w].kind \in Kind
  BY <1>1 DEF IInv, TypeOK, Login, Idle
<1>3. sessions \in Seq(Session) /\ Len(sessions) \in Nat /\ DOMAIN sessions = 1 .. Len(sessions)
  BY DEF IInv, TypeOK
<1>4. n \in 1 .. MaxSessions
  BY <1>1, <1>3, LivesAssumption
<1>5. row \in Session
  <2>1. (login[w].user \in out) \in BOOLEAN
    OBVIOUS
  <2>2. QED
    BY <1>2, <1>4, <2>1, NewRowType
<1>6. /\ row.chain = n /\ row.user = login[w].user /\ row.late = (login[w].user \in out)
      /\ ~ row.held /\ row.left = Life(row.kind)
  BY DEF NewRow
<1>7. \A i \in DOMAIN sessions :
        Later(sessions[i], sessions[i]) /\ sessions[i].chain # row.chain
  <2>1. \A i \in DOMAIN sessions : sessions[i] \in Session
    BY <1>3, ElementOfSeq
  <2>2. \A i \in DOMAIN sessions : sessions[i].chain <= i /\ i < n
    BY <1>3 DEF IInv, ChainsBeginEarlier
  <2>3. \A i \in DOMAIN sessions : sessions[i].chain \in 1 .. MaxSessions
    BY <2>1 DEF Session
  <2>4. QED
    BY <1>3, <1>6, <2>1, <2>2, <2>3, LivesAssumption DEF Later
<1>8. QED
  <2>1. Len(sessions) < MaxSessions
    BY <1>1, <1>3, LivesAssumption
  <2>2. row.chain <= Len(sessions) + 1
    BY <1>3, <1>6
  <2>3. QED
    BY <1>1, <1>3, <1>5, <1>6, <1>7, <2>1, <2>2, AppendingKeeps

\* The steps of a refresh that insert a row: row is what is inserted.
LEMMA RefreshInserts ==
  ASSUME IInv, NEW i \in DOMAIN sessions, Refreshable(sessions[i]),
         Len(sessions) < MaxSessions, UNCHANGED <<userVars, login>>,
         NEW row, row \in {Successor(sessions[i]), Minted(Successor(sessions[i]))},
         sessions' = Append(Revoked({i}), row)
  PROVE  IInv'
<1>1. /\ sessions \in Seq(Session) /\ Len(sessions) \in Nat /\ DOMAIN sessions = 1 .. Len(sessions)
      /\ sessions[i] \in Session /\ Good(i)
  <2>1. sessions \in Seq(Session) /\ Len(sessions) \in Nat /\ DOMAIN sessions = 1 .. Len(sessions)
    BY DEF IInv, TypeOK
  <2>2. QED
    BY <2>1, ElementOfSeq DEF Refreshable, Valid, Good
<1>2. /\ row \in Session /\ row.chain = sessions[i].chain /\ row.user = sessions[i].user
      /\ row.late = sessions[i].late /\ (row.held => row.left = row.exp)
  <2>1. /\ sessions[i].user \in User /\ sessions[i].kind \in Kind
        /\ sessions[i].chain \in 1 .. MaxSessions /\ sessions[i].late \in BOOLEAN
    BY <1>1 DEF Session
  <2>2. row \in Session
    BY <2>1, NewRowType DEF Successor
  <2>3. CASE row = Successor(sessions[i])
    BY <2>2, <2>3 DEF Successor, NewRow
  <2>4. CASE row = Minted(Successor(sessions[i]))
    BY <2>1, <2>2, <2>4, NewRowType DEF Successor
  <2>5. QED
    BY <2>3, <2>4
<1>3. /\ Revoked({i}) \in Seq(Session) /\ Len(Revoked({i})) = Len(sessions)
      /\ \A j \in DOMAIN sessions :
           LET t == Revoked({i})[j]
           IN  /\ Later(sessions[j], t)
               /\ t.left = sessions[j].left /\ t.exp = sessions[j].exp
               /\ t.held = sessions[j].held
               /\ t.row = "good" => j # i
  BY RevokedType DEF IInv
<1>4. \A j \in DOMAIN sessions :
        Revoked({i})[j].row = "good" => Revoked({i})[j].chain # row.chain
  <2>1. SUFFICES ASSUME NEW j \in DOMAIN sessions, Revoked({i})[j].row = "good",
                        Revoked({i})[j].chain = row.chain
                 PROVE  FALSE
    OBVIOUS
  <2>2. Good(j) /\ j # i /\ sessions[j].chain = sessions[i].chain
    BY <1>2, <1>3, <2>1 DEF Later, Good
  <2>3. QED
    BY <1>1, <2>2 DEF IInv, OneGoodRow
<1>5. row.chain <= Len(sessions) + 1
  <2>1. sessions[i].chain <= i /\ sessions[i].chain \in Nat
    BY <1>1, LivesAssumption DEF IInv, ChainsBeginEarlier, Session
  <2>2. QED
    BY <1>1, <1>2, <2>1
<1>6. row.user \in out => row.late
  BY <1>1, <1>2 DEF IInv, GoodRowsLate
<1>7. QED
  BY <1>2, <1>3, <1>4, <1>5, <1>6, AppendingKeeps

LEMMA LogoutOK ==
  ASSUME IInv, NEW i \in DOMAIN sessions, Logout(i)
  PROVE  IInv'
<1>1. /\ sessions' = Revoked({i}) /\ login' = login
      /\ active' \subseteq User /\ admin' \subseteq User /\ out' \subseteq User
      /\ out' = out
  BY DEF Logout, userVars, IInv, TypeOK
<1>2. QED
  BY <1>1, RevokingKeeps

LEMMA RefreshOK ==
  ASSUME IInv, NEW i \in DOMAIN sessions, Refresh(i) \/ RefreshBreaks(i)
  PROVE  IInv'
<1>1. Refreshable(sessions[i]) /\ UNCHANGED <<userVars, login>>
  BY DEF Refresh, RefreshBreaks
<1>2. CASE sessions' = Revoked({i})
  BY <1>1, <1>2, RevokingKeeps DEF userVars, IInv, TypeOK
<1>3. CASE /\ Len(sessions) < MaxSessions
           /\ \/ sessions' = Append(Revoked({i}), Successor(sessions[i]))
              \/ sessions' = Append(Revoked({i}), Minted(Successor(sessions[i])))
  BY <1>1, <1>3, RefreshInserts
<1>4. QED
  BY <1>2, <1>3 DEF Refresh, RefreshBreaks

LEMMA DeactivateOK ==
  ASSUME IInv, NEW u \in User, Deactivate(u)
  PROVE  IInv'
<1>1. /\ active' \subseteq User /\ admin' \subseteq User /\ out' = out \cup {u}
      /\ out' \subseteq User /\ login' = login /\ sessions' = Revoked(Of(u))
  BY DEF Deactivate, IInv, TypeOK
<1>2. \A i \in DOMAIN sessions :
        sessions[i].user \in out' => sessions[i].user \in out \/ i \in Of(u)
  BY <1>1 DEF Of
<1>3. QED
  BY <1>1, <1>2, RevokingKeeps

\* A session that has been given its token.
LEMMA LoginMintOK ==
  ASSUME IInv, NEW w \in Worker, LoginMint(w)
  PROVE  IInv'
<1> DEFINE k == login[w].session
<1>1. /\ Minting(w) /\ sessions' = [sessions EXCEPT ![k] = Minted(sessions[k])]
      /\ login' = [login EXCEPT ![w] = Idle] /\ UNCHANGED userVars
  BY DEF LoginMint, Minting
<1>2. /\ sessions \in Seq(Session) /\ DOMAIN sessions = 1 .. Len(sessions)
      /\ k \in DOMAIN sessions /\ sessions[k] \in Session
  <2>1. sessions \in Seq(Session) /\ DOMAIN sessions = 1 .. Len(sessions) /\ k \in DOMAIN sessions
    BY <1>1 DEF IInv, TypeOK, Minting
  <2>2. QED
    BY <2>1, ElementOfSeq
<1>3. /\ Minted(sessions[k]) \in Session /\ Later(sessions[k], Minted(sessions[k]))
      /\ Minted(sessions[k]).left = sessions[k].left
      /\ Minted(sessions[k]).exp = Life(sessions[k].kind)
      /\ Minted(sessions[k]).row = sessions[k].row
  <2>1. Life(sessions[k].kind) \in Time
    BY <1>2, LifeType DEF Session
  <2>2. QED
    BY <1>2, <2>1 DEF Minted, Session, Later
<1>4. /\ sessions' \in Seq(Session) /\ Len(sessions') = Len(sessions)
      /\ DOMAIN sessions' = DOMAIN sessions
      /\ sessions'[k] = Minted(sessions[k])
      /\ \A i \in DOMAIN sessions : i # k => sessions'[i] = sessions[i]
  BY <1>1, <1>2, <1>3, ExceptSeq
<1>5. \A i \in DOMAIN sessions : Later(sessions[i], sessions'[i])
  <2>1. \A i \in DOMAIN sessions : sessions[i] \in Session
    BY <1>2, ElementOfSeq
  <2>2. QED
    BY <1>3, <1>4, <2>1 DEF Later
<1>6. /\ login' \in [Worker -> Login]
      /\ \A v \in Worker : Minting(v)' => v # w /\ Minting(v) /\ login'[v] = login[v]
  BY <1>1 DEF IInv, TypeOK, Login, Minting, Idle
<1>7. TypeOK' /\ OneGoodRow' /\ ChainsBeginEarlier' /\ GoodRowsLate'
  <2>1. AllLater
    BY <1>4, <1>5 DEF AllLater
  <2>2. active' \subseteq User /\ admin' \subseteq User /\ out' \subseteq User /\ out' = out
    BY <1>1 DEF userVars, IInv, TypeOK
  <2>3. \A i \in DOMAIN sessions : sessions'[i].user = sessions[i].user
    BY <1>5 DEF Later
  <2>4. QED
    BY <1>6, <2>1, <2>2, <2>3, LaterKeeps
<1>8. sessions[k].row = "good" => sessions[k].left = Life(sessions[k].kind)
  BY <1>1 DEF IInv, MintOnce
<1>9. ExpireTogether'
  BY <1>3, <1>4, <1>8 DEF IInv, ExpireTogether, Good
<1>10. MintOnce'
  <2>1. ASSUME NEW v \in Worker, Minting(v)'
        PROVE  sessions'[login'[v].session] = sessions[login[v].session]
    <3>1. v # w /\ Minting(v) /\ login'[v] = login[v]
      BY <1>6, <2>1
    <3>2. login[v].session \in DOMAIN sessions /\ login[v].session # k
      BY <1>1, <3>1 DEF IInv, TypeOK, MintOnce, Minting
    <3>3. QED
      BY <1>4, <3>1, <3>2
  <2>2. QED
    BY <1>6, <2>1 DEF IInv, MintOnce
<1>11. QED
  BY <1>7, <1>9, <1>10 DEF IInv

LEMMA CleanupOK ==
  ASSUME IInv, Cleanup
  PROVE  IInv' /\ \A i \in DOMAIN sessions : Valid(sessions[i]) => sessions'[i] = sessions[i]
<1> DEFINE cleaned(s) == IF Expired(s) \/ s.row = "revoked"
                         THEN [ s EXCEPT !.row = "absent", !.left = 0 ] ELSE s
<1>1. /\ sessions \in Seq(Session) /\ Len(sessions) \in Nat
      /\ DOMAIN sessions = 1 .. Len(sessions)
      /\ \A i \in DOMAIN sessions : sessions[i] \in Session
  <2>1. sessions \in Seq(Session) /\ Len(sessions) \in Nat /\ DOMAIN sessions = 1 .. Len(sessions)
    BY DEF IInv, TypeOK
  <2>2. QED
    BY <2>1, ElementOfSeq
<1>2. sessions' = [ i \in DOMAIN sessions |-> cleaned(sessions[i]) ] /\ UNCHANGED <<userVars, login>>
  BY DEF Cleanup
<1>3. ASSUME NEW i \in DOMAIN sessions
      PROVE  LET t == sessions'[i]
             IN  /\ Later(sessions[i], t) /\ t.held = sessions[i].held
                 /\ t.row = "good" => t = sessions[i] /\ sessions[i].left > 0
                 /\ sessions[i].row = "good" /\ sessions[i].left > 0 => t = sessions[i]
  <2>1. sessions'[i] = cleaned(sessions[i]) /\ sessions[i] \in Session
    BY <1>1, <1>2
  <2>2. 0 \in Time /\ Time \subseteq Nat
    BY LivesAssumption DEF Time
  <2>3. CASE Expired(sessions[i]) \/ sessions[i].row = "revoked"
    <3>1. sessions'[i] = [ sessions[i] EXCEPT !.row = "absent", !.left = 0 ]
      BY <2>1, <2>3
    <3>2. /\ sessions'[i].row = "absent" /\ sessions'[i].held = sessions[i].held
          /\ Later(sessions[i], sessions'[i])
      BY <2>1, <2>2, <3>1 DEF Later, Session
    <3>3. ~ (sessions[i].row = "good" /\ sessions[i].left > 0)
      BY <2>3 DEF Expired
    <3>4. QED
      BY <3>2, <3>3
  <2>4. CASE ~ (Expired(sessions[i]) \/ sessions[i].row = "revoked")
    <3>1. sessions'[i] = sessions[i] /\ sessions[i].left # 0 /\ sessions[i].left \in Time
      BY <2>1, <2>4 DEF Expired, Session
    <3>2. QED
      BY <2>1, <2>2, <3>1 DEF Later
  <2>5. QED
    BY <2>3, <2>4
<1>4. AllLater /\ DOMAIN sessions' = DOMAIN sessions
  <2>1. sessions' \in [1 .. Len(sessions) -> Session]
    BY <1>1, <1>2, <1>3 DEF Later
  <2>2. sessions' \in Seq(Session) /\ Len(sessions') = Len(sessions)
    BY <1>1, <2>1, SeqDef, LenProperties
  <2>3. QED
    BY <1>2, <1>3, <2>2 DEF AllLater
<1>5. TypeOK' /\ OneGoodRow' /\ ChainsBeginEarlier' /\ GoodRowsLate'
  <2>1. /\ active' \subseteq User /\ admin' \subseteq User /\ out' \subseteq User /\ out' = out
        /\ login' \in [Worker -> Login] /\ login' = login
    BY <1>2 DEF userVars, IInv, TypeOK
  <2>2. /\ \A w \in Worker : Minting(w)' => Minting(w) /\ login'[w] = login[w]
        /\ \A i \in DOMAIN sessions : sessions'[i].user = sessions[i].user
    BY <1>3, <2>1 DEF Minting, Later
  <2>3. QED
    BY <1>4, <2>1, <2>2, LaterKeeps
<1>6. ExpireTogether'
  BY <1>3, <1>4 DEF IInv, ExpireTogether, Good
<1>7. MintOnce'
  <2>1. ASSUME NEW w \in Worker, Minting(w)
        PROVE  LET t == sessions'[login[w].session]
               IN  ~ t.held /\ (t.row = "good" => t.left = Life(t.kind))
    <3>1. login[w].session \in DOMAIN sessions
      BY <2>1 DEF IInv, TypeOK, Minting
    <3>2. LET s == sessions[login[w].session]
          IN  ~ s.held /\ (s.row = "good" => s.left = Life(s.kind))
      BY <2>1 DEF IInv, MintOnce
    <3>3. QED
      BY <1>3, <3>1, <3>2
  <2>2. QED
    BY <1>2, <2>1 DEF IInv, MintOnce, Minting
<1>8. \A i \in DOMAIN sessions : Valid(sessions[i]) => sessions'[i] = sessions[i]
  BY <1>3 DEF IInv, ExpireTogether, Good, Valid
<1>9. QED
  BY <1>5, <1>6, <1>7, <1>8 DEF IInv

LEMMA TickOK ==
  ASSUME IInv, Tick
  PROVE  IInv' /\ \A i \in DOMAIN sessions : Valid(sessions'[i]) => Valid(sessions[i])
<1>1. /\ sessions \in Seq(Session) /\ Len(sessions) \in Nat
      /\ DOMAIN sessions = 1 .. Len(sessions)
      /\ \A i \in DOMAIN sessions : sessions[i] \in Session
  <2>1. sessions \in Seq(Session) /\ Len(sessions) \in Nat /\ DOMAIN sessions = 1 .. Len(sessions)
    BY DEF IInv, TypeOK
  <2>2. QED
    BY <2>1, ElementOfSeq
<1>2. /\ sessions' = [ i \in DOMAIN sessions |->
                         [ sessions[i] EXCEPT !.left = Older(sessions[i].left),
                                              !.exp = Older(sessions[i].exp) ] ]
      /\ UNCHANGED <<userVars, login>> /\ \A w \in Worker : ~ Minting(w)
  BY DEF Tick, Minting
<1>3. \A t \in Time : Older(t) \in Time /\ (Older(t) > 0 => t > 0)
  BY LivesAssumption DEF Time, Older
<1>4. ASSUME NEW i \in DOMAIN sessions
      PROVE  LET t == sessions'[i]
             IN  /\ Later(sessions[i], t) /\ t.held = sessions[i].held
                 /\ t.row = sessions[i].row
                 /\ t.left = Older(sessions[i].left) /\ t.exp = Older(sessions[i].exp)
  <2>1. /\ sessions'[i] = [ sessions[i] EXCEPT !.left = Older(sessions[i].left),
                                               !.exp = Older(sessions[i].exp) ]
        /\ sessions[i] \in Session
    BY <1>1, <1>2
  <2>2. Older(sessions[i].left) \in Time /\ Older(sessions[i].exp) \in Time
    BY <1>3, <2>1 DEF Session
  <2>3. QED
    BY <2>1, <2>2 DEF Later, Session
<1>5. AllLater /\ DOMAIN sessions' = DOMAIN sessions
  <2>1. sessions' \in [1 .. Len(sessions) -> Session]
    BY <1>1, <1>2, <1>4 DEF Later
  <2>2. sessions' \in Seq(Session) /\ Len(sessions') = Len(sessions)
    BY <1>1, <2>1, SeqDef, LenProperties
  <2>3. QED
    BY <1>2, <1>4, <2>2 DEF AllLater
<1>6. TypeOK' /\ OneGoodRow' /\ ChainsBeginEarlier' /\ GoodRowsLate'
  <2>1. /\ active' \subseteq User /\ admin' \subseteq User /\ out' \subseteq User /\ out' = out
        /\ login' \in [Worker -> Login] /\ login' = login
    BY <1>2 DEF userVars, IInv, TypeOK
  <2>2. /\ \A w \in Worker : Minting(w)' => Minting(w) /\ login'[w] = login[w]
        /\ \A i \in DOMAIN sessions : sessions'[i].user = sessions[i].user
    BY <1>4, <2>1 DEF Minting, Later
  <2>3. QED
    BY <1>5, <2>1, <2>2, LaterKeeps
<1>7. ExpireTogether'
  BY <1>4, <1>5 DEF IInv, ExpireTogether, Good
<1>8. MintOnce'
  BY <1>2 DEF MintOnce, Minting
<1>9. \A i \in DOMAIN sessions : Valid(sessions'[i]) => Valid(sessions[i])
  BY <1>1, <1>3, <1>4 DEF Valid, Session
<1>10. QED
  BY <1>6, <1>7, <1>8, <1>9 DEF IInv

LEMMA StepOK == ASSUME IInv, [Next]_vars PROVE IInv'
<1>1. ASSUME NEW w \in Worker,
             (\E u \in User, k \in Kind : LoginCheck(w, u, k))
               \/ LoginInsert(w) \/ LoginMint(w) \/ LoginFails(w)
      PROVE  IInv'
  BY <1>1, LoginCheckOK, LoginInsertOK, LoginMintOK, LoginFailsOK
<1>2. ASSUME NEW i \in DOMAIN sessions, Logout(i) \/ Refresh(i) \/ RefreshBreaks(i)
      PROVE  IInv'
  BY <1>2, LogoutOK, RefreshOK
<1>3. ASSUME NEW u \in User, Deactivate(u) \/ UpdateUser(u)
      PROVE  IInv'
  BY <1>3, DeactivateOK, UpdateUserOK
<1>4. CASE Cleanup \/ Tick
  BY <1>4, CleanupOK, TickOK
<1>5. CASE UNCHANGED vars
  <2>1. \A w \in Worker : Minting(w)' => login'[w] = login[w]
    BY <1>5 DEF vars
  <2>2. QED
    BY <1>5, <2>1, SameSessions DEF vars, IInv, TypeOK
<1>6. QED
  BY <1>1, <1>2, <1>3, <1>4, <1>5 DEF Next

LEMMA Invariance == Spec => []IInv
  BY InitOK, StepOK, PTL DEF Spec

-----------------------------------------------------------------------------
(* The theorems.                                                           *)

\* Sessions, rows and logins keep their types: no expiry is beyond the longest
\* life, and a login that is about to mint has its session.
THEOREM TypeCorrect == Spec => []TypeOK
<1>1. IInv => TypeOK
  BY DEF IInv
<1>2. QED
  BY <1>1, Invariance, PTL

\* Of the tokens that descend from one login one at most is accepted, wherever
\* refreshes were interrupted (refresh_token).
THEOREM OneTokenEach == Spec => []OneTokenPerLogin
<1>1. IInv => OneTokenPerLogin
  BY DEF IInv, OneGoodRow, OneTokenPerLogin, Valid, Good
<1>2. QED
  BY <1>1, Invariance, PTL

\* A user deactivated by DELETE has no accepted token but those of logins that
\* had read the user before (delete_user, authenticate).
THEOREM DeactivatedOut == Spec => []DeactivatedAreOut
<1>1. IInv => DeactivatedAreOut
  BY DEF IInv, GoodRowsLate, DeactivatedAreOut, Valid, Good
<1>2. QED
  BY <1>1, Invariance, PTL

\* The cleanup removes no row of a token that is accepted
\* (cleanup_expired_sessions).
THEOREM CleanupLogsNobodyOut == Spec => CleanupKeepsValid
<1>1. ASSUME IInv, Cleanup
      PROVE  \A i \in DOMAIN sessions : Valid(sessions[i]) => Valid(sessions'[i])
  BY <1>1, CleanupOK
<1>2. IInv /\ [Next]_vars
        => [Cleanup => \A i \in DOMAIN sessions :
                         Valid(sessions[i]) => Valid(sessions'[i])]_vars
  BY <1>1
<1>3. QED
  BY <1>2, Invariance, PTL DEF Spec, CleanupKeepsValid

\* No step makes a token that a client holds and that is rejected acceptable
\* again (verify_token).
LEMMA RejectedStays ==
  ASSUME IInv, [Next]_vars
  PROVE  \A i \in DOMAIN sessions :
           sessions[i].held /\ ~ Valid(sessions[i]) => ~ Valid(sessions'[i])
<1>1. /\ sessions \in Seq(Session) /\ Len(sessions) \in Nat
      /\ DOMAIN sessions = 1 .. Len(sessions)
  BY DEF IInv, TypeOK
<1>2. ASSUME sessions' = sessions
      PROVE  \A i \in DOMAIN sessions : Valid(sessions'[i]) => Valid(sessions[i])
  BY <1>2
<1>3. ASSUME NEW ss
      PROVE  \A i \in DOMAIN sessions : Valid(Revoked(ss)[i]) => Valid(sessions[i])
  BY RevokedType DEF IInv, Valid, Later
<1>4. ASSUME NEW w \in Worker, LoginInsert(w)
      PROVE  \A i \in DOMAIN sessions : sessions'[i] = sessions[i]
  BY <1>1, <1>4, AppendProperties DEF LoginInsert
<1>5. ASSUME NEW i \in DOMAIN sessions, Refresh(i) \/ RefreshBreaks(i)
      PROVE  \A j \in DOMAIN sessions : Valid(sessions'[j]) => Valid(sessions[j])
  <2>1. /\ Revoked({i}) \in Seq(Session) /\ Len(Revoked({i})) = Len(sessions)
        /\ DOMAIN Revoked({i}) = DOMAIN sessions
    BY RevokedType DEF IInv
  <2>2. \/ sessions' = Revoked({i})
        \/ \E row : sessions' = Append(Revoked({i}), row)
    BY <1>5 DEF Refresh, RefreshBreaks
  <2>3. \A j \in DOMAIN sessions : sessions'[j] = Revoked({i})[j]
    <3>1. CASE \E row : sessions' = Append(Revoked({i}), row)
      <4>1. PICK row : sessions' = Append(Revoked({i}), row)
        BY <3>1
      <4>2. QED
        BY <1>1, <2>1, <4>1
    <3>2. QED
      BY <2>2, <3>1
  <2>4. QED
    BY <1>3, <2>3
<1>6. ASSUME NEW w \in Worker, LoginMint(w)
      PROVE  \A i \in DOMAIN sessions :
               sessions[i].held => sessions'[i] = sessions[i]
  <2>1. /\ Minting(w)
        /\ \A i \in DOMAIN sessions : i # login[w].session => sessions'[i] = sessions[i]
    BY <1>6 DEF LoginMint, Minting
  <2>2. ~ sessions[login[w].session].held
    BY <2>1 DEF IInv, MintOnce
  <2>3. QED
    BY <2>1, <2>2
<1>7. CASE Cleanup
  <2>1. \A i \in DOMAIN sessions :
          sessions'[i] = sessions[i] \/ sessions'[i] = [ sessions[i] EXCEPT !.row = "absent", !.left = 0 ]
    BY <1>7 DEF Cleanup
  <2>2. \A i \in DOMAIN sessions : sessions[i] \in Session
    BY <1>1, ElementOfSeq
  <2>3. ASSUME NEW i \in DOMAIN sessions,
               sessions'[i] = [ sessions[i] EXCEPT !.row = "absent", !.left = 0 ]
        PROVE  sessions'[i].row = "absent"
    BY <2>2, <2>3 DEF Session
  <2>4. \A i \in DOMAIN sessions : Valid(sessions'[i]) => Valid(sessions[i])
    BY <2>1, <2>3 DEF Valid
  <2>5. QED
    BY <2>4
<1>8. CASE Tick
  BY <1>8, TickOK
<1>9. CASE \E i \in DOMAIN sessions : Logout(i)
  BY <1>3, <1>9 DEF Logout
<1>10. CASE \E u \in User : Deactivate(u)
  BY <1>3, <1>10 DEF Deactivate
<1>11. CASE \/ \E u \in User : UpdateUser(u)
            \/ \E w \in Worker : \/ \E u \in User, k \in Kind : LoginCheck(w, u, k)
                                 \/ LoginFails(w)
            \/ UNCHANGED vars
  <2>1. sessions' = sessions
    BY <1>11 DEF UpdateUser, LoginCheck, LoginFails, vars
  <2>2. QED
    BY <1>2, <2>1
<1>12. QED
  BY <1>4, <1>5, <1>6, <1>7, <1>8, <1>9, <1>10, <1>11 DEF Next

\* A token that was rejected is rejected for ever: neither the cleanup nor a
\* new activation of the user revives it (verify_token).
THEOREM RejectedForGood == Spec => NeverValidAgain
<1>1. IInv /\ [Next]_vars
        => [\A i \in DOMAIN sessions :
              sessions[i].held /\ ~ Valid(sessions[i]) => ~ Valid(sessions'[i])]_vars
  BY RejectedStays
<1>2. QED
  BY <1>1, Invariance, PTL DEF Spec, NeverValidAgain
=============================================================================
