---------------------------- MODULE AuthSessions ----------------------------
(***************************************************************************)
(* Sessions and tokens (backend/app/services/auth_service.py).             *)
(*                                                                         *)
(* A login runs in a thread of the pool, because hashing takes long: it    *)
(* looks the user up, verifies the password, inserts a session row and     *)
(* mints the token.  All other handlers run on the event loop and do not   *)
(* await, so each is one step; but a refresh commits twice, and the        *)
(* process may die between its commits.                                    *)
(*                                                                         *)
(* A session and its token are one record: they have the same jti.  Row    *)
(* and token expire separately; an expiry is the time left, 0 when it has  *)
(* passed.  The JWT secret is taken to last (see ConfigService).           *)
(***************************************************************************)
EXTENDS Naturals, Sequences, FiniteSets

CONSTANTS
  User,          \* users that have been created
  Worker,        \* threads of the pool
  BrowserLife,   \* _BROWSER_TOKEN_HOURS, 24
  HandheldLife,  \* _HANDHELD_TOKEN_DAYS, 7 days
  RefreshWindow, \* _REFRESH_WINDOW_HOURS, 4
  MaxSessions    \* bound on the sessions of a behaviour

ASSUME LivesAssumption ==
  /\ BrowserLife \in Nat \ {0}
  /\ HandheldLife \in Nat \ {0}
  /\ RefreshWindow \in Nat
  /\ MaxSessions \in Nat

Kind == {"browser", "handheld"}
Time == 0 .. (IF BrowserLife > HandheldLife THEN BrowserLife ELSE HandheldLife)

VARIABLES
  active,   \* SUBSET User: users.active
  admin,    \* SUBSET User: users.role = 'admin'
  sessions, \* sequence of Session: all sessions inserted so far
  login,    \* [Worker -> Login]: the login a thread is busy with
  out       \* history: users deactivated by DELETE and not active since

userVars == <<active, admin, out>>
vars == <<active, admin, sessions, login, out>>

Session ==
  [ row : {"absent", "good", "revoked"}, \* no row; sessions.revoked
    left : Time,                         \* sessions.expires_at
    user : User,                         \* sessions.user_id and the token's sub
    kind : Kind,                         \* the token's handheld
    held : BOOLEAN,                      \* a client has the token
    exp : Time,                          \* the token's exp
    chain : 1 .. MaxSessions,            \* history: the login it descends from
    late : BOOLEAN ]                     \* history: that login had read the
                                         \* user before a DELETE of it

Idle == [ step |-> "idle" ]
Login ==
  {Idle} \cup [ step : {"hash"}, user : User, kind : Kind ]
         \cup [ step : {"mint"}, session : 1 .. MaxSessions ]

-----------------------------------------------------------------------------
(* verify_token.                                                           *)

\* Mutant: a session without a row counts as not revoked.
ValidWithoutRow(s) == s.held /\ s.exp > 0 /\ s.row # "revoked"

\* The token is not expired, its session has a row and is not revoked.  A row
\* that the cleanup removes takes the mark of revocation with it.
Valid(s) == s.held /\ s.exp > 0 /\ s.row = "good"

-----------------------------------------------------------------------------
(* Sessions.                                                               *)

\* Mutant: the browser's hours are added to the handheld's days.
LifeAdds(k) == BrowserLife + (IF k = "handheld" THEN HandheldLife ELSE 0)

Life(k) == IF k = "handheld" THEN HandheldLife ELSE BrowserLife

\* What INSERT INTO sessions adds, for user u and a token of kind k.
NewRow(u, k, c, l) ==
  [ row |-> "good", left |-> Life(k), user |-> u, kind |-> k,
    held |-> FALSE, exp |-> 0, chain |-> c, late |-> l ]

\* mint_token, and the token reaches the client.
Minted(s) == [ s EXCEPT !.held = TRUE, !.exp = Life(s.kind) ]

\* UPDATE sessions SET revoked = 1, for the sessions of ss that have a row.
Revoked(ss) ==
  [ i \in DOMAIN sessions |->
      IF i \in ss /\ sessions[i].row = "good"
      THEN [ sessions[i] EXCEPT !.row = "revoked" ] ELSE sessions[i] ]

-----------------------------------------------------------------------------
(* Logins, in the pool.                                                    *)

\* SELECT * FROM users WHERE username = ? AND active = 1
LoginCheck(w, u, k) ==
  /\ login[w] = Idle
  /\ u \in active
  /\ login' = [login EXCEPT ![w] = [ step |-> "hash", user |-> u, kind |-> k ]]
  /\ UNCHANGED <<userVars, sessions>>

\* The password is right: the session is inserted, whatever has become of
\* the user meanwhile.
LoginInsert(w) ==
  LET number == Len(sessions) + 1
  IN  /\ login[w].step = "hash"
      /\ number <= MaxSessions
      /\ sessions' = Append(sessions, NewRow(login[w].user, login[w].kind,
                                             number, login[w].user \in out))
      /\ login' = [login EXCEPT ![w] = [ step |-> "mint", session |-> number ]]
      /\ UNCHANGED userVars

LoginMint(w) ==
  /\ login[w].step = "mint"
  /\ sessions' = [sessions EXCEPT ![login[w].session] = Minted(@)]
  /\ login' = [login EXCEPT ![w] = Idle]
  /\ UNCHANGED userVars

\* The password is wrong, the database is locked, the secret cannot be saved
\* or the process dies; a session inserted by then stays.
LoginFails(w) ==
  /\ login[w] # Idle
  /\ login' = [login EXCEPT ![w] = Idle]
  /\ UNCHANGED <<userVars, sessions>>

-----------------------------------------------------------------------------
(* The handlers on the event loop.                                         *)

Logout(i) ==
  /\ Valid(sessions[i])
  /\ sessions' = Revoked({i})
  /\ UNCHANGED <<userVars, login>>

Refreshable(s) == Valid(s) /\ s.exp <= RefreshWindow

\* The session that follows s.  The user is looked up, but not its active.
Successor(s) == NewRow(s.user, s.kind, s.chain, s.late)

\* Mutant: the old session is not revoked.
RefreshKeepsOld(i) ==
  /\ Refreshable(sessions[i])
  /\ Len(sessions) < MaxSessions
  /\ sessions' = Append(sessions, Minted(Successor(sessions[i])))
  /\ UNCHANGED <<userVars, login>>

\* The old session is revoked, a new one inserted and its token minted.
Refresh(i) ==
  /\ Refreshable(sessions[i])
  /\ Len(sessions) < MaxSessions
  /\ sessions' = Append(Revoked({i}), Minted(Successor(sessions[i])))
  /\ UNCHANGED <<userVars, login>>

\* The process dies, or the database fails, between the two commits or
\* before the new token has reached the client.
RefreshBreaks(i) ==
  /\ Refreshable(sessions[i])
  /\ \/ sessions' = Revoked({i})
     \/ /\ Len(sessions) < MaxSessions
        /\ sessions' = Append(Revoked({i}), Successor(sessions[i]))
  /\ UNCHANGED <<userVars, login>>

Of(u) == { i \in DOMAIN sessions : sessions[i].user = u }

\* Mutant: only sessions whose token is out are looked for.
DeactivateSparesNew(u) ==
  /\ (active \cap admin) \ {u} # {}
  /\ active' = active \ {u}
  /\ out' = out \cup {u}
  /\ sessions' = Revoked({ i \in Of(u) : sessions[i].held })
  /\ UNCHANGED <<admin, login>>

\* DELETE /users/{id}, unless no active admin would be left.
Deactivate(u) ==
  /\ (active \cap admin) \ {u} # {}
  /\ active' = active \ {u}
  /\ out' = out \cup {u}
  /\ sessions' = Revoked(Of(u))
  /\ UNCHANGED <<admin, login>>

\* PATCH /users/{id} sets any of the columns and looks at nothing else.
UpdateUser(u) ==
  /\ \/ active' = active \cup {u} /\ out' = out \ {u}
     \/ active' = active \ {u} /\ UNCHANGED out
     \/ UNCHANGED <<active, out>>
  /\ admin' \in {admin, admin \cup {u}, admin \ {u}}
  /\ UNCHANGED <<sessions, login>>

\* Mutant: sessions that can be refreshed are removed, too.
ExpiredEarly(s) == s.left <= RefreshWindow

Expired(s) == s.left = 0

\* cleanup_expired_sessions, every hour.
Cleanup ==
  /\ sessions' =
       [ i \in DOMAIN sessions |->
           LET s == sessions[i]
           IN  IF Expired(s) \/ s.row = "revoked"
               THEN [ s EXCEPT !.row = "absent", !.left = 0 ] ELSE s ]
  /\ UNCHANGED <<userVars, login>>

Older(t) == IF t > 0 THEN t - 1 ELSE 0

\* Time passes; between the insertion of a session and the minting of its
\* token there is too little of it to count.
Tick ==
  /\ \A w \in Worker : login[w].step # "mint"
  /\ sessions' = [ i \in DOMAIN sessions |->
                     [ sessions[i] EXCEPT !.left = Older(@), !.exp = Older(@) ] ]
  /\ UNCHANGED <<userVars, login>>

Init ==
  /\ active \in SUBSET User
  /\ admin \in SUBSET User
  /\ sessions = <<>>
  /\ login = [w \in Worker |-> Idle]
  /\ out = {}

Next ==
  \/ \E w \in Worker : \/ \E u \in User, k \in Kind : LoginCheck(w, u, k)
                       \/ LoginInsert(w) \/ LoginMint(w) \/ LoginFails(w)
  \/ \E i \in DOMAIN sessions : Logout(i) \/ Refresh(i) \/ RefreshBreaks(i)
  \/ \E u \in User : Deactivate(u) \/ UpdateUser(u)
  \/ Cleanup \/ Tick

Spec == Init /\ [][Next]_vars

-----------------------------------------------------------------------------
(* Properties.                                                             *)

\* Every variable has its type: no expiry is beyond the longest life, and a
\* login about to mint has a session.
TypeOK ==
  /\ active \subseteq User /\ admin \subseteq User /\ out \subseteq User
  /\ sessions \in Seq(Session) /\ Len(sessions) <= MaxSessions
  /\ login \in [Worker -> Login]
  /\ \A w \in Worker :
       login[w].step = "mint" => login[w].session \in DOMAIN sessions

\* A token that was rejected is rejected for ever: neither the cleanup, which
\* removes the row that says "revoked", nor a new activation of the user
\* revives it (the missing row in verify_token).
NeverValidAgain ==
  [][\A i \in DOMAIN sessions :
       sessions[i].held /\ ~ Valid(sessions[i]) => ~ Valid(sessions'[i])]_vars

\* Of all tokens that descend from one login by refreshes at most one is
\* accepted, wherever a refresh was interrupted: a logout with it is final.
OneTokenPerLogin ==
  \A i, j \in DOMAIN sessions :
    /\ Valid(sessions[i]) /\ Valid(sessions[j])
    /\ sessions[i].chain = sessions[j].chain
    => i = j

\* The cleanup logs nobody out: it removes no row of a token that is accepted,
\* for tokens of both lives and after refreshes, too.
CleanupKeepsValid ==
  [][Cleanup => \A i \in DOMAIN sessions :
                  Valid(sessions[i]) => Valid(sessions'[i])]_vars

\* A user deactivated by DELETE has no accepted token, but for those of logins
\* that were past the check of active at that moment: a login that has its
\* row, but not yet its token, is revoked with the others.
DeactivatedAreOut ==
  \A i \in DOMAIN sessions :
    Valid(sessions[i]) /\ sessions[i].user \in out => sessions[i].late
=============================================================================
