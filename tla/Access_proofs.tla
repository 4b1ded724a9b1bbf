---------------------------- MODULE Access_proofs ----------------------------
(***************************************************************************)
(* Theorems about what stands before every handler: Sessions, for any      *)
(* users, passwords, sessions, tokens and any finite number of requests;   *)
(* RequestGuards, for any visitors, keys, rates and any finite number of   *)
(* calls; Migrations, for any servers and any migrations; and SQLScripts,  *)
(* for any scripts.                                                        *)
(***************************************************************************)
EXTENDS Sessions, RequestGuards, Migrations, SQLScripts, FiniteSetTheorems,
        WellFoundedInduction, TLAPS

-----------------------------------------------------------------------------
(* The inductive invariant.                                                *)

(* What a request carries at each of its steps.                            *)
Fit(r) ==
    /\ r \in Requestor
    /\ r.pc \in {"counting", "saving", "verifying", "opening", "failing",
                 "succeeding", "changing", "revoking"} => r.user \in Users
    /\ r.pc \in {"counting", "saving", "verifying", "opening"} => r.password \in Passwords
    /\ r.pc = "saving" => r.role \in {"admin", "staff"}
    /\ r.pc = "changing" => r.new \in Passwords
    /\ r.pc = "rotating" => r.session \in SessionIds /\ r.old \in Tokens
    /\ r.pc \in {"succeeding", "returning"} => r.token \in Tokens

(* The row it will write was there when it was read, and rows stay.        *)
Backed(r) ==
    /\ r.pc = "rotating" => session[r.session] # Nil
    /\ r.pc = "changing" => user[r.user] # Nil

RowsFit ==
    /\ user \in [Users -> User \cup {Nil}]
    /\ session \in [SessionIds -> Session \cup {Nil}]
    /\ token \in [Tokens -> TokenStatus]
    /\ failures \in [Users -> Nat]
    /\ quiet \in [Users -> 0..(Window + 1)]

(* Requests that were let past the lock of an account and may still fail.  *)
Guesses(r, u) == r.pc \in {"verifying", "opening", "failing"} /\ r.user = u
Guessing(u) == {p \in Requests : Guesses(request[p], u)}

(* While its failures are remembered, an account has room for those that   *)
(* are guessing; once they are forgotten the next failure is the first.    *)
Bounded(u) ==
    /\ failures[u] < MaxFailures + Cardinality(Requests)
    /\ quiet[u] <= Window =>
          failures[u] + Cardinality(Guessing(u)) < MaxFailures + Cardinality(Requests)

Inv ==
    /\ RowsFit
    /\ request \in [Requests -> Requestor]
    /\ \A p \in Requests : Fit(request[p]) /\ Backed(request[p])
    /\ \A u \in Users : Bounded(u)

-----------------------------------------------------------------------------
(* Counting requests.                                                      *)

LEMMA RequestsCount == Cardinality(Requests) \in Nat
BY RequestsAreFinite, FS_CardinalityType

LEMMA GuessingIsFinite ==
    ASSUME NEW u
    PROVE  /\ IsFiniteSet(Guessing(u))
           /\ Cardinality(Guessing(u)) \in Nat
           /\ Cardinality(Guessing(u)) <= Cardinality(Requests)
<1>1. Guessing(u) \in SUBSET Requests
  BY DEF Guessing
<1>2. IsFiniteSet(Guessing(u)) /\ Cardinality(Guessing(u)) <= Cardinality(Requests)
  BY <1>1, RequestsAreFinite, FS_Subset
<1> QED BY <1>2, FS_CardinalityType

(* A step of a request that does not begin to guess does not make room     *)
(* scarce.                                                                 *)
LEMMA NobodyStartsGuessing ==
    ASSUME Inv, NEW u \in Users, failures'[u] = failures[u],
           quiet'[u] \in Nat, quiet'[u] <= Window => quiet[u] <= Window,
           Guessing(u)' \subseteq Guessing(u)
    PROVE  Bounded(u)'
<1>1. Guessing(u)' \in SUBSET Guessing(u)
  OBVIOUS
<1>2. /\ IsFiniteSet(Guessing(u)')
      /\ Cardinality(Guessing(u)') <= Cardinality(Guessing(u))
  BY <1>1, GuessingIsFinite, FS_Subset
<1>3. Cardinality(Guessing(u)') \in Nat
  BY <1>2, FS_CardinalityType
<1>4. failures[u] \in Nat /\ Bounded(u)
  BY DEF Inv, RowsFit
<1> QED BY <1>2, <1>3, <1>4, GuessingIsFinite, RequestsCount, LimitsAreNatural DEF Bounded

-----------------------------------------------------------------------------
(* What preserves the invariant.                                           *)

LEMMA IdleFits == Fit(Idle) /\ Backed(Idle)
BY DEF Fit, Backed, Idle, Requestor

LEMMA IdleKnowsNothing == Idle.pc = "idle"
BY DEF Idle

(* Rows that are there stay there.                                         *)
Grows ==
    /\ \A u \in Users : user[u] # Nil => user'[u] # Nil
    /\ \A s \in SessionIds : session[s] # Nil => session'[s] # Nil

(* A request that moves on, whatever it writes, leaves the others fit.     *)
LEMMA RequestMoves ==
    ASSUME Inv, RowsFit', Grows, NEW p \in Requests, NEW r, Fit(r),
           request' = [request EXCEPT ![p] = r],
           r.pc = "rotating" => session'[r.session] # Nil,
           r.pc = "changing" => user'[r.user] # Nil,
           \A u \in Users : Bounded(u)'
    PROVE  Inv'
<1>1. request' \in [Requests -> Requestor] /\ \A q \in Requests : Fit(request'[q])
  BY DEF Inv, Fit
<1>2. ASSUME NEW q \in Requests PROVE Backed(request[q])'
  <2>1. CASE q = p
    BY <2>1 DEF Inv, Backed
  <2>2. CASE q # p
    <3>1. request'[q] = request[q] /\ Fit(request[q]) /\ Backed(request[q])
      BY <2>2 DEF Inv
    <3> QED BY <3>1 DEF Backed, Fit, Grows
  <2> QED BY <2>1, <2>2
<1>3. \A q \in Requests : Fit(request[q])'
  BY <1>1 DEF Fit
<1> QED BY <1>1, <1>2, <1>3 DEF Inv

(* Who guesses after a request moves on.                                   *)
LEMMA GuessingAfter ==
    ASSUME Inv, NEW p \in Requests, NEW r, request' = [request EXCEPT ![p] = r], NEW u,
           Guesses(r, u) => Guesses(request[p], u)
    PROVE  Guessing(u)' \subseteq Guessing(u)
BY DEF Inv, Guessing, Guesses

(* A step of a request that touches neither failures nor clocks.           *)
LEMMA RequestMovesOn ==
    ASSUME Inv, RowsFit', Grows, UNCHANGED accounts, NEW p \in Requests, NEW r, Fit(r),
           request' = [request EXCEPT ![p] = r],
           r.pc = "rotating" => session'[r.session] # Nil,
           r.pc = "changing" => user'[r.user] # Nil,
           \A u \in Users : Guesses(r, u) => Guesses(request[p], u)
    PROVE  Inv'
<1>1. ASSUME NEW u \in Users PROVE Bounded(u)'
  <2>1. Guessing(u)' \subseteq Guessing(u)
    BY GuessingAfter
  <2>2. quiet[u] \in Nat
    BY LimitsAreNatural DEF Inv, RowsFit
  <2> QED BY <2>1, <2>2, NobodyStartsGuessing DEF accounts
<1> QED BY <1>1, RequestMoves

-----------------------------------------------------------------------------
(* The steps of time and of single statements.                             *)

(* A step without a request: the requests know what they knew.             *)
LEMMA RowsChange ==
    ASSUME Inv, RowsFit', Grows, UNCHANGED request, \A u \in Users : Bounded(u)'
    PROVE  Inv'
BY DEF Inv, Fit, Backed, Grows

LEMMA BoundedWithoutRequest ==
    ASSUME Inv, UNCHANGED <<failures, request>>, NEW u \in Users, quiet'[u] \in Nat,
           quiet'[u] <= Window => quiet[u] <= Window
    PROVE  Bounded(u)'
<1>1. Guessing(u)' = Guessing(u)
  BY DEF Guessing, Guesses
<1> QED BY <1>1, NobodyStartsGuessing

LEMMA TickPreserves == ASSUME Inv, Tick PROVE Inv'
<1>1. RowsFit'
  BY LimitsAreNatural DEF Inv, RowsFit, Tick
<1>2. ASSUME NEW u \in Users
      PROVE  quiet'[u] \in Nat /\ (quiet'[u] <= Window => quiet[u] <= Window)
  BY LimitsAreNatural DEF Inv, RowsFit, Tick
<1>3. \A u \in Users : Bounded(u)'
  BY <1>2, BoundedWithoutRequest DEF Tick
<1> QED BY <1>1, <1>3, RowsChange DEF Tick, Grows

(* The clocks stand still while a session expires or is revoked.           *)
LEMMA SessionEnds ==
    ASSUME Inv, NEW s \in SessionIds, session[s] # Nil, NEW row \in Session,
           session' = [session EXCEPT ![s] = row],
           UNCHANGED <<user, token, accounts, request>>
    PROVE  Inv'
<1>1. RowsFit' /\ Grows
  BY NilIsNoRow DEF Inv, RowsFit, Grows, accounts
<1>2. \A u \in Users : quiet[u] \in Nat
  BY LimitsAreNatural DEF Inv, RowsFit
<1>3. \A u \in Users : Bounded(u)'
  BY <1>2, BoundedWithoutRequest DEF accounts
<1> QED BY <1>1, <1>3, RowsChange

LEMMA ExpirePreserves == ASSUME Inv, NEW s \in SessionIds, Expire(s) PROVE Inv'
<1>1. session[s] \in Session /\ session[s] # Nil
  BY DEF Inv, RowsFit, Expire, Live
<1>2. [session[s] EXCEPT !.expired = TRUE] \in Session
  BY <1>1 DEF Session
<1> QED BY <1>1, <1>2, SessionEnds DEF Expire

LEMMA LogoutPreserves == ASSUME Inv, NEW s \in SessionIds, Logout(s) PROVE Inv'
<1>1. session[s] \in Session /\ session[s] # Nil
  BY DEF Inv, RowsFit, Logout
<1>2. [session[s] EXCEPT !.revoked = TRUE] \in Session
  BY <1>1 DEF Session
<1> QED BY <1>1, <1>2, SessionEnds DEF Logout, Revoke

-----------------------------------------------------------------------------
(* The steps of one request.                                               *)

LEMMA RegisterFits ==
    ASSUME NEW u \in Users, NEW w \in Passwords
    PROVE  Fit([Idle EXCEPT !.pc = "counting", !.user = u, !.password = w])
BY IdleFits DEF Fit, Requestor

LEMMA LoginFits ==
    ASSUME NEW u \in Users, NEW w \in Passwords
    PROVE  Fit([Idle EXCEPT !.pc = "verifying", !.user = u, !.password = w])
BY IdleFits DEF Fit, Requestor

LEMMA RefreshFits ==
    ASSUME NEW u \in Users, NEW s \in SessionIds, NEW t \in Tokens
    PROVE  Fit([Idle EXCEPT !.pc = "rotating", !.user = u, !.session = s, !.old = t])
BY IdleFits DEF Fit, Requestor

LEMMA ChangeFits ==
    ASSUME NEW u \in Users, NEW w \in Passwords
    PROVE  Fit([Idle EXCEPT !.pc = "changing", !.user = u, !.new = w])
BY IdleFits DEF Fit, Requestor

(* A request that begins and does not guess.                               *)
LEMMA BeginPreserves ==
    ASSUME Inv, NEW p \in Requests, NEW r, Begin(p, r), Fit(r), Backed(r),
           r.pc \notin {"verifying", "opening", "failing"}
    PROVE  Inv'
<1>1. RowsFit' /\ Grows
  BY DEF Inv, RowsFit, Grows, Begin, accounts
<1>2. \A u \in Users : Guesses(r, u) => Guesses(request[p], u)
  BY DEF Guesses
<1> QED BY <1>1, <1>2, RequestMovesOn DEF Begin, Backed

(* A login begins only while the account has room for a failure.           *)
LEMMA LoginPreserves ==
    ASSUME Inv, NEW p \in Requests, NEW u \in Users, NEW w \in Passwords,
           StartLogin(p, u, w)
    PROVE  Inv'
<1> DEFINE r == [Idle EXCEPT !.pc = "verifying", !.user = u, !.password = w]
<1>1. Fit(r) /\ r.pc = "verifying" /\ r.user = u
  BY LoginFits, IdleFits DEF Fit, Requestor
<1>2. request' = [request EXCEPT ![p] = r] /\ UNCHANGED <<user, session, token, accounts>>
      /\ ~IsLocked(u)
  BY DEF StartLogin, Begin
<1> HIDE DEF r
<1>3. RowsFit' /\ Grows
  BY <1>2 DEF Inv, RowsFit, Grows, accounts
<1>4. \A v \in Users : quiet[v] \in 0..(Window + 1) /\ failures[v] \in Nat
  BY DEF Inv, RowsFit
<1>5. ASSUME NEW v \in Users PROVE Bounded(v)'
  <2>1. CASE v = u
    <3>1. quiet[u] <= Window => failures[u] < MaxFailures
      BY <1>2, <1>4, LimitsAreNatural DEF IsLocked
    <3>2. Cardinality(Guessing(u)') \in Nat /\ Cardinality(Guessing(u)') <= Cardinality(Requests)
      <4>1. Guessing(u)' \in SUBSET Requests
        BY DEF Guessing
      <4> QED BY <4>1, RequestsAreFinite, FS_Subset, FS_CardinalityType
    <3>3. Bounded(u) /\ failures' = failures /\ quiet' = quiet
      BY <1>2 DEF Inv, accounts
    <3> QED BY <2>1, <3>1, <3>2, <3>3, <1>4, RequestsCount, LimitsAreNatural DEF Bounded
  <2>2. CASE v # u
    <3>1. Guessing(v)' \subseteq Guessing(v)
      BY <1>1, <1>2, <2>2, GuessingAfter DEF Guesses
    <3> QED BY <1>2, <1>4, <3>1, NobodyStartsGuessing, LimitsAreNatural DEF accounts
  <2> QED BY <2>1, <2>2
<1> QED BY <1>1, <1>2, <1>3, <1>5, RequestMoves

LEMMA StartPreserves ==
    ASSUME Inv, NEW p \in Requests, Start(p)
    PROVE  Inv'
<1>1. ASSUME NEW u \in Users, NEW w \in Passwords, StartRegister(p, u, w) PROVE Inv'
  <2> DEFINE r == [Idle EXCEPT !.pc = "counting", !.user = u, !.password = w]
  <2>1. Fit(r) /\ r.pc = "counting"
    BY RegisterFits, IdleFits DEF Fit, Requestor
  <2> HIDE DEF r
  <2>2. Begin(p, r)
    BY <1>1 DEF StartRegister, r
  <2> QED BY <2>1, <2>2, BeginPreserves DEF Backed
<1>2. ASSUME NEW u \in Users, NEW w \in Passwords, NEW new \in Passwords,
             StartChangePassword(p, u, w, new)
      PROVE  Inv'
  <2> DEFINE r == [Idle EXCEPT !.pc = "changing", !.user = u, !.new = new]
  <2>1. Fit(r) /\ r.pc = "changing" /\ r.user = u
    BY ChangeFits, IdleFits DEF Fit, Requestor
  <2> HIDE DEF r
  <2>2. Begin(p, r) /\ user[u] # Nil
    BY <1>2 DEF StartChangePassword, Verify, r
  <2> QED BY <2>1, <2>2, BeginPreserves DEF Backed
<1>3. ASSUME NEW t \in Tokens, NEW s \in SessionIds, StartRefresh(p, t, s) PROVE Inv'
  <2> DEFINE u == session[s].user
             r == [Idle EXCEPT !.pc = "rotating", !.user = u, !.session = s, !.old = t]
  <2>1. session[s] # Nil /\ u \in Users
    BY <1>3 DEF StartRefresh, Live, Inv, RowsFit, Session
  <2>2. Fit(r) /\ r.pc = "rotating" /\ r.session = s
    BY <2>1, RefreshFits, IdleFits DEF Fit, Requestor
  <2> HIDE DEF r
  <2>3. Begin(p, r)
    BY <1>3 DEF StartRefresh, r
  <2> QED BY <2>1, <2>2, <2>3, BeginPreserves DEF Backed
<1> QED BY <1>1, <1>2, <1>3, LoginPreserves DEF Start

LEMMA CountPreserves == ASSUME Inv, NEW p \in Requests, CountUsers(p) PROVE Inv'
<1> DEFINE role == IF \A u \in Users : user[u] = Nil THEN "admin" ELSE "staff"
           r == [request[p] EXCEPT !.pc = "saving", !.role = role]
<1>1. Fit(request[p]) /\ request[p].pc = "counting"
  BY DEF Inv, CountUsers
<1>2. Fit(r) /\ r.pc = "saving"
  BY <1>1, role \in {"admin", "staff"} DEF Fit, Requestor
<1>3. request' = [request EXCEPT ![p] = r]
  BY DEF CountUsers, Inv
<1> HIDE DEF r, role
<1>4. RowsFit' /\ Grows /\ UNCHANGED accounts
  BY DEF Inv, RowsFit, Grows, CountUsers, accounts
<1>5. \A u \in Users : ~Guesses(r, u)
  BY <1>2 DEF Guesses
<1> QED BY <1>2, <1>3, <1>4, <1>5, RequestMovesOn

LEMMA SaveUserPreserves == ASSUME Inv, NEW p \in Requests, SaveUser(p) PROVE Inv'
<1>1. Fit(request[p]) /\ request[p].pc = "saving"
  BY DEF Inv, SaveUser
<1>2. [password |-> request[p].password, role |-> request[p].role] \in User
  BY <1>1 DEF Fit, User
<1>3. RowsFit' /\ Grows /\ UNCHANGED accounts
  BY <1>1, <1>2, NilIsNoRow DEF Inv, RowsFit, Grows, SaveUser, accounts, Fit
<1> QED BY <1>3, IdleFits, IdleKnowsNothing, RequestMovesOn DEF SaveUser, Done, Guesses

LEMMA VerifyPreserves == ASSUME Inv, NEW p \in Requests, VerifyPassword(p) PROVE Inv'
<1>1. PICK pc \in {"opening", "failing"} : request' = [request EXCEPT ![p].pc = pc]
  BY DEF VerifyPassword, GoTo
<1> DEFINE r == [request[p] EXCEPT !.pc = pc]
<1>2. Fit(request[p]) /\ request[p].pc = "verifying"
  BY DEF Inv, VerifyPassword
<1>3. Fit(r) /\ r.pc = pc /\ r.user = request[p].user
  BY <1>2 DEF Fit, Requestor
<1>4. request' = [request EXCEPT ![p] = r]
  BY <1>1 DEF Inv
<1> HIDE DEF r
<1>5. RowsFit' /\ Grows /\ UNCHANGED accounts
  BY DEF Inv, RowsFit, Grows, VerifyPassword, accounts
<1>6. \A u \in Users : Guesses(r, u) => Guesses(request[p], u)
  BY <1>2, <1>3 DEF Guesses
<1> QED BY <1>3, <1>4, <1>5, <1>6, RequestMovesOn

(* A failure takes the place of the guess that made it.                    *)
LEMMA FailurePreserves == ASSUME Inv, NEW p \in Requests, RecordFailedAttempt(p) PROVE Inv'
<1>0. PICK u \in Users : u = request[p].user
  BY DEF Inv, RecordFailedAttempt, Fit
<1>1. Fit(request[p]) /\ request[p].pc = "failing" /\ u = request[p].user
  BY <1>0 DEF Inv, RecordFailedAttempt
<1>2. /\ failures' = [failures EXCEPT ![u] = IF quiet[u] > Window THEN 1 ELSE failures[u] + 1]
      /\ quiet' = [quiet EXCEPT ![u] = 0]
      /\ request' = [request EXCEPT ![p] = Idle]
      /\ UNCHANGED <<user, session, token>>
  BY <1>0 DEF RecordFailedAttempt, Done
<1>3. \A v \in Users : failures[v] \in Nat /\ quiet[v] \in 0..(Window + 1) /\ Bounded(v)
  BY DEF Inv, RowsFit
<1>4. RowsFit' /\ Grows
  BY <1>1, <1>2, <1>3, LimitsAreNatural DEF Inv, RowsFit, Grows
<1>5. p \in Guessing(u)
  BY <1>1 DEF Guessing, Guesses
<1>6. Guessing(u)' = Guessing(u) \ {p}
  BY <1>1, <1>2, IdleKnowsNothing DEF Inv, Guessing, Guesses
<1>7. Cardinality(Guessing(u)') = Cardinality(Guessing(u)) - 1
  BY <1>5, <1>6, GuessingIsFinite, FS_RemoveElement
<1>8. Cardinality(Guessing(u)') \in Nat
  BY <1>6, GuessingIsFinite, FS_RemoveElement, FS_CardinalityType
<1>9. Bounded(u)'
  BY <1>1, <1>2, <1>3, <1>7, <1>8, <1>4, GuessingIsFinite, RequestsCount, LimitsAreNatural
  DEF Bounded, Inv, RowsFit
<1>10. ASSUME NEW v \in Users, v # u PROVE Bounded(v)'
  <2>1. Guessing(v)' \subseteq Guessing(v)
    BY <1>2, IdleKnowsNothing, GuessingAfter DEF Guesses
  <2>2. failures'[v] = failures[v] /\ quiet'[v] = quiet[v] /\ quiet[v] \in Nat
    BY <1>2, <1>3, <1>10, LimitsAreNatural DEF Inv, RowsFit
  <2> QED BY <2>1, <2>2, NobodyStartsGuessing
<1> QED BY <1>2, <1>4, <1>9, <1>10, IdleFits, IdleKnowsNothing, RequestMoves

(* A success forgets the failures.                                         *)
LEMMA SuccessPreserves == ASSUME Inv, NEW p \in Requests, RecordSuccessfulAttempt(p) PROVE Inv'
<1>0. PICK u \in Users : u = request[p].user
  BY DEF Inv, RecordSuccessfulAttempt, Fit
<1>1. request[p].token \in Tokens
  BY DEF Inv, RecordSuccessfulAttempt, Fit
<1>2. /\ failures' = [failures EXCEPT ![u] = 0]
      /\ quiet' = [quiet EXCEPT ![u] = Window + 1]
      /\ token' = [token EXCEPT ![request[p].token] = "held"]
      /\ request' = [request EXCEPT ![p] = Idle]
      /\ UNCHANGED <<user, session>>
  BY <1>0 DEF RecordSuccessfulAttempt, Done
<1>3. RowsFit' /\ Grows
  BY <1>1, <1>2, LimitsAreNatural DEF Inv, RowsFit, Grows, TokenStatus
<1>4. failures'[u] = 0 /\ quiet'[u] = Window + 1
  BY <1>1, <1>2 DEF Inv, RowsFit
<1>5. Bounded(u)'
  BY <1>4, RequestsCount, LimitsAreNatural DEF Bounded
<1>6. ASSUME NEW v \in Users, v # u PROVE Bounded(v)'
  <2>1. Guessing(v)' \subseteq Guessing(v)
    BY <1>2, IdleKnowsNothing, GuessingAfter DEF Guesses
  <2>2. failures'[v] = failures[v] /\ quiet'[v] = quiet[v] /\ quiet[v] \in Nat
    BY <1>2, <1>6, LimitsAreNatural DEF Inv, RowsFit
  <2> QED BY <2>1, <2>2, NobodyStartsGuessing
<1> QED BY <1>2, <1>3, <1>5, <1>6, IdleFits, IdleKnowsNothing, RequestMoves

LEMMA CreateSessionPreserves ==
    ASSUME Inv, NEW p \in Requests, NEW s \in SessionIds, NEW t \in Tokens,
           CreateSession(p, s, t)
    PROVE  Inv'
<1>1. Fit(request[p]) /\ request[p].pc = "opening" /\ request[p].user \in Users
  BY DEF Inv, CreateSession, Fit
<1>2. Opened(request[p], t) \in Session
  BY <1>1 DEF Opened, Session, Fit
<1>3. /\ session[s] = Nil /\ session' = [session EXCEPT ![s] = Opened(request[p], t)]
      /\ UNCHANGED <<user, accounts>>
      /\ \E status \in TokenStatus : token' = [token EXCEPT ![t] = status]
  BY DEF CreateSession, InsertSession, TokenStatus
<1>4. RowsFit' /\ Grows
  BY <1>2, <1>3, NilIsNoRow DEF Inv, RowsFit, Grows, accounts
<1>5. ASSUME NEW r, Fit(r), r.pc \in {"succeeding", "failing"}, r.user = request[p].user,
             request' = [request EXCEPT ![p] = r]
      PROVE  Inv'
  BY <1>1, <1>3, <1>4, <1>5, RequestMovesOn DEF Guesses
<1>6. CASE request' = [request EXCEPT ![p].pc = "succeeding", ![p].token = t]
  <2> DEFINE r == [request[p] EXCEPT !.pc = "succeeding", !.token = t]
  <2>1. Fit(r) /\ r.pc = "succeeding" /\ r.user = request[p].user
    BY <1>1 DEF Fit, Requestor
  <2>2. request' = [request EXCEPT ![p] = r]
    BY <1>6 DEF Inv
  <2> HIDE DEF r
  <2> QED BY <1>5, <2>1, <2>2
<1>7. CASE GoTo(p, "failing")
  <2> DEFINE r == [request[p] EXCEPT !.pc = "failing"]
  <2>1. Fit(r) /\ r.pc = "failing" /\ r.user = request[p].user
    BY <1>1 DEF Fit, Requestor
  <2>2. request' = [request EXCEPT ![p] = r]
    BY <1>7 DEF Inv, GoTo
  <2> HIDE DEF r
  <2> QED BY <1>5, <2>1, <2>2
<1> QED BY <1>6, <1>7 DEF CreateSession

LEMMA RotatePreserves ==
    ASSUME Inv, NEW p \in Requests, NEW t \in Tokens, RotateToken(p, t)
    PROVE  Inv'
<1> DEFINE s == request[p].session
           r == [request[p] EXCEPT !.pc = "returning", !.token = t]
<1>1. Fit(request[p]) /\ request[p].pc = "rotating" /\ s \in SessionIds
      /\ request[p].old \in Tokens /\ session[s] \in Session
  BY DEF Inv, RotateToken, Fit, Backed, RowsFit
<1>2. Fit(r) /\ r.pc = "returning"
  BY <1>1 DEF Fit, Requestor
<1>3. request' = [request EXCEPT ![p] = r]
  BY DEF RotateToken, Inv
<1> HIDE DEF r
<1>4. [[session[s] EXCEPT !.token = t] EXCEPT !.expired = FALSE] \in Session
  BY <1>1 DEF Session
<1>5. session' = [session EXCEPT ![s] = [[session[s] EXCEPT !.token = t] EXCEPT !.expired = FALSE]]
  BY <1>1 DEF RotateToken, UpdateSession, Inv, RowsFit
<1>6. RowsFit' /\ Grows /\ UNCHANGED accounts
  BY <1>1, <1>4, <1>5, NilIsNoRow DEF Inv, RowsFit, Grows, RotateToken, accounts, TokenStatus
<1>7. \A u \in Users : ~Guesses(r, u)
  BY <1>2 DEF Guesses
<1> QED BY <1>2, <1>3, <1>6, <1>7, RequestMovesOn

LEMMA ReturnPreserves == ASSUME Inv, NEW p \in Requests, ReturnToken(p) PROVE Inv'
<1>1. request[p].token \in Tokens
  BY DEF Inv, ReturnToken, Fit
<1>2. RowsFit' /\ Grows /\ UNCHANGED accounts
  BY <1>1 DEF Inv, RowsFit, Grows, ReturnToken, accounts, TokenStatus
<1> QED BY <1>2, IdleFits, IdleKnowsNothing, RequestMovesOn DEF ReturnToken, Done, Guesses

LEMMA UpdatePasswordPreserves ==
    ASSUME Inv, NEW p \in Requests, UpdatePassword(p)
    PROVE  Inv'
<1> DEFINE u == request[p].user
           r == [request[p] EXCEPT !.pc = "revoking"]
<1>1. Fit(request[p]) /\ request[p].pc = "changing" /\ u \in Users
      /\ request[p].new \in Passwords /\ user[u] \in User
  BY DEF Inv, UpdatePassword, Fit, Backed, RowsFit
<1>2. Fit(r) /\ r.pc = "revoking"
  BY <1>1 DEF Fit, Requestor
<1>3. request' = [request EXCEPT ![p] = r]
  BY DEF UpdatePassword, GoTo, Inv
<1> HIDE DEF r
<1>4. [user[u] EXCEPT !.password = request[p].new] \in User
  BY <1>1 DEF User
<1>5. user' = [user EXCEPT ![u] = [user[u] EXCEPT !.password = request[p].new]]
  BY DEF UpdatePassword
<1>6. RowsFit' /\ Grows /\ UNCHANGED accounts
  BY <1>1, <1>4, <1>5, NilIsNoRow DEF Inv, RowsFit, Grows, UpdatePassword, accounts
<1>7. \A v \in Users : ~Guesses(r, v)
  BY <1>2 DEF Guesses
<1> QED BY <1>2, <1>3, <1>6, <1>7, RequestMovesOn

LEMMA RevokeAllPreserves ==
    ASSUME Inv, NEW p \in Requests, RevokeAllUserSessions(p)
    PROVE  Inv'
<1>1. ASSUME NEW s \in SessionIds, session[s] # Nil
      PROVE  session'[s] \in Session
  <2>1. session[s] \in Session /\ [session[s] EXCEPT !.revoked = TRUE] \in Session
    BY <1>1 DEF Inv, RowsFit, Session
  <2> QED BY <2>1 DEF RevokeAllUserSessions, RevokeAllByUserID
<1>2. \A s \in SessionIds : session[s] = Nil => session'[s] = Nil
  BY DEF RevokeAllUserSessions, RevokeAllByUserID
<1>3. session' \in [SessionIds -> Session \cup {Nil}]
  <2>1. \A s \in SessionIds : session'[s] \in Session \cup {Nil}
    BY <1>1, <1>2
  <2>2. session' = [s \in SessionIds |-> session'[s]]
    BY DEF RevokeAllUserSessions, RevokeAllByUserID
  <2> QED BY <2>1, <2>2
<1>4. RowsFit' /\ Grows /\ UNCHANGED accounts
  BY <1>1, <1>3, NilIsNoRow DEF Inv, RowsFit, Grows, RevokeAllUserSessions, accounts
<1> QED BY <1>4, IdleFits, IdleKnowsNothing, RequestMovesOn
        DEF RevokeAllUserSessions, Done, Guesses

LEMMA FailPreserves == ASSUME Inv, NEW p \in Requests, Fail(p) PROVE Inv'
<1>1. RowsFit' /\ Grows /\ UNCHANGED accounts
  BY DEF Inv, RowsFit, Grows, Fail, accounts, TokenStatus
<1> QED BY <1>1, IdleFits, IdleKnowsNothing, RequestMovesOn DEF Fail, Done, Guesses

LEMMA StutterPreserves == ASSUME Inv, UNCHANGED vars PROVE Inv'
BY DEF vars, accounts, Inv, RowsFit, Fit, Backed, Bounded, Guessing, Guesses

LEMMA StepPreserves == ASSUME Inv, NEW p \in Requests, Step(p) PROVE Inv'
BY CountPreserves, SaveUserPreserves, VerifyPreserves, FailurePreserves, SuccessPreserves,
   CreateSessionPreserves, RotatePreserves, ReturnPreserves, UpdatePasswordPreserves,
   RevokeAllPreserves
DEF Step

-----------------------------------------------------------------------------
(* The theorems.                                                           *)

(* Inv holds in every reachable state: accounts have room for every guess  *)
(* that is under way, and a refresh or a change of password writes to a    *)
(* row that is there (CheckRateLimit, UpdateSession, UpdatePassword).      *)
THEOREM Invariance == Spec => []Inv
<1>1. Init => Inv
  <2> SUFFICES ASSUME Init PROVE Inv
    OBVIOUS
  <2>1. RowsFit
    BY LimitsAreNatural DEF Init, RowsFit, TokenStatus
  <2>2. request \in [Requests -> Requestor] /\ \A p \in Requests : Fit(request[p]) /\ Backed(request[p])
    BY IdleFits DEF Init, Fit
  <2>3. ASSUME NEW u \in Users PROVE Bounded(u)
    BY RequestsCount, LimitsAreNatural DEF Init, Bounded
  <2> QED BY <2>1, <2>2, <2>3 DEF Inv
<1>2. Inv /\ [Next]_vars => Inv'
  BY TickPreserves, ExpirePreserves, LogoutPreserves, StartPreserves, StepPreserves,
     FailPreserves, StutterPreserves
  DEF Next
<1> QED BY <1>1, <1>2, PTL DEF Spec

(* Every row and every variable of a request keeps its type.               *)
THEOREM TypeCorrect == Spec => []TypeOK
<1>1. Inv => TypeOK
  BY DEF Inv, RowsFit, TypeOK
<1> QED BY <1>1, Invariance, PTL

(* Logins that get past the lock together overrun it by no more than their *)
(* number (CheckRateLimit, RecordFailedAttempt).                           *)
THEOREM Lockout == Spec => []GuessesAreBounded
<1>1. Inv => GuessesAreBounded
  BY DEF Inv, Bounded, GuessesAreBounded
<1> QED BY <1>1, Invariance, PTL

(* One session in one step: the action of RevokedForGood.                  *)
Kept(s) ==
    session[s] # Nil =>
        /\ session'[s] # Nil
        /\ IsRevoked(s) => IsRevoked(s)'
        /\ session'[s].user = session[s].user
        /\ session'[s].password = session[s].password

(* A write to a session that touches its token or ends it keeps the rest.  *)
LEMMA SessionWritten ==
    ASSUME Inv, NEW s \in SessionIds, NEW x \in SessionIds, session[s] # Nil,
           NEW row \in Session, session' = [session EXCEPT ![s] = row],
           row.user = session[s].user, row.password = session[s].password,
           session[s].revoked => row.revoked
    PROVE  Kept(x)
BY NilIsNoRow DEF Inv, RowsFit, Kept, IsRevoked

LEMMA NextKeepsSessions ==
    ASSUME Inv, [Next]_vars, NEW x \in SessionIds
    PROVE  Kept(x)
<1>1. CASE UNCHANGED session
  BY <1>1 DEF Kept, IsRevoked
<1>2. ASSUME NEW s \in SessionIds, Expire(s) PROVE Kept(x)
  <2> DEFINE row == [session[s] EXCEPT !.expired = TRUE]
  <2>1. session[s] # Nil /\ session[s] \in Session /\ session' = [session EXCEPT ![s] = row]
    BY <1>2 DEF Expire, Live, Inv, RowsFit
  <2>2. row \in Session /\ row.user = session[s].user /\ row.password = session[s].password
        /\ row.revoked = session[s].revoked
    BY <2>1 DEF Session
  <2> HIDE DEF row
  <2> QED BY <2>1, <2>2, SessionWritten
<1>3. ASSUME NEW s \in SessionIds, Logout(s) PROVE Kept(x)
  <2> DEFINE row == [session[s] EXCEPT !.revoked = TRUE]
  <2>1. session[s] # Nil /\ session[s] \in Session /\ session' = [session EXCEPT ![s] = row]
    BY <1>3 DEF Logout, Revoke, Inv, RowsFit
  <2>2. row \in Session /\ row.user = session[s].user /\ row.password = session[s].password
        /\ row.revoked
    BY <2>1 DEF Session
  <2> HIDE DEF row
  <2> QED BY <2>1, <2>2, SessionWritten
<1>4. ASSUME NEW p \in Requests, NEW t \in Tokens, RotateToken(p, t) PROVE Kept(x)
  <2> DEFINE s == request[p].session
             row == [[session[s] EXCEPT !.token = t] EXCEPT !.expired = FALSE]
  <2>1. s \in SessionIds /\ session[s] # Nil /\ session[s] \in Session
    BY <1>4 DEF RotateToken, Inv, Fit, Backed, RowsFit
  <2>2. session' = [session EXCEPT ![s] = row]
    BY <1>4, <2>1 DEF RotateToken, UpdateSession, Inv, RowsFit
  <2>3. row \in Session /\ row.user = session[s].user /\ row.password = session[s].password
        /\ row.revoked = session[s].revoked
    BY <2>1 DEF Session
  <2> HIDE DEF row
  <2> QED BY <2>1, <2>2, <2>3, SessionWritten
<1>5. ASSUME NEW p \in Requests, NEW s \in SessionIds, NEW t \in Tokens, CreateSession(p, s, t)
      PROVE  Kept(x)
  BY <1>5 DEF CreateSession, InsertSession, Kept, IsRevoked, Inv, RowsFit
<1>6. ASSUME NEW p \in Requests, RevokeAllUserSessions(p) PROVE Kept(x)
  <2>1. session[x] # Nil => session[x] \in Session
    BY DEF Inv, RowsFit
  <2>2. session'[x] \in {session[x], [session[x] EXCEPT !.revoked = TRUE]}
    BY <1>6 DEF RevokeAllUserSessions, RevokeAllByUserID
  <2>3. session[x] # Nil => session'[x] \in Session
    BY <2>1, <2>2 DEF Session
  <2> QED BY <2>1, <2>2, <2>3, NilIsNoRow DEF Kept, IsRevoked, Session
<1>7. ASSUME NEW p \in Requests, Start(p) PROVE UNCHANGED session
  BY <1>7 DEF Start, StartRegister, StartLogin, StartChangePassword, StartRefresh, Begin
<1>8. ASSUME NEW p \in Requests, Step(p) PROVE Kept(x)
  BY <1>1, <1>4, <1>5, <1>6, <1>8
  DEF Step, CountUsers, SaveUser, VerifyPassword, RecordFailedAttempt, RecordSuccessfulAttempt,
      ReturnToken, UpdatePassword
<1> QED BY <1>1, <1>2, <1>3, <1>7, <1>8 DEF Next, vars, Tick, Fail

(* A refresh that read its session before it was revoked cannot revive it: *)
(* the UPDATE leaves revoked_at alone (UpdateSession, RevokeAllByUserID).  *)
THEOREM Revoked == Spec => RevokedForGood
<1>1. Inv /\ [Next]_vars =>
        [\A s \in SessionIds : session[s] # Nil =>
            /\ session'[s] # Nil
            /\ IsRevoked(s) => IsRevoked(s)'
            /\ session'[s].user = session[s].user
            /\ session'[s].password = session[s].password]_vars
  BY NextKeepsSessions DEF Kept
<1> QED BY <1>1, Invariance, PTL DEF Spec, RevokedForGood

(* One account in one step: the action of AccountsAreKept.                 *)
Held(u) ==
    user[u] # Nil =>
        /\ user'[u] # Nil /\ user'[u].role = user[u].role
        /\ user'[u].password # user[u].password =>
              \E p \in Requests : request[p].pc = "changing" /\ request[p].user = u

LEMMA NextKeepsAccounts ==
    ASSUME Inv, [Next]_vars, NEW u \in Users
    PROVE  Held(u)
<1>1. CASE UNCHANGED user
  BY <1>1 DEF Held
<1>2. ASSUME NEW p \in Requests, SaveUser(p) PROVE Held(u)
  BY <1>2 DEF SaveUser, Held, Inv, RowsFit
<1>3. ASSUME NEW p \in Requests, UpdatePassword(p) PROVE Held(u)
  <2> DEFINE v == request[p].user
             row == [user[v] EXCEPT !.password = request[p].new]
  <2>1. v \in Users /\ user[v] \in User /\ request[p].new \in Passwords
    BY <1>3 DEF UpdatePassword, Inv, Fit, Backed, RowsFit
  <2>2. user' = [user EXCEPT ![v] = row] /\ request[p].pc = "changing"
    BY <1>3 DEF UpdatePassword
  <2>3. row \in User /\ row.role = user[v].role
    BY <2>1 DEF User
  <2> HIDE DEF row
  <2> QED BY <2>1, <2>2, <2>3, NilIsNoRow DEF Held, Inv, RowsFit
<1>4. ASSUME NEW p \in Requests, Start(p) PROVE UNCHANGED user
  BY <1>4 DEF Start, StartRegister, StartLogin, StartChangePassword, StartRefresh, Begin
<1>5. ASSUME NEW p \in Requests, Step(p) PROVE Held(u)
  BY <1>1, <1>2, <1>3, <1>5
  DEF Step, CountUsers, VerifyPassword, RecordFailedAttempt, RecordSuccessfulAttempt,
      RotateToken, CreateSession, ReturnToken, RevokeAllUserSessions
<1> QED BY <1>1, <1>4, <1>5 DEF Next, vars, Tick, Fail, Expire, Logout

(* Registrations of one address that race do not overwrite each other: the *)
(* unique index refuses the second (SaveUser).                             *)
THEOREM Accounts == Spec => AccountsAreKept
<1>1. Inv /\ [Next]_vars =>
        [\A u \in Users : user[u] # Nil =>
            /\ user'[u] # Nil /\ user'[u].role = user[u].role
            /\ user'[u].password # user[u].password =>
                  \E p \in Requests : request[p].pc = "changing" /\ request[p].user = u]_vars
  BY NextKeepsAccounts DEF Held
<1> QED BY <1>1, Invariance, PTL DEF Spec, AccountsAreKept

-----------------------------------------------------------------------------
(* The guards every request passes.                                        *)

GuardType ==
    /\ bucket \in [Visitors -> Bucket \cup {None}]
    /\ ideal \in [Visitors -> Int]
    /\ recorded \in Seq(Keys)
    /\ executed \in [Keys -> Nat]
    /\ call \in [Calls -> [pc : {"idle", "looking", "executing", "answered"},
                           key : Keys \cup {None}]]
    /\ \A p \in Calls : call[p].pc = "answered" => call[p].key \in Keys

(* The exact bucket holds at least what this one would hold if the ticks   *)
(* since the last request were refilled without rounding.                  *)
BucketOK(v) ==
    ideal[v] >= IF bucket[v] = None THEN Full
                ELSE Least(Full, bucket[v].tokens * Second + bucket[v].idle * Limit)

BucketsOK == \A v \in Visitors : BucketOK(v)

Executing(k) == {p \in Calls : call[p].pc = "executing" /\ call[p].key = k}
Answering(k) == {p \in Calls : call[p].pc = "answered" /\ call[p].key = k}

(* As long as a key has no recorded answer, those it has are of requests   *)
(* that are about to record one; once it has, only those that were already *)
(* executing add to them.                                                  *)
AnswersOK(k) ==
    IF Recorded(k)
    THEN executed[k] + Cardinality(Executing(k)) <= Cardinality(Calls)
    ELSE executed[k] <= Cardinality(Answering(k))

GuardInv == GuardType /\ BucketsOK /\ \A k \in Keys : AnswersOK(k)

LEMMA Constants ==
    /\ Second \in Nat /\ Limit \in Nat /\ Burst \in Nat /\ Ttl \in Nat
    /\ Second > 0 /\ Limit > 0 /\ Burst > 0 /\ Ttl > 0
    /\ Full \in Nat
BY GuardsArePositive DEF Full

LEMMA Division ==
    ASSUME NEW x \in Nat, NEW d \in Nat, d > 0
    PROVE  /\ x \div d \in Nat /\ (x \div d) * d <= x
           /\ x >= d => x \div d >= 1
OBVIOUS

LEMMA Product ==
    ASSUME NEW a \in Nat, NEW b \in Nat
    PROVE  a * b \in Nat /\ (b > 0 => a <= a * b)
OBVIOUS

LEMMA Monotone ==
    ASSUME NEW a \in Nat, NEW b \in Nat, NEW c \in Nat, a <= b
    PROVE  a * c <= b * c
OBVIOUS

LEMMA Distributes ==
    ASSUME NEW a \in Int, NEW b \in Int, NEW c \in Int
    PROVE  (a + b) * c = a * c + b * c
OBVIOUS

(* A refill never gives more than the exact bucket holds.                  *)
LEMMA RefillIsBacked ==
    ASSUME GuardType, NEW v \in Visitors, BucketOK(v)
    PROVE  Refilled(v) \in 0..Burst /\ Refilled(v) * Second <= ideal[v]
<1> DEFINE t == Found(v).tokens
           i == Found(v).idle
           q == (i * Limit) \div Second
<1>1. t \in 0..Burst /\ i \in Nat /\ ideal[v] \in Int
  BY Constants DEF Found, GuardType, Bucket
<1>2. ideal[v] >= Full \/ ideal[v] >= t * Second + i * Limit
  BY Constants DEF BucketOK, Found, Least
<1> HIDE DEF t, i
<1>3. i * Limit \in Nat /\ q \in Nat /\ q * Second <= i * Limit
  BY <1>1, Constants, Product, Division
<1> HIDE DEF q
<1>4. Refilled(v) = Least(Burst, t + q)
  BY DEF Refilled, t, i, q
<1>5. t + q \in Nat /\ Refilled(v) \in 0..Burst /\ Refilled(v) <= t + q
  BY <1>1, <1>3, <1>4, Constants DEF Least
<1>6. Refilled(v) * Second <= Full
  BY <1>5, Constants, Monotone DEF Full
<1>7. Refilled(v) * Second <= (t + q) * Second
  BY <1>5, Constants, Monotone
<1>8. (t + q) * Second = t * Second + q * Second
  BY <1>1, <1>3, Constants, Distributes
<1>9. /\ Refilled(v) * Second \in Nat /\ t * Second \in Nat /\ q * Second \in Nat
  BY <1>1, <1>3, <1>5, Constants, Product
<1> QED BY <1>1, <1>2, <1>3, <1>5, <1>6, <1>7, <1>8, <1>9, Constants

LEMMA CheckRateKeeps ==
    ASSUME GuardType, BucketsOK, NEW v \in Visitors, CheckRate(v)
    PROVE  /\ bucket' \in [Visitors -> Bucket \cup {None}]
           /\ ideal' \in [Visitors -> Int]
           /\ BucketsOK'
<1> DEFINE r == Refilled(v)
<1>1. r \in 0..Burst /\ r * Second <= ideal[v] /\ ideal[v] \in Int
  BY RefillIsBacked DEF BucketsOK, GuardType
<1> DEFINE left == IF r >= 1 THEN r - 1 ELSE 0
<1>2. /\ bucket' = [bucket EXCEPT ![v] = [tokens |-> left, idle |-> 0]]
      /\ ideal' = [ideal EXCEPT ![v] = IF r >= 1 THEN ideal[v] - Second ELSE ideal[v]]
  BY DEF CheckRate, TakeToken
<1> HIDE DEF r
<1>3. left \in 0..Burst
  BY <1>1, Constants
<1>4. left * Second <= IF r >= 1 THEN ideal[v] - Second ELSE ideal[v]
  <2>1. CASE r >= 1
    <3>1. (r + (-1)) * Second = r * Second + (-1) * Second
      BY <1>1, Constants, Distributes
    <3>2. left = r + (-1) /\ (-1) * Second = -Second /\ r * Second \in Nat
      BY <1>1, <2>1, Constants
    <3> QED BY <1>1, <2>1, <3>1, <3>2, Constants
  <2>2. CASE ~(r >= 1)
    <3>1. left = 0 /\ r = 0 /\ 0 * Second = 0
      BY <1>1, <2>2, Constants
    <3> QED BY <1>1, <2>2, <3>1
  <2> QED BY <2>1, <2>2
<1> HIDE DEF left
<1>5. [tokens |-> left, idle |-> 0] \in Bucket
  BY <1>3, Constants DEF Bucket
<1>6. /\ bucket' \in [Visitors -> Bucket \cup {None}]
      /\ ideal' \in [Visitors -> Int]
  BY <1>1, <1>2, <1>5, Constants DEF GuardType
<1>7. BucketOK(v)'
  <2>1. bucket'[v] = [tokens |-> left, idle |-> 0] /\ bucket'[v] # None
    BY <1>2, <1>5, NoneIsNothing DEF GuardType
  <2>2. ideal'[v] = IF r >= 1 THEN ideal[v] - Second ELSE ideal[v]
    BY <1>2 DEF GuardType
  <2>3. 0 * Limit = 0 /\ left * Second \in Nat
    BY <1>3, Constants, Product
  <2>4. ideal'[v] >= left * Second
    BY <1>4, <2>2
  <2>5. ideal'[v] >= Least(Full, left * Second + 0 * Limit)
    BY <1>6, <2>3, <2>4, Constants DEF Least
  <2> QED BY <2>1, <2>5 DEF BucketOK
<1>8. ASSUME NEW w \in Visitors, w # v PROVE BucketOK(w)'
  <2>1. bucket'[w] = bucket[w] /\ ideal'[w] = ideal[w]
    BY <1>2, <1>8 DEF GuardType
  <2> QED BY <2>1 DEF BucketOK, BucketsOK
<1> QED BY <1>6, <1>7, <1>8 DEF BucketsOK

LEMMA TickKeeps ==
    ASSUME GuardType, BucketsOK, ClockTick
    PROVE  /\ bucket' \in [Visitors -> Bucket \cup {None}]
           /\ ideal' \in [Visitors -> Int]
           /\ BucketsOK'
<1>1. ASSUME NEW v \in Visitors
      PROVE  /\ bucket'[v] \in Bucket \cup {None} /\ ideal'[v] \in Int
             /\ BucketOK(v)'
  <2> DEFINE b == bucket[v]
  <2>1. /\ b \in Bucket \cup {None} /\ ideal[v] \in Int /\ BucketOK(v)
        /\ ideal'[v] = Least(Full, ideal[v] + Limit)
        /\ bucket'[v] = IF b # None /\ b.idle <= Ttl
                        THEN [b EXCEPT !.idle = @ + 1] ELSE b
    BY DEF ClockTick, GuardType, BucketsOK
  <2>2. ideal'[v] \in Int
    BY <2>1, Constants DEF Least
  <2>3. CASE b = None
    <3>1. ideal[v] >= Full /\ bucket'[v] = None
      BY <2>1, <2>3 DEF BucketOK
    <3> QED BY <2>1, <2>2, <3>1, Constants DEF BucketOK, Least
  <2>4. CASE b # None /\ b.idle <= Ttl
    <3>1. /\ bucket'[v].tokens = b.tokens /\ bucket'[v].idle = b.idle + 1
          /\ bucket'[v] \in Bucket /\ b.tokens \in Nat /\ b.idle \in Nat
      BY <2>1, <2>4, Constants DEF Bucket
    <3>2. bucket'[v] # None
      BY <3>1, NoneIsNothing
    <3>3. ideal[v] >= Full \/ ideal[v] >= b.tokens * Second + b.idle * Limit
      BY <2>1, <2>4, Constants DEF BucketOK, Least
    <3> DEFINE s == b.tokens * Second
               m == b.idle * Limit
    <3>4. s \in Nat /\ m \in Nat /\ (b.idle + 1) * Limit = m + Limit
      <4>1. (b.idle + 1) * Limit = b.idle * Limit + 1 * Limit /\ 1 * Limit = Limit
        BY <3>1, Constants, Distributes
      <4> QED BY <3>1, <4>1, Constants, Product
    <3> HIDE DEF b, s, m
    <3>5. ideal[v] >= Full \/ ideal[v] >= s + m
      BY <3>3 DEF s, m
    <3>6. ideal'[v] >= Least(Full, s + (m + Limit))
      BY <2>1, <3>4, <3>5, Constants DEF Least
    <3>7. BucketOK(v)'
      BY <3>1, <3>2, <3>4, <3>6 DEF BucketOK, s
    <3> QED BY <2>2, <3>1, <3>7
  <2>5. CASE b # None /\ ~(b.idle <= Ttl)
    <3>1. bucket'[v] = b /\ b.tokens \in Nat /\ b.idle \in Nat /\ b.idle >= Ttl
      BY <2>1, <2>5, Constants DEF Bucket
    <3>2. Ttl * Limit <= b.idle * Limit /\ Limit * Ttl = Ttl * Limit
      BY <3>1, Constants, Monotone
    <3>3. b.tokens * Second \in Nat /\ b.idle * Limit \in Nat /\ Ttl * Limit \in Nat
      BY <3>1, Constants, Product
    <3>4. b.tokens * Second + b.idle * Limit >= Full
      BY <3>2, <3>3, Constants, FullBeforeForgotten DEF Full
    <3>5. ideal[v] >= Full
      BY <2>1, <2>5, <3>3, <3>4, Constants DEF BucketOK, Least
    <3>6. ideal'[v] >= Full
      BY <2>1, <3>5, Constants DEF Least
    <3>7. BucketOK(v)'
      BY <2>5, <3>1, <3>3, <3>4, <3>6, <2>2, Constants DEF BucketOK, Least
    <3> QED BY <2>1, <2>2, <3>1, <3>7
  <2> QED BY <2>3, <2>4, <2>5
<1>2. /\ bucket' = [v \in Visitors |-> bucket'[v]]
      /\ ideal' = [v \in Visitors |-> ideal'[v]]
  BY DEF ClockTick
<1> QED BY <1>1, <1>2 DEF BucketsOK

LEMMA CleanupKeeps ==
    ASSUME GuardType, BucketsOK, CleanupVisitors
    PROVE  /\ bucket' \in [Visitors -> Bucket \cup {None}]
           /\ ideal' \in [Visitors -> Int]
           /\ BucketsOK'
<1>1. PICK kept \in SUBSET Fresh :
          /\ bucket' = [v \in Visitors |-> IF v \in kept THEN bucket[v] ELSE None]
          /\ ideal' = [v \in Visitors |->
                          IF v \in Fresh \ kept THEN Full ELSE ideal[v]]
  BY DEF CleanupVisitors
<1>2. /\ bucket' \in [Visitors -> Bucket \cup {None}]
      /\ ideal' \in [Visitors -> Int]
  BY <1>1, Constants DEF GuardType
<1>3. ASSUME NEW v \in Visitors PROVE BucketOK(v)'
  <2>1. BucketOK(v) /\ bucket[v] \in Bucket \cup {None} /\ ideal[v] \in Int
    BY DEF BucketsOK, GuardType
  <2>2. CASE v \in kept
    <3>1. bucket'[v] = bucket[v] /\ ideal'[v] = ideal[v]
      BY <1>1, <2>2
    <3> QED BY <2>1, <3>1 DEF BucketOK
  <2>3. CASE v \in Fresh \ kept
    <3>1. bucket'[v] = None /\ ideal'[v] = Full
      BY <1>1, <2>3
    <3> QED BY <3>1, Constants DEF BucketOK
  <2>4. CASE v \notin Fresh
    <3>1. bucket'[v] = None /\ ideal'[v] = ideal[v]
      BY <1>1, <2>4
    <3>2. ideal[v] >= Full
      <4>1. CASE bucket[v] = None
        BY <2>1, <4>1 DEF BucketOK
      <4>2. CASE bucket[v] # None
        <5> DEFINE b == bucket[v]
        <5>1. b.tokens \in Nat /\ b.idle \in Nat /\ b.idle >= Ttl
          BY <2>1, <2>4, <4>2, Constants DEF Bucket, Fresh
        <5>2. Ttl * Limit <= b.idle * Limit /\ Limit * Ttl = Ttl * Limit
          BY <5>1, Constants, Monotone
        <5>3. b.tokens * Second \in Nat /\ b.idle * Limit \in Nat /\ Ttl * Limit \in Nat
          BY <5>1, Constants, Product
        <5>4. b.tokens * Second + b.idle * Limit >= Full
          BY <5>2, <5>3, Constants, FullBeforeForgotten DEF Full
        <5> QED BY <2>1, <4>2, <5>3, <5>4, Constants DEF BucketOK, Least
      <4> QED BY <4>1, <4>2
    <3> QED BY <3>1, <3>2 DEF BucketOK
  <2> QED BY <2>2, <2>3, <2>4
<1> QED BY <1>2, <1>3 DEF BucketsOK

-----------------------------------------------------------------------------
(* The answers.                                                            *)

LEMMA CallsCount ==
    ASSUME NEW S \in SUBSET Calls
    PROVE  /\ IsFiniteSet(S) /\ Cardinality(S) \in Nat
           /\ Cardinality(Calls) \in Nat /\ Cardinality(S) <= Cardinality(Calls)
BY CallsAreFinite, FS_Subset, FS_CardinalityType

LEMMA FewerCalls ==
    ASSUME NEW S \in SUBSET Calls, NEW T \in SUBSET S
    PROVE  Cardinality(T) <= Cardinality(S)
BY CallsCount, FS_Subset

LEMMA ApartCalls ==
    ASSUME NEW S \in SUBSET Calls, NEW T \in SUBSET Calls, S \cap T = {}
    PROVE  Cardinality(S) + Cardinality(T) <= Cardinality(Calls)
<1>1. IsFiniteSet(S) /\ IsFiniteSet(T) /\ S \cup T \in SUBSET Calls
  BY CallsCount
<1>2. Cardinality(S \cup T) =
          Cardinality(S) + Cardinality(T) - Cardinality(S \cap T)
  BY <1>1, FS_Union
<1>3. Cardinality(S \cap T) = 0
  BY FS_EmptySet
<1> QED BY <1>1, <1>2, <1>3, CallsCount

(* Each call is at one place with one key.                                 *)
LEMMA Counts ==
    ASSUME NEW k
    PROVE  /\ Executing(k) \in SUBSET Calls /\ Answering(k) \in SUBSET Calls
           /\ Cardinality(Executing(k)) \in Nat /\ Cardinality(Answering(k)) \in Nat
           /\ Cardinality(Calls) \in Nat
           /\ Cardinality(Answering(k)) <= Cardinality(Calls)
           /\ Cardinality(Executing(k)) + Cardinality(Answering(k)) <= Cardinality(Calls)
<1>1. /\ Executing(k) \in SUBSET Calls /\ Answering(k) \in SUBSET Calls
      /\ Executing(k) \cap Answering(k) = {}
  BY DEF Executing, Answering
<1> QED BY <1>1, CallsCount, ApartCalls

(* Steps that do not answer for k or record it.                            *)
LEMMA AnswersKeep ==
    ASSUME NEW k \in Keys, AnswersOK(k), executed[k] \in Nat,
           executed'[k] = executed[k], Recorded(k)' <=> Recorded(k),
           Recorded(k) => Executing(k)' \subseteq Executing(k),
           Answering(k) \subseteq Answering(k)', Answering(k)' \subseteq Calls
    PROVE  AnswersOK(k)'
<1>1. CASE Recorded(k)
  <2>1. Cardinality(Executing(k)') <= Cardinality(Executing(k))
    BY <1>1, Counts, FewerCalls
  <2>2. Executing(k)' \in SUBSET Calls
    BY <1>1, Counts
  <2>3. Cardinality(Executing(k)') \in Nat
    BY <2>2, CallsCount
  <2> QED BY <1>1, <2>1, <2>3, Counts DEF AnswersOK
<1>2. CASE ~Recorded(k)
  <2>1. Cardinality(Answering(k)) <= Cardinality(Answering(k)')
    BY FewerCalls
  <2>2. Cardinality(Answering(k)') \in Nat
    BY CallsCount
  <2> QED BY <1>2, <2>1, <2>2, Counts DEF AnswersOK
<1> QED BY <1>1, <1>2

(* A key whose answers are forgotten.                                      *)
LEMMA AnswersForgotten ==
    ASSUME NEW k \in Keys, executed'[k] = 0,
           Executing(k)' \in SUBSET Calls, Answering(k)' \in SUBSET Calls
    PROVE  AnswersOK(k)'
<1>1. /\ Cardinality(Executing(k)') \in Nat /\ Cardinality(Answering(k)') \in Nat
      /\ Cardinality(Executing(k)') <= Cardinality(Calls) /\ Cardinality(Calls) \in Nat
  BY CallsCount
<1> QED BY <1>1 DEF AnswersOK

LEMMA Places ==
    \A k : Executing(k)' \in SUBSET Calls /\ Answering(k)' \in SUBSET Calls
BY DEF Executing, Answering

(* Only a call that moves changes who executes and who has answered.       *)
LEMMA OthersStay ==
    ASSUME NEW p \in Calls, NEW k, \A q \in Calls \ {p} : call'[q] = call[q]
    PROVE  /\ Executing(k)' \ {p} = Executing(k) \ {p}
           /\ Answering(k)' \ {p} = Answering(k) \ {p}
BY DEF Executing, Answering

LEMMA RecordedKeeps ==
    ASSUME UNCHANGED recorded, NEW k
    PROVE  Recorded(k)' <=> Recorded(k)
BY DEF Recorded

(* Nothing else of a key is forgotten when its answer is replaced.         *)
LEMMA SetRecords ==
    ASSUME recorded \in Seq(Keys), NEW k \in Keys, Set(k)
    PROVE  /\ recorded' \in Seq(Keys)
           /\ Recorded(k)'
           /\ \A j \in Keys \ {k} : Recorded(j)' <=> Recorded(j)
<1> DEFINE n == Len(recorded)
           rest == Without(k)
<1>1. /\ rest \in Seq(Keys)
      /\ \A j \in Keys \ {k} :
            Recorded(j) <=> \E i \in 1..Len(rest) : rest[i] = j
  <2>1. CASE ~Recorded(k)
    BY <2>1 DEF Without, Recorded
  <2>2. CASE Recorded(k)
    <3> DEFINE at == CHOOSE i \in 1..n : recorded[i] = k
    <3>1. at \in 1..n /\ recorded[at] = k
      BY <2>2 DEF Recorded
    <3>2. rest = SubSeq(recorded, 1, at - 1) \o SubSeq(recorded, at + 1, n)
      BY <2>2 DEF Without, RemoveAt
    <3> HIDE DEF at, rest
    <3> DEFINE s == SubSeq(recorded, 1, at - 1)
               t == SubSeq(recorded, at + 1, n)
    <3>3. /\ s \in Seq(Keys) /\ Len(s) = at - 1
          /\ \A i \in 1..at - 1 : s[i] = recorded[i]
      BY <3>1
    <3>4. /\ t \in Seq(Keys) /\ Len(t) = n - at
          /\ \A i \in 1..n - at : t[i] = recorded[at + i]
      BY <3>1
    <3>5. n \in Nat /\ at \in Nat /\ at <= n /\ at >= 1
      BY <3>1
    <3> HIDE DEF s, t
    <3>6. rest \in Seq(Keys) /\ Len(rest) = Len(s) + Len(t)
      BY <3>2, <3>3, <3>4 DEF s, t
    <3>7. /\ \A i \in 1..Len(s) : rest[i] = s[i]
          /\ \A i \in 1..Len(t) : rest[Len(s) + i] = t[i]
      <4>1. rest = s \o t
        BY <3>2 DEF s, t
      <4> QED BY <3>3, <3>4, <4>1
    <3>8. Len(rest) = n - 1
      BY <3>3, <3>4, <3>5, <3>6
    <3>9. /\ \A i \in 1..at - 1 : rest[i] = recorded[i]
          /\ \A i \in 1..n - at : rest[(at - 1) + i] = recorded[at + i]
      BY <3>3, <3>4, <3>7
    <3>10. ASSUME NEW j \in Keys \ {k}, NEW i \in 1..n, recorded[i] = j
           PROVE  \E m \in 1..Len(rest) : rest[m] = j
      <4>1. i # at
        BY <3>1, <3>10
      <4>2. CASE i < at
        <5>1. i \in 1..at - 1 /\ i \in 1..Len(rest)
          BY <3>5, <3>8, <4>2
        <5> QED BY <3>9, <3>10, <5>1
      <4>3. CASE i > at
        <5>1. /\ i - at \in 1..n - at /\ (at - 1) + (i - at) = i - 1
              /\ at + (i - at) = i /\ i - 1 \in 1..Len(rest)
          BY <3>5, <3>8, <4>3
        <5>2. rest[i - 1] = recorded[i]
          BY <3>9, <5>1
        <5> QED BY <3>10, <5>1, <5>2
      <4> QED BY <3>5, <4>1, <4>2, <4>3
    <3>11. ASSUME NEW m \in 1..Len(rest) PROVE \E i \in 1..n : recorded[i] = rest[m]
      <4>1. CASE m <= at - 1
        <5>1. m \in 1..at - 1 /\ m \in 1..n
          BY <3>5, <3>8, <4>1
        <5> QED BY <3>9, <5>1
      <4>2. CASE m > at - 1
        <5>1. /\ m - (at - 1) \in 1..n - at /\ (at - 1) + (m - (at - 1)) = m
              /\ at + (m - (at - 1)) = m + 1 /\ m + 1 \in 1..n
          BY <3>5, <3>8, <4>2
        <5>2. rest[m] = recorded[m + 1]
          BY <3>9, <5>1
        <5> QED BY <5>1, <5>2
      <4> QED BY <3>5, <3>8, <4>1, <4>2
    <3> QED BY <3>6, <3>10, <3>11 DEF Recorded
  <2> QED BY <2>1, <2>2
<1> HIDE DEF rest
<1>2. recorded' = Append(rest, k)
  BY DEF Set, rest
<1>3. /\ recorded' \in Seq(Keys) /\ Len(recorded') = Len(rest) + 1
      /\ Len(rest) \in Nat /\ recorded'[Len(rest) + 1] = k
      /\ \A i \in 1..Len(rest) : recorded'[i] = rest[i]
  BY <1>1, <1>2
<1>4. Recorded(k)'
  <2>1. Len(rest) + 1 \in 1..Len(recorded')
    BY <1>3
  <2> QED BY <1>3, <2>1 DEF Recorded
<1>5. ASSUME NEW j \in Keys \ {k} PROVE Recorded(j)' <=> Recorded(j)
  <2>1. (\E i \in 1..Len(rest) : rest[i] = j) => Recorded(j)'
    BY <1>3 DEF Recorded
  <2>2. ASSUME NEW i \in 1..Len(recorded'), recorded'[i] = j
        PROVE  \E m \in 1..Len(rest) : rest[m] = j
    <3>1. i # Len(rest) + 1
      BY <1>3, <2>2
    <3>2. i \in 1..Len(rest)
      BY <1>3, <3>1
    <3> QED BY <1>3, <2>2, <3>2
  <2> QED BY <1>1, <2>1, <2>2 DEF Recorded
<1> QED BY <1>3, <1>4, <1>5

-----------------------------------------------------------------------------
(* What preserves the invariant.                                           *)

CallType == [pc : {"idle", "looking", "executing", "answered"}, key : Keys \cup {None}]

LEMMA GuardStart == GuardInit => GuardInv
<1> SUFFICES ASSUME GuardInit PROVE GuardInv
  OBVIOUS
<1>1. GuardType
  BY Constants DEF GuardInit, GuardType, NoCall
<1>2. BucketsOK
  BY Constants DEF GuardInit, BucketsOK, BucketOK
<1>3. ASSUME NEW k \in Keys PROVE AnswersOK(k)
  BY Counts DEF GuardInit, AnswersOK, Recorded
<1> QED BY <1>1, <1>2, <1>3 DEF GuardInv

(* What p does with its call, and what it means for the keys.              *)
LEMMA CallMoves ==
    ASSUME GuardType, NEW p \in Calls, NEW r \in CallType,
           r.pc = "answered" => r.key \in Keys,
           call' = [call EXCEPT ![p] = r]
    PROVE  /\ call' \in [Calls -> CallType] /\ call'[p] = r
           /\ \A q \in Calls : call'[q].pc = "answered" => call'[q].key \in Keys
           /\ \A q \in Calls \ {p} : call'[q] = call[q]
<1>1. call \in [Calls -> CallType]
  BY DEF GuardType, CallType
<1> QED BY <1>1 DEF GuardType

(* A call that has not answered ends or goes on, but for the handler.      *)
LEMMA NobodyAnswers ==
    ASSUME GuardInv, NEW p \in Calls, call[p].pc # "answered",
           \A q \in Calls \ {p} : call'[q] = call[q],
           UNCHANGED <<recorded, executed>>,
           NEW k \in Keys,
           call'[p].pc = "executing" /\ call'[p].key = k => ~Recorded(k)
    PROVE  AnswersOK(k)'
<1>1. /\ AnswersOK(k) /\ executed[k] \in Nat /\ executed'[k] = executed[k]
      /\ Recorded(k)' <=> Recorded(k)
  BY RecordedKeeps DEF GuardInv, GuardType
<1>2. Recorded(k) => Executing(k)' \subseteq Executing(k)
  BY OthersStay DEF Executing
<1>3. Answering(k) \subseteq Answering(k)'
  BY OthersStay DEF Answering
<1> QED BY <1>1, <1>2, <1>3, Places, AnswersKeep

LEMMA ArriveKeeps ==
    ASSUME GuardInv, NEW p \in Calls, NEW v \in Visitors, NEW k \in Keys \cup {None},
           Arrive(p, v, k)
    PROVE  GuardInv'
<1>1. PICK r \in {[pc |-> "looking", key |-> k], NoCall} :
          call' = [call EXCEPT ![p] = r]
  BY DEF Arrive
<1>2. r \in CallType /\ r.pc \notin {"executing", "answered"}
  BY DEF CallType, NoCall
<1>3. /\ call' \in [Calls -> CallType] /\ call'[p] = r
      /\ \A q \in Calls : call'[q].pc = "answered" => call'[q].key \in Keys
      /\ \A q \in Calls \ {p} : call'[q] = call[q]
  BY <1>1, <1>2, CallMoves DEF GuardInv
<1>4. /\ bucket' \in [Visitors -> Bucket \cup {None}]
      /\ ideal' \in [Visitors -> Int] /\ BucketsOK'
  BY CheckRateKeeps DEF Arrive, GuardInv
<1>5. UNCHANGED <<recorded, executed>> /\ call[p].pc # "answered"
  BY DEF Arrive, store
<1>6. ASSUME NEW j \in Keys PROVE AnswersOK(j)'
  BY <1>2, <1>3, <1>5, NobodyAnswers
<1> QED BY <1>3, <1>4, <1>5, <1>6 DEF GuardInv, GuardType, CallType

LEMMA LookupKeeps ==
    ASSUME GuardInv, NEW p \in Calls, Lookup(p) \/ Panic(p)
    PROVE  GuardInv'
<1> DEFINE k == call[p].key
<1>1. k \in Keys \cup {None} /\ call[p] \in CallType
  BY DEF GuardInv, GuardType, CallType
<1>2. PICK r \in {[pc |-> "executing", key |-> k], NoCall} :
          /\ call' = [call EXCEPT ![p] = r]
          /\ r.pc = "executing" => ~(k # None /\ Recorded(k))
  <2>1. [call[p] EXCEPT !.pc = "executing"] = [pc |-> "executing", key |-> k]
    BY <1>1 DEF CallType
  <2>2. CASE Lookup(p)
    BY <2>1, <2>2 DEF Lookup, NoCall
  <2>3. CASE Panic(p)
    BY <2>3 DEF Panic, NoCall
  <2> QED BY <2>2, <2>3
<1>3. r \in CallType /\ r.pc # "answered" /\ (r.pc = "executing" => r.key = k)
  BY <1>1, <1>2 DEF CallType, NoCall
<1>4. /\ call' \in [Calls -> CallType] /\ call'[p] = r
      /\ \A q \in Calls : call'[q].pc = "answered" => call'[q].key \in Keys
      /\ \A q \in Calls \ {p} : call'[q] = call[q]
  BY <1>2, <1>3, CallMoves DEF GuardInv
<1>5. /\ UNCHANGED <<bucket, ideal, recorded, executed>>
      /\ call[p].pc # "answered"
  BY DEF Lookup, Panic, store, limiter
<1>6. ASSUME NEW j \in Keys PROVE AnswersOK(j)'
  <2>1. j # None
    BY NoneIsNothing
  <2>2. call'[p].pc = "executing" /\ call'[p].key = j => ~Recorded(j)
    BY <1>2, <1>3, <1>4, <2>1
  <2> QED BY <1>4, <1>5, <2>2, NobodyAnswers
<1>7. BucketsOK'
  BY <1>5 DEF GuardInv, BucketsOK, BucketOK
<1> QED BY <1>4, <1>5, <1>6, <1>7 DEF GuardInv, GuardType, CallType

LEMMA ExecuteKeeps ==
    ASSUME GuardInv, NEW p \in Calls, Execute(p)
    PROVE  GuardInv'
<1>1. PICK k \in Keys \cup {None} :
          /\ k = call[p].key
          /\ call[p] \in CallType /\ call[p].pc = "executing"
  BY DEF GuardInv, GuardType, CallType, Execute
<1>2. PICK r \in {[pc |-> "answered", key |-> k], NoCall} :
          /\ call' = [call EXCEPT ![p] = r]
          /\ r = IF k = None THEN NoCall ELSE [pc |-> "answered", key |-> k]
  <2>1. [call[p] EXCEPT !.pc = "answered"] = [pc |-> "answered", key |-> k]
    BY <1>1 DEF CallType
  <2> QED BY <1>1, <2>1 DEF Execute
<1>3. r \in CallType /\ (r.pc = "answered" => r.key \in Keys) /\ r.pc # "executing"
  BY <1>1, <1>2 DEF CallType, NoCall
<1>4. /\ call' \in [Calls -> CallType] /\ call'[p] = r
      /\ \A q \in Calls : call'[q].pc = "answered" => call'[q].key \in Keys
      /\ \A q \in Calls \ {p} : call'[q] = call[q]
  BY <1>2, <1>3, CallMoves DEF GuardInv
<1>5. /\ UNCHANGED <<bucket, ideal, recorded>>
      /\ executed' = [j \in Keys |-> IF j = k THEN executed[j] + 1 ELSE executed[j]]
      /\ executed \in [Keys -> Nat]
  BY <1>1 DEF Execute, limiter, GuardInv, GuardType
<1>6. ASSUME NEW j \in Keys, j # k PROVE AnswersOK(j)'
  <2>1. /\ AnswersOK(j) /\ executed[j] \in Nat /\ executed'[j] = executed[j]
        /\ Recorded(j)' <=> Recorded(j)
    BY <1>5, <1>6, RecordedKeeps DEF GuardInv
  <2>2. Executing(j)' \subseteq Executing(j)
    BY <1>3, <1>4, OthersStay DEF Executing
  <2>3. Answering(j) \subseteq Answering(j)'
    BY <1>1, <1>4, OthersStay DEF Answering
  <2> QED BY <2>1, <2>2, <2>3, Places, AnswersKeep
<1>7. ASSUME k \in Keys PROVE AnswersOK(k)'
  <2>1. /\ AnswersOK(k) /\ executed[k] \in Nat /\ executed'[k] = executed[k] + 1
        /\ Recorded(k)' <=> Recorded(k)
    BY <1>5, <1>7, RecordedKeeps DEF GuardInv
  <2>2. r = [pc |-> "answered", key |-> k]
    BY <1>2, <1>7, NoneIsNothing
  <2>3. p \in Executing(k) /\ p \notin Answering(k)
    BY <1>1 DEF Executing, Answering
  <2>4. Executing(k)' = Executing(k) \ {p} /\ Answering(k)' = Answering(k) \cup {p}
    <3>1. /\ Executing(k)' \ {p} = Executing(k) \ {p}
          /\ Answering(k)' \ {p} = Answering(k) \ {p}
      BY <1>4, OthersStay
    <3>2. p \notin Executing(k)' /\ p \in Answering(k)'
      BY <1>4, <2>2 DEF Executing, Answering
    <3> QED BY <2>3, <3>1, <3>2
  <2>5. IsFiniteSet(Executing(k)) /\ IsFiniteSet(Answering(k))
    BY Counts, CallsCount
  <2>6. /\ Cardinality(Executing(k)') = Cardinality(Executing(k)) - 1
        /\ Cardinality(Answering(k)') = Cardinality(Answering(k)) + 1
    <3>1. Cardinality(Executing(k) \ {p}) = Cardinality(Executing(k)) - 1
      BY <2>3, <2>5, FS_RemoveElement
    <3>2. Cardinality(Answering(k) \cup {p}) = Cardinality(Answering(k)) + 1
      BY <2>3, <2>5, FS_AddElement
    <3> QED BY <2>4, <3>1, <3>2
  <2> QED BY <2>1, <2>6, Counts DEF AnswersOK
<1>8. BucketsOK'
  BY <1>5 DEF GuardInv, BucketsOK, BucketOK
<1>9. executed' \in [Keys -> Nat]
  BY <1>5
<1> QED BY <1>4, <1>5, <1>6, <1>7, <1>8, <1>9 DEF GuardInv, GuardType, CallType

LEMMA RecordKeeps ==
    ASSUME GuardInv, NEW p \in Calls, Record(p)
    PROVE  GuardInv'
<1>1. PICK k \in Keys :
          k = call[p].key /\ call[p].pc = "answered" /\ recorded \in Seq(Keys)
  BY DEF GuardInv, GuardType, Record
<1>2. NoCall \in CallType /\ NoCall.pc = "idle"
  BY DEF NoCall, CallType
<1>3. /\ call' \in [Calls -> CallType] /\ call'[p] = NoCall
      /\ \A q \in Calls : call'[q].pc = "answered" => call'[q].key \in Keys
      /\ \A q \in Calls \ {p} : call'[q] = call[q]
  BY <1>2, CallMoves DEF GuardInv, Record
<1>4. UNCHANGED <<bucket, ideal, executed>> /\ Set(k)
  BY <1>1 DEF Record, limiter
<1>5. /\ recorded' \in Seq(Keys) /\ Recorded(k)'
      /\ \A j \in Keys \ {k} : Recorded(j)' <=> Recorded(j)
  BY <1>1, <1>4, SetRecords
<1>6. ASSUME NEW j \in Keys, j # k PROVE AnswersOK(j)'
  <2>1. /\ AnswersOK(j) /\ executed[j] \in Nat /\ executed'[j] = executed[j]
        /\ Recorded(j)' <=> Recorded(j)
    BY <1>4, <1>5, <1>6 DEF GuardInv, GuardType
  <2>2. Executing(j)' \subseteq Executing(j)
    BY <1>2, <1>3, OthersStay DEF Executing
  <2>3. p \notin Answering(j)
    BY <1>1, <1>6 DEF Answering
  <2>4. Answering(j) \subseteq Answering(j)'
    BY <1>3, <2>3, OthersStay DEF Answering
  <2> QED BY <2>1, <2>2, <2>4, Places, AnswersKeep
<1>7. AnswersOK(k)'
  <2>1. AnswersOK(k) /\ executed[k] \in Nat /\ executed'[k] = executed[k]
    BY <1>1, <1>4 DEF GuardInv, GuardType
  <2>2. Executing(k)' = Executing(k)
    <3>1. p \notin Executing(k) /\ p \notin Executing(k)'
      BY <1>1, <1>2, <1>3 DEF Executing
    <3>2. Executing(k)' \ {p} = Executing(k) \ {p}
      BY <1>3, OthersStay
    <3> QED BY <3>1, <3>2
  <2>3. executed[k] + Cardinality(Executing(k)) <= Cardinality(Calls)
    BY <2>1, Counts DEF AnswersOK
  <2> QED BY <1>5, <2>1, <2>2, <2>3 DEF AnswersOK
<1>8. BucketsOK'
  BY <1>4 DEF GuardInv, BucketsOK, BucketOK
<1> QED BY <1>3, <1>4, <1>5, <1>6, <1>7, <1>8 DEF GuardInv, GuardType, CallType

LEMMA ForgetKeeps ==
    ASSUME GuardInv, CleanupRecords
    PROVE  GuardInv'
<1>1. PICK n \in 1..Len(recorded) :
          /\ recorded' = SubSeq(recorded, n + 1, Len(recorded))
          /\ executed' = [k \in Keys |->
                IF \E i \in 1..n : recorded[i] = k THEN 0 ELSE executed[k]]
  BY DEF CleanupRecords
<1>2. /\ UNCHANGED <<bucket, ideal, call>> /\ recorded \in Seq(Keys)
      /\ executed \in [Keys -> Nat]
  BY DEF CleanupRecords, limiter, GuardInv, GuardType
<1>3. /\ recorded' \in Seq(Keys) /\ Len(recorded') = Len(recorded) - n
      /\ \A i \in 1..Len(recorded) - n : recorded'[i] = recorded[n + i]
  BY <1>1, <1>2
<1>4. \A k : Executing(k)' = Executing(k) /\ Answering(k)' = Answering(k)
  BY <1>2 DEF Executing, Answering
<1>5. ASSUME NEW k \in Keys PROVE AnswersOK(k)'
  <2>1. CASE \E i \in 1..n : recorded[i] = k
    <3>1. executed'[k] = 0
      BY <1>1, <2>1
    <3> QED BY <3>1, Places, AnswersForgotten
  <2>2. CASE ~\E i \in 1..n : recorded[i] = k
    <3>1. executed'[k] = executed[k] /\ executed[k] \in Nat /\ AnswersOK(k)
      BY <1>1, <1>2, <2>2 DEF GuardInv
    <3>2. Recorded(k)' <=> Recorded(k)
      <4>1. ASSUME NEW i \in 1..Len(recorded), recorded[i] = k
            PROVE  \E m \in 1..Len(recorded') : recorded'[m] = k
        <5>1. i \notin 1..n /\ n \in Nat /\ Len(recorded) \in Nat
          BY <1>2, <2>2, <4>1
        <5>2. i - n \in 1..Len(recorded) - n /\ n + (i - n) = i
          BY <5>1
        <5> QED BY <1>3, <4>1, <5>2
      <4>2. ASSUME NEW m \in 1..Len(recorded'), recorded'[m] = k
            PROVE  \E i \in 1..Len(recorded) : recorded[i] = k
        <5>1. m \in 1..Len(recorded) - n /\ n + m \in 1..Len(recorded)
          BY <1>2, <1>3
        <5> QED BY <1>3, <4>2, <5>1
      <4> QED BY <4>1, <4>2 DEF Recorded
    <3> QED BY <1>4, <3>1, <3>2, Places, AnswersKeep
  <2> QED BY <2>1, <2>2
<1>6. executed' \in [Keys -> Nat]
  BY <1>1, <1>2
<1>7. BucketsOK'
  BY <1>2 DEF GuardInv, BucketsOK, BucketOK
<1> QED BY <1>2, <1>3, <1>5, <1>6, <1>7 DEF GuardInv, GuardType

LEMMA RestartKeeps == Restart => GuardInv'
<1> SUFFICES ASSUME Restart PROVE GuardInv'
  OBVIOUS
<1>1. GuardType'
  BY Constants DEF Restart, GuardType, NoCall
<1>2. BucketsOK'
  BY Constants DEF Restart, BucketsOK, BucketOK
<1>3. ASSUME NEW k \in Keys PROVE AnswersOK(k)'
  BY Places, AnswersForgotten DEF Restart
<1> QED BY <1>1, <1>2, <1>3 DEF GuardInv

LEMMA StoreUntouched ==
    ASSUME GuardInv, UNCHANGED <<store, call>>, NEW k \in Keys
    PROVE  AnswersOK(k)'
<1>1. UNCHANGED <<recorded, executed, call>> /\ AnswersOK(k)
  BY DEF store, GuardInv
<1> QED BY <1>1 DEF AnswersOK, Recorded, Executing, Answering

LEMMA GuardStep == GuardInv /\ [GuardNext]_guardVars => GuardInv'
<1> SUFFICES ASSUME GuardInv, [GuardNext]_guardVars PROVE GuardInv'
  OBVIOUS
<1>1. CASE ClockTick \/ CleanupVisitors
  <2>1. /\ bucket' \in [Visitors -> Bucket \cup {None}]
        /\ ideal' \in [Visitors -> Int] /\ BucketsOK'
    BY <1>1, TickKeeps, CleanupKeeps DEF GuardInv
  <2>2. UNCHANGED <<store, call>>
    BY <1>1 DEF ClockTick, CleanupVisitors
  <2>3. UNCHANGED <<recorded, executed, call>>
    BY <2>2 DEF store
  <2> QED BY <2>1, <2>2, <2>3, StoreUntouched DEF GuardInv, GuardType
<1>2. CASE UNCHANGED guardVars
  <2>1. UNCHANGED <<bucket, ideal, recorded, executed, call>>
    BY <1>2 DEF guardVars
  <2>2. \A k \in Keys : AnswersOK(k)'
    BY <2>1, StoreUntouched DEF store
  <2>3. BucketsOK'
    BY <2>1 DEF GuardInv, BucketsOK, BucketOK
  <2> QED BY <2>1, <2>2, <2>3 DEF GuardInv, GuardType
<1>3. CASE CleanupRecords
  BY <1>3, ForgetKeeps
<1>4. CASE Restart
  BY <1>4, RestartKeeps
<1>5. ASSUME NEW p \in Calls, Proceed(p) \/ Panic(p) PROVE GuardInv'
  BY <1>5, LookupKeeps, ExecuteKeeps, RecordKeeps DEF Proceed
<1>6. ASSUME NEW p \in Calls, NEW v \in Visitors, NEW k \in Keys \cup {None},
             Arrive(p, v, k)
      PROVE  GuardInv'
  BY <1>6, ArriveKeeps
<1> QED BY <1>1, <1>2, <1>3, <1>4, <1>5, <1>6 DEF GuardNext

(* The types of the two stores and of the calls, what an exact bucket has  *)
(* left and who may still execute a key: kept by each step of a call, by   *)
(* the clock, the cleanups and a restart.                                  *)
THEOREM GuardInvariance == GuardSpec => []GuardInv
BY GuardStart, GuardStep, PTL DEF GuardSpec

(* Whatever is rounded off by int(elapsed.Seconds() * limit), and whatever *)
(* the cleanup forgets, for any rate, burst and lifetime for which a       *)
(* bucket is full before it is forgotten: no visitor is let in more often  *)
(* than an exact bucket would let it in.                                   *)
THEOREM NeverAboveTheRate == GuardSpec => []AdmittedByAnExactBucket
<1>1. GuardInv => AdmittedByAnExactBucket
  <2> SUFFICES ASSUME GuardInv, NEW v \in Visitors PROVE ideal[v] >= 0
    BY DEF AdmittedByAnExactBucket
  <2>1. Refilled(v) \in 0..Burst /\ Refilled(v) * Second <= ideal[v] /\ ideal[v] \in Int
    BY RefillIsBacked DEF GuardInv, BucketsOK, GuardType
  <2>2. Refilled(v) * Second \in Nat
    BY <2>1, Constants, Product
  <2> QED BY <2>1, <2>2
<1> QED BY <1>1, GuardInvariance, PTL

(* A visitor that stays away for the second the 429 answer asks it to has  *)
(* a token, for any rate and burst of at least one.                        *)
THEOREM RetryIsAnswered == GuardSpec => []RetryAfterIsEnough
<1>1. GuardInv => RetryAfterIsEnough
  <2> SUFFICES ASSUME GuardInv, NEW v \in Visitors,
                      bucket[v] # None, bucket[v].idle >= Second
               PROVE  Refilled(v) >= 1
    BY DEF RetryAfterIsEnough
  <2> DEFINE t == bucket[v].tokens
             i == bucket[v].idle
             q == (i * Limit) \div Second
  <2>1. t \in Nat /\ i \in Nat /\ i >= Second
    BY Constants DEF GuardInv, GuardType, Bucket
  <2>2. Refilled(v) = Least(Burst, t + q)
    BY DEF Refilled, Found
  <2> HIDE DEF t, i
  <2>3. i * Limit \in Nat /\ i <= i * Limit
    BY <2>1, Constants, Product
  <2>4. i * Limit >= Second
    BY <2>1, <2>3, Constants
  <2>5. q \in Nat /\ q >= 1
    BY <2>3, <2>4, Constants, Division
  <2> HIDE DEF q
  <2> QED BY <2>1, <2>2, <2>5, Constants DEF Least
<1> QED BY <1>1, GuardInvariance, PTL

(* The handler runs under neither mutex, so calls with one Idempotency-Key *)
(* may all miss the store and execute: but never more often than calls can *)
(* run at the same time, for any number of calls, keys and records.        *)
THEOREM ExecutionsAreBounded == GuardSpec => []ExecutionsOverlap
<1>1. GuardInv => ExecutionsOverlap
  <2> SUFFICES ASSUME GuardInv, NEW k \in Keys
               PROVE  executed[k] <= Cardinality(Calls)
    BY DEF ExecutionsOverlap
  <2>1. AnswersOK(k) /\ executed[k] \in Nat
    BY DEF GuardInv, GuardType
  <2> QED BY <2>1, Counts DEF AnswersOK
<1> QED BY <1>1, GuardInvariance, PTL

-----------------------------------------------------------------------------
(* Every nonempty set of natural numbers has a least one.                  *)
LEMMA LeastNumber ==
    ASSUME NEW T, T \subseteq Nat, T # {}
    PROVE  \E n \in T : \A m \in T : n <= m
<1> DEFINE R == {ss \in Nat \X Nat : ss[1] < ss[2]}
<1>1. IsWellFoundedOn(R, Nat)
  BY NatLessThanWellFounded DEF OpToRel
<1>2. \A m, n \in Nat : m < n => <<m, n>> \in R
  OBVIOUS
<1> HIDE DEF R
<1>3. PICK n \in T : \A m \in T : ~(<<m, n>> \in R)
  BY <1>1, WFMin
<1>4. ASSUME NEW m \in T PROVE n <= m
  <2>1. m \in Nat /\ n \in Nat /\ ~(m < n)
    BY <1>2, <1>3
  <2> QED BY <2>1
<1> QED BY <1>4
-----------------------------------------------------------------------------
(* What a server does to the database before it serves.                    *)

Underway == {"migrating", "applying", "executed"}

(* Each migration a server has to see to is yet to be looked at or is      *)
(* applied; the one it is at is one of those to look at.                   *)
ServerOK(s) ==
    /\ server[s] \in [pc : {"down", "serving"} \cup Underway, todo : SUBSET Versions(s)]
    /\ StandsAt(s, "applying") \/ StandsAt(s, "executed") => server[s].todo # {}
    /\ server[s].pc \in Underway => Versions(s) \subseteq server[s].todo \cup applied
    /\ StandsAt(s, "serving") => Versions(s) \subseteq applied

SchemaInv ==
    /\ schema \in Seq(Nat)
    /\ AppliedOnce
    /\ server = [s \in Servers |-> server[s]]
    /\ \A s \in Servers : ServerOK(s)

LEMMA TurnOfAVersion ==
    ASSUME SchemaInv, NEW s \in Servers, server[s].todo # {}
    PROVE  NextVersion(s) \in server[s].todo /\ NextVersion(s) \in Nat
<1>1. server[s].todo \subseteq Nat
  BY VersionsAreNumbers DEF SchemaInv, ServerOK
<1>2. \E v \in server[s].todo : \A w \in server[s].todo : v <= w
  BY <1>1, LeastNumber
<1>3. NextVersion(s) \in server[s].todo
  BY <1>2 DEF NextVersion
<1> QED BY <1>1, <1>3

(* A server moves on and nothing is applied.                               *)
LEMMA ServerMoves ==
    ASSUME SchemaInv, NEW s \in Servers, NEW r,
           server' = [server EXCEPT ![s] = r], UNCHANGED <<schema, applied>>,
           r \in [pc : {"down", "serving"} \cup Underway, todo : SUBSET Versions(s)],
           r.pc \in {"applying", "executed"} => r.todo # {},
           r.pc \in Underway => Versions(s) \subseteq r.todo \cup applied,
           r.pc = "serving" => Versions(s) \subseteq applied
    PROVE  SchemaInv'
<1>1. /\ server' = [t \in Servers |-> server'[t]] /\ server'[s] = r
      /\ \A t \in Servers \ {s} : server'[t] = server[t]
  BY DEF SchemaInv
<1>2. ServerOK(s)'
  BY <1>1 DEF ServerOK, StandsAt
<1>3. ASSUME NEW t \in Servers \ {s} PROVE ServerOK(t)'
  <2>1. ServerOK(t)
    BY DEF SchemaInv
  <2> QED BY <1>1, <2>1 DEF ServerOK, StandsAt
<1>4. AppliedOnce'
  BY DEF SchemaInv, AppliedOnce
<1> QED BY <1>1, <1>2, <1>3, <1>4 DEF SchemaInv

LEMMA FatalKeeps ==
    ASSUME SchemaInv, NEW s \in Servers, Fatal(s), UNCHANGED <<schema, applied>>
    PROVE  SchemaInv'
<1>1. PICK r : r = Down
  OBVIOUS
<1>2. /\ r \in [pc : {"down", "serving"} \cup Underway, todo : SUBSET Versions(s)]
      /\ r.pc = "down"
  BY <1>1 DEF Down
<1>3. r.pc \notin Underway
  BY <1>2 DEF Underway
<1> QED BY <1>1, <1>2, <1>3, ServerMoves DEF Fatal, Underway

(* The version is recorded with what it did; it was not recorded before.   *)
LEMMA CommitKeeps ==
    ASSUME SchemaInv, NEW s \in Servers, Commit(s)
    PROVE  SchemaInv'
<1>1. StandsAt(s, "executed") /\ server[s].todo # {}
  BY DEF Commit, SchemaInv, ServerOK
<1>2. PICK v \in Nat : v = NextVersion(s) /\ v \in server[s].todo
  BY <1>1, TurnOfAVersion
<1>3. CASE v \in applied
  BY <1>2, <1>3, FatalKeeps DEF Commit, RecordVersion
<1>4. CASE v \notin applied
  <2>1. /\ schema' = Append(schema, v) /\ applied' = applied \cup {v}
        /\ server' = [server EXCEPT ![s] =
              [pc |-> "migrating", todo |-> server[s].todo \ {v}]]
    BY <1>2, <1>4 DEF Commit, RecordVersion
  <2>2. /\ schema \in Seq(Nat) /\ applied = {schema[i] : i \in DOMAIN schema}
        /\ \A i, j \in DOMAIN schema : schema[i] = schema[j] => i = j
    BY DEF SchemaInv, AppliedOnce
  <2>3. /\ schema' \in Seq(Nat) /\ DOMAIN schema = 1..Len(schema)
        /\ DOMAIN schema' = 1..(Len(schema) + 1) /\ Len(schema) \in Nat
        /\ schema'[Len(schema) + 1] = v
        /\ \A i \in 1..Len(schema) : schema'[i] = schema[i]
    BY <2>1, <2>2
  <2>4. \A i \in 1..Len(schema) : schema[i] # v
    BY <1>4, <2>2, <2>3
  <2>5. AppliedOnce'
    <3>1. ASSUME NEW i \in DOMAIN schema', NEW j \in DOMAIN schema', schema'[i] = schema'[j]
          PROVE  i = j
      <4>1. i \in 1..Len(schema) \/ i = Len(schema) + 1
        BY <2>3
      <4>2. j \in 1..Len(schema) \/ j = Len(schema) + 1
        BY <2>3
      <4> QED BY <2>2, <2>3, <2>4, <3>1, <4>1, <4>2
    <3>2. applied' = {schema'[i] : i \in DOMAIN schema'}
      <4>1. \A i \in DOMAIN schema' : schema'[i] \in applied'
        <5> SUFFICES ASSUME NEW i \in DOMAIN schema' PROVE schema'[i] \in applied'
          OBVIOUS
        <5>1. i \in 1..Len(schema) \/ i = Len(schema) + 1
          BY <2>3
        <5> QED BY <2>1, <2>2, <2>3, <5>1
      <4>2. \A w \in applied' : \E i \in DOMAIN schema' : schema'[i] = w
        <5>1. Len(schema) + 1 \in DOMAIN schema' /\ 1..Len(schema) \subseteq DOMAIN schema'
          BY <2>3
        <5> QED BY <2>1, <2>2, <2>3, <5>1
      <4> QED BY <4>1, <4>2
    <3> QED BY <3>1, <3>2 DEF AppliedOnce
  <2>6. /\ server' = [t \in Servers |-> server'[t]]
        /\ server'[s] = [pc |-> "migrating", todo |-> server[s].todo \ {v}]
        /\ \A t \in Servers \ {s} : server'[t] = server[t]
    BY <2>1 DEF SchemaInv
  <2>7. ServerOK(s) /\ server[s].pc = "executed"
    BY <1>1 DEF SchemaInv, StandsAt
  <2>8. ServerOK(s)'
    BY <2>1, <2>6, <2>7 DEF ServerOK, StandsAt, Underway
  <2>9. ASSUME NEW t \in Servers \ {s} PROVE ServerOK(t)'
    <3>1. ServerOK(t) /\ applied \subseteq applied'
      BY <2>1 DEF SchemaInv
    <3> QED BY <2>6, <3>1 DEF ServerOK, StandsAt
  <2> QED BY <2>3, <2>5, <2>6, <2>8, <2>9 DEF SchemaInv
<1> QED BY <1>3, <1>4

LEMMA StartsKeep ==
    ASSUME SchemaInv, NEW s \in Servers,
           LoadMigrations(s) \/ CheckApplied(s) \/ RunStatements(s) \/ Serve(s)
    PROVE  SchemaInv'
<1>1. ServerOK(s) /\ UNCHANGED <<schema, applied>>
  BY DEF SchemaInv, LoadMigrations, CheckApplied, RunStatements, Serve
<1>2. CASE LoadMigrations(s)
  <2>1. PICK r : r = [pc |-> "migrating", todo |-> Versions(s)]
    OBVIOUS
  <2>2. server' = [server EXCEPT ![s] = r]
    BY <1>2, <2>1 DEF LoadMigrations
  <2>3. /\ r \in [pc : {"down", "serving"} \cup Underway, todo : SUBSET Versions(s)]
        /\ r.pc = "migrating" /\ r.todo = Versions(s)
    BY <2>1 DEF Underway
  <2> QED BY <1>1, <2>2, <2>3, ServerMoves
<1>3. CASE CheckApplied(s)
  <2>1. server[s].pc = "migrating" /\ server[s].todo # {}
    BY <1>3 DEF CheckApplied, StandsAt
  <2>2. CASE NextVersion(s) \in applied
    <3>1. PICK r : r = [server[s] EXCEPT !.todo = server[s].todo \ {NextVersion(s)}]
      OBVIOUS
    <3>2. server' = [server EXCEPT ![s] = r]
      BY <1>3, <2>2, <3>1 DEF CheckApplied, IsApplied
    <3>3. /\ r \in [pc : {"down", "serving"} \cup Underway, todo : SUBSET Versions(s)]
          /\ r.pc = "migrating" /\ r.todo = server[s].todo \ {NextVersion(s)}
      BY <1>1, <2>1, <3>1 DEF ServerOK
    <3>4. Versions(s) \subseteq r.todo \cup applied
      BY <1>1, <2>1, <2>2, <3>3 DEF ServerOK, Underway
    <3> QED BY <1>1, <3>2, <3>3, <3>4, ServerMoves
  <2>3. CASE NextVersion(s) \notin applied
    <3>1. PICK r : r = [server[s] EXCEPT !.pc = "applying"]
      OBVIOUS
    <3>2. server' = [server EXCEPT ![s] = r]
      BY <1>3, <2>3, <3>1 DEF CheckApplied, IsApplied
    <3>3. /\ r \in [pc : {"down", "serving"} \cup Underway, todo : SUBSET Versions(s)]
          /\ r.pc = "applying" /\ r.todo = server[s].todo
      BY <1>1, <3>1 DEF ServerOK, Underway
    <3>4. Versions(s) \subseteq r.todo \cup applied
      BY <1>1, <2>1, <3>3 DEF ServerOK, Underway
    <3> QED BY <1>1, <2>1, <3>2, <3>3, <3>4, ServerMoves
  <2> QED BY <2>2, <2>3
<1>4. CASE RunStatements(s)
  <2>1. server[s].pc = "applying" /\ server[s].todo # {}
    BY <1>1, <1>4 DEF RunStatements, StandsAt, ServerOK
  <2>2. CASE Fatal(s)
    BY <1>1, <2>2, FatalKeeps
  <2>3. CASE server' = [server EXCEPT ![s] = [server[s] EXCEPT !.pc = "executed"]]
    <3>1. PICK r : r = [server[s] EXCEPT !.pc = "executed"]
      OBVIOUS
    <3>2. server' = [server EXCEPT ![s] = r]
      BY <2>3, <3>1
    <3>3. /\ r \in [pc : {"down", "serving"} \cup Underway, todo : SUBSET Versions(s)]
          /\ r.pc = "executed" /\ r.todo = server[s].todo
      BY <1>1, <3>1 DEF ServerOK, Underway
    <3>4. Versions(s) \subseteq r.todo \cup applied
      BY <1>1, <2>1, <3>3 DEF ServerOK, Underway
    <3> QED BY <1>1, <2>1, <3>2, <3>3, <3>4, ServerMoves
  <2> QED BY <1>4, <2>2, <2>3 DEF RunStatements
<1>5. CASE Serve(s)
  <2>1. server[s].pc = "migrating" /\ server[s].todo = {}
    BY <1>5 DEF Serve, StandsAt
  <2>2. PICK r : r = [server[s] EXCEPT !.pc = "serving"]
    OBVIOUS
  <2>3. server' = [server EXCEPT ![s] = r]
    BY <1>5, <2>2 DEF Serve
  <2>4. /\ r \in [pc : {"down", "serving"} \cup Underway, todo : SUBSET Versions(s)]
        /\ r.pc = "serving"
    BY <1>1, <2>2 DEF ServerOK
  <2>5. Versions(s) \subseteq applied
    BY <1>1, <2>1 DEF ServerOK, Underway
  <2> QED BY <1>1, <2>3, <2>4, <2>5, ServerMoves DEF Underway
<1> QED BY <1>2, <1>3, <1>4, <1>5

LEMMA SchemaStart == StartupInit => SchemaInv
<1> SUFFICES ASSUME StartupInit PROVE SchemaInv
  OBVIOUS
<1>1. schema = <<>> /\ applied = {} /\ server = [s \in Servers |-> Down]
  BY DEF StartupInit
<1>2. AppliedOnce
  BY <1>1 DEF AppliedOnce
<1>3. ASSUME NEW s \in Servers PROVE ServerOK(s)
  BY <1>1 DEF ServerOK, StandsAt, Down, Underway
<1> QED BY <1>1, <1>2, <1>3 DEF SchemaInv

LEMMA SchemaStep == SchemaInv /\ [StartupNext]_startupVars => SchemaInv'
<1> SUFFICES ASSUME SchemaInv, [StartupNext]_startupVars PROVE SchemaInv'
  OBVIOUS
<1>1. ASSUME NEW s \in Servers, StartUp(s) PROVE SchemaInv'
  BY <1>1, StartsKeep, CommitKeeps DEF StartUp
<1>2. ASSUME NEW s \in Servers, Crash(s) PROVE SchemaInv'
  BY <1>2, FatalKeeps DEF Crash
<1>3. CASE UNCHANGED startupVars
  BY <1>3 DEF startupVars, SchemaInv, AppliedOnce, ServerOK, StandsAt
<1> QED BY <1>1, <1>2, <1>3 DEF StartupNext

(* RunMigrations looks up each version by itself and applies it together   *)
(* with its record: for any releases, however many servers start at once   *)
(* and wherever they crash, no migration is applied twice and a server     *)
(* that serves has all of its own.                                         *)
THEOREM SchemaStaysWhole == StartupSpec => []SchemaIsWhole
<1>1. SchemaInv => SchemaIsWhole
  <2> SUFFICES ASSUME SchemaInv PROVE SchemaIsWhole
    OBVIOUS
  <2>1. AppliedOnce
    BY DEF SchemaInv
  <2>2. ASSUME NEW s \in Servers, StandsAt(s, "serving"), NEW i \in DOMAIN Directory[s]
        PROVE  Applied(Directory[s][i])
    <3>1. Directory[s][i] \in applied
      BY <2>2 DEF SchemaInv, ServerOK, Versions
    <3> QED BY <2>1, <3>1 DEF AppliedOnce, Applied
  <2> QED BY <2>1, <2>2 DEF SchemaIsWhole, ServedSchemaIsComplete
<1>2. StartupInit /\ [][StartupNext]_startupVars => []SchemaInv
  BY SchemaStart, SchemaStep, PTL
<1> QED BY <1>1, <1>2, PTL DEF StartupSpec

-----------------------------------------------------------------------------
(* A set that has 0, and n whenever it has n - 1, has every number.        *)
LEMMA UpTo ==
    ASSUME NEW N \in Nat, NEW T, 0 \in T, \A n \in 1 .. N : n - 1 \in T => n \in T
    PROVE  0 .. N \subseteq T
<1> SUFFICES ASSUME (0 .. N) \ T # {} PROVE FALSE
  OBVIOUS
<1>1. PICK n \in (0 .. N) \ T : \A m \in (0 .. N) \ T : n <= m
  <2>1. (0 .. N) \ T \subseteq Nat
    OBVIOUS
  <2> QED BY <2>1, LeastNumber
<1>2. n \in 1 .. N /\ n - 1 \in 0 .. N /\ n - 1 < n
  BY <1>1
<1>3. n - 1 \in T
  BY <1>1, <1>2
<1> QED BY <1>1, <1>2, <1>3

(* Steps can be taken one after another.                                   *)
HasRun(N, S, b, step) ==
    \E g \in [0 .. N -> S] : g[0] = b /\ \A n \in 1 .. N : g[n] = step[n][g[n - 1]]

LEMMA RunExists ==
    ASSUME NEW N \in Nat, NEW S, NEW b \in S, NEW step \in [1 .. N -> [S -> S]]
    PROVE  HasRun(N, S, b, step)
<1> DEFINE Run(g, k) == /\ g \in [0 .. k -> S] /\ g[0] = b
                        /\ \A n \in 1 .. k : g[n] = step[n][g[n - 1]]
           T == {k \in 0 .. N : \E g : Run(g, k)}
<1>1. 0 \in T
  <2> DEFINE g0 == [i \in 0 .. 0 |-> b]
  <2>1. g0 \in [0 .. 0 -> S] /\ g0[0] = b
    OBVIOUS
  <2> HIDE DEF g0
  <2>2. Run(g0, 0)
    BY <2>1
  <2>3. \E g : Run(g, 0)
    BY <2>2
  <2> QED BY <2>3
<1>2. ASSUME NEW k \in 1 .. N, k - 1 \in T PROVE k \in T
  <2>1. PICK g : Run(g, k - 1)
    BY <1>2
  <2> DEFINE h == [i \in 0 .. k |-> IF i = k THEN step[k][g[k - 1]] ELSE g[i]]
  <2>2. h \in [0 .. k -> S]
    BY <2>1
  <2>3. \A i \in 0 .. k - 1 : h[i] = g[i]
    OBVIOUS
  <2>4. h[k] = step[k][g[k - 1]]
    OBVIOUS
  <2> HIDE DEF h
  <2>5. ASSUME NEW n \in 1 .. k PROVE h[n] = step[n][h[n - 1]]
    <3>1. CASE n = k
      BY <2>3, <2>4, <3>1
    <3>2. CASE n \in 1 .. k - 1
      BY <2>1, <2>3, <3>2
    <3> QED BY <3>1, <3>2
  <2> QED BY <2>1, <2>2, <2>3, <2>5
<1> HIDE DEF T
<1>3. 0 .. N \subseteq T
  BY <1>1, <1>2, UpTo
<1> QED BY <1>3 DEF T, HasRun

-----------------------------------------------------------------------------
(* Scripts: what the scanner carries from one character to the next.       *)

Scanner ==
    [within : {"sql", "line", "block", "string", "dollar"}, tag : Seq(Characters),
     cur : Seq(Characters), stmts : Seq(Seq(Characters)), skip : Int]

LEMMA Parts ==
    ASSUME NEW S, NEW s \in Seq(S), NEW i \in Int, NEW j \in Int, i >= 1, j <= Len(s)
    PROVE  /\ SubSeq(s, i, j) \in Seq(S)
           /\ i <= j + 1 => Len(SubSeq(s, i, j)) = j - i + 1
           /\ \A k \in 1 .. j - i + 1 : SubSeq(s, i, j)[k] = s[i + k - 1]
OBVIOUS

LEMMA TrimIsText ==
    ASSUME NEW s \in Seq(Characters)
    PROVE  Trim(s) \in Seq(Characters)
<1> DEFINE ink == {i \in DOMAIN s : s[i] \notin Blanks}
           first == CHOOSE i \in ink : \A j \in ink : i <= j
           last == CHOOSE i \in ink : \A j \in ink : j <= i
<1>1. CASE ink = {}
  BY <1>1 DEF Trim
<1>2. CASE ink # {}
  <2>1. ink \subseteq 1 .. Len(s) /\ Len(s) \in Nat /\ ink # {}
    BY <1>2
  <2> HIDE DEF ink
  <2>7. ink \subseteq Nat
    BY <2>1
  <2>2. \E i \in ink : \A j \in ink : i <= j
    BY <2>1, <2>7, LeastNumber
  <2>3. \E i \in ink : \A j \in ink : j <= i
    <3> DEFINE back == {Len(s) - i : i \in ink}
    <3>1. back \subseteq Nat /\ back # {}
      <4>1. \A i \in ink : Len(s) - i \in Nat
        BY <2>1
      <4>2. \E i \in ink : TRUE
        BY <2>1
      <4> QED BY <4>1, <4>2
    <3> HIDE DEF back
    <3>2. PICK b \in back : \A c \in back : b <= c
      BY <3>1, LeastNumber
    <3>3. PICK i \in ink : b = Len(s) - i
      BY <3>2 DEF back
    <3>4. ASSUME NEW j \in ink PROVE j <= i
      <4>1. Len(s) - j \in back
        BY DEF back
      <4> QED BY <2>1, <3>2, <3>3, <4>1
    <3> QED BY <3>4
  <2>4. first \in ink /\ last \in ink
    <3>1. first \in ink
      BY <2>2
    <3>2. last \in ink
      BY <2>3
    <3> QED BY <3>1, <3>2
  <2> HIDE DEF first, last
  <2>5. SubSeq(s, first, last) \in Seq(Characters)
    <3>1. first \in Int /\ last \in Int /\ first >= 1 /\ last <= Len(s)
      BY <2>1, <2>4
    <3> QED BY <3>1, Parts
  <2>6. Trim(s) = SubSeq(s, first, last)
    BY <1>2 DEF Trim, first, last, ink
  <2> QED BY <2>5, <2>6
<1> QED BY <1>1, <1>2

LEMMA AddIsText ==
    ASSUME NEW stmts \in Seq(Seq(Characters)), NEW s \in Seq(Characters)
    PROVE  Add(stmts, s) \in Seq(Seq(Characters))
<1>1. Trim(s) \in Seq(Characters)
  BY TrimIsText
<1> QED BY <1>1 DEF Add

(* A tag ends at the first dollar after it, if all between may be in one.  *)
EndsTag(s, i, j) ==
    /\ s[j] = "$"
    /\ \A k \in i + 1 .. j - 1 : s[k] \in Letters \cup Digits
    /\ j > i + 1 => s[i + 1] \in Letters

LEMMA TagEnds ==
    ASSUME NEW s \in Seq(Characters), NEW i \in 1 .. Len(s)
    PROVE  LET e == DollarAfterTag(s, i) IN
           \/ e = 0 /\ (Len(s) < i + 2 \/ \A j \in i + 1 .. Len(s) : ~EndsTag(s, i, j))
           \/ /\ e \in i + 1 .. Len(s) /\ EndsTag(s, i, e)
              /\ \A j \in i + 1 .. Len(s) : EndsTag(s, i, j) => e <= j
<1> DEFINE ends == {j \in i + 1 .. Len(s) : EndsTag(s, i, j)}
<1>1. DollarAfterTag(s, i)
        = IF ends = {} \/ Len(s) < i + 2 THEN 0 ELSE CHOOSE j \in ends : \A k \in ends : j <= k
  BY DEF DollarAfterTag, EndsTag
<1>2. CASE ends = {} \/ Len(s) < i + 2
  BY <1>1, <1>2
<1>3. CASE ~(ends = {} \/ Len(s) < i + 2)
  <2>1. ends \subseteq Nat
    OBVIOUS
  <2>2. \E j \in ends : \A k \in ends : j <= k
    <3> HIDE DEF ends
    <3> QED BY <1>3, <2>1, LeastNumber
  <2>3. DollarAfterTag(s, i) \in ends /\ \A k \in ends : DollarAfterTag(s, i) <= k
    <3> HIDE DEF ends
    <3> QED BY <1>1, <1>3, <2>2
  <2> QED BY <2>3
<1> QED BY <1>2, <1>3

(* The characters a dollar quote still has at i, if its tag is met again.  *)
Closes(s, x, i, j) ==
    /\ j \in i .. Len(s) - Len(x.tag) + 1
    /\ SubSeq(s, j, j + Len(x.tag) - 1) = x.tag
Copied(s, x, i, j) == SubSeq(s, i, Len(x.tag) - 1 + j)

LEMMA QuoteGoesOn ==
    ASSUME NEW s \in Seq(Characters), NEW x \in Scanner, NEW i \in 1 .. Len(s)
    PROVE  \/ /\ InDollarQuote(x, s, i) = Keep(x, <<s[i]>>)
              /\ \A j \in Int : ~Closes(s, x, i, j)
           \/ \E j \in Int :
                 /\ Closes(s, x, i, j) /\ \A k \in Int : Closes(s, x, i, k) => j <= k
                 /\ InDollarQuote(x, s, i)
                      = [x EXCEPT !.cur = @ \o Copied(s, x, i, j),
                                  !.skip = Bytes(Copied(s, x, i, j)) - 1, !.within = "sql"]
<1> DEFINE n == Len(x.tag)
           closings == {j \in i .. Len(s) - n + 1 : SubSeq(s, j, j + n - 1) = x.tag}
           copied == SubSeq(s, i, n - 1 + CHOOSE j \in closings : \A k \in closings : j <= k)
<1>1. InDollarQuote(x, s, i)
        = IF closings = {} THEN Keep(x, <<s[i]>>)
          ELSE [x EXCEPT !.cur = @ \o copied, !.skip = Bytes(copied) - 1, !.within = "sql"]
  BY Zenon DEF InDollarQuote
<1>2. n \in Nat /\ closings \subseteq Nat
  BY DEF Scanner
<1>3. \A j \in Int : j \in closings <=> Closes(s, x, i, j)
  BY <1>2 DEF Closes
<1> HIDE DEF closings
<1>4. CASE closings = {}
  BY <1>1, <1>3, <1>4
<1>5. CASE closings # {}
  <2>1. PICK j \in closings : \A k \in closings : j <= k
    BY <1>2, <1>5, LeastNumber
  <2>2. j = CHOOSE k \in closings : \A l \in closings : k <= l
    <3> DEFINE c == CHOOSE k \in closings : \A l \in closings : k <= l
    <3>1. c \in closings /\ \A l \in closings : c <= l
      BY <2>1
    <3> HIDE DEF c
    <3>2. c <= j /\ j <= c /\ c \in Nat /\ j \in Nat
      BY <1>2, <2>1, <3>1
    <3>3. c = j
      BY <3>2
    <3> QED BY <3>3 DEF c
  <2>3. copied = Copied(s, x, i, j)
    BY <2>2 DEF Copied
  <2>4. j \in Int /\ Closes(s, x, i, j) /\ \A k \in Int : Closes(s, x, i, k) => j <= k
    BY <1>2, <1>3, <2>1
  <2>5. InDollarQuote(x, s, i)
          = [x EXCEPT !.cur = @ \o Copied(s, x, i, j),
                      !.skip = Bytes(Copied(s, x, i, j)) - 1, !.within = "sql"]
    BY <1>1, <1>5, <2>3
  <2> QED BY <2>4, <2>5
<1> QED BY <1>4, <1>5

LEMMA ScannerMoves ==
    ASSUME NEW x \in Scanner, NEW w \in {"sql", "line", "block", "string", "dollar"},
           NEW k \in Int
    PROVE  /\ [x EXCEPT !.within = w] \in Scanner
           /\ [x EXCEPT !.skip = k] \in Scanner
           /\ [x EXCEPT !.within = w, !.skip = k] \in Scanner
<1> DEFINE T == Seq(Characters)
           U == Seq(T)
           R == [within : {"sql", "line", "block", "string", "dollar"}, tag : T, cur : T,
                 stmts : U, skip : Int]
<1>1. Scanner = R
  BY DEF Scanner
<1> HIDE DEF U
<1> HIDE DEF T
<1>2. x \in R
  BY <1>1
<1>3. /\ [x EXCEPT !.within = w] \in R
      /\ [x EXCEPT !.skip = k] \in R
      /\ [x EXCEPT !.within = w, !.skip = k] \in R
  BY <1>2
<1> QED BY <1>1, <1>3

LEMMA KeepIsScanner ==
    ASSUME NEW x \in Scanner, NEW chars \in Seq(Characters)
    PROVE  Keep(x, chars) \in Scanner
<1>1. x.cur \o chars \in Seq(Characters) /\ Len(chars) - 1 \in Int
  BY DEF Scanner
<1> QED BY <1>1 DEF Keep, Scanner

LEMMA InStringIsScanner ==
    ASSUME NEW s \in Seq(Characters), NEW x \in Scanner, NEW i \in 1 .. Len(s)
    PROVE  InString(x, s, i) \in Scanner
<1>1. CASE s[i] # Quote
  <2>1. <<s[i]>> \in Seq(Characters)
    OBVIOUS
  <2> QED BY <1>1, <2>1, KeepIsScanner DEF InString
<1>2. CASE s[i] = Quote
  <2>1. <<Quote>> \in Seq(Characters) /\ <<Quote, Quote>> \in Seq(Characters)
    <3>1. Quote \in Characters
      BY <1>2
    <3> QED BY <3>1
  <2>2. Keep(x, <<Quote>>) \in Scanner /\ Keep(x, <<Quote, Quote>>) \in Scanner
    BY <2>1, KeepIsScanner
  <2>3. [Keep(x, <<Quote>>) EXCEPT !.within = "sql"] \in Scanner
    BY <2>2 DEF Scanner
  <2> QED BY <1>2, <2>2, <2>3 DEF InString
<1> QED BY <1>1, <1>2

LEMMA BytesAre ==
    ASSUME NEW chars \in Seq(Characters)
    PROVE  /\ Bytes(chars) \in Nat
           /\ ~IsWide(chars) => Bytes(chars) = Len(chars)
<1> DEFINE wide == {i \in DOMAIN chars : chars[i] \in Wide}
<1>1. IsFiniteSet(1 .. Len(chars)) /\ wide \subseteq 1 .. Len(chars)
  BY FS_Interval
<1>2. Cardinality(wide) \in Nat
  BY <1>1, FS_Subset, FS_CardinalityType
<1>3. ~IsWide(chars) => wide = {}
  BY DEF IsWide
<1>4. wide = {} => Cardinality(wide) = 0
  BY FS_EmptySet
<1> HIDE DEF wide
<1>5. Bytes(chars) = Len(chars) + Cardinality(wide)
  BY DEF Bytes, wide
<1> QED BY <1>2, <1>3, <1>4, <1>5

LEMMA InDollarQuoteIsScanner ==
    ASSUME NEW s \in Seq(Characters), NEW x \in Scanner, NEW i \in 1 .. Len(s)
    PROVE  InDollarQuote(x, s, i) \in Scanner
<1>1. CASE InDollarQuote(x, s, i) = Keep(x, <<s[i]>>)
  <2>1. <<s[i]>> \in Seq(Characters)
    OBVIOUS
  <2> QED BY <1>1, <2>1, KeepIsScanner
<1>2. ASSUME NEW j \in Int, Closes(s, x, i, j),
             InDollarQuote(x, s, i)
               = [x EXCEPT !.cur = @ \o Copied(s, x, i, j),
                           !.skip = Bytes(Copied(s, x, i, j)) - 1, !.within = "sql"]
      PROVE  InDollarQuote(x, s, i) \in Scanner
  <2>1. Len(x.tag) \in Nat /\ x.cur \in Seq(Characters)
    BY DEF Scanner
  <2>2. Copied(s, x, i, j) \in Seq(Characters)
    <3>1. Len(x.tag) - 1 + j \in Int /\ Len(x.tag) - 1 + j <= Len(s)
      <4>1. j \in i .. Len(s) - Len(x.tag) + 1
        BY <1>2, Zenon DEF Closes
      <4>2. Len(s) \in Nat
        OBVIOUS
      <4> QED BY <2>1, <4>1, <4>2
    <3> QED BY <3>1, Parts DEF Copied
  <2>3. x.cur \o Copied(s, x, i, j) \in Seq(Characters) /\ Bytes(Copied(s, x, i, j)) - 1 \in Int
    BY <2>1, <2>2, BytesAre
  <2> QED BY <1>2, <2>3 DEF Scanner
<1> QED BY <1>1, <1>2, QuoteGoesOn

LEMMA InSQLIsScanner ==
    ASSUME NEW s \in Seq(Characters), NEW x \in Scanner, NEW i \in 1 .. Len(s)
    PROVE  InSQL(x, s, i) \in Scanner
<1>1. <<s[i]>> \in Seq(Characters)
  OBVIOUS
<1>2. Keep(x, <<s[i]>>) \in Scanner
  BY <1>1, KeepIsScanner
<1>3. s[i] = Quote => [Keep(x, <<Quote>>) EXCEPT !.within = "string"] \in Scanner
  BY <1>2 DEF Scanner
<1>4. /\ [x EXCEPT !.within = "line", !.skip = 1] \in Scanner
      /\ [x EXCEPT !.within = "block", !.skip = 1] \in Scanner
  <2>1. "line" \in {"sql", "line", "block", "string", "dollar"}
        /\ "block" \in {"sql", "line", "block", "string", "dollar"} /\ 1 \in Int
    OBVIOUS
  <2> QED BY <2>1, ScannerMoves, Zenon
<1>5. ASSUME DollarAfterTag(s, i) # 0
      PROVE  LET tag == SubSeq(s, i, DollarAfterTag(s, i)) IN
             [Keep(x, tag) EXCEPT !.within = "dollar", !.tag = tag] \in Scanner
  <2> DEFINE tag == SubSeq(s, i, DollarAfterTag(s, i))
  <2>1. tag \in Seq(Characters)
    <3>1. DollarAfterTag(s, i) \in Int /\ DollarAfterTag(s, i) <= Len(s)
      BY <1>5, TagEnds
    <3> QED BY <3>1, Parts
  <2> HIDE DEF tag
  <2>2. Keep(x, tag) \in Scanner
    BY <2>1, KeepIsScanner
  <2>3. [Keep(x, tag) EXCEPT !.within = "dollar", !.tag = tag] \in Scanner
    BY <2>1, <2>2 DEF Scanner
  <2> QED BY <2>3 DEF tag
<1>6. [x EXCEPT !.stmts = Add(@, x.cur), !.cur = <<>>] \in Scanner
  <2>1. Add(x.stmts, x.cur) \in Seq(Seq(Characters)) /\ <<>> \in Seq(Characters)
    BY AddIsText DEF Scanner
  <2> QED BY <2>1 DEF Scanner
<1> QED BY <1>2, <1>3, <1>4, <1>5, <1>6 DEF InSQL

LEMMA ScanIsScanner ==
    ASSUME NEW s \in Seq(Characters), NEW x \in Scanner, NEW i \in 1 .. Len(s)
    PROVE  Scan(s, x, i) \in Scanner
<1>1. [x EXCEPT !.skip = @ - 1] \in Scanner
  <2>1. x.skip - 1 \in Int
    BY DEF Scanner
  <2> QED BY <2>1, ScannerMoves
<1>2. /\ [x EXCEPT !.within = "sql"] \in Scanner
      /\ [x EXCEPT !.within = "sql", !.skip = 1] \in Scanner
  <2>1. "sql" \in {"sql", "line", "block", "string", "dollar"} /\ 1 \in Int
    OBVIOUS
  <2> QED BY <2>1, ScannerMoves, Zenon
<1>3. x.within \in {"sql", "line", "block", "string", "dollar"}
  BY DEF Scanner
<1> QED BY <1>1, <1>2, <1>3, InStringIsScanner, InDollarQuoteIsScanner, InSQLIsScanner DEF Scan

(* What the scanner is at after each character.                            *)
IsScan(s, g) ==
    /\ g \in [0 .. Len(s) -> Scanner] /\ g[0] = ScanStart
    /\ \A i \in 1 .. Len(s) : g[i] = Scan(s, g[i - 1], i)

LEMMA ScanExists ==
    ASSUME NEW s \in Seq(Characters)
    PROVE  \E g : IsScan(s, g) /\ SplitSQL(s) = Add(g[Len(s)].stmts, g[Len(s)].cur)
<1> DEFINE N == Len(s)
           step == [i \in 1 .. N |-> [x \in Scanner |-> Scan(s, x, i)]]
           scanned[i \in 0 .. N] == IF i = 0 THEN ScanStart ELSE Scan(s, scanned[i - 1], i)
<1>1. N \in Nat
  OBVIOUS
<1>2. step \in [1 .. N -> [Scanner -> Scanner]]
  BY ScanIsScanner
<1>3. ScanStart \in Scanner
  BY DEF ScanStart, Scanner
<1>4. PICK f \in [0 .. N -> Scanner] :
          f[0] = ScanStart /\ \A i \in 1 .. N : f[i] = step[i][f[i - 1]]
  <2> HIDE DEF step, N
  <2>1. HasRun(N, Scanner, ScanStart, step)
    BY <1>1, <1>2, <1>3, RunExists
  <2> QED BY <2>1 DEF HasRun
<1>5. ASSUME NEW i \in 1 .. N PROVE f[i] = Scan(s, f[i - 1], i)
  <2>1. f[i - 1] \in Scanner
    <3> HIDE DEF step
    <3> QED BY <1>1, <1>4
  <2>2. \A x \in Scanner : step[i][x] = Scan(s, x, i)
    OBVIOUS
  <2> HIDE DEF step
  <2> QED BY <1>4, <2>1, <2>2
<1> HIDE DEF step
<1>6. f = [i \in 0 .. N |-> IF i = 0 THEN ScanStart ELSE Scan(s, f[i - 1], i)]
  <2>1. \A i \in 0 .. N : f[i] = IF i = 0 THEN ScanStart ELSE Scan(s, f[i - 1], i)
    <3> SUFFICES ASSUME NEW i \in 0 .. N
                 PROVE  f[i] = IF i = 0 THEN ScanStart ELSE Scan(s, f[i - 1], i)
      OBVIOUS
    <3>1. i # 0 => i \in 1 .. N
      BY <1>1
    <3> HIDE DEF N
    <3> QED BY <1>4, <1>5, <3>1
  <2> QED BY <1>4, <2>1
<1>7. scanned = [i \in 0 .. N |-> IF i = 0 THEN ScanStart ELSE Scan(s, scanned[i - 1], i)]
  <2> SUFFICES \E h : h = [i \in 0 .. N |-> IF i = 0 THEN ScanStart ELSE Scan(s, h[i - 1], i)]
    BY Zenon
  <2> QED BY <1>6, Zenon
<1>8. SplitSQL(s) = Add(scanned[N].stmts, scanned[N].cur)
  BY Zenon DEF SplitSQL
<1> HIDE DEF scanned
<1>9. /\ scanned[0] = ScanStart
      /\ \A i \in 1 .. N : scanned[i] = Scan(s, scanned[i - 1], i)
  <2>1. \A i \in 0 .. N : scanned[i] = IF i = 0 THEN ScanStart ELSE Scan(s, scanned[i - 1], i)
    BY <1>7, Zenon
  <2>2. 0 \in 0 .. N /\ \A i \in 1 .. N : i \in 0 .. N /\ i # 0
    BY <1>1
  <2> HIDE DEF N
  <2> QED BY <2>1, <2>2
<1>10. \A i \in 0 .. N : scanned[i] \in Scanner
  <2> DEFINE T == {i \in 0 .. N : scanned[i] \in Scanner}
  <2>1. 0 \in T
    BY <1>1, <1>3, <1>9
  <2>2. ASSUME NEW i \in 1 .. N, i - 1 \in T PROVE i \in T
    BY <1>9, <2>2, ScanIsScanner
  <2> HIDE DEF T
  <2>3. 0 .. N \subseteq T
    BY <1>1, <2>1, <2>2, UpTo
  <2> QED BY <2>3 DEF T
<1>11. scanned \in [0 .. N -> Scanner]
  <2> HIDE DEF N
  <2> QED BY <1>7, <1>10
<1>12. IsScan(s, scanned)
  BY <1>9, <1>11 DEF IsScan
<1> QED BY <1>8, <1>12

-----------------------------------------------------------------------------
(* Scripts: what the scanner makes of one word of a script, which follows  *)
(* the character at p.                                                     *)

AtWord(s, g, p, t) ==
    /\ IsScan(s, g) /\ t \in Seq(Characters) /\ p \in Nat /\ p + Len(t) <= Len(s)
    /\ \A j \in 1 .. Len(t) : s[p + j] = t[j]

(* The scanner is within w, with k characters to skip.                     *)
Within(x, w, k, c, m) ==
    x \in Scanner /\ x.within = w /\ x.skip = k /\ x.cur = c /\ x.stmts = m

LEMMA StepInWord ==
    ASSUME NEW s \in Seq(Characters), NEW g, NEW p, NEW t, AtWord(s, g, p, t),
           NEW j \in 1 .. Len(t)
    PROVE  /\ p + j \in 1 .. Len(s) /\ s[p + j] = t[j]
           /\ g[p + (j - 1)] \in Scanner /\ g[p + j] \in Scanner
           /\ g[p + j] = Scan(s, g[p + (j - 1)], p + j)
           /\ \A ch : Next1(s, p + j, ch) <=>
                        IF j < Len(t) THEN t[j + 1] = ch
                        ELSE p + j < Len(s) /\ s[p + j + 1] = ch
<1>1. /\ Len(t) \in Nat /\ Len(s) \in Nat /\ p \in Nat /\ p + Len(t) <= Len(s)
      /\ \A i \in 1 .. Len(t) : s[p + i] = t[i]
  BY DEF AtWord
<1>2. p + j \in 1 .. Len(s) /\ p + j \in 0 .. Len(s) /\ p + (j - 1) \in 0 .. Len(s)
      /\ (p + j) - 1 = p + (j - 1) /\ p + j + 1 = p + (j + 1)
  BY <1>1
<1>3. g[p + j] = Scan(s, g[(p + j) - 1], p + j)
  BY <1>2 DEF AtWord, IsScan
<1>4. g[p + (j - 1)] \in Scanner /\ g[p + j] \in Scanner
  BY <1>2 DEF AtWord, IsScan
<1>5. \A ch : Next1(s, p + j, ch) <=> IF j < Len(t) THEN t[j + 1] = ch
                                     ELSE p + j < Len(s) /\ s[p + j + 1] = ch
  <2>1. CASE j < Len(t)
    <3>1. p + j < Len(s) /\ s[p + j + 1] = t[j + 1]
      <4>1. j + 1 \in 1 .. Len(t)
        BY <1>1, <2>1
      <4> QED BY <1>1, <1>2, <2>1, <4>1
    <3> QED BY <2>1, <3>1 DEF Next1
  <2>2. CASE ~(j < Len(t))
    BY <2>2 DEF Next1
  <2> QED BY <2>1, <2>2
<1> QED BY <1>1, <1>2, <1>3, <1>4, <1>5

LEMMA StartOfWord ==
    ASSUME NEW s \in Seq(Characters), NEW g, NEW p, NEW t, AtWord(s, g, p, t)
    PROVE  /\ p \in 0 .. Len(s) /\ p \in Nat /\ Len(s) \in Nat
           /\ t \in Seq(Characters) /\ Len(t) \in Nat /\ p + Len(t) <= Len(s)
           /\ p + 0 = p
BY DEF AtWord

(* Characters that are consumed pass unseen.                               *)
LEMMA Skipped ==
    ASSUME NEW s \in Seq(Characters), NEW g, IsScan(s, g), NEW p \in Nat, NEW k \in Nat,
           p + k <= Len(s), NEW w, NEW c, NEW m, Within(g[p], w, k, c, m)
    PROVE  Within(g[p + k], w, 0, c, m) /\ g[p + k].tag = g[p].tag
<1> DEFINE T == {j \in 0 .. k : Within(g[p + j], w, k - j, c, m) /\ g[p + j].tag = g[p].tag}
<1>1. 0 \in T
  BY DEF Within
<1>2. ASSUME NEW j \in 1 .. k, j - 1 \in T PROVE j \in T
  <2>1. p + j \in 1 .. Len(s) /\ (p + j) - 1 = p + (j - 1) /\ k - (j - 1) > 0
        /\ (k - (j - 1)) - 1 = k - j /\ p + j \in 0 .. Len(s)
    OBVIOUS
  <2>2. g[p + j] = Scan(s, g[p + (j - 1)], p + j) /\ g[p + j] \in Scanner
    BY <2>1 DEF IsScan
  <2>3. Within(g[p + (j - 1)], w, k - (j - 1), c, m) /\ g[p + (j - 1)].tag = g[p].tag
    BY <1>2
  <2>4. g[p + j] = [g[p + (j - 1)] EXCEPT !.skip = @ - 1]
    <3>1. g[p + (j - 1)].skip > 0
      BY <2>1, <2>3 DEF Within
    <3> QED BY <2>2, <3>1 DEF Scan
  <2>5. PICK x \in Scanner : x = g[p + (j - 1)]
    BY <2>3 DEF Within
  <2>6. g[p + j].within = x.within /\ g[p + j].cur = x.cur /\ g[p + j].stmts = x.stmts
        /\ g[p + j].tag = x.tag /\ g[p + j].skip = x.skip - 1
    BY <2>4, <2>5 DEF Scanner
  <2>7. Within(g[p + j], w, k - j, c, m) /\ g[p + j].tag = g[p].tag
    BY <2>1, <2>2, <2>3, <2>5, <2>6 DEF Within
  <2> QED BY <2>7
<1>3. 0 .. k \subseteq T
  <2> HIDE DEF T
  <2> QED BY <1>1, <1>2, UpTo
<1>4. k \in T
  BY <1>3
<1> QED BY <1>4

(* The first characters of a word after the statement so far.              *)
Upto(c, t, j) == c \o SubSeq(t, 1, j)

LEMMA UptoIs ==
    ASSUME NEW c \in Seq(Characters), NEW t \in Seq(Characters)
    PROVE  /\ Upto(c, t, 0) = c /\ Upto(c, t, Len(t)) = c \o t
           /\ \A j \in 0 .. Len(t) : Upto(c, t, j) \in Seq(Characters)
           /\ \A j \in 1 .. Len(t) : Upto(c, t, j) = Upto(c, t, j - 1) \o <<t[j]>>
           /\ \A j \in 1 .. Len(t) - 1 :
                 Upto(c, t, j + 1) = Upto(c, t, j - 1) \o <<t[j], t[j + 1]>>
           /\ \A j \in 0 .. Len(t) :
                 Upto(c, t, j) \o SubSeq(t, j + 1, Len(t)) = c \o t
<1>1. SubSeq(t, 1, 0) = <<>> /\ SubSeq(t, 1, Len(t)) = t
  OBVIOUS
<1>2. Upto(c, t, 0) = c /\ Upto(c, t, Len(t)) = c \o t
  BY <1>1 DEF Upto
<1>3. \A j \in 0 .. Len(t) : SubSeq(t, 1, j) \in Seq(Characters)
  OBVIOUS
<1>4. \A j \in 0 .. Len(t) : Upto(c, t, j) \in Seq(Characters)
  BY <1>3 DEF Upto
<1>5. \A u, v \in Seq(Characters) : (c \o u) \o v = c \o (u \o v)
  OBVIOUS
<1>6. ASSUME NEW j \in 1 .. Len(t) PROVE Upto(c, t, j) = Upto(c, t, j - 1) \o <<t[j]>>
  <2>1. SubSeq(t, 1, j) = SubSeq(t, 1, j - 1) \o <<t[j]>>
    OBVIOUS
  <2>2. SubSeq(t, 1, j - 1) \in Seq(Characters) /\ <<t[j]>> \in Seq(Characters)
    BY <1>3
  <2>3. (c \o SubSeq(t, 1, j - 1)) \o <<t[j]>> = c \o (SubSeq(t, 1, j - 1) \o <<t[j]>>)
    BY <1>5, <2>2, Zenon
  <2> QED BY <2>1, <2>3, Zenon DEF Upto
<1>7. ASSUME NEW j \in 1 .. Len(t) - 1
      PROVE  Upto(c, t, j + 1) = Upto(c, t, j - 1) \o <<t[j], t[j + 1]>>
  <2>1. SubSeq(t, 1, j + 1) = SubSeq(t, 1, j - 1) \o <<t[j], t[j + 1]>>
    OBVIOUS
  <2>2. SubSeq(t, 1, j - 1) \in Seq(Characters) /\ <<t[j], t[j + 1]>> \in Seq(Characters)
    BY <1>3
  <2>3. (c \o SubSeq(t, 1, j - 1)) \o <<t[j], t[j + 1]>> = c \o (SubSeq(t, 1, j - 1) \o <<t[j], t[j + 1]>>)
    BY <1>5, <2>2, Zenon
  <2> QED BY <2>1, <2>3, Zenon DEF Upto
<1>8. ASSUME NEW j \in 0 .. Len(t)
      PROVE  Upto(c, t, j) \o SubSeq(t, j + 1, Len(t)) = c \o t
  <2> DEFINE u == SubSeq(t, 1, j)
             v == SubSeq(t, j + 1, Len(t))
  <2>2. u \in Seq(Characters) /\ v \in Seq(Characters)
    BY <1>3
  <2>1. u \o v = t
    <3>1. Len(u) = j /\ \A i \in 1 .. j : u[i] = t[i]
      OBVIOUS
    <3>2. Len(v) = Len(t) - j /\ \A i \in 1 .. Len(t) - j : v[i] = t[i + j]
      OBVIOUS
    <3>6. \A a, b \in Seq(Characters) :
              /\ a \o b \in Seq(Characters) /\ Len(a \o b) = Len(a) + Len(b)
              /\ \A i \in 1 .. Len(a) + Len(b) :
                    (a \o b)[i] = IF i <= Len(a) THEN a[i] ELSE b[i - Len(a)]
      OBVIOUS
    <3>7. Len(t) \in Nat /\ j \in 0 .. Len(t)
      OBVIOUS
    <3> HIDE DEF u, v
    <3>3. u \o v \in Seq(Characters) /\ Len(u \o v) = Len(t)
      <4>1. u \o v \in Seq(Characters) /\ Len(u \o v) = Len(u) + Len(v)
        BY <2>2, <3>6, Zenon
      <4>2. Len(u) + Len(v) = Len(t)
        BY <3>1, <3>2, <3>7
      <4> QED BY <4>1, <4>2
    <3>4. \A i \in 1 .. Len(t) : (u \o v)[i] = t[i]
      <4> SUFFICES ASSUME NEW i \in 1 .. Len(t) PROVE (u \o v)[i] = t[i]
        OBVIOUS
      <4>1. (u \o v)[i] = IF i <= j THEN u[i] ELSE v[i - j]
        BY <2>2, <3>1, <3>2, <3>6, <3>7
      <4>2. i > j => i - j \in 1 .. Len(t) - j /\ (i - j) + j = i
        BY <3>7
      <4>3. i <= j => i \in 1 .. j
        BY <3>7
      <4> QED BY <3>1, <3>2, <3>7, <4>1, <4>2, <4>3
    <3>5. \A a, b \in Seq(Characters) :
              Len(a) = Len(b) /\ (\A i \in 1 .. Len(b) : a[i] = b[i]) => a = b
      OBVIOUS
    <3> QED BY <3>3, <3>4, <3>5
  <2>4. (c \o u) \o v = c \o (u \o v)
    <3> HIDE DEF u, v
    <3> QED BY <1>5, <2>2, Zenon
  <2> QED BY <2>1, <2>4, Zenon DEF Upto
<1> QED BY <1>2, <1>4, <1>6, <1>7, <1>8

(* What Keep does to a scanner that has nothing to skip.                   *)
LEMMA KeepsWithin ==
    ASSUME NEW x, NEW w, NEW c \in Seq(Characters), NEW m, Within(x, w, 0, c, m),
           NEW chars \in Seq(Characters)
    PROVE  /\ Within(Keep(x, chars), w, Len(chars) - 1, c \o chars, m)
           /\ Keep(x, chars).tag = x.tag
<1>1. PICK y \in Scanner : y = x
  BY DEF Within
<1>2. Keep(y, chars) \in Scanner
  BY KeepIsScanner
<1>3. /\ Keep(y, chars).within = y.within /\ Keep(y, chars).stmts = y.stmts
      /\ Keep(y, chars).cur = y.cur \o chars /\ Keep(y, chars).skip = Len(chars) - 1
      /\ Keep(y, chars).tag = y.tag
  BY DEF Keep, Scanner
<1> QED BY <1>1, <1>2, <1>3 DEF Within

LEMMA CharactersDiffer ==
    /\ Quote \notin {"-", "/", "$", "*", "n", Semicolon}
    /\ Semicolon \notin {"-", "/", "$", "*", "n"}
    /\ Quote \notin Letters \cup Digits /\ "$" \notin Letters \cup Digits
BY Zenon DEF Quote, Semicolon, Letters, Digits

(* A single character that begins nothing, or an operator.                 *)
LEMMA SemicolonEnds ==
    ASSUME NEW s \in Seq(Characters), NEW g, NEW p, AtWord(s, g, p, <<Semicolon>>),
           NEW c \in Seq(Characters), NEW m, Within(g[p], "sql", 0, c, m)
    PROVE  Within(g[p + 1], "sql", 0, <<>>, Add(m, c))
<1> DEFINE t == <<Semicolon>>
<1>0. p \in Nat /\ AtWord(s, g, p, t)
  BY DEF AtWord
<1>1. Len(t) = 1 /\ t[1] = Semicolon /\ 1 \in 1 .. Len(t) /\ p + (1 - 1) = p
  BY <1>0
<1> HIDE DEF t
<1>2. /\ s[p + 1] = Semicolon /\ g[p + 1] \in Scanner /\ g[p] \in Scanner
      /\ g[p + 1] = Scan(s, g[p], p + 1)
  <2>1. /\ s[p + 1] = t[1] /\ g[p + (1 - 1)] \in Scanner /\ g[p + 1] \in Scanner
        /\ g[p + 1] = Scan(s, g[p + (1 - 1)], p + 1)
    <3>1. PICK j \in 1 .. Len(t) : j = 1
      BY <1>1
    <3>2. /\ s[p + j] = t[j] /\ g[p + (j - 1)] \in Scanner /\ g[p + j] \in Scanner
          /\ g[p + j] = Scan(s, g[p + (j - 1)], p + j)
      BY <1>0, StepInWord
    <3> QED BY <3>1, <3>2
  <2> QED BY <1>1, <2>1
<1>3. PICK x \in Scanner : x = g[p]
  BY <1>2
<1>6. x.within = "sql" /\ x.skip = 0 /\ x.cur = c /\ x.stmts = m
  BY <1>3, Zenon DEF Within
<1>4. g[p + 1] = [x EXCEPT !.stmts = Add(@, x.cur), !.cur = <<>>]
  <2>1. g[p + 1] = InSQL(x, s, p + 1)
    BY <1>2, <1>3, <1>6 DEF Scan
  <2> QED BY <1>2, <2>1 DEF InSQL
<1>5. /\ g[p + 1].within = x.within /\ g[p + 1].skip = x.skip /\ g[p + 1].cur = <<>>
      /\ g[p + 1].stmts = Add(x.stmts, x.cur)
  BY <1>3, <1>4 DEF Scanner
<1> QED BY <1>2, <1>5, <1>6 DEF Within

(* The character after p + j - 1 is kept as it is.                         *)
LEMMA KeptInSQL ==
    ASSUME NEW s \in Seq(Characters), NEW g, NEW p, NEW t, AtWord(s, g, p, t),
           NEW j \in 1 .. Len(t), NEW c \in Seq(Characters), NEW m,
           Within(g[p + (j - 1)], "sql", 0, Upto(c, t, j - 1), m),
           t[j] \notin {Quote, Semicolon},
           t[j] = "-" => j < Len(t) /\ t[j + 1] # "-",
           t[j] = "/" => j < Len(t) /\ t[j + 1] # "*",
           t[j] = "$" => j < Len(t) /\ t[j + 1] # "$" /\ t[j + 1] \notin Letters
    PROVE  Within(g[p + j], "sql", 0, Upto(c, t, j), m)
<1>1. /\ p + j \in 1 .. Len(s) /\ s[p + j] = t[j]
      /\ g[p + (j - 1)] \in Scanner
      /\ g[p + j] = Scan(s, g[p + (j - 1)], p + j)
      /\ \A ch : Next1(s, p + j, ch) <=>
                   IF j < Len(t) THEN t[j + 1] = ch
                   ELSE p + j < Len(s) /\ s[p + j + 1] = ch
  BY StepInWord
<1>8. p \in Nat /\ Len(t) \in Nat /\ t \in Seq(Characters) /\ j \in 1 .. Len(t)
  BY StartOfWord, Zenon
<1>2. PICK x \in Scanner : x = g[p + (j - 1)]
  BY <1>1
<1>3. s[p + j] = "$" => DollarAfterTag(s, p + j) = 0
  <2> SUFFICES ASSUME t[j] = "$" PROVE DollarAfterTag(s, p + j) = 0
    BY <1>1
  <2>1. j + 1 \in 1 .. Len(t) /\ Len(t) \in Nat /\ p \in Nat
    BY <1>8
  <2>2. p + (j + 1) \in 1 .. Len(s) /\ s[p + (j + 1)] = t[j + 1] /\ p + (j + 1) = (p + j) + 1
    BY <2>1, StepInWord
  <2>3. s[(p + j) + 1] # "$" /\ s[(p + j) + 1] \notin Letters
    BY <2>2
  <2>4. \A e \in (p + j) + 1 .. Len(s) : ~EndsTag(s, p + j, e)
    BY <2>1, <2>3 DEF EndsTag
  <2>5. DollarAfterTag(s, p + j) # 0 =>
           /\ DollarAfterTag(s, p + j) \in (p + j) + 1 .. Len(s)
           /\ EndsTag(s, p + j, DollarAfterTag(s, p + j))
    BY <1>1, TagEnds
  <2> QED BY <2>4, <2>5
<1>4. g[p + j] = Keep(x, <<t[j]>>)
  <2>5. x.within = "sql" /\ x.skip = 0
    BY <1>2, Zenon DEF Within
  <2>1. x.within = "sql" /\ ~(x.skip > 0)
    BY <2>5
  <2>2. g[p + j] = InSQL(x, s, p + j)
    BY <1>1, <1>2, <2>1 DEF Scan
  <2>3. /\ s[p + j] # Quote /\ s[p + j] # Semicolon
        /\ ~(s[p + j] = "-" /\ Next1(s, p + j, "-"))
        /\ ~(s[p + j] = "/" /\ Next1(s, p + j, "*"))
        /\ ~(s[p + j] = "$" /\ DollarAfterTag(s, p + j) # 0)
    BY <1>1, <1>3
  <2>4. InSQL(x, s, p + j) = Keep(x, <<s[p + j]>>)
    BY <2>3 DEF InSQL
  <2> QED BY <1>1, <2>2, <2>4
<1>5. Len(<<t[j]>>) - 1 = 0 /\ <<t[j]>> \in Seq(Characters)
  BY <1>8
<1>6. j - 1 \in 0 .. Len(t) /\ t \in Seq(Characters)
  BY <1>8
<1>7. Upto(c, t, j - 1) \in Seq(Characters) /\ Upto(c, t, j) = Upto(c, t, j - 1) \o <<t[j]>>
  BY <1>6, UptoIs
<1> QED BY <1>2, <1>4, <1>5, <1>7, KeepsWithin

LEMMA OrdinaryIsKept ==
    ASSUME NEW s \in Seq(Characters), NEW g, NEW p, NEW t, AtWord(s, g, p, t),
           NEW c \in Seq(Characters), NEW m, Within(g[p], "sql", 0, c, m),
           IsOrdinary(t) \/ IsOperator(t)
    PROVE  Within(g[p + Len(t)], "sql", 0, c \o t, m)
<1>1. p \in Nat /\ p + 0 = p /\ t \in Seq(Characters) /\ Len(t) \in {1, 2}
      /\ 1 - 1 = 0 /\ 2 - 1 = 1
  BY StartOfWord DEF IsOrdinary, IsOperator
<1>2. Upto(c, t, 0) = c /\ Upto(c, t, Len(t)) = c \o t
  BY <1>1, UptoIs
<1>3. Within(g[p + (1 - 1)], "sql", 0, Upto(c, t, 1 - 1), m)
  BY <1>1, <1>2
<1>4. Within(g[p + 1], "sql", 0, Upto(c, t, 1), m)
  <2>1. /\ t[1] \notin {Quote, Semicolon} /\ 1 \in 1 .. Len(t)
        /\ t[1] = "-" => 1 < Len(t) /\ t[1 + 1] # "-"
        /\ t[1] = "/" => 1 < Len(t) /\ t[1 + 1] # "*"
        /\ t[1] = "$" => 1 < Len(t) /\ t[1 + 1] # "$" /\ t[1 + 1] \notin Letters
    <3>1. CASE IsOrdinary(t)
      BY <1>1, <3>1 DEF IsOrdinary, Special
    <3>2. CASE IsOperator(t)
      <4>1. 1 \in 1 .. Len(t) /\ 1 < Len(t) /\ 1 + 1 = 2
        BY <1>1, <3>2 DEF IsOperator
      <4> QED BY <3>2, <4>1, CharactersDiffer DEF IsOperator, Special
    <3> QED BY <3>1, <3>2
  <2> QED BY <1>3, <2>1, KeptInSQL
<1>5. CASE Len(t) = 1
  BY <1>2, <1>4, <1>5
<1>6. CASE Len(t) = 2
  <2>1. /\ t[2] \notin {Quote, Semicolon} /\ 2 \in 1 .. Len(t)
        /\ t[2] # "-" /\ t[2] # "/" /\ t[2] # "$"
    <3>1. IsOperator(t) /\ 2 \in 1 .. Len(t)
      BY <1>6 DEF IsOrdinary
    <3> QED BY <3>1 DEF IsOperator, Special
  <2>2. Within(g[p + (2 - 1)], "sql", 0, Upto(c, t, 2 - 1), m)
    BY <1>1, <1>4
  <2>3. Within(g[p + 2], "sql", 0, Upto(c, t, 2), m)
    BY <2>1, <2>2, KeptInSQL
  <2> QED BY <1>2, <1>6, <2>3
<1> QED BY <1>1, <1>5, <1>6

-----------------------------------------------------------------------------
(* Scripts: literals.                                                      *)

(* The first character of a literal has been consumed.                     *)
LEMMA LiteralOpens ==
    ASSUME NEW s \in Seq(Characters), NEW g, NEW p, NEW t, AtWord(s, g, p, t),
           NEW c \in Seq(Characters), NEW m, t # <<>>, t[1] = Quote,
           Within(g[p], "sql", 0, c, m) \/ Within(g[p], "string", 1, c \o <<Quote>>, m)
    PROVE  Within(g[p + 1], "string", 0, c \o <<Quote>>, m)
<1>1. p \in Nat /\ t \in Seq(Characters) /\ p + Len(t) <= Len(s) /\ Len(s) \in Nat
  BY StartOfWord
<1>2. 1 \in 1 .. Len(t) /\ p + (1 - 1) = p /\ p + 1 <= Len(s)
  BY <1>1
<1>3. /\ p + 1 \in 1 .. Len(s) /\ s[p + 1] = Quote
      /\ g[p] \in Scanner /\ g[p + 1] = Scan(s, g[p], p + 1)
  <2>1. PICK j \in 1 .. Len(t) : j = 1
    BY <1>2
  <2>2. /\ p + j \in 1 .. Len(s) /\ s[p + j] = t[j] /\ g[p + (j - 1)] \in Scanner
        /\ g[p + j] = Scan(s, g[p + (j - 1)], p + j)
    BY StepInWord
  <2> QED BY <1>2, <2>1, <2>2
<1>4. CASE Within(g[p], "sql", 0, c, m)
  <2>1. g[p].within = "sql" /\ g[p].skip = 0
    BY <1>4, Zenon DEF Within
  <2>2. g[p + 1] = InSQL(g[p], s, p + 1)
    BY <1>3, <2>1 DEF Scan
  <2>3. g[p + 1] = [Keep(g[p], <<Quote>>) EXCEPT !.within = "string"]
    BY <1>3, <2>2, CharactersDiffer DEF InSQL
  <2>4. <<Quote>> \in Seq(Characters) /\ Len(<<Quote>>) - 1 = 0
    <3>1. Quote \in Characters
      BY <1>1, <1>2
    <3> QED BY <3>1
  <2>5. Within(Keep(g[p], <<Quote>>), "sql", 0, c \o <<Quote>>, m)
    <3>1. Within(Keep(g[p], <<Quote>>), "sql", Len(<<Quote>>) - 1, c \o <<Quote>>, m)
      BY <1>4, <2>4, KeepsWithin, Zenon
    <3> QED BY <2>4, <3>1
  <2>6. PICK x \in Scanner : x = Keep(g[p], <<Quote>>)
    BY <2>5, Zenon DEF Within
  <2>7. g[p + 1] \in Scanner
    <3>1. [x EXCEPT !.within = "string"] \in Scanner
      <4>1. 0 \in Int /\ "string" \in {"sql", "line", "block", "string", "dollar"}
        OBVIOUS
      <4> QED BY <4>1, ScannerMoves, Zenon
    <3> QED BY <2>3, <2>6, <3>1, Zenon
  <2>8. /\ g[p + 1].within = "string" /\ g[p + 1].skip = x.skip /\ g[p + 1].cur = x.cur
        /\ g[p + 1].stmts = x.stmts
    BY <2>3, <2>6 DEF Scanner
  <2>9. x.skip = 0 /\ x.cur = c \o <<Quote>> /\ x.stmts = m
    BY <2>5, <2>6, Zenon DEF Within
  <2> QED BY <2>7, <2>8, <2>9, Zenon DEF Within
<1>5. CASE Within(g[p], "string", 1, c \o <<Quote>>, m)
  <2>1. IsScan(s, g) /\ 1 \in Nat
    BY DEF AtWord
  <2> QED BY <1>1, <1>2, <1>5, <2>1, Skipped
<1> QED BY <1>4, <1>5

(* What the scanner is at after character j of a literal.                  *)
InLiteral(x, t, pairs, j, c, m) ==
    IF j \in pairs THEN Within(x, "string", 1, Upto(c, t, j + 1), m)
    ELSE Within(x, "string", 0, Upto(c, t, j), m)

(* A literal that is followed by another is not at its end yet.            *)
LEMMA LiteralIsKept ==
    ASSUME NEW s \in Seq(Characters), NEW g, NEW p, NEW t, AtWord(s, g, p, t), IsLiteral(t),
           NEW c \in Seq(Characters), NEW m,
           Within(g[p], "sql", 0, c, m) \/ Within(g[p], "string", 1, c \o <<Quote>>, m)
    PROVE  IF p + Len(t) < Len(s) /\ s[p + Len(t) + 1] = Quote
           THEN Within(g[p + Len(t)], "string", 1, (c \o t) \o <<Quote>>, m)
           ELSE Within(g[p + Len(t)], "sql", 0, c \o t, m)
<1>1. PICK pairs \in SUBSET (2 .. Len(t) - 2) :
          /\ \A i \in pairs : i + 1 \notin pairs
          /\ \A i \in 2 .. Len(t) - 1 : t[i] = Quote <=> i \in pairs \/ i - 1 \in pairs
  BY DEF IsLiteral
<1>2. /\ Len(t) >= 2 /\ t[1] = Quote /\ t[Len(t)] = Quote /\ Len(t) \in Nat /\ p \in Nat
      /\ t \in Seq(Characters) /\ t # <<>> /\ p + Len(t) <= Len(s) /\ Len(s) \in Nat
  <2>1. Len(t) >= 2 /\ t[1] = Quote /\ t[Len(t)] = Quote
    BY DEF IsLiteral
  <2>2. Len(t) \in Nat /\ p \in Nat /\ t \in Seq(Characters) /\ p + Len(t) <= Len(s)
        /\ Len(s) \in Nat
    BY StartOfWord
  <2> QED BY <2>1, <2>2
<1>3. Quote \in Characters /\ <<Quote>> \in Seq(Characters)
      /\ <<Quote, Quote>> \in Seq(Characters)
  <2>1. Quote \in Characters
    BY <1>2
  <2> QED BY <2>1
<1> DEFINE N == Len(t) - 1
           T == {0} \cup {j \in 1 .. N : InLiteral(g[p + j], t, pairs, j, c, m)}
<1>4. 1 \in T
  <2>1. Within(g[p + 1], "string", 0, c \o <<Quote>>, m)
    BY <1>2, LiteralOpens
  <2>2. Upto(c, t, 1) = c \o <<Quote>> /\ 1 \notin pairs /\ 1 \in 1 .. N
    <3>1. Upto(c, t, 0) = c /\ Upto(c, t, 1) = Upto(c, t, 1 - 1) \o <<t[1]>>
      <4>1. 1 \in 1 .. Len(t)
        BY <1>2
      <4> QED BY <1>2, <4>1, UptoIs
    <3> QED BY <1>1, <1>2, <3>1
  <2> QED BY <2>1, <2>2 DEF InLiteral
<1>5. ASSUME NEW j \in 1 .. N, j - 1 \in T PROVE j \in T
  <2>1. CASE j = 1
    BY <1>4, <2>1
  <2>2. CASE j # 1
    <3>1. j - 1 \in 1 .. N /\ j \in 2 .. Len(t) - 1 /\ j \in 1 .. Len(t) /\ (j - 1) + 1 = j
          /\ j < Len(t) /\ p + j \in 1 .. Len(s) /\ j \in 0 .. Len(t) /\ p + (j - 1) \in Nat
          /\ p + j = (p + (j - 1)) + 1 /\ p + j <= Len(s)
      BY <1>2, <2>2
    <3>2. InLiteral(g[p + (j - 1)], t, pairs, j - 1, c, m)
      BY <1>5, <2>2
    <3>3. CASE j - 1 \in pairs
      <4>1. j \notin pairs
        BY <1>1, <3>1, <3>3
      <4>2. Within(g[p + (j - 1)], "string", 1, Upto(c, t, j), m)
        BY <3>1, <3>2, <3>3 DEF InLiteral
      <4>3. Within(g[p + j], "string", 0, Upto(c, t, j), m)
        <5>1. IsScan(s, g) /\ 1 \in Nat /\ (p + (j - 1)) + 1 <= Len(s)
          BY <3>1 DEF AtWord
        <5> QED BY <3>1, <4>2, <5>1, Skipped
      <4> QED BY <4>1, <4>3 DEF InLiteral
    <3>4. CASE j - 1 \notin pairs
      <4>1. Within(g[p + (j - 1)], "string", 0, Upto(c, t, j - 1), m)
        BY <3>2, <3>4 DEF InLiteral
      <4>2. /\ g[p + j] = Scan(s, g[p + (j - 1)], p + j) /\ s[p + j] = t[j]
            /\ \A ch : Next1(s, p + j, ch) <=> t[j + 1] = ch
        BY <3>1, StepInWord
      <4>3. g[p + j] = InString(g[p + (j - 1)], s, p + j)
        <5>1. g[p + (j - 1)].within = "string" /\ g[p + (j - 1)].skip = 0
          BY <4>1, Zenon DEF Within
        <5> QED BY <4>2, <5>1 DEF Scan
      <4>4. t[j] = Quote <=> j \in pairs
        BY <1>1, <3>1, <3>4
      <4>5. Upto(c, t, j - 1) \in Seq(Characters)
        <5>1. j - 1 \in 0 .. Len(t)
          BY <3>1
        <5> QED BY <1>2, <5>1, UptoIs
      <4>6. CASE j \in pairs
        <5>1. t[j + 1] = Quote /\ j \in 1 .. Len(t) - 1
          BY <1>1, <1>2, <3>1, <4>6
        <5>2. g[p + j] = Keep(g[p + (j - 1)], <<Quote, Quote>>)
          BY <4>2, <4>3, <4>4, <4>6, <5>1 DEF InString
        <5>3. Upto(c, t, j + 1) = Upto(c, t, j - 1) \o <<Quote, Quote>>
          <6>1. Upto(c, t, j + 1) = Upto(c, t, j - 1) \o <<t[j], t[j + 1]>>
            BY <1>2, <5>1, UptoIs
          <6> QED BY <4>4, <4>6, <5>1, <6>1
        <5>4. Len(<<Quote, Quote>>) - 1 = 1
          OBVIOUS
        <5>5. Within(g[p + j], "string", 1, Upto(c, t, j + 1), m)
          BY <1>3, <4>1, <4>5, <5>2, <5>3, <5>4, KeepsWithin
        <5> QED BY <4>6, <5>5 DEF InLiteral
      <4>7. CASE j \notin pairs
        <5>1. g[p + j] = Keep(g[p + (j - 1)], <<t[j]>>)
          BY <4>2, <4>3, <4>4, <4>7 DEF InString
        <5>2. Upto(c, t, j) = Upto(c, t, j - 1) \o <<t[j]>>
          BY <1>2, <3>1, UptoIs
        <5>3. <<t[j]>> \in Seq(Characters) /\ Len(<<t[j]>>) - 1 = 0
          BY <1>2, <3>1
        <5>4. Within(g[p + j], "string", 0, Upto(c, t, j), m)
          BY <4>1, <4>5, <5>1, <5>2, <5>3, KeepsWithin
        <5> QED BY <4>7, <5>4 DEF InLiteral
      <4> QED BY <4>6, <4>7
    <3> QED BY <3>3, <3>4
  <2> QED BY <2>1, <2>2
<1>6. InLiteral(g[p + N], t, pairs, N, c, m)
  <2>1. 0 .. N \subseteq T
    <3>1. N \in Nat /\ 0 \in T
      BY <1>2
    <3> HIDE DEF T, N
    <3> QED BY <1>5, <3>1, UpTo
  <2>2. N \in T /\ N # 0
    <3>1. N \in 0 .. N /\ N # 0
      BY <1>2
    <3> HIDE DEF T, N
    <3> QED BY <2>1, <3>1
  <2> QED BY <2>2
<1>7. Within(g[p + N], "string", 0, Upto(c, t, N), m)
  <2>1. N \notin pairs
    BY <1>1, <1>2
  <2> QED BY <1>6, <2>1 DEF InLiteral
<1>8. /\ g[p + Len(t)] = Scan(s, g[p + N], p + Len(t)) /\ s[p + Len(t)] = Quote
      /\ \A ch : Next1(s, p + Len(t), ch) <=> p + Len(t) < Len(s) /\ s[p + Len(t) + 1] = ch
  <2>1. Len(t) \in 1 .. Len(t) /\ ~(Len(t) < Len(t))
    BY <1>2
  <2>2. PICK j \in 1 .. Len(t) : j = Len(t)
    BY <2>1
  <2>3. /\ g[p + j] = Scan(s, g[p + (j - 1)], p + j) /\ s[p + j] = t[j]
        /\ \A ch : Next1(s, p + j, ch) <=>
                     IF j < Len(t) THEN t[j + 1] = ch
                     ELSE p + j < Len(s) /\ s[p + j + 1] = ch
    BY StepInWord
  <2> QED BY <1>2, <2>1, <2>2, <2>3
<1>9. g[p + Len(t)] = InString(g[p + N], s, p + Len(t))
  <2>1. g[p + N].within = "string" /\ g[p + N].skip = 0
    BY <1>7, Zenon DEF Within
  <2> QED BY <1>8, <2>1 DEF Scan
<1>10. /\ Upto(c, t, N) \in Seq(Characters) /\ Upto(c, t, N) \o <<Quote>> = c \o t
       /\ c \o t \in Seq(Characters)
  <2>1. Len(t) \in 1 .. Len(t) /\ N \in 0 .. Len(t)
    BY <1>2
  <2>2. /\ Upto(c, t, Len(t)) = Upto(c, t, Len(t) - 1) \o <<t[Len(t)]>>
        /\ Upto(c, t, Len(t)) = c \o t /\ Upto(c, t, Len(t) - 1) \in Seq(Characters)
    BY <1>2, <2>1, UptoIs
  <2>3. Len(t) \in 0 .. Len(t) /\ Upto(c, t, Len(t)) \in Seq(Characters)
    <3>1. Len(t) \in 0 .. Len(t)
      BY <1>2
    <3> QED BY <1>2, <3>1, UptoIs
  <2>4. <<t[Len(t)]>> = <<Quote>>
    BY <1>2
  <2> QED BY <2>2, <2>3, <2>4, Zenon
<1>11. CASE p + Len(t) < Len(s) /\ s[p + Len(t) + 1] = Quote
  <2>1. g[p + Len(t)] = Keep(g[p + N], <<Quote, Quote>>)
    BY <1>8, <1>9, <1>11 DEF InString
  <2>2. Len(<<Quote, Quote>>) - 1 = 1
    OBVIOUS
  <2>3. Within(g[p + Len(t)], "string", 1, Upto(c, t, N) \o <<Quote, Quote>>, m)
    BY <1>3, <1>7, <1>10, <2>1, <2>2, KeepsWithin
  <2>4. Upto(c, t, N) \o <<Quote, Quote>> = (c \o t) \o <<Quote>>
    <3>1. \A u \in Seq(Characters), ch \in Characters :
              u \o <<ch, ch>> = (u \o <<ch>>) \o <<ch>>
      OBVIOUS
    <3>2. Upto(c, t, N) \o <<Quote, Quote>> = (Upto(c, t, N) \o <<Quote>>) \o <<Quote>>
      BY <1>3, <1>10, <3>1
    <3> QED BY <1>10, <3>2
  <2> QED BY <1>11, <2>3, <2>4
<1>12. CASE ~(p + Len(t) < Len(s) /\ s[p + Len(t) + 1] = Quote)
  <2>1. g[p + Len(t)] = [Keep(g[p + N], <<Quote>>) EXCEPT !.within = "sql"]
    BY <1>8, <1>9, <1>12 DEF InString
  <2>2. Len(<<Quote>>) - 1 = 0
    OBVIOUS
  <2>3. Within(Keep(g[p + N], <<Quote>>), "string", 0, c \o t, m)
    BY <1>3, <1>7, <1>10, <2>2, KeepsWithin
  <2>4. PICK x \in Scanner : x = Keep(g[p + N], <<Quote>>)
    BY <2>3, Zenon DEF Within
  <2>5. g[p + Len(t)] \in Scanner
    <3>1. [x EXCEPT !.within = "sql"] \in Scanner
      <4>1. 0 \in Int /\ "sql" \in {"sql", "line", "block", "string", "dollar"}
        OBVIOUS
      <4> QED BY <4>1, ScannerMoves, Zenon
    <3> QED BY <2>1, <2>4, <3>1, Zenon
  <2>6. /\ g[p + Len(t)].within = "sql" /\ g[p + Len(t)].skip = x.skip
        /\ g[p + Len(t)].cur = x.cur /\ g[p + Len(t)].stmts = x.stmts
    BY <2>1, <2>4 DEF Scanner
  <2>7. x.skip = 0 /\ x.cur = c \o t /\ x.stmts = m
    BY <2>3, <2>4, Zenon DEF Within
  <2>8. Within(g[p + Len(t)], "sql", 0, c \o t, m)
    BY <2>5, <2>6, <2>7, Zenon DEF Within
  <2> QED BY <1>12, <2>8
<1> QED BY <1>11, <1>12

-----------------------------------------------------------------------------
(* Scripts: comments.                                                      *)

(* Moves of the scanner that neither keep anything nor end a statement.    *)
Goes(x, w, k) == [x EXCEPT !.within = w, !.skip = k]

LEMMA PassesBy ==
    ASSUME NEW x, NEW u, NEW c, NEW m, Within(x, u, 0, c, m), NEW k \in Int,
           NEW w \in {"sql", "line", "block", "string", "dollar"}
    PROVE  /\ Within([x EXCEPT !.within = w], w, 0, c, m)
           /\ Within(Goes(x, w, k), w, k, c, m)
<1>1. PICK y \in Scanner : y = x /\ y.skip = 0 /\ y.cur = c /\ y.stmts = m
  BY Zenon DEF Within
<1>2. /\ [y EXCEPT !.within = w] \in Scanner
      /\ [y EXCEPT !.within = w, !.skip = k] \in Scanner
  BY ScannerMoves
<1>3. LET z == [y EXCEPT !.within = w] IN
      z.within = w /\ z.skip = y.skip /\ z.cur = y.cur /\ z.stmts = y.stmts
  BY DEF Scanner
<1>4. LET z == [y EXCEPT !.within = w, !.skip = k] IN
      z.within = w /\ z.skip = k /\ z.cur = y.cur /\ z.stmts = y.stmts
  BY DEF Scanner
<1> QED BY <1>1, <1>2, <1>3, <1>4, Zenon DEF Within, Goes

LEMMA CommentOpens ==
    ASSUME NEW s \in Seq(Characters), NEW g, NEW p, NEW t, AtWord(s, g, p, t), Len(t) >= 2,
           NEW w, \/ t[1] = "-" /\ t[2] = "-" /\ w = "line"
                  \/ t[1] = "/" /\ t[2] = "*" /\ w = "block",
           NEW c, NEW m, Within(g[p], "sql", 0, c, m)
    PROVE  Within(g[p + 2], w, 0, c, m)
<1>1. p \in Nat /\ p + Len(t) <= Len(s) /\ Len(t) \in Nat /\ Len(s) \in Nat
  BY StartOfWord
<1>2. /\ g[p + 1] = Scan(s, g[p], p + 1) /\ s[p + 1] = t[1]
      /\ \A ch : Next1(s, p + 1, ch) <=> t[2] = ch
  <2>1. PICK j \in 1 .. Len(t) : j = 1
    BY <1>1
  <2>2. /\ g[p + j] = Scan(s, g[p + (j - 1)], p + j) /\ s[p + j] = t[j]
        /\ \A ch : Next1(s, p + j, ch) <=>
                     IF j < Len(t) THEN t[j + 1] = ch
                     ELSE p + j < Len(s) /\ s[p + j + 1] = ch
    BY StepInWord
  <2>3. p + (j - 1) = p /\ j < Len(t) /\ j + 1 = 2
    BY <1>1, <2>1
  <2> QED BY <2>1, <2>2, <2>3
<1>3. g[p + 1] = InSQL(g[p], s, p + 1)
  <2>1. g[p].within = "sql" /\ g[p].skip = 0
    BY Zenon DEF Within
  <2> QED BY <1>2, <2>1 DEF Scan
<1>4. g[p + 1] = [g[p] EXCEPT !.within = w, !.skip = 1]
  BY <1>2, <1>3, CharactersDiffer DEF InSQL
<1>5. Within(g[p + 1], w, 1, c, m)
  <2>1. w \in {"sql", "line", "block", "string", "dollar"} /\ 1 \in Int
    OBVIOUS
  <2>2. Within(Goes(g[p], w, 1), w, 1, c, m)
    BY <2>1, PassesBy
  <2> QED BY <1>4, <2>2, Zenon DEF Goes
<1>6. p + 1 \in Nat /\ 1 \in Nat /\ (p + 1) + 1 <= Len(s) /\ (p + 1) + 1 = p + 2 /\ IsScan(s, g)
  BY <1>1 DEF AtWord
<1>7. Within(g[(p + 1) + 1], w, 0, c, m)
  BY <1>5, <1>6, Skipped
<1> QED BY <1>6, <1>7

(* The scanner goes over the characters from the third up to the N-th, if  *)
(* none of them ends the comment.                                          *)
LEMMA CommentGoesOn ==
    ASSUME NEW s \in Seq(Characters), NEW g, NEW p, NEW t, AtWord(s, g, p, t), Len(t) >= 2,
           NEW N \in 2 .. Len(t) - 1,
           NEW w, \/ w = "line" /\ \A i \in 3 .. N : t[i] # "n"
                  \/ w = "block" /\ \A i \in 3 .. N : ~(t[i] = "*" /\ t[i + 1] = "/"),
           NEW c, NEW m, Within(g[p + 2], w, 0, c, m)
    PROVE  Within(g[p + N], w, 0, c, m)
<1>1. p \in Nat /\ Len(t) \in Nat
  BY StartOfWord
<1> DEFINE T == {0, 1} \cup {j \in 2 .. N : Within(g[p + j], w, 0, c, m)}
<1>2. ASSUME NEW j \in 1 .. N, j - 1 \in T PROVE j \in T
  <2>1. CASE j \in {1, 2}
    BY <2>1
  <2>2. CASE j \notin {1, 2}
    <3>1. j \in 3 .. N /\ j - 1 \in 2 .. N /\ j \in 1 .. Len(t) /\ j < Len(t)
      BY <1>1, <2>2
    <3>2. Within(g[p + (j - 1)], w, 0, c, m)
      BY <1>2, <3>1
    <3>3. /\ g[p + j] = Scan(s, g[p + (j - 1)], p + j) /\ s[p + j] = t[j]
          /\ \A ch : Next1(s, p + j, ch) <=> t[j + 1] = ch
      BY <3>1, StepInWord
    <3>4. g[p + (j - 1)].within = w /\ g[p + (j - 1)].skip = 0
      BY <3>2, Zenon DEF Within
    <3>5. g[p + j] = g[p + (j - 1)]
      BY <3>1, <3>3, <3>4 DEF Scan
    <3>6. j \in 2 .. N
      BY <3>1
    <3> QED BY <3>2, <3>5, <3>6
  <2> QED BY <2>1, <2>2
<1>3. N \in Nat /\ 0 \in T /\ N \in 0 .. N /\ N \notin {0, 1}
  BY <1>1
<1>4. 0 .. N \subseteq T
  <2> HIDE DEF T
  <2> QED BY <1>2, <1>3, UpTo
<1>5. N \in T
  <2> HIDE DEF T
  <2> QED BY <1>3, <1>4
<1> QED BY <1>3, <1>5

LEMMA LineCommentIsDropped ==
    ASSUME NEW s \in Seq(Characters), NEW g, NEW p, NEW t, AtWord(s, g, p, t),
           IsLineComment(t), NEW c, NEW m, Within(g[p], "sql", 0, c, m)
    PROVE  Within(g[p + Len(t)], "sql", 0, c, m)
<1> DEFINE N == Len(t) - 1
<1>1. /\ p \in Nat /\ Len(t) \in Nat /\ Len(t) >= 3 /\ t[1] = "-" /\ t[2] = "-"
      /\ \A i \in 3 .. Len(t) : t[i] = "n" <=> i = Len(t)
  BY StartOfWord DEF IsLineComment
<1>2. N \in 2 .. Len(t) - 1 /\ Len(t) >= 2 /\ Len(t) \in 1 .. Len(t) /\ Len(t) \in 3 .. Len(t)
      /\ \A i \in 3 .. N : t[i] # "n"
  BY <1>1
<1>3. Within(g[p + 2], "line", 0, c, m)
  BY <1>1, <1>2, CommentOpens
<1>4. Within(g[p + N], "line", 0, c, m)
  <2> HIDE DEF N
  <2> QED BY <1>2, <1>3, CommentGoesOn
<1>5. g[p + Len(t)] = Scan(s, g[p + N], p + Len(t)) /\ s[p + Len(t)] = "n"
  <2>1. PICK j \in 1 .. Len(t) : j = Len(t)
    BY <1>2
  <2>2. g[p + j] = Scan(s, g[p + (j - 1)], p + j) /\ s[p + j] = t[j]
    BY StepInWord
  <2> QED BY <1>1, <1>2, <2>1, <2>2
<1>6. g[p + Len(t)] = [g[p + N] EXCEPT !.within = "sql"]
  <2>1. g[p + N].within = "line" /\ g[p + N].skip = 0
    BY <1>4, Zenon DEF Within
  <2> QED BY <1>5, <2>1 DEF Scan
<1>7. "sql" \in {"sql", "line", "block", "string", "dollar"} /\ 0 \in Int
  OBVIOUS
<1>8. Within([g[p + N] EXCEPT !.within = "sql"], "sql", 0, c, m)
  BY <1>4, <1>7, PassesBy, Zenon
<1> QED BY <1>6, <1>8, Zenon

LEMMA BlockCommentIsDropped ==
    ASSUME NEW s \in Seq(Characters), NEW g, NEW p, NEW t, AtWord(s, g, p, t),
           IsBlockComment(t), NEW c, NEW m, Within(g[p], "sql", 0, c, m)
    PROVE  Within(g[p + Len(t)], "sql", 0, c, m)
<1> DEFINE N == Len(t) - 2
           M == Len(t) - 1
<1>1. /\ p \in Nat /\ Len(t) \in Nat /\ Len(t) >= 4 /\ t[1] = "/" /\ t[2] = "*"
      /\ \A i \in 3 .. Len(t) - 1 : t[i] = "*" /\ t[i + 1] = "/" <=> i = Len(t) - 1
      /\ p + Len(t) <= Len(s) /\ Len(s) \in Nat
  BY StartOfWord DEF IsBlockComment
<1>2. N \in 2 .. Len(t) - 1 /\ Len(t) >= 2 /\ M \in 1 .. Len(t) /\ M \in 3 .. Len(t) - 1
      /\ (\A i \in 3 .. N : ~(t[i] = "*" /\ t[i + 1] = "/")) /\ M - 1 = N /\ M < Len(t)
      /\ p + M \in Nat /\ (p + M) + 1 = p + Len(t) /\ M = Len(t) - 1
  BY <1>1
<1>3. Within(g[p + 2], "block", 0, c, m)
  BY <1>1, <1>2, CommentOpens
<1> HIDE DEF N, M
<1>4. Within(g[p + N], "block", 0, c, m)
  BY <1>2, <1>3, CommentGoesOn
<1>5. /\ g[p + M] = Scan(s, g[p + N], p + M) /\ s[p + M] = "*" /\ Next1(s, p + M, "/")
  <2>1. /\ g[p + M] = Scan(s, g[p + (M - 1)], p + M) /\ s[p + M] = t[M]
        /\ \A ch : Next1(s, p + M, ch) <=> t[M + 1] = ch
    BY <1>2, StepInWord
  <2>2. t[M] = "*" /\ t[M + 1] = "/"
    BY <1>1, <1>2
  <2> QED BY <1>2, <2>1, <2>2
<1>6. g[p + M] = [g[p + N] EXCEPT !.within = "sql", !.skip = 1]
  <2>1. g[p + N].within = "block" /\ g[p + N].skip = 0
    BY <1>4, Zenon DEF Within
  <2> QED BY <1>5, <2>1 DEF Scan
<1>7. "sql" \in {"sql", "line", "block", "string", "dollar"} /\ 1 \in Int /\ 1 \in Nat
      /\ IsScan(s, g) /\ (p + M) + 1 <= Len(s)
  BY <1>1, <1>2 DEF AtWord
<1>8. Within(g[p + M], "sql", 1, c, m)
  <2>1. Within(Goes(g[p + N], "sql", 1), "sql", 1, c, m)
    BY <1>4, <1>7, PassesBy
  <2> QED BY <1>6, <2>1, Zenon DEF Goes
<1>9. Within(g[(p + M) + 1], "sql", 0, c, m)
  BY <1>2, <1>7, <1>8, Skipped
<1> QED BY <1>2, <1>9

-----------------------------------------------------------------------------
(* Scripts: dollar quotes.                                                 *)

(* Part of a word is that part of the script.                              *)
PartsAre(s, p, t) ==
    \A i \in 1 .. Len(t), j \in 0 .. Len(t) :
        i <= j + 1 => SubSeq(s, p + i, p + j) = SubSeq(t, i, j)

LEMMA PartOfWord ==
    ASSUME NEW s \in Seq(Characters), NEW g, NEW p, NEW t, AtWord(s, g, p, t)
    PROVE  PartsAre(s, p, t)
<1> SUFFICES ASSUME NEW i \in 1 .. Len(t), NEW j \in 0 .. Len(t), i <= j + 1
             PROVE  SubSeq(s, p + i, p + j) = SubSeq(t, i, j)
  BY DEF PartsAre
<1>1. /\ p \in Nat /\ Len(t) \in Nat /\ t \in Seq(Characters) /\ p + Len(t) <= Len(s)
      /\ \A k \in 1 .. Len(t) : s[p + k] = t[k]
  BY StartOfWord DEF AtWord
<1> DEFINE u == SubSeq(s, p + i, p + j)
           v == SubSeq(t, i, j)
<1>2. /\ u \in Seq(Characters) /\ Len(u) = j - i + 1
      /\ \A k \in 1 .. j - i + 1 : u[k] = s[p + i + k - 1]
  <2>1. p + i \in Int /\ p + j \in Int /\ p + i >= 1 /\ p + j <= Len(s) /\ p + i <= p + j + 1
        /\ (p + j) - (p + i) + 1 = j - i + 1
    BY <1>1
  <2>2. \A a, b \in Int : a >= 1 /\ b <= Len(s) =>
           /\ SubSeq(s, a, b) \in Seq(Characters)
           /\ a <= b + 1 => Len(SubSeq(s, a, b)) = b - a + 1
           /\ \A k \in 1 .. b - a + 1 : SubSeq(s, a, b)[k] = s[a + k - 1]
    BY Parts
  <2> QED BY <2>1, <2>2
<1>3. /\ v \in Seq(Characters) /\ Len(v) = j - i + 1
      /\ \A k \in 1 .. j - i + 1 : v[k] = t[i + k - 1]
  BY <1>1, Parts
<1>4. \A k \in 1 .. j - i + 1 : s[p + i + k - 1] = t[i + k - 1]
  <2> SUFFICES ASSUME NEW k \in 1 .. j - i + 1 PROVE s[p + i + k - 1] = t[i + k - 1]
    OBVIOUS
  <2>1. i + k - 1 \in 1 .. Len(t) /\ p + i + k - 1 = p + (i + k - 1)
    BY <1>1
  <2> QED BY <1>1, <2>1
<1>5. \A a, b \in Seq(Characters) :
          Len(a) = Len(b) /\ (\A k \in 1 .. Len(b) : a[k] = b[k]) => a = b
  OBVIOUS
<1> HIDE DEF u, v
<1>6. u = v
  BY <1>2, <1>3, <1>4, <1>5
<1> QED BY <1>6 DEF u, v

(* The tag that opens a quote is what the scanner takes it for.            *)
LEMMA TagIsFound ==
    ASSUME NEW s \in Seq(Characters), NEW g, NEW p, NEW t, AtWord(s, g, p, t),
           NEW n \in 2 .. Len(t), IsTagged(t, n)
    PROVE  DollarAfterTag(s, p + 1) = p + n
<1>1. /\ p \in Nat /\ Len(t) \in Nat /\ p + Len(t) <= Len(s) /\ Len(s) \in Nat
      /\ \A k \in 1 .. Len(t) : s[p + k] = t[k]
  BY StartOfWord DEF AtWord
<1>2. /\ Len(t) >= 2 * n /\ t[1] = "$" /\ t[n] = "$"
      /\ \A i \in 2 .. n - 1 : t[i] \in Letters \cup Digits
      /\ n > 2 => t[2] \in Letters
  BY DEF IsTagged
<1>3. \A k \in (p + 1) + 1 .. (p + n) - 1 : s[k] \in Letters \cup Digits
  <2> SUFFICES ASSUME NEW k \in (p + 1) + 1 .. (p + n) - 1 PROVE s[k] \in Letters \cup Digits
    OBVIOUS
  <2>1. k - p \in 2 .. n - 1 /\ k - p \in 1 .. Len(t) /\ p + (k - p) = k
    BY <1>1, <1>2
  <2>2. s[p + (k - p)] = t[k - p] /\ t[k - p] \in Letters \cup Digits
    BY <1>1, <1>2, <2>1
  <2> QED BY <2>1, <2>2
<1>4. EndsTag(s, p + 1, p + n)
  <2>1. s[p + n] = "$"
    BY <1>1, <1>2
  <2>2. p + n > (p + 1) + 1 => s[(p + 1) + 1] \in Letters
    <3>1. p + n > (p + 1) + 1 => n > 2 /\ (p + 1) + 1 = p + 2 /\ 2 \in 1 .. Len(t)
      BY <1>1
    <3> QED BY <1>1, <1>2, <3>1
  <2> QED BY <1>3, <2>1, <2>2, Zenon DEF EndsTag
<1>5. ASSUME NEW e \in (p + 1) + 1 .. (p + n) - 1 PROVE ~EndsTag(s, p + 1, e)
  BY <1>3, CharactersDiffer DEF EndsTag
<1>6. p + n \in (p + 1) + 1 .. Len(s) /\ p + 1 \in 1 .. Len(s) /\ ~(Len(s) < (p + 1) + 2)
  BY <1>1, <1>2
<1> DEFINE e == DollarAfterTag(s, p + 1)
<1>7. e \in (p + 1) + 1 .. Len(s) /\ EndsTag(s, p + 1, e) /\ e <= p + n
  BY <1>4, <1>6, TagEnds
<1> HIDE DEF e
<1>8. e = p + n
  BY <1>1, <1>5, <1>7
<1> QED BY <1>8 DEF e

(* The quote is closed where the word ends.                                *)
Leaves(x, copied) ==
    [x EXCEPT !.cur = @ \o copied, !.skip = Bytes(copied) - 1, !.within = "sql"]

LEMMA QuoteIsClosed ==
    ASSUME NEW s \in Seq(Characters), NEW g, NEW p, NEW t, AtWord(s, g, p, t),
           NEW n \in 2 .. Len(t), IsTagged(t, n),
           NEW x \in Scanner, x.tag = SubSeq(t, 1, n)
    PROVE  InDollarQuote(x, s, p + (n + 1)) = Leaves(x, SubSeq(t, n + 1, Len(t)))
<1> DEFINE i == p + (n + 1)
           last == Len(t) - n + 1
<1>0. \A a \in 1 .. Len(t), b \in 0 .. Len(t) :
          a <= b + 1 => SubSeq(s, p + a, p + b) = SubSeq(t, a, b)
  <2>1. PartsAre(s, p, t)
    BY PartOfWord
  <2> QED BY <2>1, Zenon DEF PartsAre
<1>1. /\ p \in Nat /\ Len(t) \in Nat /\ p + Len(t) <= Len(s) /\ Len(s) \in Nat
      /\ t \in Seq(Characters) /\ Len(t) >= 2 * n
  BY StartOfWord DEF IsTagged
<1>2. Len(x.tag) = n
  BY <1>1
<1>3. i \in 1 .. Len(s)
  BY <1>1
<1>4. \A k \in n + 1 .. last : SubSeq(t, k, k + n - 1) = SubSeq(t, 1, n) <=> k = last
  BY DEF IsTagged
<1>5. \A k \in n + 1 .. last : SubSeq(s, p + k, p + k + n - 1) = SubSeq(t, k, k + n - 1)
  <2> SUFFICES ASSUME NEW k \in n + 1 .. last
               PROVE  SubSeq(s, p + k, p + k + n - 1) = SubSeq(t, k, k + n - 1)
    OBVIOUS
  <2>1. PICK m \in Int : m = k + n - 1
    BY <1>1
  <2>2. k \in 1 .. Len(t) /\ m \in 0 .. Len(t) /\ k <= m + 1 /\ p + k + n - 1 = p + m
    BY <1>1, <2>1
  <2>3. SubSeq(s, p + k, p + m) = SubSeq(t, k, m)
    BY <1>0, <2>2, Zenon
  <2> HIDE DEF last
  <2> QED BY <2>1, <2>2, <2>3
<1>6. Closes(s, x, i, p + last)
  <2>1. last \in n + 1 .. last /\ p + last \in i .. Len(s) - n + 1
    BY <1>1
  <2> QED BY <1>2, <1>4, <1>5, <2>1 DEF Closes
<1>7. PICK j \in Int :
          /\ Closes(s, x, i, j) /\ \A k \in Int : Closes(s, x, i, k) => j <= k
          /\ InDollarQuote(x, s, i)
               = [x EXCEPT !.cur = @ \o Copied(s, x, i, j),
                           !.skip = Bytes(Copied(s, x, i, j)) - 1, !.within = "sql"]
  <2>1. p + last \in Int
    BY <1>1
  <2> HIDE DEF i, last
  <2> QED BY <1>3, <1>6, <2>1, QuoteGoesOn
<1>8. j = p + last
  <2>0. j \in i .. Len(s) - Len(x.tag) + 1 /\ SubSeq(s, j, j + Len(x.tag) - 1) = x.tag
    BY <1>7, Zenon DEF Closes
  <2>7. p + last \in Int
    BY <1>1
  <2>1. p + last \in Int /\ j \in i .. Len(s) - n + 1 /\ SubSeq(s, j, j + n - 1) = x.tag
    <3> HIDE DEF i, last
    <3> QED BY <1>2, <2>0, <2>7
  <2>2. j <= p + last
    <3> HIDE DEF i, last
    <3> QED BY <1>6, <1>7, <2>1
  <2>3. j - p \in n + 1 .. last /\ p + (j - p) = j
    BY <1>1, <2>1, <2>2
  <2>4. SubSeq(s, p + (j - p), p + (j - p) + n - 1) = SubSeq(t, j - p, (j - p) + n - 1)
    <3> HIDE DEF last
    <3> QED BY <1>5, <2>3
  <2>5. SubSeq(t, j - p, (j - p) + n - 1) = SubSeq(t, 1, n)
    <3> HIDE DEF i, last
    <3> QED BY <2>1, <2>3, <2>4
  <2>6. j - p = last
    <3> HIDE DEF i, last
    <3> QED BY <1>4, <2>3, <2>5
  <2> QED BY <2>3, <2>6
<1>9. Copied(s, x, i, j) = SubSeq(t, n + 1, Len(t))
  <2>0. n - 1 + (p + last) = p + Len(t)
    BY <1>1
  <2>1. Len(x.tag) - 1 + j = p + Len(t)
    <3> HIDE DEF last
    <3> QED BY <1>2, <1>8, <2>0
  <2>5. PICK a \in 1 .. Len(t) : a = n + 1
    BY <1>1
  <2>6. PICK b \in 0 .. Len(t) : b = Len(t)
    BY <1>1
  <2>2. a = n + 1 /\ b = Len(t) /\ a <= b + 1
    BY <1>1, <2>5, <2>6
  <2>4. SubSeq(s, p + a, p + b) = SubSeq(t, a, b)
    BY <1>0, <2>2, Zenon
  <2>3. SubSeq(s, p + (n + 1), p + Len(t)) = SubSeq(t, n + 1, Len(t))
    BY <2>2, <2>4, Zenon
  <2> QED BY <2>1, <2>3 DEF Copied
<1> QED BY <1>7, <1>9, Zenon DEF Leaves

LEMMA DollarQuoteIsKept ==
    ASSUME NEW s \in Seq(Characters), NEW g, NEW p, NEW t, AtWord(s, g, p, t),
           IsDollarQuote(t), ~IsWide(t),
           NEW c \in Seq(Characters), NEW m, Within(g[p], "sql", 0, c, m)
    PROVE  Within(g[p + Len(t)], "sql", 0, c \o t, m)
<1>0. \A a \in 1 .. Len(t), b \in 0 .. Len(t) :
          a <= b + 1 => SubSeq(s, p + a, p + b) = SubSeq(t, a, b)
  <2>1. PartsAre(s, p, t)
    BY PartOfWord
  <2> QED BY <2>1, Zenon DEF PartsAre
<1>1. PICK n \in 2 .. Len(t) : IsTagged(t, n)
  BY DEF IsDollarQuote
<1> DEFINE opening == SubSeq(t, 1, n)
           copied == SubSeq(t, n + 1, Len(t))
           rest == Len(t) - n - 1
<1>2. /\ p \in Nat /\ Len(t) \in Nat /\ p + Len(t) <= Len(s) /\ Len(s) \in Nat
      /\ t \in Seq(Characters) /\ Len(t) >= 2 * n /\ t[1] = "$"
  BY <1>1, StartOfWord DEF IsTagged
<1>3. /\ opening \in Seq(Characters) /\ Len(opening) = n
      /\ copied \in Seq(Characters) /\ Len(copied) = Len(t) - n /\ ~IsWide(copied)
  <2>1. /\ opening \in Seq(Characters) /\ Len(opening) = n
        /\ copied \in Seq(Characters) /\ Len(copied) = Len(t) - n
    BY <1>2
  <2>2. \A i \in 1 .. Len(t) - n : i + n \in 1 .. Len(t) /\ copied[i] = t[i + n]
    BY <1>2
  <2>3. DOMAIN copied = 1 .. Len(t) - n /\ DOMAIN t = 1 .. Len(t)
    BY <1>2, <2>1
  <2> HIDE DEF copied, opening
  <2> QED BY <2>1, <2>2, <2>3 DEF IsWide
<1>4. /\ g[p + 1] = Scan(s, g[p], p + 1) /\ s[p + 1] = "$" /\ g[p] \in Scanner
      /\ g[p + 1] \in Scanner
  <2>1. PICK j \in 1 .. Len(t) : j = 1
    BY <1>2
  <2>2. /\ g[p + j] = Scan(s, g[p + (j - 1)], p + j) /\ s[p + j] = t[j]
        /\ g[p + (j - 1)] \in Scanner /\ g[p + j] \in Scanner
    BY StepInWord
  <2>3. p + (j - 1) = p
    BY <1>2, <2>1
  <2> QED BY <1>2, <2>1, <2>2, <2>3
<1>5. DollarAfterTag(s, p + 1) = p + n /\ SubSeq(s, p + 1, p + n) = opening
  <2>1. PICK a \in 1 .. Len(t), b \in 0 .. Len(t) : a = 1 /\ b = n /\ a <= b + 1
    BY <1>2
  <2>2. SubSeq(s, p + a, p + b) = SubSeq(t, a, b)
    BY <1>0, <2>1, Zenon
  <2>3. DollarAfterTag(s, p + 1) = p + n
    BY <1>1, TagIsFound
  <2> QED BY <2>1, <2>2, <2>3, Zenon DEF opening
<1>6. g[p + 1] = [Keep(g[p], opening) EXCEPT !.within = "dollar", !.tag = opening]
  <2>1. g[p].within = "sql" /\ g[p].skip = 0
    BY Zenon DEF Within
  <2>2. g[p + 1] = InSQL(g[p], s, p + 1)
    BY <1>4, <2>1 DEF Scan
  <2>3. DollarAfterTag(s, p + 1) # 0 /\ "$" # Quote /\ "$" # Semicolon
    BY <1>2, <1>5, CharactersDiffer
  <2> HIDE DEF opening
  <2> QED BY <1>4, <1>5, <2>2, <2>3 DEF InSQL
<1> HIDE DEF opening, copied
<1>7. Within(g[p + 1], "dollar", n - 1, c \o opening, m) /\ g[p + 1].tag = opening
  <2>1. Within(Keep(g[p], opening), "sql", Len(opening) - 1, c \o opening, m)
    BY <1>3, KeepsWithin, Zenon
  <2>2. PICK y \in Scanner : y = Keep(g[p], opening) /\ y.skip = Len(opening) - 1
                             /\ y.cur = c \o opening /\ y.stmts = m
    BY <2>1, Zenon DEF Within
  <2>3. /\ g[p + 1].within = "dollar" /\ g[p + 1].tag = opening /\ g[p + 1].skip = y.skip
        /\ g[p + 1].cur = y.cur /\ g[p + 1].stmts = y.stmts
    BY <1>6, <2>2 DEF Scanner
  <2> QED BY <1>3, <1>4, <2>2, <2>3 DEF Within
<1>8. Within(g[p + n], "dollar", 0, c \o opening, m) /\ g[p + n].tag = opening
  <2>1. p + 1 \in Nat /\ n - 1 \in Nat /\ (p + 1) + (n - 1) = p + n /\ p + n <= Len(s)
        /\ IsScan(s, g)
    BY <1>2 DEF AtWord
  <2>2. Within(g[(p + 1) + (n - 1)], "dollar", 0, c \o opening, m)
        /\ g[(p + 1) + (n - 1)].tag = g[p + 1].tag
    BY <1>7, <2>1, Skipped
  <2> QED BY <1>7, <2>1, <2>2
<1>9. PICK x \in Scanner : x = g[p + n] /\ x.within = "dollar" /\ x.skip = 0
                           /\ x.cur = c \o opening /\ x.stmts = m /\ x.tag = opening
  BY <1>8, Zenon DEF Within
<1>10. g[p + (n + 1)] = InDollarQuote(x, s, p + (n + 1)) /\ g[p + (n + 1)] \in Scanner
  <2>1. n + 1 \in 1 .. Len(t) /\ (n + 1) - 1 = n
    BY <1>2
  <2>2. g[p + (n + 1)] = Scan(s, g[p + n], p + (n + 1)) /\ g[p + (n + 1)] \in Scanner
    BY <2>1, StepInWord
  <2> QED BY <1>9, <2>2 DEF Scan
<1>11. g[p + (n + 1)] = Leaves(x, copied)
  <2>1. x.tag = SubSeq(t, 1, n)
    BY <1>9, Zenon DEF opening
  <2>2. InDollarQuote(x, s, p + (n + 1)) = Leaves(x, SubSeq(t, n + 1, Len(t)))
    BY <1>1, <2>1, QuoteIsClosed
  <2> QED BY <1>10, <2>2, Zenon DEF copied
<1>12. Within(g[p + (n + 1)], "sql", rest, c \o t, m)
  <2>1. Bytes(copied) - 1 = rest
    BY <1>2, <1>3, BytesAre
  <2>2. (c \o opening) \o copied = c \o t
    <3>1. n \in 0 .. Len(t)
      BY <1>2
    <3>2. Upto(c, t, n) \o SubSeq(t, n + 1, Len(t)) = c \o t
      BY <1>2, <3>1, UptoIs
    <3> QED BY <3>2 DEF Upto, opening, copied
  <2>3. LET z == g[p + (n + 1)] IN
        /\ z.within = "sql" /\ z.skip = Bytes(copied) - 1 /\ z.cur = x.cur \o copied
        /\ z.stmts = x.stmts
    BY <1>11 DEF Scanner, Leaves
  <2> HIDE DEF rest
  <2> QED BY <1>9, <1>10, <2>1, <2>2, <2>3 DEF Within
<1>13. /\ p + (n + 1) \in Nat /\ rest \in Nat /\ (p + (n + 1)) + rest = p + Len(t)
       /\ IsScan(s, g)
  BY <1>2 DEF AtWord
<1>14. Within(g[(p + (n + 1)) + rest], "sql", 0, c \o t, m)
  <2> HIDE DEF rest
  <2> QED BY <1>2, <1>12, <1>13, Skipped
<1> QED BY <1>13, <1>14

-----------------------------------------------------------------------------
(* Scripts: one token after another.                                       *)

(* The text of a script up to each of its tokens.                          *)
TextUpto(seqs, u) ==
    /\ u \in [0 .. Len(seqs) -> Seq(Characters)] /\ u[0] = <<>>
    /\ \A n \in 1 .. Len(seqs) : u[n] = u[n - 1] \o seqs[n]

LEMMA TextIsThere ==
    ASSUME NEW seqs \in Seq(Seq(Characters))
    PROVE  \E u : TextUpto(seqs, u) /\ FlattenSeq(seqs) = u[Len(seqs)]
<1> DEFINE S == Seq(Characters)
           N == Len(seqs)
           step == [n \in 1 .. N |-> [x \in S |-> x \o seqs[n]]]
<1>1. N \in Nat /\ (\A i \in 1 .. N : seqs[i] \in S) /\ <<>> \in S
      /\ \A x, y \in S : x \o y \in S
  OBVIOUS
<1>2. step \in [1 .. N -> [S -> S]]
  BY <1>1
<1>3. PICK u \in [0 .. N -> S] : u[0] = <<>> /\ \A n \in 1 .. N : u[n] = step[n][u[n - 1]]
  <2> HIDE DEF step, N, S
  <2>1. HasRun(N, S, <<>>, step)
    BY <1>1, <1>2, RunExists
  <2> QED BY <2>1 DEF HasRun
<1>4. ASSUME NEW n \in 1 .. N PROVE u[n] = u[n - 1] \o seqs[n]
  <2>3. n - 1 \in 0 .. N
    BY <1>1
  <2>1. u[n - 1] \in S
    <3> HIDE DEF step, S, N
    <3> QED BY <1>3, <2>3
  <2>2. \A x \in S : step[n][x] = x \o seqs[n]
    OBVIOUS
  <2> HIDE DEF step, S
  <2> QED BY <1>3, <2>1, <2>2
<1>5. TextUpto(seqs, u)
  <2> HIDE DEF step
  <2> QED BY <1>3, <1>4 DEF TextUpto
<1>6. CASE N = 0
  <2>1. FlattenSeq(seqs) = <<>>
    BY <1>6 DEF FlattenSeq
  <2> QED BY <1>3, <1>5, <1>6, <2>1
<1>7. CASE N # 0
  <2> DEFINE flatten[i \in 1 .. N] == IF i = 1 THEN seqs[i] ELSE flatten[i - 1] \o seqs[i]
             h == [i \in 1 .. N |-> u[i]]
  <2>1. FlattenSeq(seqs) = flatten[N]
    BY <1>7, Zenon DEF FlattenSeq
  <2>2. u[1] = seqs[1]
    <3>1. PICK n \in 1 .. N : n = 1
      BY <1>1, <1>7
    <3>4. u[n] = u[n - 1] \o seqs[n]
      BY <1>4
    <3>2. u[n] = u[n - 1] \o seqs[n] /\ n - 1 = 0
      <4>1. n - 1 = 0
        BY <3>1
      <4> QED BY <3>4, <4>1
    <3>3. \A x \in S : <<>> \o x = x
      OBVIOUS
    <3> HIDE DEF step, S
    <3> QED BY <1>1, <1>3, <3>1, <3>2, <3>3
  <2> HIDE DEF step, S
  <2>3. h = [i \in 1 .. N |-> IF i = 1 THEN seqs[i] ELSE h[i - 1] \o seqs[i]]
    <3> SUFFICES ASSUME NEW i \in 1 .. N
                 PROVE  h[i] = IF i = 1 THEN seqs[i] ELSE h[i - 1] \o seqs[i]
      BY Zenon
    <3>1. i # 1 => i - 1 \in 1 .. N
      BY <1>1
    <3> HIDE DEF N
    <3> QED BY <1>4, <2>2, <3>1
  <2>4. flatten = [i \in 1 .. N |-> IF i = 1 THEN seqs[i] ELSE flatten[i - 1] \o seqs[i]]
    <3> HIDE DEF h
    <3> SUFFICES \E f : f = [i \in 1 .. N |-> IF i = 1 THEN seqs[i] ELSE f[i - 1] \o seqs[i]]
      OBVIOUS
    <3> QED BY <2>3
  <2> HIDE DEF flatten, h
  <2> DEFINE T == {0} \cup {i \in 1 .. N : flatten[i] = u[i]}
  <2>5. ASSUME NEW i \in 1 .. N, i - 1 \in T PROVE i \in T
    <3>1. CASE i = 1
      BY <2>2, <2>4, <3>1
    <3>2. CASE i # 1
      <4>1. flatten[i - 1] = u[i - 1]
        BY <1>1, <2>5, <3>2
      <4>2. flatten[i] = flatten[i - 1] \o seqs[i]
        BY <2>4, <3>2
      <4>3. flatten[i] = u[i]
        BY <1>4, <4>1, <4>2
      <4> QED BY <4>3
    <3> QED BY <3>1, <3>2
  <2>6. N \in T
    <3>1. 0 \in T
      OBVIOUS
    <3> HIDE DEF T
    <3>2. 0 .. N \subseteq T
      BY <1>1, <2>5, <3>1, UpTo
    <3> QED BY <1>1, <3>2
  <2>7. flatten[N] = u[N]
    BY <1>7, <2>6
  <2> QED BY <1>5, <2>1, <2>7
<1> QED BY <1>6, <1>7

(* It is where the text begins.                                            *)
Begins(s, v) == Len(v) <= Len(s) /\ \A j \in 1 .. Len(v) : s[j] = v[j]

LEMMA TokensArePlaced ==
    ASSUME NEW seqs \in Seq(Seq(Characters)), NEW u, TextUpto(seqs, u),
           NEW n \in 1 .. Len(seqs), Begins(u[Len(seqs)], u[n])
    PROVE  /\ Begins(u[Len(seqs)], u[n - 1])
           /\ Len(u[n]) = Len(u[n - 1]) + Len(seqs[n])
           /\ Len(u[n - 1]) + Len(seqs[n]) <= Len(u[Len(seqs)])
           /\ \A j \in 1 .. Len(seqs[n]) : u[Len(seqs)][Len(u[n - 1]) + j] = seqs[n][j]
<1>1. /\ n - 1 \in 0 .. Len(seqs) /\ n \in 0 .. Len(seqs) /\ Len(seqs) \in 0 .. Len(seqs)
      /\ seqs[n] \in Seq(Characters)
  OBVIOUS
<1>2. u[n - 1] \in Seq(Characters) /\ u[n] = u[n - 1] \o seqs[n]
  BY <1>1 DEF TextUpto
<1> DEFINE s == u[Len(seqs)]
           a == u[n - 1]
           b == seqs[n]
<1>3. s \in Seq(Characters)
  BY <1>1 DEF TextUpto
<1>4. a \in Seq(Characters) /\ b \in Seq(Characters) /\ u[n] = a \o b
  BY <1>1, <1>2
<1>5. Begins(s, a \o b)
  BY <1>4
<1> HIDE DEF s, a, b
<1>6. Len(a \o b) = Len(a) + Len(b) /\ Len(a) \in Nat /\ Len(b) \in Nat /\ Len(s) \in Nat
      /\ (\A j \in 1 .. Len(a) : (a \o b)[j] = a[j])
      /\ \A j \in 1 .. Len(b) : (a \o b)[Len(a) + j] = b[j]
  BY <1>3, <1>4
<1>7. \A j \in 1 .. Len(a) : s[j] = a[j]
  BY <1>5, <1>6 DEF Begins
<1>8. ASSUME NEW j \in 1 .. Len(b) PROVE s[Len(a) + j] = b[j]
  <2>1. Len(a) + j \in 1 .. Len(a \o b)
    BY <1>6
  <2> QED BY <1>5, <1>6, <2>1 DEF Begins
<1>9. Len(a) + Len(b) <= Len(s)
  BY <1>5, <1>6 DEF Begins
<1>10. Begins(s, a) /\ Len(u[n]) = Len(a) + Len(b)
  BY <1>4, <1>6, <1>7, <1>9 DEF Begins
<1> QED BY <1>8, <1>9, <1>10 DEF s, a, b

LEMMA AllBegin ==
    ASSUME NEW seqs \in Seq(Seq(Characters)), NEW u, TextUpto(seqs, u)
    PROVE  \A n \in 0 .. Len(seqs) : Begins(u[Len(seqs)], u[n])
<1> DEFINE N == Len(seqs)
           T == {k \in 0 .. N : Begins(u[N], u[N - k])}
<1>1. N \in Nat
  OBVIOUS
<1>2. 0 \in T
  <2>1. u[N] \in Seq(Characters) /\ N - 0 = N
    BY <1>1 DEF TextUpto
  <2> QED BY <1>1, <2>1 DEF Begins
<1>3. ASSUME NEW k \in 1 .. N, k - 1 \in T PROVE k \in T
  <2>4. N - (k - 1) \in 1 .. N /\ (N - (k - 1)) - 1 = N - k /\ k \in 0 .. N
    BY <1>1
  <2>1. PICK n \in 1 .. N : n = N - (k - 1) /\ n - 1 = N - k
    <3> HIDE DEF N
    <3> QED BY <2>4
  <2>2. Begins(u[N], u[n])
    BY <1>3, <2>1
  <2>3. Begins(u[N], u[n - 1])
    BY <2>2, TokensArePlaced
  <2> QED BY <2>1, <2>3, <2>4
<1>4. 0 .. N \subseteq T
  <2> HIDE DEF T
  <2> QED BY <1>1, <1>2, <1>3, UpTo
<1>5. ASSUME NEW n \in 0 .. N PROVE Begins(u[N], u[n])
  <2>1. N - n \in 0 .. N /\ N - (N - n) = n
    BY <1>1
  <2>2. N - n \in T
    BY <1>4, <2>1
  <2> QED BY <2>1, <2>2
<1> QED BY <1>5

(* What the tokens add up to.                                              *)
TakenSoFar == [cur : Seq(Characters), stmts : Seq(Seq(Characters))]

LEMMA TakenIsText ==
    ASSUME NEW x \in TakenSoFar, NEW t \in Seq(Characters)
    PROVE  Taken(x, t) \in TakenSoFar
<1>1. /\ x.cur \in Seq(Characters) /\ x.stmts \in Seq(Seq(Characters))
      /\ <<>> \in Seq(Characters) /\ x.cur \o t \in Seq(Characters)
  BY DEF TakenSoFar
<1>2. Add(x.stmts, x.cur) \in Seq(Seq(Characters))
  BY <1>1, AddIsText
<1>3. [x EXCEPT !.cur = x.cur \o t] \in TakenSoFar
  BY <1>1 DEF TakenSoFar
<1>4. [cur |-> <<>>, stmts |-> Add(x.stmts, x.cur)] \in TakenSoFar
  BY <1>1, <1>2 DEF TakenSoFar
<1> QED BY <1>3, <1>4 DEF Taken

AreTaken(seqs, h) ==
    /\ h \in [0 .. Len(seqs) -> TakenSoFar] /\ h[0] = [cur |-> <<>>, stmts |-> <<>>]
    /\ \A n \in 1 .. Len(seqs) : h[n] = Taken(h[n - 1], seqs[n])

LEMMA TakenAreThere ==
    ASSUME NEW seqs \in Seq(Seq(Characters))
    PROVE  \E h : /\ AreTaken(seqs, h)
                  /\ WholeStatements(seqs) = Add(h[Len(seqs)].stmts, h[Len(seqs)].cur)
<1> DEFINE N == Len(seqs)
           none == [cur |-> <<>>, stmts |-> <<>>]
           step == [n \in 1 .. N |-> [x \in TakenSoFar |-> Taken(x, seqs[n])]]
           taken[n \in 0 .. N] == IF n = 0 THEN none ELSE Taken(taken[n - 1], seqs[n])
<1>1. N \in Nat /\ \A n \in 1 .. N : seqs[n] \in Seq(Characters)
  OBVIOUS
<1>2. step \in [1 .. N -> [TakenSoFar -> TakenSoFar]]
  BY <1>1, TakenIsText
<1>3. none \in TakenSoFar
  BY DEF TakenSoFar
<1>4. PICK f \in [0 .. N -> TakenSoFar] :
          f[0] = none /\ \A n \in 1 .. N : f[n] = step[n][f[n - 1]]
  <2> HIDE DEF step, N, none
  <2>1. HasRun(N, TakenSoFar, none, step)
    BY <1>1, <1>2, <1>3, RunExists
  <2> QED BY <2>1 DEF HasRun
<1>5. ASSUME NEW n \in 1 .. N PROVE f[n] = Taken(f[n - 1], seqs[n])
  <2>3. n - 1 \in 0 .. N
    BY <1>1
  <2>1. f[n - 1] \in TakenSoFar
    <3> HIDE DEF step, none, N
    <3> QED BY <1>4, <2>3
  <2>2. \A x \in TakenSoFar : step[n][x] = Taken(x, seqs[n])
    OBVIOUS
  <2> HIDE DEF step, none
  <2> QED BY <1>4, <2>1, <2>2
<1> HIDE DEF step, none
<1>6. f = [n \in 0 .. N |-> IF n = 0 THEN none ELSE Taken(f[n - 1], seqs[n])]
  <2>1. \A n \in 0 .. N : f[n] = IF n = 0 THEN none ELSE Taken(f[n - 1], seqs[n])
    <3> SUFFICES ASSUME NEW n \in 0 .. N
                 PROVE  f[n] = IF n = 0 THEN none ELSE Taken(f[n - 1], seqs[n])
      OBVIOUS
    <3>1. n # 0 => n \in 1 .. N
      BY <1>1
    <3> HIDE DEF N
    <3> QED BY <1>4, <1>5, <3>1
  <2> QED BY <1>4, <2>1
<1>7. taken = [n \in 0 .. N |-> IF n = 0 THEN none ELSE Taken(taken[n - 1], seqs[n])]
  <2> SUFFICES \E h : h = [n \in 0 .. N |-> IF n = 0 THEN none ELSE Taken(h[n - 1], seqs[n])]
    BY Zenon
  <2> QED BY <1>6, Zenon
<1>8. WholeStatements(seqs) = Add(taken[N].stmts, taken[N].cur)
  BY Zenon DEF WholeStatements, none
<1> HIDE DEF taken
<1>9. /\ taken[0] = none
      /\ \A n \in 1 .. N : taken[n] = Taken(taken[n - 1], seqs[n])
  <2>1. \A n \in 0 .. N : taken[n] = IF n = 0 THEN none ELSE Taken(taken[n - 1], seqs[n])
    BY <1>7, Zenon
  <2>2. 0 \in 0 .. N /\ \A n \in 1 .. N : n \in 0 .. N /\ n # 0
    BY <1>1
  <2> HIDE DEF N
  <2> QED BY <2>1, <2>2
<1>10. \A n \in 0 .. N : taken[n] \in TakenSoFar
  <2> DEFINE T == {n \in 0 .. N : taken[n] \in TakenSoFar}
  <2>1. 0 \in T
    BY <1>1, <1>3, <1>9
  <2>2. ASSUME NEW n \in 1 .. N, n - 1 \in T PROVE n \in T
    <3>1. taken[n - 1] \in TakenSoFar /\ seqs[n] \in Seq(Characters) /\ n \in 0 .. N
      BY <1>1, <2>2
    <3>2. taken[n] = Taken(taken[n - 1], seqs[n])
      BY <1>9
    <3>3. taken[n] \in TakenSoFar
      BY <3>1, <3>2, TakenIsText
    <3> QED BY <3>1, <3>3
  <2> HIDE DEF T
  <2>3. 0 .. N \subseteq T
    BY <1>1, <2>1, <2>2, UpTo
  <2> QED BY <2>3 DEF T
<1>11. AreTaken(seqs, taken)
  <2>1. taken \in [0 .. N -> TakenSoFar]
    <3> HIDE DEF N
    <3> QED BY <1>7, <1>10
  <2> QED BY <1>9, <2>1 DEF AreTaken, none
<1> QED BY <1>8, <1>11

(* A token says how it begins, and whether it is a comment.                *)
LEMMA TokenBegins ==
    ASSUME NEW t \in Seq(Characters), IsToken(t)
    PROVE  /\ Len(t) >= 1
           /\ t[1] = Quote => IsLiteral(t)
           /\ IsOrdinary(t) \/ IsOperator(t) \/ IsLiteral(t) \/ IsDollarQuote(t)
                => t # <<Semicolon>> /\ ~IsComment(t)
           /\ IsComment(t) => t # <<Semicolon>>
<1>1. t = <<Semicolon>> => Len(t) = 1 /\ t[1] = Semicolon
  OBVIOUS
<1>2. IsOrdinary(t) => Len(t) = 1 /\ t[1] \notin {Quote, Semicolon}
  BY Zenon DEF IsOrdinary, Special
<1>3. IsOperator(t) => Len(t) = 2 /\ t[1] \in {"-", "/", "$"}
  BY DEF IsOperator
<1>4. IsLiteral(t) => Len(t) >= 2 /\ t[1] = Quote
  BY DEF IsLiteral
<1>5. IsComment(t) => Len(t) >= 3 /\ t[1] \in {"-", "/"}
  BY DEF IsComment, IsLineComment, IsBlockComment
<1>6. IsDollarQuote(t) => Len(t) >= 2 /\ t[1] = "$"
  BY DEF IsDollarQuote, IsTagged
<1>7. /\ Quote \notin {"-", "/", "$", Semicolon} /\ "$" \notin {"-", "/"}
      /\ Semicolon \notin {"-", "/", "$"}
  BY CharactersDiffer
<1>11. \A n \in Nat : n \in {1, 2} => ~(n >= 3)
  OBVIOUS
<1>12. Len(t) \in {1, 2} => ~IsComment(t)
  <2>1. Len(t) \in Nat
    OBVIOUS
  <2> QED BY <1>5, <1>11, <2>1, Zenon
<1>8. Len(t) >= 1 /\ (t[1] = Quote => IsLiteral(t))
  BY <1>1, <1>2, <1>3, <1>4, <1>5, <1>6, <1>7 DEF IsToken
<1>9. IsOrdinary(t) \/ IsOperator(t) \/ IsLiteral(t) \/ IsDollarQuote(t)
        => t # <<Semicolon>> /\ ~IsComment(t)
  <2>1. IsOrdinary(t) => t # <<Semicolon>> /\ ~IsComment(t)
    BY <1>1, <1>2, <1>12, Zenon
  <2>2. IsOperator(t) => t # <<Semicolon>> /\ ~IsComment(t)
    BY <1>1, <1>3, <1>7, <1>12, Zenon
  <2>3. IsLiteral(t) => t # <<Semicolon>> /\ ~IsComment(t)
    BY <1>1, <1>4, <1>5, <1>7
  <2>4. IsDollarQuote(t) => t # <<Semicolon>> /\ ~IsComment(t)
    BY <1>1, <1>5, <1>6, <1>7, Zenon
  <2> QED BY <2>1, <2>2, <2>3, <2>4
<1>10. IsComment(t) => t # <<Semicolon>>
  BY <1>1, <1>5
<1> QED BY <1>8, <1>9, <1>10

(* Where a token ends, the scanner has its statement, unless the quote     *)
(* that comes next still belongs to what it takes for one literal.         *)
Follows(s, x, p, c, m) ==
    \/ Within(x, "sql", 0, c, m)
    \/ p < Len(s) /\ s[p + 1] = Quote /\ Within(x, "string", 1, c \o <<Quote>>, m)

LEMMA TokenIsTaken ==
    ASSUME NEW s \in Seq(Characters), NEW g, NEW p, NEW t, AtWord(s, g, p, t),
           IsToken(t), IsDollarQuote(t) => ~IsWide(t),
           NEW x \in TakenSoFar, Follows(s, g[p], p, x.cur, x.stmts)
    PROVE  Follows(s, g[p + Len(t)], p + Len(t), Taken(x, t).cur, Taken(x, t).stmts)
<1> DEFINE c == x.cur
           m == x.stmts
           y == Taken(x, t)
<1>1. /\ c \in Seq(Characters) /\ t \in Seq(Characters) /\ p \in Nat /\ Len(t) \in Nat
      /\ p + Len(t) <= Len(s) /\ Len(s) \in Nat /\ \A j \in 1 .. Len(t) : s[p + j] = t[j]
  BY StartOfWord DEF AtWord, TakenSoFar
<1>2. /\ Len(t) >= 1 /\ (t[1] = Quote => IsLiteral(t))
      /\ IsOrdinary(t) \/ IsOperator(t) \/ IsLiteral(t) \/ IsDollarQuote(t)
           => t # <<Semicolon>> /\ ~IsComment(t)
      /\ IsComment(t) => t # <<Semicolon>>
  BY <1>1, TokenBegins
<1>3. t[1] # Quote => Within(g[p], "sql", 0, c, m)
  <2>1. PICK j \in 1 .. Len(t) : j = 1
    BY <1>1, <1>2
  <2>2. s[p + 1] = t[1]
    BY <1>1, <2>1
  <2> QED BY <2>2, Zenon DEF Follows
<1>4. /\ t = <<Semicolon>> => y.cur = <<>> /\ y.stmts = Add(m, c)
      /\ IsComment(t) => y.cur = c /\ y.stmts = m
      /\ t # <<Semicolon>> /\ ~IsComment(t) => y.cur = c \o t /\ y.stmts = m
  <2>1. \A d : [x EXCEPT !.cur = d].cur = d /\ [x EXCEPT !.cur = d].stmts = x.stmts
    BY DEF TakenSoFar
  <2> QED BY <1>2, <2>1 DEF Taken
<1> HIDE DEF c, m, y
<1>5. CASE IsLiteral(t)
  <2>1. Within(g[p], "sql", 0, c, m) \/ Within(g[p], "string", 1, c \o <<Quote>>, m)
    BY Zenon DEF Follows, c, m
  <2>2. IF p + Len(t) < Len(s) /\ s[p + Len(t) + 1] = Quote
        THEN Within(g[p + Len(t)], "string", 1, (c \o t) \o <<Quote>>, m)
        ELSE Within(g[p + Len(t)], "sql", 0, c \o t, m)
    BY <1>1, <1>5, <2>1, LiteralIsKept
  <2>3. y.cur = c \o t /\ y.stmts = m
    BY <1>2, <1>4, <1>5
  <2>4. Follows(s, g[p + Len(t)], p + Len(t), c \o t, m)
    BY <2>2 DEF Follows
  <2> QED BY <2>3, <2>4 DEF y
<1>6. CASE ~IsLiteral(t)
  <2>1. Within(g[p], "sql", 0, c, m)
    BY <1>2, <1>3, <1>6
  <2>2. CASE t = <<Semicolon>>
    <3>1. AtWord(s, g, p, <<Semicolon>>) /\ Len(t) = 1
      BY <2>2
    <3>2. Within(g[p + 1], "sql", 0, <<>>, Add(m, c))
      BY <1>1, <2>1, <3>1, SemicolonEnds
    <3>3. Within(g[p + Len(t)], "sql", 0, y.cur, y.stmts)
      BY <1>4, <2>2, <3>1, <3>2
    <3> QED BY <3>3, Zenon DEF Follows, y
  <2>3. CASE IsOrdinary(t) \/ IsOperator(t)
    <3>1. Within(g[p + Len(t)], "sql", 0, c \o t, m)
      BY <1>1, <2>1, <2>3, OrdinaryIsKept
    <3>2. y.cur = c \o t /\ y.stmts = m
      BY <1>2, <1>4, <2>3
    <3> QED BY <3>1, <3>2, Zenon DEF Follows, y
  <2>4. CASE IsComment(t)
    <3>1. Within(g[p + Len(t)], "sql", 0, c, m)
      BY <2>1, <2>4, LineCommentIsDropped, BlockCommentIsDropped DEF IsComment
    <3>2. y.cur = c /\ y.stmts = m
      BY <1>4, <2>4
    <3> QED BY <3>1, <3>2, Zenon DEF Follows, y
  <2>5. CASE IsDollarQuote(t)
    <3>1. Within(g[p + Len(t)], "sql", 0, c \o t, m)
      BY <1>1, <2>1, <2>5, DollarQuoteIsKept
    <3>2. y.cur = c \o t /\ y.stmts = m
      BY <1>2, <1>4, <2>5
    <3> QED BY <3>1, <3>2, Zenon DEF Follows, y
  <2> QED BY <1>6, <2>2, <2>3, <2>4, <2>5 DEF IsToken
<1> QED BY <1>5, <1>6

(* A script of tokens is split into its statements.                        *)
LEMMA ScriptIsSplit ==
    ASSUME NEW seqs \in Seq(Seq(Characters)),
           \A i \in 1 .. Len(seqs) :
               IsToken(seqs[i]) /\ (IsDollarQuote(seqs[i]) => ~IsWide(seqs[i]))
    PROVE  SplitSQL(FlattenSeq(seqs)) = WholeStatements(seqs)
<1>1. PICK u : TextUpto(seqs, u) /\ FlattenSeq(seqs) = u[Len(seqs)]
  BY TextIsThere
<1>2. PICK h : AreTaken(seqs, h)
               /\ WholeStatements(seqs) = Add(h[Len(seqs)].stmts, h[Len(seqs)].cur)
  BY TakenAreThere
<1> DEFINE N == Len(seqs)
           s == u[N]
<1>3. N \in Nat /\ N \in 0 .. N /\ s \in Seq(Characters)
  BY <1>1 DEF TextUpto
<1>4. PICK g : IsScan(s, g) /\ SplitSQL(s) = Add(g[Len(s)].stmts, g[Len(s)].cur)
  <2> HIDE DEF s
  <2> QED BY <1>3, ScanExists
<1> DEFINE T == {n \in 0 .. N : Follows(s, g[Len(u[n])], Len(u[n]), h[n].cur, h[n].stmts)}
<1>5. 0 \in T
  <2>1. Len(u[0]) = 0 /\ g[0] = ScanStart /\ h[0].cur = <<>> /\ h[0].stmts = <<>>
    BY <1>1, <1>2, <1>4 DEF TextUpto, IsScan, AreTaken
  <2>2. Within(ScanStart, "sql", 0, <<>>, <<>>)
    BY DEF Within, ScanStart, Scanner
  <2>3. Within(g[Len(u[0])], "sql", 0, h[0].cur, h[0].stmts)
    BY <2>1, <2>2
  <2> QED BY <1>3, <2>3 DEF Follows
<1>6. ASSUME NEW n \in 1 .. N, n - 1 \in T PROVE n \in T
  <2> DEFINE p == Len(u[n - 1])
             t == seqs[n]
  <2>10. n - 1 \in 0 .. N
    BY <1>3
  <2>1. u[n - 1] \in Seq(Characters) /\ t \in Seq(Characters) /\ p \in Nat
    <3>1. u[n - 1] \in Seq(Characters)
      BY <1>1, <2>10, Zenon DEF TextUpto
    <3>2. t \in Seq(Characters)
      OBVIOUS
    <3> QED BY <3>1, <3>2
  <2>2. Begins(s, u[n])
    BY <1>1, <1>3, AllBegin
  <2>3. /\ Len(u[n]) = p + Len(t) /\ p + Len(t) <= Len(s)
        /\ \A j \in 1 .. Len(t) : s[p + j] = t[j]
    BY <1>1, <2>2, TokensArePlaced
  <2>4. AtWord(s, g, p, t)
    BY <1>4, <2>1, <2>3 DEF AtWord
  <2>5. Follows(s, g[p], p, h[n - 1].cur, h[n - 1].stmts)
    BY <1>6
  <2>6. h[n - 1] \in TakenSoFar /\ h[n] = Taken(h[n - 1], t)
    <3>1. h \in [0 .. N -> TakenSoFar] /\ \A k \in 1 .. N : h[k] = Taken(h[k - 1], seqs[k])
      BY <1>2, Zenon DEF AreTaken
    <3> HIDE DEF N
    <3> QED BY <2>10, <3>1
  <2>7. IsToken(t) /\ (IsDollarQuote(t) => ~IsWide(t))
    OBVIOUS
  <2> HIDE DEF s, p, t, T
  <2>8. Follows(s, g[p + Len(t)], p + Len(t), h[n].cur, h[n].stmts)
    BY <1>3, <2>4, <2>5, <2>6, <2>7, TokenIsTaken
  <2>9. Follows(s, g[Len(u[n])], Len(u[n]), h[n].cur, h[n].stmts)
    BY <2>3, <2>8
  <2> QED BY <2>9 DEF T
<1>7. N \in T
  <2> HIDE DEF T, N, s
  <2>1. 0 .. N \subseteq T
    BY <1>3, <1>5, <1>6, UpTo
  <2> QED BY <1>3, <2>1
<1>8. Within(g[Len(s)], "sql", 0, h[N].cur, h[N].stmts)
  <2>1. Follows(s, g[Len(s)], Len(s), h[N].cur, h[N].stmts)
    BY <1>7
  <2>2. ~(Len(s) < Len(s))
    BY <1>3
  <2> QED BY <2>1, <2>2 DEF Follows
<1>9. SplitSQL(s) = Add(h[N].stmts, h[N].cur)
  BY <1>4, <1>8 DEF Within
<1> QED BY <1>1, <1>2, <1>9

-----------------------------------------------------------------------------
(* Scripts: what is executed is the script, split.                         *)
ScriptInv ==
    /\ script \in Scripts
    /\ statements # NotSplit => statements = SplitSQL(FlattenSeq(script))

(* A migration of literals, comments, dollar quotes and whatever else is   *)
(* written outside of them is executed statement by statement, each of     *)
(* them whole (the comment on splitSQL).                                   *)
THEOREM StatementsStayWhole == ScriptSpec => []StatementsAreWhole
<1>1. ScriptInit => ScriptInv
  BY DEF ScriptInit, ScriptInv
<1>2. ScriptInv /\ [Split]_scriptVars => ScriptInv'
  BY DEF ScriptInv, Split, scriptVars
<1>3. ScriptInv => StatementsAreWhole
  <2> SUFFICES ASSUME ScriptInv, statements # NotSplit,
                      \A i \in DOMAIN script : IsDollarQuote(script[i]) => ~IsWide(script[i])
               PROVE  statements = WholeStatements(script)
    BY DEF StatementsAreWhole
  <2>1. /\ script \in Seq(Seq(Characters))
        /\ \A i \in DOMAIN script : IsToken(script[i])
    BY ScriptsAreWritten DEF ScriptInv
  <2>2. DOMAIN script = 1 .. Len(script)
    BY <2>1
  <2>3. \A i \in 1 .. Len(script) :
            IsToken(script[i]) /\ (IsDollarQuote(script[i]) => ~IsWide(script[i]))
    BY <2>1, <2>2
  <2>4. SplitSQL(FlattenSeq(script)) = WholeStatements(script)
    BY <2>1, <2>3, ScriptIsSplit
  <2> QED BY <2>4 DEF ScriptInv
<1> QED BY <1>1, <1>2, <1>3, PTL DEF ScriptSpec
==============================================================================
