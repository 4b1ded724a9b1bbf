------------------------------ MODULE Sessions ------------------------------
(***************************************************************************)
(* The users of one organization, their sessions and refresh tokens, and   *)
(* the lockout of an account after failed logins.                          *)
(*                                                                         *)
(* Nothing here runs in a transaction but the registration of a user, and  *)
(* that locks nothing: every step is one statement of the database or one  *)
(* call of the limiter's mutex.  What a request has read before stays in   *)
(* its local variables while others write.                                 *)
(***************************************************************************)
EXTENDS Naturals, FiniteSets

CONSTANTS
    Users,        \* e-mail addresses
    Passwords,    \* passwords
    SessionIds,   \* rows of auth_sessions that may be inserted
    Tokens,       \* refresh tokens that may be drawn
    Requests,     \* concurrently running requests
    MaxFailures,  \* failed logins that lock an account
    Window,       \* time units a failure counts and a lock lasts
    Nil           \* no row, no value

ASSUME LimitsAreNatural == MaxFailures \in Nat \ {0} /\ Window \in Nat
ASSUME RequestsAreFinite == IsFiniteSet(Requests)

ASSUME NilIsNoValue ==
    /\ Nil \notin Users \cup Passwords \cup SessionIds \cup Tokens
    /\ Nil # "admin" /\ Nil # "staff"

VARIABLES
    user,      \* users: password and role of each row
    session,   \* auth_sessions: user, current token, and what ended it; and
               \* the password it was opened with
    token,     \* what has become of each refresh token
    failures,  \* failed logins of each account that are remembered
    quiet,     \* time since the last of them
    request    \* local variables of each request

accounts == <<failures, quiet>>
vars == <<user, session, token, failures, quiet, request>>

-----------------------------------------------------------------------------
User == [password : Passwords, role : {"admin", "staff"}]

Session == [user : Users, token : Tokens, password : Passwords,
            expired : BOOLEAN, revoked : BOOLEAN]

(* SQL NULL stands for a row that is not there.                            *)
ASSUME NilIsNoRow == Nil \notin User /\ Nil \notin Session

(* A token is stored before its client holds it; a client that holds it    *)
(* may exchange it; a request that breaks off takes it along.              *)
TokenStatus == {"undrawn", "stored", "held", "exchanged", "lost"}

(* Local variables: whom the request is about; a password the client sent  *)
(* and a new one; the role read for it; the session and its old and new    *)
(* token.                                                                  *)
Idle == [pc |-> "idle", user |-> Nil, password |-> Nil, new |-> Nil,
         role |-> Nil, session |-> Nil, old |-> Nil, token |-> Nil]

Init ==
    /\ user = [u \in Users |-> Nil]
    /\ session = [s \in SessionIds |-> Nil]
    /\ token = [t \in Tokens |-> "undrawn"]
    /\ failures = [u \in Users |-> 0]
    /\ quiet = [u \in Users |-> Window + 1]
    /\ request = [p \in Requests |-> Idle]

Begin(p, r) ==
    /\ request[p].pc = "idle"
    /\ request' = [request EXCEPT ![p] = r]
    /\ UNCHANGED <<user, session, token, accounts>>

GoTo(p, label) == request' = [request EXCEPT ![p].pc = label]

Done(p) == request' = [request EXCEPT ![p] = Idle]

(* FindByEmail, FindByID: the account has a row with that password.        *)
Verify(u, w) == user[u] # Nil /\ user[u].password = w

IsRevoked(s) == session[s].revoked

IsExpired(s) == session[s].expired

Live(s) == session[s] # Nil /\ ~IsRevoked(s) /\ ~IsExpired(s)

-----------------------------------------------------------------------------
(* The lockout.                                                            *)

IsLocked(u) == failures[u] >= MaxFailures /\ quiet[u] <= Window

Tick ==
    /\ quiet' = [u \in Users |-> IF quiet[u] <= Window THEN quiet[u] + 1
                                 ELSE quiet[u]]
    /\ UNCHANGED <<user, session, token, failures, request>>

(* A failure after a quiet window is the first one.                        *)
RecordFailedAttempt(p) ==
    LET u == request[p].user IN
    /\ request[p].pc = "failing"
    /\ failures' = [failures EXCEPT ![u] = IF quiet[u] > Window THEN 1 ELSE @ + 1]
    /\ quiet' = [quiet EXCEPT ![u] = 0]
    /\ Done(p)
    /\ UNCHANGED <<user, session, token>>

(* The account's record is deleted; the client gets its token.             *)
RecordSuccessfulAttempt(p) ==
    LET r == request[p] IN
    /\ r.pc = "succeeding"
    /\ failures' = [failures EXCEPT ![r.user] = 0]
    /\ quiet' = [quiet EXCEPT ![r.user] = Window + 1]
    /\ token' = [token EXCEPT ![r.token] = "held"]
    /\ Done(p)
    /\ UNCHANGED <<user, session>>

-----------------------------------------------------------------------------
(* Registration.                                                           *)

StartRegister(p, u, w) ==
    /\ ~IsLocked(u)
    /\ user[u] = Nil
    /\ Begin(p, [Idle EXCEPT !.pc = "counting", !.user = u, !.password = w])

(* CountByOrganizationTx: the first user of an organization is its admin.  *)
CountUsers(p) ==
    /\ request[p].pc = "counting"
    /\ request' = [request EXCEPT ![p].pc = "saving",
          ![p].role = IF \A u \in Users : user[u] = Nil THEN "admin" ELSE "staff"]
    /\ UNCHANGED <<user, session, token, accounts>>

(* The unique index refuses an address that was taken meanwhile.           *)
SaveUser(p) ==
    LET r == request[p] IN
    /\ r.pc = "saving"
    /\ user' = IF user[r.user] # Nil THEN user
               ELSE [user EXCEPT ![r.user] = [password |-> r.password,
                                              role |-> r.role]]
    /\ Done(p)
    /\ UNCHANGED <<session, token, accounts>>

-----------------------------------------------------------------------------
(* Login.                                                                  *)

(* CheckRateLimit refuses a locked account; and a handler that counts an   *)
(* attempt on a locked account as one more failure.                        *)
StartLoginLocked(p, u, w) ==
    Begin(p, [Idle EXCEPT !.pc = IF IsLocked(u) THEN "failing" ELSE "verifying",
                          !.user = u, !.password = w])
StartLogin(p, u, w) ==
    /\ ~IsLocked(u)
    /\ Begin(p, [Idle EXCEPT !.pc = "verifying", !.user = u, !.password = w])

VerifyPassword(p) ==
    LET r == request[p] IN
    /\ r.pc = "verifying"
    /\ GoTo(p, IF Verify(r.user, r.password) THEN "opening" ELSE "failing")
    /\ UNCHANGED <<user, session, token, accounts>>

(* The new row.                                                            *)
Opened(r, t) == [user |-> r.user, token |-> t, password |-> r.password,
                 expired |-> FALSE, revoked |-> FALSE]

InsertSession(s, row) ==
    /\ session[s] = Nil
    /\ session' = [session EXCEPT ![s] = row]

(* When the audit event that follows is refused the session stays, the     *)
(* attempt counts as failed and the client never learns its token.         *)
CreateSession(p, s, t) ==
    LET r == request[p] IN
    /\ r.pc = "opening"
    /\ token[t] = "undrawn"
    /\ InsertSession(s, Opened(r, t))
    /\ \/ /\ token' = [token EXCEPT ![t] = "stored"]
          /\ request' = [request EXCEPT ![p].pc = "succeeding", ![p].token = t]
       \/ /\ token' = [token EXCEPT ![t] = "lost"]
          /\ GoTo(p, "failing")
    /\ UNCHANGED <<user, accounts>>

-----------------------------------------------------------------------------
(* Refresh.                                                                *)

(* FindByRefreshTokenHash: the session as it is read here is written back  *)
(* by UpdateSession.                                                       *)
StartRefresh(p, t, s) ==
    /\ token[t] \in {"held", "exchanged"}
    /\ Live(s) /\ session[s].token = t
    /\ Begin(p, [Idle EXCEPT !.pc = "rotating", !.user = session[s].user,
                             !.session = s, !.old = t])

(* The row gets the new token and a new expiry, whatever it holds by now;  *)
(* and a write of the whole row that was read before.                      *)
WriteRow(s, t) ==
    session' = [session EXCEPT ![s].token = t, ![s].expired = FALSE,
                               ![s].revoked = FALSE]
UpdateSession(s, t) ==
    session' = [session EXCEPT ![s].token = t, ![s].expired = FALSE]

RotateToken(p, t) ==
    LET r == request[p] IN
    /\ r.pc = "rotating"
    /\ token[t] = "undrawn"
    /\ UpdateSession(r.session, t)
    /\ token' = [token EXCEPT ![t] = "stored", ![r.old] = "exchanged"]
    /\ request' = [request EXCEPT ![p].pc = "returning", ![p].token = t]
    /\ UNCHANGED <<user, accounts>>

ReturnToken(p) ==
    /\ request[p].pc = "returning"
    /\ token' = [token EXCEPT ![request[p].token] = "held"]
    /\ Done(p)
    /\ UNCHANGED <<user, session, accounts>>

-----------------------------------------------------------------------------
(* The end of sessions.                                                    *)

Expire(s) ==
    /\ Live(s)
    /\ session' = [session EXCEPT ![s].expired = TRUE]
    /\ UNCHANGED <<user, token, accounts, request>>

Revoke(s) == session' = [session EXCEPT ![s].revoked = TRUE]

Logout(s) ==
    /\ session[s] # Nil
    /\ Revoke(s)
    /\ UNCHANGED <<user, token, accounts, request>>

StartChangePassword(p, u, old, new) ==
    /\ Verify(u, old)
    /\ Begin(p, [Idle EXCEPT !.pc = "changing", !.user = u, !.new = new])

UpdatePassword(p) ==
    LET r == request[p] IN
    /\ r.pc = "changing"
    /\ user' = [user EXCEPT ![r.user].password = r.new]
    /\ GoTo(p, "revoking")
    /\ UNCHANGED <<session, token, accounts>>

RevokeAllByUserID(u) ==
    session' = [s \in SessionIds |->
        IF session[s] # Nil /\ session[s].user = u
        THEN [session[s] EXCEPT !.revoked = TRUE] ELSE session[s]]

RevokeAllUserSessions(p) ==
    /\ request[p].pc = "revoking"
    /\ RevokeAllByUserID(request[p].user)
    /\ Done(p)
    /\ UNCHANGED <<user, token, accounts>>

-----------------------------------------------------------------------------
(* An error or a client or process that goes away: what is committed       *)
(* stays, a token that was not delivered is lost.                          *)
Fail(p) ==
    /\ request[p].pc # "idle"
    /\ token' = [t \in Tokens |-> IF token[t] = "stored" /\ request[p].token = t
                                  THEN "lost" ELSE token[t]]
    /\ Done(p)
    /\ UNCHANGED <<user, session, accounts>>

(* A client sends a request.                                               *)
Start(p) ==
    \/ \E u \in Users, w \in Passwords :
          \/ StartRegister(p, u, w) \/ StartLogin(p, u, w)
          \/ \E new \in Passwords : StartChangePassword(p, u, w, new)
    \/ \E t \in Tokens, s \in SessionIds : StartRefresh(p, t, s)

(* What a started request does next on its own.                            *)
Step(p) ==
    \/ CountUsers(p) \/ SaveUser(p)
    \/ VerifyPassword(p) \/ RecordFailedAttempt(p) \/ RecordSuccessfulAttempt(p)
    \/ \E t \in Tokens :
          RotateToken(p, t) \/ \E s \in SessionIds : CreateSession(p, s, t)
    \/ ReturnToken(p)
    \/ UpdatePassword(p) \/ RevokeAllUserSessions(p)

Next ==
    \/ Tick
    \/ \E s \in SessionIds : Expire(s) \/ Logout(s)
    \/ \E p \in Requests : Start(p) \/ Step(p) \/ Fail(p)

Spec == Init /\ [][Next]_vars

-----------------------------------------------------------------------------
(* Type invariant.                                                         *)

Requestor ==
    [pc : {"idle", "counting", "saving", "verifying", "opening", "failing",
           "succeeding", "rotating", "returning", "changing", "revoking"},
     user : Users \cup {Nil}, password : Passwords \cup {Nil},
     new : Passwords \cup {Nil}, role : {"admin", "staff", Nil},
     session : SessionIds \cup {Nil}, old : Tokens \cup {Nil},
     token : Tokens \cup {Nil}]

(* Every row and request-local variable holds a value the code can store   *)
(* in it.                                                                  *)
TypeOK ==
    /\ user \in [Users -> User \cup {Nil}]
    /\ session \in [SessionIds -> Session \cup {Nil}]
    /\ token \in [Tokens -> TokenStatus]
    /\ failures \in [Users -> Nat]
    /\ quiet \in [Users -> 0..(Window + 1)]
    /\ request \in [Requests -> Requestor]

-----------------------------------------------------------------------------
(* Safety and liveness.                                                    *)

(* A session that was revoked stays so, whatever refresh had read it       *)
(* before, and goes on to name the user and the password it is of.         *)
RevokedForGood ==
    [][\A s \in SessionIds : session[s] # Nil =>
         /\ session'[s] # Nil
         /\ IsRevoked(s) => IsRevoked(s)'
         /\ session'[s].user = session[s].user
         /\ session'[s].password = session[s].password]_vars

(* An account keeps its role, and its password but for ChangePassword:     *)
(* two registrations of one address do not overwrite each other.           *)
AccountsAreKept ==
    [][\A u \in Users : user[u] # Nil =>
         /\ user'[u] # Nil /\ user'[u].role = user[u].role
         /\ user'[u].password # user[u].password =>
               \E p \in Requests : request[p].pc = "changing" /\ request[p].user = u]_vars

(* Logins that check the lock at the same time get past it together, but   *)
(* no more of them than run at once.                                       *)
GuessesAreBounded ==
    \A u \in Users : failures[u] < MaxFailures + Cardinality(Requests)
=============================================================================
