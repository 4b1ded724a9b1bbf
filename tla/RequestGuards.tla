--------------------------- MODULE RequestGuards ---------------------------
(***************************************************************************)
(* The two guards every request passes before its handler: the token       *)
(* bucket of its visitor and the store of the answers given under an       *)
(* Idempotency-Key.  Both are maps in the memory of the process, each      *)
(* under its own mutex; the handler runs under neither.                    *)
(***************************************************************************)
EXTENDS Integers, FiniteSets, Sequences, SequencesExt

CONSTANTS
    Visitors,     \* client addresses
    Keys,         \* hashes of method, path, Idempotency-Key and principal
    Calls,        \* concurrently running requests
    Second,       \* clock ticks in a second
    Limit,        \* requests per second
    Burst,        \* tokens of a full bucket
    Ttl,          \* ticks after which a silent visitor is forgotten
    MaxVisitors,  \* buckets a cleanup leaves
    MaxRecords,   \* answers a cleanup leaves
    None          \* no entry, no key

ASSUME GuardsArePositive ==
    {Second, Limit, Burst, Ttl, MaxVisitors, MaxRecords} \subseteq Nat \ {0}
ASSUME CallsAreFinite == IsFiniteSet(Calls)

(* A bucket; the ticks are counted up to the one that makes it forgotten.  *)
Bucket == [tokens : 0..Burst, idle : 0..(Ttl + 1)]

ASSUME NoneIsNothing == None \notin Keys \cup Bucket

(* A bucket is full again before it is forgotten: with the defaults it     *)
(* takes a fifth of a second, and it is forgotten after five minutes.      *)
ASSUME FullBeforeForgotten == Limit * Ttl >= Burst * Second

VARIABLES
    bucket,    \* visitors: tokens, and ticks since the last request
    ideal,     \* what an exact bucket would hold, in parts of a token
    recorded,  \* keys with a recorded answer, the oldest first
    executed,  \* answers computed for each key since it was last forgotten
    call       \* local variables of each request

limiter == <<bucket, ideal>>
store == <<recorded, executed>>
guardVars == <<bucket, ideal, recorded, executed, call>>

-----------------------------------------------------------------------------
NoCall == [pc |-> "idle", key |-> None]

Full == Burst * Second

Least(a, b) == IF a < b THEN a ELSE b

GuardInit ==
    /\ bucket = [v \in Visitors |-> None]
    /\ ideal = [v \in Visitors |-> Full]
    /\ recorded = <<>>
    /\ executed = [k \in Keys |-> 0]
    /\ call = [p \in Calls |-> NoCall]

-----------------------------------------------------------------------------
(* The token bucket.                                                       *)

(* A visitor that is not known starts with a full bucket.                  *)
Found(v) == IF bucket[v] = None THEN [tokens |-> Burst, idle |-> 0] ELSE bucket[v]

(* int(elapsed.Seconds() * limit): what is left of a token is dropped; and *)
(* a refill that rounds up, and one that takes more than a second.         *)
RoundedUp(v) ==
    Least(Burst, Found(v).tokens + (Found(v).idle * Limit + Second - 1) \div Second)
RefilledLate(v) ==
    Least(Burst, Found(v).tokens + IF Found(v).idle > Second
                                   THEN (Found(v).idle * Limit) \div Second ELSE 0)
Refilled(v) ==
    Least(Burst, Found(v).tokens + (Found(v).idle * Limit) \div Second)

(* The request is noted as the last one whether it is let in or not.       *)
TakeToken(v) ==
    bucket' = [bucket EXCEPT ![v] =
        [tokens |-> IF Refilled(v) >= 1 THEN Refilled(v) - 1 ELSE 0, idle |-> 0]]

(* Each request takes one token of the exact bucket if it is admitted.     *)
CheckRate(v) ==
    /\ TakeToken(v)
    /\ ideal' = [ideal EXCEPT ![v] = IF Refilled(v) >= 1 THEN @ - Second ELSE @]

ClockTick ==
    /\ bucket' = [v \in Visitors |->
          IF bucket[v] # None /\ bucket[v].idle <= Ttl
          THEN [bucket[v] EXCEPT !.idle = @ + 1] ELSE bucket[v]]
    /\ ideal' = [v \in Visitors |-> Least(Full, ideal[v] + Limit)]
    /\ UNCHANGED <<store, call>>

(* Visitors a cleanup keeps, but for their number.                         *)
Fresh == {v \in Visitors : bucket[v] # None /\ bucket[v].idle <= Ttl}

(* Whom the cleanup keeps when there are too many is up to the order in    *)
(* which the map is walked; those it drops start anew.                     *)
KeepAtMost(kept) == Cardinality(kept) = Least(Cardinality(Fresh), MaxVisitors)

CleanupVisitors ==
    /\ \E kept \in SUBSET Fresh :
          /\ KeepAtMost(kept)
          /\ bucket' = [v \in Visitors |-> IF v \in kept THEN bucket[v] ELSE None]
          /\ ideal' = [v \in Visitors |->
                          IF v \in Fresh \ kept THEN Full ELSE ideal[v]]
    /\ UNCHANGED <<store, call>>

-----------------------------------------------------------------------------
(* The answers.                                                            *)

Recorded(k) == \E i \in 1..Len(recorded) : recorded[i] = k

(* The store has one answer for a key.                                     *)
Without(k) ==
    IF Recorded(k)
    THEN RemoveAt(recorded, CHOOSE i \in 1..Len(recorded) : recorded[i] = k)
    ELSE recorded

(* The oldest answers are forgotten: any of them may have expired, and as  *)
(* many as there are too many are dropped.                                 *)
CleanupRecords ==
    /\ \E n \in 1..Len(recorded) :
          /\ Len(recorded) - n <= MaxRecords
          /\ recorded' = SubSeq(recorded, n + 1, Len(recorded))
          /\ executed' = [k \in Keys |->
                IF \E i \in 1..n : recorded[i] = k THEN 0 ELSE executed[k]]
    /\ UNCHANGED <<limiter, call>>

-----------------------------------------------------------------------------
(* A request.                                                              *)

(* GET and DELETE, and a POST without the header, have no key.             *)
Arrive(p, v, k) ==
    /\ call[p].pc = "idle"
    /\ CheckRate(v)
    /\ call' = [call EXCEPT ![p] =
          IF Refilled(v) >= 1 THEN [pc |-> "looking", key |-> k] ELSE NoCall]
    /\ UNCHANGED store

(* A recorded answer is repeated.                                          *)
Lookup(p) ==
    LET k == call[p].key IN
    /\ call[p].pc = "looking"
    /\ call' = [call EXCEPT ![p] =
          IF k # None /\ Recorded(k) THEN NoCall ELSE [@ EXCEPT !.pc = "executing"]]
    /\ UNCHANGED <<limiter, store>>

(* The handler answers, with an error or without.                          *)
Execute(p) ==
    LET k == call[p].key IN
    /\ call[p].pc = "executing"
    /\ executed' = [j \in Keys |-> IF j = k THEN executed[j] + 1 ELSE executed[j]]
    /\ call' = [call EXCEPT ![p] =
                      IF k = None THEN NoCall ELSE [@ EXCEPT !.pc = "answered"]]
    /\ UNCHANGED <<limiter, recorded>>

(* Whatever the answer is, it replaces the one recorded before; and a      *)
(* store that takes nothing more when it is full.                          *)
SetIfRoom(k) ==
    recorded' = IF Len(recorded) < MaxRecords THEN Append(Without(k), k) ELSE recorded
Set(k) == recorded' = Append(Without(k), k)

Record(p) ==
    /\ call[p].pc = "answered"
    /\ Set(call[p].key)
    /\ call' = [call EXCEPT ![p] = NoCall]
    /\ UNCHANGED <<limiter, executed>>

(* The handler panics: Recover answers, and nothing is recorded.           *)
Panic(p) ==
    /\ call[p].pc = "executing"
    /\ call' = [call EXCEPT ![p] = NoCall]
    /\ UNCHANGED <<limiter, store>>

(* The process restarts with empty maps.                                   *)
Restart ==
    /\ bucket' = [v \in Visitors |-> None]
    /\ ideal' = [v \in Visitors |-> Full]
    /\ recorded' = <<>>
    /\ executed' = [k \in Keys |-> 0]
    /\ call' = [p \in Calls |-> NoCall]

Proceed(p) == Lookup(p) \/ Execute(p) \/ Record(p)

GuardNext ==
    \/ ClockTick \/ CleanupVisitors \/ CleanupRecords \/ Restart
    \/ \E p \in Calls :
          \/ \E v \in Visitors, k \in Keys \cup {None} : Arrive(p, v, k)
          \/ Proceed(p) \/ Panic(p)

GuardSpec == GuardInit /\ [][GuardNext]_guardVars

-----------------------------------------------------------------------------
(* Safety and liveness.                                                    *)

(* A visitor is never let in more often than an exact token bucket of the  *)
(* same burst and rate would let it in, however its requests and the       *)
(* cleanups fall: rounding and forgetting only lose tokens.                *)
AdmittedByAnExactBucket == \A v \in Visitors : ideal[v] >= 0

(* A refused client that waits the second of its Retry-After is let in.    *)
RetryAfterIsEnough ==
    \A v \in Visitors :
        bucket[v] # None /\ bucket[v].idle >= Second => Refilled(v) >= 1

(* A key is executed more than once only by requests that run at the same  *)
(* time, as long as its answer is neither forgotten nor lost to a panic.   *)
ExecutionsOverlap == \A k \in Keys : executed[k] <= Cardinality(Calls)
=============================================================================
