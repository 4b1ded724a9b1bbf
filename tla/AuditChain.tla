----------------------------- MODULE AuditChain -----------------------------
(***************************************************************************)
(* The audit hash chain: audit.audit_events, the transactions that append  *)
(* to it and the maintenance pass that verifies it.                        *)
(*                                                                         *)
(* AuditService.recordEvent stamps an event with the wall clock before the *)
(* repository takes the organization's advisory lock; under the lock       *)
(* writeEvent links the event to the newest one BY TIMESTAMP.  Order of    *)
(* stamping and order of insertion are therefore two different orders, and *)
(* the gap between Stamp and Write below is where they come apart.         *)
(*                                                                         *)
(* An event is [ts, prev]: the timestamp stands for the event and for its  *)
(* hash (no two events have one or collide on the other), prev for         *)
(* previous_hash.  Nobody tampers with a row in this model.                *)
(***************************************************************************)
EXTENDS Naturals, Sequences, SequencesExt

CONSTANTS
    OrgOrder,   \* the organizations in the order of their identifiers
    Writers,    \* transactions that record events
    MaxClock,   \* bound: number of timestamps taken
    Nil         \* SQL NULL; a free lock

Orgs == {OrgOrder[i] : i \in 1 .. Len(OrgOrder)}

(* Organizations are listed once, and there is a null beside the values.   *)
ASSUME DistinctOrgs ==
    /\ Len(OrgOrder) \in Nat
    /\ \A i, j \in 1 .. Len(OrgOrder) : OrgOrder[i] = OrgOrder[j] => i = j
ASSUME NilIsNoWriter == Nil \notin Writers \cup Orgs \cup Nat
ASSUME MaxClockIsNat == MaxClock \in Nat

VARIABLES
    clock,     \* the timestamp last taken
    log,       \* log[o]: committed events of o, in the order of insertion
    lock,      \* lock[o]: holder of the advisory lock of o
    writer,    \* local state of each transaction
    verifier   \* local state of the maintenance pass

vars == <<clock, log, lock, writer, verifier>>

Event == [ts : Nat \ {0}, prev : (Nat \ {0}) \cup {Nil}]

NoTx == [pc |-> "idle", org |-> Nil, ts |-> 0, pending |-> <<>>]

NoPass == [pc |-> "idle", todo |-> {}, count |-> 0, failed |-> FALSE]

Init ==
    /\ clock = 0
    /\ log = [o \in Orgs |-> <<>>]
    /\ lock = [o \in Orgs |-> Nil]
    /\ writer = [w \in Writers |-> NoTx]
    /\ verifier = NoPass

-----------------------------------------------------------------------------
(* Recording.                                                              *)

(* Timestamp: time.Now(), taken by a transaction for its first event or    *)
(* for a further one of the same organization.                             *)
Stamp(w, o) ==
    /\ clock < MaxClock
    /\ \/ writer[w].pc = "idle"
       \/ writer[w].pc = "open" /\ writer[w].org = o
    /\ clock' = clock + 1
    /\ writer' = [writer EXCEPT ![w].pc = "stamped", ![w].org = o,
                                ![w].ts = clock + 1]
    /\ UNCHANGED <<log, lock, verifier>>

(* What w sees of the log of o: what is committed and what it wrote.       *)
Visible(w, o) == log[o] \o writer[w].pending

(* ORDER BY timestamp DESC LIMIT 1: NULL if there is no row; not so if the *)
(* hash were scanned into a string, whose zero value would stand for it.   *)
Latest(events) ==
    CHOOSE t \in {events[i].ts : i \in 1 .. Len(events)} :
        \A i \in 1 .. Len(events) : events[i].ts <= t
Newest(events) == IF events = <<>> THEN Nil ELSE Latest(events)

(* SELECT hash ... WHERE organization_id = $1.                             *)
LastHash(w, o) == Newest(Visible(w, o))

(* pg_advisory_xact_lock waits while another transaction holds it.         *)
NoLock(w, o) == TRUE
LockFree(w, o) == lock[o] \in {Nil, w}

(* writeEvent: lock, read the last hash, insert.                           *)
Write(w) ==
    LET o == writer[w].org
        event == [ts |-> writer[w].ts, prev |-> LastHash(w, o)]
    IN
    /\ writer[w].pc = "stamped"
    /\ LockFree(w, o)
    /\ lock' = [lock EXCEPT ![o] = w]
    /\ writer' = [writer EXCEPT ![w].pc = "open",
                                ![w].pending = Append(@, event)]
    /\ UNCHANGED <<clock, log, verifier>>

(* The end of a transaction releases its advisory lock; a session lock     *)
(* would survive it.                                                       *)
StillLocked(w) == lock
Unlocked(w) == [o \in Orgs |-> IF lock[o] = w THEN Nil ELSE lock[o]]

Commit(w) ==
    LET r == writer[w] IN
    /\ r.pc = "open"
    /\ log' = [log EXCEPT ![r.org] = @ \o r.pending]
    /\ lock' = Unlocked(w)
    /\ writer' = [writer EXCEPT ![w] = NoTx]
    /\ UNCHANGED <<clock, verifier>>

(* The transaction fails: an insert is refused, a later statement errs, or *)
(* the process stops.                                                      *)
Rollback(w) ==
    /\ writer[w].pc # "idle"
    /\ lock' = Unlocked(w)
    /\ writer' = [writer EXCEPT ![w] = NoTx]
    /\ UNCHANGED <<clock, log, verifier>>

-----------------------------------------------------------------------------
(* Verifying: AuditMaintenanceService, at startup and once a day.          *)

(* domain.VerifyChain: each event that has a previous hash has that of the *)
(* event before.  A failure forgets the hash of the event that failed,     *)
(* which changes how many fail and not whether one does.                   *)
VerifyChain(events) ==
    \A i \in 2 .. Len(events) : events[i].prev \in {Nil, events[i - 1].ts}

(* FindByOrganization returns the count newest events, newest first;       *)
(* VerifyOrganization reverses them, or forgets to.                        *)
NewestFirst(o, count) ==
    LET all == {log[o][i] : i \in 1 .. Len(log[o])} IN
    CHOOSE page \in [1 .. count -> all] :
        /\ \A i, j \in 1 .. count : i < j => page[i].ts > page[j].ts
        /\ \A e \in all : \/ \E i \in 1 .. count : page[i] = e
                          \/ \A i \in 1 .. count : page[i].ts > e.ts

OldestFirst(o, count) == Reverse(NewestFirst(o, count))

(* AllOrganizationIDs: those with at least one event, by their place in    *)
(* the order of identifiers.                                               *)
AllOrganizationIDs == {i \in 1 .. Len(OrgOrder) : log[OrgOrder[i]] # <<>>}

StartPass ==
    /\ verifier.pc \in {"idle", "done"}
    /\ verifier' = [NoPass EXCEPT !.pc = "counting", !.todo = AllOrganizationIDs]
    /\ UNCHANGED <<clock, log, lock, writer>>

(* The organization the pass has come to.                                  *)
Turn == CHOOSE i \in verifier.todo : \A j \in verifier.todo : i <= j

CountEvents ==
    /\ verifier.pc = "counting"
    /\ verifier.todo # {}
    /\ verifier' = [verifier EXCEPT !.pc = "reading",
                                    !.count = Len(log[OrgOrder[Turn]])]
    /\ UNCHANGED <<clock, log, lock, writer>>

(* VerifyOrganization turns a failed event into an error, and the pass     *)
(* ends with it.                                                           *)
VerifyEvents ==
    LET verified == VerifyChain(OldestFirst(OrgOrder[Turn], verifier.count)) IN
    /\ verifier.pc = "reading"
    /\ \/ /\ verified
          /\ verifier' = [verifier EXCEPT !.pc = "counting", !.todo = @ \ {Turn}]
       \/ /\ ~verified
          /\ verifier' = [verifier EXCEPT !.pc = "done", !.failed = TRUE]
    /\ UNCHANGED <<clock, log, lock, writer>>

EndPass ==
    /\ verifier.pc = "counting"
    /\ verifier.todo = {}
    /\ verifier' = [verifier EXCEPT !.pc = "done"]
    /\ UNCHANGED <<clock, log, lock, writer>>

-----------------------------------------------------------------------------
Tx(w) == Write(w) \/ Commit(w)

Verify == StartPass \/ CountEvents \/ VerifyEvents \/ EndPass

Next ==
    \/ \E w \in Writers :
          \/ \E o \in Orgs : Stamp(w, o)
          \/ Tx(w)
          \/ Rollback(w)
    \/ Verify

Spec == Init /\ [][Next]_vars

(* PostgreSQL queues the waiters of a lock, and a transaction that can go  *)
(* on does; taking another timestamp is up to the transaction.             *)
FairSpec == Spec /\ \A w \in Writers : SF_vars(Write(w)) /\ WF_vars(Commit(w))

-----------------------------------------------------------------------------
(* Every row and local variable holds a value the code can store in it.    *)
TypeOK ==
    /\ clock \in Nat
    /\ log \in [Orgs -> Seq(Event)]
    /\ lock \in [Orgs -> Writers \cup {Nil}]
    /\ writer \in [Writers -> [pc : {"idle", "stamped", "open"},
                               org : Orgs \cup {Nil}, ts : Nat,
                               pending : Seq(Event)]]
    /\ verifier \in [pc : {"idle", "counting", "reading", "done"},
                     todo : SUBSET (1 .. Len(OrgOrder)), count : Nat,
                     failed : BOOLEAN]

(* The link every event has: to the newest event, by timestamp, of all     *)
(* that were inserted before it.  So no event links to one of another      *)
(* organization, to one that was rolled back or to a later one, and only   *)
(* the first of an organization has no link.                               *)
LinksToNewest ==
    \A o \in Orgs : \A i \in 1 .. Len(log[o]) :
        log[o][i].prev = Newest(SubSeq(log[o], 1, i - 1))

InOrder(events) ==
    \A i, j \in 1 .. Len(events) : i < j => events[i].ts < events[j].ts

(* As long as events are inserted in the order of their timestamps the     *)
(* log is a chain: nothing but an overtaking writer can fork it.           *)
ChainedWhenInOrder ==
    \A o \in Orgs : InOrder(log[o]) =>
        \A i \in 2 .. Len(log[o]) : log[o][i].prev = log[o][i - 1].ts

(* Nor does the verifier, which counts the events and reads them in two    *)
(* queries with writers in between, report a chain nobody has overtaken.   *)
NoFalseAlarm ==
    verifier.failed => \E o \in Orgs : ~InOrder(log[o])

(* Every transaction that asked for the lock gets it and ends.             *)
WritesEnd == \A w \in Writers : writer[w].pc = "stamped" ~> writer[w].pc # "stamped"
=============================================================================
