----------------------------- MODULE ReviewQueue -----------------------------
(***************************************************************************)
(* Human review and decisions of one organization: the rows of             *)
(* review_queue and decisions, and the concurrent requests that claim a    *)
(* review, work on it, and record, make or supersede decisions.            *)
(*                                                                         *)
(* Only ClaimReview reads a review under its row lock.  The other requests *)
(* read it, or the latest decision, through the connection pool, decide    *)
(* on that copy and then write in a transaction whose UPDATE compares      *)
(* nothing.  What stands between them is the row locks and the unique      *)
(* index on (organization, service request, version) of decisions.  As in  *)
(* CaseWorkflow a request is a sequence of steps and the effects of its    *)
(* transaction appear in Commit.                                           *)
(*                                                                         *)
(* The workflow transition a decision causes and the audit event are here  *)
(* only as reasons for the transaction to fail.                            *)
(***************************************************************************)
EXTENDS Naturals

CONSTANTS
    Cases,          \* cases, the service_request_id of a decision
    Reviews,        \* review_queue entries
    CaseOf,         \* the case each review is about
    Reviewers,      \* users of the organization
    Requests,       \* concurrently running requests
    MaxVersion,     \* bound: a decision of this version is not superseded
    Nil             \* no value: SQL NULL, a Go nil, a free lock

ASSUME ReviewsHaveCases == CaseOf \in [Reviews -> Cases]

ASSUME MaxVersionIsPositive == MaxVersion \in Nat \ {0}

VARIABLES
    review,      \* review_queue: [status, assignee]
    decision,    \* decisions: the set of rows of each case
    reviewLock,  \* holder of the row lock on a review
    rowLock,     \* holder of a decision row, or of its key while inserting it
    request      \* local variables of each request

tables == <<review, decision>>
locks == <<reviewLock, rowLock>>
vars == <<review, decision, reviewLock, rowLock, request>>

-----------------------------------------------------------------------------
Status == {"PENDING", "ASSIGNED", "IN_REVIEW", "COMPLETED", "ESCALATED",
           "WAITING_INFORMATION"}

(* The statuses a review enters together with a decision.                  *)
Concluding == {"COMPLETED", "ESCALATED", "WAITING_INFORMATION"}

(* SQL NULL is none of the values it stands beside.                        *)
ASSUME NilIsNoValue ==
    /\ Nil \notin Cases \cup Reviews \cup Reviewers \cup Requests \cup Status
    /\ Nil \notin Requests \X (1 .. MaxVersion)

(* ReviewQueueEntry.CanTransition.                                         *)
Edges ==
    {<<"PENDING", "ASSIGNED">>}
    \cup {<<"ASSIGNED", to>> : to \in {"IN_REVIEW", "PENDING"}}
    \cup {<<"IN_REVIEW", to>> : to \in Concluding \cup {"ASSIGNED"}}
    \cup {<<"WAITING_INFORMATION", to>> :
             to \in {"IN_REVIEW", "ASSIGNED", "PENDING"}}

CanTransition(from, to) == <<from, to>> \in Edges

Keys == Cases \X (1 .. MaxVersion)   \* the unique index of decisions

NoReview == [status |-> Nil, assignee |-> Nil]

Idle == [pc |-> "idle", review |-> Nil, by |-> Nil, to |-> Nil,
         case |-> Nil, ver |-> 0, old |-> Nil]

Init ==
    /\ review = [v \in Reviews |-> NoReview]
    /\ decision = [c \in Cases |-> {}]
    /\ reviewLock = [v \in Reviews |-> Nil]
    /\ rowLock = [k \in Keys |-> Nil]
    /\ request = [p \in Requests |-> Idle]

-----------------------------------------------------------------------------
(* A transaction that ends without releasing what it locked.               *)
StillHeld(lock, p) == lock

Released(lock, p) == [x \in DOMAIN lock |-> IF lock[x] = p THEN Nil ELSE lock[x]]

EndRequest(p) ==
    /\ request' = [request EXCEPT ![p] = Idle]
    /\ reviewLock' = Released(reviewLock, p)
    /\ rowLock' = Released(rowLock, p)

GoTo(p, label) == request' = [request EXCEPT ![p].pc = label]

-----------------------------------------------------------------------------
(* The requests about a review.                                            *)

(* POST creates an entry, at any time, for any case: one INSERT.           *)
CreateReview(v) ==
    /\ review[v] = NoReview
    /\ review' = [review EXCEPT ![v] = [status |-> "PENDING", assignee |-> Nil]]
    /\ UNCHANGED <<decision, locks, request>>

(* SELECT ... FOR UPDATE SKIP LOCKED locks the row it returns; without the *)
(* clause it only reads.                                                   *)
ReadReview(p, v) == reviewLock' = reviewLock
LockReview(p, v) ==
    /\ reviewLock[v] = Nil
    /\ reviewLock' = [reviewLock EXCEPT ![v] = p]

(* ClaimReview: a row that is locked is not found, one that is not pending *)
(* is refused; either way nothing changes.                                 *)
ClaimReview(p, v, by) ==
    /\ request[p].pc = "idle"
    /\ review[v].status = "PENDING"
    /\ CanTransition("PENDING", "ASSIGNED")
    /\ LockReview(p, v)
    /\ request' = [request EXCEPT ![p] =
           [Idle EXCEPT !.pc = "updating", !.review = v, !.by = by,
                        !.to = "ASSIGNED"]]
    /\ UNCHANGED <<tables, rowLock>>

(* The other requests read the entry without locking it, want its assignee *)
(* for caller and move their copy of it.  A decision to be recorded with   *)
(* the move is always version 1 of its case.                               *)
ReadEntry(p, v, by, to, ver) ==
    /\ request[p].pc = "idle"
    /\ review[v].assignee = by
    /\ CanTransition(review[v].status, to)
    /\ request' = [request EXCEPT ![p] =
           [Idle EXCEPT !.pc = "updating", !.review = v, !.by = by, !.to = to,
                        !.case = CaseOf[v], !.ver = ver]]
    /\ UNCHANGED <<tables, locks>>

StartReview(p, v, by) == ReadEntry(p, v, by, "IN_REVIEW", 0)

InReviewOrAssigned(v) == review[v].status \in {"IN_REVIEW", "ASSIGNED"}

CompleteReview(p, v, by) ==
    InReviewOrAssigned(v) /\ ReadEntry(p, v, by, "COMPLETED", 1)

EscalateReview(p, v, by) ==
    InReviewOrAssigned(v) /\ ReadEntry(p, v, by, "ESCALATED", 1)

RequestInformation(p, v, by) ==
    InReviewOrAssigned(v) /\ ReadEntry(p, v, by, "WAITING_INFORMATION", 1)

(* UPDATE review_queue SET status, assigned_to WHERE id waits for the row  *)
(* and compares nothing.                                                   *)
UpdateStatus(p) ==
    LET r == request[p] IN
    /\ r.pc = "updating"
    /\ reviewLock[r.review] \in {Nil, p}
    /\ reviewLock' = [reviewLock EXCEPT ![r.review] = p]
    /\ GoTo(p, IF r.ver = 0 THEN "committing" ELSE "inserting")
    /\ UNCHANGED <<tables, rowLock>>

-----------------------------------------------------------------------------
(* The requests about decisions.                                           *)

(* MakeDecision: refused when the case has a decision, outside the         *)
(* transaction.                                                            *)
MakeDecision(p, c, by) ==
    /\ request[p].pc = "idle"
    /\ decision[c] = {}
    /\ request' = [request EXCEPT ![p] =
           [Idle EXCEPT !.pc = "inserting", !.by = by, !.case = c, !.ver = 1]]
    /\ UNCHANGED <<tables, locks>>

(* SupersedeDecision reads the row of the highest version outside the      *)
(* transaction.                                                            *)
SupersedeDecision(p, c, by) ==
    /\ request[p].pc = "idle"
    /\ \E d \in decision[c] :
          /\ \A e \in decision[c] : e.version <= d.version
          /\ d.version < MaxVersion
          /\ request' = [request EXCEPT ![p] =
                 [Idle EXCEPT !.pc = "linking", !.by = by, !.case = c,
                              !.ver = d.version + 1, !.old = d.id]]
    /\ UNCHANGED <<tables, locks>>

(* UPDATE decisions SET superseded_by_id WHERE id waits for the row and    *)
(* overwrites what it finds there.                                         *)
LinkDecision(p) ==
    LET r == request[p]
        row == <<r.case, r.ver - 1>> IN
    /\ r.pc = "linking"
    /\ rowLock[row] = Nil
    /\ rowLock' = [rowLock EXCEPT ![row] = p]
    /\ GoTo(p, "inserting")
    /\ UNCHANGED <<tables, reviewLock>>

(* The unique index refuses a version the case already has; as it would    *)
(* not if it did not exist.                                                *)
NeverTaken(c, ver) == FALSE
Taken(c, ver) == \E d \in decision[c] : d.version = ver

(* INSERT INTO decisions waits for a transaction that holds the key, then  *)
(* inserts or fails, and its failure ends the whole transaction; it would  *)
(* go on with the review alone if the INSERT ignored conflicts.            *)
InsertIgnoringConflict(p) ==
    LET r == request[p]
        key == <<r.case, r.ver>> IN
    /\ r.pc = "inserting"
    /\ rowLock[key] = Nil
    /\ \/ /\ ~Taken(r.case, r.ver)
          /\ rowLock' = [rowLock EXCEPT ![key] = p]
          /\ GoTo(p, "committing")
       \/ /\ Taken(r.case, r.ver)
          /\ request' = [request EXCEPT ![p].pc = "committing", ![p].ver = 0]
          /\ UNCHANGED rowLock
    /\ UNCHANGED <<tables, reviewLock>>
InsertDecision(p) ==
    LET r == request[p]
        key == <<r.case, r.ver>> IN
    /\ r.pc = "inserting"
    /\ rowLock[key] = Nil
    /\ \/ /\ ~Taken(r.case, r.ver)
          /\ rowLock' = [rowLock EXCEPT ![key] = p]
          /\ GoTo(p, "committing")
          /\ UNCHANGED reviewLock
       \/ /\ Taken(r.case, r.ver)
          /\ EndRequest(p)
    /\ UNCHANGED tables

(* The id of a decision is drawn anew by each attempt to record one; it    *)
(* only has to tell rival attempts apart, and versions.                    *)
Drawn(p, ver) == <<p, ver>>

(* The row inserted.                                                       *)
DecisionRow(p) ==
    LET r == request[p] IN
    [version |-> r.ver, id |-> Drawn(p, r.ver), maker |-> r.by,
     review |-> r.review, next |-> Nil]

(* The rows after the UPDATE: the one with this id names its successor.    *)
Linked(rows, old, id) ==
    {[d EXCEPT !.next = IF d.id = old THEN id ELSE @] : d \in rows}

(* Everything the transaction wrote becomes visible, its locks go.         *)
Commit(p) ==
    LET r == request[p] IN
    /\ r.pc = "committing"
    /\ review' =
          IF r.review = Nil THEN review
          ELSE [review EXCEPT ![r.review] =
                   [status |-> r.to, assignee |-> r.by]]
    /\ decision' =
          IF r.ver = 0 THEN decision
          ELSE [decision EXCEPT ![r.case] =
                   Linked(@, r.old, Drawn(p, r.ver)) \cup {DecisionRow(p)}]
    /\ EndRequest(p)

(* Invalid input, a failing workflow transition or audit insert, a client  *)
(* or a process that goes away: the transaction is rolled back.            *)
Fail(p) ==
    /\ request[p].pc # "idle"
    /\ EndRequest(p)
    /\ UNCHANGED tables

-----------------------------------------------------------------------------
(* A client sends a request.                                               *)
Start(p) ==
    \E by \in Reviewers :
        \/ \E v \in Reviews :
              \/ ClaimReview(p, v, by) \/ StartReview(p, v, by)
              \/ CompleteReview(p, v, by) \/ EscalateReview(p, v, by)
              \/ RequestInformation(p, v, by)
        \/ \E c \in Cases : MakeDecision(p, c, by) \/ SupersedeDecision(p, c, by)

(* What a started request does next on its own.                            *)
Step(p) ==
    UpdateStatus(p) \/ LinkDecision(p) \/ InsertDecision(p) \/ Commit(p)

Next ==
    \/ \E v \in Reviews : CreateReview(v)
    \/ \E p \in Requests : Start(p) \/ Step(p) \/ Fail(p)

Spec == Init /\ [][Next]_vars

(* A goroutine that can run does, and PostgreSQL grants row locks in       *)
(* arrival order.                                                          *)
FairSpec == Spec /\ \A p \in Requests : SF_vars(Step(p))
-----------------------------------------------------------------------------
(* Type invariant.                                                         *)

Decision == [version : 1 .. MaxVersion, id : Requests \X (1 .. MaxVersion),
             maker : Reviewers, review : Reviews \cup {Nil},
             next : (Requests \X (1 .. MaxVersion)) \cup {Nil}]

Requestor == [pc : {"idle", "updating", "linking", "inserting", "committing"},
              review : Reviews \cup {Nil}, by : Reviewers \cup {Nil},
              to : Status \cup {Nil}, case : Cases \cup {Nil},
              ver : 0 .. MaxVersion,
              old : (Requests \X (1 .. MaxVersion)) \cup {Nil}]

(* Every row and every request-local variable holds a value the code can   *)
(* store in it; in particular no case outgrows the versions its index      *)
(* counts.                                                                 *)
TypeOK ==
    /\ review \in [Reviews -> [status : Status \cup {Nil},
                               assignee : Reviewers \cup {Nil}]]
    /\ decision \in [Cases -> SUBSET Decision]
    /\ reviewLock \in [Reviews -> Requests \cup {Nil}]
    /\ rowLock \in [Keys -> Requests \cup {Nil}]
    /\ request \in [Requests -> Requestor]

-----------------------------------------------------------------------------
(* Safety.                                                                 *)

(* The decisions of a case form one chain: versions 1, 2, ... without gap  *)
(* or duplicate, each naming the next as its successor and the last naming *)
(* none, although SupersedeDecision overwrites superseded_by_id without    *)
(* looking and rival requests start from the same latest decision.         *)
SupersessionIsAChain ==
    \A c \in Cases : \A d \in decision[c] :
        /\ \A e \in decision[c] : d.version = e.version => d = e
        /\ d.version > 1 => \E e \in decision[c] : e.version = d.version - 1
        /\ \A e \in decision[c] : e.version = d.version + 1 => d.next = e.id
        /\ d.next # Nil => \E e \in decision[c] : e.version = d.version + 1

(* A recorded decision is immutable: it is not withdrawn and only a        *)
(* successor is ever added to it, once.                                    *)
DecisionsAreImmutable ==
    [][\A c \in Cases : \A d \in decision[c] :
         \E e \in decision'[c] :
             e = [d EXCEPT !.next = IF d.next = Nil THEN e.next ELSE @]]_vars

(* A review that was completed, escalated or sent back for information has *)
(* its decision: the first decision of its case is the one its assignee    *)
(* recorded through it.  Two such requests, or one and a decision made     *)
(* directly, may race; one transaction writes both rows.                   *)
ConcludedWithDecision ==
    \A v \in Reviews : review[v].status \in Concluding =>
        \E d \in decision[CaseOf[v]] :
            d.version = 1 /\ d.review = v /\ d.maker = review[v].assignee

(* A review is completed, escalated or sent back only from IN_REVIEW, the  *)
(* state the request read, although its UPDATE does not compare it: any    *)
(* request that moved the review on since has used up the first decision.  *)
ConcludedFromReview ==
    [][\A v \in Reviews :
         review'[v].status \in Concluding /\ review'[v] # review[v] =>
             review[v].status = "IN_REVIEW"]_vars

(* Whoever claims a review keeps it: concurrent claims never both succeed, *)
(* and no stale request gives it to somebody else.                         *)
HolderKeepsReview ==
    [][\A v \in Reviews : review[v].assignee # Nil =>
         review'[v].assignee = review[v].assignee]_vars

(* Every request ends: locks are taken in one order, review, superseded    *)
(* decision, next decision, so no two requests wait for each other.        *)
RequestsEnd ==
    \A p \in Requests : request[p].pc # "idle" ~> request[p].pc = "idle"
=============================================================================
