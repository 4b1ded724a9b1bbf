---------------------------- MODULE CaseWorkflow ----------------------------
(***************************************************************************)
(* Cases of one organization moving through one active workflow            *)
(* definition: the rows of cases, workflow_instances,                      *)
(* workflow_transition_history, workflow_state_form_assignments and        *)
(* form_submissions, and the HTTP requests that read and write them        *)
(* concurrently.                                                           *)
(*                                                                         *)
(* Requests run in separate goroutines.  Most of what a request decides it *)
(* decides on rows it read through the connection pool before its          *)
(* transaction began; PostgreSQL runs the transaction at READ COMMITTED.   *)
(* A request is therefore a sequence of steps: each read outside the       *)
(* transaction is a step of its own, each statement that may wait for a    *)
(* row lock is a step of its own, and the effects of a transaction appear  *)
(* in one Commit step.  instLock and asgLock are the row locks.            *)
(*                                                                         *)
(* The audit hash chain, the lifecycle of workflow definitions, decisions  *)
(* and rule evaluation are not here: what they contribute to a transition  *)
(* is that it may fail, which Fail allows at every step.                   *)
(***************************************************************************)
EXTENDS Naturals, Sequences

CONSTANTS
    Cases,          \* case identifiers
    Requests,       \* concurrently running requests
    States,         \* state keys of the workflow definition
    Initial,        \* its initial_state
    Terminal,       \* the states marked terminal
    Keys,           \* transition keys
    Transitions,    \* its active transitions: records [key, from, to]
    ClosedNames,    \* the keys CLOSED and REJECTED, where they are states
    Forms,          \* published form versions
    Slots,          \* pairs <<state, form>> administrators may assign
    MaxTransitions, \* bound: none is requested of a case that has as many
    Nil             \* no value: SQL NULL, a Go nil, a free lock

(* What ValidateWorkflowDefinition accepts: transition keys are unique,    *)
(* edges join declared states, no edge leaves a terminal state.  It does   *)
(* not ask that the initial state be non-terminal.                         *)
ASSUME ValidDefinition ==
    /\ Initial \in States
    /\ Terminal \subseteq States
    /\ Transitions \subseteq [key : Keys, from : States, to : States]
    /\ \A t \in Transitions : t.from \notin Terminal
    /\ \A t, u \in Transitions : t.key = u.key => t = u

ASSUME NilIsNoValue ==
    /\ Nil \notin Cases \cup Requests \cup States \cup Keys \cup Forms
    /\ Slots \subseteq States \X Forms
    /\ ClosedNames \subseteq States
    /\ MaxTransitions \in Nat

VARIABLES
    caseRow,     \* cases: [status, version, closed]
    instance,    \* workflow_instances: [state, version, done]
    history,     \* workflow_transition_history, in commit order
    audited,     \* case.transition audit events: their from and to
    assignment,  \* workflow_state_form_assignments, per slot
    submitted,   \* form_submissions: the form versions submitted per case
    instLock,    \* holder of the row lock on a case's workflow instance
    asgLock,     \* holder of the row lock on an assignment row
    request      \* local variables of each request

rows == <<caseRow, instance, history, audited, submitted>>
locks == <<instLock, asgLock>>
vars == <<caseRow, instance, history, audited, assignment, submitted,
          instLock, asgLock, request>>

-----------------------------------------------------------------------------
(* Row shapes.                                                             *)

NoCase == [status |-> Nil, version |-> 0, closed |-> FALSE]
NoInstance == [state |-> Nil, version |-> 0, done |-> FALSE]

(* An assignment row is required and active, optional and active, or       *)
(* inactive; "none" is no row.                                             *)
AssignmentRow == {"none", "optional", "required", "inactive"}

NoTransition == [key |-> Nil, from |-> Nil, to |-> Nil]

Idle == [pc |-> "idle", op |-> "none", case |-> Nil, want |-> Nil,
         seen |-> Nil, key |-> Nil, form |-> Nil,
         tr |-> NoTransition, ver |-> 0, found |-> {}]

Exists(c) == instance[c].version > 0

Init ==
    /\ caseRow = [c \in Cases |-> NoCase]
    /\ instance = [c \in Cases |-> NoInstance]
    /\ history = [c \in Cases |-> <<>>]
    /\ audited = [c \in Cases |-> <<>>]
    /\ assignment = [s \in Slots |-> "none"]
    /\ submitted = [c \in Cases |-> {}]
    /\ instLock = [c \in Cases |-> Nil]
    /\ asgLock = [s \in Slots |-> Nil]
    /\ request = [p \in Requests |-> Idle]

-----------------------------------------------------------------------------
(* What a step reads.                                                      *)

(* GetValidTransitions: the active transitions out of the state.           *)
ValidFrom(state) == {t \in Transitions : t.from = state}

(* SELECT ... FOR UPDATE on the assignments of a state locks these rows.   *)
RowsOf(state) ==
    {s \in Slots : s[1] = state /\ assignment[s] # "none"}

RowsFree(p, state) == \A s \in RowsOf(state) : asgLock[s] \in {Nil, p}

(* The same SELECT without FOR UPDATE.                                     *)
ReadRows(p, state) == asgLock' = asgLock

LockRows(p, state) ==
    asgLock' = [s \in Slots |-> IF s \in RowsOf(state) THEN p ELSE asgLock[s]]

(* checkRequiredFormsCompleteInTx finds no missing form version.           *)
FormsComplete(c, state) ==
    \A s \in RowsOf(state) :
        assignment[s] = "required" => s[2] \in submitted[c]

(* A transaction that ends without releasing what it locked.               *)
NotFreed(lock, p) == lock

Freed(lock, p) == [x \in DOMAIN lock |-> IF lock[x] = p THEN Nil ELSE lock[x]]

(* The request returns, whatever its outcome: its locks go with it.        *)
EndRequest(p) ==
    /\ request' = [request EXCEPT ![p] = Idle]
    /\ instLock' = Freed(instLock, p)
    /\ asgLock' = Freed(asgLock, p)

GoTo(p, label) == request' = [request EXCEPT ![p].pc = label]

-----------------------------------------------------------------------------
(* Opening a case.                                                         *)

(* CreateCase: one transaction inserts the case at version 1, inserts its  *)
(* instance at version 1 in the initial state, links the two and copies    *)
(* the state into the case row, which takes the case to version 2.  All    *)
(* the rows are new, so nothing else can be read or lost in between.       *)
CreateCase(c) ==
    /\ ~Exists(c)
    /\ caseRow' = [caseRow EXCEPT ![c] =
           [status |-> Initial, version |-> 2,
            closed |-> Initial \in ClosedNames]]
    /\ instance' = [instance EXCEPT ![c] =
           [state |-> Initial, version |-> 1, done |-> FALSE]]
    /\ UNCHANGED <<history, audited, assignment, submitted, locks, request>>

-----------------------------------------------------------------------------
(* Changing the status of a case: CaseService.changeStatusViaWorkflow.     *)

(* Reads the instance, to name the state the request found.                *)
StartChangeStatus(p, c, want) ==
    /\ request[p].pc = "idle"
    /\ Exists(c)
    /\ Len(history[c]) < MaxTransitions
    /\ request' = [request EXCEPT ![p] =
           [Idle EXCEPT !.pc = "listing", !.op = "status", !.case = c,
                        !.want = want, !.seen = instance[c].state]]
    /\ UNCHANGED <<rows, assignment, locks>>

(* Lists the valid transitions, which reads the instance a second time,    *)
(* and takes one that leads to the requested status.                       *)
PickTransition(p) ==
    LET r == request[p]
        leading == {t \in ValidFrom(instance[r.case].state) : t.to = r.want}
    IN
    /\ r.pc = "listing"
    /\ \/ \E t \in leading :
             request' = [request EXCEPT ![p].pc = "checking", ![p].key = t.key]
       \/ /\ leading = {}
          /\ request' = [request EXCEPT ![p] = Idle]
    /\ UNCHANGED <<rows, assignment, locks>>

(* The transaction begins: locks the assignments of the state first seen   *)
(* and requires their forms to be submitted.                               *)
CheckForms(p) ==
    LET r == request[p] IN
    /\ r.pc = "checking"
    /\ RowsFree(p, r.seen)
    /\ \/ /\ FormsComplete(r.case, r.seen)
          /\ LockRows(p, r.seen)
          /\ GoTo(p, "loading")
          /\ UNCHANGED instLock
       \/ /\ ~FormsComplete(r.case, r.seen)
          /\ EndRequest(p)
    /\ UNCHANGED <<rows, assignment>>

-----------------------------------------------------------------------------
(* Executing a transition: WorkflowService.executeTransition.              *)

(* The generic transition endpoint enters here, with a key from the client *)
(* and no transaction yet.                                                 *)
StartTransition(p, c, key) ==
    /\ request[p].pc = "idle"
    /\ Exists(c)
    /\ Len(history[c]) < MaxTransitions
    /\ request' = [request EXCEPT ![p] =
           [Idle EXCEPT !.pc = "loading", !.op = "transition", !.case = c,
                        !.key = key]]
    /\ UNCHANGED <<rows, assignment, locks>>

(* The active transition with this key out of the current state; and what  *)
(* the loop would find if it compared the state only.                      *)
FoundByState(state, key) == ValidFrom(state)
Found(state, key) == {t \in ValidFrom(state) : t.key = key}

(* Reads the instance through the pool, even inside a transaction.         *)
LoadInstance(p) ==
    LET r == request[p]
        row == instance[r.case]
        found == Found(row.state, r.key)
    IN
    /\ r.pc = "loading"
    /\ \/ /\ row.state \notin Terminal
          /\ \E t \in found :
                request' = [request EXCEPT ![p].pc = "updating",
                                           ![p].tr = t, ![p].ver = row.version]
          /\ UNCHANGED locks
       \/ /\ row.state \in Terminal \/ found = {}
          /\ EndRequest(p)
    /\ UNCHANGED <<rows, assignment>>

(* The WHERE clause compares the version; a rival's bump defeats it.        *)
VersionMatches(p) == instance[request[p].case].version = request[p].ver

(* UPDATE workflow_instances ... WHERE version = $n waits for the row and  *)
(* then locks it, or matches nothing: ErrConcurrentModification.           *)
UpdateState(p) ==
    LET r == request[p] IN
    /\ r.pc = "updating"
    /\ instLock[r.case] = Nil
    /\ \/ /\ VersionMatches(p)
          /\ instLock' = [instLock EXCEPT ![r.case] = p]
          /\ GoTo(p, "observing")
          /\ UNCHANGED asgLock
       \/ /\ ~VersionMatches(p)
          /\ EndRequest(p)
    /\ UNCHANGED <<rows, assignment>>

(* CaseService.OnTransition, the observer inside the transaction: locks    *)
(* the assignments of the state being left, requires their forms.          *)
Observe(p) ==
    LET r == request[p] IN
    /\ r.pc = "observing"
    /\ RowsFree(p, r.tr.from)
    /\ \/ /\ FormsComplete(r.case, r.tr.from)
          /\ LockRows(p, r.tr.from)
          /\ request' = [request EXCEPT ![p].pc = "committing",
                                        ![p].found = RowsOf(r.tr.from)]
          /\ UNCHANGED instLock
       \/ /\ ~FormsComplete(r.case, r.tr.from)
          /\ EndRequest(p)
    /\ UNCHANGED <<rows, assignment>>

(* The instance row after UpdateStateTx and, in a terminal state,          *)
(* CompleteTx: each bumps the version.                                     *)
Moved(row, to) ==
    [state |-> to,
     version |-> row.version + (IF to \in Terminal THEN 2 ELSE 1),
     done |-> row.done \/ to \in Terminal]

(* The case row after UpdateWorkflowStateTx, which sets status and         *)
(* closed_at; not so if it left status alone or went by the state's name.  *)
MirroredNotStatus(row, to) ==
    [status |-> row.status, version |-> row.version + 1,
     closed |-> to \in Terminal]
MirroredByName(row, to) ==
    [status |-> to, version |-> row.version + 1, closed |-> to \in ClosedNames]
Mirrored(row, to) ==
    [status |-> to, version |-> row.version + 1, closed |-> to \in Terminal]

(* The status endpoint, and it alone, has added a case.transition event,   *)
(* which names the state it first read.                                    *)
Audited(log, r) ==
    IF r.op = "status"
    THEN Append(log, [from |-> r.seen, to |-> r.tr.to])
    ELSE log

(* Everything the transaction wrote becomes visible, its locks go.         *)
Commit(p) ==
    LET r == request[p] IN
    /\ r.pc = "committing"
    /\ instance' = [instance EXCEPT ![r.case] = Moved(@, r.tr.to)]
    /\ caseRow' = [caseRow EXCEPT ![r.case] = Mirrored(@, r.tr.to)]
    /\ history' = [history EXCEPT ![r.case] = Append(@, r.tr)]
    /\ audited' = [audited EXCEPT ![r.case] = Audited(@, r)]
    /\ EndRequest(p)
    /\ UNCHANGED <<assignment, submitted>>

-----------------------------------------------------------------------------
(* Submitting a form: CaseService.SubmitForm.                              *)

(* Reads the case and its instance before the transaction.                 *)
StartSubmit(p, c, f) ==
    /\ request[p].pc = "idle"
    /\ Exists(c)
    /\ request' = [request EXCEPT ![p] =
           [Idle EXCEPT !.pc = "submitting", !.op = "submit", !.case = c,
                        !.form = f, !.seen = instance[c].state]]
    /\ UNCHANGED <<rows, assignment, locks>>

(* The transaction: locks the assignments of the state first seen, wants   *)
(* an active one for this form version and no earlier submission.          *)
SaveSubmission(p) ==
    LET r == request[p]
        active == \E s \in RowsOf(r.seen) :
                     s[2] = r.form /\ assignment[s] # "inactive"
    IN
    /\ r.pc = "submitting"
    /\ RowsFree(p, r.seen)
    /\ submitted' = IF active
                    THEN [submitted EXCEPT ![r.case] = @ \cup {r.form}]
                    ELSE submitted
    /\ EndRequest(p)
    /\ UNCHANGED <<caseRow, instance, history, audited, assignment>>

-----------------------------------------------------------------------------
(* Administrators edit the form assignments of the workflow.  An update or *)
(* a delete waits for the row lock; an insert has no row to wait for.      *)

SetAssignment(s, row) ==
    /\ assignment' = [assignment EXCEPT ![s] = row]
    /\ UNCHANGED <<rows, locks, request>>

CreateAssignment(s, row) ==
    /\ assignment[s] = "none"
    /\ SetAssignment(s, row)

UpdateAssignment(s, row) ==
    /\ assignment[s] \notin {"none", row}
    /\ asgLock[s] = Nil
    /\ SetAssignment(s, row)

DeleteAssignment(s) ==
    /\ assignment[s] # "none"
    /\ asgLock[s] = Nil
    /\ SetAssignment(s, "none")

-----------------------------------------------------------------------------
(* Failures.                                                               *)

(* p waits for a lock q holds.                                             *)
WaitsFor(p, q) ==
    LET r == request[p] IN
    \/ r.pc = "updating" /\ instLock[r.case] = q
    \/ /\ r.pc \in {"checking", "submitting"}
       /\ \E s \in RowsOf(r.seen) : asgLock[s] = q
    \/ r.pc = "observing" /\ \E s \in RowsOf(r.tr.from) : asgLock[s] = q

Deadlocked(p) ==
    \E D \in SUBSET Requests :
        /\ p \in D
        /\ \A q \in D : \E r \in D \ {q} : WaitsFor(q, r)

(* PostgreSQL aborts a transaction that waits in a cycle.                  *)
DeadlockAbort(p) ==
    /\ Deadlocked(p)
    /\ EndRequest(p)
    /\ UNCHANGED <<rows, assignment>>

(* Any other end short of commit: the audit insert or a rule evaluation    *)
(* fails, the client goes away, the process stops.  InTransaction rolls    *)
(* back, and so does the server when the connection is lost.               *)
Fail(p) ==
    /\ request[p].pc # "idle"
    /\ EndRequest(p)
    /\ UNCHANGED <<rows, assignment>>

-----------------------------------------------------------------------------
(* A client sends a request.                                               *)
Start(p) ==
    \E c \in Cases :
        \/ \E want \in States : StartChangeStatus(p, c, want)
        \/ \E key \in Keys : StartTransition(p, c, key)
        \/ \E f \in Forms : StartSubmit(p, c, f)

(* What a started request does next on its own.                            *)
Step(p) ==
    \/ PickTransition(p) \/ CheckForms(p) \/ LoadInstance(p)
    \/ UpdateState(p) \/ Observe(p) \/ Commit(p) \/ SaveSubmission(p)

Administer ==
    \E s \in Slots :
        \/ \E row \in AssignmentRow \ {"none"} :
              CreateAssignment(s, row) \/ UpdateAssignment(s, row)
        \/ DeleteAssignment(s)

Next ==
    \/ \E c \in Cases : CreateCase(c)
    \/ \E p \in Requests :
          Start(p) \/ Step(p) \/ DeadlockAbort(p) \/ Fail(p)
    \/ Administer

Spec == Init /\ [][Next]_vars

(* A goroutine that can run does; PostgreSQL grants row locks in arrival   *)
(* order, so a request is not overtaken for ever; its deadlock detector    *)
(* runs.  Nothing obliges clients or administrators to act.                *)
Fairness ==
    \A p \in Requests : SF_vars(Step(p)) /\ WF_vars(DeadlockAbort(p))

FairSpec == Spec /\ Fairness
-----------------------------------------------------------------------------
(* Type invariant.                                                         *)

LockSteps == {"observing", "committing"}   \* instLock is held

Requestor == [pc : {"idle", "listing", "checking", "loading", "updating",
                    "observing", "committing", "submitting"},
              op : {"none", "status", "transition", "submit"},
              case : Cases \cup {Nil}, want : States \cup {Nil},
              seen : States \cup {Nil}, key : Keys \cup {Nil},
              form : Forms \cup {Nil},
              tr : Transitions \cup {NoTransition}, ver : Nat,
              found : SUBSET Slots]

(* Every row and every request-local variable holds a value the code can   *)
(* store in it.                                                            *)
TypeOK ==
    /\ caseRow \in [Cases -> [status : States \cup {Nil}, version : Nat,
                              closed : BOOLEAN]]
    /\ instance \in [Cases -> [state : States \cup {Nil}, version : Nat,
                               done : BOOLEAN]]
    /\ history \in [Cases -> Seq(Transitions)]
    /\ audited \in [Cases -> Seq([from : States, to : States])]
    /\ assignment \in [Slots -> AssignmentRow]
    /\ submitted \in [Cases -> SUBSET Forms]
    /\ instLock \in [Cases -> Requests \cup {Nil}]
    /\ asgLock \in [Slots -> Requests \cup {Nil}]
    /\ request \in [Requests -> Requestor]

-----------------------------------------------------------------------------
(* Safety.                                                                 *)

(* The status column of the case, which every list and every client reads, *)
(* is the current state of its workflow instance, and the version of one   *)
(* row follows that of the other, whatever requests raced: the observer    *)
(* writes the two rows in one transaction under the instance's row lock.   *)
StatusMirrorsWorkflow ==
    \A c \in Cases :
        /\ caseRow[c].status = instance[c].state
        /\ Exists(c) =>
              caseRow[c].version + (IF instance[c].done THEN 1 ELSE 0)
                  = instance[c].version + 1

(* The recorded history of a case is one unbroken walk from the initial    *)
(* state to its current state, with one record per version the instance    *)
(* went through: no concurrent transition is lost, recorded twice or       *)
(* recorded from a state the case had already left.                        *)
HistoryIsTheWalk ==
    \A c \in Cases : Exists(c) =>
        LET h == history[c]
            n == Len(h) IN
        /\ instance[c].version = 1 + n + (IF instance[c].done THEN 1 ELSE 0)
        /\ instance[c].state = (IF n = 0 THEN Initial ELSE h[n].to)
        /\ n > 0 => h[1].from = Initial
        /\ \A i \in 1 .. n - 1 : h[i].to = h[i + 1].from

(* The instance is completed and the case closed by the same move, the one *)
(* that reaches a terminal state; only a case still in its initial state   *)
(* has them set by name and not by the terminal flag.                      *)
ClosedTogether ==
    \A c \in Cases : Exists(c) /\ Len(history[c]) > 0 =>
        /\ instance[c].done <=> instance[c].state \in Terminal
        /\ caseRow[c].closed = instance[c].done

(* A transaction about to commit still stands on the instance row it       *)
(* read before it began: same version, same state, not terminal.           *)
NothingStaleCommits ==
    \A p \in Requests : request[p].pc \in LockSteps =>
        LET r == request[p] IN
        /\ instLock[r.case] = p
        /\ instance[r.case].version = r.ver
        /\ instance[r.case].state = r.tr.from

(* A change of status that commits reaches the status the client asked     *)
(* for, although the transition is chosen from one read of the instance    *)
(* and executed by key from another: keys are unique in a definition.      *)
RequestedStatusReached ==
    [][\A p \in Requests :
         request[p].op = "status" /\ Commit(p) =>
             caseRow'[request[p].case].status = request[p].want]_vars

(* A case leaves a state only with every form submitted that the           *)
(* assignments its transaction found require when it commits: nobody made  *)
(* an optional one required between the check and the commit.  (An         *)
(* assignment inserted in between is not among those found.)               *)
RequiredFormsSubmitted ==
    [][\A p \in Requests : Commit(p) =>
         LET r == request[p] IN
         \A s \in r.found :
             assignment[s] = "required" => s[2] \in submitted[r.case]]_vars

(* Once its instance is completed a case never changes again.              *)
CompletedIsFinal ==
    [][\A c \in Cases : instance[c].done =>
         /\ instance'[c] = instance[c]
         /\ caseRow'[c] = caseRow[c]
         /\ history'[c] = history[c]]_vars

(* What clients see of the cases table is the abstract lifecycle.          *)
Lifecycle == INSTANCE CaseLifecycle WITH
    NoState <- Nil,
    status  <- [c \in Cases |-> caseRow[c].status],
    closed  <- [c \in Cases |-> caseRow[c].closed]

ImplementsLifecycle == Lifecycle!Spec

(* Every request ends: no wait for a row lock lasts for ever, because      *)
(* holders end and cycles of waits are broken.                             *)
RequestsEnd ==
    \A p \in Requests : request[p].pc # "idle" ~> request[p].pc = "idle"
=============================================================================
