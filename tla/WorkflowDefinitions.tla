------------------------- MODULE WorkflowDefinitions -------------------------
(***************************************************************************)
(* The workflow definitions of one organization: the rows of               *)
(* workflow_definitions, the requests that create, activate, archive,      *)
(* delete and update them, and the requests that open a case over one.     *)
(*                                                                         *)
(* Every request runs in one transaction at READ COMMITTED and reads the   *)
(* definition it is about with SELECT ... FOR UPDATE.  Three kinds of lock *)
(* order the transactions: the row lock of a definition (or of its key     *)
(* while it is inserted), the shared lock the foreign key of a new case    *)
(* takes on its definition, and the advisory lock of the audit chain.      *)
(* Opening a case takes the shared lock first and the row lock last, so    *)
(* two of them can wait for each other; PostgreSQL then aborts one.        *)
(*                                                                         *)
(* As in CaseWorkflow a request is a sequence of steps, one per statement  *)
(* that reads or waits, and its effects appear in Commit.                  *)
(***************************************************************************)
EXTENDS Naturals

CONSTANTS
    Keys,          \* workflow keys
    Definitions,   \* definitions: the pairs of a key and a version
    Cases,         \* cases that may be opened
    Requests,      \* concurrently running requests
    Nil            \* no value: no row, a free lock

(* The unique index (organization, key, version) has a slot for each.      *)
ASSUME DefinitionsAreVersioned == Definitions \subseteq Keys \X Nat

Status == {"DRAFT", "ACTIVE", "ARCHIVED"}

(* What a request was sent for: to change a definition, to open a case     *)
(* over a definition, or over the one of a service type.                   *)
Operations == {"create", "activate", "archive", "delete", "update",
               "case", "service"}

(* SQL NULL is none of the values it stands beside.                        *)
ASSUME NilIsNoValue ==
    Nil \notin Requests \cup Definitions \cup Status \cup Operations

VARIABLES
    def,        \* workflow_definitions: the status of each row, Nil for none
    instance,   \* workflow_instances: [def, running] of each case
    rowLock,    \* holder of a definition row, or of its key while inserting it
    sharers,    \* transactions with a case that references the definition
    auditLock,  \* holder of the advisory lock of the organization's chain
    request     \* local variables of each request

tables == <<def, instance>>
locks == <<rowLock, sharers, auditLock>>
vars == <<def, instance, rowLock, sharers, auditLock, request>>

-----------------------------------------------------------------------------
NoInstance == [def |-> Nil, running |-> FALSE]

Idle == [pc |-> "idle", op |-> Nil, def |-> Nil, case |-> Nil, seen |-> {}]

Init ==
    /\ def = [d \in Definitions |-> Nil]
    /\ instance = [c \in Cases |-> NoInstance]
    /\ rowLock = [d \in Definitions |-> Nil]
    /\ sharers = [d \in Definitions |-> {}]
    /\ auditLock = Nil
    /\ request = [p \in Requests |-> Idle]

-----------------------------------------------------------------------------
SameKey(d) == {e \in Definitions : e[1] = d[1]}

Highest(S) == CHOOSE d \in S : \A e \in S : e[2] <= d[2]

GoTo(p, label) == request' = [request EXCEPT ![p].pc = label]

(* FOR UPDATE waits for every other holder of the row.                     *)
CanLock(p, d) == rowLock[d] \in {Nil, p} /\ sharers[d] \subseteq {p}

LockRow(p, d) ==
    /\ CanLock(p, d)
    /\ rowLock' = [rowLock EXCEPT ![d] = p]

Unlocked(p) == [d \in Definitions |-> IF rowLock[d] = p THEN Nil ELSE rowLock[d]]

(* COMMIT or ROLLBACK: the locks go; rows the transaction deleted are not  *)
(* found by statements of others that wait for them.                       *)
EndTransaction(p, deleted) ==
    /\ rowLock' = Unlocked(p)
    /\ sharers' = [d \in Definitions |-> sharers[d] \ {p}]
    /\ auditLock' = IF auditLock = p THEN Nil ELSE auditLock
    /\ request' = [q \in Requests |->
           IF q = p THEN Idle
           ELSE [request[q] EXCEPT !.seen = @ \ deleted]]

(* Nothing was written; and a return that would forget to roll back.       *)
Return(p) ==
    /\ request' = [request EXCEPT ![p] = Idle]
    /\ UNCHANGED <<tables, locks>>
Refuse(p) == EndTransaction(p, {}) /\ UNCHANGED tables

-----------------------------------------------------------------------------
(* A request begins.                                                       *)

(* CreateWorkflowDefinition looks for the highest version of the key: the  *)
(* rows its statement sees are those committed by now.                     *)
CreateDefinition(p, d) ==
    LET seen == {e \in SameKey(d) : def[e] # Nil} IN
    /\ request[p].pc = "idle"
    /\ request' = [request EXCEPT ![p] =
           [Idle EXCEPT !.pc = "checking", !.op = "create", !.def = d,
                        !.seen = seen]]
    /\ UNCHANGED <<tables, locks>>

(* The operations on an existing definition begin by locking it.           *)
ChangeDefinition(p, op, d) ==
    /\ request[p].pc = "idle"
    /\ request' = [request EXCEPT ![p] =
           [Idle EXCEPT !.pc = "locking", !.op = op, !.def = d]]
    /\ UNCHANGED <<tables, locks>>

(* CreateCase with a workflow_id, whatever definition it is.               *)
CreateCase(p, c, d) ==
    /\ request[p].pc = "idle"
    /\ instance[c] = NoInstance
    /\ \A q \in Requests : request[q].case # c
    /\ request' = [request EXCEPT ![p] =
           [Idle EXCEPT !.pc = "saving", !.op = "case", !.def = d, !.case = c]]
    /\ UNCHANGED <<tables, locks>>

(* CreateCase without one takes the active definition of the service type  *)
(* with the highest version, and params.WorkflowID stays nil.              *)
CreateCaseByService(p, c) ==
    /\ request[p].pc = "idle"
    /\ instance[c] = NoInstance
    /\ \A q \in Requests : request[q].case # c
    /\ \E d \in Definitions :
          /\ def[d] = "ACTIVE"
          /\ \A e \in Definitions : def[e] = "ACTIVE" => e[2] <= d[2]
          /\ request' = [request EXCEPT ![p] =
                 [Idle EXCEPT !.pc = "saving", !.op = "service", !.def = d,
                              !.case = c]]
    /\ UNCHANGED <<tables, locks>>

-----------------------------------------------------------------------------
(* The steps of the operations on definitions.                             *)

(* The status each operation wants of the definition it locks.             *)
Wanted(op) == IF op = "archive" THEN "ACTIVE" ELSE "DRAFT"

AfterLocking(op) ==
    CASE op = "activate" -> "searching"
      [] op = "archive"  -> "counting"
      [] op = "delete"   -> "auditing"
      [] op = "update"   -> "updating"

(* FindByIDTx; and FindByID, which would not lock.                         *)
FindByID(p) ==
    LET r == request[p] IN
    /\ r.pc = "locking"
    /\ \/ /\ def[r.def] = Wanted(r.op)
          /\ GoTo(p, AfterLocking(r.op))
          /\ UNCHANGED <<tables, locks>>
       \/ /\ def[r.def] # Wanted(r.op)
          /\ Refuse(p)
FindByIDTx(p) ==
    LET r == request[p] IN
    /\ r.pc = "locking"
    /\ \/ /\ def[r.def] = Wanted(r.op)
          /\ LockRow(p, r.def)
          /\ GoTo(p, AfterLocking(r.op))
          /\ UNCHANGED <<tables, sharers, auditLock>>
       \/ /\ def[r.def] # Wanted(r.op)
          /\ def[r.def] # Nil => CanLock(p, r.def)
          /\ Refuse(p)

(* FindByKeyTx returns the highest row seen that still exists once it can  *)
(* lock it, and the request is refused.  Without one the draft is          *)
(* inserted, under the unique index, which waits for a rival insert.       *)
CheckKey(p) ==
    LET r == request[p] IN
    /\ r.pc = "checking" /\ r.op = "create"
    /\ \/ /\ r.seen # {}
          /\ CanLock(p, Highest(r.seen))
          /\ Refuse(p)
       \/ /\ r.seen = {}
          /\ GoTo(p, "inserting")
          /\ UNCHANGED <<tables, locks>>

InsertDefinition(p) ==
    LET r == request[p] IN
    /\ r.pc = "inserting"
    /\ CanLock(p, r.def)
    /\ \/ /\ def[r.def] = Nil
          /\ LockRow(p, r.def)
          /\ GoTo(p, "auditing")
          /\ UNCHANGED <<tables, sharers, auditLock>>
       \/ /\ def[r.def] # Nil
          /\ Refuse(p)

(* FindLatestActiveByKeyTx: the active rows of the key its statement sees. *)
SearchActive(p) ==
    LET r == request[p] IN
    /\ r.pc = "searching"
    /\ request' = [request EXCEPT ![p].pc = "checking",
           ![p].seen = {e \in SameKey(r.def) : def[e] = "ACTIVE"}]
    /\ UNCHANGED <<tables, locks>>

(* Once locked, the highest of them may have been archived, and then the   *)
(* next is tried; one that is still active refuses the activation.         *)
CheckActive(p) ==
    LET r == request[p]
        top == Highest(r.seen) IN
    /\ r.pc = "checking" /\ r.op = "activate"
    /\ \/ /\ r.seen = {}
          /\ GoTo(p, "auditing")
          /\ UNCHANGED <<tables, locks>>
       \/ /\ r.seen # {}
          /\ def[top] = "ACTIVE"
          /\ CanLock(p, top)
          /\ Refuse(p)
       \/ /\ r.seen # {}
          /\ def[top] # "ACTIVE"
          /\ LockRow(p, top)
          /\ request' = [request EXCEPT ![p].seen = @ \ {top}]
          /\ UNCHANGED <<tables, sharers, auditLock>>

(* The instances of the definition that are not completed; and those that  *)
(* are.                                                                    *)
Completed(d) == {c \in Cases : instance[c] = [def |-> d, running |-> FALSE]}
Running(d) == {c \in Cases : instance[c] = [def |-> d, running |-> TRUE]}

(* CountActiveByDefinitionID, over another connection of the pool.         *)
CountActive(p) ==
    LET r == request[p] IN
    /\ r.pc = "counting"
    /\ \/ /\ Running(r.def) = {}
          /\ GoTo(p, "auditing")
          /\ UNCHANGED <<tables, locks>>
       \/ /\ Running(r.def) # {}
          /\ Refuse(p)

(* An update that changes the key looks for a definition under the new one *)
(* with FindByKeyTx, while it holds its own row.                           *)
SearchNewKey(p) ==
    LET r == request[p] IN
    /\ r.pc = "updating"
    /\ \E key \in Keys \ {r.def[1]} :
          request' = [request EXCEPT ![p].pc = "checking",
              ![p].seen = {d \in Definitions : d[1] = key /\ def[d] # Nil}]
    /\ UNCHANGED <<tables, locks>>

(* If there is none, or the key stays, ValidateWorkflowDefinition judges   *)
(* the row FindByIDTx returned.  scanDefinition never fills in its States, *)
(* so no states are found and every update is refused.                     *)
RefuseUpdate(p) ==
    LET r == request[p] IN
    /\ r.op = "update"
    /\ \/ r.pc = "updating"
       \/ /\ r.pc = "checking"
          /\ r.seen # {} => CanLock(p, Highest(r.seen))
    /\ Refuse(p)

(* RecordAuditEventInTx takes the advisory lock for the transaction.       *)
RecordAuditEvent(p) ==
    LET r == request[p] IN
    /\ r.pc = "auditing"
    /\ auditLock \in {Nil, p}
    /\ auditLock' = p
    /\ GoTo(p, IF r.op \in {"case", "service"} THEN "binding" ELSE "committing")
    /\ UNCHANGED <<tables, rowLock, sharers>>

-----------------------------------------------------------------------------
(* The steps of opening a case.                                            *)

(* INSERT INTO cases: the foreign key to the definition wants a committed  *)
(* row and shares it until the transaction ends.                           *)
SaveCase(p) ==
    LET r == request[p] IN
    /\ r.pc = "saving"
    /\ \/ /\ def[r.def] # Nil
          /\ rowLock[r.def] \in {Nil, p}
          /\ sharers' = [sharers EXCEPT ![r.def] = @ \cup {p}]
          /\ GoTo(p, "auditing")
          /\ UNCHANGED <<tables, rowLock, auditLock>>
       \/ /\ def[r.def] = Nil
          /\ Refuse(p)

(* CreateInstanceForCaseByDefIDTx locks the definition and wants it        *)
(* active; its argument dereferences params.WorkflowID.                    *)
BindInstance(p) ==
    LET r == request[p] IN
    /\ r.pc = "binding"
    /\ \/ /\ r.op = "service"
          /\ GoTo(p, "panicked")
          /\ UNCHANGED <<tables, locks>>
       \/ /\ r.op = "case"
          /\ def[r.def] = "ACTIVE"
          /\ LockRow(p, r.def)
          /\ GoTo(p, "committing")
          /\ UNCHANGED <<tables, sharers, auditLock>>
       \/ /\ r.op = "case"
          /\ def[r.def] # "ACTIVE"
          /\ CanLock(p, r.def)
          /\ Refuse(p)

-----------------------------------------------------------------------------
(* The end of a request.                                                   *)

(* The definition row a committing request leaves.                         *)
Written(op, old) ==
    CASE op = "create"   -> "DRAFT"
      [] op = "activate" -> "ACTIVE"
      [] op = "archive"  -> "ARCHIVED"
      [] op = "delete"   -> Nil
      [] op = "case"     -> old

Commit(p) ==
    LET r == request[p] IN
    /\ r.pc = "committing"
    /\ def' = [def EXCEPT ![r.def] = Written(r.op, @)]
    /\ instance' =
          IF r.op = "case"
          THEN [instance EXCEPT ![r.case] = [def |-> r.def, running |-> TRUE]]
          ELSE instance
    /\ EndTransaction(p, IF r.op = "delete" THEN {r.def} ELSE {})

(* The middleware recovers from a panic.  InTransaction did not roll back; *)
(* the end of the request's context does.                                  *)
Recover(p) ==
    /\ request[p].pc = "panicked"
    /\ Refuse(p)

(* A failing statement, a client or a process that goes away: the          *)
(* transaction is rolled back.                                             *)
Fail(p) ==
    /\ request[p].pc # "idle"
    /\ Refuse(p)

(* The transition of an instance to a terminal state; it reads the         *)
(* definition without locking it.                                          *)
CompleteInstance(c) ==
    /\ instance[c].running
    /\ instance' = [instance EXCEPT ![c].running = FALSE]
    /\ UNCHANGED <<def, locks, request>>

-----------------------------------------------------------------------------
(* Waiting.                                                                *)

Holders(d) == IF d = Nil THEN {} ELSE sharers[d] \cup ({rowLock[d]} \ {Nil})

(* The row request p wants to lock next, or has to itself already.         *)
Target(p) ==
    LET r == request[p] IN
    IF \/ r.pc = "locking" /\ def[r.def] # Nil
       \/ r.pc = "inserting"
       \/ r.pc = "binding" /\ r.op = "case"
    THEN r.def
    ELSE IF r.pc = "checking" /\ r.seen # {} THEN Highest(r.seen) ELSE Nil

(* The requests whose locks the next step of p waits for.                  *)
WaitsFor(p) ==
    LET r == request[p] IN
    (CASE r.pc = "saving"   -> {rowLock[r.def]}
       [] r.pc = "auditing" -> {auditLock}
       [] OTHER             -> Holders(Target(p))) \ {p, Nil}

(* p waits, directly or through others, for itself.                        *)
Deadlocked(p) ==
    \A S \in SUBSET Requests :
        (WaitsFor(p) \subseteq S /\ \A q \in S : WaitsFor(q) \subseteq S)
            => p \in S

(* PostgreSQL aborts a transaction of a cycle of waits.                    *)
DeadlockAbort(p) == Deadlocked(p) /\ Refuse(p)

-----------------------------------------------------------------------------
(* A client sends a request.                                               *)
Start(p) ==
    \/ \E d \in Definitions :
          \/ CreateDefinition(p, d)
          \/ \E op \in {"activate", "archive", "delete", "update"} :
                ChangeDefinition(p, op, d)
          \/ \E c \in Cases : CreateCase(p, c, d)
    \/ \E c \in Cases : CreateCaseByService(p, c)

(* What a started request does next on its own.                            *)
Step(p) ==
    \/ FindByIDTx(p) \/ CheckKey(p) \/ InsertDefinition(p)
    \/ SearchActive(p) \/ CheckActive(p) \/ CountActive(p)
    \/ SearchNewKey(p) \/ RefuseUpdate(p)
    \/ SaveCase(p) \/ RecordAuditEvent(p) \/ BindInstance(p) \/ Commit(p)
    \/ Recover(p)

Next ==
    \/ \E c \in Cases : CompleteInstance(c)
    \/ \E p \in Requests : Start(p) \/ Step(p) \/ DeadlockAbort(p) \/ Fail(p)

Spec == Init /\ [][Next]_vars

(* A goroutine that can run does, PostgreSQL grants locks in arrival order *)
(* and looks for deadlocks after deadlock_timeout.                         *)
FairSpec ==
    Spec /\ \A p \in Requests : SF_vars(Step(p)) /\ WF_vars(DeadlockAbort(p))

-----------------------------------------------------------------------------
(* Type invariant.                                                         *)

Requestor ==
    [pc : {"idle", "locking", "searching", "counting", "updating", "checking",
           "inserting", "saving", "auditing", "binding", "panicked",
           "committing"},
     op : Operations \cup {Nil},
     def : Definitions \cup {Nil}, case : Cases \cup {Nil},
     seen : SUBSET Definitions]

(* Every row, lock and request-local variable holds a value the code can   *)
(* store in it.                                                            *)
TypeOK ==
    /\ def \in [Definitions -> Status \cup {Nil}]
    /\ instance \in [Cases -> [def : Definitions \cup {Nil}, running : BOOLEAN]]
    /\ rowLock \in [Definitions -> Requests \cup {Nil}]
    /\ sharers \in [Definitions -> SUBSET Requests]
    /\ auditLock \in Requests \cup {Nil}
    /\ request \in [Requests -> Requestor]

-----------------------------------------------------------------------------
(* Safety and liveness.                                                    *)

(* The definition of an instance that still runs is active: it was not     *)
(* archived or deleted between the moment CreateCase found it active and   *)
(* its commit, nor was a case opened between the count of                  *)
(* ArchiveWorkflowDefinition, over another connection, and its commit.     *)
RunningInstancesAreActive ==
    \A c \in Cases : instance[c].running => def[instance[c].def] = "ACTIVE"

(* A definition appears as a draft, is activated once, archived once and   *)
(* never leaves the archive; only a draft is ever deleted, although every  *)
(* request writes the status without comparing the one it replaces.        *)
DefinitionsMoveForward ==
    [][\A d \in Definitions : def'[d] # def[d] =>
         <<def[d], def'[d]>> \in
             {<<Nil, "DRAFT">>, <<"DRAFT", Nil>>,
              <<"DRAFT", "ACTIVE">>, <<"ACTIVE", "ARCHIVED">>}]_vars

(* Every request ends, those that wait for each other over a definition,   *)
(* its cases and the audit chain included.                                 *)
RequestsEnd ==
    \A p \in Requests : request[p].pc # "idle" ~> request[p].pc = "idle"
=============================================================================
