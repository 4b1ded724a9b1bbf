------------------------------ MODULE RuleSets ------------------------------
(***************************************************************************)
(* The versions of one rule set key, the assignments of rule sets to a     *)
(* workflow state, and the evaluations made with them, by one request or   *)
(* in the transaction of a workflow transition.                            *)
(*                                                                         *)
(* Each statement outside a transaction and each transaction is a step, as *)
(* is each statement of the transaction that evaluates a case: it sees     *)
(* what others commit between its statements.                              *)
(***************************************************************************)
EXTENDS Integers, FiniteSets, Sequences

CONSTANTS
    RuleSetIds,     \* ids of rows of rule_sets
    Assignments,    \* ids of rows of workflow_state_rule_assignments
    Orders,         \* display orders
    Cases,          \* cases a rule set may be bound to
    Contents,       \* valid [rules, default, triggers]
    Snapshots,      \* facts of a case
    Requests,       \* concurrently running requests
    MaxVersion,     \* bound: no version above it is created
    Outcome(_, _),  \* what a content says of facts: RuleEngine's Evaluate
    Nil             \* no row, and the case of a global rule set

ASSUME OrdersAreNumbers == Orders \subseteq Nat
ASSUME AssignmentsAreFinite == IsFiniteSet(Assignments)
ASSUME MaxVersionIsPositive == MaxVersion \in Nat \ {0}
ASSUME NilIsNoValue ==
    Nil \notin RuleSetIds \cup Cases \cup Contents \cup Snapshots

VARIABLES
    ruleSet,     \* rows of rule_sets
    assignment,  \* rows of workflow_state_rule_assignments
    evaluation,  \* rows of evaluations
    request      \* local variables of each request

rows == <<ruleSet, assignment, evaluation>>
vars == <<ruleSet, assignment, evaluation, request>>

-----------------------------------------------------------------------------
Status == {"DRAFT", "PUBLISHED", "ARCHIVED"}

RuleSet ==
    [version : 1..MaxVersion, case : Cases \cup {Nil}, status : Status,
     content : Contents]

Draft == [version |-> 1, case |-> Nil, status |-> "DRAFT", content |-> Nil]

Assignment == [ruleSet : RuleSetIds, active : BOOLEAN, order : Orders]

(* SQL NULL stands for a row that is not there.                            *)
ASSUME NilIsNoRow == Nil \notin RuleSet /\ Nil \notin Assignment

Idle ==
    [pc |-> "idle", id |-> Nil, row |-> Nil, assigned |-> Nil, facts |-> Nil,
     todo |-> <<>>, event |-> "", tx |-> FALSE, saved |-> {}]

Init ==
    /\ ruleSet = [r \in RuleSetIds |-> Nil]
    /\ assignment = [a \in Assignments |-> Nil]
    /\ evaluation = {}
    /\ request = [p \in Requests |-> Idle]

Begin(p, to) == request[p].pc = "idle" /\ request' = [request EXCEPT ![p] = to]
GoTo(p, to) == request' = [request EXCEPT ![p] = to]
Done(p) == request' = [request EXCEPT ![p] = Idle]

Exists(r) == ruleSet[r] # Nil
Is(r, status) == Exists(r) /\ ruleSet[r].status = status

-----------------------------------------------------------------------------
(* Writing rule sets.                                                      *)

(* The unique indexes on the version, and on the case while published: two *)
(* global rule sets do not collide, as a null equals no null.              *)
VersionIsFree(v) == \A r \in RuleSetIds : Exists(r) => ruleSet[r].version # v
CaseIsFree(r) ==
    \A s \in RuleSetIds \ {r} :
        Is(s, "PUBLISHED") /\ ruleSet[r].case # Nil => ruleSet[s].case # ruleSet[r].case

SaveRuleSet(r, row) ==
    /\ ~Exists(r)
    /\ VersionIsFree(row.version)
    /\ ruleSet' = [ruleSet EXCEPT ![r] = row]

(* The key is looked up before the transaction.                            *)
StartCreate(p, case, content) ==
    /\ \A r \in RuleSetIds : ~Exists(r)
    /\ Begin(p, [Idle EXCEPT !.pc = "creating",
           !.row = [Draft EXCEPT !.case = case, !.content = content]])
    /\ UNCHANGED rows

(* The clone of any version has the next number, and is a draft.           *)
StartCreateVersion(p, r) ==
    /\ Exists(r)
    /\ ruleSet[r].version < MaxVersion
    /\ Begin(p, [Idle EXCEPT !.pc = "creating",
           !.row = [ruleSet[r] EXCEPT !.version = @ + 1, !.status = "DRAFT"]])
    /\ UNCHANGED rows

CreateRuleSet(p, r) ==
    /\ request[p].pc = "creating"
    /\ SaveRuleSet(r, request[p].row)
    /\ Done(p)
    /\ UNCHANGED <<assignment, evaluation>>

(* The row is locked before it is found to be a draft.                     *)
UpdateRuleSet(p, r, content) ==
    /\ Is(r, "DRAFT") /\ request[p].pc = "idle"
    /\ ruleSet' = [ruleSet EXCEPT ![r].content = content]
    /\ UNCHANGED <<assignment, evaluation, request>>

(* Assignments of a deleted rule set go with it.                           *)
DeleteRuleSet(p, r) ==
    /\ Is(r, "DRAFT") /\ request[p].pc = "idle"
    /\ ruleSet' = [ruleSet EXCEPT ![r] = Nil]
    /\ assignment' = [a \in Assignments |->
          IF assignment[a] # Nil /\ assignment[a].ruleSet = r THEN Nil ELSE assignment[a]]
    /\ UNCHANGED <<evaluation, request>>

(* The status is read, then compared and set; or set only.                 *)
StartPublish(p, r) ==
    /\ Is(r, "DRAFT")
    /\ Begin(p, [Idle EXCEPT !.pc = "publishing", !.id = r])
    /\ UNCHANGED rows
StartArchive(p, r) ==
    /\ Is(r, "PUBLISHED")
    /\ Begin(p, [Idle EXCEPT !.pc = "archiving", !.id = r])
    /\ UNCHANGED rows

SetStatus(r, from, to) == Exists(r) /\ ruleSet' = [ruleSet EXCEPT ![r].status = to]
UpdateStatus(r, from, to) ==
    /\ Is(r, from)
    /\ ruleSet' = [ruleSet EXCEPT ![r].status = to]

PublishRuleSet(p) ==
    /\ request[p].pc = "publishing"
    /\ UpdateStatus(request[p].id, "DRAFT", "PUBLISHED")
    /\ CaseIsFree(request[p].id)
    /\ Done(p)
    /\ UNCHANGED <<assignment, evaluation>>

ArchiveRuleSet(p) ==
    /\ request[p].pc = "archiving"
    /\ UpdateStatus(request[p].id, "PUBLISHED", "ARCHIVED")
    /\ Done(p)
    /\ UNCHANGED <<assignment, evaluation>>

-----------------------------------------------------------------------------
(* Assigning rule sets to the state.                                       *)

(* A rule set is assigned once, and each assignment has its own order.     *)
AssignmentIsFree(a, row) ==
    \A b \in Assignments \ {a} :
        assignment[b] # Nil =>
            assignment[b].ruleSet # row.ruleSet /\ assignment[b].order # row.order

WriteAssignment(p) ==
    /\ Exists(request[p].assigned.ruleSet)
    /\ AssignmentIsFree(request[p].id, request[p].assigned)
    /\ assignment' = [assignment EXCEPT ![request[p].id] = request[p].assigned]
    /\ Done(p)
    /\ UNCHANGED <<ruleSet, evaluation>>

(* The rule set is looked up before the transaction.                       *)
StartCreateAssignment(p, a, row) ==
    /\ assignment[a] = Nil
    /\ Exists(row.ruleSet)
    /\ Begin(p, [Idle EXCEPT !.pc = "assigning", !.id = a, !.assigned = row])
    /\ UNCHANGED rows

CreateRuleAssignment(p) ==
    /\ request[p].pc = "assigning"
    /\ assignment[request[p].id] = Nil
    /\ WriteAssignment(p)

(* The row read before the transaction is written back with what the       *)
(* caller changes of it: its rule set, whether it is active, or its order. *)
StartUpdateAssignment(p, a, row) ==
    /\ assignment[a] # Nil
    /\ Exists(row.ruleSet)
    /\ Begin(p, [Idle EXCEPT !.pc = "reassigning", !.id = a, !.assigned = row])
    /\ UNCHANGED rows

Changed(a) ==
    {[assignment[a] EXCEPT !.active = b] : b \in BOOLEAN}
    \cup {[assignment[a] EXCEPT !.order = n] : n \in Orders}
    \cup {[assignment[a] EXCEPT !.ruleSet = r] : r \in RuleSetIds}

(* An assignment that was deleted meanwhile is not written: no error.      *)
UpdateRuleAssignment(p) ==
    /\ request[p].pc = "reassigning"
    /\ IF assignment[request[p].id] # Nil THEN WriteAssignment(p)
       ELSE Done(p) /\ UNCHANGED rows

DeleteRuleAssignment(p, a) ==
    /\ assignment[a] # Nil /\ request[p].pc = "idle"
    /\ assignment' = [assignment EXCEPT ![a] = Nil]
    /\ UNCHANGED <<ruleSet, evaluation, request>>

-----------------------------------------------------------------------------
(* Evaluating.                                                             *)

(* The rule sets of the active assignments, by display order.              *)
Active == {a \in Assignments : assignment[a] # Nil /\ assignment[a].active}

InDisplayOrder ==
    {s \in [1..Cardinality(Active) -> Active] :
        \A i, j \in DOMAIN s : i < j => assignment[s[i]].order < assignment[s[j]].order}

Assigned == {[i \in DOMAIN s |-> assignment[s[i]].ruleSet] : s \in InDisplayOrder}

(* No triggers, or no event, and every rule set is evaluated.              *)
TriggersMatch(triggers, event) ==
    \/ triggers = {}
    \/ event = ""
    \/ triggers \cap {event, "workflow_transition"} # {}

(* One rule set by its id, for a case.                                     *)
StartEvaluate(p, r, facts) ==
    /\ Begin(p, [Idle EXCEPT !.pc = "reading", !.todo = <<r>>, !.facts = facts])
    /\ UNCHANGED rows

(* What is assigned to the state of a case, on demand: each evaluation is  *)
(* a transaction of its own; or after a transition, in its transaction.    *)
EvaluateCaseRules(p, facts, tx) ==
    /\ \E todo \in Assigned :
          Begin(p, [Idle EXCEPT !.pc = "reading", !.todo = todo, !.facts = facts,
                                !.event = IF tx THEN "workflow_transition" ELSE "",
                                !.tx = tx])
    /\ UNCHANGED rows

(* Only a published rule set is evaluated; and one that is not archived.   *)
MayEvaluateDrafts(r) == Exists(r) /\ ruleSet[r].status # "ARCHIVED"
MayEvaluate(r) == Is(r, "PUBLISHED")

(* The next rule set is read and evaluated, or passed over.                *)
ReadRuleSet(p) ==
    /\ request[p].pc = "reading" /\ request[p].todo # <<>>
    /\ LET r == Head(request[p].todo) IN
       IF MayEvaluate(r) /\ TriggersMatch(ruleSet[r].content.triggers, request[p].event)
       THEN GoTo(p, [request[p] EXCEPT !.pc = "saving", !.id = r, !.row = ruleSet[r],
                                       !.todo = Tail(@)])
       ELSE GoTo(p, [request[p] EXCEPT !.todo = Tail(@)])
    /\ UNCHANGED rows

Evaluation(p) ==
    [ruleSet |-> request[p].id, version |-> request[p].row.version,
     facts |-> request[p].facts,
     outcome |-> Outcome(request[p].row.content, request[p].facts)]

(* The evaluation refers to its rule set.  On demand it is committed by    *)
(* itself; in a transition it waits for the rest.                          *)
SaveEvaluation(p) ==
    /\ request[p].pc = "saving" /\ ~request[p].tx
    /\ Exists(request[p].id)
    /\ evaluation' = evaluation \cup {Evaluation(p)}
    /\ GoTo(p, [request[p] EXCEPT !.pc = "reading"])
    /\ UNCHANGED <<ruleSet, assignment>>

SaveEvaluationInTx(p) ==
    /\ request[p].pc = "saving" /\ request[p].tx
    /\ Exists(request[p].id)
    /\ GoTo(p, [request[p] EXCEPT !.pc = "reading", !.saved = @ \cup {Evaluation(p)}])
    /\ UNCHANGED rows

(* The evaluations of a transition are committed with it.                  *)
CommitEvaluations(p) ==
    /\ request[p].pc = "reading" /\ request[p].todo = <<>>
    /\ evaluation' = evaluation \cup request[p].saved
    /\ Done(p)
    /\ UNCHANGED <<ruleSet, assignment>>

(* A condition that no longer holds, an index that refuses the row, a      *)
(* database that goes away: the transaction is rolled back.                *)
Fail(p) ==
    /\ request[p].pc # "idle"
    /\ Done(p)
    /\ UNCHANGED rows

-----------------------------------------------------------------------------
Create(p) ==
    \/ \E case \in Cases \cup {Nil}, content \in Contents : StartCreate(p, case, content)
    \/ \E r \in RuleSetIds : CreateRuleSet(p, r)

Manage(p) ==
    \/ \E r \in RuleSetIds :
          \/ StartCreateVersion(p, r) \/ DeleteRuleSet(p, r)
          \/ StartPublish(p, r) \/ StartArchive(p, r)
          \/ \E content \in Contents : UpdateRuleSet(p, r, content)
    \/ PublishRuleSet(p) \/ ArchiveRuleSet(p)

Assign(p) ==
    \/ \E a \in Assignments :
          \/ \E row \in Assignment : StartCreateAssignment(p, a, row)
          \/ assignment[a] # Nil /\ \E row \in Changed(a) : StartUpdateAssignment(p, a, row)
          \/ DeleteRuleAssignment(p, a)
    \/ CreateRuleAssignment(p) \/ UpdateRuleAssignment(p)

EvaluateRules(p) ==
    \/ \E facts \in Snapshots :
          \/ \E r \in RuleSetIds : StartEvaluate(p, r, facts)
          \/ \E tx \in BOOLEAN : EvaluateCaseRules(p, facts, tx)
    \/ ReadRuleSet(p) \/ CommitEvaluations(p)
    \/ SaveEvaluation(p) \/ SaveEvaluationInTx(p)

Next ==
    \E p \in Requests :
        Create(p) \/ Manage(p) \/ Assign(p) \/ EvaluateRules(p) \/ Fail(p)

Spec == Init /\ [][Next]_vars

-----------------------------------------------------------------------------
EvaluationRow ==
    [ruleSet : RuleSetIds, version : 1..MaxVersion, facts : Snapshots,
     outcome : {Outcome(c, f) : c \in Contents, f \in Snapshots}]

Requestor ==
    [pc : {"idle", "creating", "publishing", "archiving", "assigning",
           "reassigning", "reading", "saving"},
     id : RuleSetIds \cup Assignments \cup {Nil}, row : RuleSet \cup {Nil},
     assigned : Assignment \cup {Nil}, facts : Snapshots \cup {Nil},
     todo : Seq(RuleSetIds), event : {"", "workflow_transition"}, tx : BOOLEAN,
     saved : SUBSET EvaluationRow]

(* Every row and request-local variable holds a value the code can store   *)
(* in it and a request needs, and assignments name rule sets there are.    *)
TypeOK ==
    /\ ruleSet \in [RuleSetIds -> RuleSet \cup {Nil}]
    /\ assignment \in [Assignments -> Assignment \cup {Nil}]
    /\ \A a \in Assignments : assignment[a] # Nil => Exists(assignment[a].ruleSet)
    /\ evaluation \subseteq EvaluationRow
    /\ request \in [Requests -> Requestor]
    /\ \A p \in Requests :
          /\ request[p].pc \in {"creating", "saving"} => request[p].row \in RuleSet
          /\ request[p].pc \in {"assigning", "reassigning"} =>
                request[p].id \in Assignments /\ request[p].assigned \in Assignment
          /\ request[p].pc \in {"publishing", "archiving", "saving"} =>
                request[p].id \in RuleSetIds
          /\ request[p].pc \in {"reading", "saving"} => request[p].facts \in Snapshots

(* An evaluation can be made again: its rule set is still there, in the    *)
(* version it names, and says of the stored facts what it said then.       *)
EvaluationsAreReproducible ==
    \A e \in evaluation :
        /\ Is(e.ruleSet, "PUBLISHED") \/ Is(e.ruleSet, "ARCHIVED")
        /\ ruleSet[e.ruleSet].version = e.version
        /\ Outcome(ruleSet[e.ruleSet].content, e.facts) = e.outcome

(* A published rule set is only ever archived, and an archived one stays   *)
(* as it is, whatever was read before it was published.                    *)
FrozenOncePublished ==
    [][\A r \in RuleSetIds :
         /\ Is(r, "ARCHIVED") => ruleSet'[r] = ruleSet[r]
         /\ Is(r, "PUBLISHED") =>
               ruleSet'[r] \in {ruleSet[r], [ruleSet[r] EXCEPT !.status = "ARCHIVED"]}]_vars
=============================================================================
