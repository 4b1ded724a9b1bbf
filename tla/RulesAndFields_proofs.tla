------------------------ MODULE RulesAndFields_proofs ------------------------
(***************************************************************************)
(* Theorems about what people configure: the life of rule sets and of the  *)
(* evaluations made of them (RuleSets), for any rule sets, assignments,    *)
(* contents, facts and requests, whatever an evaluation says; the          *)
(* evaluation itself (RuleEngine), for conditions of any size over any     *)
(* facts; and the fields of forms (FormFields), for any definitions.       *)
(***************************************************************************)
EXTENDS RuleSets, RuleEngine, FormFields, FiniteSetTheorems, WellFoundedInduction, TLAPS

-----------------------------------------------------------------------------
(* The inductive invariant.                                                *)

(* Rule sets that can no longer be edited.                                 *)
Final(r) == Is(r, "PUBLISHED") \/ Is(r, "ARCHIVED")

Reproducible(e) ==
    /\ Final(e.ruleSet)
    /\ ruleSet[e.ruleSet].version = e.version
    /\ Outcome(ruleSet[e.ruleSet].content, e.facts) = e.outcome

(* What a request that evaluates has read and computed still stands, though*)
(* it has locked nothing.                                                  *)
Stands(r) ==
    /\ r.pc = "saving" =>
          /\ Final(r.id)
          /\ ruleSet[r.id].version = r.row.version
          /\ ruleSet[r.id].content = r.row.content
    /\ \A e \in r.saved : Reproducible(e)

Inv ==
    /\ TypeOK
    /\ EvaluationsAreReproducible
    /\ \A p \in Requests : Stands(request[p])

(* One step leaves published and archived rule sets alone, but for their   *)
(* archival: the action of FrozenOncePublished.                            *)
Frozen ==
    \A r \in RuleSetIds :
        /\ Is(r, "ARCHIVED") => ruleSet'[r] = ruleSet[r]
        /\ Is(r, "PUBLISHED") =>
              ruleSet'[r] \in {ruleSet[r], [ruleSet[r] EXCEPT !.status = "ARCHIVED"]}

-----------------------------------------------------------------------------
(* What requests carry.                                                    *)

(* The part of the type invariant that is about one request.               *)
Fit(r) ==
    /\ r \in Requestor
    /\ r.pc \in {"creating", "saving"} => r.row \in RuleSet
    /\ r.pc \in {"assigning", "reassigning"} => r.id \in Assignments /\ r.assigned \in Assignment
    /\ r.pc \in {"publishing", "archiving", "saving"} => r.id \in RuleSetIds
    /\ r.pc \in {"reading", "saving"} => r.facts \in Snapshots

RowsFit ==
    /\ ruleSet \in [RuleSetIds -> RuleSet \cup {Nil}]
    /\ assignment \in [Assignments -> Assignment \cup {Nil}]
    /\ \A a \in Assignments : assignment[a] # Nil => Exists(assignment[a].ruleSet)
    /\ evaluation \subseteq EvaluationRow

LEMMA TypeOKIsFit ==
    TypeOK <=> RowsFit /\ request \in [Requests -> Requestor]
               /\ \A p \in Requests : Fit(request[p])
BY DEF TypeOK, RowsFit, Fit

LEMMA IdleFits == Fit(Idle) /\ Stands(Idle)
BY DEF Fit, Requestor, Idle, Stands

LEMMA IdleKnowsNothing == Idle.pc = "idle" /\ Idle.saved = {}
BY DEF Idle

(* A request fits when it starts, whatever it is for.                      *)
LEMMA CreationFits ==
    ASSUME NEW row \in RuleSet
    PROVE  LET r == [Idle EXCEPT !.pc = "creating", !.row = row]
           IN  Fit(r) /\ r.pc # "saving" /\ r.saved = {}
BY IdleFits, IdleKnowsNothing DEF Fit, Requestor

LEMMA StatusChangeFits ==
    ASSUME NEW id \in RuleSetIds, NEW pc \in {"publishing", "archiving"}
    PROVE  LET r == [Idle EXCEPT !.pc = pc, !.id = id]
           IN  Fit(r) /\ r.pc # "saving" /\ r.saved = {}
BY IdleFits, IdleKnowsNothing DEF Fit, Requestor

LEMMA AssigningFits ==
    ASSUME NEW a \in Assignments, NEW row \in Assignment, NEW pc \in {"assigning", "reassigning"}
    PROVE  LET r == [Idle EXCEPT !.pc = pc, !.id = a, !.assigned = row]
           IN  Fit(r) /\ r.pc # "saving" /\ r.saved = {}
BY IdleFits, IdleKnowsNothing DEF Fit, Requestor

LEMMA EvaluatingFits ==
    ASSUME NEW frozen \in Snapshots, NEW chosen \in Seq(RuleSetIds),
           NEW event \in {"", "workflow_transition"}, NEW tx \in BOOLEAN
    PROVE  LET r == [Idle EXCEPT !.pc = "reading", !.todo = chosen, !.facts = frozen,
                                 !.event = event, !.tx = tx]
           IN  Fit(r) /\ r.pc # "saving" /\ r.saved = {}
BY IdleFits, IdleKnowsNothing DEF Fit, Requestor

LEMMA EvaluatingOneFits ==
    ASSUME NEW frozen \in Snapshots, NEW id \in RuleSetIds
    PROVE  LET r == [Idle EXCEPT !.pc = "reading", !.todo = <<id>>, !.facts = frozen]
           IN  Fit(r) /\ r.pc # "saving" /\ r.saved = {}
<1>1. <<id>> \in Seq(RuleSetIds)
  OBVIOUS
<1> QED BY <1>1, IdleFits, IdleKnowsNothing DEF Fit, Requestor

(* A new rule set is a draft of version 1, a clone one of the next version.*)
LEMMA FirstVersionIsRuleSet ==
    ASSUME NEW case \in Cases \cup {Nil}, NEW content \in Contents
    PROVE  [Draft EXCEPT !.case = case, !.content = content] \in RuleSet
<1>1. Draft \in [version : 1..MaxVersion, case : Cases \cup {Nil}, status : Status,
                 content : Contents \cup {Nil}]
  BY MaxVersionIsPositive DEF Draft, Status
<1> QED BY <1>1 DEF RuleSet

LEMMA NextVersionIsRuleSet ==
    ASSUME NEW row \in RuleSet, row.version < MaxVersion
    PROVE  [row EXCEPT !.version = @ + 1, !.status = "DRAFT"] \in RuleSet
<1>1. row.version + 1 \in 1..MaxVersion /\ "DRAFT" \in Status
  BY MaxVersionIsPositive DEF RuleSet, Status
<1> QED BY <1>1 DEF RuleSet

(* A request that goes on without a write keeps the invariant when its own *)
(* variables do.                                                           *)
LEMMA RequestGoesOn ==
    ASSUME Inv, UNCHANGED rows, NEW p \in Requests, NEW r, Fit(r), Stands(r),
           request' = [request EXCEPT ![p] = r]
    PROVE  Inv'
<1>1. RowsFit'
  BY TypeOKIsFit DEF Inv, RowsFit, rows, Exists
<1>2. request' \in [Requests -> Requestor] /\ \A q \in Requests : Fit(request'[q])
  BY TypeOKIsFit DEF Inv, Fit
<1>3. TypeOK'
  BY <1>1, <1>2 DEF TypeOK, RowsFit, Fit
<1>4. EvaluationsAreReproducible'
  BY DEF Inv, EvaluationsAreReproducible, rows, Is, Exists
<1>5. ASSUME NEW q \in Requests PROVE Stands(request'[q])
  BY TypeOKIsFit DEF Inv
<1>6. ASSUME NEW q \in Requests PROVE Stands(request[q])'
  BY <1>5 DEF Stands, Reproducible, Final, Is, Exists, rows
<1> QED BY <1>3, <1>4, <1>6 DEF Inv

-----------------------------------------------------------------------------
(* What a step that writes keeps.                                          *)

(* What was evaluated can be evaluated again after a step that freezes.    *)
LEMMA FrozenKeeps ==
    ASSUME RowsFit, Frozen, NEW r \in RuleSetIds, Final(r)
    PROVE  /\ Final(r)'
           /\ ruleSet'[r].version = ruleSet[r].version
           /\ ruleSet'[r].content = ruleSet[r].content
<1>1. ruleSet[r] \in RuleSet
  BY DEF RowsFit, Final, Is, Exists
<1>2. ruleSet'[r] \in RuleSet /\ ruleSet'[r].status \in {"PUBLISHED", "ARCHIVED"}
  BY <1>1 DEF Frozen, Final, Is, RuleSet, Status
<1>3. ruleSet'[r] # Nil
  BY <1>2, NilIsNoRow
<1>4. Final(r)'
  BY <1>2, <1>3 DEF Final, Is, Exists
<1> QED BY <1>1, <1>4 DEF Frozen, Final, Is, RuleSet

LEMMA FrozenReproduces ==
    ASSUME RowsFit, Frozen, NEW e \in EvaluationRow, Reproducible(e)
    PROVE  Reproducible(e)'
<1>1. e.ruleSet \in RuleSetIds
  BY DEF EvaluationRow
<1> QED BY <1>1, FrozenKeeps DEF Reproducible

(* Whoever writes, a request that goes on as it was knows what it knew.    *)
LEMMA RequestKnows ==
    ASSUME Inv, Frozen, NEW q \in Requests, request'[q] = request[q]
    PROVE  Stands(request[q])'
<1> USE TypeOKIsFit DEF Inv
<1>1. Fit(request[q]) /\ Stands(request[q])
  OBVIOUS
<1>2. ASSUME NEW e \in request[q].saved PROVE Reproducible(e)'
  BY <1>1, FrozenReproduces DEF Fit, Requestor, Stands
<1>3. CASE request[q].pc = "saving"
  BY <1>1, <1>2, <1>3, FrozenKeeps DEF Fit, Stands
<1>4. CASE request[q].pc # "saving"
  BY <1>2, <1>4 DEF Stands
<1> QED BY <1>3, <1>4

(* Tables that stay fit and frozen, evaluations that can be made again and *)
(* requests that know what they knew are the invariant.                    *)
LEMMA StepKeeps ==
    ASSUME Inv, RowsFit', Frozen,
           request' \in [Requests -> Requestor],
           \A q \in Requests : Fit(request'[q]),
           \A q \in Requests : Stands(request[q])',
           \A e \in evaluation' : e \in evaluation \/ Reproducible(e)'
    PROVE  Inv'
<1> USE TypeOKIsFit DEF Inv
<1>1. TypeOK'
  BY DEF TypeOK, RowsFit, Fit
<1>2. ASSUME NEW e \in evaluation' PROVE Reproducible(e)'
  <2>1. CASE e \in evaluation
    <3>1. e \in EvaluationRow /\ Reproducible(e)
      BY <2>1 DEF RowsFit, EvaluationsAreReproducible, Reproducible, Final
    <3> QED BY <3>1, FrozenReproduces
  <2> QED BY <2>1, <1>2
<1>3. EvaluationsAreReproducible'
  BY <1>2 DEF EvaluationsAreReproducible, Reproducible, Final
<1> QED BY <1>1, <1>3 DEF Inv

(* A request that writes tables other than the evaluations, and is done.   *)
LEMMA RequestWrites ==
    ASSUME Inv, RowsFit', Frozen, evaluation' = evaluation,
           NEW p \in Requests, Done(p) \/ UNCHANGED request
    PROVE  Inv'
<1> USE TypeOKIsFit, IdleFits DEF Inv
<1>1. request' \in [Requests -> Requestor] /\ \A q \in Requests : Fit(request'[q])
  BY DEF Fit, Done
<1>2. ASSUME NEW q \in Requests PROVE Stands(request[q])'
  <2>1. CASE request'[q] = request[q]
    BY <2>1, RequestKnows
  <2>2. CASE request'[q] = Idle
    <3>1. request'[q].pc = "idle" /\ request'[q].saved = {}
      BY <2>2, IdleKnowsNothing
    <3> QED BY <3>1 DEF Stands
  <2> QED BY <2>1, <2>2 DEF Done
<1> QED BY <1>1, <1>2, StepKeeps

-----------------------------------------------------------------------------
(* What each step writes.                                                  *)

LEMMA CreateWrites ==
    ASSUME Inv, NEW p \in Requests, NEW r \in RuleSetIds, CreateRuleSet(p, r)
    PROVE  RowsFit' /\ Frozen
<1> USE TypeOKIsFit DEF Inv
<1>1. request[p].row \in RuleSet
  BY DEF CreateRuleSet, Fit
<1>2. ~Exists(r) /\ ruleSet' = [ruleSet EXCEPT ![r] = request[p].row]
  BY DEF CreateRuleSet, SaveRuleSet
<1>3. \A q \in RuleSetIds : Exists(q) => ruleSet'[q] = ruleSet[q]
  BY <1>2 DEF RowsFit, Exists
<1>4. assignment' = assignment /\ evaluation' = evaluation
  BY DEF CreateRuleSet
<1>5. RowsFit'
  BY <1>1, <1>2, <1>3, <1>4 DEF RowsFit, Exists, Assignment
<1> QED BY <1>3, <1>5 DEF Frozen, Is

LEMMA UpdateWrites ==
    ASSUME Inv, NEW p \in Requests, NEW r \in RuleSetIds, NEW c \in Contents,
           UpdateRuleSet(p, r, c)
    PROVE  RowsFit' /\ Frozen
<1> USE TypeOKIsFit DEF Inv
<1>1. ruleSet[r] \in RuleSet /\ ruleSet[r].status = "DRAFT"
  BY DEF UpdateRuleSet, Is, Exists, RowsFit
<1>2. ruleSet' = [ruleSet EXCEPT ![r] = [ruleSet[r] EXCEPT !.content = c]]
  BY DEF UpdateRuleSet
<1>3. [ruleSet[r] EXCEPT !.content = c] \in RuleSet
  BY <1>1 DEF RuleSet
<1>4. RowsFit'
  BY <1>1, <1>2, <1>3, NilIsNoRow DEF RowsFit, Exists, Assignment, UpdateRuleSet
<1>5. Frozen
  BY <1>1, <1>2 DEF Frozen, Is, Exists, RowsFit
<1> QED BY <1>4, <1>5

LEMMA DeleteWrites ==
    ASSUME Inv, NEW p \in Requests, NEW r \in RuleSetIds, DeleteRuleSet(p, r)
    PROVE  RowsFit' /\ Frozen
<1> USE TypeOKIsFit DEF Inv
<1>1. ruleSet[r].status = "DRAFT" /\ ruleSet' = [ruleSet EXCEPT ![r] = Nil]
  BY DEF DeleteRuleSet, Is
<1>2. RowsFit'
  BY <1>1 DEF RowsFit, Exists, Assignment, DeleteRuleSet
<1>3. Frozen
  BY <1>1 DEF Frozen, Is, Exists, RowsFit
<1> QED BY <1>2, <1>3

LEMMA StatusWrites ==
    ASSUME Inv, NEW r \in RuleSetIds, NEW from \in Status, NEW to \in Status,
           UpdateStatus(r, from, to), UNCHANGED <<assignment, evaluation>>,
           \/ from = "DRAFT"
           \/ from = "PUBLISHED" /\ to = "ARCHIVED"
    PROVE  RowsFit' /\ Frozen
<1> USE TypeOKIsFit DEF Inv
<1>1. ruleSet[r] \in RuleSet /\ ruleSet[r].status = from
  BY DEF UpdateStatus, Is, Exists, RowsFit
<1>2. ruleSet' = [ruleSet EXCEPT ![r] = [ruleSet[r] EXCEPT !.status = to]]
  BY DEF UpdateStatus
<1>3. [ruleSet[r] EXCEPT !.status = to] \in RuleSet
  BY <1>1 DEF RuleSet
<1>4. RowsFit'
  BY <1>1, <1>2, <1>3, NilIsNoRow DEF RowsFit, Exists, Assignment
<1>5. Frozen
  BY <1>1, <1>2 DEF Frozen, Is, Exists, RowsFit
<1> QED BY <1>4, <1>5

LEMMA AssignmentWrites ==
    ASSUME Inv, NEW p \in Requests, request[p].pc \in {"assigning", "reassigning"},
           WriteAssignment(p)
    PROVE  RowsFit' /\ Frozen
<1> USE TypeOKIsFit DEF Inv
<1>1. request[p].id \in Assignments /\ request[p].assigned \in Assignment
  BY DEF Fit
<1>2. RowsFit'
  BY <1>1 DEF RowsFit, Exists, Assignment, WriteAssignment
<1>3. Frozen
  BY DEF Frozen, WriteAssignment
<1> QED BY <1>2, <1>3

LEMMA DeleteAssignmentWrites ==
    ASSUME Inv, NEW p \in Requests, NEW a \in Assignments, DeleteRuleAssignment(p, a)
    PROVE  RowsFit' /\ Frozen
BY TypeOKIsFit DEF Inv, RowsFit, Exists, Assignment, DeleteRuleAssignment, Frozen

-----------------------------------------------------------------------------
(* Evaluations.                                                            *)

(* What is assigned to a state is a sequence of rule sets there are.       *)
LEMMA AssignedAreRuleSets ==
    ASSUME RowsFit, NEW chosen \in Assigned
    PROVE  chosen \in Seq(RuleSetIds)
<1>1. IsFiniteSet(Active)
  BY AssignmentsAreFinite, FS_Subset DEF Active
<1>2. Cardinality(Active) \in Nat
  BY <1>1, FS_CardinalityType
<1>3. PICK s \in InDisplayOrder : chosen = [i \in DOMAIN s |-> assignment[s[i]].ruleSet]
  BY DEF Assigned
<1>4. s \in [1..Cardinality(Active) -> Active]
  BY <1>3 DEF InDisplayOrder
<1>5. \A a \in Active : assignment[a].ruleSet \in RuleSetIds
  BY DEF Active, RowsFit, Assignment
<1>6. chosen \in [1..Cardinality(Active) -> RuleSetIds]
  BY <1>3, <1>4, <1>5
<1> QED BY <1>2, <1>6

LEMMA EvaluationStands ==
    ASSUME Inv, NEW p \in Requests, request[p].pc = "saving"
    PROVE  Evaluation(p) \in EvaluationRow /\ Reproducible(Evaluation(p))
<1> USE TypeOKIsFit DEF Inv
<1>1. Fit(request[p]) /\ Stands(request[p])
  OBVIOUS
<1>2. Evaluation(p) \in EvaluationRow
  BY <1>1 DEF Fit, RuleSet, Evaluation, EvaluationRow
<1> QED BY <1>1, <1>2 DEF Stands, Evaluation, Reproducible

LEMMA ReadPreserves ==
    ASSUME Inv, NEW p \in Requests, ReadRuleSet(p)
    PROVE  Inv'
<1> USE TypeOKIsFit DEF Inv
<1> DEFINE r == Head(request[p].todo)
           passed == [request[p] EXCEPT !.todo = Tail(@)]
           read == [request[p] EXCEPT !.pc = "saving", !.id = r, !.row = ruleSet[r],
                                      !.todo = Tail(@)]
<1>1. Fit(request[p]) /\ Stands(request[p]) /\ request[p].pc = "reading"
  BY DEF ReadRuleSet
<1>2. request[p].todo \in Seq(RuleSetIds) /\ request[p].todo # <<>>
  BY <1>1 DEF Fit, Requestor, ReadRuleSet
<1>3. r \in RuleSetIds /\ Tail(request[p].todo) \in Seq(RuleSetIds)
  BY <1>2
<1>4. CASE GoTo(p, passed)
  <2>1. Fit(passed)
    BY <1>1, <1>3 DEF Fit, Requestor
  <2>2. Stands(passed)
    BY <1>1 DEF Stands, Fit, Requestor
  <2> QED BY <1>4, <2>1, <2>2, RequestGoesOn DEF GoTo, ReadRuleSet
<1>5. CASE MayEvaluate(r) /\ GoTo(p, read)
  <2>1. ruleSet[r] \in RuleSet
    BY <1>3, <1>5 DEF RowsFit, MayEvaluate, Is, Exists
  <2>2. Fit(read)
    BY <1>1, <1>3, <2>1 DEF Fit, Requestor
  <2>3. Stands(read)
    BY <1>1, <1>5 DEF Stands, Fit, Requestor, MayEvaluate, Final
  <2> QED BY <1>5, <2>2, <2>3, RequestGoesOn DEF GoTo, ReadRuleSet
<1> QED BY <1>4, <1>5 DEF ReadRuleSet

LEMMA SavePreserves ==
    ASSUME Inv, NEW p \in Requests, SaveEvaluation(p)
    PROVE  Inv'
<1> USE TypeOKIsFit DEF Inv
<1> DEFINE r == [request[p] EXCEPT !.pc = "reading"]
<1>1. Fit(request[p]) /\ Fit(r) /\ r.pc = "reading" /\ r.saved = request[p].saved
  BY DEF SaveEvaluation, Fit, Requestor
<1>2. Evaluation(p) \in EvaluationRow /\ Reproducible(Evaluation(p))
  BY EvaluationStands DEF SaveEvaluation
<1>3. request' = [request EXCEPT ![p] = r] /\ evaluation' = evaluation \cup {Evaluation(p)}
      /\ UNCHANGED <<ruleSet, assignment>>
  BY DEF SaveEvaluation, GoTo
<1>4. RowsFit' /\ Frozen
  BY <1>2, <1>3 DEF RowsFit, Exists, Frozen
<1>5. request' \in [Requests -> Requestor] /\ \A q \in Requests : Fit(request'[q])
  BY <1>1, <1>3 DEF Fit
<1>6. \A e : Reproducible(e) => Reproducible(e)'
  BY <1>3 DEF Reproducible, Final, Is, Exists
<1>7. ASSUME NEW q \in Requests PROVE Stands(request[q])'
  <2>1. CASE q = p
    <3>1. request'[q].pc = "reading" /\ \A e \in request'[q].saved : Reproducible(e)
      BY <1>1, <1>3, <2>1 DEF Stands
    <3> QED BY <3>1, <1>6 DEF Stands
  <2>2. CASE q # p
    BY <1>3, <1>4, <2>2, RequestKnows
  <2> QED BY <2>1, <2>2
<1>8. \A e \in evaluation' : e \in evaluation \/ Reproducible(e)'
  BY <1>2, <1>3, <1>6
<1> QED BY <1>4, <1>5, <1>7, <1>8, StepKeeps

LEMMA SaveInTxPreserves ==
    ASSUME Inv, NEW p \in Requests, SaveEvaluationInTx(p)
    PROVE  Inv'
<1> USE TypeOKIsFit DEF Inv
<1> DEFINE r == [request[p] EXCEPT !.pc = "reading", !.saved = @ \cup {Evaluation(p)}]
<1>1. Evaluation(p) \in EvaluationRow /\ Reproducible(Evaluation(p))
  BY EvaluationStands DEF SaveEvaluationInTx
<1>2. Fit(request[p]) /\ Stands(request[p]) /\ request[p].pc = "saving"
  BY DEF SaveEvaluationInTx
<1>3. Fit(r)
  BY <1>1, <1>2 DEF Fit, Requestor
<1>4. Stands(r)
  BY <1>1, <1>2 DEF Stands, Fit, Requestor
<1> QED BY <1>3, <1>4, RequestGoesOn DEF SaveEvaluationInTx, GoTo

LEMMA CommitPreserves ==
    ASSUME Inv, NEW p \in Requests, CommitEvaluations(p)
    PROVE  Inv'
<1> USE TypeOKIsFit, IdleFits DEF Inv
<1>1. Fit(request[p]) /\ Stands(request[p])
  OBVIOUS
<1>2. evaluation' = evaluation \cup request[p].saved /\ Done(p)
      /\ UNCHANGED <<ruleSet, assignment>>
  BY DEF CommitEvaluations
<1>3. RowsFit' /\ Frozen
  BY <1>1, <1>2 DEF RowsFit, Exists, Frozen, Fit, Requestor
<1>4. request' \in [Requests -> Requestor] /\ \A q \in Requests : Fit(request'[q])
  BY <1>2 DEF Fit, Done
<1>5. ASSUME NEW q \in Requests PROVE Stands(request[q])'
  <2>1. CASE q = p
    BY <1>2, <2>1 DEF Done, Stands, Idle
  <2>2. CASE q # p
    BY <1>2, <1>3, <2>2, RequestKnows DEF Done
  <2> QED BY <2>1, <2>2
<1>6. \A e \in evaluation' : e \in evaluation \/ Reproducible(e)'
  BY <1>1, <1>2 DEF Stands, Reproducible, Final, Is, Exists
<1> QED BY <1>3, <1>4, <1>5, <1>6, StepKeeps

-----------------------------------------------------------------------------
(* The steps of one request.                                               *)

LEMMA BeginPreserves ==
    ASSUME Inv, UNCHANGED rows, NEW p \in Requests, NEW r, Begin(p, r),
           Fit(r), r.pc # "saving", r.saved = {}
    PROVE  Inv'
<1>1. Stands(r)
  BY DEF Stands
<1> QED BY <1>1, RequestGoesOn DEF Begin

LEMMA CreateStepPreserves ==
    ASSUME Inv, NEW p \in Requests, Create(p)
    PROVE  Inv'
<1> USE TypeOKIsFit DEF Inv
<1>1. ASSUME NEW case \in Cases \cup {Nil}, NEW content \in Contents,
             StartCreate(p, case, content)
      PROVE  Inv'
  BY <1>1, FirstVersionIsRuleSet, CreationFits, BeginPreserves DEF StartCreate
<1>2. ASSUME NEW r \in RuleSetIds, CreateRuleSet(p, r) PROVE Inv'
  BY <1>2, CreateWrites, RequestWrites DEF CreateRuleSet
<1> QED BY <1>1, <1>2 DEF Create

LEMMA ManagePreserves ==
    ASSUME Inv, NEW p \in Requests, Manage(p)
    PROVE  Inv'
<1> USE TypeOKIsFit DEF Inv
<1>1. ASSUME NEW r \in RuleSetIds, StartCreateVersion(p, r) PROVE Inv'
  <2>1. ruleSet[r] \in RuleSet /\ ruleSet[r].version < MaxVersion
    BY <1>1 DEF StartCreateVersion, RowsFit, Exists
  <2> QED BY <1>1, <2>1, NextVersionIsRuleSet, CreationFits, BeginPreserves DEF StartCreateVersion
<1>2. ASSUME NEW r \in RuleSetIds, StartPublish(p, r) \/ StartArchive(p, r) PROVE Inv'
  BY <1>2, StatusChangeFits, BeginPreserves DEF StartPublish, StartArchive
<1>3. ASSUME NEW r \in RuleSetIds, DeleteRuleSet(p, r) PROVE Inv'
  BY <1>3, DeleteWrites, RequestWrites DEF DeleteRuleSet
<1>4. ASSUME NEW r \in RuleSetIds, NEW c \in Contents, UpdateRuleSet(p, r, c) PROVE Inv'
  BY <1>4, UpdateWrites, RequestWrites DEF UpdateRuleSet
<1>5. CASE PublishRuleSet(p)
  <2>1. request[p].id \in RuleSetIds
    BY <1>5 DEF PublishRuleSet, Fit
  <2>2. RowsFit' /\ Frozen
    BY <1>5, <2>1, StatusWrites DEF PublishRuleSet, Status
  <2> QED BY <1>5, <2>2, RequestWrites DEF PublishRuleSet
<1>6. CASE ArchiveRuleSet(p)
  <2>1. request[p].id \in RuleSetIds
    BY <1>6 DEF ArchiveRuleSet, Fit
  <2>2. RowsFit' /\ Frozen
    BY <1>6, <2>1, StatusWrites DEF ArchiveRuleSet, Status
  <2> QED BY <1>6, <2>2, RequestWrites DEF ArchiveRuleSet
<1> QED BY <1>1, <1>2, <1>3, <1>4, <1>5, <1>6 DEF Manage

LEMMA AssignPreserves ==
    ASSUME Inv, NEW p \in Requests, Assign(p)
    PROVE  Inv'
<1> USE TypeOKIsFit DEF Inv
<1>1. ASSUME NEW a \in Assignments, NEW row \in Assignment,
             NEW pc \in {"assigning", "reassigning"}, UNCHANGED rows,
             Begin(p, [Idle EXCEPT !.pc = pc, !.id = a, !.assigned = row])
      PROVE  Inv'
  BY <1>1, AssigningFits, BeginPreserves
<1>2. ASSUME NEW a \in Assignments, NEW row \in Assignment, StartCreateAssignment(p, a, row)
      PROVE  Inv'
  BY <1>1, <1>2 DEF StartCreateAssignment
<1>3. ASSUME NEW a \in Assignments, assignment[a] # Nil, NEW row \in Changed(a),
             StartUpdateAssignment(p, a, row)
      PROVE  Inv'
  <2>1. assignment[a] \in Assignment
    BY <1>3 DEF RowsFit
  <2>2. row \in Assignment
    BY <2>1 DEF Changed, Assignment
  <2> QED BY <1>1, <1>3, <2>2 DEF StartUpdateAssignment
<1>4. ASSUME NEW a \in Assignments, DeleteRuleAssignment(p, a) PROVE Inv'
  BY <1>4, DeleteAssignmentWrites, RequestWrites DEF DeleteRuleAssignment
<1>5. ASSUME request[p].pc \in {"assigning", "reassigning"}, WriteAssignment(p) PROVE Inv'
  BY <1>5, AssignmentWrites, RequestWrites DEF WriteAssignment
<1>6. CASE CreateRuleAssignment(p)
  BY <1>5, <1>6 DEF CreateRuleAssignment
<1>7. CASE UpdateRuleAssignment(p)
  BY <1>5, <1>7, IdleFits, RequestGoesOn DEF UpdateRuleAssignment, Done
<1> QED BY <1>2, <1>3, <1>4, <1>6, <1>7 DEF Assign

LEMMA EvaluatePreserves ==
    ASSUME Inv, NEW p \in Requests, EvaluateRules(p)
    PROVE  Inv'
<1> USE TypeOKIsFit DEF Inv
<1>1. ASSUME NEW frozen \in Snapshots, NEW chosen \in Seq(RuleSetIds),
             NEW event \in {"", "workflow_transition"}, NEW tx \in BOOLEAN, UNCHANGED rows,
             Begin(p, [Idle EXCEPT !.pc = "reading", !.todo = chosen, !.facts = frozen,
                                   !.event = event, !.tx = tx])
      PROVE  Inv'
  BY <1>1, EvaluatingFits, BeginPreserves
<1>2. ASSUME NEW frozen \in Snapshots, NEW r \in RuleSetIds, StartEvaluate(p, r, frozen)
      PROVE  Inv'
  BY <1>2, EvaluatingOneFits, BeginPreserves DEF StartEvaluate
<1>3. ASSUME NEW frozen \in Snapshots, NEW tx \in BOOLEAN, EvaluateCaseRules(p, frozen, tx)
      PROVE  Inv'
  <2>1. PICK chosen \in Assigned :
           Begin(p, [Idle EXCEPT !.pc = "reading", !.todo = chosen, !.facts = frozen,
                                 !.event = IF tx THEN "workflow_transition" ELSE "",
                                 !.tx = tx])
    BY <1>3 DEF EvaluateCaseRules
  <2>2. chosen \in Seq(RuleSetIds)
    BY AssignedAreRuleSets
  <2>3. UNCHANGED rows
    BY <1>3 DEF EvaluateCaseRules
  <2>4. (IF tx THEN "workflow_transition" ELSE "") \in {"", "workflow_transition"}
    OBVIOUS
  <2> QED BY <1>1, <2>1, <2>2, <2>3, <2>4
<1> QED BY <1>2, <1>3, ReadPreserves, SavePreserves, SaveInTxPreserves, CommitPreserves
        DEF EvaluateRules

LEMMA FailPreserves ==
    ASSUME Inv, NEW p \in Requests, Fail(p)
    PROVE  Inv'
BY IdleFits, RequestGoesOn DEF Fail, Done

LEMMA StutterPreserves == Inv /\ UNCHANGED vars => Inv'
BY DEF vars, Inv, TypeOK, EvaluationsAreReproducible, Stands, Reproducible, Final, Is, Exists

-----------------------------------------------------------------------------
(* The theorems.                                                           *)

(* Inv holds in every reachable state: what a request has read of a rule   *)
(* set it evaluates stands until it stores the result (EvaluateRuleSet,    *)
(* EvaluateCaseRules).                                                     *)
THEOREM Invariance == Spec => []Inv
<1>1. Init => Inv
  <2> SUFFICES ASSUME Init PROVE Inv
    OBVIOUS
  <2>1. RowsFit /\ request \in [Requests -> Requestor] /\ \A p \in Requests : Fit(request[p])
    BY IdleFits DEF Init, RowsFit, Fit
  <2>2. \A p \in Requests : Stands(request[p])
    BY IdleFits DEF Init
  <2> QED BY <2>1, <2>2, TypeOKIsFit DEF Inv, Init, EvaluationsAreReproducible
<1>2. Inv /\ [Next]_vars => Inv'
  BY CreateStepPreserves, ManagePreserves, AssignPreserves, EvaluatePreserves, FailPreserves,
     StutterPreserves
  DEF Next
<1> QED BY <1>1, <1>2, PTL DEF Spec

(* Every row and every variable of a request keeps its type, and no        *)
(* assignment outlives its rule set (DeleteRuleSet).                       *)
THEOREM TypeCorrect == Spec => []TypeOK
<1>1. Inv => TypeOK
  BY DEF Inv
<1> QED BY <1>1, Invariance, PTL

(* Every stored evaluation can be made again from what it names            *)
(* (SaveEvaluation, UpdateStatus).                                         *)
THEOREM Reproduced == Spec => []EvaluationsAreReproducible
<1>1. Inv => EvaluationsAreReproducible
  BY DEF Inv
<1> QED BY <1>1, Invariance, PTL

(* Published rule sets are only archived, archived ones left alone: an     *)
(* edit, a deletion and a change of status find the row as they must under *)
(* its lock (UpdateStatus, UpdateRuleSet, DeleteRuleSet).                  *)
LEMMA NextFreezes ==
    ASSUME Inv, [Next]_vars
    PROVE  Frozen
<1> USE TypeOKIsFit DEF Inv
<1>1. CASE UNCHANGED ruleSet
  BY <1>1 DEF Frozen
<1>2. ASSUME NEW p \in Requests, Create(p) PROVE Frozen
  BY <1>1, <1>2, CreateWrites DEF Create, StartCreate, rows
<1>3. ASSUME NEW p \in Requests, Manage(p) PROVE Frozen
  <2>1. request[p].pc \in {"publishing", "archiving"} => request[p].id \in RuleSetIds
    BY DEF Fit
  <2>2. PublishRuleSet(p) => Frozen
    BY <2>1, StatusWrites DEF PublishRuleSet, Status
  <2>3. ArchiveRuleSet(p) => Frozen
    BY <2>1, StatusWrites DEF ArchiveRuleSet, Status
  <2>4. \A r \in RuleSetIds : DeleteRuleSet(p, r) => Frozen
    BY DeleteWrites
  <2>5. \A r \in RuleSetIds, c \in Contents : UpdateRuleSet(p, r, c) => Frozen
    BY UpdateWrites
  <2> QED BY <1>1, <1>3, <2>2, <2>3, <2>4, <2>5
          DEF Manage, StartCreateVersion, StartPublish, StartArchive, rows
<1>4. ASSUME NEW p \in Requests, Assign(p) PROVE Frozen
  BY <1>1, <1>4 DEF Assign, StartCreateAssignment, StartUpdateAssignment, DeleteRuleAssignment,
     CreateRuleAssignment, UpdateRuleAssignment, WriteAssignment, rows
<1>5. ASSUME NEW p \in Requests, EvaluateRules(p) PROVE Frozen
  BY <1>1, <1>5 DEF EvaluateRules, StartEvaluate, EvaluateCaseRules, ReadRuleSet,
     SaveEvaluation, SaveEvaluationInTx, CommitEvaluations, rows
<1>6. ASSUME NEW p \in Requests, Fail(p) PROVE Frozen
  BY <1>1, <1>6 DEF Fail, rows
<1> QED BY <1>1, <1>2, <1>3, <1>4, <1>5, <1>6 DEF Next, vars

(* What was published can no longer be edited or deleted.                  *)
THEOREM FrozenForGood == Spec => FrozenOncePublished
<1>1. Inv /\ [Next]_vars =>
        [\A r \in RuleSetIds :
            /\ Is(r, "ARCHIVED") => ruleSet'[r] = ruleSet[r]
            /\ Is(r, "PUBLISHED") =>
                  ruleSet'[r] \in {ruleSet[r], [ruleSet[r] EXCEPT !.status = "ARCHIVED"]}]_vars
  BY NextFreezes DEF Frozen
<1> QED BY <1>1, Invariance, PTL DEF Spec, FrozenOncePublished

-----------------------------------------------------------------------------
(* Induction and recursion over conditions.                                *)

LEMMA LeastNumber ==
    ASSUME NEW T, T \subseteq Nat, T # {}
    PROVE  \E n \in T : \A m \in T : n <= m
<1> DEFINE R == {ss \in Nat \X Nat : ss[1] < ss[2]}
<1>1. IsWellFoundedOn(R, Nat)
  BY NatLessThanWellFounded DEF OpToRel
<1>2. \A m, n \in Nat : m < n => <<m, n>> \in R
  OBVIOUS
<1> HIDE DEF R
<1>3. PICK n \in T : \A m \in T : ~(<<m, n>> \in R)
  BY <1>1, WFMin
<1>4. ASSUME NEW m \in T PROVE n <= m
  <2>1. m \in Nat /\ n \in Nat /\ ~(m < n)
    BY <1>2, <1>3
  <2> QED BY <2>1
<1> QED BY <1>4

LEMMA NestingIsANumber == \A c \in Conditions : Nesting(c) \in Nat
BY ConditionsAreTrees

(* A set that has every condition whose parts it has, has all of them.     *)
Inductive(P) ==
    \A c \in Conditions :
        (\A d \in Conditions : Nesting(d) < Nesting(c) => d \in P) => c \in P

LEMMA TreeInduction ==
    ASSUME NEW P, Inductive(P)
    PROVE  Conditions \subseteq P
<1> SUFFICES ASSUME NEW b \in Conditions \ P PROVE FALSE
  OBVIOUS
<1> DEFINE T == {Nesting(c) : c \in Conditions \ P}
<1>1. T \subseteq Nat /\ T # {}
  BY NestingIsANumber
<1>2. PICK n \in T : \A m \in T : n <= m
  <2> HIDE DEF T
  <2> QED BY <1>1, LeastNumber
<1>3. PICK c \in Conditions \ P : n = Nesting(c)
  BY <1>2
<1>4. ASSUME NEW d \in Conditions, Nesting(d) < Nesting(c) PROVE d \in P
  <2>1. Nesting(d) \notin T
    <3>1. n \in Nat /\ Nesting(d) \in Nat /\ Nesting(d) < n
      BY <1>3, <1>4, NestingIsANumber
    <3> HIDE DEF T
    <3> QED BY <1>2, <3>1
  <2> QED BY <2>1
<1> QED BY <1>3, <1>4 DEF Inductive

(* A step that tells what a function says of a condition from what it says *)
(* of the conditions below it.                                             *)
Descends(S, step) ==
    /\ step \in [[Conditions -> S] -> [Conditions -> S]]
    /\ \A f, g \in [Conditions -> S], c \in Conditions :
          (\A d \in Conditions : Nesting(d) < Nesting(c) => f[d] = g[d])
              => step[f][c] = step[g][c]

HasTreeFunction(S, step) == \E f \in [Conditions -> S] : f = step[f]

LEMMA TreeFunctionExists ==
    ASSUME NEW S, S # {}, NEW step, Descends(S, step)
    PROVE  HasTreeFunction(S, step)
<1> DEFINE F == [Conditions -> S]
           Good(f, n) == \A c \in Conditions : Nesting(c) < n => f[c] = step[f][c]
           T == {n \in Nat : ~ \E f \in F : Good(f, n)}
<1>1. step \in [F -> F]
  BY DEF Descends
<1>2. \A n \in Nat : \E f \in F : Good(f, n)
  <2> SUFFICES ASSUME T # {} PROVE FALSE
    OBVIOUS
  <2>1. PICK n \in T : \A m \in T : n <= m
    <3>1. T \subseteq Nat
      OBVIOUS
    <3> HIDE DEF T
    <3> QED BY <3>1, LeastNumber
  <2>2. n # 0
    <3>1. PICK s \in S : TRUE
      OBVIOUS
    <3> DEFINE f0 == [c \in Conditions |-> s]
    <3>2. f0 \in F
      OBVIOUS
    <3>3. Good(f0, 0)
      BY NestingIsANumber
    <3> HIDE DEF f0, F, Good
    <3> QED BY <2>1, <3>2, <3>3
  <2>3. n - 1 \in Nat /\ ~(n <= n - 1) /\ n \in Nat
    BY <2>1, <2>2
  <2>4. PICK f \in F : Good(f, n - 1)
    BY <2>1, <2>3
  <2>5. PICK h : h = step[f]
    OBVIOUS
  <2>6. h \in F
    BY <1>1, <2>4, <2>5
  <2>7. ASSUME NEW c \in Conditions, Nesting(c) < n PROVE h[c] = step[h][c]
    <3>1. ASSUME NEW d \in Conditions, Nesting(d) < Nesting(c) PROVE f[d] = h[d]
      <4>1. Nesting(d) < n - 1
        BY <2>3, <2>7, <3>1, NestingIsANumber
      <4> QED BY <2>4, <2>5, <4>1
    <3>2. step[f][c] = step[h][c]
      BY <2>4, <2>6, <3>1 DEF Descends
    <3> QED BY <2>5, <3>2
  <2>8. Good(h, n)
    BY <2>7
  <2> QED BY <2>1, <2>6, <2>8
<1>3. ASSUME NEW m \in Nat, NEW n \in Nat, m <= n,
             NEW f \in F, NEW g \in F, Good(f, m), Good(g, n),
             NEW c \in Conditions, Nesting(c) < m
      PROVE  f[c] = g[c]
  <2> DEFINE P == {d \in Conditions : Nesting(d) < m => f[d] = g[d]}
  <2>1. ASSUME NEW d \in Conditions,
               \A e \in Conditions : Nesting(e) < Nesting(d) => e \in P
        PROVE  d \in P
    <3> SUFFICES ASSUME Nesting(d) < m PROVE f[d] = g[d]
      OBVIOUS
    <3>1. Nesting(d) < n
      BY <1>3, NestingIsANumber
    <3>2. \A e \in Conditions : Nesting(e) < Nesting(d) => f[e] = g[e]
      BY <2>1, NestingIsANumber
    <3>3. step[f][d] = step[g][d]
      BY <3>2 DEF Descends
    <3> QED BY <1>3, <3>1, <3>3
  <2>2. Conditions \subseteq P
    <3> HIDE DEF P
    <3> QED BY <2>1, TreeInduction DEF Inductive
  <2> QED BY <1>3, <2>2
<1> DEFINE At(c) == CHOOSE f \in F : Good(f, Nesting(c) + 1)
           h == [c \in Conditions |-> At(c)[c]]
<1>4. ASSUME NEW c \in Conditions PROVE At(c) \in F /\ Good(At(c), Nesting(c) + 1)
  <2>1. \E f \in F : Good(f, Nesting(c) + 1)
    BY <1>2, NestingIsANumber
  <2> HIDE DEF F, Good
  <2> QED BY <2>1
<1>5. h \in F
  <2> HIDE DEF At
  <2> QED BY <1>4
<1>6. ASSUME NEW c \in Conditions PROVE h[c] = step[h][c]
  <2>1. PICK f : f = At(c)
    OBVIOUS
  <2>2. f \in F /\ Good(f, Nesting(c) + 1)
    BY <1>4, <2>1
  <2>3. ASSUME NEW d \in Conditions, Nesting(d) < Nesting(c) PROVE h[d] = f[d]
    <3>1. PICK g : g = At(d)
      OBVIOUS
    <3>2. g \in F /\ Good(g, Nesting(d) + 1)
      BY <1>4, <3>1
    <3>3. /\ Nesting(d) + 1 \in Nat /\ Nesting(c) + 1 \in Nat
          /\ Nesting(d) + 1 <= Nesting(c) + 1 /\ Nesting(d) < Nesting(d) + 1
      BY <2>3, NestingIsANumber
    <3>4. g[d] = f[d]
      <4> HIDE DEF Good, F
      <4> QED BY <1>3, <2>2, <3>2, <3>3
    <3>5. h[d] = g[d]
      BY <3>1
    <3> QED BY <3>4, <3>5
  <2>4. step[h][c] = step[f][c]
    <3> HIDE DEF h
    <3> QED BY <1>5, <2>2, <2>3 DEF Descends
  <2>5. f[c] = step[f][c]
    BY <2>2, NestingIsANumber
  <2>6. h[c] = f[c]
    BY <2>1
  <2> QED BY <2>4, <2>5, <2>6
<1>7. h = step[h]
  <2> HIDE DEF At
  <2>1. step[h] \in F
    <3> HIDE DEF h, F
    <3> QED BY <1>1, <1>5
  <2> HIDE DEF h
  <2> QED BY <1>5, <1>6, <2>1
<1> HIDE DEF h
<1> QED BY <1>5, <1>7 DEF HasTreeFunction

-----------------------------------------------------------------------------
(* What the recursive definitions say of a condition.                      *)

LEMMA LeavesAndGroups ==
    ASSUME NEW c \in Conditions
    PROVE  /\ c.kind \in {"leaf", "all", "any", "not"}
           /\ IsLeaf(c) => c.op \in Operators
           /\ IsLeaf(c) /\ c.value.type = "array" => c.value.v \in Seq(ToSet(c.value.v))
           /\ ~IsLeaf(c) =>
                 /\ Len(c.of) \in Nat
                 /\ c.of \in Seq(Conditions)
                 /\ c.kind = "not" => 1 \in 1 .. Len(c.of)
                 /\ \A i \in 1 .. Len(c.of) :
                       c.of[i] \in Conditions /\ Nesting(c.of[i]) < Nesting(c)
<1>1. ~IsLeaf(c) => c.of \in Seq(Conditions)
  BY ConditionsAreTrees
<1>2. ~IsLeaf(c) => Len(c.of) \in Nat /\ DOMAIN c.of = 1 .. Len(c.of)
                    /\ \A i \in 1 .. Len(c.of) : c.of[i] \in Conditions
  BY <1>1
<1>3. ~IsLeaf(c) => \A i \in 1 .. Len(c.of) : Nesting(c.of[i]) < Nesting(c)
  BY <1>2, ConditionsAreTrees
<1>4. c.kind = "not" => Len(c.of) = 1
  BY ConditionsAreTrees
<1>5. /\ c.kind \in {"leaf", "all", "any", "not"}
      /\ IsLeaf(c) => c.op \in Operators
      /\ IsLeaf(c) /\ c.value.type = "array" => c.value.v \in Seq(ToSet(c.value.v))
  BY ConditionsAreTrees
<1> QED BY <1>1, <1>2, <1>3, <1>4, <1>5

LEMMA TruthIsAResult == \A b : Truth(b) \in {"TRUE", "FALSE"}
BY DEF Truth

(* A comparison is never unknown.                                          *)
LEMMA EvalLeafKnows ==
    ASSUME NEW op \in Operators, NEW a, NEW e
    PROVE  EvalLeaf(op, a, e) \in {"TRUE", "FALSE", "ERROR"}
<1>1. CompareNumeric(op, a, e) \in {"TRUE", "FALSE", "ERROR"}
  BY TruthIsAResult DEF CompareNumeric
<1>2. CompareMembership(op, a, e) \in {"TRUE", "FALSE", "ERROR"}
  BY TruthIsAResult DEF CompareMembership
<1>3. CompareBoolean(op, a, e) \in {"TRUE", "FALSE", "ERROR"}
  BY TruthIsAResult DEF CompareBoolean
<1>4. CompareTemporal(op, a, e) \in {"TRUE", "FALSE", "ERROR"}
  BY TruthIsAResult DEF CompareTemporal
<1>5. CompareEquality(op, a, e) \in {"TRUE", "FALSE", "ERROR"}
  BY TruthIsAResult DEF CompareEquality
<1>6. op \notin ExistenceOperators => CompareTyped(op, a, e) \in {"TRUE", "FALSE", "ERROR"}
  BY <1>1, <1>2, <1>3, <1>4, <1>5
     DEF CompareTyped, Operators, ExistenceOperators, NumericOperators, TemporalOperators,
         MembershipOperators, BooleanOperators, EqualityOperators
<1> QED BY <1>6, TruthIsAResult DEF EvalLeaf

LEMMA EvalFieldKnows ==
    ASSUME NEW c \in Conditions, IsLeaf(c), NEW fact
    PROVE  /\ EvalField(c, fact) \in Results
           /\ EvalField(c, fact) = "UNKNOWN" => fact = Missing
<1>1. c.op \in Operators
  BY LeavesAndGroups
<1>2. EvalLeaf(c.op, fact, c.value) \in {"TRUE", "FALSE", "ERROR"}
  BY <1>1, EvalLeafKnows
<1> QED BY <1>2 DEF EvalField, Results

LEMMA EvalGroupIsAResult == \A results, b : EvalGroup(results, b) \in Results
<1> SUFFICES ASSUME NEW results, NEW b PROVE EvalGroup(results, b) \in Results
  OBVIOUS
<1> QED BY TruthIsAResult DEF EvalGroup, Results

LEMMA InvertIsAResult == \A r \in Results : InvertResult(r) \in Results
BY DEF InvertResult, Results

(* The result of a group, of those of its children.                        *)
GroupResult(c, results) ==
    IF c.kind = "not" THEN InvertResult(results[1]) ELSE EvalGroup(results, c.kind = "all")

LEMMA GroupResultIsAResult ==
    ASSUME NEW c \in Conditions, ~IsLeaf(c), NEW results \in [1 .. Len(c.of) -> Results]
    PROVE  GroupResult(c, results) \in Results
BY LeavesAndGroups, EvalGroupIsAResult, InvertIsAResult DEF GroupResult

ChildResults(c, g) == [i \in 1 .. Len(c.of) |-> EvaluateCondition(c.of[i], g)]

LEMMA EvaluationIs ==
    ASSUME NEW g
    PROVE  \A c \in Conditions :
              /\ EvaluateCondition(c, g) \in Results
              /\ IsLeaf(c) =>
                    EvaluateCondition(c, g) = EvalField(c, ResolveFact(g, c.field))
              /\ ~IsLeaf(c) =>
                    /\ EvaluateCondition(c, g) = GroupResult(c, ChildResults(c, g))
                    /\ ChildResults(c, g) \in [1 .. Len(c.of) -> Results]
<1> DEFINE Of(f, c) ==
              IF IsLeaf(c) THEN EvalField(c, ResolveFact(g, c.field))
              ELSE GroupResult(c, [i \in 1 .. Len(c.of) |-> f[c.of[i]]])
           step == [f \in [Conditions -> Results] |-> [c \in Conditions |-> Of(f, c)]]
           value[d \in Conditions] ==
              IF IsLeaf(d) THEN EvalField(d, ResolveFact(g, d.field)) ELSE
              LET results == [i \in 1 .. Len(d.of) |-> value[d.of[i]]]
              IN  IF d.kind = "not" THEN InvertResult(results[1])
                  ELSE EvalGroup(results, d.kind = "all")
<1>1. ASSUME NEW f \in [Conditions -> Results], NEW c \in Conditions
      PROVE  Of(f, c) \in Results
  <2>1. CASE IsLeaf(c)
    BY <2>1, EvalFieldKnows
  <2>2. CASE ~IsLeaf(c)
    <3>1. [i \in 1 .. Len(c.of) |-> f[c.of[i]]] \in [1 .. Len(c.of) -> Results]
      BY <2>2, LeavesAndGroups
    <3>2. PICK results : results = [i \in 1 .. Len(c.of) |-> f[c.of[i]]]
      OBVIOUS
    <3>3. GroupResult(c, results) \in Results
      BY <2>2, <3>1, <3>2, GroupResultIsAResult
    <3> QED BY <2>2, <3>2, <3>3
  <2> QED BY <2>1, <2>2
<1>2. step \in [[Conditions -> Results] -> [Conditions -> Results]]
  <2> HIDE DEF Of
  <2> QED BY <1>1
<1>3. ASSUME NEW f \in [Conditions -> Results], NEW h \in [Conditions -> Results],
             NEW c \in Conditions,
             \A d \in Conditions : Nesting(d) < Nesting(c) => f[d] = h[d]
      PROVE  step[f][c] = step[h][c]
  <2>1. ~IsLeaf(c) => \A i \in 1 .. Len(c.of) : f[c.of[i]] = h[c.of[i]]
    BY <1>3, LeavesAndGroups
  <2>2. ~IsLeaf(c) =>
            [i \in 1 .. Len(c.of) |-> f[c.of[i]]] = [i \in 1 .. Len(c.of) |-> h[c.of[i]]]
    BY <2>1
  <2>3. Of(f, c) = Of(h, c)
    BY <2>2
  <2> HIDE DEF Of
  <2> QED BY <2>3
<1>4. Descends(Results, step)
  <2> HIDE DEF step
  <2> QED BY <1>2, <1>3 DEF Descends
<1>5. HasTreeFunction(Results, step)
  <2> HIDE DEF step
  <2>1. Results # {}
    BY DEF Results
  <2> QED BY <1>4, <2>1, TreeFunctionExists
<1>6. PICK h \in [Conditions -> Results] : h = step[h]
  <2> HIDE DEF step
  <2> QED BY <1>5 DEF HasTreeFunction
<1>7. h = [d \in Conditions |->
              IF IsLeaf(d) THEN EvalField(d, ResolveFact(g, d.field)) ELSE
              LET results == [i \in 1 .. Len(d.of) |-> h[d.of[i]]]
              IN  IF d.kind = "not" THEN InvertResult(results[1])
                  ELSE EvalGroup(results, d.kind = "all")]
  BY <1>6, Zenon DEF GroupResult
<1>8. value = [d \in Conditions |->
              IF IsLeaf(d) THEN EvalField(d, ResolveFact(g, d.field)) ELSE
              LET results == [i \in 1 .. Len(d.of) |-> value[d.of[i]]]
              IN  IF d.kind = "not" THEN InvertResult(results[1])
                  ELSE EvalGroup(results, d.kind = "all")]
  <2>1. \E f : f = [d \in Conditions |->
              IF IsLeaf(d) THEN EvalField(d, ResolveFact(g, d.field)) ELSE
              LET results == [i \in 1 .. Len(d.of) |-> f[d.of[i]]]
              IN  IF d.kind = "not" THEN InvertResult(results[1])
                  ELSE EvalGroup(results, d.kind = "all")]
    BY <1>7, Zenon
  <2> QED BY <2>1, Zenon
<1>9. \A c : EvaluateCondition(c, g) = value[c]
  BY DEF EvaluateCondition
<1> HIDE DEF value
<1>10. ASSUME NEW c \in Conditions PROVE value[c] = Of(value, c)
  BY <1>8, Zenon DEF GroupResult
<1>11. Conditions \subseteq {c \in Conditions : value[c] \in Results}
  <2> DEFINE P == {c \in Conditions : value[c] \in Results}
  <2>1. ASSUME NEW c \in Conditions,
               \A d \in Conditions : Nesting(d) < Nesting(c) => d \in P
        PROVE  c \in P
    <3>1. CASE IsLeaf(c)
      BY <1>10, <3>1, EvalFieldKnows
    <3>2. CASE ~IsLeaf(c)
      <4>1. PICK results : results = [i \in 1 .. Len(c.of) |-> value[c.of[i]]]
        OBVIOUS
      <4>2. results \in [1 .. Len(c.of) -> Results]
        BY <2>1, <3>2, <4>1, LeavesAndGroups
      <4>3. GroupResult(c, results) \in Results
        BY <3>2, <4>2, GroupResultIsAResult
      <4>4. value[c] = GroupResult(c, results)
        BY <1>10, <3>2, <4>1
      <4> QED BY <4>3, <4>4
    <3> QED BY <3>1, <3>2
  <2> HIDE DEF P
  <2>2. Conditions \subseteq P
    BY <2>1, TreeInduction DEF Inductive
  <2> QED BY <2>2 DEF P
<1> SUFFICES ASSUME NEW c \in Conditions
             PROVE  /\ EvaluateCondition(c, g) \in Results
                    /\ IsLeaf(c) =>
                          EvaluateCondition(c, g) = EvalField(c, ResolveFact(g, c.field))
                    /\ ~IsLeaf(c) =>
                          /\ EvaluateCondition(c, g) = GroupResult(c, ChildResults(c, g))
                          /\ ChildResults(c, g) \in [1 .. Len(c.of) -> Results]
  OBVIOUS
<1>12. EvaluateCondition(c, g) \in Results
  BY <1>9, <1>11
<1>13. ChildResults(c, g) = [i \in 1 .. Len(c.of) |-> value[c.of[i]]]
  BY <1>9 DEF ChildResults
<1>14. ~IsLeaf(c) => ChildResults(c, g) \in [1 .. Len(c.of) -> Results]
  BY <1>11, <1>13, LeavesAndGroups
<1>15. value[c] = IF IsLeaf(c) THEN EvalField(c, ResolveFact(g, c.field))
                  ELSE GroupResult(c, ChildResults(c, g))
  BY <1>10, <1>13
<1> QED BY <1>9, <1>12, <1>14, <1>15

LEMMA LeavesAre ==
    \A c \in Conditions :
        /\ Leaves(c) \subseteq {l \in Conditions : IsLeaf(l)}
        /\ IsLeaf(c) => Leaves(c) = {c}
        /\ ~IsLeaf(c) => Leaves(c) = UNION {Leaves(c.of[i]) : i \in 1 .. Len(c.of)}
<1> DEFINE S == SUBSET {l \in Conditions : IsLeaf(l)}
           Of(f, c) == IF IsLeaf(c) THEN {c} ELSE UNION {f[c.of[i]] : i \in 1 .. Len(c.of)}
           step == [f \in [Conditions -> S] |-> [c \in Conditions |-> Of(f, c)]]
           leaves[d \in Conditions] ==
              IF IsLeaf(d) THEN {d} ELSE UNION {leaves[d.of[i]] : i \in 1 .. Len(d.of)}
<1>1. ASSUME NEW f \in [Conditions -> S], NEW c \in Conditions PROVE Of(f, c) \in S
  <2>1. ~IsLeaf(c) => \A i \in 1 .. Len(c.of) : f[c.of[i]] \in S
    BY LeavesAndGroups
  <2> QED BY <2>1
<1>2. step \in [[Conditions -> S] -> [Conditions -> S]]
  <2> HIDE DEF Of, S
  <2> QED BY <1>1
<1>3. ASSUME NEW f \in [Conditions -> S], NEW h \in [Conditions -> S],
             NEW c \in Conditions,
             \A d \in Conditions : Nesting(d) < Nesting(c) => f[d] = h[d]
      PROVE  step[f][c] = step[h][c]
  <2>1. ~IsLeaf(c) => \A i \in 1 .. Len(c.of) : f[c.of[i]] = h[c.of[i]]
    BY <1>3, LeavesAndGroups
  <2>2. Of(f, c) = Of(h, c)
    <3>1. ~IsLeaf(c) => {f[c.of[i]] : i \in 1 .. Len(c.of)} = {h[c.of[i]] : i \in 1 .. Len(c.of)}
      BY <2>1
    <3> QED BY <3>1
  <2> HIDE DEF Of, S
  <2> QED BY <2>2
<1>4. HasTreeFunction(S, step)
  <2> HIDE DEF step
  <2>1. S # {}
    OBVIOUS
  <2> HIDE DEF S
  <2>2. Descends(S, step)
    BY <1>2, <1>3 DEF Descends
  <2> QED BY <2>1, <2>2, TreeFunctionExists
<1>5. PICK h \in [Conditions -> S] : h = step[h]
  <2> HIDE DEF step, S
  <2> QED BY <1>4 DEF HasTreeFunction
<1>6. \E f : f = [d \in Conditions |->
              IF IsLeaf(d) THEN {d} ELSE UNION {f[d.of[i]] : i \in 1 .. Len(d.of)}]
  <2>1. h = [d \in Conditions |->
              IF IsLeaf(d) THEN {d} ELSE UNION {h[d.of[i]] : i \in 1 .. Len(d.of)}]
    BY <1>5, Zenon
  <2> QED BY <2>1, Zenon
<1>7. leaves = [d \in Conditions |->
              IF IsLeaf(d) THEN {d} ELSE UNION {leaves[d.of[i]] : i \in 1 .. Len(d.of)}]
  BY <1>6, Zenon
<1>8. \A c : Leaves(c) = leaves[c]
  BY DEF Leaves
<1> HIDE DEF leaves
<1>9. \A c \in Conditions : leaves[c] = Of(leaves, c)
  BY <1>7, Zenon
<1>10. Conditions \subseteq {c \in Conditions : leaves[c] \in S}
  <2> DEFINE P == {c \in Conditions : leaves[c] \in S}
  <2>1. ASSUME NEW c \in Conditions,
               \A d \in Conditions : Nesting(d) < Nesting(c) => d \in P
        PROVE  c \in P
    <3>1. CASE IsLeaf(c)
      <4>1. leaves[c] = {c}
        BY <1>9, <3>1
      <4>2. leaves[c] \in S
        BY <3>1, <4>1
      <4> HIDE DEF S
      <4> QED BY <4>2
    <3>2. CASE ~IsLeaf(c)
      <4>1. \A i \in 1 .. Len(c.of) : leaves[c.of[i]] \in S
        BY <2>1, <3>2, LeavesAndGroups
      <4>2. leaves[c] = UNION {leaves[c.of[i]] : i \in 1 .. Len(c.of)}
        BY <1>9, <3>2
      <4>3. leaves[c] \in S
        BY <4>1, <4>2
      <4> HIDE DEF S
      <4> QED BY <4>3
    <3> QED BY <3>1, <3>2
  <2> HIDE DEF P
  <2>2. Conditions \subseteq P
    BY <2>1, TreeInduction DEF Inductive
  <2> QED BY <2>2 DEF P
<1>11. \A c \in Conditions : leaves[c] \subseteq {l \in Conditions : IsLeaf(l)}
  BY <1>10
<1>12. \A c \in Conditions :
          /\ IsLeaf(c) => leaves[c] = {c}
          /\ ~IsLeaf(c) => leaves[c] = UNION {leaves[c.of[i]] : i \in 1 .. Len(c.of)}
  BY <1>9
<1>13. ASSUME NEW c \in Conditions, ~IsLeaf(c)
       PROVE  Leaves(c) = UNION {Leaves(c.of[i]) : i \in 1 .. Len(c.of)}
  <2>1. {Leaves(c.of[i]) : i \in 1 .. Len(c.of)} = {leaves[c.of[i]] : i \in 1 .. Len(c.of)}
    BY <1>8
  <2> QED BY <1>8, <1>12, <1>13, <2>1
<1> QED BY <1>8, <1>11, <1>12, <1>13

(* Validation reaches every comparison.                                    *)
LEMMA ValidLeaves ==
    ASSUME NEW c \in Conditions, ValidCondition(c)
    PROVE  \A l \in Leaves(c) : ValidLeaf(l)
<1> DEFINE N == 0 .. MaxConditionNestingDepth
           S == SUBSET N
           Of(f, d) == {n \in N :
                          IF IsLeaf(d) THEN ValidLeaf(d)
                          ELSE d.of # <<>> /\ \A i \in 1 .. Len(d.of) : n + 1 \in f[d.of[i]]}
           step == [f \in [Conditions -> S] |-> [d \in Conditions |-> Of(f, d)]]
           depths[d \in Conditions] ==
              {n \in 0 .. MaxConditionNestingDepth :
                  IF IsLeaf(d) THEN ValidLeaf(d)
                  ELSE d.of # <<>> /\ \A i \in 1 .. Len(d.of) : n + 1 \in depths[d.of[i]]}
<1>1. \A f, d : Of(f, d) \in S
  OBVIOUS
<1>2. step \in [[Conditions -> S] -> [Conditions -> S]]
  <2> HIDE DEF Of, S
  <2> QED BY <1>1
<1>3. ASSUME NEW f \in [Conditions -> S], NEW h \in [Conditions -> S],
             NEW d \in Conditions,
             \A e \in Conditions : Nesting(e) < Nesting(d) => f[e] = h[e]
      PROVE  step[f][d] = step[h][d]
  <2>1. ~IsLeaf(d) => \A i \in 1 .. Len(d.of) : f[d.of[i]] = h[d.of[i]]
    BY <1>3, LeavesAndGroups
  <2>2. Of(f, d) = Of(h, d)
    <3> HIDE DEF N
    <3> QED BY <2>1
  <2> HIDE DEF Of, S
  <2> QED BY <2>2
<1>4. HasTreeFunction(S, step)
  <2> HIDE DEF step
  <2>1. S # {}
    OBVIOUS
  <2> HIDE DEF S
  <2>2. Descends(S, step)
    BY <1>2, <1>3 DEF Descends
  <2> QED BY <2>1, <2>2, TreeFunctionExists
<1>5. PICK h \in [Conditions -> S] : h = step[h]
  <2> HIDE DEF step, S
  <2> QED BY <1>4 DEF HasTreeFunction
<1>6. \E f : f = [d \in Conditions |->
              {n \in 0 .. MaxConditionNestingDepth :
                  IF IsLeaf(d) THEN ValidLeaf(d)
                  ELSE d.of # <<>> /\ \A i \in 1 .. Len(d.of) : n + 1 \in f[d.of[i]]}]
  <2>1. h = [d \in Conditions |->
              {n \in 0 .. MaxConditionNestingDepth :
                  IF IsLeaf(d) THEN ValidLeaf(d)
                  ELSE d.of # <<>> /\ \A i \in 1 .. Len(d.of) : n + 1 \in h[d.of[i]]}]
    BY <1>5, Zenon
  <2> QED BY <2>1, Zenon
<1>7. depths = [d \in Conditions |->
              {n \in 0 .. MaxConditionNestingDepth :
                  IF IsLeaf(d) THEN ValidLeaf(d)
                  ELSE d.of # <<>> /\ \A i \in 1 .. Len(d.of) : n + 1 \in depths[d.of[i]]}]
  BY <1>6, Zenon
<1>8. 0 \in depths[c]
  BY DEF ValidCondition
<1> HIDE DEF depths
<1>9. \A d \in Conditions : depths[d] = Of(depths, d)
  BY <1>7, Zenon
<1> DEFINE P == {d \in Conditions : depths[d] # {} => \A l \in Leaves(d) : ValidLeaf(l)}
<1>10. ASSUME NEW d \in Conditions,
              \A e \in Conditions : Nesting(e) < Nesting(d) => e \in P
       PROVE  d \in P
  <2> SUFFICES ASSUME NEW n, n \in depths[d], NEW l \in Leaves(d) PROVE ValidLeaf(l)
    OBVIOUS
  <2>1. n \in Of(depths, d)
    BY <1>9
  <2>2. CASE IsLeaf(d)
    <3>1. ValidLeaf(d)
      BY <2>1, <2>2
    <3>2. l = d
      BY <2>2, LeavesAre
    <3> QED BY <3>1, <3>2
  <2>3. CASE ~IsLeaf(d)
    <3>1. PICK i \in 1 .. Len(d.of) : l \in Leaves(d.of[i])
      BY <2>3, LeavesAre
    <3>2. d.of[i] \in Conditions /\ Nesting(d.of[i]) < Nesting(d)
      BY <2>3, LeavesAndGroups
    <3>3. n + 1 \in depths[d.of[i]]
      BY <2>1, <2>3
    <3> QED BY <1>10, <3>1, <3>2, <3>3
  <2> QED BY <2>2, <2>3
<1>11. Conditions \subseteq P
  <2> HIDE DEF P
  <2> QED BY <1>10, TreeInduction DEF Inductive
<1> QED BY <1>8, <1>11

-----------------------------------------------------------------------------
(* What is unknown, wrong, or the same.                                    *)

LEMMA UnknownLacksAFact ==
    ASSUME NEW g
    PROVE  \A c \in Conditions : EvaluateCondition(c, g) = "UNKNOWN" =>
              \E l \in Leaves(c) : ResolveFact(g, l.field) = Missing
<1> DEFINE Lacks(c) == \E l \in Leaves(c) : ResolveFact(g, l.field) = Missing
           P == {c \in Conditions : EvaluateCondition(c, g) = "UNKNOWN" => Lacks(c)}
<1>1. ASSUME NEW c \in Conditions,
             \A d \in Conditions : Nesting(d) < Nesting(c) => d \in P,
             EvaluateCondition(c, g) = "UNKNOWN"
      PROVE  Lacks(c)
  <2>1. CASE IsLeaf(c)
    <3>1. ResolveFact(g, c.field) = Missing
      BY <1>1, <2>1, EvaluationIs, EvalFieldKnows
    <3> QED BY <2>1, <3>1, LeavesAre
  <2>2. CASE ~IsLeaf(c)
    <3>1. PICK results : results = ChildResults(c, g)
      OBVIOUS
    <3>2. GroupResult(c, results) = "UNKNOWN" /\ results \in [1 .. Len(c.of) -> Results]
      BY <1>1, <2>2, <3>1, EvaluationIs
    <3>3. \E i \in 1 .. Len(c.of) : results[i] = "UNKNOWN"
      <4>1. CASE c.kind = "not"
        <5>1. InvertResult(results[1]) = "UNKNOWN" /\ 1 \in 1 .. Len(c.of)
          BY <2>2, <3>2, <4>1, LeavesAndGroups DEF GroupResult
        <5>2. results[1] = "UNKNOWN"
          BY <5>1 DEF InvertResult
        <5> QED BY <5>1, <5>2
      <4>2. CASE c.kind # "not"
        <5>1. EvalGroup(results, c.kind = "all") = "UNKNOWN"
          BY <3>2, <4>2 DEF GroupResult
        <5>2. "UNKNOWN" \in ToSet(results)
          BY <5>1, TruthIsAResult DEF EvalGroup
        <5> QED BY <3>2, <5>2 DEF ToSet
      <4> QED BY <4>1, <4>2
    <3>4. PICK i \in 1 .. Len(c.of) : results[i] = "UNKNOWN"
      BY <3>3
    <3>5. EvaluateCondition(c.of[i], g) = "UNKNOWN"
      BY <3>1, <3>4 DEF ChildResults
    <3>6. c.of[i] \in Conditions /\ Nesting(c.of[i]) < Nesting(c)
      BY <2>2, LeavesAndGroups
    <3>7. Lacks(c.of[i])
      BY <1>1, <3>5, <3>6
    <3>8. Leaves(c.of[i]) \subseteq Leaves(c)
      BY <2>2, LeavesAre
    <3> QED BY <3>7, <3>8
  <2> QED BY <2>1, <2>2
<1>2. Conditions \subseteq P
  <2>1. Inductive(P)
    BY <1>1 DEF Inductive
  <2> HIDE DEF P
  <2> QED BY <2>1, TreeInduction
<1> QED BY <1>2

(* A valid comparison with a fact of the kind it asks for is no error.     *)
LEMMA SuitedLeaf ==
    ASSUME NEW c \in Conditions, IsLeaf(c), ValidLeaf(c), NEW fact, Suits(c, fact)
    PROVE  EvalLeaf(c.op, fact, c.value) # "ERROR"
<1>1. c.op \in Operators
  BY LeavesAndGroups
<1>2. CASE c.op \in ExistenceOperators
  BY <1>2, TruthIsAResult DEF EvalLeaf
<1>3. CASE c.op \notin ExistenceOperators
  <2>1. ValidValueForOperator(c.op, c.value)
    BY <1>3 DEF ValidLeaf
  <2>2. EvalLeaf(c.op, fact, c.value) = CompareTyped(c.op, fact, c.value)
    BY <1>3 DEF EvalLeaf
  <2>3. CASE c.op \in NumericOperators
    <3>1. c.value.type = "number" /\ fact.type = "number"
      BY <2>1, <2>3
         DEF ValidValueForOperator, Suits, ExistenceOperators, NumericOperators,
             TemporalOperators, MembershipOperators, BooleanOperators, EqualityOperators
    <3>2. CompareTyped(c.op, fact, c.value) = CompareNumeric(c.op, fact, c.value)
      BY <2>3
         DEF CompareTyped, NumericOperators, TemporalOperators, MembershipOperators,
             BooleanOperators, EqualityOperators
    <3> QED BY <2>2, <3>1, <3>2, TruthIsAResult DEF CompareNumeric
  <2>4. CASE c.op \in MembershipOperators
    <3>1. /\ c.value.type = "array"
          /\ \A e \in ToSet(c.value.v) : IsScalar(e) /\ e.type = fact.type
      BY <2>1, <2>4
         DEF ValidValueForOperator, Suits, ExistenceOperators, NumericOperators,
             TemporalOperators, MembershipOperators, BooleanOperators, EqualityOperators
    <3>2. CompareTyped(c.op, fact, c.value) = CompareMembership(c.op, fact, c.value)
      BY <2>4
         DEF CompareTyped, NumericOperators, TemporalOperators, MembershipOperators,
             BooleanOperators, EqualityOperators
    <3>3. PICK v : v = c.value.v
      OBVIOUS
    <3>4. v \in Seq(ToSet(v))
      BY <3>1, <3>3, LeavesAndGroups
    <3>5. Len(v) \in Nat /\ \A i \in 1 .. Len(v) : v[i] \in ToSet(v)
      BY <3>4
    <3>6. ASSUME NEW i \in 1 .. Len(v)
          PROVE  CompareEquality("eq", fact, v[i]) # "ERROR"
      <4>1. IsScalar(v[i]) /\ v[i].type = fact.type
        BY <3>1, <3>3, <3>5
      <4>2. IsScalar(fact)
        BY <4>1 DEF IsScalar
      <4> QED BY <4>1, <4>2, TruthIsAResult DEF CompareEquality
    <3> DEFINE result == [i \in 1 .. Len(v) |-> CompareEquality("eq", fact, v[i])]
               telling == {i \in 1 .. Len(v) : result[i] # "FALSE"}
    <3>7. CompareMembership(c.op, fact, c.value) =
              IF telling = {} THEN Truth(c.op = "not_in")
              ELSE IF result[Min(telling)] = "ERROR" THEN "ERROR" ELSE Truth(c.op = "in")
      BY <3>1, <3>3 DEF CompareMembership
    <3>8. telling # {} => Min(telling) \in telling
      <4>1. telling \subseteq Nat
        BY <3>5
      <4> HIDE DEF telling
      <4> SUFFICES ASSUME telling # {} PROVE Min(telling) \in telling
        OBVIOUS
      <4>2. \E n \in telling : \A m \in telling : n <= m
        BY <4>1, LeastNumber
      <4> QED BY <4>2 DEF Min
    <3>9. telling # {} => result[Min(telling)] # "ERROR"
      BY <3>6, <3>8
    <3> HIDE DEF telling, result
    <3> QED BY <2>2, <3>2, <3>7, <3>9, TruthIsAResult
  <2>5. CASE c.op \in BooleanOperators
    <3>1. c.value.type = "boolean" /\ fact.type = "boolean"
      BY <2>1, <2>5
         DEF ValidValueForOperator, Suits, ExistenceOperators, NumericOperators,
             TemporalOperators, MembershipOperators, BooleanOperators, EqualityOperators
    <3>2. CompareTyped(c.op, fact, c.value) = CompareBoolean(c.op, fact, c.value)
      BY <2>5
         DEF CompareTyped, NumericOperators, TemporalOperators, MembershipOperators,
             BooleanOperators, EqualityOperators
    <3> QED BY <2>2, <3>1, <3>2, TruthIsAResult DEF CompareBoolean
  <2>6. CASE c.op \in TemporalOperators
    <3>1. IsTime(c.value) /\ IsTime(fact)
      BY <2>1, <2>6
         DEF ValidValueForOperator, Suits, ExistenceOperators, NumericOperators,
             TemporalOperators, MembershipOperators, BooleanOperators, EqualityOperators
    <3>2. CompareTyped(c.op, fact, c.value) = CompareTemporal(c.op, fact, c.value)
      BY <2>6
         DEF CompareTyped, NumericOperators, TemporalOperators, MembershipOperators,
             BooleanOperators, EqualityOperators
    <3> QED BY <2>2, <3>1, <3>2, TruthIsAResult DEF CompareTemporal
  <2>7. CASE c.op \in EqualityOperators
    <3>1. IsScalar(c.value) /\ fact.type = c.value.type
      BY <2>1, <2>7
         DEF ValidValueForOperator, Suits, ExistenceOperators, NumericOperators,
             TemporalOperators, MembershipOperators, BooleanOperators, EqualityOperators
    <3>2. CompareTyped(c.op, fact, c.value) = CompareEquality(c.op, fact, c.value)
      BY <2>7
         DEF CompareTyped, NumericOperators, TemporalOperators, MembershipOperators,
             BooleanOperators, EqualityOperators
    <3>3. IsScalar(fact)
      BY <3>1 DEF IsScalar
    <3> QED BY <2>2, <3>1, <3>2, <3>3, TruthIsAResult DEF CompareEquality
  <2> QED BY <1>1, <1>3, <2>3, <2>4, <2>5, <2>6, <2>7 DEF Operators
<1> QED BY <1>2, <1>3

LEMMA SuitedIsNoError ==
    ASSUME NEW g
    PROVE  \A c \in Conditions :
              (\A l \in Leaves(c) :
                  ValidLeaf(l) /\ (l.field \in DOMAIN g => Suits(l, g[l.field])))
              => EvaluateCondition(c, g) # "ERROR"
<1> DEFINE Good(l) == ValidLeaf(l) /\ (l.field \in DOMAIN g => Suits(l, g[l.field]))
           P == {c \in Conditions : (\A l \in Leaves(c) : Good(l))
                                       => EvaluateCondition(c, g) # "ERROR"}
<1>1. ASSUME NEW c \in Conditions,
             \A d \in Conditions : Nesting(d) < Nesting(c) => d \in P,
             \A l \in Leaves(c) : Good(l)
      PROVE  EvaluateCondition(c, g) # "ERROR"
  <2>1. CASE IsLeaf(c)
    <3>1. Good(c)
      BY <1>1, <2>1, LeavesAre
    <3>2. EvaluateCondition(c, g) = EvalField(c, ResolveFact(g, c.field))
      BY <2>1, EvaluationIs
    <3>3. CASE c.field \in DOMAIN g
      <4>1. EvalLeaf(c.op, g[c.field], c.value) # "ERROR"
        BY <2>1, <3>1, <3>3, SuitedLeaf
      <4> QED BY <3>2, <3>3, <4>1 DEF EvalField, ResolveFact
    <3>4. CASE c.field \notin DOMAIN g
      BY <3>2, <3>4 DEF EvalField, ResolveFact
    <3> QED BY <3>3, <3>4
  <2>2. CASE ~IsLeaf(c)
    <3>1. PICK results : results = ChildResults(c, g)
      OBVIOUS
    <3>2. EvaluateCondition(c, g) = GroupResult(c, results)
          /\ results \in [1 .. Len(c.of) -> Results]
      BY <2>2, <3>1, EvaluationIs
    <3>3. ASSUME NEW i \in 1 .. Len(c.of) PROVE results[i] # "ERROR"
      <4>1. c.of[i] \in Conditions /\ Nesting(c.of[i]) < Nesting(c)
        BY <2>2, LeavesAndGroups
      <4>2. Leaves(c.of[i]) \subseteq Leaves(c)
        BY <2>2, LeavesAre
      <4>3. EvaluateCondition(c.of[i], g) # "ERROR"
        BY <1>1, <4>1, <4>2
      <4> QED BY <3>1, <4>3 DEF ChildResults
    <3>4. CASE c.kind = "not"
      <4>1. 1 \in 1 .. Len(c.of)
        BY <2>2, <3>4, LeavesAndGroups
      <4>2. InvertResult(results[1]) # "ERROR"
        BY <3>3, <4>1 DEF InvertResult
      <4> QED BY <3>2, <3>4, <4>2 DEF GroupResult
    <3>5. CASE c.kind # "not"
      <4>1. "ERROR" \notin ToSet(results)
        BY <3>2, <3>3 DEF ToSet
      <4>2. EvalGroup(results, c.kind = "all") # "ERROR"
        BY <4>1, TruthIsAResult DEF EvalGroup
      <4> QED BY <3>2, <3>5, <4>2 DEF GroupResult
    <3> QED BY <3>4, <3>5
  <2> QED BY <2>1, <2>2
<1>2. Conditions \subseteq P
  <2>1. Inductive(P)
    BY <1>1 DEF Inductive
  <2> HIDE DEF P
  <2> QED BY <2>1, TreeInduction
<1> QED BY <1>2

LEMMA ReversedIsTheSame ==
    ASSUME NEW g, NEW c \in Conditions, c.kind \in {"all", "any"}, Reversed(c) \in Conditions
    PROVE  EvaluateCondition(Reversed(c), g) = EvaluateCondition(c, g)
<1>1. PICK r \in Conditions : r = Reversed(c)
  OBVIOUS
<1>2. /\ r.kind = c.kind /\ ~IsLeaf(r) /\ ~IsLeaf(c)
      /\ r.of = [i \in 1 .. Len(c.of) |-> c.of[Len(c.of) - i + 1]]
  BY <1>1 DEF Reversed, Group, IsLeaf, Reverse
<1>3. PICK n \in Nat : n = Len(c.of)
  BY <1>2, LeavesAndGroups
<1>4. Len(r.of) = n
  <2>1. r.of = [i \in 1 .. n |-> c.of[n - i + 1]]
    BY <1>2, <1>3
  <2> QED BY <2>1, <1>2, LeavesAndGroups
<1>5. ToSet(ChildResults(r, g)) = ToSet(ChildResults(c, g))
  <2>1. \A i \in 1 .. n : n - i + 1 \in 1 .. n /\ n - (n - i + 1) + 1 = i
    BY <1>3
  <2>2. \A i \in 1 .. n : r.of[i] = c.of[n - i + 1]
    BY <1>2, <1>3
  <2> DEFINE Value(d) == EvaluateCondition(d, g)
  <2>3. ToSet(ChildResults(r, g)) = {Value(r.of[i]) : i \in 1 .. n}
    BY <1>4 DEF ToSet, ChildResults
  <2>4. ToSet(ChildResults(c, g)) = {Value(c.of[i]) : i \in 1 .. n}
    BY <1>3 DEF ToSet, ChildResults
  <2> HIDE DEF Value
  <2>5. {Value(r.of[i]) : i \in 1 .. n} \subseteq {Value(c.of[i]) : i \in 1 .. n}
    BY <2>1, <2>2
  <2>6. ASSUME NEW i \in 1 .. n PROVE Value(c.of[i]) \in {Value(r.of[j]) : j \in 1 .. n}
    <3>1. n - i + 1 \in 1 .. n /\ r.of[n - i + 1] = c.of[i]
      BY <2>1, <2>2
    <3> QED BY <3>1
  <2> QED BY <2>3, <2>4, <2>5, <2>6
<1>6. EvaluateCondition(r, g) = EvalGroup(ChildResults(r, g), r.kind = "all")
  BY <1>2, EvaluationIs DEF GroupResult
<1>7. EvaluateCondition(c, g) = EvalGroup(ChildResults(c, g), c.kind = "all")
  BY <1>2, EvaluationIs DEF GroupResult
<1> QED BY <1>1, <1>2, <1>5, <1>6, <1>7 DEF EvalGroup

LEMMA DualIsTheOpposite ==
    ASSUME NEW g, NEW c \in Conditions, c.kind \in {"all", "any"}, Dual(c) \in Conditions
    PROVE  EvaluateCondition(Dual(c), g) = InvertResult(EvaluateCondition(c, g))
<1>1. PICK r \in Conditions : r = Dual(c)
  OBVIOUS
<1>2. /\ r.kind = IF c.kind = "all" THEN "any" ELSE "all"
      /\ ~IsLeaf(r) /\ ~IsLeaf(c)
      /\ r.of = [i \in 1 .. Len(c.of) |-> Group("not", <<c.of[i]>>)]
  BY <1>1 DEF Dual, Group, IsLeaf
<1>3. PICK n \in Nat : n = Len(c.of)
  BY <1>2, LeavesAndGroups
<1>4. Len(r.of) = n
  BY <1>2, <1>3, LeavesAndGroups
<1>5. ASSUME NEW i \in 1 .. n
      PROVE  EvaluateCondition(r.of[i], g) = InvertResult(EvaluateCondition(c.of[i], g))
  <2>1. PICK d \in Conditions : d = r.of[i]
    BY <1>2, <1>4, LeavesAndGroups
  <2>2. d.kind = "not" /\ d.of = <<c.of[i]>> /\ ~IsLeaf(d)
    BY <1>2, <1>3, <2>1 DEF Group, IsLeaf
  <2>3. EvaluateCondition(d, g) = InvertResult(ChildResults(d, g)[1])
    BY <2>2, EvaluationIs DEF GroupResult
  <2>4. ChildResults(d, g)[1] = EvaluateCondition(c.of[i], g)
    BY <2>2 DEF ChildResults
  <2> QED BY <2>1, <2>3, <2>4
<1> DEFINE R == ToSet(ChildResults(r, g))
           C == ToSet(ChildResults(c, g))
<1>6. ASSUME NEW x \in Results PROVE InvertResult(x) \in R <=> x \in C
  <2> DEFINE Value(d) == EvaluateCondition(d, g)
  <2>1. R = {Value(r.of[i]) : i \in 1 .. n}
    BY <1>4 DEF ToSet, ChildResults
  <2>2. C = {Value(c.of[i]) : i \in 1 .. n}
    BY <1>3 DEF ToSet, ChildResults
  <2>3. \A i \in 1 .. n : Value(r.of[i]) = InvertResult(Value(c.of[i]))
    BY <1>5
  <2>4. \A i \in 1 .. n : Value(c.of[i]) \in Results
    BY <1>2, <1>3, LeavesAndGroups, EvaluationIs
  <2>5. \A y \in Results : InvertResult(y) = InvertResult(x) => y = x
    BY DEF InvertResult, Results
  <2> HIDE DEF Value, R, C
  <2> QED BY <2>1, <2>2, <2>3, <2>4, <2>5
<1>7. /\ "TRUE" \in R <=> "FALSE" \in C
      /\ "FALSE" \in R <=> "TRUE" \in C
      /\ "ERROR" \in R <=> "ERROR" \in C
      /\ "UNKNOWN" \in R <=> "UNKNOWN" \in C
  <2> HIDE DEF R, C
  <2> QED BY <1>6 DEF InvertResult, Results
<1>8. EvaluateCondition(r, g) = EvalGroup(ChildResults(r, g), r.kind = "all")
  BY <1>2, EvaluationIs DEF GroupResult
<1>9. EvaluateCondition(c, g) = EvalGroup(ChildResults(c, g), c.kind = "all")
  BY <1>2, EvaluationIs DEF GroupResult
<1>10. EvalGroup(ChildResults(r, g), r.kind = "all") =
          InvertResult(EvalGroup(ChildResults(c, g), c.kind = "all"))
  <2>1. CASE c.kind = "all"
    BY <1>2, <1>7, <2>1 DEF EvalGroup, InvertResult, Truth
  <2>2. CASE c.kind = "any"
    BY <1>2, <1>7, <2>2 DEF EvalGroup, InvertResult, Truth
  <2> QED BY <2>1, <2>2
<1> QED BY <1>1, <1>8, <1>9, <1>10

-----------------------------------------------------------------------------
(* The evaluation of a rule set.                                           *)

ResultOf(i) == EvaluateCondition(program.rules[i].conditions, facts)

Tried == DOMAIN program.rules \ todo

(* What is left to try and what has been seen of the others.               *)
EngineInv ==
    /\ program \in Programs /\ ValidRuleSet(program)
    /\ todo \subseteq DOMAIN program.rules
    /\ anyError <=> \E i \in Tried : ResultOf(i) = "ERROR"
    /\ anyUnknown <=> \E i \in Tried : ResultOf(i) = "UNKNOWN"
    /\ outcome = NoOutcome => \A i \in Tried : ResultOf(i) # "TRUE"
    /\ OutcomeIsDeclared

LEMMA RulesAre ==
    ASSUME NEW rs \in Programs
    PROVE  /\ Len(rs.rules) \in Nat
           /\ DOMAIN rs.rules = 1 .. Len(rs.rules)
           /\ ToSet(rs.rules) = {rs.rules[i] : i \in 1 .. Len(rs.rules)}
           /\ \A i \in DOMAIN rs.rules :
                 rs.rules[i].priority \in Int /\ rs.rules[i].conditions \in Conditions
<1>1. PICK s : s = rs.rules
  OBVIOUS
<1>2. s \in Seq(ToSet(s))
  BY <1>1, ProgramsAreRuleSets
<1>3. Len(s) \in Nat /\ DOMAIN s = 1 .. Len(s)
  BY <1>2
<1>4. ToSet(s) = {s[i] : i \in 1 .. Len(s)}
  BY <1>3 DEF ToSet
<1>5. \A i \in DOMAIN s : s[i].priority \in Int /\ s[i].conditions \in Conditions
  BY <1>1, <1>3, <1>4, ProgramsAreRuleSets
<1> QED BY <1>1, <1>3, <1>4, <1>5

(* The first rule that is true, by priority, is what the rule set says.    *)
LEMMA FirstTrueDecides ==
    ASSUME NEW rs \in Programs, ValidRuleSet(rs), NEW g, NEW k \in DOMAIN rs.rules,
           EvaluateCondition(rs.rules[k].conditions, g) = "TRUE",
           \A j \in DOMAIN rs.rules :
              EvaluateCondition(rs.rules[j].conditions, g) = "TRUE" =>
                  rs.rules[k].priority <= rs.rules[j].priority
    PROVE  Evaluate(rs, g) = rs.rules[k].outcome
<1>1. PICK s : s = rs.rules
  OBVIOUS
<1>2. PICK n \in Nat : n = Len(s)
  BY <1>1, RulesAre
<1>3. /\ DOMAIN s = 1 .. n /\ ToSet(s) = {s[i] : i \in 1 .. n}
      /\ \A i \in 1 .. n : s[i].priority \in Int
  BY <1>1, <1>2, RulesAre
<1>4. \A i, j \in 1 .. n : s[i].priority = s[j].priority => i = j
  <2>1. IsInjective([i \in 1 .. n |-> s[i].priority])
    BY <1>1, <1>2 DEF ValidRuleSet
  <2> QED BY <2>1 DEF IsInjective
<1> DEFINE M == Matching(rs, g)
           Least(r) == \A t \in M : r.priority <= t.priority
<1>5. M = {r \in {s[i] : i \in 1 .. n} : EvaluateCondition(r.conditions, g) = "TRUE"}
  BY <1>1, <1>3 DEF Matching
<1>6. s[k] \in M /\ Least(s[k]) /\ k \in 1 .. n
  BY <1>1, <1>3, <1>5
<1>7. (CHOOSE r \in M : Least(r)) \in M /\ Least(CHOOSE r \in M : Least(r))
  <2> HIDE DEF M, Least
  <2> QED BY <1>6
<1>8. PICK r : r = CHOOSE x \in M : Least(x)
  OBVIOUS
<1>9. PICK j \in 1 .. n : r = s[j]
  BY <1>5, <1>7, <1>8
<1>10. s[j].priority = s[k].priority
  <2>1. s[j].priority <= s[k].priority /\ s[k].priority <= s[j].priority
    BY <1>6, <1>7, <1>8, <1>9
  <2> QED BY <1>3, <1>6, <2>1
<1>11. r = s[k]
  BY <1>4, <1>6, <1>9, <1>10
<1>12. Evaluate(rs, g) = (CHOOSE x \in M : Least(x)).outcome
  BY <1>6 DEF Evaluate
<1> HIDE DEF M, Least
<1> QED BY <1>1, <1>8, <1>11, <1>12

LEMMA EngineStarts == EngineInit => EngineInv
<1> SUFFICES ASSUME EngineInit PROVE EngineInv
  OBVIOUS
<1>1. Tried = {}
  BY DEF EngineInit, Tried
<1> QED BY <1>1 DEF EngineInit, EngineInv, OutcomeIsDeclared

LEMMA TryRuleKeeps ==
    ASSUME EngineInv, NEW k \in todo, TryRule(k)
    PROVE  EngineInv'
<1>1. program' = program /\ facts' = facts /\ todo' = todo \ {k}
  BY DEF TryRule
<1>2. k \in DOMAIN program.rules /\ Tried' = Tried \cup {k}
  BY <1>1 DEF Tried, EngineInv
<1>3. \A i : ResultOf(i)' = ResultOf(i)
  BY <1>1 DEF ResultOf
<1>4. PICK result : result = ResultOf(k)
  OBVIOUS
<1>5. /\ outcome' = IF result = "TRUE" THEN program.rules[k].outcome ELSE NoOutcome
      /\ anyError' = (anyError \/ result = "ERROR")
      /\ anyUnknown' = (anyUnknown \/ result = "UNKNOWN")
  BY <1>4 DEF TryRule, ResultOf
<1>6. (anyError <=> \E i \in Tried : ResultOf(i) = "ERROR")'
  BY <1>2, <1>3, <1>4, <1>5 DEF EngineInv
<1>7. (anyUnknown <=> \E i \in Tried : ResultOf(i) = "UNKNOWN")'
  BY <1>2, <1>3, <1>4, <1>5 DEF EngineInv
<1>8. outcome = NoOutcome /\ \A i \in Tried : ResultOf(i) # "TRUE"
  BY DEF TryRule, EngineInv
<1>9. CASE result = "TRUE"
  <2>1. outcome' = program.rules[k].outcome
    BY <1>5, <1>9
  <2>2. outcome' # NoOutcome
    <3>1. program.rules[k] \in ToSet(program.rules)
      BY <1>2 DEF ToSet
    <3>2. program.rules[k].outcome \in Outcomes
      BY <3>1 DEF EngineInv, ValidRuleSet
    <3> QED BY <2>1, <3>2, ProgramsAreRuleSets
  <2>3. ASSUME NEW j \in DOMAIN program.rules, ResultOf(j) = "TRUE"
        PROVE  program.rules[k].priority <= program.rules[j].priority
    <3>1. j \in todo
      BY <1>8, <2>3 DEF Tried
    <3> QED BY <3>1 DEF TryRule, NextByPriority
  <2>4. Evaluate(program, facts) = program.rules[k].outcome
    BY <1>2, <1>4, <1>9, <2>3, FirstTrueDecides DEF EngineInv, ResultOf
  <2>5. OutcomeIsDeclared'
    BY <1>1, <2>1, <2>4 DEF OutcomeIsDeclared
  <2> QED BY <1>1, <1>6, <1>7, <2>2, <2>5 DEF EngineInv
<1>10. CASE result # "TRUE"
  <2>1. outcome' = NoOutcome
    BY <1>5, <1>10
  <2>2. (\A i \in Tried : ResultOf(i) # "TRUE")'
    BY <1>2, <1>3, <1>4, <1>8, <1>10
  <2>3. OutcomeIsDeclared'
    BY <2>1 DEF OutcomeIsDeclared
  <2> QED BY <1>1, <1>6, <1>7, <2>2, <2>3 DEF EngineInv
<1> QED BY <1>9, <1>10

LEMMA ApplyDefaultKeeps ==
    ASSUME EngineInv, ApplyDefault
    PROVE  EngineInv'
<1>1. UNCHANGED <<program, facts, todo, anyError, anyUnknown>>
  BY DEF ApplyDefault
<1>2. Tried = DOMAIN program.rules
  BY DEF Tried, ApplyDefault
<1>3. \A i \in DOMAIN program.rules : ResultOf(i) # "TRUE"
  BY <1>2 DEF ApplyDefault, EngineInv
<1>4. ToSet(program.rules) = {program.rules[i] : i \in DOMAIN program.rules}
  BY RulesAre DEF EngineInv
<1> DEFINE results == {EvaluateCondition(r.conditions, facts) : r \in ToSet(program.rules)}
<1>5. Matching(program, facts) = {}
  BY <1>3, <1>4 DEF Matching, ResultOf
<1>6. \A x : x \in results <=> \E i \in DOMAIN program.rules : ResultOf(i) = x
  BY <1>4 DEF ResultOf
<1>7. (anyError <=> "ERROR" \in results) /\ (anyUnknown <=> "UNKNOWN" \in results)
  <2> HIDE DEF results
  <2> QED BY <1>2, <1>6 DEF EngineInv
<1>8. Evaluate(program, facts) =
          IF "ERROR" \in results THEN "ERROR"
          ELSE IF "UNKNOWN" \in results THEN "INFORMATION_REQUIRED" ELSE program.default
  BY <1>5 DEF Evaluate
<1>9. outcome' = IF anyError THEN "ERROR"
                 ELSE IF anyUnknown THEN "INFORMATION_REQUIRED" ELSE program.default
  BY DEF ApplyDefault
<1>10. outcome' = Evaluate(program, facts)
  <2> HIDE DEF results
  <2> QED BY <1>7, <1>8, <1>9
<1>11. OutcomeIsDeclared'
  BY <1>1, <1>10 DEF OutcomeIsDeclared
<1>12. Tried' = Tried /\ \A i : ResultOf(i)' = ResultOf(i)
  BY <1>1 DEF Tried, ResultOf
<1> QED BY <1>1, <1>2, <1>3, <1>11, <1>12 DEF EngineInv

LEMMA EngineStep == EngineInv /\ [EngineNext]_engineVars => EngineInv'
<1> SUFFICES ASSUME EngineInv, [EngineNext]_engineVars PROVE EngineInv'
  OBVIOUS
<1>1. CASE \E i \in todo : TryRule(i)
  BY <1>1, TryRuleKeeps
<1>2. CASE ApplyDefault
  BY <1>2, ApplyDefaultKeeps
<1>3. CASE UNCHANGED engineVars
  BY <1>3 DEF engineVars, EngineInv, Tried, ResultOf, OutcomeIsDeclared
<1> QED BY <1>1, <1>2, <1>3 DEF EngineNext

LEMMA MissingFactsAreNamed == EngineInv => InformationRequiredNamesFacts
<1> SUFFICES ASSUME EngineInv, anyUnknown PROVE FindMissingFacts(program, facts) # {}
  BY DEF InformationRequiredNamesFacts
<1>1. PICK i \in DOMAIN program.rules : ResultOf(i) = "UNKNOWN"
  BY DEF EngineInv, Tried
<1>2. PICK r : r = program.rules[i]
  OBVIOUS
<1>3. r \in ToSet(program.rules) /\ r.conditions \in Conditions
  BY <1>2, RulesAre DEF EngineInv
<1>4. PICK l \in Leaves(r.conditions) : ResolveFact(facts, l.field) = Missing
  BY <1>1, <1>2, <1>3, UnknownLacksAFact DEF ResultOf
<1>5. l.field \in FindMissingFacts(program, facts)
  BY <1>3, <1>4 DEF FindMissingFacts
<1> QED BY <1>5

LEMMA OrderMeansNothing == EngineInv => GroupsHaveNoOrder
<1> SUFFICES ASSUME EngineInv, NEW r \in ToSet(program.rules),
                    r.conditions.kind \in {"all", "any"}
             PROVE  /\ Reversed(r.conditions) \in Conditions =>
                          EvaluateCondition(Reversed(r.conditions), facts) =
                              EvaluateCondition(r.conditions, facts)
                    /\ Dual(r.conditions) \in Conditions =>
                          EvaluateCondition(Dual(r.conditions), facts) =
                              InvertResult(EvaluateCondition(r.conditions, facts))
  BY DEF GroupsHaveNoOrder
<1>1. PICK c : c = r.conditions
  OBVIOUS
<1>2. c \in Conditions
  BY <1>1, ProgramsAreRuleSets DEF EngineInv
<1>3. PICK g : g = facts
  OBVIOUS
<1>4. Reversed(c) \in Conditions => EvaluateCondition(Reversed(c), g) = EvaluateCondition(c, g)
  BY <1>1, <1>2, ReversedIsTheSame
<1>5. Dual(c) \in Conditions =>
          EvaluateCondition(Dual(c), g) = InvertResult(EvaluateCondition(c, g))
  BY <1>1, <1>2, DualIsTheOpposite
<1> QED BY <1>1, <1>3, <1>4, <1>5

LEMMA WellTypedIsNoError == EngineInv => ValidRuleSetsNeverErr
<1> SUFFICES ASSUME EngineInv, \A r \in ToSet(program.rules) : WellTyped(r.conditions),
                    anyError
             PROVE  FALSE
  BY DEF ValidRuleSetsNeverErr
<1>1. PICK i \in DOMAIN program.rules : ResultOf(i) = "ERROR"
  BY DEF EngineInv, Tried
<1>2. PICK r : r = program.rules[i]
  OBVIOUS
<1>3. r \in ToSet(program.rules) /\ r.conditions \in Conditions
  BY <1>2, RulesAre DEF EngineInv
<1>4. PICK c \in Conditions : c = r.conditions
  BY <1>3
<1>5. ValidCondition(c)
  BY <1>3, <1>4 DEF EngineInv, ValidRuleSet
<1>6. \A l \in Leaves(c) : ValidLeaf(l)
  BY <1>5, ValidLeaves
<1>7. PICK g : g = facts
  OBVIOUS
<1>8. \A l \in Leaves(c) : l.field \in DOMAIN g => Suits(l, g[l.field])
  BY <1>3, <1>4, <1>7 DEF WellTyped
<1>9. EvaluateCondition(c, g) # "ERROR"
  BY <1>6, <1>8, SuitedIsNoError
<1> QED BY <1>1, <1>2, <1>4, <1>7, <1>9 DEF ResultOf

(* Evaluate tries the rules one by one; the next three theorems hold of    *)
(* every rule set that validates and every facts document.                 *)
THEOREM EngineInvariance == EngineSpec => []EngineInv
BY EngineStarts, EngineStep, PTL DEF EngineSpec

(* What Evaluate returns is what the rule set says of the facts, in any    *)
(* order of its rules and of the children of its groups, and whoever is    *)
(* asked for more information is told for what.                            *)
THEOREM AnswersAreDeclared == EngineSpec => []EvaluationIsDeclarative
<1>1. EngineInv => EvaluationIsDeclarative
  BY MissingFactsAreNamed, OrderMeansNothing DEF EvaluationIsDeclarative, EngineInv
<1> QED BY <1>1, EngineInvariance, PTL

(* Over facts of the kinds its conditions compare, a rule set that passed  *)
(* ValidateRuleSet is never reported as an error.                          *)
THEOREM ValidatedMeansComparable == EngineSpec => []ValidRuleSetsNeverErr
BY WellTypedIsNoError, EngineInvariance, PTL

-----------------------------------------------------------------------------
(* Fields and their answers.                                               *)

FieldRow ==
    [type : FieldTypes, required : BOOLEAN,
     validation : {d[2] : d \in Definitions}, options : OptionLists]

(* A row is only written once it is validated, its options included if the *)
(* type is one that needs them.                                            *)
IsDefined(f) ==
    /\ f \in FieldRow
    /\ ValidateFieldValidation(f.type, f.validation)
    /\ f.type \in {"SELECT", "MULTISELECT"} => ValidateFieldOptions(f.type, f.options)

FieldsInv ==
    /\ field # Blank => IsDefined(field)
    /\ answer # Blank => /\ field # Blank /\ answer \in Answers
                         /\ ValidateFieldValue(field, answer)

LEMMA FieldsStart == FieldInit => FieldsInv
BY DEF FieldInit, FieldsInv

LEMMA AddFieldKeeps ==
    ASSUME FieldsInv, AddField
    PROVE  FieldsInv'
<1>1. PICK d \in Definitions, required \in BOOLEAN, o \in OptionLists :
          LET f == [type |-> d[1], required |-> required, validation |-> d[2],
                    options |-> o] IN
          ValidateField(f) /\ field' = f
  BY DEF AddField
<1>2. PICK f : f = [type |-> d[1], required |-> required, validation |-> d[2], options |-> o]
  OBVIOUS
<1>3. ValidateField(f) /\ field' = f
  BY <1>1, <1>2
<1>4. f \in FieldRow
  BY <1>2, FieldsAreTyped DEF FieldRow
<1>5. IsDefined(f)
  BY <1>3, <1>4 DEF IsDefined, ValidateField
<1>6. answer' = Blank
  BY DEF FieldsInv, AddField
<1> QED BY <1>3, <1>5, <1>6 DEF FieldsInv

LEMMA UpdateFieldKeeps ==
    ASSUME FieldsInv, UpdateField
    PROVE  FieldsInv'
<1>1. PICK f : f = field
  OBVIOUS
<1>2. IsDefined(f) /\ answer' = Blank
  BY <1>1 DEF FieldsInv, UpdateField
<1>3. ASSUME NEW required \in BOOLEAN, NEW d \in Definitions, d[1] = f.type,
             ValidateFieldValidation(f.type, d[2]),
             field' = [f EXCEPT !.required = required, !.validation = d[2]]
      PROVE  FieldsInv'
  <2>1. PICK g : g = [f EXCEPT !.required = required, !.validation = d[2]]
    OBVIOUS
  <2>2. /\ g \in FieldRow /\ g.type = f.type /\ g.validation = d[2] /\ g.options = f.options
    BY <1>2, <2>1 DEF IsDefined, FieldRow
  <2>3. IsDefined(g)
    BY <1>2, <1>3, <2>2 DEF IsDefined
  <2> QED BY <1>2, <1>3, <2>1, <2>3 DEF FieldsInv
<1>4. ASSUME NEW required \in BOOLEAN, NEW o \in OptionLists,
             ValidateFieldOptions(f.type, o),
             field' = [f EXCEPT !.required = required, !.options = o]
      PROVE  FieldsInv'
  <2>1. PICK g : g = [f EXCEPT !.required = required, !.options = o]
    OBVIOUS
  <2>2. /\ g \in FieldRow /\ g.type = f.type /\ g.validation = f.validation /\ g.options = o
    BY <1>2, <2>1 DEF IsDefined, FieldRow
  <2>3. IsDefined(g)
    BY <1>2, <1>4, <2>2 DEF IsDefined
  <2> QED BY <1>2, <1>4, <2>1, <2>3 DEF FieldsInv
<1> QED BY <1>1, <1>3, <1>4 DEF UpdateField

LEMMA SubmitAnswerKeeps ==
    ASSUME FieldsInv, SubmitAnswer
    PROVE  FieldsInv'
<1>1. PICK a \in Answers : ValidateFieldValue(field, a) /\ answer' = a
  BY DEF SubmitAnswer
<1>2. field' = field /\ field # Blank
  BY DEF SubmitAnswer
<1>3. PICK f : f = field
  OBVIOUS
<1>4. ValidateFieldValue(f, a) /\ IsDefined(f)
  BY <1>1, <1>2, <1>3 DEF FieldsInv
<1> QED BY <1>1, <1>2, <1>3, <1>4 DEF FieldsInv

LEMMA FieldsStep == FieldsInv /\ [FieldNext]_fieldVars => FieldsInv'
<1> SUFFICES ASSUME FieldsInv, [FieldNext]_fieldVars PROVE FieldsInv'
  OBVIOUS
<1>1. CASE UNCHANGED fieldVars
  <2>1. field' = field /\ answer' = answer
    BY <1>1 DEF fieldVars
  <2>2. PICK f, a : f = field /\ a = answer
    OBVIOUS
  <2>3. /\ f # Blank => IsDefined(f)
        /\ a # Blank => f # Blank /\ a \in Answers /\ ValidateFieldValue(f, a)
    BY <2>2 DEF FieldsInv
  <2> QED BY <2>1, <2>2, <2>3 DEF FieldsInv
<1> QED BY <1>1, AddFieldKeeps, UpdateFieldKeeps, SubmitAnswerKeeps DEF FieldNext

(* A bound is a number, or there is none.                                  *)
LEMMA BoundIs ==
    ASSUME NEW d \in Definitions, NEW key \in LengthKeys \cup ValueKeys
    PROVE  LET b == GetFloat(d[2], key) IN
           \/ b = <<>>
           \/ b # <<>> /\ b[1] \in Int /\ key \in DOMAIN d[2] /\ b = d[2][key]
<1>1. CASE key \notin DOMAIN d[2]
  BY <1>1 DEF GetFloat
<1>2. CASE key \in DOMAIN d[2]
  <2>1. PICK b : b = d[2][key]
    OBVIOUS
  <2>2. b \in Seq(Int) /\ Len(b) <= 1
    BY <1>2, <2>1, FieldsAreTyped
  <2>3. b = <<>> \/ b[1] \in Int
    BY <2>2
  <2> QED BY <1>2, <2>1, <2>3 DEF GetFloat
<1> QED BY <1>1, <1>2

(* With one spelling it makes no difference which is looked for first.     *)
LEMMA EitherOrder ==
    ASSUME NEW v, NEW key, NEW other, ~({key, other} \subseteq DOMAIN v)
    PROVE  /\ FirstOf(v, key, other) = FirstOf(v, other, key)
           /\ FirstOf(v, key, other) \in {GetFloat(v, key), GetFloat(v, other)}
           /\ key \in DOMAIN v => FirstOf(v, key, other) = v[key]
           /\ other \in DOMAIN v => FirstOf(v, key, other) = v[other]
BY DEF FirstOf, GetFloat

LEMMA FirstIs ==
    ASSUME NEW d \in Definitions, NEW key \in LengthKeys \cup ValueKeys,
           NEW other \in LengthKeys \cup ValueKeys
    PROVE  LET b == FirstOf(d[2], key, other) IN
           \/ b = <<>>
           \/ /\ b # <<>> /\ b[1] \in Int
              /\ \E k \in {key, other} \cap DOMAIN d[2] : b = d[2][k]
<1>1. PICK b : b = GetFloat(d[2], key)
  OBVIOUS
<1>2. PICK c : c = GetFloat(d[2], other)
  OBVIOUS
<1>3. \/ b = <<>>
      \/ b # <<>> /\ b[1] \in Int /\ key \in DOMAIN d[2] /\ b = d[2][key]
  BY <1>1, BoundIs
<1>4. \/ c = <<>>
      \/ c # <<>> /\ c[1] \in Int /\ other \in DOMAIN d[2] /\ c = d[2][other]
  BY <1>2, BoundIs
<1>5. FirstOf(d[2], key, other) = IF b # <<>> THEN b ELSE c
  BY <1>1, <1>2 DEF FirstOf
<1> QED BY <1>3, <1>4, <1>5

CanBeAnswered(f) == \E a \in Answers \ {Blank} : ValidateFieldValue(f, a)

(* Lengths that validation lets through leave room for one.                *)
LEMMA TextCanBeAnswered ==
    ASSUME NEW f, IsDefined(f), OneSpelling(f.validation), f.type = "TEXT"
    PROVE  CanBeAnswered(f)
<1>1. PICK d \in Definitions : f.validation = d[2]
  BY DEF IsDefined, FieldRow
<1>2. PICK v : v = d[2]
  OBVIOUS
<1>3. PICK min : min = FirstOf(v, "minLength", "min_length")
  OBVIOUS
<1>4. PICK max : max = FirstOf(v, "maxLength", "max_length")
  OBVIOUS
<1>5. \/ min = <<>>
      \/ /\ min # <<>> /\ min[1] \in Int
         /\ min[1] > 0 => MayBeAnswered("text", min[1])
  <2>1. \/ min = <<>>
        \/ /\ min # <<>> /\ min[1] \in Int
           /\ \E k \in {"minLength", "min_length"} \cap DOMAIN d[2] : min = d[2][k]
    <3>1. "minLength" \in LengthKeys \cup ValueKeys /\ "min_length" \in LengthKeys \cup ValueKeys
      BY DEF LengthKeys
    <3>2. min = FirstOf(d[2], "minLength", "min_length")
      BY <1>2, <1>3
    <3> QED BY <3>1, <3>2, FirstIs
  <2> QED BY <2>1, AnswersAreFree DEF LengthKeys
<1>6. \/ max = <<>>
      \/ /\ max # <<>> /\ max[1] \in Int
         /\ max[1] > 0 => MayBeAnswered("text", max[1])
  <2>1. \/ max = <<>>
        \/ /\ max # <<>> /\ max[1] \in Int
           /\ \E k \in {"maxLength", "max_length"} \cap DOMAIN d[2] : max = d[2][k]
    <3>1. "maxLength" \in LengthKeys \cup ValueKeys /\ "max_length" \in LengthKeys \cup ValueKeys
      BY DEF LengthKeys
    <3>2. max = FirstOf(d[2], "maxLength", "max_length")
      BY <1>2, <1>4
    <3> QED BY <3>1, <3>2, FirstIs
  <2> QED BY <2>1, AnswersAreFree DEF LengthKeys
<1>7. ~Exceeds(min, max)
  <2>1. /\ ~({"minLength", "min_length"} \subseteq DOMAIN v)
        /\ ~({"maxLength", "max_length"} \subseteq DOMAIN v)
    BY <1>1, <1>2 DEF OneSpelling
  <2>2. /\ min = FirstOf(v, "min_length", "minLength")
        /\ max = FirstOf(v, "max_length", "maxLength")
    BY <1>3, <1>4, <2>1, EitherOrder
  <2>3. ValidateLengthFieldValidation(v)
    BY <1>1, <1>2 DEF IsDefined, ValidateFieldValidation
  <2> QED BY <2>2, <2>3 DEF ValidateLengthFieldValidation
<1>8. PICK n : /\ MayBeAnswered("text", n)
               /\ min # <<>> /\ min[1] > 0 => n >= min[1]
               /\ max # <<>> /\ max[1] > 0 => n <= max[1]
  <2>1. CASE min # <<>> /\ min[1] > 0
    BY <1>5, <1>6, <1>7, <2>1 DEF Exceeds
  <2>2. CASE ~(min # <<>> /\ min[1] > 0) /\ max # <<>> /\ max[1] > 0
    BY <1>6, <2>2
  <2>3. CASE ~(min # <<>> /\ min[1] > 0) /\ ~(max # <<>> /\ max[1] > 0)
    BY <2>3, AnswersAreFree
  <2> QED BY <2>1, <2>2, <2>3
<1>9. PICK a : a = [kind |-> "text", of |-> n]
  OBVIOUS
<1>10. a \in Answers \ {Blank} /\ a.kind = "text" /\ a.of = n
  BY <1>8, <1>9 DEF MayBeAnswered
<1>11. ValidateLength(f.validation, a.of)
  BY <1>1, <1>2, <1>3, <1>4, <1>8, <1>10 DEF ValidateLength, ValidationNumber
<1>12. ValidateFieldValue(f, a)
  BY <1>10, <1>11 DEF ValidateFieldValue
<1> QED BY <1>10, <1>12 DEF CanBeAnswered

(* So do the values of a number.                                           *)
LEMMA NumberCanBeAnswered ==
    ASSUME NEW f, IsDefined(f), OneSpelling(f.validation), f.type = "NUMBER"
    PROVE  CanBeAnswered(f)
<1>1. PICK d \in Definitions : f.validation = d[2]
  BY DEF IsDefined, FieldRow
<1>2. PICK v : v = d[2]
  OBVIOUS
<1>3. PICK min : min = FirstOf(v, "minValue", "min_value")
  OBVIOUS
<1>4. PICK max : max = FirstOf(v, "maxValue", "max_value")
  OBVIOUS
<1>5. \/ min = <<>>
      \/ min # <<>> /\ min[1] \in Int /\ MayBeAnswered("number", min[1])
  <2>1. \/ min = <<>>
        \/ /\ min # <<>> /\ min[1] \in Int
           /\ \E k \in {"minValue", "min_value"} \cap DOMAIN d[2] : min = d[2][k]
    <3>1. "minValue" \in LengthKeys \cup ValueKeys /\ "min_value" \in LengthKeys \cup ValueKeys
      BY DEF ValueKeys
    <3>2. min = FirstOf(d[2], "minValue", "min_value")
      BY <1>2, <1>3
    <3> QED BY <3>1, <3>2, FirstIs
  <2> QED BY <2>1, AnswersAreFree DEF ValueKeys
<1>6. \/ max = <<>>
      \/ max # <<>> /\ max[1] \in Int /\ MayBeAnswered("number", max[1])
  <2>1. \/ max = <<>>
        \/ /\ max # <<>> /\ max[1] \in Int
           /\ \E k \in {"maxValue", "max_value"} \cap DOMAIN d[2] : max = d[2][k]
    <3>1. "maxValue" \in LengthKeys \cup ValueKeys /\ "max_value" \in LengthKeys \cup ValueKeys
      BY DEF ValueKeys
    <3>2. max = FirstOf(d[2], "maxValue", "max_value")
      BY <1>2, <1>4
    <3> QED BY <3>1, <3>2, FirstIs
  <2> QED BY <2>1, AnswersAreFree DEF ValueKeys
<1>7. ~Exceeds(min, max)
  <2>1. /\ ~({"minValue", "min_value"} \subseteq DOMAIN v)
        /\ ~({"maxValue", "max_value"} \subseteq DOMAIN v)
    BY <1>1, <1>2 DEF OneSpelling
  <2>2. /\ min = FirstOf(v, "min_value", "minValue")
        /\ max = FirstOf(v, "max_value", "maxValue")
    BY <1>3, <1>4, <2>1, EitherOrder
  <2>3. ValidateNumericFieldValidation(v)
    BY <1>1, <1>2 DEF IsDefined, ValidateFieldValidation
  <2> QED BY <2>2, <2>3 DEF ValidateNumericFieldValidation
<1>8. PICK n : /\ MayBeAnswered("number", n)
               /\ min # <<>> => n >= min[1]
               /\ max # <<>> => n <= max[1]
  <2>1. CASE min # <<>>
    BY <1>5, <1>6, <1>7, <2>1 DEF Exceeds
  <2>2. CASE min = <<>> /\ max # <<>>
    BY <1>6, <2>2
  <2>3. CASE min = <<>> /\ max = <<>>
    BY <2>3, AnswersAreFree
  <2> QED BY <2>1, <2>2, <2>3
<1>9. PICK a : a = [kind |-> "number", of |-> n]
  OBVIOUS
<1>10. a \in Answers \ {Blank} /\ a.kind = "number" /\ a.of = n
  BY <1>8, <1>9 DEF MayBeAnswered
<1>11. ValidateNumber(f.validation, a.of)
  BY <1>1, <1>2, <1>3, <1>4, <1>8, <1>10 DEF ValidateNumber, ValidationNumber
<1>12. ValidateFieldValue(f, a)
  BY <1>10, <1>11 DEF ValidateFieldValue
<1> QED BY <1>10, <1>12 DEF CanBeAnswered

LEMMA ChoiceCanBeAnswered ==
    ASSUME NEW f, IsDefined(f),
           f.type \in {"DATE", "BOOLEAN", "CHECKBOX", "SELECT", "MULTISELECT"}
    PROVE  CanBeAnswered(f)
<1>1. CASE f.type = "DATE"
  <2>1. PICK a \in Answers \ {Blank} : a.kind = "date"
    BY AnswersAreFree
  <2>2. ValidateFieldValue(f, a)
    BY <1>1, <2>1 DEF ValidateFieldValue
  <2> QED BY <2>1, <2>2 DEF CanBeAnswered
<1>2. CASE f.type \in {"BOOLEAN", "CHECKBOX"}
  <2>1. PICK a : a = [kind |-> "boolean", of |-> TRUE]
    OBVIOUS
  <2>2. a \in Answers \ {Blank} /\ a.kind = "boolean"
    BY <2>1, AnswersAreFree DEF MayBeAnswered
  <2>3. ValidateFieldValue(f, a)
    BY <1>2, <2>2 DEF ValidateFieldValue
  <2> QED BY <2>2, <2>3 DEF CanBeAnswered
<1>3. CASE f.type = "SELECT"
  <2>1. PICK o \in OptionLists : o = f.options
    BY DEF IsDefined, FieldRow
  <2>2. ValidateFieldOptions("SELECT", o)
    BY <1>3, <2>1 DEF IsDefined
  <2>3. o # <<>> /\ \A i \in DOMAIN o : o[i] # Blank
    BY <2>2 DEF ValidateFieldOptions, ChoiceTypes
  <2>4. 1 \in DOMAIN o
    BY <2>3, FieldsAreTyped
  <2>5. PICK a : a = [kind |-> "option", of |-> o[1]]
    OBVIOUS
  <2>6. a \in Answers \ {Blank} /\ a.kind = "option" /\ a.of = o[1]
    BY <2>3, <2>4, <2>5, AnswersAreFree DEF MayBeAnswered
  <2>7. ValidateFieldValue(f, a)
    BY <1>3, <2>1, <2>4, <2>6 DEF ValidateFieldValue
  <2> QED BY <2>6, <2>7 DEF CanBeAnswered
<1>4. CASE f.type = "MULTISELECT"
  <2>1. PICK a : a = [kind |-> "array", of |-> {}]
    OBVIOUS
  <2>2. a \in Answers \ {Blank} /\ a.kind = "array" /\ a.of = {}
    BY <2>1, AnswersAreFree DEF MayBeAnswered
  <2>3. ValidateFieldValue(f, a)
    BY <1>4, <2>2 DEF ValidateFieldValue
  <2> QED BY <2>2, <2>3 DEF CanBeAnswered
<1> QED BY <1>1, <1>2, <1>3, <1>4

(* An answer is within the bounds, whichever way they are spelled.         *)
LEMMA BoundsHold ==
    ASSUME NEW f, IsDefined(f), OneSpelling(f.validation),
           NEW a \in Answers \ {Blank}, ValidateFieldValue(f, a)
    PROVE  LET v == f.validation IN
           /\ f.type \in {"TEXT", "EMAIL", "PHONE"} =>
                 /\ \A key \in {"min_length", "minLength"} \cap DOMAIN v : a.of >= v[key][1]
                 /\ \A key \in {"max_length", "maxLength"} \cap DOMAIN v :
                       v[key][1] <= 0 \/ a.of <= v[key][1]
           /\ f.type = "NUMBER" =>
                 /\ \A key \in {"min_value", "minValue"} \cap DOMAIN v : a.of >= v[key][1]
                 /\ \A key \in {"max_value", "maxValue"} \cap DOMAIN v : a.of <= v[key][1]
<1>1. PICK d \in Definitions : f.validation = d[2]
  BY DEF IsDefined, FieldRow
<1>2. PICK v : v = d[2]
  OBVIOUS
<1>3. /\ ~({"minLength", "min_length"} \subseteq DOMAIN v)
      /\ ~({"maxLength", "max_length"} \subseteq DOMAIN v)
      /\ ~({"minValue", "min_value"} \subseteq DOMAIN v)
      /\ ~({"maxValue", "max_value"} \subseteq DOMAIN v)
  BY <1>1, <1>2 DEF OneSpelling
<1>4. ASSUME f.type \in {"TEXT", "EMAIL", "PHONE", "NUMBER"},
             NEW key \in (LengthKeys \cup ValueKeys) \cap DOMAIN v
      PROVE  v[key] # <<>> /\ v[key][1] \in Int
  <2>1. ValidateCommonFieldValidation(v)
    BY <1>1, <1>2, <1>4 DEF IsDefined, ValidateFieldValidation, ChoiceTypes
  <2>2. v[key] # <<>>
    BY <2>1 DEF ValidateCommonFieldValidation
  <2>3. v[key] \in Seq(Int)
    BY <1>2, FieldsAreTyped
  <2> QED BY <2>2, <2>3
<1>5. CASE f.type \in {"TEXT", "EMAIL", "PHONE"}
  <2>1. ValidateLength(v, a.of) /\ a.of \in Nat
    BY <1>1, <1>2, <1>5, FieldsAreTyped DEF ValidateFieldValue
  <2>2. ASSUME NEW key \in {"min_length", "minLength"}, key \in DOMAIN v
        PROVE  a.of >= v[key][1]
    <3>1. ValidationNumber(v, "minLength", "min_length") = v[key]
      BY <1>3, <2>2, EitherOrder DEF ValidationNumber
    <3>2. v[key] # <<>> /\ v[key][1] \in Int
      BY <1>4, <1>5, <2>2 DEF LengthKeys
    <3>3. v[key] # <<>> /\ v[key][1] > 0 => a.of >= v[key][1]
      BY <2>1, <3>1 DEF ValidateLength
    <3> QED BY <2>1, <3>2, <3>3
  <2>3. ASSUME NEW key \in {"max_length", "maxLength"}, key \in DOMAIN v
        PROVE  v[key][1] <= 0 \/ a.of <= v[key][1]
    <3>1. ValidationNumber(v, "maxLength", "max_length") = v[key]
      BY <1>3, <2>3, EitherOrder DEF ValidationNumber
    <3>2. v[key] # <<>> /\ v[key][1] \in Int
      BY <1>4, <1>5, <2>3 DEF LengthKeys
    <3>3. v[key] # <<>> /\ v[key][1] > 0 => a.of <= v[key][1]
      BY <2>1, <3>1 DEF ValidateLength
    <3> QED BY <2>1, <3>2, <3>3
  <2> QED BY <1>1, <1>2, <1>5, <2>2, <2>3
<1>6. CASE f.type = "NUMBER"
  <2>1. ValidateNumber(v, a.of) /\ a.of \in Int
    BY <1>1, <1>2, <1>6, FieldsAreTyped DEF ValidateFieldValue
  <2>2. ASSUME NEW key \in {"min_value", "minValue"}, key \in DOMAIN v
        PROVE  a.of >= v[key][1]
    <3>1. ValidationNumber(v, "minValue", "min_value") = v[key]
      BY <1>3, <2>2, EitherOrder DEF ValidationNumber
    <3>2. v[key] # <<>>
      BY <1>4, <1>6, <2>2 DEF ValueKeys
    <3> QED BY <2>1, <3>1, <3>2 DEF ValidateNumber
  <2>3. ASSUME NEW key \in {"max_value", "maxValue"}, key \in DOMAIN v
        PROVE  a.of <= v[key][1]
    <3>1. ValidationNumber(v, "maxValue", "max_value") = v[key]
      BY <1>3, <2>3, EitherOrder DEF ValidationNumber
    <3>2. v[key] # <<>>
      BY <1>4, <1>6, <2>3 DEF ValueKeys
    <3> QED BY <2>1, <3>1, <3>2 DEF ValidateNumber
  <2> QED BY <1>1, <1>2, <1>6, <2>2, <2>3
<1> QED BY <1>5, <1>6

(* A field that validation lets through, when it is added or updated, can  *)
(* be answered, and no answer outside its bounds is accepted by the code    *)
(* that reads the same constraints in the opposite order (ValidateField,    *)
(* validateFieldValue), whatever fields are defined and answers given.      *)
THEOREM FieldsAreAnsweredAsDefined == FieldSpec => []DefinedAsAnswered
<1>1. FieldsInv => DefinedAsAnswered
  <2> SUFFICES ASSUME FieldsInv PROVE DefinedAsAnswered
    OBVIOUS
  <2>1. PICK f : f = field
    OBVIOUS
  <2>2. PICK a : a = answer
    OBVIOUS
  <2>3. FieldsCanBeAnswered
    <3> SUFFICES ASSUME f # Blank, OneSpelling(f.validation), f.type \notin {"EMAIL", "PHONE"}
                 PROVE  CanBeAnswered(f)
      BY <2>1 DEF FieldsCanBeAnswered, CanBeAnswered
    <3>1. IsDefined(f) /\ f.type \in FieldTypes
      BY <2>1 DEF FieldsInv, IsDefined, FieldRow
    <3> QED BY <3>1, TextCanBeAnswered, NumberCanBeAnswered, ChoiceCanBeAnswered
            DEF FieldTypes, ChoiceTypes
  <2>4. BoundsAreEnforced
    <3> SUFFICES ASSUME answer # Blank, OneSpelling(field.validation)
                 PROVE  BoundsAreEnforced
      BY DEF BoundsAreEnforced
    <3>1. /\ IsDefined(f) /\ OneSpelling(f.validation)
          /\ a \in Answers \ {Blank} /\ ValidateFieldValue(f, a)
      BY <2>1, <2>2 DEF FieldsInv
    <3>2. LET v == f.validation IN
          /\ f.type \in {"TEXT", "EMAIL", "PHONE"} =>
                /\ \A key \in {"min_length", "minLength"} \cap DOMAIN v : a.of >= v[key][1]
                /\ \A key \in {"max_length", "maxLength"} \cap DOMAIN v :
                      v[key][1] <= 0 \/ a.of <= v[key][1]
          /\ f.type = "NUMBER" =>
                /\ \A key \in {"min_value", "minValue"} \cap DOMAIN v : a.of >= v[key][1]
                /\ \A key \in {"max_value", "maxValue"} \cap DOMAIN v : a.of <= v[key][1]
      BY <3>1, BoundsHold, Zenon
    <3> QED BY <2>1, <2>2, <3>2 DEF BoundsAreEnforced
  <2> QED BY <2>3, <2>4 DEF DefinedAsAnswered
<1> QED BY <1>1, FieldsStart, FieldsStep, PTL DEF FieldSpec
==============================================================================
