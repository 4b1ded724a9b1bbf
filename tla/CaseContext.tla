----------------------------- MODULE CaseContext -----------------------------
(***************************************************************************)
(* The context of a case: the facts about it that are collected, one       *)
(* section after another, for a reader that has a budget of facts and of   *)
(* tokens.  A fact is the section it comes from, the row it describes and  *)
(* a provenance, which says how far it may be trusted.  Every access check *)
(* asks what the first one asked, whether the actor belongs to the         *)
(* organization, so none of them leaves a fact out.                        *)
(***************************************************************************)
EXTENDS Integers, Sequences, SequencesExt

CONSTANTS
    Cost,           \* estimateTokens: the tokens of the fact about a row
    DefaultFacts,   \* the budget of a request that names none (200 facts)
    DefaultTokens   \* and no tokens (8000)

(* The sections in the order BuildContext collects them.                   *)
Sections == <<"case", "person", "evidence", "document", "form_submission",
              "rule_evaluation", "workflow", "decision", "ai_observation">>

NewFact(section, row, provenance) ==
    [section |-> section, row |-> row, provenance |-> provenance]

EmptyBuilder == [facts |-> <<>>, tokens |-> 0, full |-> FALSE, options |-> {}]

Budget(n, default) == IF n > 0 THEN n ELSE default

NewContextBuilder(o) ==
    [EmptyBuilder EXCEPT
     !.options = [o EXCEPT !.maxFacts = Budget(o.maxFacts, DefaultFacts),
                           !.maxTokens = Budget(o.maxTokens, DefaultTokens)]]

(* A fact that would exceed the budget is not added, and the error says so.*)
AddFact(b, f) ==
    IF \/ Len(b.facts) >= b.options.maxFacts
       \/ b.tokens + Cost[f.row] > b.options.maxTokens
    THEN [b EXCEPT !.full = TRUE]
    ELSE [b EXCEPT !.facts = Append(@, f), !.tokens = @ + Cost[f.row]]

(* The first fact of a section that does not fit ends the section; the     *)
(* next section starts over with what is left of the budget.               *)
AddFacts(b, facts) ==
    LET added[n \in 0 .. Len(facts)] ==
            IF n = 0 THEN [b EXCEPT !.full = FALSE]
            ELSE IF added[n - 1].full THEN added[n - 1]
            ELSE AddFact(added[n - 1], facts[n])
    IN  added[Len(facts)]

(* Only the fact about the case and the one about its person have no right *)
(* to be left out: without them there is no context.                       *)
Required == {"case", "person"}

-----------------------------------------------------------------------------
(* The facts of a section, about the rows its query returns.               *)

Mapped(rows, Fact(_)) == [i \in DOMAIN rows |-> Fact(rows[i])]

Labelled(section, rows, provenance) ==
    LET Fact(r) == NewFact(section, r, provenance) IN Mapped(rows, Fact)

CaseMetadataFacts(case) == Labelled("case", case, "SOURCE_FACT")

PersonFacts(person) == Labelled("person", person, "SOURCE_FACT")

FormSubmissionFacts(submissions) ==
    Labelled("form_submission", submissions, "FORM_SUBMISSION")

RuleEvaluationFacts(evaluations) ==
    Labelled("rule_evaluation", evaluations, "RULE_RESULT")

(* An instance that does not fit takes the history with it.                *)
WorkflowFacts(instance, history) ==
    Labelled("workflow_instance", instance, "SOURCE_FACT")
        \o Labelled("workflow_history", history, "WORKFLOW_HISTORY")

DecisionFacts(decisions) == Labelled("decision", decisions, "HUMAN_DECISION")

EvidenceProvenance(status) ==
    IF status = "VERIFIED" THEN "HUMAN_VERIFIED" ELSE "SOURCE_FACT"

(* buildEvidenceFacts: to ask for verified evidence is to leave the rest   *)
(* out.                                                                    *)
EvidenceFacts(o, items, status) ==
    LET Wanted(e) == o.onlyVerified \/ o.verifiedEvidence => status[e] = "VERIFIED"
        Of(e) == IF Wanted(e)
                 THEN <<NewFact("evidence", e, EvidenceProvenance(status[e]))>>
                 ELSE <<>>
    IN  FlattenSeq(Mapped(items, Of))

(* buildDocumentFacts: the documents of unverified evidence stay in unless *)
(* nothing unverified is wanted at all.                                    *)
DocumentFacts(o, items, status, documents) ==
    LET Wanted(e) == o.onlyVerified => status[e] = "VERIFIED"
        Of(e) == IF Wanted(e)
                 THEN Labelled("document", documents[e], EvidenceProvenance(status[e]))
                 ELSE <<>>
    IN  FlattenSeq(Mapped(items, Of))

ProvenanceByReview(status) ==
    IF status # "OPEN" THEN "HUMAN_VERIFIED" ELSE "AI_OBSERVATION"

(* A corrected observation has been read by a person too, but keeps the    *)
(* model's content and the model's label.                                  *)
ObservationProvenance(status) ==
    IF status = "ACCEPTED" THEN "HUMAN_VERIFIED" ELSE "AI_OBSERVATION"

(* buildAIObservationFacts: observations are found by their evidence, so   *)
(* those of the case as a whole are in no context.                         *)
ObservationFacts(o, items, rows) ==
    LET Wanted(x) == o.onlyHumanVerified => rows[x].status = "ACCEPTED"
        Listed(e) == {x \in DOMAIN rows : rows[x].evidence = e /\ Wanted(x)}
        Fact(x) == NewFact("ai_observation", x, ObservationProvenance(rows[x].status))
        Of(e) == Mapped(SetToSeq(Listed(e)), Fact)
    IN  FlattenSeq(Mapped(items, Of))
===============================================================================
