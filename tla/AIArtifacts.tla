----------------------------- MODULE AIArtifacts -----------------------------
(***************************************************************************)
(* What a model says about a case, and what people make of it.             *)
(*                                                                         *)
(* A provider's observations are stored open; a reviewer accepts, rejects, *)
(* corrects or dismisses one, and an accepted or corrected one becomes a   *)
(* verified fact.  A fact may also be created for any observation on its   *)
(* own.  Case contexts collect rows section by section, each read by       *)
(* itself, for a summary that is reviewed like a document's analysis.      *)
(* Every request reads through the connection pool, asks the provider with *)
(* no transaction open, and then writes in one transaction with its audit  *)
(* events; a transaction is a single step.  One case of one organization.  *)
(***************************************************************************)
EXTENDS CaseContext, FiniteSets

CONSTANTS
    Evidence,       \* the evidence of the case, in the order it is listed
    Documents,      \* the documents of each piece of evidence
    Altered,        \* documents the redaction or the size cap changes
    Rows,           \* the rows of the other sections of a context
    Observations,   \* rows of ai_observations that may be inserted
    Summaries,      \* rows of case_summaries that may be inserted
    Analyses,       \* rows of document_analyses that may be inserted
    ContextOptions, \* what a caller asks a context to hold
    SummaryOptions, \* what a summary asks of its context
    Requests,       \* concurrently running requests, each of its own actor
    MaxRequests,    \* bound on the requests that are started
    None             \* no row, no value

Items == {Evidence[i] : i \in DOMAIN Evidence}
Artifacts == Summaries \cup Analyses

(* A budget of nothing, or less, asks for the default.                     *)
Options ==
    [include : SUBSET Range(Sections), verifiedEvidence : BOOLEAN,
     onlyVerified : BOOLEAN, onlyHumanVerified : BOOLEAN,
     maxFacts : Int, maxTokens : Int]

ReviewActions == {"ACCEPTED", "REJECTED", "CORRECTED", "DISMISSED"}
ObservationStatus == {"OPEN"} \cup ReviewActions

(* valid_audit_action as the last migration leaves it, of these services.  *)
ValidAuditActions ==
    {"ai.observation.created", "ai.observation.accepted",
     "ai.observation.rejected", "ai.observation.corrected",
     "ai.observation.dismissed", "ai.verified_fact.created",
     "case_summary.generated", "document_analyses_generated",
     "document_analysis.created"}

ASSUME ResourcesAreDistinct ==
    /\ MaxRequests \in Nat
    /\ Items \cap Observations = {} /\ Items \cap Artifacts = {}
    /\ Observations \cap Artifacts = {}
    /\ None \notin Items \cup Observations \cup Artifacts

ObservationRow ==
    [evidence : Items \cup {None}, status : ObservationStatus, by : Requests \cup {None}]

FactRow ==
    [action : ReviewActions, by : Requests, corrected : BOOLEAN,
     source : {"HUMAN_ACCEPTED", "HUMAN_CORRECTION", "AI_OBSERVATION"}]

ASSUME NoneIsNoRow == None \notin ObservationRow \cup FactRow

(* A row may be in a context, and the fact about it has its tokens.        *)
ASSUME RowsHaveFacts ==
    /\ Cost \in [DOMAIN Cost -> Nat]
    /\ Evidence \in Seq(DOMAIN Cost) /\ Observations \subseteq DOMAIN Cost
    /\ Documents \in [Items -> Seq(DOMAIN Cost)]
    /\ Rows \in [DOMAIN Rows -> Seq(DOMAIN Cost)]
    /\ IsFiniteSet(Observations)

ASSUME BudgetsArePositive ==
    /\ DefaultFacts \in Nat \ {0} /\ DefaultTokens \in Nat \ {0}
    /\ ContextOptions \cup {SummaryOptions} \subseteq Options

VARIABLES
    tables,       \* tables of the schema that no migration creates
    evidence,     \* evidence: the verification status of each piece
    observation,  \* ai_observations
    fact,         \* ai_verified_facts, by their unique observation_id
    artifact,     \* case_summaries and document_analyses: status and reviewer
    context,      \* case_contexts
    trail,        \* audit events of each resource, in the order of the chain
    started,      \* requests started so far
    request       \* local variables of each request

rows == <<evidence, observation, fact, artifact, context, trail>>
artifactVars == <<tables, rows, started, request>>

-----------------------------------------------------------------------------
(* Local variables: the row that was read, the decision on it, the builder *)
(* of a context with the sections it still lacks, and what it is for.      *)
Idle == [pc |-> "idle", on |-> None, action |-> None, builder |-> None,
         todo |-> {}]

(* No migration creates case_contexts or document_analyses: the set is     *)
(* empty unless somebody has added the tables by hand.                     *)
ArtifactsInit ==
    /\ tables \in {{}, {"case_contexts", "document_analyses"}}
    /\ evidence = [e \in Items |-> "UNVERIFIED"]
    /\ observation = [o \in Observations |-> None]
    /\ fact = [o \in Observations |-> None]
    /\ artifact = [a \in Artifacts |-> None]
    /\ context = {}
    /\ trail = [x \in Items \cup Observations \cup Artifacts |-> <<>>]
    /\ started = 0
    /\ request = [p \in Requests |-> Idle]

At(p, label) == request[p].pc = label

Begin(p, r) ==
    /\ At(p, "idle")
    /\ started < MaxRequests
    /\ started' = started + 1
    /\ request' = [request EXCEPT ![p] = r]
    /\ UNCHANGED <<tables, rows>>

Done(p) ==
    /\ request' = [request EXCEPT ![p] = Idle]
    /\ UNCHANGED <<tables, started>>

(* RecordAuditEventInTx: the event is appended in the transaction.         *)
NewEvent(action, p, review) == [action |-> action, by |-> p, review |-> review]

Stored == {o \in Observations : observation[o] # None}

(* validateDocumentChecksum: compared with what is left after redaction.   *)
IsIntact(d) == d \notin Altered

(* The provider fails, a read or a write fails, a lookup finds nothing any *)
(* more, or the handler panics: whatever was written is rolled back.       *)
Fail(p) ==
    /\ ~At(p, "idle")
    /\ Done(p)
    /\ UNCHANGED rows

(* A verifier judges a piece of evidence: module Evidence has the details. *)
VerifyEvidence(p, e, to) ==
    /\ At(p, "idle")
    /\ to # evidence[e]
    /\ started < MaxRequests
    /\ started' = started + 1
    /\ evidence' = [evidence EXCEPT ![e] = to]
    /\ trail' = [trail EXCEPT ![e] = Append(@, NewEvent(to, p, None))]
    /\ UNCHANGED <<tables, observation, fact, artifact, context, request>>

-----------------------------------------------------------------------------
(* Observations.                                                           *)

(* The documents of the evidence are loaded before the provider is asked;  *)
(* one that does not match its checksum refuses the request.               *)
GenerateObservations(p, e) ==
    /\ \A i \in DOMAIN Documents[e] : IsIntact(Documents[e][i])
    /\ Begin(p, [Idle EXCEPT !.pc = "observing", !.on = e])

(* The provider is given facts of the case and no documents.               *)
GenerateCaseObservations(p) ==
    Begin(p, [Idle EXCEPT !.pc = "observing"])

NewObservation(e) == [evidence |-> e, status |-> "OPEN", by |-> None]

(* Whatever the provider has answered is stored open, with its events.      *)
StoreObservations(p, answers) ==
    /\ At(p, "observing")
    /\ answers \cap Stored = {}
    /\ observation' = [o \in Observations |->
           IF o \in answers THEN NewObservation(request[p].on) ELSE observation[o]]
    /\ trail' = [x \in DOMAIN trail |->
           IF x \in answers
           THEN Append(trail[x], NewEvent("ai.observation.created", p, None))
           ELSE trail[x]]
    /\ Done(p)
    /\ UNCHANGED <<evidence, fact, artifact, context>>

SaveObservations(p, answers) ==
    request[p].on # None /\ StoreObservations(p, answers)

SaveCaseObservations(p, answers) ==
    request[p].on = None /\ StoreObservations(p, answers)

(* The observation is read and decided on outside the transaction, whatever*)
(* its status.                                                             *)
ReviewObservation(p, o, a) ==
    /\ o \in Stored
    /\ Begin(p, [Idle EXCEPT !.pc = "reviewing", !.on = o, !.action = a])

CreateVerifiedFact(p, o, a) ==
    /\ o \in Stored
    /\ Begin(p, [Idle EXCEPT !.pc = "verifying", !.on = o, !.action = a])

AuditActionOf(a) ==
    CASE a = "ACCEPTED"  -> "ai.observation.accepted"
      [] a = "REJECTED"  -> "ai.observation.rejected"
      [] a = "CORRECTED" -> "ai.observation.corrected"
      [] a = "DISMISSED" -> "ai.observation.dismissed"

FactSource(a) ==
    CASE a = "ACCEPTED"  -> "HUMAN_ACCEPTED"
      [] a = "CORRECTED" -> "HUMAN_CORRECTION"
      [] OTHER           -> "AI_OBSERVATION"

(* The value is the observation's content; a correction adds the notes.    *)
NewVerifiedFact(p, a) ==
    [action |-> a, by |-> p, source |-> FactSource(a), corrected |-> a = "CORRECTED"]

(* INSERT .. ON CONFLICT (observation_id) DO UPDATE: the second fact of an *)
(* observation overwrites the decision, the reviewer, the source and the   *)
(* correction; the row's id, case, original value and creation time stay.  *)
SaveFact(o, f) == fact' = [fact EXCEPT ![o] = f]

RecordedFact(p, a) == NewEvent("ai.verified_fact.created", p, a)

BecomesFactIfAccepted(a) == a = "ACCEPTED"

BecomesFact(a) == a \in {"ACCEPTED", "CORRECTED"}

(* The transaction of a review.  UpdateStatus compares nothing with what   *)
(* was read.  The event's metadata dereference the evidence of the         *)
(* observation: one about the case as a whole panics and is rolled back.   *)
SaveReview(p) ==
    LET o == request[p].on
        a == request[p].action
        reviewed == Append(trail[o], NewEvent(AuditActionOf(a), p, a))
    IN
    /\ At(p, "reviewing")
    /\ observation[o].evidence # None
    /\ observation' = [observation EXCEPT ![o].status = a, ![o].by = p]
    /\ IF BecomesFact(a)
       THEN /\ SaveFact(o, NewVerifiedFact(p, a))
            /\ trail' = [trail EXCEPT ![o] = Append(reviewed, RecordedFact(p, a))]
       ELSE /\ UNCHANGED fact
            /\ trail' = [trail EXCEPT ![o] = reviewed]
    /\ Done(p)
    /\ UNCHANGED <<evidence, artifact, context>>

(* The transaction of CreateVerifiedFact leaves the observation as it is.  *)
SaveVerifiedFact(p) ==
    LET o == request[p].on
        a == request[p].action
    IN
    /\ At(p, "verifying")
    /\ SaveFact(o, NewVerifiedFact(p, a))
    /\ trail' = [trail EXCEPT ![o] = Append(@, RecordedFact(p, a))]
    /\ Done(p)
    /\ UNCHANGED <<evidence, observation, artifact, context>>

-----------------------------------------------------------------------------
(* Contexts and summaries.                                                 *)

IsIncluded(o, section) ==
    \/ section \in o.include
    \/ section = "evidence" /\ o.verifiedEvidence

StartBuild(p, o, for) ==
    Begin(p, [Idle EXCEPT !.pc = "building", !.action = for,
                          !.builder = NewContextBuilder(o),
                          !.todo = {i \in DOMAIN Sections : IsIncluded(o, Sections[i])}])

BuildContext(p, o) == StartBuild(p, o, "context")

GenerateCaseSummary(p) == StartBuild(p, SummaryOptions, "summary")

RowsOf(table) == IF table \in DOMAIN Rows THEN Rows[table] ELSE <<>>

(* What the queries of a section return at this moment.                    *)
StoredFacts(o, section) ==
    CASE section = "case" -> CaseMetadataFacts(RowsOf("case"))
      [] section = "person" -> PersonFacts(RowsOf("person"))
      [] section = "evidence" -> EvidenceFacts(o, Evidence, evidence)
      [] section = "document" -> DocumentFacts(o, Evidence, evidence, Documents)
      [] section = "form_submission" -> FormSubmissionFacts(RowsOf("form_submission"))
      [] section = "rule_evaluation" -> RuleEvaluationFacts(RowsOf("rule_evaluation"))
      [] section = "workflow" ->
             WorkflowFacts(RowsOf("workflow_instance"), RowsOf("workflow_history"))
      [] section = "decision" -> DecisionFacts(RowsOf("decision"))
      [] section = "ai_observation" ->
             ObservationFacts(o, Evidence, [x \in Stored |-> observation[x]])

(* One section; one whose query fails is left out without an error.        *)
BuildSection(p, found) ==
    LET r == request[p]
        next == Min(r.todo)
        section == Sections[next]
        b == AddFacts(r.builder, IF found THEN StoredFacts(r.builder.options, section)
                                 ELSE <<>>)
    IN
    /\ At(p, "building")
    /\ r.todo # {}
    /\ b.full => section \notin Required
    /\ request' = [request EXCEPT ![p].builder = b, ![p].todo = @ \ {next}]
    /\ UNCHANGED <<tables, rows, started>>

(* Build and saveContext: a context needs a fact, and a table.             *)
SaveContext(p) ==
    LET r == request[p] IN
    /\ At(p, "building")
    /\ r.todo = {}
    /\ r.builder.facts # <<>>
    /\ "case_contexts" \in tables
    /\ context' = context \cup {r.builder.facts}
    /\ IF r.action = "context"
       THEN Done(p)
       ELSE /\ request' = [request EXCEPT ![p].pc = "summarising"]
            /\ UNCHANGED <<tables, started>>
    /\ UNCHANGED <<evidence, observation, fact, artifact, trail>>

NewCaseSummary == [status |-> "PENDING_REVIEW", by |-> None]

InsertSummary(x) ==
    /\ artifact[x] = None
    /\ artifact' = [artifact EXCEPT ![x] = NewCaseSummary]

(* The transaction that stores the summary the provider has made of it.    *)
SaveSummary(p, x) ==
    /\ At(p, "summarising")
    /\ InsertSummary(x)
    /\ trail' = [trail EXCEPT ![x] = Append(@, NewEvent("case_summary.generated", p, None))]
    /\ Done(p)
    /\ UNCHANGED <<evidence, observation, fact, context>>

GenerateAnalyses(p, d) ==
    /\ IsIntact(d)
    /\ Begin(p, [Idle EXCEPT !.pc = "analysing"])

NewDocumentAnalysis == [status |-> "PENDING_REVIEW", by |-> None]

(* An insert needs a table to go to.                                       *)
InsertAnalyses(answers) ==
    /\ answers # {} => "document_analyses" \in tables
    /\ \A x \in answers : artifact[x] = None
    /\ artifact' = [x \in Artifacts |->
           IF x \in answers THEN NewDocumentAnalysis ELSE artifact[x]]

(* The transaction that stores the analyses of a document.                 *)
SaveAnalyses(p, answers) ==
    /\ At(p, "analysing")
    /\ InsertAnalyses(answers)
    /\ trail' = [x \in DOMAIN trail |->
           IF x \in answers
           THEN Append(trail[x], NewEvent("document_analysis.created", p, None))
           ELSE trail[x]]
    /\ Done(p)
    /\ UNCHANGED <<evidence, observation, fact, context>>

StartDecision(p, x, a) ==
    /\ artifact[x] # None
    /\ Begin(p, [Idle EXCEPT !.pc = "deciding", !.on = x, !.action = a])

ReviewCaseSummary(p, x, a) == x \in Summaries /\ StartDecision(p, x, a)

ReviewAnalysis(p, x, a) == x \in Analyses /\ StartDecision(p, x, a)

DecisionOn(x, a) ==
    CASE x \in Summaries /\ a = "ACCEPTED" -> "case_summary.accepted"
      [] x \in Summaries /\ a = "REJECTED" -> "case_summary.rejected"
      [] x \in Analyses /\ a = "ACCEPTED"  -> "document_analysis.accepted"
      [] x \in Analyses /\ a = "REJECTED"  -> "document_analysis.rejected"

CanBeAudited(action) == action \in ValidAuditActions

UnauditedDecision(p) ==
    LET x == request[p].on IN
    /\ At(p, "deciding")
    /\ artifact' = [artifact EXCEPT ![x] = [status |-> request[p].action, by |-> p]]
    /\ trail' = trail
    /\ Done(p)
    /\ UNCHANGED <<evidence, observation, fact, context>>

(* The row is updated and the event appended; the constraint on the action *)
(* refuses the event, and the update with it.                              *)
SaveDecision(p) ==
    LET x == request[p].on
        a == request[p].action
    IN
    /\ At(p, "deciding")
    /\ IF CanBeAudited(DecisionOn(x, a))
       THEN /\ artifact' = [artifact EXCEPT ![x] = [status |-> a, by |-> p]]
            /\ trail' = [trail EXCEPT ![x] = Append(@, NewEvent(DecisionOn(x, a), p, a))]
       ELSE UNCHANGED <<artifact, trail>>
    /\ Done(p)
    /\ UNCHANGED <<evidence, observation, fact, context>>

-----------------------------------------------------------------------------
(* The endpoints, each authenticated and handed the caller's organization. *)
GenerateRequests(p) ==
    \/ \E e \in Items : GenerateObservations(p, e)
    \/ GenerateCaseObservations(p)

ReviewRequests(p) ==
    \E o \in Observations, a \in ReviewActions : ReviewObservation(p, o, a)

FactRequests(p) ==
    \E o \in Observations, a \in ReviewActions : CreateVerifiedFact(p, o, a)

AnalysisRequests(p) ==
    \E e \in Items : \E i \in DOMAIN Documents[e] :
        GenerateAnalyses(p, Documents[e][i])

AnalysisReviews(p) ==
    \E x \in Analyses, a \in {"ACCEPTED", "REJECTED"} : ReviewAnalysis(p, x, a)

SummaryRequests(p) == GenerateCaseSummary(p)

SummaryReviews(p) ==
    \E x \in Summaries, a \in {"ACCEPTED", "REJECTED"} : ReviewCaseSummary(p, x, a)

ContextRequests(p) == \E o \in ContextOptions : BuildContext(p, o)

Start(p) ==
    \/ \E e \in Items, to \in {"VERIFIED", "REJECTED"} : VerifyEvidence(p, e, to)
    \/ GenerateRequests(p)
    \/ ReviewRequests(p)
    \/ FactRequests(p)
    \/ AnalysisRequests(p) \/ AnalysisReviews(p)
    \/ SummaryRequests(p) \/ SummaryReviews(p)
    \/ ContextRequests(p)

Step(p) ==
    \/ \E answers \in SUBSET Observations :
           SaveObservations(p, answers) \/ SaveCaseObservations(p, answers)
    \/ SaveReview(p)
    \/ SaveVerifiedFact(p)
    \/ \E found \in BOOLEAN : BuildSection(p, found)
    \/ SaveContext(p)
    \/ \E answers \in SUBSET Analyses : SaveAnalyses(p, answers)
    \/ \E x \in Summaries : SaveSummary(p, x)
    \/ SaveDecision(p)
    \/ Fail(p)

ArtifactsNext == \E p \in Requests : Start(p) \/ Step(p)

ArtifactsSpec == ArtifactsInit /\ [][ArtifactsNext]_artifactVars

-----------------------------------------------------------------------------
(* Properties.                                                             *)

(* The events of these actions, by their places in the chain.              *)
Named(events, actions) == {i \in DOMAIN events : events[i].action \in actions}
LastNamed(events, actions) == events[Max(Named(events, actions))]

FactActions == {"ai.verified_fact.created"}
ReviewEvents == {AuditActionOf(a) : a \in ReviewActions}

(* A review and the fact it makes are one transaction in ReviewObservation,*)
(* whoever else reviews or creates facts meanwhile: an observation that is *)
(* accepted or corrected always has a verified fact.                       *)
ReviewedHasItsFact ==
    \A o \in Stored :
        observation[o].status \in {"ACCEPTED", "CORRECTED"} => fact[o] # None

(* The fact is overwritten column by column by the next one of the same    *)
(* observation (the ON CONFLICT of verified_fact_repository.go): it is the *)
(* decision of the reviewer whom the audit trail names last, and a value   *)
(* that was corrected does not outlive the correction.                     *)
FactIsTheLastDecision ==
    \A o \in Observations :
        LET made == LastNamed(trail[o], FactActions) IN
        /\ (fact[o] = None) <=> (Named(trail[o], FactActions) = {})
        /\ fact[o] # None =>
             /\ fact[o].by = made.by
             /\ fact[o].action = made.review
             /\ fact[o].corrected <=> fact[o].source = "HUMAN_CORRECTION"
             /\ fact[o].source = FactSource(made.review)

(* Every status but the first was set by a transaction that appended an    *)
(* event of that name: the last event of an observation or an artifact     *)
(* names its status and its reviewer, so none is decided without a record. *)
LastReviewIsAudited ==
    /\ \A o \in Stored :
        IF observation[o].status = "OPEN" THEN Named(trail[o], ReviewEvents) = {}
        ELSE /\ Named(trail[o], ReviewEvents) # {}
             /\ LastNamed(trail[o], ReviewEvents)
                  = NewEvent(AuditActionOf(observation[o].status),
                             observation[o].by, observation[o].status)
    /\ \A x \in Artifacts :
        artifact[x] # None /\ artifact[x].status # "PENDING_REVIEW" =>
            /\ trail[x] # <<>>
            /\ Last(trail[x]) = NewEvent(DecisionOn(x, artifact[x].status),
                                         artifact[x].by, artifact[x].status)

Builders == {request[p].builder : p \in {q \in Requests : request[q].builder # None}}

(* A context is read section by section while reviewers go on deciding, so *)
(* it may be out of date; but what it calls HUMAN_VERIFIED, in the builder *)
(* or once stored, a person did accept or verify, and the trail shows it.  *)
Judged(x, action) == Named(trail[x], {action}) # {}

IsEarned(f) ==
    \/ f.section = "evidence" /\ f.row \in Items /\ Judged(f.row, "VERIFIED")
    \/ /\ f.section = "document"
       /\ \E e \in Items : f.row \in Range(Documents[e]) /\ Judged(e, "VERIFIED")
    \/ /\ f.section = "ai_observation" /\ f.row \in Observations
       /\ Judged(f.row, "ai.observation.accepted")

VerifiedLabelsWereEarned ==
    \A facts \in {b.facts : b \in Builders} \cup context :
        \A i \in DOMAIN facts :
            facts[i].provenance = "HUMAN_VERIFIED" => IsEarned(facts[i])

(* AddFact counts what earlier sections have used: over all sections a     *)
(* context keeps to the number of facts and of tokens its caller set, or   *)
(* to the defaults when the caller set none.                               *)
Tokens(facts) ==
    LET sum[n \in 0 .. Len(facts)] ==
            IF n = 0 THEN 0 ELSE sum[n - 1] + Cost[facts[n].row]
    IN  sum[Len(facts)]

ContextFitsItsBudget ==
    \A b \in Builders :
        /\ Len(b.facts) <= b.options.maxFacts
        /\ Tokens(b.facts) <= b.options.maxTokens
        /\ b.options.maxFacts > 0 /\ b.options.maxTokens > 0

(* Facts and reviews agree, whoever else reviews or creates facts at the   *)
(* same time (ReviewObservation, CreateVerifiedFact).                      *)
FactsFollowReviews == ReviewedHasItsFact /\ FactIsTheLastDecision

(* A context keeps to what its caller allowed and labels nothing as better *)
(* than it is (BuildContext).                                              *)
ContextsAreHonest == VerifiedLabelsWereEarned /\ ContextFitsItsBudget
===============================================================================
