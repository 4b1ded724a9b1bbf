# Civora, modelled and proved

TLA+ models of the Civora server (Go, `src/`), the TLC runs that check them on
small instances and the TLAPS proofs that hold for every instance.

Civora is one Go process over one PostgreSQL database. It manages the cases of
organizations: a case moves through a workflow an organization configured,
forms are submitted for it, evidence is judged, rule sets are evaluated over its
facts, reviewers claim and conclude reviews and record decisions, models suggest
observations that people turn into facts, and nearly every change appends to a
hash-chained audit log. Every HTTP request is a goroutine, and nothing in the
process serialises two requests on the same case. What keeps them apart is in the
database: transactions at READ COMMITTED, row locks, version columns, unique
indexes and one advisory lock per organization.

The recurring shape of the code, and the reason for these models, is

    read through the connection pool  ->  decide  ->  open a transaction, write

so that a decision is nearly always taken on a row that may have changed when
the write happens. Whether the write notices depends on what its `WHERE` clause
compares, and this differs from component to component.

## Inventory

| Component | State | Operations | What is hard | What makes it correct |
|---|---|---|---|---|
| cases (`internal/cases`) | `cases` rows: status, workflow state, version, closed_at | create, change status, submit form, show forms | status is a copy of the workflow instance's state; three reads before the transaction | copy and original agree; the requested status is reached |
| workflow instances (`internal/workflow`) | `workflow_instances`, `workflow_transition_history` | create with a case, execute transition, complete | optimistic version check; observer inside the transaction | no lost or doubled move; terminal is final |
| workflow definitions (`internal/workflow`) | definitions: DRAFT/ACTIVE/ARCHIVED | create, activate, archive, update, delete | check-then-act on other rows | no instance runs over a definition that is not active |
| form assignments (`internal/workflow_form_assignment`) | which form a state requires | create, update, delete | edited while transitions check them | a state is left only with what it requires |
| forms (`internal/forms`) | forms, versions, fields | create, edit, publish, archive, new version | draft status checked outside the transaction | an active form has a version; a submission meets the form as it is |
| form submissions (`internal/form_submission`, `cases`) | submissions per case and version | submit, look up by key, validate answers | the case and the form move on meanwhile; two validators of one constraint | accepted as defined; what is shown is what is demanded |
| review queue (`internal/review_queue`) | reviews: status, assignee | create, claim, start, complete, escalate, request information | updates compare nothing | one holder; a conclusion has a decision |
| decisions (`internal/decisions`) | versions of a decision per case | make, record through a review, supersede | unlocked read of the latest, overwriting update | decisions form one immutable chain |
| audit (`internal/audit`) | hash-chained events per organization | record in a transaction, verify all | time is taken before the lock | events link to their predecessor; no false alarm |
| evidence (`internal/evidence`) | evidence, verification history, documents, files | add, verify, reject, mark, upload, delete | disk and database are not one transaction | the history is the walk of the status; a stray file has a known origin |
| rules (`internal/rules`) | rule sets, assignments, evaluations | create, edit, publish, archive, version, assign, evaluate | evaluation reads outside its transaction; four truth values | a stored evaluation can be made again; the evaluator means what a rule set says |
| identity (`internal/identity`) | users, sessions, failed logins in memory | register, login, refresh, logout, change password | no transaction at all | a revoked session stays revoked; guesses are bounded |
| middleware (`internal/middleware`) | idempotency store, token buckets, in memory | every request | check-then-act around the handler, integer refill, eviction | an exact bucket would admit as much; doubles need overlap |
| AI observations (`internal/ai`) | observations, verified facts | generate, accept, reject, correct, dismiss, create fact | unguarded update, provider call in between | facts follow reviews; the last review is audited |
| case context, summaries, document intelligence | contexts, summaries, analyses | collect, generate, accept, reject | collected section by section without a snapshot | nothing is labelled as verified that was not |
| assessment, assistance, eligibility, follow-up | one row each, with a status | create, update | whole-row upsert of a copy | rows and events are those of a valid sequence |
| migrations (`internal/database`) | schema, `schema_migrations` | start of a server | several servers at once, a crash in between, a scanner for SQL | the schema served is whole; every server comes up |
| people, organizations, operations, exports | plain records, read models | read, create | none of note | - |
| server, configuration | - | wiring | - | - |

Interactions: the case service drives the workflow service through an interface
and is called back as its transition observer inside the transaction; the review
service drives decisions and workflow; a transition evaluates the assigned rule
sets in its transaction; the context reads the rows of every other component;
every service calls the audit service in its own transaction.

`PROJECT.json` lists the hazards of the code line by line with the properties
that watch them, and for every definition the source lines it stands for.

## Modules

    CaseLifecycle            what a client may see of a case        (abstract)
       ^ implemented by
    CaseWorkflow             cases, instances, history, assignments, submissions
    WorkflowDefinitions      definitions, and opening cases over them
    AuditChain               recording and verifying the hash chain
    ReviewQueue              reviews and decisions
    FormPublishing           forms, versions, fields, and submitting them
       ^ extended by
    CaseForms                what a case shows and demands of its forms
    FormFields               fields as they are defined and as they are answered
    Evidence                 verification, documents and their files
    RuleSets                 rule sets, assignments, evaluations
    RuleConditions           conditions and rule sets as values     (pure)
       ^ extended by
    RuleEngine               the evaluator, rule by rule
    Sessions                 accounts, sessions, lockout
    RequestGuards            rate limiter and idempotency store
    CaseContext              facts, labels, budgets                 (pure)
       ^ extended by
    AIArtifacts              observations, facts, contexts, summaries, analyses
    CaseServices             assessment, eligibility, assistance, follow-up
    Migrations, SQLScripts   servers that start, and the scripts they run
    MC<Module>               instances for TLC
    <Module>_proofs          theorems and TLAPS proofs

The proofs are in eight modules. Those of `CaseWorkflow`, `ReviewQueue`,
`WorkflowDefinitions` and `FormPublishing` (with `CaseForms`) have one each; four more
cover several modules that share no variable: `Access_proofs` (`Sessions`,
`RequestGuards`, `Migrations`, `SQLScripts`), `AuditTrail_proofs` (`AuditChain`, `AIArtifacts`),
`CaseRecords_proofs` (`CaseServices`, `Evidence`) and `RulesAndFields_proofs`
(`RuleSets`, `RuleEngine`, `FormFields`).

`MCRuleSets` composes `RuleSets` with `RuleConditions`: the abstract constant
`Outcome` of a rule set's content becomes `Evaluate`. `MCFormPublishing` extends
`CaseForms`, and so runs the views against the publishing of forms. `MCApart` puts
four parts that share no state into one run; a behaviour is one of them.

### How transactions are modelled

A request is a record of its local variables with a program counter `pc`. Every
read outside its transaction is a step. In the modules that are about locks
(`CaseWorkflow`, `WorkflowDefinitions`, `AuditChain`, `ReviewQueue`,
`FormPublishing`) every statement that can wait for a lock is a step too, and the
writes of the transaction appear together in `Commit`; in the others a transaction
waits for nothing but single rows and is one step. This is what READ COMMITTED lets
others see: nobody sees a write before it is committed, and a statement that was
made to wait re-reads the row when it goes on, so the comparison of
`UPDATE ... WHERE version = $n` belongs in the step that gets the lock. `Fail` lets
a request end at any step without effect: it stands for every error return that is
not modelled in its own right (roles, a rule that fails, the audit insert, a client
or process that goes away).

### CaseWorkflow

| Action | Code |
|---|---|
| `CreateCase` | `CaseService.CreateCase` and `createInstanceForCaseByDefID`, one transaction over new rows |
| `StartChangeStatus`, `PickTransition`, `CheckForms` | `changeStatusViaWorkflow`: read the instance, list the transitions (a second read), lock the assignments of the state first seen |
| `StartTransition` | the generic transition endpoint: a key and no transaction yet |
| `LoadInstance`, `UpdateState`, `Observe`, `Commit` | `executeTransition`: read through the pool, versioned update, the observer's form check, the effects |
| `StartSubmit`, `SaveSubmission` | `SubmitForm`: read the state outside, check and insert inside the transaction |
| `CreateAssignment`, `UpdateAssignment`, `DeleteAssignment` | the assignment service |
| `DeadlockAbort`, `Fail` | PostgreSQL's deadlock detection; every other failure |

The row locks on a form version and on a submission are left out: both are taken in
`SaveSubmission` together with the assignment rows, which already serialise two
submissions of one form.

### AuditChain

`Stamp` is the `time.Now()` in `recordEvent`, `Write` the advisory lock, the
query for the last hash and the insert. An event is its timestamp and its link;
hashes are assumed not to collide and nobody tampers. The verifying pass is
`StartPass`, `CountEvents`, `VerifyEvents` per organization and `EndPass`;
`todo` are the organizations left and `Turn` the next of them, `VerifyChain` says of the
events of one whether they are a chain. A pass that finds a broken chain ends there
(`VerifyEvents`) and leaves the organizations after it unverified, although the
comment at `maintenance.go:38` says every organization is.

### ReviewQueue

`ReadEntry` is what start, complete, escalate and request-information share: read
the entry through the pool, want the caller as assignee, move the copy.
`UpdateStatus` is the `UPDATE` that waits for the row and compares nothing,
`InsertDecision` the insert that meets the unique index, `LinkDecision` the
overwrite of `superseded_by_id`. A claim is the only request that reads under the
row lock (`FOR UPDATE SKIP LOCKED`).

### WorkflowDefinitions

`CaseWorkflow` runs over one definition that is active for good; this module
models where definitions come from. A definition is a key and a version, and
`def` holds the status of its row. Nearly every operation reads its rows under
`FOR UPDATE`, so the statements that wait are the steps:

| Action | Code |
|---|---|
| `CreateDefinition`, `CheckKey`, `InsertDefinition` | `CreateWorkflowDefinition`: look for the highest version of the key, insert under the unique index |
| `ChangeDefinition`, `FindByIDTx` | the start that activation, archival, deletion and update share |
| `SearchActive`, `CheckActive` | `FindLatestActiveByKeyTx`: the statement sees the rows active when it begins, and locks the highest that still is |
| `CountActive` | `CountActiveByDefinitionID`, over a second connection |
| `SearchNewKey`, `RefuseUpdate` | `UpdateWorkflowDefinition` |
| `CreateCase`, `CreateCaseByService`, `SaveCase`, `BindInstance` | `CaseService.CreateCase`: the insert shares the definition's row through its foreign key, `CreateInstanceForCaseByDefIDTx` locks it |
| `RecordAuditEvent` | `RecordAuditEventInTx`: the advisory lock of the chain, held to the end of the transaction |
| `Commit`, `Fail`, `Recover`, `DeadlockAbort` | the ends of a transaction |
| `CompleteInstance` | `executeTransition` into a terminal state, which does not lock the definition |

Opening a case shares the definition, then takes the audit lock, then wants the
definition exclusively: two cases opened at once over one definition wait for each
other, and only PostgreSQL's deadlock detector ends them (`Deadlocked`,
`DeadlockAbort`). The client of the aborted request gets an error; nothing retries.

### FormPublishing and CaseForms

`CaseWorkflow` takes a form version for granted; `FormPublishing` models where
versions come from and what a submission may rely on. A row of `forms` or
`form_versions` is its status, a row of `form_fields` its version, key and whether it
is required.

| Action | Code |
|---|---|
| `CreateForm`, `StartUpdate`, `UpdateForm`, `StartArchive`, `ArchiveForm` | the form service: read the row through the pool, write the whole row back in a transaction |
| `StartVersion`, `CreateVersion` | `FindLatest` through the pool, insert under the unique index on form and number |
| `StartPublish`, `CheckNewer`, `PublishVersion` | read the draft, look for a newer published version, write version and form |
| `StartAddField`, `StartAssign`, `CheckDuplicate`, `ShareForm`, `Insert` | `AddField` and `CreateAssignment`: two reads through the pool, then an insert whose foreign keys share the form and then the version |
| `StartEdit`, `UpdateField`, `DeleteField` | read a field and the status of its version, write the field |
| `StartSubmit`, `LockVersion`, `LockForm`, `SaveSubmission` | `SubmitForm`: a check outside, then version and form under `FOR UPDATE`, then everything checked again |
| `DeleteAssignment`, `Fail`, `DeadlockAbort` | as in `CaseWorkflow` |

A request's row locks follow from its program counter, so they are an operator
(`Holds`) and not a variable. An insert that refers to form and version and a
submission lock the two rows in opposite orders and can wait for each other;
PostgreSQL aborts one. `SubmitForm` is the only request that locks what it decides
on, version, form, assignments and fields, and so the only one whose promise needs no
luck (`AcceptedAsDefined`).

`CaseForms` adds the three readings a case has of these rows: `GetCaseForms` (what
can be filled in), `MissingRequired` and `CanProceed` (`GetWorkflowRequirements`, what
the user is told is missing) and `MissingFormVersions`
(`checkRequiredFormsCompleteInTx`, what the transition demands), with the lookups by
form key.

### FormFields

`AddField`, `UpdateField` and `SubmitAnswer` are the forms service's validation of a
field definition and the case service's validation of an answer, over constraints in
either spelling. `ValidateLengthFieldValidation`, `ValidateNumericFieldValidation`,
`ValidateFieldOptions` and `ValidateFieldValue` are the functions of those names. The
constants are any definitions whose bounds are numbers, or are there and are none
(`FieldsAreTyped`), and enough answers to write a text as long and a number as high as
any bound and to choose any option (`AnswersAreFree`): people may type what they like.

### Evidence

| Action | Code |
|---|---|
| `AddEvidence`, `UpdateEvidenceMetadata`, `SaveEvidence` | the insert, and the metadata update, which inserts an existing id and therefore always fails |
| `StartVerification`, `UpdateVerification` | `applyVerification`: decide on a copy, then lock the row, check the transition again, append to the history |
| `StartUpload`, `OpenFile`, `WriteFile`, `SaveDocument`, `DiscardFile`, `RefuseUpload` | `UploadDocument` and `LocalProvider.Store`: create the file, fill it, insert the row, remove the file if that fails |
| `StartDelete`, `RemoveFile`, `DeleteDocument` | `DeleteDocument`: the file first, the row afterwards |
| `BreakOff` | an error or the end of the process, at any step |

### RuleSets, RuleConditions and RuleEngine

`RuleSets` has the rows of one rule set key. `StartCreate`/`CreateRuleSet`,
`StartCreateVersion`, `UpdateRuleSet`, `DeleteRuleSet`, `StartPublish`/
`PublishRuleSet` and `StartArchive`/`ArchiveRuleSet` are the rule set service,
`StartCreateAssignment`, `StartUpdateAssignment` and their second halves the
assignment service. `StartEvaluate` evaluates one rule set by its id,
`EvaluateCaseRules` those assigned to a state in display order (`InDisplayOrder`),
on demand with a transaction for each or inside the transaction of a transition;
`ReadRuleSet` reads the next one and evaluates it, `SaveEvaluation`,
`SaveEvaluationInTx` and `CommitEvaluations` store what came out.

`RuleConditions` has what a condition says, comparison by comparison, and what
`ValidateRuleSet` accepts. Conditions are trees: `Conditions` is any set of them that
holds the children of each, and `Nesting` a number that is less for a child than for
its parent (`ConditionsAreTrees`), so what recurses over a condition is a recursive
function on `Conditions`. `RuleEngine` tries the rules one by one, the next by priority
first (`NextByPriority`), like `Evaluate` in `engine.go`.

### Sessions

Every statement is a step, since nothing but `saveUser` runs in a transaction.
`StartRegister`, `CountUsers`, `SaveUser` register; `StartLogin`, `VerifyPassword`,
`CreateSession`, `RecordFailedAttempt`, `RecordSuccessfulAttempt` log in past
`UserRateLimiter`; `StartRefresh`, `RotateToken`, `ReturnToken` refresh; `Logout`;
`StartChangePassword`, `UpdatePassword`, `RevokeAllUserSessions`. `Tick` is time as
far as the limiter counts it, `Expire` as far as a token does.

### RequestGuards

`CheckRate` and `Refilled` are the token bucket with its integer refill,
`CleanupVisitors` forgets the idle and then any above the limit. `Lookup`, `Execute`,
`Record` are the idempotency middleware around a handler that runs under no mutex;
`Recover` in front of both is `Panic`. `Restart` empties both maps. The variable
`ideal` is a bucket that never rounds and never forgets, for comparison.

### CaseContext and AIArtifacts

`CaseContext` has the builder (`AddFact` with its budgets of facts and tokens, the
provenance and the filters of each section) as pure operators. In `AIArtifacts` a
request reads, asks the provider, and writes in one step with its audit events:
`GenerateObservations`/`SaveObservations`, `ReviewObservation`/`SaveReview`,
`CreateVerifiedFact`/`SaveVerifiedFact`, `GenerateAnalyses`/`SaveAnalyses`,
`GenerateCaseSummary`/`SaveSummary`, `StartDecision`/`SaveDecision`. A context is
collected by one `BuildSection` per section, between which anything may be
reviewed. What a provider answers is a choice. `tables` says whether the tables
that no migration creates exist.

### CaseServices

The four services have one shape: `Create`, `CheckExisting`, `Update`, `CheckCase`
and `Save`. `Upsert` overwrites every column of the row, `MoveCase` closes and
reopens the case in between.

### Migrations and SQLScripts

`LoadMigrations`, `CheckApplied`, `RunStatements`, `Commit`, `Serve` and `Crash` are
the start of a server; a server whose statement fails ends (`Fatal`, `log.Fatalf`)
and is started again. `SplitSQL` is the scanner that cuts a script into statements,
one character after the other. What a script may be is stated apart from it, as a grammar
(`IsToken`): a semicolon, a character that begins nothing, an operator or parameter
(`-x`, `$1`), a literal whose inner quotes come in pairs, a comment, or a dollar quote
with or without a tag. `WholeStatements` says what such tokens add up to.

## What the runs show

| Run | Question | States |
|---|---|---|
| `case_workflow` | two racing requests, an administrator, one case: do case row and instance agree, is the requested status the one reached, is a state left only with its forms, is the lifecycle implemented, does every request end? | 208,792 |
| `audit_chain` | are events that come in time order one chain, is only an overtaking writer to blame for an alarm, and does every writer get the lock? | 119,280 |
| `review_queue` | two requests, two reviews, one case: one holder, every conclusion with its decision, one chain of decisions, no circular wait? | 240,036 |
| `workflow_definitions` | do instances run only over active definitions, do statuses only move forward, does every request end? | 72,752 |
| `form_publishing` | has an active form a published version, is a submission accepted only for what the form is when it commits, does what a case shows agree with what it demands, does every request end? | 192,603 |
| `evidence` | is the verification history the walk of the status, and where does a file without a row come from? | 309,431 |
| `rule_sets` | can every stored evaluation be made again, is a published rule set only ever archived? | 1,396,083 |
| `sessions` | does a refresh in flight revive a revoked session, by how much is a lock overrun? | 1,188,069 |
| `request_guards` | does the limiter admit more than an exact bucket, does Retry-After suffice, when is a key executed twice? | 524,669 |
| `ai_artifacts` | do facts follow reviews, is the last review audited, does a context keep to its filters, labels and budget? | 889,068 |
| `case_services` | do duplicates take overlap, does a closed case settle, are rows and events those of valid actions? | 117,318 |
| `standalone_parts` | does the evaluator say what the rule set says, is a field answered as it was defined, are scripts split where they should be, do servers that start at once leave a whole schema and come up? | 166,160 |

All hold. Some properties hold only as far as the code goes, and their text says so:

* `ChainedWhenInOrder` and `NoFalseAlarm` are conditional on the order of insertion.
  The time of an event is taken before the lock, so two events can share a previous
  hash and the verifier then alarms, although `docs/audit-integrity.md` calls the
  chain linear.
* `DuplicatesNeedOverlap` and `ExecutionsOverlap` bound what they cannot exclude: no
  unique key stops a second assessment, and two requests with one Idempotency-Key that
  both miss the store are both executed (`api/openapi/openapi.yaml:4619` promises the
  first answer).
* `FilesHaveRows` and `StatementsAreWhole` leave out what a broken-off request left
  behind and dollar quotes with characters of more than one byte.

### Where code and documentation differ

The models show these behaviours; none is asserted as a property.

* **Forms.** `SubmitForm` reads the state of the case before its transaction, so a form
  can be accepted that the current state does not ask for. Fields of a published version
  can change, by an edit that saw a draft (`ARCHITECTURE.md:292-293`;
  `forms/application/service.go:447`, `:530`, `:613`). Publishing a left-over draft makes
  an archived form active again. A required form that is archived blocks its state's
  transitions while `GetWorkflowRequirements` says `can_proceed`, and can no longer be
  submitted. With two versions of one form assigned, submission by key fills the first
  and `GetCaseFormSubmissions` shows the last.
* **Fields.** A definition reads `min_length` before `minLength`, an answer the other way
  round, so a field with both spellings can be defined and be unanswerable or unenforced;
  the comment at `cases/application/service.go:1478-1486` says the two are in step. The
  bounds of EMAIL and PHONE are never compared at definition, the `pattern` of TEXT is
  never enforced, a required MULTISELECT takes an empty list.
* **Cases and definitions.** The audit event of a transition names the states of a stale
  read. Two racing activations leave two active versions of a key, and a new case may be
  opened over the older. A case opened by service type panics: the workflow is resolved
  and not passed on. Every `UpdateWorkflowDefinition` is refused, as no query loads the
  states it validates, although `issues/2026-09-11-workflow-frontend-limitations.md`
  lists the operation. A decision's workflow state is read outside its transaction and
  the errors of reading it are dropped (`review_queue/application/service.go:253`).
* **Reviews.** Updates of a review compare nothing: a stale start reopens a completed
  one. `RequestInformation` records a version 1 decision, so the review can never be
  completed afterwards (`review_queue/application/service.go:478`).
* **Evidence.** Each transition is recorded twice, `ARCHITECTURE.md:383` says once.
  `UpdateEvidenceMetadata` always fails. Two uploads with one storage key meet on one
  file: the loser's clean-up deletes the winner's.
* **Rules.** `is false` is never true; `not_exists` of a missing path is UNKNOWN
  (`docs/product/rules.md:291`, `:350`). INFORMATION_REQUIRED takes any unknown rule, not
  all (`rules.md:106`); a missing fact is UNKNOWN, not ERROR
  (`docs/architecture/rules-engine.md:471`). Rule sets without a case have a NULL case, so
  two published versions coexist (`migrations/0019:39-41`, `rules.md:49`). Evaluating
  without a case always fails on `evaluations.case_id NOT NULL`.
* **Identity.** A refresh token can be exchanged twice by racing requests
  (`SECURITY.md:65`, `:90-93`), a session opened by a login that had checked the old
  password outlives the change (`:120-122`), and two first registrations both become
  admin. The lockout is after 20 failures (`cmd/civora/main.go:219`), `CHANGELOG.md:371`
  says 5. `auth.logout`, `auth.password_changed` and `auth.refresh` are not in
  `valid_audit_action`, and the errors of recording them are dropped. The logout route
  is registered without the authentication middleware and always answers 400;
  `ChangePassword` has no route.
* **Guards.** The limiter notes refused requests, so a client that asks again before a
  token's time has passed is never let in. `CHANGELOG.md:304-305` says LRU; eviction is
  by map or creation order. Answers 5xx are recorded and replayed for a day.
* **AI.** Reviews and `CreateVerifiedFact` have no status guard: a rejected observation
  can keep or acquire a verified fact (`docs/0.8-final-release-gate.md:26`, `:58`).
  Observations of a case as a whole can never be reviewed (a nil evidence id). The
  checksum is compared after redaction and truncation. A second fact keeps the stored
  row's id while event and response name another. No migration creates `case_contexts`
  and `document_analyses`, so contexts, summaries and analyses fail with the shipped
  schema (`docs/0.9-stage-01-architecture-readiness.md:396`, `:454`, `:528`); and as
  `case_summary.*` and `document_analysis.*` reviews are not audit actions the database
  knows, these reviews always roll back. The default options of a context exclude
  unverified evidence and include its documents.
* **Migrations.** `splitSQL` advances by bytes after a dollar quote while it indexes
  characters (`migrations.go:225-227`), so it loses what follows a quote that holds
  multi-byte characters; the shipped scripts have none. Of two files with one version the
  second is skipped silently.
* **Services.** Updates are upserts of a copy: a cancelled assistance can become
  completed. `CompleteFollowUp` looks neither at the case nor at an earlier completion.

### Bounds

Two requests run at a time everywhere but in `audit_chain`: each conflict in the code is
between what one request has read and what one rival writes. Where a theorem is listed
for a property it removes the bound.

* `case_workflow`: one case. The definition has a cycle (close, reopen) so that a rival
  can bring the case back to the state a request has read at a later version; its
  terminal state is not the one whose name closes a case. `MaxTransitions` bounds requests
  begun, so with two in flight three transitions can commit.
* `audit_chain`: two organizations and three writers, which a fork followed by a
  further event takes; four timestamps, so that one writer can record twice or
  another overtake it.
* `review_queue`: two reviews of one case, two reviewers, versions up to 2: rival claims,
  conclusions and supersessions each need two.
* `workflow_definitions`: two versions of one key, and a second key without rows that an
  update may ask for; two cases, so that one may run while another is opened.
* `form_publishing`: two versions of one form, so that one can be created or published
  while the other is; one field, which is added, changed and deleted while its version is
  published or submitted; one case.
* `evidence`: one piece of evidence whose history is at most `MaxTime` transitions, enough
  to leave a status and return; two documents whose names can make one storage key.
* `rule_sets`: two rows, that is a published version and its successor, or two rivals for
  one version number; two contents that differ in what they say of the one snapshot and in
  their triggers; versions up to 2.
* `sessions`: one account, two passwords, two sessions, two tokens (an old and a new one),
  one failure allowed, a window that passes in one tick.
* `request_guards`: maps that keep one entry each, for two visitors and two keys, so that
  every clean-up evicts; two ticks a second and a bucket of two, so that refills round
  down; a visitor is forgotten after four ticks, when its bucket is full again, as
  with the defaults (`FullBeforeForgotten`).
* `ai_artifacts`: two pieces of evidence, two documents, one observation, one summary, one
  analysis, and at most four requests begun (`MaxRequests`): a generation, a review, its
  rival and a context that overlaps them. Budgets of two facts or tokens are cut short.
* `case_services`: one case, three rows: two duplicates and a third a later request tries.
* `standalone_parts`: 3,040 valid rule sets of two rules (any operator and operand, over facts
  of every kind, or a group with all, any or not); fields of each type with bounds in either spelling;
  scripts of up to four tokens that hold each quote, comment and tag; three servers of
  three releases, one of which adds a migration with a lower number, and two crashes.

### Fairness

No safety property depends on any. `RequestsEnd` and `WritesEnd` assume that a goroutine
that can run does, that PostgreSQL queues waiters for a lock in arrival order (strong
fairness of a request's own steps) and, for `CaseWorkflow`, `WorkflowDefinitions` and
`FormPublishing`, that its deadlock detector runs. Strong fairness is less than arrival
order when the lock is shared: with three requests an unending stream of cases that are
opened over a draft and fail could keep its row shared for ever, which PostgreSQL's queue
of waiters, not modelled, rules out; the shared locks of `FormPublishing` are the same.
`RequestsEnd` of these two modules therefore says what it says of two requests at a time.

`ServersComeUp` assumes weak fairness of each server's start (`StartUp`), which includes
being started again after it ended: `docker-compose.yml:19` and `:42` say
`restart: unless-stopped`. Crashes are bounded by `MaxCrashes`; a server that crashes for
ever never comes up.

No fairness is assumed of clients, administrators, reviewers, providers or failures.

## What is proved

All proofs are for any number of cases, rows, states, forms, writers and organizations,
and any (finite, where they are counted) number of requests, from the assumptions the
modules name (`ValidDefinition` is what `ValidateWorkflowDefinition` accepts). Each
specification has an inductive invariant, `Inv` unless another name is given below, which
is proved in `Invariance` (`GuardInvariance`, `EvidenceInvariance` and so on for the
second and third specification of a module) from one lemma per action.

`CaseWorkflow_proofs`. That the case row mirrors the instance survives a commit only if
the committing request stands on the current version, which holds only because it kept
the row lock since the version was compared. `Inv` says this: types; for every case, the
rows agree and the history is a walk (`CaseOK`); a row lock is held by a request working
on that row (`LockInv`); for every request, what its program counter implies about what it
has read and locked (`RequestInv`). From it follow `TypeCorrect`, `StatusAlwaysMirrors`,
`HistoryAlwaysWalks`, `AlwaysClosedTogether`, `NothingStaleEverCommits`,
`RequestedStatusAlwaysReached`, `RequiredFormsAlwaysSubmitted`, `CompletedStaysFinal`, and
`Refinement`, that `CaseWorkflow` implements `CaseLifecycle`.

`AuditTrail_proofs`. A pending event was linked while its writer held the lock,
and the lock keeps the committed log still until it commits. From it
`AlwaysLinksToNewest` and `AlwaysChainedWhenInOrder`. The verifying pass reads a page of
events while writers append; that a page of a log in order is a chain
(`OrderedLogVerifies`), and that a log once out of order stays so, gives `NeverAFalseAlarm`.
For `AIArtifacts` the invariant ties each row to its events: an observation, its fact
and an artifact are what the last event of that kind tells (`TrailFits`, `ArtifactFits`),
so `FactsAreTheReviewers` and `NoDecisionWithoutItsRecord` follow. A context takes in
facts of reads that are long past when it is saved; they stay true because what has been
earned once, a review or a judgement, is an event and events stay (`Grows`). That, with
the budget kept by every `AddFacts` (`AddFactsKeeps`), is `ContextsKeepTheirWord`.

`ReviewQueue_proofs`. A request's copy of a review is outdated, but only in the
status: it names the right assignee, because an assignee is never replaced
(`KnowsReview`). Its copy of the latest decision is outdated too, but the decision
it names is still there, and once it holds the key of the version it inserts
nobody else has that version (`KnowsDecision`). So a commit extends a chain to a chain
(`ChainExtended`), and `TypeCorrect`, `Chain`, `Concluded`, `Immutable`, `Holder` and
`FromReview` follow.

`WorkflowDefinitions_proofs`. That a running instance's definition is active is kept
by two transactions that never meet on a row of `workflow_instances`: what connects
them is the definition's row lock. `Inv` therefore says, besides the types, that a
request past its lock holds it and that the status it read still stands
(`Wants`, `Knows`), for an archival also that no instance runs. `TypeCorrect`, `Active`
and `Forward` follow. The proofs need neither the audit lock nor the shared locks.

`FormPublishing_proofs`. Hardly any request holds a lock on what it decided on, so
the argument is about facts that never change again: a version that exists goes on
to exist and a published one stays published (`Grows`), so a request that has seen
either still knows it (`Reads`); and the status `UpdateForm` writes back may be old,
but if it is active the published version it stood for is still there. Only a
submission about to save knows more, that its form is not archived, and
`NobodySaves` shows from the conflicts of the locks that nobody else writes that
form. `TypeCorrect`, `ActiveHaveAVersion`, `AssignedArePublished`, `Forward` and
`Accepted` follow. The views need one fact more, that each version is of a form that is
there (`VersionsAlwaysHaveForms`); with it `ViewsAlwaysAgree`, for any assignments and
submissions of any number of cases.

`RulesAndFields_proofs`. An evaluation is stored of a rule set read before, outside any
lock. What it needs to remain true is little: once published, a row keeps its version and
content and is neither edited nor deleted, so the outcome computed of the copy is the
outcome of the row whenever it is looked at. `Inv` says it of every copy a request holds
and of the rows it has yet to save. `TypeCorrect`, `Reproduced` and `FrozenForGood`
follow; there the evaluator is an arbitrary function.
Of the evaluator itself `EngineInv` says that the rules tried so far are not true and that
the two flags tell what they came to; the priorities of a valid rule set differ, so the
first rule that is true is the one of the lowest number (`FirstTrueDecides`). What it says of
conditions of any depth (a group with its children in another order or pushed through a
negation, missing facts, kinds of operands) is by induction over trees: of those that fail
a claim one has the least `Nesting` (`TreeInduction`), and the functions that recurse over
conditions exist because they do up to every depth (`TreeFunctionExists`). Hence
`AnswersAreDeclared` and `ValidatedMeansComparable`. A field is only written once it is
validated and an answer once it is validated against the field (`FieldsInv`); the rest of
`FieldsAreAnsweredAsDefined` compares two validators of one constraint type by type.

`Access_proofs`. A refresh writes back a session it read before, but only its token and
expiry, so what was revoked stays revoked (`Revoked`) and what a request has seen is still
there (`Backed`). The lock is counted: while the failures of an account are remembered,
they and the requests that were let past the lock are together less than the limit plus
the requests there are (`Bounded`), and once they are forgotten the next failure is the
first; hence `Lockout`. `TypeCorrect` and `Accounts`, which no run checks, complete it.
For the limiter, the exact bucket always holds at least what the real one would if the
ticks since the last request were refilled without rounding (`BucketOK`): rounding down,
and forgetting a visitor whose bucket is full anyway (`FullBeforeForgotten`), only take
tokens away. So `NeverAboveTheRate`, and from the same arithmetic `RetryIsAnswered`. Executions of a key
are counted against the requests that are about to record an answer, or were already
executing when one was recorded (`AnswersOK`): `ExecutionsAreBounded`. For `Migrations`,
every migration a starting server has to see to is yet to be looked at or is applied, and
none is recorded twice (`SchemaInv`), whatever other servers do in between:
`SchemaStaysWhole`. For `SQLScripts`, any script of tokens (`ScriptsAreWritten`), each of
any length: after every token the scanner has exactly the statement and statements the
tokens so far add up to, and is within nothing (`Follows`), except that a literal which
another one adjoins is to the scanner still the same literal. Each kind of token has its
lemma (`LiteralIsKept`, `BlockCommentIsDropped`, `DollarQuoteIsKept` and so on); a dollar
quote relies on its bytes being its characters. Hence `StatementsStayWhole`.

`CaseRecords_proofs`. Rows are counted together with the requests that found none and
will insert one (`RoomForAll`), late writes together with the requests that found the case
open and will write (`Settles`), so each insert and each late write is paid for by the
request that makes it: `Duplicates` and `Settle`. That whatever is written last is a row
valid actions make (`Sound`), of the kind and case of the row it replaces (`Placed`), gives
`Explained`. For `Evidence`, the history is a walk in pairs that ends at the status
(`Walk`), because the transition is checked again under the row lock: `HistoryTellsTheWalk`.
A file is in the hands of a handler that will see to it, or has a row that nobody who
removed the file is about to delete (`Kept`): `NoStrayFiles`.

Only model-checked is liveness (`RequestsEnd`, `WritesEnd`, `ServersComeUp`), which is out
of the prover's reach, as ENABLED is.

Every other property of every run is a theorem. The library's induction theorems take an
operator as a parameter, which the provers cannot instantiate; where a fact about a
recursive definition is needed (`Tokens`, `FlattenSeq`, conditions) it is proved from its
least counterexample (`LeastNumber`, `TreeInduction`), and the recursive function is shown
to exist first (`RunExists`, `TreeFunctionExists`).

## What is not modelled

* Read models and exports (`operations`, listings, templates of rules, search): nothing
  changes, or a plain row without a rival does. People and organizations are rows of that
  kind. An assignment of a case to a user is one unguarded column.
* AI providers, prompts, redaction and the parsing of answers: a provider's answer is a
  choice. The prompt guard and the operators on texts (`contains`, `starts_with`,
  `matches`) are algorithms on strings. The page limits of a context's sections (100, 50,
  20) and the assembly of facts from a case's submissions are left out.
* Configuration, routes and response helpers: no state that two requests contend for.
* The connection pool: requests that hold one of its 25 connections and want a second one
  (`workflow/application/service.go:641`) can exhaust it. The order of the audit lock and
  the instance row across `ReviewQueue` and `CaseWorkflow`
  (`review_queue/application/service.go:275`), a deadlock PostgreSQL aborts, would need the
  two modules composed: the workflow transition a decision causes is only a reason for it
  to fail. The retry of a case number inside an aborted transaction
  (`cases/application/service.go:243`) fails as any error does. `UpdateAssignment` may set
  any value in `CaseWorkflow`, which contains its lost update
  (`workflow_form_assignment/application/service.go:190`).

## What is left

Composing `ReviewQueue` with `CaseWorkflow` and the pool.
