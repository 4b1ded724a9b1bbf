---------------------------- MODULE CaseServices ----------------------------
(***************************************************************************)
(* What staff attach to a case besides evidence and forms: assessments,    *)
(* eligibilities, assistance and follow-ups.                               *)
(*                                                                         *)
(* The four services have one shape.  A request reads the case, and the    *)
(* row it is to change, through the connection pool; it changes its copy   *)
(* and then, in one transaction, writes the whole copy back by its id and  *)
(* records the audit event.  No row is locked, versioned or unique by its  *)
(* case, so what a request has read may be out of date when it writes.     *)
(***************************************************************************)
EXTENDS Naturals, FiniteSets

CONSTANTS
    Cases,     \* service requests
    Rows,      \* ids of rows that may be inserted
    Requests,  \* concurrently running requests
    Nil        \* no row, no event

ASSUME RequestsAreFinite == IsFiniteSet(Requests)
ASSUME NilIsNoValue == Nil \notin Cases \cup Rows

Results == {"REQUIRES_MORE_INFORMATION", "ELIGIBLE", "NOT_ELIGIBLE"}
Statuses == {"PLANNED", "IN_PROGRESS", "COMPLETED", "CANCELLED"}

VARIABLES
    closed,   \* cases whose status is CLOSED or REJECTED
    late,     \* history: writes that ask for an open case, since a case closed
    row,      \* the four tables, by id
    event,    \* audit_events: the last one that names the row
    request   \* local variables of each request

vars == <<closed, late, row, event, request>>

-----------------------------------------------------------------------------
(* A row is its kind and case, the status or result it shows, and whether  *)
(* it was stamped as started and as completed.                             *)
Blank == [kind |-> "", case |-> Nil, status |-> "", started |-> FALSE,
          completed |-> FALSE]

New(kind, c, status) == [Blank EXCEPT !.kind = kind, !.case = c, !.status = status]

NewAssessment(c) == New("assessment", c, "")
NewEligibility(c) == New("eligibility", c, "REQUIRES_MORE_INFORMATION")
NewAssistance(c) == New("assistance", c, "PLANNED")
NewFollowUp(c) == New("follow_up", c, "")

(* Assistance.Start, Complete and Cancel.                                  *)
Start(a) == [a EXCEPT !.status = "IN_PROGRESS", !.started = TRUE]
Complete(a) == [a EXCEPT !.status = "COMPLETED", !.completed = TRUE]
Cancel(a) == [a EXCEPT !.status = "CANCELLED"]

IsValidStatusTransition(from, action) ==
    \/ from = "PLANNED" /\ action \in {"start", "cancel"}
    \/ from = "IN_PROGRESS" /\ action \in {"complete", "cancel"}

Effect(action, a) ==
    CASE action = "start" -> Start(a)
      [] action = "complete" -> Complete(a)
      [] action = "cancel" -> Cancel(a)

(* The copies UpdateAssistanceStatus may make of a row.                    *)
Acted(a) ==
    {Effect(action, a) : action \in
        {x \in {"start", "complete", "cancel"} : IsValidStatusTransition(a.status, x)}}

(* Eligibility.SetResult takes any result; the table refuses other names.  *)
SetResult(e, result) == [e EXCEPT !.status = result]

(* FollowUp.Complete sets a date whether or not there is one already.      *)
SetDate(f) == [f EXCEPT !.completed = TRUE]

-----------------------------------------------------------------------------
(* Local variables: the row's id, the copy, and the action of the event.   *)
(* A request that is refused on what it has read changes nothing.          *)
Idle == [pc |-> "idle", id |-> Nil, copy |-> Nil, action |-> ""]

(* The follow-up of a closed case may still be completed.                  *)
AsksForAnOpenCase(action) == action # "follow_up.completed"

Init ==
    /\ closed = {}
    /\ late = [c \in Cases |-> 0]
    /\ row = [i \in Rows |-> Nil]
    /\ event = [i \in Rows |-> Nil]
    /\ request = [p \in Requests |-> Idle]

At(p, label) == request[p].pc = label

Become(p, r) ==
    /\ request' = [request EXCEPT ![p] = r]
    /\ UNCHANGED <<closed, late, row, event>>

Answer(p) == Become(p, Idle)

(* The rows of one kind a case has.                                        *)
Of(kind, c) == {i \in Rows : row[i] # Nil /\ row[i].kind = kind /\ row[i].case = c}

(* The case is open, the actor is a member and the input is good.  The id  *)
(* is a fresh one.                                                         *)
Create(p, label, i, copy, action) ==
    /\ At(p, "idle")
    /\ copy.case \notin closed
    /\ row[i] = Nil /\ \A q \in Requests : request[q].id # i
    /\ Become(p, [Idle EXCEPT !.pc = label, !.id = i, !.copy = copy,
                              !.action = action])

CreateAssessment(p, c, i) ==
    Create(p, "checking", i, NewAssessment(c), "assessment.completed")

CreateEligibility(p, c, i) ==
    Create(p, "checking", i, NewEligibility(c), "eligibility.assessed")

CreateAssistance(p, c, i) ==
    Create(p, "saving", i, NewAssistance(c), "assistance.created")

CreateFollowUp(p, c, i) ==
    Create(p, "saving", i, NewFollowUp(c), "follow_up.scheduled")

(* The check of a service that looks for an id it has just made.           *)
MayBeAnother(kind, c) == \E i \in Rows : i \notin Of(kind, c)

(* FindByServiceRequest: a case is to have one assessment and one          *)
(* eligibility.  Nothing but this read says so.                            *)
MayBeFirst(kind, c) == Of(kind, c) = {}

CheckExisting(p) ==
    LET r == request[p] IN
    /\ At(p, "checking")
    /\ IF MayBeFirst(r.copy.kind, r.copy.case)
       THEN Become(p, [r EXCEPT !.pc = "saving"])
       ELSE Answer(p)

(* An update reads the row first.                                          *)
Update(p, label, i, copy, action) ==
    /\ At(p, "idle")
    /\ Become(p, [Idle EXCEPT !.pc = label, !.id = i, !.copy = copy,
                              !.action = action])

Holds(i, kind) == row[i] # Nil /\ row[i].kind = kind

UpdateEligibilityResult(p, i) ==
    /\ Holds(i, "eligibility")
    /\ \E result \in Results :
          Update(p, "asking", i, SetResult(row[i], result), "eligibility.result_updated")

UpdateAssistanceStatus(p, i) ==
    /\ Holds(i, "assistance")
    /\ \E copy \in Acted(row[i]) :
          Update(p, "asking", i, copy, "assistance.status_changed")

(* Neither the case nor an earlier completion is looked at.                *)
CompleteFollowUp(p, i) ==
    /\ Holds(i, "follow_up")
    /\ Update(p, "saving", i, SetDate(row[i]), "follow_up.completed")

(* The check left out, as it is for a follow-up.                           *)
CaseIsThere(c) == c \in Cases

(* The case of the row is read next.  The copy is only changed after that, *)
(* but from what was read before it.                                       *)
CaseIsOpen(c) == c \notin closed

CheckCase(p) ==
    /\ At(p, "asking")
    /\ IF CaseIsOpen(request[p].copy.case)
       THEN Become(p, [request[p] EXCEPT !.pc = "saving"])
       ELSE Answer(p)

(* An upsert that keeps a stamp it has no value for.                       *)
UpsertWhatIsSet(i, copy) ==
    row' = [row EXCEPT ![i] =
        IF @ = Nil THEN copy
        ELSE [copy EXCEPT !.started = @ \/ row[i].started,
                          !.completed = @ \/ row[i].completed]]

(* saveEligibility, saveAssistance, saveFollowUp: INSERT ... ON CONFLICT   *)
(* (id) DO UPDATE of every column.  saveAssessment inserts a fresh id.     *)
Upsert(i, copy) == row' = [row EXCEPT ![i] = copy]

(* What the event says: its action and, in its metadata, the status.       *)
Event(r) == [action |-> r.action, status |-> r.copy.status]

(* The transaction: the row and its event, together.                       *)
Save(p) ==
    LET r == request[p] IN
    /\ At(p, "saving")
    /\ Upsert(r.id, r.copy)
    /\ event' = [event EXCEPT ![r.id] = Event(r)]
    /\ late' = IF r.copy.case \in closed /\ AsksForAnOpenCase(r.action)
               THEN [late EXCEPT ![r.copy.case] = @ + 1] ELSE late
    /\ request' = [request EXCEPT ![p] = Idle]
    /\ UNCHANGED closed

(* A read fails, or the write or its audit event does and both are undone. *)
Fail(p) == ~At(p, "idle") /\ Answer(p)

(* The case moves, by a transition of its workflow, to a status that the   *)
(* services take for closed or back: they go by the names CLOSED and       *)
(* REJECTED, not by closed_at, and a definition may lead on from REJECTED. *)
MoveCase(c) ==
    /\ closed' = IF c \in closed THEN closed \ {c} ELSE closed \cup {c}
    /\ late' = [late EXCEPT ![c] = 0]
    /\ UNCHANGED <<row, event, request>>

(* The requests each service accepts.                                      *)
AssessmentRequests(p) == \E c \in Cases, i \in Rows : CreateAssessment(p, c, i)

EligibilityRequests(p) ==
    \E i \in Rows :
        \/ \E c \in Cases : CreateEligibility(p, c, i)
        \/ UpdateEligibilityResult(p, i)

AssistanceRequests(p) ==
    \E i \in Rows :
        \/ \E c \in Cases : CreateAssistance(p, c, i)
        \/ UpdateAssistanceStatus(p, i)

FollowUpRequests(p) ==
    \E i \in Rows :
        \/ \E c \in Cases : CreateFollowUp(p, c, i)
        \/ CompleteFollowUp(p, i)

Next ==
    \/ \E p \in Requests :
          \/ AssessmentRequests(p) \/ EligibilityRequests(p)
          \/ AssistanceRequests(p) \/ FollowUpRequests(p)
          \/ CheckExisting(p) \/ CheckCase(p) \/ Save(p) \/ Fail(p)
    \/ \E c \in Cases : MoveCase(c)

Spec == Init /\ [][Next]_vars

-----------------------------------------------------------------------------
(* Type invariant.                                                         *)

Kinds == {"assessment", "eligibility", "assistance", "follow_up"}

Shown == Statuses \cup Results \cup {""}

Row ==
    [kind : Kinds, case : Cases, status : Shown, started : BOOLEAN, completed : BOOLEAN]

Creations ==
    {"assessment.completed", "eligibility.assessed", "assistance.created",
     "follow_up.scheduled"}

Actions ==
    Creations \cup {"eligibility.result_updated", "assistance.status_changed",
                   "follow_up.completed"}

Entry == [action : Actions, status : Shown]

ASSUME NilIsNoRow == Nil \notin Row /\ Nil \notin Entry

Requestor ==
    [pc : {"idle", "checking", "asking", "saving"}, id : Rows \cup {Nil},
     copy : Row \cup {Nil}, action : Actions \cup {""}]

(* Every row and request-local variable holds a value the code can store   *)
(* in it.                                                                  *)
TypeOK ==
    /\ closed \subseteq Cases
    /\ late \in [Cases -> Nat]
    /\ row \in [Rows -> Row \cup {Nil}]
    /\ event \in [Rows -> Entry \cup {Nil}]
    /\ request \in [Requests -> Requestor]

-----------------------------------------------------------------------------
(* Two requests that have found no assessment, or no eligibility, of a     *)
(* case both insert one: no key or lock stops them.  What the check does   *)
(* ensure is that duplicates come of overlap alone: there are never more   *)
(* than there are requests, however many have run (CreateAssessment,       *)
(* CreateEligibility).                                                     *)
DuplicatesNeedOverlap ==
    \A c \in Cases, kind \in {"assessment", "eligibility"} :
        Cardinality(Of(kind, c)) <= Cardinality(Requests)

(* A case may close between the read that found it open and the write that *)
(* needs it open, and nothing looks again.  Such writes are those of the   *)
(* requests that were under way: a closed case settles (IsClosed in every  *)
(* service but CompleteFollowUp).                                          *)
ClosedCasesSettle ==
    \A c \in Cases : late[c] <= Cardinality(Requests)

(* Of two concurrent updates of one assistance both succeed, and the later *)
(* write erases the earlier: a cancelled one may be completed.  The row    *)
(* that is left is nonetheless one that a sequence of valid actions makes: *)
(* completed if and only if it says so, started if it was ever in          *)
(* progress, never started while planned (saveAssistance writes every      *)
(* column of one copy).                                                    *)
StampsFollowTheStatus ==
    \A i \in Rows : row[i] # Nil /\ row[i].kind = "assistance" =>
        /\ row[i].status \in Statuses
        /\ row[i].completed <=> row[i].status = "COMPLETED"
        /\ row[i].status \in {"IN_PROGRESS", "COMPLETED"} => row[i].started
        /\ row[i].status = "PLANNED" => ~row[i].started

(* The last audit event that names a row tells the status or result the    *)
(* row shows, and its completion, whichever of the racing requests wrote   *)
(* it (RecordAuditEventInTx in the transaction of the upsert).             *)
EventsNameTheRow ==
    \A i \in Rows :
        /\ row[i] = Nil <=> event[i] = Nil
        /\ row[i] # Nil =>
              /\ event[i].status = row[i].status
              /\ event[i].action = "follow_up.completed" <=>
                    row[i].kind = "follow_up" /\ row[i].completed

(* A row is one that valid actions make, and the audit trail ends with the *)
(* one that made it, whoever raced for it (UpdateAssistanceStatus).        *)
RowsAreExplained == StampsFollowTheStatus /\ EventsNameTheRow
=============================================================================
