------------------------- MODULE CaseRecords_proofs -------------------------
(***************************************************************************)
(* Theorems about what is kept of a case: CaseServices, for any finite     *)
(* number of requests and rows, and Evidence, for any items, documents,    *)
(* storage keys and handlers.                                              *)
(***************************************************************************)
EXTENDS CaseServices, Evidence, FiniteSetTheorems, TLAPS

-----------------------------------------------------------------------------
(* The inductive invariant.                                                *)

(* What StampsFollowTheStatus says of one row, or of a copy of one.        *)
Sound(a) ==
    a.kind = "assistance" =>
        /\ a.status \in Statuses
        /\ a.completed <=> a.status = "COMPLETED"
        /\ a.status \in {"IN_PROGRESS", "COMPLETED"} => a.started
        /\ a.status = "PLANNED" => ~a.started

(* What a request carries at each of its steps.                            *)
Carries(r) ==
    /\ r.id \in Rows /\ r.copy \in Row /\ r.action \in Actions
    /\ Sound(r.copy)
    /\ r.action = "follow_up.completed" <=> r.copy.kind = "follow_up" /\ r.copy.completed
    /\ r.pc = "asking" => r.action \notin Creations

Fit(r) ==
    /\ r \in Requestor
    /\ r.pc = "idle" => r.id = Nil
    /\ r.pc # "idle" => Carries(r)

(* A request that creates a row has its id to itself; one that updates a   *)
(* row has a copy of the same kind and case.                               *)
Placed(p) ==
    request[p].pc # "idle" =>
        IF request[p].action \in Creations
        THEN /\ row[request[p].id] = Nil
             /\ \A q \in Requests \ {p} : request[q].id # request[p].id
        ELSE /\ row[request[p].id] # Nil
             /\ row[request[p].id].kind = request[p].copy.kind
             /\ row[request[p].id].case = request[p].copy.case

(* Requests that found no row of their kind and case, and will insert one. *)
Inserts(r, kind, c) ==
    /\ r.pc = "saving" /\ r.action \in Creations
    /\ r.copy.kind = kind /\ r.copy.case = c
Inserting(kind, c) == {p \in Requests : Inserts(request[p], kind, c)}

Single == {"assessment", "eligibility"}

RoomForAll(kind, c) ==
    /\ IsFiniteSet(Of(kind, c))
    /\ Cardinality(Of(kind, c)) + Cardinality(Inserting(kind, c)) <= Cardinality(Requests)

(* Requests that found the case open, and will write to it.                *)
Waits(r, c) ==
    /\ r.pc \in {"checking", "saving"}
    /\ AsksForAnOpenCase(r.action) /\ r.copy.case = c
Waiting(c) == {p \in Requests : Waits(request[p], c)}

Settles(c) ==
    IF c \in closed THEN late[c] + Cardinality(Waiting(c)) <= Cardinality(Requests)
    ELSE late[c] = 0

RowsSound == \A i \in Rows : row[i] # Nil => Sound(row[i])

Inv ==
    /\ TypeOK
    /\ \A p \in Requests : Fit(request[p]) /\ Placed(p)
    /\ RowsSound /\ EventsNameTheRow
    /\ \A kind \in Single, c \in Cases : RoomForAll(kind, c)
    /\ \A c \in Cases : Settles(c)

-----------------------------------------------------------------------------
(* Counting requests.                                                      *)

LEMMA RequestsCount == Cardinality(Requests) \in Nat
BY RequestsAreFinite, FS_CardinalityType

LEMMA SomeRequests ==
    ASSUME NEW S \in SUBSET Requests
    PROVE  /\ IsFiniteSet(S)
           /\ Cardinality(S) \in Nat
           /\ Cardinality(S) <= Cardinality(Requests)
<1>1. IsFiniteSet(S) /\ Cardinality(S) <= Cardinality(Requests)
  BY RequestsAreFinite, FS_Subset
<1> QED BY <1>1, FS_CardinalityType

LEMMA FewerRequests ==
    ASSUME NEW S \in SUBSET Requests, NEW T \in SUBSET S
    PROVE  Cardinality(T) <= Cardinality(S)
BY SomeRequests, FS_Subset

LEMMA OneRequestLess ==
    ASSUME NEW S \in SUBSET Requests, NEW p \in S, NEW T \in SUBSET (S \ {p})
    PROVE  Cardinality(T) + 1 <= Cardinality(S)
<1>1. IsFiniteSet(S) /\ Cardinality(S) \in Nat
  BY SomeRequests
<1>2. Cardinality(S \ {p}) = Cardinality(S) - 1 /\ IsFiniteSet(S \ {p})
  BY <1>1, FS_RemoveElement
<1>3. Cardinality(T) <= Cardinality(S \ {p})
  BY <1>2, FS_Subset
<1>4. Cardinality(T) \in Nat
  BY SomeRequests
<1> QED BY <1>1, <1>2, <1>3, <1>4

-----------------------------------------------------------------------------
(* A request that moves on without writing.                                *)

LEMMA IdleFits == Fit(Idle)
BY DEF Fit, Idle, Requestor

LEMMA IdleIsIdle == Idle.pc = "idle" /\ Idle.id = Nil
BY DEF Idle

(* The id it names is not one that another request is to create.           *)
Leaves(p, id) ==
    \/ id \in {request[p].id, Nil}
    \/ id \in Rows /\ row[id] # Nil
    \/ \A q \in Requests : request[q].id # id

LEMMA OthersStayPlaced ==
    ASSUME Inv, UNCHANGED row, NEW p \in Requests, NEW r, Leaves(p, r.id),
           request' = [request EXCEPT ![p] = r], NEW q \in Requests, q # p
    PROVE  Placed(q)'
<1>1. request'[q] = request[q] /\ request'[p] = r /\ Placed(q) /\ Fit(request[q])
  BY DEF Inv, TypeOK
<1>2. \A x \in Requests \ {p} : request'[x] = request[x]
  BY DEF Inv, TypeOK
<1>3. CASE request[q].pc # "idle" /\ request[q].action \in Creations
  <2>1. request[q].id # r.id
    <3>1. request[q].id \in Rows /\ row[request[q].id] = Nil /\ request[q].id # request[p].id
      BY <1>1, <1>3 DEF Placed, Fit, Carries
    <3> QED BY <3>1, NilIsNoValue DEF Leaves
  <2>2. \A x \in Requests \ {q} : request'[x].id # request'[q].id
    BY <1>1, <1>2, <1>3, <2>1 DEF Placed
  <2> QED BY <1>1, <1>3, <2>2 DEF Placed
<1>4. CASE ~(request[q].pc # "idle" /\ request[q].action \in Creations)
  BY <1>1, <1>4 DEF Placed
<1> QED BY <1>3, <1>4

LEMMA InsertingAfter ==
    ASSUME Inv, UNCHANGED row, NEW p \in Requests, NEW r,
           request' = [request EXCEPT ![p] = r], NEW kind \in Single, NEW c \in Cases,
           Inserts(r, kind, c) => Inserts(request[p], kind, c) \/ Of(kind, c) = {}
    PROVE  RoomForAll(kind, c)'
<1>1. Of(kind, c)' = Of(kind, c) /\ RoomForAll(kind, c)
  BY DEF Of, Inv
<1>2. Inserting(kind, c)' \in SUBSET Requests /\ Inserting(kind, c) \in SUBSET Requests
  BY DEF Inserting
<1>3. Cardinality(Inserting(kind, c)') \in Nat /\ Cardinality(Inserting(kind, c)) \in Nat
  BY <1>2, SomeRequests
<1>4. CASE Of(kind, c) = {}
  <2>1. Cardinality(Inserting(kind, c)') <= Cardinality(Requests)
    BY <1>2, SomeRequests
  <2>2. Cardinality(Of(kind, c)) = 0
    BY <1>4, FS_EmptySet
  <2> QED BY <1>1, <1>3, <2>1, <2>2, RequestsCount DEF RoomForAll
<1>5. CASE Of(kind, c) # {}
  <2>1. Inserting(kind, c)' \in SUBSET Inserting(kind, c)
    BY <1>5 DEF Inserting, Inv, TypeOK
  <2>2. Cardinality(Inserting(kind, c)') <= Cardinality(Inserting(kind, c))
    BY <1>2, <2>1, FewerRequests
  <2>3. Cardinality(Of(kind, c)) \in Nat
    BY <1>1, FS_CardinalityType DEF RoomForAll
  <2> QED BY <1>1, <1>3, <2>2, <2>3, RequestsCount DEF RoomForAll
<1> QED BY <1>4, <1>5

LEMMA WaitingAfter ==
    ASSUME Inv, UNCHANGED <<closed, late>>, NEW p \in Requests, NEW r,
           request' = [request EXCEPT ![p] = r], NEW c \in Cases,
           Waits(r, c) => Waits(request[p], c) \/ c \notin closed
    PROVE  Settles(c)'
<1>1. CASE c \notin closed
  BY <1>1 DEF Settles, Inv
<1>2. CASE c \in closed
  <2>1. Waiting(c) \in SUBSET Requests /\ Waiting(c)' \in SUBSET Waiting(c)
    BY <1>2 DEF Waiting, Inv, TypeOK
  <2>2. Cardinality(Waiting(c)') <= Cardinality(Waiting(c))
    BY <2>1, FewerRequests
  <2>3. Cardinality(Waiting(c)') \in Nat /\ Cardinality(Waiting(c)) \in Nat
    BY <2>1, SomeRequests
  <2>4. late[c] \in Nat /\ late[c] + Cardinality(Waiting(c)) <= Cardinality(Requests)
    BY <1>2 DEF Inv, TypeOK, Settles
  <2> QED BY <1>2, <2>2, <2>3, <2>4, RequestsCount DEF Settles
<1> QED BY <1>1, <1>2

LEMMA RequestMovesOn ==
    ASSUME Inv, NEW p \in Requests, NEW r, Become(p, r), Fit(r), Leaves(p, r.id), Placed(p)',
           \A kind \in Single, c \in Cases :
               Inserts(r, kind, c) => Inserts(request[p], kind, c) \/ Of(kind, c) = {},
           \A c \in Cases : Waits(r, c) => Waits(request[p], c) \/ c \notin closed
    PROVE  Inv'
<1>1. request' = [request EXCEPT ![p] = r] /\ UNCHANGED <<closed, late, row, event>>
  BY DEF Become
<1>2. TypeOK'
  BY <1>1 DEF Inv, TypeOK, Fit
<1>3. \A q \in Requests : Fit(request[q])'
  BY <1>1 DEF Inv, TypeOK, Fit, Carries
<1>4. \A q \in Requests : Placed(q)'
  BY <1>1, OthersStayPlaced
<1>5. RowsSound' /\ EventsNameTheRow'
  BY <1>1 DEF Inv, RowsSound, EventsNameTheRow
<1>6. \A kind \in Single, c \in Cases : RoomForAll(kind, c)'
  BY <1>1, InsertingAfter
<1>7. \A c \in Cases : Settles(c)'
  BY <1>1, WaitingAfter
<1> QED BY <1>2, <1>3, <1>4, <1>5, <1>6, <1>7 DEF Inv

LEMMA RequestAnswers ==
    ASSUME Inv, NEW p \in Requests, Answer(p)
    PROVE  Inv'
<1>1. request'[p] = Idle /\ Become(p, Idle)
  BY DEF Answer, Become, Inv, TypeOK
<1>2. Placed(p)'
  BY <1>1, IdleIsIdle DEF Placed
<1>3. \A kind, c : ~Inserts(Idle, kind, c) /\ ~Waits(Idle, c)
  BY IdleIsIdle DEF Inserts, Waits
<1>4. Leaves(p, Idle.id)
  BY IdleIsIdle DEF Leaves
<1> QED BY <1>1, <1>2, <1>3, <1>4, IdleFits, RequestMovesOn

-----------------------------------------------------------------------------
(* What a request that starts carries.                                     *)

Started(pc, id, copy, action) ==
    [Idle EXCEPT !.pc = pc, !.id = id, !.copy = copy, !.action = action]

LEMMA StartedCarries ==
    ASSUME NEW pc \in {"checking", "asking", "saving"}, NEW id \in Rows,
           NEW copy \in Row, NEW action \in Actions, Sound(copy),
           action = "follow_up.completed" <=> copy.kind = "follow_up" /\ copy.completed,
           pc = "asking" => action \notin Creations
    PROVE  LET r == Started(pc, id, copy, action) IN
           /\ Fit(r)
           /\ r.pc = pc /\ r.id = id /\ r.copy = copy /\ r.action = action
<1>1. Started(pc, id, copy, action) \in Requestor
  BY IdleFits DEF Started, Fit, Requestor
<1>2. /\ Started(pc, id, copy, action).pc = pc
      /\ Started(pc, id, copy, action).id = id
      /\ Started(pc, id, copy, action).copy = copy
      /\ Started(pc, id, copy, action).action = action
  BY DEF Started, Idle
<1> QED BY <1>1, <1>2 DEF Fit, Carries

(* The rows a case can be given.                                           *)
LEMMA NewRowsFit ==
    ASSUME NEW c \in Cases
    PROVE  /\ NewAssessment(c) \in Row /\ NewAssessment(c).kind = "assessment"
           /\ NewEligibility(c) \in Row /\ NewEligibility(c).kind = "eligibility"
           /\ NewAssistance(c) \in Row /\ NewAssistance(c).kind = "assistance"
           /\ NewFollowUp(c) \in Row /\ NewFollowUp(c).kind = "follow_up"
           /\ \A a \in {NewAssessment(c), NewEligibility(c), NewAssistance(c), NewFollowUp(c)} :
                 a.case = c /\ ~a.completed /\ Sound(a)
BY DEF NewAssessment, NewEligibility, NewAssistance, NewFollowUp, New, Blank, Row, Kinds,
       Shown, Statuses, Results, Sound

LEMMA Creating ==
    ASSUME Inv, NEW p \in Requests, NEW i \in Rows, NEW label \in {"checking", "saving"},
           NEW copy \in Row, NEW action \in Creations, Sound(copy), ~copy.completed,
           label = "saving" => copy.kind \notin Single,
           Create(p, label, i, copy, action)
    PROVE  Inv'
<1> DEFINE r == Started(label, i, copy, action)
<1>1. /\ At(p, "idle") /\ copy.case \notin closed
      /\ row[i] = Nil /\ \A q \in Requests : request[q].id # i
      /\ Become(p, r)
  BY DEF Create, Started
<1>2. action \in Actions /\ action # "follow_up.completed"
  BY DEF Actions, Creations
<1>3. Fit(r) /\ r.pc = label /\ r.id = i /\ r.copy = copy /\ r.action = action
  BY <1>2, StartedCarries
<1> HIDE DEF r
<1>4. Leaves(p, r.id)
  BY <1>1, <1>3 DEF Leaves
<1>5. Placed(p)'
  <2>1. request'[p] = r /\ row' = row /\ \A q \in Requests \ {p} : request'[q] = request[q]
    BY <1>1 DEF Become, Inv, TypeOK
  <2> QED BY <1>1, <1>3, <2>1 DEF Placed
<1>6. \A kind \in Single, c \in Cases : ~Inserts(r, kind, c)
  BY <1>3 DEF Inserts
<1>7. \A c \in Cases : Waits(r, c) => c \notin closed
  BY <1>1, <1>3 DEF Waits
<1> QED BY <1>1, <1>3, <1>4, <1>5, <1>6, <1>7, RequestMovesOn

LEMMA Updating ==
    ASSUME Inv, NEW p \in Requests, NEW i \in Rows, NEW label \in {"asking", "saving"},
           NEW copy \in Row, NEW action \in Actions \ Creations, Sound(copy),
           action = "follow_up.completed" <=> copy.kind = "follow_up" /\ copy.completed,
           label = "saving" => action = "follow_up.completed",
           row[i] # Nil, row[i].kind = copy.kind, row[i].case = copy.case,
           Update(p, label, i, copy, action)
    PROVE  Inv'
<1> DEFINE r == Started(label, i, copy, action)
<1>1. At(p, "idle") /\ Become(p, r)
  BY DEF Update, Started
<1>2. Fit(r) /\ r.pc = label /\ r.id = i /\ r.copy = copy /\ r.action = action
  BY StartedCarries
<1> HIDE DEF r
<1>3. Leaves(p, r.id)
  BY <1>2 DEF Leaves
<1>4. Placed(p)'
  <2>1. request'[p] = r /\ row' = row
    BY <1>1 DEF Become, Inv, TypeOK
  <2> QED BY <1>2, <2>1 DEF Placed
<1>5. \A kind \in Single, c \in Cases : ~Inserts(r, kind, c)
  BY <1>2 DEF Inserts
<1>6. \A c \in Cases : ~Waits(r, c)
  BY <1>2 DEF Waits, AsksForAnOpenCase
<1> QED BY <1>1, <1>2, <1>3, <1>4, <1>5, <1>6, RequestMovesOn

(* The copies an update makes of a row.                                    *)
LEMMA ActedFits ==
    ASSUME NEW a \in Row, a.kind = "assistance", Sound(a), NEW b \in Acted(a)
    PROVE  b \in Row /\ b.kind = "assistance" /\ b.case = a.case /\ Sound(b)
<1>1. PICK action \in {"start", "complete", "cancel"} :
          IsValidStatusTransition(a.status, action) /\ b = Effect(action, a)
  BY DEF Acted
<1>2. CASE action = "start"
  <2>1. b = Start(a) /\ a.status = "PLANNED"
    BY <1>1, <1>2 DEF Effect, IsValidStatusTransition
  <2>2. ~a.completed
    BY <2>1 DEF Sound
  <2> QED BY <2>1, <2>2 DEF Start, Row, Shown, Statuses, Sound
<1>3. CASE action = "complete"
  BY <1>1, <1>3 DEF Effect, Complete, Row, Shown, Statuses, Sound, IsValidStatusTransition
<1>4. CASE action = "cancel"
  BY <1>1, <1>4 DEF Effect, Cancel, Row, Shown, Statuses, Sound, IsValidStatusTransition
<1> QED BY <1>1, <1>2, <1>3, <1>4

LEMMA ResultFits ==
    ASSUME NEW e \in Row, e.kind = "eligibility", NEW result \in Results
    PROVE  /\ SetResult(e, result) \in Row /\ SetResult(e, result).kind = "eligibility"
           /\ SetResult(e, result).case = e.case /\ Sound(SetResult(e, result))
BY DEF SetResult, Row, Shown, Sound

LEMMA DateFits ==
    ASSUME NEW f \in Row, f.kind = "follow_up"
    PROVE  /\ SetDate(f) \in Row /\ SetDate(f).kind = "follow_up"
           /\ SetDate(f).case = f.case /\ SetDate(f).completed /\ Sound(SetDate(f))
BY DEF SetDate, Row, Sound

-----------------------------------------------------------------------------
(* Requests that start.                                                    *)

LEMMA AssessmentsStart ==
    ASSUME Inv, NEW p \in Requests, AssessmentRequests(p)
    PROVE  Inv'
<1>1. PICK c \in Cases, i \in Rows : CreateAssessment(p, c, i)
  BY DEF AssessmentRequests
<1> QED BY <1>1, NewRowsFit, Creating DEF CreateAssessment, Creations

LEMMA HeldRow ==
    ASSUME Inv, NEW i \in Rows, row[i] # Nil
    PROVE  row[i] \in Row /\ Sound(row[i])
BY DEF Inv, TypeOK, RowsSound

LEMMA EligibilitiesStart ==
    ASSUME Inv, NEW p \in Requests, EligibilityRequests(p)
    PROVE  Inv'
<1>1. PICK i \in Rows : \/ \E c \in Cases : CreateEligibility(p, c, i)
                        \/ UpdateEligibilityResult(p, i)
  BY DEF EligibilityRequests
<1>2. CASE \E c \in Cases : CreateEligibility(p, c, i)
  <2>1. PICK c \in Cases : CreateEligibility(p, c, i)
    BY <1>2
  <2> QED BY <2>1, NewRowsFit, Creating DEF CreateEligibility, Creations
<1>3. CASE UpdateEligibilityResult(p, i)
  <2>1. PICK result \in Results :
            Update(p, "asking", i, SetResult(row[i], result), "eligibility.result_updated")
    BY <1>3 DEF UpdateEligibilityResult
  <2>2. row[i] # Nil /\ row[i].kind = "eligibility"
    BY <1>3 DEF UpdateEligibilityResult, Holds
  <2>3. "eligibility.result_updated" \in Actions \ Creations
    BY DEF Actions, Creations
  <2>4. row[i] \in Row
    BY <2>2, HeldRow
  <2> QED BY <2>1, <2>2, <2>3, <2>4, ResultFits, Updating
<1> QED BY <1>1, <1>2, <1>3

LEMMA AssistancesStart ==
    ASSUME Inv, NEW p \in Requests, AssistanceRequests(p)
    PROVE  Inv'
<1>1. PICK i \in Rows : \/ \E c \in Cases : CreateAssistance(p, c, i)
                        \/ UpdateAssistanceStatus(p, i)
  BY DEF AssistanceRequests
<1>2. CASE \E c \in Cases : CreateAssistance(p, c, i)
  <2>1. PICK c \in Cases : CreateAssistance(p, c, i)
    BY <1>2
  <2> QED BY <2>1, NewRowsFit, Creating DEF CreateAssistance, Creations, Single
<1>3. CASE UpdateAssistanceStatus(p, i)
  <2>1. PICK copy \in Acted(row[i]) :
            Update(p, "asking", i, copy, "assistance.status_changed")
    BY <1>3 DEF UpdateAssistanceStatus
  <2>2. row[i] # Nil /\ row[i].kind = "assistance"
    BY <1>3 DEF UpdateAssistanceStatus, Holds
  <2>3. "assistance.status_changed" \in Actions \ Creations
    BY DEF Actions, Creations
  <2>4. row[i] \in Row /\ Sound(row[i])
    BY <2>2, HeldRow
  <2>5. copy \in Row /\ copy.kind = "assistance" /\ copy.case = row[i].case /\ Sound(copy)
    BY <2>2, <2>4, ActedFits
  <2> QED BY <2>1, <2>2, <2>3, <2>5, Updating
<1> QED BY <1>1, <1>2, <1>3

LEMMA FollowUpsStart ==
    ASSUME Inv, NEW p \in Requests, FollowUpRequests(p)
    PROVE  Inv'
<1>1. PICK i \in Rows : \/ \E c \in Cases : CreateFollowUp(p, c, i)
                        \/ CompleteFollowUp(p, i)
  BY DEF FollowUpRequests
<1>2. CASE \E c \in Cases : CreateFollowUp(p, c, i)
  <2>1. PICK c \in Cases : CreateFollowUp(p, c, i)
    BY <1>2
  <2> QED BY <2>1, NewRowsFit, Creating DEF CreateFollowUp, Creations, Single
<1>3. CASE CompleteFollowUp(p, i)
  <2>1. Update(p, "saving", i, SetDate(row[i]), "follow_up.completed")
    BY <1>3 DEF CompleteFollowUp
  <2>2. row[i] # Nil /\ row[i].kind = "follow_up"
    BY <1>3 DEF CompleteFollowUp, Holds
  <2>3. "follow_up.completed" \in Actions \ Creations
    BY DEF Actions, Creations
  <2>4. row[i] \in Row
    BY <2>2, HeldRow
  <2> QED BY <2>1, <2>2, <2>3, <2>4, DateFits, Updating
<1> QED BY <1>1, <1>2, <1>3

-----------------------------------------------------------------------------
(* Requests that go on.                                                    *)

LEMMA GoesOn ==
    ASSUME Inv, NEW p \in Requests, request[p].pc # "idle",
           request[p].pc \in {"checking", "asking"},
           NEW r, r = [request[p] EXCEPT !.pc = "saving"], Become(p, r)
    PROVE  /\ Fit(r) /\ Leaves(p, r.id) /\ Placed(p)'
           /\ r.pc = "saving" /\ r.id = request[p].id
           /\ r.copy = request[p].copy /\ r.action = request[p].action
<1>1. Fit(request[p]) /\ Placed(p) /\ request[p] \in Requestor
  BY DEF Inv, TypeOK
<1>2. /\ r \in Requestor /\ r.pc = "saving" /\ r.id = request[p].id
      /\ r.copy = request[p].copy /\ r.action = request[p].action
  BY <1>1 DEF Requestor
<1>3. Fit(r)
  BY <1>1, <1>2 DEF Fit, Carries
<1>4. request' = [request EXCEPT ![p] = r] /\ row' = row
  BY DEF Become
<1>5. request'[p] = r /\ \A q \in Requests \ {p} : request'[q] = request[q]
  BY <1>4 DEF Inv, TypeOK
<1>6. Placed(p)'
  BY <1>1, <1>2, <1>4, <1>5 DEF Placed
<1> QED BY <1>2, <1>3, <1>6 DEF Leaves

LEMMA ExistingIsChecked ==
    ASSUME Inv, NEW p \in Requests, CheckExisting(p)
    PROVE  Inv'
<1>1. CASE Answer(p)
  BY <1>1, RequestAnswers
<1>2. CASE ~Answer(p)
  <2>1. /\ request[p].pc = "checking"
        /\ Of(request[p].copy.kind, request[p].copy.case) = {}
        /\ Become(p, [request[p] EXCEPT !.pc = "saving"])
    BY <1>2 DEF CheckExisting, At, MayBeFirst
  <2>2. PICK r : r = [request[p] EXCEPT !.pc = "saving"]
    OBVIOUS
  <2>3. Become(p, r)
    BY <2>1, <2>2
  <2>4. /\ Fit(r) /\ Leaves(p, r.id) /\ Placed(p)'
        /\ r.pc = "saving" /\ r.copy = request[p].copy /\ r.action = request[p].action
    BY <2>1, <2>2, <2>3, GoesOn
  <2>5. \A kind \in Single, c \in Cases : Inserts(r, kind, c) => Of(kind, c) = {}
    BY <2>1, <2>4 DEF Inserts
  <2>6. \A c \in Cases : Waits(r, c) => Waits(request[p], c)
    BY <2>1, <2>4 DEF Waits
  <2> QED BY <2>3, <2>4, <2>5, <2>6, RequestMovesOn
<1> QED BY <1>1, <1>2

LEMMA CaseIsChecked ==
    ASSUME Inv, NEW p \in Requests, CheckCase(p)
    PROVE  Inv'
<1>1. CASE Answer(p)
  BY <1>1, RequestAnswers
<1>2. CASE ~Answer(p)
  <2>1. /\ request[p].pc = "asking" /\ request[p].copy.case \notin closed
        /\ Become(p, [request[p] EXCEPT !.pc = "saving"])
    BY <1>2 DEF CheckCase, At, CaseIsOpen
  <2>2. PICK r : r = [request[p] EXCEPT !.pc = "saving"]
    OBVIOUS
  <2>3. Become(p, r)
    BY <2>1, <2>2
  <2>4. /\ Fit(r) /\ Leaves(p, r.id) /\ Placed(p)'
        /\ r.copy = request[p].copy /\ r.action = request[p].action
    BY <2>1, <2>2, <2>3, GoesOn
  <2>5. request[p].action \notin Creations
    BY <2>1 DEF Inv, Fit, Carries
  <2>6. \A kind \in Single, c \in Cases : ~Inserts(r, kind, c)
    BY <2>4, <2>5 DEF Inserts
  <2>7. \A c \in Cases : Waits(r, c) => c \notin closed
    BY <2>1, <2>4 DEF Waits
  <2> QED BY <2>3, <2>4, <2>6, <2>7, RequestMovesOn
<1> QED BY <1>1, <1>2

-----------------------------------------------------------------------------
(* The transaction.                                                        *)

LEMMA RowIsSaved ==
    ASSUME Inv, NEW p \in Requests, Save(p)
    PROVE  Inv'
<1> DEFINE r == request[p]
           i == request[p].id
<1>1. /\ r.pc = "saving" /\ row' = [row EXCEPT ![i] = r.copy]
      /\ event' = [event EXCEPT ![i] = Event(r)]
      /\ request' = [request EXCEPT ![p] = Idle] /\ closed' = closed
  BY DEF Save, At, Upsert
<1>2. r \in Requestor /\ Carries(r) /\ Placed(p) /\ r.id \in Rows
  BY <1>1 DEF Inv, TypeOK, Fit, Carries
<1>3. request'[p] = Idle /\ \A q \in Requests \ {p} : request'[q] = request[q]
  BY <1>1 DEF Inv, TypeOK
<1>4. Event(r) \in Entry /\ Event(r).action = r.action /\ Event(r).status = r.copy.status
  BY <1>2 DEF Event, Entry, Carries, Row
<1>5. /\ row'[i] = r.copy /\ \A j \in Rows \ {i} : row'[j] = row[j]
      /\ event'[i] = Event(r) /\ \A j \in Rows \ {i} : event'[j] = event[j]
  BY <1>1, <1>2 DEF Inv, TypeOK
<1>6. r.copy # Nil /\ Event(r) # Nil /\ r.copy \in Row /\ r.copy.case \in Cases
  BY <1>2, <1>4, NilIsNoRow DEF Carries, Row
<1>7. TypeOK'
  <2>1. late' \in [Cases -> Nat]
    BY <1>6 DEF Save, Inv, TypeOK
  <2>2. row' \in [Rows -> Row \cup {Nil}] /\ event' \in [Rows -> Entry \cup {Nil}]
    BY <1>1, <1>4, <1>6 DEF Inv, TypeOK
  <2>3. request' \in [Requests -> Requestor]
    BY <1>1, IdleFits DEF Inv, TypeOK, Fit
  <2> QED BY <1>1, <2>1, <2>2, <2>3 DEF Inv, TypeOK
<1>8. ASSUME NEW q \in Requests PROVE Fit(request[q])' /\ Placed(q)'
  <2>1. CASE q = p
    BY <1>3, <2>1, IdleFits, IdleIsIdle DEF Fit, Carries, Placed
  <2>2. CASE q # p
    <3>1. request'[q] = request[q] /\ Fit(request[q]) /\ Placed(q)
      BY <1>3, <2>2 DEF Inv
    <3>2. Fit(request[q])'
      BY <3>1 DEF Fit, Carries
    <3>3. CASE request[q].pc = "idle"
      BY <3>1, <3>3 DEF Placed
    <3>4. CASE request[q].pc # "idle" /\ request[q].action \in Creations
      <4>1. request[q].id \in Rows /\ request[q].id # i /\ row[request[q].id] = Nil
        BY <2>2, <3>1, <3>4 DEF Placed, Fit, Carries
      <4>2. row'[request[q].id] = Nil
        BY <1>5, <4>1
      <4>3. Idle.id # request[q].id
        BY <4>1, IdleIsIdle, NilIsNoValue
      <4>4. \A x \in Requests \ {q} : request'[x].id # request'[q].id
        BY <1>3, <3>1, <3>4, <4>3 DEF Placed
      <4> QED BY <3>1, <3>4, <4>2, <4>4 DEF Placed
    <3>5. CASE request[q].pc # "idle" /\ request[q].action \notin Creations
      <4>1. /\ request[q].id \in Rows /\ row[request[q].id] # Nil
            /\ row[request[q].id].kind = request[q].copy.kind
            /\ row[request[q].id].case = request[q].copy.case
        BY <3>1, <3>5 DEF Placed, Fit, Carries
      <4>2. CASE request[q].id = i
        <5>1. row[i].kind = r.copy.kind /\ row[i].case = r.copy.case
          BY <1>1, <1>2, <4>1, <4>2 DEF Placed
        <5>2. /\ row'[request[q].id] # Nil
              /\ row'[request[q].id].kind = request[q].copy.kind
              /\ row'[request[q].id].case = request[q].copy.case
          BY <1>5, <1>6, <4>1, <4>2, <5>1
        <5> QED BY <3>1, <3>5, <5>2 DEF Placed
      <4>3. CASE request[q].id # i
        <5>1. row'[request[q].id] = row[request[q].id]
          BY <1>5, <4>1, <4>3
        <5> QED BY <3>1, <3>5, <4>1, <5>1 DEF Placed
      <4> QED BY <4>2, <4>3
    <3> QED BY <3>2, <3>3, <3>4, <3>5
  <2> QED BY <2>1, <2>2
<1>9. RowsSound'
  BY <1>2, <1>5 DEF Inv, RowsSound, Carries, Sound
<1>10. EventsNameTheRow'
  BY <1>2, <1>4, <1>5, <1>6 DEF Inv, EventsNameTheRow, Carries
<1>11. ASSUME NEW kind \in Single, NEW c \in Cases PROVE RoomForAll(kind, c)'
  <2>1. RoomForAll(kind, c) /\ IsFiniteSet(Of(kind, c)) /\ Cardinality(Of(kind, c)) \in Nat
    BY FS_CardinalityType DEF Inv, RoomForAll
  <2>2. /\ Inserting(kind, c) \in SUBSET Requests
        /\ Inserting(kind, c)' \in SUBSET (Inserting(kind, c) \ {p})
    BY <1>3, IdleIsIdle DEF Inserting, Inserts
  <2>3. /\ Cardinality(Inserting(kind, c)) \in Nat /\ Cardinality(Inserting(kind, c)') \in Nat
        /\ Cardinality(Inserting(kind, c)') <= Cardinality(Inserting(kind, c))
    BY <2>2, SomeRequests, FewerRequests
  <2>4. CASE r.action \in Creations /\ r.copy.kind = kind /\ r.copy.case = c
    <3>1. p \in Inserting(kind, c)
      BY <1>1, <2>4 DEF Inserting, Inserts
    <3>2. Cardinality(Inserting(kind, c)') + 1 <= Cardinality(Inserting(kind, c))
      BY <2>2, <3>1, OneRequestLess
    <3>3. row[i] = Nil
      BY <1>1, <1>2, <2>4 DEF Placed
    <3>4. Of(kind, c)' = Of(kind, c) \cup {i} /\ i \notin Of(kind, c)
      BY <1>2, <1>5, <1>6, <2>4, <3>3 DEF Of
    <3>5. /\ IsFiniteSet(Of(kind, c)')
          /\ Cardinality(Of(kind, c)') = Cardinality(Of(kind, c)) + 1
      BY <2>1, <3>4, FS_AddElement
    <3> QED BY <2>1, <2>3, <3>2, <3>5, RequestsCount DEF RoomForAll
  <2>5. CASE ~(r.action \in Creations /\ r.copy.kind = kind /\ r.copy.case = c)
    <3>1. Of(kind, c)' = Of(kind, c)
      <4>1. CASE r.action \in Creations
        <5>1. row[i] = Nil /\ ~(r.copy.kind = kind /\ r.copy.case = c)
          BY <1>1, <1>2, <2>5, <4>1 DEF Placed
        <5> QED BY <1>2, <1>5, <5>1 DEF Of
      <4>2. CASE r.action \notin Creations
        <5>1. row[i] # Nil /\ row[i].kind = r.copy.kind /\ row[i].case = r.copy.case
          BY <1>1, <1>2, <4>2 DEF Placed
        <5> QED BY <1>2, <1>5, <1>6, <5>1 DEF Of
      <4> QED BY <4>1, <4>2
    <3> QED BY <2>1, <2>3, <3>1, RequestsCount DEF RoomForAll
  <2> QED BY <2>4, <2>5
<1>12. ASSUME NEW c \in Cases PROVE Settles(c)'
  <2>1. CASE c \notin closed
    BY <1>1, <2>1 DEF Save, Inv, TypeOK, Settles
  <2>2. CASE c \in closed
    <3>1. late[c] \in Nat /\ late[c] + Cardinality(Waiting(c)) <= Cardinality(Requests)
      BY <2>2 DEF Inv, TypeOK, Settles
    <3>2. /\ Waiting(c) \in SUBSET Requests
          /\ Waiting(c)' \in SUBSET (Waiting(c) \ {p})
      BY <1>3, IdleIsIdle DEF Waiting, Waits
    <3>3. /\ Cardinality(Waiting(c)) \in Nat /\ Cardinality(Waiting(c)') \in Nat
          /\ Cardinality(Waiting(c)') <= Cardinality(Waiting(c))
      BY <3>2, SomeRequests, FewerRequests
    <3>4. CASE r.copy.case = c /\ AsksForAnOpenCase(r.action)
      <4>1. p \in Waiting(c)
        BY <1>1, <3>4 DEF Waiting, Waits
      <4>2. Cardinality(Waiting(c)') + 1 <= Cardinality(Waiting(c))
        BY <3>2, <4>1, OneRequestLess
      <4>3. late'[c] = late[c] + 1
        BY <2>2, <3>4 DEF Save, Inv, TypeOK
      <4> QED BY <1>1, <2>2, <3>1, <3>3, <4>2, <4>3, RequestsCount DEF Settles
    <3>5. CASE ~(r.copy.case = c /\ AsksForAnOpenCase(r.action))
      <4>1. late'[c] = late[c]
        BY <3>5 DEF Save, Inv, TypeOK
      <4> QED BY <1>1, <2>2, <3>1, <3>3, <4>1, RequestsCount DEF Settles
    <3> QED BY <3>4, <3>5
  <2> QED BY <2>1, <2>2
<1> QED BY <1>7, <1>8, <1>9, <1>10, <1>11, <1>12 DEF Inv

-----------------------------------------------------------------------------
(* A case that closes, or opens again, forgets what was written to it late *)
(* before.                                                                 *)
LEMMA CaseMoves ==
    ASSUME Inv, NEW d \in Cases, MoveCase(d)
    PROVE  Inv'
<1>1. /\ UNCHANGED <<row, event, request>> /\ late' = [late EXCEPT ![d] = 0]
      /\ closed' \subseteq Cases /\ \A c \in Cases \ {d} : c \in closed' <=> c \in closed
  BY DEF MoveCase, Inv, TypeOK
<1>2. late' \in [Cases -> Nat] /\ late'[d] = 0 /\ \A c \in Cases \ {d} : late'[c] = late[c]
  BY <1>1 DEF Inv, TypeOK
<1>3. TypeOK'
  BY <1>1, <1>2 DEF Inv, TypeOK
<1>4. \A p \in Requests : Fit(request[p])' /\ Placed(p)'
  BY <1>1 DEF Inv, Fit, Carries, Placed
<1>5. RowsSound' /\ EventsNameTheRow'
  BY <1>1 DEF Inv, RowsSound, EventsNameTheRow
<1>6. ASSUME NEW kind \in Single, NEW c \in Cases PROVE RoomForAll(kind, c)'
  <2>1. Of(kind, c)' = Of(kind, c) /\ Inserting(kind, c)' = Inserting(kind, c)
    BY <1>1 DEF Of, Inserting, Inserts
  <2> QED BY <2>1 DEF Inv, RoomForAll
<1>7. ASSUME NEW c \in Cases PROVE Settles(c)'
  <2>1. Waiting(c)' = Waiting(c) /\ Waiting(c) \in SUBSET Requests
    BY <1>1 DEF Waiting, Waits
  <2>2. Cardinality(Waiting(c)) \in Nat /\ Cardinality(Waiting(c)) <= Cardinality(Requests)
    BY <2>1, SomeRequests
  <2>3. CASE c = d
    BY <1>2, <2>1, <2>2, <2>3, RequestsCount DEF Settles
  <2>4. CASE c # d
    BY <1>1, <1>2, <2>1, <2>4 DEF Settles, Inv
  <2> QED BY <2>3, <2>4
<1> QED BY <1>3, <1>4, <1>5, <1>6, <1>7 DEF Inv

LEMMA InitInv == Init => Inv
<1> SUFFICES ASSUME Init PROVE Inv
  OBVIOUS
<1>1. TypeOK
  BY IdleFits DEF Init, TypeOK, Fit
<1>2. \A p \in Requests : Fit(request[p]) /\ Placed(p)
  BY IdleFits, IdleIsIdle DEF Init, Placed
<1>3. RowsSound /\ EventsNameTheRow
  BY DEF Init, RowsSound, EventsNameTheRow
<1>4. ASSUME NEW kind \in Single, NEW c \in Cases PROVE RoomForAll(kind, c)
  <2>1. Of(kind, c) = {} /\ Inserting(kind, c) = {}
    BY IdleIsIdle DEF Init, Of, Inserting, Inserts
  <2> QED BY <2>1, FS_EmptySet, RequestsCount DEF RoomForAll
<1>5. \A c \in Cases : Settles(c)
  BY DEF Init, Settles
<1> QED BY <1>1, <1>2, <1>3, <1>4, <1>5 DEF Inv

LEMMA StepInv == Inv /\ [Next]_vars => Inv'
<1> SUFFICES ASSUME Inv, [Next]_vars PROVE Inv'
  OBVIOUS
<1>1. ASSUME NEW p \in Requests, AssessmentRequests(p) PROVE Inv'
  BY <1>1, AssessmentsStart
<1>2. ASSUME NEW p \in Requests, EligibilityRequests(p) PROVE Inv'
  BY <1>2, EligibilitiesStart
<1>3. ASSUME NEW p \in Requests, AssistanceRequests(p) PROVE Inv'
  BY <1>3, AssistancesStart
<1>4. ASSUME NEW p \in Requests, FollowUpRequests(p) PROVE Inv'
  BY <1>4, FollowUpsStart
<1>5. ASSUME NEW p \in Requests, CheckExisting(p) PROVE Inv'
  BY <1>5, ExistingIsChecked
<1>6. ASSUME NEW p \in Requests, CheckCase(p) PROVE Inv'
  BY <1>6, CaseIsChecked
<1>7. ASSUME NEW p \in Requests, Save(p) PROVE Inv'
  BY <1>7, RowIsSaved
<1>8. ASSUME NEW p \in Requests, Fail(p) PROVE Inv'
  BY <1>8, RequestAnswers DEF Fail
<1>9. ASSUME NEW c \in Cases, MoveCase(c) PROVE Inv'
  BY <1>9, CaseMoves
<1>10. CASE UNCHANGED vars
  <2>1. \A p \in Requests : Fit(request[p])' /\ Placed(p)'
    BY <1>10 DEF vars, Inv, Fit, Carries, Placed
  <2>2. \A kind, c : Of(kind, c)' = Of(kind, c) /\ Inserting(kind, c)' = Inserting(kind, c)
    BY <1>10 DEF vars, Of, Inserting, Inserts
  <2>3. \A c : Waiting(c)' = Waiting(c)
    BY <1>10 DEF vars, Waiting, Waits
  <2>4. TypeOK' /\ RowsSound' /\ EventsNameTheRow'
    BY <1>10 DEF vars, Inv, TypeOK, RowsSound, EventsNameTheRow
  <2>5. \A kind \in Single, c \in Cases : RoomForAll(kind, c)'
    BY <2>2 DEF Inv, RoomForAll
  <2>6. \A c \in Cases : Settles(c)'
    BY <1>10, <2>3 DEF vars, Inv, Settles
  <2> QED BY <2>1, <2>4, <2>5, <2>6 DEF Inv
<1> QED BY <1>1, <1>2, <1>3, <1>4, <1>5, <1>6, <1>7, <1>8, <1>9, <1>10 DEF Next

-----------------------------------------------------------------------------
(* The theorems.                                                           *)

(* Whatever the requests overlap with, each carries a copy of the kind and *)
(* case of the row it will write, and those that insert have an id each.   *)
THEOREM Invariance == Spec => []Inv
BY InitInv, StepInv, PTL DEF Spec

(* Rows, events and local variables hold what the code can store in them.  *)
THEOREM TypeCorrect == Spec => []TypeOK
<1>1. Inv => TypeOK
  BY DEF Inv
<1> QED BY <1>1, Invariance, PTL

(* A case has at most as many assessments, and eligibilities, as requests  *)
(* may overlap: the check before the insert is worth that much.            *)
THEOREM Duplicates == Spec => []DuplicatesNeedOverlap
<1>1. Inv => DuplicatesNeedOverlap
  <2> SUFFICES ASSUME Inv, NEW c \in Cases, NEW kind \in Single
               PROVE  Cardinality(Of(kind, c)) <= Cardinality(Requests)
    BY DEF DuplicatesNeedOverlap, Single
  <2>1. RoomForAll(kind, c) /\ Cardinality(Of(kind, c)) \in Nat
    BY FS_CardinalityType DEF Inv, RoomForAll
  <2>2. Inserting(kind, c) \in SUBSET Requests
    BY DEF Inserting
  <2>3. Cardinality(Inserting(kind, c)) \in Nat
    BY <2>2, SomeRequests
  <2> QED BY <2>1, <2>3, RequestsCount DEF RoomForAll
<1> QED BY <1>1, Invariance, PTL

(* After a case closes only the requests that were under way write to it.  *)
THEOREM Settle == Spec => []ClosedCasesSettle
<1>1. Inv => ClosedCasesSettle
  <2> SUFFICES ASSUME Inv, NEW c \in Cases PROVE late[c] <= Cardinality(Requests)
    BY DEF ClosedCasesSettle
  <2>1. Settles(c) /\ late[c] \in Nat
    BY DEF Inv, TypeOK
  <2>2. Waiting(c) \in SUBSET Requests
    BY DEF Waiting
  <2>3. Cardinality(Waiting(c)) \in Nat
    BY <2>2, SomeRequests
  <2> QED BY <2>1, <2>3, RequestsCount DEF Settles
<1> QED BY <1>1, Invariance, PTL

(* A row is one that valid actions make, whichever copies were lost, and   *)
(* the last event that names it tells what it shows.                       *)
THEOREM Explained == Spec => []RowsAreExplained
<1>1. Inv => RowsAreExplained
  BY DEF Inv, RowsAreExplained, RowsSound, StampsFollowTheStatus, Sound
<1> QED BY <1>1, Invariance, PTL

-----------------------------------------------------------------------------
(* Evidence: what a handler carries at each of its steps.                  *)

OfAFile == {"opening", "writing", "saving", "discarding", "removing", "unlisting"}

HandlerFits(r) ==
    /\ r \in Handler
    /\ r.pc = "verifying" => /\ r.item \in Items /\ r.at \in 1..MaxTime
                             /\ r.to \in VerificationStatus \ {"UNVERIFIED"}
    /\ r.pc = "inserting" => r.item \in Items
    /\ IF r.pc \in OfAFile THEN r.key \in Keys /\ r.document \in Documents
                           ELSE r.key = None
    /\ r.linked => r.pc \in {"writing", "discarding"}

Uploads(r) == r.pc \in {"opening", "writing", "saving"}
Deletes(r) == r.pc \in {"removing", "unlisting"}

(* The row of an upload is not there yet, that of a deletion has the key   *)
(* that was read or is gone; no file that is written to is missing.        *)
HandlerBacked(r) ==
    /\ Uploads(r) => document[r.document] = None
    /\ Deletes(r) => document[r.document] \in {r.key, Deleted}
    /\ r.linked => file[r.key] # None

(* A file is in the hands of a handler that will see to it, or has a row   *)
(* that nobody who has removed the file is about to delete.                *)
HasFile(r, k) == r.key = k /\ r.pc \in {"writing", "saving", "discarding"}
Held(k) == \E p \in Handlers : HasFile(handler[p], k)
Gone(r, d) == r.pc = "unlisting" /\ r.document = d
Lists(d, k) == document[d] = k /\ \A p \in Handlers : ~Gone(handler[p], d)
Kept(k) == file[k] # None => Held(k) \/ \E d \in Documents : Lists(d, k)

EvidenceTypes ==
    /\ evidence \in [Items -> VerificationStatus \cup {None}]
    /\ history \in [Items -> Seq(Record)]
    /\ clock \in 0..MaxTime
    /\ document \in [Documents -> Keys \cup {None, Deleted}]
    /\ file \in [Keys -> (SUBSET Documents) \cup {None}]
    /\ apart \subseteq Keys
    /\ handler \in [Handlers -> Handler]

HandlersOK ==
    /\ \A p \in Handlers : HandlerFits(handler[p]) /\ HandlerBacked(handler[p])
    /\ \A p, q \in Handlers :
          p # q /\ Uploads(handler[p]) /\ Uploads(handler[q]) =>
              handler[p].document # handler[q].document

(* The walk of one row; records come in pairs.                             *)
Walk(e) ==
    LET h == history[e] IN
    /\ Len(h) % 2 = 0
    /\ evidence[e] \in {None, "UNVERIFIED"} <=> h = <<>>
    /\ h # <<>> => h[Len(h)].status = evidence[e]
    /\ \A i \in 1..(Len(h) - 1) :
          IF i % 2 = 1 THEN h[i + 1] = h[i]
          ELSE IsValidVerificationTransition(h[i].status, h[i + 1].status)

EvidenceInv ==
    /\ EvidenceTypes
    /\ HandlersOK
    /\ \A k \in Keys \ apart : Kept(k)
    /\ \A e \in Items : Walk(e)

-----------------------------------------------------------------------------
LEMMA KeysAreKeys ==
    /\ Keys = Items \X Suffixes /\ None \notin Keys /\ Deleted \notin Keys
    /\ Deleted # None /\ \A D \in SUBSET Documents : D # None
    /\ MaxTime \in Nat /\ None \notin VerificationStatus
<1>1. Keys = Items \X Suffixes
  BY DEF Keys, GenerateStorageKey
<1> QED BY <1>1, NoneIsNoValue

LEMMA AtRestFits ==
    /\ HandlerFits(AtRest) /\ AtRest \in Handler /\ AtRest.pc = "idle"
    /\ AtRest.key = None /\ AtRest.linked = FALSE
BY KeysAreKeys DEF HandlerFits, AtRest, Handler, OfAFile

(* p goes on with r; the others, at most, lose the file they write to.     *)
Moves(p, r) ==
    /\ handler' \in [Handlers -> Handler]
    /\ handler'[p] = r
    /\ \A q \in Handlers \ {p} :
          \/ handler'[q] = handler[q]
          \/ handler'[q] = [handler[q] EXCEPT !.linked = FALSE]

LEMMA MovesKeepFits ==
    ASSUME EvidenceInv, NEW p \in Handlers, NEW r, HandlerFits(r), Moves(p, r)
    PROVE  /\ \A q \in Handlers : HandlerFits(handler'[q])
           /\ \A q \in Handlers \ {p} :
                 /\ handler'[q].pc = handler[q].pc /\ handler'[q].key = handler[q].key
                 /\ handler'[q].document = handler[q].document
                 /\ handler'[q].linked => handler[q].linked
<1>1. ASSUME NEW q \in Handlers \ {p}
      PROVE  /\ HandlerFits(handler'[q])
             /\ handler'[q].pc = handler[q].pc /\ handler'[q].key = handler[q].key
             /\ handler'[q].document = handler[q].document
             /\ handler'[q].linked => handler[q].linked
  <2>1. HandlerFits(handler[q])
    BY DEF EvidenceInv, HandlersOK
  <2>2. CASE handler'[q] = handler[q]
    BY <2>1, <2>2
  <2>3. CASE handler'[q] = [handler[q] EXCEPT !.linked = FALSE]
    BY <2>1, <2>3 DEF HandlerFits, Handler
  <2> QED BY <2>2, <2>3 DEF Moves
<1> QED BY <1>1 DEF Moves

(* One handler moves and no other.                                         *)
LEMMA OneMoves ==
    ASSUME EvidenceInv, NEW p \in Handlers, NEW r, HandlerFits(r),
           handler' = [handler EXCEPT ![p] = r]
    PROVE  Moves(p, r)
BY DEF EvidenceInv, EvidenceTypes, HandlerFits, Moves

(* Rows of documents stay, but that of p.                                  *)
LEMMA HandlersKeep ==
    ASSUME EvidenceInv, NEW p \in Handlers, NEW r, HandlerFits(r), Moves(p, r),
           HandlerBacked(r)', 
           \A d \in Documents : \/ document'[d] = document[d]
                                \/ document'[d] = Deleted /\ document[d] # None
                                \/ Uploads(handler[p]) /\ d = handler[p].document,
           Uploads(r) => \A q \in Handlers \ {p} : 
                             Uploads(handler[q]) => handler[q].document # r.document,
           \A q \in Handlers \ {p} :
               handler'[q].linked => file'[handler[q].key] # None
    PROVE  HandlersOK'
<1>1. /\ \A q \in Handlers : HandlerFits(handler'[q])
      /\ \A q \in Handlers \ {p} :
            /\ handler'[q].pc = handler[q].pc /\ handler'[q].key = handler[q].key
            /\ handler'[q].document = handler[q].document
            /\ handler'[q].linked => handler[q].linked
  BY MovesKeepFits
<1>2. ASSUME NEW q \in Handlers, q # p PROVE HandlerBacked(handler[q])'
  <2>1. /\ HandlerBacked(handler[q]) /\ HandlerFits(handler[q])
        /\ Uploads(handler[p]) /\ Uploads(handler[q]) =>
               handler[p].document # handler[q].document
    BY <1>2 DEF EvidenceInv, HandlersOK
  <2>2. /\ handler'[q].pc = handler[q].pc /\ handler'[q].key = handler[q].key
        /\ handler'[q].document = handler[q].document
        /\ handler'[q].linked => file'[handler[q].key] # None
    BY <1>1, <1>2
  <2>3. Uploads(handler[q]) => document'[handler[q].document] = None
    BY <2>1 DEF HandlerBacked, HandlerFits, Uploads, OfAFile
  <2>4. Deletes(handler[q]) => document'[handler[q].document] \in {handler[q].key, Deleted}
    <3>1. ASSUME Deletes(handler[q]) 
          PROVE  document'[handler[q].document] \in {handler[q].key, Deleted}
      <4> DEFINE d == handler[q].document
      <4>1. d \in Documents /\ document[d] \in {handler[q].key, Deleted}
            /\ handler[q].key \in Keys
        BY <2>1, <3>1 DEF HandlerBacked, HandlerFits, Deletes, OfAFile
      <4>2. Uploads(handler[p]) => document[handler[p].document] = None
        BY DEF EvidenceInv, HandlersOK, HandlerBacked
      <4> QED BY <4>1, <4>2, KeysAreKeys
    <3> QED BY <3>1
  <2> QED BY <2>2, <2>3, <2>4 DEF HandlerBacked, Uploads, Deletes
<1>3. HandlerBacked(handler[p])'
  BY DEF Moves, HandlerBacked, Uploads, Deletes
<1>4. ASSUME NEW q1 \in Handlers, NEW q2 \in Handlers, q1 # q2,
             Uploads(handler'[q1]), Uploads(handler'[q2])
      PROVE  handler'[q1].document # handler'[q2].document
  <2>1. q1 # p /\ q2 # p => handler'[q1].document # handler'[q2].document
    BY <1>1, <1>4 DEF EvidenceInv, HandlersOK, Uploads
  <2>2. handler'[p] = r
    BY DEF Moves
  <2> QED BY <1>1, <1>4, <2>1, <2>2 DEF Uploads
<1> QED BY <1>1, <1>2, <1>3, <1>4 DEF HandlersOK, Uploads

(* What stays in hands or in a row stays kept.                             *)
LEMMA KeptStays ==
    ASSUME EvidenceInv, NEW p \in Handlers, NEW r, HandlerFits(r), Moves(p, r),
           NEW k \in Keys, Kept(k), file'[k] = file[k],
           HasFile(handler[p], k) => HasFile(r, k),
           \A d \in Documents : document[d] = k /\ ~Gone(handler[p], d) =>
                                   document'[d] = k /\ ~Gone(r, d)
    PROVE  Kept(k)'
<1>1. handler'[p] = r
  BY DEF Moves
<1>2. \A q \in Handlers \ {p} : handler'[q].pc = handler[q].pc /\
          handler'[q].key = handler[q].key /\ handler'[q].document = handler[q].document
  BY MovesKeepFits
<1>3. Held(k) => Held(k)'
  BY <1>1, <1>2 DEF Held, HasFile
<1>4. ASSUME NEW d \in Documents, Lists(d, k) PROVE Lists(d, k)'
  <2>1. document'[d] = k /\ ~Gone(r, d)
    BY <1>4 DEF Lists
  <2>2. \A q \in Handlers \ {p} : ~Gone(handler'[q], d)
    BY <1>2, <1>4 DEF Lists, Gone
  <2> QED BY <1>1, <2>1, <2>2 DEF Lists, Gone
<1> QED BY <1>3, <1>4 DEF Kept

(* The rows of the verification.                                           *)
LEMMA WalksStay ==
    ASSUME EvidenceInv, UNCHANGED <<evidence, history>>
    PROVE  \A e \in Items : Walk(e)'
BY DEF EvidenceInv, Walk

(* A handler starts, goes on or ends and touches neither a file nor a row  *)
(* of a document.                                                          *)
LEMMA QuietMove ==
    ASSUME EvidenceInv, NEW p \in Handlers, NEW r, HandlerFits(r), HandlerBacked(r)',
           handler' = [handler EXCEPT ![p] = r], UNCHANGED <<document, file>>,
           handler[p].pc \in {"idle", "verifying", "inserting", "writing", "saving",
                              "opening", "removing"},
           r.pc # "unlisting",
           \/ UNCHANGED apart /\ \A k \in Keys : HasFile(handler[p], k) => HasFile(r, k)
           \/ apart' = apart \cup {handler[p].key},
           Uploads(r) => \A q \in Handlers \ {p} :
                             Uploads(handler[q]) => handler[q].document # r.document
    PROVE  HandlersOK' /\ \A k \in Keys \ apart' : Kept(k)'
<1>1. Moves(p, r)
  BY OneMoves
<1>2. \A q \in Handlers \ {p} : handler'[q].linked => file'[handler[q].key] # None
  <2>1. ASSUME NEW q \in Handlers \ {p}
        PROVE  handler'[q].linked => file'[handler[q].key] # None
    <3>1. handler'[q].linked => handler[q].linked
      BY <1>1, MovesKeepFits
    <3>2. handler[q].linked => file[handler[q].key] # None
      BY DEF EvidenceInv, HandlersOK, HandlerBacked
    <3> QED BY <3>1, <3>2
  <2> QED BY <2>1
<1>3. HandlersOK'
  BY <1>1, <1>2, HandlersKeep
<1>4. ASSUME NEW k \in Keys \ apart' PROVE Kept(k)'
  <2>1. Kept(k) /\ file'[k] = file[k]
    BY <1>4 DEF EvidenceInv
  <2>2. HasFile(handler[p], k) => HasFile(r, k)
    BY <1>4 DEF HasFile
  <2>3. \A d \in Documents : document[d] = k /\ ~Gone(handler[p], d) =>
                                 document'[d] = k /\ ~Gone(r, d)
    BY DEF Gone
  <2> QED BY <1>1, <2>1, <2>2, <2>3, KeptStays
<1> QED BY <1>3, <1>4

-----------------------------------------------------------------------------
(* Verification.                                                           *)

LEMMA StartsVerification ==
    ASSUME EvidenceInv, NEW p \in Handlers, NEW e \in Items,
           NEW to \in {"VERIFIED", "REJECTED", "NEEDS_REVIEW"},
           StartVerification(p, e, to)
    PROVE  EvidenceInv'
<1>1. /\ handler[p].pc = "idle" /\ clock < MaxTime /\ clock' = clock + 1
      /\ clock \in 0..MaxTime
      /\ UNCHANGED <<document, file, apart, evidence, history>>
  BY DEF StartVerification, Begin, stored, IsAt, EvidenceInv, EvidenceTypes
<1>2. PICK r : /\ r = Moved(e, to, clock + 1)
               /\ handler' = [handler EXCEPT ![p] = r]
  BY DEF StartVerification, Begin
<1>3. /\ r \in Handler /\ r.pc = "verifying" /\ r.item = e /\ r.to = to
      /\ r.at = clock + 1 /\ r.key = None /\ r.linked = FALSE
  <2>1. to \in VerificationStatus /\ clock + 1 \in 0..MaxTime
    BY <1>1, KeysAreKeys DEF VerificationStatus
  <2> QED BY <1>2, <2>1 DEF Moved, AtRest, Handler
<1>4. HandlerFits(r) /\ HandlerBacked(r)'
  <2>1. clock + 1 \in 1..MaxTime /\ to \in VerificationStatus \ {"UNVERIFIED"}
    BY <1>1, KeysAreKeys DEF VerificationStatus
  <2> QED BY <1>3, <2>1 DEF HandlerFits, HandlerBacked, OfAFile, Uploads, Deletes
<1>5. HandlersOK' /\ \A k \in Keys \ apart' : Kept(k)'
  <2>1. \A k \in Keys : ~HasFile(handler[p], k)
    BY <1>1 DEF HasFile
  <2>2. ~Uploads(r) /\ r.pc # "unlisting"
    BY <1>3 DEF Uploads
  <2> QED BY <1>1, <1>2, <1>4, <2>1, <2>2, QuietMove
<1>6. EvidenceTypes'
  <2>1. clock' \in 0..MaxTime
    BY <1>1, KeysAreKeys
  <2> QED BY <1>1, <1>2, <1>3, <2>1 DEF EvidenceInv, EvidenceTypes
<1> QED BY <1>1, <1>5, <1>6, WalksStay DEF EvidenceInv

(* A handler that is back at rest and held no file.                        *)
LEMMA Rests ==
    ASSUME EvidenceInv, NEW p \in Handlers, Done(p), UNCHANGED <<document, file, apart>>,
           handler[p].pc \in {"verifying", "inserting"}
    PROVE  /\ HandlersOK' /\ \A k \in Keys \ apart' : Kept(k)'
           /\ handler' \in [Handlers -> Handler]
<1>1. PICK r : r = AtRest
  OBVIOUS
<1>2. handler' = [handler EXCEPT ![p] = r] /\ HandlerFits(r) /\ HandlerBacked(r)'
  BY <1>1, AtRestFits DEF Done, HandlerBacked, Uploads, Deletes
<1>3. \A k \in Keys : ~HasFile(handler[p], k)
  BY DEF HasFile
<1>4. ~Uploads(r) /\ r.pc # "unlisting"
  BY <1>1, AtRestFits DEF Uploads
<1>5. handler' \in [Handlers -> Handler]
  BY <1>2 DEF EvidenceInv, EvidenceTypes, HandlerFits
<1> QED BY <1>2, <1>3, <1>4, <1>5, QuietMove

(* A pair of records goes to the end of a walk.                            *)
LEMMA WalkGoesOn ==
    ASSUME EvidenceInv, NEW e \in Items, NEW to \in VerificationStatus \ {"UNVERIFIED"},
           NEW at \in 1..MaxTime, UpdateVerificationTx(e, to, at)
    PROVE  /\ evidence' \in [Items -> VerificationStatus \cup {None}]
           /\ history' \in [Items -> Seq(Record)]
           /\ \A i \in Items : Walk(i)'
<1> DEFINE record == [status |-> to, at |-> at]
           h == history[e]
<1>1. CASE ~IsValidVerificationTransition(evidence[e], to)
  <2>1. UNCHANGED <<evidence, history>>
    BY <1>1 DEF UpdateVerificationTx
  <2> QED BY <2>1, WalksStay DEF EvidenceInv, EvidenceTypes
<1>2. CASE IsValidVerificationTransition(evidence[e], to)
  <2>1. /\ evidence' = [evidence EXCEPT ![e] = to]
        /\ history' = [history EXCEPT ![e] = h \o <<record, record>>]
    BY <1>2 DEF UpdateVerificationTx, SaveVerificationHistory
  <2>2. record \in Record /\ record.status = to
    BY DEF Record
  <2>3. /\ h \in Seq(Record) /\ Walk(e)
        /\ evidence \in [Items -> VerificationStatus \cup {None}]
        /\ history \in [Items -> Seq(Record)]
    BY DEF EvidenceInv, EvidenceTypes
  <2> HIDE DEF record, h
  <2> DEFINE g == h \o <<record, record>>
  <2>4. /\ g \in Seq(Record) /\ Len(g) = Len(h) + 2 /\ Len(h) \in Nat
        /\ \A i \in 1..Len(h) : g[i] = h[i]
        /\ g[Len(h) + 1] = record /\ g[Len(h) + 2] = record
    BY <2>2, <2>3
  <2> HIDE DEF g
  <2>5. /\ evidence' \in [Items -> VerificationStatus \cup {None}]
        /\ history' \in [Items -> Seq(Record)]
    BY <2>1, <2>3, <2>4 DEF g
  <2>6. /\ Len(h) % 2 = 0
        /\ evidence[e] \in {None, "UNVERIFIED"} <=> h = <<>>
        /\ h # <<>> => h[Len(h)].status = evidence[e]
        /\ \A i \in 1..(Len(h) - 1) :
              IF i % 2 = 1 THEN h[i + 1] = h[i]
              ELSE IsValidVerificationTransition(h[i].status, h[i + 1].status)
    BY <2>3 DEF Walk, h
  <2>7. Len(g) % 2 = 0
    BY <2>4, <2>6
  <2>8. g # <<>> /\ g[Len(g)].status = to /\ to \notin {None, "UNVERIFIED"}
    BY <2>2, <2>4, KeysAreKeys
  <2>9. ASSUME NEW i \in 1..(Len(g) - 1)
        PROVE  IF i % 2 = 1 THEN g[i + 1] = g[i]
               ELSE IsValidVerificationTransition(g[i].status, g[i + 1].status)
    <3>1. i \in Nat /\ i >= 1 /\ i <= Len(h) + 1
      BY <2>4
    <3>2. CASE i <= Len(h) - 1
      <4>1. i \in 1..(Len(h) - 1) /\ i \in 1..Len(h) /\ i + 1 \in 1..Len(h)
        BY <2>4, <3>1, <3>2
      <4>2. g[i] = h[i] /\ g[i + 1] = h[i + 1]
        BY <2>4, <4>1
      <4> QED BY <2>6, <4>1, <4>2
    <3>3. CASE i = Len(h)
      <4>1. i % 2 = 0 /\ h # <<>> /\ i \in 1..Len(h)
        BY <2>3, <2>4, <2>6, <3>1, <3>3 DEF h
      <4>2. g[i].status = evidence[e] /\ g[i + 1].status = to
        BY <2>2, <2>4, <2>6, <3>3, <4>1
      <4> QED BY <1>2, <4>1, <4>2
    <3>4. CASE i = Len(h) + 1
      <4>1. i % 2 = 1 /\ i + 1 = Len(h) + 2
        BY <2>4, <2>6, <3>4
      <4> QED BY <2>4, <3>4, <4>1
    <3> QED BY <2>4, <3>1, <3>2, <3>3, <3>4
  <2>10. evidence'[e] = to /\ history'[e] = g
    BY <2>1, <2>3 DEF g
  <2>11. Walk(e)'
    BY <2>7, <2>8, <2>9, <2>10 DEF Walk
  <2>12. ASSUME NEW i \in Items, i # e PROVE Walk(i)'
    <3>1. evidence'[i] = evidence[i] /\ history'[i] = history[i] /\ Walk(i)
      BY <2>1, <2>3, <2>12 DEF EvidenceInv
    <3> QED BY <3>1 DEF Walk
  <2> QED BY <2>5, <2>11, <2>12
<1> QED BY <1>1, <1>2

LEMMA UpdatesVerification ==
    ASSUME EvidenceInv, NEW p \in Handlers, UpdateVerification(p)
    PROVE  EvidenceInv'
<1>1. /\ handler[p].pc = "verifying" /\ Done(p)
      /\ UNCHANGED <<document, file, apart, clock>>
      /\ UpdateVerificationTx(handler[p].item, handler[p].to, handler[p].at)
  BY DEF UpdateVerification, IsAt, stored
<1>2. /\ handler[p].item \in Items /\ handler[p].at \in 1..MaxTime
      /\ handler[p].to \in VerificationStatus \ {"UNVERIFIED"}
  BY <1>1 DEF EvidenceInv, HandlersOK, HandlerFits
<1>3. /\ evidence' \in [Items -> VerificationStatus \cup {None}]
      /\ history' \in [Items -> Seq(Record)]
      /\ \A i \in Items : Walk(i)'
  BY <1>1, <1>2, WalkGoesOn
<1>4. /\ HandlersOK' /\ \A k \in Keys \ apart' : Kept(k)'
      /\ handler' \in [Handlers -> Handler]
  BY <1>1, Rests
<1> QED BY <1>1, <1>3, <1>4 DEF EvidenceInv, EvidenceTypes

(* An insert makes a row where there was none, with nothing behind it.     *)
LEMMA InsertKeepsWalks ==
    ASSUME EvidenceInv, NEW e \in Items, InsertEvidence(e), UNCHANGED history
    PROVE  /\ evidence' \in [Items -> VerificationStatus \cup {None}]
           /\ \A i \in Items : Walk(i)'
<1>1. evidence \in [Items -> VerificationStatus \cup {None}]
  BY DEF EvidenceInv, EvidenceTypes
<1>2. CASE evidence' = evidence
  BY <1>1, <1>2, WalksStay
<1>3. CASE ~Exists(e) /\ evidence' = [evidence EXCEPT ![e] = "UNVERIFIED"]
  <2>1. evidence[e] = None /\ history[e] = <<>>
    BY <1>3 DEF Exists, EvidenceInv, Walk
  <2>2. evidence'[e] = "UNVERIFIED" /\ \A i \in Items \ {e} : evidence'[i] = evidence[i]
    BY <1>1, <1>3
  <2>3. Walk(e)'
    BY <2>1, <2>2 DEF Walk, EvidenceInv
  <2>4. \A i \in Items \ {e} : Walk(i)'
    BY <2>2 DEF Walk, EvidenceInv
  <2>5. "UNVERIFIED" \in VerificationStatus
    BY DEF VerificationStatus
  <2> QED BY <1>1, <1>3, <2>3, <2>4, <2>5
<1> QED BY <1>2, <1>3 DEF InsertEvidence, NewEvidence

LEMMA SavesEvidence ==
    ASSUME EvidenceInv, NEW p \in Handlers, SaveEvidence(p)
    PROVE  EvidenceInv'
<1>1. /\ handler[p].pc = "inserting" /\ Done(p) /\ InsertEvidence(handler[p].item)
      /\ UNCHANGED <<document, file, apart, clock, history>>
  BY DEF SaveEvidence, IsAt, stored
<1>2. handler[p].item \in Items
  BY <1>1 DEF EvidenceInv, HandlersOK, HandlerFits
<1>3. /\ evidence' \in [Items -> VerificationStatus \cup {None}]
      /\ \A i \in Items : Walk(i)'
  BY <1>1, <1>2, InsertKeepsWalks
<1>4. /\ HandlersOK' /\ \A k \in Keys \ apart' : Kept(k)'
      /\ handler' \in [Handlers -> Handler]
  BY <1>1, Rests
<1> QED BY <1>1, <1>3, <1>4 DEF EvidenceInv, EvidenceTypes

LEMMA AddsEvidence ==
    ASSUME EvidenceInv, NEW e \in Items, AddEvidence(e)
    PROVE  EvidenceInv'
<1>1. InsertEvidence(e) /\ UNCHANGED <<document, file, apart, clock, history, handler>>
  BY DEF AddEvidence, stored
<1>2. /\ evidence' \in [Items -> VerificationStatus \cup {None}]
      /\ \A i \in Items : Walk(i)'
  BY <1>1, InsertKeepsWalks
<1>3. HandlersOK' /\ \A k \in Keys \ apart' : Kept(k)'
  BY <1>1 DEF EvidenceInv, HandlersOK, HandlerBacked, Kept, Held, Lists
<1> QED BY <1>1, <1>2, <1>3 DEF EvidenceInv, EvidenceTypes

LEMMA BeginsUpdate ==
    ASSUME EvidenceInv, NEW p \in Handlers, NEW e \in Items, UpdateEvidenceMetadata(p, e)
    PROVE  EvidenceInv'
<1>1. /\ handler[p].pc = "idle"
      /\ UNCHANGED <<document, file, apart, evidence, history, clock>>
  BY DEF UpdateEvidenceMetadata, Begin, stored, rows, IsAt
<1>2. PICK r : /\ r = [AtRest EXCEPT !.pc = "inserting", !.item = e]
               /\ handler' = [handler EXCEPT ![p] = r]
  BY DEF UpdateEvidenceMetadata, Begin
<1>3. /\ r \in Handler /\ r.pc = "inserting" /\ r.item = e
      /\ r.key = None /\ r.linked = FALSE
  BY <1>2, AtRestFits DEF Handler
<1>4. HandlerFits(r) /\ HandlerBacked(r)'
  BY <1>3 DEF HandlerFits, HandlerBacked, OfAFile, Uploads, Deletes
<1>5. HandlersOK' /\ \A k \in Keys \ apart' : Kept(k)'
  <2>1. \A k \in Keys : ~HasFile(handler[p], k)
    BY <1>1 DEF HasFile
  <2>2. ~Uploads(r) /\ r.pc # "unlisting"
    BY <1>3 DEF Uploads
  <2> QED BY <1>1, <1>2, <1>4, <2>1, <2>2, QuietMove
<1>6. EvidenceTypes'
  BY <1>1, <1>2, <1>3 DEF EvidenceInv, EvidenceTypes
<1> QED BY <1>1, <1>5, <1>6, WalksStay DEF EvidenceInv

-----------------------------------------------------------------------------
(* Documents and files.                                                    *)

LEMMA BeginsUpload ==
    ASSUME EvidenceInv, NEW p \in Handlers, NEW e \in Items, NEW d \in Documents,
           NEW s \in Suffixes, StartUpload(p, e, d, s)
    PROVE  EvidenceInv'
<1>1. /\ handler[p].pc = "idle" /\ document[d] = None
      /\ \A q \in Handlers : handler[q].document # d
      /\ UNCHANGED <<document, file, apart, evidence, history, clock>>
  BY DEF StartUpload, Begin, stored, rows, IsAt
<1>2. PICK r : /\ r = [AtRest EXCEPT !.pc = "opening", !.document = d,
                                     !.key = GenerateStorageKey(e, s)]
               /\ handler' = [handler EXCEPT ![p] = r]
  BY DEF StartUpload, Begin
<1>3. /\ r \in Handler /\ r.pc = "opening" /\ r.document = d
      /\ r.key \in Keys /\ r.linked = FALSE
  <2>1. GenerateStorageKey(e, s) \in Keys
    BY DEF Keys
  <2> QED BY <1>2, <2>1, AtRestFits DEF Handler
<1>4. HandlerFits(r) /\ HandlerBacked(r)'
  BY <1>1, <1>3 DEF HandlerFits, HandlerBacked, OfAFile, Uploads, Deletes
<1>5. HandlersOK' /\ \A k \in Keys \ apart' : Kept(k)'
  <2>1. \A k \in Keys : ~HasFile(handler[p], k)
    BY <1>1 DEF HasFile
  <2>2. /\ r.pc # "unlisting"
        /\ \A q \in Handlers \ {p} : Uploads(handler[q]) => handler[q].document # r.document
    BY <1>1, <1>3
  <2> QED BY <1>1, <1>2, <1>4, <2>1, <2>2, QuietMove
<1>6. EvidenceTypes'
  BY <1>1, <1>2, <1>3 DEF EvidenceInv, EvidenceTypes
<1> QED BY <1>1, <1>5, <1>6, WalksStay DEF EvidenceInv

LEMMA BeginsDelete ==
    ASSUME EvidenceInv, NEW p \in Handlers, NEW d \in Documents, StartDelete(p, d)
    PROVE  EvidenceInv'
<1>1. /\ handler[p].pc = "idle" /\ document[d] \in Keys
      /\ UNCHANGED <<document, file, apart, evidence, history, clock>>
  BY DEF StartDelete, Listed, Begin, stored, rows, IsAt
<1>2. PICK r : /\ r = [AtRest EXCEPT !.pc = "removing", !.document = d,
                                     !.key = document[d]]
               /\ handler' = [handler EXCEPT ![p] = r]
  BY DEF StartDelete, Begin
<1>3. /\ r \in Handler /\ r.pc = "removing" /\ r.document = d
      /\ r.key = document[d] /\ r.linked = FALSE
  BY <1>1, <1>2, AtRestFits DEF Handler
<1>4. HandlerFits(r) /\ HandlerBacked(r)'
  BY <1>1, <1>3 DEF HandlerFits, HandlerBacked, OfAFile, Uploads, Deletes
<1>5. HandlersOK' /\ \A k \in Keys \ apart' : Kept(k)'
  <2>1. \A k \in Keys : ~HasFile(handler[p], k)
    BY <1>1 DEF HasFile
  <2>2. ~Uploads(r) /\ r.pc # "unlisting"
    BY <1>3 DEF Uploads
  <2> QED BY <1>1, <1>2, <1>4, <2>1, <2>2, QuietMove
<1>6. EvidenceTypes'
  BY <1>1, <1>2, <1>3 DEF EvidenceInv, EvidenceTypes
<1> QED BY <1>1, <1>5, <1>6, WalksStay DEF EvidenceInv

(* What is known of a handler that is busy with a file.                    *)
LEMMA BusyHandler ==
    ASSUME EvidenceInv, NEW p \in Handlers, handler[p].pc \in OfAFile
    PROVE  /\ handler[p] \in Handler
           /\ handler[p].key \in Keys /\ handler[p].document \in Documents
           /\ handler[p].linked => file[handler[p].key] # None
           /\ Uploads(handler[p]) => document[handler[p].document] = None
           /\ Deletes(handler[p]) =>
                  document[handler[p].document] \in {handler[p].key, Deleted}
           /\ \A q \in Handlers \ {p} : Uploads(handler[p]) /\ Uploads(handler[q]) =>
                  handler[q].document # handler[p].document
BY DEF EvidenceInv, HandlersOK, HandlerFits, HandlerBacked

(* A file that is there stays there for those that write to it.            *)
LEMMA LinksStay ==
    ASSUME EvidenceInv, NEW p \in Handlers, NEW r, HandlerFits(r), Moves(p, r),
           \A k \in Keys : file[k] # None => file'[k] # None
    PROVE  \A q \in Handlers \ {p} : handler'[q].linked => file'[handler[q].key] # None
<1> SUFFICES ASSUME NEW q \in Handlers \ {p}, handler'[q].linked
             PROVE  file'[handler[q].key] # None
  OBVIOUS
<1>1. handler[q].linked
  BY MovesKeepFits
<1>2. file[handler[q].key] # None /\ handler[q].key \in Keys
  BY <1>1 DEF EvidenceInv, HandlersOK, HandlerBacked, HandlerFits, OfAFile
<1> QED BY <1>2

LEMMA OpensFile ==
    ASSUME EvidenceInv, NEW p \in Handlers, OpenFile(p) \/ WriteFile(p)
    PROVE  EvidenceInv'
<1>1. PICK k \in Keys, d \in Documents :
          /\ k = handler[p].key /\ d = handler[p].document
          /\ handler[p].pc \in {"opening", "writing"} /\ handler[p] \in Handler
          /\ handler[p].linked => file[k] # None
          /\ document[d] = None
          /\ \A q \in Handlers \ {p} : Uploads(handler[q]) => handler[q].document # d
  <2>1. handler[p].pc \in {"opening", "writing"}
    BY DEF OpenFile, WriteFile, IsAt
  <2> QED BY <2>1, BusyHandler DEF OfAFile, Uploads
<1>2. UNCHANGED <<evidence, history, clock, document, apart>>
  BY DEF OpenFile, WriteFile, rows
<1>3. /\ file' \in [Keys -> (SUBSET Documents) \cup {None}]
      /\ \A j \in Keys \ {k} : file'[j] = file[j]
      /\ file[k] # None => file'[k] # None
      /\ OpenFile(p) => file'[k] # None
  <2>1. file \in [Keys -> (SUBSET Documents) \cup {None}]
    BY DEF EvidenceInv, EvidenceTypes
  <2>2. CASE OpenFile(p)
    <3>1. file' = [file EXCEPT ![k] = {d}] /\ {d} \in SUBSET Documents
      BY <1>1, <2>2 DEF OpenFile
    <3> QED BY <2>1, <3>1, KeysAreKeys
  <2>3. CASE WriteFile(p) /\ ~handler[p].linked
    <3>1. file' = file
      BY <2>3 DEF WriteFile
    <3>2. ~OpenFile(p)
      BY <2>3 DEF WriteFile, OpenFile, IsAt
    <3> QED BY <2>1, <3>1, <3>2
  <2>4. CASE WriteFile(p) /\ handler[p].linked
    <3>1. file' = [file EXCEPT ![k] = file[k] \cup {d}] /\ file[k] \in SUBSET Documents
      BY <1>1, <2>1, <2>4 DEF WriteFile
    <3>2. file[k] \cup {d} \in SUBSET Documents
      BY <3>1
    <3> QED BY <2>1, <3>1, <3>2, KeysAreKeys
  <2> QED BY <2>2, <2>3, <2>4
<1>4. PICK r : /\ handler' = [handler EXCEPT ![p] = r] /\ r \in Handler
               /\ r.key = k /\ r.document = d
               /\ \/ r.pc = "writing" /\ OpenFile(p)
                  \/ r.pc = "saving" /\ r.linked = FALSE
  <2>1. CASE OpenFile(p)
    <3>1. PICK r : r = [handler[p] EXCEPT !.pc = "writing", !.linked = TRUE]
      OBVIOUS
    <3>2. handler' = [handler EXCEPT ![p] = r]
      BY <2>1, <3>1 DEF OpenFile
    <3>3. r \in Handler /\ r.key = k /\ r.document = d /\ r.pc = "writing"
      BY <1>1, <3>1 DEF Handler
    <3> QED BY <2>1, <3>2, <3>3
  <2>2. CASE WriteFile(p)
    <3>1. PICK r : r = [handler[p] EXCEPT !.pc = "saving", !.linked = FALSE]
      OBVIOUS
    <3>2. handler' = [handler EXCEPT ![p] = r]
      BY <2>2, <3>1 DEF WriteFile
    <3>3. r \in Handler /\ r.key = k /\ r.document = d /\ r.pc = "saving" /\ r.linked = FALSE
      BY <1>1, <3>1 DEF Handler
    <3> QED BY <3>2, <3>3
  <2> QED BY <2>1, <2>2
<1>5. HandlerFits(r) /\ HandlerBacked(r)'
  BY <1>1, <1>2, <1>3, <1>4 DEF HandlerFits, HandlerBacked, OfAFile, Uploads, Deletes
<1>6. Moves(p, r)
  BY <1>4, <1>5, OneMoves
<1>7. HandlersOK'
  <2>1. \A q \in Handlers \ {p} : handler'[q].linked => file'[handler[q].key] # None
    BY <1>3, <1>5, <1>6, LinksStay
  <2> QED BY <1>1, <1>2, <1>4, <1>5, <1>6, <2>1, HandlersKeep
<1>8. ASSUME NEW j \in Keys \ apart' PROVE Kept(j)'
  <2>1. CASE j = k
    <3>1. HasFile(handler'[p], k)
      BY <1>4, <1>6 DEF Moves, HasFile
    <3> QED BY <2>1, <3>1 DEF Kept, Held
  <2>2. CASE j # k
    <3>1. Kept(j) /\ file'[j] = file[j] /\ ~HasFile(handler[p], j)
      BY <1>1, <1>2, <1>3, <1>8, <2>2 DEF EvidenceInv, HasFile
    <3>2. \A i \in Documents : document[i] = j /\ ~Gone(handler[p], i) =>
                                   document'[i] = j /\ ~Gone(r, i)
      BY <1>2, <1>4 DEF Gone
    <3> QED BY <1>5, <1>6, <3>1, <3>2, KeptStays
  <2> QED BY <2>1, <2>2
<1>9. EvidenceTypes'
  BY <1>2, <1>3, <1>6 DEF EvidenceInv, EvidenceTypes, Moves
<1> QED BY <1>2, <1>7, <1>8, <1>9, WalksStay DEF EvidenceInv

(* An upload that is refused goes on to remove its file, wherever it got.  *)
LEMMA RefusesUpload ==
    ASSUME EvidenceInv, NEW p \in Handlers,
           handler[p].pc \in {"writing", "saving"}, GoTo(p, "discarding"),
           UNCHANGED <<file, evidence, history, clock>>,
           \/ UNCHANGED <<document, apart>>
           \/ /\ handler[p].pc = "saving"
              /\ document' = [document EXCEPT ![handler[p].document] = handler[p].key]
              /\ apart' = apart \cup {handler[p].key}
    PROVE  EvidenceInv'
<1>1. PICK k \in Keys, d \in Documents :
          /\ k = handler[p].key /\ d = handler[p].document
          /\ handler[p] \in Handler /\ document[d] = None
  BY BusyHandler DEF OfAFile, Uploads
<1>2. PICK r : r = [handler[p] EXCEPT !.pc = "discarding"]
  OBVIOUS
<1>3. handler' = [handler EXCEPT ![p] = r]
  BY <1>2 DEF GoTo
<1>4. r \in Handler /\ r.pc = "discarding" /\ r.key = k /\ r.document = d
  BY <1>1, <1>2 DEF Handler
<1>5. /\ HandlerFits(r) /\ ~Uploads(r) /\ ~Deletes(r)
      /\ r.linked => file'[r.key] # None
  <2>1. r.linked => file[k] # None
    BY <1>1, <1>2, BusyHandler DEF OfAFile
  <2> QED BY <1>1, <1>4, <2>1 DEF HandlerFits, OfAFile, Uploads, Deletes
<1>6. HandlerBacked(r)'
  BY <1>5 DEF HandlerBacked, Uploads, Deletes
<1>7. Moves(p, r)
  BY <1>3, <1>5, OneMoves
<1>8. /\ document' \in [Documents -> Keys \cup {None, Deleted}]
      /\ apart' \subseteq Keys /\ apart \subseteq apart'
      /\ \A i \in Documents : document'[i] = document[i] \/ i = d
      /\ document' = document \/ handler[p].pc = "saving"
  BY <1>1 DEF EvidenceInv, EvidenceTypes
<1>9. HandlersOK'
  <2>1. \A q \in Handlers \ {p} : handler'[q].linked => file'[handler[q].key] # None
    BY <1>5, <1>7, LinksStay
  <2>2. \A i \in Documents : \/ document'[i] = document[i]
                             \/ Uploads(handler[p]) /\ i = handler[p].document
    BY <1>1, <1>8 DEF Uploads
  <2> QED BY <1>5, <1>6, <1>7, <2>1, <2>2, HandlersKeep
<1>10. ASSUME NEW j \in Keys \ apart' PROVE Kept(j)'
  <2>1. Kept(j) /\ file'[j] = file[j]
    BY <1>8, <1>10 DEF EvidenceInv
  <2>2. HasFile(handler[p], j) => HasFile(r, j)
    BY <1>1, <1>4 DEF HasFile
  <2>3. ASSUME NEW i \in Documents, document[i] = j
        PROVE  document'[i] = j /\ ~Gone(r, i)
    <3>1. i # d
      BY <1>1, <1>10, <2>3, KeysAreKeys
    <3> QED BY <1>4, <1>8, <2>3, <3>1 DEF Gone
  <2> QED BY <1>5, <1>7, <2>1, <2>2, <2>3, KeptStays
<1>11. EvidenceTypes'
  BY <1>7, <1>8 DEF EvidenceInv, EvidenceTypes, Moves
<1> QED BY <1>9, <1>10, <1>11, WalksStay DEF EvidenceInv

LEMMA SavesDocument ==
    ASSUME EvidenceInv, NEW p \in Handlers, SaveDocument(p)
    PROVE  EvidenceInv'
<1>1. /\ handler[p].pc = "saving" /\ UNCHANGED <<file, evidence, history, clock>>
  BY DEF SaveDocument, rows, IsAt
<1>2. CASE /\ GoTo(p, "discarding")
           /\ \/ UNCHANGED <<document, apart>>
              \/ /\ document' = [document EXCEPT ![handler[p].document] = handler[p].key]
                 /\ apart' = apart \cup {handler[p].key}
  BY <1>1, <1>2, RefusesUpload
<1>3. CASE /\ \A d \in Documents : document[d] # handler[p].key
           /\ document' = [document EXCEPT ![handler[p].document] = handler[p].key]
           /\ Done(p) /\ UNCHANGED apart
  <2>1. PICK k \in Keys, d \in Documents :
            /\ k = handler[p].key /\ d = handler[p].document /\ document[d] = None
    BY <1>1, BusyHandler DEF OfAFile, Uploads
  <2>2. PICK r : r = AtRest
    OBVIOUS
  <2>3. /\ handler' = [handler EXCEPT ![p] = r] /\ HandlerFits(r)
        /\ HandlerBacked(r)' /\ ~Uploads(r) /\ r.pc = "idle" /\ r.key = None
    BY <1>3, <2>2, AtRestFits DEF Done, HandlerBacked, Uploads, Deletes
  <2>4. Moves(p, r)
    BY <2>3, OneMoves
  <2>5. /\ document' \in [Documents -> Keys \cup {None, Deleted}] /\ document'[d] = k
        /\ \A i \in Documents : document'[i] = document[i] \/ i = d
    BY <1>3, <2>1 DEF EvidenceInv, EvidenceTypes
  <2>6. HandlersOK'
    <3>1. \A q \in Handlers \ {p} : handler'[q].linked => file'[handler[q].key] # None
      BY <1>1, <2>3, <2>4, LinksStay
    <3>2. \A i \in Documents : \/ document'[i] = document[i]
                               \/ Uploads(handler[p]) /\ i = handler[p].document
      BY <1>1, <2>1, <2>5 DEF Uploads
    <3> QED BY <2>3, <2>4, <3>1, <3>2, HandlersKeep
  <2>7. ASSUME NEW j \in Keys \ apart' PROVE Kept(j)'
    <3>1. Kept(j) /\ file'[j] = file[j]
      BY <1>1, <1>3, <2>7 DEF EvidenceInv
    <3>2. CASE j = k
      <4>1. ASSUME NEW q \in Handlers PROVE ~Gone(handler'[q], d)
        <5>1. CASE q = p
          BY <2>3, <2>4, <5>1 DEF Moves, Gone
        <5>2. CASE q # p
          <6>1. handler'[q].pc = handler[q].pc /\ handler'[q].document = handler[q].document
            BY <2>3, <2>4, <5>2, MovesKeepFits
          <6>2. handler[q].pc = "unlisting" =>
                    document[handler[q].document] \in {handler[q].key, Deleted}
                    /\ handler[q].key \in Keys
            BY BusyHandler DEF OfAFile, Deletes
          <6> QED BY <2>1, <6>1, <6>2, KeysAreKeys DEF Gone
        <5> QED BY <5>1, <5>2
      <4> QED BY <2>5, <3>2, <4>1 DEF Kept, Lists
    <3>3. CASE j # k
      <4>1. ~HasFile(handler[p], j)
        BY <2>1, <3>3 DEF HasFile
      <4>2. ASSUME NEW i \in Documents, document[i] = j
            PROVE  document'[i] = j /\ ~Gone(r, i)
        <5>1. i # d
          BY <2>1, <2>7, <4>2, KeysAreKeys
        <5> QED BY <2>3, <2>5, <4>2, <5>1 DEF Gone
      <4> QED BY <2>3, <2>4, <3>1, <4>1, <4>2, KeptStays
    <3> QED BY <3>2, <3>3
  <2>8. EvidenceTypes'
    BY <1>1, <1>3, <2>4, <2>5 DEF EvidenceInv, EvidenceTypes, Moves
  <2> QED BY <1>1, <2>6, <2>7, <2>8, WalksStay DEF EvidenceInv
<1> QED BY <1>2, <1>3 DEF SaveDocument

(* A file is removed: nobody holds it open any more.                       *)
LEMMA RemovesFile ==
    ASSUME EvidenceInv, NEW p \in Handlers, DiscardFile(p) \/ RemoveFile(p)
    PROVE  EvidenceInv'
<1>1. PICK k \in Keys, d \in Documents :
          /\ k = handler[p].key /\ d = handler[p].document
          /\ handler[p].pc \in {"discarding", "removing"} /\ handler[p] \in Handler
          /\ HandlerFits(handler[p])
          /\ handler[p].pc = "removing" => document[d] \in {k, Deleted}
  <2>1. handler[p].pc \in {"discarding", "removing"}
    BY DEF DiscardFile, RemoveFile, IsAt
  <2>2. HandlerFits(handler[p])
    BY DEF EvidenceInv, HandlersOK
  <2> QED BY <2>1, <2>2, BusyHandler DEF OfAFile, Deletes
<1>2. PICK label \in {"idle", "unlisting"} :
          /\ Remove(p, k, label)
          /\ label = "unlisting" => handler[p].pc = "removing"
  BY <1>1 DEF DiscardFile, RemoveFile, IsAt
<1>3. UNCHANGED <<evidence, history, clock, document, apart>>
  BY DEF DiscardFile, RemoveFile, rows
<1>4. file' = [file EXCEPT ![k] = None] /\ file \in [Keys -> (SUBSET Documents) \cup {None}]
  BY <1>2 DEF Remove, EvidenceInv, EvidenceTypes
<1>5. PICK r : r = IF label = "idle" THEN AtRest ELSE [handler[p] EXCEPT !.pc = label]
  OBVIOUS
<1>6. /\ HandlerFits(r) /\ r.pc = label /\ r.linked = FALSE
      /\ label = "unlisting" => r.key = k /\ r.document = d
  <2>1. CASE label = "idle"
    BY <1>5, <2>1, AtRestFits
  <2>2. CASE label = "unlisting"
    <3>1. r = [handler[p] EXCEPT !.pc = "unlisting"] /\ handler[p].linked = FALSE
      BY <1>1, <1>2, <1>5, <2>2 DEF HandlerFits, Handler
    <3>2. /\ r \in Handler /\ r.pc = "unlisting" /\ r.linked = FALSE
          /\ r.key = k /\ r.document = d
      BY <1>1, <3>1 DEF Handler
    <3> QED BY <2>2, <3>2 DEF HandlerFits, OfAFile
  <2> QED BY <2>1, <2>2
<1>7. ASSUME NEW q \in Handlers \ {p}
      PROVE  \/ handler'[q] = handler[q] /\ handler[q].key # k
             \/ /\ handler'[q] = [handler[q] EXCEPT !.linked = FALSE]
                /\ handler'[q] \in Handler /\ handler'[q].linked = FALSE
  <2>1. handler[q] \in Handler
    BY DEF EvidenceInv, EvidenceTypes
  <2>2. CASE handler[q].key = k
    <3>1. handler'[q] = [handler[q] EXCEPT !.linked = FALSE]
      BY <1>2, <2>2 DEF Remove
    <3> QED BY <2>1, <3>1 DEF Handler
  <2>3. CASE handler[q].key # k
    BY <1>2, <2>3 DEF Remove
  <2> QED BY <2>2, <2>3
<1>8. Moves(p, r)
  <2>1. handler'[p] = r /\ handler' = [q \in Handlers |-> handler'[q]]
    BY <1>2, <1>5 DEF Remove
  <2>2. \A q \in Handlers : handler'[q] \in Handler
    BY <1>6, <1>7, <2>1 DEF HandlerFits, EvidenceInv, EvidenceTypes
  <2> QED BY <1>7, <2>1, <2>2 DEF Moves
<1>9. HandlersOK'
  <2>1. ASSUME NEW q \in Handlers \ {p}, handler'[q].linked
        PROVE  file'[handler[q].key] # None
    <3>1. handler'[q] = handler[q] /\ handler[q].key # k
      BY <1>7, <2>1
    <3>2. file[handler[q].key] # None /\ handler[q].key \in Keys
      BY <2>1, <3>1 DEF EvidenceInv, HandlersOK, HandlerBacked, HandlerFits, OfAFile
    <3> QED BY <1>4, <3>1, <3>2
  <2>2. ~Uploads(r)
    BY <1>6 DEF Uploads
  <2>3. HandlerBacked(r)'
    BY <1>1, <1>2, <1>3, <1>6 DEF HandlerBacked, Uploads, Deletes
  <2> QED BY <1>3, <1>6, <1>8, <2>1, <2>2, <2>3, HandlersKeep
<1>10. ASSUME NEW j \in Keys \ apart' PROVE Kept(j)'
  <2>1. CASE j = k
    BY <1>4, <2>1 DEF Kept
  <2>2. CASE j # k
    <3>1. Kept(j) /\ file'[j] = file[j] /\ ~HasFile(handler[p], j)
      BY <1>1, <1>3, <1>4, <1>10, <2>2 DEF EvidenceInv, HasFile
    <3>2. ASSUME NEW i \in Documents, document[i] = j
          PROVE  document'[i] = j /\ ~Gone(r, i)
      <4>1. ~Gone(r, i)
        BY <1>1, <1>2, <1>6, <2>2, <1>10, <3>2, KeysAreKeys DEF Gone
      <4> QED BY <1>3, <3>2, <4>1
    <3> QED BY <1>6, <1>8, <3>1, <3>2, KeptStays
  <2> QED BY <2>1, <2>2
<1>11. EvidenceTypes'
  <2>1. file' \in [Keys -> (SUBSET Documents) \cup {None}]
    BY <1>4
  <2> QED BY <1>3, <1>8, <2>1 DEF EvidenceInv, EvidenceTypes, Moves
<1> QED BY <1>3, <1>9, <1>10, <1>11, WalksStay DEF EvidenceInv

LEMMA DeletesDocument ==
    ASSUME EvidenceInv, NEW p \in Handlers, DeleteDocument(p)
    PROVE  EvidenceInv'
<1>1. PICK k \in Keys, d \in Documents :
          /\ k = handler[p].key /\ d = handler[p].document
          /\ handler[p].pc = "unlisting" /\ document[d] \in {k, Deleted}
  BY BusyHandler DEF DeleteDocument, IsAt, OfAFile, Deletes
<1>2. /\ document' = [document EXCEPT ![d] = Deleted] /\ Done(p)
      /\ UNCHANGED <<evidence, history, clock, file, apart>>
  BY <1>1 DEF DeleteDocument, rows
<1>3. PICK r : r = AtRest
  OBVIOUS
<1>4. /\ handler' = [handler EXCEPT ![p] = r] /\ HandlerFits(r)
      /\ HandlerBacked(r)' /\ ~Uploads(r) /\ r.pc = "idle"
  BY <1>2, <1>3, AtRestFits DEF Done, HandlerBacked, Uploads, Deletes
<1>5. Moves(p, r)
  BY <1>4, OneMoves
<1>6. /\ document' \in [Documents -> Keys \cup {None, Deleted}]
      /\ \A i \in Documents : \/ document'[i] = document[i]
                              \/ i = d /\ document'[i] = Deleted /\ document[i] # None
  BY <1>1, <1>2, KeysAreKeys DEF EvidenceInv, EvidenceTypes
<1>7. HandlersOK'
  <2>1. \A q \in Handlers \ {p} : handler'[q].linked => file'[handler[q].key] # None
    BY <1>2, <1>4, <1>5, LinksStay
  <2> QED BY <1>4, <1>5, <1>6, <2>1, HandlersKeep
<1>8. ASSUME NEW j \in Keys \ apart' PROVE Kept(j)'
  <2>1. Kept(j) /\ file'[j] = file[j] /\ ~HasFile(handler[p], j)
    BY <1>1, <1>2, <1>8 DEF EvidenceInv, HasFile
  <2>2. ASSUME NEW i \in Documents, document[i] = j, ~Gone(handler[p], i)
        PROVE  document'[i] = j /\ ~Gone(r, i)
    BY <1>1, <1>4, <1>6, <2>2 DEF Gone
  <2> QED BY <1>4, <1>5, <2>1, <2>2, KeptStays
<1>9. EvidenceTypes'
  BY <1>2, <1>5, <1>6 DEF EvidenceInv, EvidenceTypes, Moves
<1> QED BY <1>2, <1>7, <1>8, <1>9, WalksStay DEF EvidenceInv

(* A request that ends where it is leaves its file apart, if it has one.   *)
LEMMA BreaksOff ==
    ASSUME EvidenceInv, NEW p \in Handlers, BreakOff(p)
    PROVE  EvidenceInv'
<1>1. /\ handler[p].pc # "idle" /\ Done(p)
      /\ UNCHANGED <<evidence, history, clock, document, file>>
      /\ apart' = IF handler[p].key # None /\ handler[p].pc \notin {"opening", "removing"}
                  THEN apart \cup {handler[p].key} ELSE apart
  BY DEF BreakOff, rows, IsAt
<1>2. PICK r : r = AtRest
  OBVIOUS
<1>3. /\ handler' = [handler EXCEPT ![p] = r] /\ HandlerFits(r)
      /\ HandlerBacked(r)' /\ ~Uploads(r) /\ r.pc = "idle"
  BY <1>1, <1>2, AtRestFits DEF Done, HandlerBacked, Uploads, Deletes
<1>4. Moves(p, r)
  BY <1>3, OneMoves
<1>5. HandlersOK'
  <2>1. \A q \in Handlers \ {p} : handler'[q].linked => file'[handler[q].key] # None
    BY <1>1, <1>3, <1>4, LinksStay
  <2> QED BY <1>1, <1>3, <1>4, <2>1, HandlersKeep
<1>6. handler[p].key \in Keys \cup {None} /\ apart \subseteq Keys
  BY DEF EvidenceInv, EvidenceTypes, Handler
<1>7. ASSUME NEW j \in Keys \ apart' PROVE Kept(j)'
  <2>1. Kept(j) /\ file'[j] = file[j]
    BY <1>1, <1>7 DEF EvidenceInv
  <2>2. ~HasFile(handler[p], j)
    BY <1>1, <1>7, KeysAreKeys DEF HasFile
  <2>3. ASSUME NEW i \in Documents, document[i] = j, ~Gone(handler[p], i)
        PROVE  document'[i] = j /\ ~Gone(r, i)
    BY <1>1, <1>3, <2>3 DEF Gone
  <2> QED BY <1>3, <1>4, <2>1, <2>2, <2>3, KeptStays
<1>8. EvidenceTypes'
  BY <1>1, <1>4, <1>6 DEF EvidenceInv, EvidenceTypes, Moves
<1> QED BY <1>1, <1>5, <1>7, <1>8, WalksStay DEF EvidenceInv

-----------------------------------------------------------------------------
LEMMA EvidenceStart == EvidenceInit => EvidenceInv
<1> SUFFICES ASSUME EvidenceInit PROVE EvidenceInv
  OBVIOUS
<1>1. EvidenceTypes
  BY AtRestFits, KeysAreKeys DEF EvidenceInit, EvidenceTypes
<1>2. HandlersOK
  BY AtRestFits DEF EvidenceInit, HandlersOK, HandlerBacked, Uploads, Deletes
<1>3. \A k \in Keys : Kept(k)
  BY DEF EvidenceInit, Kept
<1>4. \A e \in Items : Walk(e)
  <2> SUFFICES ASSUME NEW e \in Items PROVE Walk(e)
    OBVIOUS
  <2>1. history[e] = <<>> /\ evidence[e] = None
    BY DEF EvidenceInit
  <2>2. Len(<<>>) = 0 /\ 0 % 2 = 0 /\ 1..(0 - 1) = {}
    OBVIOUS
  <2> QED BY <2>1, <2>2 DEF Walk
<1> QED BY <1>1, <1>2, <1>3, <1>4 DEF EvidenceInv

LEMMA EvidenceStep == EvidenceInv /\ [EvidenceNext]_evidenceVars => EvidenceInv'
<1> SUFFICES ASSUME EvidenceInv, [EvidenceNext]_evidenceVars PROVE EvidenceInv'
  OBVIOUS
<1>1. ASSUME NEW e \in Items, AddEvidence(e) PROVE EvidenceInv'
  BY <1>1, AddsEvidence
<1>2. ASSUME NEW p \in Handlers, Receive(p) PROVE EvidenceInv'
  <2>1. ASSUME NEW e \in Items,
               VerifyEvidence(p, e) \/ RejectEvidence(p, e) \/ MarkEvidenceForReview(p, e)
        PROVE  EvidenceInv'
    BY <2>1, StartsVerification DEF VerifyEvidence, RejectEvidence, MarkEvidenceForReview
  <2>2. ASSUME NEW e \in Items, UpdateEvidenceMetadata(p, e) PROVE EvidenceInv'
    BY <2>2, BeginsUpdate
  <2>3. ASSUME NEW e \in Items, UploadDocument(p, e) PROVE EvidenceInv'
    BY <2>3, BeginsUpload DEF UploadDocument
  <2>4. CASE DeleteRequest(p)
    BY <2>4, BeginsDelete DEF DeleteRequest
  <2> QED BY <1>2, <2>1, <2>2, <2>3, <2>4 DEF Receive
<1>3. ASSUME NEW p \in Handlers, Step(p) PROVE EvidenceInv'
  BY <1>3, UpdatesVerification, SavesEvidence, OpensFile, SavesDocument, RemovesFile,
     DeletesDocument DEF Step
<1>4. ASSUME NEW p \in Handlers, RefuseUpload(p) PROVE EvidenceInv'
  <2>1. /\ handler[p].pc \in {"writing", "saving"} /\ GoTo(p, "discarding")
        /\ UNCHANGED <<file, evidence, history, clock, document, apart>>
    BY <1>4 DEF RefuseUpload, IsAt, rows, stored
  <2> QED BY <2>1, RefusesUpload
<1>5. ASSUME NEW p \in Handlers, BreakOff(p) PROVE EvidenceInv'
  BY <1>5, BreaksOff
<1>6. CASE UNCHANGED evidenceVars
  BY <1>6 DEF evidenceVars, EvidenceInv, EvidenceTypes, HandlersOK, HandlerBacked,
              Kept, Held, Lists, Walk
<1> QED BY <1>1, <1>2, <1>3, <1>4, <1>5, <1>6 DEF EvidenceNext

(* Rows, files and handlers agree: what is written to exists, an upload's  *)
(* row is not there yet, files are held or listed, histories are walks.    *)
THEOREM EvidenceInvariance == EvidenceSpec => []EvidenceInv
BY EvidenceStart, EvidenceStep, PTL DEF EvidenceSpec

(* Every row, file and request-local variable of the evidence service      *)
(* keeps its type, and a file that is open for writing exists.             *)
THEOREM EvidenceTypeCorrect == EvidenceSpec => []EvidenceTypeOK
<1>1. EvidenceInv => EvidenceTypeOK
  BY DEF EvidenceInv, EvidenceTypes, HandlersOK, HandlerBacked, EvidenceTypeOK
<1> QED BY <1>1, EvidenceInvariance, PTL

(* UpdateVerificationTx locks the row and checks the transition again: of  *)
(* any number of verifiers who decided on copies of one status, each that  *)
(* is let through moves on from where the one before left the row, and the *)
(* history tells the walk, each step twice.                                *)
THEOREM HistoryTellsTheWalk == EvidenceSpec => []HistoryIsTheWalk
<1>1. EvidenceInv => HistoryIsTheWalk
  BY DEF EvidenceInv, Walk, HistoryIsTheWalk
<1> QED BY <1>1, EvidenceInvariance, PTL

(* The file is written before its row and removed before it, uploads and   *)
(* deletions of one storage key interleave freely: unless a request is     *)
(* broken off between the two, a file has a row or a request at work on    *)
(* its key.                                                                *)
THEOREM NoStrayFiles == EvidenceSpec => []FilesHaveRows
<1>1. EvidenceInv => FilesHaveRows
  BY DEF EvidenceInv, Kept, Held, HasFile, Lists, FilesHaveRows
<1> QED BY <1>1, EvidenceInvariance, PTL
=============================================================================
