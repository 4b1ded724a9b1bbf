------------------------ MODULE FormPublishing_proofs ------------------------
(***************************************************************************)
(* Theorems about FormPublishing and about what CaseForms shows of it, for *)
(* any forms, versions, fields, cases and requests.                        *)
(***************************************************************************)
EXTENDS CaseForms, WellFoundedInduction, TLAPS

-----------------------------------------------------------------------------
(* Well-ordering.                                                          *)

(* A set of numbers that is not empty has a least one.                     *)
LEMMA LeastNumber ==
    ASSUME NEW T, T \subseteq Nat, T # {}
    PROVE  \E n \in T : \A m \in T : n <= m
<1> DEFINE R == {ss \in Nat \X Nat : ss[1] < ss[2]}
<1>1. IsWellFoundedOn(R, Nat)
  BY NatLessThanWellFounded DEF OpToRel
<1>2. \A m, n \in Nat : m < n => <<m, n>> \in R
  OBVIOUS
<1> HIDE DEF R
<1>3. PICK n \in T : \A m \in T : ~(<<m, n>> \in R)
  BY <1>1, WFMin
<1>4. ASSUME NEW m \in T PROVE n <= m
  <2>1. m \in Nat /\ n \in Nat /\ ~(m < n)
    BY <1>2, <1>3
  <2> QED BY <2>1
<1> QED BY <1>4

-----------------------------------------------------------------------------
(* The inductive invariant.                                                *)

(* What a request is about, at each of its steps.                          *)
About(r) ==
    /\ r.pc \in {"updating", "archiving"} => r.form \in Forms
    /\ r.pc \in {"numbering", "ordering", "publishing", "checking", "sharing",
                 "referring", "lockingVersion", "lockingForm", "saving"} =>
           r.version \in Versions /\ r.form = r.version[1]
    /\ r.pc \in {"checking", "sharing", "referring"} =>
           \/ r.op = "assignment"
           \/ r.op = "field" /\ r.field \in Fields /\ r.key \in Keys
    /\ r.pc \in {"changing", "deleting"} => r.field \in Fields
    /\ r.pc \in {"lockingVersion", "lockingForm", "saving"} => r.case \in Cases

Published(v) == version[v] = "PUBLISHED"

(* What it read and still holds, because it never changes again or because *)
(* the request has locked it.                                              *)
Reads(r) ==
    /\ r.pc = "updating" =>
           /\ r.seen \in {"DRAFT", "ACTIVE"}
           /\ r.seen = "ACTIVE" => \E v \in Versions : v[1] = r.form /\ Published(v)
    /\ r.pc \in {"ordering", "publishing"} => version[r.version] # Nil
    /\ r.pc \in {"checking", "sharing", "referring"} /\ r.op = "assignment" =>
           Published(r.version)
    /\ r.pc \in {"lockingForm", "saving"} => Published(r.version)
    /\ r.pc = "saving" => form[r.form] # "ARCHIVED"

Inv ==
    /\ TypeOK
    /\ ActiveFormsHaveAVersion
    /\ AssignedVersionsArePublished
    /\ \A p \in Requests : About(request[p]) /\ Reads(request[p])

-----------------------------------------------------------------------------
(* What preserves the invariant.                                           *)

LEMMA VersionHasForm ==
    ASSUME NEW v \in Versions PROVE v[1] \in Forms
BY VersionsAreNumbered

LEMMA IdleKnowsNothing == Idle \in Requestor /\ About(Idle) /\ Reads(Idle)
BY DEF Idle, Requestor, About, Reads

(* A request that goes on alone changes no table.                          *)
LEMMA RequestGoesOn ==
    ASSUME Inv, UNCHANGED tables, NEW p \in Requests, NEW r \in Requestor,
           request' = [request EXCEPT ![p] = r], About(r), Reads(r)
    PROVE  Inv'
<1>1. TypeOK'
  BY DEF Inv, TypeOK, tables, Field, Requestor
<1>2. ActiveFormsHaveAVersion' /\ AssignedVersionsArePublished'
  BY DEF Inv, ActiveFormsHaveAVersion, AssignedVersionsArePublished, tables
<1>3. ASSUME NEW q \in Requests
      PROVE  About(request'[q]) /\ Reads(request'[q])
  BY DEF Inv, TypeOK
<1>4. ASSUME NEW q \in Requests
      PROVE  (About(request[q]) /\ Reads(request[q]))'
  BY <1>3 DEF About, Reads, Published, tables
<1> QED BY <1>1, <1>2, <1>4 DEF Inv

(* Published versions stay published and no row disappears.                *)
Grows ==
    \A v \in Versions : /\ Published(v) => Published(v)'
                        /\ version[v] # Nil => version'[v] # Nil

(* A request that writes and is done leaves the others what they know.     *)
LEMMA RequestWrites ==
    ASSUME Inv, NEW p \in Requests, Done(p), Grows,
           form' \in [Forms -> FormStatus \cup {Nil}],
           version' \in [Versions -> VersionStatus \cup {Nil}],
           field' \in [Fields -> Field \cup {Nil, Deleted}],
           assigned' \subseteq Versions,
           submissions' \subseteq
               [case : Cases, version : Versions, answers : SUBSET Keys],
           ActiveFormsHaveAVersion', AssignedVersionsArePublished',
           \A q \in Requests \ {p} : request[q].pc = "saving" =>
               form'[request[q].form] # "ARCHIVED"
    PROVE  Inv'
<1>1. TypeOK'
  BY IdleKnowsNothing DEF Inv, TypeOK, Done
<1>2. (About(request[p]) /\ Reads(request[p]))'
  <2>1. request'[p] = Idle
    BY DEF Inv, TypeOK, Done
  <2> QED BY <2>1 DEF Idle, About, Reads
<1>3. ASSUME NEW q \in Requests \ {p}
      PROVE  (About(request[q]) /\ Reads(request[q]))'
  <2>1. request'[q] = request[q] /\ About(request[q]) /\ Reads(request[q])
    BY DEF Inv, TypeOK, Done
  <2>2. About(request[q])'
    BY <2>1 DEF About
  <2>3. Reads(request[q])'
    BY <2>1 DEF Reads, About, Grows, Published
  <2> QED BY <2>2, <2>3
<1> QED BY <1>1, <1>2, <1>3 DEF Inv

(* The same when only the tables that nothing is known of are written.     *)
LEMMA RequestWritesElsewhere ==
    ASSUME Inv, NEW p \in Requests, Done(p), UNCHANGED <<form, version>>,
           field' \in [Fields -> Field \cup {Nil, Deleted}],
           assigned' \subseteq Versions,
           \A v \in assigned' : Published(v),
           submissions' \subseteq
               [case : Cases, version : Versions, answers : SUBSET Keys]
    PROVE  Inv'
<1>1. Grows
  BY DEF Grows, Published
<1>2. ActiveFormsHaveAVersion' /\ AssignedVersionsArePublished'
  BY DEF Inv, ActiveFormsHaveAVersion, AssignedVersionsArePublished, Published
<1>3. \A q \in Requests : request[q].pc = "saving" => form'[request[q].form] # "ARCHIVED"
  BY DEF Inv, Reads
<1> QED BY <1>1, <1>2, <1>3, RequestWrites DEF Inv, TypeOK

(* No other request is about to save a submission of the form p changes.   *)
LEMMA NobodySaves ==
    ASSUME NEW p \in Requests, CanLock(p), NEW q \in Requests \ {p},
           request[q].pc = "saving",
           request[p].pc \in {"updating", "archiving", "publishing"}
    PROVE  request[q].form # request[p].form
<1>1. Lock(request[q].form, "update") \in Holds(q)
  BY DEF Holds
<1>2. Lock(request[p].form, "no key update") \in Wants(p)
  BY DEF Wants
<1>3. Conflict("update", "no key update")
  BY DEF Conflict
<1>4. \A h \in Holds(q), w \in Wants(p) : ~(h.row = w.row /\ Conflict(h.mode, w.mode))
  BY DEF CanLock, WaitsFor
<1> QED BY <1>1, <1>2, <1>3, <1>4 DEF Lock

-----------------------------------------------------------------------------
(* Forms and versions.                                                     *)

LEMMA CreateFormPreserves ==
    ASSUME Inv, NEW f \in Forms, CreateForm(f) PROVE Inv'
<1> USE DEF CreateForm
<1>1. TypeOK'
  BY DEF Inv, TypeOK, FormStatus
<1>2. ActiveFormsHaveAVersion' /\ AssignedVersionsArePublished'
  BY DEF Inv, TypeOK, ActiveFormsHaveAVersion, AssignedVersionsArePublished
<1>3. ASSUME NEW q \in Requests
      PROVE  (About(request[q]) /\ Reads(request[q]))'
  <2>1. About(request[q]) /\ Reads(request[q])
    BY DEF Inv
  <2>2. request[q].pc = "saving" => request[q].form \in Forms
    BY <2>1, VersionHasForm DEF About
  <2> QED BY <2>1, <2>2 DEF Inv, TypeOK, About, Reads, Published
<1> QED BY <1>1, <1>2, <1>3 DEF Inv

LEMMA UpdateFormPreserves ==
    ASSUME Inv, NEW p \in Requests, UpdateForm(p) PROVE Inv'
<1> DEFINE r == request[p]
<1>1. r.form \in Forms /\ Reads(r) /\ r.pc = "updating"
  BY DEF Inv, UpdateForm, About
<1>2. Grows
  BY DEF UpdateForm, Grows, Published
<1>3. form' \in [Forms -> FormStatus \cup {Nil}]
  BY <1>1 DEF Inv, TypeOK, UpdateForm, Reads, FormStatus
<1>4. ActiveFormsHaveAVersion' /\ AssignedVersionsArePublished'
  BY <1>1 DEF Inv, TypeOK, UpdateForm, ActiveFormsHaveAVersion,
              AssignedVersionsArePublished, Reads, Published
<1>5. ASSUME NEW q \in Requests \ {p}, request[q].pc = "saving"
      PROVE  form'[request[q].form] # "ARCHIVED"
  <2>1. request[q].form # r.form
    BY <1>1, <1>5, NobodySaves DEF UpdateForm
  <2>2. form[request[q].form] # "ARCHIVED" /\ request[q].form \in Forms
    BY <1>5, VersionHasForm DEF Inv, About, Reads
  <2> QED BY <2>1, <2>2 DEF Inv, TypeOK, UpdateForm
<1> QED BY <1>2, <1>3, <1>4, <1>5, RequestWrites DEF Inv, TypeOK, UpdateForm

LEMMA ArchiveFormPreserves ==
    ASSUME Inv, NEW p \in Requests, ArchiveForm(p) PROVE Inv'
<1> DEFINE r == request[p]
<1>1. r.form \in Forms /\ r.pc = "archiving"
  BY DEF Inv, ArchiveForm, About
<1>2. Grows
  BY DEF ArchiveForm, Grows, Published
<1>3. form' \in [Forms -> FormStatus \cup {Nil}]
  BY <1>1 DEF Inv, TypeOK, ArchiveForm, FormStatus
<1>4. ActiveFormsHaveAVersion' /\ AssignedVersionsArePublished'
  BY <1>1 DEF Inv, TypeOK, ArchiveForm, ActiveFormsHaveAVersion,
              AssignedVersionsArePublished
<1>5. ASSUME NEW q \in Requests \ {p}, request[q].pc = "saving"
      PROVE  form'[request[q].form] # "ARCHIVED"
  <2>1. request[q].form # r.form
    BY <1>1, <1>5, NobodySaves DEF ArchiveForm
  <2>2. form[request[q].form] # "ARCHIVED" /\ request[q].form \in Forms
    BY <1>5, VersionHasForm DEF Inv, About, Reads
  <2> QED BY <2>1, <2>2 DEF Inv, TypeOK, ArchiveForm
<1> QED BY <1>2, <1>3, <1>4, <1>5, RequestWrites DEF Inv, TypeOK, ArchiveForm

LEMMA CreateVersionPreserves ==
    ASSUME Inv, NEW p \in Requests, CreateVersion(p) PROVE Inv'
<1> DEFINE v == request[p].version
<1>1. v \in Versions
  BY DEF Inv, CreateVersion, About
<1>2. Grows
  BY <1>1, NilIsNoValue DEF Inv, TypeOK, CreateVersion, Grows, Published,
                            VersionStatus
<1>3. version' \in [Versions -> VersionStatus \cup {Nil}]
  BY <1>1 DEF Inv, TypeOK, CreateVersion, VersionStatus
<1>4. ActiveFormsHaveAVersion' /\ AssignedVersionsArePublished'
  BY <1>2 DEF Inv, TypeOK, CreateVersion, ActiveFormsHaveAVersion,
              AssignedVersionsArePublished, Grows, Published
<1>5. \A q \in Requests : request[q].pc = "saving" => form'[request[q].form] # "ARCHIVED"
  BY DEF Inv, Reads, CreateVersion
<1> QED BY <1>2, <1>3, <1>4, <1>5, RequestWrites DEF Inv, TypeOK, CreateVersion

LEMMA PublishVersionPreserves ==
    ASSUME Inv, NEW p \in Requests, PublishVersion(p) PROVE Inv'
<1> DEFINE r == request[p]
<1>1. r.version \in Versions /\ r.form = r.version[1] /\ r.form \in Forms
  BY VersionHasForm DEF Inv, PublishVersion, About
<1>2. version' = [version EXCEPT ![r.version] = "PUBLISHED"]
  BY DEF PublishVersion
<1>3. Grows
  BY <1>1, <1>2, NilIsNoValue DEF Inv, TypeOK, Grows, Published, VersionStatus
<1>4. version' \in [Versions -> VersionStatus \cup {Nil}]
  BY <1>1, <1>2 DEF Inv, TypeOK, VersionStatus
<1>5. form' \in [Forms -> FormStatus \cup {Nil}]
  BY <1>1 DEF Inv, TypeOK, PublishVersion, FormStatus
<1>6. AssignedVersionsArePublished'
  BY <1>3 DEF Inv, TypeOK, PublishVersion, AssignedVersionsArePublished, Grows,
              Published
<1>7. ActiveFormsHaveAVersion'
  <2>1. version'[r.version] = "PUBLISHED"
    BY <1>1, <1>2 DEF Inv, TypeOK
  <2>2. ASSUME NEW f \in Forms, form'[f] = "ACTIVE"
        PROVE  \E v \in Versions : v[1] = f /\ version'[v] = "PUBLISHED"
    <3>1. CASE f = r.form
      BY <1>1, <2>1, <3>1
    <3>2. CASE f # r.form
      <4>1. form[f] = "ACTIVE"
        BY <2>2, <3>2 DEF PublishVersion, Inv, TypeOK
      <4> QED BY <4>1, <1>3 DEF Inv, ActiveFormsHaveAVersion, Grows, Published
    <3> QED BY <3>1, <3>2
  <2> QED BY <2>2 DEF ActiveFormsHaveAVersion
<1>8. ASSUME NEW q \in Requests \ {p}, request[q].pc = "saving"
      PROVE  form'[request[q].form] # "ARCHIVED"
  <2>1. form[request[q].form] # "ARCHIVED" /\ request[q].form \in Forms
    BY <1>8, VersionHasForm DEF Inv, About, Reads
  <2> QED BY <2>1, <1>1 DEF Inv, TypeOK, PublishVersion
<1> QED BY <1>3, <1>4, <1>5, <1>6, <1>7, <1>8, RequestWrites
        DEF Inv, TypeOK, PublishVersion

-----------------------------------------------------------------------------
(* Fields, assignments and submissions.                                    *)

LEMMA InsertPreserves ==
    ASSUME Inv, NEW p \in Requests, Insert(p) PROVE Inv'
<1> DEFINE r == request[p]
<1>1. /\ r.version \in Versions
      /\ r.op = "assignment" => Published(r.version)
      /\ r.op = "field" => r.field \in Fields /\ r.key \in Keys
  BY DEF Inv, Insert, About, Reads
<1>2. field' \in [Fields -> Field \cup {Nil, Deleted}]
  <2>1. CASE UNCHANGED field
    BY <2>1 DEF Inv, TypeOK
  <2>2. ASSUME NEW required \in BOOLEAN, r.op = "field",
               field' = [field EXCEPT ![r.field] = [version |-> r.version,
                             key |-> r.key, required |-> required]]
        PROVE  field' \in [Fields -> Field \cup {Nil, Deleted}]
    <3>1. [version |-> r.version, key |-> r.key, required |-> required] \in Field
      BY <1>1, <2>2 DEF Field
    <3> QED BY <3>1, <2>2, <1>1 DEF Inv, TypeOK
  <2> QED BY <2>1, <2>2 DEF Insert
<1>3. assigned' \subseteq Versions /\ \A v \in assigned' : Published(v)
  BY <1>1 DEF Inv, TypeOK, Insert, AssignedVersionsArePublished, Published
<1> QED BY <1>2, <1>3, RequestWritesElsewhere DEF Inv, TypeOK, Insert

LEMMA DeleteAssignmentPreserves ==
    ASSUME Inv, NEW v \in Versions, DeleteAssignment(v) PROVE Inv'
BY DEF Inv, TypeOK, DeleteAssignment, ActiveFormsHaveAVersion,
       AssignedVersionsArePublished, About, Reads, Published

LEMMA UpdateFieldPreserves ==
    ASSUME Inv, NEW p \in Requests, UpdateField(p) PROVE Inv'
<1> DEFINE i == request[p].field
<1>1. i \in Fields
  BY DEF Inv, UpdateField, About
<1>2. field' \in [Fields -> Field \cup {Nil, Deleted}]
  <2>1. CASE UNCHANGED field
    BY <2>1 DEF Inv, TypeOK
  <2>2. ASSUME NEW required \in BOOLEAN, Live(i),
               field' = [field EXCEPT ![i].required = required]
        PROVE  field' \in [Fields -> Field \cup {Nil, Deleted}]
    <3>1. field[i] \in Field
      BY <1>1, <2>2 DEF Inv, TypeOK, Live
    <3>2. [field[i] EXCEPT !.required = required] \in Field
      BY <3>1 DEF Field
    <3> QED BY <3>2, <2>2, <1>1 DEF Inv, TypeOK
  <2> QED BY <2>1, <2>2 DEF UpdateField
<1> QED BY <1>2, RequestWritesElsewhere
        DEF Inv, TypeOK, UpdateField, AssignedVersionsArePublished, Published

LEMMA DeleteFieldPreserves ==
    ASSUME Inv, NEW p \in Requests, DeleteField(p) PROVE Inv'
<1>1. field' \in [Fields -> Field \cup {Nil, Deleted}]
  BY DEF Inv, TypeOK, DeleteField, About
<1> QED BY <1>1, RequestWritesElsewhere
        DEF Inv, TypeOK, DeleteField, AssignedVersionsArePublished, Published

LEMMA SaveSubmissionPreserves ==
    ASSUME Inv, NEW p \in Requests, SaveSubmission(p) PROVE Inv'
<1> DEFINE r == request[p]
<1>1. r.case \in Cases /\ r.version \in Versions /\ r.answers \in SUBSET Keys
  BY DEF Inv, TypeOK, Requestor, About, SaveSubmission
<1>2. submissions' \subseteq
          [case : Cases, version : Versions, answers : SUBSET Keys]
  BY <1>1 DEF Inv, TypeOK, SaveSubmission
<1> QED BY <1>2, RequestWritesElsewhere
        DEF Inv, TypeOK, SaveSubmission, AssignedVersionsArePublished, Published

-----------------------------------------------------------------------------
(* The steps that only change a request.                                   *)

LEMMA RefusePreserves ==
    ASSUME Inv, NEW p \in Requests, Refuse(p) PROVE Inv'
BY IdleKnowsNothing, RequestGoesOn DEF Refuse, Done

LEMMA GoToPreserves ==
    ASSUME Inv, NEW p \in Requests, NEW label, GoTo(p, label),
           [request[p] EXCEPT !.pc = label] \in Requestor,
           About([request[p] EXCEPT !.pc = label]),
           Reads([request[p] EXCEPT !.pc = label])
    PROVE  Inv'
BY RequestGoesOn DEF GoTo, Inv, TypeOK

LEMMA StartPreserves ==
    ASSUME Inv, NEW p \in Requests, Start(p) PROVE Inv'
<1> USE RequestGoesOn, VersionHasForm
    DEF Begin, Idle, Requestor, About, Reads, Published
<1>1. ASSUME NEW f \in Forms, StartUpdate(p, f) PROVE Inv'
  <2>1. form[f] \in {"DRAFT", "ACTIVE"}
    BY <1>1 DEF Inv, TypeOK, FormStatus, StartUpdate
  <2>2. form[f] = "ACTIVE" => \E v \in Versions : v[1] = f /\ Published(v)
    BY DEF Inv, ActiveFormsHaveAVersion
  <2> QED BY <1>1, <2>1, <2>2 DEF StartUpdate, FormStatus
<1>2. ASSUME NEW f \in Forms, StartArchive(p, f) PROVE Inv'
  BY <1>2 DEF StartArchive
<1>3. ASSUME NEW v \in Versions, StartVersion(p, v) PROVE Inv'
  BY <1>3 DEF StartVersion
<1>4. ASSUME NEW v \in Versions, StartPublish(p, v) PROVE Inv'
  BY <1>4, NilIsNoValue DEF StartPublish, VersionStatus
<1>5. ASSUME NEW v \in Versions, StartAssign(p, v) PROVE Inv'
  BY <1>5 DEF StartAssign
<1>6. ASSUME NEW v \in Versions, NEW k \in Keys, NEW i \in Fields,
             StartAddField(p, v, k, i)
      PROVE  Inv'
  BY <1>6 DEF StartAddField
<1>7. ASSUME NEW v \in Versions, NEW c \in Cases, NEW answers \in SUBSET Keys,
             StartSubmit(p, c, v, answers)
      PROVE  Inv'
  BY <1>7 DEF StartSubmit
<1>8. ASSUME NEW i \in Fields, NEW label \in {"changing", "deleting"},
             StartEdit(p, i, label)
      PROVE  Inv'
  BY <1>8 DEF StartEdit
<1> QED BY <1>1, <1>2, <1>3, <1>4, <1>5, <1>6, <1>7, <1>8 DEF Start

LEMMA StepPreserves ==
    ASSUME Inv, NEW p \in Requests, Step(p) PROVE Inv'
<1> DEFINE r == request[p]
<1>1. r \in Requestor /\ About(r) /\ Reads(r)
  BY DEF Inv, TypeOK
<1>2. CASE CheckNewer(p)
  <2>1. CASE GoTo(p, "publishing") /\ r.pc = "ordering"
    BY <1>1, <2>1, GoToPreserves DEF Requestor, About, Reads
  <2> QED BY <1>2, <2>1, RefusePreserves DEF CheckNewer
<1>3. CASE CheckDuplicate(p)
  <2>1. CASE GoTo(p, "sharing") /\ r.pc = "checking"
    <3> DEFINE s == [r EXCEPT !.pc = "sharing"]
    <3>1. s \in Requestor
      BY <1>1 DEF Requestor
    <3>2. About(s)
      BY <1>1, <2>1 DEF Requestor, About
    <3>3. Reads(s)
      BY <1>1, <2>1 DEF Requestor, Reads
    <3> QED BY <2>1, <3>1, <3>2, <3>3, GoToPreserves
  <2> QED BY <1>3, <2>1, RefusePreserves DEF CheckDuplicate
<1>4. CASE ShareForm(p)
  <2> DEFINE s == [r EXCEPT !.pc = "referring"]
  <2>1. s \in Requestor
    BY <1>1 DEF Requestor
  <2>2. About(s)
    BY <1>1, <1>4 DEF Requestor, About, ShareForm
  <2>3. Reads(s)
    BY <1>1, <1>4 DEF Requestor, Reads, ShareForm
  <2> QED BY <1>4, <2>1, <2>2, <2>3, GoToPreserves DEF ShareForm
<1>5. CASE LockVersion(p)
  <2>1. CASE GoTo(p, "lockingForm") /\ r.pc = "lockingVersion" /\ Published(r.version)
    BY <1>1, <2>1, GoToPreserves DEF Requestor, About, Reads, Published
  <2> QED BY <1>5, <2>1, RefusePreserves DEF LockVersion, Published
<1>6. CASE LockForm(p)
  <2>1. CASE GoTo(p, "saving") /\ r.pc = "lockingForm" /\ form[r.form] # "ARCHIVED"
    <3> DEFINE s == [r EXCEPT !.pc = "saving"]
    <3>1. s \in Requestor
      BY <1>1 DEF Requestor
    <3>2. About(s)
      BY <1>1, <2>1 DEF Requestor, About
    <3>3. Reads(s)
      BY <1>1, <2>1 DEF Requestor, Reads
    <3> QED BY <2>1, <3>1, <3>2, <3>3, GoToPreserves
  <2> QED BY <1>6, <2>1, RefusePreserves DEF LockForm
<1>7. CASE UpdateForm(p) \/ ArchiveForm(p) \/ CreateVersion(p) \/ PublishVersion(p)
  BY <1>7, UpdateFormPreserves, ArchiveFormPreserves, CreateVersionPreserves,
     PublishVersionPreserves
<1>8. CASE Insert(p) \/ UpdateField(p) \/ DeleteField(p) \/ SaveSubmission(p)
  BY <1>8, InsertPreserves, UpdateFieldPreserves, DeleteFieldPreserves,
     SaveSubmissionPreserves
<1> QED BY <1>2, <1>3, <1>4, <1>5, <1>6, <1>7, <1>8 DEF Step

LEMMA StutterPreserves == Inv /\ UNCHANGED vars => Inv'
BY DEF Inv, TypeOK, vars, ActiveFormsHaveAVersion, AssignedVersionsArePublished,
       About, Reads, Published, Field, Requestor

-----------------------------------------------------------------------------
(* Every step preserves it.                                                *)
LEMMA InvStep == Inv /\ [Next]_vars => Inv'
<1> SUFFICES ASSUME Inv, [Next]_vars PROVE Inv'
  OBVIOUS
<1>1. ASSUME NEW f \in Forms, CreateForm(f) PROVE Inv'
  BY <1>1, CreateFormPreserves
<1>2. ASSUME NEW v \in Versions, DeleteAssignment(v) PROVE Inv'
  BY <1>2, DeleteAssignmentPreserves
<1>3. ASSUME NEW p \in Requests, Start(p) PROVE Inv'
  BY <1>3, StartPreserves
<1>4. ASSUME NEW p \in Requests, Step(p) PROVE Inv'
  BY <1>4, StepPreserves
<1>5. ASSUME NEW p \in Requests, DeadlockAbort(p) \/ Fail(p) PROVE Inv'
  BY <1>5, RefusePreserves DEF DeadlockAbort, Fail
<1>6. CASE UNCHANGED vars
  BY <1>6, StutterPreserves
<1> QED BY <1>1, <1>2, <1>3, <1>4, <1>5, <1>6 DEF Next

(* Inv, what every row and every request may be relied on for, holds in    *)
(* every reachable state.                                                  *)
THEOREM Invariance == Spec => []Inv
<1>1. Init => Inv
  <2> SUFFICES ASSUME Init PROVE Inv
    OBVIOUS
  <2>1. TypeOK
    BY IdleKnowsNothing DEF Init, TypeOK
  <2>2. ActiveFormsHaveAVersion /\ AssignedVersionsArePublished
    BY NilIsNoValue DEF Init, ActiveFormsHaveAVersion,
        AssignedVersionsArePublished, FormStatus
  <2>3. \A p \in Requests : About(request[p]) /\ Reads(request[p])
    BY IdleKnowsNothing DEF Init
  <2> QED BY <2>1, <2>2, <2>3 DEF Inv
<1> QED BY <1>1, InvStep, PTL DEF Spec

(* Every row and every local variable of a request keeps its type.         *)
THEOREM TypeCorrect == Spec => []TypeOK
<1>1. Inv => TypeOK
  BY DEF Inv
<1> QED BY <1>1, Invariance, PTL

(* However late UpdateForm writes a status back, an active form has a      *)
(* published version.                                                      *)
THEOREM ActiveHaveAVersion == Spec => []ActiveFormsHaveAVersion
<1>1. Inv => ActiveFormsHaveAVersion
  BY DEF Inv
<1> QED BY <1>1, Invariance, PTL

(* However long ago CreateAssignment looked, what it assigns is published. *)
THEOREM AssignedArePublished == Spec => []AssignedVersionsArePublished
<1>1. Inv => AssignedVersionsArePublished
  BY DEF Inv
<1> QED BY <1>1, Invariance, PTL

(* A version is created once and published once and never goes back.       *)
THEOREM Forward == Spec => VersionsMoveForward
<1> DEFINE Steps(v) ==
        version'[v] # version[v] =>
            <<version[v], version'[v]>> \in
                {<<Nil, "DRAFT">>, <<"DRAFT", "PUBLISHED">>}
<1>1. ASSUME Inv, [Next]_vars, NEW v \in Versions PROVE Steps(v)
  <2>1. CASE UNCHANGED version
    BY <2>1
  <2>2. ASSUME NEW p \in Requests, CreateVersion(p) PROVE Steps(v)
    BY <2>2 DEF Inv, TypeOK, CreateVersion
  <2>3. ASSUME NEW p \in Requests, PublishVersion(p) PROVE Steps(v)
    <3>1. version[request[p].version] \in VersionStatus
      BY <1>1, <2>3 DEF Inv, TypeOK, About, Reads, PublishVersion
    <3> QED BY <1>1, <2>3, <3>1 DEF Inv, TypeOK, PublishVersion, VersionStatus
  <2>4. CASE UNCHANGED tables
    BY <2>4 DEF tables
  <2> QED BY <1>1, <2>1, <2>2, <2>3 DEF Next, vars, tables, CreateForm,
          DeleteAssignment, Start, StartUpdate, StartArchive, StartVersion,
          StartPublish, StartAssign, StartAddField, StartSubmit, StartEdit, Begin,
          Step, UpdateForm, ArchiveForm, CheckNewer, CheckDuplicate, ShareForm,
          Insert, UpdateField, DeleteField, LockVersion, LockForm,
          SaveSubmission, GoTo, Refuse, DeadlockAbort, Fail
<1>2. Inv /\ [Next]_vars => [\A v \in Versions : Steps(v)]_vars
  BY <1>1
<1> QED BY <1>2, Invariance, PTL DEF Spec, VersionsMoveForward

(* What the locks a submission takes promise: what it is accepted for is   *)
(* still so when it is committed.                                          *)
THEOREM Accepted == Spec => AcceptedAsDefined
<1> DEFINE Sound(s) ==
        /\ ~Submitted(s.case, s.version)
        /\ version[s.version] = "PUBLISHED" /\ s.version \in assigned
        /\ form[s.version[1]] # "ARCHIVED"
        /\ Accepts(s.version, s.answers)
<1>1. ASSUME Inv, [Next]_vars, NEW s \in submissions' \ submissions PROVE Sound(s)
  <2>1. ASSUME NEW p \in Requests, SaveSubmission(p) PROVE Sound(s)
    <3> DEFINE r == request[p]
    <3>1. /\ r.form = r.version[1] /\ form[r.form] # "ARCHIVED"
          /\ version[r.version] = "PUBLISHED"
      BY <1>1, <2>1 DEF Inv, About, Reads, Published, SaveSubmission
    <3>2. /\ s = [case |-> r.case, version |-> r.version, answers |-> r.answers]
          /\ r.version \in assigned /\ ~Submitted(r.case, r.version)
          /\ Accepts(r.version, r.answers)
      BY <1>1, <2>1 DEF SaveSubmission
    <3> QED BY <3>1, <3>2
  <2>2. CASE UNCHANGED submissions
    BY <2>2
  <2> QED BY <1>1, <2>1, <2>2 DEF Next, vars, tables, CreateForm,
          DeleteAssignment, Start, StartUpdate, StartArchive, StartVersion,
          StartPublish, StartAssign, StartAddField, StartSubmit, StartEdit, Begin,
          Step, UpdateForm, ArchiveForm, CreateVersion, CheckNewer,
          PublishVersion, CheckDuplicate, ShareForm, Insert, UpdateField,
          DeleteField, LockVersion, LockForm, GoTo, Refuse, DeadlockAbort, Fail
<1>2. Inv /\ [Next]_vars => [\A s \in submissions' \ submissions : Sound(s)]_vars
  BY <1>1
<1> QED BY <1>2, Invariance, PTL DEF Spec, AcceptedAsDefined

-----------------------------------------------------------------------------
(* What a case shows of its forms.                                         *)

(* A version belongs to a form that is there, as form_versions.form_id     *)
(* says; and so does the one a request is about to create.                 *)
VersionsHaveForms ==
    /\ \A v \in Versions : version[v] # Nil => form[v[1]] # Nil
    /\ \A p \in Requests :
          request[p].pc = "numbering" => form[request[p].form] # Nil

(* No form disappears: what UpdateForm writes back was there.              *)
LEMMA FormsStay ==
    ASSUME Inv, [Next]_vars, NEW f \in Forms, form[f] # Nil
    PROVE  form'[f] # Nil
<1>1. ASSUME NEW p \in Requests, UpdateForm(p) PROVE form'[f] # Nil
  <2>1. request[p].seen # Nil
    BY <1>1, NilIsNoValue DEF Inv, Reads, UpdateForm, FormStatus
  <2> QED BY <1>1, <2>1 DEF UpdateForm, Inv, TypeOK
<1>2. ASSUME NEW p \in Requests, ArchiveForm(p) \/ PublishVersion(p)
      PROVE  form'[f] # Nil
  BY <1>2, NilIsNoValue DEF ArchiveForm, PublishVersion, Inv, TypeOK, FormStatus
<1>3. ASSUME NEW g \in Forms, CreateForm(g) PROVE form'[f] # Nil
  BY <1>3, NilIsNoValue DEF CreateForm, Inv, TypeOK, FormStatus
<1>4. CASE UNCHANGED form
  BY <1>4
<1> QED BY <1>1, <1>2, <1>3, <1>4 DEF Next, vars, tables,
        DeleteAssignment, Start, StartUpdate, StartArchive, StartVersion,
        StartPublish, StartAssign, StartAddField, StartSubmit, StartEdit, Begin,
        Step, CreateVersion, CheckNewer, CheckDuplicate, ShareForm, Insert,
        UpdateField, DeleteField, LockVersion, LockForm, SaveSubmission, GoTo,
        Refuse, DeadlockAbort, Fail

(* A version is new only if a request has created it.                      *)
LEMMA VersionsAreCreated ==
    ASSUME Inv, [Next]_vars, NEW v \in Versions, version[v] = Nil, version'[v] # Nil
    PROVE  \E p \in Requests : CreateVersion(p) /\ v = request[p].version
<1>1. ASSUME NEW p \in Requests, CreateVersion(p) PROVE v = request[p].version
  BY <1>1 DEF CreateVersion, Inv, TypeOK
<1>2. ASSUME NEW p \in Requests, PublishVersion(p) PROVE FALSE
  BY <1>2 DEF PublishVersion, Inv, TypeOK, Reads
<1>3. ~UNCHANGED version
  OBVIOUS
<1> QED BY <1>1, <1>2, <1>3 DEF Next, vars, tables, CreateForm,
        DeleteAssignment, Start, StartUpdate, StartArchive, StartVersion,
        StartPublish, StartAssign, StartAddField, StartSubmit, StartEdit, Begin,
        Step, UpdateForm, ArchiveForm, CheckNewer, CheckDuplicate, ShareForm,
        Insert, UpdateField, DeleteField, LockVersion, LockForm,
        SaveSubmission, GoTo, Refuse, DeadlockAbort, Fail

(* A request that is to create a version has found its form.               *)
LEMMA NumberingHasBegun ==
    ASSUME Inv, [Next]_vars, NEW p \in Requests, request'[p].pc = "numbering"
    PROVE  request'[p] = request[p] \/ form[request'[p].form] # Nil
<1>1. ASSUME NEW q \in Requests, Done(q) PROVE request'[p] = request[p]
  BY <1>1 DEF Done, Inv, TypeOK, Idle
<1>2. ASSUME NEW q \in Requests, NEW label, GoTo(q, label), label # "numbering"
      PROVE  request'[p] = request[p]
  BY <1>2 DEF GoTo, Inv, TypeOK, Requestor
<1>3. ASSUME NEW q \in Requests, NEW r, Begin(q, r), r.pc # "numbering"
      PROVE  request'[p] = request[p]
  BY <1>3 DEF Begin, Inv, TypeOK
<1>4. ASSUME NEW q \in Requests, Start(q)
      PROVE  request'[p] = request[p] \/ form[request'[p].form] # Nil
  <2>1. ASSUME NEW v \in Versions, StartVersion(q, v)
        PROVE  request'[p] = request[p] \/ form[request'[p].form] # Nil
    BY <2>1 DEF StartVersion, Begin, Idle, Inv, TypeOK
  <2>2. ASSUME NEW f \in Forms, StartUpdate(q, f) \/ StartArchive(q, f)
        PROVE  request'[p] = request[p]
    BY <2>2, <1>3 DEF StartUpdate, StartArchive, Idle
  <2>3. ASSUME NEW v \in Versions, StartPublish(q, v) \/ StartAssign(q, v)
        PROVE  request'[p] = request[p]
    BY <2>3, <1>3 DEF StartPublish, StartAssign, Idle
  <2>4. ASSUME NEW v \in Versions, NEW k \in Keys, NEW i \in Fields,
               StartAddField(q, v, k, i)
        PROVE  request'[p] = request[p]
    BY <2>4, <1>3 DEF StartAddField, Idle
  <2>5. ASSUME NEW v \in Versions, NEW c \in Cases, NEW answers \in SUBSET Keys,
               StartSubmit(q, c, v, answers)
        PROVE  request'[p] = request[p]
    BY <2>5, <1>3 DEF StartSubmit, Idle
  <2>6. ASSUME NEW i \in Fields, NEW label \in {"changing", "deleting"},
               StartEdit(q, i, label)
        PROVE  request'[p] = request[p]
    BY <2>6, <1>3 DEF StartEdit, Idle
  <2> QED BY <1>4, <2>1, <2>2, <2>3, <2>4, <2>5, <2>6 DEF Start
<1>5. ASSUME NEW q \in Requests, Step(q) PROVE request'[p] = request[p]
  BY <1>5, <1>1, <1>2 DEF Step, UpdateForm, ArchiveForm, CreateVersion, CheckNewer,
     PublishVersion, CheckDuplicate, ShareForm, Insert, UpdateField, DeleteField,
     LockVersion, LockForm, SaveSubmission, Refuse
<1>6. CASE UNCHANGED request
  BY <1>6
<1> QED BY <1>1, <1>4, <1>5, <1>6 DEF Next, vars, CreateForm, DeleteAssignment,
        Refuse, DeadlockAbort, Fail

(* Every version is of a form that is there.                               *)
THEOREM VersionsAlwaysHaveForms == Spec => []VersionsHaveForms
<1>1. Init => VersionsHaveForms
  BY DEF Init, VersionsHaveForms, Idle
<1>2. Inv /\ VersionsHaveForms /\ [Next]_vars => VersionsHaveForms'
  <2> SUFFICES ASSUME Inv, VersionsHaveForms, [Next]_vars PROVE VersionsHaveForms'
    OBVIOUS
  <2>1. ASSUME NEW v \in Versions, version'[v] # Nil PROVE form'[v[1]] # Nil
    <3>1. form[v[1]] # Nil
      <4>1. CASE version[v] # Nil
        BY <4>1 DEF VersionsHaveForms
      <4>2. CASE version[v] = Nil
        BY <4>2, <2>1, VersionsAreCreated
           DEF VersionsHaveForms, CreateVersion, Inv, About
      <4> QED BY <4>1, <4>2
    <3> QED BY <3>1, FormsStay, VersionHasForm
  <2>2. ASSUME NEW p \in Requests, request'[p].pc = "numbering"
        PROVE  form'[request'[p].form] # Nil
    <3>1. form[request'[p].form] # Nil
      BY <2>2, NumberingHasBegun DEF VersionsHaveForms
    <3>2. request'[p].form \in Forms
      <4>1. Inv'
        BY InvStep
      <4> QED BY <2>2, <4>1, VersionHasForm DEF Inv, About
    <3> QED BY <3>1, <3>2, FormsStay
  <2> QED BY <2>1, <2>2 DEF VersionsHaveForms
<1> QED BY <1>1, <1>2, Invariance, PTL DEF Spec

(* The assignments of a form that is assigned have a first one.            *)
LEMMA FirstAssignment ==
    ASSUME Inv, NEW f, AssignedOf(f) # {}
    PROVE  VersionByKey(f) # {}
<1> DEFINE Numbers == {v[2] : v \in AssignedOf(f)}
<1>1. Numbers \subseteq Nat /\ Numbers # {}
  BY VersionsAreNumbered DEF Inv, TypeOK, AssignedOf
<1>2. PICK n \in Numbers : \A m \in Numbers : n <= m
  BY <1>1, LeastNumber
<1>3. PICK v \in AssignedOf(f) : v[2] = n
  BY <1>2
<1> QED BY <1>2, <1>3 DEF VersionByKey

(* Two assigned versions of a form that are one.                           *)
LEMMA ViewsOfOneVersion ==
    ASSUME Inv, NEW c \in Cases, NEW f \in Forms,
           \A v, w \in AssignedOf(f) : v = w
    PROVE  GetFormSubmissionByKey(c, f) = GetCaseFormSubmissions(c, f)
<1>1. \A v \in AssignedOf(f) : v[2] \in Nat
  BY VersionsAreNumbered DEF Inv, TypeOK, AssignedOf
<1>2. \A v, w \in AssignedOf(f) : v[2] <= w[2]
  BY <1>1
<1>3. VersionByKey(f) = AssignedOf(f)
  BY <1>2 DEF VersionByKey
<1>4. {v \in AssignedOf(f) : \A w \in AssignedOf(f) : w[2] <= v[2]} = AssignedOf(f)
  BY <1>2
<1> QED BY <1>3, <1>4 DEF GetFormSubmissionByKey, GetCaseFormSubmissions

(* What a case shows of its forms, by key and in its list of requirements, *)
(* is what stops its transitions, archived forms apart; the forms and the  *)
(* assignments change under every request that reads them.                 *)
THEOREM ViewsAlwaysAgree == Spec => []FormViewsAgree
<1>1. ASSUME Inv, VersionsHaveForms PROVE FormViewsAgree
  <2>1. ASSUME NEW c \in Cases, NEW v \in MissingFormVersions(c) \ MissingRequired(c)
        PROVE  form[v[1]] = "ARCHIVED"
    <3>1. v \in assigned \cap Required /\ ~Submitted(c, v) /\ v \notin GetCaseForms
      BY <2>1 DEF MissingFormVersions, MissingRequired
    <3>2. v \in Versions /\ version[v] = "PUBLISHED"
      BY <1>1, <3>1 DEF Inv, TypeOK, AssignedVersionsArePublished
    <3>3. form[v[1]] # Nil
      BY <1>1, <3>2, NilIsNoValue DEF VersionsHaveForms, VersionStatus
    <3> QED BY <3>1, <3>2, <3>3 DEF GetCaseForms
  <2>2. ASSUME NEW c \in Cases, NEW f \in Forms,
               GetFormSubmissionByKey(c, f) # GetCaseFormSubmissions(c, f)
        PROVE  \E v, w \in AssignedOf(f) : v # w
    BY <1>1, <2>2, ViewsOfOneVersion
  <2>3. ASSUME NEW c \in Cases, NEW f \in Forms,
               VersionByKey(f) \cap Required # {}, GetFormSubmissionByKey(c, f) = {}
        PROVE  VersionByKey(f) \cap MissingRequired(c) # {} \/ form[f] = "ARCHIVED"
    <3>1. PICK v \in VersionByKey(f) : v \in Required
      BY <2>3
    <3>2. v \in assigned /\ v[1] = f
      BY <3>1 DEF VersionByKey, AssignedOf
    <3>3. ~Submitted(c, v)
      BY <2>3, <3>1 DEF GetFormSubmissionByKey, SubmissionOf, Submitted
    <3>4. v \in MissingFormVersions(c)
      BY <3>1, <3>2, <3>3 DEF MissingFormVersions
    <3> QED BY <2>1, <3>1, <3>2, <3>4
  <2> QED BY <2>1, <2>2, <2>3
          DEF FormViewsAgree, OnlyArchivedFormsBlockUnseen, ViewsAgree
<1> QED BY <1>1, Invariance, VersionsAlwaysHaveForms, PTL
=============================================================================
