--------------------------- MODULE FormPublishing ---------------------------
(***************************************************************************)
(* The forms of one organization: a form has numbered versions, a version  *)
(* has fields that may be edited while it is a draft, a published version  *)
(* may be assigned to the state a case is in and then submitted for it.    *)
(*                                                                         *)
(* Every administrator's request reads what it decides on through the      *)
(* connection pool and then writes in a transaction, comparing nothing.    *)
(* Only SubmitForm locks what it relies on.  A transaction that writes and *)
(* never waits while it holds a lock is a single step; the others are a    *)
(* step per lock.  What a request has locked follows from its pc, so the   *)
(* locks are an operator (Holds) and not a variable.  The assignment and   *)
(* field rows a submission locks last, and the lock of the audit chain     *)
(* every transaction takes before it commits, are taken by the same steps  *)
(* that commit.                                                            *)
(***************************************************************************)
EXTENDS Naturals

CONSTANTS
    Forms,      \* forms, by their key
    Versions,   \* versions: pairs of a form and a number
    Fields,     \* rows of form_fields that may be inserted
    Keys,       \* field keys
    Cases,      \* cases a form may be submitted for
    Requests,   \* concurrently running requests
    Nil,        \* no value: no row
    Deleted     \* a row that is gone; its identifier is not used again

(* The unique index (form_id, version) has a slot for each.                *)
ASSUME VersionsAreNumbered == Versions \subseteq Forms \X (Nat \ {0})

FormStatus == {"DRAFT", "ACTIVE", "ARCHIVED"}

VersionStatus == {"DRAFT", "PUBLISHED"}

Field == [version : Versions, key : Keys, required : BOOLEAN]

(* SQL NULL and a deleted row are none of the values they stand beside.    *)
ASSUME NilIsNoValue ==
    /\ Nil \notin FormStatus \cup VersionStatus
    /\ {Nil, Deleted} \cap Field = {}

VARIABLES
    form,        \* forms: the status of each row
    version,     \* form_versions: the status of each row
    field,       \* form_fields: Nil not inserted yet, Deleted, or the row
    assigned,    \* versions assigned to the state of the cases
    submissions, \* form_submissions: [case, version, answers] of each row
    request      \* local variables of each request

tables == <<form, version, field, assigned, submissions>>
vars == <<form, version, field, assigned, submissions, request>>

-----------------------------------------------------------------------------
Live(i) == field[i] \notin {Nil, Deleted}

FieldsOf(v) == {i \in Fields : Live(i) /\ field[i].version = v}

(* The local variables of a request: what it is about, and the status of   *)
(* the form it read before its transaction.                                *)
Idle == [pc |-> "idle", op |-> Nil, form |-> Nil, version |-> Nil,
         field |-> Nil, key |-> Nil, case |-> Nil, answers |-> {},
         seen |-> Nil]

Init ==
    /\ form = [f \in Forms |-> Nil]
    /\ version = [v \in Versions |-> Nil]
    /\ field = [i \in Fields |-> Nil]
    /\ assigned = {}
    /\ submissions = {}
    /\ request = [p \in Requests |-> Idle]

Begin(p, r) ==
    /\ request[p].pc = "idle"
    /\ request' = [request EXCEPT ![p] = r]
    /\ UNCHANGED tables

GoTo(p, label) ==
    /\ request' = [request EXCEPT ![p].pc = label]
    /\ UNCHANGED tables

Done(p) == request' = [request EXCEPT ![p] = Idle]

Refuse(p) == Done(p) /\ UNCHANGED tables

-----------------------------------------------------------------------------
(* Row locks.                                                              *)

(* A foreign key shares the row it refers to, an UPDATE of columns that    *)
(* are no key excludes other writers, FOR UPDATE excludes everybody.       *)
Conflict(m, n) == "update" \in {m, n} \/ {m, n} = {"no key update"}

Lock(row, mode) == [row |-> row, mode |-> mode]

(* The locks request p holds between two of its steps; and those it would  *)
(* hold if SubmitForm read the form without FOR UPDATE.                    *)
HoldsVersionOnly(p) ==
    LET r == request[p] IN
    CASE r.pc = "referring"   -> {Lock(r.form, "key share")}
      [] r.pc \in {"lockingForm", "saving"} -> {Lock(r.version, "update")}
      [] OTHER                -> {}
Holds(p) ==
    LET r == request[p] IN
    CASE r.pc = "referring"   -> {Lock(r.form, "key share")}
      [] r.pc = "lockingForm" -> {Lock(r.version, "update")}
      [] r.pc = "saving"      -> {Lock(r.version, "update"), Lock(r.form, "update")}
      [] OTHER                -> {}

(* The locks the next step of p takes.                                     *)
Wants(p) ==
    LET r == request[p] IN
    CASE r.pc \in {"numbering", "sharing"} -> {Lock(r.form, "key share")}
      [] r.pc \in {"updating", "archiving"} -> {Lock(r.form, "no key update")}
      [] r.pc = "publishing" -> {Lock(r.version, "no key update"),
                                 Lock(r.form, "no key update")}
      [] r.pc = "referring" -> {Lock(r.version, "key share")}
      [] r.pc = "lockingVersion" -> {Lock(r.version, "update")}
      [] r.pc = "lockingForm" -> {Lock(r.form, "update")}
      [] OTHER -> {}

WaitsFor(p) ==
    {q \in Requests \ {p} : \E h \in Holds(q), w \in Wants(p) :
        h.row = w.row /\ Conflict(h.mode, w.mode)}

CanLock(p) == WaitsFor(p) = {}

(* p waits, directly or through others, for itself.                        *)
Deadlocked(p) ==
    \A S \in SUBSET Requests :
        (WaitsFor(p) \subseteq S /\ \A q \in S : WaitsFor(q) \subseteq S)
            => p \in S

-----------------------------------------------------------------------------
(* Forms.                                                                  *)

(* CreateForm: the unique index on the key lets one of two rivals through. *)
CreateForm(f) ==
    /\ form[f] = Nil
    /\ form' = [form EXCEPT ![f] = "DRAFT"]
    /\ UNCHANGED <<version, field, assigned, submissions, request>>

(* UpdateForm writes back the whole row it has read, its status included;  *)
(* and an update that would activate the form.                             *)
StartUpdate(p, f) ==
    /\ form[f] \notin {Nil, "ARCHIVED"}
    /\ Begin(p, [Idle EXCEPT !.pc = "updating", !.form = f, !.seen = form[f]])

UpdateAndActivate(p) ==
    /\ request[p].pc = "updating"
    /\ CanLock(p)
    /\ form' = [form EXCEPT ![request[p].form] = "ACTIVE"]
    /\ Done(p)
    /\ UNCHANGED <<version, field, assigned, submissions>>
UpdateForm(p) ==
    LET r == request[p] IN
    /\ r.pc = "updating"
    /\ CanLock(p)
    /\ form' = [form EXCEPT ![r.form] = r.seen]
    /\ Done(p)
    /\ UNCHANGED <<version, field, assigned, submissions>>

StartArchive(p, f) ==
    /\ form[f] \notin {Nil, "ARCHIVED"}
    /\ Begin(p, [Idle EXCEPT !.pc = "archiving", !.form = f])

ArchiveForm(p) ==
    LET r == request[p] IN
    /\ r.pc = "archiving"
    /\ CanLock(p)
    /\ form' = [form EXCEPT ![r.form] = "ARCHIVED"]
    /\ Done(p)
    /\ UNCHANGED <<version, field, assigned, submissions>>

-----------------------------------------------------------------------------
(* Versions.                                                               *)

(* v is the version after the latest of its form.                          *)
Follows(v) ==
    /\ \A w \in Versions : w[1] = v[1] /\ version[w] # Nil => w[2] < v[2]
    /\ \/ v[2] = 1
       \/ <<v[1], v[2] - 1>> \in Versions /\ version[<<v[1], v[2] - 1>>] # Nil

(* FindLatest, through the pool; a form that is archived gets new versions *)
(* too.                                                                    *)
StartVersion(p, v) ==
    /\ form[v[1]] # Nil
    /\ Follows(v)
    /\ Begin(p, [Idle EXCEPT !.pc = "numbering", !.form = v[1], !.version = v])

(* The number is taken once; the later of two rivals is refused.           *)
CreateVersion(p) ==
    LET r == request[p] IN
    /\ r.pc = "numbering"
    /\ CanLock(p)
    /\ version' = IF version[r.version] = Nil
                  THEN [version EXCEPT ![r.version] = "DRAFT"] ELSE version
    /\ Done(p)
    /\ UNCHANGED <<form, field, assigned, submissions>>

StartPublish(p, v) ==
    /\ version[v] = "DRAFT"
    /\ Begin(p, [Idle EXCEPT !.pc = "ordering", !.form = v[1], !.version = v])

(* FindActiveVersion: no newer version is published.                       *)
CheckNewer(p) ==
    LET r == request[p]
        newer == {w \in Versions : /\ w[1] = r.form /\ w[2] > r.version[2]
                                   /\ version[w] = "PUBLISHED"} IN
    /\ r.pc = "ordering"
    /\ IF newer = {} THEN GoTo(p, "publishing") ELSE Refuse(p)

(* The version is published and the form, whatever its status, active.     *)
PublishVersion(p) ==
    LET r == request[p] IN
    /\ r.pc = "publishing"
    /\ CanLock(p)
    /\ version' = [version EXCEPT ![r.version] = "PUBLISHED"]
    /\ form' = [form EXCEPT ![r.form] = "ACTIVE"]
    /\ Done(p)
    /\ UNCHANGED <<field, assigned, submissions>>

-----------------------------------------------------------------------------
(* Inserting rows that refer to a form and a version: fields and           *)
(* assignments.  Both look for a duplicate first and leave the race to a   *)
(* unique index, and both share the form and then the version.             *)

(* The request makes up the identifier of the new row.                     *)
StartAddField(p, v, k, i) ==
    /\ version[v] = "DRAFT"
    /\ field[i] = Nil
    /\ \A q \in Requests : request[q].field # i
    /\ Begin(p, [Idle EXCEPT !.pc = "checking", !.op = "field", !.form = v[1],
                             !.version = v, !.field = i, !.key = k])

(* A version is published for good and publishing it makes its form        *)
(* active, so there is a moment at which both reads are true.              *)
StartAssign(p, v) ==
    /\ form[v[1]] # "ARCHIVED"
    /\ version[v] = "PUBLISHED"
    /\ Begin(p, [Idle EXCEPT !.pc = "checking", !.op = "assignment",
                             !.form = v[1], !.version = v])

Duplicate(r) ==
    \/ r.op = "field" /\ \E i \in FieldsOf(r.version) : field[i].key = r.key
    \/ r.op = "assignment" /\ r.version \in assigned

(* A duplicate refuses the request; and one that would look again.         *)
RetryDuplicate(p) ==
    /\ request[p].pc = "checking"
    /\ ~Duplicate(request[p])
    /\ GoTo(p, "sharing")
CheckDuplicate(p) ==
    /\ request[p].pc = "checking"
    /\ IF Duplicate(request[p]) THEN Refuse(p) ELSE GoTo(p, "sharing")

ShareForm(p) ==
    /\ request[p].pc = "sharing"
    /\ CanLock(p)
    /\ GoTo(p, "referring")

Insert(p) ==
    LET r == request[p] IN
    /\ r.pc = "referring"
    /\ CanLock(p)
    /\ \/ /\ Duplicate(r)
          /\ UNCHANGED <<field, assigned>>
       \/ /\ r.op = "field" /\ ~Duplicate(r)
          /\ \E required \in BOOLEAN :
                field' = [field EXCEPT ![r.field] = [version |-> r.version,
                                 key |-> r.key, required |-> required]]
          /\ UNCHANGED assigned
       \/ /\ r.op = "assignment" /\ ~Duplicate(r)
          /\ assigned' = assigned \cup {r.version}
          /\ UNCHANGED field
    /\ Done(p)
    /\ UNCHANGED <<form, version, submissions>>

(* DeleteAssignment reads the row only to report that there is none.  A    *)
(* deactivated assignment is one that is gone: it can come back only for   *)
(* the version it was, which is published, as a new one can.               *)
DeleteAssignment(v) ==
    /\ v \in assigned
    /\ assigned' = assigned \ {v}
    /\ UNCHANGED <<form, version, field, submissions, request>>

-----------------------------------------------------------------------------
(* Editing fields.                                                         *)

StartEdit(p, i, label) ==
    /\ Live(i)
    /\ version[field[i].version] = "DRAFT"
    /\ Begin(p, [Idle EXCEPT !.pc = label, !.field = i])

(* UpdateField and DeleteField compare the row's identifiers and nothing   *)
(* else; a row that is gone refuses them.                                  *)
UpdateField(p) ==
    LET r == request[p] IN
    /\ r.pc = "changing"
    /\ IF Live(r.field)
       THEN \E required \in BOOLEAN :
                field' = [field EXCEPT ![r.field].required = required]
       ELSE UNCHANGED field
    /\ Done(p)
    /\ UNCHANGED <<form, version, assigned, submissions>>

DeleteField(p) ==
    LET r == request[p] IN
    /\ r.pc = "deleting"
    /\ field' = [field EXCEPT ![r.field] = Deleted]
    /\ Done(p)
    /\ UNCHANGED <<form, version, assigned, submissions>>

-----------------------------------------------------------------------------
(* Submitting.                                                             *)

(* validateSubmissionData: only known fields, and every required one.      *)
Accepts(v, answers) ==
    /\ answers \subseteq {field[i].key : i \in FieldsOf(v)}
    /\ \A i \in FieldsOf(v) : field[i].required => field[i].key \in answers

Submitted(c, v) == \E s \in submissions : s.case = c /\ s.version = v

StartSubmit(p, c, v, answers) ==
    /\ Accepts(v, answers)
    /\ Begin(p, [Idle EXCEPT !.pc = "lockingVersion", !.form = v[1],
                     !.version = v, !.case = c, !.answers = answers])

LockVersion(p) ==
    LET r == request[p] IN
    /\ r.pc = "lockingVersion"
    /\ CanLock(p)
    /\ IF version[r.version] = "PUBLISHED" THEN GoTo(p, "lockingForm")
                                           ELSE Refuse(p)

LockForm(p) ==
    LET r == request[p] IN
    /\ r.pc = "lockingForm"
    /\ CanLock(p)
    /\ IF form[r.form] # "ARCHIVED" THEN GoTo(p, "saving") ELSE Refuse(p)

SaveSubmission(p) ==
    LET r == request[p] IN
    /\ r.pc = "saving"
    /\ submissions' =
          IF /\ r.version \in assigned
             /\ ~Submitted(r.case, r.version)
             /\ Accepts(r.version, r.answers)
          THEN submissions \cup {[case |-> r.case, version |-> r.version,
                                  answers |-> r.answers]}
          ELSE submissions
    /\ Done(p)
    /\ UNCHANGED <<form, version, field, assigned>>

-----------------------------------------------------------------------------
(* An error, or a client or process that goes away, rolls back.            *)
Fail(p) ==
    /\ request[p].pc # "idle"
    /\ Refuse(p)

(* PostgreSQL aborts a transaction of a cycle of waits.                    *)
DeadlockAbort(p) == Deadlocked(p) /\ Refuse(p)

(* A client sends a request.                                               *)
Start(p) ==
    \/ \E f \in Forms : StartUpdate(p, f) \/ StartArchive(p, f)
    \/ \E v \in Versions :
          \/ StartVersion(p, v) \/ StartPublish(p, v) \/ StartAssign(p, v)
          \/ \E k \in Keys, i \in Fields : StartAddField(p, v, k, i)
          \/ \E c \in Cases, answers \in SUBSET Keys :
                StartSubmit(p, c, v, answers)
    \/ \E i \in Fields : StartEdit(p, i, "changing") \/ StartEdit(p, i, "deleting")

(* What a started request does next on its own.                            *)
Step(p) ==
    \/ UpdateForm(p) \/ ArchiveForm(p)
    \/ CreateVersion(p) \/ CheckNewer(p) \/ PublishVersion(p)
    \/ CheckDuplicate(p) \/ ShareForm(p) \/ Insert(p)
    \/ UpdateField(p) \/ DeleteField(p)
    \/ LockVersion(p) \/ LockForm(p) \/ SaveSubmission(p)

Next ==
    \/ \E f \in Forms : CreateForm(f)
    \/ \E v \in Versions : DeleteAssignment(v)
    \/ \E p \in Requests : Start(p) \/ Step(p) \/ DeadlockAbort(p) \/ Fail(p)

Spec == Init /\ [][Next]_vars

(* A goroutine that can run does, PostgreSQL grants locks in arrival order *)
(* and looks for deadlocks after deadlock_timeout.                         *)
FairSpec ==
    Spec /\ \A p \in Requests : SF_vars(Step(p)) /\ WF_vars(DeadlockAbort(p))

-----------------------------------------------------------------------------
(* Type invariant.                                                         *)

Requestor ==
    [pc : {"idle", "updating", "archiving", "numbering", "ordering",
           "publishing", "checking", "sharing", "referring", "changing",
           "deleting", "lockingVersion", "lockingForm", "saving"},
     op : {"field", "assignment", Nil},
     form : Forms \cup {Nil}, version : Versions \cup {Nil},
     field : Fields \cup {Nil}, key : Keys \cup {Nil},
     case : Cases \cup {Nil}, answers : SUBSET Keys,
     seen : FormStatus \cup {Nil}]

(* Every row and request-local variable holds a value the code can store   *)
(* in it.                                                                  *)
TypeOK ==
    /\ form \in [Forms -> FormStatus \cup {Nil}]
    /\ version \in [Versions -> VersionStatus \cup {Nil}]
    /\ field \in [Fields -> Field \cup {Nil, Deleted}]
    /\ assigned \subseteq Versions
    /\ submissions \subseteq [case : Cases, version : Versions, answers : SUBSET Keys]
    /\ request \in [Requests -> Requestor]

-----------------------------------------------------------------------------
(* Safety and liveness.                                                    *)

(* A version becomes a draft once and is published once: neither a rival   *)
(* CreateVersion with the same number nor a second PublishVersion takes it *)
(* back.                                                                   *)
VersionsMoveForward ==
    [][\A v \in Versions : version'[v] # version[v] =>
         <<version[v], version'[v]>> \in {<<Nil, "DRAFT">>, <<"DRAFT", "PUBLISHED">>}]_vars

(* An active form has a published version, as ListDiscoverableFields       *)
(* relies on: it fails for the whole organization when one has none.       *)
(* UpdateForm writes back a status it read long ago.                       *)
ActiveFormsHaveAVersion ==
    \A f \in Forms : form[f] = "ACTIVE" =>
        \E v \in Versions : v[1] = f /\ version[v] = "PUBLISHED"

(* Only published versions are assigned to a state, although the check is  *)
(* made before the transaction that assigns.                               *)
AssignedVersionsArePublished == \A v \in assigned : version[v] = "PUBLISHED"

(* A submission is accepted once, for a version that is published and      *)
(* assigned, of a form that is not archived, with answers that meet the    *)
(* fields of the version, all at the moment it is committed.               *)
AcceptedAsDefined ==
    [][\A s \in submissions' \ submissions :
         /\ ~Submitted(s.case, s.version)
         /\ version[s.version] = "PUBLISHED" /\ s.version \in assigned
         /\ form[s.version[1]] # "ARCHIVED"
         /\ Accepts(s.version, s.answers)]_vars

(* Every request ends, those that wait for each other over a form and its  *)
(* version included.                                                       *)
RequestsEnd ==
    \A p \in Requests : request[p].pc # "idle" ~> request[p].pc = "idle"
=============================================================================
