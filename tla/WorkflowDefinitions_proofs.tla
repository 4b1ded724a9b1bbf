--------------------- MODULE WorkflowDefinitions_proofs ---------------------
(***************************************************************************)
(* Theorems about WorkflowDefinitions, for any definitions, cases and      *)
(* requests.                                                               *)
(***************************************************************************)
EXTENDS WorkflowDefinitions, TLAPS

-----------------------------------------------------------------------------
(* The inductive invariant.                                                *)

(* The steps each operation goes through.                                  *)
Path(op) ==
    CASE op = "create"   -> {"checking", "inserting", "auditing", "committing"}
      [] op = "activate" -> {"locking", "searching", "checking", "auditing",
                             "committing"}
      [] op = "archive"  -> {"locking", "counting", "auditing", "committing"}
      [] op = "delete"   -> {"locking", "auditing", "committing"}
      [] op = "update"   -> {"locking", "updating", "checking"}
      [] op = "case"     -> {"saving", "auditing", "binding", "committing"}
      [] op = "service"  -> {"saving", "auditing", "binding", "panicked"}

(* A request past the lock on its definition ...                           *)
Sure(r) ==
    \/ r.pc \in {"searching", "counting", "committing"}
    \/ r.pc = "checking" /\ r.op = "activate"
    \/ r.pc = "auditing" /\ r.op \notin {"case", "service"}

(* ... knows the status of the row until it ends.                          *)
Found(op) ==
    CASE op = "create" -> Nil
      [] op \in {"activate", "delete"} -> "DRAFT"
      [] op \in {"archive", "case"} -> "ACTIVE"

Counted(r) == r.op = "archive" /\ r.pc \in {"auditing", "committing"}

(* What a request wants, and what it knows of its definition.              *)
Wants(r) ==
    r.pc # "idle" =>
        /\ r.op \in Operations
        /\ r.pc \in Path(r.op)
        /\ r.def \in Definitions
        /\ r.op = "case" => r.case \in Cases

Knows(p) ==
    LET r == request[p] IN
    /\ Sure(r) => rowLock[r.def] = p /\ def[r.def] = Found(r.op)
    /\ Counted(r) => Running(r.def) = {}

(* An instance that runs has a definition.                                 *)
Defined == \A c \in Cases : instance[c].running => instance[c].def \in Definitions

Inv ==
    /\ TypeOK
    /\ Defined
    /\ RunningInstancesAreActive
    /\ \A p \in Requests : Wants(request[p]) /\ Knows(p)

-----------------------------------------------------------------------------
(* What a request does to itself.                                          *)

LEMMA IdleIsRequestor == Idle \in Requestor
BY DEF Idle, Requestor

(* What q knows survives every step that leaves it alone, the row it has   *)
(* locked, and lets no instance run over a definition that none ran over.  *)
LEMMA OthersKnow ==
    ASSUME Inv, NEW q \in Requests,
           request'[q].pc = request[q].pc, request'[q].op = request[q].op,
           request'[q].def = request[q].def, request'[q].case = request[q].case,
           \A d \in Definitions : rowLock[d] = q =>
               /\ rowLock'[d] = q
               /\ def'[d] = def[d]
               /\ Running(d) = {} => Running(d)' = {}
    PROVE  Wants(request[q])' /\ Knows(q)'
<1>1. Wants(request[q]) /\ Knows(q)
  BY DEF Inv
<1>2. Wants(request[q])'
  BY <1>1 DEF Wants
<1>3. Sure(request[q])' <=> Sure(request[q])
  BY DEF Sure
<1>4. Counted(request[q])' <=> Counted(request[q])
  BY DEF Counted
<1>5. Sure(request[q]) => request[q].def \in Definitions
  BY <1>1 DEF Wants, Sure
<1>6. Counted(request[q]) => Sure(request[q])
  BY DEF Counted, Sure
<1>7. Knows(q)'
  BY <1>1, <1>3, <1>4, <1>5, <1>6 DEF Knows
<1> QED BY <1>2, <1>7

(* p alone goes on, with values of its type.                               *)
Goes(p, r) ==
    /\ request' = [request EXCEPT ![p] = r]
    /\ r \in Requestor

(* A request that goes on, and locks at most a row that is free or its     *)
(* own, disturbs nothing but what it knows itself.                         *)
LEMMA AdvancePreserves ==
    ASSUME Inv, NEW p \in Requests, NEW r, Goes(p, r), UNCHANGED tables,
           rowLock' \in [Definitions -> Requests \cup {Nil}],
           sharers' \in [Definitions -> SUBSET Requests],
           auditLock' \in Requests \cup {Nil},
           \A d \in Definitions : rowLock'[d] # rowLock[d] =>
               rowLock[d] \in {Nil, p},
           Wants(r),
           Sure(r) => rowLock'[r.def] = p /\ def[r.def] = Found(r.op),
           Counted(r) => Running(r.def) = {}
    PROVE  Inv'
<1>1. /\ request' \in [Requests -> Requestor]
      /\ request'[p] = r
      /\ \A q \in Requests \ {p} : request'[q] = request[q]
  BY DEF Goes, Inv, TypeOK
<1>2. TypeOK'
  BY <1>1 DEF Inv, TypeOK, tables
<1>3. Defined' /\ RunningInstancesAreActive'
  BY DEF Inv, Defined, RunningInstancesAreActive, tables
<1>4. \A d : Running(d)' = Running(d)
  BY DEF Running, tables
<1>5. Wants(request[p])' /\ Knows(p)'
  BY <1>1, <1>4 DEF Knows, tables
<1>6. ASSUME NEW q \in Requests, q # p
      PROVE  Wants(request[q])' /\ Knows(q)'
  <2>1. \A d \in Definitions : rowLock[d] = q =>
            rowLock'[d] = q /\ def'[d] = def[d]
    BY <1>6, NilIsNoValue DEF tables
  <2> QED BY <1>1, <1>4, <1>6, <2>1, OthersKnow
<1> QED BY <1>2, <1>3, <1>5, <1>6 DEF Inv

(* The end of a transaction gives back what was locked, and may forget     *)
(* rows others had seen.                                                   *)
LEMMA EndTransactionOK ==
    ASSUME Inv, NEW p \in Requests, NEW deleted, EndTransaction(p, deleted)
    PROVE  /\ request' \in [Requests -> Requestor]
           /\ request'[p] = Idle
           /\ \A q \in Requests \ {p} :
                 /\ request'[q].pc = request[q].pc
                 /\ request'[q].op = request[q].op
                 /\ request'[q].def = request[q].def
                 /\ request'[q].case = request[q].case
           /\ rowLock' \in [Definitions -> Requests \cup {Nil}]
           /\ sharers' \in [Definitions -> SUBSET Requests]
           /\ auditLock' \in Requests \cup {Nil}
           /\ \A d \in Definitions : \A q \in Requests \ {p} :
                 rowLock[d] = q => rowLock'[d] = q
<1>1. /\ rowLock' \in [Definitions -> Requests \cup {Nil}]
      /\ sharers' \in [Definitions -> SUBSET Requests]
      /\ auditLock' \in Requests \cup {Nil}
      /\ \A d \in Definitions : \A q \in Requests \ {p} :
            rowLock[d] = q => rowLock'[d] = q
  BY DEF EndTransaction, Unlocked, Inv, TypeOK
<1>2. ASSUME NEW q \in Requests, q # p
      PROVE  /\ request'[q] \in Requestor
             /\ request'[q].pc = request[q].pc
             /\ request'[q].op = request[q].op
             /\ request'[q].def = request[q].def
             /\ request'[q].case = request[q].case
  <2>1. request'[q] = [request[q] EXCEPT !.seen = @ \ deleted]
    BY <1>2 DEF EndTransaction
  <2>2. request[q] \in Requestor
    BY DEF Inv, TypeOK
  <2> QED BY <2>1, <2>2 DEF Requestor
<1>3. request'[p] = Idle /\ request'[p] \in Requestor
  BY IdleIsRequestor DEF EndTransaction
<1>4. request' \in [Requests -> Requestor]
  <2>1. request' = [q \in Requests |-> request'[q]]
    BY DEF EndTransaction
  <2> QED BY <1>2, <1>3, <2>1
<1> QED BY <1>1, <1>2, <1>3, <1>4

LEMMA IdleKnowsNothing ==
    ASSUME NEW p \in Requests, request'[p] = Idle
    PROVE  Wants(request[p])' /\ Knows(p)'
BY DEF Idle, Wants, Knows, Sure, Counted

LEMMA RefusePreserves ==
    ASSUME Inv, NEW p \in Requests, Refuse(p) PROVE Inv'
<1>1. EndTransaction(p, {}) /\ UNCHANGED tables
  BY DEF Refuse
<1>2. TypeOK'
  BY <1>1, EndTransactionOK DEF Inv, TypeOK, tables
<1>3. Defined' /\ RunningInstancesAreActive'
  BY <1>1 DEF Inv, Defined, RunningInstancesAreActive, tables
<1>4. ASSUME NEW q \in Requests PROVE Wants(request[q])' /\ Knows(q)'
  <2>1. CASE q = p
    BY <1>1, <2>1, EndTransactionOK, IdleKnowsNothing
  <2>2. CASE q # p
    <3>1. \A d \in Definitions : rowLock[d] = q =>
              /\ rowLock'[d] = q /\ def'[d] = def[d]
              /\ Running(d)' = Running(d)
      BY <1>1, <2>2, EndTransactionOK DEF tables, Running
    <3> QED BY <1>1, <2>2, <3>1, EndTransactionOK, OthersKnow
  <2> QED BY <2>1, <2>2
<1> QED BY <1>2, <1>3, <1>4 DEF Inv

-----------------------------------------------------------------------------
(* Every step preserves the invariant.                                     *)

(* A step of p that takes it to label in request, and locks nothing but    *)
(* perhaps the row of its definition.                                      *)
LEMMA GoToPreserves ==
    ASSUME Inv, NEW p \in Requests, NEW label, GoTo(p, label),
           UNCHANGED <<tables, sharers>>,
           [request[p] EXCEPT !.pc = label] \in Requestor,
           rowLock' \in [Definitions -> Requests \cup {Nil}],
           auditLock' \in Requests \cup {Nil},
           \A d \in Definitions : rowLock'[d] # rowLock[d] =>
               rowLock[d] \in {Nil, p},
           request[p].pc # "idle", label \in Path(request[p].op),
           Sure([request[p] EXCEPT !.pc = label]) =>
               /\ rowLock'[request[p].def] = p
               /\ def[request[p].def] = Found(request[p].op),
           Counted([request[p] EXCEPT !.pc = label]) =>
               Running(request[p].def) = {}
    PROVE  Inv'
<1> DEFINE r == [request[p] EXCEPT !.pc = label]
<1>1. /\ r.pc = label /\ r.op = request[p].op /\ r.def = request[p].def
      /\ r.case = request[p].case
  BY DEF Inv, TypeOK, Requestor
<1>2. Goes(p, r)
  BY DEF GoTo, Goes, Inv, TypeOK
<1>3. Wants(r)
  BY <1>1 DEF Inv, Wants
<1>4. sharers' \in [Definitions -> SUBSET Requests]
  BY DEF Inv, TypeOK
<1> HIDE DEF r
<1> QED BY <1>1, <1>2, <1>3, <1>4, AdvancePreserves DEF r

LEMMA StartPreserves ==
    ASSUME Inv, NEW p \in Requests, Start(p) PROVE Inv'
<1> DEFINE New(r) == /\ request' = [request EXCEPT ![p] = r]
                     /\ r \in Requestor /\ Wants(r) /\ ~Sure(r) /\ ~Counted(r)
<1>1. UNCHANGED <<tables, locks>>
  BY DEF Start, CreateDefinition, ChangeDefinition, CreateCase,
     CreateCaseByService
<1>2. \E r : New(r)
  <2>1. ASSUME NEW d \in Definitions, CreateDefinition(p, d) PROVE \E r : New(r)
    <3> DEFINE r == [Idle EXCEPT !.pc = "checking", !.op = "create", !.def = d,
                        !.seen = {e \in SameKey(d) : def[e] # Nil}]
    <3>1. request' = [request EXCEPT ![p] = r]
      BY <2>1 DEF CreateDefinition
    <3>2. r \in Requestor
      BY DEF Idle, Requestor, Operations, SameKey
    <3>3. Wants(r) /\ ~Sure(r) /\ ~Counted(r)
      BY DEF Idle, Wants, Sure, Counted, Path, Operations
    <3> QED BY <3>1, <3>2, <3>3
  <2>2. ASSUME NEW d \in Definitions,
               NEW op \in {"activate", "archive", "delete", "update"},
               ChangeDefinition(p, op, d)
        PROVE  \E r : New(r)
    <3> DEFINE r == [Idle EXCEPT !.pc = "locking", !.op = op, !.def = d]
    <3>1. request' = [request EXCEPT ![p] = r]
      BY <2>2 DEF ChangeDefinition
    <3>2. r \in Requestor
      BY DEF Idle, Requestor, Operations
    <3>3. Wants(r) /\ ~Sure(r) /\ ~Counted(r)
      BY DEF Idle, Wants, Sure, Counted, Path, Operations
    <3> QED BY <3>1, <3>2, <3>3
  <2>3. ASSUME NEW d \in Definitions, NEW c \in Cases, CreateCase(p, c, d)
        PROVE  \E r : New(r)
    <3> DEFINE r == [Idle EXCEPT !.pc = "saving", !.op = "case", !.def = d,
                                 !.case = c]
    <3>1. request' = [request EXCEPT ![p] = r]
      BY <2>3 DEF CreateCase
    <3>2. r \in Requestor
      BY DEF Idle, Requestor, Operations
    <3>3. Wants(r) /\ ~Sure(r) /\ ~Counted(r)
      BY DEF Idle, Wants, Sure, Counted, Path, Operations
    <3> QED BY <3>1, <3>2, <3>3
  <2>4. ASSUME NEW c \in Cases, CreateCaseByService(p, c) PROVE \E r : New(r)
    <3>1. PICK d \in Definitions :
             request' = [request EXCEPT ![p] =
                 [Idle EXCEPT !.pc = "saving", !.op = "service", !.def = d,
                              !.case = c]]
      BY <2>4 DEF CreateCaseByService
    <3> DEFINE r == [Idle EXCEPT !.pc = "saving", !.op = "service", !.def = d,
                                 !.case = c]
    <3>2. r \in Requestor
      BY DEF Idle, Requestor, Operations
    <3>3. Wants(r) /\ ~Sure(r) /\ ~Counted(r)
      BY DEF Idle, Wants, Sure, Counted, Path, Operations
    <3> QED BY <3>1, <3>2, <3>3
  <2> QED BY <2>1, <2>2, <2>3, <2>4 DEF Start
<1>3. PICK r : New(r)
  BY <1>2
<1> QED BY <1>1, <1>3, AdvancePreserves DEF Goes, locks, Inv, TypeOK

(* What LockRow changes.                                                   *)
LEMMA LockRowOK ==
    ASSUME Inv, NEW p \in Requests, NEW d, LockRow(p, d)
    PROVE  /\ rowLock' \in [Definitions -> Requests \cup {Nil}]
           /\ d \in Definitions => rowLock'[d] = p
           /\ \A e \in Definitions : rowLock'[e] # rowLock[e] =>
                 rowLock[e] \in {Nil, p}
           /\ \A e \in Definitions : rowLock[e] = p => rowLock'[e] = p
BY DEF LockRow, CanLock, Inv, TypeOK

LEMMA FindByIDTxPreserves ==
    ASSUME Inv, NEW p \in Requests, FindByIDTx(p) PROVE Inv'
<1> DEFINE r == request[p]
<1>1. CASE Refuse(p)
  BY <1>1, RefusePreserves
<1>2. CASE /\ def[r.def] = Wanted(r.op) /\ LockRow(p, r.def)
           /\ GoTo(p, AfterLocking(r.op))
           /\ UNCHANGED <<tables, sharers, auditLock>>
  <2>1. /\ r.pc = "locking" /\ r \in Requestor
        /\ r.op \in {"activate", "archive", "delete", "update"}
        /\ r.def \in Definitions
    BY DEF FindByIDTx, Inv, TypeOK, Wants, Path, Operations
  <2> DEFINE label == AfterLocking(r.op)
  <2>2. label \in Path(r.op)
    BY <2>1 DEF AfterLocking, Path
  <2>3. [r EXCEPT !.pc = label] \in Requestor
    BY <2>1 DEF Requestor, AfterLocking
  <2>4. ~Counted([r EXCEPT !.pc = label])
    BY <2>1 DEF Requestor, AfterLocking, Counted
  <2>5. Sure([r EXCEPT !.pc = label]) => def[r.def] = Found(r.op)
    BY <1>2, <2>1 DEF Requestor, AfterLocking, Sure, Found, Wanted
  <2> HIDE DEF r, label
  <2> QED BY <1>2, <2>1, <2>2, <2>3, <2>4, <2>5, LockRowOK, GoToPreserves
          DEF Inv, TypeOK, r, label
<1> QED BY <1>1, <1>2 DEF FindByIDTx

LEMMA CheckKeyPreserves ==
    ASSUME Inv, NEW p \in Requests, CheckKey(p) PROVE Inv'
<1>1. CASE Refuse(p)
  BY <1>1, RefusePreserves
<1>2. CASE GoTo(p, "inserting") /\ UNCHANGED <<tables, locks>>
  <2>1. request[p].pc = "checking" /\ request[p].op = "create"
    BY DEF CheckKey
  <2>2. request[p] \in Requestor
    BY DEF Inv, TypeOK
  <2>3. /\ [request[p] EXCEPT !.pc = "inserting"] \in Requestor
        /\ ~Sure([request[p] EXCEPT !.pc = "inserting"])
        /\ ~Counted([request[p] EXCEPT !.pc = "inserting"])
        /\ "inserting" \in Path(request[p].op)
    BY <2>1, <2>2 DEF Requestor, Sure, Counted, Path
  <2> QED BY <1>2, <2>1, <2>3, GoToPreserves DEF locks, Inv, TypeOK
<1> QED BY <1>1, <1>2 DEF CheckKey

LEMMA InsertPreserves ==
    ASSUME Inv, NEW p \in Requests, InsertDefinition(p) PROVE Inv'
<1> DEFINE r == request[p]
           s == [r EXCEPT !.pc = "auditing"]
<1>1. CASE Refuse(p)
  BY <1>1, RefusePreserves
<1>2. CASE /\ def[r.def] = Nil /\ LockRow(p, r.def) /\ GoTo(p, "auditing")
           /\ UNCHANGED <<tables, sharers, auditLock>>
  <2>1. /\ r.pc = "inserting" /\ r \in Requestor /\ r.op = "create"
        /\ r.def \in Definitions
    BY DEF InsertDefinition, Inv, TypeOK, Wants, Path, Operations
  <2>2. /\ s \in Requestor /\ ~Counted(s) /\ "auditing" \in Path(r.op)
        /\ Found(r.op) = Nil
    BY <2>1 DEF Requestor, Counted, Path, Found
  <2> QED BY <1>2, <2>1, <2>2, LockRowOK, GoToPreserves DEF Inv, TypeOK
<1> QED BY <1>1, <1>2 DEF InsertDefinition

LEMMA SearchActivePreserves ==
    ASSUME Inv, NEW p \in Requests, SearchActive(p) PROVE Inv'
<1> DEFINE r == request[p]
           s == [r EXCEPT !.pc = "checking",
                          !.seen = {e \in SameKey(r.def) : def[e] = "ACTIVE"}]
<1>1. /\ r.pc = "searching" /\ r \in Requestor /\ r.op = "activate"
      /\ r.def \in Definitions /\ rowLock[r.def] = p /\ def[r.def] = "DRAFT"
  BY DEF SearchActive, Inv, TypeOK, Wants, Path, Operations, Knows, Sure, Found
<1>2. request' = [request EXCEPT ![p] = s] /\ UNCHANGED <<tables, locks>>
  BY DEF SearchActive, Inv, TypeOK
<1>3. s \in Requestor /\ s.pc = "checking" /\ s.op = "activate" /\ s.def = r.def
  BY <1>1 DEF Requestor, SameKey
<1>4. Wants(s) /\ ~Counted(s) /\ Found(s.op) = "DRAFT"
  BY <1>1, <1>3 DEF Wants, Counted, Found, Path, Operations
<1> HIDE DEF s
<1> QED BY <1>1, <1>2, <1>3, <1>4, AdvancePreserves
        DEF Goes, locks, Inv, TypeOK, tables

LEMMA CheckActivePreserves ==
    ASSUME Inv, NEW p \in Requests, CheckActive(p) PROVE Inv'
<1> DEFINE r == request[p]
           top == Highest(r.seen)
<1>1. /\ r.pc = "checking" /\ r \in Requestor /\ r.op = "activate"
      /\ r.def \in Definitions /\ rowLock[r.def] = p /\ def[r.def] = "DRAFT"
  BY DEF CheckActive, Inv, TypeOK, Wants, Knows, Sure, Found
<1>2. CASE Refuse(p)
  BY <1>2, RefusePreserves
<1>3. CASE GoTo(p, "auditing") /\ UNCHANGED <<tables, locks>>
  <2>1. /\ [r EXCEPT !.pc = "auditing"] \in Requestor
        /\ ~Counted([r EXCEPT !.pc = "auditing"])
        /\ "auditing" \in Path(r.op) /\ Found(r.op) = "DRAFT"
    BY <1>1 DEF Requestor, Counted, Path, Found
  <2> QED BY <1>1, <1>3, <2>1, GoToPreserves DEF locks, Inv, TypeOK
<1>4. CASE /\ LockRow(p, top)
           /\ request' = [request EXCEPT ![p].seen = @ \ {top}]
           /\ UNCHANGED <<tables, sharers, auditLock>>
  <2> DEFINE s == [r EXCEPT !.seen = @ \ {top}]
  <2>1. request' = [request EXCEPT ![p] = s]
    BY <1>4 DEF Inv, TypeOK
  <2>2. /\ s \in Requestor /\ s.pc = "checking" /\ s.op = "activate"
        /\ s.def = r.def
    BY <1>1 DEF Requestor
  <2>3. Wants(s) /\ ~Counted(s) /\ Found(s.op) = "DRAFT"
    BY <1>1, <2>2 DEF Wants, Counted, Found, Path, Operations
  <2>4. /\ rowLock' \in [Definitions -> Requests \cup {Nil}]
        /\ \A d \in Definitions : rowLock'[d] # rowLock[d] =>
              rowLock[d] \in {Nil, p}
        /\ rowLock'[r.def] = p
    BY <1>1, <1>4, LockRowOK
  <2>5. Goes(p, s)
    BY <2>1, <2>2 DEF Goes
  <2> HIDE DEF s, top
  <2> QED BY <1>1, <1>4, <2>2, <2>3, <2>4, <2>5, AdvancePreserves
          DEF Inv, TypeOK
<1> QED BY <1>2, <1>3, <1>4 DEF CheckActive

LEMMA CountActivePreserves ==
    ASSUME Inv, NEW p \in Requests, CountActive(p) PROVE Inv'
<1> DEFINE r == request[p]
           s == [r EXCEPT !.pc = "auditing"]
<1>1. CASE Refuse(p)
  BY <1>1, RefusePreserves
<1>2. CASE /\ Running(r.def) = {} /\ GoTo(p, "auditing")
           /\ UNCHANGED <<tables, locks>>
  <2>1. /\ r.pc = "counting" /\ r \in Requestor /\ r.op = "archive"
        /\ rowLock[r.def] = p /\ def[r.def] = "ACTIVE"
    BY DEF CountActive, Inv, TypeOK, Wants, Path, Operations, Knows, Sure, Found
  <2>2. s \in Requestor /\ "auditing" \in Path(r.op) /\ Found(r.op) = "ACTIVE"
    BY <2>1 DEF Requestor, Path, Found
  <2> QED BY <1>2, <2>1, <2>2, GoToPreserves DEF locks, Inv, TypeOK
<1> QED BY <1>1, <1>2 DEF CountActive

LEMMA SearchNewKeyPreserves ==
    ASSUME Inv, NEW p \in Requests, SearchNewKey(p) PROVE Inv'
<1> DEFINE r == request[p]
<1>1. PICK key : request' = [request EXCEPT ![p].pc = "checking",
          ![p].seen = {d \in Definitions : d[1] = key /\ def[d] # Nil}]
  BY DEF SearchNewKey
<1> DEFINE s == [r EXCEPT !.pc = "checking",
                   !.seen = {d \in Definitions : d[1] = key /\ def[d] # Nil}]
<1>2. /\ r.pc = "updating" /\ r \in Requestor /\ r.op = "update"
      /\ r.def \in Definitions
  BY DEF SearchNewKey, Inv, TypeOK, Wants, Path, Operations
<1>3. request' = [request EXCEPT ![p] = s] /\ UNCHANGED <<tables, locks>>
  BY <1>1 DEF SearchNewKey, Inv, TypeOK
<1>4. s \in Requestor /\ s.pc = "checking" /\ s.op = "update" /\ s.def = r.def
  BY <1>2 DEF Requestor
<1>5. Wants(s) /\ ~Counted(s) /\ ~Sure(s)
  BY <1>2, <1>4 DEF Wants, Counted, Sure, Path, Operations
<1>6. Goes(p, s)
  BY <1>3, <1>4 DEF Goes
<1> HIDE DEF s
<1> QED BY <1>3, <1>5, <1>6, AdvancePreserves
        DEF locks, Inv, TypeOK, tables

LEMMA SaveCasePreserves ==
    ASSUME Inv, NEW p \in Requests, SaveCase(p) PROVE Inv'
<1> DEFINE r == request[p]
           s == [r EXCEPT !.pc = "auditing"]
<1>1. CASE Refuse(p)
  BY <1>1, RefusePreserves
<1>2. CASE /\ sharers' = [sharers EXCEPT ![r.def] = @ \cup {p}]
           /\ GoTo(p, "auditing") /\ UNCHANGED <<tables, rowLock, auditLock>>
  <2>1. /\ r.pc = "saving" /\ r \in Requestor /\ r.op \in {"case", "service"}
        /\ Wants(r)
    BY DEF SaveCase, Inv, TypeOK, Wants, Path, Operations
  <2>2. /\ s \in Requestor /\ ~Sure(s) /\ ~Counted(s) /\ s.pc = "auditing"
        /\ s.op = r.op /\ s.def = r.def /\ s.case = r.case
    BY <2>1 DEF Requestor, Sure, Counted
  <2>3. Wants(s)
    BY <2>1, <2>2 DEF Wants, Path
  <2>4. Goes(p, s)
    BY <1>2, <2>2 DEF Goes, GoTo, Inv, TypeOK
  <2>5. sharers' \in [Definitions -> SUBSET Requests]
    BY <1>2 DEF Inv, TypeOK
  <2> HIDE DEF s
  <2> QED BY <1>2, <2>2, <2>3, <2>4, <2>5, AdvancePreserves
          DEF Inv, TypeOK, tables
<1> QED BY <1>1, <1>2 DEF SaveCase

LEMMA RecordPreserves ==
    ASSUME Inv, NEW p \in Requests, RecordAuditEvent(p) PROVE Inv'
<1> DEFINE r == request[p]
           label == IF r.op \in {"case", "service"} THEN "binding"
                    ELSE "committing"
           s == [r EXCEPT !.pc = label]
<1>1. /\ r.pc = "auditing" /\ r \in Requestor /\ Wants(r) /\ Knows(p)
      /\ auditLock' = p /\ GoTo(p, label) /\ UNCHANGED <<tables, rowLock, sharers>>
  BY DEF RecordAuditEvent, Inv, TypeOK
<1>2. s \in Requestor /\ label \in Path(r.op)
  BY <1>1 DEF Requestor, Wants, Path, Operations
<1>3. Sure(s) => rowLock[r.def] = p /\ def[r.def] = Found(r.op)
  BY <1>1 DEF Requestor, Sure, Knows
<1>4. Counted(s) => Running(r.def) = {}
  BY <1>1 DEF Requestor, Counted, Knows
<1> HIDE DEF label
<1> QED BY <1>1, <1>2, <1>3, <1>4, GoToPreserves DEF Inv, TypeOK

LEMMA BindPreserves ==
    ASSUME Inv, NEW p \in Requests, BindInstance(p) PROVE Inv'
<1> DEFINE r == request[p]
<1>0. r.pc = "binding" /\ r \in Requestor /\ Wants(r)
  BY DEF BindInstance, Inv, TypeOK
<1>1. CASE Refuse(p)
  BY <1>1, RefusePreserves
<1>2. CASE /\ r.op = "service" /\ GoTo(p, "panicked")
           /\ UNCHANGED <<tables, locks>>
  <2>1. /\ [r EXCEPT !.pc = "panicked"] \in Requestor
        /\ ~Sure([r EXCEPT !.pc = "panicked"])
        /\ ~Counted([r EXCEPT !.pc = "panicked"])
        /\ "panicked" \in Path(r.op)
    BY <1>0, <1>2 DEF Requestor, Sure, Counted, Path
  <2> QED BY <1>0, <1>2, <2>1, GoToPreserves DEF locks, Inv, TypeOK
<1>3. CASE /\ r.op = "case" /\ def[r.def] = "ACTIVE" /\ LockRow(p, r.def)
           /\ GoTo(p, "committing")
           /\ UNCHANGED <<tables, sharers, auditLock>>
  <2>1. /\ [r EXCEPT !.pc = "committing"] \in Requestor
        /\ ~Counted([r EXCEPT !.pc = "committing"])
        /\ "committing" \in Path(r.op) /\ Found(r.op) = "ACTIVE"
        /\ r.def \in Definitions
    BY <1>0, <1>3 DEF Requestor, Counted, Path, Found, Wants
  <2> QED BY <1>0, <1>3, <2>1, LockRowOK, GoToPreserves DEF Inv, TypeOK
<1> QED BY <1>1, <1>2, <1>3 DEF BindInstance

(* The moves a commit makes: what was found, and what is written.          *)
Moves(op, old, new) ==
    \/ op = "create" /\ old = Nil /\ new = "DRAFT"
    \/ op = "activate" /\ old = "DRAFT" /\ new = "ACTIVE"
    \/ op = "archive" /\ old = "ACTIVE" /\ new = "ARCHIVED"
    \/ op = "delete" /\ old = "DRAFT" /\ new = Nil
    \/ op = "case" /\ old = "ACTIVE" /\ new = "ACTIVE"

LEMMA WritesAMove ==
    ASSUME NEW op \in {"create", "activate", "archive", "delete", "case"}
    PROVE  Moves(op, Found(op), Written(op, Found(op)))
<1>1. CASE op = "create" BY <1>1 DEF Moves, Found, Written
<1>2. CASE op = "activate" BY <1>2 DEF Moves, Found, Written
<1>3. CASE op = "archive" BY <1>3 DEF Moves, Found, Written
<1>4. CASE op = "delete" BY <1>4 DEF Moves, Found, Written
<1>5. CASE op = "case" BY <1>5 DEF Moves, Found, Written
<1> QED BY <1>1, <1>2, <1>3, <1>4, <1>5

(* A request that commits writes the row it has locked since it knows its  *)
(* status, so nobody else knows anything of that row.                      *)
LEMMA CommitsWhatItKnows ==
    ASSUME Inv, NEW p \in Requests, request[p].pc = "committing",
           NEW r, r = request[p]
    PROVE  /\ r.def \in Definitions /\ rowLock[r.def] = p
           /\ Moves(r.op, def[r.def], Written(r.op, def[r.def]))
           /\ r.op = "archive" => Running(r.def) = {}
           /\ r.op = "case" => r.case \in Cases
<1>1. Wants(r) /\ Knows(p) /\ Sure(r)
  BY DEF Inv, Sure
<1>2. /\ r.op \in {"create", "activate", "archive", "delete", "case"}
      /\ r.def \in Definitions
      /\ r.op = "case" => r.case \in Cases
  BY <1>1 DEF Wants, Path, Operations
<1>3. rowLock[r.def] = p /\ def[r.def] = Found(r.op)
  BY <1>1 DEF Knows
<1>4. r.op = "archive" => Running(r.def) = {}
  BY <1>1 DEF Knows, Counted
<1>5. Moves(r.op, Found(r.op), Written(r.op, Found(r.op)))
  BY <1>2, WritesAMove
<1> QED BY <1>2, <1>3, <1>4, <1>5

LEMMA CommitPreserves ==
    ASSUME Inv, NEW p \in Requests, Commit(p) PROVE Inv'
<1> DEFINE r == request[p]
           d0 == r.def
           new == Written(r.op, def[d0])
           deleted == IF r.op = "delete" THEN {d0} ELSE {}
<1>1. /\ r.pc = "committing" /\ def' = [def EXCEPT ![d0] = new]
      /\ instance' = IF r.op = "case"
                     THEN [instance EXCEPT ![r.case] =
                              [def |-> d0, running |-> TRUE]]
                     ELSE instance
      /\ EndTransaction(p, deleted)
  BY DEF Commit, Inv, TypeOK
<1>2. /\ d0 \in Definitions /\ rowLock[d0] = p
      /\ new \in Status \cup {Nil}
      /\ def[d0] = "ACTIVE" => new = "ACTIVE" \/ Running(d0) = {}
      /\ r.op = "case" => new = "ACTIVE" /\ r.case \in Cases
  BY <1>1, CommitsWhatItKnows, NilIsNoValue DEF Status, Moves
<1> HIDE DEF new, deleted
<1>3. /\ def' \in [Definitions -> Status \cup {Nil}]
      /\ def'[d0] = new /\ \A d \in Definitions \ {d0} : def'[d] = def[d]
      /\ instance' \in [Cases -> [def : Definitions \cup {Nil}, running : BOOLEAN]]
  BY <1>1, <1>2 DEF Inv, TypeOK
<1>4. TypeOK'
  BY <1>1, <1>3, EndTransactionOK DEF Inv, TypeOK
<1>5. \A c \in Cases :
         \/ instance'[c] = instance[c]
         \/ r.op = "case" /\ instance'[c] = [def |-> d0, running |-> TRUE]
  BY <1>1 DEF Inv, TypeOK
<1>6. Defined' /\ RunningInstancesAreActive'
  <2> SUFFICES ASSUME NEW c \in Cases, instance'[c].running
               PROVE  /\ instance'[c].def \in Definitions
                      /\ def'[instance'[c].def] = "ACTIVE"
    BY DEF Defined, RunningInstancesAreActive
  <2>1. CASE instance'[c] = [def |-> d0, running |-> TRUE] /\ r.op = "case"
    BY <1>2, <1>3, <2>1
  <2>2. CASE instance'[c] = instance[c]
    <3>1. /\ instance[c].running /\ def[instance[c].def] = "ACTIVE"
          /\ instance[c].def \in Definitions
      BY <2>2 DEF Inv, Defined, RunningInstancesAreActive
    <3>2. instance[c] \in [def : Definitions \cup {Nil}, running : BOOLEAN]
      BY DEF Inv, TypeOK
    <3>3. CASE instance[c].def = d0
      <4>1. instance[c] = [def |-> d0, running |-> TRUE]
        BY <3>1, <3>2, <3>3
      <4>2. c \in Running(d0)
        BY <4>1 DEF Running
      <4> QED BY <1>2, <1>3, <2>2, <3>1, <3>3, <4>2
    <3>4. CASE instance[c].def # d0
      BY <1>3, <2>2, <3>1, <3>4
    <3> QED BY <3>3, <3>4
  <2> QED BY <1>5, <2>1, <2>2
<1>7. ASSUME NEW q \in Requests PROVE Wants(request[q])' /\ Knows(q)'
  <2>1. CASE q = p
    BY <1>1, <2>1, EndTransactionOK, IdleKnowsNothing
  <2>2. CASE q # p
    <3>1. ASSUME NEW d \in Definitions, rowLock[d] = q
          PROVE  /\ rowLock'[d] = q /\ def'[d] = def[d]
                 /\ Running(d) = {} => Running(d)' = {}
      <4>1. d # d0
        BY <1>2, <2>2, <3>1
      <4>2. \A c \in Cases : instance'[c] = [def |-> d, running |-> TRUE] =>
                instance[c] = [def |-> d, running |-> TRUE]
        BY <1>5, <4>1
      <4>3. Running(d) = {} => Running(d)' = {}
        BY <4>2 DEF Running
      <4>4. rowLock'[d] = q
        BY <1>1, <2>2, <3>1, EndTransactionOK
      <4> QED BY <1>3, <4>1, <4>3, <4>4
    <3> QED BY <1>1, <2>2, <3>1, EndTransactionOK, OthersKnow
  <2> QED BY <2>1, <2>2
<1> QED BY <1>4, <1>6, <1>7 DEF Inv

LEMMA CompletePreserves ==
    ASSUME Inv, NEW c \in Cases, CompleteInstance(c) PROVE Inv'
<1>1. /\ UNCHANGED <<def, locks, request>>
      /\ instance' \in [Cases -> [def : Definitions \cup {Nil}, running : BOOLEAN]]
      /\ \A b \in Cases \ {c} : instance'[b] = instance[b]
      /\ instance'[c].running = FALSE
  BY DEF CompleteInstance, Inv, TypeOK
<1>2. TypeOK'
  BY <1>1 DEF Inv, TypeOK, locks
<1>3. Defined' /\ RunningInstancesAreActive'
  BY <1>1 DEF Inv, Defined, RunningInstancesAreActive
<1>4. \A d \in Definitions : Running(d) = {} => Running(d)' = {}
  <2>1. \A b \in Cases, d \in Definitions :
            instance'[b] = [def |-> d, running |-> TRUE] =>
                instance[b] = [def |-> d, running |-> TRUE]
    <3>1. \A d : [def |-> d, running |-> TRUE].running = TRUE
      OBVIOUS
    <3> QED BY <1>1, <3>1
  <2> QED BY <2>1 DEF Running
<1>5. ASSUME NEW q \in Requests PROVE Wants(request[q])' /\ Knows(q)'
  BY <1>1, <1>4, OthersKnow DEF locks
<1> QED BY <1>2, <1>3, <1>5 DEF Inv

LEMMA NextPreserves == Inv /\ [Next]_vars => Inv'
<1> SUFFICES ASSUME Inv, [Next]_vars PROVE Inv'
  OBVIOUS
<1>1. ASSUME NEW c \in Cases, CompleteInstance(c) PROVE Inv'
  BY <1>1, CompletePreserves
<1>2. ASSUME NEW p \in Requests, Start(p) PROVE Inv'
  BY <1>2, StartPreserves
<1>3. ASSUME NEW p \in Requests, Step(p) PROVE Inv'
  BY <1>3, FindByIDTxPreserves, CheckKeyPreserves, InsertPreserves,
     SearchActivePreserves, CheckActivePreserves, CountActivePreserves,
     SearchNewKeyPreserves, SaveCasePreserves, RecordPreserves,
     BindPreserves, CommitPreserves, RefusePreserves
     DEF Step, RefuseUpdate, Recover
<1>4. ASSUME NEW p \in Requests, DeadlockAbort(p) \/ Fail(p) PROVE Inv'
  BY <1>4, RefusePreserves DEF DeadlockAbort, Fail
<1>5. CASE UNCHANGED vars
  <2>1. \A d : Running(d)' = Running(d)
    BY <1>5 DEF vars, Running
  <2> QED BY <1>5, <2>1 DEF vars, Inv, TypeOK, Defined, RunningInstancesAreActive,
             Wants, Knows, Sure, Counted
<1> QED BY <1>1, <1>2, <1>3, <1>4, <1>5 DEF Next

LEMMA InitInv == Init => Inv
<1> SUFFICES ASSUME Init PROVE Inv
  OBVIOUS
<1>1. TypeOK
  BY IdleIsRequestor DEF Init, TypeOK, NoInstance
<1>2. Defined /\ RunningInstancesAreActive
  BY DEF Init, Defined, RunningInstancesAreActive, NoInstance
<1>3. \A p \in Requests : Wants(request[p]) /\ Knows(p)
  BY DEF Init, Idle, Wants, Knows, Sure, Counted
<1> QED BY <1>1, <1>2, <1>3 DEF Inv

-----------------------------------------------------------------------------
(* The theorems.                                                           *)

(* Inv is an invariant: a request past its row lock knows the status of    *)
(* its definition until it ends.                                           *)
THEOREM Invariance == Spec => []Inv
BY InitInv, NextPreserves, PTL DEF Spec

(* Rows, locks and local variables keep their types.                       *)
THEOREM TypeCorrect == Spec => []TypeOK
<1>1. Inv => TypeOK
  BY DEF Inv
<1> QED BY Invariance, <1>1, PTL

(* An instance runs only over an active definition: ArchiveWorkflow-       *)
(* Definition and CreateCase both commit under the row lock, whatever      *)
(* their number.                                                           *)
THEOREM Active == Spec => []RunningInstancesAreActive
<1>1. Inv => RunningInstancesAreActive
  BY DEF Inv
<1> QED BY Invariance, <1>1, PTL

(* The status written by a commit follows the one that was read under the  *)
(* row lock: draft, active, archived, and only a draft is deleted.         *)
THEOREM Forward == Spec => DefinitionsMoveForward
<1> DEFINE A == \A d \in Definitions : def'[d] # def[d] =>
                   <<def[d], def'[d]>> \in
                       {<<Nil, "DRAFT">>, <<"DRAFT", Nil>>,
                        <<"DRAFT", "ACTIVE">>, <<"ACTIVE", "ARCHIVED">>}
<1>1. Inv /\ [Next]_vars => [A]_vars
  <2> SUFFICES ASSUME Inv, Next, NEW d \in Definitions, def'[d] # def[d]
               PROVE  <<def[d], def'[d]>> \in
                          {<<Nil, "DRAFT">>, <<"DRAFT", Nil>>,
                           <<"DRAFT", "ACTIVE">>, <<"ACTIVE", "ARCHIVED">>}
    OBVIOUS
  <2>1. PICK p \in Requests : Commit(p)
    BY DEF Next, Start, Step, CompleteInstance, CreateDefinition,
       ChangeDefinition, CreateCase, CreateCaseByService, FindByIDTx, CheckKey,
       InsertDefinition, SearchActive, CheckActive, CountActive, SearchNewKey,
       RefuseUpdate, SaveCase, RecordAuditEvent, BindInstance, Recover, Fail,
       DeadlockAbort, Refuse, tables
  <2>2. /\ request[p].pc = "committing"
        /\ def' = [def EXCEPT ![request[p].def] =
                       Written(request[p].op, def[request[p].def])]
    BY <2>1 DEF Commit, Inv, TypeOK
  <2>3. d = request[p].def /\ def'[d] = Written(request[p].op, def[d])
    BY <2>2 DEF Inv, TypeOK
  <2> QED BY <2>2, <2>3, CommitsWhatItKnows DEF Moves
<1>2. Spec => [][A]_vars
  BY Invariance, <1>1, PTL DEF Spec
<1> QED BY <1>2 DEF DefinitionsMoveForward
=============================================================================
