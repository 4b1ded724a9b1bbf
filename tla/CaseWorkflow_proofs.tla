------------------------ MODULE CaseWorkflow_proofs ------------------------
(***************************************************************************)
(* Theorems about CaseWorkflow, for every workflow definition the          *)
(* validator accepts and any number of cases, forms and requests.          *)
(***************************************************************************)
EXTENDS CaseWorkflow, TLAPS

-----------------------------------------------------------------------------
(* The inductive invariant.  CaseOK relates the rows of one case,          *)
(* RequestInv what a request believes to the rows as they are.             *)

(* The rows of a case that does not exist are the ones Init gives it; the  *)
(* versions of one that exists count its moves, which lead from the        *)
(* initial state to where it is.                                           *)
CaseOK(row, ins, h) ==
    LET n == Len(h) IN
    /\ row.status = ins.state
    /\ ins.version = 0 => ins.done = FALSE /\ h = <<>> /\ ins.state = Nil
    /\ ins.version > 0 =>
          /\ ins.state \in States
          /\ row.version = n + 2
          /\ ins.version = 1 + n + (IF ins.done THEN 1 ELSE 0)
          /\ ins.state = (IF n = 0 THEN Initial ELSE h[n].to)
          /\ n > 0 => h[1].from = Initial
          /\ \A i \in 1 .. n - 1 : h[i].to = h[i + 1].from
          /\ ins.done => ins.state \in Terminal
          /\ n > 0 => /\ ins.state \in Terminal => ins.done
                      /\ row.closed = ins.done

CaseInv == \A c \in Cases : CaseOK(caseRow[c], instance[c], history[c])

(* What a request knows once it has left idle: its case exists, and the    *)
(* transition it chose is an edge for the key it was asked for.            *)
KnowsItsCase(p) ==
    LET r == request[p] IN
    /\ r.pc # "idle" => r.case \in Cases /\ Exists(r.case)
    /\ r.pc \in {"updating", "observing", "committing"} =>
          r.tr \in Transitions /\ r.tr.key = r.key
    /\ r.op = "status" /\ r.pc \notin {"idle", "listing"} =>
          \E t \in Transitions : t.key = r.key /\ t.to = r.want
    /\ r.pc \in {"listing", "checking"} => r.op = "status"
    /\ r.op = "status" /\ r.pc # "idle" => r.seen \in States

(* A version, once read, identifies the state read with it: versions only  *)
(* grow, and grow with every change of state.                              *)
VersionTells(p) ==
    request[p].pc = "updating" =>
        LET r == request[p] IN
        /\ r.ver <= instance[r.case].version
        /\ r.ver = instance[r.case].version =>
              instance[r.case].state = r.tr.from

(* NothingStaleCommits, for one request.                                   *)
StandsOnRow(p) ==
    request[p].pc \in LockSteps =>
        LET r == request[p] IN
        /\ instLock[r.case] = p
        /\ instance[r.case].version = r.ver
        /\ instance[r.case].state = r.tr.from

(* The forms a request about to commit found complete stay complete while  *)
(* it holds the assignment rows.                                           *)
FormsStay(p) ==
    request[p].pc = "committing" =>
        LET r == request[p] IN
        \A s \in r.found :
            /\ asgLock[s] = p
            /\ assignment[s] = "required" => s[2] \in submitted[r.case]

RequestInv(p) ==
    KnowsItsCase(p) /\ VersionTells(p) /\ StandsOnRow(p) /\ FormsStay(p)

(* Only a row that is there is locked.                                     *)
LockInv == \A s \in Slots : assignment[s] = "none" => asgLock[s] = Nil

Inv ==
    /\ TypeOK
    /\ CaseInv
    /\ LockInv
    /\ \A p \in Requests : RequestInv(p)

-----------------------------------------------------------------------------
(* Initially nothing exists and no request runs.                           *)
LEMMA InitInv == Init => Inv
<1> SUFFICES ASSUME Init PROVE Inv
  OBVIOUS
<1>1. TypeOK
  BY DEF Init, TypeOK, NoCase, NoInstance, Idle, NoTransition, Requestor,
         AssignmentRow
<1>2. CaseInv
  <2> SUFFICES ASSUME NEW c \in Cases
               PROVE  CaseOK(caseRow[c], instance[c], history[c])
    BY DEF CaseInv
  <2>1. /\ caseRow[c].status = Nil /\ history[c] = <<>>
        /\ instance[c].state = Nil /\ instance[c].version = 0
        /\ instance[c].done = FALSE
    BY DEF Init, NoInstance, NoCase
  <2> QED BY <2>1 DEF CaseOK
<1>3. LockInv
  BY DEF Init, LockInv
<1>4. ASSUME NEW p \in Requests PROVE RequestInv(p)
  BY DEF Init, RequestInv, KnowsItsCase, VersionTells, StandsOnRow,
         LockSteps, FormsStay, Idle
<1> QED BY <1>1, <1>2, <1>3, <1>4 DEF Inv

-----------------------------------------------------------------------------
(* What a step leaves alone stays true.                                    *)

(* A step that leaves the three rows of every case alone preserves what    *)
(* relates them.                                                           *)
LEMMA RowsStutter ==
    ASSUME CaseInv, UNCHANGED <<caseRow, instance, history>>
    PROVE  CaseInv'
BY DEF CaseInv

(* What a request q knows survives any step of another actor that neither  *)
(* touches q nor the instance of its case, takes no assignment row for q   *)
(* and makes no form required behind a lock of q.                          *)
LEMMA OthersUndisturbed ==
    ASSUME Inv, NEW q \in Requests,
           request'[q] = request[q],
           request[q].pc # "idle" =>
               /\ instance'[request[q].case] = instance[request[q].case]
               /\ instLock[request[q].case] = q =>
                      instLock'[request[q].case] = q
               /\ submitted[request[q].case] \subseteq
                      submitted'[request[q].case],
           \A s \in Slots : asgLock[s] = q =>
               asgLock'[s] = q /\ assignment'[s] = assignment[s]
    PROVE  RequestInv(q)'
<1>1. RequestInv(q)
  BY DEF Inv
<1>2. KnowsItsCase(q)'
  BY <1>1 DEF RequestInv, KnowsItsCase, Exists
<1>3. VersionTells(q)' /\ StandsOnRow(q)'
  BY <1>1 DEF RequestInv, VersionTells, StandsOnRow, LockSteps
<1>4. FormsStay(q)'
  <2>1. request[q].found \subseteq Slots
    BY DEF Inv, TypeOK, Requestor
  <2> QED BY <1>1, <2>1 DEF RequestInv, FormsStay
<1> QED BY <1>2, <1>3, <1>4 DEF RequestInv

(* A request that ends leaves nothing to know about it, and frees only     *)
(* locks of its own.                                                       *)
LEMMA EndPreserves ==
    ASSUME Inv, NEW p \in Requests, EndRequest(p),
           UNCHANGED <<caseRow, instance, history, audited, assignment>>,
           submitted' \in [Cases -> SUBSET Forms],
           \A c \in Cases : submitted[c] \subseteq submitted'[c]
    PROVE  Inv'
<1> USE DEF EndRequest
<1>1. TypeOK'
  BY DEF Inv, TypeOK, Idle, NoTransition, Requestor, Freed
<1>2. CaseInv'
  BY RowsStutter DEF Inv
<1>3. LockInv'
  BY DEF Inv, LockInv, TypeOK, Freed
<1>4. RequestInv(p)'
  BY DEF Inv, TypeOK, Idle, RequestInv, KnowsItsCase, VersionTells,
         StandsOnRow, LockSteps, FormsStay
<1>5. ASSUME NEW q \in Requests, q # p PROVE RequestInv(q)'
  <2>1. request'[q] = request[q]
    BY <1>5 DEF Inv, TypeOK
  <2>2. request[q].pc # "idle" => request[q].case \in Cases
    BY DEF Inv, RequestInv, KnowsItsCase
  <2>3. \A s \in Slots : asgLock[s] = q => asgLock'[s] = q
    BY <1>5 DEF Inv, TypeOK, Freed
  <2>4. \A c \in Cases : instLock[c] = q => instLock'[c] = q
    BY <1>5 DEF Inv, TypeOK, Freed
  <2> QED BY <2>1, <2>2, <2>3, <2>4, OthersUndisturbed
<1> QED BY <1>1, <1>2, <1>3, <1>4, <1>5 DEF Inv

(* p alone changes, keeping to its type.                                   *)
OnlyChanges(p) ==
    /\ request' \in [Requests -> Requestor]
    /\ \A q \in Requests \ {p} : request'[q] = request[q]

(* A request that goes on, and takes at most locks that are free or its    *)
(* own, disturbs nothing but what it knows itself.                         *)
LEMMA AdvancePreserves ==
    ASSUME Inv, NEW p \in Requests, OnlyChanges(p),
           UNCHANGED <<rows, assignment>>,
           instLock' \in [Cases -> Requests \cup {Nil}],
           asgLock' \in [Slots -> Requests \cup {Nil}],
           \A c \in Cases : instLock'[c] # instLock[c] =>
               instLock[c] = Nil /\ instLock'[c] = p,
           \A s \in Slots : asgLock'[s] # asgLock[s] =>
               assignment[s] # "none" /\ asgLock[s] = Nil /\ asgLock'[s] = p,
           RequestInv(p)'
    PROVE  Inv'
<1> USE DEF rows, OnlyChanges
<1>1. TypeOK'
  BY DEF Inv, TypeOK
<1>2. CaseInv'
  BY RowsStutter DEF Inv
<1>3. LockInv'
  BY DEF Inv, LockInv
<1>4. ASSUME NEW q \in Requests, q # p PROVE RequestInv(q)'
  <2>1. request'[q] = request[q]
    BY <1>4 DEF Inv, TypeOK
  <2>2. request[q].pc # "idle" => request[q].case \in Cases
    BY DEF Inv, RequestInv, KnowsItsCase
  <2>3. \A s \in Slots : asgLock[s] = q => asgLock'[s] = q
    BY <1>4, NilIsNoValue
  <2>4. \A c \in Cases : instLock[c] = q => instLock'[c] = q
    BY <1>4, NilIsNoValue
  <2> QED BY <2>1, <2>2, <2>3, <2>4, OthersUndisturbed
<1> QED BY <1>1, <1>2, <1>3, <1>4 DEF Inv

-----------------------------------------------------------------------------
(* Every step of a request preserves the invariant.                        *)

LEMMA StartPreserves ==
    ASSUME Inv, NEW p \in Requests, Start(p) PROVE Inv'
<1>1. PICK c \in Cases :
          \/ \E want \in States : StartChangeStatus(p, c, want)
          \/ \E key \in Keys : StartTransition(p, c, key)
          \/ \E f \in Forms : StartSubmit(p, c, f)
  BY DEF Start
<1> DEFINE r == request'[p]
<1>2. Exists(c) /\ instance[c].state \in States
  <2>1. Exists(c)
    BY <1>1 DEF StartChangeStatus, StartTransition, StartSubmit
  <2> QED BY <2>1 DEF Inv, CaseInv, CaseOK, Exists
<1>3. /\ \A q \in Requests \ {p} : request'[q] = request[q]
      /\ request' \in [Requests -> Requestor]
      /\ r.case = c
      /\ \/ r.pc = "listing" /\ r.op = "status" /\ r.seen \in States
         \/ r.pc \in {"loading", "submitting"} /\ r.op # "status"
  <2>1. ASSUME NEW want \in States, StartChangeStatus(p, c, want) PROVE <1>3
    <3> DEFINE r1 == [Idle EXCEPT !.pc = "listing", !.op = "status",
                         !.case = c, !.want = want, !.seen = instance[c].state]
    <3>1. r1 \in Requestor /\ r1.case = c /\ r1.pc = "listing"
          /\ r1.op = "status" /\ r1.seen \in States
      BY <1>2 DEF Idle, Requestor, NoTransition
    <3>2. request' = [request EXCEPT ![p] = r1]
      BY <2>1 DEF StartChangeStatus
    <3> QED BY <3>1, <3>2 DEF Inv, TypeOK
  <2>2. ASSUME NEW key \in Keys, StartTransition(p, c, key) PROVE <1>3
    <3> DEFINE r1 == [Idle EXCEPT !.pc = "loading", !.op = "transition",
                         !.case = c, !.key = key]
    <3>1. r1 \in Requestor /\ r1.case = c /\ r1.pc = "loading"
          /\ r1.op = "transition"
      BY DEF Idle, Requestor, NoTransition
    <3>2. request' = [request EXCEPT ![p] = r1]
      BY <2>2 DEF StartTransition
    <3> QED BY <3>1, <3>2 DEF Inv, TypeOK
  <2>3. ASSUME NEW f \in Forms, StartSubmit(p, c, f) PROVE <1>3
    <3> DEFINE r1 == [Idle EXCEPT !.pc = "submitting", !.op = "submit",
                         !.case = c, !.form = f, !.seen = instance[c].state]
    <3>1. r1 \in Requestor /\ r1.case = c /\ r1.pc = "submitting"
          /\ r1.op = "submit"
      BY <1>2 DEF Idle, Requestor, NoTransition
    <3>2. request' = [request EXCEPT ![p] = r1]
      BY <2>3 DEF StartSubmit
    <3> QED BY <3>1, <3>2 DEF Inv, TypeOK
  <2> QED BY <1>1, <2>1, <2>2, <2>3
<1>4. UNCHANGED <<rows, assignment, locks>>
  BY <1>1 DEF StartChangeStatus, StartTransition, StartSubmit
<1>5. RequestInv(p)'
  BY <1>2, <1>3, <1>4 DEF RequestInv, KnowsItsCase, VersionTells,
     StandsOnRow, LockSteps, FormsStay, Exists, rows
<1> QED BY <1>3, <1>4, <1>5, AdvancePreserves DEF OnlyChanges, locks, Inv, TypeOK

LEMMA PickPreserves ==
    ASSUME Inv, NEW p \in Requests, PickTransition(p) PROVE Inv'
<1> DEFINE r == request[p]
<1>1. /\ r \in Requestor /\ r.pc = "listing" /\ r.op = "status"
      /\ r.case \in Cases /\ Exists(r.case) /\ r.seen \in States
      /\ UNCHANGED <<rows, assignment, locks>>
  BY DEF PickTransition, Inv, TypeOK, RequestInv, KnowsItsCase
<1>2. OnlyChanges(p) /\ RequestInv(p)'
  <2>1. CASE request' = [request EXCEPT ![p] = Idle]
    <3>1. OnlyChanges(p)
      BY <2>1 DEF Inv, TypeOK, Idle, NoTransition, Requestor, OnlyChanges
    <3>2. request'[p].pc = "idle" /\ request'[p].op = "none"
      BY <2>1 DEF Inv, TypeOK, Idle
    <3>3. RequestInv(p)'
      BY <3>2 DEF RequestInv, KnowsItsCase, VersionTells, StandsOnRow,
         LockSteps, FormsStay
    <3> QED BY <3>1, <3>3
  <2>2. CASE \E t \in {u \in ValidFrom(instance[r.case].state) : u.to = r.want} :
                request' = [request EXCEPT ![p].pc = "checking",
                                           ![p].key = t.key]
    <3>1. PICK t \in Transitions :
             /\ t.to = r.want /\ t.key \in Keys
             /\ request' = [request EXCEPT ![p].pc = "checking",
                                           ![p].key = t.key]
      BY <2>2, ValidDefinition DEF ValidFrom
    <3>2. OnlyChanges(p)
      BY <1>1, <3>1 DEF OnlyChanges, Requestor, Inv, TypeOK
    <3>3. /\ request'[p].pc = "checking" /\ request'[p].key = t.key
          /\ request'[p].case = r.case /\ request'[p].op = r.op
          /\ request'[p].want = r.want /\ request'[p].seen = r.seen
      BY <1>1, <3>1 DEF Inv, TypeOK, Requestor
    <3>4. RequestInv(p)'
      BY <1>1, <3>1, <3>3 DEF RequestInv, KnowsItsCase, VersionTells,
         StandsOnRow, LockSteps, FormsStay, Exists, rows, Requestor
    <3> QED BY <3>2, <3>4
  <2> QED BY <2>1, <2>2 DEF PickTransition
<1> QED BY <1>1, <1>2, AdvancePreserves DEF locks, Inv, TypeOK

LEMMA CheckPreserves ==
    ASSUME Inv, NEW p \in Requests, CheckForms(p) PROVE Inv'
<1> DEFINE r == request[p]
<1>1. /\ r \in Requestor /\ r.pc = "checking" /\ r.op = "status"
      /\ r.case \in Cases /\ Exists(r.case) /\ r.seen \in States
      /\ \E t \in Transitions : t.key = r.key /\ t.to = r.want
      /\ RowsFree(p, r.seen)
      /\ UNCHANGED <<rows, assignment>>
  BY DEF CheckForms, Inv, TypeOK, RequestInv, KnowsItsCase
<1>2. CASE EndRequest(p)
  BY <1>1, <1>2, EndPreserves DEF rows, Inv, TypeOK
<1>3. CASE LockRows(p, r.seen) /\ GoTo(p, "loading") /\ UNCHANGED instLock
  <2>1. OnlyChanges(p) /\ request'[p] = [r EXCEPT !.pc = "loading"]
    BY <1>1, <1>3 DEF GoTo, OnlyChanges, Requestor, Inv, TypeOK
  <2>2. RequestInv(p)'
    BY <1>1, <2>1 DEF RequestInv, KnowsItsCase, VersionTells, StandsOnRow,
       LockSteps, FormsStay, Exists, rows, Requestor
  <2>3. /\ asgLock' \in [Slots -> Requests \cup {Nil}]
        /\ \A s \in Slots : asgLock'[s] # asgLock[s] =>
               assignment[s] # "none" /\ asgLock[s] = Nil /\ asgLock'[s] = p
    BY <1>1, <1>3 DEF LockRows, RowsFree, RowsOf, Inv, TypeOK
  <2> QED BY <1>1, <1>3, <2>1, <2>2, <2>3, AdvancePreserves DEF Inv, TypeOK
<1> QED BY <1>2, <1>3 DEF CheckForms

LEMMA LoadPreserves ==
    ASSUME Inv, NEW p \in Requests, LoadInstance(p) PROVE Inv'
<1> DEFINE r == request[p]
<1>1. /\ r \in Requestor /\ r.pc = "loading"
      /\ r.case \in Cases /\ Exists(r.case)
      /\ r.op = "status" =>
             r.seen \in States /\ \E t \in Transitions : t.key = r.key /\ t.to = r.want
      /\ UNCHANGED <<rows, assignment>>
  BY DEF LoadInstance, Inv, TypeOK, RequestInv, KnowsItsCase
<1>2. CASE EndRequest(p)
  BY <1>1, <1>2, EndPreserves DEF rows, Inv, TypeOK
<1>3. ASSUME NEW t \in Transitions, t.from = instance[r.case].state,
             t.key = r.key, UNCHANGED locks,
             request' = [request EXCEPT ![p].pc = "updating", ![p].tr = t,
                                        ![p].ver = instance[r.case].version]
      PROVE  Inv'
  <2>1. OnlyChanges(p)
    BY <1>1, <1>3 DEF OnlyChanges, Requestor, Inv, TypeOK
  <2>2. /\ request'[p].pc = "updating" /\ request'[p].key = r.key
        /\ request'[p].case = r.case /\ request'[p].op = r.op
        /\ request'[p].want = r.want /\ request'[p].seen = r.seen
        /\ request'[p].tr = t /\ request'[p].ver = instance[r.case].version
    BY <1>1, <1>3 DEF Inv, TypeOK, Requestor
  <2>3. RequestInv(p)'
    BY <1>1, <1>3, <2>2 DEF RequestInv, KnowsItsCase, VersionTells,
       StandsOnRow, LockSteps, FormsStay, Exists, rows, Inv, TypeOK
  <2> QED BY <1>1, <1>3, <2>1, <2>3, AdvancePreserves DEF locks, Inv, TypeOK
<1> QED BY <1>2, <1>3 DEF LoadInstance, Found, ValidFrom

LEMMA UpdatePreserves ==
    ASSUME Inv, NEW p \in Requests, UpdateState(p) PROVE Inv'
<1> DEFINE r == request[p]
<1>1. /\ r \in Requestor /\ r.pc = "updating"
      /\ RequestInv(p) /\ r.case \in Cases
      /\ instLock[r.case] = Nil
      /\ UNCHANGED <<rows, assignment>>
  BY DEF UpdateState, Inv, TypeOK, RequestInv, KnowsItsCase
<1>2. CASE EndRequest(p)
  BY <1>1, <1>2, EndPreserves DEF rows, Inv, TypeOK
<1>3. CASE /\ instance[r.case].version = r.ver
           /\ instLock' = [instLock EXCEPT ![r.case] = p]
           /\ GoTo(p, "observing")
           /\ UNCHANGED asgLock
  <2>1. OnlyChanges(p) /\ request'[p] = [r EXCEPT !.pc = "observing"]
    BY <1>1, <1>3 DEF GoTo, OnlyChanges, Requestor, Inv, TypeOK
  <2>2. /\ instLock' \in [Cases -> Requests \cup {Nil}]
        /\ instLock'[r.case] = p
        /\ \A c \in Cases : instLock'[c] # instLock[c] =>
               instLock[c] = Nil /\ instLock'[c] = p
    BY <1>1, <1>3 DEF Inv, TypeOK
  <2>3. RequestInv(p)'
    BY <1>1, <1>3, <2>1, <2>2 DEF RequestInv, KnowsItsCase, VersionTells,
       StandsOnRow, LockSteps, FormsStay, Exists, rows, Requestor
  <2> QED BY <1>1, <1>3, <2>1, <2>2, <2>3, AdvancePreserves DEF Inv, TypeOK
<1> QED BY <1>2, <1>3 DEF UpdateState, VersionMatches

LEMMA ObservePreserves ==
    ASSUME Inv, NEW p \in Requests, Observe(p) PROVE Inv'
<1> DEFINE r == request[p]
<1>1. /\ r \in Requestor /\ r.pc = "observing"
      /\ RequestInv(p) /\ r.case \in Cases
      /\ RowsFree(p, r.tr.from)
      /\ UNCHANGED <<rows, assignment>>
  BY DEF Observe, Inv, TypeOK, RequestInv, KnowsItsCase
<1>2. CASE EndRequest(p)
  BY <1>1, <1>2, EndPreserves DEF rows, Inv, TypeOK
<1>3. CASE /\ FormsComplete(r.case, r.tr.from)
           /\ LockRows(p, r.tr.from)
           /\ request' = [request EXCEPT ![p].pc = "committing",
                                         ![p].found = RowsOf(r.tr.from)]
           /\ UNCHANGED instLock
  <2>0. RowsOf(r.tr.from) \subseteq Slots
    BY DEF RowsOf
  <2>1. /\ OnlyChanges(p)
        /\ request'[p] = [r EXCEPT !.pc = "committing",
                                   !.found = RowsOf(r.tr.from)]
    BY <1>1, <1>3, <2>0 DEF OnlyChanges, Requestor, Inv, TypeOK
  <2>2. /\ asgLock' \in [Slots -> Requests \cup {Nil}]
        /\ \A s \in Slots : asgLock'[s] # asgLock[s] =>
               assignment[s] # "none" /\ asgLock[s] = Nil /\ asgLock'[s] = p
    BY <1>1, <1>3 DEF LockRows, RowsFree, RowsOf, Inv, TypeOK
  <2>3. KnowsItsCase(p)' /\ VersionTells(p)' /\ StandsOnRow(p)'
    <3>1. /\ request'[p].pc = "committing" /\ request'[p].key = r.key
          /\ request'[p].case = r.case /\ request'[p].op = r.op
          /\ request'[p].want = r.want /\ request'[p].seen = r.seen
          /\ request'[p].tr = r.tr /\ request'[p].ver = r.ver
      BY <1>1, <2>1 DEF Requestor
    <3> QED BY <1>1, <1>3, <3>1 DEF RequestInv, KnowsItsCase, VersionTells,
            StandsOnRow, LockSteps, Exists, rows
  <2>4. FormsStay(p)'
    <3>1. request'[p].found = RowsOf(r.tr.from) /\ request'[p].case = r.case
      BY <1>1, <2>1 DEF Requestor
    <3>2. \A s \in RowsOf(r.tr.from) : asgLock'[s] = p
      BY <1>3, <2>0 DEF LockRows
    <3>3. \A s \in RowsOf(r.tr.from) :
             assignment[s] = "required" => s[2] \in submitted[r.case]
      BY <1>3 DEF FormsComplete
    <3>4. UNCHANGED <<assignment, submitted>>
      BY <1>1 DEF rows
    <3> QED BY <3>1, <3>2, <3>3, <3>4 DEF FormsStay
  <2> QED BY <1>1, <1>3, <2>1, <2>2, <2>3, <2>4, AdvancePreserves
          DEF Inv, TypeOK, RequestInv
<1> QED BY <1>2, <1>3 DEF Observe

(* One move of one case along an edge out of its state.                    *)
LEMMA MoveKeepsCaseOK ==
    ASSUME NEW row \in [status : States \cup {Nil}, version : Nat,
                        closed : BOOLEAN],
           NEW ins \in [state : States \cup {Nil}, version : Nat,
                        done : BOOLEAN],
           NEW h \in Seq(Transitions),
           NEW t \in Transitions,
           CaseOK(row, ins, h), ins.version > 0, ins.state = t.from
    PROVE  CaseOK(Mirrored(row, t.to), Moved(ins, t.to), Append(h, t))
<1> DEFINE n == Len(h)
           g == Append(h, t)
           row1 == Mirrored(row, t.to)
           ins1 == Moved(ins, t.to)
<1>1. t.from \notin Terminal /\ t.to \in States
  BY ValidDefinition
<1>2. /\ n \in Nat /\ Len(g) = n + 1 /\ g[n + 1] = t
      /\ \A i \in 1 .. n : g[i] = h[i]
  OBVIOUS
<1>3. /\ ins.done = FALSE
      /\ row.version = n + 2
      /\ ins.version = 1 + n
      /\ t.from = (IF n = 0 THEN Initial ELSE h[n].to)
      /\ n > 0 => h[1].from = Initial
      /\ \A i \in 1 .. n - 1 : h[i].to = h[i + 1].from
  <2>1. ins.done = FALSE
    BY <1>1 DEF CaseOK
  <2> QED BY <2>1 DEF CaseOK
<1>4. g[1].from = Initial
  BY <1>2, <1>3
<1>5. ASSUME NEW i \in 1 .. n PROVE g[i].to = g[i + 1].from
  <2>1. CASE i = n
    BY <1>2, <1>3, <2>1
  <2>2. CASE i # n
    <3>1. i \in 1 .. n - 1 /\ i + 1 \in 1 .. n
      BY <1>2, <2>2
    <3> QED BY <1>2, <1>3, <3>1
  <2> QED BY <2>1, <2>2
<1>6. /\ row1.status = t.to /\ row1.version = row.version + 1
      /\ ins1.state = t.to
      /\ t.to \in Terminal => /\ ins1.done = TRUE /\ row1.closed = TRUE
                              /\ ins1.version = ins.version + 2
      /\ t.to \notin Terminal => /\ ins1.done = FALSE /\ row1.closed = FALSE
                                 /\ ins1.version = ins.version + 1
  <2>1. CASE t.to \in Terminal
    BY <2>1 DEF Mirrored, Moved
  <2>2. CASE t.to \notin Terminal
    BY <1>3, <2>2 DEF Mirrored, Moved
  <2> QED BY <2>1, <2>2
<1>7. ins1.version > 0 /\ ins.version + 1 # 0
  BY <1>2, <1>3, <1>6
<1> SUFFICES CaseOK(row1, ins1, g)
  OBVIOUS
<1> HIDE DEF n, g, row1, ins1
<1>8. /\ ins1.state = (IF Len(g) = 0 THEN Initial ELSE g[Len(g)].to)
      /\ row1.version = Len(g) + 2
      /\ Len(g) > 0
  BY <1>2, <1>3, <1>6
<1>9. \A i \in 1 .. Len(g) - 1 : g[i].to = g[i + 1].from
  BY <1>2, <1>5
<1>10. ins1.version = 1 + Len(g) + (IF ins1.done THEN 1 ELSE 0)
  <2>1. CASE t.to \in Terminal
    BY <1>2, <1>3, <1>6, <2>1
  <2>2. CASE t.to \notin Terminal
    BY <1>2, <1>3, <1>6, <2>2
  <2> QED BY <2>1, <2>2
<1>11. /\ ins1.done => ins1.state \in Terminal
       /\ ins1.state \in Terminal => ins1.done
       /\ row1.closed = ins1.done
  <2>1. CASE t.to \in Terminal
    BY <1>6, <2>1
  <2>2. CASE t.to \notin Terminal
    BY <1>6, <2>2
  <2> QED BY <2>1, <2>2
<1> QED BY <1>1, <1>4, <1>6, <1>7, <1>8, <1>9, <1>10, <1>11 DEF CaseOK

(* The move of a case from a state its request still stands on.  What      *)
(* carries the proof is that the version of the row the request read       *)
(* fixes the state it leaves, which therefore is not terminal, and that    *)
(* any other request that read that version finds it gone.                 *)
LEMMA CommitPreserves ==
    ASSUME Inv, NEW p \in Requests, Commit(p) PROVE Inv'
<1> DEFINE r == request[p]
           c == r.case
           to == r.tr.to
<1>1. /\ c \in Cases /\ instance[c].version > 0 /\ r.pc = "committing"
      /\ r.tr \in Transitions /\ RequestInv(p) /\ to \in States
  BY ValidDefinition DEF Commit, Inv, RequestInv, KnowsItsCase, Exists
<1>2. instance[c].state = r.tr.from /\ instLock[c] = p
  BY <1>1 DEF RequestInv, StandsOnRow, LockSteps
<1>3. /\ instance' = [instance EXCEPT ![c] = Moved(@, to)]
      /\ caseRow' = [caseRow EXCEPT ![c] = Mirrored(@, to)]
      /\ history' = [history EXCEPT ![c] = Append(@, r.tr)]
      /\ UNCHANGED <<assignment, submitted>>
      /\ EndRequest(p)
  BY DEF Commit
<1>4. /\ instance'[c] = Moved(instance[c], to)
      /\ caseRow'[c] = Mirrored(caseRow[c], to)
      /\ history'[c] = Append(history[c], r.tr)
      /\ \A d \in Cases \ {c} : /\ instance'[d] = instance[d]
                                /\ caseRow'[d] = caseRow[d]
                                /\ history'[d] = history[d]
  BY <1>1, <1>3 DEF Inv, TypeOK
<1>5. TypeOK'
  <2>1. audited' \in [Cases -> Seq([from : States, to : States])]
    <3>1. CASE r.op = "status"
      <4> DEFINE e == [from |-> r.seen, to |-> to]
                 E == [from : States, to : States]
      <4>1. e \in E
        BY <1>1, <3>1 DEF RequestInv, KnowsItsCase
      <4>2. audited' = [audited EXCEPT ![c] = Append(@, e)]
        BY <3>1 DEF Commit, Audited
      <4>3. audited \in [Cases -> Seq(E)]
        BY DEF Inv, TypeOK
      <4> HIDE DEF e, E
      <4>4. Append(audited[c], e) \in Seq(E)
        BY <1>1, <4>1, <4>3
      <4>5. audited' \in [Cases -> Seq(E)]
        BY <4>2, <4>3, <4>4
      <4> QED BY <4>5 DEF E
    <3>2. CASE r.op # "status"
      BY <1>1, <3>2 DEF Commit, Audited, Inv, TypeOK
    <3> QED BY <3>1, <3>2
  <2>2. /\ instance' \in [Cases -> [state : States \cup {Nil}, version : Nat,
                                    done : BOOLEAN]]
        /\ caseRow' \in [Cases -> [status : States \cup {Nil}, version : Nat,
                                   closed : BOOLEAN]]
    BY <1>1, <1>3 DEF Moved, Mirrored, Inv, TypeOK
  <2>3. history' \in [Cases -> Seq(Transitions)]
    BY <1>1, <1>3 DEF Inv, TypeOK
  <2>4. /\ request' \in [Requests -> Requestor]
        /\ instLock' \in [Cases -> Requests \cup {Nil}]
        /\ asgLock' \in [Slots -> Requests \cup {Nil}]
    BY <1>3 DEF EndRequest, Freed, Inv, TypeOK, Idle, NoTransition, Requestor
  <2> QED BY <1>3, <2>1, <2>2, <2>3, <2>4 DEF Inv, TypeOK
<1>6. CaseInv'
  <2>1. CaseOK(caseRow[c], instance[c], history[c])
    BY <1>1 DEF Inv, CaseInv
  <2>2. /\ caseRow[c] \in [status : States \cup {Nil}, version : Nat,
                           closed : BOOLEAN]
        /\ instance[c] \in [state : States \cup {Nil}, version : Nat,
                            done : BOOLEAN]
        /\ history[c] \in Seq(Transitions)
    BY <1>1 DEF Inv, TypeOK
  <2>3. CaseOK(Mirrored(caseRow[c], to), Moved(instance[c], to),
               Append(history[c], r.tr))
    BY <1>1, <1>2, <2>1, <2>2, MoveKeepsCaseOK
  <2>4. CaseOK(caseRow'[c], instance'[c], history'[c])
    BY <1>4, <2>3
  <2> QED BY <1>4, <2>4 DEF CaseInv, Inv
<1>7. LockInv'
  BY <1>3 DEF EndRequest, Freed, Inv, LockInv, TypeOK
<1>8. RequestInv(p)'
  <2>1. request'[p].pc = "idle" /\ request'[p].op = "none"
    BY <1>3 DEF EndRequest, Inv, TypeOK, Idle
  <2> QED BY <2>1 DEF RequestInv, KnowsItsCase, VersionTells, StandsOnRow,
                      LockSteps, FormsStay
<1>9. ASSUME NEW q \in Requests, q # p PROVE RequestInv(q)'
  <2>1. request'[q] = request[q] /\ RequestInv(q)
    BY <1>3, <1>9 DEF EndRequest, Inv, TypeOK
  <2>2. \A s \in Slots : asgLock[s] = q =>
            asgLock'[s] = q /\ assignment'[s] = assignment[s]
    BY <1>3, <1>9 DEF EndRequest, Inv, TypeOK, Freed
  <2>3. \A d \in Cases : instLock[d] = q => instLock'[d] = q
    BY <1>3, <1>9 DEF EndRequest, Inv, TypeOK, Freed
  <2>4. request[q].pc # "idle" => request[q].case \in Cases
    BY <2>1 DEF RequestInv, KnowsItsCase
  <2>5. CASE request[q].pc = "idle" \/ request[q].case # c
    BY <1>3, <1>4, <2>1, <2>2, <2>3, <2>4, <2>5, OthersUndisturbed
  <2>6. CASE request[q].pc # "idle" /\ request[q].case = c
    <3>1. request[q].pc \notin LockSteps
      BY <1>2, <1>9, <2>1, <2>6 DEF RequestInv, StandsOnRow
    <3>2. instance'[c].version \in Nat /\ instance[c].version \in Nat
          /\ instance'[c].version > instance[c].version
      BY <1>1, <1>4 DEF Moved, Inv, TypeOK
    <3>3. request[q].ver \in Nat
      BY DEF Inv, TypeOK, Requestor
    <3>4. KnowsItsCase(q)'
      BY <1>1, <2>1, <2>6, <3>2 DEF RequestInv, KnowsItsCase, Exists
    <3>5. VersionTells(q)'
      BY <2>1, <2>6, <3>2, <3>3 DEF RequestInv, VersionTells
    <3> QED BY <2>1, <3>1, <3>4, <3>5
            DEF RequestInv, StandsOnRow, FormsStay, LockSteps
  <2> QED BY <2>5, <2>6
<1> QED BY <1>5, <1>6, <1>7, <1>8, <1>9 DEF Inv

LEMMA SavePreserves ==
    ASSUME Inv, NEW p \in Requests, SaveSubmission(p) PROVE Inv'
<1>1. /\ request[p].form \in Forms \cup {Nil}
      /\ EndRequest(p)
      /\ UNCHANGED <<caseRow, instance, history, audited, assignment>>
  BY DEF SaveSubmission, Inv, TypeOK, Requestor
<1>2. /\ submitted' \in [Cases -> SUBSET Forms]
      /\ \A c \in Cases : submitted[c] \subseteq submitted'[c]
  <2> DEFINE r == request[p]
             active == \E s \in RowsOf(r.seen) :
                          s[2] = r.form /\ assignment[s] # "inactive"
  <2>1. active => r.form \in Forms
    BY NilIsNoValue DEF RowsOf
  <2>2. submitted' = IF active
                     THEN [submitted EXCEPT ![r.case] = @ \cup {r.form}]
                     ELSE submitted
    BY DEF SaveSubmission
  <2> HIDE DEF active
  <2> QED BY <2>1, <2>2 DEF Inv, TypeOK
<1> QED BY <1>1, <1>2, EndPreserves

-----------------------------------------------------------------------------
(* Opening cases and editing assignments.                                  *)

(* No request runs on a case that is not there yet.                        *)
LEMMA CreatePreserves ==
    ASSUME Inv, NEW c \in Cases, CreateCase(c) PROVE Inv'
<1>1. /\ instance[c].version = 0 /\ history[c] = <<>>
      /\ UNCHANGED <<history, audited, assignment, submitted, locks, request>>
      /\ caseRow' = [caseRow EXCEPT ![c] =
             [status |-> Initial, version |-> 2,
              closed |-> Initial \in ClosedNames]]
      /\ instance' = [instance EXCEPT ![c] =
             [state |-> Initial, version |-> 1, done |-> FALSE]]
  BY DEF CreateCase, Exists, Inv, TypeOK, CaseInv, CaseOK
<1>2. TypeOK'
  <2>1. [status |-> Initial, version |-> 2, closed |-> Initial \in ClosedNames]
            \in [status : States \cup {Nil}, version : Nat, closed : BOOLEAN]
    BY ValidDefinition
  <2>2. [state |-> Initial, version |-> 1, done |-> FALSE]
            \in [state : States \cup {Nil}, version : Nat, done : BOOLEAN]
    BY ValidDefinition
  <2>3. /\ caseRow' \in [Cases -> [status : States \cup {Nil}, version : Nat,
                                   closed : BOOLEAN]]
        /\ instance' \in [Cases -> [state : States \cup {Nil}, version : Nat,
                                    done : BOOLEAN]]
    BY <1>1, <2>1, <2>2 DEF Inv, TypeOK
  <2> QED BY <1>1, <2>3 DEF Inv, TypeOK, locks
<1>3. CaseInv'
  <2>1. CaseOK([status |-> Initial, version |-> 2,
                closed |-> Initial \in ClosedNames],
               [state |-> Initial, version |-> 1, done |-> FALSE], <<>>)
    BY ValidDefinition DEF CaseOK
  <2> QED BY <1>1, <2>1 DEF Inv, TypeOK, CaseInv
<1>4. LockInv'
  BY <1>1 DEF Inv, LockInv, locks
<1>5. ASSUME NEW q \in Requests PROVE RequestInv(q)'
  <2>1. request[q].pc # "idle" =>
            instance'[request[q].case] = instance[request[q].case]
    <3>1. request[q].pc # "idle" =>
              request[q].case \in Cases /\ instance[request[q].case].version > 0
      BY DEF Inv, RequestInv, KnowsItsCase, Exists
    <3>2. request[q].pc # "idle" => request[q].case # c
      BY <1>1, <3>1
    <3> QED BY <1>1, <3>1, <3>2 DEF Inv, TypeOK
  <2> QED BY <1>1, <2>1, OthersUndisturbed DEF locks
<1> QED BY <1>2, <1>3, <1>4, <1>5 DEF Inv

(* An insert finds no row, so nobody holds a lock on it; an update or a    *)
(* delete finds the row unlocked.                                          *)
LEMMA AdministerPreserves ==
    ASSUME Inv, Administer PROVE Inv'
<1>1. PICK s \in Slots :
          /\ asgLock[s] = Nil
          /\ assignment' \in [Slots -> AssignmentRow]
          /\ \A t \in Slots \ {s} : assignment'[t] = assignment[t]
          /\ UNCHANGED <<rows, locks, request>>
  <2>1. PICK s \in Slots, row \in AssignmentRow :
            asgLock[s] = Nil /\ SetAssignment(s, row)
    BY DEF Administer, CreateAssignment, UpdateAssignment, DeleteAssignment,
           Inv, LockInv, AssignmentRow
  <2> QED BY <2>1 DEF SetAssignment, Inv, TypeOK
<1>2. TypeOK'
  BY <1>1 DEF Inv, TypeOK, rows, locks
<1>3. CaseInv'
  BY <1>1, RowsStutter DEF Inv, rows
<1>4. LockInv'
  BY <1>1 DEF Inv, LockInv, locks
<1>5. ASSUME NEW q \in Requests PROVE RequestInv(q)'
  BY <1>1, NilIsNoValue, OthersUndisturbed DEF rows, locks
<1> QED BY <1>2, <1>3, <1>4, <1>5 DEF Inv

-----------------------------------------------------------------------------
LEMMA NextInv == Inv /\ [Next]_vars => Inv'
<1> SUFFICES ASSUME Inv, [Next]_vars PROVE Inv'
  OBVIOUS
<1>1. ASSUME NEW c \in Cases, CreateCase(c) PROVE Inv'
  BY <1>1, CreatePreserves
<1>2. ASSUME NEW p \in Requests, Start(p) PROVE Inv'
  BY <1>2, StartPreserves
<1>3. ASSUME NEW p \in Requests, Step(p) PROVE Inv'
  BY <1>3, PickPreserves, CheckPreserves, LoadPreserves, UpdatePreserves,
     ObservePreserves, CommitPreserves, SavePreserves DEF Step
<1>4. ASSUME NEW p \in Requests, DeadlockAbort(p) \/ Fail(p) PROVE Inv'
  <2>1. EndRequest(p) /\ UNCHANGED <<rows, assignment>>
    BY <1>4 DEF DeadlockAbort, Fail
  <2> QED BY <2>1, EndPreserves DEF rows, Inv, TypeOK
<1>5. CASE Administer
  BY <1>5, AdministerPreserves
<1>6. CASE UNCHANGED vars
  <2>1. TypeOK' /\ LockInv'
    BY <1>6 DEF vars, Inv, TypeOK, LockInv
  <2>2. CaseInv'
    BY <1>6, RowsStutter DEF vars, Inv
  <2>3. ASSUME NEW q \in Requests PROVE RequestInv(q)'
    BY <1>6, OthersUndisturbed DEF vars
  <2> QED BY <2>1, <2>2, <2>3 DEF Inv
<1> QED BY <1>1, <1>2, <1>3, <1>4, <1>5, <1>6 DEF Next

(* The strengthened invariant holds in every reachable state.              *)
THEOREM Invariance == Spec => []Inv
BY InitInv, NextInv, PTL DEF Spec

-----------------------------------------------------------------------------
(* What follows.                                                           *)

(* Every row and every local variable of a request keeps to its type.      *)
THEOREM TypeCorrect == Spec => []TypeOK
<1>1. Inv => TypeOK
  BY DEF Inv
<1> QED BY <1>1, Invariance, PTL

(* The status column always equals the state of the workflow instance, and *)
(* the versions of the two rows move together (OnTransition).              *)
THEOREM StatusAlwaysMirrors == Spec => []StatusMirrorsWorkflow
<1>1. Inv => StatusMirrorsWorkflow
  <2> SUFFICES ASSUME Inv, NEW c \in Cases
               PROVE  /\ caseRow[c].status = instance[c].state
                      /\ Exists(c) =>
                           caseRow[c].version
                             + (IF instance[c].done THEN 1 ELSE 0)
                           = instance[c].version + 1
    BY DEF StatusMirrorsWorkflow
  <2>1. CaseOK(caseRow[c], instance[c], history[c])
    BY DEF Inv, CaseInv
  <2>2. Len(history[c]) \in Nat
    BY DEF Inv, TypeOK
  <2>3. ASSUME Exists(c)
        PROVE  caseRow[c].version + (IF instance[c].done THEN 1 ELSE 0)
                   = instance[c].version + 1
    <3>1. /\ caseRow[c].version = Len(history[c]) + 2
          /\ instance[c].version =
                 1 + Len(history[c]) + (IF instance[c].done THEN 1 ELSE 0)
      BY <2>1, <2>3 DEF CaseOK, Exists
    <3>2. CASE instance[c].done
      BY <2>2, <3>1, <3>2
    <3>3. CASE ~instance[c].done
      BY <2>2, <3>1, <3>3
    <3> QED BY <3>2, <3>3
  <2> QED BY <2>1, <2>3 DEF CaseOK
<1> QED BY <1>1, Invariance, PTL

(* The transition history of a case is an unbroken walk from the initial   *)
(* to the current state, one record per version (executeTransition).       *)
THEOREM HistoryAlwaysWalks == Spec => []HistoryIsTheWalk
<1>1. Inv => HistoryIsTheWalk
  <2> SUFFICES ASSUME Inv, NEW c \in Cases, Exists(c)
               PROVE  /\ instance[c].version = 1 + Len(history[c])
                             + (IF instance[c].done THEN 1 ELSE 0)
                      /\ instance[c].state =
                             (IF Len(history[c]) = 0 THEN Initial
                              ELSE history[c][Len(history[c])].to)
                      /\ Len(history[c]) > 0 => history[c][1].from = Initial
                      /\ \A i \in 1 .. Len(history[c]) - 1 :
                             history[c][i].to = history[c][i + 1].from
    BY DEF HistoryIsTheWalk
  <2>1. CaseOK(caseRow[c], instance[c], history[c]) /\ instance[c].version > 0
    BY DEF Inv, CaseInv, Exists
  <2> QED BY <2>1 DEF CaseOK
<1> QED BY <1>1, Invariance, PTL

(* A moved case is closed exactly when its instance is completed, exactly  *)
(* in a terminal state (CompleteTx and UpdateWorkflowStateTx).             *)
THEOREM AlwaysClosedTogether == Spec => []ClosedTogether
<1>1. Inv => ClosedTogether
  <2> SUFFICES ASSUME Inv, NEW c \in Cases, Exists(c), Len(history[c]) > 0
               PROVE  /\ instance[c].done <=> instance[c].state \in Terminal
                      /\ caseRow[c].closed = instance[c].done
    BY DEF ClosedTogether
  <2>1. CaseOK(caseRow[c], instance[c], history[c])
    BY DEF Inv, CaseInv
  <2> QED BY <2>1 DEF CaseOK, Exists
<1> QED BY <1>1, Invariance, PTL

(* Optimistic locking works: a transaction holding the instance row stands *)
(* on the version it read before it began (UpdateStateTx).                 *)
THEOREM NothingStaleEverCommits == Spec => []NothingStaleCommits
<1>1. Inv => NothingStaleCommits
  BY DEF Inv, RequestInv, StandsOnRow, NothingStaleCommits
<1> QED BY <1>1, Invariance, PTL

(* A change of status reaches the status asked for although it re-reads    *)
(* the instance by key, because keys are unique in a definition.           *)
THEOREM RequestedStatusAlwaysReached == Spec => RequestedStatusReached
<1>1. Inv => [\A p \in Requests :
                 request[p].op = "status" /\ Commit(p) =>
                     caseRow'[request[p].case].status = request[p].want]_vars
  <2> SUFFICES ASSUME Inv, NEW p \in Requests, request[p].op = "status",
                      Commit(p)
               PROVE  caseRow'[request[p].case].status = request[p].want
    OBVIOUS
  <2>1. /\ request[p].case \in Cases
        /\ request[p].tr \in Transitions /\ request[p].tr.key = request[p].key
        /\ \E t \in Transitions : t.key = request[p].key /\ t.to = request[p].want
    BY DEF Commit, Inv, RequestInv, KnowsItsCase
  <2>2. request[p].tr.to = request[p].want
    BY <2>1, ValidDefinition
  <2>3. caseRow'[request[p].case].status = request[p].tr.to
    BY <2>1 DEF Commit, Mirrored, Inv, TypeOK
  <2> QED BY <2>2, <2>3
<1> QED BY <1>1, Invariance, PTL DEF RequestedStatusReached

(* No case leaves a state without the forms that the assignments its       *)
(* transaction found require when it commits: the rows are read under FOR  *)
(* UPDATE by checkRequiredFormsCompleteInTx.                               *)
THEOREM RequiredFormsAlwaysSubmitted == Spec => RequiredFormsSubmitted
<1>1. Inv => [\A p \in Requests : Commit(p) =>
                 LET r == request[p] IN
                 \A s \in r.found :
                     assignment[s] = "required" =>
                         s[2] \in submitted[r.case]]_vars
  BY DEF Commit, Inv, RequestInv, FormsStay
<1> QED BY <1>1, Invariance, PTL DEF RequiredFormsSubmitted

(* A case whose instance is completed never changes again                  *)
(* (ErrWorkflowCompleted, and no edge out of a terminal state).            *)
THEOREM CompletedStaysFinal == Spec => CompletedIsFinal
<1>1. Inv /\ [Next]_vars =>
        [\A c \in Cases : instance[c].done =>
             /\ instance'[c] = instance[c]
             /\ caseRow'[c] = caseRow[c]
             /\ history'[c] = history[c]]_vars
  <2> SUFFICES ASSUME Inv, Next, NEW c \in Cases, instance[c].done
               PROVE  /\ instance'[c] = instance[c]
                      /\ caseRow'[c] = caseRow[c]
                      /\ history'[c] = history[c]
    OBVIOUS
  <2>1. Exists(c) /\ instance[c].state \in Terminal
    BY DEF Inv, CaseInv, CaseOK, TypeOK, Exists
  <2>2. ASSUME NEW d \in Cases, CreateCase(d) PROVE d # c
    BY <2>1, <2>2 DEF CreateCase
  <2>3. ASSUME NEW p \in Requests, Commit(p) PROVE request[p].case # c
    BY <2>1, <2>3, ValidDefinition
       DEF Commit, Inv, RequestInv, KnowsItsCase, StandsOnRow, LockSteps
  <2>4. CASE \E d \in Cases : CreateCase(d)
    BY <2>2, <2>4 DEF CreateCase, Inv, TypeOK
  <2>5. CASE \E p \in Requests : Commit(p)
    BY <2>3, <2>5 DEF Commit, Inv, TypeOK
  <2>6. CASE UNCHANGED <<caseRow, instance, history>>
    BY <2>6
  <2>7. \/ \E d \in Cases : CreateCase(d)
        \/ \E p \in Requests : Commit(p)
        \/ UNCHANGED <<caseRow, instance, history>>
    BY DEF Next, Start, StartChangeStatus, StartTransition, StartSubmit, Step,
       PickTransition, CheckForms, LoadInstance, UpdateState, Observe,
       SaveSubmission, DeadlockAbort, Fail, Administer, CreateAssignment,
       UpdateAssignment, DeleteAssignment, SetAssignment, rows
  <2> QED BY <2>4, <2>5, <2>6, <2>7
<1> QED BY <1>1, Invariance, PTL DEF Spec, CompletedIsFinal

-----------------------------------------------------------------------------
(* The refinement.                                                         *)

(* What clients read from the cases table behaves as CaseLifecycle says:   *)
(* a commit is one move along an edge, opening a case is Open, everything  *)
(* else a request does is invisible.                                       *)
THEOREM Refinement == Spec => ImplementsLifecycle
<1> DEFINE status == [c \in Cases |-> caseRow[c].status]
           closed == [c \in Cases |-> caseRow[c].closed]
<1>1. Init => Lifecycle!Init
  BY DEF Init, Lifecycle!Init, NoCase
<1>2. Inv /\ [Next]_vars => [Lifecycle!Next]_(Lifecycle!lifecycleVars)
  <2> SUFFICES ASSUME Inv, [Next]_vars
               PROVE  Lifecycle!Next \/ UNCHANGED Lifecycle!lifecycleVars
    BY DEF Lifecycle!lifecycleVars
  <2>1. ASSUME NEW c \in Cases, CreateCase(c) PROVE Lifecycle!Open(c)
    <3>1. caseRow[c].status = Nil
      BY <2>1 DEF CreateCase, Exists, Inv, CaseInv, CaseOK, TypeOK
    <3>2. caseRow' = [caseRow EXCEPT ![c] =
              [status |-> Initial, version |-> 2,
               closed |-> Initial \in ClosedNames]]
      BY <2>1 DEF CreateCase
    <3>3. /\ status' = [status EXCEPT ![c] = Initial]
          /\ closed' = [closed EXCEPT ![c] = Initial \in ClosedNames]
      BY <3>2 DEF Inv, TypeOK
    <3> QED BY <3>1, <3>3 DEF Lifecycle!Open
  <2>2. ASSUME NEW p \in Requests, Commit(p),
               NEW c \in Cases, c = request[p].case,
               NEW t \in Transitions, t = request[p].tr
        PROVE  Lifecycle!Move(c, t)
    <3>1. instance[c].state = t.from
      BY <2>2 DEF Commit, Inv, RequestInv, StandsOnRow, LockSteps
    <3>2. caseRow[c].status = t.from
      BY <3>1 DEF Inv, CaseInv, CaseOK
    <3>3. caseRow' = [caseRow EXCEPT ![c] = Mirrored(@, t.to)]
      BY <2>2 DEF Commit
    <3>4. /\ status' = [status EXCEPT ![c] = t.to]
          /\ closed' = [closed EXCEPT ![c] = t.to \in Terminal]
      BY <3>3 DEF Mirrored, Inv, TypeOK
    <3> QED BY <3>2, <3>4 DEF Lifecycle!Move
  <2>3. \/ \E d \in Cases : CreateCase(d)
        \/ \E p \in Requests : Commit(p)
        \/ UNCHANGED caseRow
    BY DEF Next, Start, StartChangeStatus, StartTransition, StartSubmit, Step,
       PickTransition, CheckForms, LoadInstance, UpdateState, Observe,
       SaveSubmission, DeadlockAbort, Fail, Administer, CreateAssignment,
       UpdateAssignment, DeleteAssignment, SetAssignment, rows, vars
  <2>4. UNCHANGED caseRow => UNCHANGED Lifecycle!lifecycleVars
    BY DEF Lifecycle!lifecycleVars
  <2>5. CASE \E d \in Cases : CreateCase(d)
    <3>1. \E d \in Cases : Lifecycle!Open(d)
      BY <2>1, <2>5
    <3> QED BY <3>1 DEF Lifecycle!Next
  <2>6. CASE \E p \in Requests : Commit(p)
    <3>1. PICK p \in Requests : Commit(p)
      BY <2>6
    <3>2. PICK c \in Cases, t \in Transitions :
              c = request[p].case /\ t = request[p].tr
      BY <3>1 DEF Commit, Inv, RequestInv, KnowsItsCase
    <3>3. Lifecycle!Move(c, t)
      BY <2>2, <3>1, <3>2
    <3> QED BY <3>3 DEF Lifecycle!Next
  <2> QED BY <2>3, <2>4, <2>5, <2>6
<1> QED BY <1>1, <1>2, Invariance, PTL
        DEF Spec, ImplementsLifecycle, Lifecycle!Spec
=============================================================================
