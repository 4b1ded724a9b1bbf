------------------------- MODULE ReviewQueue_proofs -------------------------
(***************************************************************************)
(* Theorems about ReviewQueue, for any number of cases, reviews, reviewers *)
(* and requests.                                                           *)
(***************************************************************************)
EXTENDS ReviewQueue, TLAPS

-----------------------------------------------------------------------------
(* The inductive invariant.                                                *)

(* A review has an assignee exactly from the moment it is claimed.         *)
AssigneeInv ==
    \A v \in Reviews :
        review[v].assignee = Nil <=> review[v].status \in {Nil, "PENDING"}

(* SupersessionIsAChain for the rows of one case, and what is drawn for a  *)
(* version tells it.                                                       *)
ChainOK(rows) ==
    \A d \in rows :
        /\ d.id[2] = d.version
        /\ \A e \in rows : d.version = e.version => d = e
        /\ d.version > 1 => \E e \in rows : e.version = d.version - 1
        /\ \A e \in rows : e.version = d.version + 1 => d.next = e.id
        /\ d.next # Nil => \E e \in rows : e.version = d.version + 1

ChainInv == \A c \in Cases : ChainOK(decision[c])

(* What a request wants, by the handler that started it.                   *)
Wants(r) ==
    r.pc # "idle" =>
        /\ r.by \in Reviewers
        /\ \/ r.review = Nil /\ r.ver > 0 /\ r.pc # "updating"
           \/ /\ r.review \in Reviews
              /\ r.pc # "linking"
              /\ \/ r.ver = 0 /\ r.to \in {"ASSIGNED", "IN_REVIEW"}
                 \/ r.ver = 1 /\ r.to \in Concluding /\ r.case = CaseOf[r.review]
        /\ r.ver > 0 => r.case \in Cases
        /\ r.ver <= 1 => r.old = Nil /\ r.pc # "linking"
        /\ r.pc = "inserting" => r.ver > 0

(* Its copy of the review is outdated at most in the status.               *)
KnowsReview(p) ==
    LET r == request[p] IN
    r.pc # "idle" /\ r.review # Nil =>
        /\ r.to = "ASSIGNED" =>
              reviewLock[r.review] = p /\ review[r.review].status = "PENDING"
        /\ r.to # "ASSIGNED" => review[r.review].assignee = r.by
        /\ r.to \in Concluding =>
              review[r.review].status \in {"IN_REVIEW"} \cup Concluding

(* The decision it supersedes is there, and the version it has inserted    *)
(* nobody else has.                                                        *)
KnowsDecision(p) ==
    LET r == request[p] IN
    /\ r.pc # "idle" /\ r.ver > 1 =>
          \E d \in decision[r.case] : d.id = r.old /\ d.version = r.ver - 1
    /\ r.pc = "committing" /\ r.ver > 0 =>
          rowLock[<<r.case, r.ver>>] = p /\ ~Taken(r.case, r.ver)

RequestInv(p) == Wants(request[p]) /\ KnowsReview(p) /\ KnowsDecision(p)

Inv ==
    /\ TypeOK
    /\ AssigneeInv
    /\ ChainInv
    /\ ConcludedWithDecision
    /\ \A p \in Requests : RequestInv(p)

-----------------------------------------------------------------------------
(* Recording a decision extends a chain.                                   *)

(* A row after the UPDATE: the same but for the successor of the old one.  *)
Link(d, old, id) == [d EXCEPT !.next = IF d.id = old THEN id ELSE @]

LEMMA LinkFields ==
    ASSUME NEW d \in Decision, NEW old, NEW id
    PROVE  LET e == Link(d, old, id) IN
           /\ e.version = d.version /\ e.id = d.id
           /\ e.maker = d.maker /\ e.review = d.review
           /\ e.next = IF d.id = old THEN id ELSE d.next
           /\ id \in Requests \X (1 .. MaxVersion) => e \in Decision
BY DEF Link, Decision

(* A row of a new version, linked from the version before it if there is   *)
(* one, makes a chain of a chain.                                          *)
LEMMA ChainExtended ==
    ASSUME NEW R, R \subseteq Decision, ChainOK(R),
           NEW n \in 1 .. MaxVersion, NEW p \in Requests, NEW old,
           NEW row \in Decision,
           row.version = n, row.id = <<p, n>>, row.next = Nil,
           \A d \in R : d.version # n,
           \/ n = 1 /\ old = Nil
           \/ n > 1 /\ \E d \in R : d.id = old /\ d.version = n - 1
    PROVE  ChainOK(Linked(R, old, <<p, n>>) \cup {row})
<1> DEFINE id == <<p, n>>
           L == {Link(d, old, id) : d \in R}
           N == L \cup {row}
<1>1. Linked(R, old, id) = L
  BY DEF Linked, Link
<1>2. id # Nil /\ id[2] = n /\ row.id = id
  BY NilIsNoValue
<1>3. ASSUME NEW d \in R
      PROVE  /\ d \in Decision /\ d.version \in Nat /\ d.id # Nil
             /\ Link(d, old, id) \in L
             /\ Link(d, old, id).version = d.version
             /\ Link(d, old, id).id = d.id
             /\ Link(d, old, id).next = IF d.id = old THEN id ELSE d.next
  BY NilIsNoValue, LinkFields DEF Decision
<1>4. \A d \in R : d.id = old <=> d.version = n - 1
  <2>1. CASE n = 1 /\ old = Nil
    BY <1>3, <2>1 DEF Decision
  <2>2. CASE n > 1 /\ \E d \in R : d.id = old /\ d.version = n - 1
    BY <1>3, <2>2 DEF ChainOK
  <2> QED BY <2>1, <2>2
<1>5. \A d \in R : d.version # n + 1
  <2> SUFFICES ASSUME NEW d \in R, d.version = n + 1 PROVE FALSE
    OBVIOUS
  <2>1. \E e \in R : e.version = d.version - 1
    BY <1>3 DEF ChainOK
  <2> QED BY <2>1
<1> HIDE DEF id
<1>6. ASSUME NEW d \in N
      PROVE  /\ d.id[2] = d.version
             /\ \A e \in N : d.version = e.version => d = e
             /\ d.version > 1 => \E e \in N : e.version = d.version - 1
             /\ \A e \in N : e.version = d.version + 1 => d.next = e.id
             /\ d.next # Nil => \E e \in N : e.version = d.version + 1
  <2>1. CASE d = row
    <3>1. \A e \in N : e.version = n => e = row
      BY <1>3
    <3>2. \A e \in N : e.version # n + 1
      BY <1>3, <1>5
    <3>3. n > 1 => \E e \in N : e.version = n - 1
      BY <1>3
    <3> QED BY <1>2, <2>1, <3>1, <3>2, <3>3
  <2>2. CASE d \in L
    <3>1. PICK a \in R : d = Link(a, old, id)
      BY <2>2
    <3>2. /\ d.version = a.version /\ d.id = a.id /\ a.version \in Nat
          /\ d.next = IF a.id = old THEN id ELSE a.next
      BY <1>3, <3>1
    <3>3. \A e \in N : d.version = e.version => d = e
      <4> SUFFICES ASSUME NEW e \in N, d.version = e.version PROVE d = e
        OBVIOUS
      <4>1. e # row
        BY <3>2
      <4>2. PICK b \in R : e = Link(b, old, id)
        BY <4>1
      <4>3. a.version = b.version
        BY <1>3, <3>2, <4>2
      <4>4. a = b
        BY <4>3 DEF ChainOK
      <4> QED BY <3>1, <4>2, <4>4
    <3>4. d.version > 1 => \E e \in N : e.version = d.version - 1
      BY <1>3, <3>2 DEF ChainOK
    <3>5. \A e \in N : e.version = d.version + 1 => d.next = e.id
      <4> SUFFICES ASSUME NEW e \in N, e.version = d.version + 1
                   PROVE  d.next = e.id
        OBVIOUS
      <4>1. CASE e = row
        BY <1>2, <1>4, <3>2, <4>1
      <4>2. CASE e \in L
        <5>1. PICK b \in R : e = Link(b, old, id)
          BY <4>2
        <5>2. e.version = b.version /\ e.id = b.id /\ b.version # n
          BY <1>3, <5>1
        <5>3. a.next = b.id /\ a.id # old
          BY <1>4, <3>2, <5>2 DEF ChainOK
        <5> QED BY <3>2, <5>2, <5>3
      <4> QED BY <4>1, <4>2
    <3>6. d.next # Nil => \E e \in N : e.version = d.version + 1
      <4>1. CASE a.id = old
        BY <1>4, <3>2, <4>1
      <4>2. CASE a.id # old
        <5>1. a.next # Nil => \E b \in R : b.version = a.version + 1
          BY DEF ChainOK
        <5> QED BY <1>3, <3>2, <4>2, <5>1
      <4> QED BY <4>1, <4>2
    <3>7. d.id[2] = d.version
      BY <3>2 DEF ChainOK
    <3> QED BY <3>3, <3>4, <3>5, <3>6, <3>7
  <2> QED BY <2>1, <2>2
<1>7. ChainOK(N)
  BY <1>6 DEF ChainOK
<1> QED BY <1>1, <1>7 DEF id
-----------------------------------------------------------------------------
(* Initially nothing exists and no request runs.                           *)
LEMMA InitInv == Init => Inv
<1> SUFFICES ASSUME Init PROVE Inv
  OBVIOUS
<1>1. TypeOK
  BY MaxVersionIsPositive DEF Init, TypeOK, NoReview, Idle, Requestor
<1>2. AssigneeInv /\ ConcludedWithDecision
  BY NilIsNoValue DEF Init, AssigneeInv, ConcludedWithDecision, NoReview,
     Concluding, Status
<1>3. ChainInv
  BY DEF Init, ChainInv, ChainOK
<1>4. ASSUME NEW p \in Requests PROVE RequestInv(p)
  BY DEF Init, RequestInv, Wants, KnowsReview, KnowsDecision, Idle
<1> QED BY <1>1, <1>2, <1>3, <1>4 DEF Inv

-----------------------------------------------------------------------------
(* What a step leaves alone stays true.                                    *)

(* What a request q knows survives a step of another actor that changes no *)
(* row and takes no lock from q.                                           *)
LEMMA OthersUndisturbed ==
    ASSUME Inv, NEW q \in Requests,
           request'[q] = request[q], UNCHANGED tables,
           \A v \in Reviews : reviewLock[v] = q => reviewLock'[v] = q,
           \A k \in Keys : rowLock[k] = q => rowLock'[k] = q
    PROVE  RequestInv(q)'
<1>1. RequestInv(q) /\ request[q] \in Requestor
  BY DEF Inv, TypeOK
<1>2. Wants(request[q])'
  BY <1>1 DEF RequestInv, Wants
<1>3. KnowsReview(q)'
  BY <1>1 DEF RequestInv, Wants, KnowsReview, tables
<1>4. KnowsDecision(q)'
  <2>1. request[q].pc # "idle" /\ request[q].ver > 0 =>
            <<request[q].case, request[q].ver>> \in Keys
    BY <1>1 DEF RequestInv, Wants, Requestor, Keys
  <2> QED BY <1>1, <2>1 DEF RequestInv, KnowsDecision, tables, Taken
<1> QED BY <1>2, <1>3, <1>4 DEF RequestInv

LEMMA IdleIsRequestor == Idle \in Requestor
BY MaxVersionIsPositive DEF Idle, Requestor

(* A request that ends leaves nothing to know about it, and frees only     *)
(* locks of its own.                                                       *)
LEMMA EndPreserves ==
    ASSUME Inv, NEW p \in Requests, EndRequest(p), UNCHANGED tables
    PROVE  Inv'
<1>1. TypeOK'
  <2>1. Idle \in Requestor
    BY IdleIsRequestor
  <2>2. request' \in [Requests -> Requestor]
    BY <2>1 DEF Inv, TypeOK, EndRequest
  <2>3. /\ reviewLock' \in [Reviews -> Requests \cup {Nil}]
        /\ rowLock' \in [Keys -> Requests \cup {Nil}]
    BY DEF Inv, TypeOK, EndRequest, Released
  <2> QED BY <2>2, <2>3 DEF Inv, TypeOK, tables
<1>2. AssigneeInv' /\ ChainInv' /\ ConcludedWithDecision'
  BY DEF Inv, AssigneeInv, ChainInv, ConcludedWithDecision, tables
<1>3. RequestInv(p)'
  <2>1. request'[p] = Idle
    BY DEF EndRequest, Inv, TypeOK
  <2> QED BY <2>1 DEF Idle, RequestInv, Wants, KnowsReview, KnowsDecision
<1>4. ASSUME NEW q \in Requests, q # p PROVE RequestInv(q)'
  <2>1. request'[q] = request[q]
    BY <1>4 DEF EndRequest, Inv, TypeOK
  <2>2. /\ \A v \in Reviews : reviewLock[v] = q => reviewLock'[v] = q
        /\ \A k \in Keys : rowLock[k] = q => rowLock'[k] = q
    BY <1>4 DEF EndRequest, Released, Inv, TypeOK
  <2> QED BY <2>1, <2>2, OthersUndisturbed
<1> QED BY <1>1, <1>2, <1>3, <1>4 DEF Inv

(* p alone changes, keeping to its type.                                   *)
OnlyChanges(p) ==
    /\ request' \in [Requests -> Requestor]
    /\ \A q \in Requests \ {p} : request'[q] = request[q]

(* A request that goes on, and takes at most locks that are free or its    *)
(* own, disturbs nothing but what it knows itself.                         *)
LEMMA AdvancePreserves ==
    ASSUME Inv, NEW p \in Requests, OnlyChanges(p), UNCHANGED tables,
           reviewLock' \in [Reviews -> Requests \cup {Nil}],
           rowLock' \in [Keys -> Requests \cup {Nil}],
           \A v \in Reviews : reviewLock'[v] # reviewLock[v] =>
               reviewLock[v] = Nil,
           \A k \in Keys : rowLock'[k] # rowLock[k] => rowLock[k] = Nil,
           RequestInv(p)'
    PROVE  Inv'
<1>1. TypeOK'
  BY DEF Inv, TypeOK, OnlyChanges, tables
<1>2. AssigneeInv' /\ ChainInv' /\ ConcludedWithDecision'
  BY DEF Inv, AssigneeInv, ChainInv, ConcludedWithDecision, tables
<1>3. ASSUME NEW q \in Requests, q # p PROVE RequestInv(q)'
  <2>1. request'[q] = request[q]
    BY <1>3 DEF OnlyChanges
  <2>2. /\ \A v \in Reviews : reviewLock[v] = q => reviewLock'[v] = q
        /\ \A k \in Keys : rowLock[k] = q => rowLock'[k] = q
    BY NilIsNoValue
  <2> QED BY <2>1, <2>2, OthersUndisturbed
<1> QED BY <1>1, <1>2, <1>3 DEF Inv
-----------------------------------------------------------------------------
(* Every step preserves the invariant.                                     *)

LEMMA CreatePreserves ==
    ASSUME Inv, NEW v \in Reviews, CreateReview(v) PROVE Inv'
<1>1. /\ review[v].status = Nil /\ review[v].assignee = Nil
      /\ UNCHANGED <<decision, locks, request>>
      /\ review' \in [Reviews -> [status : Status \cup {Nil},
                                   assignee : Reviewers \cup {Nil}]]
      /\ \A u \in Reviews \ {v} : review'[u] = review[u]
      /\ review'[v].status = "PENDING" /\ review'[v].assignee = Nil
  BY DEF CreateReview, NoReview, Inv, TypeOK, Status
<1>2. TypeOK'
  BY <1>1 DEF Inv, TypeOK, locks
<1>3. AssigneeInv' /\ ChainInv'
  BY <1>1 DEF Inv, AssigneeInv, ChainInv
<1>4. ConcludedWithDecision'
  BY <1>1 DEF Inv, ConcludedWithDecision, Concluding
<1>5. ASSUME NEW q \in Requests PROVE RequestInv(q)'
  <2>1. RequestInv(q)
    BY DEF Inv
  <2>2. request[q].pc # "idle" => request[q].review # v
    BY <1>1, <2>1, NilIsNoValue DEF RequestInv, Wants, KnowsReview,
       Concluding, Status
  <2>3. KnowsReview(q)'
    BY <1>1, <2>1, <2>2 DEF RequestInv, Wants, KnowsReview, locks
  <2>4. Wants(request[q])' /\ KnowsDecision(q)'
    BY <1>1, <2>1 DEF RequestInv, Wants, KnowsDecision, Taken, locks
  <2> QED BY <2>3, <2>4 DEF RequestInv
<1> QED BY <1>2, <1>3, <1>4, <1>5 DEF Inv

LEMMA ClaimPreserves ==
    ASSUME Inv, NEW p \in Requests, NEW v \in Reviews, NEW by \in Reviewers,
           ClaimReview(p, v, by)
    PROVE  Inv'
<1> DEFINE r == [Idle EXCEPT !.pc = "updating", !.review = v, !.by = by,
                             !.to = "ASSIGNED"]
<1>1. /\ request' = [request EXCEPT ![p] = r]
      /\ review[v].status = "PENDING" /\ UNCHANGED <<tables, rowLock>>
      /\ reviewLock[v] = Nil /\ reviewLock' = [reviewLock EXCEPT ![v] = p]
  BY DEF ClaimReview, LockReview
<1>2. /\ r \in Requestor /\ r.pc = "updating" /\ r.review = v /\ r.by = by
      /\ r.to = "ASSIGNED" /\ r.ver = 0 /\ r.old = Nil
  BY IdleIsRequestor, "ASSIGNED" \in Status DEF Idle, Requestor, Status
<1> HIDE DEF r
<1>3. OnlyChanges(p) /\ request'[p] = r
  BY <1>1, <1>2 DEF OnlyChanges, Inv, TypeOK
<1>4. RequestInv(p)'
  <2>1. Wants(request'[p])
    BY <1>2, <1>3 DEF Wants
  <2>2. KnowsReview(p)' /\ KnowsDecision(p)'
    BY <1>1, <1>2, <1>3 DEF KnowsReview, KnowsDecision, Concluding, Inv,
       TypeOK, tables
  <2> QED BY <2>1, <2>2 DEF RequestInv
<1>5. /\ reviewLock' \in [Reviews -> Requests \cup {Nil}]
      /\ \A u \in Reviews : reviewLock'[u] # reviewLock[u] =>
             reviewLock[u] = Nil
  BY <1>1 DEF Inv, TypeOK
<1> QED BY <1>1, <1>3, <1>4, <1>5, AdvancePreserves DEF Inv, TypeOK

(* Reading an entry to start its review or to conclude it.                 *)
LEMMA ReadPreserves ==
    ASSUME Inv, NEW p \in Requests, NEW v \in Reviews, NEW by \in Reviewers,
           NEW to \in {"IN_REVIEW"} \cup Concluding,
           ReadEntry(p, v, by, to, IF to = "IN_REVIEW" THEN 0 ELSE 1),
           to \in Concluding => InReviewOrAssigned(v)
    PROVE  Inv'
<1> DEFINE ver == IF to = "IN_REVIEW" THEN 0 ELSE 1
           r == [Idle EXCEPT !.pc = "updating", !.review = v, !.by = by,
                             !.to = to, !.case = CaseOf[v], !.ver = ver]
<1>1. /\ request' = [request EXCEPT ![p] = r]
      /\ review[v].assignee = by /\ CanTransition(review[v].status, to)
      /\ UNCHANGED <<tables, locks>>
  BY DEF ReadEntry
<1>2. /\ r \in Requestor /\ r.pc = "updating" /\ r.review = v /\ r.by = by
      /\ r.to = to /\ r.ver = ver /\ r.case = CaseOf[v] /\ r.old = Nil
  <2>1. ver \in 0 .. MaxVersion /\ CaseOf[v] \in Cases /\ to \in Status
    BY MaxVersionIsPositive, ReviewsHaveCases DEF Status, Concluding
  <2> HIDE DEF ver
  <2> QED BY <2>1 DEF Idle, Requestor
<1>3. to \in Concluding => review[v].status = "IN_REVIEW" /\ to # "IN_REVIEW"
  BY <1>1 DEF CanTransition, Edges, InReviewOrAssigned, Concluding
<1> HIDE DEF r
<1>4. OnlyChanges(p) /\ request'[p] = r
  BY <1>1, <1>2 DEF OnlyChanges, Inv, TypeOK
<1>5. RequestInv(p)'
  <2>1. Wants(request'[p])
    BY <1>2, <1>3, <1>4, ReviewsHaveCases DEF Wants
  <2>2. KnowsReview(p)'
    BY <1>1, <1>2, <1>3, <1>4 DEF KnowsReview, tables, Concluding
  <2>3. KnowsDecision(p)'
    BY <1>2, <1>4 DEF KnowsDecision
  <2> QED BY <2>1, <2>2, <2>3 DEF RequestInv
<1> QED BY <1>1, <1>4, <1>5, AdvancePreserves DEF Inv, TypeOK, locks

LEMMA UpdatePreserves ==
    ASSUME Inv, NEW p \in Requests, UpdateStatus(p) PROVE Inv'
<1> DEFINE r == request[p]
           label == IF r.ver = 0 THEN "committing" ELSE "inserting"
<1>1. /\ r \in Requestor /\ r.pc = "updating" /\ r.review \in Reviews
      /\ RequestInv(p)
  BY DEF Inv, TypeOK, UpdateStatus, RequestInv, Wants
<1>2. /\ OnlyChanges(p) /\ request'[p] = [r EXCEPT !.pc = label]
      /\ UNCHANGED <<tables, rowLock>>
      /\ reviewLock[r.review] \in {Nil, p}
      /\ reviewLock' = [reviewLock EXCEPT ![r.review] = p]
  BY <1>1 DEF UpdateStatus, GoTo, OnlyChanges, Requestor, Inv, TypeOK
<1>3. /\ request'[p].pc = label /\ request'[p].review = r.review
      /\ request'[p].by = r.by /\ request'[p].to = r.to
      /\ request'[p].case = r.case /\ request'[p].ver = r.ver
      /\ request'[p].old = r.old
  BY <1>1, <1>2 DEF Requestor
<1>4. RequestInv(p)'
  <2>1. Wants(request'[p])
    BY <1>1, <1>3 DEF RequestInv, Wants, Requestor
  <2>2. KnowsReview(p)'
    BY <1>1, <1>2, <1>3 DEF RequestInv, KnowsReview, Inv, TypeOK, tables
  <2>3. KnowsDecision(p)'
    BY <1>1, <1>3 DEF RequestInv, Wants, KnowsDecision, Requestor
  <2> QED BY <2>1, <2>2, <2>3 DEF RequestInv
<1>5. /\ reviewLock' \in [Reviews -> Requests \cup {Nil}]
      /\ \A u \in Reviews : reviewLock'[u] # reviewLock[u] =>
             reviewLock[u] = Nil
  BY <1>2 DEF Inv, TypeOK
<1> QED BY <1>2, <1>4, <1>5, AdvancePreserves DEF Inv, TypeOK
LEMMA MakePreserves ==
    ASSUME Inv, NEW p \in Requests, NEW c \in Cases, NEW by \in Reviewers,
           MakeDecision(p, c, by)
    PROVE  Inv'
<1> DEFINE r == [Idle EXCEPT !.pc = "inserting", !.by = by, !.case = c,
                             !.ver = 1]
<1>1. request' = [request EXCEPT ![p] = r] /\ UNCHANGED <<tables, locks>>
  BY DEF MakeDecision
<1>2. /\ r \in Requestor /\ r.pc = "inserting" /\ r.by = by
      /\ r.review = Nil /\ r.case = c /\ r.ver = 1 /\ r.old = Nil
  <2>1. 1 \in 0 .. MaxVersion
    BY MaxVersionIsPositive
  <2> QED BY <2>1 DEF Idle, Requestor
<1> HIDE DEF r
<1>3. OnlyChanges(p) /\ request'[p] = r
  BY <1>1, <1>2 DEF OnlyChanges, Inv, TypeOK
<1>4. RequestInv(p)'
  BY <1>2, <1>3 DEF RequestInv, Wants, KnowsReview, KnowsDecision
<1> QED BY <1>1, <1>3, <1>4, AdvancePreserves DEF Inv, TypeOK, locks

LEMMA SupersedePreserves ==
    ASSUME Inv, NEW p \in Requests, NEW c \in Cases, NEW by \in Reviewers,
           SupersedeDecision(p, c, by)
    PROVE  Inv'
<1>1. PICK d \in decision[c] :
         /\ d.version < MaxVersion
         /\ request' = [request EXCEPT ![p] =
                [Idle EXCEPT !.pc = "linking", !.by = by, !.case = c,
                             !.ver = d.version + 1, !.old = d.id]]
  BY DEF SupersedeDecision
<1> DEFINE ver == d.version + 1
           r == [Idle EXCEPT !.pc = "linking", !.by = by, !.case = c,
                             !.ver = ver, !.old = d.id]
<1>2. /\ UNCHANGED <<tables, locks>>
      /\ d.version \in 1 .. MaxVersion /\ d.id \in Requests \X (1 .. MaxVersion)
      /\ ver \in 2 .. MaxVersion /\ ver - 1 = d.version
  BY <1>1, MaxVersionIsPositive DEF SupersedeDecision, Inv, TypeOK, Decision
<1> HIDE DEF ver
<1>3. /\ r \in Requestor /\ r.pc = "linking" /\ r.by = by
      /\ r.review = Nil /\ r.case = c /\ r.ver = ver /\ r.old = d.id
  <2>1. ver \in 0 .. MaxVersion
    BY <1>2, MaxVersionIsPositive
  <2> QED BY <1>2, <2>1 DEF Idle, Requestor
<1>4. request' = [request EXCEPT ![p] = r]
  BY <1>1 DEF ver
<1> HIDE DEF r
<1>5. OnlyChanges(p) /\ request'[p] = r
  BY <1>3, <1>4 DEF OnlyChanges, Inv, TypeOK
<1>6. RequestInv(p)'
  BY <1>2, <1>3, <1>5
  DEF RequestInv, Wants, KnowsReview, KnowsDecision, tables
<1> QED BY <1>2, <1>5, <1>6, AdvancePreserves DEF Inv, TypeOK, locks

LEMMA LinkPreserves ==
    ASSUME Inv, NEW p \in Requests, LinkDecision(p) PROVE Inv'
<1> DEFINE r == request[p]
           row == <<r.case, r.ver - 1>>
<1>1. r \in Requestor /\ r.pc = "linking" /\ RequestInv(p)
  BY DEF Inv, TypeOK, LinkDecision
<1>2. r.ver > 1 /\ r.case \in Cases /\ r.review = Nil /\ row \in Keys
  BY <1>1, MaxVersionIsPositive DEF RequestInv, Wants, Requestor, Keys
<1>3. /\ rowLock[row] = Nil /\ rowLock' = [rowLock EXCEPT ![row] = p]
      /\ request' = [request EXCEPT ![p].pc = "inserting"]
      /\ UNCHANGED <<tables, reviewLock>>
  BY DEF LinkDecision, GoTo
<1>4. /\ OnlyChanges(p)
      /\ request'[p].pc = "inserting" /\ request'[p].review = r.review
      /\ request'[p].by = r.by /\ request'[p].to = r.to
      /\ request'[p].case = r.case /\ request'[p].ver = r.ver
      /\ request'[p].old = r.old
  BY <1>1, <1>3 DEF OnlyChanges, Requestor, Inv, TypeOK
<1>5. RequestInv(p)'
  <2>1. Wants(request'[p])
    BY <1>1, <1>2, <1>4 DEF RequestInv, Wants, Requestor
  <2>2. KnowsReview(p)' /\ KnowsDecision(p)'
    BY <1>1, <1>2, <1>3, <1>4 DEF RequestInv, KnowsReview, KnowsDecision, tables
  <2> QED BY <2>1, <2>2 DEF RequestInv
<1> HIDE DEF row
<1>6. /\ rowLock' \in [Keys -> Requests \cup {Nil}]
      /\ \A k \in Keys : rowLock'[k] # rowLock[k] => rowLock[k] = Nil
  BY <1>2, <1>3 DEF Inv, TypeOK
<1> QED BY <1>3, <1>4, <1>5, <1>6, AdvancePreserves DEF Inv, TypeOK

LEMMA InsertPreserves ==
    ASSUME Inv, NEW p \in Requests, InsertDecision(p) PROVE Inv'
<1> DEFINE r == request[p]
           key == <<r.case, r.ver>>
<1>1. r \in Requestor /\ r.pc = "inserting" /\ RequestInv(p) /\ UNCHANGED tables
  BY DEF Inv, TypeOK, InsertDecision
<1>2. r.ver > 0 /\ r.case \in Cases /\ key \in Keys
  BY <1>1, MaxVersionIsPositive DEF RequestInv, Wants, Requestor, Keys
<1>3. CASE EndRequest(p)
  BY <1>1, <1>3, EndPreserves
<1>4. CASE ~EndRequest(p)
  <2>1. /\ ~Taken(r.case, r.ver) /\ rowLock[key] = Nil
        /\ rowLock' = [rowLock EXCEPT ![key] = p]
        /\ request' = [request EXCEPT ![p].pc = "committing"]
        /\ UNCHANGED reviewLock
    BY <1>4 DEF InsertDecision, GoTo
  <2>2. /\ OnlyChanges(p)
        /\ request'[p].pc = "committing" /\ request'[p].review = r.review
        /\ request'[p].by = r.by /\ request'[p].to = r.to
        /\ request'[p].case = r.case /\ request'[p].ver = r.ver
        /\ request'[p].old = r.old
    BY <1>1, <2>1 DEF OnlyChanges, Requestor, Inv, TypeOK
  <2>3. RequestInv(p)'
    <3>1. Wants(request'[p])
      BY <1>1, <1>2, <2>2 DEF RequestInv, Wants, Requestor
    <3>2. KnowsReview(p)'
      BY <1>1, <2>1, <2>2 DEF RequestInv, KnowsReview, tables
    <3>3. rowLock'[key] = p /\ ~Taken(r.case, r.ver)'
      BY <1>1, <1>2, <2>1 DEF Inv, TypeOK, Taken, tables
    <3>4. KnowsDecision(p)'
      BY <1>1, <2>2, <3>3 DEF RequestInv, KnowsDecision, Taken, tables
    <3> QED BY <3>1, <3>2, <3>4 DEF RequestInv
  <2> HIDE DEF key
  <2>4. /\ rowLock' \in [Keys -> Requests \cup {Nil}]
        /\ \A k \in Keys : rowLock'[k] # rowLock[k] => rowLock[k] = Nil
    BY <1>2, <2>1 DEF Inv, TypeOK
  <2> QED BY <1>1, <2>1, <2>2, <2>3, <2>4, AdvancePreserves DEF Inv, TypeOK
<1> QED BY <1>3, <1>4

-----------------------------------------------------------------------------
(* What a commit writes.                                                   *)

LEMMA Committer ==
    ASSUME Inv, NEW p \in Requests, Commit(p)
    PROVE  LET r == request[p] IN
           /\ r \in Requestor /\ r.pc = "committing" /\ RequestInv(p)
           /\ r.by \in Reviewers /\ r.by # Nil
           /\ r.ver > 0 => r.case \in Cases /\ r.ver \in 1 .. MaxVersion
           /\ r.review # Nil => r.review \in Reviews
<1>1. /\ request[p] \in Requestor /\ request[p].pc = "committing"
      /\ RequestInv(p)
  BY DEF Inv, TypeOK, Commit
<1> QED BY <1>1, NilIsNoValue DEF RequestInv, Wants, Requestor

(* The review it moves keeps whoever holds it.                             *)
LEMMA CommitReview ==
    ASSUME Inv, NEW p \in Requests, Commit(p)
    PROVE  /\ review' \in [Reviews -> [status : Status \cup {Nil},
                                       assignee : Reviewers \cup {Nil}]]
           /\ \A v \in Reviews \ {request[p].review} : review'[v] = review[v]
           /\ request[p].review # Nil =>
                 LET v == request[p].review IN
                 /\ review'[v].status = request[p].to
                 /\ review'[v].assignee = request[p].by
                 /\ request[p].to \in Status \ {"PENDING"}
                 /\ review[v].assignee # Nil =>
                       /\ request[p].to # "ASSIGNED"
                       /\ review[v].assignee = request[p].by
<1> DEFINE r == request[p]
<1>1. /\ r \in Requestor /\ r.pc = "committing" /\ RequestInv(p)
      /\ r.by \in Reviewers
      /\ r.review # Nil => r.review \in Reviews
  BY Committer
<1>2. r.review # Nil => r.to \in Status \ {"PENDING"}
  BY <1>1 DEF RequestInv, Wants, Status, Concluding
<1>3. review' = IF r.review = Nil THEN review
                ELSE [review EXCEPT ![r.review] =
                         [status |-> r.to, assignee |-> r.by]]
  BY DEF Commit
<1>4. review \in [Reviews -> [status : Status \cup {Nil},
                               assignee : Reviewers \cup {Nil}]]
  BY DEF Inv, TypeOK
<1>5. ASSUME r.review # Nil, review[r.review].assignee # Nil
      PROVE  r.to # "ASSIGNED" /\ review[r.review].assignee = r.by
  <2>1. review[r.review].status # "PENDING"
    BY <1>1, <1>5 DEF Inv, AssigneeInv
  <2>2. /\ r.to = "ASSIGNED" => review[r.review].status = "PENDING"
        /\ r.to # "ASSIGNED" => review[r.review].assignee = r.by
    BY <1>1, <1>5 DEF RequestInv, KnowsReview
  <2> QED BY <2>1, <2>2
<1> HIDE DEF r
<1>6. r.review = Nil => review' = review
  BY <1>3
<1>7. r.review # Nil =>
        /\ review' \in [Reviews -> [status : Status \cup {Nil},
                                    assignee : Reviewers \cup {Nil}]]
        /\ \A v \in Reviews \ {r.review} : review'[v] = review[v]
        /\ review'[r.review].status = r.to
        /\ review'[r.review].assignee = r.by
  <2> SUFFICES ASSUME r.review # Nil PROVE
        /\ review' \in [Reviews -> [status : Status \cup {Nil},
                                    assignee : Reviewers \cup {Nil}]]
        /\ \A v \in Reviews \ {r.review} : review'[v] = review[v]
        /\ review'[r.review].status = r.to
        /\ review'[r.review].assignee = r.by
    OBVIOUS
  <2> DEFINE entry == [status |-> r.to, assignee |-> r.by]
  <2>1. /\ entry \in [status : Status \cup {Nil}, assignee : Reviewers \cup {Nil}]
        /\ entry.status = r.to /\ entry.assignee = r.by
    BY <1>1, <1>2
  <2>2. review' = [review EXCEPT ![r.review] = entry]
    BY <1>3
  <2> HIDE DEF entry
  <2> QED BY <1>1, <1>4, <2>1, <2>2
<1> QED BY <1>2, <1>4, <1>5, <1>6, <1>7 DEF r

(* The decisions of a case gain at most the row of its version, and the    *)
(* rows that were there at most a successor.                               *)
LEMMA CommitDecision ==
    ASSUME Inv, NEW p \in Requests, Commit(p)
    PROVE  LET r == request[p] IN
           /\ decision' \in [Cases -> SUBSET Decision] /\ ChainInv'
           /\ \A c \in Cases : \A d \in decision[c] :
                 \E e \in decision'[c] :
                    /\ e.version = d.version /\ e.id = d.id
                    /\ e.maker = d.maker /\ e.review = d.review
                    /\ e = [d EXCEPT !.next = IF d.next = Nil THEN e.next ELSE @]
           /\ \A c \in Cases : \A e \in decision'[c] :
                 \/ \E d \in decision[c] : d.version = e.version
                 \/ c = r.case /\ r.ver > 0 /\ e.version = r.ver
           /\ r.ver > 0 => \E e \in decision'[r.case] :
                 e.version = r.ver /\ e.review = r.review /\ e.maker = r.by
<1> DEFINE r == request[p]
<1>1. /\ r \in Requestor /\ r.pc = "committing" /\ RequestInv(p)
      /\ r.by \in Reviewers
      /\ r.ver > 0 => r.case \in Cases /\ r.ver \in 1 .. MaxVersion
  BY Committer
<1>2. decision \in [Cases -> SUBSET Decision] /\ ChainInv
  BY DEF Inv, TypeOK
<1>3. \A c \in Cases : \A d \in decision[c] :
        d = [d EXCEPT !.next = IF d.next = Nil THEN d.next ELSE @]
  BY <1>2 DEF Decision
<1>4. CASE r.ver = 0
  <2>1. decision' = decision
    BY <1>4 DEF Commit
  <2> QED BY <1>2, <1>3, <1>4, <2>1 DEF ChainInv
<1>5. CASE r.ver # 0
  <2> DEFINE c == r.case
             n == r.ver
             id == <<p, n>>
             row == DecisionRow(p)
             R == decision[c]
             N == Linked(R, r.old, id) \cup {row}
  <2>1. /\ c \in Cases /\ n \in 1 .. MaxVersion /\ R \subseteq Decision
        /\ ChainOK(R) /\ id \in Requests \X (1 .. MaxVersion)
    BY <1>1, <1>2, <1>5 DEF Requestor, ChainInv
  <2>2. decision' = [decision EXCEPT ![c] = N]
    BY <1>5 DEF Commit, Drawn
  <2>3. /\ row \in Decision /\ row.version = n /\ row.id = id
        /\ row.next = Nil /\ row.maker = r.by /\ row.review = r.review
    BY <1>1, <2>1 DEF DecisionRow, Decision, Drawn, Requestor
  <2>4. \A d \in R : d.version # n
    BY <1>1, <2>1 DEF RequestInv, KnowsDecision, Taken
  <2>5. \/ n = 1 /\ r.old = Nil
        \/ n > 1 /\ \E d \in R : d.id = r.old /\ d.version = n - 1
    BY <1>1, <2>1 DEF RequestInv, Wants, KnowsDecision
  <2>6. ChainOK(N)
    <3> HIDE DEF row, R, n
    <3> QED BY <2>1, <2>3, <2>4, <2>5, ChainExtended
  <2>7. ASSUME NEW d \in R
        PROVE  /\ Link(d, r.old, id) \in N /\ Link(d, r.old, id) \in Decision
               /\ Link(d, r.old, id).version = d.version
               /\ Link(d, r.old, id).id = d.id
               /\ Link(d, r.old, id).maker = d.maker
               /\ Link(d, r.old, id).review = d.review
               /\ Link(d, r.old, id).next =
                      IF d.id = r.old THEN id ELSE d.next
    <3>1. Link(d, r.old, id) \in N
      BY DEF Linked, Link
    <3>2. d \in Decision
      BY <2>1
    <3> HIDE DEF N, R, row, id, r
    <3> QED BY <2>1, <3>1, <3>2, LinkFields
  <2>8. ASSUME NEW d \in R, d.next # Nil PROVE d.id # r.old
    <3> SUFFICES ASSUME d.id = r.old PROVE FALSE
      OBVIOUS
    <3>1. d.id # Nil /\ d.version \in Nat
      BY <2>1, NilIsNoValue DEF Decision
    <3>2. PICK e \in R : e.id = r.old /\ e.version = n - 1
      BY <2>5, <3>1
    <3>3. d.version = n - 1
      BY <2>1, <3>2 DEF ChainOK
    <3>4. \E f \in R : f.version = d.version + 1
      BY <2>1, <2>8 DEF ChainOK
    <3> QED BY <2>1, <2>4, <3>3, <3>4
  <2>9. ASSUME NEW d \in R
        PROVE  LET e == Link(d, r.old, id) IN
               e = [d EXCEPT !.next = IF d.next = Nil THEN e.next ELSE @]
    <3>1. CASE d.next = Nil
      BY <2>1, <3>1 DEF Link, Decision
    <3>2. CASE d.next # Nil
      BY <2>1, <2>8, <3>2 DEF Link, Decision
    <3> QED BY <3>1, <3>2
  <2>10. \A e \in N : (\E d \in R : d.version = e.version) \/ e.version = n
    <3> SUFFICES ASSUME NEW e \in N, e # row
                 PROVE  \E d \in R : d.version = e.version
      BY <2>3
    <3>1. PICK d \in R : e = Link(d, r.old, id)
      BY DEF Linked, Link
    <3> QED BY <2>7, <3>1
  <2>11. N \subseteq Decision
    BY <2>3, <2>7 DEF Linked, Link
  <2>12. row \in N
    OBVIOUS
  <2> HIDE DEF N, row
  <2>13. /\ decision'[c] = N
         /\ \A x \in Cases \ {c} : decision'[x] = decision[x]
         /\ decision' \in [Cases -> SUBSET Decision]
    BY <1>2, <2>1, <2>2, <2>11
  <2>14. ChainInv'
    BY <1>2, <2>6, <2>13 DEF ChainInv
  <2>15. ASSUME NEW x \in Cases, NEW d \in decision[x]
         PROVE  \E e \in decision'[x] :
                    /\ e.version = d.version /\ e.id = d.id
                    /\ e.maker = d.maker /\ e.review = d.review
                    /\ e = [d EXCEPT !.next = IF d.next = Nil THEN e.next ELSE @]
    <3>1. CASE x = c
      BY <2>7, <2>9, <2>13, <3>1
    <3>2. CASE x # c
      BY <1>3, <2>13, <3>2
    <3> QED BY <3>1, <3>2
  <2>16. ASSUME NEW x \in Cases, NEW e \in decision'[x]
         PROVE  \/ \E d \in decision[x] : d.version = e.version
                \/ x = c /\ e.version = n
    BY <2>10, <2>13
  <2>17. \E e \in decision'[c] :
            e.version = n /\ e.review = r.review /\ e.maker = r.by
    BY <2>3, <2>12, <2>13
  <2> QED BY <1>1, <1>5, <2>1, <2>13, <2>14, <2>15, <2>16, <2>17
<1> QED BY <1>4, <1>5

(* What another request knows outlives the commit.                         *)
LEMMA CommitOthers ==
    ASSUME Inv, NEW p \in Requests, Commit(p), NEW q \in Requests, q # p
    PROVE  RequestInv(q)'
<1> DEFINE r == request[p]
           s == request[q]
<1>1. /\ r \in Requestor /\ r.pc = "committing" /\ RequestInv(p)
      /\ r.by # Nil /\ RequestInv(q) /\ s \in Requestor
      /\ request'[q] = s
      /\ \A v \in Reviews : reviewLock[v] = q => reviewLock'[v] = q
      /\ \A k \in Keys : rowLock[k] = q => rowLock'[k] = q
  <2>1. EndRequest(p) /\ RequestInv(q) /\ s \in Requestor
    BY DEF Commit, Inv, TypeOK
  <2>2. /\ request'[q] = s
        /\ \A v \in Reviews : reviewLock[v] = q => reviewLock'[v] = q
        /\ \A k \in Keys : rowLock[k] = q => rowLock'[k] = q
    BY <2>1 DEF EndRequest, Released, Inv, TypeOK
  <2> QED BY <2>1, <2>2, Committer
<1>2. Wants(request[q])'
  BY <1>1 DEF RequestInv
<1>3. KnowsReview(q)'
  <2> SUFFICES ASSUME s.pc # "idle", s.review # Nil
               PROVE  /\ s.to = "ASSIGNED" =>
                            /\ reviewLock'[s.review] = q
                            /\ review'[s.review].status = "PENDING"
                      /\ s.to # "ASSIGNED" =>
                            review'[s.review].assignee = s.by
                      /\ s.to \in Concluding =>
                            review'[s.review].status \in
                                {"IN_REVIEW"} \cup Concluding
    BY <1>1 DEF KnowsReview
  <2>1. s.review \in Reviews /\ s.by \in Reviewers /\ s.by # Nil
    BY <1>1, NilIsNoValue DEF RequestInv, Wants
  <2>2. /\ s.to = "ASSIGNED" =>
              reviewLock[s.review] = q /\ review[s.review].status = "PENDING"
        /\ s.to # "ASSIGNED" => review[s.review].assignee = s.by
        /\ s.to \in Concluding =>
              review[s.review].status \in {"IN_REVIEW"} \cup Concluding
    BY <1>1 DEF RequestInv, KnowsReview
  <2>3. CASE s.review # r.review
    <3>1. review'[s.review] = review[s.review]
      BY <2>1, <2>3, CommitReview
    <3> QED BY <1>1, <2>1, <2>2, <3>1
  <2>4. CASE s.review = r.review
    <3>1. /\ review'[s.review].status = r.to
          /\ review'[s.review].assignee = r.by
          /\ review[s.review].assignee # Nil =>
                r.to # "ASSIGNED" /\ review[s.review].assignee = r.by
      BY <2>4, CommitReview
    <3>2. s.to # "ASSIGNED"
      <4> SUFFICES ASSUME s.to = "ASSIGNED" PROVE FALSE
        OBVIOUS
      <4>1. review[s.review].assignee = Nil
        BY <2>1, <2>2 DEF Inv, AssigneeInv
      <4>2. r.to = "ASSIGNED" => reviewLock[s.review] = p
        BY <1>1, <2>4 DEF RequestInv, KnowsReview
      <4>3. r.to # "ASSIGNED" => review[s.review].assignee = r.by
        BY <1>1, <2>4 DEF RequestInv, KnowsReview
      <4> QED BY <1>1, <2>2, <4>1, <4>2, <4>3
    <3>3. r.to # "ASSIGNED" /\ review'[s.review].assignee = s.by
      BY <2>1, <2>2, <3>1, <3>2
    <3>4. r.to \in {"IN_REVIEW"} \cup Concluding
      BY <1>1, <2>4, <3>3 DEF RequestInv, Wants
    <3> QED BY <3>1, <3>2, <3>3, <3>4
  <2> QED BY <2>3, <2>4
<1>4. KnowsDecision(q)'
  <2>1. ASSUME s.pc # "idle", s.ver > 1
        PROVE  \E e \in decision'[s.case] : e.id = s.old /\ e.version = s.ver - 1
    <3>1. s.case \in Cases
      BY <1>1, <2>1 DEF RequestInv, Wants, Requestor
    <3>2. PICK d \in decision[s.case] : d.id = s.old /\ d.version = s.ver - 1
      BY <1>1, <2>1 DEF RequestInv, KnowsDecision
    <3> QED BY <3>1, <3>2, CommitDecision
  <2>2. ASSUME s.pc = "committing", s.ver > 0
        PROVE  rowLock'[<<s.case, s.ver>>] = q /\ ~Taken(s.case, s.ver)'
    <3>1. rowLock[<<s.case, s.ver>>] = q /\ ~Taken(s.case, s.ver)
      BY <1>1, <2>2 DEF RequestInv, KnowsDecision
    <3>2. s.case \in Cases /\ <<s.case, s.ver>> \in Keys
      BY <1>1, <2>2 DEF RequestInv, Wants, Requestor, Keys
    <3>3. r.ver > 0 => rowLock[<<r.case, r.ver>>] = p
      BY <1>1 DEF RequestInv, KnowsDecision
    <3>4. \A e \in decision'[s.case] : e.version # s.ver
      <4> SUFFICES ASSUME NEW e \in decision'[s.case], e.version = s.ver
                   PROVE  FALSE
        OBVIOUS
      <4>1. \/ \E d \in decision[s.case] : d.version = e.version
            \/ s.case = r.case /\ r.ver > 0 /\ e.version = r.ver
        BY <3>2, CommitDecision
      <4> QED BY <3>1, <3>3, <4>1 DEF Taken
    <3> QED BY <1>1, <3>1, <3>2, <3>4 DEF Taken
  <2> QED BY <1>1, <2>1, <2>2 DEF KnowsDecision
<1> QED BY <1>2, <1>3, <1>4 DEF RequestInv

LEMMA CommitPreserves ==
    ASSUME Inv, NEW p \in Requests, Commit(p) PROVE Inv'
<1> DEFINE r == request[p]
<1>1. /\ r \in Requestor /\ r.pc = "committing" /\ RequestInv(p)
      /\ r.by \in Reviewers /\ r.by # Nil /\ EndRequest(p)
      /\ r.review # Nil => r.review \in Reviews
  BY Committer DEF Commit
<1>2. TypeOK' /\ request'[p] = Idle
  <2>1. request' \in [Requests -> Requestor] /\ request'[p] = Idle
    BY <1>1, IdleIsRequestor DEF Inv, TypeOK, EndRequest
  <2>2. /\ reviewLock' \in [Reviews -> Requests \cup {Nil}]
        /\ rowLock' \in [Keys -> Requests \cup {Nil}]
    BY <1>1 DEF Inv, TypeOK, EndRequest, Released
  <2>3. review' \in [Reviews -> [status : Status \cup {Nil},
                                assignee : Reviewers \cup {Nil}]]
    BY CommitReview
  <2>4. decision' \in [Cases -> SUBSET Decision]
    BY CommitDecision
  <2> QED BY <2>1, <2>2, <2>3, <2>4 DEF TypeOK
<1>3. AssigneeInv'
  <2> SUFFICES ASSUME NEW v \in Reviews
               PROVE  review'[v].assignee = Nil <=>
                          review'[v].status \in {Nil, "PENDING"}
    BY DEF AssigneeInv
  <2>1. CASE v = r.review
    <3>1. r.review # Nil
      BY <2>1, NilIsNoValue
    <3>2. review'[v].assignee = r.by /\ review'[v].status \in Status \ {"PENDING"}
      BY <2>1, <3>1, CommitReview
    <3> QED BY <1>1, <3>2, NilIsNoValue
  <2>2. CASE v # r.review
    BY <2>2, CommitReview DEF Inv, AssigneeInv
  <2> QED BY <2>1, <2>2
<1>4. ConcludedWithDecision'
  <2> SUFFICES ASSUME NEW v \in Reviews, review'[v].status \in Concluding
               PROVE  \E e \in decision'[CaseOf[v]] :
                          /\ e.version = 1 /\ e.review = v
                          /\ e.maker = review'[v].assignee
    BY DEF ConcludedWithDecision
  <2>1. CASE v = r.review
    <3>1. r.review # Nil
      BY <2>1, NilIsNoValue
    <3>2. review'[v].assignee = r.by /\ r.to \in Concluding
      BY <2>1, <3>1, CommitReview
    <3>3. r.ver = 1 /\ r.case = CaseOf[v]
      BY <1>1, <2>1, <3>1, <3>2 DEF RequestInv, Wants, Concluding
    <3> QED BY <2>1, <3>2, <3>3, CommitDecision
  <2>2. CASE v # r.review
    <3>1. review'[v] = review[v] /\ CaseOf[v] \in Cases
      BY <2>2, CommitReview, ReviewsHaveCases
    <3>2. PICK d \in decision[CaseOf[v]] :
             d.version = 1 /\ d.review = v /\ d.maker = review[v].assignee
      BY <3>1 DEF Inv, ConcludedWithDecision
    <3> QED BY <3>1, <3>2, CommitDecision
  <2> QED BY <2>1, <2>2
<1>5. ChainInv'
  BY CommitDecision
<1>6. ASSUME NEW q \in Requests PROVE RequestInv(q)'
  <2>1. CASE q = p
    BY <1>2, <2>1
    DEF Idle, RequestInv, Wants, KnowsReview, KnowsDecision
  <2>2. CASE q # p
    BY <2>2, CommitOthers
  <2> QED BY <2>1, <2>2
<1> QED BY <1>2, <1>3, <1>4, <1>5, <1>6 DEF Inv

LEMMA StartPreserves ==
    ASSUME Inv, NEW p \in Requests, Start(p) PROVE Inv'
<1>1. PICK by \in Reviewers :
        \/ \E v \in Reviews :
              \/ ClaimReview(p, v, by) \/ StartReview(p, v, by)
              \/ CompleteReview(p, v, by) \/ EscalateReview(p, v, by)
              \/ RequestInformation(p, v, by)
        \/ \E c \in Cases : MakeDecision(p, c, by) \/ SupersedeDecision(p, c, by)
  BY DEF Start
<1>2. ASSUME NEW v \in Reviews,
             \/ CompleteReview(p, v, by) \/ EscalateReview(p, v, by)
             \/ RequestInformation(p, v, by)
      PROVE  Inv'
  <2>1. PICK to \in Concluding :
           ReadEntry(p, v, by, to, 1) /\ InReviewOrAssigned(v)
    BY <1>2 DEF CompleteReview, EscalateReview, RequestInformation, Concluding
  <2>2. to # "IN_REVIEW"
    BY DEF Concluding
  <2> QED BY <2>1, <2>2, ReadPreserves
<1>3. ASSUME NEW v \in Reviews, StartReview(p, v, by) PROVE Inv'
  <2>1. ReadEntry(p, v, by, "IN_REVIEW", 0) /\ "IN_REVIEW" \notin Concluding
    BY <1>3 DEF StartReview, Concluding
  <2> QED BY <2>1, ReadPreserves
<1> QED
  BY <1>1, <1>2, <1>3, ClaimPreserves, MakePreserves, SupersedePreserves

LEMMA StepPreserves ==
    ASSUME Inv, [Next]_vars PROVE Inv'
<1>1. CASE UNCHANGED vars
  <2>1. UNCHANGED <<review, decision, reviewLock, rowLock, request>>
    BY <1>1 DEF vars
  <2> QED
    BY <2>1 DEF Inv, TypeOK, AssigneeInv, ChainInv, ConcludedWithDecision,
       RequestInv, KnowsReview, KnowsDecision, Taken
<1>2. ASSUME NEW v \in Reviews, CreateReview(v) PROVE Inv'
  BY <1>2, CreatePreserves
<1>3. ASSUME NEW p \in Requests, Step(p) PROVE Inv'
  BY <1>3, UpdatePreserves, LinkPreserves, InsertPreserves, CommitPreserves
  DEF Step
<1>4. ASSUME NEW p \in Requests, Fail(p) PROVE Inv'
  BY <1>4, EndPreserves DEF Fail
<1> QED BY <1>1, <1>2, <1>3, <1>4, StartPreserves DEF Next

-----------------------------------------------------------------------------
(* The invariant holds in every reachable state, whatever requests and     *)
(* failures interleave.                                                    *)
THEOREM Invariance == Spec => []Inv
<1>1. Init => Inv
  BY InitInv
<1>2. Inv /\ [Next]_vars => Inv'
  BY StepPreserves
<1> QED BY <1>1, <1>2, PTL DEF Spec

(* The tables and the requests hold only values the code can put there;    *)
(* no case outgrows its versions.                                          *)
THEOREM TypeCorrect == Spec => []TypeOK
<1>1. Inv => TypeOK
  BY DEF Inv
<1> QED BY <1>1, Invariance, PTL

(* The decisions of a case form one chain, although SupersedeDecision      *)
(* reads the latest decision before its transaction and overwrites its     *)
(* superseded_by_id without looking.                                       *)
THEOREM Chain == Spec => []SupersessionIsAChain
<1>1. Inv => SupersessionIsAChain
  BY DEF Inv, ChainInv, ChainOK, SupersessionIsAChain
<1> QED BY <1>1, Invariance, PTL

(* A review that CompleteReview, EscalateReview or RequestInformation      *)
(* concluded has the first decision of its case, made by its assignee.     *)
THEOREM Concluded == Spec => []ConcludedWithDecision
<1>1. Inv => ConcludedWithDecision
  BY DEF Inv
<1> QED BY <1>1, Invariance, PTL

(* Besides CreateReview only a commit writes a review, and besides a       *)
(* commit nothing writes a decision.                                       *)
LEMMA OnlyCommitsWrite ==
    ASSUME [Next]_vars
    PROVE  \/ \E p \in Requests : Commit(p)
           \/ (\E v \in Reviews : CreateReview(v)) /\ decision' = decision
           \/ UNCHANGED tables
<1>1. CASE UNCHANGED vars
  BY <1>1 DEF vars, tables
<1>2. CASE \E v \in Reviews : CreateReview(v)
  BY <1>2 DEF CreateReview
<1>3. ASSUME NEW p \in Requests, Start(p) PROVE UNCHANGED tables
  BY <1>3 DEF Start, ClaimReview, StartReview, CompleteReview,
     EscalateReview, RequestInformation, ReadEntry, MakeDecision,
     SupersedeDecision
<1>4. ASSUME NEW p \in Requests, Step(p) PROVE Commit(p) \/ UNCHANGED tables
  BY <1>4 DEF Step, UpdateStatus, LinkDecision, InsertDecision
<1>5. ASSUME NEW p \in Requests, Fail(p) PROVE UNCHANGED tables
  BY <1>5 DEF Fail
<1> QED BY <1>1, <1>2, <1>3, <1>4, <1>5 DEF Next

(* A decision once recorded stays as it is, but for the one successor it   *)
(* may get.                                                                *)
THEOREM Immutable == Spec => DecisionsAreImmutable
<1>1. Inv /\ [Next]_vars =>
        \A c \in Cases : \A d \in decision[c] :
           \E e \in decision'[c] :
              e = [d EXCEPT !.next = IF d.next = Nil THEN e.next ELSE @]
  <2> SUFFICES ASSUME Inv, [Next]_vars,
                      NEW c \in Cases, NEW d \in decision[c]
               PROVE  \E e \in decision'[c] :
                 e = [d EXCEPT !.next = IF d.next = Nil THEN e.next ELSE @]
    OBVIOUS
  <2>1. CASE \E p \in Requests : Commit(p)
    BY <2>1, CommitDecision
  <2>2. CASE decision' = decision
    <3>1. d = [d EXCEPT !.next = IF d.next = Nil THEN d.next ELSE @]
      BY DEF Inv, TypeOK, Decision
    <3> QED BY <2>2, <3>1
  <2> QED BY <2>1, <2>2, OnlyCommitsWrite DEF tables
<1> QED BY <1>1, Invariance, PTL DEF DecisionsAreImmutable, Spec

(* ClaimReview gives a review to one reviewer for good: no stale move of   *)
(* another request takes it away.                                          *)
THEOREM Holder == Spec => HolderKeepsReview
<1>1. Inv /\ [Next]_vars =>
        \A v \in Reviews : review[v].assignee # Nil =>
            review'[v].assignee = review[v].assignee
  <2> SUFFICES ASSUME Inv, [Next]_vars,
                      NEW v \in Reviews, review[v].assignee # Nil
               PROVE  review'[v].assignee = review[v].assignee
    OBVIOUS
  <2>1. CASE \E p \in Requests : Commit(p)
    <3>1. PICK p \in Requests : Commit(p)
      BY <2>1
    <3>2. CASE v = request[p].review
      <4>1. request[p].review # Nil
        BY <3>2, NilIsNoValue
      <4> QED BY <3>1, <3>2, <4>1, CommitReview
    <3>3. CASE v # request[p].review
      BY <3>1, <3>3, CommitReview
    <3> QED BY <3>2, <3>3
  <2>2. CASE \E u \in Reviews : CreateReview(u)
    <3>1. PICK u \in Reviews : CreateReview(u)
      BY <2>2
    <3>2. u # v
      BY <3>1 DEF CreateReview, NoReview
    <3> QED BY <3>1, <3>2 DEF CreateReview, Inv, TypeOK
  <2> QED BY <2>1, <2>2, OnlyCommitsWrite DEF tables
<1> QED BY <1>1, Invariance, PTL DEF HolderKeepsReview, Spec

(* A review is concluded only out of IN_REVIEW although the UPDATE of its  *)
(* status compares nothing: the first decision of the case is gone once    *)
(* another request has concluded it.                                       *)
THEOREM FromReview == Spec => ConcludedFromReview
<1>1. Inv /\ [Next]_vars =>
        \A v \in Reviews :
           review'[v].status \in Concluding /\ review'[v] # review[v] =>
               review[v].status = "IN_REVIEW"
  <2> SUFFICES ASSUME Inv, [Next]_vars, NEW v \in Reviews,
                      review'[v].status \in Concluding,
                      review'[v] # review[v]
               PROVE  review[v].status = "IN_REVIEW"
    OBVIOUS
  <2>1. CASE \E p \in Requests : Commit(p)
    <3>1. PICK p \in Requests : Commit(p)
      BY <2>1
    <3> DEFINE r == request[p]
    <3>2. v = r.review /\ r.review # Nil
      BY <3>1, CommitReview, NilIsNoValue
    <3>3. r.to \in Concluding
      BY <3>1, <3>2, CommitReview
    <3>4. r.pc = "committing" /\ RequestInv(p)
      BY <3>1, Committer
    <3>5. r.ver = 1 /\ r.case = CaseOf[v] /\ ~Taken(r.case, r.ver)
      BY <3>2, <3>3, <3>4 DEF RequestInv, Wants, KnowsDecision, Concluding
    <3>6. review[v].status \in {"IN_REVIEW"} \cup Concluding
      BY <3>2, <3>3, <3>4 DEF RequestInv, KnowsReview
    <3>7. review[v].status \notin Concluding
      BY <3>5 DEF Inv, ConcludedWithDecision, Taken
    <3> QED BY <3>6, <3>7
  <2>2. CASE \E u \in Reviews : CreateReview(u)
    <3>1. PICK u \in Reviews : CreateReview(u)
      BY <2>2
    <3>2. u = v => review'[v].status = "PENDING"
      BY <3>1 DEF CreateReview, Inv, TypeOK
    <3>3. u # v => review'[v] = review[v]
      BY <3>1 DEF CreateReview, Inv, TypeOK
    <3> QED BY <3>2, <3>3 DEF Concluding
  <2> QED BY <2>1, <2>2, OnlyCommitsWrite DEF tables
<1> QED BY <1>1, Invariance, PTL DEF ConcludedFromReview, Spec
=============================================================================
