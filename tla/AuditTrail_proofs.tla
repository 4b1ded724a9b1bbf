------------------------- MODULE AuditTrail_proofs -------------------------
(***************************************************************************)
(* Theorems about the events that are audited: AuditChain, how they are    *)
(* linked, for any number of organizations, writers and events; and        *)
(* AIArtifacts, what reviews, facts and contexts have to show for          *)
(* themselves, for any rows, any answers and any requests.                 *)
(***************************************************************************)
EXTENDS AuditChain, AIArtifacts, FiniteSetTheorems, WellFoundedInduction, TLAPS

-----------------------------------------------------------------------------
(* Well-ordering.                                                          *)

(* A set of numbers that is not empty has a least one.                     *)
LEMMA LeastNumber ==
    ASSUME NEW T, T \subseteq Nat, T # {}
    PROVE  \E n \in T : \A m \in T : n <= m
<1> DEFINE R == {ss \in Nat \X Nat : ss[1] < ss[2]}
<1>1. IsWellFoundedOn(R, Nat)
  BY NatLessThanWellFounded DEF OpToRel
<1>2. \A m, n \in Nat : m < n => <<m, n>> \in R
  OBVIOUS
<1> HIDE DEF R
<1>3. PICK n \in T : \A m \in T : ~(<<m, n>> \in R)
  BY <1>1, WFMin
<1>4. ASSUME NEW m \in T PROVE n <= m
  <2>1. m \in Nat /\ n \in Nat /\ ~(m < n)
    BY <1>2, <1>3
  <2> QED BY <2>1
<1> QED BY <1>4

-----------------------------------------------------------------------------
(* The inductive invariant.                                                *)

(* Every event links to the newest of those before it.                     *)
Linked(events) ==
    \A i \in 1 .. Len(events) :
        events[i].prev = Newest(SubSeq(events, 1, i - 1))

(* There is a newest event, if there is one at all.                        *)
HasLatest(events) ==
    events # <<>> =>
        \E t \in {events[i].ts : i \in 1 .. Len(events)} :
            \A i \in 1 .. Len(events) : events[i].ts <= t

LogOK(events) == Linked(events) /\ HasLatest(events)

WriterOK(w) ==
    LET r == writer[w] IN
    /\ r.pc # "idle" => r.org \in Orgs /\ LogOK(log[r.org] \o r.pending)
    /\ r.pc = "idle" => r.pending = <<>>
    /\ r.pc = "stamped" => r.ts # 0
    /\ r.pending # <<>> => lock[r.org] = w

(* The part of the type invariant the links depend on.                     *)
LogTypeOK ==
    /\ clock \in Nat
    /\ log \in [Orgs -> Seq(Event)]
    /\ lock \in [Orgs -> Writers \cup {Nil}]
    /\ writer \in [Writers -> [pc : {"idle", "stamped", "open"},
                               org : Orgs \cup {Nil}, ts : Nat,
                               pending : Seq(Event)]]

Inv ==
    /\ LogTypeOK
    /\ \A o \in Orgs : LogOK(log[o])
    /\ \A w \in Writers : WriterOK(w)

-----------------------------------------------------------------------------
(* Lemmas about the newest event.                                          *)

LEMMA EventsTyped ==
    ASSUME NEW events \in Seq(Event), NEW i \in 1 .. Len(events)
    PROVE  events[i] \in Event /\ events[i].ts \in Nat \ {0}
<1>1. events[i] \in Event
  OBVIOUS
<1> QED BY <1>1 DEF Event

(* The newest timestamp is one of the timestamps, and none exceeds it.     *)
LEMMA LatestProperties ==
    ASSUME NEW events \in Seq(Event), HasLatest(events), events # <<>>
    PROVE  /\ Latest(events) \in Nat \ {0}
           /\ \E i \in 1 .. Len(events) : events[i].ts = Latest(events)
           /\ \A i \in 1 .. Len(events) : events[i].ts <= Latest(events)
<1> DEFINE T == {events[i].ts : i \in 1 .. Len(events)}
           P(t) == \A i \in 1 .. Len(events) : events[i].ts <= t
<1>1. \E t \in T : P(t)
  BY DEF HasLatest
<1>2. Latest(events) \in T /\ P(Latest(events))
  <2>1. Latest(events) = CHOOSE t \in T : P(t)
    BY DEF Latest
  <2> HIDE DEF T, P
  <2> QED BY <1>1, <2>1
<1>3. T \subseteq Nat \ {0}
  BY EventsTyped
<1> QED BY <1>2, <1>3

LEMMA NewestType ==
    ASSUME NEW events \in Seq(Event), HasLatest(events)
    PROVE  Newest(events) \in (Nat \ {0}) \cup {Nil}
BY LatestProperties DEF Newest

(* Appending an event keeps a newest one.                                  *)
LEMMA AppendHasLatest ==
    ASSUME NEW events \in Seq(Event), HasLatest(events), NEW e \in Event
    PROVE  HasLatest(Append(events, e))
<1> DEFINE n == Len(events)
           g == Append(events, e)
           T == {g[i].ts : i \in 1 .. Len(g)}
<1>1. /\ n \in Nat /\ Len(g) = n + 1 /\ g[n + 1] = e
      /\ \A i \in 1 .. n : g[i] = events[i]
  OBVIOUS
<1>2. e.ts \in Nat /\ \A i \in 1 .. n : events[i].ts \in Nat
  BY EventsTyped DEF Event
<1>3. ASSUME NEW k \in 1 .. n + 1,
             \A i \in 1 .. n + 1 : g[i].ts <= g[k].ts
      PROVE  HasLatest(g)
  <2> HIDE DEF g, n
  <2> QED BY <1>1, <1>3 DEF HasLatest
<1>4. CASE events = <<>>
  <2>1. n = 0
    BY <1>4
  <2>2. 1 \in 1 .. n + 1 /\ \A i \in 1 .. n + 1 : g[i].ts <= g[1].ts
    BY <1>1, <1>2, <2>1
  <2> QED BY <1>3, <2>2
<1>5. CASE events # <<>>
  <2>1. PICK k \in 1 .. n : \A i \in 1 .. n : events[i].ts <= events[k].ts
    BY <1>5 DEF HasLatest
  <2>2. CASE e.ts <= events[k].ts
    <3>1. k \in 1 .. n + 1 /\ \A i \in 1 .. n + 1 : g[i].ts <= g[k].ts
      BY <1>1, <1>2, <2>1, <2>2
    <3> QED BY <1>3, <3>1
  <2>3. CASE events[k].ts <= e.ts
    <3>1. n + 1 \in 1 .. n + 1 /\ \A i \in 1 .. n + 1 : g[i].ts <= g[n + 1].ts
      <4> SUFFICES ASSUME NEW i \in 1 .. n + 1 PROVE g[i].ts <= g[n + 1].ts
        BY <1>1
      <4>1. CASE i = n + 1
        BY <1>1, <1>2, <4>1
      <4>2. CASE i \in 1 .. n
        <5>1. events[i].ts <= events[k].ts
          BY <2>1, <4>2
        <5> HIDE DEF g, n
        <5> QED BY <1>1, <1>2, <2>3, <4>2, <5>1
      <4> QED BY <1>1, <4>1, <4>2
    <3> QED BY <1>3, <3>1
  <2> QED BY <1>2, <2>1, <2>2, <2>3
<1> QED BY <1>4, <1>5

(* Appending an event that links to the newest keeps a log linked.         *)
LEMMA AppendLinked ==
    ASSUME NEW events \in Seq(Event), Linked(events),
           NEW e \in Event, e.prev = Newest(events)
    PROVE  Linked(Append(events, e))
<1> DEFINE n == Len(events)
           g == Append(events, e)
<1>1. /\ n \in Nat /\ Len(g) = n + 1 /\ g[n + 1] = e
      /\ \A i \in 1 .. n : g[i] = events[i]
  OBVIOUS
<1>2. ASSUME NEW i \in 1 .. n + 1
      PROVE  SubSeq(g, 1, i - 1) = SubSeq(events, 1, i - 1)
  BY <1>1
<1>3. SubSeq(events, 1, n) = events
  OBVIOUS
<1>4. ASSUME NEW i \in 1 .. n + 1
      PROVE  g[i].prev = Newest(SubSeq(g, 1, i - 1))
  <2>1. CASE i = n + 1
    <3>1. SubSeq(g, 1, i - 1) = events
      BY <1>1, <1>2, <1>3, <2>1
    <3> QED BY <1>1, <2>1, <3>1
  <2>2. CASE i \in 1 .. n
    BY <1>1, <1>2, <2>2 DEF Linked
  <2> QED BY <1>1, <2>1, <2>2
<1> QED BY <1>1, <1>4 DEF Linked

(* The empty log, and a log with nothing pending.                          *)
LEMMA EmptyOK == LogOK(<<>>)
BY DEF LogOK, Linked, HasLatest

LEMMA NothingPending ==
    ASSUME NEW events \in Seq(Event) PROVE events \o <<>> = events
OBVIOUS

LEMMA AppendToPending ==
    ASSUME NEW s \in Seq(Event), NEW t \in Seq(Event), NEW e \in Event
    PROVE  Append(s \o t, e) = s \o Append(t, e)
OBVIOUS

-----------------------------------------------------------------------------
(* The invariant is inductive.                                             *)

LEMMA InitInv == Init => Inv
<1> SUFFICES ASSUME Init PROVE Inv
  OBVIOUS
<1>1. LogTypeOK
  BY DEF Init, LogTypeOK, NoTx
<1>2. \A o \in Orgs : LogOK(log[o])
  BY EmptyOK DEF Init
<1>3. \A w \in Writers : WriterOK(w)
  BY DEF Init, WriterOK, NoTx
<1> QED BY <1>1, <1>2, <1>3 DEF Inv

(* Only the writer that holds the lock has events pending on a log.        *)
LEMMA OthersHaveNothing ==
    ASSUME Inv, NEW w \in Writers, NEW o \in Orgs, lock[o] \in {Nil, w},
           NEW v \in Writers, v # w, writer[v].org = o
    PROVE  writer[v].pending = <<>>
BY NilIsNoWriter DEF Inv, WriterOK

(* Taking a timestamp changes neither log nor lock.  A transaction that    *)
(* has just begun stands on the log of its organization.                   *)
LEMMA StampPreserves ==
    ASSUME Inv, NEW w \in Writers, NEW o \in Orgs, Stamp(w, o) PROVE Inv'
<1>1. /\ writer' = [writer EXCEPT ![w].pc = "stamped", ![w].org = o,
                                  ![w].ts = clock + 1]
      /\ clock' = clock + 1 /\ clock \in Nat
      /\ UNCHANGED <<log, lock>>
  BY DEF Stamp, Inv, LogTypeOK
<1>2. LogTypeOK'
  <2>1. writer' \in [Writers -> [pc : {"idle", "stamped", "open"},
                                org : Orgs \cup {Nil}, ts : Nat,
                                pending : Seq(Event)]]
    <3> DEFINE T == [pc : {"idle", "stamped", "open"}, org : Orgs \cup {Nil},
                     ts : Nat, pending : Seq(Event)]
               r1 == [writer[w] EXCEPT !.pc = "stamped", !.org = o,
                                       !.ts = clock + 1]
    <3>1. writer \in [Writers -> T]
      BY DEF Inv, LogTypeOK
    <3>2. r1 \in T
      <4>1. writer[w] \in T /\ clock + 1 \in Nat /\ o \in Orgs \cup {Nil}
        BY <1>1, <3>1
      <4> QED BY <4>1
    <3>3. writer' = [writer EXCEPT ![w] = r1]
      BY <1>1
    <3> HIDE DEF T, r1
    <3>4. writer' \in [Writers -> T]
      BY <3>1, <3>2, <3>3
    <3> QED BY <3>4 DEF T
  <2> QED BY <1>1, <2>1 DEF Inv, LogTypeOK
<1>3. /\ writer'[w].pc = "stamped" /\ writer'[w].org = o
      /\ writer'[w].ts = clock + 1
      /\ writer'[w].pending = writer[w].pending
      /\ \A v \in Writers \ {w} : writer'[v] = writer[v]
  BY <1>1 DEF Inv, LogTypeOK
<1>4. LogOK(log[o] \o writer[w].pending)
  <2>1. CASE writer[w].pc = "idle"
    <3>1. writer[w].pending = <<>> /\ log[o] \in Seq(Event) /\ LogOK(log[o])
      BY <2>1 DEF Inv, WriterOK, LogTypeOK
    <3> QED BY <3>1, NothingPending
  <2>2. CASE writer[w].pc = "open" /\ writer[w].org = o
    BY <2>2 DEF Inv, WriterOK
  <2> QED BY <2>1, <2>2 DEF Stamp
<1>5. writer[w].pending # <<>> => lock[o] = w
  BY DEF Stamp, Inv, WriterOK
<1>6. WriterOK(w)'
  BY <1>1, <1>3, <1>4, <1>5 DEF WriterOK
<1>7. ASSUME NEW v \in Writers, v # w PROVE WriterOK(v)'
  BY <1>1, <1>3, <1>7 DEF WriterOK, Inv
<1> QED BY <1>1, <1>2, <1>6, <1>7 DEF Inv

(* An event is linked under the lock to what the writer sees, which is all *)
(* there is: nobody else has anything pending.                             *)
LEMMA WritePreserves ==
    ASSUME Inv, NEW w \in Writers, Write(w) PROVE Inv'
<1> DEFINE r == writer[w]
           o == r.org
           seen == log[o] \o r.pending
           e == [ts |-> r.ts, prev |-> Newest(seen)]
<1>1. /\ o \in Orgs /\ r.pc = "stamped" /\ r.ts \in Nat \ {0}
      /\ LogOK(seen) /\ lock[o] \in {Nil, w}
      /\ log[o] \in Seq(Event) /\ r.pending \in Seq(Event)
      /\ seen \in Seq(Event)
  BY DEF Write, LockFree, Inv, LogTypeOK, WriterOK
<1>2. e \in Event
  <2>1. Newest(seen) \in (Nat \ {0}) \cup {Nil}
    BY <1>1, NewestType DEF LogOK
  <2> HIDE DEF seen
  <2> QED BY <1>1, <2>1 DEF Event
<1>3. /\ writer' = [writer EXCEPT ![w].pc = "open",
                                  ![w].pending = Append(@, e)]
      /\ lock' = [lock EXCEPT ![o] = w]
      /\ UNCHANGED <<clock, log>>
  BY DEF Write, LastHash, Visible
<1>4. LogOK(log[o] \o Append(r.pending, e))
  <2>1. e.prev = Newest(seen)
    OBVIOUS
  <2> HIDE DEF e
  <2>2. LogOK(Append(seen, e))
    BY <1>1, <1>2, <2>1, AppendLinked, AppendHasLatest DEF LogOK
  <2>3. Append(seen, e) = log[o] \o Append(r.pending, e)
    BY <1>1, <1>2, AppendToPending
  <2> QED BY <2>2, <2>3
<1> HIDE DEF e
<1>5. LogTypeOK'
  BY <1>1, <1>2, <1>3 DEF Inv, LogTypeOK
<1>6. /\ writer'[w].pc = "open" /\ writer'[w].org = o
      /\ writer'[w].pending = Append(r.pending, e)
      /\ \A v \in Writers \ {w} : writer'[v] = writer[v]
      /\ lock'[o] = w
      /\ \A p \in Orgs \ {o} : lock'[p] = lock[p]
  BY <1>1, <1>3 DEF Inv, LogTypeOK
<1>7. WriterOK(w)'
  BY <1>1, <1>3, <1>4, <1>6 DEF WriterOK
<1>8. ASSUME NEW v \in Writers, v # w PROVE WriterOK(v)'
  <2>1. WriterOK(v) /\ writer'[v] = writer[v]
    BY <1>6, <1>8 DEF Inv
  <2>2. CASE writer[v].org = o
    <3>1. writer[v].pending = <<>>
      BY <1>1, <1>8, <2>2, OthersHaveNothing
    <3> QED BY <1>3, <2>1, <3>1 DEF WriterOK
  <2>3. CASE writer[v].org # o
    <3>1. writer[v].pc # "idle" => lock'[writer[v].org] = lock[writer[v].org]
      BY <1>6, <2>1, <2>3 DEF WriterOK
    <3> QED BY <1>3, <2>1, <3>1 DEF WriterOK
  <2> QED BY <2>2, <2>3
<1> QED BY <1>3, <1>5, <1>7, <1>8 DEF Inv

(* A transaction that ends has idle successors, and takes locks of nobody. *)
LEMMA EndTypeOK ==
    ASSUME Inv, NEW w \in Writers,
           writer' = [writer EXCEPT ![w] = NoTx], lock' = Unlocked(w)
    PROVE  /\ writer' \in [Writers -> [pc : {"idle", "stamped", "open"},
                               org : Orgs \cup {Nil}, ts : Nat,
                               pending : Seq(Event)]]
           /\ lock' \in [Orgs -> Writers \cup {Nil}]
           /\ writer'[w] = NoTx
           /\ \A v \in Writers \ {w} : writer'[v] = writer[v]
           /\ \A v \in Writers \ {w} : \A o \in Orgs :
                  lock[o] = v => lock'[o] = v
BY DEF Inv, LogTypeOK, NoTx, Unlocked

(* The events of one transaction join the log as they were linked.         *)
LEMMA CommitPreserves ==
    ASSUME Inv, NEW w \in Writers, Commit(w) PROVE Inv'
<1> DEFINE r == writer[w]
           o == r.org
<1>1. /\ o \in Orgs /\ LogOK(log[o] \o r.pending)
      /\ log[o] \in Seq(Event) /\ r.pending \in Seq(Event)
      /\ log' = [log EXCEPT ![o] = @ \o r.pending]
      /\ writer' = [writer EXCEPT ![w] = NoTx] /\ lock' = Unlocked(w)
      /\ UNCHANGED clock
  BY DEF Commit, Inv, LogTypeOK, WriterOK
<1>2. /\ log'[o] = log[o] \o r.pending
      /\ \A p \in Orgs \ {o} : log'[p] = log[p]
  BY <1>1 DEF Inv, LogTypeOK
<1>3. LogTypeOK'
  <2>1. log[o] \o r.pending \in Seq(Event)
    BY <1>1
  <2>2. log' \in [Orgs -> Seq(Event)]
    BY <1>1, <2>1 DEF Inv, LogTypeOK
  <2> QED BY <1>1, <2>2, EndTypeOK DEF LogTypeOK, Inv
<1>4. ASSUME NEW p \in Orgs PROVE LogOK(log'[p])
  BY <1>1, <1>2 DEF Inv
<1>5. WriterOK(w)'
  BY <1>1, EndTypeOK DEF WriterOK, NoTx
<1>6. ASSUME NEW v \in Writers, v # w PROVE WriterOK(v)'
  <2>1. WriterOK(v) /\ writer'[v] = writer[v]
    BY <1>1, <1>6, EndTypeOK DEF Inv
  <2>2. \A p \in Orgs : lock[p] = v => lock'[p] = v
    BY <1>1, <1>6, EndTypeOK
  <2>3. CASE r.pending = <<>>
    <3>1. log' = log
      BY <1>1, <2>3, NothingPending DEF Inv, LogTypeOK
    <3> QED BY <2>1, <2>2, <3>1 DEF WriterOK, Inv, LogTypeOK
  <2>4. CASE r.pending # <<>> /\ writer[v].org = o
    <3>1. lock[o] = w
      BY <2>4 DEF Inv, WriterOK
    <3>2. writer[v].pending = <<>>
      BY <1>1, <1>6, <2>4, <3>1, OthersHaveNothing
    <3>3. log'[o] \in Seq(Event) /\ LogOK(log'[o])
      BY <1>1, <1>3, <1>4 DEF LogTypeOK
    <3>4. log'[o] \o writer[v].pending = log'[o]
      BY <3>2, <3>3, NothingPending
    <3> QED BY <1>1, <2>1, <2>4, <3>2, <3>3, <3>4 DEF WriterOK
  <2>5. CASE writer[v].org # o
    BY <1>2, <2>1, <2>2, <2>5 DEF WriterOK
  <2> QED BY <2>3, <2>4, <2>5
<1> QED BY <1>3, <1>4, <1>5, <1>6 DEF Inv

LEMMA RollbackPreserves ==
    ASSUME Inv, NEW w \in Writers, Rollback(w) PROVE Inv'
<1>1. /\ writer' = [writer EXCEPT ![w] = NoTx] /\ lock' = Unlocked(w)
      /\ UNCHANGED <<clock, log>>
  BY DEF Rollback
<1>2. LogTypeOK'
  BY <1>1, EndTypeOK DEF LogTypeOK, Inv
<1>3. WriterOK(w)'
  BY <1>1, EndTypeOK DEF WriterOK, NoTx
<1>4. ASSUME NEW v \in Writers, v # w PROVE WriterOK(v)'
  <2>1. WriterOK(v) /\ writer'[v] = writer[v]
    BY <1>1, <1>4, EndTypeOK DEF Inv
  <2>2. \A p \in Orgs : lock[p] = v => lock'[p] = v
    BY <1>1, <1>4, EndTypeOK
  <2> QED BY <1>1, <2>1, <2>2 DEF WriterOK, Inv, LogTypeOK
<1> QED BY <1>1, <1>2, <1>3, <1>4 DEF Inv

LEMMA NextInv == Inv /\ [Next]_vars => Inv'
<1> SUFFICES ASSUME Inv, [Next]_vars PROVE Inv'
  OBVIOUS
<1>1. ASSUME NEW w \in Writers, NEW o \in Orgs, Stamp(w, o) PROVE Inv'
  BY <1>1, StampPreserves
<1>2. ASSUME NEW w \in Writers, Tx(w) \/ Rollback(w) PROVE Inv'
  BY <1>2, WritePreserves, CommitPreserves, RollbackPreserves DEF Tx
<1>3. CASE Verify \/ UNCHANGED vars
  <2>1. UNCHANGED <<clock, log, lock, writer>>
    BY <1>3 DEF Verify, StartPass, CountEvents, VerifyEvents, EndPass, vars
  <2> QED BY <2>1 DEF Inv, LogTypeOK, WriterOK
<1> QED BY <1>1, <1>2, <1>3 DEF Next

THEOREM Invariance == Spec => []Inv
BY InitInv, NextInv, PTL DEF Spec

-----------------------------------------------------------------------------
(* Every committed event links to the newest one, by timestamp, inserted   *)
(* before it (writeEvent under the advisory lock), whatever the order in   *)
(* which the events were stamped.                                          *)
THEOREM AlwaysLinksToNewest == Spec => []LinksToNewest
<1>1. Inv => LinksToNewest
  BY DEF Inv, LogOK, Linked, LinksToNewest
<1> QED BY <1>1, Invariance, PTL

(* A log inserted in the order of its timestamps is one chain.             *)
LEMMA InvChains == Inv => ChainedWhenInOrder
<1> SUFFICES ASSUME Inv, NEW o \in Orgs, InOrder(log[o]),
                    NEW i \in 2 .. Len(log[o])
             PROVE  log[o][i].prev = log[o][i - 1].ts
  BY DEF ChainedWhenInOrder
<1> DEFINE before == SubSeq(log[o], 1, i - 1)
<1>1. log[o] \in Seq(Event) /\ log[o][i].prev = Newest(before)
  BY DEF Inv, LogTypeOK, LogOK, Linked
<1>2. /\ before \in Seq(Event) /\ Len(before) = i - 1 /\ i - 1 > 0
      /\ i - 1 \in 1 .. i - 1
      /\ \A j \in 1 .. i - 1 : before[j] = log[o][j]
  BY <1>1
<1>3. before # <<>>
  BY <1>2
<1>4. \A j \in 1 .. i - 1 : before[j].ts \in Nat
  BY <1>2, EventsTyped
<1>5. \A j \in 1 .. i - 1 : before[j].ts <= before[i - 1].ts
  BY <1>1, <1>2, <1>4 DEF InOrder
<1> HIDE DEF before
<1>6. HasLatest(before)
  BY <1>2, <1>5 DEF HasLatest
<1>7. /\ \E j \in 1 .. i - 1 : before[j].ts = Latest(before)
      /\ \A j \in 1 .. i - 1 : before[j].ts <= Latest(before)
      /\ Latest(before) \in Nat
  BY <1>2, <1>3, <1>6, LatestProperties
<1>8. Latest(before) = before[i - 1].ts
  BY <1>2, <1>4, <1>5, <1>7
<1> QED BY <1>1, <1>2, <1>3, <1>8 DEF Newest

(* So a log inserted in the order of its timestamps is one chain: only an  *)
(* event that overtakes another between time.Now and the lock forks it.    *)
THEOREM AlwaysChainedWhenInOrder == Spec => []ChainedWhenInOrder
BY InvChains, Invariance, PTL

-----------------------------------------------------------------------------
(* The maintenance pass.                                                   *)

VerifierType ==
    [pc : {"idle", "counting", "reading", "done"},
     todo : SUBSET (1 .. Len(OrgOrder)), count : Nat, failed : BOOLEAN]

(* What the pass has counted is there when it reads it, and it has failed  *)
(* no organization whose log is in order.                                  *)
VerifierOK ==
    /\ verifier \in VerifierType
    /\ verifier.pc = "reading" =>
           /\ verifier.todo # {}
           /\ verifier.count <= Len(log[OrgOrder[Turn]])
    /\ NoFalseAlarm

(* There is an organization whose turn it is.                              *)
LEMMA TurnIsDue ==
    ASSUME verifier \in VerifierType, verifier.todo # {}
    PROVE  Turn \in verifier.todo /\ OrgOrder[Turn] \in Orgs
<1>1. verifier.todo \subseteq Nat /\ verifier.todo \subseteq 1 .. Len(OrgOrder)
  BY DistinctOrgs DEF VerifierType
<1>2. \E i \in verifier.todo : \A j \in verifier.todo : i <= j
  BY <1>1, LeastNumber
<1>3. Turn \in verifier.todo
  BY <1>2 DEF Turn
<1> QED BY <1>1, <1>3 DEF Orgs

LEMMA Prefix ==
    ASSUME NEW s \in Seq(Event), NEW t \in Seq(Event)
    PROVE  /\ s \o t \in Seq(Event) /\ Len(s) <= Len(s \o t)
           /\ \A i \in 1 .. Len(s) : (s \o t)[i] = s[i]
<1>1. Len(s) \in Nat /\ Len(t) \in Nat /\ Len(s \o t) = Len(s) + Len(t)
  OBVIOUS
<1>2. s \o t \in Seq(Event)
  OBVIOUS
<1>3. \A i \in 1 .. Len(s) : (s \o t)[i] = s[i]
  OBVIOUS
<1> QED BY <1>1, <1>2, <1>3

(* Logs only grow.                                                         *)
LEMMA LogsGrow ==
    ASSUME Inv, [Next]_vars, NEW o \in Orgs
    PROVE  /\ log[o] \in Seq(Event) /\ log'[o] \in Seq(Event)
           /\ Len(log[o]) <= Len(log'[o])
           /\ \A i \in 1 .. Len(log[o]) : log'[o][i] = log[o][i]
<1>1. log \in [Orgs -> Seq(Event)] /\ \A w \in Writers : writer[w].pending \in Seq(Event)
  BY DEF Inv, LogTypeOK
<1>2. ASSUME NEW w \in Writers, Commit(w)
      PROVE  log'[o] = log[o] \/ log'[o] = log[o] \o writer[w].pending
  BY <1>1, <1>2 DEF Commit
<1>3. UNCHANGED log \/ \E w \in Writers : Commit(w)
  BY DEF Next, vars, Stamp, Tx, Write, Rollback, Verify, StartPass, CountEvents,
         VerifyEvents, EndPass
<1>4. CASE UNCHANGED log
  BY <1>1, <1>4
<1>5. ASSUME NEW w \in Writers, Commit(w)
      PROVE  /\ log'[o] \in Seq(Event) /\ Len(log[o]) <= Len(log'[o])
             /\ \A i \in 1 .. Len(log[o]) : log'[o][i] = log[o][i]
  <2>1. log[o] \in Seq(Event) /\ writer[w].pending \in Seq(Event)
    BY <1>1
  <2>2. CASE log'[o] = log[o]
    BY <2>1, <2>2
  <2>3. CASE log'[o] = log[o] \o writer[w].pending
    <3> DEFINE s == log[o]
               t == writer[w].pending
    <3>1. s \in Seq(Event) /\ t \in Seq(Event)
      BY <2>1
    <3> HIDE DEF s, t
    <3>2. /\ s \o t \in Seq(Event) /\ Len(s) <= Len(s \o t)
          /\ \A i \in 1 .. Len(s) : (s \o t)[i] = s[i]
      BY <3>1, Prefix
    <3> QED BY <2>3, <3>2 DEF s, t
  <2> QED BY <1>2, <1>5, <2>2, <2>3
<1> QED BY <1>1, <1>3, <1>4, <1>5

(* A log that is out of order stays so.                                    *)
LEMMA OutOfOrderForGood ==
    ASSUME Inv, [Next]_vars, NEW o \in Orgs, InOrder(log'[o])
    PROVE  InOrder(log[o])
BY LogsGrow DEF InOrder

(* The newest events of a log that is in order are its last ones.          *)
LEMMA PageOfOrdered ==
    ASSUME NEW o, log[o] \in Seq(Event), InOrder(log[o]),
           NEW count \in Nat, count <= Len(log[o])
    PROVE  /\ OldestFirst(o, count) \in [1 .. count -> Event]
           /\ Len(OldestFirst(o, count)) = count
           /\ \A i \in 1 .. count :
                 OldestFirst(o, count)[i] = log[o][Len(log[o]) - count + i]
<1> DEFINE n == Len(log[o])
           all == {log[o][i] : i \in 1 .. n}
           FromEnd(i) == log[o][n - i + 1]
           Sorted(page) == \A i, j \in 1 .. count : i < j => page[i].ts > page[j].ts
           Full(page) == \A e \in all : \/ \E i \in 1 .. count : page[i] = e
                                        \/ \A i \in 1 .. count : page[i].ts > e.ts
           page == NewestFirst(o, count)
<1>1. /\ n \in Nat /\ \A i \in 1 .. n : log[o][i].ts \in Nat
      /\ \A i, j \in 1 .. n : i < j => log[o][i].ts < log[o][j].ts
  BY EventsTyped DEF InOrder
<1>2. page \in [1 .. count -> all] /\ Sorted(page) /\ Full(page)
  <2> DEFINE last == [i \in 1 .. count |-> FromEnd(i)]
  <2>1. last \in [1 .. count -> all]
    BY <1>1
  <2>2. Sorted(last)
    BY <1>1
  <2>3. ASSUME NEW k \in 1 .. n
        PROVE  \/ \E i \in 1 .. count : last[i] = log[o][k]
               \/ \A i \in 1 .. count : last[i].ts > log[o][k].ts
    <3>1. CASE n - k + 1 <= count
      <4>1. n - k + 1 \in 1 .. count /\ n - (n - k + 1) + 1 = k
        BY <1>1, <3>1
      <4>2. last[n - k + 1] = log[o][n - (n - k + 1) + 1]
        BY <4>1
      <4> QED BY <4>1, <4>2
    <3>2. CASE n - k + 1 > count
      <4>1. \A i \in 1 .. count : k < n - i + 1 /\ n - i + 1 \in 1 .. n
        BY <1>1, <3>2
      <4> QED BY <1>1, <4>1
    <3> QED BY <1>1, <3>1, <3>2
  <2>4. Full(last)
    BY <2>3
  <2>5. page = CHOOSE x \in [1 .. count -> all] : Sorted(x) /\ Full(x)
    BY DEF NewestFirst
  <2> HIDE DEF page, last, all, Sorted, Full
  <2> QED BY <2>1, <2>2, <2>4, <2>5
<1>3. \A i \in 1 .. count : page[i] = FromEnd(i)
  <2> DEFINE Wrong == {i \in 1 .. count : page[i] # FromEnd(i)}
  <2>1. SUFFICES ASSUME Wrong # {} PROVE FALSE
    OBVIOUS
  <2>2. Wrong \subseteq Nat
    OBVIOUS
  <2> HIDE DEF page
  <2>3. PICK i \in Wrong : \A j \in Wrong : i <= j
    BY <2>1, <2>2, LeastNumber
  <2>4. i \in 1 .. count /\ page[i] # FromEnd(i) /\ \A j \in 1 .. i - 1 : page[j] = FromEnd(j)
    BY <2>3
  <2>5. PICK k \in 1 .. n : page[i] = log[o][k]
    BY <1>2, <2>4
  <2>6. k < n - i + 1 /\ n - i + 1 \in 1 .. n
    <3>1. n - i + 1 \in 1 .. n /\ k # n - i + 1
      BY <1>1, <2>4, <2>5
    <3>2. CASE i = 1
      BY <1>1, <3>1, <3>2
    <3>3. CASE i > 1
      <4>1. page[i - 1].ts > page[i].ts /\ page[i - 1] = log[o][n - i + 2]
        BY <1>1, <1>2, <2>4, <3>3
      <4>2. log[o][n - i + 2].ts > log[o][k].ts /\ n - i + 2 \in 1 .. n
        BY <1>1, <2>4, <2>5, <3>3, <4>1
      <4>3. ~(n - i + 2 < k) /\ n - i + 2 # k
        BY <1>1, <4>2
      <4>4. i \in Nat /\ k \in Nat /\ n \in Nat
        BY <1>1, <2>4, <2>5
      <4>5. k # n - i + 1 /\ n - i + 1 \in 1 .. n
        BY <3>1
      <4> HIDE DEF n
      <4> QED BY <4>3, <4>4, <4>5
    <3>4. i \in Nat /\ i >= 1
      BY <2>4
    <3>5. i = 1 \/ i > 1
      BY <3>4
    <3> QED BY <3>2, <3>3, <3>5
  <2> DEFINE e == log[o][n - i + 1]
  <2>7. e \in all /\ e.ts > page[i].ts /\ e.ts \in Nat /\ page[i].ts \in Nat
    BY <1>1, <2>5, <2>6
  <2>8. PICK m \in 1 .. count : page[m] = e
    <3>1. \/ \E m \in 1 .. count : page[m] = e
          \/ \A m \in 1 .. count : page[m].ts > e.ts
      BY <1>2, <2>7
    <3>2. ~(page[i].ts > e.ts)
      BY <2>7
    <3> QED BY <2>4, <3>1, <3>2
  <2>9. CASE m < i
    <3>1. page[m] = log[o][n - m + 1] /\ n - m + 1 \in 1 .. n /\ n - i + 1 < n - m + 1
      <4>1. page[m] = FromEnd(m) /\ m \in 1 .. count /\ i \in 1 .. count
        BY <2>4, <2>9
      <4>2. n \in Nat /\ count <= n
        BY <1>1
      <4> HIDE DEF n
      <4>3. n - m + 1 \in 1 .. n /\ n - i + 1 < n - m + 1
        BY <2>9, <4>1, <4>2
      <4> QED BY <4>1, <4>3
    <3>2. log[o][n - i + 1].ts < log[o][n - m + 1].ts
      BY <1>1, <2>6, <3>1
    <3> QED BY <2>7, <2>8, <3>1, <3>2
  <2>10. CASE m = i
    BY <2>7, <2>8, <2>10
  <2>11. CASE m > i
    <3>1. page[i].ts > page[m].ts
      BY <1>2, <2>4, <2>11
    <3> QED BY <2>7, <2>8, <3>1
  <2> QED BY <2>4, <2>9, <2>10, <2>11
<1>4. Len(page) = count /\ page \in [1 .. count -> Event]
  <2>1. all \subseteq Event
    OBVIOUS
  <2> HIDE DEF page, all
  <2>2. page \in [1 .. count -> Event]
    BY <1>2, <2>1
  <2>3. page \in Seq(Event)
    BY <2>2
  <2> QED BY <2>2, <2>3
<1>5. OldestFirst(o, count) = [i \in 1 .. count |-> page[count - i + 1]]
  BY <1>4 DEF OldestFirst, Reverse
<1>6. ASSUME NEW i \in 1 .. count
      PROVE  OldestFirst(o, count)[i] = log[o][n - count + i]
  <2>1. count - i + 1 \in 1 .. count /\ n - (count - i + 1) + 1 = n - count + i
    <3>1. n \in Nat /\ count \in Nat
      BY <1>1
    <3> HIDE DEF n
    <3> QED BY <3>1
  <2> HIDE DEF page
  <2> QED BY <1>3, <1>5, <2>1
<1>7. OldestFirst(o, count) \in [1 .. count -> Event]
  BY <1>4, <1>5
<1> QED BY <1>6, <1>7

(* The pass finds nothing wrong with a log that is in order.               *)
LEMMA OrderedLogVerifies ==
    ASSUME Inv, NEW o \in Orgs, InOrder(log[o]),
           NEW count \in Nat, count <= Len(log[o])
    PROVE  VerifyChain(OldestFirst(o, count))
<1> DEFINE page == OldestFirst(o, count)
           n == Len(log[o])
<1>1. log[o] \in Seq(Event) /\ n \in Nat
  BY DEF Inv, LogTypeOK
<1>2. Len(page) = count /\ \A i \in 1 .. count : page[i] = log[o][n - count + i]
  BY <1>1, PageOfOrdered
<1>3. \A i \in 2 .. n : log[o][i].prev = log[o][i - 1].ts
  BY InvChains DEF ChainedWhenInOrder
<1> HIDE DEF page
<1>4. ASSUME NEW i \in 2 .. count PROVE page[i].prev = page[i - 1].ts
  <2>1. /\ n - count + i \in 2 .. n /\ i \in 1 .. count /\ i - 1 \in 1 .. count
        /\ n - count + (i - 1) = (n - count + i) - 1
    BY <1>1
  <2>2. page[i] = log[o][n - count + i] /\ page[i - 1] = log[o][n - count + (i - 1)]
    BY <1>2, <2>1
  <2> QED BY <1>3, <2>1, <2>2
<1> QED BY <1>2, <1>4 DEF VerifyChain, page

LEMMA VerifierInit == Init => VerifierOK
BY DEF Init, NoPass, VerifierOK, VerifierType, NoFalseAlarm

LEMMA VerifierStep == Inv /\ VerifierOK /\ [Next]_vars => VerifierOK'
<1> SUFFICES ASSUME Inv, VerifierOK, [Next]_vars PROVE VerifierOK'
  OBVIOUS
<1>1. NoFalseAlarm /\ verifier'.failed = verifier.failed => NoFalseAlarm'
  BY OutOfOrderForGood DEF NoFalseAlarm
<1>2. CASE StartPass
  <2>1. verifier' \in VerifierType /\ verifier'.pc = "counting" /\ verifier'.failed = FALSE
    BY <1>2 DEF StartPass, NoPass, AllOrganizationIDs, VerifierType
  <2> QED BY <2>1 DEF VerifierOK, NoFalseAlarm
<1>3. CASE CountEvents
  <2>1. OrgOrder[Turn] \in Orgs /\ log[OrgOrder[Turn]] \in Seq(Event)
    BY <1>3, TurnIsDue DEF CountEvents, VerifierOK, Inv, LogTypeOK
  <2> DEFINE n == Len(log[OrgOrder[Turn]])
  <2>2. /\ verifier' \in VerifierType /\ verifier'.failed = verifier.failed
        /\ verifier'.todo = verifier.todo /\ verifier'.count = n
    <3>1. n \in Nat
      BY <2>1
    <3>2. verifier \in VerifierType /\ verifier' = [verifier EXCEPT !.pc = "reading", !.count = n]
      BY <1>3 DEF CountEvents, VerifierOK
    <3> HIDE DEF n
    <3> QED BY <3>1, <3>2 DEF VerifierType
  <2>3. Turn' = Turn /\ log' = log
    BY <1>3, <2>2 DEF CountEvents, Turn
  <2> QED BY <1>1, <1>3, <2>1, <2>2, <2>3 DEF CountEvents, VerifierOK
<1>4. CASE VerifyEvents
  <2> DEFINE page == OldestFirst(OrgOrder[Turn], verifier.count)
  <2>1. /\ OrgOrder[Turn] \in Orgs /\ verifier.count \in Nat
        /\ verifier.count <= Len(log[OrgOrder[Turn]])
    BY <1>4, TurnIsDue DEF VerifyEvents, VerifierOK, VerifierType
  <2>2. CASE VerifyChain(page)
    <3>1. verifier' = [verifier EXCEPT !.pc = "counting", !.todo = @ \ {Turn}]
      BY <1>4, <2>2 DEF VerifyEvents
    <3>2. /\ verifier' \in VerifierType /\ verifier'.failed = verifier.failed
          /\ verifier'.pc = "counting"
      BY <3>1 DEF VerifierOK, VerifierType
    <3> QED BY <1>1, <3>2 DEF VerifierOK
  <2>3. CASE ~VerifyChain(page)
    <3>1. verifier' = [verifier EXCEPT !.pc = "done", !.failed = TRUE] /\ log' = log
      BY <1>4, <2>3 DEF VerifyEvents
    <3>2. verifier' \in VerifierType /\ verifier'.pc = "done"
      BY <3>1 DEF VerifierOK, VerifierType
    <3>3. ~InOrder(log[OrgOrder[Turn]])
      BY <2>1, <2>3, OrderedLogVerifies
    <3>4. \E o \in Orgs : ~InOrder(log'[o])
      BY <2>1, <3>1, <3>3
    <3> QED BY <3>2, <3>4 DEF VerifierOK, NoFalseAlarm
  <2> QED BY <2>2, <2>3
<1>5. CASE EndPass
  <2>1. /\ verifier' \in VerifierType /\ verifier'.failed = verifier.failed
        /\ verifier'.pc = "done"
    BY <1>5 DEF EndPass, VerifierOK, VerifierType
  <2> QED BY <1>1, <2>1 DEF VerifierOK
<1>6. CASE UNCHANGED verifier
  <2>1. verifier.pc = "reading" =>
            OrgOrder[Turn] \in Orgs /\ Len(log[OrgOrder[Turn]]) <= Len(log'[OrgOrder[Turn]])
            /\ Len(log[OrgOrder[Turn]]) \in Nat /\ Len(log'[OrgOrder[Turn]]) \in Nat
            /\ verifier.count \in Nat
    BY TurnIsDue, LogsGrow DEF VerifierOK, VerifierType
  <2>2. Turn' = Turn
    BY <1>6 DEF Turn
  <2> QED BY <1>1, <1>6, <2>1, <2>2 DEF VerifierOK
<1> QED BY <1>2, <1>3, <1>4, <1>5, <1>6
        DEF Next, vars, Stamp, Tx, Write, Commit, Rollback, Verify

LEMMA VerifierInvariance == Spec => []VerifierOK
BY VerifierInit, VerifierStep, Invariance, PTL DEF Spec

(* Every row, every transaction and the pass keep their types.             *)
THEOREM TypeCorrect == Spec => []TypeOK
<1>1. Inv /\ VerifierOK => TypeOK
  BY DEF Inv, LogTypeOK, VerifierOK, VerifierType, TypeOK
<1> QED BY <1>1, Invariance, VerifierInvariance, PTL

(* The pass counts the events of an organization and reads the newest of   *)
(* them in another query, with writers in between and after it; it reports *)
(* nothing unless the log of an organization was really forked by an event *)
(* that overtook another.                                                  *)
THEOREM NeverAFalseAlarm == Spec => []NoFalseAlarm
<1>1. VerifierOK => NoFalseAlarm
  BY DEF VerifierOK
<1> QED BY <1>1, VerifierInvariance, PTL

-----------------------------------------------------------------------------
(* Recursion and induction along a sequence.                               *)

(* A set that has 0, and n whenever it has n - 1, has every number.        *)
LEMMA UpTo ==
    ASSUME NEW N \in Nat, NEW T, 0 \in T, \A n \in 1 .. N : n - 1 \in T => n \in T
    PROVE  0 .. N \subseteq T
<1> SUFFICES ASSUME (0 .. N) \ T # {} PROVE FALSE
  OBVIOUS
<1>1. PICK n \in (0 .. N) \ T : \A m \in (0 .. N) \ T : n <= m
  <2>1. (0 .. N) \ T \subseteq Nat
    OBVIOUS
  <2> QED BY <2>1, LeastNumber
<1>2. n \in 1 .. N /\ n - 1 \in 0 .. N /\ n - 1 < n
  BY <1>1
<1>3. n - 1 \in T
  BY <1>1, <1>2
<1> QED BY <1>1, <1>2, <1>3

(* Steps can be taken one after another.                                   *)
HasRun(N, S, b, step) ==
    \E g \in [0 .. N -> S] : g[0] = b /\ \A n \in 1 .. N : g[n] = step[n][g[n - 1]]

LEMMA RunExists ==
    ASSUME NEW N \in Nat, NEW S, NEW b \in S, NEW step \in [1 .. N -> [S -> S]]
    PROVE  HasRun(N, S, b, step)
<1> DEFINE Run(g, k) == /\ g \in [0 .. k -> S] /\ g[0] = b
                        /\ \A n \in 1 .. k : g[n] = step[n][g[n - 1]]
           T == {k \in 0 .. N : \E g : Run(g, k)}
<1>1. 0 \in T
  <2> DEFINE g0 == [i \in 0 .. 0 |-> b]
  <2>1. g0 \in [0 .. 0 -> S] /\ g0[0] = b
    OBVIOUS
  <2> HIDE DEF g0
  <2>2. Run(g0, 0)
    BY <2>1
  <2>3. \E g : Run(g, 0)
    BY <2>2
  <2> QED BY <2>3
<1>2. ASSUME NEW k \in 1 .. N, k - 1 \in T PROVE k \in T
  <2>1. PICK g : Run(g, k - 1)
    BY <1>2
  <2> DEFINE h == [i \in 0 .. k |-> IF i = k THEN step[k][g[k - 1]] ELSE g[i]]
  <2>2. h \in [0 .. k -> S]
    BY <2>1
  <2>3. \A i \in 0 .. k - 1 : h[i] = g[i]
    OBVIOUS
  <2>4. h[k] = step[k][g[k - 1]]
    OBVIOUS
  <2> HIDE DEF h
  <2>5. ASSUME NEW n \in 1 .. k PROVE h[n] = step[n][h[n - 1]]
    <3>1. CASE n = k
      BY <2>3, <2>4, <3>1
    <3>2. CASE n \in 1 .. k - 1
      BY <2>1, <2>3, <3>2
    <3> QED BY <3>1, <3>2
  <2> QED BY <2>1, <2>2, <2>3, <2>5
<1> HIDE DEF T
<1>3. 0 .. N \subseteq T
  BY <1>1, <1>2, UpTo
<1> QED BY <1>3 DEF T, HasRun

(* What FlattenSeq puts in a row it has from one of the sequences.         *)
LEMMA Flattened ==
    ASSUME NEW S, NEW seqs \in Seq(Seq(S))
    PROVE  FlattenSeq(seqs) \in Seq(S)
<1> DEFINE N == Len(seqs)
<1>0. N \in Nat /\ \A i \in 1 .. N : seqs[i] \in Seq(S)
  OBVIOUS
<1>1. CASE N = 0
  BY <1>1 DEF FlattenSeq
<1>3. N # 0 => FlattenSeq(seqs) =
      LET flatten[i \in 1 .. N] == IF i = 1 THEN seqs[i] ELSE flatten[i - 1] \o seqs[i]
      IN  flatten[N]
  BY DEF FlattenSeq
<1> HIDE DEF N
<1>2. CASE N # 0
  <2> DEFINE flatten[i \in 1 .. N] == IF i = 1 THEN seqs[i] ELSE flatten[i - 1] \o seqs[i]
             step == [n \in 1 .. N - 1 |-> [x \in Seq(S) |-> x \o seqs[n + 1]]]
  <2>1. /\ N \in Nat /\ N - 1 \in Nat /\ 1 \in 1 .. N
        /\ \A i \in 1 .. N : seqs[i] \in Seq(S)
    BY <1>0, <1>2
  <2>2. step \in [1 .. N - 1 -> [Seq(S) -> Seq(S)]]
    BY <2>1
  <2>3. PICK g \in [0 .. N - 1 -> Seq(S)] :
            g[0] = seqs[1] /\ \A n \in 1 .. N - 1 : g[n] = step[n][g[n - 1]]
    <3>1. seqs[1] \in Seq(S)
      BY <1>2, <2>1
    <3> HIDE DEF step
    <3>2. HasRun(N - 1, Seq(S), seqs[1], step)
      BY <2>1, <2>2, <3>1, RunExists
    <3> QED BY <3>2 DEF HasRun
  <2> DEFINE h == [i \in 1 .. N |-> g[i - 1]]
  <2>4. h = [i \in 1 .. N |-> IF i = 1 THEN seqs[i] ELSE h[i - 1] \o seqs[i]]
    <3> SUFFICES ASSUME NEW i \in 1 .. N
                 PROVE  h[i] = IF i = 1 THEN seqs[i] ELSE h[i - 1] \o seqs[i]
      BY Zenon
    <3>1. CASE i = 1
      BY <2>3, <3>1
    <3>2. CASE i # 1
      <4>1. i - 1 \in 1 .. N - 1 /\ i - 1 \in 1 .. N /\ (i - 1) - 1 \in 0 .. N - 1
        BY <2>1, <3>2
      <4>2. h[i] = g[i - 1] /\ h[i - 1] = g[(i - 1) - 1]
        BY <4>1
      <4>3. g[(i - 1) - 1] \in Seq(S)
        <5> HIDE DEF step
        <5> QED BY <2>3, <4>1
      <4>6. (i - 1) + 1 = i
        BY <2>1
      <4>4. \A x \in Seq(S) : step[i - 1][x] = x \o seqs[(i - 1) + 1]
        BY <4>1
      <4>5. g[i - 1] = step[i - 1][g[(i - 1) - 1]]
        BY <2>3, <4>1
      <4> HIDE DEF step, h
      <4> QED BY <3>2, <4>2, <4>3, <4>4, <4>5, <4>6
    <3> QED BY <3>1, <3>2
  <2>5. flatten = [i \in 1 .. N |-> IF i = 1 THEN seqs[i] ELSE flatten[i - 1] \o seqs[i]]
    <3> HIDE DEF h
    <3> SUFFICES \E f : f = [i \in 1 .. N |-> IF i = 1 THEN seqs[i] ELSE f[i - 1] \o seqs[i]]
      OBVIOUS
    <3> QED BY <2>4
  <2>6. FlattenSeq(seqs) = flatten[N]
    BY <1>2, <1>3
  <2> HIDE DEF flatten
  <2> DEFINE T == {0} \cup {i \in 1 .. N : flatten[i] \in Seq(S)}
  <2>7. ASSUME NEW i \in 1 .. N, i - 1 \in T PROVE i \in T
    <3>1. CASE i = 1
      BY <2>1, <2>5, <3>1
    <3>2. CASE i # 1
      <4>1. flatten[i - 1] \in Seq(S)
        BY <2>1, <2>7, <3>2
      <4>2. flatten[i] = flatten[i - 1] \o seqs[i]
        BY <2>5, <3>2
      <4>3. \A x, y \in Seq(S) : x \o y \in Seq(S)
        OBVIOUS
      <4>4. flatten[i] \in Seq(S)
        BY <2>1, <4>1, <4>2, <4>3
      <4> QED BY <4>4
    <3> QED BY <3>1, <3>2
  <2>8. 0 .. N \subseteq T
    <3> HIDE DEF T
    <3>1. 0 \in T
      BY DEF T
    <3> QED BY <1>0, <2>7, <3>1, UpTo
  <2>9. N \in T
    BY <1>0, <2>8
  <2> QED BY <1>2, <2>6, <2>9
<1> QED BY <1>0, <1>1, <1>2

-----------------------------------------------------------------------------
(* Facts and their tokens.                                                 *)

Unverified ==
    {"SOURCE_FACT", "FORM_SUBMISSION", "RULE_RESULT", "WORKFLOW_HISTORY",
     "HUMAN_DECISION", "AI_OBSERVATION"}

Fact ==
    [section : {"case", "person", "evidence", "document", "form_submission",
                "rule_evaluation", "workflow_instance", "workflow_history",
                "decision", "ai_observation"},
     row : DOMAIN Cost, provenance : Unverified \cup {"HUMAN_VERIFIED"}]

FactsSummed(facts, sum) ==
    /\ sum \in [0 .. Len(facts) -> Nat] /\ sum[0] = 0
    /\ \A n \in 1 .. Len(facts) : sum[n] = sum[n - 1] + Cost[facts[n].row]

LEMMA CostOfFact ==
    ASSUME NEW facts \in Seq(Fact), NEW n \in 1 .. Len(facts)
    PROVE  Cost[facts[n].row] \in Nat
<1>1. facts[n] \in Fact
  OBVIOUS
<1> QED BY <1>1, RowsHaveFacts DEF Fact

(* Tokens is the last of the running sums of the costs.                    *)
LEMMA TokensSum ==
    ASSUME NEW facts \in Seq(Fact)
    PROVE  \E sum : FactsSummed(facts, sum) /\ Tokens(facts) = sum[Len(facts)]
<1> DEFINE N == Len(facts)
           C(n) == Cost[facts[n].row]
           sum[n \in 0 .. N] == IF n = 0 THEN 0 ELSE sum[n - 1] + C(n)
           step == [n \in 1 .. N |-> [x \in Nat |-> x + C(n)]]
<1>1. N \in Nat /\ \A n \in 1 .. N : C(n) \in Nat
  BY CostOfFact
<1>2. Tokens(facts) = sum[N]
  BY DEF Tokens
<1>6. FactsSummed(facts, sum) <=>
          sum \in [0 .. N -> Nat] /\ sum[0] = 0 /\ \A n \in 1 .. N : sum[n] = sum[n - 1] + C(n)
  <2> HIDE DEF sum
  <2> QED BY DEF FactsSummed
<1> HIDE DEF N, C
<1>3. PICK g \in [0 .. N -> Nat] : g[0] = 0 /\ \A n \in 1 .. N : g[n] = step[n][g[n - 1]]
  <2>1. step \in [1 .. N -> [Nat -> Nat]]
    BY <1>1
  <2> HIDE DEF step
  <2>2. HasRun(N, Nat, 0, step)
    BY <1>1, <2>1, RunExists
  <2> QED BY <2>2 DEF HasRun
<1>4. g = [n \in 0 .. N |-> IF n = 0 THEN 0 ELSE g[n - 1] + C(n)]
  <2> SUFFICES ASSUME NEW n \in 0 .. N PROVE g[n] = IF n = 0 THEN 0 ELSE g[n - 1] + C(n)
    OBVIOUS
  <2>1. CASE n = 0
    BY <1>3, <2>1
  <2>2. CASE n # 0
    <3>1. n \in 1 .. N /\ n - 1 \in 0 .. N
      BY <1>1, <2>2
    <3>2. g[n - 1] \in Nat
      <4> HIDE DEF step
      <4> QED BY <1>3, <3>1
    <3>3. \A x \in Nat : step[n][x] = x + C(n)
      BY <3>1
    <3>4. g[n] = step[n][g[n - 1]]
      BY <1>3, <3>1
    <3> HIDE DEF step
    <3> QED BY <2>2, <3>2, <3>3, <3>4
  <2> QED BY <2>1, <2>2
<1>5. sum = [n \in 0 .. N |-> IF n = 0 THEN 0 ELSE sum[n - 1] + C(n)]
  <2> SUFFICES \E f : f = [n \in 0 .. N |-> IF n = 0 THEN 0 ELSE f[n - 1] + C(n)]
    OBVIOUS
  <2> QED BY <1>4
<1> HIDE DEF sum
<1>7. 0 .. N \subseteq {n \in 0 .. N : sum[n] \in Nat}
  <2> DEFINE T == {n \in 0 .. N : sum[n] \in Nat}
  <2>1. 0 \in T
    BY <1>1, <1>5
  <2>2. ASSUME NEW n \in 1 .. N, n - 1 \in T PROVE n \in T
    <3>1. sum[n] = sum[n - 1] + C(n) /\ sum[n - 1] \in Nat
      BY <1>1, <1>5, <2>2
    <3> QED BY <1>1, <3>1
  <2> HIDE DEF T
  <2>3. 0 .. N \subseteq T
    BY <1>1, <2>1, <2>2, UpTo
  <2> QED BY <2>3 DEF T
<1>8. sum \in [0 .. N -> Nat]
  BY <1>5, <1>7
<1>9. sum[0] = 0 /\ \A n \in 1 .. N : sum[n] = sum[n - 1] + C(n)
  BY <1>1, <1>5
<1> QED BY <1>2, <1>6, <1>8, <1>9 DEF N

LEMMA NoTokens == Tokens(<<>>) = 0
<1>1. PICK sum : FactsSummed(<<>>, sum) /\ Tokens(<<>>) = sum[Len(<<>>)]
  <2>1. <<>> \in Seq(Fact)
    OBVIOUS
  <2> QED BY <2>1, TokensSum
<1> QED BY <1>1 DEF FactsSummed

(* One more fact, as many more tokens.                                     *)
LEMMA TokensOfAppend ==
    ASSUME NEW facts \in Seq(Fact), NEW f \in Fact
    PROVE  /\ Tokens(facts) \in Nat
           /\ Tokens(Append(facts, f)) = Tokens(facts) + Cost[f.row]
<1> DEFINE N == Len(facts)
           more == Append(facts, f)
<1>1. /\ N \in Nat /\ more \in Seq(Fact) /\ Len(more) = N + 1 /\ more[N + 1] = f
      /\ \A n \in 1 .. N : more[n] = facts[n]
  OBVIOUS
<1>2. PICK a : FactsSummed(facts, a) /\ Tokens(facts) = a[N]
  BY TokensSum
<1> HIDE DEF more
<1>3. PICK c : FactsSummed(more, c) /\ Tokens(more) = c[N + 1]
  BY <1>1, TokensSum
<1>4. /\ a \in [0 .. N -> Nat] /\ a[0] = 0
      /\ \A n \in 1 .. N : a[n] = a[n - 1] + Cost[facts[n].row]
  BY <1>2 DEF FactsSummed
<1>5. /\ c[0] = 0
      /\ \A n \in 1 .. N : c[n] = c[n - 1] + Cost[facts[n].row]
      /\ c[N + 1] = c[(N + 1) - 1] + Cost[f.row]
  <2> HIDE DEF N
  <2>1. /\ c[0] = 0
        /\ \A n \in 1 .. N + 1 : c[n] = c[n - 1] + Cost[more[n].row]
    BY <1>1, <1>3 DEF FactsSummed
  <2>2. N + 1 \in 1 .. N + 1 /\ \A n \in 1 .. N : n \in 1 .. N + 1
    BY <1>1
  <2> QED BY <1>1, <2>1, <2>2
<1> HIDE DEF N
<1>6. 0 .. N \subseteq {n \in 0 .. N : a[n] = c[n]}
  <2> DEFINE T == {n \in 0 .. N : a[n] = c[n]}
  <2>1. 0 \in T
    BY <1>1, <1>4, <1>5
  <2>2. ASSUME NEW n \in 1 .. N, n - 1 \in T PROVE n \in T
    BY <1>1, <1>4, <1>5, <2>2
  <2> HIDE DEF T
  <2>3. 0 .. N \subseteq T
    BY <1>1, <2>1, <2>2, UpTo
  <2> QED BY <2>3 DEF T
<1>7. a[N] = c[N] /\ a[N] \in Nat /\ (N + 1) - 1 = N
  BY <1>1, <1>4, <1>6
<1> QED BY <1>2, <1>3, <1>5, <1>7 DEF more

-----------------------------------------------------------------------------
(* Builders.                                                               *)

(* What a builder of facts of G is between two of them.                    *)
Builder(G) ==
    {b \in [facts : Seq(G), tokens : Nat, full : BOOLEAN, options : Options] :
        /\ b.options.maxFacts > 0 /\ b.options.maxTokens > 0
        /\ Len(b.facts) <= b.options.maxFacts
        /\ b.tokens = Tokens(b.facts) /\ b.tokens <= b.options.maxTokens}

LEMMA StartsEmpty ==
    ASSUME NEW G, NEW o \in Options
    PROVE  NewContextBuilder(o) \in Builder(G)
<1> DEFINE b == NewContextBuilder(o)
           some == [o EXCEPT !.maxFacts = Budget(o.maxFacts, DefaultFacts),
                             !.maxTokens = Budget(o.maxTokens, DefaultTokens)]
<1>1. some \in Options /\ some.maxFacts > 0 /\ some.maxTokens > 0
  <2>1. /\ Budget(o.maxFacts, DefaultFacts) \in Int /\ Budget(o.maxFacts, DefaultFacts) > 0
        /\ Budget(o.maxTokens, DefaultTokens) \in Int /\ Budget(o.maxTokens, DefaultTokens) > 0
    BY BudgetsArePositive DEF Options, Budget
  <2> QED BY <2>1 DEF Options
<1>2. b = [facts |-> <<>>, tokens |-> 0, full |-> FALSE, options |-> some]
  <2>1. b = [EmptyBuilder EXCEPT !.options = some]
    BY Zenon DEF NewContextBuilder
  <2> HIDE DEF some, b
  <2> QED BY <2>1 DEF EmptyBuilder
<1> HIDE DEF b, some
<1>3. /\ b \in [facts : Seq(G), tokens : Nat, full : BOOLEAN, options : Options]
      /\ b.options = some /\ b.tokens = 0 /\ b.facts = <<>>
  BY <1>1, <1>2
<1>4. Len(b.facts) = 0 /\ some.maxFacts \in Int /\ some.maxTokens \in Int
  BY <1>1, <1>3 DEF Options
<1>5. b \in Builder(G)
  BY <1>1, <1>3, <1>4, NoTokens DEF Builder
<1> QED BY <1>5 DEF b

LEMMA AddFactKeeps ==
    ASSUME NEW G, G \subseteq Fact, NEW b \in Builder(G), NEW f \in G
    PROVE  AddFact(b, f) \in Builder(G)
<1>1. /\ b \in [facts : Seq(G), tokens : Nat, full : BOOLEAN, options : Options]
      /\ b.options.maxFacts > 0 /\ b.options.maxTokens > 0
      /\ Len(b.facts) <= b.options.maxFacts
      /\ b.tokens = Tokens(b.facts) /\ b.tokens <= b.options.maxTokens
  BY DEF Builder
<1>2. /\ b.facts \in Seq(G) /\ b.facts \in Seq(Fact) /\ f \in Fact /\ Cost[f.row] \in Nat
      /\ b.options.maxFacts \in Int /\ b.options.maxTokens \in Int
  <2>1. b.facts \in Seq(G) /\ b.options \in Options /\ f \in Fact
    BY <1>1
  <2>2. Cost[f.row] \in Nat
    BY <2>1, RowsHaveFacts DEF Fact
  <2> QED BY <2>1, <2>2 DEF Options
<1>3. CASE AddFact(b, f) = [b EXCEPT !.full = TRUE]
  <2> DEFINE c == [b EXCEPT !.full = TRUE]
  <2>1. /\ c \in [facts : Seq(G), tokens : Nat, full : BOOLEAN, options : Options]
        /\ c.facts = b.facts /\ c.tokens = b.tokens /\ c.options = b.options
    BY <1>1
  <2> HIDE DEF c
  <2>2. c \in Builder(G)
    BY <1>1, <2>1 DEF Builder
  <2> QED BY <1>3, <2>2 DEF c
<1>4. CASE /\ ~(Len(b.facts) >= b.options.maxFacts)
           /\ ~(b.tokens + Cost[f.row] > b.options.maxTokens)
  <2> DEFINE c == [b EXCEPT !.facts = Append(@, f), !.tokens = @ + Cost[f.row]]
  <2>1. /\ c \in [facts : Seq(G), tokens : Nat, full : BOOLEAN, options : Options]
        /\ c.facts = Append(b.facts, f) /\ c.tokens = b.tokens + Cost[f.row]
        /\ c.options = b.options
    <3>1. Append(b.facts, f) \in Seq(G) /\ b.tokens + Cost[f.row] \in Nat
      BY <1>1, <1>2
    <3>2. c = [facts |-> Append(b.facts, f), tokens |-> b.tokens + Cost[f.row],
               full |-> b.full, options |-> b.options]
      <4>1. PICK more : more = Append(b.facts, f)
        OBVIOUS
      <4>2. PICK used : used = b.tokens + Cost[f.row]
        OBVIOUS
      <4>3. c = [b EXCEPT !.facts = more, !.tokens = used]
        BY <4>1, <4>2, Zenon
      <4> HIDE DEF c
      <4>4. c = [facts |-> more, tokens |-> used, full |-> b.full, options |-> b.options]
        BY <1>1, <4>3
      <4> QED BY <4>1, <4>2, <4>4
    <3> HIDE DEF c
    <3> QED BY <1>1, <3>1, <3>2
  <2>2. Len(Append(b.facts, f)) = Len(b.facts) + 1 /\ Len(b.facts) \in Nat
    BY <1>2
  <2>3. Tokens(Append(b.facts, f)) = b.tokens + Cost[f.row]
    BY <1>1, <1>2, TokensOfAppend
  <2>4. AddFact(b, f) = c
    BY <1>4 DEF AddFact
  <2> HIDE DEF c
  <2>5. Len(c.facts) <= c.options.maxFacts /\ c.tokens <= c.options.maxTokens
    BY <1>1, <1>2, <1>4, <2>1, <2>2
  <2>6. c \in Builder(G)
    BY <1>1, <2>1, <2>3, <2>5 DEF Builder
  <2> QED BY <2>4, <2>6
<1> QED BY <1>3, <1>4 DEF AddFact

(* Adding facts one after another keeps a builder of such facts.           *)
LEMMA AddFactsKeeps ==
    ASSUME NEW G, G \subseteq Fact, NEW b \in Builder(G), NEW facts \in Seq(G)
    PROVE  AddFacts(b, facts) \in Builder(G)
<1> DEFINE N == Len(facts)
           B == Builder(G)
           b0 == [b EXCEPT !.full = FALSE]
           add(x, n) == IF x.full THEN x ELSE AddFact(x, facts[n])
           added[n \in 0 .. N] ==
               IF n = 0 THEN b0
               ELSE IF added[n - 1].full THEN added[n - 1]
               ELSE AddFact(added[n - 1], facts[n])
           step == [n \in 1 .. N |-> [x \in B |-> add(x, n)]]
<1>1. N \in Nat /\ \A n \in 1 .. N : facts[n] \in G
  OBVIOUS
<1>2. AddFacts(b, facts) = added[N]
  BY DEF AddFacts
<1>3. b0 \in B
  <2>1. /\ b \in [facts : Seq(G), tokens : Nat, full : BOOLEAN, options : Options]
        /\ b.options.maxFacts > 0 /\ b.options.maxTokens > 0
        /\ Len(b.facts) <= b.options.maxFacts
        /\ b.tokens = Tokens(b.facts) /\ b.tokens <= b.options.maxTokens
    BY DEF Builder
  <2>2. /\ b0 \in [facts : Seq(G), tokens : Nat, full : BOOLEAN, options : Options]
        /\ b0.facts = b.facts /\ b0.tokens = b.tokens /\ b0.options = b.options
    BY <2>1
  <2> HIDE DEF b0
  <2> QED BY <2>1, <2>2 DEF Builder
<1>4. \A n \in 1 .. N, x \in B : add(x, n) \in B
  <2> HIDE DEF N
  <2> QED BY <1>1, AddFactKeeps
<1> HIDE DEF N, B, b0
<1>5. step \in [1 .. N -> [B -> B]]
  <2> HIDE DEF add
  <2> QED BY <1>4
<1>6. PICK g \in [0 .. N -> B] : g[0] = b0 /\ \A n \in 1 .. N : g[n] = step[n][g[n - 1]]
  <2> HIDE DEF step
  <2>1. HasRun(N, B, b0, step)
    BY <1>1, <1>3, <1>5, RunExists
  <2> QED BY <2>1 DEF HasRun
<1>7. g = [n \in 0 .. N |->
              IF n = 0 THEN b0
              ELSE IF g[n - 1].full THEN g[n - 1]
              ELSE AddFact(g[n - 1], facts[n])]
  <2> SUFFICES ASSUME NEW n \in 0 .. N
               PROVE  g[n] = IF n = 0 THEN b0 ELSE add(g[n - 1], n)
    BY Zenon
  <2> HIDE DEF add
  <2>1. CASE n = 0
    BY <1>6, <2>1
  <2>2. CASE n # 0
    <3>1. n \in 1 .. N /\ n - 1 \in 0 .. N
      BY <1>1, <2>2
    <3>2. \A x \in B : step[n][x] = add(x, n)
      BY <3>1
    <3> HIDE DEF step
    <3>3. g[n - 1] \in B /\ g[n] = step[n][g[n - 1]]
      BY <1>6, <3>1
    <3> QED BY <2>2, <3>2, <3>3
  <2> QED BY <2>1, <2>2
<1>8. added = [n \in 0 .. N |->
                  IF n = 0 THEN b0
                  ELSE IF added[n - 1].full THEN added[n - 1]
                  ELSE AddFact(added[n - 1], facts[n])]
  <2> SUFFICES \E f : f = [n \in 0 .. N |->
                              IF n = 0 THEN b0
                              ELSE IF f[n - 1].full THEN f[n - 1]
                              ELSE AddFact(f[n - 1], facts[n])]
    OBVIOUS
  <2> QED BY <1>7
<1> HIDE DEF added
<1>9. 0 .. N \subseteq {n \in 0 .. N : added[n] \in B}
  <2> DEFINE T == {n \in 0 .. N : added[n] \in B}
  <2>1. 0 \in T
    BY <1>1, <1>3, <1>8
  <2>2. ASSUME NEW n \in 1 .. N, n - 1 \in T PROVE n \in T
    <3>1. n \in 0 .. N /\ n # 0 /\ added[n - 1] \in B
      BY <1>1, <2>2
    <3>2. added[n] = add(added[n - 1], n)
      BY <1>8, <3>1, Zenon
    <3> HIDE DEF add
    <3> QED BY <1>4, <3>1, <3>2
  <2> HIDE DEF T
  <2>3. 0 .. N \subseteq T
    BY <1>1, <2>1, <2>2, UpTo
  <2> QED BY <2>3 DEF T
<1>10. added[N] \in B
  BY <1>1, <1>9
<1> QED BY <1>2, <1>10 DEF B

-----------------------------------------------------------------------------
(* The facts of a section.                                                 *)

LEMMA ListedSet ==
    ASSUME NEW S, IsFiniteSet(S)
    PROVE  SetToSeq(S) \in [1 .. Cardinality(S) -> S] /\ Cardinality(S) \in Nat
<1>1. Cardinality(S) \in Nat /\ ExistsBijection(1 .. Cardinality(S), S)
  BY FS_CardinalityType
<1>2. \E f \in [1 .. Cardinality(S) -> S] : IsInjective(f)
  BY <1>1 DEF ExistsBijection, Bijection, Injection, IsInjective
<1>3. SetToSeq(S) \in [1 .. Cardinality(S) -> S]
  BY <1>2 DEF SetToSeq
<1> QED BY <1>1, <1>3

LEMMA LabelledType ==
    ASSUME NEW G, NEW rows_ \in Seq(DOMAIN Cost), NEW section, NEW provenance,
           \A i \in DOMAIN rows_ : NewFact(section, rows_[i], provenance) \in G
    PROVE  Labelled(section, rows_, provenance) \in Seq(G)
<1>1. Labelled(section, rows_, provenance)
        = [i \in DOMAIN rows_ |-> NewFact(section, rows_[i], provenance)]
  BY Zenon DEF Labelled, Mapped
<1>2. DOMAIN rows_ = 1 .. Len(rows_) /\ Len(rows_) \in Nat
  OBVIOUS
<1> QED BY <1>1, <1>2

SoundFacts == {f \in Fact : f.provenance = "HUMAN_VERIFIED" => IsEarned(f)}

(* What nobody has verified is not labelled so.                            *)
LEMMA UnverifiedRows ==
    ASSUME NEW table, NEW provenance \in Unverified,
           NEW section \in {"case", "person", "form_submission", "rule_evaluation",
                            "workflow_instance", "workflow_history", "decision"}
    PROVE  Labelled(section, RowsOf(table), provenance) \in Seq(SoundFacts)
<1>1. RowsOf(table) \in Seq(DOMAIN Cost)
  <2>1. CASE table \in DOMAIN Rows
    BY <2>1, RowsHaveFacts DEF RowsOf
  <2>2. CASE table \notin DOMAIN Rows
    BY <2>2 DEF RowsOf
  <2> QED BY <2>1, <2>2
<1>2. \A r \in DOMAIN Cost : NewFact(section, r, provenance) \in SoundFacts
  BY DEF SoundFacts, Fact, NewFact, Unverified
<1>3. \A i \in DOMAIN RowsOf(table) : RowsOf(table)[i] \in DOMAIN Cost
  BY <1>1
<1> HIDE DEF RowsOf
<1> QED BY <1>1, <1>2, <1>3, LabelledType

JudgedOK ==
    /\ \A e \in Items : evidence[e] = "VERIFIED" => Judged(e, "VERIFIED")
    /\ \A x \in Stored :
          observation[x].status = "ACCEPTED" => Judged(x, "ai.observation.accepted")

LEMMA EvidenceIsListed ==
    /\ DOMAIN Evidence = 1 .. Len(Evidence) /\ Len(Evidence) \in Nat
    /\ \A i \in DOMAIN Evidence : Evidence[i] \in Items
    /\ Items \subseteq DOMAIN Cost
BY RowsHaveFacts DEF Items

(* One row of facts after another, for each piece of evidence.             *)
LEMMA FactsOfEach ==
    ASSUME NEW G, NEW of, \A e \in Items : of[e] \in Seq(G)
    PROVE  FlattenSeq([i \in DOMAIN Evidence |-> of[Evidence[i]]]) \in Seq(G)
<1> DEFINE seqs == [i \in DOMAIN Evidence |-> of[Evidence[i]]]
<1>1. seqs \in Seq(Seq(G))
  BY EvidenceIsListed
<1> HIDE DEF seqs
<1>2. FlattenSeq(seqs) \in Seq(G)
  BY <1>1, Flattened
<1> QED BY <1>2 DEF seqs

LEMMA EvidenceFactsSound ==
    ASSUME JudgedOK, NEW o
    PROVE  EvidenceFacts(o, Evidence, evidence) \in Seq(SoundFacts)
<1> DEFINE Fact1(e) == NewFact("evidence", e, EvidenceProvenance(evidence[e]))
           Wanted(e) == o.onlyVerified \/ o.verifiedEvidence => evidence[e] = "VERIFIED"
           of == [e \in Items |-> IF Wanted(e) THEN <<Fact1(e)>> ELSE <<>>]
<1>1. ASSUME NEW e \in Items PROVE Fact1(e) \in SoundFacts
  <2>1. Fact1(e) \in Fact
    BY EvidenceIsListed DEF Fact, NewFact, EvidenceProvenance, Unverified
  <2>2. Fact1(e).provenance = "HUMAN_VERIFIED" => evidence[e] = "VERIFIED"
    BY DEF NewFact, EvidenceProvenance
  <2>3. Fact1(e).section = "evidence" /\ Fact1(e).row = e
    BY DEF NewFact
  <2> HIDE DEF Fact1
  <2> QED BY <2>1, <2>2, <2>3 DEF SoundFacts, IsEarned, JudgedOK
<1>2. \A e \in Items : of[e] \in Seq(SoundFacts)
  <2> HIDE DEF Fact1, Wanted
  <2> QED BY <1>1
<1>3. EvidenceFacts(o, Evidence, evidence)
        = FlattenSeq([i \in DOMAIN Evidence |-> of[Evidence[i]]])
  <2>1. [i \in DOMAIN Evidence |-> of[Evidence[i]]]
          = [i \in DOMAIN Evidence |-> IF Wanted(Evidence[i]) THEN <<Fact1(Evidence[i])>> ELSE <<>>]
    <3> HIDE DEF Wanted, Fact1
    <3> QED BY EvidenceIsListed
  <2> QED BY <2>1, Zenon DEF EvidenceFacts, Mapped
<1> HIDE DEF of
<1> QED BY <1>2, <1>3, FactsOfEach

LEMMA DocumentFactsSound ==
    ASSUME JudgedOK, NEW o
    PROVE  DocumentFacts(o, Evidence, evidence, Documents) \in Seq(SoundFacts)
<1> DEFINE L(e) == Labelled("document", Documents[e], EvidenceProvenance(evidence[e]))
           Wanted(e) == o.onlyVerified => evidence[e] = "VERIFIED"
           of == [e \in Items |-> IF Wanted(e) THEN L(e) ELSE <<>>]
<1>1. ASSUME NEW e \in Items PROVE L(e) \in Seq(SoundFacts)
  <2>1. Documents[e] \in Seq(DOMAIN Cost)
    BY RowsHaveFacts
  <2>2. ASSUME NEW i \in DOMAIN Documents[e]
        PROVE  NewFact("document", Documents[e][i], EvidenceProvenance(evidence[e])) \in SoundFacts
    <3> DEFINE f == NewFact("document", Documents[e][i], EvidenceProvenance(evidence[e]))
    <3>1. Documents[e][i] \in DOMAIN Cost
      BY <2>1
    <3>2. f \in Fact
      BY <3>1 DEF Fact, NewFact, EvidenceProvenance, Unverified
    <3>3. f.provenance = "HUMAN_VERIFIED" => evidence[e] = "VERIFIED"
      BY DEF NewFact, EvidenceProvenance
    <3>4. f.section = "document" /\ f.row = Documents[e][i]
      BY DEF NewFact
    <3> HIDE DEF f
    <3>5. f.row \in Range(Documents[e])
      BY <3>4 DEF Range
    <3>6. f \in SoundFacts
      BY <3>2, <3>3, <3>4, <3>5 DEF SoundFacts, IsEarned, JudgedOK
    <3> QED BY <3>6 DEF f
  <2> QED BY <2>1, <2>2, LabelledType
<1>2. \A e \in Items : of[e] \in Seq(SoundFacts)
  <2> HIDE DEF L, Wanted
  <2> QED BY <1>1
<1>3. DocumentFacts(o, Evidence, evidence, Documents)
        = FlattenSeq([i \in DOMAIN Evidence |-> of[Evidence[i]]])
  <2>1. [i \in DOMAIN Evidence |-> of[Evidence[i]]]
          = [i \in DOMAIN Evidence |-> IF Wanted(Evidence[i]) THEN L(Evidence[i]) ELSE <<>>]
    <3> HIDE DEF Wanted, L
    <3> QED BY EvidenceIsListed
  <2> QED BY <2>1, Zenon DEF DocumentFacts, Mapped
<1> HIDE DEF of
<1> QED BY <1>2, <1>3, FactsOfEach

LEMMA ObservationFactsSound ==
    ASSUME JudgedOK, NEW o
    PROVE  ObservationFacts(o, Evidence, [x \in Stored |-> observation[x]]) \in Seq(SoundFacts)
<1> DEFINE found == [x \in Stored |-> observation[x]]
           Wanted(x) == o.onlyHumanVerified => found[x].status = "ACCEPTED"
           Listed(e) == {x \in DOMAIN found : found[x].evidence = e /\ Wanted(x)}
           Fact1(x) == NewFact("ai_observation", x, ObservationProvenance(found[x].status))
           Each(e) == [i \in DOMAIN SetToSeq(Listed(e)) |-> Fact1(SetToSeq(Listed(e))[i])]
           of == [e \in Items |-> Each(e)]
<1>1. ASSUME NEW x \in Stored PROVE Fact1(x) \in SoundFacts
  <2>1. Fact1(x) \in Fact
    BY RowsHaveFacts DEF Stored, Fact, NewFact, ObservationProvenance, Unverified
  <2>2. Fact1(x).provenance = "HUMAN_VERIFIED" => observation[x].status = "ACCEPTED"
    BY DEF NewFact, ObservationProvenance
  <2>3. Fact1(x).section = "ai_observation" /\ Fact1(x).row = x
    BY DEF NewFact
  <2> HIDE DEF Fact1
  <2> QED BY <2>1, <2>2, <2>3 DEF SoundFacts, IsEarned, JudgedOK, Stored
<1>2. ASSUME NEW e \in Items PROVE Each(e) \in Seq(SoundFacts)
  <2>1. Listed(e) \subseteq Stored /\ Stored \subseteq Observations
    BY DEF Stored
  <2> HIDE DEF Listed, Fact1
  <2>2. IsFiniteSet(Listed(e))
    BY <2>1, RowsHaveFacts, FS_Subset
  <2>3. SetToSeq(Listed(e)) \in [1 .. Cardinality(Listed(e)) -> Listed(e)] /\ Cardinality(Listed(e)) \in Nat
    BY <2>2, ListedSet
  <2> QED BY <1>1, <2>1, <2>3
<1>3. \A e \in Items : of[e] \in Seq(SoundFacts)
  <2> HIDE DEF Each
  <2> QED BY <1>2
<1>4. ObservationFacts(o, Evidence, found)
        = FlattenSeq([i \in DOMAIN Evidence |-> of[Evidence[i]]])
  <2>1. [i \in DOMAIN Evidence |-> of[Evidence[i]]] = [i \in DOMAIN Evidence |-> Each(Evidence[i])]
    <3> HIDE DEF Each
    <3> QED BY EvidenceIsListed
  <2> HIDE DEF of, found
  <2> QED BY <2>1, Zenon DEF ObservationFacts, Mapped
<1> HIDE DEF of
<1> QED BY <1>3, <1>4, FactsOfEach

LEMMA StoredFactsSound ==
    ASSUME JudgedOK, NEW o, NEW s \in Range(Sections)
    PROVE  StoredFacts(o, s) \in Seq(SoundFacts)
<1>1. s \in {"case", "person", "evidence", "document", "form_submission", "rule_evaluation",
              "workflow", "decision", "ai_observation"}
  BY DEF Sections, Range
<1>2. CASE s = "case"
  <2>1. StoredFacts(o, s) = Labelled("case", RowsOf("case"), "SOURCE_FACT")
    BY <1>2 DEF StoredFacts, CaseMetadataFacts
  <2> QED BY <2>1, UnverifiedRows DEF Unverified
<1>3. CASE s = "person"
  <2>1. StoredFacts(o, s) = Labelled("person", RowsOf("person"), "SOURCE_FACT")
    BY <1>3 DEF StoredFacts, PersonFacts
  <2> QED BY <2>1, UnverifiedRows DEF Unverified
<1>4. CASE s = "evidence"
  <2>1. StoredFacts(o, s) = EvidenceFacts(o, Evidence, evidence)
    BY <1>4 DEF StoredFacts
  <2> QED BY <2>1, EvidenceFactsSound
<1>5. CASE s = "document"
  <2>1. StoredFacts(o, s) = DocumentFacts(o, Evidence, evidence, Documents)
    BY <1>5 DEF StoredFacts
  <2> QED BY <2>1, DocumentFactsSound
<1>6. CASE s = "form_submission"
  <2>1. StoredFacts(o, s)
          = Labelled("form_submission", RowsOf("form_submission"), "FORM_SUBMISSION")
    BY <1>6 DEF StoredFacts, FormSubmissionFacts
  <2> QED BY <2>1, UnverifiedRows DEF Unverified
<1>7. CASE s = "rule_evaluation"
  <2>1. StoredFacts(o, s)
          = Labelled("rule_evaluation", RowsOf("rule_evaluation"), "RULE_RESULT")
    BY <1>7 DEF StoredFacts, RuleEvaluationFacts
  <2> QED BY <2>1, UnverifiedRows DEF Unverified
<1>8. CASE s = "workflow"
  <2> DEFINE a == Labelled("workflow_instance", RowsOf("workflow_instance"), "SOURCE_FACT")
             c == Labelled("workflow_history", RowsOf("workflow_history"), "WORKFLOW_HISTORY")
  <2>1. a \in Seq(SoundFacts) /\ c \in Seq(SoundFacts)
    BY UnverifiedRows DEF Unverified
  <2>2. StoredFacts(o, s) = a \o c
    BY <1>8 DEF StoredFacts, WorkflowFacts
  <2> HIDE DEF a, c
  <2> QED BY <2>1, <2>2
<1>9. CASE s = "decision"
  <2>1. StoredFacts(o, s) = Labelled("decision", RowsOf("decision"), "HUMAN_DECISION")
    BY <1>9 DEF StoredFacts, DecisionFacts
  <2> QED BY <2>1, UnverifiedRows DEF Unverified
<1>10. CASE s = "ai_observation"
  <2>1. StoredFacts(o, s)
          = ObservationFacts(o, Evidence, [x \in Stored |-> observation[x]])
    BY <1>10 DEF StoredFacts
  <2> QED BY <2>1, ObservationFactsSound
<1> QED BY <1>1, <1>2, <1>3, <1>4, <1>5, <1>6, <1>7, <1>8, <1>9, <1>10

-----------------------------------------------------------------------------
(* The events that are named last.                                         *)

Audited ==
    [action : {"VERIFIED", "REJECTED", "ai.observation.created",
               "ai.observation.accepted", "ai.observation.rejected",
               "ai.observation.corrected", "ai.observation.dismissed",
               "ai.verified_fact.created", "case_summary.generated",
               "document_analysis.created", "case_summary.accepted",
               "case_summary.rejected", "document_analysis.accepted",
               "document_analysis.rejected"},
     by : Requests, review : ReviewActions \cup {None}]

LEMMA LastOfNamed ==
    ASSUME NEW events \in Seq(Audited), NEW A, Named(events, A) # {}
    PROVE  /\ Max(Named(events, A)) \in Named(events, A)
           /\ \A i \in Named(events, A) : i <= Max(Named(events, A))
<1> DEFINE N == Len(events)
           S == Named(events, A)
           T == {N - i : i \in S}
<1>1. N \in Nat /\ S \subseteq 1 .. N
  BY DEF Named
<1> HIDE DEF N, S
<1>2. T \subseteq Nat /\ T # {}
  BY <1>1 DEF S
<1>3. PICK n \in T : \A m \in T : n <= m
  <2> HIDE DEF T
  <2> QED BY <1>2, LeastNumber
<1>4. PICK k \in S : n = N - k
  BY <1>3
<1>5. \A i \in S : i <= k
  <2> SUFFICES ASSUME NEW i \in S PROVE i <= k
    OBVIOUS
  <2>1. N - k <= N - i
    BY <1>3, <1>4
  <2> QED BY <1>1, <2>1
<1>6. \E x \in S : \A y \in S : x >= y
  BY <1>1, <1>5
<1>7. Max(S) \in S /\ \A y \in S : Max(S) >= y
  BY <1>6 DEF Max
<1>8. \A y \in S : y <= Max(S)
  BY <1>1, <1>7
<1> QED BY <1>7, <1>8 DEF S

(* One more event is the last one, if it is of these actions.              *)
LEMMA NamedAppend ==
    ASSUME NEW events \in Seq(Audited), NEW e \in Audited, NEW A
    PROVE  LET more == Append(events, e) IN
           /\ more \in Seq(Audited) /\ more # <<>> /\ Last(more) = e
           /\ e.action \in A => Named(more, A) # {} /\ LastNamed(more, A) = e
           /\ e.action \notin A =>
                 /\ Named(more, A) = Named(events, A)
                 /\ Named(more, A) # {} => LastNamed(more, A) = LastNamed(events, A)
           /\ Named(events, A) # {} => Named(more, A) # {}
<1> DEFINE more == Append(events, e)
           N == Len(events)
<1>1. /\ N \in Nat /\ more \in Seq(Audited) /\ Len(more) = N + 1 /\ more[N + 1] = e
      /\ \A i \in 1 .. N : more[i] = events[i]
      /\ DOMAIN more = 1 .. N + 1 /\ DOMAIN events = 1 .. N
  OBVIOUS
<1>2. more # <<>> /\ Last(more) = e
  <2>1. Last(more) = more[Len(more)]
    BY DEF Last
  <2>2. Len(<<>>) = 0
    OBVIOUS
  <2> HIDE DEF more
  <2> QED BY <1>1, <2>1, <2>2
<1> HIDE DEF more, N
<1>3. Named(more, A) = Named(events, A) \cup (IF e.action \in A THEN {N + 1} ELSE {})
  <2>1. ASSUME NEW i \in 1 .. N + 1
        PROVE  i \in Named(more, A) <=>
                   i \in Named(events, A) \/ (i = N + 1 /\ e.action \in A)
    <3>1. CASE i = N + 1
      BY <1>1, <3>1 DEF Named
    <3>2. CASE i \in 1 .. N
      BY <1>1, <3>2 DEF Named
    <3> QED BY <1>1, <3>1, <3>2
  <2>2. Named(more, A) \subseteq 1 .. N + 1 /\ Named(events, A) \subseteq 1 .. N + 1
    BY <1>1 DEF Named
  <2> QED BY <1>1, <2>1, <2>2
<1>4. CASE e.action \in A
  <2>1. N + 1 \in Named(more, A)
    BY <1>3, <1>4
  <2>2. /\ Max(Named(more, A)) \in Named(more, A)
        /\ N + 1 <= Max(Named(more, A))
    BY <1>1, <2>1, LastOfNamed
  <2>3. Max(Named(more, A)) = N + 1
    BY <1>1, <2>2 DEF Named
  <2> QED BY <1>1, <1>2, <1>4, <2>1, <2>3 DEF LastNamed, more
<1>5. CASE e.action \notin A
  <2>1. Named(more, A) = Named(events, A)
    BY <1>3, <1>5
  <2>2. ASSUME Named(more, A) # {} PROVE LastNamed(more, A) = LastNamed(events, A)
    <3>1. Max(Named(events, A)) \in Named(events, A)
      BY <2>1, <2>2, LastOfNamed
    <3>2. Max(Named(events, A)) \in 1 .. N
      BY <1>1, <3>1 DEF Named
    <3> QED BY <1>1, <2>1, <3>2 DEF LastNamed
  <2> QED BY <1>1, <1>2, <1>5, <2>1, <2>2 DEF more
<1> QED BY <1>4, <1>5

(* Reviews and facts leave events of different names.                      *)
LEMMA ActionsApart ==
    /\ \A a \in ReviewActions : /\ AuditActionOf(a) \in ReviewEvents
                                /\ AuditActionOf(a) \notin FactActions
    /\ "ai.verified_fact.created" \in FactActions
    /\ "ai.verified_fact.created" \notin ReviewEvents
    /\ "ai.observation.created" \notin ReviewEvents \cup FactActions
BY DEF ReviewActions, ReviewEvents, FactActions, AuditActionOf

LEMMA ReviewIsAudited ==
    ASSUME NEW p \in Requests, NEW a \in ReviewActions
    PROVE  /\ NewEvent(AuditActionOf(a), p, a) \in Audited
           /\ NewEvent(AuditActionOf(a), p, a).action = AuditActionOf(a)
           /\ RecordedFact(p, a) \in Audited
           /\ RecordedFact(p, a).action = "ai.verified_fact.created"
           /\ RecordedFact(p, a).by = p /\ RecordedFact(p, a).review = a
<1>1. AuditActionOf(a) \in {"ai.observation.accepted", "ai.observation.rejected",
                            "ai.observation.corrected", "ai.observation.dismissed"}
  BY DEF ReviewActions, AuditActionOf
<1> QED BY <1>1 DEF NewEvent, RecordedFact, Audited

-----------------------------------------------------------------------------
(* The inductive invariant.                                                *)

Resources == Items \cup Observations \cup Artifacts

ArtifactRow ==
    [status : {"PENDING_REVIEW", "ACCEPTED", "REJECTED"}, by : Requests \cup {None}]

(* An observation and its fact are what their events tell.                 *)
TrailFits(row, made, events) ==
    /\ row \in ObservationRow \cup {None} /\ made \in FactRow \cup {None}
    /\ events \in Seq(Audited)
    /\ row = None => events = <<>>
    /\ (made = None) <=> (Named(events, FactActions) = {})
    /\ made # None =>
         LET last == LastNamed(events, FactActions) IN
         /\ made.by = last.by /\ made.action = last.review
         /\ made.corrected <=> made.source = "HUMAN_CORRECTION"
         /\ made.source = FactSource(last.review)
    /\ row # None =>
         /\ row.status = "OPEN" <=> Named(events, ReviewEvents) = {}
         /\ row.status # "OPEN" =>
              LastNamed(events, ReviewEvents)
                = NewEvent(AuditActionOf(row.status), row.by, row.status)

ObservationFits(row, made, events) ==
    /\ TrailFits(row, made, events)
    /\ row # None /\ row.status \in {"ACCEPTED", "CORRECTED"} => made # None

(* So is an artifact, and a piece of evidence that is verified was judged. *)
ArtifactFits(x) ==
    /\ artifact[x] \in ArtifactRow \cup {None}
    /\ artifact[x] # None /\ artifact[x].status # "PENDING_REVIEW" =>
         /\ trail[x] # <<>>
         /\ Last(trail[x]) = NewEvent(DecisionOn(x, artifact[x].status),
                                      artifact[x].by, artifact[x].status)

ArtifactRowsFit ==
    /\ trail \in [Resources -> Seq(Audited)]
    /\ evidence \in [Items -> {"UNVERIFIED", "VERIFIED", "REJECTED"}]
    /\ observation \in [Observations -> ObservationRow \cup {None}]
    /\ fact \in [Observations -> FactRow \cup {None}]
    /\ artifact \in [Artifacts -> ArtifactRow \cup {None}]
    /\ \A o \in Observations : ObservationFits(observation[o], fact[o], trail[o])
    /\ \A x \in Artifacts : ArtifactFits(x)
    /\ \A e \in Items : evidence[e] = "VERIFIED" => Judged(e, "VERIFIED")
    /\ \A facts \in context : facts \in Seq(SoundFacts)

Local(G) ==
    [pc : {"idle", "observing", "reviewing", "verifying", "building", "summarising",
           "analysing", "deciding"},
     on : Resources \cup {None},
     action : ReviewActions \cup {"context", "summary", None},
     builder : Builder(G) \cup {None},
     todo : SUBSET DOMAIN Sections]

(* What a request carries at each of its steps.                            *)
LocalFits(r) ==
    /\ r \in Local(SoundFacts)
    /\ r.pc = "building" => r.builder \in Builder(SoundFacts)
    /\ r.pc \in {"reviewing", "verifying"} => r.on \in Stored /\ r.action \in ReviewActions
    /\ r.pc = "deciding" => r.on \in Artifacts /\ r.action \in {"ACCEPTED", "REJECTED"}
    /\ r.pc = "observing" => r.on \in Items \cup {None}

LocalsFit ==
    /\ request = [p \in Requests |-> request[p]]
    /\ \A p \in Requests : LocalFits(request[p])

ArtifactsInv == ArtifactRowsFit /\ LocalsFit

LEMMA SoundAreFacts == SoundFacts \subseteq Fact
BY DEF SoundFacts

LEMMA IdleFits == LocalFits(Idle)
<1>1. Idle \in Local(SoundFacts)
  BY DEF Idle, Local
<1> QED BY <1>1 DEF LocalFits, Idle

(* Observations that are stored, and facts that are sound, stay so.        *)
Grows == Stored \subseteq Stored' /\ SoundFacts \subseteq SoundFacts'

LEMMA BuildersGrow ==
    ASSUME NEW G, NEW H, G \subseteq H
    PROVE  Builder(G) \subseteq Builder(H)
<1>1. Seq(G) \subseteq Seq(H)
  OBVIOUS
<1> QED BY <1>1 DEF Builder

LEMMA LocalGrows ==
    ASSUME NEW r, LocalFits(r), Grows
    PROVE  LocalFits(r)'
<1>1. Builder(SoundFacts) \subseteq Builder(SoundFacts')
  BY BuildersGrow DEF Grows
<1>2. Local(SoundFacts) \subseteq Local(SoundFacts')
  BY <1>1 DEF Local
<1> QED BY <1>1, <1>2 DEF LocalFits, Grows

LEMMA LocalsGrow ==
    ASSUME LocalsFit, Grows, NEW p \in Requests, NEW r, LocalFits(r)',
           request' = [request EXCEPT ![p] = r]
    PROVE  LocalsFit'
<1>1. \A q \in Requests : request'[q] = IF q = p THEN r ELSE request[q]
  BY DEF LocalsFit
<1>2. ASSUME NEW q \in Requests PROVE LocalFits(request[q])'
  <2>1. PICK s : s = request'[q]
    OBVIOUS
  <2>2. LocalFits(s)'
    <3>1. CASE q = p
      BY <1>1, <2>1, <3>1
    <3>2. CASE q # p
      <4>1. s = request[q] /\ LocalFits(request[q])
        BY <1>1, <2>1, <3>2 DEF LocalsFit
      <4>2. LocalFits(s)
        BY <4>1
      <4> QED BY <4>2, LocalGrows
    <3> QED BY <3>1, <3>2
  <2> QED BY <2>1, <2>2
<1>3. request' = [q \in Requests |-> request'[q]]
  BY DEF LocalsFit
<1> QED BY <1>2, <1>3 DEF LocalsFit

(* Events are only appended, so what was earned stays earned.              *)
LEMMA TrailGrows ==
    ASSUME \A x \in Resources : \A a : Judged(x, a) => Judged(x, a)'
    PROVE  SoundFacts \subseteq SoundFacts'
<1> SUFFICES ASSUME NEW f \in SoundFacts, IsEarned(f) PROVE IsEarned(f)'
  BY DEF SoundFacts
<1> QED BY DEF IsEarned, Resources

(* The rows stay as they are.                                              *)
LEMMA RowsStay ==
    ASSUME ArtifactRowsFit, UNCHANGED rows
    PROVE  ArtifactRowsFit' /\ Grows
<1>1. UNCHANGED <<evidence, observation, fact, artifact, context, trail>>
  BY DEF rows
<1>2. SoundFacts' = SoundFacts /\ Stored' = Stored
  BY <1>1 DEF SoundFacts, IsEarned, Judged, Stored
<1> QED BY <1>1, <1>2 DEF ArtifactRowsFit, ArtifactFits, Judged, Grows

LEMMA BeginKeeps ==
    ASSUME ArtifactsInv, NEW p \in Requests, NEW r, LocalFits(r), Begin(p, r)
    PROVE  ArtifactsInv'
<1>1. ArtifactRowsFit' /\ Grows
  BY RowsStay DEF ArtifactsInv, Begin
<1>2. LocalFits(r)'
  BY <1>1, LocalGrows
<1> QED BY <1>1, <1>2, LocalsGrow DEF ArtifactsInv, Begin

(* The transaction of a request, after which it is idle.                   *)
LEMMA DoneKeeps ==
    ASSUME ArtifactsInv, NEW p \in Requests, Done(p), ArtifactRowsFit', Grows
    PROVE  ArtifactsInv'
<1>1. PICK r : r = Idle
  OBVIOUS
<1>2. LocalFits(r)'
  BY <1>1, IdleFits, LocalGrows
<1> QED BY <1>1, <1>2, LocalsGrow DEF ArtifactsInv, Done

LEMMA ArtifactsStart == ArtifactsInit => ArtifactsInv
<1> SUFFICES ASSUME ArtifactsInit PROVE ArtifactsInv
  OBVIOUS
<1>1. \A A : Named(<<>>, A) = {}
  BY DEF Named
<1>2. \A o \in Observations : ObservationFits(observation[o], fact[o], trail[o])
  BY <1>1 DEF ArtifactsInit, ObservationFits, TrailFits
<1>3. ArtifactRowsFit
  BY <1>2 DEF ArtifactsInit, ArtifactRowsFit, ArtifactFits, Resources
<1>4. LocalsFit
  BY IdleFits DEF ArtifactsInit, LocalsFit
<1> QED BY <1>3, <1>4 DEF ArtifactsInv

-----------------------------------------------------------------------------
(* Transactions on observations and facts.                                 *)

(* A transaction appends to what is audited of these resources.            *)
LEMMA AppendsGrow ==
    ASSUME ArtifactRowsFit,
           \A x \in Resources :
               \/ trail'[x] = trail[x]
               \/ \E e \in Audited : trail'[x] = Append(trail[x], e)
               \/ \E d, e \in Audited : trail'[x] = Append(Append(trail[x], d), e)
    PROVE  /\ \A x \in Resources : trail'[x] \in Seq(Audited)
           /\ \A x \in Resources : \A a : Judged(x, a) => Judged(x, a)'
           /\ SoundFacts \subseteq SoundFacts'
<1>1. ASSUME NEW x \in Resources
      PROVE  /\ trail'[x] \in Seq(Audited)
             /\ \A a : Judged(x, a) => Judged(x, a)'
  <2>1. PICK now : now = trail[x]
    OBVIOUS
  <2>2. PICK then : then = trail'[x]
    OBVIOUS
  <2>3. now \in Seq(Audited)
    BY <2>1 DEF ArtifactRowsFit
  <2>4. then \in Seq(Audited) /\ \A a : Named(now, {a}) # {} => Named(then, {a}) # {}
    <3>1. CASE then = now
      BY <2>3, <3>1
    <3>2. CASE \E e \in Audited : then = Append(now, e)
      <4>1. PICK e \in Audited : then = Append(now, e)
        BY <3>2
      <4> QED BY <2>3, <4>1, NamedAppend
    <3>3. CASE \E d, e \in Audited : then = Append(Append(now, d), e)
      <4>1. PICK d \in Audited, e \in Audited : then = Append(Append(now, d), e)
        BY <3>3
      <4>2. PICK more : more = Append(now, d)
        OBVIOUS
      <4>3. more \in Seq(Audited) /\ \A a : Named(now, {a}) # {} => Named(more, {a}) # {}
        BY <2>3, <4>2, NamedAppend
      <4>4. then \in Seq(Audited) /\ \A a : Named(more, {a}) # {} => Named(then, {a}) # {}
        BY <4>1, <4>2, <4>3, NamedAppend
      <4> QED BY <4>3, <4>4
    <3>4. \/ then = now
          \/ \E e \in Audited : then = Append(now, e)
          \/ \E d, e \in Audited : then = Append(Append(now, d), e)
      BY <1>1, <2>1, <2>2, Zenon
    <3> QED BY <3>1, <3>2, <3>3, <3>4
  <2>5. \A a : (Judged(x, a) <=> Named(now, {a}) # {})
               /\ (Judged(x, a)' <=> Named(then, {a}) # {})
    BY <2>1, <2>2 DEF Judged, Named
  <2> QED BY <2>2, <2>4, <2>5
<1> QED BY <1>1, TrailGrows

(* A new observation is open, and its one event is of no review.           *)
LEMMA NewFits ==
    ASSUME NEW row \in ObservationRow, row.status = "OPEN",
           NEW e \in Audited, e.action = "ai.observation.created"
    PROVE  ObservationFits(row, None, Append(<<>>, e))
<1>1. PICK none : none = <<>>
  OBVIOUS
<1>2. none \in Seq(Audited) /\ \A A : Named(none, A) = {}
  BY <1>1 DEF Named
<1>3. PICK events : events = Append(none, e)
  OBVIOUS
<1>4. events \in Seq(Audited)
  BY <1>2, <1>3
<1>5. Named(events, FactActions) = {} /\ Named(events, ReviewEvents) = {}
  <2>1. e.action \notin FactActions /\ e.action \notin ReviewEvents
    BY ActionsApart
  <2>2. Named(events, FactActions) = Named(none, FactActions)
    BY <1>2, <1>3, <2>1, NamedAppend
  <2>3. Named(events, ReviewEvents) = Named(none, ReviewEvents)
    BY <1>2, <1>3, <2>1, NamedAppend
  <2> QED BY <1>2, <2>2, <2>3
<1>6. row # None
  BY NoneIsNoRow
<1>7. ObservationFits(row, None, events)
  BY <1>4, <1>5, <1>6 DEF ObservationFits, TrailFits
<1> QED BY <1>1, <1>3, <1>7

(* A fact that is written with its event.                                  *)
LEMMA FactFits ==
    ASSUME NEW row, NEW made, NEW events, TrailFits(row, made, events), row # None,
           NEW p \in Requests, NEW a \in ReviewActions
    PROVE  ObservationFits(row, NewVerifiedFact(p, a), Append(events, RecordedFact(p, a)))
<1> DEFINE new == NewVerifiedFact(p, a)
           e == RecordedFact(p, a)
           more == Append(events, e)
<1>1. /\ e \in Audited /\ e.action = "ai.verified_fact.created"
      /\ e.by = p /\ e.review = a
  BY ReviewIsAudited
<1>2. events \in Seq(Audited)
  BY DEF TrailFits
<1> HIDE DEF e
<1>3. /\ more \in Seq(Audited) /\ Named(more, FactActions) # {}
      /\ LastNamed(more, FactActions) = e
      /\ Named(more, ReviewEvents) = Named(events, ReviewEvents)
      /\ Named(more, ReviewEvents) # {} =>
            LastNamed(more, ReviewEvents) = LastNamed(events, ReviewEvents)
  BY <1>1, <1>2, ActionsApart, NamedAppend
<1>4. /\ new \in FactRow /\ new # None /\ new.by = p /\ new.action = a
      /\ new.source = FactSource(a) /\ (new.corrected <=> new.source = "HUMAN_CORRECTION")
  <2>1. new \in FactRow
    BY DEF NewVerifiedFact, FactRow, FactSource, ReviewActions
  <2>2. new.by = p /\ new.action = a /\ new.source = FactSource(a) /\ new.corrected = (a = "CORRECTED")
    BY DEF NewVerifiedFact
  <2>3. a = "CORRECTED" <=> FactSource(a) = "HUMAN_CORRECTION"
    BY DEF FactSource, ReviewActions
  <2> HIDE DEF new
  <2> QED BY <2>1, <2>2, <2>3, NoneIsNoRow
<1> HIDE DEF new, more
<1>5. ObservationFits(row, new, more)
  BY <1>1, <1>3, <1>4 DEF ObservationFits, TrailFits
<1> QED BY <1>5 DEF new, more, e

(* A status that is written with its event.                                *)
LEMMA ReviewFits ==
    ASSUME NEW row \in ObservationRow, NEW made, NEW events,
           TrailFits(row, made, events),
           NEW p \in Requests, NEW a \in ReviewActions,
           NEW new \in ObservationRow, new.status = a, new.by = p
    PROVE  TrailFits(new, made, Append(events, NewEvent(AuditActionOf(a), p, a)))
<1> DEFINE e == NewEvent(AuditActionOf(a), p, a)
           more == Append(events, e)
<1>1. e \in Audited /\ e.action = AuditActionOf(a)
  BY ReviewIsAudited
<1>2. events \in Seq(Audited)
  BY DEF TrailFits
<1> HIDE DEF e
<1>3. /\ more \in Seq(Audited) /\ Named(more, ReviewEvents) # {}
      /\ LastNamed(more, ReviewEvents) = e
      /\ Named(more, FactActions) = Named(events, FactActions)
      /\ Named(more, FactActions) # {} =>
            LastNamed(more, FactActions) = LastNamed(events, FactActions)
  BY <1>1, <1>2, ActionsApart, NamedAppend
<1>4. /\ new \in ObservationRow /\ new # None /\ new.status = a /\ new.by = p
      /\ a # "OPEN"
  BY NoneIsNoRow DEF ReviewActions
<1> HIDE DEF more
<1>5. TrailFits(new, made, more)
  BY <1>1, <1>3, <1>4 DEF TrailFits, e
<1> QED BY <1>5 DEF more, e

Appends ==
    /\ trail' = [x \in Resources |-> trail'[x]]
    /\ \A x \in Resources :
           \/ trail'[x] = trail[x]
           \/ \E e \in Audited : trail'[x] = Append(trail[x], e)
           \/ \E d, e \in Audited : trail'[x] = Append(Append(trail[x], d), e)

LEMMA Resourceful ==
    /\ Items \subseteq Resources /\ Observations \subseteq Resources
    /\ Artifacts \subseteq Resources
BY DEF Resources

(* A transaction on observations and facts.                                *)
LEMMA ObservationsChange ==
    ASSUME ArtifactRowsFit, Appends, UNCHANGED <<evidence, artifact, context>>,
           \A x \in Items \cup Artifacts : trail'[x] = trail[x],
           observation' = [o \in Observations |-> observation'[o]],
           fact' = [o \in Observations |-> fact'[o]],
           \A o \in Observations : ObservationFits(observation'[o], fact'[o], trail'[o]),
           \A o \in Stored : observation'[o] # None
    PROVE  ArtifactRowsFit' /\ Grows
<1>1. /\ \A x \in Resources : trail'[x] \in Seq(Audited)
      /\ \A x \in Resources : \A a : Judged(x, a) => Judged(x, a)'
      /\ SoundFacts \subseteq SoundFacts'
  BY AppendsGrow DEF Appends
<1>2. Stored \subseteq Stored'
  BY DEF Stored
<1>3. /\ observation' \in [Observations -> ObservationRow \cup {None}]
      /\ fact' \in [Observations -> FactRow \cup {None}]
  <2>1. \A o \in Observations : /\ observation'[o] \in ObservationRow \cup {None}
                                /\ fact'[o] \in FactRow \cup {None}
    BY DEF ObservationFits, TrailFits
  <2> QED BY <2>1
<1>4. \A x \in Artifacts : ArtifactFits(x)'
  BY DEF ArtifactRowsFit, ArtifactFits
<1>5. \A e \in Items : evidence'[e] = "VERIFIED" => Judged(e, "VERIFIED")'
  BY <1>1, Resourceful DEF ArtifactRowsFit
<1>6. \A facts \in context' : facts \in Seq(SoundFacts')
  <2>1. Seq(SoundFacts) \subseteq Seq(SoundFacts')
    BY <1>1
  <2> QED BY <2>1 DEF ArtifactRowsFit
<1>7. trail' \in [Resources -> Seq(Audited)]
  BY <1>1 DEF Appends
<1>8. evidence' \in [Items -> {"UNVERIFIED", "VERIFIED", "REJECTED"}]
      /\ artifact' \in [Artifacts -> ArtifactRow \cup {None}]
  BY DEF ArtifactRowsFit
<1>9. \A o \in Observations : ObservationFits(observation[o], fact[o], trail[o])'
  <2> SUFFICES ASSUME NEW o \in Observations
               PROVE  ObservationFits(observation[o], fact[o], trail[o])'
    OBVIOUS
  <2>1. ObservationFits(observation'[o], fact'[o], trail'[o])
    OBVIOUS
  <2> QED BY <2>1, Zenon
<1>10. ArtifactRowsFit'
  BY <1>3, <1>4, <1>5, <1>6, <1>7, <1>8, <1>9 DEF ArtifactRowsFit
<1> QED BY <1>1, <1>2, <1>10 DEF Grows

(* A transaction on summaries or analyses.                                 *)
LEMMA ArtifactsChange ==
    ASSUME ArtifactRowsFit, Appends, UNCHANGED <<evidence, observation, fact, context>>,
           \A x \in Items \cup Observations : trail'[x] = trail[x],
           artifact' = [x \in Artifacts |-> artifact'[x]],
           \A x \in Artifacts : ArtifactFits(x)'
    PROVE  ArtifactRowsFit' /\ Grows
<1>1. /\ \A x \in Resources : trail'[x] \in Seq(Audited)
      /\ \A x \in Resources : \A a : Judged(x, a) => Judged(x, a)'
      /\ SoundFacts \subseteq SoundFacts'
  BY AppendsGrow DEF Appends
<1>2. Stored \subseteq Stored'
  BY DEF Stored
<1>3. artifact' \in [Artifacts -> ArtifactRow \cup {None}]
  BY DEF ArtifactFits
<1>4. \A e \in Items : evidence'[e] = "VERIFIED" => Judged(e, "VERIFIED")'
  BY <1>1, Resourceful DEF ArtifactRowsFit
<1>5. \A facts \in context' : facts \in Seq(SoundFacts')
  <2>1. Seq(SoundFacts) \subseteq Seq(SoundFacts')
    BY <1>1
  <2> QED BY <2>1 DEF ArtifactRowsFit
<1>6. trail' \in [Resources -> Seq(Audited)]
  BY <1>1 DEF Appends
<1>7. \A o \in Observations : ObservationFits(observation[o], fact[o], trail[o])'
  <2> SUFFICES ASSUME NEW o \in Observations
               PROVE  ObservationFits(observation[o], fact[o], trail[o])'
    OBVIOUS
  <2>1. ObservationFits(observation[o], fact[o], trail[o])
    BY DEF ArtifactRowsFit
  <2>2. observation'[o] = observation[o] /\ fact'[o] = fact[o] /\ trail'[o] = trail[o]
    OBVIOUS
  <2>3. ObservationFits(observation'[o], fact'[o], trail'[o])
    BY <2>1, <2>2, Zenon
  <2> QED BY <2>3, Zenon
<1>8. ArtifactRowsFit'
  BY <1>3, <1>4, <1>5, <1>6, <1>7 DEF ArtifactRowsFit
<1> QED BY <1>1, <1>2, <1>8 DEF Grows

-----------------------------------------------------------------------------
(* The actions.                                                            *)

LEMMA VerifyEvidenceKeeps ==
    ASSUME ArtifactsInv, NEW p \in Requests, NEW e \in Items,
           NEW to \in {"VERIFIED", "REJECTED"}, VerifyEvidence(p, e, to)
    PROVE  ArtifactsInv'
<1> DEFINE new == NewEvent(to, p, None)
<1>1. new \in Audited /\ new.action = to
  BY DEF NewEvent, Audited
<1> HIDE DEF new
<1>2. /\ UNCHANGED <<observation, fact, artifact, context, request>>
      /\ evidence' = [evidence EXCEPT ![e] = to]
      /\ trail' = [trail EXCEPT ![e] = Append(trail[e], new)]
      /\ trail \in [Resources -> Seq(Audited)]
      /\ evidence \in [Items -> {"UNVERIFIED", "VERIFIED", "REJECTED"}]
  BY DEF VerifyEvidence, ArtifactsInv, ArtifactRowsFit, new
<1>3. /\ trail' = [x \in Resources |-> trail'[x]]
      /\ \A x \in Resources : trail'[x] = IF x = e THEN Append(trail[x], new) ELSE trail[x]
  BY <1>2
<1>4. Appends
  BY <1>1, <1>3 DEF Appends
<1>5. ArtifactRowsFit
  BY DEF ArtifactsInv
<1>6. /\ \A x \in Resources : trail'[x] \in Seq(Audited)
      /\ \A x \in Resources : \A a : Judged(x, a) => Judged(x, a)'
      /\ SoundFacts \subseteq SoundFacts'
  BY <1>4, <1>5, AppendsGrow DEF Appends
<1>7. Stored' = Stored
  BY <1>2 DEF Stored
<1>8. /\ evidence' \in [Items -> {"UNVERIFIED", "VERIFIED", "REJECTED"}]
      /\ \A x \in Items : evidence'[x] = IF x = e THEN to ELSE evidence[x]
  BY <1>2
<1>9. \A x \in Items : evidence'[x] = "VERIFIED" => Judged(x, "VERIFIED")'
  <2> SUFFICES ASSUME NEW x \in Items, evidence'[x] = "VERIFIED"
               PROVE  Judged(x, "VERIFIED")'
    OBVIOUS
  <2>1. CASE x = e
    <3>1. new.action \in {"VERIFIED"}
      BY <1>1, <1>8, <2>1
    <3>2. PICK now : now = trail[x]
      OBVIOUS
    <3>3. PICK then : then = Append(now, new)
      OBVIOUS
    <3>4. now \in Seq(Audited)
      BY <1>2, <3>2, Resourceful
    <3>5. Named(then, {"VERIFIED"}) # {}
      BY <1>1, <3>1, <3>3, <3>4, NamedAppend
    <3>6. trail'[x] = then
      BY <1>3, <2>1, <3>2, <3>3, Resourceful
    <3> QED BY <3>5, <3>6 DEF Judged, Named
  <2>2. CASE x # e
    BY <1>5, <1>6, <1>8, <2>2, Resourceful DEF ArtifactRowsFit
  <2> QED BY <2>1, <2>2
<1>10. \A o \in Observations \cup Artifacts : trail'[o] = trail[o]
  BY <1>3, ResourcesAreDistinct, Resourceful
<1>11. \A x \in Artifacts : ArtifactFits(x)'
  BY <1>2, <1>5, <1>10 DEF ArtifactRowsFit, ArtifactFits
<1>12. \A o \in Observations : ObservationFits(observation[o], fact[o], trail[o])'
  <2> SUFFICES ASSUME NEW o \in Observations
               PROVE  ObservationFits(observation[o], fact[o], trail[o])'
    OBVIOUS
  <2>1. ObservationFits(observation[o], fact[o], trail[o])
    BY <1>5 DEF ArtifactRowsFit
  <2>2. observation'[o] = observation[o] /\ fact'[o] = fact[o] /\ trail'[o] = trail[o]
    BY <1>2, <1>10
  <2>3. ObservationFits(observation'[o], fact'[o], trail'[o])
    BY <2>1, <2>2, Zenon
  <2> QED BY <2>3, Zenon
<1>13. \A facts \in context' : facts \in Seq(SoundFacts')
  <2>1. Seq(SoundFacts) \subseteq Seq(SoundFacts')
    BY <1>6
  <2> QED BY <1>2, <1>5, <2>1 DEF ArtifactRowsFit
<1>14. trail' \in [Resources -> Seq(Audited)]
  BY <1>3, <1>6
<1>15. ArtifactRowsFit'
  BY <1>2, <1>5, <1>8, <1>9, <1>11, <1>12, <1>13, <1>14 DEF ArtifactRowsFit
<1>16. LocalsFit'
  <2>1. Grows
    BY <1>6, <1>7 DEF Grows
  <2>2. ASSUME NEW q \in Requests PROVE LocalFits(request[q])'
    <3>1. PICK r : r = request[q]
      OBVIOUS
    <3>2. LocalFits(r)
      BY <3>1 DEF ArtifactsInv, LocalsFit
    <3>3. LocalFits(r)'
      BY <2>1, <3>2, LocalGrows
    <3>4. request'[q] = r
      BY <1>2, <3>1
    <3> QED BY <3>3, <3>4
  <2> QED BY <1>2, <2>2 DEF ArtifactsInv, LocalsFit
<1> QED BY <1>15, <1>16 DEF ArtifactsInv

LEMMA FailKeeps ==
    ASSUME ArtifactsInv, NEW p \in Requests, Fail(p)
    PROVE  ArtifactsInv'
<1>1. ArtifactRowsFit' /\ Grows
  BY RowsStay DEF ArtifactsInv, Fail
<1> QED BY <1>1, DoneKeeps DEF Fail

(* What a request carries once it has read what it is about.               *)
LEMMA BegunFits ==
    ASSUME NEW r, r \in Local(SoundFacts), r.pc # "building",
           r.pc \in {"reviewing", "verifying"} => r.on \in Stored /\ r.action \in ReviewActions,
           r.pc = "deciding" => r.on \in Artifacts /\ r.action \in {"ACCEPTED", "REJECTED"},
           r.pc = "observing" => r.on \in Items \cup {None}
    PROVE  LocalFits(r)
BY DEF LocalFits

LEMMA BeginningsKeep ==
    ASSUME ArtifactsInv, NEW p \in Requests, NEW on \in Resources \cup {None},
           NEW action \in ReviewActions \cup {None},
           NEW pc \in {"observing", "reviewing", "verifying", "analysing", "deciding"},
           pc \in {"reviewing", "verifying"} => on \in Stored /\ action \in ReviewActions,
           pc = "deciding" => on \in Artifacts /\ action \in {"ACCEPTED", "REJECTED"},
           pc = "observing" => on \in Items \cup {None},
           NEW r, Begin(p, r),
           r = [pc |-> pc, on |-> on, action |-> action, builder |-> None, todo |-> {}]
    PROVE  ArtifactsInv'
<1>1. r \in Local(SoundFacts) /\ r.pc = pc /\ r.on = on /\ r.action = action
  BY DEF Local
<1>2. LocalFits(r)
  BY <1>1, BegunFits
<1> QED BY <1>2, BeginKeeps

LEMMA RequestsKeep ==
    ASSUME ArtifactsInv, NEW p \in Requests,
           GenerateRequests(p) \/ ReviewRequests(p) \/ FactRequests(p)
             \/ AnalysisRequests(p) \/ AnalysisReviews(p) \/ SummaryReviews(p)
    PROVE  ArtifactsInv'
<1>1. ASSUME NEW e \in Items, GenerateObservations(p, e) PROVE ArtifactsInv'
  <2>1. PICK r : r = [Idle EXCEPT !.pc = "observing", !.on = e]
    OBVIOUS
  <2>2. r = [pc |-> "observing", on |-> e, action |-> None, builder |-> None, todo |-> {}]
    BY <2>1 DEF Idle
  <2>3. Begin(p, r)
    BY <1>1, <2>1 DEF GenerateObservations
  <2> QED BY <2>2, <2>3, BeginningsKeep, Resourceful
<1>2. ASSUME GenerateCaseObservations(p) PROVE ArtifactsInv'
  <2>1. PICK r : r = [Idle EXCEPT !.pc = "observing"]
    OBVIOUS
  <2>2. r = [pc |-> "observing", on |-> None, action |-> None, builder |-> None, todo |-> {}]
    BY <2>1 DEF Idle
  <2>3. Begin(p, r)
    BY <1>2, <2>1 DEF GenerateCaseObservations
  <2> QED BY <2>2, <2>3, BeginningsKeep
<1>3. ASSUME NEW o \in Observations, NEW a \in ReviewActions, ReviewObservation(p, o, a)
      PROVE  ArtifactsInv'
  <2>1. PICK r : r = [Idle EXCEPT !.pc = "reviewing", !.on = o, !.action = a]
    OBVIOUS
  <2>2. r = [pc |-> "reviewing", on |-> o, action |-> a, builder |-> None, todo |-> {}]
    BY <2>1 DEF Idle
  <2>3. Begin(p, r) /\ o \in Stored
    BY <1>3, <2>1 DEF ReviewObservation
  <2> QED BY <2>2, <2>3, BeginningsKeep, Resourceful
<1>4. ASSUME NEW o \in Observations, NEW a \in ReviewActions, CreateVerifiedFact(p, o, a)
      PROVE  ArtifactsInv'
  <2>1. PICK r : r = [Idle EXCEPT !.pc = "verifying", !.on = o, !.action = a]
    OBVIOUS
  <2>2. r = [pc |-> "verifying", on |-> o, action |-> a, builder |-> None, todo |-> {}]
    BY <2>1 DEF Idle
  <2>3. Begin(p, r) /\ o \in Stored
    BY <1>4, <2>1 DEF CreateVerifiedFact
  <2> QED BY <2>2, <2>3, BeginningsKeep, Resourceful
<1>5. ASSUME NEW d, GenerateAnalyses(p, d) PROVE ArtifactsInv'
  <2>1. PICK r : r = [Idle EXCEPT !.pc = "analysing"]
    OBVIOUS
  <2>2. r = [pc |-> "analysing", on |-> None, action |-> None, builder |-> None, todo |-> {}]
    BY <2>1 DEF Idle
  <2>3. Begin(p, r)
    BY <1>5, <2>1 DEF GenerateAnalyses
  <2> QED BY <2>2, <2>3, BeginningsKeep
<1>6. ASSUME NEW x \in Artifacts, NEW a \in {"ACCEPTED", "REJECTED"}, StartDecision(p, x, a)
      PROVE  ArtifactsInv'
  <2>1. PICK r : r = [Idle EXCEPT !.pc = "deciding", !.on = x, !.action = a]
    OBVIOUS
  <2>2. r = [pc |-> "deciding", on |-> x, action |-> a, builder |-> None, todo |-> {}]
    BY <2>1 DEF Idle
  <2>3. Begin(p, r)
    BY <1>6, <2>1 DEF StartDecision
  <2>4. a \in ReviewActions
    BY DEF ReviewActions
  <2> QED BY <2>2, <2>3, <2>4, BeginningsKeep, Resourceful
<1> QED BY <1>1, <1>2, <1>3, <1>4, <1>5, <1>6
        DEF GenerateRequests, ReviewRequests, FactRequests, AnalysisRequests,
            AnalysisReviews, SummaryReviews, ReviewAnalysis, ReviewCaseSummary, Artifacts

LEMMA StoreObservationsKeeps ==
    ASSUME ArtifactsInv, NEW p \in Requests, NEW answers \in SUBSET Observations,
           StoreObservations(p, answers)
    PROVE  ArtifactsInv'
<1> DEFINE new == NewObservation(request[p].on)
           e == NewEvent("ai.observation.created", p, None)
<1>1. /\ UNCHANGED <<evidence, fact, artifact, context>> /\ Done(p)
      /\ answers \cap Stored = {}
      /\ observation' = [o \in Observations |->
                            IF o \in answers THEN new ELSE observation[o]]
      /\ trail' = [x \in DOMAIN trail |->
                      IF x \in answers THEN Append(trail[x], e) ELSE trail[x]]
      /\ At(p, "observing")
  BY DEF StoreObservations
<1>2. ArtifactRowsFit /\ LocalFits(request[p])
  BY DEF ArtifactsInv, LocalsFit
<1>3. new \in ObservationRow /\ new.status = "OPEN"
  <2>1. request[p].on \in Items \cup {None}
    BY <1>1, <1>2 DEF LocalFits, At
  <2> QED BY <2>1 DEF NewObservation, ObservationRow, ObservationStatus
<1>4. e \in Audited /\ e.action = "ai.observation.created"
  BY DEF NewEvent, Audited
<1> HIDE DEF new, e
<1>5. DOMAIN trail = Resources
  BY <1>2 DEF ArtifactRowsFit
<1>6. /\ trail' = [x \in Resources |-> trail'[x]]
      /\ \A x \in Resources :
            trail'[x] = IF x \in answers THEN Append(trail[x], e) ELSE trail[x]
  BY <1>1, <1>5
<1>7. Appends
  BY <1>4, <1>6 DEF Appends
<1>8. \A x \in Items \cup Artifacts : trail'[x] = trail[x]
  BY <1>6, ResourcesAreDistinct, Resourceful
<1>9. ASSUME NEW o \in Observations
      PROVE  ObservationFits(observation'[o], fact'[o], trail'[o])
  <2>1. ObservationFits(observation[o], fact[o], trail[o])
    BY <1>2 DEF ArtifactRowsFit
  <2>2. CASE o \in answers
    <3>1. observation[o] = None
      BY <1>1, <2>2 DEF Stored
    <3>2. trail[o] = <<>>
      BY <2>1, <3>1 DEF ObservationFits, TrailFits
    <3>3. fact[o] = None
      <4>1. Named(<<>>, FactActions) = {}
        BY DEF Named
      <4> QED BY <2>1, <3>2, <4>1 DEF ObservationFits, TrailFits
    <3>4. observation'[o] = new /\ fact'[o] = None /\ trail'[o] = Append(<<>>, e)
      BY <1>1, <1>6, <2>2, <3>2, <3>3, Resourceful
    <3>5. ObservationFits(new, None, Append(<<>>, e))
      BY <1>3, <1>4, NewFits
    <3> QED BY <3>4, <3>5, Zenon
  <2>3. CASE o \notin answers
    <3>1. observation'[o] = observation[o] /\ fact'[o] = fact[o] /\ trail'[o] = trail[o]
      BY <1>1, <1>6, <2>3, Resourceful
    <3> QED BY <2>1, <3>1, Zenon
  <2> QED BY <2>2, <2>3
<1>10. \A o \in Stored : observation'[o] # None
  BY <1>1 DEF Stored
<1>11. observation' = [o \in Observations |-> observation'[o]]
       /\ fact' = [o \in Observations |-> fact'[o]]
  BY <1>1, <1>2 DEF ArtifactRowsFit
<1>12. ArtifactRowsFit' /\ Grows
  BY <1>1, <1>2, <1>7, <1>8, <1>9, <1>10, <1>11, ObservationsChange
<1> QED BY <1>1, <1>12, DoneKeeps

(* What a request that has read an observation finds when it writes.       *)
LEMMA ReadIsStored ==
    ASSUME ArtifactsInv, NEW p \in Requests, At(p, "reviewing") \/ At(p, "verifying")
    PROVE  /\ request[p].on \in Stored /\ request[p].on \in Observations
           /\ request[p].action \in ReviewActions
           /\ TrailFits(observation[request[p].on], fact[request[p].on], trail[request[p].on])
           /\ observation[request[p].on] \in ObservationRow
           /\ observation[request[p].on] # None
<1>1. LocalFits(request[p])
  BY DEF ArtifactsInv, LocalsFit
<1>2. request[p].on \in Stored /\ request[p].action \in ReviewActions
  BY <1>1 DEF LocalFits, At
<1> QED BY <1>2 DEF Stored, ArtifactsInv, ArtifactRowsFit, ObservationFits

(* One observation, its fact and its trail are written.                    *)
LEMMA OneObservationKeeps ==
    ASSUME ArtifactsInv, NEW p \in Requests, NEW o \in Observations,
           Done(p), UNCHANGED <<evidence, artifact, context>>,
           NEW row, NEW made, NEW events, ObservationFits(row, made, events), row # None,
           observation' = [observation EXCEPT ![o] = row],
           fact' = [fact EXCEPT ![o] = made],
           trail' = [trail EXCEPT ![o] = events],
           \/ \E e \in Audited : events = Append(trail[o], e)
           \/ \E d, e \in Audited : events = Append(Append(trail[o], d), e)
    PROVE  ArtifactsInv'
<1>1. ArtifactRowsFit
  BY DEF ArtifactsInv
<1>2. /\ trail' = [x \in Resources |-> trail'[x]]
      /\ \A x \in Resources : trail'[x] = IF x = o THEN events ELSE trail[x]
      /\ observation' = [x \in Observations |-> observation'[x]]
      /\ \A x \in Observations : observation'[x] = IF x = o THEN row ELSE observation[x]
      /\ fact' = [x \in Observations |-> fact'[x]]
      /\ \A x \in Observations : fact'[x] = IF x = o THEN made ELSE fact[x]
  BY <1>1, Resourceful DEF ArtifactRowsFit
<1>3. Appends
  <2> SUFFICES ASSUME NEW x \in Resources
               PROVE  \/ trail'[x] = trail[x]
                      \/ \E e \in Audited : trail'[x] = Append(trail[x], e)
                      \/ \E d, e \in Audited : trail'[x] = Append(Append(trail[x], d), e)
    BY <1>2 DEF Appends
  <2>1. CASE x = o
    <3>1. trail'[x] = events
      BY <1>2, <2>1
    <3> QED BY <2>1, <3>1, Zenon
  <2>2. CASE x # o
    BY <1>2, <2>2
  <2> QED BY <2>1, <2>2
<1>4. \A x \in Items \cup Artifacts : trail'[x] = trail[x]
  BY <1>2, ResourcesAreDistinct, Resourceful
<1>5. ASSUME NEW x \in Observations
      PROVE  ObservationFits(observation'[x], fact'[x], trail'[x])
  <2>1. CASE x = o
    <3>1. observation'[x] = row /\ fact'[x] = made /\ trail'[x] = events
      BY <1>2, <2>1, Resourceful
    <3> QED BY <3>1, Zenon
  <2>2. CASE x # o
    <3>1. ObservationFits(observation[x], fact[x], trail[x])
      BY <1>1 DEF ArtifactRowsFit
    <3>2. observation'[x] = observation[x] /\ fact'[x] = fact[x] /\ trail'[x] = trail[x]
      BY <1>2, <2>2, Resourceful
    <3> QED BY <3>1, <3>2, Zenon
  <2> QED BY <2>1, <2>2
<1>6. \A x \in Stored : observation'[x] # None
  BY <1>2 DEF Stored
<1>7. ArtifactRowsFit' /\ Grows
  BY <1>1, <1>2, <1>3, <1>4, <1>5, <1>6, ObservationsChange
<1> QED BY <1>7, DoneKeeps

LEMMA SaveVerifiedFactKeeps ==
    ASSUME ArtifactsInv, NEW p \in Requests, SaveVerifiedFact(p)
    PROVE  ArtifactsInv'
<1>1. PICK o : o = request[p].on
  OBVIOUS
<1>2. PICK a : a = request[p].action
  OBVIOUS
<1>3. PICK row : row = observation[o]
  OBVIOUS
<1>4. PICK made : made = NewVerifiedFact(p, a)
  OBVIOUS
<1>5. PICK e : e = RecordedFact(p, a)
  OBVIOUS
<1>6. PICK now : now = trail[o]
  OBVIOUS
<1>7. PICK events : events = Append(now, e)
  OBVIOUS
<1>8. /\ At(p, "verifying") /\ Done(p)
      /\ UNCHANGED <<evidence, observation, artifact, context>>
      /\ fact' = [fact EXCEPT ![o] = made]
      /\ trail' = [trail EXCEPT ![o] = events]
  BY <1>1, <1>2, <1>4, <1>5, <1>6, <1>7 DEF SaveVerifiedFact, SaveFact
<1>9. /\ o \in Observations /\ a \in ReviewActions /\ row # None
      /\ TrailFits(row, fact[o], now)
  BY <1>1, <1>2, <1>3, <1>6, <1>8, ReadIsStored
<1>10. ObservationFits(row, made, events)
  <2>1. ObservationFits(row, NewVerifiedFact(p, a), Append(now, RecordedFact(p, a)))
    BY <1>9, FactFits
  <2> QED BY <1>4, <1>5, <1>7, <2>1
<1>11. observation' = [observation EXCEPT ![o] = row]
  BY <1>3, <1>8, <1>9 DEF ArtifactsInv, ArtifactRowsFit
<1>12. e \in Audited /\ events = Append(trail[o], e)
  BY <1>5, <1>6, <1>7, <1>9, ReviewIsAudited
<1>13. \E d \in Audited : events = Append(trail[o], d)
  BY <1>12
<1> QED BY <1>8, <1>9, <1>10, <1>11, <1>13, OneObservationKeeps

LEMMA SaveReviewKeeps ==
    ASSUME ArtifactsInv, NEW p \in Requests, SaveReview(p)
    PROVE  ArtifactsInv'
<1>1. PICK o : o = request[p].on
  OBVIOUS
<1>2. PICK a : a = request[p].action
  OBVIOUS
<1>3. PICK row : row = observation[o]
  OBVIOUS
<1>4. PICK new : new = [row EXCEPT !.status = a, !.by = p]
  OBVIOUS
<1>5. PICK made : made = NewVerifiedFact(p, a)
  OBVIOUS
<1>6. PICK now : now = trail[o]
  OBVIOUS
<1>7. PICK d : d = NewEvent(AuditActionOf(a), p, a)
  OBVIOUS
<1>8. PICK e : e = RecordedFact(p, a)
  OBVIOUS
<1>9. PICK reviewed : reviewed = Append(now, d)
  OBVIOUS
<1>10. PICK events : events = Append(reviewed, e)
  OBVIOUS
<1>11. /\ At(p, "reviewing") /\ Done(p) /\ UNCHANGED <<evidence, artifact, context>>
       /\ observation' = [observation EXCEPT ![o].status = a, ![o].by = p]
       /\ BecomesFact(a) => /\ fact' = [fact EXCEPT ![o] = made]
                            /\ trail' = [trail EXCEPT ![o] = events]
       /\ ~BecomesFact(a) => fact' = fact /\ trail' = [trail EXCEPT ![o] = reviewed]
  BY <1>1, <1>2, <1>5, <1>6, <1>7, <1>8, <1>9, <1>10 DEF SaveReview, SaveFact
<1>12. /\ o \in Observations /\ a \in ReviewActions /\ row \in ObservationRow
       /\ TrailFits(row, fact[o], now)
  BY <1>1, <1>2, <1>3, <1>6, <1>11, ReadIsStored
<1>13. /\ TrailFits(new, fact[o], reviewed)
       /\ new \in ObservationRow /\ new.status = a
  <2>1. PICK kept : kept = fact[o]
    OBVIOUS
  <2>2. TrailFits(row, kept, now)
    BY <1>12, <2>1
  <2>3. new \in ObservationRow /\ new.status = a /\ new.by = p
    BY <1>4, <1>12 DEF ObservationRow, ObservationStatus
  <2>4. TrailFits(new, kept, Append(now, NewEvent(AuditActionOf(a), p, a)))
    BY <1>12, <2>2, <2>3, ReviewFits
  <2> QED BY <1>7, <1>9, <2>1, <2>3, <2>4
<1>14. new # None
  BY <1>13, NoneIsNoRow
<1>15. observation' = [observation EXCEPT ![o] = new]
  BY <1>3, <1>4, <1>11, <1>12 DEF ArtifactsInv, ArtifactRowsFit, ObservationRow
<1>16. d \in Audited /\ e \in Audited
  BY <1>7, <1>8, <1>12, ReviewIsAudited
<1>17. CASE BecomesFact(a)
  <2>1. ObservationFits(new, made, events)
    <3>1. ObservationFits(new, NewVerifiedFact(p, a), Append(reviewed, RecordedFact(p, a)))
      BY <1>12, <1>13, <1>14, FactFits
    <3> QED BY <1>5, <1>8, <1>10, <3>1
  <2>2. \E x, y \in Audited : events = Append(Append(trail[o], x), y)
    <3>1. events = Append(Append(trail[o], d), e)
      BY <1>6, <1>9, <1>10
    <3> QED BY <1>16, <3>1
  <2> QED BY <1>11, <1>12, <1>14, <1>15, <1>17, <2>1, <2>2, OneObservationKeeps
<1>18. CASE ~BecomesFact(a)
  <2>1. PICK kept : kept = fact[o]
    OBVIOUS
  <2>2. ObservationFits(new, kept, reviewed)
    BY <1>13, <1>18, <2>1 DEF ObservationFits, BecomesFact
  <2>3. \E x \in Audited : reviewed = Append(trail[o], x)
    BY <1>6, <1>9, <1>16
  <2>4. fact' = [fact EXCEPT ![o] = kept]
    BY <1>11, <1>18, <2>1 DEF ArtifactsInv, ArtifactRowsFit
  <2> QED BY <1>11, <1>12, <1>14, <1>15, <1>18, <2>2, <2>3, <2>4, OneObservationKeeps
<1> QED BY <1>17, <1>18

LEMMA StartBuildKeeps ==
    ASSUME ArtifactsInv, NEW p \in Requests, NEW o \in Options,
           NEW for \in {"context", "summary"}, StartBuild(p, o, for)
    PROVE  ArtifactsInv'
<1>1. PICK b : b = NewContextBuilder(o)
  OBVIOUS
<1>2. PICK todo : todo = {i \in DOMAIN Sections : IsIncluded(o, Sections[i])}
  OBVIOUS
<1>3. PICK r : r = [Idle EXCEPT !.pc = "building", !.action = for,
                                !.builder = b, !.todo = todo]
  OBVIOUS
<1>4. Begin(p, r)
  BY <1>1, <1>2, <1>3 DEF StartBuild
<1>5. r = [pc |-> "building", on |-> None, action |-> for, builder |-> b, todo |-> todo]
  BY <1>3 DEF Idle
<1>6. b \in Builder(SoundFacts) /\ todo \subseteq DOMAIN Sections
  BY <1>1, <1>2, StartsEmpty
<1>7. r \in Local(SoundFacts) /\ r.pc = "building" /\ r.builder = b
  BY <1>5, <1>6 DEF Local
<1>8. LocalFits(r)
  BY <1>6, <1>7 DEF LocalFits
<1> QED BY <1>4, <1>8, BeginKeeps

(* What the rows say of a judgement, the trail says too.                   *)
LEMMA RowsAreJudged ==
    ASSUME ArtifactRowsFit
    PROVE  JudgedOK
<1>1. ASSUME NEW x \in Stored, observation[x].status = "ACCEPTED"
      PROVE  Judged(x, "ai.observation.accepted")
  <2>1. PICK row : row = observation[x]
    OBVIOUS
  <2>2. PICK events : events = trail[x]
    OBVIOUS
  <2>3. PICK made : made = fact[x]
    OBVIOUS
  <2>4. x \in Observations /\ row # None /\ row.status = "ACCEPTED"
    BY <1>1, <2>1 DEF Stored
  <2>5. TrailFits(row, made, events)
    BY <2>1, <2>2, <2>3, <2>4 DEF ArtifactRowsFit, ObservationFits
  <2>6. /\ events \in Seq(Audited) /\ Named(events, ReviewEvents) # {}
        /\ LastNamed(events, ReviewEvents)
             = NewEvent("ai.observation.accepted", row.by, "ACCEPTED")
    BY <2>4, <2>5 DEF TrailFits, AuditActionOf
  <2>7. PICK k : k = Max(Named(events, ReviewEvents))
    OBVIOUS
  <2>8. k \in Named(events, ReviewEvents)
    BY <2>6, <2>7, LastOfNamed
  <2>9. events[k].action = "ai.observation.accepted"
    BY <2>6, <2>7 DEF LastNamed, NewEvent
  <2>10. k \in Named(events, {"ai.observation.accepted"})
    BY <2>8, <2>9 DEF Named
  <2> QED BY <2>2, <2>10 DEF Judged
<1> QED BY <1>1 DEF JudgedOK, ArtifactRowsFit

LEMMA SmallestTodo ==
    ASSUME NEW T \in SUBSET DOMAIN Sections, T # {}
    PROVE  Min(T) \in T
<1>1. T \subseteq Nat
  BY DEF Sections
<1>2. \E x \in T : \A y \in T : x <= y
  BY <1>1, LeastNumber
<1> QED BY <1>2 DEF Min

LEMMA BuildSectionKeeps ==
    ASSUME ArtifactsInv, NEW p \in Requests, NEW found \in BOOLEAN,
           BuildSection(p, found)
    PROVE  ArtifactsInv'
<1>1. PICK r : r = request[p]
  OBVIOUS
<1>2. PICK next : next = Min(r.todo)
  OBVIOUS
<1>3. PICK facts : facts = IF found THEN StoredFacts(r.builder.options, Sections[next])
                           ELSE <<>>
  OBVIOUS
<1>4. PICK b : b = AddFacts(r.builder, facts)
  OBVIOUS
<1>5. PICK todo : todo = r.todo \ {next}
  OBVIOUS
<1>6. /\ At(p, "building") /\ r.todo # {}
      /\ request' = [request EXCEPT ![p].builder = b, ![p].todo = todo]
      /\ UNCHANGED rows
  <2>1. request' = [request EXCEPT ![p].builder = b, ![p].todo = @ \ {next}]
    BY <1>1, <1>2, <1>3, <1>4, Zenon DEF BuildSection
  <2>2. At(p, "building") /\ r.todo # {} /\ UNCHANGED rows
    BY <1>1, <1>2 DEF BuildSection
  <2>3. request \in [Requests -> Local(SoundFacts)]
    BY DEF ArtifactsInv, LocalsFit, LocalFits
  <2> QED BY <1>1, <1>5, <2>1, <2>2, <2>3 DEF Local
<1>7. /\ r \in Local(SoundFacts) /\ r.builder \in Builder(SoundFacts) /\ r.pc = "building"
      /\ r.todo \in SUBSET DOMAIN Sections
  <2>1. LocalFits(r) /\ r.pc = "building"
    BY <1>1, <1>6 DEF ArtifactsInv, LocalsFit, At
  <2> QED BY <2>1 DEF LocalFits, Local
<1>8. next \in DOMAIN Sections
  BY <1>2, <1>6, <1>7, SmallestTodo
<1>9. facts \in Seq(SoundFacts)
  <2>1. CASE found
    <3>1. PICK s : s = Sections[next]
      OBVIOUS
    <3>2. s \in Range(Sections)
      BY <1>8, <3>1 DEF Range
    <3>3. JudgedOK
      BY RowsAreJudged DEF ArtifactsInv
    <3>4. PICK o : o = r.builder.options
      OBVIOUS
    <3>5. StoredFacts(o, s) \in Seq(SoundFacts)
      BY <3>2, <3>3, StoredFactsSound
    <3> QED BY <1>3, <2>1, <3>1, <3>4, <3>5
  <2>2. CASE ~found
    BY <1>3, <2>2
  <2> QED BY <2>1, <2>2
<1>10. b \in Builder(SoundFacts)
  <2>1. PICK G : G = SoundFacts
    OBVIOUS
  <2>2. PICK old : old = r.builder
    OBVIOUS
  <2>3. G \subseteq Fact /\ old \in Builder(G) /\ facts \in Seq(G)
    BY <1>7, <1>9, <2>1, <2>2, SoundAreFacts
  <2>4. AddFacts(old, facts) \in Builder(G)
    BY <2>3, AddFactsKeeps
  <2> QED BY <1>4, <2>1, <2>2, <2>4
<1>11. PICK new : new = [r EXCEPT !.builder = b, !.todo = todo]
  OBVIOUS
<1>12. request' = [request EXCEPT ![p] = new]
  <2>1. request = [q \in Requests |-> request[q]]
    BY DEF ArtifactsInv, LocalsFit
  <2> QED BY <1>1, <1>6, <1>7, <1>11, <2>1 DEF Local
<1>13. /\ new \in Local(SoundFacts) /\ new.builder = b /\ new.pc = "building"
  BY <1>5, <1>7, <1>10, <1>11 DEF Local
<1>14. LocalFits(new)
  BY <1>10, <1>13 DEF LocalFits
<1>15. ArtifactRowsFit' /\ Grows
  BY <1>6, RowsStay DEF ArtifactsInv
<1>16. LocalFits(new)'
  BY <1>14, <1>15, LocalGrows
<1> QED BY <1>12, <1>15, <1>16, LocalsGrow DEF ArtifactsInv

LEMMA SaveContextKeeps ==
    ASSUME ArtifactsInv, NEW p \in Requests, SaveContext(p)
    PROVE  ArtifactsInv'
<1>1. PICK r : r = request[p]
  OBVIOUS
<1>2. LocalFits(r) /\ r.pc = "building" /\ r.builder \in Builder(SoundFacts)
  <2>1. LocalFits(r) /\ r.pc = "building"
    BY <1>1 DEF SaveContext, ArtifactsInv, LocalsFit, At
  <2> QED BY <2>1 DEF LocalFits
<1>3. PICK facts : facts = r.builder.facts
  OBVIOUS
<1>4. facts \in Seq(SoundFacts)
  BY <1>2, <1>3 DEF Builder
<1>5. /\ UNCHANGED <<evidence, observation, fact, artifact, trail>>
      /\ context' = context \cup {facts}
  BY <1>1, <1>3 DEF SaveContext
<1>6. SoundFacts' = SoundFacts /\ Stored' = Stored
  BY <1>5 DEF SoundFacts, IsEarned, Judged, Stored
<1>7. ArtifactRowsFit' /\ Grows
  BY <1>4, <1>5, <1>6 DEF ArtifactsInv, ArtifactRowsFit, ArtifactFits, Judged, Grows
<1>8. CASE Done(p)
  BY <1>7, <1>8, DoneKeeps
<1>9. CASE request' = [request EXCEPT ![p].pc = "summarising"]
  <2>1. PICK new : new = [r EXCEPT !.pc = "summarising"]
    OBVIOUS
  <2>2. request' = [request EXCEPT ![p] = new]
    BY <1>1, <1>9, <2>1 DEF ArtifactsInv, LocalsFit
  <2>3. new \in Local(SoundFacts) /\ new.pc = "summarising"
    BY <1>2, <2>1 DEF LocalFits, Local
  <2>4. LocalFits(new)
    BY <2>3 DEF LocalFits
  <2>5. LocalFits(new)'
    BY <1>7, <2>4, LocalGrows
  <2> QED BY <1>7, <2>2, <2>5, LocalsGrow DEF ArtifactsInv
<1> QED BY <1>8, <1>9 DEF SaveContext

(* New rows wait for their review.                                         *)
LEMMA InsertionsKeep ==
    ASSUME ArtifactsInv, NEW p \in Requests, NEW new \in SUBSET Artifacts,
           Done(p), UNCHANGED <<evidence, observation, fact, context>>,
           NEW row \in ArtifactRow, row.status = "PENDING_REVIEW", NEW e \in Audited,
           artifact' = [x \in Artifacts |-> IF x \in new THEN row ELSE artifact[x]],
           trail' = [x \in Resources |-> IF x \in new THEN Append(trail[x], e) ELSE trail[x]]
    PROVE  ArtifactsInv'
<1>1. ArtifactRowsFit
  BY DEF ArtifactsInv
<1>2. /\ trail' = [x \in Resources |-> trail'[x]]
      /\ \A x \in Resources : trail'[x] = IF x \in new THEN Append(trail[x], e) ELSE trail[x]
      /\ artifact' = [x \in Artifacts |-> artifact'[x]]
      /\ \A x \in Artifacts : artifact'[x] = IF x \in new THEN row ELSE artifact[x]
  OBVIOUS
<1>3. Appends
  BY <1>2 DEF Appends
<1>4. \A x \in Items \cup Observations : trail'[x] = trail[x]
  BY <1>2, ResourcesAreDistinct, Resourceful
<1>5. \A x \in Artifacts : ArtifactFits(x)'
  <2> SUFFICES ASSUME NEW x \in Artifacts PROVE ArtifactFits(x)'
    OBVIOUS
  <2>1. CASE x \in new
    BY <1>2, <2>1 DEF ArtifactFits
  <2>2. CASE x \notin new
    <3>1. artifact'[x] = artifact[x] /\ trail'[x] = trail[x]
      BY <1>2, <2>2, Resourceful
    <3> QED BY <1>1, <3>1 DEF ArtifactRowsFit, ArtifactFits
  <2> QED BY <2>1, <2>2
<1>6. ArtifactRowsFit' /\ Grows
  BY <1>1, <1>2, <1>3, <1>4, <1>5, ArtifactsChange
<1> QED BY <1>6, DoneKeeps

LEMMA SaveSummaryKeeps ==
    ASSUME ArtifactsInv, NEW p \in Requests, NEW s \in Summaries, SaveSummary(p, s)
    PROVE  ArtifactsInv'
<1>1. PICK row : row = NewCaseSummary
  OBVIOUS
<1>2. PICK e : e = NewEvent("case_summary.generated", p, None)
  OBVIOUS
<1>3. /\ row \in ArtifactRow /\ row.status = "PENDING_REVIEW" /\ e \in Audited
      /\ s \in Artifacts
  BY <1>1, <1>2 DEF NewCaseSummary, ArtifactRow, NewEvent, Audited, Artifacts
<1>4. /\ Done(p) /\ UNCHANGED <<evidence, observation, fact, context>>
      /\ artifact' = [artifact EXCEPT ![s] = row]
      /\ trail' = [trail EXCEPT ![s] = Append(trail[s], e)]
  BY <1>1, <1>2 DEF SaveSummary, InsertSummary
<1>5. PICK new \in SUBSET Artifacts : new = {s}
  BY <1>3
<1>6. /\ artifact' = [x \in Artifacts |-> IF x \in new THEN row ELSE artifact[x]]
      /\ trail' = [x \in Resources |-> IF x \in new THEN Append(trail[x], e) ELSE trail[x]]
  BY <1>3, <1>4, <1>5, Resourceful DEF ArtifactsInv, ArtifactRowsFit
<1>7. Done(p) /\ UNCHANGED <<evidence, observation, fact, context>>
  BY <1>4
<1> QED BY <1>3, <1>6, <1>7, InsertionsKeep

LEMMA SaveAnalysesKeeps ==
    ASSUME ArtifactsInv, NEW p \in Requests, NEW answers \in SUBSET Analyses,
           SaveAnalyses(p, answers)
    PROVE  ArtifactsInv'
<1>1. PICK row : row = NewDocumentAnalysis
  OBVIOUS
<1>2. PICK e : e = NewEvent("document_analysis.created", p, None)
  OBVIOUS
<1>3. /\ row \in ArtifactRow /\ row.status = "PENDING_REVIEW" /\ e \in Audited
      /\ answers \in SUBSET Artifacts
  BY <1>1, <1>2 DEF NewDocumentAnalysis, ArtifactRow, NewEvent, Audited, Artifacts
<1>4. /\ Done(p) /\ UNCHANGED <<evidence, observation, fact, context>>
      /\ artifact' = [x \in Artifacts |-> IF x \in answers THEN row ELSE artifact[x]]
      /\ trail' = [x \in DOMAIN trail |->
                      IF x \in answers THEN Append(trail[x], e) ELSE trail[x]]
  BY <1>1, <1>2 DEF SaveAnalyses, InsertAnalyses
<1>5. trail' = [x \in Resources |->
                    IF x \in answers THEN Append(trail[x], e) ELSE trail[x]]
  BY <1>4 DEF ArtifactsInv, ArtifactRowsFit
<1> QED BY <1>3, <1>4, <1>5, InsertionsKeep

LEMMA SaveDecisionKeeps ==
    ASSUME ArtifactsInv, NEW p \in Requests, SaveDecision(p)
    PROVE  ArtifactsInv'
<1>1. PICK s : s = request[p].on
  OBVIOUS
<1>2. PICK a : a = request[p].action
  OBVIOUS
<1>3. PICK e : e = NewEvent(DecisionOn(s, a), p, a)
  OBVIOUS
<1>4. PICK row : row = [status |-> a, by |-> p]
  OBVIOUS
<1>5. /\ Done(p) /\ UNCHANGED <<evidence, observation, fact, context>>
      /\ At(p, "deciding")
      /\ \/ UNCHANGED <<artifact, trail>>
         \/ /\ artifact' = [artifact EXCEPT ![s] = row]
            /\ trail' = [trail EXCEPT ![s] = Append(trail[s], e)]
  BY <1>1, <1>2, <1>3, <1>4 DEF SaveDecision
<1>6. s \in Artifacts /\ a \in {"ACCEPTED", "REJECTED"}
  BY <1>1, <1>2, <1>5 DEF ArtifactsInv, LocalsFit, LocalFits, At
<1>7. /\ row \in ArtifactRow /\ row.status = a /\ row.by = p
      /\ e \in Audited
  <2>1. DecisionOn(s, a) \in {"case_summary.accepted", "case_summary.rejected",
                              "document_analysis.accepted", "document_analysis.rejected"}
    BY <1>6 DEF DecisionOn, Artifacts
  <2> QED BY <1>3, <1>4, <1>6, <2>1 DEF ArtifactRow, NewEvent, Audited, ReviewActions
<1>8. ArtifactRowsFit
  BY DEF ArtifactsInv
<1>9. CASE UNCHANGED <<artifact, trail>>
  <2>1. UNCHANGED rows
    BY <1>5, <1>9 DEF rows
  <2> QED BY <1>5, <1>8, <2>1, RowsStay, DoneKeeps
<1>10. CASE /\ artifact' = [artifact EXCEPT ![s] = row]
            /\ trail' = [trail EXCEPT ![s] = Append(trail[s], e)]
  <2>1. /\ trail' = [x \in Resources |-> trail'[x]]
        /\ \A x \in Resources : trail'[x] = IF x = s THEN Append(trail[x], e) ELSE trail[x]
        /\ artifact' = [x \in Artifacts |-> artifact'[x]]
        /\ \A x \in Artifacts : artifact'[x] = IF x = s THEN row ELSE artifact[x]
    BY <1>6, <1>8, <1>10, Resourceful DEF ArtifactRowsFit
  <2>2. Appends
    BY <1>7, <2>1 DEF Appends
  <2>3. \A x \in Items \cup Observations : trail'[x] = trail[x]
    BY <1>6, <2>1, ResourcesAreDistinct, Resourceful
  <2>4. \A x \in Artifacts : ArtifactFits(x)'
    <3> SUFFICES ASSUME NEW x \in Artifacts PROVE ArtifactFits(x)'
      OBVIOUS
    <3>1. CASE x = s
      <4>1. PICK now : now = trail[x]
        OBVIOUS
      <4>2. PICK then : then = Append(now, e)
        OBVIOUS
      <4>3. now \in Seq(Audited)
        BY <1>8, <4>1, Resourceful DEF ArtifactRowsFit
      <4>4. then # <<>> /\ Last(then) = e
        BY <1>7, <4>2, <4>3, NamedAppend
      <4>5. artifact'[x] = row /\ trail'[x] = then
        BY <2>1, <3>1, <4>1, <4>2, Resourceful
      <4>6. e = NewEvent(DecisionOn(x, row.status), row.by, row.status)
        BY <1>3, <1>7, <3>1
      <4> QED BY <1>7, <4>4, <4>5, <4>6 DEF ArtifactFits
    <3>2. CASE x # s
      <4>1. artifact'[x] = artifact[x] /\ trail'[x] = trail[x]
        BY <2>1, <3>2, Resourceful
      <4> QED BY <1>8, <4>1 DEF ArtifactRowsFit, ArtifactFits
    <3> QED BY <3>1, <3>2
  <2>5. ArtifactRowsFit' /\ Grows
    BY <1>5, <1>8, <2>1, <2>2, <2>3, <2>4, ArtifactsChange
  <2> QED BY <1>5, <2>5, DoneKeeps
<1> QED BY <1>5, <1>9, <1>10

LEMMA ArtifactsStep == ArtifactsInv /\ [ArtifactsNext]_artifactVars => ArtifactsInv'
<1> SUFFICES ASSUME ArtifactsInv, [ArtifactsNext]_artifactVars PROVE ArtifactsInv'
  OBVIOUS
<1>1. CASE UNCHANGED artifactVars
  <2>1. UNCHANGED rows /\ UNCHANGED request
    BY <1>1 DEF artifactVars
  <2>2. ArtifactRowsFit' /\ Grows
    BY <2>1, RowsStay DEF ArtifactsInv
  <2>3. ASSUME NEW q \in Requests PROVE LocalFits(request[q])'
    <3>1. PICK r : r = request[q]
      OBVIOUS
    <3>2. LocalFits(r)
      BY <3>1 DEF ArtifactsInv, LocalsFit
    <3>3. LocalFits(r)'
      BY <2>2, <3>2, LocalGrows
    <3> QED BY <2>1, <3>1, <3>3
  <2> QED BY <2>1, <2>2, <2>3 DEF ArtifactsInv, LocalsFit
<1>2. ASSUME NEW p \in Requests, Start(p) PROVE ArtifactsInv'
  <2>1. ASSUME NEW e \in Items, NEW to \in {"VERIFIED", "REJECTED"}, VerifyEvidence(p, e, to)
        PROVE  ArtifactsInv'
    BY <2>1, VerifyEvidenceKeeps
  <2>2. ASSUME SummaryRequests(p) \/ ContextRequests(p) PROVE ArtifactsInv'
    <3>1. SummaryOptions \in Options /\ ContextOptions \subseteq Options
      BY BudgetsArePositive
    <3> QED BY <2>2, <3>1, StartBuildKeeps
            DEF SummaryRequests, ContextRequests, GenerateCaseSummary, BuildContext
  <2> QED BY <1>2, <2>1, <2>2, RequestsKeep DEF Start
<1>3. ASSUME NEW p \in Requests, Step(p) PROVE ArtifactsInv'
  <2>1. ASSUME NEW answers \in SUBSET Observations,
               SaveObservations(p, answers) \/ SaveCaseObservations(p, answers)
        PROVE  ArtifactsInv'
    BY <2>1, StoreObservationsKeeps DEF SaveObservations, SaveCaseObservations
  <2>2. ASSUME NEW found \in BOOLEAN, BuildSection(p, found) PROVE ArtifactsInv'
    BY <2>2, BuildSectionKeeps
  <2>3. ASSUME NEW answers \in SUBSET Analyses, SaveAnalyses(p, answers) PROVE ArtifactsInv'
    BY <2>3, SaveAnalysesKeeps
  <2>4. ASSUME NEW x \in Summaries, SaveSummary(p, x) PROVE ArtifactsInv'
    BY <2>4, SaveSummaryKeeps
  <2> QED BY <1>3, <2>1, <2>2, <2>3, <2>4, SaveReviewKeeps, SaveVerifiedFactKeeps,
             SaveContextKeeps, SaveDecisionKeeps, FailKeeps DEF Step
<1> QED BY <1>1, <1>2, <1>3 DEF ArtifactsNext

(* Whatever a model answers, and however reviewers, fact makers and context *)
(* builders interleave, the rows, the trail and the builders fit together:  *)
(* the inductive invariant of module AIArtifacts.                           *)
THEOREM ArtifactsInvariance == ArtifactsSpec => []ArtifactsInv
BY ArtifactsStart, ArtifactsStep, PTL DEF ArtifactsSpec

(* An accepted or corrected observation has a verified fact, and the fact   *)
(* is the decision the trail names last, though SaveReview compares nothing *)
(* with what it read and CreateVerifiedFact never looks at the status.      *)
THEOREM FactsAreTheReviewers == ArtifactsSpec => []FactsFollowReviews
<1>1. ArtifactsInv => FactsFollowReviews
  <2> SUFFICES ASSUME ArtifactsInv PROVE FactsFollowReviews
    OBVIOUS
  <2>1. \A o \in Observations : /\ TrailFits(observation[o], fact[o], trail[o])
                                /\ ObservationFits(observation[o], fact[o], trail[o])
    BY DEF ArtifactsInv, ArtifactRowsFit, ObservationFits
  <2>2. ReviewedHasItsFact
    BY <2>1 DEF ReviewedHasItsFact, ObservationFits, Stored
  <2>3. FactIsTheLastDecision
    BY <2>1 DEF FactIsTheLastDecision, TrailFits
  <2> QED BY <2>2, <2>3 DEF FactsFollowReviews
<1> QED BY <1>1, ArtifactsInvariance, PTL

(* No status of an observation, a summary or an analysis but the first is   *)
(* without the event that names it and its reviewer, whatever constraint    *)
(* refuses the event (SaveReview, SaveDecision).                            *)
THEOREM NoDecisionWithoutItsRecord == ArtifactsSpec => []LastReviewIsAudited
<1>1. ArtifactsInv => LastReviewIsAudited
  <2> SUFFICES ASSUME ArtifactsInv PROVE LastReviewIsAudited
    OBVIOUS
  <2>1. \A o \in Stored : TrailFits(observation[o], fact[o], trail[o]) /\ observation[o] # None
    BY DEF ArtifactsInv, ArtifactRowsFit, ObservationFits, Stored
  <2>2. \A x \in Artifacts : ArtifactFits(x)
    BY DEF ArtifactsInv, ArtifactRowsFit
  <2> QED BY <2>1, <2>2 DEF LastReviewIsAudited, TrailFits, ArtifactFits
<1> QED BY <1>1, ArtifactsInvariance, PTL

(* Whatever rows there are and whatever they cost, a context stays within   *)
(* its caller's budget over all its sections, and calls nothing verified    *)
(* that no person has judged (AddFact, BuildSection, SaveContext).          *)
THEOREM ContextsKeepTheirWord == ArtifactsSpec => []ContextsAreHonest
<1>1. ArtifactsInv => ContextsAreHonest
  <2> SUFFICES ASSUME ArtifactsInv PROVE ContextsAreHonest
    OBVIOUS
  <2>1. ASSUME NEW b \in Builders PROVE b \in Builder(SoundFacts)
    BY DEF Builders, ArtifactsInv, LocalsFit, LocalFits, Local
  <2>2. \A facts \in {b.facts : b \in Builders} \cup context : facts \in Seq(SoundFacts)
    BY <2>1 DEF Builder, ArtifactsInv, ArtifactRowsFit
  <2>3. VerifiedLabelsWereEarned
    <3> SUFFICES ASSUME NEW facts \in {b.facts : b \in Builders} \cup context,
                        NEW i \in DOMAIN facts, facts[i].provenance = "HUMAN_VERIFIED"
                 PROVE  IsEarned(facts[i])
      BY DEF VerifiedLabelsWereEarned
    <3>1. PICK f : f = facts[i]
      OBVIOUS
    <3>2. f \in SoundFacts
      BY <2>2, <3>1
    <3>3. IsEarned(f)
      BY <3>1, <3>2 DEF SoundFacts
    <3> QED BY <3>1, <3>3
  <2>4. ContextFitsItsBudget
    BY <2>1 DEF ContextFitsItsBudget, Builder
  <2> QED BY <2>3, <2>4 DEF ContextsAreHonest
<1> QED BY <1>1, ArtifactsInvariance, PTL
============================================================================
