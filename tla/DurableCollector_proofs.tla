------------------------ MODULE DurableCollector_proofs ------------------------
(***************************************************************************)
(* For any number of restarts, any observations in any order and any       *)
(* failing transactions: evidence is never rewritten and has no hole, a    *)
(* process knows exactly the recorded prefix, every stored decision is the *)
(* one the verifying replay makes again, and none is lost unnoticed.       *)
(*                                                                         *)
(* An ordinal is used once (NumberedOnce) and a healthy process has seen   *)
(* every ordinal below its own proved durable (Covered), so what it        *)
(* ingested and what the table holds below its number are the same set     *)
(* (Prefix); decisions read nothing beyond the horizon (Evaluation_proofs).*)
(*                                                                         *)
(* RegenerationInv carries a replay of the recorded evidence, as a witness *)
(* that grows by a turn with each new row (GrowthRegenerates).  A process  *)
(* follows it, from the beginning, and stores what it has.  Last, the      *)
(* recursion that verify_session_decisions evaluates has one solution.     *)
(***************************************************************************)
EXTENDS DurableCollector, Evaluation_proofs, TLAPS

Below(k) == {o \in evidence : o.n < k}

NumberedOnce ==
  /\ ordinal \in Nat
  /\ \A o \in evidence : o.n \in Nat
  /\ \A o, p \in evidence : o.n = p.n => o = p

Covered ==
  phase # "down" /\ healthy => \A k \in 0..(ordinal - 1) : \E p \in evidence : p.n = k

Prefix ==
  /\ phase = "ready" /\ healthy => knowledge = Below(ordinal)
  /\ phase = "persisted" =>
       /\ healthy
       /\ current \in evidence
       /\ current.n = ordinal - 1
       /\ knowledge = Below(ordinal - 1)
  /\ phase = "evaluated" => healthy /\ knowledge = Below(ordinal)

DurableInv == NumberedOnce /\ EvidenceHasNoHole /\ Covered /\ Prefix

-----------------------------------------------------------------------------
LEMMA InitEstablishes == Init => DurableInv
  BY DEF Init, DurableInv, NumberedOnce, EvidenceHasNoHole, Covered, Prefix

LEMMA StartPreserves == DurableInv /\ Start => DurableInv'
  <1> SUFFICES ASSUME DurableInv, Start PROVE DurableInv'
    OBVIOUS
  <1>1. ordinal' = 0 /\ evidence' = evidence /\ phase' = "ready" /\ knowledge' = {}
    BY DEF Start, FirstOrdinal, tables
  <1>2. NumberedOnce'
    BY <1>1 DEF DurableInv, NumberedOnce
  <1>3. EvidenceHasNoHole'
    BY <1>1 DEF DurableInv, EvidenceHasNoHole
  <1>4. Covered'
    BY <1>1 DEF Covered
  <1>5. Below(0)' = {}
    BY <1>1 DEF DurableInv, NumberedOnce, Below
  <1>6. Prefix'
    BY <1>1, <1>5 DEF Prefix
  <1> QED
    BY <1>2, <1>3, <1>4, <1>6 DEF DurableInv

\* The evidence step: a row is added at the process's own number or not at all.
LEMMA IngestPreserves ==
  ASSUME DurableInv, NEW body, NEW outcome \in Outcomes, Ingest(body, outcome)
  PROVE  DurableInv'
  <1> DEFINE o == Observed(body)
  <1>1. /\ healthy /\ phase = "ready"
        /\ ordinal' = ordinal + 1
        /\ evidence' = evidence \/ evidence' = PersistObservation(o)
        /\ IF Accepted(o, outcome)
           THEN phase' = "persisted" /\ current' = o /\ healthy' = healthy
           ELSE healthy' = FALSE /\ phase' = phase
        /\ knowledge' = knowledge
        /\ outcome # "undone" => evidence' = PersistObservation(o)
    BY DEF Ingest, StoreSource
  <1>2. o.n = ordinal /\ ordinal \in Nat
    BY DEF Observed, DurableInv, NumberedOnce
  <1>3. \/ evidence' = evidence
        \/ /\ evidence' = evidence \cup {o}
           /\ \A p \in evidence : p.n # o.n
    BY <1>1 DEF PersistObservation
  <1> HIDE DEF o
  <1>4. NumberedOnce'
    BY <1>1, <1>2, <1>3 DEF DurableInv, NumberedOnce
  <1>5. \A k \in 0..(ordinal - 1) : \E p \in evidence : p.n = k
    BY <1>1 DEF DurableInv, Covered
  <1>6. EvidenceHasNoHole'
    <2>1. CASE evidence' = evidence
      BY <2>1 DEF DurableInv, EvidenceHasNoHole
    <2>2. CASE evidence' = evidence \cup {o}
      <3>1. ASSUME NEW p \in evidence', NEW k \in 0..p.n
            PROVE  \E q \in evidence' : q.n = k
        <4>1. CASE p \in evidence
          BY <2>2, <4>1 DEF DurableInv, EvidenceHasNoHole
        <4>2. CASE p = o
          BY <1>2, <1>5, <2>2, <4>2
        <4> QED
          BY <2>2, <4>1, <4>2
      <3> QED
        BY <3>1 DEF EvidenceHasNoHole
    <2> QED
      BY <1>3, <2>1, <2>2
  <1>7. Accepted(o, outcome) => o \in evidence'
    <2> SUFFICES ASSUME Accepted(o, outcome) PROVE o \in evidence'
      OBVIOUS
    <2>1. outcome = "fine" /\ ~Conflicts(o)
      BY DEF Accepted
    <2>2. evidence' = PersistObservation(o)
      BY <1>1, <2>1
    <2> QED
      BY <2>1, <2>2 DEF PersistObservation, Conflicts
  <1>8. Covered'
    <2> SUFFICES ASSUME Accepted(o, outcome), NEW k \in 0..(ordinal' - 1)
                 PROVE  \E p \in evidence' : p.n = k
      BY <1>1 DEF Covered
    <2>1. CASE k = ordinal
      BY <1>2, <1>7, <2>1
    <2>2. CASE k # ordinal
      BY <1>1, <1>2, <1>3, <1>5, <2>2
    <2> QED
      BY <2>1, <2>2
  <1>9. Prefix'
    <2>1. Below(ordinal)' = {p \in evidence' : p.n < ordinal + 1}
      BY <1>1 DEF Below
    <2>2. {p \in evidence' : p.n < ordinal} = Below(ordinal)
      BY <1>2, <1>3 DEF Below
    <2>3. knowledge = Below(ordinal)
      BY <1>1 DEF DurableInv, Prefix
    <2>4. ordinal' - 1 = ordinal
      BY <1>1, <1>2
    <2>5. Below(ordinal - 1)' = {p \in evidence' : p.n < ordinal}
      BY <2>4 DEF Below
    <2>6. CASE Accepted(o, outcome)
      BY <1>1, <1>2, <1>7, <2>2, <2>3, <2>4, <2>5, <2>6 DEF Prefix
    <2>7. CASE ~Accepted(o, outcome)
      BY <1>1, <2>7 DEF Prefix
    <2> QED
      BY <2>6, <2>7
  <1> QED
    BY <1>4, <1>6, <1>8, <1>9 DEF DurableInv

LEMMA ObservePreserves == DurableInv /\ Observe => DurableInv'
  <1> SUFFICES ASSUME DurableInv, Observe PROVE DurableInv'
    OBVIOUS
  <1>1. /\ phase = "persisted" /\ phase' \in {"ready", "evaluated"}
        /\ UNCHANGED <<evidence, ordinal, healthy>>
        /\ knowledge' = knowledge \cup {current}
    BY DEF Observe
  <1>2. /\ healthy /\ current \in evidence /\ current.n = ordinal - 1
        /\ knowledge = Below(ordinal - 1)
    BY <1>1 DEF DurableInv, Prefix
  <1>3. knowledge' = Below(ordinal)'
    <2>1. \A p \in evidence : p.n < ordinal <=> p.n < ordinal - 1 \/ p = current
      BY <1>2 DEF DurableInv, NumberedOnce
    <2> QED
      BY <1>1, <1>2, <2>1 DEF Below
  <1>4. NumberedOnce' /\ EvidenceHasNoHole' /\ Covered'
    BY <1>1, <1>2 DEF DurableInv, NumberedOnce, EvidenceHasNoHole, Covered
  <1>5. Prefix'
    BY <1>1, <1>2, <1>3 DEF Prefix
  <1> QED
    BY <1>4, <1>5 DEF DurableInv

LEMMA QuietPreserves ==
  ASSUME DurableInv, UNCHANGED <<evidence, healthy, ordinal, knowledge>>,
         \/ phase' = "down"
         \/ phase = "evaluated" /\ phase' = "ready"
         \/ phase' = phase /\ current' = current
  PROVE  DurableInv'
  <1>1. NumberedOnce' /\ EvidenceHasNoHole' /\ Covered'
    BY DEF DurableInv, NumberedOnce, EvidenceHasNoHole, Covered, Prefix
  <1>2. Below(ordinal)' = Below(ordinal) /\ Below(ordinal - 1)' = Below(ordinal - 1)
    BY DEF Below
  <1>3. Prefix'
    BY <1>2 DEF DurableInv, Prefix
  <1> QED
    BY <1>1, <1>3 DEF DurableInv

LEMMA NextPreserves == DurableInv /\ [Next]_vars => DurableInv'
  <1> SUFFICES ASSUME DurableInv, [Next]_vars PROVE DurableInv'
    OBVIOUS
  <1>1. CASE Start
    BY <1>1, StartPreserves
  <1>2. ASSUME NEW body \in Fedable, NEW outcome \in Outcomes, Fed(body), Ingest(body, outcome)
        PROVE  DurableInv'
    BY <1>2, IngestPreserves
  <1>3. CASE Observe
    BY <1>3, ObservePreserves
  <1>4. ASSUME NEW outcome \in Outcomes, StoreDecisions(outcome) PROVE DurableInv'
    <2>1. /\ UNCHANGED <<evidence, healthy, ordinal, knowledge>>
          /\ phase = "evaluated" /\ phase' = "ready"
      BY <1>4 DEF StoreDecisions
    <2> QED
      BY <2>1, QuietPreserves
  <1>5. CASE Stop
    <2>1. UNCHANGED <<evidence, healthy, ordinal, knowledge>> /\ phase' = "down"
      BY <1>5 DEF Stop
    <2> QED
      BY <2>1, QuietPreserves
  <1>6. CASE UNCHANGED vars
    BY <1>6, QuietPreserves DEF vars
  <1> QED
    BY <1>1, <1>2, <1>3, <1>4, <1>5, <1>6 DEF Next

\* The invariant behind the theorems below.
THEOREM DurableInvariance == Spec => []DurableInv
  <1> QED
    BY InitEstablishes, NextPreserves, PTL DEF Spec

\* No observation is recorded past one that could not be (DurableCollector.ingest
\* refuses to go on once its source write failed).
THEOREM NoHole == Spec => []EvidenceHasNoHole
  <1>1. DurableInv => EvidenceHasNoHole
    BY DEF DurableInv
  <1> QED
    BY <1>1, DurableInvariance, PTL

\* A healthy process between observations knows the recorded prefix and nothing else.
THEOREM PrefixKnown == Spec => []KnowledgeIsThePrefix
  <1>1. DurableInv => KnowledgeIsThePrefix
    BY DEF DurableInv, Prefix, Below, KnowledgeIsThePrefix
  <1> QED
    BY <1>1, DurableInvariance, PTL

\* persist_observation never alters or removes a recorded row.
THEOREM NeverRewritten == Spec => [][evidence \subseteq evidence']_vars
  <1>1. [Next]_vars => evidence \subseteq evidence'
    <2> SUFFICES ASSUME [Next]_vars PROVE evidence \subseteq evidence'
      OBVIOUS
    <2>1. ASSUME NEW body, NEW outcome, Ingest(body, outcome)
          PROVE  evidence \subseteq evidence'
      BY <2>1 DEF Ingest, StoreSource, PersistObservation
    <2> QED
      BY <2>1 DEF Next, Start, Observe, StoreDecisions, Stop, vars, tables
  <1> QED
    BY <1>1, PTL DEF Spec

\* A process that recorded an observation knows all that a replay of the whole
\* table may use at its horizon.
LEMMA KnowsEnough ==
  ASSUME DurableInv, phase = "persisted"
  PROVE  Evaluate(knowledge \cup {current}, session, current, TRUE)
           = Evaluate(evidence, session, current, TRUE)
  <1>1. /\ current \in evidence /\ current.n = ordinal - 1
        /\ knowledge = Below(ordinal - 1)
        /\ ordinal \in Nat
        /\ \A p \in evidence : p.n \in Nat /\ (p.n = current.n => p = current)
    BY DEF DurableInv, Prefix, NumberedOnce
  <1>2. Known(knowledge \cup {current}, Horizon(current)) = Known(evidence, Horizon(current))
    <2>1. Horizon(current).n = current.n
      BY DEF Horizon
    <2>2. \A p : p \in knowledge \cup {current} <=> p \in evidence /\ p.n <= current.n
      BY <1>1 DEF Below
    <2> QED
      BY <2>1, <2>2 DEF Known, Admits
  <1>3. \A after : EvaluateAfter(knowledge \cup {current}, after, current)
                    = EvaluateAfter(evidence, after, current)
    BY <1>2, SameTurn
  <1> QED
    BY <1>3 DEF Evaluate

\* What a process decides on an observation is what a replay that already holds the
\* whole table, later processes' observations included, decides from that session.
THEOREM SameBatches == Spec => DecidesAsReplayWould
  <1>1. ASSUME DurableInv, [Next]_vars, phase = "persisted", phase' # "down", vars' # vars
        PROVE  batch' = Evaluate(evidence, session, current, TRUE).batch
    <2>1. Observe
      BY <1>1 DEF Next, Start, Ingest, StoreSource, StoreDecisions, Stop
    <2>2. batch' = Evaluate(knowledge \cup {current}, session, current, TRUE).batch
      BY <2>1 DEF Observe
    <2>3. Evaluate(knowledge \cup {current}, session, current, TRUE)
            = Evaluate(evidence, session, current, TRUE)
      BY <1>1, KnowsEnough
    <2> QED
      BY <2>2, <2>3
  <1>2. DurableInv /\ [Next]_vars =>
          [phase = "persisted" /\ phase' # "down" =>
             batch' = Evaluate(evidence, session, current, TRUE).batch]_vars
    BY <1>1
  <1> QED
    BY <1>2, DurableInvariance, PTL DEF Spec, DecidesAsReplayWould

-----------------------------------------------------------------------------
(* One turn of the verifying replay.                                       *)

EvidenceIsFinite == \A o \in evidence : o.markets \subseteq Nat /\ IsFiniteSet(o.markets)

\* An engine has counted what it decided.
Counts(x) ==
  /\ Bounded(x.session)
  /\ IsSeq(x.records)
  /\ x.session.decided = Len(x.records)

\* What an engine had decided before the n-th number is the beginning of what a
\* later one has; the rest was triggered by that number or a later one.
Begins(x, n, later) ==
  /\ Len(x.records) <= Len(later.records)
  /\ \A i \in 1..Len(x.records) : later.records[i] = x.records[i]
  /\ \A i \in (Len(x.records) + 1)..Len(later.records) : later.records[i].trigger >= n

LEMMA BeginningCounts == Counts(Beginning) /\ Len(Beginning.records) = 0
  <1>1. IsSeq(<<>>) /\ Len(<<>>) = 0
    <2>1. <<>> \in Seq({})
      OBVIOUS
    <2> QED
      BY <2>1 DEF IsSeq
  <1>2. Bounded(InitSession) /\ InitSession.decided = 0
    BY FS_EmptySet DEF InitSession, Bounded
  <1> QED
    BY <1>1, <1>2 DEF Beginning, Counts

BatchOf(kb, x, o) == Evaluate(kb, x.session, o, TRUE).batch

\* A turn appends the batch of its observation.
LEMMA TurnAppends ==
  ASSUME NEW kb, NEW x, Counts(x), NEW o, o.markets \subseteq Nat, IsFiniteSet(o.markets)
  PROVE  /\ Counts(ReplayTurn(kb, x, o))
         /\ IsSeq(BatchOf(kb, x, o))
         /\ \A i \in 1..Len(BatchOf(kb, x, o)) : BatchOf(kb, x, o)[i].trigger = o.n
         /\ ReplayTurn(kb, x, o).records = x.records \o BatchOf(kb, x, o)
  <1>1. PICK after, outcome :
          /\ after = After(x.session, o, TRUE)
          /\ outcome = EvaluateAfter(kb, after, o)
          /\ outcome = Evaluate(kb, x.session, o, TRUE)
    BY DEF Evaluate
  <1>2. Bounded(after) /\ after.decided = Len(x.records)
    <2>1. Bounded(x.session) /\ x.session.decided = Len(x.records)
      BY DEF Counts
    <2> QED
      BY <1>1, <2>1, AfterIsBounded
  <1>3. PICK b, s : b = outcome.batch /\ s = outcome.session
    OBVIOUS
  <1>4. /\ IsSeq(b) /\ \A i \in 1..Len(b) : b[i].trigger = o.n
        /\ Bounded(s) /\ s.decided = Len(x.records) + Len(b)
    <2>1. /\ IsSeq(EvaluateAfter(kb, after, o).batch)
          /\ \A i \in 1..Len(EvaluateAfter(kb, after, o).batch) :
               EvaluateAfter(kb, after, o).batch[i].trigger = o.n
          /\ Bounded(EvaluateAfter(kb, after, o).session)
          /\ EvaluateAfter(kb, after, o).session.decided
               = after.decided + Len(EvaluateAfter(kb, after, o).batch)
      BY <1>2, TurnIsCounted
    <2> QED
      BY <1>1, <1>2, <1>3, <2>1
  <1>5. PICK c : c = x.records \o b
    OBVIOUS
  <1>6. IsSeq(c) /\ Len(c) = Len(x.records) + Len(b)
    BY <1>4, <1>5, ConcatFacts DEF Counts
  <1>7. ReplayTurn(kb, x, o) = [session |-> s, records |-> c]
    BY <1>1, <1>3, <1>5 DEF ReplayTurn
  <1>8. Counts(ReplayTurn(kb, x, o))
    BY <1>4, <1>6, <1>7 DEF Counts
  <1>9. b = BatchOf(kb, x, o)
    BY <1>1, <1>3 DEF BatchOf
  <1>10. ReplayTurn(kb, x, o).records = c
    BY <1>7
  <1> QED
    BY <1>4, <1>5, <1>8, <1>9, <1>10

\* So what began an engine begins it after the turn.
LEMMA TurnKeepsBeginnings ==
  ASSUME NEW kb, NEW x, Counts(x), NEW o, o.markets \subseteq Nat, IsFiniteSet(o.markets),
         o.n \in Nat, NEW z, Counts(z), NEW n \in 0..o.n, Begins(z, n, x)
  PROVE  Begins(z, n, ReplayTurn(kb, x, o))
  <1>0. PICK b, y : b = BatchOf(kb, x, o) /\ y = ReplayTurn(kb, x, o)
    OBVIOUS
  <1>1. /\ y = ReplayTurn(kb, x, o)
        /\ IsSeq(b) /\ \A i \in 1..Len(b) : b[i].trigger = o.n
        /\ y.records = x.records \o b
    <2>1. /\ IsSeq(BatchOf(kb, x, o))
          /\ \A i \in 1..Len(BatchOf(kb, x, o)) : BatchOf(kb, x, o)[i].trigger = o.n
          /\ ReplayTurn(kb, x, o).records = x.records \o BatchOf(kb, x, o)
      BY TurnAppends, Zenon
    <2> QED
      BY <1>0, <2>1, Zenon
  <1>2. PICK p, q, r : p = z.records /\ q = x.records /\ r = y.records
    OBVIOUS
  <1>3. /\ Len(q) \in Nat /\ Len(b) \in Nat /\ Len(r) = Len(q) + Len(b)
        /\ \A i \in 1..Len(q) : r[i] = q[i]
        /\ \A i \in 1..Len(b) : r[Len(q) + i] = b[i]
    BY <1>1, <1>2, ConcatFacts DEF Counts
  <1>4. Len(p) \in Nat
    BY <1>2, ConcatFacts DEF Counts
  <1>5. /\ Len(p) <= Len(q)
        /\ \A i \in 1..Len(p) : q[i] = p[i]
        /\ \A i \in (Len(p) + 1)..Len(q) : q[i].trigger >= n
    BY <1>2 DEF Begins
  <1>6. \A i \in 1..Len(p) : r[i] = p[i]
    BY <1>3, <1>4, <1>5
  <1>7. ASSUME NEW i \in (Len(p) + 1)..Len(r)
        PROVE  r[i].trigger >= n
    <2>1. CASE i <= Len(q)
      BY <1>3, <1>4, <1>5, <2>1
    <2>2. CASE i > Len(q)
      <3>1. PICK j \in 1..Len(b) : i = Len(q) + j
        <4>1. i - Len(q) \in 1..Len(b) /\ i = Len(q) + (i - Len(q))
          BY <1>3, <1>4, <2>2
        <4> QED
          BY <4>1
      <3>2. r[i].trigger = o.n
        BY <1>1, <1>3, <3>1
      <3> QED
        BY <3>2
    <2> QED
      BY <1>3, <1>4, <2>1, <2>2
  <1>8. Len(p) <= Len(r)
    BY <1>3, <1>4, <1>5
  <1> QED
    BY <1>1, <1>2, <1>6, <1>7, <1>8 DEF Begins

\* Knowledge bases that agree up to an observation make the same turn of it.
LEMMA SameReplayTurn ==
  ASSUME NEW kb1, NEW kb2, NEW x, NEW o, Known(kb1, Horizon(o)) = Known(kb2, Horizon(o))
  PROVE  ReplayTurn(kb1, x, o) = ReplayTurn(kb2, x, o)
  <1>1. \A after : EvaluateAfter(kb1, after, o) = EvaluateAfter(kb2, after, o)
    BY SameTurn
  <1> QED
    BY <1>1 DEF ReplayTurn, Evaluate

-----------------------------------------------------------------------------
(* The replay of what is recorded, and where a process is in it.           *)

\* The numbers taken are those below N.
Recorded(N) ==
  /\ N \in Nat
  /\ \A o \in evidence : o.n < N
  /\ \A k \in 0..(N - 1) : \E o \in evidence : o.n = k

\* r[n] is the engine after the first n of them.
Regenerates(r, N) ==
  /\ Recorded(N)
  /\ r[0] = Beginning
  /\ \A o \in evidence : r[o.n + 1] = ReplayTurn(evidence, r[o.n], o)
  /\ \A n \in 0..N : Counts(r[n]) /\ Begins(r[n], n, r[N])

\* The session of a process is the engine's after what it ingested.
Follows(r) ==
  /\ phase = "ready" /\ healthy => session = r[ordinal].session
  /\ phase = "persisted" => session = r[ordinal - 1].session
  /\ phase = "evaluated" =>
       /\ ordinal > 0
       /\ session = r[ordinal].session
       /\ IsSeq(batch) /\ r[ordinal].records = r[ordinal - 1].records \o batch

Stored(x) == \A i \in 1..Len(x.records) : \E row \in decisions : row.ordinal = i

\* Every row is the replay's, and a process that was told of no failure has stored
\* what the replay makes of the observations it is done with.
Keeps(r, N) ==
  /\ \A row \in decisions :
       row.ordinal \in 1..Len(r[N].records) /\ r[N].records[row.ordinal] = row.record
  /\ ~unwritten =>
       /\ phase = "ready" /\ healthy => Stored(r[ordinal])
       /\ phase \in {"persisted", "evaluated"} => Stored(r[ordinal - 1])

RegenerationInv ==
  /\ DurableInv
  /\ EvidenceIsFinite
  /\ \E r, N : Regenerates(r, N) /\ Follows(r) /\ Keeps(r, N)

\* A process that goes on is within what is recorded.
LEMMA WithinRecorded ==
  ASSUME DurableInv, NEW N, Recorded(N), phase # "down", healthy
  PROVE  ordinal \in 0..N
  <1>1. ordinal \in Nat /\ N \in Nat /\ \A k \in 0..(ordinal - 1) : \E p \in evidence : p.n = k
    BY DEF DurableInv, NumberedOnce, Covered, Recorded
  <1>2. CASE ordinal = 0
    BY <1>1, <1>2
  <1>3. CASE ordinal > 0
    <2>1. ordinal - 1 \in 0..(ordinal - 1)
      BY <1>1, <1>3
    <2>2. PICK p \in evidence : p.n = ordinal - 1
      BY <1>1, <2>1
    <2>3. ordinal - 1 < N
      BY <2>2 DEF Recorded
    <2> QED
      BY <1>1, <2>3
  <1> QED
    BY <1>1, <1>2, <1>3

LEMMA SameEvidenceRegenerates ==
  ASSUME NEW r, NEW N, Regenerates(r, N), evidence' = evidence
  PROVE  Regenerates(r, N)'
  BY DEF Regenerates, Recorded

LEMMA InitRegenerates == Init => RegenerationInv
  <1> SUFFICES ASSUME Init PROVE RegenerationInv
    OBVIOUS
  <1>1. PICK r : r = [n \in {0} |-> Beginning]
    OBVIOUS
  <1>2. r[0] = Beginning /\ evidence = {} /\ decisions = {} /\ phase = "down"
    BY <1>1 DEF Init
  <1>3. Begins(Beginning, 0, Beginning)
    BY BeginningCounts DEF Begins
  <1>4. Regenerates(r, 0)
    <2>1. \A n \in 0..0 : n = 0
      OBVIOUS
    <2>2. 0..(0 - 1) = {}
      OBVIOUS
    <2> QED
      BY <1>2, <1>3, <2>1, <2>2, BeginningCounts DEF Regenerates, Recorded
  <1>5. Follows(r) /\ Keeps(r, 0)
    BY <1>2 DEF Follows, Keeps
  <1>6. EvidenceIsFinite
    BY <1>2 DEF EvidenceIsFinite
  <1> QED
    BY <1>4, <1>5, <1>6, InitEstablishes DEF RegenerationInv

\* A new process begins where the replay does.
LEMMA StartRegenerates == RegenerationInv /\ Start => RegenerationInv'
  <1> SUFFICES ASSUME RegenerationInv, Start PROVE RegenerationInv'
    OBVIOUS
  <1>1. PICK r, N : Regenerates(r, N) /\ Follows(r) /\ Keeps(r, N)
    BY DEF RegenerationInv
  <1>2. /\ evidence' = evidence /\ decisions' = decisions /\ phase' = "ready" /\ ordinal' = 0
        /\ session' = InitSession
    BY DEF Start, tables, FirstOrdinal
  <1>3. r[0].session = InitSession /\ Len(r[0].records) = 0
    BY <1>1, BeginningCounts DEF Regenerates, Beginning
  <1>4. Regenerates(r, N)'
    BY <1>1, <1>2, SameEvidenceRegenerates
  <1>5. Follows(r)'
    BY <1>2, <1>3 DEF Follows
  <1>6. Keeps(r, N)'
    BY <1>1, <1>2, <1>3 DEF Keeps, Stored
  <1>7. EvidenceIsFinite'
    BY <1>2 DEF RegenerationInv, EvidenceIsFinite
  <1> QED
    BY <1>4, <1>5, <1>6, <1>7, StartPreserves DEF RegenerationInv

\* One more observation, at the next number, is one more turn of the replay; the
\* turns before it do not see it.
LEMMA GrowthRegenerates ==
  ASSUME DurableInv, EvidenceIsFinite, NEW r, NEW N, Regenerates(r, N),
         NEW o, o.n = N, o.markets \subseteq Nat, IsFiniteSet(o.markets),
         evidence' = evidence \cup {o}
  PROVE  \E s : /\ Regenerates(s, N + 1)'
                /\ \A n \in 0..N : s[n] = r[n]
                /\ Begins(r[N], N, s[N + 1])
  <1>1. N \in Nat /\ Recorded(N) /\ \A p \in evidence : p.n \in 0..(N - 1)
    BY DEF Regenerates, Recorded, DurableInv, NumberedOnce
  <1>2. PICK last : last = ReplayTurn(evidence', r[N], o)
    OBVIOUS
  <1>3. PICK s : s = [n \in 0..(N + 1) |-> IF n = N + 1 THEN last ELSE r[n]]
    OBVIOUS
  <1>4. s[N + 1] = last /\ \A n \in 0..N : s[n] = r[n]
    BY <1>1, <1>3
  <1>5. Counts(r[N]) /\ \A n \in 0..N : Counts(r[n]) /\ Begins(r[n], n, r[N])
    BY <1>1 DEF Regenerates
  <1>6. Counts(last) /\ \A n \in 0..N : Begins(r[n], n, last)
    BY <1>1, <1>2, <1>5, TurnAppends, TurnKeepsBeginnings
  <1>7. Recorded(N + 1)'
    <2>1. \A k \in 0..N : \E p \in evidence' : p.n = k
      <3>1. ASSUME NEW k \in 0..N PROVE \E p \in evidence' : p.n = k
        <4>1. CASE k = N
          BY <4>1
        <4>2. CASE k # N
          <5>1. k \in 0..(N - 1)
            BY <1>1, <4>2
          <5> QED
            BY <1>1, <5>1 DEF Recorded
        <4> QED
          BY <4>1, <4>2
      <3> QED
        BY <3>1
    <2>2. \A p \in evidence' : p.n < N + 1
      BY <1>1
    <2>3. (N + 1) - 1 = N
      BY <1>1
    <2> QED
      BY <1>1, <2>1, <2>2, <2>3 DEF Recorded
  <1>8. ASSUME NEW p \in evidence
        PROVE  s[p.n + 1] = ReplayTurn(evidence', s[p.n], p)
    <2>1. p.n \in 0..N /\ p.n + 1 \in 0..N
      BY <1>1
    <2>2. r[p.n + 1] = ReplayTurn(evidence, r[p.n], p)
      BY DEF Regenerates
    <2>3. Known(evidence, Horizon(p)) = Known(evidence', Horizon(p))
      <3>1. Horizon(p).n = p.n
        BY DEF Horizon
      <3>2. ~Admits(o, Horizon(p))
        BY <1>1, <3>1 DEF Admits
      <3> QED
        BY <3>2 DEF Known
    <2>4. ReplayTurn(evidence, r[p.n], p) = ReplayTurn(evidence', r[p.n], p)
      BY <2>3, SameReplayTurn
    <2> QED
      BY <1>4, <2>1, <2>2, <2>4
  <1>9. s[o.n + 1] = ReplayTurn(evidence', s[o.n], o)
    BY <1>1, <1>2, <1>4
  <1>10. \A p \in evidence' : s[p.n + 1] = ReplayTurn(evidence', s[p.n], p)
    BY <1>8, <1>9
  <1>11. ASSUME NEW n \in 0..(N + 1)
         PROVE  Counts(s[n]) /\ Begins(s[n], n, s[N + 1])
    <2>1. CASE n = N + 1
      <3>1. Begins(last, n, last)
        <4>1. Len(last.records) \in Nat
          BY <1>6, ConcatFacts DEF Counts
        <4> QED
          BY <4>1 DEF Begins
      <3> QED
        BY <1>4, <1>6, <2>1, <3>1
    <2>2. CASE n \in 0..N
      BY <1>4, <1>5, <1>6, <2>2
    <2> QED
      BY <1>1, <2>1, <2>2
  <1>12. s[0] = Beginning
    BY <1>1, <1>4 DEF Regenerates
  <1>13. Regenerates(s, N + 1)'
    BY <1>7, <1>10, <1>11, <1>12 DEF Regenerates
  <1>14. Begins(r[N], N, s[N + 1])
    BY <1>1, <1>4, <1>6
  <1> QED
    BY <1>4, <1>13, <1>14

\* The evidence step moves a process on by one turn it has yet to make.
LEMMA IngestRegenerates ==
  ASSUME RegenerationInv, NEW body \in Fedable, NEW outcome \in Outcomes, Ingest(body, outcome)
  PROVE  RegenerationInv'
  <1>1. PICK r, N : Regenerates(r, N) /\ Follows(r) /\ Keeps(r, N)
    BY DEF RegenerationInv
  <1>2. PICK o : o = Observed(body)
    OBVIOUS
  <1>3. /\ healthy /\ phase = "ready" /\ ordinal' = ordinal + 1
        /\ evidence' = evidence \/ evidence' = PersistObservation(o)
        /\ phase' = "persisted" \/ (phase' = "ready" /\ ~healthy')
        /\ UNCHANGED <<decisions, session, unwritten>>
    BY <1>2 DEF Ingest, StoreSource
  <1>4. DurableInv /\ EvidenceIsFinite /\ Recorded(N) /\ N \in Nat
    BY <1>1 DEF RegenerationInv, Regenerates, Recorded
  <1>5. ordinal \in 0..N
    BY <1>3, <1>4, WithinRecorded
  <1>6. o.n = ordinal /\ o.markets \subseteq Nat /\ IsFiniteSet(o.markets)
    BY <1>2, DurableAssumption DEF Observed
  <1>7. PICK s, M : /\ Regenerates(s, M)'
                    /\ \A n \in 0..N : s[n] = r[n]
                    /\ Begins(r[N], N, s[M])
                    /\ evidence' \subseteq evidence \cup {o}
    <2>1. CASE evidence' = evidence
      <3>1. Begins(r[N], N, r[N])
        BY <1>1, <1>4 DEF Regenerates
      <3> QED
        BY <1>1, <2>1, <3>1, SameEvidenceRegenerates
    <2>2. CASE evidence' = evidence \cup {o} /\ \A p \in evidence : p.n # o.n
      <3>1. ordinal = N
        <4> SUFFICES ASSUME ordinal \in 0..(N - 1) PROVE FALSE
          BY <1>4, <1>5
        <4> QED
          BY <1>4, <1>6, <2>2 DEF Recorded
      <3>2. \E t : /\ Regenerates(t, N + 1)'
                   /\ \A n \in 0..N : t[n] = r[n]
                   /\ Begins(r[N], N, t[N + 1])
        BY <1>1, <1>4, <1>6, <2>2, <3>1, GrowthRegenerates
      <3> QED
        BY <2>2, <3>2
    <2> QED
      BY <1>3, <2>1, <2>2 DEF PersistObservation
  <1>8. s[ordinal] = r[ordinal] /\ ordinal' - 1 = ordinal
    BY <1>3, <1>4, <1>5, <1>7
  <1>9. Follows(s)'
    BY <1>1, <1>3, <1>8 DEF Follows
  <1>10. Keeps(s, M)'
    <2>1. ASSUME NEW row \in decisions
          PROVE  row.ordinal \in 1..Len(s[M].records) /\ s[M].records[row.ordinal] = row.record
      <3>1. row.ordinal \in 1..Len(r[N].records) /\ r[N].records[row.ordinal] = row.record
        BY <1>1 DEF Keeps
      <3>2. Counts(r[N]) /\ Counts(s[M])
        <4>1. M \in 0..M /\ N \in 0..N
          BY <1>4, <1>7 DEF Regenerates, Recorded
        <4> QED
          BY <1>1, <1>7, <4>1 DEF Regenerates
      <3>3. Len(r[N].records) \in Nat /\ Len(s[M].records) \in Nat
        BY <3>2, ConcatFacts DEF Counts
      <3> QED
        BY <1>7, <3>1, <3>3 DEF Begins
    <2>2. Stored(s[ordinal - 1])' <=> Stored(r[ordinal])
      BY <1>3, <1>8 DEF Stored
    <2> QED
      BY <1>1, <1>3, <2>1, <2>2 DEF Keeps
  <1>11. EvidenceIsFinite'
    BY <1>4, <1>6, <1>7 DEF EvidenceIsFinite
  <1>12. DurableInv'
    BY <1>4, IngestPreserves
  <1> QED
    BY <1>7, <1>9, <1>10, <1>11, <1>12 DEF RegenerationInv

\* A process makes the replay's next turn.
LEMMA ObserveRegenerates == RegenerationInv /\ Observe => RegenerationInv'
  <1> SUFFICES ASSUME RegenerationInv, Observe PROVE RegenerationInv'
    OBVIOUS
  <1>1. PICK r, N : Regenerates(r, N) /\ Follows(r) /\ Keeps(r, N)
    BY DEF RegenerationInv
  <1>2. DurableInv /\ EvidenceIsFinite /\ phase = "persisted"
    BY DEF RegenerationInv, Observe
  <1>3. PICK outcome, b : /\ outcome = Evaluate(knowledge \cup {current}, session, current, TRUE)
                          /\ b = outcome.batch
    OBVIOUS
  <1>4. /\ UNCHANGED <<evidence, decisions, healthy, ordinal, unwritten>>
        /\ session' = outcome.session /\ batch' = b
        /\ phase' = IF b = <<>> THEN "ready" ELSE "evaluated"
    BY <1>3 DEF Observe
  <1>5. /\ healthy /\ current \in evidence /\ current.n = ordinal - 1 /\ ordinal \in Nat
        /\ current.n \in Nat
        /\ session = r[ordinal - 1].session
    BY <1>1, <1>2 DEF DurableInv, Prefix, NumberedOnce, Follows
  <1>6. PICK x : x = r[ordinal - 1]
    OBVIOUS
  <1>7. r[ordinal] = ReplayTurn(evidence, x, current)
    BY <1>1, <1>5, <1>6 DEF Regenerates
  <1>8. outcome = Evaluate(evidence, x.session, current, TRUE)
    BY <1>2, <1>3, <1>5, <1>6, KnowsEnough
  <1>9. Counts(x)
    <2>1. Recorded(N)
      BY <1>1 DEF Regenerates
    <2>2. ordinal - 1 \in 0..N
      BY <1>5, <2>1 DEF Recorded
    <2> QED
      BY <1>1, <1>6, <2>2 DEF Regenerates
  <1>10. b = BatchOf(evidence, x, current)
    BY <1>3, <1>8 DEF BatchOf
  <1>11. IsSeq(b) /\ r[ordinal].records = x.records \o b
    <2>1. current.markets \subseteq Nat /\ IsFiniteSet(current.markets)
      BY <1>2, <1>5 DEF EvidenceIsFinite
    <2> QED
      BY <1>7, <1>9, <1>10, <2>1, TurnAppends
  <1>12. r[ordinal].session = outcome.session
    BY <1>7, <1>8 DEF ReplayTurn
  <1>13. Regenerates(r, N)'
    BY <1>1, <1>4, SameEvidenceRegenerates
  <1>14. Follows(r)'
    BY <1>4, <1>5, <1>6, <1>11, <1>12 DEF Follows
  <1>15. Keeps(r, N)'
    <2>1. ASSUME b = <<>>, Stored(x)
          PROVE  Stored(r[ordinal])
      <3>1. Len(b) = 0
        BY <2>1
      <3>2. PICK p, q : p = x.records /\ q = r[ordinal].records
        OBVIOUS
      <3>3. IsSeq(p) /\ q = p \o b
        BY <1>9, <1>11, <3>2 DEF Counts
      <3>4. Len(q) = Len(p)
        BY <1>11, <3>1, <3>3, ConcatFacts
      <3> QED
        BY <2>1, <3>2, <3>4 DEF Stored
    <2>2. ~unwritten => Stored(x)
      BY <1>1, <1>2, <1>6 DEF Keeps
    <2>3. (Stored(x)' <=> Stored(x)) /\ (Stored(r[ordinal])' <=> Stored(r[ordinal]))
      BY <1>4 DEF Stored
    <2> QED
      BY <1>1, <1>4, <1>6, <2>1, <2>2, <2>3 DEF Keeps
  <1>16. EvidenceIsFinite'
    BY <1>2, <1>4 DEF EvidenceIsFinite
  <1>17. DurableInv'
    BY <1>2, ObservePreserves
  <1> QED
    BY <1>13, <1>14, <1>15, <1>16, <1>17 DEF RegenerationInv

\* The batch is stored where the replay has it, or not at all.
LEMMA StoreRegenerates ==
  ASSUME RegenerationInv, NEW outcome \in Outcomes, StoreDecisions(outcome)
  PROVE  RegenerationInv'
  <1>1. PICK r, N : Regenerates(r, N) /\ Follows(r) /\ Keeps(r, N)
    BY DEF RegenerationInv
  <1>2. DurableInv /\ EvidenceIsFinite /\ phase = "evaluated" /\ Recorded(N)
    BY <1>1 DEF RegenerationInv, StoreDecisions, Regenerates
  <1>3. PICK rows : rows = Rows(session.decided - Len(batch), batch)
    OBVIOUS
  <1>4. /\ UNCHANGED <<evidence, healthy, ordinal, session>>
        /\ phase' = "ready"
        /\ decisions' = decisions \/ decisions' = decisions \cup rows
        /\ ~unwritten' => ~unwritten /\ decisions' = decisions \cup rows
    BY <1>3 DEF StoreDecisions
  <1>5. ordinal \in 0..N /\ ordinal - 1 \in 0..N
    <2>1. healthy /\ N \in Nat
      BY <1>2 DEF DurableInv, Prefix, Recorded
    <2>2. ordinal \in 0..N
      BY <1>2, <2>1, WithinRecorded
    <2>3. ordinal > 0
      BY <1>1, <1>2 DEF Follows
    <2> QED
      BY <2>1, <2>2, <2>3
  <1>6. PICK p, q, last : p = r[ordinal - 1].records /\ q = r[ordinal].records /\ last = r[N].records
    OBVIOUS
  <1>7. IsSeq(batch) /\ q = p \o batch /\ session = r[ordinal].session
    BY <1>1, <1>2, <1>6 DEF Follows
  <1>8. /\ Counts(r[ordinal - 1]) /\ Counts(r[ordinal]) /\ Counts(r[N])
        /\ Begins(r[ordinal], ordinal, r[N])
    <2>1. N \in 0..N
      BY <1>2 DEF Recorded
    <2> QED
      BY <1>1, <1>5, <2>1 DEF Regenerates
  <1>9. /\ Len(p) \in Nat /\ Len(batch) \in Nat /\ Len(q) = Len(p) + Len(batch)
        /\ \A i \in 1..Len(batch) : q[Len(p) + i] = batch[i]
        /\ Len(last) \in Nat
    BY <1>6, <1>7, <1>8, ConcatFacts DEF Counts
  <1>10. session.decided - Len(batch) = Len(p)
    <2>1. session.decided = Len(q)
      BY <1>6, <1>7, <1>8 DEF Counts
    <2> QED
      BY <1>9, <2>1
  <1>11. Len(q) <= Len(last) /\ \A i \in 1..Len(q) : last[i] = q[i]
    BY <1>6, <1>8 DEF Begins
  <1>12. rows = {[ordinal |-> Len(p) + i, record |-> batch[i]] : i \in 1..Len(batch)}
    <2>1. DOMAIN batch = 1..Len(batch)
      BY <1>7 DEF IsSeq
    <2> QED
      BY <1>3, <1>10, <2>1 DEF Rows
  <1>13. \A row \in rows : row.ordinal \in 1..Len(last) /\ last[row.ordinal] = row.record
    <2>1. ASSUME NEW i \in 1..Len(batch)
          PROVE  Len(p) + i \in 1..Len(last) /\ last[Len(p) + i] = batch[i]
      BY <1>9, <1>11
    <2> QED
      BY <1>12, <2>1
  <1>14. \A row \in decisions' : row.ordinal \in 1..Len(last) /\ last[row.ordinal] = row.record
    BY <1>1, <1>4, <1>6, <1>13 DEF Keeps
  <1>15. ASSUME ~unwritten', NEW i \in 1..Len(q)
         PROVE  \E row \in decisions' : row.ordinal = i
    <2>1. CASE i \in 1..Len(p)
      <3>1. \E row \in decisions : row.ordinal = i
        BY <1>1, <1>2, <1>4, <1>6, <1>15, <2>1 DEF Keeps, Stored
      <3> QED
        BY <1>4, <3>1
    <2>2. CASE i \notin 1..Len(p)
      <3>1. PICK j \in 1..Len(batch) : i = Len(p) + j
        <4>1. i - Len(p) \in 1..Len(batch) /\ i = Len(p) + (i - Len(p))
          BY <1>9, <2>2
        <4> QED
          BY <4>1
      <3>2. PICK row : row = [ordinal |-> Len(p) + j, record |-> batch[j]]
        OBVIOUS
      <3>3. row \in rows /\ row.ordinal = i
        BY <1>12, <3>1, <3>2
      <3> QED
        BY <1>4, <1>15, <3>3
    <2> QED
      BY <2>1, <2>2
  <1>16. Regenerates(r, N)'
    BY <1>1, <1>4, SameEvidenceRegenerates
  <1>17. Follows(r)'
    BY <1>4, <1>7 DEF Follows
  <1>18. Keeps(r, N)'
    <2>1. ~unwritten' => Stored(r[ordinal])'
      BY <1>4, <1>6, <1>15 DEF Stored
    <2> QED
      BY <1>4, <1>6, <1>14, <2>1 DEF Keeps
  <1>19. EvidenceIsFinite'
    BY <1>2, <1>4 DEF EvidenceIsFinite
  <1>20. DurableInv'
    <2>1. UNCHANGED <<evidence, healthy, ordinal, knowledge>>
      BY DEF StoreDecisions
    <2> QED
      BY <1>2, <1>4, <2>1, QuietPreserves
  <1> QED
    BY <1>16, <1>17, <1>18, <1>19, <1>20 DEF RegenerationInv

LEMMA NextRegenerates == RegenerationInv /\ [Next]_vars => RegenerationInv'
  <1> SUFFICES ASSUME RegenerationInv, [Next]_vars PROVE RegenerationInv'
    OBVIOUS
  <1>1. CASE Start
    BY <1>1, StartRegenerates
  <1>2. ASSUME NEW body \in Fedable, NEW outcome \in Outcomes, Fed(body), Ingest(body, outcome)
        PROVE  RegenerationInv'
    BY <1>2, IngestRegenerates
  <1>3. CASE Observe
    BY <1>3, ObserveRegenerates
  <1>4. ASSUME NEW outcome \in Outcomes, StoreDecisions(outcome) PROVE RegenerationInv'
    BY <1>4, StoreRegenerates
  <1>5. CASE Stop \/ UNCHANGED vars
    <2>1. PICK r, N : Regenerates(r, N) /\ Follows(r) /\ Keeps(r, N)
      BY DEF RegenerationInv
    <2>2. /\ UNCHANGED <<evidence, decisions, healthy, ordinal, session, batch, unwritten>>
          /\ phase' = "down" \/ phase' = phase
      BY <1>5 DEF Stop, vars
    <2>3. Regenerates(r, N)'
      BY <2>1, <2>2, SameEvidenceRegenerates
    <2>4. Follows(r)' /\ Keeps(r, N)'
      BY <2>1, <2>2 DEF Follows, Keeps, Stored
    <2>5. EvidenceIsFinite'
      BY <2>2 DEF RegenerationInv, EvidenceIsFinite
    <2>6. DurableInv'
      BY <1>5, NextPreserves DEF RegenerationInv, Next
    <2> QED
      BY <2>3, <2>4, <2>5, <2>6 DEF RegenerationInv
  <1> QED
    BY <1>1, <1>2, <1>3, <1>4, <1>5 DEF Next

\* Some replay of what is recorded has every decision that was stored, and is where
\* the session of the running process was after each observation.
THEOREM RegenerationInvariance == Spec => []RegenerationInv
  <1> QED
    BY InitRegenerates, NextRegenerates, PTL DEF Spec

-----------------------------------------------------------------------------
(* The replay that verify_session_decisions makes is that one.             *)

\* An observation's number is how many come before it.
LEMMA NumbersAreRanks ==
  ASSUME NumberedOnce, NEW N, Recorded(N), NEW k \in 0..N
  PROVE  Cardinality(Below(k)) = k
  <1> DEFINE at == [i \in 0..(k - 1) |-> CHOOSE o \in evidence : o.n = i]
  <1>1. N \in Nat /\ k \in Nat
    BY DEF Recorded
  <1>2. ASSUME NEW i \in 0..(k - 1)
        PROVE  at[i] \in evidence /\ at[i].n = i
    <2>1. i \in 0..(N - 1)
      BY <1>1
    <2>2. \E o \in evidence : o.n = i
      BY <2>1 DEF Recorded
    <2> QED
      BY <2>2
  <1>3. at \in [0..(k - 1) -> Below(k)]
    BY <1>1, <1>2 DEF Below
  <1>4. \A i, j \in 0..(k - 1) : at[i] = at[j] => i = j
    BY <1>2
  <1>5. ASSUME NEW o \in Below(k)
        PROVE  \E i \in 0..(k - 1) : at[i] = o
    <2>1. o \in evidence /\ o.n \in 0..(k - 1)
      BY <1>1 DEF Below, NumberedOnce
    <2>2. at[o.n] = o
      BY <1>2, <2>1 DEF NumberedOnce
    <2> QED
      BY <2>1, <2>2
  <1> HIDE DEF at
  <1>6. at \in Bijection(0..(k - 1), Below(k))
    BY <1>3, <1>4, <1>5 DEF Bijection, Injection, Surjection, IsInjective
  <1>7. ExistsBijection(0..(k - 1), Below(k))
    BY <1>6 DEF ExistsBijection
  <1>8. IsFiniteSet(0..(k - 1)) /\ Cardinality(0..(k - 1)) = k
    <2>1. 0 \in Int /\ k - 1 \in Int
      BY <1>1
    <2> QED
      BY <1>1, <2>1, FS_Interval
  <1> QED
    BY <1>7, <1>8, FS_Bijection

\* load_observations returns them by number.
LEMMA LoadedInOrder ==
  ASSUME NumberedOnce, NEW N, Recorded(N)
  PROVE  /\ Cardinality(evidence) = N
         /\ \A n \in 1..N : Loaded(n) \in evidence /\ Loaded(n).n = n - 1
  <1>1. N \in Nat /\ evidence = Below(N)
    BY DEF Recorded, Below
  <1>2. Cardinality(evidence) = N
    <2>1. Cardinality(Below(N)) = N
      BY <1>1, NumbersAreRanks
    <2> QED
      BY <1>1, <2>1
  <1>3. ASSUME NEW n \in 1..N
        PROVE  Loaded(n) \in evidence /\ Loaded(n).n = n - 1
    <2>1. ASSUME NEW o \in evidence
          PROVE  Cardinality({p \in evidence : p.n < o.n}) = o.n
      <3>1. o.n \in 0..N
        BY <1>1 DEF NumberedOnce, Recorded
      <3> QED
        BY <3>1, NumbersAreRanks DEF Below
    <2>2. n - 1 \in 0..(N - 1)
      BY <1>1
    <2>3. \E o \in evidence : Cardinality({p \in evidence : p.n < o.n}) = n - 1
      BY <2>1, <2>2 DEF Recorded
    <2>4. /\ Loaded(n) \in evidence
          /\ Cardinality({p \in evidence : p.n < Loaded(n).n}) = n - 1
      BY <2>3 DEF Loaded
    <2> QED
      BY <2>1, <2>4
  <1> QED
    BY <1>2, <1>3

\* A recursion on the number of observations has one solution.
LEMMA SameFromTheStart ==
  ASSUME NEW N \in Nat, NEW f, NEW r, f[0] = r[0],
         \A n \in 1..N : f[n - 1] = r[n - 1] => f[n] = r[n]
  PROVE  \A n \in 0..N : f[n] = r[n]
  <1> DEFINE T == {n \in 0..N : f[n] # r[n]}
  <1> SUFFICES ASSUME T # {} PROVE FALSE
    OBVIOUS
  <1>1. T \subseteq Nat
    OBVIOUS
  <1>2. PICK n \in T : \A m \in T : n <= m
    BY <1>1, LeastOfNumbers
  <1>3. n \in 1..N /\ n - 1 \in 0..N /\ ~(n <= n - 1)
    BY <1>2
  <1>4. f[n - 1] = r[n - 1]
    BY <1>2, <1>3
  <1> QED
    BY <1>2, <1>3, <1>4

\* So the replay of run_stream is the one that was carried.
LEMMA ReplayIsRegenerated ==
  ASSUME NumberedOnce, NEW r, NEW N, Regenerates(r, N)
  PROVE  Replayed = r[N].records
  <1>1. /\ N \in Nat /\ Cardinality(evidence) = N
        /\ \A n \in 1..N : Loaded(n) \in evidence /\ Loaded(n).n = n - 1
    BY LoadedInOrder DEF Regenerates, Recorded
  <1> DEFINE Unfold(f) == [n \in 0..Cardinality(evidence) |->
                             IF n = 0 THEN Beginning
                             ELSE ReplayTurn(evidence, f[n - 1], Loaded(n))]
  <1>2. \A n \in 1..N : r[n] = ReplayTurn(evidence, r[n - 1], Loaded(n))
    <2>1. ASSUME NEW n \in 1..N
          PROVE  r[n] = ReplayTurn(evidence, r[n - 1], Loaded(n))
      <3>1. Loaded(n) \in evidence /\ Loaded(n).n = n - 1 /\ (n - 1) + 1 = n
        BY <1>1
      <3>2. r[Loaded(n).n + 1] = ReplayTurn(evidence, r[Loaded(n).n], Loaded(n))
        BY <3>1 DEF Regenerates
      <3> QED
        BY <3>1, <3>2
    <2> QED
      BY <2>1
  <1>3. \E f : f = Unfold(f)
    <2>1. PICK f : f = [n \in 0..N |-> r[n]]
      OBVIOUS
    <2>2. ASSUME NEW n \in 0..N
          PROVE  f[n] = Unfold(f)[n]
      <3>1. CASE n = 0
        BY <1>1, <2>1, <3>1 DEF Regenerates, Beginning
      <3>2. CASE n # 0
        <4>1. n \in 1..N /\ n - 1 \in 0..N
          BY <1>1, <3>2
        <4> QED
          BY <1>1, <1>2, <2>1, <3>2, <4>1
      <3> QED
        BY <3>1, <3>2
    <2>3. f = Unfold(f)
      BY <1>1, <2>1, <2>2
    <2> QED
      BY <2>3
  <1>4. Replay = Unfold(Replay)
    BY <1>3 DEF Replay
  <1>5. /\ \A n \in 0..N : Replay[n] = Unfold(Replay)[n]
        /\ Replay[0] = r[0]
        /\ \A n \in 1..N : Replay[n] = ReplayTurn(evidence, Replay[n - 1], Loaded(n))
    <2>1. \A n \in 0..N : Replay[n] = Unfold(Replay)[n]
      BY <1>4, Zenon
    <2>2. Replay[0] = r[0]
      BY <1>1, <2>1 DEF Regenerates, Beginning
    <2>3. ASSUME NEW n \in 1..N
          PROVE  Replay[n] = ReplayTurn(evidence, Replay[n - 1], Loaded(n))
      <3>1. n \in 0..N /\ n # 0
        BY <1>1
      <3> QED
        BY <1>1, <2>1, <3>1
    <2> QED
      BY <2>1, <2>2, <2>3
  <1> HIDE DEF Unfold
  <1>6. \A n \in 0..N : Replay[n] = r[n]
    <2>1. \A n \in 1..N : Replay[n - 1] = r[n - 1] => Replay[n] = r[n]
      BY <1>2, <1>5
    <2>2. N \in Nat /\ Replay[0] = r[0]
      BY <1>1, <1>5
    <2> QED
      BY <2>1, <2>2, SameFromTheStart
  <1>7. Replay[N] = r[N]
    BY <1>1, <1>6
  <1> QED
    BY <1>1, <1>7 DEF Replayed

-----------------------------------------------------------------------------
(* The theorems.                                                           *)

\* verify_session_decisions finds no extra and no mismatched decision: whatever a
\* session's processes were fed, wherever they died and whatever failed, the
\* replay of the evidence makes each stored decision again, at its ordinal.
THEOREM StoredIsRegenerated == Spec => []StoredDecisionsRegenerate
  <1>1. RegenerationInv => StoredDecisionsRegenerate
    <2> SUFFICES ASSUME RegenerationInv PROVE StoredDecisionsRegenerate
      OBVIOUS
    <2>1. PICK r, N : Regenerates(r, N) /\ Keeps(r, N)
      BY DEF RegenerationInv
    <2>2. Replayed = r[N].records
      BY <2>1, ReplayIsRegenerated DEF RegenerationInv, DurableInv
    <2>3. DOMAIN Replayed = 1..Len(Replayed)
      <3>1. N \in 0..N
        BY <2>1 DEF Regenerates, Recorded
      <3>2. IsSeq(r[N].records)
        BY <2>1, <3>1 DEF Regenerates, Counts
      <3> QED
        BY <2>2, <3>2 DEF IsSeq
    <2>4. \A row \in decisions : row.ordinal \in DOMAIN Replayed /\ Replayed[row.ordinal] = row.record
      BY <2>1, <2>2, <2>3 DEF Keeps
    <2> QED
      BY <2>4 DEF StoredDecisionsRegenerate, Unfounded
  <1> QED
    BY <1>1, RegenerationInvariance, PTL

\* A process that was told of no failure has stored every decision the replay makes
\* of what it ingested, those its predecessors failed to store included.
THEOREM NothingIsLost == Spec => []NothingLostUnnoticed
  <1>1. RegenerationInv => NothingLostUnnoticed
    <2> SUFFICES ASSUME RegenerationInv, phase = "ready", healthy, ~unwritten,
                        NEW i \in Missing
                 PROVE  Replayed[i].trigger >= ordinal
      BY DEF NothingLostUnnoticed
    <2>1. PICK r, N : Regenerates(r, N) /\ Keeps(r, N)
      BY DEF RegenerationInv
    <2>2. Replayed = r[N].records
      BY <2>1, ReplayIsRegenerated DEF RegenerationInv, DurableInv
    <2>3. ordinal \in 0..N /\ N \in 0..N
      <3>1. Recorded(N) /\ DurableInv
        BY <2>1 DEF RegenerationInv, Regenerates
      <3>2. ordinal \in 0..N
        BY <3>1, WithinRecorded
      <3> QED
        BY <3>1, <3>2 DEF Recorded
    <2>4. Counts(r[ordinal]) /\ Counts(r[N]) /\ Begins(r[ordinal], ordinal, r[N])
      BY <2>1, <2>3 DEF Regenerates
    <2>5. /\ Len(r[ordinal].records) \in Nat /\ Len(r[N].records) \in Nat
          /\ DOMAIN Replayed = 1..Len(r[N].records)
      BY <2>2, <2>4 DEF Counts, IsSeq
    <2>6. i \in 1..Len(r[N].records) /\ \A row \in decisions : row.ordinal # i
      BY <2>5 DEF Missing
    <2>7. i \notin 1..Len(r[ordinal].records)
      BY <2>1, <2>6 DEF Keeps, Stored
    <2>8. i \in (Len(r[ordinal].records) + 1)..Len(r[N].records)
      BY <2>5, <2>6, <2>7
    <2> QED
      BY <2>2, <2>4, <2>8 DEF Begins
  <1> QED
    BY <1>1, RegenerationInvariance, PTL

-----------------------------------------------------------------------------
(* The refinement: seen through its tables, one uninterrupted engine.      *)

\* Both count with the same Cardinality.
LEMMA SameCount == \A S : Steady!Cardinality(S) = Cardinality(S)
  BY DEF Steady!Cardinality, Cardinality

\* An engine that knows nothing of what is to come decides the same.
LEMMA SteadyDecides ==
  ASSUME NumberedOnce, NEW r, NEW N, Regenerates(r, N)
  PROVE  Steady!Decided = r[N].records
  <1>1. N \in Nat /\ Cardinality(evidence) = N
    BY LoadedInOrder DEF Regenerates, Recorded
  <1> DEFINE Taken(n) == CHOOSE o \in Below(n) : o.n = n - 1
             Unfold(f) == [n \in 0..Cardinality(evidence) |->
                             IF n = 0 THEN Beginning
                             ELSE ReplayTurn(Below(n), f[n - 1], Taken(n))]
  <1>2. ASSUME NEW n \in 1..N
        PROVE  r[n] = ReplayTurn(Below(n), r[n - 1], Taken(n))
    <2>1. n - 1 \in 0..(N - 1) /\ n - 1 < n /\ (n - 1) + 1 = n
      BY <1>1
    <2>2. \E o \in Below(n) : o.n = n - 1
      BY <2>1 DEF Regenerates, Recorded, Below
    <2>3. PICK o : o = Taken(n)
      OBVIOUS
    <2>4. o \in evidence /\ o.n = n - 1
      BY <2>2, <2>3 DEF Below
    <2>5. Known(Below(n), Horizon(o)) = Known(evidence, Horizon(o))
      <3>1. Horizon(o).n = n - 1
        BY <2>4 DEF Horizon
      <3>2. \A p \in evidence : p.n \in Nat
        BY DEF NumberedOnce
      <3>3. \A p \in evidence : p.n <= n - 1 => p.n < n
        BY <1>1, <3>2
      <3> QED
        BY <3>1, <3>3 DEF Known, Admits, Below
    <2>6. r[n] = ReplayTurn(evidence, r[n - 1], o)
      <3>1. r[o.n + 1] = ReplayTurn(evidence, r[o.n], o)
        BY <2>4 DEF Regenerates
      <3> QED
        BY <2>1, <2>4, <3>1
    <2>7. ReplayTurn(Below(n), r[n - 1], o) = ReplayTurn(evidence, r[n - 1], o)
      BY <2>5, SameReplayTurn
    <2> QED
      BY <2>3, <2>6, <2>7
  <1> HIDE DEF Taken
  <1>3. \E f : f = Unfold(f)
    <2>1. PICK f : f = [n \in 0..N |-> r[n]]
      OBVIOUS
    <2>2. ASSUME NEW n \in 0..N
          PROVE  f[n] = Unfold(f)[n]
      <3>1. CASE n = 0
        BY <1>1, <2>1, <3>1 DEF Regenerates
      <3>2. CASE n # 0
        <4>1. n \in 1..N /\ n - 1 \in 0..N
          BY <1>1, <3>2
        <4> QED
          BY <1>1, <1>2, <2>1, <3>2, <4>1
      <3> QED
        BY <3>1, <3>2
    <2>3. f = Unfold(f)
      BY <1>1, <2>1, <2>2
    <2> QED
      BY <2>3
  <1>4. Steady!Engine = Unfold(Steady!Engine)
    BY <1>3, SameCount DEF Steady!Engine, Steady!SoFar, Below, Taken
  <1>5. \A n \in 0..N : Steady!Engine[n] = Unfold(Steady!Engine)[n]
    BY <1>4, Zenon
  <1>6. Steady!Engine[0] = r[0]
    BY <1>1, <1>5 DEF Regenerates
  <1>7. ASSUME NEW n \in 1..N, Steady!Engine[n - 1] = r[n - 1]
        PROVE  Steady!Engine[n] = r[n]
    <2>1. n \in 0..N /\ n # 0
      BY <1>1
    <2>2. Steady!Engine[n] = ReplayTurn(Below(n), Steady!Engine[n - 1], Taken(n))
      BY <1>1, <1>5, <2>1
    <2> QED
      BY <1>2, <1>7, <2>2
  <1> HIDE DEF Unfold
  <1>8. \A n \in 0..N : Steady!Engine[n] = r[n]
    BY <1>1, <1>6, <1>7, SameFromTheStart
  <1> QED
    BY <1>1, <1>8, SameCount DEF Steady!Decided

\* The evidence step records the next observation, or nothing.
LEMMA IngestTakes ==
  ASSUME RegenerationInv, NEW body \in Fedable, NEW outcome \in Outcomes, Ingest(body, outcome)
  PROVE  [Steady!Take]_(Steady!vars)
  <1>1. PICK r, N : Regenerates(r, N)
    BY DEF RegenerationInv
  <1>2. DurableInv /\ NumberedOnce /\ Recorded(N) /\ N \in Nat
    BY <1>1 DEF RegenerationInv, DurableInv, Regenerates, Recorded
  <1>3. PICK o : o = Observed(body)
    OBVIOUS
  <1>4. /\ healthy /\ phase = "ready" /\ decisions' = decisions
        /\ evidence' = evidence \/ evidence' = PersistObservation(o)
        /\ o.n = ordinal
    BY <1>3 DEF Ingest, StoreSource, Observed
  <1>5. CASE evidence' = evidence
    BY <1>4, <1>5 DEF Steady!vars
  <1>6. CASE evidence' = evidence \cup {o} /\ \A p \in evidence : p.n # o.n
    <2>1. ordinal \in 0..N
      BY <1>2, <1>4, WithinRecorded
    <2>2. ordinal \notin 0..(N - 1)
      BY <1>4, <1>6, <1>2 DEF Recorded
    <2>3. ordinal = N
      BY <1>2, <2>1, <2>2
    <2>4. o.n = Cardinality(evidence)
      BY <1>2, <1>4, <2>3, LoadedInOrder
    <2>5. o \in evidence' \ evidence
      BY <1>6
    <2> QED
      BY <1>4, <1>6, <2>4, <2>5, SameCount DEF Steady!Take
  <1> QED
    BY <1>4, <1>5, <1>6 DEF PersistObservation

\* The derived step stores what the engine decided, or nothing.
LEMMA StoreStores ==
  ASSUME RegenerationInv, NEW outcome \in Outcomes, StoreDecisions(outcome)
  PROVE  Steady!Store
  <1>1. RegenerationInv'
    BY StoreRegenerates
  <1>2. evidence' = evidence /\ decisions \subseteq decisions'
    BY DEF StoreDecisions
  <1>3. PICK r, N : Regenerates(r, N)' /\ Keeps(r, N)'
    BY <1>1 DEF RegenerationInv
  <1>4. Regenerates(r, N)
    BY <1>2, <1>3 DEF Regenerates, Recorded
  <1>5. NumberedOnce /\ N \in 0..N
    BY <1>4 DEF RegenerationInv, DurableInv, Regenerates, Recorded
  <1>6. Steady!Decided = r[N].records
    BY <1>4, <1>5, SteadyDecides
  <1>7. DOMAIN r[N].records = 1..Len(r[N].records)
    BY <1>4, <1>5 DEF Regenerates, Counts, IsSeq
  <1>8. \A row \in decisions' :
          row.ordinal \in DOMAIN r[N].records /\ r[N].records[row.ordinal] = row.record
    BY <1>3, <1>7 DEF Keeps
  <1> QED
    BY <1>2, <1>6, <1>8 DEF Steady!Store

\* The durable collector implements the uninterrupted engine: every step of it is,
\* in the tables, one more observation, decisions of that engine stored, or nothing.
THEOREM RefinesUninterrupted == Spec => SteadySpec
  <1>1. Init => Steady!Init
    BY DEF Init, Steady!Init
  <1>2. RegenerationInv /\ [Next]_vars => [Steady!Next]_(Steady!vars)
    <2> SUFFICES ASSUME RegenerationInv, [Next]_vars PROVE [Steady!Next]_(Steady!vars)
      OBVIOUS
    <2>1. ASSUME NEW body \in Fedable, NEW outcome \in Outcomes, Ingest(body, outcome)
          PROVE  [Steady!Next]_(Steady!vars)
      BY <2>1, IngestTakes DEF Steady!Next
    <2>2. ASSUME NEW outcome \in Outcomes, StoreDecisions(outcome)
          PROVE  [Steady!Next]_(Steady!vars)
      BY <2>2, StoreStores DEF Steady!Next
    <2>3. CASE Start \/ Observe \/ Stop \/ UNCHANGED vars
      BY <2>3 DEF Start, Observe, Stop, vars, tables, Steady!vars
    <2> QED
      BY <2>1, <2>2, <2>3 DEF Next
  <1> QED
    BY <1>1, <1>2, RegenerationInvariance, PTL DEF Spec, SteadySpec, Steady!Spec
=============================================================================
