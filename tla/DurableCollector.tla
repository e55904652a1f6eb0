--------------------------- MODULE DurableCollector ---------------------------
(***************************************************************************)
(* DurableCollector (ingest/collector.py) over the catalogue               *)
(* (storage/catalogue.py), and what verify_session_decisions               *)
(* (storage/verification.py) makes of it.                                  *)
(*                                                                         *)
(* One observation goes through three transactions' worth of steps: source *)
(* evidence, then the session's state, then the decisions.  The process    *)
(* can die between any two of them, and any transaction can fail, or       *)
(* commit and be reported as failed.  A restarted process owns a new       *)
(* session, a new knowledge base and a new numbering, over the same        *)
(* tables; what it is fed may be what its predecessor was fed, or not.     *)
(***************************************************************************)
EXTENDS Evaluation, SequencesExt

CONSTANTS
  Prologue,       \* how what is fed to a process begins: observations without n
  Bodies,         \* what may follow, in any order
  MaxOrdinal,     \* bound: observations numbered by one process
  MaxStarts       \* bound: processes

Fedable == Bodies \cup {Prologue[k] : k \in DOMAIN Prologue}

ASSUME DurableAssumption ==
  /\ MaxOrdinal \in Nat /\ MaxStarts \in Nat
  /\ \A body \in Fedable : body.markets \subseteq Nat /\ IsFiniteSet(body.markets)

VARIABLES
  evidence,    \* table observations
  decisions,   \* table decisions: [ordinal, record]
  phase,       \* "down", "ready", "persisted" or "evaluated"
  healthy,     \* CollectorHealth.healthy
  ordinal,     \* _ordinal: the number of the next observation
  knowledge,   \* KnowledgeBase of this process
  session,     \* EvaluationCoordinator of this process
  current,     \* the observation ingest is handling
  batch,       \* the decisions it produced
  starts,      \* processes started
  unwritten    \* history: a decision write of this process was reported as failed

tables == <<evidence, decisions>>
vars == <<evidence, decisions, phase, healthy, ordinal, knowledge, session, current,
          batch, starts, unwritten>>

Init ==
  /\ evidence = {}
  /\ decisions = {}
  /\ phase = "down"
  /\ healthy = TRUE
  /\ ordinal = 0
  /\ knowledge = {}
  /\ session = InitSession
  /\ current = <<>>
  /\ batch = <<>>
  /\ starts = 0
  /\ unwritten = FALSE

\* How a transaction ends: reported as it ended, undone, or done and reported as
\* failed.
Outcomes == {"fine", "undone", "uncertain"}

-----------------------------------------------------------------------------
(* The catalogue.                                                          *)

\* Mutant: identity without the payload's hash.
ConflictsByKind(o) == \E p \in evidence : p.n = o.n /\ p.kind # o.kind

\* The primary key (session, ordinal) belongs to another observation.
Conflicts(o) == \E p \in evidence : p.n = o.n /\ p # o

\* Mutant: the row of an ordinal is replaced.
UpsertObservation(o) == {p \in evidence : p.n # o.n} \cup {o}

\* persist_observation leaves a recorded ordinal alone: it proves the same row
\* present, or raises.
PersistObservation(o) ==
  IF \E p \in evidence : p.n = o.n THEN evidence ELSE evidence \cup {o}

Rows(from, records) == {[ordinal |-> from + i, record |-> records[i]] : i \in DOMAIN records}

\* persist_decision of every record in one transaction.
BatchConflicts(rows) ==
  \E row \in rows, kept \in decisions : kept.ordinal = row.ordinal /\ kept # row

-----------------------------------------------------------------------------
(* A process.                                                              *)

\* resume_ordinal, "where a restart should continue numbering".  Nothing in the
\* package calls it; as FirstOrdinal it is a mutant.
ResumeOrdinal == IF evidence = {} THEN 0 ELSE 1 + Max({o.n : o \in evidence})

FirstOrdinal == 0

\* open_session finds the session of the same plan and start instant.
Start ==
  /\ phase = "down"
  /\ starts < MaxStarts
  /\ phase' = "ready"
  /\ healthy' = TRUE
  /\ ordinal' = FirstOrdinal
  /\ knowledge' = {}
  /\ session' = InitSession
  /\ current' = <<>>
  /\ batch' = <<>>
  /\ starts' = starts + 1
  /\ unwritten' = FALSE
  /\ UNCHANGED tables

\* What a collecting tool is fed, in the order in which it can be.
Fed(body) ==
  LET k == ordinal + 1
  IN  /\ ordinal < MaxOrdinal
      /\ IF k <= Len(Prologue) THEN body = Prologue[k] ELSE body \in Bodies
      /\ body.kind \in {"SUBSCRIBED", "FRAME_RECEIVED"} => session.connected

Observed(body) ==
  [n |-> ordinal, at |-> body.at, kind |-> body.kind, keys |-> body.keys, from |-> body.from,
   usable |-> body.usable, markets |-> body.markets]

Accepted(o, outcome) == outcome = "fine" /\ ~Conflicts(o)

\* The evidence step once an observation was taken on.
StoreSource(body, outcome) ==
  LET o == Observed(body)
  IN  /\ phase = "ready"
      /\ ordinal' = ordinal + 1
      /\ evidence' = IF outcome = "undone" THEN evidence ELSE PersistObservation(o)
      /\ IF Accepted(o, outcome)
         THEN phase' = "persisted" /\ current' = o /\ healthy' = healthy
         ELSE healthy' = FALSE /\ UNCHANGED <<phase, current>>
      /\ UNCHANGED <<decisions, knowledge, session, batch, starts, unwritten>>

\* Mutant: an unhealthy collector takes the next observation.
IngestUnguarded(body, outcome) == StoreSource(body, outcome)

\* ingest up to the commit of the source evidence: SourcePersistenceError makes
\* the collector unhealthy, and an unhealthy collector takes nothing.
Ingest(body, outcome) == healthy /\ StoreSource(body, outcome)

\* session.observe, whether or not the evidence was new.
Observe ==
  LET outcome == Evaluate(knowledge \cup {current}, session, current, TRUE)
  IN  /\ phase = "persisted"
      /\ knowledge' = knowledge \cup {current}
      /\ session' = outcome.session
      /\ batch' = outcome.batch
      /\ phase' = IF outcome.batch = <<>> THEN "ready" ELSE "evaluated"
      /\ UNCHANGED <<evidence, decisions, healthy, ordinal, current, starts, unwritten>>

\* The derived step: one transaction for the batch; a failure is counted and
\* collection continues.
StoreDecisions(outcome) ==
  LET rows == Rows(session.decided - Len(batch), batch)
      done == ~BatchConflicts(rows) /\ outcome # "undone"
  IN  /\ phase = "evaluated"
      /\ decisions' = IF done THEN decisions \cup rows ELSE decisions
      /\ unwritten' = (unwritten \/ ~done \/ outcome # "fine")
      /\ phase' = "ready"
      /\ batch' = <<>>
      /\ UNCHANGED <<evidence, healthy, ordinal, knowledge, session, current, starts>>

\* Killed, finished, or stopped by the exception of an unhealthy collector.
Stop ==
  /\ phase # "down"
  /\ phase' = "down"
  /\ UNCHANGED <<evidence, decisions, healthy, ordinal, knowledge, session, current, batch,
                 starts, unwritten>>

Next ==
  \/ Start
  \/ \E body \in Fedable, outcome \in Outcomes : Fed(body) /\ Ingest(body, outcome)
  \/ Observe
  \/ \E outcome \in Outcomes : StoreDecisions(outcome)
  \/ Stop

Spec == Init /\ [][Next]_vars

-----------------------------------------------------------------------------
(* verify_session_decisions: load_observations, then a replay of them.     *)

\* The n-th observation in the order of ordinals.
Loaded(n) == CHOOSE o \in evidence : Cardinality({p \in evidence : p.n < o.n}) = n - 1

\* One turn of run_stream: kb is the whole stream, what comes after o included.
ReplayTurn(kb, before, o) ==
  LET outcome == Evaluate(kb, before.session, o, TRUE)
  IN  [session |-> outcome.session, records |-> before.records \o outcome.batch]

Beginning == [session |-> InitSession, records |-> <<>>]

\* The engine after n observations.
Replay[n \in 0..Cardinality(evidence)] ==
  IF n = 0 THEN Beginning
  ELSE ReplayTurn(evidence, Replay[n - 1], Loaded(n))

Replayed == Replay[Cardinality(evidence)].records

\* extra_persisted and fingerprint_mismatches.
Unfounded ==
  LET regenerated == Replayed
  IN  {row \in decisions : ~(row.ordinal \in DOMAIN regenerated
                             /\ regenerated[row.ordinal] = row.record)}

\* missing_persisted.
Missing ==
  LET regenerated == Replayed
  IN  {i \in DOMAIN regenerated : \A row \in decisions : row.ordinal # i}

-----------------------------------------------------------------------------
(* Properties.                                                             *)

\* docs/storage.md, section 7: no stored decision is extra or mismatched, wherever
\* the processes before died, whatever failed, and whatever they were fed.
StoredDecisionsRegenerate == Unfounded = {}

\* Source evidence is numbered without a hole: nothing was scanned past an
\* observation that could not be recorded.
EvidenceHasNoHole ==
  \A o \in evidence : \A k \in 0..o.n : \E p \in evidence : p.n = k

\* A process knows exactly what is recorded below its own number: however many
\* processes wrote before, and whatever it was fed, its past is the session's.
KnowledgeIsThePrefix ==
  phase = "ready" /\ healthy => knowledge = {o \in evidence : o.n < ordinal}

\* Evidence its predecessors left beyond that point changes no decision: each batch
\* is the one the verifying replay, which holds everything, makes from here.
DecidesAsReplayWould ==
  [][phase = "persisted" /\ phase' # "down" =>
       batch' = Evaluate(evidence, session, current, TRUE).batch]_vars

\* A failed decision write is the only way to lose a decision, and feeding the
\* same observations to a new process brings it back: a process that was told of
\* no failure has everything replay regenerates from what it ingested.
NothingLostUnnoticed ==
  LET regenerated == Replayed
  IN  phase = "ready" /\ healthy /\ ~unwritten =>
        \A i \in Missing : regenerated[i].trigger >= ordinal

Steady == INSTANCE Uninterrupted WITH
  recorded <- evidence, stored <- decisions, Turn <- ReplayTurn

\* The promise of Uninterrupted: seen through its tables, the processes of a
\* session, wherever each died, whatever it was fed and whatever failed, are one
\* that was never interrupted.  No recorded observation is altered or removed,
\* another payload at its ordinal being refused, and no stored decision is either
\* (docs/storage.md, sections 5 and 7).
SteadySpec == Steady!Spec
=============================================================================
