--------------------------- MODULE LiveReplay_proofs ---------------------------
(***************************************************************************)
(* For every plan, every scenario and every stream: a replay that holds    *)
(* the finished stream decides exactly what the live session decided, as   *)
(* long as the live journal refused no frame.                              *)
(*                                                                         *)
(* And, whatever it refused, nothing is blocked on settlement semantics    *)
(* that was never asked about.                                             *)
(*                                                                         *)
(* Two facts carry the first.  Everything a decision depends on is read    *)
(* through Known, so two knowledge bases that agree up to the horizon give *)
(* the same decision (SameDecisions); and the ordinals of a stream are its *)
(* positions, so what the live session had ingested and what the replay    *)
(* holds agree up to every horizon (SameKnowledge).                        *)
(***************************************************************************)
EXTENDS LiveReplay, Evaluation_proofs, TLAPS

-----------------------------------------------------------------------------
(* The invariant.                                                          *)

\* The live state before stream[i], the one after the last included.
LiveAt(i) == IF i = Len(stream) + 1 THEN live ELSE past[i]

Outcome(i) == Evaluate(Ingested(i), LiveAt(i), stream[i], TRUE)

Shape ==
  /\ IsSeq(stream) /\ IsSeq(decided) /\ IsSeq(past) /\ IsSeq(regenerated)
  /\ Len(decided) = Len(stream)
  /\ Len(past) = Len(stream)
  /\ Len(regenerated) <= Len(stream)
  /\ \A i \in 1..Len(stream) : stream[i].n = i - 1

\* What was decided is what the live knowledge of that moment implies.
LiveHistory ==
  /\ LiveAt(1) = InitSession
  /\ \A i \in 1..Len(stream) :
       /\ decided[i] = Outcome(i).batch
       /\ LiveAt(i + 1) = Outcome(i).session

\* The replay is where the live session was before the next observation.
ReplayFollows ==
  /\ phase = "live" => regenerated = <<>>
  /\ again = LiveAt(Len(regenerated) + 1)
  /\ \A i \in 1..Len(regenerated) : regenerated[i] = decided[i]

ReplayInv == Shape /\ LiveHistory /\ ReplayFollows

\* At the horizon of stream[i], the finished stream shows what was ingested then.
LEMMA SameKnowledge ==
  ASSUME Shape, NEW i \in 1..Len(stream)
  PROVE  Known(Ingested(Len(stream)), Horizon(stream[i])) = Known(Ingested(i), Horizon(stream[i]))
  <1>0. Len(stream) \in Nat
    BY AppendFacts DEF Shape
  <1>1. Horizon(stream[i]).n = i - 1
    BY DEF Shape, Horizon
  <1>2. \A k \in 1..Len(stream) : Admits(stream[k], Horizon(stream[i])) <=> k <= i
    BY <1>0, <1>1 DEF Shape, Admits
  <1>3. ASSUME NEW o
        PROVE  o \in Known(Ingested(Len(stream)), Horizon(stream[i]))
                 <=> o \in Known(Ingested(i), Horizon(stream[i]))
    BY <1>0, <1>2, <1>3 DEF Known, Ingested
  <1> QED
    BY <1>3

\* Evaluating on either gives the same session and the same decisions.
LEMMA SameOutcome ==
  ASSUME Shape, NEW i \in 1..Len(stream), NEW s
  PROVE  Evaluate(Ingested(Len(stream)), s, stream[i], TRUE) = Evaluate(Ingested(i), s, stream[i], TRUE)
  <1>1. Known(Ingested(Len(stream)), Horizon(stream[i])) = Known(Ingested(i), Horizon(stream[i]))
    BY SameKnowledge
  <1>2. \A after : EvaluateAfter(Ingested(Len(stream)), after, stream[i])
                    = EvaluateAfter(Ingested(i), after, stream[i])
    BY <1>1, SameTurn
  <1> QED
    BY <1>2 DEF Evaluate

LEMMA InitReplay == Init => ReplayInv
  <1> SUFFICES ASSUME Init PROVE ReplayInv
    OBVIOUS
  <1>1. IsSeq(<<>>) /\ Len(<<>>) = 0
    <2>1. <<>> \in Seq({})
      OBVIOUS
    <2> QED
      BY <2>1 DEF IsSeq
  <1>2. Shape
    BY <1>1 DEF Init, Shape
  <1>3. LiveHistory
    BY <1>1 DEF Init, LiveHistory, LiveAt
  <1>4. ReplayFollows
    BY <1>1 DEF Init, ReplayFollows, LiveAt
  <1> QED
    BY <1>2, <1>3, <1>4 DEF ReplayInv

\* A live observation adds one entry to the history and changes no earlier one.
LEMMA ObserveStep ==
  ASSUME ReplayInv, NEW body, Observe(body, TRUE)
  PROVE  ReplayInv'
  <1>0. PICK L : L = Len(stream)
    OBVIOUS
  <1>1. PICK o : /\ o = Numbered(body, L)
                 /\ stream' = Append(stream, o)
    BY <1>0 DEF Observe
  <1>2. PICK outcome : /\ outcome = Evaluate(Ingested(L) \cup {o}, live, o, TRUE)
                       /\ live' = outcome.session
                       /\ decided' = Append(decided, outcome.batch)
                       /\ past' = Append(past, live)
    BY <1>0, <1>1 DEF Observe
  <1>3. phase = "live" /\ UNCHANGED <<phase, again, regenerated>>
    BY DEF Observe
  <1>n. Len(decided) = L /\ Len(past) = L /\ IsSeq(stream) /\ IsSeq(decided) /\ IsSeq(past)
    BY <1>0 DEF ReplayInv, Shape
  <1>4. /\ L \in Nat /\ Len(stream') = L + 1 /\ stream'[L + 1] = o
        /\ \A i \in 1..L : stream'[i] = stream[i]
    BY <1>0, <1>n, <1>1, AppendFacts
  <1>5. /\ Len(decided') = L + 1 /\ decided'[L + 1] = outcome.batch
        /\ \A i \in 1..L : decided'[i] = decided[i]
    <2>1. PICK b : b = outcome.batch
      OBVIOUS
    <2>2. decided' = Append(decided, b)
      BY <1>2, <2>1
    <2>3. /\ Len(decided') = L + 1 /\ decided'[L + 1] = b
          /\ \A i \in 1..L : decided'[i] = decided[i]
      BY <1>n, <2>2, AppendFacts
    <2> QED
      BY <2>1, <2>3
  <1>6. /\ Len(past') = L + 1 /\ past'[L + 1] = live
        /\ \A i \in 1..L : past'[i] = past[i]
    BY <1>0, <1>n, <1>2, AppendFacts
  <1>7. regenerated = <<>> /\ Len(regenerated) = 0
    BY <1>3 DEF ReplayInv, ReplayFollows
  <1>8. Shape'
    <2>1. IsSeq(stream') /\ IsSeq(decided') /\ IsSeq(past') /\ IsSeq(regenerated')
      BY <1>n, <1>1, <1>2, <1>3, AppendFacts DEF ReplayInv, Shape
    <2>2. o.n = L
      BY <1>1 DEF Numbered
    <2>3. \A i \in 1..(L + 1) : stream'[i].n = i - 1
      BY SMTT(30), <1>0, <1>4, <2>2 DEF ReplayInv, Shape
    <2> QED
      BY <1>3, <1>4, <1>5, <1>6, <1>7, <2>1, <2>3 DEF Shape
  <1>9. \A i \in 1..(L + 1) : LiveAt(i)' = LiveAt(i)
    BY <1>0, <1>4, <1>6 DEF LiveAt
  <1>10. LiveAt(L + 2)' = live'
    BY <1>4, <1>6 DEF LiveAt
  <1>11. (\A i \in 1..L : Ingested(i)' = Ingested(i)) /\ Ingested(L + 1)' = Ingested(L) \cup {o}
    BY <1>4 DEF Ingested
  <1>12. (\A i \in 1..L : Outcome(i)' = Outcome(i)) /\ Outcome(L + 1)' = outcome
    <2>1. ASSUME NEW i \in 1..L
          PROVE  Outcome(i)' = Outcome(i)
      <3>1. /\ Ingested(i)' = Ingested(i) /\ LiveAt(i)' = LiveAt(i)
            /\ stream'[i] = stream[i]
        BY <1>4, <1>9, <1>11
      <3> QED
        BY <3>1 DEF Outcome
    <2>2. LiveAt(L + 1) = live
      BY <1>0 DEF LiveAt
    <2>3. LiveAt(L + 1)' = live
      BY <1>4, <1>9, <2>2
    <2> QED
      BY <1>2, <1>4, <1>11, <2>1, <2>3 DEF Outcome
  <1>13. LiveHistory'
    <2>1. LiveAt(1)' = InitSession
      BY <1>0, <1>4, <1>9 DEF ReplayInv, LiveHistory
    <2>2. ASSUME NEW i \in 1..(L + 1)
          PROVE  decided'[i] = Outcome(i)'.batch /\ LiveAt(i + 1)' = Outcome(i)'.session
      <3>1. CASE i \in 1..L
        <4>1. i + 1 \in 1..(L + 1)
          BY <1>4, <3>1
        <4> QED
          BY <1>0, <1>5, <1>9, <1>12, <3>1, <4>1 DEF ReplayInv, LiveHistory
      <3>2. CASE i = L + 1
        <4>1. i + 1 = L + 2
          BY <1>4, <3>2
        <4> QED
          BY <1>2, <1>5, <1>10, <1>12, <3>2, <4>1
      <3> QED
        BY <1>4, <3>1, <3>2
    <2> QED
      BY <1>4, <2>1, <2>2 DEF LiveHistory
  <1>14. ReplayFollows'
    BY <1>3, <1>4, <1>7, <1>9 DEF ReplayInv, ReplayFollows
  <1> QED
    BY <1>8, <1>13, <1>14 DEF ReplayInv

\* A replayed observation is decided as it was live.
LEMMA ReplayStep ==
  ASSUME ReplayInv, ReplayNext
  PROVE  ReplayInv'
  <1>0. PICK i : i = Len(regenerated) + 1
    OBVIOUS
  <1>1. PICK outcome : outcome = Evaluate(Ingested(Len(stream)), again, stream[i], TRUE)
    OBVIOUS
  <1>2. /\ phase = "replay" /\ i <= Len(stream)
        /\ again' = outcome.session
        /\ regenerated' = Append(regenerated, outcome.batch)
        /\ UNCHANGED <<scenario, stream, live, decided, past, phase>>
    BY <1>0, <1>1 DEF ReplayNext
  <1>3. PICK b : b = outcome.batch
    OBVIOUS
  <1>4. regenerated' = Append(regenerated, b) /\ IsSeq(regenerated) /\ IsSeq(stream)
    BY <1>2, <1>3 DEF ReplayInv, Shape
  <1>5. /\ IsSeq(regenerated') /\ Len(regenerated') = i /\ regenerated'[i] = b
        /\ \A k \in 1..(i - 1) : regenerated'[k] = regenerated[k]
        /\ i - 1 \in Nat /\ i - 1 = Len(regenerated)
    BY <1>0, <1>4, AppendFacts
  <1>6. i \in 1..Len(stream)
    BY <1>2, <1>4, <1>5, AppendFacts
  <1>7. outcome = Outcome(i)
    BY <1>0, <1>1, <1>6, SameOutcome DEF ReplayInv, ReplayFollows, Outcome
  <1>8. decided[i] = b /\ LiveAt(i + 1) = outcome.session
    BY <1>3, <1>6, <1>7 DEF ReplayInv, LiveHistory
  <1>9. /\ \A k : LiveAt(k)' = LiveAt(k)
        /\ \A k : Outcome(k)' = Outcome(k)
    BY <1>2 DEF LiveAt, Outcome, Ingested
  <1>10. Shape'
    BY <1>2, <1>5, <1>6 DEF ReplayInv, Shape
  <1>11. LiveHistory'
    BY <1>2, <1>9 DEF ReplayInv, LiveHistory
  <1>12. ReplayFollows'
    <2>1. again' = LiveAt(Len(regenerated) + 1)'
      <3>1. again' = LiveAt(i + 1)
        BY <1>2, <1>8
      <3> QED
        BY <1>2, <1>5, <3>1 DEF LiveAt
    <2>2. \A k \in 1..i : regenerated'[k] = decided'[k]
      BY <1>0, <1>2, <1>5, <1>8 DEF ReplayInv, ReplayFollows
    <2> QED
      BY <1>2, <1>5, <2>1, <2>2 DEF ReplayFollows
  <1> QED
    BY <1>10, <1>11, <1>12 DEF ReplayInv

\* The replay starts from what the live session started from.
LEMMA StartStep ==
  ASSUME ReplayInv, StartReplay \/ UNCHANGED vars
  PROVE  ReplayInv'
  <1>1. UNCHANGED <<scenario, stream, live, decided, past, again, regenerated>>
    BY DEF StartReplay, vars
  <1>2. phase' = "live" => phase = "live"
    BY DEF StartReplay, vars
  <1>3. /\ \A k : LiveAt(k)' = LiveAt(k)
        /\ \A k : Outcome(k)' = Outcome(k)
    BY <1>1 DEF LiveAt, Outcome, Ingested
  <1>4. Shape'
    BY <1>1 DEF ReplayInv, Shape
  <1>5. LiveHistory'
    BY <1>1, <1>3 DEF ReplayInv, LiveHistory
  <1>6. ReplayFollows'
    BY <1>1, <1>2, <1>3 DEF ReplayInv, ReplayFollows
  <1> QED
    BY <1>4, <1>5, <1>6 DEF ReplayInv

\* What a replay decides is what was decided live, whatever the plan, the stream
\* and the times it records, provided the live journal refused no frame
\* (replay/live.py: "a run that held every future observation declining to use
\* any of them").
THEOREM ReplayIsLive == JournalMayFail = FALSE => (Spec => []LiveIsReplay)
  <1> SUFFICES ASSUME JournalMayFail = FALSE PROVE Spec => []LiveIsReplay
    OBVIOUS
  <1>1. Init => ReplayInv
    BY InitReplay
  <1>2. ReplayInv /\ [Next]_vars => ReplayInv'
    <2> SUFFICES ASSUME ReplayInv, [Next]_vars PROVE ReplayInv'
      OBVIOUS
    <2>1. ASSUME NEW body \in BodiesOf(scenario), NEW journalled \in Journalled, Observe(body, journalled)
          PROVE  ReplayInv'
      <3>1. journalled = TRUE
        BY DEF Journalled
      <3> QED
        BY <2>1, <3>1, ObserveStep
    <2>2. CASE ReplayNext
      BY <2>2, ReplayStep
    <2>3. CASE StartReplay \/ UNCHANGED vars
      BY <2>3, StartStep
    <2> QED
      BY <2>1, <2>2, <2>3 DEF Next
  <1>3. ReplayInv => LiveIsReplay
    <2> SUFFICES ASSUME ReplayInv PROVE LiveIsReplay
      OBVIOUS
    <2>1. DOMAIN regenerated = 1..Len(regenerated)
      BY DEF ReplayInv, Shape, IsSeq
    <2> QED
      BY <2>1 DEF ReplayInv, ReplayFollows, LiveIsReplay
  <1> QED
    BY <1>1, <1>2, <1>3, PTL DEF Spec

-----------------------------------------------------------------------------
(* Absence is not ignorance, whatever the live journal refused.            *)

\* What a knowledge base holds about key, whenever it was effective.
Heard(kb, fact, snapshot, key, subject) ==
  \E o \in kb : \/ o.kind = fact /\ key \in o.keys
                \/ o.kind = snapshot /\ Answers(o, Key(subject))

\* A decision blocked on settlement semantics, and what was known by then.
Asked(kb, d) ==
  d.verdict = "BLOCKED_SETTLEMENT_SEMANTICS" =>
    /\ \A m \in d.item.members :
         Heard(kb, "SETTLEMENT_CERTIFICATE", "SETTLEMENT_REGISTRY_SNAPSHOT", Key(m), m)
    /\ d.item.claim # "" =>
         Heard(kb, "RELATION_CERTIFICATE", "RELATION_REGISTRY_SNAPSHOT",
               RelationIdentity(d.item.event, d.item.claim, d.item.members), d.item.event)

AbsenceInv ==
  /\ scenario \in Scenarios
  /\ IsSeq(stream) /\ IsSeq(decided) /\ Len(decided) = Len(stream)
  /\ Bounded(live)
  /\ \A i \in 1..Len(decided) : \A k \in DOMAIN decided[i] : Asked(Ingested(i), decided[i][k])

\* An answer found in a knowledge base was an observation of it.
LEMMA AnsweredMeansHeard ==
  ASSUME NEW kb, NEW h, NEW fact, NEW snapshot, NEW key, NEW subject,
         Answered(kb, fact, snapshot, key, subject, h)
  PROVE  Heard(kb, fact, snapshot, key, subject)
<1>1. CASE Resolve(kb, fact, key, h) # {}
  <2>1. PICK o : o \in Resolve(kb, fact, key, h)
    BY <1>1
  <2>2. o \in kb /\ o.kind = fact /\ key \in o.keys
    BY <2>1 DEF Resolve, Known
  <2> QED
    BY <2>2 DEF Heard
<1>2. CASE Checked(kb, snapshot, Key(subject), h)
  <2>1. PICK o : o \in kb /\ o.kind = snapshot /\ Answers(o, Key(subject))
    BY <1>2 DEF Checked, Known
  <2> QED
    BY <2>1 DEF Heard
<1> QED
  BY <1>1, <1>2 DEF Answered

\* The batch of one observation.
LEMMA BatchAsked ==
  ASSUME NEW kb, NEW s, NEW h, NEW touched \in SUBSET Nat, IsFiniteSet(touched),
         NEW k \in DOMAIN Decisions(kb, s, touched, h)
  PROVE  Asked(kb, Decisions(kb, s, touched, h)[k])
<1> DEFINE d == Decisions(kb, s, touched, h)[k]
<1>1. PICK item : item = Agenda(touched)[k]
  OBVIOUS
<1>2. k \in DOMAIN Agenda(touched) /\ d = Decision(kb, s, item, h)
  BY <1>1 DEF Decisions
<1>3. WellFormed(item)
  BY <1>1, <1>2, AgendaIsWellFormed
<1>4. d.item = item
  BY <1>2 DEF Decision, Record
<1> SUFFICES ASSUME d.verdict = "BLOCKED_SETTLEMENT_SEMANTICS"
             PROVE  /\ \A m \in item.members :
                         Heard(kb, "SETTLEMENT_CERTIFICATE", "SETTLEMENT_REGISTRY_SNAPSHOT",
                               Key(m), m)
                    /\ item.claim # "" =>
                         Heard(kb, "RELATION_CERTIFICATE", "RELATION_REGISTRY_SNAPSHOT",
                               RelationIdentity(item.event, item.claim, item.members), item.event)
  BY <1>4 DEF Asked
<1>5. Decision(kb, s, item, h).verdict = "BLOCKED_SETTLEMENT_SEMANTICS"
  BY <1>2
<1> HIDE DEF d
<1>6. ASSUME NEW m \in item.members
      PROVE  Heard(kb, "SETTLEMENT_CERTIFICATE", "SETTLEMENT_REGISTRY_SNAPSHOT", Key(m), m)
  BY <1>3, <1>5, BlockMeansAnswered, AnsweredMeansHeard
<1>7. ASSUME item.claim # ""
      PROVE  Heard(kb, "RELATION_CERTIFICATE", "RELATION_REGISTRY_SNAPSHOT",
                   RelationIdentity(item.event, item.claim, item.members), item.event)
  <2>1. Answered(kb, "RELATION_CERTIFICATE", "RELATION_REGISTRY_SNAPSHOT",
                 RelationIdentity(item.event, item.claim, item.members), item.event, h)
    BY <1>3, <1>5, <1>7, BlockMeansAnswered
  <2> QED
    BY <2>1, AnsweredMeansHeard
<1> QED
  BY <1>6, <1>7

LEMMA AbsenceInit == Init => AbsenceInv
<1> SUFFICES ASSUME Init PROVE AbsenceInv
  OBVIOUS
<1>1. IsSeq(<<>>) /\ Len(<<>>) = 0
  <2>1. <<>> \in Seq({})
    OBVIOUS
  <2> QED
    BY <2>1 DEF IsSeq
<1>2. Bounded(live)
  BY FS_EmptySet DEF Init, InitSession, Bounded
<1> QED
  BY <1>1, <1>2 DEF Init, AbsenceInv

LEMMA AbsenceObserve ==
  ASSUME AbsenceInv, NEW body \in BodiesOf(scenario), NEW journalled, Observe(body, journalled)
  PROVE  AbsenceInv'
<1>0. PICK n : n = Len(stream)
  OBVIOUS
<1>1. PICK o : o = Numbered(body, n) /\ stream' = Append(stream, o)
  BY <1>0 DEF Observe
<1>2. PICK after, touched, h, batch :
        /\ after = After(live, o, journalled)
        /\ touched = Triggered(after, o) /\ h = Horizon(o)
        /\ batch = Decisions(Ingested(n) \cup {o}, after, touched, h)
        /\ decided' = Append(decided, batch)
        /\ live' = [after EXCEPT !.decided = @ + Len(batch)]
  BY <1>0, <1>1 DEF Observe, Evaluate, EvaluateAfter, Counted
<1>3. /\ n \in Nat /\ Len(stream') = n + 1 /\ stream'[n + 1] = o /\ IsSeq(stream')
      /\ \A i \in 1..n : stream'[i] = stream[i]
  BY <1>0, <1>1, AppendFacts DEF AbsenceInv
<1>4. /\ Len(decided') = n + 1 /\ decided'[n + 1] = batch /\ IsSeq(decided')
      /\ \A i \in 1..n : decided'[i] = decided[i]
  BY <1>0, <1>2, AppendFacts DEF AbsenceInv
<1>5. o.markets \subseteq Nat /\ IsFiniteSet(o.markets)
  <2>1. o.markets = body.markets
    BY <1>1 DEF Numbered
  <2> QED
    BY <2>1, ScenarioAssumption DEF AbsenceInv
<1>6. Bounded(after) /\ touched \in SUBSET Nat /\ IsFiniteSet(touched)
  BY <1>2, <1>5, AfterIsBounded, TriggerIsFinite DEF AbsenceInv
<1>7. Bounded(live')
  <2>1. PICK kb : live' = EvaluateAfter(kb, after, o).session
    BY <1>0, <1>1, <1>2 DEF Observe, Evaluate
  <2> QED
    BY <1>5, <1>6, <2>1, TurnIsCounted
<1>8. /\ Ingested(n) \cup {o} = Ingested(n + 1)'
      /\ \A i \in 1..n : Ingested(i)' = Ingested(i)
  BY <1>3 DEF Ingested
<1>9. ASSUME NEW k \in DOMAIN batch
      PROVE  Asked(Ingested(n + 1)', batch[k])
  <2>1. batch = Decisions(Ingested(n + 1)', after, touched, h)
    BY <1>2, <1>8
  <2> QED
    BY <1>6, <2>1, BatchAsked
<1>10. ASSUME NEW i \in 1..n, NEW k \in DOMAIN decided[i]
       PROVE  Asked(Ingested(i)', decided'[i][k])
  <2>1. Asked(Ingested(i), decided[i][k])
    BY <1>0, <1>3 DEF AbsenceInv
  <2> QED
    BY <1>3, <1>4, <1>8, <2>1
<1>11. \A i \in 1..(n + 1) : \A k \in DOMAIN decided'[i] : Asked(Ingested(i)', decided'[i][k])
  BY <1>3, <1>4, <1>9, <1>10
<1>12. scenario' = scenario
  BY DEF Observe
<1> QED
  BY <1>3, <1>4, <1>7, <1>11, <1>12 DEF AbsenceInv

\* A subject is blocked on settlement semantics only after every registry it rests
\* on was consulted or had produced a certificate (_blocked_record, and the missing
\* sources of KalshiReplayContext).
THEOREM BlockedMeansAsked == Spec => []AbsenceWasChecked
<1>1. AbsenceInv /\ [Next]_vars => AbsenceInv'
  <2> SUFFICES ASSUME AbsenceInv, [Next]_vars PROVE AbsenceInv'
    OBVIOUS
  <2>1. CASE \E body \in BodiesOf(scenario), journalled \in Journalled :
               Allowed(body) /\ Observe(body, journalled)
    BY <2>1, AbsenceObserve
  <2>2. CASE StartReplay \/ ReplayNext \/ UNCHANGED vars
    <3>1. UNCHANGED <<scenario, stream, live, decided>>
      BY <2>2 DEF StartReplay, ReplayNext, vars
    <3> QED
      BY <3>1 DEF AbsenceInv, Ingested
  <2> QED
    BY <2>1, <2>2 DEF Next
<1>2. AbsenceInv => AbsenceWasChecked
  <2> SUFFICES ASSUME AbsenceInv PROVE AbsenceWasChecked
    OBVIOUS
  <2>1. DOMAIN decided = 1..Len(decided)
    BY DEF AbsenceInv, IsSeq
  <2>2. ASSUME NEW i, NEW fact, NEW snapshot, NEW key, NEW subject,
               Heard(Ingested(i), fact, snapshot, key, subject)
        PROVE  Learned(i, fact, snapshot, key, subject)
    BY <2>2 DEF Heard, Ingested, Learned
  <2>3. ASSUME NEW i \in DOMAIN decided, NEW k \in DOMAIN decided[i]
        PROVE  Asked(Ingested(i), decided[i][k])
    BY <2>1 DEF AbsenceInv
  <2> QED
    BY <2>2, <2>3 DEF AbsenceWasChecked, Asked
<1> QED
  BY <1>1, <1>2, AbsenceInit, PTL DEF Spec
=============================================================================
