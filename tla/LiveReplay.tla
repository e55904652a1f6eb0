------------------------------ MODULE LiveReplay ------------------------------
(***************************************************************************)
(* A live session (replay/live.py) followed by a replay of its recorded    *)
(* stream (replay/engine.py).                                              *)
(*                                                                         *)
(* The live session ingests one observation at a time, so it cannot see    *)
(* forward.  The replay indexes the finished stream before it evaluates    *)
(* anything, so it can, and must not.  Both call Evaluate.                 *)
(*                                                                         *)
(* A scenario is a prologue, which fixes how the stream begins, and the    *)
(* observations that may follow it in any order, at any recorded time.     *)
(***************************************************************************)
EXTENDS Evaluation

CONSTANTS
  Scenarios,       \* set of [prologue, bodies]; a body is an observation without n
  MaxFree,         \* bound: observations after the prologue
  JournalMayFail   \* whether the live reconstructor's journal may refuse frames

BodiesOf(s) == s.bodies \cup {s.prologue[k] : k \in DOMAIN s.prologue}

ASSUME ScenarioAssumption ==
  /\ MaxFree \in Nat /\ JournalMayFail \in BOOLEAN
  /\ \A s \in Scenarios : \A body \in BodiesOf(s) :
       body.markets \subseteq Nat /\ IsFiniteSet(body.markets)

VARIABLES
  scenario,
  stream,        \* the recorded observations, in capture order
  live,          \* the live coordinator's state
  decided,       \* decided[i]: what the live session decided on stream[i]
  past,          \* history: past[i] is the live state before stream[i]
  phase,         \* "live" or "replay"
  again,         \* the replay coordinator's state
  regenerated    \* regenerated[i]: what the replay decided on stream[i]

vars == <<scenario, stream, live, decided, past, phase, again, regenerated>>

Ingested(i) == {stream[k] : k \in 1..i}

Init ==
  /\ scenario \in Scenarios
  /\ stream = <<>>
  /\ live = InitSession
  /\ decided = <<>>
  /\ past = <<>>
  /\ phase = "live"
  /\ again = InitSession
  /\ regenerated = <<>>

\* What may be observed next: SUBSCRIBED and frames need a connection.
Allowed(body) ==
  LET p == scenario.prologue
      k == Len(stream) + 1
  IN  /\ IF k <= Len(p) THEN body = p[k]
         ELSE k <= Len(p) + MaxFree /\ body \in scenario.bodies
      /\ body.kind \in {"SUBSCRIBED", "FRAME_RECEIVED"} => live.connected

Numbered(body, n) ==
  [n |-> n, at |-> body.at, kind |-> body.kind, keys |-> body.keys, from |-> body.from,
   usable |-> body.usable, markets |-> body.markets]

Journalled == IF JournalMayFail THEN BOOLEAN ELSE {TRUE}

\* LiveSession.observe: ingest, apply, evaluate at the observation's horizon.
Observe(body, journalled) ==
  LET o       == Numbered(body, Len(stream))
      outcome == Evaluate(Ingested(Len(stream)) \cup {o}, live, o, journalled)
  IN  /\ phase = "live"
      /\ stream' = Append(stream, o)
      /\ live' = outcome.session
      /\ decided' = Append(decided, outcome.batch)
      /\ past' = Append(past, live)
      /\ UNCHANGED <<scenario, phase, again, regenerated>>

StartReplay ==
  /\ phase = "live"
  /\ stream # <<>>
  /\ phase' = "replay"
  /\ UNCHANGED <<scenario, stream, live, decided, past, again, regenerated>>

\* One turn of run_stream's loop: the knowledge base is the whole stream, the
\* journal takes every frame (ReplayFrameJournal never raises).
ReplayNext ==
  LET i       == Len(regenerated) + 1
      outcome == Evaluate(Ingested(Len(stream)), again, stream[i], TRUE)
  IN  /\ phase = "replay"
      /\ i <= Len(stream)
      /\ again' = outcome.session
      /\ regenerated' = Append(regenerated, outcome.batch)
      /\ UNCHANGED <<scenario, stream, live, decided, past, phase>>

Next ==
  \/ \E body \in BodiesOf(scenario), journalled \in Journalled :
       Allowed(body) /\ Observe(body, journalled)
  \/ StartReplay
  \/ ReplayNext

Spec == Init /\ [][Next]_vars

-----------------------------------------------------------------------------
(* Properties.                                                             *)

\* The whole no-look-ahead argument of replay/live.py: a run that held every
\* future observation declines to use any, so it decides what the live session
\* decided, on the same facts, with the same numbers.
LiveIsReplay == \A i \in DOMAIN regenerated : regenerated[i] = decided[i]

\* By stream[i], a record for key was observed or a snapshot covered its subject.
Learned(i, fact, snapshot, key, subject) ==
  \E j \in 1..i : \/ stream[j].kind = fact /\ key \in stream[j].keys
                  \/ stream[j].kind = snapshot /\ Answers(stream[j], Key(subject))

\* Absence is not ignorance (docs/replay.md, section 4): a subject is blocked on
\* settlement semantics only if, before that decision, every registry it rests on
\* had been consulted or had already produced a certificate.
AbsenceWasChecked ==
  \A i \in DOMAIN decided : \A k \in DOMAIN decided[i] :
    LET d == decided[i][k]
    IN  d.verdict = "BLOCKED_SETTLEMENT_SEMANTICS" =>
          /\ \A m \in d.item.members :
               Learned(i, "SETTLEMENT_CERTIFICATE", "SETTLEMENT_REGISTRY_SNAPSHOT", Key(m), m)
          /\ d.item.claim # "" =>
               Learned(i, "RELATION_CERTIFICATE", "RELATION_REGISTRY_SNAPSHOT",
                       RelationIdentity(d.item.event, d.item.claim, d.item.members), d.item.event)

=============================================================================
