------------------------ MODULE SessionCapture_proofs -------------------------
(***************************************************************************)
(* For any plan, any number of runs into one directory, and whatever reads *)
(* fail, connections are refused and writes are killed: a bundle that      *)
(* loads as verified is one session's and replays to what that session     *)
(* decided, and a decision calls absent only what a registry, which was    *)
(* read before, did not hold.                                              *)
(*                                                                         *)
(* The first rests on SameContexts: the ordinals of a stream are its       *)
(* positions, so that what the live session knew at a frame and what the   *)
(* index of the whole stream holds agree up to that frame.  The second     *)
(* rests on the order of the capture: the registries are read before the   *)
(* first frame, whole, and nothing removes an observation.                 *)
(***************************************************************************)
EXTENDS SessionCapture, Evaluation_proofs

-----------------------------------------------------------------------------
(* The invariant.  *)

CertificateKinds == {"SETTLEMENT_CERTIFICATE", "RELATION_CERTIFICATE"}

\* An observation that is made at the time of the run; a certificate is
\* effective from the first.
Timely(o) == o.at = 1 /\ (o.kind \in CertificateKinds => o.from = 0)

Upto(i) == {stream[k] : k \in 1..i}

\* The live session decided on each observation knowing those before it.
LiveInv ==
    /\ IsSeq(stream) /\ IsSeq(live) /\ Len(live) = Len(stream)
    /\ \A i \in 1..Len(stream) :
         /\ stream[i].n = i - 1 /\ Timely(stream[i])
         /\ live[i] = Decides(Upto(i), BuildPlan(fetched), stream[i])
    /\ pc \in {"idle", "metadata"} => Len(stream) = 0

\* What was decided live in a session is what its replay decides, and every
\* manifest that can be read is one session's.
BundleInv ==
    /\ \A s \in sessions :
         s = [plan |-> s.plan, stream |-> s.stream, live |-> Replayed(s.stream, s.plan)]
    /\ pc = "manifest" => [plan |-> BuildPlan(fetched), stream |-> stream, live |-> live] \in sessions
    /\ disk = [observations |-> disk.observations, manifest |-> disk.manifest]
    /\ \/ disk.manifest \in {NoManifest, TornManifest}
       \/ \E s \in sessions : disk.manifest = Manifest(s.plan, s.stream)
    /\ VerifiedReplayIsTheSession

\* The registries hold certificates of numbered subjects.
RegistriesInv ==
    /\ IsSeq(settlement) /\ IsSeq(relations) /\ IsFiniteSet(fetched)
    /\ \A k \in 1..Len(settlement) : settlement[k].market \in Nat
    /\ \A k \in 1..Len(relations) : relations[k].event \in Nat

\* The first r observations hold what both registries said of what was fetched.
Holds(r, kind, key) == \E k \in 1..r : stream[k].kind = kind /\ key \in stream[k].keys

RegistriesRecorded(r) ==
    LET baskets == BuildPlan(fetched).baskets IN
    /\ \A m \in fetched : Holds(r, "SETTLEMENT_REGISTRY_SNAPSHOT", Key(m))
    /\ \A c \in consulted.settlement :
         c.market \in fetched => Holds(r, "SETTLEMENT_CERTIFICATE", Key(c.market))
    /\ \A b \in baskets : Holds(r, "RELATION_REGISTRY_SNAPSHOT", Key(b.event))
    /\ \A c \in consulted.relations : \A b \in baskets :
         b.event = c.event =>
            Holds(r, "RELATION_CERTIFICATE", RelationIdentity(c.event, "AT_MOST_ONE", c.members))

NoFrameIn(r) == \A k \in 1..r : stream[k].kind # "FRAME_RECEIVED"

\* The registries are recorded before the first frame.
OrderInv ==
    IF pc \in {"idle", "metadata", "fees"} THEN NoFrameIn(Len(stream))
    ELSE \E r \in 0..Len(stream) : NoFrameIn(r) /\ RegistriesRecorded(r)

CaptureInv == LiveInv /\ BundleInv /\ RegistriesInv /\ OrderInv

-----------------------------------------------------------------------------
(* Recording.  *)

\* What record() keeps of a body, at the n-th place.
Numbered(body, n) ==
    [n |-> n, at |-> body.at, kind |-> body.kind, keys |-> body.keys, from |-> body.from,
     usable |-> body.usable, markets |-> body.markets, holds |-> body.holds]

\* Nothing of the stream changes; what is new is what was recorded.
LEMMA RecordingAppends ==
    ASSUME IsSeq(stream), IsSeq(live), Len(live) = Len(stream),
           NEW bodies, IsSeq(bodies), Recording(bodies)
    PROVE  /\ IsSeq(stream') /\ IsSeq(live')
           /\ Len(stream) \in Nat /\ Len(bodies) \in Nat
           /\ Len(stream') = Len(stream) + Len(bodies) /\ Len(live') = Len(stream')
           /\ \A i \in 1..Len(stream) : stream'[i] = stream[i] /\ live'[i] = live[i]
           /\ \A i \in 1..Len(bodies) :
                /\ stream'[Len(stream) + i] = Numbered(bodies[i], Len(stream) + i - 1)
                /\ live'[Len(stream) + i]
                     = Decides(SetOf(stream) \cup {stream'[Len(stream) + k] : k \in 1..i},
                               BuildPlan(fetched), stream'[Len(stream) + i])
<1> DEFINE n == Len(stream)
           m == Len(bodies)
           numbered == [i \in 1..m |-> Numbered(bodies[i], n + i - 1)]
           known(i) == SetOf(stream) \cup {numbered[k] : k \in 1..i}
           batch == [i \in 1..m |-> Decides(known(i), BuildPlan(fetched), numbered[i])]
<1>1. stream' = stream \o numbered /\ live' = live \o batch
  BY DEF Recording, Numbered
<1>2. n \in Nat /\ m \in Nat
  BY ConcatFacts
<1>3. IsSeq(numbered) /\ Len(numbered) = m
  <2> HIDE DEF numbered
  <2>1. numbered = [i \in 1..m |-> numbered[i]]
    BY DEF numbered
  <2> QED
    BY <1>2, <2>1, FunctionIsSeq
<1>4. IsSeq(batch) /\ Len(batch) = m
  <2> HIDE DEF batch
  <2>1. batch = [i \in 1..m |-> batch[i]]
    BY DEF batch
  <2> QED
    BY <1>2, <2>1, FunctionIsSeq
<1> HIDE DEF numbered, batch
<1>5. \A i \in 1..m : stream'[n + i] = numbered[i] /\ live'[n + i] = batch[i]
  BY <1>1, <1>3, <1>4, ConcatFacts
<1>6. ASSUME NEW i \in 1..m
      PROVE  /\ stream'[n + i] = Numbered(bodies[i], n + i - 1)
             /\ live'[n + i] = Decides(SetOf(stream) \cup {stream'[n + k] : k \in 1..i},
                                       BuildPlan(fetched), stream'[n + i])
  <2>1. stream'[n + i] = numbered[i] /\ live'[n + i] = batch[i]
    BY <1>5
  <2>2. {stream'[n + k] : k \in 1..i} = {numbered[k] : k \in 1..i}
    <3>1. \A k \in 1..i : k \in 1..m
      BY <1>2
    <3> QED
      BY <1>5, <3>1
  <2> QED
    BY <2>1, <2>2 DEF numbered, batch
<1>7. /\ IsSeq(stream') /\ Len(stream') = n + m
      /\ \A i \in 1..n : stream'[i] = stream[i]
  BY <1>1, <1>3, ConcatFacts
<1>8. /\ IsSeq(live') /\ Len(live') = n + m
      /\ \A i \in 1..n : live'[i] = live[i]
  <2>1. /\ IsSeq(live \o batch) /\ Len(live \o batch) = Len(live) + m
        /\ \A i \in 1..Len(live) : (live \o batch)[i] = live[i]
    BY <1>4, ConcatFacts
  <2> QED
    BY <1>1, <2>1
<1>9. Len(stream') = n + m /\ Len(live') = Len(stream')
  BY <1>7, <1>8
<1> QED
  BY <1>2, <1>6, <1>7, <1>8, <1>9, Zenon

\* So the live session's invariant is kept by whatever is recorded in time.
LEMMA RecordingKeepsLive ==
    ASSUME LiveInv, NEW bodies, IsSeq(bodies), Recording(bodies),
           \A i \in 1..Len(bodies) : Timely(bodies[i]),
           fetched' = fetched, pc' \notin {"idle", "metadata"}
    PROVE  LiveInv'
<1> DEFINE n == Len(stream)
           m == Len(bodies)
<1>1. /\ IsSeq(stream') /\ IsSeq(live') /\ n \in Nat /\ m \in Nat
      /\ Len(stream') = n + m /\ Len(live') = Len(stream')
      /\ \A i \in 1..n : stream'[i] = stream[i] /\ live'[i] = live[i]
      /\ \A i \in 1..m :
           /\ stream'[n + i] = Numbered(bodies[i], n + i - 1)
           /\ live'[n + i] = Decides(SetOf(stream) \cup {stream'[n + k] : k \in 1..i},
                                     BuildPlan(fetched), stream'[n + i])
  BY RecordingAppends DEF LiveInv
<1>2. DOMAIN stream = 1..n
  BY DEF LiveInv, IsSeq
<1>3. BuildPlan(fetched)' = BuildPlan(fetched)
  BY DEF BuildPlan, EventOf, VenueEvents
<1>4. ASSUME NEW i \in 1..n
      PROVE  /\ stream'[i].n = i - 1 /\ Timely(stream'[i])
             /\ live'[i] = Decides(Upto(i)', BuildPlan(fetched)', stream'[i])
  <2>1. Upto(i)' = Upto(i)
    <3>1. \A k \in 1..i : k \in 1..n
      BY <1>1
    <3> QED
      BY <1>1, <3>1 DEF Upto
  <2> QED
    BY <1>1, <1>3, <2>1 DEF LiveInv
<1>5. ASSUME NEW i \in 1..m, NEW p \in Nat, p = n + i
      PROVE  /\ stream'[p].n = p - 1 /\ Timely(stream'[p])
             /\ live'[p] = Decides(Upto(p)', BuildPlan(fetched)', stream'[p])
  <2>1. SetOf(stream) \cup {stream'[n + k] : k \in 1..i} = Upto(p)'
    <3>1. \A k \in 1..p : k \in 1..n \/ (k - n \in 1..i /\ n + (k - n) = k)
      BY <1>1, <1>5
    <3>2. \A k \in 1..n : k \in 1..p
      BY <1>1, <1>5
    <3>3. \A k \in 1..i : n + k \in 1..p
      BY <1>1, <1>5
    <3>4. SetOf(stream) = {stream'[k] : k \in 1..n}
      BY <1>1, <1>2 DEF SetOf
    <3>5. {stream'[k] : k \in 1..p} \subseteq
             {stream'[k] : k \in 1..n} \cup {stream'[n + k] : k \in 1..i}
      BY <3>1, Zenon
    <3>6. {stream'[k] : k \in 1..n} \cup {stream'[n + k] : k \in 1..i} \subseteq
             {stream'[k] : k \in 1..p}
      BY <3>2, <3>3, Zenon
    <3>7. Upto(p)' = {stream'[k] : k \in 1..p}
      BY DEF Upto
    <3> QED
      BY <3>4, <3>5, <3>6, <3>7
  <2>2. stream'[p] = Numbered(bodies[i], p - 1)
    <3>1. n + i = p /\ n + i - 1 = p - 1
      BY <1>1, <1>5
    <3> QED
      BY <1>1, <3>1, Zenon
  <2>3. stream'[p].n = p - 1
    BY <2>2 DEF Numbered
  <2>4. Timely(stream'[p])
    BY <2>2 DEF Numbered, Timely
  <2>5. live'[p] = Decides(SetOf(stream) \cup {stream'[n + k] : k \in 1..i},
                          BuildPlan(fetched), stream'[p])
    BY <1>1, <1>5
  <2>6. live'[p] = Decides(Upto(p)', BuildPlan(fetched)', stream'[p])
    BY <1>3, <2>1, <2>5
  <2> QED
    BY <2>3, <2>4, <2>6
<1>6. ASSUME NEW p \in 1..Len(stream')
      PROVE  /\ stream'[p].n = p - 1 /\ Timely(stream'[p])
             /\ live'[p] = Decides(Upto(p)', BuildPlan(fetched)', stream'[p])
  <2>1. p \in Nat /\ (p \in 1..n \/ (p - n \in 1..m /\ p = n + (p - n)))
    BY <1>1
  <2>2. CASE p \in 1..n
    BY <1>4, <2>2
  <2>3. CASE p - n \in 1..m /\ p = n + (p - n)
    BY <1>5, <2>1, <2>3, Zenon
  <2> QED
    BY <2>1, <2>2, <2>3
<1> QED
  BY <1>1, <1>6 DEF LiveInv

-----------------------------------------------------------------------------
(* The bundle.  *)

\* What the live session decided is what the index of the whole stream implies.
LEMMA LiveIsReplayed ==
    ASSUME LiveInv
    PROVE  live = Replayed(stream, BuildPlan(fetched))
<1> DEFINE n == Len(stream)
           plan == BuildPlan(fetched)
<1>1. n \in Nat /\ DOMAIN stream = 1..n /\ live = [i \in 1..n |-> live[i]]
  <2>1. PICK S, T : stream \in Seq(S) /\ live \in Seq(T)
    BY DEF LiveInv, IsSeq
  <2> QED
    BY <2>1 DEF LiveInv
<1>2. ASSUME NEW i \in 1..n
      PROVE  live[i] = Decides(SetOf(stream), plan, stream[i])
  <2> DEFINE o == stream[i]
  <2>1. Known(Upto(i), o) = Known(SetOf(stream), o)
    <3>1. ASSUME NEW k \in 1..n
          PROVE  Admits(stream[k], o) <=> k \in 1..i
      BY <1>1 DEF LiveInv, Admits
    <3>2. \A k \in 1..i : k \in 1..n
      BY <1>1
    <3>3. Known(Upto(i), o) \subseteq Known(SetOf(stream), o)
      BY <1>1, <3>2 DEF Known, Upto, SetOf
    <3>4. Known(SetOf(stream), o) \subseteq Known(Upto(i), o)
      BY <1>1, <3>1 DEF Known, Upto, SetOf
    <3> QED
      BY <3>3, <3>4
  <2>2. /\ \A m : BinaryContext(Upto(i), m, o) = BinaryContext(SetOf(stream), m, o)
        /\ \A b, claim : BasketContext(Upto(i), b, claim, o) = BasketContext(SetOf(stream), b, claim, o)
    BY <2>1, SameContexts
  <2>3. ContextsGiven(Upto(i), plan, o) = ContextsGiven(SetOf(stream), plan, o)
    BY <2>2 DEF ContextsGiven
  <2>4. live[i] = Decides(Upto(i), plan, o)
    BY DEF LiveInv
  <2> QED
    BY <2>3, <2>4 DEF Decides
<1> QED
  BY <1>1, <1>2 DEF Replayed

\* What is loaded as verified is what a session wrote, whole.
LEMMA VerifiedIsASession ==
    ASSUME BundleInv, Load(disk).integrity = "VERIFIED"
    PROVE  [plan |-> Load(disk).plan, stream |-> Load(disk).stream,
            live |-> Load(disk).decisions] \in sessions
<1> DEFINE lines == disk.observations.lines
           manifest == disk.manifest
           found == [integrity |-> "VERIFIED", stream |-> lines, plan |-> manifest.plan,
                     decisions |-> Replayed(lines, manifest.plan)]
<1>1. manifest \notin {NoManifest, TornManifest}
  <2>1. CASE manifest = NoManifest
    BY <2>1 DEF Load, NoManifest, Refused
  <2>2. CASE manifest = TornManifest
    BY <2>2 DEF Load, TornManifest, Refused
  <2> QED
    BY <2>1, <2>2
<1>2. PICK s \in sessions : manifest = Manifest(s.plan, s.stream)
  BY <1>1 DEF BundleInv
<1>3. manifest.written /\ manifest.readable /\ manifest.plan = s.plan
      /\ manifest.file = WholeFile(s.stream)
  BY <1>2 DEF Manifest
<1>4. Trusted(disk) /\ Load(disk) = found
  BY <1>3 DEF Load, Refused
<1>5. lines = s.stream
  BY <1>3, <1>4 DEF Trusted, WholeFile
<1>6. s = [plan |-> s.plan, stream |-> s.stream, live |-> Replayed(s.stream, s.plan)]
  BY DEF BundleInv
<1> QED
  BY <1>3, <1>4, <1>5, <1>6

-----------------------------------------------------------------------------
(* What is recorded.  *)

\* Everything is observed at one time and no certificate names another.
LEMMA ObservationsAreTimely ==
    \A kind, keys, markets, holds : Timely(Observation(kind, keys, markets, holds))
BY DEF Timely, Observation

\* A part of what is recorded at once.
Part(bodies) ==
    /\ IsSeq(bodies)
    /\ \A i \in 1..Len(bodies) : Timely(bodies[i]) /\ bodies[i].kind # "FRAME_RECEIVED"

LEMMA PartsJoin ==
    ASSUME NEW p, NEW q, Part(p), Part(q)
    PROVE  Part(p \o q)
<1>1. /\ IsSeq(p \o q) /\ Len(p) \in Nat /\ Len(q) \in Nat /\ Len(p \o q) = Len(p) + Len(q)
      /\ \A i \in 1..Len(p) : (p \o q)[i] = p[i]
      /\ \A i \in 1..Len(q) : (p \o q)[Len(p) + i] = q[i]
  BY ConcatFacts DEF Part
<1>2. ASSUME NEW i \in 1..Len(p \o q)
      PROVE  Timely((p \o q)[i]) /\ (p \o q)[i].kind # "FRAME_RECEIVED"
  <2>1. CASE i \in 1..Len(p)
    BY <1>1, <2>1 DEF Part
  <2>2. CASE i \notin 1..Len(p)
    <3>1. i - Len(p) \in 1..Len(q) /\ Len(p) + (i - Len(p)) = i
      BY <1>1, <2>2
    <3>2. (p \o q)[i] = q[i - Len(p)]
      BY <1>1, <3>1, Zenon
    <3> QED
      BY <3>1, <3>2 DEF Part
  <2> QED
    BY <2>1, <2>2
<1> QED
  BY <1>1, <1>2 DEF Part

LEMMA SingletonIsPart ==
    ASSUME NEW kind, NEW keys, NEW markets, NEW holds, kind # "FRAME_RECEIVED"
    PROVE  LET o == Observation(kind, keys, markets, holds)
           IN  Part(<<o>>) /\ Len(<<o>>) = 1 /\ <<o>>[1] = o
<1> DEFINE o == Observation(kind, keys, markets, holds)
<1>1. Timely(o) /\ o.kind = kind
  BY ObservationsAreTimely DEF Observation
<1> HIDE DEF o
<1>2. IsSeq(<<o>>) /\ Len(<<o>>) = 1 /\ <<o>>[1] = o
  BY SingletonIsSeq, Zenon
<1>3. \A i \in 1..1 : i = 1
  OBVIOUS
<1> QED
  BY <1>1, <1>2, <1>3 DEF Part, o

LEMMA FunctionIsPart ==
    ASSUME NEW f, NEW n \in Nat, f = [i \in 1..n |-> f[i]],
           \A i \in 1..n : Timely(f[i]) /\ f[i].kind # "FRAME_RECEIVED"
    PROVE  Part(f) /\ Len(f) = n
BY FunctionIsSeq DEF Part

LEMMA NothingIsPart == Part(<<>>) /\ Len(<<>>) = 0
<1>1. <<>> \in Seq({}) /\ Len(<<>>) = 0
  OBVIOUS
<1>2. IsSeq(<<>>)
  BY <1>1 DEF IsSeq
<1> QED
  BY <1>1, <1>2 DEF Part

\* The plan with the metadata of what was fetched.
LEMMA PlanIsPart ==
    ASSUME IsFiniteSet(fetched)
    PROVE  Part(<<Observation("DETECTOR_PLAN", {}, {}, BuildPlan(fetched))>>
                \o InOrder(fetched, MetadataObservation)
                \o <<Observation("METADATA_SNAPSHOT", {Key(m) : m \in fetched}, fetched, "none")>>)
<1> DEFINE metadata == InOrder(fetched, MetadataObservation)
<1>1. Part(metadata)
  <2>1. Cardinality(fetched) \in Nat
    BY FS_CardinalityType
  <2>2. metadata = [i \in 1..Cardinality(fetched) |-> metadata[i]]
    BY DEF InOrder
  <2>3. ASSUME NEW i \in 1..Cardinality(fetched)
        PROVE  Timely(metadata[i]) /\ metadata[i].kind # "FRAME_RECEIVED"
    <3>1. PICK m : metadata[i] = MetadataObservation(m)
      BY DEF InOrder
    <3> HIDE DEF metadata
    <3>2. metadata[i].kind = "MARKET_METADATA"
      BY <3>1 DEF MetadataObservation, Observation
    <3> QED
      BY <3>1, <3>2, ObservationsAreTimely DEF MetadataObservation
  <2> HIDE DEF metadata
  <2> QED
    BY <2>1, <2>2, <2>3, FunctionIsPart
<1>2. /\ Part(<<Observation("DETECTOR_PLAN", {}, {}, BuildPlan(fetched))>>)
      /\ Part(<<Observation("METADATA_SNAPSHOT", {Key(m) : m \in fetched}, fetched, "none")>>)
  BY SingletonIsPart
<1> HIDE DEF metadata
<1> QED
  BY <1>1, <1>2, PartsJoin DEF metadata

\* The fees of the markets of an event.
LEMMA FeesArePart ==
    ASSUME IsFiniteSet(fetched), NEW e, NEW resolved
    PROVE  Part(FeeObservations(e, resolved))
<1> DEFINE S == {m \in fetched : EventOf(m) = e}
           fees == FeeObservations(e, resolved)
<1>1. Cardinality(S) \in Nat
  <2>1. IsFiniteSet(S)
    BY FS_Subset
  <2> QED
    BY <2>1, FS_CardinalityType
<1>2. fees = [i \in 1..Cardinality(S) |-> fees[i]]
  BY DEF FeeObservations, InOrder
<1>3. ASSUME NEW i \in 1..Cardinality(S)
      PROVE  Timely(fees[i]) /\ fees[i].kind # "FRAME_RECEIVED"
  <2>1. PICK m : fees[i] = FeeObservation(m, resolved)
    BY DEF FeeObservations, InOrder
  <2> HIDE DEF fees
  <2>2. fees[i].kind = "FEE_OBSERVATION" /\ fees[i].at = 1
    BY <2>1 DEF FeeObservation, Observation
  <2> QED
    BY <2>2 DEF Timely, CertificateKinds
<1> HIDE DEF fees
<1>4. Part(fees)
  BY <1>1, <1>2, <1>3, FunctionIsPart
<1> QED
  BY <1>4 DEF fees

-----------------------------------------------------------------------------
(* The registries.  *)

\* In the order of subjects and issue every position has its turn.
LEMMA EveryPositionHasItsTurn ==
    ASSUME NEW S \in SUBSET Nat, IsFiniteSet(S), NEW subject, \A k \in S : subject[k] \in Nat
    PROVE  LET turns == BySubject(S, subject)
           IN  /\ Cardinality(S) \in Nat
               /\ turns = [i \in 1..Cardinality(S) |-> turns[i]]
               /\ \A k \in S : \E i \in 1..Cardinality(S) : turns[i] = k
<1> DEFINE n == Cardinality(S)
           Earlier(j, k) == subject[j] < subject[k] \/ (subject[j] = subject[k] /\ j < k)
           Before(k) == {j \in S : Earlier(j, k)}
<1>1. n \in Nat
  BY FS_CardinalityType
<1>2. ASSUME NEW k \in S
      PROVE  /\ IsFiniteSet(Before(k)) /\ Cardinality(Before(k)) \in Nat
             /\ Cardinality(Before(k)) < n
  <2>1. k \notin Before(k)
    <3>1. ~Earlier(k, k)
      OBVIOUS
    <3> QED
      BY <3>1
  <2>2. Before(k) \in SUBSET S
    OBVIOUS
  <2> HIDE DEF Before
  <2>3. /\ IsFiniteSet(Before(k)) /\ Cardinality(Before(k)) <= n
        /\ (n = Cardinality(Before(k)) => S = Before(k))
    BY <2>2, FS_Subset
  <2>4. Cardinality(Before(k)) \in Nat
    BY <2>3, FS_CardinalityType
  <2> QED
    BY <1>1, <2>1, <2>3, <2>4
<1>3. ASSUME NEW j \in S, NEW k \in S, Earlier(j, k)
      PROVE  Cardinality(Before(j)) # Cardinality(Before(k))
  <2>1. Before(j) \subseteq Before(k)
    <3>1. \A i \in S : Earlier(i, j) => Earlier(i, k)
      BY <1>3
    <3> QED
      BY <3>1
  <2>2. j \in Before(k) /\ j \notin Before(j)
    <3>1. ~Earlier(j, j)
      OBVIOUS
    <3> QED
      BY <1>3, <3>1
  <2> HIDE DEF Before
  <2>3. Cardinality(Before(k)) = Cardinality(Before(j)) => Before(k) = Before(j)
    BY <1>2, <2>1, FS_Subset
  <2> QED
    BY <2>2, <2>3
<1>4. ASSUME NEW j \in S, NEW k \in S, Cardinality(Before(j)) = Cardinality(Before(k))
      PROVE  j = k
  <2>1. ~Earlier(j, k) /\ ~Earlier(k, j)
    BY <1>3, <1>4
  <2> QED
    BY <2>1
<1>5. ASSUME NEW k \in S
      PROVE  \E i \in 1..n : BySubject(S, subject)[i] = k
  <2> DEFINE i == Cardinality(Before(k)) + 1
  <2>1. i \in 1..n /\ i - 1 = Cardinality(Before(k))
    BY <1>1, <1>2
  <2>2. BySubject(S, subject)[i] = CHOOSE j \in S : Cardinality(Before(j)) = i - 1
    BY <2>1 DEF BySubject
  <2> HIDE DEF Before, i
  <2>3. PICK j : j = CHOOSE x \in S : Cardinality(Before(x)) = i - 1
    OBVIOUS
  <2>4. j \in S /\ Cardinality(Before(j)) = i - 1
    BY <2>1, <2>3
  <2>5. j = k
    BY <1>4, <2>1, <2>4
  <2> QED
    BY <2>1, <2>2, <2>3, <2>5
<1>6. BySubject(S, subject) = [i \in 1..n |-> BySubject(S, subject)[i]]
  <2> DEFINE Turn(i) == CHOOSE k \in S : Cardinality(Before(k)) = i - 1
  <2>1. BySubject(S, subject) = [i \in 1..n |-> Turn(i)]
    BY Zenon DEF BySubject
  <2> HIDE DEF Turn, n
  <2> QED
    BY <2>1, Zenon
<1> QED
  BY <1>1, <1>5, <1>6

\* A registry's positions are numbers, and finitely many.
LEMMA PositionsAreFinite ==
    ASSUME NEW q, IsSeq(q), NEW S \in SUBSET DOMAIN q
    PROVE  S \in SUBSET Nat /\ IsFiniteSet(S) /\ S \in SUBSET (1..Len(q))
<1>1. Len(q) \in Nat /\ DOMAIN q = 1..Len(q)
  BY DEF IsSeq
<1>2. IsFiniteSet(1..Len(q))
  BY <1>1, FS_Interval
<1>3. IsFiniteSet(S)
  BY <1>1, <1>2, FS_Subset
<1> QED
  BY <1>1, <1>3

\* What is recorded of the settlement certificates.
LEMMA SettlementIsPart ==
    ASSUME RegistriesInv
    PROVE  LET part == RegistryObservations(fetched)
           IN  /\ Part(part)
               /\ \A k \in DOMAIN settlement : settlement[k].market \in fetched =>
                    \E i \in 1..Len(part) : part[i] = CertificateObservation(settlement[k])
<1> DEFINE listed == {k \in DOMAIN settlement : settlement[k].market \in fetched}
           subject == [k \in listed |-> settlement[k].market]
           turns == BySubject(listed, subject)
           part == RegistryObservations(fetched)
           n == Cardinality(listed)
<1>1. listed \in SUBSET Nat /\ IsFiniteSet(listed) /\ listed \in SUBSET (1..Len(settlement))
  BY PositionsAreFinite DEF RegistriesInv
<1>2. \A k \in listed : subject[k] \in Nat
  BY <1>1 DEF RegistriesInv
<1>3. /\ n \in Nat /\ turns = [i \in 1..n |-> turns[i]]
      /\ \A k \in listed : \E i \in 1..n : turns[i] = k
  <2> HIDE DEF listed, subject
  <2> QED
    BY <1>1, <1>2, EveryPositionHasItsTurn
<1>4. DOMAIN turns = 1..n
  <2> HIDE DEF turns
  <2> QED
    BY <1>3
<1>5. part = [i \in 1..n |-> CertificateObservation(settlement[turns[i]])]
  <2>1. SettlementListed(fetched) = [i \in DOMAIN turns |-> settlement[turns[i]]]
    BY DEF SettlementListed
  <2> HIDE DEF turns
  <2>2. SettlementListed(fetched) = [i \in 1..n |-> settlement[turns[i]]]
    BY <1>4, <2>1
  <2> QED
    BY <2>2 DEF RegistryObservations
<1> HIDE DEF turns, part
<1>6. ASSUME NEW i \in 1..n
      PROVE  Timely(part[i]) /\ part[i].kind # "FRAME_RECEIVED"
  <2>1. part[i] = CertificateObservation(settlement[turns[i]])
    BY <1>5
  <2>2. part[i].kind = "SETTLEMENT_CERTIFICATE"
    BY <2>1 DEF CertificateObservation, Observation
  <2> QED
    BY <2>1, <2>2, ObservationsAreTimely DEF CertificateObservation
<1>7. Part(part) /\ Len(part) = n
  BY <1>3, <1>5, <1>6, FunctionIsPart
<1>8. ASSUME NEW k \in DOMAIN settlement, settlement[k].market \in fetched
      PROVE  \E i \in 1..Len(part) : part[i] = CertificateObservation(settlement[k])
  <2>1. k \in listed
    BY <1>8
  <2>2. PICK i \in 1..n : turns[i] = k
    BY <1>3, <2>1
  <2> QED
    BY <1>5, <1>7, <2>2
<1> QED
  BY <1>7, <1>8 DEF part

\* And of the relation certificates, of the events of some baskets.
LEMMA RelationsArePart ==
    ASSUME RegistriesInv, NEW baskets
    PROVE  LET part == RelationRegistryObservations(baskets)
           IN  /\ Part(part)
               /\ \A b \in baskets : \E i \in 1..Len(part) :
                    part[i].kind = "RELATION_REGISTRY_SNAPSHOT" /\ Key(b.event) \in part[i].keys
               /\ \A k \in DOMAIN relations : \A b \in baskets : b.event = relations[k].event =>
                    \E i \in 1..Len(part) : part[i] = RelationObservation(relations[k])
<1>1. CASE baskets = {}
  <2>1. RelationRegistryObservations(baskets) = <<>>
    BY <1>1 DEF RelationRegistryObservations
  <2> QED
    BY <1>1, <2>1, NothingIsPart
<1>2. CASE baskets # {}
  <2> DEFINE events == {b.event : b \in baskets}
             listed == {k \in DOMAIN relations : relations[k].event \in events}
             subject == [k \in listed |-> relations[k].event]
             turns == BySubject(listed, subject)
             markets == UNION {b.members : b \in baskets}
             keys == {Key(e) : e \in events}
             snapshot == Observation("RELATION_REGISTRY_SNAPSHOT", keys, markets, "none")
             certificates == [i \in 1..Cardinality(listed) |-> RelationObservation(relations[turns[i]])]
             n == Cardinality(listed)
  <2>1. listed \in SUBSET Nat /\ IsFiniteSet(listed) /\ listed \in SUBSET (1..Len(relations))
    BY PositionsAreFinite DEF RegistriesInv
  <2>2. \A k \in listed : subject[k] \in Nat
    BY <2>1 DEF RegistriesInv
  <2>3. /\ n \in Nat /\ turns = [i \in 1..n |-> turns[i]]
        /\ \A k \in listed : \E i \in 1..n : turns[i] = k
    <3> HIDE DEF listed, subject
    <3> QED
      BY <2>1, <2>2, EveryPositionHasItsTurn
  <2>4. DOMAIN turns = 1..n
    <3> HIDE DEF turns
    <3> QED
      BY <2>3
  <2>5. RelationsListed(events) = [i \in 1..n |-> relations[turns[i]]]
    <3>1. RelationsListed(events) = [i \in DOMAIN turns |-> relations[turns[i]]]
      BY DEF RelationsListed
    <3> HIDE DEF turns
    <3> QED
      BY <2>4, <3>1
  <2>6. RelationRegistryObservations(baskets) = <<snapshot>> \o certificates
    <3>1. RelationRegistryObservations(baskets)
            = <<snapshot>> \o [i \in DOMAIN RelationsListed(events) |->
                                 RelationObservation(RelationsListed(events)[i])]
      BY <1>2 DEF RelationRegistryObservations
    <3>2. [i \in DOMAIN RelationsListed(events) |-> RelationObservation(RelationsListed(events)[i])]
            = certificates
      <4> HIDE DEF turns, events, listed
      <4> QED
        BY <2>5
    <3> HIDE DEF snapshot, certificates, events
    <3> QED
      BY <3>1, <3>2
  <2>7. Part(<<snapshot>>) /\ Len(<<snapshot>>) = 1 /\ <<snapshot>>[1] = snapshot
    <3> HIDE DEF keys, markets
    <3> QED
      BY SingletonIsPart
  <2> HIDE DEF turns
  <2>8. ASSUME NEW i \in 1..n
        PROVE  Timely(certificates[i]) /\ certificates[i].kind # "FRAME_RECEIVED"
    <3> HIDE DEF n
    <3>1. certificates[i] = RelationObservation(relations[turns[i]])
      BY DEF n
    <3> HIDE DEF certificates
    <3>2. certificates[i].kind = "RELATION_CERTIFICATE"
      BY <3>1 DEF RelationObservation, Observation
    <3> QED
      BY <3>1, <3>2, ObservationsAreTimely DEF RelationObservation
  <2>9. Part(certificates) /\ Len(certificates) = n
    <3>1. certificates = [i \in 1..n |-> certificates[i]]
      OBVIOUS
    <3> HIDE DEF certificates, n
    <3> QED
      BY <2>3, <2>8, <3>1, FunctionIsPart
  <2> DEFINE part == <<snapshot>> \o certificates
  <2>10. /\ Part(part) /\ Len(part) = 1 + n
         /\ part[1] = snapshot
         /\ \A i \in 1..n : part[1 + i] = certificates[i]
    <3> HIDE DEF snapshot, certificates, n
    <3>1. Part(part)
      BY <2>7, <2>9, PartsJoin
    <3> QED
      BY <2>7, <2>9, <3>1, ConcatFacts DEF Part
  <2>11. ASSUME NEW b \in baskets
         PROVE  \E i \in 1..Len(part) :
                  part[i].kind = "RELATION_REGISTRY_SNAPSHOT" /\ Key(b.event) \in part[i].keys
    <3>1. snapshot.kind = "RELATION_REGISTRY_SNAPSHOT" /\ Key(b.event) \in snapshot.keys
      BY DEF Observation
    <3> HIDE DEF snapshot, certificates, part, n
    <3>2. 1 \in 1..Len(part)
      BY <2>3, <2>10
    <3> QED
      BY <2>10, <3>1, <3>2
  <2>12. ASSUME NEW k \in DOMAIN relations, NEW b \in baskets, b.event = relations[k].event
         PROVE  \E i \in 1..Len(part) : part[i] = RelationObservation(relations[k])
    <3>1. k \in listed
      BY <2>12
    <3>2. PICK i \in 1..n : turns[i] = k
      BY <2>3, <3>1
    <3>3. certificates[i] = RelationObservation(relations[k])
      BY <3>2
    <3> HIDE DEF snapshot, certificates, part, n
    <3>4. 1 + i \in 1..Len(part) /\ part[1 + i] = certificates[i]
      BY <2>3, <2>10
    <3> QED
      BY <3>3, <3>4
  <2> HIDE DEF snapshot, certificates, part
  <2> QED
    BY <2>6, <2>10, <2>11, <2>12 DEF part
<1> QED
  BY <1>1, <1>2

\* Both registries, with the snapshots that say they were read.
RegistryPart ==
    <<Observation("FEE_KNOWLEDGE_SNAPSHOT", {Key(m) : m \in fetched}, fetched, "none"),
      Observation("SETTLEMENT_REGISTRY_SNAPSHOT", {Key(m) : m \in fetched}, fetched, "none")>>
    \o RegistryObservations(fetched)
    \o RelationRegistryObservations(BuildPlan(fetched).baskets)

Within(bodies, kind, key) == \E i \in 1..Len(bodies) : bodies[i].kind = kind /\ key \in bodies[i].keys

LEMMA WithinJoined ==
    ASSUME NEW p, NEW q, IsSeq(p), IsSeq(q), NEW kind, NEW key,
           Within(p, kind, key) \/ Within(q, kind, key)
    PROVE  Within(p \o q, kind, key)
<1>1. /\ Len(p) \in Nat /\ Len(q) \in Nat /\ Len(p \o q) = Len(p) + Len(q)
      /\ \A i \in 1..Len(p) : (p \o q)[i] = p[i]
      /\ \A i \in 1..Len(q) : (p \o q)[Len(p) + i] = q[i]
  BY ConcatFacts
<1>2. CASE Within(p, kind, key)
  <2>1. PICK i \in 1..Len(p) : p[i].kind = kind /\ key \in p[i].keys
    BY <1>2 DEF Within
  <2>2. i \in 1..Len(p \o q) /\ (p \o q)[i] = p[i]
    BY <1>1
  <2> QED
    BY <2>1, <2>2 DEF Within
<1>3. CASE Within(q, kind, key)
  <2>1. PICK i \in 1..Len(q) : q[i].kind = kind /\ key \in q[i].keys
    BY <1>3 DEF Within
  <2>2. Len(p) + i \in 1..Len(p \o q) /\ (p \o q)[Len(p) + i] = q[i]
    BY <1>1
  <2> QED
    BY <2>1, <2>2 DEF Within
<1> QED
  BY <1>2, <1>3

\* They hold what was fetched, what is certified of it, and that somebody looked.
LEMMA RegistriesArePart ==
    ASSUME RegistriesInv
    PROVE  LET baskets == BuildPlan(fetched).baskets IN
           /\ Part(RegistryPart)
           /\ \A m \in fetched : Within(RegistryPart, "SETTLEMENT_REGISTRY_SNAPSHOT", Key(m))
           /\ \A c \in SetOf(settlement) : c.market \in fetched =>
                Within(RegistryPart, "SETTLEMENT_CERTIFICATE", Key(c.market))
           /\ \A b \in baskets : Within(RegistryPart, "RELATION_REGISTRY_SNAPSHOT", Key(b.event))
           /\ \A c \in SetOf(relations) : \A b \in baskets : b.event = c.event =>
                Within(RegistryPart, "RELATION_CERTIFICATE",
                       RelationIdentity(c.event, "AT_MOST_ONE", c.members))
<1> DEFINE keys == {Key(m) : m \in fetched}
           fees == Observation("FEE_KNOWLEDGE_SNAPSHOT", keys, fetched, "none")
           asked == Observation("SETTLEMENT_REGISTRY_SNAPSHOT", keys, fetched, "none")
           first == <<fees, asked>>
           settled == RegistryObservations(fetched)
           baskets == BuildPlan(fetched).baskets
           related == RelationRegistryObservations(baskets)
           upto == first \o settled
<1>1. /\ fees.kind = "FEE_KNOWLEDGE_SNAPSHOT" /\ Timely(fees)
      /\ asked.kind = "SETTLEMENT_REGISTRY_SNAPSHOT" /\ asked.keys = keys /\ Timely(asked)
  BY ObservationsAreTimely DEF Observation
<1> HIDE DEF fees, asked
<1>2. Part(first) /\ Len(first) = 2 /\ first[1] = fees /\ first[2] = asked
  <2>1. first \in Seq({fees, asked}) /\ Len(first) = 2 /\ first[1] = fees /\ first[2] = asked
    OBVIOUS
  <2>2. \A i \in 1..2 : i = 1 \/ i = 2
    OBVIOUS
  <2> HIDE DEF first
  <2>3. IsSeq(first)
    BY <2>1 DEF IsSeq
  <2> QED
    BY <1>1, <2>1, <2>2, <2>3 DEF Part
<1> HIDE DEF first
<1>3. /\ Part(settled)
      /\ \A k \in DOMAIN settlement : settlement[k].market \in fetched =>
           \E i \in 1..Len(settled) : settled[i] = CertificateObservation(settlement[k])
  BY SettlementIsPart
<1>4. /\ Part(related)
      /\ \A b \in baskets : \E i \in 1..Len(related) :
           related[i].kind = "RELATION_REGISTRY_SNAPSHOT" /\ Key(b.event) \in related[i].keys
      /\ \A k \in DOMAIN relations : \A b \in baskets : b.event = relations[k].event =>
           \E i \in 1..Len(related) : related[i] = RelationObservation(relations[k])
  <2> HIDE DEF baskets
  <2> QED
    BY RelationsArePart
<1> HIDE DEF settled, related, baskets
<1>5. Part(upto) /\ Part(upto \o related)
  BY <1>2, <1>3, <1>4, PartsJoin
<1>6. IsSeq(first) /\ IsSeq(settled) /\ IsSeq(upto) /\ IsSeq(related)
  BY <1>2, <1>3, <1>4, <1>5 DEF Part
<1>7. ASSUME NEW kind, NEW key,
             Within(first, kind, key) \/ Within(settled, kind, key) \/ Within(related, kind, key)
      PROVE  Within(upto \o related, kind, key)
  BY <1>6, <1>7, WithinJoined
<1>8. ASSUME NEW m \in fetched
      PROVE  Within(first, "SETTLEMENT_REGISTRY_SNAPSHOT", Key(m))
  <2>1. 2 \in 1..Len(first) /\ first[2].kind = "SETTLEMENT_REGISTRY_SNAPSHOT" /\ Key(m) \in first[2].keys
    BY <1>1, <1>2
  <2> QED
    BY <2>1 DEF Within
<1>9. ASSUME NEW c \in SetOf(settlement), c.market \in fetched
      PROVE  Within(settled, "SETTLEMENT_CERTIFICATE", Key(c.market))
  <2>1. PICK k \in DOMAIN settlement : c = settlement[k]
    BY DEF SetOf
  <2>2. PICK i \in 1..Len(settled) : settled[i] = CertificateObservation(c)
    BY <1>3, <1>9, <2>1
  <2> QED
    BY <2>2 DEF Within, CertificateObservation, Observation
<1>10. ASSUME NEW b \in baskets
       PROVE  Within(related, "RELATION_REGISTRY_SNAPSHOT", Key(b.event))
  BY <1>4 DEF Within
<1>11. ASSUME NEW c \in SetOf(relations), NEW b \in baskets, b.event = c.event
       PROVE  Within(related, "RELATION_CERTIFICATE",
                     RelationIdentity(c.event, "AT_MOST_ONE", c.members))
  <2>1. PICK k \in DOMAIN relations : c = relations[k]
    BY DEF SetOf
  <2>2. PICK i \in 1..Len(related) : related[i] = RelationObservation(c)
    BY <1>4, <1>11, <2>1
  <2> QED
    BY <2>2 DEF Within, RelationObservation, Observation
<1>12. RegistryPart = upto \o related
  BY DEF RegistryPart, first, fees, asked, settled, related, baskets
<1> HIDE DEF upto
<1>13. /\ \A m \in fetched : Within(upto \o related, "SETTLEMENT_REGISTRY_SNAPSHOT", Key(m))
       /\ \A c \in SetOf(settlement) : c.market \in fetched =>
            Within(upto \o related, "SETTLEMENT_CERTIFICATE", Key(c.market))
       /\ \A b \in baskets : Within(upto \o related, "RELATION_REGISTRY_SNAPSHOT", Key(b.event))
       /\ \A c \in SetOf(relations) : \A b \in baskets : b.event = c.event =>
            Within(upto \o related, "RELATION_CERTIFICATE",
                   RelationIdentity(c.event, "AT_MOST_ONE", c.members))
  BY <1>7, <1>8, <1>9, <1>10, <1>11
<1> QED
  BY <1>5, <1>12, <1>13 DEF baskets

-----------------------------------------------------------------------------
(* The order of the capture.  *)

\* What a stream holds it keeps.
LEMMA RecordingKeepsOrder ==
    ASSUME LiveInv, OrderInv, NEW bodies, IsSeq(bodies), Recording(bodies),
           pc \notin {"idle", "metadata", "fees"}, pc' \notin {"idle", "metadata", "fees"},
           fetched' = fetched, consulted' = consulted
    PROVE  OrderInv'
<1>1. /\ Len(stream) \in Nat /\ Len(bodies) \in Nat /\ Len(stream') = Len(stream) + Len(bodies)
      /\ \A i \in 1..Len(stream) : stream'[i] = stream[i]
  BY RecordingAppends DEF LiveInv
<1>2. PICK r \in 0..Len(stream) : NoFrameIn(r) /\ RegistriesRecorded(r)
  BY DEF OrderInv
<1>3. r \in 0..Len(stream') /\ \A k \in 1..r : stream'[k] = stream[k]
  BY <1>1
<1>4. NoFrameIn(r)'
  BY <1>2, <1>3 DEF NoFrameIn
<1>5. \A kind, key : Holds(r, kind, key) => Holds(r, kind, key)'
  BY <1>3 DEF Holds
<1>6. BuildPlan(fetched)' = BuildPlan(fetched)
  BY DEF BuildPlan, EventOf, VenueEvents
<1>7. RegistriesRecorded(r)'
  BY <1>2, <1>5, <1>6, Zenon DEF RegistriesRecorded
<1> QED
  BY <1>3, <1>4, <1>7 DEF OrderInv

\* Before the registries nothing is a frame.
LEMMA PartKeepsOrder ==
    ASSUME LiveInv, NoFrameIn(Len(stream)), NEW bodies, Part(bodies), Recording(bodies)
    PROVE  NoFrameIn(Len(stream))'
<1>1. /\ Len(stream) \in Nat /\ Len(bodies) \in Nat /\ Len(stream') = Len(stream) + Len(bodies)
      /\ \A i \in 1..Len(stream) : stream'[i] = stream[i]
      /\ \A i \in 1..Len(bodies) :
           stream'[Len(stream) + i] = Numbered(bodies[i], Len(stream) + i - 1)
  BY RecordingAppends DEF LiveInv, Part
<1>2. ASSUME NEW k \in 1..Len(stream')
      PROVE  stream'[k].kind # "FRAME_RECEIVED"
  <2>1. CASE k \in 1..Len(stream)
    BY <1>1, <2>1 DEF NoFrameIn
  <2>2. CASE k \notin 1..Len(stream)
    <3>1. PICK i \in 1..Len(bodies) : k = Len(stream) + i
      <4>1. k - Len(stream) \in 1..Len(bodies) /\ k = Len(stream) + (k - Len(stream))
        BY <1>1, <2>2
      <4> QED
        BY <4>1
    <3>2. PICK n : stream'[k] = Numbered(bodies[i], n)
      BY <1>1, <3>1, Zenon
    <3>3. stream'[k].kind = bodies[i].kind
      BY <3>2 DEF Numbered
    <3> QED
      BY <3>3 DEF Part
  <2> QED
    BY <2>1, <2>2
<1> QED
  BY <1>2 DEF NoFrameIn

-----------------------------------------------------------------------------
(* What a decision calls absent.  *)

\* Of the certificates that were recorded before a horizon one is in force.
LEMMA RecordedIsResolved ==
    ASSUME LiveInv, NEW i \in 1..Len(stream), NEW r \in 0..(i - 1),
           NEW kind \in CertificateKinds, NEW key, Holds(r, kind, key)
    PROVE  Resolve(Upto(i), kind, key, stream[i]) # {}
<1> DEFINE h == stream[i]
           candidates == {o \in Known(Upto(i), h) : o.kind = kind /\ key \in o.keys /\ EffectiveAt(o, h.at)}
           gaps == {d \in 0..i : \E k \in 1..i : k = i - d /\ stream[k] \in candidates}
<1>1. Len(stream) \in Nat /\ i \in Nat
  BY DEF LiveInv, IsSeq
<1>2. ASSUME NEW k \in 1..i
      PROVE  /\ k \in 1..Len(stream) /\ k \in Nat
             /\ stream[k].n = k - 1 /\ Timely(stream[k]) /\ stream[k] \in Known(Upto(i), h)
  <2>1. k \in 1..Len(stream) /\ k \in Nat /\ k <= i
    BY <1>1
  <2>2. stream[k].n = k - 1 /\ h.n = i - 1 /\ Timely(stream[k])
    BY <2>1 DEF LiveInv
  <2>3. stream[k].n <= h.n
    BY <1>1, <2>1, <2>2
  <2>4. stream[k] \in Upto(i)
    BY DEF Upto
  <2> QED
    BY <2>1, <2>2, <2>3, <2>4 DEF Known, Admits
<1>3. h.at = 1
  <2>1. i \in 1..i
    BY <1>1
  <2> QED
    BY <1>2, <2>1 DEF Timely
<1>4. ASSUME NEW k \in 1..i, stream[k].kind = kind, key \in stream[k].keys
      PROVE  stream[k] \in candidates
  <2>1. stream[k].from = 0
    BY <1>2, <1>4 DEF Timely
  <2>2. EffectiveAt(stream[k], h.at)
    BY <1>3, <2>1 DEF EffectiveAt
  <2> QED
    BY <1>2, <1>4, <2>2
<1>5. gaps # {}
  <2>1. PICK k \in 1..r : stream[k].kind = kind /\ key \in stream[k].keys
    BY DEF Holds
  <2>2. k \in 1..i /\ i - k \in 0..i /\ k = i - (i - k)
    BY <1>1
  <2>3. i - k \in gaps
    BY <1>4, <2>1, <2>2
  <2> QED
    BY <2>3
<1>6. gaps \in SUBSET Nat
  OBVIOUS
<1> HIDE DEF gaps
<1>7. PICK d \in gaps : \A u \in gaps : d <= u
  BY <1>5, <1>6, LeastOfNumbers
<1>8. PICK k \in 1..i : d \in 0..i /\ k = i - d /\ stream[k] \in candidates
  BY DEF gaps
<1>9. ASSUME NEW p \in candidates
      PROVE  ~Supersedes(p, stream[k])
  <2>1. p \in Known(Upto(i), h) /\ p.kind = kind
    OBVIOUS
  <2>2. PICK j \in 1..i : p = stream[j]
    BY <2>1 DEF Known, Upto
  <2>3. i - j \in 0..i /\ j = i - (i - j)
    BY <1>1
  <2>4. i - j \in gaps
    BY <2>2, <2>3 DEF gaps
  <2>5. d <= i - j
    BY <1>7, <2>4
  <2>6. j <= k
    BY <1>1, <1>8, <2>5
  <2>7. stream[k].kind = kind
    BY <1>8
  <2>8. p.from = 0 /\ stream[k].from = 0 /\ p.n = j - 1 /\ stream[k].n = k - 1
    BY <1>2, <2>1, <2>2, <2>7 DEF Timely
  <2> QED
    BY <1>1, <2>6, <2>8 DEF Supersedes
<1>10. stream[k] \in Resolve(Upto(i), kind, key, h)
  <2>1. Resolve(Upto(i), kind, key, h) = {o \in candidates : \A p \in candidates : ~Supersedes(p, o)}
    BY DEF Resolve
  <2> HIDE DEF candidates
  <2> QED
    BY <1>8, <1>9, <2>1
<1> QED
  BY <1>10

LEMMA RecordedIsChecked ==
    ASSUME LiveInv, NEW i \in 1..Len(stream), NEW r \in 0..(i - 1),
           NEW kind, NEW key, Holds(r, kind, key)
    PROVE  Checked(Upto(i), kind, key, stream[i])
<1>1. PICK k \in 1..r : stream[k].kind = kind /\ key \in stream[k].keys
  BY DEF Holds
<1>2. Len(stream) \in Nat /\ i \in Nat /\ k \in Nat /\ k <= i /\ k \in 1..i /\ k \in 1..Len(stream)
  BY DEF LiveInv, IsSeq
<1>3. stream[k].n = k - 1 /\ stream[i].n = i - 1
  BY <1>2 DEF LiveInv
<1>4. stream[k].n <= stream[i].n
  BY <1>2, <1>3
<1>5. stream[k] \in Known(Upto(i), stream[i])
  BY <1>2, <1>4 DEF Known, Admits, Upto
<1> QED
  BY <1>1, <1>5 DEF Checked, Answers

\* What a context says of its registry.
LEMMA SettlementInContext ==
    ASSUME NEW kb, NEW m, NEW h
    PROVE  /\ Checked(kb, "SETTLEMENT_REGISTRY_SNAPSHOT", Key(m), h) =>
                <<"settlement", m>> \notin BinaryContext(kb, m, h).missing
           /\ <<"settlement", m>> \in BinaryContext(kb, m, h).absent =>
                Resolve(kb, "SETTLEMENT_CERTIFICATE", Key(m), h) = {}
BY DEF BinaryContext, Sources

LEMMA RelationInContext ==
    ASSUME NEW kb, NEW b, NEW claim, NEW h
    PROVE  /\ Checked(kb, "RELATION_REGISTRY_SNAPSHOT", Key(b.event), h) =>
                <<"relation", b.event>> \notin BasketContext(kb, b, claim, h).missing
           /\ <<"relation", b.event>> \in BasketContext(kb, b, claim, h).absent =>
                Resolve(kb, "RELATION_CERTIFICATE",
                        RelationIdentity(b.event, claim, b.members), h) = {}
<1> DEFINE members == [m \in b.members |-> BinaryContext(kb, m, h)]
           context == BasketContext(kb, b, claim, h)
           relation == Resolve(kb, "RELATION_CERTIFICATE", RelationIdentity(b.event, claim, b.members), h)
<1>1. context.missing = RelationMissing(kb, b, claim, h, members)
  BY DEF BasketContext
<1>2. \A m : \A x \in BinaryContext(kb, m, h).missing : x[1] # "relation"
  BY DEF BinaryContext
<1>3. ASSUME NEW x \in UNION {members[m].missing : m \in b.members}
      PROVE  x[1] # "relation"
  <2>1. PICK m \in b.members : x \in members[m].missing
    OBVIOUS
  <2>2. x \in BinaryContext(kb, m, h).missing
    BY <2>1
  <2> QED
    BY <1>2, <2>2
<1>4. ASSUME Checked(kb, "RELATION_REGISTRY_SNAPSHOT", Key(b.event), h),
             <<"relation", b.event>> \in context.missing
      PROVE  FALSE
  <2> HIDE DEF members, context
  <2>1. <<"relation", b.event>>[1] = "relation"
    OBVIOUS
  <2>2. <<"relation", b.event>> \notin UNION {members[m].missing : m \in b.members}
    BY <1>3, <2>1
  <2> QED
    BY <1>1, <1>4, <2>2 DEF RelationMissing
<1>5. ASSUME <<"relation", b.event>> \in context.absent
      PROVE  relation = {}
  <2> DEFINE alone == {<<"settlement", m>> : m \in {k \in b.members :
                         members[k].certificate = {} /\ members[k].missing = {}}}
  <2>1. context.absent = ({x \in {<<"relation", b.event>>} : relation = {}} \ context.missing) \cup alone
    BY DEF BasketContext
  <2>2. <<"relation", b.event>> \notin alone
    OBVIOUS
  <2> HIDE DEF alone, context, relation
  <2> QED
    BY <1>5, <2>1, <2>2
<1> HIDE DEF context, relation
<1>6. Checked(kb, "RELATION_REGISTRY_SNAPSHOT", Key(b.event), h) => <<"relation", b.event>> \notin context.missing
  BY <1>4
<1> QED
  BY <1>5, <1>6 DEF context, relation

LEMMA AbsentIsWhatTheRegistryLacked ==
    ASSUME CaptureInv
    PROVE  AbsentMeansUnissued
<1> DEFINE plan == BuildPlan(fetched)
<1>1. Len(stream) \in Nat /\ DOMAIN live = 1..Len(stream)
  BY DEF CaptureInv, LiveInv, IsSeq
<1> SUFFICES ASSUME NEW i \in 1..Len(stream)
             PROVE  /\ \A d \in live[i].binary :
                          /\ <<"settlement", d[1]>> \notin d[2].missing
                          /\ <<"settlement", d[1]>> \in d[2].absent =>
                                \A c \in consulted.settlement : c.market # d[1]
                    /\ \A d \in live[i].baskets :
                          /\ <<"relation", d[1].event>> \notin d[2].missing
                          /\ <<"relation", d[1].event>> \in d[2].absent =>
                                ~\E c \in consulted.relations :
                                    c.claim = "AT_MOST_ONE" /\ c.event = d[1].event /\ c.members = d[1].members
  BY <1>1 DEF AbsentMeansUnissued
<1> DEFINE o == stream[i]
           kb == Upto(i)
<1>2. live[i] = Decides(kb, plan, o)
  BY DEF CaptureInv, LiveInv
<1>3. CASE o.kind # "FRAME_RECEIVED"
  <2>1. live[i] = NoContexts
    BY <1>2, <1>3 DEF Decides
  <2> QED
    BY <2>1 DEF NoContexts
<1>4. CASE o.kind = "FRAME_RECEIVED"
  <2>1. PICK r \in 0..Len(stream) : NoFrameIn(r) /\ RegistriesRecorded(r)
    <3>1. ~NoFrameIn(Len(stream))
      BY <1>4 DEF NoFrameIn
    <3> QED
      BY <3>1 DEF CaptureInv, OrderInv
  <2>2. r \in 0..(i - 1)
    <3>1. i \notin 1..r
      BY <1>4, <2>1 DEF NoFrameIn
    <3> QED
      BY <1>1, <3>1
  <2>3. LiveInv
    BY DEF CaptureInv
  <2> HIDE DEF kb
  <2>4. live[i] = ContextsGiven(kb, plan, o)
    BY <1>2, <1>4 DEF Decides
  <2> HIDE DEF o, plan
  <2>5. ASSUME NEW d \in live[i].binary
        PROVE  /\ <<"settlement", d[1]>> \notin d[2].missing
               /\ <<"settlement", d[1]>> \in d[2].absent =>
                     \A c \in consulted.settlement : c.market # d[1]
    <3>1. PICK m \in plan.complement : d = <<m, BinaryContext(kb, m, o)>>
      BY <2>4 DEF ContextsGiven
    <3>2. m \in fetched
      BY <3>1 DEF plan, BuildPlan
    <3>3. Checked(kb, "SETTLEMENT_REGISTRY_SNAPSHOT", Key(m), o)
      BY <2>1, <2>2, <2>3, <3>2, RecordedIsChecked DEF RegistriesRecorded, kb, o
    <3>4. ASSUME NEW c \in consulted.settlement, c.market = m
          PROVE  Resolve(kb, "SETTLEMENT_CERTIFICATE", Key(m), o) # {}
      <4>1. Holds(r, "SETTLEMENT_CERTIFICATE", Key(m))
        BY <2>1, <3>2, <3>4 DEF RegistriesRecorded
      <4>2. "SETTLEMENT_CERTIFICATE" \in CertificateKinds
        BY DEF CertificateKinds
      <4> QED
        BY <2>2, <2>3, <4>1, <4>2, RecordedIsResolved DEF kb, o
    <3>5. d[1] = m /\ d[2] = BinaryContext(kb, m, o)
      BY <3>1
    <3> QED
      BY <3>3, <3>4, <3>5, SettlementInContext
  <2>6. ASSUME NEW d \in live[i].baskets
        PROVE  /\ <<"relation", d[1].event>> \notin d[2].missing
               /\ <<"relation", d[1].event>> \in d[2].absent =>
                     ~\E c \in consulted.relations :
                         c.claim = "AT_MOST_ONE" /\ c.event = d[1].event /\ c.members = d[1].members
    <3>1. PICK b \in plan.baskets : d = <<b, BasketContext(kb, b, "AT_MOST_ONE", o)>>
      BY <2>4 DEF ContextsGiven
    <3>2. Checked(kb, "RELATION_REGISTRY_SNAPSHOT", Key(b.event), o)
      BY <2>1, <2>2, <2>3, <3>1, RecordedIsChecked DEF RegistriesRecorded, kb, o, plan
    <3>3. ASSUME NEW c \in consulted.relations, c.event = b.event, c.members = b.members
          PROVE  Resolve(kb, "RELATION_CERTIFICATE",
                         RelationIdentity(b.event, "AT_MOST_ONE", b.members), o) # {}
      <4>1. Holds(r, "RELATION_CERTIFICATE", RelationIdentity(b.event, "AT_MOST_ONE", b.members))
        BY <2>1, <3>1, <3>3 DEF RegistriesRecorded, plan
      <4>2. "RELATION_CERTIFICATE" \in CertificateKinds
        BY DEF CertificateKinds
      <4> QED
        BY <2>2, <2>3, <4>1, <4>2, RecordedIsResolved DEF kb, o
    <3>4. d[1] = b /\ d[2] = BasketContext(kb, b, "AT_MOST_ONE", o)
      BY <3>1
    <3> QED
      BY <3>2, <3>3, <3>4, RelationInContext
  <2> QED
    BY <2>5, <2>6
<1> QED
  BY <1>3, <1>4

-----------------------------------------------------------------------------
(* The steps.  *)

LEMMA CaptureInit == Init => CaptureInv
<1> SUFFICES ASSUME Init PROVE CaptureInv
  OBVIOUS
<1> USE DEF Init
<1>1. IsSeq(<<>>) /\ Len(<<>>) = 0
  BY NothingIsPart DEF Part
<1>2. LiveInv
  BY <1>1 DEF LiveInv
<1>3. BundleInv
  BY DEF BundleInv, EmptyDisk, VerifiedReplayIsTheSession, NotLoaded
<1>4. RegistriesInv
  BY <1>1, FS_EmptySet DEF RegistriesInv
<1>5. OrderInv
  BY <1>1 DEF OrderInv, NoFrameIn
<1> QED
  BY <1>2, <1>3, <1>4, <1>5 DEF CaptureInv

\* Nothing of the bundle changes.
LEMMA BundleStays ==
    ASSUME BundleInv, UNCHANGED bundleVars, pc' # "manifest" \/ UNCHANGED <<pc, fetched, recordVars>>
    PROVE  BundleInv'
<1>1. BuildPlan(fetched)' = BuildPlan(fetched')
  BY DEF BuildPlan, EventOf, VenueEvents
<1> QED
  BY <1>1 DEF BundleInv, bundleVars, recordVars, VerifiedReplayIsTheSession

\* Nothing of the registries or of what was fetched.
LEMMA RegistriesStay ==
    ASSUME RegistriesInv, UNCHANGED registryVars, fetched' \in {{}, fetched}
    PROVE  RegistriesInv'
BY FS_EmptySet DEF RegistriesInv, registryVars

\* A run that is over leaves nothing that the invariants of a run speak of.
LEMMA EndsKeeps ==
    ASSUME Ends, RegistriesInv, UNCHANGED registryVars
    PROVE  LiveInv' /\ RegistriesInv' /\ OrderInv'
<1> USE DEF Ends
<1>1. IsSeq(<<>>) /\ Len(<<>>) = 0
  BY NothingIsPart DEF Part
<1>2. LiveInv'
  BY <1>1 DEF LiveInv
<1>3. RegistriesInv'
  BY RegistriesStay
<1>4. OrderInv'
  BY <1>1 DEF OrderInv, NoFrameIn
<1> QED
  BY <1>2, <1>3, <1>4

\* Neither the stream nor what it is judged by changes, nor the phase.
LEMMA StreamStays ==
    ASSUME LiveInv, OrderInv, UNCHANGED <<fetched, consulted, recordVars>>,
           \/ pc' = pc
           \/ pc \in {"idle", "metadata"} /\ pc' \in {"idle", "metadata"}
           \/ pc \notin {"idle", "metadata", "fees"} /\ pc' \notin {"idle", "metadata", "fees"}
    PROVE  LiveInv' /\ OrderInv'
<1>1. BuildPlan(fetched)' = BuildPlan(fetched)
  BY DEF BuildPlan, EventOf, VenueEvents
<1>2. stream' = stream /\ live' = live /\ fetched' = fetched /\ consulted' = consulted
  BY DEF recordVars
<1>3. \A i : Upto(i)' = Upto(i)
  BY <1>2 DEF Upto
<1>4. LiveInv'
  BY <1>1, <1>2, <1>3 DEF LiveInv
<1>5. \A r : (NoFrameIn(r)' <=> NoFrameIn(r)) /\ (RegistriesRecorded(r)' <=> RegistriesRecorded(r))
  BY <1>1, <1>2 DEF NoFrameIn, RegistriesRecorded, Holds
<1>6. OrderInv'
  BY <1>2, <1>5 DEF OrderInv
<1> QED
  BY <1>4, <1>6

\* What is recorded once the registries were.
LEMMA LaterRecordingKeeps ==
    ASSUME CaptureInv, NEW bodies, IsSeq(bodies), \A i \in 1..Len(bodies) : Timely(bodies[i]),
           Recording(bodies), UNCHANGED <<registryVars, fetched, consulted, bundleVars>>,
           pc \in {"evidence", "subscribing", "streaming"},
           pc' \in {"evidence", "subscribing", "streaming", "writing"}
    PROVE  CaptureInv'
<1>1. LiveInv'
  BY RecordingKeepsLive DEF CaptureInv
<1>2. BundleInv'
  BY BundleStays DEF CaptureInv
<1>3. RegistriesInv'
  BY RegistriesStay DEF CaptureInv
<1>4. OrderInv'
  BY RecordingKeepsOrder DEF CaptureInv
<1> QED
  BY <1>1, <1>2, <1>3, <1>4 DEF CaptureInv

LEMMA FirstStepsKeep ==
    ASSUME CaptureInv, SelectTickers \/ FetchMarket \/ NothingFetched
    PROVE  CaptureInv'
<1> USE DEF CaptureInv
<1>1. CASE SelectTickers
  <2>1. pc = "idle" /\ pc' = "metadata"
        /\ UNCHANGED <<registryVars, fetched, consulted, recordVars, bundleVars>>
    BY <1>1 DEF SelectTickers
  <2> QED
    BY <2>1, StreamStays, BundleStays, RegistriesStay
<1>2. CASE FetchMarket
  <2>1. /\ pc = "metadata" /\ pc' = pc /\ fetched' \in {fetched, fetched \cup {Head(todo)}}
        /\ UNCHANGED <<registryVars, consulted, recordVars, bundleVars>>
    BY <1>2 DEF FetchMarket
  <2>2. stream' = stream /\ live' = live /\ settlement' = settlement /\ relations' = relations
        /\ Len(stream) = 0
    BY <2>1 DEF recordVars, registryVars, LiveInv
  <2>3. LiveInv'
    BY <2>1, <2>2 DEF LiveInv
  <2>4. IsFiniteSet(fetched')
    BY <2>1, FS_AddElement DEF RegistriesInv
  <2>5. RegistriesInv'
    BY <2>2, <2>4 DEF RegistriesInv
  <2>6. OrderInv'
    BY <2>1, <2>2 DEF OrderInv, NoFrameIn
  <2> QED
    BY <2>1, <2>3, <2>5, <2>6, BundleStays
<1>3. CASE NothingFetched
  <2>1. Ends /\ UNCHANGED registryVars /\ UNCHANGED bundleVars
    BY <1>3 DEF NothingFetched
  <2>2. pc' # "manifest"
    BY <2>1 DEF Ends
  <2> QED
    BY <2>1, <2>2, EndsKeeps, BundleStays
<1> QED
  BY <1>1, <1>2, <1>3

LEMMA EarlyRecordingKeeps ==
    ASSUME CaptureInv, pc \in {"metadata", "fees"}, pc' = "fees", NEW bodies, Part(bodies), Recording(bodies),
           UNCHANGED <<registryVars, fetched, bundleVars>>
    PROVE  CaptureInv'
<1> USE DEF CaptureInv
<1>1. LiveInv'
  BY RecordingKeepsLive DEF Part
<1>2. BundleInv' /\ RegistriesInv'
  BY BundleStays, RegistriesStay
<1>3. OrderInv'
  BY PartKeepsOrder DEF OrderInv
<1> QED
  BY <1>1, <1>2, <1>3

LEMMA RecordPlanKeeps ==
    ASSUME CaptureInv, RecordPlan
    PROVE  CaptureInv'
<1> DEFINE bodies == <<Observation("DETECTOR_PLAN", {}, {}, BuildPlan(fetched))>>
                     \o InOrder(fetched, MetadataObservation)
                     \o <<Observation("METADATA_SNAPSHOT", {Key(m) : m \in fetched}, fetched, "none")>>
<1>1. pc = "metadata" /\ pc' = "fees" /\ Recording(bodies) /\ UNCHANGED <<registryVars, fetched, bundleVars>>
  BY DEF RecordPlan
<1>2. Part(bodies)
  BY PlanIsPart DEF CaptureInv, RegistriesInv
<1> HIDE DEF bodies
<1> QED
  BY <1>1, <1>2, EarlyRecordingKeeps

LEMMA ReadFeesKeeps ==
    ASSUME CaptureInv, ReadFees
    PROVE  CaptureInv'
<1>1. pc = "fees" /\ pc' = pc /\ UNCHANGED <<registryVars, fetched, consulted, bundleVars>>
  BY DEF ReadFees
<1>2. CASE UNCHANGED recordVars
  BY <1>1, <1>2, StreamStays, BundleStays, RegistriesStay DEF CaptureInv
<1>3. CASE ~UNCHANGED recordVars
  <2>1. PICK e, c : Recording(FeeObservations(e, c))
    BY <1>3 DEF ReadFees
  <2>2. PICK bodies : bodies = FeeObservations(e, c)
    OBVIOUS
  <2>3. Part(bodies) /\ Recording(bodies)
    BY <2>1, <2>2, FeesArePart DEF CaptureInv, RegistriesInv
  <2> QED
    BY <1>1, <2>3, EarlyRecordingKeeps
<1> QED
  BY <1>2, <1>3

LEMMA RecordRegistriesKeeps ==
    ASSUME CaptureInv, RecordRegistries
    PROVE  CaptureInv'
<1> USE DEF CaptureInv
<1>1. /\ pc = "fees" /\ pc' = "evidence" /\ Recording(RegistryPart)
      /\ consulted' = [settlement |-> SetOf(settlement), relations |-> SetOf(relations)]
      /\ UNCHANGED <<registryVars, fetched, bundleVars>>
  BY DEF RecordRegistries, RegistryPart
<1>2. PICK bodies : bodies = RegistryPart
  OBVIOUS
<1>3. /\ Part(bodies)
      /\ \A m \in fetched : Within(bodies, "SETTLEMENT_REGISTRY_SNAPSHOT", Key(m))
      /\ \A c \in SetOf(settlement) : c.market \in fetched =>
           Within(bodies, "SETTLEMENT_CERTIFICATE", Key(c.market))
      /\ \A b \in BuildPlan(fetched).baskets : Within(bodies, "RELATION_REGISTRY_SNAPSHOT", Key(b.event))
      /\ \A c \in SetOf(relations) : \A b \in BuildPlan(fetched).baskets : b.event = c.event =>
           Within(bodies, "RELATION_CERTIFICATE", RelationIdentity(c.event, "AT_MOST_ONE", c.members))
  BY <1>2, RegistriesArePart
<1>4. Recording(bodies)
  BY <1>1, <1>2
<1>5. LiveInv'
  BY <1>1, <1>3, <1>4, RecordingKeepsLive DEF Part
<1>6. BundleInv' /\ RegistriesInv'
  BY <1>1, BundleStays, RegistriesStay
<1>7. NoFrameIn(Len(stream))'
  BY <1>1, <1>3, <1>4, PartKeepsOrder DEF OrderInv
<1>8. /\ Len(stream) \in Nat /\ Len(bodies) \in Nat /\ Len(stream') = Len(stream) + Len(bodies)
      /\ \A i \in 1..Len(bodies) :
           stream'[Len(stream) + i] = Numbered(bodies[i], Len(stream) + i - 1)
  BY <1>3, <1>4, RecordingAppends DEF LiveInv, Part
<1> PICK r : r = Len(stream')
  OBVIOUS
<1>9. ASSUME NEW kind, NEW key, Within(bodies, kind, key)
      PROVE  Holds(r, kind, key)'
  <2>1. PICK i \in 1..Len(bodies) : bodies[i].kind = kind /\ key \in bodies[i].keys
    BY <1>9 DEF Within
  <2>2. PICK n : stream'[Len(stream) + i] = Numbered(bodies[i], n)
    BY <1>8, Zenon
  <2>3. Len(stream) + i \in 1..r
    BY <1>8
  <2>4. stream'[Len(stream) + i].kind = kind /\ key \in stream'[Len(stream) + i].keys
    BY <2>1, <2>2 DEF Numbered
  <2> QED
    BY <2>3, <2>4 DEF Holds
<1>10. BuildPlan(fetched)' = BuildPlan(fetched)
  BY <1>1 DEF BuildPlan, EventOf, VenueEvents
<1>11. fetched' = fetched /\ consulted'.settlement = SetOf(settlement)
       /\ consulted'.relations = SetOf(relations)
  BY <1>1
<1>12. RegistriesRecorded(r)'
  BY <1>3, <1>9, <1>10, <1>11, Zenon DEF RegistriesRecorded
<1>13. r \in 0..Len(stream') /\ NoFrameIn(r)'
  BY <1>7, <1>8 DEF NoFrameIn
<1>14. OrderInv'
  BY <1>1, <1>12, <1>13 DEF OrderInv
<1> QED
  BY <1>5, <1>6, <1>14

\* One observation that is recorded once the registries were.
LEMMA OneMoreKeeps ==
    ASSUME CaptureInv, NEW kind, NEW keys, NEW markets, NEW holds,
           Recording(<<Observation(kind, keys, markets, holds)>>),
           UNCHANGED <<registryVars, fetched, consulted, bundleVars>>,
           pc \in {"evidence", "subscribing", "streaming"},
           pc' \in {"evidence", "subscribing", "streaming", "writing"}
    PROVE  CaptureInv'
<1>1. PICK o : o = Observation(kind, keys, markets, holds)
  OBVIOUS
<1>2. Timely(o)
  BY <1>1, ObservationsAreTimely
<1>3. IsSeq(<<o>>) /\ Len(<<o>>) = 1 /\ <<o>>[1] = o
  BY SingletonIsSeq, Zenon
<1>4. \A i \in 1..Len(<<o>>) : Timely(<<o>>[i])
  <2>1. \A i \in 1..1 : i = 1
    OBVIOUS
  <2> QED
    BY <1>2, <1>3, <2>1
<1> QED
  BY <1>1, <1>3, <1>4, LaterRecordingKeeps

LEMMA EvidenceStepsKeep ==
    ASSUME CaptureInv, ReadEvidence \/ Connect \/ Acknowledged \/ ReceiveFrame
    PROVE  CaptureInv'
<1>1. CASE ReadEvidence
  <2>1. pc = "evidence" /\ pc' = pc /\ UNCHANGED <<registryVars, fetched, consulted, bundleVars>>
    BY <1>1 DEF ReadEvidence
  <2>2. CASE UNCHANGED recordVars
    BY <2>1, <2>2, StreamStays, BundleStays, RegistriesStay DEF CaptureInv
  <2>3. ASSUME NEW m, Recording(<<SettlementEvidence(m)>>)
        PROVE  CaptureInv'
    BY <2>1, <2>3, OneMoreKeeps DEF SettlementEvidence
  <2>4. ASSUME Recording(<<RelationEvidence(Head(todo))>>)
        PROVE  CaptureInv'
    BY <2>1, <2>4, OneMoreKeeps DEF RelationEvidence
  <2> QED
    BY <1>1, <2>2, <2>3, <2>4 DEF ReadEvidence
<1>2. CASE Connect
  BY <1>2, OneMoreKeeps DEF Connect
<1>3. CASE Acknowledged
  BY <1>3, OneMoreKeeps DEF Acknowledged
<1>4. CASE ReceiveFrame
  <2>1. PICK m \in fetched : Recording(<<Observation("FRAME_RECEIVED", {}, {m}, "frame")>>)
    BY <1>4 DEF ReceiveFrame
  <2>2. /\ pc \in {"subscribing", "streaming"} /\ pc' = pc
        /\ UNCHANGED <<registryVars, fetched, consulted, bundleVars>>
    BY <1>4 DEF ReceiveFrame
  <2> QED
    BY <2>1, <2>2, OneMoreKeeps
<1> QED
  BY <1>1, <1>2, <1>3, <1>4

LEMMA StreamEndsKeeps ==
    ASSUME CaptureInv, StreamEnds
    PROVE  CaptureInv'
<1> DEFINE closed == Observation("CONNECTION_CLOSED", {}, {}, "none")
           failed == Observation("CONNECTION_FAILED", {}, {}, "none")
<1>1. /\ pc \in {"subscribing", "streaming"} /\ pc' = "writing"
      /\ UNCHANGED <<registryVars, fetched, consulted, bundleVars>>
      /\ Recording(<<closed>>) \/ Recording(<<failed, closed>>)
  BY DEF StreamEnds
<1>2. CASE Recording(<<closed>>)
  BY <1>1, <1>2, OneMoreKeeps
<1>3. CASE Recording(<<failed, closed>>)
  <2>1. Timely(closed) /\ Timely(failed)
    BY ObservationsAreTimely
  <2> HIDE DEF closed, failed
  <2>2. PICK bodies : bodies = <<failed, closed>>
    OBVIOUS
  <2>3. bodies \in Seq({failed, closed}) /\ Len(bodies) = 2
        /\ bodies[1] = failed /\ bodies[2] = closed
    BY <2>2
  <2>4. \A i \in 1..2 : i = 1 \/ i = 2
    OBVIOUS
  <2>5. IsSeq(bodies) /\ \A i \in 1..Len(bodies) : Timely(bodies[i])
    BY <2>1, <2>3, <2>4 DEF IsSeq
  <2> QED
    BY <1>1, <1>3, <2>2, <2>5, LaterRecordingKeeps
<1> QED
  BY <1>1, <1>2, <1>3

LEMMA RefusalKeeps ==
    ASSUME CaptureInv, ConnectionRefused
    PROVE  CaptureInv'
<1>1. Ends /\ UNCHANGED registryVars /\ UNCHANGED bundleVars
  BY DEF ConnectionRefused
<1>2. pc' # "manifest"
  BY <1>1 DEF Ends
<1> QED
  BY <1>1, <1>2, EndsKeeps, BundleStays DEF CaptureInv

LEMMA WriteObservationsKeeps ==
    ASSUME CaptureInv, WriteObservations
    PROVE  CaptureInv'
<1> DEFINE new == [plan |-> BuildPlan(fetched), stream |-> stream, live |-> live]
<1>1. /\ pc = "writing" /\ pc' = "manifest" /\ sessions' = sessions \cup {new}
      /\ disk' = [disk EXCEPT !.observations = WholeFile(stream)]
      /\ UNCHANGED <<registryVars, fetched, consulted, recordVars, loaded>>
  BY DEF WriteObservations
<1>2. LiveInv' /\ OrderInv'
  BY <1>1, StreamStays DEF CaptureInv
<1>3. RegistriesInv'
  BY <1>1, RegistriesStay DEF CaptureInv
<1>4. live = Replayed(stream, BuildPlan(fetched))
  BY LiveIsReplayed DEF CaptureInv
<1>5. new = [plan |-> new.plan, stream |-> new.stream, live |-> Replayed(new.stream, new.plan)]
  BY <1>4
<1>6. new' = new
  BY <1>1 DEF BuildPlan, EventOf, VenueEvents, recordVars
<1>7. disk' = [observations |-> disk'.observations, manifest |-> disk'.manifest]
      /\ disk'.manifest = disk.manifest
  BY <1>1 DEF CaptureInv, BundleInv
<1>8. loaded' = loaded
  BY <1>1
<1> HIDE DEF new
<1>9. \A s \in sessions' : s = [plan |-> s.plan, stream |-> s.stream, live |-> Replayed(s.stream, s.plan)]
  BY <1>1, <1>5 DEF CaptureInv, BundleInv
<1>10. VerifiedReplayIsTheSession'
  BY <1>1, <1>8 DEF CaptureInv, BundleInv, VerifiedReplayIsTheSession
<1>11. new' \in sessions'
  BY <1>1, <1>6
<1>12. \/ disk'.manifest \in {NoManifest, TornManifest}
       \/ \E s \in sessions' : disk'.manifest = Manifest(s.plan, s.stream)
  BY <1>1, <1>7 DEF CaptureInv, BundleInv
<1>13. BundleInv'
  BY <1>7, <1>9, <1>10, <1>11, <1>12, Zenon DEF BundleInv, new
<1> QED
  BY <1>2, <1>3, <1>13 DEF CaptureInv

\* The run is over, and left a file that is whole or torn and a manifest of its
\* own, none, or the one that was there.
LEMMA DiskKeepsBundle ==
    ASSUME BundleInv, Ends, UNCHANGED <<sessions, loaded>>,
           NEW observations, NEW manifest,
           disk' = [observations |-> observations, manifest |-> manifest],
           \/ manifest \in {NoManifest, TornManifest, disk.manifest}
           \/ \E s \in sessions : manifest = Manifest(s.plan, s.stream)
    PROVE  BundleInv'
<1>1. pc' # "manifest" /\ sessions' = sessions /\ loaded' = loaded
  BY DEF Ends
<1>2. disk' = [observations |-> disk'.observations, manifest |-> disk'.manifest]
      /\ disk'.manifest = manifest
  OBVIOUS
<1>3. \/ disk'.manifest \in {NoManifest, TornManifest}
      \/ \E s \in sessions' : disk'.manifest = Manifest(s.plan, s.stream)
  BY <1>1, <1>2 DEF BundleInv
<1>4. VerifiedReplayIsTheSession'
  BY <1>1 DEF BundleInv, VerifiedReplayIsTheSession
<1>5. \A s \in sessions' : s = [plan |-> s.plan, stream |-> s.stream, live |-> Replayed(s.stream, s.plan)]
  BY <1>1 DEF BundleInv
<1> QED
  BY <1>1, <1>2, <1>3, <1>4, <1>5, Zenon DEF BundleInv

LEMMA LastWritesKeep ==
    ASSUME CaptureInv, KilledWritingObservations \/ WriteManifest \/ KilledWritingManifest
    PROVE  CaptureInv'
<1>1. Ends /\ UNCHANGED registryVars /\ UNCHANGED <<sessions, loaded>>
  BY DEF KilledWritingObservations, WriteManifest, KilledWritingManifest
<1>2. disk = [observations |-> disk.observations, manifest |-> disk.manifest]
  BY DEF CaptureInv, BundleInv
<1>3. BundleInv /\ RegistriesInv
  BY DEF CaptureInv
<1>4. BundleInv'
  <2>1. CASE KilledWritingObservations
    <3>1. PICK torn : disk' = [disk EXCEPT !.observations = torn]
      BY <2>1 DEF KilledWritingObservations
    <3>2. disk' = [observations |-> torn, manifest |-> disk.manifest]
      BY <1>2, <3>1
    <3> QED
      BY <1>1, <1>3, <3>2, DiskKeepsBundle
  <2>2. CASE WriteManifest
    <3> DEFINE s == [plan |-> BuildPlan(fetched), stream |-> stream, live |-> live]
               manifest == Manifest(BuildPlan(fetched), stream)
    <3>1. pc = "manifest" /\ disk' = [disk EXCEPT !.manifest = manifest]
      BY <2>2 DEF WriteManifest
    <3> HIDE DEF manifest
    <3>2. disk' = [observations |-> disk.observations, manifest |-> manifest]
      BY <1>2, <3>1
    <3>3. s \in sessions /\ s.plan = BuildPlan(fetched) /\ s.stream = stream
      BY <1>3, <3>1 DEF BundleInv
    <3> HIDE DEF s
    <3>4. \E x \in sessions : manifest = Manifest(x.plan, x.stream)
      BY <3>3 DEF manifest
    <3> QED
      BY <1>1, <1>3, <3>2, <3>4, DiskKeepsBundle
  <2>3. CASE KilledWritingManifest
    <3>1. PICK manifest \in {disk.manifest, TornManifest} :
            disk' = [observations |-> disk.observations, manifest |-> manifest]
      BY <1>2, <2>3 DEF KilledWritingManifest
    <3> QED
      BY <1>1, <1>3, <3>1, DiskKeepsBundle
  <2> QED
    BY <2>1, <2>2, <2>3
<1> QED
  BY <1>1, <1>3, <1>4, EndsKeeps DEF CaptureInv

LEMMA LoadBundleKeeps ==
    ASSUME CaptureInv, LoadBundle
    PROVE  CaptureInv'
<1>1. /\ loaded' = Load(disk) /\ disk' = disk /\ sessions' = sessions /\ pc = "idle" /\ pc' = pc
      /\ UNCHANGED <<registryVars, fetched, consulted, recordVars>>
  BY DEF LoadBundle
<1>2. LiveInv' /\ OrderInv' /\ RegistriesInv'
  BY <1>1, StreamStays, RegistriesStay DEF CaptureInv
<1>3. VerifiedReplayIsTheSession'
  <2>1. Load(disk).integrity = "VERIFIED" =>
          [plan |-> Load(disk).plan, stream |-> Load(disk).stream,
           live |-> Load(disk).decisions] \in sessions
    BY VerifiedIsASession DEF CaptureInv
  <2> QED
    BY <1>1, <2>1, Zenon DEF VerifiedReplayIsTheSession
<1>4. BundleInv'
  BY <1>1, <1>3 DEF CaptureInv, BundleInv
<1> QED
  BY <1>2, <1>4 DEF CaptureInv

LEMMA IssuesKeep ==
    ASSUME CaptureInv, IssueSettlement \/ IssueRelation
    PROVE  CaptureInv'
<1>1. UNCHANGED <<pc, fetched, consulted, recordVars, bundleVars>>
  BY DEF IssueSettlement, IssueRelation
<1>2. LiveInv' /\ OrderInv' /\ BundleInv'
  BY <1>1, StreamStays, BundleStays DEF CaptureInv
<1>3. ASSUME NEW q, IsSeq(q), NEW c
      PROVE  /\ Len(q) \in Nat /\ IsSeq(Append(q, c)) /\ Len(Append(q, c)) = Len(q) + 1
             /\ \A k \in 1..Len(q) : Append(q, c)[k] = q[k]
             /\ Append(q, c)[Len(q) + 1] = c
  BY <1>3, AppendFacts
<1>4. RegistriesInv'
  <2>1. CASE IssueSettlement
    <3>1. PICK m \in Markets : settlement' = Append(settlement, [market |-> m])
      BY <2>1 DEF IssueSettlement
    <3>2. m \in Nat /\ relations' = relations /\ fetched' = fetched
      BY <1>1, <2>1, CaptureAssumption DEF IssueSettlement
    <3>3. PICK c : c = [market |-> m]
      OBVIOUS
    <3>4. c.market = m
      BY <3>3
    <3>5. IsSeq(settlement') /\ \A k \in 1..Len(settlement') : settlement'[k].market \in Nat
      BY <1>3, <3>1, <3>2, <3>3, <3>4 DEF CaptureInv, RegistriesInv
    <3> QED
      BY <3>2, <3>5 DEF CaptureInv, RegistriesInv
  <2>2. CASE IssueRelation
    <3>1. PICK c : relations' = Append(relations, c) /\ c.event \in VenueEvents
      <4>1. PICK e \in VenueEvents : \E claim \in Claims : \E members :
              relations' = Append(relations, [event |-> e, claim |-> claim, members |-> members])
        BY <2>2 DEF IssueRelation
      <4>2. \A claim, members : [event |-> e, claim |-> claim, members |-> members].event = e
        OBVIOUS
      <4> QED
        BY <4>1, <4>2
    <3>2. c.event \in Nat /\ settlement' = settlement /\ fetched' = fetched
      BY <1>1, <2>2, <3>1, CaptureAssumption DEF IssueRelation, VenueEvents, EventOf
    <3>3. IsSeq(relations') /\ \A k \in 1..Len(relations') : relations'[k].event \in Nat
      BY <1>3, <3>1, <3>2 DEF CaptureInv, RegistriesInv
    <3> QED
      BY <3>2, <3>3 DEF CaptureInv, RegistriesInv
  <2> QED
    BY <2>1, <2>2
<1> QED
  BY <1>2, <1>4 DEF CaptureInv

LEMMA CaptureNext ==
    ASSUME CaptureInv, [Next]_vars
    PROVE  CaptureInv'
<1>1. CASE UNCHANGED vars
  BY <1>1, StreamStays, BundleStays, RegistriesStay DEF CaptureInv, vars
<1>2. CASE SelectTickers \/ FetchMarket \/ NothingFetched
  BY <1>2, FirstStepsKeep
<1>3. CASE RecordPlan
  BY <1>3, RecordPlanKeeps
<1>4. CASE ReadFees
  BY <1>4, ReadFeesKeeps
<1>5. CASE RecordRegistries
  BY <1>5, RecordRegistriesKeeps
<1>6. CASE ReadEvidence \/ Connect \/ Acknowledged \/ ReceiveFrame
  BY <1>6, EvidenceStepsKeep
<1>7. CASE ConnectionRefused
  BY <1>7, RefusalKeeps
<1>8. CASE StreamEnds
  BY <1>8, StreamEndsKeeps
<1>9. CASE WriteObservations
  BY <1>9, WriteObservationsKeeps
<1>10. CASE KilledWritingObservations \/ WriteManifest \/ KilledWritingManifest
  BY <1>10, LastWritesKeep
<1>11. CASE LoadBundle
  BY <1>11, LoadBundleKeeps
<1>12. CASE IssueSettlement \/ IssueRelation
  BY <1>12, IssuesKeep
<1> QED
  BY <1>1, <1>2, <1>3, <1>4, <1>5, <1>6, <1>7, <1>8, <1>9, <1>10, <1>11, <1>12 DEF Next

-----------------------------------------------------------------------------
(* The theorems.  *)

\* The stream is numbered by its places and decided on as it grew, every manifest
\* that can be read is one session's, and the registries precede the frames.
THEOREM CaptureInvariance == Spec => []CaptureInv
<1>1. Init => CaptureInv
  BY CaptureInit
<1>2. CaptureInv /\ [Next]_vars => CaptureInv'
  BY CaptureNext
<1> QED
  BY <1>1, <1>2, PTL DEF Spec

\* However earlier runs into the directory ended, wherever their writes were
\* killed, and although replay/engine.py indexes the whole stream before its
\* first frame: what load_bundle returns as verified is one session's stream
\* and plan, and replays to the decisions that session made as it ran.
THEOREM VerifiedIsTheSession == Spec => []VerifiedReplayIsTheSession
<1>1. CaptureInv => VerifiedReplayIsTheSession
  BY DEF CaptureInv, BundleInv
<1> QED
  BY <1>1, CaptureInvariance, PTL

\* record_settlement_registry and record_relation_registry come before the first
\* frame, list every certificate of what is monitored and say that they looked:
\* no decision of the session misses a certificate, and one it calls absent the
\* registry did not hold when this run read it.
THEOREM AbsentIsUnissued == Spec => []AbsentMeansUnissued
<1>1. CaptureInv => AbsentMeansUnissued
  BY AbsentIsWhatTheRegistryLacked
<1> QED
  BY <1>1, CaptureInvariance, PTL

=============================================================================
