--------------------------- MODULE SessionCapture ---------------------------
(***************************************************************************)
(* One run of tools/capture_replay_bundle.py after another, into one       *)
(* directory (--bundle): what is read over REST and from the certificate   *)
(* registries before the first frame, the frames, the bundle that is       *)
(* written (replay/bundle.py), and the offline replay of what is on disk.  *)
(* tools/collect.py records its context with the same functions.           *)
(*                                                                         *)
(* A decision is what the detectors of a frame's market are given, as      *)
(* Knowledge resolves it.  Any read may fail, the process may die while it *)
(* writes, and reviewers issue certificates meanwhile.                     *)
(***************************************************************************)
EXTENDS Knowledge, Sequences, SequencesExt

CONSTANTS
    Markets,          \* markets of the venue, in ticker order
    Market,           \* market -> what the venue says of it, see below
    AskedMarkets,     \* --market
    AskedEvents,      \* --basket-event
    Count,            \* --markets
    Fees,             \* event -> what is published of its fees, as Timeline below
    MaxSessions,      \* bound: runs of the tool
    MaxFrames,        \* bound: frames of a run
    MaxFaults,        \* bound: failed reads, over all runs
    MaxIssues         \* bound: certificates issued

ASSUME CaptureAssumption ==
    /\ Markets \subseteq Nat /\ IsFiniteSet(Markets)
    /\ \A m \in Markets : Market[m].event \in Nat \ {0}
    /\ {MaxSessions, MaxFrames, MaxFaults, MaxIssues, Count} \subseteq Nat

VARIABLES
    settlement,    \* registry: settlement certificates, in order of issue
    relations,     \* registry: relation certificates, in order of issue
    pc,            \* where the tool is
    runs,          \* runs of the tool so far
    fetched,       \* fetch_markets: the markets whose metadata was read
    todo,          \* what is still to be read: markets, events, or certified subjects
    consulted,     \* history: the registries as this run read them
    stream,        \* SessionCapture.observations
    live,          \* live[i]: what the live session decided on stream[i]
    sessions,      \* history: the runs that reached write_bundle
    disk,          \* the bundle directory
    loaded,        \* what load_bundle returned, and its replay
    faults         \* failed reads so far

registryVars == <<settlement, relations>>
recordVars == <<stream, live>>
bundleVars == <<sessions, disk, loaded>>
vars == <<registryVars, pc, runs, fetched, todo, consulted, recordVars, bundleVars, faults>>

-----------------------------------------------------------------------------
(* Markets of the venue: a record of event, active, combo (multivariate or *)
(* provisional), binary, notional (whether one is given), bands (of its    *)
(* price grid, by start), volume, interest, quoted and closesIn (minutes). *)

EventOf(m) == Market[m].event

Accepts(b, price) == b.start <= price /\ price <= b.end /\ (price - b.start) % b.step = 0

\* PriceBand: what construction refuses.
BandIsWellFormed(b) == b.start <= b.end /\ b.step > 0 /\ (b.end - b.start) % b.step = 0

\* Every price of two bands is judged alike by both.
HasConsistentBoundaries(bands) ==
    \A i, j \in DOMAIN bands : \A price \in bands[j].start..bands[i].end :
        i < j /\ price <= bands[j].end => Accepts(bands[i], price) = Accepts(bands[j], price)

IsContiguous(bands) == \A i \in DOMAIN bands : i > 1 => bands[i - 1].end = bands[i].start

ExclusionReasons(m) ==
    {reason \in {"combo", "non-binary", "no notional", "no grid", "inconsistent grid"} :
        CASE reason = "combo" -> Market[m].combo
          [] reason = "non-binary" -> ~Market[m].binary
          [] reason = "no notional" -> ~Market[m].notional
          [] reason = "no grid" -> Market[m].bands = <<>>
          [] reason = "inconsistent grid" ->
                ~HasConsistentBoundaries(Market[m].bands) \/ ~IsContiguous(Market[m].bands)}

\* normalize_market raises on nothing but a malformed band.
Normalises(m) == \A i \in DOMAIN Market[m].bands : BandIsWellFormed(Market[m].bands[i])

Score(m) ==
    LET x == Market[m]
        score == 10 * x.volume + x.interest + x.quoted
    IN  CASE ~x.active \/ x.combo \/ (x.quoted = 0 /\ x.volume = 0) \/ x.closesIn < 0 -> 0
          [] x.active /\ ~x.combo /\ (x.quoted > 0 \/ x.volume > 0) /\ x.closesIn >= 0 ->
                IF x.closesIn < 15 /\ x.volume < 1000 THEN score \div 10 ELSE score

VenueEvents == {EventOf(m) : m \in Markets}

-----------------------------------------------------------------------------
(* What is monitored.  *)

\* discover_active_markets: the best of the scored markets.
Discovered ==
    LET Candidates == {m \in Markets : Score(m) > 0}
        Better(m) == {k \in Candidates : Score(k) > Score(m) \/ (Score(k) = Score(m) /\ k < m)}
    IN {m \in Candidates : Cardinality(Better(m)) < Count}

\* expand_basket_events: the markets of the events that could be listed.
Members(listed) == {m \in Markets : EventOf(m) \in listed}

\* select_tickers, with the events whose members could be listed.
Selected(listed) ==
    LET asked == AskedMarkets \cup Members(listed)
    IN IF asked = {} THEN Discovered ELSE asked

\* build_plan: every market alone, and every event of which two were fetched.
BuildPlan(markets) ==
    LET Of(e) == {m \in markets : EventOf(m) = e}
    IN [complement |-> markets,
        baskets |-> {[event |-> e, members |-> Of(e)] : e \in {e \in VenueEvents : Cardinality(Of(e)) >= 2}}]

-----------------------------------------------------------------------------
(* Observations.  All of a run at one time, 1: their order is what counts. *)

Observation(kind, keys, markets, holds) ==
    [at |-> 1, kind |-> kind, keys |-> keys, from |-> 0, usable |-> TRUE,
     markets |-> markets, holds |-> holds]

\* What the detectors of market m are given at the horizon of o.
ContextsGiven(kb, plan, o) ==
    [binary  |-> {<<m, BinaryContext(kb, m, o)>> : m \in o.markets \cap plan.complement},
     baskets |-> {<<b, BasketContext(kb, b, "AT_MOST_ONE", o)>> :
                    b \in {b \in plan.baskets : b.members \cap o.markets # {}}}]

\* metadata_payload, of which the detectors read the exclusions.
MetadataObservation(m) == Observation("MARKET_METADATA", {Key(m)}, {m}, ExclusionReasons(m))

NoContexts == [binary |-> {}, baskets |-> {}]

Decides(kb, plan, o) ==
    IF o.kind = "FRAME_RECEIVED" THEN ContextsGiven(kb, plan, o) ELSE NoContexts

SetOf(s) == {s[i] : i \in DOMAIN s}

\* SessionCapture.record of some observations, one after the other: each is
\* numbered, kept, and observed by the live session, which holds what came before.
Recording(bodies) ==
    LET n == Len(stream)
        numbered == [i \in 1..Len(bodies) |->
            [n |-> n + i - 1, at |-> bodies[i].at, kind |-> bodies[i].kind,
             keys |-> bodies[i].keys, from |-> bodies[i].from, usable |-> bodies[i].usable,
             markets |-> bodies[i].markets, holds |-> bodies[i].holds]]
        known(i) == SetOf(stream) \cup {numbered[k] : k \in 1..i}
    IN /\ stream' = stream \o numbered
       /\ live' = live \o [i \in 1..Len(bodies) |->
                             Decides(known(i), BuildPlan(fetched), numbered[i])]

\* A set of bodies in ticker (or event) order.
InOrder(S, Body(_)) ==
    LET Rank(x) == Cardinality({y \in S : y < x}) + 1
    IN [i \in 1..Cardinality(S) |-> Body(CHOOSE x \in S : Rank(x) = i)]

-----------------------------------------------------------------------------
(* Fees.  *)

\* build_fee_timeline, from the changes that could be read: a change is
\* [id, at, fee] and fee 0 clears an override.  base and override are 0 when the
\* series or the event names no type or no multiplier.
Timeline(e, seriesRead, eventRead) ==
    [base |-> Fees[e].base, override |-> Fees[e].override,
     series |-> IF seriesRead THEN Fees[e].series ELSE {},
     event |-> IF eventRead THEN Fees[e].event ELSE {}]

\* FeeTimeline._latest_change: at most one change.
LatestChange(changes, now) ==
    LET Later(d, c) == d.at > c.at \/ (d.at = c.at /\ d.id > c.id)
        applicable == {c \in changes : c.at <= now}
    IN {c \in applicable : ~\E d \in applicable : Later(d, c)}

Clears(c) == c.fee = 0
AsConfiguration(c) == [fee |-> c.fee, from |-> c.at]

\* FeeTimeline.resolve_at: the configuration in force and since when, if any.
ResolveAt(timeline, now) ==
    LET event == LatestChange(timeline.event, now)
        series == LatestChange(timeline.series, now)
        Always(fee) == {c \in {[fee |-> fee, from |-> 0]} : fee # 0}
        Installs(changes) == {AsConfiguration(c) : c \in changes}
    IN  CASE \E c \in event : ~Clears(c) -> Installs(event)
          [] event = {} /\ timeline.override # 0 -> Always(timeline.override)
          [] (event = {} => timeline.override = 0) /\ (\A c \in event : Clears(c)) ->
                IF series # {} THEN Installs(series) ELSE Always(timeline.base)

\* What record_fee_context records of market m under a resolved configuration.
FeeObservation(m, resolved) ==
    [Observation("FEE_OBSERVATION", {Key(m)}, {m}, resolved.fee) EXCEPT !.from = resolved.from]

FeeObservations(e, resolved) ==
    InOrder({m \in fetched : EventOf(m) = e}, LAMBDA m : FeeObservation(m, resolved))

-----------------------------------------------------------------------------
(* Certificates.  *)

\* Positions of a registry in the order of their subjects, and of issue.
BySubject(S, subject) ==
    LET Earlier(j, k) == subject[j] < subject[k] \/ (subject[j] = subject[k] /\ j < k)
    IN [i \in 1..Cardinality(S) |-> CHOOSE k \in S : Cardinality({j \in S : Earlier(j, k)}) = i - 1]

\* list_certificates of each market, and of each event, one after the other.
SettlementListed(markets) ==
    LET listed == {k \in DOMAIN settlement : settlement[k].market \in markets}
        turns == BySubject(listed, [k \in listed |-> settlement[k].market])
    IN [i \in DOMAIN turns |-> settlement[turns[i]]]

RelationsListed(events) ==
    LET listed == {k \in DOMAIN relations : relations[k].event \in events}
        turns == BySubject(listed, [k \in listed |-> relations[k].event])
    IN [i \in DOMAIN turns |-> relations[turns[i]]]

\* certificate_payload, relation_payload: the payload of a relation certificate
\* names its event and its members.  _relation_key takes the claim of a payload
\* that names none to be AT_MOST_ONE.
CertificateObservation(c) ==
    Observation("SETTLEMENT_CERTIFICATE", {Key(c.market)}, {c.market}, c)

RelationObservation(c) ==
    Observation("RELATION_CERTIFICATE",
                {RelationIdentity(c.event, "AT_MOST_ONE", c.members)}, c.members, c)

\* A mutant of RegistryObservations: those of the first market only.
MutFirstOnly(markets) ==
    LET listed == SettlementListed({m \in markets : \A k \in markets : m <= k})
    IN [i \in DOMAIN listed |-> CertificateObservation(listed[i])]

\* record_settlement_registry: the certificates of each monitored market.
RegistryObservations(markets) ==
    LET listed == SettlementListed(markets)
    IN [i \in DOMAIN listed |-> CertificateObservation(listed[i])]

\* record_relation_registry: nothing at all without a basket.
RelationRegistryObservations(baskets) ==
    LET events == {b.event : b \in baskets}
        listed == RelationsListed(events)
    IN IF baskets = {} THEN <<>>
       ELSE <<Observation("RELATION_REGISTRY_SNAPSHOT", {Key(e) : e \in events},
                          UNION {b.members : b \in baskets}, "none")>>
            \o [i \in DOMAIN listed |-> RelationObservation(listed[i])]

-----------------------------------------------------------------------------
(* The bundle on disk.  *)

\* observations.jsonl: its complete records, and whether the last one ends with
\* a newline, does not, or is followed by part of another.
NoFile == [lines |-> <<>>, tail |-> "missing"]
WholeFile(s) == [lines |-> s, tail |-> "whole"]
NoManifest == [written |-> FALSE]
TornManifest == [written |-> TRUE, readable |-> FALSE]
Manifest(plan, s) ==
    [written |-> TRUE, readable |-> TRUE, plan |-> plan, file |-> WholeFile(s), count |-> Len(s)]

EmptyDisk == [observations |-> NoFile, manifest |-> NoManifest]

\* What a write of s that is killed may leave: write_text truncates first.
TornFiles(s) ==
    {[lines |-> SubSeq(s, 1, k), tail |-> t] : k \in 0..Len(s), t \in {"whole", "unterminated", "partial"}}
        \ ({[lines |-> <<>>, tail |-> "unterminated"], [lines |-> s, tail |-> "partial"]})

NotLoaded == [integrity |-> "NONE"]
Refused == [integrity |-> "REFUSED"]

\* A mutant of Trusted: the records are counted and not compared.
MutCounted(d) == Len(d.observations.lines) = d.manifest.count

\* load_bundle's checks of a file that ends with a newline: its hash, the hash
\* of its stream and the number of its records.
Trusted(d) == d.observations = d.manifest.file /\ Len(d.observations.lines) = d.manifest.count

\* ReplayEngine.run: the whole stream is indexed before its first frame is replayed.
Replayed(s, plan) == [i \in DOMAIN s |-> Decides(SetOf(s), plan, s[i])]

\* load_bundle, and the replay of what it returns under the plan of the manifest.
Load(d) ==
    LET s == d.observations.lines
        replay(integrity) ==
            [integrity |-> integrity, stream |-> s, plan |-> d.manifest.plan,
             decisions |-> Replayed(s, d.manifest.plan)]
    IN  CASE ~d.manifest.written \/ d.observations.tail = "missing" -> Refused
          [] d.manifest.written /\ d.observations.tail # "missing" ->
                CASE ~d.manifest.readable -> Refused
                  [] d.manifest.readable /\ d.observations.tail # "whole" -> replay("TRUNCATED_TAIL")
                  [] d.manifest.readable /\ d.observations.tail = "whole" ->
                        IF Trusted(d) THEN replay("VERIFIED") ELSE Refused

-----------------------------------------------------------------------------
Init ==
    /\ settlement = <<>> /\ relations = <<>>
    /\ pc = "idle" /\ runs = 0 /\ faults = 0
    /\ fetched = {} /\ todo = <<>> /\ stream = <<>> /\ live = <<>>
    /\ consulted = [settlement |-> {}, relations |-> {}]
    /\ sessions = {} /\ disk = EmptyDisk /\ loaded = NotLoaded

\* A failed read, or as many as n; MaxFaults bounds them.
Fails(n) == faults + n <= MaxFaults /\ faults' = faults + n

\* The run is over, by its end, an exception that escapes, or a kill: nothing
\* of it is left but what is on disk.
Ends ==
    /\ pc' = "idle" /\ fetched' = {} /\ todo' = <<>> /\ stream' = <<>> /\ live' = <<>>
    /\ consulted' = [settlement |-> {}, relations |-> {}]

\* main, then select_tickers with expand_basket_events.
SelectTickers ==
    /\ pc = "idle" /\ runs < MaxSessions
    /\ \E listed \in SUBSET AskedEvents :
          /\ Fails(Cardinality(AskedEvents \ listed))
          /\ todo' = InOrder(Selected(listed), LAMBDA m : m)
    /\ runs' = runs + 1 /\ pc' = "metadata"
    /\ UNCHANGED <<registryVars, fetched, consulted, recordVars, bundleVars>>

\* fetch_markets: one market, read and normalised, or counted as a failure.
FetchMarket ==
    /\ pc = "metadata" /\ todo # <<>>
    /\ todo' = Tail(todo)
    /\ \/ Normalises(Head(todo)) /\ fetched' = fetched \cup {Head(todo)} /\ UNCHANGED faults
       \/ ~Normalises(Head(todo)) /\ UNCHANGED <<fetched, faults>>
       \/ Fails(1) /\ UNCHANGED fetched
    /\ UNCHANGED <<registryVars, pc, runs, consulted, recordVars, bundleVars>>

\* SystemExit when nothing could be read.
NothingFetched ==
    /\ pc = "metadata" /\ todo = <<>> /\ fetched = {}
    /\ Ends
    /\ UNCHANGED <<registryVars, runs, bundleVars, faults>>

\* build_plan, SessionCapture.for_plan and record_market_context.
RecordPlan ==
    /\ pc = "metadata" /\ todo = <<>> /\ fetched # {}
    /\ Recording(<<Observation("DETECTOR_PLAN", {}, {}, BuildPlan(fetched))>>
                 \o InOrder(fetched, MetadataObservation)
                 \o <<Observation("METADATA_SNAPSHOT", {Key(m) : m \in fetched}, fetched, "none")>>)
    /\ todo' = InOrder({EventOf(m) : m \in fetched}, LAMBDA e : e)
    /\ pc' = "fees"
    /\ UNCHANGED <<registryVars, runs, fetched, consulted, bundleVars, faults>>

\* record_fee_context, one event.  Without the event or its series nothing is
\* recorded; changes that could not be read are taken for no changes.
ReadFees ==
    /\ pc = "fees" /\ todo # <<>>
    /\ todo' = Tail(todo)
    /\ \/ Fails(1) /\ UNCHANGED recordVars
       \/ \E seriesRead, eventRead \in BOOLEAN :
            LET e == Head(todo)
                resolved == ResolveAt(Timeline(e, seriesRead, eventRead), 1)
                failed == Cardinality({x \in {<<1, seriesRead>>, <<2, eventRead>>} : ~x[2]})
            IN /\ Fails(failed)
               /\ IF resolved = {} THEN UNCHANGED recordVars
                  ELSE Recording(FeeObservations(e, CHOOSE r \in resolved : TRUE))
    /\ UNCHANGED <<registryVars, pc, runs, fetched, consulted, bundleVars>>

\* The fee snapshot, which names every market that was fetched, then
\* record_settlement_registry and record_relation_registry.
RecordRegistries ==
    LET plan == BuildPlan(fetched)
        certified == {m \in fetched : \E k \in DOMAIN settlement : settlement[k].market = m}
        related == {[event |-> c.event, members |-> c.members] :
                      c \in SetOf(RelationsListed({b.event : b \in plan.baskets}))}
    IN /\ pc = "fees" /\ todo = <<>>
       /\ Recording(<<Observation("FEE_KNOWLEDGE_SNAPSHOT", {Key(m) : m \in fetched}, fetched, "none"),
                      Observation("SETTLEMENT_REGISTRY_SNAPSHOT", {Key(m) : m \in fetched}, fetched, "none")>>
                    \o RegistryObservations(fetched)
                    \o RelationRegistryObservations(plan.baskets))
       /\ consulted' = [settlement |-> SetOf(settlement), relations |-> SetOf(relations)]
       /\ todo' = InOrder(certified, LAMBDA m : [event |-> 0, members |-> {m}]) \o SetToSeq(related)
       /\ pc' = "evidence"
       /\ UNCHANGED <<registryVars, runs, fetched, bundleVars, faults>>

\* Evidence is recorded under its market, or under its event whatever the claim.
SettlementEvidence(m) == Observation("SETTLEMENT_EVIDENCE", {Key(m)}, {m}, "digest")
RelationEvidence(r) ==
    Observation("RELATION_EVIDENCE", {Key(r.event)}, r.members, "digest")

\* record_evidence_for_certified: one market (event 0) or one relation.
ReadEvidence ==
    /\ pc = "evidence" /\ todo # <<>>
    /\ todo' = Tail(todo)
    /\ \/ Fails(1) /\ UNCHANGED recordVars
       \/ /\ Head(todo).event = 0
          /\ \E m \in Head(todo).members : Recording(<<SettlementEvidence(m)>>)
          /\ UNCHANGED faults
       \/ Head(todo).event # 0 /\ Recording(<<RelationEvidence(Head(todo))>>) /\ UNCHANGED faults
    /\ UNCHANGED <<registryVars, pc, runs, fetched, consulted, bundleVars>>

-----------------------------------------------------------------------------
(* The connection.  *)

Connect ==
    /\ pc = "evidence" /\ todo = <<>>
    /\ Recording(<<Observation("CONNECTION_OPENED", {}, {}, "none")>>)
    /\ pc' = "subscribing"
    /\ UNCHANGED <<registryVars, runs, fetched, todo, consulted, bundleVars, faults>>

\* connect or subscribe_orderbook raises: the close is recorded and the
\* exception escapes, so that no bundle is written.
ConnectionRefused ==
    /\ \/ pc = "evidence" /\ todo = <<>>
       \/ pc = "subscribing"
    /\ Fails(1) /\ Ends
    /\ UNCHANGED <<registryVars, runs, bundleVars>>

Acknowledged ==
    /\ pc = "subscribing"
    /\ Recording(<<Observation("SUBSCRIBED", {}, fetched, "none")>>)
    /\ pc' = "streaming"
    /\ UNCHANGED <<registryVars, runs, fetched, todo, consulted, bundleVars, faults>>

FramesReceived == Cardinality({i \in DOMAIN stream : stream[i].kind = "FRAME_RECEIVED"})

\* A frame, also before the acknowledgement; silence is pinged and records nothing.
ReceiveFrame ==
    /\ pc \in {"subscribing", "streaming"} /\ FramesReceived < MaxFrames
    /\ \E m \in fetched : Recording(<<Observation("FRAME_RECEIVED", {}, {m}, "frame")>>)
    /\ UNCHANGED <<registryVars, pc, runs, fetched, todo, consulted, bundleVars, faults>>

\* The transport fails, or the time is up; then the finally clause.
StreamEnds ==
    /\ pc \in {"subscribing", "streaming"}
    /\ LET closed == Observation("CONNECTION_CLOSED", {}, {}, "none") IN
       \/ Recording(<<closed>>) /\ UNCHANGED faults
       \/ Recording(<<Observation("CONNECTION_FAILED", {}, {}, "none"), closed>>) /\ Fails(1)
    /\ pc' = "writing"
    /\ UNCHANGED <<registryVars, runs, fetched, todo, consulted, bundleVars>>

-----------------------------------------------------------------------------
(* write_bundle, and the replay.  *)

WriteObservations ==
    /\ pc = "writing"
    /\ sessions' = sessions \cup {[plan |-> BuildPlan(fetched), stream |-> stream, live |-> live]}
    /\ disk' = [disk EXCEPT !.observations = WholeFile(stream)]
    /\ pc' = "manifest"
    /\ UNCHANGED <<registryVars, runs, fetched, todo, consulted, recordVars, loaded, faults>>

KilledWritingObservations ==
    /\ pc = "writing" /\ Fails(1)
    /\ \E torn \in TornFiles(stream) : disk' = [disk EXCEPT !.observations = torn]
    /\ Ends
    /\ UNCHANGED <<registryVars, runs, sessions, loaded>>

WriteManifest ==
    /\ pc = "manifest"
    /\ disk' = [disk EXCEPT !.manifest = Manifest(BuildPlan(fetched), stream)]
    /\ Ends
    /\ UNCHANGED <<registryVars, runs, sessions, loaded, faults>>

\* Killed before the manifest is written, or as it is.
KilledWritingManifest ==
    /\ pc = "manifest" /\ Fails(1)
    /\ disk' \in {disk, [disk EXCEPT !.manifest = TornManifest]}
    /\ Ends
    /\ UNCHANGED <<registryVars, runs, sessions, loaded>>

\* replay_books and replay_decisions after a capture, or tools that load it later.
LoadBundle ==
    /\ pc = "idle" /\ loaded # Load(disk)
    /\ loaded' = Load(disk)
    /\ UNCHANGED <<registryVars, pc, runs, fetched, todo, consulted, recordVars, sessions, disk, faults>>

-----------------------------------------------------------------------------
(* The reviewers, who may issue certificates at any time.  *)

Issued == Len(settlement) + Len(relations)

\* CertificateRegistry.store_certificate, RelationRegistry.store_certificate.
IssueSettlement ==
    /\ Issued < MaxIssues
    /\ \E m \in Markets : settlement' = Append(settlement, [market |-> m])
    /\ UNCHANGED <<relations, pc, runs, fetched, todo, consulted, recordVars, bundleVars, faults>>

IssueRelation ==
    /\ Issued < MaxIssues
    /\ \E e \in VenueEvents, claim \in Claims :
          LET members == {m \in Markets : EventOf(m) = e}
          IN /\ Cardinality(members) >= 2
             /\ relations' = Append(relations, [event |-> e, claim |-> claim, members |-> members])
    /\ UNCHANGED <<settlement, pc, runs, fetched, todo, consulted, recordVars, bundleVars, faults>>

Next ==
    \/ SelectTickers \/ FetchMarket \/ NothingFetched \/ RecordPlan \/ ReadFees
    \/ RecordRegistries \/ ReadEvidence
    \/ Connect \/ ConnectionRefused \/ Acknowledged \/ ReceiveFrame \/ StreamEnds
    \/ WriteObservations \/ KilledWritingObservations \/ WriteManifest \/ KilledWritingManifest
    \/ LoadBundle
    \/ IssueSettlement \/ IssueRelation

Spec == Init /\ [][Next]_vars

-----------------------------------------------------------------------------
(* Properties.                                                             *)

\* A bundle that loads as VERIFIED is one session's, whole: its stream, its
\* plan, and, with the whole stream indexed before the first frame, the
\* decisions that session made live knowing only what had arrived; however
\* earlier runs into the directory ended and wherever they were killed.
VerifiedReplayIsTheSession ==
    loaded.integrity = "VERIFIED" =>
        [plan |-> loaded.plan, stream |-> loaded.stream, live |-> loaded.decisions] \in sessions

\* Of the certificates a decision may rest on, none is missing, and one is
\* absent only if the registry that was read held none: an empty snapshot is
\* the statement that somebody looked.
AbsentMeansUnissued ==
    \A i \in DOMAIN live :
        /\ \A d \in live[i].binary :
              /\ <<"settlement", d[1]>> \notin d[2].missing
              /\ <<"settlement", d[1]>> \in d[2].absent =>
                    \A c \in consulted.settlement : c.market # d[1]
        /\ \A d \in live[i].baskets :
              /\ <<"relation", d[1].event>> \notin d[2].missing
              /\ <<"relation", d[1].event>> \in d[2].absent =>
                    ~\E c \in consulted.relations :
                        c.claim = "AT_MOST_ONE" /\ c.event = d[1].event /\ c.members = d[1].members

\* What replay_context.py says of the claim of a replayed certificate: a bundle
\* carrying an AT_LEAST_ONE certificate is never replayed as AT_MOST_ONE.
ClaimIsReplayedAsRecorded ==
    loaded.integrity = "VERIFIED" =>
        \A i \in DOMAIN loaded.decisions : \A d \in loaded.decisions[i].baskets :
            \A o \in d[2].relation : o.holds.claim = "AT_MOST_ONE"

=============================================================================
