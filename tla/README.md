# Verification of the Prediction-Market Arbitrage Scanner

The scanner (`src/src/predarb`) is a read-only Python program. It keeps local
order books from a venue's numbered WebSocket frames, records every frame it
used, evaluates arbitrage structures over those books, stores the resulting
decisions and can replay them later. It places no orders. What it promises is
that whatever it shows or records is *provably* what the venue sent; the
modules here state that promise and check, and in part prove, that the code keeps
it. Paths below are relative to `src/src/predarb` unless they begin with `src/`.

## 1. The system

| Component | State it keeps | Operations | Hard behaviour | What makes it correct |
|---|---|---|---|---|
| Order book (`books/orderbook.py`, `state.py`) | integrity, epoch, sid, two price ladders, snapshot and latest sequence | snapshot, delta, invalidate, unsubscribe, reset | a delta larger than the level; a snapshot onto a book of an older connection | VALID only with an authoritative base; no negative quantity |
| Registry and trackers (`books/registry.py`, `sequence.py`) | current epoch, next epoch, per sid: channel, members, last number, violated | open, close, register, check | one counter shared by many markets; gaps, repeats, late numbers | an accepted number is the successor of the last; a violation is final for the epoch |
| Reconstructor (`books/reconstruction.py`) | books by ticker, journal health, the two above | open/close connection, note_subscribed, handle_frame, transport signal, scan_eligible | routing by kind, membership updates between deltas, unreadable and unknown frames, journal failure in mid-stream | an eligible book is the venue's book as of the last accepted frame |
| Liveness (`books/liveness.py`) | HEALTHY / SUSPECT / CLOSED, time of the last signal | signal, evaluate, close | silence without an error | nothing is eligible on a suspect transport |
| Recovery (`books/recovery.py`) | attempts, back-off | observe, note_recovered | a failing feed, repeated alarms | a journal failure stops; a feed that stays broken stops after a bound, one that recovered starts over |
| Book collector (`ingest/book_collector.py`) | stats, stop flag, the current connection | run, read loop, teardown, decision | stop, deadline, alarm, dead peer, socket error in any order around awaits | every connection is torn down and leaves nothing stale to a later reader; nothing is read after an alarm; stop is obeyed |
| WebSocket client (`venues/kalshi/websocket.py`) | socket, command ids | connect, subscribe, receive, ping, close | timeouts | it reports a failure or times out |
| Raw journal (`ingest/raw_journal.py`) | append-mode file, handle buffer | write, close, tolerant reading | crash inside a line, reopening after one, a failed flush that leaves its rest in the buffer | a record the journal accepted is read back, or the reader raises |
| Durable collector and catalogue (`ingest/collector.py`, `storage/`, `src/tools/collect.py`) | health, next ordinal, a knowledge base and a session of its own; tables of observations and decisions | number, persist evidence, observe, persist decisions, finish; verify a session | death or a failed transaction between the steps, a commit reported as failed, a restart over the same session | nothing is scanned on a hole in the evidence; every stored decision is regenerated by a replay of the evidence |
| Replay (`replay/`, `opportunities/triggers.py`, `venues/kalshi/replay_context.py`) | knowledge base, coordinator (books, live markets, decision ordinal), completeness | apply an observation, evaluate the subjects it touches; the same live and over a finished stream | late, repeated, backfilled observations, clocks that run backwards, journal failures | no look-ahead: live and replay decide the same; what is called absent was looked up |
| Execution and fees (`books/execution.py`, `multileg.py`, `liquidity.py`, `domain/`, `venues/kalshi/fee*.py`) | one account per order (fills, accumulator); else pure | walk a ladder, size legs, charge a fill, bound the fee of an order, resolve the fee in force | rounding per fill against a quote per order, rebates, exhausted depth, scheduled changes | the fee of every split lies in the quoted interval; rounding never favours the scanner |
| Detectors (`detectors/`) | a sweep's tally and what it keeps | evaluate one quantity, search an interval | the order of the gates; what a sweep retains | what is called proven pays in every terminal state the certificate allows |
| REST client and rate limit (`venues/kalshi/rate_limit.py`, `client.py`, `pagination.py`, `market_discovery.py`) | token bucket, semaphore, time of the last start; one walk per series | acquire, request, retry, release, next page | concurrent callers, clock readings apart, cancelled waits | the budget is not exceeded, every walk ends |
| Membership (`venues/kalshi/membership_capture.py`, `semantics/membership.py`) | two walks, two readings of the cutoff | enumerate an event's markets over two tiers | markets created, settled, withdrawn and archived under the walk | nothing is omitted; a consistent venue is not accused; what may be cited is final |
| Partition (`semantics/partition.py`, `exhaustiveness.py`) | the intervals read so far | read a strike, sweep for gaps | open and closed edges, steps, tails | support means that every possible value is covered |
| Evidence and certificates (`semantics/`, `venues/kalshi/evidence_capture.py`, `relation_capture.py`, `cli/semantics.py`, `cli/relations.py`) | append-only registries of evidence, requests, decisions and certificates | capture, request, review, issue, ask which apply | terms amended during a capture, failed reads, death between two records | a certificate applies to exactly the texts it was reviewed on; records are only ever added |
| Lineage (`semantics/lineage.py`, `reference_resolution.py`) | none (pure) | resolve a citation of an amended rulebook | hops, amendments nobody recorded | a citation counts as resolved only when every amendment is accounted for |
| Session capture (`src/tools/capture_replay_bundle.py`, `replay/bundle.py`) | the observations of a session; two files in a directory | select, read context, record frames, write, load and replay | failed reads, death between the files, a directory used twice | a bundle that loads as verified replays to what its session decided |
| Other venues, text extraction, configuration | files | parsing, download, printing | none to explore | - |

How they interact: `BookCollector.run` builds, for each connection, a journal, a
reconstructor (with a new registry) and a client, then feeds every frame to
`OrderBookReconstructor.handle_frame`. That call is synchronous: it journals the
frame, checks its number, routes it to the books, and emits events to a sink that
calls `RecoveryCoordinator.observe` before it returns. The collector looks at the
requested action at the top of its loop and tears the connection down. The durable
collector feeds the same observations to the replay coordinator and the catalogue.
Everything runs on one asyncio thread, so steps interleave at awaits only.

The hazards this code is exposed to, each with its line and the properties aimed
at it, are listed in `PROJECT.json`.

## 2. Modules

| Module | What it is |
|---|---|
| `OrderBook` | one market's book as a record and every mutation of it as an operator |
| `Reconstruction` | registry, trackers, books, liveness and journal health with one action per entry point, and the venue as environment |
| `ConsistentFeed` | the abstract promise: positions in published histories; a market is hidden or shown exactly as it was at its stream's position |
| `ReconstructionInvariant` | the inductive invariant |
| `Collector` | `BookCollector.run` and the recovery coordinator around `Reconstruction` |
| `CollectorInvariant` | its inductive invariant, over the reconstructor's |
| `Reconstruction_proofs` | theorems about `Reconstruction` and `Collector` |
| `RawJournal` | the append-only file in pieces of lines: handle buffer, operating system, disk, and the tolerant reader |
| `Knowledge` | `KnowledgeBase`, resolution at a horizon, the contexts of both detector families, completeness: pure operators |
| `Evaluation` | `EvaluationCoordinator`: what one observation does to a session and what it decides: pure operators over `Knowledge` |
| `Evaluation_proofs` | lemmas: knowledge bases that agree up to the horizon give the same decisions; what a turn adds; sequences |
| `LiveReplay` | a live session, and then the replay of what it observed, both over `Evaluation` |
| `LiveReplay_proofs` | theorems about `LiveReplay` |
| `Uninterrupted` | the abstract promise of the durable collector: the tables of one engine that never dies |
| `DurableCollector` | `ingest` in its three steps over the catalogue's tables, restarts, and the verifying replay, over `Evaluation` |
| `DurableCollector_proofs` | theorems about `DurableCollector` |
| `RestClient` | pacing policies, retries and paginated walks of concurrent callers |
| `InputOutput_proofs` | theorems about `RawJournal` and `RestClient` |
| `Membership` | the enumeration of an event over two tiers |
| `Partition` | reading strikes and sweeping them for gaps |
| `OrderFees` | the account of an order that fills in pieces and the quoted interval |
| `Basket_proofs` | theorems about `Membership`, `Partition`, `OrderFees` and `Scan` |
| `Scan` | the three detectors over books, fees and certificates, then the fills and the settlement; over `OrderFees` |
| `Lineage` | where a citation of an amended source points: pure operators |
| `Evidence` | settlement evidence, its fingerprint, policy and review: pure operators over `Lineage` |
| `Relations` | relation evidence, its two claims and exactly-one: pure operators over `Evidence` |
| `Certification`, `Certification_proofs` | captures, registries, reviewers and scans, over `Relations`, with its theorems |
| `SessionCapture`, `SessionCapture_proofs` | the capture tool, the bundle on disk and its offline replay, over `Knowledge`, with its theorems |
| `MC*` and the `.cfg` files | instances for TLC |

### OrderBook and Reconstruction

`books[m]` is the entry of `_books`; `integrity = "ABSENT"` when there is none. The
YES and NO ladders are one total function over `Slots` (side and price) where 0
means no level: the code pops a level that reaches 0. `subs[s]` merges
`SubscriptionState` and its `SequenceTracker`: `last` is the tracker's last number,
`violated` its latched verdict, `known` whether the sid is registered.

`Receive(s, i)` is `handle_frame` on the frame the venue numbered `i` on sid `s`,
in the code's order: liveness signal; journal write (`JournalFailure` when it
raises); parse (`UnparsedFrame`); `_check_sequence` (`RefuseFrame`); then the
handler of its kind (`AcceptFrame` with `RoutedBook`). `ReceiveUnsequenced` is
the same call on a frame without a number.

The environment is explicit because the properties speak of it: `log[s]` holds each
frame the venue sent with the venue's own books at that moment (`truth`) and
the markets it streamed (`members`). The reader never looks at `truth` except for
the payload of a snapshot. Since `Receive` may be given *any* frame of the log at
any time, loss, repetition and reordering need no actions of their own. What the
environment is assumed to do, from `src/docs` and the code's own comments: it
numbers the frames of a sid consecutively from 1 on each connection, acknowledges an
order-book sid before it sends on it, sends each market on one sid, and reports in
an ok the resulting membership.

### ConsistentFeed

`Reconstruction` implements it (`FeedSpec`): the history of a stream is the
sequence of `truth`s in its log, the position is the tracker's number or `Lost`, and a
market is shown while `scan_eligible`. The abstract reader advances by one state at
a time, so the refinement says in one formula that two markets behind one
counter are never shown from different moments, that no gap is ever jumped, that
nothing is shown on a lost stream until the next connection, and that nothing is
shown but the venue's book.

### Collector

`phase` is where `run()` is between two awaits. `Connect`, `ReadAck`, `HandleAck`,
`ReadFrame`, `IdleWithPong`, `IdleWithoutPong`, `ReceiveFails`, `TearDown`,
`WakeUp` are the code between them. `pending` is the local the sink writes,
`ending` is `_stop` or the deadline, `attempts` the coordinator's counter.
`sidSeen` is the local `sid_seen` of `_read_loop`: the first acknowledgement of a connection
registers the markets, later ones are frames like any other.
`NewReconstructor` is the new `OrderBookReconstructor` of each connection; its epochs start at one
each time. `finalViews` and `finalEpoch` are what the teardown keeps in `CollectorStats` for the scan
that follows, and `Quotable` is what that scan asks of a view
(`ExecutionContext.describe_failure` with the kept epoch; the tool does not pass it the health of
journal or connection, so a view may be as old as the silence before the teardown).
`sinceClean` is a history variable, read by `BrokenFeedStops` and `RecoveredFeedIsANewIncident`: the
reconnects asked for since a snapshot was last applied. Back-off durations and the remaining counters of
`CollectorStats` are left out.

### RawJournal

A line is three pieces: a head that is no JSON, a tail that completes the object, and
the newline. `buffer` is the text handle's buffer, `file` what the operating
system has, `stable` how much of it the disk has for certain. `Write` is `write`
that returned, `WriteFails(n)` one that raised `JournalError` after n pieces
(the handle may keep the rest, and a later flush writes it), `CrashInWrite(n)` and
`ProcessCrash` end the process, `MachineFailure(n)` keeps any part of the file
that contains the stable one. `Open` is the constructor, which appends and never looks
at the end of the file. `Raises` and `Returned` are `read_journal_tolerant`.
`promised` holds the records whose `write` returned; a machine failure reduces it to
those that were fsynced, which is all the module's docstring claims.

### Knowledge and Evaluation

An observation is a record: its ordinal `n`, its clock `at`, its `kind`, the `keys` it
speaks of (`Key(m)` of a market, a relation identity), the instant `from` which it is
effective, the `markets` it touches, and whether its payload is `usable`. A
knowledge base is the set of those ingested; `Resolve` is
`VersionHistory.resolve`: of what the horizon `Admits` and what is effective, the
latest effective one, the latest captured among equals. `Checked` is the other half of
every lookup, whether a registry was consulted at all. `BinaryContext`,
`BasketContext` and `Incomplete` are `KalshiReplayContext`.

A session is a record: `connected`, `present` (markets with a book), `live` (markets
that a close will trigger), `journalHealthy`, `decided` (the decision ordinal).
`After` is `apply`, `Triggered` the scan trigger it returns, `Agenda` the order in which
`evaluate` visits subjects (the k-th of a set is the one with k predecessors, `InTurn`),
`Decision` one record. A book is a function of the
transport observations handled and of the journal's health, so a decision names its view
by the last such ordinal and that flag; what the detectors then compute from the
view and the facts (`used`) is a function of them and not modelled here. The trigger
policy's switches have their defaults; a dimension of completeness that is missing
and one that is stale are one case; event and series metadata are ingested by the code
and read by nothing.

### LiveReplay

`Observe` is `LiveSession.observe` on the next observation, `StartReplay` the end of the
stream, `ReplayNext` one iteration of `run_stream` over a knowledge base built from all of
it. `journalled` is whether the live journal took the frame; `JournalMayFail` allows it
not to. `past` is a history variable: the session before each observation.

### DurableCollector

`Ingest` is `ingest` up to the commit of the evidence, `Observe` the session, and
`StoreDecisions` the derived batch; a transaction is `fine`, `undone`, or
`uncertain` (committed, reported as failed). A failure of the first makes the collector
unhealthy for good, one of the last is counted (`unwritten`). `Stop` may come between
any two, `Start` is a new process over the session that the same plan and start instant
name, with a knowledge base, books and numbering of its own: `FirstOrdinal` is
0 because the field's default is and nothing sets it. `resume_ordinal`, documented as
where a restart continues, is called by no module of the package; used for
`FirstOrdinal` it breaks `KnowledgeIsThePrefix` and `NothingLostUnnoticed`, so it is
kept as a mutant. A restarted process may be fed what its predecessor was, or anything
else; a different observation at a recorded ordinal stops it. (`src/tools/collect.py`
takes its start instant from the clock, so a restart over one session is made by a
caller that repeats the instant, as `src/tests/integration/test_storage_catalogue.py`
does.) `Replayed`, `Unfounded` and `Missing` are `verify_session_decisions`: `Loaded` is the
order of `load_observations` and `Replay[n]` the engine after n turns of `run_stream`. `ingest` is
synchronous, so its backlog is at most one observation and the queue bound is
left out, as are metrics, health rows and epochs. The collector is run without a raw
journal of its own failing (`src/tools/collect.py` may give it one); `LiveReplay` shows what such a
failure does. A frame is stored with its payload: the form that stores a reference to the raw journal
instead, and loads as an empty payload, is left out.

`DurableCollector` implements `Uninterrupted` (`SteadySpec`) with its two tables for the
two abstract ones. There an engine takes the observations as they are recorded, each
with nothing but those before it (`SoFar`), and some of what it decided is stored, for good.
So the tables say nothing of where processes died, how often, or what failed; and what the
verifying replay makes, which holds the whole table from the start, is what an engine
would have decided that met the observations one at a time.

### RestClient

One caller is one series of `discover_active_markets`; `caller[c].at` is the await it
stands at, from the walk semaphore to the end of its last page. `TakePermit`,
`PaceStart`, `PaceSleep` are `ConservativePolicy.acquire`; `Consume`, `FindTooFew`,
`SleepForDeficit`, `ReturnUnspent` are the loop of `TokenBucket.acquire`, which reads
the clock once to try and once more to ask how long to wait. If a tick between the
two makes the wait zero, `acquire` returns although nothing was taken; `unspent`
remembers that it happened, and `SpentBucketIsNotOverdrawn` is what still
holds. `ReceivePage`, `FailAttempt`, `Retry` are `_send` and `paginate_pages` with
their limits. `Cancel` may hit any await; a permit taken before the `try` is then lost.
Time is counted in ticks, as time left and time since, so the clock needs no bound.

### Membership and Partition

`market` is what the venue keeps of an event, `Tier(TRUE)` the archived part: settled
before `cutoff`, which only advances. A market is undetermined, then determined, then settled at an
instant; the two records before a settlement time differ because `is_event_open` looks at the
status and not at the time. A determined market may wait for its settlement, and a disputed or an amended one
(`src/docs/data_model.md:81`) counts as determined. That a determined event gets no new market is what
the code takes from the venue (`semantics/membership.py:326-335`). The enumeration takes the steps of
`enumerate_event_membership`: the cutoff, the live tier page by page, the archive, the
cutoff again, the nested event view. Between any two requests the venue may create,
determine, settle or withdraw a market, or advance the cutoff; any request may fail. `Members` is `_merge_tiers` with
`_fold_in_nested`, `LiveButSettledEarlier` and its siblings are `_check_partition`,
`RecordOf` is what is kept of a member, which for one that only the event view names is nothing: such
a member has no status and does not keep the event open. `Citable` is an empty
`membership_reliance_reasons`; evidence may so be cited while determined markets are still unsettled.

`Partition` reads one member's strike at a time (`ReadMember`, `interval_from_strike`), and
then sweeps the intervals in sorted order (`Sweep`, one turn of `_sweep`'s loop). The code sweeps
twice, with the step and without one; the two differ in their breaks only, so `reach` keeps the
flags of both. `Status` is the answer with its tails, gaps and steps. The values of
the underlying are whole numbers fine enough to lie between two strikes.
The premises of its properties are the code's own limits: the lowest value of the domain may
be uncovered by an open first strike although the answer is GAP_FREE, an attested
step is not compared with the step the caller supplied, and a second strike that is unbounded
below, or a strike outside the domain, yields gaps that are not there (section 6).

### OrderFees and Scan

`AfterFill` is `apply_fill`: the model fee rounded up, the balance change aligned to the
member's grid, the accumulator and its rebate. Amounts are integers in units of
`FeeScale`-ths, as in the code. `NetFeeUpperBound` is the quote for a quantity.

A scene of `Scan` is everything a detector is handed; its fault is the one thing that is wrong
with it, and the same fault decides what the world may then do (fill at any price when
the book was not eligible, settle outside the table when the certificate was stale).
`EvaluateQuantity` is the gate order of each detector, with its refusals as the
classifications they become. `StartSearch` and `SweepQuantity` are the
search loop. `PlaceLeg` and `FillLeg` are no code of the scanner: they are the
portfolio it describes, bought order by order and fill by fill in any interleaving, so
that `ProvenClaimPays` can compare a verdict with what is earned.

### Lineage, Evidence, Relations and Certification

A text is a component's name and version; its version stands for the hash of its content,
0 for a text that was not read. `Content` says of each text what extraction,
the incorporation scan and the headings find in it, and which terminal states a
careful reader learns that it admits. `Evidence` builds on that: `ScanIncorporations`,
materiality (declarations included), resolution through `Lineage`, `Fingerprint`,
`Complete`, `SupportsIssuance`, `Applies`; `Relations` does the same for relation evidence and
`DerivesExactlyOne`.

`Certification` adds time. A capture reads market, event, series, each member,
each document and each source one after the other (`Item` is the next of several) while
`Amend` replaces texts in between, and any of these reads may fail. A member whose event or series could not be read is kept, as the code keeps it.
`StoreEvidence`, `StoreRequest` and their relation forms write; a kill
(`CrashCapture`) leaves what was written. A reviewer decides (`Decide`), checks for a
decision on file and then writes (`CheckDecision`, `WriteDecision`, the two halves of
`_write_record`), and issues (`Issue`), and may be killed between any two; nothing keeps another reviewer
from the same request meanwhile. `written` is a history variable: every decision ever written, and whether
another review of its request stood between its check and its write. `Scan`,
`Validate`, `Discover` and `EvaluateBoth` ask for the active certificates as the four commands do:
at the instant they ask or the one they started at, and with the evidence they
captured. What a reviewer has to judge is an assumption: one who answers the checklist
safely has read every governing text, except a document that must be viewed at its source and
was not acknowledged as viewed (`Reviewed`). `issue_relation_certificate` and
`derive_exactly_one` have no caller outside the tests; `IssueRelation` and the job
`evaluate` call them as their documentation describes.

### SessionCapture

One run of the tool after another into one directory. `SelectTickers`, `FetchMarket`,
`RecordPlan`, `ReadFees`, `RecordRegistries`, `ReadEvidence`, `Connect`, `ReceiveFrame`
and `StreamEnds` are its stages, in which the reads of markets, fees and evidence may fail. The selection is one
step that succeeds: a series whose listing failed offers no markets there, a score is a whole number,
and equal ones are ordered by ticker instead of by listing. No property is about which
markets are selected. The bundle is two
files: `WriteObservations` and `WriteManifest`, each of which may be cut anywhere by a
kill. `Load` is `load_bundle` with its refusals, `Replayed` the offline replay of the
plan in the manifest. `sessions` and `consulted` are history variables.

## 3. Runs

| Run | Instance | Shows | Distinct states |
|---|---|---|---|
| `reconstruction` | two markets on one sid, two connections, 3 and 1 frames, quantities 0..1 | `ProvenanceIsExact`, `EligibleMatchesVenue`, `EligibleIsAuditable`, `ViolatedSidShowsNothing`, `LossIsJustified`, the refinement `FeedSpec` | 772,121 |
| `collector` | one market, one sid, 2 frames per connection, `MaxAttempts = 1` | `TearDownLeavesNothingStale`, `JournalFailureIsFinal`, and the liveness properties `AlarmEndsConnection`, `DeadTransportIsLeft`, `BrokenFeedStops` | 212,515 |
| `persistence` | a journal of 3 records and 3 opens, with and without fsync; a durable collector of one market, a prologue of 4 observations, then 3 of any kind, 3 processes | of the journal `NeverSilentlyLost`, `OnlyWritingBehindATear`; of the tables `StoredDecisionsRegenerate`, `NothingLostUnnoticed`, `EvidenceHasNoHole`, `KnowledgeIsThePrefix`, `DecidesAsReplayWould`, the refinement `SteadySpec` | 56,387 |
| `live_replay` | two markets, one basket planned for both families, clocks 1..3, freshness 1; a prologue, then 4 observations in any order | `LiveIsReplay`, `AbsenceWasChecked` | 154,848 |
| `rest_client` | 3 walks of up to 2 pages, 2 permits, a bucket of 2 tokens, 2 attempts, 1 cancellation; both policies | `SpentBucketIsNotOverdrawn`, `EveryWalkEnds` | 409,704 |
| `exhaustiveness` | an event of 3 markets, 2 pages, 3 instants, 1 failed request; every list of up to 3 strikes over 3 bounds and 5 kinds, and one outside the domain, over every domain with and without a step | `NothingIsOmitted`, `NoFalseAccusation`, `CitableIsFinal`; `SupportMeansCovered`, `GapIsReal` | 7,931,764 |
| `scan` | two markets, five ladders per side, three detectors, 16 faults, quantities up to 3, all fee timelines with one change per instant | `NetFeeIsBounded`, `NetFeeNeverFalls`, `ProvenClaimPays`, `ProvenLossLoses`, `SweepMissesNothing` | 170,570 |
| `certification` | an event of two markets, one document, one source; 1 amendment, 1 failed read, two reviewers; five campaigns of two or three commands | `ActiveMeansTrue`, `ActiveMeansReviewed`, `CertificatesAreBacked`, `DerivedExactlyOneHolds`, `RecordsAreKept` | 618,089 |
| `session_capture` | three markets, two events; 2 sessions of 1 frame, 2 failed reads, 1 certificate | `VerifiedReplayIsTheSession`, `AbsentMeansUnissued` | 1,461,431 |
| `claim_is_dropped` | as `session_capture`, one session without failures | `ClaimIsReplayedAsRecorded` is violated, see section 6 | - |
| `recovery_is_forgotten` | as `collector` | `RecoveredFeedIsANewIncident` is violated, see section 6 | - |
| `decision_is_replaced` | as `certification` | `RecordsAreNeverRewritten` is violated, see section 6 | - |

`persistence` and `exhaustiveness` each hold two machines that share no state: their
`MCInit` and `MCNext` explore one while the other stands in one of its initial states, so the run has the
sum of their states and not the product.

The bounds, and why they are enough. Three frames on a stream are snapshot, hole and
successor, or snapshot, delta, and a repeat, or the ok that removes and the ok
that brings back a market; two markets are the least that distinguishes "the named
market" from "the members of the sid"; quantities 0 and 1 tell apart a level, no
level and an impossible delta; a second epoch is what a book of an earlier
connection needs. For the journal, one record is accepted, one is interrupted and
one is written behind the interruption, each by its own open. For replay, a context
needs metadata, fees and a certificate before a detector runs, so a prologue provides
most of them; four free observations are a fact that is replaced, one that is
backfilled, a frame and a close, and two markets make the basket that a close
touches twice. Three processes are one that leaves evidence ahead, one that is killed
while it catches up and one that passes it.

Three callers over two permits are one in flight, one pacing and one waiting; a
capacity equal to the cost makes every request wait. Three markets are one the live
walk has passed, one at its cursor and one ahead, and three instants let the cutoff
pass a settlement between two pages. Three strikes are the least with a strike between
two others, and every bound is even so that the odd values lie strictly between. In
`scan`, a quantity of 3 fills in one, two or three pieces and crosses a level, the
grids 1 and 3 make rounding visible, and a second market is what a basket and a
borrowed certificate need. One amendment can fall into any capture, before each of its reads, and so the reviews and the
captures that follow can be of different texts. Two reviewers are what a race for one decision takes.

`certification` is cut down in three ways that lose nothing the properties tell apart. The second
reviewer, and whatever follows a contested decision, is explored only for settlement requests
(relation reviews write the same way), with no capture under way and before an amendment or a
failed read, none of which a review that has begun looks at (`MCConstraint`). A relation review
does not stand half-way between the reads of the next relation's capture, for neither looks at
what the other changes. And a text is amended just before it is read, since its amendment is
seen by nothing else (`MCActionConstraint`). Two sessions are a bundle and the
one that overwrites it.

`MaxFrames`, `MaxEpoch`, `MaxQuantity`, `MaxRecords`, `MaxOpens`, `MaxFree`, `MaxOrdinal`, `MaxStarts`, `MaxTime`,
`MaxMembers`, `MaxAmendments`, `MaxFaults`, `MaxCancels`, `MaxSessions`, `MaxIssues`
and the campaigns are the only bounds in guards that the code does not have (`MaxPages`, `MaxAttempts`,
`Permits` are the code's own). The collector restarts at epoch 1 for each connection, as the code does,
so only `attempts` bounds its connections there; transport failures are not
counted and need no bound because they return to an earlier state. The theorems
of section 5 hold for every value of these constants. `reconstruction` uses symmetry
of its two markets, with safety properties only.

Deadlock checking is off where the system may stop: the last connection may be
closed for good, `run()`, an enumeration and a capture return, every member
has been read, and every leg has been bought. `RestClient` is checked for deadlock, since
time always passes.

## 4. Fairness

Two specifications assume fairness. `FairCollectorSpec` does so of the coroutine only: each step that
waits for nobody is eventually taken by the event loop; `receive`, `ping` and
`sleep` have timeouts, so every await ends one way or another
(`WF(EndOfAwait)`), not in any particular way; and while a transport is dead the
clock eventually exceeds `max_silence`. Nothing is assumed of the venue, so
`DeadTransportIsLeft` and `BrokenFeedStops` hold for a venue that never sends
anything again. `BrokenFeedStops` counts the failures of one incident only, those with no snapshot applied in
between: it asks nothing of the code that the reset of the counter, which never happens (section 6), would
take away.

`RestClient` assumes that time passes and, for each caller, that asyncio runs what is
ready, fires the timers that are due and that every request is answered, with a timeout
if with nothing else (`httpx` is given one). It does not assume that a lock or a
permit goes to any particular waiter: weak fairness of a caller is enough because a
walk is finite and what it holds is released within it. `EveryWalkEnds` holds with one
cancellation and two permits: a cancelled caller may keep a permit for ever, and when
as many are lost as there are, no walk would end.

## 5. What is proved

Components share a proof module where they belong to one job: the reconstructor and the
collector around it, the journal and the REST client, and what the claim that a basket pays
and what it rests on (its members, their coverage, its fees, the detectors' verdict).

### Reconstruction and Collector

`Reconstruction_proofs` proves for all sets of markets, sids and slots, all
assignments of markets to sids, and all bounds, from `ConstantsAssumption` and
`SlotsAssumption` only:

* `TypeCorrect`: `Spec => []TypeOK`;
* `Invariance` and `TraceInvariance`: `IndInv` and `TraceInv` are invariants;
* `EligibleBooksAreTheVenues`, `EligibleBooksAreAuditable`, `ViolatedStreamsShowNothing`,
  `ProvenanceIsRight`: the invariants of `reconstruction`;
* `LossOnlyForCause`: its action property;
* `RefinesFeed`: `Spec => FeedSpec`, the refinement;
* `CollectorInvariance`, `CollectorShowsTheVenue`, `NothingStaleIsLeft`,
  `FailedJournalIsFinal`: the same promise for a loop that stops, reconnects and
  backs off, and the two safety properties of `collector`.

The argument. "An eligible book is the venue's book" is not inductive: a delta
applied to a right book gives a right book only if the venue's own change between
the two frames was that delta. So `IndInv` describes the stream as well
(`Follows`: what a frame says about the change since its predecessor;
`StreamsUpToDate`: the last frame has the venue's present books), and says of each
book that is valid, of the current epoch and a member, even when journal or transport
hide it (`Current`), that it equals the venue's at the tracker's number and that
the journal covers it since its snapshot (`Synchronised`). `Acknowledged` is needed
for unknown frames (they fail closed only on a sid known to carry books), `OwnSid`
and `OwnMarkets` to keep sids apart. The central lemma is `AcceptedFrame`:
whatever frame is accepted, a member book that is valid afterwards is the venue's
as of that frame.

Provenance and the refinement need two conjuncts more (`TraceInv`). `Traced` says that the
frame a book names as its latest is the last in the log that touched it; `UnknownIsFresh` that a
sid the registry does not know has seen no number. `FeedStep` then maps
each step: a frame that is accepted or refused is the feed's `Read`, a connection that opens or
closes its `Restart`, a frame of the venue its `Publish`, and what only registers, hides
or shows again its `Reveal`.

The collector takes the reconstructor's steps or starts a new one, whose initial state
satisfies `TraceInv` again. `CollectorIndInv` adds where `run()` can be: books are of the one
connection (`OneConnection`), none is open between connections (`Offline`), and
after a failed journal the request to stop stands until the collector has stopped
(`FailedJournalStops`). `TearDownLeavesNothingStale` needs `Enrolled` besides. A view is quoted by its
epoch and not by its market's membership, so a valid book of a market that is no member of its sid would be
quoted although a violation of the sid spares it. Under this collector there is none: it subscribes to all its
markets at once, an ok is accepted only in its turn, and what a snapshot names is at most what
the venue streamed at the number before.

### RawJournal and RestClient

`InputOutput_proofs` proves `AcceptedIsNeverSilentlyLost`
(`JournalSpec => []NeverSilentlyLost`) for any number of records and reopenings.
`NeverSilentlyLost` quantifies over what the reader returns, which later pieces
can change, so the invariant `PromisedStandsInFile` says only where the pieces of a
promised record stand: one run of three in the file, and for a durable one in
its stable part. Appending never moves them, a machine failure keeps the stable
part, and a reader that does not raise has parsed the line that ends with them.

`InterruptionsNeverCorrupt` proves `OnlyWritingBehindATear`: the only step that makes a
readable journal unreadable is one that writes behind a torn line. What the
handle still holds matters here, since a later flush writes it: whole lines, unless the
file waits for the rest of one (`BufferInv`).

`PaidBucketHolds` proves `SpentBucketIsNotOverdrawn` for any callers, walks, rates and
cancellations, from `ClientAssumption`. What the client believes to have, refilled to now, is at
most what the venue has (`BucketInv`). Both are capped; the venue refills with every tick and the
client all at once when it next looks, so the comparison is inductive for the refilled
amount and not for `tokens`. The premise `~unspent` is the code's (section 6).

### Evaluation, LiveReplay and DurableCollector

`Evaluation_proofs` shows that contexts, completeness and hence decisions are read
through `Known` alone (`SameDecisions`). On it rest, for every plan,
freshness policy and observation:

* `ReplayIsLive` (`LiveReplay_proofs`): `LiveIsReplay` for streams of any length,
  under the assumption that the live journal refuses no frame. `ReplayInv` says that ordinals are
  positions, that each batch is what the live knowledge of that moment implies
  (`LiveHistory`, which is what `past` is for), and that the replay's session is the
  live one before the same observation (`ReplayFollows`).
* `BlockedMeansAsked` (`LiveReplay_proofs`): `AbsenceWasChecked`, also when journal writes fail.
  What is said to have been asked was asked of the knowledge the decision was made on, which is
  a prefix of the stream and never changes (`AbsenceInv`); an answer found in a knowledge base
  was an observation of it (`AnsweredMeansHeard`).
* `SameBatches` (`DurableCollector_proofs`): `DecidesAsReplayWould` for any number of
  restarts and failures, with `NoHole` and `PrefixKnown` for the invariants it needs
  and `NeverRewritten`: no step alters or removes a recorded observation. `DurableInv`: an ordinal is used once; a healthy process
  has proved every ordinal below its own durable (`Covered`); so what it ingested and
  what the table holds below its number are one set (`Prefix`).
* `StoredIsRegenerated` and `NothingIsLost` (`DurableCollector_proofs`):
  `StoredDecisionsRegenerate` and `NothingLostUnnoticed`, over whole replays.
  `RegenerationInv` says that there is a replay r of the recorded evidence, r[n] being the
  engine after n observations, such that every stored decision is r's at its ordinal
  (`Keeps`) and the session of the running process is r's after as many observations as it has
  made (`Follows`). The witness grows with the table: a new row comes at the first free
  number, so it is one more turn and no turn before it sees it (`GrowthRegenerates`); each
  turn's decisions begin those of all later ones, and what it adds is triggered at its own
  number (`Begins`), which is what a process may not have stored yet. A restart goes back to
  r[0]. `ReplayIsRegenerated` is the only induction: the recursion that `Replay` is
  has a solution, r, and no second one, since there would be a least place at which they
  differ (`SameFromTheStart`). `DurableAssumption` asks that an observation names finitely many
  markets, without which a batch has no order.
* `RefinesUninterrupted` (`DurableCollector_proofs`): `Spec => SteadySpec`, the refinement,
  from `RegenerationInv`. r is also what the engine of `Uninterrupted` is after each
  observation, because a turn reads nothing beyond its own number (`SteadyDecides`). Then
  `Ingest` is `Take` or a stutter: the only number at which a row is new is the count of rows
  (`IngestTakes`). `StoreDecisions` is `Store`: the rows are r's afterwards and r has not changed
  (`StoreStores`). Everything else leaves the tables alone.

### OrderFees

`Basket_proofs` proves `FeesAreBounded` and `FeesNeverFall` for any prices, multipliers,
grids and splits, from `OrderFeesAssumption`. Neither is inductive: the invariant
(`FeeInv`) is an account of each order (`Balanced`). What the ceilings added is less than one
unit per fill, what the roundings added less than one grid step per fill, there are no more
fills than increments, and the accumulator is exactly what was rounded and not yet
rebated. `RebateFact` gives the cap, `CeilDivIsLeast` the lower bound: a whole number of
units that covers the model fee is at least its ceiling. These theorems are stated of
`FeeSpec`, orders on their own; `TradesStayBounded` says the same of `ScanSpec`, where orders
act on verdicts.

### Scan

`Basket_proofs` proves `ClaimPays`, `LossLoses` and `SweepIsComplete` (`ProvenClaimPays`,
`ProvenLossLoses`, `SweepMissesNothing`) for any markets, members, ladders, fee histories,
intervals and all faults, from `ScanAssumption`: one order per market and side, bids and asks
that are complements of one notional, finitely many dated fee changes, no two at one instant
(`resolve_at` breaks such a tie by the change's id; which one the venue would apply last is not
known). The argument has five parts.

* A definite verdict passed every gate (`DefiniteFacts`): what the fault may be is then narrow
  (`Cleared`), the depth suffices and the resolved fee is the one with proven bounds.
* The curve is what the venue does. `PriceFacts`: the price of the k-th increment, read off the
  bids from the top, is the least ask at which k increments are offered. `FeesInForce`: the fee
  resolved for an instant is the one left by applying the changes one after another
  (`AppliedIsLatest`).
* `TradeInv`: an order that acts on a definite verdict has paid, for what it bought so far, exactly
  the curve's gross cost and model fee (`CostOfRun` for a fill of several increments at
  one price). With `FeeInv` its net fee is then in the leg's quoted interval, and
  `PortfolioFacts` adds that up over the legs.
* `WorstIsFloor`: the certified worst case is a lower bound of what the portfolio pays in every
  terminal state the world may still reach, and one of them pays no more. Each detector has its own
  case: the enumerated table, one winner at most, one winner at least. The first half is what `ClaimPays`
  needs and the second what `LossLoses` needs.
* `SweepInv`: the quantities below the next one are tallied under their own classification, and all
  proven ones are kept. It is inductive, since a proven quantity is appended whatever
  has been retained (`Keeps`).

Costs, depths, fees and payoffs are sums over finite sets (`SumOver`), a recursive
function in `Scan`. `Sums` says that a function solves its equation, `SumExists` that there is a
solution and `SumsAgree` that there is one only. What a proof needs of a sum (`SumUnfolds`: any
element may be taken first; `SumSplits`, `SumGrows`, `SumOfOne`, `SumOfRun`) follows by
`SubsetInduction`, an induction over the sub-sets of a finite set that is stated for a
set instead of a predicate.

### Membership and Partition

`Basket_proofs` proves `NoMarketIsOmitted`, `NoVenueIsFalselyAccused` and
`CitableEvidenceIsFinal` for any number of markets, page limit, moves of the venue and failed requests, from
`MembershipAssumption`. The first follows one market the event had throughout: until the
live walk is over it has been seen, is archived, or is ahead of the cursor
(`LiveCovers`); afterwards it has been seen or waits, archived, ahead of the
historical walk (`HistCovers`). That archived markets stay archived
(`VenueKeepsArchives`) is why the order of the walks matters: the mutant that walks
the archive first breaks the property. The second adds what each reading tells of the
cutoff (`PartitionInv`): it only advances, so a market read in the live tier was not settled
before the first reading. The third says what a reading still tells later (`FinalInv`): what a walk
saw settled is settled still or withdrawn, and the event view is the
last word. A live market no walk has seen is in that view and so a member, which
has to be selected, or the evidence is not citable; and it was created only if one the walks saw was still
undetermined, which keeps the event open. What is final is the membership: `EventOpen` looks at the status, so that a market read as
determined need not have settled.

`SupportCoversEveryValue` and `ReportedGapIsReal` prove `SupportMeansCovered` and `GapIsReal` for
any strikes, domains and number of members, from `PartitionAssumption`: some
value lies between any two strikes. `CoverInv` says that while coverage did not
break, every value (of the grid, if the step is the grid's) between the first lower end and the reach
is covered by an interval already swept; `GridStep` is the arithmetic of one step.
`GapInv` says that once it broke there is a value which none of the swept intervals contains and
above which all the others begin. That it stays missed needs the order of the sweep, and that it lies
above every interval swept needs `EndsWhereReached`, which a second strike that is unbounded below
would make false.

### Certification

`Certification_proofs` proves `EveryCertificateIsBacked` and `RecordsStay` for any
contents, campaigns, amendments, failures and number of reviewers. The invariant says how far a review has come by
what is on file of its request (`Underway`): its request is stored, and one about to issue has written the
decision it issues from (`written`), even if another review has replaced it since. That another one
can is what `RecordsAreKept` allows and the run `decision_is_replaced` shows. One that is about to write found no decision
when it looked; if there is one now, whoever wrote it did so while this review stood
between the two halves of `_write_record`, so that write was a contested one.

`ActiveIsReviewed`, `ActiveIsTrue` and `ExactlyOneIsTrue` are the other three invariants: `ActiveMeansReviewed`, `ActiveMeansTrue` and
`DerivedExactlyOneHolds`. `TruthInv` says that what a capture stores has its shape
(`CapturesInv`), that every decision on file or under way is honest of the evidence
its request names, which nobody alters (`FilesInv`, `ReviewsInv`), that a certificate
holds of the evidence it was reviewed from (`TrueOfItsEvidence`), and that what a scan was
told has the governing texts of that evidence (`VerdictInv`). The lemmas it turns on are
`AppliesMeansSameTexts` and `RelationAppliesMeansSameTexts`: evidence that applies, by its
fingerprint, has the same governing texts.

### SessionCapture

`SessionCapture_proofs` proves `VerifiedIsTheSession` (`VerifiedReplayIsTheSession`) and
`AbsentIsUnissued` (`AbsentMeansUnissued`) for any markets, fees and number of sessions, frames,
failures and certificates, from `CaptureAssumption` (markets and events are numbers, because
certificates are listed in ticker order). Its invariant, `CaptureInv`, has four parts.

* `LiveInv`: ordinals are positions, everything is observed at the session's one time, and what
  was decided on each observation follows from those before it. The index of the finished
  stream says the same of each of them (`LiveIsReplayed`, from `SameContexts`).
* `BundleInv`: the decisions of a session are those of its replay, and every manifest that can be read is
  one session's. A verified file equals the one its manifest describes, so it is that session's
  stream, whichever run wrote it.
* `OrderInv`: before any frame there is a prefix that holds the snapshots and every
  certificate of what is monitored. `RegistriesArePart` shows that the listing leaves none out:
  in the order of subject and issue every position has its turn.
* `RegistriesInv`: the subjects are numbers and what was fetched is finite.

A context is a function of the knowledge and not of earlier ones here, so both theorems are about each
observation by itself and need no induction over the stream. Sessions whose decisions
depend on the books are `ReplayIsLive`'s subject. The module takes `SameContexts` from
`Evaluation_proofs` and so knows `Evaluation`'s plan constants too, which no statement of it uses.

### Only model-checked

Every safety property the runs check is proved. What is left to TLC:

* Liveness (`AlarmEndsConnection`, `DeadTransportIsLeft`, `BrokenFeedStops`, `EveryWalkEnds`) is
  outside the prover's reach.

## 6. Findings

Three statements of the repository are refuted by runs:

* `claim_is_dropped`: `venues/kalshi/replay_context.py:209-211` says that
  a bundle carrying an AT_LEAST_ONE certificate is never silently replayed as AT_MOST_ONE, but
  `relation_payload` (`src/tools/capture_replay_bundle.py:493`) writes no claim and a payload without one
  is taken for AT_MOST_ONE.
* `recovery_is_forgotten`: `books/recovery.py:136-137` says that a completed reconnect resets the attempt
  counter, "the next failure is a new incident, not a continuation of the previous one", and `:150-151` that a stop means
  more than `max_attempts` attempts "without a clean run". Nothing emits `RECONNECT_COMPLETED` and
  nothing but a test calls `note_recovered`, so a feed that broke, recovered with a fresh snapshot and breaks again is
  stopped as persistently broken.
* `decision_is_replaced`: `semantics/registry.py:232-234` and `:268-269`, and `src/docs/certification.md:249-251`, say that records are
  never silently overwritten. `_write_record` looks for the file and then replaces it (`:264-272`), and no
  command takes a lock: of two reviewers who decide one request, both find no file and the second write
  replaces the first. `RecordsAreKept`, checked and proved, says that nothing else does.

What else the modelling showed, by reading, and where the models have it:

* Reconstruction and collection. An
  unknown frame without a number is said to be ignored but costs the connection
  (`books/reconstruction.py:421`). Epoch numbers restart at 1 for each connection
  (`ingest/book_collector.py:176`). Transport failures are not counted at all. The scan after
  a collection is not told whether the connection had gone silent (`src/tools/scan_binary_complement.py:462`).
* Journals and replay. Reopening after an interrupted write and appending makes a bad line in
  mid-file without any damage, after which the tolerant reader refuses the file
  (`ingest/raw_journal.py:186`). Failures of the live journal are said to be replayed from the
  recorded lifecycle, but nothing records them. A clean negative judges
  completeness at the last horizon only (`replay/engine.py:120`).
* REST client. Two clock readings let a request through unpaid
  (`venues/kalshi/rate_limit.py:209-212`; `ReturnUnspent`). A caller cancelled inside `acquire` keeps its
  permit (`:317`; `Cancel`).
* Partition. A first strike that is open at the lowest value of the domain is reported
  GAP_FREE (`semantics/partition.py:569`): "greater than 0" over a domain that begins at 0, although
  `:667` says of that answer that every value in the domain satisfies a member. An interval that
  is unbounded below replaces what the sweep had reached (`:504`): "at most 4" and then "less than 0"
  over a domain that ends at 4 is reported as the gap (0, 4], although `:622` says of a gap that some
  value satisfies no member. `GapFreeCoversTheDomain` and `GapNamesAValue` state the two sentences;
  TLC refutes either of them when it takes the place of the invariants of `Exhaustiveness.cfg`. A step
  asserted by the caller counts as attested by any attested evidence.
* Detectors. The sweep of a complement asks neither for the certificate's market nor for its
  notional, unlike the direct evaluation (`detectors/binary_complement.py:618`); baskets
  never do. `search_complete` is set although depth cut the interval.
* Evidence. A failed read of the series leaves its documents without a URL, and the policy
  treats them as absent, not as unretrieved (`venues/kalshi/evidence_capture.py:569`,
  `semantics/policy.py:131-134`). Reviewing a dependency that must be viewed at its source fails on a missing
  key (`cli/semantics.py:267`; `Decide` is not enabled there). A request that was decided and
  whose certificate was not issued can never be decided again.
* Relations. Members are captured without documents while their certificates are captured
  with them, so a certified basket is always blocked (`venues/kalshi/relation_capture.py:135`).
  What `relations request` certifies, with a declared basis, never matches what
  `discover_relations` captures without one. A relation certificate's identity omits its claim.
* Bundles. A capture killed between its two files leaves a new stream beside an old manifest
  in a directory used before; the loader refuses it, so the older session is lost. The fee
  snapshot lists every subject although some reads failed, and failed reads of
  fee changes count as no changes.

## 7. Not modelled, and why

Prices and quantities beyond what order and equality need, outside `OrderFees` and `Scan` (the fixed-point parsing is
validated before a frame reaches the model: a frame is readable, malformed with or
without its market, or no envelope at all). Event texts and counters, metrics, health rows.
A sid that streams before its ack, and a control frame that names a sid without a
number: the venue is modelled as not doing so. Extraction of text from PDF and the wording rules of the
parsers: data, taken as given of each text. `complement_proof`, `payout_relation`,
`cross_market_relation`, `precedence` and `product_terms` have no caller among the
modelled operations that keeps state: the venues' findings and the date parser use them. Commands that list, print or compare (`evidence capture`, `certificates
refresh`), the archives of other venues, and the research data have no state to explore.
In `Certification` the market, event and series of one member of an event are read in one step, and the event and the
series of a capture in another: an amendment falls before or after, not inside. Hashing and serialisation are taken as injective; clocks as instants without a zone. Two
processes on one journal, database or bundle directory at a time are not modelled (two reviewers of
one certificate registry are): the documentation runs one process per job (`src/docs/architecture.md:5`).

## 8. Plan

In order; each step keeps what is already proved.

1. An abstract specification of a certificate (texts reviewed, texts in force) refined by
   `Certification`, and one of a bundle (published or not) refined by `SessionCapture`.
2. `rulebook_history` and `product_filings` as captures of their own.
