--------------------------- MODULE Certification ---------------------------
(***************************************************************************)
(* From the venue's terms to a certificate a scan may rely on: captures    *)
(* that read the terms one request after the other while the venue amends  *)
(* them, requests stored for review, reviewers who decide, certificates    *)
(* issued into the append-only registries, and scans that ask which        *)
(* certificates apply to what they have read themselves                    *)
(* (semantics/registry, cli/semantics, cli/relations,                      *)
(* tools/scan_binary_complement and tools/discover_relations).             *)
(*                                                                         *)
(* Time is counted in certificates: a certificate's instant is its place   *)
(* in the order of issue, an instant asked about is the number issued by   *)
(* then.                                                                   *)
(***************************************************************************)
EXTENDS Relations

CONSTANTS
    Campaigns,      \* bound: the sequences of jobs captures are run for
    Reviewers,      \* processes of certificates review / relations review
    MaxAmendments,  \* bound: amendments by the venue
    MaxFaults       \* bound: failed reads

\* The commands that capture the terms of a market, and those of an event.
SettlementCommands == {"certificates request", "certificates validate", "scan_binary_complement"}
RelationCommands == {"relations request", "discover_relations", "evaluate"}

\* A job: its command; the market or the declared basis; the claim it requests a
\* review of, or ""; and whether documents are fetched.
Jobs ==
    [command : SettlementCommands, market : Markets, basis : {""},
     claim : {"", "STANDARD_BINARY_COMPLEMENT"}, documents : BOOLEAN] \cup
    [command : RelationCommands, market : Markets, basis : STRING,
     claim : {""} \cup RelationClaims, documents : BOOLEAN]

ASSUME CertificationAssumption ==
    /\ Campaigns \subseteq Seq(Jobs)
    /\ {MaxAmendments, MaxFaults} \subseteq Nat
    /\ {} \notin {Markets, Documents, Sources}

VARIABLES
    terms,        \* the venue: component -> the version in force
    amended,      \* amendments so far
    faults,       \* failed reads so far
    captures,     \* the jobs captures are still to be run for
    capture,      \* the process that captures: its job, its next read, what is
                  \* left of that, its bundle
    evidence,     \* registry: the stored bundles; a snapshot is known by its place
    requests,     \* registry: stored review requests, [snapshot, claim]
    decisions,    \* registry: request -> the decision stored for it
    certificates, \* registry: [snapshot, claim, issued]
    written,      \* history: every decision ever written, and whether another
                  \* review of its request was about to write at that moment
    review,       \* reviewer -> its process
    verdict       \* what the last scan found

venueVars == <<terms, amended>>
registryVars == <<evidence, requests, decisions, certificates, written>>
vars == <<venueVars, faults, captures, capture, registryVars, review, verdict>>

NoCapture == [next |-> "idle"]
Idle == [at |-> "idle"]
NoVerdict == [asked |-> FALSE]

Init ==
    /\ terms \in [DOMAIN Content -> {1}]
    /\ amended = 0 /\ faults = 0
    /\ captures \in Campaigns
    /\ capture = NoCapture
    /\ evidence = <<>> /\ requests = {} /\ decisions = <<>> /\ certificates = {}
    /\ review = [p \in Reviewers |-> Idle]
    /\ written = {}
    /\ verdict = NoVerdict

\* The venue replaces a text; nothing announces it.
Amend ==
    /\ amended < MaxAmendments
    /\ \E c \in DOMAIN terms : \E v \in DOMAIN Content[c] \ {terms[c]} :
         terms' = [terms EXCEPT ![c] = v]
    /\ amended' = amended + 1
    /\ UNCHANGED <<faults, captures, capture, registryVars, review, verdict>>

-----------------------------------------------------------------------------
(* Captures.  *)

IsRelation(claim) == claim \in RelationClaims

Capturing(step) == capture.next = step
Fault == faults < MaxFaults /\ faults' = faults + 1

\* What a step reads one after the other.
Items(step) ==
    CASE step = "members" -> Markets
      [] step \in {"documents", "relation documents"} -> Documents
      [] step = "sources" -> Sources
      [] OTHER -> {}

Go(step, left, bundle) == capture' = [capture EXCEPT !.next = step, !.left = left, !.bundle = bundle]
Continue(step, bundle) == Go(step, Items(step), bundle)

\* An item is read, in an order of the names' own; step follows the last.
Item == CHOOSE n \in capture.left : TRUE
ContinueItems(step, bundle) ==
    IF capture.left = {Item} THEN Continue(step, bundle)
    ELSE Go(capture.next, capture.left \ {Item}, bundle)
CaptureOnly == UNCHANGED <<venueVars, captures, registryVars, review, verdict>>

\* A command starts on the next job: at is the instant it starts at.
Commanded(command) == Capturing("idle") /\ captures # <<>> /\ Head(captures).command = command
Start(next, bundle) ==
    /\ capture' = [job |-> Head(captures), at |-> Cardinality(certificates), snapshot |-> 0,
                   next |-> next, left |-> {}, bundle |-> bundle]
    /\ captures' = Tail(captures)
    /\ UNCHANGED <<venueVars, faults, registryVars, review, verdict>>
StartSettlement == Start("market", NewBundle(Head(captures).market))
StartRelation == Start("relation event", NewRelationBundle(Head(captures).basis))

CertificatesRequest == Commanded("certificates request") /\ StartSettlement

\* Without a certificate on file there is nothing to validate.
CertificatesValidate ==
    /\ Commanded("certificates validate")
    /\ \/ /\ \E c \in certificates : ~IsRelation(c.claim)
          /\ StartSettlement
       \/ /\ \A c \in certificates : IsRelation(c.claim)
          /\ captures' = Tail(captures)
          /\ UNCHANGED <<venueVars, faults, capture, registryVars, review, verdict>>

ScanBinaryComplement == Commanded("scan_binary_complement") /\ StartSettlement
RelationsRequest == Commanded("relations request") /\ StartRelation
DiscoverRelations == Commanded("discover_relations") /\ StartRelation

\* A caller who looks up both claims to conclude exactly one.
Evaluate == Commanded("evaluate") /\ StartRelation

\* get_market: a failure ends the capture.
ReadMarket ==
    /\ Capturing("market")
    /\ \/ /\ Continue("event", [capture.bundle EXCEPT !.rules = terms[capture.job.market]])
          /\ UNCHANGED faults
       \/ capture' = NoCapture /\ Fault
    /\ CaptureOnly

\* get_event and get_series: each failure is recorded and the capture goes on.
\* The series is asked for only when the event told its ticker.
ReadEvent ==
    /\ Capturing("event")
    /\ \/ /\ Continue("documents", [capture.bundle EXCEPT !.event = terms["event"], !.series = TRUE])
          /\ UNCHANGED faults
       \/ Continue("documents", [capture.bundle EXCEPT !.event = terms["event"]]) /\ Fault
       \/ Continue("documents", capture.bundle) /\ Fault
    /\ CaptureOnly

\* The same of a relation, which needs its event.
ReadRelationEvent ==
    /\ Capturing("relation event")
    /\ \/ /\ Continue("members", [capture.bundle EXCEPT !.event = terms["event"], !.series = TRUE])
          /\ UNCHANGED faults
       \/ Continue("members", [capture.bundle EXCEPT !.event = terms["event"]]) /\ Fault
       \/ capture' = NoCapture /\ Fault
    /\ CaptureOnly

\* The next member, by its own settlement evidence without documents
\* (capture_settlement_evidence): it may be unreadable, and is kept when only its
\* event or its series is.
ReadMember ==
    /\ Capturing("members")
    /\ LET bare == [NewBundle(Item) EXCEPT !.rules = terms[Item]]
           placed == [bare EXCEPT !.event = terms["event"]]
           Keep(member) ==
               ContinueItems("relation documents", [capture.bundle EXCEPT !.members[Item] = member])
       IN \/ Keep(MemberEvidence([placed EXCEPT !.series = TRUE])) /\ UNCHANGED faults
          \/ \E member \in {UnreadMember, MemberEvidence(bare), MemberEvidence(placed)} :
               Keep(member) /\ Fault
    /\ CaptureOnly

\* The next linked document: without a series there is no URL to fetch.
FetchDocument(step) ==
    LET url == capture.bundle.series /\ Item \in Published
        Keep(outcome) == ContinueItems(step, [capture.bundle EXCEPT
                             !.documents[Item] = Fetched(Item, url, terms, outcome)]) IN
    \/ ~capture.job.documents /\ Continue(step, capture.bundle) /\ UNCHANGED faults
    \/ capture.job.documents /\ Keep("RETRIEVED") /\ UNCHANGED faults
    \/ capture.job.documents /\ url /\ Keep("HTTP_ERROR") /\ Fault

ReadDocument == Capturing("documents") /\ FetchDocument("sources") /\ CaptureOnly
ReadRelationDocument == Capturing("relation documents") /\ FetchDocument("listing") /\ CaptureOnly

\* What follows the last read: certificates validate stores nothing.
AfterSources == IF capture.job.command = "certificates validate" THEN "validate" ELSE "store"

\* GoverningSourceCache.sources, which fetches one after the other, or not_attempted.
ReadSource ==
    /\ Capturing("sources")
    /\ LET Keep(outcome) == ContinueItems(AfterSources, [capture.bundle EXCEPT
                                !.sources[Item] = Fetched(Item, TRUE, terms, outcome)]) IN
       \/ ~capture.job.documents /\ Continue(AfterSources, capture.bundle) /\ UNCHANGED faults
       \/ capture.job.documents /\ Keep("RETRIEVED") /\ UNCHANGED faults
       \/ capture.job.documents /\ Keep("NETWORK_ERROR") /\ Fault
    /\ CaptureOnly

\* capture_exhaustiveness_evidence reads the listing; a capture that declares
\* no basis is capture_relation_evidence and does not.
ReadListing ==
    /\ Capturing("listing")
    /\ \/ capture.job.basis = "" /\ Continue("store relation", capture.bundle) /\ UNCHANGED faults
       \/ /\ capture.job.basis # ""
          /\ Continue("store relation", [capture.bundle EXCEPT !.listing = terms["listing"]])
          /\ UNCHANGED faults
       \/ capture.job.basis # "" /\ Continue("store relation", capture.bundle) /\ Fault
    /\ CaptureOnly

-----------------------------------------------------------------------------
(* The registries.  Evidence, requests and decisions are files written once. *)

\* Each snapshot has a name of its own.
Stored(next) ==
    /\ evidence' = Append(evidence, capture.bundle)
    /\ capture' = [capture EXCEPT !.snapshot = Len(evidence'), !.next = next]
    /\ UNCHANGED <<venueVars, faults, captures, requests, decisions, certificates, written, review, verdict>>

\* CertificateRegistry.store_evidence and RelationRegistry.store_evidence.
StoreEvidence ==
    /\ Capturing("store")
    /\ Stored(IF capture.job.claim = "" THEN "scan" ELSE "request")
StoreRelationEvidence ==
    /\ Capturing("store relation")
    /\ Stored(IF capture.job.claim = "" THEN "evaluate" ELSE "relation request")

Requested(next) ==
    /\ requests' = requests \cup {[snapshot |-> capture.snapshot, claim |-> capture.job.claim]}
    /\ capture' = next
    /\ UNCHANGED <<venueVars, faults, captures, evidence, decisions, certificates, written, review, verdict>>

\* Both store_request: what is on file decides whether it may be approved.  A
\* discovery goes on to look for a certificate.
StoreRequest == Capturing("request") /\ Requested(NoCapture)
StoreRelationRequest ==
    /\ Capturing("relation request")
    /\ Requested(IF capture.job.command = "discover_relations"
                 THEN [capture EXCEPT !.next = "discover"] ELSE NoCapture)

\* The command is killed: what it stored so far stays.
CrashCapture ==
    /\ capture.next \in {"request", "relation request", "discover"}
    /\ capture' = NoCapture
    /\ UNCHANGED <<venueVars, faults, captures, registryVars, review, verdict>>

\* The last issued of some certificates.
Newest(candidates) == {c \in candidates : \A d \in candidates : d.issued <= c.issued}

\* CertificateRegistry.active_at: of the certificates of a market issued by then,
\* those that apply to the evidence at hand.
ActiveAt(bundle, at) ==
    Newest({c \in certificates : ~IsRelation(c.claim) /\ c.issued <= at
                                 /\ Applies(evidence[c.snapshot], bundle)})

\* RelationRegistry.active_at, of one claim.
RelationActiveAt(claim, bundle, at) ==
    Newest({c \in certificates : c.claim = claim /\ c.issued <= at
                                 /\ RelationApplies(evidence[c.snapshot], bundle)})

Found(active, exactlyOne) ==
    /\ verdict' = [asked |-> TRUE, bundle |-> capture.bundle, active |-> active,
                   exactlyOne |-> exactlyOne]
    /\ capture' = NoCapture
    /\ UNCHANGED <<venueVars, faults, captures, registryVars, review>>

\* A scan asks at the instant it asks, long after its capture.
Scan == Capturing("scan") /\ Found(ActiveAt(capture.bundle, Cardinality(certificates)), FALSE)

\* The records certificates validate read when it started, each on its own.
Validate ==
    /\ Capturing("validate")
    /\ Found({c \in certificates : ~IsRelation(c.claim) /\ c.issued <= capture.at
                                   /\ Applies(evidence[c.snapshot], capture.bundle)}, FALSE)

\* A discovery asks at the instant it started.
Discover ==
    /\ Capturing("discover")
    /\ Found(RelationActiveAt("AT_MOST_ONE", capture.bundle, capture.at), FALSE)

\* Two active certificates are offered for an exactly-one conclusion.
EvaluateBoth ==
    /\ Capturing("evaluate")
    /\ LET b == capture.bundle
           active == UNION {RelationActiveAt(claim, b, Cardinality(certificates)) : claim \in RelationClaims}
       IN Found(active, \E most, least \in active :
                            DerivesExactlyOne(most.claim, evidence[most.snapshot],
                                              least.claim, evidence[least.snapshot], b))

-----------------------------------------------------------------------------
(* The reviewers.  *)

\* The states or joint states each claim says cannot happen.
Forbidden(claim) ==
    CASE claim = "STANDARD_BINARY_COMPLEMENT" -> {"FRACTIONAL", "VOID"}
      [] claim = "AT_MOST_ONE" -> {"TWO_WIN"}
      [] claim = "AT_LEAST_ONE" -> {"ALL_LOSE"}

\* The texts that govern a claim, among those the evidence holds.
Texts(docs) == {<<n, docs[n].sha>> : n \in {n \in DOMAIN docs : IsUsable(docs[n])}}
CitedSources(b) == {d.source : d \in {d \in AllDependencies(b) : IsMaterial(d)}}
GoverningTexts(claim, b) ==
    Texts(b.documents) \cup {<<"event", v>> : v \in {b.event} \ {0}} \cup
    IF IsRelation(claim)
    THEN {<<m, b.members[m].rules>> : m \in {m \in Markets : b.members[m].read}} \cup
         {<<"listing", v>> : v \in IF ReliesOnPartition(b) THEN {b.listing} \ {0} ELSE {}}
    ELSE {<<b.market, b.rules>>} \cup
         {t \in Texts(b.sources) : t[1] \in CitedSources(b)}

\* What a careful reviewer has read: all of it, but a document that must be
\* viewed at its source only when acknowledged as viewed.
ReadTexts(claim, b, acknowledged) ==
    LET unseen == (ManualDocuments(b) \cup ManualSources(b)) \ acknowledged IN
    {t \in GoverningTexts(claim, b) : IsRelation(claim) \/ t[1] \notin unseen}

Admitted(texts) == UNION {Text(t[1], t[2]).admits : t \in texts}

\* A reviewer opens a request and comes to a decision.  A careful one answers
\* the checklist safely only when nothing read admits a state it asks about;
\* the answers that come with a rejection decide nothing.
Reviewed(p, q, d, checklist) ==
    /\ d.safe => Admitted(ReadTexts(q.claim, evidence[q.snapshot], d.acknowledged)) \cap checklist = {}
    /\ review' = [review EXCEPT ![p] = [at |-> "decided", request |-> q, decision |-> d]]
    /\ UNCHANGED <<venueVars, faults, captures, capture, registryVars, verdict>>

Decisions(manual) ==
    {Decision("REJECTED", FALSE, {})} \cup
    {Decision("APPROVED", safe, acknowledged) : safe \in BOOLEAN, acknowledged \in SUBSET manual}

\* certificates review, which looks a cited source up among the documents and
\* fails.
Decide(p) ==
    /\ review[p] = Idle
    /\ \E q \in {q \in requests : ~IsRelation(q.claim)} :
         /\ ManualSources(evidence[q.snapshot]) = {}
         /\ \E d \in Decisions(ManualDocuments(evidence[q.snapshot])) :
              Reviewed(p, q, d, SettlementChecklist)

\* relations review.
DecideRelation(p) ==
    /\ review[p] = Idle
    /\ \E q \in {q \in requests : IsRelation(q.claim)} : \E d \in Decisions({}) :
         Reviewed(p, q, d, ChecklistForClaim(q.claim))

\* What follows a decision on file: the settlement command issues at once.
AfterDecision(p) ==
    review' = [review EXCEPT ![p] =
        IF review[p].decision.verdict = "APPROVED" /\ ~IsRelation(review[p].request.claim)
        THEN [review[p] EXCEPT !.at = "approved"] ELSE Idle]

ReviewOnly == UNCHANGED <<venueVars, faults, captures, capture, verdict>>

\* A mutant of CheckDecision: the decision on file is not looked for.
MutOverwrite(p) ==
    /\ review[p].at = "decided"
    /\ review' = [review EXCEPT ![p].at = "writing"]
    /\ UNCHANGED registryVars /\ ReviewOnly

\* A mutant of CheckDecision: a decision on file is taken for this one.
MutAlreadyStored(p) ==
    /\ review[p].at = "decided"
    /\ IF review[p].request \in DOMAIN decisions THEN AfterDecision(p)
       ELSE review' = [review EXCEPT ![p].at = "writing"]
    /\ UNCHANGED registryVars /\ ReviewOnly

\* store_decision, its first half: a request has one file, and a second
\* decision on it is refused and its review ends there.
CheckDecision(p) ==
    /\ review[p].at = "decided"
    /\ review' = [review EXCEPT ![p] =
           IF review[p].request \in DOMAIN decisions THEN Idle
           ELSE [review[p] EXCEPT !.at = "writing"]]
    /\ UNCHANGED registryVars /\ ReviewOnly

Writing(p, q) == review[p].at = "writing" /\ review[p].request = q

\* store_decision, its second half: the file is replaced whole, whatever came
\* to be there since the check.
WriteDecision(p) ==
    /\ review[p].at = "writing"
    /\ LET q == review[p].request
           d == review[p].decision IN
       /\ decisions' = [r \in DOMAIN decisions \cup {q} |-> IF r = q THEN d ELSE decisions[r]]
       /\ written' = written \cup
            {[request |-> q, decision |-> d,
              contested |-> \E other \in Reviewers \ {p} : Writing(other, q)]}
    /\ AfterDecision(p)
    /\ UNCHANGED <<evidence, requests, certificates>> /\ ReviewOnly

Certificate(q) == [snapshot |-> q.snapshot, claim |-> q.claim, issued |-> Cardinality(certificates) + 1]

\* issue_certificate and store_certificate, or an IssuanceError: the decision
\* stays on file either way.
Issue(p) ==
    /\ review[p].at = "approved"
    /\ LET q == review[p].request IN
       certificates' = IF SupportsIssuance(evidence[q.snapshot], review[p].decision)
                       THEN certificates \cup {Certificate(q)} ELSE certificates
    /\ review' = [review EXCEPT ![p] = Idle]
    /\ UNCHANGED <<evidence, requests, decisions, written>> /\ ReviewOnly

\* issue_relation_certificate, called with a decision on file: no command does.
IssueRelation ==
    /\ \E q \in DOMAIN decisions :
         /\ IsRelation(q.claim)
         /\ \A c \in certificates : c.snapshot # q.snapshot
         /\ SupportsRelation(evidence[q.snapshot], q.claim, decisions[q])
         /\ certificates' = certificates \cup {Certificate(q)}
    /\ UNCHANGED <<evidence, requests, decisions, written, review>> /\ ReviewOnly

CrashReview(p) ==
    /\ review[p] # Idle
    /\ review' = [review EXCEPT ![p] = Idle]
    /\ UNCHANGED registryVars /\ ReviewOnly

Next ==
    \/ Amend
    \/ CertificatesRequest \/ CertificatesValidate \/ ScanBinaryComplement
    \/ RelationsRequest \/ DiscoverRelations \/ Evaluate
    \/ ReadMarket \/ ReadEvent \/ ReadDocument \/ ReadSource
    \/ ReadRelationEvent \/ ReadMember \/ ReadRelationDocument \/ ReadListing
    \/ StoreEvidence \/ StoreRelationEvidence \/ StoreRequest \/ StoreRelationRequest
    \/ CrashCapture \/ Scan \/ Validate \/ Discover \/ EvaluateBoth
    \/ \E p \in Reviewers :
         Decide(p) \/ DecideRelation(p) \/ CheckDecision(p) \/ WriteDecision(p) \/ Issue(p) \/ CrashReview(p)
    \/ IssueRelation

Spec == Init /\ [][Next]_vars

-----------------------------------------------------------------------------
\* The texts admit no state the claim says cannot happen.
Holds(claim, texts) == Admitted(texts) \cap Forbidden(claim) = {}

\* A certificate found active speaks of the texts the scan has read: what it
\* claims cannot happen is admitted by none of them, although the terms may
\* have been amended during either capture, during the review and since.
ActiveMeansTrue ==
    verdict.asked =>
        \A c \in verdict.active : Holds(c.claim, GoverningTexts(c.claim, verdict.bundle))

\* A certificate is active on exactly the texts its decision was made on: none
\* is new, none is missing and none is of another version.
ActiveMeansReviewed ==
    verdict.asked =>
        \A c \in verdict.active :
            GoverningTexts(c.claim, verdict.bundle) = GoverningTexts(c.claim, evidence[c.snapshot])

\* A decision permits the certificate its request asks for.
Permits(q, d) ==
    IF IsRelation(q.claim) THEN SupportsRelation(evidence[q.snapshot], q.claim, d)
    ELSE SupportsIssuance(evidence[q.snapshot], d)

\* Every certificate has on file the evidence it speaks of, the request made
\* from it and a decision; and a decision on that very request that permits it
\* was written before it was issued, by however many reviewers and with
\* whatever was killed in between (certificates_review stores, then issues).
CertificatesAreBacked ==
    \A c \in certificates :
        LET q == [snapshot |-> c.snapshot, claim |-> c.claim] IN
        /\ q \in requests /\ q \in DOMAIN decisions
        /\ \E w \in written : w.request = q /\ Permits(q, w.decision)

\* An exactly-one conclusion from two active certificates holds of the texts
\* read: neither may two members win nor may all lose.
DerivedExactlyOneHolds ==
    verdict.asked /\ verdict.exactlyOne =>
        \A claim \in RelationClaims : Holds(claim, GoverningTexts(claim, verdict.bundle))

\* A step that takes nothing from the registries.
NothingIsLost ==
    /\ SubSeq(evidence', 1, Len(evidence)) = evidence
    /\ requests \subseteq requests' /\ certificates \subseteq certificates'
    /\ DOMAIN decisions \subseteq DOMAIN decisions'

\* Evidence, requests and certificates are only ever added, and a decision on
\* file is replaced in one case alone: when it was written, another review of
\* the same request stood between its check and its write (_write_record).
RecordsAreKept ==
    [][/\ NothingIsLost
       /\ \A q \in DOMAIN decisions : decisions'[q] # decisions[q] =>
              \E w \in written : w.request = q /\ w.contested]_vars

\* What the registry says of itself: "evidence and decisions are append-only and
\* must never be silently overwritten" (_write_record, CertificateRegistry).
RecordsAreNeverRewritten ==
    [][NothingIsLost /\ \A q \in DOMAIN decisions : decisions'[q] = decisions[q]]_vars

=============================================================================
