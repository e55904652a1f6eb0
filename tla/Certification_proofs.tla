------------------------- MODULE Certification_proofs -------------------------
(***************************************************************************)
(* What the registries promise holds for any evidence, any terms, any      *)
(* sequence of captures and any crash.                                     *)
(*                                                                         *)
(* Any number of reviewers decide at once.  A decision is replaced only    *)
(* when it was contested: what a review found at its check may be on file  *)
(* at its write, and then a decision was written in between.  A            *)
(* certificate rests on a decision that was written, if not on the one on  *)
(* file.                                                                   *)
(*                                                                         *)
(* An active certificate speaks of the texts the scan has read, and truly: *)
(* what is equal when fingerprints are equal decides what the certificate  *)
(* is about, and every decision that may become a certificate is honest on *)
(* its own.                                                                *)
(***************************************************************************)
EXTENDS Certification, SequenceTheorems, TLAPS

\* A snapshot on file.
OnFile(snapshot) == snapshot \in DOMAIN evidence

\* The registries as files: a snapshot's name is its place, a request names a
\* snapshot on file, a decision a request on file.
IsFile == \E S : evidence \in Seq(S)

RegistryInv ==
    /\ IsFile
    /\ \A q \in requests : q = [snapshot |-> q.snapshot, claim |-> q.claim] /\ OnFile(q.snapshot)
    /\ DOMAIN decisions \subseteq requests

\* A capture about to request a review has stored its evidence.
CaptureInv ==
    /\ capture.next # "idle" => {"next", "snapshot"} \subseteq DOMAIN capture
    /\ capture.next \in {"request", "relation request"} => OnFile(capture.snapshot)

\* A decision was written on a request; one was while another review of the
\* request stood before its write.
WasWritten(q, d) == \E w \in written : w.request = q /\ w.decision = d
Contested(q) == \E w \in written : w.request = q /\ w.contested

\* How far a review has come, by what is on file of its request.
Underway(process) ==
    \/ process = Idle
    \/ \E at \in {"decided", "writing", "approved"}, q \in requests : \E d :
         /\ process = [at |-> at, request |-> q, decision |-> d]
         /\ at = "writing" => q \notin DOMAIN decisions \/ Contested(q)
         /\ at = "approved" => q \in DOMAIN decisions /\ WasWritten(q, d) /\ ~IsRelation(q.claim)

ReviewInv ==
    /\ review = [p \in Reviewers |-> review[p]]
    /\ \A p \in Reviewers : Underway(review[p])

RequestOf(c) == [snapshot |-> c.snapshot, claim |-> c.claim]

\* A decision is on file, and one that permits the certificate was written.
Backed(q) == q \in DOMAIN decisions /\ \E w \in written : w.request = q /\ Permits(q, w.decision)

BackedInv ==
    /\ \A q \in DOMAIN decisions : WasWritten(q, decisions[q])
    /\ \A c \in certificates : Backed(RequestOf(c))

CertInv == RegistryInv /\ CaptureInv /\ ReviewInv /\ BackedInv

-----------------------------------------------------------------------------
(* The files.  *)

\* A stored snapshot moves none of those on file.
LEMMA StoringAppends ==
    ASSUME NEW before, NEW bundle, NEW S, before \in Seq(S)
    PROVE  LET after == Append(before, bundle) IN
           /\ \E T : after \in Seq(T)
           /\ Len(after) = Len(before) + 1 /\ Len(after) \in DOMAIN after
           /\ DOMAIN before \subseteq DOMAIN after
           /\ \A i \in DOMAIN before : after[i] = before[i]
           /\ SubSeq(after, 1, Len(before)) = before
<1> DEFINE T == S \cup {bundle}
           after == Append(before, bundle)
<1>1. before \in Seq(T) /\ bundle \in T
  OBVIOUS
<1>2. /\ after \in Seq(T) /\ Len(after) = Len(before) + 1
      /\ \A i \in 1..Len(before) : after[i] = before[i]
  BY <1>1, AppendProperties
<1>3. Len(before) \in Nat /\ DOMAIN before = 1..Len(before) /\ DOMAIN after = 1..Len(after)
  BY <1>1, <1>2
<1>4. SubSeq(after, 1, Len(before)) = before
  <2>1. SubSeq(after, 1, Len(before)) = Restrict(after, 1..Len(before))
    <3>1. Len(before) \in 0..Len(after)
      BY <1>2, <1>3
    <3> QED
      BY <1>2, <3>1, SubSeqRestrict
  <2>2. Restrict(after, 1..Len(before)) = [i \in 1..Len(before) |-> before[i]]
    BY <1>2 DEF Restrict
  <2>3. before = [i \in 1..Len(before) |-> before[i]]
    BY <1>1, <1>3
  <2> QED
    BY <2>1, <2>2, <2>3
<1> QED
  BY <1>2, <1>3, <1>4

LEMMA FullSubSeq ==
    ASSUME NEW s, \E S : s \in Seq(S)
    PROVE  SubSeq(s, 1, Len(s)) = s
BY SubSeqFull

-----------------------------------------------------------------------------
(* The invariant.  *)

LEMMA CertInvInit == Init => CertInv
<1> SUFFICES ASSUME Init PROVE CertInv
  OBVIOUS
<1>1. /\ evidence = <<>> /\ requests = {} /\ decisions = <<>> /\ certificates = {}
      /\ capture.next = "idle" /\ review = [p \in Reviewers |-> Idle]
  BY DEF Init, NoCapture
<1>2. RegistryInv /\ CaptureInv
  <2>1. <<>> \in Seq({}) /\ DOMAIN <<>> = {}
    OBVIOUS
  <2> QED
    BY <1>1, <2>1 DEF RegistryInv, IsFile, CaptureInv
<1>3. ReviewInv
  BY <1>1 DEF ReviewInv, Underway
<1>4. BackedInv
  BY <1>1 DEF BackedInv
<1> QED
  BY <1>2, <1>3, <1>4 DEF CertInv

\* A step that leaves the registries and the reviews alone.
LEMMA CaptureReads ==
    ASSUME CertInv, UNCHANGED <<registryVars, review>>, CaptureInv'
    PROVE  CertInv'
<1>1. UNCHANGED <<evidence, requests, decisions, certificates, written, review>>
  BY DEF registryVars
<1>2. RegistryInv'
  BY <1>1 DEF CertInv, RegistryInv, IsFile, OnFile
<1>3. ReviewInv'
  BY <1>1 DEF CertInv, ReviewInv, Underway, WasWritten, Contested
<1>4. BackedInv'
  BY <1>1 DEF CertInv, BackedInv, Backed, Permits, WasWritten
<1> QED
  BY <1>2, <1>3, <1>4 DEF CertInv

\* Evidence is stored.
LEMMA StoredStep ==
    ASSUME CertInv, capture.next # "idle", NEW next, Stored(next)
    PROVE  CertInv'
<1>1. /\ evidence' = Append(evidence, capture.bundle)
      /\ capture' = [capture EXCEPT !.snapshot = Len(evidence'), !.next = next]
      /\ UNCHANGED <<requests, decisions, certificates, written, review>>
  BY DEF Stored
<1>2. PICK S : evidence \in Seq(S)
  BY DEF CertInv, RegistryInv, IsFile
<1>3. /\ IsFile'
      /\ Len(evidence') \in DOMAIN evidence'
      /\ DOMAIN evidence \subseteq DOMAIN evidence'
      /\ \A i \in DOMAIN evidence : evidence'[i] = evidence[i]
  BY <1>1, <1>2, StoringAppends DEF IsFile
<1>4. RegistryInv'
  BY <1>1, <1>3 DEF CertInv, RegistryInv, OnFile
<1>5. CaptureInv'
  <2>1. DOMAIN capture' = DOMAIN capture /\ "snapshot" \in DOMAIN capture
    BY <1>1 DEF CertInv, CaptureInv
  <2>2. capture'.snapshot = Len(evidence')
    BY <1>1, <2>1
  <2> QED
    BY <1>3, <2>1, <2>2 DEF CertInv, CaptureInv, OnFile
<1>6. ReviewInv'
  BY <1>1 DEF CertInv, ReviewInv, Underway, WasWritten, Contested
<1>7. BackedInv'
  <2>1. \A q \in DOMAIN decisions : evidence'[q.snapshot] = evidence[q.snapshot]
    BY <1>3 DEF CertInv, RegistryInv, OnFile
  <2> QED
    BY <1>1, <2>1 DEF CertInv, BackedInv, Backed, Permits, WasWritten
<1> QED
  BY <1>4, <1>5, <1>6, <1>7 DEF CertInv

\* A request is stored.
LEMMA RequestedStep ==
    ASSUME CertInv, capture.next \in {"request", "relation request"},
           NEW next, Requested(next), CaptureInv'
    PROVE  CertInv'
<1>1. PICK q : q = [snapshot |-> capture.snapshot, claim |-> capture.job.claim]
  OBVIOUS
<1>2. /\ requests' = requests \cup {q}
      /\ UNCHANGED <<evidence, decisions, certificates, written, review>>
  BY <1>1 DEF Requested
<1>3. q = [snapshot |-> q.snapshot, claim |-> q.claim] /\ OnFile(q.snapshot)
  BY <1>1 DEF CertInv, CaptureInv
<1>4. RegistryInv'
  BY <1>2, <1>3 DEF CertInv, RegistryInv, IsFile, OnFile
<1>5. ReviewInv'
  <2>1. requests \subseteq requests'
    BY <1>2
  <2>2. \A process : Underway(process) => Underway(process)'
    BY ZenonT(30), <1>2, <2>1 DEF Underway, WasWritten, Contested
  <2> QED
    BY <1>2, <2>2 DEF CertInv, ReviewInv
<1>6. BackedInv'
  BY <1>2 DEF CertInv, BackedInv, Backed, Permits, WasWritten
<1> QED
  BY <1>4, <1>5, <1>6 DEF CertInv

\* Commands start, read, ask and are killed without writing.
CaptureStep ==
    \/ CertificatesRequest \/ CertificatesValidate \/ ScanBinaryComplement
    \/ RelationsRequest \/ DiscoverRelations \/ Evaluate
    \/ ReadMarket \/ ReadEvent \/ ReadDocument \/ ReadSource
    \/ ReadRelationEvent \/ ReadMember \/ ReadRelationDocument \/ ReadListing
    \/ CrashCapture \/ Scan \/ Validate \/ Discover \/ EvaluateBoth

LEMMA CaptureSteps == CertInv /\ CaptureStep => CertInv'
<1> SUFFICES ASSUME CertInv, CaptureStep PROVE CertInv'
  OBVIOUS
<1>1. ASSUME UNCHANGED <<registryVars, review>>, NEW step, NEW left, NEW bundle,
             Go(step, left, bundle), capture.next # "idle",
             step \notin {"request", "relation request"}
      PROVE  CertInv'
  <2>1. DOMAIN capture' = DOMAIN capture /\ capture'.next = step
    BY <1>1 DEF Go, CertInv, CaptureInv
  <2>2. CaptureInv'
    BY <1>1, <2>1 DEF CertInv, CaptureInv
  <2> QED
    BY <1>1, <2>2, CaptureReads
<1>2. ASSUME capture' = NoCapture PROVE CaptureInv'
  BY <1>2 DEF CaptureInv, NoCapture
<1>3. ASSUME NEW next, NEW bundle, Start(next, bundle), next \in {"market", "relation event"}
      PROVE  CaptureInv'
  BY <1>3 DEF Start, CaptureInv
<1>4. CASE CertificatesRequest \/ ScanBinaryComplement
  BY <1>3, <1>4, CaptureReads DEF CertificatesRequest, ScanBinaryComplement, StartSettlement, Start
<1>5. CASE RelationsRequest \/ DiscoverRelations \/ Evaluate
  BY <1>3, <1>5, CaptureReads DEF RelationsRequest, DiscoverRelations, Evaluate, StartRelation, Start
<1>6. CASE CertificatesValidate
  <2>1. CASE StartSettlement
    BY <1>3, <2>1, CaptureReads DEF StartSettlement, Start
  <2>2. CASE UNCHANGED <<registryVars, review, capture>>
    BY <2>2, CaptureReads DEF CertInv, CaptureInv, registryVars, OnFile
  <2> QED
    BY <1>6, <2>1, <2>2 DEF CertificatesValidate
<1>7. CASE ReadMarket
  <2>1. capture.next = "market" /\ UNCHANGED <<registryVars, review>>
    BY <1>7 DEF ReadMarket, Capturing, CaptureOnly
  <2>2. capture' = NoCapture \/ \E left, bundle : Go("event", left, bundle)
    BY <1>7 DEF ReadMarket, Continue
  <2> QED
    BY <1>1, <1>2, <2>1, <2>2, CaptureReads
<1>8. CASE ReadEvent
  <2>1. capture.next = "event" /\ UNCHANGED <<registryVars, review>>
    BY <1>8 DEF ReadEvent, Capturing, CaptureOnly
  <2>2. PICK left, bundle : Go("documents", left, bundle)
    BY <1>8 DEF ReadEvent, Continue
  <2> QED
    BY <1>1, <2>1, <2>2
<1>9. CASE ReadDocument \/ ReadRelationDocument
  <2>1. PICK step \in {"sources", "listing"} :
            FetchDocument(step) /\ capture.next \in {"documents", "relation documents"}
    BY <1>9 DEF ReadDocument, ReadRelationDocument, Capturing
  <2>2. UNCHANGED <<registryVars, review>>
    BY <1>9 DEF ReadDocument, ReadRelationDocument, CaptureOnly
  <2>3. PICK next \in {step, capture.next} : \E left, bundle : Go(next, left, bundle)
    BY <2>1 DEF FetchDocument, Continue, ContinueItems
  <2> QED
    BY <1>1, <2>1, <2>2, <2>3
<1>10. CASE ReadSource
  <2>1. capture.next = "sources" /\ UNCHANGED <<registryVars, review>>
    BY <1>10 DEF ReadSource, Capturing, CaptureOnly
  <2>2. PICK next \in {AfterSources, capture.next} : \E left, bundle : Go(next, left, bundle)
    BY <1>10 DEF ReadSource, Continue, ContinueItems
  <2>3. AfterSources \in {"validate", "store"}
    BY DEF AfterSources
  <2> QED
    BY <1>1, <2>1, <2>2, <2>3
<1>11. CASE ReadRelationEvent
  <2>1. capture.next = "relation event" /\ UNCHANGED <<registryVars, review>>
    BY <1>11 DEF ReadRelationEvent, Capturing, CaptureOnly
  <2>2. capture' = NoCapture \/ \E left, bundle : Go("members", left, bundle)
    BY <1>11 DEF ReadRelationEvent, Continue
  <2> QED
    BY <1>1, <1>2, <2>1, <2>2, CaptureReads
<1>12. CASE ReadMember
  <2>1. capture.next = "members" /\ UNCHANGED <<registryVars, review>>
    BY <1>12 DEF ReadMember, Capturing, CaptureOnly
  <2>2. PICK next \in {"relation documents", capture.next} : \E left, bundle : Go(next, left, bundle)
    BY <1>12 DEF ReadMember, Continue, ContinueItems
  <2> QED
    BY <1>1, <2>1, <2>2
<1>13. CASE ReadListing
  <2>1. capture.next = "listing" /\ UNCHANGED <<registryVars, review>>
    BY <1>13 DEF ReadListing, Capturing, CaptureOnly
  <2>2. PICK left, bundle : Go("store relation", left, bundle)
    BY <1>13 DEF ReadListing, Continue
  <2> QED
    BY <1>1, <2>1, <2>2
<1>14. CASE CrashCapture \/ Scan \/ Validate \/ Discover \/ EvaluateBoth
  <2>1. capture' = NoCapture /\ UNCHANGED <<registryVars, review>>
    BY <1>14 DEF CrashCapture, Scan, Validate, Discover, EvaluateBoth, Found
  <2> QED
    BY <1>2, <2>1, CaptureReads
<1> QED
  BY <1>4, <1>5, <1>6, <1>7, <1>8, <1>9, <1>10, <1>11, <1>12, <1>13, <1>14 DEF CaptureStep

LEMMA StoreSteps ==
    CertInv /\ (StoreEvidence \/ StoreRelationEvidence \/ StoreRequest \/ StoreRelationRequest)
        => CertInv'
<1> SUFFICES ASSUME CertInv,
                    StoreEvidence \/ StoreRelationEvidence \/ StoreRequest \/ StoreRelationRequest
             PROVE  CertInv'
  OBVIOUS
<1>1. CASE StoreEvidence \/ StoreRelationEvidence
  <2>1. capture.next # "idle" /\ \E next : Stored(next)
    BY <1>1 DEF StoreEvidence, StoreRelationEvidence, Capturing
  <2> QED
    BY <2>1, StoredStep
<1>2. CASE StoreRequest \/ StoreRelationRequest
  <2>1. PICK next : /\ next = NoCapture \/ next = [capture EXCEPT !.next = "discover"]
                    /\ Requested(next)
                    /\ capture.next \in {"request", "relation request"}
    BY <1>2 DEF StoreRequest, StoreRelationRequest, Capturing
  <2>2. capture' = next
    BY <2>1 DEF Requested
  <2>3. CaptureInv'
    <3>1. CASE next = NoCapture
      BY <2>2, <3>1 DEF CaptureInv, NoCapture
    <3>2. CASE next = [capture EXCEPT !.next = "discover"]
      <4>1. {"next", "snapshot"} \subseteq DOMAIN capture
        BY <2>1 DEF CertInv, CaptureInv
      <4>2. DOMAIN capture' = DOMAIN capture
        BY <2>2, <3>2
      <4>3. capture'.next = "discover"
        BY <2>2, <3>2, <4>1
      <4> QED
        BY <4>1, <4>2, <4>3 DEF CaptureInv
    <3> QED
      BY <2>1, <3>1, <3>2
  <2> QED
    BY <2>1, <2>3, RequestedStep
<1> QED
  BY <1>1, <1>2

-----------------------------------------------------------------------------
(* The reviews.  *)

\* What a review has come to stays, whatever is written by others: a decision
\* on the request it is about to write contests it.
LEMMA StaysUnderway ==
    ASSUME NEW process, Underway(process),
           requests \subseteq requests', DOMAIN decisions \subseteq DOMAIN decisions',
           written \subseteq written',
           process.at = "writing" /\ process.request \in DOMAIN decisions' =>
               process.request \in DOMAIN decisions \/ Contested(process.request)'
    PROVE  Underway(process)'
<1>1. CASE process = Idle
  BY <1>1 DEF Underway
<1>2. CASE process # Idle
  <2>1. PICK at, q, d :
          /\ at \in {"decided", "writing", "approved"} /\ q \in requests
          /\ process = [at |-> at, request |-> q, decision |-> d]
          /\ at = "writing" => q \notin DOMAIN decisions \/ Contested(q)
          /\ at = "approved" => q \in DOMAIN decisions /\ WasWritten(q, d) /\ ~IsRelation(q.claim)
    BY <1>2 DEF Underway
  <2>2. process.at = at /\ process.request = q
    BY <2>1
  <2>3. (WasWritten(q, d) => WasWritten(q, d)') /\ (Contested(q) => Contested(q)')
    BY DEF WasWritten, Contested
  <2>4. at = "writing" => q \notin DOMAIN decisions' \/ Contested(q)'
    BY <2>1, <2>2, <2>3
  <2> QED
    BY <2>1, <2>3, <2>4 DEF Underway
<1> QED
  BY <1>1, <1>2

\* One review moves and the others stay where they are.
LEMMA OneReviewMoves ==
    ASSUME ReviewInv, NEW p \in Reviewers, NEW x,
           review' = [review EXCEPT ![p] = x], Underway(x)',
           requests \subseteq requests', DOMAIN decisions \subseteq DOMAIN decisions',
           written \subseteq written',
           \A r \in Reviewers \ {p} : \A q \in DOMAIN decisions' :
               Writing(r, q) => q \in DOMAIN decisions \/ Contested(q)'
    PROVE  ReviewInv'
<1>1. DOMAIN review = Reviewers
  BY DEF ReviewInv
<1>2. review' = [r \in Reviewers |-> review'[r]] /\ review'[p] = x
  BY <1>1
<1>3. ASSUME NEW r \in Reviewers, r # p PROVE Underway(review[r])'
  <2>1. PICK y : y = review[r]
    OBVIOUS
  <2>2. Underway(y) /\ review'[r] = y
    BY <1>1, <1>3, <2>1 DEF ReviewInv
  <2>3. Underway(y)'
    BY <1>3, <2>1, <2>2, StaysUnderway DEF Writing
  <2> QED
    BY <2>2, <2>3
<1> QED
  BY <1>2, <1>3 DEF ReviewInv

\* A review that writes nothing.
LEMMA ReviewingOnly ==
    ASSUME CertInv, NEW p \in Reviewers, NEW x,
           review' = [review EXCEPT ![p] = x], Underway(x),
           UNCHANGED <<evidence, requests, decisions, certificates, written, capture>>
    PROVE  CertInv'
<1>1. RegistryInv' /\ CaptureInv' /\ BackedInv'
  BY DEF CertInv, RegistryInv, CaptureInv, IsFile, OnFile, BackedInv, Backed, Permits, WasWritten
<1>2. Underway(x)'
  BY DEF Underway, WasWritten, Contested
<1> QED
  BY <1>1, <1>2, OneReviewMoves DEF CertInv

\* What writing a decision does to the registries, and what is recorded of it.
WriteDecisionOf(p, q, d, w) ==
    /\ review[p] = [at |-> "writing", request |-> q, decision |-> d]
    /\ review[p].request = q
    /\ q \notin DOMAIN decisions \/ Contested(q)
    /\ DOMAIN decisions' = DOMAIN decisions \cup {q} /\ decisions'[q] = d
    /\ \A r \in DOMAIN decisions \ {q} : decisions'[r] = decisions[r]
    /\ written' = written \cup {w} /\ w.request = q /\ w.decision = d
    /\ \A r \in Reviewers \ {p} : Writing(r, q) => w.contested
    /\ UNCHANGED <<evidence, requests, certificates>>
    /\ review' = [review EXCEPT ![p] =
           IF d.verdict = "APPROVED" /\ ~IsRelation(q.claim)
           THEN [at |-> "approved", request |-> q, decision |-> d] ELSE Idle]

LEMMA DecisionIsWritten ==
    ASSUME CertInv, NEW p \in Reviewers, WriteDecision(p)
    PROVE  \E q, d, w : WriteDecisionOf(p, q, d, w)
<1>1. review[p].at = "writing"
  BY DEF WriteDecision
<1>2. PICK at, q, d :
        /\ review[p] = [at |-> at, request |-> q, decision |-> d]
        /\ at = "writing" => q \notin DOMAIN decisions \/ Contested(q)
  BY <1>1 DEF CertInv, ReviewInv, Underway, Idle
<1>3. review[p].at = at /\ review[p].request = q /\ review[p].decision = d
  BY <1>2
<1>4. PICK w : w = [request |-> q, decision |-> d,
                    contested |-> \E other \in Reviewers \ {p} : Writing(other, q)]
  OBVIOUS
<1>5. /\ decisions' = [r \in DOMAIN decisions \cup {q} |-> IF r = q THEN d ELSE decisions[r]]
      /\ written' = written \cup {w} /\ UNCHANGED <<evidence, requests, certificates>>
  BY <1>3, <1>4 DEF WriteDecision
<1>6. w.request = q /\ w.decision = d /\ \A r \in Reviewers \ {p} : Writing(r, q) => w.contested
  BY <1>4
<1>7. review' = [review EXCEPT ![p] =
           IF d.verdict = "APPROVED" /\ ~IsRelation(q.claim)
           THEN [at |-> "approved", request |-> q, decision |-> d] ELSE Idle]
  <2>1. [review[p] EXCEPT !.at = "approved"] = [at |-> "approved", request |-> q, decision |-> d]
    BY <1>2
  <2> QED
    BY <1>3, <2>1 DEF WriteDecision, AfterDecision
<1> QED
  BY <1>1, <1>2, <1>3, <1>5, <1>6, <1>7 DEF WriteDecisionOf

LEMMA ReviewSteps ==
    ASSUME CertInv, NEW p \in Reviewers,
           \/ Decide(p) \/ DecideRelation(p) \/ CheckDecision(p)
           \/ WriteDecision(p) \/ Issue(p) \/ CrashReview(p)
    PROVE  CertInv'
<1>1. /\ UNCHANGED <<evidence, requests, capture>>
      /\ Decide(p) \/ DecideRelation(p) \/ CheckDecision(p) \/ CrashReview(p) =>
             UNCHANGED <<decisions, certificates, written>>
  BY DEF Decide, DecideRelation, Reviewed, CheckDecision, WriteDecision, Issue, CrashReview,
     registryVars, ReviewOnly
<1>2. CaptureInv'
  BY <1>1 DEF CertInv, CaptureInv, OnFile
<1>3. Underway(Idle) /\ Underway(Idle)'
  BY DEF Underway
<1>4. CASE Decide(p) \/ DecideRelation(p)
  <2>1. PICK q, d, checklist : q \in requests /\ Reviewed(p, q, d, checklist)
    BY <1>4 DEF Decide, DecideRelation
  <2>2. PICK x : x = [at |-> "decided", request |-> q, decision |-> d]
    OBVIOUS
  <2>3. review' = [review EXCEPT ![p] = x]
    BY <2>1, <2>2 DEF Reviewed
  <2>4. Underway(x)
    BY <2>1, <2>2 DEF Underway
  <2> QED
    BY <1>1, <1>4, <2>3, <2>4, ReviewingOnly
<1>5. CASE CrashReview(p)
  <2>1. review' = [review EXCEPT ![p] = Idle]
    BY <1>5 DEF CrashReview
  <2> QED
    BY <1>1, <1>3, <1>5, <2>1, ReviewingOnly
<1>6. ASSUME review[p].at # "idle"
      PROVE  \E q \in requests : \E d :
               /\ review[p] = [at |-> review[p].at, request |-> q, decision |-> d]
               /\ review[p].request = q /\ review[p].decision = d
               /\ review[p].at = "writing" => q \notin DOMAIN decisions \/ Contested(q)
               /\ review[p].at = "approved" =>
                    q \in DOMAIN decisions /\ WasWritten(q, d) /\ ~IsRelation(q.claim)
  <2>1. PICK at, q, d :
          /\ at \in {"decided", "writing", "approved"} /\ q \in requests
          /\ review[p] = [at |-> at, request |-> q, decision |-> d]
          /\ at = "writing" => q \notin DOMAIN decisions \/ Contested(q)
          /\ at = "approved" => q \in DOMAIN decisions /\ WasWritten(q, d) /\ ~IsRelation(q.claim)
    BY <1>6 DEF CertInv, ReviewInv, Underway, Idle
  <2>2. review[p].at = at /\ review[p].request = q /\ review[p].decision = d
    BY <2>1
  <2> QED
    BY <2>1, <2>2
<1>7. CASE CheckDecision(p)
  <2>1. review[p].at = "decided"
    BY <1>7 DEF CheckDecision
  <2>2. PICK q, d : q \in requests /\ review[p] = [at |-> "decided", request |-> q, decision |-> d]
    BY <1>6, <2>1
  <2>3. PICK x : x = IF q \in DOMAIN decisions THEN Idle
                     ELSE [at |-> "writing", request |-> q, decision |-> d]
    OBVIOUS
  <2>4. review' = [review EXCEPT ![p] = x]
    <3>1. /\ review[p].request = q
          /\ [review[p] EXCEPT !.at = "writing"] = [at |-> "writing", request |-> q, decision |-> d]
      BY <2>2
    <3> QED
      BY <1>7, <2>3, <3>1 DEF CheckDecision
  <2>5. Underway(x)
    BY <2>2, <2>3 DEF Underway
  <2> QED
    BY <1>1, <1>7, <2>4, <2>5, ReviewingOnly
<1>8. CASE WriteDecision(p)
  <2>1. PICK q, d, w : WriteDecisionOf(p, q, d, w)
    BY <1>8, DecisionIsWritten
  <2>2. review[p].at = "writing" /\ q \in requests
    BY <1>6, <1>8, <2>1 DEF WriteDecision, WriteDecisionOf
  <2>3. /\ DOMAIN decisions' = DOMAIN decisions \cup {q} /\ decisions'[q] = d
        /\ \A r \in DOMAIN decisions \ {q} : decisions'[r] = decisions[r]
        /\ written' = written \cup {w} /\ w.request = q /\ w.decision = d
        /\ UNCHANGED certificates
    BY <2>1 DEF WriteDecisionOf
  <2>4. RegistryInv'
    BY <1>1, <2>2, <2>3 DEF CertInv, RegistryInv, IsFile, OnFile
  <2>5. WasWritten(q, d)' /\ \A r, e : WasWritten(r, e) => WasWritten(r, e)'
    BY <2>3 DEF WasWritten
  <2>6. BackedInv'
    <3>1. \A r \in DOMAIN decisions' : WasWritten(r, decisions[r])'
      <4> SUFFICES ASSUME NEW r \in DOMAIN decisions' PROVE WasWritten(r, decisions[r])'
        OBVIOUS
      <4>1. PICK e : e = decisions'[r]
        OBVIOUS
      <4>2. CASE r = q
        BY <2>3, <2>5, <4>1, <4>2
      <4>3. CASE r # q
        <5>1. r \in DOMAIN decisions /\ e = decisions[r]
          BY <2>3, <4>1, <4>3
        <5>2. WasWritten(r, e)
          BY <5>1 DEF CertInv, BackedInv
        <5> QED
          BY <2>5, <4>1, <5>2
      <4> QED
        BY <4>2, <4>3
    <3>2. \A c : Backed(RequestOf(c)) => Backed(RequestOf(c))'
      BY <1>1, <2>3 DEF Backed, Permits, RequestOf
    <3> QED
      BY <2>3, <3>1, <3>2 DEF CertInv, BackedInv
  <2>7. PICK x : x = IF d.verdict = "APPROVED" /\ ~IsRelation(q.claim)
                     THEN [at |-> "approved", request |-> q, decision |-> d] ELSE Idle
    OBVIOUS
  <2>8. review' = [review EXCEPT ![p] = x]
    BY <2>1, <2>7 DEF WriteDecisionOf
  <2>9. Underway(x)'
    BY <1>1, <1>3, <2>2, <2>3, <2>5, <2>7 DEF Underway
  <2>10. \A r \in Reviewers \ {p} : \A t \in DOMAIN decisions' :
             Writing(r, t) => t \in DOMAIN decisions \/ Contested(t)'
    BY <2>1, <2>3 DEF Contested, WriteDecisionOf
  <2>11. requests \subseteq requests' /\ DOMAIN decisions \subseteq DOMAIN decisions'
         /\ written \subseteq written'
    BY <1>1, <2>3
  <2>12. ReviewInv'
    BY <2>8, <2>9, <2>10, <2>11, OneReviewMoves DEF CertInv
  <2> QED
    BY <1>2, <2>4, <2>6, <2>12 DEF CertInv
<1>9. CASE Issue(p)
  <2>1. review[p].at = "approved"
    BY <1>9 DEF Issue
  <2>2. PICK q, d :
          /\ q \in requests
          /\ review[p].request = q /\ review[p].decision = d
          /\ q \in DOMAIN decisions /\ WasWritten(q, d) /\ ~IsRelation(q.claim)
    BY <1>6, <2>1
  <2>3. /\ certificates' = IF SupportsIssuance(evidence[q.snapshot], d)
                           THEN certificates \cup {Certificate(q)} ELSE certificates
        /\ review' = [review EXCEPT ![p] = Idle] /\ UNCHANGED <<decisions, written>>
    BY <1>9, <2>2 DEF Issue
  <2>4. RequestOf(Certificate(q)) = q
    BY <2>2 DEF CertInv, RegistryInv, RequestOf, Certificate
  <2>5. BackedInv'
    <3>1. SupportsIssuance(evidence[q.snapshot], d) => Backed(RequestOf(Certificate(q)))
      BY <2>2, <2>4 DEF Backed, Permits, WasWritten
    <3>2. \A c \in certificates' : Backed(RequestOf(c))
      BY <2>3, <3>1 DEF CertInv, BackedInv
    <3> QED
      BY <1>1, <2>3, <3>2 DEF CertInv, BackedInv, Backed, Permits, WasWritten, RequestOf
  <2>6. RegistryInv'
    BY <1>1, <2>3 DEF CertInv, RegistryInv, IsFile, OnFile
  <2>7. ReviewInv'
    BY <1>1, <1>3, <2>3, OneReviewMoves DEF CertInv
  <2> QED
    BY <1>2, <2>5, <2>6, <2>7 DEF CertInv
<1> QED
  BY <1>4, <1>5, <1>7, <1>8, <1>9

LEMMA IssueRelationStep == CertInv /\ IssueRelation => CertInv'
<1> SUFFICES ASSUME CertInv, IssueRelation PROVE CertInv'
  OBVIOUS
<1>1. PICK q \in DOMAIN decisions :
        /\ IsRelation(q.claim) /\ SupportsRelation(evidence[q.snapshot], q.claim, decisions[q])
        /\ certificates' = certificates \cup {Certificate(q)}
        /\ UNCHANGED <<evidence, requests, decisions, written, review, capture>>
  BY DEF IssueRelation, ReviewOnly
<1>2. RequestOf(Certificate(q)) = q
  BY DEF CertInv, RegistryInv, RequestOf, Certificate
<1>3. BackedInv'
  <2>1. Backed(RequestOf(Certificate(q)))
    BY <1>1, <1>2 DEF CertInv, BackedInv, Backed, Permits, WasWritten
  <2>2. \A c \in certificates' : Backed(RequestOf(c))
    BY <1>1, <2>1 DEF CertInv, BackedInv
  <2> QED
    BY <1>1, <2>2 DEF CertInv, BackedInv, Backed, Permits, WasWritten, RequestOf
<1>4. RegistryInv' /\ CaptureInv'
  BY <1>1 DEF CertInv, RegistryInv, CaptureInv, IsFile, OnFile
<1>5. ReviewInv'
  BY <1>1 DEF CertInv, ReviewInv, Underway, WasWritten, Contested
<1> QED
  BY <1>3, <1>4, <1>5 DEF CertInv

LEMMA CertInvStep == CertInv /\ [Next]_vars => CertInv'
<1> SUFFICES ASSUME CertInv, [Next]_vars PROVE CertInv'
  OBVIOUS
<1>1. CASE Amend \/ UNCHANGED vars
  <2>1. UNCHANGED <<registryVars, review, capture>>
    BY <1>1 DEF Amend, vars
  <2> QED
    BY <2>1, CaptureReads DEF CertInv, CaptureInv, registryVars, OnFile
<1> QED
  BY <1>1, CaptureSteps, StoreSteps, ReviewSteps, IssueRelationStep DEF Next, CaptureStep

-----------------------------------------------------------------------------
(* The theorems.  *)

\* Every certificate has on file the evidence it speaks of, the request made
\* from it and a decision, and a decision that permits it was written, by any
\* number of reviewers (issue_certificate, issue_relation_certificate,
\* store_decision).
THEOREM EveryCertificateIsBacked == Spec => []CertificatesAreBacked
<1>1. CertInv => CertificatesAreBacked
  BY DEF CertInv, BackedInv, Backed, RegistryInv, RequestOf, CertificatesAreBacked
<1> QED
  BY <1>1, CertInvInit, CertInvStep, PTL DEF Spec

\* A step that takes nothing from the registries and replaces only what was
\* contested.
OnlyTheContested ==
    /\ NothingIsLost
    /\ \A q \in DOMAIN decisions : decisions'[q] # decisions[q] => Contested(q)

\* A step that leaves the registries alone is one.
LEMMA UntouchedAdds == CertInv /\ UNCHANGED registryVars => OnlyTheContested
<1> SUFFICES ASSUME CertInv, UNCHANGED registryVars PROVE OnlyTheContested
  OBVIOUS
<1>1. UNCHANGED <<evidence, requests, decisions, certificates>>
  BY DEF registryVars
<1>2. SubSeq(evidence, 1, Len(evidence)) = evidence
  BY FullSubSeq DEF CertInv, RegistryInv, IsFile
<1> QED
  BY <1>1, <1>2 DEF OnlyTheContested, NothingIsLost

LEMMA EveryStepAdds == CertInv /\ [Next]_vars => [OnlyTheContested]_vars
<1> SUFFICES ASSUME CertInv, [Next]_vars PROVE OnlyTheContested
  OBVIOUS
<1>1. ASSUME UNCHANGED <<requests, decisions, certificates>>, NEW next, Stored(next)
      PROVE  OnlyTheContested
  <2>1. PICK S : evidence \in Seq(S)
    BY DEF CertInv, RegistryInv, IsFile
  <2>2. evidence' = Append(evidence, capture.bundle)
    BY <1>1 DEF Stored
  <2> QED
    BY <1>1, <2>1, <2>2, StoringAppends DEF OnlyTheContested, NothingIsLost
<1>2. ASSUME UNCHANGED evidence, requests \subseteq requests', certificates \subseteq certificates',
             \A q \in DOMAIN decisions :
                 q \in DOMAIN decisions' /\ (decisions'[q] # decisions[q] => Contested(q))
      PROVE  OnlyTheContested
  <2>1. SubSeq(evidence, 1, Len(evidence)) = evidence
    BY FullSubSeq DEF CertInv, RegistryInv, IsFile
  <2> QED
    BY <1>2, <2>1 DEF OnlyTheContested, NothingIsLost
<1>3. CASE Amend \/ UNCHANGED vars
  BY <1>3, UntouchedAdds DEF Amend, vars
<1>4. CASE CaptureStep
  BY <1>4, UntouchedAdds
     DEF CaptureStep, CertificatesRequest, CertificatesValidate, ScanBinaryComplement,
         RelationsRequest, DiscoverRelations, Evaluate, StartSettlement, StartRelation, Start,
         ReadMarket, ReadEvent, ReadDocument, ReadSource, ReadRelationEvent, ReadMember,
         ReadRelationDocument, ReadListing, CaptureOnly, CrashCapture,
         Scan, Validate, Discover, EvaluateBoth, Found
<1>5. CASE StoreEvidence \/ StoreRelationEvidence
  <2>1. \E next : Stored(next)
    BY <1>5 DEF StoreEvidence, StoreRelationEvidence
  <2>2. UNCHANGED <<requests, decisions, certificates>>
    BY <2>1 DEF Stored
  <2> QED
    BY <1>1, <2>1, <2>2
<1>6. CASE StoreRequest \/ StoreRelationRequest
  <2>1. \E next : Requested(next)
    BY <1>6 DEF StoreRequest, StoreRelationRequest
  <2> QED
    BY <1>2, <2>1 DEF Requested
<1>7. ASSUME NEW p \in Reviewers,
             \/ Decide(p) \/ DecideRelation(p) \/ CheckDecision(p)
             \/ WriteDecision(p) \/ Issue(p) \/ CrashReview(p)
      PROVE  OnlyTheContested
  <2>1. CASE Decide(p) \/ DecideRelation(p) \/ CheckDecision(p) \/ CrashReview(p)
    BY <2>1, UntouchedAdds DEF Decide, DecideRelation, Reviewed, CheckDecision, CrashReview
  <2>2. CASE Issue(p)
    <3>1. certificates \subseteq certificates' /\ UNCHANGED <<evidence, requests, decisions>>
      BY <2>2 DEF Issue
    <3> QED
      BY <1>2, <3>1
  <2>3. CASE WriteDecision(p)
    <3>1. PICK q, d, w : WriteDecisionOf(p, q, d, w)
      BY <2>3, DecisionIsWritten
    <3> QED
      BY <1>2, <3>1 DEF WriteDecisionOf
  <2> QED
    BY <1>7, <2>1, <2>2, <2>3
<1>8. CASE IssueRelation
  BY <1>2, <1>8 DEF IssueRelation
<1> QED
  BY <1>3, <1>4, <1>5, <1>6, <1>7, <1>8 DEF Next, CaptureStep

\* Nothing is ever taken from the registries, and the one record that may be
\* replaced is a decision written while another review of its request stood
\* between its check and its write, however many reviewers there are.
THEOREM RecordsStay == Spec => RecordsAreKept
<1>1. [OnlyTheContested]_vars =>
          [/\ NothingIsLost
           /\ \A q \in DOMAIN decisions : decisions'[q] # decisions[q] =>
                  \E w \in written : w.request = q /\ w.contested]_vars
  BY DEF OnlyTheContested, Contested
<1> QED
  BY <1>1, CertInvInit, CertInvStep, EveryStepAdds, PTL DEF Spec, RecordsAreKept

-----------------------------------------------------------------------------
(* What an active certificate means.  *)

SettlementSteps ==
    {"market", "event", "documents", "sources", "validate", "store", "request", "scan"}
RelationSteps ==
    {"relation event", "members", "relation documents", "listing", "store relation",
     "relation request", "discover", "evaluate"}

SettlementClaims == {"STANDARD_BINARY_COMPLEMENT"}

\* What a settlement capture holds: every governing source, read or not.
HoldsSources(b) == "sources" \in DOMAIN b /\ DOMAIN b.sources = Sources

\* A claim and the evidence it is about.
Fits(claim, b) ==
    /\ claim \in SettlementClaims \cup RelationClaims
    /\ ~IsRelation(claim) => HoldsSources(b)

ChecklistFor(claim) == IF IsRelation(claim) THEN ChecklistForClaim(claim) ELSE SettlementChecklist

\* Safe answers are given to what was read.
Honest(q, d) ==
    d.safe => Admitted(ReadTexts(q.claim, evidence[q.snapshot], d.acknowledged))
                \cap ChecklistFor(q.claim) = {}

CapturesInv ==
    /\ captures \in Seq(Jobs)
    /\ capture.next # "idle" =>
         /\ DOMAIN capture = {"job", "at", "snapshot", "next", "left", "bundle"}
         /\ \/ capture.next \in SettlementSteps
               /\ capture.job.claim \in {""} \cup SettlementClaims
               /\ HoldsSources(capture.bundle)
            \/ capture.next \in RelationSteps
               /\ capture.job.claim \in {""} \cup RelationClaims
    /\ capture.next \in {"request", "relation request"} =>
         /\ capture.job.claim # ""
         /\ OnFile(capture.snapshot) /\ evidence[capture.snapshot] = capture.bundle

FilesInv ==
    /\ IsFile
    /\ \A q \in requests :
         /\ q = [snapshot |-> q.snapshot, claim |-> q.claim]
         /\ OnFile(q.snapshot) /\ Fits(q.claim, evidence[q.snapshot])
    /\ \A q \in DOMAIN decisions : q \in requests /\ Honest(q, decisions[q])

\* A review is of a request on file, and its decision is honest.
ReviewsInv ==
    /\ review = [p \in Reviewers |-> review[p]]
    /\ \A p \in Reviewers :
         \/ review[p] = Idle
         \/ \E at \in {"decided", "writing", "approved"}, q \in requests : \E d :
              /\ review[p] = [at |-> at, request |-> q, decision |-> d] /\ Honest(q, d)
              /\ at = "approved" => ~IsRelation(q.claim)

\* What a certificate says holds of the evidence it was reviewed from.
TrueOfItsEvidence(c) ==
    /\ RequestOf(c) \in requests
    /\ Holds(c.claim, GoverningTexts(c.claim, evidence[c.snapshot]))

\* What a scan was told.
VerdictInv ==
    verdict.asked =>
        /\ verdict.active \subseteq certificates
        /\ \A c \in verdict.active :
             GoverningTexts(c.claim, verdict.bundle) = GoverningTexts(c.claim, evidence[c.snapshot])
        /\ verdict.exactlyOne =>
             \A claim \in RelationClaims : \E c \in verdict.active : c.claim = claim

TruthInv ==
    CapturesInv /\ FilesInv /\ ReviewsInv /\ (\A c \in certificates : TrueOfItsEvidence(c)) /\ VerdictInv

-----------------------------------------------------------------------------
(* Evidence.  *)

\* A dependency is of the content of the source it cites.
LEMMA DependenciesNameContent ==
    ASSUME NEW b, NEW d \in AllDependencies(b)
    PROVE  d.sha = b.sources[d.source].sha /\ d.retrieval = b.sources[d.source].retrieval
<1>1. PICK p \in Parents(b) : d \in DependencySet(b, p).dependencies
  BY DEF AllDependencies
<1>2. \A parent, sentences : \A e \in Dependencies(parent, sentences, b) :
          e.sha = b.sources[e.source].sha /\ e.retrieval = b.sources[e.source].retrieval
  BY DEF Dependencies, Dependency
<1>3. NotApplicable.dependencies = {} /\ Unknown.dependencies = {}
      /\ \A ds : Enumerated(ds).dependencies = ds
  BY DEF NotApplicable, Unknown, Enumerated
<1>4. CASE DependencySet(b, p) = RulesDependencies(p, b.rules, b)
  BY <1>1, <1>2, <1>3, <1>4 DEF RulesDependencies
<1>5. ASSUME NEW doc, DependencySet(b, p) = DocumentDependencies(p, doc, b)
      PROVE  d.sha = b.sources[d.source].sha /\ d.retrieval = b.sources[d.source].retrieval
  <2>1. \/ DependencySet(b, p) = NotApplicable \/ DependencySet(b, p) = Unknown
        \/ DependencySet(b, p) = Enumerated(Dependencies(p, Text(p, doc.sha).sentences, b))
    BY <1>5 DEF DocumentDependencies
  <2> QED
    BY <1>1, <1>2, <1>3, <2>1
<1>6. \/ DependencySet(b, p) = RulesDependencies(p, b.rules, b)
      \/ DependencySet(b, p) = DocumentDependencies(p, b.documents[p], b)
      \/ DependencySet(b, p) = DocumentDependencies(p, b.sources[p], b)
  BY DEF DependencySet, Parents
<1> QED
  BY <1>4, <1>5, <1>6

\* A certificate that applies speaks of the texts read now.
LEMMA AppliesMeansSameTexts ==
    ASSUME NEW b, NEW now, HoldsSources(b), HoldsSources(now), Applies(b, now),
           NEW claim, ~IsRelation(claim)
    PROVE  GoverningTexts(claim, now) = GoverningTexts(claim, b)
<1>1. /\ b.market = now.market /\ b.rules = now.rules /\ b.event = now.event
      /\ b.documents = now.documents /\ AllDependencies(b) = AllDependencies(now)
  BY DEF Applies, Fingerprint
<1>2. CitedSources(b) = CitedSources(now)
  BY <1>1 DEF CitedSources
<1>3. ASSUME NEW n \in CitedSources(b)
      PROVE  b.sources[n].sha = now.sources[n].sha /\ b.sources[n].retrieval = now.sources[n].retrieval
  <2>1. PICK d \in AllDependencies(b) : d.source = n
    BY DEF CitedSources
  <2> QED
    BY <1>1, <2>1, DependenciesNameContent
<1>4. ASSUME NEW t
      PROVE  t \in Texts(b.sources) /\ t[1] \in CitedSources(b)
                <=> t \in Texts(now.sources) /\ t[1] \in CitedSources(now)
  BY <1>2, <1>3 DEF Texts, IsUsable, HoldsSources
<1>5. {t \in Texts(b.sources) : t[1] \in CitedSources(b)}
        = {t \in Texts(now.sources) : t[1] \in CitedSources(now)}
  BY <1>4
<1> QED
  BY <1>1, <1>5 DEF GoverningTexts

LEMMA RelationAppliesMeansSameTexts ==
    ASSUME NEW r, NEW now, RelationApplies(r, now), NEW claim, IsRelation(claim)
    PROVE  GoverningTexts(claim, now) = GoverningTexts(claim, r)
<1>1. /\ r.basis = now.basis /\ r.event = now.event /\ r.members = now.members
      /\ r.documents = now.documents
      /\ (IF ReliesOnPartition(r) THEN r.listing ELSE 0)
           = (IF ReliesOnPartition(now) THEN now.listing ELSE 0)
  BY DEF RelationApplies, RelationFingerprint
<1>2. ReliesOnPartition(r) <=> ReliesOnPartition(now)
  BY <1>1 DEF ReliesOnPartition
<1>3. ReliesOnPartition(r) => r.listing = now.listing
  BY <1>1, <1>2
<1> QED
  BY <1>1, <1>2, <1>3 DEF GoverningTexts

\* An honest decision that permits a certificate speaks the truth: whoever
\* acknowledges every document that asks for it has read all of them.
LEMMA PermittedIsTrue ==
    ASSUME NEW q, NEW d, Honest(q, d), q.claim \in SettlementClaims \cup RelationClaims,
           IF IsRelation(q.claim) THEN SupportsRelation(evidence[q.snapshot], q.claim, d)
           ELSE SupportsIssuance(evidence[q.snapshot], d)
    PROVE  Holds(q.claim, GoverningTexts(q.claim, evidence[q.snapshot]))
<1> DEFINE b == evidence[q.snapshot]
           Unread == (ManualDocuments(b) \cup ManualSources(b)) \ d.acknowledged
<1>1. d.safe /\ (~IsRelation(q.claim) => Unread = {})
  BY DEF SupportsRelation, SupportsIssuance
<1>2. ReadTexts(q.claim, b, d.acknowledged) = GoverningTexts(q.claim, b)
  BY <1>1 DEF ReadTexts
<1>3. Forbidden(q.claim) \subseteq ChecklistFor(q.claim)
  BY DEF Forbidden, ChecklistFor, ChecklistForClaim, AtMostOneChecklist, AtLeastOneChecklist,
         SettlementChecklist, SettlementClaims, RelationClaims, IsRelation
<1> QED
  BY <1>1, <1>2, <1>3 DEF Honest, Holds

-----------------------------------------------------------------------------
(* The invariant.  *)

LEMMA TruthInvInit == Init => TruthInv
<1> SUFFICES ASSUME Init PROVE TruthInv
  OBVIOUS
<1>1. /\ evidence = <<>> /\ requests = {} /\ decisions = <<>> /\ certificates = {}
      /\ capture.next = "idle" /\ captures \in Campaigns
      /\ review = [p \in Reviewers |-> Idle] /\ verdict.asked = FALSE
  BY DEF Init, NoCapture, NoVerdict
<1>2. CapturesInv
  BY <1>1, CertificationAssumption DEF CapturesInv
<1>3. FilesInv
  <2>1. <<>> \in Seq({}) /\ DOMAIN <<>> = {}
    OBVIOUS
  <2> QED
    BY <1>1, <2>1 DEF FilesInv, IsFile
<1>4. ReviewsInv /\ VerdictInv
  BY <1>1 DEF ReviewsInv, VerdictInv
<1> QED
  BY <1>1, <1>2, <1>3, <1>4 DEF TruthInv

\* Nothing is taken from the files.
FilesGrow ==
    /\ \A i \in DOMAIN evidence : i \in DOMAIN evidence' /\ evidence'[i] = evidence[i]
    /\ requests \subseteq requests'

LEMMA FilesKeepTheirMeaning ==
    ASSUME FilesInv, FilesGrow
    PROVE  /\ \A q \in requests : \A d : Honest(q, d) => Honest(q, d)'
           /\ \A q \in requests : OnFile(q.snapshot)' /\ Fits(q.claim, evidence'[q.snapshot])
           /\ \A c \in certificates : TrueOfItsEvidence(c) => TrueOfItsEvidence(c)'
           /\ \A c \in certificates : TrueOfItsEvidence(c) => evidence'[c.snapshot] = evidence[c.snapshot]
<1>1. \A q \in requests : OnFile(q.snapshot) /\ OnFile(q.snapshot)'
                          /\ evidence'[q.snapshot] = evidence[q.snapshot]
  BY DEF FilesInv, FilesGrow, OnFile
<1>2. \A q \in requests : \A d : Honest(q, d) => Honest(q, d)'
  BY <1>1 DEF Honest
<1>3. ASSUME NEW c \in certificates, TrueOfItsEvidence(c)
      PROVE  evidence'[c.snapshot] = evidence[c.snapshot] /\ TrueOfItsEvidence(c)'
  <2>1. RequestOf(c) \in requests /\ RequestOf(c).snapshot = c.snapshot
    BY <1>3 DEF TrueOfItsEvidence, RequestOf
  <2>2. evidence'[c.snapshot] = evidence[c.snapshot]
    BY <1>1, <2>1
  <2> QED
    BY <1>3, <2>1, <2>2 DEF TrueOfItsEvidence, FilesGrow
<1> QED
  BY <1>1, <1>2, <1>3 DEF FilesInv

LEMMA ReviewsStay ==
    ASSUME TruthInv, FilesGrow, UNCHANGED review PROVE ReviewsInv'
<1>1. \A q \in requests : q \in requests' /\ \A d : Honest(q, d) => Honest(q, d)'
  BY FilesKeepTheirMeaning DEF TruthInv, FilesGrow
<1>2. ASSUME NEW p \in Reviewers, review[p] # Idle
      PROVE  \E at \in {"decided", "writing", "approved"}, q \in requests' : \E d :
               /\ review[p] = [at |-> at, request |-> q, decision |-> d] /\ Honest(q, d)'
               /\ at = "approved" => ~IsRelation(q.claim)
  <2>1. PICK at, q, d :
               /\ at \in {"decided", "writing", "approved"} /\ q \in requests
               /\ review[p] = [at |-> at, request |-> q, decision |-> d] /\ Honest(q, d)
               /\ at = "approved" => ~IsRelation(q.claim)
    BY <1>2 DEF TruthInv, ReviewsInv
  <2> QED
    BY <1>1, <2>1
<1> QED
  BY <1>2 DEF TruthInv, ReviewsInv

LEMMA VerdictStays ==
    ASSUME TruthInv, FilesGrow, certificates \subseteq certificates', UNCHANGED verdict
    PROVE  VerdictInv'
<1>1. ASSUME verdict.asked, NEW c \in verdict.active
      PROVE  evidence'[c.snapshot] = evidence[c.snapshot]
  BY <1>1, FilesKeepTheirMeaning DEF TruthInv, VerdictInv
<1> QED
  BY <1>1 DEF TruthInv, VerdictInv

\* A step that only reads the registries.
LEMMA ReadingKeepsTruth ==
    ASSUME TruthInv, UNCHANGED <<registryVars, review>>, CapturesInv', VerdictInv'
    PROVE  TruthInv'
<1>1. UNCHANGED <<evidence, requests, decisions, certificates, review>>
  BY DEF registryVars
<1>2. FilesGrow
  BY <1>1 DEF FilesGrow
<1>3. FilesInv'
  BY <1>1 DEF TruthInv, FilesInv, IsFile, OnFile, Honest
<1>4. \A c \in certificates' : TrueOfItsEvidence(c)'
  BY <1>1 DEF TruthInv, TrueOfItsEvidence
<1>5. ReviewsInv'
  BY <1>1, <1>2, ReviewsStay
<1> QED
  BY <1>3, <1>4, <1>5 DEF TruthInv

-----------------------------------------------------------------------------
(* The captures.  *)

\* A read puts what it read into the bundle and goes on.
LEMMA ContinuingFits ==
    ASSUME CapturesInv, UNCHANGED <<captures, evidence>>, NEW step, NEW bundle,
           Continue(step, bundle) \/ ContinueItems(step, bundle),
           {capture.next, step} \cap {"idle", "request", "relation request"} = {},
           \/ capture.next \in SettlementSteps /\ step \in SettlementSteps
              /\ (HoldsSources(capture.bundle) => HoldsSources(bundle))
           \/ capture.next \in RelationSteps /\ step \in RelationSteps
    PROVE  CapturesInv'
<1>1. DOMAIN capture = {"job", "at", "snapshot", "next", "left", "bundle"}
  BY DEF CapturesInv
<1>2. /\ DOMAIN capture' = DOMAIN capture /\ capture'.next \in {step, capture.next}
      /\ capture'.bundle = bundle /\ capture'.job = capture.job
  BY <1>1 DEF Continue, ContinueItems, Go
<1>3. SettlementSteps \cap RelationSteps = {}
  BY DEF SettlementSteps, RelationSteps
<1> QED
  BY <1>1, <1>2, <1>3 DEF CapturesInv

LEMMA EndingFits ==
    ASSUME CapturesInv, UNCHANGED captures, capture' = NoCapture PROVE CapturesInv'
BY DEF CapturesInv, NoCapture

LEMMA StartingFits ==
    ASSUME CapturesInv, NEW next, NEW bundle, Start(next, bundle), captures # <<>>,
           \/ Head(captures).command \in SettlementCommands /\ next = "market" /\ HoldsSources(bundle)
           \/ Head(captures).command \in RelationCommands /\ next = "relation event"
    PROVE  CapturesInv'
<1>1. captures \in Seq(Jobs)
  BY DEF CapturesInv
<1>2. Head(captures) \in Jobs /\ Tail(captures) \in Seq(Jobs)
  BY <1>1, HeadTailProperties
<1>3. PICK job : job = Head(captures)
  OBVIOUS
<1>4. /\ job \in Jobs
      /\ job.command \in SettlementCommands => job.claim \in {""} \cup SettlementClaims
      /\ job.command \in RelationCommands => job.claim \in {""} \cup RelationClaims
  BY <1>2, <1>3 DEF Jobs, SettlementCommands, RelationCommands, SettlementClaims
<1>5. /\ captures' = Tail(captures)
      /\ DOMAIN capture' = {"job", "at", "snapshot", "next", "left", "bundle"}
      /\ capture'.job = job /\ capture'.next = next /\ capture'.bundle = bundle
  BY <1>3 DEF Start
<1> QED
  BY <1>2, <1>3, <1>4, <1>5 DEF CapturesInv, SettlementSteps, RelationSteps

LEMMA NewBundleHoldsSources == \A m : HoldsSources(NewBundle(m))
BY DEF HoldsSources, NewBundle, NoSources

\* Another field of the bundle is written.
LEMMA OtherFieldsKeepSources ==
    ASSUME NEW b, HoldsSources(b), NEW v, NEW w
    PROVE  /\ HoldsSources([b EXCEPT !.rules = v]) /\ HoldsSources([b EXCEPT !.event = v])
           /\ HoldsSources([b EXCEPT !.event = v, !.series = w])
           /\ HoldsSources([b EXCEPT !.documents = v])
           /\ HoldsSources([b EXCEPT !.documents[v] = w]) /\ HoldsSources([b EXCEPT !.sources[v] = w])
BY DEF HoldsSources

\* Commands start, read and are killed without writing or concluding.
ReadingStep ==
    \/ CertificatesRequest \/ CertificatesValidate \/ ScanBinaryComplement
    \/ RelationsRequest \/ DiscoverRelations \/ Evaluate
    \/ ReadMarket \/ ReadEvent \/ ReadDocument \/ ReadSource
    \/ ReadRelationEvent \/ ReadMember \/ ReadRelationDocument \/ ReadListing
    \/ CrashCapture

LEMMA ReadingSteps ==
    ASSUME CapturesInv, ReadingStep
    PROVE  CapturesInv' /\ UNCHANGED <<registryVars, review, verdict>>
<1>1. UNCHANGED <<registryVars, review, verdict>>
  BY DEF ReadingStep, CertificatesRequest, CertificatesValidate, ScanBinaryComplement,
         RelationsRequest, DiscoverRelations, Evaluate, StartSettlement, StartRelation, Start,
         ReadMarket, ReadEvent, ReadDocument, ReadSource, ReadRelationEvent, ReadMember,
         ReadRelationDocument, ReadListing, CaptureOnly, CrashCapture
<1>2. evidence' = evidence
  BY <1>1 DEF registryVars
<1> SUFFICES CapturesInv'
  BY <1>1
<1>3. CASE CertificatesRequest \/ ScanBinaryComplement
  BY <1>3, StartingFits, NewBundleHoldsSources
     DEF CertificatesRequest, ScanBinaryComplement, StartSettlement, Commanded, SettlementCommands
<1>4. CASE RelationsRequest \/ DiscoverRelations \/ Evaluate
  BY <1>4, StartingFits
     DEF RelationsRequest, DiscoverRelations, Evaluate, StartRelation, Commanded, RelationCommands
<1>5. CASE CertificatesValidate
  <2>1. Commanded("certificates validate")
    BY <1>5 DEF CertificatesValidate
  <2>2. CASE StartSettlement
    BY <2>1, <2>2, StartingFits, NewBundleHoldsSources DEF StartSettlement, Commanded, SettlementCommands
  <2>3. CASE captures' = Tail(captures) /\ UNCHANGED capture
    <3>1. captures' \in Seq(Jobs)
      BY <2>1, <2>3, HeadTailProperties DEF CapturesInv, Commanded
    <3> QED
      BY <2>3, <3>1, <1>2 DEF CapturesInv, OnFile
  <2> QED
    BY <1>5, <2>2, <2>3 DEF CertificatesValidate
<1>6. ASSUME CaptureOnly PROVE UNCHANGED <<captures, evidence>>
  BY <1>6 DEF CaptureOnly, registryVars
<1>7. CASE ReadMarket
  <2>1. capture.next = "market" /\ UNCHANGED <<captures, evidence>>
    BY <1>6, <1>7 DEF ReadMarket, Capturing
  <2>2. CASE capture' = NoCapture
    BY <2>1, <2>2, EndingFits
  <2>3. CASE Continue("event", [capture.bundle EXCEPT !.rules = terms[capture.job.market]])
    <3>1. PICK bundle : bundle = [capture.bundle EXCEPT !.rules = terms[capture.job.market]]
      OBVIOUS
    <3>2. Continue("event", bundle) /\ (HoldsSources(capture.bundle) => HoldsSources(bundle))
      BY <2>3, <3>1, OtherFieldsKeepSources
    <3> QED
      BY <2>1, <3>2, ContinuingFits DEF SettlementSteps
  <2> QED
    BY <1>7, <2>2, <2>3 DEF ReadMarket
<1>8. CASE ReadEvent
  <2>1. capture.next = "event" /\ UNCHANGED <<captures, evidence>>
    BY <1>6, <1>8 DEF ReadEvent, Capturing
  <2>2. PICK bundle : /\ Continue("documents", bundle)
                      /\ HoldsSources(capture.bundle) => HoldsSources(bundle)
    BY <1>8, OtherFieldsKeepSources DEF ReadEvent
  <2> QED
    BY <2>1, <2>2, ContinuingFits DEF SettlementSteps
<1>9. ASSUME NEW step, FetchDocument(step)
      PROVE  \E bundle : /\ Continue(step, bundle) \/ ContinueItems(step, bundle)
                         /\ HoldsSources(capture.bundle) => HoldsSources(bundle)
  BY <1>9, OtherFieldsKeepSources DEF FetchDocument
<1>10. CASE ReadDocument
  <2>1. capture.next = "documents" /\ UNCHANGED <<captures, evidence>>
    BY <1>6, <1>10 DEF ReadDocument, Capturing
  <2>2. PICK bundle : /\ Continue("sources", bundle) \/ ContinueItems("sources", bundle)
                      /\ HoldsSources(capture.bundle) => HoldsSources(bundle)
    BY <1>9, <1>10 DEF ReadDocument
  <2> QED
    BY <2>1, <2>2, ContinuingFits DEF SettlementSteps
<1>11. CASE ReadRelationDocument
  <2>1. capture.next = "relation documents" /\ UNCHANGED <<captures, evidence>>
    BY <1>6, <1>11 DEF ReadRelationDocument, Capturing
  <2>2. PICK bundle : Continue("listing", bundle) \/ ContinueItems("listing", bundle)
    BY <1>9, <1>11 DEF ReadRelationDocument
  <2> QED
    BY <2>1, <2>2, ContinuingFits DEF RelationSteps
<1>12. CASE ReadSource
  <2>1. capture.next = "sources" /\ UNCHANGED <<captures, evidence>>
    BY <1>6, <1>12 DEF ReadSource, Capturing
  <2>2. AfterSources \in {"validate", "store"}
    BY DEF AfterSources
  <2>3. PICK bundle : /\ Continue(AfterSources, bundle) \/ ContinueItems(AfterSources, bundle)
                      /\ HoldsSources(capture.bundle) => HoldsSources(bundle)
    BY <1>12, OtherFieldsKeepSources DEF ReadSource
  <2> QED
    BY <2>1, <2>2, <2>3, ContinuingFits DEF SettlementSteps
<1>13. CASE ReadRelationEvent
  <2>1. capture.next = "relation event" /\ UNCHANGED <<captures, evidence>>
    BY <1>6, <1>13 DEF ReadRelationEvent, Capturing
  <2>2. capture' = NoCapture \/ \E bundle : Continue("members", bundle)
    BY <1>13 DEF ReadRelationEvent
  <2> QED
    BY <2>1, <2>2, EndingFits, ContinuingFits DEF RelationSteps
<1>14. CASE ReadMember
  <2>1. capture.next = "members" /\ UNCHANGED <<captures, evidence>>
    BY <1>6, <1>14 DEF ReadMember, Capturing
  <2>2. PICK bundle : ContinueItems("relation documents", bundle)
    BY <1>14 DEF ReadMember
  <2> QED
    BY <2>1, <2>2, ContinuingFits DEF RelationSteps
<1>15. CASE ReadListing
  <2>1. capture.next = "listing" /\ UNCHANGED <<captures, evidence>>
    BY <1>6, <1>15 DEF ReadListing, Capturing
  <2>2. \E bundle : Continue("store relation", bundle)
    BY <1>15 DEF ReadListing
  <2> QED
    BY <2>1, <2>2, ContinuingFits DEF RelationSteps
<1>16. CASE CrashCapture
  BY <1>16, EndingFits DEF CrashCapture
<1> QED
  BY <1>3, <1>4, <1>5, <1>7, <1>8, <1>10, <1>11, <1>12, <1>13, <1>14, <1>15, <1>16
     DEF ReadingStep

-----------------------------------------------------------------------------
(* The conclusions.  *)

\* What a scan is told applies to what it has read.
LEMMA ConclusionHolds ==
    ASSUME TruthInv, NEW b, NEW active \in SUBSET certificates, NEW exactlyOne,
           \A c \in active : IF IsRelation(c.claim) THEN RelationApplies(evidence[c.snapshot], b)
                             ELSE HoldsSources(b) /\ Applies(evidence[c.snapshot], b),
           exactlyOne => \A claim \in RelationClaims : \E c \in active : c.claim = claim,
           verdict' = [asked |-> TRUE, bundle |-> b, active |-> active, exactlyOne |-> exactlyOne],
           UNCHANGED registryVars
    PROVE  VerdictInv'
<1>1. ASSUME NEW c \in active
      PROVE  GoverningTexts(c.claim, b) = GoverningTexts(c.claim, evidence[c.snapshot])
  <2>1. CASE IsRelation(c.claim)
    BY <2>1, RelationAppliesMeansSameTexts
  <2>2. CASE ~IsRelation(c.claim)
    <3>1. HoldsSources(evidence[c.snapshot])
      <4>1. RequestOf(c) \in requests /\ RequestOf(c).snapshot = c.snapshot
            /\ RequestOf(c).claim = c.claim
        BY DEF TruthInv, TrueOfItsEvidence, RequestOf
      <4> QED
        BY <2>2, <4>1 DEF TruthInv, FilesInv, Fits
    <3> QED
      BY <2>2, <3>1, AppliesMeansSameTexts
  <2> QED
    BY <2>1, <2>2
<1>2. /\ verdict'.active = active /\ verdict'.bundle = b
      /\ verdict'.exactlyOne = exactlyOne
  OBVIOUS
<1>3. UNCHANGED <<evidence, certificates>>
  BY DEF registryVars
<1> QED
  BY <1>1, <1>2, <1>3 DEF VerdictInv

LEMMA ScanSteps ==
    ASSUME TruthInv, Scan \/ Validate \/ Discover \/ EvaluateBoth
    PROVE  CapturesInv' /\ VerdictInv' /\ UNCHANGED <<registryVars, review>>
<1> DEFINE b == capture.bundle
<1>1. PICK active, exactlyOne :
        /\ Found(active, exactlyOne)
        /\ active \subseteq certificates
        /\ \A c \in active : IF IsRelation(c.claim) THEN RelationApplies(evidence[c.snapshot], b)
                             ELSE HoldsSources(b) /\ Applies(evidence[c.snapshot], b)
        /\ exactlyOne => \A claim \in RelationClaims : \E c \in active : c.claim = claim
  <2>1. capture.next \in {"scan", "validate"} => HoldsSources(b)
    BY DEF TruthInv, CapturesInv, RelationSteps
  <2>2. CASE Scan
    <3>1. HoldsSources(b) /\ Found(ActiveAt(b, Cardinality(certificates)), FALSE)
      BY <2>1, <2>2 DEF Scan, Capturing
    <3>2. \A at : \A c \in ActiveAt(b, at) :
            c \in certificates /\ ~IsRelation(c.claim) /\ Applies(evidence[c.snapshot], b)
      BY DEF ActiveAt, Newest
    <3> QED
      BY <3>1, <3>2
  <2>3. CASE Validate
    <3>1. PICK active :
            active = {c \in certificates : ~IsRelation(c.claim) /\ c.issued <= capture.at
                                           /\ Applies(evidence[c.snapshot], b)}
      OBVIOUS
    <3>2. HoldsSources(b) /\ Found(active, FALSE)
      BY <2>1, <2>3, <3>1 DEF Validate, Capturing
    <3>3. /\ active \subseteq certificates
          /\ \A c \in active : ~IsRelation(c.claim) /\ Applies(evidence[c.snapshot], b)
      BY <3>1
    <3> QED
      BY <3>2, <3>3
  <2>4. \A claim \in RelationClaims : \A at : \A c \in RelationActiveAt(claim, b, at) :
          c \in certificates /\ c.claim = claim /\ IsRelation(c.claim)
          /\ RelationApplies(evidence[c.snapshot], b)
    BY DEF RelationActiveAt, Newest, IsRelation
  <2>5. CASE Discover
    <3>1. Found(RelationActiveAt("AT_MOST_ONE", b, capture.at), FALSE)
      BY <2>5 DEF Discover
    <3>2. "AT_MOST_ONE" \in RelationClaims
      BY DEF RelationClaims
    <3> QED
      BY <2>4, <3>1, <3>2
  <2>6. CASE EvaluateBoth
    <3>1. PICK active : active = UNION {RelationActiveAt(claim, b, Cardinality(certificates))
                                          : claim \in RelationClaims}
      OBVIOUS
    <3>2. PICK exactlyOne :
            /\ exactlyOne <=> \E most, least \in active :
                 DerivesExactlyOne(most.claim, evidence[most.snapshot],
                                   least.claim, evidence[least.snapshot], b)
            /\ Found(active, exactlyOne)
      BY <2>6, <3>1 DEF EvaluateBoth
    <3>3. exactlyOne => \A claim \in RelationClaims : \E c \in active : c.claim = claim
      BY <3>2 DEF DerivesExactlyOne, RelationClaims
    <3>4. \A c \in active : c \in certificates /\ IsRelation(c.claim)
                            /\ RelationApplies(evidence[c.snapshot], b)
      BY <2>4, <3>1
    <3> QED
      BY <3>2, <3>3, <3>4
  <2> QED
    BY <2>2, <2>3, <2>5, <2>6
<1>2. /\ verdict' = [asked |-> TRUE, bundle |-> b, active |-> active, exactlyOne |-> exactlyOne]
      /\ capture' = NoCapture /\ UNCHANGED <<captures, registryVars, review>>
  BY <1>1 DEF Found
<1>3. VerdictInv'
  BY <1>1, <1>2, ConclusionHolds
<1> QED
  BY <1>2, <1>3, EndingFits DEF TruthInv

-----------------------------------------------------------------------------
(* The writers.  *)

\* Evidence is stored.
LEMMA StoringKeepsTruth ==
    ASSUME TruthInv, StoreEvidence \/ StoreRelationEvidence PROVE TruthInv'
<1>1. PICK next : /\ Stored(next)
                  /\ next \in {"request", "relation request"} => capture.job.claim # ""
                  /\ \/ capture.next = "store" /\ next \in {"scan", "request"}
                     \/ capture.next = "store relation" /\ next \in {"evaluate", "relation request"}
  BY DEF StoreEvidence, StoreRelationEvidence, Capturing
<1>2. /\ evidence' = Append(evidence, capture.bundle)
      /\ capture' = [capture EXCEPT !.snapshot = Len(evidence'), !.next = next]
      /\ UNCHANGED <<captures, requests, decisions, certificates, review, verdict>>
  BY <1>1 DEF Stored
<1>3. PICK S : evidence \in Seq(S)
  BY DEF TruthInv, FilesInv, IsFile
<1>4. /\ IsFile' /\ FilesGrow
      /\ Len(evidence') \in DOMAIN evidence' /\ evidence'[Len(evidence')] = capture.bundle
  <2>1. /\ Len(evidence') = Len(evidence) + 1 /\ Len(evidence') \in DOMAIN evidence'
        /\ \A i \in DOMAIN evidence : i \in DOMAIN evidence' /\ evidence'[i] = evidence[i]
        /\ IsFile'
    BY <1>2, <1>3, StoringAppends DEF IsFile
  <2>2. evidence'[Len(evidence) + 1] = capture.bundle
    BY <1>2, <1>3, AppendProperties
  <2> QED
    BY <1>2, <2>1, <2>2 DEF FilesGrow
<1>5. CapturesInv'
  <2>1. DOMAIN capture = {"job", "at", "snapshot", "next", "left", "bundle"}
    BY <1>1 DEF TruthInv, CapturesInv
  <2>2. /\ DOMAIN capture' = DOMAIN capture /\ capture'.next = next
        /\ capture'.snapshot = Len(evidence') /\ capture'.bundle = capture.bundle
        /\ capture'.job = capture.job
    BY <1>2, <2>1
  <2>3. capture.next = "store" => /\ capture.job.claim \in {""} \cup SettlementClaims
                                  /\ HoldsSources(capture.bundle)
    BY DEF TruthInv, CapturesInv, RelationSteps
  <2>4. capture.next = "store relation" => capture.job.claim \in {""} \cup RelationClaims
    BY DEF TruthInv, CapturesInv, SettlementSteps
  <2>5. captures' \in Seq(Jobs)
    BY <1>2 DEF TruthInv, CapturesInv
  <2>6. \/ next \in SettlementSteps /\ capture.next = "store"
        \/ next \in RelationSteps /\ capture.next = "store relation"
    BY <1>1 DEF SettlementSteps, RelationSteps
  <2> QED
    BY <1>1, <1>4, <2>1, <2>2, <2>3, <2>4, <2>5, <2>6 DEF CapturesInv, OnFile
<1>6. FilesInv'
  <2>1. \A q \in requests : \A d : Honest(q, d) => Honest(q, d)'
    BY <1>4, FilesKeepTheirMeaning DEF TruthInv
  <2>2. \A q \in requests : OnFile(q.snapshot)' /\ Fits(q.claim, evidence'[q.snapshot])
    BY <1>4, FilesKeepTheirMeaning DEF TruthInv
  <2>3. \A q \in DOMAIN decisions : q \in requests /\ Honest(q, decisions[q])
    BY DEF TruthInv, FilesInv
  <2>4. \A q \in requests : q = [snapshot |-> q.snapshot, claim |-> q.claim]
    BY DEF TruthInv, FilesInv
  <2>5. \A q \in DOMAIN decisions' : q \in requests' /\ Honest(q, decisions[q])'
    BY <1>2, <2>1, <2>3
  <2>6. \A q \in requests' : /\ q = [snapshot |-> q.snapshot, claim |-> q.claim]
                             /\ OnFile(q.snapshot)' /\ Fits(q.claim, evidence[q.snapshot])'
    BY <1>2, <2>2, <2>4
  <2> QED
    BY <1>4, <2>5, <2>6 DEF FilesInv
<1>7. ReviewsInv' /\ VerdictInv'
  BY <1>2, <1>4, ReviewsStay, VerdictStays
<1>8. \A c \in certificates' : TrueOfItsEvidence(c)'
  BY <1>2, <1>4, FilesKeepTheirMeaning DEF TruthInv
<1> QED
  BY <1>5, <1>6, <1>7, <1>8 DEF TruthInv

\* A request is stored.
LEMMA RequestingKeepsTruth ==
    ASSUME TruthInv, StoreRequest \/ StoreRelationRequest PROVE TruthInv'
<1>1. PICK next : /\ Requested(next)
                  /\ next = NoCapture \/ next = [capture EXCEPT !.next = "discover"]
                  /\ \/ capture.next = "request" /\ next = NoCapture
                     \/ capture.next = "relation request"
  BY DEF StoreRequest, StoreRelationRequest, Capturing
<1>2. PICK q : q = [snapshot |-> capture.snapshot, claim |-> capture.job.claim]
  OBVIOUS
<1>3. /\ requests' = requests \cup {q} /\ capture' = next
      /\ UNCHANGED <<captures, evidence, decisions, certificates, review, verdict>>
  BY <1>1, <1>2 DEF Requested
<1>4. FilesGrow
  BY <1>3 DEF FilesGrow
<1>5. q = [snapshot |-> q.snapshot, claim |-> q.claim]
      /\ OnFile(q.snapshot) /\ Fits(q.claim, evidence[q.snapshot])
  <2>1. OnFile(capture.snapshot) /\ evidence[capture.snapshot] = capture.bundle
        /\ capture.job.claim # ""
    BY <1>1 DEF TruthInv, CapturesInv
  <2>2. CASE capture.next = "request"
    BY <1>2, <2>1, <2>2 DEF TruthInv, CapturesInv, RelationSteps, Fits
  <2>3. CASE capture.next = "relation request"
    <3>1. capture.job.claim \in RelationClaims
      BY <2>1, <2>3 DEF TruthInv, CapturesInv, SettlementSteps
    <3> QED
      BY <1>2, <2>1, <3>1 DEF Fits, IsRelation
  <2> QED
    BY <1>1, <2>2, <2>3
<1>6. CapturesInv'
  <2>1. CASE next = NoCapture
    BY <1>3, <2>1, EndingFits DEF TruthInv
  <2>2. CASE next = [capture EXCEPT !.next = "discover"] /\ capture.next = "relation request"
    <3>1. DOMAIN capture = {"job", "at", "snapshot", "next", "left", "bundle"}
          /\ capture.job.claim \in {""} \cup RelationClaims /\ captures \in Seq(Jobs)
      BY <2>2 DEF TruthInv, CapturesInv, SettlementSteps
    <3>2. DOMAIN capture' = DOMAIN capture /\ capture'.next = "discover" /\ capture'.job = capture.job
      BY <1>3, <2>2, <3>1
    <3>3. "discover" \in RelationSteps
      BY DEF RelationSteps
    <3> QED
      BY <1>3, <3>1, <3>2, <3>3 DEF CapturesInv
  <2> QED
    BY <1>1, <2>1, <2>2
<1>7. FilesInv'
  <2>1. \A r \in requests' : /\ r = [snapshot |-> r.snapshot, claim |-> r.claim]
                             /\ OnFile(r.snapshot) /\ Fits(r.claim, evidence[r.snapshot])
    BY <1>3, <1>5 DEF TruthInv, FilesInv
  <2> QED
    BY <1>3, <2>1 DEF TruthInv, FilesInv, IsFile, OnFile, Honest
<1>8. ReviewsInv' /\ VerdictInv'
  BY <1>3, <1>4, ReviewsStay, VerdictStays
<1>9. \A c \in certificates' : TrueOfItsEvidence(c)'
  BY <1>3, <1>4, FilesKeepTheirMeaning DEF TruthInv
<1> QED
  BY <1>6, <1>7, <1>8, <1>9 DEF TruthInv

\* What a review may become.
Due(process) ==
    \/ process = Idle
    \/ \E at \in {"decided", "writing", "approved"}, q \in requests : \E d :
         /\ process = [at |-> at, request |-> q, decision |-> d] /\ Honest(q, d)
         /\ at = "approved" => ~IsRelation(q.claim)

LEMMA OneReviewGoesOn ==
    ASSUME ReviewsInv, NEW p \in Reviewers, NEW x, Due(x), UNCHANGED <<evidence, requests>>,
           review' = [review EXCEPT ![p] = x]
    PROVE  ReviewsInv'
<1>1. DOMAIN review = Reviewers
  BY DEF ReviewsInv
<1>2. \A y : Due(y) => Due(y)'
  BY DEF Due, Honest
<1>3. \A r \in Reviewers : Due(review'[r])
  BY <1>1 DEF ReviewsInv, Due
<1>4. review' = [r \in Reviewers |-> review'[r]]
  BY <1>1
<1> QED
  BY <1>2, <1>3, <1>4 DEF ReviewsInv, Due

LEMMA ReviewingKeepsTruth ==
    ASSUME TruthInv, NEW p \in Reviewers,
           \/ Decide(p) \/ DecideRelation(p) \/ CheckDecision(p)
           \/ WriteDecision(p) \/ Issue(p) \/ CrashReview(p)
    PROVE  TruthInv'
<1>1. /\ UNCHANGED <<captures, capture, evidence, requests, verdict>>
      /\ ~WriteDecision(p) => UNCHANGED decisions
      /\ ~Issue(p) => UNCHANGED certificates
  BY DEF Decide, DecideRelation, Reviewed, CheckDecision, WriteDecision, Issue, CrashReview,
         registryVars, ReviewOnly
<1>2. CapturesInv'
  BY <1>1 DEF TruthInv, CapturesInv, OnFile
<1>3. FilesGrow
  BY <1>1 DEF FilesGrow
<1>4. Due(Idle)
  BY DEF Due
<1>5. \A c : TrueOfItsEvidence(c) <=> TrueOfItsEvidence(c)'
  BY <1>1 DEF TrueOfItsEvidence
<1>6. CASE certificates \subseteq certificates' /\ ReviewsInv' /\ FilesInv'
           /\ \A c \in certificates' : TrueOfItsEvidence(c)
  BY <1>1, <1>2, <1>3, <1>5, <1>6, VerdictStays DEF TruthInv
<1>7. ASSUME UNCHANGED <<decisions, certificates>>, ReviewsInv' PROVE TruthInv'
  <2>1. FilesInv'
    BY <1>1, <1>7 DEF TruthInv, FilesInv, IsFile, OnFile, Honest
  <2> QED
    BY <1>6, <1>7, <2>1 DEF TruthInv
<1>8. ReviewsInv
  BY DEF TruthInv
<1>9. ASSUME NEW q \in requests, NEW d, NEW checklist, Reviewed(p, q, d, checklist),
             checklist = ChecklistFor(q.claim)
      PROVE  ReviewsInv'
  <2>1. PICK x : x = [at |-> "decided", request |-> q, decision |-> d]
    OBVIOUS
  <2>2. Honest(q, d) /\ review' = [review EXCEPT ![p] = x]
    BY <1>9, <2>1 DEF Reviewed, Honest
  <2>3. Due(x)
    BY <2>1, <2>2 DEF Due
  <2> QED
    BY <1>1, <1>8, <2>2, <2>3, OneReviewGoesOn
<1>10. CASE Decide(p)
  <2>1. PICK q, d : q \in requests /\ ~IsRelation(q.claim) /\ Reviewed(p, q, d, SettlementChecklist)
    BY <1>10 DEF Decide
  <2>2. ReviewsInv'
    BY <1>9, <2>1 DEF ChecklistFor
  <2>3. UNCHANGED <<decisions, certificates>>
    BY <2>1 DEF Reviewed, registryVars
  <2> QED
    BY <1>7, <2>2, <2>3
<1>11. CASE DecideRelation(p)
  <2>1. PICK q, d : q \in requests /\ IsRelation(q.claim) /\ Reviewed(p, q, d, ChecklistForClaim(q.claim))
    BY <1>11 DEF DecideRelation
  <2>2. ReviewsInv'
    BY <1>9, <2>1 DEF ChecklistFor
  <2>3. UNCHANGED <<decisions, certificates>>
    BY <2>1 DEF Reviewed, registryVars
  <2> QED
    BY <1>7, <2>2, <2>3
<1>12. CASE CrashReview(p)
  BY <1>1, <1>4, <1>7, <1>8, <1>12, OneReviewGoesOn DEF CrashReview, registryVars
<1>13. ASSUME review[p].at # "idle"
       PROVE  \E q \in requests : \E d :
                /\ review[p] = [at |-> review[p].at, request |-> q, decision |-> d]
                /\ review[p].request = q /\ review[p].decision = d
                /\ Honest(q, d) /\ (review[p].at = "approved" => ~IsRelation(q.claim))
  <2>1. PICK at, q, d :
          /\ at \in {"decided", "writing", "approved"} /\ q \in requests
          /\ review[p] = [at |-> at, request |-> q, decision |-> d] /\ Honest(q, d)
          /\ at = "approved" => ~IsRelation(q.claim)
    BY <1>8, <1>13 DEF ReviewsInv, Idle
  <2>2. review[p].at = at /\ review[p].request = q /\ review[p].decision = d
    BY <2>1
  <2> QED
    BY <2>1, <2>2
<1>14. CASE CheckDecision(p)
  <2>1. review[p].at = "decided" /\ UNCHANGED <<decisions, certificates>>
    BY <1>14 DEF CheckDecision, registryVars
  <2>2. PICK q, d :
          q \in requests /\ review[p] = [at |-> "decided", request |-> q, decision |-> d] /\ Honest(q, d)
    BY <1>13, <2>1
  <2>3. PICK x : x = IF q \in DOMAIN decisions THEN Idle
                     ELSE [at |-> "writing", request |-> q, decision |-> d]
    OBVIOUS
  <2>4. review' = [review EXCEPT ![p] = x]
    <3>1. /\ review[p].request = q
          /\ [review[p] EXCEPT !.at = "writing"] = [at |-> "writing", request |-> q, decision |-> d]
      BY <2>2
    <3> QED
      BY <1>14, <2>3, <3>1 DEF CheckDecision
  <2>5. Due(x)
    BY <2>2, <2>3 DEF Due
  <2> QED
    BY <1>1, <1>7, <1>8, <2>1, <2>4, <2>5, OneReviewGoesOn
<1>15. CASE WriteDecision(p)
  <2>1. review[p].at = "writing" /\ UNCHANGED certificates
    BY <1>15 DEF WriteDecision
  <2>2. PICK q, d :
          /\ q \in requests
          /\ review[p] = [at |-> "writing", request |-> q, decision |-> d] /\ Honest(q, d)
          /\ review[p].request = q /\ review[p].decision = d
    BY <1>13, <2>1
  <2>3. decisions' = [r \in DOMAIN decisions \cup {q} |-> IF r = q THEN d ELSE decisions[r]]
    BY <1>15, <2>2 DEF WriteDecision
  <2>4. \A r \in DOMAIN decisions' : r \in requests /\ Honest(r, decisions'[r])
    BY <2>2, <2>3 DEF TruthInv, FilesInv
  <2>5. \A r, e : Honest(r, e) => Honest(r, e)'
    BY <1>1 DEF Honest
  <2>6. \A r \in DOMAIN decisions' : r \in requests' /\ Honest(r, decisions[r])'
    BY <1>1, <2>4, <2>5
  <2>7. FilesInv'
    BY <1>1, <2>6 DEF TruthInv, FilesInv, IsFile, OnFile
  <2>8. PICK x : x = IF d.verdict = "APPROVED" /\ ~IsRelation(q.claim)
                     THEN [at |-> "approved", request |-> q, decision |-> d] ELSE Idle
    OBVIOUS
  <2>9. review' = [review EXCEPT ![p] = x]
    <3>1. [review[p] EXCEPT !.at = "approved"] = [at |-> "approved", request |-> q, decision |-> d]
      BY <2>2
    <3> QED
      BY <1>15, <2>2, <2>8, <3>1 DEF WriteDecision, AfterDecision
  <2>10. Due(x)
    BY <2>2, <2>8 DEF Due
  <2>11. ReviewsInv'
    BY <1>1, <1>8, <2>9, <2>10, OneReviewGoesOn
  <2> QED
    BY <1>6, <2>1, <2>7, <2>11 DEF TruthInv
<1>16. CASE Issue(p)
  <2>1. review[p].at = "approved" /\ UNCHANGED decisions
    BY <1>16 DEF Issue
  <2>2. PICK q, d :
          /\ q \in requests
          /\ review[p].request = q /\ review[p].decision = d
          /\ Honest(q, d) /\ ~IsRelation(q.claim)
    BY <1>13, <2>1
  <2>3. /\ certificates' = IF SupportsIssuance(evidence[q.snapshot], d)
                           THEN certificates \cup {Certificate(q)} ELSE certificates
        /\ review' = [review EXCEPT ![p] = Idle]
    BY <1>16, <2>2 DEF Issue
  <2>4. SupportsIssuance(evidence[q.snapshot], d) => TrueOfItsEvidence(Certificate(q))
    <3>1. q.claim \in SettlementClaims \cup RelationClaims /\ q = [snapshot |-> q.snapshot, claim |-> q.claim]
      BY <2>2 DEF TruthInv, FilesInv, Fits
    <3>2. RequestOf(Certificate(q)) = q /\ Certificate(q).claim = q.claim
          /\ Certificate(q).snapshot = q.snapshot
      BY <3>1 DEF RequestOf, Certificate
    <3> QED
      BY <2>2, <3>1, <3>2, PermittedIsTrue DEF TrueOfItsEvidence
  <2>5. FilesInv'
    BY <1>1, <2>1 DEF TruthInv, FilesInv, IsFile, OnFile, Honest
  <2>6. ReviewsInv'
    BY <1>1, <1>4, <1>8, <2>3, OneReviewGoesOn
  <2> QED
    BY <1>6, <2>3, <2>4, <2>5, <2>6 DEF TruthInv
<1> QED
  BY <1>10, <1>11, <1>12, <1>14, <1>15, <1>16

LEMMA IssuingARelationKeepsTruth == TruthInv /\ IssueRelation => TruthInv'
<1> SUFFICES ASSUME TruthInv, IssueRelation PROVE TruthInv'
  OBVIOUS
<1>1. PICK q \in DOMAIN decisions :
        /\ IsRelation(q.claim) /\ SupportsRelation(evidence[q.snapshot], q.claim, decisions[q])
        /\ certificates' = certificates \cup {Certificate(q)}
        /\ UNCHANGED <<evidence, requests, decisions, review, capture, captures, verdict>>
  BY DEF IssueRelation, ReviewOnly
<1>2. q \in requests /\ Honest(q, decisions[q]) /\ q.claim \in SettlementClaims \cup RelationClaims
      /\ q = [snapshot |-> q.snapshot, claim |-> q.claim]
  BY DEF TruthInv, FilesInv, Fits
<1>3. RequestOf(Certificate(q)) = q /\ Certificate(q).claim = q.claim
      /\ Certificate(q).snapshot = q.snapshot
  BY <1>2 DEF RequestOf, Certificate
<1>4. TrueOfItsEvidence(Certificate(q))
  BY <1>1, <1>2, <1>3, PermittedIsTrue DEF TrueOfItsEvidence
<1>5. \A c \in certificates' : TrueOfItsEvidence(c)'
  BY <1>1, <1>4 DEF TruthInv, TrueOfItsEvidence
<1>6. FilesGrow
  BY <1>1 DEF FilesGrow
<1>7. ReviewsInv' /\ VerdictInv'
  BY <1>1, <1>6, ReviewsStay, VerdictStays
<1>8. FilesInv' /\ CapturesInv'
  BY <1>1 DEF TruthInv, FilesInv, CapturesInv, IsFile, OnFile, Honest
<1> QED
  BY <1>5, <1>7, <1>8 DEF TruthInv

LEMMA TruthInvStep == TruthInv /\ [Next]_vars => TruthInv'
<1> SUFFICES ASSUME TruthInv, [Next]_vars PROVE TruthInv'
  OBVIOUS
<1>1. CASE Amend \/ UNCHANGED vars
  <2>1. UNCHANGED <<registryVars, review, capture, captures, verdict>>
    BY <1>1 DEF Amend, vars
  <2>2. UNCHANGED <<evidence, certificates>>
    BY <2>1 DEF registryVars
  <2>3. CapturesInv' /\ VerdictInv'
    BY <2>1, <2>2 DEF TruthInv, CapturesInv, VerdictInv, OnFile
  <2> QED
    BY <2>1, <2>3, ReadingKeepsTruth
<1>2. CASE ReadingStep
  <2>1. CapturesInv' /\ UNCHANGED <<registryVars, review, verdict>>
    BY <1>2, ReadingSteps DEF TruthInv
  <2>2. VerdictInv'
    BY <2>1 DEF TruthInv, VerdictInv, registryVars
  <2> QED
    BY <2>1, <2>2, ReadingKeepsTruth
<1>3. CASE Scan \/ Validate \/ Discover \/ EvaluateBoth
  BY <1>3, ScanSteps, ReadingKeepsTruth
<1>4. CASE StoreEvidence \/ StoreRelationEvidence
  BY <1>4, StoringKeepsTruth
<1>5. CASE StoreRequest \/ StoreRelationRequest
  BY <1>5, RequestingKeepsTruth
<1> QED
  BY <1>1, <1>2, <1>3, <1>4, <1>5, ReviewingKeepsTruth, IssuingARelationKeepsTruth DEF Next, ReadingStep

LEMMA TruthInvariance == Spec => []TruthInv
BY TruthInvInit, TruthInvStep, PTL DEF Spec

-----------------------------------------------------------------------------
\* A certificate is active on exactly the texts its decision was made on,
\* whatever was amended, stored, reviewed or killed in between and however many
\* reviewers decide at once (active_at, applicability, fingerprint).
THEOREM ActiveIsReviewed == Spec => []ActiveMeansReviewed
<1>1. TruthInv => ActiveMeansReviewed
  BY DEF TruthInv, VerdictInv, ActiveMeansReviewed
<1> QED
  BY <1>1, TruthInvariance, PTL

\* What an active certificate claims cannot happen is admitted by no text the
\* scan has read, as long as reviewers answer safely only what they have read.
THEOREM ActiveIsTrue == Spec => []ActiveMeansTrue
<1>1. TruthInv => ActiveMeansTrue
  BY DEF TruthInv, VerdictInv, ActiveMeansTrue, TrueOfItsEvidence
<1> QED
  BY <1>1, TruthInvariance, PTL

\* An exactly-one conclusion drawn from two active certificates holds of the
\* texts read (derive_exactly_one).
THEOREM ExactlyOneIsTrue == Spec => []DerivedExactlyOneHolds
<1>1. TruthInv => DerivedExactlyOneHolds
  <2> SUFFICES ASSUME TruthInv, verdict.asked, verdict.exactlyOne, NEW claim \in RelationClaims
               PROVE  Holds(claim, GoverningTexts(claim, verdict.bundle))
    BY DEF DerivedExactlyOneHolds
  <2>1. PICK c \in verdict.active : c.claim = claim
    BY DEF TruthInv, VerdictInv
  <2>2. TrueOfItsEvidence(c)
        /\ GoverningTexts(c.claim, verdict.bundle) = GoverningTexts(c.claim, evidence[c.snapshot])
    BY DEF TruthInv, VerdictInv
  <2> QED
    BY <2>1, <2>2 DEF TrueOfItsEvidence
<1> QED
  BY <1>1, TruthInvariance, PTL
====
