----------------------------- MODULE Relations ------------------------------
(***************************************************************************)
(* Relations between the markets of one event: the evidence a relation is  *)
(* reviewed against, the two claims a person may certify from it, what     *)
(* makes their evidence complete, when a certificate still applies, and    *)
(* the exactly-one conclusion derived from two certificates                *)
(* (semantics/relation, exhaustiveness, exactly_one and registry;          *)
(* venues/kalshi/relation_capture and exhaustiveness_capture).             *)
(*                                                                         *)
(* The text named "event" stands for the event's and series' own fields,   *)
(* the text named "listing" for the venue's list of the event's markets    *)
(* with their strikes.                                                     *)
(***************************************************************************)
EXTENDS Evidence

\* The claims a person may certify (CERTIFIABLE_CLAIMS).
RelationClaims == {"AT_MOST_ONE", "AT_LEAST_ONE"}

-----------------------------------------------------------------------------
\* MemberEvidence: a member whose market could be read, by the fingerprint of
\* its own settlement evidence, captured without documents.
UnreadMember == [read |-> FALSE, rules |-> 0, settlement |-> <<>>]
MemberEvidence(bundle) ==
    [read |-> TRUE, rules |-> bundle.rules, settlement |-> <<Fingerprint(bundle)>>]

\* RelationEvidenceBundle, before its reads; basis is "" when none is declared.
NewRelationBundle(basis) ==
    [event |-> 0, series |-> FALSE, members |-> [m \in Markets |-> UnreadMember],
     documents |-> NoDocuments, basis |-> basis, listing |-> 0]

\* partition_is_material; the strikes reach the fingerprint through it.
ReliesOnPartition(r) == r.basis = "STRUCTURED_PARTITION"

\* RelationEvidenceBundle.component_values.
RelationFingerprint(r) ==
    [basis |-> r.basis, event |-> r.event, series |-> r.series, members |-> r.members,
     documents |-> r.documents,
     partition |-> IF ReliesOnPartition(r) THEN r.listing ELSE 0]

\* coverage_for_members: the listing, when it could be read, supports the
\* partition or not.
PartitionSupported(r) == r.listing # 0 /\ Text("listing", r.listing).supports

\* members_without_semantic_evidence.
Unevidenced(r) ==
    {m \in Markets : ~r.members[m].read \/ ~Text(m, r.members[m].rules).stated}

\* A governing document referenced but not retrieved.
ReferencedButMissing(r) ==
    {n \in Documents : r.documents[n].url /\ ~IsUsable(r.documents[n])}

\* exhaustiveness_incompleteness is empty.  Relation capture cites no
\* membership, so membership_reliance_reasons has nothing to say.
ExhaustivenessComplete(r) ==
    /\ r.basis # ""
    /\ Cardinality(Markets) >= 2
    /\ ReferencedButMissing(r) = {}
    /\ \E n \in Documents : IsUsable(r.documents[n])
    /\ ReliesOnPartition(r) => PartitionSupported(r)

\* RelationReviewRequest.create: the request is COMPLETE.
RelationComplete(r, claim) ==
    /\ Cardinality(Markets) >= 2
    /\ claim = "AT_LEAST_ONE" => ExhaustivenessComplete(r)
    /\ Unevidenced(r) = {}
    /\ ReferencedButMissing(r) = {}

\* The terminal states whose absence the questions of AT_MOST_ONE_CHECKLIST and
\* AT_LEAST_ONE_CHECKLIST ask for; checklist_for_claim.
AtMostOneChecklist == {"TWO_WIN", "SCALAR"}
AtLeastOneChecklist == {"ALL_LOSE", "VOID", "SCALAR"}
ChecklistForClaim(claim) ==
    CASE claim = "AT_MOST_ONE" -> AtMostOneChecklist
      [] claim = "AT_LEAST_ONE" -> AtLeastOneChecklist

\* RelationDecision.blocking_reason is None and issue_relation_certificate
\* finds every member's settlement fingerprint.
SupportsRelation(r, claim, decision) ==
    /\ decision.verdict = "APPROVED"
    /\ RelationComplete(r, claim)
    /\ decision.safe
    /\ \A m \in Markets : r.members[m].read

\* RelationCertificate.blocking_reason is None: the certificate of evidence r
\* against the evidence, and the members' settlement evidence, read now.
RelationApplies(r, current) ==
    /\ RelationFingerprint(r) = RelationFingerprint(current)
    /\ \A m \in Markets : current.members[m].settlement = r.members[m].settlement

-----------------------------------------------------------------------------
\* The settlement evidence of every member is the same in two bundles.
SameSettlement(r1, r2) ==
    \A m \in Markets : r1.members[m].settlement = r2.members[m].settlement

\* A mutant of DerivesExactlyOne: the claims of the parents are not looked at.
MutAnyClaims(most, mostEvidence, least, leastEvidence, current) ==
    SameSettlement(mostEvidence, leastEvidence) /\ SameSettlement(leastEvidence, current)

\* derive_exactly_one: one parent of each claim, reviewed against the same
\* settlement evidence of every member, which has not moved since.
DerivesExactlyOne(most, mostEvidence, least, leastEvidence, current) ==
    /\ most = "AT_MOST_ONE" /\ least = "AT_LEAST_ONE"
    /\ SameSettlement(mostEvidence, leastEvidence)
    /\ SameSettlement(leastEvidence, current)

=============================================================================
