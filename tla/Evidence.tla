------------------------------ MODULE Evidence ------------------------------
(***************************************************************************)
(* Settlement evidence: what one capture of a market's terms holds, what   *)
(* its fingerprint is taken over, when a policy calls it complete, and     *)
(* what a review needs before a certificate may be issued from it          *)
(* (semantics/evidence, dependency, incorporation, materiality,            *)
(* reference_resolution (with Lineage), policy, review, registry,          *)
(* certificate; venues/kalshi/evidence_capture).                           *)
(*                                                                         *)
(* A text is known by its component's name and its version, which stands   *)
(* for the hash of its content; version 0 is a text that was not read.     *)
(***************************************************************************)
EXTENDS Integers, FiniteSets, Sequences, Lineage

CONSTANTS
    Markets,     \* the markets of one event
    Documents,   \* the documents a series links: contract_terms, contract
    Sources,     \* GOVERNING_SOURCE_NAMES: exchange_rulebook, member_agreement
    Published,   \* the linked documents the series publishes a URL for
    Content,     \* component -> version -> its text, as Text below
    Declared,    \* the policy's reviewed materiality declarations
    Lineages,    \* the lineages recorded for the series
    History,     \* the recorded history of the rulebook, as in Lineage
    IssuedOn     \* when the series was filed

\* A text: how it was extracted, whether its extraction asks for a manual
\* review, its citing sentences in order, its headings and what a reader
\* learns from it (the terminal states it admits).  A sentence cites a rule,
\* or the whole document when number = 0, of a source, with the payout impacts
\* its words cue and the phrases a declaration may look for.
Text(c, v) == Content[c][v]

ASSUME EvidenceAssumption ==
    /\ Published \subseteq Documents /\ Documents \cap Sources = {}
    /\ \A l \in Lineages : \A i \in DOMAIN l.hops : HopIsAdmissible(l.hops[i])
    /\ \A k, l \in Lineages : k.citation = l.citation => k = l

-----------------------------------------------------------------------------
(* Documents.  *)

\* ExternalDocument: whether a URL is published, how its retrieval ended and
\* the content it holds.
Missing(url, retrieval) == [url |-> url, retrieval |-> retrieval, sha |-> 0]

\* DocumentFetcher.fetch of a document whose versions in force are given; the
\* outcome is RETRIEVED, HTTP_ERROR or NETWORK_ERROR.
Fetched(n, url, versions, outcome) ==
    CASE ~url -> Missing(FALSE, "NO_URL_PUBLISHED")
      [] url /\ outcome # "RETRIEVED" -> Missing(TRUE, outcome)
      [] OTHER -> [url |-> TRUE, retrieval |-> "RETRIEVED", sha |-> versions[n]]

\* fetch_documents=False: no URL is recorded for a document, the known one is
\* for a governing source.
NoDocuments == [n \in Documents |-> Missing(FALSE, "NOT_ATTEMPTED")]
NoSources == [s \in Sources |-> Missing(TRUE, "NOT_ATTEMPTED")]

IsUsable(d) == d.retrieval = "RETRIEVED"
IsReadable(c, d) == Text(c, d.sha).extraction = "CLEAN"

\* ExternalDocument.requires_manual_viewing.
RequiresManualViewing(c, d) ==
    IsUsable(d) /\ (~IsReadable(c, d) \/ Text(c, d.sha).marked)

-----------------------------------------------------------------------------
(* Citations.  *)

\* scan_incorporations: the sentences of a text that cite another document,
\* one for each citation, the first among those with the most impacts.
ScanIncorporations(parent, sentences) ==
    LET Cites == {i \in DOMAIN sentences : sentences[i].source # parent}
        Key(i) == <<sentences[i].source, sentences[i].number, sentences[i].subsection>>
        Weight(i) == Cardinality(sentences[i].impacts)
        Kept(i) == \A j \in Cites : Key(j) = Key(i) =>
                       Weight(j) < Weight(i) \/ (Weight(j) = Weight(i) /\ i <= j)
    IN {sentences[i] : i \in {i \in Cites : Kept(i)}}

\* headings_from_text(rulebook.text): also of a text only partly extracted.
HasHeadings(source) ==
    IsUsable(source) /\ Text("exchange_rulebook", source.sha).extraction # "FAILED"
CurrentHeadings(source) == Text("exchange_rulebook", source.sha).headings

\* The filings recorded for the series, whose ticker only the event tells.
Issuance(b) == IF b.event = 0 THEN 0 ELSE IssuedOn
SeriesLineages(b) == IF b.event = 0 THEN {} ELSE Lineages

\* resolve_reference: a lineage recorded for the series first, then the number;
\* a whole document resolves when it is held, and only the rulebook's rules are known.
ResolveReference(s, b) ==
    LET rulebook == s.source = "exchange_rulebook"
        source == b.sources[s.source]
        reference == [number |-> s.number, subsection |-> s.subsection]
        recorded == IF rulebook THEN RecordedFor(SeriesLineages(b), reference) ELSE {}
        current == IF rulebook /\ HasHeadings(source) THEN {CurrentHeadings(source)} ELSE {} IN
    CASE recorded # {} -> Resolution(CHOOSE l \in recorded : TRUE, History)
      [] recorded = {} /\ s.number = 0 ->
            IF IsUsable(source) THEN "EXACT_CURRENT_REFERENCE" ELSE "UNKNOWN"
      [] recorded = {} /\ s.number # 0 -> ResolveNumbered(reference, Issuance(b), History, current)

\* classify_citation: nothing automated makes a citation procedural.
ClassifyCitation(s) == IF s.impacts # {} THEN "MATERIAL" ELSE "UNCLASSIFIED"

\* parent_context_for: the kind of document a citation is made in.
ParentContext(parent) ==
    CASE parent = "contract_terms" -> "CONTRACT_TERMS"
      [] parent = "contract" -> "PRODUCT_CERTIFICATION_FILING"
      [] parent \in Sources -> "GOVERNING_SOURCE"
      [] OTHER -> "MARKET_RULES_TEXT"

\* CitationScope.covers: citations are named exactly.
Covers(scope, s) ==
    scope.source = s.source /\ [number |-> s.number, subsection |-> s.subsection] \in scope.citations

\* ContextScope.matches.
MatchesContext(scope, parent, s) ==
    /\ ParentContext(parent) \in scope.parents
    /\ scope.anyOf = {} \/ scope.anyOf \cap s.phrases # {}

\* MaterialityDeclaration.applies_to: payout language vetoes it; the texts it
\* was made on (source_hashes) are recorded and never looked at.
DeclarationApplies(declaration, parent, s) ==
    /\ ~declaration.revoked
    /\ Covers(declaration, s)
    /\ MatchesContext(declaration, parent, s)
    /\ s.impacts = {} /\ "payout" \notin s.phrases

\* DependencyMaterialityPolicy.classify and apply: declared impacts are
\* material whatever a declaration says.
Materiality(parent, s) ==
    IF \E declaration \in Declared : DeclarationApplies(declaration, parent, s)
    THEN "PROCEDURAL" ELSE ClassifyCitation(s)

\* A mutant of Dependency: the content of the cited source is left out.
MutDependencyWithoutContent(parent, s, b) ==
    [parent |-> parent, source |-> s.source, number |-> s.number, subsection |-> s.subsection,
     sha |-> 0, retrieval |-> b.sources[s.source].retrieval,
     impacts |-> s.impacts, materiality |-> Materiality(parent, s),
     resolution |-> ResolveReference(s, b)]

\* GoverningDocumentDependency of one citation, with what its fingerprint
\* values are taken over (fingerprint_values).
Dependency(parent, s, b) ==
    [parent |-> parent, source |-> s.source, number |-> s.number, subsection |-> s.subsection,
     sha |-> b.sources[s.source].sha, retrieval |-> b.sources[s.source].retrieval,
     impacts |-> s.impacts, materiality |-> Materiality(parent, s),
     resolution |-> ResolveReference(s, b)]

Dependencies(parent, sentences, b) ==
    {Dependency(parent, s, b) : s \in ScanIncorporations(parent, sentences)}

\* DependencySet: what a component cites, and whether that is all it cites.
NotApplicable == [closure |-> "NOT_APPLICABLE", dependencies |-> {}]
Unknown == [closure |-> "UNKNOWN", dependencies |-> {}]
Enumerated(dependencies) == [closure |-> "ENUMERATED", dependencies |-> dependencies]

\* dependency_set_for_document and DependencySet.for_document; a capture has no
\* declarations of what an unreadable document incorporates.
DocumentDependencies(c, d, b) ==
    CASE ~d.url -> NotApplicable
      [] d.url /\ (~IsUsable(d) \/ ~IsReadable(c, d)) -> Unknown
      [] OTHER -> Enumerated(Dependencies(c, Text(c, d.sha).sentences, b))

\* dependency_set_for_text: a market's rules, which may carry no text.
RulesDependencies(market, version, b) ==
    IF ~Text(market, version).stated THEN NotApplicable
    ELSE Enumerated(Dependencies(market, Text(market, version).sentences, b))

\* is_material_to, for a policy to which every payout impact is material.
IsMaterial(d) == d.materiality # "PROCEDURAL"

SourceIsHeld(d) == d.retrieval = "RETRIEVED"

-----------------------------------------------------------------------------
(* The bundle, its fingerprint and its completeness.  *)

\* SettlementEvidenceBundle: the version of the market's rules and of its
\* event, whether the series was read, the documents and governing sources.
NewBundle(market) ==
    [market |-> market, rules |-> 0, event |-> 0, series |-> FALSE,
     documents |-> NoDocuments, sources |-> NoSources]

Parents(b) == {b.market} \cup Documents \cup Sources

\* The dependency set capture_settlement_evidence records for each component.
DependencySet(b, parent) ==
    CASE parent = b.market -> RulesDependencies(parent, b.rules, b)
      [] parent \in Documents -> DocumentDependencies(parent, b.documents[parent], b)
      [] parent \in Sources -> DocumentDependencies(parent, b.sources[parent], b)

AllDependencies(b) == UNION {DependencySet(b, p).dependencies : p \in Parents(b)}

\* component_values: what the fingerprint is taken over; two bundles match
\* when all of it is equal.  A governing source is in it only where cited.
Fingerprint(b) ==
    [market |-> b.market, rules |-> b.rules, event |-> b.event, series |-> b.series,
     documents |-> b.documents,
     closures |-> [p \in Parents(b) |-> DependencySet(b, p).closure],
     dependencies |-> AllDependencies(b)]

\* EvidencePolicy.document_requirement.
IsPresent(b, n) == b.documents[n].url

\* dependency_parents: what is present and required, and the components that
\* always bear dependencies.
DependencyParents(b) == {b.market} \cup Sources \cup {n \in Documents : IsPresent(b, n)}

\* The policy's required fields, of which the rules' text is the one that may be
\* absent.
MissingRequired(b) == IF Text(b.market, b.rules).stated THEN {} ELSE {"market.rules_primary"}
Unretrievable(b) == {n \in Documents : IsPresent(b, n) /\ ~IsUsable(b.documents[n])}
UnknownClosures(b) ==
    {p \in DependencyParents(b) : DependencySet(b, p).closure = "UNKNOWN"}
Blocking(b) ==
    {d \in UNION {DependencySet(b, p).dependencies : p \in DependencyParents(b)} :
        IsMaterial(d) /\ ~(SourceIsHeld(d) /\ IsResolved(d.resolution))}

\* EvidencePolicy.assess: the evidence is COMPLETE.
Complete(b) ==
    /\ MissingRequired(b) = {}
    /\ Unretrievable(b) = {}
    /\ UnknownClosures(b) = {}
    /\ Blocking(b) = {}

\* manual_viewing_required: the documents a reviewer must acknowledge, and the
\* cited sources, which are named dependency:KEY.
ManualDocuments(b) ==
    {n \in Documents : IsPresent(b, n) /\ RequiresManualViewing(n, b.documents[n])}
ManualSources(b) ==
    {d.source : d \in {d \in AllDependencies(b) :
        IsMaterial(d) /\ RequiresManualViewing(d.source, b.sources[d.source])}}

-----------------------------------------------------------------------------
(* The review.  *)

\* STANDARD_BINARY_COMPLEMENT_CHECKLIST: the terminal states whose absence its
\* questions ask for.
SettlementChecklist == {"FRACTIONAL", "VOID", "SPECIAL"}

\* A decision on a request: the answers to its checklist are all safe or not,
\* and the documents acknowledged as viewed, each at the version under review.
Decision(verdict, safe, acknowledged) ==
    [verdict |-> verdict, safe |-> safe, acknowledged |-> acknowledged]

\* A mutant of SupportsIssuance: no acknowledgement is asked for.
MutUnacknowledged(b, decision) ==
    decision.verdict = "APPROVED" /\ Complete(b) /\ decision.safe

\* ReviewDecision.blocking_reason is None.
SupportsIssuance(b, decision) ==
    /\ decision.verdict = "APPROVED"
    /\ Complete(b)
    /\ decision.safe
    /\ ManualDocuments(b) \cup ManualSources(b) \subseteq decision.acknowledged

\* CertificateRecord.applicability is ACTIVE: the certificate of evidence b
\* against the evidence read now.
Applies(b, current) == Fingerprint(b) = Fingerprint(current)

=============================================================================
