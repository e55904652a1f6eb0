------------------------------- MODULE Lineage -------------------------------
(***************************************************************************)
(* Where a citation of an amended source points today: the recorded        *)
(* versions and amendments of a source (semantics/lineage.py SourceHistory,*)
(* venues/kalshi/rulebook_history.py) and the lineages recorded for the    *)
(* citations of one product.  Pure.                                        *)
(*                                                                         *)
(* A reference is [number, subsection], subsection "" for a whole rule and *)
(* number 0 for a whole document; dates are numbers, 0 when not known.     *)
(*   version    [date, parsed, headings]   headings: rule number -> heading*)
(*   amendment  [id, date, affects]        affects: rule numbers           *)
(*   history    [versions, amendments, exhaustive, completeFrom]           *)
(*   hop        [from, to, basis, amendment, quoted]   amendment 0: none   *)
(*   lineage    [citation, issued, valid, hops, current]                   *)
(***************************************************************************)
EXTENDS Naturals, Sequences

\* ReferenceResolution.is_resolved.
IsResolved(resolution) ==
    resolution \in {"EXACT_CURRENT_REFERENCE", "HISTORICAL_REFERENCE_RESOLVED",
                    "REFERENCE_AMENDED_BY_PRODUCT_FILING"}

\* SourceHistory.version_at: at most one of the recorded versions.
VersionAt(history, moment) ==
    LET applicable == {v \in history.versions : v.date <= moment}
    IN {v \in applicable : \A w \in applicable : w.date <= v.date}

\* headings_for_version, of the version recorded as in force at moment: at most
\* one table of headings.
HeadingsAt(history, moment) ==
    {v.headings : v \in {v \in VersionAt(history, moment) : moment # 0 /\ v.parsed}}

\* SourceAmendment.affects_rule: by the rule's number, whatever the subsection.
AffectsRule(amendment, reference) == reference.number \in amendment.affects

AmendmentsAffecting(history, reference, after) ==
    {a \in history.amendments : AffectsRule(a, reference) /\ a.date > after}

\* LineageHop: what construction refuses.
Moved(hop) == hop.from # hop.to
HopIsAdmissible(hop) ==
    /\ hop.basis \in {"TRACKED_AMENDMENT", "AMENDMENT_STATEMENT"} => hop.amendment # 0
    /\ hop.basis = "VERSION_BRACKET" => ~Moved(hop)
    /\ hop.quoted

\* ReferenceLineage.chain_is_continuous; a current reference may be left out.
ChainIsContinuous(lineage) ==
    LET At(i) == IF i = 1 THEN lineage.citation ELSE lineage.hops[i - 1].to
        last == Len(lineage.hops) + 1
    IN /\ \A i \in DOMAIN lineage.hops : lineage.hops[i].from = At(i)
       /\ lineage.current \in {[number |-> 0, subsection |-> ""], At(last)}

\* ReferenceLineage.missing_windows: only the rule the citation names is looked for.
Accounted(lineage) == {lineage.hops[i].amendment : i \in DOMAIN lineage.hops}
HasMissingWindows(lineage, history) ==
    \/ history.completeFrom = 0 \/ history.completeFrom > lineage.issued
    \/ \E a \in AmendmentsAffecting(history, lineage.citation, lineage.issued) :
          a.id \notin Accounted(lineage)

\* ReferenceLineage.resolution.
Resolution(lineage, history) ==
    CASE ~lineage.valid -> "BROKEN_REFERENCE_AT_ISSUANCE"
      [] lineage.valid /\ (~ChainIsContinuous(lineage) \/ HasMissingWindows(lineage, history)) ->
            "UNKNOWN"
      [] lineage.valid /\ ChainIsContinuous(lineage) /\ ~HasMissingWindows(lineage, history) ->
            IF \E i \in DOMAIN lineage.hops : Moved(lineage.hops[i])
            THEN "HISTORICAL_REFERENCE_RESOLVED" ELSE "EXACT_CURRENT_REFERENCE"

\* lineages_by_citation: at most one lineage for a citation.
RecordedFor(lineages, reference) == {l \in lineages : l.citation = reference}

\* _compare_headings: a rule that reads the same in both versions, or does not;
\* then only an exhaustive record says why.
CompareHeadings(number, atIssuance, now, exhaustive) ==
    CASE number \in DOMAIN atIssuance /\ atIssuance[number] = now[number] -> "EXACT_CURRENT_REFERENCE"
      [] number \in DOMAIN atIssuance /\ atIssuance[number] # now[number] ->
            IF exhaustive THEN "AMBIGUOUS_LEGACY_REFERENCE" ELSE "UNKNOWN"
      [] number \notin DOMAIN atIssuance ->
            IF exhaustive THEN "BROKEN_REFERENCE_AT_ISSUANCE" ELSE "UNKNOWN"

\* _resolve_numbered, of a rule of a source whose current headings are those
\* given, at most one table; nothing renumbered is known without a date.
ResolveNumbered(reference, issued, history, current) ==
    LET renumbering == IF issued = 0 THEN {} ELSE AmendmentsAffecting(history, reference, issued)
        atIssuance == HeadingsAt(history, issued)
        number == reference.number IN
    CASE current = {} -> "UNKNOWN"
      [] \E now \in current : number \notin DOMAIN now -> "BROKEN_REFERENCE"
      [] \E now \in current : number \in DOMAIN now ->
            IF reference.subsection # "" \/ renumbering # {} \/ atIssuance = {} THEN "UNKNOWN"
            ELSE CompareHeadings(number, CHOOSE h \in atIssuance : TRUE,
                                 CHOOSE now \in current : TRUE, history.exhaustive)

=============================================================================
