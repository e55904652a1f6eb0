-------------------------- MODULE MCCertification --------------------------
(***************************************************************************)
(* TLC instance of Certification: an event of two markets, one linked      *)
(* document and one governing source.                                      *)
(***************************************************************************)
EXTENDS Certification

\* Two reviewers may work on one request at once.
MCReviewers == {"first", "second"}

\* The second reviewer works only on a settlement request, while nothing is
\* captured and before an amendment or a failed read, and so does what follows a
\* contested decision: what two reviews do to each other, and the certificates
\* they issue, depend on none of them.  No review of a relation stands half-way
\* between the reads of the next relation's capture: neither looks at anything
\* the other changes, so it may as well come before them or after.
MCConstraint ==
    /\ review["second"] # Idle \/ (\E w \in written : w.contested) =>
           capture = NoCapture /\ amended = 0 /\ faults = 0
    /\ review["second"] # Idle => ~IsRelation(review["second"].request.claim)
    /\ capture.next \in {"members", "relation documents", "listing"} =>
           \A p \in Reviewers : review[p] = Idle

\* What is read next.  An amendment changes nothing before its text is read:
\* it may as well come just then.
MCReadNext ==
    CASE Capturing("market") -> {capture.job.market}
      [] capture.next \in {"event", "relation event"} -> {"event"}
      [] Capturing("members") -> {Item, "event"}
      [] Capturing("listing") -> {"listing"}
      [] OTHER -> {n \in Items(capture.next) : n = Item}
MCActionConstraint == \A c \in DOMAIN terms : terms'[c] # terms[c] => c \in MCReadNext

MCMarkets == {"m1", "m2"}
MCDocuments == {"contract_terms"}
MCSources == {"exchange_rulebook"}

Cite(number, impacts) ==
    [source |-> "exchange_rulebook", number |-> number, subsection |-> "",
     impacts |-> impacts, phrases |-> {"fees"}]

\* The sentence cites rule 4(b), which an amendment has moved to 4(c) since.
CiteMoved ==
    [source |-> "exchange_rulebook", number |-> 4, subsection |-> "b",
     impacts |-> {"PAYOUT_SIDE"}, phrases |-> {}]

\* A market's rules: without a citation or citing rule 5, or two of them that
\* can both be won.
Rules(sentences, admits) == [stated |-> TRUE, sentences |-> sentences, admits |-> admits]

Document(marked, sentences, headings, admits) ==
    [extraction |-> "CLEAN", marked |-> marked, sentences |-> sentences,
     headings |-> headings, admits |-> admits]

MCContent ==
    [m1 |-> << Rules(<<>>, {}), Rules(<<Cite(5, {})>>, {}) >>,
     m2 |-> << Rules(<<>>, {}), Rules(<<>>, {"TWO_WIN"}) >>,
     event |-> << [admits |-> {}] >>,
     \* The whole rulebook bears on the payout; then it does not, but the terms
     \* admit another payout on a page that only a reader of the document sees.
     contract_terms |->
        << Document(TRUE, <<Cite(5, {}), Cite(0, {"PAYOUT_SIDE"}), CiteMoved>>, <<>>, {}),
           Document(TRUE, <<Cite(5, {})>>, <<>>, {"FRACTIONAL"}) >>,
     exchange_rulebook |->
        << Document(FALSE, <<>>, <<"1", "2", "3", "4", "Expiration">>, {}),
           Document(TRUE, <<>>, <<"1", "2", "3", "4", "Expiration">>, {"VOID"}),
           Document(FALSE, <<>>, <<"1", "2", "3", "4", "Trade review">>, {}) >>,
     listing |-> << [supports |-> TRUE, admits |-> {}], [supports |-> FALSE, admits |-> {"ALL_LOSE"}] >>]

\* Rule 5 is about fees wherever the contract terms cite it, not in a market's
\* rules; a declaration of the whole rulebook has been revoked.
MCDeclared ==
    LET Declaration(number, revoked) ==
            [source |-> "exchange_rulebook", citations |-> {[number |-> number, subsection |-> ""]},
             parents |-> {"CONTRACT_TERMS"}, anyOf |-> {"fees"}, revoked |-> revoked]
    IN {Declaration(5, FALSE), Declaration(0, TRUE)}

\* The series was filed under version 1 of the rulebook, of which two
\* versions and the amendment between them are recorded.
MCIssuedOn == 2
MCHistory ==
    LET headings == <<"1", "2", "3", "4", "Expiration">>
    IN [versions |-> {[date |-> 1, parsed |-> TRUE, headings |-> headings],
                      [date |-> 4, parsed |-> TRUE, headings |-> headings]},
        amendments |-> {[id |-> 1, date |-> 3, affects |-> {4}]},
        exhaustive |-> FALSE, completeFrom |-> 1]
MCLineages ==
    LET Rule4(letter) == [number |-> 4, subsection |-> letter]
    IN {[citation |-> Rule4("b"), issued |-> MCIssuedOn, valid |-> TRUE,
         hops |-> <<[from |-> Rule4("b"), to |-> Rule4("c"), basis |-> "TRACKED_AMENDMENT",
                     amendment |-> 1, quoted |-> TRUE]>>,
         current |-> Rule4("c")]}

Job(command, basis, claim, documents) ==
    [command |-> command, market |-> "m1", basis |-> basis, claim |-> claim, documents |-> documents]

\* A certificate and a scan that relies on it, or its validation; the two
\* claims of a partition and a basket that rests on both; a discovery followed
\* by the next one; a certificate and a scan with --skip-documents.
MCCampaigns ==
    LET certify == Job("certificates request", "", "STANDARD_BINARY_COMPLEMENT", TRUE)
        scan == Job("scan_binary_complement", "", "", TRUE)
        validate == Job("certificates validate", "", "", TRUE)
        most == Job("relations request", "STRUCTURED_PARTITION", "AT_MOST_ONE", TRUE)
        least == Job("relations request", "STRUCTURED_PARTITION", "AT_LEAST_ONE", TRUE)
        basket == Job("evaluate", "STRUCTURED_PARTITION", "", TRUE)
        discover == Job("discover_relations", "", "AT_MOST_ONE", TRUE)
        skip == Job("certificates request", "", "STANDARD_BINARY_COMPLEMENT", FALSE)
    IN {<<certify, scan>>, <<certify, validate>>, <<most, least, basket>>,
        <<discover, discover>>, <<skip, scan>>}

=============================================================================
