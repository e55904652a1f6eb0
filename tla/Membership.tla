----------------------------- MODULE Membership -----------------------------
(***************************************************************************)
(* Enumerating the markets of one event while the venue moves under the    *)
(* walk: venues/kalshi/membership_capture.py, the evidence it produces     *)
(* (semantics/membership.py) and what makes that evidence fit to be cited  *)
(* by an AT_LEAST_ONE proof (semantics/exhaustiveness.py).                 *)
(*                                                                         *)
(* The venue keeps an event's markets in two tiers, told apart by a cutoff *)
(* that advances with time: a market settled before the cutoff is listed   *)
(* by /historical/markets only, every other by /markets only.  Markets are *)
(* created, determined, settled and may be withdrawn between any two       *)
(* requests.  The enumeration reads the cutoff, walks the live tier page   *)
(* by page, walks the historical tier, reads the cutoff again and last     *)
(* reads the event with its nested markets; a page holds one market and    *)
(* the cursor is the last ticker returned.                                 *)
(*                                                                         *)
(* A market's record is as much of its status and settlement time as the   *)
(* evidence looks at: Undetermined (initialized, inactive, active or       *)
(* closed), Determined (determined, disputed or amended; settled_ts is     *)
(* still None) or, once it is finalized, the time it settled.              *)
(***************************************************************************)
EXTENDS Integers, FiniteSets

CONSTANTS
    Tickers,       \* a set of numbers: a listing is in ticker order
    MaxPages,      \* enumerate_event_membership's max_pages
    MaxTime,       \* bound: the venue's clock
    MaxFaults,     \* bound: failed or unusable answers
    Unread,        \* a value the client could not read
    Undetermined,  \* the record of a market that has no outcome yet
    Determined     \* the record of one that has, and has not settled

ASSUME MembershipAssumption ==
    /\ Tickers \subseteq Nat \ {0} /\ IsFiniteSet(Tickers)
    /\ MaxPages \in Nat \ {0} /\ MaxTime \in Nat /\ MaxFaults \in Nat
    /\ {Unread, Undetermined, Determined} \cap Int = {}
    /\ Undetermined # Determined

VARIABLES
    \* the venue
    now,          \* its clock
    cutoff,       \* market_settled_ts of /historical/cutoff
    market,       \* ticker -> its record while the venue keeps one
    provisional,  \* the markets the venue may withdraw
    withdrawn,    \* the tickers it has withdrawn, never used again
    founders,     \* ghost: the markets there were when the enumeration began
    \* the enumeration
    phase,        \* which request comes next
    selected,     \* the basket whose proof may cite the evidence
    before, after,\* the two readings of the cutoff
    live, hist,   \* the two walks: _Walk
    nested,       \* the tickers of the nested event view, or Unread
    faults        \* failed or unusable answers so far

venueVars == <<now, cutoff, market, provisional, withdrawn, founders>>
vars == <<venueVars, phase, selected, before, after, live, hist, nested, faults>>

-----------------------------------------------------------------------------
(* The venue.  *)

Listed == DOMAIN market
Settled(t) == market[t] \notin {Undetermined, Determined}
Archived(t) == Settled(t) /\ market[t] < cutoff
Tier(historical) == {t \in Listed : Archived(t) = historical}

\* An event one of whose markets is undetermined may get another.
CreateMarket ==
    /\ \E t \in Listed : market[t] = Undetermined
    /\ \E t \in Tickers \ (Listed \cup withdrawn) : \E isProvisional \in BOOLEAN :
         /\ market' = [u \in Listed \cup {t} |-> IF u = t THEN Undetermined ELSE market[u]]
         /\ provisional' = IF isProvisional THEN provisional \cup {t} ELSE provisional
    /\ UNCHANGED <<now, cutoff, withdrawn, founders>>

DetermineMarket ==
    /\ \E t \in Listed :
         market[t] = Undetermined /\ market' = [market EXCEPT ![t] = Determined]
    /\ UNCHANGED <<now, cutoff, provisional, withdrawn, founders>>

SettleMarket ==
    /\ \E t \in Listed :
         market[t] = Determined /\ market' = [market EXCEPT ![t] = now]
    /\ UNCHANGED <<now, cutoff, provisional, withdrawn, founders>>

\* A provisional market is withdrawn and leaves both tiers.
WithdrawMarket ==
    /\ \E t \in Listed \cap provisional :
         /\ market' = [u \in Listed \ {t} |-> market[u]]
         /\ withdrawn' = withdrawn \cup {t}
         /\ founders' = founders \ {t}
    /\ UNCHANGED <<now, cutoff, provisional>>

TimePasses ==
    /\ now < MaxTime
    /\ now' = now + 1
    /\ \E c \in cutoff..now : cutoff' = c
    /\ UNCHANGED <<market, provisional, withdrawn, founders>>

\* The venue's moves before the first reading only change where it starts.
VenueMoves ==
    /\ phase \notin {"cutoff_before", "done"}
    /\ CreateMarket \/ DetermineMarket \/ SettleMarket \/ WithdrawMarket \/ TimePasses
    /\ UNCHANGED <<phase, selected, before, after, live, hist, nested, faults>>

-----------------------------------------------------------------------------
(* The walks.  *)

\* A walk and what it saw: each ticker's record when it was read.
NewWalk == [seen |-> <<>>, cursor |-> 0, pages |-> 0,
            status |-> "NOT_ATTEMPTED", unusable |-> FALSE]

Init ==
    /\ now = 1
    /\ cutoff \in 0..1
    /\ \E T \in SUBSET Tickers \ {{}} : market \in [T -> {0, Undetermined, Determined}]
    /\ provisional \in {P \in SUBSET DOMAIN market : Cardinality(P) <= 1}
    /\ withdrawn = {}
    /\ founders = DOMAIN market
    /\ selected = DOMAIN market
    /\ phase = "cutoff_before"
    /\ before = Unread /\ after = Unread
    /\ live = NewWalk /\ hist = NewWalk
    /\ nested = Unread
    /\ faults = 0

Fault == faults < MaxFaults /\ faults' = faults + 1

\* The next market of a tier past the cursor, and whether the venue offers a
\* further cursor after it.
Beyond(tier, cursor) == {t \in tier : t > cursor}
First(T) == CHOOSE t \in T : \A u \in T : t <= u

\* _walk after a page: one more market, or none when the tier is exhausted.
AfterPage(w, tier) ==
    LET rest == Beyond(tier, w.cursor)
        t == First(rest)
        more == rest \ {t} IN
    IF rest = {}
    THEN [w EXCEPT !.pages = @ + 1, !.status = "EXHAUSTED"]
    ELSE [w EXCEPT !.pages = @ + 1, !.cursor = t,
                   !.seen = [u \in DOMAIN @ \cup {t} |-> IF u = t THEN market[t] ELSE @[u]],
                   !.status = CASE more = {} -> "EXHAUSTED"
                                [] more # {} /\ w.pages + 1 >= MaxPages -> "TRUNCATED_BY_LIMIT"
                                [] OTHER -> "NOT_ATTEMPTED"]

\* A page one of whose records has no usable identity (project_membership_member
\* raises): the record is dropped and counted against the walk.
AfterUnusablePage(w, tier) ==
    [AfterPage(w, tier) EXCEPT !.seen = w.seen, !.unusable = TRUE]

Failed(w) == [w EXCEPT !.status = "FAILED"]

\* The walk as _walk left it and what the next page makes of it: the venue's
\* answer, an exception or a repeated cursor, or a page with a bad record.
StepWalk(w, w2, tier) ==
    \/ w2 = AfterPage(w, tier) /\ UNCHANGED faults
    \/ w2 = Failed(w) /\ Fault
    \/ Beyond(tier, w.cursor) # {} /\ w2 = AfterUnusablePage(w, tier) /\ Fault

Over(w) == w.status # "NOT_ATTEMPTED"

ReadCutoffBefore ==
    /\ phase = "cutoff_before"
    /\ phase' = "live"
    /\ \/ before' = cutoff /\ UNCHANGED faults
       \/ before' = Unread /\ Fault
    /\ UNCHANGED <<venueVars, selected, after, live, hist, nested>>

\* The live tier first: a market that moves is then seen twice, never not at all.
WalkLive ==
    /\ phase = "live"
    /\ StepWalk(live, live', Tier(FALSE))
    /\ phase' = IF Over(live') THEN "historical" ELSE phase
    /\ UNCHANGED <<venueVars, selected, before, after, hist, nested>>

WalkHistorical ==
    /\ phase = "historical"
    /\ StepWalk(hist, hist', Tier(TRUE))
    /\ phase' = IF Over(hist') THEN "cutoff_after" ELSE phase
    /\ UNCHANGED <<venueVars, selected, before, after, live, nested>>

ReadCutoffAfter ==
    /\ phase = "cutoff_after"
    /\ phase' = "event"
    /\ \/ after' = cutoff /\ UNCHANGED faults
       \/ after' = Unread /\ Fault
    /\ UNCHANGED <<venueVars, selected, before, live, hist, nested>>

\* get_event with nested markets: the live tier once more, as one answer.
ReadEvent ==
    /\ phase = "event"
    /\ phase' = "done"
    /\ \/ nested' = Tier(FALSE) /\ UNCHANGED faults
       \/ nested' = Unread /\ Fault
    /\ UNCHANGED <<venueVars, selected, before, after, live, hist>>

\* A mutant of Enumerate: the historical tier is walked first.
MutHistoricalFirst ==
    \/ ReadCutoffBefore
    \/ /\ phase = "live"
       /\ StepWalk(hist, hist', Tier(TRUE))
       /\ phase' = IF Over(hist') THEN "historical" ELSE phase
       /\ UNCHANGED <<venueVars, selected, before, after, live, nested>>
    \/ /\ phase = "historical"
       /\ StepWalk(live, live', Tier(FALSE))
       /\ phase' = IF Over(live') THEN "cutoff_after" ELSE phase
       /\ UNCHANGED <<venueVars, selected, before, after, hist, nested>>
    \/ ReadCutoffAfter \/ ReadEvent

Enumerate ==
    \/ ReadCutoffBefore \/ WalkLive \/ WalkHistorical \/ ReadCutoffAfter \/ ReadEvent

Next == VenueMoves \/ Enumerate

Spec == Init /\ [][Next]_vars

-----------------------------------------------------------------------------
(* The evidence: CombinedVenueMembershipEvidence, once the phase is done.  *)

\* _project: an exhausted walk with an unusable record is no member list.
FinalStatus(w) == IF w.status = "EXHAUSTED" /\ w.unusable THEN "IDENTITY_UNUSABLE" ELSE w.status

LiveSeen == DOMAIN live.seen
HistSeen == DOMAIN hist.seen
NestedSeen == IF nested = Unread THEN {} ELSE nested

\* A mutant of Members: a nested-only market is not folded in.
MutTiersOnly == LiveSeen \cup HistSeen

\* _merge_tiers and _fold_in_nested.
Members == LiveSeen \cup HistSeen \cup NestedSeen

SourceOf(t) ==
    CASE t \in LiveSeen \cap HistSeen -> "BOTH"
      [] t \in LiveSeen \ HistSeen -> "LIVE"
      [] t \in HistSeen \ LiveSeen -> "HISTORICAL"
      [] OTHER -> "NESTED_EVENT_ONLY"

\* The record kept of a member.  The live payload wins for a duplicate; a
\* nested-only member has no payload, so neither a status nor a time.
RecordOf(t) ==
    CASE t \in LiveSeen -> live.seen[t]
      [] t \in HistSeen \ LiveSeen -> hist.seen[t]
      [] OTHER -> Unread

\* A mutant of PartitionBoundary: the later reading of the cutoff.
MutLaterBoundary == after

\* The boundary _check_partition compares settlement times with.
PartitionBoundary == before

\* _check_partition.
LiveButSettledEarlier ==
    {t \in Members : /\ SourceOf(t) \in {"LIVE", "BOTH"} /\ RecordOf(t) \in Int
                     /\ PartitionBoundary \in Int /\ RecordOf(t) < PartitionBoundary}
ArchivedButSettledLater ==
    {t \in Members : /\ SourceOf(t) = "HISTORICAL" /\ RecordOf(t) \in Int
                     /\ PartitionBoundary \in Int /\ RecordOf(t) >= PartitionBoundary}
ArchivedButUnsettled ==
    {t \in Members : SourceOf(t) = "HISTORICAL" /\ RecordOf(t) \in {Undetermined, Determined}}

\* CUTOFF_MOVED_DURING_ENUMERATION, and the evidence's own cutoff_stable.
CutoffMoved == before # Unread /\ before # after
CutoffStable == before # Unread /\ before = after

BothPathsExhausted == FinalStatus(live) = "EXHAUSTED" /\ FinalStatus(hist) = "EXHAUSTED"

\* is_event_open: some member's own status is one before determination.  A
\* determined market without a settlement time does not keep the event open,
\* and neither does a member without a status.
EventOpen == \E t \in Members : RecordOf(t) = Undetermined

\* exhaustiveness.membership_reliance_reasons is empty.
Citable ==
    /\ BothPathsExhausted
    /\ CutoffStable
    /\ Members \subseteq selected
    /\ ~EventOpen
    /\ (LiveSeen \cup HistSeen) \cap provisional = {}

-----------------------------------------------------------------------------
\* The order of the walks "can only create duplicates, never omissions"
\* (enumerate_event_membership): when both ran to exhaustion, every market
\* the event had throughout is a member, however the cutoff swept meanwhile.
NothingIsOmitted ==
    phase = "done" /\ BothPathsExhausted => founders \subseteq Members

\* A venue that keeps its documented partition is never reported to list a
\* market in the wrong tier, unless the cutoff is reported to have moved.
NoFalseAccusation ==
    phase = "done" =>
        /\ LiveButSettledEarlier = {}
        /\ ArchivedButUnsettled = {}
        /\ ArchivedButSettledLater = {} \/ CutoffMoved

\* Evidence fit to be cited is final membership ("Whether the venue may still
\* add markets", is_event_open): unless the event view could not be read, every
\* market the venue then lists live is a selected one and has been determined,
\* so none was created behind the walk and none can be any more.  That it has
\* settled is not promised: a determined one may still be disputed or amended.
CitableIsFinal ==
    phase = "done" /\ Citable /\ nested # Unread =>
        \A t \in Tier(FALSE) : t \in selected /\ market[t] # Undetermined

=============================================================================
