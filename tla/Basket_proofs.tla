---------------------------- MODULE Basket_proofs ----------------------------
(***************************************************************************)
(* Theorems about the claim that a basket pays and what it rests on: which *)
(* markets the venue lists (Membership), for any set of tickers, any page  *)
(* limit, any number of moves of the venue and of failed requests; whether *)
(* the strikes of the selected ones leave a value uncovered (Partition),   *)
(* for any number of members; what its orders are charged (OrderFees), of  *)
(* any size, filled in any number of pieces at any prices, for every grid  *)
(* and every fee scale; and what the detectors promise of it (Scan), for   *)
(* any number of members, any books, any fee history and every fault.      *)
(* Membership and Partition share no state with the others.                *)
(*                                                                         *)
(* Walking the live tier before the historical one omits no market: a      *)
(* settled market behind the cutoff stays there, so a market the live walk *)
(* does not find any more waits in the tier that is walked next.  What may *)
(* be cited is final besides: a listed market a walk saw settled is        *)
(* settled still, and withdrawing a member costs the snapshot its          *)
(* agreement with the event.                                               *)
(*                                                                         *)
(* The sweep leaves no value out as long as it met no break (CoverInv),    *)
(* and at a break there is a value that no interval swept satisfies and    *)
(* every other one begins above (GapInv), because they are sorted.         *)
(*                                                                         *)
(* An order's account holds the fee interval: what the ceilings and the    *)
(* roundings added is bounded by the number of fills, and the accumulator  *)
(* is exactly what was rounded and not yet rebated.                        *)
(*                                                                         *)
(* An order that acts on a definite verdict has paid for what it bought    *)
(* exactly what the curve quotes for it (TradeInv): the gates leave only   *)
(* scenes in which the book is the venue's and the fees in force are the   *)
(* resolved ones, and taking the cheapest increments first is walking the  *)
(* curve.  The certified worst case is the least payoff over the states    *)
(* the world may still reach, and is reached (IsFloor), so that the sums   *)
(* over the legs of the two bounds decide the sign of what is earned.      *)
(***************************************************************************)
EXTENDS Membership, Partition, Scan, FiniteSetTheorems, WellFoundedInduction, TLAPS


-----------------------------------------------------------------------------
(* Which markets the venue lists.                                          *)

Times == Int \cup {Undetermined, Determined}

Readings == UNION {[T -> Times] : T \in SUBSET Tickers}

Flags == BOOLEAN

Statuses == {"NOT_ATTEMPTED", "EXHAUSTED", "TRUNCATED_BY_LIMIT", "FAILED"}

Walks == [seen : Readings, cursor : Nat, pages : Nat, status : Statuses, unusable : Flags]

\* A walk nothing has been dropped from so far.
Sound(w) == w.status \in {"NOT_ATTEMPTED", "EXHAUSTED"} /\ w.unusable = FALSE

\* What a request adds to a walk is in the tier as the venue lists it then.
Reads(w, w2, tier) ==
    \A t \in DOMAIN w2.seen :
        \/ t \in DOMAIN w.seen /\ w2.seen[t] = w.seen[t]
        \/ t \in tier /\ w2.seen[t] = market[t]

\* The venue's records.
VenueInv ==
    /\ Listed \subseteq Tickers /\ founders \subseteq Listed
    /\ \A t \in Listed : market[t] \in Times
    /\ now \in Int /\ cutoff \in Int

\* The walks come one after the other.
OrderInv ==
    /\ live \in Walks /\ hist \in Walks
    /\ phase \in {"cutoff_before", "live"} => hist = NewWalk
    /\ phase \in {"cutoff_before", "live"} <=> ~Over(live)
    /\ phase \in {"cutoff_after", "event", "done"} => Over(hist)
    /\ phase = "historical" => ~Over(hist)

\* A founder the live walk has not found is ahead of it or has been archived.
LiveCovers ==
    Sound(live) =>
        \A f \in founders : \/ f \in LiveSeen
                            \/ Archived(f)
                            \/ ~Over(live) /\ f > live.cursor

\* Once the live walk is over, a founder neither walk has found is archived
\* and ahead of the historical walk.
HistCovers ==
    Sound(live) /\ Sound(hist) /\ Over(live) =>
        \A f \in founders : \/ f \in LiveSeen \cup HistSeen
                            \/ ~Over(hist) /\ f > hist.cursor /\ Archived(f)

MembershipInv == VenueInv /\ OrderInv /\ LiveCovers /\ HistCovers

-----------------------------------------------------------------------------
(* One page.  *)

\* The next ticker of a listing is its smallest.
LEMMA FirstIsLeast ==
    ASSUME NEW T \in SUBSET Nat, T # {}
    PROVE  First(T) \in T /\ \A u \in T : First(T) <= u
<1>1. PICK t \in T : \A u \in T : ~(<<u, t>> \in OpToRel(<, Nat))
  BY NatLessThanWellFounded, WFMin, Zenon
<1>2. \A u \in T : ~(u < t)
  BY <1>1, Zenon DEF OpToRel
<1>3. \A u \in T : t <= u
  BY <1>2, SMT
<1> QED
  BY <1>3 DEF First

\* What a page with a market changes of a walk leaves a walk.
Updated(w, seen, cursor, status) ==
    [w EXCEPT !.pages = @ + 1, !.cursor = cursor, !.seen = seen, !.status = status]

LEMMA UpdatedWalk ==
    ASSUME NEW w \in Walks, NEW seen \in Readings, NEW cursor \in Nat, NEW status \in Statuses,
           NEW w2, w2 = Updated(w, seen, cursor, status)
    PROVE  /\ w2 \in Walks
           /\ w2.seen = seen /\ w2.cursor = cursor /\ w2.status = status
           /\ w2.unusable = w.unusable
<1> DEFINE a == [w EXCEPT !.pages = @ + 1]
           b == [a EXCEPT !.cursor = cursor]
           c == [b EXCEPT !.seen = seen]
           d == [c EXCEPT !.status = status]
<1>1. a \in Walks /\ a.unusable = w.unusable
  BY SMT DEF Walks
<1>2. w2 = d
  BY Zenon DEF Updated
<1> HIDE DEF a
<1>3. b \in Walks /\ b.cursor = cursor /\ b.unusable = a.unusable
  BY <1>1, SMT DEF Walks
<1> HIDE DEF b
<1>4. c \in Walks /\ c.seen = seen /\ c.cursor = b.cursor /\ c.unusable = b.unusable
  BY <1>3, SMT DEF Walks
<1> HIDE DEF c
<1>5. d \in Walks /\ d.seen = c.seen /\ d.cursor = c.cursor /\ d.unusable = c.unusable
  BY <1>4, SMT DEF Walks
<1>6. d.status = status
  BY <1>4, SMT DEF Walks
<1> QED
  BY <1>1, <1>2, <1>3, <1>4, <1>5, <1>6

\* A request that leaves what was seen has read nothing.
LEMMA NothingRead ==
    ASSUME NEW w, NEW w2, NEW tier, w2.seen = w.seen
    PROVE  Reads(w, w2, tier)
<1> SUFFICES ASSUME NEW t \in DOMAIN w2.seen
             PROVE  t \in DOMAIN w.seen /\ w2.seen[t] = w.seen[t]
  BY DEF Reads
<1> QED
  OBVIOUS

\* A page that drops nothing moves a market it skips over nowhere: what was
\* ahead of the walk has been seen or still is ahead.
LEMMA PageCovers ==
    ASSUME NEW w \in Walks, NEW tier \in SUBSET Tickers, \A t \in tier : market[t] \in Times,
           NEW w2, w2 = AfterPage(w, tier), w.status = "NOT_ATTEMPTED"
    PROVE  /\ w2 \in Walks
           /\ w2.unusable = w.unusable
           /\ DOMAIN w.seen \subseteq DOMAIN w2.seen
           /\ Reads(w, w2, tier)
           /\ Sound(w2) => \A f \in tier : f > w.cursor =>
                               f \in DOMAIN w2.seen \/ (~Over(w2) /\ f > w2.cursor)
<1> PICK rest : rest = Beyond(tier, w.cursor)
  OBVIOUS
<1>1. rest \subseteq tier /\ rest \in SUBSET Nat /\ \A f \in tier : f > w.cursor => f \in rest
  BY MembershipAssumption DEF Beyond
<1>2. CASE rest = {}
  <2>1. w2 = [w EXCEPT !.pages = @ + 1, !.status = "EXHAUSTED"]
    BY <1>2, Zenon DEF AfterPage
  <2>2. w2.unusable = w.unusable /\ w2.seen = w.seen /\ w2 \in Walks
    <3> DEFINE a == [w EXCEPT !.pages = @ + 1]
    <3>1. a \in Walks /\ a.unusable = w.unusable /\ a.seen = w.seen
      BY SMT DEF Walks
    <3>2. w2 = [a EXCEPT !.status = "EXHAUSTED"] /\ "EXHAUSTED" \in Statuses
      BY <2>1, Zenon DEF Statuses
    <3> HIDE DEF a
    <3> QED
      BY <3>1, <3>2, SMT DEF Walks
  <2> QED
    BY <1>1, <1>2, <2>2, NothingRead
<1>3. CASE rest # {}
  <2>1. PICK t : t = First(rest)
    OBVIOUS
  <2>2. t \in rest /\ \A u \in rest : t <= u
    BY <1>1, <1>3, <2>1, FirstIsLeast
  <2> DEFINE status == CASE rest \ {t} = {} -> "EXHAUSTED"
                         [] rest \ {t} # {} /\ w.pages + 1 >= MaxPages -> "TRUNCATED_BY_LIMIT"
                         [] OTHER -> "NOT_ATTEMPTED"
             seen == [u \in DOMAIN w.seen \cup {t} |-> IF u = t THEN market[t] ELSE w.seen[u]]
  <2>3. w2 = Updated(w, seen, t, status)
    BY <1>3, <2>1, Zenon DEF AfterPage, Updated
  <2>4. status \in Statuses /\ (rest \ {t} # {} => status # "EXHAUSTED")
    BY DEF Statuses
  <2>5. seen \in Readings
    <3>1. PICK T \in SUBSET Tickers : w.seen \in [T -> Times]
      BY SMT DEF Walks, Readings
    <3>2. T \cup {t} \in SUBSET Tickers /\ DOMAIN w.seen = T
      BY <1>1, <2>2, <3>1
    <3>3. seen \in [T \cup {t} -> Times]
      BY <1>1, <2>2, <3>1, <3>2
    <3> QED
      BY <3>2, <3>3 DEF Readings
  <2>6. DOMAIN seen = DOMAIN w.seen \cup {t}
    OBVIOUS
  <2> HIDE DEF status, seen
  <2>7. /\ w2 \in Walks /\ w2.unusable = w.unusable /\ w2.status = status
        /\ w2.cursor = t /\ w2.seen = seen
    <3>1. t \in Nat
      BY <1>1, <2>2
    <3> QED
      BY <2>3, <2>4, <2>5, <3>1, UpdatedWalk
  <2>8. ASSUME Sound(w2), NEW f \in tier, f > w.cursor
        PROVE  f \in DOMAIN w2.seen \/ (~Over(w2) /\ f > w2.cursor)
    <3>1. f \in rest
      BY <1>1, <2>8
    <3>2. CASE f = t
      BY <2>7, <2>6, <3>2
    <3>3. CASE f # t
      <4>1. f > t
        BY <1>1, <2>2, <3>1, <3>3, SMT
      <4>2. status = "NOT_ATTEMPTED"
        BY <2>7, <2>8, <2>4, <3>1, <3>3 DEF Sound
      <4> QED
        BY <2>7, <4>1, <4>2 DEF Over
    <3> QED
      BY <3>2, <3>3
  <2>9. Reads(w, w2, tier)
    <3>1. \A u \in DOMAIN w.seen \cup {t} : seen[u] = IF u = t THEN market[t] ELSE w.seen[u]
      BY DEF seen
    <3>2. t \in tier
      BY <1>1, <2>2
    <3>3. ASSUME NEW u \in DOMAIN w2.seen
          PROVE  \/ u \in DOMAIN w.seen /\ w2.seen[u] = w.seen[u]
                 \/ u \in tier /\ w2.seen[u] = market[u]
      <4>1. u \in DOMAIN w.seen \cup {t} /\ w2.seen[u] = seen[u]
        BY <2>6, <2>7, <3>3
      <4>2. CASE u = t
        BY <3>1, <3>2, <4>1, <4>2
      <4>3. CASE u # t
        BY <3>1, <4>1, <4>3
      <4> QED
        BY <4>2, <4>3
    <3> QED
      BY <3>3 DEF Reads
  <2> QED
    BY <2>6, <2>7, <2>8, <2>9
<1> QED
  BY <1>2, <1>3

\* The same of whatever happens to a request for a page: a failed one and one
\* with an unusable record leave a walk that is not sound.
LEMMA StepCovers ==
    ASSUME NEW w \in Walks, NEW tier \in SUBSET Tickers, \A t \in tier : market[t] \in Times,
           NEW w2, StepWalk(w, w2, tier), w.status = "NOT_ATTEMPTED"
    PROVE  /\ w2 \in Walks
           /\ Reads(w, w2, tier)
           /\ Sound(w2) =>
                /\ Sound(w)
                /\ DOMAIN w.seen \subseteq DOMAIN w2.seen
                /\ \A f \in tier : f > w.cursor =>
                       f \in DOMAIN w2.seen \/ (~Over(w2) /\ f > w2.cursor)
<1>1. CASE w2 = AfterPage(w, tier)
  BY <1>1, PageCovers DEF Sound
<1>2. CASE w2 = Failed(w)
  <2>1. w2.seen = w.seen /\ w2.status = "FAILED" /\ w2 \in Walks
    BY <1>2 DEF Failed, Walks, Statuses
  <2> QED
    BY <2>1, NothingRead DEF Sound
<1>3. CASE w2 = AfterUnusablePage(w, tier)
  <2>1. PICK page : page = AfterPage(w, tier) /\ w2 = [page EXCEPT !.seen = w.seen, !.unusable = TRUE]
    BY <1>3 DEF AfterUnusablePage
  <2>2. page \in Walks
    BY <2>1, PageCovers
  <2> DEFINE a == [page EXCEPT !.seen = w.seen]
  <2>3. a \in Walks /\ a.seen = w.seen
    BY <2>2, SMT DEF Walks
  <2> DEFINE b == [a EXCEPT !.unusable = TRUE]
  <2>4. w2 = b
    BY <2>1, Zenon
  <2> HIDE DEF a
  <2>5. TRUE \in Flags
    BY Zenon DEF Flags
  <2>6. b \in Walks
    <3>1. ASSUME NEW x \in Flags PROVE [a EXCEPT !.unusable = x] \in Walks
      BY <2>3, SMT DEF Walks
    <3> QED
      BY <2>5, <3>1, Zenon
  <2>7. b.unusable = TRUE
    BY <2>3, Zenon DEF Walks
  <2>8. b.seen = w.seen
    BY <2>3, SMT DEF Walks
  <2> QED
    BY <2>4, <2>6, <2>7, <2>8, NothingRead, Zenon DEF Sound
<1> QED
  BY <1>1, <1>2, <1>3 DEF StepWalk

-----------------------------------------------------------------------------
(* The venue.  *)

\* Whatever the venue does, what was archived stays archived and no market
\* becomes a founder.
LEMMA VenueKeepsArchives ==
    ASSUME VenueInv, VenueMoves
    PROVE  /\ VenueInv'
           /\ \A f \in founders' : f \in founders /\ (Archived(f) => Archived(f)')
<1> USE MembershipAssumption DEF VenueInv, Listed
<1>1. CASE CreateMarket
  <2>1. PICK t \in Tickers \ (Listed \cup withdrawn) :
          market' = [u \in Listed \cup {t} |-> IF u = t THEN Undetermined ELSE market[u]]
    BY <1>1 DEF CreateMarket
  <2>2. UNCHANGED <<now, cutoff, founders>>
    BY <1>1 DEF CreateMarket
  <2>3. /\ DOMAIN market' = Listed \cup {t}
        /\ \A u \in Listed : market'[u] = market[u]
        /\ market'[t] = Undetermined
    BY <2>1
  <2>4. VenueInv'
    BY <2>2, <2>3 DEF Times
  <2> QED
    BY <2>2, <2>3, <2>4 DEF Archived, Settled
<1>2. CASE DetermineMarket \/ SettleMarket
  <2>1. PICK t \in Listed : \E record \in {Determined, now} :
          ~Settled(t) /\ market' = [market EXCEPT ![t] = record]
    BY <1>2 DEF DetermineMarket, SettleMarket, Settled
  <2>2. UNCHANGED <<now, cutoff, founders>>
    BY <1>2 DEF DetermineMarket, SettleMarket
  <2>3. /\ DOMAIN market' = Listed
        /\ \A u \in Listed : u # t => market'[u] = market[u]
        /\ market'[t] \in Times
    BY <2>1 DEF Times
  <2>4. VenueInv'
    BY <2>2, <2>3
  <2> QED
    BY <2>1, <2>2, <2>3, <2>4 DEF Archived, Settled
<1>3. CASE WithdrawMarket
  <2>1. PICK t \in Listed \cap provisional :
          /\ market' = [u \in Listed \ {t} |-> market[u]]
          /\ founders' = founders \ {t}
    BY <1>3 DEF WithdrawMarket
  <2>2. UNCHANGED <<now, cutoff>>
    BY <1>3 DEF WithdrawMarket
  <2>3. /\ DOMAIN market' = Listed \ {t}
        /\ \A u \in Listed \ {t} : market'[u] = market[u]
    BY <2>1
  <2>4. VenueInv'
    BY <2>1, <2>2, <2>3
  <2> QED
    BY <2>1, <2>2, <2>3, <2>4 DEF Archived, Settled
<1>4. CASE TimePasses
  <2>1. now' = now + 1 /\ UNCHANGED <<market, founders>>
    BY <1>4 DEF TimePasses
  <2>2. cutoff' \in Int /\ cutoff <= cutoff'
    BY <1>4, SMT DEF TimePasses
  <2>3. VenueInv'
    BY <2>1, <2>2
  <2>4. ASSUME NEW f \in founders, Archived(f)
        PROVE  Archived(f)'
    <3>1. market[f] \in Int
      BY <2>4 DEF Archived, Settled, Times
    <3> QED
      BY <2>1, <2>2, <2>4, <3>1, SMT DEF Archived, Settled
  <2> QED
    BY <2>1, <2>3, <2>4
<1> QED
  BY <1>1, <1>2, <1>3, <1>4 DEF VenueMoves

-----------------------------------------------------------------------------
(* The enumeration.  *)

LEMMA MembershipInvInit == Init => MembershipInv
<1> SUFFICES ASSUME Init PROVE MembershipInv
  OBVIOUS
<1>1. VenueInv
  <2>1. PICK T \in SUBSET Tickers : market \in [T -> {0, Undetermined, Determined}]
    BY DEF Init
  <2>2. cutoff \in Int
    BY SMT DEF Init
  <2> QED
    BY <2>1, <2>2 DEF Init, VenueInv, Listed, Times
<1>2. live \in Walks /\ hist \in Walks
  <2>1. <<>> \in [{} -> Times]
    OBVIOUS
  <2>2. <<>> \in Readings /\ "NOT_ATTEMPTED" \in Statuses
    BY <2>1 DEF Readings, Statuses
  <2>3. FALSE \in Flags
    BY DEF Flags
  <2> QED
    BY <2>2, <2>3 DEF Init, NewWalk, Walks
<1>3. OrderInv
  BY <1>2 DEF Init, OrderInv, NewWalk, Over
<1>4. LiveCovers /\ HistCovers
  BY <1>1, MembershipAssumption DEF Init, LiveCovers, HistCovers, NewWalk, Over, VenueInv, Listed
<1> QED
  BY <1>1, <1>3, <1>4 DEF MembershipInv

LEMMA WalkLiveStep == MembershipInv /\ WalkLive => MembershipInv'
<1> SUFFICES ASSUME MembershipInv, WalkLive PROVE MembershipInv'
  OBVIOUS
<1>1. /\ phase = "live" /\ StepWalk(live, live', Tier(FALSE))
      /\ phase' = IF Over(live') THEN "historical" ELSE phase
      /\ UNCHANGED <<venueVars, hist>>
  BY DEF WalkLive
<1>2. live \in Walks /\ hist = NewWalk /\ live.status = "NOT_ATTEMPTED" /\ ~Over(hist)
  BY <1>1 DEF MembershipInv, OrderInv, Over, NewWalk
<1>3. Tier(FALSE) \in SUBSET Tickers /\ \A t \in Tier(FALSE) : market[t] \in Times
  BY DEF Tier, MembershipInv, VenueInv
<1>4. /\ live' \in Walks
      /\ Sound(live') =>
           /\ Sound(live)
           /\ LiveSeen \subseteq LiveSeen'
           /\ \A f \in Tier(FALSE) : f > live.cursor =>
                  f \in LiveSeen' \/ (~Over(live') /\ f > live'.cursor)
  BY <1>1, <1>2, <1>3, StepCovers DEF LiveSeen
<1>5. VenueInv' /\ \A f \in founders : Archived(f)' = Archived(f)
  BY <1>1 DEF venueVars, MembershipInv, VenueInv, Listed, Archived, Settled
<1>6. OrderInv'
  BY <1>1, <1>2, <1>4 DEF MembershipInv, OrderInv
<1>7. LiveCovers'
  <2> SUFFICES ASSUME Sound(live'), NEW f \in founders'
               PROVE  f \in LiveSeen' \/ Archived(f)' \/ (~Over(live') /\ f > live'.cursor)
    BY DEF LiveCovers
  <2>1. f \in founders /\ f \in Listed
    BY <1>1 DEF venueVars, MembershipInv, VenueInv
  <2>2. f \in LiveSeen \/ Archived(f) \/ f > live.cursor
    BY <1>4, <2>1 DEF MembershipInv, LiveCovers
  <2>3. Archived(f) \/ f \in Tier(FALSE)
    BY <2>1 DEF Tier, Archived
  <2> QED
    BY <1>4, <1>5, <2>1, <2>2, <2>3
<1>8. HistCovers'
  <2> SUFFICES ASSUME Sound(live'), Over(live'), NEW f \in founders'
               PROVE  f \in LiveSeen' \/ (~Over(hist') /\ f > hist'.cursor /\ Archived(f)')
    BY DEF HistCovers
  <2>1. f \in founders' /\ f \in Nat \ {0}
    BY <1>5, MembershipAssumption DEF VenueInv
  <2>2. hist'.cursor = 0
    BY <1>1, <1>2 DEF NewWalk
  <2>3. f \in LiveSeen' \/ Archived(f)'
    BY <1>7, <2>1 DEF LiveCovers
  <2> QED
    BY <1>1, <1>2, <2>1, <2>2, <2>3, SMT
<1> QED
  BY <1>5, <1>6, <1>7, <1>8 DEF MembershipInv

LEMMA WalkHistoricalStep == MembershipInv /\ WalkHistorical => MembershipInv'
<1> SUFFICES ASSUME MembershipInv, WalkHistorical PROVE MembershipInv'
  OBVIOUS
<1>1. /\ phase = "historical" /\ StepWalk(hist, hist', Tier(TRUE))
      /\ phase' = IF Over(hist') THEN "cutoff_after" ELSE phase
      /\ UNCHANGED <<venueVars, live>>
  BY DEF WalkHistorical
<1>2. hist \in Walks /\ hist.status = "NOT_ATTEMPTED" /\ ~Over(hist) /\ Over(live)
  BY <1>1 DEF MembershipInv, OrderInv, Over
<1>3. Tier(TRUE) \in SUBSET Tickers /\ \A t \in Tier(TRUE) : market[t] \in Times
  BY DEF Tier, MembershipInv, VenueInv
<1>4. /\ hist' \in Walks
      /\ Sound(hist') =>
           /\ Sound(hist)
           /\ HistSeen \subseteq HistSeen'
           /\ \A f \in Tier(TRUE) : f > hist.cursor =>
                  f \in HistSeen' \/ (~Over(hist') /\ f > hist'.cursor)
  BY <1>1, <1>2, <1>3, StepCovers DEF HistSeen
<1>5. VenueInv' /\ \A f \in founders : Archived(f)' = Archived(f)
  BY <1>1 DEF venueVars, MembershipInv, VenueInv, Listed, Archived, Settled
<1>6. OrderInv'
  BY <1>1, <1>2, <1>4 DEF MembershipInv, OrderInv
<1>7. LiveCovers'
  BY <1>1, <1>5 DEF venueVars, MembershipInv, LiveCovers, LiveSeen
<1>8. HistCovers'
  <2> SUFFICES ASSUME Sound(live'), Sound(hist'), NEW f \in founders'
               PROVE  \/ f \in LiveSeen' \cup HistSeen'
                      \/ ~Over(hist') /\ f > hist'.cursor /\ Archived(f)'
    BY DEF HistCovers
  <2>1. f \in founders /\ f \in Listed /\ LiveSeen' = LiveSeen /\ Sound(live)
    BY <1>1 DEF venueVars, MembershipInv, VenueInv, LiveSeen
  <2>2. f \in LiveSeen \cup HistSeen \/ (f > hist.cursor /\ Archived(f))
    BY <1>2, <1>4, <2>1 DEF MembershipInv, HistCovers
  <2>3. Archived(f) => f \in Tier(TRUE)
    BY <2>1 DEF Tier, Archived
  <2> QED
    BY <1>4, <1>5, <2>1, <2>2, <2>3
<1> QED
  BY <1>5, <1>6, <1>7, <1>8 DEF MembershipInv

LEMMA MembershipInvStep == MembershipInv /\ [Next]_vars => MembershipInv'
<1> SUFFICES ASSUME MembershipInv, [Next]_vars PROVE MembershipInv'
  OBVIOUS
<1>1. ASSUME VenueInv',
             \A f \in founders' : f \in founders /\ (Archived(f) => Archived(f)'),
             UNCHANGED <<live, hist>>
      PROVE  LiveCovers' /\ HistCovers'
  BY <1>1 DEF MembershipInv, LiveCovers, HistCovers, LiveSeen, HistSeen
<1>2. CASE VenueMoves
  <2>1. UNCHANGED <<phase, live, hist>>
    BY <1>2 DEF VenueMoves
  <2> QED
    BY <1>1, <1>2, <2>1, VenueKeepsArchives DEF MembershipInv, OrderInv
<1>3. ASSUME UNCHANGED <<venueVars, live, hist>>, OrderInv'
      PROVE  MembershipInv'
  <2>1. VenueInv'
    BY <1>3 DEF venueVars, MembershipInv, VenueInv, Listed
  <2>2. \A f \in founders' : f \in founders /\ (Archived(f) => Archived(f)')
    BY <1>3 DEF venueVars, Archived, Settled
  <2> QED
    BY <1>1, <1>3, <2>1, <2>2 DEF MembershipInv
<1>4. CASE ReadCutoffBefore
  BY <1>3, <1>4 DEF ReadCutoffBefore, MembershipInv, OrderInv
<1>5. CASE ReadCutoffAfter
  BY <1>3, <1>5 DEF ReadCutoffAfter, MembershipInv, OrderInv
<1>6. CASE ReadEvent
  BY <1>3, <1>6 DEF ReadEvent, MembershipInv, OrderInv
<1>7. CASE UNCHANGED vars
  BY <1>3, <1>7 DEF vars, MembershipInv, OrderInv
<1> QED
  BY <1>2, <1>4, <1>5, <1>6, <1>7, WalkLiveStep, WalkHistoricalStep DEF Next, Enumerate

\* Two exhausted walks with no dropped record have seen every founder.
LEMMA FoundersAreSeen ==
    MembershipInv /\ phase = "done" /\ BothPathsExhausted => founders \subseteq LiveSeen \cup HistSeen
<1> SUFFICES ASSUME MembershipInv, phase = "done", BothPathsExhausted, NEW f \in founders
             PROVE  f \in LiveSeen \cup HistSeen
  OBVIOUS
<1>1. Sound(live) /\ Sound(hist) /\ Over(live) /\ Over(hist)
  BY DEF MembershipInv, OrderInv, BothPathsExhausted, FinalStatus, Sound, Walks, Flags
<1> QED
  BY <1>1 DEF MembershipInv, HistCovers

\* The live tier is walked first "so a market that moves is seen twice, never
\* not at all": when both walks ran to exhaustion, every market the event had
\* throughout is a member (enumerate_event_membership).
THEOREM NoMarketIsOmitted == Spec => []NothingIsOmitted
<1>1. MembershipInv => NothingIsOmitted
  BY FoundersAreSeen DEF NothingIsOmitted, Members
<1> QED
  BY <1>1, MembershipInvInit, MembershipInvStep, PTL DEF Spec

-----------------------------------------------------------------------------
(* The partition.  *)

\* What the readings say of the tiers: nothing read live had settled before
\* the first reading, all that was read archived had settled before the second.
CutoffReadings ==
    /\ before \in Int \cup {Unread} /\ after \in Int \cup {Unread}
    /\ before \in Int => before <= cutoff
    /\ phase \in {"cutoff_before", "live", "historical", "cutoff_after"} => after = Unread

LiveReadings ==
    /\ phase = "cutoff_before" => LiveSeen = {}
    /\ \A t \in LiveSeen : live.seen[t] \in Int /\ before \in Int => before <= live.seen[t]

ArchivedReadings ==
    \A t \in HistSeen : /\ hist.seen[t] \in Int /\ hist.seen[t] < cutoff
                        /\ after \in Int => hist.seen[t] < after

PartitionInv == CutoffReadings /\ LiveReadings /\ ArchivedReadings

LEMMA CutoffOnlyAdvances ==
    ASSUME VenueInv, [Next]_vars
    PROVE  cutoff' \in Int /\ cutoff <= cutoff'
<1>1. CASE UNCHANGED cutoff
  BY <1>1 DEF VenueInv
<1>2. CASE TimePasses
  BY <1>2, SMT DEF TimePasses, VenueInv
<1> QED
  BY <1>1, <1>2 DEF Next, vars, venueVars, VenueMoves, CreateMarket, DetermineMarket,
     SettleMarket, WithdrawMarket, Enumerate, ReadCutoffBefore, WalkLive, WalkHistorical, ReadCutoffAfter,
     ReadEvent

LEMMA PartitionInvStep == MembershipInv /\ PartitionInv /\ [Next]_vars => PartitionInv'
<1> SUFFICES ASSUME MembershipInv, PartitionInv, [Next]_vars PROVE PartitionInv'
  OBVIOUS
<1> USE MembershipAssumption
<1>1. /\ cutoff \in Int /\ cutoff' \in Int /\ cutoff <= cutoff'
      /\ CutoffReadings /\ LiveReadings /\ ArchivedReadings
  BY CutoffOnlyAdvances DEF MembershipInv, VenueInv, PartitionInv
<1>2. CASE WalkLive
  <2>1. /\ StepWalk(live, live', Tier(FALSE)) /\ phase = "live"
        /\ phase' \in {"live", "historical"}
        /\ UNCHANGED <<before, after, hist, cutoff>>
    BY <1>2 DEF WalkLive, venueVars
  <2>2. Reads(live, live', Tier(FALSE))
    BY <2>1, StepCovers DEF MembershipInv, OrderInv, VenueInv, Tier, Over
  <2>3. ASSUME NEW t \in LiveSeen', live'.seen[t] \in Int, before \in Int
        PROVE  before <= live'.seen[t]
    <3>1. CASE t \in LiveSeen /\ live'.seen[t] = live.seen[t]
      BY <1>1, <2>3, <3>1 DEF LiveReadings
    <3>2. CASE t \in Tier(FALSE) /\ live'.seen[t] = market[t]
      <4>1. ~(market[t] < cutoff)
        BY <2>3, <3>2 DEF Tier, Archived, Settled
      <4> QED
        BY <1>1, <2>3, <3>2, <4>1, SMT DEF CutoffReadings
    <3> QED
      BY <2>2, <2>3, <3>1, <3>2 DEF Reads, LiveSeen
  <2>4. CutoffReadings'
    BY <1>1, <2>1 DEF CutoffReadings
  <2>5. LiveReadings'
    BY <2>1, <2>3 DEF LiveReadings
  <2>6. ArchivedReadings'
    BY <1>1, <2>1 DEF ArchivedReadings, HistSeen
  <2> QED
    BY <2>4, <2>5, <2>6 DEF PartitionInv
<1>3. CASE WalkHistorical
  <2>1. /\ StepWalk(hist, hist', Tier(TRUE)) /\ phase = "historical"
        /\ phase' \in {"historical", "cutoff_after"}
        /\ UNCHANGED <<before, after, live, cutoff>>
    BY <1>3 DEF WalkHistorical, venueVars
  <2>2. Reads(hist, hist', Tier(TRUE))
    BY <2>1, StepCovers DEF MembershipInv, OrderInv, VenueInv, Tier, Over
  <2>3. ASSUME NEW t \in HistSeen'
        PROVE  hist'.seen[t] \in Int /\ hist'.seen[t] < cutoff
    <3>1. CASE t \in HistSeen /\ hist'.seen[t] = hist.seen[t]
      BY <1>1, <3>1 DEF ArchivedReadings
    <3>2. CASE t \in Tier(TRUE) /\ hist'.seen[t] = market[t]
      <4>1. t \in Listed /\ Archived(t)
        BY <3>2, Zenon DEF Tier
      <4> QED
        BY <3>2, <4>1 DEF Archived, Settled, MembershipInv, VenueInv, Times
    <3> QED
      BY <2>2, <2>3, <3>1, <3>2 DEF Reads, HistSeen
  <2>4. CutoffReadings' /\ after' = Unread
    BY <1>1, <2>1 DEF CutoffReadings
  <2>5. LiveReadings'
    BY <1>1, <2>1 DEF LiveReadings, LiveSeen
  <2>6. ArchivedReadings'
    BY <2>1, <2>3, <2>4 DEF ArchivedReadings
  <2> QED
    BY <2>4, <2>5, <2>6 DEF PartitionInv
<1>4. CASE ReadCutoffBefore
  <2>1. /\ phase = "cutoff_before" /\ phase' = "live"
        /\ before' \in {cutoff, Unread} /\ UNCHANGED <<after, live, hist, cutoff>>
    BY <1>4 DEF ReadCutoffBefore, venueVars
  <2>2. CutoffReadings'
    BY <1>1, <2>1 DEF CutoffReadings
  <2>3. LiveReadings' /\ ArchivedReadings'
    BY <1>1, <2>1 DEF LiveReadings, ArchivedReadings, LiveSeen, HistSeen
  <2> QED
    BY <2>2, <2>3 DEF PartitionInv
<1>5. CASE ReadCutoffAfter
  <2>1. /\ phase' = "event" /\ after' \in {cutoff, Unread}
        /\ UNCHANGED <<before, live, hist, cutoff>>
    BY <1>5 DEF ReadCutoffAfter, venueVars
  <2>2. CutoffReadings' /\ LiveReadings'
    BY <1>1, <2>1 DEF CutoffReadings, LiveReadings, LiveSeen
  <2>3. ArchivedReadings'
    BY <1>1, <2>1 DEF ArchivedReadings, HistSeen
  <2> QED
    BY <2>2, <2>3 DEF PartitionInv
<1>6. CASE ReadEvent
  <2>1. phase' = "done" /\ UNCHANGED <<before, after, live, hist, cutoff>>
    BY <1>6 DEF ReadEvent, venueVars
  <2> QED
    BY <1>1, <2>1 DEF PartitionInv, CutoffReadings, LiveReadings, ArchivedReadings,
       LiveSeen, HistSeen
<1>7. CASE VenueMoves \/ UNCHANGED vars
  <2>1. UNCHANGED <<phase, before, after, live, hist>>
    BY <1>7 DEF VenueMoves, vars
  <2>2. CutoffReadings'
    BY <1>1, <2>1 DEF CutoffReadings
  <2>3. LiveReadings'
    BY <1>1, <2>1 DEF LiveReadings, LiveSeen
  <2>4. ArchivedReadings'
    BY <1>1, <2>1 DEF ArchivedReadings, HistSeen
  <2> QED
    BY <2>2, <2>3, <2>4 DEF PartitionInv
<1> QED
  BY <1>2, <1>3, <1>4, <1>5, <1>6, <1>7 DEF Next, Enumerate

\* A venue that keeps its documented partition is never reported to list a
\* market in the wrong tier, unless the cutoff is reported to have moved during
\* the enumeration (_check_partition).
THEOREM NoVenueIsFalselyAccused == Spec => []NoFalseAccusation
<1> DEFINE Inv == MembershipInv /\ PartitionInv
<1>1. Init => Inv
  <2> SUFFICES ASSUME Init PROVE PartitionInv
    BY MembershipInvInit
  <2> QED
    BY MembershipAssumption DEF Init, PartitionInv, CutoffReadings, LiveReadings,
       ArchivedReadings, NewWalk, LiveSeen, HistSeen
<1>2. Inv /\ [Next]_vars => Inv'
  BY MembershipInvStep, PartitionInvStep
<1>3. Inv => NoFalseAccusation
  <2> SUFFICES ASSUME Inv, phase = "done"
               PROVE  /\ LiveButSettledEarlier = {} /\ ArchivedButUnsettled = {}
                      /\ ArchivedButSettledLater = {} \/ CutoffMoved
    BY DEF NoFalseAccusation
  <2> USE MembershipAssumption
  <2>1. LiveReadings /\ ArchivedReadings /\ before \in Int \cup {Unread}
    BY DEF PartitionInv, CutoffReadings
  <2>2. ASSUME NEW t \in LiveButSettledEarlier PROVE FALSE
    <3>1. t \in LiveSeen /\ live.seen[t] \in Int /\ before \in Int /\ live.seen[t] < before
      BY <2>2 DEF LiveButSettledEarlier, SourceOf, RecordOf, PartitionBoundary
    <3> QED
      BY <2>1, <3>1, SMT DEF LiveReadings
  <2>3. ASSUME NEW t \in Members, SourceOf(t) = "HISTORICAL"
        PROVE  t \in HistSeen \ LiveSeen /\ RecordOf(t) = hist.seen[t]
    <3>1. t \in HistSeen \ LiveSeen
      BY <2>3 DEF SourceOf
    <3> QED
      BY <3>1 DEF RecordOf
  <2>4. ASSUME NEW t \in ArchivedButUnsettled PROVE FALSE
    <3>1. t \in HistSeen /\ hist.seen[t] \in {Undetermined, Determined}
      BY <2>3, <2>4 DEF ArchivedButUnsettled
    <3> QED
      BY <2>1, <3>1 DEF ArchivedReadings
  <2>5. ASSUME NEW t \in ArchivedButSettledLater, ~CutoffMoved PROVE FALSE
    <3>1. t \in Members /\ SourceOf(t) = "HISTORICAL" /\ RecordOf(t) >= before /\ before \in Int
      BY <2>5 DEF ArchivedButSettledLater, PartitionBoundary
    <3>2. t \in HistSeen /\ hist.seen[t] >= before
      BY <2>3, <3>1
    <3>3. after = before
      BY <2>5, <3>1 DEF CutoffMoved
    <3> QED
      BY <2>1, <3>1, <3>2, <3>3, SMT DEF ArchivedReadings
  <2> QED
    BY <2>2, <2>4, <2>5
<1> QED
  BY <1>1, <1>2, <1>3, PTL DEF Spec

-----------------------------------------------------------------------------
(* Finality.  *)

\* The selected basket is what the event started with: a selected market is a
\* founder or has been withdrawn, and a withdrawn ticker does not come back.
SelectedInv ==
    /\ founders = selected \cap Listed
    /\ selected \subseteq Listed \cup withdrawn
    /\ Listed \cap withdrawn = {}

\* What a walk saw determined is determined still, unless it was withdrawn.
StaysDetermined(w) ==
    \A t \in DOMAIN w.seen :
        /\ t \in Listed \cup withdrawn
        /\ t \in Listed /\ w.seen[t] # Undetermined => market[t] # Undetermined

\* The event view is the last word: the venue does not move after it.
ViewIsLast ==
    IF phase = "done" THEN nested \in {Tier(FALSE), Unread} ELSE nested = Unread

FinalInv == SelectedInv /\ StaysDetermined(live) /\ StaysDetermined(hist) /\ ViewIsLast

\* What a request adds to a walk was listed as it was read.
LEMMA ReadingStaysDetermined ==
    ASSUME NEW w, NEW w2, NEW historical, Reads(w, w2, Tier(historical)), StaysDetermined(w)
    PROVE  StaysDetermined(w2)
<1> SUFFICES ASSUME NEW t \in DOMAIN w2.seen
             PROVE  /\ t \in Listed \cup withdrawn
                    /\ t \in Listed /\ w2.seen[t] # Undetermined => market[t] # Undetermined
  BY DEF StaysDetermined
<1>1. CASE t \in DOMAIN w.seen /\ w2.seen[t] = w.seen[t]
  BY <1>1 DEF StaysDetermined
<1>2. CASE t \in Tier(historical) /\ w2.seen[t] = market[t]
  BY <1>2 DEF Tier
<1> QED
  BY <1>1, <1>2 DEF Reads

\* The venue re-uses no ticker and takes no determination back.
LEMMA VenueKeepsOutcomes ==
    ASSUME VenueInv, SelectedInv, VenueMoves, NEW w, StaysDetermined(w)
    PROVE  /\ SelectedInv'
           /\ \A t \in DOMAIN w.seen :
                /\ t \in Listed' \cup withdrawn'
                /\ t \in Listed' /\ w.seen[t] # Undetermined => market'[t] # Undetermined
<1> DEFINE Kept == \A t \in DOMAIN w.seen :
                     /\ t \in Listed' \cup withdrawn'
                     /\ t \in Listed' /\ w.seen[t] # Undetermined => market'[t] # Undetermined
<1>1. selected' = selected
  BY DEF VenueMoves
<1>2. CASE CreateMarket
  <2>1. PICK t \in Tickers \ (Listed \cup withdrawn) :
          market' = [u \in Listed \cup {t} |-> IF u = t THEN Undetermined ELSE market[u]]
    BY <1>2 DEF CreateMarket
  <2>2. UNCHANGED <<withdrawn, founders>>
    BY <1>2 DEF CreateMarket
  <2>3. Listed' = Listed \cup {t} /\ \A u \in Listed : market'[u] = market[u]
    BY <2>1 DEF Listed
  <2>4. SelectedInv'
    BY <1>1, <2>1, <2>2, <2>3 DEF SelectedInv
  <2>5. Kept
    BY <2>1, <2>2, <2>3 DEF StaysDetermined
  <2> QED
    BY <2>4, <2>5
<1>3. CASE DetermineMarket \/ SettleMarket
  <2>1. PICK t \in Listed : \E record \in {Determined, now} :
          market' = [market EXCEPT ![t] = record]
    BY <1>3 DEF DetermineMarket, SettleMarket
  <2>2. UNCHANGED <<withdrawn, founders>>
    BY <1>3 DEF DetermineMarket, SettleMarket
  <2>3. /\ Listed' = Listed /\ market'[t] # Undetermined
        /\ \A u \in Listed : u # t => market'[u] = market[u]
    BY <2>1, MembershipAssumption DEF Listed, VenueInv
  <2>4. SelectedInv'
    BY <1>1, <2>2, <2>3 DEF SelectedInv
  <2>5. Kept
    BY <2>2, <2>3 DEF StaysDetermined
  <2> QED
    BY <2>4, <2>5
<1>4. CASE WithdrawMarket
  <2>1. PICK t \in Listed \cap provisional :
          /\ market' = [u \in Listed \ {t} |-> market[u]]
          /\ withdrawn' = withdrawn \cup {t}
          /\ founders' = founders \ {t}
    BY <1>4 DEF WithdrawMarket
  <2>2. Listed' = Listed \ {t} /\ \A u \in Listed \ {t} : market'[u] = market[u]
    BY <2>1 DEF Listed
  <2>3. SelectedInv'
    BY <1>1, <2>1, <2>2 DEF SelectedInv
  <2>4. Kept
    BY <2>1, <2>2 DEF StaysDetermined
  <2> QED
    BY <2>3, <2>4
<1>5. CASE TimePasses
  <2>1. UNCHANGED <<market, withdrawn, founders>>
    BY <1>5 DEF TimePasses
  <2> QED
    BY <1>1, <2>1 DEF SelectedInv, StaysDetermined, Listed
<1> QED
  BY <1>2, <1>3, <1>4, <1>5 DEF VenueMoves

LEMMA FinalInvStep == MembershipInv /\ FinalInv /\ [Next]_vars => FinalInv'
<1> SUFFICES ASSUME MembershipInv, FinalInv, [Next]_vars PROVE FinalInv'
  OBVIOUS
<1>1. SelectedInv /\ StaysDetermined(live) /\ StaysDetermined(hist) /\ ViewIsLast
  BY DEF FinalInv
<1>2. ASSUME UNCHANGED <<venueVars, selected>>
      PROVE  /\ SelectedInv'
             /\ UNCHANGED live => StaysDetermined(live)'
             /\ UNCHANGED hist => StaysDetermined(hist)'
  BY <1>1, <1>2 DEF venueVars, SelectedInv, StaysDetermined, Listed
<1>3. CASE VenueMoves
  <2>1. UNCHANGED <<phase, live, hist, nested>> /\ phase # "done"
    BY <1>3 DEF VenueMoves
  <2>2. SelectedInv' /\ StaysDetermined(live)' /\ StaysDetermined(hist)'
    BY <1>1, <1>3, <2>1, VenueKeepsOutcomes DEF MembershipInv, StaysDetermined
  <2> QED
    BY <1>1, <2>1, <2>2 DEF FinalInv, ViewIsLast
<1>4. CASE WalkLive
  <2>1. /\ StepWalk(live, live', Tier(FALSE)) /\ phase = "live" /\ phase' # "done"
        /\ UNCHANGED <<venueVars, selected, hist, nested>>
    BY <1>4 DEF WalkLive
  <2>2. Reads(live, live', Tier(FALSE))
    BY <2>1, StepCovers DEF MembershipInv, OrderInv, VenueInv, Tier, Over
  <2>3. StaysDetermined(live')
    BY <1>1, <2>2, ReadingStaysDetermined
  <2>4. StaysDetermined(live)'
    BY <2>1, <2>3 DEF venueVars, StaysDetermined, Listed
  <2> QED
    BY <1>1, <1>2, <2>1, <2>4 DEF FinalInv, ViewIsLast
<1>5. CASE WalkHistorical
  <2>1. /\ StepWalk(hist, hist', Tier(TRUE)) /\ phase = "historical" /\ phase' # "done"
        /\ UNCHANGED <<venueVars, selected, live, nested>>
    BY <1>5 DEF WalkHistorical
  <2>2. Reads(hist, hist', Tier(TRUE))
    BY <2>1, StepCovers DEF MembershipInv, OrderInv, VenueInv, Tier, Over
  <2>3. StaysDetermined(hist')
    BY <1>1, <2>2, ReadingStaysDetermined
  <2>4. StaysDetermined(hist)'
    BY <2>1, <2>3 DEF venueVars, StaysDetermined, Listed
  <2> QED
    BY <1>1, <1>2, <2>1, <2>4 DEF FinalInv, ViewIsLast
<1>6. CASE ReadCutoffBefore \/ ReadCutoffAfter
  <2>1. /\ phase # "done" /\ phase' # "done"
        /\ UNCHANGED <<venueVars, selected, live, hist, nested>>
    BY <1>6 DEF ReadCutoffBefore, ReadCutoffAfter
  <2> QED
    BY <1>1, <1>2, <2>1 DEF FinalInv, ViewIsLast
<1>7. CASE ReadEvent
  <2>1. /\ phase' = "done" /\ nested' \in {Tier(FALSE), Unread}
        /\ UNCHANGED <<venueVars, selected, live, hist>>
    BY <1>7 DEF ReadEvent
  <2>2. Tier(FALSE)' = Tier(FALSE)
    BY <2>1 DEF venueVars, Tier, Listed, Archived, Settled
  <2> QED
    BY <1>2, <2>1, <2>2 DEF FinalInv, ViewIsLast
<1>8. CASE UNCHANGED vars
  <2>1. UNCHANGED <<venueVars, selected, live, hist, nested, phase>>
    BY <1>8 DEF vars
  <2>2. Tier(FALSE)' = Tier(FALSE)
    BY <2>1 DEF venueVars, Tier, Listed, Archived, Settled
  <2> QED
    BY <1>1, <1>2, <2>1, <2>2 DEF FinalInv, ViewIsLast
<1> QED
  BY <1>3, <1>4, <1>5, <1>6, <1>7, <1>8 DEF Next, Enumerate

\* Evidence fit to be cited is final: what the venue lists live once the event
\* view has been read is selected and determined (membership_reliance_reasons).
THEOREM CitableEvidenceIsFinal == Spec => []CitableIsFinal
<1> DEFINE Inv == MembershipInv /\ FinalInv
<1>1. Init => Inv
  <2> SUFFICES ASSUME Init PROVE FinalInv
    BY MembershipInvInit
  <2> QED
    BY DEF Init, FinalInv, SelectedInv, StaysDetermined, ViewIsLast, NewWalk, Listed
<1>2. Inv /\ [Next]_vars => Inv'
  BY MembershipInvStep, FinalInvStep
<1>3. Inv => CitableIsFinal
  <2> SUFFICES ASSUME Inv, phase = "done", Citable, nested # Unread, NEW t \in Tier(FALSE)
               PROVE  t \in selected /\ market[t] # Undetermined
    BY DEF CitableIsFinal
  <2>1. t \in Members /\ t \in Listed
    BY DEF FinalInv, ViewIsLast, Members, NestedSeen, Tier
  <2>2. t \in selected /\ t \in founders
    BY <2>1 DEF Citable, FinalInv, SelectedInv
  <2>3. t \in LiveSeen \cup HistSeen
    BY <2>2, FoundersAreSeen DEF Citable
  <2>4. RecordOf(t) # Undetermined
    BY <2>1 DEF Citable, EventOpen
  <2>5. CASE t \in LiveSeen
    <3>1. live.seen[t] # Undetermined
      BY <2>4, <2>5 DEF RecordOf
    <3> QED
      BY <2>1, <2>2, <2>5, <3>1 DEF FinalInv, StaysDetermined, LiveSeen
  <2>6. CASE t \in HistSeen \ LiveSeen
    <3>1. hist.seen[t] # Undetermined
      BY <2>4, <2>6 DEF RecordOf
    <3> QED
      BY <2>1, <2>2, <2>6, <3>1 DEF FinalInv, StaysDetermined, HistSeen
  <2> QED
    BY <2>3, <2>5, <2>6
<1> QED
  BY <1>1, <1>2, <1>3, PTL DEF Spec

-----------------------------------------------------------------------------
(* Whether the documented strikes leave a value uncovered.                 *)

Ends == Int \cup {Unbounded}
Intervals == [lower : Ends, upper : Ends, lowerIn : BOOLEAN, upperIn : BOOLEAN]
Reaches == [from : Ends, to : Ends, in : BOOLEAN, gap : BOOLEAN, openGap : BOOLEAN]

\* Every end of an interval is a strike some member has.
StrikeBounds == {s.floor : s \in Strikes} \cup {s.cap : s \in Strikes}

CoverageTypeOK ==
    /\ intervals \in Seq(Intervals)
    /\ domain \in Domains
    /\ swept \subseteq Positions
    /\ reach \in Reaches
    /\ \A k \in Positions : {intervals[k].lower, intervals[k].upper} \subseteq StrikeBounds \cup {Unbounded}

\* The sweep began at an interval none is sorted before.
BeganFirst ==
    swept # {} =>
        \E f \in swept : /\ reach.from = intervals[f].lower
                         /\ \A k \in Positions : ~Precedes(intervals[k], intervals[f])

\* v lies above the first interval's lower end and no further than coverage
\* reaches.
Within(r, v) ==
    /\ r.from # Unbounded => v > r.from
    /\ r.to # Unbounded => v < r.to \/ (v = r.to /\ r.in)

\* No value of V that lies within is left out by the intervals in S.
Fills(S, r, V) == \A v \in V : Within(r, v) => \E k \in S : Satisfies(intervals[k], v)

Grid == {v \in Int : v % domain.grid = 0}

\* As long as coverage did not break, it left no value out: no value of the
\* grid, where the step is the grid's, and none at all where there is no step.
CoverInv ==
    swept # {} =>
        /\ ~reach.openGap => Fills(swept, reach, Int)
        /\ EffectiveStep(domain) = Unbounded => (reach.gap <=> reach.openGap)
        /\ ~reach.gap /\ OnGrid /\ domain.grid # Unbounded /\ EffectiveStep(domain) = domain.grid
             => Fills(swept, reach, Grid)

\* Coverage reaches to the end of some interval, and no swept interval goes
\* further, unless a second one is unbounded below.
EndsWhereReached ==
    swept # {} /\ reach.to # Unbounded =>
        /\ \E k \in swept : reach.to = intervals[k].upper
        /\ OneUnboundedBelow =>
             \A k \in swept : /\ intervals[k].upper # Unbounded
                              /\ intervals[k].upper <= reach.to
                              /\ intervals[k].upper = reach.to /\ intervals[k].upperIn => reach.in

InDomain(v) ==
    /\ domain.lower # Unbounded => v >= domain.lower
    /\ domain.upper # Unbounded => v <= domain.upper

\* v satisfies no interval swept, and every other one begins above it.
Misses(v) ==
    /\ \A k \in swept : ~Satisfies(intervals[k], v)
    /\ \A k \in Positions \ swept :
         /\ intervals[k].lower # Unbounded
         /\ v < intervals[k].lower \/ (v = intervals[k].lower /\ ~intervals[k].lowerIn)

\* Where coverage broke there is a value that is missed for good.
GapInv ==
    swept # {} /\ reach.openGap /\ StrikesInDomain /\ OneUnboundedBelow =>
        \E v \in Values : InDomain(v) /\ Misses(v)

CoverageInv == CoverageTypeOK /\ BeganFirst /\ CoverInv /\ EndsWhereReached /\ GapInv


LEMMA GridStep ==
  ASSUME NEW g \in Nat \ {0}, NEW a \in Int, NEW b \in Int, a % g = 0, b % g = 0, a < b
  PROVE  a + g <= b
<1>1. PICK m \in Int, n \in Int : a = g * m /\ b = g * n
  <2>1. a = g * (a \div g) + (a % g) /\ b = g * (b \div g) + (b % g)
    OBVIOUS
  <2>2. a \div g \in Int /\ b \div g \in Int
    OBVIOUS
  <2> QED
    BY <2>1, <2>2
<1>2. m < n
  <2> SUFFICES ASSUME n <= m PROVE FALSE
    BY <1>1
  <2>1. g * n <= g * m
    OBVIOUS
  <2> QED
    BY <1>1, <2>1
<1>3. g * (m + 1) <= g * n
  <2>1. m + 1 <= n
    BY <1>2
  <2> QED
    BY <2>1
<1>4. g * (m + 1) = g * m + g
  OBVIOUS
<1> QED
  BY <1>1, <1>3, <1>4

LEMMA StrikesAreTyped ==
  /\ Unbounded \notin Int /\ Values \subseteq Int
  /\ StrikeBounds \subseteq Values \cup {Unbounded}
  /\ \A d \in Domains : /\ d.lower \in Values \cup {Unbounded} /\ d.upper \in Values \cup {Unbounded}
                        /\ d.grid \in (Nat \ {0}) \cup {Unbounded}
                        /\ EffectiveStep(d) \in Int \cup {Unbounded}
  /\ \A a, b \in StrikeBounds \ {Unbounded} : a < b => \E v \in Values : a < v /\ v < b
<1> USE PartitionAssumption
<1>1. StrikeBounds \subseteq Values \cup {Unbounded}
  BY DEF StrikeBounds
<1>2. \A d \in Domains : EffectiveStep(d) \in Int \cup {Unbounded}
  BY DEF EffectiveStep
<1>3. ASSUME NEW a \in StrikeBounds \ {Unbounded}, NEW b \in StrikeBounds \ {Unbounded}, a < b
      PROVE  \E v \in Values : a < v /\ v < b
  <2>1. PICK s \in Strikes : a \in {s.floor, s.cap}
    BY DEF StrikeBounds
  <2>2. PICK t \in Strikes : b \in {t.floor, t.cap}
    BY DEF StrikeBounds
  <2> QED
    BY <1>3, <2>1, <2>2
<1>4. \A d \in Domains : /\ d.lower \in Values \cup {Unbounded} /\ d.upper \in Values \cup {Unbounded}
                         /\ d.grid \in (Nat \ {0}) \cup {Unbounded}
  OBVIOUS
<1> QED
  BY <1>1, <1>2, <1>3, <1>4

LEMMA StrikeTyping ==
  ASSUME NEW s \in Strikes
  PROVE  LET i == IntervalFromStrike(s)
         IN  i \in Intervals /\ {i.lower, i.upper} \subseteq StrikeBounds \cup {Unbounded}
<1>1. s.floor \in StrikeBounds /\ s.cap \in StrikeBounds
  BY DEF StrikeBounds
<1>2. s.floor \in Ends /\ s.cap \in Ends
  BY <1>1, StrikesAreTyped DEF Ends
<1> QED
  BY <1>1, <1>2 DEF IntervalFromStrike, Intervals, Ends

\* What one more interval makes of the reach.
LEMMA SweepOneTyping ==
  ASSUME NEW r \in Reaches, NEW i \in Intervals, NEW width
  PROVE  /\ SweepOne(r, i, width) \in Reaches
         /\ SweepOne(r, i, width).from = r.from
<1>1. Breaks(r, i, width) \in Reaches /\ Breaks(r, i, width).from = r.from
  BY DEF Breaks, Reaches, Contiguous
<1> QED
  BY <1>1 DEF SweepOne, Reaches, Intervals, Ends

\* Where coverage reached, and no value of V lies between it and the next
\* interval, that interval leaves no value of V out.
LEMMA FillsOn ==
  ASSUME NEW V \in SUBSET Int, NEW S \in SUBSET Positions, NEW k \in Positions \ S,
         CoverageTypeOK, NEW r \in Reaches, Fills(S, r, V), NEW width,
         r.to # Unbounded /\ intervals[k].lower # Unbounded =>
           \A v \in V : \/ v < r.to \/ (v = r.to /\ r.in)
                        \/ v > intervals[k].lower \/ (v = intervals[k].lower /\ intervals[k].lowerIn)
  PROVE  Fills(S \cup {k}, SweepOne(r, intervals[k], width), V)
<1>0. PICK i \in Intervals : i = intervals[k]
  BY DEF CoverageTypeOK, Positions
<1>1. PICK q \in Reaches : q = SweepOne(r, i, width)
  BY <1>0, SweepOneTyping
<1>2. q.from = r.from
  BY <1>1, SweepOneTyping
<1> SUFFICES ASSUME NEW v \in V, Within(q, v), ~Within(r, v)
             PROVE  Satisfies(i, v)
  BY <1>0, <1>1 DEF Fills
<1>3. r.from # Unbounded => v > r.from
  BY <1>2 DEF Within
<1>4. r.to # Unbounded /\ ~(v < r.to \/ (v = r.to /\ r.in))
  BY <1>3 DEF Within
<1>5. CASE i.lower = Unbounded
  <2>1. q.to = i.upper /\ q.in = i.upperIn
    BY <1>1, <1>4, <1>5 DEF SweepOne, Reaches
  <2> QED
    BY <1>5, <2>1 DEF Within, Satisfies
<1>6. CASE i.lower # Unbounded
  <2>1. v > i.lower \/ (v = i.lower /\ i.lowerIn)
    BY <1>0, <1>4, <1>6
  <2>2. PICK b : b = Breaks(r, i, width)
    OBVIOUS
  <2>6. b \in Reaches /\ b.to = r.to /\ (b.in <=> r.in)
    BY <2>2 DEF Breaks, Reaches, Contiguous
  <2>3. q = IF i.upper = Unbounded THEN [b EXCEPT !.to = Unbounded, !.in = TRUE]
            ELSE IF i.upper > r.to \/ (i.upper = r.to /\ i.upperIn)
                 THEN [b EXCEPT !.to = i.upper, !.in = i.upperIn]
                 ELSE b
    BY <1>1, <1>4, <1>6, <2>2 DEF SweepOne
  <2>4. q # b
    <3> SUFFICES ASSUME q = b PROVE FALSE
      OBVIOUS
    <3>1. q.to = r.to /\ (q.in <=> r.in)
      BY <2>6
    <3>2. q.to # Unbounded => v < q.to \/ (v = q.to /\ q.in)
      BY DEF Within
    <3> QED
      BY <1>4, <3>1, <3>2
  <2>5. i.upper # Unbounded => q.to = i.upper /\ q.in = i.upperIn
    BY <2>3, <2>4, <2>6 DEF Reaches
  <2> QED
    BY <1>6, <2>1, <2>5 DEF Within, Satisfies
<1> QED
  BY <1>5, <1>6

-----------------------------------------------------------------------------
LEMMA CoverageInvInit == PartitionInit => CoverageInv
<1> SUFFICES ASSUME PartitionInit PROVE CoverageInv
  OBVIOUS
<1>1. Positions = {}
  BY DEF PartitionInit, Positions
<1>2. CoverageTypeOK
  BY <1>1 DEF PartitionInit, CoverageTypeOK, Reaches, Ends
<1> QED
  BY <1>2 DEF PartitionInit, CoverageInv, BeganFirst, CoverInv, EndsWhereReached, GapInv

LEMMA ReadMemberStep ==
  ASSUME CoverageInv, NEW s \in Strikes, ReadMember(s)
  PROVE  CoverageInv'
<1>1. swept' = {} /\ domain' = domain /\ reach' = reach
  BY DEF ReadMember
<1>2. PICK i \in Intervals :
        /\ {i.lower, i.upper} \subseteq StrikeBounds \cup {Unbounded}
        /\ intervals' \in {intervals, Append(intervals, i)}
  BY StrikeTyping DEF ReadMember
<1>3. /\ intervals' \in Seq(Intervals)
      /\ \A k \in Positions' : intervals'[k] = i \/ (k \in Positions /\ intervals'[k] = intervals[k])
  BY <1>2 DEF CoverageInv, CoverageTypeOK, Positions
<1>4. CoverageTypeOK'
  BY <1>1, <1>2, <1>3 DEF CoverageInv, CoverageTypeOK
<1> QED
  BY <1>1, <1>4 DEF CoverageInv, BeganFirst, CoverInv, EndsWhereReached, GapInv

\* The interval that comes first of those not swept is sorted before none of
\* them.
LEMMA ForemostIsFirst ==
  ASSUME CoverageTypeOK, NEW k \in Positions, Foremost(k)
  PROVE  \A j \in Positions \ swept : ~Precedes(intervals[j], intervals[k])
<1> SUFFICES ASSUME NEW j \in Positions \ swept, Precedes(intervals[j], intervals[k]) PROVE FALSE
  OBVIOUS
<1>1. PICK a \in Intervals, b \in Intervals : a = intervals[j] /\ b = intervals[k]
  BY DEF CoverageTypeOK, Positions
<1>2. Precedes(a, b)
  BY <1>1
<1>3. ~Precedes(b, a) /\ ~(a = b)
  BY <1>2, StrikesAreTyped DEF Precedes, Intervals, Ends
<1>4. SortedBefore(k, j)
  BY <1>1, <1>3 DEF Foremost
<1> QED
  BY <1>1, <1>2, <1>3, <1>4 DEF SortedBefore

LEMMA CoverStep ==
  ASSUME CoverageInv, NEW k \in Positions, Sweep(k), swept # {}
  PROVE  CoverInv'
<1> DEFINE width == EffectiveStep(domain)
<1>0. /\ k \in Positions \ swept /\ swept \in SUBSET Positions /\ CoverageTypeOK /\ CoverInv
      /\ reach \in Reaches
  BY DEF Sweep, Foremost, CoverageInv, CoverageTypeOK
<1>1. PICK i \in Intervals : i = intervals[k]
  BY DEF CoverageInv, CoverageTypeOK, Positions
<1>2. /\ intervals' = intervals /\ domain' = domain /\ Positions' = Positions
      /\ swept' = swept \cup {k} /\ reach' = SweepOne(reach, i, width)
  BY <1>1 DEF Sweep, Positions
<1>3. /\ OnGrid' <=> OnGrid
      /\ \A S, r, V : Fills(S, r, V)' <=> Fills(S, r, V)
      /\ Grid' = Grid
  BY <1>2 DEF OnGrid, Fills, Grid, Positions
<1>4. /\ reach.openGap => reach'.openGap
      /\ reach.gap => reach'.gap
      /\ reach.to # Unbounded /\ i.lower # Unbounded =>
           /\ reach'.openGap <=> reach.openGap \/ ~Contiguous(reach.to, reach.in, i, Unbounded)
           /\ reach'.gap <=> reach.gap \/ ~Contiguous(reach.to, reach.in, i, width)
      /\ ~(reach.to # Unbounded /\ i.lower # Unbounded) =>
           /\ reach'.openGap <=> reach.openGap
           /\ reach'.gap <=> reach.gap
  <2> DEFINE b == Breaks(reach, i, width)
  <2>1. /\ b \in Reaches
        /\ b.openGap <=> reach.openGap \/ ~Contiguous(reach.to, reach.in, i, Unbounded)
        /\ b.gap <=> reach.gap \/ ~Contiguous(reach.to, reach.in, i, width)
    BY <1>0 DEF Breaks, Reaches, Contiguous
  <2>2. reach.to # Unbounded /\ i.lower # Unbounded => (reach'.openGap <=> b.openGap) /\ (reach'.gap <=> b.gap)
    BY <1>2, <2>1 DEF SweepOne, Reaches
  <2>3. ~(reach.to # Unbounded /\ i.lower # Unbounded) =>
           (reach'.openGap <=> reach.openGap) /\ (reach'.gap <=> reach.gap)
    BY <1>0, <1>2 DEF SweepOne, Reaches
  <2> QED
    BY <2>1, <2>2, <2>3
<1>5. ASSUME ~reach'.openGap PROVE Fills(swept', reach', Int)
  <2>1. Fills(swept, reach, Int)
    BY <1>0, <1>4, <1>5 DEF CoverInv
  <2>2. ASSUME reach.to # Unbounded, i.lower # Unbounded, NEW v \in Int
        PROVE  v < reach.to \/ (v = reach.to /\ reach.in) \/ v > i.lower \/ (v = i.lower /\ i.lowerIn)
    <3>1. Contiguous(reach.to, reach.in, i, Unbounded)
      BY <1>4, <1>5, <2>2
    <3>2. reach.to \in Int /\ i.lower \in Int
      BY <1>0, <2>2 DEF Reaches, Intervals, Ends
    <3> QED
      BY <3>1, <3>2 DEF Contiguous
  <2>3. Fills(swept \cup {k}, SweepOne(reach, i, width), Int)
    BY <1>0, <1>1, <2>1, <2>2, FillsOn
  <2> QED
    BY <1>2, <2>3
<1>6. ASSUME ~reach'.gap, OnGrid, domain.grid # Unbounded, width = domain.grid
      PROVE  Fills(swept', reach', Grid)
  <2>1. Fills(swept, reach, Grid)
    BY <1>0, <1>4, <1>6 DEF CoverInv
  <2>2. ASSUME reach.to # Unbounded, i.lower # Unbounded, NEW v \in Grid
        PROVE  v < reach.to \/ (v = reach.to /\ reach.in) \/ v > i.lower \/ (v = i.lower /\ i.lowerIn)
    <3>1. Contiguous(reach.to, reach.in, i, width)
      BY <1>4, <1>6, <2>2
    <3>2. PICK g \in Nat \ {0} : g = domain.grid
      BY <1>0, <1>6, StrikesAreTyped DEF CoverageTypeOK
    <3>3. PICK to \in Int, from \in Int : to = reach.to /\ from = i.lower
      BY <1>0, <2>2 DEF Reaches, Intervals, Ends
    <3>4. to % g = 0 /\ from % g = 0 /\ v % g = 0 /\ v \in Int
      <4>1. from % g = 0
        BY <1>1, <1>6, <2>2, <3>2, <3>3 DEF OnGrid
      <4>2. PICK j \in Positions : reach.to = intervals[j].upper
        BY <1>0, <2>2 DEF CoverageInv, EndsWhereReached
      <4>3. to % g = 0
        BY <1>6, <2>2, <3>2, <3>3, <4>2 DEF OnGrid
      <4> QED
        BY <3>2, <4>1, <4>3 DEF Grid
    <3> SUFFICES ASSUME ~(v < to \/ (v = to /\ reach.in)), ~(v > from \/ (v = from /\ i.lowerIn))
                 PROVE  FALSE
      BY <3>3
    <3>5. to <= v /\ v <= from /\ (v = to => ~reach.in) /\ (v = from => ~i.lowerIn)
      BY <3>3, <3>4
    <3>6. /\ to < v => to + g <= v
          /\ v < from => v + g <= from
      BY <3>2, <3>4, GridStep
    <3>7. \/ from = to /\ (reach.in \/ i.lowerIn)
          \/ (IF reach.in THEN to + g ELSE to) > (IF i.lowerIn THEN from - g ELSE from)
      <4>1. Contiguous(to, reach.in, i, g)
        BY <1>6, <3>1, <3>2, <3>3
      <4> QED
        BY <3>3, <3>5, <4>1 DEF Contiguous
    <3>8. PICK a \in {to, to + g}, b \in {from, from - g} :
            /\ a = (IF reach.in THEN to + g ELSE to)
            /\ b = (IF i.lowerIn THEN from - g ELSE from)
      OBVIOUS
    <3>9. a <= v
      BY <3>2, <3>3, <3>4, <3>5, <3>6, <3>8
    <3>10. v <= b
      BY <3>2, <3>3, <3>4, <3>5, <3>6, <3>8
    <3>11. to = from => v = to /\ v = from
      BY <3>3, <3>4, <3>5
    <3> QED
      BY <3>2, <3>3, <3>4, <3>5, <3>7, <3>8, <3>9, <3>10, <3>11
  <2>3. Fills(swept \cup {k}, SweepOne(reach, i, width), Grid)
    BY <1>0, <1>1, <2>1, <2>2, FillsOn DEF Grid
  <2> QED
    BY <1>2, <2>3
<1>7. width = Unbounded => (reach'.gap <=> reach'.openGap)
  BY <1>0, <1>4 DEF CoverInv
<1>8. EffectiveStep(domain') = width
  BY <1>2
<1> QED
  BY <1>2, <1>3, <1>5, <1>6, <1>7, <1>8 DEF CoverInv

\* The first interval swept.
LEMMA FirstSweepStep ==
  ASSUME CoverageInv, NEW k \in Positions, Sweep(k), swept = {}
  PROVE  BeganFirst' /\ CoverInv' /\ EndsWhereReached' /\ GapInv'
<1>1. PICK i \in Intervals : i = intervals[k]
  BY DEF CoverageInv, CoverageTypeOK, Positions
<1>2. /\ intervals' = intervals /\ domain' = domain /\ Positions' = Positions
      /\ swept' = {k} /\ reach' = SweepFrom(i)
  BY <1>1 DEF Sweep, Positions
<1>3. reach'.from = i.lower /\ reach'.to = i.upper /\ (reach'.in <=> i.upperIn)
      /\ ~reach'.gap /\ ~reach'.openGap
  BY <1>2 DEF SweepFrom, Intervals
<1>4. BeganFirst'
  <2>1. \A j \in Positions : ~Precedes(intervals[j], intervals[k])
    BY ForemostIsFirst DEF CoverageInv, Sweep
  <2> QED
    BY <1>1, <1>2, <1>3, <2>1 DEF BeganFirst
<1>5. CoverInv'
  <2>1. \A v \in Int : Within(reach', v) => Satisfies(i, v)
    BY <1>3 DEF Within, Satisfies
  <2>2. Fills(swept, reach, Int)'
    BY <1>1, <1>2, <2>1 DEF Fills
  <2>3. Fills(swept, reach, Grid)'
    BY <1>1, <1>2, <2>1 DEF Fills, Grid
  <2> QED
    BY <1>3, <2>2, <2>3 DEF CoverInv
<1>6. EndsWhereReached'
  <2>1. i.upper # Unbounded => i.upper <= i.upper
    BY StrikesAreTyped DEF Intervals, Ends
  <2> QED
    BY <1>1, <1>2, <1>3, <2>1 DEF EndsWhereReached
<1>7. GapInv'
  BY <1>3 DEF GapInv
<1> QED
  BY <1>4, <1>5, <1>6, <1>7

\* What a step of the sweep does to the reach while it is bounded.
LEMMA ReachMoves ==
  ASSUME NEW r \in Reaches, NEW i \in Intervals, NEW width, NEW q, q = SweepOne(r, i, width)
  PROVE  /\ r.to = Unbounded => q = r
         /\ r.to # Unbounded /\ i.lower = Unbounded =>
              q.to = i.upper /\ (q.in <=> i.upperIn) /\ (q.openGap <=> r.openGap)
         /\ r.to # Unbounded /\ i.lower # Unbounded =>
              /\ q.openGap <=> r.openGap \/ ~Contiguous(r.to, r.in, i, Unbounded)
              /\ i.upper = Unbounded => q.to = Unbounded
              /\ i.upper # Unbounded /\ (i.upper > r.to \/ (i.upper = r.to /\ i.upperIn)) =>
                   q.to = i.upper /\ (q.in <=> i.upperIn)
              /\ i.upper # Unbounded /\ ~(i.upper > r.to \/ (i.upper = r.to /\ i.upperIn)) =>
                   q.to = r.to /\ (q.in <=> r.in)
<1>1. PICK b : b = Breaks(r, i, width)
  OBVIOUS
<1>2. /\ b \in Reaches /\ b.to = r.to /\ (b.in <=> r.in)
      /\ b.openGap <=> r.openGap \/ ~Contiguous(r.to, r.in, i, Unbounded)
  BY <1>1 DEF Breaks, Reaches, Contiguous
<1>3. CASE r.to = Unbounded \/ i.lower = Unbounded
  BY <1>3 DEF SweepOne, Reaches, Intervals
<1>4. CASE r.to # Unbounded /\ i.lower # Unbounded
  <2>1. q = IF i.upper = Unbounded THEN [b EXCEPT !.to = Unbounded, !.in = TRUE]
            ELSE IF i.upper > r.to \/ (i.upper = r.to /\ i.upperIn)
                 THEN [b EXCEPT !.to = i.upper, !.in = i.upperIn]
                 ELSE b
    BY <1>1, <1>4 DEF SweepOne
  <2> QED
    BY <1>2, <1>4, <2>1 DEF Reaches, Intervals
<1> QED
  BY <1>3, <1>4

\* Once the sweep began, an interval that is unbounded below is the second one.
LEMMA SecondUnbounded ==
  ASSUME CoverageTypeOK, BeganFirst, NEW k \in Positions \ swept, swept # {},
         intervals[k].lower = Unbounded
  PROVE  ~OneUnboundedBelow
<1>1. PICK f \in swept : ~Precedes(intervals[k], intervals[f])
  BY DEF BeganFirst
<1>2. intervals[f].lower = Unbounded
  BY <1>1 DEF Precedes
<1>3. f \in Positions /\ f # k
  BY DEF CoverageTypeOK
<1> QED
  BY <1>2, <1>3 DEF OneUnboundedBelow

LEMMA EndsStep ==
  ASSUME CoverageInv, NEW k \in Positions, Sweep(k), swept # {}
  PROVE  EndsWhereReached'
<1>0. k \in Positions \ swept /\ reach \in Reaches
  BY DEF Sweep, Foremost, CoverageInv, CoverageTypeOK
<1>1. PICK i \in Intervals : i = intervals[k]
  BY DEF CoverageInv, CoverageTypeOK, Positions
<1>2. /\ intervals' = intervals /\ Positions' = Positions
      /\ swept' = swept \cup {k} /\ reach' = SweepOne(reach, i, EffectiveStep(domain))
  BY <1>1 DEF Sweep, Positions
<1>3. OneUnboundedBelow' <=> OneUnboundedBelow
  BY <1>2 DEF OneUnboundedBelow
<1> SUFFICES ASSUME reach'.to # Unbounded
             PROVE  /\ \E j \in swept' : reach'.to = intervals[j].upper
                    /\ OneUnboundedBelow =>
                         \A j \in swept' : /\ intervals[j].upper # Unbounded
                                           /\ intervals[j].upper <= reach'.to
                                           /\ intervals[j].upper = reach'.to /\ intervals[j].upperIn => reach'.in
  BY <1>2, <1>3 DEF EndsWhereReached
<1>4. reach.to # Unbounded
  BY <1>0, <1>2, ReachMoves
<1>5. CASE i.lower = Unbounded
  <2>1. ~OneUnboundedBelow
    BY <1>0, <1>1, <1>5, SecondUnbounded DEF CoverageInv
  <2>2. reach'.to = intervals[k].upper
    BY <1>0, <1>1, <1>2, <1>4, <1>5, ReachMoves
  <2> QED
    BY <1>2, <2>1, <2>2
<1>6. CASE i.lower # Unbounded
  <2>1. /\ i.upper # Unbounded
        /\ \/ (i.upper > reach.to \/ (i.upper = reach.to /\ i.upperIn))
              /\ reach'.to = i.upper /\ (reach'.in <=> i.upperIn)
           \/ ~(i.upper > reach.to \/ (i.upper = reach.to /\ i.upperIn))
              /\ reach'.to = reach.to /\ (reach'.in <=> reach.in)
    BY <1>0, <1>2, <1>4, <1>6, ReachMoves
  <2>2. PICK up \in Int, to \in Int, to2 \in Int : up = i.upper /\ to = reach.to /\ to2 = reach'.to
    BY <1>0, <1>4, <2>1 DEF Reaches, Intervals, Ends
  <2>3. \E j \in swept' : reach'.to = intervals[j].upper
    BY <1>1, <1>2, <1>4, <2>1 DEF CoverageInv, EndsWhereReached
  <2>4. ASSUME OneUnboundedBelow, NEW j \in swept
        PROVE  /\ intervals[j].upper # Unbounded /\ intervals[j].upper <= to2
               /\ intervals[j].upper = to2 /\ intervals[j].upperIn => reach'.in
    <3>1. /\ intervals[j].upper # Unbounded /\ intervals[j].upper <= to
          /\ intervals[j].upper = to /\ intervals[j].upperIn => reach.in
      BY <1>4, <2>2, <2>4 DEF CoverageInv, EndsWhereReached
    <3>2. intervals[j] \in Intervals
      BY DEF CoverageInv, CoverageTypeOK, Positions
    <3>3. PICK u \in Int : u = intervals[j].upper
      BY <3>1, <3>2 DEF Intervals, Ends
    <3>4. u <= to2 /\ (u = to2 => to2 = to \/ (up > to /\ u > to))
      BY <2>1, <2>2, <3>1, <3>3
    <3>5. u = to2 /\ intervals[j].upperIn => reach'.in
      BY <2>1, <2>2, <3>1, <3>3, <3>4
    <3> QED
      BY <3>1, <3>3, <3>4, <3>5
  <2>5. i.upper <= to2 /\ (i.upper = to2 /\ i.upperIn => reach'.in)
    BY <2>1, <2>2
  <2> QED
    BY <1>1, <1>2, <2>1, <2>2, <2>3, <2>4, <2>5
<1> QED
  BY <1>5, <1>6

\* Where the sweep breaks without a step, a value lies between.
LEMMA BreakLeavesAValue ==
  ASSUME CoverageInv, NEW k \in Positions, Foremost(k), swept # {},
         reach.to # Unbounded, intervals[k].lower # Unbounded,
         ~Contiguous(reach.to, reach.in, intervals[k], Unbounded),
         StrikesInDomain, OneUnboundedBelow
  PROVE  \E v \in Values :
           /\ InDomain(v)
           /\ \A j \in swept : ~Satisfies(intervals[j], v)
           /\ v < intervals[k].lower \/ (v = intervals[k].lower /\ ~intervals[k].lowerIn)
<1>1. PICK i \in Intervals : i = intervals[k]
  BY DEF CoverageInv, CoverageTypeOK, Positions
<1>2. PICK f \in swept : reach.to = intervals[f].upper
  BY DEF CoverageInv, EndsWhereReached
<1>3. f \in Positions
  BY DEF CoverageInv, CoverageTypeOK
<1>4. reach.to \in StrikeBounds \ {Unbounded} /\ i.lower \in StrikeBounds \ {Unbounded}
  BY <1>1, <1>2, <1>3 DEF CoverageInv, CoverageTypeOK
<1>5. PICK to \in Values, low \in Values : to = reach.to /\ low = i.lower
  BY <1>4, StrikesAreTyped
<1>6. to \in Int /\ low \in Int
  BY StrikesAreTyped
<1>7. \/ low > to
      \/ low = to /\ ~reach.in /\ ~i.lowerIn
  BY <1>1, <1>5, <1>6 DEF Contiguous
<1>8. PICK v \in Values : /\ to <= v /\ v <= low
                          /\ v = to => ~reach.in
                          /\ v = low => ~i.lowerIn
  <2>1. CASE low > to
    <3>1. PICK v \in Values : to < v /\ v < low
      BY <1>4, <1>5, <2>1, StrikesAreTyped
    <3> QED
      BY <1>6, <3>1, StrikesAreTyped
  <2> QED
    BY <1>6, <1>7, <2>1
<1>9. v \in Int
  BY StrikesAreTyped
<1>10. InDomain(v)
  <2>1. /\ domain.lower # Unbounded => to >= domain.lower
        /\ domain.upper # Unbounded => low <= domain.upper
    BY <1>1, <1>2, <1>3, <1>4, <1>5 DEF StrikesInDomain
  <2>2. {domain.lower, domain.upper} \subseteq Int \cup {Unbounded}
    BY StrikesAreTyped DEF CoverageInv, CoverageTypeOK
  <2> QED
    BY <1>6, <1>8, <1>9, <2>1, <2>2 DEF InDomain
<1>11. ASSUME NEW j \in swept PROVE ~Satisfies(intervals[j], v)
  <2>1. /\ intervals[j].upper # Unbounded /\ intervals[j].upper <= to
        /\ intervals[j].upper = to /\ intervals[j].upperIn => reach.in
    BY <1>5 DEF CoverageInv, EndsWhereReached
  <2>2. intervals[j] \in Intervals
    BY DEF CoverageInv, CoverageTypeOK, Positions
  <2>3. PICK u \in Int : u = intervals[j].upper
    BY <2>1, <2>2 DEF Intervals, Ends
  <2>4. ~(v < u) /\ (v = u => u = to /\ v = to)
    BY <1>6, <1>8, <1>9, <2>1, <2>3
  <2> QED
    BY <1>8, <2>1, <2>3, <2>4 DEF Satisfies
<1>12. v < low \/ (v = low /\ ~i.lowerIn)
  BY <1>6, <1>8, <1>9
<1> QED
  BY <1>1, <1>5, <1>10, <1>11, <1>12

LEMMA GapStep ==
  ASSUME CoverageInv, NEW k \in Positions, Sweep(k), swept # {}
  PROVE  GapInv'
<1>0. /\ k \in Positions \ swept /\ reach \in Reaches /\ CoverageTypeOK /\ swept \subseteq Positions
      /\ Foremost(k)
  BY DEF Sweep, Foremost, CoverageInv, CoverageTypeOK
<1>1. PICK i \in Intervals : i = intervals[k]
  BY DEF CoverageInv, CoverageTypeOK, Positions
<1>2. /\ intervals' = intervals /\ Positions' = Positions /\ domain' = domain
      /\ swept' = swept \cup {k} /\ reach' = SweepOne(reach, i, EffectiveStep(domain))
  BY <1>1 DEF Sweep, Positions
<1>3. /\ OneUnboundedBelow' <=> OneUnboundedBelow
      /\ StrikesInDomain' <=> StrikesInDomain
      /\ \A v : InDomain(v)' <=> InDomain(v)
  BY <1>2 DEF OneUnboundedBelow, StrikesInDomain, InDomain
<1> SUFFICES ASSUME reach'.openGap, StrikesInDomain, OneUnboundedBelow
             PROVE  \E v \in Values : InDomain(v) /\ Misses(v)'
  BY <1>3 DEF GapInv
<1>4. PICK v \in Values : /\ InDomain(v)
                          /\ \A j \in swept : ~Satisfies(intervals[j], v)
                          /\ \A j \in Positions \ swept :
                               /\ intervals[j].lower # Unbounded
                               /\ v < intervals[j].lower \/ (v = intervals[j].lower /\ ~intervals[j].lowerIn)
  <2>1. CASE reach.openGap
    BY <2>1 DEF CoverageInv, GapInv, Misses
  <2>2. CASE ~reach.openGap
    <3>1. /\ reach.to # Unbounded /\ i.lower # Unbounded
          /\ ~Contiguous(reach.to, reach.in, i, Unbounded)
      BY <1>0, <1>2, <2>2, ReachMoves
    <3>2. PICK v \in Values :
            /\ InDomain(v)
            /\ \A j \in swept : ~Satisfies(intervals[j], v)
            /\ v < i.lower \/ (v = i.lower /\ ~i.lowerIn)
      BY <1>0, <1>1, <3>1, BreakLeavesAValue
    <3>3. ASSUME NEW j \in Positions \ swept
          PROVE  /\ intervals[j].lower # Unbounded
                 /\ v < intervals[j].lower \/ (v = intervals[j].lower /\ ~intervals[j].lowerIn)
      <4>1. PICK a \in Intervals : a = intervals[j]
        BY DEF CoverageInv, CoverageTypeOK, Positions
      <4>2. ~Precedes(a, i)
        BY <1>0, <1>1, <4>1, ForemostIsFirst
      <4>3. a.lower # Unbounded
        BY <3>1, <4>2 DEF Precedes
      <4>4. PICK x \in Int, y \in Int : x = a.lower /\ y = i.lower
        BY <3>1, <4>3 DEF Intervals, Ends
      <4>5. y <= x /\ (y = x /\ ~i.lowerIn => ~a.lowerIn)
        BY <3>1, <4>2, <4>3, <4>4 DEF Precedes
      <4>6. v \in Int
        BY StrikesAreTyped
      <4>7. v < x \/ (v = x /\ ~a.lowerIn)
        BY <3>2, <4>4, <4>5, <4>6
      <4> QED
        BY <4>1, <4>3, <4>4, <4>7
    <3> QED
      BY <3>2, <3>3
  <2> QED
    BY <2>1, <2>2
<1>5. ~Satisfies(i, v)
  <2>1. /\ i.lower # Unbounded
        /\ v < i.lower \/ (v = i.lower /\ ~i.lowerIn)
    BY <1>0, <1>1, <1>4
  <2>2. i.lower \in Int /\ v \in Int
    BY <2>1, StrikesAreTyped DEF Intervals, Ends
  <2> QED
    BY <2>1, <2>2 DEF Satisfies
<1> QED
  BY <1>1, <1>2, <1>4, <1>5 DEF Misses

LEMMA CoverageInvStep == CoverageInv /\ [PartitionNext]_partitionVars => CoverageInv'
<1> SUFFICES ASSUME CoverageInv, [PartitionNext]_partitionVars PROVE CoverageInv'
  OBVIOUS
<1>1. CASE \E s \in Strikes : ReadMember(s)
  BY <1>1, ReadMemberStep
<1>2. ASSUME NEW k \in Positions, Sweep(k) PROVE CoverageInv'
  <2>1. CoverageTypeOK'
    <3>1. PICK i \in Intervals : i = intervals[k]
      BY DEF CoverageInv, CoverageTypeOK, Positions
    <3>2. /\ intervals' = intervals /\ domain' = domain /\ Positions' = Positions
          /\ swept' = swept \cup {k}
          /\ reach' = SweepFrom(i) \/ reach' = SweepOne(reach, i, EffectiveStep(domain))
      BY <1>2, <3>1 DEF Sweep, Positions
    <3>3. reach' \in Reaches
      <4>1. SweepFrom(i) \in Reaches
        BY DEF SweepFrom, Reaches, Intervals
      <4>2. reach \in Reaches
        BY DEF CoverageInv, CoverageTypeOK
      <4>3. SweepOne(reach, i, EffectiveStep(domain)) \in Reaches
        BY <4>2, SweepOneTyping
      <4> QED
        BY <3>2, <4>1, <4>3
    <3> QED
      BY <3>2, <3>3 DEF CoverageInv, CoverageTypeOK
  <2>2. CASE swept = {}
    BY <1>2, <2>1, <2>2, FirstSweepStep DEF CoverageInv
  <2>3. CASE swept # {}
    <3>1. BeganFirst'
      <4>1. /\ intervals' = intervals /\ Positions' = Positions /\ swept' = swept \cup {k}
            /\ reach'.from = reach.from
        <5>1. intervals[k] \in Intervals /\ reach \in Reaches
          BY DEF CoverageInv, CoverageTypeOK, Positions
        <5> QED
          BY <1>2, <2>3, <5>1, SweepOneTyping DEF Sweep, Positions
      <4> QED
        BY <2>3, <4>1 DEF CoverageInv, BeganFirst
    <3> QED
      BY <1>2, <2>1, <2>3, <3>1, CoverStep, EndsStep, GapStep DEF CoverageInv
  <2> QED
    BY <2>2, <2>3
<1>3. CASE UNCHANGED partitionVars
  BY <1>3 DEF partitionVars, CoverageInv, CoverageTypeOK, BeganFirst, CoverInv, EndsWhereReached,
     GapInv, Positions, Fills, Grid, OnGrid, OneUnboundedBelow, StrikesInDomain, InDomain, Misses
<1> QED
  BY <1>1, <1>2, <1>3 DEF PartitionNext

\* Supporting an AT_LEAST_ONE argument means that every possible value above
\* the domain's lowest one satisfies a member, for any number of members and
\* any strikes on the attested grid (analyse_coverage).
THEOREM SupportCoversEveryValue == PartitionSpec => []SupportMeansCovered
<1>1. CoverageInv => SupportMeansCovered
  <2> SUFFICES ASSUME CoverageInv, Supports, OnGrid, StepIsTheGrid,
                      NEW v \in Possible(domain), v # domain.lower
               PROVE  Covered(v)
    BY DEF SupportMeansCovered
  <2>1. v \in Int /\ {domain.lower, domain.upper} \subseteq Int \cup {Unbounded} /\ reach \in Reaches
    BY StrikesAreTyped DEF Possible, CoverageInv, CoverageTypeOK
  <2>2. /\ domain.lower # Unbounded => v > domain.lower
        /\ domain.upper # Unbounded => v <= domain.upper
        /\ domain.grid # Unbounded => v % domain.grid = 0
    BY <2>1 DEF Possible
  <2>3. /\ intervals # <<>> /\ swept = Positions
        /\ reach.from # Unbounded => domain.lower # Unbounded
        /\ reach.to # Unbounded => domain.upper # Unbounded
        /\ ~reach.gap /\ ~UpperGap /\ ~LowerGap
        /\ EffectiveStep(domain) = Unbounded \/ ~reach.openGap \/ StepIsAttested(domain)
    BY DEF Supports, Analysed, Status
  <2>4. swept # {}
    <3>1. intervals \in Seq(Intervals)
      BY DEF CoverageInv, CoverageTypeOK
    <3>2. 1 \in Positions
      BY <2>3, <3>1 DEF Positions
    <3> QED
      BY <2>3, <3>2
  <2>5. Within(reach, v)
    <3>1. reach.from # Unbounded => v > reach.from
      <4> SUFFICES ASSUME reach.from # Unbounded PROVE v > reach.from
        OBVIOUS
      <4>1. PICK a \in Int, b \in Int : a = reach.from /\ b = domain.lower
        BY <2>1, <2>3 DEF Reaches, Ends
      <4> QED
        BY <2>1, <2>2, <2>3, <4>1 DEF LowerGap
    <3>2. reach.to # Unbounded => v < reach.to \/ (v = reach.to /\ reach.in)
      <4> SUFFICES ASSUME reach.to # Unbounded PROVE v < reach.to \/ (v = reach.to /\ reach.in)
        OBVIOUS
      <4>1. PICK a \in Int, b \in Int : a = reach.to /\ b = domain.upper
        BY <2>1, <2>3 DEF Reaches, Ends
      <4>2. v <= b /\ b <= a /\ (b = a => reach.in)
        BY <2>2, <2>3, <4>1 DEF UpperGap
      <4> QED
        BY <2>1, <4>1, <4>2
    <3> QED
      BY <3>1, <3>2 DEF Within
  <2>6. Fills(swept, reach, Int) \/ (v \in Grid /\ Fills(swept, reach, Grid))
    <3>1. CASE ~reach.openGap
      BY <2>4, <3>1 DEF CoverageInv, CoverInv
    <3>2. CASE EffectiveStep(domain) = Unbounded
      BY <2>3, <2>4, <3>2 DEF CoverageInv, CoverInv
    <3>3. CASE StepIsAttested(domain) /\ EffectiveStep(domain) # Unbounded
      <4>1. EffectiveStep(domain) = domain.grid /\ domain.grid # Unbounded
        BY <3>3 DEF StepIsTheGrid
      <4> QED
        BY <2>1, <2>2, <2>3, <2>4, <4>1 DEF CoverageInv, CoverInv, Grid
    <3> QED
      BY <2>3, <3>1, <3>2, <3>3
  <2> QED
    BY <2>1, <2>3, <2>5, <2>6 DEF Fills, Covered
<1> QED
  BY <1>1, CoverageInvInit, CoverageInvStep, PTL DEF PartitionSpec

\* A GAP reported without a step is a way to pay nothing: some value of the
\* domain satisfies no member (analyse_coverage's "direct ALL-NO path").
THEOREM ReportedGapIsReal == PartitionSpec => []GapIsReal
<1>1. CoverageInv => GapIsReal
  <2> SUFFICES ASSUME CoverageInv, Analysed, Status = "GAP", EffectiveStep(domain) = Unbounded,
                      StrikesInDomain, OneUnboundedBelow
               PROVE  \E v \in Values : InDomain(v) /\ ~Covered(v)
    BY DEF GapIsReal, Possible, InDomain
  <2>1. /\ swept = Positions /\ intervals # <<>>
        /\ reach.from # Unbounded => domain.lower # Unbounded
        /\ reach.to # Unbounded => domain.upper # Unbounded
        /\ reach.gap \/ UpperGap \/ LowerGap
    BY DEF Analysed, Status
  <2>2. /\ domain.lower \in Values \cup {Unbounded} /\ domain.upper \in Values \cup {Unbounded}
        /\ reach \in Reaches /\ Values \subseteq Int /\ Unbounded \notin Int
    BY StrikesAreTyped DEF CoverageInv, CoverageTypeOK
  <2>3. swept # {}
    <3>1. intervals \in Seq(Intervals)
      BY DEF CoverageInv, CoverageTypeOK
    <3>2. 1 \in Positions
      BY <2>1, <3>1 DEF Positions
    <3> QED
      BY <2>1, <3>2
  <2>4. CASE reach.gap
    <3>1. PICK v \in Values : InDomain(v) /\ Misses(v)
      BY <2>3, <2>4 DEF CoverageInv, CoverInv, GapInv
    <3> QED
      BY <2>1, <3>1 DEF Misses, Covered
  <2>5. CASE UpperGap
    <3>1. PICK f \in Positions : reach.to = intervals[f].upper /\ reach.to # Unbounded
      BY <2>1, <2>3, <2>5 DEF UpperGap, CoverageInv, EndsWhereReached
    <3>2. PICK top \in Values, to \in Int : top = domain.upper /\ to = reach.to
      BY <2>1, <2>2, <3>1 DEF Reaches, Ends
    <3>3. top \in Int /\ (to < top \/ (to = top /\ ~reach.in))
      BY <2>2, <2>5, <3>2 DEF UpperGap
    <3>4. InDomain(top)
      <4>1. domain.lower # Unbounded => to >= domain.lower
        BY <3>1, <3>2 DEF StrikesInDomain
      <4> QED
        BY <2>2, <3>2, <3>3, <4>1 DEF InDomain
    <3>5. ASSUME NEW j \in Positions PROVE ~Satisfies(intervals[j], top)
      <4>1. /\ intervals[j].upper # Unbounded /\ intervals[j].upper <= to
            /\ intervals[j].upper = to /\ intervals[j].upperIn => reach.in
        BY <2>1, <2>3, <3>1, <3>2 DEF CoverageInv, EndsWhereReached
      <4>2. intervals[j] \in Intervals
        BY DEF CoverageInv, CoverageTypeOK, Positions
      <4>3. PICK u \in Int : u = intervals[j].upper
        BY <4>1, <4>2 DEF Intervals, Ends
      <4>4. ~(top < u) /\ (top = u => u = to /\ ~reach.in)
        BY <3>3, <4>1, <4>3
      <4> QED
        BY <4>1, <4>3, <4>4 DEF Satisfies
    <3> QED
      BY <3>4, <3>5 DEF Covered
  <2>6. CASE LowerGap
    <3>1. PICK f \in Positions : /\ reach.from = intervals[f].lower /\ reach.from # Unbounded
                                 /\ \A k \in Positions : ~Precedes(intervals[k], intervals[f])
      BY <2>1, <2>3, <2>6 DEF LowerGap, CoverageInv, BeganFirst
    <3>2. PICK low \in Values, from \in Int : low = domain.lower /\ from = reach.from
      BY <2>1, <2>2, <3>1 DEF Reaches, Ends
    <3>3. low \in Int /\ low < from
      BY <2>2, <2>6, <3>2 DEF LowerGap
    <3>4. InDomain(low)
      <4>1. domain.upper # Unbounded => from <= domain.upper
        BY <3>1, <3>2 DEF StrikesInDomain
      <4> QED
        BY <2>2, <3>2, <3>3, <4>1 DEF InDomain
    <3>5. ASSUME NEW j \in Positions PROVE ~Satisfies(intervals[j], low)
      <4>1. intervals[j] \in Intervals /\ intervals[f] \in Intervals
        BY DEF CoverageInv, CoverageTypeOK, Positions
      <4>2. intervals[j].lower # Unbounded
        BY <3>1 DEF Precedes
      <4>3. PICK a \in Int : a = intervals[j].lower
        BY <4>1, <4>2 DEF Intervals, Ends
      <4>4. from <= a
        BY <3>1, <3>2, <4>2, <4>3 DEF Precedes
      <4> QED
        BY <3>3, <4>2, <4>3, <4>4 DEF Satisfies
    <3> QED
      BY <3>4, <3>5 DEF Covered
  <2> QED
    BY <2>1, <2>4, <2>5, <2>6
<1> QED
  BY <1>1, CoverageInvInit, CoverageInvStep, PTL DEF PartitionSpec

-----------------------------------------------------------------------------
(* What the orders are charged.                                            *)

\* The grids are fixed and the quoted one is no finer than the member's.
GridInv ==
    /\ step \in Nat \ {0} /\ quotedStep \in Nat \ {0}
    /\ step <= quotedStep

Account ==
    [left : Int, bought : Nat, fills : Nat, gross : Nat, raw : Nat,
     trade : Nat, rounding : Nat, rebate : Nat, accumulated : Nat]

\* What is known of an order's account.
Balanced(x) ==
    /\ x.accumulated = x.rounding - x.rebate
    /\ x.raw <= x.trade * FeeScale
    /\ x.trade * FeeScale <= x.raw + x.fills * (FeeScale - 1)
    /\ x.rounding <= x.fills * (step - 1)
    /\ x.fills <= x.bought
    /\ x.fills = 0 => x.bought = 0 /\ x.raw = 0 /\ x.trade = 0 /\ x.rounding = 0

FeeInv ==
    /\ GridInv
    /\ order \in [Orders -> Account]
    /\ \A o \in Orders : Balanced(order[o])

-----------------------------------------------------------------------------
(* Arithmetic.  *)

\* A product grows with either factor.
LEMMA Monotonic ==
    ASSUME NEW a \in Nat, NEW b \in Nat, NEW c \in Nat, a <= b
    PROVE  a * c <= b * c
BY SMT

\* CeilDiv rounds up, by less than one unit.
LEMMA CeilDivFact ==
    ASSUME NEW a \in Nat, NEW u \in Nat \ {0}
    PROVE  /\ CeilDiv(a, u) \in Nat
           /\ a <= CeilDiv(a, u) * u
           /\ CeilDiv(a, u) * u <= a + (u - 1)
<1>1. PICK q \in Int : q = (a + u - 1) \div u
  OBVIOUS
<1>2. q * u <= a + u - 1 /\ a + u - 1 < q * u + u
  BY <1>1, SMT
<1>3. q >= 0
  BY <1>1, SMT
<1> QED
  BY <1>1, <1>2, <1>3, SMT DEF CeilDiv

\* No smaller number of units covers the amount.
LEMMA CeilDivIsLeast ==
    ASSUME NEW a \in Nat, NEW u \in Nat \ {0}, NEW t \in Nat, a <= t * u
    PROVE  CeilDiv(a, u) <= t
<1> DEFINE q == CeilDiv(a, u)
<1>1. q \in Nat /\ q * u <= a + (u - 1)
  BY CeilDivFact
<1>2. q * u <= t * u + (u - 1)
  BY <1>1, SMT
<1>3. SUFFICES ASSUME t + 1 <= q PROVE FALSE
  BY <1>1, SMT
<1>4. (t + 1) * u <= q * u
  BY <1>1, <1>3, Monotonic
<1>5. (t + 1) * u = t * u + u
  BY SMT
<1> QED
  BY <1>1, <1>2, <1>4, <1>5, SMT

\* Whole steps, no more than is held nor than is charged.
LEMMA RebateFact ==
    ASSUME NEW held \in Nat, NEW charged \in Nat, step \in Nat \ {0}
    PROVE  /\ RebateFor(held, charged) \in Nat
           /\ RebateFor(held, charged) <= held
           /\ RebateFor(held, charged) <= charged
<1>1. PICK h \in Int : h = held \div step
  OBVIOUS
<1>2. PICK c \in Int : c = charged \div step
  OBVIOUS
<1>3. h >= 0 /\ h * step <= held /\ c >= 0 /\ c * step <= charged
  BY <1>1, <1>2, SMT
<1>4. RebateFor(held, charged) = (IF h <= c THEN h ELSE c) * step
  BY <1>1, <1>2 DEF RebateFor, Smaller
<1>5. CASE h <= c
  <2>1. h * step <= c * step /\ h * step \in Nat
    BY <1>3, <1>5, Monotonic, SMT
  <2> QED
    BY <1>3, <1>4, <1>5, <2>1, SMT
<1>6. CASE c < h
  <2>1. c * step <= h * step /\ c * step \in Nat
    BY <1>3, <1>6, Monotonic, SMT
  <2> QED
    BY <1>3, <1>4, <1>6, <2>1, SMT
<1> QED
  BY <1>5, <1>6, SMT

LEMMA RoundingFact ==
    ASSUME NEW gross \in Nat, NEW trade \in Nat, step \in Nat \ {0}
    PROVE  RoundingFee(gross, trade) \in Nat /\ RoundingFee(gross, trade) <= step - 1
BY SMT DEF RoundingFee

-----------------------------------------------------------------------------
(* The account is kept.  *)

\* One fill of a balanced account is charged a fee no smaller than nothing and
\* leaves it balanced.
LEMMA FillKeepsAccount ==
    ASSUME GridInv, NEW was \in Account, Balanced(was),
           NEW price \in Nat, NEW n \in Nat \ {0}, NEW fee \in Nat
    PROVE  /\ AfterFill(was, price, n, fee) \in Account
           /\ Balanced(AfterFill(was, price, n, fee))
           /\ NetFee(AfterFill(was, price, n, fee)) >= NetFee(was)
<1> DEFINE trade == CeilDiv(fee, FeeScale)
           rounding == RoundingFee(price * n, trade)
           held == was.accumulated + rounding
           rebate == RebateFor(held, trade + rounding)
           filled == AfterFill(was, price, n, fee)
<1>1. filled = [left        |-> was.left - n,
                bought      |-> was.bought + n,
                fills       |-> was.fills + 1,
                gross       |-> was.gross + price * n,
                raw         |-> was.raw + fee,
                trade       |-> was.trade + trade,
                rounding    |-> was.rounding + rounding,
                rebate      |-> was.rebate + rebate,
                accumulated |-> held - rebate]
  BY DEF AfterFill
<1> HIDE DEF trade, rounding, rebate, filled
<1> USE OrderFeesAssumption
<1>2. /\ trade \in Nat /\ fee <= trade * FeeScale
      /\ trade * FeeScale <= fee + (FeeScale - 1)
  BY CeilDivFact DEF trade
<1>3. price * n \in Nat
  BY SMT
<1>4. rounding \in Nat /\ rounding <= step - 1
  BY <1>2, <1>3, RoundingFact DEF GridInv, rounding
<1>5. /\ rebate \in Nat /\ rebate <= was.accumulated + rounding
      /\ rebate <= trade + rounding
  <2>1. was.accumulated + rounding \in Nat /\ trade + rounding \in Nat
    BY <1>2, <1>4, SMT DEF Account
  <2> QED
    BY <2>1, RebateFact DEF GridInv, rebate
<1>6. filled \in Account
  BY <1>1, <1>2, <1>3, <1>4, <1>5, SMT DEF Account
<1>7. NetFee(filled) >= NetFee(was)
  BY <1>1, <1>2, <1>4, <1>5, SMT DEF NetFee, Account
<1>8. Balanced(filled)
  <2>1. filled.accumulated = filled.rounding - filled.rebate
    BY <1>1, <1>4, <1>5, SMT DEF Account, Balanced
  <2>2. (was.trade + trade) * FeeScale = was.trade * FeeScale + trade * FeeScale
    BY <1>2, SMT DEF Account
  <2>3. filled.raw <= filled.trade * FeeScale
    BY <1>1, <1>2, <2>2, SMT DEF Account, Balanced
  <2>4. (was.fills + 1) * (FeeScale - 1) = was.fills * (FeeScale - 1) + (FeeScale - 1)
    BY SMT DEF Account
  <2>5. filled.trade * FeeScale <= filled.raw + filled.fills * (FeeScale - 1)
    BY <1>1, <1>2, <2>2, <2>4, SMT DEF Account, Balanced
  <2>6. (was.fills + 1) * (step - 1) = was.fills * (step - 1) + (step - 1)
    BY SMT DEF Account, GridInv
  <2>7. filled.rounding <= filled.fills * (step - 1)
    BY <1>1, <1>4, <2>6, SMT DEF Account, Balanced, GridInv
  <2>8. filled.fills <= filled.bought /\ filled.fills # 0
    BY <1>1, SMT DEF Account, Balanced
  <2> QED
    BY <2>1, <2>3, <2>5, <2>7, <2>8 DEF Balanced
<1> QED
  BY <1>6, <1>7, <1>8 DEF filled

\* A fill changes the account of its order alone, and as FillKeepsAccount says.
LEMMA FillIsOneFill ==
    ASSUME FeeInv, NEW o \in Orders, NEW price \in Prices, NEW n \in 1..MaxQuantity,
           NEW multiplier \in Multipliers, Fill(o, price, n, multiplier)
    PROVE  /\ \E filled \in Account :
                 /\ order' = [order EXCEPT ![o] = filled]
                 /\ Balanced(filled)
                 /\ NetFee(filled) >= NetFee(order[o])
           /\ UNCHANGED <<step, quotedStep>>
<1> DEFINE fee == ModelFee(price, n, multiplier)
           filled == AfterFill(order[o], price, n, fee)
<1>1. fee \in Nat /\ price \in Nat /\ n \in Nat \ {0}
  BY OrderFeesAssumption, SMT DEF ModelFee
<1>2. order[o] \in Account /\ Balanced(order[o]) /\ GridInv
  BY DEF FeeInv
<1>3. order' = [order EXCEPT ![o] = filled] /\ UNCHANGED <<step, quotedStep>>
  BY DEF Fill
<1>4. filled \in Account /\ Balanced(filled) /\ NetFee(filled) >= NetFee(order[o])
  BY <1>1, <1>2, FillKeepsAccount
<1> QED
  BY <1>3, <1>4

LEMMA FeeInvInit == OrderInit => FeeInv
<1> SUFFICES ASSUME OrderInit PROVE FeeInv
  OBVIOUS
<1> USE OrderFeesAssumption
<1>1. GridInv
  BY SMT DEF OrderInit, GridInv
<1>2. Unplaced \in Account
  BY DEF Unplaced, Account
<1>3. Balanced(Unplaced)
  BY <1>1, SMT DEF Unplaced, Balanced, GridInv
<1> QED
  BY <1>1, <1>2, <1>3 DEF OrderInit, FeeInv

\* Balanced speaks of the member's grid, which never changes.
LEMMA FeeInvStep == FeeInv /\ [OrderNext]_orderVars => FeeInv'
<1> SUFFICES ASSUME FeeInv, [OrderNext]_orderVars PROVE FeeInv'
  OBVIOUS
<1>1. ASSUME NEW o \in Orders, NEW n \in 1..MaxQuantity, Place(o, n)
      PROVE  FeeInv'
  <2>1. PICK filled : filled = [order[o] EXCEPT !.left = n]
    OBVIOUS
  <2>2. order' = [order EXCEPT ![o] = filled] /\ UNCHANGED <<step, quotedStep>>
    BY <1>1, <2>1 DEF Place
  <2>3. filled \in Account /\ Balanced(filled)
    BY <1>1, <2>1, SMT DEF FeeInv, Account, Balanced
  <2> QED
    BY <2>2, <2>3 DEF FeeInv, GridInv, Balanced
<1>2. ASSUME NEW o \in Orders, NEW price \in Prices, NEW n \in 1..MaxQuantity,
             NEW multiplier \in Multipliers, Fill(o, price, n, multiplier)
      PROVE  FeeInv'
  <2>1. PICK filled \in Account :
          order' = [order EXCEPT ![o] = filled] /\ Balanced(filled)
    BY <1>2, FillIsOneFill
  <2>2. UNCHANGED <<step, quotedStep>>
    BY <1>2 DEF Fill
  <2> QED
    BY <2>1, <2>2 DEF FeeInv, GridInv, Balanced
<1>3. CASE UNCHANGED orderVars
  BY <1>3 DEF orderVars, FeeInv, GridInv, Balanced
<1> QED
  BY <1>1, <1>2, <1>3 DEF OrderNext

-----------------------------------------------------------------------------
(* What the account says of the quoted interval.  *)

LEMMA BalancedIsBounded ==
    ASSUME GridInv, NEW x \in Account, Balanced(x), x.accumulated >= 0
    PROVE  /\ NetFeeLowerBound(x.raw) <= NetFee(x)
           /\ NetFee(x) <= NetFeeUpperBound(x.raw, x.bought)
<1> USE OrderFeesAssumption
<1>1. PICK c \in Nat : /\ c = CeilDiv(x.raw, FeeScale)
                       /\ x.raw <= c * FeeScale
  BY CeilDivFact DEF Account
<1>2. c <= x.trade
  BY <1>1, CeilDivIsLeast DEF Account, Balanced
<1>3. NetFeeLowerBound(x.raw) <= NetFee(x)
  BY <1>1, <1>2, SMT DEF NetFeeLowerBound, NetFee, Balanced, Account
<1>4. CASE x.fills = 0
  BY <1>3, <1>4, SMT DEF Balanced, NetFee, NetFeeUpperBound, Account
<1>5. CASE x.fills # 0
  <2>1. x.bought # 0
    BY <1>5, SMT DEF Account, Balanced
  <2>2. x.trade <= c + x.fills - 1
    <3>1. x.trade * FeeScale <= c * FeeScale + x.fills * (FeeScale - 1)
      BY <1>1, SMT DEF Account, Balanced
    <3>2. c * FeeScale + x.fills * (FeeScale - 1) = (c + x.fills) * FeeScale - x.fills
      BY <1>1, SMT DEF Account
    <3>3. SUFFICES ASSUME c + x.fills <= x.trade PROVE FALSE
      BY <1>1, SMT DEF Account
    <3>4. (c + x.fills) * FeeScale <= x.trade * FeeScale
      BY <1>1, <3>3, Monotonic DEF Account
    <3> QED
      BY <1>1, <1>5, <3>1, <3>2, <3>4, SMT DEF Account
  <2>3. NetFee(x) <= c + x.fills * step - 1
    <3>1. x.fills * (step - 1) = x.fills * step - x.fills
      BY SMT DEF Account, GridInv
    <3> QED
      BY <1>1, <2>2, <3>1, SMT DEF NetFee, Account, Balanced, GridInv
  <2>4. x.fills * step <= x.bought * quotedStep
    <3>1. x.fills * step <= x.bought * step
      BY Monotonic DEF Account, Balanced, GridInv
    <3>2. step * x.bought <= quotedStep * x.bought
      BY Monotonic DEF Account, GridInv
    <3> QED
      BY <3>1, <3>2, SMT DEF Account, GridInv
  <2> QED
    BY <1>1, <1>3, <2>1, <2>3, <2>4, SMT
       DEF NetFeeUpperBound, NetFeeLowerBound, MaxFillCount, NetFee, Account, GridInv
<1> QED
  BY <1>3, <1>4, <1>5

\* Accounts that are kept are within the quoted intervals.
LEMMA FeeInvIsBounded == FeeInv => NetFeeIsBounded
<1> SUFFICES ASSUME FeeInv, NEW o \in Orders
             PROVE  /\ NetFeeLowerBound(order[o].raw) <= NetFee(order[o])
                    /\ NetFee(order[o]) <= NetFeeUpperBound(order[o].raw, order[o].bought)
  BY DEF NetFeeIsBounded
<1>1. order[o] \in Account /\ Balanced(order[o]) /\ order[o].accumulated >= 0 /\ GridInv
  BY DEF FeeInv, Account
<1> QED
  BY <1>1, BalancedIsBounded

\* However many pieces an order fills in, at whatever prices, its net fee lies
\* in the interval quoted for what it bought (net_fee_bounds, apply_fill).
THEOREM FeesAreBounded == FeeSpec => []NetFeeIsBounded
BY FeeInvIsBounded, FeeInvInit, FeeInvStep, PTL DEF FeeSpec

\* A step of an order takes no fee back.
LEMMA NetFeeStep == FeeInv /\ FeeInv' /\ [OrderNext]_orderVars => [NetFeeGrows]_order
<1> SUFFICES ASSUME FeeInv, FeeInv', [OrderNext]_orderVars, order' # order
             PROVE  NetFeeGrows
  OBVIOUS
<1>1. \A o \in Orders : order[o] \in Account /\ order'[o] \in Account
  BY DEF FeeInv
<1>2. ASSUME NEW p \in Orders, NEW n \in 1..MaxQuantity, Place(p, n)
      PROVE  NetFeeGrows
  <2>1. \A o \in Orders : NetFee(order'[o]) = NetFee(order[o])
    BY <1>1, <1>2 DEF Place, NetFee, Account, FeeInv
  <2> QED
    BY <1>1, <2>1, SMT DEF NetFeeGrows, NetFee, Account
<1>3. ASSUME NEW p \in Orders, NEW price \in Prices, NEW n \in 1..MaxQuantity,
             NEW multiplier \in Multipliers, Fill(p, price, n, multiplier)
      PROVE  NetFeeGrows
  <2>1. PICK filled \in Account :
          order' = [order EXCEPT ![p] = filled] /\ NetFee(filled) >= NetFee(order[p])
    BY <1>3, FillIsOneFill
  <2>2. \A o \in Orders : order'[o] = IF o = p THEN filled ELSE order[o]
    BY <2>1 DEF FeeInv
  <2> QED
    BY <1>1, <2>1, <2>2, SMT DEF NetFeeGrows, NetFee, Account
<1> QED
  BY <1>2, <1>3 DEF OrderNext, orderVars

\* No fill ever pays the buyer: rebates return what was overpaid and no more
\* (apply_fill, _rebate_for).
THEOREM FeesNeverFall == FeeSpec => NetFeeNeverFalls
BY NetFeeStep, FeeInvInit, FeeInvStep, PTL DEF FeeSpec, NetFeeNeverFalls

-----------------------------------------------------------------------------
(* Numbers, finite sets and sums.                                          *)

LEMMA MinIsLeast ==
    ASSUME NEW T \in SUBSET Nat, T # {}
    PROVE  Min(T) \in T /\ \A u \in T : Min(T) <= u
<1>1. PICK t \in T : \A u \in T : ~(<<u, t>> \in OpToRel(<, Nat))
  BY NatLessThanWellFounded, WFMin, Zenon
<1>2. \A u \in T : ~(u < t)
  BY <1>1, Zenon DEF OpToRel
<1>3. \A u \in T : t <= u
  BY <1>2, SMT
<1> QED
  BY <1>3 DEF Min

LEMMA MaxIsGreatest ==
    ASSUME NEW b \in Nat, NEW T \in SUBSET (0..b), T # {}
    PROVE  Max(T) \in T /\ \A u \in T : u <= Max(T)
<1> DEFINE R == {b - u : u \in T}
<1>1. R \subseteq Nat /\ R # {}
  <2>1. \A u \in T : b - u \in Nat
    OBVIOUS
  <2> QED
    BY <2>1
<1>2. PICK r \in R : \A u \in R : r <= u
  BY <1>1, MinIsLeast
<1>3. PICK t \in T : r = b - t
  BY <1>2
<1>4. \A u \in T : t >= u
  <2>1. ASSUME NEW u \in T PROVE t >= u
    <3>1. b - u \in R
      OBVIOUS
    <3> QED
      BY <1>2, <1>3, <3>1
  <2> QED
    BY <2>1
<1>5. Max(T) \in T /\ \A u \in T : Max(T) >= u
  BY <1>4 DEF Max
<1> QED
  BY <1>5

\* Induction on numbers, for a set of them.
LEMMA NumberInduction ==
    ASSUME NEW P, 0 \in P, \A n \in Nat : n \in P => n + 1 \in P
    PROVE  \A n \in Nat : n \in P
<1> DEFINE T == {n \in Nat : n \notin P}
<1> SUFFICES ASSUME T # {} PROVE FALSE
  OBVIOUS
<1>1. PICK n \in T : \A m \in T : n <= m
  BY MinIsLeast
<1>2. n # 0 /\ n - 1 \in Nat /\ n - 1 \notin T
  BY <1>1
<1>3. (n - 1) + 1 \in P
  BY <1>2
<1> QED
  BY <1>1, <1>3

\* Induction on the subsets of a finite set, for a set of them.
LEMMA SubsetInduction ==
    ASSUME NEW S, IsFiniteSet(S), NEW P, {} \in P,
           \A T \in SUBSET S : T # {} /\ (\A x \in T : T \ {x} \in P) => T \in P
    PROVE  \A T \in SUBSET S : T \in P
<1> DEFINE N == {n \in Nat : \A T \in SUBSET S : Cardinality(T) = n => T \in P}
<1>1. 0 \in N
  BY FS_Subset, FS_EmptySet
<1>2. ASSUME NEW n \in Nat, n \in N
      PROVE  n + 1 \in N
  <2> SUFFICES ASSUME NEW T \in SUBSET S, Cardinality(T) = n + 1
               PROVE  T \in P
    OBVIOUS
  <2>1. IsFiniteSet(T)
    BY FS_Subset
  <2>2. T # {}
    BY <2>1, FS_EmptySet
  <2>3. ASSUME NEW x \in T PROVE T \ {x} \in P
    <3>1. Cardinality(T \ {x}) = Cardinality(T) - 1
      BY <2>1, FS_RemoveElement
    <3>2. Cardinality(T \ {x}) = n
      BY <3>1
    <3> QED
      BY <1>2, <3>2
  <2> QED
    BY <2>2, <2>3
<1> HIDE DEF N
<1>3. \A n \in Nat : n \in N
  BY <1>1, <1>2, NumberInduction
<1>4. ASSUME NEW T \in SUBSET S PROVE T \in P
  <2>1. Cardinality(T) \in Nat
    BY FS_Subset, FS_CardinalityType
  <2> QED
    BY <1>3, <2>1 DEF N
<1> QED
  BY <1>4

\* One step of the recursion of a sum.
SumStep(T, f, g) ==
    IF T = {} THEN 0 ELSE f[CHOOSE x \in T : TRUE] + g[T \ {CHOOSE x \in T : TRUE}]

SumTable(S, f, g) == [T \in SUBSET S |-> SumStep(T, f, g)]

\* The recursion has a solution.
LEMMA SumExists ==
    ASSUME NEW S, IsFiniteSet(S), NEW f
    PROVE  \E g : g = SumTable(S, f, g)
<1> DEFINE Solves(g, n) == \A T \in SUBSET S : Cardinality(T) <= n => g[T] = SumStep(T, f, g)
           N == {n \in Nat : \E g : Solves(g, n)}
<1>1. \A T \in SUBSET S : IsFiniteSet(T) /\ Cardinality(T) \in Nat /\ Cardinality(T) <= Cardinality(S)
  BY FS_Subset, FS_CardinalityType
<1>2. 0 \in N
  <2>1. PICK g : g = [T \in SUBSET S |-> 0]
    OBVIOUS
  <2>2. Solves(g, 0)
    <3> SUFFICES ASSUME NEW T \in SUBSET S, Cardinality(T) <= 0
                 PROVE  g[T] = SumStep(T, f, g)
      OBVIOUS
    <3>1. T = {}
      BY <1>1, FS_EmptySet
    <3> QED
      BY <2>1, <3>1 DEF SumStep
  <2> QED
    BY <2>2
<1>3. ASSUME NEW n \in Nat, n \in N
      PROVE  n + 1 \in N
  <2>1. PICK g : Solves(g, n)
    BY <1>3
  <2>2. PICK h : h = [T \in SUBSET S |-> SumStep(T, f, g)]
    OBVIOUS
  <2>3. Solves(h, n + 1)
    <3> SUFFICES ASSUME NEW T \in SUBSET S, Cardinality(T) <= n + 1
                 PROVE  h[T] = SumStep(T, f, h)
      OBVIOUS
    <3>1. CASE T = {}
      BY <2>2, <3>1 DEF SumStep
    <3>2. CASE T # {}
      <4>1. PICK x : x = CHOOSE y \in T : TRUE
        OBVIOUS
      <4>2. x \in T
        BY <3>2, <4>1
      <4>3. Cardinality(T \ {x}) <= n /\ T \ {x} \in SUBSET S
        BY <1>1, <4>2, FS_RemoveElement
      <4>4. g[T \ {x}] = h[T \ {x}]
        BY <2>1, <2>2, <4>3
      <4> QED
        BY <2>2, <3>2, <4>1, <4>4 DEF SumStep
    <3> QED
      BY <3>1, <3>2
  <2> QED
    BY <2>3
<1>4. \A n \in Nat : n \in N
  <2> HIDE DEF N
  <2> QED
    BY <1>2, <1>3, NumberInduction
<1>5. PICK g : Solves(g, Cardinality(S))
  BY <1>1, <1>4
<1>6. \A T \in SUBSET S : g[T] = SumStep(T, f, g)
  BY <1>1, <1>5
<1>7. PICK h : h = [T \in SUBSET S |-> g[T]]
  OBVIOUS
<1>8. \A T \in SUBSET S : SumStep(T, f, g) = SumStep(T, f, h)
  <2> SUFFICES ASSUME NEW T \in SUBSET S PROVE SumStep(T, f, g) = SumStep(T, f, h)
    OBVIOUS
  <2>1. g[T \ {CHOOSE x \in T : TRUE}] = h[T \ {CHOOSE x \in T : TRUE}]
    BY <1>7
  <2> QED
    BY <2>1 DEF SumStep
<1>9. h = SumTable(S, f, h)
  BY <1>6, <1>7, <1>8 DEF SumTable
<1> QED
  BY <1>9

\* What the sums of f over the subsets of S are.
Sums(S, f, g) == \A T \in SUBSET S : g[T] = SumStep(T, f, g)

LEMMA SumUnfolds ==
    ASSUME NEW S, IsFiniteSet(S), NEW f
    PROVE  \E g : Sums(S, f, g) /\ SumOver(S, f) = g[S]
<1>0. PICK h : h = SumTable(S, f, h)
  BY SumExists
<1> DEFINE Unfold(g) == [T \in SUBSET S |->
                           IF T = {} THEN 0
                           ELSE LET x == CHOOSE x \in T : TRUE IN f[x] + g[T \ {x}]]
           sum == CHOOSE g : g = Unfold(g)
<1>1. \A g : Unfold(g) = SumTable(S, f, g)
  BY DEF SumStep, SumTable
<1>2. \E g : g = Unfold(g)
  <2>1. h = Unfold(h)
    BY <1>0, <1>1, Zenon
  <2> QED
    BY <2>1
<1>3. sum = Unfold(sum)
  BY <1>2
<1>4. SumOver(S, f) = sum[S]
  BY DEF SumOver
<1> HIDE DEF sum, Unfold
<1>5. sum = SumTable(S, f, sum)
  BY <1>1, <1>3
<1>6. \A T \in SUBSET S : sum[T] = SumStep(T, f, sum)
  BY <1>5 DEF SumTable
<1> QED
  BY <1>4, <1>6 DEF Sums

LEMMA SumsAgree ==
    ASSUME NEW S, IsFiniteSet(S), NEW f, NEW T \in SUBSET S, NEW g, NEW h,
           Sums(S, f, g), Sums(T, f, h)
    PROVE  \A U \in SUBSET T : g[U] = h[U]
<1> DEFINE P == {U \in SUBSET T : g[U] = h[U]}
<1>1. IsFiniteSet(T)
  BY FS_Subset
<1>2. {} \in P
  BY DEF Sums, SumStep
<1>3. ASSUME NEW U \in SUBSET T, U # {}, \A x \in U : U \ {x} \in P
      PROVE  U \in P
  <2>1. PICK x : x = CHOOSE y \in U : TRUE
    OBVIOUS
  <2>2. x \in U
    BY <1>3, <2>1
  <2>3. g[U] = f[x] + g[U \ {x}] /\ h[U] = f[x] + h[U \ {x}]
    BY <1>3, <2>1 DEF Sums, SumStep
  <2> QED
    BY <1>3, <2>2, <2>3
<1> HIDE DEF P
<1>4. \A U \in SUBSET T : U \in P
  BY <1>1, <1>2, <1>3, SubsetInduction
<1> QED
  BY <1>4 DEF P

\* What a sum is, whichever element comes first.
LEMMA SumFacts ==
    ASSUME NEW S, IsFiniteSet(S), NEW f, \A x \in S : f[x] \in Int
    PROVE  /\ SumOver({}, f) = 0
           /\ SumOver(S, f) \in Int
           /\ \A x \in S : SumOver(S, f) = f[x] + SumOver(S \ {x}, f)
<1>1. PICK g : Sums(S, f, g) /\ SumOver(S, f) = g[S]
  BY SumUnfolds
<1>2. \A T \in SUBSET S : SumOver(T, f) = g[T]
  <2> SUFFICES ASSUME NEW T \in SUBSET S PROVE SumOver(T, f) = g[T]
    OBVIOUS
  <2>1. PICK h : Sums(T, f, h) /\ SumOver(T, f) = h[T]
    BY FS_Subset, SumUnfolds
  <2> QED
    BY <1>1, <2>1, SumsAgree
<1> DEFINE W == {T \in SUBSET S : g[T] \in Int}
<1>3. {} \in W /\ g[{}] = 0
  BY <1>1 DEF Sums, SumStep
<1>4. ASSUME NEW T \in SUBSET S, T # {}, \A x \in T : T \ {x} \in W
      PROVE  T \in W
  <2>1. PICK y : y = CHOOSE x \in T : TRUE
    OBVIOUS
  <2>2. y \in T
    BY <1>4, <2>1
  <2>3. g[T] = f[y] + g[T \ {y}]
    BY <1>1, <1>4, <2>1 DEF Sums, SumStep
  <2>4. f[y] \in Int /\ g[T \ {y}] \in Int
    BY <1>4, <2>2
  <2> QED
    BY <2>3, <2>4
<1>5. \A T \in SUBSET S : T \in W
  <2> HIDE DEF W
  <2> QED
    BY <1>3, <1>4, SubsetInduction
<1>6. \A T \in SUBSET S : g[T] \in Int
  BY <1>5
<1> HIDE DEF W
<1> DEFINE P == {T \in SUBSET S : \A x \in T : g[T] = f[x] + g[T \ {x}]}
<1>7. {} \in P
  OBVIOUS
<1>8. ASSUME NEW T \in SUBSET S, T # {}, \A x \in T : T \ {x} \in P
      PROVE  T \in P
  <2>1. PICK y : y = CHOOSE x \in T : TRUE
    OBVIOUS
  <2>2. y \in T
    BY <1>8, <2>1
  <2>3. g[T] = f[y] + g[T \ {y}]
    BY <1>1, <1>8, <2>1 DEF Sums, SumStep
  <2>4. \A x \in T : f[x] \in Int /\ g[T \ {x}] \in Int
    BY <1>6
  <2>5. ASSUME NEW x \in T, x # y
        PROVE  g[T] = f[x] + g[T \ {x}]
    <3>1. PICK U : U = (T \ {y}) \ {x}
      OBVIOUS
    <3>2. U = (T \ {x}) \ {y}
      BY <3>1
    <3>3. g[T \ {y}] = f[x] + g[U]
      BY <1>8, <2>2, <2>5, <3>1
    <3>4. g[T \ {x}] = f[y] + g[U]
      BY <1>8, <2>2, <2>5, <3>2
    <3>5. g[U] \in Int
      BY <1>6, <3>1
    <3> QED
      BY <2>2, <2>3, <2>4, <3>3, <3>4, <3>5
  <2> QED
    BY <2>2, <2>3, <2>4, <2>5
<1> HIDE DEF P
<1>9. \A T \in SUBSET S : T \in P
  BY <1>7, <1>8, SubsetInduction
<1>10. \A T \in SUBSET S : \A x \in T : g[T] = f[x] + g[T \ {x}]
  BY <1>9 DEF P
<1> QED
  BY <1>2, <1>3, <1>6, <1>10

\* A sum grows with its terms.
LEMMA SumGrows ==
    ASSUME NEW S, IsFiniteSet(S), NEW f, NEW h,
           \A x \in S : f[x] \in Int /\ h[x] \in Int /\ f[x] <= h[x]
    PROVE  SumOver(S, f) <= SumOver(S, h)
<1> DEFINE P == {T \in SUBSET S : SumOver(T, f) <= SumOver(T, h)}
<1>1. SumOver({}, f) = 0 /\ SumOver({}, h) = 0
  BY SumFacts
<1>2. {} \in P
  BY <1>1
<1>3. ASSUME NEW T \in SUBSET S, T # {}, \A x \in T : T \ {x} \in P
      PROVE  T \in P
  <2>1. PICK x \in T : TRUE
    BY <1>3
  <2>2. IsFiniteSet(T) /\ IsFiniteSet(T \ {x})
    BY FS_Subset
  <2>3. /\ SumOver(T, f) = f[x] + SumOver(T \ {x}, f)
        /\ SumOver(T, h) = h[x] + SumOver(T \ {x}, h)
    BY <2>2, SumFacts
  <2>4. SumOver(T \ {x}, f) \in Int /\ SumOver(T \ {x}, h) \in Int
    BY <2>2, SumFacts
  <2>5. SumOver(T \ {x}, f) <= SumOver(T \ {x}, h) /\ f[x] <= h[x]
    BY <1>3
  <2>6. f[x] \in Int /\ h[x] \in Int
    OBVIOUS
  <2> QED
    BY <2>3, <2>4, <2>5, <2>6
<1> HIDE DEF P
<1>4. \A T \in SUBSET S : T \in P
  BY <1>2, <1>3, SubsetInduction
<1> QED
  BY <1>4 DEF P

\* It depends on nothing else.
LEMMA SumSame ==
    ASSUME NEW S, IsFiniteSet(S), NEW f, NEW h,
           \A x \in S : f[x] \in Int /\ f[x] = h[x]
    PROVE  SumOver(S, f) = SumOver(S, h)
<1>1. \A x \in S : f[x] \in Int /\ h[x] \in Int /\ f[x] <= h[x] /\ h[x] <= f[x]
  OBVIOUS
<1>2. SumOver(S, f) <= SumOver(S, h) /\ SumOver(S, h) <= SumOver(S, f)
  BY <1>1, SumGrows
<1>3. SumOver(S, f) \in Int /\ SumOver(S, h) \in Int
  BY <1>1, SumFacts
<1> QED
  BY <1>2, <1>3

\* And splits as they do.
LEMMA SumSplits ==
    ASSUME NEW S, IsFiniteSet(S), NEW f, NEW g, NEW h,
           \A x \in S : f[x] \in Int /\ g[x] \in Int /\ h[x] \in Int /\ h[x] = f[x] + g[x]
    PROVE  SumOver(S, h) = SumOver(S, f) + SumOver(S, g)
<1> DEFINE P == {T \in SUBSET S : SumOver(T, h) = SumOver(T, f) + SumOver(T, g)}
<1>1. SumOver({}, f) = 0 /\ SumOver({}, h) = 0 /\ SumOver({}, g) = 0
  BY SumFacts
<1>2. {} \in P
  BY <1>1
<1>3. ASSUME NEW T \in SUBSET S, T # {}, \A x \in T : T \ {x} \in P
      PROVE  T \in P
  <2>1. PICK x \in T : TRUE
    BY <1>3
  <2>2. IsFiniteSet(T) /\ IsFiniteSet(T \ {x})
    BY FS_Subset
  <2>3. /\ SumOver(T, f) = f[x] + SumOver(T \ {x}, f)
        /\ SumOver(T, g) = g[x] + SumOver(T \ {x}, g)
        /\ SumOver(T, h) = h[x] + SumOver(T \ {x}, h)
    BY <2>2, SumFacts
  <2>4. /\ SumOver(T \ {x}, f) \in Int
        /\ SumOver(T \ {x}, g) \in Int
        /\ SumOver(T \ {x}, h) \in Int
    BY <2>2, SumFacts
  <2>5. SumOver(T \ {x}, h) = SumOver(T \ {x}, f) + SumOver(T \ {x}, g)
    BY <1>3
  <2>6. f[x] \in Int /\ g[x] \in Int /\ h[x] = f[x] + g[x]
    OBVIOUS
  <2> QED
    BY <2>3, <2>4, <2>5, <2>6
<1> HIDE DEF P
<1>4. \A T \in SUBSET S : T \in P
  BY <1>2, <1>3, SubsetInduction
<1> QED
  BY <1>4 DEF P

\* Amounts add up to an amount no smaller than each.
LEMMA SumOfAmounts ==
    ASSUME NEW S, IsFiniteSet(S), NEW f, \A x \in S : f[x] \in Nat
    PROVE  /\ SumOver(S, f) \in Nat
           /\ \A x \in S : f[x] <= SumOver(S, f)
<1>1. ASSUME NEW T \in SUBSET S
      PROVE  SumOver(T, f) \in Nat
  <2> DEFINE zero == [x \in T |-> 0]
  <2>1. IsFiniteSet(T)
    BY FS_Subset
  <2>2. \A x \in T : zero[x] \in Int /\ f[x] \in Int /\ zero[x] <= f[x] /\ zero[x] + zero[x] = zero[x]
    OBVIOUS
  <2> HIDE DEF zero
  <2>3. SumOver(T, zero) <= SumOver(T, f) /\ SumOver(T, zero) = SumOver(T, zero) + SumOver(T, zero)
    BY <2>1, <2>2, SumGrows, SumSplits
  <2>4. SumOver(T, zero) \in Int /\ SumOver(T, f) \in Int
    BY <2>1, <2>2, SumFacts
  <2> QED
    BY <2>3, <2>4
<1>2. ASSUME NEW x \in S
      PROVE  f[x] <= SumOver(S, f)
  <2>1. SumOver(S, f) = f[x] + SumOver(S \ {x}, f)
    BY SumFacts
  <2>2. SumOver(S \ {x}, f) \in Nat
    BY <1>1
  <2> QED
    BY <2>1, <2>2
<1> QED
  BY <1>1, <1>2

\* Only one term counts when the others are nothing.
LEMMA SumOfOne ==
    ASSUME NEW S, IsFiniteSet(S), NEW f, NEW x \in S, f[x] \in Int,
           \A y \in S \ {x} : f[y] = 0
    PROVE  SumOver(S, f) = f[x]
<1>1. IsFiniteSet(S \ {x})
  BY FS_Subset
<1>2. SumOver(S \ {x}, f) = SumOver(S \ {x}, f) + SumOver(S \ {x}, f)
  BY <1>1, SumSplits
<1>3. SumOver(S \ {x}, f) \in Int /\ SumOver(S, f) = f[x] + SumOver(S \ {x}, f)
  <2>1. \A y \in S : f[y] \in Int
    OBVIOUS
  <2> QED
    BY <1>1, <2>1, SumFacts
<1>4. PICK rest : rest = SumOver(S \ {x}, f)
  OBVIOUS
<1>5. rest \in Int /\ rest = rest + rest /\ SumOver(S, f) = f[x] + rest
  BY <1>2, <1>3, <1>4
<1> QED
  BY <1>5

\* From b on, the terms up to top are all p.
Run(f, b, top, p) ==
    /\ \A k \in 1..top : f[k] \in Int
    /\ \A k \in (b + 1)..top : f[k] = p

\* A run of equal terms.
LEMMA SumOfRun ==
    ASSUME NEW b \in Nat, NEW n \in Nat, NEW top, top = b + n, NEW f, NEW p \in Int,
           Run(f, b, top, p)
    PROVE  SumOver(1..top, f) = SumOver(1..b, f) + p * n
<1> USE DEF Run
<1> DEFINE P == {m \in Nat : m <= n => SumOver(1..(b + m), f) = SumOver(1..b, f) + p * m}
<1>1. SumOver(1..b, f) \in Int
  <2>1. \A k \in 1..b : f[k] \in Int
    OBVIOUS
  <2>2. IsFiniteSet(1..b)
    BY FS_Interval
  <2> QED
    BY <2>1, <2>2, SumFacts
<1>2. 0 \in P
  BY <1>1
<1>3. ASSUME NEW m \in Nat, m \in P
      PROVE  m + 1 \in P
  <2> SUFFICES ASSUME m + 1 <= n
               PROVE  SumOver(1..(b + (m + 1)), f) = SumOver(1..b, f) + p * (m + 1)
    OBVIOUS
  <2>1. SumOver(1..(b + m), f) = SumOver(1..b, f) + p * m
    BY <1>3
  <2>2. PICK c \in Nat : c = b + (m + 1)
    OBVIOUS
  <2>3. (1..c) \ {c} = 1..(b + m) /\ c \in 1..c
    BY <2>2
  <2>4. IsFiniteSet(1..c) /\ \A k \in 1..c : f[k] \in Int
    BY <2>2, FS_Interval
  <2>5. SumOver(1..c, f) = f[c] + SumOver(1..(b + m), f)
    <3>1. SumOver(1..c, f) = f[c] + SumOver((1..c) \ {c}, f)
      BY <2>3, <2>4, SumFacts
    <3> QED
      BY <2>3, <3>1, Zenon
  <2>6. f[c] = p
    BY <2>2
  <2>7. p * (m + 1) = p * m + p /\ p * m \in Int
    OBVIOUS
  <2> QED
    BY <1>1, <2>1, <2>2, <2>5, <2>6, <2>7
<1> HIDE DEF P
<1>4. n \in P
  BY <1>2, <1>3, NumberInduction
<1> QED
  BY <1>4 DEF P

-----------------------------------------------------------------------------
(* The curves.                                                             *)

LEMMA LegFacts ==
    ASSUME scene \in Scenes
    PROVE  /\ IsFiniteSet(scene.members) /\ scene.members # {} /\ scene.members \subseteq Markets
           /\ IsFiniteSet(Legs) /\ Legs # {} /\ Legs \subseteq Orders
           /\ \A leg \in Legs : /\ leg[1] \in scene.members /\ leg[2] \in Sides
                               /\ leg = <<leg[1], leg[2]>>
<1>1. scene.members \subseteq Markets /\ scene.members # {}
  BY DEF Scenes
<1>2. IsFiniteSet(scene.members)
  BY <1>1, ScanAssumption, FS_Subset
<1>3. PICK S : S \subseteq Sides /\ S # {} /\ Legs = scene.members \X S
  <2>1. CASE scene.kind = "complement"
    BY <2>1 DEF Legs, Sides
  <2>2. CASE scene.kind = "no_basket"
    BY <2>2 DEF Legs, Sides
  <2>3. CASE scene.kind = "yes_basket"
    BY <2>3 DEF Legs, Sides
  <2>4. scene.kind \in {"complement", "no_basket", "yes_basket"}
    BY DEF Scenes
  <2> QED
    BY <2>1, <2>2, <2>3, <2>4
<1>4. IsFiniteSet(Sides)
  <2>1. IsFiniteSet({"YES"}) /\ Sides = {"YES"} \cup {"NO"}
    BY FS_Singleton DEF Sides
  <2> QED
    BY <2>1, FS_AddElement
<1>5. IsFiniteSet(Legs)
  BY <1>2, <1>3, <1>4, FS_Product, FS_Subset
<1>6. Legs \subseteq Orders /\ Legs # {}
  <2>1. Orders = Markets \X Sides
    BY ScanAssumption
  <2>2. PICK m \in scene.members, x \in S : TRUE
    BY <1>1, <1>3
  <2>3. <<m, x>> \in Legs
    BY <1>3
  <2> QED
    BY <1>1, <1>3, <2>1, <2>3
<1>7. \A leg \in Legs : /\ leg[1] \in scene.members /\ leg[2] \in Sides
                       /\ leg = <<leg[1], leg[2]>>
  BY <1>3
<1> QED
  BY <1>1, <1>2, <1>5, <1>6, <1>7

\* Depth is a number of increments at any price.
LEMMA DepthFacts ==
    ASSUME scene \in Scenes, NEW leg \in Legs
    PROVE  /\ SourceBids(leg) \in [Prices -> Nat]
           /\ \A p \in Int : DepthAtOrAbove(SourceBids(leg), p) \in Nat
           /\ MaxFillable(leg) \in Nat
<1>1. SourceBids(leg) \in [Prices -> Nat]
  <2>1. leg[1] \in Markets /\ leg[2] \in Sides
    BY LegFacts
  <2>2. <<leg[1], OtherSide(leg[2])>> \in Markets \X Sides
    BY <2>1 DEF Sides, OtherSide
  <2>3. scene.bids \in [Markets \X Sides -> Ladders]
    BY DEF Scenes
  <2>4. SourceBids(leg) \in Ladders
    BY <2>2, <2>3 DEF SourceBids
  <2> QED
    BY <2>4, ScanAssumption
<1>2. PICK bids \in [Prices -> Nat] : bids = SourceBids(leg)
  BY <1>1
<1>3. ASSUME NEW p \in Int
      PROVE  DepthAtOrAbove(bids, p) \in Nat
  <2> DEFINE S == {r \in Prices : r >= p}
  <2>1. IsFiniteSet(S)
    <3>1. IsFiniteSet(Prices) /\ S \subseteq Prices
      BY ScanAssumption, FS_Interval
    <3> QED
      BY <3>1, FS_Subset
  <2>2. \A r \in S : bids[r] \in Nat
    OBVIOUS
  <2> QED
    BY <2>1, <2>2, SumOfAmounts DEF DepthAtOrAbove
<1> QED
  BY <1>1, <1>2, <1>3 DEF MaxFillable

\* Each increment has its price, and the venue's matching gives the same one.
LEMMA PriceFacts ==
    ASSUME scene \in Scenes, NEW leg \in Legs, NEW k \in 1..MaxFillable(leg)
    PROVE  /\ ExecutionPrice(leg, k) \in Prices
           /\ VenuePrice(leg, k) = ExecutionPrice(leg, k)
<1> DEFINE Depth(p) == DepthAtOrAbove(SourceBids(leg), p)
           A == {ask \in Prices : k <= Depth(Notional - ask)}
           B == {p \in Prices : Depth(p) >= k}
<1>1. Notional \in Nat /\ Prices = 0..Notional
  BY ScanAssumption
<1>2. MaxFillable(leg) \in Nat /\ k \in Nat /\ k <= Depth(0) /\ \A p \in Int : Depth(p) \in Nat
  BY DepthFacts DEF MaxFillable
<1>3. VenuePrice(leg, k) = Min(A)
  <2>1. ASSUME NEW ask \in Prices
        PROVE  SumOver({p \in Prices : Notional - p <= ask}, SourceBids(leg)) = Depth(Notional - ask)
    <3>1. {p \in Prices : Notional - p <= ask} = {p \in Prices : p >= Notional - ask}
      BY <1>1
    <3> QED
      BY <3>1, Zenon DEF DepthAtOrAbove
  <2>2. {ask \in Prices : k <= SumOver({p \in Prices : Notional - p <= ask}, SourceBids(leg))} = A
    BY <2>1
  <2> QED
    BY <2>2, Zenon DEF VenuePrice
<1>4. ExecutionPrice(leg, k) = Notional - Max(B)
  BY DEF ExecutionPrice, SourceBid
<1> HIDE DEF Depth
<1>5. B \subseteq 0..Notional /\ B # {}
  <2>1. 0 \in Prices /\ Depth(0) >= k
    BY <1>1, <1>2
  <2>2. 0 \in B
    BY <2>1
  <2> QED
    BY <1>1, <2>2
<1>6. Max(B) \in B /\ \A p \in B : p <= Max(B)
  BY <1>1, <1>5, MaxIsGreatest
<1>7. Notional - Max(B) \in A
  <2>1. Max(B) \in 0..Notional /\ Depth(Max(B)) >= k /\ Notional - (Notional - Max(B)) = Max(B)
    BY <1>1, <1>6
  <2>2. k <= Depth(Notional - (Notional - Max(B)))
    BY <1>2, <2>1
  <2> QED
    BY <1>1, <2>1, <2>2
<1>8. A \subseteq Nat /\ A # {}
  BY <1>1, <1>7
<1>9. Min(A) \in A /\ \A a \in A : Min(A) <= a
  BY <1>8, MinIsLeast
<1>10. Notional - Min(A) \in B
  <2>1. PICK a : a = Min(A)
    OBVIOUS
  <2>2. a \in Prices /\ k <= Depth(Notional - a)
    BY <1>9, <2>1
  <2>3. Notional - a \in Prices /\ Notional - a \in Int
    BY <1>1, <2>2
  <2>4. Depth(Notional - a) >= k
    BY <1>2, <2>2, <2>3
  <2> QED
    BY <2>1, <2>3, <2>4
<1> HIDE DEF A, B
<1>11. Notional - Min(A) <= Max(B) /\ Min(A) <= Notional - Max(B)
  BY <1>6, <1>7, <1>9, <1>10
<1>12. Min(A) \in 0..Notional /\ Max(B) \in 0..Notional
  BY <1>1, <1>6, <1>9 DEF A, B
<1>13. Min(A) = Notional - Max(B)
  BY <1>1, <1>11, <1>12
<1> QED
  BY <1>1, <1>3, <1>4, <1>12, <1>13

\* No leg has less than the legs have in common.
LEMMA CommonFacts ==
    ASSUME scene \in Scenes
    PROVE  /\ CommonFillable \in Nat
           /\ \A leg \in Legs : CommonFillable <= MaxFillable(leg)
<1> DEFINE T == {MaxFillable(leg) : leg \in Legs}
<1>1. T \subseteq Nat /\ T # {}
  BY LegFacts, DepthFacts
<1>2. CommonFillable = Min(T)
  BY DEF CommonFillable
<1> HIDE DEF T
<1>3. Min(T) \in T /\ \A n \in T : Min(T) <= n
  BY <1>1, MinIsLeast
<1> QED
  BY <1>1, <1>2, <1>3 DEF T

-----------------------------------------------------------------------------
(* What the curves cost.                                                   *)

Multiplier == MultiplierOf(ResolveAt(scene.timeline))

\* Every increment within the depth costs an amount and is charged one.
LEMMA IncrementFacts ==
    ASSUME scene \in Scenes, NEW leg \in Legs, NEW k \in 1..MaxFillable(leg)
    PROVE  /\ ExecutionPrice(leg, k) \in Nat
           /\ ModelFee(ExecutionPrice(leg, k), 1, Multiplier) \in Nat
<1>1. ExecutionPrice(leg, k) \in Prices /\ Prices \subseteq Nat
  BY PriceFacts, OrderFeesAssumption
<1>2. FeePerUnit[ExecutionPrice(leg, k)] \in Nat
  BY <1>1, OrderFeesAssumption
<1>3. Multiplier \in Nat
  BY DEF Multiplier, MultiplierOf
<1>4. PICK m \in Nat, f \in Nat : m = Multiplier /\ f = FeePerUnit[ExecutionPrice(leg, k)]
  BY <1>2, <1>3
<1>5. m * f * 1 \in Nat
  OBVIOUS
<1> QED
  BY <1>1, <1>4, <1>5, Zenon DEF ModelFee

LEMMA CostFacts ==
    ASSUME scene \in Scenes, NEW leg \in Legs, NEW q \in 0..MaxFillable(leg)
    PROVE  GrossCost(leg, q) \in Nat /\ RawModelFee(leg, q) \in Nat
<1> DEFINE cost == [k \in 1..q |-> ExecutionPrice(leg, k)]
           fee == [k \in 1..q |-> ModelFee(ExecutionPrice(leg, k), 1, Multiplier)]
<1>1. IsFiniteSet(1..q) /\ \A k \in 1..q : k \in 1..MaxFillable(leg)
  BY DepthFacts, FS_Interval
<1>2. \A k \in 1..q : cost[k] \in Nat /\ fee[k] \in Nat
  BY <1>1, IncrementFacts
<1>3. GrossCost(leg, q) = SumOver(1..q, cost)
  BY DEF GrossCost
<1>4. RawModelFee(leg, q) = SumOver(1..q, fee)
  BY DEF RawModelFee, Multiplier
<1> HIDE DEF cost, fee
<1> QED
  BY <1>1, <1>2, <1>3, <1>4, SumOfAmounts

\* Increments of one price cost that price each.
LEMMA CostOfRun ==
    ASSUME scene \in Scenes, NEW leg \in Legs, NEW b \in Nat, NEW n \in Nat, NEW price \in Prices,
           b + n <= MaxFillable(leg),
           \A k \in (b + 1)..(b + n) : ExecutionPrice(leg, k) = price
    PROVE  /\ GrossCost(leg, b + n) = GrossCost(leg, b) + price * n
           /\ RawModelFee(leg, b + n) = RawModelFee(leg, b) + ModelFee(price, n, Multiplier)
<1> DEFINE c == b + n
           cost == [k \in 1..c |-> ExecutionPrice(leg, k)]
           costB == [k \in 1..b |-> ExecutionPrice(leg, k)]
           fee == [k \in 1..c |-> ModelFee(ExecutionPrice(leg, k), 1, Multiplier)]
           feeB == [k \in 1..b |-> ModelFee(ExecutionPrice(leg, k), 1, Multiplier)]
           each == ModelFee(price, 1, Multiplier)
<1>1. price \in Nat /\ Multiplier \in Nat /\ FeePerUnit[price] \in Nat
  BY OrderFeesAssumption DEF Multiplier, MultiplierOf
<1>2. each = Multiplier * FeePerUnit[price] /\ each \in Int /\ price \in Int
  BY <1>1 DEF ModelFee
<1>3. MaxFillable(leg) \in Nat
  BY DepthFacts
<1>4. /\ \A k \in 1..c : cost[k] \in Int /\ fee[k] \in Int
      /\ \A k \in (b + 1)..c : cost[k] = price /\ fee[k] = each
  <2>1. \A k \in 1..c : k \in 1..MaxFillable(leg)
    BY <1>3
  <2>2. \A k \in 1..c : cost[k] \in Int /\ fee[k] \in Int
    BY <2>1, IncrementFacts
  <2>3. \A k \in (b + 1)..c : cost[k] = price /\ fee[k] = each
    OBVIOUS
  <2> QED
    BY <2>2, <2>3
<1>5. \A k \in 1..b : k \in 1..c /\ costB[k] = cost[k] /\ feeB[k] = fee[k]
  OBVIOUS
<1>6. /\ GrossCost(leg, c) = SumOver(1..c, cost) /\ GrossCost(leg, b) = SumOver(1..b, costB)
      /\ RawModelFee(leg, c) = SumOver(1..c, fee) /\ RawModelFee(leg, b) = SumOver(1..b, feeB)
  BY DEF GrossCost, RawModelFee, Multiplier
<1> HIDE DEF cost, costB, fee, feeB, each
<1>c. c = b + n
  OBVIOUS
<1>k. Run(cost, b, c, price) /\ Run(fee, b, c, each)
  BY <1>4 DEF Run
<1> HIDE DEF c
<1>7. IsFiniteSet(1..b)
  BY FS_Interval
<1>8. SumOver(1..b, costB) = SumOver(1..b, cost) /\ SumOver(1..b, feeB) = SumOver(1..b, fee)
  BY <1>4, <1>5, <1>7, SumSame
<1>9. SumOver(1..c, cost) = SumOver(1..b, cost) + price * n
  BY <1>2, <1>c, <1>k, SumOfRun
<1>10. SumOver(1..c, fee) = SumOver(1..b, fee) + each * n
  <2>1. PICK e \in Int : e = each
    BY <1>2
  <2>2. Run(fee, b, c, e)
    BY <1>k, <2>1
  <2>3. SumOver(1..c, fee) = SumOver(1..b, fee) + e * n
    BY <1>c, <2>2, SumOfRun
  <2> QED
    BY <2>1, <2>3
<1>11. each * n = ModelFee(price, n, Multiplier)
  BY <1>2 DEF ModelFee
<1> QED
  BY <1>6, <1>8, <1>9, <1>10, <1>11, <1>c

-----------------------------------------------------------------------------
(* The fees in force.                                                      *)

DueBy(changes, t) == {c \in changes : c.ts <= t}

\* What the changes due by t leave in force.
LeftBy(changes, start, t) ==
    IF DueBy(changes, t) = {} THEN start ELSE Latest(DueBy(changes, t)).config

\* One more instant of the venue's clock.
LEMMA ClockStep ==
    ASSUME NEW changes, Dated(changes), NEW start, NEW t \in Nat
    PROVE  LET fresh == {c \in changes : c.ts = t}
           IN  LeftBy(changes, start, t) =
                 IF fresh # {} THEN (CHOOSE c \in fresh : TRUE).config
                 ELSE IF t = 0 THEN start
                 ELSE LeftBy(changes, start, t - 1)
<1> DEFINE fresh == {c \in changes : c.ts = t}
           due == DueBy(changes, t)
<1>1. \A c \in changes : c.ts \in Nat
  BY DEF Dated, Changes
<1>2. CASE fresh # {}
  <2>1. PICK c : c = CHOOSE d \in fresh : TRUE
    OBVIOUS
  <2>2. c \in changes /\ c.ts = t
    BY <1>2, <2>1
  <2>3. c \in due /\ \A d \in due : d.ts <= c.ts
    BY <2>2, <1>1 DEF DueBy
  <2>4. \A e \in due : (\A d \in due : d.ts <= e.ts) => e = c
    BY <1>1, <2>2, <2>3 DEF DueBy, Dated
  <2>5. Latest(due) = c
    BY <2>3, <2>4 DEF Latest
  <2> QED
    BY <1>2, <2>1, <2>3, <2>5 DEF LeftBy
<1>3. CASE fresh = {} /\ t = 0
  <2>1. due = {}
    BY <1>1, <1>3 DEF DueBy
  <2> QED
    BY <1>3, <2>1 DEF LeftBy
<1>4. CASE fresh = {} /\ t # 0
  <2>1. due = DueBy(changes, t - 1)
    BY <1>1, <1>4 DEF DueBy
  <2> QED
    BY <1>4, <2>1 DEF LeftBy
<1> QED
  BY <1>2, <1>3, <1>4

\* The venue's clock and the scanner's lookup agree.
LEMMA AppliedIsLatest ==
    ASSUME NEW changes, Dated(changes), NEW start, scene.at \in Nat
    PROVE  Applied(changes, start) = LeftBy(changes, start, scene.at)
<1> DEFINE Instant(f, t) ==
             LET fresh == {c \in changes : c.ts = t}
             IN  IF fresh # {} THEN (CHOOSE c \in fresh : TRUE).config
                 ELSE IF t = 0 THEN start
                 ELSE f[t - 1]
           Unfold(f) == [t \in 0..scene.at |-> Instant(f, t)]
           config == CHOOSE f : f = Unfold(f)
           left == [t \in 0..scene.at |-> LeftBy(changes, start, t)]
<1>1. Applied(changes, start) = config[scene.at]
  BY DEF Applied
<1>2. ASSUME NEW t \in 0..scene.at
      PROVE  left[t] = Instant(left, t)
  <2>1. LeftBy(changes, start, t) =
          (LET fresh == {c \in changes : c.ts = t}
           IN  IF fresh # {} THEN (CHOOSE c \in fresh : TRUE).config
               ELSE IF t = 0 THEN start
               ELSE LeftBy(changes, start, t - 1))
    BY ClockStep
  <2>2. t # 0 => left[t - 1] = LeftBy(changes, start, t - 1)
    OBVIOUS
  <2> QED
    BY <2>1, <2>2
<1>3. left = Unfold(left)
  <2> HIDE DEF Instant
  <2> QED
    BY <1>2
<1>4. config = Unfold(config)
  <2> HIDE DEF Unfold, left
  <2> QED
    BY <1>3
<1> HIDE DEF config
<1>5. \A t \in 0..scene.at : config[t] = Instant(config, t)
  <2> HIDE DEF Instant
  <2> QED
    BY <1>4
<1> DEFINE P == {t \in Nat : t <= scene.at => config[t] = left[t]}
<1>6. 0 \in P
  <2>1. 0 \in 0..scene.at
    OBVIOUS
  <2>2. config[0] = Instant(config, 0) /\ left[0] = Instant(left, 0)
    BY <1>2, <1>5, <2>1
  <2>3. Instant(config, 0) = Instant(left, 0)
    OBVIOUS
  <2> QED
    BY <2>2, <2>3
<1>7. ASSUME NEW t \in Nat, t \in P PROVE t + 1 \in P
  <2> SUFFICES ASSUME t + 1 <= scene.at PROVE config[t + 1] = left[t + 1]
    OBVIOUS
  <2>1. config[t] = left[t]
    BY <1>7
  <2>2. t + 1 \in 0..scene.at /\ (t + 1) - 1 = t
    OBVIOUS
  <2>3. config[t + 1] = Instant(config, t + 1) /\ left[t + 1] = Instant(left, t + 1)
    BY <1>2, <1>5, <2>2
  <2>4. Instant(config, t + 1) = Instant(left, t + 1)
    BY <2>1, <2>2
  <2> QED
    BY <2>3, <2>4
<1> HIDE DEF P, left
<1>8. scene.at \in P
  BY <1>6, <1>7, NumberInduction
<1> QED
  BY <1>1, <1>8 DEF P, left

\* What the scanner resolves is what the venue charges.
LEMMA FeesInForce ==
    ASSUME scene \in Scenes
    PROVE  InForce(scene.timeline) = ResolveAt(scene.timeline)
<1>1. PICK line \in Timelines : line = scene.timeline
  BY DEF Scenes
<1>2. scene.at \in Nat
  BY ScanAssumption DEF Scenes
<1>3. Dated(line.seriesChanges) /\ Dated(line.eventChanges)
  BY ScanAssumption
<1>4. /\ Applied(line.eventChanges, line.eventOverride)
            = LeftBy(line.eventChanges, line.eventOverride, scene.at)
      /\ Applied(line.seriesChanges, line.seriesBase)
            = LeftBy(line.seriesChanges, line.seriesBase, scene.at)
  BY <1>2, <1>3, AppliedIsLatest
<1>5. /\ Applicable(line.eventChanges) = DueBy(line.eventChanges, scene.at)
      /\ Applicable(line.seriesChanges) = DueBy(line.seriesChanges, scene.at)
  BY DEF Applicable, DueBy
<1>6. SeriesFee(line) = LeftBy(line.seriesChanges, line.seriesBase, scene.at)
  BY <1>5 DEF SeriesFee, LeftBy
<1> QED
  BY <1>1, <1>4, <1>5, <1>6 DEF InForce, ResolveAt, LeftBy

-----------------------------------------------------------------------------
(* What the portfolio pays.                                                *)

\* Nothing is wrong that a definite verdict could have overlooked.
Cleared ==
    /\ scene.fault \notin BookFaults \cup InstrumentFaults \cup {"stale_certificate", "wrong_market"}
    /\ scene.kind # "complement" => scene.fault \notin RelationFaults \cup {"void_state"}

LEMMA PayoffFacts ==
    ASSUME scene \in Scenes, NEW joint
    PROVE  /\ \A m \in scene.members : CertifiedNotional(m) \in Nat
           /\ \A leg \in Legs : \A s : Payoff(leg, s) \in Nat
           /\ PortfolioPayoff(joint) \in Nat
           /\ \A leg \in Legs : Payoff(leg, joint[leg[1]]) <= PortfolioPayoff(joint)
<1> DEFINE pays == [leg \in Legs |-> Payoff(leg, joint[leg[1]])]
<1>1. \A m : CertifiedNotional(m) \in Nat
  BY ScanAssumption DEF CertifiedNotional
<1>2. \A leg, s : Payoff(leg, s) \in Nat
  BY <1>1 DEF Payoff
<1>3. IsFiniteSet(Legs) /\ \A leg \in Legs : pays[leg] \in Nat /\ pays[leg] = Payoff(leg, joint[leg[1]])
  BY <1>2, LegFacts
<1>4. PortfolioPayoff(joint) = SumOver(Legs, pays)
  BY DEF PortfolioPayoff
<1> HIDE DEF pays
<1>5. SumOver(Legs, pays) \in Nat /\ \A leg \in Legs : pays[leg] <= SumOver(Legs, pays)
  BY <1>3, SumOfAmounts
<1> QED
  BY <1>1, <1>2, <1>3, <1>4, <1>5

\* The worst case over the states enumerated is one of them.
LEMMA WorstFacts ==
    ASSUME scene \in Scenes, NEW J, J # {}
    PROVE  /\ EnumeratedWorst(J) \in Nat
           /\ \A j \in J : EnumeratedWorst(J) <= PortfolioPayoff(j)
           /\ \E j \in J : PortfolioPayoff(j) = EnumeratedWorst(J)
<1> DEFINE T == {PortfolioPayoff(j) : j \in J}
<1>1. T \subseteq Nat /\ T # {}
  BY PayoffFacts
<1>2. EnumeratedWorst(J) = Min(T)
  BY DEF EnumeratedWorst
<1>3. \A j \in J : PortfolioPayoff(j) \in T
  OBVIOUS
<1>4. \A n \in T : \E j \in J : PortfolioPayoff(j) = n
  OBVIOUS
<1> HIDE DEF T
<1>5. Min(T) \in T /\ \A n \in T : Min(T) <= n
  BY <1>1, MinIsLeast
<1> QED
  BY <1>1, <1>2, <1>3, <1>4, <1>5

\* The floor holds in every state the world may reach, and in one exactly.
IsFloor(floor) ==
    /\ floor \in Nat
    /\ \A joint \in TerminalStates : floor <= PortfolioPayoff(joint)
    /\ \E joint \in TerminalStates : PortfolioPayoff(joint) = floor

LEMMA ComplementFloor ==
    ASSUME scene \in Scenes, Cleared, scene.kind = "complement"
    PROVE  IsFloor(ComplementWorst)
<1>1. PICK m : scene.members = {m}
  <2>1. Cardinality(scene.members) = 1 /\ IsFiniteSet(scene.members)
    BY LegFacts DEF Scenes
  <2> QED
    BY <2>1, FS_Singleton
<1>2. (CHOOSE x \in scene.members : TRUE) = m
  BY <1>1
<1> DEFINE J == {[x \in scene.members |-> s] : s \in AllowedStates(m)}
<1>3. ComplementWorst = EnumeratedWorst(J)
  BY <1>2 DEF ComplementWorst
<1>4. \A joint : RelationHolds(joint)
  BY DEF RelationHolds
<1>5. MayVoid(m) <=> "VOID" \in AllowedStates(m)
  BY DEF MayVoid, AllowedStates, Cleared, Sides, InstrumentFaults
<1>6. Sides \subseteq AllowedStates(m) /\ AllowedStates(m) \subseteq Sides \cup {"VOID"}
  BY DEF AllowedStates, Sides
<1>7. TerminalStates = J
  <2>1. ASSUME NEW joint \in TerminalStates PROVE joint \in J
    <3>1. joint \in [scene.members -> Sides \cup {"VOID"}] /\ (joint[m] = "VOID" => MayVoid(m))
      BY <1>1 DEF TerminalStates
    <3>2. joint[m] \in AllowedStates(m)
      BY <1>1, <1>5, <1>6, <3>1
    <3>3. joint = [x \in scene.members |-> joint[m]]
      BY <1>1, <3>1
    <3> QED
      BY <3>2, <3>3
  <2>2. ASSUME NEW s \in AllowedStates(m)
        PROVE  [x \in scene.members |-> s] \in TerminalStates
    <3>1. PICK joint : joint = [x \in scene.members |-> s]
      OBVIOUS
    <3>2. joint \in [scene.members -> Sides \cup {"VOID"}] /\ joint[m] = s
      BY <1>1, <1>6, <3>1
    <3>3. \A x \in scene.members : joint[x] = "VOID" => MayVoid(x)
      BY <1>1, <1>5, <3>2
    <3> QED
      BY <1>4, <3>1, <3>2, <3>3 DEF TerminalStates
  <2> QED
    BY <2>1, <2>2
<1>8. J # {}
  <2>1. "YES" \in AllowedStates(m)
    BY <1>6 DEF Sides
  <2> QED
    BY <2>1
<1> HIDE DEF J
<1> QED
  BY <1>3, <1>7, <1>8, WorstFacts DEF IsFloor

\* A basket settles one way or the other everywhere.
LEMMA BasketStates ==
    ASSUME scene \in Scenes, Cleared, scene.kind # "complement", NEW joint
    PROVE  joint \in TerminalStates <=>
             /\ joint \in [scene.members -> Sides]
             /\ \/ scene.kind = "no_basket" /\ Cardinality(Winners(joint)) <= 1
                \/ scene.kind = "yes_basket" /\ Winners(joint) # {}
<1>1. \A m : ~MayVoid(m)
  BY DEF MayVoid, Cleared, InstrumentFaults
<1>2. scene.kind \in {"complement", "no_basket", "yes_basket"}
  BY DEF Scenes
<1>3. CASE scene.kind = "no_basket"
  <2>1. RelationHolds(joint) <=> Cardinality(Winners(joint)) <= 1
    BY <1>3 DEF RelationHolds, Cleared, RelationFaults
  <2>2. (/\ joint \in [scene.members -> Sides \cup {"VOID"}]
         /\ \A m \in scene.members : joint[m] # "VOID") <=> joint \in [scene.members -> Sides]
    BY DEF Sides
  <2> QED
    BY <1>1, <1>3, <2>1, <2>2 DEF TerminalStates
<1>4. CASE scene.kind = "yes_basket"
  <2>1. RelationHolds(joint) <=> Winners(joint) # {}
    BY <1>4 DEF RelationHolds, Cleared, RelationFaults
  <2>2. (/\ joint \in [scene.members -> Sides \cup {"VOID"}]
         /\ \A m \in scene.members : joint[m] # "VOID") <=> joint \in [scene.members -> Sides]
    BY DEF Sides
  <2> QED
    BY <1>1, <1>4, <2>1, <2>2 DEF TerminalStates
<1> QED
  BY <1>2, <1>3, <1>4

\* The joint states enumerated are the ones at most one member wins.
LEMMA NoBasketFloor ==
    ASSUME scene \in Scenes, Cleared, scene.kind = "no_basket"
    PROVE  IsFloor(NoBasketWorst)
<1>1. TerminalStates = AtMostOneStates
  <2>1. ASSUME NEW joint \in TerminalStates PROVE joint \in AtMostOneStates
    <3>1. joint \in [scene.members -> Sides] /\ Cardinality(Winners(joint)) <= 1
      BY BasketStates
    <3>2. IsFiniteSet(Winners(joint)) /\ Cardinality(Winners(joint)) \in Nat
      BY LegFacts, FS_Subset, FS_CardinalityType DEF Winners
    <3>3. CASE Winners(joint) = {}
      <4>1. joint = [m \in scene.members |-> "NO"]
        BY <3>1, <3>3 DEF Winners, Sides
      <4> QED
        BY <4>1 DEF AtMostOneStates
    <3>4. CASE Winners(joint) # {}
      <4>1. Cardinality(Winners(joint)) = 1
        BY <3>1, <3>2, <3>4, FS_EmptySet
      <4>2. PICK w : Winners(joint) = {w}
        BY <3>2, <4>1, FS_Singleton
      <4>3. w \in scene.members /\ joint = [m \in scene.members |-> IF m = w THEN "YES" ELSE "NO"]
        BY <3>1, <4>2 DEF Winners, Sides
      <4> QED
        BY <4>3 DEF AtMostOneStates
    <3> QED
      BY <3>3, <3>4
  <2>2. ASSUME NEW joint \in AtMostOneStates PROVE joint \in TerminalStates
    <3>1. joint \in [scene.members -> Sides]
      BY DEF AtMostOneStates, Sides
    <3>2. Winners(joint) = {} \/ \E w : Winners(joint) = {w}
      <4>1. CASE joint = [m \in scene.members |-> "NO"]
        BY <4>1 DEF Winners
      <4>2. CASE \E w \in scene.members : joint = [m \in scene.members |-> IF m = w THEN "YES" ELSE "NO"]
        BY <4>2 DEF Winners
      <4> QED
        BY <4>1, <4>2 DEF AtMostOneStates
    <3>3. Cardinality(Winners(joint)) <= 1
      <4>1. Cardinality(Winners(joint)) \in {0, 1}
        BY <3>2, FS_EmptySet, FS_Singleton, Zenon
      <4> QED
        BY <4>1
    <3> QED
      BY <3>1, <3>3, BasketStates
  <2> QED
    BY <2>1, <2>2
<1>2. AtMostOneStates # {}
  BY DEF AtMostOneStates
<1> QED
  BY <1>1, <1>2, WorstFacts DEF IsFloor, NoBasketWorst

\* With one certain winner the least notional is the floor, and no joint state
\* is enumerated.
LEMMA YesBasketFloor ==
    ASSUME scene \in Scenes, Cleared, scene.kind = "yes_basket"
    PROVE  IsFloor(AtLeastOneFloor)
<1> DEFINE T == {CertifiedNotional(m) : m \in scene.members}
<1>1. T \subseteq Nat /\ T # {}
  BY LegFacts, PayoffFacts
<1>2. AtLeastOneFloor = Min(T)
  BY DEF AtLeastOneFloor
<1>3. \A m \in scene.members : CertifiedNotional(m) \in T
  OBVIOUS
<1>4. \A n \in T : \E m \in scene.members : CertifiedNotional(m) = n
  OBVIOUS
<1> HIDE DEF T
<1>5. Min(T) \in T /\ \A n \in T : Min(T) <= n
  BY <1>1, MinIsLeast
<1>6. \A m \in scene.members : <<m, "YES">> \in Legs
  BY DEF Legs
<1>7. ASSUME NEW joint \in TerminalStates PROVE AtLeastOneFloor <= PortfolioPayoff(joint)
  <2>1. PICK w \in scene.members : joint[w] = "YES"
    BY BasketStates DEF Winners
  <2>2. PICK leg \in Legs : leg = <<w, "YES">>
    BY <1>6
  <2>3. Payoff(leg, joint[leg[1]]) = CertifiedNotional(w)
    BY <2>1, <2>2 DEF Payoff
  <2>4. CertifiedNotional(w) <= PortfolioPayoff(joint)
    BY <2>3, PayoffFacts
  <2>5. CertifiedNotional(w) \in Nat /\ PortfolioPayoff(joint) \in Nat
    BY PayoffFacts
  <2>6. Min(T) <= CertifiedNotional(w) /\ Min(T) \in Nat
    BY <1>1, <1>3, <1>5
  <2> QED
    BY <1>2, <2>4, <2>5, <2>6
<1>8. \E joint \in TerminalStates : PortfolioPayoff(joint) = AtLeastOneFloor
  <2>1. PICK m \in scene.members : CertifiedNotional(m) = AtLeastOneFloor
    BY <1>2, <1>4, <1>5
  <2>2. PICK joint : joint = [x \in scene.members |-> IF x = m THEN "YES" ELSE "NO"]
    OBVIOUS
  <2>3. joint \in TerminalStates
    <3>1. joint \in [scene.members -> Sides] /\ m \in Winners(joint)
      BY <2>2 DEF Sides, Winners
    <3> QED
      BY <3>1, BasketStates
  <2>4. PICK one \in Legs : one = <<m, "YES">>
    BY <1>6
  <2> DEFINE pays == [leg \in Legs |-> Payoff(leg, joint[leg[1]])]
  <2>5. pays[one] = CertifiedNotional(m)
    BY <2>2, <2>4 DEF Payoff
  <2>6. ASSUME NEW leg \in Legs \ {one} PROVE pays[leg] = 0
    <3>1. leg[1] \in scene.members /\ leg[2] = "YES" /\ leg = <<leg[1], leg[2]>>
      BY DEF Legs
    <3>2. leg[1] # m
      BY <2>4, <3>1
    <3> QED
      BY <2>2, <3>1, <3>2 DEF Payoff
  <2>7. PortfolioPayoff(joint) = SumOver(Legs, pays)
    BY DEF PortfolioPayoff
  <2> HIDE DEF pays
  <2>8. IsFiniteSet(Legs) /\ pays[one] \in Int
    BY <2>5, LegFacts, PayoffFacts
  <2>9. SumOver(Legs, pays) = pays[one]
    BY <2>6, <2>8, SumOfOne
  <2> QED
    BY <2>1, <2>3, <2>5, <2>7, <2>9
<1> QED
  BY <1>1, <1>2, <1>5, <1>7, <1>8 DEF IsFloor

LEMMA WorstIsFloor ==
    ASSUME scene \in Scenes, Cleared
    PROVE  IsFloor(WorstPerSet)
<1>1. scene.kind \in {"complement", "no_basket", "yes_basket"}
  BY DEF Scenes
<1> QED
  BY <1>1, ComplementFloor, NoBasketFloor, YesBasketFloor DEF WorstPerSet

-----------------------------------------------------------------------------
(* The verdicts.                                                           *)

\* What is read from the scene alone stays as it is while the scene does.
LEMMA SceneStands ==
    ASSUME UNCHANGED <<scene, quotedStep>>
    PROVE  /\ Legs' = Legs
           /\ \A leg, k : ExecutionPrice(leg, k)' = ExecutionPrice(leg, k)
           /\ \A leg, q : GrossCost(leg, q)' = GrossCost(leg, q)
           /\ \A leg, q : RawModelFee(leg, q)' = RawModelFee(leg, q)
           /\ \A q : EvaluateQuantity(q)' = EvaluateQuantity(q)
           /\ \A q : EvaluateWithCurves(q)' = EvaluateWithCurves(q)
           /\ NotSearched' = NotSearched /\ Precheck' = Precheck /\ Reachable' = Reachable
<1>1. scene' = scene /\ quotedStep' = quotedStep
  OBVIOUS
<1>2. Legs' = Legs
  BY <1>1 DEF Legs
<1>3. \A leg : SourceBids(leg)' = SourceBids(leg)
  BY <1>1 DEF SourceBids
<1>4. \A leg : MaxFillable(leg)' = MaxFillable(leg)
  BY <1>3, Zenon DEF MaxFillable
<1>5. \A leg, k : SourceBid(leg, k)' = SourceBid(leg, k)
  BY <1>3, Zenon DEF SourceBid
<1>6. \A leg, k : ExecutionPrice(leg, k)' = ExecutionPrice(leg, k)
  BY <1>5, Zenon DEF ExecutionPrice
<1>7. \A leg, q : GrossCost(leg, q)' = GrossCost(leg, q)
  BY <1>6, Zenon DEF GrossCost
<1>8. CommonFillable' = CommonFillable
  BY <1>2, <1>4, Zenon DEF CommonFillable
<1>9. \A leg, q : LiquidityIds(leg, q)' = LiquidityIds(leg, q)
  BY <1>5, Zenon DEF LiquidityIds
<1>10. \A q : Collisions(q)' = Collisions(q)
  BY <1>2, <1>9, Zenon DEF Collisions
<1>11. \A changes : Applicable(changes)' = Applicable(changes)
  BY <1>1, Zenon DEF Applicable
<1>12. \A line : SeriesFee(line)' = SeriesFee(line) /\ ResolveAt(line)' = ResolveAt(line)
  BY <1>11, Zenon DEF SeriesFee, ResolveAt
<1>13. \A leg, q : RawModelFee(leg, q)' = RawModelFee(leg, q)
  BY <1>1, <1>6, <1>12, Zenon DEF RawModelFee
<1>14. \A m : CertifiedNotional(m)' = CertifiedNotional(m) /\ AllowedStates(m)' = AllowedStates(m)
  BY <1>1 DEF CertifiedNotional, AllowedStates
<1>15. \A joint : PortfolioPayoff(joint)' = PortfolioPayoff(joint)
  BY <1>2, <1>14, Zenon DEF PortfolioPayoff, Payoff
<1>16. \A J : EnumeratedWorst(J)' = EnumeratedWorst(J)
  BY <1>15, Zenon DEF EnumeratedWorst
<1>18. ComplementWorst' = ComplementWorst
  BY <1>1, <1>14, <1>16, Zenon DEF ComplementWorst
<1>19. AtMostOneStates' = AtMostOneStates
  <2>1. scene.members' = scene.members
    BY <1>1
  <2> QED
    BY <2>1, SMT DEF AtMostOneStates
<1>20. NoBasketWorst' = NoBasketWorst
  BY <1>16, <1>19, Zenon DEF NoBasketWorst
<1>21. AtLeastOneFloor' = AtLeastOneFloor
  BY <1>1, <1>14, Zenon DEF AtLeastOneFloor
<1>22. WorstPerSet' = WorstPerSet
  BY <1>1, <1>18, <1>20, <1>21, Zenon DEF WorstPerSet
<1>23. \A q : GrossOfAll(q)' = GrossOfAll(q)
  BY <1>2, <1>7, Zenon DEF GrossOfAll
<1>24. \A q : FeeLower(q)' = FeeLower(q)
  BY <1>2, <1>13, Zenon DEF FeeLower, NetFeeLowerBound
<1>25. \A q : FeeUpper(q)' = FeeUpper(q)
  BY <1>1, <1>2, <1>13, Zenon DEF FeeUpper, NetFeeUpperBound, NetFeeLowerBound, MaxFillCount
<1>26. \A q : ByInterval(q)' = ByInterval(q)
  BY <1>22, <1>23, <1>24, <1>25, Zenon DEF ByInterval, ProfitLowerBound, ProfitUpperBound
<1>27. \A q : Costed(q)' = Costed(q)
  BY <1>1, <1>12, <1>26, Zenon DEF Costed, FeesBlock
<1>28. \A q, rest : QuotedThen(q, rest)' = QuotedThen(q, rest)
  BY <1>8, <1>10, Zenon DEF QuotedThen
<1>29. /\ \A q : ComplementWithCurves(q)' = ComplementWithCurves(q)
       /\ \A q : NoBasketWithCurves(q)' = NoBasketWithCurves(q)
       /\ \A q : YesBasketWithCurves(q)' = YesBasketWithCurves(q)
  BY <1>1, <1>27, <1>28, Zenon
     DEF ComplementWithCurves, NoBasketWithCurves, YesBasketWithCurves, PayoffIncomplete
<1>30. \A q : EvaluateWithCurves(q)' = EvaluateWithCurves(q)
  BY <1>1, <1>29, Zenon DEF EvaluateWithCurves
<1>31. \A rest : CurvesThen(rest)' = CurvesThen(rest)
  BY <1>1, Zenon DEF CurvesThen, NotExecutable, NotQuotable
<1>32. /\ \A q : EvaluateComplement(q)' = EvaluateComplement(q)
       /\ \A q : EvaluateNoBasket(q)' = EvaluateNoBasket(q)
       /\ \A q : EvaluateYesBasket(q)' = EvaluateYesBasket(q)
  BY <1>1, <1>29, <1>31, Zenon
     DEF EvaluateComplement, EvaluateNoBasket, EvaluateYesBasket, ComplementSemantics,
         NoBasketSemantics, YesBasketSemantics, PayoffUnsupported, RelationBlocks, CertificateBlocks
<1>33. \A q : EvaluateQuantity(q)' = EvaluateQuantity(q)
  BY <1>1, <1>32, Zenon DEF EvaluateQuantity
<1>34. Precheck' = Precheck
  BY <1>1, <1>31, <1>32, Zenon
     DEF Precheck, ComplementPrecheck, NoBasketProbe, YesBasketProbe, CertificateBlocks
<1>35. NotSearched' = NotSearched /\ Reachable' = Reachable
  BY <1>1, <1>8, <1>34, Zenon DEF NotSearched, Reachable
<1> QED
  BY <1>2, <1>6, <1>7, <1>13, <1>30, <1>33, <1>34, <1>35

Definite == {"PROVEN_CONTRACTUAL_ARBITRAGE", "PROVEN_NOT_PROFITABLE"}

\* What was checked on the way to a definite verdict.
LEMMA DefiniteFacts ==
    ASSUME scene \in Scenes, NEW q \in Nat, EvaluateQuantity(q) \in Definite
    PROVE  /\ Cleared
           /\ q <= CommonFillable
           /\ ResolveAt(scene.timeline) = "identity"
           /\ EvaluateQuantity(q) = ByInterval(q)
           /\ EvaluateQuantity(q) = EvaluateWithCurves(q)
           /\ ~NotSearched
<1>1. scene.kind \in {"complement", "no_basket", "yes_basket"} /\ CommonFillable \in Nat
  BY CommonFacts DEF Scenes
<1>2. Costed(q) \in Definite =>
        ResolveAt(scene.timeline) = "identity" /\ Costed(q) = ByInterval(q)
  BY DEF Costed, FeesBlock, Definite
<1>3. ASSUME NEW rest, QuotedThen(q, rest) \in Definite
      PROVE  q <= CommonFillable /\ QuotedThen(q, rest) = rest
  BY <1>1, <1>3 DEF QuotedThen, Definite
<1>4. ASSUME NEW rest, CurvesThen(rest) \in Definite
      PROVE  /\ ~NotExecutable /\ ~NotQuotable /\ CurvesThen(rest) = rest
             /\ \A other : CurvesThen(other) = other
  BY <1>4 DEF CurvesThen, Definite
<1>5. ~NotExecutable /\ ~NotQuotable <=> scene.fault \notin BookFaults \cup InstrumentFaults
  BY DEF NotExecutable, NotQuotable
<1>6. CASE scene.kind = "complement"
  <2>1. EvaluateQuantity(q) = EvaluateComplement(q) /\ EvaluateWithCurves(q) = ComplementWithCurves(q)
    BY <1>6 DEF EvaluateQuantity, EvaluateWithCurves
  <2>2. ~ComplementSemantics /\ EvaluateComplement(q) = CurvesThen(ComplementWithCurves(q))
    BY <2>1 DEF EvaluateComplement, Definite
  <2>3. /\ ~NotExecutable /\ ~NotQuotable
        /\ EvaluateComplement(q) = ComplementWithCurves(q)
        /\ CurvesThen("INSUFFICIENT_DEPTH") = "INSUFFICIENT_DEPTH"
    BY <1>4, <2>1, <2>2
  <2>4. q <= CommonFillable /\ ComplementWithCurves(q) = Costed(q)
    BY <1>3, <2>1, <2>3 DEF ComplementWithCurves
  <2>5. Cleared
    BY <1>5, <1>6, <2>2, <2>3 DEF Cleared, ComplementSemantics, CertificateBlocks
  <2>6. ~NotSearched
    BY <1>6, <2>2, <2>3
       DEF NotSearched, Precheck, ComplementPrecheck, ComplementSemantics
  <2> QED
    BY <1>2, <2>1, <2>3, <2>4, <2>5, <2>6
<1>7. CASE scene.kind = "no_basket"
  <2>1. EvaluateQuantity(q) = EvaluateNoBasket(q) /\ EvaluateWithCurves(q) = NoBasketWithCurves(q)
    BY <1>7 DEF EvaluateQuantity, EvaluateWithCurves
  <2>2. ~NoBasketSemantics /\ EvaluateNoBasket(q) = CurvesThen(NoBasketWithCurves(q))
    BY <2>1 DEF EvaluateNoBasket, Definite
  <2>3. /\ ~NotExecutable /\ ~NotQuotable
        /\ EvaluateNoBasket(q) = NoBasketWithCurves(q)
        /\ CurvesThen(NoBasketWithCurves(scene.lo)) = NoBasketWithCurves(scene.lo)
    BY <1>4, <2>1, <2>2
  <2>4. /\ q <= CommonFillable /\ ~PayoffIncomplete /\ NoBasketWithCurves(q) = Costed(q)
    <3>1. /\ q <= CommonFillable
          /\ NoBasketWithCurves(q)
               = IF PayoffIncomplete THEN "BLOCKED_SETTLEMENT_SEMANTICS" ELSE Costed(q)
      BY <1>3, <2>1, <2>3 DEF NoBasketWithCurves
    <3> QED
      BY <2>1, <2>3, <3>1 DEF Definite
  <2>5. Cleared
    BY <1>5, <1>7, <2>2, <2>3, <2>4
       DEF Cleared, NoBasketSemantics, RelationBlocks, CertificateBlocks, PayoffIncomplete, Scenes
  <2>6. ~NotSearched
    <3>1. Precheck = NoBasketWithCurves(scene.lo)
      BY <1>7, <2>2, <2>3 DEF Precheck, NoBasketProbe, EvaluateNoBasket
    <3> QED
      BY <2>4, <3>1 DEF NotSearched, NoBasketWithCurves, QuotedThen, Costed, ByInterval
  <2> QED
    BY <1>2, <2>1, <2>3, <2>4, <2>5, <2>6
<1>8. CASE scene.kind = "yes_basket"
  <2>1. EvaluateQuantity(q) = EvaluateYesBasket(q) /\ EvaluateWithCurves(q) = YesBasketWithCurves(q)
    BY <1>8 DEF EvaluateQuantity, EvaluateWithCurves
  <2>2. /\ ~YesBasketSemantics /\ ~PayoffUnsupported
        /\ EvaluateYesBasket(q) = CurvesThen(YesBasketWithCurves(q))
    BY <2>1 DEF EvaluateYesBasket, Definite
  <2>3. /\ ~NotExecutable /\ ~NotQuotable
        /\ EvaluateYesBasket(q) = YesBasketWithCurves(q)
        /\ CurvesThen(YesBasketWithCurves(scene.lo)) = YesBasketWithCurves(scene.lo)
    BY <1>4, <2>1, <2>2
  <2>4. q <= CommonFillable /\ YesBasketWithCurves(q) = Costed(q)
    BY <1>3, <2>1, <2>3 DEF YesBasketWithCurves
  <2>5. Cleared
    BY <1>5, <1>8, <2>2, <2>3
       DEF Cleared, YesBasketSemantics, RelationBlocks, CertificateBlocks, PayoffUnsupported, Scenes
  <2>6. ~NotSearched
    <3>1. Precheck = YesBasketWithCurves(scene.lo)
      BY <1>8, <2>2, <2>3 DEF Precheck, YesBasketProbe, EvaluateYesBasket
    <3> QED
      BY <3>1 DEF NotSearched, YesBasketWithCurves, QuotedThen, Costed, ByInterval
  <2> QED
    BY <1>2, <2>1, <2>3, <2>4, <2>5, <2>6
<1> QED
  BY <1>1, <1>6, <1>7, <1>8

-----------------------------------------------------------------------------
(* The trades.                                                             *)

\* An order acts on a definite verdict, and has paid for what it bought what
\* the curves quote for it.
Trading(leg) ==
    /\ leg \in Legs
    /\ stage = "judged" /\ verdict.class \in Definite
    /\ order[leg].left \in Nat /\ order[leg].left + order[leg].bought = verdict.quantity
    /\ order[leg].gross = GrossCost(leg, order[leg].bought)
    /\ order[leg].raw = RawModelFee(leg, order[leg].bought)

Judged ==
    stage = "judged" =>
        /\ verdict.quantity \in scene.lo..scene.hi
        /\ verdict.class = EvaluateQuantity(verdict.quantity)

TradeInv ==
    /\ scene \in Scenes
    /\ FeeInv
    /\ Judged
    /\ \A leg \in Orders : order[leg] = Unplaced \/ Trading(leg)

\* Nothing costs nothing.
LEMMA NothingBought ==
    ASSUME NEW leg
    PROVE  GrossCost(leg, 0) = 0 /\ RawModelFee(leg, 0) = 0
<1> DEFINE cost == [k \in 1..0 |-> ExecutionPrice(leg, k)]
           fee == [k \in 1..0 |-> ModelFee(ExecutionPrice(leg, k), 1,
                                          MultiplierOf(ResolveAt(scene.timeline)))]
<1>1. GrossCost(leg, 0) = SumOver(1..0, cost) /\ RawModelFee(leg, 0) = SumOver(1..0, fee)
  BY DEF GrossCost, RawModelFee
<1>2. 1..0 = {}
  OBVIOUS
<1> HIDE DEF cost, fee
<1>3. SumOver({}, cost) = 0 /\ SumOver({}, fee) = 0
  BY FS_EmptySet, SumFacts
<1> QED
  BY <1>1, <1>2, <1>3

LEMMA TradeInvInit == (\E s \in Scenes : Start(s)) => TradeInv
<1> SUFFICES ASSUME NEW s \in Scenes, Start(s) PROVE TradeInv
  OBVIOUS
<1>1. FeeInv
  BY FeeInvInit DEF Start
<1> QED
  BY <1>1 DEF Start, OrderInit, TradeInv, Judged

\* While the verdict stands an order that nothing happens to stays as it is.
LEMMA OrderStands ==
    ASSUME TradeInv, UNCHANGED <<scanVars, step, quotedStep>>, NEW leg \in Orders,
           order'[leg] = order[leg]
    PROVE  order'[leg] = Unplaced \/ Trading(leg)'
<1>1. CASE order[leg] = Unplaced
  BY <1>1
<1>2. CASE Trading(leg)
  <2>1. UNCHANGED <<scene, quotedStep, stage, verdict>>
    BY DEF scanVars
  <2>2. PICK bought, gross, raw :
          bought = order[leg].bought /\ gross = order[leg].gross /\ raw = order[leg].raw
    OBVIOUS
  <2>3. /\ Legs' = Legs
        /\ GrossCost(leg, bought)' = GrossCost(leg, bought)
        /\ RawModelFee(leg, bought)' = RawModelFee(leg, bought)
    BY <2>1, SceneStands
  <2>4. gross = GrossCost(leg, bought) /\ raw = RawModelFee(leg, bought)
    BY <1>2, <2>2 DEF Trading
  <2>5. /\ order'[leg].gross = GrossCost(leg, order[leg].bought)'
        /\ order'[leg].raw = RawModelFee(leg, order[leg].bought)'
    BY <2>2, <2>3, <2>4
  <2> QED
    BY <1>2, <2>1, <2>3, <2>5 DEF Trading
<1> QED
  BY <1>1, <1>2 DEF TradeInv

LEMMA VerdictStands ==
    ASSUME TradeInv, UNCHANGED <<scanVars, step, quotedStep>>
    PROVE  (scene \in Scenes)' /\ Judged'
<1>1. UNCHANGED <<scene, quotedStep, stage, verdict>>
  BY DEF scanVars
<1>2. PICK q : q = verdict.quantity
  OBVIOUS
<1>3. EvaluateQuantity(q)' = EvaluateQuantity(q)
  BY <1>1, SceneStands
<1>4. (scene \in Scenes)'
  BY <1>1 DEF TradeInv, Scenes
<1> QED
  BY <1>1, <1>2, <1>3, <1>4 DEF TradeInv, Judged

\* Quantities of the scene are increments.
LEMMA QuantityTyping ==
    ASSUME scene \in Scenes, NEW q \in scene.lo..scene.hi
    PROVE  q \in 1..MaxQuantity /\ q \in Nat
BY OrderFeesAssumption DEF Scenes

LEMMA PlaceLegStep ==
    ASSUME TradeInv, NEW leg \in Legs, PlaceLeg(leg)
    PROVE  TradeInv' /\ OrderNext
<1>1. /\ stage = "judged" /\ verdict.class \in Definite
      /\ Place(leg, verdict.quantity)
      /\ UNCHANGED <<scanVars, step, quotedStep>>
  BY DEF PlaceLeg, Place, Definite
<1>2. PICK q \in scene.lo..scene.hi : q = verdict.quantity
  BY <1>1 DEF TradeInv, Judged
<1>3. q \in 1..MaxQuantity /\ q \in Nat /\ leg \in Orders
  BY QuantityTyping, LegFacts DEF TradeInv
<1>4. OrderNext /\ FeeInv'
  <2>1. OrderNext
    BY <1>1, <1>2, <1>3 DEF OrderNext
  <2> QED
    BY <2>1, FeeInvStep DEF TradeInv
<1>5. /\ order[leg] = Unplaced
      /\ order' = [order EXCEPT ![leg] = [order[leg] EXCEPT !.left = q]]
  BY <1>1, <1>2 DEF Place
<1>6. /\ order'[leg].left = q /\ order'[leg].bought = 0
      /\ order'[leg].gross = 0 /\ order'[leg].raw = 0
      /\ \A o \in Orders : o # leg => order'[o] = order[o]
  BY <1>3, <1>5 DEF TradeInv, FeeInv, Unplaced
<1>7. Trading(leg)'
  <2>1. UNCHANGED <<scene, quotedStep, stage, verdict>>
    BY <1>1 DEF scanVars
  <2>2. Legs' = Legs /\ GrossCost(leg, 0)' = GrossCost(leg, 0) /\ RawModelFee(leg, 0)' = RawModelFee(leg, 0)
    BY <2>1, SceneStands
  <2>3. /\ order'[leg].gross = GrossCost(leg, order[leg].bought)'
        /\ order'[leg].raw = RawModelFee(leg, order[leg].bought)'
    BY <1>6, <2>2, NothingBought
  <2> QED
    BY <1>1, <1>2, <1>3, <1>6, <2>1, <2>2, <2>3 DEF Trading
<1>8. \A o \in Orders : order'[o] = Unplaced \/ Trading(o)'
  BY <1>1, <1>6, <1>7, OrderStands
<1>9. (scene \in Scenes)' /\ Judged'
  BY <1>1, VerdictStands
<1>10. \A o \in Orders : (order[o] = Unplaced \/ Trading(o))'
  BY <1>8
<1> QED
  BY <1>4, <1>9, <1>10, ScanAssumption DEF TradeInv

\* A fill takes the increments the curve quoted, at the price it quoted.
LEMMA FillLegStep ==
    ASSUME TradeInv, NEW leg \in Legs, NEW n \in 1..MaxQuantity,
           n <= order[leg].left, FillLeg(leg, n)
    PROVE  TradeInv' /\ OrderNext
<1> DEFINE b == order[leg].bought
           multiplier == MultiplierOf(InForce(scene.timeline))
<1>1. PICK price \in FillPrices(leg, b + 1) :
        /\ \A k \in 1..n : price \in FillPrices(leg, b + k)
        /\ Fill(leg, price, n, multiplier)
        /\ UNCHANGED scanVars
  BY DEF FillLeg
<1>2. leg \in Orders /\ order[leg] \in Account /\ scene \in Scenes
  BY LegFacts DEF TradeInv, FeeInv
<1>3. Trading(leg)
  <2>1. order[leg] # Unplaced
    BY OrderFeesAssumption DEF Unplaced
  <2> QED
    BY <1>2, <2>1 DEF TradeInv
<1>4. PICK q \in scene.lo..scene.hi : q = verdict.quantity /\ EvaluateQuantity(q) \in Definite
  BY <1>3 DEF TradeInv, Judged, Trading
<1>5. q \in Nat
  BY <1>2, QuantityTyping
<1>6. /\ Cleared /\ q <= CommonFillable /\ ResolveAt(scene.timeline) = "identity"
  BY <1>2, <1>4, <1>5, DefiniteFacts
<1>7. q <= MaxFillable(leg) /\ MaxFillable(leg) \in Nat
  BY <1>2, <1>5, <1>6, CommonFacts, DepthFacts
<1>8. /\ b \in Nat /\ n \in Nat /\ n >= 1 /\ order[leg].left \in Nat
      /\ order[leg].left + b = q /\ b + n <= q
  BY <1>2, <1>3, <1>4, <1>5, OrderFeesAssumption DEF Trading, Account
<1> HIDE DEF b
<1>9. \A k \in 1..n : b + k \in 1..MaxFillable(leg)
  BY <1>5, <1>7, <1>8
<1>10. \A k \in 1..n : price = ExecutionPrice(leg, b + k) /\ price \in Prices
  <2> SUFFICES ASSUME NEW k \in 1..n
               PROVE  price = ExecutionPrice(leg, b + k) /\ price \in Prices
    OBVIOUS
  <2>1. price = VenuePrice(leg, b + k)
    BY <1>1, <1>6 DEF FillPrices, Cleared
  <2>2. PICK j \in 1..MaxFillable(leg) : j = b + k
    BY <1>9
  <2> QED
    BY <1>2, <2>1, <2>2, PriceFacts
<1>11. price \in Prices
  BY <1>8, <1>10
<1>12. \A j \in (b + 1)..(b + n) : ExecutionPrice(leg, j) = price
  <2> SUFFICES ASSUME NEW j \in (b + 1)..(b + n) PROVE ExecutionPrice(leg, j) = price
    OBVIOUS
  <2>1. PICK k \in 1..n : b + k = j
    <3>1. j - b \in 1..n /\ b + (j - b) = j
      BY <1>8
    <3> QED
      BY <3>1
  <2> QED
    BY <1>10, <2>1
<1>13. multiplier = Multiplier
  BY <1>2, FeesInForce DEF Multiplier
<1>14. /\ GrossCost(leg, b + n) = GrossCost(leg, b) + price * n
       /\ RawModelFee(leg, b + n) = RawModelFee(leg, b) + ModelFee(price, n, multiplier)
  <2>1. b + n <= MaxFillable(leg)
    BY <1>5, <1>7, <1>8
  <2> QED
    BY <1>2, <1>8, <1>11, <1>12, <1>13, <2>1, CostOfRun
<1>15. OrderNext /\ FeeInv'
  <2>1. multiplier \in Multipliers
    BY ScanAssumption DEF MultiplierOf
  <2>2. OrderNext
    BY <1>1, <1>2, <1>11, <2>1 DEF OrderNext
  <2> QED
    BY <2>2, FeeInvStep DEF TradeInv
<1>16. PICK fee : fee = ModelFee(price, n, multiplier)
  OBVIOUS
<1> HIDE DEF multiplier
<1>17. order' = [order EXCEPT ![leg] = AfterFill(order[leg], price, n, fee)]
  BY <1>1, <1>16 DEF Fill
<1>18. /\ order'[leg] = AfterFill(order[leg], price, n, fee)
       /\ \A o \in Orders : o # leg => order'[o] = order[o]
  BY <1>2, <1>17 DEF TradeInv, FeeInv
<1>19. /\ order'[leg].left = order[leg].left - n
       /\ order'[leg].bought = b + n
       /\ order'[leg].gross = order[leg].gross + price * n
       /\ order'[leg].raw = order[leg].raw + fee
  BY <1>18 DEF AfterFill, b
<1>20. UNCHANGED <<scanVars, step, quotedStep>>
  BY <1>1 DEF Fill
<1>21. Trading(leg)'
  <2>1. UNCHANGED <<scene, quotedStep, stage, verdict>>
    BY <1>20 DEF scanVars
  <2>2. PICK c : c = b + n
    OBVIOUS
  <2>3. Legs' = Legs /\ GrossCost(leg, c)' = GrossCost(leg, c) /\ RawModelFee(leg, c)' = RawModelFee(leg, c)
    BY <2>1, SceneStands
  <2>4. order[leg].gross = GrossCost(leg, b) /\ order[leg].raw = RawModelFee(leg, b)
    BY <1>3 DEF Trading, b
  <2>5. /\ order'[leg].gross = GrossCost(leg, order[leg].bought)'
        /\ order'[leg].raw = RawModelFee(leg, order[leg].bought)'
    BY <1>14, <1>16, <1>19, <2>2, <2>3, <2>4
  <2>6. order'[leg].left \in Nat /\ order'[leg].left + order'[leg].bought = q
    BY <1>8, <1>19
  <2> QED
    BY <1>3, <1>4, <2>1, <2>3, <2>5, <2>6 DEF Trading
<1>22. \A o \in Orders : order'[o] = Unplaced \/ Trading(o)'
  BY <1>18, <1>20, <1>21, OrderStands
<1>23. (scene \in Scenes)' /\ Judged'
  BY <1>20, VerdictStands
<1>24. \A o \in Orders : (order[o] = Unplaced \/ Trading(o))'
  BY <1>22
<1> QED
  BY <1>15, <1>23, <1>24 DEF TradeInv

\* Before the verdict there is no order.
LEMMA UntradedStep ==
    ASSUME TradeInv, stage # "judged", UNCHANGED <<scene, orderVars>>
    PROVE  /\ (scene \in Scenes)' /\ FeeInv'
           /\ \A o \in Orders : order'[o] = Unplaced
<1>1. FeeInv'
  <2>1. UNCHANGED orderVars
    OBVIOUS
  <2> QED
    BY <2>1, FeeInvStep DEF TradeInv
<1>2. (scene \in Scenes)'
  BY DEF TradeInv, Scenes
<1>3. \A o \in Orders : order'[o] = Unplaced
  BY DEF TradeInv, Trading, orderVars
<1> QED
  BY <1>1, <1>2, <1>3

LEMMA EvaluateStep ==
    ASSUME TradeInv, NEW q \in scene.lo..scene.hi, Evaluate(q)
    PROVE  TradeInv'
<1>1. /\ stage = "ready" /\ stage' = "judged"
      /\ verdict' = [quantity |-> q, class |-> EvaluateQuantity(q)]
      /\ UNCHANGED <<scene, orderVars>>
  BY DEF Evaluate
<1>2. (scene \in Scenes)' /\ FeeInv' /\ \A o \in Orders : order'[o] = Unplaced
  BY <1>1, UntradedStep
<1>3. EvaluateQuantity(q)' = EvaluateQuantity(q)
  BY <1>1, SceneStands DEF orderVars
<1>4. verdict'.quantity = q /\ verdict'.class = EvaluateQuantity(q)
  BY <1>1
<1>5. PICK e : e = EvaluateQuantity(q)
  OBVIOUS
<1>6. verdict'.class = EvaluateQuantity(verdict.quantity)'
  BY <1>3, <1>4
<1>7. Judged'
  BY <1>1, <1>4, <1>6 DEF Judged
<1> QED
  BY <1>2, <1>7 DEF TradeInv

LEMMA TradeInvStep == TradeInv /\ [ScanNext]_tradeVars => TradeInv'
<1> SUFFICES ASSUME TradeInv, [ScanNext]_tradeVars PROVE TradeInv'
  OBVIOUS
<1>1. ASSUME StartSearch \/ SweepQuantity
      PROVE  TradeInv'
  <2>1. stage # "judged" /\ stage' # "judged" /\ UNCHANGED <<scene, orderVars>>
    BY <1>1 DEF StartSearch, SweepQuantity
  <2>2. (scene \in Scenes)' /\ FeeInv' /\ \A o \in Orders : order'[o] = Unplaced
    BY <2>1, UntradedStep
  <2>3. Judged'
    BY <2>1 DEF Judged
  <2> QED
    BY <2>2, <2>3 DEF TradeInv
<1>2. CASE UNCHANGED tradeVars
  <2>1. UNCHANGED <<scanVars, step, quotedStep, order>>
    BY <1>2 DEF tradeVars, orderVars
  <2>2. FeeInv'
    BY <1>2, FeeInvStep DEF TradeInv, tradeVars
  <2>3. \A o \in Orders : (order[o] = Unplaced \/ Trading(o))'
    BY <2>1, OrderStands
  <2>4. (scene \in Scenes)' /\ Judged'
    BY <2>1, VerdictStands
  <2> QED
    BY <2>2, <2>3, <2>4 DEF TradeInv
<1> QED
  BY <1>1, <1>2, EvaluateStep, PlaceLegStep, FillLegStep DEF ScanNext

-----------------------------------------------------------------------------
(* What a filled portfolio earns.                                          *)

\* Sums over the legs of what the quotes say and of what the orders paid.
LEMMA PortfolioFacts ==
    ASSUME TradeInv, Filled
    PROVE  LET q == verdict.quantity
               charged == SumOver(Legs, [leg \in Legs |-> order[leg].gross + NetFee(order[leg])])
           IN  /\ q \in Nat /\ Cleared /\ verdict.class \in Definite /\ verdict.class = ByInterval(q)
               /\ charged \in Int /\ GrossOfAll(q) \in Int
               /\ FeeLower(q) \in Int /\ FeeUpper(q) \in Int
               /\ GrossOfAll(q) + FeeLower(q) <= charged
               /\ charged <= GrossOfAll(q) + FeeUpper(q)
<1>1. PICK q \in scene.lo..scene.hi : q = verdict.quantity /\ verdict.class = EvaluateQuantity(q)
  BY DEF TradeInv, Judged, Filled
<1>2. scene \in Scenes /\ q \in Nat /\ q # 0
  BY <1>1, QuantityTyping DEF TradeInv
<1>3. ASSUME NEW leg \in Legs PROVE Trading(leg)
  <2>1. leg \in Orders /\ order[leg].bought = q
    BY <1>1, <1>2, LegFacts DEF Filled
  <2>2. order[leg] # Unplaced
    BY <1>2, <2>1 DEF Unplaced
  <2> QED
    BY <2>1, <2>2 DEF TradeInv
<1>4. IsFiniteSet(Legs) /\ Legs # {}
  BY <1>2, LegFacts
<1>5. verdict.class \in Definite
  BY <1>3, <1>4 DEF Trading
<1>6. Cleared /\ q <= CommonFillable /\ verdict.class = ByInterval(q)
  BY <1>1, <1>2, <1>5, DefiniteFacts
<1> DEFINE gross == [leg \in Legs |-> GrossCost(leg, q)]
           lower == [leg \in Legs |-> NetFeeLowerBound(RawModelFee(leg, q))]
           upper == [leg \in Legs |-> NetFeeUpperBound(RawModelFee(leg, q), q)]
           least == [leg \in Legs |-> GrossCost(leg, q) + NetFeeLowerBound(RawModelFee(leg, q))]
           most == [leg \in Legs |-> GrossCost(leg, q) + NetFeeUpperBound(RawModelFee(leg, q), q)]
           charge == [leg \in Legs |-> order[leg].gross + NetFee(order[leg])]
<1>7. ASSUME NEW leg \in Legs
      PROVE  /\ GrossCost(leg, q) \in Int /\ NetFee(order[leg]) \in Int
             /\ NetFeeLowerBound(RawModelFee(leg, q)) \in Int
             /\ NetFeeUpperBound(RawModelFee(leg, q), q) \in Int
             /\ order[leg].gross = GrossCost(leg, q)
             /\ NetFeeLowerBound(RawModelFee(leg, q)) <= NetFee(order[leg])
             /\ NetFee(order[leg]) <= NetFeeUpperBound(RawModelFee(leg, q), q)
  <2>1. q \in 0..MaxFillable(leg)
    BY <1>2, <1>6, CommonFacts, DepthFacts
  <2>2. GrossCost(leg, q) \in Nat /\ RawModelFee(leg, q) \in Nat
    BY <1>2, <2>1, CostFacts
  <2>3. order[leg].bought = q /\ order[leg].gross = GrossCost(leg, q) /\ order[leg].raw = RawModelFee(leg, q)
    BY <1>1, <1>3 DEF Filled, Trading
  <2>4. order[leg] \in Account /\ Balanced(order[leg]) /\ GridInv
    BY <1>2, LegFacts DEF TradeInv, FeeInv
  <2>5. /\ NetFeeLowerBound(order[leg].raw) <= NetFee(order[leg])
        /\ NetFee(order[leg]) <= NetFeeUpperBound(order[leg].raw, order[leg].bought)
    BY <2>4, BalancedIsBounded DEF Account
  <2>6. NetFee(order[leg]) \in Int
    BY <2>4 DEF Account, NetFee
  <2>7. PICK c \in Nat : c = CeilDiv(RawModelFee(leg, q), FeeScale)
    BY <2>2, CeilDivFact, OrderFeesAssumption
  <2>8. NetFeeLowerBound(RawModelFee(leg, q)) = c
    BY <2>7 DEF NetFeeLowerBound
  <2>9. NetFeeUpperBound(RawModelFee(leg, q), q) \in Int
    BY <1>2, <2>4, <2>8 DEF NetFeeUpperBound, MaxFillCount, GridInv
  <2> QED
    BY <2>2, <2>3, <2>5, <2>6, <2>8, <2>9
<1>8. \A leg \in Legs :
        /\ gross[leg] \in Int /\ lower[leg] \in Int /\ upper[leg] \in Int
        /\ least[leg] \in Int /\ most[leg] \in Int /\ charge[leg] \in Int
        /\ least[leg] = gross[leg] + lower[leg] /\ most[leg] = gross[leg] + upper[leg]
        /\ least[leg] <= charge[leg] /\ charge[leg] <= most[leg]
  BY <1>7
<1>9. /\ GrossOfAll(q) = SumOver(Legs, gross)
      /\ FeeLower(q) = SumOver(Legs, lower) /\ FeeUpper(q) = SumOver(Legs, upper)
  BY DEF GrossOfAll, FeeLower, FeeUpper
<1>10. SumOver(Legs, [leg \in Legs |-> order[leg].gross + NetFee(order[leg])]) = SumOver(Legs, charge)
  OBVIOUS
<1> HIDE DEF gross, lower, upper, least, most, charge
<1>11. /\ SumOver(Legs, gross) \in Int /\ SumOver(Legs, lower) \in Int
       /\ SumOver(Legs, upper) \in Int /\ SumOver(Legs, charge) \in Int
  BY <1>4, <1>8, SumFacts
<1>12. /\ SumOver(Legs, least) = SumOver(Legs, gross) + SumOver(Legs, lower)
       /\ SumOver(Legs, most) = SumOver(Legs, gross) + SumOver(Legs, upper)
  BY <1>4, <1>8, SumSplits
<1>13. SumOver(Legs, least) <= SumOver(Legs, charge) /\ SumOver(Legs, charge) <= SumOver(Legs, most)
  BY <1>4, <1>8, SumGrows
<1> QED
  BY <1>1, <1>2, <1>5, <1>6, <1>9, <1>10, <1>11, <1>12, <1>13

\* What the verdict says of the worst case is what a filled portfolio earns.
LEMMA VerdictIsKept ==
    ASSUME TradeInv, Filled
    PROVE  /\ verdict.class = "PROVEN_CONTRACTUAL_ARBITRAGE" =>
                \A joint \in TerminalStates : Earned(joint) > 0
           /\ verdict.class = "PROVEN_NOT_PROFITABLE" =>
                \E joint \in TerminalStates : Earned(joint) <= 0
<1>1. PICK q, charged :
        /\ q = verdict.quantity
        /\ charged = SumOver(Legs, [leg \in Legs |-> order[leg].gross + NetFee(order[leg])])
  OBVIOUS
<1>2. /\ q \in Nat /\ Cleared /\ verdict.class = ByInterval(q)
      /\ charged \in Int /\ GrossOfAll(q) \in Int /\ FeeLower(q) \in Int /\ FeeUpper(q) \in Int
      /\ GrossOfAll(q) + FeeLower(q) <= charged
      /\ charged <= GrossOfAll(q) + FeeUpper(q)
  BY <1>1, PortfolioFacts
<1>3. scene \in Scenes
  BY DEF TradeInv
<1>4. IsFloor(WorstPerSet)
  BY <1>2, <1>3, WorstIsFloor
<1>5. PICK w \in Nat : w = WorstPerSet
  BY <1>4 DEF IsFloor
<1>6. PICK worst \in Nat : worst = w * q
  BY <1>2
<1>7. /\ ProfitLowerBound(q) = worst - GrossOfAll(q) - FeeUpper(q)
      /\ ProfitUpperBound(q) = worst - GrossOfAll(q) - FeeLower(q)
  BY <1>5, <1>6 DEF ProfitLowerBound, ProfitUpperBound
<1>8. \A joint : Earned(joint) = PortfolioPayoff(joint) * q - charged
  BY <1>1 DEF Earned
<1>9. ASSUME verdict.class = "PROVEN_CONTRACTUAL_ARBITRAGE", NEW joint \in TerminalStates
      PROVE  Earned(joint) > 0
  <2>1. PICK p \in Nat : p = PortfolioPayoff(joint) /\ w <= p
    BY <1>3, <1>4, <1>5, PayoffFacts DEF IsFloor
  <2>2. PICK paid \in Nat : paid = p * q
    BY <1>2
  <2>3. worst <= paid
    BY <1>2, <1>6, <2>1, <2>2, Monotonic
  <2>4. worst - GrossOfAll(q) - FeeUpper(q) > 0
    BY <1>2, <1>7, <1>9 DEF ByInterval
  <2>5. Earned(joint) = paid - charged
    BY <1>8, <2>1, <2>2
  <2> QED
    BY <1>2, <2>3, <2>4, <2>5
<1>10. ASSUME verdict.class = "PROVEN_NOT_PROFITABLE"
       PROVE  \E joint \in TerminalStates : Earned(joint) <= 0
  <2>1. PICK joint \in TerminalStates : PortfolioPayoff(joint) = w
    BY <1>4, <1>5 DEF IsFloor
  <2>2. worst - GrossOfAll(q) - FeeLower(q) <= 0
    BY <1>2, <1>7, <1>10 DEF ByInterval
  <2>3. Earned(joint) = worst - charged
    BY <1>6, <1>8, <2>1
  <2>4. Earned(joint) <= 0
    BY <1>2, <2>2, <2>3
  <2> QED
    BY <2>4
<1> QED
  BY <1>9, <1>10

\* An order on a definite verdict pays the quoted cost of what it has bought,
\* however the venue splits it (execution.py's curve against its own fills).
THEOREM TradeInvariance == ScanSpec => []TradeInv
<1>1. ScanSpec => TradeInv /\ [][ScanNext]_tradeVars
  BY TradeInvInit DEF ScanSpec
<1> QED
  BY <1>1, TradeInvStep, PTL

\* Orders placed on a verdict keep to the quoted interval like any others, and
\* no fill takes a fee back (net_fee_bounds, apply_fill).
THEOREM TradesStayBounded == ScanSpec => []NetFeeIsBounded /\ NetFeeNeverFalls
<1>1. TradeInv => NetFeeIsBounded
  BY FeeInvIsBounded DEF TradeInv
<1>2. TradeInv /\ TradeInv' /\ [ScanNext]_tradeVars => [NetFeeGrows]_order
  <2> SUFFICES ASSUME TradeInv, TradeInv', [ScanNext]_tradeVars PROVE [NetFeeGrows]_order
    OBVIOUS
  <2>1. OrderNext \/ UNCHANGED orderVars
    BY PlaceLegStep, FillLegStep
       DEF ScanNext, Evaluate, StartSearch, SweepQuantity, tradeVars
  <2> QED
    BY <2>1, NetFeeStep DEF TradeInv
<1>3. ScanSpec => [][ScanNext]_tradeVars
  BY DEF ScanSpec
<1> QED
  BY <1>1, <1>2, <1>3, TradeInvariance, PTL DEF NetFeeNeverFalls

\* A portfolio called a proven contractual arbitrage earns money in every
\* terminal state once its legs are filled (Classification).
THEOREM ClaimPays == ScanSpec => []ProvenClaimPays
<1>1. TradeInv => ProvenClaimPays
  BY VerdictIsKept DEF ProvenClaimPays
<1> QED
  BY <1>1, TradeInvariance, PTL

\* A portfolio called proven not profitable has a terminal state in which it
\* earns nothing, however kindly its fills were split (Classification).
THEOREM LossLoses == ScanSpec => []ProvenLossLoses
<1>1. TradeInv => ProvenLossLoses
  BY VerdictIsKept DEF ProvenLossLoses
<1> QED
  BY <1>1, TradeInvariance, PTL

-----------------------------------------------------------------------------
(* The sweep over the quantities.                                          *)

Found(q) == [quantity |-> q, class |-> "PROVEN_CONTRACTUAL_ARBITRAGE"]
Classed(c, last) == {q \in scene.lo..last : EvaluateWithCurves(q) = c}

Swept(last) ==
    /\ \A c \in Classes : counts[c] = Cardinality(Classed(c, last))
    /\ \A q \in Classed("PROVEN_CONTRACTUAL_ARBITRAGE", last) :
          \E i \in DOMAIN results : results[i] = Found(q)

\* The quantities below the next one are tallied, and the proven ones kept.
SweepInv ==
    /\ scene \in Scenes
    /\ counts \in [Classes -> Nat]
    /\ results \in Seq([quantity : Nat, class : Classes])
    /\ stage = "ready" => counts = [c \in Classes |-> 0]
    /\ stage = "sweeping" => ~NotSearched /\ units \in scene.lo..Reachable /\ Swept(units - 1)
    /\ stage = "swept" /\ ~NotSearched => Swept(Reachable)

\* Every outcome has a tally.
LEMMA ClassesFact ==
    ASSUME scene \in Scenes
    PROVE  Precheck \in Classes /\ \A q : EvaluateWithCurves(q) \in Classes
<1>1. scene.kind \in {"complement", "no_basket", "yes_basket"}
  BY DEF Scenes
<1>2. \A q : Costed(q) \in Classes
  BY DEF Costed, ByInterval, Classes
<1>3. \A q, rest : rest \in Classes => QuotedThen(q, rest) \in Classes /\ CurvesThen(rest) \in Classes
  BY DEF QuotedThen, CurvesThen, Classes
<1>4. /\ "BLOCKED_SETTLEMENT_SEMANTICS" \in Classes /\ "INSUFFICIENT_DEPTH" \in Classes
  BY DEF Classes
<1>5. \A q : /\ ComplementWithCurves(q) \in Classes
             /\ NoBasketWithCurves(q) \in Classes
             /\ YesBasketWithCurves(q) \in Classes
  BY <1>2, <1>3, <1>4 DEF ComplementWithCurves, NoBasketWithCurves, YesBasketWithCurves
<1>6. Precheck \in Classes
  BY <1>1, <1>3, <1>4, <1>5
     DEF Precheck, ComplementPrecheck, NoBasketProbe, YesBasketProbe, EvaluateNoBasket, EvaluateYesBasket
<1> QED
  BY <1>1, <1>5, <1>6 DEF EvaluateWithCurves

\* The sweep ends at the interval's end or where the depth does.
LEMMA ReachFacts ==
    ASSUME scene \in Scenes
    PROVE  /\ scene.lo \in Nat /\ Reachable \in Nat
           /\ \A q \in scene.lo..scene.hi : q <= CommonFillable => q \in scene.lo..Reachable
<1>1. scene.lo \in 1..MaxQuantity /\ scene.hi \in 1..MaxQuantity /\ CommonFillable \in Nat
  BY CommonFacts DEF Scenes
<1> QED
  BY <1>1, OrderFeesAssumption DEF Reachable, Smaller

\* One more quantity is classified.
LEMMA ClassedGrows ==
    ASSUME scene.lo \in Nat, NEW n \in Nat, scene.lo <= n, NEW c
    PROVE  /\ Classed(c, n) = IF EvaluateWithCurves(n) = c THEN Classed(c, n - 1) \cup {n}
                              ELSE Classed(c, n - 1)
           /\ Cardinality(Classed(c, n - 1)) \in Nat
           /\ Cardinality(Classed(c, n)) =
                IF EvaluateWithCurves(n) = c THEN Cardinality(Classed(c, n - 1)) + 1
                ELSE Cardinality(Classed(c, n - 1))
<1>1. /\ scene.lo..n = (scene.lo..(n - 1)) \cup {n}
      /\ n \notin scene.lo..(n - 1)
  <2>1. PICK lo \in Nat : lo = scene.lo
    OBVIOUS
  <2>2. lo..n = (lo..(n - 1)) \cup {n} /\ n \notin lo..(n - 1)
    BY <2>1
  <2> QED
    BY <2>1, <2>2
<1>2. Classed(c, n) = IF EvaluateWithCurves(n) = c THEN Classed(c, n - 1) \cup {n}
                      ELSE Classed(c, n - 1)
  BY <1>1 DEF Classed
<1>3. n \notin Classed(c, n - 1)
  BY <1>1 DEF Classed
<1>4. IsFiniteSet(Classed(c, n - 1))
  <2>1. PICK lo \in Int, last \in Int : lo = scene.lo /\ last = n - 1
    OBVIOUS
  <2>2. IsFiniteSet(lo..last)
    BY FS_Interval
  <2>3. Classed(c, n - 1) \subseteq lo..last
    BY <2>1 DEF Classed
  <2> QED
    BY <2>2, <2>3, FS_Subset
<1>5. /\ Cardinality(Classed(c, n - 1)) \in Nat
      /\ Cardinality(Classed(c, n - 1) \cup {n}) = Cardinality(Classed(c, n - 1)) + 1
  BY <1>3, <1>4, FS_AddElement, FS_CardinalityType
<1> QED
  BY <1>2, <1>5

\* Nothing is classified before the first quantity.
LEMMA NothingSwept ==
    ASSUME scene.lo \in Nat, NEW last \in Int, last < scene.lo, counts = [c \in Classes |-> 0]
    PROVE  Swept(last)
<1>1. \A c : Classed(c, last) = {}
  BY DEF Classed
<1> QED
  BY <1>1, FS_EmptySet DEF Swept

LEMMA SweepInvInit == (\E s \in Scenes : Start(s)) => SweepInv
BY DEF Start, SweepInv, Classes

LEMMA StartSearchStep == SweepInv /\ StartSearch => SweepInv'
<1> SUFFICES ASSUME SweepInv, StartSearch PROVE SweepInv'
  OBVIOUS
<1>1. /\ UNCHANGED <<scene, counts, quotedStep>> /\ counts = [c \in Classes |-> 0]
      /\ stage' # "ready"
  BY DEF StartSearch, SweepInv, orderVars
<1>2. NotSearched' = NotSearched /\ Reachable' = Reachable
  BY <1>1, SceneStands
<1>3. (scene \in Scenes)' /\ scene \in Scenes
  BY <1>1 DEF SweepInv, Scenes
<1>4. /\ scene.lo \in Nat /\ Reachable \in Nat /\ Precheck \in Classes
      /\ (scene.lo \in Nat)' /\ (Reachable \in Nat)'
  BY <1>1, <1>2, <1>3, ReachFacts, ClassesFact
<1>5. \A last \in Int : last < scene.lo => Swept(last)'
  <2>1. \A last \in Int : last < scene.lo => \A c : Classed(c, last)' = {}
    BY <1>1, <1>4 DEF Classed
  <2> QED
    BY <1>1, <2>1, FS_EmptySet DEF Swept
<1>6. CASE NotSearched
  <2>1. /\ results' = <<[quantity |-> scene.lo, class |-> Precheck]>>
        /\ stage' = "swept"
    BY <1>6 DEF StartSearch
  <2>2. results' \in Seq([quantity : Nat, class : Classes])
    BY <1>4, <2>1
  <2> QED
    BY <1>1, <1>2, <1>3, <1>6, <2>1, <2>2 DEF SweepInv
<1>7. CASE ~NotSearched
  <2>1. /\ stage' = IF Reachable < scene.lo THEN "swept" ELSE "sweeping"
        /\ units' = scene.lo /\ results' = results
    BY <1>7 DEF StartSearch
  <2>2. stage' = "sweeping" => units' \in scene'.lo..Reachable' /\ Swept(scene.lo - 1)'
    BY <1>1, <1>2, <1>4, <1>5, <2>1
  <2>3. stage' = "swept" => Swept(Reachable)'
    BY <1>1, <1>2, <1>4, <1>5, <2>1
  <2> QED
    BY <1>1, <1>2, <1>3, <1>4, <1>7, <2>1, <2>2, <2>3 DEF SweepInv
<1> QED
  BY <1>6, <1>7

\* A quantity joins the tally of its class, and is kept whenever it is proven.
LEMMA SweepQuantityStep == SweepInv /\ SweepQuantity => SweepInv'
<1> SUFFICES ASSUME SweepInv, SweepQuantity PROVE SweepInv'
  OBVIOUS
<1> DEFINE class == EvaluateWithCurves(units)
<1>1. /\ UNCHANGED <<scene, quotedStep>> /\ stage = "sweeping"
      /\ counts' = [counts EXCEPT ![class] = @ + 1]
      /\ results' = IF Keeps(class)
                    THEN Append(results, [quantity |-> units, class |-> class]) ELSE results
      /\ units' = units + 1
      /\ stage' = IF units = Reachable THEN "swept" ELSE "sweeping"
  BY DEF SweepQuantity, orderVars
<1>2. /\ NotSearched' = NotSearched /\ Reachable' = Reachable
      /\ \A q : EvaluateWithCurves(q)' = EvaluateWithCurves(q)
  BY <1>1, SceneStands
<1>3. /\ (scene \in Scenes)' /\ scene \in Scenes /\ ~NotSearched
      /\ counts \in [Classes -> Nat] /\ results \in Seq([quantity : Nat, class : Classes])
      /\ units \in scene.lo..Reachable /\ Swept(units - 1)
  BY <1>1 DEF SweepInv, Scenes
<1>4. scene.lo \in Nat /\ Reachable \in Nat /\ class \in Classes
  BY <1>3, ReachFacts, ClassesFact
<1>5. units \in Nat /\ scene.lo <= units /\ units <= Reachable
  BY <1>3, <1>4
<1> DEFINE entry == [quantity |-> units, class |-> class]
<1>6. entry \in [quantity : Nat, class : Classes]
  BY <1>4, <1>5
<1>7. \A c, last : Classed(c, last)' = Classed(c, last)
  BY <1>1, <1>2 DEF Classed
<1> HIDE DEF class
<1>8. /\ counts' \in [Classes -> Nat]
      /\ \A c \in Classes : counts'[c] = IF c = class THEN counts[c] + 1 ELSE counts[c]
  BY <1>1, <1>3, <1>4
<1>9. \A c \in Classes : counts'[c] = Cardinality(Classed(c, units))
  <2> SUFFICES ASSUME NEW c \in Classes PROVE counts'[c] = Cardinality(Classed(c, units))
    OBVIOUS
  <2>1. counts[c] = Cardinality(Classed(c, units - 1))
    BY <1>3 DEF Swept
  <2>2. Cardinality(Classed(c, units)) =
          IF c = class THEN Cardinality(Classed(c, units - 1)) + 1 ELSE Cardinality(Classed(c, units - 1))
    BY <1>4, <1>5, ClassedGrows DEF class
  <2> QED
    BY <1>8, <2>1, <2>2
<1> HIDE DEF entry
<1>10. /\ results' \in Seq([quantity : Nat, class : Classes])
       /\ \A i \in DOMAIN results : i \in DOMAIN results' /\ results'[i] = results[i]
       /\ Keeps(class) => \E i \in DOMAIN results' : results'[i] = entry
  <2>1. CASE Keeps(class)
    <3>1. results' = Append(results, entry)
      BY <1>1, <2>1 DEF entry
    <3>2. /\ results' \in Seq([quantity : Nat, class : Classes])
          /\ Len(results') = Len(results) + 1
          /\ \A i \in 1..Len(results) : results'[i] = results[i]
          /\ results'[Len(results) + 1] = entry
      BY <1>3, <1>6, <3>1
    <3>3. /\ Len(results) \in Nat /\ DOMAIN results = 1..Len(results)
          /\ DOMAIN results' = 1..(Len(results) + 1)
      BY <1>3, <3>2
    <3>4. Len(results) + 1 \in DOMAIN results'
      BY <3>3
    <3> QED
      BY <3>2, <3>3, <3>4
  <2>2. CASE ~Keeps(class)
    BY <1>1, <1>3, <2>2 DEF entry
  <2> QED
    BY <2>1, <2>2
<1>11. \A q \in Classed("PROVEN_CONTRACTUAL_ARBITRAGE", units) :
         \E i \in DOMAIN results' : results'[i] = Found(q)
  <2> SUFFICES ASSUME NEW q \in Classed("PROVEN_CONTRACTUAL_ARBITRAGE", units)
               PROVE  \E i \in DOMAIN results' : results'[i] = Found(q)
    OBVIOUS
  <2>1. CASE q \in Classed("PROVEN_CONTRACTUAL_ARBITRAGE", units - 1)
    <3>1. PICK i \in DOMAIN results : results[i] = Found(q)
      BY <1>3, <2>1 DEF Swept
    <3> QED
      BY <1>10, <3>1
  <2>2. CASE q \notin Classed("PROVEN_CONTRACTUAL_ARBITRAGE", units - 1)
    <3>1. q = units /\ class = "PROVEN_CONTRACTUAL_ARBITRAGE"
      BY <1>4, <1>5, <2>2, ClassedGrows DEF class
    <3>2. Keeps(class) /\ entry = Found(q)
      BY <3>1 DEF Keeps, entry, Found
    <3> QED
      BY <1>10, <3>2
  <2> QED
    BY <2>1, <2>2
<1>12. \A last : last = units => Swept(last)'
  BY <1>7, <1>9, <1>11 DEF Swept, Found
<1>13. units' - 1 = units /\ Swept(units - 1)'
  <2>1. units' - 1 = units
    BY <1>1, <1>5
  <2> QED
    BY <1>12, <2>1
<1>14. stage' = "sweeping" => units' \in scene'.lo..Reachable'
  BY <1>1, <1>2, <1>4, <1>5
<1>15. stage' = "swept" => Swept(Reachable)'
  BY <1>1, <1>2, <1>12
<1> QED
  BY <1>1, <1>2, <1>3, <1>8, <1>10, <1>13, <1>14, <1>15 DEF SweepInv

LEMMA SweepInvStep == SweepInv /\ [ScanNext]_tradeVars => SweepInv'
<1> SUFFICES ASSUME SweepInv, [ScanNext]_tradeVars PROVE SweepInv'
  OBVIOUS
<1>1. ASSUME \/ \E q \in scene.lo..scene.hi : Evaluate(q)
             \/ \E leg \in Legs : PlaceLeg(leg)
             \/ \E leg \in Legs, n \in 1..MaxQuantity : n <= order[leg].left /\ FillLeg(leg, n)
             \/ UNCHANGED tradeVars
      PROVE  SweepInv'
  <2>1. /\ UNCHANGED <<scene, quotedStep, units, results, counts>>
        /\ stage' = stage \/ stage' = "judged"
    BY <1>1 DEF Evaluate, PlaceLeg, Place, FillLeg, Fill, tradeVars, scanVars, orderVars
  <2>2. /\ NotSearched' = NotSearched /\ Reachable' = Reachable
        /\ \A q : EvaluateWithCurves(q)' = EvaluateWithCurves(q)
    BY <2>1, SceneStands
  <2>3. \A c, last : Classed(c, last)' = Classed(c, last)
    BY <2>1, <2>2 DEF Classed
  <2>4. \A last : Swept(last) => Swept(last)'
    BY <2>1, <2>3 DEF Swept, Found
  <2>5. (scene \in Scenes)'
    BY <2>1 DEF SweepInv, Scenes
  <2>6. (Swept(units - 1) => Swept(units - 1)') /\ (Swept(Reachable) => Swept(Reachable)')
    BY <2>1, <2>2, <2>4
  <2> QED
    BY <2>1, <2>2, <2>5, <2>6 DEF SweepInv
<1> QED
  BY <1>1, StartSearchStep, SweepQuantityStep DEF ScanNext

\* What the sweep has passed is tallied under its own classification, and
\* everything proven so far is kept (the retention rule of the searches).
THEOREM SweepInvariance == ScanSpec => []SweepInv
<1>1. ScanSpec => SweepInv /\ [][ScanNext]_tradeVars
  BY SweepInvInit DEF ScanSpec
<1> QED
  BY <1>1, SweepInvStep, PTL

\* A finished search has counted every quantity it could execute and reports
\* every one the direct evaluation would prove (search_binary_complement,
\* search_no_basket, search_yes_basket).
THEOREM SweepIsComplete == ScanSpec => []SweepMissesNothing
<1>1. SweepInv => SweepMissesNothing
  <2> SUFFICES ASSUME SweepInv, stage = "swept"
               PROVE  /\ ~NotSearched =>
                            \A c \in Classes :
                                counts[c] = Cardinality({q \in scene.lo..Reachable : EvaluateWithCurves(q) = c})
                      /\ \A q \in scene.lo..scene.hi :
                            EvaluateQuantity(q) = "PROVEN_CONTRACTUAL_ARBITRAGE" =>
                                \E i \in DOMAIN results :
                                    results[i] = [quantity |-> q, class |-> "PROVEN_CONTRACTUAL_ARBITRAGE"]
    BY DEF SweepMissesNothing
  <2>1. scene \in Scenes /\ (~NotSearched => Swept(Reachable))
    BY DEF SweepInv
  <2>2. ASSUME NEW q \in scene.lo..scene.hi, EvaluateQuantity(q) = "PROVEN_CONTRACTUAL_ARBITRAGE"
        PROVE  \E i \in DOMAIN results :
                 results[i] = [quantity |-> q, class |-> "PROVEN_CONTRACTUAL_ARBITRAGE"]
    <3>1. q \in Nat
      BY <2>1, QuantityTyping
    <3>2. ~NotSearched /\ q <= CommonFillable /\ EvaluateWithCurves(q) = "PROVEN_CONTRACTUAL_ARBITRAGE"
      BY <2>1, <2>2, <3>1, DefiniteFacts DEF Definite
    <3>3. q \in Classed("PROVEN_CONTRACTUAL_ARBITRAGE", Reachable)
      BY <2>1, <3>2, ReachFacts DEF Classed
    <3> QED
      BY <2>1, <3>2, <3>3 DEF Swept, Found
  <2> QED
    BY <2>1, <2>2 DEF Swept, Classed
<1> QED
  BY <1>1, SweepInvariance, PTL

=============================================================================
