-------------------------------- MODULE Scan --------------------------------
(***************************************************************************)
(* The detectors (detectors/binary_complement.py, no_basket.py,            *)
(* yes_basket.py) over quoted books, certified payoffs and bounded fees,   *)
(* and the venue that afterwards fills the quoted legs piece by piece and  *)
(* settles the markets: what a verdict promises is compared with what the  *)
(* executed portfolio earns.                                               *)
(*                                                                         *)
(* A scene is everything a detector is handed.  Its fault is the one thing *)
(* wrong with it, and what the world may then do that the scene does not   *)
(* show: fill at other prices, charge other fees, settle otherwise.        *)
(***************************************************************************)
EXTENDS OrderFees, FiniteSets, FiniteSetsExt, Sequences

CONSTANTS
    Markets,
    Notional,
    Ladders,       \* one side's resting bids: quantity at each price
    Faults,
    Timelines,     \* what is known of the fees
    Instants

Sides == {"YES", "NO"}
OtherSide(side) == IF side = "YES" THEN "NO" ELSE "YES"

Configs == {"identity", "scaled", "unknown", "none"}
Changes == [ts : Nat, config : Configs]

\* Fee changes are dated, and which of two at one instant the venue would
\* apply last is not known.
Dated(changes) ==
    /\ IsFiniteSet(changes) /\ changes \subseteq Changes
    /\ \A c, d \in changes : c.ts = d.ts => c = d

ASSUME ScanAssumption ==
    /\ IsFiniteSet(Markets)
    /\ Orders = Markets \X Sides
    /\ Notional \in Nat \ {0} /\ Prices = 0..Notional
    /\ {1, 2} \subseteq Multipliers
    /\ Ladders \subseteq [Prices -> Nat]
    /\ \A t \in Timelines : Dated(t.seriesChanges) /\ Dated(t.eventChanges)
    /\ Instants \subseteq Nat

VARIABLES
    scene,
    stage,         \* "ready", "sweeping", "swept", "judged"
    units,         \* the next quantity of the sweep
    results,       \* what the sweep keeps
    counts,        \* its tally of classifications
    verdict        \* the direct evaluation

scanVars == <<scene, stage, units, results, counts, verdict>>
tradeVars == <<scanVars, orderVars>>

BookFaults == {"book_integrity", "book_epoch", "journal", "connection"}
InstrumentFaults == {"scalar", "no_notional", "excluded", "other_book"}
RelationFaults == {"wrong_claim", "uncovered", "stale_relation"}

Classes == {"PROVEN_CONTRACTUAL_ARBITRAGE", "PROVEN_NOT_PROFITABLE",
            "INDETERMINATE_COST_BOUNDS", "BLOCKED_SETTLEMENT_SEMANTICS",
            "BLOCKED_FEE_SEMANTICS", "BLOCKED_LIQUIDITY_COLLISION",
            "BLOCKED_BOOK_INTEGRITY", "INSUFFICIENT_DEPTH"}
Priced == {"PROVEN_CONTRACTUAL_ARBITRAGE", "PROVEN_NOT_PROFITABLE",
           "INDETERMINATE_COST_BOUNDS"}

\* The sum of f over a finite set.
SumOver(S, f) ==
    LET sum[T \in SUBSET S] ==
            IF T = {} THEN 0
            ELSE LET x == CHOOSE x \in T : TRUE IN f[x] + sum[T \ {x}]
    IN  sum[S]

-----------------------------------------------------------------------------
(***************************************************************************)
(* Fees in force (domain/fees.py).  A configuration is "identity" (the one *)
(* whose bounds carry a proof), "scaled" (another multiplier), "unknown"   *)
(* (an unrecognised type) or "none".                                       *)
(***************************************************************************)

Applicable(changes) == {c \in changes : c.ts <= scene.at}
Latest(changes) == CHOOSE c \in changes : \A d \in changes : d.ts <= c.ts

SeriesFee(timeline) ==
    LET due == Applicable(timeline.seriesChanges)
    IN  IF due # {} THEN Latest(due).config ELSE timeline.seriesBase

MutFutureChange(timeline) ==
    LET due == timeline.eventChanges
    IN  IF due # {} /\ Latest(due).config # "none" THEN Latest(due).config
        ELSE IF due = {} /\ timeline.eventOverride # "none" THEN timeline.eventOverride
        ELSE SeriesFee(timeline)

\* A change that clears the override falls back to the series.
ResolveAt(timeline) ==
    LET due == Applicable(timeline.eventChanges)
    IN  IF due # {} /\ Latest(due).config # "none" THEN Latest(due).config
        ELSE IF due = {} /\ timeline.eventOverride # "none" THEN timeline.eventOverride
        ELSE SeriesFee(timeline)

MultiplierOf(config) == IF config = "identity" THEN 1 ELSE 2

\* The venue applies changes one after another as their times come.
Applied(changes, start) ==
    LET config[t \in 0..scene.at] ==
            LET now == {c \in changes : c.ts = t}
            IN  IF now # {} THEN (CHOOSE c \in now : TRUE).config
                ELSE IF t = 0 THEN start
                ELSE config[t - 1]
    IN  config[scene.at]

InForce(timeline) ==
    LET event == Applied(timeline.eventChanges, timeline.eventOverride)
    IN  IF event # "none" THEN event
        ELSE Applied(timeline.seriesChanges, timeline.seriesBase)

-----------------------------------------------------------------------------
(***************************************************************************)
(* Execution curves (books/execution.py): buying a side crosses the other  *)
(* side's bids, best bid first, at the complement of its price.            *)
(***************************************************************************)

Legs ==
    CASE scene.kind = "complement" -> scene.members \X Sides
      [] scene.kind = "no_basket"  -> scene.members \X {"NO"}
      [] scene.kind = "yes_basket" -> scene.members \X {"YES"}

SourceBids(leg) == scene.bids[<<leg[1], OtherSide(leg[2])>>]

DepthAtOrAbove(bids, price) ==
    SumOver({p \in Prices : p >= price}, bids)
MaxFillable(leg) == DepthAtOrAbove(SourceBids(leg), 0)

\* The bid the k-th increment consumes.
MutBestPriceForAll(leg, k) == Max({p \in Prices : DepthAtOrAbove(SourceBids(leg), p) >= 1})
SourceBid(leg, k) == Max({p \in Prices : DepthAtOrAbove(SourceBids(leg), p) >= k})
ExecutionPrice(leg, k) == Notional - SourceBid(leg, k)

GrossCost(leg, q) == SumOver(1..q, [k \in 1..q |-> ExecutionPrice(leg, k)])

CommonFillable == Min({MaxFillable(leg) : leg \in Legs})

LiquidityIds(leg, q) ==
    {<<leg[1], OtherSide(leg[2]), SourceBid(leg, k)>> : k \in 1..q}
Collisions(q) ==
    UNION {LiquidityIds(pair[1], q) \cap LiquidityIds(pair[2], q) :
              pair \in {p \in Legs \X Legs : p[1] # p[2]}}

RawModelFee(leg, q) ==
    SumOver(1..q, [k \in 1..q |-> ModelFee(ExecutionPrice(leg, k), 1,
                                           MultiplierOf(ResolveAt(scene.timeline)))])

-----------------------------------------------------------------------------
(***************************************************************************)
(* Certified payoffs (domain/payoff.py, at_least_one_payoff.py and the     *)
(* certificate's tables).                                                  *)
(***************************************************************************)

CertifiedNotional(m) ==
    IF scene.fault = "notional" /\ m = scene.victim THEN Notional - 1 ELSE Notional

\* A table with a state in which neither side pays is not a standard binary one.
AllowedStates(m) ==
    IF scene.fault = "void_state" /\ m = scene.victim THEN {"YES", "NO", "VOID"} ELSE Sides

Payoff(leg, state) == IF state = leg[2] THEN CertifiedNotional(leg[1]) ELSE 0
PortfolioPayoff(joint) == SumOver(Legs, [leg \in Legs |-> Payoff(leg, joint[leg[1]])])

MutNoneWins == {[m \in scene.members |-> "NO"]}

\* At most one member wins: one joint state for each winner, and none at all.
AtMostOneStates ==
    {[m \in scene.members |-> IF m = w THEN "YES" ELSE "NO"] : w \in scene.members}
    \cup {[m \in scene.members |-> "NO"]}

EnumeratedWorst(joints) == Min({PortfolioPayoff(j) : j \in joints})

ComplementWorst ==
    EnumeratedWorst({[m \in scene.members |-> s] : s \in AllowedStates(CHOOSE m \in scene.members : TRUE)})
NoBasketWorst == EnumeratedWorst(AtMostOneStates)

MutEveryMemberPays ==
    SumOver(scene.members, [m \in scene.members |-> CertifiedNotional(m)])

\* The floor of an AT_LEAST_ONE basket is attained by a single winner.
AtLeastOneFloor == Min({CertifiedNotional(m) : m \in scene.members})

WorstPerSet ==
    CASE scene.kind = "complement" -> ComplementWorst
      [] scene.kind = "no_basket"  -> NoBasketWorst
      [] scene.kind = "yes_basket" -> AtLeastOneFloor

-----------------------------------------------------------------------------
(***************************************************************************)
(* The gates, in the order the detectors pass them, and the verdict.       *)
(***************************************************************************)

\* The certificate itself refuses: not verified, expired, or its evidence is
\* unavailable or has moved.
CertificateBlocks == scene.fault = "stale_certificate"

\* The relation is of another claim, over other members, or its evidence moved.
RelationBlocks ==
    \/ scene.fault \in RelationFaults
    \/ Cardinality(scene.members) < 2

ComplementSemantics == CertificateBlocks \/ scene.fault \in {"wrong_market", "notional"}
NoBasketSemantics == RelationBlocks \/ CertificateBlocks
YesBasketSemantics == RelationBlocks \/ CertificateBlocks

\* Only the standard binary table has a floor the theorem can use.
PayoffUnsupported == scene.fault = "void_state"

NotExecutable == scene.fault \in BookFaults
NotQuotable == scene.fault \in InstrumentFaults

\* A table of three states does not lift into the joint states of a basket.
PayoffIncomplete == scene.fault = "void_state"

FeesBlock == ResolveAt(scene.timeline) # "identity"

GrossOfAll(q) == SumOver(Legs, [leg \in Legs |-> GrossCost(leg, q)])
FeeLower(q) == SumOver(Legs, [leg \in Legs |-> NetFeeLowerBound(RawModelFee(leg, q))])
FeeUpper(q) == SumOver(Legs, [leg \in Legs |-> NetFeeUpperBound(RawModelFee(leg, q), q)])

ProfitLowerBound(q) == WorstPerSet * q - GrossOfAll(q) - FeeUpper(q)
ProfitUpperBound(q) == WorstPerSet * q - GrossOfAll(q) - FeeLower(q)

MutOptimisticFees(q) ==
    IF ProfitUpperBound(q) > 0 THEN "PROVEN_CONTRACTUAL_ARBITRAGE" ELSE "PROVEN_NOT_PROFITABLE"
MutPessimisticLoss(q) ==
    IF ProfitLowerBound(q) > 0 THEN "PROVEN_CONTRACTUAL_ARBITRAGE" ELSE "PROVEN_NOT_PROFITABLE"

ByInterval(q) ==
    IF ProfitLowerBound(q) > 0 THEN "PROVEN_CONTRACTUAL_ARBITRAGE"
    ELSE IF ProfitUpperBound(q) <= 0 THEN "PROVEN_NOT_PROFITABLE"
    ELSE "INDETERMINATE_COST_BOUNDS"

\* Depth first, then no source level consumed by two legs.
QuotedThen(q, rest) ==
    IF q > CommonFillable THEN "INSUFFICIENT_DEPTH"
    ELSE IF Collisions(q) # {} THEN "BLOCKED_LIQUIDITY_COLLISION"
    ELSE rest

Costed(q) == IF FeesBlock THEN "BLOCKED_FEE_SEMANTICS" ELSE ByInterval(q)

ComplementWithCurves(q) == QuotedThen(q, Costed(q))
NoBasketWithCurves(q) ==
    QuotedThen(q, IF PayoffIncomplete THEN "BLOCKED_SETTLEMENT_SEMANTICS" ELSE Costed(q))
YesBasketWithCurves(q) == QuotedThen(q, Costed(q))

EvaluateWithCurves(q) ==
    CASE scene.kind = "complement" -> ComplementWithCurves(q)
      [] scene.kind = "no_basket"  -> NoBasketWithCurves(q)
      [] scene.kind = "yes_basket" -> YesBasketWithCurves(q)

\* build_execution_curve refuses an unusable book before an unusable contract.
CurvesThen(rest) ==
    IF NotExecutable THEN "BLOCKED_BOOK_INTEGRITY"
    ELSE IF NotQuotable THEN "BLOCKED_SETTLEMENT_SEMANTICS"
    ELSE rest

EvaluateComplement(q) ==
    IF ComplementSemantics THEN "BLOCKED_SETTLEMENT_SEMANTICS"
    ELSE CurvesThen(ComplementWithCurves(q))
EvaluateNoBasket(q) ==
    IF NoBasketSemantics THEN "BLOCKED_SETTLEMENT_SEMANTICS"
    ELSE CurvesThen(NoBasketWithCurves(q))
EvaluateYesBasket(q) ==
    IF YesBasketSemantics \/ PayoffUnsupported THEN "BLOCKED_SETTLEMENT_SEMANTICS"
    ELSE CurvesThen(YesBasketWithCurves(q))

EvaluateQuantity(q) ==
    CASE scene.kind = "complement" -> EvaluateComplement(q)
      [] scene.kind = "no_basket"  -> EvaluateNoBasket(q)
      [] scene.kind = "yes_basket" -> EvaluateYesBasket(q)

\* What a search finds before it sweeps.  The complement search asks the
\* certificate and builds the curves; the basket searches evaluate their
\* smallest quantity.
ComplementPrecheck ==
    IF CertificateBlocks THEN "BLOCKED_SETTLEMENT_SEMANTICS"
    ELSE CurvesThen("INSUFFICIENT_DEPTH")
NoBasketProbe == EvaluateNoBasket(scene.lo)
YesBasketProbe == EvaluateYesBasket(scene.lo)

Precheck ==
    CASE scene.kind = "complement" -> ComplementPrecheck
      [] scene.kind = "no_basket"  -> NoBasketProbe
      [] scene.kind = "yes_basket" -> YesBasketProbe

NotSearched == Precheck \in {"BLOCKED_SETTLEMENT_SEMANTICS", "BLOCKED_BOOK_INTEGRITY"}

Reachable == Smaller(CommonFillable, scene.hi)

-----------------------------------------------------------------------------
(***************************************************************************)
(* The venue and the world.                                                *)
(***************************************************************************)

\* An order takes the cheapest increments first.
VenuePrice(leg, k) ==
    LET bids == SourceBids(leg)
        upTo(ask) == SumOver({p \in Prices : Notional - p <= ask}, bids)
    IN  Min({ask \in Prices : k <= upTo(ask)})

FillPrices(leg, k) == IF scene.fault \in BookFaults THEN Prices ELSE {VenuePrice(leg, k)}

\* A market whose certificate or metadata was wrong may settle otherwise than
\* its certified binary table says, and a relation nobody reviewed need not hold.
MayVoid(m) ==
    /\ m = scene.victim
    /\ scene.fault \in {"stale_certificate", "wrong_market", "void_state"} \cup InstrumentFaults

Winners(joint) == {m \in scene.members : joint[m] = "YES"}
RelationHolds(joint) ==
    LET few == Cardinality(Winners(joint)) <= 1
        some == Winners(joint) # {}
    IN  CASE scene.kind = "complement" \/ scene.fault \in {"uncovered", "stale_relation"} -> TRUE
          [] scene.kind = "no_basket" /\ scene.fault \notin {"uncovered", "stale_relation"} ->
                IF scene.fault = "wrong_claim" THEN some ELSE few
          [] scene.kind = "yes_basket" /\ scene.fault \notin {"uncovered", "stale_relation"} ->
                IF scene.fault = "wrong_claim" THEN few ELSE some

TerminalStates ==
    {joint \in [scene.members -> Sides \cup {"VOID"}] :
        /\ \A m \in scene.members : joint[m] = "VOID" => MayVoid(m)
        /\ RelationHolds(joint)}

-----------------------------------------------------------------------------
Nothing == [quantity |-> 0, class |-> "INSUFFICIENT_DEPTH"]

\* A complement has one market.  The baskets' certificates are the ones filed
\* under their members (the basket detectors do not compare the two).
Scenes ==
    {s \in [kind : {"complement", "no_basket", "yes_basket"},
            members : (SUBSET Markets) \ {{}},
            bids : [Markets \X Sides -> Ladders],
            fault : Faults, victim : Markets,
            timeline : Timelines, at : Instants,
            lo : 1..MaxQuantity, hi : 1..MaxQuantity] :
        /\ s.kind = "complement" => Cardinality(s.members) = 1
        /\ s.fault = "wrong_market" => s.kind = "complement"}

Start(s) ==
    /\ scene = s
    /\ stage = "ready"
    /\ units = 0
    /\ results = <<>>
    /\ counts = [c \in Classes |-> 0]
    /\ verdict = Nothing
    /\ OrderInit

Evaluate(q) ==
    /\ stage = "ready"
    /\ verdict' = [quantity |-> q, class |-> EvaluateQuantity(q)]
    /\ stage' = "judged"
    /\ UNCHANGED <<scene, units, results, counts, orderVars>>

\* search_binary_complement, search_no_basket, search_yes_basket
StartSearch ==
    /\ stage = "ready"
    /\ IF NotSearched
       THEN /\ results' = <<[quantity |-> scene.lo, class |-> Precheck]>>
            /\ stage' = "swept"
            /\ UNCHANGED units
       ELSE /\ stage' = IF Reachable < scene.lo THEN "swept" ELSE "sweeping"
            /\ units' = scene.lo
            /\ UNCHANGED results
    /\ UNCHANGED <<scene, counts, verdict, orderVars>>

MutKeepsFirst(class) == results = <<>>

Keeps(class) ==
    \/ class = "PROVEN_CONTRACTUAL_ARBITRAGE"
    \/ \A i \in DOMAIN results : results[i].class = "PROVEN_CONTRACTUAL_ARBITRAGE"

SweepQuantity ==
    /\ stage = "sweeping"
    /\ LET class == EvaluateWithCurves(units)
       IN  /\ counts' = [counts EXCEPT ![class] = @ + 1]
           /\ results' = IF Keeps(class)
                         THEN Append(results, [quantity |-> units, class |-> class])
                         ELSE results
    /\ units' = units + 1
    /\ stage' = IF units = Reachable THEN "swept" ELSE "sweeping"
    /\ UNCHANGED <<scene, verdict, orderVars>>

\* The operator acts on a verdict by one order per leg; the orders are not
\* atomic and fill in any interleaving.
PlaceLeg(leg) ==
    /\ stage = "judged"
    /\ verdict.class \in {"PROVEN_CONTRACTUAL_ARBITRAGE", "PROVEN_NOT_PROFITABLE"}
    /\ Place(leg, verdict.quantity)
    /\ UNCHANGED scanVars

FillLeg(leg, n) ==
    \E price \in FillPrices(leg, order[leg].bought + 1) :
        /\ \A k \in 1..n : price \in FillPrices(leg, order[leg].bought + k)
        /\ Fill(leg, price, n, MultiplierOf(InForce(scene.timeline)))
        /\ UNCHANGED scanVars

ScanNext ==
    \/ \E q \in scene.lo..scene.hi : Evaluate(q)
    \/ StartSearch
    \/ SweepQuantity
    \/ \E leg \in Legs : PlaceLeg(leg)
    \/ \E leg \in Legs, n \in 1..MaxQuantity : n <= order[leg].left /\ FillLeg(leg, n)

ScanSpec == (\E s \in Scenes : Start(s)) /\ [][ScanNext]_tradeVars

-----------------------------------------------------------------------------
Filled ==
    /\ stage = "judged"
    /\ verdict.class \in Priced
    /\ \A leg \in Legs : order[leg].bought = verdict.quantity

Earned(joint) ==
    PortfolioPayoff(joint) * verdict.quantity
        - SumOver(Legs, [leg \in Legs |-> order[leg].gross + NetFee(order[leg])])

\* A portfolio the detector called a proven contractual arbitrage earns money
\* once every leg is filled, however the venue split the fills and whichever
\* terminal state the world then reaches (Classification).
ProvenClaimPays ==
    Filled /\ verdict.class = "PROVEN_CONTRACTUAL_ARBITRAGE" =>
        \A joint \in TerminalStates : Earned(joint) > 0

\* A portfolio called proven not profitable has a terminal state in which even
\* the kindest split of its fills earns nothing.
ProvenLossLoses ==
    Filled /\ verdict.class = "PROVEN_NOT_PROFITABLE" =>
        \E joint \in TerminalStates : Earned(joint) <= 0

\* A finished sweep has counted every executable quantity of its interval once,
\* under its own classification and whatever it retained, and reports every
\* quantity the direct evaluation would prove.
SweepMissesNothing ==
    stage = "swept" =>
        /\ ~NotSearched =>
              \A c \in Classes :
                  counts[c] = Cardinality({q \in scene.lo..Reachable : EvaluateWithCurves(q) = c})
        /\ \A q \in scene.lo..scene.hi :
              EvaluateQuantity(q) = "PROVEN_CONTRACTUAL_ARBITRAGE" =>
                  \E i \in DOMAIN results :
                      results[i] = [quantity |-> q, class |-> "PROVEN_CONTRACTUAL_ARBITRAGE"]

=============================================================================
