------------------------------ MODULE OrderFees ------------------------------
(***************************************************************************)
(* What the venue charges an order that fills in any number of pieces      *)
(* (venues/kalshi/fee_engine.py), and the interval the scanner quotes      *)
(* before it knows how many pieces there will be (fee_model.py, fees.py).  *)
(*                                                                         *)
(* Quantities are whole increments (0.01 contract), prices are cash units  *)
(* per increment, and the model fee is kept in FeeScale-ths of a cash unit,*)
(* so that every amount is an integer, as it is in the code.               *)
(***************************************************************************)
EXTENDS Integers

CONSTANTS
    Orders,        \* one accumulator per order
    Prices,
    Multipliers,   \* the fee multipliers a configuration may carry
    FeePerUnit,    \* model fee of one increment at each price, multiplier 1
    FeeScale,      \* model-fee units per cash unit
    Steps,         \* the balance grids of the venue's member classes
    CoarseStep,    \* the grid assumed when the member's class is unknown
    MaxQuantity    \* bound: the largest quantity ordered

ASSUME OrderFeesAssumption ==
    /\ Prices \subseteq Nat
    /\ Multipliers \subseteq Nat
    /\ FeePerUnit \in [Prices -> Nat]
    /\ FeeScale \in Nat \ {0}
    /\ CoarseStep \in Nat \ {0}
    /\ Steps \subseteq 1..CoarseStep
    /\ MaxQuantity \in Nat

VARIABLES
    order,         \* what each order has been charged so far
    step,          \* the grid of this member's balance
    quotedStep     \* the grid the quoted bounds use

orderVars == <<order, step, quotedStep>>

Unplaced ==
    [left |-> 0, bought |-> 0, fills |-> 0, gross |-> 0, raw |-> 0,
     trade |-> 0, rounding |-> 0, rebate |-> 0, accumulated |-> 0]

\* The member's class is known, or the coarser grid is assumed.
OrderInit ==
    /\ order = [o \in Orders |-> Unplaced]
    /\ step \in Steps
    /\ quotedStep \in {step, CoarseStep}

CeilDiv(amount, unit) == (amount + unit - 1) \div unit

ModelFee(price, n, multiplier) == multiplier * FeePerUnit[price] * n

\* Buying is cash out, so the change of the balance is negative and aligning
\* it rounds away from zero.
RoundingFee(gross, trade) == (-gross - trade) % step

Smaller(a, b) == IF a <= b THEN a ELSE b

\* Whole steps only, and never more than this fill's own fee.
MutUncappedRebate(held, charged) == (held \div step) * step

RebateFor(held, charged) == Smaller(held \div step, charged \div step) * step

\* apply_fill: an order's account after one more fill.
AfterFill(before, price, n, fee) ==
    LET trade    == CeilDiv(fee, FeeScale)
        rounding == RoundingFee(price * n, trade)
        held     == before.accumulated + rounding
        rebate   == RebateFor(held, trade + rounding)
    IN  [left        |-> before.left - n,
         bought      |-> before.bought + n,
         fills       |-> before.fills + 1,
         gross       |-> before.gross + price * n,
         raw         |-> before.raw + fee,
         trade       |-> before.trade + trade,
         rounding    |-> before.rounding + rounding,
         rebate      |-> before.rebate + rebate,
         accumulated |-> held - rebate]

Place(o, n) ==
    /\ order[o] = Unplaced
    /\ order' = [order EXCEPT ![o].left = n]
    /\ UNCHANGED <<step, quotedStep>>

Fill(o, price, n, multiplier) ==
    /\ n <= order[o].left
    /\ order' = [order EXCEPT ![o] = AfterFill(@, price, n, ModelFee(price, n, multiplier))]
    /\ UNCHANGED <<step, quotedStep>>

OrderNext ==
    \E o \in Orders, n \in 1..MaxQuantity :
        \/ Place(o, n)
        \/ \E p \in Prices, m \in Multipliers : Fill(o, p, n, m)

FeeSpec == OrderInit /\ [][OrderNext]_orderVars

-----------------------------------------------------------------------------
(***************************************************************************)
(* The quoted bounds, and the facts about them.                            *)
(***************************************************************************)

NetFee(charged) == charged.trade + charged.rounding - charged.rebate

\* Every fill is at least one increment, so an order has no more fills than
\* increments.
MaxFillCount(n) == n

NetFeeLowerBound(raw) == CeilDiv(raw, FeeScale)

MutOneFill(raw, n) == IF n = 0 THEN 0 ELSE CeilDiv(raw, FeeScale) + quotedStep - 1

NetFeeUpperBound(raw, n) ==
    IF n = 0 THEN 0
    ELSE NetFeeLowerBound(raw) + MaxFillCount(n) * quotedStep - 1

\* However the venue splits an order, across any number of price levels, its
\* net fee lies in the interval quoted for what it bought (net_fee_bounds):
\* per-fill ceilings and roundings add up to no more than the bound allows,
\* and rebates never take the fee below the rounded model fee.
NetFeeIsBounded ==
    \A o \in Orders :
        /\ NetFeeLowerBound(order[o].raw) <= NetFee(order[o])
        /\ NetFee(order[o]) <= NetFeeUpperBound(order[o].raw, order[o].bought)

\* A rebate may return what earlier fills overpaid but never makes a fill pay
\* the buyer (FillFeeResult refuses a negative net fee): while an order fills,
\* its net fee never falls and its accumulator never goes below zero.
NetFeeGrows ==
    \A o \in Orders : /\ NetFee(order'[o]) >= NetFee(order[o])
                      /\ order'[o].accumulated >= 0

NetFeeNeverFalls == [][NetFeeGrows]_order

=============================================================================
