------------------------------- MODULE MCScan -------------------------------
(***************************************************************************)
(* TLC instance of Scan: two markets, ladders of at most two levels, one   *)
(* fault at a time.  Every timeline is tried with one pair of books, every *)
(* pair of books with the plain timeline.                                  *)
(***************************************************************************)
EXTENDS Scan

MCOrders == Markets \X {"YES", "NO"}
MCNotional == 9
MCPrices == 0..MCNotional
MCFeePerUnit == [p \in MCPrices |-> p * (MCNotional - p)]

Empty == [p \in MCPrices |-> 0]
Deep == [Empty EXCEPT ![8] = 1, ![5] = 2]
Flat == [Empty EXCEPT ![7] = 3]
Poor == [Empty EXCEPT ![3] = 2]
Cheap == [Empty EXCEPT ![8] = 3]
MCLadders == {Empty, Deep, Flat, Poor, Cheap}

Plain ==
    [seriesBase |-> "identity", eventOverride |-> "none", seriesChanges |-> {}, eventChanges |-> {}]
ChangesTo(configs) == {[ts |-> t, config |-> c] : t \in 1..2, c \in configs}
MCTimelines ==
    {Plain} \cup
    {t \in [seriesBase : {"identity", "scaled"}, eventOverride : {"none", "identity", "unknown"},
            seriesChanges : {{}} \cup {{c} : c \in ChangesTo({"identity", "scaled"})},
            eventChanges : {c \in SUBSET ChangesTo({"none", "identity", "scaled"}) :
                               Cardinality(c) <= 1 \/ {d.ts : d \in c} = 1..Cardinality(c)}] : TRUE}

\* A fault that is not one market's needs no choice of victim, and books no leg
\* crosses are empty.
Interesting(s) ==
    /\ s \in Scenes
    /\ s.fault \in {"none"} \cup BookFaults \cup RelationFaults =>
          s.victim = CHOOSE m \in s.members : TRUE
    /\ \A leg \in Markets \X Sides :
          leg[1] \notin s.members \/ (s.kind = "no_basket" /\ leg[2] = "NO")
              \/ (s.kind = "yes_basket" /\ leg[2] = "YES") => s.bids[leg] = Empty

Scene(kind, members, bids, fault, victim, timeline, at, hi) ==
    [kind |-> kind, members |-> members, bids |-> bids, fault |-> fault,
     victim |-> victim, timeline |-> timeline, at |-> at, lo |-> 1, hi |-> hi]

Kinds == {"complement", "no_basket", "yes_basket"}

MCSpec ==
    /\ \/ \E kind \in Kinds, members \in (SUBSET Markets) \ {{}}, fault \in Faults,
             hi \in {2, 3}, bids \in [Markets \X Sides -> MCLadders] : \E victim \in members :
            LET s == Scene(kind, members, bids, fault, victim, Plain, 1, hi)
            IN  Interesting(s) /\ Start(s)
       \/ \E timeline \in MCTimelines, at \in Instants, m \in Markets :
            Start(Scene("complement", {m}, [leg \in Markets \X Sides |-> Flat], "none", m,
                        timeline, at, 2))
    /\ [][ScanNext]_tradeVars

=============================================================================
