---------------------------- MODULE MCCollector ----------------------------
(* One market on one sid: what is under test is the life of connections.    *)
EXTENDS Collector

CONSTANT m1

MCMarkets == {m1}
MCSids == {1, 2}
MCSlots == {"yes42"}
MCSidOf == [m \in MCMarkets |-> 1]
MCChannelOf == <<"orderbook_delta", "other">>
MCMaxFrames == [e \in {1} |-> <<1, 1>>]
=============================================================================
