-------------------------- MODULE MCReconstruction --------------------------
(***************************************************************************)
(* Two markets behind one counter and two connections, the first of which  *)
(* may be left open.                                                       *)
(***************************************************************************)
EXTENDS ReconstructionInvariant, TLC

CONSTANTS m1, m2

MCMarkets == {m1, m2}
MCSids == {1}
MCSlots == {"yes42"}
MCSidOf == [m \in MCMarkets |-> 1]
MCChannelOf == <<"orderbook_delta">>

\* Three frames on the first connection and one on the second.
MCMaxFrames == <<<<3>>, <<1>>>>

\* The two markets are interchangeable: same sid, and no definition tells them apart.
MCSymmetry == Permutations(MCMarkets)

=============================================================================
