---------------------------- MODULE MCPersistence ----------------------------
(* TLC instance of RawJournal and DurableCollector, the two places where a  *)
(* collecting process keeps what it was told.                               *)
(*                                                                          *)
(* The collector follows one market: its metadata, fees and a connection,   *)
(* then frames, a certificate and a failure in any order, so that a         *)
(* restarted process may be fed something else at a recorded ordinal.       *)
(*                                                                          *)
(* The two share no state: one is explored while the other is in its only   *)
(* initial state, and the instance has the sum of their states.             *)
EXTENDS RawJournal, DurableCollector

MCMaxAge == [s \in Sources |-> 1]
MCComplement == {1}
MCBaskets == <<>>

Transported(kind, markets, at) ==
  [kind |-> kind, keys |-> {}, from |-> 0, usable |-> TRUE, markets |-> markets, at |-> at]
Fact(kind, at) ==
  [kind |-> kind, keys |-> {Key(1)}, from |-> 0, usable |-> TRUE, markets |-> {1}, at |-> at]

MCPrologue ==
  <<Fact("MARKET_METADATA", 1), Fact("FEE_OBSERVATION", 1),
    Transported("CONNECTION_OPENED", {}, 1), Transported("SUBSCRIBED", {1}, 1)>>
MCBodies ==
  {Transported("FRAME_RECEIVED", {1}, 1), Transported("FRAME_RECEIVED", {1}, 2),
   Fact("SETTLEMENT_CERTIFICATE", 1), Transported("CONNECTION_FAILED", {}, 2)}

MCInit == JournalInit /\ Init

MCNext ==
  \/ Init /\ JournalNext /\ UNCHANGED vars
  \/ JournalInit /\ Next /\ UNCHANGED journalVars

MCSpec == MCInit /\ [][MCNext]_<<journalVars, vars>>
=============================================================================
