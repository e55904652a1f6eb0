---------------------------- MODULE MCLiveReplay ----------------------------
(* Two markets, monitored alone and as two groups of one event.  Observed at *)
(* times 1 to 3 in any order, with a freshness window of 1.                  *)
EXTENDS LiveReplay

MCMaxAge == [s \in Sources |-> 1]
MCComplement == {1}
MCNoBaskets == <<[event |-> 7, members |-> {1, 2}]>>
MCYesBaskets == <<[event |-> 7, members |-> {1, 2}]>>

Transported(kind, markets, usable, at) ==
  [kind |-> kind, keys |-> {}, from |-> 0, usable |-> usable, markets |-> markets, at |-> at]
Fact(kind, key, from, usable, markets, at) ==
  [kind |-> kind, keys |-> {key}, from |-> from, usable |-> usable, markets |-> markets, at |-> at]
Snapshot(kind, keys, markets, at) ==
  [kind |-> kind, keys |-> keys, from |-> 0, usable |-> TRUE, markets |-> markets, at |-> at]

Opened == Transported("CONNECTION_OPENED", {}, TRUE, 1)
Subscribed == Transported("SUBSCRIBED", {1, 2}, TRUE, 1)
Frame(m, at) == Transported("FRAME_RECEIVED", {m}, TRUE, at)
Closed(at) == Transported("CONNECTION_CLOSED", {}, TRUE, at)
Metadata(m, at) == Fact("MARKET_METADATA", Key(m), 0, TRUE, {}, at)
Fee(m, from, usable, at) == Fact("FEE_OBSERVATION", Key(m), from, usable, {m}, at)
Certificate(m, at) == Fact("SETTLEMENT_CERTIFICATE", Key(m), 0, TRUE, {m}, at)
Evidence(m, at) == Fact("SETTLEMENT_EVIDENCE", Key(m), 0, TRUE, {m}, at)
Relation(claim, members, at) ==
  Fact("RELATION_CERTIFICATE", RelationIdentity(7, claim, members), 0, TRUE, {1, 2}, at)

\* One market: certificates, scheduled and unusable fees, evidence, a close.
OneMarket ==
  [prologue |-> <<Opened, Transported("SUBSCRIBED", {1}, TRUE, 1), Metadata(1, 1)>>,
   bodies   |-> {Fee(1, 0, TRUE, 1), Fee(1, 2, TRUE, 1), Fee(1, 0, FALSE, 2),
                 Snapshot("FEE_KNOWLEDGE_SNAPSHOT", {Key(1)}, {1}, 1),
                 Certificate(1, 2), Evidence(1, 2), Frame(1, 1), Frame(1, 2),
                 Snapshot("SETTLEMENT_REGISTRY_SNAPSHOT", {}, {1}, 1)}]

\* The two groups: certificates over other members or the other claim, an empty
\* registry, a relation's evidence, a disconnect that touches both members.
Groups ==
  [prologue |-> <<Opened, Subscribed, Metadata(1, 1), Metadata(2, 1), Fee(1, 0, TRUE, 1),
                  Fee(2, 0, TRUE, 1), Certificate(1, 1)>>,
   bodies   |-> {Relation("AT_MOST_ONE", {1, 2}, 2), Relation("AT_MOST_ONE", {1, 2, 3}, 2),
                 Relation("AT_LEAST_ONE", {1, 2}, 2),
                 Snapshot("RELATION_REGISTRY_SNAPSHOT", {Key(7)}, {1, 2}, 1),
                 Fact("RELATION_EVIDENCE", Key(7), 0, TRUE, {1, 2}, 2),
                 Certificate(2, 2), Frame(2, 2), Closed(3),
                 Snapshot("SETTLEMENT_REGISTRY_SNAPSHOT", {Key(1), Key(2)}, {1, 2}, 2)}]

MCScenarios == {OneMarket, Groups}
=============================================================================
