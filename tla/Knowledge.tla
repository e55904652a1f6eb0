------------------------------ MODULE Knowledge ------------------------------
(***************************************************************************)
(* What may be used at a horizon: the bitemporal index over a stream of    *)
(* observations (replay/observation.py, replay/knowledge.py) and the       *)
(* context a detector gets from it (venues/kalshi/replay_context.py).      *)
(* Pure: a knowledge base is the set of the observations ingested so far.  *)
(*                                                                         *)
(* An observation is a record                                              *)
(*   n        capture ordinal, unique in a stream                          *)
(*   at       observed_at; may run backwards, never used to order          *)
(*   kind     ObservationKind                                              *)
(*   keys     what a fact answers for or a snapshot covered; {} for a      *)
(*            snapshot is the wildcard "*"                                 *)
(*   from     effective_from, 0 when the payload names none                *)
(*   usable   FALSE for a fee record without type or multiplier and for    *)
(*            evidence without a digest; for a frame, whether the          *)
(*            reconstructor routes it to its market's book                 *)
(*   markets  tickers of a SUBSCRIBED, hint of a frame, affects_markets of *)
(*            a context observation                                        *)
(* Markets, events and times are numbers; markets in ticker order.         *)
(***************************************************************************)
EXTENDS Naturals, FiniteSets

CONSTANT MaxAge   \* ContextRefreshPolicy: source -> age beyond which it is stale

Sources == {"metadata", "fees", "settlement", "relation"}

ASSUME MaxAgeAssumption == MaxAge \in [Sources -> Nat]

-----------------------------------------------------------------------------
(* Keys.                                                                   *)

Claims == {"AT_MOST_ONE", "AT_LEAST_ONE"}

\* A ticker or an event names one history of each store.
Key(subject) == <<subject, "", {}>>

RelationIdentity(event, claim, members) == <<event, claim, members>>

-----------------------------------------------------------------------------
(* Resolution: discard what was observed after the horizon, then choose.   *)

\* Mutant: valid time alone decides, the classic backtest leak.
AdmitsByTime(o, h) == o.at <= h.at

Admits(o, h) == o.n <= h.n

Known(kb, h) == {o \in kb : Admits(o, h)}

EffectiveAt(o, at) == o.from <= at

Supersedes(p, o) == p.from > o.from \/ (p.from = o.from /\ p.n > o.n)

\* VersionHistory.resolve: at most one observation when ordinals are unique.
Resolve(kb, kind, key, h) ==
  LET candidates == {o \in Known(kb, h) :
                       o.kind = kind /\ key \in o.keys /\ EffectiveAt(o, h.at)}
  IN  {o \in candidates : \A p \in candidates : ~Supersedes(p, o)}

Answers(o, key) == key \in o.keys \/ o.keys = {}

\* KnowledgeBase._snapshot: the source was consulted about key, or about all.
Checked(kb, kind, key, h) == \E o \in Known(kb, h) : o.kind = kind /\ Answers(o, key)

-----------------------------------------------------------------------------
(* Contexts.  Sets of at most one observation stand for optional values;   *)
(* missing and absent hold <<source, subject>>.                            *)

BinaryContext(kb, m, h) ==
  LET metadata    == Resolve(kb, "MARKET_METADATA", Key(m), h)
      fees        == {o \in Resolve(kb, "FEE_OBSERVATION", Key(m), h) : o.usable}
      certificate == Resolve(kb, "SETTLEMENT_CERTIFICATE", Key(m), h)
      evidence    == {o \in Resolve(kb, "SETTLEMENT_EVIDENCE", Key(m), h) : o.usable}
      feesChecked == Checked(kb, "FEE_KNOWLEDGE_SNAPSHOT", Key(m), h)
      registryChecked == Checked(kb, "SETTLEMENT_REGISTRY_SNAPSHOT", Key(m), h)
  IN [ metadata    |-> metadata,
       fees        |-> fees,
       certificate |-> certificate,
       evidence    |-> evidence,
       missing     |-> {x \in Sources \X {m} :
                          \/ x[1] = "metadata" /\ metadata = {}
                          \/ x[1] = "fees" /\ fees = {} /\ ~feesChecked
                          \/ x[1] = "settlement" /\ certificate = {} /\ ~registryChecked},
       absent      |-> {x \in Sources \X {m} :
                          \/ x[1] = "fees" /\ fees = {} /\ feesChecked
                          \/ x[1] = "settlement" /\ certificate = {} /\ registryChecked} ]

\* relation_certificates_for_event: identities named beside "none over this set".
OtherIdentities(kb, event, h) ==
  {key \in UNION {o.keys : o \in {c \in Known(kb, h) : c.kind = "RELATION_CERTIFICATE"}} :
     key[1] = event /\ Resolve(kb, "RELATION_CERTIFICATE", key, h) # {}}

\* Mutant: a source nobody consulted is taken for an empty one.
NeverMissing(kb, basket, claim, h, members) == UNION {members[m].missing : m \in basket.members}

RelationMissing(kb, basket, claim, h, members) ==
  (UNION {members[m].missing : m \in basket.members}) \cup
  {x \in {<<"relation", basket.event>>} :
     /\ Resolve(kb, "RELATION_CERTIFICATE",
                RelationIdentity(basket.event, claim, basket.members), h) = {}
     /\ ~Checked(kb, "RELATION_REGISTRY_SNAPSHOT", Key(basket.event), h)}

\* A basket is [event, members].  Fees are quoted with the first member's
\* configuration; evidence of a relation is kept per event, whatever the claim.
BasketContext(kb, basket, claim, h) ==
  LET members  == [m \in basket.members |-> BinaryContext(kb, m, h)]
      relation == Resolve(kb, "RELATION_CERTIFICATE",
                          RelationIdentity(basket.event, claim, basket.members), h)
      first    == CHOOSE m \in basket.members : \A k \in basket.members : m <= k
      missing  == RelationMissing(kb, basket, claim, h, members)
  IN [ members  |-> members,
       relation |-> relation,
       evidence |-> {o \in Resolve(kb, "RELATION_EVIDENCE", Key(basket.event), h) : o.usable},
       fees     |-> members[first].fees,
       missing  |-> missing,
       absent   |-> ({x \in {<<"relation", basket.event>>} : relation = {}} \ missing) \cup
                    {<<"settlement", m>> : m \in {k \in basket.members :
                       members[k].certificate = {} /\ members[k].missing = {}}},
       others   |-> IF relation = {} THEN OtherIdentities(kb, basket.event, h) ELSE {} ]

-----------------------------------------------------------------------------
(* Completeness.  A dimension is incomplete when its source was never      *)
(* observed, or longer ago than the policy allows, for one of the subjects.*)

StreamDimensions == {"BOOK_STREAM", "LIFECYCLE"}
Dimensions == Sources \cup StreamDimensions

Records == [metadata   |-> {"METADATA_SNAPSHOT", "MARKET_METADATA"},
            fees       |-> {"FEE_KNOWLEDGE_SNAPSHOT", "FEE_OBSERVATION"},
            settlement |-> {"SETTLEMENT_REGISTRY_SNAPSHOT", "SETTLEMENT_CERTIFICATE"},
            relation   |-> {"RELATION_REGISTRY_SNAPSHOT", "RELATION_CERTIFICATE"}]

\* KnowledgeBase._last_observed: recent when the LATEST record is.  The store of
\* relation certificates is keyed by identity and the lookup by event, so only a
\* snapshot answers for an event.
Recent(kb, source, subject, h) ==
  \E o \in Known(kb, h) :
    o.kind \in Records[source] /\ Answers(o, Key(subject)) /\ h.at <= o.at + MaxAge[source]

\* subjects: markets; events: those of the plan's NO baskets, none of which makes
\* relation knowledge NOT_REQUIRED.
Incomplete(kb, subjects, events, h) ==
  {d \in Dimensions :
     \/ d = "BOOK_STREAM" /\ \A o \in Known(kb, h) : o.kind # "FRAME_RECEIVED"
     \/ d = "LIFECYCLE" /\ \A o \in Known(kb, h) : o.kind # "CONNECTION_OPENED"
     \/ d \in Sources \ {"relation"} /\ \E m \in subjects : ~Recent(kb, d, m, h)
     \/ d = "relation" /\ \E e \in events : ~Recent(kb, d, e, h)}
=============================================================================
