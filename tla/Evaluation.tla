------------------------------ MODULE Evaluation ------------------------------
(***************************************************************************)
(* EvaluationCoordinator (replay/coordinator.py): what one observation does *)
(* to a session and which decisions it causes.  Pure: live and replay both *)
(* call these operators, on knowledge bases of their own.                  *)
(*                                                                         *)
(* Order books are Reconstruction's subject.  They are a function of the   *)
(* transport observations handled and of the journal's health, so a view   *)
(* is identified by the ordinal of the last one and that flag; what the    *)
(* detectors compute from a view and a context is not modelled, only that  *)
(* they ran, on which view and on which facts.                             *)
(***************************************************************************)
EXTENDS Knowledge, Sequences

CONSTANTS
  Complement,   \* DetectorPlan.binary_complement_markets
  NoBaskets,    \* DetectorPlan.baskets, a sequence of [event, members]
  YesBaskets,   \* DetectorPlan.yes_baskets
  Quantities    \* how many DetectorPlan.quantities

Baskets == [event : Nat, members : (SUBSET Nat) \ {{}}]

ASSUME PlanAssumption ==
  /\ Complement \subseteq Nat
  /\ Quantities \in Nat
  /\ NoBaskets \in Seq(Baskets) /\ YesBaskets \in Seq(Baskets)

Closes == {"CONNECTION_CLOSED", "CONNECTION_FAILED"}
Transport == Closes \cup {"CONNECTION_OPENED", "SUBSCRIBED", "FRAME_RECEIVED"}
ContextTriggers == {"FEE_OBSERVATION", "FEE_KNOWLEDGE_SNAPSHOT",
  "SETTLEMENT_CERTIFICATE", "SETTLEMENT_REGISTRY_SNAPSHOT", "SETTLEMENT_EVIDENCE",
  "RELATION_CERTIFICATE", "RELATION_REGISTRY_SNAPSHOT", "RELATION_EVIDENCE"}

-----------------------------------------------------------------------------
(* Authoritative state of a session.                                       *)

InitSession == [connected |-> FALSE, present |-> {}, live |-> {}, touched |-> 0,
                journalHealthy |-> TRUE, decided |-> 0]

\* EvaluationCoordinator.apply.  "journalled" is whether the reconstructor's
\* journal took the frame.  register_subscription raises without a connection.
After(s, o, journalled) ==
  [s EXCEPT
     !.connected = o.kind = "CONNECTION_OPENED" \/ (@ /\ o.kind \notin Closes),
     !.live      = @ \cup (IF o.kind \in {"SUBSCRIBED", "FRAME_RECEIVED"} THEN o.markets ELSE {}),
     !.present   = @ \cup (IF o.kind = "SUBSCRIBED" \/ (o.kind = "FRAME_RECEIVED" /\ o.usable /\ journalled)
                            THEN o.markets ELSE {}),
     !.touched   = IF o.kind \in Transport THEN o.n ELSE @,
     !.journalHealthy = @ /\ (o.kind = "FRAME_RECEIVED" => journalled)]

\* The markets of the ScanTrigger that apply returns, {} for none: everything
\* live on a close, the frame's market, and the live ones a fact is about.
Triggered(s, o) ==
  {m \in s.live \cup o.markets :
     \/ o.kind \in Closes /\ m \in s.live
     \/ o.kind = "FRAME_RECEIVED" /\ m \in o.markets
     \/ o.kind \in ContextTriggers /\ m \in o.markets \cap s.live}

-----------------------------------------------------------------------------
(* evaluate: the subjects a trigger affects, in order.                     *)

\* dict.setdefault over markets, then the baskets containing each: one basket
\* per EVENT, the first met.  A hit is <<market, place of the basket in the plan>>.
FirstHits(touched, baskets) ==
  LET hits == {x \in touched \X DOMAIN baskets : x[1] \in baskets[x[2]].members}
      Earlier(x, y) == x[1] < y[1] \/ (x[1] = y[1] /\ x[2] < y[2])
  IN  {x \in hits : \A y \in hits :
         baskets[y[2]].event = baskets[x[2]].event => ~Earlier(y, x)}

\* A visit is <<loop, market, basket, quantity>>: which of the three loops, the
\* market that made it affected, the place of its basket and of its quantity.
MarketVisits(touched) == {<<1, m, 0, q>> : m \in touched \cap Complement, q \in 1..Quantities}

BasketVisits(loop, touched, baskets) ==
  {<<loop, x[1], x[2], q>> : x \in FirstHits(touched, baskets), q \in 1..Quantities}

Visits(touched) ==
  MarketVisits(touched) \cup BasketVisits(2, touched, NoBaskets)
    \cup BasketVisits(3, touched, YesBaskets)

\* The loops nest, so visits come in lexicographic order.
Precedes(x, y) == \E i \in DOMAIN x : x[i] < y[i] /\ \A j \in 1..(i - 1) : x[j] = y[j]

\* A finite set in that order (SetToSortSeq, in a form that can be proved about).
Rank(S, x) == Cardinality({y \in S : Precedes(y, x)})
InTurn(S) == [i \in 1..Cardinality(S) |-> CHOOSE x \in S : Rank(S, x) = i - 1]

Subject(detector, event, members, claim, q) ==
  [detector |-> detector, event |-> event, members |-> members, claim |-> claim, quantity |-> q]

Item(v) ==
  CASE v[1] = 1 -> Subject("BINARY_COMPLEMENT", 0, {v[2]}, "", v[4])
    [] v[1] = 2 -> LET b == NoBaskets[v[3]]
                   IN  Subject("AT_MOST_ONE_BASKET", b.event, b.members, "AT_MOST_ONE", v[4])
    [] v[1] = 3 -> LET b == YesBaskets[v[3]]
                   IN  Subject("AT_LEAST_ONE_BASKET", b.event, b.members, "AT_LEAST_ONE", v[4])

Agenda(touched) ==
  LET visits == InTurn(Visits(touched)) IN [i \in DOMAIN visits |-> Item(visits[i])]

-----------------------------------------------------------------------------
(* One decision.                                                           *)

\* What a decision reads of either context.
OfMarket(c) ==
  [missing |-> c.missing, absent |-> c.absent, others |-> {},
   certified |-> c.certificate # {}, priced |-> c.fees # {},
   used |-> c.metadata \cup c.fees \cup c.certificate \cup c.evidence]

OfBasket(c) ==
  [missing |-> c.missing, absent |-> c.absent, others |-> c.others,
   certified |-> c.relation # {} /\ \A m \in DOMAIN c.members : c.members[m].certificate # {},
   priced |-> c.fees # {},
   used |-> c.relation \cup c.evidence \cup c.fees \cup
            UNION {c.members[m].metadata \cup c.members[m].certificate \cup
                   c.members[m].evidence : m \in DOMAIN c.members}]

Context(kb, item, h) ==
  IF item.detector = "BINARY_COMPLEMENT"
  THEN OfMarket(BinaryContext(kb, CHOOSE m \in item.members : TRUE, h))
  ELSE OfBasket(BasketContext(kb, [event |-> item.event, members |-> item.members], item.claim, h))

\* A context that misses nothing has every instrument, so the detector runs
\* when it is certified and priced; otherwise the first of the two that fails
\* names the block.
Verdict(context) ==
  IF context.missing # {} THEN "MISSING_KNOWLEDGE"
  ELSE IF ~context.certified THEN "BLOCKED_SETTLEMENT_SEMANTICS"
  ELSE IF ~context.priced THEN "BLOCKED_FEE_SEMANTICS"
  ELSE "RAN"

Events(baskets) == {baskets[i].event : i \in DOMAIN baskets}

\* An absent book is missing knowledge of its own and hides the context's.
WithBooks(context, noBook) ==
  IF noBook = {} THEN context ELSE [context EXCEPT !.missing = {<<"book", m>> : m \in noBook}]

\* The DecisionRecord; a blocked one carries what was found absent.
Record(s, item, h, context, incomplete) ==
  LET verdict == Verdict(context)
      unknown == verdict = "MISSING_KNOWLEDGE"
  IN [ item       |-> item,
       trigger    |-> h.n,
       at         |-> h.at,
       verdict    |-> verdict,
       missing    |-> context.missing,
       absent     |-> IF unknown THEN {} ELSE context.absent,
       others     |-> IF unknown THEN {} ELSE context.others,
       used       |-> {o.n : o \in context.used},
       view       |-> IF verdict = "RAN" THEN <<s.touched, s.journalHealthy>> ELSE <<>>,
       incomplete |-> incomplete ]

\* _binary_decisions, _basket_decisions, _yes_basket_decisions for one item.
Decision(kb, s, item, h) ==
  Record(s, item, h, WithBooks(Context(kb, item, h), item.members \ s.present),
         Incomplete(kb, item.members, Events(NoBaskets), h))

\* The decisions of one observation; the i-th gets ordinal s.decided + i.
Decisions(kb, s, touched, h) ==
  LET agenda == Agenda(touched) IN [i \in DOMAIN agenda |-> Decision(kb, s, agenda[i], h)]

Horizon(o) == [n |-> o.n, at |-> o.at]

\* _next_ordinal for each decision of the batch.
Counted(after, batch) == [session |-> [after EXCEPT !.decided = @ + Len(batch)], batch |-> batch]

EvaluateAfter(kb, after, o) ==
  Counted(after, Decisions(kb, after, Triggered(after, o), Horizon(o)))

\* Apply o, then evaluate: the session after, and what it decided.
Evaluate(kb, s, o, journalled) == EvaluateAfter(kb, After(s, o, journalled), o)
=============================================================================
