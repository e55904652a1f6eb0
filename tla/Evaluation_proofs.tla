--------------------------- MODULE Evaluation_proofs ---------------------------
(***************************************************************************)
(* What a decision may depend on: two knowledge bases that agree up to the *)
(* horizon give the same contexts and the same decisions.  Everything is   *)
(* read through Known.  And what a batch consists of: well-formed subjects *)
(* in turn, blocked on settlement only where every registry has answered.  *)
(***************************************************************************)
EXTENDS Evaluation, FiniteSetTheorems, WellFoundedInduction, TLAPS

-----------------------------------------------------------------------------
(* Sequences and numbers.                                                  *)

IsSeq(q) == \E S : q \in Seq(S)

\* Appending keeps what was there.
LEMMA AppendFacts ==
  ASSUME NEW q, IsSeq(q), NEW e
  PROVE  /\ IsSeq(Append(q, e))
         /\ Len(q) \in Nat
         /\ Len(Append(q, e)) = Len(q) + 1
         /\ Append(q, e)[Len(q) + 1] = e
         /\ \A i \in 1..Len(q) : Append(q, e)[i] = q[i]
  <1>1. PICK S : q \in Seq(S)
    BY DEF IsSeq
  <1>2. q \in Seq(S \cup {e}) /\ e \in S \cup {e}
    BY <1>1
  <1>3. Append(q, e) \in Seq(S \cup {e})
    BY <1>2
  <1> QED
    BY <1>2, <1>3 DEF IsSeq

\* Concatenation keeps both parts in their places.
LEMMA ConcatFacts ==
    ASSUME NEW p, NEW q, IsSeq(p), IsSeq(q)
    PROVE  /\ IsSeq(p \o q)
           /\ Len(p) \in Nat /\ Len(q) \in Nat /\ Len(p \o q) = Len(p) + Len(q)
           /\ \A i \in 1..Len(p) : (p \o q)[i] = p[i]
           /\ \A i \in 1..Len(q) : (p \o q)[Len(p) + i] = q[i]
<1>1. PICK S, T : p \in Seq(S) /\ q \in Seq(T)
  BY DEF IsSeq
<1>2. p \in Seq(S \cup T) /\ q \in Seq(S \cup T)
  BY <1>1
<1>3. p \o q \in Seq(S \cup T)
  BY <1>2
<1> QED
  BY <1>2, <1>3 DEF IsSeq

LEMMA FunctionIsSeq ==
    ASSUME NEW f, NEW n \in Nat, f = [i \in 1..n |-> f[i]]
    PROVE  IsSeq(f) /\ Len(f) = n
<1> DEFINE S == {f[i] : i \in 1..n}
<1>1. f \in [1..n -> S]
  BY Zenon
<1>2. f \in Seq(S)
  BY <1>1
<1>3. Len(f) = n
  BY <1>1, <1>2
<1> QED
  BY <1>2, <1>3 DEF IsSeq

LEMMA SingletonIsSeq ==
    ASSUME NEW e
    PROVE  IsSeq(<<e>>) /\ Len(<<e>>) = 1 /\ <<e>>[1] = e
<1>1. <<e>> \in Seq({e})
  OBVIOUS
<1> QED
  BY <1>1 DEF IsSeq

\* A set of numbers has a least one: what induction over them comes down to here.
LEMMA LeastOfNumbers ==
    ASSUME NEW T \in SUBSET Nat, T # {}
    PROVE  \E t \in T : \A u \in T : t <= u
<1>1. PICK t \in T : \A u \in T : ~(<<u, t>> \in OpToRel(<, Nat))
  BY NatLessThanWellFounded, WFMin, Zenon
<1>2. \A u \in T : ~(u < t)
  BY <1>1, Zenon DEF OpToRel
<1> QED
  BY <1>2, SMT

-----------------------------------------------------------------------------
(* Knowledge.                                                              *)

\* Resolution and the "was it checked" lookups see only what was known.
LEMMA SameLookups ==
  ASSUME NEW kb1, NEW kb2, NEW h, Known(kb1, h) = Known(kb2, h)
  PROVE  /\ \A kind, key : Resolve(kb1, kind, key, h) = Resolve(kb2, kind, key, h)
         /\ \A kind, key : Checked(kb1, kind, key, h) = Checked(kb2, kind, key, h)
         /\ \A source, subject : Recent(kb1, source, subject, h) = Recent(kb2, source, subject, h)
  <1>1. \A kind, key : Resolve(kb1, kind, key, h) = Resolve(kb2, kind, key, h)
    BY Zenon DEF Resolve
  <1>2. \A kind, key : Checked(kb1, kind, key, h) = Checked(kb2, kind, key, h)
    BY Zenon DEF Checked
  <1>3. \A source, subject : Recent(kb1, source, subject, h) = Recent(kb2, source, subject, h)
    BY Zenon DEF Recent
  <1> QED
    BY <1>1, <1>2, <1>3

\* So do the contexts of both detector families.
LEMMA SameContexts ==
  ASSUME NEW kb1, NEW kb2, NEW h, Known(kb1, h) = Known(kb2, h)
  PROVE  /\ \A m : BinaryContext(kb1, m, h) = BinaryContext(kb2, m, h)
         /\ \A b, claim : BasketContext(kb1, b, claim, h) = BasketContext(kb2, b, claim, h)
  <1>1. /\ \A kind, key : Resolve(kb1, kind, key, h) = Resolve(kb2, kind, key, h)
        /\ \A kind, key : Checked(kb1, kind, key, h) = Checked(kb2, kind, key, h)
    BY SameLookups
  <1>2. \A m : BinaryContext(kb1, m, h) = BinaryContext(kb2, m, h)
    BY <1>1, Zenon DEF BinaryContext
  <1>3. \A event : OtherIdentities(kb1, event, h) = OtherIdentities(kb2, event, h)
    BY <1>1, Zenon DEF OtherIdentities
  <1>4. \A b, claim, members :
          RelationMissing(kb1, b, claim, h, members) = RelationMissing(kb2, b, claim, h, members)
    BY <1>1, Zenon DEF RelationMissing
  <1>5. ASSUME NEW b, NEW claim
        PROVE  BasketContext(kb1, b, claim, h) = BasketContext(kb2, b, claim, h)
    <2>1. [m \in b.members |-> BinaryContext(kb1, m, h)]
            = [m \in b.members |-> BinaryContext(kb2, m, h)]
      BY <1>2
    <2> QED
      BY <1>1, <1>3, <1>4, <2>1, Zenon DEF BasketContext
  <1> QED
    BY <1>2, <1>5

\* And the decisions of one trigger.
LEMMA SameDecisions ==
  ASSUME NEW kb1, NEW kb2, NEW s, NEW touched, NEW h, Known(kb1, h) = Known(kb2, h)
  PROVE  Decisions(kb1, s, touched, h) = Decisions(kb2, s, touched, h)
  <1>1. /\ \A m : BinaryContext(kb1, m, h) = BinaryContext(kb2, m, h)
        /\ \A b, claim : BasketContext(kb1, b, claim, h) = BasketContext(kb2, b, claim, h)
    BY SameContexts
  <1>2. ASSUME NEW item
        PROVE  Context(kb1, item, h) = Context(kb2, item, h)
    <2>1. BinaryContext(kb1, CHOOSE m \in item.members : TRUE, h)
            = BinaryContext(kb2, CHOOSE m \in item.members : TRUE, h)
      BY <1>1
    <2>2. BasketContext(kb1, [event |-> item.event, members |-> item.members], item.claim, h)
            = BasketContext(kb2, [event |-> item.event, members |-> item.members], item.claim, h)
      BY <1>1
    <2> QED
      BY <2>1, <2>2 DEF Context
  <1>3. \A subjects, events : Incomplete(kb1, subjects, events, h) = Incomplete(kb2, subjects, events, h)
    <2>1. \A source, subject : Recent(kb1, source, subject, h) = Recent(kb2, source, subject, h)
      BY SameLookups
    <2> QED
      BY <2>1, Zenon DEF Incomplete
  <1>4. ASSUME NEW item
        PROVE  Decision(kb1, s, item, h) = Decision(kb2, s, item, h)
    <2>1. Context(kb1, item, h) = Context(kb2, item, h)
      BY <1>2
    <2>2. Incomplete(kb1, item.members, Events(NoBaskets), h)
            = Incomplete(kb2, item.members, Events(NoBaskets), h)
      BY <1>3
    <2> QED
      BY <2>1, <2>2 DEF Decision
  <1> QED
    BY <1>4 DEF Decisions

\* And so the whole turn of an observation.
LEMMA SameTurn ==
  ASSUME NEW kb1, NEW kb2, NEW after, NEW o, Known(kb1, Horizon(o)) = Known(kb2, Horizon(o))
  PROVE  EvaluateAfter(kb1, after, o) = EvaluateAfter(kb2, after, o)
  <1>1. Decisions(kb1, after, Triggered(after, o), Horizon(o))
          = Decisions(kb2, after, Triggered(after, o), Horizon(o))
    BY SameDecisions
  <1> QED
    BY <1>1 DEF EvaluateAfter

-----------------------------------------------------------------------------
(* The agenda.                                                             *)

Places == Nat \X Nat \X Nat \X Nat

\* The lexicographic order of places, spelled out.
LEMMA PrecedesMeans ==
  ASSUME NEW x \in Places, NEW y \in Places
  PROVE  Precedes(x, y) <=>
           \/ x[1] < y[1]
           \/ x[1] = y[1] /\ x[2] < y[2]
           \/ x[1] = y[1] /\ x[2] = y[2] /\ x[3] < y[3]
           \/ x[1] = y[1] /\ x[2] = y[2] /\ x[3] = y[3] /\ x[4] < y[4]
<1>1. DOMAIN x = 1..4
  BY DEF Places
<1>2. /\ \A j \in 1..(1 - 1) : x[j] = y[j]
      /\ (\A j \in 1..(2 - 1) : x[j] = y[j]) <=> x[1] = y[1]
      /\ (\A j \in 1..(3 - 1) : x[j] = y[j]) <=> x[1] = y[1] /\ x[2] = y[2]
      /\ (\A j \in 1..(4 - 1) : x[j] = y[j]) <=> x[1] = y[1] /\ x[2] = y[2] /\ x[3] = y[3]
  <2>1. 1..(1 - 1) = {} /\ 1..(2 - 1) = {1} /\ 1..(3 - 1) = {1, 2} /\ 1..(4 - 1) = {1, 2, 3}
    OBVIOUS
  <2> QED
    BY <2>1
<1>3. 1..4 = {1, 2, 3, 4}
  OBVIOUS
<1> QED
  BY <1>1, <1>2, <1>3 DEF Precedes

\* It is a strict total order.
LEMMA PrecedesOrders ==
  ASSUME NEW x \in Places, NEW y \in Places, NEW z \in Places
  PROVE  /\ ~Precedes(x, x)
         /\ Precedes(x, y) /\ Precedes(y, z) => Precedes(x, z)
         /\ x = y \/ Precedes(x, y) \/ Precedes(y, x)
<1>1. /\ x[1] \in Nat /\ x[2] \in Nat /\ x[3] \in Nat /\ x[4] \in Nat
      /\ y[1] \in Nat /\ y[2] \in Nat /\ y[3] \in Nat /\ y[4] \in Nat
      /\ z[1] \in Nat /\ z[2] \in Nat /\ z[3] \in Nat /\ z[4] \in Nat
  BY DEF Places
<1>2. x[1] = y[1] /\ x[2] = y[2] /\ x[3] = y[3] /\ x[4] = y[4] => x = y
  BY DEF Places
<1>3. ~Precedes(x, x)
  BY <1>1, PrecedesMeans
<1>4. Precedes(x, y) /\ Precedes(y, z) => Precedes(x, z)
  BY <1>1, PrecedesMeans
<1>5. x = y \/ Precedes(x, y) \/ Precedes(y, x)
  BY <1>1, <1>2, PrecedesMeans
<1> QED
  BY <1>3, <1>4, <1>5

\* Every place of a finite set has its turn: ranks differ, and there are as many
\* as there are elements.
LEMMA EveryTurnIsTaken ==
  ASSUME NEW S \in SUBSET Places, IsFiniteSet(S)
  PROVE  /\ Cardinality(S) \in Nat
         /\ \A i \in 1..Cardinality(S) : InTurn(S)[i] \in S
         /\ DOMAIN InTurn(S) = 1..Cardinality(S)
<1> DEFINE n == Cardinality(S)
           Before(x) == {y \in S : Precedes(y, x)}
           rank == [x \in S |-> Rank(S, x)]
<1>1. n \in Nat
  BY FS_CardinalityType
<1>2. ASSUME NEW x \in S
      PROVE  /\ IsFiniteSet(Before(x))
             /\ Rank(S, x) = Cardinality(Before(x))
             /\ Rank(S, x) \in 0..(n - 1)
  <2>1. IsFiniteSet(Before(x)) /\ Cardinality(Before(x)) <= n /\ (n = Cardinality(Before(x)) => S = Before(x))
    BY FS_Subset
  <2>2. x \notin Before(x)
    BY PrecedesOrders
  <2>3. Cardinality(Before(x)) \in Nat
    BY <2>1, FS_CardinalityType
  <2> QED
    BY <1>1, <2>1, <2>2, <2>3 DEF Rank
<1>3. ASSUME NEW x \in S, NEW y \in S, Precedes(x, y)
      PROVE  Rank(S, x) # Rank(S, y)
  <2>1. Before(x) \subseteq Before(y)
    BY <1>3, PrecedesOrders
  <2>2. x \in Before(y) /\ x \notin Before(x)
    BY <1>3, PrecedesOrders
  <2>3. Cardinality(Before(y)) = Cardinality(Before(x)) => Before(y) = Before(x)
    BY <1>2, <2>1, FS_Subset
  <2> QED
    BY <1>2, <2>2, <2>3
<1>4. rank \in Injection(S, 0..(n - 1))
  <2>1. rank \in [S -> 0..(n - 1)]
    BY <1>2
  <2>2. ASSUME NEW x \in S, NEW y \in S, rank[x] = rank[y]
        PROVE  x = y
    <3>1. Rank(S, x) = Rank(S, y)
      BY <2>2
    <3>2. ~Precedes(x, y) /\ ~Precedes(y, x)
      BY <1>3, <3>1
    <3>3. x \in Places /\ y \in Places
      OBVIOUS
    <3> QED
      BY <3>2, <3>3, PrecedesOrders
  <2> QED
    BY <2>1, <2>2 DEF Injection, IsInjective
<1>5. IsFiniteSet(0..(n - 1)) /\ Cardinality(0..(n - 1)) = n
  BY <1>1, FS_Interval
<1>6. rank \in Surjection(S, 0..(n - 1))
  <2> HIDE DEF rank
  <2> QED
    BY <1>4, <1>5, FS_Injection
<1>7. ASSUME NEW i \in 1..n
      PROVE  InTurn(S)[i] \in S
  <2>1. i - 1 \in 0..(n - 1)
    BY <1>1
  <2>2. \E x \in S : rank[x] = i - 1
    BY <1>6, <2>1 DEF Surjection
  <2>3. \E x \in S : Rank(S, x) = i - 1
    BY <2>2
  <2>4. InTurn(S)[i] = CHOOSE x \in S : Rank(S, x) = i - 1
    BY DEF InTurn
  <2> QED
    BY <2>3, <2>4
<1> QED
  BY <1>1, <1>7 DEF InTurn

-----------------------------------------------------------------------------
\* A trigger leads to finitely many visits.
LEMMA VisitsAreFinite ==
  ASSUME NEW touched \in SUBSET Nat, IsFiniteSet(touched)
  PROVE  Visits(touched) \in SUBSET Places /\ IsFiniteSet(Visits(touched))
<1> DEFINE plans == ({0} \cup DOMAIN NoBaskets) \cup DOMAIN YesBaskets
           box == {1, 2, 3} \X (touched \X (plans \X (1..Quantities)))
           nested == [v \in Visits(touched) |-> <<v[1], <<v[2], <<v[3], v[4]>>>>>>]
<1>1. /\ Quantities \in Nat
      /\ DOMAIN NoBaskets \subseteq Nat /\ DOMAIN YesBaskets \subseteq Nat
      /\ Len(NoBaskets) \in Nat /\ DOMAIN NoBaskets = 1..Len(NoBaskets)
      /\ Len(YesBaskets) \in Nat /\ DOMAIN YesBaskets = 1..Len(YesBaskets)
  BY PlanAssumption
<1>2. IsFiniteSet(box)
  <2>1. IsFiniteSet(plans)
    <3>1. IsFiniteSet(1..Len(NoBaskets)) /\ IsFiniteSet(1..Len(YesBaskets))
      BY <1>1, FS_Interval
    <3>2. IsFiniteSet(DOMAIN NoBaskets) /\ IsFiniteSet(DOMAIN YesBaskets)
      BY <1>1, <3>1, Zenon
    <3>3. IsFiniteSet({0})
      BY FS_Singleton, Zenon
    <3>4. IsFiniteSet({0} \cup DOMAIN NoBaskets)
      BY <3>2, <3>3, FS_Union
    <3> QED
      BY <3>2, <3>4, FS_Union
  <2>2. IsFiniteSet(1..Quantities)
    BY <1>1, FS_Interval
  <2>3. IsFiniteSet({1, 2, 3})
    <3>1. {1, 2, 3} = 1..3
      OBVIOUS
    <3>2. IsFiniteSet(1..3)
      <4>1. 1 \in Int /\ 3 \in Int
        OBVIOUS
      <4> QED
        BY <4>1, FS_Interval
    <3> QED
      BY <3>1, <3>2, Zenon
  <2> HIDE DEF plans
  <2>4. IsFiniteSet(plans \X (1..Quantities))
    BY <2>1, <2>2, FS_Product
  <2>5. IsFiniteSet(touched \X (plans \X (1..Quantities)))
    BY <2>4, FS_Product
  <2> QED
    BY <2>3, <2>5, FS_Product
<1>3. ASSUME NEW v \in Visits(touched)
      PROVE  /\ v \in Places
             /\ v[1] \in {1, 2, 3} /\ v[2] \in touched /\ v[3] \in plans /\ v[4] \in 1..Quantities
  <2> HIDE DEF nested, box
  <2>1. CASE v \in MarketVisits(touched)
    <3>1. PICK m \in touched \cap Complement, q \in 1..Quantities : v = <<1, m, 0, q>>
      BY <2>1 DEF MarketVisits
    <3> QED
      BY <1>1, <3>1 DEF Places
  <2>2. CASE v \in BasketVisits(2, touched, NoBaskets)
    <3>1. PICK x \in FirstHits(touched, NoBaskets), q \in 1..Quantities : v = <<2, x[1], x[2], q>>
      BY <2>2 DEF BasketVisits
    <3>2. x[1] \in touched /\ x[2] \in DOMAIN NoBaskets
      BY DEF FirstHits
    <3>3. v[1] = 2 /\ v[2] = x[1] /\ v[3] = x[2] /\ v[4] = q
      BY <3>1
    <3>4. x[1] \in Nat /\ x[2] \in Nat /\ q \in Nat /\ x[2] \in plans
      <4>1. x[2] \in Nat /\ x[2] \in plans
        BY <1>1, <3>2, Zenon
      <4>2. x[1] \in Nat
        BY <3>2, Zenon
      <4>3. q \in Nat
        BY <1>1
      <4> QED
        BY <4>1, <4>2, <4>3, Zenon
    <3>5. v \in Places
      BY <3>1, <3>4 DEF Places
    <3> QED
      BY <3>2, <3>3, <3>4, <3>5
  <2>3. CASE v \in BasketVisits(3, touched, YesBaskets)
    <3>1. PICK x \in FirstHits(touched, YesBaskets), q \in 1..Quantities : v = <<3, x[1], x[2], q>>
      BY <2>3 DEF BasketVisits
    <3>2. x[1] \in touched /\ x[2] \in DOMAIN YesBaskets
      BY DEF FirstHits
    <3>3. v[1] = 3 /\ v[2] = x[1] /\ v[3] = x[2] /\ v[4] = q
      BY <3>1
    <3>4. x[1] \in Nat /\ x[2] \in Nat /\ q \in Nat /\ x[2] \in plans
      <4>1. x[2] \in Nat /\ x[2] \in plans
        BY <1>1, <3>2, Zenon
      <4>2. x[1] \in Nat
        BY <3>2, Zenon
      <4>3. q \in Nat
        BY <1>1
      <4> QED
        BY <4>1, <4>2, <4>3, Zenon
    <3>5. v \in Places
      BY <3>1, <3>4 DEF Places
    <3> QED
      BY <3>2, <3>3, <3>4, <3>5
  <2> QED
    BY <2>1, <2>2, <2>3 DEF Visits
<1>4. nested \in Injection(Visits(touched), box)
  <2>1. nested \in [Visits(touched) -> box]
    BY <1>3
  <2>2. ASSUME NEW v \in Visits(touched), NEW w \in Visits(touched), nested[v] = nested[w]
        PROVE  v = w
    <3>1. v[1] = w[1] /\ v[2] = w[2] /\ v[3] = w[3] /\ v[4] = w[4]
      BY <2>2
    <3> QED
      BY <1>3, <3>1 DEF Places
  <2> QED
    BY <2>1, <2>2 DEF Injection, IsInjective
<1>5. IsFiniteSet(Visits(touched))
  <2> HIDE DEF nested, box
  <2> QED
    BY <1>2, <1>4, FS_Injection
<1> QED
  BY <1>3, <1>5

\* A subject of one market has no relation; a basket has a claim.
WellFormed(item) ==
  \/ item.detector = "BINARY_COMPLEMENT" /\ item.claim = "" /\ \E m : item.members = {m}
  \/ item.detector # "BINARY_COMPLEMENT" /\ item.claim \in Claims

LEMMA SubjectsAreWellFormed ==
  /\ \A m, q : WellFormed(Subject("BINARY_COMPLEMENT", 0, {m}, "", q))
  /\ \A d \in {"AT_MOST_ONE_BASKET", "AT_LEAST_ONE_BASKET"} : \A c \in Claims : \A e, m, q :
       WellFormed(Subject(d, e, m, c, q))
<1>1. ASSUME NEW d, NEW e, NEW m, NEW c, NEW q
      PROVE  LET item == Subject(d, e, m, c, q)
             IN  item.detector = d /\ item.claim = c /\ item.members = m
  BY DEF Subject
<1>2. ASSUME NEW m, NEW q
      PROVE  WellFormed(Subject("BINARY_COMPLEMENT", 0, {m}, "", q))
  <2>1. PICK d, e, alone, c :
          /\ d = "BINARY_COMPLEMENT" /\ e = 0 /\ alone = {m} /\ c = ""
          /\ Subject("BINARY_COMPLEMENT", 0, {m}, "", q) = Subject(d, e, alone, c, q)
    OBVIOUS
  <2>2. PICK item : item = Subject(d, e, alone, c, q)
    OBVIOUS
  <2>3. item.detector = d /\ item.claim = c /\ item.members = alone
    BY <1>1, <2>2
  <2> QED
    BY <2>1, <2>2, <2>3 DEF WellFormed
<1>3. ASSUME NEW d \in {"AT_MOST_ONE_BASKET", "AT_LEAST_ONE_BASKET"}, NEW c \in Claims,
             NEW e, NEW m, NEW q
      PROVE  WellFormed(Subject(d, e, m, c, q))
  <2>1. PICK item : item = Subject(d, e, m, c, q)
    OBVIOUS
  <2>2. item.detector = d /\ item.claim = c
    BY <1>1, <2>1
  <2> QED
    BY <2>1, <2>2 DEF WellFormed
<1> QED
  BY <1>2, <1>3

LEMMA AgendaIsWellFormed ==
  ASSUME NEW touched \in SUBSET Nat, IsFiniteSet(touched), NEW i \in DOMAIN Agenda(touched)
  PROVE  WellFormed(Agenda(touched)[i])
<1> DEFINE visits == InTurn(Visits(touched))
<1>1. i \in DOMAIN visits /\ Agenda(touched)[i] = Item(visits[i])
  BY DEF Agenda
<1>2. visits[i] \in Visits(touched)
  BY <1>1, VisitsAreFinite, EveryTurnIsTaken
<1>3. ASSUME NEW v \in Visits(touched)
      PROVE  WellFormed(Item(v))
  <2>1. CASE v \in MarketVisits(touched)
    <3>1. v[1] = 1
      <4>1. PICK m \in touched \cap Complement, q \in 1..Quantities : v = <<1, m, 0, q>>
        BY <2>1 DEF MarketVisits
      <4> QED
        BY <4>1
    <3>2. Item(v) = Subject("BINARY_COMPLEMENT", 0, {v[2]}, "", v[4])
      BY <3>1 DEF Item
    <3> QED
      BY <3>2, SubjectsAreWellFormed
  <2>2. CASE v \in BasketVisits(2, touched, NoBaskets)
    <3>1. v[1] = 2
      <4>1. PICK x \in FirstHits(touched, NoBaskets), q \in 1..Quantities : v = <<2, x[1], x[2], q>>
        BY <2>2 DEF BasketVisits
      <4> QED
        BY <4>1
    <3>2. PICK event, members : Item(v) = Subject("AT_MOST_ONE_BASKET", event, members, "AT_MOST_ONE", v[4])
      BY <3>1 DEF Item
    <3> QED
      BY <3>2, SubjectsAreWellFormed DEF Claims
  <2>3. CASE v \in BasketVisits(3, touched, YesBaskets)
    <3>1. v[1] = 3
      <4>1. PICK x \in FirstHits(touched, YesBaskets), q \in 1..Quantities : v = <<3, x[1], x[2], q>>
        BY <2>3 DEF BasketVisits
      <4> QED
        BY <4>1
    <3>2. PICK event, members : Item(v) = Subject("AT_LEAST_ONE_BASKET", event, members, "AT_LEAST_ONE", v[4])
      BY <3>1 DEF Item
    <3> QED
      BY <3>2, SubjectsAreWellFormed DEF Claims
  <2> QED
    BY <2>1, <2>2, <2>3 DEF Visits
<1> HIDE DEF visits
<1> QED
  BY <1>1, <1>2, <1>3

-----------------------------------------------------------------------------
(* One turn.                                                               *)

\* A session has finitely many live markets, so every visit of a trigger has its turn.
Bounded(s) ==
  /\ {"live", "decided"} \subseteq DOMAIN s
  /\ s.live \subseteq Nat /\ IsFiniteSet(s.live)

\* What an observation makes of the live markets.
LEMMA AfterIsBounded ==
  ASSUME NEW s, Bounded(s), NEW o, o.markets \subseteq Nat, IsFiniteSet(o.markets)
  PROVE  /\ \A journalled : /\ Bounded(After(s, o, journalled))
                            /\ After(s, o, journalled).decided = s.decided
         /\ Bounded(After(s, o, TRUE)) /\ After(s, o, TRUE).decided = s.decided
<1>1. PICK seen : seen = IF o.kind \in {"SUBSCRIBED", "FRAME_RECEIVED"} THEN o.markets ELSE {}
  OBVIOUS
<1>2. ASSUME NEW after, after.live = s.live \cup seen, DOMAIN after = DOMAIN s
      PROVE  Bounded(after)
  <2>1. seen \subseteq Nat /\ IsFiniteSet(seen)
    BY <1>1, FS_EmptySet
  <2>2. IsFiniteSet(s.live \cup seen)
    BY <2>1, FS_Union DEF Bounded
  <2> QED
    BY <1>2, <2>1, <2>2 DEF Bounded
<1>3. ASSUME NEW journalled
      PROVE  /\ After(s, o, journalled).live = s.live \cup seen
             /\ DOMAIN After(s, o, journalled) = DOMAIN s
             /\ After(s, o, journalled).decided = s.decided
  BY <1>1 DEF After, Bounded
<1>4. /\ After(s, o, TRUE).live = s.live \cup seen
      /\ DOMAIN After(s, o, TRUE) = DOMAIN s
      /\ After(s, o, TRUE).decided = s.decided
  BY <1>1 DEF After, Bounded
<1> QED
  BY <1>2, <1>3, <1>4

\* And whom it triggers.
LEMMA TriggerIsFinite ==
  ASSUME NEW after, Bounded(after), NEW o, o.markets \subseteq Nat, IsFiniteSet(o.markets)
  PROVE  Triggered(after, o) \in SUBSET Nat /\ IsFiniteSet(Triggered(after, o))
<1>1. IsFiniteSet(after.live \cup o.markets)
  BY FS_Union DEF Bounded
<1>2. Triggered(after, o) \subseteq after.live \cup o.markets
  BY DEF Triggered
<1>3. IsFiniteSet(Triggered(after, o))
  BY <1>1, <1>2, FS_Subset
<1> QED
  BY <1>2, <1>3 DEF Bounded

\* What a turn adds: a batch in turn, each decision of it at the observation's
\* horizon and counted once.
LEMMA TurnIsCounted ==
  ASSUME NEW kb, NEW after, Bounded(after),
         NEW o, o.markets \subseteq Nat, IsFiniteSet(o.markets)
  PROVE  LET outcome == EvaluateAfter(kb, after, o) IN
         /\ IsSeq(outcome.batch)
         /\ \A i \in 1..Len(outcome.batch) : outcome.batch[i].trigger = o.n
         /\ Bounded(outcome.session)
         /\ outcome.session.decided = after.decided + Len(outcome.batch)
<1>1. PICK touched, h, agenda, batch, outcome :
        /\ touched = Triggered(after, o) /\ h = Horizon(o)
        /\ agenda = Agenda(touched)
        /\ batch = [i \in DOMAIN agenda |-> Decision(kb, after, agenda[i], h)]
        /\ outcome = [session |-> [after EXCEPT !.decided = @ + Len(batch)], batch |-> batch]
        /\ EvaluateAfter(kb, after, o) = outcome
  BY DEF EvaluateAfter, Counted, Decisions
<1>2. touched \in SUBSET Nat /\ IsFiniteSet(touched)
  BY <1>1, TriggerIsFinite
<1>3. PICK n \in Nat : DOMAIN agenda = 1..n
  <2>1. Visits(touched) \in SUBSET Places /\ IsFiniteSet(Visits(touched))
    BY <1>2, VisitsAreFinite
  <2>2. /\ Cardinality(Visits(touched)) \in Nat
        /\ DOMAIN InTurn(Visits(touched)) = 1..Cardinality(Visits(touched))
    BY <2>1, EveryTurnIsTaken
  <2> QED
    BY <1>1, <2>2 DEF Agenda
<1>4. IsSeq(batch) /\ Len(batch) = n
  <2>1. batch = [i \in 1..n |-> batch[i]]
    BY <1>1, <1>3
  <2> QED
    BY <1>3, <2>1, FunctionIsSeq
<1>5. ASSUME NEW i \in 1..Len(batch)
      PROVE  batch[i].trigger = o.n
  <2>1. batch[i] = Decision(kb, after, agenda[i], h)
    BY <1>1, <1>3, <1>4
  <2>2. h.n = o.n
    BY <1>1 DEF Horizon
  <2> QED
    BY <2>1, <2>2 DEF Decision, Record
<1>6. Bounded(outcome.session) /\ outcome.session.decided = after.decided + Len(batch)
  <2>1. outcome.session = [after EXCEPT !.decided = @ + Len(batch)]
    BY <1>1
  <2>2. /\ DOMAIN outcome.session = DOMAIN after
        /\ outcome.session.live = after.live
        /\ outcome.session.decided = after.decided + Len(batch)
    BY <2>1 DEF Bounded
  <2> QED
    BY <2>2 DEF Bounded
<1>7. outcome.batch = batch
  BY <1>1
<1> QED
  BY <1>1, <1>4, <1>5, <1>6, <1>7

-----------------------------------------------------------------------------
(* What a settlement block rests on.                                       *)

\* A store has a record for the key, or its registry was consulted about it.
Answered(kb, fact, snapshot, key, subject, h) ==
  Resolve(kb, fact, key, h) # {} \/ Checked(kb, snapshot, Key(subject), h)

LEMMA NothingMissingNothingUnasked ==
  ASSUME NEW kb, NEW m, NEW h, BinaryContext(kb, m, h).missing = {}
  PROVE  Answered(kb, "SETTLEMENT_CERTIFICATE", "SETTLEMENT_REGISTRY_SNAPSHOT", Key(m), m, h)
<1> SUFFICES ASSUME Resolve(kb, "SETTLEMENT_CERTIFICATE", Key(m), h) = {},
                    ~Checked(kb, "SETTLEMENT_REGISTRY_SNAPSHOT", Key(m), h)
             PROVE  FALSE
  BY DEF Answered
<1> DEFINE missing == BinaryContext(kb, m, h).missing
<1>1. <<"settlement", m>> \in missing
  BY DEF BinaryContext, Sources
<1> QED
  BY <1>1

LEMMA BlockMeansAnswered ==
  ASSUME NEW kb, NEW s, NEW item, WellFormed(item), NEW h,
         Decision(kb, s, item, h).verdict = "BLOCKED_SETTLEMENT_SEMANTICS"
  PROVE  /\ \A m \in item.members :
              Answered(kb, "SETTLEMENT_CERTIFICATE", "SETTLEMENT_REGISTRY_SNAPSHOT", Key(m), m, h)
         /\ item.claim # "" =>
              Answered(kb, "RELATION_CERTIFICATE", "RELATION_REGISTRY_SNAPSHOT",
                       RelationIdentity(item.event, item.claim, item.members), item.event, h)
<1> DEFINE context == Context(kb, item, h)
           noBook == item.members \ s.present
<1>1. Verdict(WithBooks(context, noBook)) = "BLOCKED_SETTLEMENT_SEMANTICS"
  BY DEF Decision, Record
<1>2. WithBooks(context, noBook).missing = {}
  BY <1>1 DEF Verdict
<1>3. context.missing = {}
  <2>1. DOMAIN context = {"missing", "absent", "others", "certified", "priced", "used"}
    BY DEF Context, OfMarket, OfBasket
  <2>2. noBook = {}
    <3> SUFFICES ASSUME noBook # {} PROVE FALSE
      OBVIOUS
    <3>1. WithBooks(context, noBook).missing = {<<"book", m>> : m \in noBook}
      BY <2>1 DEF WithBooks
    <3> QED
      BY <1>2, <3>1
  <2> QED
    BY <1>2, <2>2 DEF WithBooks
<1>4. CASE item.detector = "BINARY_COMPLEMENT"
  <2>1. PICK m : item.members = {m} /\ item.claim = ""
    BY <1>4 DEF WellFormed
  <2>2. (CHOOSE k \in item.members : TRUE) = m
    BY <2>1
  <2>3. BinaryContext(kb, m, h).missing = {}
    BY <1>3, <1>4, <2>2 DEF Context, OfMarket
  <2> QED
    BY <2>1, <2>3, NothingMissingNothingUnasked
<1>5. CASE item.detector # "BINARY_COMPLEMENT"
  <2> DEFINE basket == [event |-> item.event, members |-> item.members]
             members == [m \in basket.members |-> BinaryContext(kb, m, h)]
  <2>1. BasketContext(kb, basket, item.claim, h).missing = {}
    BY <1>3, <1>5 DEF Context, OfBasket
  <2>2. RelationMissing(kb, basket, item.claim, h, members) = {}
    BY <2>1 DEF BasketContext
  <2>3. ASSUME NEW m \in item.members
        PROVE  BinaryContext(kb, m, h).missing = {}
    <3>1. members[m] = BinaryContext(kb, m, h)
      OBVIOUS
    <3>2. members[m].missing \subseteq RelationMissing(kb, basket, item.claim, h, members)
      BY DEF RelationMissing
    <3> QED
      BY <2>2, <3>1, <3>2
  <2>4. ~(/\ Resolve(kb, "RELATION_CERTIFICATE",
                     RelationIdentity(item.event, item.claim, item.members), h) = {}
          /\ ~Checked(kb, "RELATION_REGISTRY_SNAPSHOT", Key(item.event), h))
    BY <2>2 DEF RelationMissing
  <2> QED
    BY <2>3, <2>4, NothingMissingNothingUnasked DEF Answered
<1> QED
  BY <1>4, <1>5
=============================================================================
