---------------------------- MODULE Uninterrupted ----------------------------
(***************************************************************************)
(* What the durable collector promises whoever reads its tables: that they *)
(* are those of a single engine that never dies.  Observations are         *)
(* recorded one after another; the engine takes each with no knowledge of  *)
(* any later one; and some of what it decided is stored, each decision     *)
(* under its place among all of them, for good.                            *)
(***************************************************************************)
EXTENDS Integers, FiniteSets

CONSTANTS
  Beginning,        \* the engine before any observation
  Turn(_, _, _)     \* the engine after one more, given all it knows

VARIABLES
  recorded,         \* the observations, n being an observation's number
  stored            \* decisions: [ordinal, record]

vars == <<recorded, stored>>

Init ==
  /\ recorded = {}
  /\ stored = {}

SoFar(n) == {o \in recorded : o.n < n}

\* The engine after the first n observations.
Engine[n \in 0..Cardinality(recorded)] ==
  IF n = 0 THEN Beginning
  ELSE Turn(SoFar(n), Engine[n - 1], CHOOSE o \in SoFar(n) : o.n = n - 1)

Decided == Engine[Cardinality(recorded)].records

Take ==
  /\ \E o \in recorded' \ recorded :
       o.n = Cardinality(recorded) /\ recorded' = recorded \cup {o}
  /\ UNCHANGED stored

Store ==
  /\ stored \subseteq stored'
  /\ \A row \in stored' : row.ordinal \in DOMAIN Decided /\ Decided[row.ordinal] = row.record
  /\ UNCHANGED recorded

Next == Take \/ Store

Spec == Init /\ [][Next]_vars
=============================================================================
