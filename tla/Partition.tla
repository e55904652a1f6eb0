------------------------------ MODULE Partition ------------------------------
(***************************************************************************)
(* Whether a basket's documented strikes leave any value uncovered:        *)
(* semantics/partition.py, as coverage_for_members of                      *)
(* venues/kalshi/exhaustiveness_capture.py drives it, one selected member  *)
(* after the other, and what the answer may then support                   *)
(* (semantics/exhaustiveness.py).                                          *)
(*                                                                         *)
(* Prices and temperatures are whole numbers of a unit fine enough for     *)
(* every strike, step and value under consideration: some value lies       *)
(* between any two strikes.                                                *)
(***************************************************************************)
EXTENDS Integers, Sequences

CONSTANTS
    Values,        \* the values the underlying may be thought to take
    Strikes,       \* the strike fields a member may have
    Domains,       \* the domain bounds a caller may supply
    MaxMembers,    \* bound: the size of the basket
    Unbounded      \* None, for a bound, a step or a strike field

ASSUME PartitionAssumption ==
    /\ Values \subseteq Int /\ Unbounded \notin Int
    /\ \A s \in Strikes :
         /\ DOMAIN s = {"kind", "floor", "cap"}
         /\ {s.floor, s.cap} \subseteq Values \cup {Unbounded}
    /\ \A s, t \in Strikes : \A a \in {s.floor, s.cap}, b \in {t.floor, t.cap} :
         Unbounded \notin {a, b} /\ a < b => \E v \in Values : a < v /\ v < b
    /\ \A d \in Domains :
         /\ DOMAIN d = {"lower", "upper", "step", "evidence", "evidenceStep", "grid"}
         /\ {d.lower, d.upper} \subseteq Values \cup {Unbounded}
         /\ {d.step, d.evidenceStep} \subseteq Int \cup {Unbounded}
         /\ d.grid \in (Nat \ {0}) \cup {Unbounded}
         /\ d.evidence \in {"none", "asserted", "attested"}
    /\ MaxMembers \in Nat

VARIABLES
    intervals,     \* the members read so far, in the order of the selection
    unreadable,    \* some member could not be read as an interval
    domain,        \* the DomainBound the caller supplied
    swept,         \* the positions of the intervals _sweep has passed
    reach          \* where it stands: the lower end of the first interval, how
                   \* far coverage reaches, whether that end is covered, and
                   \* whether it broke, with the domain's step and without one

partitionVars == <<intervals, unreadable, domain, swept, reach>>

-----------------------------------------------------------------------------
(* Reading one strike: interval_from_strike.  *)

NeedsFloor == {"greater", "greater_or_equal", "between"}
NeedsCap == {"less", "less_or_equal", "between"}

\* Kinds without a documented grammar, a missing bound and a floor above the
\* cap raise UnsupportedStrikeError.
Readable(s) ==
    /\ s.kind \in NeedsFloor \cup NeedsCap
    /\ s.kind \in NeedsFloor => s.floor # Unbounded
    /\ s.kind \in NeedsCap => s.cap # Unbounded
    /\ s.kind = "between" => s.floor <= s.cap

IntervalFromStrike(s) ==
    [lower |-> IF s.kind \in NeedsFloor THEN s.floor ELSE Unbounded,
     upper |-> IF s.kind \in NeedsCap THEN s.cap ELSE Unbounded,
     lowerIn |-> s.kind \in {"greater_or_equal", "between"},
     upperIn |-> s.kind \in {"less_or_equal", "between"}]

\* StrikeInterval.contains.
Satisfies(i, v) ==
    /\ i.lower # Unbounded => v > i.lower \/ (v = i.lower /\ i.lowerIn)
    /\ i.upper # Unbounded => v < i.upper \/ (v = i.upper /\ i.upperIn)

-----------------------------------------------------------------------------
(* analyse_coverage.  *)

\* The sort key: unbounded below first, then by lower bound, closed before open.
Precedes(a, b) ==
    IF a.lower = Unbounded \/ b.lower = Unbounded
    THEN a.lower = Unbounded /\ (b.lower # Unbounded \/ (a.lowerIn /\ ~b.lowerIn))
    ELSE a.lower < b.lower \/ (a.lower = b.lower /\ a.lowerIn /\ ~b.lowerIn)

Positions == 1..Len(intervals)

\* sorted() is stable.
SortedBefore(j, k) ==
    \/ Precedes(intervals[j], intervals[k])
    \/ ~Precedes(intervals[k], intervals[j]) /\ j < k
Foremost(k) ==
    k \in Positions \ swept /\ \A j \in (Positions \ swept) \ {k} : SortedBefore(k, j)

\* A mutant of Contiguous: two open ends that meet are taken to be contiguous.
MutOpenEndsMeet(to, toIn, i, step) == i.lower <= to

\* _contiguous: an interval starts where coverage already reaches, or no
\* admissible value lies between.
Contiguous(to, toIn, i, step) ==
    \/ i.lower < to
    \/ i.lower = to /\ (toIn \/ i.lowerIn)
    \/ /\ i.lower > to
       /\ step # Unbounded /\ step > 0
       /\ (IF toIn THEN to + step ELSE to) > (IF i.lowerIn THEN i.lower - step ELSE i.lower)

\* What one more interval adds to the breaks of either sweep.
Breaks(r, i, step) ==
    [r EXCEPT !.gap = r.gap \/ ~Contiguous(r.to, r.in, i, step),
              !.openGap = r.openGap \/ ~Contiguous(r.to, r.in, i, Unbounded)]

\* A mutant of SweepOne: a short interval pulls the reach back.
MutShrinks(r, i, step) ==
    IF r.to = Unbounded THEN r
    ELSE [(IF i.lower = Unbounded THEN r ELSE Breaks(r, i, step)) EXCEPT !.to = i.upper, !.in = i.upperIn]

\* The body of _sweep's loop, for the two sweeps at once: they differ in what
\* is contiguous alone.  Further than unbounded there is nothing.
SweepOne(r, i, step) ==
    CASE r.to = Unbounded -> r
      [] r.to # Unbounded /\ i.lower = Unbounded -> [r EXCEPT !.to = i.upper, !.in = i.upperIn]
      [] OTHER ->
           LET b == Breaks(r, i, step) IN
           IF i.upper = Unbounded THEN [b EXCEPT !.to = Unbounded, !.in = TRUE]
           ELSE IF i.upper > r.to \/ (i.upper = r.to /\ i.upperIn)
                THEN [b EXCEPT !.to = i.upper, !.in = i.upperIn]
                ELSE b

SweepFrom(i) ==
    [from |-> i.lower, to |-> i.upper, in |-> i.upperIn, gap |-> FALSE, openGap |-> FALSE]

\* DomainBound.effective_step and step_is_attested.
EffectiveStep(d) ==
    IF d.evidence # "none" /\ d.evidenceStep # Unbounded THEN d.evidenceStep ELSE d.step
StepIsAttested(d) == d.evidence = "attested"

\* The coverage status, once the sweep is over.
UpperGap ==
    /\ reach.to # Unbounded
    /\ reach.to < domain.upper \/ (reach.to = domain.upper /\ ~reach.in)
LowerGap == reach.from # Unbounded /\ reach.from > domain.lower

Status ==
    CASE intervals = <<>> -> "NOT_APPLICABLE"
      [] intervals # <<>> /\ reach.from # Unbounded /\ domain.lower = Unbounded ->
           "UNBOUNDED_LOWER_TAIL_UNCOVERED"
      [] intervals # <<>> /\ ~(reach.from # Unbounded /\ domain.lower = Unbounded)
         /\ reach.to # Unbounded /\ domain.upper = Unbounded ->
           "UNBOUNDED_UPPER_TAIL_UNCOVERED"
      [] OTHER ->
           IF reach.gap \/ UpperGap \/ LowerGap THEN "GAP"
           ELSE IF EffectiveStep(domain) # Unbounded /\ reach.openGap /\ ~StepIsAttested(domain)
                THEN "GAP_FREE_IF_DOMAIN_DISCRETE"
                ELSE "GAP_FREE"

\* analyse_coverage has returned.
Analysed == swept = Positions

\* IntervalCoverage.supports_exhaustiveness_argument.
Supports == Analysed /\ Status = "GAP_FREE" /\ ~unreadable

-----------------------------------------------------------------------------
PartitionInit ==
    /\ intervals = <<>>
    /\ unreadable = FALSE
    /\ domain \in Domains
    /\ swept = {}
    /\ reach = [from |-> Unbounded, to |-> Unbounded, in |-> FALSE, gap |-> FALSE, openGap |-> FALSE]

\* coverage_for_members reads the next selected member's strike.
ReadMember(s) ==
    /\ swept = {} /\ Len(intervals) < MaxMembers
    /\ IF Readable(s)
       THEN intervals' = Append(intervals, IntervalFromStrike(s)) /\ UNCHANGED unreadable
       ELSE unreadable' = TRUE /\ UNCHANGED intervals
    /\ UNCHANGED <<domain, swept, reach>>

\* The members read, analyse_coverage sorts their intervals and sweeps them,
\* one after the other.
Sweep(k) ==
    /\ Foremost(k)
    /\ reach' = IF swept = {} THEN SweepFrom(intervals[k])
                ELSE SweepOne(reach, intervals[k], EffectiveStep(domain))
    /\ swept' = swept \cup {k}
    /\ UNCHANGED <<intervals, unreadable, domain>>

PartitionNext == (\E s \in Strikes : ReadMember(s)) \/ (\E k \in Positions : Sweep(k))

PartitionSpec == PartitionInit /\ [][PartitionNext]_partitionVars

-----------------------------------------------------------------------------
(* What is true of the underlying.  *)

\* The values the domain really has.  An attested step is the grid the
\* contract settles on; without one every value is possible.
Possible(d) ==
    {v \in Values : /\ d.lower # Unbounded => v >= d.lower
                    /\ d.upper # Unbounded => v <= d.upper
                    /\ d.grid # Unbounded => v % d.grid = 0}

Covered(v) == \E k \in Positions : Satisfies(intervals[k], v)

\* Every strike sits on the grid the contract settles on.
OnGrid ==
    domain.grid # Unbounded =>
        \A k \in Positions :
            /\ intervals[k].lower # Unbounded => intervals[k].lower % domain.grid = 0
            /\ intervals[k].upper # Unbounded => intervals[k].upper % domain.grid = 0

\* An attested step is the grid itself: step_is_attested only asks for attested
\* evidence, which may say nothing of the step the caller supplied.
StepIsTheGrid == StepIsAttested(domain) => EffectiveStep(domain) = domain.grid

\* Support for an AT_LEAST_ONE argument means that every possible value above
\* the domain's lowest one satisfies a member, as long as the strikes sit on
\* the attested grid.  No such restriction is in the code's own promise.
SupportMeansCovered ==
    Supports /\ OnGrid /\ StepIsTheGrid =>
        \A v \in Possible(domain) : v # domain.lower => Covered(v)

\* The strikes lie in the domain, and one of them at most is unbounded below.
StrikesInDomain ==
    \A k \in Positions : \A b \in {intervals[k].lower, intervals[k].upper} \ {Unbounded} :
        /\ domain.lower # Unbounded => b >= domain.lower
        /\ domain.upper # Unbounded => b <= domain.upper
OneUnboundedBelow ==
    \A j, k \in Positions :
        intervals[j].lower = Unbounded /\ intervals[k].lower = Unbounded => j = k

\* A reported GAP "is a direct ALL-NO path": some value of the domain satisfies
\* no member, when no step was given.  A second strike that is unbounded below
\* makes the code report gaps that are not there, and so do strikes outside
\* the domain.
GapIsReal ==
    /\ Analysed /\ Status = "GAP"
    /\ EffectiveStep(domain) = Unbounded
    /\ StrikesInDomain /\ OneUnboundedBelow
    => \E v \in Possible([domain EXCEPT !.grid = Unbounded]) : ~Covered(v)

-----------------------------------------------------------------------------
(* What the code says of its answers and does not keep: TLC refutes both.  *)

\* GAP_FREE: "every value in the established domain satisfies at least one
\* member".  The lower edge is not asked whether it is closed, the upper one is.
GapFreeCoversTheDomain ==
    Supports /\ OnGrid /\ StepIsTheGrid => \A v \in Possible(domain) : Covered(v)

\* GAP: "at least one value satisfies no member".  The loop of _sweep lets an
\* interval that is unbounded below replace what coverage had reached.
GapNamesAValue ==
    /\ Analysed /\ Status = "GAP"
    /\ EffectiveStep(domain) = Unbounded /\ StrikesInDomain
    => \E v \in Possible([domain EXCEPT !.grid = Unbounded]) : ~Covered(v)

=============================================================================
