-------------------------- MODULE MCExhaustiveness --------------------------
(****************************************************************************)
(* TLC instance of Membership and Partition, the two questions an           *)
(* exhaustiveness proof asks of a basket: three possible markets of one     *)
(* event, and three members with strikes.  The two share no state, so that  *)
(* each is explored while the other has not begun: the instance has the sum *)
(* of their states and not the product.                                     *)
(*                                                                          *)
(* The unit is half a strike increment: strikes are even, so that the odd   *)
(* values lie strictly between them, and one lies outside the domain.       *)
(****************************************************************************)
EXTENDS Membership, Partition

MCTickers == 1..3

MCValues == -1..7
Bounds == {0, 2, 4}

MCStrikes ==
    [kind : {"greater", "greater_or_equal"}, floor : Bounds, cap : {Unbounded}]
    \cup [kind : {"less", "less_or_equal"}, floor : {Unbounded}, cap : Bounds]
    \cup [kind : {"between"}, floor : Bounds, cap : Bounds]
    \cup [kind : {"functional"}, floor : {Unbounded}, cap : {Unbounded}]
    \cup [kind : {"greater"}, floor : {Unbounded}, cap : {0}]
    \cup [kind : {"greater"}, floor : {6}, cap : {Unbounded}]

\* No domain, continuous bounds, and steps that are missing, asserted by the
\* caller, asserted in evidence or attested: the contract settles on the grid
\* of an attested step only.
MCDomains ==
    {d \in [lower : {Unbounded, 0}, upper : {Unbounded, 4}, step : {Unbounded, 2},
            evidence : {"none", "asserted", "attested"}, evidenceStep : {Unbounded, 2},
            grid : {Unbounded, 2}] :
        /\ d.evidence = "none" => d.evidenceStep = Unbounded
        /\ (d.grid = 2) = (d.evidence = "attested" /\ d.evidenceStep = 2)}

\* One state in which the enumeration has not begun, and one in which no member
\* has been read.
NothingEnumerated == Init /\ cutoff = 0 /\ market = [t \in {1} |-> 0] /\ provisional = {}
NothingRead ==
    /\ PartitionInit
    /\ domain = [lower |-> Unbounded, upper |-> Unbounded, step |-> Unbounded,
                 evidence |-> "none", evidenceStep |-> Unbounded, grid |-> Unbounded]

MCInit == (Init /\ NothingRead) \/ (NothingEnumerated /\ PartitionInit)

MCNext ==
    \/ NothingRead /\ Next /\ UNCHANGED partitionVars
    \/ NothingEnumerated /\ PartitionNext /\ UNCHANGED vars

MCSpec == MCInit /\ [][MCNext]_<<vars, partitionVars>>

=============================================================================
