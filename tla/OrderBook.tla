------------------------------ MODULE OrderBook ------------------------------
(***************************************************************************)
(* One market's book, as books/orderbook.py keeps it: an integrity state,  *)
(* the connection epoch and sid that give it authority, the resting        *)
(* quantities, and the sequence numbers of the frames it derives from.     *)
(*                                                                         *)
(* The code holds two sparse maps, YES and NO bids, price units ->         *)
(* quantity units.  Both are here one total function over Slots, the       *)
(* <<side, price>> points of the ladder, where 0 means "no level": the     *)
(* code pops a level that reaches 0 and never stores a 0.                  *)
(***************************************************************************)
EXTENDS Integers

CONSTANT Slots     \* the <<side, price>> points at which a quantity can rest

ASSUME SlotsAssumption == Slots # {}

Ladder == [Slots -> Nat]
EmptyLadder == [x \in Slots |-> 0]

\* "ABSENT": the reconstructor's dict holds no book for the market.
Integrity ==
  {"ABSENT", "WAITING_SNAPSHOT", "VALID", "INTEGRITY_UNKNOWN", "UNSUBSCRIBED"}

\* Sequence number of a frame that was never seen (None in the code; the venue
\* numbers from 1).
NoSeq == 0

Book(Sids) ==
  [integrity : Integrity, epoch : Nat, sid : Sids, ladder : Ladder,
   snapshotSeq : Nat, latestSeq : Nat]

BookWith(integrity, e, s) ==
  [integrity |-> integrity, epoch |-> e, sid |-> s, ladder |-> EmptyLadder,
   snapshotSeq |-> NoSeq, latestSeq |-> NoSeq]

NoBook(s) == BookWith("ABSENT", 0, s)
Exists(b) == b.integrity # "ABSENT"

\* A book just constructed, or reset for a new epoch: contents are dropped.
ResetForNewEpoch(e, s) == BookWith("WAITING_SNAPSHOT", e, s)

\* Contents are kept for diagnosis; only the integrity state changes.
Invalidate(b) == [b EXCEPT !.integrity = "INTEGRITY_UNKNOWN"]
MarkUnsubscribed(b) == [b EXCEPT !.integrity = "UNSUBSCRIBED"]

\* Wholesale replacement, from any integrity state.  Epoch and sid stay.
ApplySnapshot(b, ladder, seq) ==
  [b EXCEPT !.integrity = "VALID", !.ladder = ladder,
            !.snapshotSeq = seq, !.latestSeq = seq]

\* A delta needs an authoritative base and never takes a quantity below zero.
CanApplyDelta(b, slot, change) ==
  /\ b.integrity = "VALID"
  /\ b.ladder[slot] + change >= 0

ApplyDelta(b, slot, change, seq) ==
  [b EXCEPT !.ladder[slot] = @ + change, !.latestSeq = seq]

\* A frame of the sid that consumed a number and changed no book.
NoteSequencedFrame(b, seq) == [b EXCEPT !.latestSeq = seq]
=============================================================================
