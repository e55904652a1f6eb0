------------------------ MODULE Reconstruction_proofs ------------------------
(***************************************************************************)
(* Theorems about Reconstruction and about Collector, for every set of     *)
(* markets, sids and slots, every recovery policy and every bound.         *)
(***************************************************************************)
EXTENDS CollectorInvariant, SequenceTheorems, TLAPS

-----------------------------------------------------------------------------
(* Types.                                                                  *)

\* Every mutation of a book yields a book.
LEMMA BookOperators ==
  ASSUME NEW b \in Book(Sids), NEW e \in Nat, NEW s \in Sids,
         NEW ladder \in Ladder, NEW q \in Nat
  PROVE  /\ BookWith("ABSENT", e, s) \in Book(Sids)
         /\ ResetForNewEpoch(e, s) \in Book(Sids)
         /\ Invalidate(b) \in Book(Sids)
         /\ MarkUnsubscribed(b) \in Book(Sids)
         /\ NoteSequencedFrame(b, q) \in Book(Sids)
         /\ ApplySnapshot(b, ladder, q) \in Book(Sids)
<1>1. EmptyLadder \in Ladder
  BY DEF EmptyLadder, Ladder
<1> QED
  BY <1>1 DEF Book, Integrity, BookWith, ResetForNewEpoch, Invalidate,
     MarkUnsubscribed, NoteSequencedFrame, ApplySnapshot, NoSeq

\* A delta that passes the check leaves a ladder of natural numbers.
LEMMA DeltaTyping ==
  ASSUME NEW b \in Book(Sids), NEW x \in Slots, NEW d \in Int, NEW q \in Nat,
         CanApplyDelta(b, x, d)
  PROVE  ApplyDelta(b, x, d, q) \in Book(Sids)
<1>1. b.ladder \in Ladder
  BY DEF Book
<1>2. [b.ladder EXCEPT ![x] = @ + d] \in Ladder
  BY <1>1 DEF Ladder, CanApplyDelta
<1> QED
  BY <1>2 DEF ApplyDelta, Book

LEMMA RoutedBookTyping ==
  ASSUME TypeOK, NEW s \in Sids, NEW i \in Nat, NEW f \in Frame, NEW m \in Markets
  PROVE  RoutedBook(s, i, f, m) \in Book(Sids)
<1> DEFINE b == books[m]
<1>1. b \in Book(Sids) /\ epoch \in Nat
  BY DEF TypeOK
<1>2. /\ f.truth[m] \in Ladder
      /\ f.slot \in Slots /\ f.change \in Int
  BY DEF Frame
<1>3. /\ Invalidate(b) \in Book(Sids)
      /\ MarkUnsubscribed(b) \in Book(Sids)
      /\ ResetForNewEpoch(epoch, s) \in Book(Sids)
  BY <1>1, <1>2, BookOperators
<1>4. BookFor(s, m) \in Book(Sids)
  BY <1>1, <1>3 DEF BookFor
<1>5. SnapshotBook(s, i, f, m) \in Book(Sids)
  BY <1>1, <1>2, <1>4, BookOperators DEF SnapshotBook
<1>6. DeltaBook(s, i, f, m) \in Book(Sids)
  <2>1. CASE m \notin f.about
    BY <1>1, <2>1 DEF DeltaBook
  <2>2. CASE m \in f.about /\ CanApplyDelta(BookFor(s, m), f.slot, f.change)
    BY <1>2, <1>4, <2>2, DeltaTyping DEF DeltaBook
  <2>3. CASE m \in f.about /\ ~CanApplyDelta(BookFor(s, m), f.slot, f.change)
    BY <1>1, <1>2, <1>4, <2>3, BookOperators DEF DeltaBook
  <2> QED
    BY <2>1, <2>2, <2>3
<1>7. Invalidate(BookFor(s, m)) \in Book(Sids)
  BY <1>1, <1>2, <1>4, BookOperators
<1>8. FailBook(b) \in Book(Sids)
  BY <1>1, <1>3 DEF FailBook
<1>9. InvalidateSidBook(s, m) \in Book(Sids)
  BY <1>1, <1>3 DEF InvalidateSidBook
<1>10. ASSUME NEW c \in Book(Sids), NEW members
       PROVE  ControlBook(s, i, members, m, c) \in Book(Sids)
  <2>1. NoteSequencedFrame(c, i) \in Book(Sids)
    BY <1>1, <1>2, BookOperators
  <2> QED
    BY <2>1 DEF ControlBook
<1>11. MembershipBook(s, f, m) \in Book(Sids)
  BY <1>1, <1>3 DEF MembershipBook
<1>12. UnknownBook(s, m) \in Book(Sids)
  BY <1>1, <1>9 DEF UnknownBook
<1> QED
  BY <1>1, <1>5, <1>6, <1>7, <1>8, <1>9, <1>10, <1>11, <1>12
  DEF RoutedBook, Frame, FrameKinds

LEMMA RegisterTyping ==
  ASSUME TypeOK, NEW s \in Sids, NEW channel \in Channels,
         NEW markets \in SUBSET Markets
  PROVE  Register(s, channel, markets) \in Subscription
BY DEF TypeOK, Register, Subscription, Unregistered, Channels, NoSeq

LEMMA BeginStreamingTyping ==
  ASSUME TypeOK, NEW markets \in SUBSET Markets, BeginStreaming(markets)
  PROVE  truth' \in [Markets -> Ladder]
<1>1. PICK held \in [markets -> [Slots -> 0..MaxQuantity]] :
        truth' = [m \in Markets |->
                    IF m \in markets THEN held[m]
                    ELSE IF m \in carried' THEN truth[m] ELSE EmptyLadder]
  BY DEF BeginStreaming
<1>2. \A m \in markets : held[m] \in Ladder
  BY ConstantsAssumption DEF Ladder
<1>3. EmptyLadder \in Ladder /\ \A m \in Markets : truth[m] \in Ladder
  BY DEF TypeOK, EmptyLadder, Ladder
<1> QED
  BY <1>1, <1>2, <1>3

LEMMA SendTyping ==
  ASSUME TypeOK, NEW s \in Sids, NEW kind \in FrameKinds,
         NEW about \in SUBSET Markets, NEW slot \in Slots, NEW change \in Int,
         truth' \in [Markets -> Ladder], carried' \in SUBSET Markets,
         Send(s, kind, about, slot, change)
  PROVE  TypeOK'
<1> DEFINE f == [kind |-> kind, about |-> about, slot |-> slot, change |-> change,
                 members |-> carried' \cap MarketsOf(s), truth |-> truth']
<1>1. f \in Frame
  BY DEF Frame, MarketsOf
<1>2. log[s] \in Seq(Frame) /\ log' = [log EXCEPT ![s] = Append(log[s], f)]
  BY DEF TypeOK, Send
<1>3. Append(log[s], f) \in Seq(Frame)
  BY <1>1, <1>2
<1>4. log' \in [Sids -> Seq(Frame)]
  BY <1>2, <1>3 DEF TypeOK
<1> QED
  BY <1>4 DEF TypeOK, Send, clientVars

LEMMA InitTyping == Init => TypeOK
<1> SUFFICES ASSUME Init PROVE TypeOK
  OBVIOUS
<1>1. EmptyLadder \in Ladder
  BY DEF EmptyLadder, Ladder
<1>2. \A s \in Sids : Unregistered \in Subscription
  BY DEF Unregistered, Subscription, Channels, NoSeq
<1>3. \A m \in Markets : NoBook(SidOf[m]) \in Book(Sids)
  BY <1>1, ConstantsAssumption DEF NoBook, BookWith, Book, Integrity, NoSeq
<1> QED
  BY <1>1, <1>2, <1>3 DEF Init, TypeOK, NoEpoch

LEMMA ConnectionTyping ==
  TypeOK /\ (OpenConnection \/ CloseConnection) => TypeOK'
<1> SUFFICES ASSUME TypeOK, OpenConnection \/ CloseConnection PROVE TypeOK'
  OBVIOUS
<1>1. EmptyLadder \in Ladder
  BY DEF EmptyLadder, Ladder
<1>2. Unregistered \in Subscription
  BY DEF Unregistered, Subscription, Channels, NoSeq
<1>3. CASE OpenConnection
  BY <1>1, <1>2, <1>3 DEF TypeOK, OpenConnection
<1>4. CASE CloseConnection
  <2>1. \A m \in Markets : InvalidateEpochBook(m) \in Book(Sids)
    BY DEF TypeOK, InvalidateEpochBook, Invalidate, Book, Integrity
  <2> QED
    BY <1>1, <1>2, <1>4, <2>1 DEF TypeOK, CloseConnection, NoEpoch
<1> QED
  BY <1>3, <1>4

LEMMA NoteSubscribedTyping ==
  ASSUME TypeOK, NEW s \in Sids, NEW markets \in SUBSET MarketsOf(s),
         NoteSubscribed(s, markets)
  PROVE  TypeOK'
<1>1. markets \in SUBSET Markets /\ ChannelOf[s] \in Channels
  BY ConstantsAssumption DEF MarketsOf, Channels
<1>2. Register(s, ChannelOf[s], markets) \in Subscription
  BY <1>1, RegisterTyping
<1>3. ResetForNewEpoch(epoch, s) \in Book(Sids)
  BY DEF TypeOK, ResetForNewEpoch, BookWith, Book, Integrity, NoSeq, EmptyLadder, Ladder
<1>4. truth' \in [Markets -> Ladder]
  BY <1>1, BeginStreamingTyping DEF NoteSubscribed
<1>5. subs' \in [Sids -> Subscription] /\ books' \in [Markets -> Book(Sids)]
  BY <1>2, <1>3 DEF TypeOK, NoteSubscribed
<1>6. carried' \in SUBSET Markets
  BY <1>1 DEF TypeOK, NoteSubscribed
<1> QED
  BY <1>4, <1>5, <1>6 DEF TypeOK, NoteSubscribed

LEMMA JournalFailureTyping ==
  ASSUME TypeOK, JournalFailure
  PROVE  /\ subs' \in [Sids -> Subscription]
         /\ books' \in [Markets -> Book(Sids)]
         /\ journalHealthy' \in BOOLEAN
         /\ journal' \in [Sids -> SUBSET Nat]
<1>1. \A m \in Markets : InvalidateEpochBook(m) \in Book(Sids)
  BY DEF TypeOK, InvalidateEpochBook, Invalidate, Book, Integrity
<1> QED
  BY <1>1 DEF TypeOK, JournalFailure

LEMMA ReceiveTyping ==
  ASSUME TypeOK, NEW s \in Sids, NEW i \in 1..Len(log[s]), Receive(s, i)
  PROVE  TypeOK'
<1> DEFINE f == log[s][i]
<1>1. f \in Frame /\ i \in Nat
  BY DEF TypeOK
<1>2. UNCHANGED <<epoch, nextEpoch, log, truth, carried>> /\ liveness' = "HEALTHY"
  BY DEF Receive
<1>3. Register(s, "unknown", {}) \in Subscription
  BY RegisterTyping DEF Channels
<1>4. CASE JournalFailure
  BY <1>2, <1>4, JournalFailureTyping DEF TypeOK
<1>5. CASE Journalled /\ UnparsedFrame(f)
  BY <1>2, <1>5 DEF TypeOK, Journalled, UnparsedFrame
<1>6. CASE Journalled /\ RefuseFrame(s, i, f)
  <2>1. \A m \in Markets : InvalidateSidBook(s, m) \in Book(Sids)
    BY DEF TypeOK, InvalidateSidBook, Invalidate, Book, Integrity
  <2>2. [Register(s, "unknown", {}) EXCEPT !.violated = TRUE] \in Subscription
    BY <1>3 DEF Subscription
  <2> QED
    BY <1>2, <1>6, <2>1, <2>2 DEF TypeOK, Journalled, RefuseFrame
<1>7. CASE /\ Journalled
           /\ AcceptFrame(s, i, f)
           /\ journal' = Recorded(s, i)
  <2>1. \A m \in Markets : RoutedBook(s, i, f, m) \in Book(Sids)
    BY <1>1, RoutedBookTyping
  <2>2. f.members \in SUBSET Markets
    BY <1>1 DEF Frame
  <2>3. [Register(s, "unknown", {}) EXCEPT
           !.last = i,
           !.markets = IF f.kind = "ok" THEN f.members ELSE @] \in Subscription
    BY <1>1, <1>3, <2>2 DEF Subscription
  <2>4. journal' \in [Sids -> SUBSET Nat]
    BY <1>1, <1>7 DEF TypeOK, Recorded
  <2> QED
    BY <1>2, <1>7, <2>1, <2>3, <2>4 DEF TypeOK, Journalled, AcceptFrame
<1> QED
  BY <1>4, <1>5, <1>6, <1>7 DEF Receive

LEMMA QuietTyping ==
  TypeOK /\ (ReceiveUnsequenced \/ RecordTransportSignal \/ FallSilent) => TypeOK'
BY JournalFailureTyping
DEF TypeOK, ReceiveUnsequenced, RecordTransportSignal, FallSilent

LEMMA VenueTyping == TypeOK /\ Venue => TypeOK'
<1> SUFFICES ASSUME TypeOK, Venue PROVE TypeOK'
  OBVIOUS
<1>1. AnySlot \in Slots
  BY SlotsAssumption DEF AnySlot
<1>2. SidOf \in [Markets -> Sids] /\ MaxQuantity \in Nat
  BY ConstantsAssumption
<1>3. CASE \E m \in Markets : VenueSnapshot(m)
  <2>1. PICK m \in Markets : VenueSnapshot(m)
    BY <1>3
  <2>2. "snapshot" \in FrameKinds /\ {m} \in SUBSET Markets
    BY DEF FrameKinds
  <2>3. truth' \in [Markets -> Ladder] /\ carried' \in SUBSET Markets
    BY <2>1 DEF VenueSnapshot, TypeOK
  <2>4. Send(SidOf[m], "snapshot", {m}, AnySlot, 0)
    BY <2>1 DEF VenueSnapshot
  <2> QED
    BY <1>1, <1>2, <2>2, <2>3, <2>4, SendTyping
<1>4. CASE \E m \in Markets, x \in Slots, d \in -MaxQuantity..MaxQuantity :
             d # 0 /\ VenueDelta(m, x, d)
  <2>1. PICK m \in Markets, x \in Slots, d \in -MaxQuantity..MaxQuantity :
          VenueDelta(m, x, d)
    BY <1>4
  <2>2. "delta" \in FrameKinds /\ {m} \in SUBSET Markets /\ d \in Int
    BY <1>2 DEF FrameKinds
  <2>3. truth[m] \in Ladder /\ truth[m][x] + d \in Int
    BY <2>2 DEF TypeOK, Ladder
  <2>4. truth' \in [Markets -> Ladder]
    <3>1. CASE truth[m][x] + d >= 0
      <4>1. [truth[m] EXCEPT ![x] = truth[m][x] + d] \in Ladder
        BY <2>3, <3>1 DEF Ladder
      <4> QED
        BY <2>1, <3>1, <4>1 DEF VenueDelta, TypeOK
    <3>2. CASE ~(truth[m][x] + d >= 0)
      BY <2>1, <3>2 DEF VenueDelta, TypeOK
    <3> QED
      BY <3>1, <3>2
  <2>5. carried' \in SUBSET Markets /\ Send(SidOf[m], "delta", {m}, x, d)
    BY <2>1 DEF VenueDelta, TypeOK
  <2> QED
    BY <1>2, <2>2, <2>4, <2>5, SendTyping
<1>5. CASE \E m \in Markets, x \in Slots, quantity \in 0..MaxQuantity,
              kind \in FrameKinds : VenueUnreadable(m, x, quantity, kind)
  <2>1. PICK m \in Markets, x \in Slots, quantity \in 0..MaxQuantity,
             kind \in FrameKinds : VenueUnreadable(m, x, quantity, kind)
    BY <1>5
  <2>2. truth' \in [Markets -> Ladder] /\ carried' \in SUBSET Markets
    BY <1>2, <2>1 DEF VenueUnreadable, TypeOK, Ladder
  <2>3. \/ Send(SidOf[m], kind, {m}, AnySlot, 0)
        \/ Send(SidOf[m], kind, {}, AnySlot, 0)
    BY <2>1 DEF VenueUnreadable
  <2>4. {m} \in SUBSET Markets /\ {} \in SUBSET Markets /\ 0 \in Int
    OBVIOUS
  <2> QED
    BY <1>1, <1>2, <2>2, <2>3, <2>4, SendTyping
<1>6. CASE \E s \in Sids : \E members \in SUBSET MarketsOf(s) :
             VenueMembership(s, members)
  <2> PICK s \in Sids : \E members \in SUBSET MarketsOf(s) :
          VenueMembership(s, members)
    BY <1>6
  <2>1. PICK members \in SUBSET MarketsOf(s) : VenueMembership(s, members)
    OBVIOUS
  <2>2. members \ carried \in SUBSET Markets /\ carried' \in SUBSET Markets
    BY <2>1 DEF VenueMembership, MarketsOf, TypeOK
  <2>3. truth' \in [Markets -> Ladder]
    BY <2>1, <2>2, BeginStreamingTyping DEF VenueMembership
  <2>4. "ok" \in FrameKinds
    BY DEF FrameKinds
  <2> QED
    BY <1>1, <2>1, <2>2, <2>3, <2>4, SendTyping DEF VenueMembership
<1>7. CASE \E s \in Sids, kind \in {"control", "unknown"} : VenueOther(s, kind)
  <2>1. PICK s \in Sids, kind \in {"control", "unknown"} : VenueOther(s, kind)
    BY <1>7
  <2>2. kind \in FrameKinds
    BY DEF FrameKinds
  <2>3. truth' \in [Markets -> Ladder] /\ carried' \in SUBSET Markets
    BY <2>1 DEF VenueOther, TypeOK
  <2> QED
    BY <1>1, <2>1, <2>2, <2>3, SendTyping DEF VenueOther
<1> QED
  BY <1>3, <1>4, <1>5, <1>6, <1>7 DEF Venue

\* Every reachable state is well typed: in particular no delta ever takes a level
\* of a book below zero (apply_delta's check), whatever the frames say.
THEOREM TypeCorrect == Spec => []TypeOK
<1>1. TypeOK /\ [Next]_vars => TypeOK'
  <2> SUFFICES ASSUME TypeOK, [Next]_vars PROVE TypeOK'
    OBVIOUS
  <2>1. CASE OpenConnection \/ CloseConnection
    BY <2>1, ConnectionTyping
  <2>2. CASE \E s \in Sids : \E markets \in SUBSET MarketsOf(s) :
               NoteSubscribed(s, markets)
    BY <2>2, NoteSubscribedTyping
  <2>3. CASE \E s \in Sids : \E i \in 1..Len(log[s]) : Receive(s, i)
    BY <2>3, ReceiveTyping
  <2>4. CASE ReceiveUnsequenced \/ RecordTransportSignal \/ FallSilent
    BY <2>4, QuietTyping
  <2>5. CASE Venue
    BY <2>5, VenueTyping
  <2>6. CASE UNCHANGED vars
    BY <2>6 DEF TypeOK, vars
  <2> QED
    BY <2>1, <2>2, <2>3, <2>4, <2>5, <2>6 DEF Next, Client
<1> QED
  BY InitTyping, <1>1, PTL DEF Spec

-----------------------------------------------------------------------------
(* What one frame does to a book.                                          *)

LEMMA LogTyping ==
  ASSUME TypeOK, NEW s \in Sids, NEW i \in 1..Len(log[s])
  PROVE  log[s][i] \in Frame /\ log[s][i].kind \in FrameKinds /\ i \in Nat
<1>1. log[s][i] \in Frame /\ i \in Nat
  BY DEF TypeOK
<1> QED
  BY <1>1 DEF Frame

\* The handler of each kind of frame.
LEMMA Routing ==
  ASSUME NEW s, NEW i, NEW f, NEW m, f.kind \in FrameKinds \ {"unparsed"}
  PROVE  /\ f.kind = "snapshot" => RoutedBook(s, i, f, m) = SnapshotBook(s, i, f, m)
         /\ f.kind = "badsnapshot" =>
              RoutedBook(s, i, f, m) =
                IF m \in f.about THEN Invalidate(BookFor(s, m)) ELSE books[m]
         /\ f.kind = "delta" => RoutedBook(s, i, f, m) = DeltaBook(s, i, f, m)
         /\ f.kind = "malformed" =>
              RoutedBook(s, i, f, m) =
                IF m \in f.about THEN FailBook(books[m]) ELSE books[m]
         /\ f.kind = "anonymous" => RoutedBook(s, i, f, m) = InvalidateSidBook(s, m)
         /\ f.kind = "ok" =>
              RoutedBook(s, i, f, m) =
                ControlBook(s, i, f.members, m, MembershipBook(s, f, m))
         /\ f.kind = "control" =>
              RoutedBook(s, i, f, m) = ControlBook(s, i, subs[s].markets, m, books[m])
         /\ f.kind = "unknown" => RoutedBook(s, i, f, m) = UnknownBook(s, m)
BY DEF RoutedBook, FrameKinds

\* A frame of one sid leaves the books of every other sid alone.
LEMMA OtherSid ==
  ASSUME IndInv, NEW s \in Sids, NEW i \in 1..Len(log[s]), NEW m \in Markets,
         SidOf[m] # s, log[s][i].kind # "unparsed"
  PROVE  /\ RoutedBook(s, i, log[s][i], m) = books[m]
         /\ InvalidateSidBook(s, m) = books[m]
<1> DEFINE f == log[s][i]
<1>1. f.kind \in FrameKinds \ {"unparsed"}
  BY LogTyping DEF IndInv
<1>2. books[m].sid # s
  BY DEF IndInv, OwnSid
<1>3. m \notin f.about /\ m \notin f.members /\ m \notin subs[s].markets
  BY DEF IndInv, OwnMarkets, MarketsOf
<1>4. m \notin MarketsForSid(s, f.members) /\ m \notin MarketsForSid(s, subs[s].markets)
  BY <1>2, <1>3 DEF MarketsForSid
<1>5. InvalidateSidBook(s, m) = books[m]
  BY <1>4 DEF InvalidateSidBook
<1>6. UnknownBook(s, m) = books[m]
  BY <1>5 DEF UnknownBook
<1>7. SnapshotBook(s, i, f, m) = books[m] /\ DeltaBook(s, i, f, m) = books[m]
  BY <1>3 DEF SnapshotBook, DeltaBook
<1>8. /\ ControlBook(s, i, f.members, m, MembershipBook(s, f, m)) = books[m]
      /\ ControlBook(s, i, subs[s].markets, m, books[m]) = books[m]
  BY <1>3, <1>4 DEF ControlBook, MembershipBook
<1> QED
  BY <1>1, <1>3, <1>5, <1>6, <1>7, <1>8, Routing DEF FrameKinds

\* No frame moves a book to another sid or to a future connection.
LEMMA RoutedBookOwner ==
  ASSUME IndInv, NEW s \in Sids, NEW i \in 1..Len(log[s]), NEW m \in Markets,
         log[s][i].kind # "unparsed"
  PROVE  /\ RoutedBook(s, i, log[s][i], m).sid = SidOf[m]
         /\ RoutedBook(s, i, log[s][i], m).epoch < nextEpoch
<1> DEFINE f == log[s][i]
           Owned(b) == b.sid = SidOf[m] /\ b.epoch < nextEpoch
<1>1. f \in Frame /\ f.kind \in FrameKinds \ {"unparsed"} /\ i \in Nat
  BY LogTyping DEF IndInv
<1>2. books[m] \in Book(Sids) /\ Owned(books[m]) /\ epoch \in Nat /\ epoch < nextEpoch
  BY DEF IndInv, TypeOK, OwnSid
<1>3. CASE SidOf[m] # s
  BY <1>2, <1>3, OtherSid
<1>4. CASE SidOf[m] = s
  <2>1. Owned(ResetForNewEpoch(epoch, s))
    BY <1>2, <1>4 DEF ResetForNewEpoch, BookWith
  <2>2. Owned(BookFor(s, m)) /\ BookFor(s, m) \in Book(Sids)
    BY <1>2, <2>1, BookOperators, <1>1 DEF BookFor, Frame
  <2>3. ASSUME NEW b \in Book(Sids), Owned(b)
        PROVE  /\ Owned(Invalidate(b)) /\ Owned(MarkUnsubscribed(b))
               /\ Owned(NoteSequencedFrame(b, i))
               /\ Owned(ApplySnapshot(b, f.truth[m], i))
               /\ Owned(ApplyDelta(b, f.slot, f.change, i))
    BY <2>3 DEF Book, Invalidate, MarkUnsubscribed, NoteSequencedFrame,
       ApplySnapshot, ApplyDelta
  <2>4. Owned(SnapshotBook(s, i, f, m)) /\ Owned(DeltaBook(s, i, f, m))
    BY <1>2, <2>2, <2>3 DEF SnapshotBook, DeltaBook
  <2>5. Owned(InvalidateSidBook(s, m)) /\ Owned(UnknownBook(s, m))
    BY <1>2, <2>3 DEF InvalidateSidBook, UnknownBook
  <2>6. Owned(FailBook(books[m])) /\ Owned(Invalidate(BookFor(s, m)))
    BY <1>2, <2>2, <2>3 DEF FailBook
  <2>7. Owned(MembershipBook(s, f, m)) /\ MembershipBook(s, f, m) \in Book(Sids)
    BY <1>1, <1>2, <2>1, <2>3, BookOperators DEF MembershipBook, Frame
  <2>8. /\ Owned(ControlBook(s, i, f.members, m, MembershipBook(s, f, m)))
        /\ Owned(ControlBook(s, i, subs[s].markets, m, books[m]))
    BY <1>2, <2>3, <2>7 DEF ControlBook
  <2> QED
    BY <1>1, <1>2, <2>4, <2>5, <2>6, <2>8, Routing DEF FrameKinds
<1> QED
  BY <1>3, <1>4

\* An accepted frame keeps a member's book in step with the stream: afterwards the
\* book, if it is valid, is the venue's as of this frame, and it rests on this very
\* snapshot or carries on from a book that was current one number earlier.
LEMMA AcceptedFrame ==
  ASSUME IndInv, Connected, NEW m \in Markets, NEW s \in Sids, s = SidOf[m],
         NEW i \in 1..Len(log[s]), InSequence(s, i),
         NEW f, f = log[s][i], f.kind # "unparsed",
         NEW b, b = RoutedBook(s, i, f, m),
         b.integrity = "VALID", b.epoch = epoch,
         m \in IF f.kind = "ok" THEN f.members ELSE subs[s].markets
  PROVE  /\ b.ladder = f.truth[m] /\ m \in f.members
         /\ \/ b.snapshotSeq = i
            \/ /\ Current(m) /\ i = subs[s].last + 1
               /\ b.snapshotSeq = books[m].snapshotSeq
<1> DEFINE n == subs[s].last
           g == log[s][n]
<1>1. /\ ChannelOf[s] = "orderbook_delta"
      /\ f \in Frame /\ f.kind \in FrameKinds \ {"unparsed"}
      /\ i \in Nat /\ TypeOK
  BY LogTyping, ConstantsAssumption DEF IndInv
<1>2. books[m] \in Book(Sids) /\ subs[s] \in Subscription /\ n \in Nat
  BY <1>1 DEF TypeOK, Subscription
<1>3. subs[s].known /\ subs[s].channel = "orderbook_delta"
  BY <1>1 DEF IndInv, Acknowledged
<1>4. f.about \subseteq f.members
  BY DEF IndInv, OwnMarkets
\* A book that was current is linked to this frame by the frame before it.
<1>5. ASSUME Current(m)
      PROVE  /\ i = n + 1 /\ g \in Frame /\ m \in g.members
             /\ books[m].ladder = g.truth[m]
             /\ Follows(g, f)
  <2>1. n \in 1..Len(log[s]) /\ m \in g.members /\ books[m].ladder = g.truth[m]
    BY <1>5 DEF IndInv, Synchronised, InSequence
  <2>2. i = n + 1
    BY <2>1 DEF InSequence, NoSeq
  <2>3. n \in 1..(Len(log[s]) - 1) /\ g \in Frame
    <3>1. log[s] \in Seq(Frame) /\ Len(log[s]) \in Nat
      BY <1>1 DEF TypeOK
    <3>2. n + 1 <= Len(log[s]) /\ 1 <= n
      BY <1>2, <2>1, <2>2, <3>1
    <3>3. log[s][n] \in Frame
      BY <2>1, <3>1
    <3> QED
      BY <1>2, <3>1, <3>2, <3>3
  <2>4. Follows(g, f)
    BY <1>1, <2>2, <2>3 DEF IndInv, StreamsFollow
  <2> QED
    BY <2>1, <2>2, <2>3, <2>4
\* A frame that says nothing about m leaves a current book as it should be.
<1>6. ASSUME Current(m), m \in f.members,
             f.kind \in {"snapshot", "control", "ok"} \/ m \notin f.about,
             f.kind \notin {"anonymous", "unknown"},
             b.ladder = books[m].ladder, b.snapshotSeq = books[m].snapshotSeq
      PROVE  b.ladder = f.truth[m] /\ i = n + 1
  BY <1>1, <1>5, <1>6 DEF Follows
<1>7. f.kind # "ok" /\ Current(m) => m \in f.members
  BY <1>5 DEF Follows
<1>8. b = books[m] /\ f.kind # "ok" => Current(m)
  BY DEF Current
\* An invalidated book is not valid.
<1>9. ASSUME NEW c \in Book(Sids) PROVE b # Invalidate(c)
  BY <1>9 DEF Invalidate, Book
<1>10. BookFor(s, m) \in Book(Sids) /\ b # ResetForNewEpoch(epoch, s)
  <2>1. epoch \in Nat /\ f.truth[m] \in Ladder
    BY <1>1 DEF Frame, TypeOK
  <2>2. ResetForNewEpoch(epoch, s) \in Book(Sids)
    BY <1>1, <1>2, <2>1, BookOperators
  <2>3. b # ResetForNewEpoch(epoch, s)
    BY DEF ResetForNewEpoch, BookWith
  <2> QED
    BY <1>2, <2>2, <2>3 DEF BookFor
<1>11. b # InvalidateSidBook(s, m) \/ m \notin subs[s].markets
  BY <1>2, <1>9 DEF InvalidateSidBook, MarketsForSid
<1>12. CASE f.kind = "snapshot"
  <2>1. b = SnapshotBook(s, i, f, m)
    BY <1>1, <1>12, Routing
  <2>2. CASE m \in f.about
    <3>1. b = ApplySnapshot(BookFor(s, m), f.truth[m], i)
      BY <2>1, <2>2 DEF SnapshotBook
    <3> QED
      BY <1>4, <1>10, <2>2, <3>1 DEF ApplySnapshot, Book
  <2>3. CASE m \notin f.about
    BY <1>6, <1>7, <1>8, <1>12, <2>1, <2>3 DEF SnapshotBook
  <2> QED
    BY <2>2, <2>3
<1>13. CASE f.kind = "delta"
  <2>1. b = DeltaBook(s, i, f, m)
    BY <1>1, <1>13, Routing
  <2>2. CASE m \in f.about
    <3>1. CanApplyDelta(BookFor(s, m), f.slot, f.change)
      BY <1>9, <1>10, <2>1, <2>2 DEF DeltaBook
    <3>2. BookFor(s, m) = books[m]
      BY <3>1 DEF BookFor, CanApplyDelta, ResetForNewEpoch, BookWith
    <3>3. b = ApplyDelta(books[m], f.slot, f.change, i)
      BY <2>1, <2>2, <3>1, <3>2 DEF DeltaBook
    <3>4. /\ books[m].integrity = "VALID" /\ books[m].epoch = b.epoch
          /\ b.snapshotSeq = books[m].snapshotSeq
          /\ b.ladder = [books[m].ladder EXCEPT ![f.slot] = @ + f.change]
      BY <1>2, <3>1, <3>2, <3>3 DEF ApplyDelta, CanApplyDelta, Book
    <3>5. Current(m)
      BY <1>13, <3>4 DEF Current
    <3>6. f.truth[m] = [g.truth[m] EXCEPT ![f.slot] = @ + f.change]
      <4>1. books[m].ladder = g.truth[m] /\ m \in g.members /\ Follows(g, f)
        BY <1>5, <3>5
      <4>2. g.truth[m][f.slot] + f.change >= 0
        BY <3>1, <3>2, <4>1 DEF CanApplyDelta
      <4> QED
        BY <1>1, <1>13, <2>2, <4>1, <4>2 DEF Follows
    <3>7. b.ladder = f.truth[m]
      BY <1>5, <3>4, <3>5, <3>6
    <3>8. i = n + 1 /\ m \in f.members
      BY <1>5, <1>7, <1>13, <3>5
    <3> QED
      BY <3>4, <3>5, <3>7, <3>8
  <2>3. CASE m \notin f.about
    BY <1>6, <1>7, <1>8, <1>13, <2>1, <2>3 DEF DeltaBook
  <2> QED
    BY <2>2, <2>3
<1>14. CASE f.kind \in {"badsnapshot", "malformed"}
  <2>1. b = books[m] /\ m \notin f.about
    <3>1. CASE f.kind = "badsnapshot"
      BY <1>1, <1>9, <1>10, <3>1, Routing
    <3>2. CASE f.kind = "malformed"
      BY <1>1, <1>2, <1>9, <3>2, Routing DEF FailBook, Exists
    <3> QED
      BY <1>14, <3>1, <3>2
  <2> QED
    BY <1>6, <1>7, <1>8, <1>14, <2>1
<1>15. CASE f.kind = "control"
  <2>1. b = ControlBook(s, i, subs[s].markets, m, books[m])
    BY <1>1, <1>15, Routing
  <2>2. /\ b.integrity = books[m].integrity /\ b.epoch = books[m].epoch
        /\ b.ladder = books[m].ladder /\ b.snapshotSeq = books[m].snapshotSeq
    BY <1>2, <2>1 DEF ControlBook, NoteSequencedFrame, Book
  <2>3. Current(m)
    BY <1>15, <2>2 DEF Current
  <2> QED
    BY <1>6, <1>7, <1>15, <2>2, <2>3
<1>16. CASE f.kind = "ok"
  <2> DEFINE c == MembershipBook(s, f, m)
  <2>1. b = ControlBook(s, i, f.members, m, c)
    BY <1>1, <1>16, Routing
  <2>2. c \in Book(Sids)
    BY <1>1, <1>2, BookOperators DEF MembershipBook, Frame, TypeOK
  <2>3. /\ b.integrity = c.integrity /\ b.epoch = c.epoch
        /\ b.ladder = c.ladder /\ b.snapshotSeq = c.snapshotSeq
    BY <2>1, <2>2 DEF ControlBook, NoteSequencedFrame, Book
  <2>4. c = books[m] /\ m \in subs[s].markets
    BY <1>16, <2>3 DEF MembershipBook, ResetForNewEpoch, BookWith
  <2>5. Current(m)
    BY <2>3, <2>4 DEF Current
  <2> QED
    BY <1>6, <1>16, <2>3, <2>4, <2>5
<1>17. CASE f.kind \in {"anonymous", "unknown"}
  BY <1>1, <1>3, <1>11, <1>17, Routing DEF UnknownBook
<1> QED
  BY <1>1, <1>12, <1>13, <1>14, <1>15, <1>16, <1>17 DEF FrameKinds

-----------------------------------------------------------------------------
(* The invariant is inductive: one lemma per action of the reader, one for *)
(* what the venue sends.                                                   *)

LEMMA InitInd == Init => IndInv
<1> SUFFICES ASSUME Init PROVE IndInv
  OBVIOUS
<1>1. TypeOK
  BY InitTyping
<1>2. /\ \A s \in Sids : subs[s] = Unregistered /\ log[s] = <<>>
      /\ \A m \in Markets : books[m] = NoBook(SidOf[m])
      /\ ~Connected /\ nextEpoch = 1
  BY DEF Init, Connected
<1>3. OwnSid
  <2>1. \A m \in Markets : NoBook(SidOf[m]).sid = SidOf[m] /\ NoBook(SidOf[m]).epoch = 0
    BY DEF NoBook, BookWith
  <2> QED
    BY <1>2, <2>1 DEF OwnSid
<1>4. OwnMarkets /\ Acknowledged /\ StreamsFollow /\ StreamsUpToDate
  BY <1>2 DEF OwnMarkets, Acknowledged, StreamsFollow, StreamsUpToDate, Unregistered
<1>5. ViolatedSidShowsNothing /\ Synchronised
  BY <1>2 DEF ViolatedSidShowsNothing, Synchronised, Current, Unregistered
<1> QED
  BY <1>1, <1>3, <1>4, <1>5 DEF IndInv

\* Opening and closing start from no subscription and an empty stream.
LEMMA ConnectionInd ==
  IndInv /\ (OpenConnection \/ CloseConnection) => IndInv'
<1> SUFFICES ASSUME IndInv, OpenConnection \/ CloseConnection PROVE IndInv'
  OBVIOUS
<1>1. TypeOK'
  BY ConnectionTyping DEF IndInv
<1>2. \A s \in Sids : subs'[s] = Unregistered /\ log'[s] = <<>>
  BY DEF OpenConnection, CloseConnection
<1>3. OwnSid'
  <2>1. TypeOK /\ OwnSid
    BY DEF IndInv
  <2>2. CASE OpenConnection
    BY <2>1, <2>2 DEF OwnSid, TypeOK, Book, OpenConnection
  <2>3. CASE CloseConnection
    <3>1. \A m \in Markets : /\ books'[m].sid = books[m].sid
                             /\ books'[m].epoch = books[m].epoch
      BY <2>1, <2>3 DEF CloseConnection, InvalidateEpochBook, Invalidate, TypeOK, Book
    <3> QED
      BY <2>1, <2>3, <3>1 DEF OwnSid, CloseConnection
  <2> QED
    BY <2>2, <2>3
<1>4. (OwnMarkets /\ Acknowledged /\ StreamsFollow /\ StreamsUpToDate)'
  BY <1>2 DEF OwnMarkets, Acknowledged, StreamsFollow, StreamsUpToDate, Unregistered
<1>5. \A m \in Markets : SidOf[m] \in Sids
  BY ConstantsAssumption
<1>6. (ViolatedSidShowsNothing /\ Synchronised)'
  BY <1>2, <1>5 DEF ViolatedSidShowsNothing, Synchronised, Current, Unregistered
<1> QED
  BY <1>1, <1>3, <1>4, <1>6 DEF IndInv

\* An acknowledged subscription: the member books are reset before anything
\* arrives on the sid.
LEMMA NoteSubscribedInd ==
  ASSUME IndInv, NEW s \in Sids, NEW markets \in SUBSET MarketsOf(s),
         NoteSubscribed(s, markets)
  PROVE  IndInv'
<1>1. TypeOK /\ TypeOK'
  BY NoteSubscribedTyping DEF IndInv
<1>2. /\ Connected /\ log[s] = <<>> /\ log' = log
      /\ epoch' = epoch /\ nextEpoch' = nextEpoch /\ journal' = journal
      /\ subs' = [subs EXCEPT ![s] = Register(s, ChannelOf[s], markets)]
      /\ carried' = carried \cup markets
  BY DEF NoteSubscribed
<1>3. \A m \in Markets :
        books'[m] = IF m \in markets /\ subs'[s].channel = "orderbook_delta"
                    THEN ResetForNewEpoch(epoch, s) ELSE books[m]
  BY DEF NoteSubscribed
<1>4. /\ subs'[s] = Register(s, ChannelOf[s], markets)
      /\ \A t \in Sids \ {s} : subs'[t] = subs[t]
  BY <1>1, <1>2 DEF TypeOK
<1>5. \A m \in markets : m \in Markets /\ SidOf[m] = s /\ ChannelOf[s] = "orderbook_delta"
  BY ConstantsAssumption DEF MarketsOf
<1>6. subs[s] \in Subscription /\ Acknowledged /\ OwnMarkets /\ OwnSid
  BY <1>1 DEF IndInv, TypeOK
<1>7. /\ subs'[s].known
      /\ subs[s].known => /\ subs'[s].channel = subs[s].channel
                          /\ subs'[s].markets = subs[s].markets \cup markets
                          /\ subs'[s].last = subs[s].last
                          /\ subs'[s].violated = subs[s].violated
      /\ ~subs[s].known => /\ subs'[s].channel = ChannelOf[s]
                           /\ subs'[s].markets = markets
                           /\ ~subs'[s].violated
  BY <1>4, <1>6 DEF Register, Unregistered, Subscription
<1>8. ChannelOf[s] = "orderbook_delta" => subs'[s].channel = "orderbook_delta"
  BY <1>6, <1>7 DEF Acknowledged
<1>9. \A m \in markets : books'[m] = ResetForNewEpoch(epoch, s)
  BY <1>3, <1>5, <1>8
<1>10. \A m \in Markets \ markets : books'[m] = books[m]
  BY <1>3
<1>11. OwnSid'
  <2>1. epoch \in Nat /\ nextEpoch \in Nat /\ epoch < nextEpoch
    BY <1>2, <1>6 DEF IndInv, OwnSid, TypeOK, Connected
  <2>2. \A m \in markets : books'[m].sid = s /\ books'[m].epoch = epoch
    BY <1>9 DEF ResetForNewEpoch, BookWith
  <2>3. \A m \in Markets : books'[m].sid = SidOf[m] /\ books'[m].epoch < nextEpoch
    BY <1>5, <1>6, <1>10, <2>1, <2>2 DEF OwnSid
  <2> QED
    BY <1>2, <2>3 DEF OwnSid
<1>12. OwnMarkets'
  BY <1>2, <1>4, <1>6, <1>7 DEF OwnMarkets, MarketsOf
<1>13. Acknowledged'
  BY <1>2, <1>4, <1>6, <1>8 DEF Acknowledged
<1>14. StreamsFollow'
  BY <1>2 DEF IndInv, StreamsFollow
<1>15. StreamsUpToDate'
  <2> SUFFICES ASSUME NEW t \in Sids, log[t] # <<>>
               PROVE  LET f == log[t][Len(log[t])] IN
                        /\ f.members = carried' \cap MarketsOf(t)
                        /\ \A m \in f.members : f.truth[m] = truth'[m]
    BY <1>2 DEF StreamsUpToDate, MarketsOf
  <2> DEFINE f == log[t][Len(log[t])]
  <2>1. t # s
    BY <1>2
  <2>2. f.members = carried \cap MarketsOf(t) /\ \A m \in f.members : f.truth[m] = truth[m]
    BY DEF IndInv, StreamsUpToDate
  <2>3. carried' \cap MarketsOf(t) = carried \cap MarketsOf(t)
    BY <1>2, <1>5, <2>1 DEF MarketsOf
  <2>4. \A m \in Markets : m \in carried => truth'[m] = truth[m]
    <3>1. BeginStreaming(markets \ carried)
      BY DEF NoteSubscribed
    <3> QED
      BY <1>2, <3>1 DEF BeginStreaming
  <2> QED
    BY <2>2, <2>3, <2>4 DEF MarketsOf
<1>16. ViolatedSidShowsNothing'
  <2> SUFFICES ASSUME NEW t \in Sids, subs'[t].violated,
                      NEW m \in subs'[t].markets,
                      books'[m].epoch = epoch
               PROVE  books'[m].integrity # "VALID"
    BY <1>2 DEF ViolatedSidShowsNothing
  <2>1. m \in MarketsOf(t)
    BY <1>12 DEF OwnMarkets, MarketsOf
  <2>2. CASE m \in markets
    BY <1>9, <2>2 DEF ResetForNewEpoch, BookWith
  <2>3. CASE m \notin markets
    <3>1. m \in subs[t].markets /\ subs[t].violated
      BY <1>4, <1>7, <2>3
    <3>2. books'[m] = books[m]
      BY <1>10, <2>1, <2>3 DEF MarketsOf
    <3> QED
      BY <3>1, <3>2 DEF IndInv, ViolatedSidShowsNothing
  <2> QED
    BY <2>2, <2>3
<1>17. Synchronised'
  <2> SUFFICES ASSUME NEW m \in Markets, Current(m)', ~subs'[SidOf[m]].violated
               PROVE  LET t == SidOf[m]
                          n == subs'[t].last IN
                        /\ n \in 1..Len(log'[t])
                        /\ m \in log'[t][n].members
                        /\ books'[m].ladder = log'[t][n].truth[m]
                        /\ books'[m].snapshotSeq..n \subseteq journal'[t]
    BY DEF Synchronised
  <2>1. m \notin markets
    BY <1>9 DEF Current, ResetForNewEpoch, BookWith
  <2>2. books'[m] = books[m] /\ SidOf[m] \in Sids
    BY <1>10, <2>1, ConstantsAssumption
  <2>3. m \in subs[SidOf[m]].markets /\ subs'[SidOf[m]].last = subs[SidOf[m]].last
        /\ subs'[SidOf[m]].violated = subs[SidOf[m]].violated
    BY <1>4, <1>7, <2>1, <2>2 DEF Current
  <2>4. Current(m)
    BY <1>2, <2>2, <2>3 DEF Current, Connected
  <2> QED
    BY <1>2, <2>2, <2>3, <2>4 DEF IndInv, Synchronised
<1> QED
  BY <1>1, <1>11, <1>12, <1>13, <1>14, <1>15, <1>16, <1>17 DEF IndInv

\* A failed write takes every book of the epoch down.
LEMMA JournalFailureInd ==
  ASSUME IndInv, TypeOK', JournalFailure,
         UNCHANGED <<epoch, nextEpoch, log, truth, carried>>
  PROVE  IndInv'
<1>1. /\ subs' = subs /\ journal' = journal
      /\ \A m \in Markets : books'[m] = InvalidateEpochBook(m)
  BY DEF JournalFailure
<1>2. /\ TypeOK /\ OwnSid /\ OwnMarkets /\ Acknowledged
      /\ StreamsFollow /\ StreamsUpToDate
  BY DEF IndInv
<1>3. \A m \in Markets :
        /\ books'[m].sid = books[m].sid /\ books'[m].epoch = books[m].epoch
        /\ books'[m].epoch = epoch => books'[m].integrity # "VALID"
  BY <1>1, <1>2 DEF InvalidateEpochBook, Invalidate, TypeOK, Book
<1>4. OwnSid'
  BY <1>2, <1>3 DEF OwnSid
<1>5. OwnMarkets' /\ Acknowledged'
  BY <1>1, <1>2 DEF OwnMarkets, Acknowledged, MarketsOf
<1>6. StreamsFollow' /\ StreamsUpToDate'
  BY <1>2 DEF StreamsFollow, StreamsUpToDate, MarketsOf
<1>7. ViolatedSidShowsNothing'
  <2>1. \A s \in Sids : \A m \in subs[s].markets : m \in Markets
    BY <1>2 DEF OwnMarkets, MarketsOf
  <2> QED
    BY <1>1, <1>3, <2>1 DEF ViolatedSidShowsNothing
<1>8. Synchronised'
  BY <1>3 DEF Synchronised, Current
<1> QED
  BY <1>4, <1>5, <1>6, <1>7, <1>8 DEF IndInv

\* A refused number: the sid is violated and none of its members stays valid.
LEMMA RefuseInd ==
  ASSUME IndInv, TypeOK', Connected, NEW s \in Sids, NEW i \in 1..Len(log[s]),
         RefuseFrame(s, i, log[s][i]),
         UNCHANGED <<epoch, nextEpoch, log, truth, carried>>
  PROVE  IndInv'
<1>1. /\ journal' = journal /\ log[s][i].kind # "unparsed"
      /\ \A m \in Markets : books'[m] = InvalidateSidBook(s, m)
  BY DEF RefuseFrame
<1>2. /\ TypeOK /\ OwnSid /\ OwnMarkets /\ Acknowledged
      /\ StreamsFollow /\ StreamsUpToDate
  BY DEF IndInv
<1>3. /\ subs'[s] = [Register(s, "unknown", {}) EXCEPT !.violated = TRUE]
      /\ \A t \in Sids \ {s} : subs'[t] = subs[t]
  BY <1>2 DEF RefuseFrame, TypeOK
<1>4. subs[s] \in Subscription /\ log[s] # <<>>
  BY <1>2 DEF TypeOK
<1>5. /\ subs'[s].violated /\ subs'[s].known
      /\ subs'[s].markets \subseteq subs[s].markets
      /\ subs[s].known => subs'[s].channel = subs[s].channel
  BY <1>3, <1>4 DEF Register, Unregistered, Subscription
<1>6. \A m \in Markets : SidOf[m] # s => books'[m] = books[m]
  BY <1>1, OtherSid
<1>7. \A m \in Markets :
        /\ books'[m].sid = books[m].sid /\ books'[m].epoch = books[m].epoch
        /\ m \in subs[s].markets /\ books'[m].epoch = epoch =>
             books'[m].integrity # "VALID"
  BY <1>1, <1>2 DEF InvalidateSidBook, Invalidate, MarketsForSid, TypeOK, Book
<1>8. OwnSid'
  BY <1>2, <1>7 DEF OwnSid
<1>9. OwnMarkets'
  BY <1>2, <1>3, <1>5 DEF OwnMarkets, MarketsOf
<1>10. Acknowledged'
  BY <1>2, <1>3, <1>4, <1>5 DEF Acknowledged
<1>11. StreamsFollow' /\ StreamsUpToDate'
  BY <1>2 DEF StreamsFollow, StreamsUpToDate, MarketsOf
<1>12. ViolatedSidShowsNothing'
  <2> SUFFICES ASSUME NEW t \in Sids, subs'[t].violated,
                      NEW m \in subs'[t].markets, books'[m].epoch = epoch
               PROVE  books'[m].integrity # "VALID"
    BY DEF ViolatedSidShowsNothing
  <2>1. m \in Markets /\ SidOf[m] = t
    BY <1>9 DEF OwnMarkets, MarketsOf
  <2>2. CASE t = s
    BY <1>5, <1>7, <2>1, <2>2
  <2>3. CASE t # s
    BY <1>3, <1>6, <2>1, <2>3 DEF IndInv, ViolatedSidShowsNothing
  <2> QED
    BY <2>2, <2>3
<1>13. Synchronised'
  <2> SUFFICES ASSUME NEW m \in Markets, Current(m)', ~subs'[SidOf[m]].violated
               PROVE  LET t == SidOf[m]
                          n == subs'[t].last IN
                        /\ n \in 1..Len(log'[t])
                        /\ m \in log'[t][n].members
                        /\ books'[m].ladder = log'[t][n].truth[m]
                        /\ books'[m].snapshotSeq..n \subseteq journal'[t]
    BY DEF Synchronised
  <2>1. SidOf[m] \in Sids \ {s}
    BY <1>5, ConstantsAssumption
  <2>2. books'[m] = books[m] /\ subs'[SidOf[m]] = subs[SidOf[m]]
    BY <1>3, <1>6, <2>1
  <2>3. Current(m)
    BY <2>2 DEF Current, Connected
  <2> QED
    BY <1>1, <2>2, <2>3 DEF IndInv, Synchronised
<1> QED
  BY <1>8, <1>9, <1>10, <1>11, <1>12, <1>13 DEF IndInv

\* An accepted frame: the books of its sid move with it, the others stay.
LEMMA AcceptInd ==
  ASSUME IndInv, TypeOK', Connected, NEW s \in Sids, NEW i \in 1..Len(log[s]),
         AcceptFrame(s, i, log[s][i]), journal' = Recorded(s, i),
         UNCHANGED <<epoch, nextEpoch, log, truth, carried>>
  PROVE  IndInv'
<1> DEFINE f == log[s][i]
<1>1. /\ f.kind # "unparsed" /\ InSequence(s, i)
      /\ \A m \in Markets : books'[m] = RoutedBook(s, i, f, m)
  BY DEF AcceptFrame
<1>2. /\ TypeOK /\ OwnSid /\ OwnMarkets /\ Acknowledged
      /\ StreamsFollow /\ StreamsUpToDate
  BY DEF IndInv
<1>3. /\ subs'[s] = [Register(s, "unknown", {}) EXCEPT
                       !.last = i,
                       !.markets = IF f.kind = "ok" THEN f.members ELSE @]
      /\ \A t \in Sids \ {s} : subs'[t] = subs[t]
  BY <1>2 DEF AcceptFrame, TypeOK
<1>4. subs[s] \in Subscription /\ log[s] # <<>> /\ ~subs[s].violated
  BY <1>1, <1>2 DEF TypeOK, InSequence
<1>5. /\ subs'[s].last = i /\ ~subs'[s].violated /\ subs'[s].known
      /\ f.kind = "ok" => subs'[s].markets = f.members
      /\ f.kind # "ok" => subs'[s].markets \subseteq subs[s].markets
      /\ subs[s].known => subs'[s].channel = subs[s].channel
  BY <1>3, <1>4 DEF Register, Unregistered, Subscription
<1>6. \A m \in Markets : SidOf[m] # s => books'[m] = books[m]
  BY <1>1, OtherSid
<1>7. /\ journal'[s] = journal[s] \cup {i}
      /\ \A t \in Sids \ {s} : journal'[t] = journal[t]
  BY <1>2 DEF TypeOK, Recorded
<1>8. OwnSid'
  BY <1>1, RoutedBookOwner DEF OwnSid
<1>9. OwnMarkets'
  <2>1. \A k \in 1..Len(log[s]) : log[s][k].members \subseteq MarketsOf(s)
    BY <1>2 DEF OwnMarkets
  <2>2. subs[s].markets \subseteq MarketsOf(s)
    BY <1>2 DEF OwnMarkets
  <2>3. subs'[s].markets \subseteq MarketsOf(s)
    BY <1>5, <2>1, <2>2
  <2> QED
    BY <1>2, <1>3, <2>3 DEF OwnMarkets, MarketsOf
<1>10. Acknowledged'
  BY <1>2, <1>3, <1>4, <1>5 DEF Acknowledged
<1>11. StreamsFollow' /\ StreamsUpToDate'
  BY <1>2 DEF StreamsFollow, StreamsUpToDate, MarketsOf
<1>12. ViolatedSidShowsNothing'
  <2> SUFFICES ASSUME NEW t \in Sids, subs'[t].violated,
                      NEW m \in subs'[t].markets, books'[m].epoch = epoch
               PROVE  books'[m].integrity # "VALID"
    BY DEF ViolatedSidShowsNothing
  <2>1. t # s
    BY <1>5
  <2>2. m \in Markets /\ SidOf[m] = t
    BY <1>9 DEF OwnMarkets, MarketsOf
  <2> QED
    BY <1>3, <1>6, <2>1, <2>2 DEF IndInv, ViolatedSidShowsNothing
<1>13. Synchronised'
  <2> SUFFICES ASSUME NEW m \in Markets, Current(m)', ~subs'[SidOf[m]].violated
               PROVE  LET t == SidOf[m]
                          n == subs'[t].last IN
                        /\ n \in 1..Len(log'[t])
                        /\ m \in log'[t][n].members
                        /\ books'[m].ladder = log'[t][n].truth[m]
                        /\ books'[m].snapshotSeq..n \subseteq journal'[t]
    BY DEF Synchronised
  <2>1. SidOf[m] \in Sids
    BY ConstantsAssumption
  <2>2. CASE SidOf[m] = s
    <3>1. /\ books'[m] = RoutedBook(s, i, f, m)
          /\ books'[m].integrity = "VALID" /\ books'[m].epoch = epoch
      BY <1>1 DEF Current
    <3>2. m \in IF f.kind = "ok" THEN f.members ELSE subs[s].markets
      BY <1>5, <2>2 DEF Current
    <3>3. /\ books'[m].ladder = f.truth[m] /\ m \in f.members
          /\ \/ books'[m].snapshotSeq = i
             \/ /\ Current(m) /\ i = subs[s].last + 1
                /\ books'[m].snapshotSeq = books[m].snapshotSeq
      BY <1>1, <2>2, <3>1, <3>2, AcceptedFrame
    <3>4. books'[m].snapshotSeq..i \subseteq journal'[s]
      <4>1. CASE books'[m].snapshotSeq = i
        BY <1>7, <4>1
      <4>2. CASE /\ Current(m) /\ i = subs[s].last + 1
                 /\ books'[m].snapshotSeq = books[m].snapshotSeq
        <5>1. books[m].snapshotSeq..subs[s].last \subseteq journal[s]
          BY <1>4, <2>2, <4>2 DEF IndInv, Synchronised
        <5>2. books[m].snapshotSeq \in Nat /\ subs[s].last \in Nat
          BY <1>2, <1>4 DEF TypeOK, Book, Subscription
        <5>3. \A k \in books[m].snapshotSeq..i :
                k = i \/ k \in books[m].snapshotSeq..subs[s].last
          BY <4>2, <5>2
        <5> QED
          BY <1>7, <4>2, <5>1, <5>3
      <4> QED
        BY <3>3, <4>1, <4>2
    <3> QED
      BY <1>5, <2>2, <3>3, <3>4
  <2>3. CASE SidOf[m] # s
    <3>1. books'[m] = books[m] /\ subs'[SidOf[m]] = subs[SidOf[m]]
          /\ journal'[SidOf[m]] = journal[SidOf[m]]
      BY <1>3, <1>6, <1>7, <2>1, <2>3
    <3>2. Current(m)
      BY <3>1 DEF Current, Connected
    <3> QED
      BY <3>1, <3>2 DEF IndInv, Synchronised
  <2> QED
    BY <2>2, <2>3
<1> QED
  BY <1>8, <1>9, <1>10, <1>11, <1>12, <1>13 DEF IndInv

LEMMA ReceiveInd ==
  ASSUME IndInv, NEW s \in Sids, NEW i \in 1..Len(log[s]), Receive(s, i)
  PROVE  IndInv'
<1> DEFINE f == log[s][i]
<1>1. TypeOK /\ TypeOK'
  BY ReceiveTyping DEF IndInv
<1>2. Connected /\ UNCHANGED <<epoch, nextEpoch, log, truth, carried>>
  BY DEF Receive
<1>3. CASE JournalFailure
  BY <1>1, <1>2, <1>3, JournalFailureInd
<1>4. CASE Journalled /\ UnparsedFrame(f)
  <2>1. UNCHANGED <<subs, books, journal>>
    BY <1>4 DEF UnparsedFrame
  <2> QED
    BY SMTT(30), <1>1, <1>2, <2>1 DEF IndInv, OwnSid, OwnMarkets, Acknowledged, StreamsFollow,
       StreamsUpToDate, ViolatedSidShowsNothing, Synchronised, Current, Connected,
       MarketsOf
<1>5. CASE Journalled /\ RefuseFrame(s, i, f)
  BY <1>1, <1>2, <1>5, RefuseInd
<1>6. CASE /\ Journalled
           /\ AcceptFrame(s, i, f)
           /\ journal' = Recorded(s, i)
  BY <1>1, <1>2, <1>6, AcceptInd
<1> QED
  BY <1>3, <1>4, <1>5, <1>6 DEF Receive

LEMMA QuietInd ==
  IndInv /\ (ReceiveUnsequenced \/ RecordTransportSignal \/ FallSilent) => IndInv'
<1> SUFFICES ASSUME IndInv, ReceiveUnsequenced \/ RecordTransportSignal \/ FallSilent
             PROVE  IndInv'
  OBVIOUS
<1>1. TypeOK'
  BY QuietTyping DEF IndInv
<1>2. UNCHANGED <<epoch, nextEpoch, log, truth, carried>>
  BY DEF ReceiveUnsequenced, RecordTransportSignal, FallSilent
<1>3. CASE JournalFailure
  BY <1>1, <1>2, <1>3, JournalFailureInd
<1>4. CASE UNCHANGED <<subs, books, journal>>
  BY <1>1, <1>2, <1>4 DEF IndInv, OwnSid, OwnMarkets, Acknowledged, StreamsFollow,
     StreamsUpToDate, ViolatedSidShowsNothing, Synchronised, Current, Connected,
     MarketsOf
<1> QED
  BY <1>3, <1>4 DEF ReceiveUnsequenced, RecordTransportSignal, FallSilent

\* One more frame on a stream, which Follows the one before it.
LEMMA SendInd ==
  ASSUME IndInv, TypeOK', NEW s \in Sids, NEW kind \in FrameKinds,
         NEW about \in SUBSET Markets, NEW slot \in Slots, NEW change \in Int,
         Send(s, kind, about, slot, change),
         \A m \in Markets : SidOf[m] # s =>
           /\ m \in carried' <=> m \in carried
           /\ m \in carried => truth'[m] = truth[m],
         about \subseteq carried' \cap MarketsOf(s),
         NEW g, g = [kind |-> kind, about |-> about, slot |-> slot,
                     change |-> change, members |-> carried' \cap MarketsOf(s),
                     truth |-> truth'],
         \A f \in Frame :
           /\ f.members = carried \cap MarketsOf(s)
           /\ \A m \in f.members : f.truth[m] = truth[m]
           => Follows(f, g)
  PROVE  IndInv'
<1>1. /\ TypeOK /\ OwnSid /\ OwnMarkets /\ Acknowledged
      /\ StreamsFollow /\ StreamsUpToDate
  BY DEF IndInv
<1>2. UNCHANGED <<epoch, nextEpoch, subs, books, journalHealthy, liveness, journal>>
  BY DEF Send, clientVars
<1>3. /\ log'[s] = Append(log[s], g)
      /\ \A t \in Sids \ {s} : log'[t] = log[t]
      /\ ChannelOf[s] = "orderbook_delta" => subs[s].known
  BY <1>1 DEF Send, TypeOK
<1>4. \A t \in Sids : log[t] \in Seq(Frame) /\ log'[t] \in Seq(Frame)
  BY <1>1 DEF TypeOK
<1>5. /\ Len(log'[s]) = Len(log[s]) + 1 /\ Len(log[s]) \in Nat
      /\ log'[s][Len(log[s]) + 1] = g
      /\ \A k \in 1..Len(log[s]) : log'[s][k] = log[s][k]
  <2>1. g \in Frame
    <3>1. truth' \in [Markets -> Ladder] /\ carried' \in SUBSET Markets
      BY DEF TypeOK
    <3> QED
      BY <3>1 DEF Frame, MarketsOf
  <2> QED
    BY <1>3, <1>4, <2>1
\* The frames a stream held before are still there.
<1>6. \A t \in Sids : /\ Len(log[t]) \in Nat /\ Len(log'[t]) \in Nat
                      /\ Len(log[t]) <= Len(log'[t])
                      /\ \A k \in 1..Len(log[t]) : log'[t][k] = log[t][k]
  BY <1>3, <1>4, <1>5
<1>7. OwnSid'
  BY <1>1, <1>2 DEF OwnSid
<1>8. OwnMarkets'
  <2> SUFFICES ASSUME NEW t \in Sids, NEW k \in 1..Len(log'[t])
               PROVE  /\ log'[t][k].members \subseteq MarketsOf(t)
                      /\ log'[t][k].about \subseteq log'[t][k].members
    BY <1>1, <1>2 DEF OwnMarkets, MarketsOf
  <2>1. CASE k \in 1..Len(log[t])
    BY <1>1, <1>6, <2>1 DEF OwnMarkets
  <2>2. CASE k \notin 1..Len(log[t])
    <3>1. t = s /\ k = Len(log[s]) + 1
      BY <1>3, <1>5, <2>2
    <3> QED
      BY <1>5, <3>1
  <2> QED
    BY <2>1, <2>2
<1>9. Acknowledged'
  BY <1>1, <1>2, <1>3 DEF Acknowledged
<1>10. StreamsFollow'
  <2> SUFFICES ASSUME NEW t \in Sids, NEW k \in 1..(Len(log'[t]) - 1)
               PROVE  Follows(log'[t][k], log'[t][k + 1])
    BY DEF StreamsFollow
  <2>1. CASE k \in 1..(Len(log[t]) - 1)
    <3>1. k \in 1..Len(log[t]) /\ k + 1 \in 1..Len(log[t])
      BY <1>6, <2>1
    <3>2. log'[t][k] = log[t][k] /\ log'[t][k + 1] = log[t][k + 1]
      BY <1>6, <3>1
    <3> QED
      BY <1>1, <2>1, <3>2 DEF StreamsFollow
  <2>2. CASE k \notin 1..(Len(log[t]) - 1)
    <3>1. t = s /\ k = Len(log[s]) /\ k \in 1..Len(log[s])
      BY <1>3, <1>4, <1>5, <2>2
    <3>2. /\ log'[t][k] = log[s][Len(log[s])] /\ log'[t][k + 1] = g
          /\ log[s][Len(log[s])] \in Frame /\ log[s] # <<>>
      BY <1>4, <1>5, <3>1
    <3> QED
      BY <1>1, <3>2 DEF StreamsUpToDate
  <2> QED
    BY <2>1, <2>2
<1>11. StreamsUpToDate'
  <2> SUFFICES ASSUME NEW t \in Sids, log'[t] # <<>>
               PROVE  LET f == log'[t][Len(log'[t])] IN
                        /\ f.members = carried' \cap MarketsOf(t)
                        /\ \A m \in f.members : f.truth[m] = truth'[m]
    BY DEF StreamsUpToDate, MarketsOf
  <2>1. CASE t = s
    BY <1>5, <2>1
  <2>2. CASE t # s
    <3> DEFINE f == log[t][Len(log[t])]
    <3>1. /\ f.members = carried \cap MarketsOf(t)
          /\ \A m \in f.members : f.truth[m] = truth[m]
          /\ log'[t] = log[t]
      BY <1>1, <1>3, <2>2 DEF StreamsUpToDate
    <3>2. carried' \cap MarketsOf(t) = carried \cap MarketsOf(t)
      BY <2>2 DEF MarketsOf
    <3> QED
      BY <2>2, <3>1, <3>2 DEF MarketsOf
  <2> QED
    BY <2>1, <2>2
<1>12. ViolatedSidShowsNothing'
  BY <1>2 DEF IndInv, ViolatedSidShowsNothing
<1>13. Synchronised'
  <2> SUFFICES ASSUME NEW m \in Markets, Current(m), ~subs[SidOf[m]].violated
               PROVE  LET t == SidOf[m]
                          n == subs[t].last IN
                        /\ n \in 1..Len(log'[t])
                        /\ m \in log'[t][n].members
                        /\ books[m].ladder = log'[t][n].truth[m]
                        /\ books[m].snapshotSeq..n \subseteq journal[t]
    BY <1>2 DEF Synchronised, Current, Connected
  <2> DEFINE t == SidOf[m]
             n == subs[t].last
  <2>1. /\ n \in 1..Len(log[t])
        /\ m \in log[t][n].members
        /\ books[m].ladder = log[t][n].truth[m]
        /\ books[m].snapshotSeq..n \subseteq journal[t]
    BY DEF IndInv, Synchronised
  <2>2. log'[t][n] = log[t][n] /\ n \in 1..Len(log'[t])
    BY <1>6, <2>1, ConstantsAssumption
  <2> QED
    BY <2>1, <2>2
<1> QED
  BY <1>7, <1>8, <1>9, <1>10, <1>11, <1>12, <1>13 DEF IndInv

\* Whatever the venue sends follows what it sent before.
LEMMA VenueInd == IndInv /\ Venue => IndInv'
<1> SUFFICES ASSUME IndInv, Venue PROVE IndInv'
  OBVIOUS
<1>1. TypeOK /\ TypeOK'
  BY VenueTyping DEF IndInv
<1>2. AnySlot \in Slots /\ SidOf \in [Markets -> Sids] /\ MaxQuantity \in Nat
  BY SlotsAssumption, ConstantsAssumption DEF AnySlot
<1> DEFINE Sent(s, kind, about, slot, change) ==
             [kind |-> kind, about |-> about, slot |-> slot, change |-> change,
              members |-> carried' \cap MarketsOf(s), truth |-> truth']
           Last(f, s) == /\ f.members = carried \cap MarketsOf(s)
                         /\ \A m \in f.members : f.truth[m] = truth[m]
<1>3. CASE \E m \in Markets : VenueSnapshot(m)
  <2>1. PICK m \in Markets : VenueSnapshot(m)
    BY <1>3
  <2> DEFINE s == SidOf[m]
             g == Sent(s, "snapshot", {m}, AnySlot, 0)
  <2>2. /\ m \in carried /\ truth' = truth /\ carried' = carried
        /\ Send(s, "snapshot", {m}, AnySlot, 0)
    BY <2>1 DEF VenueSnapshot
  <2>3. \A f \in Frame : Last(f, s) => Follows(f, g)
    BY <2>2 DEF Follows
  <2>4. {m} \subseteq carried' \cap MarketsOf(s) /\ "snapshot" \in FrameKinds /\ 0 \in Int
    BY <2>2 DEF MarketsOf, FrameKinds
  <2> QED
    BY <1>1, <1>2, <2>2, <2>3, <2>4, SendInd
<1>4. CASE \E m \in Markets, x \in Slots, d \in -MaxQuantity..MaxQuantity :
             d # 0 /\ VenueDelta(m, x, d)
  <2>1. PICK m \in Markets, x \in Slots, d \in -MaxQuantity..MaxQuantity :
          VenueDelta(m, x, d)
    BY <1>4
  <2> DEFINE s == SidOf[m]
             g == Sent(s, "delta", {m}, x, d)
  <2>2. /\ m \in carried /\ carried' = carried
        /\ truth' = IF truth[m][x] + d >= 0
                    THEN [truth EXCEPT ![m][x] = truth[m][x] + d] ELSE truth
        /\ Send(s, "delta", {m}, x, d)
    BY <2>1 DEF VenueDelta
  <2>3. /\ \A n \in Markets : n # m => truth'[n] = truth[n]
        /\ truth[m][x] + d >= 0 =>
             truth'[m] = [truth[m] EXCEPT ![x] = truth[m][x] + d]
    BY <1>1, <2>2 DEF TypeOK
  <2>4. \A f \in Frame : Last(f, s) => Follows(f, g)
    <3> SUFFICES ASSUME NEW f \in Frame, Last(f, s) PROVE Follows(f, g)
      OBVIOUS
    <3>1. f.members = carried \cap MarketsOf(s) /\ g.members = f.members
      BY <2>2
    <3>2. \A n \in f.members : n # m => g.truth[n] = f.truth[n] /\ n \notin g.about
      BY <2>3 DEF MarketsOf
    <3>3. m \in f.members /\ f.truth[m] = truth[m]
      BY <2>2, <3>1 DEF MarketsOf
    <3>4. f.truth[m][x] + d >= 0 => g.truth[m] = [f.truth[m] EXCEPT ![x] = @ + d]
      BY <2>3, <3>3
    <3> QED
      BY <3>1, <3>2, <3>4 DEF Follows
  <2>5. /\ {m} \subseteq carried' \cap MarketsOf(s)
        /\ "delta" \in FrameKinds /\ d \in Int
        /\ \A n \in Markets : SidOf[n] # s => truth'[n] = truth[n]
    BY <1>2, <2>2, <2>3 DEF MarketsOf, FrameKinds
  <2>6. /\ s \in Sids /\ {m} \in SUBSET Markets /\ d \in Int
        /\ \A n \in Markets : SidOf[n] # s =>
             /\ n \in carried' <=> n \in carried
             /\ n \in carried => truth'[n] = truth[n]
    BY <1>2, <2>2, <2>5
  <2>7. g = [kind |-> "delta", about |-> {m}, slot |-> x, change |-> d,
             members |-> carried' \cap MarketsOf(s), truth |-> truth']
    OBVIOUS
  <2> HIDE DEF s, g
  <2> QED
    BY <1>1, <2>2, <2>4, <2>5, <2>6, <2>7, SendInd
<1>5. CASE \E m \in Markets, x \in Slots, quantity \in 0..MaxQuantity,
              kind \in FrameKinds : VenueUnreadable(m, x, quantity, kind)
  <2>1. PICK m \in Markets, x \in Slots, quantity \in 0..MaxQuantity,
             kind \in FrameKinds : VenueUnreadable(m, x, quantity, kind)
    BY <1>5
  <2> DEFINE s == SidOf[m]
  <2>2. /\ m \in carried /\ carried' = carried
        /\ truth' = [truth EXCEPT ![m][x] = quantity]
    BY <2>1 DEF VenueUnreadable
  <2>3. \A n \in Markets : n # m => truth'[n] = truth[n]
    BY <1>1, <2>2 DEF TypeOK
  <2>4. \A n \in Markets : SidOf[n] # s => truth'[n] = truth[n]
    BY <2>3
  <2>5. CASE kind \in {"badsnapshot", "malformed"} /\ Send(s, kind, {m}, AnySlot, 0)
    <3> DEFINE g == Sent(s, kind, {m}, AnySlot, 0)
    <3>1. \A f \in Frame : Last(f, s) => Follows(f, g)
      <4> SUFFICES ASSUME NEW f \in Frame, Last(f, s) PROVE Follows(f, g)
        OBVIOUS
      <4>1. g.members = f.members /\ g.kind \in {"badsnapshot", "malformed"}
        BY <2>2, <2>5
      <4>2. \A n \in f.members : n # m => g.truth[n] = f.truth[n]
        BY <2>3 DEF MarketsOf
      <4> QED
        BY <4>1, <4>2 DEF Follows
    <3>2. {m} \subseteq carried' \cap MarketsOf(s) /\ {m} \in SUBSET Markets /\ 0 \in Int
      BY <2>2 DEF MarketsOf
    <3>3. Send(s, kind, {m}, AnySlot, 0) /\ s \in Sids
      BY <1>2, <2>5
    <3> QED
      BY <1>1, <1>2, <2>2, <2>4, <3>1, <3>2, <3>3, SendInd
  <2>6. CASE /\ kind \in {"anonymous", "unknown", "unparsed"}
             /\ Send(s, kind, {}, AnySlot, 0)
    <3> DEFINE g == Sent(s, kind, {}, AnySlot, 0)
    <3>1. \A f \in Frame : Last(f, s) => Follows(f, g)
      BY <2>2, <2>6 DEF Follows
    <3>2. {} \subseteq carried' \cap MarketsOf(s) /\ {} \in SUBSET Markets /\ 0 \in Int
      OBVIOUS
    <3>3. Send(s, kind, {}, AnySlot, 0) /\ s \in Sids
      BY <1>2, <2>6
    <3>4. kind \in FrameKinds
      BY <2>6 DEF FrameKinds
    <3> QED
      BY <1>1, <1>2, <2>2, <2>4, <3>1, <3>2, <3>3, <3>4, SendInd
  <2> QED
    BY <2>1, <2>5, <2>6 DEF VenueUnreadable
<1>6. CASE \E s \in Sids : \E members \in SUBSET MarketsOf(s) :
             VenueMembership(s, members)
  <2> PICK s \in Sids : \E members \in SUBSET MarketsOf(s) :
          VenueMembership(s, members)
    BY <1>6
  <2>1. PICK members \in SUBSET MarketsOf(s) : VenueMembership(s, members)
    OBVIOUS
  <2> DEFINE g == Sent(s, "ok", {}, AnySlot, 0)
  <2>2. /\ carried' = (carried \ MarketsOf(s)) \cup members
        /\ BeginStreaming(members \ carried)
        /\ Send(s, "ok", {}, AnySlot, 0)
    BY <2>1 DEF VenueMembership
  <2>3. \A m \in Markets : m \in carried \cap carried' => truth'[m] = truth[m]
    BY <2>2 DEF BeginStreaming
  <2>4. \A m \in Markets : SidOf[m] # s =>
          /\ m \in carried' <=> m \in carried
          /\ m \in carried => truth'[m] = truth[m]
    BY <2>2, <2>3 DEF MarketsOf
  <2>5. \A f \in Frame : Last(f, s) => Follows(f, g)
    BY <2>3 DEF Follows, MarketsOf
  <2>6. {} \subseteq carried' \cap MarketsOf(s) /\ "ok" \in FrameKinds /\ 0 \in Int
    BY DEF FrameKinds
  <2> QED
    BY <1>1, <1>2, <2>2, <2>4, <2>5, <2>6, SendInd
<1>7. CASE \E s \in Sids, kind \in {"control", "unknown"} : VenueOther(s, kind)
  <2>1. PICK s \in Sids, kind \in {"control", "unknown"} : VenueOther(s, kind)
    BY <1>7
  <2> DEFINE g == Sent(s, kind, {}, AnySlot, 0)
  <2>2. truth' = truth /\ carried' = carried /\ Send(s, kind, {}, AnySlot, 0)
    BY <2>1 DEF VenueOther
  <2>3. \A f \in Frame : Last(f, s) => Follows(f, g)
    BY <2>2 DEF Follows
  <2>4. {} \subseteq carried' \cap MarketsOf(s) /\ kind \in FrameKinds /\ 0 \in Int
    BY DEF FrameKinds
  <2> QED
    BY <1>1, <1>2, <2>2, <2>3, <2>4, SendInd
<1> QED
  BY <1>3, <1>4, <1>5, <1>6, <1>7 DEF Venue

LEMMA StepInd == IndInv /\ [Next]_vars => IndInv'
<1> SUFFICES ASSUME IndInv, [Next]_vars PROVE IndInv'
  OBVIOUS
<1>1. CASE OpenConnection \/ CloseConnection
  BY <1>1, ConnectionInd
<1>2. CASE \E s \in Sids : \E markets \in SUBSET MarketsOf(s) : NoteSubscribed(s, markets)
  BY <1>2, NoteSubscribedInd
<1>3. CASE \E s \in Sids : \E i \in 1..Len(log[s]) : Receive(s, i)
  BY <1>3, ReceiveInd
<1>4. CASE ReceiveUnsequenced \/ RecordTransportSignal \/ FallSilent
  BY <1>4, QuietInd
<1>5. CASE Venue
  BY <1>5, VenueInd
<1>6. CASE UNCHANGED vars
  BY <1>6 DEF IndInv, TypeOK, OwnSid, OwnMarkets, Acknowledged, StreamsFollow,
     StreamsUpToDate, ViolatedSidShowsNothing, Synchronised, Current, Connected,
     MarketsOf, vars
<1> QED
  BY <1>1, <1>2, <1>3, <1>4, <1>5, <1>6 DEF Next, Client

\* What is eligible is current, and its stream was never violated.
LEMMA EligibleIsCurrent ==
  ASSUME IndInv, NEW m \in Markets, ScanEligible(m)
  PROVE  /\ books[m].sid = SidOf[m] /\ SidOf[m] \in Sids
         /\ Current(m) /\ ~subs[SidOf[m]].violated
         /\ subs[SidOf[m]].last \in 1..Len(log[SidOf[m]])
         /\ books[m].ladder = log[SidOf[m]][subs[SidOf[m]].last].truth[m]
<1>1. books[m].sid = SidOf[m] /\ SidOf[m] \in Sids
  BY ConstantsAssumption DEF IndInv, OwnSid
<1>2. Current(m)
  BY <1>1 DEF ScanEligible, Current
<1>3. ~subs[SidOf[m]].violated
  BY <1>1, <1>2 DEF Current, IndInv, ViolatedSidShowsNothing
<1> QED
  BY <1>1, <1>2, <1>3 DEF IndInv, Synchronised

-----------------------------------------------------------------------------
(* The frame that touched a book last.                                       *)

LEMMA AcceptedTouch ==
  ASSUME IndInv, Connected, NEW m \in Markets, NEW s \in Sids, s = SidOf[m],
         NEW i \in 1..Len(log[s]), InSequence(s, i),
         NEW f, f = log[s][i], f.kind # "unparsed",
         NEW b, b = RoutedBook(s, i, f, m),
         b.integrity = "VALID", b.epoch = epoch,
         m \in IF f.kind = "ok" THEN f.members ELSE subs[s].markets
  PROVE  \/ b.latestSeq = i /\ Touches(f, m)
         \/ b = books[m] /\ f.kind # "ok" /\ ~Touches(f, m)
<1>1. /\ ChannelOf[s] = "orderbook_delta"
      /\ f \in Frame /\ f.kind \in FrameKinds \ {"unparsed"}
      /\ i \in Nat /\ TypeOK
  BY LogTyping, ConstantsAssumption DEF IndInv
<1>2. books[m] \in Book(Sids) /\ epoch \in Nat
  BY <1>1 DEF TypeOK
<1>3. subs[s].known /\ subs[s].channel = "orderbook_delta"
  BY <1>1 DEF IndInv, Acknowledged
<1>4. ASSUME NEW c \in Book(Sids) PROVE b # Invalidate(c)
  BY <1>4 DEF Invalidate, Book
<1>5. BookFor(s, m) \in Book(Sids) /\ MembershipBook(s, f, m) \in Book(Sids)
  <2>1. f.truth[m] \in Ladder
    BY <1>1 DEF Frame
  <2>2. /\ ResetForNewEpoch(epoch, s) \in Book(Sids)
        /\ MarkUnsubscribed(books[m]) \in Book(Sids)
    BY <1>1, <1>2, <2>1, BookOperators
  <2> QED
    BY <1>2, <2>2 DEF BookFor, MembershipBook
<1>6. m \in MarketsForSid(s, IF f.kind = "ok" THEN f.members ELSE subs[s].markets)
  BY DEF MarketsForSid
<1>7. b # InvalidateSidBook(s, m) \/ m \notin subs[s].markets
  BY <1>2, <1>4 DEF InvalidateSidBook, MarketsForSid
\* A control frame notes its number on every book of a member.
<1>8. ASSUME NEW c \in Book(Sids), NEW members, m \in MarketsForSid(s, members),
             b = ControlBook(s, i, members, m, c)
      PROVE  b.latestSeq = i
  BY <1>8 DEF ControlBook, NoteSequencedFrame, Book, Exists
<1>9. CASE f.kind = "snapshot"
  <2>1. b = SnapshotBook(s, i, f, m)
    BY <1>1, <1>9, Routing
  <2> QED
    BY <1>5, <1>9, <2>1 DEF SnapshotBook, ApplySnapshot, Book, Touches
<1>10. CASE f.kind = "delta"
  <2>1. b = DeltaBook(s, i, f, m)
    BY <1>1, <1>10, Routing
  <2>2. m \in f.about => b = ApplyDelta(BookFor(s, m), f.slot, f.change, i)
    BY <1>4, <1>5, <2>1 DEF DeltaBook
  <2>3. m \notin f.about => b = books[m]
    BY <2>1 DEF DeltaBook
  <2> QED
    BY <1>5, <1>10, <2>2, <2>3 DEF ApplyDelta, Book, Touches
<1>11. CASE f.kind = "badsnapshot"
  BY <1>1, <1>4, <1>5, <1>11, Routing DEF Touches
<1>12. CASE f.kind = "malformed"
  BY <1>1, <1>2, <1>4, <1>12, Routing DEF Touches, FailBook, Exists
<1>13. CASE f.kind = "control"
  BY <1>1, <1>2, <1>6, <1>8, <1>13, Routing DEF Touches
<1>14. CASE f.kind = "ok"
  BY <1>1, <1>5, <1>6, <1>8, <1>14, Routing DEF Touches
<1>15. CASE f.kind \in {"anonymous", "unknown"}
  BY <1>1, <1>3, <1>7, <1>15, Routing DEF UnknownBook
<1> QED
  BY <1>1, <1>9, <1>10, <1>11, <1>12, <1>13, <1>14, <1>15 DEF FrameKinds

\* Registering keeps the tracker of a known sid, and gives a new one to any other.
LEMMA Registered ==
  ASSUME TypeOK, UnknownIsFresh, NEW s \in Sids, NEW channel, NEW markets
  PROVE  /\ Register(s, channel, markets).known
         /\ Register(s, channel, markets).last = subs[s].last
         /\ (Register(s, channel, markets).violated <=> subs[s].violated)
         /\ Register(s, channel, markets).markets = subs[s].markets \cup markets
<1>1. subs[s] \in Subscription /\ (~subs[s].known => subs[s] = Unregistered)
  BY DEF TypeOK, UnknownIsFresh
<1>2. CASE subs[s].known
  BY <1>1, <1>2 DEF Register, Subscription
<1>3. CASE ~subs[s].known
  <2>1. Register(s, channel, markets) =
          [known |-> TRUE, channel |-> channel, markets |-> markets,
           last |-> NoSeq, violated |-> FALSE]
    BY <1>3 DEF Register, Unregistered
  <2>2. subs[s].last = NoSeq /\ subs[s].violated = FALSE /\ subs[s].markets = {}
    BY <1>1, <1>3 DEF Unregistered
  <2>3. subs[s].markets \cup markets = markets
    BY <2>2
  <2>4. Register(s, channel, markets).violated = FALSE
    BY <2>1
  <2>5. Register(s, channel, markets).violated <=> subs[s].violated
    BY <2>2, <2>4
  <2>6. Register(s, channel, markets).markets = subs[s].markets \cup markets
    BY <2>1, <2>3
  <2>7. Register(s, channel, markets).last = subs[s].last
    BY <2>1, <2>2
  <2>8. Register(s, channel, markets).known
    BY <2>1
  <2> QED
    BY <2>5, <2>6, <2>7, <2>8
<1> QED
  BY <1>2, <1>3

\* What a step may do to the registry's knowledge of a sid.
LEMMA FreshInd == TypeOK /\ UnknownIsFresh /\ [Next]_vars => UnknownIsFresh'
<1> SUFFICES ASSUME TypeOK, UnknownIsFresh, [Next]_vars PROVE UnknownIsFresh'
  OBVIOUS
<1>1. ASSUME NEW s \in Sids, NEW r \in Subscription, r.known,
             subs' = [subs EXCEPT ![s] = r]
      PROVE  UnknownIsFresh'
  BY <1>1 DEF UnknownIsFresh, TypeOK
<1>2. ASSUME subs' = subs PROVE UnknownIsFresh'
  BY <1>2 DEF UnknownIsFresh
<1>3. ASSUME NEW s \in Sids, NEW channel \in Channels, NEW markets \in SUBSET Markets
      PROVE  /\ Register(s, channel, markets) \in Subscription
             /\ Register(s, channel, markets).known
  BY <1>3, RegisterTyping, Registered
<1>4. CASE OpenConnection \/ CloseConnection
  BY <1>4 DEF OpenConnection, CloseConnection, UnknownIsFresh
<1>5. CASE \E s \in Sids : \E markets \in SUBSET MarketsOf(s) : NoteSubscribed(s, markets)
  <2>1. PICK s \in Sids : \E markets \in SUBSET MarketsOf(s) : NoteSubscribed(s, markets)
    BY <1>5
  <2>2. PICK markets \in SUBSET MarketsOf(s) : NoteSubscribed(s, markets)
    BY <2>1
  <2>3. markets \in SUBSET Markets /\ ChannelOf[s] \in Channels
    BY ConstantsAssumption DEF MarketsOf, Channels
  <2> QED
    BY <1>1, <1>3, <2>2, <2>3 DEF NoteSubscribed
<1>6. CASE \E s \in Sids : \E i \in 1..Len(log[s]) : Receive(s, i)
  <2>1. PICK s \in Sids : \E i \in 1..Len(log[s]) : Receive(s, i)
    BY <1>6
  <2>2. PICK i \in 1..Len(log[s]) : Receive(s, i)
    BY <2>1
  <2> DEFINE r == Register(s, "unknown", {})
             f == log[s][i]
  <2>3. r \in Subscription /\ r.known
    BY <1>3 DEF Channels
  <2>4. f \in Frame /\ i \in Nat
    BY LogTyping
  <2>5. CASE RefuseFrame(s, i, f)
    <3>1. [r EXCEPT !.violated = TRUE] \in Subscription /\ [r EXCEPT !.violated = TRUE].known
      BY <2>3 DEF Subscription
    <3> QED
      BY <1>1, <2>5, <3>1 DEF RefuseFrame
  <2>6. CASE AcceptFrame(s, i, f)
    <3> DEFINE r2 == [r EXCEPT !.last = i, !.markets = IF f.kind = "ok" THEN f.members ELSE @]
    <3>1. f.members \in SUBSET Markets
      BY <2>4 DEF Frame
    <3>2. r2 \in Subscription /\ r2.known
      BY <2>3, <2>4, <3>1 DEF Subscription
    <3> QED
      BY <1>1, <2>6, <3>2 DEF AcceptFrame
  <2>7. CASE UNCHANGED subs
    BY <1>2, <2>7
  <2> QED
    BY <2>2, <2>5, <2>6, <2>7 DEF Receive, JournalFailure, UnparsedFrame
<1>7. CASE ReceiveUnsequenced \/ RecordTransportSignal \/ FallSilent
  BY <1>2, <1>7 DEF ReceiveUnsequenced, RecordTransportSignal, FallSilent, JournalFailure
<1>8. CASE Venue
  BY ZenonT(30), <1>2, <1>8 DEF Venue, VenueSnapshot, VenueDelta, VenueUnreadable, VenueMembership,
     VenueOther, Send, clientVars
<1>9. CASE UNCHANGED vars
  BY <1>2, <1>9 DEF vars
<1> QED
  BY <1>4, <1>5, <1>6, <1>7, <1>8, <1>9 DEF Next, Client

\* Frames sent before are still there after a step that keeps the connection.
LEMMA LogGrows ==
  ASSUME TypeOK, TypeOK', Venue, NEW t \in Sids
  PROVE  /\ Len(log[t]) \in Nat /\ Len(log[t]) <= Len(log'[t])
         /\ \A k \in 1..Len(log[t]) : log'[t][k] = log[t][k]
<1>1. PICK s, g : s \in Sids /\ log' = [log EXCEPT ![s] = Append(log[s], g)]
  BY ZenonT(30), ConstantsAssumption DEF Venue, VenueSnapshot, VenueDelta, VenueUnreadable, VenueMembership,
     VenueOther, Send
<1>2. log[t] \in Seq(Frame) /\ log'[t] \in Seq(Frame)
  BY DEF TypeOK
<1>3. CASE t = s
  <2>1. log'[t] = Append(log[t], g)
    BY <1>1, <1>3 DEF TypeOK
  <2> QED
    BY <1>2, <2>1
<1>4. CASE t # s
  BY <1>1, <1>2, <1>4 DEF TypeOK
<1> QED
  BY <1>3, <1>4

\* A book that a step leaves alone stays traced.
LEMMA StillTraced ==
  ASSUME IndInv, Traced, NEW m \in Markets, Current(m), ~subs[SidOf[m]].violated,
         books'[m] = books[m], subs'[SidOf[m]].last = subs[SidOf[m]].last,
         \A k \in 1..Len(log[SidOf[m]]) : log'[SidOf[m]][k] = log[SidOf[m]][k]
  PROVE  TracedBook(m)'
<1> DEFINE s == SidOf[m]
           n == subs[s].last
           j == books[m].latestSeq
<1>1. /\ j \in 1..n /\ books[m].snapshotSeq <= j
      /\ Touches(log[s][j], m)
      /\ \A k \in (j + 1)..n : ~Touches(log[s][k], m)
  BY DEF Traced, TracedBook
<1>2. n \in 1..Len(log[s]) /\ j \in Nat /\ n \in Nat /\ Len(log[s]) \in Nat
  BY ConstantsAssumption DEF IndInv, Synchronised, TypeOK, Book
<1>3. \A k \in 1..n : log'[s][k] = log[s][k]
  BY <1>2
<1>4. Touches(log'[s][j], m) /\ \A k \in (j + 1)..n : ~Touches(log'[s][k], m)
  BY <1>1, <1>2, <1>3
<1> QED
  BY <1>1, <1>4 DEF TracedBook

\* The registry after a frame was refused or accepted.
LEMMA AfterFrame ==
  ASSUME TypeOK, UnknownIsFresh, NEW s \in Sids, NEW i \in 1..Len(log[s])
  PROVE  /\ RefuseFrame(s, i, log[s][i]) =>
              /\ subs'[s].violated
              /\ \A t \in Sids \ {s} : subs'[t] = subs[t]
         /\ AcceptFrame(s, i, log[s][i]) =>
              /\ subs'[s].last = i /\ ~subs'[s].violated /\ ~subs[s].violated
              /\ subs'[s].markets = IF log[s][i].kind = "ok" THEN log[s][i].members
                                    ELSE subs[s].markets
              /\ \A t \in Sids \ {s} : subs'[t] = subs[t]
<1> DEFINE r == Register(s, "unknown", {})
<1>1. r \in Subscription /\ (r.violated <=> subs[s].violated) /\ r.markets = subs[s].markets
  <2>1. r \in Subscription
    BY RegisterTyping DEF Channels
  <2>2. \A M : /\ Register(s, "unknown", M).violated <=> subs[s].violated
               /\ Register(s, "unknown", M).markets = subs[s].markets \cup M
    BY Registered
  <2>3. \A M : M = {} => subs[s].markets \cup M = subs[s].markets
    OBVIOUS
  <2>4. r.violated <=> subs[s].violated
    BY <2>2
  <2>5. r.markets = subs[s].markets
    BY <2>2, <2>3
  <2> QED
    BY <2>1, <2>4, <2>5
<1>2. ASSUME RefuseFrame(s, i, log[s][i])
      PROVE  subs'[s] = [r EXCEPT !.violated = TRUE] /\ \A t \in Sids \ {s} : subs'[t] = subs[t]
  BY <1>2 DEF RefuseFrame, TypeOK
<1>3. ASSUME AcceptFrame(s, i, log[s][i])
      PROVE  /\ subs'[s] = [r EXCEPT !.last = i, !.markets = IF log[s][i].kind = "ok"
                                                           THEN log[s][i].members ELSE @]
             /\ \A t \in Sids \ {s} : subs'[t] = subs[t]
             /\ ~subs[s].violated
  BY <1>3 DEF AcceptFrame, InSequence, TypeOK
<1>4. [r EXCEPT !.violated = TRUE].violated
  BY <1>1 DEF Subscription
<1>5. ASSUME NEW X
      PROVE  LET r2 == [r EXCEPT !.last = i, !.markets = X] IN
               r2.last = i /\ r2.markets = X /\ (r2.violated <=> r.violated)
  BY <1>1 DEF Subscription
<1>6. ASSUME AcceptFrame(s, i, log[s][i])
      PROVE  /\ subs'[s].last = i /\ ~subs'[s].violated /\ ~subs[s].violated
             /\ subs'[s].markets = IF log[s][i].kind = "ok" THEN log[s][i].members
                                   ELSE subs[s].markets
             /\ \A t \in Sids \ {s} : subs'[t] = subs[t]
  <2> DEFINE X == IF log[s][i].kind = "ok" THEN log[s][i].members ELSE r.markets
  <2>1. subs'[s] = [r EXCEPT !.last = i, !.markets = X]
    BY <1>3, <1>6
  <2>2. subs'[s].last = i /\ subs'[s].markets = X /\ (subs'[s].violated <=> r.violated)
    BY <1>5, <2>1
  <2> QED
    BY <1>1, <1>3, <1>6, <2>2
<1> QED
  BY <1>2, <1>4, <1>6

LEMMA TracedInd == TraceInv /\ IndInv' /\ [Next]_vars => Traced'
<1> SUFFICES ASSUME TraceInv, IndInv', [Next]_vars,
                    NEW m \in Markets, Current(m)', ~subs'[SidOf[m]].violated
             PROVE  TracedBook(m)'
  BY DEF Traced
<1> DEFINE s == SidOf[m]
<1>1. /\ IndInv /\ Traced /\ UnknownIsFresh /\ TypeOK /\ TypeOK' /\ s \in Sids
      /\ subs[s] \in Subscription
  BY ConstantsAssumption DEF TraceInv, IndInv, TypeOK
\* A step that leaves book, tracker and connection alone.
<1>2. ASSUME books'[m] = books[m], subs'[s] = subs[s], epoch' = epoch,
             \A k \in 1..Len(log[s]) : log'[s][k] = log[s][k]
      PROVE  TracedBook(m)'
  <2>1. Current(m) /\ ~subs[s].violated
    BY <1>2 DEF Current, Connected
  <2> QED
    BY <1>1, <1>2, <2>1, StillTraced
<1>3. CASE OpenConnection \/ CloseConnection
  BY <1>1, <1>3 DEF OpenConnection, CloseConnection, Current, Unregistered
<1>4. CASE \E t \in Sids : \E markets \in SUBSET MarketsOf(t) : NoteSubscribed(t, markets)
  <2>1. PICK t \in Sids : \E markets \in SUBSET MarketsOf(t) : NoteSubscribed(t, markets)
    BY <1>4
  <2>2. PICK markets \in SUBSET MarketsOf(t) : NoteSubscribed(t, markets)
    BY <2>1
  <2>3. epoch' = epoch /\ log' = log
    BY <2>2 DEF NoteSubscribed
  <2>4. books'[m] = books[m] \/ books'[m] = ResetForNewEpoch(epoch, t)
    BY <2>2 DEF NoteSubscribed
  <2>5. books'[m] = books[m]
    BY <2>4 DEF Current, ResetForNewEpoch, BookWith
  <2>6. CASE t # s
    BY <1>1, <1>2, <2>2, <2>3, <2>5, <2>6 DEF NoteSubscribed, TypeOK
  <2>7. CASE t = s
    <3>1. subs'[s] = Register(s, ChannelOf[s], markets) /\ log[s] = <<>>
      BY <1>1, <2>2, <2>7 DEF NoteSubscribed, TypeOK
    <3>2. subs'[s].last \in 1..Len(log[s])
      BY <2>3 DEF IndInv, Synchronised
    <3> QED
      BY <3>1, <3>2
  <2> QED
    BY <2>6, <2>7
<1>5. CASE \E t \in Sids : \E i \in 1..Len(log[t]) : Receive(t, i)
  <2>1. PICK t \in Sids : \E i \in 1..Len(log[t]) : Receive(t, i)
    BY <1>5
  <2>2. PICK i \in 1..Len(log[t]) : Receive(t, i)
    BY <2>1
  <2> DEFINE f == log[t][i]
  <2>3. epoch' = epoch /\ log' = log /\ Connected
    BY <2>2 DEF Receive
  <2>4. CASE JournalFailure
    BY <1>1, <2>3, <2>4 DEF JournalFailure, InvalidateEpochBook, Invalidate, Current, TypeOK, Book
  <2>5. CASE UnparsedFrame(f)
    BY <1>2, <2>3, <2>5 DEF UnparsedFrame
  <2>6. CASE RefuseFrame(t, i, f)
    <3>1. t # s /\ subs'[s] = subs[s]
      BY <1>1, <2>6, AfterFrame
    <3>2. books'[m] = books[m]
      BY <1>1, <2>6, <3>1, OtherSid DEF RefuseFrame
    <3> QED
      BY <1>2, <2>3, <3>1, <3>2
  <2>7. CASE AcceptFrame(t, i, f)
    <3>1. CASE t # s
      <4>1. books'[m] = books[m]
        BY <1>1, <2>7, <3>1, OtherSid DEF AcceptFrame
      <4>2. subs'[s] = subs[s]
        BY <1>1, <2>7, <3>1, AfterFrame
      <4> QED
        BY <1>2, <2>3, <4>1, <4>2
    <3>2. CASE t = s
      <4> DEFINE b == RoutedBook(s, i, f, m)
                 n == subs[s].last
      <4>1. /\ books'[m] = b /\ b.integrity = "VALID" /\ b.epoch = epoch
            /\ f.kind # "unparsed" /\ InSequence(s, i)
        BY <2>3, <2>7, <3>2 DEF AcceptFrame, Current
      <4>2. /\ subs'[s].last = i /\ ~subs[s].violated
            /\ m \in IF f.kind = "ok" THEN f.members ELSE subs[s].markets
        BY <1>1, <2>7, <3>2, AfterFrame DEF Current
      <4>3. \/ b.snapshotSeq = i
            \/ Current(m) /\ i = n + 1 /\ b.snapshotSeq = books[m].snapshotSeq
        BY <1>1, <2>3, <3>2, <4>1, <4>2, AcceptedFrame
      <4>4. \/ b.latestSeq = i /\ Touches(f, m)
            \/ b = books[m] /\ f.kind # "ok" /\ ~Touches(f, m)
        BY <1>1, <2>3, <3>2, <4>1, <4>2, AcceptedTouch
      <4>5. i \in Nat \ {0} /\ n \in Nat
        BY <1>1, <3>2, LogTyping DEF Subscription
      <4>6. Current(m) => /\ books[m].latestSeq \in 1..n
                          /\ books[m].snapshotSeq <= books[m].latestSeq
                          /\ Touches(log[s][books[m].latestSeq], m)
                          /\ \A k \in (books[m].latestSeq + 1)..n : ~Touches(log[s][k], m)
        BY <1>1, <4>2 DEF Traced, TracedBook
      <4>7. CASE b.latestSeq = i /\ Touches(f, m)
        <5>1. b.snapshotSeq <= i
          <6>1. CASE b.snapshotSeq = i
            BY <4>5, <6>1
          <6>2. CASE Current(m) /\ i = n + 1 /\ b.snapshotSeq = books[m].snapshotSeq
            <7>1. books[m].snapshotSeq \in Nat /\ books[m].latestSeq \in Nat
              BY <1>1 DEF TypeOK, Book
            <7> QED
              BY <4>5, <4>6, <6>2, <7>1
          <6> QED
            BY <4>3, <6>1, <6>2
        <5>2. i \in 1..i /\ \A k \in (i + 1)..i : FALSE
          BY <4>5
        <5> QED
          BY <2>3, <3>2, <4>1, <4>2, <4>7, <5>1, <5>2 DEF TracedBook
      <4>8. CASE b = books[m] /\ f.kind # "ok" /\ ~Touches(f, m)
        <5>1. Current(m)
          BY <2>3, <4>1, <4>2, <4>8 DEF Current
        <5>2. n \in 1..Len(log[s])
          BY <1>1, <4>2, <5>1 DEF IndInv, Synchronised
        <5>3. i = n + 1
          BY <4>1, <5>2 DEF InSequence, NoSeq
        <5>4. \A k \in (books[m].latestSeq + 1)..i : ~Touches(log[s][k], m)
          <6>1. \A k \in (books[m].latestSeq + 1)..i :
                  k = i \/ k \in (books[m].latestSeq + 1)..n
            BY <4>5, <4>6, <5>1, <5>3
          <6> QED
            BY <3>2, <4>6, <4>8, <5>1, <6>1
        <5>5. books[m].latestSeq \in 1..i
          BY <4>5, <4>6, <5>1, <5>3
        <5> QED
          BY <2>3, <4>1, <4>2, <4>6, <4>8, <5>1, <5>4, <5>5 DEF TracedBook
      <4> QED
        BY <4>4, <4>7, <4>8
    <3> QED
      BY <3>1, <3>2
  <2> QED
    BY <2>2, <2>4, <2>5, <2>6, <2>7 DEF Receive
<1>6. CASE ReceiveUnsequenced \/ RecordTransportSignal \/ FallSilent
  <2>1. epoch' = epoch /\ log' = log
    BY <1>6 DEF ReceiveUnsequenced, RecordTransportSignal, FallSilent
  <2>2. CASE JournalFailure
    BY <1>1, <2>1, <2>2 DEF JournalFailure, InvalidateEpochBook, Invalidate, Current, TypeOK, Book
  <2>3. CASE books' = books /\ subs' = subs
    BY <1>2, <2>1, <2>3
  <2> QED
    BY <1>6, <2>2, <2>3 DEF ReceiveUnsequenced, RecordTransportSignal, FallSilent
<1>7. CASE Venue
  <2>1. books' = books /\ subs' = subs /\ epoch' = epoch
    BY ZenonT(30), <1>7 DEF Venue, VenueSnapshot, VenueDelta, VenueUnreadable, VenueMembership,
       VenueOther, Send, clientVars
  <2>2. \A k \in 1..Len(log[s]) : log'[s][k] = log[s][k]
    BY <1>1, <1>7, LogGrows
  <2> QED
    BY <1>2, <2>1, <2>2
<1>8. CASE UNCHANGED vars
  BY <1>2, <1>8 DEF vars
<1> QED
  BY <1>3, <1>4, <1>5, <1>6, <1>7, <1>8 DEF Next, Client

LEMMA TraceInit == Init => TraceInv
<1> SUFFICES ASSUME Init PROVE TraceInv
  OBVIOUS
<1>1. \A s \in Sids : subs[s] = Unregistered
  BY DEF Init
<1>2. \A m \in Markets : ~Current(m)
  BY DEF Init, Current, Connected
<1> QED
  BY <1>1, <1>2, InitInd DEF UnknownIsFresh, Traced, TraceInv

LEMMA TraceStep == TraceInv /\ [Next]_vars => TraceInv'
<1>1. TraceInv => TypeOK /\ IndInv /\ UnknownIsFresh
  BY DEF TraceInv, IndInv
<1> QED
  BY <1>1, StepInd, FreshInd, TracedInd DEF TraceInv

\* What the invariant says of the books a consumer may see.
LEMMA WhatIsShown ==
  TraceInv => /\ EligibleMatchesVenue /\ EligibleIsAuditable
              /\ ViolatedSidShowsNothing /\ ProvenanceIsExact
<1> SUFFICES ASSUME TraceInv
             PROVE  /\ EligibleMatchesVenue /\ EligibleIsAuditable
                    /\ ViolatedSidShowsNothing /\ ProvenanceIsExact
  OBVIOUS
<1>1. IndInv /\ Traced /\ ViolatedSidShowsNothing
  BY DEF TraceInv, IndInv
<1>2. EligibleMatchesVenue
  BY <1>1, EligibleIsCurrent DEF EligibleMatchesVenue
<1>3. ASSUME NEW m \in Markets, ScanEligible(m)
      PROVE  /\ books[m].sid = SidOf[m]
             /\ books[m].snapshotSeq..subs[SidOf[m]].last \subseteq journal[SidOf[m]]
             /\ TracedBook(m)
  <2>1. books[m].sid = SidOf[m] /\ Current(m) /\ ~subs[SidOf[m]].violated
    BY <1>1, <1>3, EligibleIsCurrent
  <2> QED
    BY <1>1, <2>1 DEF IndInv, Synchronised, Traced
<1>4. EligibleIsAuditable
  BY <1>3 DEF EligibleIsAuditable
<1>5. ProvenanceIsExact
  BY <1>3 DEF ProvenanceIsExact, TracedBook
<1> QED
  BY <1>1, <1>2, <1>4, <1>5

-----------------------------------------------------------------------------
(* What may hide a book.                                                   *)

\* A current book that is well when a step is over, was of this connection and still
\* is of the subscription, is eligible.
LEMMA StaysEligible ==
  ASSUME IndInv', NEW m \in Markets, ScanEligible(m),
         journalHealthy', liveness' = "HEALTHY", epoch' = epoch,
         books'[m].integrity = "VALID", books'[m].epoch = epoch,
         m \in subs'[SidOf[m]].markets
  PROVE  ScanEligible(m)'
<1>1. books'[m].sid = SidOf[m]
  BY DEF IndInv, OwnSid
<1> QED
  BY <1>1 DEF ScanEligible, Connected

\* An accepted frame that does not spoil a current book leaves it valid.
LEMMA AcceptedKeeps ==
  ASSUME IndInv, NEW m \in Markets, Current(m), NEW s \in Sids, s = SidOf[m],
         NEW i \in 1..Len(log[s]), NEW f, f = log[s][i], f.kind # "unparsed",
         ~Spoils(f, m),
         m \in IF f.kind = "ok" THEN f.members ELSE subs[s].markets
  PROVE  RoutedBook(s, i, f, m).integrity = "VALID" /\ RoutedBook(s, i, f, m).epoch = epoch
<1> DEFINE b == books[m]
<1>1. f.kind \in FrameKinds \ {"unparsed"}
  BY LogTyping DEF IndInv
<1>2. b \in Book(Sids) /\ b.integrity = "VALID" /\ b.epoch = epoch
  BY DEF IndInv, TypeOK, Current
<1>3. m \in subs[s].markets
  BY DEF Current
<1>4. BookFor(s, m) = b
  BY <1>2 DEF BookFor, Exists
<1>5. CASE f.kind = "snapshot"
  <2>1. RoutedBook(s, i, f, m) = b \/ RoutedBook(s, i, f, m) = ApplySnapshot(b, f.truth[m], i)
    BY <1>1, <1>4, <1>5, Routing DEF SnapshotBook
  <2> QED
    BY <1>2, <2>1 DEF ApplySnapshot, Book
<1>6. CASE f.kind \in {"delta", "badsnapshot", "malformed"}
  <2>1. m \notin f.about
    BY <1>6 DEF Spoils
  <2>2. RoutedBook(s, i, f, m) = b
    BY <1>1, <1>6, <2>1, Routing DEF DeltaBook
  <2> QED
    BY <1>2, <2>2
<1>7. CASE f.kind = "control"
  <2>1. RoutedBook(s, i, f, m) \in {b, NoteSequencedFrame(b, i)}
    BY <1>1, <1>7, Routing DEF ControlBook
  <2> QED
    BY <1>2, <2>1 DEF NoteSequencedFrame, Book
<1>8. CASE f.kind = "ok"
  <2>1. MembershipBook(s, f, m) = b
    BY <1>3, <1>8 DEF MembershipBook
  <2>2. RoutedBook(s, i, f, m) \in {b, NoteSequencedFrame(b, i)}
    BY <1>1, <1>8, <2>1, Routing DEF ControlBook
  <2> QED
    BY <1>2, <2>2 DEF NoteSequencedFrame, Book
<1> QED
  BY <1>1, <1>5, <1>6, <1>7, <1>8 DEF FrameKinds, Spoils

LEMMA LossStep ==
  ASSUME TraceInv, IndInv', [Next]_vars, NEW m \in Markets, ScanEligible(m),
         epoch' = epoch, journalHealthy', liveness' = "HEALTHY",
         ~subs'[SidOf[m]].violated, m \in subs'[SidOf[m]].markets,
         books'[m].integrity # "WAITING_SNAPSHOT",
         ~ /\ subs'[SidOf[m]].last = subs[SidOf[m]].last + 1
           /\ Spoils(log[SidOf[m]][subs'[SidOf[m]].last], m)
  PROVE  ScanEligible(m)'
<1> DEFINE s == SidOf[m]
<1>1. /\ IndInv /\ TypeOK /\ UnknownIsFresh /\ s \in Sids
      /\ Current(m) /\ ~subs[s].violated /\ subs[s].last \in 1..Len(log[s])
  BY EligibleIsCurrent DEF TraceInv, IndInv
<1>2. books[m].integrity = "VALID" /\ books[m].epoch = epoch /\ Connected /\ journalHealthy
  BY <1>1 DEF Current, ScanEligible
<1>3. epoch \in Nat /\ nextEpoch \in Nat /\ epoch < nextEpoch
  BY <1>1 DEF TypeOK
<1>4. ASSUME books'[m] = books[m] PROVE ScanEligible(m)'
  BY <1>2, <1>4, StaysEligible
<1>5. CASE OpenConnection \/ CloseConnection
  BY <1>2, <1>3, <1>5 DEF OpenConnection, CloseConnection, Connected
<1>6. CASE \E t \in Sids : \E markets \in SUBSET MarketsOf(t) : NoteSubscribed(t, markets)
  BY <1>4, <1>6 DEF NoteSubscribed, ResetForNewEpoch, BookWith
<1>7. CASE \E t \in Sids : \E i \in 1..Len(log[t]) : Receive(t, i)
  <2>1. PICK t \in Sids : \E i \in 1..Len(log[t]) : Receive(t, i)
    BY <1>7
  <2>2. PICK i \in 1..Len(log[t]) : Receive(t, i)
    BY <2>1
  <2> DEFINE f == log[t][i]
  <2>3. CASE JournalFailure
    BY <2>3 DEF JournalFailure
  <2>4. CASE UnparsedFrame(f)
    BY <1>4, <2>4 DEF UnparsedFrame
  <2>5. CASE RefuseFrame(t, i, f)
    <3>1. t # s
      BY <1>1, <2>5, AfterFrame
    <3> QED
      BY <1>1, <1>4, <2>5, <3>1, OtherSid DEF RefuseFrame
  <2>6. CASE AcceptFrame(t, i, f) /\ t # s
    BY <1>1, <1>4, <2>6, OtherSid DEF AcceptFrame
  <2>7. CASE AcceptFrame(t, i, f) /\ t = s
    <3>1. /\ books'[m] = RoutedBook(s, i, f, m)
          /\ f.kind # "unparsed" /\ InSequence(s, i)
      BY <2>7 DEF AcceptFrame
    <3>2. /\ subs'[s].last = i
          /\ m \in IF f.kind = "ok" THEN f.members ELSE subs[s].markets
      BY <1>1, <2>7, AfterFrame
    <3>3. i = subs[s].last + 1
      BY <1>1, <3>1 DEF InSequence, NoSeq
    <3>4. ~Spoils(f, m)
      BY <2>7, <3>2, <3>3
    <3>5. books'[m].integrity = "VALID" /\ books'[m].epoch = epoch
      BY <1>1, <2>7, <3>1, <3>2, <3>4, AcceptedKeeps
    <3> QED
      BY <3>5, StaysEligible
  <2> QED
    BY <2>2, <2>3, <2>4, <2>5, <2>6, <2>7 DEF Receive
<1>8. CASE ReceiveUnsequenced \/ RecordTransportSignal \/ FallSilent
  BY <1>4, <1>8 DEF ReceiveUnsequenced, RecordTransportSignal, FallSilent, JournalFailure
<1>9. CASE Venue
  BY ZenonT(30), <1>4, <1>9 DEF Venue, VenueSnapshot, VenueDelta, VenueUnreadable, VenueMembership,
     VenueOther, Send, clientVars
<1>10. CASE UNCHANGED vars
  BY <1>4, <1>10 DEF vars
<1> QED
  BY <1>5, <1>6, <1>7, <1>8, <1>9, <1>10 DEF Next, Client

-----------------------------------------------------------------------------
(* The refinement of ConsistentFeed.                                       *)

\* A stream of the abstract feed is the stream of books the venue sent.
HistoryTyped ==
  \A s \in Sids : /\ FeedHistory[s] \in Seq([Markets -> Ladder])
                  /\ Len(FeedHistory[s]) = Len(log[s])
                  /\ \A i \in 1..Len(log[s]) : FeedHistory[s][i] = log[s][i].truth

LEMMA HistoryTyping == TypeOK => HistoryTyped
<1> SUFFICES ASSUME TypeOK, NEW s \in Sids
             PROVE  /\ FeedHistory[s] \in Seq([Markets -> Ladder])
                    /\ Len(FeedHistory[s]) = Len(log[s])
                    /\ \A i \in 1..Len(log[s]) : FeedHistory[s][i] = log[s][i].truth
  BY DEF HistoryTyped
<1> DEFINE n == Len(log[s])
           h == [i \in 1..n |-> log[s][i].truth]
<1>1. n \in Nat /\ \A i \in 1..n : log[s][i].truth \in [Markets -> Ladder]
  <2>1. log[s] \in Seq(Frame)
    BY DEF TypeOK
  <2>2. \A i \in 1..n : log[s][i] \in Frame
    BY <2>1
  <2>3. \A f \in Frame : f.truth \in [Markets -> Ladder]
    BY DEF Frame
  <2> QED
    BY <2>1, <2>2, <2>3
<1>2. h \in Seq([Markets -> Ladder]) /\ Len(h) = n
  BY <1>1
<1>3. FeedHistory[s] = h
  BY DEF FeedHistory
<1> QED
  BY <1>2, <1>3

\* What is eligible is the venue's book at the tracker's position.
LEMMA ShownIsAtPosition == TraceInv => Feed!ShownAt(FeedHistory, FeedPosition, FeedShown)
<1> SUFFICES ASSUME TraceInv, NEW m \in Markets, FeedShown[m] # {}
             PROVE  LET s == SidOf[m] IN
                      /\ FeedPosition[s] \in 1..Len(FeedHistory[s])
                      /\ FeedShown[m] = {FeedHistory[s][FeedPosition[s]][m]}
  BY DEF Feed!ShownAt
<1>1. ScanEligible(m) /\ FeedShown[m] = {books[m].ladder}
  BY DEF FeedShown
<1> DEFINE s == SidOf[m]
<1>2. /\ s \in Sids /\ ~subs[s].violated
      /\ subs[s].last \in 1..Len(log[s])
      /\ books[m].ladder = log[s][subs[s].last].truth[m]
  BY <1>1, EligibleIsCurrent DEF TraceInv
<1>3. FeedPosition[s] = subs[s].last
  BY <1>2 DEF FeedPosition
<1>4. Len(FeedHistory[s]) = Len(log[s])
      /\ FeedHistory[s][subs[s].last] = log[s][subs[s].last].truth
  BY <1>2, HistoryTyping DEF HistoryTyped, TraceInv, IndInv
<1> QED
  BY <1>1, <1>2, <1>3, <1>4

LEMMA FeedInit == Init => Feed!Init
<1> SUFFICES ASSUME Init PROVE Feed!Init
  OBVIOUS
<1>1. \A s \in Sids : [i \in 1..Len(log[s]) |-> log[s][i].truth] = <<>>
  BY DEF Init
<1>2. \A s \in Sids : (IF subs[s].violated THEN -1 ELSE subs[s].last) = 0
  BY DEF Init, Unregistered, NoSeq
<1>3. \A m \in Markets : ~ScanEligible(m)
  BY DEF Init, ScanEligible, Connected
<1> QED
  BY <1>1, <1>2, <1>3 DEF Feed!Init, FeedHistory, FeedPosition, FeedShown

\* A connection that begins or ends.
LEMMA FeedRestart ==
  ASSUME IndInv', OpenConnection \/ CloseConnection
  PROVE  Feed!Restart
<1>1. \A s \in Sids : subs'[s] = Unregistered /\ log'[s] = <<>>
  BY DEF OpenConnection, CloseConnection
<1>2. \A s \in Sids : [i \in 1..Len(log'[s]) |-> log'[s][i].truth] = <<>>
  BY <1>1
<1>3. \A s \in Sids : (IF subs'[s].violated THEN -1 ELSE subs'[s].last) = 0
  BY <1>1 DEF Unregistered, NoSeq
<1>4. \A m \in Markets : ~ScanEligible(m)'
  <2> SUFFICES ASSUME NEW m \in Markets PROVE ~ScanEligible(m)'
    OBVIOUS
  <2>1. books'[m].sid \in Sids
    BY DEF IndInv, TypeOK, Book
  <2> QED
    BY <1>1, <2>1 DEF ScanEligible, Unregistered
<1> QED
  BY <1>2, <1>3, <1>4 DEF Feed!Restart, FeedHistory, FeedPosition, FeedShown

\* Nothing is read: what is shown may change, the place in the streams does not.
LEMMA FeedReveal ==
  ASSUME TraceInv', log' = log,
         \A s \in Sids : /\ subs'[s].violated <=> subs[s].violated
                         /\ subs'[s].last = subs[s].last
  PROVE  Feed!Reveal
<1>1. FeedHistory' = FeedHistory
  BY DEF FeedHistory
<1>2. FeedPosition' = FeedPosition
  BY DEF FeedPosition
<1>3. Feed!ShownAt(FeedHistory, FeedPosition, FeedShown)'
  BY ShownIsAtPosition, PTL
<1>4. Feed!ShownAt(FeedHistory, FeedPosition, FeedShown')
  BY <1>1, <1>2, <1>3 DEF Feed!ShownAt
<1> QED
  BY <1>1, <1>2, <1>4 DEF Feed!Reveal

\* A numbered frame: the stream's position moves, or is lost.
LEMMA FeedRead ==
  ASSUME TraceInv, TraceInv', log' = log, NEW s \in Sids, NEW i \in 1..Len(log[s]),
         RefuseFrame(s, i, log[s][i]) \/ AcceptFrame(s, i, log[s][i])
  PROVE  Feed!Read
<1>1. FeedHistory' = FeedHistory
  BY DEF FeedHistory
<1>2. Feed!ShownAt(FeedHistory, FeedPosition, FeedShown)'
  BY ShownIsAtPosition, PTL
<1>3. Feed!ShownAt(FeedHistory, FeedPosition', FeedShown')
  BY <1>1, <1>2 DEF Feed!ShownAt
<1>4. TypeOK /\ UnknownIsFresh /\ Len(FeedHistory[s]) = Len(log[s])
  BY HistoryTyping DEF HistoryTyped, TraceInv, IndInv
<1>5. \A t \in Sids \ {s} : FeedPosition'[t] = FeedPosition[t]
  <2>1. \A t \in Sids \ {s} : subs'[t] = subs[t]
    BY <1>4, AfterFrame
  <2> QED
    BY <2>1 DEF FeedPosition
<1>6. Feed!Advance(s)
  <2>1. CASE RefuseFrame(s, i, log[s][i])
    <3>1. subs'[s].violated
      BY <1>4, <2>1, AfterFrame
    <3> QED
      BY <3>1 DEF FeedPosition, Feed!Advance, Feed!Lost
  <2>2. CASE AcceptFrame(s, i, log[s][i])
    <3>1. subs'[s].last = i /\ ~subs'[s].violated /\ ~subs[s].violated
      BY <1>4, <2>2, AfterFrame
    <3>2. FeedPosition'[s] = i /\ FeedPosition[s] = subs[s].last
      BY <3>1 DEF FeedPosition
    <3>3. subs[s].last = 0 \/ i = subs[s].last + 1
      BY <2>2 DEF AcceptFrame, InSequence, NoSeq
    <3>4. subs[s].last \in Nat
      BY <1>4 DEF TypeOK, Subscription
    <3> QED
      BY <1>4, <3>2, <3>3, <3>4 DEF Feed!Advance, Feed!Lost
  <2> QED
    BY <2>1, <2>2
<1> QED
  BY <1>1, <1>3, <1>5, <1>6 DEF Feed!Read

\* One frame sent: the history of its stream grows by one state of the books.
LEMMA FeedPublish ==
  ASSUME TypeOK, TypeOK', Venue
  PROVE  Feed!Publish
<1> DEFINE T == [Markets -> Ladder]
<1>1. PICK s, g : s \in Sids /\ log' = [log EXCEPT ![s] = Append(log[s], g)]
  BY ZenonT(30), ConstantsAssumption DEF Venue, VenueSnapshot, VenueDelta, VenueUnreadable, VenueMembership,
     VenueOther, Send
<1>2. UNCHANGED clientVars
  BY DEF Venue, VenueSnapshot, VenueDelta, VenueUnreadable, VenueMembership, VenueOther, Send
<1>3. FeedPosition' = FeedPosition /\ FeedShown' = FeedShown
  BY <1>2 DEF clientVars, FeedPosition, FeedShown, ScanEligible, Connected
<1>4. \A t \in Sids \ {s} : FeedHistory'[t] = FeedHistory[t]
  <2>1. \A t \in Sids \ {s} : log'[t] = log[t]
    BY <1>1 DEF TypeOK
  <2> QED
    BY <2>1 DEF FeedHistory
<1>5. /\ FeedHistory[s] \in Seq(T)
      /\ Len(FeedHistory[s]) = Len(log[s])
      /\ \A k \in 1..Len(log[s]) : FeedHistory[s][k] = log[s][k].truth
  BY <1>1, HistoryTyping DEF HistoryTyped
<1>6. HistoryTyped'
  BY HistoryTyping, PTL
<1>7. /\ FeedHistory'[s] \in Seq(T)
      /\ Len(FeedHistory'[s]) = Len(log'[s])
      /\ \A k \in 1..Len(log'[s]) : FeedHistory'[s][k] = log'[s][k].truth
  BY <1>1, <1>6 DEF HistoryTyped
<1>8. Len(log'[s]) = Len(log[s]) + 1 /\ Len(log[s]) \in Nat
  <2>1. log[s] \in Seq(Frame) /\ log'[s] = Append(log[s], g) /\ log'[s] \in Seq(Frame)
    BY <1>1 DEF TypeOK
  <2> QED
    BY <2>1
<1>9. \A k \in 1..Len(log[s]) : FeedHistory'[s][k] = FeedHistory[s][k]
  <2>1. \A k \in 1..Len(log[s]) : log'[s][k] = log[s][k]
    BY <1>1, LogGrows
  <2> QED
    BY <1>5, <1>7, <1>8, <2>1
<1>10. SubSeq(FeedHistory'[s], 1, Len(FeedHistory[s])) = FeedHistory[s]
  <2> DEFINE h == SubSeq(FeedHistory'[s], 1, Len(log[s]))
  <2>1. \A k \in 1..Len(log[s]) : FeedHistory'[s][k] \in T
    BY <1>5, <1>9
  <2>2. /\ h \in Seq(T) /\ Len(h) = Len(log[s])
        /\ \A k \in 1..Len(log[s]) : h[k] = FeedHistory'[s][k]
    BY <1>7, <1>8, <2>1
  <2> QED
    BY <1>1, <1>5, <1>9, <2>2, SeqEqual
<1> QED
  BY <1>1, <1>3, <1>4, <1>5, <1>7, <1>8, <1>10 DEF Feed!Publish

LEMMA FeedStep == TraceInv /\ TraceInv' /\ [Next]_vars => [Feed!Next]_(Feed!vars)
<1> SUFFICES ASSUME TraceInv, TraceInv', [Next]_vars PROVE [Feed!Next]_(Feed!vars)
  OBVIOUS
<1>1. TypeOK /\ TypeOK' /\ IndInv' /\ UnknownIsFresh
  BY DEF TraceInv, IndInv
<1>2. CASE OpenConnection \/ CloseConnection
  BY <1>1, <1>2, FeedRestart DEF Feed!Next
<1>3. CASE \E s \in Sids : \E markets \in SUBSET MarketsOf(s) : NoteSubscribed(s, markets)
  <2>1. PICK s \in Sids : \E markets \in SUBSET MarketsOf(s) : NoteSubscribed(s, markets)
    BY <1>3
  <2>2. PICK markets \in SUBSET MarketsOf(s) : NoteSubscribed(s, markets)
    BY <2>1
  <2>3. log' = log /\ subs'[s] = Register(s, ChannelOf[s], markets)
        /\ \A t \in Sids \ {s} : subs'[t] = subs[t]
    BY <1>1, <2>2 DEF NoteSubscribed, TypeOK
  <2>4. (subs'[s].violated <=> subs[s].violated) /\ subs'[s].last = subs[s].last
    BY <1>1, <2>3, Registered
  <2>5. Feed!Reveal
    BY <2>3, <2>4, FeedReveal
  <2> QED
    BY <2>5 DEF Feed!Next
<1>4. CASE \E s \in Sids : \E i \in 1..Len(log[s]) : Receive(s, i)
  <2>1. PICK s \in Sids : \E i \in 1..Len(log[s]) : Receive(s, i)
    BY <1>4
  <2>2. PICK i \in 1..Len(log[s]) : Receive(s, i)
    BY <2>1
  <2>3. log' = log
    BY <2>2 DEF Receive
  <2>4. CASE RefuseFrame(s, i, log[s][i]) \/ AcceptFrame(s, i, log[s][i])
    BY <2>3, <2>4, FeedRead DEF Feed!Next
  <2>5. CASE subs' = subs
    BY <2>3, <2>5, FeedReveal DEF Feed!Next
  <2> QED
    BY <2>2, <2>4, <2>5 DEF Receive, JournalFailure, UnparsedFrame
<1>5. CASE ReceiveUnsequenced \/ RecordTransportSignal \/ FallSilent
  <2>1. log' = log /\ subs' = subs
    BY <1>5 DEF ReceiveUnsequenced, RecordTransportSignal, FallSilent, JournalFailure
  <2> QED
    BY <2>1, FeedReveal DEF Feed!Next
<1>6. CASE Venue
  BY <1>1, <1>6, FeedPublish DEF Feed!Next
<1>7. CASE UNCHANGED vars
  BY <1>7 DEF vars, Feed!vars, FeedHistory, FeedPosition, FeedShown, ScanEligible, Connected
<1> QED
  BY <1>2, <1>3, <1>4, <1>5, <1>6, <1>7 DEF Next, Client

-----------------------------------------------------------------------------
(* Theorems about Reconstruction.                                          *)

\* What links the venue's stream, the tracker and the books holds throughout.
THEOREM Invariance == Spec => []IndInv
BY InitInd, StepInd, PTL DEF Spec

\* So does what links a book to the last frame that touched it.
THEOREM TraceInvariance == Spec => []TraceInv
BY TraceInit, TraceStep, PTL DEF Spec

\* Whatever the network did to the frames, an eligible book is the venue's own
\* (scan_eligible and the checks of handle_frame it rests on).
THEOREM EligibleBooksAreTheVenues == Spec => []EligibleMatchesVenue
BY TraceInvariance, WhatIsShown, PTL

\* Nothing is shown whose inputs were not all journalled.
THEOREM EligibleBooksAreAuditable == Spec => []EligibleIsAuditable
BY TraceInvariance, WhatIsShown, PTL

\* A violated stream shows nothing for the rest of its connection, whichever
\* frames arrive after the violation (_invalidate_sid_books).
THEOREM ViolatedStreamsShowNothing == Spec => []ViolatedSidShowsNothing
BY TraceInvariance, WhatIsShown, PTL

\* What a consumer is told about a book's last frame is so (BookProvenance).
THEOREM ProvenanceIsRight == Spec => []ProvenanceIsExact
BY TraceInvariance, WhatIsShown, PTL

\* Failing closed is never wider than the code can justify: a book is hidden only by
\* the end of its connection, the journal, the transport, its own stream or membership,
\* or a frame that could have been about it.
THEOREM LossOnlyForCause == Spec => LossIsJustified
<1> DEFINE Cause(m) ==
      LET s == books[m].sid IN
        ScanEligible(m) /\ ~ScanEligible(m)' =>
          \/ epoch' # epoch \/ ~journalHealthy' \/ liveness' # "HEALTHY"
          \/ subs'[s].violated
          \/ m \notin subs'[s].markets
          \/ books'[m].integrity = "WAITING_SNAPSHOT"
          \/ subs'[s].last = subs[s].last + 1
             /\ Spoils(log[s][subs'[s].last], m)
<1>1. TraceInv /\ TraceInv' /\ [Next]_vars => [\A m \in Markets : Cause(m)]_vars
  <2> SUFFICES ASSUME TraceInv, TraceInv', [Next]_vars, NEW m \in Markets
               PROVE  Cause(m)
    OBVIOUS
  <2> SUFFICES ASSUME ScanEligible(m) PROVE Cause(m)
    OBVIOUS
  <2>1. books[m].sid = SidOf[m]
    BY EligibleIsCurrent DEF TraceInv
  <2>2. IndInv'
    BY DEF TraceInv
  <2> QED
    BY <2>1, <2>2, LossStep
<1> QED
  BY <1>1, TraceInvariance, PTL DEF Spec, LossIsJustified

\* The reconstructor implements ConsistentFeed.
THEOREM RefinesFeed == Spec => FeedSpec
BY FeedInit, FeedStep, TraceInvariance, PTL DEF Spec, FeedSpec, Feed!Spec

-----------------------------------------------------------------------------
(* The collector: a reconstructor per connection.                          *)

\* A new reconstructor has whatever the invariant asks of one that just started.
LEMMA NewReconstructorInd ==
  ASSUME NEW e \in Nat, NewReconstructor(e)
  PROVE  TraceInv' /\ OneConnection' /\ Enrolled'
<1>1. /\ \A s \in Sids : subs'[s] = Unregistered /\ log'[s] = <<>>
      /\ \A m \in Markets : books'[m] = NoBook(SidOf[m])
      /\ epoch' = e /\ nextEpoch' = e + 1
  BY DEF NewReconstructor
<1>2. TypeOK'
  <2>1. EmptyLadder \in Ladder
    BY DEF EmptyLadder, Ladder
  <2>2. Unregistered \in Subscription
    BY DEF Unregistered, Subscription, Channels, NoSeq
  <2>3. \A m \in Markets : NoBook(SidOf[m]) \in Book(Sids)
    BY <2>1, ConstantsAssumption DEF NoBook, BookWith, Book, Integrity, NoSeq
  <2> QED
    BY <2>1, <2>2, <2>3 DEF NewReconstructor, TypeOK
<1>3. \A m \in Markets : /\ books'[m].sid = SidOf[m] /\ books'[m].epoch = 0
                         /\ books'[m].integrity = "ABSENT"
  <2>1. \A s : NoBook(s).sid = s /\ NoBook(s).epoch = 0 /\ NoBook(s).integrity = "ABSENT"
    BY DEF NoBook, BookWith
  <2> QED
    BY <1>1, <2>1
<1>4. (OwnSid /\ OwnMarkets /\ Acknowledged /\ StreamsFollow /\ StreamsUpToDate)'
  BY <1>1, <1>3 DEF OwnSid, OwnMarkets, Acknowledged, StreamsFollow, StreamsUpToDate,
     Unregistered
<1>5. \A m \in Markets : ~Current(m)'
  BY <1>3 DEF Current
<1>6. (ViolatedSidShowsNothing /\ Synchronised /\ UnknownIsFresh /\ Traced)'
  <2>1. \A s \in Sids : ~subs'[s].violated
    BY <1>1 DEF Unregistered
  <2> QED
    BY <1>1, <1>5, <2>1 DEF ViolatedSidShowsNothing, Synchronised, UnknownIsFresh, Traced
<1>7. OneConnection'
  BY <1>3 DEF OneConnection, Exists
<1>8. Enrolled'
  BY <1>1, <1>3 DEF Enrolled, EnrolledStream, EnrolledBook, Unregistered, NoSeq
<1> QED
  BY <1>2, <1>4, <1>6, <1>7, <1>8 DEF TraceInv, IndInv

\* Whatever a frame does to a book, the book is of the open connection.
LEMMA RoutedBookEpoch ==
  ASSUME TypeOK, OneConnection, Connected, NEW s \in Sids, NEW i \in 1..Len(log[s]),
         NEW m \in Markets, log[s][i].kind # "unparsed",
         Exists(RoutedBook(s, i, log[s][i], m))
  PROVE  RoutedBook(s, i, log[s][i], m).epoch = epoch
<1> DEFINE f == log[s][i]
           Here(b) == b \in Book(Sids) /\ (Exists(b) => b.epoch = epoch)
<1>1. f \in Frame /\ f.kind \in FrameKinds \ {"unparsed"} /\ i \in Nat
  BY LogTyping
<1>2. Here(books[m]) /\ epoch \in Nat
  BY DEF TypeOK, OneConnection
<1>3. f.truth[m] \in Ladder /\ f.slot \in Slots /\ f.change \in Int
  BY <1>1 DEF Frame
<1>4. Here(ResetForNewEpoch(epoch, s))
  <2>1. ResetForNewEpoch(epoch, s) \in Book(Sids)
    <3>1. PICK ladder \in Ladder : ladder = f.truth[m]
      BY <1>3
    <3>2. books[m] \in Book(Sids) /\ epoch \in Nat /\ i \in Nat
      BY <1>1, <1>2
    <3> QED
      BY <3>1, <3>2, BookOperators
  <2>2. ResetForNewEpoch(epoch, s).epoch = epoch
    BY DEF ResetForNewEpoch, BookWith
  <2> QED
    BY <2>1, <2>2
<1>5. Here(BookFor(s, m)) /\ Exists(BookFor(s, m))
  BY <1>2, <1>4 DEF BookFor, Exists, ResetForNewEpoch, BookWith
<1>6. ASSUME NEW b \in Book(Sids), Here(b), Exists(b)
      PROVE  /\ Here(Invalidate(b)) /\ Here(MarkUnsubscribed(b))
             /\ Here(NoteSequencedFrame(b, i)) /\ Here(ApplySnapshot(b, f.truth[m], i))
  <2>1. /\ Invalidate(b) \in Book(Sids) /\ MarkUnsubscribed(b) \in Book(Sids)
        /\ NoteSequencedFrame(b, i) \in Book(Sids)
        /\ ApplySnapshot(b, f.truth[m], i) \in Book(Sids)
    BY <1>1, <1>2, <1>3, BookOperators
  <2>2. /\ Invalidate(b).epoch = b.epoch /\ MarkUnsubscribed(b).epoch = b.epoch
        /\ NoteSequencedFrame(b, i).epoch = b.epoch
        /\ ApplySnapshot(b, f.truth[m], i).epoch = b.epoch
    BY DEF Book, Invalidate, MarkUnsubscribed, NoteSequencedFrame, ApplySnapshot
  <2> QED
    BY <1>6, <2>1, <2>2
<1>7. Here(SnapshotBook(s, i, f, m))
  BY <1>2, <1>5, <1>6 DEF SnapshotBook
<1>8. DeltaBook(s, i, f, m).epoch = epoch \/ DeltaBook(s, i, f, m) = books[m]
  <2>1. ApplyDelta(BookFor(s, m), f.slot, f.change, i).epoch = BookFor(s, m).epoch
    BY <1>5 DEF ApplyDelta, Book
  <2>2. Invalidate(BookFor(s, m)).epoch = BookFor(s, m).epoch
    BY <1>5 DEF Invalidate, Book
  <2> QED
    BY <1>5, <2>1, <2>2 DEF DeltaBook
<1>9. Here(InvalidateSidBook(s, m)) /\ Here(FailBook(books[m]))
  BY <1>2, <1>6 DEF InvalidateSidBook, FailBook, Exists
<1>10. Here(UnknownBook(s, m))
  BY <1>2, <1>9 DEF UnknownBook
<1>11. Here(MembershipBook(s, f, m))
  BY <1>2, <1>4, <1>6 DEF MembershipBook
<1>12. ASSUME NEW b, NEW members, Here(b) PROVE Here(ControlBook(s, i, members, m, b))
  BY <1>6, <1>12 DEF ControlBook
<1>13. /\ Here(ControlBook(s, i, f.members, m, MembershipBook(s, f, m)))
       /\ Here(ControlBook(s, i, subs[s].markets, m, books[m]))
  BY <1>2, <1>11, <1>12
<1>14. Here(Invalidate(BookFor(s, m)))
  BY <1>5, <1>6
<1>15. CASE f.kind = "snapshot"
  BY <1>1, <1>7, <1>15, Routing
<1>16. CASE f.kind = "delta"
  BY <1>1, <1>2, <1>8, <1>16, Routing
<1>17. CASE f.kind \in {"badsnapshot", "malformed"}
  BY <1>1, <1>2, <1>9, <1>14, <1>17, Routing
<1>18. CASE f.kind \in {"control", "ok"}
  BY <1>1, <1>13, <1>18, Routing
<1>19. CASE f.kind \in {"anonymous", "unknown"}
  BY <1>1, <1>9, <1>10, <1>19, Routing
<1> QED
  BY <1>1, <1>15, <1>16, <1>17, <1>18, <1>19 DEF FrameKinds

\* What the collector may do to its reconstructor.
Drives ==
  \/ CloseConnection
  \/ \E s \in Sids : MarketsOf(s) = Markets /\ NoteSubscribed(s, Markets)
  \/ \E s \in Sids : \E i \in 1..Len(log[s]) : Receive(s, i)
  \/ ReceiveUnsequenced \/ RecordTransportSignal \/ FallSilent
  \/ Venue
  \/ UNCHANGED vars

LEMMA OneConnectionStep ==
  ASSUME TypeOK, OneConnection, Drives
  PROVE  OneConnection'
<1>1. ASSUME books' = books, epoch' = epoch PROVE OneConnection'
  BY <1>1 DEF OneConnection, Connected
<1>2. \A m \in Markets : books[m] \in Book(Sids)
  BY DEF TypeOK
<1>3. \A m \in Markets :
        /\ InvalidateEpochBook(m).epoch = books[m].epoch
        /\ Exists(InvalidateEpochBook(m)) => Exists(books[m])
        /\ InvalidateEpochBook(m).integrity = "VALID" =>
             books[m].integrity = "VALID" /\ books[m].epoch # epoch
  BY <1>2 DEF InvalidateEpochBook, Invalidate, Exists, Book
<1>4. ASSUME JournalFailure, epoch' = epoch PROVE OneConnection'
  BY <1>3, <1>4 DEF OneConnection, Connected, JournalFailure
<1>5. CASE CloseConnection
  BY <1>3, <1>5 DEF OneConnection, Connected, CloseConnection, Exists
<1>6. CASE \E s \in Sids : MarketsOf(s) = Markets /\ NoteSubscribed(s, Markets)
  <2>1. \A s \in Sids : ResetForNewEpoch(epoch, s).epoch = epoch
    BY DEF ResetForNewEpoch, BookWith
  <2> QED
    BY <1>6, <2>1 DEF OneConnection, Connected, NoteSubscribed
<1>7. CASE \E s \in Sids : \E i \in 1..Len(log[s]) : Receive(s, i)
  <2>1. PICK s \in Sids : \E i \in 1..Len(log[s]) : Receive(s, i)
    BY <1>7
  <2>2. PICK i \in 1..Len(log[s]) : Receive(s, i)
    BY <2>1
  <2>3. epoch' = epoch /\ Connected
    BY <2>2 DEF Receive
  <2>4. CASE AcceptFrame(s, i, log[s][i])
    BY <2>3, <2>4, RoutedBookEpoch DEF AcceptFrame, OneConnection, Connected
  <2>5. CASE RefuseFrame(s, i, log[s][i])
    <3>1. \A m \in Markets : InvalidateSidBook(s, m).epoch = books[m].epoch
                             /\ (Exists(InvalidateSidBook(s, m)) => Exists(books[m]))
      BY <1>2 DEF InvalidateSidBook, Invalidate, Exists, Book
    <3> QED
      BY <2>3, <2>5, <3>1 DEF RefuseFrame, OneConnection, Connected
  <2> QED
    BY <1>1, <1>4, <2>2, <2>3, <2>4, <2>5 DEF Receive, UnparsedFrame
<1>8. CASE ReceiveUnsequenced \/ RecordTransportSignal \/ FallSilent
  BY <1>1, <1>4, <1>8 DEF ReceiveUnsequenced, RecordTransportSignal, FallSilent
<1>9. CASE Venue
  BY ZenonT(30), <1>1, <1>9 DEF Venue, VenueSnapshot, VenueDelta, VenueUnreadable, VenueMembership,
     VenueOther, Send, clientVars
<1>10. CASE UNCHANGED vars
  BY <1>1, <1>10 DEF vars
<1> QED
  BY <1>5, <1>6, <1>7, <1>8, <1>9, <1>10 DEF Drives

\* Every step of the collector starts a reconstructor, at the top of its loop, or
\* drives the one it has.
LEMMA StartsOrDrives ==
  ASSUME [CollectorNext]_allVars
  PROVE  \/ phase = "loop" /\ \E e \in Nat : NewReconstructor(e)
         \/ Drives
<1>1. CASE Connect \/ ConnectFails
  BY <1>1 DEF Connect, ConnectFails, NoEpoch
<1>2. CASE ReadAck
  BY <1>2 DEF ReadAck, Drives
<1>3. CASE HandleAck \/ ReadUnsequenced
  BY <1>3 DEF HandleAck, ReadUnsequenced, HandleUnsequenced, Drives
<1>4. CASE ReadFrame \/ IdleWithPong \/ TimePasses \/ VenueSends
  BY <1>4 DEF ReadFrame, IdleWithPong, TimePasses, VenueSends, Drives
<1>5. CASE TearDown
  BY <1>5 DEF TearDown, Drives
<1>6. CASE \/ ReturnFromLoop \/ IdleWithoutPong \/ ReceiveFails \/ AwaitFrame
           \/ LeaveReadLoop \/ WakeUp \/ RequestStop \/ TransportDies
  BY <1>6 DEF ReturnFromLoop, IdleWithoutPong, ReceiveFails, AwaitFrame,
     LeaveReadLoop, WakeUp, RequestStop, TransportDies, Drives
<1>7. CASE UNCHANGED allVars
  BY <1>7 DEF allVars, Drives
<1> QED
  BY <1>1, <1>2, <1>3, <1>4, <1>5, <1>6, <1>7 DEF CollectorNext

LEMMA DrivesIsNext == Drives => [Next]_vars
<1>1. ASSUME NEW s \in Sids, MarketsOf(s) = Markets, NoteSubscribed(s, Markets)
      PROVE  \E t \in Sids : \E markets \in SUBSET MarketsOf(t) : NoteSubscribed(t, markets)
  BY <1>1
<1> QED
  BY <1>1 DEF Drives, Next, Client

\* What the frame numbered next was sent to is still registered, unless it is the
\* frame that changes the membership.
LEMMA MembersAreRegistered ==
  ASSUME IndInv, Enrolled, NEW s \in Sids, ChannelOf[s] = "orderbook_delta",
         NEW i \in 1..Len(log[s]), InSequence(s, i), log[s][i].kind # "ok"
  PROVE  log[s][i].members \subseteq subs[s].markets
<1> DEFINE n == subs[s].last
<1>1. subs[s].known
  <2>1. log[s] # <<>>
    BY DEF IndInv, TypeOK
  <2> QED
    BY <2>1 DEF IndInv, Acknowledged
<1>2. log[s][i].members \subseteq MarketsOf(s)
  BY DEF IndInv, OwnMarkets
<1>3. CASE n = NoSeq
  BY <1>1, <1>2, <1>3 DEF Enrolled, EnrolledStream
<1>4. CASE n # NoSeq
  <2>1. i = n + 1 /\ n \in 0..Len(log[s]) /\ Len(log[s]) \in Nat
    BY <1>4 DEF InSequence, Enrolled, EnrolledStream, IndInv, TypeOK
  <2>2. n \in 1..(Len(log[s]) - 1)
    BY <1>4, <2>1 DEF NoSeq
  <2>3. Follows(log[s][n], log[s][n + 1])
    BY <2>2 DEF IndInv, StreamsFollow
  <2> QED
    BY <1>1, <1>4, <2>1, <2>3 DEF Enrolled, EnrolledStream, Follows
<1> QED
  BY <1>3, <1>4

\* A book that a frame leaves valid is a member's.
LEMMA AcceptedMember ==
  ASSUME IndInv, Enrolled, Connected, NEW m \in Markets, NEW s \in Sids, s = SidOf[m],
         NEW i \in 1..Len(log[s]), InSequence(s, i),
         NEW f, f = log[s][i], f.kind # "unparsed",
         RoutedBook(s, i, f, m).integrity = "VALID"
  PROVE  m \in IF f.kind = "ok" THEN f.members ELSE subs[s].markets
<1> DEFINE b == RoutedBook(s, i, f, m)
<1>1. f \in Frame /\ f.kind \in FrameKinds \ {"unparsed"} /\ ChannelOf[s] = "orderbook_delta"
  BY LogTyping, ConstantsAssumption DEF IndInv
<1>2. books[m] \in Book(Sids) /\ epoch \in Nat
  BY DEF IndInv, TypeOK
<1>3. books[m].integrity = "VALID" => m \in subs[s].markets
  BY DEF Enrolled, EnrolledBook
<1>4. BookFor(s, m).integrity = "VALID" => m \in subs[s].markets
  BY <1>3 DEF BookFor, ResetForNewEpoch, BookWith
<1>5. BookFor(s, m) \in Book(Sids)
  <2>1. f.truth[m] \in Ladder /\ i \in Nat
    BY <1>1 DEF Frame
  <2> QED
    BY <1>2, <2>1, BookOperators DEF BookFor
<1>6. ASSUME NEW c \in Book(Sids)
      PROVE  /\ Invalidate(c).integrity # "VALID" /\ MarkUnsubscribed(c).integrity # "VALID"
             /\ NoteSequencedFrame(c, i).integrity = c.integrity
  BY <1>6 DEF Invalidate, MarkUnsubscribed, NoteSequencedFrame, Book
<1>7. CASE f.kind = "snapshot"
  <2>1. m \in f.about => m \in subs[s].markets
    <3>1. f.about \subseteq f.members
      BY DEF IndInv, OwnMarkets
    <3>2. f.members \subseteq subs[s].markets
      BY <1>1, <1>7, MembersAreRegistered
    <3> QED
      BY <3>1, <3>2
  <2>2. m \notin f.about => b = books[m]
    BY <1>1, <1>7, Routing DEF SnapshotBook
  <2> QED
    BY <1>3, <1>7, <2>1, <2>2
<1>8. CASE f.kind = "delta"
  <2>1. b = DeltaBook(s, i, f, m)
    BY <1>1, <1>8, Routing
  <2>2. b = books[m] \/ BookFor(s, m).integrity = "VALID"
    BY <1>5, <1>6, <2>1 DEF DeltaBook, CanApplyDelta
  <2> QED
    BY <1>3, <1>4, <1>8, <2>2
<1>9. CASE f.kind \in {"badsnapshot", "malformed"}
  <2>1. b \in {books[m], Invalidate(BookFor(s, m)), Invalidate(books[m])}
    BY <1>1, <1>9, Routing DEF FailBook
  <2>2. b = books[m]
    BY <1>2, <1>5, <1>6, <2>1
  <2> QED
    BY <1>3, <1>9, <2>2
<1>10. CASE f.kind \in {"anonymous", "unknown"}
  <2>1. b \in {books[m], Invalidate(books[m])}
    BY <1>1, <1>10, Routing DEF UnknownBook, InvalidateSidBook
  <2>2. b = books[m]
    BY <1>2, <1>6, <2>1
  <2> QED
    BY <1>3, <1>10, <2>2
<1>11. CASE f.kind = "control"
  <2>1. b \in {books[m], NoteSequencedFrame(books[m], i)}
    BY <1>1, <1>11, Routing DEF ControlBook
  <2> QED
    BY <1>2, <1>3, <1>6, <1>11, <2>1
<1>12. CASE f.kind = "ok"
  <2> DEFINE c == MembershipBook(s, f, m)
  <2>1. b \in {c, NoteSequencedFrame(c, i)}
    BY <1>1, <1>12, Routing DEF ControlBook
  <2>2. c \in Book(Sids)
    <3>1. f.truth[m] \in Ladder /\ i \in Nat
      BY <1>1 DEF Frame
    <3>2. MarkUnsubscribed(books[m]) \in Book(Sids) /\ ResetForNewEpoch(epoch, s) \in Book(Sids)
      BY <1>2, <3>1, BookOperators
    <3> QED
      BY <1>2, <3>2 DEF MembershipBook
  <2>3. c.integrity = "VALID"
    BY <1>6, <2>1, <2>2
  <2>4. c = books[m] /\ m \notin subs[s].markets \ f.members
    BY <1>2, <1>6, <2>3 DEF MembershipBook, ResetForNewEpoch, BookWith, Exists
  <2> QED
    BY <1>3, <1>12, <2>3, <2>4
<1> QED
  BY <1>1, <1>7, <1>8, <1>9, <1>10, <1>11, <1>12 DEF FrameKinds

\* A frame enrols no market.
LEMMA RegisteredAsItWas ==
  ASSUME TypeOK, UnknownIsFresh, NEW s \in Sids
  PROVE  /\ Register(s, "unknown", {}).last = subs[s].last
         /\ Register(s, "unknown", {}).markets = subs[s].markets
<1>1. \A M : /\ Register(s, "unknown", M).last = subs[s].last
             /\ Register(s, "unknown", M).markets = subs[s].markets \cup M
  BY Registered
<1>2. \A M : M = {} => subs[s].markets \cup M = subs[s].markets
  OBVIOUS
<1> QED
  BY <1>1, <1>2

\* An accepted frame leaves its sid's membership no less than what the frame was sent to.
LEMMA AcceptEnrolled ==
  ASSUME IndInv, UnknownIsFresh, Enrolled, Connected, NEW s \in Sids, NEW i \in 1..Len(log[s]),
         AcceptFrame(s, i, log[s][i]), UNCHANGED <<epoch, log>>
  PROVE  Enrolled'
<1> DEFINE f == log[s][i]
           r == Register(s, "unknown", {})
<1>1. f.kind # "unparsed" /\ InSequence(s, i) /\ TypeOK
      /\ \A m \in Markets : books'[m] = RoutedBook(s, i, f, m)
  BY DEF AcceptFrame, IndInv
<1>2. r.markets = subs[s].markets /\ r \in Subscription
  <2>1. r \in Subscription
    BY <1>1, RegisterTyping DEF Channels
  <2>2. r.markets = subs[s].markets
    BY <1>1, RegisteredAsItWas
  <2> QED
    BY <2>1, <2>2
<1>3. /\ subs'[s].last = i
      /\ subs'[s].markets = IF f.kind = "ok" THEN f.members ELSE subs[s].markets
      /\ \A t \in Sids \ {s} : subs'[t] = subs[t]
  BY <1>1, <1>2 DEF AcceptFrame, TypeOK, Subscription
<1>4. ASSUME NEW t \in Sids PROVE EnrolledStream(t)'
  <2>1. CASE t # s
    BY <1>3, <2>1 DEF Enrolled, EnrolledStream
  <2>2. CASE t = s
    <3>1. i # NoSeq /\ i \in 0..Len(log[s])
      BY <1>1 DEF NoSeq, TypeOK
    <3>2. ChannelOf[s] = "orderbook_delta" => f.members \subseteq subs'[s].markets
      BY <1>1, <1>3, MembersAreRegistered
    <3> QED
      BY <1>3, <2>2, <3>1, <3>2 DEF EnrolledStream
  <2> QED
    BY <2>1, <2>2
<1>5. ASSUME NEW m \in Markets PROVE EnrolledBook(m)'
  <2>1. CASE SidOf[m] # s
    <3>1. books'[m] = books[m]
      BY <1>1, <2>1, OtherSid
    <3> QED
      BY <1>3, <2>1, <3>1, ConstantsAssumption DEF Enrolled, EnrolledBook, Connected
  <2>2. CASE SidOf[m] = s
    BY <1>1, <1>3, <2>2, AcceptedMember DEF EnrolledBook
  <2> QED
    BY <2>1, <2>2
<1> QED
  BY <1>4, <1>5 DEF Enrolled

\* The collector's acknowledgement enrols every market of the sid.
LEMMA SubscribeEnrolled ==
  ASSUME IndInv, UnknownIsFresh, Enrolled, NEW s \in Sids, MarketsOf(s) = Markets,
         NoteSubscribed(s, Markets)
  PROVE  Enrolled'
<1>1. log[s] = <<>> /\ UNCHANGED <<epoch, log>> /\ TypeOK
  BY DEF NoteSubscribed, IndInv
<1>2. /\ subs'[s] = Register(s, ChannelOf[s], Markets)
      /\ \A t \in Sids \ {s} : subs'[t] = subs[t]
  BY <1>1 DEF NoteSubscribed, TypeOK
<1>3. subs'[s].last = NoSeq /\ subs'[s].markets = Markets
  <2>1. subs[s].last = NoSeq
    BY <1>1 DEF Enrolled, EnrolledStream, NoSeq
  <2>2. subs[s] \in Subscription
    BY <1>1 DEF TypeOK
  <2> QED
    BY <1>2, <2>1, <2>2 DEF Register, Subscription, Unregistered
<1>4. ASSUME NEW t \in Sids PROVE EnrolledStream(t)'
  <2>1. CASE t # s
    BY <1>1, <1>2, <2>1 DEF Enrolled, EnrolledStream
  <2>2. CASE t = s
    <3>1. subs'[s].last \in 0..Len(log'[s])
      BY <1>1, <1>3 DEF NoSeq
    <3> QED
      BY <1>3, <2>2, <3>1 DEF EnrolledStream, MarketsOf
  <2> QED
    BY <2>1, <2>2
<1>5. ASSUME NEW m \in Markets PROVE EnrolledBook(m)'
  BY <1>3 DEF EnrolledBook, MarketsOf
<1> QED
  BY <1>4, <1>5 DEF Enrolled

\* A frame the journal could not record, or one out of sequence, makes no book valid
\* and leaves the membership as it is.
LEMMA NothingRevived ==
  ASSUME IndInv, Enrolled, UNCHANGED <<epoch, log>>,
         \A m \in Markets : books'[m].integrity = "VALID" => books[m].integrity = "VALID",
         \A s \in Sids : /\ subs'[s].last = subs[s].last /\ subs'[s].markets = subs[s].markets
                         /\ ChannelOf[s] = "orderbook_delta" /\ subs'[s].known => subs[s].known
  PROVE  Enrolled'
<1>1. \A s \in Sids : EnrolledStream(s)'
  BY DEF Enrolled, EnrolledStream
<1>2. \A m \in Markets : EnrolledBook(m)'
  BY ConstantsAssumption DEF Enrolled, EnrolledBook, Connected
<1> QED
  BY <1>1, <1>2 DEF Enrolled

LEMMA ReceiveEnrolled ==
  ASSUME IndInv, UnknownIsFresh, Enrolled, NEW s \in Sids, NEW i \in 1..Len(log[s]),
         Receive(s, i)
  PROVE  Enrolled'
<1> DEFINE f == log[s][i]
<1>1. Connected /\ UNCHANGED <<epoch, log>> /\ TypeOK
  BY DEF Receive, IndInv
<1>2. \A m \in Markets : books[m] \in Book(Sids)
  BY <1>1 DEF TypeOK
<1>3. CASE JournalFailure
  <2>1. \A m \in Markets : InvalidateEpochBook(m).integrity = "VALID" =>
                             books[m].integrity = "VALID"
    BY DEF InvalidateEpochBook, Invalidate
  <2> QED
    BY <1>1, <1>3, <2>1, NothingRevived DEF JournalFailure
<1>4. CASE UnparsedFrame(f)
  BY <1>1, <1>4, NothingRevived DEF UnparsedFrame
<1>5. CASE RefuseFrame(s, i, f)
  <2>1. \A m \in Markets : InvalidateSidBook(s, m).integrity = "VALID" =>
                             books[m].integrity = "VALID"
    BY <1>2 DEF InvalidateSidBook, Invalidate, Book
  <2>2. /\ Register(s, "unknown", {}).last = subs[s].last
        /\ Register(s, "unknown", {}).markets = subs[s].markets
    BY <1>1, RegisteredAsItWas
  <2>3. Register(s, "unknown", {}) \in Subscription
    BY <1>1, RegisterTyping DEF Channels
  <2>4. /\ subs'[s].last = subs[s].last /\ subs'[s].markets = subs[s].markets
        /\ \A t \in Sids \ {s} : subs'[t] = subs[t]
    BY <1>1, <1>5, <2>2, <2>3 DEF RefuseFrame, TypeOK, Subscription
  <2>5. ChannelOf[s] = "orderbook_delta" => subs[s].known
    <3>1. log[s] # <<>>
      BY <1>1 DEF TypeOK
    <3> QED
      BY <3>1 DEF IndInv, Acknowledged
  <2>6. \A t \in Sids :
          /\ subs'[t].last = subs[t].last /\ subs'[t].markets = subs[t].markets
          /\ ChannelOf[t] = "orderbook_delta" /\ subs'[t].known => subs[t].known
    BY <2>4, <2>5
  <2>7. \A m \in Markets : books'[m].integrity = "VALID" => books[m].integrity = "VALID"
    BY <1>5, <2>1 DEF RefuseFrame
  <2> QED
    BY <1>1, <2>6, <2>7, NothingRevived
<1>6. CASE AcceptFrame(s, i, f)
  BY <1>1, <1>6, AcceptEnrolled
<1> QED
  BY <1>3, <1>4, <1>5, <1>6 DEF Receive

LEMMA EnrolledStep ==
  ASSUME IndInv, UnknownIsFresh, Enrolled, Drives
  PROVE  Enrolled'
<1>1. CASE CloseConnection
  <2>1. ~Connected' /\ \A s \in Sids : subs'[s] = Unregistered /\ Len(log'[s]) = 0
    BY <1>1 DEF CloseConnection, Connected
  <2> QED
    BY <2>1 DEF Enrolled, EnrolledStream, EnrolledBook, Unregistered, NoSeq
<1>2. CASE \E s \in Sids : MarketsOf(s) = Markets /\ NoteSubscribed(s, Markets)
  BY <1>2, SubscribeEnrolled
<1>3. CASE \E s \in Sids : \E i \in 1..Len(log[s]) : Receive(s, i)
  BY <1>3, ReceiveEnrolled
<1>4. CASE ReceiveUnsequenced
  <2>1. \A m \in Markets : InvalidateEpochBook(m).integrity = "VALID" =>
                             books[m].integrity = "VALID"
    BY DEF InvalidateEpochBook, Invalidate
  <2> QED
    BY <1>4, <2>1, NothingRevived DEF ReceiveUnsequenced, JournalFailure
<1>5. CASE RecordTransportSignal \/ FallSilent \/ UNCHANGED vars
  BY <1>5, NothingRevived DEF RecordTransportSignal, FallSilent, vars
<1>6. CASE Venue
  <2>1. UNCHANGED clientVars
    BY ZenonT(30), <1>6 DEF Venue, VenueSnapshot, VenueDelta, VenueUnreadable,
       VenueMembership, VenueOther, Send
  <2>2. UNCHANGED <<epoch, subs, books>>
    BY <2>1 DEF clientVars
  <2>3. \A s \in Sids : EnrolledStream(s)'
    <3>1. TypeOK /\ TypeOK'
      BY <1>6, VenueTyping DEF IndInv
    <3>2. \A s \in Sids : /\ Len(log[s]) \in Nat /\ Len(log'[s]) \in Nat
                          /\ Len(log[s]) <= Len(log'[s])
                          /\ \A k \in 1..Len(log[s]) : log'[s][k] = log[s][k]
      BY <1>6, <3>1, LogGrows DEF TypeOK
    <3> QED
      BY <2>2, <3>2 DEF Enrolled, EnrolledStream, NoSeq
  <2>4. \A m \in Markets : EnrolledBook(m)'
    BY <2>2 DEF Enrolled, EnrolledBook, Connected
  <2> QED
    BY <2>3, <2>4 DEF Enrolled
<1> QED
  BY <1>1, <1>2, <1>3, <1>4, <1>5, <1>6 DEF Drives

\* A reconstructor's health is latched.
LEMMA HealthLatched == Drives /\ ~journalHealthy => ~journalHealthy'
BY ZenonT(30) DEF Drives, CloseConnection, NoteSubscribed, Receive, JournalFailure, Journalled,
   ReceiveUnsequenced, RecordTransportSignal, FallSilent, Venue, VenueSnapshot,
   VenueDelta, VenueUnreadable, VenueMembership, VenueOther, Send, clientVars, vars

\* The steps of run() that leave its reconstructor and its requests alone.
LEMMA QuietCollectorStep ==
  ASSUME Offline, FailedJournalStops,
         \/ ReturnFromLoop \/ IdleWithoutPong \/ ReceiveFails \/ AwaitFrame
         \/ LeaveReadLoop \/ WakeUp \/ RequestStop \/ TransportDies
         \/ UNCHANGED allVars
  PROVE  Offline' /\ FailedJournalStops'
<1>1. UNCHANGED <<epoch, journalHealthy, pending>>
  BY DEF ReturnFromLoop, IdleWithoutPong, ReceiveFails, AwaitFrame, LeaveReadLoop,
     WakeUp, RequestStop, TransportDies, allVars, collectorVars, vars
<1>2. /\ phase' \in {"loop", "backoff", "stopped"} => phase \in {"loop", "backoff", "stopped"}
      /\ phase' \in {"loop", "backoff"} => phase \in {"loop", "backoff"}
      /\ phase = "stopped" => phase' = "stopped"
  BY DEF ReturnFromLoop, IdleWithoutPong, ReceiveFails, AwaitFrame, LeaveReadLoop,
     WakeUp, RequestStop, TransportDies, allVars, collectorVars, BackToLoop
<1> QED
  BY <1>1, <1>2 DEF Offline, FailedJournalStops, Connected

\* A frame that is handled: the read loop goes on, and a write that failed for the
\* first time asks for a stop.
LEMMA ObservedStep ==
  ASSUME NEW alarm, NEW applied, Observe(alarm, applied), FailedJournalStops,
         journalHealthy /\ ~journalHealthy' => alarm = "JOURNAL_FAILURE",
         BackToLoop, phase # "stopped", ~journalHealthy => ~journalHealthy'
  PROVE  Offline' /\ FailedJournalStops'
<1>1. phase' = "reading" /\ pending \subseteq pending'
  BY DEF BackToLoop, Observe
<1>2. ASSUME StopOnJournalFailure, journalHealthy, ~journalHealthy'
      PROVE  "STOP" \in pending'
  <2>1. Observe("JOURNAL_FAILURE", applied)
    BY <1>2
  <2>2. Requested("JOURNAL_FAILURE", attempts') = {"STOP"}
    BY <1>2 DEF Requested
  <2> QED
    BY <2>1, <2>2 DEF Observe
<1>3. ASSUME StopOnJournalFailure, ~journalHealthy
      PROVE  "STOP" \in pending'
  BY <1>1, <1>3 DEF FailedJournalStops
<1> QED
  BY <1>1, <1>2, <1>3 DEF Offline, FailedJournalStops

LEMMA CollectorStep == CollectorIndInv /\ [CollectorNext]_allVars => CollectorIndInv'
<1> SUFFICES ASSUME CollectorIndInv, [CollectorNext]_allVars PROVE CollectorIndInv'
  OBVIOUS
<1>1. /\ TraceInv /\ OneConnection /\ Enrolled /\ Offline /\ FailedJournalStops
      /\ IndInv /\ UnknownIsFresh /\ TypeOK
  BY DEF CollectorIndInv, TraceInv, IndInv
<1>2. TraceInv' /\ OneConnection' /\ Enrolled'
  <2>1. CASE \E e \in Nat : NewReconstructor(e)
    BY <2>1, NewReconstructorInd
  <2>2. CASE Drives
    BY <1>1, <2>2, DrivesIsNext, TraceStep, OneConnectionStep, EnrolledStep
  <2> QED
    BY <2>1, <2>2, StartsOrDrives
<1>3. Offline' /\ FailedJournalStops'
  <2>1. CASE Connect \/ ConnectFails
    BY <2>1 DEF Connect, ConnectFails, NewReconstructor, Offline, FailedJournalStops
  <2>2. CASE ReadAck
    BY <1>1, <2>2 DEF ReadAck, FrameArrives, NoteSubscribed, Offline, FailedJournalStops
  <2>3. CASE HandleAck \/ ReadUnsequenced
    <3>1. PICK alarm : HandleUnsequenced(alarm) /\ phase # "stopped"
      BY <2>3 DEF HandleAck, ReadUnsequenced, FrameArrives
    <3>2. Drives
      BY <3>1 DEF HandleUnsequenced, Drives
    <3>3. /\ Observe(IF journalHealthy' = journalHealthy THEN alarm
                     ELSE "JOURNAL_FAILURE", FALSE)
          /\ BackToLoop
      BY <3>1 DEF HandleUnsequenced
    <3>4. PICK a : /\ Observe(a, FALSE)
                   /\ journalHealthy /\ ~journalHealthy' => a = "JOURNAL_FAILURE"
      BY <3>3
    <3> QED
      BY <1>1, <3>1, <3>2, <3>3, <3>4, HealthLatched, ObservedStep
  <2>4. CASE ReadFrame
    <3>1. Drives /\ BackToLoop /\ phase # "stopped"
      BY <2>4 DEF ReadFrame, FrameArrives, Drives
    <3>2. PICK alarm, applied :
            Observe(alarm, applied) /\
            (journalHealthy /\ ~journalHealthy' => alarm = "JOURNAL_FAILURE")
      BY <2>4 DEF ReadFrame
    <3> QED
      BY <1>1, <3>1, <3>2, HealthLatched, ObservedStep
  <2>5. CASE IdleWithPong
    BY <1>1, <2>5 DEF IdleWithPong, FrameArrives, RecordTransportSignal, BackToLoop,
       Offline, FailedJournalStops
  <2>6. CASE TearDown
    <3>1. ~Connected'
      BY <2>6 DEF TearDown, CloseConnection, Connected, vars
    <3>2. UNCHANGED journalHealthy
      BY <2>6 DEF TearDown, CloseConnection, vars
    <3>3. StopOnJournalFailure /\ ~journalHealthy => phase' = "stopped"
      BY <1>1, <2>6 DEF TearDown, Decision, FailedJournalStops
    <3> QED
      BY <3>1, <3>2, <3>3 DEF Offline, FailedJournalStops
  <2>7. CASE TimePasses
    BY <1>1, <2>7 DEF TimePasses, FallSilent, collectorVars, Offline, FailedJournalStops,
       Connected
  <2>8. CASE VenueSends
    <3>1. UNCHANGED clientVars
      BY ZenonT(30), <2>8 DEF VenueSends, Venue, VenueSnapshot, VenueDelta, VenueUnreadable,
         VenueMembership, VenueOther, Send
    <3> QED
      BY <1>1, <2>8, <3>1 DEF VenueSends, clientVars, collectorVars, Offline,
         FailedJournalStops, Connected
  <2>9. CASE \/ ReturnFromLoop \/ IdleWithoutPong \/ ReceiveFails \/ AwaitFrame
              \/ LeaveReadLoop \/ WakeUp \/ RequestStop \/ TransportDies
              \/ UNCHANGED allVars
    BY <1>1, <2>9, QuietCollectorStep
  <2> QED
    BY <2>1, <2>2, <2>3, <2>4, <2>5, <2>6, <2>7, <2>8, <2>9 DEF CollectorNext
<1> QED
  BY <1>2, <1>3 DEF CollectorIndInv

-----------------------------------------------------------------------------
(* Theorems about Collector.                                               *)

\* The collector keeps its reconstructor's invariant, one connection after another.
THEOREM CollectorInvariance == CollectorSpec => []CollectorIndInv
<1>1. CollectorInit => CollectorIndInv
  <2> SUFFICES ASSUME CollectorInit PROVE CollectorIndInv
    OBVIOUS
  <2>1. TraceInv
    BY TraceInit DEF CollectorInit
  <2>2. OneConnection
    BY DEF CollectorInit, Init, OneConnection, Exists, NoBook, BookWith, Connected
  <2>3. Offline /\ FailedJournalStops
    BY DEF CollectorInit, Init, Offline, FailedJournalStops, Connected
  <2>4. Enrolled
    BY DEF CollectorInit, Init, Enrolled, EnrolledStream, EnrolledBook, Unregistered,
       NoSeq, Connected
  <2> QED
    BY <2>1, <2>2, <2>3, <2>4 DEF CollectorIndInv
<1> QED
  BY <1>1, CollectorStep, PTL DEF CollectorSpec

\* Whatever the loop does - stop, reconnect, back off - what a consumer is shown is
\* the venue's own book, recorded in full.
THEOREM CollectorShowsTheVenue ==
  CollectorSpec => [](EligibleMatchesVenue /\ EligibleIsAuditable)
<1>1. CollectorIndInv => EligibleMatchesVenue /\ EligibleIsAuditable
  BY WhatIsShown DEF CollectorIndInv
<1> QED
  BY <1>1, CollectorInvariance, PTL

\* What a connection leaves behind is its own and right: no book stays valid, and a
\* view the scan may quote is the venue's book at the last accepted number (the
\* finally of _run_one_connection; every connection numbers its epochs from one).
THEOREM NothingStaleIsLeft == CollectorSpec => TearDownLeavesNothingStale
<1>1. CollectorIndInv /\ CollectorIndInv' /\ [CollectorNext]_allVars =>
        [phase = "ended" /\ phase' # "ended" =>
           \A m \in Markets :
             /\ books'[m].integrity # "VALID"
             /\ Quotable(m)' =>
                  LET s == SidOf[m] IN
                    /\ subs[s].last \in 1..Len(log[s])
                    /\ finalViews'[m].ladder = log[s][subs[s].last].truth[m]]_allVars
  <2> SUFFICES ASSUME CollectorIndInv, CollectorIndInv', [CollectorNext]_allVars,
                      phase = "ended", phase' # "ended", NEW m \in Markets
               PROVE  /\ books'[m].integrity # "VALID"
                      /\ Quotable(m)' =>
                           LET s == SidOf[m] IN
                             /\ subs[s].last \in 1..Len(log[s])
                             /\ finalViews'[m].ladder = log[s][subs[s].last].truth[m]
    OBVIOUS
  <2>1. TearDown
    BY DEF CollectorNext, Connect, ConnectFails, ReturnFromLoop, ReadAck, HandleAck,
       ReadFrame, ReadUnsequenced, IdleWithPong, IdleWithoutPong, ReceiveFails, AwaitFrame,
       LeaveReadLoop, WakeUp, RequestStop, TransportDies, TimePasses, VenueSends,
       FrameArrives, allVars, collectorVars
  <2>2. ~Connected'
    BY <2>1 DEF TearDown, CloseConnection, Connected, vars
  <2>3. books'[m].integrity # "VALID"
    BY <2>2 DEF CollectorIndInv, OneConnection
  <2>4. ASSUME Quotable(m)'
        PROVE  /\ subs[SidOf[m]].last \in 1..Len(log[SidOf[m]])
               /\ finalViews'[m].ladder = log[SidOf[m]][subs[SidOf[m]].last].truth[m]
    <3>1. finalViews'[m] = View(m) /\ finalEpoch' = epoch
      BY <2>1 DEF TearDown, Views
    <3>2. /\ books[m].integrity = "VALID" /\ books[m].epoch = epoch
          /\ finalViews'[m].ladder = books[m].ladder
      BY <2>4, <3>1 DEF Quotable, View
    <3>3. Connected /\ m \in subs[SidOf[m]].markets /\ SidOf[m] \in Sids
      BY <3>2, ConstantsAssumption
      DEF CollectorIndInv, OneConnection, Enrolled, EnrolledBook
    <3>4. ~subs[SidOf[m]].violated
      BY <3>2, <3>3 DEF CollectorIndInv, TraceInv, IndInv, ViolatedSidShowsNothing
    <3> QED
      BY <3>2, <3>3, <3>4 DEF CollectorIndInv, TraceInv, IndInv, Synchronised, Current
  <2> QED
    BY <2>3, <2>4
<1> QED
  BY <1>1, CollectorInvariance, PTL DEF CollectorSpec, TearDownLeavesNothingStale

\* Under stop_on_journal_failure no later connection hides that a record was lost.
THEOREM FailedJournalIsFinal == CollectorSpec => JournalFailureIsFinal
<1>1. CollectorIndInv /\ [CollectorNext]_allVars =>
        [StopOnJournalFailure /\ ~journalHealthy => ~journalHealthy']_allVars
  <2> SUFFICES ASSUME CollectorIndInv, [CollectorNext]_allVars,
                      StopOnJournalFailure, ~journalHealthy
               PROVE  ~journalHealthy'
    OBVIOUS
  <2>1. phase # "loop"
    BY DEF CollectorIndInv, FailedJournalStops
  <2>2. Drives
    BY <2>1, StartsOrDrives
  <2> QED
    BY <2>2, HealthLatched
<1> QED
  BY <1>1, CollectorInvariance, PTL DEF CollectorSpec, JournalFailureIsFinal
=============================================================================
