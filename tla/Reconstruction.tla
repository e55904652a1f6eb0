--------------------------- MODULE Reconstruction ---------------------------
(***************************************************************************)
(* The order-book reconstructor: one reader turns a venue's numbered       *)
(* frames into books (books/reconstruction.py with sequence.py,            *)
(* registry.py, orderbook.py and liveness.py).                             *)
(*                                                                         *)
(* One action per entry point of OrderBookReconstructor:                   *)
(* OpenConnection, CloseConnection, NoteSubscribed, HandleFrame (Receive   *)
(* and ReceiveUnsequenced) and RecordTransportSignal.  HandleFrame keeps   *)
(* the code's order: liveness, journal, parse, sequence check, routing.    *)
(*                                                                         *)
(* The Venue actions are the environment.  log[s] holds every frame the    *)
(* venue sent on sid s in this connection, and Receive may be given any of *)
(* them, so frames are lost, repeated and reordered at will.               *)
(***************************************************************************)
EXTENDS OrderBook, Sequences

CONSTANTS
  Markets,     \* market tickers
  Sids,        \* subscription ids the server may use
  SidOf,       \* the sid under which the server streams a market's book
  ChannelOf,   \* the channel the server assigned to each sid
  MaxEpoch,    \* bound on the number of connections
  MaxFrames,   \* bound on the frames sent in each connection on each sid
  MaxQuantity  \* bound on the quantity the venue lets rest at one slot

Channels == {"orderbook_delta", "other", "unknown"}

ASSUME ConstantsAssumption ==
  /\ SidOf \in [Markets -> Sids]
  /\ ChannelOf \in [Sids -> {"orderbook_delta", "other"}]
  /\ \A m \in Markets : ChannelOf[SidOf[m]] = "orderbook_delta"
  /\ MaxEpoch \in Nat
  /\ MaxFrames \in [1..MaxEpoch -> [Sids -> Nat]]
  /\ MaxQuantity \in Nat

VARIABLES
  epoch,           \* registry: current connection epoch, NoEpoch when closed
  nextEpoch,       \* registry: number of the next epoch
  subs,            \* registry: SubscriptionState per sid, of the current epoch
  books,           \* the reconstructor's book per market
  journalHealthy,  \* latched FALSE by the first failed journal write
  liveness,        \* ConnectionLiveness.state of the current connection
  journal,         \* per sid, the accepted frames of this connection it holds
  log,             \* venue: frames sent on each sid in this connection
  truth,           \* venue: the actual book of every market it streams
  carried          \* venue: markets it currently streams

clientVars == <<epoch, nextEpoch, subs, books, journalHealthy, liveness, journal>>
venueVars == <<log, truth, carried>>
vars == <<epoch, nextEpoch, subs, books, journalHealthy, liveness, journal,
          log, truth, carried>>

NoEpoch == 0
Connected == epoch # NoEpoch

-----------------------------------------------------------------------------
(* Frames.  "about" names the markets the frame's payload is about (at     *)
(* most one), "members" and "truth" what the venue streams and the books   *)
(* it holds once the frame is sent; a snapshot's payload is truth of its   *)
(* market, an ok's payload is members.  The receiver reads no other truth. *)

FrameKinds ==
  {"snapshot", "delta", "ok", "control",
   "badsnapshot",  \* a snapshot that repeats a price level
   "malformed",    \* an order-book frame that fails validation or has no
                   \* known side, but names its market
   "anonymous",    \* an order-book frame that fails validation, no market
   "unknown",      \* a type the reconstructor does not recognise
   "unparsed"}     \* not an envelope at all: no readable sid or seq

Frame ==
  [kind : FrameKinds, about : SUBSET Markets, slot : Slots, change : Int,
   members : SUBSET Markets, truth : [Markets -> Ladder]]

MarketsOf(s) == {m \in Markets : SidOf[m] = s}

-----------------------------------------------------------------------------
(* The registry and the sequence trackers.                                 *)

Subscription ==
  [known : BOOLEAN, channel : Channels, markets : SUBSET Markets,
   last : Nat, violated : BOOLEAN]

Unregistered ==
  [known |-> FALSE, channel |-> "unknown", markets |-> {},
   last |-> NoSeq, violated |-> FALSE]

\* register_subscription: a known sid keeps its channel and tracker, and markets
\* are merged.
Register(s, channel, markets) ==
  IF subs[s].known THEN [subs[s] EXCEPT !.markets = @ \cup markets]
  ELSE [Unregistered EXCEPT !.known = TRUE, !.channel = channel,
                            !.markets = markets]

\* Mutants: any later number is good enough; a violation is forgotten once the
\* expected number arrives.
InSequenceWithGaps(s, i) == ~subs[s].violated /\ i > subs[s].last
InSequenceResync(s, i) == subs[s].last = NoSeq \/ i = subs[s].last + 1

\* SequenceTracker.check: the first number of a stream sets the baseline, after
\* that only the successor is accepted, and a violation is remembered.
InSequence(s, i) ==
  /\ ~subs[s].violated
  /\ subs[s].last = NoSeq \/ i = subs[s].last + 1

\* _markets_for_sid: registered members, else the books that claim the sid.
MarketsForSid(s, members) ==
  IF members # {} THEN members
  ELSE {m \in Markets : Exists(books[m]) /\ books[m].sid = s}

-----------------------------------------------------------------------------
(* Invalidation.                                                           *)

\* _invalidate_sid_books: every book of the sid, whatever market was named.
InvalidateSidBook(s, m) ==
  IF /\ m \in MarketsForSid(s, subs[s].markets)
     /\ books[m].integrity \notin {"ABSENT", "INTEGRITY_UNKNOWN"}
     /\ books[m].epoch = epoch
  THEN Invalidate(books[m]) ELSE books[m]

\* Mutant: a book that is already valid is left as it is.
InvalidateWaitingBook(m) ==
  IF books[m].integrity = "WAITING_SNAPSHOT" /\ books[m].epoch = epoch
  THEN Invalidate(books[m]) ELSE books[m]

\* _invalidate_epoch_books: every book the current connection sourced.
InvalidateEpochBook(m) ==
  IF /\ books[m].integrity \in {"WAITING_SNAPSHOT", "VALID"}
     /\ books[m].epoch = epoch
  THEN Invalidate(books[m]) ELSE books[m]

\* _fail_book: only the named book, and only if there is one.
FailBook(b) == IF Exists(b) THEN Invalidate(b) ELSE b

-----------------------------------------------------------------------------
(* Routing of a frame whose number was accepted: the new book of market m. *)

BookFor(s, m) ==
  IF Exists(books[m]) THEN books[m] ELSE ResetForNewEpoch(epoch, s)

SnapshotBook(s, i, f, m) ==
  IF m \in f.about THEN ApplySnapshot(BookFor(s, m), f.truth[m], i)
  ELSE books[m]

\* Mutant: an impossible delta fails every book of the sid.
DeltaBookSidWide(s, i, f, m) ==
  IF \E n \in f.about : ~CanApplyDelta(BookFor(s, n), f.slot, f.change)
  THEN InvalidateSidBook(s, m)
  ELSE IF m \in f.about THEN ApplyDelta(BookFor(s, m), f.slot, f.change, i)
  ELSE books[m]

DeltaBook(s, i, f, m) ==
  LET b == BookFor(s, m) IN
    IF m \notin f.about THEN books[m]
    ELSE IF CanApplyDelta(b, f.slot, f.change)
         THEN ApplyDelta(b, f.slot, f.change, i)
         ELSE Invalidate(b)

\* Mutant: control frames are not noted.
ControlBookUnnoted(s, i, members, m, b) == b

\* _note_control: the frame consumed a number on every book of the sid.
ControlBook(s, i, members, m, b) ==
  IF m \in MarketsForSid(s, members) /\ Exists(b)
  THEN NoteSequencedFrame(b, i) ELSE b

\* _apply_ok_membership, then _note_control: the server reports the resulting
\* set, additions wait for a snapshot, removals stop being subscribed.
MembershipBook(s, f, m) ==
  IF m \in f.members \ subs[s].markets THEN ResetForNewEpoch(epoch, s)
  ELSE IF m \in subs[s].markets \ f.members /\ Exists(books[m])
       THEN MarkUnsubscribed(books[m])
       ELSE books[m]

\* Mutant: an unknown type is skipped.
UnknownBookSkipped(s, m) == books[m]

\* _handle_unknown: fails closed only on a sid known to carry order books.
UnknownBook(s, m) ==
  IF subs[s].channel = "orderbook_delta" THEN InvalidateSidBook(s, m)
  ELSE books[m]

RoutedBook(s, i, f, m) ==
  CASE f.kind = "snapshot" -> SnapshotBook(s, i, f, m)
    [] f.kind = "badsnapshot" ->
         IF m \in f.about THEN Invalidate(BookFor(s, m)) ELSE books[m]
    [] f.kind = "delta" -> DeltaBook(s, i, f, m)
    [] f.kind = "malformed" ->
         IF m \in f.about THEN FailBook(books[m]) ELSE books[m]
    [] f.kind = "anonymous" -> InvalidateSidBook(s, m)
    [] f.kind = "ok" ->
         ControlBook(s, i, f.members, m, MembershipBook(s, f, m))
    [] f.kind = "control" ->
         ControlBook(s, i, subs[s].markets, m, books[m])
    [] OTHER -> UnknownBook(s, m)

-----------------------------------------------------------------------------
(* The reconstructor's entry points.                                       *)

\* Venue: markets it begins to stream hold whatever book they hold by then; the
\* book of a market it does not stream is of no concern and kept empty.
BeginStreaming(markets) ==
  \E held \in [markets -> [Slots -> 0..MaxQuantity]] :
    truth' = [m \in Markets |->
                IF m \in markets THEN held[m]
                ELSE IF m \in carried' THEN truth[m] ELSE EmptyLadder]

\* open_connection: a fresh epoch; the previous one, if still open, is closed in
\* the registry alone, and its books are not touched.  The venue restarts its
\* numbering.
OpenConnection ==
  /\ nextEpoch <= MaxEpoch
  /\ epoch' = nextEpoch
  /\ nextEpoch' = nextEpoch + 1
  /\ subs' = [s \in Sids |-> Unregistered]
  /\ liveness' = "HEALTHY"
  /\ journal' = [s \in Sids |-> {}]
  /\ log' = [s \in Sids |-> <<>>]
  /\ carried' = {}
  /\ truth' = [m \in Markets |-> EmptyLadder]
  /\ UNCHANGED <<books, journalHealthy>>

\* close_connection: no book of the epoch survives as valid, and the epoch's
\* sequence state becomes meaningless.
CloseConnection ==
  /\ Connected
  /\ books' = [m \in Markets |-> InvalidateEpochBook(m)]
  /\ epoch' = NoEpoch
  /\ subs' = [s \in Sids |-> Unregistered]
  /\ liveness' = "CLOSED"
  /\ journal' = [s \in Sids |-> {}]
  /\ log' = [s \in Sids |-> <<>>]
  /\ carried' = {}
  /\ truth' = [m \in Markets |-> EmptyLadder]
  /\ UNCHANGED <<nextEpoch, journalHealthy>>

\* note_subscribed: the server acknowledged a subscription to these markets
\* under sid s.  It acknowledges before it sends anything on the sid, and merges
\* a later subscription into the same sid.
NoteSubscribed(s, markets) ==
  /\ Connected
  /\ log[s] = <<>>
  /\ markets \subseteq MarketsOf(s)
  /\ ChannelOf[s] = "orderbook_delta" => markets # {}
  /\ subs' = [subs EXCEPT ![s] = Register(s, ChannelOf[s], markets)]
  /\ books' = [m \in Markets |->
                 IF m \in markets /\ subs'[s].channel = "orderbook_delta"
                 THEN ResetForNewEpoch(epoch, s) ELSE books[m]]
  /\ carried' = carried \cup markets
  /\ BeginStreaming(markets \ carried)
  /\ UNCHANGED <<epoch, nextEpoch, journalHealthy, liveness, journal, log>>

\* A write the journal could not make: latched, and the epoch's books go.
JournalFailure ==
  /\ journalHealthy' = FALSE
  /\ books' = [m \in Markets |-> InvalidateEpochBook(m)]
  /\ UNCHANGED <<subs, journal>>

Journalled == UNCHANGED journalHealthy

\* _parse failed: no sid or number can be read, and nothing changes.
UnparsedFrame(f) ==
  /\ f.kind = "unparsed"
  /\ UNCHANGED <<subs, books, journal>>

\* _check_sequence refused the number: the frame mutates nothing, and every book
\* of the sid is invalidated.  A sid never acknowledged is registered first.
RefuseFrame(s, i, f) ==
  /\ f.kind # "unparsed"
  /\ ~InSequence(s, i)
  /\ subs' = [subs EXCEPT ![s] =
                [Register(s, "unknown", {}) EXCEPT !.violated = TRUE]]
  /\ books' = [m \in Markets |-> InvalidateSidBook(s, m)]
  /\ UNCHANGED journal

\* Mutant: only frames that can change a book are recorded.
RecordedIfBook(s, i) ==
  IF log[s][i].kind = "control" THEN journal
  ELSE [journal EXCEPT ![s] = @ \cup {i}]

\* _journal_frame, before anything else is done with the frame.
Recorded(s, i) == [journal EXCEPT ![s] = @ \cup {i}]

AcceptFrame(s, i, f) ==
  /\ f.kind # "unparsed"
  /\ InSequence(s, i)
  /\ subs' = [subs EXCEPT ![s] =
                [Register(s, "unknown", {}) EXCEPT
                   !.last = i,
                   !.markets = IF f.kind = "ok" THEN f.members ELSE @]]
  /\ books' = [m \in Markets |-> RoutedBook(s, i, f, m)]

\* handle_frame on the frame the venue numbered i on sid s.
Receive(s, i) ==
  /\ Connected
  /\ i \in 1..Len(log[s])
  /\ liveness' = "HEALTHY"
  /\ \/ JournalFailure
     \/ Journalled /\ UnparsedFrame(log[s][i])
     \/ Journalled /\ RefuseFrame(s, i, log[s][i])
     \/ /\ Journalled
        /\ AcceptFrame(s, i, log[s][i])
        /\ journal' = Recorded(s, i)
  /\ UNCHANGED <<epoch, nextEpoch, log, truth, carried>>

\* handle_frame on a frame without a number: it passes the sequence check
\* untouched.  Order-book frames are always numbered, so it is a control frame
\* without a sid or of an unknown type, and changes no book.
ReceiveUnsequenced ==
  /\ Connected
  /\ liveness' = "HEALTHY"
  /\ JournalFailure \/ UNCHANGED <<journalHealthy, books, subs, journal>>
  /\ UNCHANGED <<epoch, nextEpoch, log, truth, carried>>

\* A pong: evidence that the transport is alive, from no frame at all.
RecordTransportSignal ==
  /\ Connected
  /\ liveness' = "HEALTHY"
  /\ UNCHANGED <<epoch, nextEpoch, subs, books, journalHealthy, journal,
                 log, truth, carried>>

\* The last signal grew older than the policy's max_silence.
FallSilent ==
  /\ Connected
  /\ liveness' = "SUSPECT"
  /\ UNCHANGED <<epoch, nextEpoch, subs, books, journalHealthy, journal,
                 log, truth, carried>>

-----------------------------------------------------------------------------
(* The venue.                                                              *)

\* Append one frame to a sid the server has acknowledged (a sid of another
\* channel may also stream unannounced).  Bound: nothing more is sent where
\* nothing can be accepted any more; what was sent before may still arrive.
Send(s, kind, about, slot, change) ==
  /\ Connected
  /\ ChannelOf[s] = "orderbook_delta" => subs[s].known
  /\ Len(log[s]) < MaxFrames[epoch][s]
  /\ journalHealthy /\ ~subs[s].violated
  /\ log' = [log EXCEPT ![s] = Append(@,
              [kind |-> kind, about |-> about, slot |-> slot, change |-> change,
               members |-> carried' \cap MarketsOf(s), truth |-> truth'])]
  /\ UNCHANGED clientVars

AnySlot == CHOOSE x \in Slots : TRUE

\* The actual book of m, sent whole.
VenueSnapshot(m) ==
  /\ m \in carried
  /\ UNCHANGED <<truth, carried>>
  /\ Send(SidOf[m], "snapshot", {m}, AnySlot, 0)

\* A change of one level, sent as a signed difference.  An impossible one (the
\* level would go below zero) changes nothing at the venue.
VenueDelta(m, slot, change) ==
  LET after == truth[m][slot] + change IN
  /\ m \in carried
  /\ after <= MaxQuantity
  /\ truth' = IF after >= 0 THEN [truth EXCEPT ![m][slot] = after] ELSE truth
  /\ UNCHANGED carried
  /\ Send(SidOf[m], "delta", {m}, slot, change)

\* A change the client cannot read, in one of the forms it may take.
VenueUnreadable(m, slot, quantity, kind) ==
  /\ m \in carried
  /\ quantity # truth[m][slot]
  /\ truth' = [truth EXCEPT ![m][slot] = quantity]
  /\ UNCHANGED carried
  /\ \/ kind \in {"badsnapshot", "malformed"} /\ Send(SidOf[m], kind, {m}, AnySlot, 0)
     \/ kind \in {"anonymous", "unknown", "unparsed"}
        /\ Send(SidOf[m], kind, {}, AnySlot, 0)

\* The server's ok to a membership update: the resulting set of the sid.
VenueMembership(s, members) ==
  /\ ChannelOf[s] = "orderbook_delta"
  /\ members \subseteq MarketsOf(s)
  /\ carried' = (carried \ MarketsOf(s)) \cup members
  /\ BeginStreaming(members \ carried)
  /\ Send(s, "ok", {}, AnySlot, 0)

\* Any other numbered control frame; on a sid of another channel, also a frame
\* of a type this reconstructor does not know.
VenueOther(s, kind) ==
  /\ \/ kind = "control"
     \/ kind = "unknown" /\ ChannelOf[s] = "other"
  /\ UNCHANGED <<truth, carried>>
  /\ Send(s, kind, {}, AnySlot, 0)

-----------------------------------------------------------------------------
Init ==
  /\ epoch = NoEpoch
  /\ nextEpoch = 1
  /\ subs = [s \in Sids |-> Unregistered]
  /\ books = [m \in Markets |-> NoBook(SidOf[m])]
  /\ journalHealthy = TRUE
  /\ liveness = "CLOSED"
  /\ journal = [s \in Sids |-> {}]
  /\ log = [s \in Sids |-> <<>>]
  /\ truth = [m \in Markets |-> EmptyLadder]
  /\ carried = {}

Client ==
  \/ OpenConnection
  \/ CloseConnection
  \/ \E s \in Sids : \E markets \in SUBSET MarketsOf(s) :
       NoteSubscribed(s, markets)
  \/ \E s \in Sids : \E i \in 1..Len(log[s]) : Receive(s, i)
  \/ ReceiveUnsequenced
  \/ RecordTransportSignal
  \/ FallSilent

Venue ==
  \/ \E m \in Markets : VenueSnapshot(m)
  \/ \E m \in Markets, slot \in Slots, change \in -MaxQuantity..MaxQuantity :
       change # 0 /\ VenueDelta(m, slot, change)
  \/ \E m \in Markets, slot \in Slots, quantity \in 0..MaxQuantity,
        kind \in FrameKinds : VenueUnreadable(m, slot, quantity, kind)
  \/ \E s \in Sids : \E members \in SUBSET MarketsOf(s) :
       VenueMembership(s, members)
  \/ \E s \in Sids, kind \in {"control", "unknown"} : VenueOther(s, kind)

Next == Client \/ Venue

Spec == Init /\ [][Next]_vars

-----------------------------------------------------------------------------
(* What a consumer may see.                                                *)

\* scan_eligible.
ScanEligible(m) ==
  /\ journalHealthy
  /\ liveness = "HEALTHY"
  /\ books[m].integrity = "VALID"
  /\ Connected
  /\ books[m].epoch = epoch
  /\ m \in subs[books[m].sid].markets

-----------------------------------------------------------------------------
(* Properties.                                                             *)

\* Every variable has the type the code gives it.
TypeOK ==
  /\ epoch \in Nat /\ nextEpoch \in Nat \ {0} /\ epoch < nextEpoch
  /\ subs \in [Sids -> Subscription]
  /\ books \in [Markets -> Book(Sids)]
  /\ journalHealthy \in BOOLEAN
  /\ liveness \in {"HEALTHY", "SUSPECT", "CLOSED"}
  /\ journal \in [Sids -> SUBSET Nat]
  /\ log \in [Sids -> Seq(Frame)]
  /\ truth \in [Markets -> Ladder]
  /\ carried \in SUBSET Markets

\* scan_eligible asks "is this book provably what the venue sent?": an eligible
\* book is the venue's own book as of the last frame of its sid that the tracker
\* accepted, whatever was lost, repeated, reordered or unreadable before it.
EligibleMatchesVenue ==
  \A m \in Markets : ScanEligible(m) =>
    LET s == books[m].sid IN
      /\ subs[s].last \in 1..Len(log[s])
      /\ books[m].ladder = log[s][subs[s].last].truth[m]

\* A book whose inputs were not all recorded is never shown: the journal holds
\* every frame of the sid from the snapshot an eligible book rests on up to the
\* last one accepted (_journal_frame before everything else, health latched).
EligibleIsAuditable ==
  \A m \in Markets : ScanEligible(m) =>
    LET s == books[m].sid IN
      books[m].snapshotSeq..subs[s].last \subseteq journal[s]

\* Once a stream is violated it stays violated until a new connection, and no
\* member's book is valid in this epoch, whichever market the offending frame
\* named and whatever arrives afterwards.
ViolatedSidShowsNothing ==
  \A s \in Sids : subs[s].violated =>
    \A m \in subs[s].markets :
      books[m].epoch = epoch => books[m].integrity # "VALID"

Touches(f, m) ==
  \/ f.kind \in {"snapshot", "delta"} /\ m \in f.about
  \/ f.kind \in {"control", "ok"}

\* BookProvenance names the last frame that touched the book: the frame numbered
\* latestSeq did, and no accepted frame after it does.
ProvenanceIsExact ==
  \A m \in Markets : ScanEligible(m) =>
    LET s == books[m].sid
        j == books[m].latestSeq IN
      /\ books[m].snapshotSeq <= j /\ j <= subs[s].last
      /\ Touches(log[s][j], m)
      /\ \A k \in (j + 1)..subs[s].last : ~Touches(log[s][k], m)

\* Whether an accepted frame is a reason to stop trusting the book of m.
Spoils(f, m) ==
  \/ f.kind \in {"anonymous", "unknown"}
  \/ f.kind \in {"malformed", "badsnapshot", "delta"} /\ m \in f.about

\* Failing closed has the narrowest scope the code can justify: a book loses
\* eligibility only with its connection, the journal or the transport, by a
\* violation of its own sid, by leaving or rejoining the subscription, or by an
\* accepted frame of its own sid that could have been about it.
LossIsJustified ==
  [][\A m \in Markets :
       LET s == books[m].sid IN
         ScanEligible(m) /\ ~ScanEligible(m)' =>
           \/ epoch' # epoch \/ ~journalHealthy' \/ liveness' # "HEALTHY"
           \/ subs'[s].violated
           \/ m \notin subs'[s].markets
           \/ books'[m].integrity = "WAITING_SNAPSHOT"
           \/ subs'[s].last = subs[s].last + 1
              /\ Spoils(log[s][subs'[s].last], m)]_vars

\* The reconstructor as ConsistentFeed sees it: the books the venue published on a
\* stream, the tracker's last number (lost once violated), and the book of a market
\* while it is scan-eligible.
FeedHistory == [s \in Sids |-> [i \in 1..Len(log[s]) |-> log[s][i].truth]]
FeedPosition == [s \in Sids |-> IF subs[s].violated THEN -1 ELSE subs[s].last]
FeedShown == [m \in Markets |-> IF ScanEligible(m) THEN {books[m].ladder} ELSE {}]

Feed == INSTANCE ConsistentFeed WITH
  history <- FeedHistory, position <- FeedPosition, shown <- FeedShown

\* The reconstructor implements the promise of ConsistentFeed: whatever happens to
\* the frames, a stream's position advances one number at a time or is lost until the
\* next connection, and everything shown is the venue's book at that position
\* (SequenceTracker.check with scan_eligible).
FeedSpec == Feed!Spec
=============================================================================
