----------------------- MODULE ReconstructionInvariant -----------------------
(***************************************************************************)
(* The inductive invariant behind the safety of Reconstruction.            *)
(*                                                                         *)
(* What is shown is right because of what links three things the reader    *)
(* never sees together: the frames the venue sent, the number the tracker  *)
(* accepted last, and the book.  Follows says how one frame of a stream    *)
(* relates to the one before it; Synchronised says that a current book of  *)
(* a member is the venue's book at the last accepted number, and that the  *)
(* journal holds everything since its snapshot.  The rest keeps these true *)
(* from step to step.                                                      *)
(***************************************************************************)
EXTENDS Reconstruction

\* Frame g may come right after frame f on a stream: a market carried at both has
\* the same book, unless g says what changed or cannot be read.
Follows(f, g) ==
  /\ g.kind # "ok" => g.members = f.members
  /\ \A m \in f.members \cap g.members :
       \/ g.truth[m] = f.truth[m] /\ ~(g.kind = "delta" /\ m \in g.about)
       \/ g.kind \in {"anonymous", "unknown", "unparsed"}
       \/ g.kind \in {"malformed", "badsnapshot"} /\ m \in g.about
       \/ /\ g.kind = "delta" /\ m \in g.about
          /\ f.truth[m][g.slot] + g.change >= 0 =>
               g.truth[m] = [f.truth[m] EXCEPT ![g.slot] = @ + g.change]

StreamsFollow ==
  \A s \in Sids : \A k \in 1..(Len(log[s]) - 1) :
    Follows(log[s][k], log[s][k + 1])

\* The last frame of a stream carries the venue's present state.
StreamsUpToDate ==
  \A s \in Sids : log[s] # <<>> =>
    LET f == log[s][Len(log[s])] IN
      /\ f.members = carried \cap MarketsOf(s)
      /\ \A m \in f.members : f.truth[m] = truth[m]

\* Frames and subscriptions of a sid concern the markets streamed under it.
OwnMarkets ==
  \A s \in Sids :
    /\ subs[s].markets \subseteq MarketsOf(s)
    /\ \A k \in 1..Len(log[s]) :
         /\ log[s][k].members \subseteq MarketsOf(s)
         /\ log[s][k].about \subseteq log[s][k].members

OwnSid ==
  \A m \in Markets : books[m].sid = SidOf[m] /\ books[m].epoch < nextEpoch

\* An order-book sid that sends is known to be one.
Acknowledged ==
  \A s \in Sids : ChannelOf[s] = "orderbook_delta" =>
    /\ subs[s].known => subs[s].channel = "orderbook_delta"
    /\ log[s] # <<>> => subs[s].known

\* A book that could be shown if journal and transport are well.
Current(m) ==
  /\ Connected
  /\ books[m].integrity = "VALID"
  /\ books[m].epoch = epoch
  /\ m \in subs[SidOf[m]].markets

Synchronised ==
  \A m \in Markets :
    LET s == SidOf[m]
        n == subs[s].last IN
      Current(m) /\ ~subs[s].violated =>
        /\ n \in 1..Len(log[s])
        /\ m \in log[s][n].members
        /\ books[m].ladder = log[s][n].truth[m]
        /\ books[m].snapshotSeq..n \subseteq journal[s]

\* A sid the registry does not know has a tracker that never saw a number.
UnknownIsFresh == \A s \in Sids : ~subs[s].known => subs[s] = Unregistered

\* The frame numbered latestSeq is the last that touched the book.
TracedBook(m) ==
  LET s == SidOf[m]
      n == subs[s].last
      j == books[m].latestSeq IN
    /\ j \in 1..n /\ books[m].snapshotSeq <= j
    /\ Touches(log[s][j], m)
    /\ \A k \in (j + 1)..n : ~Touches(log[s][k], m)

Traced ==
  \A m \in Markets : Current(m) /\ ~subs[SidOf[m]].violated => TracedBook(m)

IndInv ==
  /\ TypeOK
  /\ OwnSid /\ OwnMarkets /\ Acknowledged
  /\ StreamsFollow /\ StreamsUpToDate
  /\ ViolatedSidShowsNothing
  /\ Synchronised

\* What the refinement and the provenance need besides.
TraceInv == IndInv /\ UnknownIsFresh /\ Traced
=============================================================================
