-------------------------- MODULE CollectorInvariant --------------------------
(***************************************************************************)
(* The inductive invariant behind the safety of Collector.  The            *)
(* reconstructor's own invariant holds under the collector too, which      *)
(* takes only its steps or starts a new one; the rest says where run() can *)
(* be with a connection open, or with a journal that failed.               *)
(***************************************************************************)
EXTENDS Collector, ReconstructionInvariant

\* A reconstructor serves one connection: its books are of that connection, and
\* none is valid before the connection opens or after it closes.
OneConnection ==
  \A m \in Markets :
    /\ Connected /\ Exists(books[m]) => books[m].epoch = epoch
    /\ ~Connected => books[m].integrity # "VALID"

Offline == phase \in {"loop", "backoff", "stopped"} => ~Connected

\* After a failed write the loop is left for good: STOP is asked for until the
\* teardown, which obeys it.
FailedJournalStops ==
  StopOnJournalFailure /\ ~journalHealthy =>
    /\ phase \notin {"loop", "backoff"}
    /\ phase = "stopped" \/ "STOP" \in pending

\* The collector subscribes to all its markets at once.  A sid's membership is the
\* whole until a first number is accepted, and then never less than what the venue
\* streamed at the last one.
EnrolledStream(s) ==
  /\ subs[s].last \in 0..Len(log[s])
  /\ ChannelOf[s] = "orderbook_delta" /\ subs[s].known =>
       IF subs[s].last = NoSeq THEN subs[s].markets = MarketsOf(s)
       ELSE log[s][subs[s].last].members \subseteq subs[s].markets

\* A valid book is a member's, or its sid could be violated without it.
EnrolledBook(m) ==
  Connected /\ books[m].integrity = "VALID" => m \in subs[SidOf[m]].markets

Enrolled ==
  /\ \A s \in Sids : EnrolledStream(s)
  /\ \A m \in Markets : EnrolledBook(m)

CollectorIndInv ==
  TraceInv /\ OneConnection /\ Enrolled /\ Offline /\ FailedJournalStops
=============================================================================
