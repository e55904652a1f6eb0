------------------------------ MODULE Collector ------------------------------
(***************************************************************************)
(* BookCollector (ingest/book_collector.py) driving the reconstructor, and *)
(* the RecoveryCoordinator (books/recovery.py) that watches its events.    *)
(*                                                                         *)
(* run() loops over connections.  Each connection builds a journal and a   *)
(* NEW reconstructor, connects, subscribes, reads frames one at a time,    *)
(* tears down and decides: stop, reconnect after a back-off, or return.    *)
(* The event sink is called synchronously by the reconstructor, so a frame *)
(* and the recovery decision it causes are one step.  Everything between   *)
(* two awaits is one step; request_stop and the deadline may come at any   *)
(* await.                                                                  *)
(***************************************************************************)
EXTENDS Reconstruction

CONSTANTS
  MaxAttempts,           \* RecoveryPolicy.max_attempts
  StopOnJournalFailure   \* RecoveryPolicy.stop_on_journal_failure

ASSUME PolicyAssumption ==
  /\ MaxAttempts \in Nat
  /\ StopOnJournalFailure \in BOOLEAN

VARIABLES
  phase,      \* where run() is: "loop" and "backoff" between connections, "reading"
              \* and "await" in _read_loop, "ack" before its acknowledgement is
              \* handled, "ended" before its teardown, "stopped" after the last
  ending,     \* request_stop was called, or the deadline has passed
  transport,  \* venue: "up", "dead" (no frame and no pong any more), "none"
  pending,    \* recovery actions requested on this connection
  failed,     \* connection_failed is not None
  sidSeen,    \* the acknowledgement of this connection was read
  finalViews, \* CollectorStats.final_views: of each market, the view of a VALID book
  finalEpoch, \* CollectorStats.final_epoch, NoEpoch when none
  attempts,   \* RecoveryCoordinator.attempts
  sinceClean  \* history: reconnects asked for since a snapshot was last applied, and
              \* counted no further than it takes to exceed MaxAttempts

stats == <<finalViews, finalEpoch>>
recovery == <<attempts, sinceClean>>
collectorVars == <<phase, ending, transport, pending, failed, sidSeen, stats, recovery>>
allVars == <<vars, collectorVars>>

-----------------------------------------------------------------------------
(* RecoveryCoordinator.                                                    *)

\* observe and _request: what is asked for, and the attempts counted.  Nothing
\* in the program emits RECONNECT_COMPLETED or calls note_recovered, so the count
\* is never reset.
Requested(alarm, counted) ==
  CASE alarm = "none" -> {}
    [] alarm = "JOURNAL_FAILURE" /\ StopOnJournalFailure -> {"STOP"}
    [] OTHER -> IF counted > MaxAttempts THEN {"STOP"} ELSE {"RECONNECT"}

\* Mutant: every request is a first attempt.
CountedAfresh(alarm) == IF Requested(alarm, 0) = {"RECONNECT"} THEN 1 ELSE attempts

Counted(alarm) ==
  IF Requested(alarm, 0) = {"RECONNECT"} THEN attempts + 1 ELSE attempts

\* "applied": the frame was a snapshot whose number was accepted.
Observe(alarm, applied) ==
  /\ attempts' = Counted(alarm)
  /\ sinceClean' = IF applied /\ alarm = "none" THEN 0
                   ELSE IF Requested(alarm, 0) = {"RECONNECT"} /\ sinceClean <= MaxAttempts
                   THEN sinceClean + 1 ELSE sinceClean
  /\ pending' = pending \cup Requested(alarm, attempts')
  /\ UNCHANGED stats

-----------------------------------------------------------------------------
(* _run_one_connection.                                                    *)

\* A new reconstructor: registry, books, journal health and liveness start over,
\* and so does the numbering of epochs.
NewReconstructor(e) ==
  /\ epoch' = e
  /\ nextEpoch' = e + 1
  /\ books' = [m \in Markets |-> NoBook(SidOf[m])]
  /\ subs' = [s \in Sids |-> Unregistered]
  /\ journalHealthy' = TRUE
  /\ liveness' = IF e = NoEpoch THEN "CLOSED" ELSE "HEALTHY"
  /\ journal' = [s \in Sids |-> {}]
  /\ log' = [s \in Sids |-> <<>>]
  /\ truth' = [m \in Markets |-> EmptyLadder]
  /\ carried' = {}

\* The socket opens: open_connection on the new reconstructor, subscribe sent.
Connect ==
  /\ phase = "loop" /\ ~ending
  /\ NewReconstructor(1)
  /\ phase' = "reading"
  /\ transport' = "up"
  /\ UNCHANGED <<ending, pending, failed, sidSeen, stats, recovery>>

\* connect() raises.
ConnectFails ==
  /\ phase = "loop" /\ ~ending
  /\ NewReconstructor(NoEpoch)
  /\ phase' = "ended"
  /\ failed' = TRUE
  /\ UNCHANGED <<ending, transport, pending, sidSeen, stats, recovery>>

\* run() finds _stop set, or the deadline passed, at the top of its loop.
ReturnFromLoop ==
  /\ phase = "loop" /\ ending
  /\ phase' = "stopped"
  /\ UNCHANGED <<vars, ending, transport, pending, failed, sidSeen, stats, recovery>>

-----------------------------------------------------------------------------
(* _read_loop.                                                             *)

\* The loop condition fails, or the deadline check returns.
LeaveReadLoop ==
  /\ phase = "reading" /\ (ending \/ pending # {})
  /\ phase' = "ended"
  /\ UNCHANGED <<vars, ending, transport, pending, failed, sidSeen, stats, recovery>>

\* Mutants: the loop looks at one of its two conditions only.
AwaitFrameAfterAlarm ==
  /\ phase = "reading" /\ ~ending
  /\ phase' = "await"
  /\ UNCHANGED <<vars, ending, transport, pending, failed, sidSeen, stats, recovery>>

AwaitFrame ==
  /\ phase = "reading" /\ ~ending /\ pending = {}
  /\ phase' = "await"
  /\ UNCHANGED <<vars, ending, transport, pending, failed, sidSeen, stats, recovery>>

FrameArrives == phase = "await" /\ transport = "up"
BackToLoop == phase' = "reading" /\ UNCHANGED <<ending, transport, failed, sidSeen>>

\* The first "subscribed" frame: _register_subscription with every market of the
\* collector, then handle_frame on the ack itself (HandleAck).
ReadAck ==
  /\ FrameArrives
  /\ ~sidSeen /\ sidSeen' = TRUE
  /\ \E s \in Sids : MarketsOf(s) = Markets /\ NoteSubscribed(s, Markets)
  /\ phase' = "ack"
  /\ UNCHANGED <<ending, transport, pending, failed, stats, recovery>>

HandleUnsequenced(alarm) ==
  /\ ReceiveUnsequenced
  /\ Observe(IF journalHealthy' = journalHealthy THEN alarm ELSE "JOURNAL_FAILURE",
             FALSE)
  /\ BackToLoop

HandleAck == phase = "ack" /\ HandleUnsequenced("none")

\* The event a numbered frame makes the reconstructor emit to the sink, if any
\* that the coordinator looks at.  An unknown type raises it on any channel.
AlarmOf(s, i) ==
  LET kind == log[s][i].kind IN
    IF kind = "unparsed" THEN "none"
    ELSE IF ~InSequence(s, i) THEN "SEQUENCE_VIOLATION"
    ELSE IF kind = "unknown" THEN "UNKNOWN_SEQUENCED_FRAME"
    ELSE "none"

ReadFrame ==
  /\ FrameArrives
  /\ \E s \in Sids : \E i \in 1..Len(log[s]) :
       /\ Receive(s, i)
       /\ Observe(IF journalHealthy' = journalHealthy THEN AlarmOf(s, i)
                  ELSE "JOURNAL_FAILURE",
                  InSequence(s, i) /\ log[s][i].kind = "snapshot")
  /\ BackToLoop

\* A frame without a number: a control frame, or one of an unknown type, which
\* _handle_unknown reports with the same event kind as a numbered one.
ReadUnsequenced ==
  /\ FrameArrives
  /\ \E alarm \in {"none", "UNKNOWN_SEQUENCED_FRAME"} : HandleUnsequenced(alarm)

\* receive() timed out and the ping was answered.
IdleWithPong ==
  /\ FrameArrives
  /\ RecordTransportSignal
  /\ BackToLoop
  /\ UNCHANGED <<pending, stats, recovery>>

\* Mutant: idleness never ends the connection.
IdleIsHarmless ==
  /\ phase = "await"
  /\ BackToLoop
  /\ UNCHANGED <<vars, pending, stats, recovery>>

\* No pong: the loop ends once the last signal is older than max_silence.
IdleWithoutPong ==
  /\ phase = "await"
  /\ IF liveness = "HEALTHY" THEN BackToLoop
     ELSE phase' = "ended" /\ failed' = TRUE /\ UNCHANGED <<ending, transport, sidSeen>>
  /\ UNCHANGED <<vars, pending, stats, recovery>>

\* The library reports the socket failed (or subscribe did, before any frame).
ReceiveFails ==
  /\ phase = "await"
  /\ phase' = "ended" /\ failed' = TRUE
  /\ UNCHANGED <<vars, ending, transport, pending, sidSeen, stats, recovery>>

-----------------------------------------------------------------------------
(* Teardown and decision.                                                  *)

\* Mutant: any request reconnects.
DecisionAlwaysReconnects ==
  IF pending # {} THEN "backoff"
  ELSE IF ending \/ ~failed THEN "stopped" ELSE "backoff"

Decision ==
  IF "STOP" \in pending THEN "stopped"
  ELSE IF pending # {} THEN "backoff"
  ELSE IF ending THEN "stopped"
  ELSE IF failed THEN "backoff"
  ELSE "stopped"

\* What a view is read for; one of any other integrity is never quoted.
View(m) ==
  IF books[m].integrity = "VALID"
  THEN [valid |-> TRUE, epoch |-> books[m].epoch, ladder |-> books[m].ladder]
  ELSE [valid |-> FALSE]

\* Mutant: a connection that brought no book leaves the views of the one before.
ViewsIfAny ==
  IF \A m \in Markets : ~Exists(books[m]) THEN finalViews ELSE [m \in Markets |-> View(m)]

\* OrderBookReconstructor.books.
Views == [m \in Markets |-> View(m)]

\* finally: keep the views and the live epoch, close the client and the connection
\* (a no-op if none was opened), then decide, and run() acts on the decision.
\* pending, connection_failed and sid_seen are locals of the connection.
TearDown ==
  /\ phase = "ended"
  /\ \/ CloseConnection
     \/ ~Connected /\ UNCHANGED vars
  /\ phase' = Decision
  /\ transport' = "none"
  /\ finalViews' = Views /\ finalEpoch' = epoch
  /\ pending' = {} /\ failed' = FALSE /\ sidSeen' = FALSE
  /\ UNCHANGED <<ending, recovery>>

\* asyncio.sleep(backoff) returns.  request_stop does not interrupt it.
WakeUp ==
  /\ phase = "backoff"
  /\ phase' = "loop"
  /\ UNCHANGED <<vars, ending, transport, pending, failed, sidSeen, stats, recovery>>

-----------------------------------------------------------------------------
(* The environment.                                                        *)

RequestStop ==
  /\ ~ending /\ phase # "stopped"
  /\ ending' = TRUE
  /\ UNCHANGED <<vars, phase, transport, pending, failed, sidSeen, stats, recovery>>

\* The peer goes away without closing the socket.
TransportDies ==
  /\ phase \in {"reading", "await"} /\ transport = "up"
  /\ transport' = "dead"
  /\ UNCHANGED <<vars, phase, ending, pending, failed, sidSeen, stats, recovery>>

\* Time passes without a signal.
TimePasses ==
  /\ phase \in {"reading", "await"} /\ liveness = "HEALTHY"
  /\ FallSilent
  /\ UNCHANGED collectorVars

VenueSends ==
  /\ FrameArrives
  /\ Venue
  /\ UNCHANGED collectorVars

CollectorInit ==
  /\ Init
  /\ phase = "loop" /\ ending = FALSE /\ transport = "none"
  /\ pending = {} /\ failed = FALSE /\ sidSeen = FALSE
  /\ finalViews = [m \in Markets |-> [valid |-> FALSE]] /\ finalEpoch = NoEpoch
  /\ attempts = 0 /\ sinceClean = 0

CollectorNext ==
  \/ Connect \/ ConnectFails \/ ReturnFromLoop
  \/ ReadAck \/ HandleAck \/ ReadFrame \/ ReadUnsequenced
  \/ IdleWithPong \/ IdleWithoutPong \/ ReceiveFails
  \/ AwaitFrame \/ LeaveReadLoop
  \/ TearDown \/ WakeUp
  \/ RequestStop \/ TransportDies \/ TimePasses \/ VenueSends

\* receive() and ping() have timeouts: every await comes to one of these ends.
EndOfAwait ==
  \/ ReadFrame \/ ReadUnsequenced \/ ReadAck
  \/ IdleWithPong \/ IdleWithoutPong \/ ReceiveFails

CollectorSpec == CollectorInit /\ [][CollectorNext]_allVars

\* The event loop keeps running the coroutine: every enabled step of its own that
\* waits for nobody is eventually taken, sleeps and pings time out, and a silent
\* transport stays silent long enough.  Nothing is assumed of the venue.
Fairness ==
  /\ WF_allVars(Connect \/ ConnectFails \/ ReturnFromLoop)
  /\ WF_allVars(HandleAck)
  /\ WF_allVars(LeaveReadLoop)
  /\ WF_allVars(AwaitFrame)
  /\ WF_allVars(EndOfAwait)
  /\ WF_allVars(TearDown)
  /\ WF_allVars(WakeUp)
  /\ WF_allVars(transport = "dead" /\ TimePasses)

FairCollectorSpec == CollectorSpec /\ Fairness

-----------------------------------------------------------------------------
(* Properties.                                                             *)

\* A kept view may be quoted: ExecutionContext.describe_failure, given the kept epoch.
Quotable(m) == finalViews[m].valid /\ finalViews[m].epoch = finalEpoch

\* What a scan quotes once the run is over is right although every connection
\* numbers its epochs from one: a view kept at a teardown that the kept epoch makes
\* quotable is the venue's book as of the last frame accepted on the connection that
\* ended, never one of an earlier connection; and the reconstructor itself is left
\* with no valid book, whatever ended the connection (the finally of
\* _run_one_connection).
TearDownLeavesNothingStale ==
  [][phase = "ended" /\ phase' # "ended" =>
       \A m \in Markets :
         /\ books'[m].integrity # "VALID"
         /\ Quotable(m)' =>
              LET s == SidOf[m] IN
                /\ subs[s].last \in 1..Len(log[s])
                /\ finalViews'[m].ladder = log[s][subs[s].last].truth[m]]_allVars

\* "A journal failure stops the collector rather than reconnecting": each new
\* connection has a healthy journal again, so nothing but the recovery decision
\* keeps the run from going on with a hole in its record.
JournalFailureIsFinal ==
  [][StopOnJournalFailure /\ ~journalHealthy => ~journalHealthy']_allVars

\* Loss of integrity ends the connection: a reconnect or a stop always follows.
AlarmEndsConnection == pending # {} ~> phase \in {"backoff", "stopped"}

\* A peer that vanished without closing the socket is noticed: no pong, then the
\* liveness window, then a new connection.
DeadTransportIsLeft == transport = "dead" ~> transport = "none"

\* "Exceeded max_attempts reconnect attempts without a clean run; the feed is
\* persistently broken": a feed that breaks that often, with no snapshot applied in
\* between, stops the collector.
BrokenFeedStops == sinceClean > MaxAttempts ~> phase = "stopped"

\* What RecoveryCoordinator says of itself: "a completed reconnect resets the attempt
\* counter: the next failure is a new incident, not a continuation of the previous
\* one".  A stop for lost integrity would then always follow more than MaxAttempts
\* failures with no snapshot applied in between.
RecoveredFeedIsANewIncident ==
  "STOP" \in pending /\ journalHealthy => sinceClean > MaxAttempts

=============================================================================
