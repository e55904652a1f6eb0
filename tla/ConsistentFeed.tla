--------------------------- MODULE ConsistentFeed ---------------------------
(***************************************************************************)
(* What the reconstructor promises to a scanner, without sequence numbers, *)
(* snapshots or deltas.  A venue publishes a history of book states on     *)
(* each stream.  A reader has a position in each stream; a market is       *)
(* either hidden from the scanner or shown exactly as it was at the        *)
(* position of its stream.  So two markets of one stream are never shown   *)
(* at different moments, a position advances one state at a time, and a    *)
(* stream on which the reader lost its place shows nothing until the next  *)
(* connection.                                                             *)
(***************************************************************************)
EXTENDS Integers, Sequences

CONSTANTS Markets, Sids, SidOf

VARIABLES history,    \* per stream: the books the venue published, in order
          position,   \* per stream: 0 before the first frame, or Lost
          shown       \* per market: the set of books shown, empty when hidden

vars == <<history, position, shown>>

Lost == -1

\* Everything shown is the venue's book at the reader's position.
ShownAt(h, p, sh) ==
  \A m \in Markets :
    LET s == SidOf[m] IN
      sh[m] # {} => p[s] \in 1..Len(h[s]) /\ sh[m] = {h[s][p[s]][m]}

Init ==
  /\ history = [s \in Sids |-> <<>>]
  /\ position = [s \in Sids |-> 0]
  /\ shown = [m \in Markets |-> {}]

\* The venue publishes one more state on one stream; the reader sees nothing yet.
Publish ==
  /\ \E s \in Sids :
       /\ Len(history'[s]) = Len(history[s]) + 1
       /\ SubSeq(history'[s], 1, Len(history[s])) = history[s]
       /\ \A t \in Sids \ {s} : history'[t] = history[t]
  /\ UNCHANGED <<position, shown>>

\* The reader takes the next state of a stream (any state, if it is its first),
\* or loses its place in the stream.
Advance(s) ==
  \/ position[s] = 0 /\ position'[s] \in 1..Len(history[s])
  \/ position[s] # Lost /\ position'[s] = position[s] + 1
  \/ position'[s] = Lost

Read ==
  /\ \E s \in Sids : /\ Advance(s)
                     /\ \A t \in Sids \ {s} : position'[t] = position[t]
  /\ ShownAt(history, position', shown')
  /\ UNCHANGED history

\* Markets are hidden, or shown again, without reading anything.
Reveal ==
  /\ ShownAt(history, position, shown')
  /\ UNCHANGED <<history, position>>

\* A connection begins or ends: streams restart and nothing is carried over.
Restart ==
  /\ history' = [s \in Sids |-> <<>>]
  /\ position' = [s \in Sids |-> 0]
  /\ shown' = [m \in Markets |-> {}]

Next == Publish \/ Read \/ Reveal \/ Restart

Spec == Init /\ [][Next]_vars
=============================================================================
