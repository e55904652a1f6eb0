--------------------------- MODULE MCSessionCapture ---------------------------
(***************************************************************************)
(* Two markets of one event, asked for by their event, the second with     *)
(* bands that overlap; and a third, of another event and with a malformed  *)
(* band, that discovery finds when the event cannot be listed.  The series *)
(* names no multiplier of its own; one of its changes is in force and one  *)
(* is not yet; the event's override has been cleared.                      *)
(***************************************************************************)
EXTENDS SessionCapture

MCMaxAge == [s \in Sources |-> 2]
MCMarket ==
    LET Of(event, bands, volume) ==
            [event |-> event, active |-> TRUE, combo |-> FALSE, binary |-> TRUE, notional |-> TRUE,
             bands |-> bands, volume |-> volume, interest |-> 1, quoted |-> 0, closesIn |-> 10]
        Band(start, end, step) == [start |-> start, end |-> end, step |-> step]
    IN <<Of(1, <<Band(0, 2, 1), Band(2, 6, 2)>>, 2), Of(1, <<Band(0, 3, 1), Band(2, 6, 2)>>, 0),
         Of(2, <<Band(0, 3, 2)>>, 3)>>
MCFees ==
    [e \in 1..2 |->
        [base |-> 0, override |-> 4,
         series |-> {[id |-> 1, at |-> 1, fee |-> 2], [id |-> 2, at |-> 2, fee |-> 3]},
         event |-> {[id |-> 3, at |-> 1, fee |-> 0]}]]

=============================================================================
