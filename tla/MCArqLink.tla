----------------------------- MODULE MCArqLink -----------------------------
(***************************************************************************)
(* Values of the constants of ArqLink for TLC.                             *)
(***************************************************************************)
EXTENDS ArqLink

Never == [e \in Outside |-> 0]

\* Who sends text, and when: A or both, over an established link or, as the
\* menu allows, at any time.
AWhenUp     == [s \in Stations |-> IF s = "A" THEN {ARQ_CONNECTED, WAITING} ELSE {}]
BothWhenUp  == [s \in Stations |-> {ARQ_CONNECTED, WAITING}]
AAtAnyTime  == [s \in Stations |-> IF s = "A" THEN LinkStates ELSE {}]

\* One connection, made by either station.
OneConnect  == [Never EXCEPT !.connect = 1]

\* One connection and one expiry of an idle link.
OneTimeout  == [Never EXCEPT !.lose = 3, !.connect = 1, !.timeout = 1]

\* One connection and two lost frames.
FewLosses   == [Never EXCEPT !.lose = 2, !.connect = 1]

\* Sessions that come and go without a disconnect or an abort.
Sessions    == [Never EXCEPT !.connect = 2, !.timeout = 1, !.restart = 1, !.beacon = 1, !.talk = 1]

\* Connects, disconnects and aborts, with one loss.
TearDowns   == [Never EXCEPT !.lose = 1, !.connect = 1, !.disconnect = 1, !.abort = 1]

\* A session one side of which is restarted.
OneRestart  == [Never EXCEPT !.connect = 1, !.restart = 1]
=============================================================================
