----------------------------- MODULE ArqStation -----------------------------
(***************************************************************************)
(* One flarq station: the fields of class arq (flarq-src/include/arq.h)    *)
(* and what every method of arq.cxx makes of them.  A station is a record; *)
(* a method is an operator from the record before the call to the record   *)
(* after it, with everything it calls.                                     *)
(*                                                                         *)
(* Left out: call signs (there are two stations, so UrCall is known or     *)
(* not), session numbers (sent, never compared), the statistics, the GUI   *)
(* texts, and the values of the timers (ArqLink says when they expire).    *)
(***************************************************************************)
EXTENDS ArqBlocks

CONSTANTS
    MaxHeaders,     \* maxheaders: most blocks in one burst (8 in the code)
    Retries,        \* Retries: repeats before the link is given up (5)
    MaxText         \* bound: blocks of text a station ever queues

ASSUME StationAssumption ==
    /\ MaxHeaders \in Nat \ {0}
    /\ Retries \in Nat \ {0}
    /\ MaxText \in Nat

---------------------------------------------------------------------------
(* enum LINK_STATES; the code compares them by their order *)
DOWN           == 0
TIMEDOUT       == 1
ABORT          == 2
ARQ_CONNECTING == 3
ARQ_CONNECTED  == 4
WAITING        == 5
WAITFORACK     == 6
DISCONNECT     == 7
DISCONNECTING  == 8
ABORTING       == 9

LinkStates == DOWN .. ABORTING

\* Blocks of text and the frames on the air. The k-th block of text a station
\* queues carries text k; a frame whose CRC fails is a frame that is lost.
Text   == 1 .. MaxText
Blocks == [nbr : Nbr, text : Text]

Plain   == {"IDENT", "CONREQ", "CONACK", "DISREQ", "DISACK", "ABORT", "UNPROTO", "TALK"}
Reports == {"STATUS", "POLL", "ACKABORT"}

Frames == [type : Plain]
            \cup [type : Reports, last : Nbr, good : Nbr, end : Nbr, missing : SUBSET Nbr]
            \cup [type : {"DATA"}, block : Blocks]

Station ==
    [LinkState : LinkStates, UrCall : BOOLEAN,
     Lastqueued : Nbr, LastHeader : Nbr, UrGoodHeader : Nbr,
     TxBlocks : Seq(Blocks), TxMissing : SUBSET Blocks, TxPending : Seq(Blocks),
     EndHeader : Nbr, GoodHeader : Nbr,
     RxPending : SUBSET Blocks, MissingRxBlocks : SUBSET Nbr, RxTextQueue : Seq(Text),
     TxTextQueue : Seq(Frames), air : Seq(Frames),
     immediate : BOOLEAN, primary : BOOLEAN, Sending : BOOLEAN, arqstop : BOOLEAN,
     retries : 0 .. Retries,
     queued : 0 .. MaxText, printed : SUBSET Text, reprinted : SUBSET Text,
     echoed : SUBSET Text,
     hung : BOOLEAN]
\* air     what sendfnc was given and the other station has not heard yet
\* queued  how many blocks of text sendText was given so far
\* printed the texts printRX was given, reprinted those it was given again
\* echoed  the texts printTX was given
\* hung    a loop of the code that does not end: the process is lost

\* arq::arq
NewStation ==
    [LinkState |-> DOWN, UrCall |-> FALSE,
     Lastqueued |-> MaxCount - 1, LastHeader |-> MaxCount - 1, UrGoodHeader |-> MaxCount - 1,
     TxBlocks |-> <<>>, TxMissing |-> {}, TxPending |-> <<>>,
     EndHeader |-> MaxCount - 1, GoodHeader |-> MaxCount - 1,
     RxPending |-> {}, MissingRxBlocks |-> {}, RxTextQueue |-> <<>>,
     TxTextQueue |-> <<>>, air |-> <<>>,
     immediate |-> FALSE, primary |-> FALSE, Sending |-> FALSE, arqstop |-> FALSE,
     retries |-> Retries,
     queued |-> 0, printed |-> {}, reprinted |-> {}, echoed |-> {},
     hung |-> FALSE]

Elements(q) == {q[i] : i \in 1 .. Len(q)}

\* Slip: the last of the blocks taken stays in the list.
DroppingOneLess(q, n) == SubSeq(q, IF n = 0 THEN 1 ELSE n, Len(q))

\* A list whose first n blocks were taken (pop_front, erase).
Dropping(q, n) == SubSeq(q, n + 1, Len(q))

---------------------------------------------------------------------------
(* Resets and frames *)

\* reset: resetTx and resetRx. UrGoodHeader keeps what the last session left.
Reset(x) ==
    [x EXCEPT !.Lastqueued = MaxCount - 1, !.LastHeader = MaxCount - 1,
              !.TxMissing = {}, !.TxBlocks = <<>>, !.TxPending = <<>>, !.TxTextQueue = <<>>,
              !.RxTextQueue = <<>>, !.EndHeader = MaxCount - 1, !.GoodHeader = MaxCount - 1,
              !.RxPending = {}, !.MissingRxBlocks = {},
              !.immediate = FALSE, !.primary = FALSE]

AddToTxQue(x, frame) == [x EXCEPT !.TxTextQueue = Append(@, frame)]

Send(x, type) == AddToTxQue(x, [type |-> type])

\* statFrame, pollFrame, ackAbortFrame: they carry the same report. (The
\* "auto ID" talk frame in front of a due statFrame is the Talk of ArqLink.)
Report(x, type) ==
    AddToTxQue(x, [type |-> type, last |-> x.LastHeader, good |-> x.GoodHeader,
                   end |-> x.EndHeader, missing |-> x.MissingRxBlocks])

\* Slip: a connect request that does not start the numbers over.
ConnectFrameKeeps(x) == [Send(x, "CONREQ") EXCEPT !.LinkState = ARQ_CONNECTING]

ConnectFrame(x) == [Send(Reset(x), "CONREQ") EXCEPT !.LinkState = ARQ_CONNECTING]

AckFrame(x) == Send(Reset(x), "CONACK")

\* What several places of the code clear before they tear the link down.
ClearTx(x) == [x EXCEPT !.TxTextQueue = <<>>, !.TxMissing = {}, !.TxBlocks = <<>>]

---------------------------------------------------------------------------
(* Frames received: one operator per parser *)

ParseIDENT(x) == [Report(x, "STATUS") EXCEPT !.immediate = TRUE]

\* Only a station that is down or timed out takes a connect request.
ParseCONREQ(x) ==
    IF x.LinkState > TIMEDOUT
    THEN x
    ELSE [AckFrame([x EXCEPT !.UrCall = TRUE]) EXCEPT !.LinkState = WAITFORACK,
                                                       !.immediate = TRUE]

ParseCONACK(x) ==
    IF x.LinkState < ARQ_CONNECTING
    THEN x
    ELSE [Report(x, "STATUS") EXCEPT !.RxTextQueue = <<>>, !.LinkState = ARQ_CONNECTED,
                                     !.immediate = TRUE, !.primary = TRUE]

ParseDISREQ(x) ==
    IF x.LinkState = DOWN
    THEN x
    ELSE [Send(ClearTx(x), "DISACK") EXCEPT !.immediate = TRUE, !.LinkState = DOWN]

ParseDISACK(x) == [x EXCEPT !.LinkState = DOWN]

ParseABORT(x) ==
    [Report(Reset(x), "ACKABORT") EXCEPT !.immediate = TRUE, !.LinkState = ARQ_CONNECTED]

ParseACKABORT(x) == [Reset(x) EXCEPT !.LinkState = ARQ_CONNECTED]

\* A beacon names its sender; during a session only the other party's counts.
ParseUNPROTO(x) ==
    IF x.LinkState > TIMEDOUT /\ ~x.UrCall THEN x ELSE [x EXCEPT !.UrCall = TRUE]

\* The first half of parseSTATUS: which of the blocks sent are still missing.
TakeReport(x, f) ==
    LET missing == ConsideredMissing(x.LastHeader, f.end, f.missing)
    IN  IF x.LinkState < ARQ_CONNECTED
        THEN x
        ELSE [x EXCEPT !.UrGoodHeader = f.good,
                       !.TxMissing = {b \in @ : b.nbr \in missing}]

\* The second half: echo what is acknowledged, and take the link on.
EchoAcknowledged(x) ==
    LET n == Echoed(x.TxPending, x.UrGoodHeader)
    IN  [x EXCEPT !.echoed = @ \cup {x.TxPending[k].text : k \in 1 .. n},
                  !.TxPending = Dropping(@, n)]

ParseSTATUS(x, f) ==
    LET y == EchoAcknowledged(TakeReport(x, f))
    IN  IF x.LinkState >= ARQ_CONNECTED /\ WalkNeverEnds(x.LastHeader, f.end)
        THEN [x EXCEPT !.UrGoodHeader = f.good, !.hung = TRUE]
        ELSE [y EXCEPT !.LinkState =
                CASE @ \in {WAITFORACK, WAITING} -> ARQ_CONNECTED
                  [] @ = DISCONNECTING           -> DOWN
                  [] OTHER                       -> @]

ParsePOLL(x) ==
    IF x.LinkState \in {DISCONNECTING, DOWN, TIMEDOUT, ABORT}
    THEN x
    ELSE [Report(x, "STATUS") EXCEPT !.immediate = TRUE, !.LinkState = ARQ_CONNECTED]

\* Slip: the text is taken as it is heard, whatever the number of its block.
ParseDATAAsHeard(x, block) ==
    IF x.LinkState < ARQ_CONNECTED
    THEN x
    ELSE [x EXCEPT !.GoodHeader = block.nbr, !.EndHeader = block.nbr,
                   !.RxTextQueue = Append(@, block.text)]

\* A new block joins the pending ones, the consecutive ones are printed, and
\* the gaps that remain are what the next report will ask for.
ParseDATA(x, block) ==
    LET pending == x.RxPending \cup {block}
        nbrs    == Nbrs(pending)
        end     == LastPending(nbrs, x.GoodHeader)
        good    == NewGood(nbrs, x.GoodHeader)
        texts   == DeliveredTexts(pending, x.GoodHeader)
        kept    == {b \in pending : b.nbr \notin Delivered(nbrs, x.GoodHeader)}
    IN  IF x.LinkState < ARQ_CONNECTED \/ block.nbr \in Nbrs(x.RxPending)
        THEN x
        ELSE [x EXCEPT !.RxPending = kept, !.EndHeader = end, !.GoodHeader = good,
                       !.RxTextQueue = @ \o texts,
                       !.printed = @ \cup Elements(texts),
                       !.reprinted = @ \cup (x.printed \cap Elements(texts)),
                       !.MissingRxBlocks = Gaps(Nbrs(kept), good, end)]

\* parseFrame. TALK is taken without looking at its CRC; every other frame
\* renews the retries. The types that name the station need UrCall.
ParseFrame(x, f) ==
    LET y == [x EXCEPT !.retries = Retries]
        mine == x.UrCall
    IN  CASE f.type = "TALK"     -> IF x.LinkState >= ARQ_CONNECTED THEN y ELSE x
          [] f.type = "IDENT"    -> IF mine THEN ParseIDENT(y) ELSE y
          [] f.type = "CONREQ"   -> ParseCONREQ(y)
          [] f.type = "CONACK"   -> IF mine THEN ParseCONACK(y) ELSE y
          [] f.type = "DISREQ"   -> IF mine THEN ParseDISREQ(y) ELSE y
          [] f.type = "DISACK"   -> IF mine THEN ParseDISACK(y) ELSE y
          [] f.type = "ABORT"    -> IF mine THEN ParseABORT(y) ELSE y
          [] f.type = "ACKABORT" -> ParseACKABORT(y)
          [] f.type = "UNPROTO"  -> ParseUNPROTO(y)
          [] f.type = "STATUS"   -> IF x.LinkState = DOWN THEN y ELSE ParseSTATUS(y, f)
          [] f.type = "POLL"     -> IF mine THEN ParsePOLL(y) ELSE y
          [] OTHER               -> ParseDATA(y, f.block)

---------------------------------------------------------------------------
(* Transmitting *)

\* transmitdata: the queued frames go out in one burst.
TransmitData(x) ==
    IF x.TxTextQueue = <<>>
    THEN x
    ELSE [x EXCEPT !.air = @ \o x.TxTextQueue, !.TxTextQueue = <<>>, !.Sending = TRUE]

\* The order of the TxMissing list, which is the order of its texts.
InSendOrder(blocks) ==
    CHOOSE q \in [1 .. Cardinality(blocks) -> blocks] :
        \A i, j \in 1 .. Cardinality(blocks) : i < j => q[i].text < q[j].text

DataFrames(q) == [k \in 1 .. Len(q) |-> [type |-> "DATA", block |-> q[k]]]

\* sendblocks: every missing block again, then the new ones that still fit the
\* burst and the window, then a poll.
SendBlocks(x) ==
    LET n    == NewBlocks(x.TxBlocks, Cardinality(x.TxMissing), MaxHeaders, x.UrGoodHeader)
        new  == SubSeq(x.TxBlocks, 1, n)
        data == DataFrames(InSendOrder(x.TxMissing)) \o DataFrames(new)
    IN  Report([x EXCEPT !.TxMissing = @ \cup {new[k] : k \in 1 .. n},
                         !.TxPending = @ \o new,
                         !.TxBlocks = Dropping(@, n),
                         !.LastHeader = IF n = 0 THEN @ ELSE new[n].nbr,
                         !.TxTextQueue = @ \o data,
                         !.LinkState = WAITING], "POLL")

---------------------------------------------------------------------------
(* arqloop, called every 100 ms *)

\* Slip: the link goes down with the text still queued.
GiveUpKeeps(x) == [x EXCEPT !.LinkState = DOWN, !.retries = Retries]

\* The link is given up: retries exhausted, or restart_arq.
GiveUp(x) == [ClearTx(x) EXCEPT !.LinkState = DOWN, !.retries = Retries]

\* Slip: the retries are not counted.
RepeatForever(x, again) == TransmitData([again EXCEPT !.retries = x.retries])

\* --retries, and the frame once more unless that was the last.
Repeat(x, again) ==
    IF x.retries <= 1
    THEN [x EXCEPT !.retries = 0]
    ELSE TransmitData([again EXCEPT !.retries = x.retries - 1])

\* The switch on LinkState; due says whether retrytime has run out.
Switch(x, due) ==
    CASE x.LinkState = DISCONNECT ->
            [Send(ClearTx(x), "DISREQ") EXCEPT !.LinkState = DISCONNECTING, !.immediate = TRUE]
      [] x.LinkState = ABORT ->
            [Send(ClearTx(x), "ABORT") EXCEPT !.LinkState = ABORTING, !.immediate = TRUE]
      [] x.LinkState = DISCONNECTING /\ due -> Repeat(x, Send(ClearTx(x), "DISREQ"))
      [] x.LinkState = ABORTING /\ due ->      \* retries--: the last one is sent too
            TransmitData([Send(ClearTx(x), "ABORT") EXCEPT !.retries = x.retries - 1])
      [] x.LinkState = WAITING /\ due ->
            Repeat(x, Report([x EXCEPT !.TxTextQueue = <<>>], "POLL"))
      [] x.LinkState = WAITFORACK /\ due -> Repeat(x, AckFrame(x))
      [] x.LinkState \in {ARQ_CONNECTED, DOWN, TIMEDOUT} ->
            IF x.TxTextQueue = <<>> /\ (x.TxMissing # {} \/ x.TxBlocks # <<>>)
            THEN TransmitData(SendBlocks(x))
            ELSE TransmitData(x)
      [] OTHER -> x

\* What follows the switch: the connecting station defends an idle link with
\* IDENT frames; any other expiry of timeout, and retries = 0, end it.
Expire(x, timedOut) ==
    IF timedOut /\ x.LinkState = ARQ_CONNECTED /\ x.primary /\ x.retries > 1
    THEN TransmitData(Send([x EXCEPT !.TxTextQueue = <<>>, !.retries = @ - 1], "IDENT"))
    ELSE IF timedOut
    THEN [GiveUp(x) EXCEPT !.LinkState = IF x.LinkState = ARQ_CONNECTED THEN TIMEDOUT ELSE DOWN]
    ELSE IF x.retries = 0 THEN GiveUp(x) ELSE x

\* One turn of the loop in which event is "idle", "retry" or "timeout". A
\* repeat sets timeout anew, so the two never run out in the same turn.
Turn(x, event) ==
    IF x.Sending
    THEN x
    ELSE IF x.immediate
    THEN [TransmitData(x) EXCEPT !.retries = Retries, !.immediate = FALSE]
    ELSE Expire(Switch(x, event = "retry"), event = "timeout")

ArqLoop(x, event) ==
    LET y == Turn(x, event)
    IN  IF x.arqstop THEN [GiveUp(y) EXCEPT !.arqstop = FALSE] ELSE y

---------------------------------------------------------------------------
(* What the user does, through flarq.cxx *)

\* state(): a station that is sending compares above every LinkState, so it
\* is never "< ARQ_CONNECTED".
OffersConnect(x) == ~x.Sending /\ x.LinkState < ARQ_CONNECTED

Connect(x) ==
    [ConnectFrame([x EXCEPT !.UrCall = TRUE, !.TxTextQueue = <<>>]) EXCEPT !.immediate = TRUE]

Disconnect(x) == [x EXCEPT !.LinkState = DISCONNECT]

Abort(x) == [x EXCEPT !.LinkState = ABORT]

Beacon(x) ==
    [Send([x EXCEPT !.TxTextQueue = <<>>], "UNPROTO") EXCEPT !.immediate = TRUE,
                                                             !.LinkState = DOWN]

\* sendText: n blocks join the queue, or nothing happens without a link.
SendText(x, n) ==
    LET block(k) == [nbr |-> (x.Lastqueued + k) % MaxCount, text |-> x.queued + k]
    IN  IF x.LinkState < ARQ_CONNECTED
        THEN x
        ELSE [x EXCEPT !.Lastqueued = (@ + n) % MaxCount,
                       !.TxBlocks = @ \o [k \in 1 .. n |-> block(k)],
                       !.queued = @ + n]

---------------------------------------------------------------------------
(* What the methods keep of one station; ArqLink says it of both *)

\* Each text waits in one place: TxBlocks holds the last ones queued, in the
\* order they were queued, and TxMissing holds earlier ones, each once.
TextsInLine(x) ==
    LET waiting == Len(x.TxBlocks)
    IN  /\ \A k \in 1 .. waiting : x.TxBlocks[k].text = x.queued - waiting + k
        /\ \A b \in x.TxMissing : b.text <= x.queued - waiting
        /\ \A b, c \in x.TxMissing : b.text = c.text => b = c

\* The blocks sent and not acknowledged fit one burst.
FitsBurst(x) == Cardinality(x.TxMissing) <= MaxHeaders

\* The report asks for no block that is there, and while blocks wait for their
\* predecessors it asks for the one that delivery needs next.
AsksNext(x) ==
    /\ x.MissingRxBlocks \cap Nbrs(x.RxPending) = {}
    /\ x.RxPending # {} /\ x.GoodHeader \notin Nbrs(x.RxPending) =>
            (x.GoodHeader + 1) % MaxCount \in x.MissingRxBlocks
=============================================================================
