--------------------------- MODULE ArqBlocksLoops ---------------------------
(***************************************************************************)
(* The loops of arq.cxx over lists of block numbers, one turn a step, and  *)
(* that they compute what ArqBlocks says: parseDATA sorts, delivers and    *)
(* looks for gaps; parseSTATUS walks from one number to another, keeps     *)
(* what is missing and echoes; sendblocks repeats and sends.               *)
(*                                                                         *)
(* A station makes one call at a time, and the calls of its two sides      *)
(* share no field. A behaviour is therefore any sequence of blocks that    *)
(* arrive (rx), or one call of the sending side (tx).                      *)
(***************************************************************************)
EXTENDS ArqBlocks

CONSTANTS
    MaxHeaders,     \* maxheaders: blocks in a burst
    MaxPending,     \* bound: blocks in RxPending
    Reports,        \* the fields and reports parseSTATUS is called with
    Queues          \* the fields sendblocks is called with

Numbers == Seq(Nbr)

Report ==
    [TxMissing : Numbers, TxPending : Numbers, LastHeader : Nbr,
     UrGoodHeader : Nbr, UrEndHeader : Nbr, reported : SUBSET Nbr]

Queue ==
    [TxMissing : Numbers, TxPending : Numbers, TxBlocks : Numbers, LastHeader : Nbr,
     UrGoodHeader : Nbr]

ASSUME LoopsAssumption ==
    /\ MaxHeaders \in Nat \ {0} /\ MaxPending \in Nat
    /\ Reports \subseteq Report /\ Queues \subseteq Queue

VARIABLES
    rx,                 \* the loop of parseDATA that runs, or "rest"
    RxPending, GoodHeader, EndHeader, MissingRxBlocks,
    read,               \* the numbers of the blocks this call added to RxTextQueue
    p1, p2, n1, gapAt,  \* local variables; p1 and p2 as positions, gapAt is i
    found               \* the blocks pending and GoodHeader as this call found them

VARIABLES
    tx,                 \* the loop of parseSTATUS or sendblocks that runs, "done" or "rest"
    asked,              \* the Report or Queue of the call
    TxMissing, TxPending, TxBlocks, LastHeader,
    missing, walkAt, pos, keep, \* local variables; missing as a set, walkAt is m, pos is p
    frames              \* the numbers of the blocks textFrame was given

rxVars == <<rx, RxPending, GoodHeader, EndHeader, MissingRxBlocks, read, p1, p2, n1,
            gapAt, found>>
txVars == <<tx, asked, TxMissing, TxPending, TxBlocks, LastHeader, missing, walkAt, pos,
            keep, frames>>
loopVars == <<rxVars, txVars>>

InList(q) == {q[k] : k \in 1 .. Len(q)}
Blocks(q) == [k \in 1 .. Len(q) |-> [nbr |-> q[k]]]
From(q, k) == SubSeq(q, k, Len(q))

---------------------------------------------------------------------------
(* parseDATA *)

RxInit ==
    /\ rx = "rest" /\ RxPending = <<>> /\ MissingRxBlocks = {} /\ read = <<>>
    /\ GoodHeader = MaxCount - 1 /\ EndHeader = MaxCount - 1
    /\ p1 = 1 /\ p2 = 1 /\ n1 = 0 /\ gapAt = 0
    /\ found = [nbrs |-> {}, good |-> MaxCount - 1]

\* A block that is not pending joins the list at its end.
BlockArrives ==
    /\ rx = "rest" /\ tx = "rest"
    /\ Len(RxPending) < MaxPending
    /\ \E blknbr \in Nbr \ InList(RxPending) :
            /\ RxPending' = Append(RxPending, blknbr)
            /\ found' = [nbrs |-> InList(RxPending) \cup {blknbr}, good |-> GoodHeader]
    /\ rx' = "outer" /\ p1' = 1 /\ read' = <<>>
    /\ UNCHANGED <<GoodHeader, EndHeader, MissingRxBlocks, p2, n1, gapAt, txVars>>

\* Slip: numbers below GoodHeader are sorted as they are.
KeyAsIs(n) == n

Key(n) == IF n < GoodHeader THEN n + MaxCount ELSE n

\* A turn of the outer loop of the sort reads n1, once.
SortOuter ==
    /\ rx = "outer" /\ p1 < Len(RxPending)
    /\ n1' = Key(RxPending[p1]) /\ p2' = p1 + 1
    /\ rx' = "inner"
    /\ UNCHANGED <<RxPending, GoodHeader, EndHeader, MissingRxBlocks, read, p1, gapAt,
                   found, txVars>>

\* A turn of the inner loop. A swap puts another block at p1, and n1 stays.
SortInner ==
    /\ rx = "inner" /\ p2 <= Len(RxPending)
    /\ RxPending' = IF Key(RxPending[p2]) < n1
                    THEN [RxPending EXCEPT ![p1] = RxPending[p2], ![p2] = RxPending[p1]]
                    ELSE RxPending
    /\ p2' = p2 + 1
    /\ UNCHANGED <<rx, GoodHeader, EndHeader, MissingRxBlocks, read, p1, n1, gapAt,
                   found, txVars>>

SortNext ==
    /\ rx = "inner" /\ p2 > Len(RxPending)
    /\ p1' = p1 + 1 /\ rx' = "outer"
    /\ UNCHANGED <<RxPending, GoodHeader, EndHeader, MissingRxBlocks, read, p2, n1,
                   gapAt, found, txVars>>

\* The sort is over: the last block has the new EndHeader.
Sorted ==
    /\ rx = "outer" /\ p1 >= Len(RxPending)
    /\ EndHeader' = RxPending[Len(RxPending)] /\ rx' = "deliver"
    /\ UNCHANGED <<RxPending, GoodHeader, MissingRxBlocks, read, p1, p2, n1, gapAt,
                   found, txVars>>

Follows == RxPending # <<>> /\ Head(RxPending) = (GoodHeader + 1) % MaxCount

Deliver ==
    /\ rx = "deliver" /\ Follows
    /\ read' = Append(read, Head(RxPending))
    /\ GoodHeader' = Head(RxPending) /\ RxPending' = Tail(RxPending)
    /\ UNCHANGED <<rx, EndHeader, MissingRxBlocks, p1, p2, n1, gapAt, found, txVars>>

\* Nothing follows: what is still pending leaves gaps.
DeliverEnds ==
    /\ rx = "deliver" /\ ~Follows
    /\ MissingRxBlocks' = {}
    /\ rx' = IF RxPending = <<>> THEN "rest" ELSE "gaps"
    /\ gapAt' = (GoodHeader + 1) % MaxCount
    /\ UNCHANGED <<RxPending, GoodHeader, EndHeader, read, p1, p2, n1, found, txVars>>

GapsStop ==
    LET start == (GoodHeader + 1) % MaxCount
        end   == (EndHeader + 1) % MaxCount
    IN  IF end < start THEN end + MaxCount ELSE end

GapsTurn ==
    /\ rx = "gaps" /\ gapAt < GapsStop
    /\ MissingRxBlocks' = IF gapAt % MaxCount \in InList(RxPending) THEN MissingRxBlocks
                          ELSE MissingRxBlocks \cup {gapAt % MaxCount}
    /\ gapAt' = gapAt + 1
    /\ UNCHANGED <<rx, RxPending, GoodHeader, EndHeader, read, p1, p2, n1, found,
                   txVars>>

GapsEnd ==
    /\ rx = "gaps" /\ gapAt >= GapsStop
    /\ rx' = "rest"
    /\ UNCHANGED <<RxPending, GoodHeader, EndHeader, MissingRxBlocks, read, p1, p2, n1,
                   gapAt, found, txVars>>

ParseDATATurn ==
    \/ SortOuter \/ SortInner \/ SortNext \/ Sorted
    \/ Deliver \/ DeliverEnds \/ GapsTurn \/ GapsEnd

---------------------------------------------------------------------------
(* parseSTATUS and sendblocks *)

\* Slip: the fold leaves out number 1.
FoldToTwo(n) == IF n > MaxCount THEN n - MaxCount + 1 ELSE n

Fold(n) == IF n > MaxCount THEN n - MaxCount ELSE n

TxRest ==
    /\ tx = "rest"
    /\ asked = [LastHeader |-> MaxCount - 1]
    /\ TxMissing = <<>> /\ TxPending = <<>> /\ TxBlocks = <<>> /\ LastHeader = MaxCount - 1
    /\ missing = {} /\ walkAt = 1

\* parseSTATUS has a report: the walk begins unless the other side ends with LastHeader.
StatusArrives ==
    /\ asked \in Reports
    /\ TxMissing = asked.TxMissing /\ TxPending = asked.TxPending /\ TxBlocks = <<>>
    /\ LastHeader = asked.LastHeader
    /\ missing = asked.reported /\ walkAt = Fold(asked.UrEndHeader + 1)
    /\ tx = IF asked.UrEndHeader # asked.LastHeader THEN "walk" ELSE "keep"

SendBegins ==
    /\ asked \in Queues
    /\ TxMissing = asked.TxMissing /\ TxPending = asked.TxPending /\ TxBlocks = asked.TxBlocks
    /\ LastHeader = asked.LastHeader
    /\ missing = {} /\ walkAt = 1
    /\ tx = "repeat"

TxInit ==
    /\ TxRest \/ StatusArrives \/ SendBegins
    /\ pos = 1 /\ keep = <<>> /\ frames = <<>>

WalkTurn ==
    /\ tx = "walk" /\ walkAt # LastHeader
    /\ missing' = missing \cup {walkAt} /\ walkAt' = Fold(walkAt + 1)
    /\ UNCHANGED <<tx, asked, TxMissing, TxPending, TxBlocks, LastHeader, pos, keep,
                   frames, rxVars>>

WalkEnds ==
    /\ tx = "walk" /\ walkAt = LastHeader
    /\ missing' = missing \cup {LastHeader} /\ tx' = "keep"
    /\ UNCHANGED <<asked, TxMissing, TxPending, TxBlocks, LastHeader, walkAt, pos, keep,
                   frames, rxVars>>

KeepTurn ==
    /\ tx = "keep" /\ missing # {} /\ pos <= Len(TxMissing)
    /\ keep' = IF TxMissing[pos] \in missing THEN Append(keep, TxMissing[pos]) ELSE keep
    /\ pos' = pos + 1
    /\ UNCHANGED <<tx, asked, TxMissing, TxPending, TxBlocks, LastHeader, missing,
                   walkAt, frames, rxVars>>

\* With nothing missing the list is cleared without a look at it.
KeepEnds ==
    /\ tx = "keep"
    /\ missing = {} \/ pos > Len(TxMissing)
    /\ TxMissing' = keep /\ tx' = "echo"
    /\ UNCHANGED <<asked, TxPending, TxBlocks, LastHeader, missing, walkAt, pos, keep,
                   frames, rxVars>>

\* A block is printed and erased; the one numbered UrGoodHeader is the last.
EchoTurn ==
    /\ tx = "echo" /\ TxPending # <<>>
    /\ TxPending' = Tail(TxPending)
    /\ tx' = IF Head(TxPending) = asked.UrGoodHeader THEN "done" ELSE "echo"
    /\ UNCHANGED <<asked, TxMissing, TxBlocks, LastHeader, missing, walkAt, pos, keep,
                   frames, rxVars>>

EchoEnds ==
    /\ tx = "echo" /\ TxPending = <<>>
    /\ tx' = "done"
    /\ UNCHANGED <<asked, TxMissing, TxPending, TxBlocks, LastHeader, missing, walkAt,
                   pos, keep, frames, rxVars>>

RepeatTurn ==
    /\ tx = "repeat" /\ pos <= Len(TxMissing)
    /\ frames' = Append(frames, TxMissing[pos]) /\ pos' = pos + 1
    /\ UNCHANGED <<tx, asked, TxMissing, TxPending, TxBlocks, LastHeader, missing,
                   walkAt, keep, rxVars>>

RepeatEnds ==
    /\ tx = "repeat" /\ pos > Len(TxMissing)
    /\ tx' = "send"
    /\ UNCHANGED <<asked, TxMissing, TxPending, TxBlocks, LastHeader, missing, walkAt,
                   pos, keep, frames, rxVars>>

\* framecount is the length of frames.
Fits ==
    /\ TxBlocks # <<>> /\ Len(frames) < MaxHeaders
    /\ ~WindowFull(Head(TxBlocks), asked.UrGoodHeader)

SendTurn ==
    /\ tx = "send" /\ Fits
    /\ TxBlocks' = Tail(TxBlocks)
    /\ TxMissing' = Append(TxMissing, Head(TxBlocks))
    /\ TxPending' = Append(TxPending, Head(TxBlocks))
    /\ frames' = Append(frames, Head(TxBlocks))
    /\ LastHeader' = Head(TxBlocks)
    /\ UNCHANGED <<tx, asked, missing, walkAt, pos, keep, rxVars>>

SendEnds ==
    /\ tx = "send" /\ ~Fits
    /\ tx' = "done"
    /\ UNCHANGED <<asked, TxMissing, TxPending, TxBlocks, LastHeader, missing, walkAt,
                   pos, keep, frames, rxVars>>

TxTurn ==
    \/ WalkTurn \/ WalkEnds \/ KeepTurn \/ KeepEnds \/ EchoTurn \/ EchoEnds
    \/ RepeatTurn \/ RepeatEnds \/ SendTurn \/ SendEnds

---------------------------------------------------------------------------
LoopInit == RxInit /\ TxInit

LoopNext == BlockArrives \/ ParseDATATurn \/ TxTurn

LoopSpec == LoopInit /\ [][LoopNext]_loopVars

---------------------------------------------------------------------------
(* What the calls compute *)

\* The list of pending blocks is in the order of delivery whenever a call is over
\* (the exchange sort of parseDATA reads n1 once a turn and so sorts no list but one
\* that was in order before its last block came).
PendingInOrder ==
    rx = "rest" =>
        \A j, k \in 1 .. Len(RxPending) :
            j < k => Offset(RxPending[j], GoodHeader) < Offset(RxPending[k], GoodHeader)

\* A call of parseDATA leaves the pending blocks, GoodHeader, EndHeader and the missing
\* blocks that ArqBlocks defines of the set of blocks it found, and adds the texts to
\* RxTextQueue in the order of their numbers.
ParseDataAsLooped ==
    rx = "rest" /\ found.nbrs # {} =>
        LET nbrs == found.nbrs
            good == found.good
            kept == nbrs \ Delivered(nbrs, good)
        IN  /\ InList(RxPending) = kept
            /\ GoodHeader = NewGood(nbrs, good)
            /\ EndHeader = LastPending(nbrs, good)
            /\ MissingRxBlocks = Gaps(kept, GoodHeader, EndHeader)
            /\ read = [k \in 1 .. Deliverable(nbrs, good) |-> (good + k) % MaxCount]

\* A call of parseSTATUS that ends has considered missing what ArqBlocks says, has kept
\* those blocks of TxMissing in their order, and is not one whose walk never ends.
WalkAsLooped ==
    tx = "done" /\ asked \in Reports =>
        LET considered == ConsideredMissing(asked.LastHeader, asked.UrEndHeader, asked.reported)
        IN  /\ ~WalkNeverEnds(asked.LastHeader, asked.UrEndHeader)
            /\ missing = considered
            /\ InList(TxMissing) = InList(asked.TxMissing) \cap considered
            /\ \A j, k \in 1 .. Len(TxMissing) : j < k =>
                    \E a, b \in 1 .. Len(asked.TxMissing) :
                        /\ a < b
                        /\ asked.TxMissing[a] = TxMissing[j] /\ asked.TxMissing[b] = TxMissing[k]

\* parseSTATUS echoes from the front of TxPending, and sendblocks takes from the front of
\* TxBlocks, as many blocks as ArqBlocks counts; a burst is what is missing, in its
\* order, and then what is new.
QueuesAsLooped ==
    tx = "done" =>
        IF asked \in Reports
        THEN TxPending = From(asked.TxPending,
                              Echoed(Blocks(asked.TxPending), asked.UrGoodHeader) + 1)
        ELSE LET n   == NewBlocks(Blocks(asked.TxBlocks), Len(asked.TxMissing), MaxHeaders,
                                  asked.UrGoodHeader)
                 new == SubSeq(asked.TxBlocks, 1, n)
             IN  /\ frames = asked.TxMissing \o new
                 /\ TxMissing = asked.TxMissing \o new
                 /\ TxPending = asked.TxPending \o new
                 /\ TxBlocks = From(asked.TxBlocks, n + 1)
                 /\ LastHeader = IF n = 0 THEN asked.LastHeader ELSE new[n]

\* The receiving side, between calls: parseDATA leaves the pending blocks in order, and
\* leaves and delivers what ArqBlocks defines, however the blocks came.
ReceivingAsLooped == PendingInOrder /\ ParseDataAsLooped

\* The sending side, after a call: parseSTATUS considers, keeps and echoes, and sendblocks
\* repeats and sends, what ArqBlocks defines.
SendingAsLooped == WalkAsLooped /\ QueuesAsLooped

\* What is left to do: the loops still to come, and the turns of the loops that run.
RxRank ==
    CASE rx = "outer"   -> <<3, Len(RxPending) + 1 - p1, 0>>
      [] rx = "inner"   -> <<3, Len(RxPending) - p1, Len(RxPending) + 2 - p2>>
      [] rx = "deliver" -> <<2, Len(RxPending), 0>>
      [] rx = "gaps"    -> <<1, GapsStop - gapAt, 0>>
      [] OTHER          -> <<0, 0, 0>>

TxRank ==
    CASE tx = "walk"    -> <<3, Offset(LastHeader, walkAt), 0>>
      [] tx = "keep"    -> <<2, Len(TxMissing) + 1 - pos, 0>>
      [] tx = "echo"    -> <<1, Len(TxPending), 0>>
      [] tx = "repeat"  -> <<2, Len(TxMissing) + 1 - pos, 0>>
      [] tx = "send"    -> <<1, Len(TxBlocks), 0>>
      [] OTHER          -> <<0, 0, 0>>

Ranks == Nat \X Nat \X Nat

Below(a, b) ==
    \/ a[1] < b[1]
    \/ a[1] = b[1] /\ a[2] < b[2]
    \/ a[1] = b[1] /\ a[2] = b[2] /\ a[3] < b[3]

Endless == asked \in Reports /\ WalkNeverEnds(asked.LastHeader, asked.UrEndHeader)

\* Each turn of a loop leaves less to do than before, in a well-founded order: every call
\* ends, save the walk of parseSTATUS to a LastHeader of 0.
TurnsFall ==
    [][/\ ParseDATATurn => RxRank \in Ranks /\ RxRank' \in Ranks /\ Below(RxRank', RxRank)
       /\ TxTurn /\ ~Endless =>
            TxRank \in Ranks /\ TxRank' \in Ranks /\ Below(TxRank', TxRank)]_loopVars
=============================================================================
