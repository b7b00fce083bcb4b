----------------------------- MODULE ArqBlocks -----------------------------
(***************************************************************************)
(* The block arithmetic of flarq's ARQ (src/src/flarq-src/arq.cxx): block  *)
(* numbers count modulo MAXCOUNT, the receiver delivers the numbers that   *)
(* follow GoodHeader and reports the gaps up to EndHeader, and the sender  *)
(* turns a report into the list of blocks it has to repeat.                *)
(*                                                                         *)
(* A definition introduced as a "slip" is not used: it is a mistake that is  *)
(* easily made at this place of the code, kept beside the definition it    *)
(* would replace to show that a property notices it.                       *)
(*                                                                         *)
(* Lists whose order the code never looks at after sorting them are sets   *)
(* here: RxPending holds no number twice, because parseDATA discards a     *)
(* number that is already there, and it is in order after each call        *)
(* (PendingInOrder of ArqBlocksLoops).                                     *)
(***************************************************************************)
EXTENDS Integers, Sequences, FiniteSets

CONSTANT MaxCount          \* MAXCOUNT, 64 in the code

ASSUME MaxCountAssumption == MaxCount \in Nat /\ MaxCount >= 4

Nbr == 0 .. MaxCount - 1

\* The numbers carried by a set of blocks [nbr, text].
Nbrs(blocks) == {b.nbr : b \in blocks}

\* How far n lies after good: the order parseDATA sorts by, where a number
\* below GoodHeader counts MAXCOUNT more.
Offset(n, good) == (n - good) % MaxCount

---------------------------------------------------------------------------
(* parseDATA, lines 917-949: what the receiver makes of its pending blocks *)

\* The number at the end of the sorted pending blocks, the new EndHeader.
LastPending(nbrs, good) ==
    CHOOSE n \in nbrs : \A m \in nbrs : Offset(m, good) <= Offset(n, good)

\* The steps after GoodHeader whose block can be delivered: all numbers up to
\* there are pending. A second copy of block GoodHeader itself sorts to the
\* front, is not consecutive, and stops the delivery before it starts.
Ready(nbrs, good) ==
    IF good \in nbrs
    THEN {}
    ELSE {i \in 1 .. MaxCount - 1 :
            \A j \in 1 .. i : (good + j) % MaxCount \in nbrs}

\* How many blocks are delivered, and the GoodHeader that leaves.
Deliverable(nbrs, good) == Cardinality(Ready(nbrs, good))

\* Slip: GoodHeader is not folded.
NewGoodUnfolded(nbrs, good) == good + Deliverable(nbrs, good)

NewGood(nbrs, good) == (good + Deliverable(nbrs, good)) % MaxCount

Delivered(nbrs, good) ==
    {(good + i) % MaxCount : i \in 1 .. Deliverable(nbrs, good)}

\* The texts delivered, in the order of their numbers.
DeliveredTexts(blocks, good) ==
    [i \in 1 .. Deliverable(Nbrs(blocks), good) |->
        (CHOOSE b \in blocks : b.nbr = (good + i) % MaxCount).text]

\* Slip: the gap search starts one block late.
GapsFromSecond(nbrs, good, end) ==
    {(good + i) % MaxCount : i \in 2 .. Offset(end, good)} \ nbrs

\* MissingRxBlocks: the gaps between GoodHeader and EndHeader. With nothing
\* pending there is no gap to report.
Gaps(nbrs, good, end) ==
    IF nbrs = {}
    THEN {}
    ELSE {(good + i) % MaxCount : i \in 1 .. Offset(end, good)} \ nbrs

---------------------------------------------------------------------------
(* parseSTATUS, lines 812-827: the list of blocks to repeat                *)

\* The counter m runs through 1..MAXCOUNT and never becomes 0 (the code folds
\* it with "m > MAXCOUNT"), so a walk whose last number is 0 never ends.
WalkNeverEnds(last, urEnd) == urEnd # last /\ last = 0

\* Slip: LastHeader itself is not pushed after the loop.
WalkWithoutLast(last, urEnd) ==
    {1 + ((urEnd + i) % MaxCount) : i \in 0 .. Offset(last - 1, urEnd)} \ {last}

\* Slip: the walk starts at UrEndHeader, which has arrived.
WalkFromEnd(last, urEnd) ==
    IF urEnd = last
    THEN {}
    ELSE {1 + ((urEnd - 1 + i) % MaxCount) : i \in 0 .. Offset(last, urEnd)}

\* The numbers m takes from UrEndHeader + 1 up to LastHeader.
Walk(last, urEnd) ==
    IF urEnd = last
    THEN {}
    ELSE {1 + ((urEnd + i) % MaxCount) : i \in 0 .. Offset(last - 1, urEnd)}

\* The blocks the sender considers missing after a report.
ConsideredMissing(last, urEnd, reported) == reported \cup Walk(last, urEnd)

---------------------------------------------------------------------------
(* sendblocks, lines 1201-1212: how many queued blocks go out              *)

\* The window: block n may not be sent when n + 2 reaches UrGoodHeader.
WindowFull(n, urGood) == (n + 2) % MaxCount = urGood

\* Slip: one block more than maxheaders.
NewBlocksOneMore(queue, repeats, maxheaders, urGood) ==
    Cardinality({k \in 1 .. Len(queue) :
                    /\ repeats + k <= maxheaders + 1
                    /\ \A j \in 1 .. k : ~WindowFull(queue[j].nbr, urGood)})

\* The blocks at the front of the queue that fit the burst and the window.
NewBlocks(queue, repeats, maxheaders, urGood) ==
    Cardinality({k \in 1 .. Len(queue) :
                    /\ repeats + k <= maxheaders
                    /\ \A j \in 1 .. k : ~WindowFull(queue[j].nbr, urGood)})

---------------------------------------------------------------------------
(* parseSTATUS, lines 846-857: which transmitted blocks are echoed         *)

\* Slip: the block UrGoodHeader is not printed with those before it.
EchoedBefore(pending, urGood) ==
    Cardinality({k \in 1 .. Len(pending) : \A j \in 1 .. k : pending[j].nbr # urGood})

\* The number of pending blocks printed: those up to the first one numbered
\* UrGoodHeader, or every one when no pending block has that number.
Echoed(pending, urGood) ==
    LET upTo == {k \in 1 .. Len(pending) :
                    \A j \in 1 .. k - 1 : pending[j].nbr # urGood}
    IN  Cardinality(upTo)
=============================================================================
