--------------------------- MODULE ArqLink_proofs ---------------------------
(***************************************************************************)
(* Theorems about the link, for all values of the constants, any losses,   *)
(* timers and users.  First what every method of a station preserves: its  *)
(* fields keep their types, a text waits in one place only, the blocks to  *)
(* repeat fit one burst, and the report asks for the block that delivery   *)
(* needs next.  Then the inductive invariant, which says it of both        *)
(* stations.                                                               *)
(***************************************************************************)
EXTENDS ArqLink, ArqBlocks_proofs

\* What holds of a station at each point of a turn of its loop, and between
\* two turns: there a retry is left.
Whole(x) ==
    /\ x \in Station
    /\ TextsInLine(x)
    /\ FitsBurst(x)
    /\ AsksNext(x)

Sound(x) == Whole(x) /\ x.retries >= 1

---------------------------------------------------------------------------
(* The methods of a station: resets and frames *)

LEMMA AddToTxQueSound ==
    ASSUME NEW x, Sound(x), NEW frame \in Frames
    PROVE  Sound(AddToTxQue(x, frame))
<1>1. x.TxTextQueue \in Seq(Frames)
  BY DEF Whole, Sound, Station
<1>2. Append(x.TxTextQueue, frame) \in Seq(Frames)
  BY <1>1, AppendProperties
<1>3. AddToTxQue(x, frame) \in Station
  BY <1>2 DEF Whole, Sound, Station, AddToTxQue
<1> QED  BY <1>3 DEF Whole, Sound, Station, AddToTxQue, TextsInLine, FitsBurst, AsksNext

LEMMA SendSound ==
    ASSUME NEW x, Sound(x), NEW type \in Plain
    PROVE  Sound(Send(x, type))
<1>1. [type |-> type] \in Frames
  BY DEF Frames
<1> QED  BY <1>1, AddToTxQueSound DEF Send

LEMMA ReportSound ==
    ASSUME NEW x, Sound(x), NEW type \in Reports
    PROVE  Sound(Report(x, type))
<1>1. [type |-> type, last |-> x.LastHeader, good |-> x.GoodHeader,
       end |-> x.EndHeader, missing |-> x.MissingRxBlocks] \in Frames
  BY DEF Frames, Whole, Sound, Station
<1> QED  BY <1>1, AddToTxQueSound DEF Report

LEMMA ResetSound ==
    ASSUME NEW x, Sound(x)
    PROVE  Sound(Reset(x))
<1>1. MaxCount - 1 \in Nbr
  BY MaxCountAssumption DEF Nbr
<1>2. Reset(x) \in Station
  BY <1>1, EmptySeq DEF Whole, Sound, Station, Reset
<1>3. TextsInLine(Reset(x))
  BY EmptySeq DEF Whole, Sound, Station, Reset, TextsInLine
<1>4. FitsBurst(Reset(x))
  BY FS_EmptySet, StationAssumption DEF Whole, Sound, Station, Reset, FitsBurst
<1>5. AsksNext(Reset(x))
  BY DEF Whole, Sound, Station, Reset, AsksNext
<1>6. Reset(x).retries >= 1
  BY DEF Whole, Sound, Station, Reset
<1> QED  BY <1>2, <1>3, <1>4, <1>5, <1>6 DEF Whole, Sound

LEMMA ClearTxSound ==
    ASSUME NEW x, Sound(x)
    PROVE  Sound(ClearTx(x))
<1>1. ClearTx(x) \in Station
  BY EmptySeq DEF Whole, Sound, Station, ClearTx
<1>2. TextsInLine(ClearTx(x))
  BY EmptySeq DEF Whole, Sound, Station, ClearTx, TextsInLine
<1>3. FitsBurst(ClearTx(x))
  BY FS_EmptySet, StationAssumption DEF Whole, Sound, Station, ClearTx, FitsBurst
<1>4. AsksNext(ClearTx(x))
  BY DEF Whole, Sound, Station, ClearTx, AsksNext
<1>5. ClearTx(x).retries >= 1
  BY DEF Whole, Sound, Station, ClearTx
<1> QED  BY <1>1, <1>2, <1>3, <1>4, <1>5 DEF Whole, Sound

---------------------------------------------------------------------------
(* The parsers that answer or change the state of the link *)

\* What the parsers set beside the queues: the state of the link and two flags.
LEMMA StateSound ==
    ASSUME NEW x, Sound(x), NEW state \in LinkStates, NEW now \in BOOLEAN
    PROVE  /\ Sound([x EXCEPT !.LinkState = state])
           /\ Sound([x EXCEPT !.LinkState = state, !.immediate = now])
           /\ Sound([x EXCEPT !.immediate = now, !.LinkState = state])
           /\ Sound([x EXCEPT !.RxTextQueue = <<>>, !.LinkState = state,
                              !.immediate = now, !.primary = TRUE])
<1>1. ASSUME NEW y \in Station, y.retries = x.retries,
             y.TxBlocks = x.TxBlocks, y.TxMissing = x.TxMissing, y.queued = x.queued,
             y.RxPending = x.RxPending, y.GoodHeader = x.GoodHeader,
             y.MissingRxBlocks = x.MissingRxBlocks
      PROVE  Sound(y)
  BY <1>1 DEF Whole, Sound, TextsInLine, FitsBurst, AsksNext
<1>2. Sound([x EXCEPT !.LinkState = state])
  BY <1>1 DEF Whole, Sound, Station
<1>3. Sound([x EXCEPT !.LinkState = state, !.immediate = now])
  BY <1>1 DEF Whole, Sound, Station
<1>4. Sound([x EXCEPT !.immediate = now, !.LinkState = state])
  BY <1>1 DEF Whole, Sound, Station
<1>5. Sound([x EXCEPT !.RxTextQueue = <<>>, !.LinkState = state,
                      !.immediate = now, !.primary = TRUE])
  BY <1>1, EmptySeq DEF Whole, Sound, Station
<1> QED  BY <1>2, <1>3, <1>4, <1>5

LEMMA ParseIDENTSound ==
    ASSUME NEW x, Sound(x)
    PROVE  Sound(ParseIDENT(x))
<1>1. Sound(Report(x, "STATUS"))
  BY ReportSound DEF Reports
<1> QED  BY <1>1 DEF ParseIDENT, Whole, Sound, Station, TextsInLine, FitsBurst, AsksNext

LEMMA ParseCONREQSound ==
    ASSUME NEW x, Sound(x)
    PROVE  Sound(ParseCONREQ(x))
<1>1. Sound([x EXCEPT !.UrCall = TRUE])
  BY DEF Whole, Sound, Station, TextsInLine, FitsBurst, AsksNext
<1>2. Sound(AckFrame([x EXCEPT !.UrCall = TRUE]))
  BY <1>1, ResetSound, SendSound DEF AckFrame, Plain
<1>3. WAITFORACK \in LinkStates
  BY DEF WAITFORACK, LinkStates, DOWN, ABORTING
<1> QED  BY <1>2, <1>3, StateSound DEF ParseCONREQ

LEMMA ParseCONACKSound ==
    ASSUME NEW x, Sound(x)
    PROVE  Sound(ParseCONACK(x))
<1>1. Sound(Report(x, "STATUS"))
  BY ReportSound DEF Reports
<1>2. ARQ_CONNECTED \in LinkStates
  BY DEF ARQ_CONNECTED, LinkStates, DOWN, ABORTING
<1> QED  BY <1>1, <1>2, StateSound DEF ParseCONACK

LEMMA ParseDISREQSound ==
    ASSUME NEW x, Sound(x)
    PROVE  Sound(ParseDISREQ(x))
<1>1. Sound(Send(ClearTx(x), "DISACK"))
  BY ClearTxSound, SendSound DEF Plain
<1>2. DOWN \in LinkStates
  BY DEF LinkStates, DOWN, ABORTING
<1> QED  BY <1>1, <1>2, StateSound DEF ParseDISREQ

LEMMA ParseDISACKSound ==
    ASSUME NEW x, Sound(x)
    PROVE  Sound(ParseDISACK(x))
<1>1. DOWN \in LinkStates
  BY DEF LinkStates, DOWN, ABORTING
<1> QED  BY <1>1, StateSound DEF ParseDISACK

LEMMA ParseABORTSound ==
    ASSUME NEW x, Sound(x)
    PROVE  Sound(ParseABORT(x)) /\ Sound(ParseACKABORT(x))
<1>1. Sound(Reset(x)) /\ Sound(Report(Reset(x), "ACKABORT"))
  BY ResetSound, ReportSound DEF Reports
<1>2. ARQ_CONNECTED \in LinkStates
  BY DEF ARQ_CONNECTED, LinkStates, DOWN, ABORTING
<1>3. Sound(ParseABORT(x))
  BY <1>1, <1>2, StateSound DEF ParseABORT
<1>4. Sound(ParseACKABORT(x))
  BY <1>1, <1>2, StateSound DEF ParseACKABORT
<1> QED  BY <1>3, <1>4

LEMMA ParseUNPROTOSound ==
    ASSUME NEW x, Sound(x)
    PROVE  Sound(ParseUNPROTO(x))
<1> DEFINE y == [x EXCEPT !.UrCall = TRUE]
<1>1. y \in Station
  BY DEF Whole, Sound, Station
<1>2. /\ y.TxBlocks = x.TxBlocks /\ y.TxMissing = x.TxMissing /\ y.queued = x.queued
      /\ y.RxPending = x.RxPending /\ y.GoodHeader = x.GoodHeader
      /\ y.MissingRxBlocks = x.MissingRxBlocks /\ y.retries = x.retries
  BY DEF Whole, Sound, Station
<1>3. ParseUNPROTO(x) = x \/ ParseUNPROTO(x) = y
  BY DEF ParseUNPROTO
<1> HIDE DEF y
<1>4. Sound(y)
  BY <1>1, <1>2 DEF Whole, Sound, TextsInLine, FitsBurst, AsksNext
<1> QED  BY <1>3, <1>4

LEMMA ParsePOLLSound ==
    ASSUME NEW x, Sound(x)
    PROVE  Sound(ParsePOLL(x))
<1>1. Sound(Report(x, "STATUS"))
  BY ReportSound DEF Reports
<1>2. ARQ_CONNECTED \in LinkStates
  BY DEF ARQ_CONNECTED, LinkStates, DOWN, ABORTING
<1> QED  BY <1>1, <1>2, StateSound DEF ParsePOLL

---------------------------------------------------------------------------
(* parseSTATUS *)

\* There are finitely many blocks.
LEMMA BlocksFinite ==
    ASSUME NEW B \in SUBSET Blocks
    PROVE  IsFiniteSet(B) /\ Cardinality(B) \in Nat
<1> DEFINE pair == [b \in Blocks |-> <<b.nbr, b.text>>]
<1>1. IsFiniteSet(Nbr) /\ IsFiniteSet(Text)
  BY FS_Interval, MaxCountAssumption, StationAssumption DEF Nbr, Text
<1>2. IsFiniteSet(Nbr \X Text)
  BY <1>1, FS_Product
<1>3. pair \in Injection(Blocks, Nbr \X Text)
  BY DEF Blocks, Injection, IsInjective
<1>4. IsFiniteSet(Blocks)
  BY <1>2, <1>3, FS_Injection
<1> QED  BY <1>4, FS_Subset, FS_CardinalityType

\* Whatever the report says, the blocks to repeat become fewer.
LEMMA TakeReportSound ==
    ASSUME NEW x, Sound(x), NEW f, f.good \in Nbr
    PROVE  Sound(TakeReport(x, f))
<1> DEFINE missing == ConsideredMissing(x.LastHeader, f.end, f.missing)
           kept    == {b \in x.TxMissing : b.nbr \in missing}
           y       == [x EXCEPT !.UrGoodHeader = f.good, !.TxMissing = kept]
<1>1. kept \in SUBSET x.TxMissing /\ x.TxMissing \in SUBSET Blocks
  BY DEF Whole, Sound, Station
<1>2. Cardinality(kept) <= MaxHeaders
  <2> HIDE DEF kept
  <2>1. Cardinality(kept) <= Cardinality(x.TxMissing)
    BY <1>1, BlocksFinite, FS_Subset
  <2>2. Cardinality(kept) \in Nat /\ Cardinality(x.TxMissing) \in Nat
    BY <1>1, BlocksFinite
  <2> QED  BY <2>1, <2>2, StationAssumption DEF Whole, Sound, FitsBurst
<1>3. Sound(y)
  <2> HIDE DEF kept
  <2> QED  BY <1>1, <1>2 DEF Whole, Sound, Station, TextsInLine, FitsBurst, AsksNext
<1> QED  BY <1>3 DEF TakeReport

LEMMA EchoAcknowledgedSound ==
    ASSUME NEW x, Sound(x)
    PROVE  Sound(EchoAcknowledged(x))
<1> DEFINE n      == Echoed(x.TxPending, x.UrGoodHeader)
           printed == {x.TxPending[k].text : k \in 1 .. n}
           rest   == SubSeq(x.TxPending, n + 1, Len(x.TxPending))
<1>1. x.TxPending \in Seq(Blocks) /\ Len(x.TxPending) \in Nat
  BY LenProperties DEF Whole, Sound, Station
<1>2. n \in 0 .. Len(x.TxPending)
  BY <1>1, EchoedType
<1>3. \A k \in 1 .. Len(x.TxPending) : x.TxPending[k] \in Blocks
  BY <1>1, ElementOfSeq
<1>4. printed \in SUBSET Text
  BY <1>1, <1>2, <1>3 DEF Blocks
<1>5. rest \in Seq(Blocks)
  BY <1>1, <1>2, <1>3, SubSeqProperties
<1>6. Sound([x EXCEPT !.echoed = @ \cup printed, !.TxPending = rest])
  <2> HIDE DEF n, printed, rest
  <2> QED  BY <1>4, <1>5 DEF Whole, Sound, Station, TextsInLine, FitsBurst, AsksNext
<1> QED  BY <1>6 DEF EchoAcknowledged, Dropping

LEMMA ParseSTATUSSound ==
    ASSUME NEW x, Sound(x), NEW f, f.good \in Nbr
    PROVE  Sound(ParseSTATUS(x, f))
<1> DEFINE y == EchoAcknowledged(TakeReport(x, f))
<1>1. Sound(y)
  BY TakeReportSound, EchoAcknowledgedSound
<1>2. Sound([x EXCEPT !.UrGoodHeader = f.good, !.hung = TRUE])
  BY DEF Whole, Sound, Station, TextsInLine, FitsBurst, AsksNext
<1>3. \A state \in LinkStates : Sound([y EXCEPT !.LinkState = state])
  <2> HIDE DEF y
  <2> QED  BY <1>1 DEF Whole, Sound, Station, TextsInLine, FitsBurst, AsksNext
<1>4. y.LinkState \in LinkStates /\ ARQ_CONNECTED \in LinkStates /\ DOWN \in LinkStates
  BY <1>1 DEF Whole, Sound, Station, ARQ_CONNECTED, LinkStates, DOWN, ABORTING
<1> HIDE DEF y
<1>5. ParseSTATUS(x, f) = [x EXCEPT !.UrGoodHeader = f.good, !.hung = TRUE]
        \/ \E state \in LinkStates : ParseSTATUS(x, f) = [y EXCEPT !.LinkState = state]
  BY <1>4 DEF ParseSTATUS, y
<1> QED  BY <1>2, <1>3, <1>5

---------------------------------------------------------------------------
(* parseDATA and parseFrame *)

LEMMA ParseDATASound ==
    ASSUME NEW x, Sound(x), NEW block \in Blocks
    PROVE  Sound(ParseDATA(x, block))
<1> DEFINE pending == x.RxPending \cup {block}
           nbrs    == Nbrs(pending)
           end     == LastPending(nbrs, x.GoodHeader)
           good    == NewGood(nbrs, x.GoodHeader)
           texts   == DeliveredTexts(pending, x.GoodHeader)
           kept    == {b \in pending : b.nbr \notin Delivered(nbrs, x.GoodHeader)}
           gaps    == Gaps(Nbrs(kept), good, end)
<1>1. /\ x.GoodHeader \in Nbr /\ pending \in SUBSET Blocks
      /\ x.RxTextQueue \in Seq(Text) /\ x.printed \in SUBSET Text /\ x.reprinted \in SUBSET Text
  BY DEF Whole, Sound, Station
<1>2. nbrs \in SUBSET Nbr /\ nbrs # {}
  BY <1>1 DEF Nbrs, Blocks
<1>3. end \in Nbr
  <2> HIDE DEF nbrs
  <2> QED  BY <1>1, <1>2, LastPendingIsLast
<1>4. good \in Nbr
  <2> HIDE DEF nbrs
  <2>1. Deliverable(nbrs, x.GoodHeader) \in 0 .. MaxCount - 1
    BY <1>1, <1>2, ReadyIsPrefix
  <2> QED  BY <1>1, <2>1, StepOffset DEF NewGood
<1>5. texts \in Seq(Text) /\ Elements(texts) \in SUBSET Text
  <2>1. texts \in Seq(Text)
    <3> HIDE DEF pending
    <3> QED  BY <1>1, DeliveredTextsType DEF Blocks
  <2> HIDE DEF texts
  <2> QED  BY <2>1, ElementOfSeq DEF Elements
<1>6. kept \in SUBSET Blocks /\ Nbrs(kept) = nbrs \ Delivered(nbrs, x.GoodHeader)
  BY <1>1 DEF Nbrs
<1>7. gaps \in SUBSET Nbr /\ gaps \cap Nbrs(kept) = {}
  <2>1. Nbrs(kept) \in SUBSET Nbr
    BY <1>2, <1>6
  <2> HIDE DEF kept, good, end
  <2> QED  BY <1>3, <1>4, <2>1, GapsType DEF Gaps
<1>8. kept # {} /\ good \notin Nbrs(kept) => (good + 1) % MaxCount \in gaps
  <2>1. kept # {} => Nbrs(kept) # {}
    BY DEF Nbrs
  <2> HIDE DEF nbrs, kept
  <2> QED  BY <1>1, <1>2, <1>6, <2>1, GapsBeginAtGood
<1>9. x.RxTextQueue \o texts \in Seq(Text)
  <2> HIDE DEF texts
  <2> QED  BY <1>1, <1>5, ConcatProperties
<1>10. Sound([x EXCEPT !.RxPending = kept, !.EndHeader = end, !.GoodHeader = good,
                       !.RxTextQueue = @ \o texts,
                       !.printed = @ \cup Elements(texts),
                       !.reprinted = @ \cup (x.printed \cap Elements(texts)),
                       !.MissingRxBlocks = gaps])
  <2> HIDE DEF pending, nbrs, end, good, texts, kept, gaps
  <2> DEFINE y == [x EXCEPT !.RxPending = kept, !.EndHeader = end, !.GoodHeader = good,
                            !.RxTextQueue = @ \o texts,
                            !.printed = @ \cup Elements(texts),
                            !.reprinted = @ \cup (x.printed \cap Elements(texts)),
                            !.MissingRxBlocks = gaps]
  <2>1. y \in Station
    BY <1>1, <1>3, <1>4, <1>5, <1>6, <1>7, <1>9 DEF Whole, Sound, Station
  <2>2. /\ y.TxBlocks = x.TxBlocks /\ y.TxMissing = x.TxMissing /\ y.queued = x.queued
        /\ y.retries = x.retries
        /\ y.RxPending = kept /\ y.GoodHeader = good /\ y.MissingRxBlocks = gaps
    BY DEF Whole, Sound, Station
  <2> HIDE DEF y
  <2>3. TextsInLine(y) /\ FitsBurst(y)
    BY <2>2 DEF Whole, Sound, TextsInLine, FitsBurst
  <2>4. AsksNext(y)
    BY <1>7, <1>8, <2>2 DEF AsksNext
  <2>5. Sound(y)
    BY <2>1, <2>2, <2>3, <2>4 DEF Whole, Sound
  <2> QED  BY <2>5 DEF y
<1> QED  BY <1>10 DEF ParseDATA

\* Whatever frame is heard, in whatever state.
LEMMA ParseFrameSound ==
    ASSUME NEW x, Sound(x), NEW f \in Frames
    PROVE  Sound(ParseFrame(x, f))
<1> DEFINE y == [x EXCEPT !.retries = Retries]
<1>1. Sound(y)
  <2>1. Retries \in 0 .. Retries /\ Retries >= 1
    BY StationAssumption
  <2>2. y \in Station /\ y.retries = Retries
    BY <2>1 DEF Whole, Sound, Station
  <2>3. TextsInLine(y) /\ FitsBurst(y) /\ AsksNext(y)
    BY DEF Whole, Sound, Station, TextsInLine, FitsBurst, AsksNext
  <2> QED  BY <2>1, <2>2, <2>3 DEF Whole, Sound
<1> HIDE DEF y
<1>2. /\ Sound(ParseIDENT(y)) /\ Sound(ParseCONREQ(y)) /\ Sound(ParseCONACK(y))
      /\ Sound(ParseDISREQ(y)) /\ Sound(ParseDISACK(y)) /\ Sound(ParseABORT(y))
      /\ Sound(ParseACKABORT(y)) /\ Sound(ParseUNPROTO(y)) /\ Sound(ParsePOLL(y))
  BY <1>1, ParseIDENTSound, ParseCONREQSound, ParseCONACKSound, ParseDISREQSound,
     ParseDISACKSound, ParseABORTSound, ParseUNPROTOSound, ParsePOLLSound
<1>3. f.type = "STATUS" => Sound(ParseSTATUS(y, f))
  <2>1. f.type = "STATUS" => f.good \in Nbr
    BY DEF Frames, Plain
  <2> QED  BY <1>1, <2>1, ParseSTATUSSound
<1>4. f.type \notin Plain \cup Reports => Sound(ParseDATA(y, f.block))
  <2>1. f.type \notin Plain \cup Reports => f.block \in Blocks
    BY DEF Frames
  <2> QED  BY <1>1, <2>1, ParseDATASound
<1> QED  BY <1>1, <1>2, <1>3, <1>4 DEF ParseFrame, y, Plain, Reports

---------------------------------------------------------------------------
(* Transmitting *)

LEMMA TransmitDataWhole ==
    ASSUME NEW x, Whole(x)
    PROVE  Whole(TransmitData(x)) /\ TransmitData(x).retries = x.retries
<1>1. x.air \o x.TxTextQueue \in Seq(Frames)
  BY ConcatProperties DEF Whole, Station
<1>2. <<>> \in Seq(Frames)
  BY EmptySeq
<1>3. TransmitData(x) \in Station
  BY <1>1, <1>2 DEF TransmitData, Whole, Station
<1> DEFINE y == TransmitData(x)
<1>4. /\ y.TxBlocks = x.TxBlocks /\ y.TxMissing = x.TxMissing /\ y.queued = x.queued
      /\ y.RxPending = x.RxPending /\ y.GoodHeader = x.GoodHeader
      /\ y.MissingRxBlocks = x.MissingRxBlocks /\ y.retries = x.retries
  BY DEF TransmitData, Whole, Station
<1> HIDE DEF y
<1>5. TextsInLine(y) /\ FitsBurst(y) /\ AsksNext(y)
  BY <1>4 DEF Whole, TextsInLine, FitsBurst, AsksNext
<1> QED  BY <1>3, <1>4, <1>5 DEF Whole, y

LEMMA TransmitDataSound ==
    ASSUME NEW x, Sound(x)
    PROVE  Sound(TransmitData(x))
BY TransmitDataWhole DEF Sound

\* Blocks with different texts can be listed by their texts.
LEMMA SendOrderExists ==
    ASSUME NEW B \in SUBSET Blocks, \A b, c \in B : b.text = c.text => b = c
    PROVE  /\ InSendOrder(B) \in [1 .. Cardinality(B) -> B]
           /\ InSendOrder(B) \in Seq(B)
           /\ \A i, j \in 1 .. Cardinality(B) :
                    i < j => InSendOrder(B)[i].text < InSendOrder(B)[j].text
<1> DEFINE Listed(C)  == \E q \in [1 .. Cardinality(C) -> C] :
                            \A i, j \in 1 .. Cardinality(C) : i < j => q[i].text < q[j].text
           Subsets(n) == {C \in SUBSET B : Cardinality(C) = n}
           Unlisted   == {n \in Nat : \E C \in Subsets(n) : ~Listed(C)}
<1>1. Unlisted = {}
  <2> SUFFICES ASSUME Unlisted # {} PROVE FALSE
    OBVIOUS
  <2>1. PICK n \in Unlisted : \A m \in Unlisted : ~(<<m, n>> \in OpToRel(<, Nat))
    <3>1. Unlisted \subseteq Nat
      OBVIOUS
    <3> HIDE DEF Unlisted
    <3> QED  BY <3>1, NatLessThanWellFounded, WFMin
  <2>2. n \in Nat /\ \A m \in Unlisted : ~(m < n)
    <3>1. n \in Nat /\ \A m \in Unlisted : m \in Nat
      OBVIOUS
    <3> HIDE DEF Unlisted
    <3> QED  BY <2>1, <3>1 DEF OpToRel
  <2>3. PICK C \in SUBSET B : Cardinality(C) = n /\ ~Listed(C)
    OBVIOUS
  <2>4. IsFiniteSet(C) /\ C \in SUBSET Blocks
    BY BlocksFinite
  <2>5. C # {}
    <3> SUFFICES ASSUME C = {} PROVE Listed(C)
      BY <2>3
    <3>1. Cardinality(C) = 0
      BY FS_EmptySet
    <3>2. [i \in 1 .. 0 |-> i] \in [1 .. Cardinality(C) -> C]
      BY <3>1
    <3> QED  BY <3>1, <3>2
  <2>6. PICK last \in C : \A b \in C : b.text <= last.text
    <3> DEFINE S == {b.text : b \in C}
    <3>1. S \subseteq 0 .. MaxText /\ S # {} /\ MaxText \in Nat
      BY <2>4, <2>5, StationAssumption DEF Blocks, Text
    <3>2. PICK g \in S : \A t \in S : t <= g
      <4> HIDE DEF S
      <4> QED  BY <3>1, GreatestExists
    <3> QED  BY <3>2
  <2>7. Cardinality(C \ {last}) = n - 1 /\ n - 1 \in Nat
    <3>1. n # 0
      BY <2>3, <2>4, <2>5, FS_EmptySet
    <3>2. Cardinality(C \ {last}) = n - 1
      BY <2>3, <2>4, <2>6, FS_RemoveElement
    <3> QED  BY <2>2, <3>1, <3>2
  <2>8. Listed(C \ {last})
    <3>1. n - 1 \notin Unlisted
      BY <2>2, <2>7
    <3>2. C \ {last} \in Subsets(n - 1)
      BY <2>7
    <3> QED  BY <2>7, <3>1, <3>2
  <2>9. PICK q \in [1 .. n - 1 -> C \ {last}] :
            \A i, j \in 1 .. n - 1 : i < j => q[i].text < q[j].text
    BY <2>7, <2>8
  <2> DEFINE r == [i \in 1 .. n |-> IF i = n THEN last ELSE q[i]]
  <2>10. r \in [1 .. Cardinality(C) -> C]
    BY <2>2, <2>3, <2>9
  <2>11. ASSUME NEW i \in 1 .. n, NEW j \in 1 .. n, i < j
         PROVE  r[i].text < r[j].text
    <3>1. i \in 1 .. n - 1 /\ r[i] = q[i] /\ q[i] \in C \ {last}
      BY <2>2, <2>9, <2>11
    <3>2. CASE j = n
      <4>1. q[i].text <= last.text /\ q[i].text # last.text
        BY <2>6, <3>1
      <4>2. q[i].text \in Nat /\ last.text \in Nat
        BY <2>4, <3>1 DEF Blocks, Text
      <4> QED  BY <3>1, <3>2, <4>1, <4>2
    <3>3. CASE j # n
      BY <2>2, <2>9, <2>11, <3>1, <3>3
    <3> QED  BY <3>2, <3>3
  <2> HIDE DEF r
  <2>12. Listed(C)
    BY <2>3, <2>10, <2>11
  <2> QED  BY <2>3, <2>12
<1>2. Cardinality(B) \in Nat
  BY BlocksFinite
<1>3. Listed(B)
  BY <1>1, <1>2
<1>4. /\ InSendOrder(B) \in [1 .. Cardinality(B) -> B]
      /\ \A i, j \in 1 .. Cardinality(B) :
            i < j => InSendOrder(B)[i].text < InSendOrder(B)[j].text
  BY <1>3 DEF InSendOrder
<1> HIDE DEF Listed, Subsets, Unlisted
<1> QED  BY <1>2, <1>4, SeqDef

LEMMA DataFramesType ==
    ASSUME NEW q \in Seq(Blocks)
    PROVE  DataFrames(q) \in Seq(Frames)
<1>1. Len(q) \in Nat /\ \A k \in 1 .. Len(q) : q[k] \in Blocks
  BY LenProperties, ElementOfSeq
<1>2. \A k \in 1 .. Len(q) : [type |-> "DATA", block |-> q[k]] \in Frames
  BY <1>1 DEF Frames
<1>3. DataFrames(q) \in [1 .. Len(q) -> Frames]
  BY <1>2 DEF DataFrames
<1> QED  BY <1>1, <1>3, SeqDef

\* The new blocks move from the queue to the blocks to be acknowledged without
\* a text getting lost or doubled, and the burst is not exceeded.
LEMMA SendBlocksSound ==
    ASSUME NEW x, Sound(x)
    PROVE  Sound(SendBlocks(x))
<1> DEFINE L    == Len(x.TxBlocks)
           n    == NewBlocks(x.TxBlocks, Cardinality(x.TxMissing), MaxHeaders, x.UrGoodHeader)
           new  == SubSeq(x.TxBlocks, 1, n)
           rest == SubSeq(x.TxBlocks, n + 1, L)
           sent == {new[k] : k \in 1 .. n}
           data == DataFrames(InSendOrder(x.TxMissing)) \o DataFrames(new)
           last == IF n = 0 THEN x.LastHeader ELSE new[n].nbr
           y    == [x EXCEPT !.TxMissing = @ \cup sent, !.TxPending = @ \o new,
                             !.TxBlocks = rest, !.LastHeader = last,
                             !.TxTextQueue = @ \o data, !.LinkState = WAITING]
<1>1. /\ x.TxBlocks \in Seq(Blocks) /\ x.TxPending \in Seq(Blocks)
      /\ x.TxTextQueue \in Seq(Frames) /\ x.TxMissing \in SUBSET Blocks
      /\ x.LastHeader \in Nbr /\ x.queued \in 0 .. MaxText
  BY DEF Whole, Sound, Station
<1>2. L \in Nat /\ \A k \in 1 .. L : x.TxBlocks[k] \in Blocks
  BY <1>1, LenProperties, ElementOfSeq
<1>3. IsFiniteSet(x.TxMissing) /\ Cardinality(x.TxMissing) \in Nat
  BY <1>1, BlocksFinite
<1>4. n \in 0 .. L /\ (n = 0 \/ Cardinality(x.TxMissing) + n <= MaxHeaders)
  BY <1>1, <1>3, NewBlocksBound, StationAssumption
<1> HIDE DEF n
<1>5. new \in Seq(Blocks) /\ Len(new) = n /\ \A k \in 1 .. n : new[k] = x.TxBlocks[k]
  BY <1>2, <1>4, SubSeqProperties
<1>6. rest \in Seq(Blocks) /\ Len(rest) = L - n /\ \A k \in 1 .. L - n : rest[k] = x.TxBlocks[n + k]
  <2>1. /\ rest \in Seq(Blocks)
        /\ Len(rest) = IF n + 1 <= L THEN L - (n + 1) + 1 ELSE 0
        /\ \A k \in 1 .. L - (n + 1) + 1 : rest[k] = x.TxBlocks[n + 1 + k - 1]
    BY <1>2, <1>4, SubSeqProperties
  <2> HIDE DEF rest
  <2>2. Len(rest) = L - n
    BY <1>2, <1>4, <2>1
  <2>3. ASSUME NEW k \in 1 .. L - n
        PROVE  rest[k] = x.TxBlocks[n + k]
    <3>1. k \in 1 .. L - (n + 1) + 1 /\ n + 1 + k - 1 = n + k
      BY <1>2, <1>4
    <3> QED  BY <2>1, <3>1
  <2> QED  BY <2>1, <2>2, <2>3
<1>7. sent \in SUBSET Blocks /\ sent = {x.TxBlocks[k] : k \in 1 .. n}
  BY <1>2, <1>4, <1>5
<1>8. last \in Nbr
  <2>1. CASE n = 0
    BY <1>1, <2>1
  <2>2. CASE n # 0
    <3>1. new[n] \in Blocks
      BY <1>2, <1>4, <1>5, <2>2
    <3> QED  BY <2>2, <3>1 DEF Blocks
  <2> QED  BY <2>1, <2>2
<1>9. x.TxPending \o new \in Seq(Blocks)
  <2> HIDE DEF new
  <2> QED  BY <1>1, <1>5, ConcatProperties
<1>10. x.TxTextQueue \o data \in Seq(Frames)
  <2>1. InSendOrder(x.TxMissing) \in Seq(x.TxMissing)
    BY <1>1, SendOrderExists DEF Whole, Sound, TextsInLine
  <2>2. InSendOrder(x.TxMissing) \in Seq(Blocks)
    BY <1>1, <2>1, SeqMonotonic
  <2>3. data \in Seq(Frames)
    <3> HIDE DEF new
    <3> QED  BY <1>5, <2>2, DataFramesType, ConcatProperties
  <2> HIDE DEF data
  <2> QED  BY <1>1, <2>3, ConcatProperties
<1>11. Cardinality(x.TxMissing \cup sent) <= MaxHeaders
  <2>1. CASE n = 0
    <3>1. x.TxMissing \cup sent = x.TxMissing
      BY <2>1
    <3> QED  BY <3>1 DEF Whole, Sound, FitsBurst
  <2>2. CASE n # 0
    <3> DEFINE f == [k \in 1 .. n |-> new[k]]
    <3>1. f \in Surjection(1 .. n, sent)
      BY DEF Surjection
    <3>2. IsFiniteSet(1 .. n) /\ Cardinality(1 .. n) = n
      BY <1>4, FS_Interval
    <3>3. IsFiniteSet(sent) /\ Cardinality(sent) <= n
      <4> HIDE DEF f, sent
      <4> QED  BY <3>1, <3>2, FS_Surjection
    <3> HIDE DEF sent
    <3>4. Cardinality(x.TxMissing \cup sent)
            = Cardinality(x.TxMissing) + Cardinality(sent) - Cardinality(x.TxMissing \cap sent)
      BY <1>3, <3>3, FS_Union
    <3>5. Cardinality(sent) \in Nat /\ Cardinality(x.TxMissing \cap sent) \in Nat
      BY <1>1, <1>7, <3>3, FS_CardinalityType, BlocksFinite
    <3> QED  BY <1>3, <1>4, <2>2, <3>3, <3>4, <3>5, StationAssumption
  <2> QED  BY <2>1, <2>2
<1>12. /\ \A k \in 1 .. L : x.TxBlocks[k].text = x.queued - L + k
       /\ \A b \in x.TxMissing : b.text <= x.queued - L
       /\ \A b, c \in x.TxMissing : b.text = c.text => b = c
  BY DEF Whole, Sound, TextsInLine
<1>13. \A k \in 1 .. L - n : rest[k].text = x.queued - (L - n) + k
  <2> TAKE k \in 1 .. L - n
  <2>1. n + k \in 1 .. L
    BY <1>2, <1>4
  <2>2. rest[k].text = x.queued - L + (n + k)
    BY <1>6, <1>12, <2>1
  <2> QED  BY <1>1, <1>2, <1>4, <2>2
<1>14. \A b \in x.TxMissing \cup sent : b.text <= x.queued - (L - n)
  <2>1. \A b \in x.TxMissing : b.text \in Nat
    BY <1>1 DEF Blocks, Text
  <2>2. \A b \in x.TxMissing : b.text <= x.queued - (L - n)
    BY <1>1, <1>2, <1>4, <1>12, <2>1
  <2>3. ASSUME NEW k \in 1 .. n
        PROVE  x.TxBlocks[k].text <= x.queued - (L - n)
    <3>1. k \in 1 .. L
      BY <1>2, <1>4
    <3>2. x.TxBlocks[k].text = x.queued - L + k
      BY <1>12, <3>1
    <3> HIDE DEF L
    <3> QED  BY <1>1, <1>2, <1>4, <3>2
  <2> QED  BY <1>7, <2>2, <2>3
<1>15. \A b, c \in x.TxMissing \cup sent : b.text = c.text => b = c
  <2>1. \A b \in x.TxMissing : b.text \in Nat
    BY <1>1 DEF Blocks, Text
  <2>8. \A k \in 1 .. n : x.TxBlocks[k].text = x.queued - L + k
    BY <1>2, <1>4, <1>12
  <2>9. L \in Nat /\ n \in Nat /\ x.queued \in Nat
    BY <1>1, <1>2, <1>4
  <2>2. ASSUME NEW b \in x.TxMissing, NEW k \in 1 .. n
        PROVE  b.text # x.TxBlocks[k].text
    <3>1. b.text <= x.queued - L /\ x.TxBlocks[k].text = x.queued - L + k
      BY <1>12, <2>8
    <3> HIDE DEF L
    <3> QED  BY <2>1, <2>9, <3>1
  <2>3. ASSUME NEW j \in 1 .. n, NEW k \in 1 .. n, x.TxBlocks[j].text = x.TxBlocks[k].text
        PROVE  j = k
    <3>1. x.queued - L + j = x.queued - L + k
      BY <2>3, <2>8
    <3> HIDE DEF L
    <3> QED  BY <2>9, <3>1
  <2> HIDE DEF sent
  <2> TAKE b, c \in x.TxMissing \cup sent
  <2>4. CASE b \in x.TxMissing /\ c \in x.TxMissing
    BY <1>12, <2>4
  <2>5. CASE b \in x.TxMissing /\ c \in sent
    BY <1>7, <2>2, <2>5
  <2>6. CASE b \in sent /\ c \in x.TxMissing
    BY <1>7, <2>2, <2>6
  <2>7. CASE b \in sent /\ c \in sent
    <3>1. PICK j \in 1 .. n, k \in 1 .. n : b = x.TxBlocks[j] /\ c = x.TxBlocks[k]
      BY <1>7, <2>7
    <3> QED  BY <2>3, <3>1
  <2> QED  BY <2>4, <2>5, <2>6, <2>7
<1>16. WAITING \in LinkStates
  BY DEF WAITING, LinkStates, DOWN, ABORTING
<1>17. Sound(y)
  <2> HIDE DEF L, new, rest, sent, data, last
  <2>1. y \in Station /\ y.retries >= 1
    BY <1>1, <1>6, <1>7, <1>8, <1>9, <1>10, <1>16 DEF Whole, Sound, Station
  <2>2. /\ y.TxBlocks = rest /\ y.TxMissing = x.TxMissing \cup sent /\ y.queued = x.queued
        /\ y.RxPending = x.RxPending /\ y.MissingRxBlocks = x.MissingRxBlocks
        /\ y.GoodHeader = x.GoodHeader
    BY DEF Whole, Sound, Station
  <2> HIDE DEF y
  <2>3. TextsInLine(y)
    BY <1>6, <1>13, <1>14, <1>15, <2>2 DEF TextsInLine
  <2>4. FitsBurst(y) /\ AsksNext(y)
    BY <1>11, <2>2 DEF Whole, Sound, FitsBurst, AsksNext
  <2> QED  BY <2>1, <2>3, <2>4 DEF Whole, Sound
<1>18. SendBlocks(x) = Report(y, "POLL")
  BY DEF SendBlocks, Dropping, n
<1> QED  BY <1>17, <1>18, ReportSound DEF Reports

---------------------------------------------------------------------------
(* arqloop *)

LEMMA GiveUpSound ==
    ASSUME NEW x, Whole(x)
    PROVE  Sound(GiveUp(x))
<1> DEFINE y == [x EXCEPT !.retries = Retries]
<1>1. Retries \in 0 .. Retries /\ Retries >= 1
  BY StationAssumption
<1>2. y \in Station /\ y.retries = Retries
  BY <1>1 DEF Whole, Station
<1>3. TextsInLine(y) /\ FitsBurst(y) /\ AsksNext(y)
  BY DEF Whole, Station, TextsInLine, FitsBurst, AsksNext
<1> DEFINE z == ClearTx(y)
           w == [z EXCEPT !.LinkState = DOWN]
<1>4. Sound(z)
  BY <1>1, <1>2, <1>3, ClearTxSound DEF Whole, Sound
<1>5. GiveUp(x) = w
  BY DEF GiveUp, ClearTx, Whole, Station
<1>6. DOWN \in LinkStates
  BY DEF LinkStates, DOWN, ABORTING
<1> HIDE DEF y, z
<1>7. w \in Station
  BY <1>4, <1>6 DEF Whole, Sound, Station
<1>8. /\ w.TxBlocks = z.TxBlocks /\ w.TxMissing = z.TxMissing /\ w.queued = z.queued
      /\ w.RxPending = z.RxPending /\ w.GoodHeader = z.GoodHeader
      /\ w.MissingRxBlocks = z.MissingRxBlocks /\ w.retries = z.retries
  BY <1>4 DEF Whole, Sound, Station
<1> HIDE DEF w
<1>9. TextsInLine(w) /\ FitsBurst(w) /\ AsksNext(w)
  BY <1>4, <1>8 DEF Whole, Sound, TextsInLine, FitsBurst, AsksNext
<1> QED  BY <1>4, <1>5, <1>7, <1>8, <1>9 DEF Whole, Sound

LEMMA RepeatWhole ==
    ASSUME NEW x, Sound(x), NEW again, Sound(again)
    PROVE  Whole(Repeat(x, again))
<1>1. x.retries \in 1 .. Retries
  BY DEF Whole, Sound, Station
<1>2. Whole([x EXCEPT !.retries = 0])
  <2>1. 0 \in 0 .. Retries
    BY StationAssumption
  <2> QED  BY <2>1 DEF Whole, Sound, Station, TextsInLine, FitsBurst, AsksNext
<1>3. Whole([again EXCEPT !.retries = x.retries - 1])
  <2>1. x.retries - 1 \in 0 .. Retries
    BY <1>1, StationAssumption
  <2> QED  BY <2>1 DEF Whole, Sound, Station, TextsInLine, FitsBurst, AsksNext
<1> QED  BY <1>2, <1>3, TransmitDataWhole DEF Repeat

LEMMA SwitchWhole ==
    ASSUME NEW x, Sound(x), NEW due \in BOOLEAN
    PROVE  Whole(Switch(x, due))
<1>1. Sound(Send(ClearTx(x), "DISREQ")) /\ Sound(Send(ClearTx(x), "ABORT"))
  BY ClearTxSound, SendSound DEF Plain
<1>2. DISCONNECTING \in LinkStates /\ ABORTING \in LinkStates
  BY DEF DISCONNECTING, ABORTING, DOWN, LinkStates
<1>3. Whole([Send(ClearTx(x), "DISREQ") EXCEPT !.LinkState = DISCONNECTING, !.immediate = TRUE])
  BY <1>1, <1>2 DEF Whole, Sound, Station, TextsInLine, FitsBurst, AsksNext
<1>4. Whole([Send(ClearTx(x), "ABORT") EXCEPT !.LinkState = ABORTING, !.immediate = TRUE])
  BY <1>1, <1>2 DEF Whole, Sound, Station, TextsInLine, FitsBurst, AsksNext
<1>5. Whole(Repeat(x, Send(ClearTx(x), "DISREQ")))
  BY <1>1, RepeatWhole
<1>6. Whole(TransmitData([Send(ClearTx(x), "ABORT") EXCEPT !.retries = x.retries - 1]))
  <2>1. x.retries - 1 \in 0 .. Retries
    BY StationAssumption DEF Whole, Sound, Station
  <2>2. Whole([Send(ClearTx(x), "ABORT") EXCEPT !.retries = x.retries - 1])
    BY <1>1, <2>1 DEF Whole, Sound, Station, TextsInLine, FitsBurst, AsksNext
  <2> QED  BY <2>2, TransmitDataWhole
<1>7. Whole(Repeat(x, Report([x EXCEPT !.TxTextQueue = <<>>], "POLL")))
  <2>1. Sound([x EXCEPT !.TxTextQueue = <<>>])
    BY EmptySeq DEF Whole, Sound, Station, TextsInLine, FitsBurst, AsksNext
  <2> QED  BY <2>1, ReportSound, RepeatWhole DEF Reports
<1>8. Whole(Repeat(x, AckFrame(x)))
  BY ResetSound, SendSound, RepeatWhole DEF AckFrame, Plain
<1>9. Whole(TransmitData(SendBlocks(x))) /\ Whole(TransmitData(x))
  BY SendBlocksSound, TransmitDataSound DEF Sound
<1> QED  BY <1>3, <1>4, <1>5, <1>6, <1>7, <1>8, <1>9 DEF Switch, Sound

LEMMA ExpireSound ==
    ASSUME NEW x, Whole(x), NEW timedOut \in BOOLEAN
    PROVE  Sound(Expire(x, timedOut))
<1>1. ASSUME x.retries > 1
      PROVE  Sound(TransmitData(Send([x EXCEPT !.TxTextQueue = <<>>, !.retries = @ - 1], "IDENT")))
  <2>1. x.retries - 1 \in 0 .. Retries /\ x.retries - 1 >= 1
    BY <1>1, StationAssumption DEF Whole, Station
  <2>2. Sound([x EXCEPT !.TxTextQueue = <<>>, !.retries = @ - 1])
    BY <2>1, EmptySeq DEF Whole, Sound, Station, TextsInLine, FitsBurst, AsksNext
  <2> QED  BY <2>2, SendSound, TransmitDataSound DEF Plain
<1>2. Sound(GiveUp(x))
  BY GiveUpSound
<1>3. \A state \in LinkStates : Sound([GiveUp(x) EXCEPT !.LinkState = state])
  BY <1>2 DEF Whole, Sound, Station, TextsInLine, FitsBurst, AsksNext
<1>4. DOWN \in LinkStates /\ TIMEDOUT \in LinkStates
  BY DEF LinkStates, DOWN, TIMEDOUT, ABORTING
<1>5. x.retries # 0 => Sound(x)
  BY StationAssumption DEF Whole, Sound, Station
<1> QED  BY <1>1, <1>2, <1>3, <1>4, <1>5 DEF Expire

LEMMA TurnSound ==
    ASSUME NEW x, Sound(x), NEW event
    PROVE  Sound(Turn(x, event))
<1>1. Sound([TransmitData(x) EXCEPT !.retries = Retries, !.immediate = FALSE])
  <2>1. Retries \in 0 .. Retries /\ Retries >= 1
    BY StationAssumption
  <2>2. Sound(TransmitData(x))
    BY TransmitDataSound
  <2> QED  BY <2>1, <2>2 DEF Whole, Sound, Station, TextsInLine, FitsBurst, AsksNext
<1>2. Sound(Expire(Switch(x, event = "retry"), event = "timeout"))
  BY SwitchWhole, ExpireSound
<1> QED  BY <1>1, <1>2 DEF Turn

LEMMA ArqLoopSound ==
    ASSUME NEW x, Sound(x), NEW event
    PROVE  Sound(ArqLoop(x, event))
<1>1. Sound(Turn(x, event))
  BY TurnSound
<1>2. Sound(GiveUp(Turn(x, event)))
  BY <1>1, GiveUpSound DEF Sound
<1>3. Sound([GiveUp(Turn(x, event)) EXCEPT !.arqstop = FALSE])
  BY <1>2 DEF Whole, Sound, Station, TextsInLine, FitsBurst, AsksNext
<1> QED  BY <1>1, <1>3 DEF ArqLoop

---------------------------------------------------------------------------
(* The user *)

LEMMA ConnectSound ==
    ASSUME NEW x, Sound(x)
    PROVE  Sound(Connect(x))
<1>1. Sound([x EXCEPT !.UrCall = TRUE, !.TxTextQueue = <<>>])
  BY EmptySeq DEF Whole, Sound, Station, TextsInLine, FitsBurst, AsksNext
<1>2. Sound(Send(Reset([x EXCEPT !.UrCall = TRUE, !.TxTextQueue = <<>>]), "CONREQ"))
  BY <1>1, ResetSound, SendSound DEF Plain
<1>3. ARQ_CONNECTING \in LinkStates
  BY DEF ARQ_CONNECTING, LinkStates, DOWN, ABORTING
<1> QED  BY <1>2, <1>3
         DEF Connect, ConnectFrame, Whole, Sound, Station, TextsInLine, FitsBurst, AsksNext

LEMMA TearDownSound ==
    ASSUME NEW x, Sound(x)
    PROVE  Sound(Disconnect(x)) /\ Sound(Abort(x)) /\ Sound([x EXCEPT !.arqstop = TRUE])
<1>1. DISCONNECT \in LinkStates /\ ABORT \in LinkStates
  BY DEF DISCONNECT, ABORT, LinkStates, DOWN, ABORTING
<1>2. Sound(Disconnect(x))
  BY <1>1 DEF Disconnect, Whole, Sound, Station, TextsInLine, FitsBurst, AsksNext
<1>3. Sound(Abort(x))
  BY <1>1 DEF Abort, Whole, Sound, Station, TextsInLine, FitsBurst, AsksNext
<1>4. Sound([x EXCEPT !.arqstop = TRUE])
  BY DEF Whole, Sound, Station, TextsInLine, FitsBurst, AsksNext
<1> QED  BY <1>2, <1>3, <1>4

LEMMA BeaconSound ==
    ASSUME NEW x, Sound(x)
    PROVE  Sound(Beacon(x))
<1>1. Sound([x EXCEPT !.TxTextQueue = <<>>])
  BY EmptySeq DEF Whole, Sound, Station, TextsInLine, FitsBurst, AsksNext
<1>2. Sound(Send([x EXCEPT !.TxTextQueue = <<>>], "UNPROTO"))
  BY <1>1, SendSound DEF Plain
<1>3. DOWN \in LinkStates
  BY DEF LinkStates, DOWN, ABORTING
<1> QED  BY <1>2, <1>3 DEF Beacon, Whole, Sound, Station, TextsInLine, FitsBurst, AsksNext

LEMMA SendTextSound ==
    ASSUME NEW x, Sound(x), NEW n \in 1 .. MaxText - x.queued
    PROVE  Sound(SendText(x, n))
<1> DEFINE L     == Len(x.TxBlocks)
           new   == [k \in 1 .. n |-> [nbr |-> (x.Lastqueued + k) % MaxCount,
                                       text |-> x.queued + k]]
           queue == x.TxBlocks \o new
           y     == [x EXCEPT !.Lastqueued = (@ + n) % MaxCount,
                              !.TxBlocks = queue, !.queued = @ + n]
<1>1. /\ x.TxBlocks \in Seq(Blocks) /\ L \in Nat
      /\ x.queued \in 0 .. MaxText /\ x.Lastqueued \in Int /\ MaxText \in Nat
  BY LenProperties, StationAssumption, MaxCountAssumption DEF Whole, Sound, Station, Nbr
<1>2. n \in Nat /\ x.queued + n \in 0 .. MaxText
  BY <1>1
<1>3. \A k \in 1 .. n : [nbr |-> (x.Lastqueued + k) % MaxCount, text |-> x.queued + k] \in Blocks
  <2> TAKE k \in 1 .. n
  <2>1. (x.Lastqueued + k) % MaxCount \in Nbr
    BY <1>1, FoldType
  <2>2. x.queued + k \in Text
    BY <1>1, <1>2 DEF Text
  <2> QED  BY <2>1, <2>2 DEF Blocks
<1>4. new \in Seq(Blocks) /\ Len(new) = n /\ \A k \in 1 .. n : new[k].text = x.queued + k
  <2>1. new \in [1 .. n -> Blocks]
    BY <1>3
  <2>2. new \in Seq(Blocks)
    BY <1>2, <2>1, SeqDef
  <2>3. Len(new) = n
    BY <1>2, <2>1, <2>2, LenProperties
  <2> QED  BY <2>2, <2>3
<1>5. /\ queue \in Seq(Blocks) /\ Len(queue) = L + n
      /\ \A k \in 1 .. L + n : queue[k] = IF k <= L THEN x.TxBlocks[k] ELSE new[k - L]
  <2> HIDE DEF new
  <2> QED  BY <1>1, <1>4, ConcatProperties
<1>6. \A k \in 1 .. L + n : queue[k].text = (x.queued + n) - (L + n) + k
  <2> TAKE k \in 1 .. L + n
  <2> HIDE DEF new, queue
  <2>1. CASE k <= L
    <3>1. x.TxBlocks[k].text = x.queued - L + k
      BY <1>1, <1>2, <2>1 DEF Whole, Sound, TextsInLine
    <3>2. queue[k] = x.TxBlocks[k]
      BY <1>5, <2>1
    <3>3. k \in Nat /\ L \in Nat
      BY <1>1, <1>2
    <3> HIDE DEF L
    <3> QED  BY <1>1, <1>2, <3>1, <3>2, <3>3
  <2>2. CASE ~(k <= L)
    <3>1. k - L \in 1 .. n
      BY <1>1, <1>2, <2>2
    <3>2. queue[k].text = x.queued + (k - L)
      BY <1>4, <1>5, <2>2, <3>1
    <3> HIDE DEF L
    <3> QED  BY <1>1, <1>2, <3>2
  <2> QED  BY <2>1, <2>2
<1>7. Sound(y)
  <2>1. (x.Lastqueued + n) % MaxCount \in Nbr
    BY <1>1, <1>2, FoldType
  <2> HIDE DEF new, queue
  <2>2. y \in Station /\ y.retries >= 1
    BY <1>2, <1>5, <2>1 DEF Whole, Sound, Station
  <2>3. /\ y.TxBlocks = queue /\ y.TxMissing = x.TxMissing /\ y.queued = x.queued + n
        /\ y.RxPending = x.RxPending /\ y.MissingRxBlocks = x.MissingRxBlocks
        /\ y.GoodHeader = x.GoodHeader
    BY DEF Whole, Sound, Station
  <2> HIDE DEF y
  <2>4. \A b \in x.TxMissing : b.text <= (x.queued + n) - (L + n)
    <3>1. \A b \in x.TxMissing : b.text \in Nat /\ b.text <= x.queued - L
      BY DEF Whole, Sound, Station, TextsInLine, Blocks, Text
    <3> HIDE DEF L
    <3> QED  BY <1>1, <1>2, <3>1
  <2>5. TextsInLine(y)
    BY <1>5, <1>6, <2>3, <2>4 DEF Whole, Sound, TextsInLine
  <2>6. FitsBurst(y) /\ AsksNext(y)
    BY <2>3 DEF Whole, Sound, FitsBurst, AsksNext
  <2> QED  BY <2>2, <2>5, <2>6 DEF Whole, Sound
<1> QED  BY <1>7 DEF SendText

---------------------------------------------------------------------------
(* arq::arq *)

LEMMA NewStationSound == Sound(NewStation)
<1>1. MaxCount - 1 \in Nbr /\ DOWN \in LinkStates /\ Retries \in 0 .. Retries /\ Retries >= 1
      /\ 0 \in 0 .. MaxText
  BY MaxCountAssumption, StationAssumption DEF Nbr, LinkStates, DOWN, ABORTING
<1>2. NewStation \in Station
  BY <1>1, EmptySeq DEF NewStation, Station
<1>3. TextsInLine(NewStation)
  BY EmptySeq DEF NewStation, TextsInLine
<1>4. FitsBurst(NewStation) /\ AsksNext(NewStation)
  BY FS_EmptySet, StationAssumption DEF NewStation, FitsBurst, AsksNext
<1>5. NewStation.retries >= 1
  BY <1>1 DEF NewStation
<1> QED  BY <1>2, <1>3, <1>4, <1>5 DEF Whole, Sound

---------------------------------------------------------------------------
(* The two stations and the channel *)

BudgetOK == left \in [Outside -> Nat]

StationsOK == st \in [Stations -> Station] /\ \A s \in Stations : Sound(st[s])

IInv == BudgetOK /\ StationsOK

---------------------------------------------------------------------------
LEMMA InitIInv == Init => IInv
<1> SUFFICES ASSUME Init PROVE IInv
  OBVIOUS
<1>1. BudgetOK
  BY LinkAssumption DEF Init, BudgetOK
<1>2. NewStation \in Station
  BY NewStationSound DEF Whole, Sound
<1>3. StationsOK
  BY <1>2, NewStationSound DEF Init, StationsOK
<1> QED  BY <1>1, <1>3 DEF IInv

LEMMA SpendKeepsBudget ==
    ASSUME BudgetOK, NEW e \in Outside, Spend(e)
    PROVE  BudgetOK'
BY DEF BudgetOK, Spend

\* A step that changes one station, and keeps it sound.
LEMMA OneStationStep ==
    ASSUME StationsOK, NEW s \in Stations, NEW y, Sound(y), st' = [st EXCEPT ![s] = y]
    PROVE  StationsOK'
BY DEF StationsOK, Whole, Sound

\* The channel hands over a frame: taken off one station's air, given to the
\* other one.
LEMMA ReceiveKeeps ==
    ASSUME StationsOK, NEW s \in Stations, Receive(s)
    PROVE  StationsOK'
<1> DEFINE p == Peer(s)
           sender   == [st[p] EXCEPT !.air = Tail(@)]
           receiver == ParseFrame(st[s], Head(st[p].air))
<1>1. p \in Stations /\ p # s
  BY DEF Stations, Peer
<1>2. Sound(st[s]) /\ Sound(st[p])
  BY <1>1 DEF StationsOK
<1>3. st[p].air \in Seq(Frames) /\ st[p].air # <<>>
  BY <1>2 DEF Whole, Sound, Station, Receive
<1>4. Head(st[p].air) \in Frames /\ Tail(st[p].air) \in Seq(Frames)
  BY <1>3, HeadTailProperties
<1>5. Sound(receiver)
  BY <1>2, <1>4, ParseFrameSound
<1>6. Sound(sender)
  BY <1>2, <1>4 DEF Whole, Sound, Station, TextsInLine, FitsBurst, AsksNext
<1>7. st' = [st EXCEPT ![p] = sender, ![s] = receiver]
  BY <1>1 DEF Receive, StationsOK
<1> HIDE DEF sender, receiver, p
<1> QED  BY <1>1, <1>5, <1>6, <1>7 DEF StationsOK, Whole, Sound

LEMMA LoseKeeps ==
    ASSUME StationsOK, NEW s \in Stations, Lose(s)
    PROVE  StationsOK'
<1>1. Sound(st[s])
  BY DEF StationsOK
<1>2. st[s].air \in Seq(Frames) /\ st[s].air # <<>>
  BY <1>1 DEF Whole, Sound, Station, Lose
<1>3. Tail(st[s].air) \in Seq(Frames)
  BY <1>2, HeadTailProperties
<1>4. Sound([st[s] EXCEPT !.air = Tail(@)])
  BY <1>1, <1>3 DEF Whole, Sound, Station, TextsInLine, FitsBurst, AsksNext
<1>5. st' = [st EXCEPT ![s] = [st[s] EXCEPT !.air = Tail(@)]]
  BY DEF Lose
<1> QED  BY <1>4, <1>5, OneStationStep

LEMMA TxDoneKeeps ==
    ASSUME StationsOK, NEW s \in Stations, TxDone(s)
    PROVE  StationsOK'
<1>0. Sound(st[s])
  BY DEF StationsOK
<1>1. Sound([st[s] EXCEPT !.Sending = FALSE])
  BY <1>0 DEF Whole, Sound, Station, TextsInLine, FitsBurst, AsksNext
<1>2. st' = [st EXCEPT ![s] = [st[s] EXCEPT !.Sending = FALSE]]
  BY DEF TxDone
<1> QED  BY <1>1, <1>2, OneStationStep

LEMMA LoopsKeep ==
    ASSUME StationsOK, NEW s \in Stations, NEW event, Loops(s, event)
    PROVE  StationsOK'
<1>1. Sound(ArqLoop(st[s], event))
  BY ArqLoopSound DEF StationsOK
<1>2. st' = [st EXCEPT ![s] = ArqLoop(st[s], event)]
  BY DEF Loops
<1> QED  BY <1>1, <1>2, OneStationStep

LEMMA UserKeeps ==
    ASSUME StationsOK, NEW s \in Stations,
           \/ UserConnect(s) \/ UserDisconnect(s) \/ UserAbort(s) \/ UserBeacon(s)
           \/ UserTalk(s) \/ UserRestart(s) \/ UserSendText(s)
    PROVE  StationsOK'
<1>1. Sound(st[s])
  BY DEF StationsOK
<1>2. CASE UserConnect(s)
  BY <1>1, <1>2, ConnectSound, OneStationStep DEF UserConnect, Does
<1>3. CASE UserDisconnect(s)
  BY <1>1, <1>3, TearDownSound, OneStationStep DEF UserDisconnect, Does
<1>4. CASE UserAbort(s)
  BY <1>1, <1>4, TearDownSound, OneStationStep DEF UserAbort, Does
<1>5. CASE UserBeacon(s)
  BY <1>1, <1>5, BeaconSound, OneStationStep DEF UserBeacon, Does
<1>6. CASE UserTalk(s)
  BY <1>1, <1>6, SendSound, OneStationStep DEF UserTalk, Does, Plain
<1>7. CASE UserRestart(s)
  BY <1>1, <1>7, TearDownSound, OneStationStep DEF UserRestart, Does
<1>8. CASE UserSendText(s)
  <2>1. PICK n \in 1 .. MaxText - st[s].queued : st' = [st EXCEPT ![s] = SendText(st[s], n)]
    BY <1>8 DEF UserSendText, Does
  <2> QED  BY <1>1, <2>1, SendTextSound, OneStationStep
<1> QED  BY <1>2, <1>3, <1>4, <1>5, <1>6, <1>7, <1>8

\* How often things outside the protocol may happen only becomes less.
LEMMA BudgetKept ==
    ASSUME BudgetOK, NEW s \in Stations, StationStep(s)
    PROVE  BudgetOK'
<1>1. UNCHANGED left => BudgetOK'
  BY DEF BudgetOK
<1>2. UNCHANGED left \/ \E e \in Outside : Spend(e)
  BY DEF StationStep, Receive, Lose, TxDone, LoopIdle, LoopRetry, LoopTimeout,
         UserConnect, UserDisconnect, UserAbort, UserBeacon, UserTalk, UserRestart,
         UserSendText, Outside
<1> QED  BY <1>1, <1>2, SpendKeepsBudget

LEMMA NextIInv == IInv /\ [Next]_vars => IInv'
<1> SUFFICES ASSUME IInv, [Next]_vars PROVE IInv'
  OBVIOUS
<1>1. CASE UNCHANGED vars
  BY <1>1 DEF IInv, BudgetOK, StationsOK, vars
<1>2. CASE Next
  <2>1. PICK s \in Stations : StationStep(s)
    BY <1>2 DEF Next
  <2>2. BudgetOK'
    BY <2>1, BudgetKept DEF IInv
  <2>3. StationsOK'
    <3>1. StationsOK
      BY DEF IInv
    <3>2. CASE Receive(s)
      BY <3>1, <3>2, ReceiveKeeps
    <3>3. CASE Lose(s)
      BY <3>1, <3>3, LoseKeeps
    <3>4. CASE TxDone(s)
      BY <3>1, <3>4, TxDoneKeeps
    <3>5. CASE LoopIdle(s) \/ LoopRetry(s) \/ LoopTimeout(s)
      BY <3>1, <3>5, LoopsKeep DEF LoopIdle, LoopRetry, LoopTimeout
    <3>6. CASE \/ UserConnect(s) \/ UserDisconnect(s) \/ UserAbort(s) \/ UserBeacon(s)
               \/ UserTalk(s) \/ UserRestart(s) \/ UserSendText(s)
      BY <3>1, <3>6, UserKeeps
    <3> QED  BY <2>1, <3>2, <3>3, <3>4, <3>5, <3>6 DEF StationStep
  <2> QED  BY <2>2, <2>3 DEF IInv
<1> QED  BY <1>1, <1>2

\* The inductive invariant.
THEOREM Invariance == Spec => []IInv
BY InitIInv, NextIInv, PTL DEF Spec

---------------------------------------------------------------------------
\* Every field of both stations keeps its type: block numbers stay in range,
\* only frames of the protocol are sent, the retries never run below zero.
THEOREM TypeCorrect == Spec => []TypeOK
<1>1. IInv => TypeOK
  BY DEF IInv, BudgetOK, StationsOK, TypeOK
<1> QED  BY <1>1, Invariance, PTL

\* However many reports are lost, stale or late, a station never has more
\* blocks to repeat than fit one burst.
THEOREM BurstAlwaysFits == Spec => []BurstFits
<1>1. IInv => BurstFits
  BY DEF IInv, StationsOK, Whole, Sound, BurstFits
<1> QED  BY <1>1, Invariance, PTL

\* However sessions come and go, a text given to sendText waits in one place,
\* in line.
THEOREM TextsStayInLine == Spec => []EachTextOnce
<1>1. IInv => EachTextOnce
  BY DEF IInv, StationsOK, Whole, Sound, EachTextOnce
<1> QED  BY <1>1, Invariance, PTL

\* Whatever arrives in whatever order, the report asks for the block that
\* delivery needs next.
THEOREM ReportAsksForNext == Spec => []AsksForNext
<1>1. IInv => AsksForNext
  BY DEF IInv, StationsOK, Whole, Sound, AsksForNext
<1> QED  BY <1>1, Invariance, PTL

---------------------------------------------------------------------------
(* Sessions that end by themselves.  As long as there is no disconnect and  *)
(* no abort at all, in a text or not (both clear the lists and leave        *)
(* Lastqueued), the queued blocks are numbered on from the last one sent.   *)

TearDownTypes == {"DISREQ", "DISACK", "ABORT", "ACKABORT"}

NoTearDown ==
    /\ {"disconnect", "abort"} \cap Unlimited = {}
    /\ Budget["disconnect"] = 0 /\ Budget["abort"] = 0

Untorn(q) == \A i \in 1 .. Len(q) : q[i].type \notin TearDownTypes

InStep(x) ==
    /\ x.LinkState \in {DOWN, TIMEDOUT, ARQ_CONNECTING, ARQ_CONNECTED, WAITING, WAITFORACK}
    /\ Untorn(x.air) /\ Untorn(x.TxTextQueue)
    /\ x.LinkState <= TIMEDOUT => x.TxBlocks = <<>> /\ x.TxMissing = {}
    /\ x.LinkState > TIMEDOUT => x.Lastqueued = (x.LastHeader + Len(x.TxBlocks)) % MaxCount
    /\ \A k \in 1 .. Len(x.TxBlocks) : x.TxBlocks[k].nbr = (x.LastHeader + k) % MaxCount

LEMMA UntornQueues ==
    ASSUME NEW q \in Seq(Frames), Untorn(q)
    PROVE  /\ \A f \in Frames : f.type \notin TearDownTypes => Untorn(Append(q, f))
           /\ \A r \in Seq(Frames) : Untorn(r) => Untorn(q \o r)
           /\ q # <<>> => Untorn(Tail(q)) /\ Head(q).type \notin TearDownTypes
<1>1. ASSUME NEW f \in Frames, f.type \notin TearDownTypes
      PROVE  Untorn(Append(q, f))
  BY <1>1 DEF Untorn
<1>2. ASSUME NEW r \in Seq(Frames), Untorn(r)
      PROVE  Untorn(q \o r)
  BY <1>2 DEF Untorn
<1>3. ASSUME q # <<>>
      PROVE  Untorn(Tail(q)) /\ Head(q).type \notin TearDownTypes
  BY <1>3 DEF Untorn
<1> QED  BY <1>1, <1>2, <1>3

LEMMA UntornDataFrames ==
    ASSUME NEW q \in Seq(Blocks)
    PROVE  Untorn(DataFrames(q))
BY DEF Untorn, DataFrames, TearDownTypes

LEMMA SendInStep ==
    ASSUME NEW x, Sound(x), InStep(x), NEW type \in Plain \ TearDownTypes
    PROVE  InStep(Send(x, type))
<1>1. [type |-> type] \in Frames
  BY DEF Frames
<1>2. Untorn(Append(x.TxTextQueue, [type |-> type]))
  BY <1>1, UntornQueues DEF InStep, Whole, Sound, Station
<1> QED  BY <1>2 DEF Send, AddToTxQue, InStep, Whole, Sound, Station

LEMMA ReportInStep ==
    ASSUME NEW x \in Station, InStep(x), NEW type \in {"STATUS", "POLL"}
    PROVE  InStep(Report(x, type))
<1> DEFINE f == [type |-> type, last |-> x.LastHeader, good |-> x.GoodHeader,
                 end |-> x.EndHeader, missing |-> x.MissingRxBlocks]
<1>1. f \in Frames /\ f.type \notin TearDownTypes
  BY DEF Frames, Reports, TearDownTypes, Station
<1> HIDE DEF f
<1>2. Untorn(Append(x.TxTextQueue, f))
  BY <1>1, UntornQueues DEF InStep, Station
<1>3. Report(x, type) = [x EXCEPT !.TxTextQueue = Append(@, f)]
  BY DEF Report, AddToTxQue, f
<1> QED  BY <1>2, <1>3 DEF InStep, Station

\* A reset starts the numbers over, whatever was in step before.
LEMMA ResetInStep ==
    ASSUME NEW x, Sound(x), InStep(x)
    PROVE  InStep(Reset(x))
<1>1. MaxCount - 1 = (MaxCount - 1 + 0) % MaxCount
  BY MaxCountAssumption, FoldNear
<1>2. Len(<<>>) = 0
  BY EmptySeq
<1> QED  BY <1>1, <1>2 DEF InStep, Reset, Untorn, Whole, Sound, Station

LEMMA TransmitDataInStep ==
    ASSUME NEW x, Whole(x), InStep(x)
    PROVE  InStep(TransmitData(x))
<1>1. Untorn(x.air \o x.TxTextQueue)
  BY UntornQueues DEF InStep, Whole, Station
<1>2. Untorn(<<>>)
  BY DEF Untorn
<1> QED  BY <1>1, <1>2 DEF TransmitData, InStep, Whole, Station

\* A frame that is no tear-down moves no number of the sender: a report only
\* crosses blocks off, a connect request starts over.
LEMMA ParseFrameInStep ==
    ASSUME NEW x, Sound(x), InStep(x), NEW f \in Frames, f.type \notin TearDownTypes
    PROVE  InStep(ParseFrame(x, f))
<1> DEFINE y == [x EXCEPT !.retries = Retries]
<1>1. Sound(y) /\ InStep(y)
  <2>1. Retries \in 0 .. Retries /\ Retries >= 1
    BY StationAssumption
  <2> QED  BY <2>1 DEF InStep, Whole, Sound, Station, TextsInLine, FitsBurst, AsksNext
<1> HIDE DEF y
<1>2. InStep(Report(y, "STATUS"))
  BY <1>1, ReportInStep DEF Whole, Sound
<1>3. Report(y, "STATUS") \in Station /\ Report(y, "STATUS").LinkState = y.LinkState
  BY <1>1, ReportSound DEF Reports, Report, AddToTxQue, Whole, Sound, Station
<1>4. InStep(ParseIDENT(y))
  BY <1>2, <1>3 DEF ParseIDENT, InStep, Station
<1>5. InStep(ParseCONACK(y))
  BY <1>1, <1>2, <1>3 DEF ParseCONACK, InStep, Station, DOWN, TIMEDOUT, ARQ_CONNECTING,
                    ARQ_CONNECTED, WAITING, WAITFORACK
<1>6. InStep(ParsePOLL(y))
  BY <1>1, <1>2, <1>3 DEF ParsePOLL, InStep, Station, DOWN, TIMEDOUT, ABORT, ARQ_CONNECTING,
                    ARQ_CONNECTED, WAITING, WAITFORACK, DISCONNECTING
<1>7. InStep(ParseCONREQ(y))
  <2> DEFINE z == [y EXCEPT !.UrCall = TRUE]
  <2>1. Sound(z) /\ InStep(z)
    BY <1>1 DEF InStep, Whole, Sound, Station, TextsInLine, FitsBurst, AsksNext
  <2>2. Sound(Reset(z)) /\ InStep(Reset(z))
    BY <2>1, ResetSound, ResetInStep
  <2>3. Sound(AckFrame(z)) /\ InStep(AckFrame(z))
    BY <2>2, SendSound, SendInStep DEF AckFrame, Plain, TearDownTypes
  <2>4. AckFrame(z).Lastqueued = MaxCount - 1 /\ AckFrame(z).LastHeader = MaxCount - 1
        /\ AckFrame(z).TxBlocks = <<>>
    BY <2>1 DEF AckFrame, Send, AddToTxQue, Reset, Whole, Sound, Station
  <2>5. MaxCount - 1 = (MaxCount - 1 + 0) % MaxCount /\ Len(<<>>) = 0
    BY MaxCountAssumption, FoldNear, EmptySeq
  <2> HIDE DEF z
  <2>6. InStep([AckFrame(z) EXCEPT !.LinkState = WAITFORACK, !.immediate = TRUE])
    BY <2>3, <2>4, <2>5 DEF InStep, Whole, Sound, Station, DOWN, TIMEDOUT, WAITFORACK
  <2> QED  BY <1>1, <2>6 DEF ParseCONREQ, z
<1>8. InStep(ParseUNPROTO(y))
  BY <1>1 DEF ParseUNPROTO, InStep, Whole, Sound, Station
<1>9. InStep(ParseSTATUS(y, f))
  <2> DEFINE z == EchoAcknowledged(TakeReport(y, f))
  <2>1. /\ z.LinkState = y.LinkState /\ z.air = y.air /\ z.TxTextQueue = y.TxTextQueue
        /\ z.TxBlocks = y.TxBlocks /\ z.Lastqueued = y.Lastqueued /\ z.LastHeader = y.LastHeader
        /\ y.LinkState < ARQ_CONNECTED => z.TxMissing = y.TxMissing
        /\ DOMAIN z = DOMAIN y
    BY <1>1 DEF EchoAcknowledged, TakeReport, Whole, Sound, Station
  <2>2. InStep([y EXCEPT !.UrGoodHeader = f.good, !.hung = TRUE])
    BY <1>1 DEF InStep, Whole, Sound, Station
  <2>3. DOMAIN y = DOMAIN NewStation
    BY <1>1 DEF Whole, Sound, Station, NewStation
  <2> HIDE DEF z
  <2>4. ASSUME NEW state \in {y.LinkState, ARQ_CONNECTED},
               state # y.LinkState => y.LinkState \in {WAITFORACK, WAITING}
        PROVE  InStep([z EXCEPT !.LinkState = state])
    BY <1>1, <2>1, <2>3, <2>4 DEF InStep, NewStation, DOWN, TIMEDOUT, ARQ_CONNECTED, WAITING,
                             WAITFORACK, ARQ_CONNECTING
  <2>5. \/ ParseSTATUS(y, f) = [y EXCEPT !.UrGoodHeader = f.good, !.hung = TRUE]
        \/ ParseSTATUS(y, f) = [z EXCEPT !.LinkState = y.LinkState]
        \/ /\ ParseSTATUS(y, f) = [z EXCEPT !.LinkState = ARQ_CONNECTED]
           /\ y.LinkState \in {WAITFORACK, WAITING}
    BY <1>1, <2>1 DEF ParseSTATUS, z, InStep, DOWN, TIMEDOUT, ARQ_CONNECTING, ARQ_CONNECTED,
                      WAITING, WAITFORACK, DISCONNECTING
  <2> QED  BY <2>2, <2>4, <2>5
<1>10. InStep(ParseDATA(y, f.block))
  BY <1>1 DEF ParseDATA, InStep, Whole, Sound, Station
<1>11. InStep(x)
  OBVIOUS
<1> QED  BY <1>1, <1>4, <1>5, <1>6, <1>7, <1>8, <1>9, <1>10, <1>11
         DEF ParseFrame, y, TearDownTypes

\* sendblocks takes the first blocks of the queue, and LastHeader with them.
LEMMA SendBlocksInStep ==
    ASSUME NEW x, Sound(x), InStep(x), x.LinkState > TIMEDOUT
    PROVE  InStep(SendBlocks(x))
<1> DEFINE L    == Len(x.TxBlocks)
           n    == NewBlocks(x.TxBlocks, Cardinality(x.TxMissing), MaxHeaders, x.UrGoodHeader)
           new  == SubSeq(x.TxBlocks, 1, n)
           rest == SubSeq(x.TxBlocks, n + 1, L)
           data == DataFrames(InSendOrder(x.TxMissing)) \o DataFrames(new)
           last == IF n = 0 THEN x.LastHeader ELSE new[n].nbr
<1>1. /\ x.TxBlocks \in Seq(Blocks) /\ L \in Nat /\ x.TxMissing \in SUBSET Blocks
      /\ x.TxTextQueue \in Seq(Frames) /\ x.LastHeader \in Nbr /\ x.LastHeader \in Int
      /\ MaxCount \in Nat
  BY LenProperties, MaxCountAssumption DEF Whole, Sound, Station, Nbr
<1>2. n \in 0 .. L
  <2>1. Cardinality(x.TxMissing) \in Nat
    BY <1>1, BlocksFinite
  <2> QED  BY <1>1, <2>1, NewBlocksBound, StationAssumption
<1> HIDE DEF n
<1>3. new \in Seq(Blocks) /\ Len(new) = n /\ \A k \in 1 .. n : new[k] = x.TxBlocks[k]
  BY <1>1, <1>2, SubSeqProperties
<1>4. rest \in Seq(Blocks) /\ Len(rest) = L - n /\ \A k \in 1 .. L - n : rest[k] = x.TxBlocks[n + k]
  BY <1>1, <1>2, SubSeqProperties
<1>5. last = (x.LastHeader + n) % MaxCount
  <2>1. CASE n = 0
    BY <1>1, <2>1, FoldNear DEF Nbr
  <2>2. CASE n # 0
    BY <1>1, <1>2, <1>3, <2>2 DEF InStep
  <2> QED  BY <2>1, <2>2
<1>6. x.Lastqueued = (last + (L - n)) % MaxCount
  <2>1. x.Lastqueued = (x.LastHeader + L) % MaxCount
    BY DEF InStep
  <2>2. (last + (L - n)) % MaxCount = (x.LastHeader + n + (L - n)) % MaxCount
    <3> HIDE DEF last, L
    <3>1. x.LastHeader + n \in Int /\ L - n \in Int
      BY <1>1, <1>2
    <3> QED  BY <1>5, <3>1, FoldTwice
  <2>3. x.LastHeader + n + (L - n) = x.LastHeader + L
    BY <1>1, <1>2
  <2> QED  BY <2>1, <2>2, <2>3
<1>7. \A k \in 1 .. L - n : rest[k].nbr = (last + k) % MaxCount
  <2> TAKE k \in 1 .. L - n
  <2>1. rest[k].nbr = (x.LastHeader + (n + k)) % MaxCount
    BY <1>1, <1>2, <1>4 DEF InStep
  <2>2. (last + k) % MaxCount = (x.LastHeader + n + k) % MaxCount
    <3> HIDE DEF last, L
    <3>1. x.LastHeader + n \in Int /\ k \in Int
      BY <1>1, <1>2
    <3> QED  BY <1>5, <3>1, FoldTwice
  <2>3. x.LastHeader + n + k = x.LastHeader + (n + k)
    BY <1>1, <1>2
  <2> QED  BY <2>1, <2>2, <2>3
<1>8. Untorn(x.TxTextQueue \o data) /\ x.TxTextQueue \o data \in Seq(Frames)
  <2>1. InSendOrder(x.TxMissing) \in Seq(x.TxMissing)
    BY <1>1, SendOrderExists DEF Whole, Sound, TextsInLine
  <2>2. InSendOrder(x.TxMissing) \in Seq(Blocks)
    BY <1>1, <2>1, SeqMonotonic
  <2> HIDE DEF new
  <2>3. /\ Untorn(DataFrames(InSendOrder(x.TxMissing))) /\ Untorn(DataFrames(new))
        /\ DataFrames(InSendOrder(x.TxMissing)) \in Seq(Frames)
        /\ DataFrames(new) \in Seq(Frames)
    BY <1>3, <2>2, UntornDataFrames, DataFramesType
  <2>4. Untorn(data) /\ data \in Seq(Frames)
    BY <2>3, UntornQueues, ConcatProperties
  <2> HIDE DEF data
  <2> QED  BY <1>1, <2>4, UntornQueues, ConcatProperties DEF InStep
<1> DEFINE y == [x EXCEPT !.TxMissing = @ \cup {new[k] : k \in 1 .. n},
                          !.TxPending = @ \o new, !.TxBlocks = rest, !.LastHeader = last,
                          !.TxTextQueue = @ \o data, !.LinkState = WAITING]
<1>9. InStep(y)
  <2> HIDE DEF L, new, rest, data, last
  <2>1. /\ y.LinkState = WAITING /\ y.TxBlocks = rest /\ y.LastHeader = last
        /\ y.Lastqueued = x.Lastqueued /\ y.air = x.air /\ y.TxTextQueue = x.TxTextQueue \o data
    BY DEF Whole, Sound, Station
  <2> HIDE DEF y
  <2> QED  BY <1>4, <1>6, <1>7, <1>8, <2>1 DEF InStep, WAITING, DOWN, TIMEDOUT
<1>10. y \in Station
  <2>1. last \in Nbr
    BY <1>1, <1>2, <1>5, FoldType
  <2>2. {new[k] : k \in 1 .. n} \in SUBSET Blocks
    BY <1>3
  <2>3. x.TxPending \o new \in Seq(Blocks)
    <3> HIDE DEF new
    <3> QED  BY <1>3, ConcatProperties DEF Whole, Sound, Station
  <2>4. WAITING \in LinkStates
    BY DEF WAITING, LinkStates, DOWN, ABORTING
  <2> HIDE DEF L, new, rest, data, last
  <2> QED  BY <1>1, <1>4, <1>8, <2>1, <2>2, <2>3, <2>4 DEF Whole, Sound, Station
<1>11. SendBlocks(x) = Report(y, "POLL")
  BY DEF SendBlocks, Dropping, n
<1> HIDE DEF y
<1> QED  BY <1>9, <1>10, <1>11, ReportInStep

\* Giving up clears the queue on the way down.
LEMMA GiveUpInStep ==
    ASSUME NEW x, Whole(x), InStep(x)
    PROVE  /\ InStep(GiveUp(x))
           /\ \A state \in {DOWN, TIMEDOUT} : InStep([GiveUp(x) EXCEPT !.LinkState = state])
<1>1. Len(<<>>) = 0
  BY EmptySeq
<1> QED  BY <1>1 DEF GiveUp, ClearTx, InStep, Untorn, Whole, Station, DOWN, TIMEDOUT

LEMMA RepeatInStep ==
    ASSUME NEW x, Sound(x), InStep(x), NEW again, Sound(again), InStep(again)
    PROVE  InStep(Repeat(x, again))
<1>1. InStep([x EXCEPT !.retries = 0])
  BY DEF InStep, Whole, Sound, Station
<1>2. x.retries > 1 => Whole([again EXCEPT !.retries = x.retries - 1])
  <2>1. x.retries - 1 \in 0 .. Retries
    BY StationAssumption DEF Whole, Sound, Station
  <2> QED  BY <2>1 DEF Whole, Sound, Station, TextsInLine, FitsBurst, AsksNext
<1>3. InStep([again EXCEPT !.retries = x.retries - 1])
  BY DEF InStep, Whole, Sound, Station
<1>4. x.retries \in Int
  BY DEF Whole, Sound, Station
<1> QED  BY <1>1, <1>2, <1>3, <1>4, TransmitDataInStep DEF Repeat

LEMMA SwitchInStep ==
    ASSUME NEW x, Sound(x), InStep(x), NEW due \in BOOLEAN
    PROVE  InStep(Switch(x, due))
<1>1. InStep(Repeat(x, Report([x EXCEPT !.TxTextQueue = <<>>], "POLL")))
  <2> DEFINE z == [x EXCEPT !.TxTextQueue = <<>>]
  <2>1. Sound(z) /\ InStep(z)
    <3>1. Sound(z)
      BY EmptySeq DEF Whole, Sound, Station, TextsInLine, FitsBurst, AsksNext
    <3>2. InStep(z)
      BY EmptySeq DEF InStep, Untorn, Whole, Sound, Station
    <3> QED  BY <3>1, <3>2
  <2> HIDE DEF z
  <2>2. Sound(Report(z, "POLL")) /\ InStep(Report(z, "POLL"))
    BY <2>1, ReportSound, ReportInStep DEF Reports, Whole, Sound
  <2> QED  BY <2>2, RepeatInStep DEF z
<1>2. InStep(Repeat(x, AckFrame(x)))
  <2>1. Sound(Reset(x)) /\ InStep(Reset(x))
    BY ResetSound, ResetInStep
  <2>2. Sound(AckFrame(x)) /\ InStep(AckFrame(x))
    BY <2>1, SendSound, SendInStep DEF AckFrame, Plain, TearDownTypes
  <2> QED  BY <2>2, RepeatInStep
<1>3. x.LinkState > TIMEDOUT => InStep(TransmitData(SendBlocks(x)))
  BY SendBlocksSound, SendBlocksInStep, TransmitDataInStep DEF Sound
<1>4. x.LinkState <= TIMEDOUT => x.TxBlocks = <<>> /\ x.TxMissing = {}
  BY DEF InStep
<1>5. InStep(TransmitData(x))
  BY TransmitDataInStep DEF Sound
<1>6. x.LinkState \notin {DISCONNECT, ABORT, DISCONNECTING, ABORTING} /\ x.LinkState \in Int
  BY DEF InStep, DOWN, TIMEDOUT, ABORT, ARQ_CONNECTING, ARQ_CONNECTED, WAITING, WAITFORACK,
         DISCONNECT, DISCONNECTING, ABORTING
<1> QED  BY <1>1, <1>2, <1>3, <1>4, <1>5, <1>6 DEF Switch, TIMEDOUT

LEMMA ExpireInStep ==
    ASSUME NEW x, Whole(x), InStep(x), NEW timedOut \in BOOLEAN
    PROVE  InStep(Expire(x, timedOut))
<1>1. ASSUME x.retries > 1
      PROVE  InStep(TransmitData(Send([x EXCEPT !.TxTextQueue = <<>>, !.retries = @ - 1], "IDENT")))
  <2> DEFINE z == [x EXCEPT !.TxTextQueue = <<>>, !.retries = @ - 1]
  <2>1. x.retries - 1 \in 0 .. Retries /\ x.retries - 1 >= 1
    BY <1>1, StationAssumption DEF Whole, Station
  <2>2. Sound(z) /\ InStep(z)
    <3>1. Sound(z)
      BY <2>1, EmptySeq DEF Whole, Sound, Station, TextsInLine, FitsBurst, AsksNext
    <3>2. InStep(z)
      BY EmptySeq DEF InStep, Untorn, Whole, Station
    <3> QED  BY <3>1, <3>2
  <2> HIDE DEF z
  <2>3. Sound(Send(z, "IDENT")) /\ InStep(Send(z, "IDENT"))
    BY <2>2, SendSound, SendInStep DEF Plain, TearDownTypes
  <2> QED  BY <2>3, TransmitDataInStep DEF z, Sound
<1> QED  BY <1>1, GiveUpInStep DEF Expire

LEMMA ArqLoopInStep ==
    ASSUME NEW x, Sound(x), InStep(x), NEW event
    PROVE  InStep(ArqLoop(x, event))
<1>1. Whole(Switch(x, event = "retry")) /\ InStep(Switch(x, event = "retry"))
  BY SwitchWhole, SwitchInStep
<1>2. InStep(Expire(Switch(x, event = "retry"), event = "timeout"))
  BY <1>1, ExpireInStep
<1>3. InStep([TransmitData(x) EXCEPT !.retries = Retries, !.immediate = FALSE])
  <2>1. Whole(TransmitData(x)) /\ InStep(TransmitData(x))
    BY TransmitDataWhole, TransmitDataInStep DEF Sound
  <2> QED  BY <2>1 DEF InStep, Whole, Station
<1>4. InStep(Turn(x, event))
  BY <1>2, <1>3 DEF Turn
<1>5. Sound(Turn(x, event))
  BY TurnSound
<1>6. Sound(GiveUp(Turn(x, event))) /\ InStep(GiveUp(Turn(x, event)))
  BY <1>4, <1>5, GiveUpSound, GiveUpInStep DEF Sound
<1>7. InStep([GiveUp(Turn(x, event)) EXCEPT !.arqstop = FALSE])
  BY <1>6 DEF InStep, Whole, Sound, Station
<1> QED  BY <1>4, <1>7 DEF ArqLoop

\* sendText numbers on from Lastqueued.
LEMMA SendTextInStep ==
    ASSUME NEW x, Sound(x), InStep(x), NEW n \in 1 .. MaxText - x.queued
    PROVE  InStep(SendText(x, n))
<1> DEFINE L     == Len(x.TxBlocks)
           new   == [k \in 1 .. n |-> [nbr |-> (x.Lastqueued + k) % MaxCount,
                                       text |-> x.queued + k]]
           queue == x.TxBlocks \o new
           y     == [x EXCEPT !.Lastqueued = (@ + n) % MaxCount,
                              !.TxBlocks = queue, !.queued = @ + n]
<1>1. /\ x.TxBlocks \in Seq(Blocks) /\ L \in Nat /\ x.LastHeader \in Int /\ n \in Nat
  BY LenProperties, StationAssumption, MaxCountAssumption DEF Whole, Sound, Station, Nbr
<1> SUFFICES ASSUME x.LinkState >= ARQ_CONNECTED PROVE InStep(y)
  BY DEF SendText, Whole, Sound, Station, LinkStates, DOWN, ABORTING, ARQ_CONNECTED
<1>2. x.LinkState > TIMEDOUT /\ x.Lastqueued = (x.LastHeader + L) % MaxCount
  BY DEF InStep, TIMEDOUT, DOWN, ARQ_CONNECTING, ARQ_CONNECTED, WAITING, WAITFORACK
<1>3. \A k \in 0 .. n : (x.Lastqueued + k) % MaxCount = (x.LastHeader + (L + k)) % MaxCount
  <2> TAKE k \in 0 .. n
  <2> HIDE DEF L
  <2>1. (((x.LastHeader + L) % MaxCount) + k) % MaxCount = (x.LastHeader + L + k) % MaxCount
    <3>1. x.LastHeader + L \in Int /\ k \in Int
      BY <1>1
    <3> QED  BY <3>1, FoldTwice
  <2>2. x.LastHeader + L + k = x.LastHeader + (L + k)
    BY <1>1
  <2> QED  BY <1>2, <2>1, <2>2
<1>4. /\ Len(queue) = L + n
      /\ \A k \in 1 .. L : queue[k] = x.TxBlocks[k]
      /\ \A k \in L + 1 .. L + n : queue[k].nbr = (x.Lastqueued + (k - L)) % MaxCount
  BY <1>1
<1>5. \A k \in 1 .. L + n : queue[k].nbr = (x.LastHeader + k) % MaxCount
  <2> HIDE DEF queue, L
  <2> TAKE k \in 1 .. L + n
  <2>1. CASE k \in 1 .. L
    BY <1>4, <2>1 DEF InStep, L
  <2>2. CASE k \in L + 1 .. L + n
    <3>1. k - L \in 0 .. n /\ L + (k - L) = k
      BY <1>1, <2>2
    <3> QED  BY <1>3, <1>4, <2>2, <3>1
  <2> QED  BY <1>1, <2>1, <2>2
<1>6. (x.Lastqueued + n) % MaxCount = (x.LastHeader + (L + n)) % MaxCount
  BY <1>1, <1>3
<1> HIDE DEF queue, new, L
<1>7. /\ y.LinkState = x.LinkState /\ y.air = x.air /\ y.TxTextQueue = x.TxTextQueue
      /\ y.TxBlocks = queue /\ y.LastHeader = x.LastHeader /\ y.TxMissing = x.TxMissing
      /\ y.Lastqueued = (x.Lastqueued + n) % MaxCount
  BY DEF Whole, Sound, Station
<1> HIDE DEF y
<1>8. ~(x.LinkState <= TIMEDOUT)
  BY <1>2 DEF TIMEDOUT, Whole, Sound, Station, LinkStates, DOWN, ABORTING
<1> QED  BY <1>4, <1>5, <1>6, <1>7, <1>8 DEF InStep

\* A station that is down has nothing to send, so no step of its own makes it
\* wait for a report.
LEMMA DownStartsNoBurstHere ==
    ASSUME NEW x, Sound(x), InStep(x), x.LinkState \in {DOWN, TIMEDOUT}
    PROVE  /\ \A f \in Frames : f.type \notin TearDownTypes => ParseFrame(x, f).LinkState # WAITING
           /\ \A event : ArqLoop(x, event).LinkState # WAITING
<1>1. ASSUME NEW f \in Frames, f.type \notin TearDownTypes
      PROVE  ParseFrame(x, f).LinkState # WAITING
  <2> DEFINE y == [x EXCEPT !.retries = Retries]
  <2>1. DOMAIN y = DOMAIN NewStation /\ y.LinkState \in {DOWN, TIMEDOUT}
    BY DEF Whole, Sound, Station, NewStation
  <2> HIDE DEF y
  <2>2. /\ ParseIDENT(y).LinkState # WAITING /\ ParseCONREQ(y).LinkState # WAITING
        /\ ParseCONACK(y).LinkState # WAITING /\ ParseUNPROTO(y).LinkState # WAITING
        /\ ParsePOLL(y).LinkState # WAITING /\ ParseDATA(y, f.block).LinkState # WAITING
    BY <2>1 DEF NewStation, ParseIDENT, ParseCONREQ, ParseCONACK, ParseUNPROTO, ParsePOLL,
       ParseDATA, AckFrame, Report, Send, AddToTxQue, Reset, DOWN, TIMEDOUT, WAITING,
       WAITFORACK, ARQ_CONNECTING, ARQ_CONNECTED, DISCONNECTING, ABORT
  <2>3. ParseSTATUS(y, f).LinkState # WAITING
    BY <2>1 DEF NewStation, ParseSTATUS, EchoAcknowledged, TakeReport, DOWN, TIMEDOUT, WAITING,
       WAITFORACK, ARQ_CONNECTED, DISCONNECTING
  <2>4. x.LinkState # WAITING /\ y.LinkState # WAITING
    BY <2>1 DEF DOWN, TIMEDOUT, WAITING
  <2> QED  BY <1>1, <2>2, <2>3, <2>4 DEF ParseFrame, y, TearDownTypes
<1>2. ASSUME NEW event
      PROVE  ArqLoop(x, event).LinkState # WAITING
  <2>1. x.TxBlocks = <<>> /\ x.TxMissing = {} /\ x.LinkState \in {DOWN, TIMEDOUT}
    BY DEF InStep, DOWN, TIMEDOUT
  <2>2. \A due \in BOOLEAN : Switch(x, due) = TransmitData(x)
    BY <2>1 DEF Switch, DOWN, TIMEDOUT, DISCONNECT, ABORT, DISCONNECTING, ABORTING, WAITING,
                WAITFORACK, ARQ_CONNECTED
  <2> DEFINE z == TransmitData(x)
  <2>3. Whole(z)
    BY TransmitDataWhole DEF Sound
  <2>4. z.LinkState = x.LinkState
    BY DEF TransmitData, Whole, Sound, Station
  <2>5. \A timedOut \in BOOLEAN : Expire(z, timedOut).LinkState # WAITING
    <3> HIDE DEF z
    <3> QED  BY <2>1, <2>3, <2>4 DEF Expire, GiveUp, ClearTx, TransmitData, Send, AddToTxQue,
                                     Whole, Station, DOWN, TIMEDOUT, WAITING, ARQ_CONNECTED
  <2>6. [z EXCEPT !.retries = Retries, !.immediate = FALSE].LinkState = x.LinkState
    <3> HIDE DEF z
    <3> QED  BY <2>3, <2>4 DEF Whole, Station
  <2>7. Switch(x, event = "retry") = z
    BY <2>2
  <2>8. Expire(z, event = "timeout").LinkState # WAITING
    BY <2>5
  <2>9. Turn(x, event).LinkState # WAITING
    <3> HIDE DEF z
    <3> QED  BY <2>1, <2>6, <2>7, <2>8 DEF Turn, DOWN, TIMEDOUT, WAITING, z
  <2>10. Sound(Turn(x, event))
    BY TurnSound
  <2> QED  BY <2>9, <2>10 DEF ArqLoop, GiveUp, ClearTx, Whole, Sound, Station, DOWN, WAITING
<1> QED  BY <1>1, <1>2

---------------------------------------------------------------------------
(* Both stations and the channel *)

Spent == left["disconnect"] = 0 /\ left["abort"] = 0

SessionInv == IInv /\ Spent /\ \A s \in Stations : InStep(st[s])

LEMMA InitSession ==
    ASSUME NoTearDown, Init
    PROVE  SessionInv
<1>1. IInv
  BY InitIInv
<1>2. Spent
  BY DEF NoTearDown, Init, Spent
<1>3. InStep(NewStation)
  <2>1. MaxCount - 1 = (MaxCount - 1 + 0) % MaxCount /\ Len(<<>>) = 0
    BY MaxCountAssumption, FoldNear, EmptySeq
  <2> QED  BY <2>1 DEF InStep, Untorn, NewStation
<1> QED  BY <1>1, <1>2, <1>3 DEF SessionInv, Init

\* What is left of a budget of 0 stays 0.
LEMMA SpentKept ==
    ASSUME NoTearDown, IInv, Spent, NEW s \in Stations, StationStep(s)
    PROVE  Spent' /\ ~UserDisconnect(s) /\ ~UserAbort(s)
<1>1. left \in [Outside -> Nat]
  BY DEF IInv, BudgetOK
<1>2. ASSUME NEW e \in Outside, Spend(e)
      PROVE  Spent' /\ e \notin {"disconnect", "abort"}
  BY <1>1, <1>2 DEF NoTearDown, Spent, Spend, Outside
<1>3. ~UserDisconnect(s) /\ ~UserAbort(s)
  BY <1>2 DEF UserDisconnect, UserAbort, Outside
<1>4. UNCHANGED left \/ \E e \in Outside : Spend(e)
  BY DEF StationStep, Receive, Lose, TxDone, LoopIdle, LoopRetry, LoopTimeout,
         UserConnect, UserDisconnect, UserAbort, UserBeacon, UserTalk, UserRestart,
         UserSendText, Outside
<1>5. UNCHANGED left => Spent'
  BY DEF Spent
<1> QED  BY <1>2, <1>3, <1>4, <1>5

\* What a step leaves of a station, and that a station that is down does not
\* begin to wait in it.
Orderly(x, y) == InStep(y) /\ (x.LinkState \in {DOWN, TIMEDOUT} => y.LinkState # WAITING)

LEMMA SameStateOrderly ==
    ASSUME NEW x, NEW y, InStep(y), y.LinkState = x.LinkState
    PROVE  Orderly(x, y)
BY DEF Orderly, DOWN, TIMEDOUT, WAITING

LEMMA UserOrderly ==
    ASSUME IInv, NEW s \in Stations, InStep(st[s]),
           UserConnect(s) \/ UserBeacon(s) \/ UserTalk(s) \/ UserRestart(s) \/ UserSendText(s)
    PROVE  \E y : Orderly(st[s], y) /\ st' = [st EXCEPT ![s] = y]
<1> DEFINE x == st[s]
<1>1. Sound(x) /\ InStep(x)
  BY DEF IInv, StationsOK
<1>2. CASE UserConnect(s)
  <2> DEFINE z == [x EXCEPT !.UrCall = TRUE, !.TxTextQueue = <<>>]
  <2>1. Sound(z)
    BY <1>1, EmptySeq DEF Whole, Sound, Station, TextsInLine, FitsBurst, AsksNext
  <2>2. InStep(z)
    BY <1>1, EmptySeq DEF InStep, Untorn, Whole, Sound, Station
  <2> HIDE DEF z
  <2>3. Sound(Reset(z)) /\ InStep(Reset(z))
    BY <2>1, <2>2, ResetSound, ResetInStep
  <2> DEFINE w == Send(Reset(z), "CONREQ")
  <2>4. Sound(w) /\ InStep(w)
    BY <2>3, SendSound, SendInStep DEF Plain, TearDownTypes
  <2>5. w.Lastqueued = MaxCount - 1 /\ w.LastHeader = MaxCount - 1 /\ w.TxBlocks = <<>>
    BY <2>1 DEF Send, AddToTxQue, Reset, Whole, Sound, Station
  <2>6. MaxCount - 1 = (MaxCount - 1 + 0) % MaxCount /\ Len(<<>>) = 0
    BY MaxCountAssumption, FoldNear, EmptySeq
  <2> HIDE DEF w
  <2>7. Orderly(x, [w EXCEPT !.LinkState = ARQ_CONNECTING, !.immediate = TRUE])
    BY <2>4, <2>5, <2>6 DEF Orderly, InStep, Whole, Sound, Station, DOWN, TIMEDOUT,
       ARQ_CONNECTING, WAITING
  <2>8. Connect(x) = [w EXCEPT !.LinkState = ARQ_CONNECTING, !.immediate = TRUE]
    BY DEF Connect, ConnectFrame, w, z
  <2> QED  BY <1>2, <2>7, <2>8 DEF UserConnect, Does
<1>3. CASE UserBeacon(s)
  <2> DEFINE z == [x EXCEPT !.TxTextQueue = <<>>]
  <2>1. Sound(z)
    BY <1>1, EmptySeq DEF Whole, Sound, Station, TextsInLine, FitsBurst, AsksNext
  <2>2. InStep(z) /\ z.LinkState \in {DOWN, TIMEDOUT}
    BY <1>1, <1>3, EmptySeq DEF UserBeacon, InStep, Untorn, Whole, Sound, Station
  <2> HIDE DEF z
  <2> DEFINE w == Send(z, "UNPROTO")
  <2>3. Sound(w) /\ InStep(w) /\ w.LinkState = z.LinkState
    <3>1. Sound(w) /\ InStep(w)
      BY <2>1, <2>2, SendSound, SendInStep DEF Plain, TearDownTypes
    <3>2. w.LinkState = z.LinkState
      BY <2>1 DEF Send, AddToTxQue, Whole, Sound, Station
    <3> QED  BY <3>1, <3>2
  <2> HIDE DEF w
  <2>4. Orderly(x, [w EXCEPT !.immediate = TRUE, !.LinkState = DOWN])
    BY <2>2, <2>3 DEF Orderly, InStep, Whole, Sound, Station, DOWN, TIMEDOUT, WAITING
  <2>5. Beacon(x) = [w EXCEPT !.immediate = TRUE, !.LinkState = DOWN]
    BY DEF Beacon, w, z
  <2> QED  BY <1>3, <2>4, <2>5 DEF UserBeacon, Does
<1>4. CASE UserTalk(s)
  <2>1. InStep(Send(x, "TALK")) /\ Send(x, "TALK").LinkState = x.LinkState
    BY <1>1, SendInStep DEF Plain, TearDownTypes, Send, AddToTxQue, Whole, Sound, Station
  <2> QED  BY <1>4, <2>1, SameStateOrderly DEF UserTalk, Does
<1>5. CASE UserRestart(s)
  <2> DEFINE z == [x EXCEPT !.arqstop = TRUE]
  <2>1. InStep(z) /\ z.LinkState = x.LinkState
    BY <1>1 DEF InStep, Whole, Sound, Station
  <2>2. st' = [st EXCEPT ![s] = z]
    BY <1>5 DEF UserRestart, Does
  <2> HIDE DEF z, x
  <2> QED  BY <2>1, <2>2, SameStateOrderly DEF x
<1>6. CASE UserSendText(s)
  <2>1. PICK n \in 1 .. MaxText - x.queued : st' = [st EXCEPT ![s] = SendText(x, n)]
    BY <1>6 DEF UserSendText, Does
  <2>2. InStep(SendText(x, n))
    BY <1>1, SendTextInStep
  <2>3. SendText(x, n).LinkState = x.LinkState
    BY <1>1 DEF SendText, Whole, Sound, Station
  <2> QED  BY <2>1, <2>2, <2>3, SameStateOrderly
<1> QED  BY <1>2, <1>3, <1>4, <1>5, <1>6

\* Whoever acts, both stations stay in step.
LEMMA NextSession ==
    ASSUME NoTearDown, SessionInv, [Next]_vars
    PROVE  SessionInv' /\ \A s \in Stations : Orderly(st[s], st'[s])
<1>1. CASE UNCHANGED vars
  BY <1>1, SameStateOrderly DEF SessionInv, IInv, BudgetOK, StationsOK, Spent, vars
<1>2. CASE Next
  <2>1. PICK s \in Stations : StationStep(s)
    BY <1>2 DEF Next
  <2>2. IInv' /\ Spent' /\ ~UserDisconnect(s) /\ ~UserAbort(s)
    BY <1>2, <2>1, NextIInv, SpentKept DEF SessionInv
  <2>3. /\ \A r \in Stations : Sound(st[r]) /\ InStep(st[r]) /\ Orderly(st[r], st[r])
        /\ st \in [Stations -> Station]
    BY SameStateOrderly DEF SessionInv, IInv, StationsOK
  <2>4. ASSUME NEW y, Orderly(st[s], y), st' = [st EXCEPT ![s] = y]
        PROVE  \A r \in Stations : Orderly(st[r], st'[r])
    BY <2>3, <2>4
  <2>5. \A r \in Stations : Orderly(st[r], st'[r])
    <3>1. CASE Receive(s)
      <4> DEFINE p == Peer(s)
                 f == Head(st[p].air)
                 sender == [st[p] EXCEPT !.air = Tail(@)]
      <4>1. p \in Stations /\ p # s
        BY DEF Stations, Peer
      <4>2. st[p].air \in Seq(Frames) /\ st[p].air # <<>> /\ Untorn(st[p].air)
        BY <2>3, <3>1, <4>1 DEF InStep, Station, Receive
      <4>3. f \in Frames /\ f.type \notin TearDownTypes
            /\ Tail(st[p].air) \in Seq(Frames) /\ Untorn(Tail(st[p].air))
        BY <4>2, UntornQueues, HeadTailProperties
      <4>4. Orderly(st[s], ParseFrame(st[s], f))
        <5> HIDE DEF f
        <5> QED  BY <2>3, <4>3, ParseFrameInStep, DownStartsNoBurstHere DEF Orderly
      <4>5. Orderly(st[p], sender)
        <5>1. InStep(sender) /\ sender.LinkState = st[p].LinkState
          BY <2>3, <4>1, <4>3 DEF InStep, Whole, Sound, Station
        <5> HIDE DEF sender
        <5> QED  BY <5>1, SameStateOrderly
      <4>6. st' = [st EXCEPT ![p] = sender, ![s] = ParseFrame(st[s], f)]
        BY <2>3, <3>1, <4>1 DEF Receive
      <4> HIDE DEF sender, f, p
      <4> QED  BY <2>3, <4>1, <4>4, <4>5, <4>6
    <3>2. CASE Lose(s)
      <4> DEFINE y == [st[s] EXCEPT !.air = Tail(@)]
      <4>1. Untorn(Tail(st[s].air))
        BY <2>3, <3>2, UntornQueues DEF Lose, InStep, Station
      <4>2. InStep(y) /\ y.LinkState = st[s].LinkState
        BY <2>3, <4>1 DEF InStep, Whole, Sound, Station
      <4>3. st' = [st EXCEPT ![s] = y]
        BY <3>2 DEF Lose
      <4> HIDE DEF y
      <4> QED  BY <2>4, <4>2, <4>3, SameStateOrderly
    <3>3. CASE TxDone(s)
      <4> DEFINE y == [st[s] EXCEPT !.Sending = FALSE]
      <4>1. InStep(y) /\ y.LinkState = st[s].LinkState
        BY <2>3 DEF InStep, Whole, Sound, Station
      <4>2. st' = [st EXCEPT ![s] = y]
        BY <3>3 DEF TxDone
      <4> HIDE DEF y
      <4> QED  BY <2>4, <4>1, <4>2, SameStateOrderly
    <3>4. CASE LoopIdle(s) \/ LoopRetry(s) \/ LoopTimeout(s)
      <4>1. PICK event \in {"idle", "retry", "timeout"} : Loops(s, event)
        BY <3>4 DEF LoopIdle, LoopRetry, LoopTimeout
      <4>2. Orderly(st[s], ArqLoop(st[s], event))
        BY <2>3, ArqLoopInStep, DownStartsNoBurstHere DEF Orderly
      <4> QED  BY <2>4, <4>1, <4>2 DEF Loops
    <3>5. CASE UserConnect(s) \/ UserBeacon(s) \/ UserTalk(s) \/ UserRestart(s) \/ UserSendText(s)
      BY <2>3, <2>4, <3>5, UserOrderly DEF SessionInv
    <3> QED  BY <2>1, <2>2, <3>1, <3>2, <3>3, <3>4, <3>5 DEF StationStep
  <2> QED  BY <2>2, <2>5 DEF SessionInv, Orderly
<1> QED  BY <1>1, <1>2

\* If nobody ever disconnects or aborts, sessions may come and go by connects,
\* timeouts, lost frames, beacons and restarts, texts may be queued in any state:
\* what is cleared on the way leaves the queued blocks numbered LastHeader + 1,
\* LastHeader + 2, ... (sendText, reset).
THEOREM NumbersAlwaysFollow == NoTearDown => (Spec => []NumbersFollow)
<1> SUFFICES ASSUME NoTearDown PROVE Spec => []NumbersFollow
  OBVIOUS
<1>1. Init => SessionInv
  BY InitSession
<1>2. SessionInv /\ [Next]_vars => SessionInv'
  BY NextSession
<1>3. SessionInv => NumbersFollow
  BY DEF SessionInv, InStep, NumbersFollow
<1> QED  BY <1>1, <1>2, <1>3, PTL DEF Spec

\* Under the same hypothesis the step of a station that is down or timed out does
\* not begin a burst of blocks (arqloop).  Of other frames it says nothing: such
\* a station answers an IDENT with a STATUS.
THEOREM DownNeverStartsBurst == NoTearDown => (Spec => DownStartsNoBurst)
<1> SUFFICES ASSUME NoTearDown PROVE Spec => DownStartsNoBurst
  OBVIOUS
<1>1. Init => SessionInv
  BY InitSession
<1>2. SessionInv /\ [Next]_vars
        => /\ SessionInv'
           /\ [\A s \in Stations :
                  st[s].LinkState \in {DOWN, TIMEDOUT} => st'[s].LinkState # WAITING]_vars
  BY NextSession DEF Orderly
<1> QED  BY <1>1, <1>2, PTL DEF Spec, DownStartsNoBurst
=============================================================================
