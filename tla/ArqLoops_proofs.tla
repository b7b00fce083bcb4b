--------------------------- MODULE ArqLoops_proofs ---------------------------
(***************************************************************************)
(* The loops of parseDATA, parseSTATUS and sendblocks compute what         *)
(* ArqBlocks says, for every MaxCount, every burst, every report and every *)
(* sequence of arriving blocks, and every loop ends but the endless walk.  *)
(***************************************************************************)
EXTENDS ArqBlocksLoops, ArqBlocks_proofs

---------------------------------------------------------------------------
(* The inductive invariant *)

\* The first hi numbers of a list are in the order of delivery.
InOrder(q, good, hi) ==
    \A j, k \in 1 .. hi : j < k => Offset(q[j], good) < Offset(q[k], good)

\* The first c numbers after good.
NextNbrs(good, c) == {(good + k) % MaxCount : k \in 1 .. c}

RxType ==
    /\ rx \in {"rest", "outer", "inner", "deliver", "gaps"}
    /\ RxPending \in Numbers /\ read \in Numbers
    /\ GoodHeader \in Nbr /\ EndHeader \in Nbr
    /\ MissingRxBlocks \in SUBSET Nbr
    /\ p1 \in Nat \ {0} /\ p2 \in Nat /\ n1 \in Int /\ gapAt \in Nat
    /\ found \in [nbrs : SUBSET Nbr, good : Nbr]

\* What the sort keeps: the list was in order before its last block came, that block is
\* new to it, and it belongs behind the places the outer loop has left.
Sorting ==
    LET q == RxPending
        n == Len(RxPending)
    IN  /\ found = [nbrs |-> InList(q), good |-> GoodHeader] /\ read = <<>>
        /\ p1 \in 1 .. n
        /\ InOrder(q, GoodHeader, n - 1)
        /\ \A j \in 1 .. n - 1 : q[j] # q[n]
        /\ \A j \in 1 .. p1 - 1 : Offset(q[j], GoodHeader) < Offset(q[n], GoodHeader)

\* n1 belongs to the block at p1 as long as the inner loop has not reached the last
\* block, the only one it may swap with.
SortingInner ==
    /\ Sorting
    /\ p1 < Len(RxPending) /\ p2 \in p1 + 1 .. Len(RxPending) + 1
    /\ p2 <= Len(RxPending) => n1 = Key(RxPending[p1])
    /\ p2 = Len(RxPending) + 1 =>
            Offset(RxPending[p1], GoodHeader) < Offset(RxPending[Len(RxPending)], GoodHeader)

\* Some blocks of the list found were delivered, the rest is in the order of the sort.
Delivering ==
    LET nbrs == found.nbrs
        good == found.good
        c    == Len(read)
    IN  /\ nbrs # {} /\ c < MaxCount
        /\ read = [k \in 1 .. c |-> (good + k) % MaxCount]
        /\ GoodHeader = (good + c) % MaxCount
        /\ EndHeader = LastPending(nbrs, good)
        /\ NextNbrs(good, c) \subseteq nbrs
        /\ InList(RxPending) = nbrs \ NextNbrs(good, c)
        /\ good \in nbrs => c = 0
        /\ InOrder(RxPending, good, Len(RxPending))

\* Everything that follows was delivered.
AllDelivered ==
    LET nbrs == found.nbrs
        good == found.good
    IN  /\ nbrs # {}
        /\ read = [k \in 1 .. Deliverable(nbrs, good) |-> (good + k) % MaxCount]
        /\ GoodHeader = NewGood(nbrs, good)
        /\ EndHeader = LastPending(nbrs, good)
        /\ InList(RxPending) = nbrs \ Delivered(nbrs, good)
        /\ InOrder(RxPending, GoodHeader, Len(RxPending))

\* The numbers looked at so far are those of the gaps up to gapAt.
FindingGaps ==
    LET start == (GoodHeader + 1) % MaxCount
    IN  /\ AllDelivered /\ RxPending # <<>>
        /\ gapAt \in start .. GapsStop
        /\ MissingRxBlocks = {k % MaxCount : k \in start .. gapAt - 1} \ InList(RxPending)

RxInv ==
    /\ RxType
    /\ PendingInOrder /\ ParseDataAsLooped
    /\ rx = "outer" => Sorting
    /\ rx = "inner" => SortingInner
    /\ rx = "deliver" => Delivering
    /\ rx = "gaps" => FindingGaps

TxType ==
    /\ tx \in {"rest", "walk", "keep", "echo", "repeat", "send", "done"}
    /\ TxMissing \in Numbers /\ TxPending \in Numbers /\ TxBlocks \in Numbers
    /\ LastHeader \in Nbr
    /\ missing \in SUBSET (0 .. MaxCount) /\ walkAt \in 1 .. MaxCount
    /\ pos \in Nat \ {0} /\ keep \in Numbers /\ frames \in Numbers
    /\ tx \in {"walk", "keep", "echo"} => asked \in Reports
    /\ tx \in {"repeat", "send"} => asked \in Queues

\* After K turns of the walk, K numbers were added to those reported.
Walking ==
    /\ TxMissing = asked.TxMissing /\ TxPending = asked.TxPending
    /\ LastHeader = asked.LastHeader /\ asked.UrEndHeader # LastHeader
    /\ pos = 1 /\ keep = <<>>
    /\ LastHeader # 0 =>
            \E K \in 0 .. Offset(LastHeader - 1, asked.UrEndHeader) :
                /\ missing = asked.reported \cup
                             {1 + ((asked.UrEndHeader + k) % MaxCount) : k \in 0 .. K - 1}
                /\ walkAt = 1 + ((asked.UrEndHeader + K) % MaxCount)

\* list holds, in their order, those of the first n blocks of from that are missing.
Kept(list, from, n) ==
    /\ InList(list) = {from[a] : a \in 1 .. n} \cap missing
    /\ \A j, k \in 1 .. Len(list) : j < k =>
            \E a, b \in 1 .. n : a < b /\ from[a] = list[j] /\ from[b] = list[k]

Considered ==
    /\ ~WalkNeverEnds(asked.LastHeader, asked.UrEndHeader)
    /\ missing = ConsideredMissing(asked.LastHeader, asked.UrEndHeader, asked.reported)

Keeping ==
    /\ Considered
    /\ TxMissing = asked.TxMissing /\ TxPending = asked.TxPending
    /\ pos \in 1 .. Len(TxMissing) + 1
    /\ Kept(keep, asked.TxMissing, pos - 1)

\* The first e blocks were echoed, and none of them is the one that ends the echo.
Echoing ==
    /\ Considered /\ Kept(TxMissing, asked.TxMissing, Len(asked.TxMissing))
    /\ \E e \in 0 .. Len(asked.TxPending) :
            /\ TxPending = From(asked.TxPending, e + 1)
            /\ \A j \in 1 .. e : asked.TxPending[j] # asked.UrGoodHeader

Repeating ==
    /\ TxMissing = asked.TxMissing /\ TxPending = asked.TxPending
    /\ TxBlocks = asked.TxBlocks /\ LastHeader = asked.LastHeader
    /\ pos \in 1 .. Len(TxMissing) + 1
    /\ frames = SubSeq(TxMissing, 1, pos - 1)

\* The first n blocks of the queue were sent.
Sent(n) ==
    LET new == SubSeq(asked.TxBlocks, 1, n)
    IN  /\ frames = asked.TxMissing \o new
        /\ TxMissing = asked.TxMissing \o new
        /\ TxPending = asked.TxPending \o new
        /\ TxBlocks = From(asked.TxBlocks, n + 1)
        /\ LastHeader = IF n = 0 THEN asked.LastHeader ELSE new[n]

Sending ==
    \E n \in 0 .. Len(asked.TxBlocks) :
        /\ Sent(n)
        /\ \A k \in 1 .. n : /\ Len(asked.TxMissing) + k <= MaxHeaders
                             /\ ~WindowFull(asked.TxBlocks[k], asked.UrGoodHeader)

TxInv ==
    /\ TxType
    /\ tx = "walk" => Walking
    /\ tx = "keep" => Keeping
    /\ tx = "echo" => Echoing
    /\ tx = "repeat" => Repeating
    /\ tx = "send" => Sending
    /\ tx = "done" /\ asked \in Queues =>
            Sent(NewBlocks(Blocks(asked.TxBlocks), Len(asked.TxMissing), MaxHeaders,
                           asked.UrGoodHeader))
    /\ tx = "done" => asked \in Reports \cup Queues
    /\ tx = "done" /\ asked \in Reports =>
            /\ Considered /\ Kept(TxMissing, asked.TxMissing, Len(asked.TxMissing))
            /\ TxPending = From(asked.TxPending,
                                Echoed(Blocks(asked.TxPending), asked.UrGoodHeader) + 1)

---------------------------------------------------------------------------
(* Lists of block numbers *)

\* The numbers a list holds are block numbers, and the list is made of them.
LEMMA ListType ==
    ASSUME NEW q \in Numbers
    PROVE  /\ Len(q) \in Nat /\ DOMAIN q = 1 .. Len(q)
           /\ \A k \in 1 .. Len(q) : q[k] \in Nbr
           /\ InList(q) \in SUBSET Nbr
           /\ q = <<>> <=> Len(q) = 0
           /\ q = <<>> <=> InList(q) = {}
<1>1. /\ Len(q) \in Nat /\ DOMAIN q = 1 .. Len(q)
      /\ \A k \in 1 .. Len(q) : q[k] \in Nbr
  BY LenProperties, ElementOfSeq DEF Numbers
<1>2. q = <<>> <=> Len(q) = 0
  BY EmptySeq DEF Numbers
<1>3. Len(q) = 0 <=> InList(q) = {}
  <2>1. Len(q) # 0 => q[1] \in InList(q)
    BY <1>1 DEF InList
  <2> QED  BY <1>1, <2>1 DEF InList
<1> QED  BY <1>1, <1>2, <1>3 DEF InList

\* A number goes to the end of a list.
LEMMA AppendList ==
    ASSUME NEW q \in Numbers, NEW n \in Nbr
    PROVE  /\ Append(q, n) \in Numbers /\ Len(Append(q, n)) = Len(q) + 1
           /\ \A k \in 1 .. Len(q) : Append(q, n)[k] = q[k]
           /\ Append(q, n)[Len(q) + 1] = n
           /\ InList(Append(q, n)) = InList(q) \cup {n}
<1>1. /\ Append(q, n) \in Numbers /\ Len(Append(q, n)) = Len(q) + 1
      /\ \A k \in 1 .. Len(q) : Append(q, n)[k] = q[k]
      /\ Append(q, n)[Len(q) + 1] = n
  BY AppendProperties DEF Numbers
<1>2. Len(q) \in Nat
  BY ListType
<1>3. 1 .. Len(q) + 1 = (1 .. Len(q)) \cup {Len(q) + 1}
  BY <1>2
<1> HIDE DEF Numbers
<1>4. InList(Append(q, n)) = {Append(q, n)[k] : k \in (1 .. Len(q)) \cup {Len(q) + 1}}
  BY <1>1, <1>3 DEF InList
<1>5. InList(q) = {Append(q, n)[k] : k \in 1 .. Len(q)}
  BY <1>1 DEF InList
<1> QED  BY <1>1, <1>4, <1>5

\* The front of a list is taken.
LEMMA TailList ==
    ASSUME NEW q \in Numbers, q # <<>>
    PROVE  /\ Head(q) \in Nbr /\ Head(q) = q[1]
           /\ Tail(q) \in Numbers /\ Len(Tail(q)) = Len(q) - 1
           /\ \A k \in 1 .. Len(q) - 1 : Tail(q)[k] = q[k + 1]
           /\ InList(q) = {Head(q)} \cup InList(Tail(q))
<1>1. /\ Head(q) \in Nbr /\ Tail(q) \in Numbers /\ Len(Tail(q)) = Len(q) - 1
      /\ \A k \in 1 .. Len(q) - 1 : Tail(q)[k] = q[k + 1]
  BY HeadTailProperties DEF Numbers
<1>2. Head(q) = q[1]
  BY DEF Numbers
<1>3. Len(q) \in Nat /\ Len(q) # 0
  BY ListType
<1>4. InList(q) \subseteq {Head(q)} \cup InList(Tail(q))
  <2> SUFFICES ASSUME NEW k \in 1 .. Len(q), k # 1
               PROVE  q[k] \in InList(Tail(q))
    BY <1>2 DEF InList
  <2>1. k - 1 \in 1 .. Len(q) - 1 /\ (k - 1) + 1 = k
    BY <1>3
  <2> QED  BY <1>1, <2>1 DEF InList
<1>5. {Head(q)} \cup InList(Tail(q)) \subseteq InList(q)
  <2>1. \A k \in 1 .. Len(q) - 1 : k + 1 \in 1 .. Len(q)
    BY <1>3
  <2> QED  BY <1>1, <1>2, <1>3, <2>1 DEF InList
<1> QED  BY <1>1, <1>2, <1>4, <1>5

\* Numbers in the order of delivery are all different.
LEMMA InOrderDiffer ==
    ASSUME NEW q, NEW good, NEW hi \in Nat, InOrder(q, good, hi),
           NEW j \in 1 .. hi, NEW k \in 1 .. hi, j # k,
           \A i \in 1 .. hi : Offset(q[i], good) \in Int
    PROVE  q[j] # q[k]
<1>1. j < k \/ k < j
  OBVIOUS
<1>2. Offset(q[j], good) # Offset(q[k], good)
  BY <1>1 DEF InOrder
<1> QED  BY <1>2

---------------------------------------------------------------------------
(* parseDATA: the sort *)

\* The sort compares what Offset compares.
LEMMA KeyOrder ==
    ASSUME GoodHeader \in Nbr, NEW a \in Nbr
    PROVE  Key(a) = GoodHeader + Offset(a, GoodHeader) /\ Key(a) \in Int
<1>1. CASE a >= GoodHeader
  BY <1>1, MaxCountAssumption, FoldNear DEF Nbr, Offset, Key
<1>2. CASE a < GoodHeader
  BY <1>2, MaxCountAssumption, FoldNear DEF Nbr, Offset, Key
<1> QED  BY <1>1, <1>2 DEF Nbr

\* A block that is not pending is appended to a list in order.
LEMMA BlockArrivesKeeps ==
    ASSUME RxInv, BlockArrives
    PROVE  RxInv'
<1> USE DEF RxInv, RxType
<1>1. PICK b \in Nbr \ InList(RxPending) :
            /\ RxPending' = Append(RxPending, b)
            /\ found' = [nbrs |-> InList(RxPending) \cup {b}, good |-> GoodHeader]
  BY DEF BlockArrives
<1>2. /\ RxPending' \in Numbers /\ Len(RxPending') = Len(RxPending) + 1
      /\ \A k \in 1 .. Len(RxPending) : RxPending'[k] = RxPending[k]
      /\ RxPending'[Len(RxPending) + 1] = b
      /\ InList(RxPending') = InList(RxPending) \cup {b}
  BY <1>1, AppendList
<1>3. Len(RxPending) \in Nat /\ InList(RxPending) \in SUBSET Nbr
  BY ListType
<1>4. /\ rx' = "outer" /\ p1' = 1 /\ read' = <<>> /\ GoodHeader' = GoodHeader
      /\ EndHeader' = EndHeader /\ MissingRxBlocks' = MissingRxBlocks
      /\ p2' = p2 /\ n1' = n1 /\ gapAt' = gapAt
  BY DEF BlockArrives
<1>5. RxType'
  BY <1>1, <1>2, <1>3, <1>4, EmptySeq DEF Numbers
<1>6. InOrder(RxPending, GoodHeader, Len(RxPending))
  BY DEF PendingInOrder, InOrder, BlockArrives
<1>7. InOrder(RxPending', GoodHeader', Len(RxPending') - 1)
  BY <1>2, <1>3, <1>4, <1>6 DEF InOrder
<1>8. \A j \in 1 .. Len(RxPending) : RxPending[j] # b
  BY <1>1 DEF InList
<1>9. Sorting'
  <2>1. \A j \in 1 .. Len(RxPending') - 1 : RxPending'[j] # RxPending'[Len(RxPending')]
    BY <1>2, <1>3, <1>8
  <2>2. 1 \in 1 .. Len(RxPending')
    BY <1>2, <1>3
  <2>3. \A j \in 1 .. p1' - 1 : FALSE
    BY <1>4
  <2>4. found' = [nbrs |-> InList(RxPending'), good |-> GoodHeader'] /\ read' = <<>>
    BY <1>1, <1>2, <1>4
  <2> QED  BY <1>4, <1>7, <2>1, <2>2, <2>3, <2>4 DEF Sorting
<1> QED  BY <1>4, <1>5, <1>9 DEF PendingInOrder, ParseDataAsLooped

LEMMA SortOuterKeeps ==
    ASSUME RxInv, SortOuter
    PROVE  RxInv'
<1> USE DEF RxInv, RxType
<1>1. Len(RxPending) \in Nat /\ \A k \in 1 .. Len(RxPending) : RxPending[k] \in Nbr
  BY ListType
<1>2. /\ rx' = "inner" /\ n1' = Key(RxPending[p1]) /\ p2' = p1 + 1
      /\ p1 < Len(RxPending) /\ rx = "outer"
      /\ RxPending' = RxPending /\ GoodHeader' = GoodHeader /\ EndHeader' = EndHeader
      /\ MissingRxBlocks' = MissingRxBlocks /\ read' = read /\ p1' = p1
      /\ gapAt' = gapAt /\ found' = found
  BY DEF SortOuter
<1>3. Key(RxPending[p1]) \in Int
  BY <1>1, <1>2, KeyOrder
<1>4. RxType'
  BY <1>2, <1>3
<1>5. Sorting'
  BY <1>2 DEF Sorting, InList, InOrder
<1>6. SortingInner'
  BY <1>1, <1>2, <1>5 DEF SortingInner, Key
<1> QED  BY <1>2, <1>4, <1>6 DEF PendingInOrder, ParseDataAsLooped

\* The block at p2 goes to p1 only when it is the last one.
LEMMA SortInnerKeeps ==
    ASSUME RxInv, SortInner
    PROVE  RxInv'
<1>t. /\ RxType /\ RxPending \in Numbers /\ GoodHeader \in Nbr /\ p1 \in Nat \ {0} /\ p2 \in Nat
      /\ rx = "inner" => SortingInner
  BY DEF RxInv, RxType
<1> DEFINE q == RxPending
           n == Len(RxPending)
           off(j) == Offset(q[j], GoodHeader)
<1>1. n \in Nat /\ DOMAIN q = 1 .. n /\ \A k \in 1 .. n : q[k] \in Nbr
  BY <1>t, ListType
<1>2. /\ rx = "inner" /\ rx' = rx /\ p2 <= n /\ p2' = p2 + 1
      /\ GoodHeader' = GoodHeader /\ EndHeader' = EndHeader
      /\ MissingRxBlocks' = MissingRxBlocks /\ read' = read /\ p1' = p1 /\ n1' = n1
      /\ gapAt' = gapAt /\ found' = found
  BY DEF SortInner
<1>3. /\ SortingInner /\ Sorting /\ p1 \in 1 .. n /\ p1 < n /\ p2 \in p1 + 1 .. n
      /\ n1 = Key(q[p1])
  BY <1>t, <1>1, <1>2 DEF SortingInner, Sorting
<1>p. n \in Nat /\ p1 \in 1 .. n /\ n \in 1 .. n /\ p1 # n /\ p1 < n
  <2>1. n \in Nat /\ p1 \in 1 .. n /\ p1 < n
    BY <1>1, <1>3
  <2> HIDE DEF n
  <2> QED  BY <2>1
<1>4. \A j \in 1 .. n : off(j) \in Int /\ Key(q[j]) = GoodHeader + off(j) /\ off(j) >= 0
  <2> TAKE j \in 1 .. n
  <2>1. q[j] \in Nbr
    BY <1>1
  <2>2. Offset(q[j], GoodHeader) \in 0 .. MaxCount - 1
    BY <1>t, <2>1, OffsetStep
  <2>3. Key(q[j]) = GoodHeader + Offset(q[j], GoodHeader)
    BY <1>t, <2>1, KeyOrder
  <2> QED  BY <2>2, <2>3, MaxCountAssumption
<1>5. GoodHeader \in Int
  BY <1>t DEF Nbr
<1>6. Key(q[p2]) < n1 <=> off(p2) < off(p1)
  BY <1>3, <1>4, <1>5, <1>1
<1>7. CASE p2 < n
  <2>1. off(p1) < off(p2)
    BY <1>1, <1>3, <1>7 DEF Sorting, InOrder
  <2>2. RxPending' = q
    BY <1>3, <1>1, <1>4, <1>6, <2>1 DEF SortInner
  <2>3. RxType'
    BY <1>t, <1>2, <2>2 DEF RxType
  <2>4. Sorting'
    BY <1>2, <1>3, <2>2 DEF Sorting, InList, InOrder
  <2>5. SortingInner'
    BY <1>1, <1>2, <1>3, <1>7, <2>2, <2>4 DEF SortingInner, Key
  <2> QED  BY <1>2, <2>3, <2>5 DEF RxInv, PendingInOrder, ParseDataAsLooped
<1>8. CASE p2 = n /\ ~(off(n) < off(p1))
  <2>1. RxPending' = q
    BY <1>6, <1>8 DEF SortInner
  <2>2. off(p1) < off(n)
    <3>1. q[p1] # q[n]
      BY <1>1, <1>3 DEF Sorting
    <3>2. off(p1) # off(n)
      <4>1. q[p1] \in Nbr /\ q[n] \in Nbr
        BY <1>1, <1>3
      <4>2. /\ (GoodHeader + off(p1)) % MaxCount = q[p1]
            /\ (GoodHeader + off(n)) % MaxCount = q[n]
        BY <1>t, <4>1, OffsetStep
      <4> QED  BY <3>1, <4>2
    <3> QED  BY <1>1, <1>3, <1>4, <1>8, <3>2
  <2>3. RxType'
    BY <1>t, <1>2, <2>1 DEF RxType
  <2>4. Sorting'
    BY <1>2, <1>3, <2>1 DEF Sorting, InList, InOrder
  <2>5. p2' = Len(RxPending') + 1 /\ p1' < Len(RxPending')
    BY <1>2, <1>3, <1>8, <2>1
  <2>6. Offset(RxPending'[p1'], GoodHeader') < Offset(RxPending'[Len(RxPending')], GoodHeader')
    BY <1>2, <2>1, <2>2
  <2>7. SortingInner'
    <3>1. p2' \in p1' + 1 .. Len(RxPending') + 1 /\ ~(p2' <= Len(RxPending'))
      BY <1>1, <1>2, <1>3, <1>8, <2>1
    <3> QED  BY <2>4, <2>5, <2>6, <3>1 DEF SortingInner
  <2> QED  BY <1>2, <2>3, <2>7 DEF RxInv, PendingInOrder, ParseDataAsLooped
<1>9. CASE p2 = n /\ off(n) < off(p1)
  <2>1. RxPending' = [q EXCEPT ![p1] = q[n], ![n] = q[p1]]
    BY <1>6, <1>9 DEF SortInner
  <2>2. /\ RxPending' \in Numbers /\ Len(RxPending') = n
        /\ RxPending'[p1] = q[n] /\ RxPending'[n] = q[p1]
        /\ \A j \in 1 .. n : j # p1 /\ j # n => RxPending'[j] = q[j]
    <3> DEFINE h == [q EXCEPT ![p1] = q[n]]
    <3>1. h \in Seq(Nbr) /\ Len(h) = n /\ \A j \in 1 .. n : h[j] = IF j = p1 THEN q[n] ELSE q[j]
      <4>1. q \in Seq(Nbr) /\ p1 \in 1 .. Len(q) /\ q[n] \in Nbr
        BY <1>t, <1>p, <1>1 DEF Numbers
      <4> HIDE DEF q
      <4> QED  BY <4>1, ExceptSeq DEF q
    <3>2. RxPending' = [h EXCEPT ![n] = q[p1]]
      BY <2>1
    <3> HIDE DEF h
    <3>3. n \in 1 .. Len(h) /\ q[p1] \in Nbr
      BY <1>1, <1>3, <3>1
    <3>4. /\ RxPending' \in Seq(Nbr) /\ Len(RxPending') = n
          /\ \A j \in 1 .. n : RxPending'[j] = IF j = n THEN q[p1] ELSE h[j]
      BY <3>1, <3>2, <3>3, ExceptSeq
    <3>5. p1 \in 1 .. n /\ n \in 1 .. n /\ p1 # n
      BY <1>p
    <3>6. RxPending'[p1] = q[n] /\ RxPending'[n] = q[p1]
      BY <3>1, <3>4, <3>5
    <3>7. \A j \in 1 .. n : j # p1 /\ j # n => RxPending'[j] = q[j]
      BY <3>1, <3>4
    <3> QED  BY <3>4, <3>6, <3>7 DEF Numbers
  <2>3. InList(RxPending') = InList(q)
    <3> DEFINE other(j) == IF j = p1 THEN n ELSE IF j = n THEN p1 ELSE j
    <3>1. \A j \in 1 .. n : /\ other(j) \in 1 .. n
                             /\ RxPending'[j] = q[other(j)] /\ q[j] = RxPending'[other(j)]
      <4>1. p1 \in 1 .. n /\ n \in 1 .. n /\ p1 # n
        BY <1>p
      <4> QED  BY <2>2, <4>1
    <3> HIDE DEF other
    <3>2. \A j \in 1 .. n : RxPending'[j] \in InList(q)
      BY <3>1 DEF InList
    <3>3. \A j \in 1 .. n : q[j] \in InList(RxPending')
      BY <2>2, <3>1 DEF InList
    <3> QED  BY <2>2, <3>2, <3>3 DEF InList
  <2> DEFINE offn(j) == Offset(RxPending'[j], GoodHeader)
  <2>4. /\ offn(p1) = off(n) /\ offn(n) = off(p1)
        /\ \A j \in 1 .. n : j # p1 /\ j # n => offn(j) = off(j)
    BY <2>2
  <2>5. /\ \A j, k \in 1 .. n - 1 : j < k => off(j) < off(k)
        /\ \A j \in 1 .. p1 - 1 : off(j) < off(n)
    BY <1>3 DEF Sorting, InOrder
  <2>a. p1 \in 1 .. n - 1 /\ n \in Nat /\ off(n) < off(p1) /\ \A j \in 1 .. n : off(j) \in Int
    BY <1>1, <1>3, <1>4, <1>9
  <2> HIDE DEF off, offn, q, n
  <2>6. \A j, k \in 1 .. n - 1 : j < k => offn(j) < offn(k)
    <3> SUFFICES ASSUME NEW j \in 1 .. n - 1, NEW k \in 1 .. n - 1, j < k
                 PROVE  offn(j) < offn(k)
      OBVIOUS
    <3>1. j \in 1 .. n /\ k \in 1 .. n /\ j # n /\ k # n /\ off(j) < off(k)
      BY <2>a, <2>5
    <3>2. CASE j = p1
      BY <2>a, <2>4, <3>1, <3>2
    <3>3. CASE k = p1
      <4>1. off(j) < off(n)
        BY <2>a, <2>5, <3>3
      <4> QED  BY <2>a, <2>4, <3>1, <3>3, <4>1
    <3>4. CASE j # p1 /\ k # p1
      BY <2>4, <3>1, <3>4
    <3> QED  BY <3>2, <3>3, <3>4
  <2>7. \A j \in 1 .. p1 : offn(j) < offn(n)
    <3> SUFFICES ASSUME NEW j \in 1 .. p1
                 PROVE  offn(j) < offn(n)
      OBVIOUS
    <3>1. CASE j = p1
      BY <2>a, <2>4, <3>1
    <3>2. CASE j # p1
      <4>1. j \in 1 .. p1 - 1 /\ j \in 1 .. n /\ j # n
        BY <2>a, <3>2
      <4>2. off(j) < off(n) /\ offn(j) = off(j)
        BY <2>4, <2>5, <3>2, <4>1
      <4> QED  BY <2>a, <2>4, <4>1, <4>2
    <3> QED  BY <3>1, <3>2
  <2>8. \A j \in 1 .. n - 1 : RxPending'[j] # RxPending'[n]
    <3> TAKE j \in 1 .. n - 1
    <3>1. j \in 1 .. n /\ j # n
      BY <2>a
    <3>2. offn(j) # offn(n)
      <4>1. CASE j \in 1 .. p1
        <5>1. offn(j) < offn(n) /\ offn(n) \in Int /\ offn(j) \in Int
          BY <2>a, <2>4, <2>7, <3>1, <4>1
        <5> QED  BY <5>1
      <4>2. CASE j > p1
        <5>1. off(p1) < off(j) /\ offn(j) = off(j)
          BY <2>a, <2>4, <2>5, <3>1, <4>2
        <5> QED  BY <2>a, <2>4, <3>1, <5>1
      <4> QED  BY <2>a, <4>1, <4>2
    <3> QED  BY <3>2 DEF offn
  <2>9. RxType'
    BY <1>t, <1>2, <2>2 DEF RxType
  <2>10. Sorting'
    <3>1. found' = [nbrs |-> InList(RxPending'), good |-> GoodHeader'] /\ read' = <<>>
      BY <1>2, <1>3, <2>3 DEF Sorting, q
    <3>2. p1' \in 1 .. Len(RxPending') /\ Len(RxPending') = n
      BY <1>2, <1>3, <2>2
    <3>3. InOrder(RxPending', GoodHeader', n - 1)
      BY <1>2, <2>6 DEF InOrder, offn
    <3>4. \A j \in 1 .. p1' - 1 : Offset(RxPending'[j], GoodHeader') < Offset(RxPending'[n], GoodHeader')
      BY <1>2, <2>a, <2>7 DEF offn
    <3> QED  BY <2>8, <3>1, <3>2, <3>3, <3>4 DEF Sorting
  <2>11. SortingInner'
    <3>1. p2' = n + 1 /\ Len(RxPending') = n /\ p1' = p1
      BY <1>2, <1>9, <2>2
    <3>2. /\ p1' < Len(RxPending') /\ p2' \in p1' + 1 .. Len(RxPending') + 1
          /\ ~(p2' <= Len(RxPending'))
      BY <2>a, <3>1
    <3>3. p1 \in 1 .. p1
      BY <2>a
    <3>4. Offset(RxPending'[p1'], GoodHeader') < Offset(RxPending'[Len(RxPending')], GoodHeader')
      BY <1>2, <2>7, <3>1, <3>3 DEF offn
    <3> QED  BY <2>10, <3>2, <3>4 DEF SortingInner
  <2> QED  BY <1>2, <2>9, <2>11 DEF RxInv, PendingInOrder, ParseDataAsLooped
<1>10. n \in Int /\ p2 \in Int /\ p2 <= n
  BY <1>t, <1>1, <1>2
<1> QED  BY <1>7, <1>8, <1>9, <1>10

LEMMA SortNextKeeps ==
    ASSUME RxInv, SortNext
    PROVE  RxInv'
<1> USE DEF RxInv, RxType
<1>1. /\ rx = "inner" /\ rx' = "outer" /\ p1' = p1 + 1 /\ p2 > Len(RxPending)
      /\ RxPending' = RxPending /\ GoodHeader' = GoodHeader /\ EndHeader' = EndHeader
      /\ MissingRxBlocks' = MissingRxBlocks /\ read' = read /\ p2' = p2 /\ n1' = n1
      /\ gapAt' = gapAt /\ found' = found
  BY DEF SortNext
<1>2. Len(RxPending) \in Nat
  BY ListType
<1>3. Sorting /\ SortingInner /\ p2 = Len(RxPending) + 1
  BY <1>1, <1>2 DEF SortingInner
<1>4. RxType'
  BY <1>1
<1>5. Sorting'
  <2>1. \A j \in 1 .. (p1 + 1) - 1 :
            Offset(RxPending[j], GoodHeader) < Offset(RxPending[Len(RxPending)], GoodHeader)
    BY <1>2, <1>3 DEF Sorting, SortingInner
  <2> QED  BY <1>1, <1>2, <1>3, <2>1 DEF Sorting, SortingInner, InList, InOrder
<1> QED  BY <1>1, <1>4, <1>5 DEF PendingInOrder, ParseDataAsLooped

---------------------------------------------------------------------------
(* parseDATA: delivery and gaps *)

\* The last of the sorted blocks is the one ArqBlocks chooses.
LEMMA LastPendingIs ==
    ASSUME NEW nbrs \in SUBSET Nbr, NEW good \in Nbr, NEW n \in nbrs,
           \A m \in nbrs : Offset(m, good) <= Offset(n, good)
    PROVE  LastPending(nbrs, good) = n
<1> DEFINE last == LastPending(nbrs, good)
<1>1. last \in nbrs /\ \A m \in nbrs : Offset(m, good) <= Offset(last, good)
  BY LastPendingIsLast
<1> HIDE DEF last
<1>2. Offset(n, good) <= Offset(last, good) /\ Offset(last, good) <= Offset(n, good)
  BY <1>1
<1>3. /\ Offset(n, good) \in Int /\ (good + Offset(n, good)) % MaxCount = n
      /\ Offset(last, good) \in Int /\ (good + Offset(last, good)) % MaxCount = last
  BY <1>1, OffsetStep
<1>4. Offset(n, good) = Offset(last, good)
  BY <1>2, <1>3
<1> QED  BY <1>3, <1>4 DEF last

\* The numbers after good, as the list of what was delivered.
LEMMA AfterGood ==
    ASSUME NEW good \in Nbr, NEW c \in Nat
    PROVE  LET q(d) == [k \in 1 .. d |-> (good + k) % MaxCount]
           IN  /\ q(c) \in Numbers /\ Len(q(c)) = c
               /\ Append(q(c), (good + c + 1) % MaxCount) = q(c + 1)
<1> DEFINE q(d) == [k \in 1 .. d |-> (good + k) % MaxCount]
<1>1. ASSUME NEW d \in Nat
      PROVE  q(d) \in Numbers /\ Len(q(d)) = d
  <2>1. \A k \in 1 .. d : (good + k) % MaxCount \in Nbr
    <3> TAKE k \in 1 .. d
    <3>1. good + k \in Int
      BY DEF Nbr
    <3> QED  BY <3>1, FoldType
  <2>2. q(d) \in [1 .. d -> Nbr]
    BY <2>1
  <2>3. q(d) \in Seq(Nbr)
    BY <2>2, SeqDef
  <2> QED  BY <2>2, <2>3 DEF Numbers
<1>2. (good + c + 1) % MaxCount \in Nbr /\ good + c + 1 = good + (c + 1)
  <2>1. good + c + 1 \in Int /\ good + c + 1 = good + (c + 1)
    BY DEF Nbr
  <2> QED  BY <2>1, FoldType
<1> DEFINE a == Append(q(c), (good + c + 1) % MaxCount)
<1>3. /\ a \in Numbers /\ Len(a) = c + 1
      /\ \A k \in 1 .. c : a[k] = q(c)[k]
      /\ a[c + 1] = (good + c + 1) % MaxCount
  <2>1. q(c) \in Numbers /\ Len(q(c)) = c
    BY <1>1
  <2> HIDE DEF q
  <2> QED  BY <1>2, <2>1, AppendList
<1>4. q(c + 1) \in Numbers /\ Len(q(c + 1)) = c + 1
  BY <1>1
<1>5. \A k \in 1 .. c + 1 : a[k] = q(c + 1)[k]
  <2> HIDE DEF a
  <2> TAKE k \in 1 .. c + 1
  <2>1. CASE k \in 1 .. c
    BY <1>3, <2>1
  <2>2. CASE k = c + 1
    BY <1>2, <1>3, <2>2
  <2> QED  BY <2>1, <2>2
<1>6. a = q(c + 1)
  <2> HIDE DEF a, q
  <2> QED  BY <1>3, <1>4, <1>5, SeqEqual DEF Numbers
<1> QED  BY <1>1, <1>6

\* The end of the sort: the whole list is in order.
LEMMA SortedKeeps ==
    ASSUME RxInv, Sorted
    PROVE  RxInv'
<1> DEFINE q == RxPending
           n == Len(RxPending)
<1>t. RxType /\ Sorting /\ RxPending \in Numbers /\ GoodHeader \in Nbr
  BY DEF RxInv, RxType, Sorted
<1>1. n \in Nat /\ \A k \in 1 .. n : q[k] \in Nbr
  BY <1>t, ListType
<1>2. /\ rx = "outer" /\ rx' = "deliver" /\ EndHeader' = q[n] /\ p1 >= n
      /\ RxPending' = RxPending /\ GoodHeader' = GoodHeader
      /\ MissingRxBlocks' = MissingRxBlocks /\ read' = read /\ p1' = p1 /\ p2' = p2
      /\ n1' = n1 /\ gapAt' = gapAt /\ found' = found
  BY DEF Sorted
<1>3. p1 = n /\ n \in 1 .. n
  BY <1>t, <1>1, <1>2 DEF Sorting
<1>4. q[n] \in Nbr
  BY <1>1, <1>3
<1>5. found = [nbrs |-> InList(q), good |-> GoodHeader] /\ read = <<>>
  BY <1>t DEF Sorting
<1>6. InOrder(q, GoodHeader, n)
  <2> SUFFICES ASSUME NEW j \in 1 .. n, NEW k \in 1 .. n, j < k
               PROVE  Offset(q[j], GoodHeader) < Offset(q[k], GoodHeader)
    BY DEF InOrder
  <2>1. CASE k = n
    <3>1. j \in 1 .. p1 - 1
      BY <1>1, <1>3, <2>1
    <3> QED  BY <1>t, <2>1, <3>1 DEF Sorting
  <2>2. CASE k # n
    <3>1. j \in 1 .. n - 1 /\ k \in 1 .. n - 1
      BY <1>1, <2>2
    <3> QED  BY <1>t, <3>1 DEF Sorting, InOrder
  <2> QED  BY <2>1, <2>2
<1>7. q[n] = LastPending(InList(q), GoodHeader)
  <2>1. q[n] \in InList(q) /\ InList(q) \in SUBSET Nbr
    BY <1>t, <1>3, ListType DEF InList
  <2>2. \A k \in 1 .. n : Offset(q[k], GoodHeader) <= Offset(q[n], GoodHeader)
    <3> TAKE k \in 1 .. n
    <3>1. Offset(q[k], GoodHeader) \in Int /\ Offset(q[n], GoodHeader) \in Int
      BY <1>t, <1>1, <1>4, OffsetStep
    <3>2. k = n \/ k < n
      BY <1>1
    <3> QED  BY <1>3, <1>6, <3>1, <3>2 DEF InOrder
  <2>3. \A m \in InList(q) : Offset(m, GoodHeader) <= Offset(q[n], GoodHeader)
    BY <2>2 DEF InList
  <2> QED  BY <1>t, <2>1, <2>3, LastPendingIs
<1>8. RxType'
  BY <1>t, <1>2, <1>4 DEF RxType
<1>9. Delivering'
  <2>1. NextNbrs(GoodHeader, 0) = {}
    BY DEF NextNbrs
  <2>2. <<>> = [k \in 1 .. 0 |-> (GoodHeader + k) % MaxCount] /\ Len(<<>>) = 0
    BY <1>t, AfterGood, EmptySeq, ListType
  <2>3. (GoodHeader + 0) % MaxCount = GoodHeader
    BY <1>t, FoldNear, MaxCountAssumption DEF Nbr
  <2>4. InList(q) # {}
    BY <1>3 DEF InList
  <2>5. 0 < MaxCount
    BY MaxCountAssumption
  <2>6. /\ found'.nbrs = InList(q) /\ found'.good = GoodHeader /\ Len(read') = 0
        /\ EndHeader' = LastPending(InList(q), GoodHeader)
    BY <1>2, <1>5, <1>7, <2>2
  <2> QED  BY <1>2, <1>5, <1>6, <2>1, <2>2, <2>3, <2>4, <2>5, <2>6 DEF Delivering
<1> QED  BY <1>2, <1>8, <1>9 DEF RxInv, PendingInOrder, ParseDataAsLooped

\* Without its first element, a list in order stays in order and loses one number.
LEMMA TailInOrder ==
    ASSUME NEW q \in Numbers, q # <<>>, NEW good \in Nbr, InOrder(q, good, Len(q))
    PROVE  /\ InOrder(Tail(q), good, Len(Tail(q)))
           /\ InList(Tail(q)) = InList(q) \ {Head(q)}
           /\ \A m \in InList(q) : Offset(Head(q), good) <= Offset(m, good)
<1>1. /\ Len(q) \in Nat /\ Len(q) # 0 /\ \A k \in 1 .. Len(q) : q[k] \in Nbr
  BY ListType
<1>2. /\ Head(q) = q[1] /\ Tail(q) \in Numbers /\ Len(Tail(q)) = Len(q) - 1
      /\ \A k \in 1 .. Len(q) - 1 : Tail(q)[k] = q[k + 1]
      /\ InList(q) = {Head(q)} \cup InList(Tail(q))
  BY TailList
<1>3. \A k \in 1 .. Len(q) : Offset(q[k], good) \in Int
  BY <1>1, OffsetStep
<1>4. InOrder(Tail(q), good, Len(Tail(q)))
  <2> SUFFICES ASSUME NEW j \in 1 .. Len(q) - 1, NEW k \in 1 .. Len(q) - 1, j < k
               PROVE  Offset(Tail(q)[j], good) < Offset(Tail(q)[k], good)
    BY <1>2 DEF InOrder
  <2>1. j + 1 \in 1 .. Len(q) /\ k + 1 \in 1 .. Len(q) /\ j + 1 < k + 1
    BY <1>1
  <2> QED  BY <1>2, <2>1 DEF InOrder
<1>5. \A k \in 1 .. Len(q) - 1 : Offset(Head(q), good) < Offset(Tail(q)[k], good)
  <2> TAKE k \in 1 .. Len(q) - 1
  <2>1. 1 \in 1 .. Len(q) /\ k + 1 \in 1 .. Len(q) /\ 1 < k + 1
    BY <1>1
  <2> QED  BY <1>2, <2>1 DEF InOrder
<1>6. \A m \in InList(Tail(q)) : Offset(Head(q), good) < Offset(m, good)
  BY <1>2, <1>5 DEF InList
<1>7. Offset(Head(q), good) \in Int /\ \A m \in InList(q) : Offset(m, good) \in Int
  BY <1>1, <1>2, <1>3 DEF InList
<1>8. Head(q) \notin InList(Tail(q))
  BY <1>6, <1>7
<1>9. \A m \in InList(q) : Offset(Head(q), good) <= Offset(m, good)
  BY <1>2, <1>6, <1>7
<1> QED  BY <1>2, <1>4, <1>8, <1>9

LEMMA DeliverKeeps ==
    ASSUME RxInv, Deliver
    PROVE  RxInv'
<1> DEFINE nbrs == found.nbrs
           good == found.good
           c == Len(read)
           q == RxPending
<1>t. /\ RxType /\ Delivering /\ q \in Numbers /\ GoodHeader \in Nbr
      /\ nbrs \in SUBSET Nbr /\ good \in Nbr /\ read \in Numbers /\ c \in Nat
  BY ListType DEF RxInv, RxType, Deliver
<1>1. /\ rx = "deliver" /\ rx' = "deliver"
      /\ read' = Append(read, Head(q)) /\ GoodHeader' = Head(q) /\ RxPending' = Tail(q)
      /\ EndHeader' = EndHeader /\ MissingRxBlocks' = MissingRxBlocks /\ p1' = p1
      /\ p2' = p2 /\ n1' = n1 /\ gapAt' = gapAt /\ found' = found
      /\ q # <<>> /\ Head(q) = (GoodHeader + 1) % MaxCount
  BY DEF Deliver, Follows
<1>2. /\ nbrs # {} /\ c < MaxCount
      /\ read = [k \in 1 .. c |-> (good + k) % MaxCount]
      /\ GoodHeader = (good + c) % MaxCount
      /\ EndHeader = LastPending(nbrs, good)
      /\ NextNbrs(good, c) \subseteq nbrs
      /\ InList(q) = nbrs \ NextNbrs(good, c)
      /\ good \in nbrs => c = 0
      /\ InOrder(q, good, Len(q))
  BY <1>t DEF Delivering
<1> HIDE DEF nbrs, good, c, q
<1>3. /\ InOrder(Tail(q), good, Len(Tail(q)))
      /\ InList(Tail(q)) = InList(q) \ {Head(q)}
      /\ \A m \in InList(q) : Offset(Head(q), good) <= Offset(m, good)
  BY <1>t, <1>1, <1>2, TailInOrder
<1>4. /\ Head(q) \in Nbr /\ Tail(q) \in Numbers
      /\ InList(q) = {Head(q)} \cup InList(Tail(q))
  BY <1>t, <1>1, TailList
<1>5. c \in 0 .. MaxCount - 1 /\ MaxCount \in Nat
  BY <1>t, <1>2, MaxCountAssumption
<1>6. Head(q) = (good + c + 1) % MaxCount
  BY <1>t, <1>1, <1>2, <1>5, StepOffset
<1>7. good \notin nbrs
  <2> SUFFICES ASSUME good \in nbrs PROVE FALSE
    OBVIOUS
  <2>1. c = 0 /\ NextNbrs(good, c) = {}
    BY <1>2 DEF NextNbrs
  <2>2. good \in InList(q) /\ Offset(good, good) = 0
    BY <1>t, <1>2, <2>1, OffsetStep
  <2>3. Offset(Head(q), good) = 1
    <3>1. 1 \in 0 .. MaxCount - 1 /\ good + 0 + 1 = good + 1
      BY <1>t, MaxCountAssumption DEF Nbr
    <3> QED  BY <1>t, <1>6, <2>1, <3>1, StepOffset
  <2> QED  BY <1>3, <2>2, <2>3
<1>8. c + 1 < MaxCount
  <2> SUFFICES ASSUME c = MaxCount - 1 PROVE FALSE
    BY <1>5
  <2>1. good + c + 1 = good + MaxCount /\ good + MaxCount \in MaxCount .. 2 * MaxCount - 1
    BY <1>t, <1>5 DEF Nbr
  <2>2. Head(q) = good
    BY <1>t, <1>6, <2>1, FoldNear, <1>5 DEF Nbr
  <2> QED  BY <1>2, <1>4, <1>7, <2>2
<1>9. read' \in Numbers /\ Len(read') = c + 1 /\ read' = [k \in 1 .. c + 1 |-> (good + k) % MaxCount]
  <2>1. Append(read, Head(q)) = [k \in 1 .. c + 1 |-> (good + k) % MaxCount]
    BY <1>t, <1>2, <1>6, AfterGood
  <2>2. Append(read, Head(q)) \in Numbers /\ Len(Append(read, Head(q))) = c + 1
    BY <1>t, <1>4, AppendList DEF c
  <2> QED  BY <1>1, <2>1, <2>2
<1>10. GoodHeader' = (good + (c + 1)) % MaxCount
  <2>1. good + (c + 1) = good + c + 1
    BY <1>t DEF Nbr
  <2> QED  BY <1>1, <1>6, <2>1
<1>11. NextNbrs(good, c + 1) = NextNbrs(good, c) \cup {Head(q)}
  <2>1. 1 .. c + 1 = (1 .. c) \cup {c + 1} /\ good + (c + 1) = good + c + 1
    BY <1>t DEF Nbr
  <2> QED  BY <1>6, <2>1 DEF NextNbrs
<1>12. RxType'
  BY <1>t, <1>1, <1>4, <1>9 DEF RxType
<1>13. Delivering'
  <2>1. found'.nbrs = nbrs /\ found'.good = good
    BY <1>1 DEF nbrs, good
  <2>2. NextNbrs(good, c + 1) \subseteq nbrs /\ InList(RxPending') = nbrs \ NextNbrs(good, c + 1)
    BY <1>1, <1>2, <1>3, <1>4, <1>11
  <2>3. InOrder(RxPending', good, Len(RxPending'))
    BY <1>1, <1>3
  <2>4. EndHeader' = LastPending(nbrs, good)
    BY <1>1, <1>2
  <2> QED  BY <1>2, <1>7, <1>8, <1>9, <1>10, <2>1, <2>2, <2>3, <2>4 DEF Delivering
<1> QED  BY <1>1, <1>12, <1>13 DEF RxInv, PendingInOrder, ParseDataAsLooped

\* The delivery ends where ArqBlocks says.
LEMMA DeliveryEnds ==
    ASSUME RxType, Delivering, ~Follows
    PROVE  AllDelivered
<1> DEFINE nbrs == found.nbrs
           good == found.good
           c == Len(read)
           q == RxPending
           d == Deliverable(nbrs, good)
<1>t. /\ q \in Numbers /\ nbrs \in SUBSET Nbr /\ good \in Nbr /\ c \in Nat
  BY ListType DEF RxType
<1>1. q = <<>> \/ Head(q) # (GoodHeader + 1) % MaxCount
  BY DEF Follows
<1>2. /\ nbrs # {} /\ c < MaxCount
      /\ read = [k \in 1 .. c |-> (good + k) % MaxCount]
      /\ GoodHeader = (good + c) % MaxCount
      /\ EndHeader = LastPending(nbrs, good)
      /\ NextNbrs(good, c) \subseteq nbrs
      /\ InList(q) = nbrs \ NextNbrs(good, c)
      /\ good \in nbrs => c = 0
      /\ InOrder(q, good, Len(q))
  BY DEF Delivering
<1> HIDE DEF nbrs, good, c, q
<1>3. /\ d \in 0 .. MaxCount - 1
      /\ \A i \in 1 .. d : (good + i) % MaxCount \in nbrs
      /\ good \in nbrs => d = 0
      /\ good \notin nbrs /\ d + 1 < MaxCount => (good + d + 1) % MaxCount \notin nbrs
  BY <1>t, ReadyIsPrefix
<1> HIDE DEF d
<1>4. c \in 0 .. MaxCount - 1 /\ MaxCount \in Nat /\ good \in Int
  BY <1>t, <1>2, MaxCountAssumption DEF Nbr
<1>5. ~(d < c)
  <2> SUFFICES ASSUME d < c PROVE FALSE
    OBVIOUS
  <2>1. d + 1 \in 1 .. c /\ d + 1 < MaxCount /\ good + (d + 1) = good + d + 1
    BY <1>3, <1>4
  <2>2. (good + d + 1) % MaxCount \in nbrs
    BY <1>2, <2>1 DEF NextNbrs
  <2>3. good \notin nbrs
    BY <1>2, <1>3, <1>4, <2>1
  <2> QED  BY <1>3, <2>1, <2>2, <2>3
<1>6. \A m \in InList(q) : good \notin nbrs => Offset(m, good) \in c + 1 .. MaxCount - 1
  <2> SUFFICES ASSUME NEW m \in InList(q), good \notin nbrs
               PROVE  Offset(m, good) \in c + 1 .. MaxCount - 1
    OBVIOUS
  <2>1. m \in nbrs /\ m \notin NextNbrs(good, c) /\ m \in Nbr
    BY <1>t, <1>2
  <2>2. /\ Offset(m, good) \in 0 .. MaxCount - 1 /\ (good + Offset(m, good)) % MaxCount = m
        /\ Offset(m, good) # 0
    BY <1>t, <2>1, OffsetStep
  <2>3. Offset(m, good) \notin 1 .. c
    BY <2>1, <2>2 DEF NextNbrs
  <2> QED  BY <1>4, <2>2, <2>3
<1>7. ~(c < d)
  <2> SUFFICES ASSUME c < d PROVE FALSE
    OBVIOUS
  <2> DEFINE next == (good + (c + 1)) % MaxCount
  <2>1. c + 1 \in 1 .. d /\ c + 1 \in 0 .. MaxCount - 1 /\ d # 0
    BY <1>3, <1>4
  <2>2. next \in nbrs /\ good \notin nbrs
    BY <1>3, <2>1
  <2>3. Offset(next, good) = c + 1
    BY <1>t, <2>1, StepOffset
  <2>4. next \notin NextNbrs(good, c)
    <3> SUFFICES ASSUME NEW k \in 1 .. c PROVE (good + k) % MaxCount # next
      BY DEF NextNbrs
    <3>1. k \in 0 .. MaxCount - 1 /\ k # c + 1
      BY <1>4
    <3>2. Offset((good + k) % MaxCount, good) = k
      BY <1>t, <3>1, StepOffset
    <3> QED  BY <2>3, <3>1, <3>2
  <2>5. next \in InList(q)
    BY <1>2, <2>2, <2>4
  <2> HIDE DEF next
  <2>6. q # <<>>
    BY <1>t, <2>5, ListType
  <2>7. Head(q) \in InList(q) /\ Offset(Head(q), good) <= Offset(next, good)
    BY <1>t, <1>2, <2>5, <2>6, TailInOrder, TailList
  <2>8. Offset(Head(q), good) = c + 1 /\ Head(q) \in Nbr
    <3>1. Offset(Head(q), good) \in c + 1 .. MaxCount - 1
      BY <1>6, <2>2, <2>7
    <3> QED  BY <1>4, <1>t, <2>3, <2>6, <2>7, <3>1, TailList
  <2>9. Head(q) = (good + (c + 1)) % MaxCount
    BY <1>t, <2>8, OffsetStep
  <2>10. (GoodHeader + 1) % MaxCount = (good + c + 1) % MaxCount /\ good + c + 1 = good + (c + 1)
    BY <1>t, <1>2, <1>4, StepOffset
  <2> QED  BY <1>1, <2>6, <2>9, <2>10
<1>8. c = d
  BY <1>3, <1>4, <1>5, <1>7
<1>9. NextNbrs(good, c) = Delivered(nbrs, good)
  BY <1>8 DEF NextNbrs, Delivered, d
<1>10. InOrder(q, GoodHeader, Len(q))
  <2>1. CASE good \in nbrs
    <3>1. GoodHeader = good
      BY <1>t, <1>2, <2>1, FoldNear, MaxCountAssumption DEF Nbr
    <3> QED  BY <1>2, <3>1
  <2>2. CASE good \notin nbrs
    <3> SUFFICES ASSUME NEW j \in 1 .. Len(q), NEW k \in 1 .. Len(q), j < k
                 PROVE  Offset(q[j], GoodHeader) < Offset(q[k], GoodHeader)
      BY DEF InOrder
    <3>1. ASSUME NEW m \in InList(q)
          PROVE  /\ Offset(m, GoodHeader) = Offset(m, good) - c
                 /\ Offset(m, good) \in Int
      <4>1. Offset(m, good) \in c + 1 .. MaxCount - 1 /\ m \in Nbr
        BY <1>t, <1>2, <1>6, <2>2
      <4> DEFINE o == Offset(m, good)
      <4>2. m = (good + o) % MaxCount
        BY <1>t, <4>1, OffsetStep
      <4> HIDE DEF o
      <4>3. o - c \in 0 .. MaxCount - 1 /\ good + o = (good + c) + (o - c) /\ o \in Int
        BY <1>4, <4>1 DEF o
      <4>4. m = (GoodHeader + (o - c)) % MaxCount
        <5>1. good + c \in Int /\ o - c \in Int
          BY <1>4, <4>3
        <5>2. (((good + c) % MaxCount) + (o - c)) % MaxCount = ((good + c) + (o - c)) % MaxCount
          BY <5>1, FoldTwice
        <5> QED  BY <1>2, <4>2, <4>3, <5>2
      <4>5. GoodHeader \in Nbr
        BY DEF RxType
      <4>6. Offset(m, GoodHeader) = o - c
        BY <4>3, <4>4, <4>5, StepOffset
      <4> QED  BY <4>3, <4>6 DEF o
    <3>2. q[j] \in InList(q) /\ q[k] \in InList(q)
      BY DEF InList
    <3>3. Offset(q[j], good) < Offset(q[k], good)
      BY <1>2 DEF InOrder
    <3> QED  BY <1>4, <3>1, <3>2, <3>3
  <2> QED  BY <2>1, <2>2
<1> QED  BY <1>2, <1>8, <1>9, <1>10 DEF AllDelivered, NewGood, nbrs, good, c, q, d

LEMMA DeliverEndsKeeps ==
    ASSUME RxInv, DeliverEnds
    PROVE  RxInv'
<1>t. RxType /\ Delivering /\ GoodHeader \in Nbr /\ EndHeader \in Nbr /\ RxPending \in Numbers
  BY DEF RxInv, RxType, DeliverEnds
<1>1. /\ rx = "deliver" /\ ~Follows /\ MissingRxBlocks' = {}
      /\ rx' = IF RxPending = <<>> THEN "rest" ELSE "gaps"
      /\ gapAt' = (GoodHeader + 1) % MaxCount
      /\ RxPending' = RxPending /\ GoodHeader' = GoodHeader /\ EndHeader' = EndHeader
      /\ read' = read /\ p1' = p1 /\ p2' = p2 /\ n1' = n1 /\ found' = found
  BY DEF DeliverEnds
<1>2. AllDelivered
  BY <1>t, <1>1, DeliveryEnds
<1>3. AllDelivered'
  BY <1>1, <1>2 DEF AllDelivered, InOrder
<1>4. gapAt' \in Nbr
  <2>1. GoodHeader + 1 \in Int
    BY <1>t DEF Nbr
  <2> QED  BY <1>1, <2>1, FoldType
<1>5. RxType'
  BY <1>t, <1>1, <1>4 DEF RxType, Nbr
<1>6. CASE RxPending = <<>>
  <2>1. InList(RxPending') = {}
    BY <1>1, <1>6, <1>t, ListType
  <2>2. (MissingRxBlocks = Gaps(found.nbrs \ Delivered(found.nbrs, found.good),
                                GoodHeader, EndHeader))'
    BY <1>1, <1>3, <2>1 DEF AllDelivered, Gaps
  <2>3. PendingInOrder' /\ ParseDataAsLooped'
    BY <1>3, <2>2 DEF AllDelivered, PendingInOrder, InOrder, ParseDataAsLooped
  <2> QED  BY <1>1, <1>5, <1>6, <2>3 DEF RxInv
<1>7. CASE RxPending # <<>>
  <2> DEFINE start == (GoodHeader + 1) % MaxCount
  <2>1. start \in Nbr /\ gapAt' = start
    BY <1>1, <1>4
  <2>2. (EndHeader + 1) % MaxCount \in Nbr
    <3>1. EndHeader + 1 \in Int
      BY <1>t DEF Nbr
    <3> QED  BY <3>1, FoldType
  <2>3. GapsStop' = GapsStop
    BY <1>1 DEF GapsStop
  <2>4. GapsStop \in Nat /\ start <= GapsStop
    BY <2>1, <2>2, MaxCountAssumption DEF GapsStop, Nbr
  <2>5. start .. start - 1 = {} /\ start \in start .. GapsStop
    BY <2>1, <2>4 DEF Nbr
  <2> HIDE DEF start
  <2>6. {k % MaxCount : k \in start .. start - 1} \ InList(RxPending) = {}
    BY <2>5
  <2>7. FindingGaps'
    <3>1. ((GoodHeader + 1) % MaxCount)' = start
      BY <1>1 DEF start
    <3> QED  BY <1>1, <1>3, <1>7, <2>1, <2>3, <2>5, <2>6, <3>1 DEF FindingGaps
  <2> QED  BY <1>1, <1>5, <1>7, <2>7 DEF RxInv, PendingInOrder, ParseDataAsLooped
<1> QED  BY <1>6, <1>7

LEMMA GapsTurnKeeps ==
    ASSUME RxInv, GapsTurn
    PROVE  RxInv'
<1> DEFINE start == (GoodHeader + 1) % MaxCount
           seen(i) == {k % MaxCount : k \in start .. i - 1}
<1>t. /\ RxType /\ FindingGaps /\ gapAt \in Nat /\ GoodHeader \in Nbr /\ EndHeader \in Nbr
      /\ MissingRxBlocks \in SUBSET Nbr
  BY DEF RxInv, RxType, GapsTurn
<1>1. /\ rx = "gaps" /\ rx' = "gaps" /\ gapAt < GapsStop /\ gapAt' = gapAt + 1
      /\ MissingRxBlocks' = IF gapAt % MaxCount \in InList(RxPending) THEN MissingRxBlocks
                            ELSE MissingRxBlocks \cup {gapAt % MaxCount}
      /\ RxPending' = RxPending /\ GoodHeader' = GoodHeader /\ EndHeader' = EndHeader
      /\ read' = read /\ p1' = p1 /\ p2' = p2 /\ n1' = n1 /\ found' = found
  BY DEF GapsTurn
<1>2. /\ AllDelivered /\ RxPending # <<>> /\ gapAt \in start .. GapsStop
      /\ MissingRxBlocks = seen(gapAt) \ InList(RxPending)
  BY <1>t DEF FindingGaps
<1>3. gapAt % MaxCount \in Nbr /\ start \in Nat
  <2>1. gapAt \in Int /\ GoodHeader + 1 \in Int
    BY <1>t DEF Nbr
  <2>2. gapAt % MaxCount \in Nbr /\ start \in Nbr
    BY <2>1, FoldType
  <2> QED  BY <2>2 DEF Nbr
<1>4. GapsStop \in Int
  <2>1. EndHeader + 1 \in Int
    BY <1>t DEF Nbr
  <2>2. (EndHeader + 1) % MaxCount \in Nbr
    BY <2>1, FoldType
  <2> QED  BY <2>2, MaxCountAssumption DEF GapsStop, Nbr
<1>5. seen(gapAt + 1) = seen(gapAt) \cup {gapAt % MaxCount}
  <2> HIDE DEF start
  <2>1. start .. (gapAt + 1) - 1 = (start .. gapAt - 1) \cup {gapAt}
    BY <1>t, <1>2, <1>3
  <2> QED  BY <2>1
<1>6. AllDelivered'
  BY <1>1, <1>2 DEF AllDelivered, InOrder
<1>7. RxType'
  BY <1>t, <1>1, <1>3 DEF RxType
<1>8. FindingGaps'
  <2> HIDE DEF seen
  <2>1. MissingRxBlocks' = seen(gapAt + 1) \ InList(RxPending)
    BY <1>1, <1>2, <1>5
  <2>2. gapAt + 1 \in start .. GapsStop
    BY <1>t, <1>1, <1>2, <1>3, <1>4
  <2>3. GapsStop' = GapsStop /\ ((GoodHeader + 1) % MaxCount)' = start
    BY <1>1 DEF GapsStop
  <2> QED  BY <1>1, <1>2, <1>6, <2>1, <2>2, <2>3 DEF FindingGaps, seen
<1> QED  BY <1>1, <1>7, <1>8 DEF RxInv, PendingInOrder, ParseDataAsLooped

\* The numbers from start to where the search stops are those of ArqBlocks.
LEMMA GapsEndKeeps ==
    ASSUME RxInv, GapsEnd
    PROVE  RxInv'
<1> DEFINE start == (GoodHeader + 1) % MaxCount
           end == (EndHeader + 1) % MaxCount
           far == Offset(EndHeader, GoodHeader)
<1>t. /\ RxType /\ FindingGaps /\ gapAt \in Nat /\ GoodHeader \in Nbr /\ EndHeader \in Nbr
      /\ MissingRxBlocks \in SUBSET Nbr /\ RxPending \in Numbers
  BY DEF RxInv, RxType, GapsEnd
<1>1. /\ rx = "gaps" /\ rx' = "rest" /\ gapAt >= GapsStop
      /\ RxPending' = RxPending /\ GoodHeader' = GoodHeader /\ EndHeader' = EndHeader
      /\ MissingRxBlocks' = MissingRxBlocks /\ gapAt' = gapAt
      /\ read' = read /\ p1' = p1 /\ p2' = p2 /\ n1' = n1 /\ found' = found
  BY DEF GapsEnd
<1>2. /\ AllDelivered /\ RxPending # <<>> /\ gapAt \in start .. GapsStop
      /\ MissingRxBlocks = {k % MaxCount : k \in start .. gapAt - 1} \ InList(RxPending)
  BY <1>t DEF FindingGaps
<1>3. start \in Nbr /\ end \in Nbr
  <2>1. EndHeader + 1 \in Int /\ GoodHeader + 1 \in Int
    BY <1>t DEF Nbr
  <2> QED  BY <2>1, FoldType
<1>4. GapsStop \in Int /\ GapsStop = IF end < start THEN end + MaxCount ELSE end
  BY <1>3, MaxCountAssumption DEF GapsStop, Nbr
<1>5. far \in 0 .. MaxCount - 1 /\ (GoodHeader + far) % MaxCount = EndHeader
  BY <1>t, OffsetStep
<1> HIDE DEF start, end, far
<1>6. GapsStop = start + far
  <2>1. (start + far) % MaxCount = end
    <3>1. far \in Int /\ GoodHeader + 1 \in Int /\ GoodHeader + far \in Int
      BY <1>t, <1>5 DEF Nbr
    <3>2. (start + far) % MaxCount = (GoodHeader + 1 + far) % MaxCount
      BY <3>1, FoldTwice DEF start
    <3>3. end = (GoodHeader + far + 1) % MaxCount
      BY <1>5, <3>1, FoldTwice DEF end
    <3>4. GoodHeader + far + 1 = GoodHeader + 1 + far
      BY <1>t, <1>5 DEF Nbr
    <3> QED  BY <3>2, <3>3, <3>4
  <2>2. start \in 0 .. MaxCount - 1 /\ end \in 0 .. MaxCount - 1 /\ MaxCount \in Nat
    BY <1>3, MaxCountAssumption DEF Nbr
  <2>3. CASE start + far < MaxCount
    <3>1. end = start + far
      BY <1>5, <2>1, <2>2, <2>3, FoldNear
    <3> QED  BY <1>4, <1>5, <2>2, <3>1
  <2>4. CASE start + far >= MaxCount
    <3>1. end = start + far - MaxCount
      BY <1>5, <2>1, <2>2, <2>4, FoldNear
    <3> QED  BY <1>4, <1>5, <2>2, <3>1
  <2> QED  BY <1>5, <2>2, <2>3, <2>4
<1>7. gapAt = start + far
  BY <1>t, <1>1, <1>2, <1>4, <1>6
<1>8. {k % MaxCount : k \in start .. gapAt - 1} = {(GoodHeader + i) % MaxCount : i \in 1 .. far}
  <2>0. start \in Int /\ far \in Int /\ GoodHeader \in Int
    BY <1>t, <1>3, <1>5 DEF Nbr
  <2>1. ASSUME NEW i \in Int
        PROVE  (start + (i - 1)) % MaxCount = (GoodHeader + i) % MaxCount
    <3>1. GoodHeader + 1 \in Int /\ i - 1 \in Int /\ (GoodHeader + 1) + (i - 1) = GoodHeader + i
      BY <2>0
    <3>2. (start + (i - 1)) % MaxCount = ((GoodHeader + 1) + (i - 1)) % MaxCount
      BY <3>1, FoldTwice DEF start
    <3> QED  BY <3>1, <3>2
  <2>2. ASSUME NEW k \in start .. gapAt - 1
        PROVE  k % MaxCount \in {(GoodHeader + i) % MaxCount : i \in 1 .. far}
    <3>1. k - start + 1 \in 1 .. far /\ k - start + 1 \in Int
          /\ start + ((k - start + 1) - 1) = k
      BY <1>7, <2>0
    <3>2. k % MaxCount = (GoodHeader + (k - start + 1)) % MaxCount
      BY <2>1, <3>1
    <3> QED  BY <3>1, <3>2
  <2>3. ASSUME NEW i \in 1 .. far
        PROVE  (GoodHeader + i) % MaxCount \in {k % MaxCount : k \in start .. gapAt - 1}
    <3>1. start + (i - 1) \in start .. gapAt - 1 /\ i \in Int
      BY <1>7, <2>0
    <3>2. (GoodHeader + i) % MaxCount = (start + (i - 1)) % MaxCount
      BY <2>1, <3>1
    <3> QED  BY <3>1, <3>2
  <2> QED  BY <2>2, <2>3
<1>9. InList(RxPending) # {} /\ InList(RxPending) = found.nbrs \ Delivered(found.nbrs, found.good)
  BY <1>t, <1>2, ListType DEF AllDelivered
<1>10. MissingRxBlocks = Gaps(InList(RxPending), GoodHeader, EndHeader)
  BY <1>2, <1>8, <1>9 DEF Gaps, far
<1>11. AllDelivered'
  BY <1>1, <1>2 DEF AllDelivered, InOrder
<1>12. RxType'
  BY <1>t, <1>1 DEF RxType
<1>13. PendingInOrder' /\ ParseDataAsLooped'
  <2>1. (MissingRxBlocks = Gaps(found.nbrs \ Delivered(found.nbrs, found.good),
                                GoodHeader, EndHeader))'
    BY <1>1, <1>9, <1>10
  <2> QED  BY <1>11, <2>1 DEF AllDelivered, PendingInOrder, InOrder, ParseDataAsLooped
<1> QED  BY <1>1, <1>12, <1>13 DEF RxInv

LEMMA RxInitHolds ==
    ASSUME RxInit
    PROVE  RxInv
<1>1. MaxCount - 1 \in Nbr
  BY MaxCountAssumption DEF Nbr
<1>2. RxType
  BY <1>1, EmptySeq DEF RxInit, RxType, Numbers
<1>3. Len(<<>>) = 0
  BY EmptySeq
<1> QED  BY <1>2, <1>3 DEF RxInv, RxInit, PendingInOrder, ParseDataAsLooped

\* A turn of parseDATA keeps the invariant, and so does the arrival of a block.
LEMMA RxNextKeeps ==
    ASSUME RxInv, BlockArrives \/ ParseDATATurn \/ UNCHANGED rxVars
    PROVE  RxInv'
<1>1. CASE UNCHANGED rxVars
  <2>1. /\ RxType' /\ PendingInOrder' /\ ParseDataAsLooped'
    BY <1>1 DEF rxVars, RxInv, RxType, PendingInOrder, ParseDataAsLooped
  <2>2. (rx = "outer" => Sorting)'
    BY <1>1 DEF rxVars, RxInv, Sorting, InOrder
  <2>3. (rx = "inner" => SortingInner)'
    BY <1>1 DEF rxVars, RxInv, Sorting, InOrder, SortingInner, Key
  <2>4. (rx = "deliver" => Delivering)'
    BY <1>1 DEF rxVars, RxInv, Delivering, InOrder
  <2>5. (rx = "gaps" => FindingGaps)'
    BY <1>1 DEF rxVars, RxInv, FindingGaps, AllDelivered, InOrder, GapsStop
  <2> QED  BY <2>1, <2>2, <2>3, <2>4, <2>5 DEF RxInv
<1> QED
  BY <1>1, BlockArrivesKeeps, SortOuterKeeps, SortInnerKeeps, SortNextKeeps, SortedKeeps,
     DeliverKeeps, DeliverEndsKeeps, GapsTurnKeeps, GapsEndKeeps DEF ParseDATATurn

---------------------------------------------------------------------------
(* parseSTATUS: the walk *)

\* What parseSTATUS is called with, and what sendblocks is called with.
LEMMA ReportType ==
    ASSUME NEW a \in Reports
    PROVE  /\ a.TxMissing \in Numbers /\ a.TxPending \in Numbers
           /\ a.LastHeader \in Nbr /\ a.UrGoodHeader \in Nbr /\ a.UrEndHeader \in Nbr
           /\ a.reported \in SUBSET Nbr
           /\ a \notin Queues
<1>1. a \in Report
  BY LoopsAssumption
<1>2. a \notin Queue
  <2>1. "reported" \in DOMAIN a
    BY <1>1 DEF Report
  <2>2. \A b \in Queue : "reported" \notin DOMAIN b
    BY DEF Queue
  <2> QED  BY <2>1, <2>2
<1> QED  BY <1>1, <1>2, LoopsAssumption DEF Report

LEMMA QueueType ==
    ASSUME NEW a \in Queues
    PROVE  /\ a.TxMissing \in Numbers /\ a.TxPending \in Numbers /\ a.TxBlocks \in Numbers
           /\ a.LastHeader \in Nbr /\ a.UrGoodHeader \in Nbr
           /\ a \notin Reports
<1>1. a \in Queue
  BY LoopsAssumption
<1>2. a \notin Reports
  BY ReportType
<1> QED  BY <1>1, <1>2 DEF Queue

\* The counter m goes round through 1..MAXCOUNT.
LEMMA FoldNext ==
    ASSUME NEW a \in Int
    PROVE  /\ 1 + (a % MaxCount) \in 1 .. MaxCount
           /\ Fold((1 + (a % MaxCount)) + 1) = 1 + ((a + 1) % MaxCount)
<1> DEFINE x == a % MaxCount
<1>1. x \in 0 .. MaxCount - 1
  BY FoldType DEF Nbr
<1>2. (x + 1) % MaxCount = (a + 1) % MaxCount
  BY FoldTwice
<1> HIDE DEF x
<1>3. CASE x = MaxCount - 1
  <2>1. (x + 1) % MaxCount = 0
    BY <1>3, FoldNear, MaxCountAssumption
  <2>2. Fold((1 + x) + 1) = 1
    BY <1>3, MaxCountAssumption DEF Fold
  <2> QED  BY <1>1, <1>2, <2>1, <2>2, MaxCountAssumption DEF x
<1>4. CASE x # MaxCount - 1
  <2>1. (x + 1) % MaxCount = x + 1
    BY <1>1, <1>4, FoldNear, MaxCountAssumption
  <2>2. Fold((1 + x) + 1) = 1 + (x + 1)
    BY <1>1, <1>4, MaxCountAssumption DEF Fold
  <2> QED  BY <1>1, <1>2, <2>1, <2>2, MaxCountAssumption DEF x
<1> QED  BY <1>3, <1>4

\* The counter stays in its range.
LEMMA FoldInRound ==
    ASSUME NEW m \in 1 .. MaxCount
    PROVE  Fold(m + 1) \in 1 .. MaxCount
BY MaxCountAssumption DEF Fold

LEMMA WalkTurnKeeps ==
    ASSUME TxInv, WalkTurn
    PROVE  TxInv'
<1>t. TxType /\ Walking /\ asked \in Reports /\ walkAt \in 1 .. MaxCount /\ LastHeader \in Nbr
  BY DEF TxInv, TxType, WalkTurn
<1>1. /\ tx = "walk" /\ tx' = "walk" /\ walkAt # LastHeader
      /\ missing' = missing \cup {walkAt} /\ walkAt' = Fold(walkAt + 1)
      /\ asked' = asked /\ TxMissing' = TxMissing /\ TxPending' = TxPending
      /\ TxBlocks' = TxBlocks /\ LastHeader' = LastHeader /\ pos' = pos
      /\ keep' = keep /\ frames' = frames
  BY DEF WalkTurn
<1> DEFINE ur == asked.UrEndHeader
           walked(n) == {1 + ((ur + k) % MaxCount) : k \in 0 .. n - 1}
<1>2. ur \in Nbr /\ asked.reported \in SUBSET Nbr
  BY <1>t, ReportType
<1>3. TxType'
  <2>1. walkAt' \in 1 .. MaxCount
    BY <1>t, <1>1, FoldInRound
  <2>2. missing' \in SUBSET (0 .. MaxCount)
    BY <1>t, <1>1, MaxCountAssumption DEF TxType
  <2> QED  BY <1>t, <1>1, <2>1, <2>2 DEF TxType
<1>4. ASSUME LastHeader # 0
      PROVE  \E K \in 0 .. Offset(LastHeader - 1, ur) :
                missing' = asked.reported \cup walked(K)
                /\ walkAt' = 1 + ((ur + K) % MaxCount)
  <2>1. PICK K \in 0 .. Offset(LastHeader - 1, ur) :
            missing = asked.reported \cup walked(K) /\ walkAt = 1 + ((ur + K) % MaxCount)
    BY <1>t, <1>4 DEF Walking
  <2>2. LastHeader - 1 \in Nbr
    BY <1>t, <1>4, MaxCountAssumption DEF Nbr
  <2>3. /\ Offset(LastHeader - 1, ur) \in 0 .. MaxCount - 1
        /\ (ur + Offset(LastHeader - 1, ur)) % MaxCount = LastHeader - 1
    BY <1>2, <2>2, OffsetStep
  <2>4. ur + K \in Int /\ ur \in Int /\ K \in Nat
    BY <1>2, <2>1 DEF Nbr
  <2>5. K # Offset(LastHeader - 1, ur)
    <3> SUFFICES ASSUME K = Offset(LastHeader - 1, ur) PROVE FALSE
      OBVIOUS
    <3>1. walkAt = 1 + (LastHeader - 1)
      BY <2>1, <2>3
    <3> QED  BY <1>t, <1>1, <3>1 DEF Nbr
  <2>6. walkAt' = 1 + ((ur + K + 1) % MaxCount) /\ ur + K + 1 = ur + (K + 1)
    BY <1>1, <2>1, <2>4, FoldNext
  <2>7. walked(K + 1) = walked(K) \cup {walkAt}
    <3>1. 0 .. (K + 1) - 1 = (0 .. K - 1) \cup {K}
      BY <2>4
    <3> QED  BY <2>1, <3>1
  <2> HIDE DEF walked
  <2>8. K + 1 \in 0 .. Offset(LastHeader - 1, ur)
    BY <2>1, <2>3, <2>4, <2>5
  <2>9. missing' = asked.reported \cup walked(K + 1)
    BY <1>1, <2>1, <2>7
  <2> QED  BY <2>6, <2>8, <2>9
<1>5. Walking'
  BY <1>t, <1>1, <1>4 DEF Walking
<1> QED  BY <1>1, <1>3, <1>5 DEF TxInv

LEMMA WalkEndsKeeps ==
    ASSUME TxInv, WalkEnds
    PROVE  TxInv'
<1>t. TxType /\ Walking /\ asked \in Reports /\ walkAt \in 1 .. MaxCount /\ LastHeader \in Nbr
  BY DEF TxInv, TxType, WalkEnds
<1>1. /\ tx = "walk" /\ tx' = "keep" /\ walkAt = LastHeader
      /\ missing' = missing \cup {LastHeader} /\ walkAt' = walkAt
      /\ asked' = asked /\ TxMissing' = TxMissing /\ TxPending' = TxPending
      /\ TxBlocks' = TxBlocks /\ LastHeader' = LastHeader /\ pos' = pos
      /\ keep' = keep /\ frames' = frames
  BY DEF WalkEnds
<1> DEFINE ur == asked.UrEndHeader
           far == Offset(LastHeader - 1, ur)
           walked(n) == {1 + ((ur + k) % MaxCount) : k \in 0 .. n - 1}
<1>2. ur \in Nbr /\ asked.reported \in SUBSET Nbr /\ asked.TxMissing \in Numbers
  BY <1>t, ReportType
<1>3. TxType'
  <2>1. missing' \in SUBSET (0 .. MaxCount)
    BY <1>t, <1>1, MaxCountAssumption DEF TxType, Nbr
  <2> QED  BY <1>t, <1>1, <2>1 DEF TxType
<1>4. /\ LastHeader # 0 /\ LastHeader = asked.LastHeader /\ ur # LastHeader
      /\ TxMissing = asked.TxMissing /\ TxPending = asked.TxPending
      /\ pos = 1 /\ keep = <<>>
  BY <1>t, <1>1 DEF Walking
<1>5. PICK K \in 0 .. far :
            missing = asked.reported \cup walked(K) /\ walkAt = 1 + ((ur + K) % MaxCount)
  BY <1>t, <1>4 DEF Walking
<1>6. far \in 0 .. MaxCount - 1
  <2>1. LastHeader - 1 \in Nbr
    BY <1>t, <1>4, MaxCountAssumption DEF Nbr
  <2> QED  BY <1>2, <2>1, OffsetStep
<1>7. K = far
  <2>1. K \in 0 .. MaxCount - 1
    <3> HIDE DEF far
    <3> QED  BY <1>5, <1>6, MaxCountAssumption
  <2>2. (ur + K) % MaxCount \in Nbr /\ Offset((ur + K) % MaxCount, ur) = K
    BY <1>2, <2>1, StepOffset
  <2>3. (ur + K) % MaxCount = LastHeader - 1
    BY <1>t, <1>1, <1>5, <2>2 DEF Nbr
  <2> QED  BY <2>2, <2>3
<1>8. walked(far) \cup {LastHeader} = {1 + ((ur + k) % MaxCount) : k \in 0 .. far}
  <2> HIDE DEF far
  <2>1. 0 .. far = (0 .. far - 1) \cup {far}
    BY <1>6
  <2>2. LastHeader = 1 + ((ur + far) % MaxCount)
    BY <1>1, <1>5, <1>7
  <2> QED  BY <2>1, <2>2
<1>9. Considered'
  <2>1. Walk(LastHeader, ur) = {1 + ((ur + k) % MaxCount) : k \in 0 .. far}
    BY <1>4 DEF Walk
  <2>2. missing' = asked.reported \cup Walk(LastHeader, ur)
    <3> HIDE DEF walked, far
    <3> QED  BY <1>1, <1>5, <1>7, <1>8, <2>1
  <2> QED  BY <1>1, <1>4, <2>2 DEF Considered, ConsideredMissing, WalkNeverEnds
<1>10. Keeping'
  <2>1. /\ InList(<<>>) = {} /\ Len(<<>>) = 0 /\ Len(asked.TxMissing) \in Nat
    BY <1>2, EmptySeq, ListType DEF InList
  <2>2. Kept(keep, asked.TxMissing, pos - 1)'
    BY <1>1, <1>4, <2>1 DEF Kept
  <2> QED  BY <1>1, <1>4, <1>9, <2>1, <2>2 DEF Keeping
<1> QED  BY <1>1, <1>3, <1>10 DEF TxInv

---------------------------------------------------------------------------
(* parseSTATUS: what is kept and what is echoed *)

LEMMA KeepTurnKeeps ==
    ASSUME TxInv, KeepTurn
    PROVE  TxInv'
<1> DEFINE from == asked.TxMissing
           b == TxMissing[pos]
<1>t. /\ TxType /\ Keeping /\ asked \in Reports /\ TxMissing \in Numbers /\ keep \in Numbers
      /\ pos \in Nat \ {0}
  BY DEF TxInv, TxType, KeepTurn
<1>1. /\ tx = "keep" /\ tx' = "keep" /\ pos <= Len(TxMissing)
      /\ keep' = IF b \in missing THEN Append(keep, b) ELSE keep
      /\ pos' = pos + 1 /\ missing' = missing /\ walkAt' = walkAt
      /\ asked' = asked /\ TxMissing' = TxMissing /\ TxPending' = TxPending
      /\ TxBlocks' = TxBlocks /\ LastHeader' = LastHeader /\ frames' = frames
  BY DEF KeepTurn
<1>2. /\ Considered /\ TxMissing = from /\ Kept(keep, from, pos - 1)
      /\ pos \in 1 .. Len(TxMissing) /\ Len(TxMissing) \in Nat /\ b \in Nbr /\ b = from[pos]
  BY <1>t, <1>1, ListType DEF Keeping
<1>3. /\ keep' \in Numbers
      /\ InList(keep') = IF b \in missing THEN InList(keep) \cup {b} ELSE InList(keep)
  BY <1>t, <1>1, <1>2, AppendList
<1>4. Len(keep) \in Nat
  BY <1>t, ListType
<1> HIDE DEF from, b
<1>5. InList(keep') = {from[a] : a \in 1 .. pos} \cap missing
  <2>1. 1 .. pos = (1 .. pos - 1) \cup {pos}
    BY <1>2
  <2>2. {from[a] : a \in 1 .. pos} = {from[a] : a \in 1 .. pos - 1} \cup {b}
    BY <1>2, <2>1
  <2> QED  BY <1>2, <1>3, <2>2 DEF Kept
<1>6. ASSUME NEW j \in 1 .. Len(keep'), NEW k \in 1 .. Len(keep'), j < k
      PROVE  \E x, y \in 1 .. pos : x < y /\ from[x] = keep'[j] /\ from[y] = keep'[k]
  <2>1. CASE k \in 1 .. Len(keep)
    <3>1. j \in 1 .. Len(keep)
      BY <1>4, <1>6, <2>1
    <3>2. keep'[j] = keep[j] /\ keep'[k] = keep[k]
      BY <1>t, <1>1, <1>2, <2>1, <3>1, AppendList
    <3>3. PICK x \in 1 .. pos - 1, y \in 1 .. pos - 1 :
                x < y /\ from[x] = keep[j] /\ from[y] = keep[k]
      BY <1>2, <1>6, <2>1, <3>1 DEF Kept
    <3>4. x \in 1 .. pos /\ y \in 1 .. pos
      BY <1>t
    <3> QED  BY <3>2, <3>3, <3>4
  <2>2. CASE k \notin 1 .. Len(keep)
    <3>1. /\ b \in missing /\ k = Len(keep) + 1 /\ j \in 1 .. Len(keep)
          /\ keep'[k] = b /\ keep'[j] = keep[j]
      <4>1. b \in missing
        BY <1>1, <1>6, <2>2
      <4>2. /\ Len(keep') = Len(keep) + 1 /\ keep'[Len(keep) + 1] = b
            /\ \A i \in 1 .. Len(keep) : keep'[i] = keep[i]
        BY <1>t, <1>1, <1>2, <4>1, AppendList
      <4>3. k = Len(keep) + 1 /\ j \in 1 .. Len(keep)
        BY <1>4, <1>6, <2>2, <4>2
      <4> QED  BY <4>1, <4>2, <4>3
    <3>2. PICK x \in 1 .. pos - 1 : from[x] = keep[j]
      <4>1. keep[j] \in InList(keep)
        BY <3>1 DEF InList
      <4> QED  BY <1>2, <4>1 DEF Kept
    <3>3. x \in 1 .. pos /\ pos \in 1 .. pos /\ x < pos
      BY <1>t
    <3> QED  BY <1>2, <3>1, <3>2, <3>3
  <2> QED  BY <2>1, <2>2
<1>7. TxType'
  BY <1>t, <1>1, <1>3 DEF TxType
<1>8. Keeping'
  <2>1. Considered' /\ asked'.TxMissing = from /\ missing' = missing
    BY <1>1, <1>2 DEF Considered, from
  <2>2. pos' - 1 = pos /\ pos' \in 1 .. Len(TxMissing') + 1
    BY <1>1, <1>2
  <2>3. TxPending' = asked'.TxPending /\ TxMissing' = from
    BY <1>t, <1>1, <1>2 DEF Keeping
  <2>4. Kept(keep, asked.TxMissing, pos - 1)'
    <3>1. InList(keep') = {from[a] : a \in 1 .. pos} \cap missing'
      BY <1>5, <2>1
    <3>2. InList(keep') = {asked'.TxMissing[a] : a \in 1 .. pos' - 1} \cap missing'
      BY <2>1, <2>2, <3>1
    <3>3. \A j, k \in 1 .. Len(keep') : j < k =>
                \E x, y \in 1 .. pos' - 1 : /\ x < y /\ asked'.TxMissing[x] = keep'[j]
                                           /\ asked'.TxMissing[y] = keep'[k]
      <4> SUFFICES ASSUME NEW j \in 1 .. Len(keep'), NEW k \in 1 .. Len(keep'), j < k
                   PROVE  \E x, y \in 1 .. pos' - 1 :
                            x < y /\ asked'.TxMissing[x] = keep'[j] /\ asked'.TxMissing[y] = keep'[k]
        OBVIOUS
      <4>1. PICK x \in 1 .. pos, y \in 1 .. pos : x < y /\ from[x] = keep'[j] /\ from[y] = keep'[k]
        BY <1>6
      <4>2. x \in 1 .. pos' - 1 /\ y \in 1 .. pos' - 1
        BY <2>2
      <4> QED  BY <2>1, <4>1, <4>2
    <3> QED  BY <3>2, <3>3 DEF Kept
  <2> QED  BY <2>1, <2>2, <2>3, <2>4 DEF Keeping
<1> QED  BY <1>1, <1>7, <1>8 DEF TxInv

LEMMA KeepEndsKeeps ==
    ASSUME TxInv, KeepEnds
    PROVE  TxInv'
<1> DEFINE from == asked.TxMissing
           full == Len(asked.TxMissing)
<1>t. /\ TxType /\ Keeping /\ asked \in Reports /\ keep \in Numbers /\ TxPending \in Numbers
      /\ from \in Numbers /\ full \in Nat
  BY ReportType, ListType DEF TxInv, TxType, KeepEnds
<1>1. /\ tx = "keep" /\ tx' = "echo" /\ TxMissing' = keep
      /\ (missing = {} \/ pos > Len(TxMissing))
      /\ pos' = pos /\ keep' = keep /\ missing' = missing /\ walkAt' = walkAt
      /\ asked' = asked /\ TxPending' = TxPending
      /\ TxBlocks' = TxBlocks /\ LastHeader' = LastHeader /\ frames' = frames
  BY DEF KeepEnds
<1>2. /\ Considered /\ TxMissing = from /\ TxPending = asked.TxPending
      /\ Kept(keep, from, pos - 1) /\ pos \in 1 .. full + 1
  BY <1>t DEF Keeping
<1>3. Kept(keep, from, full)
  <2>1. CASE missing = {}
    <3>1. InList(keep) = {}
      BY <1>2, <2>1 DEF Kept
    <3>2. keep = <<>> /\ Len(keep) = 0
      BY <1>t, <3>1, ListType
    <3> QED  BY <2>1, <3>1, <3>2 DEF Kept
  <2>2. CASE pos > Len(TxMissing)
    <3>1. pos - 1 = full
      BY <1>t, <1>2, <2>2
    <3> QED  BY <1>2, <3>1
  <2> QED  BY <1>1, <2>1, <2>2
<1>4. TxType'
  BY <1>t, <1>1 DEF TxType
<1>5. Echoing'
  <2>1. Considered' /\ Kept(TxMissing, asked.TxMissing, Len(asked.TxMissing))'
    <3>1. Considered'
      BY <1>1, <1>2 DEF Considered
    <3>2. Kept(keep, asked.TxMissing, Len(asked.TxMissing))
      BY <1>3
    <3>3. Kept(TxMissing, asked.TxMissing, Len(asked.TxMissing))'
      <4>1. InList(TxMissing)' = {from[a] : a \in 1 .. full} \cap missing'
        BY <1>1, <3>2 DEF Kept, InList
      <4>2. \A j, k \in 1 .. Len(TxMissing') : j < k =>
                \E a, b \in 1 .. full : a < b /\ from[a] = TxMissing'[j] /\ from[b] = TxMissing'[k]
        BY <1>1, <3>2 DEF Kept
      <4> QED  BY <1>1, <4>1, <4>2 DEF Kept
    <3> QED  BY <3>1, <3>3
  <2>2. asked.TxPending = From(asked.TxPending, 0 + 1) /\ Len(asked.TxPending) \in Nat
    BY <1>t, <1>2, SubSeqFull, ListType DEF From, Numbers
  <2>3. TxPending' = From(asked'.TxPending, 0 + 1) /\ 0 \in 0 .. Len(asked'.TxPending)
    BY <1>1, <1>2, <2>2
  <2>4. \A j \in 1 .. 0 : asked'.TxPending[j] # asked'.UrGoodHeader
    OBVIOUS
  <2> QED  BY <2>1, <2>3, <2>4 DEF Echoing
<1> QED  BY <1>1, <1>4, <1>5 DEF TxInv

\* What is left of a list behind its first places.
LEMMA FromList ==
    ASSUME NEW q \in Numbers, NEW k \in 1 .. Len(q) + 1
    PROVE  /\ From(q, k) \in Numbers /\ Len(From(q, k)) = Len(q) + 1 - k
           /\ From(q, k) = <<>> <=> k = Len(q) + 1
           /\ k <= Len(q) => Head(From(q, k)) = q[k] /\ Tail(From(q, k)) = From(q, k + 1)
           /\ From(q, 1) = q
<1>1. Len(q) \in Nat /\ \A i \in 1 .. Len(q) : q[i] \in Nbr
  BY ListType
<1>2. From(q, k) \in Numbers /\ Len(From(q, k)) = Len(q) + 1 - k
  <2>1. \A i \in k .. Len(q) : q[i] \in Nbr
    BY <1>1
  <2>2. /\ SubSeq(q, k, Len(q)) \in Seq(Nbr)
        /\ Len(SubSeq(q, k, Len(q))) = IF k <= Len(q) THEN Len(q) - k + 1 ELSE 0
    BY <1>1, <2>1, SubSeqProperties
  <2> QED  BY <1>1, <2>2 DEF From, Numbers
<1>3. From(q, k) = <<>> <=> k = Len(q) + 1
  BY <1>1, <1>2, ListType
<1>4. k <= Len(q) => Head(From(q, k)) = q[k] /\ Tail(From(q, k)) = From(q, k + 1)
  BY <1>1, HeadTailOfSubSeq DEF From, Numbers
<1>5. From(q, 1) = q
  BY SubSeqFull DEF From, Numbers
<1> QED  BY <1>2, <1>3, <1>4, <1>5

\* The first places of a list.
LEMMA FrontList ==
    ASSUME NEW q \in Numbers, NEW n \in 0 .. Len(q)
    PROVE  /\ SubSeq(q, 1, n) \in Numbers /\ Len(SubSeq(q, 1, n)) = n
           /\ \A i \in 1 .. n : SubSeq(q, 1, n)[i] = q[i]
           /\ SubSeq(q, 1, 0) = <<>> /\ SubSeq(q, 1, Len(q)) = q
           /\ n < Len(q) => Append(SubSeq(q, 1, n), q[n + 1]) = SubSeq(q, 1, n + 1)
<1>1. Len(q) \in Nat /\ n \in Nat /\ \A i \in 1 .. Len(q) : q[i] \in Nbr
  BY ListType
<1>2. /\ SubSeq(q, 1, n) \in Seq(Nbr) /\ Len(SubSeq(q, 1, n)) = n
      /\ \A i \in 1 .. n : SubSeq(q, 1, n)[i] = q[i]
  <2>1. \A i \in 1 .. n : q[i] \in Nbr
    BY <1>1
  <2>2. /\ SubSeq(q, 1, n) \in Seq(Nbr)
        /\ Len(SubSeq(q, 1, n)) = IF 1 <= n THEN n - 1 + 1 ELSE 0
        /\ \A i \in 1 .. n - 1 + 1 : SubSeq(q, 1, n)[i] = q[1 + i - 1]
    BY <1>1, <2>1, SubSeqProperties
  <2>3. n - 1 + 1 = n /\ \A i \in 1 .. n : 1 + i - 1 = i
    BY <1>1
  <2>4. Len(SubSeq(q, 1, n)) = n
    BY <1>1, <2>2
  <2> QED  BY <2>2, <2>3, <2>4
<1>3. SubSeq(q, 1, 0) = <<>> /\ SubSeq(q, 1, Len(q)) = q
  BY SubSeqEmpty, SubSeqFull DEF Numbers
<1>4. n < Len(q) => Append(SubSeq(q, 1, n), q[n + 1]) = SubSeq(q, 1, n + 1)
  <2> SUFFICES ASSUME n < Len(q)
               PROVE  Append(SubSeq(q, 1, n), q[n + 1]) = SubSeq(q, 1, n + 1)
    OBVIOUS
  <2>1. n + 1 \in 1 .. Len(q) /\ 1 \in 1 .. Len(q) /\ n + 1 \in 1 .. Len(q) /\ (n + 1) - 1 = n
    BY <1>1
  <2>2. q[n + 1] \in Nbr
    BY <1>1, <2>1
  <2>3. SubSeq(q, 1, n + 1) = SubSeq(q, 1, (n + 1) - 1) \o <<q[n + 1]>>
    BY <2>1, SubSeqRecursiveSecond DEF Numbers
  <2>4. Append(SubSeq(q, 1, n), q[n + 1]) = SubSeq(q, 1, n) \o <<q[n + 1]>>
    BY <1>2, <2>2, AppendIsConcat
  <2> QED  BY <2>1, <2>3, <2>4
<1> QED  BY <1>2, <1>3, <1>4 DEF Numbers

LEMMA BlocksType ==
    ASSUME NEW q \in Numbers
    PROVE  /\ Blocks(q) \in Seq([nbr : Nbr]) /\ Len(Blocks(q)) = Len(q)
           /\ \A k \in 1 .. Len(q) : Blocks(q)[k].nbr = q[k]
<1>1. Len(q) \in Nat /\ \A k \in 1 .. Len(q) : q[k] \in Nbr
  BY ListType
<1>2. Blocks(q) \in [1 .. Len(q) -> [nbr : Nbr]]
  BY <1>1 DEF Blocks
<1>3. Blocks(q) \in Seq([nbr : Nbr])
  BY <1>1, <1>2, SeqDef
<1> QED  BY <1>1, <1>2, <1>3 DEF Blocks

\* The count of the blocks echoed, known from where the echo stops.
LEMMA EchoedIs ==
    ASSUME NEW q \in Numbers, NEW urGood, NEW e \in 0 .. Len(q),
           \A j \in 1 .. e : q[j] # urGood
    PROVE  /\ e = Len(q) => Echoed(Blocks(q), urGood) = e
           /\ e < Len(q) /\ q[e + 1] = urGood => Echoed(Blocks(q), urGood) = e + 1
<1> DEFINE K == {k \in 1 .. Len(q) : \A j \in 1 .. k - 1 : q[j] # urGood}
<1>1. Len(q) \in Nat /\ e \in Nat
  BY ListType
<1>2. Echoed(Blocks(q), urGood) = Cardinality(K)
  <2>1. /\ Len(Blocks(q)) = Len(q)
        /\ \A k \in 1 .. Len(q) : Blocks(q)[k].nbr = q[k]
    BY BlocksType
  <2>2. \A k \in 1 .. Len(q) : \A j \in 1 .. k - 1 : j \in 1 .. Len(q)
    BY <1>1
  <2>3. K = {k \in 1 .. Len(Blocks(q)) : \A j \in 1 .. k - 1 : Blocks(q)[j].nbr # urGood}
    BY <2>1, <2>2
  <2> QED  BY <2>3 DEF Echoed
<1>3. e = Len(q) => K = 1 .. e
  BY <1>1
<1>4. e < Len(q) /\ q[e + 1] = urGood => K = 1 .. e + 1
  <2> SUFFICES ASSUME e < Len(q), q[e + 1] = urGood
               PROVE  K = 1 .. e + 1
    OBVIOUS
  <2>1. \A k \in 1 .. e + 1 : k \in 1 .. Len(q) /\ \A j \in 1 .. k - 1 : j \in 1 .. e
    BY <1>1
  <2>2. \A k \in 1 .. Len(q) : k \notin 1 .. e + 1 => e + 1 \in 1 .. k - 1
    BY <1>1
  <2> QED  BY <2>1, <2>2
<1>5. Cardinality(1 .. e) = e /\ Cardinality(1 .. e + 1) = e + 1
  BY <1>1, FS_Interval
<1> QED  BY <1>2, <1>3, <1>4, <1>5

\* What was kept of TxMissing stays kept while nobody touches it.
LEMMA KeptSame ==
    ASSUME TxMissing' = TxMissing, missing' = missing, asked' = asked,
           Kept(TxMissing, asked.TxMissing, Len(asked.TxMissing))
    PROVE  Kept(TxMissing, asked.TxMissing, Len(asked.TxMissing))'
<1> DEFINE K(list, from, nbrs) ==
               /\ InList(list) = {from[a] : a \in 1 .. Len(from)} \cap nbrs
               /\ \A j, k \in 1 .. Len(list) : j < k =>
                       \E a, b \in 1 .. Len(from) :
                           a < b /\ from[a] = list[j] /\ from[b] = list[k]
<1>1. K(TxMissing, asked.TxMissing, missing)
  BY DEF Kept
<1>2. K(TxMissing', asked'.TxMissing, missing') =>
          Kept(TxMissing, asked.TxMissing, Len(asked.TxMissing))'
  BY DEF Kept, InList
<1> HIDE DEF K
<1>3. K(TxMissing', asked'.TxMissing, missing')
  BY <1>1
<1> QED  BY <1>2, <1>3

LEMMA EchoTurnKeeps ==
    ASSUME TxInv, EchoTurn
    PROVE  TxInv'
<1> DEFINE q == asked.TxPending
           urGood == asked.UrGoodHeader
<1>t. /\ TxType /\ Echoing /\ asked \in Reports /\ TxPending \in Numbers
      /\ q \in Numbers /\ Len(q) \in Nat /\ asked \notin Queues
  BY ReportType, ListType DEF TxInv, TxType, EchoTurn
<1>1. /\ tx = "echo" /\ TxPending # <<>> /\ TxPending' = Tail(TxPending)
      /\ tx' = IF Head(TxPending) = urGood THEN "done" ELSE "echo"
      /\ pos' = pos /\ keep' = keep /\ missing' = missing /\ walkAt' = walkAt
      /\ asked' = asked /\ TxMissing' = TxMissing
      /\ TxBlocks' = TxBlocks /\ LastHeader' = LastHeader /\ frames' = frames
  BY DEF EchoTurn
<1>2. PICK e \in 0 .. Len(q) : TxPending = From(q, e + 1) /\ \A j \in 1 .. e : q[j] # urGood
  BY <1>t DEF Echoing
<1> HIDE DEF q, urGood
<1>3. /\ e \in Nat /\ e < Len(q) /\ Head(TxPending) = q[e + 1]
      /\ TxPending' = From(q, (e + 1) + 1)
  <2>1. e + 1 \in 1 .. Len(q) + 1 /\ e \in Nat
    BY <1>t, <1>2
  <2>2. e + 1 # Len(q) + 1
    BY <1>t, <1>1, <1>2, <2>1, FromList
  <2>3. e + 1 <= Len(q) /\ e < Len(q)
    BY <1>t, <2>1, <2>2
  <2> QED  BY <1>t, <1>1, <1>2, <2>1, <2>3, FromList
<1>4. TxType'
  <2>1. TxPending' \in Numbers
    BY <1>t, <1>1, TailList
  <2> QED  BY <1>t, <1>1, <2>1 DEF TxType
<1>5. Considered' /\ Kept(TxMissing, asked.TxMissing, Len(asked.TxMissing))'
  <2>1. Considered /\ Kept(TxMissing, asked.TxMissing, Len(asked.TxMissing))
    BY <1>t DEF Echoing
  <2>2. Considered'
    BY <1>1, <2>1 DEF Considered
  <2>3. Kept(TxMissing, asked.TxMissing, Len(asked.TxMissing))'
    <3>1. TxMissing' = TxMissing /\ missing' = missing /\ asked' = asked
      BY <1>1
    <3> QED  BY <2>1, <3>1, KeptSame
  <2> QED  BY <2>2, <2>3
<1>6. CASE q[e + 1] = urGood
  <2>1. Echoed(Blocks(q), urGood) = e + 1
    BY <1>t, <1>2, <1>3, <1>6, EchoedIs
  <2>2. TxPending' = From(asked'.TxPending, Echoed(Blocks(asked'.TxPending), asked'.UrGoodHeader) + 1)
    BY <1>1, <1>3, <2>1 DEF q, urGood
  <2>3. tx' = "done" /\ asked' \in Reports /\ asked' \notin Queues
    BY <1>t, <1>1, <1>3, <1>6
  <2> QED  BY <1>4, <1>5, <2>2, <2>3 DEF TxInv
<1>7. CASE q[e + 1] # urGood
  <2>1. tx' = "echo"
    BY <1>1, <1>3, <1>7
  <2>2. e + 1 \in 0 .. Len(q) /\ \A j \in 1 .. e + 1 : j \in 1 .. e \/ j = e + 1
    BY <1>t, <1>3
  <2>3. \A j \in 1 .. e + 1 : q[j] # urGood
    BY <1>2, <1>7, <2>2
  <2>4. Echoing'
    BY <1>1, <1>3, <1>5, <2>2, <2>3 DEF Echoing, q, urGood
  <2> QED  BY <1>4, <2>1, <2>4 DEF TxInv
<1> QED  BY <1>6, <1>7

LEMMA EchoEndsKeeps ==
    ASSUME TxInv, EchoEnds
    PROVE  TxInv'
<1> DEFINE q == asked.TxPending
           urGood == asked.UrGoodHeader
<1>t. /\ TxType /\ Echoing /\ asked \in Reports /\ TxPending \in Numbers
      /\ q \in Numbers /\ Len(q) \in Nat /\ asked \notin Queues
  BY ReportType, ListType DEF TxInv, TxType, EchoEnds
<1>1. /\ tx = "echo" /\ TxPending = <<>> /\ TxPending' = TxPending /\ tx' = "done"
      /\ pos' = pos /\ keep' = keep /\ missing' = missing /\ walkAt' = walkAt
      /\ asked' = asked /\ TxMissing' = TxMissing
      /\ TxBlocks' = TxBlocks /\ LastHeader' = LastHeader /\ frames' = frames
  BY DEF EchoEnds
<1>2. PICK e \in 0 .. Len(q) : TxPending = From(q, e + 1) /\ \A j \in 1 .. e : q[j] # urGood
  BY <1>t DEF Echoing
<1> HIDE DEF q, urGood
<1>3. e + 1 \in 1 .. Len(q) + 1 /\ e \in Nat
  BY <1>t, <1>2
<1>4. e + 1 = Len(q) + 1
  BY <1>t, <1>1, <1>2, <1>3, FromList
<1>5. Echoed(Blocks(q), urGood) = e
  BY <1>t, <1>2, <1>3, <1>4, EchoedIs
<1>6. TxPending' = From(asked'.TxPending, Echoed(Blocks(asked'.TxPending), asked'.UrGoodHeader) + 1)
  BY <1>1, <1>2, <1>5 DEF q, urGood
<1>7. Considered' /\ Kept(TxMissing, asked.TxMissing, Len(asked.TxMissing))'
  <2>1. Considered /\ Kept(TxMissing, asked.TxMissing, Len(asked.TxMissing))
    BY <1>t DEF Echoing
  <2>2. Considered'
    BY <1>1, <2>1 DEF Considered
  <2>3. Kept(TxMissing, asked.TxMissing, Len(asked.TxMissing))'
    BY <1>1, <2>1, KeptSame
  <2> QED  BY <2>2, <2>3
<1>8. TxType'
  BY <1>t, <1>1 DEF TxType
<1> QED  BY <1>t, <1>1, <1>6, <1>7, <1>8 DEF TxInv

---------------------------------------------------------------------------
(* sendblocks *)

LEMMA RepeatTurnKeeps ==
    ASSUME TxInv, RepeatTurn
    PROVE  TxInv'
<1>t. TxType /\ Repeating /\ TxMissing \in Numbers /\ frames \in Numbers /\ pos \in Nat \ {0}
  BY DEF TxInv, TxType, RepeatTurn
<1>1. /\ tx = "repeat" /\ tx' = "repeat" /\ pos <= Len(TxMissing)
      /\ frames' = Append(frames, TxMissing[pos]) /\ pos' = pos + 1
      /\ keep' = keep /\ missing' = missing /\ walkAt' = walkAt
      /\ asked' = asked /\ TxMissing' = TxMissing /\ TxPending' = TxPending
      /\ TxBlocks' = TxBlocks /\ LastHeader' = LastHeader
  BY DEF RepeatTurn
<1>2. /\ Len(TxMissing) \in Nat /\ pos \in 1 .. Len(TxMissing)
      /\ TxMissing[pos] \in Nbr
  BY <1>t, <1>1, ListType
<1>3. frames = SubSeq(TxMissing, 1, pos - 1)
  BY <1>t DEF Repeating
<1>4. frames' = SubSeq(TxMissing, 1, pos)
  <2>1. pos - 1 \in 0 .. Len(TxMissing) /\ pos - 1 < Len(TxMissing) /\ (pos - 1) + 1 = pos
    BY <1>t, <1>2
  <2>2. Append(SubSeq(TxMissing, 1, pos - 1), TxMissing[(pos - 1) + 1])
            = SubSeq(TxMissing, 1, (pos - 1) + 1)
    BY <1>t, <2>1, FrontList
  <2> QED  BY <1>1, <1>3, <2>1, <2>2
<1>5. TxType'
  <2>1. frames' \in Numbers
    BY <1>t, <1>1, <1>2, AppendList
  <2> QED  BY <1>t, <1>1, <2>1 DEF TxType
<1>6. Repeating'
  <2>1. pos' \in 1 .. Len(TxMissing') + 1 /\ pos' - 1 = pos
    BY <1>1, <1>2
  <2> QED  BY <1>t, <1>1, <1>4, <2>1 DEF Repeating
<1> QED  BY <1>1, <1>5, <1>6 DEF TxInv

LEMMA RepeatEndsKeeps ==
    ASSUME TxInv, RepeatEnds
    PROVE  TxInv'
<1> DEFINE q == asked.TxBlocks
<1>t. /\ TxType /\ Repeating /\ asked \in Queues /\ TxMissing \in Numbers
      /\ TxPending \in Numbers /\ TxBlocks \in Numbers /\ q \in Numbers /\ Len(q) \in Nat
  BY QueueType, ListType DEF TxInv, TxType, RepeatEnds
<1>1. /\ tx = "repeat" /\ tx' = "send" /\ pos > Len(TxMissing)
      /\ frames' = frames /\ pos' = pos
      /\ keep' = keep /\ missing' = missing /\ walkAt' = walkAt
      /\ asked' = asked /\ TxMissing' = TxMissing /\ TxPending' = TxPending
      /\ TxBlocks' = TxBlocks /\ LastHeader' = LastHeader
  BY DEF RepeatEnds
<1>2. /\ TxMissing = asked.TxMissing /\ TxPending = asked.TxPending
      /\ TxBlocks = q /\ LastHeader = asked.LastHeader
      /\ pos \in 1 .. Len(TxMissing) + 1 /\ frames = SubSeq(TxMissing, 1, pos - 1)
  BY <1>t DEF Repeating
<1>3. pos - 1 = Len(TxMissing)
  BY <1>t, <1>1, <1>2, ListType
<1>4. frames = TxMissing
  BY <1>t, <1>2, <1>3, SubSeqFull DEF Numbers
<1>5. TxType'
  BY <1>t, <1>1 DEF TxType
<1>6. Sent(0)'
  <2>1. SubSeq(q, 1, 0) = <<>> /\ From(q, 0 + 1) = q
    <3>1. 0 \in 0 .. Len(q) /\ 1 \in 1 .. Len(q) + 1
      BY <1>t
    <3> QED  BY <1>t, <3>1, FrontList, FromList
  <2>2. TxMissing \o <<>> = TxMissing /\ TxPending \o <<>> = TxPending
    BY <1>t, ConcatEmptySeq DEF Numbers
  <2> QED  BY <1>1, <1>2, <1>4, <2>1, <2>2 DEF Sent
<1>7. Sending'
  <2>1. 0 \in 0 .. Len(asked'.TxBlocks)
    BY <1>t, <1>1
  <2>2. 1 .. 0 = {}
    OBVIOUS
  <2> QED  BY <1>6, <2>1, <2>2 DEF Sending
<1> QED  BY <1>1, <1>5, <1>7 DEF TxInv

\* A block goes to the end of lists that were put together.
LEMMA AppendToConcat ==
    ASSUME NEW s \in Numbers, NEW t \in Numbers, NEW n \in Nbr
    PROVE  /\ Append(s \o t, n) = s \o Append(t, n)
           /\ s \o t \in Numbers /\ Len(s \o t) = Len(s) + Len(t)
<1>1. s \o t \in Seq(Nbr) /\ <<n>> \in Seq(Nbr) /\ Len(s \o t) = Len(s) + Len(t)
  BY ConcatProperties DEF Numbers
<1>2. Append(s \o t, n) = (s \o t) \o <<n>> /\ Append(t, n) = t \o <<n>>
  BY <1>1, AppendIsConcat DEF Numbers
<1>3. (s \o t) \o <<n>> = s \o (t \o <<n>>)
  BY <1>1, ConcatAssociative DEF Numbers
<1> QED  BY <1>1, <1>2, <1>3 DEF Numbers

LEMMA SendTurnKeeps ==
    ASSUME TxInv, SendTurn
    PROVE  TxInv'
<1> DEFINE q == asked.TxBlocks
           b == Head(TxBlocks)
           new(n) == SubSeq(q, 1, n)
<1>t. /\ TxType /\ Sending /\ asked \in Queues /\ TxMissing \in Numbers
      /\ TxPending \in Numbers /\ TxBlocks \in Numbers /\ frames \in Numbers
      /\ q \in Numbers /\ Len(q) \in Nat
      /\ asked.TxMissing \in Numbers /\ asked.TxPending \in Numbers
  BY QueueType, ListType DEF TxInv, TxType, SendTurn
<1>1. /\ tx = "send" /\ tx' = "send" /\ TxBlocks # <<>>
      /\ Len(frames) < MaxHeaders /\ ~WindowFull(b, asked.UrGoodHeader)
      /\ TxBlocks' = Tail(TxBlocks) /\ TxMissing' = Append(TxMissing, b)
      /\ TxPending' = Append(TxPending, b) /\ frames' = Append(frames, b)
      /\ LastHeader' = b
      /\ pos' = pos /\ keep' = keep /\ missing' = missing /\ walkAt' = walkAt
      /\ asked' = asked
  BY DEF SendTurn, Fits
<1>2. PICK n \in 0 .. Len(q) :
            /\ Sent(n)
            /\ \A k \in 1 .. n : /\ Len(asked.TxMissing) + k <= MaxHeaders
                                 /\ ~WindowFull(q[k], asked.UrGoodHeader)
  BY <1>t DEF Sending
<1>3. /\ frames = asked.TxMissing \o new(n) /\ TxMissing = asked.TxMissing \o new(n)
      /\ TxPending = asked.TxPending \o new(n) /\ TxBlocks = From(q, n + 1)
  BY <1>2 DEF Sent
<1>4. b \in Nbr /\ Tail(TxBlocks) \in Numbers
  BY <1>t, <1>1, TailList
<1> HIDE DEF q, b, new
<1>5. n < Len(q) /\ b = q[n + 1] /\ Tail(TxBlocks) = From(q, (n + 1) + 1) /\ n \in Nat
  <2>1. n + 1 \in 1 .. Len(q) + 1 /\ n \in Nat
    BY <1>t, <1>2
  <2>2. n + 1 # Len(q) + 1
    BY <1>t, <1>1, <1>3, <2>1, FromList
  <2>3. n + 1 <= Len(q) /\ n < Len(q)
    BY <1>t, <2>1, <2>2
  <2> QED  BY <1>t, <1>3, <2>1, <2>3, FromList DEF b
<1>6. /\ new(n) \in Numbers /\ Len(new(n)) = n /\ Append(new(n), b) = new(n + 1)
      /\ new(n + 1)[n + 1] = b
  <2>1. n + 1 \in 0 .. Len(q) /\ n + 1 \in 1 .. n + 1
    BY <1>t, <1>5
  <2> QED  BY <1>t, <1>2, <1>5, <2>1, FrontList DEF new
<1>c. \A s \in Numbers : /\ Append(s \o new(n), b) = s \o new(n + 1)
                         /\ Len(s \o new(n)) = Len(s) + n
  <2> TAKE s \in Numbers
  <2>1. /\ Append(s \o new(n), b) = s \o Append(new(n), b)
        /\ Len(s \o new(n)) = Len(s) + Len(new(n))
    BY <1>4, <1>6, AppendToConcat
  <2> QED  BY <1>6, <2>1
<1>7. /\ frames' = asked.TxMissing \o new(n + 1) /\ TxMissing' = asked.TxMissing \o new(n + 1)
      /\ TxPending' = asked.TxPending \o new(n + 1)
  BY <1>t, <1>1, <1>3, <1>c
<1>8. TxType'
  <2>1. frames' \in Numbers /\ TxMissing' \in Numbers /\ TxPending' \in Numbers
    BY <1>t, <1>1, <1>4, AppendList
  <2> QED  BY <1>t, <1>1, <1>4, <2>1 DEF TxType
<1>9. Sent(n + 1)'
  <2>1. LastHeader' = new(n + 1)[n + 1] /\ n + 1 # 0
    BY <1>1, <1>5, <1>6
  <2> QED  BY <1>1, <1>5, <1>7, <2>1 DEF Sent, new, q
<1>10. Sending'
  <2>1. n + 1 \in 0 .. Len(q)
    BY <1>t, <1>5
  <2>2. Len(asked.TxMissing) + (n + 1) <= MaxHeaders
    <3>1. Len(frames) = Len(asked.TxMissing) + n
      BY <1>t, <1>3, <1>c
    <3>2. Len(asked.TxMissing) \in Nat /\ MaxHeaders \in Nat
      BY <1>t, LoopsAssumption, ListType
    <3>3. Len(asked.TxMissing) + n < MaxHeaders
      BY <1>1, <3>1
    <3>4. \A m, h \in Nat : m + n < h => m + (n + 1) <= h
      BY <1>5
    <3> QED  BY <3>2, <3>3, <3>4
  <2>3. \A k \in 1 .. n + 1 : k \in 1 .. n \/ k = n + 1
    BY <1>5
  <2>4. \A k \in 1 .. n + 1 : /\ Len(asked.TxMissing) + k <= MaxHeaders
                              /\ ~WindowFull(q[k], asked.UrGoodHeader)
    BY <1>1, <1>2, <1>5, <2>2, <2>3
  <2> QED  BY <1>1, <1>9, <2>1, <2>4 DEF Sending, q
<1> QED  BY <1>1, <1>8, <1>10 DEF TxInv

\* The count of the blocks sent, known from where the loop stops.
LEMMA NewBlocksIs ==
    ASSUME NEW q \in Numbers, NEW repeats \in Nat, NEW urGood, NEW n \in 0 .. Len(q),
           \A k \in 1 .. n : repeats + k <= MaxHeaders /\ ~WindowFull(q[k], urGood),
           \/ n = Len(q)
           \/ ~(repeats + n < MaxHeaders)
           \/ WindowFull(q[n + 1], urGood)
    PROVE  NewBlocks(Blocks(q), repeats, MaxHeaders, urGood) = n
<1> DEFINE K == {k \in 1 .. Len(q) : /\ repeats + k <= MaxHeaders
                                     /\ \A j \in 1 .. k : ~WindowFull(q[j], urGood)}
<1>1. Len(q) \in Nat /\ n \in Nat /\ MaxHeaders \in Nat
  BY ListType, LoopsAssumption
<1>2. NewBlocks(Blocks(q), repeats, MaxHeaders, urGood) = Cardinality(K)
  <2>1. /\ Len(Blocks(q)) = Len(q)
        /\ \A k \in 1 .. Len(q) : Blocks(q)[k].nbr = q[k]
    BY BlocksType
  <2>2. \A k \in 1 .. Len(q) : \A j \in 1 .. k : j \in 1 .. Len(q)
    BY <1>1
  <2>3. K = {k \in 1 .. Len(Blocks(q)) :
                /\ repeats + k <= MaxHeaders
                /\ \A j \in 1 .. k : ~WindowFull(Blocks(q)[j].nbr, urGood)}
    BY <2>1, <2>2
  <2> QED  BY <2>3 DEF NewBlocks
<1>3. 1 .. n \subseteq K
  <2>1. \A k \in 1 .. n : k \in 1 .. Len(q) /\ \A j \in 1 .. k : j \in 1 .. n
    BY <1>1
  <2> QED  BY <2>1
<1>4. K \subseteq 1 .. n
  <2> SUFFICES ASSUME NEW k \in 1 .. Len(q), k > n, repeats + k <= MaxHeaders,
                      \A j \in 1 .. k : ~WindowFull(q[j], urGood)
               PROVE  FALSE
    BY <1>1
  <2>1. n + 1 \in 1 .. k /\ n # Len(q) /\ repeats + n < MaxHeaders
    BY <1>1
  <2> QED  BY <2>1
<1>5. Cardinality(1 .. n) = n
  BY <1>1, FS_Interval
<1> QED  BY <1>2, <1>3, <1>4, <1>5

LEMMA SendEndsKeeps ==
    ASSUME TxInv, SendEnds
    PROVE  TxInv'
<1> DEFINE q == asked.TxBlocks
           repeats == Len(asked.TxMissing)
           urGood == asked.UrGoodHeader
           new(n) == SubSeq(q, 1, n)
<1>t. /\ TxType /\ Sending /\ asked \in Queues /\ asked \notin Reports
      /\ TxBlocks \in Numbers /\ q \in Numbers /\ Len(q) \in Nat
      /\ asked.TxMissing \in Numbers /\ repeats \in Nat
  BY QueueType, ListType DEF TxInv, TxType, SendEnds
<1>1. /\ tx = "send" /\ tx' = "done" /\ ~Fits
      /\ TxBlocks' = TxBlocks /\ TxMissing' = TxMissing /\ TxPending' = TxPending
      /\ frames' = frames /\ LastHeader' = LastHeader
      /\ pos' = pos /\ keep' = keep /\ missing' = missing /\ walkAt' = walkAt
      /\ asked' = asked
  BY DEF SendEnds
<1>2. PICK n \in 0 .. Len(q) :
            /\ Sent(n)
            /\ \A k \in 1 .. n : repeats + k <= MaxHeaders /\ ~WindowFull(q[k], urGood)
  BY <1>t DEF Sending
<1>3. frames = asked.TxMissing \o new(n) /\ TxBlocks = From(q, n + 1)
  BY <1>2 DEF Sent
<1>4. Sent(n)'
  BY <1>1, <1>2 DEF Sent
<1> HIDE DEF q, new
<1>5. n + 1 \in 1 .. Len(q) + 1 /\ n \in Nat
  BY <1>t, <1>2
<1>6. Len(frames) = repeats + n
  <2>1. new(n) \in Numbers /\ Len(new(n)) = n
    BY <1>t, <1>2, FrontList DEF new
  <2>2. 0 \in Nbr
    BY MaxCountAssumption DEF Nbr
  <2> HIDE DEF repeats
  <2> QED  BY <1>t, <1>3, <2>1, <2>2, AppendToConcat DEF repeats
<1>7. \/ n = Len(q)
      \/ ~(repeats + n < MaxHeaders)
      \/ WindowFull(q[n + 1], urGood)
  <2> SUFFICES ASSUME n # Len(q), repeats + n < MaxHeaders
               PROVE  WindowFull(q[n + 1], urGood)
    OBVIOUS
  <2>1. n + 1 <= Len(q) /\ n + 1 # Len(q) + 1
    BY <1>t, <1>5
  <2>2. TxBlocks # <<>> /\ Head(TxBlocks) = q[n + 1]
    BY <1>t, <1>3, <1>5, <2>1, FromList
  <2> QED  BY <1>1, <1>6, <2>2 DEF Fits
<1>8. NewBlocks(Blocks(q), repeats, MaxHeaders, urGood) = n
  <2> HIDE DEF repeats, urGood
  <2> QED  BY <1>t, <1>2, <1>7, NewBlocksIs
<1>9. Sent(NewBlocks(Blocks(asked.TxBlocks), Len(asked.TxMissing), MaxHeaders,
                     asked.UrGoodHeader))'
  BY <1>1, <1>4, <1>8 DEF q
<1>10. TxType'
  BY <1>t, <1>1 DEF TxType
<1> QED  BY <1>t, <1>1, <1>9, <1>10 DEF TxInv

---------------------------------------------------------------------------
(* The invariant of the loops *)

LEMMA TxInitHolds ==
    ASSUME TxInit
    PROVE  TxInv
<1>1. MaxCount - 1 \in Nbr /\ 1 \in 1 .. MaxCount
  BY MaxCountAssumption DEF Nbr
<1>2. <<>> \in Numbers /\ Len(<<>>) = 0 /\ InList(<<>>) = {}
  BY EmptySeq DEF Numbers, InList
<1>3. pos = 1 /\ keep = <<>> /\ frames = <<>>
  BY DEF TxInit
<1>4. CASE TxRest
  BY <1>1, <1>2, <1>3, <1>4 DEF TxRest, TxInv, TxType
<1>5. CASE StatusArrives
  <2>1. /\ asked \in Reports /\ TxMissing = asked.TxMissing /\ TxPending = asked.TxPending
        /\ TxBlocks = <<>> /\ LastHeader = asked.LastHeader /\ missing = asked.reported
        /\ walkAt = Fold(asked.UrEndHeader + 1)
        /\ tx = IF asked.UrEndHeader # asked.LastHeader THEN "walk" ELSE "keep"
    BY <1>5 DEF StatusArrives
  <2> DEFINE ur == asked.UrEndHeader
  <2>2. /\ TxMissing \in Numbers /\ TxPending \in Numbers /\ LastHeader \in Nbr
        /\ ur \in Nbr /\ missing \in SUBSET Nbr /\ asked \notin Queues
    BY <2>1, ReportType
  <2>3. walkAt = 1 + (ur % MaxCount) /\ walkAt \in 1 .. MaxCount
    <3>1. ur % MaxCount = ur /\ Fold(ur + 1) = ur + 1
      BY <2>2, FoldNear, MaxCountAssumption DEF Nbr, Fold
    <3> QED  BY <2>1, <2>2, <3>1, MaxCountAssumption DEF Nbr
  <2>4. TxType
    <3>1. missing \in SUBSET (0 .. MaxCount)
      BY <2>2, MaxCountAssumption DEF Nbr
    <3> QED  BY <1>2, <1>3, <2>1, <2>2, <2>3, <3>1 DEF TxType
  <2>5. CASE ur # asked.LastHeader
    <3>1. ASSUME LastHeader # 0
          PROVE  0 \in 0 .. Offset(LastHeader - 1, ur)
      <4>1. LastHeader - 1 \in Nbr
        BY <2>2, <3>1, MaxCountAssumption DEF Nbr
      <4> QED  BY <2>2, <4>1, OffsetStep, MaxCountAssumption
    <3>2. {1 + ((ur + k) % MaxCount) : k \in 0 .. 0 - 1} = {} /\ ur + 0 = ur
      BY <2>2 DEF Nbr
    <3>3. Walking
      BY <1>3, <2>1, <2>3, <2>5, <3>1, <3>2 DEF Walking
    <3> QED  BY <2>1, <2>4, <2>5, <3>3 DEF TxInv
  <2>6. CASE ur = asked.LastHeader
    <3>1. Considered
      BY <2>1, <2>6 DEF Considered, WalkNeverEnds, ConsideredMissing, Walk
    <3>2. pos \in 1 .. Len(TxMissing) + 1
      BY <1>3, <2>2, ListType
    <3>3. Kept(keep, asked.TxMissing, pos - 1)
      BY <1>2, <1>3 DEF Kept
    <3>4. Keeping
      BY <2>1, <3>1, <3>2, <3>3 DEF Keeping
    <3> QED  BY <2>1, <2>4, <2>6, <3>4 DEF TxInv
  <2> QED  BY <2>5, <2>6
<1>6. CASE SendBegins
  <2>1. /\ asked \in Queues /\ TxMissing = asked.TxMissing /\ TxPending = asked.TxPending
        /\ TxBlocks = asked.TxBlocks /\ LastHeader = asked.LastHeader /\ missing = {}
        /\ walkAt = 1 /\ tx = "repeat"
    BY <1>6 DEF SendBegins
  <2>2. /\ TxMissing \in Numbers /\ TxPending \in Numbers /\ TxBlocks \in Numbers
        /\ LastHeader \in Nbr
    BY <2>1, QueueType
  <2>3. TxType
    BY <1>1, <1>2, <1>3, <2>1, <2>2 DEF TxType
  <2>4. pos \in 1 .. Len(TxMissing) + 1
    BY <1>3, <2>2, ListType
  <2>5. frames = SubSeq(TxMissing, 1, pos - 1)
    <3>1. 0 \in 0 .. Len(TxMissing)
      BY <2>2, ListType
    <3>2. SubSeq(TxMissing, 1, 0) = <<>>
      BY <2>2, <3>1, FrontList
    <3> QED  BY <1>3, <3>2
  <2>6. Repeating
    BY <2>1, <2>4, <2>5 DEF Repeating
  <2> QED  BY <2>1, <2>3, <2>6 DEF TxInv
<1> QED  BY <1>4, <1>5, <1>6 DEF TxInit

LEMMA TxNextKeeps ==
    ASSUME TxInv, TxTurn \/ UNCHANGED txVars
    PROVE  TxInv'
<1>1. CASE UNCHANGED txVars
  <2>0. /\ tx' = tx /\ asked' = asked /\ TxMissing' = TxMissing /\ TxPending' = TxPending
        /\ TxBlocks' = TxBlocks /\ LastHeader' = LastHeader /\ missing' = missing
        /\ walkAt' = walkAt /\ pos' = pos /\ keep' = keep /\ frames' = frames
    BY <1>1 DEF txVars
  <2>1. TxType'
    BY <2>0 DEF TxInv, TxType
  <2>2. (tx = "walk" => Walking)'
    BY <2>0 DEF TxInv, Walking
  <2>3. (tx = "keep" => Keeping)'
    BY <2>0 DEF TxInv, Keeping, Considered, Kept
  <2>4. (tx = "echo" => Echoing)'
    BY <2>0 DEF TxInv, Echoing, Considered, Kept
  <2>5. (tx = "repeat" => Repeating)'
    BY <2>0 DEF TxInv, Repeating
  <2>6. (tx = "send" => Sending)'
    BY <2>0 DEF TxInv, Sending, Sent
  <2>7. (tx = "done" /\ asked \in Queues =>
            Sent(NewBlocks(Blocks(asked.TxBlocks), Len(asked.TxMissing), MaxHeaders,
                           asked.UrGoodHeader)))'
    BY <2>0 DEF TxInv, Sent
  <2>8. (tx = "done" /\ asked \in Reports =>
            /\ Considered /\ Kept(TxMissing, asked.TxMissing, Len(asked.TxMissing))
            /\ TxPending = From(asked.TxPending,
                                Echoed(Blocks(asked.TxPending), asked.UrGoodHeader) + 1))'
    BY <2>0 DEF TxInv, Considered, Kept
  <2>9. (tx = "done" => asked \in Reports \cup Queues)'
    BY <2>0 DEF TxInv
  <2> QED  BY <2>1, <2>2, <2>3, <2>4, <2>5, <2>6, <2>7, <2>8, <2>9 DEF TxInv
<1> QED
  BY <1>1, WalkTurnKeeps, WalkEndsKeeps, KeepTurnKeeps, KeepEndsKeeps, EchoTurnKeeps,
     EchoEndsKeeps, RepeatTurnKeeps, RepeatEndsKeeps, SendTurnKeeps, SendEndsKeeps DEF TxTurn

\* The loops of the two sides keep their invariants, whatever blocks arrive, whatever the
\* report or the queue a call begins with.
THEOREM LoopsInvariant == LoopSpec => [](RxInv /\ TxInv)
<1>1. LoopInit => RxInv /\ TxInv
  BY RxInitHolds, TxInitHolds DEF LoopInit
<1>2. RxInv /\ TxInv /\ [LoopNext]_loopVars => (RxInv /\ TxInv)'
  <2> SUFFICES ASSUME RxInv, TxInv, [LoopNext]_loopVars
               PROVE  RxInv' /\ TxInv'
    OBVIOUS
  <2>1. CASE BlockArrives
    <3>1. UNCHANGED txVars
      BY <2>1 DEF BlockArrives
    <3> QED  BY <2>1, <3>1, RxNextKeeps, TxNextKeeps
  <2>2. CASE ParseDATATurn
    <3>1. UNCHANGED txVars
      BY <2>2 DEF ParseDATATurn, SortOuter, SortInner, SortNext, Sorted, Deliver, DeliverEnds,
                  GapsTurn, GapsEnd
    <3> QED  BY <2>2, <3>1, RxNextKeeps, TxNextKeeps
  <2>3. CASE TxTurn
    <3>1. UNCHANGED rxVars
      BY <2>3 DEF TxTurn, WalkTurn, WalkEnds, KeepTurn, KeepEnds, EchoTurn, EchoEnds,
                  RepeatTurn, RepeatEnds, SendTurn, SendEnds
    <3> QED  BY <2>3, <3>1, RxNextKeeps, TxNextKeeps
  <2>4. CASE UNCHANGED loopVars
    <3>1. UNCHANGED rxVars /\ UNCHANGED txVars
      BY <2>4 DEF loopVars
    <3> QED  BY <3>1, RxNextKeeps, TxNextKeeps
  <2> QED  BY <2>1, <2>2, <2>3, <2>4 DEF LoopNext
<1> QED  BY <1>1, <1>2, PTL DEF LoopSpec

\* Between two calls of parseDATA the pending blocks are in the order of delivery, though
\* the sort reads n1 once a turn: for every MaxCount and every order of arrival.
THEOREM PendingStaysInOrder == LoopSpec => []PendingInOrder
<1>1. RxInv /\ TxInv => PendingInOrder
  BY DEF RxInv
<1> QED  BY <1>1, LoopsInvariant, PTL

\* The loops of parseDATA leave what ArqBlocks defines of the set of pending blocks.
THEOREM ParseDataComputes == LoopSpec => []ParseDataAsLooped
<1>1. RxInv /\ TxInv => ParseDataAsLooped
  BY DEF RxInv
<1> QED  BY <1>1, LoopsInvariant, PTL

\* The walk and the search of parseSTATUS leave what ArqBlocks defines, and a walk to a
\* LastHeader of 0 does not come to its end.
THEOREM WalkComputes == LoopSpec => []WalkAsLooped
<1>1. RxInv /\ TxInv => WalkAsLooped
  <2> SUFFICES ASSUME TxInv, tx = "done", asked \in Reports
               PROVE  WalkAsLooped
    BY DEF WalkAsLooped
  <2> DEFINE from == asked.TxMissing
             considered == ConsideredMissing(asked.LastHeader, asked.UrEndHeader, asked.reported)
  <2>1. Considered /\ Kept(TxMissing, from, Len(from))
    BY DEF TxInv
  <2>2. InList(TxMissing) = InList(from) \cap considered
    BY <2>1 DEF Kept, Considered, InList
  <2>3. \A j, k \in 1 .. Len(TxMissing) : j < k =>
            \E a, b \in 1 .. Len(from) : a < b /\ from[a] = TxMissing[j] /\ from[b] = TxMissing[k]
    BY <2>1 DEF Kept
  <2>4. ~WalkNeverEnds(asked.LastHeader, asked.UrEndHeader) /\ missing = considered
    BY <2>1 DEF Considered
  <2> HIDE DEF considered
  <2>5. /\ ~WalkNeverEnds(asked.LastHeader, asked.UrEndHeader)
        /\ missing = considered
        /\ InList(TxMissing) = InList(asked.TxMissing) \cap considered
        /\ \A j, k \in 1 .. Len(TxMissing) : j < k =>
                \E a, b \in 1 .. Len(asked.TxMissing) :
                    /\ a < b
                    /\ asked.TxMissing[a] = TxMissing[j] /\ asked.TxMissing[b] = TxMissing[k]
    BY <2>2, <2>3, <2>4
  <2> QED  BY <2>5 DEF WalkAsLooped, considered
<1> QED  BY <1>1, LoopsInvariant, PTL

\* parseSTATUS echoes and sendblocks sends as many blocks as ArqBlocks counts, from the
\* front, in their order.
THEOREM QueuesCompute == LoopSpec => []QueuesAsLooped
<1>1. RxInv /\ TxInv => QueuesAsLooped
  <2> SUFFICES ASSUME TxInv, tx = "done"
               PROVE  QueuesAsLooped
    BY DEF QueuesAsLooped
  <2>1. CASE asked \in Reports
    BY <2>1 DEF TxInv, QueuesAsLooped
  <2>2. CASE asked \notin Reports
    <3>1. asked \in Queues
      BY <2>2 DEF TxInv
    <3>2. Sent(NewBlocks(Blocks(asked.TxBlocks), Len(asked.TxMissing), MaxHeaders,
                         asked.UrGoodHeader))
      BY <3>1 DEF TxInv
    <3> QED  BY <2>2, <3>2 DEF QueuesAsLooped, Sent
  <2> QED  BY <2>1, <2>2
<1> QED  BY <1>1, LoopsInvariant, PTL

\* Between calls the receiving side has what ArqBlocks defines, its list in order.
THEOREM ReceivingComputes == LoopSpec => []ReceivingAsLooped
<1>1. PendingInOrder /\ ParseDataAsLooped => ReceivingAsLooped
  BY DEF ReceivingAsLooped
<1> QED  BY <1>1, PendingStaysInOrder, ParseDataComputes, PTL

\* A call of the sending side that ends has done what ArqBlocks defines.
THEOREM SendingComputes == LoopSpec => []SendingAsLooped
<1>1. WalkAsLooped /\ QueuesAsLooped => SendingAsLooped
  BY DEF SendingAsLooped
<1> QED  BY <1>1, WalkComputes, QueuesCompute, PTL

---------------------------------------------------------------------------
(* Every turn leaves less to do *)

\* Each turn of parseDATA comes nearer to the end of the call.
LEMMA RxTurnFalls ==
    ASSUME RxInv, RxInv', ParseDATATurn
    PROVE  RxRank \in Ranks /\ RxRank' \in Ranks /\ Below(RxRank', RxRank)
<1>t. /\ RxType /\ RxPending \in Numbers /\ Len(RxPending) \in Nat /\ gapAt \in Nat
      /\ RxType' /\ RxPending' \in Numbers /\ Len(RxPending') \in Nat /\ gapAt' \in Nat
      /\ p1 \in Nat /\ p2 \in Nat
  BY ListType DEF RxInv, RxType
<1>1. CASE SortOuter
  <2>1. /\ rx = "outer" /\ rx' = "inner" /\ p1 < Len(RxPending) /\ p2' = p1 + 1
        /\ RxPending' = RxPending /\ p1' = p1
    BY <1>1 DEF SortOuter
  <2>2. /\ RxRank = <<3, Len(RxPending) + 1 - p1, 0>>
        /\ RxRank' = <<3, Len(RxPending) - p1, Len(RxPending) + 2 - (p1 + 1)>>
    BY <2>1 DEF RxRank
  <2>3. /\ Len(RxPending) + 1 - p1 \in Nat /\ Len(RxPending) - p1 \in Nat
        /\ Len(RxPending) + 2 - (p1 + 1) \in Nat
        /\ Len(RxPending) - p1 < Len(RxPending) + 1 - p1
    BY <1>t, <2>1
  <2> QED  BY <2>2, <2>3 DEF Ranks, Below
<1>2. CASE SortInner
  <2>1. /\ rx = "inner" /\ rx' = "inner" /\ p2 <= Len(RxPending) /\ p2' = p2 + 1
        /\ p1' = p1
    BY <1>2 DEF SortInner
  <2>2. p1 < Len(RxPending) /\ p1' < Len(RxPending')
    BY <2>1 DEF RxInv, SortingInner
  <2>3. Len(RxPending') = Len(RxPending)
    <3>1. CASE RxPending' = RxPending
      BY <3>1
    <3>2. CASE RxPending' = [RxPending EXCEPT ![p1] = RxPending[p2], ![p2] = RxPending[p1]]
      <4>1. DOMAIN RxPending' = DOMAIN RxPending
        BY <3>2
      <4> QED  BY <1>t, <4>1, ListType
    <3> QED  BY <1>2, <3>1, <3>2 DEF SortInner
  <2>4. /\ RxRank = <<3, Len(RxPending) - p1, Len(RxPending) + 2 - p2>>
        /\ RxRank' = <<3, Len(RxPending) - p1, Len(RxPending) + 2 - (p2 + 1)>>
    BY <2>1, <2>3 DEF RxRank
  <2>5. /\ Len(RxPending) - p1 \in Nat /\ Len(RxPending) + 2 - p2 \in Nat
        /\ Len(RxPending) + 2 - (p2 + 1) \in Nat
        /\ Len(RxPending) + 2 - (p2 + 1) < Len(RxPending) + 2 - p2
    BY <1>t, <2>1, <2>2
  <2> QED  BY <2>4, <2>5 DEF Ranks, Below
<1>3. CASE SortNext
  <2>1. /\ rx = "inner" /\ rx' = "outer" /\ p2 > Len(RxPending) /\ p1' = p1 + 1
        /\ RxPending' = RxPending
    BY <1>3 DEF SortNext
  <2>2. p1 < Len(RxPending) /\ p2 <= Len(RxPending) + 1
    BY <1>t, <2>1 DEF RxInv, SortingInner
  <2>3. /\ RxRank = <<3, Len(RxPending) - p1, Len(RxPending) + 2 - p2>>
        /\ RxRank' = <<3, Len(RxPending) + 1 - (p1 + 1), 0>>
    BY <2>1 DEF RxRank
  <2>4. /\ Len(RxPending) - p1 \in Nat /\ Len(RxPending) + 2 - p2 \in Nat
        /\ Len(RxPending) + 1 - (p1 + 1) = Len(RxPending) - p1
        /\ 0 < Len(RxPending) + 2 - p2
    BY <1>t, <2>1, <2>2
  <2> QED  BY <2>3, <2>4 DEF Ranks, Below
<1>4. CASE Sorted
  <2>1. rx = "outer" /\ rx' = "deliver" /\ RxPending' = RxPending
    BY <1>4 DEF Sorted
  <2>2. p1 <= Len(RxPending)
    BY <1>t, <2>1 DEF RxInv, Sorting
  <2>3. RxRank = <<3, Len(RxPending) + 1 - p1, 0>> /\ RxRank' = <<2, Len(RxPending), 0>>
    BY <2>1 DEF RxRank
  <2>4. Len(RxPending) + 1 - p1 \in Nat
    BY <1>t, <2>2
  <2> QED  BY <1>t, <2>3, <2>4 DEF Ranks, Below
<1>5. CASE Deliver
  <2>1. rx = "deliver" /\ rx' = "deliver" /\ RxPending # <<>> /\ RxPending' = Tail(RxPending)
    BY <1>5 DEF Deliver, Follows
  <2>2. Len(RxPending') = Len(RxPending) - 1
    BY <1>t, <2>1, TailList
  <2>3. RxRank = <<2, Len(RxPending), 0>> /\ RxRank' = <<2, Len(RxPending'), 0>>
    BY <2>1 DEF RxRank
  <2>4. Len(RxPending') < Len(RxPending)
    BY <1>t, <2>2
  <2> QED  BY <1>t, <2>3, <2>4 DEF Ranks, Below
<1>6. ASSUME GoodHeader \in Nbr, EndHeader \in Nbr
      PROVE  GapsStop \in Int
  <2>1. EndHeader + 1 \in Int
    BY <1>6 DEF Nbr
  <2>2. (EndHeader + 1) % MaxCount \in Nbr
    BY <2>1, FoldType
  <2> QED  BY <2>2, MaxCountAssumption DEF GapsStop, Nbr
<1>7. CASE DeliverEnds
  <2>1. /\ rx = "deliver" /\ rx' = (IF RxPending = <<>> THEN "rest" ELSE "gaps")
        /\ RxPending' = RxPending /\ GoodHeader' = GoodHeader /\ EndHeader' = EndHeader
    BY <1>7 DEF DeliverEnds
  <2>2. RxRank = <<2, Len(RxPending), 0>>
    BY <2>1 DEF RxRank
  <2>3. CASE RxPending = <<>>
    <3>1. RxRank' = <<0, 0, 0>>
      BY <2>1, <2>3 DEF RxRank
    <3> QED  BY <1>t, <2>2, <3>1 DEF Ranks, Below
  <2>4. CASE RxPending # <<>>
    <3>1. rx' = "gaps"
      BY <2>1, <2>4
    <3>2. GapsStop \in Int /\ GapsStop' = GapsStop
      BY <1>6, <1>t, <2>1 DEF RxType, GapsStop
    <3>3. RxRank' = <<1, GapsStop - gapAt', 0>>
      BY <3>1, <3>2 DEF RxRank
    <3>4. gapAt' <= GapsStop
      BY <3>1, <3>2 DEF RxInv, FindingGaps
    <3>5. GapsStop - gapAt' \in Nat
      <4>1. PICK g \in Nat : g = gapAt'
        BY <1>t
      <4>2. PICK h \in Int : h = GapsStop
        BY <3>2
      <4>3. g <= h
        BY <3>4, <4>1, <4>2
      <4>4. h - g \in Nat
        BY <4>3
      <4> QED  BY <4>1, <4>2, <4>4
    <3> QED  BY <1>t, <2>2, <3>3, <3>5 DEF Ranks, Below
  <2> QED  BY <2>3, <2>4
<1>8. CASE GapsTurn
  <2>1. /\ rx = "gaps" /\ rx' = "gaps" /\ gapAt < GapsStop /\ gapAt' = gapAt + 1
        /\ GoodHeader' = GoodHeader /\ EndHeader' = EndHeader
    BY <1>8 DEF GapsTurn
  <2>2. GapsStop \in Int /\ GapsStop' = GapsStop
    BY <1>6, <1>t, <2>1 DEF RxType, GapsStop
  <2>3. RxRank = <<1, GapsStop - gapAt, 0>> /\ RxRank' = <<1, GapsStop' - gapAt', 0>>
    BY <2>1 DEF RxRank
  <2>4. /\ GapsStop - gapAt \in Nat /\ GapsStop' - gapAt' \in Nat
        /\ GapsStop' - gapAt' < GapsStop - gapAt
    BY <1>t, <2>1, <2>2
  <2> QED  BY <2>3, <2>4 DEF Ranks, Below
<1>9. CASE GapsEnd
  <2>1. rx = "gaps" /\ rx' = "rest"
    BY <1>9 DEF GapsEnd
  <2>2. RxRank = <<1, GapsStop - gapAt, 0>> /\ RxRank' = <<0, 0, 0>>
    BY <2>1 DEF RxRank
  <2>3. gapAt <= GapsStop /\ GapsStop \in Int
    BY <1>6, <1>t, <2>1 DEF RxInv, RxType, FindingGaps
  <2>4. GapsStop - gapAt \in Nat
    BY <1>t, <2>3
  <2> QED  BY <2>2, <2>4 DEF Ranks, Below
<1> QED
  BY <1>1, <1>2, <1>3, <1>4, <1>5, <1>7, <1>8, <1>9 DEF ParseDATATurn

\* On its way round to LastHeader, which is not 0, the counter of the walk comes nearer
\* with every turn.
LEMMA WalkComesNearer ==
    ASSUME NEW m \in 1 .. MaxCount, NEW last \in 1 .. MaxCount - 1, m # last
    PROVE  /\ Offset(last, m) \in Nat /\ Offset(last, Fold(m + 1)) \in Nat
           /\ Offset(last, Fold(m + 1)) < Offset(last, m)
<1>1. CASE m < last
  <2>1. Fold(m + 1) = m + 1
    BY <1>1, MaxCountAssumption DEF Fold
  <2>2. Offset(last, m) = last - m /\ Offset(last, m + 1) = last - (m + 1)
    BY <1>1, FoldNear, MaxCountAssumption DEF Offset
  <2> QED  BY <1>1, <2>1, <2>2, MaxCountAssumption
<1>2. CASE m > last /\ m # MaxCount
  <2>1. Fold(m + 1) = m + 1
    BY <1>2, MaxCountAssumption DEF Fold
  <2>2. /\ Offset(last, m) = last - m + MaxCount
        /\ Offset(last, m + 1) = last - (m + 1) + MaxCount
    BY <1>2, FoldNear, MaxCountAssumption DEF Offset
  <2> QED  BY <1>2, <2>1, <2>2, MaxCountAssumption
<1>3. CASE m = MaxCount
  <2>1. Fold(m + 1) = 1
    BY <1>3, MaxCountAssumption DEF Fold
  <2>2. Offset(last, m) = last /\ Offset(last, 1) = last - 1
    BY <1>3, FoldNear, MaxCountAssumption DEF Offset
  <2> QED  BY <2>1, <2>2, MaxCountAssumption
<1> QED  BY <1>1, <1>2, <1>3, MaxCountAssumption

\* Each turn of parseSTATUS and of sendblocks comes nearer to the end of the call, unless
\* the walk is the endless one.
LEMMA TxTurnFalls ==
    ASSUME TxInv, TxInv', TxTurn, ~Endless
    PROVE  TxRank \in Ranks /\ TxRank' \in Ranks /\ Below(TxRank', TxRank)
<1>t. /\ TxMissing \in Numbers /\ Len(TxMissing) \in Nat
      /\ TxMissing' \in Numbers /\ Len(TxMissing') \in Nat
      /\ TxPending \in Numbers /\ Len(TxPending) \in Nat
      /\ TxPending' \in Numbers /\ Len(TxPending') \in Nat
      /\ TxBlocks \in Numbers /\ Len(TxBlocks) \in Nat
      /\ TxBlocks' \in Numbers /\ Len(TxBlocks') \in Nat
      /\ pos \in Nat /\ walkAt \in 1 .. MaxCount /\ LastHeader \in Nbr
  BY ListType DEF TxInv, TxType
<1>w. ASSUME tx = "walk"
      PROVE  LastHeader \in 1 .. MaxCount - 1
  <2>1. asked \in Reports /\ LastHeader = asked.LastHeader /\ asked.UrEndHeader # LastHeader
    BY <1>w DEF TxInv, TxType, Walking
  <2>2. LastHeader # 0
    BY <2>1 DEF Endless, WalkNeverEnds
  <2> QED  BY <1>t, <2>2, MaxCountAssumption DEF Nbr
<1>1. CASE WalkTurn
  <2>1. /\ tx = "walk" /\ tx' = "walk" /\ walkAt # LastHeader
        /\ walkAt' = Fold(walkAt + 1) /\ LastHeader' = LastHeader
    BY <1>1 DEF WalkTurn
  <2>2. /\ Offset(LastHeader, walkAt) \in Nat /\ Offset(LastHeader, walkAt') \in Nat
        /\ Offset(LastHeader, walkAt') < Offset(LastHeader, walkAt)
    BY <1>t, <1>w, <2>1, WalkComesNearer
  <2>3. /\ TxRank = <<3, Offset(LastHeader, walkAt), 0>>
        /\ TxRank' = <<3, Offset(LastHeader, walkAt'), 0>>
    BY <2>1 DEF TxRank
  <2> HIDE DEF Offset
  <2> QED  BY <2>2, <2>3 DEF Ranks, Below
<1>2. CASE WalkEnds
  <2>1. tx = "walk" /\ tx' = "keep" /\ TxMissing' = TxMissing /\ pos' = pos /\ walkAt = LastHeader
    BY <1>2 DEF WalkEnds
  <2>2. TxRank = <<3, Offset(LastHeader, walkAt), 0>>
    BY <2>1 DEF TxRank
  <2>3. Offset(LastHeader, walkAt) \in Nat
    BY <1>t, <2>1, OffsetStep, MaxCountAssumption
  <2>4. TxRank' = <<2, Len(TxMissing') + 1 - pos', 0>>
    BY <2>1 DEF TxRank
  <2>5. pos' \in 1 .. Len(TxMissing') + 1
    BY <2>1 DEF TxInv, Keeping
  <2>6. Len(TxMissing') + 1 - pos' \in Nat
    BY <1>t, <2>5
  <2> QED  BY <2>2, <2>3, <2>4, <2>6 DEF Ranks, Below
<1>3. CASE KeepTurn
  <2>1. /\ tx = "keep" /\ tx' = "keep" /\ pos <= Len(TxMissing) /\ pos' = pos + 1
        /\ TxMissing' = TxMissing
    BY <1>3 DEF KeepTurn
  <2>2. /\ TxRank = <<2, Len(TxMissing) + 1 - pos, 0>>
        /\ TxRank' = <<2, Len(TxMissing) + 1 - (pos + 1), 0>>
    BY <2>1 DEF TxRank
  <2>3. /\ Len(TxMissing) + 1 - pos \in Nat /\ Len(TxMissing) + 1 - (pos + 1) \in Nat
        /\ Len(TxMissing) + 1 - (pos + 1) < Len(TxMissing) + 1 - pos
    BY <1>t, <2>1
  <2> QED  BY <2>2, <2>3 DEF Ranks, Below
<1>4. CASE KeepEnds
  <2>1. tx = "keep" /\ tx' = "echo"
    BY <1>4 DEF KeepEnds
  <2>2. TxRank = <<2, Len(TxMissing) + 1 - pos, 0>> /\ TxRank' = <<1, Len(TxPending'), 0>>
    BY <2>1 DEF TxRank
  <2>3. pos \in 1 .. Len(TxMissing) + 1
    BY <2>1 DEF TxInv, Keeping
  <2>4. Len(TxMissing) + 1 - pos \in Nat
    BY <1>t, <2>3
  <2> QED  BY <1>t, <2>2, <2>4 DEF Ranks, Below
<1>5. CASE EchoTurn
  <2>1. /\ tx = "echo" /\ TxPending # <<>> /\ TxPending' = Tail(TxPending)
        /\ tx' = "echo" \/ tx' = "done"
    BY <1>5 DEF EchoTurn
  <2>2. Len(TxPending') < Len(TxPending)
    <3>1. Len(TxPending') = Len(TxPending) - 1
      BY <1>t, <2>1, TailList
    <3> QED  BY <1>t, <3>1
  <2>3. TxRank = <<1, Len(TxPending), 0>>
    BY <2>1 DEF TxRank
  <2>4. TxRank' = <<1, Len(TxPending'), 0>> \/ TxRank' = <<0, 0, 0>>
    BY <2>1 DEF TxRank
  <2> QED  BY <1>t, <2>2, <2>3, <2>4 DEF Ranks, Below
<1>6. CASE EchoEnds
  <2>1. tx = "echo" /\ tx' = "done"
    BY <1>6 DEF EchoEnds
  <2>2. TxRank = <<1, Len(TxPending), 0>> /\ TxRank' = <<0, 0, 0>>
    BY <2>1 DEF TxRank
  <2> QED  BY <1>t, <2>2 DEF Ranks, Below
<1>7. CASE RepeatTurn
  <2>1. /\ tx = "repeat" /\ tx' = "repeat" /\ pos <= Len(TxMissing) /\ pos' = pos + 1
        /\ TxMissing' = TxMissing
    BY <1>7 DEF RepeatTurn
  <2>2. /\ TxRank = <<2, Len(TxMissing) + 1 - pos, 0>>
        /\ TxRank' = <<2, Len(TxMissing) + 1 - (pos + 1), 0>>
    BY <2>1 DEF TxRank
  <2>3. /\ Len(TxMissing) + 1 - pos \in Nat /\ Len(TxMissing) + 1 - (pos + 1) \in Nat
        /\ Len(TxMissing) + 1 - (pos + 1) < Len(TxMissing) + 1 - pos
    BY <1>t, <2>1
  <2> QED  BY <2>2, <2>3 DEF Ranks, Below
<1>8. CASE RepeatEnds
  <2>1. tx = "repeat" /\ tx' = "send"
    BY <1>8 DEF RepeatEnds
  <2>2. TxRank = <<2, Len(TxMissing) + 1 - pos, 0>> /\ TxRank' = <<1, Len(TxBlocks'), 0>>
    BY <2>1 DEF TxRank
  <2>3. pos \in 1 .. Len(TxMissing) + 1
    BY <2>1 DEF TxInv, Repeating
  <2>4. Len(TxMissing) + 1 - pos \in Nat
    BY <1>t, <2>3
  <2> QED  BY <1>t, <2>2, <2>4 DEF Ranks, Below
<1>9. CASE SendTurn
  <2>1. tx = "send" /\ tx' = "send" /\ TxBlocks # <<>> /\ TxBlocks' = Tail(TxBlocks)
    BY <1>9 DEF SendTurn, Fits
  <2>2. Len(TxBlocks') < Len(TxBlocks)
    <3>1. Len(TxBlocks') = Len(TxBlocks) - 1
      BY <1>t, <2>1, TailList
    <3> QED  BY <1>t, <3>1
  <2>3. TxRank = <<1, Len(TxBlocks), 0>> /\ TxRank' = <<1, Len(TxBlocks'), 0>>
    BY <2>1 DEF TxRank
  <2> QED  BY <1>t, <2>2, <2>3 DEF Ranks, Below
<1>10. CASE SendEnds
  <2>1. tx = "send" /\ tx' = "done"
    BY <1>10 DEF SendEnds
  <2>2. TxRank = <<1, Len(TxBlocks), 0>> /\ TxRank' = <<0, 0, 0>>
    BY <2>1 DEF TxRank
  <2> QED  BY <1>t, <2>2 DEF Ranks, Below
<1> QED
  BY <1>1, <1>2, <1>3, <1>4, <1>5, <1>6, <1>7, <1>8, <1>9, <1>10 DEF TxTurn

\* Every turn of every loop leaves less to do, in an order without an endless descent:
\* the loops of parseDATA and sendblocks end on every list, those of parseSTATUS on every
\* report but one that makes the walk endless.
THEOREM LoopsEnd == LoopSpec => TurnsFall
<1>1. /\ RxInv /\ TxInv /\ (RxInv /\ TxInv)' =>
            /\ ParseDATATurn => RxRank \in Ranks /\ RxRank' \in Ranks /\ Below(RxRank', RxRank)
            /\ TxTurn /\ ~Endless => TxRank \in Ranks /\ TxRank' \in Ranks /\ Below(TxRank', TxRank)
  BY RxTurnFalls, TxTurnFalls
<1> QED  BY <1>1, LoopsInvariant, PTL DEF TurnsFall
=============================================================================
