-------------------------- MODULE ArqBlocks_proofs --------------------------
(***************************************************************************)
(* What the operators of ArqBlocks return, for every MaxCount: the range   *)
(* of folded numbers, the prefix that parseDATA delivers, the gaps it      *)
(* reports and the number of blocks sendblocks takes from the queue.       *)
(***************************************************************************)
EXTENDS ArqBlocks, FiniteSetTheorems, SequenceTheorems, WellFoundedInduction, TLAPS

---------------------------------------------------------------------------
(* Numbers modulo MaxCount *)

\* "% MAXCOUNT" yields a block number.
LEMMA FoldType ==
    ASSUME NEW a \in Int
    PROVE  a % MaxCount \in Nbr
BY MaxCountAssumption, SMT DEF Nbr

\* What "% MAXCOUNT" does to a number at most one round off, as the loops of
\* arq.cxx write it: add or take away MAXCOUNT.
LEMMA FoldNear ==
    ASSUME NEW a \in Int
    PROVE  /\ a \in 0 .. MaxCount - 1 => a % MaxCount = a
           /\ a \in MaxCount .. 2 * MaxCount - 1 => a % MaxCount = a - MaxCount
           /\ a \in -MaxCount .. -1 => a % MaxCount = a + MaxCount
<1>1. a \in 0 .. MaxCount - 1 => a % MaxCount = a
  BY MaxCountAssumption, SMT
<1>2. a \in MaxCount .. 2 * MaxCount - 1 => a % MaxCount = a - MaxCount
  BY MaxCountAssumption, SMT
<1>3. a \in -MaxCount .. -1 => a % MaxCount = a + MaxCount
  BY MaxCountAssumption, SMT
<1> QED  BY <1>1, <1>2, <1>3

\* Offset and the step back are inverse to each other.
LEMMA OffsetStep ==
    ASSUME NEW n \in Nbr, NEW good \in Nbr
    PROVE  /\ Offset(n, good) \in 0 .. MaxCount - 1
           /\ (good + Offset(n, good)) % MaxCount = n
           /\ Offset(n, good) = 0 <=> n = good
<1>1. CASE n >= good
  BY <1>1, MaxCountAssumption, FoldNear DEF Nbr, Offset
<1>2. CASE n < good
  BY <1>2, MaxCountAssumption, FoldNear DEF Nbr, Offset
<1> QED  BY <1>1, <1>2 DEF Nbr

LEMMA StepOffset ==
    ASSUME NEW good \in Nbr, NEW i \in 0 .. MaxCount - 1
    PROVE  /\ (good + i) % MaxCount \in Nbr
           /\ Offset((good + i) % MaxCount, good) = i
           /\ (((good + i) % MaxCount) + 1) % MaxCount = (good + i + 1) % MaxCount
<1>1. CASE good + i < MaxCount
  BY <1>1, MaxCountAssumption, FoldNear DEF Nbr, Offset
<1>2. CASE good + i >= MaxCount
  BY <1>2, MaxCountAssumption, FoldNear DEF Nbr, Offset
<1> QED  BY <1>1, <1>2, MaxCountAssumption DEF Nbr

\* A number is its rounds and what is left after them.
LEMMA Rounds ==
    ASSUME NEW M \in Nat \ {0}, NEW a \in Int
    PROVE  a = M * (a \div M) + (a % M) /\ a \div M \in Int /\ a % M \in 0 .. M - 1
BY SMT

\* Whole rounds do not count.
LEMMA RoundsFold ==
    ASSUME NEW M \in Nat \ {0}, NEW q \in Int, NEW a \in Int
    PROVE  (a + M * q) % M = a % M
<1> DEFINE d == a \div M
           r == a % M
<1>1. a = M * d + r /\ d \in Int /\ r \in 0 .. M - 1
  BY Rounds
<1> HIDE DEF d, r
<1>2. M * (d + q) = M * d + M * q /\ M * q \in Int /\ M * d \in Int /\ d + q \in Int
  BY <1>1, SMT
<1>3. \A p \in Int : (M * p + r) % M = r
  BY <1>1, SMT
<1> DEFINE s == d + q
<1>4. s \in Int /\ a + M * q = M * s + r
  BY <1>1, <1>2
<1> HIDE DEF s
<1>5. (M * s + r) % M = r
  BY <1>3, <1>4, Zenon
<1> QED  BY <1>4, <1>5, Zenon DEF r

\* Folding on the way changes nothing.
LEMMA FoldTwice ==
    ASSUME NEW a \in Int, NEW b \in Int
    PROVE  ((a % MaxCount) + b) % MaxCount = (a + b) % MaxCount
<1> DEFINE d == a \div MaxCount
           r == a % MaxCount
<1>1. MaxCount \in Nat \ {0}
  BY MaxCountAssumption
<1>2. a = MaxCount * d + r /\ d \in Int /\ r \in 0 .. MaxCount - 1
  BY <1>1, Rounds
<1> HIDE DEF d, r
<1>3. MaxCount * d \in Int /\ r + b \in Int
  BY <1>1, <1>2
<1>4. (r + b + MaxCount * d) % MaxCount = (r + b) % MaxCount
  BY <1>1, <1>2, <1>3, RoundsFold
<1>5. r + b + MaxCount * d = a + b
  BY <1>2, <1>3
<1> QED  BY <1>4, <1>5 DEF r

\* Less than a round apart, a number is known by what it folds to.
LEMMA FoldKnown ==
    ASSUME NEW a \in Int, NEW b \in Int, a <= b, b < a + MaxCount,
           a % MaxCount = b % MaxCount
    PROVE  a = b
<1> DEFINE d == a \div MaxCount
           e == b \div MaxCount
           r == a % MaxCount
<1>1. MaxCount \in Nat \ {0}
  BY MaxCountAssumption
<1>2. /\ a = MaxCount * d + r /\ d \in Int /\ r \in Int
      /\ b = MaxCount * e + r /\ e \in Int
  BY <1>1, Rounds
<1> HIDE DEF d, e, r
<1>3. e - d \in Int /\ MaxCount * (e - d) = b - a
  BY <1>1, <1>2, SMT
<1>4. e - d >= 1 => MaxCount * (e - d) >= MaxCount
  BY <1>1, <1>3, SMT
<1>5. e - d <= -1 => MaxCount * (e - d) <= -MaxCount
  BY <1>1, <1>3, SMT
<1>6. e - d = 0
  BY <1>1, <1>3, <1>4, <1>5
<1> QED  BY <1>1, <1>2, <1>6

---------------------------------------------------------------------------
(* The largest of finitely many numbers *)

\* A set of numbers with an upper bound has a greatest one.
LEMMA GreatestExists ==
    ASSUME NEW S, NEW top \in Nat, S \subseteq 0 .. top, S # {}
    PROVE  \E g \in S : \A i \in S : i <= g
<1> DEFINE T == {t \in 0 .. top : top - t \in S}
<1>1. T \subseteq Nat /\ T # {}
  <2>1. PICK i \in S : TRUE
    OBVIOUS
  <2>2. top - i \in 0 .. top /\ top - (top - i) = i
    BY <2>1
  <2>3. top - i \in T
    BY <2>1, <2>2
  <2>4. T \subseteq Nat
    OBVIOUS
  <2> QED  BY <2>3, <2>4
<1>2. PICK t \in T : \A u \in T : ~ (<<u, t>> \in OpToRel(<, Nat))
  BY <1>1, NatLessThanWellFounded, WFMin
<1>3. \A u \in T : ~ (u < t)
  BY <1>1, <1>2 DEF OpToRel
<1>4. ASSUME NEW i \in S
      PROVE  i <= top - t
  <2>1. top - i \in T
    OBVIOUS
  <2> QED  BY <1>3, <2>1
<1> QED  BY <1>4
---------------------------------------------------------------------------
(* parseDATA *)

\* The sort of parseDATA has a last block.
LEMMA LastPendingIsLast ==
    ASSUME NEW nbrs \in SUBSET Nbr, NEW good \in Nbr, nbrs # {}
    PROVE  /\ LastPending(nbrs, good) \in nbrs
           /\ \A m \in nbrs : Offset(m, good) <= Offset(LastPending(nbrs, good), good)
<1> DEFINE S == {Offset(n, good) : n \in nbrs}
<1>1. S \subseteq 0 .. MaxCount - 1 /\ S # {}
  BY OffsetStep
<1>2. PICK g \in S : \A i \in S : i <= g
  <2>1. MaxCount - 1 \in Nat
    BY MaxCountAssumption
  <2> HIDE DEF S
  <2> QED  BY <1>1, <2>1, GreatestExists
<1>3. PICK n \in nbrs : g = Offset(n, good)
  BY <1>2
<1>4. \A m \in nbrs : Offset(m, good) <= Offset(n, good)
  BY <1>2, <1>3
<1> QED  BY <1>4 DEF LastPending

\* The steps after GoodHeader that parseDATA delivers are the first d ones, and
\* Deliverable counts them. The step after them ends the delivery.
LEMMA ReadyIsPrefix ==
    ASSUME NEW nbrs \in SUBSET Nbr, NEW good \in Nbr
    PROVE  LET d == Deliverable(nbrs, good)
           IN  /\ d \in 0 .. MaxCount - 1
               /\ \A i \in 1 .. d : (good + i) % MaxCount \in nbrs
               /\ good \in nbrs => d = 0
               /\ good \notin nbrs /\ d + 1 < MaxCount =>
                        (good + d + 1) % MaxCount \notin nbrs
<1> DEFINE R == Ready(nbrs, good)
<1>1. R \subseteq 1 .. MaxCount - 1
  BY DEF Ready
<1>2. \A i \in R : \A j \in 1 .. i : j \in R /\ (good + j) % MaxCount \in nbrs
  BY MaxCountAssumption DEF Ready
<1>3. PICK d \in 0 .. MaxCount - 1 : R = 1 .. d
  <2>1. CASE R = {}
    <3>1. R = 1 .. 0
      BY <2>1
    <3> QED  BY <3>1, MaxCountAssumption
  <2>2. CASE R # {}
    <3>1. PICK g \in R : \A i \in R : i <= g
      BY <1>1, <2>2, GreatestExists, MaxCountAssumption
    <3>2. R \subseteq 1 .. g
      BY <1>1, <3>1, MaxCountAssumption
    <3>3. 1 .. g \subseteq R
      BY <1>2
    <3>4. R = 1 .. g
      BY <3>2, <3>3
    <3> QED  BY <1>1, <3>4, MaxCountAssumption
  <2> QED  BY <2>1, <2>2
<1>4. Deliverable(nbrs, good) = d
  BY <1>3, FS_Interval, MaxCountAssumption DEF Deliverable
<1>5. \A i \in 1 .. d : (good + i) % MaxCount \in nbrs
  BY <1>2, <1>3
<1>6. good \in nbrs => d = 0
  <2>1. good \in nbrs => R = {}
    BY DEF Ready
  <2>2. 1 <= d => 1 \in 1 .. d
    OBVIOUS
  <2> QED  BY <1>3, <2>1, <2>2
<1>7. ASSUME good \notin nbrs, d + 1 < MaxCount
      PROVE  (good + d + 1) % MaxCount \notin nbrs
  <2>1. d + 1 \notin R /\ d + 1 \in 1 .. MaxCount - 1
    BY <1>3, <1>7, MaxCountAssumption
  <2>2. PICK j \in 1 .. d + 1 : (good + j) % MaxCount \notin nbrs
    BY <1>7, <2>1 DEF Ready
  <2>3. j = d + 1
    BY <1>5, <2>2
  <2>4. good + (d + 1) = good + d + 1
    BY DEF Nbr
  <2> QED  BY <2>2, <2>3, <2>4
<1> QED  BY <1>4, <1>5, <1>6, <1>7

\* What parseDATA hands to the user is a sequence of texts of pending blocks.
LEMMA DeliveredTextsType ==
    ASSUME NEW T, NEW blocks \in SUBSET [nbr : Nbr, text : T], NEW good \in Nbr
    PROVE  DeliveredTexts(blocks, good) \in Seq(T)
<1> DEFINE d == Deliverable(Nbrs(blocks), good)
           pick(i) == CHOOSE b \in blocks : b.nbr = (good + i) % MaxCount
<1>1. Nbrs(blocks) \in SUBSET Nbr
  BY DEF Nbrs
<1>2. d \in Nat /\ \A i \in 1 .. d : (good + i) % MaxCount \in Nbrs(blocks)
  BY <1>1, ReadyIsPrefix, MaxCountAssumption
<1>3. \A i \in 1 .. d : pick(i) \in blocks
  BY <1>2 DEF Nbrs
<1>4. \A i \in 1 .. d : pick(i).text \in T
  BY <1>3
<1>5. [i \in 1 .. d |-> pick(i).text] \in [1 .. d -> T]
  BY <1>4
<1>6. [i \in 1 .. d |-> pick(i).text] \in Seq(T)
  BY <1>2, <1>5, SeqDef
<1> QED  BY <1>6 DEF DeliveredTexts

\* The report asks for block numbers.
LEMMA GapsType ==
    ASSUME NEW nbrs \in SUBSET Nbr, NEW good \in Nbr, NEW end \in Nbr
    PROVE  Gaps(nbrs, good, end) \in SUBSET Nbr
<1>1. Offset(end, good) \in 0 .. MaxCount - 1
  BY OffsetStep
<1>2. \A i \in 1 .. Offset(end, good) : (good + i) % MaxCount \in Nbr
  BY <1>1, StepOffset, MaxCountAssumption
<1> QED  BY <1>2 DEF Gaps

\* As long as something is pending, the gaps begin with the block after the
\* delivered ones.
LEMMA GapsBeginAtGood ==
    ASSUME NEW nbrs \in SUBSET Nbr, NEW good \in Nbr, nbrs # {}
    PROVE  LET d    == Deliverable(nbrs, good)
               now  == NewGood(nbrs, good)
               end  == LastPending(nbrs, good)
               kept == nbrs \ Delivered(nbrs, good)
           IN  kept # {} /\ now \notin kept =>
                    (now + 1) % MaxCount \in Gaps(kept, now, end)
<1> DEFINE d    == Deliverable(nbrs, good)
           now  == NewGood(nbrs, good)
           end  == LastPending(nbrs, good)
           kept == nbrs \ Delivered(nbrs, good)
<1> SUFFICES ASSUME kept # {}, now \notin kept
             PROVE  (now + 1) % MaxCount \in Gaps(kept, now, end)
  OBVIOUS
<1>1. /\ d \in 0 .. MaxCount - 1
      /\ good \in nbrs => d = 0
      /\ good \notin nbrs /\ d + 1 < MaxCount => (good + d + 1) % MaxCount \notin nbrs
  BY ReadyIsPrefix
<1>2. now = (good + d) % MaxCount /\ now \in Nbr
  BY <1>1, StepOffset DEF NewGood
<1>3. end \in nbrs /\ \A m \in nbrs : Offset(m, good) <= Offset(end, good)
  BY LastPendingIsLast
<1>4. good \notin nbrs
  <2> SUFFICES ASSUME good \in nbrs PROVE FALSE
    OBVIOUS
  <2>1. d = 0
    BY <1>1
  <2>2. now = good
    BY <1>2, <2>1, FoldNear, MaxCountAssumption DEF Nbr
  <2>3. Delivered(nbrs, good) = {}
    BY <2>1 DEF Delivered
  <2> QED  BY <2>2, <2>3
<1>5. PICK m \in kept : TRUE
  OBVIOUS
<1>6. Offset(m, good) \in 0 .. MaxCount - 1 /\ m = (good + Offset(m, good)) % MaxCount
  BY <1>5, OffsetStep
<1>7. Offset(m, good) > d
  <2>1. Offset(m, good) # 0
    BY <1>4, <1>5, OffsetStep
  <2>2. Offset(m, good) \notin 1 .. d
    BY <1>5, <1>6 DEF Delivered
  <2> QED  BY <1>1, <1>6, <2>1, <2>2, MaxCountAssumption
<1>8. Offset(end, good) > d /\ Offset(end, good) \in 0 .. MaxCount - 1
  <2>1. Offset(end, good) \in 0 .. MaxCount - 1
    BY <1>3, OffsetStep
  <2> QED  BY <1>1, <1>3, <1>5, <1>6, <1>7, <2>1, MaxCountAssumption
<1>9. end # now
  BY <1>1, <1>2, <1>8, StepOffset, MaxCountAssumption
<1>10. Offset(end, now) \in 1 .. MaxCount - 1
  BY <1>2, <1>3, <1>9, OffsetStep, MaxCountAssumption
<1>11. (now + 1) % MaxCount \notin nbrs
  BY <1>1, <1>2, <1>4, <1>8, StepOffset, MaxCountAssumption
<1>12. 1 \in 1 .. Offset(end, now)
  BY <1>10, MaxCountAssumption
<1> QED  BY <1>11, <1>12 DEF Gaps

---------------------------------------------------------------------------
(* sendblocks and parseSTATUS *)

\* sendblocks takes no more than the queue holds, nothing once the repeats fill
\* the burst, and no block the window forbids.
LEMMA NewBlocksBound ==
    ASSUME NEW S, NEW queue \in Seq(S), NEW repeats \in Nat, NEW maxheaders \in Nat,
           NEW urGood
    PROVE  LET n == NewBlocks(queue, repeats, maxheaders, urGood)
           IN  /\ n \in 0 .. Len(queue)
               /\ n = 0 \/ repeats + n <= maxheaders
               /\ \A j \in 1 .. n : ~WindowFull(queue[j].nbr, urGood)
<1> DEFINE K == {k \in 1 .. Len(queue) :
                    /\ repeats + k <= maxheaders
                    /\ \A j \in 1 .. k : ~WindowFull(queue[j].nbr, urGood)}
<1>1. Len(queue) \in Nat
  BY LenProperties
<1>2. PICK n \in 0 .. Len(queue) : K = 1 .. n
  <2>1. CASE K = {}
    <3>1. K = 1 .. 0
      BY <2>1
    <3> QED  BY <1>1, <3>1
  <2>2. CASE K # {}
    <3>1. K \subseteq 0 .. Len(queue)
      BY <1>1
    <3>2. PICK g \in K : \A k \in K : k <= g
      <4> HIDE DEF K
      <4> QED  BY <1>1, <2>2, <3>1, GreatestExists
    <3>3. K \subseteq 1 .. g
      BY <1>1, <3>2
    <3>4. 1 .. g \subseteq K
      BY <1>1, <3>2
    <3>5. g \in 0 .. Len(queue) /\ K = 1 .. g
      BY <3>1, <3>2, <3>3, <3>4
    <3> QED  BY <3>5
  <2> QED  BY <2>1, <2>2
<1>3. NewBlocks(queue, repeats, maxheaders, urGood) = n
  <2>1. NewBlocks(queue, repeats, maxheaders, urGood) = Cardinality(K)
    BY DEF NewBlocks
  <2>2. Cardinality(1 .. n) = n
    BY <1>1, FS_Interval
  <2> QED  BY <1>2, <2>1, <2>2
<1>4. n # 0 => n \in K
  BY <1>1, <1>2
<1> QED  BY <1>1, <1>3, <1>4

\* parseSTATUS echoes no more blocks than are pending.
LEMMA EchoedType ==
    ASSUME NEW S, NEW pending \in Seq(S), NEW urGood
    PROVE  Echoed(pending, urGood) \in 0 .. Len(pending)
<1> DEFINE K == {k \in 1 .. Len(pending) : \A j \in 1 .. k - 1 : pending[j].nbr # urGood}
<1>1. Len(pending) \in Nat
  BY LenProperties
<1>2. /\ IsFiniteSet(1 .. Len(pending)) /\ Cardinality(1 .. Len(pending)) = Len(pending)
  BY <1>1, FS_Interval
<1>3. K \in SUBSET (1 .. Len(pending))
  OBVIOUS
<1>4. Cardinality(K) = Echoed(pending, urGood)
  BY DEF Echoed
<1> HIDE DEF K
<1>5. IsFiniteSet(K) /\ Cardinality(K) <= Len(pending)
  BY <1>2, <1>3, FS_Subset
<1>6. Cardinality(K) \in Nat
  BY <1>5, FS_CardinalityType
<1> QED  BY <1>1, <1>4, <1>5, <1>6
=============================================================================
