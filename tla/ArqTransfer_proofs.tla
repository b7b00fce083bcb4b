-------------------------- MODULE ArqTransfer_proofs --------------------------
(***************************************************************************)
(* One session in one direction, with any losses and repeats: what the     *)
(* receiver is handed is the sender's text, in order, once, without a gap. *)
(***************************************************************************)
EXTENDS ArqLink_proofs

---------------------------------------------------------------------------
(* Block numbers and texts of a session *)

\* The number of the t-th block of a session; GoodHeader is the number of the
\* g-th block when g texts were delivered, so that it starts as NbrOf(0).
NbrOf(t) == (t - 1) % MaxCount

LEMMA NbrOfType ==
    ASSUME NEW t \in Int
    PROVE  NbrOf(t) \in Nbr /\ \A k \in Int : (NbrOf(t) + k) % MaxCount = NbrOf(t + k)
<1>1. NbrOf(t) \in Nbr
  BY FoldType DEF NbrOf
<1>2. ASSUME NEW k \in Int
      PROVE  (NbrOf(t) + k) % MaxCount = NbrOf(t + k)
  <2>1. (((t - 1) % MaxCount) + k) % MaxCount = (t - 1 + k) % MaxCount
    BY FoldTwice
  <2>2. t - 1 + k = t + k - 1
    OBVIOUS
  <2> QED  BY <2>1, <2>2 DEF NbrOf
<1> QED  BY <1>1, <1>2

LEMMA NbrOfStart == NbrOf(0) = MaxCount - 1
BY MaxCountAssumption, FoldNear DEF NbrOf

\* Less than a round apart, a text is known by its number.
LEMMA NbrOfKnown ==
    ASSUME NEW a \in Int, NEW b \in Int, NbrOf(a) = NbrOf(b),
           a < b + MaxCount, b < a + MaxCount
    PROVE  a = b
<1>1. a - 1 \in Int /\ b - 1 \in Int /\ (a - 1) % MaxCount = (b - 1) % MaxCount
  BY DEF NbrOf
<1>2. \/ a - 1 <= b - 1 /\ b - 1 < a - 1 + MaxCount
      \/ b - 1 <= a - 1 /\ a - 1 < b - 1 + MaxCount
  BY MaxCountAssumption
<1>3. a - 1 = b - 1
  BY <1>1, <1>2, FoldKnown
<1> QED  BY <1>3

LEMMA NbrOfNext ==
    ASSUME NEW t \in Int
    PROVE  NbrOf(t + 1) = IF NbrOf(t) = MaxCount - 1 THEN 0 ELSE NbrOf(t) + 1
<1>1. NbrOf(t) \in Nbr /\ (NbrOf(t) + 1) % MaxCount = NbrOf(t + 1)
  BY NbrOfType
<1> QED  BY <1>1, MaxCountAssumption, FoldNear DEF Nbr

\* The way from one block to a later one.
LEMMA OffsetOf ==
    ASSUME NEW a \in Int, NEW b \in Int, a <= b, b < a + MaxCount
    PROVE  Offset(NbrOf(b), NbrOf(a)) = b - a
<1>1. NbrOf(a) \in Nbr /\ NbrOf(b) \in Nbr /\ NbrOf(b) = (NbrOf(a) + (b - a)) % MaxCount
  BY NbrOfType
<1>2. b - a \in 0 .. MaxCount - 1
  BY MaxCountAssumption
<1>3. Offset((NbrOf(a) + (b - a)) % MaxCount, NbrOf(a)) = b - a
  BY <1>1, <1>2, StepOffset
<1> QED  BY <1>1, <1>3


---------------------------------------------------------------------------
(* parseDATA on the blocks of one session *)

\* Blocks that carry the numbers of their texts.
Right(blocks) == \A b \in blocks : b.nbr = NbrOf(b.text)

\* With g texts delivered and blocks pending from the window above them,
\* parseDATA delivers the texts up to the first gap, keeps the others, and
\* reports the gaps below the last one.
LEMMA Delivery ==
    ASSUME NEW g \in Nat, NEW pending \in SUBSET Blocks, pending # {}, Right(pending),
           Texts(pending) \subseteq g + 1 .. g + MaxCount - 3
    PROVE  \E n \in Nat, e \in Texts(pending) :
             LET nbrs == Nbrs(pending)
                 kept == {b \in pending : b.nbr \notin Delivered(nbrs, NbrOf(g))}
             IN  /\ NewGood(nbrs, NbrOf(g)) = NbrOf(g + n)
                 /\ DeliveredTexts(pending, NbrOf(g)) = [i \in 1 .. n |-> g + i]
                 /\ g + 1 .. g + n \subseteq Texts(pending)
                 /\ g + n + 1 \notin Texts(pending)
                 /\ Texts(kept) = Texts(pending) \ (g + 1 .. g + n)
                 /\ \A t \in Texts(pending) : t <= e
                 /\ LastPending(nbrs, NbrOf(g)) = NbrOf(e)
                 /\ Gaps(Nbrs(kept), NbrOf(g + n), NbrOf(e))
                        = {NbrOf(t) : t \in (g + n + 1 .. e) \ Texts(kept)}
<1> DEFINE T    == Texts(pending)
           nbrs == Nbrs(pending)
           good == NbrOf(g)
           n    == Deliverable(nbrs, good)
           kept == {b \in pending : b.nbr \notin Delivered(nbrs, good)}
<1>1. good \in Nbr /\ nbrs \in SUBSET Nbr /\ MaxCount \in Nat /\ MaxCount >= 4
  BY NbrOfType, MaxCountAssumption DEF Nbrs, Blocks
<1>2. \A b \in pending : b.text \in T /\ b.text \in g + 1 .. g + MaxCount - 3 /\ b.nbr = NbrOf(b.text)
  BY DEF Texts, Right
<1>3. ASSUME NEW t \in g .. g + MaxCount - 1
      PROVE  NbrOf(t) \in nbrs <=> t \in T
  <2>1. ASSUME NEW b \in pending, NbrOf(t) = b.nbr
        PROVE  t = b.text
    <3>1. b.text \in g + 1 .. g + MaxCount - 3 /\ NbrOf(t) = NbrOf(b.text)
      BY <1>2, <2>1
    <3> QED  BY <1>1, <3>1, NbrOfKnown
  <2>2. NbrOf(t) \in nbrs => t \in T
    BY <2>1 DEF Nbrs, Texts
  <2>3. t \in T => NbrOf(t) \in nbrs
    BY <1>2 DEF Nbrs, Texts
  <2> QED  BY <2>2, <2>3
<1>4. \A i \in Int : (good + i) % MaxCount = NbrOf(g + i)
  BY NbrOfType
<1>5. good \notin nbrs
  <2>1. g \in g .. g + MaxCount - 1 /\ g \notin T
    BY <1>1
  <2> QED  BY <1>3, <2>1
<1> HIDE DEF nbrs, good, T
<1>6. /\ n \in 0 .. MaxCount - 1
      /\ \A i \in 1 .. n : (good + i) % MaxCount \in nbrs
      /\ n + 1 < MaxCount => (good + n + 1) % MaxCount \notin nbrs
  BY <1>1, <1>5, ReadyIsPrefix
<1> HIDE DEF n
<1>7. \A i \in 1 .. n : NbrOf(g + i) \in nbrs /\ g + i \in T
  <2> TAKE i \in 1 .. n
  <2>1. NbrOf(g + i) \in nbrs
    BY <1>4, <1>6
  <2>2. g + i \in g .. g + MaxCount - 1
    BY <1>1, <1>6
  <2> QED  BY <1>3, <2>1, <2>2
<1>8. n <= MaxCount - 3
  <2>1. n # 0 => g + n \in T
    BY <1>6, <1>7
  <2>2. T \subseteq g + 1 .. g + MaxCount - 3
    BY DEF T
  <2> QED  BY <1>1, <1>6, <2>1, <2>2
<1>9. g + n + 1 \notin T
  <2>1. (good + (n + 1)) % MaxCount \notin nbrs
    <3>1. good + (n + 1) = good + n + 1
      BY <1>1, <1>6 DEF Nbr
    <3> QED  BY <1>1, <1>6, <1>8, <3>1
  <2>2. NbrOf(g + (n + 1)) \notin nbrs
    BY <1>4, <1>6, <2>1
  <2>3. g + (n + 1) = g + n + 1 /\ g + n + 1 \in g .. g + MaxCount - 1
    BY <1>1, <1>6, <1>8
  <2> QED  BY <1>3, <2>2, <2>3
<1>10. NewGood(nbrs, good) = NbrOf(g + n)
  BY <1>4, <1>6 DEF NewGood, n
<1>11. DeliveredTexts(pending, good) = [i \in 1 .. n |-> g + i]
  <2>1. ASSUME NEW i \in 1 .. n
        PROVE  (CHOOSE b \in pending : b.nbr = (good + i) % MaxCount).text = g + i
    <3>1. \E b \in pending : b.nbr = NbrOf(g + i)
      BY <1>7 DEF nbrs, Nbrs
    <3>2. ASSUME NEW b \in pending, b.nbr = NbrOf(g + i)
          PROVE  b.text = g + i
      <4>1. b.text \in g + 1 .. g + MaxCount - 3 /\ NbrOf(b.text) = NbrOf(g + i)
        BY <1>2, <3>2
      <4>2. /\ b.text \in Int /\ g + i \in Int
            /\ b.text < g + i + MaxCount /\ g + i < b.text + MaxCount
        BY <1>1, <1>6, <1>8, <4>1
      <4> QED  BY <4>1, <4>2, NbrOfKnown
    <3>3. (good + i) % MaxCount = NbrOf(g + i)
      BY <1>4
    <3> QED  BY <3>1, <3>2, <3>3
  <2> QED  BY <2>1 DEF DeliveredTexts, nbrs, n
<1>12. \A b \in pending : b \in kept <=> b.text > g + n
  <2> TAKE b \in pending
  <2>1. Delivered(nbrs, good) = {NbrOf(g + i) : i \in 1 .. n}
    BY <1>4 DEF Delivered, n
  <2>2. b.text \in g + 1 .. g + MaxCount - 3 /\ b.nbr = NbrOf(b.text)
    BY <1>2
  <2>3. b.text <= g + n => b.nbr \in Delivered(nbrs, good)
    <3>1. b.text - g \in 1 .. n /\ g + (b.text - g) = b.text <=> b.text <= g + n
      BY <1>6, <2>2
    <3> QED  BY <2>1, <2>2, <3>1
  <2>4. ASSUME NEW i \in 1 .. n, b.nbr = NbrOf(g + i)
        PROVE  b.text = g + i
    <3>1. /\ b.text \in Int /\ g + i \in Int
          /\ b.text < g + i + MaxCount /\ g + i < b.text + MaxCount
      BY <1>1, <1>6, <1>8, <2>2
    <3>2. NbrOf(b.text) = NbrOf(g + i)
      BY <2>2, <2>4
    <3> QED  BY <3>1, <3>2, NbrOfKnown
  <2>5. b.nbr \in Delivered(nbrs, good) => b.text <= g + n
    BY <1>6, <2>1, <2>4
  <2> QED  BY <1>6, <2>2, <2>3, <2>5
<1>13. Texts(kept) = T \ (g + 1 .. g + n)
  <2>1. \A b \in pending : b.text > g + n <=> b.text \notin g + 1 .. g + n
    BY <1>2, <1>6
  <2> HIDE DEF kept
  <2>2. Texts(kept) \subseteq T \ (g + 1 .. g + n)
    <3>1. kept \subseteq pending
      BY DEF kept
    <3> QED  BY <1>2, <1>12, <2>1, <3>1 DEF Texts
  <2>3. T \ (g + 1 .. g + n) \subseteq Texts(kept)
    BY <1>12, <2>1 DEF Texts, T
  <2> QED  BY <2>2, <2>3
<1>14. PICK e \in T : (\A t \in T : t <= e) /\ LastPending(nbrs, good) = NbrOf(e)
  <2>1. /\ LastPending(nbrs, good) \in nbrs
        /\ \A m \in nbrs : Offset(m, good) <= Offset(LastPending(nbrs, good), good)
    <3>1. nbrs # {}
      BY DEF nbrs, Nbrs
    <3> QED  BY <1>1, <3>1, LastPendingIsLast
  <2>2. PICK b \in pending : LastPending(nbrs, good) = b.nbr
    BY <2>1 DEF nbrs, Nbrs
  <2>3. \A c \in pending : Offset(c.nbr, good) = c.text - g
    <3> TAKE c \in pending
    <3>1. c.text \in g + 1 .. g + MaxCount - 3 /\ c.nbr = NbrOf(c.text)
      BY <1>2
    <3> QED  BY <1>1, <3>1, OffsetOf DEF good
  <2>4. \A c \in pending : c.text - g <= b.text - g
    <3> TAKE c \in pending
    <3>1. c.nbr \in nbrs
      BY DEF nbrs, Nbrs
    <3> QED  BY <2>1, <2>2, <2>3, <3>1
  <2>5. \A c \in pending : c.text <= b.text
    BY <1>2, <2>4
  <2> QED  BY <1>2, <2>2, <2>5 DEF T, Texts
<1>15. Gaps(Nbrs(kept), NbrOf(g + n), NbrOf(e)) = {NbrOf(t) : t \in (g + n + 1 .. e) \ Texts(kept)}
  <2>1. e \in g + 1 .. g + MaxCount - 3 /\ Texts(kept) \subseteq T
    BY <1>13 DEF T
  <2>2. CASE kept = {}
    <3>1. Nbrs(kept) = {} /\ Texts(kept) = {}
      BY <2>2 DEF Nbrs, Texts
    <3>2. e <= g + n
      <4>1. e \in g + 1 .. g + n
        BY <1>13, <3>1
      <4> QED  BY <4>1
    <3>3. g + n + 1 .. e = {}
      BY <1>6, <2>1, <3>2
    <3> QED  BY <3>1, <3>3 DEF Gaps
  <2>3. CASE kept # {}
    <3> DEFINE now == g + n
               X == Nbrs(kept)
               K == Texts(kept)
    <3>1. X # {} /\ K # {}
      BY <2>3 DEF Nbrs, Texts
    <3> HIDE DEF kept
    <3>2. now \in Int /\ now < e
      <4>1. PICK t \in K : TRUE
        BY <3>1
      <4>2. t \in T /\ t \notin g + 1 .. g + n /\ t \in g + 1 .. g + MaxCount - 3 /\ t <= e
        BY <1>13, <1>14, <4>1 DEF T
      <4> QED  BY <1>6, <2>1, <4>2
    <3>3. Offset(NbrOf(e), NbrOf(now)) = e - now
      BY <1>1, <1>6, <2>1, <3>2, OffsetOf
    <3>4. \A i \in Int : (NbrOf(now) + i) % MaxCount = NbrOf(now + i)
      BY <3>2, NbrOfType
    <3>5. \A t \in now + 1 .. e : NbrOf(t) \in X <=> t \in K
      <4> TAKE t \in now + 1 .. e
      <4>0. kept \subseteq pending
        BY DEF kept
      <4>1. ASSUME NEW b \in kept, NbrOf(t) = b.nbr
            PROVE  t = b.text
        <5>1. b.text \in g + 1 .. g + MaxCount - 3 /\ NbrOf(t) = NbrOf(b.text)
          BY <1>2, <4>0, <4>1
        <5> QED  BY <1>1, <1>6, <2>1, <5>1, NbrOfKnown
      <4>2. \A b \in kept : b.nbr = NbrOf(b.text)
        BY <1>2, <4>0
      <4> QED  BY <4>1, <4>2 DEF Nbrs, Texts
    <3>6. Gaps(X, NbrOf(now), NbrOf(e)) = {(NbrOf(now) + i) % MaxCount : i \in 1 .. e - now} \ X
      BY <3>1, <3>3 DEF Gaps
    <3> HIDE DEF X, K, now
    <3>7. Gaps(X, NbrOf(now), NbrOf(e)) \subseteq {NbrOf(t) : t \in (now + 1 .. e) \ K}
      <4> SUFFICES ASSUME NEW i \in 1 .. e - now, (NbrOf(now) + i) % MaxCount \notin X
                   PROVE  \E t \in (now + 1 .. e) \ K : (NbrOf(now) + i) % MaxCount = NbrOf(t)
        BY <3>6
      <4>1. now + i \in now + 1 .. e
        BY <2>1, <3>2
      <4> QED  BY <3>4, <3>5, <4>1
    <3>8. {NbrOf(t) : t \in (now + 1 .. e) \ K} \subseteq Gaps(X, NbrOf(now), NbrOf(e))
      <4> SUFFICES ASSUME NEW t \in now + 1 .. e, t \notin K
                   PROVE  NbrOf(t) \in Gaps(X, NbrOf(now), NbrOf(e))
        OBVIOUS
      <4>1. t - now \in 1 .. e - now /\ now + (t - now) = t
        BY <2>1, <3>2
      <4>2. NbrOf(t) = (NbrOf(now) + (t - now)) % MaxCount
        BY <3>2, <3>4, <4>1
      <4> QED  BY <3>5, <3>6, <4>1, <4>2
    <3> QED  BY <3>7, <3>8 DEF X, K, now
  <2> QED  BY <2>2, <2>3
<1>16. g + 1 .. g + n \subseteq T
  <2> SUFFICES ASSUME NEW t \in g + 1 .. g + n PROVE t \in T
    OBVIOUS
  <2>1. t - g \in 1 .. n /\ g + (t - g) = t
    BY <1>6
  <2> QED  BY <1>7, <2>1
<1>17. n \in Nat
  BY <1>6
<1> QED  BY <1>9, <1>10, <1>11, <1>13, <1>14, <1>15, <1>16, <1>17 DEF T, nbrs, good

---------------------------------------------------------------------------
(* parseSTATUS and sendblocks on the blocks of one session *)

\* The walk from EndHeader to LastHeader names the blocks sent behind it, all
\* but the one numbered 0.
LEMMA WalkOf ==
    ASSUME NEW e \in Nat, NEW h \in Nat, e <= h, h < e + MaxCount,
           ~WalkNeverEnds(NbrOf(h), NbrOf(e)),
           NEW t \in Int, t <= h, h < t + MaxCount
    PROVE  /\ NbrOf(t) \in Walk(NbrOf(h), NbrOf(e)) => t > e
           /\ t > e /\ NbrOf(t) # 0 => NbrOf(t) \in Walk(NbrOf(h), NbrOf(e))
<1>1. NbrOf(e) = NbrOf(h) <=> e = h
  BY NbrOfKnown, MaxCountAssumption
<1>2. CASE e = h
  BY <1>1, <1>2 DEF Walk
<1>3. CASE e # h
  <2>1. NbrOf(h) # 0 /\ NbrOf(h) \in Nbr /\ NbrOf(h) = NbrOf(h - 1) + 1
    <3>1. NbrOf(h) # 0
      BY <1>1, <1>3 DEF WalkNeverEnds
    <3>2. NbrOf(h - 1 + 1) = IF NbrOf(h - 1) = MaxCount - 1 THEN 0 ELSE NbrOf(h - 1) + 1
      BY NbrOfNext
    <3>3. h - 1 + 1 = h
      OBVIOUS
    <3> QED  BY <3>1, <3>2, <3>3, NbrOfType
  <2>2. Offset(NbrOf(h) - 1, NbrOf(e)) = h - 1 - e
    <3>1. e <= h - 1 /\ h - 1 < e + MaxCount
      BY <1>3, MaxCountAssumption
    <3>2. Offset(NbrOf(h - 1), NbrOf(e)) = h - 1 - e
      BY <3>1, OffsetOf
    <3>3. NbrOf(h) - 1 = NbrOf(h - 1)
      BY <2>1, NbrOfType DEF Nbr
    <3> QED  BY <3>2, <3>3
  <2>3. \A i \in Int : (NbrOf(e) + i) % MaxCount = NbrOf(e + i)
    BY NbrOfType
  <2>4. \A n : n \in Walk(NbrOf(h), NbrOf(e)) <=> \E i \in 0 .. h - 1 - e : n = 1 + NbrOf(e + i)
    <3>1. Walk(NbrOf(h), NbrOf(e)) = {1 + ((NbrOf(e) + i) % MaxCount) : i \in 0 .. h - 1 - e}
      BY <1>1, <1>3, <2>2 DEF Walk
    <3>2. \A i \in 0 .. h - 1 - e : (NbrOf(e) + i) % MaxCount = NbrOf(e + i)
      BY <2>3
    <3> QED  BY <3>1, <3>2
  <2>5. \A j \in Int : NbrOf(j + 1) = IF NbrOf(j) = MaxCount - 1 THEN 0 ELSE NbrOf(j) + 1
    BY NbrOfNext
  <2>6. \A j \in Int : NbrOf(j) \in Nbr
    BY NbrOfType
  <2>7. ASSUME NEW i \in 0 .. h - 1 - e, NbrOf(t) = 1 + NbrOf(e + i)
        PROVE  t > e
    <3>1. NbrOf(e + i + 1) = NbrOf(t)
      BY <2>5, <2>6, <2>7 DEF Nbr
    <3>2. e + i + 1 < t + MaxCount /\ t < e + i + 1 + MaxCount
      BY <1>3, MaxCountAssumption
    <3>3. e + i + 1 = t
      BY <3>1, <3>2, NbrOfKnown
    <3> QED  BY <3>3
  <2>8. ASSUME t > e, NbrOf(t) # 0
        PROVE  NbrOf(t) \in Walk(NbrOf(h), NbrOf(e))
    <3>1. t - 1 - e \in 0 .. h - 1 - e /\ e + (t - 1 - e) = t - 1
      BY <2>8
    <3>2. NbrOf(t) = 1 + NbrOf(t - 1)
      <4>1. t - 1 + 1 = t
        OBVIOUS
      <4> QED  BY <2>5, <2>6, <2>8, <4>1 DEF Nbr
    <3>3. NbrOf(t) = 1 + NbrOf(e + (t - 1 - e))
      BY <3>1, <3>2
    <3> QED  BY <2>4, <3>1, <3>3
  <2> QED  BY <2>4, <2>7, <2>8
<1> QED  BY <1>2, <1>3

\* A report that is up to date leaves on the list exactly what the receiver
\* lacks, of the blocks not numbered 0.
LEMMA Crossing ==
    ASSUME NEW u \in Nat, NEW g \in Nat, NEW e \in Nat, NEW h \in Nat,
           u <= g, g <= e, e <= h, h <= u + MaxCount - 3,
           NEW K \in SUBSET (g + 1 .. e),
           ~WalkNeverEnds(NbrOf(h), NbrOf(e)),
           NEW t \in u + 1 .. h
    PROVE  LET missing == ConsideredMissing(NbrOf(h), NbrOf(e),
                                            {NbrOf(i) : i \in (g + 1 .. e) \ K})
           IN  /\ NbrOf(t) \in missing => t > g /\ t \notin K
               /\ t > g /\ t \notin K /\ NbrOf(t) # 0 => NbrOf(t) \in missing
<1> DEFINE gaps == {NbrOf(i) : i \in (g + 1 .. e) \ K}
<1>1. MaxCount \in Nat /\ MaxCount >= 4
  BY MaxCountAssumption
<1>2. /\ NbrOf(t) \in Walk(NbrOf(h), NbrOf(e)) => t > e
      /\ t > e /\ NbrOf(t) # 0 => NbrOf(t) \in Walk(NbrOf(h), NbrOf(e))
  <2>1. h < e + MaxCount /\ t <= h /\ h < t + MaxCount /\ t \in Int
    BY <1>1
  <2> QED  BY <2>1, WalkOf
<1>3. ASSUME NbrOf(t) \in gaps
      PROVE  t \in (g + 1 .. e) \ K
  <2>1. PICK i \in (g + 1 .. e) \ K : NbrOf(t) = NbrOf(i)
    BY <1>3
  <2>2. i \in Int /\ t \in Int /\ i < t + MaxCount /\ t < i + MaxCount
    BY <1>1
  <2> QED  BY <2>1, <2>2, NbrOfKnown
<1>4. t \in (g + 1 .. e) \ K => NbrOf(t) \in gaps
  OBVIOUS
<1>5. t > g => t > e \/ t \in g + 1 .. e
  OBVIOUS
<1>6. t > e => t > g /\ t \notin K
  OBVIOUS
<1>7. t \in (g + 1 .. e) \ K => t > g /\ t \notin K
  OBVIOUS
<1> HIDE DEF gaps
<1>8. ConsideredMissing(NbrOf(h), NbrOf(e), gaps) = gaps \cup Walk(NbrOf(h), NbrOf(e))
  BY DEF ConsideredMissing
<1> QED  BY <1>2, <1>3, <1>4, <1>5, <1>6, <1>7, <1>8 DEF gaps

\* The window: with u texts acknowledged none behind u + MaxCount - 3 is sent.
LEMMA WindowHolds ==
    ASSUME NEW u \in Nat, NEW h \in Nat, h <= u + MaxCount - 3, NEW n \in Nat,
           \A k \in 1 .. n : ~WindowFull(NbrOf(h + k), NbrOf(u))
    PROVE  h + n <= u + MaxCount - 3
<1>1. MaxCount \in Nat /\ MaxCount >= 4
  BY MaxCountAssumption
<1> SUFFICES ASSUME h + n > u + MaxCount - 3 PROVE FALSE
  BY <1>1
<1> DEFINE k == u + MaxCount - 2 - h
<1>2. k \in 1 .. n /\ h + k + 2 = u + MaxCount
  BY <1>1
<1>3. (NbrOf(h + k) + 2) % MaxCount = NbrOf(h + k + 2)
  BY <1>1, <1>2, NbrOfType
<1>4. NbrOf(u + MaxCount) = NbrOf(u)
  <2>1. MaxCount \in Nat \ {0} /\ 1 \in Int /\ u - 1 \in Int
    BY <1>1
  <2>2. (u - 1 + MaxCount * 1) % MaxCount = (u - 1) % MaxCount
    BY <2>1, RoundsFold
  <2>3. u - 1 + MaxCount * 1 = (u + MaxCount) - 1
    BY <1>1
  <2>4. ((u + MaxCount) - 1) % MaxCount = (u - 1) % MaxCount
    BY <2>2, <2>3, Zenon
  <2> QED  BY <2>4 DEF NbrOf
<1> QED  BY <1>2, <1>3, <1>4 DEF WindowFull

---------------------------------------------------------------------------
(* The inductive invariant.  Station s sends, its peer receives; x and y    *)
(* are their records.                                                       *)

\* One session at most, made by either station, in which s alone sends text.
\* Frames may be lost and repeats come without a bound.
OneWay(s) ==
    /\ Timely
    /\ SendsIn[s] \subseteq {ARQ_CONNECTED, WAITING} /\ SendsIn[Peer(s)] = {}
    /\ Unlimited \subseteq {"lose", "retry"} /\ Budget["connect"] <= 1
    /\ \A e \in Outside \ {"lose", "retry", "connect"} : Budget[e] = 0

InSess(x) == x.LinkState \in {ARQ_CONNECTED, WAITING}
Sent(x)   == x.queued - Len(x.TxBlocks)
Got(y)    == Len(y.RxTextQueue)
Pend(y)   == Texts(y.RxPending)

Speaks(x) == x.immediate \/ x.air # <<>>
Burst(q)  == \A i \in 1 .. Len(q) : q[i].type = IF i = Len(q) THEN "POLL" ELSE "DATA"

\* What a station has to say it says in one burst, of one frame unless it
\* sends text.
Mannered(x) ==
    /\ x.air # <<>> => x.Sending /\ ~x.immediate
    /\ ~x.immediate => x.TxTextQueue = <<>>
    /\ x.immediate => Len(x.TxTextQueue) = 1
    /\ x.LinkState # WAITING => Len(x.air) <= 1 /\ ~x.hung
    /\ x.LinkState = WAITING => ~x.immediate /\ Burst(x.air)
    /\ x.hung => x.air = <<>>
    /\ ~x.arqstop

Mute(y) == y.TxBlocks = <<>> /\ y.TxMissing = {} /\ y.queued = 0 /\ y.LastHeader = MaxCount - 1
           /\ ~y.hung /\ y.LinkState # WAITING
Deaf(x) == x.RxTextQueue = <<>> /\ x.RxPending = {}

Unsent(x) == x.queued = 0 /\ x.TxBlocks = <<>> /\ x.TxMissing = {}
             /\ x.LastHeader = MaxCount - 1 /\ x.UrGoodHeader = MaxCount - 1

\* A frame of station x on its way to y: it fits the state x is in, y has not
\* moved on meanwhile, and a report is up to date.
Apt(f, x, y) ==
    /\ x.LinkState # DOWN
    /\ x.LinkState = ARQ_CONNECTING => f.type = "CONREQ" /\ y.LinkState = DOWN
    /\ x.LinkState = WAITFORACK =>
            /\ f.type = "CONACK" /\ Deaf(x)
            /\ x.immediate => y.LinkState = ARQ_CONNECTING
    /\ x.LinkState = ARQ_CONNECTED =>
            /\ f.type = "STATUS" /\ y.LinkState \in {WAITFORACK, WAITING}
            /\ f.good = x.GoodHeader /\ f.end = x.EndHeader /\ f.missing = x.MissingRxBlocks

Underway(x) == Elements(x.TxTextQueue) \cup Elements(x.air)

\* How far the two have come: never do both speak, and until the session is
\* made no text was sent.
Course(x, y) ==
    /\ x.LinkState # TIMEDOUT /\ y.LinkState # TIMEDOUT
    /\ y.LinkState = ARQ_CONNECTING => x.LinkState \in {DOWN, WAITFORACK}
    /\ x.LinkState = ARQ_CONNECTING => y.LinkState \in {DOWN, WAITFORACK}
    /\ x.LinkState = WAITFORACK => y.LinkState # WAITFORACK
    /\ x.LinkState \in {ARQ_CONNECTING, WAITFORACK} \/ y.LinkState = ARQ_CONNECTING
            => Unsent(x) /\ Deaf(y)
    /\ ~(Speaks(x) /\ Speaks(y))
    /\ \A f \in Underway(x) : Apt(f, x, y)
    /\ \A f \in Underway(y) : Apt(f, y, x)

\* The receiver: the texts delivered are the first ones, the pending ones lie
\* above the first gap, and the report names the gaps up to the last of them.
Delivers(y) ==
    /\ \A i \in 1 .. Got(y) : y.RxTextQueue[i] = i
    /\ 1 .. Got(y) \subseteq y.printed
    /\ y.GoodHeader = NbrOf(Got(y))
    /\ Right(y.RxPending) /\ Pend(y) \subseteq Got(y) + 2 .. Got(y) + MaxCount - 3
    /\ \E e \in Got(y) .. Got(y) + MaxCount - 3 :
            /\ Pend(y) = {} => e = Got(y)
            /\ Pend(y) # {} => e \in Pend(y)
            /\ \A t \in Pend(y) : t <= e
            /\ y.EndHeader = NbrOf(e)
            /\ y.MissingRxBlocks = {NbrOf(t) : t \in (Got(y) + 1 .. e) \ Pend(y)}

\* Every text sent is with the receiver or on the list to be repeated, but for
\* those numbered 0.
Covered(x, y) ==
    \A t \in 1 .. Sent(x) :
        NbrOf(t) = 0 \/ t \in Texts(x.TxMissing) \/ t \in y.printed \/ t \in Pend(y)

\* The sender counts u texts acknowledged, and has sent less than a round more.
InWindow(x, y) ==
    \E u \in 0 .. Got(y) :
        /\ x.UrGoodHeader = NbrOf(u)
        /\ Sent(x) <= u + MaxCount - 3
        /\ Texts(x.TxMissing) \subseteq u + 1 .. Sent(x)
        /\ y.LinkState = WAITFORACK => u = 0

\* What is on the air is new to the receiver, each block once.
Flies(x, y) ==
    \A i \in 1 .. Len(x.air) : x.air[i].type = "DATA" =>
        LET b == x.air[i].block
        IN  /\ b.nbr = NbrOf(b.text) /\ b.text \in Got(y) + 1 .. Sent(x) /\ b.text \notin Pend(y)
            /\ \A j \in 1 .. Len(x.air) :
                    x.air[j].type = "DATA" /\ x.air[j].block.text = b.text => i = j

Keeps(x, y) ==
    /\ Got(y) <= Sent(x) /\ Pend(y) \subseteq 1 .. Sent(x)
    /\ InSess(x) => Covered(x, y) /\ Flies(x, y)
    /\ InSess(x) /\ ~x.hung =>
            x.LastHeader = NbrOf(Sent(x)) /\ Right(x.TxMissing) /\ InWindow(x, y)
    /\ x.LinkState = ARQ_CONNECTED =>
            \A t \in Texts(x.TxMissing) : t > Got(y) /\ t \notin Pend(y)
    /\ InSess(x) /\ y.LinkState = WAITFORACK =>
            1 .. Sent(x) \subseteq Texts(x.TxMissing) /\ ~x.hung

Line(x, y) ==
    /\ Mannered(x) /\ Mannered(y) /\ Mute(y) /\ Deaf(x)
    /\ Course(x, y)
    /\ Delivers(y)
    /\ Keeps(x, y)

Pair(x, y) == Sound(x) /\ Sound(y) /\ InStep(x) /\ InStep(y) /\ Line(x, y)

---------------------------------------------------------------------------
(* What depends on which fields *)

SameTx(x, z) ==
    /\ z.LastHeader = x.LastHeader /\ z.UrGoodHeader = x.UrGoodHeader
    /\ z.TxBlocks = x.TxBlocks /\ z.TxMissing = x.TxMissing
    /\ z.queued = x.queued /\ z.hung = x.hung

SameRx(y, z) ==
    /\ z.RxTextQueue = y.RxTextQueue /\ z.RxPending = y.RxPending /\ z.printed = y.printed
    /\ z.GoodHeader = y.GoodHeader /\ z.EndHeader = y.EndHeader
    /\ z.MissingRxBlocks = y.MissingRxBlocks

\* A station that only says what it had to say, or stays silent.
Talks(x, z) ==
    /\ SameTx(x, z) /\ SameRx(x, z) /\ z.LinkState = x.LinkState /\ Mannered(z)
    /\ Underway(z) \subseteq Underway(x)
    /\ (Speaks(z) => Speaks(x)) /\ (z.immediate => x.immediate)

LEMMA DeliversSame ==
    ASSUME NEW y, NEW z, Delivers(y), SameRx(y, z)
    PROVE  Delivers(z)
BY DEF Delivers, SameRx, Got, Pend

LEMMA DeliversFresh ==
    ASSUME NEW z, Deaf(z), z.GoodHeader = MaxCount - 1, z.EndHeader = MaxCount - 1,
           z.MissingRxBlocks = {}
    PROVE  Delivers(z)
<1>1. Got(z) = 0 /\ Pend(z) = {}
  BY EmptySeq DEF Got, Pend, Deaf, Texts
<1>2. 0 \in 0 .. 0 + MaxCount - 3
  BY MaxCountAssumption
<1>3. {NbrOf(t) : t \in (0 + 1 .. 0) \ {}} = {}
  OBVIOUS
<1> QED  BY <1>1, <1>2, <1>3, NbrOfStart DEF Delivers, Deaf, Right

LEMMA KeepsFresh ==
    ASSUME NEW x, NEW y, Unsent(x), Deaf(y), ~x.hung,
           \A i \in 1 .. Len(x.air) : x.air[i].type # "DATA"
    PROVE  Keeps(x, y)
<1>0. Len(<<>>) = 0 /\ Texts({}) = {}
  BY EmptySeq DEF Texts
<1>1. Got(y) = 0 /\ Pend(y) = {} /\ Sent(x) = 0 /\ Texts(x.TxMissing) = {}
  <2>1. Got(y) = 0 /\ Pend(y) = {}
    BY <1>0, Zenon DEF Got, Pend, Deaf
  <2>2. x.queued = 0 /\ Len(x.TxBlocks) = 0 /\ Texts(x.TxMissing) = {}
    BY <1>0, Zenon DEF Unsent
  <2> QED  BY <2>1, <2>2 DEF Sent
<1>2. InWindow(x, y)
  <2>1. 0 \in 0 .. 0 /\ 0 <= 0 + MaxCount - 3
    BY MaxCountAssumption
  <2> QED  BY <1>1, <2>1, NbrOfStart DEF InWindow, Unsent
<1>3. Covered(x, y) /\ Flies(x, y)
  BY <1>1 DEF Covered, Flies
<1>4. x.LastHeader = NbrOf(Sent(x)) /\ Right(x.TxMissing)
  BY <1>1, NbrOfStart DEF Right, Unsent
<1> QED  BY <1>1, <1>2, <1>3, <1>4 DEF Keeps

LEMMA KeepsSame ==
    ASSUME NEW x, NEW y, NEW w, NEW z, Keeps(x, y), SameTx(x, w), SameRx(y, z),
           w.LinkState = x.LinkState, z.LinkState = WAITFORACK => y.LinkState = WAITFORACK,
           InSess(x) => Flies(w, z)
    PROVE  Keeps(w, z)
<1>1. Got(z) = Got(y) /\ Pend(z) = Pend(y) /\ Sent(w) = Sent(x) /\ (InSess(w) <=> InSess(x))
  BY DEF SameTx, SameRx, Got, Pend, Sent, InSess
<1>2. InWindow(x, y) => InWindow(w, z)
  BY <1>1 DEF InWindow, SameTx
<1>3. Covered(x, y) => Covered(w, z)
  BY <1>1 DEF Covered, SameTx, SameRx
<1> QED  BY <1>1, <1>2, <1>3 DEF Keeps, SameTx

LEMMA SilentUnderway ==
    ASSUME NEW x, Sound(x), Mannered(x)
    PROVE  (Speaks(x) <=> Underway(x) # {}) /\ (~Speaks(x) => x.TxTextQueue = <<>>)
<1>1. x.TxTextQueue \in Seq(Frames) /\ x.air \in Seq(Frames)
  BY DEF Whole, Sound, Station
<1>2. ASSUME NEW q \in Seq(Frames)
      PROVE  Elements(q) = {} <=> q = <<>>
  BY <1>2, EmptySeq DEF Elements
<1>3. x.immediate => x.TxTextQueue # <<>>
  <2>1. x.immediate => Len(x.TxTextQueue) = 1
    BY DEF Mannered
  <2>2. Len(<<>>) = 0
    BY EmptySeq
  <2> QED  BY <2>1, <2>2
<1> QED  BY <1>1, <1>2, <1>3 DEF Underway, Speaks, Mannered

LEMMA OnlyTalks ==
    ASSUME NEW x, NEW y, NEW w, NEW z, Line(x, y), Talks(x, w), Talks(y, z),
           Flies(x, y) => Flies(w, z)
    PROVE  Line(w, z)
<1>1. Delivers(z)
  BY DeliversSame DEF Line, Talks
<1>2. Keeps(w, z)
  <2>1. InSess(x) => Flies(w, z)
    BY DEF Line, Keeps
  <2> QED  BY <2>1, KeepsSame DEF Line, Talks
<1>3. Mute(z) /\ Deaf(w) /\ (Unsent(x) => Unsent(w)) /\ (Deaf(y) => Deaf(z))
  BY DEF Line, Talks, Mute, Deaf, Unsent, SameTx, SameRx
<1>4. /\ \A f \in Underway(w) : Apt(f, w, z)
      /\ \A f \in Underway(z) : Apt(f, z, w)
  <2>1. /\ \A f \in Underway(w) : Apt(f, x, y)
        /\ \A f \in Underway(z) : Apt(f, y, x)
    BY DEF Line, Course, Talks
  <2>2. \A f : Apt(f, x, y) => Apt(f, w, z)
    BY DEF Apt, Talks, SameRx, Deaf
  <2>3. \A f : Apt(f, y, x) => Apt(f, z, w)
    BY DEF Apt, Talks, SameRx, Deaf
  <2> QED  BY <2>1, <2>2, <2>3
<1>5. Course(w, z)
  BY <1>3, <1>4 DEF Line, Course, Talks
<1> QED  BY <1>1, <1>2, <1>3, <1>5 DEF Line, Talks

---------------------------------------------------------------------------
(* Steps in which a station at most says what it had to say *)

Keyed(x) == [TransmitData(x) EXCEPT !.retries = Retries, !.immediate = FALSE]

LEMMA KeyedTalks ==
    ASSUME NEW x, Sound(x), Mannered(x), x.immediate
    PROVE  /\ Talks(x, Keyed(x)) /\ Keyed(x).air = x.TxTextQueue /\ x.air = <<>>
           /\ x.LinkState # WAITING
<1> DEFINE z == Keyed(x)
<1>1. /\ x.TxTextQueue \in Seq(Frames) /\ Len(x.TxTextQueue) = 1 /\ x.air = <<>>
      /\ x.LinkState # WAITING /\ ~x.hung /\ ~x.arqstop
  BY DEF Mannered, Whole, Sound, Station
<1>2. x.TxTextQueue # <<>> /\ x.air \o x.TxTextQueue = x.TxTextQueue
  <2>1. Len(<<>>) = 0
    BY EmptySeq
  <2>2. x.TxTextQueue # <<>>
    BY <1>1, <2>1
  <2> QED  BY <1>1, <2>2, ConcatEmptySeq
<1>3. /\ z.air = x.TxTextQueue /\ z.TxTextQueue = <<>> /\ z.Sending /\ ~z.immediate
      /\ z.LinkState = x.LinkState /\ z.hung = x.hung /\ z.arqstop = x.arqstop
      /\ SameTx(x, z) /\ SameRx(x, z)
  BY <1>2 DEF Keyed, TransmitData, SameTx, SameRx, Whole, Sound, Station
<1> HIDE DEF z
<1>4. Mannered(z)
  <2>1. z.air = x.TxTextQueue /\ Len(x.TxTextQueue) <= 1
    BY <1>1, <1>3
  <2>2. Len(z.air) <= 1
    BY <2>1, Zenon
  <2> QED  BY <1>1, <1>3, <2>2, Zenon DEF Mannered
<1>5. Underway(z) = Underway(x)
  BY <1>1, <1>3 DEF Underway
<1>6. Speaks(x)
  BY DEF Speaks
<1> QED  BY <1>1, <1>3, <1>4, <1>5, <1>6 DEF Talks, z

LEMMA TailTalks ==
    ASSUME NEW x, Sound(x), Mannered(x), x.air # <<>>
    PROVE  LET z == [x EXCEPT !.air = Tail(@)]
           IN  /\ Talks(x, z) /\ z.air = Tail(x.air)
               /\ \A y : Flies(x, y) => Flies(z, y)
               /\ x.LinkState # WAITING => z.air = <<>> /\ ~Speaks(z)
               /\ ~x.immediate
<1> DEFINE z == [x EXCEPT !.air = Tail(@)]
           L == Len(x.air)
<1>1. /\ x.air \in Seq(Frames) /\ L \in Nat /\ L # 0 /\ Tail(x.air) \in Seq(Frames)
      /\ Len(Tail(x.air)) = L - 1 /\ \A i \in 1 .. L - 1 : Tail(x.air)[i] = x.air[i + 1]
  BY HeadTailProperties, LenProperties, EmptySeq DEF Whole, Sound, Station
<1>2. /\ z.air = Tail(x.air) /\ z.TxTextQueue = x.TxTextQueue /\ z.Sending = x.Sending
      /\ z.immediate = x.immediate /\ z.LinkState = x.LinkState /\ z.hung = x.hung
      /\ z.arqstop = x.arqstop /\ SameTx(x, z) /\ SameRx(x, z)
  BY DEF SameTx, SameRx, Whole, Sound, Station
<1> HIDE DEF z
<1>3. Burst(x.air) => Burst(z.air)
  BY <1>1, <1>2 DEF Burst
<1>4. x.LinkState # WAITING => Len(x.air) <= 1
  BY DEF Mannered
<1>5. Len(x.air) <= 1 => z.air = <<>>
  BY <1>1, <1>2, EmptySeq
<1>6. Mannered(z) /\ ~x.immediate
  <2>1. x.LinkState # WAITING => Len(z.air) <= 1
    BY <1>1, <1>2, <1>4
  <2> QED  BY <1>2, <1>3, <2>1 DEF Mannered
<1>7. Elements(z.air) \subseteq Elements(x.air)
  BY <1>1, <1>2 DEF Elements
<1>8. Talks(x, z)
  BY <1>2, <1>6, <1>7 DEF Talks, Underway, Speaks
<1>9. ASSUME NEW y, Flies(x, y)
      PROVE  Flies(z, y)
  <2>1. Sent(z) = Sent(x)
    BY <1>2 DEF Sent, SameTx
  <2> QED  BY <1>1, <1>2, <1>9, <2>1 DEF Flies
<1> QED  BY <1>2, <1>4, <1>5, <1>6, <1>8, <1>9 DEF z, Speaks

LEMMA StillTalks ==
    ASSUME NEW x, Sound(x), Mannered(x)
    PROVE  /\ Talks(x, x)
           /\ \A r, u : LET z == [x EXCEPT !.retries = r, !.UrCall = u]
                        IN  Talks(x, z) /\ z.air = x.air
           /\ x.air = <<>> => LET z == [x EXCEPT !.Sending = FALSE]
                              IN  Talks(x, z) /\ z.air = x.air
<1>1. Talks(x, x)
  BY DEF Talks, SameTx, SameRx
<1>2. ASSUME NEW r, NEW u
      PROVE  LET z == [x EXCEPT !.retries = r, !.UrCall = u]
             IN  Talks(x, z) /\ z.air = x.air
  BY DEF Talks, SameTx, SameRx, Mannered, Underway, Speaks, Whole, Sound, Station
<1>3. ASSUME x.air = <<>>
      PROVE  LET z == [x EXCEPT !.Sending = FALSE]
             IN  Talks(x, z) /\ z.air = x.air
  BY <1>3 DEF Talks, SameTx, SameRx, Mannered, Underway, Speaks, Whole, Sound, Station
<1> QED  BY <1>1, <1>2, <1>3

\* A turn in which retrytime does not run out.
LEMMA IdleTurn ==
    ASSUME NEW x, Sound(x), InStep(x), Mannered(x), x.LinkState # TIMEDOUT
    PROVE  \/ ArqLoop(x, "idle") = x
           \/ x.immediate /\ ArqLoop(x, "idle") = Keyed(x)
           \/ /\ x.LinkState = ARQ_CONNECTED /\ ~x.immediate /\ x.TxTextQueue = <<>>
              /\ x.air = <<>> /\ (x.TxMissing # {} \/ x.TxBlocks # <<>>)
              /\ ArqLoop(x, "idle") = TransmitData(SendBlocks(x))
<1>1. ArqLoop(x, "idle") = Turn(x, "idle")
  BY DEF ArqLoop, Mannered
<1>2. CASE x.Sending
  BY <1>1, <1>2 DEF Turn
<1>3. CASE ~x.Sending /\ x.immediate
  BY <1>1, <1>3 DEF Turn, Keyed
<1>4. CASE ~x.Sending /\ ~x.immediate
  <2>1. x.air = <<>> /\ x.TxTextQueue = <<>> /\ TransmitData(x) = x
    BY <1>4 DEF Mannered, TransmitData
  <2>2. Turn(x, "idle") = Expire(Switch(x, FALSE), FALSE)
    BY <1>4 DEF Turn
  <2>3. \A z : Whole(z) /\ z.retries >= 1 => Expire(z, FALSE) = z
    BY DEF Expire, Whole, Station
  <2>4. \/ Switch(x, FALSE) = x
        \/ /\ x.LinkState = ARQ_CONNECTED /\ (x.TxMissing # {} \/ x.TxBlocks # <<>>)
           /\ Switch(x, FALSE) = TransmitData(SendBlocks(x))
    <3>1. x.LinkState = DOWN => x.TxBlocks = <<>> /\ x.TxMissing = {}
      BY DEF InStep, DOWN, TIMEDOUT
    <3> QED  BY <2>1, <3>1 DEF Switch, InStep, DOWN, TIMEDOUT, ABORT, ARQ_CONNECTING, ARQ_CONNECTED,
                WAITING, WAITFORACK, DISCONNECT, DISCONNECTING, ABORTING
  <2>5. Sound(TransmitData(SendBlocks(x)))
    BY SendBlocksSound, TransmitDataSound
  <2> QED  BY <1>1, <1>4, <2>1, <2>2, <2>3, <2>4, <2>5 DEF Sound
<1> QED  BY <1>2, <1>3, <1>4

\* A turn in which it does: the frame again, or the end of the link.
LEMMA RetryTurn ==
    ASSUME NEW x, Sound(x), Mannered(x), x.LinkState \in {WAITING, WAITFORACK},
           ~x.Sending, ~x.immediate
    PROVE  /\ x.air = <<>> /\ x.TxTextQueue = <<>>
           /\ \/ ArqLoop(x, "retry") = GiveUp([x EXCEPT !.retries = 0])
              \/ \E again : /\ again = IF x.LinkState = WAITING THEN Report(x, "POLL") ELSE AckFrame(x)
                            /\ ArqLoop(x, "retry")
                                  = TransmitData([again EXCEPT !.retries = x.retries - 1])
<1> DEFINE again == IF x.LinkState = WAITING THEN Report(x, "POLL") ELSE AckFrame(x)
           more  == TransmitData([again EXCEPT !.retries = x.retries - 1])
           last  == [x EXCEPT !.retries = 0]
<1>1. x.air = <<>> /\ x.TxTextQueue = <<>> /\ ~x.arqstop /\ x.retries \in Nat
  BY StationAssumption DEF Mannered, Whole, Sound, Station
<1>2. [x EXCEPT !.TxTextQueue = <<>>] = x
  BY <1>1 DEF Whole, Sound, Station
<1>3. Switch(x, TRUE) = Repeat(x, again)
  BY <1>2 DEF Switch, DOWN, TIMEDOUT, ABORT, ARQ_CONNECTING, ARQ_CONNECTED, WAITING, WAITFORACK,
              DISCONNECT, DISCONNECTING, ABORTING
<1> HIDE DEF again
<1>4. Repeat(x, again) = IF x.retries <= 1 THEN last ELSE more
  BY DEF Repeat
<1>5. ArqLoop(x, "retry") = Expire(Repeat(x, again), FALSE)
  <2>1. Turn(x, "retry") = Expire(Switch(x, TRUE), FALSE)
    BY DEF Turn
  <2> QED  BY <1>1, <1>3, <2>1 DEF ArqLoop
<1>6. last.retries = 0
  BY DEF Whole, Sound, Station
<1>7. more.retries = x.retries - 1
  <2>1. again \in Station
    <3>1. Sound(Report(x, "POLL")) /\ Sound(AckFrame(x))
      BY ReportSound, ResetSound, SendSound DEF Reports, Plain, AckFrame
    <3> QED  BY <3>1 DEF again, Whole, Sound
  <2> QED  BY <2>1 DEF TransmitData, Station
<1> HIDE DEF last, more
<1>8. Expire(last, FALSE) = GiveUp(last)
  BY <1>6 DEF Expire
<1>9. ~(x.retries <= 1) => Expire(more, FALSE) = more
  BY <1>1, <1>7 DEF Expire
<1> QED  BY <1>1, <1>4, <1>5, <1>8, <1>9 DEF last, more, again

---------------------------------------------------------------------------
(* Repeats and the end of the link; nobody speaks when retrytime runs out *)

LEMMA SilentCourse ==
    ASSUME NEW x, Mannered(x), ~Speaks(x)
    PROVE  Underway(x) = {} /\ x.air = <<>> /\ x.TxTextQueue = <<>> /\ ~x.immediate
<1>1. x.air = <<>> /\ x.TxTextQueue = <<>> /\ ~x.immediate
  BY DEF Mannered, Speaks
<1>2. Elements(<<>>) = {}
  BY EmptySeq DEF Elements
<1> QED  BY <1>1, <1>2 DEF Underway

\* retries = 0: the lists are cleared, the link is down.
LEMMA GiveUpLine ==
    ASSUME NEW x, NEW y, Pair(x, y), ~Speaks(x), ~Speaks(y)
    PROVE  /\ ~x.hung /\ ~x.Sending => Line(GiveUp([x EXCEPT !.retries = 0]), y)
           /\ ~y.Sending => Line(x, GiveUp([y EXCEPT !.retries = 0]))
<1>1. /\ Underway(x) = {} /\ x.air = <<>> /\ x.TxTextQueue = <<>> /\ ~x.immediate
      /\ Underway(y) = {} /\ y.air = <<>> /\ y.TxTextQueue = <<>> /\ ~y.immediate
  BY SilentCourse DEF Pair, Line
<1>2. ASSUME NEW a, Sound(a), Mannered(a), a.air = <<>>, ~a.immediate, ~a.hung
      PROVE  LET z == GiveUp([a EXCEPT !.retries = 0])
             IN  /\ z.LinkState = DOWN /\ z.TxBlocks = <<>> /\ z.TxMissing = {}
                 /\ z.TxTextQueue = <<>> /\ z.air = <<>>
                 /\ SameRx(a, z) /\ z.queued = a.queued /\ z.LastHeader = a.LastHeader
                 /\ z.UrGoodHeader = a.UrGoodHeader /\ Mannered(z) /\ ~Speaks(z)
                 /\ ~z.hung /\ Underway(z) = {}
  <2> DEFINE z == GiveUp([a EXCEPT !.retries = 0])
  <2>1. /\ z.LinkState = DOWN /\ z.TxBlocks = <<>> /\ z.TxMissing = {}
        /\ z.TxTextQueue = <<>> /\ z.air = <<>> /\ ~z.immediate
        /\ SameRx(a, z) /\ z.queued = a.queued /\ z.LastHeader = a.LastHeader
        /\ z.UrGoodHeader = a.UrGoodHeader /\ ~z.hung /\ z.arqstop = a.arqstop
    BY <1>2 DEF GiveUp, ClearTx, SameRx, Whole, Sound, Station
  <2> HIDE DEF z
  <2>2. Mannered(z)
    <3>1. Len(z.air) <= 1
      BY <2>1, EmptySeq
    <3> QED  BY <1>2, <2>1, <3>1 DEF Mannered, DOWN, WAITING
  <2>3. Underway(z) = {}
    BY <2>1, EmptySeq DEF Underway, Elements
  <2> QED  BY <2>1, <2>2, <2>3 DEF z, Speaks
<1>3. ASSUME ~x.hung
      PROVE  Line(GiveUp([x EXCEPT !.retries = 0]), y)
  <2> DEFINE z == GiveUp([x EXCEPT !.retries = 0])
  <2>1. /\ z.LinkState = DOWN /\ z.TxBlocks = <<>> /\ z.TxMissing = {}
        /\ SameRx(x, z) /\ z.queued = x.queued /\ z.LastHeader = x.LastHeader
        /\ z.UrGoodHeader = x.UrGoodHeader /\ Mannered(z) /\ ~Speaks(z) /\ Underway(z) = {}
    BY <1>1, <1>2, <1>3 DEF Pair, Line
  <2> HIDE DEF z
  <2>2. Deaf(z) /\ (Unsent(x) => Unsent(z))
    BY <2>1 DEF Pair, Line, Deaf, Unsent, SameRx
  <2>3. Course(z, y)
    BY <1>1, <2>1, <2>2 DEF Pair, Line, Course, DOWN, TIMEDOUT, ARQ_CONNECTING, WAITFORACK
  <2>4. Keeps(z, y)
    <3>1. Sent(z) >= Sent(x) /\ Sent(z) \in Int /\ Sent(x) \in Int
      <4>1. Len(x.TxBlocks) \in Nat /\ x.queued \in Nat
        BY LenProperties, StationAssumption DEF Pair, Whole, Sound, Station
      <4>2. Sent(z) = x.queued - 0
        BY <2>1, EmptySeq DEF Sent
      <4> QED  BY <4>1, <4>2 DEF Sent
    <3>2. Got(y) \in Nat
      BY LenProperties DEF Pair, Whole, Sound, Station, Got
    <3>3. Got(y) <= Sent(x) /\ Pend(y) \subseteq 1 .. Sent(x)
      BY DEF Pair, Line, Keeps
    <3>4. Got(y) <= Sent(z) /\ Pend(y) \subseteq 1 .. Sent(z)
      BY <3>1, <3>2, <3>3
    <3>5. ~InSess(z)
      BY <2>1 DEF InSess, DOWN, ARQ_CONNECTED, WAITING
    <3> QED  BY <2>1, <3>4, <3>5 DEF Keeps, InSess
  <2> QED  BY <2>1, <2>2, <2>3, <2>4 DEF Pair, Line, z
<1>4. Line(x, GiveUp([y EXCEPT !.retries = 0]))
  <2> DEFINE z == GiveUp([y EXCEPT !.retries = 0])
  <2>1. /\ z.LinkState = DOWN /\ z.TxBlocks = <<>> /\ z.TxMissing = {}
        /\ SameRx(y, z) /\ z.queued = y.queued /\ z.LastHeader = y.LastHeader
        /\ Mannered(z) /\ ~Speaks(z) /\ Underway(z) = {} /\ ~z.hung
    BY <1>1, <1>2 DEF Pair, Line, Mute
  <2> HIDE DEF z
  <2>2. Mute(z) /\ (Deaf(y) => Deaf(z))
    BY <2>1 DEF Pair, Line, Deaf, Mute, SameRx, DOWN, WAITING
  <2>3. Course(x, z)
    BY <1>1, <2>1, <2>2 DEF Pair, Line, Course, DOWN, TIMEDOUT, ARQ_CONNECTING, WAITFORACK
  <2>4. Delivers(z)
    BY <2>1, DeliversSame DEF Pair, Line
  <2>5. Keeps(x, z)
    <3>1. Got(z) = Got(y) /\ Pend(z) = Pend(y) /\ z.LinkState # WAITFORACK
      BY <2>1 DEF Got, Pend, SameRx, DOWN, WAITFORACK
    <3>2. InSess(x) => Flies(x, z)
      BY <3>1 DEF Pair, Line, Keeps, Flies
    <3> QED  BY <2>1, <3>1, <3>2, KeepsSame DEF Pair, Line, SameTx
  <2> QED  BY <2>1, <2>2, <2>3, <2>4, <2>5 DEF Pair, Line, z
<1> QED  BY <1>3, <1>4

\* A station whose session begins, and what it has to say.
Begins(x, z) ==
    /\ Deaf(z) /\ z.GoodHeader = MaxCount - 1 /\ z.EndHeader = MaxCount - 1
    /\ z.MissingRxBlocks = {}
    /\ z.LastHeader = MaxCount - 1 /\ z.TxBlocks = <<>> /\ z.TxMissing = {}
    /\ z.UrGoodHeader = x.UrGoodHeader /\ z.queued = x.queued /\ z.printed = x.printed
    /\ z.hung = x.hung

Says(z, f) == Mannered(z) /\ Underway(z) = {f}

LEMMA AckAgain ==
    ASSUME NEW x, Sound(x), Mannered(x), x.LinkState = WAITFORACK, ~Speaks(x), NEW r
    PROVE  LET z == TransmitData([AckFrame(x) EXCEPT !.retries = r])
           IN  /\ Begins(x, z) /\ Says(z, [type |-> "CONACK"])
               /\ z.LinkState = WAITFORACK /\ ~z.immediate /\ z.air = <<[type |-> "CONACK"]>>
<1> DEFINE f == [type |-> "CONACK"]
           z == TransmitData([AckFrame(x) EXCEPT !.retries = r])
<1>1. x.air = <<>> /\ x.TxTextQueue = <<>> /\ ~x.immediate /\ ~x.hung /\ ~x.arqstop
  BY SilentCourse DEF Mannered, WAITING, WAITFORACK
<1>2. Append(<<>>, f) = <<f>> /\ <<>> \o <<f>> = <<f>> /\ <<f>> # <<>> /\ Len(<<f>>) = 1
  OBVIOUS
<1> HIDE DEF f
<1>3. /\ z.air = <<f>> /\ z.TxTextQueue = <<>> /\ z.Sending /\ ~z.immediate
      /\ z.LinkState = WAITFORACK /\ ~z.hung /\ ~z.arqstop /\ Begins(x, z)
  <2> DEFINE w == [AckFrame(x) EXCEPT !.retries = r]
  <2>1. x \in Station
    BY DEF Whole, Sound
  <2>2. /\ w.air = <<>> /\ w.TxTextQueue = <<f>> /\ ~w.immediate
        /\ w.LinkState = WAITFORACK /\ ~w.hung /\ ~w.arqstop /\ Begins(x, w)
        /\ DOMAIN w = DOMAIN x
    BY <1>1, <1>2, <2>1 DEF f, AckFrame, Send, AddToTxQue, Reset, Begins, Deaf, Station
  <2> HIDE DEF w
  <2>3. z = [w EXCEPT !.air = <<f>>, !.TxTextQueue = <<>>, !.Sending = TRUE]
    BY <1>2, <2>2 DEF TransmitData, w
  <2> HIDE DEF z
  <2>4. {"air", "TxTextQueue", "Sending"} \subseteq DOMAIN w
    BY <2>1, <2>2 DEF Station
  <2> QED  BY <2>2, <2>3, <2>4 DEF Begins, Deaf
<1> HIDE DEF z
<1>4. Mannered(z)
  <2>1. Len(z.air) <= 1
    BY <1>2, <1>3
  <2>2. z.LinkState # WAITING
    BY <1>3 DEF WAITING, WAITFORACK
  <2> QED  BY <1>3, <2>1, <2>2, Zenon DEF Mannered
<1>5. Elements(<<f>>) = {f} /\ Elements(<<>>) = {}
  BY DEF Elements
<1>6. Underway(z) = {f}
  BY <1>3, <1>5 DEF Underway
<1> QED  BY <1>3, <1>4, <1>6 DEF Says, z, f

\* A station that begins anew is as good as a new one.
LEMMA BeginsFresh ==
    ASSUME NEW x, NEW z, Begins(x, z)
    PROVE  Delivers(z) /\ (Unsent(x) => Unsent(z)) /\ (Mute(x) /\ z.LinkState # WAITING => Mute(z))
<1>1. Delivers(z)
  BY DeliversFresh DEF Begins
<1> QED  BY <1>1 DEF Begins, Unsent, Mute

\* The connect acknowledgement again: a receiver forgets what it was given.
LEMMA AckAgainLine ==
    ASSUME NEW x, NEW y, Pair(x, y), ~Speaks(x), ~Speaks(y), NEW r
    PROVE  /\ x.LinkState = WAITFORACK =>
                    Line(TransmitData([AckFrame(x) EXCEPT !.retries = r]), y)
           /\ y.LinkState = WAITFORACK =>
                    Line(x, TransmitData([AckFrame(y) EXCEPT !.retries = r]))
<1> DEFINE f == [type |-> "CONACK"]
<1>1. Underway(x) = {} /\ Underway(y) = {} /\ x.air = <<>>
  BY SilentCourse DEF Pair, Line
<1>2. ASSUME x.LinkState = WAITFORACK
      PROVE  Line(TransmitData([AckFrame(x) EXCEPT !.retries = r]), y)
  <2> DEFINE z == TransmitData([AckFrame(x) EXCEPT !.retries = r])
  <2>1. /\ Begins(x, z) /\ Says(z, f)
        /\ z.LinkState = WAITFORACK /\ ~z.immediate /\ z.air = <<f>>
    BY <1>2, AckAgain DEF Pair, Line
  <2> HIDE DEF z
  <2>2. Deaf(z) /\ Unsent(z) /\ Deaf(y)
    BY <1>2, <2>1, BeginsFresh DEF Begins, Pair, Line, Course
  <2>3. Apt(f, z, y)
    BY <2>1, <2>2 DEF Apt, DOWN, ARQ_CONNECTING, ARQ_CONNECTED, WAITFORACK
  <2>4. Course(z, y)
    BY <1>1, <1>2, <2>1, <2>2, <2>3 DEF Says, Pair, Line, Course, DOWN, TIMEDOUT,
       ARQ_CONNECTING, WAITFORACK
  <2>5. Keeps(z, y)
    <3>1. ~z.hung
      BY <1>2, <2>1 DEF Begins, Pair, Line, Mannered, WAITING, WAITFORACK
    <3>2. \A i \in 1 .. Len(z.air) : z.air[i].type # "DATA"
      BY <2>1
    <3> QED  BY <2>2, <3>1, <3>2, KeepsFresh
  <2> QED  BY <2>1, <2>2, <2>4, <2>5 DEF Pair, Line, Says, z
<1>3. ASSUME y.LinkState = WAITFORACK
      PROVE  Line(x, TransmitData([AckFrame(y) EXCEPT !.retries = r]))
  <2> DEFINE z == TransmitData([AckFrame(y) EXCEPT !.retries = r])
  <2>1. /\ Begins(y, z) /\ Says(z, f)
        /\ z.LinkState = WAITFORACK /\ ~z.immediate /\ z.air = <<f>>
    BY <1>3, AckAgain DEF Pair, Line
  <2> HIDE DEF z
  <2>2. Deaf(z) /\ Delivers(z) /\ Mute(z)
    BY <2>1, BeginsFresh DEF Begins, Pair, Line, WAITING, WAITFORACK
  <2>3. Apt(f, z, x)
    BY <2>1, <2>2 DEF Apt, DOWN, ARQ_CONNECTING, ARQ_CONNECTED, WAITFORACK
  <2>4. Course(x, z)
    BY <1>1, <1>3, <2>1, <2>2, <2>3 DEF Says, Pair, Line, Course, Speaks, DOWN, TIMEDOUT,
       ARQ_CONNECTING, WAITFORACK
  <2>5. Keeps(x, z)
    <3>1. Got(z) = 0 /\ Pend(z) = {}
      BY <2>2, EmptySeq DEF Deaf, Got, Pend, Texts
    <3>2. Got(y) \in Nat /\ Got(y) <= Sent(x) /\ Sent(x) \in Int
      <4>1. Len(x.TxBlocks) \in Nat /\ x.queued \in Nat /\ Got(y) \in Nat
        BY LenProperties, StationAssumption DEF Pair, Whole, Sound, Station, Got
      <4> QED  BY <4>1 DEF Sent, Pair, Line, Keeps
    <3>3. CASE ~InSess(x)
      BY <3>1, <3>2, <3>3 DEF Keeps, InSess
    <3>4. CASE InSess(x)
      <4>1. /\ x.LastHeader = NbrOf(Sent(x)) /\ Right(x.TxMissing) /\ InWindow(x, y) /\ ~x.hung
            /\ 1 .. Sent(x) \subseteq Texts(x.TxMissing)
        BY <1>3, <3>4 DEF Pair, Line, Keeps
      <4>2. InWindow(x, z)
        <5>1. /\ x.UrGoodHeader = NbrOf(0) /\ Sent(x) <= 0 + MaxCount - 3
              /\ Texts(x.TxMissing) \subseteq 0 + 1 .. Sent(x)
          BY <1>3, <4>1 DEF InWindow
        <5>2. 0 \in 0 .. 0
          OBVIOUS
        <5> QED  BY <3>1, <5>1, <5>2 DEF InWindow
      <4>3. Covered(x, z)
        BY <4>1 DEF Covered
      <4>4. Flies(x, z)
        BY <1>1, EmptySeq DEF Flies
      <4>5. \A t \in Texts(x.TxMissing) : t > 0
        <5>1. x.TxMissing \in SUBSET Blocks
          BY DEF Pair, Whole, Sound, Station
        <5> QED  BY <5>1, StationAssumption DEF Texts, Blocks, Text
      <4> QED  BY <3>1, <3>2, <3>4, <4>1, <4>2, <4>3, <4>4, <4>5 DEF Keeps
    <3> QED  BY <3>3, <3>4
  <2> QED  BY <2>1, <2>2, <2>4, <2>5 DEF Pair, Line, Says, z
<1> QED  BY <1>2, <1>3

---------------------------------------------------------------------------
(* The sender's own steps *)

\* Two lists of blocks in the order of their texts, the second behind the
\* first, make a burst that holds each text once.
LEMMA BurstOf ==
    ASSUME NEW p \in Seq(Blocks), NEW q \in Seq(Blocks), NEW poll, poll.type = "POLL",
           \A i, j \in 1 .. Len(p) : i < j => p[i].text < p[j].text,
           \A i, j \in 1 .. Len(q) : i < j => q[i].text < q[j].text,
           \A i \in 1 .. Len(p), j \in 1 .. Len(q) : p[i].text < q[j].text
    PROVE  LET r == Append(DataFrames(p) \o DataFrames(q), poll)
           IN  /\ Burst(r) /\ r # <<>>
               /\ \A i \in 1 .. Len(r) : r[i].type = "DATA" =>
                    /\ r[i].block \in Elements(p) \cup Elements(q)
                    /\ \A j \in 1 .. Len(r) :
                            r[j].type = "DATA" /\ r[j].block.text = r[i].block.text => i = j
<1> DEFINE r == Append(DataFrames(p) \o DataFrames(q), poll)
           m == Len(p)
           n == Len(q)
           b == [i \in 1 .. m + n |-> IF i <= m THEN p[i] ELSE q[i - m]]
<1>1. m \in Nat /\ n \in Nat /\ DataFrames(p) \in Seq(Frames) /\ DataFrames(q) \in Seq(Frames)
  BY LenProperties, DataFramesType
<1>2. Len(DataFrames(p)) = m /\ Len(DataFrames(q)) = n
  BY <1>1 DEF DataFrames
<1>3. /\ Len(r) = m + n + 1 /\ r[m + n + 1] = poll
      /\ \A i \in 1 .. m : r[i] = DataFrames(p)[i]
      /\ \A i \in m + 1 .. m + n : r[i] = DataFrames(q)[i - m]
  <2> DEFINE dp == DataFrames(p)
             dq == DataFrames(q)
  <2> HIDE DEF dp, dq
  <2>1. /\ dp \o dq \in Seq(Frames) /\ Len(dp \o dq) = m + n
        /\ \A i \in 1 .. m + n : (dp \o dq)[i] = IF i <= m THEN dp[i] ELSE dq[i - m]
    <3>1. dp \in Seq(Frames) /\ dq \in Seq(Frames) /\ Len(dp) = m /\ Len(dq) = n
      BY <1>1, <1>2 DEF dp, dq
    <3> HIDE DEF m, n
    <3> QED  BY <3>1, ConcatProperties
  <2> DEFINE d == dp \o dq
  <2> HIDE DEF d, m, n
  <2>2. Len(Append(d, poll)) = m + n + 1 /\ Append(d, poll)[m + n + 1] = poll
        /\ \A i \in 1 .. m + n : Append(d, poll)[i] = d[i]
    <3>1. d \in Seq(Frames) /\ Len(d) = m + n
      BY <2>1 DEF d
    <3> QED  BY <1>1, <3>1, SMTT(30)
  <2>3. r = Append(d, poll)
    BY DEF d, dp, dq
  <2>4. \A i \in 1 .. m : i \in 1 .. m + n /\ i <= m
    BY <1>1
  <2>5. \A i \in m + 1 .. m + n : i \in 1 .. m + n /\ ~(i <= m)
    BY <1>1
  <2>6. \A i \in 1 .. m + n : r[i] = IF i <= m THEN dp[i] ELSE dq[i - m]
    BY <2>1, <2>2, <2>3 DEF d
  <2> QED  BY <2>2, <2>3, <2>4, <2>5, <2>6 DEF dp, dq
<1> HIDE DEF r
<1>4. \A i \in 1 .. m + n : r[i].type = "DATA" /\ r[i].block = b[i]
  <2>1. \A i \in 1 .. m : r[i] = [type |-> "DATA", block |-> p[i]]
    BY <1>1, <1>3 DEF DataFrames
  <2>2. ASSUME NEW i \in m + 1 .. m + n
        PROVE  r[i] = [type |-> "DATA", block |-> q[i - m]]
    <3>1. r[i] = DataFrames(q)[i - m] /\ i - m \in 1 .. n
      BY <1>1, <1>3
    <3> QED  BY <3>1 DEF DataFrames
  <2> TAKE i \in 1 .. m + n
  <2>3. (i \in 1 .. m /\ i <= m) \/ (i \in m + 1 .. m + n /\ ~(i <= m))
    BY <1>1
  <2>4. CASE i \in 1 .. m /\ i <= m
    <3>1. b[i] = p[i] /\ r[i] = [type |-> "DATA", block |-> p[i]]
      BY <2>1, <2>4
    <3> HIDE DEF b
    <3> QED  BY <3>1
  <2>5. CASE i \in m + 1 .. m + n /\ ~(i <= m)
    <3>1. b[i] = q[i - m] /\ r[i] = [type |-> "DATA", block |-> q[i - m]]
      BY <2>2, <2>5
    <3> HIDE DEF b
    <3> QED  BY <3>1
  <2> QED  BY <2>3, <2>4, <2>5
<1>5. \A i \in 1 .. m + n : b[i] \in Elements(p) \cup Elements(q)
  <2> TAKE i \in 1 .. m + n
  <2>1. i \in 1 .. m \/ (~(i <= m) /\ i - m \in 1 .. n)
    BY <1>1
  <2> QED  BY <1>1, <2>1 DEF Elements
<1>6. \A i, j \in 1 .. m + n : i < j => b[i].text < b[j].text
  <2> TAKE i, j \in 1 .. m + n
  <2> HAVE i < j
  <2>1. CASE j <= m
    <3>1. i \in 1 .. m /\ j \in 1 .. m
      BY <1>1, <2>1
    <3> QED  BY <2>1, <3>1
  <2>2. CASE i <= m /\ ~(j <= m)
    <3>1. i \in 1 .. m /\ j - m \in 1 .. n
      BY <1>1, <2>2
    <3> QED  BY <2>2, <3>1
  <2>3. CASE ~(i <= m)
    <3>1. i - m \in 1 .. n /\ j - m \in 1 .. n /\ i - m < j - m /\ ~(j <= m)
      BY <1>1, <2>3
    <3> QED  BY <2>3, <3>1
  <2> QED  BY <1>1, <2>1, <2>2, <2>3
<1>7. \A i \in 1 .. m + n : b[i].text \in Nat
  <2>1. Elements(p) \subseteq Blocks /\ Elements(q) \subseteq Blocks
    BY DEF Elements
  <2>2. \A c \in Blocks : c.text \in Nat
    BY StationAssumption DEF Blocks, Text
  <2> HIDE DEF b
  <2> QED  BY <1>5, <2>1, <2>2
<1> HIDE DEF b, m, n
<1>8. \A i, j \in 1 .. m + n : b[i].text = b[j].text => i = j
  BY <1>1, <1>6, <1>7
<1>9. \A i \in 1 .. Len(r) : r[i].type = "DATA" <=> i \in 1 .. m + n
  <2> TAKE i \in 1 .. Len(r)
  <2>1. i \in 1 .. m + n \/ i = m + n + 1
    BY <1>1, <1>3
  <2>2. ~(m + n + 1 \in 1 .. m + n)
    BY <1>1
  <2>3. r[m + n + 1].type # "DATA"
    BY <1>3
  <2> QED  BY <1>4, <2>1, <2>2, <2>3
<1>10. Burst(r) /\ r # <<>>
  <2>1. r # <<>>
    BY <1>1, <1>3, EmptySeq
  <2>2. \A i \in 1 .. Len(r) : i # Len(r) => i \in 1 .. m + n
    BY <1>1, <1>3
  <2>3. r[Len(r)].type = "POLL"
    BY <1>3
  <2> QED  BY <1>4, <2>1, <2>2, <2>3 DEF Burst
<1>11. ASSUME NEW i \in 1 .. Len(r), r[i].type = "DATA"
       PROVE  /\ r[i].block \in Elements(p) \cup Elements(q)
              /\ \A j \in 1 .. Len(r) :
                      r[j].type = "DATA" /\ r[j].block.text = r[i].block.text => i = j
  <2>1. i \in 1 .. m + n /\ r[i].block = b[i]
    BY <1>4, <1>9, <1>11
  <2>2. \A j \in 1 .. Len(r) : r[j].type = "DATA" => j \in 1 .. m + n /\ r[j].block = b[j]
    BY <1>4, <1>9
  <2> QED  BY <1>5, <1>8, <2>1, <2>2
<1> QED  BY <1>10, <1>11 DEF r

\* While a station waits for a report, all it says is a burst.
LEMMA WaitingCourse ==
    ASSUME NEW x, NEW z, NEW y, Course(x, y), ~Speaks(y), Underway(y) = {}, z.LinkState = WAITING,
           x.LinkState \in {ARQ_CONNECTED, WAITING}
    PROVE  Course(z, y)
BY DEF Course, Apt, DOWN, TIMEDOUT, ARQ_CONNECTING, ARQ_CONNECTED, WAITING, WAITFORACK

\* The poll again.
LEMMA PollAgainLine ==
    ASSUME NEW x, NEW y, Pair(x, y), ~Speaks(x), ~Speaks(y), ~x.hung, x.LinkState = WAITING, NEW r
    PROVE  Line(TransmitData([Report(x, "POLL") EXCEPT !.retries = r]), y)
<1> DEFINE f == [type |-> "POLL", last |-> x.LastHeader, good |-> x.GoodHeader,
                 end |-> x.EndHeader, missing |-> x.MissingRxBlocks]
           z == TransmitData([Report(x, "POLL") EXCEPT !.retries = r])
<1>1. Underway(y) = {} /\ x.air = <<>> /\ x.TxTextQueue = <<>> /\ ~x.immediate /\ ~x.arqstop
  BY SilentCourse DEF Pair, Line, Mannered
<1>2. /\ Append(<<>>, f) = <<f>> /\ <<>> \o <<f>> = <<f>> /\ <<f>> # <<>> /\ Len(<<f>>) = 1
      /\ <<f>>[1] = f /\ f.type = "POLL"
  OBVIOUS
<1> HIDE DEF f
<1>3. /\ z.air = <<f>> /\ z.TxTextQueue = <<>> /\ z.Sending /\ ~z.immediate
      /\ z.LinkState = WAITING /\ ~z.hung /\ ~z.arqstop /\ SameTx(x, z) /\ SameRx(x, z)
  BY <1>1, <1>2 DEF f, TransmitData, Report, AddToTxQue, SameTx, SameRx,
                    Pair, Whole, Sound, Station
<1> HIDE DEF z
<1>4. Mannered(z)
  <2>1. Burst(z.air)
    BY <1>2, <1>3 DEF Burst
  <2> QED  BY <1>3, <2>1, Zenon DEF Mannered
<1>5. Course(z, y)
  BY <1>1, <1>3, WaitingCourse DEF Pair, Line
<1>6. Keeps(z, y)
  <2>1. Flies(z, y)
    BY <1>2, <1>3 DEF Flies
  <2> QED  BY <1>3, <2>1, KeepsSame DEF Pair, Line, SameRx
<1>7. Deaf(z)
  BY <1>3 DEF Pair, Line, Deaf, SameRx
<1> QED  BY <1>4, <1>5, <1>6, <1>7 DEF Pair, Line, z

\* sendText: the new blocks wait behind the others.
LEMMA SendTextLine ==
    ASSUME NEW x, NEW y, Pair(x, y), InSess(x), NEW n \in 1 .. MaxText - x.queued
    PROVE  Line(SendText(x, n), y) /\ SendText(x, n).queued = x.queued + n
<1> DEFINE z == SendText(x, n)
           new == [k \in 1 .. n |-> [nbr |-> (x.Lastqueued + k) % MaxCount,
                                     text |-> x.queued + k]]
<1>1. /\ x.TxBlocks \in Seq(Blocks) /\ x.queued \in Nat /\ n \in Nat /\ n >= 1
      /\ Len(x.TxBlocks) \in Nat /\ x.queued + n \in 0 .. MaxText
  BY LenProperties, StationAssumption, SMTT(30) DEF Pair, Whole, Sound, Station
<1>2. Sound(z)
  BY SendTextSound DEF Pair
<1>3. z.queued = x.queued + n /\ z.TxBlocks = x.TxBlocks \o new
      /\ z.air = x.air /\ z.TxTextQueue = x.TxTextQueue /\ z.Sending = x.Sending
      /\ z.immediate = x.immediate /\ z.LinkState = x.LinkState /\ z.hung = x.hung
      /\ z.arqstop = x.arqstop /\ z.LastHeader = x.LastHeader /\ z.UrGoodHeader = x.UrGoodHeader
      /\ z.TxMissing = x.TxMissing /\ SameRx(x, z)
  <2>1. ~(x.LinkState < ARQ_CONNECTED)
    BY DEF InSess, ARQ_CONNECTED, WAITING
  <2>2. z = [x EXCEPT !.Lastqueued = (@ + n) % MaxCount, !.TxBlocks = @ \o new, !.queued = @ + n]
    BY <2>1 DEF SendText
  <2> HIDE DEF z, new
  <2> QED  BY <2>2 DEF SameRx, Pair, Whole, Sound, Station
<1> HIDE DEF z
<1>4. Sent(z) = Sent(x)
  <2>1. Len(x.TxBlocks \o new) = Len(x.TxBlocks) + n
    BY <1>1
  <2> QED  BY <1>1, <1>3, <2>1 DEF Sent
<1>5. Mannered(z) /\ Deaf(z) /\ Underway(z) = Underway(x) /\ (Speaks(z) <=> Speaks(x))
  BY <1>3 DEF Pair, Line, Mannered, Deaf, SameRx, Underway, Speaks
<1>6. Course(z, y)
  <2>1. \A f : Apt(f, x, y) => Apt(f, z, y)
    BY <1>3, <1>5 DEF Apt, SameRx
  <2>2. \A f : Apt(f, y, x) => Apt(f, y, z)
    BY <1>3, <1>5 DEF Apt
  <2>3. ~(y.LinkState = ARQ_CONNECTING)
    BY DEF Pair, Line, Course, InSess, DOWN, WAITFORACK, ARQ_CONNECTED, WAITING
  <2>4. ~(x.LinkState \in {ARQ_CONNECTING, WAITFORACK})
    BY DEF InSess, ARQ_CONNECTING, WAITFORACK, ARQ_CONNECTED, WAITING
  <2> QED  BY <1>3, <1>5, <2>1, <2>2, <2>3, <2>4 DEF Pair, Line, Course
<1>7. Keeps(z, y)
  <2>1. /\ InWindow(x, y) => InWindow(z, y)
        /\ Covered(x, y) => Covered(z, y)
        /\ Flies(x, y) => Flies(z, y)
        /\ InSess(z) <=> InSess(x)
    BY <1>3, <1>4 DEF InWindow, Covered, Flies, InSess
  <2> QED  BY <1>3, <1>4, <2>1 DEF Pair, Line, Keeps
<1> QED  BY <1>3, <1>5, <1>6, <1>7 DEF Pair, Line, z

\* What sendblocks makes of the lists, and the burst it sends.
LEMMA SendBlocksSends ==
    ASSUME NEW x, Sound(x), x.air = <<>>, x.TxTextQueue = <<>>, ~x.immediate, ~x.hung, ~x.arqstop
    PROVE  LET z == TransmitData(SendBlocks(x))
           IN  \E n \in 0 .. Len(x.TxBlocks) :
                /\ \A j \in 1 .. n : ~WindowFull(x.TxBlocks[j].nbr, x.UrGoodHeader)
                /\ Len(z.TxBlocks) = Len(x.TxBlocks) - n
                /\ z.TxMissing = x.TxMissing \cup {x.TxBlocks[k] : k \in 1 .. n}
                /\ z.LastHeader = IF n = 0 THEN x.LastHeader ELSE x.TxBlocks[n].nbr
                /\ z.queued = x.queued /\ z.UrGoodHeader = x.UrGoodHeader /\ ~z.hung
                /\ z.LinkState = WAITING /\ SameRx(x, z) /\ Mannered(z)
                /\ \A i \in 1 .. Len(z.air) : z.air[i].type = "DATA" =>
                        /\ z.air[i].block \in z.TxMissing
                        /\ \A j \in 1 .. Len(z.air) :
                                z.air[j].type = "DATA" /\ z.air[j].block.text = z.air[i].block.text
                                    => i = j
<1> DEFINE L    == Len(x.TxBlocks)
           n    == NewBlocks(x.TxBlocks, Cardinality(x.TxMissing), MaxHeaders, x.UrGoodHeader)
           new  == SubSeq(x.TxBlocks, 1, n)
           rest == SubSeq(x.TxBlocks, n + 1, L)
           p    == InSendOrder(x.TxMissing)
           data == DataFrames(p) \o DataFrames(new)
           sent == {new[k] : k \in 1 .. n}
           last == IF n = 0 THEN x.LastHeader ELSE new[n].nbr
           w    == [x EXCEPT !.TxMissing = @ \cup sent, !.TxPending = @ \o new,
                             !.TxBlocks = rest, !.LastHeader = last,
                             !.TxTextQueue = @ \o data, !.LinkState = WAITING]
           poll == [type |-> "POLL", last |-> w.LastHeader, good |-> w.GoodHeader,
                    end |-> w.EndHeader, missing |-> w.MissingRxBlocks]
           r    == Append(data, poll)
           z    == TransmitData(SendBlocks(x))
<1>1. /\ x.TxBlocks \in Seq(Blocks) /\ L \in Nat /\ x.TxMissing \in SUBSET Blocks
      /\ x.queued \in Nat
      /\ \A k \in 1 .. L : x.TxBlocks[k].text = x.queued - L + k
      /\ \A b \in x.TxMissing : b.text <= x.queued - L
      /\ \A b, c \in x.TxMissing : b.text = c.text => b = c
  BY LenProperties, StationAssumption DEF Whole, Sound, Station, TextsInLine
<1>2. n \in 0 .. L /\ \A j \in 1 .. n : ~WindowFull(x.TxBlocks[j].nbr, x.UrGoodHeader)
  <2>1. Cardinality(x.TxMissing) \in Nat
    BY <1>1, BlocksFinite
  <2> QED  BY <1>1, <2>1, NewBlocksBound, StationAssumption
<1> HIDE DEF n
<1>3. new \in Seq(Blocks) /\ Len(new) = n /\ \A k \in 1 .. n : new[k] = x.TxBlocks[k]
  BY <1>1, <1>2, SubSeqProperties
<1>4. Len(rest) = L - n
  BY <1>1, <1>2, SubSeqProperties
<1>5. /\ p \in Seq(Blocks) /\ Elements(p) \subseteq x.TxMissing
      /\ \A i, j \in 1 .. Len(p) : i < j => p[i].text < p[j].text
  <2>1. /\ p \in [1 .. Cardinality(x.TxMissing) -> x.TxMissing] /\ p \in Seq(x.TxMissing)
        /\ \A i, j \in 1 .. Cardinality(x.TxMissing) : i < j => p[i].text < p[j].text
    BY <1>1, SendOrderExists
  <2> HIDE DEF p
  <2>2. p \in Seq(Blocks) /\ Elements(p) \subseteq x.TxMissing
    <3>1. p \in Seq(Blocks)
      BY <1>1, <2>1, SeqMonotonic
    <3>2. \A i \in 1 .. Len(p) : p[i] \in x.TxMissing
      BY <2>1, ElementOfSeq
    <3> QED  BY <3>1, <3>2 DEF Elements
  <2>3. Len(p) = Cardinality(x.TxMissing)
    <3>1. Cardinality(x.TxMissing) \in Nat
      BY <1>1, BlocksFinite
    <3>2. DOMAIN p = 1 .. Cardinality(x.TxMissing) /\ DOMAIN p = 1 .. Len(p) /\ Len(p) \in Nat
      BY <2>1, LenProperties
    <3> QED  BY <3>1, <3>2
  <2> QED  BY <2>1, <2>2, <2>3
<1>6. \A i, j \in 1 .. Len(new) : i < j => new[i].text < new[j].text
  <2> TAKE i, j \in 1 .. Len(new)
  <2>1. new[i].text = x.queued - L + i /\ new[j].text = x.queued - L + j
    <3> HIDE DEF new, L
    <3>1. \A k \in 1 .. Len(new) : k \in 1 .. L /\ new[k] = x.TxBlocks[k]
      BY <1>1, <1>2, <1>3
    <3> QED  BY <1>1, <3>1
  <2>2. i \in Int /\ j \in Int /\ x.queued - L \in Int
    BY <1>1, <1>2, <1>3
  <2> HIDE DEF new, L
  <2> QED  BY <2>1, <2>2
<1>7. \A i \in 1 .. Len(p), j \in 1 .. Len(new) : p[i].text < new[j].text
  <2> TAKE i \in 1 .. Len(p), j \in 1 .. Len(new)
  <2>1. new[j].text = x.queued - L + j /\ j >= 1
    BY <1>1, <1>2, <1>3
  <2>2. p[i] \in x.TxMissing
    BY <1>5 DEF Elements
  <2>3. p[i].text <= x.queued - L /\ p[i].text \in Nat
    BY <1>1, <2>2, StationAssumption DEF Blocks, Text
  <2> HIDE DEF new, L, p
  <2> QED  BY <1>1, <1>3, <2>1, <2>3
<1>8. /\ Burst(r) /\ r # <<>>
      /\ \A i \in 1 .. Len(r) : r[i].type = "DATA" =>
            /\ r[i].block \in Elements(p) \cup Elements(new)
            /\ \A j \in 1 .. Len(r) :
                    r[j].type = "DATA" /\ r[j].block.text = r[i].block.text => i = j
  <2>1. poll.type = "POLL"
    OBVIOUS
  <2> HIDE DEF poll, p, new
  <2> QED  BY <1>3, <1>5, <1>6, <1>7, <2>1, BurstOf
<1>9. Elements(new) = sent /\ sent = {x.TxBlocks[k] : k \in 1 .. n}
  BY <1>2, <1>3 DEF Elements
<1>10. SendBlocks(x) = [w EXCEPT !.TxTextQueue = Append(@, poll)]
  BY <1>1 DEF SendBlocks, Report, AddToTxQue, Dropping, n
<1>11. <<>> \o data = data /\ <<>> \o r = r
  <2> HIDE DEF poll, p, new
  <2>1. data \in Seq(Frames)
    BY <1>3, <1>5, DataFramesType, ConcatProperties
  <2>2. poll \in Frames
    <3>1. Sound(SendBlocks(x))
      BY SendBlocksSound
    <3>2. w.LastHeader \in Nbr /\ w.GoodHeader \in Nbr /\ w.EndHeader \in Nbr
          /\ w.MissingRxBlocks \in SUBSET Nbr
      <4> HIDE DEF w
      <4>1. DOMAIN w = DOMAIN x /\ DOMAIN x = DOMAIN NewStation
        BY DEF w, Whole, Sound, Station, NewStation
      <4>2. /\ SendBlocks(x).LastHeader = w.LastHeader /\ SendBlocks(x).GoodHeader = w.GoodHeader
            /\ SendBlocks(x).EndHeader = w.EndHeader
            /\ SendBlocks(x).MissingRxBlocks = w.MissingRxBlocks
        BY <1>10, <4>1 DEF NewStation
      <4> QED  BY <3>1, <4>2 DEF Whole, Sound, Station
    <3> QED  BY <3>2 DEF poll, Frames, Reports
  <2> HIDE DEF data
  <2> QED  BY <2>1, <2>2
<1>12. /\ z.air = r /\ z.TxTextQueue = <<>> /\ z.Sending /\ ~z.immediate /\ ~z.hung /\ ~z.arqstop
       /\ z.LinkState = WAITING /\ z.TxBlocks = rest /\ z.TxMissing = x.TxMissing \cup sent
       /\ z.LastHeader = last /\ z.queued = x.queued /\ z.UrGoodHeader = x.UrGoodHeader
       /\ SameRx(x, z)
  <2> HIDE DEF poll, data, rest, sent, last
  <2>1. w.TxTextQueue = data
    BY <1>11 DEF Whole, Sound, Station
  <2>2. SendBlocks(x).TxTextQueue = r
    BY <1>10, <2>1 DEF Whole, Sound, Station
  <2>3. z = [SendBlocks(x) EXCEPT !.air = r, !.TxTextQueue = <<>>, !.Sending = TRUE]
    <3>1. SendBlocks(x).air = <<>>
      BY <1>10 DEF Whole, Sound, Station
    <3>2. SendBlocks(x).air \o SendBlocks(x).TxTextQueue = r
      BY <1>11, <2>2, <3>1
    <3>3. SendBlocks(x).TxTextQueue # <<>>
      BY <1>8, <2>2
    <3> HIDE DEF r
    <3> QED  BY <3>2, <3>3 DEF TransmitData
  <2> HIDE DEF r, z
  <2> QED  BY <1>10, <2>3 DEF SameRx, Whole, Sound, Station
<1> HIDE DEF z, w, r, rest, p
<1>13. Mannered(z)
  BY <1>8, <1>12, Zenon DEF Mannered
<1>14. \A i \in 1 .. Len(z.air) : z.air[i].type = "DATA" =>
            /\ z.air[i].block \in z.TxMissing
            /\ \A j \in 1 .. Len(z.air) :
                    z.air[j].type = "DATA" /\ z.air[j].block.text = z.air[i].block.text => i = j
  BY <1>5, <1>8, <1>9, <1>12
<1>15. last = IF n = 0 THEN x.LastHeader ELSE x.TxBlocks[n].nbr
  BY <1>2, <1>3
<1> QED  BY <1>2, <1>4, <1>9, <1>12, <1>13, <1>14, <1>15 DEF z

\* sendblocks: what is repeated and what is new fits the window and is not
\* with the receiver yet.
LEMMA SendBlocksLine ==
    ASSUME NEW x, NEW y, Pair(x, y), x.LinkState = ARQ_CONNECTED, x.air = <<>>,
           x.TxTextQueue = <<>>, ~x.immediate, y.air = <<>>
    PROVE  LET z == TransmitData(SendBlocks(x))
           IN  Line(z, y) /\ z.queued = x.queued
<1> DEFINE L == Len(x.TxBlocks)
           z == TransmitData(SendBlocks(x))
           h == Sent(x)
<1>1. ~x.hung /\ ~x.arqstop
  BY DEF Pair, Line, Mannered, ARQ_CONNECTED, WAITING
<1>2. PICK n \in 0 .. L :
        /\ \A j \in 1 .. n : ~WindowFull(x.TxBlocks[j].nbr, x.UrGoodHeader)
        /\ Len(z.TxBlocks) = L - n
        /\ z.TxMissing = x.TxMissing \cup {x.TxBlocks[k] : k \in 1 .. n}
        /\ z.LastHeader = IF n = 0 THEN x.LastHeader ELSE x.TxBlocks[n].nbr
        /\ z.queued = x.queued /\ z.UrGoodHeader = x.UrGoodHeader /\ ~z.hung
        /\ z.LinkState = WAITING /\ SameRx(x, z) /\ Mannered(z)
        /\ \A i \in 1 .. Len(z.air) : z.air[i].type = "DATA" =>
                /\ z.air[i].block \in z.TxMissing
                /\ \A j \in 1 .. Len(z.air) :
                        z.air[j].type = "DATA" /\ z.air[j].block.text = z.air[i].block.text
                            => i = j
  BY <1>1, SendBlocksSends DEF Pair
<1> HIDE DEF z
<1>3. /\ x.TxBlocks \in Seq(Blocks) /\ L \in Nat /\ x.TxMissing \in SUBSET Blocks
      /\ x.queued \in Nat /\ h \in Nat /\ h = x.queued - L /\ Got(y) \in Nat
      /\ \A k \in 1 .. L : x.TxBlocks[k].text = x.queued - L + k
      /\ Got(y) <= h /\ Pend(y) \subseteq 1 .. h
  <2>1. /\ x.TxBlocks \in Seq(Blocks) /\ L \in Nat /\ x.TxMissing \in SUBSET Blocks
        /\ x.queued \in Nat /\ Got(y) \in Nat
        /\ \A k \in 1 .. L : x.TxBlocks[k].text = x.queued - L + k
    BY LenProperties, StationAssumption DEF Pair, Whole, Sound, Station, TextsInLine, Got
  <2>2. h = x.queued - L /\ Got(y) <= h /\ Pend(y) \subseteq 1 .. h
    BY DEF Sent, Pair, Line, Keeps
  <2> QED  BY <2>1, <2>2
<1>4. /\ Covered(x, y) /\ x.LastHeader = NbrOf(h) /\ Right(x.TxMissing) /\ InWindow(x, y)
      /\ \A t \in Texts(x.TxMissing) : t > Got(y) /\ t \notin Pend(y)
      /\ y.LinkState = WAITFORACK => 1 .. h \subseteq Texts(x.TxMissing)
  BY <1>1 DEF Pair, Line, Keeps, InSess
<1>5. Sent(z) = h + n
  BY <1>2, <1>3 DEF Sent
<1>6. \A k \in 1 .. n : x.TxBlocks[k].text = h + k /\ x.TxBlocks[k].nbr = NbrOf(h + k)
  <2> TAKE k \in 1 .. n
  <2>1. k \in 1 .. L
    BY <1>2, <1>3
  <2>2. x.TxBlocks[k].nbr = (x.LastHeader + k) % MaxCount
    BY <2>1 DEF Pair, InStep
  <2>3. (NbrOf(h) + k) % MaxCount = NbrOf(h + k)
    BY <1>3, <2>1, NbrOfType
  <2>4. x.TxBlocks[k].text = h + k
    BY <1>3, <2>1
  <2> QED  BY <1>4, <2>2, <2>3, <2>4
<1> HIDE DEF h, L
<1>0. n \in Nat /\ h \in Nat /\ Got(y) \in Nat
  BY <1>3
<1>7. z.LastHeader = NbrOf(h + n)
  <2>1. n = 0 => h + n = h
    BY <1>3
  <2>2. n # 0 => n \in 1 .. n
    BY <1>2
  <2> QED  BY <1>2, <1>4, <1>6, <2>1, <2>2
<1>8. Texts(z.TxMissing) = Texts(x.TxMissing) \cup {h + k : k \in 1 .. n}
  <2> DEFINE new == {x.TxBlocks[k] : k \in 1 .. n}
  <2>1. Texts(x.TxMissing \cup new) = Texts(x.TxMissing) \cup Texts(new)
    <3> HIDE DEF new
    <3> QED  BY DEF Texts
  <2>2. Texts(new) = {h + k : k \in 1 .. n}
    <3>1. Texts(new) = {x.TxBlocks[k].text : k \in 1 .. n}
      BY DEF Texts
    <3> QED  BY <1>6, <3>1
  <2> QED  BY <1>2, <2>1, <2>2
<1>9. Right(z.TxMissing)
  BY <1>2, <1>4, <1>6 DEF Right
<1>10. InWindow(z, y)
  <2>1. PICK u \in 0 .. Got(y) :
           /\ x.UrGoodHeader = NbrOf(u) /\ h <= u + MaxCount - 3
           /\ Texts(x.TxMissing) \subseteq u + 1 .. h
           /\ y.LinkState = WAITFORACK => u = 0
    BY <1>4 DEF InWindow, h
  <2>2. \A j \in 1 .. n : ~WindowFull(NbrOf(h + j), NbrOf(u))
    <3>1. \A j \in 1 .. n : x.TxBlocks[j].nbr = NbrOf(h + j)
      BY <1>6
    <3> QED  BY <1>2, <2>1, <3>1
  <2>3. h + n <= u + MaxCount - 3
    <3>1. u \in Nat /\ n \in Nat /\ h \in Nat
      BY <1>2, <1>3
    <3> QED  BY <2>1, <2>2, <3>1, WindowHolds
  <2>4. Texts(z.TxMissing) \subseteq u + 1 .. h + n
    <3>1. u \in Nat /\ u <= h
      BY <1>0, <1>3
    <3>2. u + 1 .. h \subseteq u + 1 .. h + n /\ \A k \in 1 .. n : h + k \in u + 1 .. h + n
      BY <1>0, <3>1
    <3> QED  BY <1>8, <2>1, <3>2
  <2> QED  BY <1>2, <1>5, <2>1, <2>3, <2>4 DEF InWindow
<1>11. Covered(z, y)
  <2> SUFFICES ASSUME NEW t \in 1 .. h + n
               PROVE  NbrOf(t) = 0 \/ t \in Texts(z.TxMissing) \/ t \in y.printed \/ t \in Pend(y)
    BY <1>5 DEF Covered
  <2>1. CASE t <= h
    <3>1. t \in 1 .. h
      BY <1>3, <2>1
    <3> QED  BY <1>4, <1>8, <3>1 DEF Covered, h
  <2>2. CASE t > h
    <3>1. t - h \in 1 .. n /\ h + (t - h) = t
      BY <1>0, <2>2
    <3> QED  BY <1>8, <3>1
  <2> QED  BY <1>3, <2>1, <2>2
<1>12. Flies(z, y)
  <2> SUFFICES ASSUME NEW b \in z.TxMissing
               PROVE  b.nbr = NbrOf(b.text) /\ b.text \in Got(y) + 1 .. h + n /\ b.text \notin Pend(y)
    BY <1>2, <1>5 DEF Flies
  <2>1. b.nbr = NbrOf(b.text)
    BY <1>9 DEF Right
  <2>2. CASE b \in x.TxMissing
    <3>1. b.text \in Texts(x.TxMissing) /\ b.text \in Nat
      BY <1>3, <2>2, StationAssumption DEF Texts, Blocks, Text
    <3>2. b.text <= h
      BY <1>4, <3>1 DEF InWindow, h
    <3> QED  BY <1>2, <1>3, <1>4, <2>1, <3>1, <3>2
  <2>3. CASE b \notin x.TxMissing
    <3>1. PICK k \in 1 .. n : b.text = h + k
      BY <1>2, <1>6, <2>3
    <3>2. b.text \in Got(y) + 1 .. h + n /\ b.text \notin 1 .. h
      BY <1>2, <1>3, <3>1, SMTT(30)
    <3> QED  BY <1>3, <2>1, <3>2
  <2> QED  BY <2>2, <2>3
<1>13. y.LinkState = WAITFORACK => 1 .. h + n \subseteq Texts(z.TxMissing)
  <2> SUFFICES ASSUME y.LinkState = WAITFORACK, NEW t \in 1 .. h + n
               PROVE  t \in Texts(z.TxMissing)
    OBVIOUS
  <2>1. t \in 1 .. h \/ (t - h \in 1 .. n /\ h + (t - h) = t)
    BY <1>0
  <2> QED  BY <1>4, <1>8, <2>1
<1>14. Keeps(z, y)
  <2>1. Got(y) <= h + n /\ Pend(y) \subseteq 1 .. h + n
    BY <1>2, <1>3
  <2>2. z.LinkState # ARQ_CONNECTED
    BY <1>2 DEF ARQ_CONNECTED, WAITING
  <2> QED  BY <1>2, <1>5, <1>7, <1>9, <1>10, <1>11, <1>12, <1>13, <2>1, <2>2 DEF Keeps
<1>15. ~Speaks(y) /\ Underway(y) = {}
  <2>1. ~y.immediate
    <3>1. y.immediate => Underway(y) # {}
      BY SilentUnderway DEF Pair, Line, Speaks
    <3>2. \A f \in Underway(y) : Apt(f, y, x)
      BY DEF Pair, Line, Course
    <3>3. y.LinkState \in {DOWN, TIMEDOUT, ARQ_CONNECTING, ARQ_CONNECTED, WAITING, WAITFORACK}
          /\ y.LinkState # TIMEDOUT /\ y.LinkState # WAITING
      BY DEF Pair, InStep, Line, Mute, Course
    <3>4. \A f : Apt(f, y, x) => ~y.immediate
      BY <3>3 DEF Apt, DOWN, TIMEDOUT, ARQ_CONNECTING, ARQ_CONNECTED, WAITING, WAITFORACK
    <3> QED  BY <3>1, <3>2, <3>4
  <2>2. ~Speaks(y)
    BY <2>1 DEF Speaks
  <2> QED  BY <2>2, SilentCourse DEF Pair, Line
<1>16. Course(z, y)
  BY <1>2, <1>15, WaitingCourse DEF Pair, Line
<1>17. Deaf(z)
  BY <1>2 DEF Pair, Line, Deaf, SameRx
<1> QED  BY <1>2, <1>14, <1>16, <1>17 DEF Pair, Line, z

---------------------------------------------------------------------------
(* What a silent station makes of the frames it hears *)

LEMMA HearCONREQ ==
    ASSUME NEW x, Sound(x), Mannered(x), ~Speaks(x), x.LinkState = DOWN,
           NEW f, f.type = "CONREQ"
    PROVE  LET z == ParseFrame(x, f)
           IN  /\ Begins(x, z) /\ Says(z, [type |-> "CONACK"])
               /\ z.LinkState = WAITFORACK /\ z.immediate /\ z.air = <<>>
<1> DEFINE g == [type |-> "CONACK"]
           z == ParseFrame(x, f)
<1>1. x.air = <<>> /\ x.TxTextQueue = <<>> /\ ~x.immediate /\ ~x.hung /\ ~x.arqstop
  BY SilentCourse DEF Mannered, WAITING, DOWN
<1>2. Append(<<>>, g) = <<g>> /\ Len(<<g>>) = 1 /\ Len(<<>>) = 0
  OBVIOUS
<1> HIDE DEF g
<1>3. z = ParseCONREQ([x EXCEPT !.retries = Retries])
  BY DEF ParseFrame
<1>4. z = [AckFrame([x EXCEPT !.retries = Retries, !.UrCall = TRUE])
                EXCEPT !.LinkState = WAITFORACK, !.immediate = TRUE]
  BY <1>3 DEF ParseCONREQ, DOWN, TIMEDOUT, Whole, Sound, Station
<1>5. /\ z.air = <<>> /\ z.TxTextQueue = <<g>> /\ z.immediate
      /\ z.LinkState = WAITFORACK /\ ~z.hung /\ ~z.arqstop /\ Begins(x, z)
  BY <1>1, <1>2, <1>4 DEF g, AckFrame, Send, AddToTxQue, Reset, Begins, Deaf, Whole, Sound, Station
<1> HIDE DEF z
<1>6. Mannered(z)
  <2>1. Len(z.air) <= 1 /\ Len(z.TxTextQueue) = 1
    BY <1>2, <1>5
  <2>2. z.LinkState # WAITING
    BY <1>5 DEF WAITING, WAITFORACK
  <2> QED  BY <1>5, <2>1, <2>2, Zenon DEF Mannered
<1>7. Underway(z) = {g}
  <2>1. Elements(<<g>>) = {g} /\ Elements(<<>>) = {}
    BY DEF Elements
  <2> QED  BY <1>5, <2>1 DEF Underway
<1> QED  BY <1>5, <1>6, <1>7 DEF Says, z, g

\* A station that answers with a report.
Answers(x, z) ==
    /\ SameTx(x, z) /\ SameRx(x, z) /\ z.LinkState = ARQ_CONNECTED /\ z.air = <<>>
    /\ \E f : /\ Says(z, f) /\ f.type = "STATUS" /\ f.good = z.GoodHeader
              /\ f.end = z.EndHeader /\ f.missing = z.MissingRxBlocks

LEMMA HearCall ==
    ASSUME NEW x, Sound(x), Mannered(x), ~Speaks(x), ~x.hung,
           x.LinkState \in {DOWN, ARQ_CONNECTING, ARQ_CONNECTED, WAITING, WAITFORACK},
           NEW f, f.type \in {"CONACK", "POLL"}, f.type = "CONACK" => x.RxTextQueue = <<>>
    PROVE  LET z == ParseFrame(x, f)
           IN  \/ Talks(x, z) /\ z.air = <<>>
               \/ x.LinkState # DOWN /\ Answers(x, z)
<1> DEFINE y == [x EXCEPT !.retries = Retries]
           g == [type |-> "STATUS", last |-> x.LastHeader, good |-> x.GoodHeader,
                 end |-> x.EndHeader, missing |-> x.MissingRxBlocks]
           z == ParseFrame(x, f)
<1>1. x.air = <<>> /\ x.TxTextQueue = <<>> /\ ~x.immediate /\ ~x.hung /\ ~x.arqstop
  BY SilentCourse DEF Mannered
<1>2. Append(<<>>, g) = <<g>> /\ Len(<<g>>) = 1 /\ Len(<<>>) = 0
  OBVIOUS
<1> DEFINE r == Report(y, "STATUS")
           Same == /\ SameTx(r, z) /\ SameRx(r, z) /\ z.air = r.air /\ z.arqstop = r.arqstop
                   /\ z.TxTextQueue = r.TxTextQueue /\ z.LinkState = ARQ_CONNECTED /\ z.immediate
<1>3. r = [y EXCEPT !.TxTextQueue = <<g>>]
  BY <1>1, <1>2 DEF Report, AddToTxQue, Whole, Sound, Station
<1>4. DOMAIN r = DOMAIN NewStation /\ r.RxTextQueue = x.RxTextQueue /\ y.LinkState = x.LinkState
  BY DEF Report, AddToTxQue, Whole, Sound, Station, NewStation
<1>5. z = y \/ (x.LinkState # DOWN /\ Same)
  <2>1. CASE f.type = "CONACK"
    <3>1. z = y \/ z = ParseCONACK(y)
      BY <2>1 DEF ParseFrame
    <3>2. ParseCONACK(y) = y \/ (x.LinkState # DOWN
              /\ ParseCONACK(y) = [r EXCEPT !.RxTextQueue = <<>>, !.LinkState = ARQ_CONNECTED,
                                           !.immediate = TRUE, !.primary = TRUE])
      BY <1>4 DEF ParseCONACK, DOWN, ARQ_CONNECTING
    <3> HIDE DEF z, r, y
    <3>3. z = [r EXCEPT !.RxTextQueue = <<>>, !.LinkState = ARQ_CONNECTED,
                        !.immediate = TRUE, !.primary = TRUE] => Same
      BY <1>4, <2>1 DEF SameTx, SameRx, NewStation
    <3> QED  BY <3>1, <3>2, <3>3
  <2>2. CASE f.type = "POLL"
    <3>1. z = y \/ z = ParsePOLL(y)
      BY <2>2 DEF ParseFrame
    <3>2. ParsePOLL(y) = y \/ (x.LinkState # DOWN
              /\ ParsePOLL(y) = [r EXCEPT !.immediate = TRUE, !.LinkState = ARQ_CONNECTED])
      BY <1>4 DEF ParsePOLL, DOWN
    <3> HIDE DEF z, r, y
    <3>3. z = [r EXCEPT !.immediate = TRUE, !.LinkState = ARQ_CONNECTED] => Same
      BY <1>4 DEF SameTx, SameRx, NewStation
    <3> QED  BY <3>1, <3>2, <3>3
  <2> QED  BY <2>1, <2>2
<1>6. y = [x EXCEPT !.retries = Retries, !.UrCall = x.UrCall]
  BY DEF Whole, Sound, Station
<1> HIDE DEF z, g
<1>7. CASE z = y
  <2> HIDE DEF y
  <2>1. Talks(x, y) /\ y.air = x.air
    <3>1. \A c, u : /\ Talks(x, [x EXCEPT !.retries = c, !.UrCall = u])
                    /\ [x EXCEPT !.retries = c, !.UrCall = u].air = x.air
      BY StillTalks
    <3>2. /\ Talks(x, [x EXCEPT !.retries = Retries, !.UrCall = x.UrCall])
          /\ [x EXCEPT !.retries = Retries, !.UrCall = x.UrCall].air = x.air
      BY <3>1
    <3> QED  BY <1>6, <3>2
  <2> QED  BY <1>1, <1>7, <2>1 DEF z
<1>8. CASE x.LinkState # DOWN /\ Same
  <2>1. /\ z.air = <<>> /\ z.TxTextQueue = <<g>> /\ z.immediate
        /\ z.LinkState = ARQ_CONNECTED /\ ~z.hung /\ ~z.arqstop /\ SameTx(x, z) /\ SameRx(x, z)
    <3>1. /\ SameTx(x, r) /\ SameRx(x, r) /\ r.air = <<>> /\ r.TxTextQueue = <<g>>
          /\ r.arqstop = x.arqstop
      BY <1>1, <1>3 DEF SameTx, SameRx, Whole, Sound, Station
    <3> HIDE DEF r
    <3> QED  BY <1>1, <1>8, <3>1 DEF SameTx, SameRx
  <2>2. Mannered(z)
    <3>1. Len(z.air) <= 1 /\ Len(z.TxTextQueue) = 1
      BY <1>2, <2>1
    <3>2. z.LinkState # WAITING
      BY <2>1 DEF WAITING, ARQ_CONNECTED
    <3> QED  BY <2>1, <3>1, <3>2, Zenon DEF Mannered
  <2>3. Underway(z) = {g}
    <3>1. Elements(<<g>>) = {g} /\ Elements(<<>>) = {}
      BY DEF Elements
    <3> QED  BY <2>1, <3>1 DEF Underway
  <2>4. g.type = "STATUS" /\ g.good = z.GoodHeader /\ g.end = z.EndHeader
        /\ g.missing = z.MissingRxBlocks
    BY <2>1 DEF g, SameRx
  <2>5. Answers(x, z)
    BY <2>1, <2>2, <2>3, <2>4 DEF Says, Answers
  <2> QED  BY <1>8, <2>5 DEF z
<1> QED  BY <1>5, <1>7, <1>8

\* A report crosses off what it does not name, unless the walk never ends.
LEMMA HearSTATUS ==
    ASSUME NEW x, Sound(x), Mannered(x), ~Speaks(x), ~x.hung,
           x.LinkState \in {WAITING, WAITFORACK}, NEW f, f.type = "STATUS"
    PROVE  LET z == ParseFrame(x, f)
           IN  /\ ~Speaks(z) /\ Underway(z) = {} /\ z.air = <<>>
               /\ Mannered(z) \/ (x.LinkState # WAITING /\ z.hung)
               /\ SameRx(x, z) /\ z.LastHeader = x.LastHeader /\ z.TxBlocks = x.TxBlocks
               /\ z.queued = x.queued /\ z.UrGoodHeader = f.good
               /\ WalkNeverEnds(x.LastHeader, f.end) =>
                        z.hung /\ z.TxMissing = x.TxMissing /\ z.LinkState = x.LinkState
               /\ ~WalkNeverEnds(x.LastHeader, f.end) =>
                        /\ ~z.hung /\ z.LinkState = ARQ_CONNECTED
                        /\ z.TxMissing = {b \in x.TxMissing :
                              b.nbr \in ConsideredMissing(x.LastHeader, f.end, f.missing)}
<1> DEFINE y == [x EXCEPT !.retries = Retries]
           z == ParseFrame(x, f)
           v == EchoAcknowledged(TakeReport(y, f))
<1>1. x.air = <<>> /\ x.TxTextQueue = <<>> /\ ~x.immediate /\ ~x.hung /\ ~x.arqstop
  BY SilentCourse DEF Mannered
<1>2. z = ParseSTATUS(y, f) /\ y.LinkState = x.LinkState /\ y.LastHeader = x.LastHeader
  BY DEF ParseFrame, DOWN, WAITING, WAITFORACK, Whole, Sound, Station
<1>3. y.LinkState >= ARQ_CONNECTED /\ ~(y.LinkState < ARQ_CONNECTED)
  BY <1>2 DEF ARQ_CONNECTED, WAITING, WAITFORACK
<1>4. /\ v.LinkState = x.LinkState /\ v.air = <<>> /\ v.TxTextQueue = <<>> /\ ~v.immediate
      /\ ~v.hung /\ ~v.arqstop /\ SameRx(x, v) /\ v.LastHeader = x.LastHeader
      /\ v.TxBlocks = x.TxBlocks /\ v.queued = x.queued /\ v.UrGoodHeader = f.good
      /\ v.TxMissing = {b \in x.TxMissing :
                           b.nbr \in ConsideredMissing(x.LastHeader, f.end, f.missing)}
      /\ DOMAIN v = DOMAIN NewStation
  BY <1>1, <1>3 DEF EchoAcknowledged, TakeReport, SameRx, Whole, Sound, Station, NewStation
<1>5. CASE WalkNeverEnds(x.LastHeader, f.end)
  <2>1. z = [y EXCEPT !.UrGoodHeader = f.good, !.hung = TRUE]
    BY <1>2, <1>3, <1>5 DEF ParseSTATUS
  <2> HIDE DEF z
  <2>2. /\ z.LinkState = x.LinkState /\ z.air = <<>> /\ z.TxTextQueue = <<>> /\ ~z.immediate
        /\ z.hung /\ ~z.arqstop /\ SameRx(x, z) /\ z.LastHeader = x.LastHeader
        /\ z.TxBlocks = x.TxBlocks /\ z.queued = x.queued /\ z.UrGoodHeader = f.good
        /\ z.TxMissing = x.TxMissing
    BY <1>1, <2>1 DEF SameRx, Whole, Sound, Station
  <2>3. x.LinkState = WAITING => Mannered(z)
    <3>1. Len(<<>>) = 0 /\ Burst(<<>>)
      BY EmptySeq DEF Burst
    <3> QED  BY <2>2, <3>1, Zenon DEF Mannered
  <2>4. ~Speaks(z) /\ Underway(z) = {}
    BY <2>2, EmptySeq DEF Speaks, Underway, Elements
  <2> QED  BY <1>5, <2>2, <2>3, <2>4 DEF z
<1>6. CASE ~WalkNeverEnds(x.LastHeader, f.end)
  <2>1. z = [v EXCEPT !.LinkState = ARQ_CONNECTED]
    <3>1. v.LinkState \in {WAITFORACK, WAITING}
      BY <1>4
    <3> HIDE DEF v, y, z
    <3>2. ParseSTATUS(y, f) = [EchoAcknowledged(TakeReport(y, f)) EXCEPT !.LinkState =
             CASE @ \in {WAITFORACK, WAITING} -> ARQ_CONNECTED
               [] @ = DISCONNECTING           -> DOWN
               [] OTHER                       -> @]
      BY <1>2, <1>6 DEF ParseSTATUS
    <3> QED  BY <1>2, <1>4, <3>1, <3>2 DEF v, WAITFORACK, WAITING, DISCONNECTING
  <2> HIDE DEF z, v
  <2>2. /\ z.LinkState = ARQ_CONNECTED /\ z.air = <<>> /\ z.TxTextQueue = <<>> /\ ~z.immediate
        /\ ~z.hung /\ ~z.arqstop /\ SameRx(x, z) /\ z.LastHeader = x.LastHeader
        /\ z.TxBlocks = x.TxBlocks /\ z.queued = x.queued /\ z.UrGoodHeader = f.good
        /\ z.TxMissing = v.TxMissing
    BY <1>4, <2>1 DEF SameRx, NewStation
  <2>3. Mannered(z)
    <3>1. Len(<<>>) <= 1
      BY EmptySeq
    <3>2. z.LinkState # WAITING
      BY <2>2 DEF WAITING, ARQ_CONNECTED
    <3> QED  BY <2>2, <3>1, <3>2, Zenon DEF Mannered
  <2>4. ~Speaks(z) /\ Underway(z) = {}
    BY <2>2, EmptySeq DEF Speaks, Underway, Elements
  <2> QED  BY <1>4, <1>6, <2>2, <2>3, <2>4 DEF z
<1> QED  BY <1>5, <1>6

---------------------------------------------------------------------------
(* A frame arrives.  Of the two stations one speaks, p; the other, s, hears *)
(* the first frame p has on the air.                                        *)

After(p) == [p EXCEPT !.air = Tail(@)]

LEMMA Speaker ==
    ASSUME NEW x, NEW y, Pair(x, y), NEW p \in {x, y}, NEW s \in {x, y},
           (p = x /\ s = y) \/ (p = y /\ s = x), p.air # <<>>
    PROVE  /\ Head(p.air) \in Frames /\ Apt(Head(p.air), p, s)
           /\ Sound(p) /\ Sound(s) /\ Mannered(s) /\ ~Speaks(s) /\ Underway(s) = {} /\ s.air = <<>>
           /\ Talks(p, After(p)) /\ Talks(s, s) /\ After(p).air = Tail(p.air)
           /\ Flies(x, y) /\ p = x => Flies(After(x), y)
           /\ p.LinkState # WAITING => After(p).air = <<>> /\ ~p.hung
           /\ After(p).air = <<>> => ~Speaks(After(p)) /\ Underway(After(p)) = {}
           /\ p.LinkState \in {ARQ_CONNECTING, ARQ_CONNECTED, WAITING, WAITFORACK}
           /\ s.LinkState \in {DOWN, ARQ_CONNECTING, ARQ_CONNECTED, WAITING, WAITFORACK}
<1>1. Sound(p) /\ Sound(s) /\ Mannered(p) /\ Mannered(s) /\ Speaks(p)
  BY DEF Pair, Line, Speaks
<1>2. ~Speaks(s)
  BY <1>1 DEF Pair, Line, Course
<1>3. Underway(s) = {} /\ s.air = <<>>
  BY <1>1, <1>2, SilentCourse
<1>4. p.air \in Seq(Frames)
  BY <1>1 DEF Whole, Sound, Station
<1>5. Head(p.air) \in Frames /\ Head(p.air) \in Underway(p)
  <2>1. Head(p.air) = p.air[1] /\ 1 \in 1 .. Len(p.air)
    BY <1>4, HeadTailProperties, EmptySeq, LenProperties
  <2> QED  BY <1>4, <2>1, HeadTailProperties DEF Underway, Elements
<1>6. Apt(Head(p.air), p, s)
  BY <1>5 DEF Pair, Line, Course
<1>7. /\ Talks(p, After(p)) /\ After(p).air = Tail(p.air)
      /\ \A v : Flies(p, v) => Flies(After(p), v)
      /\ p.LinkState # WAITING => After(p).air = <<>>
      /\ ~p.immediate
  BY <1>1, TailTalks DEF After
<1>8. Talks(s, s)
  BY <1>1, StillTalks
<1>9. p.LinkState # WAITING => ~p.hung
  BY <1>1 DEF Mannered
<1>10. After(p).air = <<>> => ~Speaks(After(p)) /\ Underway(After(p)) = {}
  <2>1. Mannered(After(p)) /\ ~After(p).immediate
    BY <1>7 DEF Talks
  <2>2. After(p).air = <<>> => ~Speaks(After(p))
    BY <2>1 DEF Speaks
  <2> QED  BY <2>1, <2>2, SilentCourse
<1>11. p.LinkState # DOWN
  BY <1>6 DEF Apt
<1>12. \A a \in {x, y} : a.LinkState \in {DOWN, ARQ_CONNECTING, ARQ_CONNECTED, WAITING, WAITFORACK}
  BY DEF Pair, InStep, Line, Course
<1> QED  BY <1>1, <1>2, <1>3, <1>5, <1>6, <1>7, <1>8, <1>9, <1>10, <1>11, <1>12

\* A frame nobody takes.
LEMMA UnheardLine ==
    ASSUME NEW x, NEW y, Pair(x, y)
    PROVE  /\ \A w : x.air # <<>> /\ Talks(y, w) => Line(After(x), w)
           /\ \A w : y.air # <<>> /\ Talks(x, w) /\ w.air = x.air => Line(w, After(y))
<1>1. ASSUME NEW w, x.air # <<>>, Talks(y, w)
      PROVE  Line(After(x), w)
  <2>1. Talks(x, After(x)) /\ (Flies(x, y) => Flies(After(x), y))
    BY <1>1, TailTalks DEF Pair, Line, After
  <2>2. Flies(After(x), y) => Flies(After(x), w)
    BY <1>1 DEF Talks, SameRx, Flies, Got, Pend
  <2> QED  BY <1>1, <2>1, <2>2, OnlyTalks DEF Pair
<1>2. ASSUME NEW w, y.air # <<>>, Talks(x, w), w.air = x.air
      PROVE  Line(w, After(y))
  <2>1. Talks(y, After(y))
    BY <1>2, TailTalks DEF Pair, Line, After
  <2>2. Flies(x, y) => Flies(w, After(y))
    BY <1>2, <2>1 DEF Talks, SameRx, SameTx, Flies, Got, Pend, Sent
  <2> QED  BY <1>2, <2>1, <2>2, OnlyTalks DEF Pair
<1> QED  BY <1>1, <1>2

LEMMA HeardCONREQ ==
    ASSUME NEW x, NEW y, Pair(x, y)
    PROVE  /\ y.air # <<>> /\ y.LinkState = ARQ_CONNECTING
                => Line(ParseFrame(x, Head(y.air)), After(y))
           /\ x.air # <<>> /\ x.LinkState = ARQ_CONNECTING
                => Line(After(x), ParseFrame(y, Head(x.air)))
<1> DEFINE g == [type |-> "CONACK"]
<1>1. ASSUME y.air # <<>>, y.LinkState = ARQ_CONNECTING
      PROVE  Line(ParseFrame(x, Head(y.air)), After(y))
  <2> DEFINE f == Head(y.air)
             z == After(y)
             w == ParseFrame(x, f)
  <2>1. /\ Apt(f, y, x) /\ Sound(x) /\ Mannered(x) /\ ~Speaks(x) /\ Talks(y, z)
        /\ ~Speaks(z) /\ Underway(z) = {}
    BY <1>1, Speaker DEF ARQ_CONNECTING, WAITING
  <2>2. f.type = "CONREQ" /\ x.LinkState = DOWN
    BY <1>1, <2>1 DEF Apt
  <2>3. /\ Begins(x, w) /\ Says(w, g) /\ w.LinkState = WAITFORACK /\ w.immediate /\ w.air = <<>>
    BY <2>1, <2>2, HearCONREQ
  <2> HIDE DEF f, z, w
  <2>4. Deaf(w) /\ Unsent(w) /\ Deaf(z) /\ z.LinkState = ARQ_CONNECTING
    BY <1>1, <2>1, <2>3, BeginsFresh DEF Begins, Pair, Line, Course, Talks, SameRx, Deaf
  <2>5. Mute(z) /\ Delivers(z)
    BY <2>1, DeliversSame DEF Pair, Line, Talks, Mute, SameTx
  <2>6. Apt(g, w, z)
    BY <2>3, <2>4 DEF Apt, DOWN, ARQ_CONNECTING, ARQ_CONNECTED, WAITFORACK
  <2>7. Course(w, z)
    BY <2>1, <2>3, <2>4, <2>6 DEF Says, Course, DOWN, TIMEDOUT, ARQ_CONNECTING, WAITFORACK
  <2>8. Keeps(w, z)
    <3>1. ~w.hung
      BY <2>2, <2>3 DEF Begins, Pair, Line, Mannered, DOWN, WAITING
    <3>2. \A i \in 1 .. Len(w.air) : w.air[i].type # "DATA"
      BY <2>3, EmptySeq
    <3> QED  BY <2>4, <3>1, <3>2, KeepsFresh
  <2> QED  BY <2>1, <2>3, <2>4, <2>5, <2>7, <2>8 DEF Line, Says, Talks, f, z, w
<1>2. ASSUME x.air # <<>>, x.LinkState = ARQ_CONNECTING
      PROVE  Line(After(x), ParseFrame(y, Head(x.air)))
  <2> DEFINE f == Head(x.air)
             z == After(x)
             w == ParseFrame(y, f)
  <2>1. /\ Apt(f, x, y) /\ Sound(y) /\ Mannered(y) /\ ~Speaks(y) /\ Talks(x, z)
        /\ ~Speaks(z) /\ Underway(z) = {} /\ z.air = <<>> /\ ~x.hung
    BY <1>2, Speaker DEF ARQ_CONNECTING, WAITING
  <2>2. f.type = "CONREQ" /\ y.LinkState = DOWN
    BY <1>2, <2>1 DEF Apt
  <2>3. /\ Begins(y, w) /\ Says(w, g) /\ w.LinkState = WAITFORACK /\ w.immediate /\ w.air = <<>>
    BY <2>1, <2>2, HearCONREQ
  <2> HIDE DEF f, z, w
  <2>4. Deaf(w) /\ Unsent(z) /\ Deaf(z) /\ z.LinkState = ARQ_CONNECTING
    BY <1>2, <2>1, <2>3 DEF Begins, Pair, Line, Course, Talks, SameRx, SameTx, Deaf, Unsent
  <2>5. Mute(w) /\ Delivers(w)
    BY <2>3, BeginsFresh DEF Pair, Line, WAITING, WAITFORACK
  <2>6. Apt(g, w, z)
    BY <2>3, <2>4 DEF Apt, DOWN, ARQ_CONNECTING, ARQ_CONNECTED, WAITFORACK
  <2>7. Course(z, w)
    BY <2>1, <2>3, <2>4, <2>6 DEF Says, Course, DOWN, TIMEDOUT, ARQ_CONNECTING, WAITFORACK
  <2>8. Keeps(z, w)
    <3>1. ~z.hung
      BY <2>1 DEF Talks, SameTx
    <3>2. \A i \in 1 .. Len(z.air) : z.air[i].type # "DATA"
      BY <2>1, EmptySeq
    <3> QED  BY <2>4, <3>1, <3>2, KeepsFresh
  <2> QED  BY <2>1, <2>3, <2>4, <2>5, <2>7, <2>8 DEF Line, Says, Talks, f, z, w
<1> QED  BY <1>1, <1>2

\* The sender answers a connect acknowledgement, be it the first or a repeat:
\* the receiver has delivered nothing yet.
LEMMA SenderAnswers ==
    ASSUME NEW x, NEW y, Pair(x, y), y.air # <<>>, y.LinkState = WAITFORACK, NEW w,
           ~x.hung, x.LinkState # DOWN, Answers(x, w)
    PROVE  Line(w, After(y))
<1> DEFINE z == After(y)
<1>1. /\ Apt(Head(y.air), y, x) /\ Talks(y, z) /\ ~Speaks(z) /\ Underway(z) = {}
      /\ x.LinkState \in {DOWN, ARQ_CONNECTING, ARQ_CONNECTED, WAITING, WAITFORACK}
  BY Speaker DEF WAITING, WAITFORACK
<1> HIDE DEF z
<1>2. Deaf(y) /\ Deaf(z) /\ z.LinkState = WAITFORACK
  BY <1>1 DEF Apt, Talks, SameRx, Deaf, DOWN, ARQ_CONNECTING, WAITFORACK
<1>3. PICK f : /\ Says(w, f) /\ f.type = "STATUS" /\ f.good = w.GoodHeader
               /\ f.end = w.EndHeader /\ f.missing = w.MissingRxBlocks
  BY DEF Answers
<1>4. /\ SameTx(x, w) /\ SameRx(x, w) /\ w.LinkState = ARQ_CONNECTED /\ w.air = <<>> /\ ~w.hung
  BY DEF Answers, SameTx
<1>5. Deaf(w) /\ Mute(z) /\ Delivers(z)
  BY <1>1, <1>4, DeliversSame DEF Pair, Line, Talks, Mute, Deaf, SameTx, SameRx
<1>6. Apt(f, w, z)
  BY <1>2, <1>3, <1>4 DEF Apt, DOWN, ARQ_CONNECTING, ARQ_CONNECTED, WAITFORACK
<1>7. Course(w, z)
  <2>1. w.LinkState \notin {TIMEDOUT, ARQ_CONNECTING, WAITFORACK}
        /\ z.LinkState \notin {TIMEDOUT, ARQ_CONNECTING}
    BY <1>2, <1>4 DEF TIMEDOUT, ARQ_CONNECTING, ARQ_CONNECTED, WAITFORACK
  <2> QED  BY <1>1, <1>3, <1>6, <2>1 DEF Says, Course
<1>8. Keeps(w, z)
  <2>1. Got(z) = 0 /\ Pend(z) = {} /\ Got(y) = 0 /\ Pend(y) = {}
    BY <1>2, EmptySeq DEF Deaf, Got, Pend, Texts
  <2>2. \A i \in 1 .. Len(w.air) : w.air[i].type # "DATA"
    BY <1>4, EmptySeq
  <2>3. CASE x.LinkState = ARQ_CONNECTING
    <3>1. Unsent(w)
      BY <1>4, <2>3 DEF Pair, Line, Course, Unsent, SameTx
    <3> QED  BY <1>2, <1>4, <2>2, <3>1, KeepsFresh
  <2>4. CASE x.LinkState \in {ARQ_CONNECTED, WAITING}
    <3>1. /\ Got(y) <= Sent(x) /\ Pend(y) \subseteq 1 .. Sent(x)
          /\ Covered(x, y) /\ x.LastHeader = NbrOf(Sent(x)) /\ Right(x.TxMissing)
          /\ InWindow(x, y) /\ 1 .. Sent(x) \subseteq Texts(x.TxMissing)
      BY <2>4 DEF Pair, Line, Keeps, InSess
    <3>2. Sent(w) = Sent(x) /\ y.LinkState = WAITFORACK
      BY <1>4 DEF Sent, SameTx
    <3>3. Covered(w, z) /\ InWindow(w, z)
      <4>1. z.printed = y.printed
        BY <1>1 DEF Talks, SameRx
      <4> QED  BY <1>4, <2>1, <3>1, <3>2, <4>1 DEF Covered, InWindow, SameTx
    <3>4. Flies(w, z)
      BY <2>2 DEF Flies
    <3>5. \A t \in Texts(w.TxMissing) : t > 0
      <4>1. x.TxMissing \in SUBSET Blocks
        BY DEF Pair, Whole, Sound, Station
      <4> QED  BY <1>4, <4>1, StationAssumption DEF Texts, Blocks, Text, SameTx
    <3> QED  BY <1>4, <2>1, <3>1, <3>2, <3>3, <3>4, <3>5 DEF Keeps, SameTx
  <2>5. x.LinkState # WAITFORACK
    BY DEF Pair, Line, Course
  <2> QED  BY <1>1, <2>3, <2>4, <2>5
<1> QED  BY <1>1, <1>3, <1>5, <1>7, <1>8 DEF Line, Says, Talks, z

\* The receiver answers: to an acknowledgement, or to a poll.
LEMMA ReceiverAnswers ==
    ASSUME NEW x, NEW y, Pair(x, y), x.air # <<>>, x.LinkState \in {WAITFORACK, WAITING},
           After(x).air = <<>>, NEW w, Answers(y, w)
    PROVE  Line(After(x), w)
<1> DEFINE z == After(x)
<1>1. /\ Apt(Head(x.air), x, y) /\ Talks(x, z) /\ ~Speaks(z) /\ Underway(z) = {}
      /\ z.LinkState = x.LinkState /\ z.air = <<>>
  BY Speaker DEF Talks
<1> HIDE DEF z
<1>2. PICK f : /\ Says(w, f) /\ f.type = "STATUS" /\ f.good = w.GoodHeader
               /\ f.end = w.EndHeader /\ f.missing = w.MissingRxBlocks
  BY DEF Answers
<1>3. SameTx(y, w) /\ SameRx(y, w) /\ w.LinkState = ARQ_CONNECTED
  BY DEF Answers
<1>4. Deaf(z) /\ Mute(w) /\ Delivers(w) /\ (Unsent(x) => Unsent(z)) /\ (Deaf(y) => Deaf(w))
  BY <1>1, <1>3, DeliversSame DEF Pair, Line, Talks, Mute, Deaf, Unsent, SameTx, SameRx,
     ARQ_CONNECTED, WAITING
<1>5. Apt(f, w, z)
  BY <1>1, <1>2, <1>3 DEF Apt, DOWN, ARQ_CONNECTING, ARQ_CONNECTED, WAITFORACK
<1>6. Course(z, w)
  <2>1. w.LinkState \notin {TIMEDOUT, ARQ_CONNECTING, WAITFORACK}
        /\ z.LinkState \notin {TIMEDOUT, ARQ_CONNECTING}
    BY <1>1, <1>3 DEF TIMEDOUT, ARQ_CONNECTING, ARQ_CONNECTED, WAITFORACK, WAITING
  <2>2. z.LinkState = WAITFORACK => Unsent(z) /\ Deaf(w)
    BY <1>1, <1>4 DEF Pair, Line, Course
  <2> QED  BY <1>1, <1>2, <1>5, <2>1, <2>2 DEF Says, Course
<1>7. Keeps(z, w)
  <2>1. Flies(z, w)
    BY <1>1, EmptySeq DEF Flies
  <2>2. w.LinkState # WAITFORACK
    BY <1>3 DEF ARQ_CONNECTED, WAITFORACK
  <2> QED  BY <1>1, <1>3, <2>1, <2>2, KeepsSame DEF Pair, Line, Talks
<1> QED  BY <1>1, <1>2, <1>4, <1>6, <1>7 DEF Line, Says, Talks, z

LEMMA HeardCONACK ==
    ASSUME NEW x, NEW y, Pair(x, y), ~x.hung
    PROVE  /\ y.air # <<>> /\ y.LinkState = WAITFORACK
                => Line(ParseFrame(x, Head(y.air)), After(y))
           /\ x.air # <<>> /\ x.LinkState = WAITFORACK
                => Line(After(x), ParseFrame(y, Head(x.air)))
<1>1. ASSUME y.air # <<>>, y.LinkState = WAITFORACK
      PROVE  Line(ParseFrame(x, Head(y.air)), After(y))
  <2> DEFINE f == Head(y.air)
             w == ParseFrame(x, f)
  <2>1. /\ Apt(f, y, x) /\ Sound(x) /\ Mannered(x) /\ ~Speaks(x) /\ x.air = <<>>
        /\ x.LinkState \in {DOWN, ARQ_CONNECTING, ARQ_CONNECTED, WAITING, WAITFORACK}
    BY <1>1, Speaker
  <2>2. f.type = "CONACK"
    BY <1>1, <2>1 DEF Apt
  <2>3. x.RxTextQueue = <<>>
    BY DEF Pair, Line, Deaf
  <2>4. (Talks(x, w) /\ w.air = <<>>) \/ (x.LinkState # DOWN /\ Answers(x, w))
    <3> HIDE DEF f
    <3> QED  BY <2>1, <2>2, <2>3, HearCall
  <2> HIDE DEF w, f
  <2> QED  BY <1>1, <2>1, <2>4, UnheardLine, SenderAnswers DEF w, f
<1>2. ASSUME x.air # <<>>, x.LinkState = WAITFORACK
      PROVE  Line(After(x), ParseFrame(y, Head(x.air)))
  <2> DEFINE f == Head(x.air)
             w == ParseFrame(y, f)
  <2>1. /\ Apt(f, x, y) /\ Sound(y) /\ Mannered(y) /\ ~Speaks(y) /\ After(x).air = <<>>
        /\ y.LinkState \in {DOWN, ARQ_CONNECTING, ARQ_CONNECTED, WAITING, WAITFORACK}
    BY <1>2, Speaker DEF WAITING, WAITFORACK
  <2>2. f.type = "CONACK"
    BY <1>2, <2>1 DEF Apt
  <2>3. y.RxTextQueue = <<>> /\ ~y.hung
    BY <1>2 DEF Pair, Line, Course, Deaf, Mute
  <2>4. Talks(y, w) \/ (y.LinkState # DOWN /\ Answers(y, w))
    <3> HIDE DEF f
    <3> QED  BY <2>1, <2>2, <2>3, HearCall
  <2> HIDE DEF w, f
  <2> QED  BY <1>2, <2>1, <2>4, UnheardLine, ReceiverAnswers DEF w, f
<1> QED  BY <1>1, <1>2

LEMMA HeardPOLL ==
    ASSUME NEW x, NEW y, Pair(x, y), x.air # <<>>, x.LinkState = WAITING,
           Head(x.air).type = "POLL"
    PROVE  Line(After(x), ParseFrame(y, Head(x.air)))
<1> DEFINE f == Head(x.air)
           w == ParseFrame(y, f)
<1>1. /\ Sound(y) /\ Mannered(y) /\ ~Speaks(y) /\ After(x).air = Tail(x.air)
      /\ y.LinkState \in {DOWN, ARQ_CONNECTING, ARQ_CONNECTED, WAITING, WAITFORACK}
  BY Speaker
<1>2. After(x).air = <<>>
  <2>1. x.air \in Seq(Frames)
    BY DEF Pair, Whole, Sound, Station
  <2>2. Burst(x.air)
    BY DEF Pair, Line, Mannered
  <2>3. Head(x.air) = x.air[1] /\ 1 \in 1 .. Len(x.air) /\ Len(Tail(x.air)) = Len(x.air) - 1
        /\ Tail(x.air) \in Seq(Frames)
    BY <2>1, HeadTailProperties, EmptySeq, LenProperties
  <2>4. 1 = Len(x.air)
    BY <2>2, <2>3 DEF Burst
  <2>5. Len(Tail(x.air)) = 0
    BY <2>3, <2>4
  <2> HIDE DEF After
  <2> QED  BY <1>1, <2>3, <2>5, EmptySeq
<1>3. ~y.hung
  BY DEF Pair, Line, Mute
<1>4. Talks(y, w) \/ (y.LinkState # DOWN /\ Answers(y, w))
  <2> HIDE DEF f
  <2> QED  BY <1>1, <1>3, HearCall DEF f
<1> HIDE DEF w, f
<1> QED  BY <1>2, <1>4, UnheardLine, ReceiverAnswers DEF w, f

\* A report of the receiver crosses off what it has, and moves the window on.
LEMMA ReportCrosses ==
    ASSUME NEW x, NEW y, Pair(x, y), x.LinkState = WAITING, ~x.hung, y.LinkState = ARQ_CONNECTED,
           ~WalkNeverEnds(x.LastHeader, y.EndHeader),
           NEW w, w.LinkState = ARQ_CONNECTED, ~w.hung, w.air = <<>>,
           w.LastHeader = x.LastHeader, w.TxBlocks = x.TxBlocks, w.queued = x.queued,
           w.UrGoodHeader = y.GoodHeader,
           w.TxMissing = {b \in x.TxMissing :
               b.nbr \in ConsideredMissing(x.LastHeader, y.EndHeader, y.MissingRxBlocks)}
    PROVE  Keeps(w, y)
<1> DEFINE h == Sent(x)
           g == Got(y)
           K == Pend(y)
           missing == ConsideredMissing(x.LastHeader, y.EndHeader, y.MissingRxBlocks)
<1>1. /\ g \in Nat /\ h \in Nat /\ MaxCount \in Nat /\ MaxCount >= 4 /\ x.TxMissing \in SUBSET Blocks
  <2>1. Len(x.TxBlocks) \in Nat /\ x.queued \in Nat /\ g \in Nat /\ x.TxMissing \in SUBSET Blocks
    BY LenProperties, StationAssumption DEF Pair, Whole, Sound, Station, Got
  <2>2. g <= h
    BY DEF Pair, Line, Keeps
  <2> QED  BY <2>1, <2>2, MaxCountAssumption DEF Sent
<1>2. /\ g <= h /\ K \subseteq 1 .. h /\ Covered(x, y) /\ x.LastHeader = NbrOf(h)
      /\ Right(x.TxMissing) /\ InWindow(x, y)
  BY DEF Pair, Line, Keeps, InSess
<1>3. PICK u \in 0 .. g : /\ x.UrGoodHeader = NbrOf(u) /\ h <= u + MaxCount - 3
                          /\ Texts(x.TxMissing) \subseteq u + 1 .. h
  BY <1>2 DEF InWindow
<1>4. PICK e \in g .. g + MaxCount - 3 :
            /\ K = {} => e = g
            /\ K # {} => e \in K
            /\ \A t \in K : t <= e
            /\ y.EndHeader = NbrOf(e)
            /\ y.MissingRxBlocks = {NbrOf(t) : t \in (g + 1 .. e) \ K}
  BY DEF Pair, Line, Delivers
<1>5. 1 .. g \subseteq y.printed /\ y.GoodHeader = NbrOf(g) /\ K \subseteq g + 2 .. g + MaxCount - 3
  BY DEF Pair, Line, Delivers
<1>6. Sent(w) = h
  BY DEF Sent
<1> HIDE DEF g, h, K
<1>7. u \in Nat /\ e \in Nat /\ u <= g /\ g <= e /\ e <= h /\ K \in SUBSET (g + 1 .. e)
  BY <1>1, <1>2, <1>3, <1>4, <1>5
<1>8. ASSUME NEW t \in u + 1 .. h
      PROVE  /\ NbrOf(t) \in missing => t > g /\ t \notin K
             /\ t > g /\ t \notin K /\ NbrOf(t) # 0 => NbrOf(t) \in missing
  <2>1. ~WalkNeverEnds(NbrOf(h), NbrOf(e))
    BY <1>2, <1>4
  <2>2. missing = ConsideredMissing(NbrOf(h), NbrOf(e), {NbrOf(i) : i \in (g + 1 .. e) \ K})
    BY <1>2, <1>4
  <2>3. /\ u \in Nat /\ g \in Nat /\ e \in Nat /\ h \in Nat /\ h <= u + MaxCount - 3
        /\ u <= g /\ g <= e /\ e <= h /\ K \in SUBSET (g + 1 .. e)
    BY <1>1, <1>3, <1>7
  <2> HIDE DEF missing
  <2>4. LET m == ConsideredMissing(NbrOf(h), NbrOf(e), {NbrOf(i) : i \in (g + 1 .. e) \ K})
        IN  /\ NbrOf(t) \in m => t > g /\ t \notin K
            /\ t > g /\ t \notin K /\ NbrOf(t) # 0 => NbrOf(t) \in m
    BY <2>1, <2>3, Crossing
  <2> QED  BY <2>2, <2>4
<1> HIDE DEF missing
<1>9. \A b \in x.TxMissing : /\ b.text \in u + 1 .. h /\ b.nbr = NbrOf(b.text)
                             /\ b \in w.TxMissing <=> NbrOf(b.text) \in missing
  BY <1>2, <1>3 DEF Texts, Right, missing
<1>10. w.TxMissing \subseteq x.TxMissing
  OBVIOUS
<1>11. \A t \in Texts(w.TxMissing) : t \in u + 1 .. h /\ t > g /\ t \notin K
  <2> SUFFICES ASSUME NEW b \in w.TxMissing
               PROVE  b.text \in u + 1 .. h /\ b.text > g /\ b.text \notin K
    BY DEF Texts
  <2> QED  BY <1>8, <1>9, <1>10
<1>12. Covered(w, y)
  <2> SUFFICES ASSUME NEW t \in 1 .. h, NbrOf(t) # 0, t \notin y.printed, t \notin K
               PROVE  t \in Texts(w.TxMissing)
    BY <1>6 DEF Covered, K
  <2>1. t \in Texts(x.TxMissing)
    BY <1>2 DEF Covered, h, K
  <2>2. PICK b \in x.TxMissing : b.text = t
    BY <2>1 DEF Texts
  <2>3. t > g
    BY <1>1, <1>5
  <2>4. b \in w.TxMissing
    BY <1>8, <1>9, <2>2, <2>3
  <2> QED  BY <2>2, <2>4 DEF Texts
<1>13. InWindow(w, y)
  <2>1. g \in 0 .. g /\ h <= g + MaxCount - 3
    BY <1>1, <1>3, <1>7
  <2>2. Texts(w.TxMissing) \subseteq g + 1 .. h
    BY <1>1, <1>7, <1>11
  <2>3. y.LinkState # WAITFORACK
    BY DEF ARQ_CONNECTED, WAITFORACK
  <2> QED  BY <1>5, <1>6, <2>1, <2>2, <2>3 DEF InWindow, g
<1>14. Flies(w, y)
  BY EmptySeq DEF Flies
<1>15. Right(w.TxMissing)
  BY <1>2, <1>10 DEF Right
<1>16. y.LinkState # WAITFORACK
  BY DEF ARQ_CONNECTED, WAITFORACK
<1> QED  BY <1>2, <1>6, <1>11, <1>12, <1>13, <1>14, <1>15, <1>16 DEF Keeps, g, h, K

LEMMA HeardSTATUS ==
    ASSUME NEW x, NEW y, Pair(x, y), ~x.hung
    PROVE  /\ y.air # <<>> /\ y.LinkState = ARQ_CONNECTED
                => Line(ParseFrame(x, Head(y.air)), After(y))
           /\ x.air # <<>> /\ x.LinkState = ARQ_CONNECTED
                => Line(After(x), ParseFrame(y, Head(x.air)))
<1>1. ASSUME y.air # <<>>, y.LinkState = ARQ_CONNECTED
      PROVE  Line(ParseFrame(x, Head(y.air)), After(y))
  <2> DEFINE f == Head(y.air)
             w == ParseFrame(x, f)
             z == After(y)
  <2>1. /\ Apt(f, y, x) /\ Sound(x) /\ Mannered(x) /\ ~Speaks(x) /\ Talks(y, z)
        /\ ~Speaks(z) /\ Underway(z) = {}
    BY <1>1, Speaker DEF ARQ_CONNECTED, WAITING
  <2>2. /\ f.type = "STATUS" /\ x.LinkState \in {WAITFORACK, WAITING}
        /\ f.good = y.GoodHeader /\ f.end = y.EndHeader /\ f.missing = y.MissingRxBlocks
    BY <1>1, <2>1 DEF Apt
  <2>3. /\ ~Speaks(w) /\ Underway(w) = {} /\ w.air = <<>>
        /\ Mannered(w) \/ (x.LinkState # WAITING /\ w.hung)
        /\ SameRx(x, w) /\ w.LastHeader = x.LastHeader /\ w.TxBlocks = x.TxBlocks
        /\ w.queued = x.queued /\ w.UrGoodHeader = y.GoodHeader
        /\ WalkNeverEnds(x.LastHeader, y.EndHeader) =>
                 w.hung /\ w.TxMissing = x.TxMissing /\ w.LinkState = x.LinkState
        /\ ~WalkNeverEnds(x.LastHeader, y.EndHeader) =>
                 /\ ~w.hung /\ w.LinkState = ARQ_CONNECTED
                 /\ w.TxMissing = {b \in x.TxMissing :
                       b.nbr \in ConsideredMissing(x.LastHeader, y.EndHeader, y.MissingRxBlocks)}
    <3> HIDE DEF f
    <3> QED  BY <2>1, <2>2, HearSTATUS
  <2> HIDE DEF f, w, z
  <2>4. /\ Mute(z) /\ Delivers(z) /\ Deaf(w) /\ z.LinkState = ARQ_CONNECTED
        /\ Mannered(z) /\ SameRx(y, z) /\ (Deaf(y) => Deaf(z))
    BY <1>1, <2>1, <2>3, DeliversSame DEF Pair, Line, Talks, Mute, SameTx, SameRx, Deaf
  <2>5. ASSUME Keeps(w, y), Mannered(w), w.LinkState \in {ARQ_CONNECTED, WAITING}
        PROVE  Line(w, z)
    <3>1. Keeps(w, z)
      <4>1. z.LinkState # WAITFORACK
        BY <2>4 DEF ARQ_CONNECTED, WAITFORACK
      <4>2. Flies(w, z) /\ SameTx(w, w)
        BY <2>3, EmptySeq DEF Flies, SameTx
      <4> QED  BY <2>4, <2>5, <4>1, <4>2, KeepsSame
    <3>2. Course(w, z)
      BY <2>1, <2>3, <2>4, <2>5 DEF Course, TIMEDOUT, ARQ_CONNECTING, ARQ_CONNECTED, WAITING,
         WAITFORACK
    <3> QED  BY <2>4, <2>5, <3>1, <3>2 DEF Line
  <2>6. CASE x.LinkState = WAITFORACK
    <3>1. Unsent(x) /\ Deaf(y)
      BY <2>6 DEF Pair, Line, Course
    <3>2. Got(y) = 0 /\ Pend(y) = {}
      BY <3>1, EmptySeq DEF Deaf, Got, Pend, Texts
    <3>3. y.GoodHeader = NbrOf(0) /\ y.EndHeader = NbrOf(0)
      BY <3>2 DEF Pair, Line, Delivers
    <3>4. ~WalkNeverEnds(x.LastHeader, y.EndHeader)
      BY <3>1, <3>3, NbrOfStart DEF WalkNeverEnds, Unsent
    <3>5. Unsent(w) /\ ~w.hung /\ w.LinkState = ARQ_CONNECTED
      BY <2>3, <3>1, <3>3, <3>4, NbrOfStart DEF Unsent
    <3>6. \A i \in 1 .. Len(w.air) : w.air[i].type # "DATA"
      BY <2>3, EmptySeq
    <3>7. Keeps(w, y) /\ Mannered(w)
      BY <2>3, <3>1, <3>5, <3>6, KeepsFresh
    <3> QED  BY <2>5, <3>5, <3>7 DEF f, w, z
  <2>7. CASE x.LinkState = WAITING /\ WalkNeverEnds(x.LastHeader, y.EndHeader)
    <3>1. w.hung /\ w.TxMissing = x.TxMissing /\ w.LinkState = WAITING /\ Mannered(w)
      BY <2>3, <2>7
    <3>2. Sent(w) = Sent(x)
      BY <2>3 DEF Sent
    <3>3. Got(y) <= Sent(x) /\ Pend(y) \subseteq 1 .. Sent(x) /\ Covered(x, y)
      BY <2>7 DEF Pair, Line, Keeps, InSess
    <3>4. Covered(w, y) /\ Flies(w, y)
      BY <2>3, <3>1, <3>2, <3>3, EmptySeq DEF Covered, Flies
    <3>5. Keeps(w, y)
      BY <1>1, <3>1, <3>2, <3>3, <3>4 DEF Keeps, ARQ_CONNECTED, WAITING, WAITFORACK
    <3> QED  BY <2>5, <3>1, <3>5 DEF f, w, z
  <2>8. CASE x.LinkState = WAITING /\ ~WalkNeverEnds(x.LastHeader, y.EndHeader)
    <3>1. /\ ~w.hung /\ w.LinkState = ARQ_CONNECTED /\ Mannered(w)
          /\ w.TxMissing = {b \in x.TxMissing :
                b.nbr \in ConsideredMissing(x.LastHeader, y.EndHeader, y.MissingRxBlocks)}
      BY <2>3, <2>8
    <3>2. Keeps(w, y)
      BY <1>1, <2>3, <2>8, <3>1, ReportCrosses
    <3> QED  BY <2>5, <3>1, <3>2 DEF f, w, z
  <2> QED  BY <2>2, <2>6, <2>7, <2>8 DEF f, w, z
<1>2. ASSUME x.air # <<>>, x.LinkState = ARQ_CONNECTED
      PROVE  Line(After(x), ParseFrame(y, Head(x.air)))
  <2> DEFINE f == Head(x.air)
             w == ParseFrame(y, f)
             z == After(x)
  <2>1. /\ Apt(f, x, y) /\ Sound(y) /\ Mannered(y) /\ ~Speaks(y) /\ Talks(x, z)
        /\ ~Speaks(z) /\ Underway(z) = {} /\ z.air = <<>>
    BY <1>2, Speaker DEF ARQ_CONNECTED, WAITING
  <2>2. f.type = "STATUS" /\ y.LinkState = WAITFORACK /\ f.end = x.EndHeader
    BY <1>2, <2>1 DEF Apt, Pair, Line, Mute
  <2>3. y.TxMissing = {} /\ y.TxBlocks = <<>> /\ y.queued = 0 /\ y.LastHeader = MaxCount - 1 /\ ~y.hung
    BY DEF Pair, Line, Mute
  <2>4. ~WalkNeverEnds(y.LastHeader, f.end)
    BY <2>3, MaxCountAssumption DEF WalkNeverEnds
  <2>5. /\ ~Speaks(w) /\ Underway(w) = {} /\ w.air = <<>>
        /\ Mannered(w) \/ w.hung
        /\ SameRx(y, w) /\ w.LastHeader = y.LastHeader /\ w.TxBlocks = y.TxBlocks
        /\ w.queued = y.queued /\ ~w.hung /\ w.LinkState = ARQ_CONNECTED
        /\ w.TxMissing = {b \in y.TxMissing :
                              b.nbr \in ConsideredMissing(y.LastHeader, f.end, f.missing)}
    <3> HIDE DEF f
    <3> QED  BY <2>1, <2>2, <2>3, <2>4, HearSTATUS
  <2> HIDE DEF f, w, z
  <2>6. Mute(w) /\ Delivers(w) /\ Mannered(w)
    BY <2>3, <2>5, DeliversSame DEF Pair, Line, Mute, ARQ_CONNECTED, WAITING
  <2>7. Deaf(z) /\ z.LinkState = ARQ_CONNECTED /\ Mannered(z)
    BY <1>2, <2>1 DEF Pair, Line, Talks, Deaf, SameRx
  <2>8. Course(z, w)
    BY <2>1, <2>5, <2>7 DEF Course, TIMEDOUT, ARQ_CONNECTING, ARQ_CONNECTED, WAITFORACK
  <2>9. Keeps(z, w)
    <3>1. w.LinkState # WAITFORACK
      BY <2>5 DEF ARQ_CONNECTED, WAITFORACK
    <3>2. Flies(z, w)
      BY <2>1, EmptySeq DEF Flies
    <3> QED  BY <2>1, <2>5, <3>1, <3>2, KeepsSame DEF Pair, Line, Talks
  <2> QED  BY <2>6, <2>7, <2>8, <2>9 DEF Line, f, w, z
<1> QED  BY <1>1, <1>2

\* What parseDATA makes of a block that is new and from the window.
LEMMA HearDATA ==
    ASSUME NEW y, Sound(y), Mannered(y), ~Speaks(y), Delivers(y), y.LinkState # WAITING,
           NEW f, f.type = "DATA", f.block \in Blocks, f.block.nbr = NbrOf(f.block.text),
           f.block.text \in Got(y) + 1 .. Got(y) + MaxCount - 3, f.block.text \notin Pend(y)
    PROVE  LET w == ParseFrame(y, f)
           IN  \/ Talks(y, w)
               \/ \E n \in Nat :
                    /\ Delivers(w) /\ Mannered(w) /\ ~Speaks(w) /\ Underway(w) = {} /\ w.air = y.air
                    /\ SameTx(y, w) /\ w.LinkState = y.LinkState
                    /\ ~(y.LinkState < ARQ_CONNECTED)
                    /\ w.RxTextQueue = y.RxTextQueue \o [i \in 1 .. n |-> Got(y) + i]
                    /\ Got(w) = Got(y) + n
                    /\ Got(y) + 1 .. Got(y) + n \subseteq Pend(y) \cup {f.block.text}
                    /\ Pend(w) = (Pend(y) \cup {f.block.text}) \ (Got(y) + 1 .. Got(y) + n)
                    /\ y.printed \subseteq w.printed /\ 1 .. Got(y) + n \subseteq w.printed
<1> DEFINE v == [y EXCEPT !.retries = Retries]
           w == ParseFrame(y, f)
           g == Got(y)
           pending == y.RxPending \cup {f.block}
           T == Texts(pending)
           nbrs == Nbrs(pending)
           kept == {b \in pending : b.nbr \notin Delivered(nbrs, NbrOf(g))}
           texts == DeliveredTexts(pending, NbrOf(g))
           good == NewGood(nbrs, NbrOf(g))
           end == LastPending(nbrs, NbrOf(g))
<1>1. /\ y.RxPending \in SUBSET Blocks /\ g \in Nat /\ y.RxTextQueue \in Seq(Text)
      /\ MaxCount \in Nat /\ MaxCount >= 4
  BY LenProperties, MaxCountAssumption DEF Whole, Sound, Station, Got
<1>2. /\ y.GoodHeader = NbrOf(g) /\ Right(y.RxPending) /\ Pend(y) \subseteq g + 2 .. g + MaxCount - 3
      /\ (\A i \in 1 .. g : y.RxTextQueue[i] = i) /\ 1 .. g \subseteq y.printed
  BY DEF Delivers
<1>3. w = ParseDATA(v, f.block)
  BY DEF ParseFrame
<1>4. T = Pend(y) \cup {f.block.text}
  BY DEF Texts, Pend
<1>5. pending \in SUBSET Blocks /\ pending # {} /\ Right(pending) /\ T \subseteq g + 1 .. g + MaxCount - 3
  <2>1. pending \in SUBSET Blocks /\ pending # {} /\ Right(pending)
    BY <1>1, <1>2 DEF Right
  <2>2. \A t \in Pend(y) : t \in g + 1 .. g + MaxCount - 3
    <3> SUFFICES ASSUME NEW t \in g + 2 .. g + MaxCount - 3 PROVE t \in g + 1 .. g + MaxCount - 3
      BY <1>2
    <3> HIDE DEF g
    <3> QED  BY <1>1
  <2> HIDE DEF T, pending
  <2> QED  BY <1>4, <2>1, <2>2
<1>6. PICK n \in Nat, e \in T :
        /\ good = NbrOf(g + n)
        /\ texts = [i \in 1 .. n |-> g + i]
        /\ g + 1 .. g + n \subseteq T
        /\ g + n + 1 \notin T
        /\ Texts(kept) = T \ (g + 1 .. g + n)
        /\ \A t \in T : t <= e
        /\ end = NbrOf(e)
        /\ Gaps(Nbrs(kept), NbrOf(g + n), NbrOf(e)) = {NbrOf(t) : t \in (g + n + 1 .. e) \ Texts(kept)}
  <2> HIDE DEF pending, g
  <2> QED  BY <1>1, <1>5, Delivery
<1>7. v = [y EXCEPT !.retries = Retries, !.UrCall = y.UrCall]
  BY DEF Whole, Sound, Station
<1>8. CASE y.LinkState < ARQ_CONNECTED \/ f.block.nbr \in Nbrs(y.RxPending)
  <2>1. v.LinkState = y.LinkState /\ v.RxPending = y.RxPending
    BY DEF Whole, Sound, Station
  <2>2. w = v
    BY <1>3, <1>8, <2>1 DEF ParseDATA
  <2>3. Talks(y, v)
    <3> HIDE DEF v
    <3> QED  BY <1>7, StillTalks
  <2> QED  BY <2>2, <2>3
<1>9. CASE ~(y.LinkState < ARQ_CONNECTED \/ f.block.nbr \in Nbrs(y.RxPending))
  <2>1. w = [v EXCEPT !.RxPending = kept, !.EndHeader = end, !.GoodHeader = good,
                      !.RxTextQueue = @ \o texts,
                      !.printed = @ \cup Elements(texts),
                      !.reprinted = @ \cup (v.printed \cap Elements(texts)),
                      !.MissingRxBlocks = Gaps(Nbrs(kept), good, end)]
    <3>1. v.LinkState = y.LinkState /\ v.RxPending = y.RxPending /\ v.GoodHeader = NbrOf(g)
      BY <1>2 DEF Whole, Sound, Station
    <3> HIDE DEF v, w
    <3> QED  BY <1>3, <1>9, <3>1 DEF ParseDATA
  <2> HIDE DEF w, kept, end, good, texts, g
  <2>2. /\ w.RxPending = kept /\ w.EndHeader = end /\ w.GoodHeader = good
        /\ w.RxTextQueue = y.RxTextQueue \o texts /\ w.printed = y.printed \cup Elements(texts)
        /\ w.MissingRxBlocks = Gaps(Nbrs(kept), good, end)
        /\ SameTx(y, w) /\ w.LinkState = y.LinkState /\ w.air = y.air
        /\ w.TxTextQueue = y.TxTextQueue /\ w.Sending = y.Sending /\ w.immediate = y.immediate
        /\ w.arqstop = y.arqstop
    BY <2>1 DEF SameTx, Whole, Sound, Station
  <2>3. Mannered(w) /\ ~Speaks(w) /\ Underway(w) = {}
    <3>1. y.LinkState = WAITING => ~y.immediate /\ Burst(y.air)
      BY DEF Mannered
    <3>2. w.hung = y.hung
      BY <2>2 DEF SameTx
    <3>3. Mannered(w) /\ ~Speaks(w)
      BY <2>2, <3>2 DEF Mannered, Speaks
    <3>4. Underway(w) = Underway(y) /\ Underway(y) = {}
      BY <2>2, SilentCourse DEF Underway
    <3> QED  BY <3>3, <3>4
  <2>4. /\ Got(w) = g + n
        /\ \A i \in 1 .. g + n : w.RxTextQueue[i] = i
    <3>1. texts \in Seq(Nat) /\ Len(texts) = n
      <4>1. texts \in [1 .. n -> Nat]
        BY <1>1, <1>6
      <4> QED  BY <1>6, <4>1
    <3>2. y.RxTextQueue \in Seq(Nat) /\ Len(y.RxTextQueue) = g
      <4>1. Text \subseteq Nat
        BY StationAssumption DEF Text
      <4> QED  BY <1>1, <4>1, SeqMonotonic DEF g, Got
    <3>3. /\ Len(y.RxTextQueue \o texts) = g + n
          /\ \A i \in 1 .. g + n : (y.RxTextQueue \o texts)[i]
                = IF i <= g THEN y.RxTextQueue[i] ELSE texts[i - g]
      <4> DEFINE q == y.RxTextQueue
      <4>1. q \in Seq(Nat) /\ Len(q) = g
        BY <3>2
      <4> HIDE DEF q, g, texts
      <4>2. /\ Len(q \o texts) = Len(q) + Len(texts)
            /\ \A i \in 1 .. Len(q) + Len(texts) :
                    (q \o texts)[i] = IF i <= Len(q) THEN q[i] ELSE texts[i - Len(q)]
        BY <3>1, <4>1, ConcatProperties
      <4> QED  BY <3>1, <4>1, <4>2 DEF q
    <3>4. ASSUME NEW i \in 1 .. g + n
          PROVE  (y.RxTextQueue \o texts)[i] = i
      <4>1. i <= g => y.RxTextQueue[i] = i
        BY <1>1, <1>2
      <4>2. ~(i <= g) => i - g \in 1 .. n /\ g + (i - g) = i
        BY <1>1, <1>6
      <4> QED  BY <1>6, <3>3, <4>1, <4>2
    <3> QED  BY <2>2, <3>3, <3>4 DEF Got
  <2>5. Pend(w) = T \ (g + 1 .. g + n)
    BY <1>6, <2>2 DEF Pend
  <2>6. 1 .. g + n \subseteq w.printed /\ y.printed \subseteq w.printed
    <3>1. Elements(texts) = {g + i : i \in 1 .. n}
      <4>1. Len(texts) = n
        <5>1. texts \in [1 .. n -> Nat]
          BY <1>1, <1>6
        <5> QED  BY <1>6, <5>1
      <4> QED  BY <1>6, <4>1 DEF Elements
    <3>2. ASSUME NEW t \in 1 .. g + n
          PROVE  t \in 1 .. g \/ \E i \in 1 .. n : t = g + i
      <4>1. t > g => t - g \in 1 .. n /\ g + (t - g) = t
        BY <1>1, <1>6
      <4> QED  BY <1>1, <4>1
    <3> QED  BY <1>2, <2>2, <3>1, <3>2
  <2>7. Delivers(w)
    <3> DEFINE a == g + n
    <3>0. a \in Nat /\ g <= a
      BY <1>1, <1>6
    <3>1. Pend(w) \subseteq a + 2 .. a + MaxCount - 3
      <4> SUFFICES ASSUME NEW t \in T, t \notin g + 1 .. a PROVE t \in a + 2 .. a + MaxCount - 3
        BY <2>5
      <4>1. t \in g + 1 .. g + MaxCount - 3 /\ t # a + 1
        BY <1>5, <1>6
      <4> HIDE DEF a
      <4> QED  BY <1>1, <3>0, <4>1
    <3>2. e \in g + 1 .. g + MaxCount - 3
      BY <1>5, <1>6
    <3>3. e >= a
      <4>1. n # 0 => a \in g + 1 .. a
        BY <1>1, <1>6
      <4>2. n # 0 => a <= e
        BY <1>6, <4>1
      <4> QED  BY <1>1, <1>6, <3>0, <3>2, <4>2
    <3>4. Pend(w) = {} => e = a
      <4> SUFFICES ASSUME Pend(w) = {} PROVE e = a
        OBVIOUS
      <4>1. e \in g + 1 .. a
        BY <1>6, <2>5
      <4> HIDE DEF a
      <4> QED  BY <3>0, <3>2, <3>3, <4>1
    <3>5. Pend(w) # {} => e \in Pend(w)
      <4> SUFFICES ASSUME NEW t \in Pend(w) PROVE e \in Pend(w)
        OBVIOUS
      <4>1. t \in T /\ t \in a + 2 .. a + MaxCount - 3
        BY <2>5, <3>1
      <4>2. t <= e
        BY <1>6, <4>1
      <4> HIDE DEF a
      <4>3. e > a
        BY <3>0, <3>2, <4>1, <4>2
      <4>4. e \notin g + 1 .. a
        BY <3>0, <3>2, <4>3
      <4> QED  BY <1>6, <2>5, <4>4 DEF a
    <3>6. e \in a .. a + MaxCount - 3
      BY <1>1, <3>0, <3>2, <3>3
    <3>7. \A t \in Pend(w) : t <= e
      BY <1>6, <2>5
    <3>8. w.MissingRxBlocks = {NbrOf(t) : t \in (a + 1 .. e) \ Pend(w)}
      BY <1>6, <2>2 DEF Pend
    <3>9. Right(w.RxPending)
      BY <1>5, <2>2 DEF Right, kept
    <3>10. w.GoodHeader = NbrOf(a) /\ w.EndHeader = NbrOf(e)
      BY <1>6, <2>2
    <3>11. Got(w) = a /\ (\A i \in 1 .. a : w.RxTextQueue[i] = i) /\ 1 .. a \subseteq w.printed
      BY <2>4, <2>6
    <3> HIDE DEF a
    <3> QED  BY <3>1, <3>4, <3>5, <3>6, <3>7, <3>8, <3>9, <3>10, <3>11 DEF Delivers
  <2> QED  BY <1>4, <1>6, <1>9, <2>2, <2>3, <2>4, <2>5, <2>6, <2>7 DEF g, w
<1> QED  BY <1>8, <1>9

\* A block of text arrives: it is new to the receiver, and in the window.
LEMMA HeardDATA ==
    ASSUME NEW x, NEW y, Pair(x, y), x.air # <<>>, x.LinkState = WAITING,
           Head(x.air).type = "DATA"
    PROVE  LET w == ParseFrame(y, Head(x.air))
           IN  /\ Line(After(x), w)
               /\ \/ w.RxTextQueue = y.RxTextQueue
                  \/ \E n \in Nat :
                        /\ Got(y) + n <= x.queued
                        /\ w.RxTextQueue = y.RxTextQueue \o [i \in 1 .. n |-> Got(y) + i]
<1> DEFINE f == Head(x.air)
           w == ParseFrame(y, f)
           z == After(x)
           g == Got(y)
           h == Sent(x)
           b == f.block
<1>1. /\ Sound(y) /\ Mannered(y) /\ ~Speaks(y) /\ f \in Frames /\ Talks(x, z) /\ z.air = Tail(x.air)
      /\ Flies(x, y)
  BY Speaker DEF Pair, Line, Keeps, InSess
<1>2. /\ x.air \in Seq(Frames) /\ g \in Nat /\ h \in Nat /\ h <= x.queued /\ g <= h
      /\ MaxCount \in Nat /\ MaxCount >= 4 /\ Pend(y) \subseteq 1 .. h /\ Covered(x, y)
  <2>1. Len(x.TxBlocks) \in Nat /\ x.queued \in Nat /\ g \in Nat /\ x.air \in Seq(Frames)
    BY LenProperties, StationAssumption DEF Pair, Whole, Sound, Station, Got
  <2>2. g <= h /\ Pend(y) \subseteq 1 .. h /\ Covered(x, y)
    BY DEF Pair, Line, Keeps, InSess
  <2> QED  BY <2>1, <2>2, MaxCountAssumption DEF Sent
<1>3. f = x.air[1] /\ Len(x.air) \in Nat /\ 1 \in 1 .. Len(x.air) /\ Len(Tail(x.air)) = Len(x.air) - 1
      /\ \A i \in 1 .. Len(x.air) - 1 : Tail(x.air)[i] = x.air[i + 1]
  BY <1>2, HeadTailProperties, EmptySeq, LenProperties
<1>4. /\ b.nbr = NbrOf(b.text) /\ b.text \in g + 1 .. h /\ b.text \notin Pend(y)
      /\ \A j \in 1 .. Len(x.air) : x.air[j].type = "DATA" /\ x.air[j].block.text = b.text => 1 = j
  BY <1>1, <1>3 DEF Flies
<1>5. ~x.hung
  BY DEF Pair, Line, Mannered
<1>6. InWindow(x, y) /\ x.LastHeader = NbrOf(h) /\ Right(x.TxMissing)
      /\ (y.LinkState = WAITFORACK => 1 .. h \subseteq Texts(x.TxMissing))
  BY <1>5 DEF Pair, Line, Keeps, InSess
<1>7. PICK u \in 0 .. g :
        /\ x.UrGoodHeader = NbrOf(u) /\ h <= u + MaxCount - 3
        /\ Texts(x.TxMissing) \subseteq u + 1 .. h
        /\ y.LinkState = WAITFORACK => u = 0
  BY <1>6 DEF InWindow
<1>8. b.text \in g + 1 .. g + MaxCount - 3
  <2>1. u \in Int /\ u <= g
    BY <1>2
  <2> HIDE DEF g, h, b
  <2> QED  BY <1>2, <1>4, <1>7, <2>1
<1>9. f.block \in Blocks /\ f.type = "DATA"
  BY <1>1 DEF Frames, Plain, Reports
<1>10. Delivers(y) /\ y.LinkState # WAITING
  BY DEF Pair, Line, Mute
<1>11. \/ Talks(y, w)
       \/ \E n \in Nat :
            /\ Delivers(w) /\ Mannered(w) /\ ~Speaks(w) /\ Underway(w) = {} /\ w.air = y.air
            /\ SameTx(y, w) /\ w.LinkState = y.LinkState
            /\ ~(y.LinkState < ARQ_CONNECTED)
            /\ w.RxTextQueue = y.RxTextQueue \o [i \in 1 .. n |-> g + i]
            /\ Got(w) = g + n
            /\ g + 1 .. g + n \subseteq Pend(y) \cup {b.text}
            /\ Pend(w) = (Pend(y) \cup {b.text}) \ (g + 1 .. g + n)
            /\ y.printed \subseteq w.printed /\ 1 .. g + n \subseteq w.printed
  <2> HIDE DEF f
  <2> QED  BY <1>1, <1>4, <1>8, <1>9, <1>10, HearDATA
<1> HIDE DEF f, w, z
<1>12. CASE Talks(y, w)
  <2>1. Line(z, w)
    BY <1>12, UnheardLine DEF z
  <2> QED  BY <1>12, <2>1 DEF Talks, SameRx, z, w, f
<1>13. ASSUME NEW n \in Nat,
            Delivers(w), Mannered(w), ~Speaks(w), Underway(w) = {},
            SameTx(y, w), w.LinkState = y.LinkState,
            ~(y.LinkState < ARQ_CONNECTED),
            w.RxTextQueue = y.RxTextQueue \o [i \in 1 .. n |-> g + i],
            Got(w) = g + n,
            g + 1 .. g + n \subseteq Pend(y) \cup {b.text},
            Pend(w) = (Pend(y) \cup {b.text}) \ (g + 1 .. g + n),
            y.printed \subseteq w.printed, 1 .. g + n \subseteq w.printed
       PROVE  Line(z, w) /\ g + n <= x.queued
  <2>1. g + n <= h
    <3>1. n # 0 => g + n \in Pend(y) \cup {b.text}
      <4>1. n # 0 => g + n \in g + 1 .. g + n
        BY <1>2
      <4> QED  BY <1>13, <4>1
    <3> HIDE DEF g, h
    <3> QED  BY <1>2, <1>4, <3>1
  <2>2. Mannered(z) /\ Deaf(z) /\ SameTx(x, z) /\ Mute(w) /\ z.LinkState = WAITING
    BY <1>1, <1>13 DEF Pair, Line, Talks, Deaf, Mute, SameTx, SameRx
  <2>3. Course(z, w)
    <3>1. \A p \in Underway(z) : Apt(p, z, w)
      BY <2>2 DEF Apt, DOWN, ARQ_CONNECTING, ARQ_CONNECTED, WAITING, WAITFORACK
    <3>2. w.LinkState # TIMEDOUT /\ w.LinkState # ARQ_CONNECTING
      BY <1>13 DEF Pair, Line, Course, ARQ_CONNECTING, ARQ_CONNECTED
    <3> QED  BY <1>13, <2>2, <3>1, <3>2 DEF Course, TIMEDOUT, ARQ_CONNECTING, WAITING, WAITFORACK
  <2>4. Sent(z) = h
    BY <2>2 DEF Sent, SameTx
  <2>5. Pend(w) \subseteq 1 .. h
    <3>1. b.text \in 1 .. h
      BY <1>2, <1>4
    <3> QED  BY <1>2, <1>13, <3>1
  <2>6. Covered(z, w)
    <3> SUFFICES ASSUME NEW t \in 1 .. h, t \in Pend(y), t \notin Pend(w)
                 PROVE  t \in w.printed
      BY <1>2, <1>13, <2>2, <2>4 DEF Covered, SameTx
    <3>1. t \in g + 1 .. g + n
      BY <1>13
    <3>2. t \in 1 .. g + n
      BY <1>2, <3>1
    <3> QED  BY <1>13, <3>2
  <2>7. Flies(z, w)
    <3> SUFFICES ASSUME NEW i \in 1 .. Len(z.air), z.air[i].type = "DATA"
                 PROVE  LET c == z.air[i].block
                        IN  /\ c.nbr = NbrOf(c.text) /\ c.text \in Got(w) + 1 .. h
                            /\ c.text \notin Pend(w)
                            /\ \A j \in 1 .. Len(z.air) :
                                 z.air[j].type = "DATA" /\ z.air[j].block.text = c.text => i = j
      BY <2>4 DEF Flies
    <3> DEFINE c == z.air[i].block
    <3>1. \A j \in 1 .. Len(z.air) : j + 1 \in 1 .. Len(x.air) /\ z.air[j] = x.air[j + 1] /\ j + 1 # 1
      BY <1>1, <1>3
    <3>2. /\ c.nbr = NbrOf(c.text) /\ c.text \in g + 1 .. h /\ c.text \notin Pend(y)
          /\ \A j \in 1 .. Len(x.air) :
                x.air[j].type = "DATA" /\ x.air[j].block.text = c.text => i + 1 = j
      BY <1>1, <3>1 DEF Flies
    <3>3. c.text # b.text
      <4>1. x.air[1].type = "DATA" /\ x.air[1].block = b
        BY <1>3 DEF f
      <4> QED  BY <1>3, <3>1, <3>2, <4>1
    <3>4. c.text \notin g + 1 .. g + n /\ c.text \notin Pend(w)
      BY <1>13, <3>2, <3>3
    <3>5. c.text \in g + n + 1 .. h
      <4> HIDE DEF g, h, c
      <4> QED  BY <1>2, <3>2, <3>4
    <3>6. \A j \in 1 .. Len(z.air) :
                z.air[j].type = "DATA" /\ z.air[j].block.text = c.text => i = j
      <4> TAKE j \in 1 .. Len(z.air)
      <4>1. z.air[j].type = "DATA" /\ z.air[j].block.text = c.text => i + 1 = j + 1
        BY <3>1, <3>2
      <4> HIDE DEF c
      <4> QED  BY <4>1
    <3> QED  BY <1>13, <3>2, <3>4, <3>5, <3>6
  <2>8. InWindow(z, w)
    <3>1. u \in 0 .. g + n
      BY <1>2
    <3> QED  BY <1>7, <1>13, <2>2, <2>4, <3>1 DEF InWindow, SameTx
  <2>9. Keeps(z, w)
    <3>1. z.LastHeader = NbrOf(h) /\ Right(z.TxMissing) /\ ~z.hung
          /\ (w.LinkState = WAITFORACK => 1 .. h \subseteq Texts(z.TxMissing))
      BY <1>5, <1>6, <1>13, <2>2 DEF SameTx
    <3> QED  BY <1>13, <2>1, <2>2, <2>4, <2>5, <2>6, <2>7, <2>8, <3>1
             DEF Keeps, ARQ_CONNECTED, WAITING
  <2>10. g + n <= x.queued
    <3>1. x.queued \in Nat
      BY StationAssumption DEF Pair, Whole, Sound, Station
    <3> HIDE DEF g, h
    <3> QED  BY <1>2, <2>1, <3>1
  <2> QED  BY <1>13, <2>2, <2>3, <2>9, <2>10 DEF Line
<1> QED  BY <1>11, <1>12, <1>13 DEF w, z, f

---------------------------------------------------------------------------
(* Every step of the two stations *)

\* What the users see of a step that takes x, y to a, b: the sender's queue
\* grows, or the receiver is handed the next texts, or its session begins anew.
Passes(x, y, a, b) ==
    \/ /\ a.queued = x.queued
       /\ \/ b.RxTextQueue \in {y.RxTextQueue, <<>>}
          \/ \E n \in Nat :
                /\ Got(y) + n <= x.queued
                /\ b.RxTextQueue = y.RxTextQueue \o [i \in 1 .. n |-> Got(y) + i]
    \/ a.queued \in x.queued + 1 .. MaxText /\ b.RxTextQueue = y.RxTextQueue

\* No frame adds to what is queued, and only blocks of text are handed over.
LEMMA ParseFrameHands ==
    ASSUME NEW x, Sound(x), NEW f \in Frames
    PROVE  LET w == ParseFrame(x, f)
           IN  /\ w.queued = x.queued
               /\ f.type # "DATA" => w.RxTextQueue \in {x.RxTextQueue, <<>>}
<1> DEFINE y == [x EXCEPT !.retries = Retries]
           Same(z) == z.queued = x.queued /\ z.RxTextQueue \in {x.RxTextQueue, <<>>}
<1>1. DOMAIN y = DOMAIN NewStation /\ y.queued = x.queued /\ y.RxTextQueue = x.RxTextQueue
  BY DEF Whole, Sound, Station, NewStation
<1> HIDE DEF y
<1>2. /\ Same(y) /\ Same(ParseIDENT(y)) /\ Same(ParseCONREQ(y)) /\ Same(ParseCONACK(y))
      /\ Same(ParseUNPROTO(y)) /\ Same(ParsePOLL(y)) /\ Same(ParseDISACK(y))
  BY <1>1 DEF NewStation, ParseIDENT, ParseCONREQ, ParseCONACK, ParseUNPROTO, ParsePOLL,
     ParseDISACK, AckFrame, Report, Send, AddToTxQue, Reset
<1>3. /\ Same(ParseDISREQ(y)) /\ Same(ParseABORT(y)) /\ Same(ParseACKABORT(y))
  BY <1>1 DEF NewStation, ParseDISREQ, ParseABORT, ParseACKABORT, ClearTx, Report, Send,
     AddToTxQue, Reset
<1>4. Same(ParseSTATUS(y, f))
  BY <1>1 DEF NewStation, ParseSTATUS, EchoAcknowledged, TakeReport
<1>5. ParseDATA(y, f.block).queued = x.queued
  BY <1>1 DEF NewStation, ParseDATA
<1>6. f.type \in Plain \cup Reports \cup {"DATA"}
  BY DEF Frames
<1>7. Same(x)
  OBVIOUS
<1> HIDE DEF Same
<1>8. CASE f.type = "DATA"
  BY <1>5, <1>8 DEF ParseFrame, y
<1>9. CASE f.type # "DATA"
  <2>1. Same(ParseFrame(x, f))
    BY <1>2, <1>3, <1>4, <1>6, <1>7, <1>9 DEF ParseFrame, y, Plain, Reports
  <2> QED  BY <2>1 DEF Same
<1> QED  BY <1>8, <1>9

\* Outside a burst nobody sends text.
LEMMA NoText ==
    ASSUME NEW x, NEW y, Pair(x, y)
    PROVE  /\ x.LinkState # WAITING => \A f \in Underway(x) : f.type # "DATA"
           /\ \A f \in Underway(y) : f.type # "DATA"
<1>1. \A f, p, s : Apt(f, p, s)
          /\ p.LinkState \in {DOWN, ARQ_CONNECTING, ARQ_CONNECTED, WAITFORACK} => f.type # "DATA"
  BY DEF Apt
<1>2. \A a \in {x, y} : a.LinkState \in {DOWN, ARQ_CONNECTING, ARQ_CONNECTED, WAITING, WAITFORACK}
  BY DEF Pair, InStep, Line, Course
<1>3. /\ \A f \in Underway(x) : Apt(f, x, y)
      /\ \A f \in Underway(y) : Apt(f, y, x)
  BY DEF Pair, Line, Course
<1>4. y.LinkState # WAITING
  BY DEF Pair, Line, Mute
<1> QED  BY <1>1, <1>2, <1>3, <1>4

\* A frame arrives.
LEMMA HeardLine ==
    ASSUME NEW x, NEW y, Pair(x, y)
    PROVE  /\ x.air # <<>> => LET w == ParseFrame(y, Head(x.air))
                              IN  Line(After(x), w) /\ Passes(x, y, After(x), w)
           /\ y.air # <<>> /\ ~x.hung => LET w == ParseFrame(x, Head(y.air))
                                         IN  Line(w, After(y)) /\ Passes(x, y, w, After(y))
<1>1. ASSUME x.air # <<>>
      PROVE  LET w == ParseFrame(y, Head(x.air))
             IN  Line(After(x), w) /\ Passes(x, y, After(x), w)
  <2> DEFINE f == Head(x.air)
             w == ParseFrame(y, f)
  <2>1. /\ f \in Frames /\ Sound(y) /\ Talks(x, After(x))
        /\ x.LinkState \in {ARQ_CONNECTING, ARQ_CONNECTED, WAITING, WAITFORACK}
    BY <1>1, Speaker
  <2>2. ~x.hung
    BY <1>1 DEF Pair, Line, Mannered
  <2>3. f \in Underway(x) /\ (x.LinkState = WAITING => f.type \in {"POLL", "DATA"})
    <3>1. x.air \in Seq(Frames)
      BY DEF Pair, Whole, Sound, Station
    <3>2. f = x.air[1] /\ 1 \in 1 .. Len(x.air)
      BY <1>1, <3>1, HeadTailProperties, EmptySeq, LenProperties
    <3>3. x.LinkState = WAITING => Burst(x.air)
      BY DEF Pair, Line, Mannered
    <3> QED  BY <3>2, <3>3 DEF Underway, Elements, Burst
  <2>4. After(x).queued = x.queued
    BY <2>1 DEF Talks, SameTx
  <2>5. CASE x.LinkState = WAITING /\ f.type = "DATA"
    BY <1>1, <2>4, <2>5, HeardDATA DEF Passes
  <2>6. CASE x.LinkState # WAITING \/ f.type # "DATA"
    <3>1. f.type # "DATA"
      BY <2>3, <2>6, NoText
    <3>2. Line(After(x), w)
      BY <1>1, <2>1, <2>2, <2>3, <3>1, HeardCONREQ, HeardCONACK, HeardSTATUS, HeardPOLL
    <3>3. w.RxTextQueue \in {y.RxTextQueue, <<>>}
      <4> HIDE DEF f
      <4> QED  BY <2>1, <3>1, ParseFrameHands
    <3> QED  BY <2>4, <3>2, <3>3 DEF Passes
  <2> QED  BY <2>5, <2>6
<1>2. ASSUME y.air # <<>>, ~x.hung
      PROVE  LET w == ParseFrame(x, Head(y.air))
             IN  Line(w, After(y)) /\ Passes(x, y, w, After(y))
  <2> DEFINE f == Head(y.air)
             w == ParseFrame(x, f)
  <2>1. /\ f \in Frames /\ Sound(x) /\ Talks(y, After(y))
        /\ y.LinkState \in {ARQ_CONNECTING, ARQ_CONNECTED, WAITING, WAITFORACK}
    BY <1>2, Speaker
  <2>2. y.LinkState # WAITING
    BY DEF Pair, Line, Mute
  <2>3. Line(w, After(y))
    BY <1>2, <2>1, <2>2, HeardCONREQ, HeardCONACK, HeardSTATUS
  <2>4. w.queued = x.queued /\ After(y).RxTextQueue = y.RxTextQueue
    <3> HIDE DEF f
    <3> QED  BY <2>1, ParseFrameHands DEF Talks, SameRx
  <2> QED  BY <2>3, <2>4 DEF Passes
<1> QED  BY <1>1, <1>2


\* A frame is lost, or fldigi has sent the burst.
LEMMA LostLine ==
    ASSUME NEW x, NEW y, Pair(x, y)
    PROVE  /\ x.air # <<>> => Line(After(x), y) /\ Passes(x, y, After(x), y)
           /\ y.air # <<>> => Line(x, After(y)) /\ Passes(x, y, x, After(y))
<1>1. Talks(x, x) /\ Talks(y, y)
  BY StillTalks DEF Pair, Line
<1>2. ASSUME x.air # <<>>
      PROVE  Line(After(x), y) /\ Passes(x, y, After(x), y)
  <2>1. Line(After(x), y)
    BY <1>1, <1>2, UnheardLine
  <2>2. After(x).queued = x.queued
    BY DEF After, Pair, Whole, Sound, Station
  <2> QED  BY <2>1, <2>2 DEF Passes
<1>3. ASSUME y.air # <<>>
      PROVE  Line(x, After(y)) /\ Passes(x, y, x, After(y))
  <2>1. Line(x, After(y))
    BY <1>1, <1>3, UnheardLine
  <2>2. After(y).RxTextQueue = y.RxTextQueue
    BY DEF After, Pair, Whole, Sound, Station
  <2> QED  BY <2>1, <2>2 DEF Passes
<1> QED  BY <1>2, <1>3

LEMMA SentLine ==
    ASSUME NEW x, NEW y, Pair(x, y)
    PROVE  /\ x.air = <<>> => LET z == [x EXCEPT !.Sending = FALSE]
                              IN  Line(z, y) /\ Passes(x, y, z, y)
           /\ y.air = <<>> => LET z == [y EXCEPT !.Sending = FALSE]
                              IN  Line(x, z) /\ Passes(x, y, x, z)
<1>1. Talks(x, x) /\ Talks(y, y)
  BY StillTalks DEF Pair, Line
<1>2. ASSUME x.air = <<>>
      PROVE  LET z == [x EXCEPT !.Sending = FALSE]
             IN  Line(z, y) /\ Passes(x, y, z, y)
  <2> DEFINE z == [x EXCEPT !.Sending = FALSE]
  <2>1. Talks(x, z) /\ z.air = x.air
    BY <1>2, StillTalks DEF Pair, Line
  <2> HIDE DEF z
  <2>2. Flies(x, y) => Flies(z, y)
    BY <2>1 DEF Talks, SameTx, Flies, Sent
  <2>3. Line(z, y)
    BY <1>1, <2>1, <2>2, OnlyTalks DEF Pair
  <2>4. z.queued = x.queued
    BY <2>1 DEF Talks, SameTx
  <2> QED  BY <2>3, <2>4 DEF Passes, z
<1>3. ASSUME y.air = <<>>
      PROVE  LET z == [y EXCEPT !.Sending = FALSE]
             IN  Line(x, z) /\ Passes(x, y, x, z)
  <2> DEFINE z == [y EXCEPT !.Sending = FALSE]
  <2>1. Talks(y, z)
    BY <1>3, StillTalks DEF Pair, Line
  <2> HIDE DEF z
  <2>2. Flies(x, y) => Flies(x, z)
    BY <2>1 DEF Talks, SameRx, Flies, Got, Pend
  <2>3. Line(x, z)
    BY <1>1, <2>1, <2>2, OnlyTalks DEF Pair
  <2>4. z.RxTextQueue = y.RxTextQueue
    BY <2>1 DEF Talks, SameRx
  <2> QED  BY <2>3, <2>4 DEF Passes, z
<1> QED  BY <1>2, <1>3

\* A turn of the loop in which retrytime does not run out.
LEMMA IdleLine ==
    ASSUME NEW x, NEW y, Pair(x, y)
    PROVE  /\ y.air = <<>> => LET z == ArqLoop(x, "idle") IN Line(z, y) /\ Passes(x, y, z, y)
           /\ LET z == ArqLoop(y, "idle") IN Line(x, z) /\ Passes(x, y, x, z)
<1>1. /\ Talks(x, x) /\ Talks(y, y) /\ Sound(x) /\ Sound(y) /\ Mannered(x) /\ Mannered(y)
      /\ x.LinkState # TIMEDOUT /\ y.LinkState # TIMEDOUT /\ Line(x, y)
  BY StillTalks DEF Pair, Line, Course
<1>2. Passes(x, y, x, y)
  BY DEF Passes
<1>3. ASSUME y.air = <<>>
      PROVE  LET z == ArqLoop(x, "idle") IN Line(z, y) /\ Passes(x, y, z, y)
  <2>1. \/ ArqLoop(x, "idle") = x
        \/ x.immediate /\ ArqLoop(x, "idle") = Keyed(x)
        \/ /\ x.LinkState = ARQ_CONNECTED /\ ~x.immediate /\ x.TxTextQueue = <<>> /\ x.air = <<>>
           /\ ArqLoop(x, "idle") = TransmitData(SendBlocks(x))
    BY <1>1, IdleTurn DEF Pair
  <2>2. ASSUME x.immediate
        PROVE  Line(Keyed(x), y) /\ Passes(x, y, Keyed(x), y)
    <3> DEFINE z == Keyed(x)
    <3>1. Talks(x, z) /\ z.air = x.TxTextQueue /\ x.LinkState # WAITING
      BY <1>1, <2>2, KeyedTalks
    <3> HIDE DEF z
    <3>2. \A i \in 1 .. Len(z.air) : z.air[i].type # "DATA"
      <4>1. \A f \in Underway(x) : f.type # "DATA"
        BY <3>1, NoText
      <4> QED  BY <3>1, <4>1 DEF Underway, Elements
    <3>3. Flies(z, y)
      BY <3>2 DEF Flies
    <3>4. Line(z, y)
      BY <1>1, <3>1, <3>3, OnlyTalks
    <3>5. z.queued = x.queued
      BY <3>1 DEF Talks, SameTx
    <3> QED  BY <3>4, <3>5 DEF Passes, z
  <2>3. ASSUME x.LinkState = ARQ_CONNECTED, ~x.immediate, x.TxTextQueue = <<>>, x.air = <<>>
        PROVE  LET z == TransmitData(SendBlocks(x)) IN Line(z, y) /\ Passes(x, y, z, y)
    BY <1>3, <2>3, SendBlocksLine DEF Passes
  <2> QED  BY <1>1, <1>2, <2>1, <2>2, <2>3
<1>4. LET z == ArqLoop(y, "idle") IN Line(x, z) /\ Passes(x, y, x, z)
  <2>1. ArqLoop(y, "idle") = y \/ (y.immediate /\ ArqLoop(y, "idle") = Keyed(y))
    BY <1>1, IdleTurn DEF Pair, Line, Mute
  <2>2. ASSUME y.immediate
        PROVE  Line(x, Keyed(y)) /\ Passes(x, y, x, Keyed(y))
    <3> DEFINE z == Keyed(y)
    <3>1. Talks(y, z)
      BY <1>1, <2>2, KeyedTalks
    <3> HIDE DEF z
    <3>2. Flies(x, y) => Flies(x, z)
      BY <3>1 DEF Talks, SameRx, Flies, Got, Pend
    <3>3. Line(x, z)
      BY <1>1, <3>1, <3>2, OnlyTalks
    <3>4. z.RxTextQueue = y.RxTextQueue
      BY <3>1 DEF Talks, SameRx
    <3> QED  BY <3>3, <3>4 DEF Passes, z
  <2> QED  BY <1>1, <1>2, <2>1, <2>2
<1> QED  BY <1>3, <1>4

\* A turn in which it does, which finds nobody speaking.
LEMMA RetryLine ==
    ASSUME NEW x, NEW y, Pair(x, y), ~Speaks(x), ~Speaks(y)
    PROVE  /\ x.LinkState \in {WAITING, WAITFORACK} /\ ~x.Sending /\ ~x.hung
                => LET z == ArqLoop(x, "retry") IN Line(z, y) /\ Passes(x, y, z, y)
           /\ y.LinkState \in {WAITING, WAITFORACK} /\ ~y.Sending
                => LET z == ArqLoop(y, "retry") IN Line(x, z) /\ Passes(x, y, x, z)
<1> DEFINE Again(p) == IF p.LinkState = WAITING THEN Report(p, "POLL") ELSE AckFrame(p)
           More(p)  == TransmitData([Again(p) EXCEPT !.retries = p.retries - 1])
           Ends(p)  == GiveUp([p EXCEPT !.retries = 0])
<1>1. Sound(x) /\ Sound(y) /\ Mannered(x) /\ Mannered(y) /\ ~x.immediate /\ ~y.immediate
  BY DEF Pair, Line, Speaks
<1>2. ASSUME NEW p, Sound(p)
      PROVE  /\ Ends(p).queued = p.queued /\ Ends(p).RxTextQueue = p.RxTextQueue
             /\ More(p).queued = p.queued /\ More(p).RxTextQueue \in {p.RxTextQueue, <<>>}
  <2>1. /\ Ends(p).queued = p.queued /\ Ends(p).RxTextQueue = p.RxTextQueue
    BY <1>2 DEF GiveUp, ClearTx, Whole, Sound, Station
  <2>2. /\ Again(p).queued = p.queued /\ Again(p).RxTextQueue \in {p.RxTextQueue, <<>>}
        /\ DOMAIN Again(p) = DOMAIN NewStation
    BY <1>2 DEF Report, AckFrame, Send, AddToTxQue, Reset, Whole, Sound, Station, NewStation
  <2> HIDE DEF Again
  <2>3. More(p).queued = p.queued /\ More(p).RxTextQueue \in {p.RxTextQueue, <<>>}
    BY <2>2 DEF TransmitData, NewStation
  <2> QED  BY <2>1, <2>3
<1>3. ASSUME NEW p, Sound(p), Mannered(p), p.LinkState \in {WAITING, WAITFORACK}, ~p.Sending,
             ~p.immediate
      PROVE  ArqLoop(p, "retry") \in {Ends(p), More(p)}
  BY <1>3, RetryTurn
<1>4. ASSUME x.LinkState \in {WAITING, WAITFORACK}, ~x.Sending, ~x.hung
      PROVE  LET z == ArqLoop(x, "retry") IN Line(z, y) /\ Passes(x, y, z, y)
  <2>1. ArqLoop(x, "retry") \in {Ends(x), More(x)}
    BY <1>1, <1>3, <1>4
  <2>2. Line(Ends(x), y)
    BY <1>4, GiveUpLine
  <2>3. Line(More(x), y)
    BY <1>4, PollAgainLine, AckAgainLine DEF WAITING, WAITFORACK
  <2> HIDE DEF More, Ends
  <2> QED  BY <1>1, <1>2, <2>1, <2>2, <2>3 DEF Passes
<1>5. ASSUME y.LinkState \in {WAITING, WAITFORACK}, ~y.Sending
      PROVE  LET z == ArqLoop(y, "retry") IN Line(x, z) /\ Passes(x, y, x, z)
  <2>1. ArqLoop(y, "retry") \in {Ends(y), More(y)}
    BY <1>1, <1>3, <1>5
  <2>2. Line(x, Ends(y))
    BY <1>5, GiveUpLine
  <2>3. Line(x, More(y))
    <3>1. y.LinkState = WAITFORACK /\ y.LinkState # WAITING
      BY <1>5 DEF Pair, Line, Mute
    <3> QED  BY <3>1, AckAgainLine
  <2> HIDE DEF More, Ends
  <2> QED  BY <1>1, <1>2, <2>1, <2>2, <2>3 DEF Passes
<1> QED  BY <1>4, <1>5

\* The connect request, by either user: until then both stations are new.
LEMMA ConnectLine ==
    /\ Line(Connect(NewStation), NewStation)
    /\ Line(NewStation, Connect(NewStation))
    /\ Line(NewStation, NewStation)
    /\ Connect(NewStation).queued = 0 /\ Connect(NewStation).RxTextQueue = <<>>
<1> DEFINE f == [type |-> "CONREQ"]
           n == NewStation
           z == Connect(n)
<1>1. Append(<<>>, f) = <<f>> /\ Len(<<f>>) = 1 /\ Len(<<>>) = 0
  OBVIOUS
<1>2. Elements(<<f>>) = {f} /\ Elements(<<>>) = {}
  BY DEF Elements
<1> HIDE DEF f
<1>3. /\ Begins(n, z) /\ z.air = <<>> /\ z.TxTextQueue = <<f>> /\ z.immediate
      /\ z.LinkState = ARQ_CONNECTING /\ ~z.hung /\ ~z.arqstop
      /\ z.UrGoodHeader = MaxCount - 1 /\ z.queued = 0
  BY <1>1 DEF f, Connect, ConnectFrame, Send, AddToTxQue, Reset, NewStation, Begins, Deaf
<1> HIDE DEF z
<1>4. Mannered(z) /\ Underway(z) = {f}
  BY <1>1, <1>2, <1>3 DEF Mannered, Underway, ARQ_CONNECTING, WAITING
<1>5. /\ Mannered(n) /\ Underway(n) = {} /\ ~Speaks(n) /\ Deaf(n) /\ Unsent(n) /\ Mute(n)
      /\ Delivers(n) /\ n.LinkState = DOWN /\ n.air = <<>> /\ ~n.hung
  <2>1. Deaf(n) /\ n.GoodHeader = MaxCount - 1 /\ n.EndHeader = MaxCount - 1
        /\ n.MissingRxBlocks = {}
    BY DEF NewStation, Deaf
  <2>2. Delivers(n)
    BY <2>1, DeliversFresh
  <2> QED  BY <1>1, <1>2, <2>1, <2>2 DEF NewStation, Mannered, Underway, Speaks, Unsent, Mute,
              DOWN, WAITING
<1> HIDE DEF n
<1>6. Deaf(z) /\ Unsent(z) /\ Mute(z) /\ Delivers(z)
  BY <1>3, <1>5, BeginsFresh DEF Begins, Unsent, Mute, ARQ_CONNECTING, WAITING
<1>7. Apt(f, z, n)
  BY <1>3, <1>5 DEF f, Apt, DOWN, ARQ_CONNECTING, ARQ_CONNECTED, WAITFORACK
<1>8. Course(z, n) /\ Course(n, z) /\ Course(n, n)
  BY <1>3, <1>4, <1>5, <1>6, <1>7 DEF Course, DOWN, TIMEDOUT, ARQ_CONNECTING, WAITFORACK
<1>9. Keeps(z, n) /\ Keeps(n, z) /\ Keeps(n, n)
  <2>1. \A a \in {n, z} : \A i \in 1 .. Len(a.air) : a.air[i].type # "DATA"
    BY <1>1, <1>3, <1>5
  <2> QED  BY <1>3, <1>5, <1>6, <2>1, KeepsFresh
<1> QED  BY <1>3, <1>4, <1>5, <1>6, <1>8, <1>9 DEF Line, Begins, Deaf, n, z

---------------------------------------------------------------------------
(* The link.  Before the connect request both stations are new. *)

Calls ==
    /\ \A e \in Outside \ {"lose", "retry", "connect"} : left[e] = 0
    /\ left["connect"] # 0 => left["connect"] = 1 /\ st = [r \in Stations |-> NewStation]

LineInv(s) == SessionInv /\ Calls /\ Line(st[s], st[Peer(s)])

LEMMA PeerOf ==
    ASSUME NEW s \in Stations
    PROVE  Peer(s) \in Stations /\ Peer(s) # s /\ Peer(Peer(s)) = s /\ Stations = {s, Peer(s)}
BY DEF Stations, Peer

LEMMA OneWayNoTearDown ==
    ASSUME NEW s \in Stations, OneWay(s)
    PROVE  NoTearDown
BY DEF OneWay, NoTearDown, Outside

LEMMA OneWayInit ==
    ASSUME NEW s \in Stations, OneWay(s), Init
    PROVE  LineInv(s)
<1>1. SessionInv
  BY OneWayNoTearDown, InitSession
<1>2. Calls
  BY LinkAssumption DEF OneWay, Init, Calls, Outside
<1>3. st[s] = NewStation /\ st[Peer(s)] = NewStation
  BY PeerOf DEF Init
<1> QED  BY <1>1, <1>2, <1>3, ConnectLine DEF LineInv

\* Who may still act, and how often.
LEMMA OneWaySteps ==
    ASSUME NEW s \in Stations, OneWay(s), LineInv(s), NEW r \in Stations, StationStep(r)
    PROVE  /\ \/ Receive(r) \/ Lose(r) \/ TxDone(r) \/ LoopIdle(r) \/ LoopRetry(r)
              \/ UserSendText(r) /\ r = s
              \/ UserConnect(r) /\ left["connect"] = 1 /\ left'["connect"] = 0
           /\ ~UserConnect(r) => left'["connect"] = left["connect"]
           /\ \A e \in Outside \ {"lose", "retry", "connect"} : left'[e] = 0
<1>1. left \in [Outside -> Nat] /\ Calls
  BY DEF LineInv, SessionInv, IInv, BudgetOK
<1>2. \A e \in Outside \ {"lose", "retry", "connect"} : left[e] = 0 /\ e \notin Unlimited
  BY <1>1 DEF Calls, OneWay
<1>3. \A e \in Outside \ {"lose", "retry", "connect"} : ~Spend(e)
  BY <1>2 DEF Spend
<1>4. /\ ~LoopTimeout(r) /\ ~UserDisconnect(r) /\ ~UserAbort(r) /\ ~UserBeacon(r)
      /\ ~UserTalk(r) /\ ~UserRestart(r)
  BY <1>3 DEF LoopTimeout, UserDisconnect, UserAbort, UserBeacon, UserTalk, UserRestart, Outside
<1>5. UserSendText(r) => r = s
  <2>1. r = s \/ r = Peer(s)
    BY PeerOf
  <2>2. SendsIn[Peer(s)] = {}
    BY DEF OneWay
  <2> QED  BY <2>1, <2>2 DEF UserSendText
<1>6. ASSUME Spend("connect")
      PROVE  /\ left["connect"] = 1 /\ left'["connect"] = 0
             /\ \A e \in Outside \ {"connect"} : left'[e] = left[e]
  <2>1. "connect" \in Outside /\ "connect" \notin Unlimited
    BY DEF OneWay, Outside
  <2>2. left["connect"] > 0 /\ left' = [left EXCEPT !["connect"] = @ - 1]
    BY <1>6, <2>1 DEF Spend
  <2> QED  BY <1>1, <2>1, <2>2 DEF Calls
<1>7. ASSUME Spend("lose") \/ Spend("retry") \/ UNCHANGED left
      PROVE  \A e \in Outside \ {"lose", "retry"} : left'[e] = left[e]
  BY <1>1, <1>7 DEF Spend
<1>8. \/ UserConnect(r) /\ Spend("connect")
      \/ Spend("lose") \/ Spend("retry") \/ UNCHANGED left
  BY <1>4 DEF StationStep, Receive, Lose, TxDone, LoopIdle, LoopRetry, UserConnect, UserSendText
<1>9. "connect" \in Outside
  BY DEF Outside
<1>10. UserConnect(r) => Spend("connect")
  BY DEF UserConnect
<1> QED  BY <1>2, <1>4, <1>5, <1>6, <1>7, <1>8, <1>9, <1>10 DEF StationStep

\* Before the connect request nothing happens.
LEMMA FreshStep ==
    ASSUME NEW s \in Stations, OneWay(s), LineInv(s), left["connect"] # 0,
           NEW r \in Stations, StationStep(r), ~UserConnect(r)
    PROVE  st' = st
<1>1. st = [q \in Stations |-> NewStation]
  BY DEF LineInv, Calls
<1>2. /\ NewStation.air = <<>> /\ ~NewStation.Sending /\ NewStation.LinkState = DOWN
      /\ ~NewStation.immediate
  BY DEF NewStation
<1>3. st[Peer(r)].air = <<>> /\ st[r] = NewStation
  BY <1>1, <1>2, PeerOf
<1>4. LoopIdle(r)
  <2>1. ~Receive(r) /\ ~Lose(r) /\ ~TxDone(r) /\ ~LoopRetry(r)
    BY <1>2, <1>3 DEF Receive, Lose, TxDone, LoopRetry, DOWN, WAITING, WAITFORACK, DISCONNECTING,
       ABORTING
  <2>2. ~(UserSendText(r) /\ r = s)
    BY <1>2, <1>3 DEF UserSendText, OneWay, DOWN, ARQ_CONNECTED, WAITING
  <2> QED  BY <2>1, <2>2, OneWaySteps
<1>5. ArqLoop(NewStation, "idle") = NewStation
  <2>1. Sound(NewStation) /\ InStep(NewStation) /\ Mannered(NewStation)
        /\ NewStation.LinkState # TIMEDOUT
    BY <1>1, <1>2, PeerOf DEF LineInv, SessionInv, IInv, StationsOK, Line, DOWN, TIMEDOUT
  <2>2. NewStation.LinkState # ARQ_CONNECTED
    BY <1>2 DEF DOWN, ARQ_CONNECTED
  <2> QED  BY <1>2, <2>1, <2>2, IdleTurn
<1>6. st' = [st EXCEPT ![r] = st[r]]
  BY <1>3, <1>4, <1>5 DEF LoopIdle, Loops
<1> QED  BY <1>1, <1>6

LEMMA OneWayStep ==
    ASSUME NEW s \in Stations, OneWay(s), LineInv(s), NEW r \in Stations, StationStep(r)
    PROVE  Line(st'[s], st'[Peer(s)]) /\ Passes(st[s], st[Peer(s)], st'[s], st'[Peer(s)])
<1> DEFINE p == Peer(s)
           x == st[s]
           y == st[p]
<1>1. p \in Stations /\ p # s /\ Peer(p) = s /\ (r = s \/ r = p)
  BY PeerOf
<1>2. Pair(x, y) /\ st \in [Stations -> Station] /\ Timely
  BY <1>1 DEF Pair, LineInv, SessionInv, IInv, StationsOK, OneWay
<1>3. ASSUME NEW a, NEW b, Line(a, b), Passes(x, y, a, b),
             \/ st' = [st EXCEPT ![s] = a, ![p] = b]
             \/ st' = [st EXCEPT ![p] = b, ![s] = a]
             \/ b = y /\ st' = [st EXCEPT ![s] = a]
             \/ a = x /\ st' = [st EXCEPT ![p] = b]
      PROVE  Line(st'[s], st'[Peer(s)]) /\ Passes(st[s], st[Peer(s)], st'[s], st'[Peer(s)])
  <2>1. st'[s] = a /\ st'[p] = b
    BY <1>1, <1>2, <1>3
  <2> QED  BY <1>3, <2>1
<1> HIDE DEF p
<1>4. CASE Receive(r)
  <2>1. CASE r = s
    <3>1. y.air # <<>> /\ ~x.hung /\ st' = [st EXCEPT ![p] = After(y), ![s] = ParseFrame(x, Head(y.air))]
      BY <1>1, <1>2, <1>4, <2>1 DEF Receive, After, p
    <3> QED  BY <1>2, <1>3, <3>1, HeardLine
  <2>2. CASE r = p
    <3>1. x.air # <<>> /\ st' = [st EXCEPT ![s] = After(x), ![p] = ParseFrame(y, Head(x.air))]
      BY <1>1, <1>2, <1>4, <2>2 DEF Receive, After
    <3> QED  BY <1>2, <1>3, <3>1, HeardLine
  <2> QED  BY <1>1, <2>1, <2>2
<1>5. CASE Lose(r)
  <2>1. CASE r = s
    <3>1. x.air # <<>> /\ st' = [st EXCEPT ![s] = After(x)]
      BY <1>5, <2>1 DEF Lose, After
    <3> QED  BY <1>2, <1>3, <3>1, LostLine
  <2>2. CASE r = p
    <3>1. y.air # <<>> /\ st' = [st EXCEPT ![p] = After(y)]
      BY <1>5, <2>2 DEF Lose, After
    <3> QED  BY <1>2, <1>3, <3>1, LostLine
  <2> QED  BY <1>1, <2>1, <2>2
<1>6. CASE TxDone(r)
  <2>1. CASE r = s
    <3>1. x.air = <<>> /\ st' = [st EXCEPT ![s] = [x EXCEPT !.Sending = FALSE]]
      BY <1>2, <1>6, <2>1 DEF TxDone
    <3> QED  BY <1>2, <1>3, <3>1, SentLine
  <2>2. CASE r = p
    <3>1. y.air = <<>> /\ st' = [st EXCEPT ![p] = [y EXCEPT !.Sending = FALSE]]
      BY <1>2, <1>6, <2>2 DEF TxDone
    <3> QED  BY <1>2, <1>3, <3>1, SentLine
  <2> QED  BY <1>1, <2>1, <2>2
<1>7. CASE LoopIdle(r)
  <2>1. CASE r = s
    <3>1. y.air = <<>> /\ st' = [st EXCEPT ![s] = ArqLoop(x, "idle")]
      BY <1>2, <1>7, <2>1 DEF LoopIdle, Loops, HoldOff, p
    <3> QED  BY <1>2, <1>3, <3>1, IdleLine
  <2>2. CASE r = p
    <3>1. st' = [st EXCEPT ![p] = ArqLoop(y, "idle")]
      BY <1>7, <2>2 DEF LoopIdle, Loops
    <3> QED  BY <1>2, <1>3, <3>1, IdleLine
  <2> QED  BY <1>1, <2>1, <2>2
<1>8. CASE LoopRetry(r)
  <2>1. ~Speaks(x) /\ ~Speaks(y)
    <3>1. \A q \in Stations : st[q].air = <<>> /\ (st[q].hung \/ ~st[q].immediate)
      BY <1>2, <1>8 DEF LoopRetry, Quiet
    <3>2. \A q \in {x, y} : q.hung => q.LinkState = WAITING /\ ~q.immediate
      BY <1>2 DEF Pair, Line, Mannered
    <3> QED  BY <1>1, <3>1, <3>2 DEF Speaks
  <2>2. /\ st[r].LinkState \in {WAITING, WAITFORACK} /\ ~st[r].Sending /\ ~st[r].hung
        /\ st' = [st EXCEPT ![r] = ArqLoop(st[r], "retry")]
    <3>1. st[r].LinkState \in {DOWN, TIMEDOUT, ARQ_CONNECTING, ARQ_CONNECTED, WAITING, WAITFORACK}
      BY <1>1, <1>2 DEF Pair, InStep
    <3> QED  BY <1>8, <3>1 DEF LoopRetry, Loops, DOWN, TIMEDOUT, ARQ_CONNECTING, ARQ_CONNECTED,
             WAITING, WAITFORACK, DISCONNECTING, ABORTING
  <2> QED  BY <1>1, <1>2, <1>3, <2>1, <2>2, RetryLine
<1>9. CASE UserSendText(r) /\ r = s
  <2>1. PICK n \in 1 .. MaxText - x.queued : st' = [st EXCEPT ![s] = SendText(x, n)]
    BY <1>9 DEF UserSendText, Does
  <2>2. InSess(x)
    BY <1>9 DEF UserSendText, OneWay, InSess
  <2>3. Line(SendText(x, n), y) /\ SendText(x, n).queued = x.queued + n
    BY <1>2, <2>2, SendTextLine
  <2>4. x.queued + n \in x.queued + 1 .. MaxText
    <3>1. x.queued \in Nat /\ MaxText \in Nat
      BY <1>2, StationAssumption DEF Pair, Whole, Sound, Station
    <3> QED  BY <3>1
  <2>5. Passes(x, y, SendText(x, n), y)
    BY <2>3, <2>4 DEF Passes
  <2> QED  BY <1>3, <2>1, <2>3, <2>5
<1>10. CASE UserConnect(r) /\ left["connect"] = 1
  <2>1. x = NewStation /\ y = NewStation
    BY <1>1, <1>10 DEF LineInv, Calls
  <2>2. st' = [st EXCEPT ![r] = Connect(NewStation)]
    BY <1>1, <1>10, <2>1 DEF UserConnect, Does
  <2>3. NewStation.queued = 0 /\ NewStation.RxTextQueue = <<>>
    BY DEF NewStation
  <2>4. Passes(x, y, Connect(NewStation), y) /\ Passes(x, y, x, Connect(NewStation))
    BY <2>1, <2>3, ConnectLine DEF Passes
  <2>5. CASE r = s
    BY <1>3, <2>1, <2>2, <2>4, <2>5, ConnectLine
  <2>6. CASE r = p
    BY <1>3, <2>1, <2>2, <2>4, <2>6, ConnectLine
  <2> QED  BY <1>1, <2>5, <2>6
<1> QED  BY <1>4, <1>5, <1>6, <1>7, <1>8, <1>9, <1>10, OneWaySteps

LEMMA OneWayNext ==
    ASSUME NEW s \in Stations, OneWay(s), LineInv(s), [Next]_vars
    PROVE  LineInv(s)' /\ Passes(st[s], st[Peer(s)], st'[s], st'[Peer(s)])
<1>1. SessionInv'
  BY OneWayNoTearDown, NextSession DEF LineInv
<1>2. CASE UNCHANGED vars
  BY <1>1, <1>2 DEF LineInv, Calls, vars, Passes
<1>3. CASE Next
  <2>1. PICK r \in Stations : StationStep(r)
    BY <1>3 DEF Next
  <2>2. Line(st'[s], st'[Peer(s)]) /\ Passes(st[s], st[Peer(s)], st'[s], st'[Peer(s)])
    BY <2>1, OneWayStep
  <2>3. Calls'
    <3>1. \A e \in Outside \ {"lose", "retry", "connect"} : left'[e] = 0
      BY <2>1, OneWaySteps
    <3>2. CASE left'["connect"] = 0
      BY <3>1, <3>2 DEF Calls
    <3>3. CASE left'["connect"] # 0
      <4>1. ~UserConnect(r)
        <5>1. UserConnect(r) => left'["connect"] = 0
          <6>1. UserConnect(r) => Spend("connect")
            BY DEF UserConnect
          <6>2. left["connect"] \in {0, 1} /\ "connect" \in Outside /\ "connect" \notin Unlimited
                /\ left \in [Outside -> Nat]
            BY DEF LineInv, Calls, OneWay, Outside, SessionInv, IInv, BudgetOK
          <6> QED  BY <6>1, <6>2 DEF Spend
        <5> QED  BY <3>3, <5>1
      <4>2. left'["connect"] = left["connect"]
        BY <2>1, <4>1, OneWaySteps
      <4>3. st' = st
        BY <2>1, <3>3, <4>1, <4>2, FreshStep
      <4> QED  BY <3>1, <3>3, <4>2, <4>3 DEF LineInv, Calls
    <3> QED  BY <3>2, <3>3
  <2> QED  BY <1>1, <2>2, <2>3 DEF LineInv
<1> QED  BY <1>2, <1>3

---------------------------------------------------------------------------
(* What follows for the users *)

\* One of the two stations is the only one that sends text.
OneSender == \E s \in Stations : OneWay(s)

LEMMA LineFacts ==
    ASSUME NEW s \in Stations, LineInv(s)
    PROVE  /\ Sound(st[s]) /\ Sound(st[Peer(s)]) /\ st \in [Stations -> Station]
           /\ Deaf(st[s]) /\ Mute(st[Peer(s)]) /\ Delivers(st[Peer(s)])
           /\ Keeps(st[s], st[Peer(s)])
BY PeerOf DEF LineInv, SessionInv, IInv, StationsOK, Line

LEMMA LineNotStale ==
    ASSUME NEW s \in Stations, LineInv(s)
    PROVE  NoStalePending
<1> DEFINE p == Peer(s)
           y == st[p]
<1>1. Elements(st[s].RxTextQueue) = {}
  BY LineFacts, EmptySeq DEF Deaf, Elements
<1>2. ASSUME NEW t \in Pend(y)
      PROVE  t \notin Elements(y.RxTextQueue)
  <2>1. Got(y) \in Nat /\ MaxCount \in Nat
    BY LineFacts, LenProperties, MaxCountAssumption DEF Whole, Sound, Station, Got
  <2>2. t \in Got(y) + 2 .. Got(y) + MaxCount - 3 /\ \A i \in 1 .. Got(y) : y.RxTextQueue[i] = i
    BY <1>2, LineFacts DEF Delivers
  <2>3. \A i \in 1 .. Got(y) : i # t
    BY <2>1, <2>2
  <2> QED  BY <2>2, <2>3 DEF Elements, Got
<1>3. Pend(y) \cap Elements(y.RxTextQueue) = {}
  BY <1>2
<1> QED  BY <1>1, <1>3, PeerOf DEF NoStalePending, Pend

LEMMA LineRepeats ==
    ASSUME NEW s \in Stations, LineInv(s)
    PROVE  LossIsRepeated
<1> DEFINE p == Peer(s)
           x == st[s]
           y == st[p]
<1>1. y.queued = 0 /\ p \in Stations /\ Peer(p) = s /\ Stations = {s, p}
  BY LineFacts, PeerOf DEF Mute
<1>2. /\ Len(x.TxBlocks) \in Nat /\ x.queued \in Nat
      /\ \A k \in 1 .. Len(x.TxBlocks) : x.TxBlocks[k].text = x.queued - Len(x.TxBlocks) + k
  BY LineFacts, LenProperties, StationAssumption DEF Whole, Sound, Station, TextsInLine
<1>3. ASSUME InSession(s), NEW n \in Nbr \ {0}, NEW t \in 1 .. x.queued, (t - 1) % MaxCount = n
      PROVE  t \in StillSending(s) \cup Held(s)
  <2>1. Covered(x, y)
    BY <1>3, LineFacts DEF Keeps, InSess, InSession
  <2>2. CASE t <= Sent(x)
    <3>1. t \in 1 .. Sent(x) /\ NbrOf(t) # 0
      BY <1>2, <1>3, <2>2 DEF NbrOf, Sent
    <3>2. t \in Texts(x.TxMissing) \/ t \in y.printed \/ t \in Pend(y)
      BY <2>1, <3>1 DEF Covered
    <3> QED  BY <3>2 DEF StillSending, Held, Pend
  <2>3. CASE ~(t <= Sent(x))
    <3> DEFINE k == t - Sent(x)
    <3>1. k \in 1 .. Len(x.TxBlocks) /\ x.queued - Len(x.TxBlocks) + k = t
      BY <1>2, <2>3, SMTT(30) DEF Sent
    <3>2. x.TxBlocks[k].text = t /\ x.TxBlocks[k] \in Elements(x.TxBlocks)
      BY <1>2, <3>1 DEF Elements
    <3>3. t \in Texts(Elements(x.TxBlocks))
      BY <3>2 DEF Texts
    <3> QED  BY <3>3 DEF StillSending
  <2> QED  BY <2>2, <2>3
<1>4. \A n \in Nbr : Numbered(p, n) = {}
  BY <1>1 DEF Numbered
<1>5. InSession(s) => \A n \in Nbr \ {0} : Numbered(s, n) \subseteq StillSending(s) \cup Held(s)
  BY <1>3 DEF Numbered
<1> QED  BY <1>1, <1>4, <1>5 DEF LossIsRepeated

\* A step of the link is a step of the transfer, or one its users do not see.
LEMMA StepTransfers ==
    ASSUME NEW s \in Stations, LineInv(s), LineInv(s)',
           Passes(st[s], st[Peer(s)], st'[s], st'[Peer(s)])
    PROVE  [Transfer!TNext]_(Transfer!tvars)
<1> DEFINE p == Peer(s)
           x == st[s]
           y == st[p]
           a == st'[s]
           b == st'[p]
           offered == [r \in Stations |-> st[r].queued]
           taken   == [r \in Stations |-> st[r].RxTextQueue]
           after   == [r \in Stations |-> st'[r].queued]
           now     == [r \in Stations |-> st'[r].RxTextQueue]
<1>1. p \in Stations /\ p # s /\ Peer(p) = s /\ Stations = {s, p}
  BY PeerOf
<1>2. /\ x.RxTextQueue = <<>> /\ a.RxTextQueue = <<>> /\ y.queued = 0 /\ b.queued = 0
      /\ x.queued \in Nat /\ Got(y) \in Nat /\ y.RxTextQueue \in Seq(Text)
  <2>1. x.RxTextQueue = <<>> /\ y.queued = 0
    BY LineFacts DEF Deaf, Mute
  <2>2. x.queued \in Nat /\ y.RxTextQueue \in Seq(Text)
    BY LineFacts, StationAssumption DEF Whole, Sound, Station
  <2>3. a.RxTextQueue = <<>> /\ b.queued = 0
    <3>1. Deaf(a) /\ Mute(b)
      BY DEF LineInv, Line
    <3> QED  BY <3>1 DEF Deaf, Mute
  <2>4. Got(y) \in Nat
    BY <2>2, LenProperties DEF Got
  <2> QED  BY <2>1, <2>2, <2>3, <2>4
<1>3. (a.queued = x.queued => after = offered) /\ (b.RxTextQueue = y.RxTextQueue => now = taken)
  BY <1>1, <1>2
<1>4. ASSUME a.queued \in x.queued + 1 .. MaxText, b.RxTextQueue = y.RxTextQueue
      PROVE  Transfer!Offer(s)
  <2>1. after = [offered EXCEPT ![s] = a.queued] /\ offered[s] = x.queued
    BY <1>1, <1>2
  <2> QED  BY <1>3, <1>4, <2>1 DEF Transfer!Offer
<1>5. ASSUME a.queued = x.queued, b.RxTextQueue = <<>>
      PROVE  Transfer!Renew(p)
  <2>1. now = [taken EXCEPT ![p] = <<>>]
    BY <1>1, <1>2, <1>5
  <2> QED  BY <1>3, <1>5, <2>1 DEF Transfer!Renew
<1>6. ASSUME a.queued = x.queued, NEW n \in Nat \ {0}, Got(y) + n <= x.queued,
             b.RxTextQueue = y.RxTextQueue \o [i \in 1 .. n |-> Got(y) + i]
      PROVE  Transfer!Deliver(p)
  <2>1. now = [taken EXCEPT ![p] = @ \o [i \in 1 .. n |-> Got(y) + i]]
    BY <1>1, <1>2, <1>6
  <2>2. taken[p] = y.RxTextQueue /\ offered[Peer(p)] = x.queued /\ n \in 1 .. x.queued - Got(y)
    BY <1>1, <1>2, <1>6
  <2>3. after = offered
    BY <1>3, <1>6
  <2>4. Len(taken[p]) = Got(y)
    BY <2>2 DEF Got
  <2> HIDE DEF x, y, a, b, offered, taken, after, now
  <2>5. now = [taken EXCEPT ![p] = @ \o [k \in 1 .. n |-> Len(taken[p]) + k]]
    BY <2>1, <2>4
  <2>6. n \in 1 .. offered[Peer(p)] - Len(taken[p])
    BY <2>2, <2>4
  <2>7. \E m \in 1 .. offered[Peer(p)] - Len(taken[p]) :
          now = [taken EXCEPT ![p] = @ \o [k \in 1 .. m |-> Len(taken[p]) + k]]
    BY <2>5, <2>6
  <2> QED  BY <2>3, <2>7 DEF Transfer!Deliver, offered, taken, after, now
<1>7. ASSUME a.queued = x.queued, b.RxTextQueue = y.RxTextQueue
      PROVE  UNCHANGED Transfer!tvars
  BY <1>3, <1>7 DEF Transfer!tvars
<1>8. b.RxTextQueue = y.RxTextQueue \o [i \in 1 .. 0 |-> Got(y) + i] => b.RxTextQueue = y.RxTextQueue
  <2>1. [i \in 1 .. 0 |-> Got(y) + i] = <<>>
    BY EmptySeq
  <2> QED  BY <1>2, <2>1, ConcatEmptySeq
<1>9. \/ Transfer!Offer(s) \/ Transfer!Renew(p) \/ Transfer!Deliver(p)
      \/ UNCHANGED Transfer!tvars
  BY <1>4, <1>5, <1>6, <1>7, <1>8 DEF Passes
<1> QED  BY <1>1, <1>9 DEF Transfer!TNext


LEMMA LineAlways ==
    ASSUME NEW s \in Stations, OneWay(s)
    PROVE  Spec => []LineInv(s)
<1>1. Init => LineInv(s)
  BY OneWayInit
<1>2. LineInv(s) /\ [Next]_vars => LineInv(s)'
  BY OneWayNext
<1> QED  BY <1>1, <1>2, PTL DEF Spec

\* A block that waits behind a gap (RxPending) has not been handed to the user before:
\* parseDATA never takes the repeat of an old block for one of the next window.
THEOREM NeverStale == OneSender => (Spec => []NoStalePending)
<1> SUFFICES ASSUME NEW s \in Stations, OneWay(s)
             PROVE  Spec => []NoStalePending
  BY DEF OneSender
<1>1. LineInv(s) => NoStalePending
  BY LineNotStale
<1> QED  BY <1>1, LineAlways, PTL

\* A block that is neither to be sent nor to be repeated is with the receiver, block
\* number 0 left out: parseSTATUS crosses off TxMissing only what has arrived.
THEOREM LossAlwaysRepeated == OneSender => (Spec => []LossIsRepeated)
<1> SUFFICES ASSUME NEW s \in Stations, OneWay(s)
             PROVE  Spec => []LossIsRepeated
  BY DEF OneSender
<1>1. LineInv(s) => LossIsRepeated
  BY LineRepeats
<1> QED  BY <1>1, LineAlways, PTL

\* The link implements the transfer: whatever frames are lost and repeated, the
\* receiver is handed the sender's texts from the first on, in order, each once and
\* without a hole (sendblocks, parseSTATUS and parseDATA together).
THEOREM LinkTransfers == OneSender => (Spec => ImplementsTransfer)
<1> SUFFICES ASSUME NEW s \in Stations, OneWay(s)
             PROVE  Spec => ImplementsTransfer
  BY DEF OneSender
<1>1. Init => Transfer!TInit
  <2> SUFFICES ASSUME Init
               PROVE  Transfer!TInit
    OBVIOUS
  <2>1. \A r \in Stations : st[r].queued = 0 /\ st[r].RxTextQueue = <<>>
    BY DEF Init, NewStation
  <2> QED  BY <2>1 DEF Transfer!TInit
<1>2. LineInv(s) /\ LineInv(s)' /\ [Next]_vars => [Transfer!TNext]_(Transfer!tvars)
  BY OneWayNext, StepTransfers
<1> QED  BY <1>1, <1>2, LineAlways, PTL DEF Spec, ImplementsTransfer, Transfer!TSpec
=============================================================================
