--------------------------- MODULE QRunner_proofs ---------------------------
(***************************************************************************)
(* Proofs about QRunner for any number of threads, any types, any capacity *)
(* and any number of calls.                                                *)
(***************************************************************************)
EXTENDS QRunner, SequenceTheorems, FiniteSetTheorems, TLAPS

---------------------------------------------------------------------------
(* The numbers in one queue: q holds the entries behind the r calls that have *)
(* run, up to the g calls given; an fsignal has the number of the call before *)
(* it.                                                                        *)

One(e) == IF e.kind = "call" THEN 1 ELSE 0

Numbered(q, r, g) ==
    /\ q = <<>> => r = g
    /\ q # <<>> => q[1].no = r + One(q[1]) /\ q[Len(q)].no = g
    /\ \A i \in 1 .. Len(q) : q[i].no <= g
    /\ \A i \in 1 .. Len(q) - 1 : q[i + 1].no = q[i].no + One(q[i + 1])

\* A new entry takes up the numbering at its end (Request, PushSignal).
LEMMA PushKeepsNumbers ==
    ASSUME NEW q \in Seq(Entry), NEW r \in Nat, NEW g \in Nat,
           Numbered(q, r, g), NEW e \in Entry,
           e.no = g + One(e)
    PROVE  Numbered(Append(q, e), r, e.no)
<1> DEFINE p == Append(q, e)
<1>1. /\ p # <<>> /\ Len(p) = Len(q) + 1 /\ Len(q) \in Nat
      /\ p[Len(p)] = e
      /\ \A i \in 1 .. Len(q) : p[i] = q[i]
  OBVIOUS
<1>2. One(e) \in Nat /\ e.no \in Nat
  BY DEF One, Entry
<1>3. p[1].no = r + One(p[1])
  <2>1. CASE q = <<>>
    BY <1>1, <1>2, <2>1 DEF Numbered
  <2>2. CASE q # <<>>
    <3>1. Len(q) >= 1
      BY <2>2
    <3> QED  BY <1>1, <2>2, <3>1 DEF Numbered
  <2> QED  BY <2>1, <2>2
<1>4. \A i \in 1 .. Len(p) - 1 : p[i + 1].no = p[i].no + One(p[i + 1])
  <2> SUFFICES ASSUME NEW i \in 1 .. Len(q)
               PROVE  p[i + 1].no = p[i].no + One(p[i + 1])
    BY <1>1
  <2>1. CASE i = Len(q)
    <3>1. q # <<>>
      BY <2>1
    <3> QED  BY <1>1, <2>1, <3>1 DEF Numbered
  <2>2. CASE i < Len(q)
    <3>1. i \in 1 .. Len(q) - 1 /\ i + 1 \in 1 .. Len(q)
      BY <1>1, <2>2
    <3> QED  BY <1>1, <3>1 DEF Numbered
  <2> QED  BY <1>1, <2>1, <2>2
<1>5. \A i \in 1 .. Len(p) : p[i].no <= e.no
  <2> SUFFICES ASSUME NEW i \in 1 .. Len(p)
               PROVE  p[i].no <= e.no
    OBVIOUS
  <2>1. CASE i = Len(p)
    BY <1>1, <1>2, <2>1
  <2>2. CASE i # Len(p)
    <3>1. i \in 1 .. Len(q) /\ p[i] = q[i] /\ q[i] \in Entry
      BY <1>1, <2>2
    <3>2. p[i].no <= g /\ p[i].no \in Nat /\ g <= e.no
      BY <1>2, <3>1 DEF Numbered, One, Entry
    <3> QED  BY <1>2, <3>2
  <2> QED  BY <2>1, <2>2
<1> QED  BY <1>1, <1>2, <1>3, <1>4, <1>5 DEF Numbered

\* The head of a queue has the number that is next, and what is behind it goes on
\* from there (End, Signal).
LEMMA PopKeepsNumbers ==
    ASSUME NEW q \in Seq(Entry), NEW r \in Nat, NEW g \in Nat,
           Numbered(q, r, g), q # <<>>
    PROVE  /\ Head(q).no = r + One(Head(q))
           /\ Numbered(Tail(q), r + One(Head(q)), g)
<1> DEFINE p == Tail(q)
<1>1. /\ Len(q) \in Nat \ {0} /\ p \in Seq(Entry) /\ Len(p) = Len(q) - 1
      /\ Head(q) = q[1]
      /\ \A i \in 1 .. Len(p) : p[i] = q[i + 1]
  OBVIOUS
<1>2. Head(q).no = r + One(Head(q))
  BY <1>1 DEF Numbered
<1> HIDE DEF p
<1>3. p = <<>> => r + One(Head(q)) = g
  <2> HAVE p = <<>>
  <2>1. Len(q) = 1
    BY <1>1
  <2> QED  BY <1>1, <1>2, <2>1 DEF Numbered
<1>4. p # <<>> => p[1].no = r + One(Head(q)) + One(p[1]) /\ p[Len(p)].no = g
  <2> HAVE p # <<>>
  <2>1. Len(p) >= 1 /\ Len(q) >= 2
    BY <1>1
  <2>2. p[1].no = Head(q).no + One(p[1])
    BY <1>1, <2>1 DEF Numbered
  <2>3. p[Len(p)].no = g
    BY <1>1, <2>1 DEF Numbered
  <2> QED  BY <1>2, <2>2, <2>3
<1>5. ASSUME NEW i \in 1 .. Len(p) - 1
      PROVE  p[i + 1].no = p[i].no + One(p[i + 1])
  <2>1. i + 1 \in 1 .. Len(q) - 1 /\ i \in 1 .. Len(p) /\ i + 1 \in 1 .. Len(p)
    BY <1>1
  <2> QED  BY <1>1, <2>1 DEF Numbered
<1>6. ASSUME NEW i \in 1 .. Len(p)
      PROVE  p[i].no <= g
  BY <1>1 DEF Numbered
<1>7. Numbered(p, r + One(Head(q)), g)
  BY <1>3, <1>4, <1>5, <1>6 DEF Numbered
<1> QED  BY <1>2, <1>7 DEF p

---------------------------------------------------------------------------
(* The inductive invariant.  The properties of QRunner are not inductive: what *)
(* execute may still run is bounded by what is in the queue only because the   *)
(* bytes match, and a call runs once because the queue is numbered.            *)

\* execute is entered for no queue within itself (inprog).
OneExecute == \A i, j \in DOMAIN stack : stack[i] = stack[j] => i = j

\* The main thread is within a function of t's queue only within t's execute.
OutsideRests == \A t \in Threads : ~inprog(t) => left[t] = 0 /\ ~inside[t]

\* What is being run is a call at the head of the queue.
RunsTheHead ==
    \A t \in Threads :
        inside[t] => left[t] > 0 /\ queue[t] # <<>> /\ Head(queue[t]).kind = "call"

QueuesNumbered ==
    attached => \A t \in Threads : Numbered(queue[t], Len(ran[t]), given[t])

\* The signal of a thread with a condition variable of its own is the last entry
\* of its queue, and the thread waits for it or is about to.
Own(t) == Alone(t) /\ t \notin Spurious

SignalIsLast ==
    \A t \in Threads : Own(t) =>
        \A i \in SignalsIn(t) : i = Len(queue[t]) /\ pc[t] \in {"signalled", "ready", "wait"}

IInv ==
    /\ TypeOK
    /\ BytesMatchEntries
    /\ OneExecute
    /\ OutsideRests
    /\ RunsTheHead
    /\ QueuesNumbered
    /\ SignalIsLast
    /\ SyncWaitsAlone

ThreadActs(t) ==
    \/ RequestAsync(t) \/ RequestRefused(t) \/ RequestSync(t) \/ SpuriousWakeup(t)
    \/ WriteByte(t) \/ LockM(t) \/ PushSignal(t) \/ Wait(t) \/ Return(t)

MainActs(t) == Execute(t) \/ Begin(t) \/ End(t) \/ Signal(t) \/ Leave(t)

\* Every step is one of a thread, one of the main thread for a queue, or Detach.
LEMMA Cases ==
    ASSUME Next
    PROVE  Detach \/ \E t \in Threads : ThreadActs(t) \/ MainActs(t)
BY DEF Next, ThreadActs, MainActs, ThreadStep, MainStep

LEMMA EntryFacts ==
    /\ \A n \in Nat : /\ [kind |-> "call", no |-> n] \in Entry
                      /\ [kind |-> "fsignal", no |-> n] \in Entry
    /\ \A e \in Entry : e.no \in Nat
BY DEF Entry

\* What Append, Tail and the shorter stack are.
LEMMA Appended ==
    ASSUME NEW S, NEW q \in Seq(S), NEW e \in S
    PROVE  /\ Append(q, e) \in Seq(S) /\ Append(q, e) # <<>>
           /\ Len(Append(q, e)) = Len(q) + 1 /\ Len(q) \in Nat
           /\ \A i \in 1 .. Len(q) : Append(q, e)[i] = q[i]
           /\ Append(q, e)[Len(q) + 1] = e
OBVIOUS

LEMMA Popped ==
    ASSUME NEW S, NEW q \in Seq(S), q # <<>>
    PROVE  /\ Tail(q) \in Seq(S) /\ Len(Tail(q)) = Len(q) - 1 /\ Len(q) \in Nat \ {0}
           /\ \A i \in 1 .. Len(Tail(q)) : Tail(q)[i] = q[i + 1]
           /\ Head(q) = q[1] /\ Head(q) \in S
OBVIOUS

LEMMA Shortened ==
    ASSUME NEW S, NEW q \in Seq(S), q # <<>>
    PROVE  /\ SubSeq(q, 1, Len(q) - 1) \in Seq(S)
           /\ Len(SubSeq(q, 1, Len(q) - 1)) = Len(q) - 1 /\ Len(q) \in Nat \ {0}
           /\ \A i \in 1 .. Len(q) - 1 : SubSeq(q, 1, Len(q) - 1)[i] = q[i]
<1> DEFINE n == Len(q) - 1
<1>1. Len(q) \in Nat \ {0} /\ n \in Nat /\ 1 \in Int
  OBVIOUS
<1>2. \A i \in 1 .. n : q[i] \in S
  BY <1>1
<1> HIDE DEF n
<1>3. /\ SubSeq(q, 1, n) \in Seq(S)
      /\ Len(SubSeq(q, 1, n)) = IF 1 <= n THEN n - 1 + 1 ELSE 0
      /\ \A i \in 1 .. n - 1 + 1 : SubSeq(q, 1, n)[i] = q[1 + i - 1]
  <2>1. n \in Int
    BY <1>1
  <2> QED  BY <1>1, <1>2, <2>1, SubSeqProperties
<1>4. Len(SubSeq(q, 1, n)) = n /\ \A i \in 1 .. n : SubSeq(q, 1, n)[i] = q[i]
  BY <1>1, <1>3
<1> QED  BY <1>1, <1>3, <1>4 DEF n

\* The types, with the reason why End finds an entry to take off.
LEMMA TypeStep ==
    ASSUME TypeOK, RunsTheHead, [Next]_vars
    PROVE  TypeOK'
<1> USE QRunnerAssumption DEF TypeOK
<1>1. CASE UNCHANGED vars
  BY <1>1 DEF vars
<1>2. CASE Detach
  <2>1. /\ queue' \in [Threads -> Seq(Entry)]
        /\ \A t \in Threads : Len(queue'[t]) <= Capacity
    <3>1. <<>> \in Seq(Entry) /\ Len(<<>>) = 0
      OBVIOUS
    <3>2. queue' = [t \in Threads |-> <<>>]
      BY <1>2 DEF Detach
    <3>3. \A t \in Threads : queue'[t] = <<>>
      BY <3>2
    <3> QED  BY <3>1, <3>2, <3>3
  <2>2. bytes' \in [Threads -> Nat] /\ attached' \in BOOLEAN
    BY <1>2 DEF Detach
  <2>3. UNCHANGED <<pc, given, made, ran, stack, left, inside>>
    BY <1>2 DEF Detach
  <2> QED  BY <2>1, <2>2, <2>3
<1>3. ASSUME NEW t \in Threads, ThreadActs(t)
      PROVE  TypeOK'
  <2> USE DEF Goes, Places
  <2>1. CASE RequestAsync(t) \/ RequestSync(t)
    <3>1. PICK place \in {"async", "sync"} : Request(t, place)
      BY <2>1 DEF RequestAsync, RequestSync
    <3> DEFINE e == [kind |-> "call", no |-> given[t] + 1]
    <3>0. given[t] + 1 \in Nat /\ made[t] + 1 \in Nat
      OBVIOUS
    <3>2. e \in Entry /\ given[t] + 1 \in Nat /\ made[t] + 1 \in Nat
      BY <3>0, EntryFacts
    <3>3. Append(queue[t], e) \in Seq(Entry) /\ Len(Append(queue[t], e)) <= Capacity
      BY <3>1, <3>2, Appended DEF Request, Push, HasRoom
    <3>4. queue' = [queue EXCEPT ![t] = Append(queue[t], e)]
      BY <3>1 DEF Request, Push
    <3> HIDE DEF e
    <3> QED  BY <3>1, <3>2, <3>3, <3>4 DEF Request
  <2>2. CASE RequestRefused(t)
    BY <2>2 DEF RequestRefused
  <2>3. CASE SpuriousWakeup(t)
    BY <2>3 DEF SpuriousWakeup
  <2>4. CASE WriteByte(t)
    BY <2>4 DEF WriteByte
  <2>5. CASE LockM(t)
    BY <2>5 DEF LockM
  <2>6. CASE PushSignal(t)
    <3> DEFINE e == [kind |-> "fsignal", no |-> given[t]]
    <3>1. e \in Entry
      BY EntryFacts
    <3>2. Append(queue[t], e) \in Seq(Entry) /\ Len(Append(queue[t], e)) <= Capacity
      BY <2>6, <3>1, Appended DEF PushSignal, Push, HasRoom
    <3>3. queue' = [queue EXCEPT ![t] = Append(queue[t], e)]
      BY <2>6 DEF PushSignal, Push
    <3> HIDE DEF e
    <3> QED  BY <2>6, <3>2, <3>3 DEF PushSignal
  <2>7. CASE Wait(t)
    BY <2>7 DEF Wait
  <2>8. CASE Return(t)
    BY <2>8 DEF Return
  <2> QED
    BY <1>3, <2>1, <2>2, <2>3, <2>4, <2>5, <2>6, <2>7, <2>8 DEF ThreadActs
<1>4. ASSUME NEW t \in Threads, MainActs(t)
      PROVE  TypeOK'
  <2>1. CASE Execute(t)
    BY <2>1 DEF Execute
  <2>2. CASE Begin(t)
    BY <2>2 DEF Begin
  <2>3. CASE End(t)
    <3>0. queue[t] # <<>> /\ left[t] > 0
      BY <2>3 DEF End, RunsTheHead
    <3>4. left[t] - 1 \in Nat
      BY <3>0
    <3>1. Tail(queue[t]) \in Seq(Entry) /\ Len(Tail(queue[t])) <= Capacity
          /\ Head(queue[t]).no \in Nat
      BY <3>0, Popped, EntryFacts
    <3>2. Append(ran[t], Head(queue[t]).no) \in Seq(Nat)
      BY <3>1, Appended
    <3> QED  BY <2>3, <3>1, <3>2, <3>4 DEF End, Pop
  <2>4. CASE Signal(t)
    <3>1. /\ queue' = [queue EXCEPT ![t] = Tail(queue[t])] /\ queue[t] # <<>>
          /\ left' = [left EXCEPT ![t] = left[t] - 1] /\ left[t] > 0
          /\ UNCHANGED <<bytes, given, made, ran, stack, inside, attached>>
      BY <2>4 DEF Signal, Pop, Next1
    <3>2. pc' \in [Threads -> Places]
      BY <2>4 DEF Signal, Goes, Places, Waiting
    <3>3. Tail(queue[t]) \in Seq(Entry) /\ Len(Tail(queue[t])) <= Capacity
          /\ left[t] - 1 \in Nat
      BY <3>1, Popped
    <3> QED  BY <3>1, <3>2, <3>3
  <2>5. CASE Leave(t)
    <3>1. SubSeq(stack, 1, Len(stack) - 1) \in Seq(Threads)
      BY <2>5, Shortened DEF Leave
    <3> QED  BY <2>5, <3>1 DEF Leave
  <2> QED
    BY <1>4, <2>1, <2>2, <2>3, <2>4, <2>5 DEF MainActs
<1> QED  BY <1>1, <1>2, <1>3, <1>4, Cases

---------------------------------------------------------------------------
(* One entry more, and what the main thread takes off *)

\* The two ways an entry comes into a queue (Request, PushSignal).
Gets(t, e) ==
    /\ e \in Entry
    /\ queue' = [queue EXCEPT ![t] = Append(queue[t], e)]
    /\ UNCHANGED <<bytes, ran, stack, left, inside, attached>>

LEMMA Pushes ==
    ASSUME TypeOK, NEW t \in Threads
    PROVE  /\ RequestAsync(t) \/ RequestSync(t) =>
                /\ Gets(t, [kind |-> "call", no |-> given[t] + 1])
                /\ pc[t] = "idle" /\ given' = [given EXCEPT ![t] = @ + 1]
                /\ \E place \in {"async", "sync"} : pc' = [pc EXCEPT ![t] = place]
           /\ PushSignal(t) =>
                /\ Gets(t, [kind |-> "fsignal", no |-> given[t]])
                /\ pc[t] = "signal" /\ pc' = [pc EXCEPT ![t] = "signalled"]
                /\ UNCHANGED given
<1>1. given[t] \in Nat /\ given[t] + 1 \in Nat
  BY DEF TypeOK
<1> QED
  BY <1>1, EntryFacts
  DEF RequestAsync, RequestSync, Request, PushSignal, Push, Goes, Gets

\* The two ways an entry leaves it (End, Signal).
Loses(t) ==
    /\ queue[t] # <<>>
    /\ queue' = [queue EXCEPT ![t] = Tail(queue[t])]
    /\ left[t] > 0 /\ left' = [left EXCEPT ![t] = left[t] - 1]
    /\ stack # <<>> /\ Top = t
    /\ UNCHANGED <<bytes, given, made, stack, attached>>

LEMMA Pops ==
    ASSUME TypeOK, RunsTheHead, NEW t \in Threads
    PROVE  /\ End(t) =>
                /\ Loses(t) /\ UNCHANGED pc
                /\ inside[t] /\ inside' = [inside EXCEPT ![t] = FALSE]
                /\ Head(queue[t]).kind = "call"
                /\ ran' = [ran EXCEPT ![t] = Append(ran[t], Head(queue[t]).no)]
           /\ Signal(t) =>
                /\ Loses(t) /\ ~inside[t] /\ MFree(t) /\ UNCHANGED <<inside, ran>>
                /\ Head(queue[t]).kind = "fsignal"
                /\ \/ UNCHANGED pc /\ Waiting(t) = {}
                   \/ \E u \in Waiting(t) : pc' = [pc EXCEPT ![u] = "woken"]
BY DEF TypeOK, RunsTheHead, End, Signal, Next1, Pop, Loses, Goes

\* The steps of a thread that touch neither its queue nor its pipe.
Moves(t) ==
    /\ UNCHANGED <<queue, bytes, given, ran, stack, left, inside, attached>>
    /\ \/ UNCHANGED pc
       \/ pc[t] = "lock" /\ pc' = [pc EXCEPT ![t] = "signal"]
       \/ pc[t] = "ready" /\ pc' = [pc EXCEPT ![t] = "wait"]
       \/ t \in Spurious /\ pc[t] = "wait" /\ pc' = [pc EXCEPT ![t] = "woken"]
       \/ pc[t] = "woken" /\ pc' = [pc EXCEPT ![t] = "idle"]

LEMMA Moving ==
    ASSUME NEW t \in Threads,
           RequestRefused(t) \/ SpuriousWakeup(t) \/ LockM(t) \/ Wait(t) \/ Return(t)
    PROVE  Moves(t)
BY DEF Moves, RequestRefused, SpuriousWakeup, LockM, Wait, Return, Goes

\* execute reads as many bytes as there are entries it may run, because it has
\* none left from before.
LEMMA BytesStep ==
    ASSUME TypeOK, BytesMatchEntries, OutsideRests, RunsTheHead, [Next]_vars
    PROVE  BytesMatchEntries'
<1> SUFFICES ASSUME attached', NEW u \in Threads
             PROVE  Len(queue'[u]) =
                      bytes'[u] + left'[u] + (IF pc'[u] \in Pushed THEN 1 ELSE 0)
  BY DEF BytesMatchEntries
<1>1. CASE UNCHANGED vars
  BY <1>1 DEF vars, BytesMatchEntries
<1>2. CASE Detach
  BY <1>2 DEF Detach
<1> USE DEF Pushed
<1>3. ASSUME NEW t \in Threads, ThreadActs(t), attached
      PROVE  Len(queue'[u]) =
               bytes'[u] + left'[u] + (IF pc'[u] \in Pushed THEN 1 ELSE 0)
  <2>0. /\ Len(queue[u]) = bytes[u] + left[u] + (IF pc[u] \in Pushed THEN 1 ELSE 0)
        /\ queue[u] \in Seq(Entry) /\ Len(queue[u]) \in Nat
        /\ bytes[u] \in Nat /\ left[u] \in Nat
    BY <1>3 DEF BytesMatchEntries, TypeOK
  <2>1. CASE RequestAsync(t) \/ RequestSync(t) \/ PushSignal(t)
    <3>1. PICK e \in Entry, place \in Pushed :
            /\ Gets(t, e) /\ pc[t] \notin Pushed
            /\ pc' = [pc EXCEPT ![t] = place]
      BY <2>1, Pushes DEF Gets
    <3>2. Len(queue'[u]) = IF u = t THEN Len(queue[u]) + 1 ELSE Len(queue[u])
      BY <3>1, Appended DEF Gets, TypeOK
    <3> QED  BY <2>0, <3>1, <3>2 DEF Gets, TypeOK
  <2>2. CASE WriteByte(t)
    BY <2>0, <2>2, SMTT(30) DEF WriteByte, Goes, TypeOK
  <2>3. CASE Moves(t)
    BY <2>0, <2>3 DEF Moves, TypeOK
  <2> QED  BY <1>3, <2>1, <2>2, <2>3, Moving DEF ThreadActs
<1>4. ASSUME NEW t \in Threads, MainActs(t), attached
      PROVE  Len(queue'[u]) =
               bytes'[u] + left'[u] + (IF pc'[u] \in Pushed THEN 1 ELSE 0)
  <2>0. /\ Len(queue[u]) = bytes[u] + left[u] + (IF pc[u] \in Pushed THEN 1 ELSE 0)
        /\ queue[u] \in Seq(Entry) /\ Len(queue[u]) \in Nat
        /\ bytes[u] \in Nat /\ left[u] \in Nat
    BY <1>4 DEF BytesMatchEntries, TypeOK
  <2>1. CASE Execute(t)
    <3>1. left[t] = 0
      BY <2>1 DEF Execute, OutsideRests
    <3>2. /\ bytes'[u] = IF u = t THEN 0 ELSE bytes[u]
          /\ left'[u] = IF u = t THEN bytes[u] ELSE left[u]
          /\ queue' = queue /\ pc' = pc
      BY <2>1 DEF Execute, TypeOK
    <3> QED  BY <2>0, <3>1, <3>2
  <2>2. CASE Begin(t)
    BY <2>0, <2>2 DEF Begin
  <2>3. CASE End(t) \/ Signal(t)
    <3>1. Loses(t)
      BY <2>3, Pops
    <3>2. Len(queue'[u]) = IF u = t THEN Len(queue[u]) - 1 ELSE Len(queue[u])
      BY <3>1, Popped DEF Loses, TypeOK
    <3>3. pc'[u] \in Pushed <=> pc[u] \in Pushed
      BY <2>3, Pops DEF Waiting, TypeOK
    <3>4. bytes' = bytes /\ left'[u] = IF u = t THEN left[u] - 1 ELSE left[u]
      BY <3>1 DEF Loses, TypeOK
    <3> QED  BY <2>0, <3>2, <3>3, <3>4
  <2>4. CASE Leave(t)
    BY <2>0, <2>4 DEF Leave
  <2> QED  BY <1>4, <2>1, <2>2, <2>3, <2>4 DEF MainActs
<1>5. Next /\ ~Detach => attached
  BY DEF Next, ThreadStep, MainStep, RequestAsync, RequestSync, Request, RequestRefused, SpuriousWakeup
<1> QED  BY <1>1, <1>2, <1>3, <1>4, <1>5, Cases

\* inprog keeps the main thread out of an execute it is in already.
LEMMA StackStep ==
    ASSUME TypeOK, OneExecute, OutsideRests, RunsTheHead, [Next]_vars
    PROVE  OneExecute' /\ OutsideRests'
<1>1. CASE UNCHANGED <<stack, left, inside>>
  BY <1>1 DEF OneExecute, OutsideRests, inprog
<1>2. ASSUME NEW t \in Threads, Execute(t)
      PROVE  OneExecute' /\ OutsideRests'
  <2>1. /\ stack' = Append(stack, t) /\ ~inprog(t) /\ inside' = inside
        /\ left' = [left EXCEPT ![t] = bytes[t]]
    BY <1>2 DEF Execute
  <2>2. /\ Len(stack') = Len(stack) + 1 /\ Len(stack) \in Nat
        /\ \A i \in 1 .. Len(stack) : stack'[i] = stack[i]
        /\ stack'[Len(stack) + 1] = t
        /\ DOMAIN stack' = 1 .. Len(stack) + 1 /\ DOMAIN stack = 1 .. Len(stack)
    BY <2>1, Appended DEF TypeOK
  <2>3. OneExecute'
    BY <2>1, <2>2 DEF OneExecute, inprog
  <2>4. OutsideRests'
    <3> SUFFICES ASSUME NEW u \in Threads, ~inprog(u)'
                 PROVE  left'[u] = 0 /\ ~inside'[u]
      BY DEF OutsideRests
    <3>1. u # t
      BY <2>2 DEF inprog
    <3>2. ~inprog(u)
      BY <2>2 DEF inprog
    <3> QED  BY <2>1, <3>1, <3>2 DEF OutsideRests, TypeOK
  <2> QED  BY <2>3, <2>4
<1>3. ASSUME NEW t \in Threads, Begin(t) \/ End(t) \/ Signal(t)
      PROVE  OneExecute' /\ OutsideRests'
  <2>1. /\ stack # <<>> /\ Top = t /\ stack' = stack
        /\ \A u \in Threads : u # t => left'[u] = left[u] /\ inside'[u] = inside[u]
    <3>1. CASE Begin(t)
      BY <3>1 DEF Begin, Next1, TypeOK
    <3>2. CASE End(t)
      <4>1. stack # <<>> /\ Top = t /\ stack' = stack
        BY <3>2 DEF End
      <4>2. \A u \in Threads : u # t => left'[u] = left[u] /\ inside'[u] = inside[u]
        BY <3>2 DEF End, Pop, TypeOK
      <4> QED  BY <4>1, <4>2
    <3>3. CASE Signal(t)
      <4>1. stack # <<>> /\ Top = t /\ stack' = stack
        BY <3>3 DEF Signal, Next1
      <4>2. \A u \in Threads : u # t => left'[u] = left[u] /\ inside'[u] = inside[u]
        BY <3>3 DEF Signal, Pop, TypeOK
      <4> QED  BY <4>1, <4>2
    <3> QED  BY <1>3, <3>1, <3>2, <3>3
  <2>2. inprog(t) /\ inprog(t)'
    <3>1. Len(stack) \in DOMAIN stack /\ stack[Len(stack)] = t
      BY <2>1 DEF Top, TypeOK
    <3> QED  BY <2>1, <3>1 DEF inprog
  <2>3. \A u \in Threads : inprog(u)' <=> inprog(u)
    BY <2>1 DEF inprog
  <2> QED  BY <2>1, <2>2, <2>3 DEF OneExecute, OutsideRests
<1>4. ASSUME NEW t \in Threads, Leave(t)
      PROVE  OneExecute' /\ OutsideRests'
  <2>1. /\ stack # <<>> /\ Top = t /\ left[t] = 0 /\ UNCHANGED <<left, inside>>
        /\ stack' = SubSeq(stack, 1, Len(stack) - 1)
    BY <1>4 DEF Leave
  <2>2. /\ Len(stack') = Len(stack) - 1 /\ Len(stack) \in Nat \ {0}
        /\ \A i \in 1 .. Len(stack) - 1 : stack'[i] = stack[i]
        /\ DOMAIN stack' = 1 .. Len(stack) - 1 /\ DOMAIN stack = 1 .. Len(stack)
    BY <2>1, Shortened DEF TypeOK
  <2>3. OneExecute'
    BY <2>2 DEF OneExecute
  <2>4. OutsideRests'
    <3> SUFFICES ASSUME NEW u \in Threads, ~inprog(u)'
                 PROVE  left[u] = 0 /\ ~inside[u]
      BY <2>1 DEF OutsideRests
    <3>1. CASE u = t
      <4>1. ~(left[u] > 0)
        BY <2>1, <3>1
      <4> QED  BY <2>1, <3>1, <4>1 DEF RunsTheHead
    <3>2. CASE u # t
      <4>1. ~inprog(u)
        <5> SUFFICES ASSUME NEW i \in 1 .. Len(stack), stack[i] = u
                     PROVE  FALSE
          BY <2>2 DEF inprog
        <5>1. i # Len(stack)
          BY <2>1, <3>2 DEF Top
        <5>2. i \in 1 .. Len(stack) - 1
          BY <2>2, <5>1
        <5> QED  BY <2>2, <5>2 DEF inprog
      <4> QED  BY <4>1 DEF OutsideRests
    <3> QED  BY <3>1, <3>2
  <2> QED  BY <2>3, <2>4
<1>5. ASSUME NEW t \in Threads, ThreadActs(t)
      PROVE  UNCHANGED <<stack, left, inside>>
  BY <1>5, Moving, Pushes DEF ThreadActs, Moves, Gets, WriteByte
<1>6. Detach => UNCHANGED <<stack, left, inside>>
  BY DEF Detach
<1> QED
  BY <1>1, <1>2, <1>3, <1>4, <1>5, <1>6, Cases DEF MainActs, vars

\* A call stays at the head of its queue while it is being run.
LEMMA HeadStep ==
    ASSUME TypeOK, OutsideRests, RunsTheHead, [Next]_vars
    PROVE  RunsTheHead'
<1> SUFFICES ASSUME NEW u \in Threads, inside'[u]
             PROVE  left'[u] > 0 /\ queue'[u] # <<>> /\ Head(queue'[u]).kind = "call"
  BY DEF RunsTheHead
<1>1. CASE UNCHANGED <<queue, left, inside>>
  BY <1>1 DEF RunsTheHead
<1>2. CASE Detach
  <2>1. ~inprog(u) /\ inside' = inside
    BY <1>2 DEF Detach, inprog
  <2> QED  BY <2>1 DEF OutsideRests
<1>3. ASSUME NEW t \in Threads, RequestAsync(t) \/ RequestSync(t) \/ PushSignal(t)
      PROVE  left'[u] > 0 /\ queue'[u] # <<>> /\ Head(queue'[u]).kind = "call"
  <2>1. PICK e \in Entry : Gets(t, e)
    BY <1>3, Pushes DEF Gets
  <2>2. left[u] > 0 /\ queue[u] # <<>> /\ Head(queue[u]).kind = "call"
    BY <2>1 DEF RunsTheHead, Gets
  <2>3. queue'[u] # <<>> /\ Head(queue'[u]) = Head(queue[u])
    <3>1. CASE u = t
      <4>1. queue'[u] = Append(queue[u], e) /\ queue[u] \in Seq(Entry)
        BY <2>1, <3>1 DEF Gets, TypeOK
      <4> QED  BY <2>2, <4>1, Appended
    <3>2. CASE u # t
      BY <2>1, <2>2, <3>2 DEF Gets, TypeOK
    <3> QED  BY <3>1, <3>2
  <2> QED  BY <2>1, <2>2, <2>3 DEF Gets
<1>4. ASSUME NEW t \in Threads, Execute(t)
      PROVE  left'[u] > 0 /\ queue'[u] # <<>> /\ Head(queue'[u]).kind = "call"
  <2>1. u # t
    BY <1>4 DEF Execute, OutsideRests
  <2> QED  BY <1>4, <2>1 DEF Execute, RunsTheHead, TypeOK
<1>5. ASSUME NEW t \in Threads, Begin(t)
      PROVE  left'[u] > 0 /\ queue'[u] # <<>> /\ Head(queue'[u]).kind = "call"
  BY <1>5 DEF Begin, Next1, RunsTheHead, TypeOK
<1>6. ASSUME NEW t \in Threads, End(t) \/ Signal(t)
      PROVE  left'[u] > 0 /\ queue'[u] # <<>> /\ Head(queue'[u]).kind = "call"
  <2>1. u # t /\ inside[u]
    BY <1>6, Pops, SMTT(30) DEF TypeOK
  <2> QED  BY <1>6, <2>1, Pops DEF Loses, RunsTheHead, TypeOK
<1>7. ASSUME NEW t \in Threads, ThreadActs(t)
      PROVE  \/ RequestAsync(t) \/ RequestSync(t) \/ PushSignal(t)
             \/ UNCHANGED <<queue, left, inside>>
  BY <1>7, Moving DEF ThreadActs, Moves, WriteByte
<1>8. \A t \in Threads : Leave(t) => UNCHANGED <<queue, left, inside>>
  BY DEF Leave
<1> QED
  BY <1>1, <1>2, <1>3, <1>4, <1>5, <1>6, <1>7, <1>8, Cases DEF MainActs, vars

\* Every step but Detach needs the queues.
LEMMA Attached ==
    ASSUME Next, ~Detach
    PROVE  attached
BY DEF Next, ThreadStep, MainStep, RequestAsync, RequestSync, Request,
       RequestRefused, SpuriousWakeup

\* The numbering of a queue survives both ends of it.
LEMMA NumbersStep ==
    ASSUME TypeOK, RunsTheHead, QueuesNumbered, [Next]_vars
    PROVE  QueuesNumbered'
<1> SUFFICES ASSUME attached', NEW u \in Threads
             PROVE  Numbered(queue'[u], Len(ran'[u]), given'[u])
  BY DEF QueuesNumbered
<1>0. /\ queue[u] \in Seq(Entry) /\ Len(ran[u]) \in Nat /\ given[u] \in Nat
      /\ ran[u] \in Seq(Nat)
  BY DEF TypeOK
<1>1. CASE attached /\ queue'[u] = queue[u] /\ ran'[u] = ran[u] /\ given'[u] = given[u]
  BY <1>1 DEF QueuesNumbered
<1>2. CASE Detach
  BY <1>2 DEF Detach
<1>3. ASSUME NEW t \in Threads, attached,
             RequestAsync(t) \/ RequestSync(t) \/ PushSignal(t)
      PROVE  Numbered(queue'[u], Len(ran'[u]), given'[u])
  <2>1. PICK e \in Entry :
          /\ Gets(t, e) /\ e.no = given[t] + One(e)
          /\ given' = [given EXCEPT ![t] = e.no]
    <3>1. CASE RequestAsync(t) \/ RequestSync(t)
      BY <3>1, Pushes DEF Gets, One
    <3>2. CASE PushSignal(t)
      <4> DEFINE e == [kind |-> "fsignal", no |-> given[t]]
      <4>1. Gets(t, e) /\ given' = given /\ e \in Entry
        BY <3>2, Pushes DEF Gets
      <4>2. e.no = given[t] + One(e)
        BY DEF One, TypeOK
      <4>3. given' = [given EXCEPT ![t] = e.no]
        BY <4>1 DEF TypeOK
      <4> HIDE DEF e
      <4> QED  BY <4>1, <4>2, <4>3
    <3> QED  BY <1>3, <3>1, <3>2
  <2>2. CASE u # t
    BY <1>1, <1>3, <2>1, <2>2 DEF Gets, TypeOK
  <2>3. CASE u = t
    <3>1. Numbered(queue[u], Len(ran[u]), given[u])
      BY <1>3 DEF QueuesNumbered
    <3>2. Numbered(Append(queue[u], e), Len(ran[u]), e.no)
      BY <1>0, <2>1, <2>3, <3>1, PushKeepsNumbers
    <3> QED  BY <2>1, <2>3, <3>2 DEF Gets, TypeOK
  <2> QED  BY <2>2, <2>3
<1>4. ASSUME NEW t \in Threads, attached, End(t) \/ Signal(t)
      PROVE  Numbered(queue'[u], Len(ran'[u]), given'[u])
  <2>1. CASE u # t
    <3>1. queue'[u] = queue[u] /\ ran'[u] = ran[u] /\ given'[u] = given[u]
      BY <1>4, <2>1, Pops DEF Loses, TypeOK
    <3> QED  BY <1>1, <1>4, <3>1
  <2>2. CASE u = t
    <3>0. Loses(u)
      BY <1>4, <2>2, Pops
    <3>1. queue[u] # <<>> /\ queue'[u] = Tail(queue[u]) /\ given' = given
      BY <3>0 DEF Loses, TypeOK
    <3>4. Head(queue[u]).no \in Nat
      BY <1>0, <3>1, Popped, EntryFacts
    <3>2. Len(ran'[u]) = Len(ran[u]) + One(Head(queue[u]))
      <4>1. CASE End(t)
        <5>1. /\ Head(queue[u]).kind = "call"
              /\ ran' = [ran EXCEPT ![u] = Append(ran[u], Head(queue[u]).no)]
          BY <2>2, <4>1, Pops
        <5>2. ran'[u] = Append(ran[u], Head(queue[u]).no)
          BY <5>1 DEF TypeOK
        <5>3. Len(ran'[u]) = Len(ran[u]) + 1
          BY <1>0, <3>4, <5>2, Appended
        <5>4. One(Head(queue[u])) = 1
          BY <5>1 DEF One
        <5> QED  BY <5>3, <5>4
      <4>2. CASE Signal(t)
        <5>1. ran' = ran /\ Head(queue[u]).kind = "fsignal"
          BY <2>2, <4>2, Pops
        <5>2. One(Head(queue[u])) = 0
          BY <5>1 DEF One
        <5> QED  BY <1>0, <5>1, <5>2
      <4> QED  BY <1>4, <4>1, <4>2
    <3>3. Numbered(queue[u], Len(ran[u]), given[u])
      BY <1>4 DEF QueuesNumbered
    <3> QED  BY <1>0, <3>1, <3>2, <3>3, PopKeepsNumbers
  <2> QED  BY <2>1, <2>2
<1>5. ASSUME NEW t \in Threads, ThreadActs(t)
      PROVE  \/ RequestAsync(t) \/ RequestSync(t) \/ PushSignal(t)
             \/ UNCHANGED <<queue, ran, given>>
  BY <1>5, Moving DEF ThreadActs, Moves, WriteByte
<1>6. \A t \in Threads : Execute(t) \/ Begin(t) \/ Leave(t) => UNCHANGED <<queue, ran, given>>
  BY DEF Execute, Begin, Leave
<1> QED
  BY <1>1, <1>2, <1>3, <1>4, <1>5, <1>6, Cases, Attached DEF MainActs, vars

\* A thread with a condition variable of its own is woken by its own signal only,
\* and everything it gave has run by then.
LEMMA SignalStep ==
    ASSUME TypeOK, RunsTheHead, QueuesNumbered, SignalIsLast, SyncWaitsAlone, [Next]_vars
    PROVE  SignalIsLast' /\ SyncWaitsAlone'
<1> DEFINE Last(u) == \A i \in SignalsIn(u) :
                        i = Len(queue[u]) /\ pc[u] \in {"signalled", "ready", "wait"}
           Done(u) == pc[u] = "woken" => Len(ran[u]) = given[u]
<1> SUFFICES ASSUME NEW u \in Threads, Own(u)
             PROVE  Last(u)' /\ Done(u)'
  BY DEF SignalIsLast, SyncWaitsAlone, Own, Alone
<1>0. /\ Last(u) /\ Done(u) /\ u \notin Spurious
      /\ \A t \in Threads : Functor[t] = Functor[u] => t = u
      /\ queue[u] \in Seq(Entry)
  BY DEF SignalIsLast, SyncWaitsAlone, Own, Alone, TypeOK
<1>1. CASE /\ queue'[u] = queue[u] /\ pc'[u] = pc[u]
           /\ ran'[u] = ran[u] /\ given'[u] = given[u]
  BY <1>0, <1>1 DEF SignalsIn
<1>2. CASE Detach
  <2>1. queue'[u] = <<>> /\ UNCHANGED <<pc, ran, given>>
    BY <1>2 DEF Detach
  <2> QED  BY <1>0, <2>1 DEF SignalsIn
<1>3. ASSUME RequestAsync(u) \/ RequestSync(u) \/ PushSignal(u)
      PROVE  Last(u)' /\ Done(u)'
  <2>1. PICK e \in Entry :
          /\ Gets(u, e) /\ pc[u] \notin {"signalled", "ready", "wait"}
          /\ pc'[u] # "woken"
          /\ e.kind = "fsignal" => pc'[u] = "signalled"
    <3>1. CASE RequestAsync(u) \/ RequestSync(u)
      <4> DEFINE e == [kind |-> "call", no |-> given[u] + 1]
      <4>1. Gets(u, e) /\ e \in Entry /\ pc[u] = "idle"
            /\ \E place \in {"async", "sync"} : pc' = [pc EXCEPT ![u] = place]
        BY <3>1, Pushes DEF Gets
      <4>2. pc'[u] # "woken" /\ e.kind # "fsignal"
        BY <4>1 DEF TypeOK
      <4> QED  BY <4>1, <4>2
    <3>2. CASE PushSignal(u)
      <4> DEFINE e == [kind |-> "fsignal", no |-> given[u]]
      <4>1. Gets(u, e) /\ e \in Entry /\ pc[u] = "signal"
            /\ pc' = [pc EXCEPT ![u] = "signalled"]
        BY <3>2, Pushes DEF Gets
      <4>2. pc'[u] = "signalled"
        BY <4>1 DEF TypeOK
      <4> QED  BY <4>1, <4>2
    <3> QED  BY <1>3, <3>1, <3>2
  <2>2. queue'[u] = Append(queue[u], e)
    BY <2>1 DEF Gets, TypeOK
  <2>3. ASSUME NEW i \in SignalsIn(u)'
        PROVE  i = Len(queue'[u]) /\ pc'[u] = "signalled"
    <3>1. i \in 1 .. Len(queue[u]) + 1 /\ Append(queue[u], e)[i].kind = "fsignal"
      BY <1>0, <2>1, <2>2, <2>3, Appended DEF SignalsIn
    <3>2. CASE i \in 1 .. Len(queue[u])
      <4>1. i \in SignalsIn(u)
        BY <1>0, <3>1, <3>2, Appended DEF SignalsIn
      <4> QED  BY <1>0, <2>1, <4>1
    <3>3. CASE i = Len(queue[u]) + 1
      BY <1>0, <2>1, <2>2, <3>1, <3>3, Appended
    <3> QED  BY <1>0, <3>1, <3>2, <3>3, Appended
  <2> QED  BY <2>1, <2>3
<1>4. ASSUME Moves(u) \/ WriteByte(u)
      PROVE  Last(u)' /\ Done(u)'
  <2>1. /\ UNCHANGED <<queue, ran, given>>
        /\ pc[u] \in {"signalled", "ready", "wait"} =>
             pc'[u] \in {"signalled", "ready", "wait"}
        /\ pc'[u] = "woken" => pc[u] = "woken"
    BY <1>0, <1>4 DEF Moves, WriteByte, Pushed, Goes, TypeOK
  <2> QED  BY <1>0, <2>1 DEF SignalsIn
<1>5. ASSUME attached, End(u) \/ Signal(u)
      PROVE  Last(u)' /\ Done(u)'
  <2>1. /\ queue[u] # <<>> /\ queue'[u] = Tail(queue[u]) /\ given' = given
        /\ Len(Tail(queue[u])) = Len(queue[u]) - 1 /\ Len(queue[u]) \in Nat \ {0}
        /\ \A i \in 1 .. Len(queue[u]) - 1 : Tail(queue[u])[i] = queue[u][i + 1]
        /\ Head(queue[u]) = queue[u][1] /\ Tail(queue[u]) \in Seq(Entry)
        /\ Head(queue[u]).no \in Nat /\ given[u] \in Nat /\ Len(ran[u]) \in Nat
    <3>1. Loses(u)
      BY <1>5, Pops
    <3>2. queue[u] # <<>> /\ queue'[u] = Tail(queue[u]) /\ given' = given
      BY <3>1 DEF Loses, TypeOK
    <3>3. Head(queue[u]).no \in Nat
      BY <1>0, <3>2, Popped, EntryFacts
    <3>4. given[u] \in Nat /\ Len(ran[u]) \in Nat
      BY DEF TypeOK
    <3> QED  BY <1>0, <3>2, <3>3, <3>4, Popped
  <2>2. Numbered(queue[u], Len(ran[u]), given[u])
    BY <1>5 DEF QueuesNumbered
  <2>3. CASE End(u)
    <3>1. pc' = pc /\ Head(queue[u]).kind = "call"
      BY <2>3, Pops
    <3>2. \A i \in SignalsIn(u)' : i + 1 \in SignalsIn(u) /\ i \in Nat
      BY <1>0, <2>1 DEF SignalsIn
    <3>3. Last(u)'
      BY <1>0, <2>1, <3>1, <3>2
    <3>4. Len(ran[u]) # given[u]
      <4>1. queue[u][1].no = Len(ran[u]) + 1
        BY <2>1, <2>2, <3>1 DEF Numbered, One
      <4>2. 1 \in 1 .. Len(queue[u]) /\ queue[u][1].no <= given[u]
        BY <2>1, <2>2 DEF Numbered
      <4> QED  BY <2>1, <4>1, <4>2
    <3> QED  BY <1>0, <3>1, <3>3, <3>4
  <2>4. CASE Signal(u)
    <3>1. /\ Head(queue[u]).kind = "fsignal" /\ ran' = ran
      BY <2>4, Pops
    <3>2. 1 \in SignalsIn(u)
      BY <2>1, <3>1 DEF SignalsIn
    <3>7. Len(queue[u]) = 1
      BY <1>0, <3>2
    <3>3. queue'[u] = <<>>
      <4>1. \A q \in Seq(Entry) : Len(q) = 0 => q = <<>>
        OBVIOUS
      <4>2. Len(Tail(queue[u])) = 0
        BY <2>1, <3>7
      <4> QED  BY <2>1, <4>1, <4>2
    <3>4. Last(u)'
      BY <3>3 DEF SignalsIn
    <3>5. Numbered(Tail(queue[u]), Len(ran[u]) + One(Head(queue[u])), given[u])
      BY <1>0, <2>1, <2>2, PopKeepsNumbers
    <3>6. Len(ran[u]) = given[u]
      <4>1. Len(ran[u]) + One(Head(queue[u])) = given[u]
        BY <2>1, <3>3, <3>5 DEF Numbered
      <4>2. One(Head(queue[u])) = 0
        BY <3>1 DEF One
      <4> QED  BY <2>1, <4>1, <4>2
    <3> QED  BY <2>1, <3>1, <3>4, <3>6
  <2> QED  BY <1>5, <2>3, <2>4
<1>6. ASSUME NEW t \in Threads, t # u, ThreadActs(t) \/ MainActs(t)
      PROVE  /\ queue'[u] = queue[u] /\ pc'[u] = pc[u]
             /\ ran'[u] = ran[u] /\ given'[u] = given[u]
  <2>1. CASE RequestAsync(t) \/ RequestSync(t) \/ PushSignal(t)
    <3>1. \E e \in Entry : Gets(t, e)
      BY <2>1, Pushes DEF Gets
    <3>2. pc'[u] = pc[u] /\ given'[u] = given[u]
      <4>1. \E place : pc' = [pc EXCEPT ![t] = place]
        BY <2>1, Pushes
      <4>2. given' = [given EXCEPT ![t] = @ + 1] \/ given' = given
        BY <2>1, Pushes
      <4>3. DOMAIN pc = Threads /\ DOMAIN given = Threads
        BY DEF TypeOK
      <4> QED  BY <1>6, <4>1, <4>2, <4>3
    <3> QED  BY <1>6, <3>1, <3>2 DEF Gets, TypeOK
  <2>2. CASE Moves(t) \/ WriteByte(t)
    BY <1>6, <2>2 DEF Moves, WriteByte, Goes, TypeOK
  <2>3. CASE Execute(t) \/ Begin(t) \/ Leave(t)
    BY <2>3 DEF Execute, Begin, Leave
  <2>4. CASE End(t)
    BY <1>6, <2>4, Pops, SMTT(30) DEF Loses, TypeOK
  <2>5. CASE Signal(t)
    <3>1. u \notin Waiting(t)
      BY <1>0, <1>6 DEF Waiting
    <3>2. Loses(t) /\ ran' = ran
      BY <2>5, Pops
    <3>3. queue'[u] = queue[u] /\ given' = given
      BY <1>6, <3>2 DEF Loses, TypeOK
    <3>4. pc'[u] = pc[u]
      <4>1. CASE UNCHANGED pc
        BY <4>1
      <4>2. ASSUME NEW v \in Waiting(t), pc' = [pc EXCEPT ![v] = "woken"]
            PROVE  pc'[u] = pc[u]
        BY <3>1, <4>2 DEF TypeOK
      <4> QED  BY <2>5, <4>1, <4>2, Pops
    <3> QED  BY <3>2, <3>3, <3>4
  <2> QED
    BY <1>6, <2>1, <2>2, <2>3, <2>4, <2>5, Moving DEF ThreadActs, MainActs
<1>7. Execute(u) \/ Begin(u) \/ Leave(u) => UNCHANGED <<queue, pc, ran, given>>
  BY DEF Execute, Begin, Leave
<1>8. ThreadActs(u) => \/ RequestAsync(u) \/ RequestSync(u) \/ PushSignal(u)
                       \/ Moves(u) \/ WriteByte(u)
  BY Moving DEF ThreadActs
<1> QED
  BY <1>1, <1>2, <1>3, <1>4, <1>5, <1>6, <1>7, <1>8, Cases, Attached DEF MainActs, vars

---------------------------------------------------------------------------
(* Signals against the threads that wait for one.  Nothing else relates the *)
(* queues of several threads; neither set need be finite by itself, so that *)
(* this is part of what is kept.                                            *)

Like(t) == {u \in Threads : Functor[u] = Functor[t]}

\* Of the threads with t's type: those that will have a signal of their own sent
\* and those whose is on its way; and the signals that lie in their queues.
Awaiting(p, t) == {u \in Like(t) : p[u] \in {"signalled", "ready", "wait"}}
Sent(q, t) == UNION {{u} \X {i \in DOMAIN q[u] : q[u][i].kind = "fsignal"} : u \in Like(t)}

Enough(p, q, t) ==
    /\ IsFiniteSet(Awaiting(p, t)) /\ IsFiniteSet(Sent(q, t))
    /\ Cardinality(Awaiting(p, t)) <= Cardinality(Sent(q, t))

SignalsEnough == attached => \A t \in Threads : Enough(pc, queue, t)

SignalAt(q, t, u, i) == u \in Like(t) /\ i \in DOMAIN q[u] /\ q[u][i].kind = "fsignal"

LEMMA SentIs ==
    ASSUME NEW q, NEW t
    PROVE  /\ \A u, i : <<u, i>> \in Sent(q, t) <=> SignalAt(q, t, u, i)
           /\ \A x \in Sent(q, t) : x = <<x[1], x[2]>> /\ SignalAt(q, t, x[1], x[2])
BY DEF Sent, SignalAt

LEMMA SameSignals ==
    ASSUME NEW q, NEW r, NEW t, \A u, i : SignalAt(r, t, u, i) <=> SignalAt(q, t, u, i)
    PROVE  Sent(r, t) = Sent(q, t)
<1>1. ASSUME NEW x \in Sent(r, t) PROVE x \in Sent(q, t)
  <2>1. x = <<x[1], x[2]>> /\ SignalAt(r, t, x[1], x[2])
    BY SentIs
  <2>2. SignalAt(q, t, x[1], x[2]) => <<x[1], x[2]>> \in Sent(q, t)
    BY SentIs
  <2> QED  BY <2>1, <2>2
<1>2. ASSUME NEW x \in Sent(q, t) PROVE x \in Sent(r, t)
  <2>1. x = <<x[1], x[2]>> /\ SignalAt(q, t, x[1], x[2])
    BY SentIs
  <2>2. SignalAt(r, t, x[1], x[2]) => <<x[1], x[2]>> \in Sent(r, t)
    BY SentIs
  <2> QED  BY <2>1, <2>2
<1> QED  BY <1>1, <1>2

Queues == [Threads -> Seq(Entry)]

Grows(q, r, v, e) == r = [q EXCEPT ![v] = Append(q[v], e)]
Shrinks(q, r, v)  == r = [q EXCEPT ![v] = Tail(q[v])]

\* A call given adds no signal (Request), a signal one to those of its type
\* (PushSignal).
LEMMA CallAddsNone ==
    ASSUME NEW q \in Queues, NEW v \in Threads, NEW t \in Threads, NEW e \in Entry,
           e.kind = "call",
           NEW r, Grows(q, r, v, e)
    PROVE  Sent(r, t) = Sent(q, t)
<1>1. \A u \in Threads : u # v => r[u] = q[u]
  BY DEF Queues, Grows
<1>2. /\ r[v] = Append(q[v], e) /\ q[v] \in Seq(Entry) /\ Len(q[v]) \in Nat
      /\ DOMAIN q[v] = 1 .. Len(q[v]) /\ DOMAIN r[v] = 1 .. Len(q[v]) + 1
      /\ \A i \in 1 .. Len(q[v]) : r[v][i] = q[v][i]
      /\ r[v][Len(q[v]) + 1] = e
  BY DEF Queues, Grows
<1>3. ASSUME NEW u \in Threads, NEW i
      PROVE  i \in DOMAIN r[u] /\ r[u][i].kind = "fsignal"
               <=> i \in DOMAIN q[u] /\ q[u][i].kind = "fsignal"
  <2>1. CASE u # v
    BY <1>1, <2>1
  <2>2. CASE u = v
    <3>1. CASE i \in 1 .. Len(q[v])
      BY <1>2, <2>2, <3>1
    <3>2. CASE i = Len(q[v]) + 1
      <4>1. ~(r[v][i].kind = "fsignal")
        BY <1>2, <3>2
      <4>2. i \notin DOMAIN q[v]
        BY <1>2, <3>2
      <4> QED  BY <2>2, <4>1, <4>2
    <3>3. CASE i \notin 1 .. Len(q[v]) + 1
      BY <1>2, <2>2, <3>3
    <3>4. i \in 1 .. Len(q[v]) + 1 => i \in 1 .. Len(q[v]) \/ i = Len(q[v]) + 1
      BY <1>2
    <3> QED  BY <3>1, <3>2, <3>3, <3>4
  <2> QED  BY <2>1, <2>2
<1>4. \A u, i : SignalAt(r, t, u, i) <=> SignalAt(q, t, u, i)
  BY <1>3 DEF Like, SignalAt
<1> QED  BY <1>4, SameSignals

LEMMA SignalAddsOne ==
    ASSUME NEW q \in Queues, NEW v \in Threads, NEW t \in Threads, v \in Like(t),
           NEW e \in Entry, e.kind = "fsignal",
           NEW r, Grows(q, r, v, e)
    PROVE  /\ Sent(r, t) = Sent(q, t) \cup {<<v, Len(q[v]) + 1>>}
           /\ <<v, Len(q[v]) + 1>> \notin Sent(q, t)
<1> DEFINE n == Len(q[v])
<1>1. \A u \in Threads : u # v => r[u] = q[u]
  BY DEF Queues, Grows
<1>2. /\ r[v] = Append(q[v], e) /\ q[v] \in Seq(Entry) /\ n \in Nat
      /\ DOMAIN q[v] = 1 .. n /\ DOMAIN r[v] = 1 .. n + 1
      /\ \A i \in 1 .. n : r[v][i] = q[v][i]
      /\ r[v][n + 1] = e
  BY DEF Queues, Grows
<1> HIDE DEF n
<1>3. n + 1 \notin DOMAIN q[v]
  BY <1>2
<1>4. ASSUME NEW u \in Threads, NEW i
      PROVE  i \in DOMAIN r[u] /\ r[u][i].kind = "fsignal"
               <=> \/ i \in DOMAIN q[u] /\ q[u][i].kind = "fsignal"
                   \/ u = v /\ i = n + 1
  <2>1. CASE u # v
    BY <1>1, <2>1
  <2>2. CASE u = v /\ i \in 1 .. n
    <3>1. i \in DOMAIN r[v] /\ i \in DOMAIN q[v] /\ r[v][i] = q[v][i] /\ i # n + 1
      BY <1>2, <2>2
    <3> QED  BY <2>2, <3>1
  <2>3. CASE u = v /\ i = n + 1
    <3>1. i \in DOMAIN r[v] /\ r[v][i].kind = "fsignal"
      BY <1>2, <2>3
    <3> QED  BY <2>3, <3>1
  <2>4. CASE u = v /\ i \notin 1 .. n + 1
    <3>1. i \notin DOMAIN r[v] /\ i \notin DOMAIN q[v] /\ i # n + 1
      BY <1>2, <2>4
    <3> QED  BY <2>4, <3>1
  <2>5. i \in 1 .. n + 1 <=> i \in 1 .. n \/ i = n + 1
    BY <1>2
  <2> QED  BY <2>1, <2>2, <2>3, <2>4, <2>5
<1>5. \A u, i : SignalAt(r, t, u, i) <=> SignalAt(q, t, u, i) \/ (u = v /\ i = n + 1)
  BY <1>4 DEF Like, SignalAt
<1>6. /\ \A x \in Sent(r, t) : x \in Sent(q, t) \/ x = <<v, n + 1>>
      /\ \A x \in Sent(q, t) : x \in Sent(r, t)
      /\ <<v, n + 1>> \in Sent(r, t)
  <2>1. ASSUME NEW x \in Sent(r, t) PROVE x \in Sent(q, t) \/ x = <<v, n + 1>>
    <3>1. x = <<x[1], x[2]>> /\ SignalAt(r, t, x[1], x[2])
      BY SentIs
    <3>2. SignalAt(q, t, x[1], x[2]) => <<x[1], x[2]>> \in Sent(q, t)
      BY SentIs
    <3> QED  BY <1>5, <3>1, <3>2
  <2>2. ASSUME NEW x \in Sent(q, t) PROVE x \in Sent(r, t)
    <3>1. x = <<x[1], x[2]>> /\ SignalAt(q, t, x[1], x[2])
      BY SentIs
    <3>2. SignalAt(r, t, x[1], x[2]) => <<x[1], x[2]>> \in Sent(r, t)
      BY SentIs
    <3> QED  BY <1>5, <3>1, <3>2
  <2>3. SignalAt(r, t, v, n + 1) /\ (SignalAt(r, t, v, n + 1) => <<v, n + 1>> \in Sent(r, t))
    BY <1>5, SentIs
  <2> QED  BY <2>1, <2>2, <2>3
<1>7. <<v, n + 1>> \notin Sent(q, t)
  BY <1>3, SentIs DEF SignalAt
<1> QED  BY <1>6, <1>7 DEF n

\* What is taken off is the signal at the head, if there is one; the others move up.
LEMMA PopTakesHead ==
    ASSUME NEW q \in Queues, NEW v \in Threads, NEW t \in Threads, q[v] # <<>>,
           NEW r, Shrinks(q, r, v), IsFiniteSet(Sent(q, t))
    PROVE  /\ IsFiniteSet(Sent(r, t))
           /\ Cardinality(Sent(r, t)) = Cardinality(Sent(q, t) \ {<<v, 1>>})
<1> DEFINE D == Sent(q, t) \ {<<v, 1>>}
           g == [x \in D |-> <<x[1], IF x[1] = v THEN x[2] - 1 ELSE x[2]>>]
<1>1. \A u \in Threads : u # v => r[u] = q[u]
  BY DEF Queues, Shrinks
<1>2. /\ r[v] = Tail(q[v]) /\ q[v] \in Seq(Entry) /\ Len(q[v]) \in Nat \ {0}
      /\ DOMAIN q[v] = 1 .. Len(q[v]) /\ DOMAIN r[v] = 1 .. Len(q[v]) - 1
      /\ \A i \in 1 .. Len(q[v]) - 1 : r[v][i] = q[v][i + 1]
  BY DEF Queues, Shrinks
<1>3. ASSUME NEW x \in D
      PROVE  g[x] \in Sent(r, t)
  <2>1. /\ x = <<x[1], x[2]>> /\ x[1] \in Like(t) /\ x[2] \in DOMAIN q[x[1]]
        /\ q[x[1]][x[2]].kind = "fsignal"
    BY SentIs DEF SignalAt
  <2>2. CASE x[1] # v
    <3>1. x[2] \in DOMAIN r[x[1]] /\ r[x[1]][x[2]].kind = "fsignal"
      BY <1>1, <2>1, <2>2 DEF Like
    <3> QED  BY <2>1, <2>2, <3>1, SentIs DEF SignalAt
  <2>3. CASE x[1] = v
    <3>1. x[2] # 1
      BY <2>1, <2>3
    <3>2. x[2] - 1 \in 1 .. Len(q[v]) - 1 /\ x[2] - 1 + 1 = x[2]
      BY <1>2, <2>1, <2>3, <3>1
    <3>3. x[2] - 1 \in DOMAIN r[v] /\ r[v][x[2] - 1].kind = "fsignal"
      BY <1>2, <2>1, <2>3, <3>2
    <3> QED  BY <2>1, <2>3, <3>3, SentIs DEF SignalAt
  <2> QED  BY <2>2, <2>3
<1>4. ASSUME NEW x \in D, NEW y \in D, g[x] = g[y]
      PROVE  x = y
  <2>1. /\ x = <<x[1], x[2]>> /\ x[2] \in DOMAIN q[x[1]]
        /\ y = <<y[1], y[2]>> /\ y[2] \in DOMAIN q[y[1]]
    BY SentIs DEF SignalAt
  <2>2. x[1] = y[1] /\ (IF x[1] = v THEN x[2] - 1 = y[2] - 1 ELSE x[2] = y[2])
    BY <1>4
  <2>3. x[1] = v => x[2] \in Nat /\ y[2] \in Nat
    BY <1>2, <2>1, <2>2
  <2>4. x[2] = y[2]
    BY <2>2, <2>3
  <2> QED  BY <2>1, <2>2, <2>4
<1>5. ASSUME NEW y \in Sent(r, t)
      PROVE  \E x \in D : g[x] = y
  <2>1. /\ y = <<y[1], y[2]>> /\ y[1] \in Like(t) /\ y[2] \in DOMAIN r[y[1]]
        /\ r[y[1]][y[2]].kind = "fsignal"
    BY SentIs DEF SignalAt
  <2>2. CASE y[1] # v
    <3>1. y[2] \in DOMAIN q[y[1]] /\ q[y[1]][y[2]].kind = "fsignal"
      BY <1>1, <2>1, <2>2 DEF Like
    <3>2. <<y[1], y[2]>> \in Sent(q, t)
      BY <2>1, <3>1, SentIs DEF SignalAt
    <3>3. y \in D
      BY <2>1, <2>2, <3>2
    <3>4. g[y] = y
      BY <2>1, <2>2, <3>3
    <3> QED  BY <3>3, <3>4
  <2>3. CASE y[1] = v
    <3>1. /\ y[2] \in 1 .. Len(q[v]) - 1 /\ y[2] + 1 \in DOMAIN q[v]
          /\ q[v][y[2] + 1].kind = "fsignal" /\ y[2] + 1 # 1
      <4> DEFINE k == y[2]
      <4>1. k \in 1 .. Len(q[v]) - 1 /\ r[v][k].kind = "fsignal"
        BY <1>2, <2>1, <2>3
      <4> HIDE DEF k
      <4>2. k + 1 \in 1 .. Len(q[v]) /\ k + 1 # 1 /\ r[v][k] = q[v][k + 1]
        BY <1>2, <4>1
      <4> QED  BY <1>2, <4>1, <4>2 DEF k
    <3>2. <<v, y[2] + 1>> \in Sent(q, t)
      BY <2>1, <2>3, <3>1, SentIs DEF SignalAt
    <3>3. <<v, y[2] + 1>> \in D
      BY <3>1, <3>2
    <3>4. g[<<v, y[2] + 1>>] = <<v, y[2] + 1 - 1>> /\ y[2] + 1 - 1 = y[2]
      BY <3>1, <3>3
    <3>5. g[<<v, y[2] + 1>>] = y
      BY <2>1, <2>3, <3>4
    <3> QED  BY <3>3, <3>5
  <2> QED  BY <2>2, <2>3
<1> HIDE DEF g
<1>6. g \in [D -> Sent(r, t)]
  BY <1>3 DEF g
<1> HIDE DEF D
<1>7. ExistsBijection(D, Sent(r, t))
  <2>1. g \in Surjection(D, Sent(r, t))
    BY <1>5, <1>6 DEF Surjection
  <2>2. g \in Injection(D, Sent(r, t))
    BY <1>4, <1>6 DEF Injection, IsInjective
  <2> QED  BY <2>1, <2>2 DEF ExistsBijection, Bijection
<1>8. IsFiniteSet(D)
  BY FS_RemoveElement DEF D
<1> QED  BY <1>7, <1>8, FS_Bijection DEF D

LEMMA OtherTypesKeep ==
    ASSUME NEW q, NEW r, NEW t, \A u \in Like(t) : r[u] = q[u]
    PROVE  Sent(r, t) = Sent(q, t)
<1>1. \A u, i : SignalAt(r, t, u, i) <=> SignalAt(q, t, u, i)
  BY DEF SignalAt
<1> QED  BY <1>1, SameSignals

\* A thread sends its signal and awaits one in the same step (PushSignal).
LEMMA SignalSent ==
    ASSUME TypeOK, NEW t \in Threads, Enough(pc, queue, t), NEW v \in Threads, PushSignal(v)
    PROVE  Enough(pc', queue', t)
<1> DEFINE e == [kind |-> "fsignal", no |-> given[v]]
<1>1. /\ e \in Entry /\ e.kind = "fsignal" /\ Grows(queue, queue', v, e)
      /\ pc[v] = "signal" /\ pc' = [pc EXCEPT ![v] = "signalled"]
      /\ queue \in Queues /\ pc \in [Threads -> Places]
  BY Pushes DEF Gets, TypeOK, Queues, Grows
<1> HIDE DEF e
<1>2. CASE v \in Like(t)
  <2> DEFINE x == <<v, Len(queue[v]) + 1>>
  <2>1. Sent(queue', t) = Sent(queue, t) \cup {x} /\ x \notin Sent(queue, t)
    BY <1>1, <1>2, SignalAddsOne
  <2>2. Awaiting(pc', t) = Awaiting(pc, t) \cup {v} /\ v \notin Awaiting(pc, t)
    BY <1>1, <1>2 DEF Awaiting, Like
  <2> HIDE DEF x
  <2>3. /\ IsFiniteSet(Awaiting(pc', t))
        /\ Cardinality(Awaiting(pc', t)) = Cardinality(Awaiting(pc, t)) + 1
    BY <2>2, FS_AddElement DEF Enough
  <2>4. /\ IsFiniteSet(Sent(queue', t))
        /\ Cardinality(Sent(queue', t)) = Cardinality(Sent(queue, t)) + 1
    BY <2>1, FS_AddElement DEF Enough
  <2>5. Cardinality(Awaiting(pc, t)) \in Nat /\ Cardinality(Sent(queue, t)) \in Nat
    BY FS_CardinalityType DEF Enough
  <2> QED  BY <2>3, <2>4, <2>5 DEF Enough
<1>3. CASE v \notin Like(t)
  <2>1. \A u \in Like(t) : queue'[u] = queue[u]
    BY <1>1, <1>3 DEF Queues, Like, Grows
  <2>2. Sent(queue', t) = Sent(queue, t)
    BY <2>1, OtherTypesKeep
  <2>3. Awaiting(pc', t) = Awaiting(pc, t)
    BY <1>1, <1>3 DEF Awaiting, Like
  <2> QED  BY <2>2, <2>3 DEF Enough
<1> QED  BY <1>2, <1>3

\* A signal that finds nobody waiting is one too many, because none of its type holds
\* the mutex: whoever awaits one is in pthread_cond_wait.
LEMMA SignalTaken ==
    ASSUME TypeOK, RunsTheHead, NEW t \in Threads, Enough(pc, queue, t),
           NEW v \in Threads, End(v) \/ Signal(v)
    PROVE  Enough(pc', queue', t)
<1>1. /\ Loses(v) /\ queue \in Queues /\ queue[v] # <<>>
      /\ Shrinks(queue, queue', v)
      /\ queue[v] \in Seq(Entry) /\ pc \in [Threads -> Places]
  BY Pops DEF Loses, TypeOK, Queues, Shrinks
<1>2. /\ IsFiniteSet(Sent(queue', t))
      /\ Cardinality(Sent(queue', t)) = Cardinality(Sent(queue, t) \ {<<v, 1>>})
  BY <1>1, PopTakesHead DEF Enough
<1>3. 1 \in DOMAIN queue[v] /\ queue[v][1] = Head(queue[v])
  BY <1>1, Popped
<1>4. CASE End(v)
  <2>1. pc' = pc /\ Head(queue[v]).kind = "call"
    BY <1>4, Pops
  <2>2. ~SignalAt(queue, t, v, 1)
    BY <1>3, <2>1 DEF SignalAt
  <2>3. <<v, 1>> \notin Sent(queue, t)
    BY <2>2, SentIs
  <2>4. Sent(queue, t) \ {<<v, 1>>} = Sent(queue, t)
    BY <2>3
  <2> QED  BY <1>2, <2>1, <2>4 DEF Enough
<1>5. CASE Signal(v)
  <2>1. /\ MFree(v) /\ Head(queue[v]).kind = "fsignal"
        /\ \/ UNCHANGED pc /\ Waiting(v) = {}
           \/ \E u \in Waiting(v) : pc' = [pc EXCEPT ![u] = "woken"]
    BY <1>5, Pops
  <2>2. CASE v \notin Like(t)
    <3>1. \A u \in Like(t) : queue'[u] = queue[u]
      BY <1>1, <2>2 DEF Queues, Like, Shrinks
    <3>2. Sent(queue', t) = Sent(queue, t)
      BY <3>1, OtherTypesKeep
    <3>3. Awaiting(pc', t) = Awaiting(pc, t)
      BY <1>1, <2>1, <2>2 DEF Awaiting, Like, Waiting
    <3> QED  BY <3>2, <3>3 DEF Enough
  <2>3. CASE v \in Like(t)
    <3>1. SignalAt(queue, t, v, 1)
      BY <1>3, <2>1, <2>3 DEF SignalAt
    <3>2. <<v, 1>> \in Sent(queue, t)
      BY <3>1, SentIs
    <3>3. /\ Cardinality(Sent(queue', t)) = Cardinality(Sent(queue, t)) - 1
          /\ Cardinality(Awaiting(pc, t)) \in Nat /\ Cardinality(Sent(queue', t)) \in Nat
          /\ Cardinality(Sent(queue, t)) \in Nat
      BY <1>2, <3>2, FS_RemoveElement, FS_CardinalityType DEF Enough
    <3>4. CASE UNCHANGED pc /\ Waiting(v) = {}
      <4>1. Awaiting(pc', t) = {}
        BY <2>1, <2>3, <3>4 DEF Awaiting, Like, Waiting, MFree, Holding
      <4>2. IsFiniteSet(Awaiting(pc', t)) /\ Cardinality(Awaiting(pc', t)) = 0
        BY <4>1, FS_EmptySet
      <4> QED  BY <1>2, <3>3, <4>2 DEF Enough
    <3>5. ASSUME NEW u \in Waiting(v), pc' = [pc EXCEPT ![u] = "woken"]
          PROVE  Enough(pc', queue', t)
      <4>1. Awaiting(pc', t) = Awaiting(pc, t) \ {u} /\ u \in Awaiting(pc, t)
        BY <1>1, <2>3, <3>5 DEF Awaiting, Like, Waiting
      <4>2. /\ IsFiniteSet(Awaiting(pc', t))
            /\ Cardinality(Awaiting(pc', t)) = Cardinality(Awaiting(pc, t)) - 1
        BY <4>1, FS_RemoveElement DEF Enough
      <4> QED  BY <1>2, <3>3, <4>2 DEF Enough
    <3> QED  BY <2>1, <3>4, <3>5
  <2> QED  BY <2>2, <2>3
<1> QED  BY <1>4, <1>5

LEMMA EnoughStep ==
    ASSUME TypeOK, RunsTheHead, SignalsEnough, [Next]_vars
    PROVE  SignalsEnough'
<1> SUFFICES ASSUME attached', NEW t \in Threads
             PROVE  Enough(pc', queue', t)
  BY DEF SignalsEnough
<1>1. CASE UNCHANGED <<pc, queue, attached>>
  BY <1>1 DEF SignalsEnough
<1>2. CASE Detach
  BY <1>2 DEF Detach
<1>3. ASSUME attached, NEW v \in Threads, ThreadActs(v)
      PROVE  Enough(pc', queue', t)
  <2>0. Enough(pc, queue, t)
    BY <1>3 DEF SignalsEnough
  <2>1. CASE RequestAsync(v) \/ RequestSync(v)
    <3> DEFINE e == [kind |-> "call", no |-> given[v] + 1]
    <3>1. /\ e \in Entry /\ e.kind = "call"
          /\ Grows(queue, queue', v, e)
          /\ pc[v] = "idle" /\ \E place \in {"async", "sync"} : pc' = [pc EXCEPT ![v] = place]
          /\ queue \in Queues /\ pc \in [Threads -> Places]
      BY <2>1, Pushes DEF Gets, TypeOK, Queues, Grows
    <3> HIDE DEF e
    <3>2. Sent(queue', t) = Sent(queue, t)
      BY <3>1, CallAddsNone
    <3>3. Awaiting(pc', t) = Awaiting(pc, t)
      BY <3>1 DEF Awaiting, Like
    <3> QED  BY <2>0, <3>2, <3>3 DEF Enough
  <2>2. CASE PushSignal(v)
    BY <2>0, <2>2, SignalSent
  <2>3. CASE Moves(v) \/ WriteByte(v)
    <3>1. queue' = queue
      BY <2>3 DEF Moves, WriteByte
    <3>2. Awaiting(pc', t) \subseteq Awaiting(pc, t)
      BY <2>3 DEF Moves, WriteByte, Pushed, Goes, Awaiting, Like, TypeOK
    <3>3. /\ IsFiniteSet(Awaiting(pc', t))
          /\ Cardinality(Awaiting(pc', t)) <= Cardinality(Awaiting(pc, t))
      BY <2>0, <3>2, FS_Subset DEF Enough
    <3>4. /\ Cardinality(Awaiting(pc', t)) \in Nat /\ Cardinality(Awaiting(pc, t)) \in Nat
          /\ Cardinality(Sent(queue, t)) \in Nat
      BY <2>0, <3>3, FS_CardinalityType DEF Enough
    <3> QED  BY <2>0, <3>1, <3>3, <3>4 DEF Enough
  <2> QED  BY <1>3, <2>1, <2>2, <2>3, Moving DEF ThreadActs
<1>4. ASSUME attached, NEW v \in Threads, MainActs(v)
      PROVE  Enough(pc', queue', t)
  <2>0. Enough(pc, queue, t)
    BY <1>4 DEF SignalsEnough
  <2>1. CASE End(v) \/ Signal(v)
    BY <2>0, <2>1, SignalTaken
  <2>2. CASE Execute(v) \/ Begin(v) \/ Leave(v)
    BY <2>0, <2>2 DEF Execute, Begin, Leave
  <2> QED  BY <1>4, <2>1, <2>2 DEF MainActs
<1> QED  BY <1>1, <1>2, <1>3, <1>4, Cases, Attached DEF vars

---------------------------------------------------------------------------
LEMMA Initially == Init => IInv
<1> SUFFICES ASSUME Init
             PROVE  IInv
  OBVIOUS
<1>1. TypeOK
  <2>1. /\ <<>> \in Seq(Entry) /\ <<>> \in Seq(Threads) /\ <<>> \in Seq(Nat)
        /\ Len(<<>>) = 0
    OBVIOUS
  <2> QED  BY <2>1, QRunnerAssumption DEF Init, TypeOK, Places
<1>2. BytesMatchEntries
  BY DEF Init, BytesMatchEntries, Pushed
<1>3. OneExecute /\ OutsideRests /\ RunsTheHead
  BY DEF Init, OneExecute, OutsideRests, RunsTheHead
<1>4. QueuesNumbered
  BY DEF Init, QueuesNumbered, Numbered
<1>5. SignalIsLast /\ SyncWaitsAlone
  BY DEF Init, SignalIsLast, SignalsIn, SyncWaitsAlone
<1> QED  BY <1>1, <1>2, <1>3, <1>4, <1>5 DEF IInv

\* The inductive invariant holds in every reachable state.
THEOREM QInvariance == Spec => []IInv
<1>1. IInv /\ [Next]_vars => IInv'
  BY TypeStep, BytesStep, StackStep, HeadStep, NumbersStep, SignalStep DEF IInv
<1> QED  BY <1>1, Initially, PTL DEF Spec

\* The state variables keep their types, and no queue outgrows its ring buffer,
\* for any number of threads, any types of calls and any capacity.
THEOREM QTypeCorrect == Spec => []TypeOK
<1>1. IInv => TypeOK
  BY DEF IInv
<1> QED  BY <1>1, QInvariance, PTL

\* The bytes of a pipe always match the entries of its queue (request, execute).
THEOREM BytesAlwaysMatch == Spec => []BytesMatchEntries
<1>1. IInv => BytesMatchEntries
  BY DEF IInv
<1> QED  BY <1>1, QInvariance, PTL

\* request_sync returns after its call, if no other thread makes calls of the same
\* type and the wait has no spurious wakeup.
THEOREM SyncWaitsWhenAlone == Spec => []SyncWaitsAlone
<1>1. IInv => SyncWaitsAlone
  BY DEF IInv
<1> QED  BY <1>1, QInvariance, PTL

\* There is a signal on its way for every thread of a type that awaits one, whichever
\* thread's it is: a thread that is not released by its own is released by another's
\* (request_sync, fsignal).
THEOREM SignalsAlwaysSuffice == Spec => []SignalsSuffice
<1>1. Init => SignalsEnough
  <2> SUFFICES ASSUME Init, NEW t \in Threads
               PROVE  Enough(pc, queue, t)
    BY DEF SignalsEnough
  <2>1. \A u \in Threads : pc[u] = "idle" /\ queue[u] = <<>>
    BY DEF Init
  <2>2. Awaiting(pc, t) = {}
    BY <2>1 DEF Awaiting, Like
  <2>3. Sent(queue, t) = {}
    BY <2>1 DEF Sent, Like
  <2> QED  BY <2>2, <2>3, FS_EmptySet DEF Enough
<1>2. IInv /\ SignalsEnough /\ [Next]_vars => SignalsEnough'
  BY EnoughStep DEF IInv
<1>3. SignalsEnough => SignalsSuffice
  BY DEF SignalsEnough, SignalsSuffice, Enough, Awaiting, Sent, Like, SignalsIn
<1> QED  BY <1>1, <1>2, <1>3, QInvariance, PTL DEF Spec

---------------------------------------------------------------------------
(* Refinement *)

LEMMA StepRefines ==
    ASSUME TypeOK, RunsTheHead, QueuesNumbered, [Next]_vars
    PROVE  [Queue!CNext]_<<given, ran>>
<1>1. ASSUME NEW t \in Threads, RequestAsync(t) \/ RequestSync(t)
      PROVE  Queue!CNext
  <2>1. given' = [given EXCEPT ![t] = @ + 1] /\ ran' = ran
    BY <1>1, Pushes DEF Gets
  <2> QED  BY <2>1 DEF Queue!CNext, Queue!Give
<1>2. ASSUME NEW t \in Threads, attached, End(t)
      PROVE  Queue!CNext
  <2>1. /\ Loses(t) /\ Head(queue[t]).kind = "call"
        /\ ran' = [ran EXCEPT ![t] = Append(ran[t], Head(queue[t]).no)]
    BY <1>2, Pops
  <2>2. /\ queue[t] # <<>> /\ queue[t] \in Seq(Entry) /\ given' = given
        /\ given[t] \in Nat /\ Len(ran[t]) \in Nat
        /\ Numbered(queue[t], Len(ran[t]), given[t])
    BY <1>2, <2>1 DEF Loses, TypeOK, QueuesNumbered
  <2>3. Head(queue[t]) = queue[t][1] /\ 1 \in 1 .. Len(queue[t])
    BY <2>2, Popped
  <2>4. Head(queue[t]).no = Len(ran[t]) + 1
    BY <2>1, <2>2, <2>3 DEF Numbered, One
  <2>5. Len(ran[t]) < given[t]
    BY <2>2, <2>3, <2>4 DEF Numbered
  <2>6. Queue!Run(t)
    BY <2>1, <2>2, <2>4, <2>5 DEF Queue!Run
  <2> QED  BY <2>6 DEF Queue!CNext
<1>3. ASSUME NEW t \in Threads, ThreadActs(t)
      PROVE  RequestAsync(t) \/ RequestSync(t) \/ UNCHANGED <<given, ran>>
  BY <1>3, Moving DEF ThreadActs, Moves, WriteByte, PushSignal
<1>4. ASSUME NEW t \in Threads, MainActs(t)
      PROVE  End(t) \/ UNCHANGED <<given, ran>>
  BY <1>4 DEF MainActs, Execute, Begin, Signal, Leave
<1>5. Detach => UNCHANGED <<given, ran>>
  BY DEF Detach
<1>6. (UNCHANGED vars) => UNCHANGED <<given, ran>>
  BY DEF vars
<1> QED
  BY <1>1, <1>2, <1>3, <1>4, <1>5, <1>6, Cases, Attached DEF Detach

\* The queues implement CallQueue: whatever the threads do and however the main
\* loops are nested, the calls of a thread run once each and in order.
THEOREM CallsRunInOrder == Spec => ImplementsCallQueue
<1>1. Init => Queue!CInit
  BY DEF Init, Queue!CInit
<1>2. IInv /\ [Next]_vars => [Queue!CNext]_<<given, ran>>
  BY StepRefines DEF IInv
<1> QED
  BY <1>1, <1>2, QInvariance, PTL DEF Spec, ImplementsCallQueue, Queue!CSpec
=============================================================================
