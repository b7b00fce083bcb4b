------------------------------ MODULE QRunner ------------------------------
(***************************************************************************)
(* How the threads of fldigi have calls run by the main thread: one queue  *)
(* per thread (cbq[tid]), a pipe with one byte per entry that wakes the    *)
(* main loop, request_sync, which waits on a condition variable, and       *)
(* execute, which a called function may enter again through a nested loop. *)
(***************************************************************************)
EXTENDS Naturals, Sequences, FiniteSets

CONSTANTS
    Threads,    \* the threads other than the main one
    Functor,    \* Functor[t]: the C++ type of the calls of t; the mutex and the
                \* condition variable of request_sync exist once per type
    Capacity,   \* entries a queue has room for (FIFO_SIZE)
    Calls,      \* bound: Calls[t], the calls t makes
    Spurious    \* the threads whose pthread_cond_wait may return without a signal

ASSUME QRunnerAssumption ==
    /\ Capacity \in Nat \ {0}
    /\ Calls \in [Threads -> Nat]
    /\ Spurious \subseteq Threads

VARIABLES
    queue,      \* queue[t]: the entries in t's ring buffer
    bytes,      \* bytes[t]: bytes in t's pipe
    pc,         \* pc[t]: where in request or request_sync t is
    given,      \* given[t]: calls of t that found room, numbered from 1
    made,       \* made[t]: calls of t, with those refused
    ran,        \* ran[t]: the numbers of the calls of t that have run
    stack,      \* the queues whose execute the main thread is in, innermost last
    left,       \* left[t]: entries execute has still to run for the bytes it read
    inside,     \* inside[t]: the entry at the head of t's queue is being run
    attached    \* the queues exist and the main loop watches their pipes

vars == <<queue, bytes, pc, given, made, ran, stack, left, inside, attached>>

\* async: pushed, the byte not written.  sync: the same in request_sync.
\* lock: before pthread_mutex_lock.  signal: m held, fsignal to be pushed.
\* signalled: m held, fsignal pushed, its byte not written.  ready: m held, the
\* byte written.  wait: in pthread_cond_wait.  woken: to take m again and return.
Places == {"idle", "async", "sync", "lock", "signal", "signalled", "ready", "wait", "woken"}

Entry == [kind : {"call", "fsignal"}, no : Nat]

Pushed == {"async", "sync", "signalled"}

TypeOK ==
    /\ queue \in [Threads -> Seq(Entry)]
    /\ bytes \in [Threads -> Nat]
    /\ pc \in [Threads -> Places]
    /\ given \in [Threads -> Nat]
    /\ made \in [Threads -> Nat]
    /\ ran \in [Threads -> Seq(Nat)]
    /\ stack \in Seq(Threads)
    /\ left \in [Threads -> Nat]
    /\ inside \in [Threads -> BOOLEAN]
    /\ attached \in BOOLEAN
    /\ \A t \in Threads : Len(queue[t]) <= Capacity

Init ==
    /\ queue = [t \in Threads |-> <<>>]
    /\ bytes = [t \in Threads |-> 0]
    /\ pc = [t \in Threads |-> "idle"]
    /\ given = [t \in Threads |-> 0]
    /\ made = [t \in Threads |-> 0]
    /\ ran = [t \in Threads |-> <<>>]
    /\ stack = <<>>
    /\ left = [t \in Threads |-> 0]
    /\ inside = [t \in Threads |-> FALSE]
    /\ attached = TRUE

---------------------------------------------------------------------------
(* A thread *)

HasRoom(t) == Len(queue[t]) < Capacity

\* request holds a mutex of its own, one per type, from the push to the byte.
RequestFree(t, places) ==
    \A u \in Threads : Functor[u] = Functor[t] => pc[u] \notin places

\* Slip: the mutex is released for the push.
HoldingNothing == {}

\* Nobody holds the mutex m of request_sync for the type of t.
Holding == {"signal", "signalled", "ready"}
MFree(t) == \A u \in Threads : Functor[u] = Functor[t] => pc[u] \notin Holding

\* Slip: a full ring buffer is not noticed.
PushUnchecked(t, kind, no) ==
    queue' = [queue EXCEPT ![t] = Append(@, [kind |-> kind, no |-> no])]

Push(t, kind, no) ==
    /\ HasRoom(t)
    /\ queue' = [queue EXCEPT ![t] = Append(@, [kind |-> kind, no |-> no])]

Goes(t, place) == pc' = [pc EXCEPT ![t] = place]

\* request: the entry first, then the byte.  REQ ignores that there was no room.
Request(t, place) ==
    /\ attached
    /\ pc[t] = "idle" /\ made[t] < Calls[t]
    /\ RequestFree(t, {"async", "sync"})
    /\ Push(t, "call", given[t] + 1)
    /\ given' = [given EXCEPT ![t] = @ + 1]
    /\ made' = [made EXCEPT ![t] = @ + 1]
    /\ Goes(t, place)
    /\ UNCHANGED <<bytes, ran, stack, left, inside, attached>>

RequestAsync(t) == Request(t, "async")

RequestRefused(t) ==
    /\ attached
    /\ pc[t] = "idle" /\ made[t] < Calls[t]
    /\ ~HasRoom(t)
    /\ made' = [made EXCEPT ![t] = @ + 1]
    /\ UNCHANGED <<queue, bytes, pc, given, ran, stack, left, inside, attached>>

\* request_sync retries until there is room.
RequestSync(t) == Request(t, "sync")

WriteByte(t) ==
    /\ pc[t] \in Pushed
    /\ bytes' = [bytes EXCEPT ![t] = @ + 1]
    /\ Goes(t, CASE pc[t] = "async" -> "idle"
                 [] pc[t] = "sync" -> "lock"
                 [] OTHER -> "ready")
    /\ UNCHANGED <<queue, given, made, ran, stack, left, inside, attached>>

LockM(t) ==
    /\ pc[t] = "lock" /\ MFree(t)
    /\ Goes(t, "signal")
    /\ UNCHANGED <<queue, bytes, given, made, ran, stack, left, inside, attached>>

PushSignal(t) ==
    /\ pc[t] = "signal"
    /\ \A u \in Threads : pc[u] # "signalled"
    /\ Push(t, "fsignal", given[t])
    /\ Goes(t, "signalled")
    /\ UNCHANGED <<bytes, given, made, ran, stack, left, inside, attached>>

\* pthread_cond_wait gives m up and waits, once and without a condition to test.
Wait(t) ==
    /\ pc[t] = "ready"
    /\ Goes(t, "wait")
    /\ UNCHANGED <<queue, bytes, given, made, ran, stack, left, inside, attached>>

SpuriousWakeup(t) ==
    /\ attached
    /\ t \in Spurious
    /\ pc[t] = "wait"
    /\ Goes(t, "woken")
    /\ UNCHANGED <<queue, bytes, given, made, ran, stack, left, inside, attached>>

Return(t) ==
    /\ pc[t] = "woken" /\ MFree(t)
    /\ Goes(t, "idle")
    /\ UNCHANGED <<queue, bytes, given, made, ran, stack, left, inside, attached>>

---------------------------------------------------------------------------
(* The main thread *)

Top == stack[Len(stack)]

\* In the main loop, or in the loop of a function it is running.
InLoop == stack # <<>> => inside[Top]

inprog(t) == \E i \in DOMAIN stack : stack[i] = t

\* Slip: execute runs all entries it finds, not one per byte read.
ExecuteAll(t) ==
    /\ InLoop
    /\ ~inprog(t)
    /\ bytes[t] > 0
    /\ bytes' = [bytes EXCEPT ![t] = 0]
    /\ left' = [left EXCEPT ![t] = Len(queue[t])]
    /\ stack' = Append(stack, t)
    /\ UNCHANGED <<queue, pc, given, made, ran, inside, attached>>

\* Slip: all bytes are read, but one entry is run.
ExecuteOne(t) ==
    /\ InLoop
    /\ ~inprog(t)
    /\ bytes[t] > 0
    /\ bytes' = [bytes EXCEPT ![t] = 0]
    /\ left' = [left EXCEPT ![t] = 1]
    /\ stack' = Append(stack, t)
    /\ UNCHANGED <<queue, pc, given, made, ran, inside, attached>>

\* execute reads all bytes of the pipe; within itself it returns at once.
Execute(t) ==
    /\ InLoop
    /\ ~inprog(t)
    /\ bytes[t] > 0
    /\ bytes' = [bytes EXCEPT ![t] = 0]
    /\ left' = [left EXCEPT ![t] = bytes[t]]
    /\ stack' = Append(stack, t)
    /\ UNCHANGED <<queue, pc, given, made, ran, inside, attached>>

\* The head of queue t is next.
Next1(t, kind) ==
    /\ stack # <<>> /\ Top = t
    /\ left[t] > 0 /\ ~inside[t]
    /\ queue[t] # <<>> /\ Head(queue[t]).kind = kind

Begin(t) ==
    /\ Next1(t, "call")
    /\ inside' = [inside EXCEPT ![t] = TRUE]
    /\ UNCHANGED <<queue, bytes, pc, given, made, ran, stack, left, attached>>

\* Slip: the newest entry is taken off instead of the oldest.
PopNewest(t) ==
    /\ queue' = [queue EXCEPT ![t] = SubSeq(@, 1, Len(@) - 1)]
    /\ left' = [left EXCEPT ![t] = @ - 1]

\* pop frees the slot after the function has run.
Pop(t) ==
    /\ queue' = [queue EXCEPT ![t] = Tail(@)]
    /\ left' = [left EXCEPT ![t] = @ - 1]

End(t) ==
    /\ stack # <<>> /\ Top = t /\ inside[t]
    /\ Pop(t)
    /\ ran' = [ran EXCEPT ![t] = Append(@, Head(queue[t]).no)]
    /\ inside' = [inside EXCEPT ![t] = FALSE]
    /\ UNCHANGED <<bytes, pc, given, made, stack, attached>>

\* Slip: one condition variable for the calls of all types.
WaitingOfAnyType(t) == {u \in Threads : pc[u] = "wait"}

\* fsignal: takes the mutex m, so it waits for a thread that holds it; wakes one
\* of those that wait, whoever it is.
Waiting(t) == {u \in Threads : Functor[u] = Functor[t] /\ pc[u] = "wait"}

Signal(t) ==
    /\ Next1(t, "fsignal")
    /\ MFree(t)
    /\ Pop(t)
    /\ IF Waiting(t) = {}
       THEN UNCHANGED pc
       ELSE \E u \in Waiting(t) : Goes(u, "woken")
    /\ UNCHANGED <<bytes, given, made, ran, stack, inside, attached>>

Leave(t) ==
    /\ stack # <<>> /\ Top = t
    /\ left[t] = 0
    /\ stack' = SubSeq(stack, 1, Len(stack) - 1)
    /\ UNCHANGED <<queue, bytes, pc, given, made, ran, left, inside, attached>>

\* exit_process: every queue is detached and deleted with what is in it; a thread
\* that is in a request then is not waited for.
Detach ==
    /\ attached /\ stack = <<>>
    /\ attached' = FALSE
    /\ queue' = [t \in Threads |-> <<>>]
    /\ bytes' = [t \in Threads |-> 0]
    /\ UNCHANGED <<pc, given, made, ran, stack, left, inside>>

---------------------------------------------------------------------------
\* What a thread goes on with by itself once it has begun.
ThreadStep(t) ==
    /\ attached
    /\ WriteByte(t) \/ LockM(t) \/ PushSignal(t) \/ Wait(t) \/ Return(t)

MainStep(t) ==
    /\ attached
    /\ Execute(t) \/ Begin(t) \/ End(t) \/ Signal(t) \/ Leave(t)

Next ==
    \/ \E t \in Threads :
        \/ RequestAsync(t) \/ RequestRefused(t) \/ RequestSync(t)
        \/ SpuriousWakeup(t)
        \/ ThreadStep(t) \/ MainStep(t)
    \/ Detach

Fairness == \A t \in Threads : WF_vars(ThreadStep(t)) /\ WF_vars(MainStep(t))

Spec == Init /\ [][Next]_vars /\ Fairness

---------------------------------------------------------------------------
(* Properties *)

\* Each entry of a queue has its byte: in the pipe, read by execute and not used
\* up, or about to be written.  Without it an entry would lie there unseen, or
\* execute would run an entry that is not there (request, execute).
BytesMatchEntries ==
    attached => \A t \in Threads :
        Len(queue[t]) = bytes[t] + left[t] + (IF pc[t] \in Pushed THEN 1 ELSE 0)

\* A call of request_sync that has its condition variable to itself returns only
\* when the call has run: its own fsignal stands behind the call.
Alone(t) == \A u \in Threads : Functor[u] = Functor[t] => u = t

SyncWaitsAlone ==
    \A t \in Threads :
        Alone(t) /\ t \notin Spurious /\ pc[t] = "woken" => Len(ran[t]) = given[t]

\* Refuted, and in no configuration: request_sync as its callers take it, who say
\* "Returns old name" (xmlrpc.cxx, the help of modem.set_by_name): when it returns,
\* the call has run.  Two callers with one type of call take each other's signals.
SyncWaits == \A t \in Threads : pc[t] = "woken" => Len(ran[t]) = given[t]

\* There are never fewer signals on their way than threads that wait for one:
\* a signal that released somebody else is made up for by that one's own, and
\* none is sent before its thread waits (the mutex m held across the push).
SignalsIn(t) == {i \in DOMAIN queue[t] : queue[t][i].kind = "fsignal"}

SignalsSuffice ==
    attached => \A t \in Threads :
        LET same == {u \in Threads : Functor[u] = Functor[t]}
        IN  Cardinality({u \in same : pc[u] \in {"signalled", "ready", "wait"}})
              <= Cardinality(UNION {{u} \X SignalsIn(u) : u \in same})

\* The main thread runs an fsignal whose mutex is held by a thread that waits for
\* room in its own queue: neither goes on.
Jammed ==
    \E t, u \in Threads :
        /\ Functor[u] = Functor[t]
        /\ Next1(t, "fsignal")
        /\ pc[u] = "signal" /\ ~HasRoom(u)

\* Every request_sync returns, also those whose signal another thread has used
\* up, unless a full queue jams the main thread or the queues are detached.
SyncReturns ==
    \A t \in Threads :
        pc[t] \notin {"idle", "async"} ~> pc[t] = "idle" \/ Jammed \/ ~attached

\* Every call that found room is run in the end, also one that arrives while execute
\* drains its queue, or runs one of its functions, or is in the loop of another: a
\* pipe is read empty before the entries are run and wakes the main loop only for
\* what is written after that (request, execute).
CallsRun ==
    \A t \in Threads :
        Len(ran[t]) < given[t] ~> Len(ran[t]) = given[t] \/ Jammed \/ ~attached

\* The queues implement CallQueue: calls run once each, in order.
Queue == INSTANCE CallQueue
ImplementsCallQueue == Queue!CSpec
=============================================================================
