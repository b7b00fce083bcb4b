------------------------------ MODULE ArqLink ------------------------------
(***************************************************************************)
(* Two flarq stations and the radio channel between them.  Each station    *)
(* runs arqloop as an FLTK timeout callback and hears the other's frames   *)
(* through fldigi; a frame may be lost (fading, a collision, a failed      *)
(* CRC), frames are never reordered.  Users act at any moment.             *)
(***************************************************************************)
EXTENDS ArqStation

CONSTANTS
    Timely,     \* TRUE: nobody transmits into a burst it hears, and the timers
                \* outlast an answer (TxDelay, RetryTime, Timeout well chosen)
    SendsIn,    \* SendsIn[s]: the link states in which user s may send text; the
                \* Send menu is active from the first CONNECTED on, in any state
    Budget,     \* bound: how often users, the channel and the timers act
    Unlimited,  \* those that happen without a bound
    MaxAir      \* bound: frames of one station in flight

Stations == {"A", "B"}
Peer(s)  == IF s = "A" THEN "B" ELSE "A"

Outside == {"lose", "connect", "disconnect", "abort", "beacon", "talk", "restart",
            "retry", "timeout"}

ASSUME LinkAssumption ==
    /\ Timely \in BOOLEAN
    /\ SendsIn \in [Stations -> SUBSET LinkStates]
    /\ Budget \in [Outside -> Nat]
    /\ Unlimited \subseteq Outside
    /\ MaxAir \in Nat /\ MaxAir >= MaxHeaders + 2

VARIABLES
    st,         \* st[s]: the fields of station s
    left        \* left[e]: how often e may still happen

vars == <<st, left>>

Init ==
    /\ st = [s \in Stations |-> NewStation]
    /\ left = Budget

TypeOK ==
    /\ st \in [Stations -> Station]
    /\ left \in [Outside -> Nat]

---------------------------------------------------------------------------
Spend(e) ==
    IF e \in Unlimited
    THEN UNCHANGED left
    ELSE left[e] > 0 /\ left' = [left EXCEPT ![e] = @ - 1]

\* Nothing of the other's burst is still to come in: TxDelay after the last
\* character heard, the loop may key the transmitter.
HoldOff(s) == Timely => st[Peer(s)].air = <<>>

\* Both stations have said what they had to say.
Quiet == \A s \in Stations :
            /\ st[s].air = <<>>
            /\ st[s].hung \/ (~st[s].Sending /\ ~st[s].immediate)

---------------------------------------------------------------------------
(* The channel, external: fldigi and the radio *)

\* The next frame arrives whole.
Receive(s) ==
    LET p == Peer(s)
    IN  /\ st[p].air # <<>>
        /\ ~st[s].hung
        /\ st' = [st EXCEPT ![p].air = Tail(@),
                            ![s] = ParseFrame(@, Head(st[p].air))]
        /\ UNCHANGED left

\* The next frame is not understood, or nobody is there to hear it.
Lose(s) ==
    /\ st[s].air # <<>>
    /\ IF st[Peer(s)].hung THEN UNCHANGED left ELSE Spend("lose")
    /\ st' = [st EXCEPT ![s].air = Tail(@)]

\* fldigi has sent the burst and says so (character 0x06).
TxDone(s) ==
    /\ st[s].Sending /\ ~st[s].hung
    /\ Timely => st[s].air = <<>>
    /\ st' = [st EXCEPT ![s].Sending = FALSE]
    /\ UNCHANGED left

---------------------------------------------------------------------------
(* The loop of station s *)

Loops(s, event) ==
    /\ ~st[s].hung
    /\ Len(st[s].air) + MaxHeaders + 2 <= MaxAir
    /\ st' = [st EXCEPT ![s] = ArqLoop(@, event)]

LoopIdle(s) ==
    /\ HoldOff(s)
    /\ Loops(s, "idle")
    /\ UNCHANGED left

LoopRetry(s) ==
    /\ st[s].LinkState \in {WAITING, WAITFORACK, DISCONNECTING, ABORTING}
    /\ ~st[s].Sending /\ ~st[s].immediate
    /\ Timely => Quiet
    /\ Loops(s, "retry")
    /\ Spend("retry")

LoopTimeout(s) ==
    /\ ~st[s].Sending /\ ~st[s].immediate
    /\ Timely => Quiet
    /\ Loops(s, "timeout")
    /\ Spend("timeout")

---------------------------------------------------------------------------
(* The user of station s *)

Does(s, after) == ~st[s].hung /\ st' = [st EXCEPT ![s] = after]

UserConnect(s) == OffersConnect(st[s]) /\ Does(s, Connect(st[s])) /\ Spend("connect")

UserDisconnect(s) == ~OffersConnect(st[s]) /\ Does(s, Disconnect(st[s])) /\ Spend("disconnect")

UserAbort(s) == ~OffersConnect(st[s]) /\ Does(s, Abort(st[s])) /\ Spend("abort")

UserBeacon(s) ==
    /\ ~st[s].Sending /\ st[s].LinkState \in {DOWN, TIMEDOUT}
    /\ Does(s, Beacon(st[s]))
    /\ Spend("beacon")

UserTalk(s) ==
    /\ Len(st[s].TxTextQueue) < MaxHeaders
    /\ Does(s, Send(st[s], "TALK"))
    /\ Spend("talk")

UserRestart(s) == Does(s, [st[s] EXCEPT !.arqstop = TRUE]) /\ Spend("restart")

UserSendText(s) ==
    \E n \in 1 .. MaxText - st[s].queued :
        /\ st[s].LinkState \in SendsIn[s]
        /\ Does(s, SendText(st[s], n))
        /\ UNCHANGED left

---------------------------------------------------------------------------
StationStep(s) ==
    \/ Receive(s) \/ Lose(s) \/ TxDone(s)
    \/ LoopIdle(s) \/ LoopRetry(s) \/ LoopTimeout(s)
    \/ UserConnect(s) \/ UserDisconnect(s) \/ UserAbort(s) \/ UserBeacon(s)
    \/ UserTalk(s) \/ UserRestart(s) \/ UserSendText(s)

Next == \E s \in Stations : StationStep(s)

Spec == Init /\ [][Next]_vars

---------------------------------------------------------------------------
(* Fairness.  arqloop runs every 100 ms: a turn that can do something comes, *)
(* and retrytime, which only 0x06 sets back, runs out while the link waits.  *)
(* fldigi ends each burst, and a frame sent arrives or is lost.  Users owe   *)
(* nothing.                                                                  *)
Fairness ==
    \A s \in Stations :
        /\ WF_vars(Receive(s) \/ Lose(s))
        /\ WF_vars(TxDone(s))
        /\ WF_vars(LoopIdle(s))
        /\ WF_vars(LoopRetry(s))

FairSpec == Spec /\ Fairness

\* timeout, counted down in each turn, runs out as well on an idle link.
IdleSpec == FairSpec /\ \A s \in Stations : WF_vars(LoopTimeout(s))

---------------------------------------------------------------------------
(* Safety *)

Texts(blocks) == {b.text : b \in blocks}

InSession(s) == st[s].LinkState \in {ARQ_CONNECTED, WAITING}

\* The texts of s its peer has, and those s will still send.
Held(s)         == st[Peer(s)].printed \cup Texts(st[Peer(s)].RxPending)
StillSending(s) == Texts(Elements(st[s].TxBlocks)) \cup Texts(st[s].TxMissing)

\* The texts of s whose block number is n, when one session has carried all.
Numbered(s, n) == {t \in 1 .. st[s].queued : (t - 1) % MaxCount = n}

\* Refuted when one side alone has timed out, and in no configuration (the fields
\* of OneTimeout show it): what parseDATA appends to RxTextQueue is the other user's text without a
\* gap, a repetition or a change of order (parseDATA, sendblocks).
InOrder ==
    \A s \in Stations :
        LET q == st[s].RxTextQueue
        IN  \A i \in 1 .. Len(q) - 1 : q[i + 1] = q[i] + 1

\* A block that waits in RxPending ("not consecutive") was not delivered
\* before: no repeat of an old block is ever taken for a new one (parseDATA).
NoStalePending ==
    \A s \in Stations : Texts(st[s].RxPending) \cap Elements(st[s].RxTextQueue) = {}

\* A block the sender has crossed off TxMissing is with the receiver, so that
\* every lost block is repeated (parseSTATUS). Block number 0 is left out: see
\* ZeroIsRepeated.
LossIsRepeated ==
    \A s \in Stations : InSession(s) =>
        \A n \in Nbr \ {0} : Numbered(s, n) \subseteq StillSending(s) \cup Held(s)

\* The same of block number 0, which parseSTATUS fails to list as missing.
ZeroIsRepeated ==
    \A s \in Stations : InSession(s) => Numbered(s, 0) \subseteq StillSending(s) \cup Held(s)

\* Refuted, and in no configuration: no text is handed to the receiving user a
\* second time (printRX).  The retry of WAITFORACK resets a receiver.
PrintedOnce == \A s \in Stations : st[s].reprinted = {}

\* The blocks awaiting a report fit one burst, so that a repeat never exceeds
\* maxheaders (sendblocks, parseSTATUS).
BurstFits == \A s \in Stations : FitsBurst(st[s])

\* A text the user gave to sendText is queued or waits for its report, never
\* both, never twice, and no text overtakes an earlier one (sendText,
\* sendblocks).
EachTextOnce == \A s \in Stations : TextsInLine(st[s])

\* While blocks wait for their predecessors the report asks for the one that
\* delivery needs next, and for none that is already there (parseDATA).
AsksForNext == \A s \in Stations : AsksNext(st[s])

\* The queued blocks carry the numbers that follow the last one sent: what is
\* cleared at the end of a session leaves no hole in the next one's numbers.
NumbersFollow ==
    \A s \in Stations :
        LET x == st[s]
        IN  \A k \in 1 .. Len(x.TxBlocks) :
                x.TxBlocks[k].nbr = (x.LastHeader + k) % MaxCount

---------------------------------------------------------------------------
(* Action properties *)

\* A station that is down or timed out never starts to send blocks of text: the
\* lists were cleared on the way down (arqloop, default of the switch).  It does
\* answer an IDENT with a STATUS (parseIDENT), and may send a beacon.
DownStartsNoBurst ==
    [][\A s \in Stations :
        st[s].LinkState \in {DOWN, TIMEDOUT} => st'[s].LinkState # WAITING]_vars

---------------------------------------------------------------------------
(* The abstract transfer each direction of the link is checked against *)

Transfer == INSTANCE ArqTransfer WITH
    User    <- Stations,
    Other   <- Peer,
    Limit   <- MaxText,
    offered <- [s \in Stations |-> st[s].queued],
    taken   <- [s \in Stations |-> st[s].RxTextQueue]

\* Each direction of the link is a transfer: the texts arrive complete, in
\* order and once per session (parseDATA, parseSTATUS and sendblocks together).
ImplementsTransfer == Transfer!TSpec

---------------------------------------------------------------------------
(* Liveness *)

Expecting == {WAITING, WAITFORACK, DISCONNECTING, ABORTING}

\* A station that waits for an answer stops waiting: it comes, or the retries
\* run out (arqloop).
NoEndlessWait ==
    \A s \in Stations :
        st[s].LinkState \in Expecting ~> st[s].hung \/ st[s].LinkState \notin Expecting

\* Refuted under IdleSpec, and in no configuration: the connecting station repeats
\* IDENT to a station that has gone down only so often, and then times out (arqloop).
DeadLinkTimesOut ==
    \A s \in Stations :
        InSession(s) /\ st[Peer(s)].LinkState = DOWN
            ~> ~(InSession(s) /\ st[Peer(s)].LinkState = DOWN)
=============================================================================
