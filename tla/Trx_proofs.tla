----------------------------- MODULE Trx_proofs -----------------------------
(***************************************************************************)
(* Proofs about Trx for any set of modes, any rates and any number of      *)
(* modems and orders: what each part of the program finds when another has *)
(* written trx_state or new_modem in between.                              *)
(***************************************************************************)
EXTENDS Trx, TLAPS

\* Where the main thread is between picking a modem and ordering it.
Naming   == {"name", "nameWait", "nameSettle"}
Ordering == {"order", "orderWait", "orderSettle"}

\* Whoever sends, tunes or receives has a modem to do it with, and so has whoever
\* may still order it.
HasModem ==
    \/ active_modem # NoModem
    \/ /\ trx_state \notin {"TX", "TUNE"}
       /\ ~request_transmit_flag /\ psm = "rest"
       /\ at \notin TxPlaces \cup TunePlaces \cup {"read"}

\* A modem that is named or ordered is one.
HasPicked == main \in Naming \cup Ordering => picked # NoModem

HasNew ==
    \/ new_modem # NoModem
    \/ /\ trx_state # "NEW_MODEM"
       /\ at \notin {"compare", "init", "activate"}
       /\ main \notin Ordering

Typed == TypeOK /\ HasModem /\ HasPicked /\ HasNew

\* A flag and a rate that would spare an open belong to a card that is open, or to one
\* to receive from where a failed reset has left none to send to.
CardsKept ==
    /\ snd.rxopen /\ snd.rxrate # 0 /\ snd.rx # "none" => snd.rx = "open" \/ snd.tx = "none"
    /\ snd.txopen /\ snd.txrate # 0 /\ snd.tx # "none" => snd.tx = "open"

\* Where there is no card to send to, none is said to be open, until the end.
NoneClosed ==
    at \notin {"aborted", "gone"} /\ snd.tx = "none" => ~snd.txopen

\* The thread that has ended holds no card.
EndedClean ==
    /\ trx_state = "ENDED" => at = "gone"
    /\ at \in {"aborted", "gone"} => snd.rx = "none" /\ snd.tx = "none"

\* A modem that is known has a number that has been given.
Numbered(x) == x # NoModem => x[2] <= made[x[1]]

Numbers ==
    /\ Numbered(active_modem) /\ Numbered(new_modem)
    /\ Numbered(old_modem) /\ Numbered(picked)
    /\ \A m \in Modes : mode_info[m] # NoModem => mode_info[m][1] = m /\ mode_info[m][2] <= made[m]

\* The modem that is about to be deleted is in no entry of the table.
OutOfTable ==
    /\ at \in {"leave", "delete"} => old_modem # NoModem
    /\ at = "delete" => \A m \in Modes : mode_info[m] # old_modem

\* While no order has met another, each step of a change of modem finds the modem
\* it needs alive.
PickedAlive ==
    main \in Naming \cup Ordering =>
        /\ at \notin Starting /\ trx_state # "NEW_MODEM"
        /\ picked \in heap
        /\ main \in Ordering => new_modem = picked

NewAlive ==
    trx_state = "NEW_MODEM" \/ at \in {"compare", "init", "activate"} => new_modem \in heap

OldApart ==
    /\ at \in {"init", "activate"} => old_modem = active_modem /\ new_modem # active_modem
    /\ at \in {"activated", "leave", "delete"} => active_modem # old_modem
    /\ at \in {"leave", "delete"} => trx_state # "NEW_MODEM"

Owned == ~overlap => PickedAlive /\ NewAlive /\ OldApart

IInv ==
    /\ Typed
    /\ CardsKept /\ NoneClosed /\ CardsOpen /\ EndedClean /\ ClosedCleanly /\ KeyedInTransmission
    /\ Numbers /\ OutOfTable /\ TableAlive
    /\ Owned /\ ActiveAlive

---------------------------------------------------------------------------
(* The steps by what they are about *)

Receives ==
    ReceiveIdle \/ ReceiveStart \/ ReceiveEnd \/ ReceiveOpenFails \/ ReadFails

BeginsToSend ==
    \E s \in {"TX", "TUNE"} :
        SendIdle(s) \/ SendOpenFails(s) \/ \E p \in {"send", "rsid", "tune"} : SendStart(s, p)

Sends ==
    \/ SendTest \/ SendToRX \/ SendLeave
    \/ SendDone \/ TuneLeave \/ TuneDone \/ Unkey \/ Untune \/ SendFails \/ SendEnding

StartsModem ==
    \/ StartModem \/ Compare \/ Restarted \/ InitModem \/ Activate \/ Activated
    \/ LeaveModem \/ DeleteModem

Resetting == Restart \/ ResetDone \/ Abort \/ Ended

ThreadStep == Receives \/ BeginsToSend \/ Sends \/ StartsModem \/ Resetting

Picks ==
    \/ \E m \in Modes : ChangeMode(m) \/ ChangeModeSync(m)
    \/ Waited \/ UserAbort \/ UserWithdraw \/ UserRxOnly

Orders ==
    \/ WaitTimesOut \/ NameModem \/ OrderModem \/ Settled
    \/ UserTransmit \/ UserStop \/ UserTune \/ UserReset
    \/ Close \/ Closing

OtherStep == Picks \/ Orders \/ PsmStep \/ RemoteTransmit

LEMMA Steps ==
    ASSUME [Next]_vars
    PROVE  /\ ThreadStep \/ OtherStep \/ UNCHANGED vars
           /\ UNCHANGED settings
BY DEF Next, ModemThread, TrxGoesOn, TrxMeets, MainStep, PsmStep, ThreadStep, OtherStep,
       Receives, BeginsToSend, Sends, StartsModem, Resetting, Picks, Orders, vars

\* What the modem thread leaves alone (trx_loop).
LEMMA ThreadFrame ==
    ASSUME ThreadStep
    PROVE  /\ UNCHANGED <<new_modem, made, psm, mainVars>>
           /\ request_transmit_flag' \in {request_transmit_flag, FALSE}
<1>1. CASE Receives
  BY <1>1 DEF Receives, ReceiveIdle, ReceiveStart, ReceiveReady, ReceiveEnd, ReceiveOpenFails,
              ReadFails, modemVars, psmVars
<1>2. CASE BeginsToSend
  BY <1>2 DEF BeginsToSend, SendIdle, SendReady, SendStart, SendOpenFails, modemVars, psmVars
<1>3. CASE Sends
  BY <1>3 DEF Sends, SendTest, SendToRX, SendLeave, TuneLeave, SendDone, TuneDone, Unkey,
              Untune, SendFails, SendEnding, modemVars, psmVars
<1>4. CASE StartsModem
  BY <1>4 DEF StartsModem, StartModem, Compare, Restarted, InitModem, Activate, Activated,
              LeaveModem, DeleteModem, modemVars, psmVars
<1>5. CASE Resetting
  BY <1>5 DEF Resetting, Restart, ResetDone, Abort, Ended, modemVars, psmVars
<1> QED  BY <1>1, <1>2, <1>3, <1>4, <1>5 DEF ThreadStep

\* What the other threads leave to the modem thread.
LEMMA OtherFrame ==
    ASSUME OtherStep
    PROVE  UNCHANGED trxVars
<1>1. CASE Picks
  BY <1>1 DEF Picks, ChangeMode, ChangeModeSync, Waited, UserAbort, UserWithdraw, UserRxOnly,
              UserOrder, trxVars
<1>2. CASE Orders
  BY <1>2 DEF Orders, WaitTimesOut, NameModem, OrderModem, Settled, UserTransmit, UserStop,
              UserTune, UserReset, Close, Closing, UserOrder, trxVars, modemVars
<1>3. CASE PsmStep \/ RemoteTransmit
  BY <1>3 DEF PsmStep, PsmClear, PsmTransmit, PsmUnstop, RemoteTransmit, trxVars, modemVars
<1> QED  BY <1>1, <1>2, <1>3 DEF OtherStep

LEMMA ModemsDiffer == \A x \in Modems : x # NoModem /\ x[1] \in Modes /\ x[2] \in Nat \ {0}
BY DEF Modems, NoModem

LEMMA RateInRates ==
    ASSUME TypeOK, active_modem # NoModem
    PROVE  ModemRate \in Rates /\ ModemRate # 0
BY ModemsDiffer, TrxAssumption DEF TypeOK, ModemRate, Rates

---------------------------------------------------------------------------
(* Types, and a modem for whoever needs one *)

\* Both cards, whatever trx_loop does with them.
LEMMA SndType ==
    ASSUME Typed, ThreadStep \/ OtherStep
    PROVE  snd' \in Snd
<1>0. snd \in Snd /\ 0 \in Rates /\ ResetRate \in Rates
  BY DEF Typed, TypeOK, Rates
<1>1. active_modem # NoModem => ModemRate \in Rates
  BY RateInRates DEF Typed
<1>2. CASE Receives
  <2>1. CASE ReceiveStart \/ ReceiveOpenFails
    BY <1>0, <1>1, <2>1 DEF ReceiveStart, ReceiveOpenFails, ReceiveReady, Snd, Card
  <2>2. CASE ReceiveIdle \/ ReceiveEnd \/ ReadFails
    BY <1>0, <2>2 DEF ReceiveIdle, ReceiveEnd, ReadFails, Snd, Card
  <2> QED  BY <1>2, <2>1, <2>2 DEF Receives
<1>3. CASE BeginsToSend
  <2> SUFFICES ASSUME NEW s \in {"TX", "TUNE"}, NEW p \in {"send", "rsid", "tune"},
                      SendIdle(s) \/ SendOpenFails(s) \/ SendStart(s, p)
               PROVE  snd' \in Snd
    BY <1>3 DEF BeginsToSend
  <2>1. SendReady(s) => active_modem # NoModem
    BY DEF SendReady, Top, Typed, HasModem
  <2> QED  BY <1>0, <1>1, <2>1 DEF SendIdle, SendOpenFails, SendStart, Snd, Card
<1>4. CASE Sends
  <2>1. CASE SendDone \/ TuneDone
    BY <1>0, <2>1 DEF SendDone, TuneDone, CloseTx, Snd, Card
  <2>2. CASE SendFails
    BY <1>0, <2>2 DEF SendFails, Snd, Card
  <2> QED
    BY <1>0, <1>4, <2>1, <2>2 DEF Sends, SendTest, SendToRX, SendLeave, TuneLeave, Unkey, Untune,
       SendEnding
<1>5. CASE StartsModem
  BY <1>0, <1>5 DEF StartsModem, StartModem, Compare, Restarted, InitModem, Activate, Activated,
     LeaveModem, DeleteModem
<1>6. CASE Resetting
  <2>1. Discarded \in Snd
    BY <1>0 DEF Discarded, Snd, Card
  <2>0. FullDuplex \in BOOLEAN
    BY DEF Typed, TypeOK, FullDuplex
  <2>2. snd.txrate \in Rates
    BY <1>0 DEF Snd
  <2>3. Resets \subseteq Snd
    <3>1. ResetNull \in Snd /\ ResetIP \in Snd
      BY <1>0, <2>1 DEF ResetNull, ResetIP, Snd, Card
    <3>2. ResetPulse \in Snd /\ ResetOSS \in Snd
      BY <1>0, <2>0, <2>1 DEF ResetPulse, ResetOSS, Snd, Card
    <3>3. ResetPort \subseteq Snd
      <4>1. \A again \in {FALSE, FullDuplex} :
              [Discarded EXCEPT
                 !.rx = "open", !.rxopen = again, !.rxrate = ResetRate,
                 !.tx = IF FullDuplex THEN "open" ELSE "closed", !.txopen = FALSE,
                 !.txrate = IF FullDuplex THEN ResetRate ELSE @] \in Snd
        BY <1>0, <2>0, <2>1 DEF Snd, Card
      <4> QED  BY <4>1 DEF ResetPort
    <3>4. ResetPortFails \subseteq Snd
      <4>1. \A rate \in {snd.txrate, ResetRate} :
              [rx |-> "none", tx |-> "none", rxopen |-> FALSE, txopen |-> FALSE,
               rxrate |-> ResetRate, txrate |-> rate] \in Snd
        BY <1>0, <2>2 DEF Snd, Card
      <4> QED  BY <4>1 DEF ResetPortFails
    <3>5. ResetPulseFails \subseteq Snd
      BY <1>0, <2>1 DEF ResetPulseFails, Snd, Card
    <3>6. ResetOSSFails \subseteq Snd
      <4> DEFINE receiving == [Discarded EXCEPT !.rx = "open", !.rxopen = TRUE, !.rxrate = ResetRate]
      <4>1. receiving \in Snd
        BY <1>0, <2>1 DEF Snd, Card
      <4>2. /\ [Discarded EXCEPT !.rx = "none", !.tx = "none"] \in Snd
            /\ [Discarded EXCEPT !.rx = "closed", !.tx = "none", !.rxrate = ResetRate] \in Snd
        BY <1>0, <2>1 DEF Snd, Card
      <4> HIDE DEF receiving
      <4>3. /\ [receiving EXCEPT !.tx = "none"] \in Snd
            /\ [receiving EXCEPT !.tx = "closed", !.txrate = ResetRate] \in Snd
        BY <1>0, <4>1 DEF Snd, Card
      <4> QED  BY <4>2, <4>3 DEF ResetOSSFails, receiving
    <3> QED  BY <3>1, <3>2, <3>3, <3>4, <3>5, <3>6 DEF Resets
  <2>4. CASE Abort
    BY <1>0, <2>4 DEF Abort, Snd, Card
  <2> QED  BY <1>0, <1>6, <2>3, <2>4 DEF Resetting, Restart, ResetDone, Ended
<1>7. CASE OtherStep
  BY <1>0, <1>7, OtherFrame DEF trxVars
<1> QED  BY <1>2, <1>3, <1>4, <1>5, <1>6, <1>7 DEF ThreadStep

\* The modems that are known, the table and the heap.
ModemTypes ==
    /\ {active_modem, new_modem, old_modem, picked} \subseteq Modems \cup {NoModem}
    /\ mode_info \in [Modes -> Modems \cup {NoModem}]
    /\ heap \subseteq Modems
    /\ made \in [Modes -> Nat]
    /\ stopflag \subseteq Modems

LEMMA ModemsType ==
    ASSUME Typed, ThreadStep \/ OtherStep
    PROVE  ModemTypes'
<1>0. ModemTypes
  BY DEF Typed, TypeOK, ModemTypes
<1>1. CASE ThreadStep
  <2>1. CASE Receives
    BY <1>0, <2>1 DEF Receives, ReceiveIdle, ReceiveStart, ReceiveReady, ReceiveEnd, ReceiveOpenFails,
       ReadFails, ModemTypes, modemVars, mainVars
  <2>2. CASE BeginsToSend
    BY <1>0, <2>2 DEF BeginsToSend, SendIdle, SendReady, SendStart, SendOpenFails, ModemTypes,
       modemVars, mainVars
  <2>3. CASE Sends
    BY <1>0, <2>3 DEF Sends, SendTest, SendToRX, SendLeave, TuneLeave, SendDone, TuneDone, Unkey,
       Untune, SendFails, SendEnding, ModemTypes, modemVars, mainVars
  <2>4. CASE StartsModem
    BY <1>0, <2>4 DEF StartsModem, StartModem, Compare, Restarted, InitModem, Activate, Activated,
       LeaveModem, DeleteModem, ModemTypes, modemVars, mainVars
  <2>5. CASE Resetting
    BY <1>0, <2>5 DEF Resetting, Restart, ResetDone, Abort, Ended, ModemTypes, modemVars, mainVars
  <2> QED  BY <1>1, <2>1, <2>2, <2>3, <2>4, <2>5 DEF ThreadStep
<1>2. CASE Picks
  <2>1. ASSUME NEW m \in Modes, NEW place, Pick(m, place),
               UNCHANGED <<active_modem, old_modem, new_modem, stopflag>>
        PROVE  ModemTypes'
    <3>1. <<m, made[m] + 1>> \in Modems
      BY <1>0 DEF ModemTypes, Modems
    <3>2. CASE mode_info[m] # NoModem
      BY <1>0, <2>1, <3>2 DEF Pick, ModemTypes
    <3>3. CASE mode_info[m] = NoModem
      BY <1>0, <2>1, <3>1, <3>3 DEF Pick, ModemTypes
    <3> QED  BY <3>2, <3>3
  <2>2. ASSUME NEW place, NEW idle, AbortTx(place, idle)
        PROVE  picked' \in {picked, active_modem}
    BY <2>2 DEF AbortTx
  <2>3. target \in Modes
    BY DEF Typed, TypeOK
  <2>4. ASSUME NEW m \in Modes, ChangeMode(m)
        PROVE  ModemTypes'
    BY <2>1, <2>4 DEF ChangeMode, trxVars
  <2>5. ASSUME NEW m \in Modes, ChangeModeSync(m)
        PROVE  ModemTypes'
    BY <1>0, <2>2, <2>5 DEF ChangeModeSync, trxVars, ModemTypes
  <2>6. CASE Waited
    BY <2>1, <2>3, <2>6 DEF Waited, trxVars
  <2>7. CASE UserAbort \/ UserWithdraw \/ UserRxOnly
    BY <1>0, <2>2, <2>7 DEF UserAbort, UserWithdraw, UserRxOnly, UserOrder, trxVars, ModemTypes
  <2> QED  BY <1>2, <2>4, <2>5, <2>6, <2>7 DEF Picks
<1>3. CASE Orders
  BY <1>0, <1>3 DEF Orders, WaitTimesOut, NameModem, OrderModem, Settled, UserTransmit, UserStop,
     UserTune, UserReset, Close, Closing, UserOrder, Transmit, ModemTypes, trxVars, modemVars
<1>4. CASE PsmStep \/ RemoteTransmit
  BY <1>0, <1>4 DEF PsmStep, PsmClear, PsmTransmit, PsmUnstop, RemoteTransmit, Transmit, ModemTypes,
     trxVars, modemVars, mainVars
<1> QED  BY <1>1, <1>2, <1>3, <1>4 DEF OtherStep

\* Everything else: the places, the orders and the flags.
PlaceTypes ==
    /\ trx_state \in States
    /\ at \in Places
    /\ {ptt, deadman, failed, overlap, rx_only, tuning, request_transmit_flag} \subseteq BOOLEAN
    /\ psm \in {"rest", "clear", "started"}
    /\ main \in MainPlaces
    /\ target \in Modes
    /\ settings \in [full_duplex : BOOLEAN, psm : BOOLEAN]
    /\ orders \in Nat

LEMMA PlacesType ==
    ASSUME Typed, ThreadStep \/ OtherStep, UNCHANGED settings
    PROVE  PlaceTypes'
<1>0. PlaceTypes
  BY DEF Typed, TypeOK, PlaceTypes
<1>1. CASE ThreadStep
  <2>1. /\ overlap' \in BOOLEAN /\ rx_only' \in BOOLEAN /\ tuning' \in BOOLEAN
        /\ request_transmit_flag' \in BOOLEAN
        /\ psm' \in {"rest", "clear", "started"} /\ main' \in MainPlaces
        /\ target' \in Modes /\ orders' \in Nat
    BY <1>0, <1>1, ThreadFrame DEF PlaceTypes, mainVars
  <2>2. trx_state' \in States /\ at' \in Places /\ {ptt', deadman', failed'} \subseteq BOOLEAN
    <3>1. CASE Receives
      BY <1>0, <3>1 DEF Receives, ReceiveIdle, ReceiveStart, ReceiveReady, ReceiveEnd,
         ReceiveOpenFails, ReadFails, Goes, PlaceTypes, Places, keyVars
    <3>2. CASE BeginsToSend
      BY <1>0, <3>2 DEF BeginsToSend, SendIdle, SendReady, SendStart, SendOpenFails, PlaceTypes,
         Places, TxPlaces, TunePlaces
    <3>3. CASE Sends
      BY <1>0, <3>3 DEF Sends, SendTest, SendToRX, SendLeave, TuneLeave, SendDone, TuneDone,
         Unkey, Untune, SendFails, SendEnding, Goes, PlaceTypes, Places, TxPlaces, TunePlaces,
         States, keyVars
    <3>4. CASE StartsModem
      BY <1>0, <3>4 DEF StartsModem, StartModem, Compare, Restarted, InitModem, Activate, Activated,
         LeaveModem, DeleteModem, Goes, PlaceTypes, Places, Starting, States, keyVars
    <3>5. CASE Resetting
      BY <1>0, <3>5 DEF Resetting, Restart, ResetDone, Abort, Ended, Goes, PlaceTypes, Places,
         States, keyVars
    <3> QED  BY <1>1, <3>1, <3>2, <3>3, <3>4, <3>5 DEF ThreadStep
  <2> QED  BY <1>0, <2>1, <2>2 DEF PlaceTypes
<1>2. CASE OtherStep
  <2>1. at' \in Places /\ {ptt', deadman', failed'} \subseteq BOOLEAN
    BY <1>0, <1>2, OtherFrame DEF PlaceTypes, trxVars, keyVars
  <2>2. orders' \in Nat
    BY <1>0, <1>2 DEF OtherStep, Picks, ChangeMode, ChangeModeSync, Waited, UserAbort, UserWithdraw,
       UserRxOnly, Orders, WaitTimesOut, NameModem, OrderModem, Settled, UserTransmit, UserStop,
       UserTune, UserReset, Close, Closing, PsmStep, PsmClear, PsmTransmit, PsmUnstop,
       RemoteTransmit, UserOrder, May, PlaceTypes, mainVars
  <2>3. target' \in Modes /\ psm' \in {"rest", "clear", "started"}
    BY <1>0, <1>2 DEF OtherStep, Picks, ChangeMode, ChangeModeSync, Waited, UserAbort, UserWithdraw,
       UserRxOnly, Orders, WaitTimesOut, NameModem, OrderModem, Settled, UserTransmit, UserStop,
       UserTune, UserReset, Close, Closing, PsmStep, PsmClear, PsmTransmit, PsmUnstop,
       RemoteTransmit, UserOrder, PlaceTypes, mainVars, psmVars
  <2>4. trx_state' \in States /\ main' \in MainPlaces
    <3>1. CASE Picks
      BY <1>0, <3>1 DEF Picks, ChangeMode, ChangeModeSync, Waited, UserAbort, UserWithdraw,
         UserRxOnly, UserOrder, Pick, AbortTx, PlaceTypes, States, MainPlaces
    <3>2. CASE Orders
      BY <1>0, <3>2 DEF Orders, WaitTimesOut, NameModem, OrderModem, Settled, Close, Closing,
         UserTransmit, UserStop, UserTune, UserReset, UserOrder, Transmit, PlaceTypes, States, MainPlaces
    <3>3. CASE PsmStep \/ RemoteTransmit
      BY <1>0, <3>3 DEF PsmStep, PsmClear, PsmTransmit, PsmUnstop, RemoteTransmit, Transmit,
         PlaceTypes, States, mainVars
    <3> QED  BY <1>2, <3>1, <3>2, <3>3 DEF OtherStep
  <2>5. {overlap', rx_only', tuning', request_transmit_flag'} \subseteq BOOLEAN
    <3>0. {overlap, rx_only, tuning, request_transmit_flag} \subseteq BOOLEAN
      BY <1>0 DEF PlaceTypes
    <3>1. CASE Picks
      <4>1. ASSUME NEW m \in Modes, ChangeMode(m)
            PROVE  {overlap', rx_only', tuning', request_transmit_flag'} \subseteq BOOLEAN
        BY <3>0, <4>1 DEF ChangeMode, Pick, psmVars
      <4>2. ASSUME NEW place, NEW idle, AbortTx(place, idle)
            PROVE  {overlap', tuning'} \subseteq BOOLEAN
        BY <3>0, <4>2 DEF AbortTx
      <4>3. ASSUME NEW m \in Modes, ChangeModeSync(m)
            PROVE  {overlap', rx_only', tuning', request_transmit_flag'} \subseteq BOOLEAN
        BY <3>0, <4>2, <4>3 DEF ChangeModeSync, psmVars
      <4>4. CASE Waited
        BY <3>0, <4>4 DEF Waited, Pick, psmVars
      <4>5. CASE UserAbort \/ UserWithdraw \/ UserRxOnly
        BY <3>0, <4>2, <4>5 DEF UserAbort, UserWithdraw, UserRxOnly, psmVars
      <4> QED  BY <3>1, <4>1, <4>3, <4>4, <4>5 DEF Picks
    <3>2. CASE Orders
      BY <3>0, <3>2 DEF Orders, WaitTimesOut, NameModem, OrderModem, Settled, Close, Closing,
         UserTransmit, UserStop, UserTune, UserReset, UserOrder, Transmit, psmVars
    <3>3. CASE PsmStep \/ RemoteTransmit
      BY <3>0, <3>3 DEF PsmStep, PsmClear, PsmTransmit, PsmUnstop, RemoteTransmit, Transmit, mainVars
    <3> QED  BY <1>2, <3>1, <3>2, <3>3 DEF OtherStep
  <2> QED  BY <1>0, <2>1, <2>2, <2>3, <2>4, <2>5 DEF PlaceTypes
<1> QED  BY <1>1, <1>2

LEMMA TypeStep ==
    ASSUME Typed, ThreadStep \/ OtherStep, UNCHANGED settings
    PROVE  TypeOK'
BY SndType, ModemsType, PlacesType DEF TypeOK, ModemTypes, PlaceTypes

\* There is a modem for whoever sends or may order it: new_modem is set before
\* NEW_MODEM is ordered, and active_modem is never taken away.
LEMMA ModemStep ==
    ASSUME Typed, ThreadStep \/ OtherStep
    PROVE  HasModem'
<1> USE DEF Typed, HasModem
<1>1. CASE ThreadStep
  <2>1. CASE Receives
    BY <2>1 DEF Receives, ReceiveIdle, ReceiveStart, ReceiveReady, ReceiveEnd, ReceiveOpenFails,
       ReadFails, Goes, Top, TxPlaces, TunePlaces, modemVars, psmVars
  <2>2. CASE BeginsToSend
    BY <2>2 DEF BeginsToSend, SendIdle, SendReady, SendStart, SendOpenFails, Top, modemVars, psmVars
  <2>3. CASE Sends
    BY <2>3 DEF Sends, SendTest, SendToRX, SendLeave, TuneLeave, SendDone, TuneDone,
       Unkey, Untune, SendFails, SendEnding, Goes, TxPlaces, TunePlaces, modemVars, psmVars
  <2>4. CASE StartsModem
    BY <2>4 DEF StartsModem, StartModem, Compare, Restarted, InitModem, Activate, Activated,
       LeaveModem, DeleteModem, Goes, Top, HasNew, TxPlaces, TunePlaces, modemVars, psmVars
  <2>5. CASE Resetting
    BY <2>5 DEF Resetting, Restart, ResetDone, Abort, Ended, Goes, Top, TxPlaces, TunePlaces,
       modemVars, psmVars
  <2> QED  BY <1>1, <2>1, <2>2, <2>3, <2>4, <2>5 DEF ThreadStep
<1>2. CASE OtherStep
  <2>0. UNCHANGED <<active_modem, at>>
    BY <1>2, OtherFrame DEF trxVars
  <2>1. CASE Picks
    BY <2>0, <2>1 DEF Picks, ChangeMode, ChangeModeSync, Waited, UserAbort, UserWithdraw, UserRxOnly,
       UserOrder, Pick, AbortTx, psmVars
  <2>2. CASE Orders
    BY <2>0, <2>2 DEF Orders, WaitTimesOut, NameModem, OrderModem, Settled, UserTransmit, UserStop,
       UserTune, UserReset, Close, Closing, UserOrder, Transmit, psmVars
  <2>3. CASE PsmStep \/ RemoteTransmit
    BY <2>0, <2>3 DEF PsmStep, PsmClear, PsmTransmit, PsmUnstop, RemoteTransmit, Transmit
  <2> QED  BY <1>2, <2>1, <2>2, <2>3 DEF OtherStep
<1> QED  BY <1>1, <1>2

LEMMA NamedStep ==
    ASSUME Typed, ThreadStep \/ OtherStep
    PROVE  HasPicked' /\ HasNew'
<1> USE DEF Typed, HasPicked, HasNew, Naming, Ordering
<1>1. CASE ThreadStep
  <2>0. UNCHANGED <<main, picked, new_modem>>
    BY <1>1, ThreadFrame DEF mainVars
  <2>1. CASE Receives
    BY <2>0, <2>1 DEF Receives, ReceiveIdle, ReceiveStart, ReceiveReady, ReceiveEnd,
       ReceiveOpenFails, ReadFails, Goes
  <2>2. CASE BeginsToSend
    BY <2>0, <2>2 DEF BeginsToSend, SendIdle, SendReady, SendStart, SendOpenFails
  <2>3. CASE Sends
    BY <2>0, <2>3 DEF Sends, SendTest, SendToRX, SendLeave, TuneLeave, SendDone, TuneDone,
       Unkey, Untune, SendFails, SendEnding, Goes
  <2>4. CASE StartsModem
    BY <2>0, <2>4 DEF StartsModem, StartModem, Compare, Restarted, InitModem, Activate, Activated,
       LeaveModem, DeleteModem, Goes, Top
  <2>5. CASE Resetting
    BY <2>0, <2>5 DEF Resetting, Restart, ResetDone, Abort, Ended, Goes
  <2> QED  BY <1>1, <2>1, <2>2, <2>3, <2>4, <2>5 DEF ThreadStep
<1>2. CASE OtherStep
  <2>0. UNCHANGED <<active_modem, at>>
    BY <1>2, OtherFrame DEF trxVars
  <2>1. ASSUME NEW m \in Modes, NEW place, Pick(m, place)
        PROVE  picked' # NoModem
    <3>1. <<m, made[m] + 1>> # NoModem
      BY DEF NoModem
    <3> QED  BY <2>1, <3>1 DEF Pick
  <2>2. ASSUME NEW place, NEW idle, AbortTx(place, idle)
        PROVE  /\ \/ picked' = active_modem /\ active_modem # NoModem
                  \/ main' = idle
               /\ trx_state' # "NEW_MODEM" \/ trx_state = "NEW_MODEM"
               /\ main' \in {place, idle}
    BY <2>2 DEF AbortTx, HasModem
  <2>3. CASE Picks
    <3>1. ASSUME NEW m \in Modes, ChangeMode(m)
          PROVE  HasPicked' /\ HasNew'
      BY <2>0, <2>1, <3>1 DEF ChangeMode, Pick
    <3>2. ASSUME NEW m \in Modes, ChangeModeSync(m)
          PROVE  HasPicked' /\ HasNew'
      BY <2>0, <2>2, <3>2 DEF ChangeModeSync
    <3>3. CASE Waited
      <4>1. Pick(target, "nameSettle") /\ target \in Modes
        BY <3>3 DEF Waited, TypeOK
      <4> QED  BY <2>0, <2>1, <3>3, <4>1 DEF Waited, Pick
    <3>4. CASE UserAbort \/ UserWithdraw \/ UserRxOnly
      BY <2>0, <2>2, <3>4 DEF UserAbort, UserWithdraw, UserRxOnly, UserOrder
    <3> QED  BY <2>3, <3>1, <3>2, <3>3, <3>4 DEF Picks
  <2>4. CASE Orders
    BY <2>0, <2>4 DEF Orders, WaitTimesOut, NameModem, OrderModem, Settled, UserTransmit, UserStop,
       UserTune, UserReset, Close, Closing, UserOrder, Transmit, modemVars
  <2>5. CASE PsmStep \/ RemoteTransmit
    BY <2>0, <2>5 DEF PsmStep, PsmClear, PsmTransmit, PsmUnstop, RemoteTransmit, Transmit,
       modemVars, mainVars
  <2> QED  BY <1>2, <2>3, <2>4, <2>5 DEF OtherStep
<1> QED  BY <1>1, <1>2

---------------------------------------------------------------------------
(* The cards and the transmitter *)

\* What each reset leaves: no flag of a card that is closed, but of the one to receive
\* from where there is none to send to (trx_reset_loop).
LEMMA ResetLeaves ==
    ASSUME Typed, ~Discarded.txopen, NEW c \in Resets
    PROVE  /\ c.rx = "closed" /\ c.rxrate # 0 => c.tx = "none"
           /\ c.tx = "closed" => ~c.txopen
           /\ c.tx = "none" => ~c.txopen
<1> DEFINE Fits(d) == /\ d.rx = "closed" /\ d.rxrate # 0 => d.tx = "none"
                      /\ d.tx # "open" => ~d.txopen
<1>1. snd \in Snd /\ Discarded \in Snd /\ FullDuplex \in BOOLEAN
  BY DEF Typed, TypeOK, Discarded, Snd, Card, FullDuplex
<1>2. Fits(ResetNull) /\ Fits(ResetIP)
  BY <1>1 DEF ResetNull, ResetIP, Snd
<1>3. Fits(ResetPulse) /\ Fits(ResetOSS)
  BY <1>1 DEF ResetPulse, ResetOSS, Snd
<1>4. \A d \in ResetPort : Fits(d)
  BY <1>1 DEF ResetPort, Snd
<1>5. \A d \in ResetPortFails : Fits(d)
  BY DEF ResetPortFails
<1>6. \A d \in ResetPulseFails : Fits(d)
  BY <1>1 DEF ResetPulseFails, Snd
<1>7. \A d \in ResetOSSFails : Fits(d)
  BY <1>1 DEF ResetOSSFails, Snd
<1>8. Fits(c)
  BY <1>2, <1>3, <1>4, <1>5, <1>6, <1>7 DEF Resets
<1> QED  BY <1>8

\* No open is spared that was needed: whatever closes a card clears its flag or its
\* rate, or leaves no card (trx.cxx).
LEMMA CardsStep ==
    ASSUME Typed, ThreadStep \/ OtherStep, UNCHANGED settings, CardsKept, NoneClosed, CardsOpen
    PROVE  CardsKept' /\ CardsOpen'
<1> DEFINE Kept(c) == /\ c.rxopen /\ c.rxrate # 0 /\ c.rx # "none" => c.rx = "open" \/ c.tx = "none"
                      /\ c.txopen /\ c.txrate # 0 /\ c.tx # "none" => c.tx = "open"
<1>0. snd \in Snd /\ Kept(snd) /\ (Kept(snd') => CardsKept')
  BY DEF Typed, TypeOK, CardsKept
<1>1. active_modem # NoModem => ModemRate \in Nat \ {0}
  BY ModemsDiffer, TrxAssumption DEF Typed, TypeOK, ModemRate
<1>2. CASE Receives
  <2>1. CASE ReceiveStart
    <3>1. ReceiveReady /\ at' = "read" /\ active_modem # NoModem /\ snd.rx # "none"
      BY <2>1 DEF ReceiveStart, ReceiveReady
    <3>2. CASE MustOpenRx
      <4>1. PICK flag \in {snd.rxopen, TRUE} :
              snd' = [snd EXCEPT !.rx = "open", !.rxopen = flag, !.rxrate = ModemRate]
        BY <2>1, <3>2 DEF ReceiveStart
      <4>2. snd'.rx = "open" /\ UNCHANGED <<snd.tx, snd.txopen, snd.txrate>>
        BY <1>0, <4>1 DEF Snd
      <4>3. Kept(snd')
        BY <1>0, <4>2
      <4> QED  BY <1>0, <3>1, <4>2, <4>3 DEF CardsOpen, TxPlaces, TunePlaces
    <3>3. CASE ~MustOpenRx
      <4>1. snd' = snd /\ FullDuplex /\ snd.rxopen /\ snd.rxrate = ModemRate
        BY <2>1, <3>3 DEF ReceiveStart, MustOpenRx
      <4>2. snd.rx = "open" \/ snd.tx = "none"
        BY <1>0, <1>1, <3>1, <4>1
      <4>3. FullDuplex'
        BY <4>1 DEF FullDuplex
      <4> QED  BY <1>0, <3>1, <4>1, <4>2, <4>3 DEF CardsOpen, TxPlaces, TunePlaces
    <3> QED  BY <3>2, <3>3
  <2>2. CASE ReceiveOpenFails \/ ReadFails
    <3>1. at' = "top" /\ ~snd'.rxopen /\ UNCHANGED <<snd.tx, snd.txopen, snd.txrate>>
      BY <1>0, <2>2 DEF ReceiveOpenFails, ReadFails, Goes, Snd
    <3> QED  BY <1>0, <3>1 DEF CardsOpen, TxPlaces, TunePlaces
  <2>3. CASE ReceiveIdle
    BY <1>0, <2>3 DEF ReceiveIdle, Top, CardsOpen, TxPlaces, TunePlaces
  <2>4. CASE ReceiveEnd
    <3>1. at' = "top"
      BY <2>4 DEF ReceiveEnd, Goes
    <3>2. \/ snd' = snd
          \/ ~snd'.rxopen /\ UNCHANGED <<snd.tx, snd.txopen, snd.txrate>>
      BY <1>0, <2>4 DEF ReceiveEnd, Snd
    <3> QED  BY <1>0, <3>1, <3>2 DEF CardsOpen, TxPlaces, TunePlaces
  <2> QED  BY <1>2, <2>1, <2>2, <2>3, <2>4 DEF Receives
<1>3. CASE BeginsToSend
  <2> SUFFICES ASSUME NEW s \in {"TX", "TUNE"}, NEW p \in {"send", "rsid", "tune"},
                      SendIdle(s) \/ SendOpenFails(s) \/ SendStart(s, p)
               PROVE  CardsKept' /\ CardsOpen'
    BY <1>3 DEF BeginsToSend
  <2>1. CASE SendIdle(s)
    BY <1>0, <2>1 DEF SendIdle, Top, CardsOpen, TxPlaces, TunePlaces
  <2>2. CASE SendOpenFails(s)
    <3>1. /\ at' = "top" /\ snd.tx # "none" /\ snd'.txrate = 0
          /\ UNCHANGED <<snd.rx, snd.rxopen, snd.rxrate>>
      BY <1>0, <2>2 DEF SendOpenFails, SendReady, Snd
    <3> QED  BY <1>0, <3>1 DEF CardsOpen, TxPlaces, TunePlaces
  <2>3. CASE SendStart(s, p)
    <3>1. active_modem # NoModem /\ snd.tx # "none" /\ at' = p
      BY <2>3 DEF SendStart, SendReady, Top, Typed, HasModem
    <3>2. CASE MustOpenTx(s)
      <4>1. snd'.tx = "open" /\ UNCHANGED <<snd.rx, snd.rxopen, snd.rxrate>>
        BY <1>0, <2>3, <3>2 DEF SendStart, Snd
      <4> QED  BY <1>0, <3>1, <4>1 DEF CardsOpen, TxPlaces, TunePlaces
    <3>3. CASE ~MustOpenTx(s)
      <4>1. snd' = snd /\ snd.txopen /\ snd.txrate = ModemRate
        BY <2>3, <3>3 DEF SendStart, MustOpenTx
      <4>2. snd.tx = "open"
        BY <1>0, <1>1, <3>1, <4>1
      <4> QED  BY <1>0, <3>1, <4>1, <4>2 DEF CardsOpen, TxPlaces, TunePlaces
    <3> QED  BY <3>2, <3>3
  <2> QED  BY <2>1, <2>2, <2>3
<1>4. CASE Sends
  <2>1. CASE SendDone \/ TuneDone
    <3>1. at' \in {"unkey", "untune"} /\ snd.tx = "open"
      BY <2>1 DEF SendDone, TuneDone, Goes, CardsOpen, TxPlaces, TunePlaces
    <3>2. \/ snd' = snd
          \/ ~snd'.txopen /\ UNCHANGED <<snd.rx, snd.rxopen, snd.rxrate>>
      BY <1>0, <2>1 DEF SendDone, TuneDone, CloseTx, Snd
    <3> QED  BY <1>0, <3>1, <3>2 DEF CardsOpen, TxPlaces, TunePlaces
  <2>2. CASE SendFails
    <3>1. /\ at' = "top" /\ snd.tx = "open" /\ ~snd'.txopen
          /\ UNCHANGED <<snd.rx, snd.rxopen, snd.rxrate>>
      BY <1>0, <2>2 DEF SendFails, Snd, CardsOpen, TxPlaces, TunePlaces
    <3> QED  BY <1>0, <3>1 DEF CardsOpen, TxPlaces, TunePlaces
  <2> QED
    BY <1>0, <1>4, <2>1, <2>2 DEF Sends, SendTest, SendToRX, SendLeave, TuneLeave, Unkey, Untune,
       SendEnding, Goes, CardsOpen, TxPlaces, TunePlaces
<1>5. CASE StartsModem
  BY <1>0, <1>5 DEF StartsModem, StartModem, Compare, Restarted, InitModem, Activate, Activated,
     LeaveModem, DeleteModem, Goes, Top, CardsOpen, TxPlaces, TunePlaces
<1>6. CASE Resetting
  <2>0. FullDuplex \in BOOLEAN
    BY DEF Typed, TypeOK, FullDuplex
  <2>1. CASE Restart
    <3>1. at' = "resetDone" /\ snd' \in Resets
      BY <2>1 DEF Restart
    <3>2. ~Discarded.txopen
      BY <1>0, <2>1 DEF Restart, Top, NoneClosed, Discarded, Snd
    <3>3. snd' \in Snd
      BY SndType
    <3>4. Kept(snd')
      BY <3>1, <3>2, <3>3, ResetLeaves DEF Snd, Card
    <3> QED  BY <1>0, <3>1, <3>4 DEF CardsOpen, TxPlaces, TunePlaces
  <2>2. CASE Abort
    <3>1. /\ at' \in {"crashed", "aborted"}
          /\ \/ snd' = snd
             \/ snd'.rx = "none" /\ snd'.tx = "none"
      BY <1>0, <2>2 DEF Abort, Snd
    <3> QED  BY <1>0, <3>1 DEF CardsOpen, TxPlaces, TunePlaces
  <2>3. CASE ResetDone \/ Ended
    BY <1>0, <2>3 DEF ResetDone, Ended, Goes, CardsOpen, TxPlaces, TunePlaces
  <2> QED  BY <1>6, <2>1, <2>2, <2>3 DEF Resetting
<1>7. CASE OtherStep
  BY <1>0, <1>7, OtherFrame DEF trxVars, CardsOpen, FullDuplex, TxPlaces, TunePlaces
<1> QED  BY <1>2, <1>3, <1>4, <1>5, <1>6, <1>7 DEF ThreadStep

\* trx_reset_loop clears the flag of a card before it is left without one.
LEMMA NoneStep ==
    ASSUME Typed, ThreadStep \/ OtherStep, NoneClosed
    PROVE  NoneClosed'
<1> USE DEF NoneClosed
<1>0. snd \in Snd
  BY DEF Typed, TypeOK
<1>1. CASE Receives
  <2>1. CASE ReceiveStart \/ ReceiveOpenFails
    BY <1>0, <2>1 DEF ReceiveStart, ReceiveOpenFails, ReceiveReady, Top, Snd
  <2>2. CASE ReceiveIdle \/ ReceiveEnd \/ ReadFails
    BY <1>0, <2>2 DEF ReceiveIdle, ReceiveEnd, ReadFails, Goes, Top, Snd
  <2> QED  BY <1>1, <2>1, <2>2 DEF Receives
<1>2. CASE BeginsToSend
  <2> SUFFICES ASSUME NEW s \in {"TX", "TUNE"}, NEW p \in {"send", "rsid", "tune"},
                      SendIdle(s) \/ SendOpenFails(s) \/ SendStart(s, p)
               PROVE  NoneClosed'
    BY <1>2 DEF BeginsToSend
  <2>1. CASE SendIdle(s) \/ SendOpenFails(s)
    <3>1. CASE SendIdle(s)
      BY <3>1 DEF SendIdle, Top
    <3>2. CASE SendOpenFails(s)
      <4>1. snd' = [snd EXCEPT !.tx = "closed", !.txrate = 0]
        BY <3>2 DEF SendOpenFails
      <4> QED  BY <1>0, <4>1 DEF Snd
    <3> QED  BY <2>1, <3>1, <3>2
  <2>2. CASE SendStart(s, p)
    BY <1>0, <2>2 DEF SendStart, SendReady, Top, Snd
  <2> QED  BY <2>1, <2>2
<1>3. CASE Sends
  <2>1. CASE SendDone \/ TuneDone \/ SendFails
    BY <1>0, <2>1 DEF SendDone, TuneDone, SendFails, CloseTx, Goes, Snd
  <2> QED
    BY <1>3, <2>1 DEF Sends, SendTest, SendToRX, SendLeave, TuneLeave, Unkey, Untune,
       SendEnding, Goes
<1>4. CASE StartsModem
  BY <1>4 DEF StartsModem, StartModem, Compare, Restarted, InitModem, Activate, Activated,
     LeaveModem, DeleteModem, Goes, Top
<1>5. CASE Restart
  <2>1. ~Discarded.txopen
    BY <1>0, <1>5 DEF Restart, Top, Discarded, Snd
  <2> QED  BY <1>5, <2>1, ResetLeaves DEF Restart
<1>6. CASE ResetDone \/ Abort \/ Ended
  BY <1>6 DEF ResetDone, Abort, Ended, Goes, Top
<1>7. CASE OtherStep
  BY <1>7, OtherFrame DEF trxVars
<1> QED  BY <1>1, <1>2, <1>3, <1>4, <1>5, <1>6, <1>7 DEF ThreadStep, Resetting

\* The transmitter is keyed on the way into the two loops only, and every way out
\* of them unkeys it or is an exception (trx_trx_transmit_loop, trx_tune_loop).
LEMMA KeyStep ==
    ASSUME ThreadStep \/ OtherStep, KeyedInTransmission
    PROVE  KeyedInTransmission'
<1> USE DEF KeyedInTransmission, TxPlaces, TunePlaces
<1>1. CASE Receives
  BY <1>1 DEF Receives, ReceiveIdle, ReceiveStart, ReceiveReady, ReceiveEnd, ReceiveOpenFails,
     ReadFails, Goes, Top, keyVars
<1>2. CASE BeginsToSend
  <2> SUFFICES ASSUME NEW s \in {"TX", "TUNE"}, NEW p \in {"send", "rsid", "tune"},
                      SendIdle(s) \/ SendOpenFails(s) \/ SendStart(s, p)
               PROVE  KeyedInTransmission'
    BY <1>2 DEF BeginsToSend
  <2>1. CASE SendIdle(s) \/ SendOpenFails(s)
    BY <2>1 DEF SendIdle, SendReady, SendOpenFails, Top
  <2>2. CASE SendStart(s, p)
    BY <2>2 DEF SendStart
  <2> QED  BY <2>1, <2>2
<1>3. CASE Sends
  BY <1>3 DEF Sends, SendTest, SendToRX, SendLeave, TuneLeave, SendDone, TuneDone, Unkey,
     Untune, SendFails, SendEnding, Goes, keyVars
<1>4. CASE StartsModem
  BY <1>4 DEF StartsModem, StartModem, Compare, Restarted, InitModem, Activate, Activated,
     LeaveModem, DeleteModem, Goes, Top, keyVars
<1>5. CASE Resetting
  BY <1>5 DEF Resetting, Restart, ResetDone, Abort, Ended, Goes, Top, keyVars
<1>6. CASE OtherStep
  BY <1>6, OtherFrame DEF trxVars, keyVars
<1> QED  BY <1>1, <1>2, <1>3, <1>4, <1>5, <1>6 DEF ThreadStep

\* ENDED is announced behind the cards and by nobody else, and nothing follows it
\* (trx_loop, trx_close).
LEMMA EndStep ==
    ASSUME Typed, ThreadStep \/ OtherStep, EndedClean, ClosedCleanly
    PROVE  EndedClean' /\ ClosedCleanly'
<1> USE DEF EndedClean, ClosedCleanly
<1>1. CASE ThreadStep
  <2>0. UNCHANGED main
    BY <1>1, ThreadFrame DEF mainVars
  <2>1. CASE Receives
    BY <2>0, <2>1 DEF Receives, ReceiveIdle, ReceiveStart, ReceiveReady, ReceiveEnd,
       ReceiveOpenFails, ReadFails, Goes, Top
  <2>2. CASE BeginsToSend
    BY <2>0, <2>2 DEF BeginsToSend, SendIdle, SendReady, SendStart, SendOpenFails, Top
  <2>3. CASE Sends
    BY <2>0, <2>3 DEF Sends, SendTest, SendToRX, SendLeave, TuneLeave, SendDone, TuneDone,
       Unkey, Untune, SendFails, SendEnding, Goes
  <2>4. CASE StartsModem
    BY <2>0, <2>4 DEF StartsModem, StartModem, Compare, Restarted, InitModem, Activate, Activated,
       LeaveModem, DeleteModem, Goes, Top
  <2>5. CASE Restart \/ ResetDone
    BY <2>0, <2>5 DEF Restart, ResetDone, Goes, Top
  <2>6. CASE Abort
    <3>1. /\ at = "top" /\ trx_state = "ABORT" /\ UNCHANGED trx_state
          /\ \/ at' = "crashed"
             \/ at' = "aborted" /\ snd'.rx = "none" /\ snd'.tx = "none"
      BY <2>6 DEF Abort, Top, Typed, TypeOK, Snd
    <3> QED  BY <2>0, <3>1
  <2>7. CASE Ended
    BY <2>0, <2>7 DEF Ended, Goes
  <2> QED  BY <1>1, <2>1, <2>2, <2>3, <2>4, <2>5, <2>6, <2>7 DEF ThreadStep, Resetting
<1>2. CASE OtherStep
  <2>0. UNCHANGED <<at, snd>>
    BY <1>2, OtherFrame DEF trxVars
  <2>1. CASE Picks
    BY <2>0, <2>1 DEF Picks, ChangeMode, ChangeModeSync, Waited, UserAbort, UserWithdraw,
       UserRxOnly, UserOrder, Pick, AbortTx
  <2>2. CASE Orders
    BY <2>0, <2>2 DEF Orders, WaitTimesOut, NameModem, OrderModem, Settled, UserTransmit, UserStop,
       UserTune, UserReset, Close, Closing, UserOrder, Transmit
  <2>3. CASE PsmStep \/ RemoteTransmit
    BY <2>0, <2>3 DEF PsmStep, PsmClear, PsmTransmit, PsmUnstop, RemoteTransmit, Transmit, mainVars
  <2> QED  BY <1>2, <2>1, <2>2, <2>3 DEF OtherStep
<1> QED  BY <1>1, <1>2

---------------------------------------------------------------------------
(* The modems *)

\* What one of the other threads may do to the modems: pick one from the table,
\* make one, or take the one in use (trx_start_modem, abort_tx).
LEMMA Picking ==
    ASSUME Typed, Picks
    PROVE  /\ UNCHANGED <<active_modem, old_modem, new_modem, at>>
           /\ \/ /\ UNCHANGED <<mode_info, heap, made>>
                 /\ picked' \in {picked, active_modem}
              \/ \E m \in Modes :
                   /\ mode_info[m] # NoModem /\ picked' = mode_info[m]
                   /\ UNCHANGED <<mode_info, heap, made>>
              \/ \E m \in Modes :
                   /\ mode_info[m] = NoModem /\ picked' = <<m, made[m] + 1>>
                   /\ mode_info' = [mode_info EXCEPT ![m] = <<m, made[m] + 1>>]
                   /\ heap' = heap \cup {<<m, made[m] + 1>>}
                   /\ made' = [made EXCEPT ![m] = @ + 1]
<1>0. UNCHANGED <<active_modem, old_modem, new_modem, at>>
  BY DEF Picks, ChangeMode, ChangeModeSync, Waited, UserAbort, UserWithdraw, UserRxOnly, UserOrder,
         trxVars
<1>1. CASE \E m \in Modes : ChangeMode(m)
  BY <1>0, <1>1 DEF ChangeMode, Pick
<1>2. CASE \E m \in Modes : ChangeModeSync(m)
  BY <1>0, <1>2 DEF ChangeModeSync, AbortTx
<1>3. CASE Waited
  BY <1>0, <1>3 DEF Waited, Pick, Typed, TypeOK
<1>4. CASE UserAbort \/ UserWithdraw \/ UserRxOnly
  BY <1>0, <1>4 DEF UserAbort, UserWithdraw, UserRxOnly, UserOrder, AbortTx
<1> QED  BY <1>1, <1>2, <1>3, <1>4 DEF Picks

\* The others pick nothing; NameModem hands the picked one on.
LEMMA NotPicking ==
    ASSUME Orders \/ PsmStep \/ RemoteTransmit
    PROVE  /\ UNCHANGED <<active_modem, old_modem, mode_info, heap, made, picked, at, overlap>>
           /\ \/ UNCHANGED new_modem
              \/ new_modem' = picked /\ main \in Naming
<1>1. CASE Orders
  BY <1>1 DEF Orders, WaitTimesOut, NameModem, OrderModem, Settled, UserTransmit, UserStop,
     UserTune, UserReset, Close, Closing, UserOrder, Transmit, Naming, trxVars, modemVars
<1>2. CASE PsmStep \/ RemoteTransmit
  BY <1>2 DEF PsmStep, PsmClear, PsmTransmit, PsmUnstop, RemoteTransmit, trxVars, modemVars, mainVars
<1> QED  BY <1>1, <1>2

\* What the modem thread does to the modems, outside trx_start_modem_loop nothing.
LEMMA ThreadModems ==
    ASSUME Receives \/ BeginsToSend \/ Sends \/ Resetting
    PROVE  /\ UNCHANGED <<active_modem, old_modem, mode_info, heap>>
           /\ at \notin Starting
           /\ at' \notin Starting
           /\ trx_state' = trx_state \/ trx_state' # "NEW_MODEM"
<1>1. CASE Receives
  BY <1>1 DEF Receives, ReceiveIdle, ReceiveStart, ReceiveReady, ReceiveEnd, ReceiveOpenFails,
     ReadFails, Goes, Top, Starting, modemVars
<1>2. CASE BeginsToSend
  BY <1>2 DEF BeginsToSend, SendIdle, SendReady, SendStart, SendOpenFails, Top, Starting, modemVars
<1>3. CASE Sends
  BY <1>3 DEF Sends, SendTest, SendToRX, SendLeave, TuneLeave, SendDone, TuneDone, Unkey,
     Untune, SendFails, SendEnding, Goes, Starting, modemVars
<1>4. CASE Resetting
  BY <1>4 DEF Resetting, Restart, ResetDone, Abort, Ended, Goes, Top, Starting, modemVars
<1> QED  BY <1>1, <1>2, <1>3, <1>4

\* Numbers are given once: a modem that is known is never made again.
LEMMA NumberStep ==
    ASSUME Typed, ThreadStep \/ OtherStep, Numbers
    PROVE  Numbers'
<1> USE DEF Numbers, Numbered
<1>0. /\ mode_info \in [Modes -> Modems \cup {NoModem}] /\ made \in [Modes -> Nat]
      /\ {active_modem, new_modem, old_modem, picked} \subseteq Modems \cup {NoModem}
  BY DEF Typed, TypeOK
<1>1. CASE ThreadStep
  <2>0. UNCHANGED <<new_modem, picked, made>>
    BY <1>1, ThreadFrame DEF mainVars
  <2>1. CASE Receives \/ BeginsToSend \/ Sends \/ Resetting
    BY <2>0, <2>1, ThreadModems
  <2>2. CASE StartsModem
    <3>1. /\ old_modem' \in {old_modem, active_modem} /\ active_modem' \in {active_modem, new_modem}
          /\ \A m \in Modes : mode_info'[m] \in {mode_info[m], NoModem}
      BY <1>0, <2>2 DEF StartsModem, StartModem, Compare, Restarted, InitModem, Activate, Activated,
         LeaveModem, DeleteModem, modemVars
    <3> QED  BY <2>0, <3>1
  <2> QED  BY <1>1, <2>1, <2>2 DEF ThreadStep
<1>2. CASE Picks
  <2>1. CASE UNCHANGED <<mode_info, made>> /\ picked' \in {picked, active_modem}
    BY <1>2, <2>1, Picking
  <2>2. ASSUME NEW m \in Modes, mode_info[m] # NoModem, picked' = mode_info[m],
               UNCHANGED <<mode_info, made>>
        PROVE  Numbers'
    BY <1>2, <2>2, Picking
  <2>3. ASSUME NEW m \in Modes, picked' = <<m, made[m] + 1>>,
               mode_info' = [mode_info EXCEPT ![m] = <<m, made[m] + 1>>],
               made' = [made EXCEPT ![m] = @ + 1]
        PROVE  Numbers'
    <3>1. made'[m] = made[m] + 1 /\ \A n \in Modes : made[n] <= made'[n] /\ made[n] \in Nat
      BY <1>0, <2>3
    <3>2. \A x \in Modems : Numbered(x) => Numbered(x)'
      <4> SUFFICES ASSUME NEW x \in Modems, x[2] <= made[x[1]]
                   PROVE  x[2] <= made'[x[1]]
        BY ModemsDiffer
      <4>1. x[1] \in Modes /\ x[2] \in Nat
        BY ModemsDiffer
      <4>2. made[x[1]] <= made'[x[1]] /\ made[x[1]] \in Nat /\ made'[x[1]] \in Nat
        BY <1>0, <2>3, <4>1
      <4> QED  BY <4>1, <4>2
    <3>3. UNCHANGED <<active_modem, new_modem, old_modem>>
      BY <1>2, Picking
    <3>4. \A n \in Modes : mode_info'[n] # NoModem =>
            mode_info'[n][1] = n /\ mode_info'[n][2] <= made'[n]
      <4> SUFFICES ASSUME NEW n \in Modes, mode_info'[n] # NoModem
                   PROVE  mode_info'[n][1] = n /\ mode_info'[n][2] <= made'[n]
        OBVIOUS
      <4>1. CASE n = m
        BY <1>0, <2>3, <3>1, <4>1
      <4>2. CASE n # m
        BY <1>0, <2>3, <4>2
      <4> QED  BY <4>1, <4>2
    <3>5. /\ Numbered(active_modem)' /\ Numbered(new_modem)' /\ Numbered(old_modem)'
      BY <1>0, <3>2, <3>3
    <3>6. Numbered(picked)'
      BY <2>3, <3>1
    <3> QED  BY <3>4, <3>5, <3>6
  <2> QED  BY <1>2, <2>1, <2>2, <2>3, Picking
<1>3. CASE Orders \/ PsmStep \/ RemoteTransmit
  BY <1>3, NotPicking
<1> QED  BY <1>1, <1>2, <1>3 DEF OtherStep

\* The entry is emptied before its modem is deleted, and a modem made in between has
\* another number (trx_start_modem_loop).
LEMMA TableStep ==
    ASSUME Typed, ThreadStep \/ OtherStep, Numbers, OutOfTable, TableAlive
    PROVE  OutOfTable' /\ TableAlive'
<1> USE DEF OutOfTable, TableAlive
<1>0. /\ mode_info \in [Modes -> Modems \cup {NoModem}] /\ made \in [Modes -> Nat]
      /\ old_modem \in Modems \cup {NoModem}
  BY DEF Typed, TypeOK
<1>1. CASE Receives \/ BeginsToSend \/ Sends \/ Resetting
  BY <1>1, ThreadModems DEF Starting
<1>2. CASE StartsModem
  <2>1. CASE StartModem \/ Compare \/ Restarted \/ InitModem \/ Activate \/ Activated
    BY <2>1 DEF StartModem, Compare, Restarted, InitModem, Activate, Activated, Goes, Top, modemVars
  <2>2. CASE LeaveModem
    <3>1. /\ old_modem \in Modems /\ old_modem[1] \in Modes
          /\ mode_info' = [mode_info EXCEPT ![old_modem[1]] = NoModem]
          /\ at' = "delete" /\ UNCHANGED <<old_modem, heap>>
      BY <1>0, <2>2, ModemsDiffer DEF LeaveModem, Goes
    <3>2. \A m \in Modes : mode_info'[m] # old_modem
      <4> SUFFICES ASSUME NEW m \in Modes
                   PROVE  mode_info'[m] # old_modem
        OBVIOUS
      <4>1. CASE m = old_modem[1]
        BY <1>0, <3>1, <4>1, ModemsDiffer
      <4>2. CASE m # old_modem[1]
        BY <1>0, <3>1, <4>2, ModemsDiffer DEF Numbers
      <4> QED  BY <4>1, <4>2
    <3>3. \A m \in Modes : mode_info'[m] \in {mode_info[m], NoModem}
      BY <1>0, <3>1
    <3> QED  BY <3>1, <3>2, <3>3, ModemsDiffer
  <2>3. CASE DeleteModem
    BY <2>3 DEF DeleteModem, Goes
  <2> QED  BY <1>2, <2>1, <2>2, <2>3 DEF StartsModem
<1>3. CASE Picks
  <2>0. UNCHANGED <<at, old_modem>>
    BY <1>3, Picking
  <2>1. CASE UNCHANGED <<mode_info, heap>>
    BY <2>0, <2>1
  <2>2. ASSUME NEW m \in Modes,
               mode_info' = [mode_info EXCEPT ![m] = <<m, made[m] + 1>>],
               heap' = heap \cup {<<m, made[m] + 1>>}
        PROVE  OutOfTable' /\ TableAlive'
    <3>1. at = "delete" => old_modem # <<m, made[m] + 1>>
      <4> SUFFICES ASSUME old_modem = <<m, made[m] + 1>>, at = "delete"
                   PROVE  FALSE
        OBVIOUS
      <4>1. made[m] + 1 <= made[m]
        BY DEF Numbers, Numbered
      <4> QED  BY <1>0, <4>1
    <3>2. \A n \in Modes : mode_info'[n] \in {mode_info[n], <<m, made[m] + 1>>}
      BY <1>0, <2>2
    <3>3. TableAlive'
      BY <2>2, <3>2
    <3>4. OutOfTable'
      BY <2>0, <3>1, <3>2
    <3> QED  BY <3>3, <3>4
  <2> QED  BY <1>3, <2>1, <2>2, Picking
<1>4. CASE Orders \/ PsmStep \/ RemoteTransmit
  BY <1>4, NotPicking
<1> QED  BY <1>1, <1>2, <1>3, <1>4 DEF ThreadStep, OtherStep

\* While no order has met another, what is picked, ordered, taken over and deleted
\* are the modems they should be (trx_start_modem, trx_start_modem_loop).
LEMMA OwnStep ==
    ASSUME Typed, ThreadStep \/ OtherStep, TableAlive, Owned, ActiveAlive
    PROVE  Owned' /\ ActiveAlive'
<1> SUFFICES ASSUME ~overlap'
             PROVE  PickedAlive' /\ NewAlive' /\ OldApart' /\ active_modem' \in heap' \cup {NoModem}
  BY DEF Owned, ActiveAlive
<1> DEFINE Good == PickedAlive' /\ NewAlive' /\ OldApart' /\ active_modem' \in heap' \cup {NoModem}
<1>1. CASE ThreadStep
  <2>0. UNCHANGED <<new_modem, picked, main, overlap>>
    BY <1>1, ThreadFrame DEF mainVars
  <2>1. PickedAlive /\ NewAlive /\ OldApart /\ active_modem \in heap \cup {NoModem}
    BY <2>0 DEF Owned, ActiveAlive
  <2>2. CASE Receives \/ BeginsToSend \/ Sends \/ Resetting
    BY <2>0, <2>1, <2>2, ThreadModems DEF PickedAlive, NewAlive, OldApart, Starting
  <2>3. CASE StartsModem
    <3>1. at \in Starting \/ trx_state = "NEW_MODEM"
      BY <2>3 DEF StartsModem, StartModem, Compare, Restarted, InitModem, Activate, Activated,
         LeaveModem, DeleteModem, Goes, Top, Starting
    <3>2. main' \notin Naming \cup Ordering
      BY <2>0, <2>1, <3>1 DEF PickedAlive
    <3>3. CASE StartModem \/ Compare \/ Restarted
      BY <2>0, <2>1, <3>2, <3>3 DEF StartModem, Compare, Restarted, Goes, Top, modemVars,
         PickedAlive, NewAlive, OldApart
    <3>4. CASE InitModem \/ Activate \/ Activated
      BY <2>0, <2>1, <3>2, <3>4 DEF InitModem, Activate, Activated, Goes, modemVars,
         PickedAlive, NewAlive, OldApart
    <3>5. CASE LeaveModem \/ DeleteModem
      BY <2>0, <2>1, <3>2, <3>5 DEF LeaveModem, DeleteModem, Goes, modemVars,
         PickedAlive, NewAlive, OldApart
    <3> QED  BY <2>3, <3>3, <3>4, <3>5 DEF StartsModem
  <2> QED  BY <1>1, <2>2, <2>3 DEF ThreadStep
<1>2. CASE Picks
  <2>0. UNCHANGED <<active_modem, old_modem, new_modem, at>> /\ heap \subseteq heap'
    BY <1>2, Picking
  <2>1. ~overlap
    BY <1>2 DEF Picks, ChangeMode, ChangeModeSync, Waited, UserAbort, UserWithdraw, UserRxOnly,
       Pick, AbortTx
  <2>2. PickedAlive /\ NewAlive /\ OldApart /\ active_modem \in heap \cup {NoModem}
    BY <2>1 DEF Owned, ActiveAlive
  <2>3. trx_state' = trx_state \/ trx_state' # "NEW_MODEM"
    BY <1>2 DEF Picks, ChangeMode, ChangeModeSync, Waited, UserAbort, UserWithdraw, UserRxOnly,
       UserOrder, AbortTx
  <2>4. NewAlive' /\ OldApart' /\ active_modem' \in heap' \cup {NoModem}
    BY <2>0, <2>2, <2>3 DEF NewAlive, OldApart
  <2>5. PickedAlive'
    <3>1. main \notin Naming \cup Ordering /\ main' \notin Ordering
      BY <1>2 DEF Picks, ChangeMode, ChangeModeSync, Waited, UserAbort, UserWithdraw, UserRxOnly,
         UserOrder, Pick, AbortTx, Naming, Ordering
    <3>2. ASSUME main' \in Naming
          PROVE  at \notin Starting /\ trx_state' # "NEW_MODEM" /\ picked' \in heap'
      <4>1. ASSUME NEW m \in Modes, NEW place, Pick(m, place), UNCHANGED trx_state
            PROVE  at \notin Starting /\ trx_state' # "NEW_MODEM" /\ picked' \in heap'
        BY <4>1 DEF Pick, TableAlive
      <4>2. ASSUME NEW place, NEW idle, AbortTx(place, idle), main' # idle, UNCHANGED heap
            PROVE  at \notin Starting /\ trx_state' # "NEW_MODEM" /\ picked' \in heap'
        <5>1. trx_state = "TX" /\ picked' = active_modem /\ at \notin Starting /\ UNCHANGED trx_state
          BY <4>2 DEF AbortTx
        <5>2. active_modem \in heap
          BY <2>2, <5>1 DEF Typed, HasModem
        <5> QED  BY <4>2, <5>1, <5>2
      <4>3. ASSUME NEW m \in Modes, ChangeMode(m)
            PROVE  at \notin Starting /\ trx_state' # "NEW_MODEM" /\ picked' \in heap'
        BY <4>1, <4>3 DEF ChangeMode
      <4>4. ASSUME NEW m \in Modes, ChangeModeSync(m)
            PROVE  at \notin Starting /\ trx_state' # "NEW_MODEM" /\ picked' \in heap'
        BY <3>2, <4>2, <4>4 DEF ChangeModeSync, Naming
      <4>5. CASE Waited
        BY <4>1, <4>5 DEF Waited, Typed, TypeOK
      <4>6. CASE UserAbort \/ UserWithdraw \/ UserRxOnly
        BY <3>2, <4>2, <4>6 DEF UserAbort, UserWithdraw, UserRxOnly, UserOrder, Naming
      <4> QED  BY <1>2, <4>3, <4>4, <4>5, <4>6 DEF Picks
    <3> QED  BY <2>0, <3>1, <3>2 DEF PickedAlive
  <2> QED  BY <2>4, <2>5
<1>3. CASE Orders
  <2>0. /\ UNCHANGED <<active_modem, old_modem, heap, picked, at, overlap>>
        /\ \/ UNCHANGED new_modem
           \/ new_modem' = picked /\ main \in Naming
    BY <1>3, NotPicking
  <2>1. PickedAlive /\ NewAlive /\ OldApart /\ active_modem \in heap \cup {NoModem}
    BY <2>0 DEF Owned, ActiveAlive
  <2>2. CASE NameModem
    <3>1. /\ main \in Naming /\ main' \in Ordering /\ new_modem' = picked
          /\ UNCHANGED trx_state
      BY <2>2 DEF NameModem, Naming, Ordering
    <3> QED  BY <2>0, <2>1, <3>1 DEF PickedAlive, NewAlive, OldApart, Starting
  <2>3. CASE OrderModem
    <3>1. /\ main \in Ordering /\ main' \notin Naming \cup Ordering
          /\ trx_state' = "NEW_MODEM" /\ UNCHANGED new_modem
      BY <2>3 DEF OrderModem, Naming, Ordering, modemVars
    <3> QED  BY <2>0, <2>1, <3>1 DEF PickedAlive, NewAlive, OldApart, Starting
  <2>4. CASE ~NameModem /\ ~OrderModem
    <3>1. /\ main \notin Naming \cup Ordering /\ main' \notin Naming \cup Ordering
          /\ UNCHANGED new_modem
          /\ trx_state' = trx_state \/ trx_state' # "NEW_MODEM"
      BY <1>3, <2>4 DEF Orders, WaitTimesOut, Settled, UserTransmit, UserStop, UserTune, UserReset,
         Close, Closing, UserOrder, Transmit, Naming, Ordering, modemVars
    <3> QED  BY <2>0, <2>1, <3>1 DEF PickedAlive, NewAlive, OldApart
  <2> QED  BY <2>2, <2>3, <2>4
<1>4. CASE PsmStep \/ RemoteTransmit
  <2>0. UNCHANGED <<active_modem, old_modem, heap, picked, at, overlap>>
    BY <1>4, NotPicking
  <2>1. PickedAlive /\ NewAlive /\ OldApart /\ active_modem \in heap \cup {NoModem}
    BY <2>0 DEF Owned, ActiveAlive
  <2>2. /\ UNCHANGED <<new_modem, main>>
        /\ trx_state' = trx_state \/ trx_state' # "NEW_MODEM"
    BY <1>4 DEF PsmStep, PsmClear, PsmTransmit, PsmUnstop, RemoteTransmit, Transmit, modemVars,
       mainVars
  <2> QED  BY <2>0, <2>1, <2>2 DEF PickedAlive, NewAlive, OldApart
<1> QED  BY <1>1, <1>2, <1>3, <1>4 DEF OtherStep

---------------------------------------------------------------------------
LEMMA Initially == Init => IInv
<1> SUFFICES ASSUME Init
             PROVE  IInv
  OBVIOUS
<1>0. \/ snd = [rx |-> "closed", tx |-> "closed", rxopen |-> FALSE, txopen |-> FALSE,
                rxrate |-> 0, txrate |-> 0]
      \/ snd = [rx |-> "closed", tx |-> "open", rxopen |-> FALSE, txopen |-> TRUE,
                rxrate |-> 0, txrate |-> 0]
      \/ snd = [rx |-> "none", tx |-> "none", rxopen |-> FALSE, txopen |-> FALSE,
                rxrate |-> 0, txrate |-> 0]
  BY DEF Init, Started, FullDuplex
<1>1. TypeOK
  <2>1. snd \in Snd
    <3>1. 0 \in Rates
      BY DEF Rates
    <3>2. [rx |-> "closed", tx |-> "closed", rxopen |-> FALSE, txopen |-> FALSE,
           rxrate |-> 0, txrate |-> 0] \in Snd
      BY <3>1 DEF Snd, Card
    <3>3. [rx |-> "closed", tx |-> "open", rxopen |-> FALSE, txopen |-> TRUE,
           rxrate |-> 0, txrate |-> 0] \in Snd
      BY <3>1 DEF Snd, Card
    <3>4. [rx |-> "none", tx |-> "none", rxopen |-> FALSE, txopen |-> FALSE,
           rxrate |-> 0, txrate |-> 0] \in Snd
      BY <3>1 DEF Snd, Card
    <3> QED  BY <1>0, <3>2, <3>3, <3>4
  <2> QED  BY <2>1 DEF Init, TypeOK, States, Places, MainPlaces
<1>2. HasModem /\ HasPicked /\ HasNew
  BY DEF Init, HasModem, HasPicked, HasNew, Naming, Ordering, TxPlaces, TunePlaces
<1>3. CardsKept /\ NoneClosed /\ CardsOpen /\ EndedClean /\ ClosedCleanly /\ KeyedInTransmission
  BY <1>0 DEF Init, CardsKept, NoneClosed, CardsOpen, EndedClean, ClosedCleanly,
     KeyedInTransmission, TxPlaces, TunePlaces
<1>4. Numbers /\ OutOfTable /\ TableAlive
  BY DEF Init, Numbers, Numbered, OutOfTable, TableAlive
<1>5. Owned /\ ActiveAlive
  BY DEF Init, Owned, PickedAlive, NewAlive, OldApart, ActiveAlive, Naming, Ordering
<1> QED  BY <1>1, <1>2, <1>3, <1>4, <1>5 DEF IInv, Typed

\* A step that changes nothing breaks nothing.
LEMMA Stutters ==
    ASSUME IInv, UNCHANGED vars
    PROVE  IInv'
BY DEF IInv, Typed, TypeOK, HasModem, HasPicked, HasNew, CardsKept, NoneClosed, CardsOpen, EndedClean,
       ClosedCleanly, KeyedInTransmission, Numbers, Numbered, OutOfTable, TableAlive, Owned,
       PickedAlive, NewAlive, OldApart, ActiveAlive, FullDuplex, vars, modemVars, keyVars, psmVars, mainVars

\* The inductive invariant holds in every reachable state.
THEOREM TrxInvariance == Spec => []IInv
<1>1. ASSUME IInv, [Next]_vars
      PROVE  IInv'
  <2>1. (ThreadStep \/ OtherStep) => IInv'
    BY <1>1, Steps, TypeStep, ModemStep, NamedStep, CardsStep, NoneStep, EndStep, KeyStep,
       NumberStep, TableStep, OwnStep DEF IInv, Typed
  <2> QED  BY <1>1, <2>1, Steps, Stutters
<1> QED  BY <1>1, Initially, PTL DEF Spec

\* The state variables keep their types: a modem is named before it is ordered, and
\* only whoever has one sends, for any modes, rates and number of orders.
THEOREM TrxTypeCorrect == Spec => []TypeOK
<1>1. IInv => TypeOK
  BY DEF IInv, Typed
<1> QED  BY <1>1, TrxInvariance, PTL

\* The modem thread writes to open cards only, and reads from open cards only unless in
\* full duplex a reset has left a card to receive from and none to send to (trx_loop,
\* trx_reset_loop).
THEOREM CardsAlwaysOpen == Spec => []CardsOpen
<1>1. IInv => CardsOpen
  BY DEF IInv
<1> QED  BY <1>1, TrxInvariance, PTL

\* The transmitter is keyed within the two sending loops only, unless an exception
\* has ended one (trx_trx_transmit_loop, trx_tune_loop).
THEOREM KeyedOnlySending == Spec => []KeyedInTransmission
<1>1. IInv => KeyedInTransmission
  BY DEF IInv
<1> QED  BY <1>1, TrxInvariance, PTL

\* A mode offers no deleted modem (trx_start_modem_loop).
THEOREM TableStaysAlive == Spec => []TableAlive
<1>1. IInv => TableAlive
  BY DEF IInv
<1> QED  BY <1>1, TrxInvariance, PTL

\* The modem in use is not deleted, as long as no modem is picked while the modem
\* thread takes over another (trx_start_modem, trx_start_modem_loop).
THEOREM ActiveStaysAlive == Spec => []ActiveAlive
<1>1. IInv => ActiveAlive
  BY DEF IInv
<1> QED  BY <1>1, TrxInvariance, PTL

\* trx_close goes on behind the end of the modem thread (trx_close).
THEOREM ClosedBehindThread == Spec => []ClosedCleanly
<1>1. IInv => ClosedCleanly
  BY DEF IInv
<1> QED  BY <1>1, TrxInvariance, PTL
=============================================================================
