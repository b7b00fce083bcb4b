-------------------------------- MODULE Trx --------------------------------
(***************************************************************************)
(* The modem thread of fldigi (trx_loop) and those who give it orders by   *)
(* writing trx_state, which no lock protects: the main thread, the psm     *)
(* thread, which holds a transmission back while the channel is busy, and  *)
(* the threads of the remote interfaces.                                   *)
(***************************************************************************)
EXTENDS Naturals, Sequences, FiniteSets

CONSTANTS
    Modes,          \* the modes a user may choose
    Rate,           \* Rate[m]: the sample rate of the modem of mode m
    ResetRate,      \* the rate at which trx_reset_loop opens the cards (8000)
    MaxModems,      \* bound: modems made for one mode
    MaxOrders       \* bound: what users and remote threads do

ASSUME TrxAssumption ==
    /\ Rate \in [Modes -> Nat \ {0}]
    /\ ResetRate \in Nat \ {0}
    /\ MaxModems \in Nat /\ MaxOrders \in Nat

VARIABLES
    trx_state,
    at,             \* where the modem thread is
    active_modem, new_modem, old_modem,
    mode_info,      \* mode_info[m]: the modem kept for mode m
    heap,           \* the modems that are not deleted
    made,           \* made[m]: modems made for mode m
    stopflag,       \* the modems whose stopflag is set
    snd,            \* both cards, RXsc_is_open, TXsc_is_open and both rates
    ptt,            \* push2talk keys the transmitter
    deadman,        \* the deadman timer runs
    failed,         \* history: an exception has left a transmission keyed
    overlap,        \* history: a modem was picked while another was being taken over
    rx_only,
    request_transmit_flag,
    psm,            \* where the psm thread is
    main,           \* where the main thread is
    picked,         \* the argument of its trx_start_modem
    target,         \* the mode init_modem_sync is to set
    tuning,         \* the Tune button is on
    settings,       \* what the user chose before trx_start
    orders          \* orders given so far

\* progdefaults.is_full_duplex.
FullDuplex == settings.full_duplex

\* The busy-channel delay is on: show_psm_btn and kpsql_enabled.
Psm == settings.psm

modemVars == <<active_modem, new_modem, old_modem, mode_info, heap, made, stopflag>>
keyVars   == <<ptt, deadman, failed>>
psmVars   == <<request_transmit_flag, psm>>
mainVars  == <<main, picked, target, tuning, orders, overlap, rx_only>>
vars == <<trx_state, at, modemVars, snd, keyVars, psmVars, mainVars, settings>>

States == {"RX", "TX", "TUNE", "NEW_MODEM", "RESTART", "ABORT", "ENDED"}

\* A modem is known by its mode and the number it was made with.
Modems == Modes \X (Nat \ {0})
NoModem == <<>>

TxPlaces   == {"rsid", "rsidToRX", "send", "ending", "toRX", "sent", "unkey"}
TunePlaces == {"tune", "tuned", "untune"}
Starting   == {"compare", "same", "init", "activate", "activated", "leave", "delete"}
Places == TxPlaces \cup TunePlaces \cup Starting \cup
          {"top", "read", "resetDone", "aborted", "gone", "crashed"}

\* idle and wait: waiting for RX before, settle: after the change of modem.
MainPlaces == {"idle", "name", "order", "wait", "nameWait", "orderWait", "settle",
               "nameSettle", "orderSettle", "stop", "stopped", "abort", "closed", "exit"}

Rates == {0, ResetRate} \cup {Rate[m] : m \in Modes}

Card == {"none", "closed", "open"}
Snd == [rx : Card, tx : Card, rxopen : BOOLEAN, txopen : BOOLEAN,
        rxrate : Rates, txrate : Rates]

TypeOK ==
    /\ trx_state \in States
    /\ at \in Places
    /\ {active_modem, new_modem, old_modem, picked} \subseteq Modems \cup {NoModem}
    /\ mode_info \in [Modes -> Modems \cup {NoModem}]
    /\ heap \subseteq Modems
    /\ made \in [Modes -> Nat]
    /\ stopflag \subseteq Modems
    /\ snd \in Snd
    /\ {ptt, deadman, failed, overlap, rx_only, tuning, request_transmit_flag} \subseteq BOOLEAN
    /\ psm \in {"rest", "clear", "started"}
    /\ main \in MainPlaces
    /\ target \in Modes
    /\ settings \in [full_duplex : BOOLEAN, psm : BOOLEAN]
    /\ orders \in Nat

\* trx_start opens no card but PulseAudio's to send to, which full duplex keeps open
\* and without which there is none.
Started ==
    LET fresh == [rx |-> "closed", tx |-> "closed", rxopen |-> FALSE, txopen |-> FALSE,
                  rxrate |-> 0, txrate |-> 0]
    IN  {fresh,
         [fresh EXCEPT !.tx = IF FullDuplex THEN "open" ELSE @, !.txopen = FullDuplex],
         [fresh EXCEPT !.rx = "none", !.tx = "none"]}

\* The main thread sets the first mode.
Init ==
    /\ trx_state = "RX" /\ at = "top"
    /\ active_modem = NoModem /\ new_modem = NoModem /\ old_modem = NoModem
    /\ mode_info = [m \in Modes |-> NoModem]
    /\ heap = {} /\ made = [m \in Modes |-> 0] /\ stopflag = {}
    /\ settings \in [full_duplex : BOOLEAN, psm : BOOLEAN]
    /\ snd \in Started
    /\ ptt = FALSE /\ deadman = FALSE /\ failed = FALSE /\ overlap = FALSE
    /\ rx_only = FALSE /\ tuning = FALSE /\ request_transmit_flag = FALSE /\ psm = "rest"
    /\ main = "wait" /\ picked = NoModem /\ target \in Modes
    /\ orders = 0

---------------------------------------------------------------------------
(* The modem thread *)

\* trx_loop has come back to its switch and finds state s.
Top(s) == at = "top" /\ trx_state = s

Goes(here, there) == at = here /\ at' = there

ModemRate == Rate[active_modem[1]]

\* RX: stop_deadman; then the receive loop, unless there is no modem or no card.
ReceiveIdle ==
    /\ Top("RX")
    /\ active_modem = NoModem \/ snd.rx = "none"
    /\ deadman' = FALSE
    /\ UNCHANGED <<trx_state, at, modemVars, snd, ptt, failed, psmVars, mainVars>>

ReceiveReady ==
    /\ Top("RX")
    /\ active_modem # NoModem /\ snd.rx # "none"
    /\ deadman' = FALSE
    /\ UNCHANGED <<trx_state, modemVars, ptt, failed, psmVars, mainVars>>

MustOpenRx == ~FullDuplex \/ ~snd.rxopen \/ snd.rxrate # ModemRate

\* SoundNull::Open succeeds without RXsc_is_open being set.
ReceiveStart ==
    /\ ReceiveReady
    /\ at' = "read"
    /\ IF MustOpenRx
       THEN \E flag \in {snd.rxopen, TRUE} :
              snd' = [snd EXCEPT !.rx = "open", !.rxopen = flag, !.rxrate = ModemRate]
       ELSE UNCHANGED snd

ReceiveOpenFails ==
    /\ ReceiveReady /\ MustOpenRx
    /\ at' = "top"
    /\ snd' = [snd EXCEPT !.rx = "closed", !.rxopen = FALSE, !.rxrate = 0]

ReadFails ==
    /\ Goes("read", "top")
    /\ snd' = [snd EXCEPT !.rx = "closed", !.rxopen = FALSE]
    /\ UNCHANGED <<trx_state, modemVars, keyVars, psmVars, mainVars>>

\* The loop reads until trx_state is another; a restart leaves the card to reset.
ReceiveEnd ==
    /\ trx_state # "RX"
    /\ Goes("read", "top")
    /\ snd' = IF trx_state = "RESTART" \/ FullDuplex
              THEN snd
              ELSE [snd EXCEPT !.rx = "closed", !.rxopen = FALSE]
    /\ UNCHANGED <<trx_state, modemVars, keyVars, psmVars, mainVars>>

\* TX and TUNE: start_deadman; with rx_only or without a card back to the switch.
\* (Nobody orders them before there is a modem.)
SendIdle(s) ==
    /\ Top(s)
    /\ rx_only \/ snd.tx = "none"
    /\ deadman' = TRUE
    /\ UNCHANGED <<trx_state, at, modemVars, snd, ptt, failed, psmVars, mainVars>>

SendReady(s) ==
    /\ Top(s)
    /\ ~rx_only /\ snd.tx # "none"
    /\ deadman' = TRUE
    /\ UNCHANGED <<trx_state, modemVars, failed, psmVars, mainVars>>

\* The transmitter is keyed, whatever mode of the two it is (SSB and ANALYSIS do not
\* key it).  A transmission keeps a card that is open at the modem's rate, tuning does so in
\* full duplex only.
MustOpenTx(s) ==
    \/ snd.txrate # ModemRate \/ ~snd.txopen
    \/ s = "TUNE" /\ ~FullDuplex

SendStart(s, place) ==
    /\ SendReady(s)
    /\ at' = place
    /\ ptt' = TRUE
    /\ snd' = IF MustOpenTx(s)
              THEN [snd EXCEPT !.tx = "open", !.txopen = TRUE, !.txrate = ModemRate]
              ELSE snd

\* Slip: the rate is kept although the card could not be opened.
SendOpenFailsKeepingRate(s) ==
    /\ SendReady(s) /\ MustOpenTx(s)
    /\ at' = "top"
    /\ snd' = [snd EXCEPT !.tx = "closed", !.txrate = ModemRate]
    /\ UNCHANGED ptt

\* Not opened: TXsc_is_open stays, the rate 0 has the next try open the card.
SendOpenFails(s) ==
    /\ SendReady(s) /\ MustOpenTx(s)
    /\ at' = "top"
    /\ snd' = [snd EXCEPT !.tx = "closed", !.txrate = 0]
    /\ UNCHANGED ptt

\* An exception while sending or tuning leaves the function at once: the
\* transmitter stays keyed.
SendFails ==
    /\ at \in {"send", "tune", "tuned"} /\ at' = "top"
    /\ snd' = [snd EXCEPT !.tx = "closed", !.txopen = FALSE, !.txrate = 0]
    /\ failed' = TRUE
    /\ UNCHANGED <<trx_state, modemVars, ptt, deadman, psmVars, mainVars>>

\* tx_process has nothing more to send, or it found the stopflag and took it back.
SendEnding ==
    /\ trx_state = "TX"
    /\ Goes("send", "ending")
    /\ stopflag' = stopflag \ {active_modem}
    /\ UNCHANGED <<trx_state, active_modem, new_modem, old_modem, mode_info, heap, made>>
    /\ UNCHANGED <<snd, keyVars, psmVars, mainVars>>

\* trx_state is tested first and written after.  Only an abort is respected, and a
\* restart where n_rsids < 0 had nothing but identifiers sent.
SendTest ==
    /\ \/ Goes("ending", IF trx_state = "ABORT" THEN "send" ELSE "toRX")
       \/ Goes("rsid", IF trx_state \in {"ABORT", "RESTART"} THEN "sent" ELSE "rsidToRX")
    /\ UNCHANGED <<trx_state, modemVars, snd, keyVars, psmVars, mainVars>>

SendToRX ==
    /\ Goes("toRX", "send") \/ Goes("rsidToRX", "sent")
    /\ trx_state' = "RX"
    /\ UNCHANGED <<modemVars, snd, keyVars, psmVars, mainVars>>

\* Slip: the loop does not look at trx_state.
SendLeaveAtRX ==
    /\ trx_state \in {"RX", "ABORT"}
    /\ Goes("send", "sent")
    /\ UNCHANGED <<trx_state, modemVars, snd, keyVars, psmVars, mainVars>>

SendLeave ==
    /\ trx_state # "TX"
    /\ Goes("send", "sent")
    /\ UNCHANGED <<trx_state, modemVars, snd, keyVars, psmVars, mainVars>>

CloseTx ==
    snd' = IF trx_state = "RX" /\ ~FullDuplex
           THEN [snd EXCEPT !.tx = "closed", !.txopen = FALSE]
           ELSE snd

SendDone ==
    /\ Goes("sent", "unkey")
    /\ CloseTx
    /\ UNCHANGED <<trx_state, modemVars, keyVars, psmVars, mainVars>>

TuneLeave ==
    /\ trx_state # "TUNE"
    /\ Goes("tune", "tuned")
    /\ UNCHANGED <<trx_state, modemVars, snd, keyVars, psmVars, mainVars>>

TuneDone ==
    /\ Goes("tuned", "untune")
    /\ CloseTx
    /\ UNCHANGED <<trx_state, modemVars, keyVars, psmVars, mainVars>>

\* Slip: psm_transmit_ended and WriteARQ, but the transmitter stays keyed.
UnkeyNot ==
    /\ Goes("unkey", "top")
    /\ request_transmit_flag' = FALSE
    /\ UNCHANGED <<trx_state, modemVars, snd, keyVars, psm, mainVars>>

\* psm_transmit_ended forgets what was requested while this one went on.
Unkey ==
    /\ Goes("unkey", "top")
    /\ ptt' = FALSE /\ failed' = FALSE
    /\ request_transmit_flag' = FALSE
    /\ UNCHANGED <<trx_state, modemVars, snd, deadman, psm, mainVars>>

Untune ==
    /\ Goes("untune", "top")
    /\ ptt' = FALSE /\ failed' = FALSE
    /\ UNCHANGED <<trx_state, modemVars, snd, deadman, psmVars, mainVars>>

\* NEW_MODEM: trx_start_modem_loop, which reads new_modem three times.
StartModem ==
    /\ Top("NEW_MODEM") /\ at' = "compare"
    /\ UNCHANGED <<trx_state, modemVars, snd, keyVars, psmVars, mainVars>>

\* Slip: the modem in use is not recognised.
CompareNever ==
    /\ Goes("compare", "init")
    /\ old_modem' = active_modem
    /\ UNCHANGED <<trx_state, active_modem, new_modem, mode_info, heap, made, stopflag>>
    /\ UNCHANGED <<snd, keyVars, psmVars, mainVars>>

Compare ==
    /\ Goes("compare", IF new_modem = active_modem THEN "same" ELSE "init")
    /\ old_modem' = active_modem
    /\ UNCHANGED <<trx_state, active_modem, new_modem, mode_info, heap, made, stopflag>>
    /\ UNCHANGED <<snd, keyVars, psmVars, mainVars>>

\* The modem in use is restarted; how abort_tx ends a transmission.
Restarted ==
    /\ Goes("same", "top")
    /\ trx_state' = "RX"
    /\ UNCHANGED <<modemVars, snd, keyVars, psmVars, mainVars>>

InitModem ==
    /\ Goes("init", "activate")
    /\ stopflag' = stopflag \ {new_modem}
    /\ UNCHANGED <<trx_state, active_modem, new_modem, old_modem, mode_info, heap, made>>
    /\ UNCHANGED <<snd, keyVars, psmVars, mainVars>>

Activate ==
    /\ Goes("activate", "activated")
    /\ active_modem' = new_modem
    /\ UNCHANGED <<trx_state, new_modem, old_modem, mode_info, heap, made, stopflag>>
    /\ UNCHANGED <<snd, keyVars, psmVars, mainVars>>

\* RX is announced before the old modem is out of the table.
Activated ==
    /\ Goes("activated", IF old_modem = NoModem THEN "top" ELSE "leave")
    /\ trx_state' = "RX"
    /\ UNCHANGED <<modemVars, snd, keyVars, psmVars, mainVars>>

\* Slip: deleted, but still in the table.
LeaveModemKept ==
    /\ Goes("leave", "delete")
    /\ UNCHANGED <<trx_state, modemVars, snd, keyVars, psmVars, mainVars>>

LeaveModem ==
    /\ Goes("leave", "delete")
    /\ mode_info' = [mode_info EXCEPT ![old_modem[1]] = NoModem]
    /\ UNCHANGED <<trx_state, active_modem, new_modem, old_modem, heap, made, stopflag>>
    /\ UNCHANGED <<snd, keyVars, psmVars, mainVars>>

\* A second delete of a modem is taken to end the program.
DeleteModem ==
    /\ Goes("delete", IF old_modem \in heap THEN "top" ELSE "crashed")
    /\ heap' = heap \ {old_modem}
    /\ UNCHANGED <<trx_state, active_modem, new_modem, old_modem, mode_info, made, stopflag>>
    /\ UNCHANGED <<snd, keyVars, psmVars, mainVars>>

\* RESTART: the cards are deleted, which clears the flags of those there were.
Discarded == [snd EXCEPT !.rxopen = @ /\ snd.rx = "none", !.txopen = @ /\ snd.tx = "none"]

ResetNull ==
    [Discarded EXCEPT !.rx = "closed", !.tx = "closed", !.rxrate = 0, !.txrate = 0]

\* Slip: the rate in kHz.
ResetIPInKilo == [Discarded EXCEPT !.rx = "open", !.tx = "closed", !.rxrate = ResetRate \div 1000]

\* SoundIP receives, a SoundNull takes what is sent.
ResetIP == [Discarded EXCEPT !.rx = "open", !.tx = "closed", !.rxrate = ResetRate]

\* SoundPort::Open returns 0 for a stream it has opened, so the flags stay FALSE; only
\* another try in full duplex finds the receiving stream open and sets the flag.
ResetPort ==
    {[Discarded EXCEPT
        !.rx = "open", !.rxopen = again, !.rxrate = ResetRate,
        !.tx = IF FullDuplex THEN "open" ELSE "closed", !.txopen = FALSE,
        !.txrate = IF FullDuplex THEN ResetRate ELSE @] : again \in {FALSE, FullDuplex}}

\* Ten tries, with both rates set or the first only.
ResetPortFails ==
    {[rx |-> "none", tx |-> "none", rxopen |-> FALSE, txopen |-> FALSE,
      rxrate |-> ResetRate, txrate |-> rate] : rate \in {snd.txrate, ResetRate}}

ResetPulse ==
    [Discarded EXCEPT
        !.rx = "open", !.rxopen = TRUE, !.rxrate = ResetRate,
        !.tx = IF FullDuplex THEN "open" ELSE "closed", !.txopen = FullDuplex,
        !.txrate = ResetRate]

\* No card is left, but RXsc_is_open stays TRUE when the one to send to fails.
ResetPulseFails ==
    LET none == [Discarded EXCEPT !.rx = "none", !.tx = "none", !.rxrate = ResetRate]
    IN  {none, [none EXCEPT !.rxopen = TRUE, !.txrate = ResetRate]}

ResetOSS ==
    [Discarded EXCEPT !.rx = "open", !.rxopen = TRUE, !.rxrate = ResetRate,
                      !.tx = "open", !.txopen = TRUE, !.txrate = ResetRate]

\* The cards stay as far as they were made, closed or not, and so do the flags.
ResetOSSFails ==
    LET receiving == [Discarded EXCEPT !.rx = "open", !.rxopen = TRUE, !.rxrate = ResetRate]
    IN  {[Discarded EXCEPT !.rx = "none", !.tx = "none"],
         [Discarded EXCEPT !.rx = "closed", !.tx = "none", !.rxrate = ResetRate],
         [receiving EXCEPT !.tx = "none"],
         [receiving EXCEPT !.tx = "closed", !.txrate = ResetRate]}

Resets ==
    {ResetNull, ResetIP, ResetPulse, ResetOSS} \cup
    ResetPort \cup ResetPortFails \cup ResetPulseFails \cup ResetOSSFails

Restart ==
    /\ Top("RESTART") /\ at' = "resetDone"
    /\ deadman' = FALSE
    /\ snd' \in Resets
    /\ UNCHANGED <<trx_state, modemVars, ptt, failed, psmVars, mainVars>>

ResetDone ==
    /\ Goes("resetDone", "top")
    /\ trx_state' = "RX"
    /\ UNCHANGED <<modemVars, snd, keyVars, psmVars, mainVars>>

\* ABORT: the receiving card is closed without a look whether there is one.
Abort ==
    /\ Top("ABORT")
    /\ IF snd.rx = "none"
       THEN at' = "crashed" /\ UNCHANGED snd
       ELSE at' = "aborted" /\ snd' = [snd EXCEPT !.rx = "none", !.tx = "none", !.rxopen = FALSE]
    /\ UNCHANGED <<trx_state, modemVars, keyVars, psmVars, mainVars>>

Ended ==
    /\ Goes("aborted", "gone")
    /\ trx_state' = "ENDED"
    /\ deadman' = FALSE
    /\ UNCHANGED <<modemVars, snd, ptt, failed, psmVars, mainVars>>

---------------------------------------------------------------------------
(* The main thread *)

trxVars == <<at, active_modem, old_modem, snd, keyVars>>

May == orders < MaxOrders /\ orders' = orders + 1

\* The pointer is taken from the table or a modem is made; what trx_start_modem
\* does with it comes later.
Pick(m, next) ==
    /\ LET id == <<m, made[m] + 1>>
       IN  IF mode_info[m] # NoModem
           THEN picked' = mode_info[m] /\ UNCHANGED <<mode_info, heap, made>>
           ELSE /\ made[m] < MaxModems
                /\ picked' = id
                /\ mode_info' = [mode_info EXCEPT ![m] = id]
                /\ heap' = heap \cup {id}
                /\ made' = [made EXCEPT ![m] = @ + 1]
    /\ overlap' = (overlap \/ at \in Starting \/ trx_state = "NEW_MODEM")
    /\ main' = next

\* abort_tx: the modem in use is started anew, or the tuning ended.
AbortTx(next, idle) ==
    /\ IF trx_state = "TX"
       THEN /\ picked' = active_modem /\ main' = next
            /\ overlap' = (overlap \/ at \in Starting)
       ELSE main' = idle /\ UNCHANGED <<picked, overlap>>
    /\ IF trx_state = "TUNE"
       THEN trx_state' = "RX" /\ tuning' = FALSE
       ELSE UNCHANGED <<trx_state, tuning>>

\* init_modem from the menu: nothing is waited for.
ChangeMode(m) ==
    /\ main = "idle" /\ active_modem # NoModem /\ May
    /\ Pick(m, "name")
    /\ UNCHANGED <<trx_state, new_modem, stopflag, trxVars, psmVars, target, tuning, rx_only>>

\* init_modem_sync: ends a transmission, waits for RX, changes and waits again.
ChangeModeSync(m) ==
    /\ main = "idle" /\ active_modem # NoModem /\ May
    /\ target' = m
    /\ IF trx_state = "RX"
       THEN main' = "wait" /\ UNCHANGED <<trx_state, picked, overlap, tuning>>
       ELSE AbortTx("nameWait", "wait")
    /\ UNCHANGED <<new_modem, mode_info, heap, made, stopflag, trxVars, psmVars, rx_only>>

Waited ==
    /\ main = "wait" /\ trx_state = "RX"
    /\ Pick(target, "nameSettle")
    /\ UNCHANGED <<trx_state, new_modem, stopflag, trxVars, psmVars, target, tuning, orders, rx_only>>

WaitTimesOut ==
    /\ main = "wait" /\ trx_state # "RX" /\ active_modem # NoModem
    /\ main' = "idle"
    /\ UNCHANGED <<trx_state, at, modemVars, snd, keyVars, psmVars>>
    /\ UNCHANGED <<picked, target, tuning, orders, overlap, rx_only>>

\* trx_start_modem: the modem first, then the order.
NameModem ==
    /\ main \in {"name", "nameWait", "nameSettle"}
    /\ new_modem' = picked
    /\ main' = [name |-> "order", nameWait |-> "orderWait", nameSettle |-> "orderSettle"][main]
    /\ UNCHANGED <<trx_state, mode_info, heap, made, stopflag, trxVars, psmVars>>
    /\ UNCHANGED <<picked, target, tuning, orders, overlap, rx_only>>

OrderModem ==
    /\ main \in {"order", "orderWait", "orderSettle"}
    /\ trx_state' = "NEW_MODEM"
    /\ main' = [order |-> "idle", orderWait |-> "wait", orderSettle |-> "settle"][main]
    /\ UNCHANGED <<at, modemVars, snd, keyVars, psmVars>>
    /\ UNCHANGED <<picked, target, tuning, orders, overlap, rx_only>>

\* RX is seen again, or the wait times out.
Settled ==
    /\ main = "settle" /\ main' = "idle"
    /\ UNCHANGED <<trx_state, at, modemVars, snd, keyVars, psmVars>>
    /\ UNCHANGED <<picked, target, tuning, orders, overlap, rx_only>>

\* What a user orders when nothing is being waited for.
UserOrder ==
    /\ main = "idle" /\ active_modem # NoModem /\ May
    /\ UNCHANGED <<new_modem, mode_info, heap, made, trxVars, target>>

\* The stopflag is taken back; the delay has the psm thread write TX later.  (In HAB
\* mode trx_transmit does nothing without the delay: the model is of fldigi's own.)
Transmit ==
    /\ stopflag' = stopflag \ {active_modem}
    /\ IF Psm
       THEN request_transmit_flag' = TRUE /\ UNCHANGED trx_state
       ELSE trx_state' = "TX" /\ UNCHANGED request_transmit_flag

UserTransmit ==
    /\ UserOrder /\ Transmit
    /\ UNCHANGED <<psm, main, picked, tuning, overlap, rx_only>>

\* Escape while transmitting, or the T/R button let go.
UserStop ==
    /\ UserOrder
    /\ active_modem \notin stopflag
    /\ trx_state = "TX" \/ ~Psm
    /\ stopflag' = stopflag \cup {active_modem}
    /\ UNCHANGED <<trx_state, psmVars, main, picked, tuning, overlap, rx_only>>

\* Escape twice within a second, or Abort of the menu.
UserAbort ==
    /\ UserOrder
    /\ trx_state \in {"TX", "TUNE"}
    /\ AbortTx("name", "idle")
    /\ UNCHANGED <<stopflag, psmVars, rx_only>>

\* The T/R button is let go while the delay is on: psm_transmit_ended(PSM_ABORT),
\* then the stopflag.  (With the Tune button on it is UserTune.)
UserWithdraw ==
    /\ UserOrder /\ Psm /\ ~tuning
    /\ AbortTx("name", "idle")
    /\ request_transmit_flag' = FALSE
    /\ stopflag' = stopflag \cup {active_modem}
    /\ UNCHANGED <<psm, rx_only>>

UserTune ==
    /\ UserOrder
    /\ tuning' = ~tuning
    /\ trx_state' = IF tuning THEN "RX" ELSE "TUNE"
    /\ UNCHANGED <<stopflag, psmVars, main, picked, overlap, rx_only>>

UserReset ==
    /\ UserOrder
    /\ trx_state' = "RESTART"
    /\ UNCHANGED <<stopflag, psmVars, main, picked, tuning, overlap, rx_only>>

UserRxOnly ==
    /\ UserOrder
    /\ AbortTx("name", "idle")
    /\ rx_only' = ~rx_only
    /\ UNCHANGED <<stopflag, psmVars>>

\* trx_close: the stopflag, RX, the abort, ENDED.
Close ==
    /\ main = "idle" /\ active_modem # NoModem
    /\ main' = "stop"
    /\ stopflag' = stopflag \cup {active_modem}
    /\ UNCHANGED <<trx_state, new_modem, mode_info, heap, made, trxVars, psmVars>>
    /\ UNCHANGED <<picked, target, tuning, orders, overlap, rx_only>>

\* Slip: the end of the thread is not waited for.
ClosingAtOnce ==
    /\ \/ main = "stop" /\ main' = (IF trx_state = "RX" THEN "stopped" ELSE "exit")
       \/ main = "abort" /\ main' = "closed"
       \/ main = "stopped" /\ main' = "abort"
    /\ trx_state' = IF main = "stopped" THEN "ABORT" ELSE trx_state
    /\ UNCHANGED <<at, modemVars, snd, keyVars, psmVars>>
    /\ UNCHANGED <<picked, target, tuning, orders, overlap, rx_only>>

\* A wait that times out leaves the program at once.
Closing ==
    /\ \/ main = "stop" /\ main' = (IF trx_state = "RX" THEN "stopped" ELSE "exit")
       \/ main = "abort" /\ main' = (IF trx_state = "ENDED" THEN "closed" ELSE "exit")
       \/ main = "stopped" /\ main' = "abort"
    /\ trx_state' = IF main = "stopped" THEN "ABORT" ELSE trx_state
    /\ UNCHANGED <<at, modemVars, snd, keyVars, psmVars>>
    /\ UNCHANGED <<picked, target, tuning, orders, overlap, rx_only>>

---------------------------------------------------------------------------
(* The other threads *)

\* process_psm: the request and trx_state are read first, trx_state written later
\* and the stopflag after that.
PsmClear ==
    /\ Psm /\ psm = "rest"
    /\ request_transmit_flag /\ trx_state = "RX"
    /\ psm' = "clear"
    /\ UNCHANGED <<trx_state, at, modemVars, snd, keyVars, request_transmit_flag, mainVars>>

PsmTransmit ==
    /\ psm = "clear" /\ psm' = "started"
    /\ trx_state' = "TX"
    /\ UNCHANGED <<at, modemVars, snd, keyVars, request_transmit_flag, mainVars>>

PsmUnstop ==
    /\ psm = "started" /\ psm' = "rest"
    /\ stopflag' = stopflag \ {active_modem}
    /\ UNCHANGED <<trx_state, new_modem, mode_info, heap, made, trxVars>>
    /\ UNCHANGED <<request_transmit_flag, mainVars>>

\* kiss_loop and the XML-RPC server transmit from threads of their own.
RemoteTransmit ==
    /\ active_modem # NoModem /\ May
    /\ Transmit
    /\ UNCHANGED <<new_modem, mode_info, heap, made, trxVars, psm>>
    /\ UNCHANGED <<main, picked, target, tuning, overlap, rx_only>>

---------------------------------------------------------------------------
\* What the modem thread does by itself.
TrxGoesOn ==
    \/ ReceiveIdle \/ ReceiveStart \/ ReceiveEnd
    \/ SendIdle("TX") \/ SendIdle("TUNE")
    \/ SendStart("TX", "send") \/ SendStart("TX", "rsid") \/ SendStart("TUNE", "tune")
    \/ SendTest \/ SendToRX \/ SendLeave
    \/ SendDone \/ TuneLeave \/ TuneDone \/ Unkey \/ Untune
    \/ StartModem \/ Compare \/ Restarted \/ InitModem \/ Activate \/ Activated
    \/ LeaveModem \/ DeleteModem
    \/ Restart \/ ResetDone \/ Abort \/ Ended

\* What may happen to it and need not: a card fails, the text to send ends.
TrxMeets ==
    \/ ReceiveOpenFails \/ ReadFails
    \/ SendOpenFails("TX") \/ SendOpenFails("TUNE") \/ SendFails
    \/ SendEnding

MainStep ==
    \/ \E m \in Modes : ChangeMode(m) \/ ChangeModeSync(m)
    \/ Waited \/ WaitTimesOut \/ NameModem \/ OrderModem \/ Settled
    \/ UserTransmit \/ UserStop \/ UserAbort \/ UserWithdraw
    \/ UserTune \/ UserReset \/ UserRxOnly
    \/ Close
    \/ Closing

PsmStep == PsmClear \/ PsmTransmit \/ PsmUnstop

\* The program is gone.
Over == at = "crashed" \/ main = "exit"

ModemThread == ~Over /\ TrxGoesOn /\ UNCHANGED settings

Next ==
    \/ ModemThread
    \/ ~Over /\ (TrxMeets \/ MainStep \/ PsmStep \/ RemoteTransmit) /\ UNCHANGED settings

\* The modem thread runs on.  Nothing is assumed of cards, of what there is to send,
\* of users, of the psm thread or of the other threads.
Spec == Init /\ [][Next]_vars /\ WF_vars(ModemThread)

---------------------------------------------------------------------------
(* Properties *)

\* The modem thread writes to open cards only and reads from open cards only: what
\* RXsc_is_open, TXsc_is_open and the two rates say spares no open that is needed,
\* after failures, resets, changes of modem and switches between sending and tuning.
\* One case is excepted, ReadsOpen below: full duplex, after a reset that has left a
\* card to receive from and none to send to.
CardsOpen ==
    /\ at = "read" => snd.rx = "open" \/ (FullDuplex /\ snd.tx = "none")
    /\ at \in (TxPlaces \cup TunePlaces) \ {"unkey", "untune"} => snd.tx = "open"

\* The transmitter is keyed within trx_trx_transmit_loop and trx_tune_loop only,
\* whoever writes trx_state in between, unless a sound card exception ended one.
KeyedInTransmission == ptt /\ ~failed => at \in TxPlaces \cup TunePlaces

\* A mode offers no deleted modem (trx_start_modem_loop empties its entry first).
TableAlive == \A m \in Modes : mode_info[m] \in heap \cup {NoModem}

\* The modem in use is not deleted, unless the user changed modes while the modem
\* thread was still taking over another (trx_start_modem_loop).
ActiveAlive == ~overlap => active_modem \in heap \cup {NoModem}

\* trx_close goes on only when the modem thread has left the cards.
ClosedCleanly == main = "closed" => at = "gone" /\ snd.rx = "none" /\ snd.tx = "none"

\* A change of modem, a reset or the abort is taken up, or another has overwritten
\* it: every loop of the modem thread looks at trx_state.
OrderIsTaken ==
    \A s \in {"NEW_MODEM", "RESTART", "ABORT"} :
        trx_state = s ~> trx_state # s \/ Over

\* Refuted, and in no configuration: "TX deadman timeout in minutes"
\* (configuration.h, tx_timeout).  After an exception in a transmission an order to
\* receive or to reset stops the timer, and the transmitter stays keyed.
KeyedIsWatched == ptt => deadman

\* Refuted, and in no configuration: no read from a closed card.  A reset to PulseAudio
\* that fails late leaves RXsc_is_open TRUE without a card, one to OSS that fails next
\* leaves a closed card with it, and in full duplex a modem at ResetRate has the
\* receive loop spare the open (trx_reset_loop).  The failing read clears the flag.
ReadsOpen == at = "read" => snd.rx = "open"
=============================================================================
