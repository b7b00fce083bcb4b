# dl-fldigi: a TLA+ verification project

dl-fldigi is fldigi, a modem program for radio amateurs, extended by the UK
High Altitude Society to receive and upload the telemetry of balloons. The
repository also holds flarq, which transfers mail and files over fldigi with an
ARQ protocol. This directory models the parts of the program whose correctness
depends on the order in which things happen: the ARQ protocol, the threads of
dl-fldigi, and the two mechanisms of fldigi every thread relies on, the queues to
the main thread and the modem thread's state.

    tlc -workers 2 -config ArqOneWay.cfg MCArqLink     # one run
    tlapm ArqLink_proofs.tla                           # the proofs of one module

Paths below are relative to `src/src` of the repository.

## 1. Inventory

### 1.1 The ARQ link: `flarq-src/arq.cxx`, `include/arq.h` (modelled)

*State.* One object of class `arq` per station. It holds the link state (10
values, compared by their order), the sender's lists (`TxBlocks` not sent yet,
`TxMissing` sent and not acknowledged, `TxPending` sent and not yet echoed to
the user), the receiver's lists (`RxPending` arrived out of order,
`MissingRxBlocks` the gaps, `RxTextQueue` delivered), the numbers that tie them
(`Lastqueued`, `LastHeader`, `EndHeader`, `GoodHeader`, `UrGoodHeader`, all modulo
`MAXCOUNT` = 64), the frames to send (`TxTextQueue`), flags and a retry count.

*Operations.* One parser per kind of frame, called when fldigi has received one
with a good CRC; `arqloop`, an FLTK timeout called every 100 ms, which
transmits, repeats and gives up; `connect`, `disconnect`, `abort`, `sendBeacon`,
`sendText`, `restart_arq` from the user.

*Interaction.* Two stations share one radio channel, through two fldigis. A frame
arrives whole or not at all, in order. fldigi reports the end of a burst with the
character 0x06.

*Hard.* Reports describe the receiver as it was; lost reports cause repeats of
what has arrived; numbers wrap; both sides may act at once, also the users;
timers run out while an answer is on its way; a session begins while frames
of the one before are in flight.

*Correct when* text is delivered complete, in order and once; what is lost is
repeated; a repeat fits one burst; a report asks for what is needed; nobody
waits for ever; sessions do not leak into each other.

### 1.2 The listener's position and the GPS thread: `dl_fldigi/gps.cxx`, `location.cxx`, `dl_fldigi.cxx` (modelled)

*State.* The mode in force and the one picked in the dialog, the settings of the
port, the set of `dirty` groups, `online`, the listener's place, the one GPS
thread with its `term` flag, mutex and open port.

*Operations.* The callbacks of the configuration dialog mark what changed;
`commit` brings it into effect; `online` switches the uploads; `configure_gps`
stops or starts the thread; `gps_thread_death`, queued by the thread with
`Fl::awake`, buries it; `cleanup` ends everything in order. The thread opens the
port, reads sentences and uploads fixes.

*Interaction.* The main thread holds the Fl lock in every callback and gives it up
only in `Fl::wait`. The GPS thread takes the Fl lock to log and to upload, and its
own mutex to read `term`.

*Hard.* Two locks taken in both orders; settings that change while a thread is
reading, has been told to stop, or has ended and not been buried; a shut-down at
any moment.

*Correct when* a stationary place is not overwritten by a fix; the thread that
runs has the settings committed last, and comes to run; the uploader outlives the
GPS thread; the program ends; a port is open once.

### 1.3 Requests to the main thread: `include/qrunner.h`, `qrunner/` (modelled)

*State.* One `qrunner` per thread: a ring buffer of calls, a pipe with one byte per
call, `inprog`. Per type of call, a mutex and a condition variable that are
static in the template `request_sync`.

*Operations.* `request` pushes a call and writes a byte; `request_sync` does the
same, pushes an `fsignal` behind it and waits; `execute`, called by the FLTK loop
when the pipe can be read, runs as many calls as it read bytes; `detach` at exit.

*Interaction.* Every thread of fldigi changes the user interface, and changes mode,
through these queues. A called function may open a dialog whose loop calls
`execute` again.

*Hard.* Push and byte are two steps; the wait has no condition to test, and its
variable is shared by the threads whose calls have one type; a full queue.

*Correct when* every call runs once, in the order of its thread; a synchronous
caller goes on when its call has run, and does go on.

### 1.4 The modem thread: `trx/trx.cxx`, `psm/psm.cxx` (partly modelled)

*State.* `trx_state`, written by the modem thread, the main thread, the psm thread
and the remote interfaces without a lock; the two sound cards with what is
remembered of them (`RXsc_is_open`, `TXsc_is_open`, the rates); `active_modem`,
`new_modem` and the table `mode_info`; the key of the transmitter and the timer
that watches it.

*Operations.* `trx_loop` and its five loops; `trx_start_modem`, `trx_reset`,
`trx_transmit`, `trx_tune`, `trx_receive`, `trx_close` from outside; `abort_tx`,
`init_modem`, `init_modem_sync` of the main thread; `process_psm`.

*Hard.* Orders are lost, overwritten or answered too early; a modem is deleted
while another thread may still have it; a card fails in any loop.

*Correct when* the cards used are open, no deleted modem is used or offered, the
transmitter is released and watched, an order is taken up, the close is clean.

### 1.5 Flight and payload documents: `dl_fldigi/flights.cxx`, `hbtint.cxx` (modelled; the uploader partly)

*State.* Two lists of documents; the selected flight, payload and transmission,
which are pointers into them; what is saved of the selection in `progdefaults`;
the extractor's pointer; the uploader's queue of requests.

*Operations.* Selecting from browsers and menus, the search, switching to the next
transmission; `online`, `commit` and the refresh button ask for downloads; a
download replaces a list and finds the selection again; start and end.

*Interaction.* The uploader thread and the main thread take turns with the Fl lock;
the modem thread reads through the extractor's pointer without it.

*Correct when* no pointer outlives its list; flight, payload, transmission,
what is saved and what the extractor has agree; a download keeps the selection;
the program ends.

### 1.6 Not modelled

| component | why |
|---|---|
| arq_io, `misc/arq_io.cxx` | `arq_init` returns in its third line: no server is started, so no client is ever served. What is left, `WriteARQ`, appends to a string nobody reads. `ArqLink` models what flarq needs of fldigi. |
| kiss_io, XML-RPC | what they order (transmit, change of mode) is in `Trx` and `QRunner`; the rest is the encoding of frames and handlers over globals |
| update check, `dl_fldigi/update.cxx` | one thread, one question; its `cleanup`, the only hard operation, has no caller |
| flarq's files, `flarq-src/flarq.cxx` | the text between the marks of a file and the mail folders: mostly parsing and files; the users' actions on the link are in `ArqLink` |
| SSDV, rig control, spotting, logging, DX cluster | I/O, files and databases |
| modems, filters, FFT | floating point: out of reach of TLC, and nothing to say for TLA+ |
| sound data (`soundcard/*.cxx` with tables of samples), dialogs generated by fluid, vendored code | no behaviour of this program; together by far the largest part of its lines |

The parts modelled are therefore a small share of the lines of the repository. The tables of
samples, the generated dialogs, the modems and the vendored libraries make up most
of the rest. What holds the threads together is in a few thousand lines, and most of these are covered.
PROJECT.json lists every component.

## 2. Modules

| module | models |
|---|---|
| `ArqBlocks` | the block arithmetic of `parseDATA`, `parseSTATUS`, `sendblocks` as operators on sets and lists of numbers |
| `ArqStation` | class `arq`: a station is a record, each method an operator from the record before the call to the record after, with all it calls |
| `ArqLink` | two stations, the channel, timers and users: the state machine, and that it implements `ArqTransfer` |
| `ArqTransfer` | the abstract promise: what one user offers is handed to the other from the first on, in order |
| `ArqBlocksLoops` | the loops of `parseDATA`, `parseSTATUS` and `sendblocks` as a state machine, one turn a step; its properties say that they leave what `ArqBlocks` defines |
| `HabGps` | the main thread's handlers and the GPS thread |
| `CallQueue` | the abstract promise of the queues: calls run once each, in order |
| `QRunner` | the queues, `request`, `request_sync`, `execute` |
| `Trx` | the modem thread, and all who write `trx_state` |
| `Flights` | the documents, the selection, the uploader thread |
| `MCArqLink`, `MCArqLoops`, `MCQRunner`, `MCTrx`, `MCFlights` | constants for TLC |
| `ArqBlocks_proofs`, `ArqLoops_proofs`, `ArqLink_proofs`, `ArqTransfer_proofs`, `HabGps_proofs`, `QRunner_proofs`, `Trx_proofs`, `Flights_proofs` | theorems |

`ArqLink` extends `ArqStation`, which extends `ArqBlocks`; the proof modules follow
the same chain. An operator that a comment calls a *slip* is a likely mistake, with the
parameters of the definition it would replace; no definition uses it. For every
property of a passing run there is a slip that makes TLC refute it
(PROJECT.json, `mutants`).

### 2.1 How the ARQ model corresponds to the code

* `st[s]` has the fields of class `arq` by their names. Added for the properties:
  `queued` counts the blocks given to `sendText`, `printed` and `reprinted` record
  what `printRX` was given, `echoed` what `printTX` was given; `hung` says that a loop of the code
  did not end. `air` is what the transmit function was given and the other side
  has not heard.
* A text is the number of the block the user queued: what it says is irrelevant.
  Call signs reduce to `UrCall`, known or not. Session numbers are sent and never
  compared by the code, so they are left out.
* `RxPending` and `TxMissing` are sets. `parseDATA` discards a number that is in
  `RxPending` already and sorts the list at each arrival. The sort reads `n1` once and compares with it after a
  swap too: it sorts no list but one whose blocks before the last are in order, which the calls before have
  left (`PendingInOrder` of `ArqBlocksLoops`). So the order of the list says no more than its set. `TxMissing` is repeated in the order of its list, which is the order of the
  texts (`InSendOrder`).
* `arqloop` is one action per turn. What the timers are set to is left out; a turn in
  which `retrytime` or `timeout` has run out is another action (`LoopRetry`,
  `LoopTimeout`) than the one in which neither has (`LoopIdle`). Both never run
  out in one turn, because a repeat sets `timeout` anew.
* The user's actions carry the guards of flarq's buttons: `OffersConnect` is
  `state() < ARQ_CONNECTED`, where `state()` adds 0x80 while a burst goes out. The Send menu is
  active from the first connection on, in every state; `SendsIn` says in which
  states a user uses it.
* The comparison of `LinkState` with `TIMEOUT`, a number of milliseconds, in line 1072 is kept as what
  it does: only `DOWN` refuses a STATUS.
* Frames with a bad CRC are frames lost. TALK frames are accepted unchecked by the
  code; a mutilated one carries no state.

### 2.2 How the GPS model corresponds to the code

* `hab` is a record of the globals. Each handler of the main thread is an operator on
  it and one action: it runs under the Fl lock from one `Fl::wait` to the next.
* The thread's position is `thr.pc`. One step ends wherever it must ask for a lock or blocks
  (`fgets`, `sleep`). In `told ...` it holds its mutex in `check_term` and asks for the
  Fl lock, to log.
* A handler that asks for the mutex then never returns: `main = "stuck"`. Nothing that
  needs the Fl lock happens afterwards.
* A signal ends `fgets` with an error (the handler is installed without
  `SA_RESTART`) and `sleep` early, and is lost on a thread that does neither.
* What the parser makes of a line, whether a port can be opened and whether an upload is due are
  choices. A port that was opened and could not be set up is closed by the
  failure itself and not counted.
* The POSIX build is modelled; the Windows build has no signal and polls instead.

### 2.3 How the queue model corresponds to the code

* `queue[t]` is the ring buffer of `cbq[t]`, without its bytes: one writer, one reader, blocks of one
  size. A call is its number; `fsignal` has the number of the call before it.
* `pc[t]` is the line of `request` or `request_sync` a thread is in. The mutex of `request` and the
  mutex and condition variable of `request_sync` are static in a template: there is one per type
  (`Functor`). Who holds them is read off `pc`.
* `stack` holds the queues whose `execute` is active, innermost last; `inside[t]` says that a called
  function of `t` runs and may run a loop of its own. A slot is freed after its function has run, as `pop` does.
* `Detach` empties the queues at any moment, as `exit_process` does without asking the threads.
  From then on nothing is promised.

### 2.4 How the model of the modem thread corresponds to the code

* `at` is where `trx_loop` is; a step ends wherever another thread's write of `trx_state`,
  `new_modem`, `mode_info` or a stopflag can make a difference. `SendTest` and `SendToRX` are the test and
  the assignment of lines 429 and 430, and those of 444 and 445; `TuneLeave` and `TuneDone` the end of the tuning loop and the
  test that closes the card; `NameModem` and `OrderModem` those of 663 and 665.
* A modem is `<<mode, number>>`; `heap` holds those not deleted, so a use after a deletion shows. An
  `init_modem` takes the pointer (`Pick`) and hands it on later. A second deletion is taken for a crash.
* `snd` holds both cards as they are (`none`, `closed`, `open`) and as they are remembered (two flags,
  two rates). `Started` is what `trx_start` leaves of them, `Resets` what `trx_reset_loop` can leave behind, by the kind of card
  (OSS, PortAudio, PulseAudio, UDP and TCP, none) and where it failed. `SoundPort::Open` returns 0 when it opens a card afresh, so after a PortAudio
  reset the flags are down and the next loop opens the cards once more; a failed OSS reset leaves the flags as they were.
* The other writers: the user's buttons and keys under their guards, the psm thread (`PsmClear`,
  `PsmTransmit`, `PsmUnstop`), kiss and XML-RPC (`RemoteTransmit`). When the channel is free, when a card fails and
  when the text to send ends are choices. `UserWithdraw` may withdraw a request in an order of its steps that `waterfall.cxx` and `psm.cxx`
  do not all allow: it permits more than the code.
* An exception that is no `SndException` ends the program and is left out: the string `SoundOSS` throws for a card
  without channels, and a failure of the RSID signals sent outside the `try` blocks.
* `settings` (duplex, delay) are chosen once. `FullDuplex` changes during a run in the code; then the
  flags only cause an additional open.
* `failed` and `overlap` record that a sound card exception has left a transmission, and that a mode was picked while
  another modem was being taken over. Two properties except these cases; section 6 says what happens in them.

### 2.5 How the model of the documents corresponds to the code

* `fl` is a record of the globals by their names. Indices count from 1; the code's -1 is 0. A
  document has an id, whether it has a name, and its payloads as the numbers of their transmissions. A payload that is null, not an
  object or empty is `Empty`: `do_select_payload` returns at its sanity check with the flight, `cur_heap` and what is saved
  set, and with no payload (`NotEmpty`).
* A pointer is a list, the list's version and indices. Versions alternate: within one step at most one
  replacement lies between a pointer and its list, and `Populate` follows it under the same lock.
* The functions call each other as in the code; each operator takes `fl` to what its function
  makes of it. `Populated` goes through a list as the loop of the code does, document by document: each that has the saved id
  is selected (`Found`). A callback is one step, under the Fl lock. The uploader's download is two,
  `Downloaded` and `Populate`: the modem thread can look in between.
* `extrmgr` used after its deletion ends everything (`crashed`).

## 3. Runs

The passing runs together take about ten minutes.

| run | question | constants |
|---|---|---|
| `arq_one_way` | does one direction implement `ArqTransfer`, and is every loss repaired? | 6 numbers, bursts of 3, 8 texts, any number of losses and retries |
| `arq_two_way` | do bursts, lists and reports stay consistent when both send? | 6 numbers, bursts of 2, 4 texts each, 2 losses |
| `arq_sessions` | do sessions that end by timeout, restart or beacon leave the next one clean? | 2 texts, 2 connects, one of each ending, any losses |
| `arq_tear_down` | does every wait end? | bursts of 1, 1 text, a connect, a disconnect, an abort, a loss; colliding bursts and early timers |
| `arq_blocks` | do the definitions compute what the loops compute, and does every loop end? | 6 numbers, blocks in any order with at most 5 pending, every report about the last 3 blocks sent, bursts of 3 from queues of up to 4 |
| `hab_gps` | is the listener's place right, does the thread follow the settings, does the program end? | 3 settings (2 usable), 2 places (1 a number), 5 acts of the user |
| `q_runner` | do the queues implement `CallQueue`, is every call run, and does every synchronous caller return? | 3 threads, 2 types of call, queues of 2, 4 calls, spurious wakeups of one thread |
| `trx` | are cards, modems and the transmitter in order, are orders taken, is the close clean? | 2 modes at 2 rates, 2 modems each, 2 orders besides the first mode and the close; both settings |
| `flights` | is the selection one, valid, saved and kept, when is the deleted extractor used, does the program end? | 7 lists of flights (one with an empty payload), 3 of payloads, 2 saved selections, 2 acts of the user, any downloads |
| `arq_zero`, `hab_gps_told`, `flights_extracted` | disagreements, section 6 | smallest that show them |

*Bounds and why they are enough.* `MaxCount` = 6 with 8 texts makes the block numbers
wrap within a session, so that old and new blocks share a number; the window test
`(n + 2) % MAXCOUNT = UrGoodHeader` and the burst limit both bind. In the code they are 64 and 8:
the relation that matters, two bursts fit in the number range, is
the same. `Retries` = 2 has a repeat and an end. `MaxText`, `Budget` and `MaxAir` bound texts, acts of
the environment and frames in flight (at least one whole burst and a report, so
the bound never blocks a turn for ever). Events in `Unlimited` cost nothing. In
`HabGps` five acts are a change of settings, its commit, another change and its
commit, and the exit: a thread can be told while it runs, told again while it dies, and the
program left in each of these states. In `QRunner` a queue of 2 is full with one
synchronous call, so that a thread holds the mutex and finds no room; two threads of one type are the least that
take each other's signals. In `Trx` two orders, the first mode and the close make four
writers in sequence against every step of the thread; a third modem of a mode would only
repeat the second. In `Flights` the lists have a document that is missing, doubled, unnamed, invalid or
shorter than before; a user's act, a download and another act or the end are the
sequences the functions can tell apart. The theorems of section 5 need none of these bounds.

*Restrictions that a reader must know.* In `arq_one_way`, `arq_two_way`, `arq_sessions` and
`arq_zero` `Timely` holds: nobody transmits into a burst it hears and the
timers outlast an answer, as the user's manual tells to set them. `arq_tear_down`
drops it. Text is sent over an established link only, as the fields of `SendsIn` say. `LossIsRepeated` leaves out
block number 0, which the code does lose (`arq_zero`). `NumbersFollow` and
`DownStartsNoBurst` hold for sessions that end by timeout, restart or beacon; a
disconnect or abort clears the lists without setting `Lastqueued` back, and then
both fail. `DownStartsNoBurst` speaks of blocks of text: a station that is down still answers IDENT with a STATUS, beacons and
connects. `ImplementsTransfer` is about one session: a new one starts the delivery over (`Renew`).

`CHECK_DEADLOCK FALSE` stands in all configurations of the state machines: users
may stop acting, and bounded budgets run out; a program that has ended does not go on either.

## 4. Fairness

*ARQ.* `WF(LoopIdle)`, `WF(LoopRetry)`: `arqloop` re-arms itself every 100 ms and the
timers count down in it. `WF(TxDone)`: fldigi ends each burst with 0x06.
`WF(Receive \/ Lose)`: a frame on the air arrives or is lost. Users owe nothing. `IdleSpec`
adds that `timeout`, counted down in each turn, runs out also on an idle link; only
`DeadLinkTimesOut` (section 6) is about it. No fairness on `Lose`: the channel is never bound to lose
or to deliver.

*GPS.* `WF(ThreadStep)`: the thread is scheduled, a sleep ends, and `fgets` returns,
because a receiver sends its sentences every second. This is an assumption about
the device: with a receiver that falls silent, a signal that comes between
`check_term` and `fgets` is lost and the thread never ends. `WF(ThreadDies)`: the main loop, or the
loop of a clean-up, runs the queued handler. `WF(CleanupGoesOn)`: the loop ends when its
condition does, and the uploader thread ends when told (external). The two liveness properties
except a main thread that is stuck; that it can get stuck is what `hab_gps_told` shows.

*Queues.* `WF(ThreadStep(t))`: a thread that has begun a request goes on; `sched_yield` in the
retry loops lets the main thread run. `WF(MainStep(t))`: the main loop, or the loop of a called function, serves
every readable pipe, and a called function returns. Nobody has to begin a request.

*Modem thread.* `WF(ModemThread)`: the thread is scheduled, reads and writes of the cards return. Nothing is
assumed of users, of the psm thread, of the text to send, nor of cards failing.

*Documents.* `WF(Waiting)`: `Fl::wait` returns, because the uploader thread's death calls `Fl::awake`.
`WF` of the uploader's steps once the program is ending: its download succeeds or
fails, and it gets the Fl lock. Nothing is assumed of the user.

## 5. What is proved

For every `MAXCOUNT` >= 4, every `maxheaders` and number of retries, every bound, any losses, timing
and users (`Timely` or not):

| theorem | statement |
|---|---|
| `Invariance` | `IInv` of `ArqLink_proofs` always holds |
| `TypeCorrect` | the fields keep their types; block numbers stay below `MAXCOUNT` |
| `BurstAlwaysFits` | the blocks awaiting a report never exceed `maxheaders` |
| `TextsStayInLine` | a text given to `sendText` waits in one list, once, in order |
| `ReportAsksForNext` | a report asks for the block delivery needs next, and for none that is there |

*Assumptions*: `MaxCountAssumption`, `StationAssumption`, `LinkAssumption`, no more.
`MAXCOUNT` >= 4 is needed where the numbers are folded after one addition.

*Argument.* `IInv` says of both stations that they are `Sound`: typed, with texts in line, missing
blocks fitting a burst, a report that asks for the next block, and a retry left. Type correctness
alone is not inductive: `BurstFits` needs that `sendblocks` counts the missing blocks before the new
ones and that a report only ever removes some; "in one list, once" needs that the queue
holds the last texts in order and `TxMissing` only earlier ones; the retry left is what makes
`retries - 1` a number, and holds only *between* turns, so the lemmas on the parts of a turn use
the weaker `Whole`. `ArqBlocks_proofs` gives what the set definitions return: that
the delivered numbers are a prefix (`ReadyIsPrefix`), that the first gap is
`GoodHeader + 1` (`GapsBeginAtGood`), that no more blocks are taken than fit (`NewBlocksBound`).
`ArqLink_proofs` has one lemma per method of a station, then one case per action.

Five properties need more of the users:

| theorem | hypothesis | statement |
|---|---|---|
| `NumbersAlwaysFollow` | `NoTearDown` | the queued blocks have the numbers after `LastHeader`, one by one |
| `DownNeverStartsBurst` | `NoTearDown` | a station that is down or timed out does not begin a burst of blocks (it may send other frames) |
| `NeverStale` | `OneSender` | what waits in `RxPending` was not delivered before |
| `LossAlwaysRepeated` | `OneSender` | a lost block is on `TxMissing`, number 0 left out |
| `LinkTransfers` | `OneSender` | `ArqLink` implements `ArqTransfer`: texts are delivered from the first on, in order, once, without a hole |

`NoTearDown`: no disconnect and no abort happens, in the middle of a text or elsewhere; sessions may end, and begin again, in every other way, any number of times. The
hypothesis is needed: with a disconnect or abort both properties fail (line 1330 of `arq.cxx`, in the hazards). The constants of `ArqSessions.cfg`
satisfy it. The invariant is `SessionInv`: `Lastqueued` is the last number sent plus the blocks queued as long as there is a
link, and there is nothing queued when there is none (`InStep`).

`OneSender`: one session at most, made by either station; one station alone sends text, over an established link; timers
outlast an answer (`Timely`); no idle timeout or act of a user ends the session. Frames are lost and repeated without a bound, the text
has any length. The constants of `ArqOneWay.cfg` satisfy it. With senders on both sides `NoStalePending` fails, and after an
idle timeout the two sides may disagree about the session (`InOrder`, section 6). *Argument* (`ArqTransfer_proofs`): none of the three properties says what
a report still on the air will do when it arrives. `LineInv` does. Never do both stations
speak, and each frame under way fits the state of both ends: a report under way says what its sender would say now (`Course`, `Apt`). So a
report crosses off exactly what is delivered or pending, and every text sent is on `TxMissing` or with the receiver
(`Covered`). The sender is less than a round of numbers ahead of what it counts as acknowledged (`InWindow`), and what is on the
air is new to the receiver, each block once (`Flies`); so a number names one text. The receiver's `GoodHeader`, pending
blocks and gaps describe a prefix and the texts above it (`Delivers`). A step of the receiver then maps to `Deliver` with the texts
of the run that closes, `sendText` to `Offer`, a start or restart of the session to `Renew` and every other step to a stutter.
Block number 0 is left out of `Covered`, because the code loses it (`arq_zero`); delivery then stops there, but
nothing out of order is delivered.

For every `MAXCOUNT` >= 4 and `maxheaders`, any blocks in any order of arrival, any report and any queue (`ArqLoops_proofs`):

| theorem | statement |
|---|---|
| `LoopsInvariant` | the invariants of the loops, `RxInv` and `TxInv`, hold after every turn |
| `PendingStaysInOrder` | `RxPending` is in the order of delivery whenever a call is over |
| `ParseDataComputes` | what `parseDATA` leaves and delivers is what `ArqBlocks` defines of the set of blocks it found |
| `WalkComputes` | a `parseSTATUS` that ends has considered missing, and kept, what `ArqBlocks` says |
| `QueuesCompute` | `parseSTATUS` echoes and `sendblocks` sends as many blocks as `ArqBlocks` counts, in their order |
| `ReceivingComputes`, `SendingComputes` | the first two together, and the next two together: the properties the run checks |
| `LoopsEnd` | each turn leaves less to do in a well-founded order, save the walk to a `LastHeader` of 0 |

*Argument.* These theorems carry the others over to the code: `ArqStation` uses `ArqBlocks` where the code has
loops over lists. The provers have no induction over data, so each loop is steps and has an invariant, with the
turns done so far in it: while sorting, all blocks but the last are in order and the last is
above those before `p1`, so the only swap of a turn is with the last block, in the last comparison, and `n1` is never used when it is
stale; while delivering, `GoodHeader` has
moved on by the blocks read; while looking for gaps, `MissingRxBlocks` are those before `i`; while walking, what is
in `missing` is the walk so far, and the rest of it leads to `LastHeader` unless it never ends. That an arrival finds the
list in order comes from the call before, so `RxInv` speaks of the time between calls too. `LoopsEnd` is the safety half
of termination: nothing is assumed of the scheduler, the ranks are triples of numbers.

For every set of settings and places and any number of acts (`HabGps_proofs`):

| theorem | statement |
|---|---|
| `HabInvariance` | `IInv` always holds |
| `HabTypeCorrect` | the globals keep their types; no port is closed that is not open |
| `StationaryIsKept` | in stationary mode no fix is the listener's place |
| `ThreadFollowsSettings` | a thread not told to stop runs with what was committed last |
| `UploaderStays` | the uploader is deleted when no GPS thread is left |

*Argument.* `FollowsSettings` is not inductive: a `shutdown` that meets the mutex does not set `term`,
and is harmless only because a thread that holds it there has been told already
(`HoldsMutex => term`). `TypeOK` needs that a thread whose file is open accounts for one
port, and `UploaderOutlivesThread` that past the loop of `gps::cleanup` there is no thread
and that `shutting_down` keeps `gps_thread_death` from starting one. The assumption is `HabGpsAssumption`.

For every set of threads, types of call, capacities, numbers of calls and spurious
wakeups (`QRunner_proofs`):

| theorem | statement |
|---|---|
| `QInvariance` | `IInv` always holds |
| `QTypeCorrect` | no queue exceeds its capacity, every count stays a number |
| `BytesAlwaysMatch` | every entry has its byte |
| `SyncWaitsWhenAlone` | a caller that shares its type with nobody returns after its call has run |
| `SignalsAlwaysSuffice` | type by type, there are as many signals on their way as threads that await one |
| `CallsRunInOrder` | the queues implement `CallQueue` |

*Argument.* None of these is inductive alone. That `left` never runs below zero and that an entry is there
for each byte needs `BytesMatchEntries`, and that needs that only the queue on top of the
stack is being run and that no queue is on it twice (`OneExecute`). The order of the calls needs what the queue holds:
the numbers behind the last one that ran, without a gap, each `fsignal` with the
number of the call before it. `SyncWaitsAlone` follows because the thread's one `fsignal` stands behind its call. Each action of
`CallQueue` is `Request` or `End`; all other steps stutter. `SignalsSuffice` is proved type by type (`SignalsEnough`): a signal is
pushed in the step in which its thread begins to await one; a wakeup, be it another thread's or spurious, takes a waiting
thread away and no signal; and an `fsignal` that runs and finds nobody in the wait finds nobody on the way to it either, because it
takes the mutex its thread has held since before the push. The assumption is `QRunnerAssumption`.

For every set of modes, any rates and any number of modems and orders (`Trx_proofs`):

| theorem | statement |
|---|---|
| `TrxInvariance` | `IInv` always holds |
| `TrxTypeCorrect` | the variables keep their types; who sends or receives has a modem |
| `CardsAlwaysOpen` | every write meets an open card, and every read, except in full duplex where there is no card to send to |
| `KeyedOnlySending` | keyed in the two sending loops only, unless an exception ended one |
| `TableStaysAlive` | the table holds no deleted modem |
| `ActiveStaysAlive` | the modem in use is not deleted, unless picks overlap |
| `ClosedBehindThread` | `trx_close` goes on behind the end of the modem thread |

*Argument.* Only `KeyedInTransmission` is inductive alone. A sample rate is looked up in the modem in use, so even the types
need that nobody can have ordered a transmission before there is one (`HasModem`), and that a modem is picked, then
named, then ordered (`HasPicked`, `HasNew`). `CardsOpen` needs that a flag and a rate not zero belong to an open card
(`CardsKept`; for the card to receive from only while there is one to send to), that every outcome of a reset keeps this (`ResetLeaves`), and that the flag of a card to send to is down where there is none (`NoneClosed`): UDP and TCP resets put a
card there and leave the rate. `TableAlive` needs that numbers are given once (`Numbers`), so that a modem made while another is
being deleted is not that one. `ActiveAlive` follows a modem from the pick to the take-over and the old one to its deletion (`Owned`);
its premise, no overlap, is what the code lacks a lock for. The assumption is `TrxAssumption`.

For any lists of documents, any saved selection and any number of acts of the user (`Flights_proofs`):

| theorem | statement |
|---|---|
| `FlightsInvariance` | `FInv` always holds |
| `FlightsTypeCorrect` | the globals keep their types |
| `PointersStayAlive` | whoever takes the Fl lock finds pointers into the lists there are |
| `SelectionIsOne` | flight, payload, transmission and the extractor's payload are one selection; a flight has no payload selected only if one of its payloads is empty |
| `SavedStaysSelected` | what `progdefaults` keeps is what is selected |
| `SelectionSurvives` | a new list keeps a selection from the other list, and finds its own again |
| `CrashesOnlyLeaving` | the deleted extractor is used only while `cleanup` waits, by a download of the list the saved selection is of |

*Argument.* What is said of pointers and selection is not inductive: between `Downloaded` and `Populate` the pointers point nowhere, and what
is found again is found by what was saved. `FInv` says that the pointers and the saved selection agree also while a list
is being replaced (`Shaped`), that what they point to is there (`Fresh`), and in between, that only the selection from the list
replaced is astray (`Behind`). `populate_flights` is a loop over documents, and the provers have no induction: the lemmas
on a pass look at the first document gone wrong. `PassTurns` says where a pass ends that turns from one selection to
another at one document, `PassStays` where one ends that finds nothing. The first six except the use of the deleted
extractor (`crashed`), as in the model. `CrashesOnlyLeaving` says when that happens: `Ending` adds that nobody replaces a list while
`cleanup` holds the lock, and `Usable`, which holds after each document of a pass, that a pass without
the extractor comes to use it only if what is saved is of its list. So a program that runs never does, and a
program that leaves with nothing of a list saved survives a download of it. The assumption is `FlightsAssumption`.

*Only model-checked*: the liveness properties (`NoEndlessWait`, `SettingsTakeEffect`,
`ExitEnds`, `SyncReturns`, `CallsRun`, `OrderIsTaken`, `CleanupEnds`), since liveness under fairness is out of the prover's reach.
Every other property of a passing run is proved, the five of `NoTearDown` and `OneSender` for the users described there.

## 6. Where code and documentation disagree

| run | what |
|---|---|
| `arq_zero` | `parseSTATUS` folds its counter into 1..64, block numbers are 0..63: a lost block 0 is crossed off as acknowledged. With `LastHeader` = 0 the loop does not end at all (`WalkNeverEnds`, confirmed by `arq_blocks`). |
| `hab_gps_told` | lock order: `check_term` logs, which takes the Fl lock, while it holds the mutex that `set_term` takes under the Fl lock. The program hangs. |
| `flights_extracted` | a download frees the document the extractor has a pointer to before the pointer is taken away, while the modem thread may use it. |

The following hold of the models too. They are stated in the modules where a property is
named, TLC refutes that property with the configuration given, and no run is kept for it:

* `PrintedOnce` (`ArqZero.cfg`'s constants): the retry in `WAITFORACK` resets a receiver that may have delivered
  text already; the text is delivered twice.
* `InOrder` (`ArqOneWay.cfg` with `Budget <- OneTimeout` and bursts of 4): after an idle timeout of one side the two sides disagree
  about the session, and the user gets text with a hole.
* `DeadLinkTimesOut` (`IdleSpec`, `Budget <- OneRestart`): the retries of IDENT never run out, because a station
  that is down answers IDENT.
* `OnePortOpen` (`HabGps.cfg`): a thread told to stop between two lines ends without `cleanup()`; its port stays open.
* `SyncWaits` (`QRunner.cfg` with `Spurious = {}`): two threads whose synchronous calls have one type, the XML-RPC server and the KISS
  interface with `init_modem_sync`, take each other's signals; one goes on before its call has run.
* `KeyedIsWatched` (`Trx.cfg`): an exception of the sound card ends a transmission without `push2talk->set(false)`. An order to receive
  or to reset then stops the deadman timer; the transmitter stays keyed until the next transmission ends.
* `ReadsOpen` (`Trx.cfg`): in full duplex, a reset of the PulseAudio cards that fails late leaves `RXsc_is_open` set, and one of the
  OSS cards that then fails too leaves a card to receive from that is not open and none to send to. The receive loop sees the flag and an equal
  rate, does not open the card, and reads it. It takes two failed resets and a change of the kind of card between them.
* `ActiveAlive` without `~overlap`: a user who picks a mode while the modem thread is still between announcing RX and deleting the
  old modem can get the modem that is about to be deleted.

And without a property: the echo of
acknowledged blocks prints every pending block when `UrGoodHeader` is not
among them (line 848 of `arq.cxx`); a connect acknowledge is accepted in every state from `ARQ_CONNECTING`
on (line 704); when both sides have polled, a late report lets a repeat be taken for a new block, which then stays in `RxPending` (`NoStalePending` holds in
one direction); `TIMEOUT` stands for `TIMEDOUT` in line 1072; `trx_loop`'s abort
after a failed reset uses a card that is gone (`crashed` in `Trx`); a full queue whose thread holds the mutex
of `request_sync` jams the main thread (`Jammed` in `QRunner`); a download that completes while
`hbtint::cleanup` waits uses the deleted extractor (`crashed` in `Flights`; `CrashedOnlyLeaving` says that nothing else does); threads in a request at exit are left behind.

Seen in the code and in no model: `clean_exit` deletes `push2talk` (`fl_digi.cxx`, line 4757) before `trx_close` waits for a
modem thread that ends its transmission with it; `gps.cxx` line 351 writes to widgets without the Fl lock;
`update::cleanup` has no caller; flarq offers Connect while `state() < ARQ_CONNECTED`, and `state()` adds 0x80 during a burst
(`flarq.cxx`, line 1008). In the models, and no property speaks of it: with `rx_only` set, TX ordered
meanwhile keeps the modem thread spinning (`SendIdle`); `process_psm` takes back a stopflag set after its
test (`PsmUnstop`); the end of a transmission forgets a request made while it went on (`Unkey`); a download from the
database before the settings changed counts as one from the new (`downloaded`).

## 7. What could follow

1. `FlarqFile` on top of `ArqTransfer`: the marks of a file and "Transfer Completed"; the users of
   `ArqLink` as flarq drives them, with disconnect and abort.
2. `clean_exit` as a composition: `delete push2talk`, `trx_close`, `dl_fldigi::cleanup` and `exit_process` in their order, over
   `Trx`, `HabGps`, `Flights` and `QRunner`.
3. The start and the end of the psm thread, and the buffers a withdrawn transmission leaves behind.
4. Theorems: `NumbersFollow` and `DownStartsNoBurst` with a disconnect before any text is queued; the transfer for several
   sessions that end by restart on both sides; `InOrder` of what is printed.
