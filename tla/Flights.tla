------------------------------ MODULE Flights ------------------------------
(***************************************************************************)
(* The flight and payload documents of dl-fldigi (src/src/dl_fldigi,       *)
(* flights.cxx): two lists of documents, from a cache file or downloaded   *)
(* by the uploader thread; the flight, payload and transmission the user   *)
(* has selected, pointers into the lists; and the selection kept in        *)
(* progdefaults, by which it is found again in a new list.  The modem      *)
(* thread feeds the extractor, which has a pointer too, without the Fl     *)
(* lock; the main thread and the uploader thread hold the lock.            *)
(*                                                                         *)
(* Of a document there is what selecting it looks at.  Indices count from  *)
(* 1, and 0 is the code's -1.  Left out: the widgets (but the list a       *)
(* choice is made from), the cache file once it is read, what a            *)
(* transmission says and auto_configure does with it.                      *)
(* An operator introduced as a "slip" is a mistake easily made here, kept  *)
(* beside the definition it would replace; it is not used.                 *)
(***************************************************************************)
EXTENDS Integers, Sequences

CONSTANTS
    FlightLists,    \* the lists of flights there may be
    PayloadLists,   \* the lists of payloads
    Trackings,      \* what progdefaults may hold when the program starts
    MaxMoves        \* bound: how often the user does something

NoId == "no id"     \* no _id, or one that is not a string

Empty == -1         \* a payload of a flight that is null, no object or empty

\* Of each payload of a flight, how many transmissions it has.
FlightDoc  == [id : STRING, named : BOOLEAN, payloads : Seq(Nat \cup {Empty})]
PayloadDoc == [id : STRING, named : BOOLEAN, transmissions : Nat]

Heaps  == {"nothing", "flight", "payload"}
Lists  == {"flights", "payloads"}

Saved == [type : Heaps, doc : STRING, payload : Nat, transmission : Nat]

ASSUME FlightsAssumption ==
    /\ FlightLists \subseteq Seq(FlightDoc)
    /\ PayloadLists \subseteq Seq(PayloadDoc)
    /\ <<>> \in FlightLists \cap PayloadLists
    /\ Trackings \subseteq Saved
    /\ MaxMoves \in Nat

VARIABLES
    fl,         \* the globals of flights.cxx, and the extractor's pointer
    online,     \* dl_online
    uploader,   \* the thread and its queue
    main,       \* where the main thread is
    moves

vars == <<fl, online, uploader, main, moves>>

---------------------------------------------------------------------------
(* A pointer names a document of a list, of the list there was when the    *)
(* pointer was set; then the payload in it and the transmission in that.   *)

Pointer == [list : Lists \cup {"none"}, version : 0 .. 1,
            doc : Nat, payload : Nat, transmission : Nat]

Null == [list |-> "none", version |-> 0, doc |-> 0, payload |-> 0, transmission |-> 0]

\* What the pointer points to is still there.
Alive(f, p) == p = Null \/ p.version = f.version[p.list]

At(f, list, i) == [Null EXCEPT !.list = list, !.version = f.version[list], !.doc = i]

\* The transmissions of the payload p points to.
Transmissions(f, p) ==
    IF p = Null \/ ~Alive(f, p) THEN 0
    ELSE IF p.list = "flights" THEN f.flight_docs[p.doc].payloads[p.payload]
    ELSE f.payload_docs[p.doc].transmissions

Nothing(tracking) ==
    [tracking |-> tracking,
     flight_docs |-> <<>>, payload_docs |-> <<>>, version |-> [list \in Lists |-> 0],
     cur_heap |-> "nothing", cur_flight |-> Null, cur_payload |-> Null,
     cur_transmission |-> Null, cur_transmission_index |-> 1, cur_transmission_count |-> 0,
     extrmgr |-> TRUE, extracted |-> Null, crashed |-> FALSE, downloaded |-> {}]
\* extracted   the payload extrmgr has been told of
\* crashed     extrmgr was used after it had been deleted
\* downloaded  the lists downloaded once (downloaded_flights_once, _payloads_once)

---------------------------------------------------------------------------
(* Selecting; each operator takes the globals to what a function makes of  *)
(* them, and tracking is progdefaults.tracking_*.                          *)

\* Slip: the code's -1 passes for an index.
SavedAtMost(saved, count) == IF saved <= count THEN saved ELSE 1

\* The saved index, or the first if there is none such.
SavedOr(saved, count) == IF saved \in 1 .. count THEN saved ELSE 1

\* The sanity check of do_select_payload: an empty payload is not selected.
NotEmpty(f, pointer) ==
    IF pointer # Null /\ Transmissions(f, pointer) = Empty THEN Null ELSE pointer

\* do_select_payload and all it calls; without transmissions their count stays, and
\* with an empty payload the flight, cur_heap and what is saved are those asked for.
DoSelect(f, heap, flight, pointer, tracking) ==
    LET payload == NotEmpty(f, pointer)
        n == Transmissions(f, payload)
        k == SavedOr(tracking.transmission, n)
        g == [f EXCEPT !.cur_heap = heap, !.cur_flight = flight,
                       !.cur_payload = payload, !.extracted = payload]
    IN  IF n = 0
        THEN [g EXCEPT !.tracking = tracking,
                       !.cur_transmission = Null, !.cur_transmission_index = 1]
        ELSE [g EXCEPT !.tracking = [tracking EXCEPT !.transmission = k],
                       !.cur_transmission = [payload EXCEPT !.transmission = k],
                       !.cur_transmission_index = k, !.cur_transmission_count = n]

\* The extractor is told through extrmgr, whether or not it has been deleted.
Select(f, heap, flight, payload, tracking) ==
    IF f.extrmgr THEN DoSelect(f, heap, flight, payload, tracking)
    ELSE [f EXCEPT !.crashed = TRUE]

\* Slip: the transmission of the payload before stays.
UnselectPayloadOnly(f) ==
    [f EXCEPT !.cur_heap = "nothing", !.cur_flight = Null, !.cur_payload = Null, !.extracted = Null]

\* select_flight(-1)
Unselect(f) == Select(f, "nothing", Null, Null, f.tracking)

\* Slip: what is saved does not follow the choice of another payload.
TrackingDocument(f, type, id, payload) ==
    IF f.tracking.type = type /\ f.tracking.doc = id
    THEN f.tracking
    ELSE [type |-> type, doc |-> id, payload |-> payload, transmission |-> 0]

\* The saved payload and transmission are forgotten with another document, the
\* transmission with another payload.
Tracking(f, type, id, payload) ==
    IF f.tracking.type = type /\ f.tracking.doc = id /\ f.tracking.payload = payload
    THEN f.tracking
    ELSE [type |-> type, doc |-> id, payload |-> payload, transmission |-> 0]

SelectFlightPayload(f, i, j) ==
    Select(f, "flight", At(f, "flights", i), [At(f, "flights", i) EXCEPT !.payload = j],
             Tracking(f, "flight", f.flight_docs[i].id, j))

SelectFlight(f, i) ==
    LET doc == f.flight_docs[i]
        saved == IF f.tracking.type = "flight" /\ f.tracking.doc = doc.id
                 THEN f.tracking.payload ELSE 0
    IN  IF i \in DOMAIN f.flight_docs /\ doc.id # NoId /\ doc.payloads # <<>>
        THEN SelectFlightPayload(f, i, SavedOr(saved, Len(doc.payloads)))
        ELSE Unselect(f)

SelectPayload(f, i) ==
    IF i \in DOMAIN f.payload_docs /\ f.payload_docs[i].id # NoId
    THEN Select(f, "payload", Null, At(f, "payloads", i),
                  Tracking(f, "payload", f.payload_docs[i].id, 0))
    ELSE Unselect(f)

\* select_transmission: a count left by another payload is noticed.
SelectTransmission(f, k) ==
    IF /\ f.cur_payload # Null /\ Transmissions(f, f.cur_payload) = f.cur_transmission_count
       /\ k \in 1 .. f.cur_transmission_count
    THEN [f EXCEPT !.cur_transmission = [f.cur_payload EXCEPT !.transmission = k],
                   !.cur_transmission_index = k, !.tracking.transmission = k]
    ELSE [f EXCEPT !.cur_transmission = Null, !.cur_transmission_index = 1]

\* auto_switchmode: the next, and the first after the last.
AutoSwitchMode(f) ==
    SelectTransmission(f, IF f.cur_transmission_index < f.cur_transmission_count
                          THEN f.cur_transmission_index + 1 ELSE 1)

Docs(f, list) == IF list = "flights" THEN f.flight_docs ELSE f.payload_docs
Heap(list) == IF list = "flights" THEN "flight" ELSE "payload"

\* Document i has a name and carries the saved id.
Tracked(f, list, i) ==
    LET doc == Docs(f, list)[i]
    IN  /\ doc.named /\ doc.id # NoId
        /\ f.tracking.type = Heap(list) /\ f.tracking.doc = doc.id

\* Slip: the pointers into the list before stay.
ClearedNever(f, list) == f

\* Slip: whatever is selected is unselected.
ClearedAlways(f, list) == Unselect(f)

\* What is selected from this list is unselected.
Cleared(f, list) == IF f.cur_heap = Heap(list) THEN Unselect(f) ELSE f

Found(f, list, i) ==
    IF ~Tracked(f, list, i) THEN f
    ELSE IF list = "flights" THEN SelectFlight(f, i) ELSE SelectPayload(f, i)

\* populate_flights and populate_payloads: the documents are gone through, and each
\* that has the saved id is selected, which begins by unselecting.
Populated(f, list) ==
    LET through[i \in 0 .. Len(Docs(f, list))] ==
            IF i = 0 THEN Cleared(f, list) ELSE Found(through[i - 1], list, i)
    IN  through[Len(Docs(f, list))]

\* The list is replaced, and what pointed into it points nowhere.
Replaced(f, list, docs) ==
    LET g == [f EXCEPT !.version[list] = 1 - @]
    IN  IF list = "flights" THEN [g EXCEPT !.flight_docs = docs]
        ELSE [g EXCEPT !.payload_docs = docs]

---------------------------------------------------------------------------
ListsOf(list) == IF list = "flights" THEN FlightLists ELSE PayloadLists

Globals ==
    [tracking : Saved, flight_docs : FlightLists, payload_docs : PayloadLists,
     version : [Lists -> 0 .. 1],
     cur_heap : Heaps, cur_flight : Pointer, cur_payload : Pointer, cur_transmission : Pointer,
     cur_transmission_index : Nat \ {0}, cur_transmission_count : Nat,
     extrmgr : BOOLEAN, extracted : Pointer, crashed : BOOLEAN, downloaded : SUBSET Lists]

Requests == {"settings", "reset", "stop"} \cup Lists

TypeOK ==
    /\ fl \in Globals
    /\ online \in BOOLEAN
    /\ uploader \in [queue : Seq(Requests), ready : BOOLEAN,
                     at : {"rest", "asking", "replacing", "over"}, list : Lists]
    /\ main \in {"start", "run", "cleanup", "leaving", "over"}
    /\ moves \in 0 .. MaxMoves

Init ==
    /\ fl \in {Nothing(t) : t \in Trackings}
    /\ online = FALSE
    /\ uploader = [queue |-> <<>>, ready |-> FALSE, at |-> "rest", list |-> "flights"]
    /\ main = "start"
    /\ moves = MaxMoves

\* The uploader holds the lock from the replacement of a list until the selection
\* has been found again; the main thread releases it when it waits for events.
FlLockFree == ~fl.crashed /\ main \in {"run", "leaving"} /\ uploader.at # "replacing"

---------------------------------------------------------------------------
(* The main thread *)

Asked(requests) == uploader' = [uploader EXCEPT !.queue = @ \o requests]

\* settings() leaves the uploader without a database when something is missing.
Settings == {"settings", "reset"}

\* What online(val) asks the uploader for.
Going(f, val) ==
    IF val = online THEN {<<>>}
    ELSE IF val
    THEN {<<s>> \o (IF "flights" \in f.downloaded THEN <<>> ELSE <<"flights">>)
               \o (IF "payloads" \in f.downloaded THEN <<>> ELSE <<"payloads">>) : s \in Settings}
    ELSE {<<"reset">>}

\* ready: the cache (a file that cannot be read leaves a list empty), the uploader
\* thread, online in HAB mode.
Ready ==
    /\ main = "start" /\ main' = "run"
    /\ \E flights \in FlightLists, payloads \in PayloadLists :
         LET read == [Unselect(fl) EXCEPT !.flight_docs = flights, !.payload_docs = payloads]
         IN  fl' = Populated(Populated(read, "flights"), "payloads")
    /\ \E hab_mode \in BOOLEAN :
         /\ online' = hab_mode
         /\ \E requests \in Going(fl, hab_mode) : Asked(requests)
    /\ UNCHANGED moves

\* A callback runs under the lock from beginning to end.
User ==
    /\ main = "run" /\ FlLockFree
    /\ moves > 0 /\ moves' = moves - 1
    /\ UNCHANGED main

UserSelectsFlight ==
    /\ User
    /\ \E i \in 0 .. Len(fl.flight_docs) : fl' = SelectFlight(fl, i)
    /\ UNCHANGED <<online, uploader>>

\* From the browser, or found by payload_search.
UserSelectsPayload ==
    /\ User
    /\ \E i \in 0 .. Len(fl.payload_docs) : fl' = SelectPayload(fl, i)
    /\ UNCHANGED <<online, uploader>>

\* flight_payload_choice_callback; the list holds the payloads of the flight.
UserChoosesPayload ==
    /\ User
    /\ fl.cur_heap = "flight"
    /\ \E j \in DOMAIN fl.flight_docs[fl.cur_flight.doc].payloads :
         fl' = SelectFlightPayload(fl, fl.cur_flight.doc, j)
    /\ UNCHANGED <<online, uploader>>

\* mode_choice_callback
UserChoosesTransmission ==
    /\ User
    /\ \E k \in 1 .. Transmissions(fl, fl.cur_payload) : fl' = SelectTransmission(fl, k)
    /\ UNCHANGED <<online, uploader>>

UserSwitchesMode ==
    /\ User
    /\ fl' = AutoSwitchMode(fl)
    /\ UNCHANGED <<online, uploader>>

\* The buttons are active only when online.
UserRefreshes ==
    /\ User /\ online
    /\ Asked(<<"flights", "payloads">>)
    /\ UNCHANGED <<fl, online>>

UserGoes ==
    /\ User
    /\ online' = ~online
    /\ \E requests \in Going(fl, ~online) : Asked(requests)
    /\ UNCHANGED fl

\* commit, when the settings of the uploader have changed.
UserCommits ==
    /\ User
    /\ fl' = [fl EXCEPT !.downloaded = {}]
    /\ \E s \in (IF online THEN Settings ELSE {"reset"}) : Asked(<<s, "flights", "payloads">>)
    /\ UNCHANGED online

\* cleanup: the extractor is deleted, the uploader told to stop.
Cleanup ==
    /\ main = "run" /\ FlLockFree
    /\ main' = "cleanup"
    /\ fl' = [fl EXCEPT !.extrmgr = FALSE, !.extracted = Null]
    /\ Asked(<<"stop">>)
    /\ UNCHANGED <<online, moves>>

\* Slip: the end of the uploader thread is awaited with the lock held.
WaitHoldingLock ==
    /\ main = "cleanup" /\ uploader.at = "over"
    /\ main' = "leaving"
    /\ UNCHANGED <<fl, online, uploader, moves>>

\* Fl::wait releases the lock.
Wait ==
    /\ main = "cleanup"
    /\ main' = "leaving"
    /\ UNCHANGED <<fl, online, uploader, moves>>

\* uthr_thread_death, and flights::cleanup after it.
ThreadDeath ==
    /\ main = "leaving" /\ uploader.at = "over"
    /\ main' = "over"
    /\ fl' = [Nothing(fl.tracking) EXCEPT !.extrmgr = FALSE, !.version = fl.version,
                                          !.downloaded = fl.downloaded]
    /\ UNCHANGED <<online, uploader, moves>>

---------------------------------------------------------------------------
(* The uploader thread; what it does with a request is the habitat library's *)

Take ==
    /\ uploader.at = "rest" /\ uploader.queue # <<>>
    /\ LET what == Head(uploader.queue)
           next == [uploader EXCEPT !.queue = Tail(@)]
       IN  uploader' = CASE what \in Settings -> [next EXCEPT !.ready = (what = "settings")]
                         [] what = "stop"     -> [next EXCEPT !.at = "over"]
                         [] what \in Lists /\ uploader.ready -> [next EXCEPT !.at = "asking", !.list = what]
                         [] OTHER -> next          \* NotInitialisedError
    /\ UNCHANGED <<fl, online, main, moves>>

\* caught_exception takes the lock to say so.
DownloadFails ==
    /\ uploader.at = "asking" /\ FlLockFree
    /\ uploader' = [uploader EXCEPT !.at = "rest"]
    /\ UNCHANGED <<fl, online, main, moves>>

\* new_flight_docs and new_payload_docs: the list is replaced, then the cache is
\* written.
Downloaded ==
    /\ uploader.at = "asking" /\ FlLockFree
    /\ \E docs \in ListsOf(uploader.list) :
         fl' = [Replaced(fl, uploader.list, docs) EXCEPT !.downloaded = @ \cup {uploader.list}]
    /\ uploader' = [uploader EXCEPT !.at = "replacing"]
    /\ UNCHANGED <<online, main, moves>>

\* populate_flights and populate_payloads
Populate ==
    /\ uploader.at = "replacing"
    /\ fl' = Populated(fl, uploader.list)
    /\ uploader' = [uploader EXCEPT !.at = "rest"]
    /\ UNCHANGED <<online, main, moves>>

---------------------------------------------------------------------------
UploaderStep == ~fl.crashed /\ (Take \/ DownloadFails \/ Downloaded \/ Populate)

Waiting == ~fl.crashed /\ (Wait \/ ThreadDeath)

UserStep ==
    \/ Ready
    \/ UserSelectsFlight \/ UserSelectsPayload
    \/ UserChoosesPayload \/ UserChoosesTransmission \/ UserSwitchesMode
    \/ UserRefreshes \/ UserGoes \/ UserCommits
    \/ Cleanup

Next == UploaderStep \/ Waiting \/ UserStep

\* When the program ends the uploader is not starved, its download ends one way or
\* the other, and Fl::wait returns; nothing is assumed of the user.
Spec ==
    /\ Init /\ [][Next]_vars
    /\ WF_vars(main \in {"cleanup", "leaving"} /\ UploaderStep)
    /\ WF_vars(Waiting)

---------------------------------------------------------------------------
(* Properties *)

\* The pointer to the document that is selected.
Chosen(f) == IF f.cur_heap = "flight" THEN f.cur_flight ELSE f.cur_payload

\* Whoever takes the Fl lock finds pointers into the lists there are: populate_*
\* has removed or found again what pointed into the list that was replaced.
PointersAlive ==
    FlLockFree => \A p \in {fl.cur_flight, fl.cur_payload, fl.cur_transmission} : Alive(fl, p)

\* The flight, the payload and the transmission are one selection of one list, and
\* the extractor has the same payload (the functions of select_flight downwards).  A
\* flight is selected without a payload only if it has an empty one.
OneSelection ==
    /\ fl.cur_heap = "nothing" => fl.cur_payload = Null
    /\ fl.cur_heap = "payload" => fl.cur_payload.list = "payloads"
    /\ fl.cur_heap = "flight"  =>
         /\ fl.cur_flight.list = "flights"
         /\ fl.cur_payload # Null =>
              /\ fl.cur_payload = [fl.cur_flight EXCEPT !.payload = fl.cur_payload.payload]
              /\ fl.cur_payload # fl.cur_flight
         /\ FlLockFree /\ fl.cur_payload = Null =>
              \E j \in DOMAIN fl.flight_docs[fl.cur_flight.doc].payloads :
                fl.flight_docs[fl.cur_flight.doc].payloads[j] = Empty
    /\ fl.cur_heap # "flight"  => fl.cur_flight = Null
    /\ fl.cur_transmission # Null =>
         /\ fl.cur_payload # Null
         /\ fl.cur_transmission = [fl.cur_payload EXCEPT !.transmission = fl.cur_transmission_index]
         /\ FlLockFree => fl.cur_transmission_index \in 1 .. Transmissions(fl, fl.cur_payload)
    /\ fl.extrmgr => fl.extracted = fl.cur_payload

\* What is kept in progdefaults is what is selected: started again with the same
\* documents, the program selects it again.  An empty payload that was asked for is
\* kept as well.
SavedIsSelected ==
    FlLockFree /\ fl.cur_heap # "nothing" =>
        /\ fl.tracking.type = fl.cur_heap
        /\ fl.cur_heap = "flight" =>
              LET doc == fl.flight_docs[fl.cur_flight.doc]
              IN  /\ fl.tracking.doc = doc.id
                  /\ fl.tracking.payload \in DOMAIN doc.payloads
                  /\ IF fl.cur_payload = Null THEN doc.payloads[fl.tracking.payload] = Empty
                     ELSE fl.tracking.payload = fl.cur_payload.payload
        /\ fl.cur_heap = "payload" => fl.tracking.doc = fl.payload_docs[fl.cur_payload.doc].id
        /\ fl.cur_transmission # Null => fl.tracking.transmission = fl.cur_transmission_index

\* A new list leaves a selection from the other list as it is.  A document that is
\* in the new list once, with a name, stays selected, with its payload and its
\* transmission as far as it still has them (new_flight_docs, new_payload_docs).
Alone(f) ==
    LET docs == IF f.cur_heap = "flight" THEN f.flight_docs ELSE f.payload_docs
        with == {i \in DOMAIN docs : docs[i].id = f.tracking.doc}
    IN  \E i \in with :
          /\ with = {i} /\ docs[i].named
          /\ f.cur_heap = "flight" => f.tracking.payload \in DOMAIN docs[i].payloads

SameSelection(f, g) ==
    /\ g.cur_heap = f.cur_heap
    /\ g.tracking.doc = f.tracking.doc /\ g.tracking.payload = f.tracking.payload
    /\ f.tracking.transmission \in 1 .. Transmissions(g, g.cur_payload)
         => g.cur_transmission_index = f.tracking.transmission

SelectionKept ==
    [][uploader.at = "replacing" /\ uploader'.at = "rest" /\ fl.cur_heap # "nothing"
         => IF Alive(fl, Chosen(fl))
            THEN fl' = fl
            ELSE Alone(fl) => SameSelection(fl, fl')]_vars

\* The extractor is used after its end in one way only: cleanup waits for the uploader
\* with extrmgr at 0, a download comes in, and what is saved is of the list it replaces.
CrashedOnlyLeaving ==
    fl.crashed => main = "leaving" /\ fl.tracking.type = Heap(uploader.list)

\* The program ends: whatever the uploader is doing, it gets the lock it waits for.
CleanupEnds == main = "cleanup" ~> main = "over" \/ fl.crashed

\* "The data pointed to must not be modified at all while extrmgr has a pointer to
\* it": the modem thread pushes characters without the Fl lock.
ExtractedAlive == Alive(fl, fl.extracted)
=============================================================================
