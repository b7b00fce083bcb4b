--------------------------- MODULE Flights_proofs ---------------------------
(***************************************************************************)
(* Proofs about Flights for any lists of documents, any saved selection    *)
(* and any number of moves.                                                *)
(***************************************************************************)
EXTENDS Flights, WellFoundedInduction, TLAPS

---------------------------------------------------------------------------
(* The inductive invariant.  The properties of Flights are not inductive:  *)
(* a new list leaves pointers into the list before, and they are found     *)
(* again from the saved selection only because that is what was selected,  *)
(* which has to hold while the pointers are astray as well.                *)

\* The pointers and the saved selection agree, whatever the lists hold.
Shaped(f) ==
    /\ f.cur_heap = "nothing" => f.cur_payload = Null
    /\ f.cur_heap # "nothing" => f.tracking.type = f.cur_heap /\ f.tracking.doc # NoId
    /\ f.cur_heap # "flight"  => f.cur_flight = Null
    /\ f.cur_heap = "payload" => f.cur_payload.list = "payloads" /\ f.tracking.payload = 0
    /\ f.cur_heap = "flight"  =>
         /\ f.cur_flight.list = "flights" /\ f.cur_flight.payload = 0
         /\ f.tracking.payload # 0
         /\ f.cur_payload # Null =>
              f.cur_payload = [f.cur_flight EXCEPT !.payload = f.tracking.payload]
    /\ f.cur_transmission # Null =>
         /\ f.cur_transmission = [f.cur_payload EXCEPT !.transmission = f.cur_transmission_index]
         /\ f.cur_payload # Null
         /\ f.tracking.transmission = f.cur_transmission_index
    /\ f.extrmgr => f.extracted = f.cur_payload

\* What they point to is there, and is what is saved.
Fresh(f) ==
    /\ f.cur_heap = "flight" =>
         LET doc == f.flight_docs[f.cur_flight.doc]
         IN  /\ f.cur_flight.version = f.version["flights"]
             /\ f.cur_flight.doc \in 1 .. Len(f.flight_docs)
             /\ f.tracking.payload \in 1 .. Len(doc.payloads)
             /\ f.cur_payload = Null => doc.payloads[f.tracking.payload] = Empty
             /\ f.tracking.doc = doc.id
    /\ f.cur_heap = "payload" =>
         /\ f.cur_payload.version = f.version["payloads"]
         /\ f.cur_payload.doc \in 1 .. Len(f.payload_docs)
         /\ f.tracking.doc = f.payload_docs[f.cur_payload.doc].id
    /\ f.cur_transmission # Null =>
         f.cur_transmission_index \in 1 .. Transmissions(f, f.cur_payload)

\* The list has been replaced: what was selected from it points nowhere.
Behind(f, list) ==
    IF f.cur_heap = Heap(list) THEN Chosen(f).version # f.version[list] ELSE Fresh(f)

\* The extractor is deleted by cleanup, and the first list comes after ready.
Extracting ==
    /\ main \in {"start", "run"} => fl.extrmgr
    /\ main = "start" => uploader.at # "replacing"

FInv ==
    /\ TypeOK
    /\ Extracting
    /\ Shaped(fl)
    /\ ~fl.crashed => IF uploader.at = "replacing" THEN Behind(fl, uploader.list) ELSE Fresh(fl)

---------------------------------------------------------------------------
(* Selecting                                                               *)

\* What selecting leaves alone.
Same(f, g) ==
    /\ g.flight_docs = f.flight_docs /\ g.payload_docs = f.payload_docs
    /\ g.version = f.version
    /\ g.extrmgr = f.extrmgr /\ g.downloaded = f.downloaded

LEMMA SameTransmissions ==
    ASSUME NEW f, NEW g, Same(f, g), NEW p
    PROVE  Transmissions(g, p) = Transmissions(f, p)
BY DEF Same, Transmissions, Alive

\* What do_select_payload leaves: the selection asked for, without an empty payload,
\* with a transmission if there is one, the saved one if that is there.
Becomes(f, g, heap, flight, payload, tracking) ==
    /\ g \in Globals /\ Same(f, g) /\ g.crashed = f.crashed
    /\ g.cur_heap = heap /\ g.cur_flight = flight
    /\ g.cur_payload = payload /\ g.extracted = payload
    /\ g.tracking.type = tracking.type /\ g.tracking.doc = tracking.doc
    /\ g.tracking.payload = tracking.payload
    /\ g.cur_transmission # Null =>
         /\ g.cur_transmission = [payload EXCEPT !.transmission = g.cur_transmission_index]
         /\ g.tracking.transmission = g.cur_transmission_index
         /\ g.cur_transmission_index \in 1 .. Transmissions(g, payload)
    /\ Transmissions(g, payload) = 0 => g.cur_transmission = Null /\ g.tracking = tracking
    /\ tracking.transmission \in 1 .. Transmissions(g, payload)
         => g.cur_transmission_index = tracking.transmission

LEMMA DoSelects ==
    ASSUME NEW f \in Globals, NEW heap \in Heaps, NEW flight \in Pointer,
           NEW pointer \in Pointer, NEW tracking \in Saved,
           NEW payload, payload = NotEmpty(f, pointer), Transmissions(f, payload) \in Nat
    PROVE  Becomes(f, DoSelect(f, heap, flight, pointer, tracking),
                   heap, flight, payload, tracking)
<1> DEFINE g == DoSelect(f, heap, flight, pointer, tracking)
           n == Transmissions(f, payload)
           k == SavedOr(tracking.transmission, n)
           h == [f EXCEPT !.cur_heap = heap, !.cur_flight = flight,
                          !.cur_payload = payload, !.extracted = payload]
<1>0. payload \in Pointer
  BY DEF NotEmpty, Null, Pointer
<1>1. /\ h \in Globals /\ Same(f, h) /\ h.crashed = f.crashed
      /\ h.cur_heap = heap /\ h.cur_flight = flight
      /\ h.cur_payload = payload /\ h.extracted = payload
  BY <1>0 DEF Globals, Same
<1>2. n \in Nat /\ (n # 0 => k \in 1 .. n) /\ (tracking.transmission \in 1 .. n => k = tracking.transmission)
  BY DEF SavedOr, Saved
<1>3. Null \in Pointer
  BY DEF Null, Pointer
<1>4. g = IF n = 0
          THEN [h EXCEPT !.tracking = tracking,
                         !.cur_transmission = Null, !.cur_transmission_index = 1]
          ELSE [h EXCEPT !.tracking = [tracking EXCEPT !.transmission = k],
                         !.cur_transmission = [payload EXCEPT !.transmission = k],
                         !.cur_transmission_index = k, !.cur_transmission_count = n]
  BY DEF DoSelect
<1> HIDE DEF g, h, k, n
<1> SUFFICES Becomes(f, g, heap, flight, payload, tracking)
  BY DEF g
<1>5. CASE n = 0
  <2>1. /\ g \in Globals /\ Same(f, g) /\ g.crashed = f.crashed
        /\ g.cur_heap = heap /\ g.cur_flight = flight
        /\ g.cur_payload = payload /\ g.extracted = payload
        /\ g.tracking = tracking /\ g.cur_transmission = Null
    <3>1. g = [h EXCEPT !.tracking = tracking,
                        !.cur_transmission = Null, !.cur_transmission_index = 1]
      BY <1>4, <1>5
    <3> DEFINE one == 1
    <3>2. one \in Nat \ {0}
      OBVIOUS
    <3> HIDE DEF one
    <3>3. g = [h EXCEPT !.tracking = tracking,
                        !.cur_transmission = Null, !.cur_transmission_index = one]
      BY <3>1 DEF one
    <3>4. g \in Globals
      BY <1>1, <1>3, <3>2, <3>3 DEF Globals
    <3> QED  BY <1>1, <3>1, <3>4 DEF Globals, Same
  <2>2. Transmissions(g, payload) = 0
    BY <1>5, <2>1, SameTransmissions DEF n
  <2> QED  BY <1>2, <1>5, <2>1, <2>2 DEF Becomes
<1>6. CASE n # 0
  <2> DEFINE saved == [tracking EXCEPT !.transmission = k]
             part  == [payload EXCEPT !.transmission = k]
  <2>1. /\ saved \in Saved /\ saved.type = tracking.type /\ saved.doc = tracking.doc
        /\ saved.payload = tracking.payload /\ saved.transmission = k
        /\ part \in Pointer
    BY <1>0, <1>2, <1>6 DEF Saved, Pointer
  <2>2. part = [payload EXCEPT !.transmission = k]
    OBVIOUS
  <2> HIDE DEF saved, part
  <2>3. g = [h EXCEPT !.tracking = saved, !.cur_transmission = part,
                      !.cur_transmission_index = k, !.cur_transmission_count = n]
    BY <1>4, <1>6 DEF saved, part
  <2>4. k \in Nat \ {0} /\ k \in 1 .. n
    BY <1>2, <1>6
  <2>5. /\ g \in Globals /\ Same(f, g) /\ g.crashed = f.crashed
        /\ g.cur_heap = heap /\ g.cur_flight = flight
        /\ g.cur_payload = payload /\ g.extracted = payload
        /\ g.tracking = saved /\ g.cur_transmission = part
        /\ g.cur_transmission_index = k
    BY <1>1, <1>2, <2>1, <2>3, <2>4 DEF Globals, Same
  <2>6. Transmissions(g, payload) = n
    BY <2>5, SameTransmissions DEF n
  <2> QED  BY <1>2, <1>6, <2>1, <2>2, <2>4, <2>5, <2>6 DEF Becomes
<1> QED  BY <1>5, <1>6

\* What a selection makes of the globals, if the extractor is still there.
Selected(f, g) ==
    /\ g \in Globals /\ Same(f, g)
    /\ IF f.extrmgr THEN g.crashed = f.crashed /\ Shaped(g) /\ Fresh(g)
       ELSE g = [f EXCEPT !.crashed = TRUE]

LEMMA Crashes ==
    ASSUME NEW f \in Globals, NEW heap, NEW flight, NEW payload, NEW tracking, ~f.extrmgr
    PROVE  Selected(f, Select(f, heap, flight, payload, tracking))
<1>1. [f EXCEPT !.crashed = TRUE] \in Globals /\ Same(f, [f EXCEPT !.crashed = TRUE])
  BY DEF Globals, Same
<1> QED  BY <1>1 DEF Select, Selected

LEMMA Unselects ==
    ASSUME NEW f \in Globals, NEW g, g = Unselect(f)
    PROVE  /\ Selected(f, g)
           /\ f.extrmgr => g.cur_heap = "nothing" /\ g.tracking = f.tracking
<1>1. CASE ~f.extrmgr
  BY <1>1, Crashes DEF Unselect
<1>2. CASE f.extrmgr
  <2>1. g = DoSelect(f, "nothing", Null, Null, f.tracking)
    BY <1>2 DEF Unselect, Select
  <2>2. f.tracking \in Saved /\ Null \in Pointer /\ "nothing" \in Heaps
    BY DEF Globals, Null, Pointer, Heaps
  <2>3. Transmissions(f, Null) = 0 /\ Null = NotEmpty(f, Null)
    BY DEF Transmissions, NotEmpty
  <2>4. /\ g \in Globals /\ Same(f, g) /\ g.crashed = f.crashed
        /\ g.cur_heap = "nothing" /\ g.cur_flight = Null
        /\ g.cur_payload = Null /\ g.extracted = Null
        /\ g.cur_transmission = Null /\ g.tracking = f.tracking
    <3>1. Becomes(f, g, "nothing", Null, Null, f.tracking)
      BY <2>1, <2>2, <2>3, DoSelects
    <3>2. Transmissions(g, Null) = 0
      BY DEF Transmissions
    <3> QED  BY <3>1, <3>2 DEF Becomes
  <2>5. Shaped(g) /\ Fresh(g)
    BY <2>4 DEF Shaped, Fresh
  <2> QED  BY <1>2, <2>4, <2>5 DEF Selected
<1> QED  BY <1>1, <1>2

\* The saved selection becomes that of the document; what was saved of another one
\* is forgotten.
LEMMA Tracks ==
    ASSUME NEW f \in Globals, NEW type \in Heaps, NEW id \in STRING, NEW payload \in Nat,
           NEW tracking, tracking = Tracking(f, type, id, payload)
    PROVE  /\ tracking \in Saved
           /\ tracking.type = type /\ tracking.doc = id /\ tracking.payload = payload
BY DEF Tracking, Saved, Globals

LEMMA FlightDocs ==
    ASSUME NEW f \in Globals
    PROVE  /\ f.flight_docs \in Seq(FlightDoc) /\ Len(f.flight_docs) \in Nat
           /\ \A i \in 1 .. Len(f.flight_docs) :
                /\ f.flight_docs[i] \in FlightDoc
                /\ f.flight_docs[i].id \in STRING
                /\ f.flight_docs[i].payloads \in Seq(Nat \cup {Empty})
           /\ f.payload_docs \in Seq(PayloadDoc) /\ Len(f.payload_docs) \in Nat
           /\ \A i \in 1 .. Len(f.payload_docs) :
                /\ f.payload_docs[i] \in PayloadDoc
                /\ f.payload_docs[i].id \in STRING /\ f.payload_docs[i].transmissions \in Nat
           /\ f.version \in [Lists -> 0 .. 1]
<1>1. f.flight_docs \in FlightLists /\ f.payload_docs \in PayloadLists /\ f.version \in [Lists -> 0 .. 1]
  BY DEF Globals
<1>2. f.flight_docs \in Seq(FlightDoc) /\ f.payload_docs \in Seq(PayloadDoc)
  BY <1>1, FlightsAssumption
<1>3. /\ \A d \in FlightDoc : d.id \in STRING /\ d.payloads \in Seq(Nat \cup {Empty})
      /\ \A d \in PayloadDoc : d.id \in STRING /\ d.transmissions \in Nat
  BY DEF FlightDoc, PayloadDoc
<1> QED  BY <1>1, <1>2, <1>3

\* A document, and a payload of it, is selected, with the transmission kept for them.
Takes(f, g, heap, id, payload) ==
    /\ Selected(f, g)
    /\ f.extrmgr =>
         LET k == Tracking(f, heap, id, payload).transmission
         IN  /\ g.cur_heap = heap
             /\ g.tracking.doc = id /\ g.tracking.payload = payload
             /\ k \in 1 .. Transmissions(g, g.cur_payload) => g.cur_transmission_index = k

\* select_flight_payload
LEMMA SelectsFlightPayload ==
    ASSUME NEW f \in Globals, NEW i \in 1 .. Len(f.flight_docs), f.flight_docs[i].id # NoId,
           NEW j \in 1 .. Len(f.flight_docs[i].payloads),
           NEW g, g = SelectFlightPayload(f, i, j)
    PROVE  Takes(f, g, "flight", f.flight_docs[i].id, j)
<1> DEFINE id == f.flight_docs[i].id
           flight == At(f, "flights", i)
           pointer == [flight EXCEPT !.payload = j]
           payload == NotEmpty(f, pointer)
           tracking == Tracking(f, "flight", id, j)
<1>1. CASE ~f.extrmgr
  BY <1>1, Crashes DEF SelectFlightPayload, Takes
<1>2. CASE f.extrmgr
  <2>1. g = DoSelect(f, "flight", flight, pointer, tracking)
    BY <1>2 DEF SelectFlightPayload, Select
  <2>2. /\ id \in STRING /\ i \in Nat /\ j \in Nat \ {0} /\ "flight" \in Heaps /\ "flights" \in Lists
        /\ f.version["flights"] \in 0 .. 1
        /\ f.flight_docs[i].payloads[j] \in Nat \cup {Empty}
    BY FlightDocs DEF Heaps, Lists
  <2>3. /\ flight \in Pointer /\ flight.list = "flights" /\ flight.version = f.version["flights"]
        /\ flight.doc = i /\ flight.payload = 0
    BY <2>2 DEF At, Null, Pointer
  <2>4. /\ pointer \in Pointer /\ pointer.list = "flights" /\ pointer.version = f.version["flights"]
        /\ pointer.doc = i /\ pointer.payload = j
        /\ pointer # Null
    BY <2>2, <2>3 DEF Pointer, Null
  <2>5. Transmissions(f, pointer) = f.flight_docs[i].payloads[j]
    BY <2>4 DEF Transmissions, Alive
  <2>6. IF f.flight_docs[i].payloads[j] = Empty THEN payload = Null ELSE payload = pointer
    BY <2>4, <2>5 DEF NotEmpty
  <2>7. /\ tracking \in Saved
        /\ tracking.type = "flight" /\ tracking.doc = id /\ tracking.payload = j
    <3> HIDE DEF id
    <3>1. tracking = Tracking(f, "flight", id, j) /\ j \in Nat
      BY <2>2
    <3> HIDE DEF tracking
    <3> QED  BY <2>2, <3>1, Tracks
  <2>8. payload # Null => payload = [flight EXCEPT !.payload = j]
    BY <2>6
  <2>9. payload = NotEmpty(f, pointer)
    OBVIOUS
  <2> HIDE DEF flight, pointer, payload, tracking
  <2>10. Transmissions(f, payload) \in Nat
    <3>1. Transmissions(f, Null) = 0
      BY DEF Transmissions
    <3> QED  BY <2>2, <2>5, <2>6, <3>1
  <2>11. /\ g \in Globals /\ Same(f, g) /\ g.crashed = f.crashed
         /\ g.cur_heap = "flight" /\ g.cur_flight = flight
         /\ g.cur_payload = payload /\ g.extracted = payload
         /\ g.tracking.type = "flight" /\ g.tracking.doc = id
         /\ g.tracking.payload = j
         /\ g.cur_transmission # Null =>
              /\ g.cur_transmission = [payload EXCEPT !.transmission = g.cur_transmission_index]
              /\ g.tracking.transmission = g.cur_transmission_index
              /\ g.cur_transmission_index \in 1 .. Transmissions(g, payload)
         /\ tracking.transmission \in 1 .. Transmissions(g, payload)
              => g.cur_transmission_index = tracking.transmission
    <3>1. Becomes(f, g, "flight", flight, payload, tracking)
      BY <2>1, <2>2, <2>3, <2>4, <2>7, <2>9, <2>10, DoSelects
    <3> QED  BY <2>7, <3>1 DEF Becomes
  <2>12. g.cur_transmission # Null => payload # Null
    <3>1. Transmissions(g, Null) = 0
      BY DEF Transmissions
    <3> QED  BY <2>11, <3>1
  <2>13. Shaped(g)
    BY <2>2, <2>3, <2>8, <2>11, <2>12 DEF Shaped
  <2>14. Fresh(g)
    BY <2>3, <2>4, <2>6, <2>11 DEF Fresh, Same
  <2> QED  BY <1>2, <2>11, <2>13, <2>14 DEF Selected, tracking, Takes
<1> QED  BY <1>1, <1>2

LEMMA SelectsFlight ==
    ASSUME NEW f \in Globals, NEW i \in Nat, NEW g, g = SelectFlight(f, i)
    PROVE  Selected(f, g)
<1> DEFINE doc == f.flight_docs[i]
           saved == IF f.tracking.type = "flight" /\ f.tracking.doc = doc.id
                    THEN f.tracking.payload ELSE 0
           j == SavedOr(saved, Len(doc.payloads))
<1>1. CASE i \in DOMAIN f.flight_docs /\ doc.id # NoId /\ doc.payloads # <<>>
  <2>1. i \in 1 .. Len(f.flight_docs) /\ doc.payloads \in Seq(Nat \cup {Empty})
    BY <1>1, FlightDocs
  <2>2. j \in 1 .. Len(doc.payloads)
    <3>1. Len(doc.payloads) \in Nat \ {0}
      BY <1>1, <2>1
    <3> QED  BY <3>1 DEF SavedOr
  <2>3. g = SelectFlightPayload(f, i, j)
    BY <1>1 DEF SelectFlight
  <2> HIDE DEF j
  <2> QED  BY <1>1, <2>1, <2>2, <2>3, SelectsFlightPayload DEF Takes
<1>2. CASE ~(i \in DOMAIN f.flight_docs /\ doc.id # NoId /\ doc.payloads # <<>>)
  <2>1. g = Unselect(f)
    BY <1>2 DEF SelectFlight
  <2> QED  BY <2>1, Unselects
<1> QED  BY <1>1, <1>2

\* select_payload, of a document that has an id
LEMMA SelectsPayloadDoc ==
    ASSUME NEW f \in Globals, NEW i \in 1 .. Len(f.payload_docs), f.payload_docs[i].id # NoId,
           NEW g, g = SelectPayload(f, i)
    PROVE  Takes(f, g, "payload", f.payload_docs[i].id, 0)
<1> DEFINE id == f.payload_docs[i].id
           payload == At(f, "payloads", i)
           tracking == Tracking(f, "payload", id, 0)
<1>0. i \in DOMAIN f.payload_docs
  BY FlightDocs
<1>1. CASE ~f.extrmgr
  BY <1>0, <1>1, Crashes DEF SelectPayload, Takes
<1>2. CASE f.extrmgr
  <2>1. g = DoSelect(f, "payload", Null, payload, tracking)
    BY <1>0, <1>2 DEF SelectPayload, Select
  <2>2. /\ id \in STRING /\ i \in Nat /\ "payload" \in Heaps /\ "payloads" \in Lists
        /\ f.version["payloads"] \in 0 .. 1
        /\ f.payload_docs[i].transmissions \in Nat
        /\ Null \in Pointer
    BY FlightDocs DEF Heaps, Lists, Null, Pointer
  <2>3. /\ payload \in Pointer /\ payload.list = "payloads"
        /\ payload.version = f.version["payloads"] /\ payload.doc = i /\ payload # Null
    BY <2>2 DEF At, Null, Pointer
  <2>4. /\ Transmissions(f, payload) = f.payload_docs[i].transmissions
        /\ payload = NotEmpty(f, payload)
    <3>1. Transmissions(f, payload) = f.payload_docs[i].transmissions
      BY <2>3 DEF Transmissions, Alive
    <3>2. f.payload_docs[i].transmissions # Empty
      BY <2>2 DEF Empty
    <3> QED  BY <3>1, <3>2 DEF NotEmpty
  <2>5. /\ tracking \in Saved
        /\ tracking.type = "payload" /\ tracking.doc = id /\ tracking.payload = 0
    <3> HIDE DEF id
    <3>1. tracking = Tracking(f, "payload", id, 0)
      OBVIOUS
    <3> HIDE DEF tracking
    <3> QED  BY <2>2, <3>1, Tracks
  <2> HIDE DEF payload, tracking
  <2>6. Becomes(f, g, "payload", Null, payload, tracking)
    <3>1. Transmissions(f, payload) \in Nat
      BY <2>2, <2>4
    <3> QED  BY <2>1, <2>2, <2>3, <2>4, <2>5, <3>1, DoSelects
  <2>7. Shaped(g)
    BY <2>2, <2>3, <2>5, <2>6 DEF Shaped, Becomes
  <2>8. Fresh(g)
    BY <2>3, <2>5, <2>6 DEF Fresh, Same, Becomes
  <2> QED  BY <1>2, <2>5, <2>6, <2>7, <2>8 DEF Selected, tracking, Becomes, Takes
<1> QED  BY <1>1, <1>2

LEMMA SelectsPayload ==
    ASSUME NEW f \in Globals, NEW i \in Nat, NEW g, g = SelectPayload(f, i)
    PROVE  Selected(f, g)
<1>1. CASE i \in DOMAIN f.payload_docs /\ f.payload_docs[i].id # NoId
  <2>1. i \in 1 .. Len(f.payload_docs)
    BY <1>1, FlightDocs
  <2> QED  BY <1>1, <2>1, SelectsPayloadDoc DEF Takes
<1>2. CASE ~(i \in DOMAIN f.payload_docs /\ f.payload_docs[i].id # NoId)
  <2>1. g = Unselect(f)
    BY <1>2 DEF SelectPayload
  <2> QED  BY <2>1, Unselects
<1> QED  BY <1>1, <1>2

\* select_transmission, of the payload that is selected
LEMMA SelectsTransmission ==
    ASSUME NEW f \in Globals, Shaped(f), Fresh(f), NEW k \in Nat,
           NEW g, g = SelectTransmission(f, k)
    PROVE  /\ g \in Globals /\ Same(f, g) /\ g.crashed = f.crashed
           /\ Shaped(g) /\ Fresh(g)
<1>1. CASE /\ f.cur_payload # Null /\ Transmissions(f, f.cur_payload) = f.cur_transmission_count
           /\ k \in 1 .. f.cur_transmission_count
  <2> DEFINE part  == [f.cur_payload EXCEPT !.transmission = k]
             saved == [f.tracking EXCEPT !.transmission = k]
  <2>1. g = [f EXCEPT !.cur_transmission = part, !.cur_transmission_index = k, !.tracking = saved]
    BY <1>1 DEF SelectTransmission
  <2>2. f.cur_payload \in Pointer /\ f.tracking \in Saved /\ k \in Nat \ {0}
    BY <1>1 DEF Globals
  <2>3. part \in Pointer
    BY <2>2 DEF Pointer
  <2>4. /\ saved \in Saved /\ saved.type = f.tracking.type /\ saved.doc = f.tracking.doc
        /\ saved.payload = f.tracking.payload /\ saved.transmission = k
    BY <2>2 DEF Saved
  <2>5. part = [f.cur_payload EXCEPT !.transmission = k]
    OBVIOUS
  <2> HIDE DEF part, saved
  <2>6. /\ g \in Globals /\ Same(f, g) /\ g.crashed = f.crashed
        /\ g.cur_heap = f.cur_heap /\ g.cur_flight = f.cur_flight
        /\ g.cur_payload = f.cur_payload /\ g.extracted = f.extracted
        /\ g.tracking = saved /\ g.cur_transmission = part /\ g.cur_transmission_index = k
    BY <2>1, <2>2, <2>3, <2>4 DEF Globals, Same
  <2>7. Transmissions(g, g.cur_payload) = Transmissions(f, f.cur_payload)
    BY <2>6, SameTransmissions
  <2>8. f.cur_payload # Null
    BY <1>1
  <2>9. Shaped(g)
    BY <2>4, <2>5, <2>6, <2>8 DEF Shaped, Same
  <2>10. Fresh(g)
    BY <1>1, <2>4, <2>6, <2>7 DEF Fresh, Same
  <2> QED  BY <2>6, <2>9, <2>10
<1>2. CASE ~(/\ f.cur_payload # Null /\ Transmissions(f, f.cur_payload) = f.cur_transmission_count
             /\ k \in 1 .. f.cur_transmission_count)
  <2> DEFINE one == 1
  <2>1. g = [f EXCEPT !.cur_transmission = Null, !.cur_transmission_index = one]
    BY <1>2 DEF SelectTransmission
  <2>2. one \in Nat \ {0} /\ Null \in Pointer
    BY DEF Null, Pointer
  <2> HIDE DEF one
  <2>3. /\ g \in Globals /\ Same(f, g) /\ g.crashed = f.crashed
        /\ g.cur_heap = f.cur_heap /\ g.cur_flight = f.cur_flight
        /\ g.cur_payload = f.cur_payload /\ g.extracted = f.extracted
        /\ g.tracking = f.tracking /\ g.cur_transmission = Null
    BY <2>1, <2>2 DEF Globals, Same
  <2> QED  BY <2>3 DEF Shaped, Fresh, Same
<1> QED  BY <1>1, <1>2

---------------------------------------------------------------------------
(* Going through a list (populate_flights, populate_payloads)              *)

LEMMA FirstOf ==
    ASSUME NEW S, S \subseteq Nat, S # {}
    PROVE  \E m \in S : \A k \in S : m <= k
<1>1. PICK m \in S : \A k \in S : ~(<<k, m>> \in OpToRel(<, Nat))
  BY NatLessThanWellFounded, WFMin
<1>2. m \in Nat /\ \A k \in S : k \in Nat
  OBVIOUS
<1>3. \A k \in S : ~(k < m)
  BY <1>1, <1>2 DEF OpToRel
<1> QED  BY <1>2, <1>3

\* The globals, from c, behind each document of the list.
Pass(c, list, n, r) ==
    r = [i \in 0 .. n |-> IF i = 0 THEN c ELSE Found(r[i - 1], list, i)]

LEMMA PassExists ==
    ASSUME NEW c, NEW list, NEW n \in Nat
    PROVE  \E r : Pass(c, list, n, r)
<1> DEFINE Without == {m \in Nat : ~\E r : Pass(c, list, m, r)}
<1> SUFFICES ASSUME Without # {} PROVE FALSE
  OBVIOUS
<1>1. PICK m \in Without : \A k \in Without : m <= k
  <2>1. Without \subseteq Nat
    OBVIOUS
  <2> HIDE DEF Without
  <2> QED  BY <2>1, FirstOf
<1>2. CASE m = 0
  <2> DEFINE r == [i \in 0 .. 0 |-> c]
  <2>1. Pass(c, list, 0, r)
    BY DEF Pass
  <2> QED  BY <1>1, <1>2, <2>1
<1>3. CASE m # 0
  <2>1. m \in Nat /\ m - 1 \in Nat /\ m - 1 \notin Without
    BY <1>1, <1>3
  <2>2. PICK r : Pass(c, list, m - 1, r)
    BY <2>1
  <2> DEFINE q == [i \in 0 .. m |-> IF i = m THEN Found(r[m - 1], list, m) ELSE r[i]]
  <2>3. q = [i \in 0 .. m |-> IF i = 0 THEN c ELSE Found(q[i - 1], list, i)]
    <3>1. \A i \in 0 .. m - 1 : q[i] = r[i]
      BY <2>1
    <3>2. \A i \in 0 .. m - 1 : r[i] = IF i = 0 THEN c ELSE Found(r[i - 1], list, i)
      BY <2>2 DEF Pass
    <3>3. ASSUME NEW i \in 0 .. m
          PROVE  q[i] = IF i = 0 THEN c ELSE Found(q[i - 1], list, i)
      <4>1. CASE i = m
        BY <1>3, <2>1, <3>1, <4>1
      <4>2. CASE i # m
        <5>1. i \in 0 .. m - 1 /\ (i # 0 => i - 1 \in 0 .. m - 1)
          BY <2>1, <4>2
        <5> HIDE DEF q
        <5> QED  BY <3>1, <3>2, <5>1
      <4> QED  BY <4>1, <4>2
    <3> QED  BY <3>3
  <2>4. Pass(c, list, m, q)
    BY <2>3 DEF Pass
  <2> QED  BY <1>1, <2>4
<1> QED  BY <1>2, <1>3

LEMMA PassOf ==
    ASSUME NEW f, NEW list, NEW n \in Nat, n = Len(Docs(f, list))
    PROVE  \E r : /\ Populated(f, list) = r[n]
                  /\ r[0] = Cleared(f, list)
                  /\ \A i \in 1 .. n : r[i] = Found(r[i - 1], list, i)
<1> DEFINE r == CHOOSE g : Pass(Cleared(f, list), list, n, g)
<1>1. Pass(Cleared(f, list), list, n, r)
  BY PassExists
<1>2. Populated(f, list) = r[n]
  BY DEF Populated, Pass
<1> HIDE DEF r
<1>3. r[0] = Cleared(f, list) /\ \A i \in 1 .. n : r[i] = Found(r[i - 1], list, i)
  BY <1>1 DEF Pass
<1> QED  BY <1>2, <1>3

\* The globals are in order, unless the extractor has been used after its end.
Settled(f) == f \in Globals /\ Shaped(f) /\ (~f.crashed => Fresh(f))

LEMMA SelectedSettles ==
    ASSUME NEW f \in Globals, Shaped(f), NEW g, Selected(f, g)
    PROVE  Settled(g) /\ Same(f, g)
<1>1. CASE f.extrmgr
  BY <1>1 DEF Selected, Settled
<1>2. CASE ~f.extrmgr
  <2>1. g \in Globals /\ Same(f, g) /\ g = [f EXCEPT !.crashed = TRUE]
    BY <1>2 DEF Selected
  <2>2. Shaped(g) /\ g.crashed
    <3>1. /\ g.cur_heap = f.cur_heap /\ g.cur_flight = f.cur_flight
          /\ g.cur_payload = f.cur_payload /\ g.extracted = f.extracted
          /\ g.tracking = f.tracking /\ g.cur_transmission = f.cur_transmission
          /\ g.cur_transmission_index = f.cur_transmission_index
          /\ g.extrmgr = f.extrmgr /\ g.crashed
      BY <2>1 DEF Globals
    <3> QED  BY <3>1 DEF Shaped
  <2> QED  BY <2>1, <2>2 DEF Settled
<1> QED  BY <1>1, <1>2

LEMMA FoundSettles ==
    ASSUME NEW f, Settled(f), NEW list \in Lists, NEW i \in Nat
    PROVE  Settled(Found(f, list, i)) /\ Same(f, Found(f, list, i))
<1> DEFINE g == Found(f, list, i)
<1>1. f \in Globals /\ Shaped(f)
  BY DEF Settled
<1>2. CASE g = f
  BY <1>2 DEF Same
<1>3. CASE g = SelectFlight(f, i)
  BY <1>1, <1>3, SelectsFlight, SelectedSettles
<1>4. CASE g = SelectPayload(f, i)
  BY <1>1, <1>4, SelectsPayload, SelectedSettles
<1> QED  BY <1>2, <1>3, <1>4 DEF Found

LEMMA ClearedSettles ==
    ASSUME NEW f \in Globals, Shaped(f), NEW list \in Lists,
           ~f.crashed /\ f.cur_heap # Heap(list) => Fresh(f)
    PROVE  Settled(Cleared(f, list)) /\ Same(f, Cleared(f, list))
<1> DEFINE g == Cleared(f, list)
<1>1. CASE f.cur_heap = Heap(list)
  <2>1. g = Unselect(f)
    BY <1>1 DEF Cleared
  <2> QED  BY <2>1, Unselects, SelectedSettles
<1>2. CASE f.cur_heap # Heap(list)
  BY <1>2 DEF Cleared, Settled, Same
<1> QED  BY <1>1, <1>2

\* Whatever the list holds, the globals are in order behind its last document.
LEMMA PopulateSettles ==
    ASSUME NEW f \in Globals, Shaped(f), NEW list \in Lists,
           ~f.crashed /\ f.cur_heap # Heap(list) => Fresh(f)
    PROVE  Settled(Populated(f, list)) /\ Same(f, Populated(f, list))
<1> DEFINE n == Len(Docs(f, list))
<1>1. n \in Nat
  BY FlightDocs DEF Docs
<1>2. PICK r : /\ Populated(f, list) = r[n]
               /\ r[0] = Cleared(f, list)
               /\ \A i \in 1 .. n : r[i] = Found(r[i - 1], list, i)
  <2> HIDE DEF n
  <2>1. n = Len(Docs(f, list))
    BY DEF n
  <2> QED  BY <1>1, <2>1, PassOf
<1> HIDE DEF n
<1> DEFINE Unsettled == {i \in 0 .. n : ~(Settled(r[i]) /\ Same(f, r[i]))}
<1>3. Unsettled = {}
  <2> SUFFICES ASSUME Unsettled # {} PROVE FALSE
    OBVIOUS
  <2>1. PICK m \in Unsettled : \A k \in Unsettled : m <= k
    <3>1. Unsettled \subseteq Nat
      BY <1>1
    <3> HIDE DEF Unsettled
    <3> QED  BY <3>1, FirstOf
  <2>2. m # 0
    BY <1>2, <2>1, ClearedSettles
  <2>3. m - 1 \in 0 .. n /\ m \in 1 .. n /\ m - 1 \notin Unsettled
    BY <1>1, <2>1, <2>2
  <2>4. Settled(r[m - 1]) /\ Same(f, r[m - 1])
    BY <2>3
  <2>5. r[m] = Found(r[m - 1], list, m) /\ m \in Nat
    BY <1>1, <1>2, <2>3
  <2>6. Settled(r[m]) /\ Same(r[m - 1], r[m])
    BY <2>4, <2>5, FoundSettles
  <2> QED  BY <2>1, <2>4, <2>6 DEF Same
<1> QED  BY <1>1, <1>2, <1>3

---------------------------------------------------------------------------
(* The steps                                                               *)

Uploader == [queue : Seq(Requests), ready : BOOLEAN,
             at : {"rest", "asking", "replacing", "over"}, list : Lists]

LEMMA AskedType ==
    ASSUME uploader \in Uploader, NEW requests \in Seq(Requests), Asked(requests)
    PROVE  uploader' \in Uploader /\ uploader'.at = uploader.at /\ uploader'.list = uploader.list
<1>1. uploader.queue \o requests \in Seq(Requests)
  BY DEF Uploader
<1> QED  BY <1>1 DEF Asked, Uploader

LEMMA GoingType ==
    ASSUME NEW f, NEW val \in BOOLEAN, NEW requests \in Going(f, val)
    PROVE  requests \in Seq(Requests)
<1>1. \A e \in Requests : <<e>> \in Seq(Requests)
  OBVIOUS
<1>2. /\ \A s \in Settings : s \in Requests
      /\ "flights" \in Requests /\ "payloads" \in Requests /\ "reset" \in Requests
  BY DEF Settings, Requests, Lists
<1>3. <<>> \in Seq(Requests)
  OBVIOUS
<1>4. \A p, q \in Seq(Requests) : p \o q \in Seq(Requests)
  OBVIOUS
<1>5. CASE val = online
  BY <1>3, <1>5 DEF Going
<1>6. CASE val # online /\ val
  <2> DEFINE a == IF "flights" \in f.downloaded THEN <<>> ELSE <<"flights">>
             b == IF "payloads" \in f.downloaded THEN <<>> ELSE <<"payloads">>
  <2>1. a \in Seq(Requests) /\ b \in Seq(Requests)
    BY <1>1, <1>2, <1>3
  <2>2. PICK s \in Settings : requests = <<s>> \o a \o b
    BY <1>6 DEF Going
  <2> HIDE DEF a, b
  <2>3. <<s>> \in Seq(Requests)
    BY <1>1, <1>2
  <2> QED  BY <1>4, <2>1, <2>2, <2>3
<1>7. CASE val # online /\ ~val
  BY <1>1, <1>2, <1>7 DEF Going
<1> QED  BY <1>5, <1>6, <1>7

\* A step of a user, who has the Fl lock and a main thread that runs.
LEMMA UserSettles ==
    ASSUME FInv, User, Settled(fl'), fl'.extrmgr = fl.extrmgr,
           online' \in BOOLEAN, uploader' \in Uploader, uploader'.at = uploader.at
    PROVE  FInv'
<1>1. main = "run" /\ main' = "run" /\ uploader'.at # "replacing" /\ fl.extrmgr
  BY DEF User, FlLockFree, FInv, Extracting
<1>2. moves' \in 0 .. MaxMoves
  BY FlightsAssumption DEF User, FInv, TypeOK
<1>3. TypeOK'
  BY <1>1, <1>2 DEF TypeOK, Settled, Uploader
<1>4. Extracting'
  BY <1>1 DEF Extracting
<1> QED  BY <1>1, <1>3, <1>4 DEF FInv, Settled

LEMMA SettledNow ==
    ASSUME FInv, FlLockFree
    PROVE  Settled(fl) /\ Fresh(fl) /\ ~fl.crashed /\ uploader.at # "replacing"
BY DEF FInv, FlLockFree, Settled, TypeOK

LEMMA UserSelectsSettles ==
    ASSUME FInv, User,
           \/ Selected(fl, fl')
           \/ /\ fl' \in Globals /\ Same(fl, fl') /\ fl'.crashed = fl.crashed
              /\ Shaped(fl') /\ Fresh(fl'),
           UNCHANGED <<online, uploader>>
    PROVE  FInv' /\ ~fl'.crashed
<1>1. Settled(fl)
  BY SettledNow DEF User
<1>2. Settled(fl') /\ Same(fl, fl')
  BY <1>1, SelectedSettles DEF Settled
<1>3. online' \in BOOLEAN /\ uploader' \in Uploader /\ uploader'.at = uploader.at
  BY DEF FInv, TypeOK, Uploader
<1>4. ~fl'.crashed
  BY DEF User, FlLockFree, FInv, Extracting, Selected
<1> QED  BY <1>2, <1>3, <1>4, UserSettles DEF Same

LEMMA UserSelectsFlightSettles ==
    ASSUME FInv, UserSelectsFlight
    PROVE  FInv' /\ ~fl'.crashed
<1>1. fl \in Globals
  BY DEF FInv, TypeOK
<1>2. PICK i \in 0 .. Len(fl.flight_docs) : fl' = SelectFlight(fl, i)
  BY DEF UserSelectsFlight
<1>3. i \in Nat
  BY <1>1, FlightDocs
<1>4. Selected(fl, fl')
  BY <1>1, <1>2, <1>3, SelectsFlight
<1> QED  BY <1>4, UserSelectsSettles DEF UserSelectsFlight

LEMMA UserSelectsPayloadSettles ==
    ASSUME FInv, UserSelectsPayload
    PROVE  FInv' /\ ~fl'.crashed
<1>1. fl \in Globals
  BY DEF FInv, TypeOK
<1>2. PICK i \in 0 .. Len(fl.payload_docs) : fl' = SelectPayload(fl, i)
  BY DEF UserSelectsPayload
<1>3. i \in Nat
  BY <1>1, FlightDocs
<1>4. Selected(fl, fl')
  BY <1>1, <1>2, <1>3, SelectsPayload
<1> QED  BY <1>4, UserSelectsSettles DEF UserSelectsPayload

LEMMA UserChoosesPayloadSettles ==
    ASSUME FInv, UserChoosesPayload
    PROVE  FInv' /\ ~fl'.crashed
<1>1. fl \in Globals /\ Settled(fl) /\ Fresh(fl) /\ Shaped(fl) /\ fl.cur_heap = "flight"
  BY SettledNow DEF FInv, TypeOK, UserChoosesPayload, User
<1> DEFINE i == fl.cur_flight.doc
<1>2. i \in 1 .. Len(fl.flight_docs) /\ fl.flight_docs[i].id # NoId
  BY <1>1 DEF Fresh, Shaped
<1>3. PICK j \in DOMAIN fl.flight_docs[i].payloads : fl' = SelectFlightPayload(fl, i, j)
  BY DEF UserChoosesPayload
<1>4. j \in 1 .. Len(fl.flight_docs[i].payloads)
  BY <1>1, <1>2, FlightDocs, SMTT(30)
<1> HIDE DEF i
<1>5. Selected(fl, fl')
  BY <1>1, <1>2, <1>3, <1>4, SelectsFlightPayload DEF Takes
<1> QED  BY <1>5, UserSelectsSettles DEF UserChoosesPayload

LEMMA UserChoosesTransmissionSettles ==
    ASSUME FInv, UserChoosesTransmission \/ UserSwitchesMode
    PROVE  FInv' /\ ~fl'.crashed
<1>1. User /\ UNCHANGED <<online, uploader>>
  BY DEF UserChoosesTransmission, UserSwitchesMode
<1>2. fl \in Globals /\ Fresh(fl) /\ Shaped(fl)
  BY <1>1, SettledNow DEF FInv, TypeOK, User
<1>3. \E k \in Nat : fl' = SelectTransmission(fl, k)
  <2>1. CASE UserChoosesTransmission
    <3>1. PICK k \in 1 .. Transmissions(fl, fl.cur_payload) : fl' = SelectTransmission(fl, k)
      BY <2>1 DEF UserChoosesTransmission
    <3>2. k \in Nat
      OBVIOUS
    <3> QED  BY <3>1, <3>2
  <2>2. CASE UserSwitchesMode
    <3> DEFINE k == IF fl.cur_transmission_index < fl.cur_transmission_count
                    THEN fl.cur_transmission_index + 1 ELSE 1
    <3>1. fl' = SelectTransmission(fl, k)
      BY <2>2 DEF UserSwitchesMode, AutoSwitchMode
    <3>2. k \in Nat
      BY <1>2 DEF Globals
    <3> QED  BY <3>1, <3>2
  <2> QED  BY <2>1, <2>2
<1>4. PICK k \in Nat : fl' = SelectTransmission(fl, k)
  BY <1>3
<1>5. /\ fl' \in Globals /\ Same(fl, fl') /\ fl'.crashed = fl.crashed
      /\ Shaped(fl') /\ Fresh(fl')
  BY <1>2, <1>4, SelectsTransmission
<1> QED  BY <1>1, <1>5, UserSelectsSettles

LEMMA UserAsksSettles ==
    ASSUME FInv, UserRefreshes \/ UserGoes \/ UserCommits
    PROVE  FInv'
<1>1. User /\ uploader \in Uploader /\ online \in BOOLEAN /\ fl \in Globals
  BY DEF UserRefreshes, UserGoes, UserCommits, FInv, TypeOK, Uploader
<1>2. Settled(fl)
  BY <1>1, SettledNow DEF User
<1>3. \E requests \in Seq(Requests) : Asked(requests)
  <2>1. CASE UserRefreshes
    <3>1. <<"flights", "payloads">> \in Seq(Requests)
      BY DEF Requests, Lists
    <3> QED  BY <2>1, <3>1 DEF UserRefreshes
  <2>2. CASE UserGoes
    <3>1. PICK requests \in Going(fl, ~online) : Asked(requests)
      BY <2>2 DEF UserGoes
    <3> QED  BY <1>1, <3>1, GoingType
  <2>3. CASE UserCommits
    <3>1. PICK s \in (IF online THEN Settings ELSE {"reset"}) : Asked(<<s, "flights", "payloads">>)
      BY <2>3 DEF UserCommits
    <3>2. s \in Requests /\ "flights" \in Requests /\ "payloads" \in Requests
      BY <3>1 DEF Settings, Requests, Lists
    <3>3. <<s, "flights", "payloads">> \in Seq(Requests)
      BY <3>2
    <3> QED  BY <3>1, <3>3
  <2> QED  BY <2>1, <2>2, <2>3
<1>4. uploader' \in Uploader /\ uploader'.at = uploader.at
  BY <1>1, <1>3, AskedType
<1>5. online' \in BOOLEAN
  BY <1>1 DEF UserRefreshes, UserGoes, UserCommits
<1>6. Settled(fl') /\ fl'.extrmgr = fl.extrmgr
  <2>1. CASE fl' = fl
    BY <1>2, <2>1
  <2>2. CASE fl' = [fl EXCEPT !.downloaded = {}]
    <3> DEFINE none == {}
    <3>1. fl' = [fl EXCEPT !.downloaded = none] /\ none \in SUBSET Lists
      BY <2>2
    <3> HIDE DEF none
    <3>2. fl' \in Globals
      BY <1>1, <3>1 DEF Globals
    <3>3. /\ fl'.cur_heap = fl.cur_heap /\ fl'.cur_flight = fl.cur_flight
          /\ fl'.cur_payload = fl.cur_payload /\ fl'.extracted = fl.extracted
          /\ fl'.tracking = fl.tracking /\ fl'.cur_transmission = fl.cur_transmission
          /\ fl'.cur_transmission_index = fl.cur_transmission_index
          /\ fl'.extrmgr = fl.extrmgr /\ fl'.crashed = fl.crashed
          /\ fl'.version = fl.version
          /\ fl'.flight_docs = fl.flight_docs /\ fl'.payload_docs = fl.payload_docs
      BY <1>1, <3>1 DEF Globals
    <3> QED  BY <1>2, <3>2, <3>3 DEF Settled, Shaped, Fresh, Transmissions, Alive
  <2> QED  BY <2>1, <2>2 DEF UserRefreshes, UserGoes, UserCommits
<1> QED  BY <1>1, <1>4, <1>5, <1>6, UserSettles

\* cleanup
LEMMA CleanupSettles ==
    ASSUME FInv, Cleanup
    PROVE  FInv'
<1>1. /\ Settled(fl) /\ uploader.at # "replacing" /\ fl \in Globals
      /\ uploader \in Uploader /\ online \in BOOLEAN /\ moves \in 0 .. MaxMoves
  BY SettledNow DEF Cleanup, FInv, TypeOK, Uploader
<1>2. <<"stop">> \in Seq(Requests) /\ Null \in Pointer
  BY DEF Requests, Null, Pointer
<1>3. uploader' \in Uploader /\ uploader'.at = uploader.at
  BY <1>1, <1>2, AskedType DEF Cleanup
<1>4. fl' = [fl EXCEPT !.extrmgr = FALSE, !.extracted = Null]
  BY DEF Cleanup
<1>5. /\ fl' \in Globals
      /\ fl'.cur_heap = fl.cur_heap /\ fl'.cur_flight = fl.cur_flight
      /\ fl'.cur_payload = fl.cur_payload
      /\ fl'.tracking = fl.tracking /\ fl'.cur_transmission = fl.cur_transmission
      /\ fl'.cur_transmission_index = fl.cur_transmission_index
      /\ ~fl'.extrmgr /\ fl'.crashed = fl.crashed
      /\ fl'.version = fl.version
      /\ fl'.flight_docs = fl.flight_docs /\ fl'.payload_docs = fl.payload_docs
  BY <1>1, <1>2, <1>4 DEF Globals
<1>6. Shaped(fl') /\ (~fl'.crashed => Fresh(fl'))
  BY <1>1, <1>5 DEF Settled, Shaped, Fresh, Transmissions, Alive
<1>7. main' = "cleanup" /\ online' = online /\ moves' = moves
  BY DEF Cleanup
<1>8. TypeOK'
  BY <1>1, <1>3, <1>5, <1>7 DEF TypeOK, Uploader
<1> QED  BY <1>1, <1>3, <1>6, <1>7, <1>8 DEF FInv, Extracting

LEMMA TakesUp ==
    ASSUME uploader \in Uploader, Take \/ DownloadFails
    PROVE  uploader' \in Uploader /\ uploader'.at # "replacing"
<1>1. CASE DownloadFails
  BY <1>1 DEF DownloadFails, Uploader
<1>2. CASE Take
  <2> DEFINE what == Head(uploader.queue)
             next == [uploader EXCEPT !.queue = Tail(@)]
  <2>1. what \in Requests /\ Tail(uploader.queue) \in Seq(Requests)
    BY <1>2 DEF Uploader, Take
  <2>2. next \in Uploader /\ next.at = "rest"
    BY <1>2, <2>1 DEF Uploader, Take
  <2>3. uploader' = CASE what \in Settings -> [next EXCEPT !.ready = (what = "settings")]
                      [] what = "stop"     -> [next EXCEPT !.at = "over"]
                      [] what \in Lists /\ uploader.ready -> [next EXCEPT !.at = "asking", !.list = what]
                      [] OTHER -> next
    BY <1>2 DEF Take
  <2> HIDE DEF what, next
  <2>4. CASE what \in Settings
    <3>1. uploader' = [next EXCEPT !.ready = (what = "settings")]
      BY <2>3, <2>4 DEF Settings, Lists
    <3> QED  BY <2>2, <3>1 DEF Uploader
  <2>5. CASE what = "stop"
    <3>1. uploader' = [next EXCEPT !.at = "over"]
      BY <2>3, <2>5 DEF Settings, Lists
    <3> QED  BY <2>2, <3>1 DEF Uploader
  <2>6. CASE what \in Lists
    <3>1. uploader' = [next EXCEPT !.at = "asking", !.list = what] \/ uploader' = next
      BY <2>3, <2>6 DEF Settings, Lists
    <3> QED  BY <2>2, <2>6, <3>1 DEF Uploader
  <2>7. CASE what \notin Settings \cup {"stop"} \cup Lists
    BY <2>1, <2>7 DEF Requests, Settings
  <2> QED  BY <2>4, <2>5, <2>6, <2>7
<1> QED  BY <1>1, <1>2

\* What changes neither the globals nor the uploader's work on a list.
LEMMA OthersSettle ==
    ASSUME FInv, Wait \/ Take \/ DownloadFails
    PROVE  FInv'
<1>1. /\ uploader \in Uploader /\ online \in BOOLEAN /\ moves \in 0 .. MaxMoves /\ fl \in Globals
      /\ fl' = fl /\ online' = online /\ moves' = moves
  BY DEF FInv, TypeOK, Uploader, Wait, Take, DownloadFails
<1>2. CASE Wait
  <2>1. main' = "leaving" /\ uploader' = uploader
    BY <1>2 DEF Wait
  <2>2. TypeOK' /\ Extracting'
    BY <1>1, <2>1 DEF TypeOK, Uploader, Extracting
  <2> QED  BY <1>1, <2>1, <2>2 DEF FInv
<1>3. CASE Take \/ DownloadFails
  <2>1. uploader.at # "replacing" /\ main' = main
    BY <1>3 DEF Take, DownloadFails
  <2>2. uploader' \in Uploader /\ uploader'.at # "replacing"
    BY <1>1, <1>3, TakesUp
  <2>3. TypeOK' /\ Extracting'
    BY <1>1, <2>1, <2>2 DEF FInv, TypeOK, Uploader, Extracting
  <2> QED  BY <1>1, <2>1, <2>2, <2>3 DEF FInv
<1> QED  BY <1>2, <1>3

\* uthr_thread_death
LEMMA ThreadDeathSettles ==
    ASSUME FInv, ThreadDeath
    PROVE  FInv'
<1>1. /\ fl \in Globals /\ main' = "over" /\ uploader.at = "over"
      /\ UNCHANGED <<online, uploader, moves>>
  BY DEF FInv, TypeOK, ThreadDeath
<1> DEFINE none == Nothing(fl.tracking)
<1>2. none \in Globals
  <2>1. fl.tracking \in Saved /\ Null \in Pointer /\ "nothing" \in Heaps
        /\ <<>> \in FlightLists /\ <<>> \in PayloadLists
        /\ [list \in Lists |-> 0] \in [Lists -> 0 .. 1]
    BY <1>1, FlightsAssumption DEF Globals, Null, Pointer, Heaps
  <2> QED  BY <2>1 DEF Nothing, Globals
<1>3. /\ none.cur_heap = "nothing" /\ none.cur_flight = Null /\ none.cur_payload = Null
      /\ none.cur_transmission = Null
  BY DEF Nothing
<1>4. fl' = [none EXCEPT !.extrmgr = FALSE, !.version = fl.version, !.downloaded = fl.downloaded]
  BY DEF ThreadDeath
<1> HIDE DEF none
<1>5. /\ fl' \in Globals
      /\ fl'.cur_heap = "nothing" /\ fl'.cur_flight = Null /\ fl'.cur_payload = Null
      /\ fl'.cur_transmission = Null /\ ~fl'.extrmgr
  <2>1. fl.version \in [Lists -> 0 .. 1] /\ fl.downloaded \in SUBSET Lists
    BY <1>1 DEF Globals
  <2> QED  BY <1>2, <1>3, <1>4, <2>1 DEF Globals
<1>6. Shaped(fl') /\ Fresh(fl')
  BY <1>5 DEF Shaped, Fresh
<1>7. TypeOK'
  BY <1>1, <1>5 DEF FInv, TypeOK
<1> QED  BY <1>1, <1>6, <1>7 DEF FInv, Extracting

\* new_flight_docs and new_payload_docs: what was selected from the list points
\* nowhere, and what was selected from the other one is not touched.
Received(f, list, docs) == [Replaced(f, list, docs) EXCEPT !.downloaded = @ \cup {list}]

Astray(f, g, list) ==
    /\ g \in Globals /\ Shaped(g) /\ Behind(g, list)
    /\ g.extrmgr = f.extrmgr /\ g.crashed = f.crashed

LEMMA ReceivedAstray ==
    ASSUME NEW f \in Globals, Shaped(f), Fresh(f), NEW list \in Lists, NEW docs \in ListsOf(list)
    PROVE  Astray(f, Received(f, list, docs), list)
<1> DEFINE g == Received(f, list, docs)
           version == [f.version EXCEPT ![list] = 1 - @]
           downloaded == f.downloaded \cup {list}
<1>1. f.version \in [Lists -> 0 .. 1] /\ f.downloaded \in SUBSET Lists
  BY DEF Globals
<1>2. /\ version \in [Lists -> 0 .. 1] /\ downloaded \in SUBSET Lists
      /\ version[list] # f.version[list]
      /\ \A l \in Lists \ {list} : version[l] = f.version[l]
  BY <1>1
<1>3. list = "flights" =>
        g = [f EXCEPT !.version = version, !.flight_docs = docs, !.downloaded = downloaded]
  BY DEF Received, Replaced, Globals
<1>4. list # "flights" =>
        g = [f EXCEPT !.version = version, !.payload_docs = docs, !.downloaded = downloaded]
  BY DEF Received, Replaced, Globals
<1> HIDE DEF g, version, downloaded
<1>5. /\ g \in Globals /\ g.version = version
      /\ g.cur_heap = f.cur_heap /\ g.cur_flight = f.cur_flight
      /\ g.cur_payload = f.cur_payload /\ g.extracted = f.extracted
      /\ g.tracking = f.tracking /\ g.cur_transmission = f.cur_transmission
      /\ g.cur_transmission_index = f.cur_transmission_index
      /\ g.extrmgr = f.extrmgr /\ g.crashed = f.crashed
      /\ list = "flights" => g.payload_docs = f.payload_docs
      /\ list # "flights" => g.flight_docs = f.flight_docs
  <2>1. CASE list = "flights"
    <3>1. docs \in FlightLists
      BY <2>1 DEF ListsOf
    <3>2. g = [f EXCEPT !.version = version, !.flight_docs = docs, !.downloaded = downloaded]
      BY <1>3, <2>1
    <3>3. g \in Globals
      BY <1>2, <3>1, <3>2 DEF Globals
    <3> QED  BY <2>1, <3>2, <3>3 DEF Globals
  <2>2. CASE list # "flights"
    <3>1. docs \in PayloadLists
      BY <2>2 DEF ListsOf
    <3>2. g = [f EXCEPT !.version = version, !.payload_docs = docs, !.downloaded = downloaded]
      BY <1>4, <2>2
    <3>3. g \in Globals
      BY <1>2, <3>1, <3>2 DEF Globals
    <3> QED  BY <2>2, <3>2, <3>3 DEF Globals
  <2> QED  BY <2>1, <2>2
<1>6. Shaped(g)
  BY <1>5 DEF Shaped
<1> SUFFICES Behind(g, list)
  BY <1>5, <1>6 DEF g, Astray
<1>7. f.cur_heap \in Heaps /\ f.cur_payload \in Pointer /\ f.cur_flight \in Pointer
  BY DEF Globals
<1>8. f.cur_heap = "flight" => f.cur_payload = Null \/ f.cur_payload.list = "flights"
  BY <1>7 DEF Shaped, Pointer
<1>9. f.cur_heap = "payload" => f.cur_payload.list = "payloads"
  BY DEF Shaped
<1>10. CASE f.cur_heap = Heap(list)
  <2>1. Chosen(g).version = f.version[list]
    <3>1. CASE list = "flights"
      BY <1>5, <1>10, <3>1 DEF Fresh, Chosen, Heap
    <3>2. CASE list = "payloads"
      BY <1>5, <1>10, <3>2 DEF Fresh, Chosen, Heap
    <3> QED  BY <3>1, <3>2 DEF Lists
  <2> QED  BY <1>2, <1>5, <1>10, <2>1 DEF Behind
<1>11. CASE f.cur_heap # Heap(list)
  <2>1. CASE f.cur_heap = "nothing"
    <3>1. f.cur_transmission = Null
      BY <2>1 DEF Shaped
    <3> QED  BY <1>5, <1>11, <2>1, <3>1 DEF Behind, Fresh
  <2>2. CASE f.cur_heap = "flight"
    <3>1. list = "payloads" /\ g.flight_docs = f.flight_docs
          /\ g.version["flights"] = f.version["flights"]
      BY <1>2, <1>5, <1>11, <2>2 DEF Heap, Lists
    <3>2. Transmissions(g, g.cur_payload) = Transmissions(f, f.cur_payload)
      BY <1>5, <1>8, <2>2, <3>1 DEF Transmissions, Alive
    <3>3. Fresh(g)
      BY <1>5, <2>2, <3>1, <3>2 DEF Fresh
    <3> QED  BY <1>5, <1>11, <3>3 DEF Behind
  <2>3. CASE f.cur_heap = "payload"
    <3>1. list = "flights" /\ g.payload_docs = f.payload_docs
          /\ g.version["payloads"] = f.version["payloads"]
      BY <1>2, <1>5, <1>11, <2>3 DEF Heap, Lists
    <3>2. Transmissions(g, g.cur_payload) = Transmissions(f, f.cur_payload)
      BY <1>5, <1>9, <2>3, <3>1 DEF Transmissions, Alive
    <3>3. Fresh(g)
      BY <1>5, <1>9, <2>3, <3>1, <3>2 DEF Fresh
    <3> QED  BY <1>5, <1>11, <3>3 DEF Behind
  <2> QED  BY <1>7, <2>1, <2>2, <2>3 DEF Heaps
<1> QED  BY <1>10, <1>11

LEMMA DownloadedSettles ==
    ASSUME FInv, Downloaded
    PROVE  FInv'
<1>1. /\ fl \in Globals /\ Shaped(fl) /\ Fresh(fl) /\ ~fl.crashed
      /\ uploader \in Uploader /\ uploader.list \in Lists
      /\ UNCHANGED <<online, main, moves>>
  BY SettledNow DEF Downloaded, FInv, TypeOK, Uploader
<1>2. PICK docs \in ListsOf(uploader.list) :
        fl' = [Replaced(fl, uploader.list, docs) EXCEPT !.downloaded = @ \cup {uploader.list}]
  BY DEF Downloaded
<1>3. uploader' \in Uploader /\ uploader'.at = "replacing" /\ uploader'.list = uploader.list
  BY <1>1 DEF Downloaded, Uploader
<1>4. /\ fl' \in Globals /\ Shaped(fl') /\ Behind(fl', uploader.list)
      /\ fl'.extrmgr = fl.extrmgr /\ fl'.crashed = fl.crashed
  <2> DEFINE list == uploader.list
  <2>1. /\ list \in Lists /\ docs \in ListsOf(list)
        /\ fl' = Received(fl, list, docs)
    BY <1>1, <1>2 DEF Received
  <2> HIDE DEF list
  <2>2. Astray(fl, fl', list)
    BY <1>1, <2>1, ReceivedAstray
  <2> QED  BY <2>2 DEF Astray, list
<1>5. main # "start"
  BY DEF Downloaded, FlLockFree
<1>6. TypeOK' /\ Extracting'
  BY <1>1, <1>3, <1>4, <1>5 DEF FInv, TypeOK, Uploader, Extracting
<1> QED  BY <1>3, <1>4, <1>6 DEF FInv

LEMMA PopulateStepSettles ==
    ASSUME FInv, Populate
    PROVE  FInv'
<1>1. /\ fl \in Globals /\ Shaped(fl) /\ (~fl.crashed => Behind(fl, uploader.list))
      /\ uploader \in Uploader /\ uploader.list \in Lists
      /\ UNCHANGED <<online, main, moves>>
  BY DEF Populate, FInv, TypeOK, Uploader
<1>2. Settled(fl') /\ Same(fl, fl')
  BY <1>1, PopulateSettles DEF Populate, Behind
<1>3. uploader' \in Uploader /\ uploader'.at = "rest"
  BY <1>1 DEF Populate, Uploader
<1>4. TypeOK' /\ Extracting'
  BY <1>1, <1>2, <1>3 DEF FInv, TypeOK, Uploader, Extracting, Settled, Same
<1> QED  BY <1>2, <1>3, <1>4 DEF FInv, Settled

\* ready: both lists are read from the cache, and the saved selection is found.
LEMMA ReadySettles ==
    ASSUME FInv, Ready
    PROVE  FInv'
<1>1. /\ fl \in Globals /\ fl.extrmgr /\ uploader.at # "replacing"
      /\ uploader \in Uploader /\ moves \in 0 .. MaxMoves
      /\ main' = "run" /\ moves' = moves
  BY DEF Ready, FInv, TypeOK, Uploader, Extracting
<1>2. PICK flights \in FlightLists, payloads \in PayloadLists :
        LET read == [Unselect(fl) EXCEPT !.flight_docs = flights, !.payload_docs = payloads]
        IN  fl' = Populated(Populated(read, "flights"), "payloads")
  BY DEF Ready
<1> DEFINE blank == Unselect(fl)
           read  == [blank EXCEPT !.flight_docs = flights, !.payload_docs = payloads]
           found == Populated(read, "flights")
<1>3. blank \in Globals /\ Shaped(blank) /\ blank.extrmgr /\ blank.cur_heap = "nothing"
  BY <1>1, Unselects DEF Selected, Same
<1> HIDE DEF blank
<1>4. /\ read \in Globals
      /\ read.cur_heap = "nothing" /\ read.cur_flight = blank.cur_flight
      /\ read.cur_payload = blank.cur_payload /\ read.extracted = blank.extracted
      /\ read.tracking = blank.tracking /\ read.cur_transmission = blank.cur_transmission
      /\ read.cur_transmission_index = blank.cur_transmission_index
      /\ read.extrmgr
  BY <1>3 DEF Globals
<1> HIDE DEF read
<1>5. Shaped(read)
  BY <1>3, <1>4 DEF Shaped
<1>6. Fresh(read)
  BY <1>4, <1>5 DEF Shaped, Fresh
<1>7. "flights" \in Lists /\ "payloads" \in Lists
  BY DEF Lists
<1>8. Settled(found) /\ Same(read, found)
  BY <1>4, <1>5, <1>6, <1>7, PopulateSettles
<1> HIDE DEF found
<1>9. found \in Globals /\ Shaped(found) /\ found.extrmgr
  BY <1>4, <1>8 DEF Settled, Same
<1>10. ~found.crashed => Fresh(found)
  BY <1>8 DEF Settled
<1>11. Settled(fl') /\ Same(found, fl')
  BY <1>2, <1>7, <1>9, <1>10, PopulateSettles DEF found, read, blank
<1>12. PICK hab_mode \in BOOLEAN : online' = hab_mode /\ \E requests \in Going(fl, hab_mode) : Asked(requests)
  BY DEF Ready
<1>13. uploader' \in Uploader /\ uploader'.at = uploader.at
  BY <1>1, <1>12, GoingType, AskedType
<1>14. TypeOK' /\ Extracting'
  BY <1>1, <1>9, <1>11, <1>12, <1>13 DEF TypeOK, Uploader, Extracting, Settled, Same
<1> QED  BY <1>1, <1>11, <1>13, <1>14 DEF FInv, Settled

---------------------------------------------------------------------------
(* What a new list does to the selection                                   *)

\* A pass in which the globals are c up to document a, and h from there on.
Turns(list, n, r, c, h, a) ==
    /\ r[0] = c /\ \A i \in 1 .. n : r[i] = Found(r[i - 1], list, i)
    /\ \A i \in 1 .. n : i < a => Found(c, list, i) = c
    /\ a \in 1 .. n => Found(c, list, a) = h
    /\ \A i \in 1 .. n : i > a => Found(h, list, i) = h

LEMMA PassTurns ==
    ASSUME NEW list, NEW n \in Nat, NEW r, NEW c, NEW h, NEW a \in 1 .. n + 1,
           Turns(list, n, r, c, h, a)
    PROVE  r[n] = IF n < a THEN c ELSE h
<1> USE DEF Turns
<1> DEFINE Wrong == {i \in 0 .. n : r[i] # IF i < a THEN c ELSE h}
<1> SUFFICES ASSUME Wrong # {} PROVE FALSE
  OBVIOUS
<1>1. PICK m \in Wrong : \A k \in Wrong : m <= k
  <2>1. Wrong \subseteq Nat
    OBVIOUS
  <2> HIDE DEF Wrong
  <2> QED  BY <2>1, FirstOf
<1>2. m # 0
  BY <1>1
<1>3. m \in 1 .. n /\ m - 1 \in 0 .. n /\ m - 1 \notin Wrong
  BY <1>1, <1>2
<1>4. r[m - 1] = IF m - 1 < a THEN c ELSE h
  BY <1>3
<1>5. r[m] = Found(r[m - 1], list, m)
  BY <1>3
<1>6. CASE m < a
  BY <1>1, <1>3, <1>4, <1>5, <1>6
<1>7. CASE m = a
  BY <1>1, <1>3, <1>4, <1>5, <1>7
<1>8. CASE m > a
  <2>1. ~(m - 1 < a)
    BY <1>3, <1>8
  <2> QED  BY <1>1, <1>3, <1>4, <1>5, <1>8, <2>1
<1> QED  BY <1>3, <1>6, <1>7, <1>8

\* A pass that finds nothing.
Stays(list, n, r, c) ==
    /\ r[0] = c /\ \A i \in 1 .. n : r[i] = Found(r[i - 1], list, i)
    /\ \A i \in 1 .. n : Found(c, list, i) = c

LEMMA PassStays ==
    ASSUME NEW list, NEW n \in Nat, NEW r, NEW c, Stays(list, n, r, c)
    PROVE  r[n] = c
<1> DEFINE a == n + 1
<1>1. a \in 1 .. n + 1 /\ a \notin 1 .. n /\ n < a /\ \A i \in 1 .. n : ~(i > a)
  OBVIOUS
<1> HIDE DEF a
<1>2. Turns(list, n, r, c, c, a)
  BY <1>1 DEF Turns, Stays
<1> QED  BY <1>1, <1>2, PassTurns

LEMMA OtherListKept ==
    ASSUME NEW f \in Globals, Shaped(f), NEW list \in Lists,
           f.cur_heap # "nothing", f.cur_heap # Heap(list)
    PROVE  Populated(f, list) = f
<1> DEFINE n == Len(Docs(f, list))
<1>1. n \in Nat
  BY FlightDocs DEF Docs
<1>2. PICK r : /\ Populated(f, list) = r[n]
               /\ r[0] = Cleared(f, list)
               /\ \A i \in 1 .. n : r[i] = Found(r[i - 1], list, i)
  <2> HIDE DEF n
  <2>1. n = Len(Docs(f, list))
    BY DEF n
  <2> QED  BY <1>1, <2>1, PassOf
<1> HIDE DEF n
<1>3. Cleared(f, list) = f /\ \A i \in 1 .. n : Found(f, list, i) = f
  BY DEF Cleared, Found, Tracked, Shaped
<1>4. Stays(list, n, r, f)
  BY <1>2, <1>3 DEF Stays
<1> QED  BY <1>1, <1>2, <1>4, PassStays

\* Its extractor deleted, the selection stays, and the program has crashed.
LEMMA CrashKeeps ==
    ASSUME NEW f \in Globals, Shaped(f), NEW list \in Lists, ~f.extrmgr,
           f.cur_heap = Heap(list), Chosen(f).version # f.version[list]
    PROVE  SameSelection(f, Populated(f, list))
<1> DEFINE n == Len(Docs(f, list))
           c == [f EXCEPT !.crashed = TRUE]
<1>1. n \in Nat
  BY FlightDocs DEF Docs
<1>2. PICK r : /\ Populated(f, list) = r[n]
               /\ r[0] = Cleared(f, list)
               /\ \A i \in 1 .. n : r[i] = Found(r[i - 1], list, i)
  <2> HIDE DEF n
  <2>1. n = Len(Docs(f, list))
    BY DEF n
  <2> QED  BY <1>1, <2>1, PassOf
<1>3. /\ c \in Globals /\ ~c.extrmgr /\ [c EXCEPT !.crashed = TRUE] = c
      /\ c.cur_heap = f.cur_heap /\ c.cur_payload = f.cur_payload /\ c.tracking = f.tracking
      /\ c.version = f.version
  BY DEF Globals
<1>4. Cleared(f, list) = c
  BY DEF Cleared, Unselect, Select
<1> HIDE DEF n, c
<1>5. \A i \in 1 .. n : Found(c, list, i) = c
  <2> TAKE i \in 1 .. n
  <2>1. i \in Nat
    BY <1>1
  <2>2. Selected(c, SelectFlight(c, i)) /\ Selected(c, SelectPayload(c, i))
    BY <1>3, <2>1, SelectsFlight, SelectsPayload
  <2>3. SelectFlight(c, i) = c /\ SelectPayload(c, i) = c
    BY <1>3, <2>2 DEF Selected
  <2> QED  BY <2>3 DEF Found
<1>6. Stays(list, n, r, c)
  BY <1>2, <1>4, <1>5 DEF Stays
<1>7. Populated(f, list) = c
  BY <1>1, <1>2, <1>6, PassStays
<1>8. Transmissions(c, c.cur_payload) = 0
  <2>1. f.cur_flight \in Pointer /\ f.cur_payload \in Pointer
    BY DEF Globals
  <2>2. CASE list = "flights" /\ f.cur_payload # Null
    <3>1. f.cur_payload.list = list /\ f.cur_payload.version = f.cur_flight.version
      BY <2>1, <2>2 DEF Shaped, Heap, Pointer
    <3>2. f.cur_payload.version # f.version[list]
      BY <2>2, <3>1 DEF Chosen, Heap
    <3> QED  BY <1>3, <3>1, <3>2 DEF Transmissions, Alive
  <2>3. CASE list = "payloads"
    <3>1. f.cur_payload.list = list /\ f.cur_payload.version # f.version[list]
      BY <2>3 DEF Shaped, Chosen, Heap
    <3> QED  BY <1>3, <3>1 DEF Transmissions, Alive
  <2>4. CASE f.cur_payload = Null
    BY <1>3, <2>4 DEF Transmissions
  <2> QED  BY <2>2, <2>3, <2>4 DEF Lists
<1>9. ~(f.tracking.transmission \in 1 .. Transmissions(c, c.cur_payload))
  BY <1>8
<1> QED  BY <1>3, <1>7, <1>9 DEF SameSelection

\* What a selection that is found again has of the one before.
Again(c, h) ==
    /\ h \in Globals /\ Same(c, h)
    /\ h.cur_heap = c.tracking.type
    /\ h.tracking.doc = c.tracking.doc /\ h.tracking.payload = c.tracking.payload
    /\ c.tracking.transmission \in 1 .. Transmissions(h, h.cur_payload)
         => h.cur_transmission_index = c.tracking.transmission

LEMMA FlightFound ==
    ASSUME NEW c \in Globals, c.extrmgr, NEW a \in 1 .. Len(c.flight_docs),
           c.tracking.type = "flight", c.tracking.doc # NoId,
           c.flight_docs[a].id = c.tracking.doc,
           c.tracking.payload \in 1 .. Len(c.flight_docs[a].payloads)
    PROVE  Again(c, SelectFlight(c, a))
<1> DEFINE doc == c.flight_docs[a]
           j   == c.tracking.payload
           h   == SelectFlightPayload(c, a, j)
<1>1. /\ a \in DOMAIN c.flight_docs /\ c.flight_docs[a].id # NoId
      /\ c.flight_docs[a].payloads # <<>> /\ j \in 1 .. Len(c.flight_docs[a].payloads)
  BY FlightDocs
<1>2. SavedOr(j, Len(doc.payloads)) = j
  BY DEF SavedOr
<1>3. SelectFlight(c, a) = h
  BY <1>1, <1>2 DEF SelectFlight
<1>4. Tracking(c, "flight", doc.id, j) = c.tracking
  BY DEF Tracking
<1>5. Takes(c, h, "flight", c.flight_docs[a].id, j)
  <2>1. h = SelectFlightPayload(c, a, j)
    OBVIOUS
  <2> HIDE DEF j, h
  <2> QED  BY <1>1, <2>1, SelectsFlightPayload
<1> HIDE DEF h
<1> QED  BY <1>3, <1>4, <1>5 DEF Again, Selected, Takes

LEMMA PayloadFound ==
    ASSUME NEW c \in Globals, c.extrmgr, NEW a \in 1 .. Len(c.payload_docs),
           c.tracking.type = "payload", c.tracking.doc # NoId, c.tracking.payload = 0,
           c.payload_docs[a].id = c.tracking.doc
    PROVE  Again(c, SelectPayload(c, a))
<1> DEFINE h == SelectPayload(c, a)
<1>1. Tracking(c, "payload", c.payload_docs[a].id, 0) = c.tracking
  BY DEF Tracking
<1>2. Takes(c, h, "payload", c.payload_docs[a].id, 0)
  BY SelectsPayloadDoc
<1> HIDE DEF h
<1> QED  BY <1>1, <1>2 DEF Again, Selected, Takes, h

\* The one document with the saved id is found, and nothing else is.
LEMMA AloneKept ==
    ASSUME NEW f \in Globals, Shaped(f), NEW list \in Lists, f.extrmgr,
           f.cur_heap = Heap(list), Alone(f)
    PROVE  SameSelection(f, Populated(f, list))
<1> DEFINE docs == Docs(f, list)
           n == Len(docs)
           c == Unselect(f)
<1>1. n \in Nat /\ DOMAIN docs = 1 .. n
  BY FlightDocs DEF Docs
<1>2. PICK r : /\ Populated(f, list) = r[n]
               /\ r[0] = Cleared(f, list)
               /\ \A i \in 1 .. n : r[i] = Found(r[i - 1], list, i)
  <2> HIDE DEF n
  <2>1. n = Len(Docs(f, list))
    BY DEF n
  <2> QED  BY <1>1, <2>1, PassOf
<1>3. /\ f.tracking.type = Heap(list) /\ f.tracking.doc # NoId
      /\ list = "payloads" => f.tracking.payload = 0
  BY DEF Shaped, Heap, Lists
<1>4. PICK a \in 1 .. n :
        /\ \A i \in 1 .. n : docs[i].id = f.tracking.doc <=> i = a
        /\ docs[a].named
        /\ list = "flights" => f.tracking.payload \in DOMAIN docs[a].payloads
  <2>1. docs = IF f.cur_heap = "flight" THEN f.flight_docs ELSE f.payload_docs
    BY DEF Docs, Heap, Lists
  <2> HIDE DEF docs, n
  <2> DEFINE with == {i \in DOMAIN docs : docs[i].id = f.tracking.doc}
  <2>2. PICK a \in with : /\ with = {a} /\ docs[a].named
                          /\ f.cur_heap = "flight" => f.tracking.payload \in DOMAIN docs[a].payloads
    BY <2>1 DEF Alone
  <2>3. a \in 1 .. n /\ \A i \in 1 .. n : docs[i].id = f.tracking.doc <=> i = a
    BY <1>1, <2>2
  <2> QED  BY <2>2, <2>3 DEF Heap
<1>5. /\ c \in Globals /\ Same(f, c) /\ c.extrmgr /\ c.tracking = f.tracking
      /\ Cleared(f, list) = c
  BY Unselects DEF Cleared, Selected, Same
<1>6. Docs(c, list) = docs
  BY <1>5 DEF Docs, Same
<1> HIDE DEF c
<1> DEFINE h == Found(c, list, a)
<1>7. Again(c, h)
  <2>1. Tracked(c, list, a)
    BY <1>3, <1>4, <1>5, <1>6 DEF Tracked
  <2>2. CASE list = "flights"
    <3>1. docs = c.flight_docs
      BY <1>6, <2>2 DEF Docs
    <3>2. a \in 1 .. Len(c.flight_docs) /\ c.flight_docs[a].id = c.tracking.doc
      BY <1>4, <1>5, <3>1
    <3>3. c.tracking.payload \in 1 .. Len(c.flight_docs[a].payloads)
      BY <1>4, <1>5, <2>2, <3>1, <3>2, FlightDocs
    <3>4. c.tracking.type = "flight" /\ c.tracking.doc # NoId
      BY <1>3, <1>5, <2>2 DEF Heap
    <3> HIDE DEF docs, n
    <3>5. Again(c, SelectFlight(c, a))
      BY <1>5, <3>2, <3>3, <3>4, FlightFound
    <3> QED  BY <2>1, <2>2, <3>5 DEF Found
  <2>3. CASE list = "payloads"
    <3>1. docs = c.payload_docs
      BY <1>6, <2>3 DEF Docs
    <3>2. a \in 1 .. Len(c.payload_docs) /\ c.payload_docs[a].id = c.tracking.doc
      BY <1>4, <1>5, <3>1
    <3>3. c.tracking.payload = 0 /\ c.tracking.type = "payload" /\ c.tracking.doc # NoId
      BY <1>3, <1>5, <2>3 DEF Heap
    <3> HIDE DEF docs, n
    <3>4. Again(c, SelectPayload(c, a))
      BY <1>5, <3>2, <3>3, PayloadFound
    <3> QED  BY <2>1, <2>3, <3>4 DEF Found
  <2> QED  BY <2>2, <2>3 DEF Lists
<1> HIDE DEF h
<1>8. /\ Docs(h, list) = docs /\ h.tracking.doc = f.tracking.doc
  BY <1>5, <1>6, <1>7 DEF Again, Same, Docs
<1>9. ASSUME NEW i \in 1 .. n, i # a
      PROVE  Found(c, list, i) = c /\ Found(h, list, i) = h
  <2>1. docs[i].id # f.tracking.doc
    BY <1>4, <1>9
  <2> HIDE DEF docs
  <2> QED  BY <1>5, <1>6, <1>8, <2>1 DEF Found, Tracked
<1> HIDE DEF n, docs
<1>10. Turns(list, n, r, c, h, a)
  BY <1>1, <1>2, <1>4, <1>5, <1>9 DEF Turns, h
<1>11. Populated(f, list) = h
  <2>1. a \in 1 .. n + 1 /\ ~(n < a)
    BY <1>1, <1>4
  <2> QED  BY <1>1, <1>2, <1>10, <2>1, PassTurns
<1>12. f.tracking.transmission \in 1 .. Transmissions(h, h.cur_payload)
         => h.cur_transmission_index = f.tracking.transmission
  BY <1>5, <1>7 DEF Again
<1> QED  BY <1>3, <1>5, <1>7, <1>11, <1>12 DEF Again, SameSelection

---------------------------------------------------------------------------
(* The invariant, and what follows from it                                 *)

LEMMA FInvInit == Init => FInv
<1> SUFFICES ASSUME Init PROVE FInv
  OBVIOUS
<1>1. PICK t \in Trackings : fl = Nothing(t)
  BY DEF Init
<1>2. fl \in Globals
  <2>1. t \in Saved /\ Null \in Pointer /\ "nothing" \in Heaps
        /\ <<>> \in FlightLists /\ <<>> \in PayloadLists
        /\ [list \in Lists |-> 0] \in [Lists -> 0 .. 1]
    BY FlightsAssumption DEF Null, Pointer, Heaps
  <2> QED  BY <1>1, <2>1 DEF Nothing, Globals
<1>3. /\ fl.cur_heap = "nothing" /\ fl.cur_flight = Null /\ fl.cur_payload = Null
      /\ fl.cur_transmission = Null /\ fl.extracted = Null /\ fl.extrmgr
  BY <1>1 DEF Nothing
<1>4. Shaped(fl) /\ Fresh(fl)
  BY <1>3 DEF Shaped, Fresh
<1>5. TypeOK
  <2> DEFINE queue == <<>>
  <2>1. queue \in Seq(Requests)
    OBVIOUS
  <2>2. uploader = [queue |-> queue, ready |-> FALSE, at |-> "rest", list |-> "flights"]
    BY DEF Init
  <2> HIDE DEF queue
  <2>3. uploader \in Uploader
    BY <2>1, <2>2 DEF Uploader, Lists
  <2>4. main = "start" /\ moves \in 0 .. MaxMoves
    BY FlightsAssumption DEF Init
  <2>5. online = FALSE
    BY DEF Init
  <2> QED  BY <1>2, <2>3, <2>4, <2>5 DEF TypeOK, Uploader
<1>6. Extracting
  BY <1>3 DEF Extracting, Init
<1> QED  BY <1>4, <1>5, <1>6 DEF FInv, Init

LEMMA FInvStep == FInv /\ [Next]_vars => FInv'
<1> SUFFICES ASSUME FInv, [Next]_vars PROVE FInv'
  OBVIOUS
<1>1. CASE Wait \/ Take \/ DownloadFails
  BY <1>1, OthersSettle
<1>2. CASE ThreadDeath
  BY <1>2, ThreadDeathSettles
<1>3. CASE Downloaded
  BY <1>3, DownloadedSettles
<1>4. CASE Populate
  BY <1>4, PopulateStepSettles
<1>5. CASE Ready
  BY <1>5, ReadySettles
<1>6. CASE UserSelectsFlight
  BY <1>6, UserSelectsFlightSettles
<1>7. CASE UserSelectsPayload
  BY <1>7, UserSelectsPayloadSettles
<1>8. CASE UserChoosesPayload
  BY <1>8, UserChoosesPayloadSettles
<1>9. CASE UserChoosesTransmission \/ UserSwitchesMode
  BY <1>9, UserChoosesTransmissionSettles
<1>10. CASE UserRefreshes \/ UserGoes \/ UserCommits
  BY <1>10, UserAsksSettles
<1>11. CASE Cleanup
  BY <1>11, CleanupSettles
<1>12. CASE UNCHANGED vars
  BY <1>12 DEF vars, FInv, TypeOK, Extracting
<1> QED
  BY <1>1, <1>2, <1>3, <1>4, <1>5, <1>6, <1>7, <1>8, <1>9, <1>10, <1>11, <1>12
  DEF Next, UploaderStep, Waiting, UserStep

\* In every state the pointers and the saved selection agree, and while no list is
\* being replaced what they name is there: select_flight and the functions below it
\* set them together, and populate_* removes or finds again what a new list left
\* astray.
THEOREM FlightsInvariance == Spec => []FInv
BY FInvInit, FInvStep, PTL DEF Spec

\* The globals of flights.cxx, the uploader's queue and the program's phase keep
\* their types, for any lists and whatever progdefaults held.
THEOREM FlightsTypeCorrect == Spec => []TypeOK
<1>1. FInv => TypeOK
  BY DEF FInv
<1> QED  BY <1>1, FlightsInvariance, PTL

\* What the three pointers point to, whenever FlLockFree.
LEMMA FreshAlive ==
    ASSUME NEW f \in Globals, Shaped(f), Fresh(f)
    PROVE  \A p \in {f.cur_flight, f.cur_payload, f.cur_transmission} : Alive(f, p)
<1>1. f.cur_flight \in Pointer /\ f.cur_payload \in Pointer /\ f.cur_heap \in Heaps
  BY DEF Globals
<1>2. Alive(f, f.cur_flight)
  BY DEF Alive, Shaped, Fresh
<1>3. Alive(f, f.cur_payload)
  <2>1. CASE f.cur_heap = "flight" /\ f.cur_payload # Null
    <3>1. /\ f.cur_payload.list = f.cur_flight.list
          /\ f.cur_payload.version = f.cur_flight.version
      BY <1>1, <2>1 DEF Shaped, Pointer
    <3> QED  BY <2>1, <3>1 DEF Alive, Fresh, Shaped
  <2>2. CASE f.cur_heap = "payload"
    BY <2>2 DEF Alive, Shaped, Fresh
  <2>3. CASE f.cur_heap = "nothing" \/ f.cur_payload = Null
    BY <2>3 DEF Alive, Shaped
  <2> QED  BY <1>1, <2>1, <2>2, <2>3 DEF Heaps
<1>4. Alive(f, f.cur_transmission)
  <2>1. CASE f.cur_transmission # Null
    <3>1. /\ f.cur_transmission.list = f.cur_payload.list
          /\ f.cur_transmission.version = f.cur_payload.version
          /\ f.cur_payload # Null
      BY <1>1, <2>1 DEF Shaped, Pointer
    <3> QED  BY <1>3, <3>1 DEF Alive
  <2>2. CASE f.cur_transmission = Null
    BY <2>2 DEF Alive
  <2> QED  BY <2>1, <2>2
<1> QED  BY <1>2, <1>3, <1>4

\* Whoever takes the Fl lock finds cur_flight, cur_payload and cur_transmission
\* pointing into the lists there are, whatever was downloaded in between.
THEOREM PointersStayAlive == Spec => []PointersAlive
<1>1. FInv => PointersAlive
  BY SettledNow, FreshAlive DEF PointersAlive, Settled
<1> QED  BY <1>1, FlightsInvariance, PTL

\* Flight, payload and transmission are one selection of one list, also while that
\* list is being replaced, and the extractor has the same payload; a flight is without
\* one only where do_select_payload refused an empty payload of it.
THEOREM SelectionIsOne == Spec => []OneSelection
<1>1. FInv => OneSelection
  <2> SUFFICES ASSUME FInv PROVE OneSelection
    OBVIOUS
  <2>1. fl \in Globals /\ Shaped(fl) /\ (FlLockFree => Fresh(fl))
    BY SettledNow DEF FInv, TypeOK
  <2>2. fl.cur_flight \in Pointer /\ fl.cur_payload \in Pointer /\ fl.tracking \in Saved
    BY <2>1 DEF Globals
  <2>3. ASSUME fl.cur_heap = "flight", fl.cur_payload # Null
        PROVE  /\ fl.cur_payload = [fl.cur_flight EXCEPT !.payload = fl.cur_payload.payload]
               /\ fl.cur_payload # fl.cur_flight
    <3>1. fl.cur_payload = [fl.cur_flight EXCEPT !.payload = fl.tracking.payload]
      BY <2>1, <2>3 DEF Shaped
    <3>2. fl.cur_payload.payload = fl.tracking.payload
      BY <2>2, <3>1 DEF Pointer
    <3>3. fl.cur_flight.payload = 0 /\ fl.tracking.payload # 0
      BY <2>1, <2>3 DEF Shaped
    <3> QED  BY <3>1, <3>2, <3>3
  <2>4. ASSUME FlLockFree, fl.cur_heap = "flight", fl.cur_payload = Null
        PROVE  \E j \in DOMAIN fl.flight_docs[fl.cur_flight.doc].payloads :
                 fl.flight_docs[fl.cur_flight.doc].payloads[j] = Empty
    <3> DEFINE i == fl.cur_flight.doc
               j == fl.tracking.payload
    <3>1. /\ i \in 1 .. Len(fl.flight_docs)
          /\ j \in 1 .. Len(fl.flight_docs[i].payloads)
          /\ fl.flight_docs[i].payloads[j] = Empty
      BY <2>1, <2>4 DEF Fresh
    <3>2. fl.flight_docs[i].payloads \in Seq(Nat \cup {Empty})
      BY <2>1, <3>1, FlightDocs
    <3>3. j \in DOMAIN fl.flight_docs[i].payloads
      BY <3>1, <3>2
    <3> QED  BY <3>1, <3>3
  <2> QED  BY <2>1, <2>3, <2>4 DEF OneSelection, Shaped, Fresh
<1> QED  BY <1>1, FlightsInvariance, PTL

\* Under the Fl lock, progdefaults.tracking_* names exactly what is selected.
THEOREM SavedStaysSelected == Spec => []SavedIsSelected
<1>1. FInv => SavedIsSelected
  <2> SUFFICES ASSUME FInv, FlLockFree, fl.cur_heap # "nothing"
               PROVE  SavedIsSelected
    BY DEF SavedIsSelected
  <2>1. fl \in Globals /\ Shaped(fl) /\ Fresh(fl)
    BY SettledNow DEF FInv, TypeOK
  <2>2. fl.cur_flight \in Pointer
    BY <2>1 DEF Globals
  <2>3. ASSUME fl.cur_heap = "flight"
        PROVE  LET doc == fl.flight_docs[fl.cur_flight.doc]
               IN  /\ fl.tracking.doc = doc.id
                   /\ fl.tracking.payload \in DOMAIN doc.payloads
                   /\ IF fl.cur_payload = Null THEN doc.payloads[fl.tracking.payload] = Empty
                      ELSE fl.tracking.payload = fl.cur_payload.payload
    <3> DEFINE doc == fl.flight_docs[fl.cur_flight.doc]
    <3>1. /\ fl.cur_flight.doc \in 1 .. Len(fl.flight_docs)
          /\ fl.tracking.payload \in 1 .. Len(doc.payloads)
          /\ fl.tracking.doc = doc.id
          /\ fl.cur_payload = Null => doc.payloads[fl.tracking.payload] = Empty
      BY <2>1, <2>3 DEF Fresh
    <3>2. doc.payloads \in Seq(Nat \cup {Empty})
      BY <2>1, <3>1, FlightDocs
    <3>3. fl.tracking.payload \in DOMAIN doc.payloads
      BY <3>1, <3>2
    <3>4. fl.cur_payload # Null => fl.tracking.payload = fl.cur_payload.payload
      BY <2>1, <2>2, <2>3 DEF Shaped, Pointer
    <3> QED  BY <3>1, <3>3, <3>4
  <2>4. fl.cur_heap = "payload" => fl.tracking.doc = fl.payload_docs[fl.cur_payload.doc].id
    BY <2>1 DEF Fresh
  <2> QED  BY <2>1, <2>3, <2>4 DEF SavedIsSelected, Shaped
<1> QED  BY <1>1, FlightsInvariance, PTL

LEMMA PopulateKeeps ==
    ASSUME FInv, ~fl.crashed, Populate, fl.cur_heap # "nothing"
    PROVE  IF Alive(fl, Chosen(fl)) THEN fl' = fl ELSE Alone(fl) => SameSelection(fl, fl')
<1> DEFINE list == uploader.list
<1>1. /\ fl \in Globals /\ Shaped(fl) /\ Behind(fl, list) /\ list \in Lists
      /\ fl' = Populated(fl, list)
  BY DEF FInv, TypeOK, Populate
<1> HIDE DEF list
<1>2. CASE fl.cur_heap = Heap(list)
  <2>1. Chosen(fl).version # fl.version[list]
    BY <1>1, <1>2 DEF Behind
  <2>2. Chosen(fl).list = list
    BY <1>1, <1>2 DEF Shaped, Chosen, Heap, Lists
  <2>3. ~Alive(fl, Chosen(fl))
    BY <1>1, <2>1, <2>2 DEF Alive, Null, Lists
  <2>4. Alone(fl) => SameSelection(fl, Populated(fl, list))
    BY <1>1, <1>2, <2>1, AloneKept, CrashKeeps
  <2> QED  BY <1>1, <2>3, <2>4
<1>3. CASE fl.cur_heap # Heap(list)
  <2>1. Alive(fl, Chosen(fl))
    <3>1. Fresh(fl) /\ fl.cur_heap \in Heaps
      BY <1>1, <1>3 DEF Behind, Globals
    <3> QED  BY <1>1, <3>1 DEF Heaps, Shaped, Fresh, Chosen, Alive
  <2>2. fl' = fl
    BY <1>1, <1>3, OtherListKept
  <2> QED  BY <2>1, <2>2
<1> QED  BY <1>2, <1>3

\* When new_flight_docs or new_payload_docs is done, a selection from the other
\* list is as it was, and one from this list is found again if its document is in
\* it once and has a name.
THEOREM SelectionSurvives == Spec => SelectionKept
<1> DEFINE Kept == uploader.at = "replacing" /\ uploader'.at = "rest" /\ fl.cur_heap # "nothing"
                   => IF Alive(fl, Chosen(fl))
                      THEN fl' = fl
                      ELSE Alone(fl) => SameSelection(fl, fl')
<1>1. ASSUME FInv, [Next]_vars, uploader.at = "replacing", uploader'.at = "rest"
      PROVE  ~fl.crashed /\ Populate
  <2>1. CASE UploaderStep
    BY <1>1, <2>1 DEF UploaderStep, Take, DownloadFails, Downloaded
  <2>2. CASE Waiting
    BY <1>1, <2>2 DEF Waiting, Wait, ThreadDeath
  <2>3. CASE Ready
    BY <1>1, <2>3 DEF FInv, Extracting, Ready
  <2>4. CASE UserStep /\ ~Ready
    BY <1>1, <2>4 DEF UserStep, User, FlLockFree, UserSelectsFlight, UserSelectsPayload,
       UserChoosesPayload, UserChoosesTransmission, UserSwitchesMode, UserRefreshes,
       UserGoes, UserCommits, Cleanup
  <2>5. CASE UNCHANGED vars
    BY <1>1, <2>5 DEF vars
  <2> QED  BY <1>1, <2>1, <2>2, <2>3, <2>4, <2>5 DEF Next
<1>2. FInv /\ [Next]_vars => Kept
  BY <1>1, PopulateKeeps
<1>3. FInv /\ [Next]_vars => [Kept]_vars
  BY <1>2
<1> QED  BY <1>3, FlightsInvariance, PTL DEF Spec, SelectionKept

---------------------------------------------------------------------------
(* The crash                                                               *)

\* The globals as populate_* has them at each document: without the extractor, what
\* is saved is of this list if the extractor has been used.
Usable(list, f) ==
    /\ f \in Globals /\ Shaped(f)
    /\ f.crashed => ~f.extrmgr /\ f.tracking.type = Heap(list)

LEMMA SelectedUsable ==
    ASSUME NEW list, NEW f, Usable(list, f), f.tracking.type = Heap(list),
           NEW g, Selected(f, g)
    PROVE  Usable(list, g)
<1>1. g \in Globals /\ Shaped(g)
  BY SelectedSettles DEF Usable, Settled
<1>2. CASE f.extrmgr
  BY <1>1, <1>2 DEF Selected, Usable
<1>3. CASE ~f.extrmgr
  <2>1. g = [f EXCEPT !.crashed = TRUE]
    BY <1>3 DEF Selected
  <2>2. g.extrmgr = f.extrmgr /\ g.tracking = f.tracking
    BY <2>1 DEF Usable, Globals
  <2> QED  BY <1>1, <1>3, <2>2 DEF Usable
<1> QED  BY <1>2, <1>3

LEMMA FoundUsable ==
    ASSUME NEW list, NEW f, Usable(list, f), NEW i \in Nat
    PROVE  Usable(list, Found(f, list, i))
<1>1. CASE ~Tracked(f, list, i)
  BY <1>1 DEF Found
<1>2. CASE Tracked(f, list, i)
  <2>1. f.tracking.type = Heap(list)
    BY <1>2 DEF Tracked
  <2>2. Selected(f, SelectFlight(f, i)) /\ Selected(f, SelectPayload(f, i))
    BY SelectsFlight, SelectsPayload DEF Usable
  <2>3. Usable(list, SelectFlight(f, i)) /\ Usable(list, SelectPayload(f, i))
    BY <2>1, <2>2, SelectedUsable
  <2> QED  BY <2>3 DEF Found
<1> QED  BY <1>1, <1>2

\* populate_* uses the extractor only when what is saved is of this list.
LEMMA PopulatedUsable ==
    ASSUME NEW list \in Lists, NEW f, Usable(list, f)
    PROVE  Usable(list, Populated(f, list))
<1> DEFINE n == Len(Docs(f, list))
<1>1. n \in Nat
  BY FlightDocs DEF Docs, Usable
<1>2. PICK r : /\ Populated(f, list) = r[n]
               /\ r[0] = Cleared(f, list)
               /\ \A i \in 1 .. n : r[i] = Found(r[i - 1], list, i)
  <2> HIDE DEF n
  <2>1. n = Len(Docs(f, list))
    BY DEF n
  <2> QED  BY <1>1, <2>1, PassOf
<1> HIDE DEF n
<1>3. Usable(list, r[0])
  <2>1. CASE f.cur_heap # Heap(list)
    BY <1>2, <2>1 DEF Cleared
  <2>2. CASE f.cur_heap = Heap(list)
    <3>1. f.tracking.type = Heap(list)
      BY <2>2 DEF Usable, Shaped, Heap
    <3>2. Selected(f, Unselect(f))
      BY Unselects DEF Usable
    <3>3. Usable(list, Unselect(f))
      BY <3>1, <3>2, SelectedUsable
    <3> QED  BY <1>2, <2>2, <3>3 DEF Cleared
  <2> QED  BY <2>1, <2>2
<1> DEFINE Unusable == {i \in 0 .. n : ~Usable(list, r[i])}
<1>4. Unusable = {}
  <2> SUFFICES ASSUME Unusable # {} PROVE FALSE
    OBVIOUS
  <2>1. PICK m \in Unusable : \A k \in Unusable : m <= k
    <3>1. Unusable \subseteq Nat
      BY <1>1
    <3> HIDE DEF Unusable
    <3> QED  BY <3>1, FirstOf
  <2>2. m # 0
    BY <1>3, <2>1
  <2>3. m - 1 \in 0 .. n /\ m \in 1 .. n /\ m - 1 \notin Unusable
    BY <1>1, <2>1, <2>2
  <2>4. Usable(list, r[m - 1])
    BY <2>3
  <2>5. r[m] = Found(r[m - 1], list, m) /\ m \in Nat
    BY <1>1, <1>2, <2>3
  <2> QED  BY <2>1, <2>4, <2>5, FoundUsable
<1> QED  BY <1>1, <1>2, <1>4

\* Nobody replaces a list while cleanup holds the Fl lock.
Ending ==
    /\ uploader.at = "replacing" => main \in {"run", "leaving"}
    /\ CrashedOnlyLeaving

LEMMA ReadyEnding ==
    ASSUME FInv, Ending, Ready
    PROVE  Ending'
<1>1. /\ fl \in Globals /\ fl.extrmgr /\ ~fl.crashed /\ uploader.at # "replacing"
      /\ main' = "run"
  BY DEF Ready, FInv, TypeOK, Extracting, Ending, CrashedOnlyLeaving
<1>2. PICK flights \in FlightLists, payloads \in PayloadLists :
        LET read == [Unselect(fl) EXCEPT !.flight_docs = flights, !.payload_docs = payloads]
        IN  fl' = Populated(Populated(read, "flights"), "payloads")
  BY DEF Ready
<1> DEFINE blank == Unselect(fl)
           read  == [blank EXCEPT !.flight_docs = flights, !.payload_docs = payloads]
           found == Populated(read, "flights")
<1>3. /\ blank \in Globals /\ Shaped(blank) /\ blank.extrmgr /\ ~blank.crashed
      /\ blank.cur_heap = "nothing"
  BY <1>1, Unselects DEF Selected, Same
<1> HIDE DEF blank
<1>4. /\ read \in Globals
      /\ read.cur_heap = "nothing" /\ read.cur_flight = blank.cur_flight
      /\ read.cur_payload = blank.cur_payload /\ read.extracted = blank.extracted
      /\ read.tracking = blank.tracking /\ read.cur_transmission = blank.cur_transmission
      /\ read.cur_transmission_index = blank.cur_transmission_index
      /\ read.extrmgr /\ ~read.crashed
  BY <1>3 DEF Globals
<1> HIDE DEF read
<1>5. Shaped(read) /\ Fresh(read)
  BY <1>3, <1>4 DEF Shaped, Fresh
<1>6. "flights" \in Lists /\ "payloads" \in Lists
  BY DEF Lists
<1>7. Usable("flights", read)
  BY <1>4, <1>5 DEF Usable
<1>8. Usable("flights", found) /\ found.extrmgr
  BY <1>4, <1>5, <1>6, <1>7, PopulatedUsable, PopulateSettles DEF Same
<1>9. found \in Globals /\ Shaped(found) /\ ~found.crashed
  BY <1>8 DEF Usable
<1>10. ~found.crashed => Fresh(found)
  BY <1>4, <1>5, <1>6, PopulateSettles DEF Settled
<1> HIDE DEF found
<1>11. fl' = Populated(found, "payloads")
  BY <1>2 DEF found, read, blank
<1>12. Usable("payloads", found)
  BY <1>9 DEF Usable
<1>13. Usable("payloads", fl') /\ fl'.extrmgr
  BY <1>6, <1>8, <1>9, <1>10, <1>11, <1>12, PopulatedUsable, PopulateSettles DEF Same
<1>14. ~fl'.crashed
  BY <1>13 DEF Usable
<1> QED  BY <1>1, <1>14 DEF Ending, CrashedOnlyLeaving

LEMMA PopulateEnding ==
    ASSUME FInv, Ending, ~fl.crashed, Populate
    PROVE  Ending'
<1> DEFINE list == uploader.list
<1>1. /\ fl \in Globals /\ Shaped(fl) /\ list \in Lists /\ fl' = Populated(fl, list)
      /\ main' = main /\ uploader' = [uploader EXCEPT !.at = "rest"]
  BY DEF FInv, TypeOK, Populate
<1>2. uploader'.at = "rest" /\ uploader'.list = list
  BY <1>1 DEF FInv, TypeOK
<1>3. fl'.crashed => ~fl'.extrmgr /\ fl'.tracking.type = Heap(list)
  <2> HIDE DEF list
  <2>1. Usable(list, fl)
    BY <1>1 DEF Usable
  <2> QED  BY <1>1, <2>1, PopulatedUsable DEF Usable
<1>4. main \in {"run", "leaving"}
  BY DEF Ending, Populate
<1>5. main = "run" => fl'.extrmgr
  BY <1>1, PopulateStepSettles DEF FInv, Extracting
<1> QED  BY <1>1, <1>2, <1>3, <1>4, <1>5 DEF Ending, CrashedOnlyLeaving

LEMMA EndingStep == FInv /\ Ending /\ [Next]_vars => Ending'
<1> SUFFICES ASSUME FInv, Ending, [Next]_vars PROVE Ending'
  OBVIOUS
<1>1. CASE ~fl.crashed /\ (Take \/ DownloadFails)
  <2>1. fl' = fl /\ uploader'.at # "replacing"
    BY <1>1, TakesUp DEF Take, DownloadFails, FInv, TypeOK, Uploader
  <2> QED  BY <1>1, <2>1 DEF Ending, CrashedOnlyLeaving
<1>2. CASE ~fl.crashed /\ Downloaded
  <2>1. main' = main /\ main \in {"run", "leaving"}
    BY <1>2 DEF Downloaded, FlLockFree
  <2>2. ~fl'.crashed
    <3>1. PICK docs \in ListsOf(uploader.list) :
            fl' = [Replaced(fl, uploader.list, docs) EXCEPT !.downloaded = @ \cup {uploader.list}]
      BY <1>2 DEF Downloaded
    <3> QED  BY <1>2, <3>1 DEF Replaced, FInv, TypeOK, Globals
  <2> QED  BY <2>1, <2>2 DEF Ending, CrashedOnlyLeaving
<1>3. CASE ~fl.crashed /\ Populate
  BY <1>3, PopulateEnding
<1>4. CASE Waiting
  <2>1. ~fl'.crashed
    BY <1>4 DEF Waiting, Wait, ThreadDeath, Nothing
  <2>2. uploader'.at # "replacing" \/ main' = "leaving"
    BY <1>4 DEF Waiting, Wait, ThreadDeath
  <2> QED  BY <2>1, <2>2 DEF Ending, CrashedOnlyLeaving
<1>5. CASE Ready
  BY <1>5, ReadyEnding
<1>6. CASE UserSelectsFlight \/ UserSelectsPayload \/ UserChoosesPayload
           \/ UserChoosesTransmission \/ UserSwitchesMode
  <2>1. ~fl'.crashed
    BY <1>6, UserSelectsFlightSettles, UserSelectsPayloadSettles, UserChoosesPayloadSettles,
       UserChoosesTransmissionSettles
  <2>2. main' = "run"
    BY <1>6 DEF User, UserSelectsFlight, UserSelectsPayload, UserChoosesPayload,
       UserChoosesTransmission, UserSwitchesMode
  <2> QED  BY <2>1, <2>2 DEF Ending, CrashedOnlyLeaving
<1>7. CASE UserRefreshes \/ UserGoes \/ UserCommits
  <2>1. main' = "run" /\ ~fl.crashed /\ (fl' = fl \/ fl' = [fl EXCEPT !.downloaded = {}])
    BY <1>7 DEF UserRefreshes, UserGoes, UserCommits, User, FlLockFree
  <2>2. ~fl'.crashed
    BY <2>1 DEF FInv, TypeOK, Globals
  <2> QED  BY <2>1, <2>2 DEF Ending, CrashedOnlyLeaving
<1>8. CASE Cleanup
  <2>1. ~fl.crashed /\ uploader.at # "replacing"
    BY <1>8 DEF Cleanup, FlLockFree
  <2>2. ~fl'.crashed
    BY <1>8, <2>1 DEF Cleanup, FInv, TypeOK, Globals
  <2>3. uploader'.at = uploader.at
    BY <1>8 DEF Cleanup, Asked, FInv, TypeOK
  <2> QED  BY <2>1, <2>2, <2>3 DEF Ending, CrashedOnlyLeaving
<1>9. CASE UNCHANGED vars
  BY <1>9 DEF vars, Ending, CrashedOnlyLeaving
<1> QED
  BY <1>1, <1>2, <1>3, <1>4, <1>5, <1>6, <1>7, <1>8, <1>9 DEF Next, UploaderStep, UserStep

\* A deleted extractor is used only while cleanup waits for the uploader, by a download
\* of the list that what is saved belongs to: a program that runs never uses it, and one
\* that leaves with nothing of that list saved ends without using it.
THEOREM CrashesOnlyLeaving == Spec => []CrashedOnlyLeaving
<1>1. Init => Ending
  BY DEF Init, Nothing, Ending, CrashedOnlyLeaving
<1>2. Ending => CrashedOnlyLeaving
  BY DEF Ending
<1> QED  BY <1>1, <1>2, EndingStep, FlightsInvariance, PTL DEF Spec
=============================================================================
