----------------------------- MODULE MCFlights -----------------------------
(***************************************************************************)
(* Documents for TLC: flight "a" with two payloads, then with one that has *)
(* other transmissions, then with the second of them empty; "b" without a  *)
(* name; one without payloads and one that is invalid; "a" twice.  The     *)
(* payload documents likewise.                                             *)
(***************************************************************************)
EXTENDS Flights

Flight(i, named, payloads) == [id |-> i, named |-> named, payloads |-> payloads]
Payload(i, named, n) == [id |-> i, named |-> named, transmissions |-> n]

A == Flight("a", TRUE, <<2, 1>>)
B == Flight("b", FALSE, <<0>>)

FlightChoice ==
    {<<>>, <<A>>, <<B, A>>, <<Flight("a", TRUE, <<1>>), B>>,
     <<Flight("a", TRUE, <<>>), Flight(NoId, TRUE, <<1>>)>>, <<A, Flight("a", TRUE, <<1>>)>>,
     <<Flight("a", TRUE, <<1, Empty>>)>>}

PayloadChoice == {<<>>, <<Payload("p", TRUE, 2)>>, <<Payload("a", FALSE, 0), Payload("p", TRUE, 1)>>}

SavedChoice ==
    {[type |-> "nothing", doc |-> NoId, payload |-> 0, transmission |-> 0],
     [type |-> "flight", doc |-> "a", payload |-> 2, transmission |-> 2]}
=============================================================================
