---------------------------- MODULE ArqTransfer ----------------------------
(***************************************************************************)
(* What an ARQ link promises its users: each user is handed the texts the  *)
(* other one offered, one after the other from the first, none of them     *)
(* before it was offered.  A station that starts its session over starts   *)
(* the delivery over.  How blocks are numbered, lost, reported and         *)
(* repeated is not seen here.                                              *)
(***************************************************************************)
EXTENDS Naturals, Sequences

CONSTANTS User, Other(_), Limit     \* Limit: texts a user ever offers

VARIABLES
    offered,    \* offered[u]: texts 1..offered[u] were offered by user u
    taken       \* taken[u]: the texts handed to user u in this session

tvars == <<offered, taken>>

TInit == offered = [u \in User |-> 0] /\ taken = [u \in User |-> <<>>]

\* User u offers more text.
Offer(u) ==
    /\ \E n \in offered[u] + 1 .. Limit : offered' = [offered EXCEPT ![u] = n]
    /\ UNCHANGED taken

\* User u is handed the next n texts of the other.
Deliver(u) ==
    LET t == Len(taken[u])
    IN  /\ \E n \in 1 .. offered[Other(u)] - t :
                taken' = [taken EXCEPT ![u] = @ \o [k \in 1 .. n |-> t + k]]
        /\ UNCHANGED offered

\* The session of user u begins anew.
Renew(u) == taken' = [taken EXCEPT ![u] = <<>>] /\ UNCHANGED offered

TNext == \E u \in User : Offer(u) \/ Deliver(u) \/ Renew(u)

TSpec == TInit /\ [][TNext]_tvars
=============================================================================
