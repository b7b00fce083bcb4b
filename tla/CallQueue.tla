----------------------------- MODULE CallQueue -----------------------------
(***************************************************************************)
(* What a queue of calls promises: the calls a thread hands over are run   *)
(* once each, in the order in which it made them.                          *)
(***************************************************************************)
EXTENDS Naturals, Sequences

CONSTANT Threads

VARIABLES
    given,      \* given[t]: calls accepted from thread t
    ran         \* ran[t]: the numbers of those that have run, in that order

CInit ==
    /\ given = [t \in Threads |-> 0]
    /\ ran = [t \in Threads |-> <<>>]

Give(t) ==
    /\ given' = [given EXCEPT ![t] = @ + 1]
    /\ UNCHANGED ran

Run(t) ==
    /\ Len(ran[t]) < given[t]
    /\ ran' = [ran EXCEPT ![t] = Append(@, Len(@) + 1)]
    /\ UNCHANGED given

CNext == \E t \in Threads : Give(t) \/ Run(t)

CSpec == CInit /\ [][CNext]_<<given, ran>>
=============================================================================
