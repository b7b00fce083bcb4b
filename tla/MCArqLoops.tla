----------------------------- MODULE MCArqLoops -----------------------------
(***************************************************************************)
(* Values of the constants of ArqBlocksLoops for TLC: the lists of a       *)
(* sender whose blocks are numbered one after the other.                   *)
(***************************************************************************)
EXTENDS ArqBlocksLoops

\* The numbers after last, and those up to it.
After(last, n) == [k \in 1 .. n |-> (last + k) % MaxCount]
UpTo(last, n)  == [k \in 1 .. n |-> (last - n + k) % MaxCount]

\* Lists of the last three numbers sent, some left out.
SomeMissing(last) ==
    {SelectSeq(UpTo(last, 3), LAMBDA n : n \in some) : some \in SUBSET InList(UpTo(last, 3))}

SomeReports ==
    UNION {[TxMissing : SomeMissing(last), TxPending : {UpTo(last, n) : n \in {0, 3}},
            LastHeader : {last}, UrGoodHeader : Nbr, UrEndHeader : Nbr,
            reported : {{}, {last}, {(last + 3) % MaxCount}}] : last \in Nbr}

SomeQueues ==
    UNION {[TxMissing : SomeMissing(last), TxPending : {UpTo(last, 1)},
            TxBlocks : {After(last, n) : n \in 0 .. 4}, LastHeader : {last},
            UrGoodHeader : Nbr] : last \in Nbr}
=============================================================================
