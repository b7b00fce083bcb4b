----------------------------- MODULE MCQRunner -----------------------------
(***************************************************************************)
(* Three threads for TLC: two whose calls have one type, as those of the   *)
(* XML-RPC server and of the KISS interface to init_modem_sync, and one    *)
(* with a type of its own, as the modem thread's nop of REQ_FLUSH.         *)
(***************************************************************************)
EXTENDS QRunner

FunctorOf == [t \in Threads |-> IF t = "trx" THEN "nop" ELSE "init_modem_sync"]

CallsOf == [t \in Threads |-> IF t = "xmlrpc" THEN 2 ELSE 1]
=============================================================================
