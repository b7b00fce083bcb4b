------------------------------- MODULE MCTrx -------------------------------
(***************************************************************************)
(* Two modes for TLC, one at the rate of the reset as PSK, one at another  *)
(* as MFSK16's image rates or the 11025 of THOR.                           *)
(***************************************************************************)
EXTENDS Trx

RateOf == [m \in Modes |-> IF m = "psk" THEN 8000 ELSE 11025]
=============================================================================
