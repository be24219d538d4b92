------------------------------- MODULE MCUartCl -------------------------------
(* A small instance of UartCl for TLC: a buffer of 3 bytes, bundles of 2    *)
(* and 3 bytes and one that does not fit.                                   *)
EXTENDS UartCl, TLC

BigLast == <<2, 3, 4>>
=============================================================================
