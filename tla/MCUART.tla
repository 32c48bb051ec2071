------------------------------- MODULE MCUART -------------------------------
(* TLC instance of UART: rings of four characters stand for those of 256. *)
EXTENDS UART
=============================================================================
