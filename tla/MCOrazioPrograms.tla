-------------------------- MODULE MCOrazioPrograms --------------------------
(* TLC instance of OrazioPrograms: short timeouts, buffers and lines. *)
EXTENDS OrazioPrograms
=============================================================================
