---------------------------- MODULE MCOrazioParam ----------------------------
(***************************************************************************)
(* TLC instance of OrazioParam: a firmware, an update that keeps the       *)
(* protocol, and one that changes it.                                      *)
(***************************************************************************)
EXTENDS OrazioParam

MCFirmwares == {[protocol |-> 1, version |-> 1], [protocol |-> 1, version |-> 2],
                [protocol |-> 2, version |-> 3]}

MCValues == {"default", "tuned"}
=============================================================================
