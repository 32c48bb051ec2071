------------------------------ MODULE MCHBridge ------------------------------
(***************************************************************************)
(* TLC instance of HBridge: odd, even and saturating speeds.  The bridges  *)
(* share no pin, so not every pair of speeds is needed.                    *)
(***************************************************************************)
EXTENDS HBridge

MCOutputs == {<<-300, 300>>, <<254, -3>>}
=============================================================================
