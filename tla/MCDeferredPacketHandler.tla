---------------------- MODULE MCDeferredPacketHandler ----------------------
(***************************************************************************)
(* TLC instance of DeferredPacketHandler: two types with rings of two      *)
(* buffers (PACKETS_PER_TYPE_MAX) and room for three pending packets, so   *)
(* that a ring can be full, the list can be full before the rings are, as  *)
(* with the 6 types and 8 places of the firmware, and a ring wraps around. *)
(***************************************************************************)
EXTENDS DeferredPacketHandler, TLC

CONSTANTS t1, t2, p1, p2

MCNumBuffers == t1 :> 2 @@ t2 :> 2
=============================================================================
