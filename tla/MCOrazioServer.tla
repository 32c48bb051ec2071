--------------------------- MODULE MCOrazioServer ---------------------------
(***************************************************************************)
(* TLC instance of OrazioServer for the watchdog, the drive and the timer. *)
(***************************************************************************)
EXTENDS OrazioServer

System(w, c) == [periodic_packet_mask |-> {}, watchdog_cycles |-> w,
                 comm_cycles |-> c]

MCParams == [ParamSystem |-> System(0, 2), ParamJoints |-> 0, ParamDrive |-> 0]

MCPackets == {
  [type |-> "Noise", seq |-> 0, arg |-> 0],
  [type |-> "JointControl", seq |-> 1, arg |-> "Other"],
  [type |-> "JointControl", seq |-> 1, arg |-> "JointPWM"],
  [type |-> "DriveControl", seq |-> 1, arg |-> 0],
  [type |-> "DriveParam", seq |-> 1, arg |-> 0],
  [type |-> "SystemParam", seq |-> 1, arg |-> System(2, 0)]}
=============================================================================
