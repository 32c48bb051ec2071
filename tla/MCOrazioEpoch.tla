---------------------------- MODULE MCOrazioEpoch ----------------------------
(***************************************************************************)
(* TLC instance of OrazioEpoch: real packet and buffer sizes, and enough   *)
(* parameter packets in one cycle to fill the transmit buffer.             *)
(***************************************************************************)
EXTENDS OrazioEpoch

AllFlags == {"PSystemStatusFlag", "PJointStatusFlag", "PDriveStatusFlag"}

System(mask) == [periodic_packet_mask |-> mask]

MCParams == [ParamSystem |-> System(AllFlags), ParamJoints |-> 0,
             ParamDrive |-> 0]

Packet(t, s, a) == [type |-> t, seq |-> s, arg |-> a]

Control(a, t) == [action |-> a, param_type |-> t]

(* The client's sequence numbers are none of the robot's. *)
MCPackets == {
  Packet("JointParam", 4, 0),
  Packet("JointParam", 5, 1),
  Packet("DriveParam", 6, 0),
  Packet("SystemParam", 7, System({})),
  Packet("ParamControl", 8, Control("ParamSave", "ParamJoints")),
  Packet("ParamControl", 9, Control("ParamLoad", "ParamJoints")),
  Packet("ParamControl", 10, Control("ParamRequest", "None"))}
=============================================================================
