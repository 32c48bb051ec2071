-------------------------- MODULE MCJointController --------------------------
(***************************************************************************)
(* TLC instance of JointController: integers of two bytes of two bits, and *)
(* two sets of parameters.  Half copied, the gains 1 and -1 are 3 or -3.   *)
(***************************************************************************)
EXTENDS JointController

MCParams == {
  [kp |-> 1, ki |-> 1, kd |-> 1, max_i |-> 1, min_pwm |-> 2, max_pwm |-> 3,
   max_speed |-> 2, slope |-> 1],
  [kp |-> -1, ki |-> 1, kd |-> 1, max_i |-> 0, min_pwm |-> 2, max_pwm |-> 3,
   max_speed |-> 2, slope |-> 1]}

MCSpeeds == {-3}

(* The hypothesis of the theorem that nothing overflows. *)
ASSUME MCRoom == GainsLeaveRoom
=============================================================================
