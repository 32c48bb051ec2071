--------------------------- MODULE JointController ---------------------------
(***************************************************************************)
(* One wheel: the quadrature decoder (src/arch/atmega2560/encoder.c, the   *)
(* same for the atmega328) and the joint controller                        *)
(* (src/server/orazio_joints_internal.c).  The wheel turns when it likes,  *)
(* every change of its two pins interrupts, the timer interrupt samples    *)
(* the count and computes the output, and the main program changes the     *)
(* control and the parameters whenever no interrupt runs.                  *)
(*                                                                         *)
(* All integers have Word values.  Wheel positions are counted in edges,   *)
(* modulo Word.                                                            *)
(***************************************************************************)
EXTENDS Integers, Sequences

CONSTANTS
  ByteRange,            \* values of a byte (2^8)
  Word,                 \* values of uint16_t and int16_t (2^16)
  GainScale,            \* divisor of the gains (32)
  Params,               \* parameters that are sent or kept
  Speeds,               \* speeds that may be asked for
  MaxTurn               \* bound: edges between two ticks

Modes == {"JointDisabled", "JointPWM", "JointPID", "Other"}

Int16 == -(Word \div 2) .. Word \div 2 - 1

Limits == 0 .. Word \div 2 - 1

ASSUME JointConstants ==
  /\ ByteRange \in Nat \ {0} /\ ByteRange % 2 = 0
  /\ Word = ByteRange * ByteRange
  /\ GainScale \in Nat \ {0}
  /\ Params \subseteq [kp : Int16, ki : Int16, kd : Int16, max_i : Limits,
                       min_pwm : Limits, max_pwm : Limits,
                       max_speed : Limits, slope : Limits]
  /\ Speeds \subseteq Int16
  /\ MaxTurn \in Nat /\ MaxTurn < Word \div 4

VARIABLES
  position,             \* where the wheel is
  pending,              \* the pins have changed and want an interrupt
  encoder,              \* pin_state, current_value, sampled_value
  tick,                 \* where the timer interrupt is
  control, params,      \* written by the main program
  joint,                \* output, error_integral, previous_error
  status,               \* encoder_position, encoder_speed
  seen,                 \* history: where the decoder last saw the wheel
  synced,               \* history: the decoder has seen it since boot
  travel                \* history: seen at the last sample, the edges since
                        \* the one before, whether the decoder had seen the
                        \* wheel by that one (known), by this one (ready)

vars == <<position, pending, encoder, tick, control, params, joint, status,
          seen, synced, travel>>

Unsigned(n) == n % Word

Signed(n) == ((n + Word \div 2) % Word) - Word \div 2

(* The two bytes of an integer, and the integer that they make. *)
High(n) == Unsigned(n) \div ByteRange

Low(n) == Unsigned(n) % ByteRange

Bytes(high, low) == Signed(ByteRange * high + low)

(* Parameters of which some bytes have been replaced by those of others:   *)
(* what may be in memory while they are copied.                            *)
Mixed(field) == {Bytes(High(p[field]), Low(q[field])) : p, q \in Params}

Mixtures ==
  [kp : Mixed("kp"), ki : Mixed("ki"), kd : Mixed("kd"), max_i : Mixed("max_i"),
   min_pwm : Mixed("min_pwm"), max_pwm : Mixed("max_pwm"),
   max_speed : Mixed("max_speed"), slope : Mixed("slope")]

(* The two pins, as a number, for the four phases of a turn. *)
Pins(p) == <<0, 2, 3, 1>>[(p % 4) + 1]

Init ==
  /\ position \in 0 .. 3
  /\ pending = FALSE
  /\ encoder = [pin_state |-> 0, current_value |-> 0, sampled_value |-> 0]
  /\ tick = "over"
  /\ control = [mode |-> "JointDisabled", speed |-> 0]
  /\ params \in Params
  /\ joint = [output |-> 0, error_integral |-> 0, previous_error |-> 0]
  /\ status = [encoder_position |-> 0, encoder_speed |-> 0]
  /\ seen = position
  /\ synced = FALSE
  /\ travel = [from |-> position, edges |-> 0, known |-> FALSE,
                ready |-> FALSE]
----------------------------------------------------------------------------
(* The wheel and its decoder *)

(* The wheel never gets further than one edge away from what the decoder   *)
(* has seen: the interrupt is faster than the wheel.                       *)
Turn(d) ==
  /\ Signed(position + d - seen) \in {-1, 0, 1}
  /\ Signed(position + d - travel.from) \in -MaxTurn .. MaxTurn
  /\ position' = Unsigned(position + d)
  /\ pending' = TRUE
  /\ UNCHANGED <<encoder, tick, control, params, joint, status, seen, synced,
                 travel>>

(* Mistake: a wrong sign in the last quarter of the table. *)
transition_table_Wrong ==
  <<0, -1, 1, 0, 1, 0, 0, -1, -1, 0, 0, 1, 0, -1, -1, 0>>

transition_table ==
  <<0, -1, 1, 0, 1, 0, 0, -1, -1, 0, 0, 1, 0, 1, -1, 0>>

PCINT0_vect ==
  /\ pending
  /\ pending' = FALSE
  /\ encoder' = [encoder EXCEPT
       !.current_value =
          Unsigned(@ + transition_table[4 * encoder.pin_state
                                        + Pins(position) + 1]),
       !.pin_state = Pins(position)]
  /\ seen' = position
  /\ synced' = TRUE
  /\ UNCHANGED <<position, tick, control, params, joint, status, travel>>
----------------------------------------------------------------------------
(* The timer interrupt *)

(* Encoder_sample, which enables interrupts when it is done *)
sample ==
  /\ tick = "over"
  /\ tick' = "sampled"
  /\ encoder' = [encoder EXCEPT !.sampled_value = encoder.current_value]
  /\ travel' = [from |-> seen, edges |-> Signed(seen - travel.from),
                known |-> travel.ready, ready |-> synced]
  /\ UNCHANGED <<position, pending, control, params, joint, status, seen,
                 synced>>

clamp(v, value) == IF v > value THEN value ELSE IF v < -value THEN -value ELSE v

(* Division truncates towards zero. *)
Quotient(n) == IF n < 0 THEN -((-n) \div GainScale) ELSE n \div GainScale

(* What JointController_handle computes of an encoder speed in JointPID *)
Error(speed) ==
  clamp(Signed(clamp(control.speed, params.max_speed) - speed), params.slope)

(* Mistake: the integral grows without limit. *)
Integral_Windup(speed) == Signed(joint.error_integral + Error(speed))

Integral(speed) ==
  clamp(Signed(joint.error_integral + Error(speed)), params.max_i)

GainSum(speed) ==
  params.kp * Error(speed) + params.ki * Integral(speed)
    + params.kd * Signed(Error(speed) - joint.previous_error)

(* Mistake: only positive outputs are limited. *)
Output_OneSided(speed) ==
  LET sum == Signed(speed + Error(speed) + Quotient(Signed(GainSum(speed))))
      out == IF sum > params.max_pwm THEN params.max_pwm ELSE sum
  IN IF out < params.min_pwm /\ out > -params.min_pwm THEN 0 ELSE out

Output(speed) ==
  LET out == clamp(Signed(speed + Error(speed)
                          + Quotient(Signed(GainSum(speed)))), params.max_pwm)
  IN IF out < params.min_pwm /\ out > -params.min_pwm THEN 0 ELSE out

(* Mistake: the speed is not reduced to sixteen bits. *)
Speed_NoWrap(enc) == enc - status.encoder_position

Speed(enc) == Signed(enc - status.encoder_position)

handle ==
  /\ tick = "sampled"
  /\ tick' = "over"
  /\ LET speed == Speed(encoder.sampled_value)
     IN /\ status' = [encoder_position |-> encoder.sampled_value,
                      encoder_speed |-> speed]
        /\ joint' = CASE control.mode = "JointDisabled" ->
                           [joint EXCEPT !.output = 0, !.error_integral = 0]
                      [] control.mode = "JointPWM" ->
                           [joint EXCEPT !.output = control.speed]
                      [] control.mode = "JointPID" ->
                           [output |-> Output(speed),
                            error_integral |-> Integral(speed),
                            previous_error |-> Error(speed)]
                      [] OTHER -> joint
  /\ UNCHANGED <<position, pending, encoder, control, params, seen, synced,
                 travel>>
----------------------------------------------------------------------------
(* The main program, which runs when the timer interrupt is over.  A       *)
(* control packet is copied, and the drive writes, in more than one step:  *)
(* mode and speed change one after the other (the bytes of a speed too:    *)
(* Speeds holds what a tick may find of one), and so do the bytes of the   *)
(* parameters, from a packet or from the EEPROM, in any order.             *)

setMode ==
  /\ tick = "over"
  /\ control' \in {[control EXCEPT !.mode = m] : m \in Modes}
  /\ UNCHANGED <<position, pending, encoder, tick, params, joint, status, seen,
                 synced, travel>>

setSpeed ==
  /\ tick = "over"
  /\ control' \in {[control EXCEPT !.speed = v] : v \in Speeds}
  /\ UNCHANGED <<position, pending, encoder, tick, params, joint, status, seen,
                 synced, travel>>

(* One byte of a joint_params packet (memcpy) or of what the EEPROM holds. *)
copyParam ==
  /\ tick = "over"
  /\ \E field \in DOMAIN params, q \in Params :
       params' \in
         {[params EXCEPT ![field] = Bytes(High(@), Low(q[field]))],
          [params EXCEPT ![field] = Bytes(High(q[field]), Low(@))]}
  /\ UNCHANGED <<position, pending, encoder, tick, control, joint, status,
                 seen, synced, travel>>

(* Orazio_jointsDisable *)
jointsDisable ==
  /\ tick = "over"
  /\ control' = [control EXCEPT !.mode = "JointDisabled"]
  /\ joint' = [joint EXCEPT !.output = 0]
  /\ UNCHANGED <<position, pending, encoder, tick, params, status, seen,
                 synced, travel>>

Next == \/ Turn(1) \/ Turn(-1) \/ PCINT0_vect
        \/ sample \/ handle
        \/ setMode \/ setSpeed \/ copyParam \/ jointsDisable

Spec == Init /\ [][Next]_vars
----------------------------------------------------------------------------
(* The state is well formed, and the integral never outgrows the largest   *)
(* limit that was ever set.                                                *)
TypeOK ==
  /\ {position, seen} \subseteq 0 .. Word - 1
  /\ encoder \in [pin_state : 0 .. 3, current_value : 0 .. Word - 1,
                  sampled_value : 0 .. Word - 1]
  /\ joint \in [output : Int16, error_integral : Int16,
                previous_error : Int16]
  /\ status \in [encoder_position : 0 .. Word - 1, encoder_speed : Int16]
  /\ \E p \in Mixtures : joint.error_integral \in -p.max_i .. p.max_i
  /\ control \in [mode : Modes, speed : Speeds \cup {0}]
  /\ params \in Mixtures
  /\ pending \in BOOLEAN /\ synced \in BOOLEAN
  /\ tick \in {"over", "sampled"}

(* The speed the controller works with is how far the wheel has turned     *)
(* between the last two samples: across the wrap of the counter, with      *)
(* edges between sampling and handling, with contacts that bounce, and     *)
(* whatever the phase of the wheel was at boot, once the decoder has seen  *)
(* one edge.                                                               *)
SpeedIsTravel ==
  tick = "over" /\ travel.known => status.encoder_speed = travel.edges

Abs(n) == IF n < 0 THEN -n ELSE n

(* Gains, limits and slopes that leave room: for parameters p, mixed as    *)
(* they may be, after the integral and the error that other mixtures q     *)
(* have left behind.  An encoder that has not seen the wheel yet may find  *)
(* it two edges from where it is, and one that has may be one edge behind. *)
GainsLeaveRoom ==
  \A p, q \in Mixtures :
    LET most == Word \div 2 - 1
        fastest == MaxTurn + 3
        gains == Abs(p.kp) * p.slope + Abs(p.ki) * p.max_i
                   + Abs(p.kd) * (p.slope + q.slope)
    IN /\ p.max_speed + fastest <= most
       /\ q.max_i + p.slope <= most
       /\ gains <= most
       /\ fastest + p.slope + gains \div GainScale <= most

(* With parameters whose gains leave room for it, no step of the           *)
(* controller overflows, although a tick may find them half copied, and    *)
(* previous_error and the integral may be left over from other parameters, *)
(* another mode, or before the wheel was stopped.                          *)
NoOverflow ==
  tick = "sampled" /\ control.mode = "JointPID" =>
    LET speed == Speed(encoder.sampled_value)
    IN /\ clamp(control.speed, params.max_speed) - speed \in Int16
       /\ joint.error_integral + Error(speed) \in Int16
       /\ GainSum(speed) \in Int16
       /\ speed + Error(speed) + Quotient(GainSum(speed)) \in Int16

(* "values whose norm is higher than max_pwm will be clamped, values whose *)
(* norm is lower than min_pwm will be zeroed" (orazio_packets.h): whatever *)
(* JointPID computes is zero or between the two.                           *)
OutputInRange ==
  [][handle /\ control.mode = "JointPID" =>
       \/ joint'.output = 0
       \/ joint'.output \in params.min_pwm .. params.max_pwm
       \/ -joint'.output \in params.min_pwm .. params.max_pwm]_vars
=============================================================================
