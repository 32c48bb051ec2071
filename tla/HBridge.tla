------------------------------- MODULE HBridge -------------------------------
(***************************************************************************)
(* The H-bridges (src/server/orazio_hbridge.c, orazio_hbridge_internal.c)  *)
(* down to the pins of the AVR boards.  The main program selects the type  *)
(* of the bridges at boot and whenever system parameters come, one write   *)
(* to a register or a variable after the other; the timer interrupt, which *)
(* tells every bridge its speed, may come between any two of them.         *)
(*                                                                         *)
(* A function of the source that only writes is the sequence of its        *)
(* writes: [do, on, arg], to a field of a bridge or of a pin.  Setting a    *)
(* pin reads and writes the register of its whole port, which is one step  *)
(* here: a level that the interrupt sets in between is lost only until the *)
(* next tick, and of the ticks during hBridgeInit nothing is claimed.      *)
(***************************************************************************)
EXTENDS Integers, Sequences

CONSTANTS
  Outputs,              \* what the controllers may give the two motors
  BootTypes             \* h_bridge_type at boot

Types == {"PWMDir", "DualPWM", "HalfCyclePWM"}

Motors == {1, 2}

(* At boot an unknown type would leave the bridges without operations. *)
ASSUME BridgeConstants ==
  /\ Outputs \subseteq [Motors -> -(2^15 - 1) .. 2^15 - 1]
  /\ BootTypes \subseteq Types

(* The pins that hBridgeInit gives the bridge of a motor. *)
Wiring ==
  [PWMDir       |-> <<[first |-> 3, second |-> 12], [first |-> 11, second |-> 13]>>,
   DualPWM      |-> <<[first |-> 3, second |-> 2],  [first |-> 5, second |-> 4]>>,
   HalfCyclePWM |-> <<[first |-> 2, second |-> 3],  [first |-> 4, second |-> 5]>>]

BridgePins == UNION {{Wiring[t][m].first, Wiring[t][m].second} :
                 t \in Types, m \in Motors}

VARIABLES
  bridge,               \* per motor: ops and the two pins of the union params
  pin,                  \* per pin: PWM enabled, duty cycle, direction, value
  todo,                 \* the writes that hBridgeInit has still to make
  timer,                \* the timer has been started
  applied               \* history: the speeds of the last tick, if there was
                        \* one since hBridgeInit was last called, else <<>>

bridgeVars == <<bridge, pin, todo, timer, applied>>
----------------------------------------------------------------------------
(* Writes *)

Put(field, on, arg) == [do |-> field, on |-> on, arg |-> arg]

Duty(p, v) == Put("duty", p, v % 256)
Enable(p, e) == Put("enabled", p, e)
Direction(p, d) == Put("dir", p, d)
Value(p, v) == Put("value", p, v)

(* PWM_enable clears the compare register, and the PWM is inverted: the    *)
(* duty cycle is 255.  It also sets the direction of the pin.              *)
Written(pins, w) ==
  IF w.do = "enabled"
  THEN [pins EXCEPT ![w.on].enabled = w.arg, ![w.on].duty = 255,
                    ![w.on].dir = IF w.arg THEN "Output" ELSE "Input"]
  ELSE [pins EXCEPT ![w.on][w.do] = w.arg]

PWMDir_fini(b) ==
  <<Enable(b.first, FALSE), Duty(b.first, 0),
    Direction(b.second, "Input"), Value(b.second, 0)>>

DualPWM_fini(b) == <<Enable(b.first, FALSE), Enable(b.second, FALSE)>>

HalfPWM_fini(b) ==
  <<Duty(b.first, 0), Value(b.second, 0), Enable(b.first, FALSE),
    Direction(b.second, "Input")>>

(* Mistake: a bridge is not given up before it becomes another. *)
Fini_Nothing(b) == <<>>

(* fini_fn of the operations the bridge has, if it has any *)
Fini(b) ==
  CASE b.ops = "PWMDir"       -> PWMDir_fini(b)
    [] b.ops = "DualPWM"      -> DualPWM_fini(b)
    [] b.ops = "HalfCyclePWM" -> HalfPWM_fini(b)
    [] OTHER                  -> <<>>

(* The end of HBridgePWMDir_init, HBridgeDualPWM_init, HBridgeHalfPWM_init *)
PWMDir_start(p) ==
  <<Direction(p.second, "Output"), Value(p.second, 0),
    Duty(p.first, 0), Enable(p.first, TRUE)>>

DualPWM_start(p) ==
  <<Duty(p.first, 0), Duty(p.second, 0),
    Enable(p.first, TRUE), Enable(p.second, TRUE)>>

HalfPWM_start(p) ==
  <<Duty(p.first, 0), Value(p.second, 1), Enable(p.first, TRUE),
    Direction(p.second, "Output")>>

Start(t, p) ==
  CASE t = "PWMDir"       -> PWMDir_start(p)
    [] t = "DualPWM"      -> DualPWM_start(p)
    [] t = "HalfCyclePWM" -> HalfPWM_start(p)

(* All three begin by giving up what the bridge was. *)
Setup(t, m) ==
  Fini(bridge[m]) \o <<Put("ops", m, t), Put("first", m, Wiring[t][m].first),
                       Put("second", m, Wiring[t][m].second)>>
                  \o Start(t, Wiring[t][m])

Clamp(speed) == IF speed > 255 THEN 255 ELSE IF speed < -255 THEN -255 ELSE speed

Norm(n) == IF n < 0 THEN -n ELSE n

(* The functions that set the speed: one write to the pins after the other. *)

(* Mistake: the speed is not limited to the eight bits of the PWM. *)
PWMDir_setSpeed_Unclamped(pins, b, speed) ==
  Written(Written(pins, Value(b.second, IF speed >= 0 THEN 0 ELSE 1)),
          Duty(b.first, Norm(speed)))

PWMDir_setSpeed(pins, b, speed) ==
  Written(Written(pins, Value(b.second, IF speed >= 0 THEN 0 ELSE 1)),
          Duty(b.first, Norm(Clamp(speed))))

DualPWM_setSpeed(pins, b, speed) ==
  IF speed >= 0
  THEN Written(Written(pins, Duty(b.first, Clamp(speed))), Duty(b.second, 0))
  ELSE Written(Written(pins, Duty(b.first, 0)), Duty(b.second, -Clamp(speed)))

(* Division truncates towards zero. *)
Half(n) == IF n < 0 THEN -((-n) \div 2) ELSE n \div 2

HalfPWM_setSpeed(pins, b, speed) ==
  Written(pins, Duty(b.first, 127 + Half(Clamp(speed))))

HBridge_setSpeed(pins, b, speed) ==
  CASE b.ops = "PWMDir"       -> PWMDir_setSpeed(pins, b, speed)
    [] b.ops = "DualPWM"      -> DualPWM_setSpeed(pins, b, speed)
    [] b.ops = "HalfCyclePWM" -> HalfPWM_setSpeed(pins, b, speed)
----------------------------------------------------------------------------
(* Orazio_hBridgeInit; an unknown type changes nothing. *)
hBridgeInit(t) ==
  /\ todo = <<>>
  /\ todo' = IF t \in Types THEN Setup(t, 1) \o Setup(t, 2) ELSE <<>>
  /\ applied' = <<>>
  /\ UNCHANGED <<bridge, pin, timer>>

(* DigIO_init has made all pins inputs with pull-up resistors. *)
BridgeInit ==
  /\ bridge = [m \in Motors |-> [ops |-> "none", first |-> 0, second |-> 0]]
  /\ pin = [p \in BridgePins |-> [enabled |-> FALSE, duty |-> 255, dir |-> "Input",
                            value |-> 1]]
  /\ todo = <<>>
  /\ timer = FALSE
  /\ applied = <<>>

Boot ==
  /\ ~timer
  /\ bridge[1].ops = "none"
  /\ \E t \in BootTypes : hBridgeInit(t)

InitStep ==
  /\ todo # <<>>
  /\ LET w == Head(todo)
     IN IF w.do \in {"ops", "first", "second"}
        THEN bridge' = [bridge EXCEPT ![w.on][w.do] = w.arg] /\ UNCHANGED pin
        ELSE pin' = Written(pin, w) /\ UNCHANGED bridge
  /\ todo' = Tail(todo)
  /\ UNCHANGED <<timer, applied>>

StartTimer ==
  /\ ~timer
  /\ bridge[1].ops # "none" /\ todo = <<>>
  /\ timer' = TRUE
  /\ UNCHANGED <<bridge, pin, todo, applied>>

(* System parameters have come, or are loaded, with any type. *)
paramSet ==
  /\ timer
  /\ \E t \in Types \cup {"unknown"} : hBridgeInit(t)

(* Orazio_hBridgeApplyControl, in the timer interrupt *)
hBridgeApplyControl ==
  /\ timer
  /\ \E output \in Outputs :
       /\ pin' = HBridge_setSpeed(HBridge_setSpeed(pin, bridge[1], output[1]),
                                 bridge[2], output[2])
       /\ applied' = IF todo = <<>> THEN output ELSE <<>>
  /\ UNCHANGED <<bridge, todo, timer>>

BridgeNext == Boot \/ InitStep \/ StartTimer \/ paramSet \/ hBridgeApplyControl

BridgeSpec == BridgeInit /\ [][BridgeNext]_bridgeVars
----------------------------------------------------------------------------
(* The state is well formed, and no tick finds a bridge without operations. *)
BridgeTypeOK ==
  /\ bridge \in [Motors -> [ops : Types \cup {"none"}, first : BridgePins \cup {0},
                            second : BridgePins \cup {0}]]
  /\ pin \in [BridgePins -> [enabled : BOOLEAN, duty : 0 .. 255,
                       dir : {"Input", "Output"}, value : {0, 1}]]
  /\ timer => \A m \in Motors : bridge[m].ops # "none"
  /\ applied \in {<<>>} \cup Outputs
  /\ timer \in BOOLEAN

(* What bridge b makes of its pins, -255 .. 255: the PWM pin and the        *)
(* direction, the difference of two PWM pins, or twice the distance of the *)
(* PWM pin from one half.                                                  *)
Drive(pins, b) ==
  LET first == pins[b.first]
      second == pins[b.second]
      Pwm(p) == p.enabled /\ p.dir = "Output"
      Level(p) == ~p.enabled /\ p.dir = "Output"
  IN CASE b.ops = "PWMDir" /\ Pwm(first) /\ Level(second) ->
            IF second.value = 0 THEN first.duty ELSE -first.duty
       [] b.ops = "DualPWM" /\ Pwm(first) /\ Pwm(second) ->
            first.duty - second.duty
       [] b.ops = "HalfCyclePWM" /\ Pwm(first) /\ Level(second)
            /\ second.value = 1 -> 2 * (first.duty - 127)
       [] OTHER -> 1000

(* The first tick after any change of type, and every one after it, makes  *)
(* both motors run as their controllers ask, up to the one step that the   *)
(* half-cycle bridge rounds away: with the saturation of all types, with   *)
(* the pins the types share, and with ticks in the middle of the change,   *)
(* when a bridge has its new operations and its old pins.                  *)
MotorsObey ==
  applied # <<>> =>
    \A m \in Motors : Norm(Drive(pin, bridge[m]) - Clamp(applied[m])) <= 1

(* Between calls of hBridgeInit exactly the pins of the two bridges are    *)
(* outputs, and exactly their PWM pins have PWM: no pin of an earlier type *)
(* goes on driving a motor.                                                *)
PinsMatchBridges ==
  timer /\ todo = <<>> =>
    LET used == UNION {{bridge[m].first, bridge[m].second} : m \in Motors}
        pwm == UNION {IF bridge[m].ops = "DualPWM"
                      THEN {bridge[m].first, bridge[m].second}
                      ELSE {bridge[m].first} : m \in Motors}
    IN /\ {p \in BridgePins : pin[p].dir = "Output"} = used
       /\ {p \in BridgePins : pin[p].enabled} = pwm
=============================================================================
