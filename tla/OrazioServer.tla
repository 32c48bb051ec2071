---------------------------- MODULE OrazioServer ----------------------------
(***************************************************************************)
(* The firmware's main loop and its timer interrupt (src/server/orazio.c). *)
(* Every tick the interrupt runs the joint controllers and the H-bridges;  *)
(* every comm_cycles ticks it raises comm_handle, and the main loop runs   *)
(* one cycle: drive control, communication (OrazioComm), watchdog.  The    *)
(* interrupt may come between any two steps of the main loop.              *)
(*                                                                         *)
(* The motors move together here: one joint command, one controller output *)
(* and one duty cycle stand for those of all joints.  An output is 0 or 1, *)
(* "does not drive" or "drives": what the controllers compute is left open.*)
(***************************************************************************)
EXTENDS OrazioComm

CONSTANTS
  TickMod,              \* range of tick_counter (uint8_t, 2^8)
  CountMod              \* range of watchdog_count (int16_t, 2^16)

ASSUME CounterConstants == {TickMod, CountMod} \subseteq Nat \ {0}

Modes == {"JointDisabled", "JointPWM", "JointPID", "Other"}

(* watchdog_cycles is as wide as watchdog_count; an arg of a JointControl  *)
(* packet is a mode.                                                       *)
ASSUME SystemRange ==
  /\ \A v \in {DefaultParams["ParamSystem"], SavedParams["ParamSystem"]} \cup
              {p.arg : p \in {q \in InPackets : q.type = "SystemParam"}} :
       v.watchdog_cycles \in 0 .. CountMod - 1 /\ v.comm_cycles \in Nat
  /\ \A p \in InPackets : p.type = "JointControl" => p.arg \in Modes

(* Fewer packets come in one cycle than rx_packets can count: 2^16 packets *)
(* in one cycle would look like none to the watchdog.                      *)
ASSUME CycleBound == UartMax < RxMod

VARIABLES
  pc,                   \* the next step of main
  tick_counter,
  comm_handle,
  output,               \* joint_controllers[i].output, written by both
  duty,                 \* what the H-bridges were last told
  watchdog_count,
  rx_packets_before,
  silent                \* history: cycles in a row without a packet while
                        \* the watchdog is on, up to CountMod

isrVars == <<tick_counter, comm_handle, output, duty>>
watchdogVars == <<watchdog_count, rx_packets_before, silent>>
vars == <<commVars, pc, isrVars, watchdogVars>>

comm_cycles == params["ParamSystem"].comm_cycles
watchdog_cycles == params["ParamSystem"].watchdog_cycles

(* main has run its initialisations and has just started the timer. *)
Init ==
  /\ CommInit
  /\ pc = "timerStarted"
  /\ tick_counter = 0
  /\ comm_handle = 0
  /\ output = 0
  /\ duty = 0
  /\ watchdog_count = 0
  /\ rx_packets_before = 0
  /\ silent = 0
----------------------------------------------------------------------------
(* The timer interrupt *)

(* What a controller may leave in its output: nothing in JointDisabled,    *)
(* anything in JointPWM and JointPID, the old value in an unknown mode.    *)
Outputs ==
  CASE joint_control.mode = "JointDisabled"            -> {0}
    [] joint_control.mode \in {"JointPWM", "JointPID"} -> {0, 1}
    [] OTHER                                           -> {output}

(* Mistake: the counter does not wrap around. *)
Decrement_NoWrap(n, mod) == n - 1

Decrement(n, mod) == (n + mod - 1) % mod

(* onTimerTick: jointsHandle, hBridgeApplyControl, and the tick counter,   *)
(* which is reloaded with the low byte of comm_cycles.                     *)
onTimerTick ==
  /\ \E o \in Outputs : output' = o /\ duty' = o
  /\ IF Decrement(tick_counter, TickMod) = 0
     THEN tick_counter' = comm_cycles % TickMod /\ comm_handle' = 1
     ELSE /\ tick_counter' = Decrement(tick_counter, TickMod)
          /\ UNCHANGED comm_handle
  /\ UNCHANGED <<commVars, pc, watchdogVars>>
----------------------------------------------------------------------------
(* The main loop *)

Goto(from, to) == pc = from /\ pc' = to

SetTickCounter ==
  /\ Goto("timerStarted", "counterSet")
  /\ tick_counter' = comm_cycles % TickMod
  /\ UNCHANGED <<commVars, comm_handle, output, duty, watchdogVars>>

SetWatchdog ==
  /\ Goto("counterSet", "idle")
  /\ watchdog_count' = watchdog_cycles % CountMod
  /\ UNCHANGED <<commVars, isrVars, rx_packets_before, silent>>

Poll ==
  /\ comm_handle = 1
  /\ Goto("idle", "driveControl")
  /\ UNCHANGED <<commVars, isrVars, watchdogVars>>

NewDriveCommand == last_drive_seq # drive_seq

(* Orazio_driveControl: a drive command with a new sequence number enables *)
(* the drive; an enabled drive writes the joints' speeds, then their mode. *)
driveControl ==
  /\ drive_enable' = (NewDriveCommand \/ drive_enable)
  /\ last_drive_seq' = drive_seq
  /\ IF drive_enable'
     THEN /\ Goto("driveControl", "driveMode")
          /\ joint_control' = [joint_control EXCEPT !.by = "drive"]
     ELSE /\ Goto("driveControl", "comm")
          /\ UNCHANGED joint_control
  /\ UNCHANGED <<comm_pc, rxVars, global_seq, tx, sent, params, eeprom,
                 drive_seq, last_command, isrVars, watchdogVars>>

driveMode ==
  /\ Goto("driveMode", "comm")
  /\ joint_control' = [joint_control EXCEPT !.mode = "JointPID"]
  /\ UNCHANGED <<comm_pc, rxVars, global_seq, tx, sent, params, eeprom,
                 driveVars, last_command, isrVars, watchdogVars>>

(* Orazio_commHandle, step by step *)
commBegin ==
  /\ pc = "comm"
  /\ CommBegin
  /\ UNCHANGED <<pc, isrVars, watchdogVars>>

commStep ==
  /\ pc = "comm"
  /\ CommStep
  /\ pc' = IF comm_pc' = "idle" THEN "watchdog" ELSE "comm"
  /\ UNCHANGED <<isrVars, watchdogVars>>

(* Mistake: the motors are disabled one cycle late. *)
Fires_Below(count) == count = CountMod - 1

Fires(count) == count = 0

(* The counter is decreased in a cycle without a packet and reset in any   *)
(* other; reaching zero disables the motors.                               *)
watchdog ==
  /\ pc = "watchdog"
  /\ IF watchdog_cycles = 0
     THEN /\ UNCHANGED watchdog_count
          /\ silent' = 0
          /\ pc' = "cycleEnd"
     ELSE LET idle == rx_packets_before = rx_packets
          IN /\ watchdog_count' = IF idle
                                  THEN Decrement(watchdog_count, CountMod)
                                  ELSE watchdog_cycles % CountMod
             /\ silent' = IF ~idle THEN 0
                          ELSE IF silent < CountMod THEN silent + 1
                          ELSE silent
             /\ pc' = IF Fires(watchdog_count') THEN "jointsDisable"
                                                  ELSE "cycleEnd"
  /\ UNCHANGED <<commVars, isrVars, rx_packets_before>>

(* Orazio_jointsDisable *)
jointsDisable ==
  /\ Goto("jointsDisable", "driveDisable")
  /\ joint_control' = [joint_control EXCEPT !.mode = "JointDisabled"]
  /\ output' = 0
  /\ UNCHANGED <<comm_pc, rxVars, global_seq, tx, sent, params, eeprom,
                 driveVars, last_command, tick_counter, comm_handle, duty,
                 watchdogVars>>

(* Mistake: the drive stays enabled. *)
driveDisable_Not ==
  /\ Goto("driveDisable", "cycleEnd")
  /\ last_command' = "stop"
  /\ UNCHANGED <<comm_pc, rxVars, global_seq, tx, sent, params, eeprom,
                 joint_control, driveVars, isrVars, watchdogVars>>

(* Orazio_driveDisable, with which the motors have been stopped *)
driveDisable ==
  /\ Goto("driveDisable", "cycleEnd")
  /\ drive_enable' = FALSE
  /\ last_command' = "stop"
  /\ UNCHANGED <<comm_pc, rxVars, global_seq, tx, sent, params, eeprom,
                 joint_control, drive_seq, last_drive_seq, isrVars,
                 watchdogVars>>

(* The end of the cycle; a tick that came meanwhile is forgotten. *)
cycleEnd ==
  /\ Goto("cycleEnd", "idle")
  /\ rx_packets_before' = rx_packets
  /\ comm_handle' = 0
  /\ UNCHANGED <<commVars, tick_counter, output, duty, watchdog_count, silent>>

(* Packets arrive at any time.  Only flushInputBuffers looks at them, and  *)
(* it reads until there are none, so nothing is lost by letting them all   *)
(* arrive just before it starts.                                           *)
receive ==
  /\ pc = "comm" /\ comm_pc = "idle"
  /\ \E p \in InPackets : Arrive(p)
  /\ UNCHANGED <<pc, isrVars, watchdogVars>>

Main == \/ SetTickCounter \/ SetWatchdog \/ Poll \/ driveControl \/ driveMode
        \/ commBegin \/ commStep
        \/ watchdog \/ jointsDisable \/ driveDisable \/ cycleEnd

Next == Main \/ onTimerTick \/ receive

(* The processor goes on executing main and the timer goes on ticking;     *)
(* nothing is assumed of the client.                                       *)
Fairness == WF_vars(Main) /\ WF_vars(onTimerTick)

Spec == Init /\ [][Next]_vars /\ Fairness
----------------------------------------------------------------------------
(* The state is well formed. *)
TypeOK ==
  /\ pc \in {"timerStarted", "counterSet", "idle", "driveControl",
             "driveMode", "comm", "watchdog", "jointsDisable",
             "driveDisable", "cycleEnd"}
  /\ comm_pc \in {"idle", "flush", "process"}
  /\ comm_pc # "idle" => pc = "comm"
  /\ Len(uart_rx) <= UartMax
  /\ Len(pending) <= PENDING_PACKETS_MAX
  /\ global_seq \in 0 .. SeqRange - 1
  /\ rx_packets \in 0 .. RxMod - 1
  /\ rx_packets_before \in 0 .. RxMod - 1
  /\ tx.size \in 0 .. BUFFER_SIZE_MAX
  /\ DOMAIN params = ParamTypes /\ DOMAIN eeprom = ParamTypes
  /\ joint_control \in [mode : Modes, by : {"client", "drive"}]
  /\ drive_enable \in BOOLEAN
  /\ last_command \in {"none", "joint", "drive", "stop"}
  /\ tick_counter \in 0 .. TickMod - 1
  /\ comm_handle \in {0, 1}
  /\ output \in {0, 1} /\ duty \in {0, 1}
  /\ watchdog_count \in 0 .. CountMod - 1
  /\ silent \in 0 .. CountMod

(* The watchdog catches every silence: when watchdog_cycles communication  *)
(* cycles have passed without a packet, the motors have been disabled and  *)
(* no control command has been obeyed since, whatever the parameters were  *)
(* before and however often the counter has wrapped around.                *)
SilenceDisables ==
  pc = "idle" /\ 0 < watchdog_cycles /\ silent >= watchdog_cycles
    => last_command = "stop"

(* After the watchdog has disabled the motors they stay disabled until a   *)
(* control packet is processed: neither the drive, nor new parameters, nor *)
(* a tick brings them back.                                                *)
DisabledStaysDisabled ==
  last_command = "stop" =>
    /\ joint_control.mode = "JointDisabled"
    /\ ~drive_enable
    /\ output = 0

(* If the client falls silent for good with the watchdog on, the motors    *)
(* stop for good.                                                          *)
SilenceStopsMotors ==
  <>[](uart_rx = <<>> /\ 0 < watchdog_cycles) => <>[](duty = 0)

(* The communication cycle comes round again and again. *)
CyclesGoOn == []<>(pc = "watchdog")

(* "disable the drive control of the joints and allows direct joint        *)
(* control" (orazio_drive.h, driveDisable): once a joint command has been  *)
(* processed, what it says stands until the next control packet.           *)
JointCommandStands == last_command = "joint" => joint_control.by = "client"
=============================================================================
