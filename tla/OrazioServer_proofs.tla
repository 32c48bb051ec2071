------------------------ MODULE OrazioServer_proofs ------------------------
(***************************************************************************)
(* What the watchdog of OrazioServer achieves, for every width of its      *)
(* counters, every set of packets and parameters, and the timer interrupt  *)
(* between any two steps of main.                                          *)
(*                                                                         *)
(* The properties are about what has happened; the code only compares      *)
(* counters.  IInv ties the two together: within a cycle rx_packets is     *)
(* ahead of rx_packets_before by the packets counted so far (CycleOK), so  *)
(* a cycle in which they agree was quiet, and in quiet cycles the watchdog *)
(* has counted down what silent has counted up (WatchOK) and no drive      *)
(* command is new (DriveOK).                                               *)
(***************************************************************************)
EXTENDS OrazioServer, SequenceTheorems, TLAPS

(* What the types of sequences and parameters are. *)
DataOK ==
  /\ uart_rx \in Seq(InPackets)
  /\ pending \in Seq(InPackets)
  /\ params = [t \in ParamTypes |-> params[t]]
  /\ eeprom = [t \in ParamTypes |-> eeprom[t]]
  /\ \A v \in {params["ParamSystem"], eeprom["ParamSystem"]} :
       v.watchdog_cycles \in 0 .. CountMod - 1 /\ v.comm_cycles \in Nat

Quiet == rx_packets = rx_packets_before

(* rx_packets when k packets of this cycle have been counted. *)
Ahead(k) == IF rx_packets_before + k < RxMod
            THEN rx_packets_before + k
            ELSE rx_packets_before + k - RxMod

(* Pending packets have been counted, and at most UartMax in a cycle. *)
CycleOK ==
  /\ comm_pc = "idle" => pending = <<>>
  /\ pc \in {"timerStarted", "counterSet", "idle", "driveControl",
             "driveMode"} => Quiet
  /\ pc = "comm" /\ comm_pc = "idle" => Quiet
  /\ comm_pc # "idle" =>
       \E k \in 0 .. UartMax :
         /\ rx_packets = Ahead(k)
         /\ comm_pc = "flush" => k + Len(uart_rx) <= UartMax
         /\ k = 0 => pending = <<>>

(* After "stop" no drive command waits to be obeyed, and while the watchdog *)
(* disables the motors no tick brings an output back.                      *)
StopOK ==
  /\ DisabledStaysDisabled
  /\ last_command = "stop" => drive_seq = last_drive_seq
  /\ pc = "driveDisable" => joint_control.mode = "JointDisabled" /\ output = 0

(* A drive command is new only in the cycle that brought it. *)
DriveOK ==
  /\ pc = "driveMode" => drive_enable
  /\ pc \in {"driveMode", "comm", "watchdog"} /\ Quiet =>
       drive_seq = last_drive_seq
  /\ pc \in {"jointsDisable", "driveDisable"} => drive_seq = last_drive_seq

(* The watchdog counts down what silent counts up. *)
WatchOK ==
  /\ pc \in {"timerStarted", "counterSet"} => silent = 0
  /\ (/\ 0 < watchdog_cycles
      /\ pc \notin {"timerStarted", "counterSet"}
      /\ pc \in {"comm", "watchdog"} => Quiet)
     => /\ silent < watchdog_cycles =>
             watchdog_count = watchdog_cycles - silent
        /\ silent >= watchdog_cycles
             /\ pc \notin {"jointsDisable", "driveDisable"} =>
             last_command = "stop"

IInv == TypeOK /\ DataOK /\ CycleOK /\ StopOK /\ DriveOK /\ WatchOK
----------------------------------------------------------------------------
(* The arithmetic of the counters *)

(* A number below the modulus is its own remainder. *)
LEMMA SmallMod == \A m \in Nat \ {0} : \A n \in 0 .. m - 1 : n % m = n
BY SMT

(* A remainder is less than its divisor.                                   *)
LEMMA ModRange == \A m \in Nat \ {0} : \A n \in Nat : n % m \in 0 .. m - 1
BY SMT

(* Counting up wraps around to zero. *)
LEMMA Increment ==
  ASSUME NEW m \in Nat \ {0}, NEW n \in 0 .. m - 1
  PROVE  (n + 1) % m = IF n + 1 < m THEN n + 1 ELSE 0
<1>1. CASE n + 1 < m
  BY <1>1, SmallMod
<1>2. CASE n + 1 = m
  <2>1. m % m = 0
    BY SMT
  <2> QED
    BY <1>2, <2>1
<1> QED
  BY <1>1, <1>2

(* Counting down wraps around to the largest number. *)
LEMMA Decrements ==
  ASSUME NEW m \in Nat \ {0}, NEW n \in 0 .. m - 1
  PROVE  Decrement(n, m) = IF n = 0 THEN m - 1 ELSE n - 1
<1>1. CASE n = 0
  <2>1. (m - 1) % m = m - 1
    BY SmallMod
  <2> QED
    BY <1>1, <2>1 DEF Decrement
<1>2. CASE n # 0
  <2> DEFINE k == n - 1
  <2>1. k \in 0 .. m - 1
    BY <1>2
  <2>2. (k + m) % m = k
    <3> HIDE DEF k
    <3>1. k % m = k
      BY <2>1, SmallMod
    <3> QED
      BY <2>1, <3>1, SMT
  <2>3. n + m - 1 = k + m
    OBVIOUS
  <2> QED
    BY <1>2, <2>2, <2>3 DEF Decrement
<1> QED
  BY <1>1, <1>2

(* The constants, as the steps below need them. *)
LEMMA Constants ==
  /\ {PBUFNO, PENDING_PACKETS_MAX, BUFFER_SIZE_MAX, UartMax} \subseteq Nat
  /\ {SeqRange, RxMod, TickMod, CountMod} \subseteq Nat \ {0}
  /\ UartMax < RxMod
BY CommConstants, CounterConstants, CycleBound

(* rx_packets stands still only in a cycle that has counted no packet.     *)
LEMMA AheadFacts ==
  ASSUME rx_packets_before \in 0 .. RxMod - 1, NEW k \in 0 .. UartMax
  PROVE  /\ Ahead(k) \in 0 .. RxMod - 1
         /\ Ahead(k) = rx_packets_before <=> k = 0
         /\ (Ahead(k) + 1) % RxMod = Ahead(k + 1)
<1>1. /\ RxMod \in Nat \ {0} /\ UartMax \in Nat /\ UartMax < RxMod
  BY Constants
<1>2. Ahead(k) \in 0 .. RxMod - 1
  BY <1>1 DEF Ahead
<1>3. (Ahead(k) + 1) % RxMod =
        IF Ahead(k) + 1 < RxMod THEN Ahead(k) + 1 ELSE 0
  BY <1>1, <1>2, Increment
<1>4. Ahead(k) = rx_packets_before <=> k = 0
  BY <1>1 DEF Ahead
<1>5. (IF Ahead(k) + 1 < RxMod THEN Ahead(k) + 1 ELSE 0) = Ahead(k + 1)
  BY <1>1 DEF Ahead
<1> QED
  BY <1>2, <1>3, <1>4, <1>5

(* The counters of the parameters in force. *)
LEMMA CyclesType ==
  ASSUME DataOK
  PROVE  /\ watchdog_cycles \in 0 .. CountMod - 1
         /\ comm_cycles \in Nat
         /\ watchdog_cycles \in Nat /\ watchdog_cycles < CountMod
         /\ watchdog_cycles % CountMod = watchdog_cycles
         /\ comm_cycles % TickMod \in 0 .. TickMod - 1
<1>1. watchdog_cycles \in 0 .. CountMod - 1 /\ comm_cycles \in Nat
  BY DEF DataOK, watchdog_cycles, comm_cycles
<1>2. CountMod \in Nat \ {0} /\ TickMod \in Nat \ {0}
  BY Constants
<1> HIDE DEF watchdog_cycles, comm_cycles
<1> QED
  BY <1>1, <1>2, SmallMod, ModRange

(* The transmit buffer never holds more than its capacity. *)
LEMMA SendType ==
  ASSUME NEW t, t.size \in 0 .. BUFFER_SIZE_MAX,
         NEW p, p.type \in DOMAIN Size
  PROVE  Send(t, p).size \in 0 .. BUFFER_SIZE_MAX
<1>1. Size[p.type] \in Nat
  BY DEF Size
<1>2. BUFFER_SIZE_MAX \in Nat
  BY Constants
<1> QED
  BY <1>1, <1>2 DEF Send, Fits
----------------------------------------------------------------------------
(* The initial state and the steps of main outside of commHandle *)

LEMMA InitIInv == Init => IInv
<1> SUFFICES ASSUME Init PROVE IInv
  OBVIOUS
<1> USE DEF Init, CommInit
<1>1. TypeOK
  <2>1. DOMAIN params = ParamTypes /\ DOMAIN eeprom = ParamTypes
    BY CommConstants
  <2>2. joint_control \in [mode : Modes, by : {"client", "drive"}]
    BY DEF Modes
  <2>3. /\ Len(uart_rx) <= UartMax /\ Len(pending) <= PENDING_PACKETS_MAX
        /\ global_seq \in 0 .. SeqRange - 1
        /\ rx_packets \in 0 .. RxMod - 1 /\ rx_packets_before \in 0 .. RxMod - 1
        /\ tx.size \in 0 .. BUFFER_SIZE_MAX
        /\ tick_counter \in 0 .. TickMod - 1
        /\ watchdog_count \in 0 .. CountMod - 1 /\ silent \in 0 .. CountMod
    BY Constants DEF EmptyTx
  <2> QED
    BY <2>1, <2>2, <2>3 DEF TypeOK
<1>2. DataOK
  <2>1. \A v \in {params["ParamSystem"], eeprom["ParamSystem"]} :
          v.watchdog_cycles \in 0 .. CountMod - 1 /\ v.comm_cycles \in Nat
    BY SystemRange
  <2> QED
    BY <2>1, CommConstants DEF DataOK
<1>3. CycleOK
  BY DEF CycleOK, Quiet
<1>4. StopOK /\ DriveOK
  BY DEF StopOK, DisabledStaysDisabled, DriveOK
<1>5. WatchOK
  BY DEF WatchOK
<1> QED
  BY <1>1, <1>2, <1>3, <1>4, <1>5 DEF IInv

(* A stuttering step, and what steps that do not communicate leave alone. *)
LEMMA StutterIInv ==
  ASSUME IInv, UNCHANGED vars
  PROVE  IInv'
BY DEF IInv, vars, commVars, isrVars, watchdogVars, TypeOK, DataOK, CycleOK,
       Quiet, Ahead, StopOK, DisabledStaysDisabled, DriveOK, WatchOK,
       watchdog_cycles, comm_cycles

(* A step that leaves what carries the parameters alone keeps them.        *)
LEMMA DataUnchanged ==
  ASSUME DataOK, UNCHANGED <<uart_rx, pending, params, eeprom>>
  PROVE  DataOK' /\ UNCHANGED <<watchdog_cycles, comm_cycles>>
BY DEF DataOK, watchdog_cycles, comm_cycles

(* The controllers and the tick counter; a disabled joint gets no output.  *)
LEMMA TickIInv ==
  ASSUME IInv, onTimerTick
  PROVE  IInv'
<1> USE DEF IInv
<1>1. UNCHANGED <<commVars, pc, watchdogVars>>
  BY DEF onTimerTick
<1>2. PICK o \in Outputs : output' = o /\ duty' = o
  BY DEF onTimerTick
<1>3. o \in {0, 1} /\ (joint_control.mode = "JointDisabled" => o = 0)
  BY <1>2 DEF Outputs, TypeOK
<1>4. tick_counter' \in 0 .. TickMod - 1 /\ comm_handle' \in {0, 1}
  <2>1. TickMod \in Nat \ {0} /\ tick_counter \in 0 .. TickMod - 1
    BY Constants DEF TypeOK
  <2>2. Decrement(tick_counter, TickMod) \in 0 .. TickMod - 1
    BY <2>1, Decrements
  <2>3. comm_cycles % TickMod \in 0 .. TickMod - 1
    BY CyclesType
  <2> QED
    BY <2>2, <2>3 DEF onTimerTick, TypeOK
<1>5. TypeOK'
  BY <1>1, <1>2, <1>3, <1>4 DEF TypeOK, commVars, watchdogVars
<1>6. DataOK' /\ UNCHANGED watchdog_cycles
  BY <1>1, DataUnchanged DEF commVars
<1>7. CycleOK'
  BY <1>1 DEF CycleOK, Quiet, Ahead, commVars, watchdogVars
<1>8. StopOK' /\ DriveOK'
  BY <1>1, <1>2, <1>3 DEF StopOK, DisabledStaysDisabled, DriveOK, Quiet,
                          commVars, watchdogVars
<1>9. WatchOK'
  BY <1>1, <1>6 DEF WatchOK, Quiet, commVars, watchdogVars
<1> QED
  BY <1>5, <1>6, <1>7, <1>8, <1>9

(* The rest of the initialisation loads the counters. *)
LEMMA StartIInv ==
  ASSUME IInv, SetTickCounter \/ SetWatchdog
  PROVE  IInv'
<1> USE DEF IInv
<1>1. UNCHANGED <<commVars, output, duty, comm_handle, rx_packets_before,
                  silent>>
  BY DEF SetTickCounter, SetWatchdog, isrVars, watchdogVars
<1>2. /\ pc \in {"timerStarted", "counterSet"}
      /\ pc' \in {"counterSet", "idle"}
      /\ pc' = "idle" => watchdog_count' = watchdog_cycles
  BY CyclesType DEF SetTickCounter, SetWatchdog, Goto
<1>3. tick_counter' \in 0 .. TickMod - 1 /\ watchdog_count' \in 0 .. CountMod - 1
  BY CyclesType DEF SetTickCounter, SetWatchdog, isrVars, watchdogVars, TypeOK
<1>4. TypeOK'
  BY <1>1, <1>2, <1>3 DEF TypeOK, commVars
<1>5. DataOK' /\ UNCHANGED watchdog_cycles
  BY <1>1, DataUnchanged DEF commVars
<1>6. CycleOK'
  BY <1>1, <1>2 DEF CycleOK, Quiet, Ahead, commVars, TypeOK
<1>7. StopOK' /\ DriveOK'
  BY <1>1, <1>2 DEF StopOK, DisabledStaysDisabled, DriveOK, Quiet, commVars
<1>8. WatchOK'
  <2>1. silent = 0
    BY <1>2 DEF WatchOK
  <2> QED
    BY <1>1, <1>2, <1>5, <2>1, CyclesType DEF WatchOK, Quiet
<1> QED
  BY <1>4, <1>5, <1>6, <1>7, <1>8

(* Poll and driveMode only move on; the mode is set only by an enabled     *)
(* drive, which a stopped robot has not.                                   *)
LEMMA MoveOnIInv ==
  ASSUME IInv, Poll \/ driveMode
  PROVE  IInv'
<1> USE DEF IInv
<1>1. /\ UNCHANGED <<comm_pc, rxVars, global_seq, tx, sent, params, eeprom,
                     driveVars, last_command, isrVars, watchdogVars>>
      /\ \/ pc = "idle" /\ pc' = "driveControl" /\ UNCHANGED joint_control
         \/ /\ pc = "driveMode" /\ pc' = "comm"
            /\ joint_control' = [joint_control EXCEPT !.mode = "JointPID"]
  BY DEF Poll, driveMode, Goto, commVars, rxVars, driveVars
<1>2. comm_pc = "idle" /\ pending = <<>> /\ Quiet
  <2>1. comm_pc = "idle"
    BY <1>1 DEF TypeOK
  <2> QED
    BY <1>1, <2>1 DEF CycleOK
<1>3. TypeOK'
  <2>1. joint_control' \in [mode : Modes, by : {"client", "drive"}]
    BY <1>1 DEF TypeOK, Modes
  <2> QED
    BY <1>1, <1>2, <2>1 DEF TypeOK, rxVars, driveVars, isrVars, watchdogVars
<1>4. DataOK' /\ UNCHANGED watchdog_cycles
  BY <1>1, DataUnchanged DEF rxVars
<1>5. CycleOK'
  BY <1>1, <1>2 DEF CycleOK, Quiet, rxVars, watchdogVars
<1>6. StopOK' /\ DriveOK'
  BY <1>1 DEF StopOK, DisabledStaysDisabled, DriveOK, Quiet, rxVars,
              driveVars, isrVars, watchdogVars
<1>7. WatchOK'
  BY <1>1, <1>4, <1>2 DEF WatchOK, Quiet, rxVars, watchdogVars, CycleOK
<1> QED
  BY <1>3, <1>4, <1>5, <1>6, <1>7

(* Only a new drive command enables the drive, and then the robot is not   *)
(* stopped.                                                                *)
LEMMA DriveControlIInv ==
  ASSUME IInv, driveControl
  PROVE  IInv'
<1> USE DEF IInv
<1>1. /\ UNCHANGED <<comm_pc, rxVars, global_seq, tx, sent, params, eeprom,
                     drive_seq, last_command, isrVars, watchdogVars>>
      /\ pc = "driveControl"
      /\ drive_enable' = (NewDriveCommand \/ drive_enable)
      /\ last_drive_seq' = drive_seq
  BY DEF driveControl, Goto
<1>2. \/ pc' = "driveMode" /\ drive_enable'
         /\ joint_control' = [joint_control EXCEPT !.by = "drive"]
      \/ pc' = "comm" /\ UNCHANGED joint_control
  BY DEF driveControl, Goto
<1>3. comm_pc = "idle" /\ pending = <<>> /\ Quiet
  <2>1. comm_pc = "idle"
    BY <1>1 DEF TypeOK
  <2> QED
    BY <1>1, <2>1 DEF CycleOK
<1>4. drive_enable' \in BOOLEAN
  BY <1>1 DEF NewDriveCommand
<1>5. joint_control' \in [mode : Modes, by : {"client", "drive"}]
      /\ joint_control'.mode = joint_control.mode
  BY <1>2 DEF TypeOK
<1>6. TypeOK'
  BY <1>1, <1>2, <1>3, <1>4, <1>5 DEF TypeOK, rxVars, isrVars, watchdogVars
<1>7. DataOK' /\ UNCHANGED watchdog_cycles
  BY <1>1, DataUnchanged DEF rxVars
<1>8. CycleOK'
  BY <1>1, <1>2, <1>3 DEF CycleOK, Quiet, rxVars, watchdogVars
<1>9. StopOK'
  <2>1. pc' # "driveDisable"
    BY <1>2
  <2> QED
    BY <1>1, <1>5, <2>1 DEF StopOK, DisabledStaysDisabled, NewDriveCommand,
                            isrVars
<1>10. DriveOK'
  BY <1>1, <1>2 DEF DriveOK
<1>11. WatchOK'
  BY <1>1, <1>2, <1>7 DEF WatchOK, watchdogVars
<1> QED
  BY <1>6, <1>7, <1>8, <1>9, <1>10, <1>11
----------------------------------------------------------------------------
(* commHandle *)

(* A packet arrives before commHandle looks at the UART. *)
LEMMA ReceiveIInv ==
  ASSUME IInv, receive
  PROVE  IInv'
<1> USE DEF IInv
<1>1. PICK p \in InPackets : Arrive(p)
  BY DEF receive
<1>2. /\ pc = "comm" /\ comm_pc = "idle"
      /\ UNCHANGED <<pc, isrVars, watchdogVars, comm_pc, pending, global_seq,
                     rx_packets, tx, sent, params, eeprom, commandVars>>
      /\ Len(uart_rx) < UartMax /\ uart_rx' = Append(uart_rx, p)
  BY <1>1 DEF receive, Arrive
<1>3. uart_rx' \in Seq(InPackets) /\ Len(uart_rx') <= UartMax
  <2>1. uart_rx \in Seq(InPackets)
    BY DEF DataOK
  <2>2. Len(uart_rx') = Len(uart_rx) + 1 /\ uart_rx' \in Seq(InPackets)
    BY <1>2, <2>1, AppendProperties
  <2>3. UartMax \in Nat
    BY Constants
  <2> QED
    BY <1>2, <2>1, <2>2, <2>3
<1>4. TypeOK'
  BY <1>2, <1>3 DEF TypeOK, isrVars, watchdogVars, commandVars, driveVars
<1>5. DataOK' /\ UNCHANGED watchdog_cycles
  BY <1>2, <1>3 DEF DataOK, watchdog_cycles
<1>6. CycleOK'
  BY <1>2 DEF CycleOK, Quiet, watchdogVars
<1>7. StopOK' /\ DriveOK'
  BY <1>2 DEF StopOK, DisabledStaysDisabled, DriveOK, Quiet, isrVars,
              watchdogVars, commandVars, driveVars
<1>8. WatchOK'
  BY <1>2, <1>5 DEF WatchOK, Quiet, watchdogVars, commandVars
<1> QED
  BY <1>4, <1>5, <1>6, <1>7, <1>8

(* The invariant is kept when a cycle of the communication begins,         *)
LEMMA CommBeginIInv ==
  ASSUME IInv, commBegin
  PROVE  IInv'
<1> USE DEF IInv
<1>1. /\ pc = "comm" /\ comm_pc = "idle" /\ comm_pc' = "flush"
      /\ UNCHANGED <<pc, isrVars, watchdogVars, rxVars, global_seq, tx, params,
                     eeprom, commandVars>>
  <2>1. pc = "comm" /\ UNCHANGED <<pc, isrVars, watchdogVars>>
    BY DEF commBegin
  <2> QED
    BY <2>1 DEF commBegin, CommBegin
<1>2. TypeOK'
  BY <1>1 DEF TypeOK, isrVars, watchdogVars, rxVars, commandVars, driveVars
<1>3. DataOK' /\ UNCHANGED watchdog_cycles
  BY <1>1, DataUnchanged DEF rxVars
<1>4. CycleOK'
  <2>1. Quiet /\ pending = <<>>
    BY <1>1 DEF CycleOK
  <2>2. /\ 0 \in 0 .. UartMax /\ rx_packets_before \in 0 .. RxMod - 1
        /\ Len(uart_rx) <= UartMax /\ Len(uart_rx) \in Nat
    BY Constants DEF TypeOK, DataOK
  <2>3. rx_packets' = Ahead(0)' /\ pending' = <<>>
        /\ 0 + Len(uart_rx') <= UartMax
    BY <1>1, <2>1, <2>2, Constants DEF Quiet, Ahead, rxVars, watchdogVars
  <2> QED
    BY <1>1, <2>2, <2>3 DEF CycleOK
<1>5. StopOK' /\ DriveOK'
  BY <1>1 DEF StopOK, DisabledStaysDisabled, DriveOK, Quiet, isrVars, rxVars,
              watchdogVars, commandVars, driveVars
<1>6. WatchOK'
  BY <1>1, <1>3 DEF WatchOK, Quiet, watchdogVars, rxVars, commandVars
<1> QED
  BY <1>2, <1>3, <1>4, <1>5, <1>6

(* What the steps of commHandle do to the interrupt's and the watchdog's   *)
(* variables and to pc.                                                    *)
LEMMA CommStepMoves ==
  ASSUME TypeOK, commStep
  PROVE  /\ pc = "comm" /\ UNCHANGED <<isrVars, watchdogVars>>
         /\ pc' = IF comm_pc' = "idle" THEN "watchdog" ELSE "comm"
BY DEF commStep

(* A counted packet may wait for its handler; what is not counted is gone. *)
LEMMA FlushOneIInv ==
  ASSUME IInv, commStep, FlushOne
  PROVE  IInv'
<1> USE DEF IInv
<1> DEFINE p == Head(uart_rx)
<1>1. /\ comm_pc = "flush" /\ comm_pc' = "flush" /\ uart_rx # <<>>
      /\ uart_rx' = Tail(uart_rx)
      /\ UNCHANGED <<global_seq, tx, sent, params, eeprom, commandVars>>
  BY DEF FlushOne
<1>2. /\ pc = "comm" /\ pc' = "comm" /\ UNCHANGED <<isrVars, watchdogVars>>
  BY <1>1, CommStepMoves
<1>3. \/ /\ rx_packets' = (rx_packets + 1) % RxMod
         /\ \/ UNCHANGED pending
            \/ /\ pending' = Append(pending, p)
               /\ Len(pending) < PENDING_PACKETS_MAX
      \/ UNCHANGED <<rx_packets, pending>>
  BY DEF FlushOne
<1>4. /\ uart_rx' \in Seq(InPackets) /\ p \in InPackets
      /\ Len(uart_rx') = Len(uart_rx) - 1 /\ Len(uart_rx) \in Nat
  BY <1>1, HeadTailProperties, EmptySeq DEF DataOK
<1>5. pending' \in Seq(InPackets) /\ Len(pending') <= PENDING_PACKETS_MAX
  <2>1. pending \in Seq(InPackets) /\ Len(pending) <= PENDING_PACKETS_MAX
    BY DEF DataOK, TypeOK
  <2>2. CASE pending' = Append(pending, p) /\ Len(pending) < PENDING_PACKETS_MAX
    <3>1. Len(pending') = Len(pending) + 1 /\ pending' \in Seq(InPackets)
      BY <1>4, <2>1, <2>2, AppendProperties
    <3>2. PENDING_PACKETS_MAX \in Nat
      BY Constants
    <3> QED
      BY <2>1, <2>2, <3>1, <3>2
  <2> QED
    BY <1>3, <2>1, <2>2
<1>6. PICK k \in 0 .. UartMax :
        /\ rx_packets = Ahead(k)
        /\ k + Len(uart_rx) <= UartMax
        /\ k = 0 => pending = <<>>
  BY <1>1 DEF CycleOK
<1>7. /\ rx_packets_before \in 0 .. RxMod - 1
      /\ UartMax \in Nat
      /\ Len(uart_rx) \in Nat \ {0}
  BY <1>1, Constants, EmptySeq DEF TypeOK, DataOK
<1>8. /\ k + 1 \in 0 .. UartMax /\ k + 1 + Len(uart_rx') <= UartMax
      /\ k + Len(uart_rx') <= UartMax
  BY <1>4, <1>6, <1>7
<1>9. UNCHANGED rx_packets_before
  BY <1>2 DEF watchdogVars
<1>10. CASE rx_packets' = (rx_packets + 1) % RxMod
  <2>1. rx_packets' = Ahead(k + 1)
    BY <1>6, <1>7, <1>10, AheadFacts
  <2>2. rx_packets' \in 0 .. RxMod - 1 /\ ~Quiet'
    BY <1>7, <1>8, <1>9, <2>1, AheadFacts DEF Quiet
  <2>3. TypeOK'
    BY <1>1, <1>2, <1>4, <1>5, <1>7, <2>2
       DEF TypeOK, isrVars, watchdogVars, commandVars, driveVars
  <2>4. CycleOK'
    <3>1. rx_packets' = Ahead(k + 1)'
      BY <1>9, <2>1 DEF Ahead
    <3> QED
      BY <1>1, <1>2, <1>6, <1>8, <3>1 DEF CycleOK
  <2>5. DriveOK' /\ WatchOK'
    BY <1>2, <2>2 DEF DriveOK, WatchOK
  <2>6. DataOK'
    BY <1>1, <1>4, <1>5 DEF DataOK
  <2>7. StopOK'
    BY <1>1, <1>2 DEF StopOK, DisabledStaysDisabled, isrVars, commandVars,
                      driveVars
  <2> QED
    BY <2>3, <2>4, <2>5, <2>6, <2>7
<1>11. CASE UNCHANGED <<rx_packets, pending>>
  <2>1. TypeOK'
    BY <1>1, <1>2, <1>4, <1>7, <1>11
       DEF TypeOK, isrVars, watchdogVars, commandVars, driveVars
  <2>2. CycleOK'
    <3>1. rx_packets' = Ahead(k)'
      BY <1>6, <1>9, <1>11 DEF Ahead
    <3> QED
      BY <1>1, <1>2, <1>6, <1>8, <1>11, <3>1 DEF CycleOK
  <2>3. DataOK' /\ UNCHANGED watchdog_cycles
    BY <1>1, <1>4, <1>5 DEF DataOK, watchdog_cycles
  <2>4. StopOK' /\ DriveOK'
    BY <1>1, <1>2, <1>9, <1>11
       DEF StopOK, DisabledStaysDisabled, DriveOK, Quiet, isrVars, commandVars,
           driveVars
  <2>5. WatchOK'
    BY <1>1, <1>2, <1>11, <2>3
       DEF WatchOK, Quiet, watchdogVars, commandVars
  <2> QED
    BY <2>1, <2>2, <2>3, <2>4, <2>5
<1> QED
  BY <1>3, <1>10, <1>11

(* when it ends,                                                           *)
LEMMA FlushEndIInv ==
  ASSUME IInv, commStep, FlushEnd
  PROVE  IInv'
<1> USE DEF IInv
<1>1. /\ comm_pc = "flush" /\ comm_pc' = "process"
      /\ UNCHANGED <<rxVars, tx, sent, params, eeprom, commandVars>>
      /\ global_seq' = NextSeq
  BY DEF FlushEnd
<1>2. /\ pc = "comm" /\ pc' = "comm" /\ UNCHANGED <<isrVars, watchdogVars>>
  BY <1>1, CommStepMoves
<1>3. global_seq' \in 0 .. SeqRange - 1
  <2>1. global_seq + 1 \in Nat /\ SeqRange \in Nat \ {0}
    BY Constants DEF TypeOK
  <2> QED
    BY <1>1, <2>1, ModRange DEF NextSeq
<1>4. TypeOK'
  BY <1>1, <1>2, <1>3 DEF TypeOK, isrVars, watchdogVars, rxVars, commandVars,
                          driveVars
<1>5. DataOK' /\ UNCHANGED watchdog_cycles
  BY <1>1, DataUnchanged DEF rxVars
<1>6. CycleOK'
  BY <1>1, <1>2 DEF CycleOK, Quiet, Ahead, rxVars, watchdogVars
<1>7. StopOK' /\ DriveOK'
  BY <1>1, <1>2 DEF StopOK, DisabledStaysDisabled, DriveOK, Quiet, isrVars,
                    rxVars, watchdogVars, commandVars, driveVars
<1>8. WatchOK'
  BY <1>1, <1>2, <1>5 DEF WatchOK, Quiet, watchdogVars, rxVars, commandVars
<1> QED
  BY <1>4, <1>5, <1>6, <1>7, <1>8

(* The end of the epoch changes only the transmit buffer. *)
LEMMA FinishEpochIInv ==
  ASSUME IInv, commStep, FinishEpoch
  PROVE  IInv'
<1> USE DEF IInv
<1>1. /\ comm_pc = "process" /\ comm_pc' = "idle" /\ pending = <<>>
      /\ tx' = EmptyTx
      /\ UNCHANGED <<rxVars, global_seq, params, eeprom, commandVars>>
  BY DEF FinishEpoch
<1>2. /\ pc = "comm" /\ pc' = "watchdog" /\ UNCHANGED <<isrVars, watchdogVars>>
  BY <1>1, CommStepMoves
<1>3. tx'.size \in 0 .. BUFFER_SIZE_MAX
  BY <1>1, Constants DEF EmptyTx
<1>4. TypeOK'
  BY <1>1, <1>2, <1>3 DEF TypeOK, isrVars, watchdogVars, rxVars, commandVars,
                          driveVars
<1>5. DataOK' /\ UNCHANGED watchdog_cycles
  BY <1>1, DataUnchanged DEF rxVars
<1>6. CycleOK'
  BY <1>1, <1>2 DEF CycleOK, rxVars
<1>7. StopOK' /\ DriveOK'
  BY <1>1, <1>2 DEF StopOK, DisabledStaysDisabled, DriveOK, Quiet, isrVars,
                    rxVars, watchdogVars, commandVars, driveVars
<1>8. WatchOK'
  BY <1>1, <1>2, <1>5 DEF WatchOK, Quiet, watchdogVars, rxVars, commandVars
<1> QED
  BY <1>4, <1>5, <1>6, <1>7, <1>8

(* What a handler may change: commands by a control packet, which starts   *)
(* the robot; drive and parameters by a parameter packet, which does not.  *)
Handled ==
  /\ tx'.size \in 0 .. BUFFER_SIZE_MAX
  /\ params' = [t \in ParamTypes |-> params'[t]]
  /\ eeprom' = [t \in ParamTypes |-> eeprom'[t]]
  /\ \A v \in {params'["ParamSystem"], eeprom'["ParamSystem"]} :
       v.watchdog_cycles \in 0 .. CountMod - 1 /\ v.comm_cycles \in Nat
  /\ joint_control' \in [mode : Modes, by : {"client", "drive"}]
  /\ drive_enable' \in BOOLEAN
  /\ \/ last_command' \in {"joint", "drive"}
     \/ /\ UNCHANGED <<joint_control, drive_enable, drive_seq, last_command>>
        /\ last_drive_seq' \in {drive_seq, last_drive_seq}

(* What a system packet carries fits the registers.                        *)
LEMMA SystemType ==
  ASSUME NEW p \in InPackets, p.type = "SystemParam"
  PROVE  p.arg.watchdog_cycles \in 0 .. CountMod - 1 /\ p.arg.comm_cycles \in Nat
BY SystemRange

(* A response is sent within the transmit buffer,                          *)
LEMMA ResponseType ==
  ASSUME NEW t, t.size \in 0 .. BUFFER_SIZE_MAX, NEW p, NEW r
  PROVE  Send(t, Response(p, r)).size \in 0 .. BUFFER_SIZE_MAX
<1>1. Response(p, r).type \in DOMAIN Size
  BY DEF Response, Size
<1> QED
  BY <1>1, SendType

(* and so is a parameter packet.                                           *)
LEMMA PlainType ==
  ASSUME NEW t, t.size \in 0 .. BUFFER_SIZE_MAX,
         NEW type \in {"SystemParam", "JointParam", "DriveParam"}
  PROVE  Send(t, Plain(type)).size \in 0 .. BUFFER_SIZE_MAX
<1>1. Plain(type).type \in DOMAIN Size
  BY DEF Plain, Size
<1> QED
  BY <1>1, SendType

(* The handlers of the control packets keep the invariant,                 *)
LEMMA ControlHandled ==
  ASSUME TypeOK, DataOK, NEW p \in InPackets,
         handleJointControl(p) \/ handleDriveControl(p)
  PROVE  Handled
<1>1. tx.size \in 0 .. BUFFER_SIZE_MAX
  BY DEF TypeOK
<1>2. tx' = Send(tx, Response(p, "Success"))
      /\ UNCHANGED <<params, eeprom>>
  BY DEF handleJointControl, handleDriveControl
<1>3. tx'.size \in 0 .. BUFFER_SIZE_MAX
  BY <1>1, <1>2, ResponseType
<1>4. /\ joint_control' \in [mode : Modes, by : {"client", "drive"}]
      /\ drive_enable' \in BOOLEAN
      /\ last_command' \in {"joint", "drive"}
  <2>1. CASE handleJointControl(p)
    <3>1. p.arg \in Modes
      BY <2>1, SystemRange DEF handleJointControl
    <3> QED
      BY <2>1, <3>1 DEF handleJointControl
  <2>2. CASE handleDriveControl(p)
    BY <2>2 DEF handleDriveControl, TypeOK
  <2> QED
    BY <2>1, <2>2
<1> QED
  BY <1>2, <1>3, <1>4 DEF Handled, DataOK

(* What paramSet leaves alone. *)
LEMMA ParamSetEffect ==
  ASSUME NEW t, paramSet(t)
  PROVE  /\ UNCHANGED <<joint_control, drive_enable, drive_seq, last_command>>
         /\ last_drive_seq' \in {drive_seq, last_drive_seq}
BY DEF paramSet, driveInit, driveVars

(* those of the parameter packets,                                         *)
LEMMA ParamHandled ==
  ASSUME TypeOK, DataOK, NEW p \in InPackets,
         NEW type, NEW t \in ParamTypes, handleParam(p, type, t),
         <<type, t>> \in {<<"SystemParam", "ParamSystem">>,
                         <<"JointParam", "ParamJoints">>,
                         <<"DriveParam", "ParamDrive">>}
  PROVE  Handled
<1>1. /\ params' = [params EXCEPT ![t] = p.arg] /\ UNCHANGED eeprom
      /\ paramSet(t) /\ p.type = type
      /\ tx' = Send(Send(tx, Plain(type)), Response(p, "Success"))
  BY DEF handleParam
<1>2. tx'.size \in 0 .. BUFFER_SIZE_MAX
  <2>1. type \in {"SystemParam", "JointParam", "DriveParam"}
    OBVIOUS
  <2>2. Send(tx, Plain(type)).size \in 0 .. BUFFER_SIZE_MAX
    BY <2>1, PlainType DEF TypeOK
  <2> QED
    BY <1>1, <2>2, ResponseType
<1>3. params' = [u \in ParamTypes |-> params'[u]]
  BY <1>1 DEF DataOK
<1>4. \/ params'["ParamSystem"] = params["ParamSystem"]
      \/ type = "SystemParam" /\ params'["ParamSystem"] = p.arg
  BY <1>1 DEF DataOK, ParamTypes
<1>5. /\ params'["ParamSystem"].watchdog_cycles \in 0 .. CountMod - 1
      /\ params'["ParamSystem"].comm_cycles \in Nat
  <2>1. CASE params'["ParamSystem"] = params["ParamSystem"]
    BY <2>1 DEF DataOK
  <2>2. CASE type = "SystemParam" /\ params'["ParamSystem"] = p.arg
    BY <1>1, <2>2, SystemType
  <2> QED
    BY <1>4, <2>1, <2>2
<1>6. /\ UNCHANGED <<joint_control, drive_enable, drive_seq, last_command>>
      /\ last_drive_seq' \in {drive_seq, last_drive_seq}
  BY <1>1, ParamSetEffect
<1> QED
  BY <1>1, <1>2, <1>3, <1>5, <1>6 DEF Handled, DataOK, TypeOK

(* and that of the parameter control packets.                              *)
LEMMA ParamControlHandled ==
  ASSUME TypeOK, DataOK, NEW p \in InPackets, handleParamControl(p)
  PROVE  Handled
<1> DEFINE t == p.arg.param_type
           known == t \in ParamTypes
           reply == IF known THEN Send(tx, ParamPacket(t)) ELSE tx
<1>1. PICK r : tx' = Send(reply, Response(p, r))
  BY DEF handleParamControl
<1>2. reply.size \in 0 .. BUFFER_SIZE_MAX
  <2>1. tx.size \in 0 .. BUFFER_SIZE_MAX
    BY DEF TypeOK
  <2>2. known => Send(tx, ParamPacket(t)).size \in 0 .. BUFFER_SIZE_MAX
    <3> SUFFICES ASSUME known
                 PROVE  Send(tx, ParamPacket(t)).size \in 0 .. BUFFER_SIZE_MAX
      OBVIOUS
    <3>1. PICK type \in {"SystemParam", "JointParam", "DriveParam"} :
            ParamPacket(t) = Plain(type)
      BY DEF ParamPacket, ParamTypes
    <3> QED
      BY <2>1, <3>1, PlainType
  <2> QED
    BY <2>1, <2>2
<1>3. tx'.size \in 0 .. BUFFER_SIZE_MAX
  <2> HIDE DEF reply
  <2> QED
    BY <1>1, <1>2, ResponseType
<1>4. \/ /\ known /\ params' = [params EXCEPT ![t] = eeprom[t]]
         /\ paramSet(t)
      \/ UNCHANGED <<params, commandVars>>
  BY DEF handleParamControl
<1>5. \/ UNCHANGED eeprom
      \/ known /\ eeprom' = [eeprom EXCEPT ![t] = params[t]]
  BY DEF handleParamControl
<1>6. /\ params' = [u \in ParamTypes |-> params'[u]]
      /\ eeprom' = [u \in ParamTypes |-> eeprom'[u]]
  BY <1>4, <1>5 DEF DataOK
<1>7. {params'["ParamSystem"], eeprom'["ParamSystem"]} \subseteq
        {params["ParamSystem"], eeprom["ParamSystem"]}
  BY <1>4, <1>5 DEF DataOK, ParamTypes
<1>8. \A v \in {params'["ParamSystem"], eeprom'["ParamSystem"]} :
        v.watchdog_cycles \in 0 .. CountMod - 1 /\ v.comm_cycles \in Nat
  BY <1>7 DEF DataOK
<1>9. /\ UNCHANGED <<joint_control, drive_enable, drive_seq, last_command>>
      /\ last_drive_seq' \in {drive_seq, last_drive_seq}
  BY <1>4, ParamSetEffect DEF commandVars, driveVars
<1> QED
  BY <1>3, <1>6, <1>8, <1>9 DEF Handled, TypeOK

(* A handler runs only in a cycle that has counted a packet. *)
LEMMA ProcessOneIInv ==
  ASSUME IInv, commStep, ProcessOne
  PROVE  IInv'
<1> USE DEF IInv
<1> DEFINE p == Head(pending)
<1>1. /\ comm_pc = "process" /\ comm_pc' = "process" /\ pending # <<>>
      /\ pending' = Tail(pending)
      /\ UNCHANGED <<uart_rx, global_seq, rx_packets, sent>>
  BY DEF ProcessOne
<1>2. /\ pc = "comm" /\ pc' = "comm" /\ UNCHANGED <<isrVars, watchdogVars>>
  BY <1>1, CommStepMoves
<1>3. /\ p \in InPackets /\ pending' \in Seq(InPackets)
      /\ Len(pending') <= PENDING_PACKETS_MAX
  <2>1. pending \in Seq(InPackets) /\ Len(pending) <= PENDING_PACKETS_MAX
    BY DEF DataOK, TypeOK
  <2>2. Len(pending') = Len(pending) - 1 /\ Len(pending) \in Nat
    BY <1>1, <2>1, HeadTailProperties
  <2>3. PENDING_PACKETS_MAX \in Nat
    BY Constants
  <2> QED
    BY <1>1, <2>1, <2>2, <2>3, HeadTailProperties
<1>4. Handled
  <2>1. \/ handleJointControl(p) \/ handleDriveControl(p)
        \/ handleParamControl(p)
        \/ handleParam(p, "SystemParam", "ParamSystem")
        \/ handleParam(p, "JointParam", "ParamJoints")
        \/ handleParam(p, "DriveParam", "ParamDrive")
    BY DEF ProcessOne
  <2>2. {"ParamSystem", "ParamJoints", "ParamDrive"} \subseteq ParamTypes
    BY DEF ParamTypes
  <2> HIDE DEF p
  <2>3. CASE handleJointControl(p) \/ handleDriveControl(p)
    BY <1>3, <2>3, ControlHandled
  <2>4. CASE handleParamControl(p)
    BY <1>3, <2>4, ParamControlHandled
  <2>5. CASE handleParam(p, "SystemParam", "ParamSystem")
    BY <1>3, <2>2, <2>5, ParamHandled
  <2>6. CASE handleParam(p, "JointParam", "ParamJoints")
    BY <1>3, <2>2, <2>6, ParamHandled
  <2>7. CASE handleParam(p, "DriveParam", "ParamDrive")
    BY <1>3, <2>2, <2>7, ParamHandled
  <2> QED
    BY <2>1, <2>3, <2>4, <2>5, <2>6, <2>7
<1>5. PICK k \in 0 .. UartMax : rx_packets = Ahead(k) /\ k # 0
  BY <1>1 DEF CycleOK
<1>6. ~Quiet' /\ UNCHANGED rx_packets_before
  <2>1. rx_packets_before \in 0 .. RxMod - 1
    BY DEF TypeOK
  <2>2. rx_packets # rx_packets_before
    BY <1>5, <2>1, AheadFacts
  <2> QED
    BY <1>1, <1>2, <2>2 DEF Quiet, watchdogVars
<1>7. TypeOK'
  <2>1. DOMAIN params' = ParamTypes /\ DOMAIN eeprom' = ParamTypes
    BY <1>4 DEF Handled
  <2>2. last_command' \in {"none", "joint", "drive", "stop"}
    BY <1>4 DEF Handled, TypeOK
  <2> QED
    BY <1>1, <1>2, <1>3, <1>4, <2>1, <2>2
       DEF TypeOK, Handled, isrVars, watchdogVars
<1>8. DataOK'
  BY <1>1, <1>3, <1>4 DEF DataOK, Handled
<1>9. CycleOK'
  <2>1. rx_packets' = Ahead(k)'
    BY <1>1, <1>5, <1>6 DEF Ahead
  <2> QED
    BY <1>1, <1>2, <1>5, <2>1 DEF CycleOK
<1>10. StopOK'
  BY <1>2, <1>4 DEF StopOK, DisabledStaysDisabled, Handled, isrVars
<1>11. DriveOK' /\ WatchOK'
  BY <1>2, <1>6 DEF DriveOK, WatchOK
<1> QED
  BY <1>7, <1>8, <1>9, <1>10, <1>11
----------------------------------------------------------------------------
(* The watchdog *)

(* Unless a packet was counted, the watchdog counts down, and at zero it   *)
(* goes on to disable the motors, which no new drive command then enables. *)
LEMMA WatchdogIInv ==
  ASSUME IInv, watchdog
  PROVE  IInv'
<1> USE DEF IInv
<1>1. /\ pc = "watchdog" /\ pc' \in {"jointsDisable", "cycleEnd"}
      /\ UNCHANGED <<commVars, isrVars, rx_packets_before>>
  BY DEF watchdog
<1>2. DataOK' /\ UNCHANGED watchdog_cycles
  BY <1>1, DataUnchanged DEF commVars, rxVars
<1>3. /\ watchdog_cycles \in Nat /\ CountMod \in Nat \ {0}
      /\ watchdog_cycles < CountMod
      /\ watchdog_cycles % CountMod = watchdog_cycles
  BY CyclesType, Constants
<1>4. watchdog_count \in 0 .. CountMod - 1 /\ silent \in 0 .. CountMod
  BY DEF TypeOK
<1>5. \/ /\ watchdog_cycles = 0 /\ pc' = "cycleEnd" /\ silent' = 0
         /\ UNCHANGED watchdog_count
      \/ /\ watchdog_cycles # 0 /\ ~Quiet
         /\ watchdog_count' = watchdog_cycles /\ silent' = 0
         /\ pc' = "cycleEnd"
      \/ /\ watchdog_cycles # 0 /\ Quiet
         /\ watchdog_count' = IF watchdog_count = 0 THEN CountMod - 1
                                                    ELSE watchdog_count - 1
         /\ silent' = IF silent < CountMod THEN silent + 1 ELSE silent
         /\ pc' = IF watchdog_count' = 0 THEN "jointsDisable" ELSE "cycleEnd"
  <2>1. Decrement(watchdog_count, CountMod) =
          IF watchdog_count = 0 THEN CountMod - 1 ELSE watchdog_count - 1
    BY <1>3, <1>4, Decrements
  <2> HIDE DEF watchdog_cycles
  <2> QED
    BY <1>3, <2>1 DEF watchdog, Fires, Quiet
<1> HIDE DEF watchdog_cycles
<1>6. watchdog_count' \in 0 .. CountMod - 1 /\ silent' \in 0 .. CountMod
  BY <1>3, <1>4, <1>5
<1>7. TypeOK'
  BY <1>1, <1>6 DEF TypeOK, commVars, rxVars, commandVars, driveVars, isrVars
<1>8. CycleOK'
  BY <1>1 DEF CycleOK, Quiet, Ahead, TypeOK, commVars, rxVars
<1>9. StopOK'
  BY <1>1 DEF StopOK, DisabledStaysDisabled, commVars, commandVars, driveVars,
              isrVars
<1>10. DriveOK'
  <2>1. pc' = "jointsDisable" => drive_seq = last_drive_seq
    BY <1>1, <1>5 DEF DriveOK
  <2> QED
    BY <1>1, <2>1 DEF DriveOK, commVars, commandVars, driveVars
<1>11. WatchOK'
  <2>1. UNCHANGED last_command
    BY <1>1 DEF commVars, commandVars
  <2>2. CASE watchdog_cycles = 0
    BY <1>1, <1>2, <2>2 DEF WatchOK
  <2>3. CASE watchdog_cycles # 0 /\ ~Quiet
    BY <1>1, <1>2, <1>3, <1>5, <2>3 DEF WatchOK
  <2>4. CASE watchdog_cycles # 0 /\ Quiet
    <3>1. /\ silent < watchdog_cycles =>
               watchdog_count = watchdog_cycles - silent
          /\ silent >= watchdog_cycles => last_command = "stop"
      BY <1>1, <1>3, <2>4 DEF WatchOK
    <3>2. silent' < watchdog_cycles =>
            watchdog_count' = watchdog_cycles - silent'
      BY <1>3, <1>4, <1>5, <2>4, <3>1
    <3>3. silent' >= watchdog_cycles /\ pc' # "jointsDisable" =>
            last_command = "stop"
      BY <1>3, <1>4, <1>5, <2>4, <3>1
    <3> QED
      BY <1>1, <1>2, <2>1, <3>2, <3>3 DEF WatchOK
  <2> QED
    BY <2>2, <2>3, <2>4
<1> QED
  BY <1>2, <1>7, <1>8, <1>9, <1>10, <1>11

(* and when the watchdog disables the joints.                              *)
LEMMA JointsDisableIInv ==
  ASSUME IInv, jointsDisable
  PROVE  IInv'
<1> USE DEF IInv
<1>1. /\ pc = "jointsDisable" /\ pc' = "driveDisable"
      /\ joint_control' = [joint_control EXCEPT !.mode = "JointDisabled"]
      /\ output' = 0
      /\ UNCHANGED <<comm_pc, rxVars, global_seq, tx, sent, params, eeprom,
                     driveVars, last_command, tick_counter, comm_handle, duty,
                     watchdogVars>>
  BY DEF jointsDisable, Goto
<1>2. /\ joint_control' \in [mode : Modes, by : {"client", "drive"}]
      /\ joint_control'.mode = "JointDisabled"
  BY <1>1 DEF TypeOK, Modes
<1>3. TypeOK'
  BY <1>1, <1>2 DEF TypeOK, rxVars, driveVars, watchdogVars
<1>4. DataOK' /\ UNCHANGED watchdog_cycles
  BY <1>1, DataUnchanged DEF rxVars
<1>5. CycleOK'
  BY <1>1 DEF CycleOK, Quiet, Ahead, TypeOK, rxVars, watchdogVars
<1>6. StopOK' /\ DriveOK'
  BY <1>1, <1>2 DEF StopOK, DisabledStaysDisabled, DriveOK, driveVars
<1>7. WatchOK'
  BY <1>1, <1>4 DEF WatchOK, watchdogVars
<1> QED
  BY <1>3, <1>4, <1>5, <1>6, <1>7

(* and the drive after them.                                               *)
LEMMA DriveDisableIInv ==
  ASSUME IInv, driveDisable
  PROVE  IInv'
<1> USE DEF IInv
<1>1. /\ pc = "driveDisable" /\ pc' = "cycleEnd"
      /\ ~drive_enable' /\ drive_enable' \in BOOLEAN
      /\ last_command' = "stop"
      /\ UNCHANGED <<comm_pc, rxVars, global_seq, tx, sent, params, eeprom,
                     joint_control, drive_seq, last_drive_seq, isrVars,
                     watchdogVars>>
  BY DEF driveDisable, Goto
<1>2. TypeOK'
  BY <1>1 DEF TypeOK, rxVars, isrVars, watchdogVars
<1>3. DataOK' /\ UNCHANGED watchdog_cycles
  BY <1>1, DataUnchanged DEF rxVars
<1>4. CycleOK'
  BY <1>1 DEF CycleOK, Quiet, Ahead, TypeOK, rxVars, watchdogVars
<1>5. StopOK' /\ DriveOK'
  BY <1>1 DEF StopOK, DisabledStaysDisabled, DriveOK, isrVars
<1>6. WatchOK'
  BY <1>1, <1>3 DEF WatchOK, watchdogVars
<1> QED
  BY <1>2, <1>3, <1>4, <1>5, <1>6

(* The next cycle starts with nothing counted. *)
LEMMA CycleEndIInv ==
  ASSUME IInv, cycleEnd
  PROVE  IInv'
<1> USE DEF IInv
<1>1. /\ pc = "cycleEnd" /\ pc' = "idle"
      /\ rx_packets_before' = rx_packets /\ comm_handle' = 0
      /\ UNCHANGED <<commVars, tick_counter, output, duty, watchdog_count,
                     silent>>
  BY DEF cycleEnd, Goto
<1>2. TypeOK'
  BY <1>1 DEF TypeOK, commVars, rxVars, commandVars, driveVars
<1>3. DataOK' /\ UNCHANGED watchdog_cycles
  BY <1>1, DataUnchanged DEF commVars, rxVars
<1>4. CycleOK'
  <2>1. comm_pc' = "idle" /\ pending' = <<>>
    BY <1>1 DEF CycleOK, TypeOK, commVars, rxVars
  <2> QED
    BY <1>1, <2>1 DEF CycleOK, Quiet, commVars, rxVars
<1>5. StopOK' /\ DriveOK'
  BY <1>1 DEF StopOK, DisabledStaysDisabled, DriveOK, commVars, commandVars,
              driveVars
<1>6. WatchOK'
  BY <1>1, <1>3 DEF WatchOK, commVars, commandVars
<1> QED
  BY <1>2, <1>3, <1>4, <1>5, <1>6
----------------------------------------------------------------------------
(* The theorems *)

LEMMA NextIInv ==
  ASSUME IInv, [Next]_vars
  PROVE  IInv'
<1>1. CASE UNCHANGED vars
  BY <1>1, StutterIInv
<1>2. CASE onTimerTick
  BY <1>2, TickIInv
<1>3. CASE receive
  BY <1>3, ReceiveIInv
<1>4. CASE SetTickCounter \/ SetWatchdog
  BY <1>4, StartIInv
<1>5. CASE Poll \/ driveMode
  BY <1>5, MoveOnIInv
<1>6. CASE driveControl
  BY <1>6, DriveControlIInv
<1>7. CASE commBegin
  BY <1>7, CommBeginIInv
<1>8. CASE commStep
  <2>1. FlushOne \/ FlushEnd \/ ProcessOne \/ FinishEpoch
    BY <1>8 DEF commStep, CommStep
  <2> QED
    BY <1>8, <2>1, FlushOneIInv, FlushEndIInv, ProcessOneIInv, FinishEpochIInv
<1>9. CASE watchdog
  BY <1>9, WatchdogIInv
<1>10. CASE jointsDisable \/ driveDisable
  BY <1>10, JointsDisableIInv, DriveDisableIInv
<1>11. CASE cycleEnd
  BY <1>11, CycleEndIInv
<1> QED
  BY <1>1, <1>2, <1>3, <1>4, <1>5, <1>6, <1>7, <1>8, <1>9, <1>10, <1>11
     DEF Next, Main

(* Whatever the client sends and whenever the timer ticks, the watchdog    *)
(* counter, the packet counters and the commands obeyed stay related as    *)
(* IInv says.                                                              *)
THEOREM Invariance == Spec => []IInv
BY InitIInv, NextIInv, PTL DEF Spec

(* The state of the firmware is always well formed: the counters stay in   *)
(* their width, the buffers within their capacity.                         *)
THEOREM TypeCorrect == Spec => []TypeOK
BY Invariance, PTL DEF IInv

(* When watchdog_cycles cycles in a row have brought no packet, the motors *)
(* have been disabled and no command has been obeyed since, for any        *)
(* watchdog_cycles its counter can hold and any change of it on the way.   *)
THEOREM WatchdogStops == Spec => []SilenceDisables
<1>1. IInv => SilenceDisables
  <2> SUFFICES ASSUME IInv, pc = "idle", 0 < watchdog_cycles,
                      silent >= watchdog_cycles
               PROVE  last_command = "stop"
    BY DEF SilenceDisables
  <2> QED
    BY DEF IInv, WatchOK
<1> QED
  BY <1>1, Invariance, PTL

(* After the watchdog has disabled the motors, no step but the processing  *)
(* of a control packet enables a joint or the drive or writes an output.   *)
THEOREM StaysDisabled == Spec => []DisabledStaysDisabled
<1>1. IInv => DisabledStaysDisabled
  BY DEF IInv, StopOK
<1> QED
  BY <1>1, Invariance, PTL
=============================================================================
