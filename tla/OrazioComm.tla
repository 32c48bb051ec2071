----------------------------- MODULE OrazioComm -----------------------------
(***************************************************************************)
(* One communication cycle of the firmware (src/server/orazio_comm.c):     *)
(* commHandle drains the UART through the receiver into the pending list,  *)
(* runs the handler of every pending packet, sends the periodic packets    *)
(* and the end of the epoch, and drains the transmit buffer.  The handlers *)
(* reach into the parameters (orazio_param.c), the joint commands and the  *)
(* drive (orazio_drive.c), whose state is here as far as they change it.   *)
(*                                                                         *)
(* Packets are records; bytes matter only as sizes, because the transmit   *)
(* buffer refuses what does not fit.  The counters of system_status that   *)
(* are only reported (errors, sizes, rx_seq, idle_cycles) are left out.    *)
(***************************************************************************)
EXTENDS Naturals, Sequences, FiniteSets

CONSTANTS
  InPackets,            \* packets a client may send: type, seq and arg
  DefaultParams,        \* system_params, joint_params, drive_params at boot
  SavedParams,          \* what the EEPROM holds at boot
  PBUFNO,               \* buffers per packet type
  PENDING_PACKETS_MAX,  \* places in the list of pending packets
  BUFFER_SIZE_MAX,      \* bytes in the transmit buffer
  SeqRange,             \* sequence numbers are counted modulo this (2^16)
  RxMod,                \* rx_packets is counted modulo this (2^16)
  UartMax               \* bound: packets that wait in the UART

ParamTypes == {"ParamSystem", "ParamJoints", "ParamDrive"}

ASSUME CommConstants ==
  /\ {PBUFNO, PENDING_PACKETS_MAX, BUFFER_SIZE_MAX, UartMax} \subseteq Nat
  /\ {SeqRange, RxMod} \subseteq Nat \ {0}
  /\ DefaultParams = [t \in ParamTypes |-> DefaultParams[t]]
  /\ SavedParams = [t \in ParamTypes |-> SavedParams[t]]

(* sizeof every packet of orazio_packets.h (pragma pack 1) *)
Size == [Response |-> 8, ParamControl |-> 6, SystemStatus |-> 27,
         SystemParam |-> 25, JointStatus |-> 26, JointControl |-> 10,
         JointParam |-> 36, DriveStatus |-> 40, DriveControl |-> 12,
         DriveParam |-> 38, EndEpoch |-> 4]

VARIABLES
  comm_pc,              \* where commHandle is: "idle", "flush" or "process"
  uart_rx,              \* packets received by the UART and not read yet
  pending,              \* the pending packets of the deferred handler
  global_seq,
  rx_packets,
  tx,                   \* transmit buffer: packets q and bytes size
  sent,                 \* history: the packets the cycle handed to the UART
  params,               \* system_params, joint_params and drive_params
  eeprom,               \* the saved parameters
  joint_control,        \* mode, and who wrote the command: client or drive
  drive_enable,
  drive_seq,            \* drive_control.header.seq
  last_drive_seq,       \* last_drive_control_seq
  last_command          \* history: the control packet processed last

driveVars == <<drive_enable, drive_seq, last_drive_seq>>
commandVars == <<joint_control, driveVars, last_command>>
rxVars == <<uart_rx, pending, rx_packets>>
commVars == <<comm_pc, uart_rx, pending, global_seq, rx_packets, tx, sent,
              params, eeprom, joint_control, drive_enable, drive_seq,
              last_drive_seq, last_command>>

EmptyTx == [q |-> <<>>, size |-> 0]

CommInit ==
  /\ comm_pc = "idle"
  /\ uart_rx = <<>>
  /\ pending = <<>>
  /\ global_seq = 0
  /\ rx_packets = 0
  /\ tx = EmptyTx
  /\ sent = <<>>
  /\ params = DefaultParams
  /\ eeprom = SavedParams
  /\ joint_control = [mode |-> "JointDisabled", by |-> "client"]
  /\ drive_enable = FALSE
  /\ drive_seq = 0
  /\ last_drive_seq = 0
  /\ last_command = "none"
----------------------------------------------------------------------------
(* The transmit buffer *)

Fits(t, p) == t.size + Size[p.type] + 3 <= BUFFER_SIZE_MAX

(* Orazio_sendPacket: a packet is queued whole or not at all.              *)
Send(t, p) ==
  IF Fits(t, p)
  THEN [q |-> Append(t.q, p), size |-> t.size + Size[p.type] + 3]
  ELSE t

SendIf(c, t, p) == IF c THEN Send(t, p) ELSE t

(* Every packet is stamped with the current global_seq. *)
Plain(type) == [type |-> type, seq |-> global_seq, p_type |-> "none",
                p_seq |-> 0, p_result |-> "none"]

(* Mistake: the answer refers to the robot's own sequence number. *)
Response_OwnSeq(p, r) ==
  [type |-> "Response", seq |-> global_seq, p_type |-> p.type,
   p_seq |-> global_seq, p_result |-> r]

Response(p, r) == [type |-> "Response", seq |-> global_seq,
                   p_type |-> p.type, p_seq |-> p.seq, p_result |-> r]

ParamPacket(t) == CASE t = "ParamSystem" -> Plain("SystemParam")
                    [] t = "ParamJoints" -> Plain("JointParam")
                    [] t = "ParamDrive"  -> Plain("DriveParam")
----------------------------------------------------------------------------
(* Reception *)

(* A packet arrives.  Type "Noise" stands for bytes the receiver rejects.  *)
Arrive(p) ==
  /\ Len(uart_rx) < UartMax
  /\ uart_rx' = Append(uart_rx, p)
  /\ UNCHANGED <<comm_pc, pending, global_seq, rx_packets, tx, sent, params,
                 eeprom, commandVars>>

CommBegin ==
  /\ comm_pc = "idle"
  /\ comm_pc' = "flush"
  /\ sent' = <<>>
  /\ UNCHANGED <<rxVars, global_seq, tx, params, eeprom, commandVars>>

BuffersTaken(type) ==
  Cardinality({k \in DOMAIN pending : pending[k].type = type})

(* The receiver got as far as a right checksum: there was a buffer for it. *)
Counted(p) == p.type # "Noise" /\ BuffersTaken(p.type) < PBUFNO

(* flushInputBuffers, one packet: rx_packets also counts what the deferred *)
(* handler drops because its list of pending packets is full.              *)
FlushOne ==
  /\ comm_pc = "flush"
  /\ uart_rx # <<>>
  /\ LET p == Head(uart_rx)
     IN /\ rx_packets' = IF Counted(p) THEN (rx_packets + 1) % RxMod
                                       ELSE rx_packets
        /\ pending' = IF Counted(p) /\ Len(pending) < PENDING_PACKETS_MAX
                      THEN Append(pending, p) ELSE pending
  /\ uart_rx' = Tail(uart_rx)
  /\ UNCHANGED <<comm_pc, global_seq, tx, sent, params, eeprom, commandVars>>

(* Mistake: the epoch number is left as it was. *)
NextSeq_Same == global_seq

NextSeq == (global_seq + 1) % SeqRange

(* Mistake: reading blocks until there is something to read. *)
FlushEnd_AtLeastOne ==
  /\ comm_pc = "flush"
  /\ uart_rx = <<>> /\ pending # <<>>
  /\ global_seq' = NextSeq
  /\ comm_pc' = "process"
  /\ UNCHANGED <<rxVars, tx, sent, params, eeprom, commandVars>>

(* The UART is empty: a new epoch begins. *)
FlushEnd ==
  /\ comm_pc = "flush"
  /\ uart_rx = <<>>
  /\ global_seq' = NextSeq
  /\ comm_pc' = "process"
  /\ UNCHANGED <<rxVars, tx, sent, params, eeprom, commandVars>>
----------------------------------------------------------------------------
(* The handlers of processPendingPackets, one packet each *)

(* Orazio_driveInit: the drive command in memory counts as executed.       *)
driveInit ==
  /\ last_drive_seq' = drive_seq
  /\ UNCHANGED <<drive_enable, drive_seq>>

(* Orazio_paramSet: new system or drive parameters restart the drive.      *)
paramSet(t) ==
  /\ IF t \in {"ParamSystem", "ParamDrive"} THEN driveInit
                                            ELSE UNCHANGED driveVars
  /\ UNCHANGED <<joint_control, last_command>>

(* Orazio_copyToVarAndDisableDrive *)
handleJointControl(p) ==
  /\ p.type = "JointControl"
  /\ drive_enable' = FALSE
  /\ joint_control' = [mode |-> p.arg, by |-> "client"]
  /\ last_command' = "joint"
  /\ tx' = Send(tx, Response(p, "Success"))
  /\ UNCHANGED <<drive_seq, last_drive_seq, params, eeprom>>

(* Orazio_copyToVar *)
handleDriveControl(p) ==
  /\ p.type = "DriveControl"
  /\ drive_seq' = p.seq
  /\ last_command' = "drive"
  /\ tx' = Send(tx, Response(p, "Success"))
  /\ UNCHANGED <<drive_enable, last_drive_seq, joint_control, params, eeprom>>

(* Orazio_copyToVarAndSend: the parameters, a copy of them, a response.    *)
handleParam(p, type, t) ==
  /\ p.type = type
  /\ params' = [params EXCEPT ![t] = p.arg]
  /\ paramSet(t)
  /\ tx' = Send(Send(tx, Plain(type)), Response(p, "Success"))
  /\ UNCHANGED eeprom

(* Orazio_handleParamControlPacket: a parameter type that does not exist   *)
(* is an error for ParamLoad and ParamSave; a ParamRequest for it is       *)
(* answered Success, but no parameters are sent.                           *)
handleParamControl(p) ==
  /\ p.type = "ParamControl"
  /\ LET t == p.arg.param_type
         known == t \in ParamTypes
         done == \/ p.arg.action = "ParamRequest"
                 \/ p.arg.action \in {"ParamLoad", "ParamSave"} /\ known
         reply == IF known THEN Send(tx, ParamPacket(t)) ELSE tx
     IN /\ IF p.arg.action = "ParamLoad" /\ known
           THEN params' = [params EXCEPT ![t] = eeprom[t]] /\ paramSet(t)
           ELSE UNCHANGED <<params, commandVars>>
        /\ eeprom' = IF p.arg.action = "ParamSave" /\ known
                     THEN [eeprom EXCEPT ![t] = params[t]] ELSE eeprom
        /\ tx' = Send(reply, Response(p, IF done THEN "Success"
                                                 ELSE "GenericError"))

(* Mistake: the newest pending packet is handled first. *)
ProcessOne_NewestFirst ==
  /\ comm_pc = "process"
  /\ pending # <<>>
  /\ LET p == pending[Len(pending)]
     IN \/ handleParamControl(p)
        \/ handleParam(p, "SystemParam", "ParamSystem")
        \/ handleParam(p, "JointParam", "ParamJoints")
        \/ handleParam(p, "DriveParam", "ParamDrive")
  /\ pending' = SubSeq(pending, 1, Len(pending) - 1)
  /\ UNCHANGED <<comm_pc, uart_rx, global_seq, rx_packets, sent>>

ProcessOne ==
  /\ comm_pc = "process"
  /\ pending # <<>>
  /\ LET p == Head(pending)
     IN \/ handleJointControl(p)
        \/ handleDriveControl(p)
        \/ handleParamControl(p)
        \/ handleParam(p, "SystemParam", "ParamSystem")
        \/ handleParam(p, "JointParam", "ParamJoints")
        \/ handleParam(p, "DriveParam", "ParamDrive")
  /\ pending' = Tail(pending)
  /\ UNCHANGED <<comm_pc, uart_rx, global_seq, rx_packets, sent>>

(* Mistake: the epoch is over before the buffer is empty. *)
FinishEpoch_NoFlush ==
  /\ comm_pc = "process"
  /\ pending = <<>>
  /\ tx' = Send(tx, Plain("EndEpoch"))
  /\ sent' = tx'.q
  /\ comm_pc' = "idle"
  /\ UNCHANGED <<rxVars, global_seq, params, eeprom, commandVars>>

(* The rest of commHandle: the periodic packets that are asked for, the    *)
(* end of the epoch, and flushOutputBuffers, which empties the buffer.     *)
FinishEpoch ==
  /\ comm_pc = "process"
  /\ pending = <<>>
  /\ LET mask == params["ParamSystem"].periodic_packet_mask
         t1 == SendIf("PSystemStatusFlag" \in mask, tx, Plain("SystemStatus"))
         t2 == SendIf("PJointStatusFlag" \in mask, t1, Plain("JointStatus"))
         t3 == SendIf("PDriveStatusFlag" \in mask, t2, Plain("DriveStatus"))
     IN sent' = Send(t3, Plain("EndEpoch")).q
  /\ tx' = EmptyTx
  /\ comm_pc' = "idle"
  /\ UNCHANGED <<rxVars, global_seq, params, eeprom, commandVars>>

CommStep == FlushOne \/ FlushEnd \/ ProcessOne \/ FinishEpoch
=============================================================================
