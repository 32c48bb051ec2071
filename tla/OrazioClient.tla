---------------------------- MODULE OrazioClient ----------------------------
(***************************************************************************)
(* The client library on the PC (src/client/orazio_client.c) and the line  *)
(* to the robot.  A thread that is called "runner" calls OrazioClient_sync *)
(* without end; packets are sent, blocking or deferred, by it or by the    *)
(* "main" thread.  write_mutex guards the transmit buffer, read_mutex the  *)
(* receiver.  Which calls the threads make, and when, is for the programs  *)
(* to say (OrazioPrograms); this module has no specification of its own.   *)
(*                                                                         *)
(* Bytes are not modelled: a line carries whole packets and may lose some. *)
(* The robot is what OrazioEpoch describes, as far as the client sees it:  *)
(* in each epoch it answers what it has received, sends its status when    *)
(* the mask of the periodic packets says so, and ends the epoch; what does *)
(* not fit into its transmit buffer any more it leaves out.  Packets that  *)
(* no call of the client waits for (the parameters before a response, the  *)
(* status of joints and drive) only take room and are left out.            *)
(***************************************************************************)
EXTENDS Naturals, Sequences

CONSTANTS
  Timeout,              \* packets a blocking call waits for (100)
  SeqRange,             \* the client's numbers are counted modulo this (2^16)
  EpochRange,           \* the robot's numbers are counted modulo this (2^16)
  TxMax,                \* packets that fit into the transmit buffer
  RobotMax,             \* bytes that fit into that of the robot,
  ResponseSize, StatusSize, EndSize,    \* and what its packets take of it
  LineMax,              \* bound: packets on their way when more are sent
  MaxLost               \* bound: packets the line loses

ASSUME ClientConstants ==
  /\ {Timeout, SeqRange, EpochRange, ResponseSize} \subseteq Nat \ {0}
  /\ {TxMax, RobotMax, StatusSize, EndSize, LineMax, MaxLost} \subseteq Nat

VARIABLES
  write_mutex, read_mutex,      \* "free" or the thread that holds it
  global_seq,
  tx,                   \* packet_handler.tx_buffer
  drive,                \* drive_control_packet.header.seq, used as a flag
  response,             \* the last response: p_type, p_seq
  status,               \* seq of the last system_status
  end_epoch,            \* seq of the last end of an epoch
  end_status,           \* history: the robot sent a status in that epoch
  call,                 \* the blocking call: pc, by, awaited, timeout, result
  runner,               \* the runner: pc, current_seq
  to_robot, from_robot, \* the line
  robot_seq,            \* the robot's global_seq
  lost                  \* how many packets the line has lost

received == <<response, status, end_epoch, end_status>>
lines == <<to_robot, from_robot, robot_seq, lost>>
clientVars == <<write_mutex, read_mutex, global_seq, tx, drive, received, call,
                runner, lines>>

NoResponse == [type |-> "Response", p_type |-> "none", p_seq |-> 0,
               mine |-> FALSE]

(* write_mutex is held while a blocking call is under way: there is one.   *)
NoCall == [pc |-> "idle", by |-> "main", awaited |-> 0, timeout |-> 0,
           result |-> "none"]

ClientInit ==
  /\ write_mutex = "free" /\ read_mutex = "free"
  /\ global_seq = 0
  /\ tx = <<>>
  /\ drive = 0
  /\ response = NoResponse
  /\ status = 0
  /\ end_epoch = 0 /\ end_status = FALSE
  /\ call = NoCall
  /\ runner = [pc |-> "sync", current_seq |-> 0]
  /\ to_robot = <<>> /\ from_robot = <<>>
  /\ robot_seq = 0
  /\ lost = 0
----------------------------------------------------------------------------
(* The packet that a blocking call awaits is "mine"; the next call forgets *)
(* that the packets of the calls before were.                              *)
Packet(type, seq, mine) == [type |-> type, seq |-> seq, mine |-> mine]

Forget(q) == [i \in DOMAIN q |-> [q[i] EXCEPT !.mine = FALSE]]

(* Every packet that is sent, and every one that cannot be, has a number.  *)
NextSeq == (global_seq + 1) % SeqRange

Full == Len(tx) >= TxMax

(* _readPacket: reading blocks until a packet has come. *)
readPacket ==
  /\ from_robot # <<>>
  /\ LET p == Head(from_robot)
     IN /\ response' = IF p.type = "Response" THEN p ELSE response
        /\ status' = IF p.type = "SystemStatus" THEN p.p_seq ELSE status
        /\ end_epoch' = IF p.type = "EndEpoch" THEN p.p_seq ELSE end_epoch
        /\ end_status' = IF p.type = "EndEpoch" THEN p.with_status
                                                ELSE end_status
  /\ from_robot' = Tail(from_robot)
----------------------------------------------------------------------------
(* OrazioClient_sendPacket *)

At(thread, from) == thread.pc = from

(* Where a call begins or ends, what becomes of runner is left to the      *)
(* program: it may be the runner that calls.                               *)
lockWrite(t) ==
  /\ write_mutex = "free"
  /\ write_mutex' = t
  /\ call' = [call EXCEPT !.pc = "lockRead", !.by = t]
  /\ UNCHANGED <<read_mutex, global_seq, tx, drive, received, lines>>

(* Mistake: the receiver is not locked. *)
lockRead_NoWait ==
  /\ At(call, "lockRead")
  /\ read_mutex' = call.by
  /\ call' = [call EXCEPT !.pc = "send"]
  /\ UNCHANGED <<write_mutex, global_seq, tx, drive, received, runner, lines>>

lockRead ==
  /\ At(call, "lockRead")
  /\ read_mutex = "free"
  /\ read_mutex' = call.by
  /\ call' = [call EXCEPT !.pc = "send"]
  /\ UNCHANGED <<write_mutex, global_seq, tx, drive, received, runner, lines>>

(* The packet goes out at once, after those that are deferred, unless the  *)
(* transmit buffer is full of them.                                        *)
sendBlocking ==
  /\ At(call, "send")
  /\ global_seq' = NextSeq
  /\ response' = [response EXCEPT !.mine = FALSE]
  /\ from_robot' = Forget(from_robot)
  /\ IF Full
     THEN /\ call' = [call EXCEPT !.pc = "unlockRead", !.result = "TxBufferFull"]
          /\ tx' = Forget(tx)
          /\ to_robot' = Forget(to_robot)
     ELSE /\ call' = [call EXCEPT !.pc = "await", !.awaited = NextSeq,
                                  !.timeout = Timeout, !.result = "Timeout"]
          /\ tx' = <<>>
          /\ to_robot' = Append(Forget(to_robot) \o Forget(tx),
                                Packet("ParamControl", NextSeq, TRUE))
  /\ UNCHANGED <<write_mutex, read_mutex, drive, status, end_epoch, end_status,
                 runner, robot_seq, lost>>

(* Mistake: any response to a packet of the type will do. *)
Answered_ByType(r) == r.p_type = "ParamControl"

Answered(r) == r.p_type = "ParamControl" /\ r.p_seq = call.awaited

(* Mistake: only responses count. *)
Remaining_Responses(n) ==
  IF Head(from_robot).type = "Response" THEN n - 1 ELSE n

Remaining(n) == n - 1

await ==
  /\ At(call, "await")
  /\ readPacket
  /\ call' = IF Answered(response')
            THEN [call EXCEPT !.pc = "unlockRead", !.result = "Success"]
            ELSE [call EXCEPT !.timeout = Remaining(@),
                             !.pc = IF Remaining(call.timeout) = 0
                                    THEN "unlockRead" ELSE @]
  /\ UNCHANGED <<write_mutex, read_mutex, global_seq, tx, drive, runner,
                 to_robot, robot_seq, lost>>

unlockRead ==
  /\ At(call, "unlockRead")
  /\ read_mutex' = "free"
  /\ call' = [call EXCEPT !.pc = "unlockWrite"]
  /\ UNCHANGED <<write_mutex, global_seq, tx, drive, received, runner, lines>>

unlockWrite ==
  /\ At(call, "unlockWrite")
  /\ write_mutex' = "free"
  /\ call' = NoCall
  /\ UNCHANGED <<read_mutex, global_seq, tx, drive, received, lines>>

(* The call without a timeout: the packet is left in the buffer. *)
sendDeferred(type) ==
  /\ write_mutex = "free"
  /\ global_seq' = NextSeq
  /\ tx' = IF Full THEN tx ELSE Append(tx, Packet(type, NextSeq, FALSE))
  /\ UNCHANGED <<write_mutex, read_mutex, drive, received, call, lines>>

(* OrazioClient_setBaseVelocity takes no lock. *)
setBaseVelocity ==
  /\ drive' = 1
  /\ UNCHANGED <<write_mutex, read_mutex, global_seq, tx, received, call,
                 runner, lines>>

(* OrazioClient_get: a copy of the last packet of a type, under the lock.  *)
get ==
  /\ read_mutex = "free"
  /\ UNCHANGED <<write_mutex, read_mutex, global_seq, tx, drive, received, call,
                 lines>>
----------------------------------------------------------------------------
(* The runner: OrazioClient_sync *)

RunnerGoto(from, to) ==
  At(runner, from) /\ runner' = [runner EXCEPT !.pc = to]

(* The lock is taken and the transmit buffer written to the line. *)
syncFlush ==
  /\ RunnerGoto("sync", "drive")
  /\ write_mutex = "free"
  /\ write_mutex' = "runner"
  /\ to_robot' = to_robot \o tx
  /\ tx' = <<>>
  /\ UNCHANGED <<read_mutex, global_seq, drive, received, call, from_robot,
                 robot_seq, lost>>

(* A velocity that was set once is sent in every cycle: the number of the  *)
(* packet is the flag that says so.                                        *)
syncStamp ==
  /\ RunnerGoto("drive", "pack")
  /\ drive # 0
  /\ global_seq' = NextSeq
  /\ drive' = NextSeq
  /\ UNCHANGED <<write_mutex, read_mutex, tx, received, call, lines>>

syncNoDrive ==
  /\ RunnerGoto("drive", "note")
  /\ drive = 0
  /\ write_mutex' = "free"
  /\ UNCHANGED <<read_mutex, global_seq, tx, drive, received, call, lines>>

syncPack ==
  /\ RunnerGoto("pack", "note")
  /\ tx' = IF Full THEN tx ELSE Append(tx, Packet("DriveControl", drive, FALSE))
  /\ write_mutex' = "free"
  /\ UNCHANGED <<read_mutex, global_seq, drive, received, call, lines>>

syncNote ==
  /\ At(runner, "note")
  /\ runner' = [pc |-> "lockRead", current_seq |-> end_epoch]
  /\ UNCHANGED <<write_mutex, read_mutex, global_seq, tx, drive, received, call,
                 lines>>

syncLockRead ==
  /\ RunnerGoto("lockRead", "read")
  /\ read_mutex = "free"
  /\ read_mutex' = "runner"
  /\ UNCHANGED <<write_mutex, global_seq, tx, drive, received, call, lines>>

syncRead ==
  /\ RunnerGoto("read", "check")
  /\ readPacket
  /\ read_mutex' = "free"
  /\ UNCHANGED <<write_mutex, global_seq, tx, drive, call, to_robot, robot_seq,
                 lost>>

(* Mistake: one packet is enough. *)
NewEpoch_Any == TRUE

NewEpoch == runner.current_seq # end_epoch

(* The caller has no use for current_seq. *)
syncCheck ==
  /\ At(runner, "check")
  /\ runner' = IF NewEpoch THEN [pc |-> "return", current_seq |-> 0]
                           ELSE [runner EXCEPT !.pc = "lockRead"]
  /\ UNCHANGED <<write_mutex, read_mutex, global_seq, tx, drive, received, call,
                 lines>>

----------------------------------------------------------------------------
(* The robot and the line *)

(* The answers to what has arrived that fit into an empty buffer. *)
AnswersFit == IF Len(to_robot) * ResponseSize <= RobotMax THEN Len(to_robot)
              ELSE RobotMax \div ResponseSize

(* The flag of the status in the mask.  Bound: it is set once a packet is  *)
(* lost.                                                                   *)
StatusFlag == IF lost = 0 THEN BOOLEAN ELSE {TRUE}

Reply(p) == [type |-> "Response", p_type |-> p.type, p_seq |-> p.seq,
             mine |-> p.mine]

(* What follows the answers: the status, if its flag is set, and the end,  *)
(* each unless the buffer has no room left for it.                         *)
OwnPackets(seq, flag) ==
  LET used == AnswersFit * ResponseSize
      hasStatus == flag /\ used + StatusSize <= RobotMax
      hasEnd == (IF hasStatus THEN used + StatusSize ELSE used) + EndSize
                  <= RobotMax
      Own(type) == [type |-> type, p_type |-> "none", p_seq |-> seq,
                    mine |-> FALSE, with_status |-> hasStatus]
  IN (IF hasStatus THEN <<Own("SystemStatus")>> ELSE <<>>)
       \o (IF hasEnd THEN <<Own("EndEpoch")>> ELSE <<>>)

robotEpoch ==
  /\ Len(from_robot) + 2 <= LineMax
  /\ robot_seq' = (robot_seq + 1) % EpochRange
  /\ \E flag \in StatusFlag :
       from_robot' = from_robot \o [i \in 1 .. AnswersFit |-> Reply(to_robot[i])]
                                \o OwnPackets(robot_seq', flag)
  /\ to_robot' = <<>>
  /\ UNCHANGED <<write_mutex, read_mutex, global_seq, tx, drive, received, call,
                 runner, lost>>

lose ==
  /\ lost < MaxLost
  /\ lost' = lost + 1
  /\ \/ /\ to_robot # <<>> /\ to_robot' = Tail(to_robot)
        /\ UNCHANGED from_robot
     \/ /\ from_robot # <<>> /\ from_robot' = Tail(from_robot)
        /\ UNCHANGED to_robot
  /\ UNCHANGED <<write_mutex, read_mutex, global_seq, tx, drive, received, call,
                 runner, robot_seq>>

Sync == \/ syncFlush \/ syncStamp \/ syncNoDrive \/ syncPack \/ syncNote
        \/ syncLockRead \/ syncRead \/ syncCheck

Line == robotEpoch \/ lose
----------------------------------------------------------------------------
(* The state is well formed, and a thread holds the mutexes that the place *)
(* it has got to asks for.                                                 *)
TypeOK ==
  /\ write_mutex =
       IF call.pc # "idle" THEN call.by
       ELSE IF runner.pc \in {"drive", "pack"} THEN "runner" ELSE "free"
  /\ read_mutex =
       IF call.pc \in {"send", "await", "unlockRead"} THEN call.by
       ELSE IF runner.pc = "read" THEN "runner" ELSE "free"
  /\ {global_seq, drive, call.awaited} \subseteq 0 .. SeqRange - 1
  /\ {status, end_epoch, robot_seq, runner.current_seq}
       \subseteq 0 .. EpochRange - 1
  /\ Len(tx) <= TxMax
  /\ call.timeout \in 0 .. Timeout
  /\ call.pc = "await" => call.timeout > 0
  /\ lost \in 0 .. MaxLost /\ end_status \in BOOLEAN

(* A blocking call that returns Success has been answered: the response    *)
(* belongs to the very packet it sent, not to one that timed out before or *)
(* to a deferred one, whatever the line lost and whoever read in between.  *)
SuccessMeansAnswered ==
  call.pc = "unlockRead" /\ call.result = "Success" => response.mine

(* A blocking call returns, although it waits for the second mutex with    *)
(* the first in its hand, the mutexes are not fair, and its answer may be  *)
(* lost.                                                                   *)
BlockingReturns == call.pc = "lockRead" ~> call.pc = "idle"
=============================================================================
