---------------------------- MODULE OrazioEpoch ----------------------------
(***************************************************************************)
(* The communication cycle of OrazioComm on its own, seen from the other   *)
(* end of the line: what the packets of one epoch tell the client.         *)
(***************************************************************************)
EXTENDS OrazioComm

(* Two epochs in a row have different numbers. *)
ASSUME EpochConstants == SeqRange > 1

VARIABLES
  heard,                \* history: the packets read from the UART in this epoch
  asked,                \* history: those of them it has to answer
  seqs_before           \* history: sequence numbers of the epoch before

vars == <<commVars, heard, asked, seqs_before>>

Init == CommInit /\ heard = <<>> /\ asked = <<>> /\ seqs_before = {}

(* A packet arrives at any time.  Only flushInputBuffers looks, and reads  *)
(* until there is none, so it is enough to let packets arrive meanwhile.   *)
Receive ==
  /\ comm_pc = "flush"
  /\ \E p \in InPackets : Arrive(p)
  /\ UNCHANGED <<heard, asked, seqs_before>>

Begin ==
  /\ CommBegin
  /\ heard' = <<>> /\ asked' = <<>>
  /\ seqs_before' = {sent[i].seq : i \in DOMAIN sent}

(* There is a buffer for each of the packets q, and a place in the list.   *)
WithinLimits(q) ==
  /\ Len(q) <= PENDING_PACKETS_MAX
  /\ \A i \in DOMAIN q :
       Cardinality({k \in DOMAIN q : q[k].type = q[i].type}) <= PBUFNO

(* What comes in once there have been too many need not be remembered. *)
Flush ==
  /\ FlushOne
  /\ LET p == Head(uart_rx)
     IN heard' = IF p.type # "Noise" /\ WithinLimits(heard)
                 THEN Append(heard, p) ELSE heard
  /\ UNCHANGED <<asked, seqs_before>>

(* The epoch answers the packets that are pending now. *)
StartEpoch == FlushEnd /\ asked' = pending /\ UNCHANGED <<heard, seqs_before>>

Process == ProcessOne /\ UNCHANGED <<heard, asked, seqs_before>>

Finish == FinishEpoch /\ UNCHANGED <<heard, asked, seqs_before>>

Handle == Begin \/ Flush \/ StartEpoch \/ Process \/ Finish

Next == Handle \/ Receive

Spec == Init /\ [][Next]_vars
----------------------------------------------------------------------------
Replies == [type : DOMAIN Size, seq : 0 .. SeqRange - 1,
            p_type : {"none"} \cup {p.type : p \in InPackets},
            p_seq : {0} \cup {p.seq : p \in InPackets},
            p_result : {"none", "Success", "GenericError"}]

(* The state is well formed, the buffer never holds more than its          *)
(* capacity, and it is empty between two epochs.                           *)
TypeOK ==
  /\ comm_pc \in {"idle", "flush", "process"}
  /\ uart_rx \in Seq(InPackets)
  /\ pending \in Seq(InPackets) /\ Len(pending) <= PENDING_PACKETS_MAX
  /\ heard \in Seq(InPackets) /\ asked \in Seq(InPackets)
  /\ global_seq \in 0 .. SeqRange - 1
  /\ tx \in [q : Seq(Replies), size : 0 .. BUFFER_SIZE_MAX]
  /\ comm_pc # "process" => tx = EmptyTx
  /\ sent \in Seq(Replies)
  /\ params = [t \in ParamTypes |-> params[t]]
  /\ eeprom = [t \in ParamTypes |-> eeprom[t]]

Epoch == comm_pc = "idle" /\ sent # <<>>

Closed == Epoch /\ sent[Len(sent)].type = "EndEpoch"

(* Where the answers are among the packets q. *)
Answers(q) == {i \in DOMAIN q : q[i].type = "Response"}

(* Each answer among q belongs to one of the packets asks, in their order. *)
Matches(q, asks, question) ==
  \A i \in Answers(q) :
    /\ q[i].p_type = asks[question[i]].type
    /\ q[i].p_seq = asks[question[i]].seq
    /\ \A j \in Answers(q) : i < j => question[i] < question[j]

(* A client that matches answers to questions in the order it sent them is *)
(* right: what a full transmit buffer drops leaves the rest in order.      *)
AnswersInOrder ==
  Epoch => \E question \in [Answers(sent) -> DOMAIN asked] :
             Matches(sent, asked, question)

(* The most that the answers to a packet can take in the buffer. *)
Reply(p) ==
  Size["Response"] + 3 +
    (CASE p.type \in {"SystemParam", "JointParam", "DriveParam"} ->
            Size[p.type] + 3
       [] p.type = "ParamControl" -> Size["DriveParam"] + 3
       [] OTHER -> 0)

StatusBytes == Size["SystemStatus"] + 3 + Size["JointStatus"] + 3
                 + Size["DriveStatus"] + 3 + Size["EndEpoch"] + 3

(* The most that an epoch can have to say: its periodic packets, its end,  *)
(* and the answers to the first n of the packets q.                        *)
Demand(q) ==
  LET bytes[n \in 0 .. Len(q)] ==
        IF n = 0 THEN StatusBytes ELSE bytes[n - 1] + Reply(q[n])
  IN bytes

(* Nothing is dropped without need: if all that the epoch could have to    *)
(* say fits into an empty buffer, every packet is answered and the epoch   *)
(* is closed, whatever happened in the epochs before.                      *)
NoSpuriousDrop ==
  Epoch /\ Demand(asked)[Len(asked)] <= BUFFER_SIZE_MAX =>
    /\ Closed
    /\ \E question \in [Answers(sent) -> DOMAIN asked] :
         /\ Matches(sent, asked, question)
         /\ \A k \in DOMAIN asked : \E i \in Answers(sent) : question[i] = k

(* Sequence numbers tell epochs apart: all packets of an epoch carry one   *)
(* number, and no packet of the epoch before carries it.                   *)
EpochsDiffer ==
  Epoch => \A i \in DOMAIN sent :
             sent[i].seq = sent[1].seq /\ sent[i].seq \notin seqs_before

(* The parameters of type t that a packet carries, if it does. *)
Sets(p, t) == <<p.type, t>> \in {<<"SystemParam", "ParamSystem">>,
                                 <<"JointParam", "ParamJoints">>,
                                 <<"DriveParam", "ParamDrive">>}

Loads(p) == p.type = "ParamControl" /\ p.arg.action = "ParamLoad"

Saves(p, t) ==
  /\ p.type = "ParamControl"
  /\ p.arg = [action |-> "ParamSave", param_type |-> t]

(* The parameters ps and saved are what the first n of the packets asks    *)
(* leave behind.                                                           *)
LastWins(asks, n, ps, saved) ==
  \A t \in ParamTypes : \A k \in 1 .. n :
    /\ Sets(asks[k], t)
    /\ \A j \in k + 1 .. n : ~Sets(asks[j], t) /\ ~Loads(asks[j])
    => /\ ps[t] = asks[k].arg
       /\ (\E j \in k + 1 .. n : Saves(asks[j], t)) => saved[t] = asks[k].arg

(* The parameters are those of the last packet the robot accepted, and     *)
(* what is saved is that when a save came after it; and it accepts all     *)
(* that the client sends for one epoch, unless these are more than PBUFNO  *)
(* of a type or PENDING_PACKETS_MAX altogether.  Of more, the first ones   *)
(* win: they fill the buffers, and the last packet may be refused.         *)
LastParamsWin ==
  Epoch => /\ LastWins(asked, Len(asked), params, eeprom)
           /\ WithinLimits(heard) => asked = heard
=============================================================================
