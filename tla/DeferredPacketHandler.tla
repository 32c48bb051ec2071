----------------------- MODULE DeferredPacketHandler -----------------------
(***************************************************************************)
(* The deferred packet handler (src/common/deferred_packet_handler.c): a   *)
(* ring of packet buffers per type, filled by the byte receiver, and one   *)
(* list of pending packets over all the types, worked off by the main loop *)
(* in processPendingPackets.                                               *)
(*                                                                         *)
(* The receiver outlives a communication cycle: a packet whose first bytes *)
(* came in one flush of the UART may be completed in a later one, with     *)
(* processPendingPackets run in between.  Reception and processing never   *)
(* overlap otherwise: both run in the main loop.                           *)
(***************************************************************************)
EXTENDS Naturals, Sequences

CONSTANTS
  Types,                \* the packet types that may be installed
  NumBuffers,           \* num_buffers of the installPacket call of each type
  PENDING_PACKETS_MAX,
  Payloads,             \* contents the sender may put in a packet
  Partial,              \* content of a buffer that is being written
  NoPacket              \* no packet was handed to its action yet

ASSUME NumBuffersAssumption == NumBuffers \in [Types -> Nat \ {0}]
ASSUME PendingAssumption == PENDING_PACKETS_MAX \in Nat \ {0}
ASSUME PartialAssumption == Partial \notin Payloads

VARIABLES
  pc,                   \* "setup", "receive" or "process"
  operations,           \* the types with an entry in base_handler.operations
  infos,                \* packet_infos: max, size, start and end of each ring
  buffers,              \* content of packet_buffers[i] of each type
  pending_packets,      \* pending_packets[0..pending_packets_size-1]
  pnum,                 \* loop index of processPendingPackets
  rxFn,                 \* state of the byte receiver
  rx_type,              \* the packet type being received
  rx_slot,              \* the buffer rx_current_packet points to
  action_arg            \* the packet last passed to a deferred action

ringVars == <<infos, buffers>>
rxVars == <<rxFn, rx_type, rx_slot>>
vars == <<pc, operations, infos, buffers, pending_packets, pnum,
          rxFn, rx_type, rx_slot, action_arg>>

Slots(t) == 0 .. NumBuffers[t] - 1

(* Mistake: num_buffers is not stored. *)
EmptyInfo_OneBuffer(max) == [max |-> 1, size |-> 0, start |-> 0, end |-> 0]

EmptyInfo(max) == [max |-> max, size |-> 0, start |-> 0, end |-> 0]

(* DeferredPacketHandler_initialize: everything is zeroed. *)
Init ==
  /\ pc = "setup"
  /\ operations = {}
  /\ infos = [t \in Types |-> EmptyInfo(0)]
  /\ buffers = [t \in Types |-> [i \in Slots(t) |-> Partial]]
  /\ pending_packets = <<>>
  /\ pnum = 0
  /\ rxFn = "_rxAA"
  /\ rx_type \in Types
  /\ rx_slot = 0
  /\ action_arg = NoPacket

(* Mistake: the index wraps one too late. *)
Advance_OffByOne(i, max) == IF i + 1 > max THEN 0 ELSE i + 1

(* The next index in a ring of max buffers: ++idx; if (idx>=max) idx=0. *)
Advance(i, max) == IF i + 1 >= max THEN 0 ELSE i + 1

BUFFER_PUT(r) == [r EXCEPT !.end = Advance(r.end, r.max), !.size = r.size + 1]
(* Mistake: the first index stays behind. *)
BUFFER_GET_NoAdvance(r) == [r EXCEPT !.size = r.size - 1]

BUFFER_GET(r) == [r EXCEPT !.start = Advance(r.start, r.max),
                           !.size = r.size - 1]
----------------------------------------------------------------------------
(* The ring is written before the duplicate check of the base handler: an  *)
(* installPacket that fails with PacketInstallError has still reset it.    *)
installPacket(t) ==
  /\ pc = "setup"
  /\ infos' = [infos EXCEPT ![t] = EmptyInfo(NumBuffers[t])]
  /\ operations' = operations \cup {t}
  /\ UNCHANGED <<pc, buffers, pending_packets, pnum, rxVars, action_arg>>

SetupDone ==
  /\ pc = "setup"
  /\ pc' = "receive"
  /\ UNCHANGED <<operations, ringVars, pending_packets, pnum, rxVars,
                 action_arg>>

(* Mistake: a full ring is not refused. *)
HasRoom_Always(t) == TRUE

HasRoom(t) == infos[t].size < infos[t].max

(* _rxType and _rxSize of a known type: _initializeBuffer picks the buffer *)
(* at the end of the ring, or none if the ring is full (RxBufferError).    *)
initializeBuffer(t) ==
  /\ pc = "receive"
  /\ rxFn = "_rxAA"
  /\ t \in operations
  /\ HasRoom(t)
  /\ rxFn' = "_rxPayload"
  /\ rx_type' = t
  /\ rx_slot' = infos[t].end
  /\ buffers' = [buffers EXCEPT ![t][infos[t].end] = Partial]
  /\ UNCHANGED <<pc, operations, infos, pending_packets, pnum, action_arg>>

(* The last byte of the payload is written through rx_buffer_end. *)
rxWholePayload(p) ==
  /\ pc = "receive"
  /\ rxFn = "_rxPayload"
  /\ buffers' = [buffers EXCEPT ![rx_type][rx_slot] = p]
  /\ rxFn' = "_rxChecksum"
  /\ UNCHANGED <<pc, operations, infos, pending_packets, pnum, rx_type,
                 rx_slot, action_arg>>

(* A wrong checksum: the packet is forgotten, its buffer is reused. *)
rxChecksumError ==
  /\ pc = "receive"
  /\ rxFn = "_rxChecksum"
  /\ rxFn' = "_rxAA"
  /\ UNCHANGED <<pc, operations, ringVars, pending_packets, pnum, rx_type,
                 rx_slot, action_arg>>

(* Mistake: the limit of the list is off by one. *)
PendingFull_OffByOne == Len(pending_packets) > PENDING_PACKETS_MAX

PendingFull == Len(pending_packets) >= PENDING_PACKETS_MAX

(* The right checksum: the packet is queued, or silently dropped when the  *)
(* list of pending packets is full.                                        *)
onReceive ==
  /\ pc = "receive"
  /\ rxFn = "_rxChecksum"
  /\ rxFn' = "_rxAA"
  /\ IF PendingFull
     THEN UNCHANGED <<infos, pending_packets>>
     ELSE /\ pending_packets' = Append(pending_packets,
                                       [type |-> rx_type, slot |-> rx_slot])
          /\ infos' = [infos EXCEPT ![rx_type] = BUFFER_PUT(@)]
  /\ UNCHANGED <<pc, operations, buffers, pnum, rx_type, rx_slot, action_arg>>
----------------------------------------------------------------------------
(* Mistake: packets are collected until the list is full. *)
processBegin_OnlyWhenFull ==
  /\ pc = "receive"
  /\ Len(pending_packets) = PENDING_PACKETS_MAX
  /\ pc' = "process"
  /\ pnum' = 0
  /\ UNCHANGED <<operations, ringVars, pending_packets, rxVars, action_arg>>

(* processPendingPackets: the loop is entered, runs once for every pending *)
(* packet, and empties the list when it is over.                           *)
processBegin ==
  /\ pc = "receive"
  /\ pc' = "process"
  /\ pnum' = 0
  /\ UNCHANGED <<operations, ringVars, pending_packets, rxVars, action_arg>>

Pending(k) == pending_packets[k]

processOne ==
  /\ pc = "process"
  /\ pnum < Len(pending_packets)
  /\ LET p == Pending(pnum + 1)
     IN /\ action_arg' = [type |-> p.type, content |-> buffers[p.type][p.slot]]
        /\ infos' = [infos EXCEPT ![p.type] = BUFFER_GET(@)]
  /\ pnum' = pnum + 1
  /\ UNCHANGED <<pc, operations, buffers, pending_packets, rxVars>>

processEnd ==
  /\ pc = "process"
  /\ pnum = Len(pending_packets)
  /\ pending_packets' = <<>>
  /\ pnum' = 0
  /\ pc' = "receive"
  /\ UNCHANGED <<operations, ringVars, rxVars, action_arg>>

Next ==
  \/ SetupDone
  \/ rxChecksumError
  \/ onReceive
  \/ processBegin
  \/ processOne
  \/ processEnd
  \/ \E t \in Types : installPacket(t) \/ initializeBuffer(t)
  \/ \E p \in Payloads : rxWholePayload(p)

(* The main loop ends its setup, calls processPendingPackets in every      *)
(* communication cycle, and the loop runs to its end.                      *)
Fairness ==
  /\ WF_vars(SetupDone)
  /\ WF_vars(processBegin)
  /\ WF_vars(processOne)
  /\ WF_vars(processEnd)

Spec == Init /\ [][Next]_vars
FairSpec == Spec /\ Fairness
----------------------------------------------------------------------------
Info == [max : Nat, size : Nat, start : Nat, end : Nat]

(* The state is well formed. *)
TypeOK ==
  /\ pc \in {"setup", "receive", "process"}
  /\ operations \in SUBSET Types
  /\ infos \in [Types -> Info]
  /\ \A t \in operations : infos[t].max = NumBuffers[t]
  /\ buffers = [t \in Types |-> buffers[t]]
  /\ \A t \in Types : buffers[t] \in [Slots(t) -> Payloads \cup {Partial}]
  /\ pending_packets \in Seq([type : Types, slot : Nat])
  /\ pnum \in Nat
  /\ rxFn \in {"_rxAA", "_rxPayload", "_rxChecksum"}
  /\ rx_type \in Types
  /\ rx_slot \in Nat

(* The positions of the list that processPendingPackets has yet to visit. *)
Waiting == pnum + 1 .. Len(pending_packets)

(* The distance of buffer i of a ring from its first packet. *)
Rank(r, i) == IF i >= r.start THEN i - r.start ELSE i - r.start + r.max

(* The indices of a ring agree with its size. *)
WellFormedRing(r) ==
  /\ r.size <= r.max
  /\ r.start < r.max
  /\ r.end = IF r.start + r.size < r.max THEN r.start + r.size
                                         ELSE r.start + r.size - r.max

RingsOK == \A t \in operations : WellFormedRing(infos[t])

(* Every waiting packet lies in the occupied part of its ring ...         *)
WaitingOccupied ==
  \A k \in Waiting :
    LET p == Pending(k)
    IN /\ p.type \in operations
       /\ p.slot < NumBuffers[p.type]
       /\ Rank(infos[p.type], p.slot) < infos[p.type].size

(* ... every occupied buffer belongs to a waiting packet ...              *)
OccupiedWaiting ==
  \A t \in operations : \A i \in Slots(t) :
    Rank(infos[t], i) < infos[t].size =>
      \E k \in Waiting : Pending(k) = [type |-> t, slot |-> i]

(* ... and the packets of a type wait in the order of their buffers.      *)
WaitingOrdered ==
  \A k, l \in Waiting :
    k < l /\ Pending(k).type = Pending(l).type =>
      Rank(infos[Pending(k).type], Pending(k).slot)
        < Rank(infos[Pending(l).type], Pending(l).slot)

(* The list of pending packets, which interleaves the types in arrival     *)
(* order, and the ring of each type, which only counts, describe the same  *)
(* packets (_onReceive appends to both, the processing loop takes from     *)
(* both).                                                                  *)
RingsMatchPending ==
  RingsOK /\ WaitingOccupied /\ OccupiedWaiting /\ WaitingOrdered

(* assert of _onReceive: the packet that is completed is in the buffer at  *)
(* the end of its ring, although packets may have been processed since     *)
(* _initializeBuffer chose that buffer.                                    *)
ReceivedAtRingEnd ==
  rxFn # "_rxAA" => rx_slot = infos[rx_type].end

(* assert of processPendingPackets: the next pending packet is in the      *)
(* buffer at the start of its ring.                                        *)
ProcessedAtRingStart ==
  pc = "process" /\ pnum < Len(pending_packets) =>
    Pending(pnum + 1).slot = infos[Pending(pnum + 1).type].start

(* No assert of the code fails, deferred_packet_handler.c:30 and :87.      *)
AssertsHold == ReceivedAtRingEnd /\ ProcessedAtRingStart

(* The receiver never writes into a packet that waits for its action: no   *)
(* pending packet is the buffer under reception, and all are complete.     *)
PendingComplete ==
  \A k \in Waiting :
    LET p == Pending(k)
    IN /\ buffers[p.type][p.slot] # Partial
       /\ rxFn # "_rxAA" => <<p.type, p.slot>> # <<rx_type, rx_slot>>

(* What is pending is processed: the list is emptied again and again.      *)
PendingIsProcessed == pending_packets # <<>> ~> pending_packets = <<>>

(* The packets that wait for their action, in the order of the list.       *)
Content(p) == [type |-> p.type, content |-> buffers[p.type][p.slot]]

WaitingPackets == [k \in 1 .. Len(pending_packets) - pnum |->
                     Content(Pending(k + pnum))]

(* The handler implements the bounded queue of PendingQueue.               *)

PQ == INSTANCE PendingQueue WITH
        Packets <- [type : Types, content : Payloads],
        Bound <- PENDING_PACKETS_MAX,
        queue <- WaitingPackets,
        handed <- action_arg

(* Packets are handed to their actions once, in arrival order over all     *)
(* types, with the content they were received with.                        *)
ImplementsPendingQueue == PQ!Spec
=============================================================================
