------------------------ MODULE PacketHandlers_proofs ------------------------
(***************************************************************************)
(* Proofs about the two layers of the packet handlers.                     *)
(*                                                                         *)
(* DeferredPacketHandler, for any number of types, buffers and pending     *)
(* packets: IInv adds to the properties of the module what the phases of   *)
(* the program and the receiver keep.                                      *)
(*                                                                         *)
(* PacketHandler, for any types, packets and size of the transmit ring:    *)
(* LineInv says where the frames lie on the line and which part of the     *)
(* next one the receiver has read.                                         *)
(***************************************************************************)
EXTENDS DeferredPacketHandler, PacketHandler, SequenceTheorems,
        WellFoundedInduction, TLAPS

(* What holds in each phase of the program. *)
PhaseOK ==
  /\ pc = "setup" => rxFn = "_rxAA" /\ pending_packets = <<>>
  /\ pc # "process" => pnum = 0
  /\ pnum <= Len(pending_packets)
  /\ Len(pending_packets) <= PENDING_PACKETS_MAX

(* A packet under reception has a free buffer, the one at the ring's end. *)
ReceptionOK ==
  rxFn # "_rxAA" =>
    /\ rx_type \in operations
    /\ rx_slot = infos[rx_type].end
    /\ infos[rx_type].size < infos[rx_type].max
    /\ rxFn = "_rxChecksum" => buffers[rx_type][rx_slot] # Partial

(* Waiting packets have been received to the end. *)
WaitingComplete ==
  \A k \in Waiting : buffers[Pending(k).type][Pending(k).slot] # Partial

IInv ==
  /\ TypeOK
  /\ PhaseOK
  /\ RingsMatchPending
  /\ ReceptionOK
  /\ WaitingComplete
----------------------------------------------------------------------------
(* Facts about one ring. *)

(* The rank of a buffer is its distance from the start, below max.         *)
LEMMA RankRange ==
  ASSUME NEW r \in Info, WellFormedRing(r), NEW i \in 0 .. r.max - 1
  PROVE  Rank(r, i) \in 0 .. r.max - 1
  BY DEF Info, WellFormedRing, Rank

(* Ranks tell the buffers of a ring apart. *)
LEMMA RankInjective ==
  ASSUME NEW r \in Info, WellFormedRing(r),
         NEW i \in 0 .. r.max - 1, NEW j \in 0 .. r.max - 1,
         Rank(r, i) = Rank(r, j)
  PROVE  i = j
  BY DEF Info, WellFormedRing, Rank

(* The end of a ring with room is the first free buffer. *)
LEMMA EndRank ==
  ASSUME NEW r \in Info, WellFormedRing(r), r.size < r.max
  PROVE  r.end \in 0 .. r.max - 1 /\ Rank(r, r.end) = r.size
  BY DEF Info, WellFormedRing, Rank

(* The start of a ring has rank 0. *)
LEMMA StartRank ==
  ASSUME NEW r \in Info, WellFormedRing(r)
  PROVE  r.start \in 0 .. r.max - 1 /\ Rank(r, r.start) = 0
  BY DEF Info, WellFormedRing, Rank

(* BUFFER_PUT keeps a ring well formed and all ranks. *)
LEMMA PutRing ==
  ASSUME NEW r \in Info, WellFormedRing(r), r.size < r.max
  PROVE  /\ BUFFER_PUT(r) \in Info
         /\ WellFormedRing(BUFFER_PUT(r))
         /\ BUFFER_PUT(r).max = r.max
         /\ BUFFER_PUT(r).size = r.size + 1
         /\ \A i \in 0 .. r.max - 1 : Rank(BUFFER_PUT(r), i) = Rank(r, i)
<1> DEFINE e == Advance(r.end, r.max)
<1>1. BUFFER_PUT(r) \in [max : {r.max}, size : {r.size + 1},
                        start : {r.start}, end : {e}]
  BY DEF Info, BUFFER_PUT
<1>2. e \in Nat /\ e = IF r.start + r.size + 1 < r.max
                      THEN r.start + r.size + 1
                      ELSE r.start + r.size + 1 - r.max
  BY DEF Info, WellFormedRing, Advance
<1>3. BUFFER_PUT(r) \in Info
  BY <1>1, <1>2 DEF Info
<1>4. WellFormedRing(BUFFER_PUT(r))
  BY <1>1, <1>2 DEF Info, WellFormedRing
<1>5. \A i \in 0 .. r.max - 1 : Rank(BUFFER_PUT(r), i) = Rank(r, i)
  BY <1>1 DEF Rank
<1> QED
  BY <1>1, <1>3, <1>4, <1>5

(* BUFFER_GET keeps a ring well formed; the other buffers come one nearer. *)
LEMMA GetRing ==
  ASSUME NEW r \in Info, WellFormedRing(r), r.size > 0
  PROVE  /\ BUFFER_GET(r) \in Info
         /\ WellFormedRing(BUFFER_GET(r))
         /\ BUFFER_GET(r).max = r.max
         /\ BUFFER_GET(r).size = r.size - 1
         /\ BUFFER_GET(r).end = r.end
         /\ Rank(BUFFER_GET(r), r.start) = r.max - 1
         /\ \A i \in 0 .. r.max - 1 :
              i # r.start => Rank(BUFFER_GET(r), i) = Rank(r, i) - 1
<1> DEFINE s == Advance(r.start, r.max)
<1>1. BUFFER_GET(r) \in [max : {r.max}, size : {r.size - 1},
                        start : {s}, end : {r.end}]
  BY DEF Info, BUFFER_GET
<1>2. s \in Nat /\ s = IF r.start + 1 < r.max THEN r.start + 1 ELSE 0
  BY DEF Info, WellFormedRing, Advance
<1>3. BUFFER_GET(r) \in Info
  BY <1>1, <1>2 DEF Info
<1>4. WellFormedRing(BUFFER_GET(r))
  BY <1>1, <1>2 DEF Info, WellFormedRing
<1>5. Rank(BUFFER_GET(r), r.start) = r.max - 1
  BY <1>1, <1>2 DEF Rank, Info, WellFormedRing
<1>6. ASSUME NEW i \in 0 .. r.max - 1, i # r.start
      PROVE  Rank(BUFFER_GET(r), i) = Rank(r, i) - 1
  BY <1>1, <1>2, <1>6 DEF Rank, Info, WellFormedRing
<1> QED
  BY <1>1, <1>3, <1>4, <1>5, <1>6
----------------------------------------------------------------------------
(* The initial state satisfies the invariant. *)
LEMMA InitIInv == Init => IInv
<1> SUFFICES ASSUME Init PROVE IInv
  OBVIOUS
<1> USE DEF Init
<1>1. TypeOK
  BY DEF TypeOK, Info, EmptyInfo, Slots
<1>2. PhaseOK
  BY PendingAssumption DEF PhaseOK
<1>3. RingsMatchPending
  BY DEF RingsMatchPending, RingsOK, WaitingOccupied, OccupiedWaiting,
         WaitingOrdered, Waiting
<1>4. ReceptionOK /\ WaitingComplete
  BY DEF ReceptionOK, WaitingComplete, Waiting
<1> QED
  BY <1>1, <1>2, <1>3, <1>4 DEF IInv

(* installPacket starts an empty ring; nothing is pending during setup.    *)
LEMMA InstallIInv ==
  ASSUME IInv, NEW t \in Types, installPacket(t)
  PROVE  IInv'
<1> USE DEF IInv, installPacket, ringVars, rxVars
<1>1. infos'[t] = EmptyInfo(NumBuffers[t]) /\ NumBuffers[t] \in Nat \ {0}
  BY NumBuffersAssumption DEF TypeOK
<1>2. \A u \in Types : u # t => infos'[u] = infos[u]
  BY DEF TypeOK
<1>3. TypeOK'
  BY <1>1, <1>2 DEF TypeOK, Info, EmptyInfo
<1>4. PhaseOK'
  BY DEF PhaseOK
<1>5. Waiting = {} /\ Waiting' = {}
  BY DEF PhaseOK, Waiting
<1>6. RingsOK'
  BY <1>1, <1>2 DEF RingsOK, RingsMatchPending, WellFormedRing, EmptyInfo,
                    TypeOK
<1>7. OccupiedWaiting'
  <2> SUFFICES ASSUME NEW u \in operations', NEW i \in Slots(u)
               PROVE  ~(Rank(infos'[u], i) < infos'[u].size)
    BY DEF OccupiedWaiting
  <2>1. CASE u = t
    BY <1>1, <2>1 DEF Rank, EmptyInfo, Slots
  <2>2. CASE u # t
    BY <1>2, <1>5, <2>2 DEF TypeOK, RingsMatchPending, OccupiedWaiting
  <2> QED
    BY <2>1, <2>2
<1>8. RingsMatchPending'
  BY <1>5, <1>6, <1>7
  DEF RingsMatchPending, WaitingOccupied, WaitingOrdered
<1>9. ReceptionOK' /\ WaitingComplete'
  BY <1>5 DEF PhaseOK, ReceptionOK, WaitingComplete
<1> QED
  BY <1>3, <1>4, <1>8, <1>9

(* Writing into the buffer at the end of a ring with room leaves the       *)
(* waiting packets alone.                                                  *)
LEMMA WriteIInv ==
  ASSUME IInv, NEW t \in operations, NEW c \in Payloads \cup {Partial},
         infos[t].size < infos[t].max,
         buffers' = [buffers EXCEPT ![t][infos[t].end] = c],
         UNCHANGED <<operations, infos, pending_packets, pnum>>
  PROVE  /\ buffers' = [u \in Types |-> buffers'[u]]
         /\ \A u \in Types : buffers'[u] \in [Slots(u) -> Payloads \cup {Partial}]
         /\ buffers'[t][infos[t].end] = c
         /\ \A k \in Waiting : buffers'[Pending(k).type][Pending(k).slot]
                                 = buffers[Pending(k).type][Pending(k).slot]
<1> USE DEF IInv
<1>1. t \in Types /\ infos[t] \in Info /\ infos[t].max = NumBuffers[t]
  BY DEF TypeOK
<1>2. WellFormedRing(infos[t])
  BY DEF RingsMatchPending, RingsOK
<1>3. infos[t].end \in Slots(t) /\ Rank(infos[t], infos[t].end) = infos[t].size
  BY <1>1, <1>2, EndRank DEF Slots
<1>4. \A u \in Types : buffers'[u] \in [Slots(u) -> Payloads \cup {Partial}]
  BY <1>1 DEF TypeOK
<1>5. ASSUME NEW k \in Waiting
      PROVE  buffers'[Pending(k).type][Pending(k).slot]
               = buffers[Pending(k).type][Pending(k).slot]
  <2>1. Pending(k).type \in operations /\
        Rank(infos[Pending(k).type], Pending(k).slot)
          < infos[Pending(k).type].size
    BY DEF RingsMatchPending, WaitingOccupied
  <2>2. CASE Pending(k).type = t
    <3>1. Pending(k).slot # infos[t].end
      BY <1>1, <1>3, <2>1, <2>2 DEF Info
    <3> QED
      BY <1>1, <2>2, <3>1 DEF TypeOK
  <2>3. CASE Pending(k).type # t
    BY <1>1, <2>1, <2>3 DEF TypeOK
  <2> QED
    BY <2>2, <2>3
<1> QED
  BY <1>1, <1>3, <1>4, <1>5 DEF TypeOK

(* A step that leaves rings, list and loop index alone keeps their match.  *)
LEMMA UnchangedMatch ==
  ASSUME RingsMatchPending,
         UNCHANGED <<operations, infos, pending_packets, pnum>>
  PROVE  RingsMatchPending' /\ Waiting' = Waiting
  BY DEF RingsMatchPending, RingsOK, WaitingOccupied, OccupiedWaiting,
         WaitingOrdered, Waiting, Pending

(* _initializeBuffer *)
LEMMA InitializeBufferIInv ==
  ASSUME IInv, NEW t \in Types, initializeBuffer(t)
  PROVE  IInv'
<1> USE DEF IInv, initializeBuffer, HasRoom
<1>1. /\ buffers' = [u \in Types |-> buffers'[u]]
      /\ \A u \in Types : buffers'[u] \in [Slots(u) -> Payloads \cup {Partial}]
      /\ \A k \in Waiting : buffers'[Pending(k).type][Pending(k).slot]
                              = buffers[Pending(k).type][Pending(k).slot]
  BY WriteIInv
<1>2. RingsMatchPending' /\ Waiting' = Waiting
  BY UnchangedMatch
<1>3. TypeOK'
  BY <1>1 DEF TypeOK, Info
<1>4. PhaseOK'
  BY DEF PhaseOK
<1>5. ReceptionOK'
  BY DEF ReceptionOK
<1>6. WaitingComplete'
  BY <1>1, <1>2 DEF WaitingComplete, Pending
<1> QED
  BY <1>2, <1>3, <1>4, <1>5, <1>6

(* The last byte of the payload *)
LEMMA RxPayloadIInv ==
  ASSUME IInv, NEW p \in Payloads, rxWholePayload(p)
  PROVE  IInv'
<1> USE DEF IInv, rxWholePayload
<1>0. /\ rx_type \in operations /\ infos[rx_type].size < infos[rx_type].max
      /\ rx_slot = infos[rx_type].end
      /\ p \in Payloads \cup {Partial}
      /\ buffers' = [buffers EXCEPT ![rx_type][infos[rx_type].end] = p]
      /\ UNCHANGED <<operations, infos, pending_packets, pnum>>
  BY DEF ReceptionOK
<1>1. /\ buffers' = [u \in Types |-> buffers'[u]]
      /\ \A u \in Types : buffers'[u] \in [Slots(u) -> Payloads \cup {Partial}]
      /\ buffers'[rx_type][rx_slot] = p
      /\ \A k \in Waiting : buffers'[Pending(k).type][Pending(k).slot]
                              = buffers[Pending(k).type][Pending(k).slot]
  <2> HIDE DEF IInv, rxWholePayload
  <2> QED BY <1>0, WriteIInv, Zenon
<1>2. RingsMatchPending' /\ Waiting' = Waiting
  BY UnchangedMatch
<1>3. TypeOK'
  BY <1>1 DEF TypeOK
<1>4. PhaseOK'
  BY DEF PhaseOK
<1>5. ReceptionOK'
  BY <1>1, PartialAssumption DEF ReceptionOK
<1>6. WaitingComplete'
  BY <1>1, <1>2 DEF WaitingComplete, Pending
<1> QED
  BY <1>2, <1>3, <1>4, <1>5, <1>6

(* A wrong checksum, the end of the setup and the start of the loop touch  *)
(* neither rings nor list.                                                 *)
LEMMA ControlIInv ==
  ASSUME IInv, rxChecksumError \/ SetupDone \/ processBegin
  PROVE  IInv'
<1> USE DEF IInv, ringVars, rxVars
<1>1. /\ UNCHANGED <<operations, infos, buffers, pending_packets, rx_type,
                     rx_slot>>
      /\ rxFn' \in {rxFn, "_rxAA"}
  BY DEF rxChecksumError, SetupDone, processBegin
<1>2. pnum' = pnum /\ pnum \in Nat
  BY DEF rxChecksumError, SetupDone, processBegin, PhaseOK, TypeOK
<1>3. RingsMatchPending' /\ Waiting' = Waiting
  BY <1>1, <1>2, UnchangedMatch
<1>4. TypeOK'
  BY <1>1, <1>2 DEF TypeOK, rxChecksumError, SetupDone, processBegin
<1>5. PhaseOK'
  BY <1>1, <1>2 DEF PhaseOK, rxChecksumError, SetupDone, processBegin
<1>6. ReceptionOK'
  BY <1>1 DEF ReceptionOK
<1>7. WaitingComplete'
  BY <1>1, <1>3 DEF WaitingComplete, Pending
<1> QED
  BY <1>3, <1>4, <1>5, <1>6, <1>7

(* _onReceive *)
LEMMA OnReceiveIInv ==
  ASSUME IInv, onReceive
  PROVE  IInv'
<1> USE DEF IInv, onReceive, Pending, PendingFull
<1>1. CASE Len(pending_packets) >= PENDING_PACKETS_MAX
  <2>1. UNCHANGED <<operations, infos, buffers, pending_packets, pnum, pc>>
    BY <1>1
  <2>2. RingsMatchPending' /\ Waiting' = Waiting
    BY <2>1, UnchangedMatch
  <2> QED
    BY <2>1, <2>2
    DEF TypeOK, PhaseOK, ReceptionOK, WaitingComplete, Pending
<1>2. CASE ~(Len(pending_packets) >= PENDING_PACKETS_MAX)
  <2> DEFINE n == Len(pending_packets) + 1
             e == [type |-> rx_type, slot |-> rx_slot]
             r == infos[rx_type]
  <2>1. /\ rx_type \in operations /\ rx_type \in Types
        /\ rx_slot = r.end /\ r \in Info /\ r.size < r.max
        /\ WellFormedRing(r) /\ r.max = NumBuffers[rx_type]
        /\ buffers[rx_type][rx_slot] # Partial
    BY DEF ReceptionOK, TypeOK, RingsMatchPending, RingsOK
  <2>2. /\ pending_packets' = Append(pending_packets, e)
        /\ infos' = [infos EXCEPT ![rx_type] = BUFFER_PUT(r)]
        /\ UNCHANGED <<pc, operations, buffers, pnum, rx_type, rx_slot>>
        /\ rxFn' = "_rxAA"
    BY <1>2
  <2>3. /\ Len(pending_packets') = n
        /\ n \in Nat
        /\ pending_packets'[n] = e
        /\ \A k \in 1 .. Len(pending_packets) :
             pending_packets'[k] = pending_packets[k]
    BY <2>1, <2>2 DEF TypeOK
  <2>4. pnum = 0 /\ Waiting = 1 .. Len(pending_packets) /\ Waiting' = 1 .. n
    BY <2>2, <2>3 DEF PhaseOK, Waiting
  <2>5. /\ BUFFER_PUT(r) \in Info
        /\ WellFormedRing(BUFFER_PUT(r))
        /\ BUFFER_PUT(r).max = r.max
        /\ BUFFER_PUT(r).size = r.size + 1
        /\ \A i \in 0 .. r.max - 1 : Rank(BUFFER_PUT(r), i) = Rank(r, i)
        /\ r.end \in 0 .. r.max - 1
        /\ Rank(r, r.end) = r.size
    BY <2>1, PutRing, EndRank
  <2>6. /\ infos'[rx_type] = BUFFER_PUT(r)
        /\ \A t \in Types : t # rx_type => infos'[t] = infos[t]
    BY <2>1, <2>2 DEF TypeOK
  <2>7. TypeOK'
    <3>1. infos' \in [Types -> Info]
      BY <2>1, <2>2, <2>5 DEF TypeOK
    <3>2. \A t \in operations' : infos'[t].max = NumBuffers[t]
      BY <2>1, <2>2, <2>5, <2>6 DEF TypeOK
    <3>3. pending_packets' \in Seq([type : Types, slot : Nat])
      BY <2>1, <2>2 DEF TypeOK
    <3> QED
      BY <2>2, <3>1, <3>2, <3>3 DEF TypeOK
  <2>8. PhaseOK'
    BY <1>2, <2>2, <2>3, <2>4, PendingAssumption DEF PhaseOK, TypeOK
  <2>9. RingsOK'
    BY <2>1, <2>2, <2>5, <2>6
    DEF RingsOK, RingsMatchPending, TypeOK
  \* Ranks and sizes of the packets that were waiting already.
  <2>10. \A t \in operations : \A i \in Slots(t) :
           /\ Rank(infos'[t], i) = Rank(infos[t], i)
           /\ infos'[t].size = IF t = rx_type THEN infos[t].size + 1
                                              ELSE infos[t].size
    <3> SUFFICES ASSUME NEW t \in operations, NEW i \in Slots(t)
                 PROVE  /\ Rank(infos'[t], i) = Rank(infos[t], i)
                        /\ infos'[t].size = IF t = rx_type
                                            THEN infos[t].size + 1
                                            ELSE infos[t].size
      OBVIOUS
    <3>1. t \in Types
      BY DEF TypeOK
    <3>2. CASE t = rx_type
      <4>1. i \in 0 .. r.max - 1
        BY <2>1, <3>2 DEF Slots
      <4> QED
        BY <2>5, <2>6, <3>2, <4>1
    <3>3. CASE t # rx_type
      BY <2>6, <3>1, <3>3
    <3> QED
      BY <3>2, <3>3
  <2>11. \A k \in Waiting :
           /\ Pending(k)' = Pending(k)
           /\ Pending(k).type \in operations
           /\ Pending(k).slot \in Slots(Pending(k).type)
           /\ Rank(infos[Pending(k).type], Pending(k).slot)
                < infos[Pending(k).type].size
    <3> SUFFICES ASSUME NEW k \in 1 .. Len(pending_packets)
                 PROVE  /\ Pending(k)' = Pending(k)
                        /\ Pending(k).type \in operations
                        /\ Pending(k).slot \in Slots(Pending(k).type)
                        /\ Rank(infos[Pending(k).type], Pending(k).slot)
                             < infos[Pending(k).type].size
      BY <2>4
    <3>1. Pending(k)' = Pending(k)
      BY <2>3 DEF Pending
    <3>2. pending_packets[k] \in [type : Types, slot : Nat]
      BY ElementOfSeq DEF TypeOK
    <3>3. /\ Pending(k).type \in operations
          /\ Pending(k).slot < NumBuffers[Pending(k).type]
          /\ Rank(infos[Pending(k).type], Pending(k).slot)
               < infos[Pending(k).type].size
      BY <2>4 DEF RingsMatchPending, WaitingOccupied
    <3> QED
      BY <3>1, <3>2, <3>3, NumBuffersAssumption DEF Slots
  <2>12. pending_packets'[n] = e /\ rx_slot \in Slots(rx_type)
         /\ Rank(infos'[rx_type], rx_slot) = r.size
    <3>1. rx_slot \in 0 .. r.max - 1
      BY <2>1, <2>5
    <3>2. Rank(BUFFER_PUT(r), rx_slot) = r.size
      BY <2>1, <2>5, <3>1
    <3> QED
      <4>1. pending_packets'[n] = e
        BY <2>3
      <4>2. rx_slot \in Slots(rx_type)
        BY <2>1, <3>1 DEF Slots
      <4> QED
        BY <2>6, <3>2, <4>1, <4>2
  <2>13. \A t \in operations : \A i \in Slots(t) :
           /\ infos[t].size \in Nat
           /\ Rank(infos[t], i) \in Nat
    BY RankRange DEF TypeOK, Info, RingsMatchPending, RingsOK, Slots
  <2>14. WaitingOccupied'
    <3> SUFFICES ASSUME NEW k \in 1 .. n
                 PROVE  LET p == Pending(k)'
                        IN /\ p.type \in operations
                           /\ p.slot < NumBuffers[p.type]
                           /\ Rank(infos'[p.type], p.slot)
                                < infos'[p.type].size
      BY <2>2, <2>4 DEF WaitingOccupied
    <3>1. CASE k = n
      <4>1. Pending(k)' = e
        BY <2>12, <3>1
      <4>2. rx_slot < NumBuffers[rx_type]
        BY <2>1, <2>12, NumBuffersAssumption DEF Slots
      <4>3. infos'[rx_type].size = r.size + 1
            /\ Rank(infos'[rx_type], rx_slot) = r.size /\ r.size \in Nat
        BY <2>1, <2>5, <2>6, <2>12 DEF Info
      <4> HIDE DEF r
      <4> QED BY <2>1, <4>1, <4>2, <4>3
    <3>2. CASE k # n
      <4>1. k \in Waiting
        BY <2>3, <2>4, <3>2
      <4> DEFINE p == pending_packets[k]
      <4>2. /\ pending_packets'[k] = p
            /\ p.type \in operations /\ p.slot \in Slots(p.type)
            /\ Rank(infos[p.type], p.slot) < infos[p.type].size
        BY <2>11, <4>1
      <4>3. p.slot < NumBuffers[p.type]
        <5>1. p.type \in Types
          BY <4>2 DEF TypeOK
        <5>2. NumBuffers[p.type] \in Nat \ {0}
          BY <5>1, NumBuffersAssumption
        <5> QED
          BY <4>2, <5>2 DEF Slots
      <4>4. Rank(infos'[p.type], p.slot) < infos'[p.type].size
        BY <2>10, <2>13, <4>2
      <4> QED
        BY <4>2, <4>3, <4>4
    <3> QED
      BY <3>1, <3>2
  <2>15. OccupiedWaiting'
    <3> SUFFICES ASSUME NEW t \in operations, NEW i \in Slots(t),
                        Rank(infos'[t], i) < infos'[t].size
                 PROVE  \E k \in 1 .. n :
                          Pending(k)' = [type |-> t, slot |-> i]
      BY <2>2, <2>4 DEF OccupiedWaiting
    <3>1. CASE Rank(infos[t], i) < infos[t].size
      <4>1. PICK k \in Waiting : Pending(k) = [type |-> t, slot |-> i]
        BY <3>1 DEF RingsMatchPending, OccupiedWaiting
      <4> QED
        BY <2>3, <2>4, <2>11, <4>1
    <3>2. CASE ~(Rank(infos[t], i) < infos[t].size)
      <4>1. t = rx_type /\ Rank(r, i) = r.size
        BY <2>10, <2>13, <3>2
      <4>2. i = r.end
        BY <2>1, <2>5, <4>1, RankInjective DEF Slots
      <4> QED
        BY <2>1, <2>3, <2>12, <4>1, <4>2
    <3> QED
      BY <3>1, <3>2
  <2>16. WaitingOrdered'
    <3> SUFFICES ASSUME NEW k \in 1 .. n, NEW l \in 1 .. n, k < l,
                        Pending(k)'.type = Pending(l)'.type
                 PROVE  Rank(infos'[Pending(k)'.type], Pending(k)'.slot)
                          < Rank(infos'[Pending(l)'.type], Pending(l)'.slot)
      BY <2>4 DEF WaitingOrdered
    <3>1. k \in Waiting
      BY <2>3, <2>4
    <3>2. CASE l = n
      BY <2>1, <2>10, <2>11, <2>12, <3>1, <3>2
    <3>3. CASE l # n
      <4>1. l \in Waiting
        BY <2>3, <2>4, <3>3
      <4> QED
        BY <2>10, <2>11, <3>1, <4>1 DEF RingsMatchPending, WaitingOrdered
    <3> QED
      BY <3>2, <3>3
  <2>17. WaitingComplete'
    <3> SUFFICES ASSUME NEW k \in 1 .. n
                 PROVE  buffers[Pending(k)'.type][Pending(k)'.slot] # Partial
      BY <2>2, <2>4 DEF WaitingComplete
    <3>1. CASE k = n
      BY <2>1, <2>12, <3>1
    <3>2. CASE k # n
      BY <2>3, <2>4, <2>11, <3>2 DEF WaitingComplete
    <3> QED
      BY <3>1, <3>2
  <2>18. ReceptionOK'
    BY <2>2 DEF ReceptionOK
  <2> QED
    BY <2>7, <2>8, <2>9, <2>14, <2>15, <2>16, <2>17, <2>18
    DEF RingsMatchPending
<1> QED
  BY <1>1, <1>2

(* A waiting packet is in the occupied part of a well-formed ring.         *)
LEMMA WaitingFacts ==
  ASSUME IInv, NEW k \in Waiting
  PROVE  LET p == pending_packets[k]
             r == infos[p.type]
         IN /\ k \in 1 .. Len(pending_packets)
            /\ p \in [type : Types, slot : Nat]
            /\ p.type \in operations
            /\ r \in Info /\ WellFormedRing(r) /\ r.max = NumBuffers[p.type]
            /\ p.slot \in 0 .. r.max - 1
            /\ Rank(r, p.slot) \in 0 .. r.size - 1
<1> DEFINE p == pending_packets[k]
           r == infos[p.type]
<1>1. k \in 1 .. Len(pending_packets)
  BY DEF IInv, TypeOK, Waiting
<1>2. p \in [type : Types, slot : Nat]
  BY <1>1, ElementOfSeq DEF IInv, TypeOK
<1>3. /\ p.type \in operations /\ p.slot < NumBuffers[p.type]
      /\ Rank(r, p.slot) < r.size
  BY DEF IInv, RingsMatchPending, WaitingOccupied, Pending
<1>4. r \in Info /\ r.max = NumBuffers[p.type]
  BY <1>2, <1>3 DEF IInv, TypeOK
<1>5. WellFormedRing(r)
  BY <1>3 DEF IInv, RingsMatchPending, RingsOK
<1>6. p.slot \in 0 .. r.max - 1 /\ r.size \in Nat
  BY <1>2, <1>3, <1>4 DEF Info
<1>7. Rank(r, p.slot) \in 0 .. r.max - 1
  BY <1>4, <1>5, <1>6, RankRange
<1> QED
  BY <1>1, <1>2, <1>3, <1>4, <1>5, <1>6, <1>7

(* The first waiting packet is at the start of its ring: the packet there  *)
(* has rank 0, waits too, and no packet of its type waits before it.       *)
LEMMA FirstWaitingAtStart ==
  ASSUME IInv, pnum < Len(pending_packets)
  PROVE  /\ pnum + 1 \in Waiting
         /\ pending_packets[pnum + 1].slot
              = infos[pending_packets[pnum + 1].type].start
<1> DEFINE k == pnum + 1
           p == pending_packets[k]
           r == infos[p.type]
<1>1. k \in Waiting
  BY DEF IInv, TypeOK, Waiting
<1>2. /\ p \in [type : Types, slot : Nat] /\ p.type \in operations
      /\ r \in Info /\ WellFormedRing(r) /\ r.max = NumBuffers[p.type]
      /\ p.slot \in 0 .. r.max - 1 /\ Rank(r, p.slot) \in 0 .. r.size - 1
  BY <1>1, WaitingFacts
<1>3. r.start \in 0 .. r.max - 1 /\ Rank(r, r.start) = 0
  BY <1>2, StartRank
<1>4. PICK l \in Waiting :
        pending_packets[l] = [type |-> p.type, slot |-> r.start]
  <2>1. r.start \in Slots(p.type) /\ Rank(r, r.start) < r.size
    BY <1>2, <1>3 DEF Slots, Info
  <2> QED
    BY <1>2, <2>1 DEF IInv, RingsMatchPending, OccupiedWaiting, Pending
<1>5. CASE l = k
  BY <1>1, <1>4, <1>5
<1>6. CASE l # k
  <2>1. k < l
    BY <1>6 DEF Waiting, IInv, TypeOK
  <2>2. Rank(r, p.slot) < Rank(r, r.start)
    BY <1>1, <1>4, <2>1
    DEF IInv, RingsMatchPending, WaitingOrdered, Pending
  <2> QED
    BY <1>2, <1>3, <2>2
<1> QED
  BY <1>1, <1>5, <1>6

(* One turn of the loop of processPendingPackets *)
LEMMA ProcessOneIInv ==
  ASSUME IInv, processOne
  PROVE  IInv'
<1> USE DEF processOne, Pending
<1> DEFINE h == pnum + 1
           p == pending_packets[h]
           r == infos[p.type]
<1>1. h \in Waiting /\ p.slot = r.start
  BY FirstWaitingAtStart
<1>2. /\ p \in [type : Types, slot : Nat] /\ p.type \in operations
      /\ r \in Info /\ WellFormedRing(r) /\ r.max = NumBuffers[p.type]
      /\ r.size > 0
  BY <1>1, WaitingFacts DEF Info
<1>3. /\ infos' = [infos EXCEPT ![p.type] = BUFFER_GET(r)]
      /\ pnum' = h
      /\ UNCHANGED <<pc, operations, buffers, pending_packets, rxFn, rx_type,
                     rx_slot>>
  BY DEF rxVars
<1>4. /\ BUFFER_GET(r) \in Info
      /\ WellFormedRing(BUFFER_GET(r))
      /\ BUFFER_GET(r).max = r.max
      /\ BUFFER_GET(r).size = r.size - 1
      /\ BUFFER_GET(r).end = r.end
      /\ Rank(BUFFER_GET(r), r.start) = r.max - 1
      /\ \A i \in 0 .. r.max - 1 :
           i # r.start => Rank(BUFFER_GET(r), i) = Rank(r, i) - 1
  BY <1>2, GetRing
<1>5. /\ infos'[p.type] = BUFFER_GET(r)
      /\ \A t \in Types : t # p.type => infos'[t] = infos[t]
  BY <1>2, <1>3 DEF IInv, TypeOK
<1>6. pnum \in Nat /\ Waiting' = Waiting \ {h} /\ h <= Len(pending_packets)
  BY <1>3 DEF IInv, TypeOK, Waiting
<1>7. TypeOK'
  <2>1. infos' \in [Types -> Info]
    BY <1>3, <1>4 DEF IInv, TypeOK
  <2>2. \A t \in operations' : infos'[t].max = NumBuffers[t]
    BY <1>2, <1>3, <1>4, <1>5 DEF IInv, TypeOK
  <2>3. pnum' \in Nat
    BY <1>3, <1>6
  <2> QED
    BY <1>3, <2>1, <2>2, <2>3 DEF IInv, TypeOK
<1>8. PhaseOK'
  BY <1>3, <1>6 DEF IInv, PhaseOK
<1>9. RingsOK'
  BY <1>2, <1>3, <1>4, <1>5 DEF IInv, TypeOK, RingsMatchPending, RingsOK
\* The packets that go on waiting: of another type, or one nearer to the start.
<1>10. ASSUME NEW k \in Waiting'
       PROVE  LET q == pending_packets[k]
              IN /\ k \in Waiting
                 /\ q \in [type : Types, slot : Nat]
                 /\ q.type \in operations
                 /\ q.slot < NumBuffers[q.type]
                 /\ IF q.type = p.type
                    THEN /\ Rank(infos'[q.type], q.slot)
                              = Rank(infos[q.type], q.slot) - 1
                         /\ infos'[q.type].size = infos[q.type].size - 1
                    ELSE infos'[q.type] = infos[q.type]
                 /\ Rank(infos[q.type], q.slot)
                      \in 0 .. infos[q.type].size - 1
                 /\ infos[q.type].size \in Nat
  <2> DEFINE q == pending_packets[k]
  <2>1. k \in Waiting /\ k > h
    BY <1>6 DEF Waiting
  <2>2. /\ q \in [type : Types, slot : Nat] /\ q.type \in operations
        /\ infos[q.type] \in Info
        /\ infos[q.type].max = NumBuffers[q.type]
        /\ q.slot \in 0 .. infos[q.type].max - 1
        /\ Rank(infos[q.type], q.slot) \in 0 .. infos[q.type].size - 1
    BY <2>1, WaitingFacts
  <2>3. CASE q.type = p.type
    <3>1. Rank(r, p.slot) < Rank(r, q.slot)
      BY <1>1, <2>1, <2>3 DEF IInv, RingsMatchPending, WaitingOrdered
    <3>2. q.slot # r.start
      BY <1>1, <1>2, <2>2, <2>3, <3>1
    <3>3. q.slot < NumBuffers[q.type] /\ infos[q.type].size \in Nat
      BY <2>2 DEF Info
    <3>4. /\ Rank(BUFFER_GET(r), q.slot) = Rank(r, q.slot) - 1
          /\ BUFFER_GET(r).size = r.size - 1
      BY <1>4, <2>2, <2>3, <3>2
    <3>5. /\ Rank(infos'[q.type], q.slot) = Rank(infos[q.type], q.slot) - 1
          /\ infos'[q.type].size = infos[q.type].size - 1
      BY <1>5, <2>3, <3>4
    <3> QED
      BY <2>1, <2>2, <2>3, <3>3, <3>5
  <2>4. CASE q.type # p.type
    BY <1>5, <2>1, <2>2, <2>4 DEF Info
  <2> QED
    BY <2>3, <2>4
<1>11. WaitingOccupied'
  <2> SUFFICES ASSUME NEW k \in Waiting'
               PROVE  LET q == pending_packets[k]
                      IN /\ q.type \in operations
                         /\ q.slot < NumBuffers[q.type]
                         /\ Rank(infos'[q.type], q.slot) < infos'[q.type].size
    BY <1>3 DEF WaitingOccupied
  <2> QED
    BY <1>10
<1>12. OccupiedWaiting'
  <2> SUFFICES ASSUME NEW t \in operations, NEW i \in Slots(t),
                      Rank(infos'[t], i) < infos'[t].size
               PROVE  \E k \in Waiting' :
                        pending_packets[k] = [type |-> t, slot |-> i]
    BY <1>3 DEF OccupiedWaiting
  <2>1. t \in Types /\ infos[t] \in Info /\ WellFormedRing(infos[t])
        /\ infos[t].max = NumBuffers[t]
    BY DEF IInv, TypeOK, RingsMatchPending, RingsOK
  <2>2. CASE t = p.type
    <3>1. i \in 0 .. r.max - 1
      BY <1>2, <2>2 DEF Slots
    <3>2. i # r.start
      <4>1. infos'[t] = BUFFER_GET(r)
        BY <1>5, <2>2
      <4>2. Rank(BUFFER_GET(r), i) < r.size - 1
        BY <1>4, <4>1
      <4>3. r.size <= r.max /\ r.size \in Nat /\ r.max \in Nat
        BY <1>2 DEF Info, WellFormedRing
      <4>4. ~(r.max - 1 < r.size - 1)
        BY <4>3
      <4> QED BY <1>4, <4>2, <4>4
    <3>3. Rank(r, i) < r.size
      <4>1. Rank(r, i) \in 0 .. r.max - 1
        BY <1>2, <3>1, RankRange
      <4>2. Rank(r, i) - 1 < r.size - 1
        BY <1>4, <1>5, <2>2, <3>1, <3>2
      <4> QED
        BY <1>2, <4>1, <4>2 DEF Info
    <3>4. PICK k \in Waiting : pending_packets[k] = [type |-> t, slot |-> i]
      BY <2>2, <3>3 DEF IInv, RingsMatchPending, OccupiedWaiting
    <3>5. k # h
      BY <1>1, <2>2, <3>2, <3>4
    <3> QED
      BY <1>6, <3>4, <3>5
  <2>3. CASE t # p.type
    <3>1. PICK k \in Waiting : pending_packets[k] = [type |-> t, slot |-> i]
      BY <1>5, <2>1, <2>3 DEF IInv, RingsMatchPending, OccupiedWaiting
    <3>2. k # h
      BY <2>3, <3>1
    <3> QED
      BY <1>6, <3>1, <3>2
  <2> QED
    BY <2>2, <2>3
<1>13. WaitingOrdered'
  <2> SUFFICES ASSUME NEW k \in Waiting', NEW l \in Waiting', k < l,
                      pending_packets[k].type = pending_packets[l].type
               PROVE  Rank(infos'[pending_packets[k].type],
                           pending_packets[k].slot)
                        < Rank(infos'[pending_packets[l].type],
                               pending_packets[l].slot)
    BY <1>3 DEF WaitingOrdered
  <2>1. Rank(infos[pending_packets[k].type], pending_packets[k].slot)
          < Rank(infos[pending_packets[l].type], pending_packets[l].slot)
    BY <1>6 DEF IInv, RingsMatchPending, WaitingOrdered
  <2> QED
    BY <1>10, <2>1
<1>14. ReceptionOK'
  <2> SUFFICES ASSUME rxFn # "_rxAA"
               PROVE  /\ rx_type \in operations
                      /\ rx_slot = infos'[rx_type].end
                      /\ infos'[rx_type].size < infos'[rx_type].max
                      /\ rxFn = "_rxChecksum" =>
                           buffers[rx_type][rx_slot] # Partial
    BY <1>3 DEF ReceptionOK
  <2>1. /\ rx_type \in operations /\ rx_type \in Types
        /\ rx_slot = infos[rx_type].end
        /\ infos[rx_type].size < infos[rx_type].max
        /\ rxFn = "_rxChecksum" => buffers[rx_type][rx_slot] # Partial
    BY DEF IInv, ReceptionOK, TypeOK
  <2>2. CASE rx_type = p.type
    <3>1. /\ infos'[rx_type] = BUFFER_GET(r) /\ infos[rx_type] = r
          /\ BUFFER_GET(r).size = r.size - 1 /\ BUFFER_GET(r).max = r.max
          /\ BUFFER_GET(r).end = r.end
      BY <1>4, <1>5, <2>2
    <3>2. r.size \in Nat /\ r.max \in Nat
      BY <1>2 DEF Info
    <3> HIDE DEF r
    <3>3. r.size - 1 < r.max
      BY <2>1, <3>1, <3>2
    <3> QED BY <2>1, <3>1, <3>3
  <2>3. CASE rx_type # p.type
    BY <1>5, <2>1, <2>3
  <2> QED
    BY <2>2, <2>3
<1>15. WaitingComplete'
  BY <1>3, <1>6 DEF IInv, WaitingComplete
<1> QED
  BY <1>7, <1>8, <1>9, <1>11, <1>12, <1>13, <1>14, <1>15
  DEF IInv, RingsMatchPending

(* The end of the loop: every ring is empty, the list may be forgotten.    *)
LEMMA ProcessEndIInv ==
  ASSUME IInv, processEnd
  PROVE  IInv'
<1> USE DEF IInv, processEnd, ringVars, rxVars
<1>1. Waiting = {}
  BY DEF Waiting, TypeOK
<1>2. Waiting' = {} /\ Len(pending_packets') = 0
  BY DEF Waiting
<1>3. TypeOK' /\ PhaseOK'
  BY <1>2, PendingAssumption DEF TypeOK, PhaseOK
<1>4. RingsMatchPending'
  BY <1>1, <1>2 DEF RingsMatchPending, RingsOK, WaitingOccupied,
                    OccupiedWaiting, WaitingOrdered
<1>5. ReceptionOK' /\ WaitingComplete'
  BY <1>2 DEF ReceptionOK, WaitingComplete
<1> QED
  BY <1>3, <1>4, <1>5
----------------------------------------------------------------------------
(* IInv is inductive. *)
THEOREM Invariance == Spec => []IInv
<1>1. Init => IInv
  BY InitIInv
<1>2. IInv /\ [Next]_vars => IInv'
  <2> SUFFICES ASSUME IInv, [Next]_vars PROVE IInv'
    OBVIOUS
  <2>1. ASSUME NEW t \in Types, installPacket(t) PROVE IInv'
    BY <2>1, InstallIInv
  <2>2. ASSUME NEW t \in Types, initializeBuffer(t) PROVE IInv'
    BY <2>2, InitializeBufferIInv
  <2>3. ASSUME NEW p \in Payloads, rxWholePayload(p) PROVE IInv'
    BY <2>3, RxPayloadIInv
  <2>4. CASE rxChecksumError \/ SetupDone \/ processBegin
    BY <2>4, ControlIInv
  <2>5. CASE onReceive
    BY <2>5, OnReceiveIInv
  <2>6. CASE processOne
    BY <2>6, ProcessOneIInv
  <2>7. CASE processEnd
    BY <2>7, ProcessEndIInv
  <2>8. CASE UNCHANGED vars
    BY <2>8
    DEF vars, IInv, TypeOK, PhaseOK, RingsMatchPending, RingsOK,
        WaitingOccupied, OccupiedWaiting, WaitingOrdered, ReceptionOK,
        WaitingComplete, Waiting, Pending
  <2> QED
    BY <2>1, <2>2, <2>3, <2>4, <2>5, <2>6, <2>7, <2>8 DEF Next
<1> QED
  BY <1>1, <1>2, PTL DEF Spec

(* The state of the handler is well formed. *)
THEOREM TypeCorrect == Spec => []TypeOK
<1>1. IInv => TypeOK
  BY DEF IInv
<1> QED
  BY <1>1, Invariance, PTL

(* List and rings describe the same packets. *)
THEOREM ListMatchesRings == Spec => []RingsMatchPending
<1>1. IInv => RingsMatchPending
  BY DEF IInv
<1> QED
  BY <1>1, Invariance, PTL

(* Both assertions of the source hold in every execution. *)
THEOREM AssertionsHold == Spec => []AssertsHold
<1>1. IInv => ReceivedAtRingEnd
  BY DEF IInv, ReceptionOK, ReceivedAtRingEnd
<1>2. IInv => ProcessedAtRingStart
  BY FirstWaitingAtStart DEF ProcessedAtRingStart, Pending
<1> QED
  BY <1>1, <1>2, Invariance, PTL DEF AssertsHold

(* No buffer under reception is pending, and what is pending is complete.  *)
THEOREM PendingIntact == Spec => []PendingComplete
<1>1. ASSUME IInv PROVE PendingComplete
  <2> SUFFICES ASSUME NEW k \in Waiting, rxFn # "_rxAA"
               PROVE  <<pending_packets[k].type, pending_packets[k].slot>>
                        # <<rx_type, rx_slot>>
    BY <1>1 DEF PendingComplete, IInv, WaitingComplete, Pending
  <2>1. /\ rx_type \in operations
        /\ rx_slot = infos[rx_type].end
        /\ infos[rx_type].size < infos[rx_type].max
    BY <1>1 DEF IInv, ReceptionOK
  <2>2. infos[rx_type] \in Info /\ WellFormedRing(infos[rx_type])
    BY <1>1, <2>1 DEF IInv, TypeOK, RingsMatchPending, RingsOK
  <2>3. Rank(infos[rx_type], rx_slot) = infos[rx_type].size
    BY <2>1, <2>2, EndRank
  <2>4. Rank(infos[pending_packets[k].type], pending_packets[k].slot)
          \in 0 .. infos[pending_packets[k].type].size - 1
    BY <1>1, WaitingFacts
  <2> QED
    BY <2>2, <2>3, <2>4 DEF Info
<1> QED
  BY <1>1, Invariance, PTL

----------------------------------------------------------------------------
(* Facts about the refinement mapping. *)

Packet == [type : Types, content : Payloads]

(* What waits in a buffer is a packet.                                     *)
LEMMA ContentType ==
  ASSUME IInv, NEW k \in Waiting
  PROVE  Content(pending_packets[k]) \in Packet
<1> DEFINE p == pending_packets[k]
<1>1. /\ p \in [type : Types, slot : Nat] /\ p.type \in operations
      /\ p.slot \in Slots(p.type)
  BY WaitingFacts DEF Slots
<1>2. buffers[p.type][p.slot] \in Payloads \cup {Partial}
  BY <1>1 DEF IInv, TypeOK
<1>3. buffers[p.type][p.slot] # Partial
  BY DEF IInv, WaitingComplete, Pending
<1> QED
  BY <1>1, <1>2, <1>3 DEF Content, Packet

(* The packets that wait form a sequence.                                  *)
LEMMA WaitingPacketsType ==
  ASSUME IInv
  PROVE  /\ Len(pending_packets) - pnum \in Nat
         /\ WaitingPackets \in Seq(Packet)
         /\ Len(WaitingPackets) = Len(pending_packets) - pnum
<1> DEFINE n == Len(pending_packets) - pnum
<1>1. n \in Nat /\ pnum \in Nat /\ Len(pending_packets) \in Nat
  BY DEF IInv, TypeOK, PhaseOK
<1>2. ASSUME NEW k \in 1 .. n PROVE Content(Pending(k + pnum)) \in Packet
  BY <1>1, ContentType DEF Waiting, Pending
<1>3. WaitingPackets \in [1 .. n -> Packet]
  BY <1>2 DEF WaitingPackets
<1> QED
  BY <1>1, <1>3

(* A step that keeps list, loop index and waiting contents is a stutter.   *)
LEMMA QueueUnchanged ==
  ASSUME IInv, UNCHANGED <<pending_packets, pnum>>,
         \A k \in Waiting : buffers'[Pending(k).type][Pending(k).slot]
                              = buffers[Pending(k).type][Pending(k).slot]
  PROVE  WaitingPackets' = WaitingPackets
<1> DEFINE n == Len(pending_packets) - pnum
<1>1. n \in Nat /\ pnum \in Nat /\ Len(pending_packets) \in Nat
  BY DEF IInv, TypeOK, PhaseOK
<1>2. ASSUME NEW k \in 1 .. n
      PROVE  Content(Pending(k + pnum))' = Content(Pending(k + pnum))
  BY <1>1, <1>2 DEF Waiting, Pending, Content
<1> QED
  BY <1>1, <1>2 DEF WaitingPackets

(* The handler starts as an empty queue.                                   *)
LEMMA InitRefines == Init => PQ!Init
  BY DEF Init, PQ!Init, WaitingPackets

(* Writing into the buffer under reception is invisible in the queue.      *)
LEMMA ReceptionRefines ==
  ASSUME IInv,
         \/ \E t \in Types : initializeBuffer(t)
         \/ \E p \in Payloads : rxWholePayload(p)
  PROVE  WaitingPackets' = WaitingPackets
<1>1. CASE \E t \in Types : initializeBuffer(t)
  <2>1. PICK t \in Types : initializeBuffer(t)
    BY <1>1
  <2> QED
    BY <2>1, WriteIInv, QueueUnchanged DEF initializeBuffer, HasRoom
<1>2. CASE \E p \in Payloads : rxWholePayload(p)
  <2>1. PICK p \in Payloads : rxWholePayload(p)
    BY <1>2
  <2>2. /\ rx_type \in operations /\ rx_slot = infos[rx_type].end
        /\ infos[rx_type].size < infos[rx_type].max
    BY <2>1 DEF rxWholePayload, IInv, ReceptionOK
  <2> QED
    BY <2>1, <2>2, WriteIInv, QueueUnchanged DEF rxWholePayload
<1> QED
  BY <1>1, <1>2

(* A packet that is stored enters the queue at its end. *)
LEMMA OnReceiveRefines ==
  ASSUME IInv, IInv', onReceive
  PROVE  \/ UNCHANGED PQ!vars
         \/ \E p \in Packet : PQ!Receive(p)
<1> USE DEF onReceive, PendingFull
<1>1. UNCHANGED <<buffers, pnum, action_arg>> /\ pnum = 0
  BY DEF IInv, PhaseOK
<1>2. CASE Len(pending_packets) >= PENDING_PACKETS_MAX
  <2>1. WaitingPackets' = WaitingPackets
    BY <1>1, <1>2, QueueUnchanged
  <2> QED
    BY <1>1, <2>1 DEF PQ!vars
<1>3. CASE ~(Len(pending_packets) >= PENDING_PACKETS_MAX)
  <2> DEFINE n == Len(pending_packets)
             e == [type |-> rx_type, slot |-> rx_slot]
             c == Content(e)
  <2>1. /\ pending_packets' = Append(pending_packets, e)
        /\ pending_packets \in Seq([type : Types, slot : Nat])
        /\ e \in [type : Types, slot : Nat]
    BY <1>3 DEF IInv, TypeOK
  <2>2. /\ n \in Nat /\ Len(pending_packets') = n + 1
        /\ pending_packets'[n + 1] = e
        /\ \A k \in 1 .. n : pending_packets'[k] = pending_packets[k]
    BY <2>1
  <2>3. c \in Packet
    <3>1. /\ rx_type \in operations /\ rx_type \in Types
          /\ rx_slot = infos[rx_type].end
          /\ infos[rx_type].size < infos[rx_type].max
          /\ buffers[rx_type][rx_slot] # Partial
          /\ infos[rx_type] \in Info
          /\ WellFormedRing(infos[rx_type])
          /\ infos[rx_type].max = NumBuffers[rx_type]
      BY DEF IInv, ReceptionOK, TypeOK, RingsMatchPending, RingsOK
    <3>2. rx_slot \in Slots(rx_type)
      BY <3>1, EndRank DEF Slots
    <3>3. buffers[rx_type][rx_slot] \in Payloads \cup {Partial}
      BY <3>1, <3>2 DEF IInv, TypeOK
    <3> QED
      BY <3>1, <3>3 DEF Content, Packet
  <2>4. /\ WaitingPackets \in Seq(Packet) /\ Len(WaitingPackets) = n
        /\ WaitingPackets = [k \in 1 .. n |-> Content(pending_packets[k])]
    BY <1>1, <2>2, WaitingPacketsType DEF WaitingPackets, Pending
  <2>5. WaitingPackets'
          = [k \in 1 .. n + 1 |-> Content(pending_packets'[k])]
    BY <1>1, <2>2 DEF WaitingPackets, Pending, Content
  <2>6. Append(WaitingPackets, c)
          = [k \in 1 .. n + 1 |-> IF k = n + 1 THEN c
                                  ELSE Content(pending_packets[k])]
    <3> HIDE DEF c
    <3> QED
      BY <2>2, <2>3, <2>4
  <2>7. WaitingPackets' = Append(WaitingPackets, c)
    <3> HIDE DEF c
    <3>1. \A k \in 1 .. n + 1 :
            Content(pending_packets'[k])
              = IF k = n + 1 THEN c ELSE Content(pending_packets[k])
      BY <2>2 DEF c
    <3> QED
      BY <2>5, <2>6, <3>1
  <2>8. Len(WaitingPackets) < PENDING_PACKETS_MAX
    BY <1>3, <2>2, <2>4, PendingAssumption
  <2> QED
    BY <1>1, <2>3, <2>7, <2>8 DEF PQ!Receive
<1> QED
  BY <1>2, <1>3

(* The first element of a sequence and the elements of its tail. *)
LEMMA HeadAndTail ==
  ASSUME NEW S, NEW s \in Seq(S), Len(s) > 0
  PROVE  /\ Head(s) = s[1]
         /\ Tail(s) = [k \in 1 .. Len(s) - 1 |-> s[k + 1]]
<1>1. s # <<>> /\ Len(s) \in Nat
  OBVIOUS
<1>2. Head(s) = s[1]
  BY <1>1
<1>3. /\ Tail(s) \in Seq(S) /\ Len(Tail(s)) = Len(s) - 1
      /\ \A k \in 1 .. Len(s) - 1 : Tail(s)[k] = s[k + 1]
  BY <1>1, HeadTailProperties
<1>4. Tail(s) = [k \in 1 .. Len(s) - 1 |-> Tail(s)[k]]
  <2>1. Tail(s) \in [1 .. Len(s) - 1 -> S]
    BY <1>3, LenProperties
  <2> QED
    BY <2>1
<1> QED
  BY <1>2, <1>3, <1>4

(* One turn of the loop hands out the packet at the front of the queue.    *)
LEMMA ProcessOneRefines ==
  ASSUME IInv, processOne
  PROVE  PQ!Hand
<1> USE DEF processOne, Pending
<1> DEFINE n == Len(pending_packets) - pnum
<1>1. /\ n \in Nat /\ n > 0 /\ pnum \in Nat /\ Len(pending_packets) \in Nat
      /\ pnum' = pnum + 1
      /\ UNCHANGED <<pending_packets, buffers>>
  BY DEF IInv, TypeOK, PhaseOK
<1>2. /\ WaitingPackets \in Seq(Packet) /\ Len(WaitingPackets) = n
      /\ WaitingPackets
           = [k \in 1 .. n |-> Content(pending_packets[k + pnum])]
  BY WaitingPacketsType DEF WaitingPackets
<1>3. action_arg' = Head(WaitingPackets)
  <2>1. Head(WaitingPackets) = WaitingPackets[1]
    <3>1. Len(WaitingPackets) > 0
      BY <1>1, <1>2
    <3> QED
      BY <1>2, <3>1, HeadAndTail
  <2>2. 1 \in 1 .. n /\ 1 + pnum = pnum + 1
    BY <1>1
  <2>3. WaitingPackets[1] = Content(pending_packets[pnum + 1])
    BY <1>2, <2>2
  <2> QED
    BY <2>1, <2>3 DEF Content
<1>4. WaitingPackets'
        = [k \in 1 .. n - 1 |-> Content(pending_packets[k + (pnum + 1)])]
  BY <1>1 DEF WaitingPackets, Content
<1>5. Tail(WaitingPackets) = [k \in 1 .. n - 1 |-> WaitingPackets[k + 1]]
  <2>1. Len(WaitingPackets) > 0
    BY <1>1, <1>2
  <2> QED
    BY <1>2, <2>1, HeadAndTail
<1>6. ASSUME NEW k \in 1 .. n - 1
      PROVE  WaitingPackets[k + 1] = Content(pending_packets[k + (pnum + 1)])
  <2> HIDE DEF n
  <2>1. k \in Nat /\ k + 1 \in 1 .. n /\ (k + 1) + pnum = k + (pnum + 1)
    <3>1. n \in Nat /\ pnum \in Nat
      BY <1>1
    <3> QED BY <3>1
  <2> QED
    BY <1>2, <2>1
<1>7. WaitingPackets' = Tail(WaitingPackets)
  BY <1>4, <1>5, <1>6
<1>8. WaitingPackets # <<>>
  <2>1. Len(WaitingPackets) > 0
    BY <1>1, <1>2
  <2> QED
    BY <2>1
<1> QED
  BY <1>3, <1>7, <1>8 DEF PQ!Hand

(* The rest changes neither the queue nor what was handed out. *)
LEMMA ControlRefines ==
  ASSUME IInv,
         \/ rxChecksumError \/ SetupDone \/ processBegin \/ processEnd
         \/ \E t \in Types : installPacket(t)
         \/ UNCHANGED vars
  PROVE  UNCHANGED PQ!vars
<1>1. UNCHANGED <<buffers, action_arg>>
  BY DEF rxChecksumError, SetupDone, processBegin, processEnd, installPacket,
         ringVars, vars
<1>2. CASE processEnd
  BY <1>2 DEF processEnd, WaitingPackets, IInv, TypeOK, PQ!vars, ringVars
<1>3. CASE ~processEnd
  <2>1. UNCHANGED <<pending_packets, pnum>>
    BY <1>3 DEF rxChecksumError, SetupDone, processBegin, installPacket,
                vars, IInv, PhaseOK
  <2>2. WaitingPackets' = WaitingPackets
    BY <1>1, <2>1, QueueUnchanged
  <2> QED
    BY <1>1, <2>2 DEF PQ!vars
<1> QED
  BY <1>2, <1>3

(* The handler implements the bounded queue PendingQueue: every packet is  *)
(* handed to its action once, in arrival order, as it was received.        *)
THEOREM Refinement == Spec => ImplementsPendingQueue
<1>1. Init => PQ!Init
  BY InitRefines
<1>2. IInv /\ IInv' /\ [Next]_vars => [PQ!Next]_(PQ!vars)
  <2> SUFFICES ASSUME IInv, IInv', [Next]_vars
               PROVE  PQ!Next \/ UNCHANGED PQ!vars
    OBVIOUS
  <2>1. CASE \/ \E t \in Types : initializeBuffer(t)
             \/ \E p \in Payloads : rxWholePayload(p)
    <3>1. WaitingPackets' = WaitingPackets
      BY <2>1, ReceptionRefines
    <3>2. UNCHANGED action_arg
      BY <2>1 DEF initializeBuffer, rxWholePayload
    <3> QED
      BY <3>1, <3>2 DEF PQ!vars
  <2>2. CASE onReceive
    BY <2>2, OnReceiveRefines DEF PQ!Next, Packet
  <2>3. CASE processOne
    BY <2>3, ProcessOneRefines DEF PQ!Next
  <2>4. CASE \/ rxChecksumError \/ SetupDone \/ processBegin \/ processEnd
             \/ \E t \in Types : installPacket(t)
             \/ UNCHANGED vars
    BY <2>4, ControlRefines
  <2> QED
    BY <2>1, <2>2, <2>3, <2>4 DEF Next
<1> QED
  BY <1>1, <1>2, Invariance, PTL DEF Spec, PQ!Spec, ImplementsPendingQueue
----------------------------------------------------------------------------
(* Framing: PacketHandler for any packets, types and size of the ring.     *)

(* Byte k of what waits in the transmit ring, from 0. *)
InRing(k) == tx.buffer[(tx.start + k) % BUFFER_SIZE_MAX]

(* The frames of the packets sent lie one after the other on the line, and *)
(* at[j] is where the frame of packet j starts, counted from the next byte *)
(* to be transmitted: what lies at a negative place has been transmitted.  *)
Layout(at) ==
  /\ at[Len(sent) + 1] = tx.size
  /\ \A j \in 1 .. Len(sent) : at[j + 1] = at[j] + (Len(sent[j]) + 3)
  /\ \A i, j \in 1 .. Len(sent) + 1 : i < j => at[i] < at[j]
  /\ \A j \in 1 .. Len(sent) : \A i \in 1 .. Len(sent[j]) + 3 :
       at[j] + (i - 1) >= 0 => InRing(at[j] + (i - 1)) = Frame(sent[j])[i]

(* The receiver has read k bytes of the frame of p. *)
Reads(k, p) ==
  /\ k = 0 => rx.fn = "rxAA"
  /\ k = 1 => rx.fn = "rx55"
  /\ k = 2 => rx.fn = "rxType" /\ rx.checksum = {}
  /\ k = 3 => /\ rx.fn = "rxSize" /\ rx.checksum = Running(p)[1]
              /\ Bits(rx.op) = p[1] /\ Operations[rx.op] = Len(p)
  /\ k \in 4 .. Len(p) + 1 =>
       /\ rx.fn = "rxPayload" /\ rx.checksum = Running(p)[k - 2]
       /\ rx.packet = SubSeq(p, 1, k - 2) /\ rx.to_read = Len(p) - (k - 2)
  /\ k = Len(p) + 2 =>
       rx.fn = "rxChecksum" /\ rx.packet = p /\ rx.checksum = Checksum(p)

(* Whole packets have been received, and part of the next frame read. *)
Progress(at) ==
  /\ Len(received) <= Len(sent)
  /\ \A j \in 1 .. Len(received) : received[j] = sent[j]
  /\ at[Len(received) + 1] <= 0
  /\ Len(received) = Len(sent) => rx.fn = "rxAA"
  /\ Len(received) < Len(sent) =>
       /\ at[Len(received) + 2] > 0
       /\ Reads(0 - at[Len(received) + 1], sent[Len(received) + 1])

LineShape ==
  /\ LineTypeOK
  /\ tx.end = (tx.start + tx.size) % BUFFER_SIZE_MAX
  /\ sent \in Seq(Packets)
  /\ received \in Seq(Seq(Byte))

LineInv ==
  /\ LineShape
  /\ fault = "none" =>
       \E at \in [1 .. Len(sent) + 1 -> Int] : Layout(at) /\ Progress(at)
----------------------------------------------------------------------------
(* Bytes and packets *)

(* The types are told apart by their bits. *)
LEMMA BitsInjective ==
  ASSUME NEW m \in 0 .. 15, NEW n \in 0 .. 15, Bits(m) = Bits(n)
  PROVE  m = n
<1>1. 2^0 = 1 /\ 2^1 = 2 /\ 2^2 = 4 /\ 2^3 = 8
  OBVIOUS
<1>2. ASSUME NEW b \in 0 .. 7
      PROVE  (m \div 2^b) % 2 = 1 <=> (n \div 2^b) % 2 = 1
  <2>1. b \in Bits(m) <=> (m \div 2^b) % 2 = 1
    BY <1>2, Zenon DEF Bits
  <2>2. b \in Bits(n) <=> (n \div 2^b) % 2 = 1
    BY <1>2, Zenon DEF Bits
  <2> QED BY <2>1, <2>2, Zenon
<1>3. /\ (m \div 1) % 2 = 1 <=> (n \div 1) % 2 = 1
      /\ (m \div 2) % 2 = 1 <=> (n \div 2) % 2 = 1
      /\ (m \div 4) % 2 = 1 <=> (n \div 4) % 2 = 1
      /\ (m \div 8) % 2 = 1 <=> (n \div 8) % 2 = 1
  <2>1. 0 \in 0 .. 7 /\ 1 \in 0 .. 7 /\ 2 \in 0 .. 7 /\ 3 \in 0 .. 7
    OBVIOUS
  <2> QED BY <1>1, <1>2, <2>1, Zenon
<1> QED BY <1>3

LEMMA BitsByte == ASSUME NEW n PROVE Bits(n) \in Byte
BY DEF Bits, Byte

LEMMA XorByte == ASSUME NEW a \in Byte, NEW b \in Byte PROVE Xor(a, b) \in Byte
BY DEF Xor, Byte

(* f is the running checksum of the first n bytes of p. *)
SumsUp(f, p, n) ==
  f = [k \in 0 .. n |-> IF k = 0 THEN {} ELSE Xor(f[k - 1], p[k])]

LEMMA SumsUpNext ==
  ASSUME NEW p, NEW n \in Nat, NEW f, SumsUp(f, p, n)
  PROVE  \E g : SumsUp(g, p, n + 1)
<1> DEFINE g == [k \in 0 .. n + 1 |-> IF k = 0 THEN {} ELSE Xor(f[k - 1], p[k])]
<1>1. ASSUME NEW k \in 0 .. n PROVE g[k] = f[k]
  <2>1. f[k] = IF k = 0 THEN {} ELSE Xor(f[k - 1], p[k])
    BY Zenon DEF SumsUp
  <2>2. k \in 0 .. n + 1
    OBVIOUS
  <2> QED BY <2>1, <2>2, Zenon
<1>2. ASSUME NEW k \in 0 .. n + 1, k # 0 PROVE g[k - 1] = f[k - 1]
  <2>1. k - 1 \in 0 .. n
    BY <1>2
  <2> HIDE DEF g
  <2> QED BY <1>1, <2>1
<1>3. g = [k \in 0 .. n + 1 |-> IF k = 0 THEN {} ELSE Xor(g[k - 1], p[k])]
  <2>1. \A k \in 0 .. n + 1 : (IF k = 0 THEN {} ELSE Xor(f[k - 1], p[k]))
                                = IF k = 0 THEN {} ELSE Xor(g[k - 1], p[k])
    <3> HIDE DEF g
    <3> QED BY <1>2, Zenon
  <2> QED BY <2>1, Zenon
<1> QED BY <1>3, Zenon DEF SumsUp

LEMMA SumsUpExists == ASSUME NEW p PROVE \A n \in Nat : \E f : SumsUp(f, p, n)
<1> DEFINE S == {n \in Nat : ~ \E f : SumsUp(f, p, n)}
           R == OpToRel(<, Nat)
<1> SUFFICES ASSUME S # {} PROVE FALSE
  OBVIOUS
<1>1. PICK n \in S : \A j \in S : ~(j < n)
  <2>1. S \in SUBSET Nat
    OBVIOUS
  <2> HIDE DEF S
  <2>2. PICK n \in S : \A j \in S : ~(<<j, n>> \in R)
    BY <2>1, NatLessThanWellFounded, WFMin, Zenon
  <2> QED BY <2>1, <2>2, Zenon DEF OpToRel
<1>2. n \in Nat /\ ~ \E f : SumsUp(f, p, n)
  OBVIOUS
<1>3. n # 0
  <2>1. SumsUp([k \in 0 .. 0 |-> {}], p, 0)
    BY DEF SumsUp
  <2> QED BY <1>2, <2>1
<1>4. n - 1 \in Nat /\ n - 1 < n /\ (n - 1) + 1 = n
  BY <1>2, <1>3
<1>5. \E f : SumsUp(f, p, n - 1)
  <2>1. n - 1 \notin S
    <3> HIDE DEF S
    <3> QED BY <1>1, <1>4
  <2> QED BY <1>4, <2>1
<1> HIDE DEF S
<1>6. \E g : SumsUp(g, p, (n - 1) + 1)
  BY <1>4, <1>5, SumsUpNext
<1> QED BY <1>2, <1>4, <1>6

(* The running checksum is what its recursive definition says. *)
LEMMA RunningDef ==
  ASSUME NEW S, NEW p \in Seq(S)
  PROVE  /\ Running(p)[0] = {}
         /\ \A n \in 1 .. Len(p) : Running(p)[n] = Xor(Running(p)[n - 1], p[n])
<1> DEFINE f == Running(p)
<1>1. Len(p) \in Nat
  OBVIOUS
<1>2. \E g : SumsUp(g, p, Len(p))
  BY <1>1, SumsUpExists
<1>3. f = CHOOSE g : SumsUp(g, p, Len(p))
  BY DEF Running, SumsUp
<1>4. SumsUp(f, p, Len(p))
  BY <1>2, <1>3, Zenon
<1> HIDE DEF f
<1>5. \A n \in 0 .. Len(p) : f[n] = IF n = 0 THEN {} ELSE Xor(f[n - 1], p[n])
  BY <1>4, Zenon DEF SumsUp
<1>6. f[0] = {}
  BY <1>1, <1>5
<1>7. ASSUME NEW n \in 1 .. Len(p) PROVE f[n] = Xor(f[n - 1], p[n])
  <2>1. n \in 0 .. Len(p) /\ n # 0
    BY <1>1
  <2> QED BY <1>5, <2>1, Zenon
<1> QED BY <1>6, <1>7 DEF f

LEMMA RunningByte ==
  ASSUME NEW p \in Seq(Byte), NEW m \in 0 .. Len(p)
  PROVE  Running(p)[m] \in Byte
<1> DEFINE f == Running(p)
           S == {n \in 0 .. Len(p) : f[n] \notin Byte}
           R == OpToRel(<, Nat)
<1>1. /\ Len(p) \in Nat /\ f[0] = {}
      /\ \A n \in 1 .. Len(p) : f[n] = Xor(f[n - 1], p[n])
      /\ \A n \in 1 .. Len(p) : p[n] \in Byte
  BY RunningDef
<1> HIDE DEF f
<1> SUFFICES ASSUME S # {} PROVE FALSE
  BY DEF f
<1>2. PICK n \in S : \A j \in S : ~(j < n)
  <2>1. S \in SUBSET Nat
    BY <1>1
  <2> HIDE DEF S
  <2>2. PICK n \in S : \A j \in S : ~(<<j, n>> \in R)
    BY <2>1, NatLessThanWellFounded, WFMin, Zenon
  <2> QED BY <2>1, <2>2, Zenon DEF OpToRel
<1>3. n \in 0 .. Len(p) /\ f[n] \notin Byte
  OBVIOUS
<1>4. n # 0
  BY <1>1, <1>3 DEF Byte
<1>5. n - 1 \in 0 .. Len(p) /\ n - 1 < n /\ n \in 1 .. Len(p)
  BY <1>1, <1>3, <1>4
<1>6. f[n - 1] \in Byte
  <2>1. n - 1 \notin S
    <3> HIDE DEF S
    <3> QED BY <1>2, <1>5
  <2> QED BY <1>5, <2>1
<1> HIDE DEF S
<1> QED BY <1>1, <1>3, <1>5, <1>6, XorByte, Zenon

(* A packet: at least a header of bytes, the type and the size in front.   *)
LEMMA PacketFacts ==
  ASSUME NEW p \in Packets
  PROVE  /\ p \in Seq(Byte) /\ Len(p) \in Nat /\ Len(p) >= 4
         /\ \E t \in DOMAIN Operations :
              /\ t \in 0 .. 15 /\ Operations[t] = Len(p)
              /\ p[1] = Bits(t) /\ p[2] = Bits(Len(p))
<1>1. PICK t \in DOMAIN Operations :
        Len(p) = Operations[t] /\ p[1] = Bits(t) /\ p[2] = Bits(Len(p))
  BY PacketConstants, Zenon
<1>2. p \in Seq(Byte) /\ t \in 0 .. 15
  BY PacketConstants, Zenon
<1>3. Operations[t] \in HeaderBytes .. 254
  BY PacketConstants, Zenon
<1>4. Len(p) \in Nat /\ Len(p) >= 4
  <2>1. HeaderBytes = 4
    BY DEF HeaderBytes
  <2>2. HeaderBytes \in Nat
    BY <2>1
  <2>3. Len(p) \in Nat /\ Len(p) >= HeaderBytes
    BY <1>1, <1>3, <2>2
  <2> QED BY <2>1, <2>3
<1> QED BY <1>1, <1>2, <1>4, Zenon

LEMMA ByteConstants == AA \in Byte /\ x55 \in Byte
BY BitsByte DEF AA, x55

(* A frame: the two bytes that announce it, the packet, its checksum. *)
LEMMA FrameFacts ==
  ASSUME NEW p \in Seq(Byte)
  PROVE  /\ Frame(p) \in Seq(Byte) /\ Len(Frame(p)) = Len(p) + 3
         /\ Frame(p)[1] = AA /\ Frame(p)[2] = x55
         /\ \A i \in 1 .. Len(p) : Frame(p)[i + 2] = p[i]
         /\ Frame(p)[Len(p) + 3] = Checksum(p)
<1> DEFINE c == Checksum(p)
<1>1. Len(p) \in Nat
  OBVIOUS
<1>2. c \in Byte
  BY <1>1, RunningByte DEF Checksum
<1> HIDE DEF c
<1>3. <<AA, x55>> \in Seq(Byte) /\ Len(<<AA, x55>>) = 2
        /\ <<c>> \in Seq(Byte) /\ Len(<<c>>) = 1
  BY <1>2, ByteConstants
<1> DEFINE h == <<AA, x55>> \o p
<1>4. /\ h \in Seq(Byte) /\ Len(h) = Len(p) + 2
      /\ h[1] = AA /\ h[2] = x55
      /\ \A i \in 1 .. Len(p) : h[i + 2] = p[i]
  BY <1>1, <1>3
<1> HIDE DEF h
<1>5. /\ h \o <<c>> \in Seq(Byte) /\ Len(h \o <<c>>) = Len(p) + 3
      /\ \A i \in 1 .. Len(h) : (h \o <<c>>)[i] = h[i]
      /\ (h \o <<c>>)[Len(h) + 1] = c
  BY <1>1, <1>2, <1>3, <1>4
<1>6. Frame(p) = h \o <<c>>
  BY DEF Frame, h, c
<1> QED BY <1>1, <1>4, <1>5, <1>6 DEF c
----------------------------------------------------------------------------
(* The ring *)

(* Places that are less than one turn apart are different. *)
LEMMA OtherTurn ==
  ASSUME NEW m \in Nat, m # 0, NEW a \in Nat, a < m,
         NEW b \in Nat, NEW c \in Nat, b < c, c < m
  PROVE  (a + b) % m # (a + c) % m
<1>1. (a + b) % m = IF a + b < m THEN a + b ELSE a + b - m
  OBVIOUS
<1>2. (a + c) % m = IF a + c < m THEN a + c ELSE a + c - m
  OBVIOUS
<1> QED BY <1>1, <1>2

(* A place may be reached in two steps. *)
LEMMA TwoSteps ==
  ASSUME NEW m \in Nat, m # 0, NEW a \in Nat, a < m,
         NEW b \in Nat, NEW c \in Nat, b + c <= m
  PROVE  /\ (a + b) % m \in 0 .. m - 1
         /\ (((a + b) % m) + c) % m = (a + (b + c)) % m
<1> DEFINE e == (a + b) % m
<1>1. e = IF a + b < m THEN a + b ELSE a + b - m
  OBVIOUS
<1>2. e \in Nat /\ e < m
  BY <1>1
<1> HIDE DEF e
<1>3. (e + c) % m = IF e + c < m THEN e + c ELSE e + c - m
  BY <1>2
<1>4. b + c \in Nat
  OBVIOUS
<1>5. (a + (b + c)) % m = IF a + (b + c) < m THEN a + (b + c)
                          ELSE a + (b + c) - m
  BY <1>4
<1>6. (e + c) % m = (a + (b + c)) % m /\ e \in 0 .. m - 1
  BY <1>1, <1>2, <1>3, <1>5
<1> QED BY <1>6 DEF e

(* What LineShape says of the ring. *)
LEMMA RingFacts ==
  ASSUME LineShape
  PROVE  /\ BUFFER_SIZE_MAX \in Nat /\ BUFFER_SIZE_MAX # 0
         /\ tx.start \in Nat /\ tx.start < BUFFER_SIZE_MAX
         /\ tx.size \in Nat /\ tx.size <= BUFFER_SIZE_MAX
         /\ tx.end = (tx.start + tx.size) % BUFFER_SIZE_MAX
         /\ tx.buffer \in [0 .. BUFFER_SIZE_MAX - 1 -> Byte]
         /\ tx = [buffer |-> tx.buffer, start |-> tx.start, end |-> tx.end,
                  size |-> tx.size]
BY PacketConstants DEF LineShape, LineTypeOK

(* A place behind the end is that far behind what waits. *)
LEMMA EndPlace ==
  ASSUME LineShape, NEW c \in Nat, tx.size + c <= BUFFER_SIZE_MAX
  PROVE  /\ tx.end \in Nat
         /\ (tx.end + c) % BUFFER_SIZE_MAX
              = (tx.start + (tx.size + c)) % BUFFER_SIZE_MAX
<1>1. PICK m, a, b, e : m = BUFFER_SIZE_MAX /\ a = tx.start /\ b = tx.size
                         /\ e = tx.end
  OBVIOUS
<1>2. /\ m \in Nat /\ m # 0 /\ a \in Nat /\ a < m /\ b \in Nat /\ b + c <= m
      /\ e = (a + b) % m
  BY <1>1, RingFacts
<1>3. (a + b) % m = IF a + b < m THEN a + b ELSE a + b - m
  BY <1>2
<1>4. e \in Nat /\ e < m
  BY <1>2, <1>3
<1>5. (e + c) % m = IF e + c < m THEN e + c ELSE e + c - m
  BY <1>2, <1>4
<1>6. b + c \in Nat
  BY <1>2
<1>7. (a + (b + c)) % m = IF a + (b + c) < m THEN a + (b + c)
                          ELSE a + (b + c) - m
  BY <1>2, <1>6
<1>8. (e + c) % m = (a + (b + c)) % m
  BY <1>2, <1>3, <1>4, <1>5, <1>7
<1> QED BY <1>1, <1>4, <1>8

(* Bytes that fit are stored behind what waits, which stays as it is. *)
LEMMA PutTxStores ==
  ASSUME LineShape, NEW s \in Seq(Byte), Len(s) <= BUFFER_SIZE_MAX - tx.size,
         tx' = PutTx(s)
  PROVE  /\ tx'.start = tx.start /\ tx'.size = tx.size + Len(s)
         /\ tx'.end = (tx.start + tx'.size) % BUFFER_SIZE_MAX
         /\ tx' \in [buffer : [0 .. BUFFER_SIZE_MAX - 1 -> Byte],
                     start : 0 .. BUFFER_SIZE_MAX - 1,
                     end : 0 .. BUFFER_SIZE_MAX - 1, size : 0 .. BUFFER_SIZE_MAX]
         /\ \A k \in 0 .. tx.size - 1 : InRing(k)' = InRing(k)
         /\ \A k \in tx.size .. tx.size + Len(s) - 1 :
              InRing(k)' = s[k - tx.size + 1]
<1> DEFINE m == BUFFER_SIZE_MAX
           n == IF Len(s) <= m - tx.size THEN Len(s) ELSE m - tx.size
           Place(i) == (tx.end + i - 1) % m
           buf == [k \in DOMAIN tx.buffer |->
                     IF \E i \in 1 .. n : Place(i) = k
                     THEN s[CHOOSE i \in 1 .. n : Place(i) = k] ELSE tx.buffer[k]]
<1>1. /\ m \in Nat /\ m # 0
      /\ tx.start \in Nat /\ tx.start < m
      /\ tx.size \in Nat /\ tx.size <= m
      /\ tx.end = (tx.start + tx.size) % m
      /\ tx.buffer \in [0 .. m - 1 -> Byte]
      /\ n \in Nat /\ tx.size + n <= m /\ n = Len(s)
  BY RingFacts
<1>2. DOMAIN tx.buffer = 0 .. m - 1
  BY <1>1
<1>3. tx' = [tx EXCEPT !.buffer = buf, !.end = Place(n + 1), !.size = @ + n]
  BY DEF PutTx
<1> HIDE DEF buf, n
<1>4. /\ tx'.start = tx.start /\ tx'.size = tx.size + n
      /\ tx'.end = Place(n + 1) /\ tx'.buffer = buf
      /\ tx' = [buffer |-> buf, start |-> tx.start, end |-> Place(n + 1),
                size |-> tx.size + n]
  <2>1. tx = [buffer |-> tx.buffer, start |-> tx.start, end |-> tx.end,
              size |-> tx.size]
    BY RingFacts
  <2> QED BY <1>3, <2>1
<1>5. ASSUME NEW i \in 1 .. n + 1
      PROVE  Place(i) = (tx.start + (tx.size + (i - 1))) % m /\ Place(i) \in 0 .. m - 1
  <2>1. i - 1 \in Nat /\ tx.size + (i - 1) <= m
    BY <1>1
  <2>2. PICK c : c = i - 1
    OBVIOUS
  <2>3. tx.end \in Nat /\ (tx.end + c) % m = (tx.start + (tx.size + c)) % m
    BY <2>1, <2>2, EndPlace
  <2>4. tx.end + i - 1 = tx.end + (i - 1) /\ tx.end + (i - 1) \in Nat
    BY <2>1, <2>3
  <2>5. Place(i) = (tx.end + (i - 1)) % m
    BY <2>4
  <2> HIDE DEF Place
  <2>6. Place(i) \in 0 .. m - 1
    BY <1>1, <2>4, <2>5
  <2> QED BY <2>2, <2>3, <2>5, <2>6
<1>6. ASSUME NEW i \in 1 .. n, NEW j \in 1 .. n, i < j
      PROVE  Place(i) # Place(j)
  <2> DEFINE b == tx.size + (i - 1)
             c == tx.size + (j - 1)
  <2>1. b \in Nat /\ c \in Nat /\ b < c /\ c < m
    <3>1. tx.size \in Nat /\ n \in Nat /\ m \in Nat /\ tx.size + n <= m
      BY <1>1
    <3> HIDE DEF m
    <3> QED BY <1>6, <3>1
  <2> HIDE DEF b, c
  <2>2. (tx.start + b) % m # (tx.start + c) % m
    BY <1>1, <2>1, OtherTurn
  <2>3. i \in 1 .. n + 1 /\ j \in 1 .. n + 1
    BY <1>1
  <2> QED BY <1>5, <2>2, <2>3 DEF b, c
<1>7. ASSUME NEW i \in 1 .. n PROVE buf[Place(i)] = s[i]
  <2>1. Place(i) \in 0 .. m - 1
    BY <1>1, <1>5
  <2>2. \E j \in 1 .. n : Place(j) = Place(i)
    OBVIOUS
  <2> DEFINE c == CHOOSE j \in 1 .. n : Place(j) = Place(i)
  <2>3. c \in 1 .. n /\ Place(c) = Place(i)
    BY <2>2
  <2>4. buf[Place(i)] = s[c]
    BY <1>2, <2>1, <2>2, Zenon DEF buf
  <2> HIDE DEF c
  <2>5. ~(c < i) /\ ~(i < c)
    BY <1>6, <2>3
  <2>6. c = i
    BY <1>1, <2>3, <2>5
  <2> QED BY <2>4, <2>6
<1>8. ASSUME NEW k \in 0 .. tx.size - 1
      PROVE  buf[(tx.start + k) % m] = tx.buffer[(tx.start + k) % m]
  <2>1. k \in Nat /\ k < m /\ (tx.start + k) % m \in 0 .. m - 1
    <3>1. /\ tx.size \in Nat /\ m \in Nat /\ m # 0 /\ tx.size <= m
          /\ tx.start \in Nat
      BY <1>1
    <3> HIDE DEF m
    <3>2. k \in Nat /\ k < m
      BY <3>1
    <3>3. tx.start + k \in Nat
      BY <3>1, <3>2
    <3> QED BY <3>1, <3>2, <3>3
  <2>2. ASSUME NEW i \in 1 .. n PROVE Place(i) # (tx.start + k) % m
    <3> DEFINE c == tx.size + (i - 1)
    <3>1. c \in Nat /\ k < c /\ c < m
      <4>1. tx.size \in Nat /\ m \in Nat /\ n \in Nat /\ tx.size + n <= m
        BY <1>1
      <4> HIDE DEF m
      <4> QED BY <4>1
    <3> HIDE DEF c
    <3>2. (tx.start + k) % m # (tx.start + c) % m
      BY <1>1, <2>1, <3>1, OtherTurn
    <3>3. i \in 1 .. n + 1
      BY <1>1
    <3> QED BY <1>5, <3>2, <3>3 DEF c
  <2> QED BY <1>2, <2>1, <2>2, Zenon DEF buf
<1>9. buf \in [0 .. m - 1 -> Byte]
  <2>1. ASSUME NEW k \in 0 .. m - 1
        PROVE (IF \E i \in 1 .. n : Place(i) = k
               THEN s[CHOOSE i \in 1 .. n : Place(i) = k]
               ELSE tx.buffer[k]) \in Byte
    <3>1. CASE \E i \in 1 .. n : Place(i) = k
      <4> DEFINE c == CHOOSE i \in 1 .. n : Place(i) = k
      <4>1. c \in 1 .. n
        BY <3>1
      <4> HIDE DEF c
      <4>2. s[c] \in Byte
        BY <1>1, <4>1
      <4> QED BY <3>1, <4>2 DEF c
    <3>2. CASE ~ \E i \in 1 .. n : Place(i) = k
      BY <1>1, <3>2
    <3> QED BY <3>1, <3>2
  <2> QED BY <1>2, <2>1, Zenon DEF buf
<1>10. tx'.end = (tx.start + tx'.size) % m /\ tx'.end \in 0 .. m - 1
  <2>1. n + 1 \in 1 .. n + 1 /\ (n + 1) - 1 = n
    BY <1>1
  <2> QED BY <1>4, <1>5, <2>1
<1>11. /\ tx.start \in 0 .. m - 1 /\ tx.size + n \in 0 .. m
  BY <1>1
<1>12. \A k \in 0 .. tx.size - 1 : InRing(k)' = InRing(k)
  BY <1>4, <1>8 DEF InRing
<1>13. ASSUME NEW k \in tx.size .. tx.size + n - 1
       PROVE  InRing(k)' = s[k - tx.size + 1]
  <2> DEFINE i == k - tx.size + 1
  <2>1. i \in 1 .. n /\ i \in 1 .. n + 1 /\ k = tx.size + (i - 1)
    <3>1. tx.size \in Nat /\ n \in Nat
      BY <1>1
    <3> HIDE DEF Place
    <3> QED BY <3>1
  <2> HIDE DEF i
  <2>2. Place(i) = (tx.start + k) % m
    BY <1>5, <2>1
  <2> HIDE DEF Place
  <2>3. buf[(tx.start + k) % m] = s[i]
    BY <1>7, <2>1, <2>2, Zenon
  <2>4. InRing(k)' = buf[(tx.start + k) % m]
    BY <1>4 DEF InRing
  <2> QED BY <2>3, <2>4 DEF i
<1> HIDE DEF Place
<1>14. tx' \in [buffer : [0 .. m - 1 -> Byte], start : 0 .. m - 1,
                end : 0 .. m - 1, size : 0 .. m]
  BY <1>4, <1>9, <1>10, <1>11
<1> QED BY <1>1, <1>4, <1>10, <1>12, <1>13, <1>14

(* txByte takes the first byte of the ring, and the others move up. *)
LEMMA TxByteTakes ==
  ASSUME LineShape, NEW c, txByte(c)
  PROVE  /\ tx.size > 0 /\ c = InRing(0) /\ c \in Byte
         /\ tx'.size = tx.size - 1
         /\ tx'.end = (tx'.start + tx'.size) % BUFFER_SIZE_MAX
         /\ tx' \in [buffer : [0 .. BUFFER_SIZE_MAX - 1 -> Byte],
                     start : 0 .. BUFFER_SIZE_MAX - 1,
                     end : 0 .. BUFFER_SIZE_MAX - 1, size : 0 .. BUFFER_SIZE_MAX]
         /\ \A k \in 0 .. tx.size - 2 : InRing(k)' = InRing(k + 1)
<1> DEFINE m == BUFFER_SIZE_MAX
           a == tx.start
           z == tx.size
           b == (a + 1) % m
<1>1. /\ m \in Nat /\ m # 0 /\ a \in Nat /\ a < m
      /\ z \in Nat /\ z <= m /\ tx.end = (a + z) % m
      /\ tx.buffer \in [0 .. m - 1 -> Byte]
      /\ tx = [buffer |-> tx.buffer, start |-> a, end |-> tx.end, size |-> z]
  BY RingFacts
<1>2. /\ z > 0 /\ c = tx.buffer[a]
      /\ tx' = [tx EXCEPT !.start = (@ + 1) % m, !.size = @ - 1]
  BY DEF txByte
<1>3. /\ tx'.start = b /\ tx'.size = z - 1 /\ tx'.end = tx.end
      /\ tx'.buffer = tx.buffer
      /\ tx' = [buffer |-> tx.buffer, start |-> b, end |-> tx.end, size |-> z - 1]
  BY <1>1, <1>2
<1> HIDE DEF m, a, z
<1>4. ASSUME NEW k \in Nat, 1 + k <= m
      PROVE  b \in 0 .. m - 1 /\ (b + k) % m = (a + (1 + k)) % m
  <2> DEFINE o == 1
  <2>1. o \in Nat /\ o + k <= m
    BY <1>4
  <2> HIDE DEF o
  <2>2. /\ (a + o) % m \in 0 .. m - 1
        /\ (((a + o) % m) + k) % m = (a + (o + k)) % m
    BY <1>1, <1>4, <2>1, TwoSteps
  <2> QED BY <2>2 DEF o
<1>5. a % m = a /\ a + 0 = a /\ a \in 0 .. m - 1
  <2>1. m \in Nat /\ m # 0 /\ a \in Nat /\ a < m
    BY <1>1
  <2> HIDE DEF b
  <2> QED BY <2>1
<1>6. c = InRing(0) /\ c \in Byte
  BY <1>1, <1>2, <1>5 DEF InRing, a, m
<1>7. z - 1 \in Nat /\ 1 + (z - 1) <= m /\ 1 + (z - 1) = z
  BY <1>1, <1>2
<1>8. b \in 0 .. m - 1 /\ (b + (z - 1)) % m = (a + z) % m
  <2> HIDE DEF b
  <2>1. b \in 0 .. m - 1 /\ (b + (z - 1)) % m = (a + (1 + (z - 1))) % m
    BY <1>4, <1>7
  <2> QED BY <1>7, <2>1
<1> HIDE DEF b
<1>9. tx'.end = (tx'.start + tx'.size) % m
  BY <1>1, <1>3, <1>8
<1>10. (a + z) % m \in 0 .. m - 1 /\ z - 1 \in 0 .. m
  BY <1>1, <1>2
<1>11. tx' \in [buffer : [0 .. m - 1 -> Byte], start : 0 .. m - 1,
                end : 0 .. m - 1, size : 0 .. m]
  BY <1>1, <1>3, <1>8, <1>10
<1>12. ASSUME NEW k \in 0 .. z - 2 PROVE InRing(k)' = InRing(k + 1)
  <2>1. k \in Nat /\ 1 + k <= m /\ 1 + k = k + 1
    BY <1>1
  <2>2. (b + k) % m = (a + (k + 1)) % m
    BY <1>4, <2>1
  <2>3. InRing(k)' = tx.buffer[(b + k) % m]
    BY <1>3 DEF InRing, m
  <2>4. InRing(k + 1) = tx.buffer[(a + (k + 1)) % m]
    BY DEF InRing, a, m
  <2> QED BY <2>2, <2>3, <2>4
<1> QED BY <1>2, <1>3, <1>6, <1>9, <1>11, <1>12 DEF m, z

(* No frame reaches beyond what waits in the ring. *)
LEMMA WithinRing ==
  ASSUME LineShape, NEW at \in [1 .. Len(sent) + 1 -> Int], Layout(at)
  PROVE  /\ Len(sent) \in Nat /\ tx.size \in Nat
         /\ \A j \in 1 .. Len(sent) + 1 : at[j] \in Int /\ at[j] <= tx.size
         /\ \A j \in 1 .. Len(sent) :
              /\ sent[j] \in Packets /\ Len(sent[j]) \in Nat /\ Len(sent[j]) >= 4
              /\ at[j + 1] = at[j] + (Len(sent[j]) + 3)
              /\ at[j] + (Len(sent[j]) + 3) <= tx.size
<1> DEFINE n == Len(sent)
<1>1. n \in Nat /\ tx.size \in Nat
  BY RingFacts DEF LineShape
<1>2. ASSUME NEW j \in 1 .. n + 1 PROVE at[j] \in Int /\ at[j] <= tx.size
  <2>1. n + 1 \in 1 .. n + 1 /\ at[n + 1] = tx.size /\ at[j] \in Int
    BY <1>1 DEF Layout
  <2>2. j = n + 1 \/ j < n + 1
    BY <1>1
  <2>3. j < n + 1 => at[j] < at[n + 1]
    BY <2>1 DEF Layout
  <2> QED BY <1>1, <2>1, <2>2, <2>3
<1>3. ASSUME NEW j \in 1 .. n
      PROVE  /\ sent[j] \in Packets /\ Len(sent[j]) \in Nat /\ Len(sent[j]) >= 4
             /\ at[j + 1] = at[j] + (Len(sent[j]) + 3)
             /\ at[j] + (Len(sent[j]) + 3) <= tx.size
  <2>1. sent[j] \in Packets
    BY DEF LineShape
  <2>2. Len(sent[j]) \in Nat /\ Len(sent[j]) >= 4
    BY <2>1, PacketFacts
  <2>3. j + 1 \in 1 .. n + 1
    BY <1>1
  <2>4. at[j + 1] = at[j] + (Len(sent[j]) + 3)
    BY DEF Layout
  <2> QED BY <1>2, <2>1, <2>2, <2>3, <2>4
<1> QED BY <1>1, <1>2, <1>3

(* A new frame lies behind the others. *)
LEMMA SendLayout ==
  ASSUME LineShape, NEW at \in [1 .. Len(sent) + 1 -> Int], Layout(at),
         NEW p \in Packets, TxHasRoom(p), tx' = PutTx(Frame(p)),
         sent' = Append(sent, p)
  PROVE  \E at2 \in [1 .. Len(sent') + 1 -> Int] :
           Layout(at2)' /\ \A j \in 1 .. Len(sent) + 1 : at2[j] = at[j]
<1>a. PICK n, z, L : n = Len(sent) /\ z = tx.size /\ L = Len(p) + 3
  OBVIOUS
<1>b. /\ p \in Seq(Byte) /\ Len(p) \in Nat /\ Len(p) >= 4
  BY PacketFacts
<1>c. n \in Nat /\ z \in Nat
  BY <1>a, WithinRing
<1>d. L \in Nat /\ L > 0
  BY <1>a, <1>b
<1>1. PICK at2 : at2 = [j \in 1 .. n + 2 |->
                          IF j <= n + 1 THEN at[j] ELSE z + L]
  OBVIOUS
<1>2. /\ \A j \in 1 .. n + 1 : at[j] \in Int /\ at[j] <= z
      /\ at[n + 1] = z
  BY <1>a, WithinRing DEF Layout
<1>3. \A j \in 1 .. n : at[j + 1] = at[j] + (Len(sent[j]) + 3)
                         /\ at[j] + (Len(sent[j]) + 3) <= z
  BY <1>a, WithinRing
<1>4. Len(sent') = n + 1 /\ sent'[n + 1] = p /\ \A j \in 1 .. n : sent'[j] = sent[j]
  BY <1>a DEF LineShape
<1> PICK s : s = Frame(p)
  OBVIOUS
<1>5. s \in Seq(Byte) /\ Len(s) = L
  BY <1>a, <1>b, FrameFacts
<1>6. Len(s) <= BUFFER_SIZE_MAX - tx.size
  BY <1>a, <1>5, RingFacts DEF TxHasRoom
<1>7. /\ tx'.size = z + L
      /\ \A k \in 0 .. z - 1 : InRing(k)' = InRing(k)
      /\ \A k \in z .. z + L - 1 : InRing(k)' = s[k - z + 1]
  BY <1>a, <1>5, <1>6, PutTxStores
<1>8. /\ \A j \in 1 .. n + 1 : at2[j] = at[j]
      /\ at2[n + 2] = z + L
      /\ at2 \in [1 .. n + 2 -> Int]
  <2>1. n + 2 \in 1 .. n + 2 /\ ~(n + 2 <= n + 1) /\ z + L \in Int
    BY <1>c, <1>d
  <2>2. ASSUME NEW j \in 1 .. n + 1 PROVE j \in 1 .. n + 2 /\ j <= n + 1
    BY <1>c
  <2>3. ASSUME NEW j \in 1 .. n + 2
        PROVE  (IF j <= n + 1 THEN at[j] ELSE z + L) \in Int
    <3>1. j <= n + 1 => j \in 1 .. n + 1
      BY <1>c
    <3> QED BY <1>2, <2>1, <3>1
  <2>4. at2 \in [1 .. n + 2 -> Int]
    BY <1>1, <2>3, Zenon
  <2>5. at2[n + 2] = z + L
    BY <1>1, <2>1, Zenon
  <2>6. \A j \in 1 .. n + 1 : at2[j] = at[j]
    BY <1>1, <2>2, Zenon
  <2> QED BY <2>4, <2>5, <2>6
<1>e. n + 1 \in 1 .. n + 1 /\ (n + 1) + 1 = n + 2
  BY <1>c
<1>9. \A j \in 1 .. n + 1 : at2[j + 1] = at2[j] + (Len(sent'[j]) + 3)
  <2> SUFFICES ASSUME NEW j \in 1 .. n + 1
               PROVE  at2[j + 1] = at2[j] + (Len(sent'[j]) + 3)
    OBVIOUS
  <2>1. CASE j = n + 1
    <3>1. at2[n + 1] = z
      BY <1>2, <1>8, <1>e
    <3> QED BY <1>a, <1>4, <1>8, <1>e, <2>1, <3>1
  <2>2. CASE j # n + 1
    <3>1. j \in 1 .. n /\ j + 1 \in 1 .. n + 1
      BY <1>c, <2>2
    <3>2. at2[j + 1] = at[j + 1] /\ at2[j] = at[j] /\ sent'[j] = sent[j]
      BY <1>4, <1>8, <3>1
    <3>3. at[j + 1] = at[j] + (Len(sent[j]) + 3)
      BY <1>3, <3>1
    <3> QED BY <3>2, <3>3
  <2> QED BY <2>1, <2>2
<1>10. \A i, j \in 1 .. n + 2 : i < j => at2[i] < at2[j]
  <2> SUFFICES ASSUME NEW i \in 1 .. n + 2, NEW j \in 1 .. n + 2, i < j
               PROVE  at2[i] < at2[j]
    OBVIOUS
  <2>1. i \in 1 .. n + 1
    BY <1>c
  <2>2. CASE j = n + 2
    <3>1. at2[i] = at[i] /\ at[i] \in Int /\ at[i] <= z
      BY <1>2, <1>8, <2>1
    <3>2. at2[j] = z + L
      BY <1>8, <2>2
    <3> QED BY <1>c, <1>d, <3>1, <3>2
  <2>3. CASE j # n + 2
    <3>1. j \in 1 .. n + 1
      BY <1>c, <2>3
    <3>2. at[i] < at[j]
      BY <1>a, <2>1, <3>1, Zenon DEF Layout
    <3>3. at2[i] = at[i] /\ at2[j] = at[j]
      BY <1>8, <2>1, <3>1
    <3> QED BY <3>2, <3>3, Zenon
  <2> QED BY <2>2, <2>3
<1>11. ASSUME NEW j \in 1 .. n + 1, NEW i \in 1 .. Len(sent'[j]) + 3,
              at2[j] + (i - 1) >= 0
       PROVE  InRing(at2[j] + (i - 1))' = Frame(sent'[j])[i]
  <2>1. PICK k : k = at2[j] + (i - 1)
    OBVIOUS
  <2>2. InRing(k)' = Frame(sent'[j])[i]
    <3>1. CASE j = n + 1
      <4>1. at2[j] = z
        BY <1>2, <1>8, <1>e, <3>1
      <4>2. i \in 1 .. L
        BY <1>a, <1>4, <3>1
      <4>3. k = z + (i - 1)
        BY <2>1, <4>1
      <4>4. k \in z .. z + L - 1 /\ k - z + 1 = i
        BY <1>c, <1>d, <4>2, <4>3
      <4> QED BY <1>4, <1>7, <3>1, <4>4
    <3>2. CASE j # n + 1
      <4>1. j \in 1 .. n
        BY <1>c, <3>2
      <4>2. PICK a, l : a = at[j] /\ l = Len(sent[j]) + 3
        OBVIOUS
      <4>3. a \in Int /\ a + l <= z /\ sent'[j] = sent[j] /\ at2[j] = a
        BY <1>2, <1>3, <1>4, <1>8, <4>1, <4>2
      <4>4. i \in 1 .. l /\ k = a + (i - 1) /\ k >= 0
        BY <1>11, <2>1, <4>2, <4>3
      <4>5. l \in Int
        BY <1>a, <4>1, <4>2, WithinRing
      <4>6. k \in 0 .. z - 1
        BY <1>c, <4>3, <4>4, <4>5
      <4>7. InRing(at[j] + (i - 1)) = Frame(sent[j])[i]
        BY <1>a, <4>1, <4>2, <4>4 DEF Layout
      <4>8. InRing(k)' = InRing(k)
        BY <1>7, <4>6
      <4> QED BY <4>2, <4>3, <4>4, <4>7, <4>8
    <3> QED BY <3>1, <3>2
  <2> QED BY <2>1, <2>2
<1>12. Layout(at2)'
  <2>1. at2[Len(sent') + 1] = tx'.size
    BY <1>4, <1>7, <1>8, <1>e
  <2> QED BY <1>4, <1>9, <1>10, <1>11, <1>e, <2>1 DEF Layout
<1> QED BY <1>a, <1>4, <1>8, <1>12, <1>e

(* When a byte is taken, every frame comes one place nearer. *)
LEMMA TakeLayout ==
  ASSUME LineShape, NEW at \in [1 .. Len(sent) + 1 -> Int], Layout(at),
         NEW c, txByte(c), UNCHANGED sent
  PROVE  \E at2 \in [1 .. Len(sent') + 1 -> Int] :
           Layout(at2)' /\ \A j \in 1 .. Len(sent) + 1 : at2[j] = at[j] - 1
<1>a. PICK n, z : n = Len(sent) /\ z = tx.size
  OBVIOUS
<1>1. PICK at2 : at2 = [j \in 1 .. n + 1 |-> at[j] - 1]
  OBVIOUS
<1>b. n \in Nat /\ z \in Nat
  BY <1>a, WithinRing
<1>2. /\ \A j \in 1 .. n + 1 : at[j] \in Int /\ at[j] <= z
      /\ at[n + 1] = z
  BY <1>a, WithinRing DEF Layout
<1>3. \A j \in 1 .. n : /\ Len(sent[j]) \in Nat /\ Len(sent[j]) >= 4
                         /\ at[j + 1] = at[j] + (Len(sent[j]) + 3)
                         /\ at[j] + (Len(sent[j]) + 3) <= z
  BY <1>a, WithinRing
<1>4. /\ z > 0 /\ tx'.size = z - 1
      /\ \A k \in 0 .. z - 2 : InRing(k)' = InRing(k + 1)
  BY <1>a, TxByteTakes
<1>5. /\ \A j \in 1 .. n + 1 : at2[j] = at[j] - 1
      /\ at2 \in [1 .. n + 1 -> Int]
  BY <1>1, <1>2
<1>6. at2[n + 1] = tx'.size
  <2>1. n + 1 \in 1 .. n + 1
    BY <1>b
  <2> QED BY <1>2, <1>4, <1>5, <2>1
<1>7. \A j \in 1 .. n : at2[j + 1] = at2[j] + (Len(sent[j]) + 3)
  <2> SUFFICES ASSUME NEW j \in 1 .. n
               PROVE  at2[j + 1] = at2[j] + (Len(sent[j]) + 3)
    OBVIOUS
  <2>1. j \in 1 .. n + 1 /\ j + 1 \in 1 .. n + 1
    BY <1>b
  <2>2. PICK l : l = Len(sent[j])
    OBVIOUS
  <2>3. at2[j] = at[j] - 1 /\ at2[j + 1] = at[j + 1] - 1
    BY <1>5, <2>1
  <2>4. l \in Nat /\ at[j] \in Int /\ at[j + 1] = at[j] + (l + 3)
    BY <1>2, <1>3, <2>1, <2>2
  <2>5. at2[j + 1] = at2[j] + (l + 3)
    BY <2>3, <2>4
  <2> QED BY <2>2, <2>5
<1>8. \A i, j \in 1 .. n + 1 : i < j => at2[i] < at2[j]
  <2> SUFFICES ASSUME NEW i \in 1 .. n + 1, NEW j \in 1 .. n + 1, i < j
               PROVE  at2[i] < at2[j]
    OBVIOUS
  <2>1. at[i] < at[j]
    BY <1>a, Zenon DEF Layout
  <2>2. /\ at[i] \in Int /\ at[j] \in Int
        /\ at2[i] = at[i] - 1 /\ at2[j] = at[j] - 1
    BY <1>2, <1>5
  <2> QED BY <2>1, <2>2
<1>9. ASSUME NEW j \in 1 .. n, NEW i \in 1 .. Len(sent[j]) + 3,
             at2[j] + (i - 1) >= 0
      PROVE  InRing(at2[j] + (i - 1))' = Frame(sent[j])[i]
  <2>1. PICK k, a, l : k = at2[j] + (i - 1) /\ a = at[j] /\ l = Len(sent[j]) + 3
    OBVIOUS
  <2>2. j \in 1 .. n + 1
    BY <1>b
  <2>3. /\ l \in Nat /\ i \in 1 .. l /\ a \in Int /\ a + l <= z
        /\ at2[j] = a - 1
    <3>1. /\ Len(sent[j]) \in Nat /\ Len(sent[j]) + 3 = l
          /\ at[j] + (Len(sent[j]) + 3) <= z
      BY <1>3, <2>1
    <3>2. at[j] \in Int /\ at2[j] = at[j] - 1
      BY <1>2, <1>5, <2>2
    <3> QED BY <2>1, <3>1, <3>2
  <2>4. k = (a - 1) + (i - 1) /\ k >= 0
    BY <1>9, <2>1, <2>3
  <2>5. k + 1 = a + (i - 1) /\ k \in 0 .. z - 2 /\ a + (i - 1) >= 0
    BY <1>b, <2>3, <2>4
  <2>6. InRing(at[j] + (i - 1)) = Frame(sent[j])[i]
    BY <1>a, <2>1, <2>5 DEF Layout
  <2>7. InRing(k)' = InRing(k + 1)
    BY <1>4, <2>5
  <2> QED BY <2>1, <2>5, <2>6, <2>7
<1>10. Layout(at2)'
  BY <1>a, <1>6, <1>7, <1>8, <1>9 DEF Layout
<1> QED BY <1>a, <1>5, <1>10
----------------------------------------------------------------------------
(* The receiver *)

RxShape ==
  /\ rx \in [fn : {"rxAA", "rx55", "rxType", "rxSize", "rxPayload", "rxChecksum"},
             op : DOMAIN Operations \cup {0}, checksum : Byte,
             packet : Seq(Byte), to_read : Nat]
  /\ rx.fn \in {"rxSize", "rxPayload", "rxChecksum"} => rx.op \in DOMAIN Operations
  /\ rx.fn = "rxPayload" =>
       rx.to_read > 0 /\ Len(rx.packet) + rx.to_read = Operations[rx.op]
  /\ rx.fn = "rxChecksum" => Len(rx.packet) = Operations[rx.op]

RxFields ==
  rx = [fn |-> rx.fn, op |-> rx.op, checksum |-> rx.checksum,
        packet |-> rx.packet, to_read |-> rx.to_read]

LEMMA RxFacts ==
  ASSUME RxShape
  PROVE  /\ rx.fn \in {"rxAA", "rx55", "rxType", "rxSize", "rxPayload", "rxChecksum"}
         /\ rx.op \in DOMAIN Operations \cup {0} /\ rx.checksum \in Byte
         /\ rx.packet \in Seq(Byte) /\ rx.to_read \in Nat
         /\ RxFields
BY DEF RxShape, RxFields

(* Whatever byte arrives, the packet under reception fits its buffer. *)
LEMMA RxByteShape ==
  ASSUME RxShape, received \in Seq(Seq(Byte)), NEW c \in Byte, NEW b,
         rxByteWith(c, b)
  PROVE  RxShape' /\ received' \in Seq(Seq(Byte))
<1>1. /\ rx.op \in DOMAIN Operations \cup {0} /\ rx.checksum \in Byte
      /\ rx.packet \in Seq(Byte) /\ rx.to_read \in Nat /\ RxFields
  BY RxFacts
<1>2. {} \in Byte /\ Xor(rx.checksum, c) \in Byte /\ Xor({}, c) \in Byte
  BY <1>1, XorByte DEF Byte
<1>3. CASE rxAA(c)
  <2>1. /\ rx' = [rx EXCEPT !.checksum = {}, !.fn = IF c = AA THEN "rx55" ELSE @]
        /\ rx.fn = "rxAA" /\ received' = received
    BY <1>3 DEF rxAA
  <2>2. rx' = [fn |-> IF c = AA THEN "rx55" ELSE "rxAA", op |-> rx.op,
               checksum |-> {}, packet |-> rx.packet, to_read |-> rx.to_read]
    BY <1>1, <2>1 DEF RxFields
  <2> QED BY <1>1, <1>2, <2>1, <2>2 DEF RxShape
<1>4. CASE rx55(c)
  <2>1. /\ rx' = IF c = x55 THEN [rx EXCEPT !.fn = "rxType", !.checksum = {}]
                            ELSE [rx EXCEPT !.fn = "rxAA"]
        /\ received' = received
    BY <1>4 DEF rx55, Lost
  <2>2. rx' = [fn |-> IF c = x55 THEN "rxType" ELSE "rxAA", op |-> rx.op,
               checksum |-> IF c = x55 THEN {} ELSE rx.checksum,
               packet |-> rx.packet, to_read |-> rx.to_read]
    BY <1>1, <2>1 DEF RxFields
  <2> QED BY <1>1, <1>2, <2>1, <2>2 DEF RxShape
<1>5. CASE rxType(c)
  <2> DEFINE types == {t \in DOMAIN Operations : Bits(t) = c}
             o == CHOOSE t \in types : TRUE
  <2>1. /\ rx' = IF types = {} THEN [Lost EXCEPT !.checksum = Xor(@, c)]
                 ELSE [rx EXCEPT !.fn = "rxSize", !.checksum = Xor(@, c), !.op = o]
        /\ received' = received
    BY <1>5 DEF rxType
  <2>2. types # {} => o \in DOMAIN Operations
    OBVIOUS
  <2> HIDE DEF types, o
  <2>3. CASE types = {}
    <3>1. rx' = [fn |-> "rxAA", op |-> rx.op, checksum |-> Xor(rx.checksum, c),
                 packet |-> rx.packet, to_read |-> rx.to_read]
      BY <1>1, <2>1, <2>3 DEF RxFields, Lost
    <3>2. received' = received
      BY <2>1
    <3> QED BY <1>1, <1>2, <3>1, <3>2 DEF RxShape
  <2>4. CASE types # {}
    <3>1. rx' = [fn |-> "rxSize", op |-> o, checksum |-> Xor(rx.checksum, c),
                 packet |-> rx.packet, to_read |-> rx.to_read]
      BY <1>1, <2>1, <2>4 DEF RxFields
    <3> QED BY <1>1, <1>2, <2>1, <2>2, <2>4, <3>1 DEF RxShape
  <2> QED BY <2>3, <2>4
<1>6. CASE rxSize(c, b)
  <2> DEFINE n == Operations[rx.op]
             h == <<Bits(rx.op), c>>
  <2>1. /\ rx.fn = "rxSize" /\ received' = received
        /\ rx' = IF c # Bits(n) \/ ~b THEN [rx EXCEPT !.fn = "rxAA"]
                 ELSE [rx EXCEPT !.fn = "rxPayload", !.checksum = Xor(@, c),
                                 !.to_read = n - 2, !.packet = h]
    BY <1>6 DEF rxSize, Lost
  <2>2. rx.op \in DOMAIN Operations
    BY <2>1 DEF RxShape
  <2>3. n \in Nat /\ n >= 4
    <3>1. n \in HeaderBytes .. 254
      BY <2>2, PacketConstants, Zenon
    <3> HIDE DEF n
    <3>2. HeaderBytes = 4
      BY DEF HeaderBytes
    <3>3. HeaderBytes \in Nat
      BY <3>2
    <3>4. n \in Nat /\ n >= HeaderBytes
      BY <3>1, <3>3
    <3> QED BY <3>2, <3>4
  <2>4. h \in Seq(Byte) /\ Len(h) = 2
    BY BitsByte
  <2> HIDE DEF n, h
  <2>5. CASE c # Bits(n) \/ ~b
    <3>1. rx' = [fn |-> "rxAA", op |-> rx.op, checksum |-> rx.checksum,
                 packet |-> rx.packet, to_read |-> rx.to_read]
      BY <1>1, <2>1, <2>5 DEF RxFields
    <3>2. received' = received
      BY <2>1
    <3> QED BY <1>1, <3>1, <3>2 DEF RxShape
  <2>6. CASE ~(c # Bits(n) \/ ~b)
    <3>1. rx' = [fn |-> "rxPayload", op |-> rx.op, checksum |-> Xor(rx.checksum, c),
                 packet |-> h, to_read |-> n - 2]
      BY <1>1, <2>1, <2>6 DEF RxFields
    <3>2. n - 2 \in Nat /\ n - 2 > 0 /\ Len(h) + (n - 2) = n
      BY <2>3, <2>4
    <3> QED BY <1>1, <1>2, <2>1, <2>2, <2>4, <3>1, <3>2 DEF RxShape, n
  <2> QED BY <2>5, <2>6
<1>7. CASE rxPayload(c)
  <2> DEFINE q == Append(rx.packet, c)
             f == IF rx.to_read = 1 THEN "rxChecksum" ELSE "rxPayload"
  <2>1. /\ rx.fn = "rxPayload" /\ received' = received
        /\ rx' = [rx EXCEPT !.checksum = Xor(@, c), !.packet = q,
                            !.to_read = @ - 1,
                            !.fn = IF rx.to_read = 1 THEN "rxChecksum" ELSE @]
    BY <1>7 DEF rxPayload
  <2>2. q \in Seq(Byte) /\ Len(q) = Len(rx.packet) + 1 /\ Len(rx.packet) \in Nat
    BY <1>1
  <2>3. /\ rx.to_read > 0 /\ Len(rx.packet) + rx.to_read = Operations[rx.op]
        /\ rx.op \in DOMAIN Operations
    BY <2>1 DEF RxShape
  <2> HIDE DEF q
  <2>4. rx' = [fn |-> f, op |-> rx.op, checksum |-> Xor(rx.checksum, c),
               packet |-> q, to_read |-> rx.to_read - 1]
    BY <1>1, <2>1 DEF RxFields
  <2>5. /\ rx.to_read - 1 \in Nat
        /\ Len(q) + (rx.to_read - 1) = Operations[rx.op]
        /\ rx.to_read = 1 => Len(q) = Operations[rx.op]
        /\ rx.to_read # 1 => rx.to_read - 1 > 0
    <3> DEFINE a == rx.to_read
               l == Len(rx.packet)
               z == Len(q)
               o == Operations[rx.op]
    <3>1. a \in Nat /\ l \in Nat /\ a > 0 /\ l + a = o /\ z = l + 1
      BY <1>1, <2>2, <2>3
    <3> HIDE DEF a, l, z, o
    <3>2. /\ a - 1 \in Nat /\ z + (a - 1) = o
          /\ a = 1 => z = o
          /\ a # 1 => a - 1 > 0
      BY <3>1
    <3> QED BY <3>2 DEF a, l, z, o
  <2> QED BY <1>1, <1>2, <2>1, <2>2, <2>3, <2>4, <2>5 DEF RxShape
<1>8. CASE rxChecksum(c)
  <2>1. /\ rx' = [[rx EXCEPT !.fn = "rxAA"] EXCEPT !.packet = <<>>]
        /\ received' = IF c = rx.checksum THEN Append(received, rx.packet)
                                          ELSE received
    BY <1>8 DEF rxChecksum, Lost
  <2>2. rx' = [fn |-> "rxAA", op |-> rx.op, checksum |-> rx.checksum,
               packet |-> <<>>, to_read |-> rx.to_read]
    BY <1>1, <2>1 DEF RxFields
  <2>3. <<>> \in Seq(Byte)
    OBVIOUS
  <2>4. received' \in Seq(Seq(Byte))
    BY <1>1, <2>1
  <2> QED BY <1>1, <2>2, <2>3, <2>4 DEF RxShape
<1> QED BY <1>3, <1>4, <1>5, <1>6, <1>7, <1>8 DEF rxByteWith

(* The receiver that has read a part of a frame and is given its next byte *)
(* has read one byte more, and after the last one delivers the packet.     *)
LEMMA RxByteReads ==
  ASSUME RxShape, NEW p \in Packets, NEW k \in 0 .. Len(p) + 2, Reads(k, p),
         rxByte(Frame(p)[k + 1])
  PROVE  /\ k < Len(p) + 2 => Reads(k + 1, p)' /\ received' = received
         /\ k = Len(p) + 2 =>
              rx'.fn = "rxAA" /\ received' = Append(received, p)
<1> DEFINE n == Len(p)
           c == Frame(p)[k + 1]
<1>1. /\ p \in Seq(Byte) /\ n \in Nat /\ n >= 4
      /\ \E t \in DOMAIN Operations :
           /\ t \in 0 .. 15 /\ Operations[t] = n
           /\ p[1] = Bits(t) /\ p[2] = Bits(n)
  BY PacketFacts
<1>2. /\ Frame(p)[1] = AA /\ Frame(p)[2] = x55
      /\ \A i \in 1 .. n : Frame(p)[i + 2] = p[i]
      /\ Frame(p)[n + 3] = Checksum(p)
  BY <1>1, FrameFacts
<1>3. /\ Running(p)[0] = {}
      /\ \A i \in 1 .. n : Running(p)[i] = Xor(Running(p)[i - 1], p[i])
  BY <1>1, RunningDef
<1>4. RxFields
  BY RxFacts
<1>5. rxByteWith(c, TRUE)
  BY DEF rxByte
<1> HIDE DEF n
<1>6. CASE k = 0
  <2>1. c = AA /\ rx.fn = "rxAA"
    BY <1>2, <1>6 DEF Reads
  <2> HIDE DEF c
  <2>2. rxAA(c)
    BY <1>5, <2>1 DEF rxByteWith, rxAA, rx55, rxType, rxSize, rxPayload, rxChecksum
  <2>3. rx'.fn = "rx55" /\ received' = received
    BY <1>4, <2>1, <2>2 DEF rxAA, RxFields
  <2>4. Reads(1, p)'
    BY <1>1, <2>3 DEF Reads, n
  <2> QED BY <1>1, <1>6, <2>3, <2>4 DEF n
<1>7. CASE k = 1
  <2>1. c = x55 /\ rx.fn = "rx55"
    BY <1>2, <1>7 DEF Reads
  <2> HIDE DEF c
  <2>2. rx55(c)
    BY <1>5, <2>1 DEF rxByteWith, rxAA, rx55, rxType, rxSize, rxPayload, rxChecksum
  <2>3. rx'.fn = "rxType" /\ rx'.checksum = {} /\ received' = received
    BY <1>4, <2>1, <2>2 DEF rx55, RxFields
  <2>4. Reads(2, p)'
    BY <1>1, <2>3 DEF Reads, n
  <2> QED BY <1>1, <1>7, <2>3, <2>4 DEF n
<1>8. CASE k = 2
  <2>1. c = p[1] /\ rx.fn = "rxType" /\ rx.checksum = {}
    <3>1. 1 \in 1 .. n /\ k + 1 = 1 + 2
      BY <1>1, <1>8
    <3> QED BY <1>2, <1>8, <3>1 DEF Reads
  <2> HIDE DEF c
  <2>2. rxType(c)
    BY <1>5, <2>1 DEF rxByteWith, rxAA, rx55, rxType, rxSize, rxPayload, rxChecksum
  <2> DEFINE types == {t \in DOMAIN Operations : Bits(t) = c}
             o == CHOOSE t \in types : TRUE
  <2>3. PICK t \in DOMAIN Operations : t \in 0 .. 15 /\ Operations[t] = n /\ p[1] = Bits(t)
    BY <1>1
  <2>4. t \in types
    BY <2>1, <2>3
  <2>5. o \in types
    BY <2>4
  <2>6. o \in DOMAIN Operations /\ Bits(o) = p[1]
    BY <2>1, <2>5
  <2>7. o \in 0 .. 15
    BY <2>6, PacketConstants
  <2>8. /\ received' = received
        /\ rx' = [rx EXCEPT !.fn = "rxSize", !.checksum = Xor(@, c), !.op = o]
    BY <2>2, <2>4 DEF rxType
  <2> HIDE DEF types, o
  <2>9. o = t
    BY <2>3, <2>6, <2>7, BitsInjective
  <2>10. rx'.fn = "rxSize" /\ rx'.checksum = Xor({}, p[1]) /\ rx'.op = o
    BY <1>4, <2>1, <2>8 DEF RxFields
  <2>11. Running(p)[1] = Xor({}, p[1])
    <3>1. 1 \in 1 .. n /\ 1 - 1 = 0
      BY <1>1
    <3> QED BY <1>3, <3>1
  <2>12. Reads(3, p)'
    BY <1>1, <2>3, <2>6, <2>9, <2>10, <2>11 DEF Reads, n
  <2> QED BY <1>1, <1>8, <2>8, <2>12 DEF n
<1>9. CASE k = 3
  <2>1. /\ c = p[2] /\ rx.fn = "rxSize" /\ rx.checksum = Running(p)[1]
        /\ Bits(rx.op) = p[1] /\ Operations[rx.op] = n
    <3>1. 2 \in 1 .. n /\ k + 1 = 2 + 2
      BY <1>1, <1>9
    <3> QED BY <1>2, <1>9, <3>1 DEF Reads, n
  <2> HIDE DEF c
  <2>2. rxSize(c, TRUE)
    BY <1>5, <2>1 DEF rxByteWith, rxAA, rx55, rxType, rxSize, rxPayload, rxChecksum
  <2>3. c = Bits(n)
    BY <1>1, <2>1
  <2>4. /\ received' = received
        /\ rx' = [rx EXCEPT !.fn = "rxPayload", !.checksum = Xor(@, c),
                            !.to_read = n - 2, !.packet = <<p[1], c>>]
    BY <2>1, <2>2, <2>3 DEF rxSize
  <2>5. /\ rx'.fn = "rxPayload" /\ rx'.checksum = Xor(Running(p)[1], p[2])
        /\ rx'.to_read = n - 2 /\ rx'.packet = <<p[1], p[2]>>
    BY <1>4, <2>1, <2>4 DEF RxFields
  <2>6. Running(p)[2] = Xor(Running(p)[1], p[2])
    <3>1. 2 \in 1 .. n /\ 2 - 1 = 1
      BY <1>1
    <3> QED BY <1>3, <3>1
  <2>7. SubSeq(p, 1, 2) = <<p[1], p[2]>>
    <3> DEFINE q == SubSeq(p, 1, 2)
               h == <<p[1], p[2]>>
    <3>1. Len(p) \in Nat /\ 2 <= Len(p)
      BY <1>1 DEF n
    <3>2. q \in Seq(Byte) /\ Len(q) = 2 /\ q[1] = p[1] /\ q[2] = p[2]
      BY <1>1, <3>1
    <3>3. p[1] \in Byte /\ p[2] \in Byte
      BY <1>1, <3>1
    <3>4. h \in Seq(Byte) /\ Len(h) = 2 /\ h[1] = p[1] /\ h[2] = p[2]
      BY <3>3
    <3> HIDE DEF q, h
    <3>5. \A i \in 1 .. 2 : q[i] = h[i]
      <4>1. \A i \in 1 .. 2 : i = 1 \/ i = 2
        OBVIOUS
      <4> QED BY <3>2, <3>4, <4>1
    <3>6. q = h
      BY <3>2, <3>4, <3>5, SeqEqual
    <3> QED BY <3>6 DEF q, h
  <2>8. Reads(4, p)'
    <3>1. 4 - 2 = 2 /\ n # 2 /\ 4 # n + 2
      BY <1>1
    <3> QED BY <2>5, <2>6, <2>7, <3>1 DEF Reads, n
  <2> QED BY <1>1, <1>9, <2>4, <2>8 DEF n
<1>10. CASE k \in 4 .. n + 1
  <2> DEFINE i == k - 1
             q == SubSeq(p, 1, i)
  <2>1. i \in 3 .. n /\ i - 1 = k - 2 /\ i + 2 = k + 1 /\ i \in 1 .. n
    BY <1>1, <1>10
  <2>2. /\ rx.fn = "rxPayload" /\ rx.checksum = Running(p)[k - 2]
        /\ rx.packet = SubSeq(p, 1, k - 2) /\ rx.to_read = n - (k - 2)
    BY <1>10 DEF Reads, n
  <2>3. c = p[i]
    <3> HIDE DEF i
    <3> QED BY <1>2, <2>1
  <2> HIDE DEF c
  <2>4. rxPayload(c)
    BY <1>5, <2>2 DEF rxByteWith, rxAA, rx55, rxType, rxSize, rxPayload, rxChecksum
  <2>5. Append(rx.packet, c) = q
    <3> HIDE DEF i
    <3>1. Append(SubSeq(p, 1, i - 1), p[i]) = SubSeq(p, 1, i)
      BY <1>1, <2>1 DEF n
    <3> QED BY <2>1, <2>2, <2>3, <3>1
  <2>6. Xor(rx.checksum, c) = Running(p)[i]
    <3> HIDE DEF i
    <3> QED BY <1>3, <2>1, <2>2, <2>3
  <2>7. rx.to_read - 1 = n - i /\ (rx.to_read = 1 <=> i = n)
    <3> DEFINE a == rx.to_read
    <3>1. a = n - (k - 2)
      BY <2>2
    <3> HIDE DEF a
    <3>2. a - 1 = n - i /\ (a = 1 <=> i = n)
      BY <1>1, <1>10, <3>1
    <3> QED BY <3>2 DEF a
  <2> HIDE DEF q
  <2>8. /\ received' = received
        /\ rx'.checksum = Running(p)[i] /\ rx'.packet = q /\ rx'.to_read = n - i
        /\ rx'.fn = IF i = n THEN "rxChecksum" ELSE "rxPayload"
    <3> HIDE DEF i
    <3>1. /\ received' = received
          /\ rx' = [rx EXCEPT !.checksum = Running(p)[i], !.packet = q,
                              !.to_read = n - i,
                              !.fn = IF i = n THEN "rxChecksum" ELSE @]
      BY <2>4, <2>5, <2>6, <2>7 DEF rxPayload
    <3> QED BY <1>4, <2>2, <3>1 DEF RxFields
  <2>9. CASE i = n
    <3>1. q = p
      BY <1>1, <2>9 DEF q, n
    <3>2. k + 1 = n + 2 /\ k + 1 \notin 4 .. n + 1 /\ k + 1 \notin {0, 1, 2, 3}
      BY <1>1, <2>9
    <3> HIDE DEF i
    <3>3. Checksum(p) = Running(p)[n]
      BY DEF Checksum, n
    <3>4. Reads(k + 1, p)'
      BY <2>8, <2>9, <3>1, <3>2, <3>3 DEF Reads, n
    <3> QED BY <1>1, <1>10, <2>8, <3>2, <3>4 DEF n
  <2>10. CASE i # n
    <3>1. /\ k + 1 # n + 2 /\ k + 1 \in 4 .. n + 1 /\ k + 1 \notin {0, 1, 2, 3}
          /\ (k + 1) - 2 = i /\ k < n + 2 /\ k # n + 2
      BY <1>1, <1>10, <2>10
    <3> HIDE DEF i
    <3>4. Reads(k + 1, p)'
      BY <2>8, <2>10, <3>1 DEF Reads, n, q
    <3> QED BY <2>8, <3>1, <3>4 DEF n
  <2> QED BY <2>9, <2>10
<1>11. CASE k = n + 2
  <2>1. rx.fn = "rxChecksum" /\ rx.packet = p /\ rx.checksum = Checksum(p)
    BY <1>11 DEF Reads, n
  <2>2. c = Checksum(p)
    <3>1. k + 1 = n + 3
      BY <1>1, <1>11
    <3> QED BY <1>2, <3>1
  <2> HIDE DEF c
  <2>3. rxChecksum(c)
    BY <1>5, <2>1 DEF rxByteWith, rxAA, rx55, rxType, rxSize, rxPayload, rxChecksum
  <2>4. /\ rx' = [[rx EXCEPT !.fn = "rxAA"] EXCEPT !.packet = <<>>]
        /\ received' = Append(received, p)
    BY <2>1, <2>2, <2>3 DEF rxChecksum, Lost
  <2>5. rx'.fn = "rxAA"
    BY <1>4, <2>4 DEF RxFields
  <2> QED BY <1>1, <1>11, <2>4, <2>5 DEF n
<1>12. k \in {0, 1, 2, 3} \/ k \in 4 .. n + 1 \/ k = n + 2
  BY <1>1 DEF n
<1> HIDE DEF c
<1> QED BY <1>6, <1>7, <1>8, <1>9, <1>10, <1>11, <1>12
----------------------------------------------------------------------------
(* The line *)

LEMMA LineInvInit == LineInit => LineInv
<1> SUFFICES ASSUME LineInit PROVE LineInv
  OBVIOUS
<1> DEFINE m == BUFFER_SIZE_MAX
           b == [i \in 0 .. m - 1 |-> {}]
<1>1. m \in Nat /\ m # 0 /\ {} \in Byte
  BY PacketConstants DEF Byte
<1>2. b \in [0 .. m - 1 -> Byte] /\ 0 \in 0 .. m - 1 /\ 0 \in 0 .. m /\ (0 + 0) % m = 0
  BY <1>1
<1> HIDE DEF b, m
<1>3. /\ tx = [buffer |-> b, start |-> 0, end |-> 0, size |-> 0]
      /\ rx = [fn |-> "rxAA", op |-> 0, checksum |-> {}, packet |-> <<>>,
               to_read |-> 0]
      /\ sent = <<>> /\ received = <<>>
  BY DEF LineInit, b, m
<1>4. LineTypeOK
  <2>1. tx \in [buffer : [0 .. m - 1 -> Byte], start : 0 .. m - 1,
                end : 0 .. m - 1, size : 0 .. m]
    BY <1>2, <1>3
  <2>2. <<>> \in Seq(Byte)
    OBVIOUS
  <2> QED BY <1>1, <1>3, <2>1, <2>2 DEF LineTypeOK, m
<1>5. LineShape
  <2>1. tx.end = (tx.start + tx.size) % m
    BY <1>2, <1>3
  <2> QED BY <1>3, <1>4, <2>1 DEF LineShape, m
<1>6. \E at \in [1 .. Len(sent) + 1 -> Int] : Layout(at) /\ Progress(at)
  <2>1. PICK at : at = [j \in 1 .. 1 |-> 0]
    OBVIOUS
  <2>2. Len(sent) = 0 /\ Len(received) = 0 /\ tx.size = 0 /\ rx.fn = "rxAA"
    BY <1>3
  <2>3. at[1] = 0 /\ at \in [1 .. 0 + 1 -> Int] /\ 0 + 1 = 1
    BY <2>1
  <2>4. Layout(at)
    BY <2>2, <2>3 DEF Layout
  <2>5. Progress(at)
    BY <2>2, <2>3 DEF Progress
  <2> QED BY <2>2, <2>3, <2>4, <2>5
<1> QED BY <1>5, <1>6 DEF LineInv

(* The parts of the state that a step touches, put together. *)
LEMMA ShapeParts ==
  ASSUME RxShape',
         tx' \in [buffer : [0 .. BUFFER_SIZE_MAX - 1 -> Byte],
                  start : 0 .. BUFFER_SIZE_MAX - 1,
                  end : 0 .. BUFFER_SIZE_MAX - 1, size : 0 .. BUFFER_SIZE_MAX],
         tx'.end = (tx'.start + tx'.size) % BUFFER_SIZE_MAX,
         sent' \in Seq(Packets), received' \in Seq(Seq(Byte))
  PROVE  LineShape'
BY DEF LineShape, LineTypeOK, RxShape

LEMMA ShapeSplit ==
  ASSUME LineShape
  PROVE  /\ RxShape
         /\ tx \in [buffer : [0 .. BUFFER_SIZE_MAX - 1 -> Byte],
                    start : 0 .. BUFFER_SIZE_MAX - 1,
                    end : 0 .. BUFFER_SIZE_MAX - 1, size : 0 .. BUFFER_SIZE_MAX]
         /\ tx.end = (tx.start + tx.size) % BUFFER_SIZE_MAX
         /\ sent \in Seq(Packets) /\ received \in Seq(Seq(Byte))
BY DEF LineShape, LineTypeOK, RxShape

LEMMA StutterInv ==
  ASSUME LineInv, UNCHANGED lineVars
  PROVE  LineInv'
<1>1. tx' = tx /\ rx' = rx /\ sent' = sent /\ received' = received /\ fault' = fault
  BY DEF lineVars
<1>2. LineShape'
  BY <1>1 DEF LineInv, LineShape, LineTypeOK
<1>3. ASSUME fault = "none"
      PROVE  \E at \in [1 .. Len(sent') + 1 -> Int] : Layout(at)' /\ Progress(at)'
  <2>1. PICK at \in [1 .. Len(sent) + 1 -> Int] : Layout(at) /\ Progress(at)
    BY <1>3 DEF LineInv
  <2>2. Layout(at)'
    BY <1>1, <2>1, Zenon DEF Layout, InRing
  <2>3. Progress(at)'
    BY <1>1, <2>1, Zenon DEF Progress, Reads
  <2> QED BY <1>1, <2>2, <2>3
<1> QED BY <1>1, <1>2, <1>3 DEF LineInv

(* Progress, with names for what the receiver is reading. *)
LEMMA ProgressNext ==
  ASSUME NEW at, NEW r, NEW n, NEW q, NEW k,
         Len(received') = r, Len(sent') = n, r <= n,
         \A j \in 1 .. r : received'[j] = sent'[j],
         at[r + 1] <= 0, r = n => rx'.fn = "rxAA",
         r < n => /\ at[r + 2] > 0 /\ q = sent'[r + 1]
                  /\ k = 0 - at[r + 1] /\ Reads(k, q)'
  PROVE  Progress(at)'
<1>1. r < n => Reads(0 - at[r + 1], sent[r + 1])'
  BY DEF Reads
<1> QED BY <1>1 DEF Progress, Reads

(* sendPacket *)
LEMMA SendInv ==
  ASSUME LineInv, NEW p \in Packets, sendPacket(p)
  PROVE  LineInv'
<1>1. LineShape /\ UNCHANGED <<rx, received, fault>>
  BY DEF LineInv, sendPacket
<1>2. CASE ~TxHasRoom(p)
  <2>1. UNCHANGED <<tx, rx, sent, received, fault, struck>>
    BY <1>1, <1>2 DEF sendPacket
  <2> QED BY <2>1, StutterInv DEF lineVars
<1>3. CASE TxHasRoom(p)
  <2> DEFINE s == Frame(p)
  <2> PICK n, r : n = Len(sent) /\ r = Len(received)
    OBVIOUS
  <2>1. tx' = PutTx(s) /\ sent' = Append(sent, p)
    BY <1>3 DEF sendPacket
  <2>2. p \in Seq(Byte) /\ s \in Seq(Byte) /\ Len(s) = Len(p) + 3
    BY PacketFacts, FrameFacts
  <2>3. Len(s) <= BUFFER_SIZE_MAX - tx.size
    BY <1>1, <1>3, <2>2, RingFacts DEF TxHasRoom
  <2>4. LineShape'
    <3>1. /\ tx'.end = (tx'.start + tx'.size) % BUFFER_SIZE_MAX
          /\ tx' \in [buffer : [0 .. BUFFER_SIZE_MAX - 1 -> Byte],
                      start : 0 .. BUFFER_SIZE_MAX - 1,
                      end : 0 .. BUFFER_SIZE_MAX - 1, size : 0 .. BUFFER_SIZE_MAX]
      <4> HIDE DEF s
      <4> QED BY <1>1, <2>1, <2>2, <2>3, PutTxStores
    <3>2. RxShape'
      BY <1>1, ShapeSplit DEF RxShape
    <3>3. sent' \in Seq(Packets) /\ received' \in Seq(Seq(Byte))
      BY <1>1, <2>1, ShapeSplit
    <3> QED BY <3>1, <3>2, <3>3, ShapeParts
  <2>5. ASSUME fault = "none"
        PROVE  \E at \in [1 .. Len(sent') + 1 -> Int] : Layout(at)' /\ Progress(at)'
    <3>1. PICK at \in [1 .. n + 1 -> Int] : Layout(at) /\ Progress(at)
      BY <2>5 DEF LineInv
    <3>2. PICK at2 \in [1 .. Len(sent') + 1 -> Int] :
            Layout(at2)' /\ \A j \in 1 .. n + 1 : at2[j] = at[j]
      BY <1>1, <1>3, <2>1, <3>1, SendLayout
    <3>3. /\ n \in Nat /\ r \in Nat /\ tx.size \in Nat
          /\ Len(sent') = n + 1 /\ sent'[n + 1] = p
          /\ \A j \in 1 .. n : sent'[j] = sent[j]
          /\ received' = received /\ rx' = rx
      BY <1>1, <2>1, RingFacts DEF LineShape
    <3>4. /\ r <= n /\ at[r + 1] <= 0
          /\ \A j \in 1 .. r : received[j] = sent[j]
          /\ r = n => rx.fn = "rxAA"
          /\ r < n => at[r + 2] > 0 /\ Reads(0 - at[r + 1], sent[r + 1])
          /\ at[n + 1] = tx.size
      BY <3>1 DEF Progress, Layout
        <3>5. \A j \in 1 .. r : received'[j] = sent'[j]
      <4> SUFFICES ASSUME NEW j \in 1 .. r PROVE received'[j] = sent'[j]
        OBVIOUS
      <4>1. j \in 1 .. n
        BY <3>3, <3>4
      <4> QED BY <3>3, <3>4, <4>1
    <3>6. at2[r + 1] = at[r + 1]
      <4>1. r + 1 \in 1 .. n + 1
        BY <3>3, <3>4
      <4> QED BY <3>2, <4>1
    <3>7. \E q, k : /\ at2[r + 2] > 0 /\ q = sent'[r + 1]
                    /\ k = 0 - at2[r + 1] /\ Reads(k, q)'
      <4>1. CASE r < n
        <5>1. r + 2 \in 1 .. n + 1 /\ r + 1 \in 1 .. n
          BY <3>3, <4>1
        <5>2. at2[r + 2] = at[r + 2] /\ sent'[r + 1] = sent[r + 1]
          BY <3>2, <3>3, <5>1
        <5>3. PICK k, q : k = 0 - at[r + 1] /\ q = sent[r + 1]
          OBVIOUS
        <5>4. Reads(k, q)
          BY <3>4, <4>1, <5>3
        <5>5. Reads(k, q)'
          BY <3>3, <5>4 DEF Reads
        <5> QED BY <3>4, <3>6, <4>1, <5>2, <5>3, <5>5
      <4>2. CASE r = n
        <5>1. at[r + 1] = 0 /\ tx.size = 0
          BY <3>3, <3>4, <4>2
        <5>2. n + 1 \in 1 .. Len(sent') + 1 /\ n + 2 \in 1 .. Len(sent') + 1 /\ n + 1 < n + 2
          BY <3>3
        <5>3. at2[n + 1] < at2[n + 2]
          BY <3>2, <5>2 DEF Layout
        <5>4. at2[r + 2] > 0
          BY <3>6, <4>2, <5>1, <5>3
        <5>5. sent'[r + 1] = p /\ Len(p) \in Nat /\ Len(p) >= 4
          BY <3>3, <4>2, PacketFacts
        <5>6. Reads(0, p)'
          BY <3>3, <3>4, <4>2, <5>5 DEF Reads
        <5>7. 0 - at2[r + 1] = 0
          BY <3>6, <5>1
        <5> QED BY <5>4, <5>5, <5>6, <5>7
      <4> QED BY <3>3, <3>4, <4>1, <4>2
    <3>8. Progress(at2)'
      <4>1. Len(received') = r /\ r <= n + 1 /\ r # n + 1 /\ r \in Nat
        BY <3>3, <3>4
      <4>2. PICK q, k : /\ at2[r + 2] > 0 /\ q = sent'[r + 1]
                        /\ k = 0 - at2[r + 1] /\ Reads(k, q)'
        BY <3>7
      <4> QED BY <3>3, <3>4, <3>5, <3>6, <4>1, <4>2, ProgressNext
    <3> QED BY <3>2, <3>8
  <2> QED BY <1>1, <2>4, <2>5 DEF LineInv
<1> QED BY <1>2, <1>3

(* The byte that the receiver is given is the next one of the frame that   *)
(* it has read a part of.                                                  *)
LEMMA NextByte ==
  ASSUME LineShape, NEW at \in [1 .. Len(sent) + 1 -> Int], Layout(at),
         Progress(at), tx.size > 0
  PROVE  \E p \in Packets, k \in Nat :
           /\ Len(received) < Len(sent) /\ p = sent[Len(received) + 1]
           /\ Len(p) \in Nat /\ Len(p) >= 4 /\ k \in 0 .. Len(p) + 2
           /\ at[Len(received) + 1] = 0 - k
           /\ at[Len(received) + 2] = Len(p) + 3 - k
           /\ Reads(k, p) /\ InRing(0) = Frame(p)[k + 1]
<1> DEFINE n == Len(sent)
           r == Len(received)
<1>1. /\ n \in Nat /\ tx.size \in Nat
      /\ \A j \in 1 .. n + 1 : at[j] \in Int /\ at[j] <= tx.size
      /\ \A j \in 1 .. n :
           /\ sent[j] \in Packets /\ Len(sent[j]) \in Nat /\ Len(sent[j]) >= 4
           /\ at[j + 1] = at[j] + (Len(sent[j]) + 3)
  BY WithinRing
<1>2. /\ r \in Nat /\ r <= n /\ at[r + 1] <= 0 /\ at[n + 1] = tx.size
      /\ r < n => at[r + 2] > 0 /\ Reads(0 - at[r + 1], sent[r + 1])
  BY DEF LineShape, Layout, Progress
<1> HIDE DEF n, r
<1>3. r < n
  <2>1. r = n => at[r + 1] = tx.size
    BY <1>2
  <2> QED BY <1>1, <1>2, <2>1
<1>4. r + 1 \in 1 .. n /\ r + 1 \in 1 .. n + 1 /\ (r + 1) + 1 = r + 2
  BY <1>1, <1>2, <1>3
<1>5. PICK p, a : p = sent[r + 1] /\ a = at[r + 1]
  OBVIOUS
<1>6. /\ p \in Packets /\ Len(p) \in Nat /\ Len(p) >= 4 /\ a \in Int /\ a <= 0
      /\ at[r + 2] = a + (Len(p) + 3) /\ at[r + 2] > 0 /\ Reads(0 - a, p)
  BY <1>1, <1>2, <1>3, <1>4, <1>5
<1>7. PICK k : k = 0 - a
  OBVIOUS
<1>8. /\ k \in Nat /\ k \in 0 .. Len(p) + 2 /\ a = 0 - k
      /\ at[r + 2] = Len(p) + 3 - k /\ Reads(k, p)
      /\ k + 1 \in 1 .. Len(p) + 3 /\ a + ((k + 1) - 1) = 0
  BY <1>6, <1>7
<1>9. InRing(at[r + 1] + ((k + 1) - 1)) = Frame(sent[r + 1])[k + 1]
  <2>1. r + 1 \in 1 .. Len(sent) /\ k + 1 \in 1 .. Len(sent[r + 1]) + 3
    BY <1>4, <1>5, <1>8 DEF n
  <2>2. at[r + 1] + ((k + 1) - 1) >= 0
    BY <1>5, <1>8
  <2> QED BY <2>1, <2>2 DEF Layout
<1>10. InRing(0) = Frame(p)[k + 1]
  BY <1>5, <1>8, <1>9
<1> QED BY <1>3, <1>5, <1>6, <1>8, <1>10 DEF n, r

(* txByte and rxByte *)
LEMMA RelayInv ==
  ASSUME LineInv, Relay
  PROVE  LineInv'
<1>1. PICK c : txByte(c) /\ rxByte(c) /\ UNCHANGED <<sent, fault>>
  BY DEF Relay
<1>2. LineShape
  BY DEF LineInv
<1>3. /\ tx.size > 0 /\ c = InRing(0) /\ c \in Byte
      /\ tx'.end = (tx'.start + tx'.size) % BUFFER_SIZE_MAX
      /\ tx' \in [buffer : [0 .. BUFFER_SIZE_MAX - 1 -> Byte],
                  start : 0 .. BUFFER_SIZE_MAX - 1,
                  end : 0 .. BUFFER_SIZE_MAX - 1, size : 0 .. BUFFER_SIZE_MAX]
  BY <1>1, <1>2, TxByteTakes
<1>4. RxShape /\ sent \in Seq(Packets) /\ received \in Seq(Seq(Byte))
  BY <1>2, ShapeSplit
<1>5. LineShape'
  <2>1. RxShape' /\ received' \in Seq(Seq(Byte))
    BY <1>1, <1>3, <1>4, RxByteShape DEF rxByte
  <2> QED BY <1>1, <1>3, <1>4, <2>1, ShapeParts
<1>6. ASSUME fault = "none"
      PROVE  \E at \in [1 .. Len(sent') + 1 -> Int] : Layout(at)' /\ Progress(at)'
  <2> PICK n, r : n = Len(sent) /\ r = Len(received)
    OBVIOUS
  <2>1. PICK at \in [1 .. n + 1 -> Int] : Layout(at) /\ Progress(at)
    BY <1>6 DEF LineInv
  <2>2. PICK at2 \in [1 .. Len(sent') + 1 -> Int] :
          Layout(at2)' /\ \A j \in 1 .. n + 1 : at2[j] = at[j] - 1
    BY <1>1, <1>2, <2>1, TakeLayout
  <2>3. PICK p \in Packets, k \in Nat :
           /\ r < n /\ p = sent[r + 1]
           /\ Len(p) \in Nat /\ Len(p) >= 4 /\ k \in 0 .. Len(p) + 2
           /\ at[r + 1] = 0 - k
           /\ at[r + 2] = Len(p) + 3 - k
           /\ Reads(k, p) /\ InRing(0) = Frame(p)[k + 1]
    BY <1>2, <1>3, <2>1, NextByte
  <2>4. rxByte(Frame(p)[k + 1])
    BY <1>1, <1>3, <2>3
  <2>5. /\ k < Len(p) + 2 => Reads(k + 1, p)' /\ received' = received
        /\ k = Len(p) + 2 => rx'.fn = "rxAA" /\ received' = Append(received, p)
    BY <1>4, <2>3, <2>4, RxByteReads
  <2>6. /\ n \in Nat /\ r \in Nat /\ sent' = sent
        /\ \A j \in 1 .. r : received[j] = sent[j]
        /\ \A j \in 1 .. n : sent[j] \in Packets
    BY <1>1, <1>4, <2>1 DEF Progress
  <2>7. at2[r + 1] = at[r + 1] - 1 /\ at2[r + 2] = at[r + 2] - 1
    <3>1. r + 1 \in 1 .. n + 1 /\ r + 2 \in 1 .. n + 1
      BY <2>3, <2>6
    <3> QED BY <2>2, <3>1
  <2>8. CASE k < Len(p) + 2
    <3>1. received' = received /\ Reads(k + 1, p)'
      BY <2>5, <2>8
    <3>2. /\ at2[r + 1] <= 0 /\ at2[r + 2] > 0 /\ 0 - at2[r + 1] = k + 1
      BY <2>3, <2>7, <2>8
    <3>3. Progress(at2)'
      <4>1. /\ Len(received') = r /\ Len(sent') = n /\ r <= n /\ r # n
            /\ sent'[r + 1] = p
        BY <2>3, <2>6, <3>1
      <4>2. \A j \in 1 .. r : received'[j] = sent'[j]
        BY <2>6, <3>1
      <4> QED BY <3>1, <3>2, <4>1, <4>2, ProgressNext
    <3> QED BY <2>2, <3>3
  <2>9. CASE k = Len(p) + 2
    <3>1. rx'.fn = "rxAA" /\ received' = Append(received, p)
      BY <2>5, <2>9
    <3>2. /\ Len(received') = r + 1 /\ received'[r + 1] = p
          /\ \A j \in 1 .. r : received'[j] = received[j]
      BY <1>4, <3>1
    <3>3. \A j \in 1 .. r + 1 : received'[j] = sent[j]
      <4> SUFFICES ASSUME NEW j \in 1 .. r + 1 PROVE received'[j] = sent[j]
        OBVIOUS
      <4>1. j \in 1 .. r \/ j = r + 1
        BY <2>6
      <4> QED BY <2>3, <2>6, <3>2, <4>1
    <3>4. at2[r + 2] = 0 /\ (r + 1) + 1 = r + 2 /\ (r + 1) + 2 = r + 3
      BY <2>3, <2>6, <2>7, <2>9
    <3>5. \E q, h : r + 1 < n => /\ at2[r + 3] > 0 /\ q = sent'[r + 2]
                                 /\ h = 0 - at2[r + 2] /\ Reads(h, q)'
      <4> SUFFICES ASSUME r + 1 < n
                   PROVE  \E q, h : /\ at2[r + 3] > 0 /\ q = sent'[r + 2]
                                    /\ h = 0 - at2[r + 2] /\ Reads(h, q)'
        OBVIOUS
      <4>1. r + 2 \in 1 .. n + 1 /\ r + 3 \in 1 .. n + 1 /\ r + 2 < r + 3
              /\ r + 2 \in 1 .. n
        BY <2>6
      <4>2. at2[r + 2] < at2[r + 3]
        BY <2>2, <2>6, <4>1 DEF Layout
      <4>3. PICK q : q = sent[r + 2]
        OBVIOUS
      <4>4. q \in Packets /\ Len(q) \in Nat /\ Len(q) >= 4
        BY <2>6, <4>1, <4>3, PacketFacts
      <4>5. Reads(0, q)'
        BY <3>1, <4>4 DEF Reads
      <4>6. 0 = 0 - at2[r + 2] /\ at2[r + 3] > 0
        BY <3>4, <4>2
      <4> QED BY <2>6, <4>3, <4>5, <4>6
    <3>6. Progress(at2)'
      <4> PICK l : l = r + 1
        OBVIOUS
      <4>1. /\ Len(sent') = n /\ Len(received') = l /\ l <= n
            /\ l + 1 = r + 2 /\ l + 2 = r + 3
        BY <2>3, <2>6, <3>2
      <4>2. PICK q, h : l < n => /\ at2[l + 2] > 0 /\ q = sent'[l + 1]
                                 /\ h = 0 - at2[l + 1] /\ Reads(h, q)'
        BY <3>5, <4>1
      <4>3. at2[l + 1] <= 0 /\ \A j \in 1 .. l : received'[j] = sent'[j]
        BY <2>6, <3>3, <3>4, <4>1
      <4> QED BY <3>1, <4>1, <4>2, <4>3, ProgressNext
    <3> QED BY <2>2, <3>6
  <2> QED BY <2>3, <2>8, <2>9
<1> QED BY <1>1, <1>5, <1>6 DEF LineInv

(* Whatever goes wrong on the line leaves the state well formed. *)
LEMMA FaultInv ==
  ASSUME LineInv, Change \/ Lose \/ Appear \/ NoBuffer
  PROVE  LineInv'
<1>1. LineShape
  BY DEF LineInv
<1>2. RxShape /\ sent \in Seq(Packets) /\ received \in Seq(Seq(Byte))
  BY <1>1, ShapeSplit
<1>3. ASSUME NEW c, txByte(c)
      PROVE  /\ c \in Byte
             /\ tx'.end = (tx'.start + tx'.size) % BUFFER_SIZE_MAX
             /\ tx' \in [buffer : [0 .. BUFFER_SIZE_MAX - 1 -> Byte],
                         start : 0 .. BUFFER_SIZE_MAX - 1,
                         end : 0 .. BUFFER_SIZE_MAX - 1,
                         size : 0 .. BUFFER_SIZE_MAX]
  BY <1>1, <1>3, TxByteTakes
<1>4. ASSUME NEW d \in NoiseBytes PROVE d \in Byte
  BY PacketConstants
<1>5. CASE Change
  <2> DEFINE kind == IF rx.fn \in {"rxPayload", "rxChecksum"} THEN "contents"
                                                            ELSE "header"
  <2>0. \E c : \E d \in NoiseBytes : txByte(c) /\ rxByte(d) /\ Fault(kind)
    BY <1>5 DEF Change
  <2>1. PICK c, d : d \in NoiseBytes /\ txByte(c) /\ rxByte(d) /\ Fault(kind)
    BY <2>0
  <2>2. RxShape' /\ received' \in Seq(Seq(Byte))
    BY <1>2, <1>4, <2>1, RxByteShape DEF rxByte
  <2>3. fault' # "none" /\ sent' = sent
    BY <2>1 DEF Fault
  <2> HIDE DEF kind
  <2>4. LineShape'
    BY <1>2, <1>3, <2>1, <2>2, <2>3, ShapeParts
  <2> QED BY <2>3, <2>4 DEF LineInv
<1>6. CASE Lose
  <2>1. PICK c : txByte(c) /\ Fault("lost") /\ UNCHANGED <<rx, received>>
    BY <1>6 DEF Lose
  <2>2. RxShape' /\ received' \in Seq(Seq(Byte))
    BY <1>2, <2>1 DEF RxShape
  <2>3. fault' # "none" /\ sent' = sent
    BY <2>1 DEF Fault
  <2>4. LineShape'
    BY <1>2, <1>3, <2>1, <2>2, <2>3, ShapeParts
  <2> QED BY <2>3, <2>4 DEF LineInv
<1>7. CASE Appear
  <2>1. PICK d \in NoiseBytes : rxByte(d) /\ Fault("appeared") /\ UNCHANGED tx
    BY <1>7 DEF Appear
  <2>2. RxShape' /\ received' \in Seq(Seq(Byte))
    BY <1>2, <1>4, <2>1, RxByteShape DEF rxByte
  <2>3. fault' = "appeared" /\ sent' = sent
    BY <2>1 DEF Fault
  <2>4. LineShape'
    BY <1>1, <1>2, <2>1, <2>2, <2>3, ShapeSplit, ShapeParts
  <2> QED BY <2>3, <2>4 DEF LineInv
<1>8. CASE NoBuffer
  <2>1. PICK c : txByte(c) /\ rxByteWith(c, FALSE) /\ Fault("nobuffer")
    BY <1>8 DEF NoBuffer
  <2>2. RxShape' /\ received' \in Seq(Seq(Byte))
    BY <1>2, <1>3, <2>1, RxByteShape
  <2>3. fault' = "nobuffer" /\ sent' = sent
    BY <2>1 DEF Fault
  <2>4. LineShape'
    BY <1>2, <1>3, <2>1, <2>2, <2>3, ShapeParts
  <2> QED BY <2>3, <2>4 DEF LineInv
<1> QED BY <1>5, <1>6, <1>7, <1>8

LEMMA LineInvNext == LineInv /\ [LineNext]_lineVars => LineInv'
<1> SUFFICES ASSUME LineInv, [LineNext]_lineVars PROVE LineInv'
  OBVIOUS
<1>1. CASE Send
  BY <1>1, SendInv DEF Send
<1>2. CASE Relay
  BY <1>2, RelayInv
<1>3. CASE Change \/ Lose \/ Appear \/ NoBuffer
  BY <1>3, FaultInv
<1>4. CASE UNCHANGED lineVars
  BY <1>4, StutterInv
<1> QED BY <1>1, <1>2, <1>3, <1>4 DEF LineNext

THEOREM LineInvariance == LineSpec => []LineInv
<1>1. LineInv /\ [LineNext]_lineVars => LineInv'
  BY LineInvNext
<1> QED BY <1>1, LineInvInit, PTL DEF LineSpec

(* The transmit ring and the receiver stay well formed whatever happens to *)
(* the bytes: the packet under reception never outgrows its buffer         *)
(* (_rxSize and _rxPayload of packet_handler.c).                           *)
THEOREM LineTypeCorrect == LineSpec => []LineTypeOK
<1>1. LineInv => LineTypeOK
  BY DEF LineInv, LineShape
<1> QED BY <1>1, LineInvariance, PTL

(* On a line that works every packet that sendPacket accepts arrives, once *)
(* and in order, for any packets, types and size of the ring: no payload,  *)
(* whatever it is made of, can be taken for the start of a frame.          *)
THEOREM PacketsArrive == LineSpec => []ArriveIntact
<1>1. LineInv => ArriveIntact
  <2> SUFFICES ASSUME LineInv, fault = "none"
               PROVE  /\ received = SubSeq(sent, 1, Len(received))
                      /\ tx.size = 0 => received = sent
    BY DEF ArriveIntact
  <2> DEFINE n == Len(sent)
             r == Len(received)
  <2>1. LineShape
    BY DEF LineInv
  <2>2. PICK at \in [1 .. n + 1 -> Int] : Layout(at) /\ Progress(at)
    BY DEF LineInv
  <2>3. /\ n \in Nat /\ r \in Nat /\ r <= n
        /\ sent \in Seq(Seq(Byte)) /\ received \in Seq(Seq(Byte))
        /\ \A j \in 1 .. r : received[j] = sent[j]
    BY <2>1, <2>2, PacketConstants DEF LineShape, Progress
  <2>4. received = SubSeq(sent, 1, r)
    <3> DEFINE q == SubSeq(sent, 1, r)
    <3>1. q \in Seq(Seq(Byte)) /\ Len(q) = r /\ \A j \in 1 .. r : q[j] = sent[j]
      BY <2>3
    <3> HIDE DEF q
    <3>2. \A j \in 1 .. Len(received) : received[j] = q[j]
      BY <2>3, <3>1
    <3>3. received = q
      BY <2>3, <3>1, <3>2, SeqEqual
    <3> QED BY <3>3 DEF q
  <2>5. tx.size = 0 => received = sent
    <3> SUFFICES ASSUME tx.size = 0 PROVE received = sent
      OBVIOUS
    <3>1. r = n
      <4> SUFFICES ASSUME r < n PROVE FALSE
        BY <2>3
      <4>1. at[r + 2] > 0 /\ r + 2 \in 1 .. n + 1
        BY <2>2, <2>3 DEF Progress
      <4>2. at[r + 2] <= tx.size /\ at[r + 2] \in Int
        BY <2>1, <2>2, <4>1, WithinRing
      <4> QED BY <4>1, <4>2
    <3>2. \A j \in 1 .. Len(received) : received[j] = sent[j]
      BY <2>3
    <3> QED BY <2>3, <3>1, <3>2, SeqEqual
  <2> QED BY <2>4, <2>5
<1> QED BY <1>1, LineInvariance, PTL
==============================================================================
