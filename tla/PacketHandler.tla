---------------------------- MODULE PacketHandler ----------------------------
(***************************************************************************)
(* The framing of packets (src/common/packet_handler.c), from one end of a *)
(* serial line to the other: sendPacket writes a frame into the transmit   *)
(* ring, txByte takes the bytes out, and rxByte is the automaton that      *)
(* finds frames in what arrives.  On the line at most one thing goes wrong:*)
(* a byte is lost or changed or appears, or the receiver has no buffer.    *)
(*                                                                         *)
(* A byte is the set of its bits, so exclusive or is the symmetric         *)
(* difference.  A packet is the sequence of its bytes: type, size, two of  *)
(* the sequence number, payload.                                           *)
(***************************************************************************)
EXTENDS Integers, Sequences

CONSTANTS
  Operations,           \* the installed types, as a function to their sizes
  Packets,              \* packets that may be sent
  NoiseBytes,           \* bytes that may appear or replace others
  BUFFER_SIZE_MAX,      \* bytes in the transmit ring
  MaxSent               \* bound: packets accepted for transmission

Bits(n) == {b \in 0 .. 7 : (n \div 2^b) % 2 = 1}

AA == Bits(170)
x55 == Bits(85)

Byte == SUBSET (0 .. 7)

HeaderBytes == 4        \* sizeof(PacketHeader)

ASSUME PacketConstants ==
  /\ BUFFER_SIZE_MAX \in Nat \ {0}
  /\ Packets \subseteq Seq(Byte) /\ NoiseBytes \subseteq Byte
  /\ DOMAIN Operations \subseteq 0 .. 15
  /\ \A t \in DOMAIN Operations : Operations[t] \in HeaderBytes .. 254
  /\ \A p \in Packets : \E t \in DOMAIN Operations :
       Len(p) = Operations[t] /\ p[1] = Bits(t) /\ p[2] = Bits(Len(p))

VARIABLES
  tx,                   \* the transmit ring: buffer, start, end, size
  rx,                   \* rxFn and what it needs: op, checksum, packet, to_read
  sent,                 \* history: packets accepted by sendPacket
  received,             \* history: packets given to on_receive
  fault,                \* history: what went wrong on the line
  struck                \* history: to which packet, counted as sent

lineVars == <<tx, rx, sent, received, fault, struck>>

LineInit ==
  /\ tx = [buffer |-> [i \in 0 .. BUFFER_SIZE_MAX - 1 |-> {}], start |-> 0,
           end |-> 0, size |-> 0]
  /\ rx = [fn |-> "rxAA", op |-> 0, checksum |-> {}, packet |-> <<>>,
           to_read |-> 0]
  /\ sent = <<>> /\ received = <<>>
  /\ fault = "none" /\ struck = 0
----------------------------------------------------------------------------
(* Transmission *)

Xor(a, b) == (a \ b) \cup (b \ a)

(* Mistake: the type does not go into the checksum. *)
Checksum_WithoutType(p) ==
  LET sum[n \in 1 .. Len(p)] == IF n = 1 THEN {} ELSE Xor(sum[n - 1], p[n])
  IN sum[Len(p)]

(* The checksums of the first bytes of p, for any number of them *)
Running(p) ==
  LET sum[n \in 0 .. Len(p)] == IF n = 0 THEN {} ELSE Xor(sum[n - 1], p[n])
  IN sum

Checksum(p) == Running(p)[Len(p)]

Frame(p) == <<AA, x55>> \o p \o <<Checksum(p)>>

TxHasRoom(p) == BUFFER_SIZE_MAX - tx.size >= Len(p) + 3

(* putTxByte for each byte of s; what finds the ring full is dropped.      *)
PutTx(s) ==
  LET room == BUFFER_SIZE_MAX - tx.size
      n == IF Len(s) <= room THEN Len(s) ELSE room
      place(i) == (tx.end + i - 1) % BUFFER_SIZE_MAX
  IN [tx EXCEPT
        !.buffer = [k \in DOMAIN @ |->
          IF \E i \in 1 .. n : place(i) = k
          THEN s[CHOOSE i \in 1 .. n : place(i) = k] ELSE @[k]],
        !.end = place(n + 1), !.size = @ + n]

sendPacket(p) ==
  /\ Len(sent) < MaxSent
  /\ IF TxHasRoom(p)
     THEN tx' = PutTx(Frame(p)) /\ sent' = Append(sent, p)
     ELSE UNCHANGED <<tx, sent>>
  /\ UNCHANGED <<rx, received, fault, struck>>

(* txByte: c is the next byte. *)
txByte(c) ==
  /\ tx.size > 0
  /\ c = tx.buffer[tx.start]
  /\ tx' = [tx EXCEPT !.start = (@ + 1) % BUFFER_SIZE_MAX, !.size = @ - 1]
----------------------------------------------------------------------------
(* Reception: one state of the automaton each, for a byte c *)

Lost == [rx EXCEPT !.fn = "rxAA"]

rxAA(c) ==
  /\ rx.fn = "rxAA"
  /\ rx' = [rx EXCEPT !.checksum = {}, !.fn = IF c = AA THEN "rx55" ELSE @]
  /\ UNCHANGED received

(* Anything but 0x55, a second 0xAA too, means to start again.             *)
rx55(c) ==
  /\ rx.fn = "rx55"
  /\ rx' = IF c = x55 THEN [rx EXCEPT !.fn = "rxType", !.checksum = {}]
                      ELSE Lost
  /\ UNCHANGED received

rxType(c) ==
  /\ rx.fn = "rxType"
  /\ LET types == {t \in DOMAIN Operations : Bits(t) = c}
     IN rx' = IF types = {} THEN [Lost EXCEPT !.checksum = Xor(@, c)]
              ELSE [rx EXCEPT !.fn = "rxSize", !.checksum = Xor(@, c),
                              !.op = CHOOSE t \in types : TRUE]
  /\ UNCHANGED received

(* buffer: initialize_buffer_fn returns one. *)
rxSize(c, buffer) ==
  /\ rx.fn = "rxSize"
  /\ rx' = IF c # Bits(Operations[rx.op]) \/ ~buffer THEN Lost
           ELSE [rx EXCEPT !.fn = "rxPayload", !.checksum = Xor(@, c),
                           !.to_read = Operations[rx.op] - 2,
                           !.packet = <<Bits(rx.op), c>>]
  /\ UNCHANGED received

rxPayload(c) ==
  /\ rx.fn = "rxPayload"
  /\ rx' = [rx EXCEPT !.checksum = Xor(@, c), !.packet = Append(@, c),
                      !.to_read = @ - 1,
                      !.fn = IF rx.to_read = 1 THEN "rxChecksum" ELSE @]
  /\ UNCHANGED received

(* Mistake: the checksum is not looked at. *)
rxChecksum_Trusting(c) ==
  /\ rx.fn = "rxChecksum"
  /\ rx' = [Lost EXCEPT !.packet = <<>>]
  /\ received' = Append(received, rx.packet)

(* Mistake: after a wrong checksum the automaton stays where it is. *)
rxChecksum_Stays(c) ==
  /\ rx.fn = "rxChecksum"
  /\ IF c = rx.checksum
     THEN /\ received' = Append(received, rx.packet)
          /\ rx' = [Lost EXCEPT !.packet = <<>>]
     ELSE UNCHANGED <<rx, received>>

rxChecksum(c) ==
  /\ rx.fn = "rxChecksum"
  /\ rx' = [Lost EXCEPT !.packet = <<>>]
  /\ received' = IF c = rx.checksum THEN Append(received, rx.packet)
                                    ELSE received

rxByteWith(c, buffer) ==
  \/ rxAA(c) \/ rx55(c) \/ rxType(c) \/ rxSize(c, buffer) \/ rxPayload(c)
  \/ rxChecksum(c)

rxByte(c) == rxByteWith(c, TRUE)
----------------------------------------------------------------------------
(* The line *)

Send == \E p \in Packets : sendPacket(p)

Relay == \E c \in {tx.buffer[tx.start]} :
           txByte(c) /\ rxByte(c) /\ UNCHANGED <<sent, fault, struck>>

Fault(kind) ==
  /\ fault = "none" /\ fault' = kind
  /\ struck' = Len(received) + 1
  /\ UNCHANGED sent

(* A byte of a header, or one of the contents *)
Change == \E c \in {tx.buffer[tx.start]}, d \in NoiseBytes :
            /\ c # d /\ txByte(c) /\ rxByte(d)
            /\ Fault(IF rx.fn \in {"rxPayload", "rxChecksum"} THEN "contents"
                                                            ELSE "header")

Lose == \E c \in {tx.buffer[tx.start]} :
          txByte(c) /\ Fault("lost") /\ UNCHANGED <<rx, received>>

Appear == \E d \in NoiseBytes :
            rxByte(d) /\ Fault("appeared") /\ UNCHANGED tx

NoBuffer == \E c \in {tx.buffer[tx.start]} :
              /\ rx.fn = "rxSize" /\ txByte(c) /\ rxByteWith(c, FALSE)
              /\ Fault("nobuffer")

LineNext == Send \/ Relay \/ Change \/ Lose \/ Appear \/ NoBuffer

LineSpec == LineInit /\ [][LineNext]_lineVars
----------------------------------------------------------------------------
(* The state is well formed: the packet in the buffer never outgrows it.   *)
LineTypeOK ==
  /\ tx \in [buffer : [0 .. BUFFER_SIZE_MAX - 1 -> Byte],
             start : 0 .. BUFFER_SIZE_MAX - 1, end : 0 .. BUFFER_SIZE_MAX - 1,
             size : 0 .. BUFFER_SIZE_MAX]
  /\ rx \in [fn : {"rxAA", "rx55", "rxType", "rxSize", "rxPayload", "rxChecksum"},
             op : DOMAIN Operations \cup {0}, checksum : Byte,
             packet : Seq(Byte), to_read : Nat]
  /\ rx.fn \in {"rxSize", "rxPayload", "rxChecksum"} => rx.op \in DOMAIN Operations
  /\ rx.fn = "rxPayload" =>
       rx.to_read > 0 /\ Len(rx.packet) + rx.to_read = Operations[rx.op]
  /\ rx.fn = "rxChecksum" => Len(rx.packet) = Operations[rx.op]

(* s is what is left of t when some of its elements are taken out. *)
IsSubsequence(s, t) ==
  LET matched[n \in 0 .. Len(t)] ==
        IF n = 0 THEN 0
        ELSE IF matched[n - 1] < Len(s) /\ s[matched[n - 1] + 1] = t[n]
             THEN matched[n - 1] + 1 ELSE matched[n - 1]
  IN matched[Len(t)] = Len(s)

(* On a line that works, packets arrive intact, in order, once, and all of *)
(* them, whatever bytes they are made of.                                  *)
ArriveIntact ==
  fault = "none" =>
    /\ received = SubSeq(sent, 1, Len(received))
    /\ tx.size = 0 => received = sent

(* When the receiver loses its place in p, nothing in p looks like the     *)
(* start of a packet: no 0xAA, no valid header in its second and third     *)
(* bytes (its type was lost), and none of a longer packet that ends with   *)
(* its first byte (a type has appeared).  On the robot some sizes are      *)
(* types too.                                                              *)
Harmless(p) ==
  /\ Checksum(p) # AA /\ \A i \in 1 .. Len(p) : p[i] # AA
  /\ \A t \in DOMAIN Operations :
       /\ p[2] = Bits(t) => p[3] # Bits(Operations[t])
       /\ p[1] = Bits(Operations[t]) => Operations[t] <= Len(p)

(* A change of the contents does not make the receiver lose its place;     *)
(* where it does, the packet struck and the next one are harmless.         *)
Spared ==
  \/ fault = "contents"
  \/ \A i \in {struck, struck + 1} \cap 1 .. Len(sent) : Harmless(sent[i])

(* No wrong or lost byte and no missing buffer makes the receiver accept a *)
(* packet that nobody sent, or one twice, or two in another order:         *)
(* whatever the packets are when the contents have changed, and with       *)
(* harmless ones when the receiver has lost its place.                     *)
NothingForged ==
  fault # "appeared" /\ Spared => IsSubsequence(received, sent)

(* The receiver finds the frames again: of harmless packets, only the one  *)
(* that was struck is missing when the line is empty, and the next one if  *)
(* the receiver took its first byte for a checksum.  All others arrive, in *)
(* order and around whatever the receiver has made of the one struck.      *)
Resynchronises ==
  tx.size = 0 /\ fault # "none" /\ Spared =>
    LET missing == IF fault = "lost" THEN 2 ELSE 1
        before == SubSeq(sent, 1, struck - 1)
        after == SubSeq(sent, struck + missing, Len(sent))
    IN /\ Len(received) >= Len(before) + Len(after)
       /\ before = SubSeq(received, 1, Len(before))
       /\ after = SubSeq(received, Len(received) - Len(after) + 1, Len(received))
=============================================================================
