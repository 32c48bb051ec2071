---------------------------- MODULE PendingQueue ----------------------------
(***************************************************************************)
(* What the deferred packet handler promises to the code that installs     *)
(* packets: a bounded first-in first-out queue of packets.  A packet       *)
(* enters it complete, is handed to its action exactly once, in arrival    *)
(* order, and with the content it had when it was received.                *)
(***************************************************************************)
EXTENDS Naturals, Sequences

CONSTANTS Packets,  \* the packets that can be received: type and content
          Bound,    \* how many can wait
          NoPacket  \* "no packet was handed out yet"

VARIABLES queue,    \* the packets waiting for their action
          handed    \* the last packet handed to its action

vars == <<queue, handed>>

Init == queue = <<>> /\ handed = NoPacket

Receive(p) ==
  /\ Len(queue) < Bound
  /\ queue' = Append(queue, p)
  /\ UNCHANGED handed

Hand ==
  /\ queue # <<>>
  /\ handed' = Head(queue)
  /\ queue' = Tail(queue)

Next == Hand \/ \E p \in Packets : Receive(p)

Spec == Init /\ [][Next]_vars
=============================================================================
