--------------------------- MODULE MCPacketHandler ---------------------------
(***************************************************************************)
(* TLC instance of PacketHandler.  The size of every packet is a type too, *)
(* as some are on the robot, and the bytes are those that mean something   *)
(* to the receiver.                                                        *)
(***************************************************************************)
EXTENDS PacketHandler, TLC

MCOperations == 1 :> 4 @@ 4 :> 11 @@ 11 :> 4

(* Of the packets the first two are harmless.  The third goes on like a    *)
(* long packet when its type is lost, the fourth begins like one when a 4  *)
(* appears before it; the fifth has 0xAA as its checksum, the sixth is     *)
(* full of 0xAA and 0x55, and the last one has a short frame in it.        *)
MCPackets == {
  <<Bits(1), Bits(4), Bits(0), Bits(4)>>,
  <<Bits(4), Bits(11), x55, Bits(1), Bits(4), Bits(0), Bits(0), Bits(5),
    Bits(1), Bits(4), Bits(0)>>,
  <<Bits(1), Bits(4), Bits(11), Bits(4)>>,
  <<Bits(11), Bits(4), Bits(0), Bits(0)>>,
  <<Bits(1), Bits(4), Bits(0), Bits(175)>>,
  <<Bits(1), Bits(4), AA, x55>>,
  <<Bits(4), Bits(11), AA, x55, Bits(1), Bits(4), Bits(0), Bits(0), Bits(5),
    AA, x55>>}

MCNoise == {AA, x55, Bits(0), Bits(1), Bits(4), Bits(11)}
=============================================================================
