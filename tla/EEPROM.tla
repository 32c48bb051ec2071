------------------------------- MODULE EEPROM -------------------------------
(***************************************************************************)
(* What EEPROM_write and EEPROM_read promise their caller                  *)
(* (src/arch/include/eeprom.h): a memory of bytes.  A write stores its     *)
(* byte or is refused and stores nothing; nothing else changes the memory, *)
(* a power failure does not.                                               *)
(***************************************************************************)
CONSTANTS Addr, Values, Blank

VARIABLES
  memory,               \* what a read of each address returns
  call                  \* the last write that took effect or was refused

NoCall == [addr |-> 0, data |-> Blank, result |-> "none"]

Init ==
  /\ memory = [a \in Addr |-> Blank]
  /\ call = NoCall

Write(a, v) ==
  /\ memory' = [memory EXCEPT ![a] = v]
  /\ call' = [addr |-> a, data |-> v, result |-> "done"]

Refuse(a, v) ==
  /\ call' = [addr |-> a, data |-> v, result |-> "refused"]
  /\ UNCHANGED memory

Next == \E a \in Addr, v \in Values : Write(a, v) \/ Refuse(a, v)

Spec == Init /\ [][Next]_<<memory, call>>
=============================================================================
