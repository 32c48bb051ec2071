-------------------------------- MODULE UART --------------------------------
(***************************************************************************)
(* The serial line of the AVR boards (src/arch/atmega2560/uart.c; the file *)
(* for the atmega328 is the same, that for the dsPIC has the same rings):  *)
(* one ring per direction, shared by the main program, which calls putChar *)
(* and getChar, and the two interrupts of the hardware.  The counters of a *)
(* ring are bytes and its size is 256, so a full ring looks empty.         *)
(*                                                                         *)
(* Characters are numbered in the order they are put (or arrive), modulo   *)
(* CharMod; whoever takes one out can tell whether it is the next.         *)
(***************************************************************************)
EXTENDS Naturals

CONSTANTS
  UART_BUFFER_SIZE,     \* places in a ring (256)
  ByteMod,              \* range of uint8_t (256)
  CharMod,              \* characters are told apart modulo this
  MaxWaiting            \* a ring this full is left alone; ByteMod: never

ASSUME UARTConstants ==
  /\ {UART_BUFFER_SIZE, ByteMod} \subseteq Nat \ {0}
  /\ UART_BUFFER_SIZE <= ByteMod
  /\ CharMod \in Nat /\ CharMod > UART_BUFFER_SIZE + 1
  /\ MaxWaiting \in 0 .. ByteMod

VARIABLES
  tx, rx,               \* rings: buffer, start, end and size
  udrie,                \* the transmit interrupt is enabled
  main,                 \* where the main program is in putChar or getChar
  put, sent,            \* history: next character to be put, to be sent
  arrived, got          \* history: next character to arrive, to be got

vars == <<tx, rx, udrie, main, put, sent, arrived, got>>

Places == 0 .. UART_BUFFER_SIZE - 1
Chars == 0 .. CharMod - 1

NextChar(c) == (c + 1) % CharMod

EmptyRing == [buffer |-> [i \in Places |-> 0], start |-> 0, end |-> 0,
              size |-> 0]

Init ==
  /\ tx = EmptyRing /\ rx = EmptyRing
  /\ udrie = FALSE
  /\ main = "elsewhere"
  /\ put = 0 /\ sent = 0 /\ arrived = 0 /\ got = 0
----------------------------------------------------------------------------
(* Mistake: the last place is never used for the next character. *)
Advance_Early(i) == IF i + 1 >= UART_BUFFER_SIZE - 1 THEN 0 ELSE i + 1

Advance(i) == IF (i + 1) % ByteMod >= UART_BUFFER_SIZE THEN 0
              ELSE (i + 1) % ByteMod

BUFFER_PUT(r, c) ==
  [r EXCEPT !.buffer[r.end] = c, !.end = Advance(@),
            !.size = (@ + 1) % ByteMod]

(* Mistake: taking a character leaves the size as it was. *)
BUFFER_GET_KeepSize(r) == [r EXCEPT !.start = Advance(@)]

BUFFER_GET(r) ==
  [r EXCEPT !.start = Advance(@), !.size = (@ + ByteMod - 1) % ByteMod]

First(r) == r.buffer[r.start]
----------------------------------------------------------------------------
(* UART_putChar: wait for room, store with interrupts off, enable the      *)
(* transmit interrupt.                                                     *)
putChar ==
  /\ main = "elsewhere"
  /\ tx.size < MaxWaiting
  /\ main' = "putWait"
  /\ UNCHANGED <<tx, rx, udrie, put, sent, arrived, got>>

putWait ==
  /\ main = "putWait"
  /\ tx.size < UART_BUFFER_SIZE
  /\ main' = "putStore"
  /\ UNCHANGED <<tx, rx, udrie, put, sent, arrived, got>>

putStore ==
  /\ main = "putStore"
  /\ tx' = BUFFER_PUT(tx, put)
  /\ put' = NextChar(put)
  /\ main' = "putEnable"
  /\ UNCHANGED <<rx, udrie, sent, arrived, got>>

putEnable ==
  /\ main = "putEnable"
  /\ udrie' = TRUE
  /\ main' = "elsewhere"
  /\ UNCHANGED <<tx, rx, put, sent, arrived, got>>

(* UART_getChar: wait for a character, take it with interrupts off.        *)
getChar ==
  /\ main = "elsewhere"
  /\ main' = "getWait"
  /\ UNCHANGED <<tx, rx, udrie, put, sent, arrived, got>>

getWait ==
  /\ main = "getWait"
  /\ rx.size # 0
  /\ main' = "getTake"
  /\ UNCHANGED <<tx, rx, udrie, put, sent, arrived, got>>

getTake ==
  /\ main = "getTake"
  /\ rx' = BUFFER_GET(rx)
  /\ got' = NextChar(First(rx))
  /\ main' = "elsewhere"
  /\ UNCHANGED <<tx, udrie, put, sent, arrived>>

(* USART0_RX_vect: a character arrives and is stored if there is room.     *)
RX_vect ==
  /\ rx.size < MaxWaiting
  /\ rx' = IF rx.size < UART_BUFFER_SIZE THEN BUFFER_PUT(rx, arrived) ELSE rx
  /\ arrived' = NextChar(arrived)
  /\ UNCHANGED <<tx, udrie, main, put, sent, got>>

(* Mistake: one interrupt per putChar. *)
UDRE_vect_OneShot ==
  /\ udrie
  /\ udrie' = FALSE
  /\ IF tx.size = 0
     THEN UNCHANGED <<tx, sent>>
     ELSE tx' = BUFFER_GET(tx) /\ sent' = NextChar(First(tx))
  /\ UNCHANGED <<rx, main, put, arrived, got>>

(* USART0_UDRE_vect: the transmitter takes the next character or disables  *)
(* its interrupt.                                                          *)
UDRE_vect ==
  /\ udrie
  /\ IF tx.size = 0
     THEN udrie' = FALSE /\ UNCHANGED <<tx, sent>>
     ELSE /\ tx' = BUFFER_GET(tx)
          /\ sent' = NextChar(First(tx))
          /\ UNCHANGED udrie
  /\ UNCHANGED <<rx, main, put, arrived, got>>

InPut == putWait \/ putStore \/ putEnable
InGet == getWait \/ getTake

Next == putChar \/ InPut \/ getChar \/ InGet \/ RX_vect \/ UDRE_vect

(* A call that was begun goes on when it can, and the transmitter works.   *)
Fairness == WF_vars(InPut) /\ WF_vars(InGet) /\ WF_vars(UDRE_vect)

Spec == Init /\ [][Next]_vars /\ Fairness
----------------------------------------------------------------------------
(* The state is well formed. *)
TypeOK ==
  /\ {tx, rx} \subseteq [buffer : [Places -> Chars], start : Places,
                         end : Places, size : 0 .. ByteMod - 1]
  /\ udrie \in BOOLEAN
  /\ main \in {"elsewhere", "putWait", "putStore", "putEnable",
               "getWait", "getTake"}
  /\ {put, sent, arrived, got} \subseteq Chars

(* Characters first, first + 1, ... fill the ring, and next comes after.   *)
Holds(r, first, next) ==
  /\ (first + r.size) % CharMod = next
  /\ \A i \in 0 .. r.size - 1 :
       r.buffer[(r.start + i) % UART_BUFFER_SIZE] = (first + i) % CharMod

(* What was put and not sent yet waits in the ring, in order and complete, *)
(* whenever the interrupt comes.                                           *)
TxKeepsOrder == Holds(tx, sent, put)

(* What arrived and was not read yet waits in the ring.                    *)
RxKeepsOrder == Holds(rx, got, arrived)

(* While characters wait, the next one goes out sooner or later: putChar   *)
(* and the interrupt cannot miss each other.                               *)
TxGoesOn ==
  \A c \in Chars : sent = c /\ tx.size > 0 ~> sent # c
----------------------------------------------------------------------------
(* "if the buffer is full, the function waits until there is room in the   *)
(* buffer" (uart.h, putChar): it never overwrites what waits to be sent.   *)
PutWaitsForRoom == TxKeepsOrder
=============================================================================
