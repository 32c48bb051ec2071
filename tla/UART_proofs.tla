----------------------------- MODULE UART_proofs -----------------------------
(***************************************************************************)
(* The rings of the serial line keep the order of the characters, for all  *)
(* sizes of rings and of their counters.  What the code lacks is a         *)
(* hypothesis of the theorems, the weakest with which they hold: either a  *)
(* ring is smaller than the range of its counter, or it is never filled to *)
(* the range of the counter (MaxWaiting).  In the code both are 256.       *)
(*                                                                         *)
(* No index is ever more than one turn ahead, so all remainders are of     *)
(* numbers below twice the divisor, which makes them linear.               *)
(***************************************************************************)
EXTENDS UART, TLAPS

Rings == [buffer : [Places -> Chars], start : Places, end : Places,
          size : 0 .. ByteMod - 1]

(* The index of the next free place agrees with the other two numbers. *)
Consistent(r) ==
  /\ r.size <= UART_BUFFER_SIZE
  /\ r.end = (r.start + r.size) % UART_BUFFER_SIZE

(* A ring that can take another character without losing count. *)
HasRoom(r) == r.size < UART_BUFFER_SIZE /\ r.size + 1 < ByteMod

(* Counters wide enough for the rings, or rings never so full. *)
TxCounts == UART_BUFFER_SIZE < ByteMod \/ MaxWaiting < ByteMod
RxCounts == MaxWaiting < ByteMod /\ MaxWaiting <= UART_BUFFER_SIZE

TxInv ==
  /\ TypeOK
  /\ Consistent(tx)
  /\ TxKeepsOrder
  /\ main = "putWait" => UART_BUFFER_SIZE < ByteMod \/ tx.size < MaxWaiting
  /\ main = "putStore" => HasRoom(tx)

RxInv ==
  /\ TypeOK
  /\ Consistent(rx)
  /\ rx.size <= MaxWaiting
  /\ RxKeepsOrder
  /\ main = "getTake" => rx.size # 0
----------------------------------------------------------------------------
(* Arithmetic *)

(* Places that are less than one turn apart are different. *)
LEMMA OtherPlace ==
  ASSUME NEW m \in Nat, m # 0, NEW a \in Nat, a < m,
         NEW b \in Nat, NEW c \in Nat, b < c, c < m
  PROVE  (a + b) % m # (a + c) % m
<1>1. (a + b) % m = IF a + b < m THEN a + b ELSE a + b - m
  OBVIOUS
<1>2. (a + c) % m = IF a + c < m THEN a + c ELSE a + c - m
  OBVIOUS
<1> QED BY <1>1, <1>2

(* Counting from the successor of a is counting one further from a. *)
LEMMA NextTurn ==
  ASSUME NEW m \in Nat, m # 0, NEW a \in Nat, a < m, NEW b \in Nat, b < m
  PROVE  /\ (((a + 1) % m) + b) % m = (a + (b + 1)) % m
         /\ (((a + b) % m) + 1) % m = (a + (b + 1)) % m
<1>1. (a + 1) % m = IF a + 1 < m THEN a + 1 ELSE a + 1 - m
  OBVIOUS
<1>2. (a + b) % m = IF a + b < m THEN a + b ELSE a + b - m
  OBVIOUS
<1>3. b + 1 \in Nat /\ b + 1 <= m
  OBVIOUS
<1>4. (a + (b + 1)) % m = IF a + (b + 1) < m THEN a + (b + 1)
                          ELSE a + (b + 1) - m
  BY <1>3
<1> DEFINE s == (a + 1) % m
           t == (a + b) % m
<1>5. s \in Nat /\ s < m /\ t \in Nat /\ t < m
  BY <1>1, <1>2
<1> HIDE DEF s, t
<1>6. (s + b) % m = IF s + b < m THEN s + b ELSE s + b - m
  BY <1>5
<1>7. (t + 1) % m = IF t + 1 < m THEN t + 1 ELSE t + 1 - m
  BY <1>5
<1> QED BY <1>1, <1>2, <1>4, <1>5, <1>6, <1>7 DEF s, t

(* The sizes of the rings and of the counters.                             *)
LEMMA Sizes ==
  /\ UART_BUFFER_SIZE \in Nat /\ UART_BUFFER_SIZE # 0
  /\ ByteMod \in Nat /\ ByteMod # 0 /\ UART_BUFFER_SIZE <= ByteMod
  /\ CharMod \in Nat /\ CharMod # 0 /\ UART_BUFFER_SIZE + 1 < CharMod
  /\ MaxWaiting \in Nat /\ MaxWaiting <= ByteMod
BY UARTConstants

(* An index goes round the ring.                                           *)
LEMMA AdvanceTurns ==
  ASSUME NEW i \in Places
  PROVE  Advance(i) = (i + 1) % UART_BUFFER_SIZE /\ Advance(i) \in Places
<1>1. i \in Nat /\ i < UART_BUFFER_SIZE
  BY Sizes DEF Places
<1>2. (i + 1) % ByteMod = IF i + 1 < ByteMod THEN i + 1 ELSE i + 1 - ByteMod
  BY <1>1, Sizes
<1>3. (i + 1) % UART_BUFFER_SIZE =
        IF i + 1 < UART_BUFFER_SIZE THEN i + 1 ELSE i + 1 - UART_BUFFER_SIZE
  BY <1>1, Sizes
<1> QED BY <1>1, <1>2, <1>3, Sizes DEF Advance, Places

(* There is a next character after each.                                   *)
LEMMA NextCharType ==
  ASSUME NEW c \in Chars
  PROVE  NextChar(c) \in Chars
<1>1. c \in Nat /\ c < CharMod
  BY Sizes DEF Chars
<1>2. (c + 1) % CharMod = IF c + 1 < CharMod THEN c + 1 ELSE c + 1 - CharMod
  BY <1>1, Sizes
<1> QED BY <1>1, <1>2, Sizes DEF NextChar, Chars
----------------------------------------------------------------------------
(* The rings *)

LEMMA RingFields ==
  ASSUME NEW r \in Rings
  PROVE  /\ r.start \in Places /\ r.start \in Nat /\ r.start < UART_BUFFER_SIZE
         /\ r.end \in Places
         /\ r.size \in Nat /\ r.size < ByteMod
         /\ r.buffer \in [Places -> Chars]
BY Sizes DEF Rings, Places

(* A character is stored: the ring stays one, whatever is in it. *)
LEMMA PutType ==
  ASSUME NEW r \in Rings, NEW c \in Chars
  PROVE  BUFFER_PUT(r, c) \in Rings
<1>1. Advance(r.end) \in Places
  BY RingFields, AdvanceTurns
<1>2. (r.size + 1) % ByteMod \in 0 .. ByteMod - 1
  <2>1. r.size + 1 \in Nat
    BY RingFields
  <2> QED BY <2>1, Sizes
<1>3. [r.buffer EXCEPT ![r.end] = c] \in [Places -> Chars]
  BY RingFields
<1> QED BY <1>1, <1>2, <1>3 DEF BUFFER_PUT, Rings

(* Taking a character out of a ring leaves a ring.                         *)
LEMMA GetType ==
  ASSUME NEW r \in Rings
  PROVE  BUFFER_GET(r) \in Rings /\ First(r) \in Chars
<1>1. Advance(r.start) \in Places
  BY RingFields, AdvanceTurns
<1>2. (r.size + ByteMod - 1) % ByteMod \in 0 .. ByteMod - 1
  <2>1. r.size + ByteMod - 1 \in Nat
    BY RingFields, Sizes
  <2> QED BY <2>1, Sizes
<1>3. First(r) \in Chars
  BY RingFields DEF First
<1> QED BY <1>1, <1>2, <1>3 DEF BUFFER_GET, Rings

(* Storing the next character in a ring that has room keeps the order. *)
LEMMA PutKeeps ==
  ASSUME NEW r \in Rings, NEW first \in Chars, NEW next \in Chars,
         Consistent(r), HasRoom(r), Holds(r, first, next)
  PROVE  /\ Consistent(BUFFER_PUT(r, next))
         /\ Holds(BUFFER_PUT(r, next), first, NextChar(next))
         /\ BUFFER_PUT(r, next).size = r.size + 1
<1> DEFINE q == BUFFER_PUT(r, next)
           n == r.size
           SIZE == UART_BUFFER_SIZE
<1>1. /\ n \in Nat /\ n < SIZE /\ n < CharMod /\ n + 1 < ByteMod
      /\ r.start \in Nat /\ r.start < SIZE
      /\ first \in Nat /\ first < CharMod
      /\ SIZE \in Nat /\ SIZE # 0 /\ CharMod \in Nat /\ CharMod # 0
  BY RingFields, Sizes DEF HasRoom, Chars
<1>2. /\ q.size = n + 1 /\ q.start = r.start
      /\ q.end = Advance(r.end)
      /\ q.buffer = [r.buffer EXCEPT ![r.end] = next]
  <2>1. (n + 1) % ByteMod = n + 1
    <3> HIDE DEF n
    <3> QED BY <1>1, Sizes
  <2> QED BY <2>1 DEF BUFFER_PUT, Rings
<1>3. q.end = (r.start + (n + 1)) % SIZE
  <2>1. q.end = (((r.start + n) % SIZE) + 1) % SIZE
    BY <1>2, RingFields, AdvanceTurns DEF Consistent
  <2> HIDE DEF n, SIZE
  <2> QED BY <2>1, <1>1, NextTurn
<1>4. NextChar(next) = (first + (n + 1)) % CharMod
  <2>1. NextChar(next) = (((first + n) % CharMod) + 1) % CharMod
    BY DEF NextChar, Holds
  <2> HIDE DEF n
  <2> QED BY <2>1, <1>1, NextTurn
<1>5. ASSUME NEW i \in 0 .. n
      PROVE  q.buffer[(r.start + i) % SIZE] = (first + i) % CharMod
  <2>0. i \in Nat /\ i <= n /\ (r.start + i) % SIZE \in Places
    <3> HIDE DEF n
    <3> QED BY <1>1 DEF Places
  <2>1. CASE i = n
    BY <2>1, <1>2, RingFields DEF Consistent, Holds
  <2>2. CASE i < n
    <3>1. (r.start + i) % SIZE # r.end
      <4>1. (r.start + i) % SIZE # (r.start + n) % SIZE
        <5> HIDE DEF n, SIZE
        <5> QED BY <2>0, <2>2, <1>1, OtherPlace
      <4> QED BY <4>1 DEF Consistent
    <3>2. i \in 0 .. n - 1
      <4> HIDE DEF n
      <4> QED BY <2>0, <2>2, <1>1
    <3>3. r.buffer[(r.start + i) % SIZE] = (first + i) % CharMod
      BY <3>2 DEF Holds
    <3> QED BY <3>1, <3>3, <1>2, <2>0, RingFields
  <2> HIDE DEF n
  <2> QED BY <2>0, <2>1, <2>2, <1>1
<1>6. Consistent(q)
  <2> HIDE DEF q, n
  <2> QED BY <1>1, <1>2, <1>3 DEF Consistent
<1>7. Holds(q, first, NextChar(next))
  <2>1. 0 .. q.size - 1 = 0 .. n
    <3> HIDE DEF q, n
    <3> QED BY <1>1, <1>2
  <2> HIDE DEF q, n
  <2> QED BY <2>1, <1>2, <1>4, <1>5 DEF Holds
<1> QED BY <1>2, <1>6, <1>7

(* Taking the first character of a ring that has one keeps the order: it   *)
(* is the one that was due, and the one after it is first now.             *)
LEMMA GetKeeps ==
  ASSUME NEW r \in Rings, NEW first \in Chars, NEW next \in Chars,
         Consistent(r), r.size # 0, Holds(r, first, next)
  PROVE  /\ First(r) = first
         /\ Consistent(BUFFER_GET(r))
         /\ Holds(BUFFER_GET(r), NextChar(First(r)), next)
         /\ BUFFER_GET(r).size = r.size - 1
<1> DEFINE q == BUFFER_GET(r)
           n == r.size - 1
           SIZE == UART_BUFFER_SIZE
<1>1. /\ n \in Nat /\ r.size = n + 1 /\ n < SIZE /\ n < CharMod
      /\ n + 1 < ByteMod
      /\ r.start \in Nat /\ r.start < SIZE
      /\ first \in Nat /\ first < CharMod
      /\ SIZE \in Nat /\ SIZE # 0 /\ CharMod \in Nat /\ CharMod # 0
  BY RingFields, Sizes DEF Consistent, Chars
<1>2. /\ q.size = n /\ q.start = (r.start + 1) % SIZE
      /\ q.end = r.end /\ q.buffer = r.buffer
  <2>1. (r.size + ByteMod - 1) % ByteMod = n
    <3>1. r.size + ByteMod - 1 = n + ByteMod
      <4> HIDE DEF n
      <4> QED BY <1>1, Sizes
    <3>2. (n + ByteMod) % ByteMod = n
      <4> HIDE DEF n
      <4> QED BY <1>1, Sizes
    <3> QED BY <3>1, <3>2
  <2>2. Advance(r.start) = (r.start + 1) % SIZE
    BY RingFields, AdvanceTurns
  <2> QED BY <2>1, <2>2 DEF BUFFER_GET, Rings
<1>3. First(r) = first
  <2>1. 0 \in 0 .. r.size - 1
    <3> HIDE DEF n
    <3> QED BY <1>1
  <2>2. r.buffer[(r.start + 0) % SIZE] = (first + 0) % CharMod
    BY <2>1 DEF Holds
  <2>3. (r.start + 0) % SIZE = r.start /\ (first + 0) % CharMod = first
    <3> HIDE DEF SIZE
    <3> QED BY <1>1
  <2> QED BY <2>2, <2>3 DEF First
<1>4. NextChar(First(r)) = (first + 1) % CharMod
  BY <1>3 DEF NextChar
<1>5. ASSUME NEW i \in Nat, i <= n
      PROVE  /\ (q.start + i) % SIZE = (r.start + (i + 1)) % SIZE
             /\ (NextChar(First(r)) + i) % CharMod
                  = (first + (i + 1)) % CharMod
  <2>1. i < SIZE /\ i < CharMod
    <3> HIDE DEF n, SIZE
    <3> QED BY <1>1, <1>5
  <2>2. (((r.start + 1) % SIZE) + i) % SIZE = (r.start + (i + 1)) % SIZE
    <3> HIDE DEF n, SIZE
    <3> QED BY <1>1, <2>1, NextTurn
  <2>3. (((first + 1) % CharMod) + i) % CharMod = (first + (i + 1)) % CharMod
    <3> HIDE DEF n, SIZE
    <3> QED BY <1>1, <2>1, NextTurn
  <2> QED BY <2>2, <2>3, <1>2, <1>4
<1>6. Consistent(q)
  <2>1. (q.start + n) % SIZE = (r.start + (n + 1)) % SIZE
    <3>1. n \in Nat /\ n <= n
      <4> HIDE DEF n
      <4> QED BY <1>1
    <3> QED BY <3>1, <1>5
  <2>2. r.end = (r.start + (n + 1)) % SIZE
    BY <1>1 DEF Consistent
  <2> HIDE DEF q, n
  <2> QED BY <1>1, <1>2, <2>1, <2>2 DEF Consistent
<1>7. Holds(q, NextChar(First(r)), next)
  <2>1. (NextChar(First(r)) + n) % CharMod = next
    <3>1. n \in Nat /\ n <= n
      <4> HIDE DEF n
      <4> QED BY <1>1
    <3>2. (first + (n + 1)) % CharMod = next
      BY <1>1 DEF Holds
    <3> QED BY <3>1, <3>2, <1>5
  <2>2. ASSUME NEW i \in 0 .. n - 1
        PROVE  q.buffer[(q.start + i) % SIZE]
                 = (NextChar(First(r)) + i) % CharMod
    <3>1. i \in Nat /\ i <= n /\ i + 1 \in 0 .. r.size - 1
      <4> HIDE DEF n
      <4> QED BY <1>1
    <3>2. r.buffer[(r.start + (i + 1)) % SIZE] = (first + (i + 1)) % CharMod
      BY <3>1 DEF Holds
    <3> QED BY <3>1, <3>2, <1>2, <1>5
  <2> HIDE DEF q, n
  <2> QED BY <1>2, <2>1, <2>2 DEF Holds
<1> QED BY <1>2, <1>3, <1>6, <1>7
----------------------------------------------------------------------------
(* The specification *)

LEMMA TypeIsRings ==
  TypeOK <=> /\ tx \in Rings /\ rx \in Rings
             /\ udrie \in BOOLEAN
             /\ main \in {"elsewhere", "putWait", "putStore", "putEnable",
                          "getWait", "getTake"}
             /\ {put, sent, arrived, got} \subseteq Chars
BY DEF TypeOK, Rings

(* The empty ring is one,                                                  *)
LEMMA InitRing ==
  EmptyRing \in Rings /\ EmptyRing.size = 0 /\ EmptyRing.end = 0
  /\ EmptyRing.start = 0 /\ 0 \in Chars
BY Sizes DEF EmptyRing, Rings, Places, Chars

(* Every step keeps the rings well formed.                                 *)
LEMMA TypeStep == TypeOK /\ [Next]_vars => TypeOK'
<1> SUFFICES ASSUME TypeOK, [Next]_vars
             PROVE  TypeOK'
  OBVIOUS
<1> USE TypeIsRings
<1>1. CASE putChar
  BY <1>1 DEF putChar, TypeOK
<1>2. CASE putWait
  BY <1>2 DEF putWait, TypeOK
<1>3. CASE putStore
  <2>1. tx' \in Rings /\ put' \in Chars
    BY <1>3, PutType, NextCharType DEF putStore
  <2> QED BY <1>3, <2>1 DEF putStore, TypeOK, Rings
<1>4. CASE putEnable
  BY <1>4 DEF putEnable, TypeOK
<1>5. CASE getChar
  BY <1>5 DEF getChar, TypeOK
<1>6. CASE getWait
  BY <1>6 DEF getWait, TypeOK
<1>7. CASE getTake
  <2>1. rx' \in Rings /\ got' \in Chars
    BY <1>7, GetType, NextCharType DEF getTake
  <2> QED BY <1>7, <2>1 DEF getTake, TypeOK, Rings
<1>8. CASE RX_vect
  <2>1. rx' \in Rings /\ arrived' \in Chars
    BY <1>8, PutType, NextCharType DEF RX_vect
  <2> QED BY <1>8, <2>1 DEF RX_vect, TypeOK, Rings
<1>9. CASE UDRE_vect
  <2>1. tx' \in Rings /\ sent' \in Chars
    BY <1>9, GetType, NextCharType DEF UDRE_vect
  <2>2. udrie' \in BOOLEAN
    BY <1>9 DEF UDRE_vect
  <2> QED BY <1>9, <2>1, <2>2 DEF UDRE_vect, TypeOK, Rings
<1>10. CASE UNCHANGED vars
  BY <1>10 DEF vars, TypeOK
<1> QED BY <1>1, <1>2, <1>3, <1>4, <1>5, <1>6, <1>7, <1>8, <1>9, <1>10
        DEF Next, InPut, InGet

(* The rings are well formed at the start.                                 *)
LEMMA TypeInit == Init => TypeOK
BY InitRing DEF Init, TypeOK, Rings

(* The state is well formed in every reachable state, also where a ring    *)
(* has lost count.                                                         *)
THEOREM TypeCorrect == Spec => []TypeOK
BY TypeInit, TypeStep, PTL DEF Spec

(* and it holds nothing.                                                   *)
LEMMA EmptyHolds ==
  ASSUME NEW r, r = EmptyRing
  PROVE  Consistent(r) /\ Holds(r, 0, 0)
<1>1. r.size = 0 /\ r.end = 0 /\ r.start = 0
  BY InitRing
<1>2. (0 + 0) % UART_BUFFER_SIZE = 0 /\ (0 + 0) % CharMod = 0
  BY Sizes
<1> QED BY <1>1, <1>2, Sizes DEF Consistent, Holds

(* The transmitter at the start,                                           *)
LEMMA TxInit == Init => TxInv
<1> SUFFICES ASSUME Init PROVE TxInv
  OBVIOUS
<1>1. Consistent(tx) /\ Holds(tx, sent, put) /\ main = "elsewhere"
  BY EmptyHolds DEF Init
<1> QED BY <1>1, TypeInit DEF TxInv, TxKeepsOrder

(* and in every step, where no counter wraps.                              *)
LEMMA TxStep == ASSUME TxCounts PROVE TxInv /\ [Next]_vars => TxInv'
<1> SUFFICES ASSUME TxInv, [Next]_vars
             PROVE  TxInv'
  OBVIOUS
<1>0. TypeOK /\ TypeOK'
  BY TypeStep DEF TxInv
<1>1. CASE putChar
  BY <1>0, <1>1 DEF putChar, TxInv, TxKeepsOrder
<1>2. CASE putWait
  <2>1. HasRoom(tx)
    <3>1. tx \in Rings
      BY <1>0, TypeIsRings
    <3> QED BY <1>2, <3>1, RingFields, Sizes
           DEF putWait, TxInv, HasRoom, TxCounts
  <2> QED BY <1>0, <1>2, <2>1 DEF putWait, TxInv, TxKeepsOrder, HasRoom
<1>3. CASE putStore
  <2>1. tx \in Rings /\ put \in Chars /\ sent \in Chars
    BY <1>0, TypeIsRings
  <2>2. /\ Consistent(tx) /\ HasRoom(tx) /\ Holds(tx, sent, put)
        /\ tx' = BUFFER_PUT(tx, put) /\ put' = NextChar(put) /\ sent' = sent
    BY <1>3 DEF putStore, TxInv, TxKeepsOrder
  <2>3. Consistent(tx') /\ Holds(tx', sent', put')
    BY <2>1, <2>2, PutKeeps
  <2> QED BY <1>0, <1>3, <2>3 DEF putStore, TxInv, TxKeepsOrder
<1>4. CASE putEnable
  BY <1>0, <1>4 DEF putEnable, TxInv, TxKeepsOrder
<1>5. CASE getChar
  BY <1>0, <1>5 DEF getChar, TxInv, TxKeepsOrder
<1>6. CASE getWait
  BY <1>0, <1>6 DEF getWait, TxInv, TxKeepsOrder
<1>7. CASE getTake
  BY <1>0, <1>7 DEF getTake, TxInv, TxKeepsOrder
<1>8. CASE RX_vect
  BY <1>0, <1>8 DEF RX_vect, TxInv, TxKeepsOrder
<1>9. CASE UDRE_vect /\ tx.size = 0
  BY <1>0, <1>9 DEF UDRE_vect, TxInv, TxKeepsOrder
<1>10. CASE UDRE_vect /\ tx.size # 0
  <2>1. tx \in Rings /\ put \in Chars /\ sent \in Chars
    BY <1>0, TypeIsRings
  <2>2. /\ Consistent(tx) /\ tx.size # 0 /\ Holds(tx, sent, put)
        /\ tx' = BUFFER_GET(tx) /\ sent' = NextChar(First(tx))
        /\ UNCHANGED <<main, put>>
    BY <1>10 DEF UDRE_vect, TxInv, TxKeepsOrder
  <2>3. Consistent(tx') /\ Holds(tx', sent', put') /\ tx'.size = tx.size - 1
    BY <2>1, <2>2, GetKeeps
  <2>4. tx.size \in Nat
    BY <2>1, RingFields
  <2> QED BY <1>0, <2>2, <2>3, <2>4, Sizes DEF TxInv, TxKeepsOrder, HasRoom
<1>11. CASE UNCHANGED vars
  BY <1>0, <1>11 DEF vars, TxInv, TxKeepsOrder
<1> QED BY <1>1, <1>2, <1>3, <1>4, <1>5, <1>6, <1>7, <1>8, <1>9, <1>10, <1>11
        DEF Next, InPut, InGet

(* What was put and not sent yet waits in the transmit ring, in order and  *)
(* complete, whenever the interrupt comes, for all sizes: as long as the   *)
(* counter of the ring has a value for "full", or the ring never gets so   *)
(* full.                                                                   *)
THEOREM TxKeepsOrderAlways == ASSUME TxCounts PROVE Spec => []TxKeepsOrder
<1>1. Init => TxInv
  BY TxInit
<1>2. TxInv /\ [Next]_vars => TxInv'
  BY TxStep
<1>3. TxInv => TxKeepsOrder
  BY DEF TxInv
<1> QED BY <1>1, <1>2, <1>3, PTL DEF Spec

(* The receiver in every step.                                             *)
LEMMA RxStep == ASSUME RxCounts PROVE RxInv /\ [Next]_vars => RxInv'
<1> SUFFICES ASSUME RxInv, [Next]_vars
             PROVE  RxInv'
  OBVIOUS
<1>0. TypeOK /\ TypeOK'
  BY TypeStep DEF RxInv
<1> DEFINE Frame == UNCHANGED <<rx, arrived, got>>
<1>1. CASE putChar \/ InPut \/ getChar \/ UDRE_vect
  <2>1. Frame /\ (main' # "getTake" \/ UNCHANGED main)
    BY <1>1 DEF putChar, InPut, putWait, putStore, putEnable, getChar,
                UDRE_vect
  <2> QED BY <1>0, <2>1 DEF RxInv, RxKeepsOrder
<1>2. CASE getWait
  BY <1>0, <1>2 DEF getWait, RxInv, RxKeepsOrder
<1>3. CASE getTake
  <2>1. rx \in Rings /\ got \in Chars /\ arrived \in Chars
    BY <1>0, TypeIsRings
  <2>2. /\ Consistent(rx) /\ rx.size # 0 /\ Holds(rx, got, arrived)
        /\ rx' = BUFFER_GET(rx) /\ got' = NextChar(First(rx))
        /\ arrived' = arrived /\ main' = "elsewhere"
    BY <1>3 DEF getTake, RxInv, RxKeepsOrder
  <2>3. Consistent(rx') /\ Holds(rx', got', arrived') /\ rx'.size = rx.size - 1
    BY <2>1, <2>2, GetKeeps
  <2>4. rx.size \in Nat
    BY <2>1, RingFields
  <2> QED BY <1>0, <2>2, <2>3, <2>4, Sizes DEF RxInv, RxKeepsOrder
<1>4. CASE RX_vect
  <2>1. rx \in Rings /\ got \in Chars /\ arrived \in Chars
    BY <1>0, TypeIsRings
  <2>2. rx.size \in Nat /\ rx.size < MaxWaiting
    BY <1>4, <2>1, RingFields DEF RX_vect
  <2>3. HasRoom(rx)
    BY <2>2, Sizes DEF RxCounts, HasRoom
  <2>4. /\ rx' = BUFFER_PUT(rx, arrived) /\ arrived' = NextChar(arrived)
        /\ UNCHANGED <<main, got>>
    BY <1>4, <2>3 DEF RX_vect, HasRoom
  <2>5. Consistent(rx) /\ Holds(rx, got, arrived)
    BY DEF RxInv, RxKeepsOrder
  <2>6. /\ Consistent(rx') /\ Holds(rx', got', arrived')
        /\ rx'.size = rx.size + 1
    BY <2>1, <2>3, <2>4, <2>5, PutKeeps
  <2>7. rx'.size # 0 /\ rx'.size <= MaxWaiting
    BY <2>2, <2>6, Sizes
  <2> QED BY <1>0, <2>4, <2>6, <2>7 DEF RxInv, RxKeepsOrder
<1>5. CASE UNCHANGED vars
  BY <1>0, <1>5 DEF vars, RxInv, RxKeepsOrder
<1> QED BY <1>1, <1>2, <1>3, <1>4, <1>5 DEF Next, InGet

(* What arrived and was not read yet waits in the receive ring, for all    *)
(* sizes, as long as no more characters wait than the ring has places and  *)
(* its counter can count.                                                  *)
THEOREM RxKeepsOrderAlways == ASSUME RxCounts PROVE Spec => []RxKeepsOrder
<1>1. Init => RxInv
  <2> SUFFICES ASSUME Init PROVE RxInv
    OBVIOUS
  <2>1. Consistent(rx) /\ Holds(rx, got, arrived) /\ main = "elsewhere"
    BY EmptyHolds DEF Init
  <2>2. rx.size <= MaxWaiting
    BY InitRing, Sizes DEF Init
  <2> QED BY <2>1, <2>2, TypeInit DEF RxInv, RxKeepsOrder
<1>2. RxInv /\ [Next]_vars => RxInv'
  BY RxStep
<1>3. RxInv => RxKeepsOrder
  BY DEF RxInv
<1> QED BY <1>1, <1>2, <1>3, PTL DEF Spec

(* The transmitter takes the characters in the order in which they were    *)
(* put and skips none, for all sizes with the same hypothesis.             *)
THEOREM SentInOrder ==
  ASSUME TxCounts
  PROVE  Spec => [][sent' = sent \/ sent' = NextChar(sent)]_vars
<1>1. Init => TxInv
  BY TxInit
<1>2. TxInv /\ [Next]_vars => TxInv'
  BY TxStep
<1>3. TxInv /\ [Next]_vars => [sent' = sent \/ sent' = NextChar(sent)]_vars
  <2> SUFFICES ASSUME TxInv, Next
               PROVE  sent' = sent \/ sent' = NextChar(sent)
    OBVIOUS
  <2>1. CASE UDRE_vect
    <3>1. tx.size # 0 => First(tx) = sent
      BY TypeIsRings, GetKeeps DEF TxInv, TxKeepsOrder
    <3> QED BY <2>1, <3>1 DEF UDRE_vect
  <2>2. CASE ~UDRE_vect
    BY <2>2 DEF Next, putChar, InPut, putWait, putStore, putEnable, getChar,
                InGet, getWait, getTake, RX_vect
  <2> QED BY <2>1, <2>2
<1> QED BY <1>1, <1>2, <1>3, PTL DEF Spec
=============================================================================
