---------------------------- MODULE Motors_proofs ----------------------------
(***************************************************************************)
(* What holds of the way from a joint controller to the pins of a motor.   *)
(*                                                                         *)
(* JointController, for every word size, every divisor of the gains and    *)
(* every set of parameters: its integers stay within their sixteen bits    *)
(* (here: Word values), what JointPID computes is within the limits of the *)
(* joint, and the speed it works with is what the wheel has turned.  The   *)
(* first is an inductive invariant by itself and gives the second; the     *)
(* third needs IInv, which relates encoder, wheel and status by            *)
(* congruences modulo Word.  For parameters whose gains leave room, half   *)
(* copied or not, nothing overflows: Room adds to IInv how far the wheel   *)
(* and the count can be from the last sample, and the lemmas on bytes say  *)
(* that a copy leaves a mixture of parameters after each of its steps.     *)
(*                                                                         *)
(* HBridge, for all outputs of sixteen bits and every type at boot: no     *)
(* tick calls through an unset pointer, both motors do what the            *)
(* controllers ask from the first tick after a change of type on, and no   *)
(* pin of an earlier type stays an output.  BridgeInv says of the writes   *)
(* that hBridgeInit has still to make what they end in: field by field,    *)
(* the last write that touches it leaves it as the new type wants it, or   *)
(* nothing touches it and it is so already.                                *)
(***************************************************************************)
EXTENDS JointController, HBridge, TLAPS

(* A word of two bytes has four values or more, a multiple of four. *)
LEMMA WordType ==
  /\ Word \in Nat /\ Word > 0
  /\ Word \div 4 \in Int /\ Word = 4 * (Word \div 4)
<1> DEFINE c == ByteRange \div 2
<1>1. c \in Nat /\ c > 0 /\ ByteRange = 2 * c
  BY JointConstants, SMT
<1> HIDE DEF c
<1>2. \A x \in Nat : x > 0 => /\ x * x \in Nat /\ x * x > 0
                               /\ (2 * x) * (2 * x) = 4 * (x * x)
  BY SMT
<1>3. c * c \in Nat /\ c * c > 0 /\ Word = 4 * (c * c)
  BY <1>1, <1>2, JointConstants
<1> DEFINE k == c * c
<1>4. k \in Nat /\ k > 0 /\ Word = 4 * k
  BY <1>3
<1> HIDE DEF k
<1> QED BY <1>4

(* A remainder is within its range. *)
LEMMA ModRange == \A n \in Int : n % Word \in 0 .. Word - 1
BY WordType, SMT

(* Word is even, so there are as many negative integers as others. *)
LEMMA HalfWord ==
  Word \div 2 \in Nat /\ Word = 2 * (Word \div 2) /\ Word \div 2 > 1
BY WordType, SMT

(* Conversion to sixteen bits gives an integer of sixteen bits. *)
LEMMA SignedRange == \A n \in Int : Signed(n) \in Int16
<1> TAKE n \in Int
<1> DEFINE h == Word \div 2
<1>1. h \in Nat /\ Word = 2 * h
  BY HalfWord
<1>2. (n + h) % Word \in 0 .. Word - 1
  <2>1. n + h \in Int BY <1>1, SMT
  <2> QED BY <2>1, ModRange
<1>3. ((n + h) % Word) - h \in -h .. h - 1
  <2> HIDE DEF h
  <2> QED BY <1>1, <1>2, WordType, SMT
<1> QED BY <1>3 DEF Signed, Int16

(* An unsigned number has 16 bits.                                         *)
LEMMA UnsignedRange == \A n \in Int : Unsigned(n) \in 0 .. Word - 1
BY ModRange DEF Unsigned

(* Clamping an integer of sixteen bits gives one, and one in the limits. *)
LEMMA ClampRange ==
  ASSUME NEW v \in Int16, NEW m \in Nat
  PROVE  clamp(v, m) \in Int16 /\ clamp(v, m) \in -m .. m
<1> DEFINE h == Word \div 2
<1>1. h \in Nat BY HalfWord
<1>2. v \in -h .. h - 1 BY DEF Int16
<1> HIDE DEF h
<1>3. clamp(v, m) \in -h .. h - 1 /\ clamp(v, m) \in -m .. m
  BY <1>1, <1>2, SMT DEF clamp
<1> QED BY <1>3 DEF Int16, h

(* What a number of sixteen bits is, without the operator. *)
LEMMA Int16IsInt == Int16 \subseteq Int /\ 0 \in Int16
BY HalfWord DEF Int16
----------------------------------------------------------------------------
(* Arithmetic that wraps around *)

LEMMA Division ==
  \A n \in Int : n \div Word \in Int /\ n = Word * (n \div Word) + Unsigned(n)
BY WordType DEF Unsigned

(* Small numbers are unsigned as they are.                                 *)
LEMMA UnsignedSmall == \A n \in 0 .. Word - 1 : Unsigned(n) = n
BY WordType DEF Unsigned

(* Adding whole turns of the counter changes nothing. *)
LEMMA UnsignedShift ==
  ASSUME NEW n \in Int, NEW k \in Int
  PROVE  Unsigned(n + Word * k) = Unsigned(n)
<1> DEFINE a == n + Word * k
           m == a \div Word - n \div Word - k
<1>1. a \in Int /\ Word * k \in Int
  BY WordType
<1>2. a = Word * (a \div Word) + Unsigned(a) /\ a \div Word \in Int
  BY <1>1, Division
<1>3. n = Word * (n \div Word) + Unsigned(n) /\ n \div Word \in Int
  BY Division
<1>4. Unsigned(a) \in 0 .. Word - 1 /\ Unsigned(n) \in 0 .. Word - 1
  BY <1>1, UnsignedRange
<1>5. m \in Int
  BY <1>2, <1>3
<1>6. Word * m = Unsigned(n) - Unsigned(a)
  <2>1. \A x, y, z \in Int : Word * (x - y - z) = Word * x - Word * y - Word * z
    BY WordType, SMT
  <2>2. Word * m = Word * (a \div Word) - Word * (n \div Word) - Word * k
    BY <1>2, <1>3, <2>1
  <2>3. /\ Word * (a \div Word) \in Int /\ Word * (n \div Word) \in Int
        /\ Unsigned(a) \in Int /\ Unsigned(n) \in Int
    BY <1>2, <1>3, <1>4, WordType
  <2>4. a = n + Word * k
    OBVIOUS
  <2> HIDE DEF a, m
  <2> QED BY <1>1, <1>2, <1>3, <2>2, <2>3, <2>4, SMT
<1>7. m = 0
  <2> HIDE DEF m, a
  <2>1. \A x \in Int : (x >= 1 => Word * x >= Word)
                       /\ (x <= -1 => Word * x <= -Word)
    BY WordType, SMT
  <2> QED BY <1>4, <1>5, <1>6, <2>1, WordType, SMT
<1> HIDE DEF m, a
<1>8. Unsigned(n) - Unsigned(a) = 0
  BY <1>6, <1>7, WordType
<1>9. Unsigned(a) = Unsigned(n)
  BY <1>8, <1>4
<1> QED BY <1>9 DEF a

(* A sum does not change when one summand has been reduced before. *)
LEMMA UnsignedSum ==
  ASSUME NEW a \in Int, NEW b \in Int
  PROVE  Unsigned(Unsigned(a) + b) = Unsigned(a + b)
<1> DEFINE q == a \div Word
<1>1. q \in Int /\ a = Word * q + Unsigned(a) /\ Unsigned(a) \in Int
  BY Division, UnsignedRange
<1>2. a + b = (Unsigned(a) + b) + Word * q /\ Unsigned(a) + b \in Int
  <2> HIDE DEF q
  <2>1. Word * q \in Int BY <1>1, WordType
  <2> QED BY <1>1, <2>1
<1> HIDE DEF q
<1> QED BY <1>1, <1>2, UnsignedShift

(* Numbers that differ by a multiple of 2^16 are the same as unsigned      *)
(* ones,                                                                   *)
LEMMA Congruence ==
  ASSUME NEW a \in Int, NEW b \in Int, NEW c \in Int,
         Unsigned(a) = Unsigned(b)
  PROVE  Unsigned(a + c) = Unsigned(b + c)
<1>1. Unsigned(a + c) = Unsigned(Unsigned(a) + c)
  BY UnsignedSum
<1>2. Unsigned(b + c) = Unsigned(Unsigned(b) + c)
  BY UnsignedSum
<1> QED BY <1>1, <1>2

(* A number and its sixteen bits are congruent, and congruent numbers have *)
(* the same sixteen bits.                                                  *)
LEMMA SignedCongruent ==
  ASSUME NEW n \in Int
  PROVE  Unsigned(Signed(n)) = Unsigned(n)
<1> DEFINE h == Word \div 2
<1>1. h \in Int BY HalfWord
<1> HIDE DEF h
<1>2. Signed(n) = Unsigned(n + h) + (-h)
  <2>1. Unsigned(n + h) \in Int
    BY <1>1, UnsignedRange
  <2>2. Signed(n) = Unsigned(n + h) - h
    BY DEF Signed, Unsigned, h
  <2> QED BY <1>1, <2>1, <2>2
<1>3. Unsigned(Unsigned(n + h) + (-h)) = Unsigned((n + h) + (-h))
  BY <1>1, UnsignedSum
<1>4. (n + h) + (-h) = n
  BY <1>1
<1> QED BY <1>2, <1>3, <1>4

(* and as signed ones.                                                     *)
LEMMA SignedSame ==
  ASSUME NEW a \in Int, NEW b \in Int, Unsigned(a) = Unsigned(b)
  PROVE  Signed(a) = Signed(b)
<1>1. Unsigned(a + Word \div 2) = Unsigned(b + Word \div 2)
  <2>1. Word \div 2 \in Int
    BY HalfWord
  <2> QED BY <2>1, Congruence
<1> QED BY <1>1 DEF Signed, Unsigned

(* What fits in sixteen bits stays what it is. *)
LEMMA SignedSmall == \A n \in Int16 : Signed(n) = n
<1> TAKE n \in Int16
<1> DEFINE h == Word \div 2
<1>1. h \in Nat /\ Word = 2 * h /\ n \in -h .. h - 1
  BY HalfWord DEF Int16
<1> HIDE DEF h
<1>2. n + h \in 0 .. Word - 1
  BY <1>1
<1>3. Unsigned(n + h) = n + h
  BY <1>2, UnsignedSmall
<1>4. Signed(n) = Unsigned(n + h) - h
  BY DEF Signed, Unsigned, h
<1> QED BY <1>1, <1>3, <1>4

----------------------------------------------------------------------------
(* The bytes of a number *)

(* A word is made of its two bytes. *)
LEMMA TwoBytes ==
  ASSUME NEW n \in Int
  PROVE  /\ High(n) \in 0 .. ByteRange - 1 /\ Low(n) \in 0 .. ByteRange - 1
         /\ Unsigned(n) = ByteRange * High(n) + Low(n)
<1> DEFINE u == Unsigned(n)
           h == u \div ByteRange
           l == u % ByteRange
<1>1. u \in 0 .. Word - 1 /\ u \in Nat
  BY UnsignedRange, WordType
<1>2. ByteRange \in Nat /\ ByteRange > 0 /\ Word = ByteRange * ByteRange
  BY JointConstants
<1>3. High(n) = h /\ Low(n) = l
  BY DEF High, Low
<1> HIDE DEF u
<1>4. /\ h \in Int /\ l \in 0 .. ByteRange - 1 /\ h >= 0
      /\ u = ByteRange * h + l
  BY <1>1, <1>2, SMT
<1> HIDE DEF h, l
<1>5. ASSUME h >= ByteRange PROVE FALSE
  <2>1. \A x, y, z \in Nat : x >= y => z * x >= z * y
    BY SMT
  <2>2. ByteRange * h >= Word /\ ByteRange * h \in Int
    BY <1>2, <1>4, <1>5, <2>1
  <2> QED BY <1>1, <1>4, <2>2, WordType
<1>6. h \in 0 .. ByteRange - 1
  BY <1>2, <1>4, <1>5
<1> QED BY <1>3, <1>4, <1>6 DEF u

(* Only they do. *)
LEMMA BytesOnce ==
  ASSUME NEW h \in Nat, NEW l \in 0 .. ByteRange - 1
  PROVE  /\ (ByteRange * h + l) \div ByteRange = h
         /\ (ByteRange * h + l) % ByteRange = l
         /\ ByteRange * h \in Nat
<1> DEFINE v == ByteRange * h + l
           q == v \div ByteRange
           r == v % ByteRange
           d == q - h
<1>1. ByteRange \in Nat /\ ByteRange > 0 /\ ByteRange * h \in Nat /\ l \in Nat
  BY JointConstants, SMT
<1>2. v \in Nat
  BY <1>1
<1>3. q \in Int /\ r \in 0 .. ByteRange - 1 /\ v = ByteRange * q + r
  <2> HIDE DEF v
  <2> QED BY <1>1, <1>2, SMT
<1>4. ByteRange * d = l - r
  <2>1. \A x, y, z \in Int : x * (y - z) = x * y - x * z /\ x * y \in Int
    BY SMT
  <2>2. ByteRange * d = ByteRange * q - ByteRange * h /\ ByteRange * q \in Int
    BY <1>1, <1>3, <2>1
  <2>3. v = ByteRange * h + l
    OBVIOUS
  <2> HIDE DEF v, q, r, d
  <2> QED BY <1>1, <1>3, <2>2, <2>3
<1>5. d = 0
  <2>1. \A x \in Int : (x >= 1 => ByteRange * x >= ByteRange)
                       /\ (x <= -1 => ByteRange * x <= -ByteRange)
    BY <1>1, SMT
  <2>2. d \in Int
    BY <1>3
  <2> HIDE DEF v, q, r, d
  <2> QED BY <1>1, <1>3, <1>4, <2>1, <2>2
<1>6. ByteRange * d = 0
  BY <1>1, <1>5
<1>7. q = h
  <2> HIDE DEF q
  <2> QED BY <1>3, <1>5 DEF q
<1>8. r = l
  <2> HIDE DEF r, d
  <2> QED BY <1>1, <1>3, <1>4, <1>6
<1> QED BY <1>1, <1>7, <1>8

(* What is made of two bytes has them. *)
LEMMA BytesParts ==
  ASSUME NEW h \in 0 .. ByteRange - 1, NEW l \in 0 .. ByteRange - 1
  PROVE  /\ Bytes(h, l) \in Int16
         /\ High(Bytes(h, l)) = h /\ Low(Bytes(h, l)) = l
<1> DEFINE v == ByteRange * h + l
<1>1. h \in Nat /\ l \in Nat /\ ByteRange \in Nat
  BY JointConstants
<1>2. v \in 0 .. Word - 1
  <2>1. \A x, y \in Nat : x <= y - 1 => y * x + y <= y * y /\ y * x \in Nat
    BY SMT
  <2>2. ByteRange * h + ByteRange <= Word /\ ByteRange * h \in Nat
    BY <1>1, <2>1, JointConstants
  <2> QED BY <1>1, <2>2, WordType
<1>3. v \in Int
  BY <1>2
<1>4. Unsigned(Bytes(h, l)) = v
  BY <1>2, <1>3, SignedCongruent, UnsignedSmall DEF Bytes
<1>5. v \div ByteRange = h /\ v % ByteRange = l
  BY <1>1, BytesOnce
<1>6. Bytes(h, l) \in Int16
  BY <1>3, SignedRange DEF Bytes
<1> HIDE DEF v
<1> QED BY <1>4, <1>5, <1>6 DEF High, Low

(* Copied as a whole, a number is the same. *)
LEMMA BytesWhole ==
  ASSUME NEW n \in Int16
  PROVE  Bytes(High(n), Low(n)) = n
<1>1. n \in Int
  BY Int16IsInt
<1>2. Bytes(High(n), Low(n)) = Signed(Unsigned(n))
  BY <1>1, TwoBytes DEF Bytes
<1>3. Unsigned(n) \in 0 .. Word - 1 /\ Unsigned(n) \in Int
  BY <1>1, UnsignedRange
<1>4. Unsigned(Unsigned(n)) = Unsigned(n)
  BY <1>3, UnsignedSmall
<1>5. Signed(Unsigned(n)) = Signed(n)
  BY <1>1, <1>3, <1>4, SignedSame
<1> QED BY <1>2, <1>5, SignedSmall

(* Half of one limit and half of another are no negative number. *)
LEMMA BytesLimits ==
  ASSUME NEW m \in Limits, NEW n \in Limits
  PROVE  Bytes(High(m), Low(n)) \in Nat
<1> DEFINE c == ByteRange \div 2
           h == High(m)
           l == Low(n)
<1>1. ByteRange \in Nat /\ ByteRange > 0 /\ c \in Nat /\ ByteRange = 2 * c
  BY JointConstants, SMT
<1>2. Word \div 2 = ByteRange * c /\ ByteRange * c \in Nat
  <2> HIDE DEF c
  <2>1. \A x \in Nat : (2 * x) * (2 * x) = 2 * ((2 * x) * x) /\ (2 * x) * x \in Nat
    BY SMT
  <2>2. Word = 2 * (ByteRange * c) /\ ByteRange * c \in Nat
    BY <1>1, <2>1, JointConstants
  <2> DEFINE k == ByteRange * c
  <2>3. k \in Nat /\ Word = 2 * k
    BY <2>2
  <2> HIDE DEF k
  <2>4. Word \div 2 = k
    BY <2>3
  <2> QED BY <2>2, <2>4 DEF k
<1>3. /\ m \in 0 .. Word - 1 /\ m \in Int /\ n \in Int
      /\ m <= ByteRange * c - 1
  <2>1. m \in 0 .. Word \div 2 - 1 /\ n \in 0 .. Word \div 2 - 1
    BY DEF Limits
  <2> HIDE DEF c
  <2> QED BY <1>2, <2>1, HalfWord
<1>4. /\ h \in 0 .. ByteRange - 1 /\ l \in 0 .. ByteRange - 1
      /\ m = ByteRange * h + Low(m) /\ Low(m) \in Nat
  BY <1>1, <1>3, TwoBytes, UnsignedSmall
<1> HIDE DEF c, h, l
<1>5. ByteRange * h + l \in 0 .. ByteRange * c - 1
  <2>1. ASSUME h >= c PROVE FALSE
    <3>1. \A x, y, z \in Nat : x >= y => z * x >= z * y /\ z * x \in Nat
      BY SMT
    <3>2. ByteRange * h >= ByteRange * c /\ ByteRange * h \in Nat
      BY <1>1, <1>4, <2>1, <3>1
    <3> QED BY <1>2, <1>3, <1>4, <3>2
  <2>2. \A x, y, z \in Nat : x <= y - 1 => z * x + z <= z * y /\ z * x \in Nat
    BY SMT
  <2> DEFINE a == ByteRange * h
             b == ByteRange * c
  <2>3. a + ByteRange <= b /\ a \in Nat
    BY <1>1, <1>4, <2>1, <2>2
  <2>4. b \in Nat /\ l \in 0 .. ByteRange - 1 /\ ByteRange \in Nat
    BY <1>1, <1>2, <1>4
  <2> HIDE DEF a, b
  <2>5. a + l \in 0 .. b - 1
    BY <2>3, <2>4
  <2> QED BY <2>5 DEF a, b
<1>6. ByteRange * h + l \in Int16 /\ ByteRange * h + l \in Nat
  <2> DEFINE k == ByteRange * c
             v == ByteRange * h + l
  <2>1. v \in 0 .. k - 1 /\ k \in Nat /\ Int16 = -k .. k - 1
    BY <1>2, <1>5 DEF Int16
  <2> HIDE DEF k, v
  <2>2. v \in Int16 /\ v \in Nat
    BY <2>1
  <2> QED BY <2>2 DEF v
<1>7. Bytes(h, l) = ByteRange * h + l
  BY <1>6, SignedSmall DEF Bytes
<1> QED BY <1>6, <1>7 DEF h, l

Fields ==
  {"kp", "ki", "kd", "max_i", "min_pwm", "max_pwm", "max_speed", "slope"}

LEMMA FieldType ==
  ASSUME NEW p \in Params, NEW field \in Fields
  PROVE  p[field] \in Int16
<1>1. Limits \subseteq Int16
  BY HalfWord DEF Limits, Int16
<1>2. p \in [kp : Int16, ki : Int16, kd : Int16, max_i : Limits,
             min_pwm : Limits, max_pwm : Limits, max_speed : Limits,
             slope : Limits]
  BY JointConstants
<1> QED BY <1>1, <1>2 DEF Fields

(* Half copied parameters have the types of parameters: the gains are of   *)
(* sixteen bits, and no limit is negative.                                 *)
LEMMA MixedGains ==
  ASSUME NEW field \in Fields
  PROVE  Mixed(field) \subseteq Int16
<1> SUFFICES ASSUME NEW p \in Params, NEW q \in Params
             PROVE  Bytes(High(p[field]), Low(q[field])) \in Int16
  BY DEF Mixed
<1>1. p[field] \in Int /\ q[field] \in Int
  BY FieldType, Int16IsInt
<1> QED BY <1>1, TwoBytes, BytesParts

LEMMA MixedLimits ==
  ASSUME NEW field \in Fields \ {"kp", "ki", "kd"}
  PROVE  Mixed(field) \subseteq Nat
<1> SUFFICES ASSUME NEW p \in Params, NEW q \in Params
             PROVE  Bytes(High(p[field]), Low(q[field])) \in Nat
  BY DEF Mixed
<1>1. p[field] \in Limits /\ q[field] \in Limits
  BY JointConstants DEF Fields
<1> QED BY <1>1, BytesLimits

LEMMA MixtureType ==
  ASSUME NEW p \in Mixtures
  PROVE  /\ {p.kp, p.ki, p.kd} \subseteq Int16
         /\ {p.max_i, p.min_pwm, p.max_pwm, p.max_speed, p.slope} \subseteq Nat
<1>1. {p.kp, p.ki, p.kd} \subseteq Mixed("kp") \cup Mixed("ki") \cup Mixed("kd")
  BY DEF Mixtures
<1>2. /\ p.max_i \in Mixed("max_i") /\ p.min_pwm \in Mixed("min_pwm")
      /\ p.max_pwm \in Mixed("max_pwm")
      /\ p.max_speed \in Mixed("max_speed") /\ p.slope \in Mixed("slope")
  BY DEF Mixtures
<1> QED BY <1>1, <1>2, MixedGains, MixedLimits DEF Fields

(* What has been copied as a whole is one of the mixtures, *)
LEMMA WholeParams == Params \subseteq Mixtures
<1> SUFFICES ASSUME NEW p \in Params PROVE p \in Mixtures
  OBVIOUS
<1>1. \A field \in Fields : p[field] \in Mixed(field)
  <2> TAKE field \in Fields
  <2>1. Bytes(High(p[field]), Low(p[field])) = p[field]
    BY FieldType, BytesWhole
  <2> QED BY <2>1 DEF Mixed
<1>2. p \in [kp : Int16, ki : Int16, kd : Int16, max_i : Limits,
             min_pwm : Limits, max_pwm : Limits, max_speed : Limits,
             slope : Limits]
  BY JointConstants
<1> QED BY <1>1, <1>2 DEF Mixtures, Fields

(* and a byte more of others makes another. *)
LEMMA MixedField ==
  ASSUME NEW m \in Mixtures, NEW field \in Fields, NEW v \in Mixed(field)
  PROVE  [m EXCEPT ![field] = v] \in Mixtures
<1>1. field = "kp" \/ field = "ki" \/ field = "kd" \/ field = "max_i"
      \/ field = "min_pwm" \/ field = "max_pwm" \/ field = "max_speed"
      \/ field = "slope"
  BY DEF Fields
<1> QED BY <1>1 DEF Mixtures

LEMMA MixStep ==
  ASSUME params \in Mixtures, copyParam
  PROVE  params' \in Mixtures
<1>1. DOMAIN params = Fields
  BY DEF Mixtures, Fields
<1>2. PICK field \in Fields, q \in Params :
        \/ params' = [params EXCEPT ![field] =
                        Bytes(High(params[field]), Low(q[field]))]
        \/ params' = [params EXCEPT ![field] =
                        Bytes(High(q[field]), Low(params[field]))]
  BY <1>1 DEF copyParam
<1>3. params[field] \in Mixed(field)
  BY DEF Mixtures, Fields
<1>4. PICK a, b \in Params : params[field] = Bytes(High(a[field]), Low(b[field]))
  BY <1>3 DEF Mixed
<1>5. a[field] \in Int /\ b[field] \in Int
  BY FieldType, Int16IsInt
<1>6. High(params[field]) = High(a[field]) /\ Low(params[field]) = Low(b[field])
  BY <1>4, <1>5, TwoBytes, BytesParts
<1>7. /\ Bytes(High(params[field]), Low(q[field])) \in Mixed(field)
      /\ Bytes(High(q[field]), Low(params[field])) \in Mixed(field)
  BY <1>6 DEF Mixed
<1> QED BY <1>2, <1>7, MixedField
----------------------------------------------------------------------------
(* The computation of the controller *)

LEMMA ParamsType ==
  ASSUME TypeOK
  PROVE  /\ {params.kp, params.ki, params.kd} \subseteq Int
         /\ {params.max_i, params.min_pwm, params.max_pwm, params.max_speed,
             params.slope} \subseteq Nat
<1>1. params \in Mixtures
  BY DEF TypeOK
<1> QED BY <1>1, MixtureType, Int16IsInt

(* What the controller computes with has 16 bits: its state,               *)
LEMMA JointType ==
  ASSUME TypeOK
  PROVE  {joint.output, joint.error_integral, joint.previous_error}
           \subseteq Int16
BY DEF TypeOK

(* the speed,                                                              *)
LEMMA SpeedType ==
  ASSUME TypeOK
  PROVE  Speed(encoder.sampled_value) \in Int16
<1>1. encoder.sampled_value - status.encoder_position \in Int
  BY WordType DEF TypeOK
<1> QED BY <1>1, SignedRange DEF Speed

(* the control packet,                                                     *)
LEMMA ControlType ==
  ASSUME TypeOK
  PROVE  control.speed \in Int16 /\ control.mode \in Modes
BY JointConstants, Int16IsInt DEF TypeOK

(* the error,                                                              *)
LEMMA ErrorType ==
  ASSUME TypeOK, NEW speed \in Int16
  PROVE  Error(speed) \in Int16
<1> DEFINE ref == clamp(control.speed, params.max_speed)
<1>1. ref \in Int16
  BY ControlType, ParamsType, ClampRange
<1>2. ref - speed \in Int
  <2>1. ref \in Int /\ speed \in Int
    BY <1>1, Int16IsInt
  <2> HIDE DEF ref
  <2> QED BY <2>1
<1>3. Signed(ref - speed) \in Int16
  BY <1>2, SignedRange
<1> QED BY <1>3, ParamsType, ClampRange DEF Error

(* the sum of the errors,                                                  *)
LEMMA IntegralType ==
  ASSUME TypeOK, NEW speed \in Int16
  PROVE  /\ Integral(speed) \in Int16
         /\ Integral(speed) \in -params.max_i .. params.max_i
<1>1. joint.error_integral + Error(speed) \in Int
  <2>1. Error(speed) \in Int
    BY ErrorType, Int16IsInt
  <2>2. joint.error_integral \in Int
    BY JointType, Int16IsInt
  <2> QED BY <2>1, <2>2
<1>2. Signed(joint.error_integral + Error(speed)) \in Int16
  BY <1>1, SignedRange
<1> QED BY <1>2, ParamsType, ClampRange DEF Integral

(* the quotients of a division,                                            *)
LEMMA QuotientType == \A n \in Int : Quotient(n) \in Int
BY JointConstants DEF Quotient

(* and the output.                                                         *)
LEMMA OutputType ==
  ASSUME TypeOK, NEW speed \in Int16
  PROVE  /\ Output(speed) \in Int16
         /\ \/ Output(speed) = 0
            \/ Output(speed) \in params.min_pwm .. params.max_pwm
            \/ -Output(speed) \in params.min_pwm .. params.max_pwm
<1> DEFINE e == Error(speed)
           d == Signed(e - joint.previous_error)
           sum == speed + e + Quotient(Signed(GainSum(speed)))
           out == clamp(Signed(sum), params.max_pwm)
<1>1. e \in Int /\ Integral(speed) \in Int /\ speed \in Int
  BY ErrorType, IntegralType, Int16IsInt
<1>2. d \in Int
  <2>1. e - joint.previous_error \in Int
    <3>1. joint.previous_error \in Int
      BY JointType, Int16IsInt
    <3> HIDE DEF e
    <3> QED BY <1>1, <3>1
  <2> QED BY <2>1, SignedRange, Int16IsInt
<1>3. GainSum(speed) \in Int
  <2> HIDE DEF e, d
  <2>1. params.kp * e \in Int /\ params.ki * Integral(speed) \in Int
        /\ params.kd * d \in Int
    BY <1>1, <1>2, ParamsType, SMT
  <2>2. params.kp * e + params.ki * Integral(speed) + params.kd * d \in Int
    BY <2>1
  <2> QED BY <2>2 DEF GainSum, e, d
<1>4. sum \in Int
  <2>1. Quotient(Signed(GainSum(speed))) \in Int
    BY <1>3, SignedRange, Int16IsInt, QuotientType
  <2> QED BY <2>1, <1>1
<1>5. out \in Int16 /\ out \in -params.max_pwm .. params.max_pwm
  BY <1>4, SignedRange, ParamsType, ClampRange
<1>6. Output(speed) = IF out < params.min_pwm /\ out > -params.min_pwm THEN 0
                                                                    ELSE out
  BY DEF Output
<1> HIDE DEF out
<1> QED BY <1>5, <1>6, ParamsType, Int16IsInt, SMT
----------------------------------------------------------------------------
(* The state is well formed. *)
LEMMA TypeInit == Init => TypeOK
<1> SUFFICES ASSUME Init PROVE TypeOK
  OBVIOUS
<1>1. 0 .. 3 \subseteq 0 .. Word - 1 /\ 0 \in 0 .. Word - 1
  BY HalfWord, WordType
<1>2. \E p \in Mixtures : joint.error_integral \in -p.max_i .. p.max_i
  BY WholeParams, MixtureType DEF Init
<1>3. /\ {position, seen} \subseteq 0 .. Word - 1
      /\ encoder \in [pin_state : 0 .. 3, current_value : 0 .. Word - 1,
                      sampled_value : 0 .. Word - 1]
  BY <1>1 DEF Init
<1>4. /\ joint \in [output : Int16, error_integral : Int16,
                    previous_error : Int16]
      /\ status \in [encoder_position : 0 .. Word - 1, encoder_speed : Int16]
  BY <1>1, Int16IsInt DEF Init
<1>5. /\ control \in [mode : Modes, speed : Speeds \cup {0}]
      /\ params \in Mixtures
      /\ pending \in BOOLEAN /\ synced \in BOOLEAN
      /\ tick \in {"over", "sampled"}
  BY WholeParams DEF Init, Modes
<1> QED BY <1>2, <1>3, <1>4, <1>5 DEF TypeOK

(* Every step keeps the types.                                             *)
LEMMA TypeStep == TypeOK /\ [Next]_vars => TypeOK'
<1> SUFFICES ASSUME TypeOK, [Next]_vars PROVE TypeOK'
  OBVIOUS
<1>1. ASSUME NEW d \in {1, -1}, Turn(d) PROVE TypeOK'
  <2>1. Unsigned(position + d) \in 0 .. Word - 1
    BY UnsignedRange, WordType DEF TypeOK
  <2> QED BY <1>1, <2>1 DEF Turn, TypeOK
<1>2. CASE PCINT0_vect
  <2>1. Pins(position) \in 0 .. 3
    BY WordType DEF Pins, TypeOK
  <2> DEFINE idx == 4 * encoder.pin_state + Pins(position) + 1
             count == Unsigned(encoder.current_value + transition_table[idx])
  <2>2. idx \in 1 .. 16
    BY <2>1 DEF TypeOK
  <2>3. \A i \in 1 .. 16 : transition_table[i] \in {-1, 0, 1}
    BY DEF transition_table
  <2>4. count \in 0 .. Word - 1
    <3> HIDE DEF idx
    <3>1. encoder.current_value + transition_table[idx] \in Int
      BY <2>2, <2>3, WordType DEF TypeOK
    <3> QED BY <3>1, UnsignedRange
  <2>5. encoder' = [encoder EXCEPT !.current_value = count,
                                   !.pin_state = Pins(position)]
    BY <1>2 DEF PCINT0_vect
  <2> HIDE DEF count
  <2> QED BY <1>2, <2>1, <2>4, <2>5 DEF PCINT0_vect, TypeOK
<1>3. CASE sample
  BY <1>3 DEF sample, TypeOK
<1>4. CASE handle
  <2> DEFINE speed == Speed(encoder.sampled_value)
  <2>1. speed \in Int16 /\ Error(speed) \in Int16 /\ Output(speed) \in Int16
    BY SpeedType, ErrorType, OutputType
  <2>2. /\ Integral(speed) \in Int16
        /\ Integral(speed) \in -params.max_i .. params.max_i
    BY <2>1, IntegralType
  <2>3. /\ UNCHANGED <<position, pending, encoder, control, params, seen,
                       synced>>
        /\ tick' \in {"over", "sampled"}
        /\ status' \in [encoder_position : 0 .. Word - 1,
                        encoder_speed : Int16]
    BY <1>4, <2>1 DEF handle, TypeOK
  <2>4. /\ joint' \in [output : Int16, error_integral : Int16,
                       previous_error : Int16]
        /\ \E p \in Mixtures : joint'.error_integral \in -p.max_i .. p.max_i
    <3>1. CASE control.mode = "JointDisabled"
      <4>1. joint' = [joint EXCEPT !.output = 0, !.error_integral = 0]
        BY <1>4, <3>1 DEF handle
      <4>2. 0 \in -params.max_i .. params.max_i
        BY ParamsType
      <4> QED BY <4>1, <4>2, Int16IsInt DEF TypeOK
    <3>2. CASE control.mode = "JointPWM"
      <4>1. joint' = [joint EXCEPT !.output = control.speed]
        BY <1>4, <3>2 DEF handle
      <4> QED BY <4>1, ControlType DEF TypeOK
    <3>3. CASE control.mode = "JointPID"
      <4>1. joint' = [output |-> Output(speed),
                      error_integral |-> Integral(speed),
                      previous_error |-> Error(speed)]
        BY <1>4, <3>3 DEF handle
      <4> HIDE DEF speed
      <4> QED BY <4>1, <2>1, <2>2 DEF TypeOK
    <3>4. CASE control.mode = "Other"
      BY <1>4, <3>4 DEF handle, TypeOK
    <3> QED BY <3>1, <3>2, <3>3, <3>4, ControlType DEF Modes
  <2> QED BY <2>3, <2>4 DEF TypeOK
<1>5. CASE setMode
  BY <1>5 DEF setMode, TypeOK
<1>6. CASE setSpeed
  BY <1>6 DEF setSpeed, TypeOK
<1>7. CASE copyParam
  <2>1. params' \in Mixtures
    BY <1>7, MixStep DEF TypeOK
  <2>2. UNCHANGED <<position, pending, encoder, tick, control, joint, status,
                    seen, synced>>
    BY <1>7 DEF copyParam
  <2> QED BY <2>1, <2>2 DEF TypeOK
<1>8. CASE jointsDisable
  <2>1. joint' \in [output : Int16, error_integral : Int16,
                    previous_error : Int16]
        /\ joint'.error_integral = joint.error_integral
    BY <1>8, Int16IsInt DEF jointsDisable, TypeOK
  <2>2. control' \in [mode : Modes, speed : Speeds \cup {0}]
    BY <1>8 DEF jointsDisable, TypeOK, Modes
  <2> QED BY <1>8, <2>1, <2>2 DEF jointsDisable, TypeOK
<1>9. CASE UNCHANGED vars
  BY <1>9 DEF vars, TypeOK
<1> QED BY <1>1, <1>2, <1>3, <1>4, <1>5, <1>6, <1>7, <1>8, <1>9 DEF Next

(* Whatever the speeds, the gains and the order of the interrupts, all     *)
(* integers stay within their width and the integral within its limits.    *)
THEOREM TypeCorrect == Spec => []TypeOK
<1> QED BY TypeInit, TypeStep, PTL DEF Spec

(* What JointPID computes is zero or between min_pwm and max_pwm, for      *)
(* every set of parameters, also when the sum before has overflowed.       *)
THEOREM OutputsInRange == Spec => OutputInRange
<1>1. ASSUME TypeOK, handle, control.mode = "JointPID"
      PROVE  \/ joint'.output = 0
             \/ joint'.output \in params.min_pwm .. params.max_pwm
             \/ -joint'.output \in params.min_pwm .. params.max_pwm
  <2>1. joint'.output = Output(Speed(encoder.sampled_value))
    BY <1>1 DEF handle
  <2> QED BY <1>1, <2>1, SpeedType, OutputType
<1> DEFINE InRange == handle /\ control.mode = "JointPID" =>
             \/ joint'.output = 0
             \/ joint'.output \in params.min_pwm .. params.max_pwm
             \/ -joint'.output \in params.min_pwm .. params.max_pwm
<1>2. TypeOK /\ [Next]_vars => [InRange]_vars
  BY <1>1
<1> QED BY TypeCorrect, <1>2, PTL DEF Spec, OutputInRange
----------------------------------------------------------------------------
(* The decoder *)

(* Word is a multiple of four, so wrapping keeps the phase of the wheel. *)
LEMMA UnsignedPhase ==
  ASSUME NEW n \in Int
  PROVE  Unsigned(n) % 4 = n % 4
<1> DEFINE w == Word \div 4
           q == n \div Word
<1>1. w \in Int /\ Word = 4 * w
  BY WordType
<1>2. q \in Int /\ n = Word * q + Unsigned(n) /\ Unsigned(n) \in Int
  BY Division, UnsignedRange
<1>3. w * q \in Int /\ Word * q = 4 * (w * q)
  <2> HIDE DEF w, q
  <2>1. \A x, y \in Int : x * y \in Int /\ (4 * x) * y = 4 * (x * y)
    BY SMT
  <2> QED BY <1>1, <1>2, <2>1
<1> DEFINE k == w * q
<1>4. k \in Int /\ n = 4 * k + Unsigned(n)
  BY <1>2, <1>3
<1> HIDE DEF k
<1> QED BY <1>2, <1>4

(* The table gives, for two adjacent positions of the wheel, the edge      *)
(* between them.                                                           *)
LEMMA TableStep ==
  ASSUME NEW p \in 0 .. Word - 1, NEW s \in 0 .. Word - 1,
         Signed(p - s) \in {-1, 0, 1}
  PROVE  transition_table[4 * Pins(s) + Pins(p) + 1] = Signed(p - s)
<1> DEFINE d == Signed(p - s)
<1>1. p \in Int /\ s \in Int /\ p - s \in Int
  BY WordType
<1>2. d \in {-1, 0, 1}
  OBVIOUS
<1> HIDE DEF d
<1>3. d \in Int
  BY <1>2
<1>4. Unsigned(p - s) = Unsigned(d)
  BY <1>1, SignedCongruent DEF d
<1>5. Unsigned(p) = Unsigned(s + d)
  <2>1. Unsigned((p - s) + s) = Unsigned(d + s)
    BY <1>1, <1>3, <1>4, Congruence
  <2>2. (p - s) + s = p /\ d + s = s + d
    BY <1>1, <1>3
  <2> QED BY <2>1, <2>2
<1>6. p % 4 = (s + d) % 4
  <2>1. s + d \in Int
    BY <1>1, <1>3
  <2> QED BY <1>1, <1>5, <2>1, UnsignedPhase
<1>7. s % 4 \in 0 .. 3
  BY <1>1
<1>8. CASE s % 4 = 0
  <2>1. p % 4 = IF d = -1 THEN 3 ELSE IF d = 0 THEN 0 ELSE 1
    BY <1>1, <1>2, <1>6, <1>8
  <2>2. Pins(s) = 0 /\ Pins(p) = IF d = -1 THEN 1 ELSE IF d = 0 THEN 0 ELSE 2
    BY <1>2, <1>8, <2>1 DEF Pins
  <2> QED BY <1>2, <2>2 DEF transition_table, d
<1>9. CASE s % 4 = 1
  BY <1>1, <1>2, <1>6, <1>9 DEF Pins, transition_table, d
<1>10. CASE s % 4 = 2
  BY <1>1, <1>2, <1>6, <1>10 DEF Pins, transition_table, d
<1>11. CASE s % 4 = 3
  <2>1. p % 4 = IF d = 1 THEN 0 ELSE IF d = 0 THEN 3 ELSE 2
    BY <1>1, <1>2, <1>6, <1>11
  <2>2. Pins(s) = 1 /\ Pins(p) = IF d = 1 THEN 0 ELSE IF d = 0 THEN 1 ELSE 3
    BY <1>2, <1>11, <2>1 DEF Pins
  <2> QED BY <1>2, <2>2 DEF transition_table, d
<1> QED BY <1>7, <1>8, <1>9, <1>10, <1>11
----------------------------------------------------------------------------
(* The strengthening of SpeedIsTravel.  What the decoder has counted since *)
(* it was in step with the wheel is what it has seen the wheel turn.       *)

Adjacent == Signed(position - seen) \in {-1, 0, 1}

InStep == synced => encoder.pin_state = Pins(seen)

CountIsTravel ==
  travel.ready =>
    /\ synced
    /\ Unsigned(encoder.current_value - seen)
         = Unsigned(encoder.sampled_value - travel.from)

SampleIsTravel ==
  tick = "sampled" /\ travel.known =>
    Signed(encoder.sampled_value - status.encoder_position) = travel.edges

SampleHandled ==
  tick = "over" => status.encoder_position = encoder.sampled_value

TravelType ==
  travel \in [from : 0 .. Word - 1, edges : Int16, known : BOOLEAN,
              ready : BOOLEAN]

IInv ==
  /\ TypeOK
  /\ TravelType
  /\ Adjacent
  /\ InStep
  /\ CountIsTravel
  /\ SampleIsTravel
  /\ SampleHandled
  /\ SpeedIsTravel

(* Zero is zero.                                                           *)
LEMMA SignedZero == Signed(0) = 0
<1> DEFINE h == Word \div 2
<1>1. h \in Nat /\ h \in 0 .. Word - 1 /\ 0 + h = h
  BY HalfWord, WordType
<1>2. Unsigned(h) = h
  BY <1>1, UnsignedSmall
<1> HIDE DEF h
<1>3. Signed(0) = Unsigned(h) - h
  BY <1>1 DEF Signed, Unsigned, h
<1> QED BY <1>1, <1>2, <1>3

(* The encoder and the position agree at the start,                        *)
LEMMA TravelInit == Init => IInv
<1> SUFFICES ASSUME Init PROVE IInv
  OBVIOUS
<1>1. TypeOK
  BY TypeInit
<1>2. TravelType
  <2>1. position \in 0 .. Word - 1
    BY <1>1 DEF TypeOK
  <2> QED BY <2>1, Int16IsInt DEF Init, TravelType
<1>3. Adjacent
  <2>1. position - seen = 0
    BY DEF Init
  <2> QED BY <2>1, SignedZero DEF Adjacent
<1>4. InStep /\ CountIsTravel /\ SampleIsTravel /\ SampleHandled
      /\ SpeedIsTravel
  BY DEF Init, InStep, CountIsTravel, SampleIsTravel, SampleHandled,
         SpeedIsTravel
<1> QED BY <1>1, <1>2, <1>3, <1>4 DEF IInv

(* The wheel turns: it stays within reach of the decoder. *)
LEMMA TravelTurn ==
  ASSUME IInv, NEW d \in {1, -1}, Turn(d)
  PROVE  IInv'
<1>1. TypeOK'
  <2>1. [Next]_vars
    BY DEF Next
  <2> QED BY <2>1, TypeStep DEF IInv
<1>2. position \in Int /\ seen \in Int /\ d \in Int
  BY WordType DEF IInv, TypeOK
<1>3. position' = Unsigned(position + d) /\ seen' = seen
      /\ Signed(position + d - seen) \in {-1, 0, 1}
  BY DEF Turn
<1>4. Signed(Unsigned(position + d) - seen) = Signed(position + d - seen)
  <2>1. position + d \in Int /\ -seen \in Int
    BY <1>2
  <2>2. Unsigned(position + d) \in Int
    BY <2>1, UnsignedRange
  <2>3. Unsigned(Unsigned(position + d) + (-seen))
          = Unsigned((position + d) + (-seen))
    BY <2>1, UnsignedSum
  <2>4. /\ Unsigned(position + d) + (-seen) = Unsigned(position + d) - seen
        /\ (position + d) + (-seen) = position + d - seen
        /\ Unsigned(position + d) - seen \in Int
        /\ position + d - seen \in Int
    BY <1>2, <2>2
  <2> QED BY <2>3, <2>4, SignedSame
<1>5. Adjacent'
  BY <1>3, <1>4 DEF Adjacent
<1>6. UNCHANGED <<encoder, tick, status, seen, synced, travel>>
  BY DEF Turn
<1> QED BY <1>1, <1>5, <1>6 DEF IInv, TravelType, InStep, CountIsTravel,
                                SampleIsTravel, SampleHandled, SpeedIsTravel

(* The decoder catches up, and counts the edge it sees. *)
LEMMA TravelDecode ==
  ASSUME IInv, PCINT0_vect
  PROVE  IInv'
<1>1. TypeOK'
  <2>1. [Next]_vars
    BY DEF Next
  <2> QED BY <2>1, TypeStep DEF IInv
<1>2. position \in 0 .. Word - 1 /\ seen \in 0 .. Word - 1
  BY DEF IInv, TypeOK
<1>3. seen' = position /\ synced' = TRUE
      /\ UNCHANGED <<position, tick, status, travel>>
  BY DEF PCINT0_vect
<1> DEFINE idx == 4 * encoder.pin_state + Pins(position) + 1
           count == Unsigned(encoder.current_value + transition_table[idx])
<1>4. encoder' = [encoder EXCEPT !.current_value = count,
                                 !.pin_state = Pins(position)]
  BY DEF PCINT0_vect
<1>5. /\ encoder'.current_value = count
      /\ encoder'.pin_state = Pins(position)
      /\ encoder'.sampled_value = encoder.sampled_value
  <2> HIDE DEF count
  <2> QED BY <1>4 DEF IInv, TypeOK
<1>6. Adjacent'
  <2>1. position - position = 0
    BY <1>2, WordType
  <2> QED BY <1>3, <2>1, SignedZero DEF Adjacent
<1>7. InStep'
  BY <1>3, <1>5 DEF InStep
<1>8. ASSUME synced
      PROVE  Unsigned(count - position)
               = Unsigned(encoder.current_value - seen)
  <2> DEFINE d == Signed(position - seen)
             c == encoder.current_value
  <2>1. idx = 4 * Pins(seen) + Pins(position) + 1
    BY <1>8 DEF IInv, InStep
  <2>2. d \in {-1, 0, 1}
    BY DEF IInv, Adjacent
  <2>3. transition_table[idx] = d
    BY <1>2, <2>1, <2>2, TableStep
  <2>4. /\ c \in Int /\ position \in Int /\ seen \in Int /\ d \in Int
        /\ position - seen \in Int
    BY <1>2, <2>2, WordType DEF IInv, TypeOK
  <2>5. Unsigned(d) = Unsigned(position - seen)
    BY <2>4, SignedCongruent
  <2> HIDE DEF d, c
  <2>6. count = Unsigned(c + d)
    BY <2>3 DEF c
  <2>7. Unsigned(Unsigned(c + d) + (-position)) = Unsigned((c + d) + (-position))
    <3>1. c + d \in Int /\ -position \in Int
      BY <2>4
    <3> QED BY <3>1, UnsignedSum
  <2>8. Unsigned(d + (c - position)) = Unsigned((position - seen) + (c - position))
    <3>1. c - position \in Int
      BY <2>4
    <3> QED BY <2>4, <2>5, <3>1, Congruence
  <2>9. /\ (c + d) + (-position) = d + (c - position)
        /\ (position - seen) + (c - position) = c - seen
    BY <2>4
  <2>10. Unsigned(c + d) + (-position) = count - position
    <3>1. c + d \in Int
      BY <2>4
    <3>2. Unsigned(c + d) \in Int
      BY <3>1, UnsignedRange
    <3> HIDE DEF count
    <3> QED BY <2>4, <2>6, <3>2
  <2>11. Unsigned(count - position) = Unsigned(c - seen)
    BY <2>7, <2>8, <2>9, <2>10
  <2> QED BY <2>11 DEF c
<1>9. CountIsTravel'
  <2> HIDE DEF count
  <2> QED BY <1>3, <1>5, <1>8 DEF IInv, CountIsTravel
<1>10. SampleIsTravel' /\ SampleHandled' /\ SpeedIsTravel' /\ TravelType'
  BY <1>3, <1>5 DEF IInv, SampleIsTravel, SampleHandled, SpeedIsTravel,
                    TravelType
<1> QED BY <1>1, <1>6, <1>7, <1>9, <1>10 DEF IInv

(* The encoders are sampled. *)
LEMMA TravelSample ==
  ASSUME IInv, sample
  PROVE  IInv'
<1>1. TypeOK'
  <2>1. [Next]_vars
    BY DEF Next
  <2> QED BY <2>1, TypeStep DEF IInv
<1> DEFINE c == encoder.current_value
           v == encoder.sampled_value
           f == travel.from
<1>2. /\ c \in Int /\ v \in Int /\ f \in Int /\ seen \in Int
      /\ f \in 0 .. Word - 1 /\ seen \in 0 .. Word - 1
  BY WordType DEF IInv, TypeOK, TravelType
<1>3. /\ tick = "over" /\ tick' = "sampled"
      /\ encoder' = [encoder EXCEPT !.sampled_value = c]
      /\ travel' = [from |-> seen, edges |-> Signed(seen - f),
                    known |-> travel.ready, ready |-> synced]
      /\ UNCHANGED <<position, status, seen, synced>>
  BY DEF sample
<1>4. /\ encoder'.sampled_value = c /\ encoder'.current_value = c
      /\ encoder'.pin_state = encoder.pin_state
  BY <1>3 DEF IInv, TypeOK
<1>5. TravelType'
  <2>1. Signed(seen - f) \in Int16
    <3>1. seen - f \in Int BY <1>2
    <3> QED BY <3>1, SignedRange
  <2>2. synced \in BOOLEAN /\ travel.ready \in BOOLEAN
    BY DEF IInv, TypeOK, TravelType
  <2> HIDE DEF f
  <2> QED BY <1>2, <1>3, <2>1, <2>2 DEF TravelType
<1>6. ASSUME travel.ready PROVE Signed(c - v) = Signed(seen - f)
  <2>1. Unsigned(c - seen) = Unsigned(v - f)
    BY <1>6 DEF IInv, CountIsTravel
  <2> HIDE DEF c, v, f
  <2>2. c - seen \in Int /\ v - f \in Int /\ seen - v \in Int
    BY <1>2
  <2>3. Unsigned((c - seen) + (seen - v)) = Unsigned((v - f) + (seen - v))
    BY <2>1, <2>2, Congruence
  <2>4. /\ (c - seen) + (seen - v) = c - v
        /\ (v - f) + (seen - v) = seen - f
        /\ c - v \in Int /\ seen - f \in Int
    BY <1>2
  <2> QED BY <2>3, <2>4, SignedSame
<1>7. SampleIsTravel'
  <2>1. status.encoder_position = v
    BY <1>3 DEF IInv, SampleHandled
  <2>2. travel'.known = travel.ready /\ travel'.edges = Signed(seen - f)
    BY <1>3
  <2> QED BY <1>3, <1>4, <1>6, <2>1, <2>2 DEF SampleIsTravel
<1>8. CountIsTravel'
  BY <1>3, <1>4 DEF CountIsTravel
<1>9. SampleHandled' /\ SpeedIsTravel'
  BY <1>3 DEF SampleHandled, SpeedIsTravel
<1>10. Adjacent' /\ InStep'
  BY <1>3, <1>4 DEF IInv, Adjacent, InStep
<1> QED BY <1>1, <1>5, <1>7, <1>8, <1>9, <1>10 DEF IInv

(* The sample is used. *)
LEMMA TravelHandle ==
  ASSUME IInv, handle
  PROVE  IInv'
<1>1. TypeOK'
  <2>1. [Next]_vars
    BY DEF Next
  <2> QED BY <2>1, TypeStep DEF IInv
<1>2. /\ tick = "sampled" /\ tick' = "over"
      /\ status' = [encoder_position |-> encoder.sampled_value,
                    encoder_speed |-> Speed(encoder.sampled_value)]
      /\ UNCHANGED <<position, encoder, seen, synced, travel>>
  BY DEF handle
<1>3. SpeedIsTravel'
  BY <1>2 DEF IInv, SampleIsTravel, SpeedIsTravel, Speed
<1>4. SampleHandled' /\ SampleIsTravel'
  BY <1>2 DEF SampleHandled, SampleIsTravel
<1> QED BY <1>1, <1>2, <1>3, <1>4 DEF IInv, TravelType, Adjacent, InStep,
                                      CountIsTravel

(* and after every step.                                                   *)
LEMMA TravelStep == IInv /\ [Next]_vars => IInv'
<1> SUFFICES ASSUME IInv, [Next]_vars PROVE IInv'
  OBVIOUS
<1>1. ASSUME NEW d \in {1, -1}, Turn(d) PROVE IInv'
  BY <1>1, TravelTurn
<1>2. ASSUME setMode \/ setSpeed \/ copyParam \/ jointsDisable
      PROVE  IInv'
  <2>1. UNCHANGED <<position, encoder, tick, status, seen, synced, travel>>
    BY <1>2 DEF setMode, setSpeed, copyParam, jointsDisable
  <2>2. TypeOK'
    BY TypeStep DEF IInv
  <2> QED BY <2>1, <2>2 DEF IInv, TravelType, Adjacent, InStep,
                CountIsTravel, SampleIsTravel, SampleHandled, SpeedIsTravel
<1>3. CASE UNCHANGED vars
  <2>1. TypeOK'
    BY TypeStep DEF IInv
  <2> QED BY <1>3, <2>1 DEF vars, IInv, TravelType, Adjacent, InStep,
                CountIsTravel, SampleIsTravel, SampleHandled, SpeedIsTravel
<1> QED BY <1>1, <1>2, <1>3, TravelDecode, TravelSample, TravelHandle DEF Next

(* For every word size, every number of turns and every order of the two   *)
(* interrupts, the speed the controller works with is what the wheel has   *)
(* turned between its last two samples.                                    *)
THEOREM SpeedMeasured == Spec => []SpeedIsTravel
<1>1. IInv => SpeedIsTravel
  BY DEF IInv
<1> QED BY <1>1, TravelInit, TravelStep, PTL DEF Spec

----------------------------------------------------------------------------
(* Numbers that are small enough *)

(* Conversion to sixteen bits enlarges no number. *)
LEMMA SignedBound ==
  ASSUME NEW k \in Nat, NEW n \in -k .. k
  PROVE  Signed(n) \in -k .. k
<1> DEFINE h == Word \div 2
<1>1. h \in Nat
  BY HalfWord
<1>2. Int16 = -h .. h - 1
  BY DEF Int16
<1> HIDE DEF h
<1>3. CASE k < h
  <2>1. n \in Int16
    BY <1>1, <1>2, <1>3
  <2> QED BY <2>1, SignedSmall
<1>4. CASE k >= h
  <2>1. Signed(n) \in Int16
    BY SignedRange
  <2> QED BY <1>1, <1>2, <1>4, <2>1
<1> QED BY <1>1, <1>3, <1>4

(* A product is at most the product of the bounds. *)
LEMMA ProductBound ==
  ASSUME NEW a \in Int, NEW m \in Nat, NEW b \in -m .. m
  PROVE  /\ Abs(a) \in Nat /\ Abs(a) * m \in Nat /\ a * b \in Int
         /\ -(Abs(a) * m) <= a * b /\ a * b <= Abs(a) * m
<1>1. \A x, y, z \in Int :
        /\ x * y \in Int
        /\ x >= 0 /\ y <= z => x * y <= x * z
        /\ x <= 0 /\ y <= z => x * z <= x * y
        /\ x * (-y) = -(x * y) /\ (-x) * y = -(x * y)
        /\ x >= 0 /\ y >= 0 => x * y >= 0
  BY SMT
<1>2. b \in Int /\ -m \in Int /\ m \in Int /\ -m <= b /\ b <= m /\ m >= 0
  OBVIOUS
<1>3. CASE a >= 0
  <2>1. Abs(a) = a
    BY <1>3 DEF Abs
  <2>2. a * b <= a * m /\ a * (-m) <= a * b /\ a * (-m) = -(a * m)
        /\ a * m >= 0 /\ a * m \in Int /\ a * b \in Int
    BY <1>1, <1>2, <1>3
  <2> QED BY <1>3, <2>1, <2>2
<1>4. CASE a < 0
  <2>1. Abs(a) = -a /\ -a \in Nat
    BY <1>4 DEF Abs
  <2>2. a * m <= a * b /\ a * b <= a * (-m) /\ a * (-m) = -(a * m)
        /\ (-a) * m = -(a * m) /\ (-a) * m >= 0 /\ a * m \in Int
        /\ a * b \in Int
    BY <1>1, <1>2, <1>4, <2>1
  <2> QED BY <2>1, <2>2
<1> QED BY <1>3, <1>4

(* So is a quotient. *)
LEMMA QuotientBound ==
  ASSUME NEW k \in Nat, NEW n \in -k .. k
  PROVE  /\ Quotient(n) \in Int /\ k \div GainScale \in Nat
         /\ -(k \div GainScale) <= Quotient(n)
         /\ Quotient(n) <= k \div GainScale
<1>1. \A x, y \in Nat : x <= y => /\ x \div GainScale \in Nat
                                  /\ y \div GainScale \in Nat
                                  /\ x \div GainScale <= y \div GainScale
  <2> TAKE x, y \in Nat
  <2> HAVE x <= y
  <2> DEFINE p == x \div GainScale
             q == y \div GainScale
  <2>1. GainScale \in Nat /\ GainScale > 0
    BY JointConstants
  <2>2. p \in Int /\ q \in Int /\ p >= 0 /\ q >= 0
    BY <2>1, SMT
  <2>3. GainScale * p <= x /\ y < GainScale * (q + 1)
    BY <2>1, SMT
  <2>4. p <= q
    <3>1. \A u, v \in Int : u >= v => GainScale * u >= GainScale * v
      BY <2>1, SMT
    <3> HIDE DEF p, q
    <3>2. ASSUME p > q PROVE FALSE
      <4>1. p >= q + 1 /\ q + 1 \in Int
        BY <2>2, <3>2
      <4>2. GainScale * p >= GainScale * (q + 1)
        BY <2>2, <3>1, <4>1
      <4>3. GainScale * p \in Int /\ GainScale * (q + 1) \in Int
        BY <2>1, <2>2, <4>1
      <4> QED BY <2>3, <4>2, <4>3
    <3> QED BY <2>2, <3>2
  <2> QED BY <2>2, <2>4
<1>2. CASE n < 0
  <2>1. -n \in Nat /\ -n <= k
    BY <1>2
  <2>2. (-n) \div GainScale \in Nat /\ k \div GainScale \in Nat
        /\ (-n) \div GainScale <= k \div GainScale
    BY <1>1, <2>1
  <2>3. Quotient(n) = -((-n) \div GainScale)
    BY <1>2 DEF Quotient
  <2> QED BY <2>2, <2>3
<1>3. CASE n >= 0
  <2>1. n \in Nat /\ n <= k
    BY <1>3
  <2>2. n \div GainScale \in Nat /\ k \div GainScale \in Nat
        /\ n \div GainScale <= k \div GainScale
    BY <1>1, <2>1
  <2>3. Quotient(n) = n \div GainScale
    BY <1>3 DEF Quotient
  <2> QED BY <2>2, <2>3
<1> QED BY <1>2, <1>3
----------------------------------------------------------------------------
(* The strengthening of NoOverflow.  IInv says nothing of an encoder that  *)
(* has not seen the wheel yet, and nothing of how far the wheel may turn   *)
(* between two samples.                                                    *)

(* The place x is at most an edge further from the last sample than the    *)
(* wheel may turn.                                                         *)
Near(x) == Signed(x - travel.from) \in -(MaxTurn + 1) .. MaxTurn + 1

(* Before the first edge, nothing has moved. *)
Untouched ==
  ~synced => /\ seen = travel.from
             /\ encoder.current_value = encoder.sampled_value

(* The first edge is counted against a phase that was never read: what is  *)
(* counted and what is seen differ by two edges at most.                   *)
CountNear ==
  \E e \in -2 .. 2 :
    Unsigned(encoder.current_value - seen)
      = Unsigned(encoder.sampled_value - travel.from + e)

SpeedNear ==
  tick = "sampled" =>
    Speed(encoder.sampled_value) \in -(MaxTurn + 3) .. MaxTurn + 3

(* The last error was within the slope of the parameters of its time. *)
ErrorLeft == \E p \in Mixtures : joint.previous_error \in -p.slope .. p.slope

Room ==
  /\ IInv
  /\ Near(position)
  /\ Near(seen)
  /\ Untouched
  /\ CountNear
  /\ SpeedNear
  /\ ErrorLeft

(* The types of all that the distances are made of. *)
LEMMA RoomType ==
  ASSUME IInv
  PROVE  /\ {position, seen, travel.from, encoder.current_value,
             encoder.sampled_value, status.encoder_position} \subseteq Int
         /\ MaxTurn \in Nat /\ tick \in {"over", "sampled"}
BY WordType, JointConstants DEF IInv, TypeOK, TravelType

(* At the start everything is zero. *)
LEMMA RoomInit == Init => Room
<1> SUFFICES ASSUME Init PROVE Room
  OBVIOUS
<1>1. IInv
  BY TravelInit
<1>2. MaxTurn \in Nat /\ position \in Int
  BY <1>1, RoomType
<1>3. /\ seen = position /\ travel.from = position
      /\ encoder.current_value = 0 /\ encoder.sampled_value = 0
      /\ tick = "over" /\ joint.previous_error = 0 /\ params \in Mixtures
  BY WholeParams DEF Init
<1>4. position - position = 0 /\ 0 - position + 0 = 0 - position
  BY <1>2
<1>5. Near(position) /\ Near(seen)
  <2>1. 0 \in -(MaxTurn + 1) .. MaxTurn + 1
    BY <1>2
  <2> QED BY <1>3, <1>4, <2>1, SignedZero DEF Near
<1>6. CountNear
  <2>1. Unsigned(encoder.current_value - seen)
          = Unsigned(encoder.sampled_value - travel.from + 0)
    BY <1>3, <1>4
  <2> QED BY <2>1 DEF CountNear
<1>7. ErrorLeft
  <2>1. params.slope \in Nat
    BY <1>1, ParamsType DEF IInv
  <2>2. 0 \in -params.slope .. params.slope
    BY <2>1
  <2> QED BY <1>3, <2>2 DEF ErrorLeft
<1>8. Untouched /\ SpeedNear
  BY <1>3 DEF Untouched, SpeedNear
<1> QED BY <1>1, <1>5, <1>6, <1>7, <1>8 DEF Room

(* The wheel turns no further than it may. *)
LEMMA RoomTurn ==
  ASSUME Room, NEW d \in {1, -1}, Turn(d)
  PROVE  Room'
<1>1. IInv'
  BY TravelTurn DEF Room
<1>2. /\ position \in Int /\ travel.from \in Int /\ MaxTurn \in Nat
      /\ d \in Int
  BY RoomType DEF Room
<1>3. /\ Signed(position + d - travel.from) \in -MaxTurn .. MaxTurn
      /\ position' = Unsigned(position + d)
      /\ UNCHANGED <<encoder, tick, joint, status, seen, synced, travel>>
  BY DEF Turn
<1>4. Near(position)'
  <2> DEFINE f == travel.from
  <2>1. position + d \in Int /\ -f \in Int /\ f \in Int
    BY <1>2
  <2>2. Unsigned(position + d) \in Int
    BY <2>1, UnsignedRange
  <2>3. Unsigned(Unsigned(position + d) + (-f))
          = Unsigned((position + d) + (-f))
    BY <2>1, UnsignedSum
  <2> HIDE DEF f
  <2>4. /\ Unsigned(position + d) + (-f) = Unsigned(position + d) - f
        /\ (position + d) + (-f) = position + d - f
        /\ Unsigned(position + d) - f \in Int
        /\ position + d - f \in Int
    BY <1>2, <2>1, <2>2
  <2>5. Signed(Unsigned(position + d) - f) = Signed(position + d - f)
    BY <2>3, <2>4, SignedSame
  <2>6. \A n \in -MaxTurn .. MaxTurn : n \in -(MaxTurn + 1) .. MaxTurn + 1
    BY <1>2
  <2> QED BY <1>3, <2>5, <2>6 DEF Near, f
<1>5. /\ Near(seen)' /\ Untouched' /\ CountNear' /\ SpeedNear' /\ ErrorLeft'
  BY <1>3 DEF Room, Near, Untouched, CountNear, SpeedNear, ErrorLeft, Speed
<1> QED BY <1>1, <1>4, <1>5 DEF Room

(* The decoder catches up.  Its first edge may be miscounted by two. *)
LEMMA RoomDecode ==
  ASSUME Room, PCINT0_vect
  PROVE  Room'
<1>1. IInv /\ IInv'
  BY TravelDecode DEF Room
<1>2. /\ position \in 0 .. Word - 1 /\ seen \in 0 .. Word - 1
      /\ encoder.pin_state \in 0 .. 3
  BY <1>1 DEF IInv, TypeOK
<1> DEFINE c == encoder.current_value
           v == encoder.sampled_value
           f == travel.from
           idx == 4 * encoder.pin_state + Pins(position) + 1
           t == transition_table[idx]
           count == Unsigned(c + t)
           d == Signed(position - seen)
<1>3. /\ seen' = position /\ synced' = TRUE
      /\ UNCHANGED <<position, tick, joint, status, travel>>
      /\ encoder' = [encoder EXCEPT !.current_value = count,
                                    !.pin_state = Pins(position)]
  BY DEF PCINT0_vect
<1>4. encoder'.current_value = count /\ encoder'.sampled_value = v
  <2> HIDE DEF count
  <2> QED BY <1>1, <1>3 DEF IInv, TypeOK
<1>5. /\ c \in Int /\ v \in Int /\ f \in Int /\ position \in Int
      /\ seen \in Int /\ position - seen \in Int
  BY <1>1, RoomType
<1>6. t \in {-1, 0, 1} /\ d \in {-1, 0, 1}
  <2>1. Pins(position) \in 0 .. 3
    BY <1>5 DEF Pins
  <2>2. idx \in 1 .. 16
    BY <1>2, <2>1
  <2>3. \A i \in 1 .. 16 : transition_table[i] \in {-1, 0, 1}
    BY DEF transition_table
  <2> HIDE DEF idx
  <2> QED BY <1>1, <2>2, <2>3 DEF IInv, Adjacent
<1>7. synced => t = d
  <2> HAVE synced
  <2>1. idx = 4 * Pins(seen) + Pins(position) + 1
    BY <1>1 DEF IInv, InStep
  <2> QED BY <1>2, <1>6, <2>1, TableStep
<1> HIDE DEF t
<1>8. Unsigned(d) = Unsigned(position - seen)
  BY <1>5, SignedCongruent
<1> HIDE DEF d
<1>9. t \in Int /\ d \in Int /\ c + t \in Int /\ t - d \in -2 .. 2
      /\ t - d \in Int
  BY <1>5, <1>6
(* What was counted, beside what was seen. *)
<1>10. Unsigned(count - position) = Unsigned(c - seen + (t - d))
  <2>1. Unsigned(c + t) \in Int
    BY <1>9, UnsignedRange
  <2>2. Unsigned(Unsigned(c + t) + (-position)) = Unsigned((c + t) + (-position))
    <3>1. -position \in Int
      BY <1>5
    <3> QED BY <1>9, <3>1, UnsignedSum
  <2>3. Unsigned(d + (c + t - position - d))
          = Unsigned((position - seen) + (c + t - position - d))
    <3> DEFINE e == c + t - position - d
    <3>1. e \in Int /\ position - seen \in Int /\ d \in Int
      BY <1>5, <1>9
    <3> HIDE DEF e
    <3>2. Unsigned(d + e) = Unsigned((position - seen) + e)
      BY <1>8, <3>1, Congruence, Zenon
    <3> QED BY <3>2 DEF e
  <2> HIDE DEF c
  <2>4. /\ (c + t) + (-position) = d + (c + t - position - d)
        /\ (position - seen) + (c + t - position - d) = c - seen + (t - d)
        /\ Unsigned(c + t) + (-position) = Unsigned(c + t) - position
    BY <1>5, <1>9, <2>1
  <2> QED BY <2>2, <2>3, <2>4
<1> HIDE DEF count
<1>11. CountNear'
  <2>1. CASE synced
    <3>1. PICK e \in -2 .. 2 : Unsigned(c - seen) = Unsigned(v - f + e)
      BY DEF Room, CountNear
    <3>2. t - d = 0 /\ c - seen + 0 = c - seen
      BY <1>5, <1>7, <1>9, <2>1
    <3>3. Unsigned(count - position) = Unsigned(v - f + e)
      BY <1>10, <3>1, <3>2
    <3> QED BY <1>3, <1>4, <3>1, <3>3 DEF CountNear
  <2>2. CASE ~synced
    <3>1. seen = f /\ c = v
      BY <2>2 DEF Room, Untouched
    <3>2. Unsigned(count - position) = Unsigned(v - f + (t - d))
      BY <1>10, <3>1
    <3> QED BY <1>3, <1>4, <1>9, <3>2 DEF CountNear
  <2> QED BY <2>1, <2>2
<1>12. Near(position)' /\ Near(seen)' /\ Untouched' /\ ErrorLeft'
  BY <1>3 DEF Room, Near, Untouched, ErrorLeft
<1>13. SpeedNear'
  BY <1>3, <1>4 DEF Room, SpeedNear, Speed
<1> QED BY <1>1, <1>11, <1>12, <1>13 DEF Room

(* A sample tells of no more than the wheel may turn and the decoder may   *)
(* be wrong.                                                               *)
LEMMA RoomSample ==
  ASSUME Room, sample
  PROVE  Room'
<1>1. IInv /\ IInv'
  BY TravelSample DEF Room
<1> DEFINE c == encoder.current_value
           v == encoder.sampled_value
           f == travel.from
           far == MaxTurn + 3
<1>2. /\ c \in Int /\ v \in Int /\ f \in Int /\ position \in Int
      /\ seen \in Int /\ MaxTurn \in Nat
  BY <1>1, RoomType
<1>3. /\ tick = "over"
      /\ encoder' = [encoder EXCEPT !.sampled_value = c]
      /\ travel'.from = seen
      /\ UNCHANGED <<position, joint, status, seen, synced>>
  BY DEF sample
<1>4. /\ encoder'.sampled_value = c /\ encoder'.current_value = c
  BY <1>1, <1>3 DEF IInv, TypeOK
<1>5. \A n \in {-1, 0, 1} : n \in -(MaxTurn + 1) .. MaxTurn + 1
  BY <1>2
<1>6. seen - seen = 0 /\ c - seen + 0 = c - seen
  BY <1>2
<1>7. Near(position)'
  <2>1. Signed(position - seen) \in {-1, 0, 1}
    BY <1>1 DEF IInv, Adjacent
  <2> QED BY <1>3, <1>5, <2>1 DEF Near
<1>8. Near(seen)'
  <2>1. Signed(seen - seen) = 0
    BY <1>6, SignedZero
  <2> QED BY <1>3, <1>5, <2>1 DEF Near
<1>9. Untouched'
  BY <1>3, <1>4 DEF Untouched
<1>10. CountNear'
  <2>1. Unsigned(c - seen) = Unsigned(c - seen + 0)
    BY <1>6
  <2>2. 0 \in -2 .. 2
    OBVIOUS
  <2> QED BY <1>3, <1>4, <2>1, <2>2 DEF CountNear
<1>11. Signed(c - v) \in -far .. far
  <2> DEFINE s == Signed(seen - f)
  <2>1. PICK e \in -2 .. 2 : Unsigned(c - seen) = Unsigned(v - f + e)
    BY DEF Room, CountNear
  <2>2. s \in -(MaxTurn + 1) .. MaxTurn + 1
    BY DEF Room, Near
  <2>3. Unsigned(s) = Unsigned(seen - f)
    <3>1. seen - f \in Int
      BY <1>2
    <3> QED BY <3>1, SignedCongruent
  <2> HIDE DEF c, v, f, s, far
  <2>4. e \in Int /\ s \in Int /\ s + e \in Int
    BY <1>2, <2>2
  <2>5. Unsigned((c - seen) + (seen - v)) = Unsigned((v - f + e) + (seen - v))
    <3>1. c - seen \in Int /\ v - f + e \in Int /\ seen - v \in Int
      BY <1>2, <2>4
    <3> QED BY <2>1, <3>1, Congruence
  <2>6. Unsigned(s + e) = Unsigned((seen - f) + e)
    <3>1. seen - f \in Int
      BY <1>2
    <3> QED BY <2>3, <2>4, <3>1, Congruence
  <2>7. /\ (c - seen) + (seen - v) = c - v
        /\ (v - f + e) + (seen - v) = (seen - f) + e
        /\ c - v \in Int
    BY <1>2, <2>4
  <2>8. Signed(c - v) = Signed(s + e)
    BY <2>4, <2>5, <2>6, <2>7, SignedSame
  <2>9. far \in Nat /\ s + e \in -far .. far
    BY <1>2, <2>2, <2>4 DEF far
  <2> QED BY <2>8, <2>9, SignedBound
<1>12. SpeedNear'
  <2>1. status.encoder_position = v
    BY <1>1, <1>3 DEF IInv, SampleHandled
  <2>2. Speed(encoder.sampled_value)' = Signed(c - v)
    BY <1>3, <1>4, <2>1 DEF Speed
  <2> QED BY <1>11, <2>2 DEF SpeedNear
<1>13. ErrorLeft'
  BY <1>3 DEF Room, ErrorLeft
<1> QED BY <1>1, <1>7, <1>8, <1>9, <1>10, <1>12, <1>13 DEF Room

(* The controller leaves an error within the slope. *)
LEMMA RoomHandle ==
  ASSUME Room, handle
  PROVE  Room'
<1>1. IInv /\ IInv'
  BY TravelHandle DEF Room
<1>2. TypeOK
  BY <1>1 DEF IInv
<1>3. /\ tick' = "over"
      /\ UNCHANGED <<position, encoder, seen, synced, travel>>
  BY DEF handle
<1> DEFINE speed == Speed(encoder.sampled_value)
<1>4. Error(speed) \in -params.slope .. params.slope
  <2> DEFINE gap == clamp(control.speed, params.max_speed) - speed
  <2>1. clamp(control.speed, params.max_speed) \in Int /\ speed \in Int
    BY <1>2, ControlType, ParamsType, ClampRange, SpeedType, Int16IsInt
  <2>2. gap \in Int
    <3> HIDE DEF speed
    <3> QED BY <2>1
  <2> HIDE DEF gap
  <2>3. Signed(gap) \in Int16
    BY <2>2, SignedRange
  <2>4. clamp(Signed(gap), params.slope) \in -params.slope .. params.slope
    BY <1>2, <2>3, ParamsType, ClampRange
  <2> QED BY <2>4 DEF Error, gap
<1>5. joint'.previous_error \in {joint.previous_error, Error(speed)}
  <2>1. CASE control.mode = "JointPID"
    BY <2>1 DEF handle
  <2>2. CASE control.mode = "JointDisabled"
    BY <1>2, <2>2 DEF handle, TypeOK
  <2>3. CASE control.mode = "JointPWM"
    BY <1>2, <2>3 DEF handle, TypeOK
  <2>4. CASE control.mode = "Other"
    BY <2>4 DEF handle
  <2> QED BY <1>2, <2>1, <2>2, <2>3, <2>4, ControlType DEF Modes
<1>6. ErrorLeft'
  <2>1. params \in Mixtures
    BY <1>2 DEF TypeOK
  <2> HIDE DEF speed
  <2> QED BY <1>4, <1>5, <2>1 DEF Room, ErrorLeft
<1>7. Near(position)' /\ Near(seen)' /\ Untouched' /\ CountNear' /\ SpeedNear'
  BY <1>3 DEF Room, Near, Untouched, CountNear, SpeedNear
<1> QED BY <1>1, <1>6, <1>7 DEF Room

(* Every step keeps the distances. *)
LEMMA RoomStep == Room /\ [Next]_vars => Room'
<1> SUFFICES ASSUME Room, [Next]_vars PROVE Room'
  OBVIOUS
<1>1. ASSUME NEW d \in {1, -1}, Turn(d) PROVE Room'
  BY <1>1, RoomTurn
<1>2. IInv'
  BY TravelStep DEF Room
<1>3. ASSUME UNCHANGED <<position, encoder, tick, status, seen, synced,
                         travel>>,
             joint'.previous_error = joint.previous_error
      PROVE  Room'
  BY <1>2, <1>3 DEF Room, Near, Untouched, CountNear, SpeedNear, Speed,
                    ErrorLeft
<1>4. CASE setMode \/ setSpeed \/ copyParam
  BY <1>3, <1>4 DEF setMode, setSpeed, copyParam
<1>5. CASE jointsDisable
  <2>1. joint'.previous_error = joint.previous_error
    BY <1>5 DEF jointsDisable, Room, IInv, TypeOK
  <2> QED BY <1>3, <1>5, <2>1 DEF jointsDisable
<1>6. CASE UNCHANGED vars
  BY <1>3, <1>6 DEF vars
<1> QED BY <1>1, <1>4, <1>5, <1>6, RoomDecode, RoomSample, RoomHandle DEF Next

(* What the room is for: with gains that leave it, no step of the          *)
(* controller needs more than sixteen bits.                                *)
LEMMA RoomEnough ==
  ASSUME GainsLeaveRoom, Room
  PROVE  NoOverflow
<1> SUFFICES ASSUME tick = "sampled", control.mode = "JointPID"
             PROVE  LET speed == Speed(encoder.sampled_value)
                    IN /\ clamp(control.speed, params.max_speed) - speed \in Int16
                       /\ joint.error_integral + Error(speed) \in Int16
                       /\ GainSum(speed) \in Int16
                       /\ speed + Error(speed) + Quotient(GainSum(speed))
                            \in Int16
  BY DEF NoOverflow
<1> DEFINE p == params
           speed == Speed(encoder.sampled_value)
           most == Word \div 2 - 1
           fastest == MaxTurn + 3
           ref == clamp(control.speed, p.max_speed)
           e == Error(speed)
           i == Integral(speed)
<1>1. TypeOK
  BY DEF Room, IInv
<1>2. PICK q \in Mixtures : joint.error_integral \in -q.max_i .. q.max_i
  BY <1>1 DEF TypeOK
<1>3. PICK r \in Mixtures : joint.previous_error \in -r.slope .. r.slope
  BY DEF Room, ErrorLeft
<1> DEFINE d == Signed(e - joint.previous_error)
           gains == Abs(p.kp) * p.slope + Abs(p.ki) * p.max_i
                      + Abs(p.kd) * (p.slope + r.slope)
<1>4. /\ p.max_speed + fastest <= most
      /\ q.max_i + p.slope <= most
      /\ gains <= most
      /\ fastest + p.slope + gains \div GainScale <= most
  <2>1. p \in Mixtures
    BY <1>1 DEF TypeOK
  <2> QED BY <1>2, <1>3, <2>1 DEF GainsLeaveRoom
<1>5. /\ {p.max_speed, p.slope, p.max_i, q.max_i, r.slope, fastest}
           \subseteq Nat
      /\ {p.kp, p.ki, p.kd} \subseteq Int
  <2>1. {q.max_i, r.slope, fastest} \subseteq Nat
    BY <1>2, <1>3, MixtureType, JointConstants
  <2> QED BY <1>1, <2>1, ParamsType
<1>6. most \in Nat /\ \A n \in Int : -most <= n /\ n <= most => n \in Int16
  <2> DEFINE h == Word \div 2
  <2>1. h \in Nat /\ h > 1 /\ Int16 = -h .. h - 1
    BY HalfWord DEF Int16
  <2> HIDE DEF h
  <2>2. h - 1 \in Nat
        /\ \A n \in Int : -(h - 1) <= n /\ n <= h - 1 => n \in Int16
    BY <2>1
  <2> QED BY <2>2 DEF h
<1>7. speed \in -fastest .. fastest /\ speed \in Int16
  BY <1>1, SpeedType DEF Room, SpeedNear
<1>8. ref \in -p.max_speed .. p.max_speed
  BY <1>1, ControlType, ParamsType, ClampRange
<1>9. e \in -p.slope .. p.slope
  <2>1. ref \in Int /\ speed \in Int
    BY <1>5, <1>7, <1>8, Int16IsInt
  <2> HIDE DEF ref, speed
  <2>2. ref - speed \in Int
    BY <2>1
  <2>3. Signed(ref - speed) \in Int16
    BY <2>2, SignedRange
  <2>4. clamp(Signed(ref - speed), p.slope) \in -p.slope .. p.slope
    BY <1>5, <2>3, ClampRange
  <2> QED BY <2>4 DEF Error, ref
<1>10. i \in -p.max_i .. p.max_i
  BY <1>1, <1>7, IntegralType
<1>11. d \in -(p.slope + r.slope) .. p.slope + r.slope
  <2> HIDE DEF e
  <2>1. /\ p.slope + r.slope \in Nat
        /\ e - joint.previous_error
             \in -(p.slope + r.slope) .. p.slope + r.slope
    BY <1>3, <1>5, <1>9
  <2> QED BY <2>1, SignedBound
<1>12. /\ GainSum(speed) \in -gains .. gains
       /\ gains \in Nat
  <2> DEFINE s == p.slope + r.slope
             A == Abs(p.kp) * p.slope
             B == Abs(p.ki) * p.max_i
             C == Abs(p.kd) * s
  <2>1. s \in Nat
    BY <1>5
  <2>2. /\ A \in Nat /\ p.kp * e \in Int
        /\ -A <= p.kp * e /\ p.kp * e <= A
    BY <1>5, <1>9, ProductBound
  <2>3. /\ B \in Nat /\ p.ki * i \in Int
        /\ -B <= p.ki * i /\ p.ki * i <= B
    BY <1>5, <1>10, ProductBound
  <2> HIDE DEF d
  <2>4. /\ C \in Nat /\ p.kd * d \in Int
        /\ -C <= p.kd * d /\ p.kd * d <= C
    <3>1. p.kd \in Int /\ d \in -s .. s
      BY <1>5, <1>11
    <3> HIDE DEF s
    <3> QED BY <2>1, <3>1, ProductBound
  <2>5. gains = A + B + C
    OBVIOUS
  <2>6. GainSum(speed) = p.kp * e + p.ki * i + p.kd * d
    BY DEF GainSum, d
  <2> DEFINE x == p.kp * e
             y == p.ki * i
             z == p.kd * d
  <2>7. /\ x \in Int /\ y \in Int /\ z \in Int
        /\ -A <= x /\ x <= A /\ -B <= y /\ y <= B /\ -C <= z /\ z <= C
        /\ GainSum(speed) = x + y + z
    BY <2>2, <2>3, <2>4, <2>6
  <2> HIDE DEF A, B, C, x, y, z, gains, speed
  <2> QED BY <2>2, <2>3, <2>4, <2>5, <2>7
<1>13. /\ Quotient(GainSum(speed)) \in Int /\ gains \div GainScale \in Nat
       /\ -(gains \div GainScale) <= Quotient(GainSum(speed))
       /\ Quotient(GainSum(speed)) <= gains \div GainScale
  <2> HIDE DEF gains, speed
  <2> QED BY <1>12, QuotientBound
<1> DEFINE quotient == Quotient(GainSum(speed))
           share == gains \div GainScale
<1>14. quotient \in Int /\ share \in Nat /\ -share <= quotient
       /\ quotient <= share /\ fastest + p.slope + share <= most
  BY <1>4, <1>13
<1> HIDE DEF p, speed, most, fastest, ref, e, i, gains, quotient, share
<1>15. ref - speed \in Int16
  <2>1. /\ ref - speed \in Int
        /\ -most <= ref - speed /\ ref - speed <= most
    BY <1>4, <1>5, <1>6, <1>7, <1>8
  <2> QED BY <1>6, <2>1
<1>16. joint.error_integral + e \in Int16
  <2>1. /\ joint.error_integral + e \in Int
        /\ -most <= joint.error_integral + e
        /\ joint.error_integral + e <= most
    BY <1>2, <1>4, <1>5, <1>6, <1>9
  <2> QED BY <1>6, <2>1
<1>17. GainSum(speed) \in Int16
  <2>1. /\ GainSum(speed) \in Int
        /\ -most <= GainSum(speed) /\ GainSum(speed) <= most
    BY <1>4, <1>6, <1>12
  <2> QED BY <1>6, <2>1
<1>18. speed + e + quotient \in Int16
  <2>1. /\ speed + e + quotient \in Int
        /\ -most <= speed + e + quotient
        /\ speed + e + quotient <= most
    BY <1>5, <1>6, <1>7, <1>9, <1>14
  <2> QED BY <1>6, <2>1
<1> QED BY <1>15, <1>16, <1>17, <1>18 DEF p, speed, ref, e, quotient

(* With parameters whose gains leave room, nothing that the controller     *)
(* computes overflows: not with the integral and the error that other      *)
(* parameters have left, not with parameters that are half copied, and not *)
(* with the first sample of an encoder that had not seen the wheel.        *)
THEOREM NoOverflowAlways ==
  ASSUME GainsLeaveRoom
  PROVE  Spec => []NoOverflow
<1>1. Room => NoOverflow
  BY RoomEnough
<1> QED BY <1>1, RoomInit, RoomStep, PTL DEF Spec

----------------------------------------------------------------------------
(* HBridge *)

(* The pins of the bridge of each motor, whatever its type.                *)
Own == <<{2, 3, 12}, {4, 5, 11, 13}>>

Used(t, m) == {Wiring[t][m].first, Wiring[t][m].second}

Pwm(t, m) == IF t = "DualPWM" THEN Used(t, m) ELSE {Wiring[t][m].first}

PinSet == [enabled : BOOLEAN, duty : 0 .. 255, dir : {"Input", "Output"},
           value : {0, 1}]

(* What hBridgeInit may write for the bridge of motor m. *)
WritesOf(m) ==
  [do : {"duty"}, on : Own[m], arg : 0 .. 255]
    \cup [do : {"enabled"}, on : Own[m], arg : BOOLEAN]
    \cup [do : {"dir"}, on : Own[m], arg : {"Input", "Output"}]
    \cup [do : {"value"}, on : Own[m], arg : {0, 1}]
    \cup [do : {"ops"}, on : {m}, arg : Types]
    \cup [do : {"first", "second"}, on : {m}, arg : Own[m]]

Writes == WritesOf(1) \cup WritesOf(2)

(* The writes that change field f of n, a pin or a bridge, and those of    *)
(* them that leave it at v.                                                *)
Touch(f, n) ==
  {w \in Writes : w.on = n /\ (w.do = f \/ (w.do = "enabled" /\ f = "dir"))}

Leaves(f, n, v) ==
  {w \in Touch(f, n) :
     IF w.do = f THEN w.arg = v ELSE v = IF w.arg THEN "Output" ELSE "Input"}

(* No write of s is in A; the last one that is, is in G. *)
Silent(s, A) == \A i \in 1 .. Len(s) : s[i] \notin A

EndsIn(s, A, G) ==
  \E i \in 1 .. Len(s) :
    s[i] \in G /\ \A j \in 1 .. Len(s) : j > i => s[j] \notin A

(* What is still to be written leaves field f of pin p, of bridge m, at v. *)
PinDue(f, p, v) ==
  \/ EndsIn(todo, Touch(f, p), Leaves(f, p, v))
  \/ Silent(todo, Touch(f, p)) /\ pin[p][f] = v

BridgeDue(f, m, v) ==
  \/ EndsIn(todo, Touch(f, m), Leaves(f, m, v))
  \/ Silent(todo, Touch(f, m)) /\ bridge[m][f] = v

(* The same for the level of the second pin of a half-cycle bridge, which  *)
(* is written after its operations: from then on no tick touches it.       *)
ValueDue(m, p) ==
  LET A == Touch("value", p) \cup Touch("ops", m)
  IN \/ EndsIn(todo, A, Leaves("value", p, 1))
     \/ Silent(todo, A) /\ pin[p].value = 1

(* The bridge of motor m is, or is going to be, of type t. *)
BridgeBecomes(t, m) ==
  /\ BridgeDue("ops", m, t)
  /\ BridgeDue("first", m, Wiring[t][m].first)
  /\ BridgeDue("second", m, Wiring[t][m].second)

PinsBecome(t, m) ==
  /\ \A p \in Own[m] :
       /\ PinDue("dir", p, IF p \in Used(t, m) THEN "Output" ELSE "Input")
       /\ PinDue("enabled", p, p \in Pwm(t, m))
  /\ t = "HalfCyclePWM" => ValueDue(m, Wiring[t][m].second)

Becoming(t) == \A m \in Motors : BridgeBecomes(t, m) /\ PinsBecome(t, m)

(* Before the first hBridgeInit *)
Fresh ==
  /\ todo = <<>> /\ ~timer
  /\ \A m \in Motors : bridge[m].ops = "none"
  /\ \A p \in BridgePins : pin[p].dir = "Input" /\ pin[p].enabled = FALSE

Obeyed ==
  applied # <<>> =>
    /\ todo = <<>> /\ timer
    /\ \A m \in Motors : Norm(Drive(pin, bridge[m]) - Clamp(applied[m])) <= 1

BridgeTypes ==
  /\ BridgeTypeOK
  /\ \A m \in Motors : {bridge[m].first, bridge[m].second} \subseteq Own[m] \cup {0}
  /\ todo \in Seq(Writes)

BridgeInv ==
  /\ BridgeTypes
  /\ Fresh \/ \E t \in Types : Becoming(t)
  /\ Obeyed
----------------------------------------------------------------------------
(* The wiring *)

(* The bridges of the two motors share no pin. *)
LEMMA Wires ==
  /\ BridgePins = Own[1] \cup Own[2]
  /\ 0 \notin BridgePins
  /\ \A m, n \in Motors : m # n => Own[m] \cap Own[n] = {}
  /\ \A t \in Types, m \in Motors :
       /\ Wiring[t][m].first \in Own[m] /\ Wiring[t][m].second \in Own[m]
       /\ Wiring[t][m].first # Wiring[t][m].second
<1>1. \A t \in Types, m \in Motors :
       /\ Wiring[t][m].first \in Own[m] /\ Wiring[t][m].second \in Own[m]
       /\ Wiring[t][m].first # Wiring[t][m].second
  BY DEF Types, Motors, Wiring, Own
<1>2. Own[1] = {2, 3, 12} /\ Own[2] = {4, 5, 11, 13}
  BY DEF Own
<1>3. BridgePins = Own[1] \cup Own[2]
  <2>1. BridgePins \subseteq Own[1] \cup Own[2]
    <3> SUFFICES ASSUME NEW p \in BridgePins PROVE p \in Own[1] \cup Own[2]
      OBVIOUS
    <3>1. PICK t \in Types, m \in Motors : p \in {Wiring[t][m].first, Wiring[t][m].second}
      BY DEF BridgePins
    <3> QED BY <1>1, <3>1 DEF Motors
  <2>2. /\ 3 \in BridgePins /\ 12 \in BridgePins /\ 2 \in BridgePins
        /\ 11 \in BridgePins /\ 13 \in BridgePins /\ 5 \in BridgePins /\ 4 \in BridgePins
    <3>1. \A t \in Types, m \in Motors : Used(t, m) \subseteq BridgePins
      <4> TAKE t \in Types, m \in Motors
      <4>1. \A p \in Used(t, m) : p \in BridgePins
        <5> DEFINE S == {{Wiring[u][n].first, Wiring[u][n].second} :
                           u \in Types, n \in Motors}
        <5>1. Used(t, m) \in S /\ BridgePins = UNION S
          BY DEF Used, BridgePins
        <5> HIDE DEF S
        <5> QED BY <5>1
      <4> QED BY <4>1
    <3>2. /\ "PWMDir" \in Types /\ "DualPWM" \in Types /\ 1 \in Motors /\ 2 \in Motors
          /\ Used("PWMDir", 1) = {3, 12} /\ Used("PWMDir", 2) = {11, 13}
          /\ Used("DualPWM", 1) = {3, 2} /\ Used("DualPWM", 2) = {5, 4}
      BY DEF Types, Motors, Wiring, Used
    <3> QED BY <3>1, <3>2
  <2> QED BY <1>2, <2>1, <2>2
<1>4. \A m, n \in Motors : m # n => Own[m] \cap Own[n] = {}
  BY <1>2 DEF Motors
<1> QED BY <1>1, <1>2, <1>3, <1>4

(* A pin belongs to one motor. *)
LEMMA Owner ==
  /\ \A p \in BridgePins : \E m \in Motors : p \in Own[m]
  /\ \A m \in Motors : Own[m] \subseteq BridgePins
BY Wires DEF Motors

(* There are two motors. *)
LEMMA Others ==
  ASSUME NEW m \in Motors
  PROVE  \E n \in Motors : n # m /\ Motors = {m, n}
BY DEF Motors
----------------------------------------------------------------------------
(* Sequences of writes *)

(* Taking the first of a sequence of writes *)
LEMMA NextWrite ==
  ASSUME NEW S, NEW s \in Seq(S), s # <<>>
  PROVE  /\ Head(s) = s[1] /\ Head(s) \in S
         /\ Tail(s) \in Seq(S) /\ Len(Tail(s)) = Len(s) - 1 /\ Len(s) \in Nat \ {0}
         /\ \A i \in 1 .. Len(s) - 1 : Tail(s)[i] = s[i + 1]
OBVIOUS

(* Making the first write, or not having touched anything. *)
LEMMA DueStep ==
  ASSUME NEW S, NEW s \in Seq(S), s # <<>>, NEW A, NEW G
  PROVE  /\ EndsIn(s, A, G) =>
              EndsIn(Tail(s), A, G) \/ (Head(s) \in G /\ Silent(Tail(s), A))
         /\ Silent(s, A) => Head(s) \notin A /\ Silent(Tail(s), A)
<1> DEFINE l == Len(s)
           u == Tail(s)
<1>1. /\ Head(s) = s[1] /\ Len(u) = l - 1 /\ l \in Nat \ {0}
      /\ \A i \in 1 .. l - 1 : u[i] = s[i + 1]
  BY NextWrite
<1> HIDE DEF l, u
<1>2. ASSUME EndsIn(s, A, G)
      PROVE  EndsIn(u, A, G) \/ (Head(s) \in G /\ Silent(u, A))
  <2>1. PICK i \in 1 .. l : s[i] \in G /\ \A j \in 1 .. l : j > i => s[j] \notin A
    BY <1>2 DEF EndsIn, l
  <2>2. CASE i = 1
    <3>1. \A j \in 1 .. l - 1 : u[j] \notin A
      BY <1>1, <2>1, <2>2
    <3> QED BY <1>1, <2>1, <2>2, <3>1 DEF Silent
  <2>3. CASE i # 1
    <3>1. i - 1 \in 1 .. l - 1 /\ u[i - 1] = s[i]
      BY <1>1, <2>3
    <3>2. \A j \in 1 .. l - 1 : j > i - 1 => u[j] \notin A
      BY <1>1, <2>1
    <3> QED BY <1>1, <2>1, <3>1, <3>2 DEF EndsIn
  <2> QED BY <2>2, <2>3
<1>3. ASSUME Silent(s, A)
      PROVE  Head(s) \notin A /\ Silent(u, A)
  <2>1. \A i \in 1 .. l : s[i] \notin A
    BY <1>3 DEF Silent, l
  <2>2. \A j \in 1 .. l - 1 : u[j] \notin A
    BY <1>1, <2>1
  <2> QED BY <1>1, <2>1, <2>2 DEF Silent
<1> QED BY <1>2, <1>3 DEF u

(* What a sequence of writes ends in, when another follows *)
LEMMA Joined ==
  ASSUME NEW S, NEW s \in Seq(S), NEW u \in Seq(S), NEW A, NEW G
  PROVE  /\ s \o u \in Seq(S)
         /\ EndsIn(u, A, G) => EndsIn(s \o u, A, G)
         /\ EndsIn(s, A, G) /\ Silent(u, A) => EndsIn(s \o u, A, G)
         /\ Silent(s, A) /\ Silent(u, A) => Silent(s \o u, A)
<1> DEFINE l == Len(s)
           k == Len(u)
           c == s \o u
<1>1. /\ c \in Seq(S) /\ l \in Nat /\ k \in Nat /\ Len(c) = l + k
      /\ \A i \in 1 .. l : c[i] = s[i]
      /\ \A i \in 1 .. k : c[l + i] = u[i]
  OBVIOUS
<1> HIDE DEF l, k, c
<1>2. \A j \in 1 .. l + k : j > l => j - l \in 1 .. k /\ c[j] = u[j - l]
  <2> TAKE j \in 1 .. l + k
  <2> HAVE j > l
  <2>1. j - l \in 1 .. k /\ l + (j - l) = j
    BY <1>1
  <2>2. c[l + (j - l)] = u[j - l]
    BY <1>1, <2>1, Zenon
  <2> QED BY <2>1, <2>2
<1>3. ASSUME EndsIn(u, A, G) PROVE EndsIn(c, A, G)
  <2>1. PICK i \in 1 .. k : u[i] \in G /\ \A j \in 1 .. k : j > i => u[j] \notin A
    BY <1>3 DEF EndsIn, k
  <2>2. l + i \in 1 .. l + k /\ c[l + i] \in G
    BY <1>1, <2>1
  <2>3. \A j \in 1 .. l + k : j > l + i => c[j] \notin A
    <3> TAKE j \in 1 .. l + k
    <3> HAVE j > l + i
    <3>1. j > l /\ j - l > i
      BY <1>1, <2>1
    <3> QED BY <1>2, <2>1, <3>1
  <2> QED BY <1>1, <2>2, <2>3 DEF EndsIn
<1>4. ASSUME EndsIn(s, A, G), Silent(u, A) PROVE EndsIn(c, A, G)
  <2>1. PICK i \in 1 .. l : s[i] \in G /\ \A j \in 1 .. l : j > i => s[j] \notin A
    BY <1>4 DEF EndsIn, l
  <2>2. i \in 1 .. l + k /\ c[i] \in G
    BY <1>1, <2>1
  <2>3. \A j \in 1 .. k : u[j] \notin A
    BY <1>4 DEF Silent, k
  <2>4. \A j \in 1 .. l + k : j > i => c[j] \notin A
    <3> TAKE j \in 1 .. l + k
    <3> HAVE j > i
    <3>1. CASE j > l
      BY <1>2, <2>3, <3>1
    <3>2. CASE ~(j > l)
      <4>1. j \in 1 .. l
        BY <1>1, <3>2
      <4> QED BY <1>1, <2>1, <4>1
    <3> QED BY <3>1, <3>2
  <2> QED BY <1>1, <2>2, <2>4 DEF EndsIn
<1>5. ASSUME Silent(s, A), Silent(u, A) PROVE Silent(c, A)
  <2>1. (\A j \in 1 .. l : s[j] \notin A) /\ (\A j \in 1 .. k : u[j] \notin A)
    BY <1>5 DEF Silent, k, l
  <2>2. \A j \in 1 .. l + k : c[j] \notin A
    <3> TAKE j \in 1 .. l + k
    <3>1. CASE j > l
      BY <1>2, <2>1, <3>1
    <3>2. CASE ~(j > l)
      <4>1. j \in 1 .. l
        BY <1>1, <3>2
      <4> QED BY <1>1, <2>1, <4>1
    <3> QED BY <3>1, <3>2
  <2> QED BY <1>1, <2>2 DEF Silent
<1> QED BY <1>1, <1>3, <1>4, <1>5 DEF c

(* Sequences of up to four writes *)
LEMMA FourIn ==
  ASSUME NEW S, NEW a \in S, NEW b \in S, NEW c \in S, NEW d \in S
  PROVE  <<a, b, c, d>> \in Seq(S)
OBVIOUS

(* Short sequences: the last write that touches decides. *)
LEMMA Four ==
  ASSUME NEW a, NEW b, NEW c, NEW d, NEW A, NEW G,
         NEW s, s = <<a, b, c, d>>
  PROVE  /\ d \in G => EndsIn(s, A, G)
         /\ c \in G /\ d \notin A => EndsIn(s, A, G)
         /\ b \in G /\ c \notin A /\ d \notin A => EndsIn(s, A, G)
         /\ a \in G /\ b \notin A /\ c \notin A /\ d \notin A => EndsIn(s, A, G)
         /\ a \notin A /\ b \notin A /\ c \notin A /\ d \notin A => Silent(s, A)
<1>1. Len(s) = 4 /\ s[1] = a /\ s[2] = b /\ s[3] = c /\ s[4] = d
  OBVIOUS
<1>2. \A i \in 1 .. 4 : i = 1 \/ i = 2 \/ i = 3 \/ i = 4
  OBVIOUS
<1>3. d \in G => EndsIn(s, A, G)
  BY <1>1 DEF EndsIn
<1>4. c \in G /\ d \notin A => EndsIn(s, A, G)
  BY <1>1, <1>2 DEF EndsIn
<1>5. b \in G /\ c \notin A /\ d \notin A => EndsIn(s, A, G)
  BY <1>1, <1>2 DEF EndsIn
<1>6. a \in G /\ b \notin A /\ c \notin A /\ d \notin A => EndsIn(s, A, G)
  BY <1>1, <1>2 DEF EndsIn
<1>7. a \notin A /\ b \notin A /\ c \notin A /\ d \notin A => Silent(s, A)
  BY <1>1, <1>2 DEF Silent
<1> QED BY <1>3, <1>4, <1>5, <1>6, <1>7

(* The same for three writes *)
LEMMA ThreeIn ==
  ASSUME NEW S, NEW a \in S, NEW b \in S, NEW c \in S
  PROVE  <<a, b, c>> \in Seq(S)
OBVIOUS

(* The last of three decides. *)
LEMMA Three ==
  ASSUME NEW a, NEW b, NEW c, NEW A, NEW G,
         NEW s, s = <<a, b, c>>
  PROVE  /\ c \in G => EndsIn(s, A, G)
         /\ b \in G /\ c \notin A => EndsIn(s, A, G)
         /\ a \in G /\ b \notin A /\ c \notin A => EndsIn(s, A, G)
         /\ a \notin A /\ b \notin A /\ c \notin A => Silent(s, A)
<1>1. Len(s) = 3 /\ s[1] = a /\ s[2] = b /\ s[3] = c
  OBVIOUS
<1>2. \A i \in 1 .. 3 : i = 1 \/ i = 2 \/ i = 3
  OBVIOUS
<1>3. c \in G => EndsIn(s, A, G)
  BY <1>1 DEF EndsIn
<1>4. b \in G /\ c \notin A => EndsIn(s, A, G)
  BY <1>1, <1>2 DEF EndsIn
<1>5. a \in G /\ b \notin A /\ c \notin A => EndsIn(s, A, G)
  BY <1>1, <1>2 DEF EndsIn
<1>6. a \notin A /\ b \notin A /\ c \notin A => Silent(s, A)
  BY <1>1, <1>2 DEF Silent
<1> QED BY <1>3, <1>4, <1>5, <1>6

(* The same for two writes *)
LEMMA TwoIn ==
  ASSUME NEW S, NEW a \in S, NEW b \in S
  PROVE  <<a, b>> \in Seq(S)
OBVIOUS

(* The last of two decides. *)
LEMMA Two ==
  ASSUME NEW a, NEW b, NEW A, NEW G,
         NEW s, s = <<a, b>>
  PROVE  /\ b \in G => EndsIn(s, A, G)
         /\ a \in G /\ b \notin A => EndsIn(s, A, G)
         /\ a \notin A /\ b \notin A => Silent(s, A)
<1>1. Len(s) = 2 /\ s[1] = a /\ s[2] = b
  OBVIOUS
<1>2. \A i \in 1 .. 2 : i = 1 \/ i = 2
  OBVIOUS
<1>3. b \in G => EndsIn(s, A, G)
  BY <1>1 DEF EndsIn
<1>4. a \in G /\ b \notin A => EndsIn(s, A, G)
  BY <1>1, <1>2 DEF EndsIn
<1>5. a \notin A /\ b \notin A => Silent(s, A)
  BY <1>1, <1>2 DEF Silent
<1> QED BY <1>3, <1>4, <1>5

(* Each of their positions, on its own. *)
LEMMA FirstOfFour ==
  ASSUME NEW a, NEW b, NEW c, NEW d, NEW A, NEW G,
         a \in G, b \notin A, c \notin A, d \notin A
  PROVE  EndsIn(<<a, b, c, d>>, A, G)
BY Four

(* The second of four decides. *)
LEMMA SecondOfFour ==
  ASSUME NEW a, NEW b, NEW c, NEW d, NEW A, NEW G,
         b \in G, c \notin A, d \notin A
  PROVE  EndsIn(<<a, b, c, d>>, A, G)
BY Four

(* The third of four decides. *)
LEMMA ThirdOfFour ==
  ASSUME NEW a, NEW b, NEW c, NEW d, NEW A, NEW G,
         c \in G, d \notin A
  PROVE  EndsIn(<<a, b, c, d>>, A, G)
BY Four

(* The last of four decides. *)
LEMMA FourthOfFour ==
  ASSUME NEW a, NEW b, NEW c, NEW d, NEW A, NEW G,
         d \in G
  PROVE  EndsIn(<<a, b, c, d>>, A, G)
BY Four

(* None of four touches. *)
LEMMA NoneOfFour ==
  ASSUME NEW a, NEW b, NEW c, NEW d, NEW A,
         a \notin A, b \notin A, c \notin A, d \notin A
  PROVE  Silent(<<a, b, c, d>>, A)
BY Four

(* The first of three decides. *)
LEMMA FirstOfThree ==
  ASSUME NEW a, NEW b, NEW c, NEW A, NEW G,
         a \in G, b \notin A, c \notin A
  PROVE  EndsIn(<<a, b, c>>, A, G)
BY Three

(* The second of three decides. *)
LEMMA SecondOfThree ==
  ASSUME NEW a, NEW b, NEW c, NEW A, NEW G,
         b \in G, c \notin A
  PROVE  EndsIn(<<a, b, c>>, A, G)
BY Three

(* The third of three decides. *)
LEMMA ThirdOfThree ==
  ASSUME NEW a, NEW b, NEW c, NEW A, NEW G,
         c \in G
  PROVE  EndsIn(<<a, b, c>>, A, G)
BY Three

(* None of three touches. *)
LEMMA NoneOfThree ==
  ASSUME NEW a, NEW b, NEW c, NEW A,
         a \notin A, b \notin A, c \notin A
  PROVE  Silent(<<a, b, c>>, A)
BY Three

(* The first of two decides. *)
LEMMA FirstOfTwo ==
  ASSUME NEW a, NEW b, NEW A, NEW G,
         a \in G, b \notin A
  PROVE  EndsIn(<<a, b>>, A, G)
BY Two

(* The second of two decides. *)
LEMMA SecondOfTwo ==
  ASSUME NEW a, NEW b, NEW A, NEW G,
         b \in G
  PROVE  EndsIn(<<a, b>>, A, G)
BY Two

(* None of two touches. *)
LEMMA NoneOfTwo ==
  ASSUME NEW a, NEW b, NEW A,
         a \notin A, b \notin A
  PROVE  Silent(<<a, b>>, A)
BY Two

----------------------------------------------------------------------------
(* The writes of hBridgeInit *)

(* The writes that the init and fini functions consist of *)
LEMMA WritesOfOne ==
  ASSUME NEW m \in Motors, NEW p \in Own[m]
  PROVE  /\ \A e \in BOOLEAN : Enable(p, e) \in WritesOf(m)
         /\ \A d \in {"Input", "Output"} : Direction(p, d) \in WritesOf(m)
         /\ \A v \in {0, 1} : Value(p, v) \in WritesOf(m)
         /\ Duty(p, 0) \in WritesOf(m)
         /\ \A t \in Types : Put("ops", m, t) \in WritesOf(m)
         /\ Put("first", m, p) \in WritesOf(m) /\ Put("second", m, p) \in WritesOf(m)
<1>1. 0 % 256 = 0 /\ 0 \in 0 .. 255
  OBVIOUS
<1> QED BY <1>1 DEF WritesOf, Enable, Direction, Value, Duty, Put

(* What is written for a motor is a write. *)
LEMMA WritesAll ==
  ASSUME NEW m \in Motors
  PROVE  WritesOf(m) \subseteq Writes
BY DEF Writes, Motors

(* What touches the fields of a pin *)
LEMMA Touching ==
  ASSUME NEW p \in BridgePins, NEW q \in BridgePins
  PROVE  /\ \A e \in BOOLEAN :
              /\ p # q => Enable(p, e) \notin Touch("dir", q)
              /\ p # q => Enable(p, e) \notin Touch("enabled", q)
              /\ Enable(p, e) \notin Touch("value", q)
              /\ Enable(p, e) \in Leaves("enabled", p, e)
         /\ Enable(p, TRUE) \in Leaves("dir", p, "Output")
         /\ Enable(p, FALSE) \in Leaves("dir", p, "Input")
         /\ \A d \in {"Input", "Output"} :
              /\ p # q => Direction(p, d) \notin Touch("dir", q)
              /\ Direction(p, d) \notin Touch("enabled", q)
              /\ Direction(p, d) \notin Touch("value", q)
              /\ Direction(p, d) \in Leaves("dir", p, d)
         /\ \A v \in {0, 1} :
              /\ Value(p, v) \notin Touch("dir", q)
              /\ Value(p, v) \notin Touch("enabled", q)
              /\ Value(p, v) \in Leaves("value", p, v)
         /\ \A f \in {"dir", "enabled", "value"} : Duty(p, 0) \notin Touch(f, q)
<1>1. PICK m \in Motors : p \in Own[m]
  BY Owner
<1>2. ASSUME NEW e \in BOOLEAN
      PROVE  /\ p # q => Enable(p, e) \notin Touch("dir", q)
             /\ p # q => Enable(p, e) \notin Touch("enabled", q)
             /\ Enable(p, e) \notin Touch("value", q)
             /\ Enable(p, e) \in Leaves("enabled", p, e)
  <2>1. Enable(p, e) \in Writes
    BY <1>1, WritesOfOne, WritesAll
  <2> QED BY <2>1 DEF Enable, Put, Touch, Leaves
<1>3. Enable(p, TRUE) \in Leaves("dir", p, "Output")
  <2>1. Enable(p, TRUE) \in Writes
    BY <1>1, WritesOfOne, WritesAll
  <2> QED BY <2>1 DEF Enable, Put, Touch, Leaves
<1>4. Enable(p, FALSE) \in Leaves("dir", p, "Input")
  <2>1. Enable(p, FALSE) \in Writes
    BY <1>1, WritesOfOne, WritesAll
  <2> QED BY <2>1 DEF Enable, Put, Touch, Leaves
<1>5. ASSUME NEW d \in {"Input", "Output"}
      PROVE  /\ p # q => Direction(p, d) \notin Touch("dir", q)
             /\ Direction(p, d) \notin Touch("enabled", q)
             /\ Direction(p, d) \notin Touch("value", q)
             /\ Direction(p, d) \in Leaves("dir", p, d)
  <2>1. Direction(p, d) \in Writes
    BY <1>1, WritesOfOne, WritesAll
  <2> QED BY <2>1 DEF Direction, Put, Touch, Leaves
<1>6. ASSUME NEW v \in {0, 1}
      PROVE  /\ Value(p, v) \notin Touch("dir", q)
             /\ Value(p, v) \notin Touch("enabled", q)
             /\ Value(p, v) \in Leaves("value", p, v)
  <2>1. Value(p, v) \in Writes
    BY <1>1, WritesOfOne, WritesAll
  <2> QED BY <2>1 DEF Value, Put, Touch, Leaves
<1>7. \A f \in {"dir", "enabled", "value"} : Duty(p, 0) \notin Touch(f, q)
  BY DEF Duty, Put, Touch
<1> QED BY <1>2, <1>3, <1>4, <1>5, <1>6, <1>7

(* Pins and bridges are told apart by the names of their fields. *)
LEMMA PinWritesApart ==
  ASSUME NEW p, NEW n, NEW f \in {"ops", "first", "second"}
  PROVE  /\ \A e : Enable(p, e) \notin Touch(f, n)
         /\ \A d : Direction(p, d) \notin Touch(f, n)
         /\ \A v : Value(p, v) \notin Touch(f, n)
         /\ \A v : Duty(p, v) \notin Touch(f, n)
BY DEF Enable, Direction, Value, Duty, Put, Touch

(* A write to a field of a bridge touches no other field and no pin. *)
LEMMA BridgeWritesApart ==
  ASSUME NEW m, NEW v, NEW f \in {"ops", "first", "second"}, NEW n,
         NEW g \in {"dir", "enabled", "value", "ops", "first", "second"}, g # f
  PROVE  Put(f, m, v) \notin Touch(g, n)
BY DEF Put, Touch

(* What is written for one motor does not touch the other's. *)
LEMMA OtherMotor ==
  ASSUME NEW m \in Motors, NEW n \in Motors, m # n, NEW s \in Seq(WritesOf(n))
  PROVE  /\ \A p \in Own[m], f \in {"dir", "enabled", "value"} : Silent(s, Touch(f, p))
         /\ \A f \in {"ops", "first", "second"} : Silent(s, Touch(f, m))
<1>1. \A w \in WritesOf(n) :
        /\ \A p \in Own[m], f \in {"dir", "enabled", "value"} : w \notin Touch(f, p)
        /\ \A f \in {"ops", "first", "second"} : w \notin Touch(f, m)
  <2> TAKE w \in WritesOf(n)
  <2>1. \/ w.do \in {"duty", "enabled", "dir", "value"} /\ w.on \in Own[n]
        \/ w.do \in {"ops", "first", "second"} /\ w.on = n
    <3>1. CASE w \in [do : {"duty"}, on : Own[n], arg : 0 .. 255]
      BY <3>1
    <3>2. CASE w \in [do : {"enabled"}, on : Own[n], arg : BOOLEAN]
      BY <3>2
    <3>3. CASE w \in [do : {"dir"}, on : Own[n], arg : {"Input", "Output"}]
      BY <3>3
    <3>4. CASE w \in [do : {"value"}, on : Own[n], arg : {0, 1}]
      BY <3>4
    <3>5. CASE w \in [do : {"ops"}, on : {n}, arg : Types]
      BY <3>5
    <3>6. CASE w \in [do : {"first", "second"}, on : {n}, arg : Own[n]]
      BY <3>6
    <3> QED BY <3>1, <3>2, <3>3, <3>4, <3>5, <3>6, Zenon DEF WritesOf
  <2>2. \A p \in Own[m] : p \notin Own[n]
    BY Wires
  <2>3. ASSUME NEW p \in Own[m], NEW f \in {"dir", "enabled", "value"}, w \in Touch(f, p)
        PROVE  FALSE
    BY <2>1, <2>2, <2>3 DEF Touch
  <2>4. ASSUME NEW f \in {"ops", "first", "second"}, w \in Touch(f, m)
        PROVE  FALSE
    BY <2>1, <2>4 DEF Touch
  <2> QED BY <2>3, <2>4
<1>2. \A i \in 1 .. Len(s) : s[i] \in WritesOf(n)
  OBVIOUS
<1> QED BY <1>1, <1>2 DEF Silent

(* The four kinds of writes to the pins f and s of one bridge. *)
LEMMA BlockWrites ==
  ASSUME NEW m \in Motors, NEW f \in Own[m], NEW s \in Own[m], f # s,
         NEW e \in BOOLEAN, NEW d, d = IF e THEN "Output" ELSE "Input",
         NEW v \in {0, 1}
  PROVE  /\ \A q \in {f, s} :
              /\ Enable(q, e) \in WritesOf(m) /\ Duty(q, 0) \in WritesOf(m)
              /\ Direction(q, d) \in WritesOf(m) /\ Value(q, v) \in WritesOf(m)
              /\ Enable(q, e) \in Leaves("dir", q, d)
              /\ Enable(q, e) \in Leaves("enabled", q, e)
              /\ Direction(q, d) \in Leaves("dir", q, d)
              /\ Value(q, v) \in Leaves("value", q, v)
         /\ \A q \in {f, s}, p \in Own[m] :
              /\ p # q => /\ Enable(q, e) \notin Touch("dir", p)
                         /\ Enable(q, e) \notin Touch("enabled", p)
                         /\ Direction(q, d) \notin Touch("dir", p)
              /\ Enable(q, e) \notin Touch("value", p)
              /\ Direction(q, d) \notin Touch("enabled", p)
              /\ Direction(q, d) \notin Touch("value", p)
              /\ Value(q, v) \notin Touch("dir", p)
              /\ Value(q, v) \notin Touch("enabled", p)
              /\ Duty(q, 0) \notin Touch("dir", p)
              /\ Duty(q, 0) \notin Touch("enabled", p)
              /\ Duty(q, 0) \notin Touch("value", p)
<1>1. /\ \A p \in Own[m] : p \in BridgePins
      /\ d \in {"Input", "Output"}
      /\ e = TRUE \/ e = FALSE
  BY Owner
<1>2. ASSUME NEW q \in {f, s}
      PROVE  /\ Enable(q, e) \in WritesOf(m) /\ Duty(q, 0) \in WritesOf(m)
             /\ Direction(q, d) \in WritesOf(m) /\ Value(q, v) \in WritesOf(m)
             /\ Enable(q, e) \in Leaves("dir", q, d)
             /\ Enable(q, e) \in Leaves("enabled", q, e)
             /\ Direction(q, d) \in Leaves("dir", q, d)
             /\ Value(q, v) \in Leaves("value", q, v)
  <2>1. q \in Own[m] /\ q \in BridgePins
    BY <1>1
  <2>2. Enable(q, e) \in Leaves("dir", q, d)
    BY <1>1, <2>1, Touching
  <2> QED BY <1>1, <2>1, <2>2, Touching, WritesOfOne, Zenon
<1>3. ASSUME NEW q \in {f, s}, NEW p \in Own[m]
      PROVE  /\ p # q => /\ Enable(q, e) \notin Touch("dir", p)
                         /\ Enable(q, e) \notin Touch("enabled", p)
                         /\ Direction(q, d) \notin Touch("dir", p)
             /\ Enable(q, e) \notin Touch("value", p)
             /\ Direction(q, d) \notin Touch("enabled", p)
             /\ Direction(q, d) \notin Touch("value", p)
             /\ Value(q, v) \notin Touch("dir", p)
             /\ Value(q, v) \notin Touch("enabled", p)
             /\ Duty(q, 0) \notin Touch("dir", p)
             /\ Duty(q, 0) \notin Touch("enabled", p)
             /\ Duty(q, 0) \notin Touch("value", p)
  <2>1. q \in BridgePins /\ p \in BridgePins
    BY <1>1
  <2> QED BY <1>1, <2>1, Touching
<1> QED BY <1>2, <1>3, Zenon

(* Giving up a bridge: its pins become inputs without PWM. *)
LEMMA FiniBlock ==
  ASSUME NEW m \in Motors, NEW b, b.ops \in Types, b.first \in Own[m],
         b.second \in Own[m], b.first # b.second
  PROVE  /\ Fini(b) \in Seq(WritesOf(m))
         /\ \A p \in Own[m] :
              /\ IF p \in {b.first, b.second}
                 THEN EndsIn(Fini(b), Touch("dir", p), Leaves("dir", p, "Input"))
                 ELSE Silent(Fini(b), Touch("dir", p))
              /\ IF p = b.first \/ (b.ops = "DualPWM" /\ p = b.second)
                 THEN EndsIn(Fini(b), Touch("enabled", p), Leaves("enabled", p, FALSE))
                 ELSE Silent(Fini(b), Touch("enabled", p))
<1> DEFINE f == b.first
           s == b.second
           x == Enable(f, FALSE)
           y == Enable(s, FALSE)
           z == Direction(s, "Input")
           u == Duty(f, 0)
           v == Value(s, 0)
           W == WritesOf(m)
           D(p) == Touch("dir", p)
           E(p) == Touch("enabled", p)
           D0(p) == Leaves("dir", p, "Input")
           E0(p) == Leaves("enabled", p, FALSE)
<1>1. FALSE \in BOOLEAN /\ "Input" = (IF FALSE THEN "Output" ELSE "Input") /\ 0 \in {0, 1}
      /\ f \in {f, s} /\ s \in {f, s} /\ f # s
      /\ "dir" \in {"dir", "enabled", "value"} /\ "enabled" \in {"dir", "enabled", "value"}
  OBVIOUS
<1>2. x \in W /\ y \in W /\ z \in W /\ u \in W /\ v \in W
  BY <1>1, BlockWrites, ZenonT(60)
<1>3. x \in D0(f) /\ x \in E0(f) /\ y \in D0(s) /\ y \in E0(s) /\ z \in D0(s)
  BY <1>1, BlockWrites, ZenonT(60)
<1>4. ASSUME NEW p \in Own[m]
      PROVE  /\ p # f => x \notin D(p) /\ x \notin E(p)
             /\ p # s => y \notin D(p) /\ y \notin E(p) /\ z \notin D(p)
             /\ z \notin E(p)
             /\ u \notin D(p) /\ u \notin E(p) /\ v \notin D(p) /\ v \notin E(p)
  <2>1. p # f => x \notin D(p) /\ x \notin E(p)
    BY <1>1, BlockWrites, ZenonT(60)
  <2>2. p # s => y \notin D(p) /\ y \notin E(p)
    BY <1>1, BlockWrites, ZenonT(60)
  <2>3. (p # s => z \notin D(p)) /\ z \notin E(p)
    BY <1>1, BlockWrites, ZenonT(60)
  <2>4. u \notin D(p)
    BY <1>1, BlockWrites, ZenonT(60)
  <2>5. u \notin E(p)
    BY <1>1, BlockWrites, ZenonT(60)
  <2>6. v \notin D(p) /\ v \notin E(p)
    BY <1>1, BlockWrites, ZenonT(60)
  <2> QED BY <2>1, <2>2, <2>3, <2>4, <2>5, <2>6
<1>5. /\ b.ops = "PWMDir" => Fini(b) = <<x, u, z, v>>
      /\ b.ops = "DualPWM" => Fini(b) = <<x, y>>
      /\ b.ops = "HalfCyclePWM" => Fini(b) = <<u, v, x, z>>
  BY DEF Fini, PWMDir_fini, DualPWM_fini, HalfPWM_fini
<1> HIDE DEF f, s, x, y, z, u, v, W, D, E, D0, E0
<1>6. ASSUME NEW p \in Own[m]
      PROVE  /\ Fini(b) \in Seq(W)
             /\ p = f => EndsIn(Fini(b), D(p), D0(p)) /\ EndsIn(Fini(b), E(p), E0(p))
             /\ p = s => EndsIn(Fini(b), D(p), D0(p))
             /\ p = s => IF b.ops = "DualPWM" THEN EndsIn(Fini(b), E(p), E0(p))
                         ELSE Silent(Fini(b), E(p))
             /\ p # f /\ p # s => Silent(Fini(b), D(p)) /\ Silent(Fini(b), E(p))
  <2>1. CASE b.ops = "PWMDir"
    <3>0. Fini(b) = <<x, u, z, v>>
      BY <1>5, <2>1
    <3>1. Fini(b) \in Seq(W)
      BY <1>2, <3>0, FourIn, Zenon
    <3>2. ASSUME p = f PROVE EndsIn(Fini(b), D(p), D0(p))
      <4>1. x \in D0(p) /\ u \notin D(p) /\ z \notin D(p) /\ v \notin D(p)
        BY <1>1, <1>3, <1>4, <3>2
      <4> QED BY <3>0, <4>1, FirstOfFour, Zenon
    <3>3. ASSUME p = f PROVE EndsIn(Fini(b), E(p), E0(p))
      <4>1. x \in E0(p) /\ u \notin E(p) /\ z \notin E(p) /\ v \notin E(p)
        BY <1>1, <1>3, <1>4, <3>3
      <4> QED BY <3>0, <4>1, FirstOfFour, Zenon
    <3>4. ASSUME p = s PROVE EndsIn(Fini(b), D(p), D0(p))
      <4>1. z \in D0(p) /\ v \notin D(p)
        BY <1>1, <1>3, <1>4, <3>4
      <4> QED BY <3>0, <4>1, ThirdOfFour, Zenon
    <3>5. ASSUME p = s PROVE Silent(Fini(b), E(p))
      <4>1. x \notin E(p) /\ u \notin E(p) /\ z \notin E(p) /\ v \notin E(p)
        BY <1>1, <1>3, <1>4, <3>5
      <4> QED BY <3>0, <4>1, NoneOfFour, Zenon
    <3>6. ASSUME p # f /\ p # s PROVE Silent(Fini(b), D(p))
      <4>1. x \notin D(p) /\ u \notin D(p) /\ z \notin D(p) /\ v \notin D(p)
        BY <1>1, <1>3, <1>4, <3>6
      <4> QED BY <3>0, <4>1, NoneOfFour, Zenon
    <3>7. ASSUME p # f /\ p # s PROVE Silent(Fini(b), E(p))
      <4>1. x \notin E(p) /\ u \notin E(p) /\ z \notin E(p) /\ v \notin E(p)
        BY <1>1, <1>3, <1>4, <3>7
      <4> QED BY <3>0, <4>1, NoneOfFour, Zenon
    <3> QED BY <2>1, <3>1, <3>2, <3>3, <3>4, <3>5, <3>6, <3>7
  <2>2. CASE b.ops = "DualPWM"
    <3>0. Fini(b) = <<x, y>>
      BY <1>5, <2>2
    <3>1. Fini(b) \in Seq(W)
      BY <1>2, <3>0, TwoIn, Zenon
    <3>2. ASSUME p = f PROVE EndsIn(Fini(b), D(p), D0(p))
      <4>1. x \in D0(p) /\ y \notin D(p)
        BY <1>1, <1>3, <1>4, <3>2
      <4> QED BY <3>0, <4>1, FirstOfTwo, Zenon
    <3>3. ASSUME p = f PROVE EndsIn(Fini(b), E(p), E0(p))
      <4>1. x \in E0(p) /\ y \notin E(p)
        BY <1>1, <1>3, <1>4, <3>3
      <4> QED BY <3>0, <4>1, FirstOfTwo, Zenon
    <3>4. ASSUME p = s PROVE EndsIn(Fini(b), D(p), D0(p))
      <4>1. y \in D0(p)
        BY <1>1, <1>3, <1>4, <3>4
      <4> QED BY <3>0, <4>1, SecondOfTwo, Zenon
    <3>5. ASSUME p = s PROVE EndsIn(Fini(b), E(p), E0(p))
      <4>1. y \in E0(p)
        BY <1>1, <1>3, <1>4, <3>5
      <4> QED BY <3>0, <4>1, SecondOfTwo, Zenon
    <3>6. ASSUME p # f /\ p # s PROVE Silent(Fini(b), D(p))
      <4>1. x \notin D(p) /\ y \notin D(p)
        BY <1>1, <1>3, <1>4, <3>6
      <4> QED BY <3>0, <4>1, NoneOfTwo, Zenon
    <3>7. ASSUME p # f /\ p # s PROVE Silent(Fini(b), E(p))
      <4>1. x \notin E(p) /\ y \notin E(p)
        BY <1>1, <1>3, <1>4, <3>7
      <4> QED BY <3>0, <4>1, NoneOfTwo, Zenon
    <3> QED BY <2>2, <3>1, <3>2, <3>3, <3>4, <3>5, <3>6, <3>7
  <2>3. CASE b.ops = "HalfCyclePWM"
    <3>0. Fini(b) = <<u, v, x, z>>
      BY <1>5, <2>3
    <3>1. Fini(b) \in Seq(W)
      BY <1>2, <3>0, FourIn, Zenon
    <3>2. ASSUME p = f PROVE EndsIn(Fini(b), D(p), D0(p))
      <4>1. x \in D0(p) /\ z \notin D(p)
        BY <1>1, <1>3, <1>4, <3>2
      <4> QED BY <3>0, <4>1, ThirdOfFour, Zenon
    <3>3. ASSUME p = f PROVE EndsIn(Fini(b), E(p), E0(p))
      <4>1. x \in E0(p) /\ z \notin E(p)
        BY <1>1, <1>3, <1>4, <3>3
      <4> QED BY <3>0, <4>1, ThirdOfFour, Zenon
    <3>4. ASSUME p = s PROVE EndsIn(Fini(b), D(p), D0(p))
      <4>1. z \in D0(p)
        BY <1>1, <1>3, <1>4, <3>4
      <4> QED BY <3>0, <4>1, FourthOfFour, Zenon
    <3>5. ASSUME p = s PROVE Silent(Fini(b), E(p))
      <4>1. u \notin E(p) /\ v \notin E(p) /\ x \notin E(p) /\ z \notin E(p)
        BY <1>1, <1>3, <1>4, <3>5
      <4> QED BY <3>0, <4>1, NoneOfFour, Zenon
    <3>6. ASSUME p # f /\ p # s PROVE Silent(Fini(b), D(p))
      <4>1. u \notin D(p) /\ v \notin D(p) /\ x \notin D(p) /\ z \notin D(p)
        BY <1>1, <1>3, <1>4, <3>6
      <4> QED BY <3>0, <4>1, NoneOfFour, Zenon
    <3>7. ASSUME p # f /\ p # s PROVE Silent(Fini(b), E(p))
      <4>1. u \notin E(p) /\ v \notin E(p) /\ x \notin E(p) /\ z \notin E(p)
        BY <1>1, <1>3, <1>4, <3>7
      <4> QED BY <3>0, <4>1, NoneOfFour, Zenon
    <3> QED BY <2>3, <3>1, <3>2, <3>3, <3>4, <3>5, <3>6, <3>7
  <2> QED BY <2>1, <2>2, <2>3 DEF Types
<1>7. f \in Own[m]
  BY DEF f
<1> QED BY <1>6, <1>7 DEF f, s, D, E, D0, E0, W

(* Starting a bridge: its pins become outputs, with PWM where it needs it. *)
LEMMA StartBlock ==
  ASSUME NEW m \in Motors, NEW t \in Types, NEW P, P.first \in Own[m],
         P.second \in Own[m], P.first # P.second
  PROVE  /\ Start(t, P) \in Seq(WritesOf(m))
         /\ \A p \in Own[m] :
              /\ IF p \in {P.first, P.second}
                 THEN EndsIn(Start(t, P), Touch("dir", p), Leaves("dir", p, "Output"))
                 ELSE Silent(Start(t, P), Touch("dir", p))
              /\ IF p = P.first \/ (t = "DualPWM" /\ p = P.second)
                 THEN EndsIn(Start(t, P), Touch("enabled", p), Leaves("enabled", p, TRUE))
                 ELSE Silent(Start(t, P), Touch("enabled", p))
         /\ \A g \in {"ops", "first", "second"} : Silent(Start(t, P), Touch(g, m))
         /\ t = "HalfCyclePWM" =>
              EndsIn(Start(t, P), Touch("value", P.second) \cup Touch("ops", m),
                     Leaves("value", P.second, 1))
<1> DEFINE f == P.first
           s == P.second
           x == Enable(f, TRUE)
           y == Enable(s, TRUE)
           z == Direction(s, "Output")
           u == Duty(f, 0)
           w == Duty(s, 0)
           v == Value(s, 0)
           k == Value(s, 1)
           W == WritesOf(m)
           D(p) == Touch("dir", p)
           E(p) == Touch("enabled", p)
           D1(p) == Leaves("dir", p, "Output")
           E1(p) == Leaves("enabled", p, TRUE)
           V == Touch("value", s) \cup Touch("ops", m)
<1>1. TRUE \in BOOLEAN /\ "Output" = (IF TRUE THEN "Output" ELSE "Input")
      /\ 0 \in {0, 1} /\ 1 \in {0, 1} /\ f \in {f, s} /\ s \in {f, s} /\ f # s
      /\ f \in Own[m] /\ s \in Own[m]
  OBVIOUS
<1>2. x \in W /\ y \in W /\ z \in W /\ u \in W /\ v \in W /\ w \in W /\ k \in W
  <2>1. x \in W /\ y \in W /\ z \in W /\ u \in W /\ v \in W
    BY <1>1, BlockWrites, ZenonT(60)
  <2>2. w \in W
    BY <1>1, BlockWrites, ZenonT(60)
  <2>3. k \in W
    BY <1>1, BlockWrites, ZenonT(60)
  <2> QED BY <2>1, <2>2, <2>3
<1>3. x \in D1(f) /\ x \in E1(f) /\ y \in D1(s) /\ y \in E1(s) /\ z \in D1(s)
  BY <1>1, BlockWrites, ZenonT(60)
<1>4. ASSUME NEW p \in Own[m]
      PROVE  /\ p # f => x \notin D(p) /\ x \notin E(p)
             /\ p # s => y \notin D(p) /\ y \notin E(p) /\ z \notin D(p)
             /\ z \notin E(p)
             /\ u \notin D(p) /\ u \notin E(p) /\ v \notin D(p) /\ v \notin E(p)
             /\ w \notin D(p) /\ w \notin E(p) /\ k \notin D(p) /\ k \notin E(p)
  <2>1. p # f => x \notin D(p) /\ x \notin E(p)
    BY <1>1, BlockWrites, ZenonT(60)
  <2>2. p # s => y \notin D(p) /\ y \notin E(p)
    BY <1>1, BlockWrites, ZenonT(60)
  <2>3. (p # s => z \notin D(p)) /\ z \notin E(p)
    BY <1>1, BlockWrites, ZenonT(60)
  <2>4. u \notin D(p)
    BY <1>1, BlockWrites, ZenonT(60)
  <2>5. u \notin E(p)
    BY <1>1, BlockWrites, ZenonT(60)
  <2>6. v \notin D(p) /\ v \notin E(p)
    BY <1>1, BlockWrites, ZenonT(60)
  <2>7. w \notin D(p)
    BY <1>1, BlockWrites, ZenonT(60)
  <2>8. w \notin E(p)
    BY <1>1, BlockWrites, ZenonT(60)
  <2>9. k \notin D(p) /\ k \notin E(p)
    BY <1>1, BlockWrites, ZenonT(60)
  <2> QED BY <2>1, <2>2, <2>3, <2>4, <2>5, <2>6, <2>7, <2>8, <2>9
<1>5. /\ t = "PWMDir" => Start(t, P) = <<z, v, u, x>>
      /\ t = "DualPWM" => Start(t, P) = <<u, w, x, y>>
      /\ t = "HalfCyclePWM" => Start(t, P) = <<u, k, x, z>>
  BY DEF Start, PWMDir_start, DualPWM_start, HalfPWM_start
<1>6. ASSUME NEW g \in {"ops", "first", "second"}
      PROVE  /\ x \notin Touch(g, m) /\ y \notin Touch(g, m) /\ z \notin Touch(g, m)
             /\ u \notin Touch(g, m) /\ w \notin Touch(g, m)
             /\ v \notin Touch(g, m) /\ k \notin Touch(g, m)
  BY PinWritesApart, Zenon
<1>7. k \in Leaves("value", s, 1) /\ x \notin V /\ z \notin V
  <2>1. k \in Leaves("value", s, 1)
    BY <1>1, BlockWrites, ZenonT(60)
  <2>2. x \notin Touch("value", s) /\ z \notin Touch("value", s)
    BY <1>1, BlockWrites, ZenonT(60)
  <2>3. "ops" \in {"ops", "first", "second"}
    OBVIOUS
  <2> QED BY <1>6, <2>1, <2>2, <2>3, Zenon
<1> HIDE DEF f, s, x, y, z, u, v, w, k, W, D, E, D1, E1, V
<1>8. ASSUME NEW p \in Own[m]
      PROVE  /\ Start(t, P) \in Seq(W)
             /\ p = f => /\ EndsIn(Start(t, P), D(p), D1(p))
                        /\ EndsIn(Start(t, P), E(p), E1(p))
             /\ p = s => EndsIn(Start(t, P), D(p), D1(p))
             /\ p = s => IF t = "DualPWM" THEN EndsIn(Start(t, P), E(p), E1(p))
                         ELSE Silent(Start(t, P), E(p))
             /\ p # f /\ p # s => /\ Silent(Start(t, P), D(p))
                                 /\ Silent(Start(t, P), E(p))
             /\ \A g \in {"ops", "first", "second"} : Silent(Start(t, P), Touch(g, m))
             /\ t = "HalfCyclePWM" => EndsIn(Start(t, P), V, Leaves("value", s, 1))
  <2>1. CASE t = "PWMDir"
    <3>0. Start(t, P) = <<z, v, u, x>>
      BY <1>5, <2>1
    <3>1. Start(t, P) \in Seq(W)
      BY <1>2, <3>0, FourIn, Zenon
    <3>2. ASSUME p = f PROVE EndsIn(Start(t, P), D(p), D1(p))
      <4>1. x \in D1(p)
        BY <1>1, <1>3, <1>4, <3>2
      <4> QED BY <3>0, <4>1, FourthOfFour, Zenon
    <3>3. ASSUME p = f PROVE EndsIn(Start(t, P), E(p), E1(p))
      <4>1. x \in E1(p)
        BY <1>1, <1>3, <1>4, <3>3
      <4> QED BY <3>0, <4>1, FourthOfFour, Zenon
    <3>4. ASSUME p = s PROVE EndsIn(Start(t, P), D(p), D1(p))
      <4>1. z \in D1(p) /\ v \notin D(p) /\ u \notin D(p) /\ x \notin D(p)
        BY <1>1, <1>3, <1>4, <3>4
      <4> QED BY <3>0, <4>1, FirstOfFour, Zenon
    <3>5. ASSUME p = s PROVE Silent(Start(t, P), E(p))
      <4>1. z \notin E(p) /\ v \notin E(p) /\ u \notin E(p) /\ x \notin E(p)
        BY <1>1, <1>3, <1>4, <3>5
      <4> QED BY <3>0, <4>1, NoneOfFour, Zenon
    <3>6. ASSUME p # f /\ p # s PROVE Silent(Start(t, P), D(p))
      <4>1. z \notin D(p) /\ v \notin D(p) /\ u \notin D(p) /\ x \notin D(p)
        BY <1>1, <1>3, <1>4, <3>6
      <4> QED BY <3>0, <4>1, NoneOfFour, Zenon
    <3>7. ASSUME p # f /\ p # s PROVE Silent(Start(t, P), E(p))
      <4>1. z \notin E(p) /\ v \notin E(p) /\ u \notin E(p) /\ x \notin E(p)
        BY <1>1, <1>3, <1>4, <3>7
      <4> QED BY <3>0, <4>1, NoneOfFour, Zenon
    <3>8. ASSUME NEW g \in {"ops", "first", "second"} PROVE Silent(Start(t, P), Touch(g, m))
      <4>1. z \notin Touch(g, m) /\ v \notin Touch(g, m) /\ u \notin Touch(g, m) /\ x \notin Touch(g, m)
        BY <1>6
      <4> QED BY <3>0, <4>1, NoneOfFour, Zenon
    <3> QED BY <2>1, <3>1, <3>2, <3>3, <3>4, <3>5, <3>6, <3>7, <3>8
  <2>2. CASE t = "DualPWM"
    <3>0. Start(t, P) = <<u, w, x, y>>
      BY <1>5, <2>2
    <3>1. Start(t, P) \in Seq(W)
      BY <1>2, <3>0, FourIn, Zenon
    <3>2. ASSUME p = f PROVE EndsIn(Start(t, P), D(p), D1(p))
      <4>1. x \in D1(p) /\ y \notin D(p)
        BY <1>1, <1>3, <1>4, <3>2
      <4> QED BY <3>0, <4>1, ThirdOfFour, Zenon
    <3>3. ASSUME p = f PROVE EndsIn(Start(t, P), E(p), E1(p))
      <4>1. x \in E1(p) /\ y \notin E(p)
        BY <1>1, <1>3, <1>4, <3>3
      <4> QED BY <3>0, <4>1, ThirdOfFour, Zenon
    <3>4. ASSUME p = s PROVE EndsIn(Start(t, P), D(p), D1(p))
      <4>1. y \in D1(p)
        BY <1>1, <1>3, <1>4, <3>4
      <4> QED BY <3>0, <4>1, FourthOfFour, Zenon
    <3>5. ASSUME p = s PROVE EndsIn(Start(t, P), E(p), E1(p))
      <4>1. y \in E1(p)
        BY <1>1, <1>3, <1>4, <3>5
      <4> QED BY <3>0, <4>1, FourthOfFour, Zenon
    <3>6. ASSUME p # f /\ p # s PROVE Silent(Start(t, P), D(p))
      <4>1. u \notin D(p) /\ w \notin D(p) /\ x \notin D(p) /\ y \notin D(p)
        BY <1>1, <1>3, <1>4, <3>6
      <4> QED BY <3>0, <4>1, NoneOfFour, Zenon
    <3>7. ASSUME p # f /\ p # s PROVE Silent(Start(t, P), E(p))
      <4>1. u \notin E(p) /\ w \notin E(p) /\ x \notin E(p) /\ y \notin E(p)
        BY <1>1, <1>3, <1>4, <3>7
      <4> QED BY <3>0, <4>1, NoneOfFour, Zenon
    <3>8. ASSUME NEW g \in {"ops", "first", "second"} PROVE Silent(Start(t, P), Touch(g, m))
      <4>1. u \notin Touch(g, m) /\ w \notin Touch(g, m) /\ x \notin Touch(g, m) /\ y \notin Touch(g, m)
        BY <1>6
      <4> QED BY <3>0, <4>1, NoneOfFour, Zenon
    <3> QED BY <2>2, <3>1, <3>2, <3>3, <3>4, <3>5, <3>6, <3>7, <3>8
  <2>3. CASE t = "HalfCyclePWM"
    <3>0. Start(t, P) = <<u, k, x, z>>
      BY <1>5, <2>3
    <3>1. Start(t, P) \in Seq(W)
      BY <1>2, <3>0, FourIn, Zenon
    <3>2. ASSUME p = f PROVE EndsIn(Start(t, P), D(p), D1(p))
      <4>1. x \in D1(p) /\ z \notin D(p)
        BY <1>1, <1>3, <1>4, <3>2
      <4> QED BY <3>0, <4>1, ThirdOfFour, Zenon
    <3>3. ASSUME p = f PROVE EndsIn(Start(t, P), E(p), E1(p))
      <4>1. x \in E1(p) /\ z \notin E(p)
        BY <1>1, <1>3, <1>4, <3>3
      <4> QED BY <3>0, <4>1, ThirdOfFour, Zenon
    <3>4. ASSUME p = s PROVE EndsIn(Start(t, P), D(p), D1(p))
      <4>1. z \in D1(p)
        BY <1>1, <1>3, <1>4, <3>4
      <4> QED BY <3>0, <4>1, FourthOfFour, Zenon
    <3>5. ASSUME p = s PROVE Silent(Start(t, P), E(p))
      <4>1. u \notin E(p) /\ k \notin E(p) /\ x \notin E(p) /\ z \notin E(p)
        BY <1>1, <1>3, <1>4, <3>5
      <4> QED BY <3>0, <4>1, NoneOfFour, Zenon
    <3>6. ASSUME p # f /\ p # s PROVE Silent(Start(t, P), D(p))
      <4>1. u \notin D(p) /\ k \notin D(p) /\ x \notin D(p) /\ z \notin D(p)
        BY <1>1, <1>3, <1>4, <3>6
      <4> QED BY <3>0, <4>1, NoneOfFour, Zenon
    <3>7. ASSUME p # f /\ p # s PROVE Silent(Start(t, P), E(p))
      <4>1. u \notin E(p) /\ k \notin E(p) /\ x \notin E(p) /\ z \notin E(p)
        BY <1>1, <1>3, <1>4, <3>7
      <4> QED BY <3>0, <4>1, NoneOfFour, Zenon
    <3>8. ASSUME NEW g \in {"ops", "first", "second"} PROVE Silent(Start(t, P), Touch(g, m))
      <4>1. u \notin Touch(g, m) /\ k \notin Touch(g, m) /\ x \notin Touch(g, m) /\ z \notin Touch(g, m)
        BY <1>6
      <4> QED BY <3>0, <4>1, NoneOfFour, Zenon
    <3>9. EndsIn(Start(t, P), V, Leaves("value", s, 1))
      <4>1. k \in Leaves("value", s, 1) /\ x \notin V /\ z \notin V
        BY <1>7
      <4> QED BY <3>0, <4>1, SecondOfFour, Zenon
    <3> QED BY <2>3, <3>1, <3>2, <3>3, <3>4, <3>5, <3>6, <3>7, <3>8, <3>9
  <2> QED BY <2>1, <2>2, <2>3 DEF Types
<1>9. f \in Own[m]
  BY DEF f
<1> QED BY <1>8, <1>9 DEF f, s, D, E, D1, E1, W, V

(* The writes between the two: the operations and the pins of the bridge. *)
LEMMA NameBlock ==
  ASSUME NEW m \in Motors, NEW t \in Types, NEW f \in Own[m], NEW s \in Own[m],
         NEW M, M = <<Put("ops", m, t), Put("first", m, f), Put("second", m, s)>>
  PROVE  /\ M \in Seq(WritesOf(m))
         /\ EndsIn(M, Touch("ops", m), Leaves("ops", m, t))
         /\ EndsIn(M, Touch("first", m), Leaves("first", m, f))
         /\ EndsIn(M, Touch("second", m), Leaves("second", m, s))
         /\ \A p \in Own[m], g \in {"dir", "enabled"} : Silent(M, Touch(g, p))
<1> DEFINE x == Put("ops", m, t)
           y == Put("first", m, f)
           z == Put("second", m, s)
<1>1. x \in WritesOf(m) /\ y \in WritesOf(m) /\ z \in WritesOf(m)
  BY WritesOfOne, Zenon
<1>2. x \in Writes /\ y \in Writes /\ z \in Writes
  BY <1>1, WritesAll
<1>3. /\ x \in Leaves("ops", m, t) /\ y \in Leaves("first", m, f)
      /\ z \in Leaves("second", m, s)
  BY <1>2 DEF Put, Touch, Leaves
<1>4. /\ y \notin Touch("ops", m) /\ z \notin Touch("ops", m) /\ z \notin Touch("first", m)
  BY DEF Put, Touch
<1>5. \A p \in Own[m], g \in {"dir", "enabled"} :
        x \notin Touch(g, p) /\ y \notin Touch(g, p) /\ z \notin Touch(g, p)
  BY DEF Put, Touch
<1>6. M = <<x, y, z>>
  OBVIOUS
<1> HIDE DEF x, y, z
<1>7. M \in Seq(WritesOf(m))
  BY <1>1, <1>6, ThreeIn, Zenon
<1>8. EndsIn(M, Touch("ops", m), Leaves("ops", m, t))
  BY <1>3, <1>4, <1>6, FirstOfThree, Zenon
<1>9. EndsIn(M, Touch("first", m), Leaves("first", m, f))
  BY <1>3, <1>4, <1>6, SecondOfThree, Zenon
<1>10. EndsIn(M, Touch("second", m), Leaves("second", m, s))
  BY <1>3, <1>6, ThirdOfThree, Zenon
<1>11. \A p \in Own[m], g \in {"dir", "enabled"} : Silent(M, Touch(g, p))
  BY <1>5, <1>6, NoneOfThree, Zenon
<1> QED BY <1>7, <1>8, <1>9, <1>10, <1>11

(* Giving up, naming and starting follow one another. *)
LEMMA ThreeBlocks ==
  ASSUME NEW S, NEW s \in Seq(S), NEW u \in Seq(S), NEW v \in Seq(S), NEW A, NEW G
  PROVE  /\ EndsIn(v, A, G) => EndsIn((s \o u) \o v, A, G)
         /\ EndsIn(u, A, G) /\ Silent(v, A) => EndsIn((s \o u) \o v, A, G)
         /\ EndsIn(s, A, G) /\ Silent(u, A) /\ Silent(v, A)
              => EndsIn((s \o u) \o v, A, G)
         /\ Silent(s, A) /\ Silent(u, A) /\ Silent(v, A) => Silent((s \o u) \o v, A)
<1>1. /\ s \o u \in Seq(S)
      /\ EndsIn(u, A, G) => EndsIn(s \o u, A, G)
      /\ EndsIn(s, A, G) /\ Silent(u, A) => EndsIn(s \o u, A, G)
      /\ Silent(s, A) /\ Silent(u, A) => Silent(s \o u, A)
  BY Joined, Zenon
<1> DEFINE c == s \o u
<1>2. c \in Seq(S)
  BY <1>1
<1> HIDE DEF c
<1>3. /\ EndsIn(v, A, G) => EndsIn(c \o v, A, G)
      /\ EndsIn(c, A, G) /\ Silent(v, A) => EndsIn(c \o v, A, G)
      /\ Silent(c, A) /\ Silent(v, A) => Silent(c \o v, A)
  BY <1>2, Joined, Zenon
<1> QED BY <1>1, <1>3 DEF c

(* A bridge that has been set up, or has not, as hBridgeInit finds it. *)
Settled(b, m) ==
  \/ b.ops = "none"
  \/ /\ b.ops \in Types
     /\ b.first = Wiring[b.ops][m].first
     /\ b.second = Wiring[b.ops][m].second

(* The pins that are outputs, and those with PWM. *)
OutPins(b, m) == IF b.ops = "none" THEN {} ELSE Used(b.ops, m)

PwmPins(b, m) == IF b.ops = "none" THEN {} ELSE Pwm(b.ops, m)

(* Giving up what the bridge is, or nothing *)
LEMMA FiniAny ==
  ASSUME NEW m \in Motors, NEW b, Settled(b, m)
  PROVE  /\ Fini(b) \in Seq(WritesOf(m))
         /\ \A p \in Own[m] :
              /\ p \in OutPins(b, m)
                   => EndsIn(Fini(b), Touch("dir", p), Leaves("dir", p, "Input"))
              /\ p \notin OutPins(b, m) => Silent(Fini(b), Touch("dir", p))
              /\ p \in PwmPins(b, m)
                   => EndsIn(Fini(b), Touch("enabled", p), Leaves("enabled", p, FALSE))
              /\ p \notin PwmPins(b, m) => Silent(Fini(b), Touch("enabled", p))
<1>1. CASE b.ops = "none"
  <2>1. Fini(b) = <<>>
    BY <1>1 DEF Fini
  <2>2. <<>> \in Seq(WritesOf(m)) /\ \A A : Silent(<<>>, A)
    BY DEF Silent
  <2>3. \A p : p \notin OutPins(b, m) /\ p \notin PwmPins(b, m)
    BY <1>1 DEF OutPins, PwmPins
  <2> QED BY <2>1, <2>2, <2>3
<1>2. CASE b.ops # "none"
  <2>1. /\ b.ops \in Types /\ b.first = Wiring[b.ops][m].first
        /\ b.second = Wiring[b.ops][m].second
    BY <1>2 DEF Settled
  <2>2. b.first \in Own[m] /\ b.second \in Own[m] /\ b.first # b.second
    BY <2>1, Wires
  <2>3. OutPins(b, m) = {b.first, b.second}
    BY <1>2, <2>1 DEF OutPins, Used
  <2>4. \A p : p \in PwmPins(b, m) <=> p = b.first \/ (b.ops = "DualPWM" /\ p = b.second)
    BY <1>2, <2>1 DEF PwmPins, Pwm, Used
  <2> QED BY <2>1, <2>2, <2>3, <2>4, FiniBlock
<1> QED BY <1>1, <1>2

(* What hBridgeInit writes for the bridge of motor m, and what it leaves.  *)
LEMMA SetupEnds ==
  ASSUME NEW m \in Motors, NEW t \in Types, Settled(bridge[m], m)
  PROVE  LET b == bridge[m]
             q == Setup(t, m)
         IN /\ q \in Seq(WritesOf(m))
            /\ EndsIn(q, Touch("ops", m), Leaves("ops", m, t))
            /\ EndsIn(q, Touch("first", m), Leaves("first", m, Wiring[t][m].first))
            /\ EndsIn(q, Touch("second", m), Leaves("second", m, Wiring[t][m].second))
            /\ \A p \in Own[m] :
                 /\ p \in Used(t, m)
                      => EndsIn(q, Touch("dir", p), Leaves("dir", p, "Output"))
                 /\ p \notin Used(t, m) /\ p \in OutPins(b, m)
                      => EndsIn(q, Touch("dir", p), Leaves("dir", p, "Input"))
                 /\ p \notin Used(t, m) /\ p \notin OutPins(b, m)
                      => Silent(q, Touch("dir", p))
                 /\ p \in Pwm(t, m)
                      => EndsIn(q, Touch("enabled", p), Leaves("enabled", p, TRUE))
                 /\ p \notin Pwm(t, m) /\ p \in PwmPins(b, m)
                      => EndsIn(q, Touch("enabled", p), Leaves("enabled", p, FALSE))
                 /\ p \notin Pwm(t, m) /\ p \notin PwmPins(b, m)
                      => Silent(q, Touch("enabled", p))
            /\ t = "HalfCyclePWM" =>
                 LET s == Wiring[t][m].second
                 IN EndsIn(q, Touch("value", s) \cup Touch("ops", m),
                           Leaves("value", s, 1))
<1> DEFINE b == bridge[m]
           q == Setup(t, m)
           W == WritesOf(m)
           F == Fini(b)
           M == <<Put("ops", m, t), Put("first", m, Wiring[t][m].first),
                  Put("second", m, Wiring[t][m].second)>>
           T == Start(t, Wiring[t][m])
           f == Wiring[t][m].first
           s == Wiring[t][m].second
<1>1. f \in Own[m] /\ s \in Own[m] /\ f # s
  BY Wires
<1>2. /\ F \in Seq(W)
      /\ \A p \in Own[m] :
           /\ p \in OutPins(b, m)
                => EndsIn(F, Touch("dir", p), Leaves("dir", p, "Input"))
           /\ p \notin OutPins(b, m) => Silent(F, Touch("dir", p))
           /\ p \in PwmPins(b, m)
                => EndsIn(F, Touch("enabled", p), Leaves("enabled", p, FALSE))
           /\ p \notin PwmPins(b, m) => Silent(F, Touch("enabled", p))
  BY FiniAny, Zenon
<1>3. /\ M \in Seq(W)
      /\ EndsIn(M, Touch("ops", m), Leaves("ops", m, t))
      /\ EndsIn(M, Touch("first", m), Leaves("first", m, f))
      /\ EndsIn(M, Touch("second", m), Leaves("second", m, s))
      /\ \A p \in Own[m], g \in {"dir", "enabled"} : Silent(M, Touch(g, p))
  BY <1>1, NameBlock, Zenon
<1>4. /\ T \in Seq(W)
      /\ \A p \in Own[m] :
           /\ IF p \in {f, s}
              THEN EndsIn(T, Touch("dir", p), Leaves("dir", p, "Output"))
              ELSE Silent(T, Touch("dir", p))
           /\ IF p = f \/ (t = "DualPWM" /\ p = s)
              THEN EndsIn(T, Touch("enabled", p), Leaves("enabled", p, TRUE))
              ELSE Silent(T, Touch("enabled", p))
      /\ \A g \in {"ops", "first", "second"} : Silent(T, Touch(g, m))
      /\ t = "HalfCyclePWM" =>
           EndsIn(T, Touch("value", s) \cup Touch("ops", m), Leaves("value", s, 1))
  BY <1>1, StartBlock, Zenon
<1>5. q = (F \o M) \o T
  BY DEF Setup
<1>6. \A p : /\ p \in Used(t, m) <=> p \in {f, s}
             /\ p \in Pwm(t, m) <=> p = f \/ (t = "DualPWM" /\ p = s)
  BY DEF Used, Pwm
<1> HIDE DEF b, q, W, F, M, T, f, s
<1>7. \A A, G :
        /\ EndsIn(T, A, G) => EndsIn(q, A, G)
        /\ EndsIn(M, A, G) /\ Silent(T, A) => EndsIn(q, A, G)
        /\ EndsIn(F, A, G) /\ Silent(M, A) /\ Silent(T, A) => EndsIn(q, A, G)
        /\ Silent(F, A) /\ Silent(M, A) /\ Silent(T, A) => Silent(q, A)
  BY <1>2, <1>3, <1>4, <1>5, ThreeBlocks, Zenon
<1>8. q \in Seq(W)
  <2>1. F \o M \in Seq(W)
    BY <1>2, <1>3, Joined, Zenon
  <2> QED BY <1>4, <1>5, <2>1, Joined, Zenon
<1>9. \A g \in {"ops", "first", "second"} : Silent(T, Touch(g, m))
  BY <1>4, Zenon
<1>10. EndsIn(q, Touch("ops", m), Leaves("ops", m, t))
  BY <1>3, <1>7, <1>9
<1>11. EndsIn(q, Touch("first", m), Leaves("first", m, f))
  BY <1>3, <1>7, <1>9
<1>12. EndsIn(q, Touch("second", m), Leaves("second", m, s))
  BY <1>3, <1>7, <1>9
<1>13. ASSUME NEW p \in Own[m]
       PROVE  /\ p \in Used(t, m)
                   => EndsIn(q, Touch("dir", p), Leaves("dir", p, "Output"))
              /\ p \notin Used(t, m) /\ p \in OutPins(b, m)
                   => EndsIn(q, Touch("dir", p), Leaves("dir", p, "Input"))
              /\ p \notin Used(t, m) /\ p \notin OutPins(b, m)
                   => Silent(q, Touch("dir", p))
  <2>1. Silent(M, Touch("dir", p))
    BY <1>3
  <2>2. IF p \in Used(t, m)
        THEN EndsIn(T, Touch("dir", p), Leaves("dir", p, "Output"))
        ELSE Silent(T, Touch("dir", p))
    BY <1>4, <1>6, Zenon
  <2> QED BY <1>2, <1>7, <2>1, <2>2
<1>14. ASSUME NEW p \in Own[m]
       PROVE  /\ p \in Pwm(t, m)
                   => EndsIn(q, Touch("enabled", p), Leaves("enabled", p, TRUE))
              /\ p \notin Pwm(t, m) /\ p \in PwmPins(b, m)
                   => EndsIn(q, Touch("enabled", p), Leaves("enabled", p, FALSE))
              /\ p \notin Pwm(t, m) /\ p \notin PwmPins(b, m)
                   => Silent(q, Touch("enabled", p))
  <2>1. Silent(M, Touch("enabled", p))
    BY <1>3
  <2>2. IF p \in Pwm(t, m)
        THEN EndsIn(T, Touch("enabled", p), Leaves("enabled", p, TRUE))
        ELSE Silent(T, Touch("enabled", p))
    BY <1>4, <1>6, Zenon
  <2> QED BY <1>2, <1>7, <2>1, <2>2
<1>15. t = "HalfCyclePWM" =>
         EndsIn(q, Touch("value", s) \cup Touch("ops", m), Leaves("value", s, 1))
  BY <1>4, <1>7, Zenon
<1> QED BY <1>8, <1>10, <1>11, <1>12, <1>13, <1>14, <1>15 DEF b, q, W, f, s
----------------------------------------------------------------------------
(* One write *)

(* What a write may be *)
LEMMA WriteTypes ==
  ASSUME NEW w \in Writes
  PROVE  \/ w.do = "duty" /\ w.on \in BridgePins /\ w.arg \in 0 .. 255
         \/ w.do = "enabled" /\ w.on \in BridgePins /\ w.arg \in BOOLEAN
         \/ w.do = "dir" /\ w.on \in BridgePins /\ w.arg \in {"Input", "Output"}
         \/ w.do = "value" /\ w.on \in BridgePins /\ w.arg \in {0, 1}
         \/ w.do = "ops" /\ w.on \in Motors /\ w.arg \in Types
         \/ w.do \in {"first", "second"} /\ w.on \in Motors /\ w.arg \in Own[w.on]
<1>1. PICK m \in Motors : w \in WritesOf(m)
  BY DEF Writes, Motors
<1>2. Own[m] \subseteq BridgePins
  BY Owner
<1>3. CASE w \in [do : {"duty"}, on : Own[m], arg : 0 .. 255]
  BY <1>2, <1>3
<1>4. CASE w \in [do : {"enabled"}, on : Own[m], arg : BOOLEAN]
  BY <1>2, <1>4
<1>5. CASE w \in [do : {"dir"}, on : Own[m], arg : {"Input", "Output"}]
  BY <1>2, <1>5
<1>6. CASE w \in [do : {"value"}, on : Own[m], arg : {0, 1}]
  BY <1>2, <1>6
<1>7. CASE w \in [do : {"ops"}, on : {m}, arg : Types]
  BY <1>7
<1>8. CASE w \in [do : {"first", "second"}, on : {m}, arg : Own[m]]
  BY <1>8
<1> QED BY <1>1, <1>3, <1>4, <1>5, <1>6, <1>7, <1>8, ZenonT(60) DEF WritesOf

(* A write to a pin changes what it touches and nothing else. *)
LEMMA WrittenPin ==
  ASSUME NEW pins \in [BridgePins -> PinSet], NEW w \in Writes,
         w.do \notin {"ops", "first", "second"}
  PROVE  /\ Written(pins, w) \in [BridgePins -> PinSet]
         /\ \A p \in BridgePins, f \in {"dir", "enabled", "value"} :
              /\ \A v : w \in Leaves(f, p, v) => Written(pins, w)[p][f] = v
              /\ w \notin Touch(f, p) => Written(pins, w)[p][f] = pins[p][f]
<1> DEFINE n == w.on
           q == Written(pins, w)
<1>1. CASE w.do = "enabled"
  <2>1. n \in BridgePins /\ w.arg \in BOOLEAN
    BY <1>1, WriteTypes
  <2> DEFINE d == IF w.arg THEN "Output" ELSE "Input"
  <2>2. q = [pins EXCEPT ![n].enabled = w.arg, ![n].duty = 255, ![n].dir = d]
    BY <1>1 DEF Written
  <2>5. d \in {"Input", "Output"}
    OBVIOUS
  <2>3. /\ q \in [BridgePins -> PinSet]
        /\ \A p \in BridgePins : p # n => q[p] = pins[p]
        /\ q[n].enabled = w.arg /\ q[n].value = pins[n].value
        /\ q[n].dir = d
    <3> HIDE DEF n, q, d
    <3>1. pins[n] \in PinSet
      BY <2>1
    <3> DEFINE r1 == [pins[n] EXCEPT !.enabled = w.arg]
               r2 == [r1 EXCEPT !.duty = 255]
               r == [r2 EXCEPT !.dir = d]
               q1 == [pins EXCEPT ![n].enabled = w.arg]
               q2 == [q1 EXCEPT ![n].duty = 255]
    <3>2. /\ r \in PinSet /\ r.enabled = w.arg /\ r.value = pins[n].value
          /\ r.dir = d
      <4> DEFINE a == w.arg
                 x == pins[n]
      <4>1. a \in BOOLEAN /\ x \in PinSet
        BY <2>1, <3>1
      <4> HIDE DEF a, x
      <4>2. r1 \in PinSet /\ r1.enabled = a /\ r1.value = x.value
        BY <4>1 DEF PinSet, a, x
      <4>3. r2 \in PinSet /\ r2.enabled = a /\ r2.value = x.value
        <5> HIDE DEF r1
        <5> QED BY <4>2 DEF PinSet
      <4>4. r \in PinSet /\ r.enabled = a /\ r.value = x.value /\ r.dir = d
        <5> HIDE DEF r2
        <5> QED BY <2>5, <4>3 DEF PinSet
      <4> HIDE DEF r
      <4> QED BY <4>4 DEF a, x
    <3>4. q = [q2 EXCEPT ![n].dir = d]
      BY <2>2
    <3>5. q1 = [pins EXCEPT ![n] = r1] /\ q1[n] = r1 /\ DOMAIN q1 = BridgePins
      BY <2>1
    <3>6. q2 = [q1 EXCEPT ![n] = r2] /\ q2[n] = r2 /\ DOMAIN q2 = BridgePins
      <4> HIDE DEF q1, r1
      <4> QED BY <2>1, <3>5
    <3>7. q = [q2 EXCEPT ![n] = r]
      <4> HIDE DEF q2, r2
      <4> QED BY <2>1, <3>4, <3>6
    <3> HIDE DEF q1, q2, r1, r2, r
    <3>3. q = [pins EXCEPT ![n] = r]
      BY <2>1, <3>5, <3>6, <3>7
    <3> HIDE DEF r
    <3> QED BY <2>1, <3>2, <3>3
  <2>4. ASSUME NEW p \in BridgePins, NEW f \in {"dir", "enabled", "value"}
        PROVE  /\ \A v : w \in Leaves(f, p, v) => q[p][f] = v
               /\ w \notin Touch(f, p) => q[p][f] = pins[p][f]
    <3>1. CASE p # n
      BY <2>3, <3>1 DEF Leaves, Touch
    <3>2. CASE p = n
      <4>1. w \in Touch(f, p) <=> f # "value"
        BY <1>1, <3>2 DEF Touch
      <4> QED BY <1>1, <2>3, <3>2, <4>1 DEF Leaves
    <3> QED BY <3>1, <3>2
  <2> QED BY <2>3, <2>4
<1>2. ASSUME NEW g \in {"dir", "value", "duty"}, w.do = g,
             NEW r, n \in BridgePins,
             r \in PinSet, q = [pins EXCEPT ![n] = r],
             r.enabled = pins[n].enabled,
             r.dir = (IF g = "dir" THEN w.arg ELSE pins[n].dir),
             r.value = (IF g = "value" THEN w.arg ELSE pins[n].value)
      PROVE  /\ q \in [BridgePins -> PinSet]
             /\ \A p \in BridgePins, f \in {"dir", "enabled", "value"} :
                  /\ \A v : w \in Leaves(f, p, v) => q[p][f] = v
                  /\ w \notin Touch(f, p) => q[p][f] = pins[p][f]
  <2> HIDE DEF q
  <2>1. q \in [BridgePins -> PinSet]
    BY <1>2
  <2>2. ASSUME NEW p \in BridgePins, NEW f \in {"dir", "enabled", "value"}
        PROVE  /\ \A v : w \in Leaves(f, p, v) => q[p][f] = v
               /\ w \notin Touch(f, p) => q[p][f] = pins[p][f]
    <3>1. CASE p # n
      <4>1. q[p] = pins[p]
        BY <1>2, <3>1
      <4> QED BY <3>1, <4>1 DEF Leaves, Touch
    <3>2. CASE p = n
      <4>1. w \in Touch(f, p) <=> f = g
        BY <1>2, <3>2 DEF Touch
      <4>2. q[p] = r
        BY <1>2, <3>2
      <4>3. w \in Touch(f, p) => \A v : w \in Leaves(f, p, v) => v = w.arg
        BY <1>2, <4>1 DEF Leaves
      <4>4. \A v : w \in Leaves(f, p, v) => w \in Touch(f, p)
        BY DEF Leaves
      <4>5. w \notin Touch(f, p) => r[f] = pins[n][f]
        BY <1>2, <4>1
      <4>6. w \in Touch(f, p) => r[f] = w.arg
        BY <1>2, <4>1
      <4> HIDE DEF n
      <4> QED BY <3>2, <4>2, <4>3, <4>4, <4>5, <4>6
    <3> QED BY <3>1, <3>2
  <2> QED BY <2>1, <2>2
<1>3. CASE w.do = "dir"
  <2> DEFINE r == [pins[n] EXCEPT !.dir = w.arg]
  <2>1. n \in BridgePins /\ w.arg \in {"Input", "Output"}
    BY <1>3, WriteTypes
  <2>2. pins[n] \in PinSet
    BY <2>1
  <2>3. /\ r \in PinSet /\ r.enabled = pins[n].enabled
        /\ r.dir = w.arg /\ r.value = pins[n].value
    <3> HIDE DEF n
    <3> QED BY <2>1, <2>2 DEF PinSet
  <2>4. q = [pins EXCEPT ![n] = r]
    BY <1>3, <2>1 DEF Written
  <2> HIDE DEF q, n, r
  <2> QED BY <1>2, <1>3, <2>1, <2>3, <2>4 DEF q
<1>4. CASE w.do = "value"
  <2> DEFINE r == [pins[n] EXCEPT !.value = w.arg]
  <2>1. n \in BridgePins /\ w.arg \in {0, 1}
    BY <1>4, WriteTypes
  <2>2. pins[n] \in PinSet
    BY <2>1
  <2>3. /\ r \in PinSet /\ r.enabled = pins[n].enabled
        /\ r.dir = pins[n].dir /\ r.value = w.arg
    <3> HIDE DEF n
    <3> QED BY <2>1, <2>2 DEF PinSet
  <2>4. q = [pins EXCEPT ![n] = r]
    BY <1>4, <2>1 DEF Written
  <2> HIDE DEF q, n, r
  <2> QED BY <1>2, <1>4, <2>1, <2>3, <2>4 DEF q
<1>5. CASE w.do = "duty"
  <2> DEFINE r == [pins[n] EXCEPT !.duty = w.arg]
  <2>1. n \in BridgePins /\ w.arg \in 0 .. 255
    BY <1>5, WriteTypes
  <2>2. pins[n] \in PinSet
    BY <2>1
  <2>3. /\ r \in PinSet /\ r.enabled = pins[n].enabled
        /\ r.dir = pins[n].dir /\ r.value = pins[n].value
    <3> HIDE DEF n
    <3> QED BY <2>1, <2>2 DEF PinSet
  <2>4. q = [pins EXCEPT ![n] = r]
    BY <1>5, <2>1 DEF Written
  <2> HIDE DEF q, n, r
  <2> QED BY <1>2, <1>5, <2>1, <2>3, <2>4 DEF q
<1> QED BY <1>1, <1>3, <1>4, <1>5, WriteTypes

(* The next write of hBridgeInit *)
LEMMA PinDueStep ==
  ASSUME BridgeTypes, InitStep, NEW p \in BridgePins,
         NEW f \in {"dir", "enabled", "value"}, NEW v, PinDue(f, p, v)
  PROVE  PinDue(f, p, v)'
<1> DEFINE w == Head(todo)
           A == Touch(f, p)
           G == Leaves(f, p, v)
<1>1. /\ todo \in Seq(Writes) /\ todo # <<>> /\ todo' = Tail(todo) /\ w \in Writes
      /\ pin \in [BridgePins -> PinSet]
  BY NextWrite DEF BridgeTypes, BridgeTypeOK, InitStep, PinSet
<1>2. w.do \in {"ops", "first", "second"} => pin' = pin /\ w \notin A
  BY <1>1 DEF InitStep, Touch
<1>3. w.do \notin {"ops", "first", "second"} =>
        /\ w \in G => pin'[p][f] = v
        /\ w \notin A => pin'[p][f] = pin[p][f]
  <2>1. w.do \notin {"ops", "first", "second"} => pin' = Written(pin, w)
    BY DEF InitStep
  <2> HIDE DEF w
  <2> QED BY <1>1, <2>1, WrittenPin
<1>4. G \subseteq A
  BY DEF Leaves
<1>5. \/ EndsIn(Tail(todo), A, G)
      \/ w \in G /\ Silent(Tail(todo), A)
      \/ w \notin A /\ Silent(Tail(todo), A) /\ pin[p][f] = v
  BY <1>1, DueStep DEF PinDue
<1> HIDE DEF w, A, G
<1>6. \/ EndsIn(Tail(todo), A, G)
      \/ Silent(Tail(todo), A) /\ pin'[p][f] = v
  BY <1>2, <1>3, <1>4, <1>5
<1> QED BY <1>1, <1>6 DEF PinDue, A, G

(* The same for the fields of a bridge *)
LEMMA BridgeDueStep ==
  ASSUME BridgeTypes, InitStep, NEW m \in Motors,
         NEW f \in {"ops", "first", "second"}, NEW v, BridgeDue(f, m, v)
  PROVE  BridgeDue(f, m, v)'
<1> DEFINE w == Head(todo)
           A == Touch(f, m)
           G == Leaves(f, m, v)
<1>1. /\ todo \in Seq(Writes) /\ todo # <<>> /\ todo' = Tail(todo) /\ w \in Writes
      /\ bridge = [n \in Motors |-> bridge[n]]
      /\ bridge[m] \in [ops : Types \cup {"none"}, first : BridgePins \cup {0},
                        second : BridgePins \cup {0}]
  BY NextWrite DEF BridgeTypes, BridgeTypeOK, InitStep
<1>2. w.do \notin {"ops", "first", "second"} => bridge' = bridge /\ w \notin A
  BY <1>1 DEF InitStep, Touch
<1>3. w.do \in {"ops", "first", "second"} =>
        /\ w \in G => bridge'[m][f] = v
        /\ w \notin A => bridge'[m][f] = bridge[m][f]
  <2>1. w.do \in {"ops", "first", "second"} =>
          bridge' = [bridge EXCEPT ![w.on][w.do] = w.arg]
    BY DEF InitStep
  <2> HIDE DEF w
  <2>2. ASSUME w.do \in {"ops", "first", "second"}, w \in G
        PROVE  bridge'[m][f] = v
    <3>1. w.on = m /\ w.do = f /\ w.arg = v
      BY <2>2 DEF Leaves, Touch
    <3> QED BY <1>1, <2>1, <2>2, <3>1
  <2>3. ASSUME w.do \in {"ops", "first", "second"}, w \notin A
        PROVE  bridge'[m][f] = bridge[m][f]
    <3>1. w.on # m \/ w.do # f
      BY <1>1, <2>3 DEF Touch
    <3>2. CASE w.on # m
      BY <1>1, <2>1, <2>3, <3>2
    <3>3. CASE w.on = m /\ w.do # f
      <4>1. CASE w.do = "ops"
        <5>1. bridge' = [bridge EXCEPT ![m].ops = w.arg]
          BY <2>1, <3>3, <4>1
        <5>2. bridge'[m] = [bridge[m] EXCEPT !.ops = w.arg]
          BY <1>1, <5>1
        <5>3. bridge'[m].first = bridge[m].first /\ bridge'[m].second = bridge[m].second
          BY <1>1, <5>2
        <5> QED BY <3>3, <4>1, <5>3
      <4>2. CASE w.do = "first"
        <5>1. bridge' = [bridge EXCEPT ![m].first = w.arg]
          BY <2>1, <3>3, <4>2
        <5>2. bridge'[m] = [bridge[m] EXCEPT !.first = w.arg]
          BY <1>1, <5>1
        <5>3. bridge'[m].ops = bridge[m].ops /\ bridge'[m].second = bridge[m].second
          BY <1>1, <5>2
        <5> QED BY <3>3, <4>2, <5>3
      <4>3. CASE w.do = "second"
        <5>1. bridge' = [bridge EXCEPT ![m].second = w.arg]
          BY <2>1, <3>3, <4>3
        <5>2. bridge'[m] = [bridge[m] EXCEPT !.second = w.arg]
          BY <1>1, <5>1
        <5>3. bridge'[m].ops = bridge[m].ops /\ bridge'[m].first = bridge[m].first
          BY <1>1, <5>2
        <5> QED BY <3>3, <4>3, <5>3
      <4> QED BY <2>3, <4>1, <4>2, <4>3
    <3> QED BY <3>1, <3>2, <3>3
  <2> QED BY <2>2, <2>3
<1>4. G \subseteq A
  BY DEF Leaves
<1>5. \/ EndsIn(Tail(todo), A, G)
      \/ w \in G /\ Silent(Tail(todo), A)
      \/ w \notin A /\ Silent(Tail(todo), A) /\ bridge[m][f] = v
  BY <1>1, DueStep DEF BridgeDue
<1> HIDE DEF w, A, G
<1>6. \/ EndsIn(Tail(todo), A, G)
      \/ Silent(Tail(todo), A) /\ bridge'[m][f] = v
  BY <1>2, <1>3, <1>4, <1>5
<1> QED BY <1>1, <1>6 DEF BridgeDue, A, G

(* The same for the level of the second pin *)
LEMMA ValueDueStep ==
  ASSUME BridgeTypes, InitStep, NEW m \in Motors, NEW p \in Own[m], ValueDue(m, p)
  PROVE  ValueDue(m, p)'
<1> DEFINE w == Head(todo)
           A == Touch("value", p) \cup Touch("ops", m)
           G == Leaves("value", p, 1)
<1>1. /\ todo \in Seq(Writes) /\ todo # <<>> /\ todo' = Tail(todo) /\ w \in Writes
      /\ pin \in [BridgePins -> PinSet] /\ p \in BridgePins
  BY NextWrite, Owner DEF BridgeTypes, BridgeTypeOK, InitStep, PinSet
<1>2. w.do \in {"ops", "first", "second"} => pin' = pin /\ w \notin G
  BY <1>1 DEF InitStep, Leaves, Touch
<1>3. w.do \notin {"ops", "first", "second"} =>
        /\ w \in G => pin'[p].value = 1
        /\ w \notin A => pin'[p].value = pin[p].value
  <2>1. w.do \notin {"ops", "first", "second"} => pin' = Written(pin, w)
    BY DEF InitStep
  <2> HIDE DEF w
  <2>2. w.do \notin {"ops", "first", "second"} =>
          /\ w \in G => Written(pin, w)[p]["value"] = 1
          /\ w \notin Touch("value", p) => Written(pin, w)[p]["value"] = pin[p]["value"]
    BY <1>1, WrittenPin
  <2> QED BY <2>1, <2>2
<1>4. \/ EndsIn(Tail(todo), A, G)
      \/ w \in G /\ Silent(Tail(todo), A)
      \/ w \notin A /\ Silent(Tail(todo), A) /\ pin[p].value = 1
  BY <1>1, DueStep DEF ValueDue
<1> HIDE DEF w, A, G
<1>5. \/ EndsIn(Tail(todo), A, G)
      \/ Silent(Tail(todo), A) /\ pin'[p].value = 1
  BY <1>2, <1>3, <1>4
<1> QED BY <1>1, <1>5 DEF ValueDue, A, G

(* A write keeps the state well formed. *)
LEMMA InitTypes ==
  ASSUME BridgeTypes, InitStep
  PROVE  BridgeTypes'
<1> DEFINE w == Head(todo)
<1>1. /\ todo \in Seq(Writes) /\ todo # <<>> /\ todo' = Tail(todo) /\ w \in Writes
      /\ todo' \in Seq(Writes) /\ UNCHANGED <<timer, applied>>
  BY NextWrite DEF BridgeTypes, InitStep
<1>2. CASE w.do \notin {"ops", "first", "second"}
  <2>1. bridge' = bridge /\ pin' = Written(pin, w)
    BY <1>2 DEF InitStep
  <2>2. pin' \in [BridgePins -> PinSet]
    <3>1. pin \in [BridgePins -> PinSet]
      BY DEF BridgeTypes, BridgeTypeOK, PinSet
    <3> HIDE DEF w
    <3> QED BY <1>1, <1>2, <2>1, <3>1, WrittenPin
  <2> QED BY <1>1, <2>1, <2>2 DEF BridgeTypes, BridgeTypeOK, PinSet
<1>3. CASE w.do \in {"ops", "first", "second"}
  <2> DEFINE m == w.on
             BridgeSet == [ops : Types \cup {"none"}, first : BridgePins \cup {0},
                           second : BridgePins \cup {0}]
  <2>1. bridge' = [bridge EXCEPT ![m][w.do] = w.arg] /\ pin' = pin
    BY <1>3 DEF InitStep
  <2>2. /\ m \in Motors
        /\ w.do = "ops" => w.arg \in Types
        /\ w.do # "ops" => w.arg \in Own[m] /\ w.arg \in BridgePins
    <3> HIDE DEF w
    <3> QED BY <1>1, <1>3, WriteTypes, Owner
  <2>3. bridge \in [Motors -> BridgeSet] /\ bridge[m] \in BridgeSet
    BY <2>2 DEF BridgeTypes, BridgeTypeOK
  <2>4. \E r \in BridgeSet :
          /\ bridge' = [bridge EXCEPT ![m] = r]
          /\ r.ops = bridge[m].ops \/ r.ops \in Types
          /\ {r.first, r.second} \subseteq Own[m] \cup {0}
    <3>1. {bridge[m].first, bridge[m].second} \subseteq Own[m] \cup {0}
      BY <2>2 DEF BridgeTypes
    <3>2. CASE w.do = "ops"
      <4> DEFINE r == [bridge[m] EXCEPT !.ops = w.arg]
      <4>1. bridge' = [bridge EXCEPT ![m].ops = w.arg]
        BY <2>1, <3>2
      <4> HIDE DEF w, m
      <4>2. r \in BridgeSet /\ r.ops \in Types
            /\ r.first = bridge[m].first /\ r.second = bridge[m].second
        BY <2>2, <2>3, <3>2
      <4>3. bridge' = [bridge EXCEPT ![m] = r]
        BY <2>2, <2>3, <4>1
      <4> HIDE DEF r
      <4> QED BY <3>1, <4>2, <4>3
    <3>3. CASE w.do = "first"
      <4> DEFINE r == [bridge[m] EXCEPT !.first = w.arg]
      <4>1. bridge' = [bridge EXCEPT ![m].first = w.arg]
        BY <2>1, <3>3
      <4> HIDE DEF w, m
      <4>2. r \in BridgeSet /\ r.ops = bridge[m].ops
            /\ r.first = w.arg /\ r.second = bridge[m].second
        BY <2>2, <2>3, <3>3
      <4>3. bridge' = [bridge EXCEPT ![m] = r]
        BY <2>2, <2>3, <4>1
      <4> HIDE DEF r
      <4> QED BY <2>2, <3>1, <3>3, <4>2, <4>3
    <3>4. CASE w.do = "second"
      <4> DEFINE r == [bridge[m] EXCEPT !.second = w.arg]
      <4>1. bridge' = [bridge EXCEPT ![m].second = w.arg]
        BY <2>1, <3>4
      <4> HIDE DEF w, m
      <4>2. r \in BridgeSet /\ r.ops = bridge[m].ops
            /\ r.first = bridge[m].first /\ r.second = w.arg
        BY <2>2, <2>3, <3>4
      <4>3. bridge' = [bridge EXCEPT ![m] = r]
        BY <2>2, <2>3, <4>1
      <4> HIDE DEF r
      <4> QED BY <2>2, <3>1, <3>4, <4>2, <4>3
    <3> QED BY <1>3, <3>2, <3>3, <3>4
  <2>5. PICK r \in BridgeSet :
          /\ bridge' = [bridge EXCEPT ![m] = r]
          /\ r.ops = bridge[m].ops \/ r.ops \in Types
          /\ {r.first, r.second} \subseteq Own[m] \cup {0}
    BY <2>4
  <2> HIDE DEF w, m
  <2>6. /\ bridge' \in [Motors -> BridgeSet]
        /\ \A n \in Motors : bridge'[n] = IF n = m THEN r ELSE bridge[n]
    <3> HIDE DEF BridgeSet
    <3> QED BY <2>2, <2>3, <2>5
  <2>7. "none" \notin Types
    BY DEF Types
  <2>8. timer' => \A n \in Motors : bridge'[n].ops # "none"
    BY <1>1, <2>2, <2>5, <2>6, <2>7 DEF BridgeTypes, BridgeTypeOK
  <2>9. \A n \in Motors : {bridge'[n].first, bridge'[n].second} \subseteq Own[n] \cup {0}
    BY <2>2, <2>5, <2>6 DEF BridgeTypes
  <2> QED BY <1>1, <2>1, <2>6, <2>8, <2>9 DEF BridgeTypes, BridgeTypeOK
<1> QED BY <1>2, <1>3

(* Whatever the bridges are becoming, a write brings them nearer. *)
LEMMA BecomingStep ==
  ASSUME BridgeTypes, InitStep, NEW t \in Types, Becoming(t)
  PROVE  Becoming(t)'
<1> SUFFICES ASSUME NEW m \in Motors
             PROVE  BridgeBecomes(t, m)' /\ PinsBecome(t, m)'
  BY DEF Becoming
<1>1. BridgeBecomes(t, m) /\ PinsBecome(t, m)
  BY DEF Becoming
<1>2. BridgeBecomes(t, m)'
  BY <1>1, BridgeDueStep DEF BridgeBecomes
<1>3. \A p \in Own[m] :
        /\ PinDue("dir", p, IF p \in Used(t, m) THEN "Output" ELSE "Input")'
        /\ PinDue("enabled", p, p \in Pwm(t, m))'
  BY <1>1, PinDueStep, Owner DEF PinsBecome
<1>4. t = "HalfCyclePWM" => ValueDue(m, Wiring[t][m].second)'
  BY <1>1, ValueDueStep, Wires DEF PinsBecome
<1> QED BY <1>2, <1>3, <1>4 DEF PinsBecome
----------------------------------------------------------------------------
(* hBridgeInit *)

(* The bridge of motor m is, pins and all, of the type that its operations *)
(* say, or of none.                                                        *)
AtRest(m) ==
  /\ Settled(bridge[m], m)
  /\ \A p \in Own[m] :
       /\ pin[p].dir = IF p \in OutPins(bridge[m], m) THEN "Output" ELSE "Input"
       /\ pin[p].enabled = (p \in PwmPins(bridge[m], m))

(* What has no more writes to come is what it was to become. *)
LEMMA Settling ==
  ASSUME NEW t \in Types, Becoming(t), todo = <<>>, NEW m \in Motors
  PROVE  /\ bridge[m].ops = t
         /\ bridge[m].first = Wiring[t][m].first
         /\ bridge[m].second = Wiring[t][m].second
         /\ AtRest(m)
         /\ t = "HalfCyclePWM" => pin[Wiring[t][m].second].value = 1
<1>1. \A A, G : ~EndsIn(todo, A, G)
  BY DEF EndsIn
<1>2. BridgeBecomes(t, m) /\ PinsBecome(t, m)
  BY DEF Becoming
<1>3. /\ bridge[m].ops = t
      /\ bridge[m].first = Wiring[t][m].first
      /\ bridge[m].second = Wiring[t][m].second
  BY <1>1, <1>2 DEF BridgeBecomes, BridgeDue
<1>4. \A p \in Own[m] :
        /\ pin[p].dir = IF p \in Used(t, m) THEN "Output" ELSE "Input"
        /\ pin[p].enabled = (p \in Pwm(t, m))
  BY <1>1, <1>2 DEF PinsBecome, PinDue
<1>5. t = "HalfCyclePWM" => pin[Wiring[t][m].second].value = 1
  BY <1>1, <1>2 DEF PinsBecome, ValueDue
<1>6. t # "none"
  BY DEF Types
<1>7. Settled(bridge[m], m)
  BY <1>3 DEF Settled
<1>8. OutPins(bridge[m], m) = Used(t, m) /\ PwmPins(bridge[m], m) = Pwm(t, m)
  BY <1>3, <1>6 DEF OutPins, PwmPins
<1> QED BY <1>3, <1>4, <1>5, <1>7, <1>8 DEF AtRest

(* At boot no pin is an output. *)
LEMMA FreshAtRest ==
  ASSUME Fresh, NEW m \in Motors
  PROVE  AtRest(m)
<1>1. bridge[m].ops = "none"
  BY DEF Fresh
<1>2. \A p \in BridgePins : pin[p].dir = "Input" /\ pin[p].enabled = FALSE
  BY DEF Fresh
<1>4. \A p \in Own[m] : pin[p].dir = "Input" /\ pin[p].enabled = FALSE
  BY <1>2, Owner
<1>3. OutPins(bridge[m], m) = {} /\ PwmPins(bridge[m], m) = {}
  BY <1>1 DEF OutPins, PwmPins
<1>5. \A p : (p \in PwmPins(bridge[m], m)) = FALSE /\ p \notin OutPins(bridge[m], m)
  BY <1>3
<1> QED BY <1>1, <1>4, <1>5, Zenon DEF AtRest, Settled

(* The writes of both motors: what those for the other do not touch is as  *)
(* those for the motor leave it.                                           *)
LEMMA BothMotors ==
  ASSUME NEW t \in Types, NEW q1 \in Seq(WritesOf(1)), NEW q2 \in Seq(WritesOf(2)),
         NEW m \in Motors, NEW A, NEW G,
         Silent(IF m = 1 THEN q2 ELSE q1, A)
  PROVE  /\ q1 \o q2 \in Seq(Writes)
         /\ EndsIn(IF m = 1 THEN q1 ELSE q2, A, G) => EndsIn(q1 \o q2, A, G)
         /\ Silent(IF m = 1 THEN q1 ELSE q2, A) => Silent(q1 \o q2, A)
<1>1. q1 \in Seq(Writes) /\ q2 \in Seq(Writes)
  BY DEF Writes
<1>2. /\ q1 \o q2 \in Seq(Writes)
      /\ EndsIn(q2, A, G) => EndsIn(q1 \o q2, A, G)
      /\ EndsIn(q1, A, G) /\ Silent(q2, A) => EndsIn(q1 \o q2, A, G)
      /\ Silent(q1, A) /\ Silent(q2, A) => Silent(q1 \o q2, A)
  BY <1>1, Joined, Zenon
<1>3. CASE m = 1
  BY <1>2, <1>3
<1>4. CASE m = 2
  BY <1>2, <1>4
<1> QED BY <1>3, <1>4 DEF Motors

(* From rest, the writes of hBridgeInit make any type of the bridges. *)
LEMMA Begins ==
  ASSUME NEW t \in Types, \A m \in Motors : AtRest(m), UNCHANGED <<bridge, pin>>,
         todo' = Setup(t, 1) \o Setup(t, 2)
  PROVE  todo' \in Seq(Writes) /\ Becoming(t)'
<1> DEFINE Q(m) == IF m = 1 THEN Setup(t, 1) ELSE Setup(t, 2)
<1>1. \A m \in Motors : Settled(bridge[m], m) /\ Q(m) = Setup(t, m)
  BY DEF AtRest, Motors
<1>2. \A m \in Motors : Setup(t, m) \in Seq(WritesOf(m))
  BY <1>1, SetupEnds
<1>3. ASSUME NEW m \in Motors, NEW A, NEW G, NEW n \in Motors, n # m,
             Silent(Setup(t, n), A)
      PROVE  /\ todo' \in Seq(Writes)
             /\ EndsIn(Setup(t, m), A, G) => EndsIn(todo', A, G)
             /\ Silent(Setup(t, m), A) => Silent(todo', A)
  <2> DEFINE q1 == Setup(t, 1)
             q2 == Setup(t, 2)
  <2>1. q1 \in Seq(WritesOf(1)) /\ q2 \in Seq(WritesOf(2)) /\ todo' = q1 \o q2
    BY <1>2 DEF Motors
  <2>2. /\ Setup(t, m) = IF m = 1 THEN q1 ELSE q2
        /\ Setup(t, n) = IF m = 1 THEN q2 ELSE q1
    BY <1>3 DEF Motors
  <2> HIDE DEF q1, q2
  <2>3. Silent(IF m = 1 THEN q2 ELSE q1, A)
    BY <1>3, <2>2
  <2>4. /\ q1 \o q2 \in Seq(Writes)
        /\ EndsIn(IF m = 1 THEN q1 ELSE q2, A, G) => EndsIn(q1 \o q2, A, G)
        /\ Silent(IF m = 1 THEN q1 ELSE q2, A) => Silent(q1 \o q2, A)
    BY <2>1, <2>3, BothMotors, Zenon
  <2> QED BY <2>1, <2>2, <2>4
<1>4. ASSUME NEW m \in Motors
      PROVE  todo' \in Seq(Writes) /\ BridgeBecomes(t, m)' /\ PinsBecome(t, m)'
  <2>1. PICK n \in Motors : n # m
    BY DEF Motors
  <2>2. Setup(t, n) \in Seq(WritesOf(n))
    BY <1>2
  <2>3. /\ \A p \in Own[m], f \in {"dir", "enabled", "value"} :
             Silent(Setup(t, n), Touch(f, p))
        /\ \A f \in {"ops", "first", "second"} : Silent(Setup(t, n), Touch(f, m))
    BY <2>1, <2>2, OtherMotor
  <2> DEFINE q == Setup(t, m)
             b == bridge[m]
             s == Wiring[t][m].second
  <2>4. /\ EndsIn(q, Touch("ops", m), Leaves("ops", m, t))
        /\ EndsIn(q, Touch("first", m), Leaves("first", m, Wiring[t][m].first))
        /\ EndsIn(q, Touch("second", m), Leaves("second", m, s))
        /\ \A p \in Own[m] :
             /\ p \in Used(t, m)
                  => EndsIn(q, Touch("dir", p), Leaves("dir", p, "Output"))
             /\ p \notin Used(t, m) /\ p \in OutPins(b, m)
                  => EndsIn(q, Touch("dir", p), Leaves("dir", p, "Input"))
             /\ p \notin Used(t, m) /\ p \notin OutPins(b, m)
                  => Silent(q, Touch("dir", p))
             /\ p \in Pwm(t, m)
                  => EndsIn(q, Touch("enabled", p), Leaves("enabled", p, TRUE))
             /\ p \notin Pwm(t, m) /\ p \in PwmPins(b, m)
                  => EndsIn(q, Touch("enabled", p), Leaves("enabled", p, FALSE))
             /\ p \notin Pwm(t, m) /\ p \notin PwmPins(b, m)
                  => Silent(q, Touch("enabled", p))
        /\ t = "HalfCyclePWM" =>
             EndsIn(q, Touch("value", s) \cup Touch("ops", m), Leaves("value", s, 1))
    BY <1>1, SetupEnds
  <2> HIDE DEF q, b, s
  <2>5. \A A, G : Silent(Setup(t, n), A) =>
          /\ EndsIn(q, A, G) => EndsIn(todo', A, G)
          /\ Silent(q, A) => Silent(todo', A)
    BY <1>3, <2>1 DEF q
  <2>6. todo' \in Seq(Writes)
    BY <1>3, <2>1, <2>3
  <2>7. BridgeBecomes(t, m)'
    <3>1. /\ EndsIn(todo', Touch("ops", m), Leaves("ops", m, t))
          /\ EndsIn(todo', Touch("first", m), Leaves("first", m, Wiring[t][m].first))
          /\ EndsIn(todo', Touch("second", m), Leaves("second", m, Wiring[t][m].second))
      BY <2>3, <2>4, <2>5 DEF s
    <3> QED BY <3>1 DEF BridgeBecomes, BridgeDue
  <2>8. ASSUME NEW p \in Own[m]
        PROVE  /\ PinDue("dir", p, IF p \in Used(t, m) THEN "Output" ELSE "Input")'
               /\ PinDue("enabled", p, p \in Pwm(t, m))'
    <3>1. Silent(Setup(t, n), Touch("dir", p)) /\ Silent(Setup(t, n), Touch("enabled", p))
      BY <2>3
    <3>2. /\ pin'[p].dir = IF p \in OutPins(b, m) THEN "Output" ELSE "Input"
          /\ pin'[p].enabled = (p \in PwmPins(b, m))
      BY DEF AtRest, b
    <3>3. PinDue("dir", p, IF p \in Used(t, m) THEN "Output" ELSE "Input")'
      <4>1. CASE p \in Used(t, m)
        BY <2>4, <2>5, <3>1, <4>1 DEF PinDue
      <4>2. CASE p \notin Used(t, m) /\ p \in OutPins(b, m)
        BY <2>4, <2>5, <3>1, <4>2 DEF PinDue
      <4>3. CASE p \notin Used(t, m) /\ p \notin OutPins(b, m)
        BY <2>4, <2>5, <3>1, <3>2, <4>3 DEF PinDue
      <4> QED BY <4>1, <4>2, <4>3
    <3>4. PinDue("enabled", p, p \in Pwm(t, m))'
      <4>1. CASE p \in Pwm(t, m)
        <5>1. EndsIn(todo', Touch("enabled", p), Leaves("enabled", p, TRUE))
          BY <2>4, <2>5, <3>1, <4>1
        <5>2. (p \in Pwm(t, m)) = TRUE
          BY <4>1
        <5> QED BY <5>1, <5>2 DEF PinDue
      <4>2. CASE p \notin Pwm(t, m)
        <5>1. (p \in Pwm(t, m)) = FALSE
          BY <4>2
        <5>2. CASE p \in PwmPins(b, m)
          <6>1. EndsIn(todo', Touch("enabled", p), Leaves("enabled", p, FALSE))
            BY <2>4, <2>5, <3>1, <4>2, <5>2
          <6> QED BY <5>1, <6>1 DEF PinDue
        <5>3. CASE p \notin PwmPins(b, m)
          <6>1. Silent(todo', Touch("enabled", p))
            BY <2>4, <2>5, <3>1, <4>2, <5>3, Zenon
          <6>2. pin'[p].enabled = FALSE
            <7>1. (p \in PwmPins(b, m)) = FALSE
              BY <5>3
            <7> QED BY <3>2, <7>1, Zenon
          <6> QED BY <5>1, <6>1, <6>2 DEF PinDue
        <5> QED BY <5>2, <5>3
      <4> QED BY <4>1, <4>2
    <3> QED BY <3>3, <3>4
  <2>9. ASSUME t = "HalfCyclePWM"
        PROVE  ValueDue(m, Wiring[t][m].second)'
    <3>1. s \in Own[m]
      BY Wires DEF s
    <3>2. Silent(Setup(t, n), Touch("value", s) \cup Touch("ops", m))
      BY <2>3, <3>1 DEF Silent
    <3>3. EndsIn(todo', Touch("value", s) \cup Touch("ops", m), Leaves("value", s, 1))
      BY <2>4, <2>5, <2>9, <3>2
    <3> QED BY <3>3 DEF ValueDue, s
  <2> QED BY <2>6, <2>7, <2>8, <2>9 DEF PinsBecome
<1> QED BY <1>4 DEF Becoming, Motors
----------------------------------------------------------------------------
(* Calls of hBridgeInit *)

(* Nothing is due to what does not change. *)
LEMMA BecomingStays ==
  ASSUME NEW t \in Types, Becoming(t), UNCHANGED <<bridge, pin, todo>>
  PROVE  Becoming(t)'
BY DEF Becoming, BridgeBecomes, BridgeDue, PinsBecome, PinDue, ValueDue

(* hBridgeInit is called at rest, by the main program only. *)
LEMMA InitCall ==
  ASSUME BridgeInv, NEW t \in Types \cup {"unknown"}, hBridgeInit(t)
  PROVE  BridgeInv'
<1>1. todo = <<>> /\ applied' = <<>> /\ UNCHANGED <<bridge, pin, timer>>
  BY DEF hBridgeInit
<1>2. Obeyed'
  BY <1>1 DEF Obeyed
<1>3. todo' \in Seq(Writes) => BridgeTypes'
  BY <1>1 DEF BridgeInv, BridgeTypes, BridgeTypeOK
<1>4. CASE t \in Types
  <2>1. todo' = Setup(t, 1) \o Setup(t, 2)
    BY <1>4 DEF hBridgeInit
  <2>2. \A m \in Motors : AtRest(m)
    <3>1. CASE Fresh
      BY <3>1, FreshAtRest
    <3>2. CASE \E o \in Types : Becoming(o)
      BY <1>1, <3>2, Settling
    <3> QED BY <3>1, <3>2 DEF BridgeInv
  <2>3. todo' \in Seq(Writes) /\ Becoming(t)'
    BY <1>1, <1>4, <2>1, <2>2, Begins
  <2> QED BY <1>2, <1>3, <1>4, <2>3 DEF BridgeInv
<1>5. CASE t \notin Types
  <2>1. todo' = <<>> /\ todo' = todo
    BY <1>1, <1>5 DEF hBridgeInit
  <2>2. todo' \in Seq(Writes)
    BY <2>1
  <2>3. Fresh => Fresh'
    BY <1>1, <2>1 DEF Fresh
  <2>4. \A o \in Types : Becoming(o) => Becoming(o)'
    BY <1>1, <2>1, BecomingStays
  <2> QED BY <1>2, <1>3, <2>2, <2>3, <2>4 DEF BridgeInv
<1> QED BY <1>4, <1>5
----------------------------------------------------------------------------
(* The tick *)

(* Writing a duty cycle *)
LEMMA DutyWritten ==
  ASSUME NEW pins \in [BridgePins -> PinSet], NEW n, NEW v \in Int,
         NEW q, q = Written(pins, Duty(n, v))
  PROVE  /\ q \in [BridgePins -> PinSet]
         /\ \A p \in BridgePins :
              /\ q[p].duty = IF p = n THEN v % 256 ELSE pins[p].duty
              /\ q[p].enabled = pins[p].enabled
              /\ q[p].dir = pins[p].dir /\ q[p].value = pins[p].value
              /\ p # n => q[p] = pins[p]
<1> DEFINE d == v % 256
<1>1. d \in 0 .. 255
  OBVIOUS
<1>2. q = [pins EXCEPT ![n].duty = d]
  BY DEF Written, Duty, Put
<1> HIDE DEF d
<1>3. CASE n \notin BridgePins
  <2>1. q = pins
    BY <1>2, <1>3
  <2> QED BY <1>3, <2>1
<1>4. CASE n \in BridgePins
  <2> DEFINE r == [pins[n] EXCEPT !.duty = d]
  <2>1. pins[n] \in PinSet
    BY <1>4
  <2>2. /\ r \in PinSet /\ r.duty = d /\ r.enabled = pins[n].enabled
        /\ r.dir = pins[n].dir /\ r.value = pins[n].value
    BY <1>1, <2>1 DEF PinSet
  <2>3. q = [pins EXCEPT ![n] = r]
    BY <1>2, <1>4
  <2> HIDE DEF r
  <2>4. /\ q \in [BridgePins -> PinSet] /\ q[n] = r
        /\ \A p \in BridgePins : p # n => q[p] = pins[p]
    BY <1>4, <2>2, <2>3
  <2> QED BY <1>4, <2>2, <2>4 DEF d
<1> QED BY <1>3, <1>4

(* Writing a level *)
LEMMA ValueWritten ==
  ASSUME NEW pins \in [BridgePins -> PinSet], NEW n, NEW v \in {0, 1},
         NEW q, q = Written(pins, Value(n, v))
  PROVE  /\ q \in [BridgePins -> PinSet]
         /\ \A p \in BridgePins :
              /\ q[p].value = IF p = n THEN v ELSE pins[p].value
              /\ q[p].enabled = pins[p].enabled
              /\ q[p].dir = pins[p].dir /\ q[p].duty = pins[p].duty
              /\ p # n => q[p] = pins[p]
<1>2. q = [pins EXCEPT ![n].value = v]
  BY DEF Written, Value, Put
<1>3. CASE n \notin BridgePins
  <2>1. q = pins
    BY <1>2, <1>3
  <2> QED BY <1>3, <2>1
<1>4. CASE n \in BridgePins
  <2> DEFINE r == [pins[n] EXCEPT !.value = v]
  <2>1. pins[n] \in PinSet
    BY <1>4
  <2>2. /\ r \in PinSet /\ r.value = v /\ r.enabled = pins[n].enabled
        /\ r.dir = pins[n].dir /\ r.duty = pins[n].duty
    BY <2>1 DEF PinSet
  <2>3. q = [pins EXCEPT ![n] = r]
    BY <1>2, <1>4
  <2> HIDE DEF r
  <2>4. /\ q \in [BridgePins -> PinSet] /\ q[n] = r
        /\ \A p \in BridgePins : p # n => q[p] = pins[p]
    BY <1>4, <2>2, <2>3
  <2> QED BY <1>4, <2>2, <2>4
<1> QED BY <1>3, <1>4

(* What the PWM gets fits its eight bits. *)
LEMMA Saturated ==
  ASSUME NEW v \in Int
  PROVE  /\ Clamp(v) \in -255 .. 255 /\ Norm(Clamp(v)) \in 0 .. 255
         /\ Norm(v) \in Nat /\ Half(Clamp(v)) \in -127 .. 127
         /\ v >= 0 => Norm(Clamp(v)) = Clamp(v) /\ Clamp(v) \in 0 .. 255
         /\ v < 0 => Norm(Clamp(v)) = -Clamp(v) /\ -Clamp(v) \in 0 .. 255
         /\ Norm(2 * Half(Clamp(v)) - Clamp(v)) <= 1
<1> DEFINE c == Clamp(v)
<1>1. /\ c \in -255 .. 255
      /\ v >= 0 => c >= 0
      /\ v < 0 => c < 0
  BY DEF Clamp
<1>2. Norm(v) \in Nat
  BY DEF Norm
<1> HIDE DEF c
<1>3. /\ Norm(c) \in 0 .. 255
      /\ c >= 0 => Norm(c) = c /\ c \in 0 .. 255
      /\ c < 0 => Norm(c) = -c /\ -c \in 0 .. 255
  BY <1>1 DEF Norm
<1>4. Half(c) \in -127 .. 127 /\ Norm(2 * Half(c) - c) <= 1
  <2>1. CASE c >= 0
    <3>1. Half(c) = c \div 2
      BY <1>1, <2>1 DEF Half
    <3>2. c \div 2 \in 0 .. 127 /\ 2 * (c \div 2) - c \in -1 .. 0
      BY <1>1, <2>1
    <3> QED BY <3>1, <3>2 DEF Norm
  <2>2. CASE c < 0
    <3> DEFINE k == -c
    <3>0. k \in 1 .. 255 /\ c = -k
      BY <1>1, <2>2
    <3> HIDE DEF k
    <3>1. Half(c) = -(k \div 2)
      BY <1>1, <2>2, <3>0 DEF Half, k
    <3>2. k \div 2 \in 0 .. 127 /\ 2 * (k \div 2) - k \in -1 .. 0
      BY <3>0
    <3>3. k \div 2 \in Int
      BY <3>2
    <3> DEFINE h == k \div 2
    <3> HIDE DEF h
    <3>4. h \in 0 .. 127 /\ 2 * h - k \in -1 .. 0 /\ Half(c) = -h
      BY <3>1, <3>2 DEF h
    <3> QED BY <3>0, <3>4 DEF Norm
  <2> QED BY <1>1, <2>1, <2>2
<1> QED BY <1>1, <1>2, <1>3, <1>4 DEF c

(* What the function that sets the speed leaves alone *)
LEMMA SpeedFrame ==
  ASSUME NEW pins \in [BridgePins -> PinSet], NEW b, b.ops \in Types,
         NEW speed \in Int, NEW q, q = HBridge_setSpeed(pins, b, speed)
  PROVE  /\ q \in [BridgePins -> PinSet]
         /\ \A p \in BridgePins :
              /\ q[p].enabled = pins[p].enabled /\ q[p].dir = pins[p].dir
              /\ p \notin {b.first, b.second} => q[p] = pins[p]
              /\ b.ops = "HalfCyclePWM" => q[p].value = pins[p].value
<1> DEFINE c == Clamp(speed)
<1>6. c \in -255 .. 255 /\ Norm(c) \in 0 .. 255 /\ Half(c) \in -127 .. 127
  BY Saturated
<1> HIDE DEF c
<1>1. c \in Int /\ -c \in Int /\ Norm(c) \in Int /\ 127 + Half(c) \in Int
  BY <1>6
<1>2. CASE b.ops = "PWMDir"
  <2> DEFINE v == IF speed >= 0 THEN 0 ELSE 1
             u == Written(pins, Value(b.second, v))
  <2>1. v \in {0, 1}
    OBVIOUS
  <2>2. q = Written(u, Duty(b.first, Norm(c)))
    BY <1>2 DEF HBridge_setSpeed, PWMDir_setSpeed, c
  <2> HIDE DEF v
  <2>3. /\ u \in [BridgePins -> PinSet]
        /\ \A p \in BridgePins :
             /\ u[p].enabled = pins[p].enabled /\ u[p].dir = pins[p].dir
             /\ p # b.second => u[p] = pins[p]
    BY <2>1, ValueWritten
  <2> HIDE DEF u
  <2>4. /\ q \in [BridgePins -> PinSet]
        /\ \A p \in BridgePins :
             /\ q[p].enabled = u[p].enabled /\ q[p].dir = u[p].dir
             /\ p # b.first => q[p] = u[p]
    BY <1>1, <2>2, <2>3, DutyWritten
  <2> QED BY <1>2, <2>3, <2>4
<1>3. ASSUME NEW x \in Int, NEW y \in Int,
             q = Written(Written(pins, Duty(b.first, x)), Duty(b.second, y)),
             b.ops = "DualPWM"
      PROVE  /\ q \in [BridgePins -> PinSet]
             /\ \A p \in BridgePins :
                  /\ q[p].enabled = pins[p].enabled /\ q[p].dir = pins[p].dir
                  /\ p \notin {b.first, b.second} => q[p] = pins[p]
                  /\ b.ops = "HalfCyclePWM" => q[p].value = pins[p].value
  <2> DEFINE u == Written(pins, Duty(b.first, x))
  <2>3. /\ u \in [BridgePins -> PinSet]
        /\ \A p \in BridgePins :
             /\ u[p].enabled = pins[p].enabled /\ u[p].dir = pins[p].dir
             /\ p # b.first => u[p] = pins[p]
    BY DutyWritten
  <2>2. q = Written(u, Duty(b.second, y))
    BY <1>3
  <2> HIDE DEF u
  <2>4. /\ q \in [BridgePins -> PinSet]
        /\ \A p \in BridgePins :
             /\ q[p].enabled = u[p].enabled /\ q[p].dir = u[p].dir
             /\ p # b.second => q[p] = u[p]
    BY <1>3, <2>2, <2>3, DutyWritten
  <2> QED BY <1>3, <2>3, <2>4
<1>4. CASE b.ops = "DualPWM"
  <2>1. CASE speed >= 0
    <3>1. q = Written(Written(pins, Duty(b.first, c)), Duty(b.second, 0))
      BY <1>4, <2>1 DEF HBridge_setSpeed, DualPWM_setSpeed, c
    <3> QED BY <1>1, <1>3, <1>4, <3>1
  <2>2. CASE ~(speed >= 0)
    <3>1. q = Written(Written(pins, Duty(b.first, 0)), Duty(b.second, -c))
      BY <1>4, <2>2 DEF HBridge_setSpeed, DualPWM_setSpeed, c
    <3> QED BY <1>1, <1>3, <1>4, <3>1
  <2> QED BY <2>1, <2>2
<1>5. CASE b.ops = "HalfCyclePWM"
  <2>1. q = Written(pins, Duty(b.first, 127 + Half(c)))
    BY <1>5 DEF HBridge_setSpeed, HalfPWM_setSpeed, c
  <2>2. /\ q \in [BridgePins -> PinSet]
        /\ \A p \in BridgePins :
             /\ q[p].enabled = pins[p].enabled /\ q[p].dir = pins[p].dir
             /\ q[p].value = pins[p].value
             /\ p # b.first => q[p] = pins[p]
    BY <1>1, <2>1, DutyWritten
  <2> QED BY <2>2
<1> QED BY <1>2, <1>4, <1>5 DEF Types

(* A bridge at rest does as it is told, up to the rounding of one step. *)
LEMMA SpeedDrive ==
  ASSUME NEW m \in Motors, NEW t \in Types, NEW b,
         NEW f, f = Wiring[t][m].first, NEW s, s = Wiring[t][m].second,
         b.ops = t, b.first = f, b.second = s,
         NEW pins \in [BridgePins -> PinSet],
         pins[f].dir = "Output", pins[s].dir = "Output",
         pins[f].enabled = TRUE, pins[s].enabled = (t = "DualPWM"),
         t = "HalfCyclePWM" => pins[s].value = 1,
         NEW speed \in Int, NEW q, q = HBridge_setSpeed(pins, b, speed)
  PROVE  Norm(Drive(q, b) - Clamp(speed)) <= 1
<1> DEFINE c == Clamp(speed)
<1>1. f \in BridgePins /\ s \in BridgePins /\ f # s
  BY Wires, Owner
<1>2. /\ c \in -255 .. 255 /\ Norm(c) \in 0 .. 255 /\ Half(c) \in -127 .. 127
      /\ speed >= 0 => Norm(c) = c /\ c \in 0 .. 255
      /\ speed < 0 => Norm(c) = -c /\ -c \in 0 .. 255
      /\ Norm(2 * Half(c) - c) <= 1
  BY Saturated
<1> HIDE DEF c
<1>3. /\ q \in [BridgePins -> PinSet]
      /\ q[f].enabled = TRUE /\ q[s].enabled = (t = "DualPWM")
      /\ q[f].dir = "Output" /\ q[s].dir = "Output"
      /\ t = "HalfCyclePWM" => q[s].value = 1
  BY <1>1, SpeedFrame
<1>4. q[f].duty \in 0 .. 255 /\ q[s].duty \in 0 .. 255
  BY <1>1, <1>3 DEF PinSet
<1>10. /\ q[b.first].enabled /\ q[b.first].dir = "Output"
       /\ q[b.second].dir = "Output"
       /\ t = "DualPWM" => q[b.second].enabled
       /\ t # "DualPWM" => ~q[b.second].enabled
       /\ t = "HalfCyclePWM" => q[b.second].value = 1
  BY <1>3
<1>5. Norm(0) = 0
  BY DEF Norm
<1>6. \A n \in 0 .. 255 : n % 256 = n
  OBVIOUS
<1>7. CASE t = "PWMDir"
  <2> DEFINE v == IF speed >= 0 THEN 0 ELSE 1
             u == Written(pins, Value(s, v))
  <2>1. v \in {0, 1}
    OBVIOUS
  <2>2. q = Written(u, Duty(f, Norm(c)))
    BY <1>7 DEF HBridge_setSpeed, PWMDir_setSpeed, c
  <2> HIDE DEF v
  <2>3. u \in [BridgePins -> PinSet] /\ u[s].value = v
    BY <1>1, <2>1, ValueWritten, SMTT(20)
  <2> HIDE DEF u
  <2>4. q[f].duty = Norm(c) % 256 /\ q[s].value = u[s].value
    <3> DEFINE x == Norm(c)
    <3>1. x \in Int /\ q = Written(u, Duty(f, x))
      BY <1>2, <2>2
    <3> HIDE DEF x
    <3>2. q[f].duty = x % 256
      BY <1>1, <2>3, <3>1, DutyWritten, SMTT(20)
    <3>3. q[s].value = u[s].value
      BY <1>1, <2>3, <3>1, DutyWritten, SMTT(20)
    <3> QED BY <3>2, <3>3 DEF x
  <2>5. q[f].duty = Norm(c)
    BY <1>2, <1>6, <2>4
  <2>6. Drive(q, b) = IF q[s].value = 0 THEN q[f].duty ELSE -q[f].duty
    <3>1. b.ops = "PWMDir" /\ ~q[b.second].enabled
      BY <1>7, <1>10
    <3> QED BY <1>10, <3>1 DEF Drive
  <2>7. Drive(q, b) = c
    <3>1. CASE speed >= 0
      BY <1>2, <2>3, <2>4, <2>5, <2>6, <3>1 DEF v
    <3>2. CASE speed < 0
      <4>1. q[s].value = 1
        BY <2>3, <2>4, <3>2 DEF v
      <4> QED BY <1>2, <2>5, <2>6, <3>2, <4>1
    <3> QED BY <3>1, <3>2
  <2>8. c - c = 0
    BY <1>2
  <2> QED BY <1>5, <2>7, <2>8 DEF c
<1>8. CASE t = "DualPWM"
  <2>1. Drive(q, b) = q[f].duty - q[s].duty
    <3>1. b.ops = "DualPWM" /\ b.ops # "PWMDir" /\ q[b.second].enabled
      BY <1>8, <1>10
    <3> QED BY <1>10, <3>1 DEF Drive
  <2>2. ASSUME NEW x \in 0 .. 255, NEW y \in 0 .. 255,
               q = Written(Written(pins, Duty(f, x)), Duty(s, y))
        PROVE  q[f].duty = x /\ q[s].duty = y
    <3> DEFINE u == Written(pins, Duty(f, x))
    <3>1. u \in [BridgePins -> PinSet] /\ u[f].duty = x % 256
      BY <1>1, DutyWritten, SMTT(20)
    <3>2. q = Written(u, Duty(s, y))
      BY <2>2
    <3> HIDE DEF u
    <3>3. y \in Int
      OBVIOUS
    <3>4. q[s].duty = y % 256
      BY <1>1, <3>1, <3>2, <3>3, DutyWritten, SMTT(20)
    <3>5. q[f].duty = u[f].duty
      BY <1>1, <3>1, <3>2, <3>3, DutyWritten, SMTT(20)
    <3> QED BY <1>6, <3>1, <3>4, <3>5
  <2>3. Drive(q, b) = c
    <3>1. CASE speed >= 0
      <4>1. q = Written(Written(pins, Duty(f, c)), Duty(s, 0))
        BY <1>8, <3>1 DEF HBridge_setSpeed, DualPWM_setSpeed, c
      <4>3. c \in 0 .. 255 /\ 0 \in 0 .. 255
        BY <1>2, <3>1
      <4>2. q[f].duty = c /\ q[s].duty = 0
        BY <2>2, <4>1, <4>3, Zenon
      <4> QED BY <1>2, <2>1, <4>2
    <3>2. CASE speed < 0
      <4>1. q = Written(Written(pins, Duty(f, 0)), Duty(s, -c))
        BY <1>8, <3>2 DEF HBridge_setSpeed, DualPWM_setSpeed, c
      <4>3. -c \in 0 .. 255 /\ 0 \in 0 .. 255
        BY <1>2, <3>2
      <4>2. q[f].duty = 0 /\ q[s].duty = -c
        BY <2>2, <4>1, <4>3, Zenon
      <4> QED BY <1>2, <2>1, <4>2
    <3> QED BY <3>1, <3>2
  <2>4. c - c = 0
    BY <1>2
  <2> QED BY <1>5, <2>3, <2>4 DEF c
<1>9. CASE t = "HalfCyclePWM"
  <2>1. q = Written(pins, Duty(f, 127 + Half(c)))
    BY <1>9 DEF HBridge_setSpeed, HalfPWM_setSpeed, c
  <2>2. 127 + Half(c) \in 0 .. 255
    BY <1>2
  <2>3. q[f].duty = 127 + Half(c)
    <3> DEFINE x == 127 + Half(c)
    <3>1. x \in 0 .. 255 /\ x \in Int /\ q = Written(pins, Duty(f, x))
      BY <2>1, <2>2
    <3> HIDE DEF x
    <3>2. q[f].duty = x % 256
      BY <1>1, <3>1, DutyWritten, SMTT(20)
    <3> QED BY <1>6, <3>1, <3>2 DEF x
  <2>4. Drive(q, b) = 2 * (q[f].duty - 127)
    <3>1. /\ b.ops = "HalfCyclePWM" /\ b.ops # "PWMDir" /\ b.ops # "DualPWM"
          /\ ~q[b.second].enabled /\ q[b.second].value = 1
      BY <1>9, <1>10
    <3> QED BY <1>10, <3>1 DEF Drive
  <2>5. Drive(q, b) = 2 * Half(c)
    BY <1>2, <2>3, <2>4
  <2> QED BY <1>2, <2>5 DEF c
<1> QED BY <1>7, <1>8, <1>9 DEF Types

(* hBridgeApplyControl, both motors *)
LEMMA Tick ==
  ASSUME BridgeTypes, timer, NEW output \in Outputs,
         NEW q, q = HBridge_setSpeed(HBridge_setSpeed(pin, bridge[1], output[1]),
                                     bridge[2], output[2])
  PROVE  /\ q \in [BridgePins -> PinSet]
         /\ \A p \in BridgePins :
              q[p].enabled = pin[p].enabled /\ q[p].dir = pin[p].dir
         /\ \A m \in Motors : \A p \in Own[m] :
              bridge[m].ops = "HalfCyclePWM" => q[p].value = pin[p].value
         /\ \A t \in Types, m \in Motors : todo = <<>> /\ Becoming(t) =>
              Norm(Drive(q, bridge[m]) - Clamp(output[m])) <= 1
<1> DEFINE u == HBridge_setSpeed(pin, bridge[1], output[1])
<1>1. /\ pin \in [BridgePins -> PinSet]
      /\ output[1] \in Int /\ output[2] \in Int
      /\ \A m \in Motors : bridge[m].ops \in Types
      /\ \A m \in Motors : {bridge[m].first, bridge[m].second} \subseteq Own[m] \cup {0}
  <2>1. pin \in [BridgePins -> PinSet]
    BY DEF BridgeTypes, BridgeTypeOK, PinSet
  <2>2. output \in [Motors -> Int]
    <3> DEFINE S == -(2^15 - 1) .. 2^15 - 1
    <3>1. output \in [Motors -> S]
      BY BridgeConstants
    <3>2. S \subseteq Int
      OBVIOUS
    <3> HIDE DEF S
    <3> QED BY <3>1, <3>2
  <2>3. \A m \in Motors : bridge[m].ops \in Types
    BY DEF BridgeTypes, BridgeTypeOK
  <2>4. \A m \in Motors : {bridge[m].first, bridge[m].second} \subseteq Own[m] \cup {0}
    BY DEF BridgeTypes
  <2> QED BY <2>1, <2>2, <2>3, <2>4 DEF Motors
<1>2. /\ 1 \in Motors /\ 2 \in Motors /\ 1 # 2
      /\ \A m \in Motors : m = 1 \/ m = 2
  BY DEF Motors
<1>3. q = HBridge_setSpeed(u, bridge[2], output[2])
  OBVIOUS
<1>4. /\ u \in [BridgePins -> PinSet]
      /\ \A p \in BridgePins :
           /\ u[p].enabled = pin[p].enabled /\ u[p].dir = pin[p].dir
           /\ p \notin {bridge[1].first, bridge[1].second} => u[p] = pin[p]
           /\ bridge[1].ops = "HalfCyclePWM" => u[p].value = pin[p].value
  BY <1>1, <1>2, SpeedFrame
<1>5. u = HBridge_setSpeed(pin, bridge[1], output[1])
  OBVIOUS
<1> HIDE DEF u
<1>6. /\ q \in [BridgePins -> PinSet]
      /\ \A p \in BridgePins :
           /\ q[p].enabled = u[p].enabled /\ q[p].dir = u[p].dir
           /\ p \notin {bridge[2].first, bridge[2].second} => q[p] = u[p]
           /\ bridge[2].ops = "HalfCyclePWM" => q[p].value = u[p].value
  BY <1>1, <1>2, <1>3, <1>4, SpeedFrame
<1>7. /\ \A p \in Own[1] : p \in BridgePins /\ q[p] = u[p]
      /\ \A p \in Own[2] : p \in BridgePins /\ u[p] = pin[p]
  <2>1. /\ \A p \in Own[1] : p \in BridgePins /\ p # 0 /\ p \notin Own[2]
        /\ \A p \in Own[2] : p \in BridgePins /\ p # 0 /\ p \notin Own[1]
    BY <1>2, Wires
  <2> QED BY <1>1, <1>2, <1>4, <1>6, <2>1
<1>8. \A m \in Motors : \A p \in Own[m] :
        bridge[m].ops = "HalfCyclePWM" => q[p].value = pin[p].value
  BY <1>2, <1>4, <1>6, <1>7
<1>9. ASSUME NEW t \in Types, todo = <<>>, Becoming(t), NEW m \in Motors
      PROVE  Norm(Drive(q, bridge[m]) - Clamp(output[m])) <= 1
  <2> DEFINE b == bridge[m]
             f == Wiring[t][m].first
             s == Wiring[t][m].second
  <2>1. /\ b.ops = t /\ b.first = f /\ b.second = s
        /\ AtRest(m)
        /\ t = "HalfCyclePWM" => pin[s].value = 1
    BY <1>9, Settling
  <2>2. f \in Own[m] /\ s \in Own[m] /\ f # s
    BY Wires
  <2>3. t # "none"
    BY DEF Types
  <2>4. /\ pin[f].dir = "Output" /\ pin[s].dir = "Output"
        /\ pin[f].enabled = TRUE /\ pin[s].enabled = (t = "DualPWM")
    <3>1. OutPins(b, m) = {f, s}
      BY <2>1, <2>3 DEF OutPins, Used
    <3>2. PwmPins(b, m) = IF t = "DualPWM" THEN {f, s} ELSE {f}
      BY <2>1, <2>3 DEF PwmPins, Used, Pwm
    <3>3. (f \in PwmPins(b, m)) = TRUE /\ (s \in PwmPins(b, m)) = (t = "DualPWM")
      BY <2>2, <3>2
    <3>4. \A p \in Own[m] :
            /\ pin[p].dir = IF p \in OutPins(b, m) THEN "Output" ELSE "Input"
            /\ pin[p].enabled = (p \in PwmPins(b, m))
      BY <2>1 DEF AtRest
    <3> HIDE DEF b, f, s
    <3>5. pin[f].dir = "Output" /\ pin[s].dir = "Output"
      BY <2>2, <3>1, <3>4
    <3>6. pin[f].enabled = TRUE /\ pin[s].enabled = (t = "DualPWM")
      BY <2>2, <3>3, <3>4, Zenon
    <3> QED BY <3>5, <3>6
  <2> HIDE DEF b, f, s
  <2>5. CASE m = 1
    <3>1. /\ pin \in [BridgePins -> PinSet] /\ output[m] \in Int
          /\ u = HBridge_setSpeed(pin, b, output[m])
          /\ b.ops = t /\ b.first = f /\ b.second = s
          /\ t = "HalfCyclePWM" => pin[s].value = 1
      BY <1>1, <1>5, <2>1, <2>5 DEF b
    <3>5. f = Wiring[t][m].first /\ s = Wiring[t][m].second
      BY DEF f, s
    <3>2. Norm(Drive(u, b) - Clamp(output[m])) <= 1
      BY <2>4, <3>1, <3>5, SpeedDrive, Zenon
    <3>3. q[b.first] = u[b.first] /\ q[b.second] = u[b.second]
      BY <1>7, <2>1, <2>2, <2>5
    <3>4. Drive(q, b) = Drive(u, b)
      BY <3>3 DEF Drive
    <3> QED BY <3>2, <3>4 DEF b
  <2>6. CASE m = 2
    <3>1. /\ u \in [BridgePins -> PinSet] /\ output[m] \in Int
          /\ q = HBridge_setSpeed(u, b, output[m])
          /\ b.ops = t /\ b.first = f /\ b.second = s
      BY <1>1, <1>3, <1>4, <2>1, <2>6 DEF b
    <3>2. u[f] = pin[f] /\ u[s] = pin[s]
      BY <1>7, <2>2, <2>6
    <3>3. /\ u[f].dir = "Output" /\ u[s].dir = "Output"
          /\ u[f].enabled = TRUE /\ u[s].enabled = (t = "DualPWM")
          /\ t = "HalfCyclePWM" => u[s].value = 1
      BY <2>1, <2>4, <3>2
    <3>5. f = Wiring[t][m].first /\ s = Wiring[t][m].second
      BY DEF f, s
    <3>4. Norm(Drive(q, b) - Clamp(output[m])) <= 1
      <4> DEFINE x == HBridge_setSpeed(u, b, output[m])
      <4>1. x = HBridge_setSpeed(u, b, output[m])
        OBVIOUS
      <4> HIDE DEF x
      <4>2. Norm(Drive(x, b) - Clamp(output[m])) <= 1
        BY <3>1, <3>3, <3>5, <4>1, SpeedDrive, Zenon
      <4>3. q = x
        BY <3>1 DEF x
      <4> QED BY <4>2, <4>3
    <3> QED BY <3>4 DEF b
  <2> QED BY <1>2, <2>5, <2>6
<1>10. \A p \in BridgePins :
         q[p].enabled = pin[p].enabled /\ q[p].dir = pin[p].dir
  BY <1>4, <1>6
<1> QED BY <1>6, <1>8, <1>9, <1>10

(* A tick during hBridgeInit undoes nothing of it. *)
LEMMA TickBecoming ==
  ASSUME NEW t \in Types, Becoming(t), UNCHANGED <<bridge, todo>>,
         \A p \in BridgePins : pin'[p].enabled = pin[p].enabled /\ pin'[p].dir = pin[p].dir,
         \A m \in Motors : \A p \in Own[m] :
           bridge[m].ops = "HalfCyclePWM" => pin'[p].value = pin[p].value
  PROVE  Becoming(t)'
<1> SUFFICES ASSUME NEW m \in Motors
             PROVE  BridgeBecomes(t, m)' /\ PinsBecome(t, m)'
  BY DEF Becoming
<1>1. BridgeBecomes(t, m) /\ PinsBecome(t, m)
  BY DEF Becoming
<1>2. BridgeBecomes(t, m)'
  BY <1>1 DEF BridgeBecomes, BridgeDue
<1>3. ASSUME NEW p \in Own[m]
      PROVE  /\ PinDue("dir", p, IF p \in Used(t, m) THEN "Output" ELSE "Input")'
             /\ PinDue("enabled", p, p \in Pwm(t, m))'
  <2>1. p \in BridgePins
    BY Owner
  <2>2. /\ PinDue("dir", p, IF p \in Used(t, m) THEN "Output" ELSE "Input")
        /\ PinDue("enabled", p, p \in Pwm(t, m))
    BY <1>1 DEF PinsBecome
  <2>3. pin'[p]["dir"] = pin[p]["dir"] /\ pin'[p]["enabled"] = pin[p]["enabled"]
    BY <2>1
  <2> QED BY <2>2, <2>3 DEF PinDue
<1>4. ASSUME t = "HalfCyclePWM"
      PROVE  ValueDue(m, Wiring[t][m].second)'
  <2> DEFINE s == Wiring[t][m].second
             A == Touch("value", s) \cup Touch("ops", m)
  <2>1. s \in Own[m]
    BY Wires
  <2>2. ValueDue(m, s) /\ BridgeDue("ops", m, t)
    BY <1>1, <1>4 DEF PinsBecome, BridgeBecomes
  <2>3. CASE EndsIn(todo, A, Leaves("value", s, 1))
    BY <2>3 DEF ValueDue
  <2>4. CASE Silent(todo, A) /\ pin[s].value = 1
    <3>1. Silent(todo, Touch("ops", m))
      BY <2>4 DEF Silent
    <3>2. ~EndsIn(todo, Touch("ops", m), Leaves("ops", m, t))
      BY <3>1 DEF Silent, EndsIn, Leaves
    <3>3. bridge[m].ops = t
      BY <2>2, <3>2 DEF BridgeDue
    <3>4. pin'[s].value = 1
      BY <1>4, <2>1, <2>4, <3>3
    <3> QED BY <2>4, <3>4 DEF ValueDue
  <2> QED BY <2>2, <2>3, <2>4 DEF ValueDue
<1> QED BY <1>2, <1>3, <1>4 DEF PinsBecome

(* A tick keeps the invariant. *)
LEMMA TickInv ==
  ASSUME BridgeInv, hBridgeApplyControl
  PROVE  BridgeInv'
<1>1. PICK output \in Outputs :
        /\ pin' = HBridge_setSpeed(HBridge_setSpeed(pin, bridge[1], output[1]),
                                   bridge[2], output[2])
        /\ applied' = IF todo = <<>> THEN output ELSE <<>>
  BY DEF hBridgeApplyControl
<1>2. timer /\ UNCHANGED <<bridge, todo, timer>>
  BY DEF hBridgeApplyControl
<1>3. /\ pin' \in [BridgePins -> PinSet]
      /\ \A p \in BridgePins :
           pin'[p].enabled = pin[p].enabled /\ pin'[p].dir = pin[p].dir
      /\ \A m \in Motors : \A p \in Own[m] :
           bridge[m].ops = "HalfCyclePWM" => pin'[p].value = pin[p].value
      /\ \A t \in Types, m \in Motors : todo = <<>> /\ Becoming(t) =>
           Norm(Drive(pin', bridge[m]) - Clamp(output[m])) <= 1
  BY <1>1, <1>2, Tick DEF BridgeInv
<1>4. BridgeTypes'
  BY <1>1, <1>2, <1>3 DEF BridgeInv, BridgeTypes, BridgeTypeOK, PinSet
<1>5. PICK t \in Types : Becoming(t)
  BY <1>2 DEF BridgeInv, Fresh
<1>6. Becoming(t)'
  BY <1>2, <1>3, <1>5, TickBecoming
<1>7. Obeyed'
  <2>1. CASE todo = <<>>
    <3>1. \A m \in Motors : Norm(Drive(pin', bridge'[m]) - Clamp(applied'[m])) <= 1
      BY <1>1, <1>2, <1>3, <1>5, <2>1
    <3> QED BY <1>2, <2>1, <3>1 DEF Obeyed
  <2>2. CASE todo # <<>>
    BY <1>1, <2>2 DEF Obeyed
  <2> QED BY <2>1, <2>2
<1> QED BY <1>4, <1>6, <1>7 DEF BridgeInv

----------------------------------------------------------------------------
(* Theorems *)

(* The invariant holds at boot. *)
LEMMA BridgeInvInit ==
  ASSUME BridgeInit
  PROVE  BridgeInv
<1>1. \A m \in Motors : bridge[m] = [ops |-> "none", first |-> 0, second |-> 0]
  BY DEF BridgeInit
<1>2. \A p \in BridgePins : pin[p] =
        [enabled |-> FALSE, duty |-> 255, dir |-> "Input", value |-> 1]
  BY DEF BridgeInit
<1>3. /\ bridge \in [Motors -> [ops : Types \cup {"none"},
                                first : BridgePins \cup {0},
                                second : BridgePins \cup {0}]]
      /\ pin \in [BridgePins -> PinSet]
  BY DEF BridgeInit, PinSet
<1>4. todo = <<>> /\ timer = FALSE /\ applied = <<>> /\ todo \in Seq(Writes)
  BY DEF BridgeInit
<1>5. BridgeTypes
  <2>1. applied \in {<<>>} \cup Outputs /\ timer \in BOOLEAN
    BY <1>4
  <2>2. timer => \A m \in Motors : bridge[m].ops # "none"
    BY <1>4
  <2>3. BridgeTypeOK
    BY <1>3, <2>1, <2>2 DEF BridgeTypeOK, PinSet
  <2>4. \A m \in Motors : {bridge[m].first, bridge[m].second} \subseteq Own[m] \cup {0}
    BY <1>1
  <2> QED BY <1>4, <2>3, <2>4 DEF BridgeTypes
<1>6. Fresh
  BY <1>1, <1>2, <1>4 DEF Fresh
<1>7. Obeyed
  BY <1>4 DEF Obeyed
<1> QED BY <1>5, <1>6, <1>7 DEF BridgeInv

(* Every step keeps the invariant. *)
LEMMA BridgeInvNext ==
  ASSUME BridgeInv, [BridgeNext]_bridgeVars
  PROVE  BridgeInv'
<1>1. CASE Boot
  <2>1. PICK t \in BootTypes : hBridgeInit(t)
    BY <1>1 DEF Boot
  <2>2. t \in Types \cup {"unknown"}
    BY BridgeConstants
  <2> QED BY <2>1, <2>2, InitCall
<1>2. CASE InitStep
  <2>1. todo # <<>> /\ applied' = applied
    BY <1>2 DEF InitStep
  <2>2. PICK t \in Types : Becoming(t)
    BY <2>1 DEF BridgeInv, Fresh
  <2>3. BridgeTypes' /\ Becoming(t)'
    BY <1>2, <2>2, InitTypes, BecomingStep DEF BridgeInv
  <2>4. Obeyed'
    BY <2>1 DEF BridgeInv, Obeyed
  <2> QED BY <2>3, <2>4 DEF BridgeInv
<1>3. CASE StartTimer
  <2>1. /\ todo = <<>> /\ bridge[1].ops # "none" /\ timer' = TRUE
        /\ UNCHANGED <<bridge, pin, todo, applied>>
    BY <1>3 DEF StartTimer
  <2>2. ~Fresh
    BY <2>1 DEF Fresh, Motors
  <2>3. PICK t \in Types : Becoming(t)
    BY <2>2 DEF BridgeInv
  <2>4. \A m \in Motors : bridge[m].ops = t
    BY <2>1, <2>3, Settling
  <2>5. t # "none"
    BY DEF Types
  <2>6. BridgeTypes'
    BY <2>1, <2>4, <2>5 DEF BridgeInv, BridgeTypes, BridgeTypeOK
  <2>7. Becoming(t)'
    BY <2>1, <2>3, BecomingStays
  <2>8. Obeyed'
    BY <2>1 DEF BridgeInv, Obeyed
  <2> QED BY <2>6, <2>7, <2>8 DEF BridgeInv
<1>4. CASE paramSet
  BY <1>4, InitCall DEF paramSet
<1>5. CASE hBridgeApplyControl
  BY <1>5, TickInv
<1>6. CASE UNCHANGED bridgeVars
  <2>1. UNCHANGED <<bridge, pin, todo, timer, applied>>
    BY <1>6 DEF bridgeVars
  <2>2. BridgeTypes' /\ Obeyed' /\ (Fresh => Fresh')
    BY <2>1 DEF BridgeInv, BridgeTypes, BridgeTypeOK, Obeyed, Fresh
  <2>3. \A t \in Types : Becoming(t) => Becoming(t)'
    BY <2>1, BecomingStays
  <2> QED BY <2>2, <2>3 DEF BridgeInv
<1> QED BY <1>1, <1>2, <1>3, <1>4, <1>5, <1>6 DEF BridgeNext

(* The registers hold what registers can, the pointers to the pins too,    *)
(* and no tick finds a bridge whose operations are not set: the interrupt  *)
(* does not check the pointer it calls through.                            *)
THEOREM BridgeTypeCorrect == BridgeSpec => []BridgeTypeOK
<1>1. BridgeInv => BridgeTypeOK
  BY DEF BridgeInv, BridgeTypes
<1> QED BY <1>1, BridgeInvInit, BridgeInvNext, PTL DEF BridgeSpec

(* Whatever types follow each other, with ticks anywhere in between, the   *)
(* first tick after a change and every later one makes both motors run as  *)
(* their controllers ask, for all outputs of sixteen bits.                 *)
THEOREM MotorsAlwaysObey == BridgeSpec => []MotorsObey
<1>1. BridgeInv => MotorsObey
  BY DEF BridgeInv, Obeyed, MotorsObey
<1> QED BY <1>1, BridgeInvInit, BridgeInvNext, PTL DEF BridgeSpec

(* Between calls of hBridgeInit exactly the pins of the two bridges are    *)
(* outputs, and exactly their PWM pins have PWM.                           *)
THEOREM PinsAlwaysMatch == BridgeSpec => []PinsMatchBridges
<1>1. BridgeInv => PinsMatchBridges
  <2> SUFFICES ASSUME BridgeInv, timer, todo = <<>>
               PROVE  PinsMatchBridges
    BY DEF PinsMatchBridges
  <2>1. PICK t \in Types : Becoming(t)
    BY DEF BridgeInv, Fresh
  <2> DEFINE used == UNION {{bridge[m].first, bridge[m].second} : m \in Motors}
             pwm == UNION {IF bridge[m].ops = "DualPWM"
                           THEN {bridge[m].first, bridge[m].second}
                           ELSE {bridge[m].first} : m \in Motors}
  <2>2. \A m \in Motors :
          /\ bridge[m].ops = t
          /\ bridge[m].first = Wiring[t][m].first
          /\ bridge[m].second = Wiring[t][m].second
          /\ AtRest(m)
    BY <2>1, Settling
  <2>3. t # "none"
    BY DEF Types
  <2>4. used = Used(t, 1) \cup Used(t, 2) /\ pwm = Pwm(t, 1) \cup Pwm(t, 2)
    <3>1. /\ used = {bridge[1].first, bridge[1].second}
                      \cup {bridge[2].first, bridge[2].second}
          /\ pwm = (IF bridge[1].ops = "DualPWM"
                    THEN {bridge[1].first, bridge[1].second}
                    ELSE {bridge[1].first})
                     \cup (IF bridge[2].ops = "DualPWM"
                           THEN {bridge[2].first, bridge[2].second}
                           ELSE {bridge[2].first})
      BY DEF Motors
    <3> HIDE DEF used, pwm
    <3>2. \A m \in Motors :
            /\ {bridge[m].first, bridge[m].second} = Used(t, m)
            /\ (IF bridge[m].ops = "DualPWM"
                THEN {bridge[m].first, bridge[m].second}
                ELSE {bridge[m].first}) = Pwm(t, m)
      BY <2>2 DEF Used, Pwm
    <3> QED BY <3>1, <3>2 DEF Motors
  <2> HIDE DEF used, pwm
  <2>5. \A m \in Motors :
          /\ OutPins(bridge[m], m) = Used(t, m) /\ PwmPins(bridge[m], m) = Pwm(t, m)
          /\ Used(t, m) \subseteq Own[m] /\ Pwm(t, m) \subseteq Own[m]
    <3> TAKE m \in Motors
    <3>1. OutPins(bridge[m], m) = Used(t, m) /\ PwmPins(bridge[m], m) = Pwm(t, m)
      BY <2>2, <2>3 DEF OutPins, PwmPins
    <3>2. Wiring[t][m].first \in Own[m] /\ Wiring[t][m].second \in Own[m]
      BY Wires
    <3>3. Used(t, m) \subseteq Own[m] /\ Pwm(t, m) \subseteq Own[m]
      BY <3>2 DEF Used, Pwm
    <3> QED BY <3>1, <3>3
  <2>6. \A m \in Motors : \A p \in Own[m] :
          /\ pin[p].dir = IF p \in Used(t, m) THEN "Output" ELSE "Input"
          /\ pin[p].enabled = (p \in Pwm(t, m))
    BY <2>2, <2>5 DEF AtRest
  <2>7. ASSUME NEW p \in BridgePins
        PROVE  /\ pin[p].dir = "Output" <=> p \in used
               /\ pin[p].enabled <=> p \in pwm
    <3>1. PICK m \in Motors : p \in Own[m]
      BY Owner
    <3>2. \A n \in Motors : n # m => p \notin Used(t, n) /\ p \notin Pwm(t, n)
      BY <2>5, <3>1, Wires
    <3>3. (p \in used <=> p \in Used(t, m)) /\ (p \in pwm <=> p \in Pwm(t, m))
      BY <2>4, <3>2 DEF Motors
    <3>4. pin[p].dir = "Output" <=> p \in Used(t, m)
      BY <2>6, <3>1
    <3>5. pin[p].enabled <=> p \in Pwm(t, m)
      BY <2>6, <3>1
    <3> QED BY <3>3, <3>4, <3>5
  <2>8. used \subseteq BridgePins /\ pwm \subseteq BridgePins
    BY <2>4, <2>5, Owner DEF Motors
  <2>9. /\ {p \in BridgePins : pin[p].dir = "Output"} = used
        /\ {p \in BridgePins : pin[p].enabled} = pwm
    BY <2>7, <2>8
  <2> QED BY <2>9 DEF PinsMatchBridges, used, pwm
<1> QED BY <1>1, BridgeInvInit, BridgeInvNext, PTL DEF BridgeSpec
==============================================================================
