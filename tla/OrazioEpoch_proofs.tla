------------------------- MODULE OrazioEpoch_proofs -------------------------
(***************************************************************************)
(* What one communication cycle of the firmware tells the client, for all  *)
(* packets and parameters, all sizes of the buffers and every range of the *)
(* sequence numbers: the properties of OrazioEpoch as theorems.            *)
(*                                                                         *)
(* The properties speak of finished epochs.  The invariant says the same   *)
(* of the epoch under way, about the packets that have been handled so far *)
(* (Handled): whom the answers in the transmit buffer answer, how full it  *)
(* may be, and what the parameters are.                                    *)
(***************************************************************************)
EXTENDS OrazioEpoch, SequenceTheorems, FiniteSetTheorems,
        WellFoundedInduction, TLAPS

(* How many of the packets this epoch has to answer have been handled. *)
Handled == Len(asked) - Len(pending)

(* The pending packets are those of the epoch that were not handled yet. *)
Remaining ==
  comm_pc = "process" =>
    /\ Len(pending) <= Len(asked)
    /\ \A i \in 1 .. Len(pending) : pending[i] = asked[Handled + i]

(* Nothing has been handed to the UART before the epoch is finished. *)
Unsent == comm_pc # "idle" => sent = <<>>

Carry(q, n) == \A i \in DOMAIN q : q[i].seq = n

(* The number of the epoch is on all its packets, and is new. *)
Numbered ==
  /\ Carry(tx.q, global_seq)
  /\ Carry(sent, global_seq)
  /\ comm_pc = "flush" => seqs_before \subseteq {global_seq}
  /\ comm_pc = "process" \/ Epoch => global_seq \notin seqs_before

(* The answers among q belong to the first n of the packets asks, in their *)
(* order; and all of these have been answered.                             *)
InOrder(q, asks, n) ==
  \E question \in [Answers(q) -> 1 .. n] : Matches(q, asks, question)

Complete(q, asks, n) ==
  \E question \in [Answers(q) -> 1 .. n] :
    /\ Matches(q, asks, question)
    /\ \A k \in 1 .. n : \E i \in Answers(q) : question[i] = k

Affordable == Demand(asked)[Len(asked)] <= BUFFER_SIZE_MAX

(* As long as all fits, the buffer holds no more than the answers to the   *)
(* packets handled so far.                                                 *)
Answering ==
  comm_pc = "process" =>
    /\ InOrder(tx.q, asked, Handled)
    /\ Affordable =>
         /\ Complete(tx.q, asked, Handled)
         /\ tx.size + StatusBytes <= Demand(asked)[Handled]

Setting == comm_pc = "process" => LastWins(asked, Handled, params, eeprom)

LastAcceptedWins == Epoch => LastWins(asked, Len(asked), params, eeprom)

Promised == AnswersInOrder /\ NoSpuriousDrop /\ LastAcceptedWins

IInv == /\ TypeOK /\ Remaining /\ Unsent /\ Numbered
        /\ Answering /\ Setting /\ Promised

(* What came in has been accepted, as long as there was room for all of    *)
(* it; and nothing is left over when an epoch is finished.                 *)
Hearing ==
  /\ comm_pc = "idle" => pending = <<>>
  /\ WithinLimits(heard) =>
       IF comm_pc = "flush" THEN pending = heard ELSE asked = heard
----------------------------------------------------------------------------
(* The constants, as the steps below need them. *)
LEMMA Constants ==
  /\ {PBUFNO, PENDING_PACKETS_MAX, BUFFER_SIZE_MAX, UartMax} \subseteq Nat
  /\ SeqRange \in Nat /\ SeqRange > 1
BY CommConstants, EpochConstants

(* The sizes of the packets. *)
LEMMA Sizes ==
  /\ DOMAIN Size = {"Response", "ParamControl", "SystemStatus", "SystemParam",
                    "JointStatus", "JointControl", "JointParam",
                    "DriveStatus", "DriveControl", "DriveParam", "EndEpoch"}
  /\ Size["Response"] = 8 /\ Size["SystemStatus"] = 27
  /\ Size["JointStatus"] = 26 /\ Size["DriveStatus"] = 40
  /\ Size["EndEpoch"] = 4 /\ Size["SystemParam"] = 25
  /\ Size["JointParam"] = 36 /\ Size["DriveParam"] = 38
  /\ \A type \in DOMAIN Size : Size[type] \in Nat
BY DEF Size

(* The next number is another one. *)
LEMMA NextSeqDiffers ==
  ASSUME global_seq \in 0 .. SeqRange - 1
  PROVE  NextSeq \in 0 .. SeqRange - 1 /\ NextSeq # global_seq
<1>1. SeqRange \in Nat /\ SeqRange > 1
  BY Constants
<1>2. CASE global_seq + 1 < SeqRange
  <2>1. (global_seq + 1) % SeqRange = global_seq + 1
    BY <1>1, <1>2
  <2> QED BY <1>1, <1>2, <2>1 DEF NextSeq
<1>3. CASE global_seq + 1 = SeqRange
  <2>1. SeqRange % SeqRange = 0
    BY <1>1
  <2> QED BY <1>1, <1>3, <2>1 DEF NextSeq
<1> QED BY <1>1, <1>2, <1>3

(* A set of numbers that is not empty has a least one.                     *)
LEMMA LeastIn ==
  ASSUME NEW S \in SUBSET Nat, S # {}
  PROVE  \E k \in S : \A j \in S : ~(j < k)
<1> DEFINE R == OpToRel(<, Nat)
<1>1. PICK k \in S : \A j \in S : ~(<<j, k>> \in R)
  BY NatLessThanWellFounded, WFMin, Zenon
<1> QED BY <1>1, Zenon DEF OpToRel
----------------------------------------------------------------------------
(* Demand is a recursive function: that there is one, and that it grows,   *)
(* by the least number for which it would not.                             *)

(* f adds the answers to the first n packets of q to the periodic ones.    *)
AddsUp(f, q, n) ==
  f = [k \in 0 .. n |-> IF k = 0 THEN StatusBytes ELSE f[k - 1] + Reply(q[k])]

(* One packet more can be reckoned with,                                   *)
LEMMA AddsUpNext ==
  ASSUME NEW q, NEW n \in Nat, NEW f, AddsUp(f, q, n)
  PROVE  \E g : AddsUp(g, q, n + 1)
<1> DEFINE g == [k \in 0 .. n + 1 |->
                   IF k = 0 THEN StatusBytes ELSE f[k - 1] + Reply(q[k])]
<1>1. \A k \in 0 .. n : g[k] = f[k]
  <2> SUFFICES ASSUME NEW k \in 0 .. n PROVE g[k] = f[k]
    OBVIOUS
  <2>1. f[k] = IF k = 0 THEN StatusBytes ELSE f[k - 1] + Reply(q[k])
    BY Zenon DEF AddsUp
  <2>2. k \in 0 .. n + 1
    OBVIOUS
  <2> QED BY <2>1, <2>2
<1>2. \A k \in 0 .. n + 1 : k # 0 => g[k - 1] = f[k - 1]
  <2> SUFFICES ASSUME NEW k \in 0 .. n + 1, k # 0 PROVE g[k - 1] = f[k - 1]
    OBVIOUS
  <2>1. k - 1 \in 0 .. n
    OBVIOUS
  <2> HIDE DEF g
  <2> QED BY <1>1, <2>1
<1>3. g = [k \in 0 .. n + 1 |->
             IF k = 0 THEN StatusBytes ELSE g[k - 1] + Reply(q[k])]
  <2>1. \A k \in 0 .. n + 1 :
          (IF k = 0 THEN StatusBytes ELSE f[k - 1] + Reply(q[k]))
            = IF k = 0 THEN StatusBytes ELSE g[k - 1] + Reply(q[k])
    <3> HIDE DEF g
    <3> QED BY <1>2
  <2> QED BY <2>1, Zenon
<1> QED BY <1>3 DEF AddsUp

(* and so any number.                                                      *)
LEMMA AddsUpExists == ASSUME NEW q PROVE \A n \in Nat : \E f : AddsUp(f, q, n)
<1> DEFINE S == {n \in Nat : ~ \E f : AddsUp(f, q, n)}
<1> SUFFICES ASSUME S # {} PROVE FALSE
  OBVIOUS
<1>1. PICK n \in S : \A j \in S : ~(j < n)
  <2>1. S \in SUBSET Nat
    OBVIOUS
  <2> HIDE DEF S
  <2> QED BY <2>1, LeastIn
<1>2. n \in Nat /\ ~ \E f : AddsUp(f, q, n)
  OBVIOUS
<1>3. n # 0
  <2>1. AddsUp([k \in 0 .. 0 |-> StatusBytes], q, 0)
    BY DEF AddsUp
  <2> QED BY <1>2, <2>1
<1>4. n - 1 \in Nat /\ n - 1 < n /\ (n - 1) + 1 = n
  BY <1>2, <1>3
<1>5. \E f : AddsUp(f, q, n - 1)
  <2>1. n - 1 \notin S
    <3> HIDE DEF S
    <3> QED BY <1>1, <1>4
  <2> QED BY <1>4, <2>1
<1> HIDE DEF S
<1>6. \E g : AddsUp(g, q, (n - 1) + 1)
  BY <1>4, <1>5, AddsUpNext
<1> QED BY <1>2, <1>4, <1>6

(* Every packet reckons with at least its response.                        *)
LEMMA ReplyIsNat == ASSUME NEW p PROVE Reply(p) \in Nat /\ Reply(p) >= 11
<1>1. Size["Response"] + 3 = 11
  BY Sizes
<1>2. CASE p.type \in {"SystemParam", "JointParam", "DriveParam"}
  <2>1. Size[p.type] + 3 \in Nat
    BY <1>2, Sizes
  <2> QED BY <1>1, <1>2, <2>1 DEF Reply
<1>3. CASE p.type \notin {"SystemParam", "JointParam", "DriveParam"}
  BY <1>1, <1>3, Sizes DEF Reply
<1> QED BY <1>2, <1>3

(* The four packets that end an epoch.                                     *)
LEMMA StatusBytesIs == StatusBytes = 109
BY Sizes DEF StatusBytes

(* Demand is what its recursive definition says.                           *)
LEMMA DemandDef ==
  ASSUME NEW S, NEW q \in Seq(S)
  PROVE  /\ Demand(q)[0] = StatusBytes
         /\ \A n \in 1 .. Len(q) :
              Demand(q)[n] = Demand(q)[n - 1] + Reply(q[n])
<1> DEFINE f == Demand(q)
<1>1. Len(q) \in Nat
  OBVIOUS
<1>2. \E g : AddsUp(g, q, Len(q))
  BY <1>1, AddsUpExists
<1>3. f = CHOOSE g : AddsUp(g, q, Len(q))
  BY DEF Demand, AddsUp
<1>4. AddsUp(f, q, Len(q))
  BY <1>2, <1>3, Zenon
<1> HIDE DEF f
<1>5. \A n \in 0 .. Len(q) :
        f[n] = IF n = 0 THEN StatusBytes ELSE f[n - 1] + Reply(q[n])
  BY <1>4, Zenon DEF AddsUp
<1>6. f[0] = StatusBytes
  BY <1>1, <1>5
<1>7. ASSUME NEW n \in 1 .. Len(q) PROVE f[n] = f[n - 1] + Reply(q[n])
  BY <1>1, <1>5
<1> QED BY <1>6, <1>7 DEF f

(* More packets can have more to say.                                      *)
LEMMA DemandGrows ==
  ASSUME NEW S, NEW q \in Seq(S), NEW m \in 0 .. Len(q)
  PROVE  Demand(q)[m] \in Nat /\ Demand(q)[m] <= Demand(q)[Len(q)]
<1> DEFINE f == Demand(q)
<1>1. Len(q) \in Nat /\ f[0] \in Nat
        /\ \A n \in 1 .. Len(q) : f[n] = f[n - 1] + Reply(q[n])
  BY DemandDef, StatusBytesIs
<1> HIDE DEF f
<1> DEFINE Bad == {n \in 0 .. Len(q) :
                     ~(/\ f[n] \in Nat
                       /\ m <= n => f[m] \in Nat /\ f[m] <= f[n])}
<1>2. Bad = {}
  <2> SUFFICES ASSUME Bad # {} PROVE FALSE
    OBVIOUS
  <2>1. PICK n \in Bad : \A j \in Bad : ~(j < n)
    <3>1. Bad \in SUBSET Nat
      OBVIOUS
    <3> HIDE DEF Bad
    <3> QED BY <3>1, LeastIn
  <2>2. /\ n \in 0 .. Len(q)
        /\ ~(/\ f[n] \in Nat
             /\ m <= n => f[m] \in Nat /\ f[m] <= f[n])
    OBVIOUS
  <2>3. n # 0
    BY <1>1, <2>2
  <2>4. n - 1 \in 0 .. Len(q) /\ n - 1 < n /\ n \in 1 .. Len(q)
    BY <1>1, <2>2, <2>3
  <2>5. n - 1 \notin Bad
    <3> HIDE DEF Bad
    <3> QED BY <2>1, <2>4
  <2>6. f[n - 1] \in Nat /\ (m <= n - 1 => f[m] \in Nat /\ f[m] <= f[n - 1])
    BY <2>4, <2>5
  <2>7. f[n] = f[n - 1] + Reply(q[n]) /\ Reply(q[n]) \in Nat
    BY <1>1, <2>4, ReplyIsNat
  <2> HIDE DEF Bad
  <2>8. f[n] \in Nat
    BY <2>6, <2>7
  <2>9. CASE m <= n - 1
    BY <2>2, <2>6, <2>7, <2>8, <2>9
  <2>10. CASE ~(m <= n - 1)
    <3>1. m <= n => m = n
      BY <2>4, <2>10
    <3> QED BY <2>2, <2>8, <3>1
  <2> QED BY <2>9, <2>10
<1>3. \A n \in 0 .. Len(q) :
        f[n] \in Nat /\ (m <= n => f[m] \in Nat /\ f[m] <= f[n])
  BY <1>2
<1>4. Len(q) \in 0 .. Len(q) /\ m <= Len(q)
  BY <1>1
<1> QED BY <1>3, <1>4 DEF f
----------------------------------------------------------------------------
(* Packets in the transmit buffer *)

Buffers == [q : Seq(Replies), size : 0 .. BUFFER_SIZE_MAX]

(* A packet is queued if it fits, and then takes its bytes. *)
LEMMA SendFacts ==
  ASSUME NEW t \in Buffers, NEW p \in Replies
  PROVE  /\ Send(t, p) \in Buffers
         /\ \/ Send(t, p) = t
            \/ Send(t, p).q = Append(t.q, p)
         /\ t.size + Size[p.type] + 3 <= BUFFER_SIZE_MAX =>
              /\ Send(t, p).q = Append(t.q, p)
              /\ Send(t, p).size = t.size + Size[p.type] + 3
<1>1. BUFFER_SIZE_MAX \in Nat /\ Size[p.type] \in Nat
  BY Constants, Sizes DEF Replies
<1>2. t.q \in Seq(Replies) /\ t.size \in 0 .. BUFFER_SIZE_MAX
  BY DEF Buffers
<1>3. CASE Fits(t, p)
  <2>1. t.size + Size[p.type] + 3 \in 0 .. BUFFER_SIZE_MAX
    BY <1>1, <1>2, <1>3 DEF Fits
  <2>2. Append(t.q, p) \in Seq(Replies)
    BY <1>2, AppendProperties
  <2>3. Send(t, p) = [q |-> Append(t.q, p), size |-> t.size + Size[p.type] + 3]
    BY <1>3 DEF Send
  <2> QED BY <2>1, <2>2, <2>3 DEF Buffers
<1>4. CASE ~Fits(t, p)
  <2>1. ~(t.size + Size[p.type] + 3 <= BUFFER_SIZE_MAX) /\ Send(t, p) = t
    BY <1>4 DEF Fits, Send
  <2> QED BY <2>1
<1> QED BY <1>3, <1>4

(* What the firmware sends are packets with the current number. *)
LEMMA PacketsSent ==
  ASSUME TypeOK
  PROVE  /\ \A type \in DOMAIN Size :
              /\ Plain(type) \in Replies
              /\ Plain(type).type = type /\ Plain(type).seq = global_seq
         /\ \A p \in InPackets, r \in {"Success", "GenericError"} :
              /\ Response(p, r) \in Replies
              /\ Response(p, r).type = "Response"
              /\ Response(p, r).seq = global_seq
              /\ Response(p, r).p_type = p.type
              /\ Response(p, r).p_seq = p.seq
<1>1. global_seq \in 0 .. SeqRange - 1
  BY DEF TypeOK
<1>2. "Response" \in DOMAIN Size
  BY Sizes
<1>3. ASSUME NEW type \in DOMAIN Size
      PROVE  /\ Plain(type) \in Replies
             /\ Plain(type).type = type /\ Plain(type).seq = global_seq
  <2> DEFINE D == DOMAIN Size
             N == 0 .. SeqRange - 1
             T == {"none"} \cup {p.type : p \in InPackets}
             M == {0} \cup {p.seq : p \in InPackets}
  <2>1. "none" \in T /\ 0 \in M
    OBVIOUS
  <2> HIDE DEF D, N, T, M
  <2>2. Plain(type) \in [type : D, seq : N, p_type : T, p_seq : M,
                         p_result : {"none", "Success", "GenericError"}]
    BY <1>1, <1>3, <2>1 DEF Plain, D, N
  <2> QED BY <2>2 DEF Plain, Replies, D, N, T, M
<1>4. ASSUME NEW p \in InPackets, NEW r \in {"Success", "GenericError"}
      PROVE  /\ Response(p, r) \in Replies
             /\ Response(p, r).type = "Response"
             /\ Response(p, r).seq = global_seq
             /\ Response(p, r).p_type = p.type
             /\ Response(p, r).p_seq = p.seq
  <2> DEFINE D == DOMAIN Size
             N == 0 .. SeqRange - 1
             T == {"none"} \cup {x.type : x \in InPackets}
             M == {0} \cup {x.seq : x \in InPackets}
  <2>1. p.type \in T /\ p.seq \in M
    OBVIOUS
  <2> HIDE DEF D, N, T, M
  <2>2. Response(p, r) \in [type : D, seq : N, p_type : T, p_seq : M,
                            p_result : {"none", "Success", "GenericError"}]
    BY <1>1, <1>2, <2>1 DEF Response, D, N
  <2> QED BY <2>2 DEF Response, Replies, D, N, T, M
<1> QED BY <1>3, <1>4

(* All packets keep the number when another one with it is queued. *)
LEMMA CarryAppend ==
  ASSUME NEW q \in Seq(Replies), NEW p \in Replies, NEW n,
         Carry(q, n), p.seq = n
  PROVE  Carry(Append(q, p), n)
<1> SUFFICES ASSUME NEW i \in DOMAIN Append(q, p)
             PROVE  Append(q, p)[i].seq = n
  BY DEF Carry
<1>1. CASE i = Len(q) + 1
  BY <1>1
<1>2. CASE i \in 1 .. Len(q)
  BY <1>2 DEF Carry
<1>3. i \in 1 .. Len(q) + 1
  OBVIOUS
<1> QED BY <1>1, <1>2, <1>3
----------------------------------------------------------------------------
(* Answers *)

(* A packet that is no answer changes nothing of what is answered. *)
LEMMA PlainKeeps ==
  ASSUME NEW q \in Seq(Replies), NEW p \in Replies, p.type # "Response",
         NEW asks, NEW n \in Nat
  PROVE  /\ InOrder(q, asks, n) => InOrder(Append(q, p), asks, n)
         /\ Complete(q, asks, n) => Complete(Append(q, p), asks, n)
<1>1. Len(q) \in Nat /\ DOMAIN q = 1 .. Len(q)
        /\ DOMAIN Append(q, p) = 1 .. Len(q) + 1
  OBVIOUS
<1>2. \A i \in 1 .. Len(q) : Append(q, p)[i] = q[i]
  OBVIOUS
<1>3. Append(q, p)[Len(q) + 1] = p
  OBVIOUS
<1> DEFINE r == Append(q, p)
<1> HIDE DEF r
<1>4. Answers(r) = Answers(q)
  BY <1>1, <1>2, <1>3 DEF Answers, r
<1>5. \A i \in Answers(q) : r[i] = q[i]
  BY <1>1, <1>2 DEF Answers, r
<1>6. ASSUME NEW f, Matches(q, asks, f) PROVE Matches(r, asks, f)
  BY <1>4, <1>5, <1>6, Zenon DEF Matches
<1> QED BY <1>4, <1>6, Zenon DEF InOrder, Complete, r

(* Fewer packets have been answered than more. *)
LEMMA OrderGrows ==
  ASSUME NEW q, NEW asks, NEW n \in Nat, InOrder(q, asks, n)
  PROVE  InOrder(q, asks, n + 1)
<1>1. PICK f \in [Answers(q) -> 1 .. n] : Matches(q, asks, f)
  BY Zenon DEF InOrder
<1>2. f \in [Answers(q) -> 1 .. n + 1]
  <2>1. 1 .. n \subseteq 1 .. n + 1
    OBVIOUS
  <2> DEFINE A == 1 .. n
             B == 1 .. n + 1
  <2> HIDE DEF A, B
  <2>2. f \in [Answers(q) -> A] /\ A \subseteq B
    BY <2>1 DEF A, B
  <2>3. f \in [Answers(q) -> B]
    BY <2>2
  <2> QED BY <2>3 DEF B
<1> QED BY <1>1, <1>2, Zenon DEF InOrder

(* The answer to the next packet comes after the others. *)
LEMMA AnswerAdds ==
  ASSUME NEW q \in Seq(Replies), NEW p \in Replies, p.type = "Response",
         NEW asks, NEW n \in Nat,
         p.p_type = asks[n + 1].type, p.p_seq = asks[n + 1].seq
  PROVE  /\ InOrder(q, asks, n) => InOrder(Append(q, p), asks, n + 1)
         /\ Complete(q, asks, n) => Complete(Append(q, p), asks, n + 1)
<1> DEFINE r == Append(q, p)
           l == Len(q) + 1
<1>1. l \in Nat /\ l >= 1 /\ DOMAIN q = 1 .. l - 1 /\ DOMAIN r = 1 .. l
  OBVIOUS
<1>2. (\A i \in 1 .. l - 1 : r[i] = q[i]) /\ r[l] = p
  OBVIOUS
<1> HIDE DEF r, l
<1>3. Answers(r) = Answers(q) \cup {l}
  <2>1. l \in Answers(r)
    BY <1>1, <1>2 DEF Answers
  <2>2. ASSUME NEW i PROVE i \in Answers(q) => i \in Answers(r)
    BY <1>1, <1>2 DEF Answers
  <2>3. ASSUME NEW i \in Answers(r), i # l PROVE i \in Answers(q)
    <3>1. i \in 1 .. l - 1 /\ r[i].type = "Response"
      BY <1>1, <2>3 DEF Answers
    <3> QED BY <1>1, <1>2, <3>1 DEF Answers
  <2> QED BY <2>1, <2>2, <2>3
<1>4. Answers(q) \subseteq 1 .. l - 1
  BY <1>1 DEF Answers
<1>5. ASSUME NEW f \in [Answers(q) -> 1 .. n], Matches(q, asks, f)
      PROVE  \E g \in [Answers(r) -> 1 .. n + 1] :
               /\ Matches(r, asks, g)
               /\ g[l] = n + 1
               /\ \A i \in Answers(q) : g[i] = f[i]
  <2> DEFINE g == [i \in Answers(r) |-> IF i = l THEN n + 1 ELSE f[i]]
  <2>1. g[l] = n + 1
    BY <1>3
  <2>2. ASSUME NEW i \in Answers(q)
        PROVE  /\ g[i] = f[i] /\ r[i] = q[i] /\ i < l
               /\ f[i] \in 1 .. n /\ i \in Nat
    <3>1. i \in 1 .. l - 1
      BY <1>4
    <3>2. i # l
      BY <1>1, <3>1
    <3> QED BY <1>1, <1>2, <1>3, <3>1, <3>2
  <2>3. g \in [Answers(r) -> 1 .. n + 1]
    <3> SUFFICES ASSUME NEW i \in Answers(r)
                 PROVE  (IF i = l THEN n + 1 ELSE f[i]) \in 1 .. n + 1
      OBVIOUS
    <3>1. CASE i = l
      BY <3>1
    <3>2. CASE i \in Answers(q)
      BY <2>2, <3>2
    <3> QED BY <1>3, <3>1, <3>2
  <2> HIDE DEF g
  <2>4. Matches(r, asks, g)
    <3> SUFFICES ASSUME NEW i \in Answers(r)
                 PROVE  /\ r[i].p_type = asks[g[i]].type
                        /\ r[i].p_seq = asks[g[i]].seq
                        /\ \A j \in Answers(r) : i < j => g[i] < g[j]
      BY Zenon DEF Matches
    <3>1. CASE i = l
      <4>1. \A j \in Answers(r) : ~(l < j)
        BY <1>1, <1>3, <1>4
      <4> QED BY <1>2, <2>1, <3>1, <4>1
    <3>2. CASE i \in Answers(q)
      <4>1. /\ q[i].p_type = asks[f[i]].type
            /\ q[i].p_seq = asks[f[i]].seq
            /\ \A j \in Answers(q) : i < j => f[i] < f[j]
        BY <1>5, <3>2, Zenon DEF Matches
      <4>2. ASSUME NEW j \in Answers(r), i < j PROVE g[i] < g[j]
        <5>1. CASE j = l
          BY <2>1, <2>2, <3>2, <5>1
        <5>2. CASE j \in Answers(q)
          BY <2>2, <3>2, <4>1, <4>2, <5>2
        <5> QED BY <1>3, <5>1, <5>2
      <4> QED BY <2>2, <3>2, <4>1, <4>2
    <3> QED BY <1>3, <3>1, <3>2
  <2> QED BY <2>1, <2>2, <2>3, <2>4
<1>6. ASSUME InOrder(q, asks, n) PROVE InOrder(r, asks, n + 1)
  <2>1. PICK f \in [Answers(q) -> 1 .. n] : Matches(q, asks, f)
    BY <1>6, Zenon DEF InOrder
  <2> QED BY <1>5, <2>1, Zenon DEF InOrder
<1>7. ASSUME Complete(q, asks, n) PROVE Complete(r, asks, n + 1)
  <2>1. PICK f \in [Answers(q) -> 1 .. n] :
               /\ Matches(q, asks, f)
               /\ \A k \in 1 .. n : \E i \in Answers(q) : f[i] = k
    BY <1>7, Zenon DEF Complete
  <2>2. PICK g \in [Answers(r) -> 1 .. n + 1] :
               /\ Matches(r, asks, g) /\ g[l] = n + 1
               /\ \A i \in Answers(q) : g[i] = f[i]
    BY <1>5, <2>1, Zenon
  <2>3. ASSUME NEW k \in 1 .. n + 1 PROVE \E i \in Answers(r) : g[i] = k
    <3>1. CASE k = n + 1
      BY <1>3, <2>2, <3>1
    <3>2. CASE k \in 1 .. n
      BY <1>3, <2>1, <2>2, <3>2
    <3> QED BY <3>1, <3>2
  <2> QED BY <2>2, <2>3, Zenon DEF Complete
<1> QED BY <1>6, <1>7 DEF r
----------------------------------------------------------------------------
(* What sending does to the transmit buffer *)

(* A packet that is no answer, sent if c. *)
LEMMA SendPlain ==
  ASSUME TypeOK, NEW t \in Buffers, NEW c \in BOOLEAN,
         NEW type \in DOMAIN Size, type # "Response",
         NEW asks, NEW n \in Nat
  PROVE  LET s == SendIf(c, t, Plain(type)) IN
         /\ s \in Buffers
         /\ Carry(t.q, global_seq) => Carry(s.q, global_seq)
         /\ InOrder(t.q, asks, n) => InOrder(s.q, asks, n)
         /\ t.size + Size[type] + 3 <= BUFFER_SIZE_MAX =>
              /\ Complete(t.q, asks, n) => Complete(s.q, asks, n)
              /\ s.size <= t.size + Size[type] + 3
<1> DEFINE p == Plain(type)
           s == Send(t, p)
<1>1. /\ p \in Replies /\ p.type = type /\ p.seq = global_seq
      /\ t.q \in Seq(Replies) /\ t.size \in Nat
  BY PacketsSent, Constants DEF Buffers
<1>2. Size[type] \in Nat
  BY Sizes
<1> HIDE DEF p
<1>3. /\ s \in Buffers
      /\ s = t \/ s.q = Append(t.q, p)
      /\ t.size + Size[type] + 3 <= BUFFER_SIZE_MAX =>
           s.q = Append(t.q, p) /\ s.size = t.size + Size[type] + 3
  BY <1>1, SendFacts
<1> HIDE DEF s
<1>4. Carry(t.q, global_seq) => Carry(s.q, global_seq)
  BY <1>1, <1>3, CarryAppend
<1>5. /\ InOrder(t.q, asks, n) => InOrder(Append(t.q, p), asks, n)
      /\ Complete(t.q, asks, n) => Complete(Append(t.q, p), asks, n)
  BY <1>1, PlainKeeps
<1>6. InOrder(t.q, asks, n) => InOrder(s.q, asks, n)
  BY <1>3, <1>5
<1>7. ASSUME t.size + Size[type] + 3 <= BUFFER_SIZE_MAX
      PROVE  /\ Complete(t.q, asks, n) => Complete(s.q, asks, n)
             /\ s.size <= t.size + Size[type] + 3
  <2>1. s.q = Append(t.q, p) /\ s.size = t.size + Size[type] + 3
    BY <1>3, <1>7
  <2>2. s.size <= t.size + Size[type] + 3
    BY <1>1, <1>2, <2>1
  <2> QED BY <1>5, <2>1, <2>2, Zenon
<1>8. SendIf(c, t, Plain(type)) = IF c THEN s ELSE t
  BY DEF SendIf, s, p
<1>9. t.size <= t.size + Size[type] + 3
  BY <1>1, <1>2
<1> QED BY <1>3, <1>4, <1>6, <1>7, <1>8, <1>9

(* The answer to the packet p, the next of the packets asks. *)
LEMMA SendResponse ==
  ASSUME TypeOK, NEW t \in Buffers, NEW p \in InPackets,
         NEW r \in {"Success", "GenericError"}, NEW asks, NEW n \in Nat,
         p = asks[n + 1]
  PROVE  LET s == Send(t, Response(p, r)) IN
         /\ s \in Buffers
         /\ Carry(t.q, global_seq) => Carry(s.q, global_seq)
         /\ InOrder(t.q, asks, n) => InOrder(s.q, asks, n + 1)
         /\ t.size + 11 <= BUFFER_SIZE_MAX =>
              /\ Complete(t.q, asks, n) => Complete(s.q, asks, n + 1)
              /\ s.size = t.size + 11
<1> DEFINE a == Response(p, r)
           s == Send(t, a)
<1>1. /\ a \in Replies /\ a.type = "Response" /\ a.seq = global_seq
      /\ a.p_type = p.type /\ a.p_seq = p.seq
      /\ t.q \in Seq(Replies) /\ t.size \in Nat
  BY PacketsSent, Constants DEF Buffers
<1> HIDE DEF a
<1>2. /\ s \in Buffers
      /\ s = t \/ s.q = Append(t.q, a)
      /\ t.size + Size[a.type] + 3 <= BUFFER_SIZE_MAX =>
           s.q = Append(t.q, a) /\ s.size = t.size + Size[a.type] + 3
  BY <1>1, SendFacts
<1>3. Size[a.type] = 8
  BY <1>1, Sizes
<1> HIDE DEF s
<1>4. t.size + 11 <= BUFFER_SIZE_MAX =>
        s.q = Append(t.q, a) /\ s.size = t.size + 11
  BY <1>1, <1>2, <1>3, Constants
<1>5. Carry(t.q, global_seq) => Carry(s.q, global_seq)
  BY <1>1, <1>2, CarryAppend
<1>6. /\ InOrder(t.q, asks, n) => InOrder(Append(t.q, a), asks, n + 1)
      /\ Complete(t.q, asks, n) => Complete(Append(t.q, a), asks, n + 1)
  BY <1>1, AnswerAdds
<1>7. InOrder(t.q, asks, n) => InOrder(s.q, asks, n + 1)
  BY <1>2, <1>6, OrderGrows
<1> QED BY <1>2, <1>4, <1>5, <1>6, <1>7 DEF s, a

ParamPackets == {"SystemParam", "JointParam", "DriveParam"}

(* A handler sends its answer, and the parameters before it if it has any  *)
(* to send.                                                                *)
LEMMA HandlerSends ==
  ASSUME TypeOK, ProcessOne
  PROVE  LET p == Head(pending) IN
         \E type \in ParamPackets, c \in BOOLEAN,
            r \in {"Success", "GenericError"} :
           /\ tx' = Send(SendIf(c, tx, Plain(type)), Response(p, r))
           /\ c => Size[type] + 14 <= Reply(p)
<1> DEFINE p == Head(pending)
<1>1. \/ handleJointControl(p) \/ handleDriveControl(p)
      \/ handleParamControl(p)
      \/ handleParam(p, "SystemParam", "ParamSystem")
      \/ handleParam(p, "JointParam", "ParamJoints")
      \/ handleParam(p, "DriveParam", "ParamDrive")
  BY DEF ProcessOne
<1> HIDE DEF p
<1>2. ASSUME NEW type \in ParamPackets, NEW c \in BOOLEAN,
             NEW r \in {"Success", "GenericError"},
             tx' = Send(SendIf(c, tx, Plain(type)), Response(p, r)),
             c => Size[type] + 14 <= Reply(p)
      PROVE  \E type2 \in ParamPackets, c2 \in BOOLEAN,
                r2 \in {"Success", "GenericError"} :
               /\ tx' = Send(SendIf(c2, tx, Plain(type2)), Response(p, r2))
               /\ c2 => Size[type2] + 14 <= Reply(p)
  BY <1>2, Zenon
<1>3. CASE handleJointControl(p) \/ handleDriveControl(p)
  <2>1. tx' = Send(SendIf(FALSE, tx, Plain("SystemParam")),
                   Response(p, "Success"))
    BY <1>3 DEF handleJointControl, handleDriveControl, SendIf
  <2>2. "SystemParam" \in ParamPackets
    BY DEF ParamPackets
  <2> QED BY <1>2, <2>1, <2>2 DEF p
<1>4. CASE handleParamControl(p)
  <2> DEFINE t == p.arg.param_type
             known == t \in ParamTypes
             done == \/ p.arg.action = "ParamRequest"
                     \/ p.arg.action \in {"ParamLoad", "ParamSave"} /\ known
             r == IF done THEN "Success" ELSE "GenericError"
  <2>1. tx' = Send(IF known THEN Send(tx, ParamPacket(t)) ELSE tx,
                   Response(p, r))
    BY <1>4 DEF handleParamControl
  <2>2. r \in {"Success", "GenericError"}
    OBVIOUS
  <2>3. \A type \in ParamPackets : Size[type] + 14 <= Reply(p)
    <3>1. p.type = "ParamControl"
      BY <1>4 DEF handleParamControl
    <3>2. Reply(p) = 52
      BY <3>1, Sizes DEF Reply
    <3> QED BY <3>2, Sizes DEF ParamPackets
  <2>4. CASE known
    <3>1. PICK type \in ParamPackets : ParamPacket(t) = Plain(type)
      BY <2>4 DEF ParamTypes, ParamPacket, ParamPackets
    <3>2. tx' = Send(SendIf(TRUE, tx, Plain(type)), Response(p, r))
      BY <2>1, <2>4, <3>1 DEF SendIf
    <3> HIDE DEF r
    <3> QED BY <1>2, <2>2, <2>3, <3>2 DEF p
  <2>5. CASE ~known
    <3>1. tx' = Send(SendIf(FALSE, tx, Plain("SystemParam")), Response(p, r))
      BY <2>1, <2>5 DEF SendIf
    <3>2. "SystemParam" \in ParamPackets
      BY DEF ParamPackets
    <3> HIDE DEF r
    <3> QED BY <1>2, <2>2, <3>1, <3>2 DEF p
  <2> QED BY <2>4, <2>5
<1>5. ASSUME NEW type \in ParamPackets, NEW t, handleParam(p, type, t)
      PROVE  /\ tx' = Send(SendIf(TRUE, tx, Plain(type)),
                           Response(p, "Success"))
             /\ Size[type] + 14 <= Reply(p)
  <2>1. p.type = type /\ tx' = Send(Send(tx, Plain(type)),
                                    Response(p, "Success"))
    BY <1>5 DEF handleParam
  <2>2. Reply(p) = 11 + (Size[type] + 3)
    BY <2>1, Sizes DEF Reply, ParamPackets
  <2>3. Size[type] \in Nat
    BY Sizes DEF ParamPackets
  <2> QED BY <2>1, <2>2, <2>3 DEF SendIf
<1>6. {"SystemParam", "JointParam", "DriveParam"} \subseteq ParamPackets
  BY DEF ParamPackets
<1> QED BY <1>1, <1>2, <1>3, <1>4, <1>5, <1>6 DEF p

(* So a handled packet is answered in its turn, and takes no more of the   *)
(* buffer than was reckoned with.                                          *)
LEMMA HandledAnswers ==
  ASSUME TypeOK, ProcessOne, NEW asks, NEW n \in Nat,
         Head(pending) = asks[n + 1]
  PROVE  /\ tx' \in Buffers
         /\ Carry(tx.q, global_seq) => Carry(tx'.q, global_seq)
         /\ InOrder(tx.q, asks, n) => InOrder(tx'.q, asks, n + 1)
         /\ tx.size + Reply(asks[n + 1]) <= BUFFER_SIZE_MAX =>
              /\ Complete(tx.q, asks, n) => Complete(tx'.q, asks, n + 1)
              /\ tx'.size <= tx.size + Reply(asks[n + 1])
<1> DEFINE p == Head(pending)
<1>1. p \in InPackets
  BY DEF ProcessOne, TypeOK
<1>2. PICK type \in ParamPackets, c \in BOOLEAN,
           r \in {"Success", "GenericError"} :
             /\ tx' = Send(SendIf(c, tx, Plain(type)), Response(p, r))
             /\ c => Size[type] + 14 <= Reply(p)
  BY HandlerSends
<1>3. tx \in Buffers /\ tx.size \in Nat
  BY Constants DEF TypeOK, Buffers
<1>4. type \in DOMAIN Size /\ type # "Response" /\ Size[type] \in Nat
  BY Sizes DEF ParamPackets
<1> DEFINE b == SendIf(c, tx, Plain(type))
<1>5. /\ b \in Buffers
      /\ Carry(tx.q, global_seq) => Carry(b.q, global_seq)
      /\ InOrder(tx.q, asks, n) => InOrder(b.q, asks, n)
      /\ tx.size + Size[type] + 3 <= BUFFER_SIZE_MAX =>
           /\ Complete(tx.q, asks, n) => Complete(b.q, asks, n)
           /\ b.size <= tx.size + Size[type] + 3
  BY <1>3, <1>4, SendPlain
<1>6. ~c => b = tx
  BY DEF SendIf
<1> HIDE DEF b, p
<1>7. /\ tx' \in Buffers
      /\ Carry(b.q, global_seq) => Carry(tx'.q, global_seq)
      /\ InOrder(b.q, asks, n) => InOrder(tx'.q, asks, n + 1)
      /\ b.size + 11 <= BUFFER_SIZE_MAX =>
           /\ Complete(b.q, asks, n) => Complete(tx'.q, asks, n + 1)
           /\ tx'.size = b.size + 11
  BY <1>1, <1>2, <1>5, SendResponse DEF b, p
<1>8. p = asks[n + 1] /\ Reply(p) \in Nat /\ Reply(p) >= 11
        /\ b.size \in Nat /\ BUFFER_SIZE_MAX \in Nat
  BY <1>5, ReplyIsNat, Constants DEF Buffers, p
<1>9. ASSUME tx.size + Reply(p) <= BUFFER_SIZE_MAX
      PROVE  /\ Complete(tx.q, asks, n) => Complete(tx'.q, asks, n + 1)
             /\ tx'.size <= tx.size + Reply(p)
  <2>1. CASE c
    <3>1. Size[type] + 14 <= Reply(p)
      BY <1>2, <2>1 DEF p
    <3>2. tx.size + Size[type] + 3 <= BUFFER_SIZE_MAX
      BY <1>3, <1>4, <1>8, <1>9, <3>1
    <3>3. b.size + 11 <= BUFFER_SIZE_MAX /\ b.size + 11 <= tx.size + Reply(p)
      BY <1>3, <1>4, <1>5, <1>8, <1>9, <3>1, <3>2
    <3> QED BY <1>5, <1>7, <3>2, <3>3
  <2>2. CASE ~c
    <3>1. b.size + 11 <= BUFFER_SIZE_MAX /\ b.size + 11 <= tx.size + Reply(p)
      BY <1>3, <1>6, <1>8, <1>9, <2>2
    <3> QED BY <1>6, <1>7, <2>2, <3>1
  <2> QED BY <2>1, <2>2
<1> QED BY <1>5, <1>7, <1>8, <1>9 DEF p
----------------------------------------------------------------------------
(* Parameters *)

(* What the handler of p does to the parameters in RAM and EEPROM. *)
LEMMA HandlerSets ==
  ASSUME TypeOK, ProcessOne
  PROVE  LET p == Head(pending) IN
         /\ params' = [t \in ParamTypes |-> params'[t]]
         /\ eeprom' = [t \in ParamTypes |-> eeprom'[t]]
         /\ \A t \in ParamTypes :
              /\ Sets(p, t) => params'[t] = p.arg
              /\ ~Sets(p, t) /\ ~Loads(p) => params'[t] = params[t]
              /\ Saves(p, t) => eeprom'[t] = params[t]
              /\ eeprom'[t] \in {eeprom[t], params[t]}
<1> DEFINE p == Head(pending)
           Result ==
             /\ params' = [t \in ParamTypes |-> params'[t]]
             /\ eeprom' = [t \in ParamTypes |-> eeprom'[t]]
             /\ \A t \in ParamTypes :
                  /\ Sets(p, t) => params'[t] = p.arg
                  /\ ~Sets(p, t) /\ ~Loads(p) => params'[t] = params[t]
                  /\ Saves(p, t) => eeprom'[t] = params[t]
                  /\ eeprom'[t] \in {eeprom[t], params[t]}
<1> SUFFICES Result
  OBVIOUS
<1>1. \/ handleJointControl(p) \/ handleDriveControl(p)
      \/ handleParamControl(p)
      \/ handleParam(p, "SystemParam", "ParamSystem")
      \/ handleParam(p, "JointParam", "ParamJoints")
      \/ handleParam(p, "DriveParam", "ParamDrive")
  BY DEF ProcessOne
<1>2. /\ params = [t \in ParamTypes |-> params[t]]
      /\ eeprom = [t \in ParamTypes |-> eeprom[t]]
  BY DEF TypeOK
<1> HIDE DEF p
<1>3. CASE handleJointControl(p) \/ handleDriveControl(p)
  <2>1. params' = params /\ eeprom' = eeprom
          /\ p.type \in {"JointControl", "DriveControl"}
    BY <1>3 DEF handleJointControl, handleDriveControl
  <2>2. \A t : ~Sets(p, t) /\ ~Saves(p, t)
    BY <2>1 DEF Sets, Saves
  <2> QED BY <1>2, <2>1, <2>2
<1>4. CASE handleParamControl(p)
  <2> DEFINE a == p.arg.action
             u == p.arg.param_type
  <2>1. p.type = "ParamControl" /\ \A t : ~Sets(p, t)
    BY <1>4 DEF handleParamControl, Sets
  <2>2. IF a = "ParamLoad" /\ u \in ParamTypes
        THEN params' = [params EXCEPT ![u] = eeprom[u]]
        ELSE params' = params
    BY <1>4 DEF handleParamControl
  <2>3. eeprom' = IF a = "ParamSave" /\ u \in ParamTypes
                  THEN [eeprom EXCEPT ![u] = params[u]] ELSE eeprom
    BY <1>4 DEF handleParamControl
  <2>4. \A t : Saves(p, t) => a = "ParamSave" /\ u = t
    BY DEF Saves
  <2>5. Loads(p) <=> a = "ParamLoad"
    BY <2>1 DEF Loads
  <2> HIDE DEF a, u
  <2>6. params' = [t \in ParamTypes |-> params'[t]]
    BY <1>2, <2>2
  <2>7. eeprom' = [t \in ParamTypes |-> eeprom'[t]]
    BY <1>2, <2>3
  <2>8. ASSUME NEW t \in ParamTypes
        PROVE  /\ ~Loads(p) => params'[t] = params[t]
               /\ Saves(p, t) => eeprom'[t] = params[t]
               /\ eeprom'[t] \in {eeprom[t], params[t]}
    <3>1. ~Loads(p) => params'[t] = params[t]
      BY <2>2, <2>5
    <3>2. Saves(p, t) => eeprom'[t] = params[t]
      BY <1>2, <2>3, <2>4
    <3>3. eeprom'[t] \in {eeprom[t], params[t]}
      BY <1>2, <2>3
    <3> QED BY <3>1, <3>2, <3>3
  <2> QED BY <2>1, <2>6, <2>7, <2>8
<1>5. ASSUME NEW type, NEW u, handleParam(p, type, u),
             <<type, u>> \in {<<"SystemParam", "ParamSystem">>,
                              <<"JointParam", "ParamJoints">>,
                              <<"DriveParam", "ParamDrive">>}
      PROVE  Result
  <2>1. /\ p.type = type /\ eeprom' = eeprom
        /\ params' = [params EXCEPT ![u] = p.arg]
    BY <1>5 DEF handleParam
  <2>2. u \in ParamTypes
    BY <1>5 DEF ParamTypes
  <2>3. \A t : ~Saves(p, t)
    BY <1>5, <2>1 DEF Saves
  <2>4. \A t \in ParamTypes : Sets(p, t) <=> t = u
    BY <1>5, <2>1 DEF Sets, ParamTypes
  <2>5. params' = [t \in ParamTypes |-> params'[t]]
    BY <1>2, <2>1
  <2>6. ASSUME NEW t \in ParamTypes
        PROVE  /\ Sets(p, t) => params'[t] = p.arg
               /\ ~Sets(p, t) => params'[t] = params[t]
    BY <1>2, <2>1, <2>2, <2>4
  <2> QED BY <1>2, <2>1, <2>3, <2>5, <2>6
<1> QED BY <1>1, <1>3, <1>4, <1>5 DEF p

(* One packet more leaves behind what LastWins says. *)
LEMMA HandledWins ==
  ASSUME TypeOK, ProcessOne, NEW asks, NEW n \in Nat,
         Head(pending) = asks[n + 1], LastWins(asks, n, params, eeprom)
  PROVE  LastWins(asks, n + 1, params', eeprom')
<1> SUFFICES ASSUME NEW t \in ParamTypes, NEW k \in 1 .. n + 1,
                    Sets(asks[k], t),
                    \A j \in k + 1 .. n + 1 :
                      ~Sets(asks[j], t) /\ ~Loads(asks[j])
             PROVE  /\ params'[t] = asks[k].arg
                    /\ (\E j \in k + 1 .. n + 1 : Saves(asks[j], t)) =>
                         eeprom'[t] = asks[k].arg
  BY Zenon DEF LastWins
<1> DEFINE p == asks[n + 1]
<1>1. /\ Sets(p, t) => params'[t] = p.arg
      /\ ~Sets(p, t) /\ ~Loads(p) => params'[t] = params[t]
      /\ Saves(p, t) => eeprom'[t] = params[t]
      /\ eeprom'[t] \in {eeprom[t], params[t]}
  BY HandlerSets
<1>2. CASE k = n + 1
  <2>1. params'[t] = asks[k].arg
    BY <1>1, <1>2
  <2>2. ~ \E j \in k + 1 .. n + 1 : TRUE
    BY <1>2
  <2> QED BY <2>1, <2>2
<1>3. CASE k \in 1 .. n
  <2>1. n + 1 \in k + 1 .. n + 1 /\ k + 1 .. n \subseteq k + 1 .. n + 1
    BY <1>3
  <2>2. ~Sets(p, t) /\ ~Loads(p)
    BY <2>1
  <2>3. \A j \in k + 1 .. n : ~Sets(asks[j], t) /\ ~Loads(asks[j])
    BY <2>1
  <2>4. /\ params[t] = asks[k].arg
        /\ (\E j \in k + 1 .. n : Saves(asks[j], t)) => eeprom[t] = asks[k].arg
    BY <1>3, <2>3, Zenon DEF LastWins
  <2>5. params'[t] = asks[k].arg
    BY <1>1, <2>2, <2>4
  <2>6. ASSUME NEW j \in k + 1 .. n + 1, Saves(asks[j], t)
        PROVE  eeprom'[t] = asks[k].arg
    <3>1. CASE j = n + 1
      BY <1>1, <2>4, <2>6, <3>1
    <3>2. CASE j \in k + 1 .. n
      BY <1>1, <2>4, <2>6, <3>2
    <3>3. j = n + 1 \/ j \in k + 1 .. n
      BY <1>3
    <3> QED BY <3>1, <3>2, <3>3
  <2> QED BY <2>5, <2>6
<1> QED BY <1>2, <1>3
----------------------------------------------------------------------------
(* The steps *)

(* The invariant at boot, and after each step.                             *)
LEMMA InitOK == ASSUME Init PROVE IInv
<1>1. BUFFER_SIZE_MAX \in Nat /\ SeqRange \in Nat /\ SeqRange > 1
        /\ PENDING_PACKETS_MAX \in Nat
  BY Constants
<1>2. tx = EmptyTx /\ EmptyTx \in Buffers /\ tx.q = <<>>
  BY <1>1, EmptySeq DEF Init, CommInit, EmptyTx, Buffers
<1>3. TypeOK
  BY <1>1, <1>2, CommConstants, EmptySeq DEF Init, CommInit, TypeOK, Buffers
<1>4. sent = <<>> /\ comm_pc = "idle"
  BY DEF Init, CommInit
<1>5. Numbered
  BY <1>2, <1>4 DEF Numbered, Carry, Epoch
<1> QED
  BY <1>3, <1>4, <1>5 DEF IInv, Remaining, Unsent, Answering, Setting,
     Promised, AnswersInOrder, NoSpuriousDrop, LastAcceptedWins, Epoch

(* A packet arrives.                                                       *)
LEMMA ReceiveOK == ASSUME IInv, Receive PROVE IInv'
<1>1. PICK p \in InPackets : Arrive(p)
  BY DEF Receive
<1>2. /\ comm_pc = "flush" /\ uart_rx' = Append(uart_rx, p)
      /\ UNCHANGED <<comm_pc, pending, global_seq, tx, sent, params, eeprom,
                     heard, asked, seqs_before>>
  BY <1>1 DEF Receive, Arrive
<1>3. TypeOK'
  BY <1>2, AppendProperties DEF IInv, TypeOK
<1>4. Carry(tx.q, global_seq)' /\ Carry(sent, global_seq)'
  BY <1>2 DEF IInv, Numbered, Carry
<1>5. Numbered'
  BY <1>2, <1>4 DEF IInv, Numbered, Epoch
<1> QED
  BY <1>2, <1>3, <1>5 DEF IInv, Remaining, Unsent, Answering, Setting,
     Promised, AnswersInOrder, NoSpuriousDrop, LastAcceptedWins, Epoch

(* The numbers of the epoch that ends here are what the next must not use. *)
LEMMA BeginOK == ASSUME IInv, Begin PROVE IInv'
<1>1. /\ comm_pc = "idle" /\ comm_pc' = "flush" /\ sent' = <<>>
      /\ heard' = <<>> /\ asked' = <<>>
      /\ seqs_before' = {sent[i].seq : i \in DOMAIN sent}
      /\ UNCHANGED <<uart_rx, pending, global_seq, tx, params, eeprom>>
  BY DEF Begin, CommBegin, rxVars
<1>2. TypeOK'
  BY <1>1, EmptySeq DEF IInv, TypeOK
<1>3. Carry(tx.q, global_seq)' /\ Carry(sent, global_seq)'
  BY <1>1 DEF IInv, Numbered, Carry
<1>4. seqs_before' \subseteq {global_seq'}
  BY <1>1 DEF IInv, Numbered, Carry
<1>5. Numbered'
  BY <1>1, <1>3, <1>4 DEF Numbered, Epoch
<1> QED
  BY <1>1, <1>2, <1>5 DEF IInv, Remaining, Unsent, Answering, Setting,
     Promised, AnswersInOrder, NoSpuriousDrop, LastAcceptedWins, Epoch

(* A packet goes from the UART to the list.                                *)
LEMMA FlushOK == ASSUME IInv, Flush PROVE IInv'
<1> DEFINE p == Head(uart_rx)
<1>1. /\ comm_pc = "flush" /\ uart_rx # <<>>
      /\ pending' = IF Counted(p) /\ Len(pending) < PENDING_PACKETS_MAX
                    THEN Append(pending, p) ELSE pending
      /\ uart_rx' = Tail(uart_rx)
      /\ UNCHANGED <<comm_pc, global_seq, tx, sent, params, eeprom, asked,
                     seqs_before>>
  BY DEF Flush, FlushOne
<1>2. p \in InPackets /\ uart_rx' \in Seq(InPackets)
        /\ heard' \in Seq(InPackets)
  <2>1. p \in InPackets /\ uart_rx' \in Seq(InPackets)
    BY <1>1, HeadTailProperties DEF IInv, TypeOK
  <2>2. heard \in Seq(InPackets) /\ (heard' = heard \/ heard' = Append(heard, p))
    BY DEF IInv, TypeOK, Flush
  <2> HIDE DEF p
  <2> QED BY <2>1, <2>2, AppendProperties
<1> HIDE DEF p
<1>3. pending' \in Seq(InPackets) /\ Len(pending') <= PENDING_PACKETS_MAX
  <2>1. pending \in Seq(InPackets) /\ Len(pending) <= PENDING_PACKETS_MAX
          /\ PENDING_PACKETS_MAX \in Nat
    BY Constants DEF IInv, TypeOK
  <2>2. /\ Append(pending, p) \in Seq(InPackets)
        /\ Len(Append(pending, p)) = Len(pending) + 1
        /\ Len(pending) \in Nat
    BY <1>2, <2>1, AppendProperties
  <2> QED BY <1>1, <2>1, <2>2
<1>4. TypeOK'
  BY <1>1, <1>2, <1>3 DEF IInv, TypeOK
<1>5. Carry(tx.q, global_seq)' /\ Carry(sent, global_seq)'
  BY <1>1 DEF IInv, Numbered, Carry
<1>6. Numbered'
  BY <1>1, <1>5 DEF IInv, Numbered, Epoch
<1> QED
  BY <1>1, <1>4, <1>6 DEF IInv, Remaining, Unsent, Answering, Setting,
     Promised, AnswersInOrder, NoSpuriousDrop, LastAcceptedWins, Epoch

(* The epoch begins with nothing handled and an empty buffer. *)
LEMMA StartOK == ASSUME IInv, StartEpoch PROVE IInv'
<1>1. /\ comm_pc = "flush" /\ comm_pc' = "process"
      /\ global_seq' = NextSeq /\ asked' = pending
      /\ UNCHANGED <<uart_rx, pending, tx, sent, params, eeprom, heard,
                     seqs_before>>
  BY DEF StartEpoch, FlushEnd, rxVars
<1>2. global_seq' \in 0 .. SeqRange - 1 /\ global_seq' # global_seq
  BY <1>1, NextSeqDiffers DEF IInv, TypeOK
<1>3. pending \in Seq(InPackets) /\ tx = EmptyTx /\ sent = <<>>
  BY <1>1 DEF IInv, TypeOK, Unsent
<1>4. TypeOK'
  BY <1>1, <1>2, <1>3 DEF IInv, TypeOK
<1>5. Handled' = 0 /\ Len(pending) \in Nat
  BY <1>1, <1>3, LenProperties DEF Handled
<1>6. Remaining'
  BY <1>1, <1>5 DEF Remaining
<1>7. Numbered'
  <2>1. tx.q = <<>>
    BY <1>3 DEF EmptyTx
  <2>2. Carry(tx.q, global_seq)' /\ Carry(sent, global_seq)'
    BY <1>1, <1>3, <2>1 DEF Carry
  <2>3. global_seq' \notin seqs_before'
    BY <1>1, <1>2 DEF IInv, Numbered
  <2> QED BY <1>1, <2>2, <2>3 DEF Numbered
<1>8. Answering'
  <2>1. Answers(tx'.q) = {} /\ tx'.size = 0
    BY <1>1, <1>3 DEF Answers, EmptyTx
  <2> DEFINE f == [i \in {} |-> 0]
  <2>2. \A n \in Nat : f \in [{} -> 1 .. n]
    OBVIOUS
  <2>3. Matches(tx'.q, asked', f)
    BY <2>1 DEF Matches
  <2>4. InOrder(tx'.q, asked', 0)
    BY <2>1, <2>2, <2>3 DEF InOrder
  <2>5. Complete(tx'.q, asked', 0)
    <3>1. 1 .. 0 = {}
      OBVIOUS
    <3>2. f \in [Answers(tx'.q) -> 1 .. 0]
      BY <2>1, <2>2
    <3> HIDE DEF f
    <3> QED BY <2>3, <3>1, <3>2, Zenon DEF Complete
  <2>6. Demand(asked')[0] = StatusBytes
    BY <1>1, <1>3, DemandDef
  <2>7. tx'.size + StatusBytes <= Demand(asked')[0]
    BY <2>1, <2>6, StatusBytesIs
  <2> QED BY <1>5, <2>4, <2>5, <2>7 DEF Answering
<1>9. LastWins(asked', 0, params', eeprom')
  BY DEF LastWins
<1> QED
  BY <1>1, <1>3, <1>4, <1>5, <1>6, <1>7, <1>8, <1>9 DEF IInv, Unsent, Setting,
     Promised, AnswersInOrder, NoSpuriousDrop, LastAcceptedWins, Epoch

(* The packet at the head of the list is the next of the epoch.            *)
LEMMA ProcessOK == ASSUME IInv, Process PROVE IInv'
<1> DEFINE n == Handled
<1>1. /\ ProcessOne /\ comm_pc = "process" /\ comm_pc' = "process"
      /\ pending # <<>> /\ pending' = Tail(pending)
      /\ UNCHANGED <<uart_rx, global_seq, sent, heard, asked, seqs_before>>
  BY DEF Process, ProcessOne
<1>2. /\ pending \in Seq(InPackets) /\ asked \in Seq(InPackets)
      /\ Len(pending) \in Nat /\ Len(asked) \in Nat
      /\ Len(pending) > 0
  BY <1>1, LenProperties, EmptySeq DEF IInv, TypeOK
<1>3. /\ pending' \in Seq(InPackets) /\ Len(pending') = Len(pending) - 1
      /\ Head(pending) = pending[1]
      /\ \A i \in 1 .. Len(pending) - 1 : pending'[i] = pending[i + 1]
  BY <1>1, <1>2, HeadTailProperties
<1>4. n \in Nat /\ n + 1 <= Len(asked) /\ Handled' = n + 1
  BY <1>1, <1>2, <1>3 DEF IInv, Remaining, Handled
<1>5. Head(pending) = asked[n + 1]
  BY <1>1, <1>2, <1>3 DEF IInv, Remaining
<1>6. Remaining'
  <2>1. Len(pending') <= Len(asked')
    BY <1>1, <1>2, <1>3, <1>4 DEF Handled
  <2>2. ASSUME NEW i \in 1 .. Len(pending')
        PROVE  pending'[i] = asked'[Handled' + i]
    <3>1. pending'[i] = pending[i + 1] /\ i + 1 \in 1 .. Len(pending)
      BY <1>2, <1>3
    <3>2. pending[i + 1] = asked[n + (i + 1)]
      BY <1>1, <3>1 DEF IInv, Remaining
    <3>3. n + (i + 1) = Handled' + i
      BY <1>4
    <3> QED BY <1>1, <3>1, <3>2, <3>3
  <2> QED BY <2>1, <2>2 DEF Remaining
<1> HIDE DEF n
<1>7. /\ tx' \in Buffers
      /\ Carry(tx.q, global_seq) => Carry(tx'.q, global_seq)
      /\ InOrder(tx.q, asked, n) => InOrder(tx'.q, asked, n + 1)
      /\ tx.size + Reply(asked[n + 1]) <= BUFFER_SIZE_MAX =>
           /\ Complete(tx.q, asked, n) => Complete(tx'.q, asked, n + 1)
           /\ tx'.size <= tx.size + Reply(asked[n + 1])
  BY <1>1, <1>4, <1>5, HandledAnswers DEF IInv
<1>8. /\ params' = [t \in ParamTypes |-> params'[t]]
      /\ eeprom' = [t \in ParamTypes |-> eeprom'[t]]
  BY <1>1, HandlerSets DEF IInv
<1>9. TypeOK'
  <2>1. Len(pending') <= PENDING_PACKETS_MAX
    BY <1>2, <1>3, Constants DEF IInv, TypeOK
  <2>2. tx' \in [q : Seq(Replies), size : 0 .. BUFFER_SIZE_MAX]
    BY <1>7 DEF Buffers
  <2> QED BY <1>1, <1>3, <1>8, <2>1, <2>2 DEF IInv, TypeOK
<1>10. Numbered'
  <2>1. Carry(tx.q, global_seq)' /\ Carry(sent, global_seq)'
    BY <1>1, <1>7 DEF IInv, Numbered, Carry
  <2> QED BY <1>1, <2>1 DEF IInv, Numbered
<1>11. InOrder(tx'.q, asked, n + 1)
  BY <1>1, <1>7 DEF IInv, Answering, n
<1>12. ASSUME Affordable
       PROVE  /\ Complete(tx'.q, asked, n + 1)
              /\ tx'.size + StatusBytes <= Demand(asked)[n + 1]
  <2>1. Complete(tx.q, asked, n) /\ tx.size + StatusBytes <= Demand(asked)[n]
    BY <1>1, <1>12 DEF IInv, Answering, n
  <2>2. Demand(asked)[n + 1] = Demand(asked)[n] + Reply(asked[n + 1])
    <3>1. n + 1 \in 1 .. Len(asked) /\ (n + 1) - 1 = n
      BY <1>2, <1>4
    <3>2. \A m \in 1 .. Len(asked) :
            Demand(asked)[m] = Demand(asked)[m - 1] + Reply(asked[m])
      BY <1>2, DemandDef
    <3>3. Demand(asked)[n + 1]
            = Demand(asked)[(n + 1) - 1] + Reply(asked[n + 1])
      BY <3>1, <3>2
    <3> QED BY <3>1, <3>3
  <2>3. Demand(asked)[n] \in Nat /\ Demand(asked)[n + 1] \in Nat
          /\ Demand(asked)[n + 1] <= BUFFER_SIZE_MAX
    <3>1. n \in 0 .. Len(asked) /\ n + 1 \in 0 .. Len(asked)
            /\ Len(asked) \in 0 .. Len(asked)
      BY <1>2, <1>4
    <3>2. /\ Demand(asked)[n] \in Nat /\ Demand(asked)[n + 1] \in Nat
          /\ Demand(asked)[Len(asked)] \in Nat
          /\ Demand(asked)[n + 1] <= Demand(asked)[Len(asked)]
      BY <1>2, <3>1, DemandGrows
    <3> QED BY <1>12, <3>2, Constants DEF Affordable
  <2>4. /\ tx.size \in Nat /\ tx'.size \in Nat /\ StatusBytes = 109
        /\ Reply(asked[n + 1]) \in Nat /\ BUFFER_SIZE_MAX \in Nat
    <3>1. tx.size \in Nat
      <4>1. tx.size \in 0 .. BUFFER_SIZE_MAX
        BY DEF IInv, TypeOK
      <4> QED BY <4>1, Constants
    <3>2. tx'.size \in Nat
      BY <1>7, Constants DEF Buffers
    <3> QED BY <3>1, <3>2, Constants, StatusBytesIs, ReplyIsNat
  <2>5. tx.size + Reply(asked[n + 1]) <= BUFFER_SIZE_MAX
    BY <2>1, <2>2, <2>3, <2>4
  <2>6. tx'.size <= tx.size + Reply(asked[n + 1])
    BY <1>7, <2>5
  <2>7. tx'.size + StatusBytes <= Demand(asked)[n + 1]
    BY <2>1, <2>2, <2>3, <2>4, <2>6
  <2> QED BY <1>7, <2>1, <2>5, <2>7
<1>13. Answering'
  BY <1>1, <1>4, <1>11, <1>12 DEF Answering, Affordable
<1>14. LastWins(asked, n + 1, params', eeprom')
  <2>1. LastWins(asked, n, params, eeprom)
    BY <1>1 DEF IInv, Setting, n
  <2> QED BY <1>1, <1>4, <1>5, <2>1, HandledWins DEF IInv
<1>15. Setting'
  BY <1>1, <1>4, <1>14 DEF Setting
<1> QED
  BY <1>1, <1>6, <1>9, <1>10, <1>13, <1>15 DEF IInv, Unsent,
     Promised, AnswersInOrder, NoSpuriousDrop, LastAcceptedWins, Epoch

(* The periodic packets and the end of the epoch are no answers, and were  *)
(* reckoned with from the beginning.                                       *)
LEMMA FinishSends ==
  ASSUME TypeOK, FinishEpoch, NEW asks, NEW n \in Nat
  PROVE  /\ sent' \in Seq(Replies)
         /\ Carry(tx.q, global_seq) => Carry(sent', global_seq)
         /\ InOrder(tx.q, asks, n) => InOrder(sent', asks, n)
         /\ tx.size + StatusBytes <= BUFFER_SIZE_MAX =>
              /\ Complete(tx.q, asks, n) => Complete(sent', asks, n)
              /\ sent' # <<>> /\ sent'[Len(sent')].type = "EndEpoch"
<1> DEFINE mask == params["ParamSystem"].periodic_packet_mask
           c1 == "PSystemStatusFlag" \in mask
           c2 == "PJointStatusFlag" \in mask
           c3 == "PDriveStatusFlag" \in mask
           t1 == SendIf(c1, tx, Plain("SystemStatus"))
           t2 == SendIf(c2, t1, Plain("JointStatus"))
           t3 == SendIf(c3, t2, Plain("DriveStatus"))
           t4 == Send(t3, Plain("EndEpoch"))
<1>1. sent' = t4.q
  BY DEF FinishEpoch
<1>2. {"SystemStatus", "JointStatus", "DriveStatus", "EndEpoch"}
        \subseteq DOMAIN Size
  BY Sizes
<1>3. tx \in Buffers /\ tx.size \in Nat /\ BUFFER_SIZE_MAX \in Nat
  BY Constants DEF TypeOK, Buffers
<1>4. c1 \in BOOLEAN /\ c2 \in BOOLEAN /\ c3 \in BOOLEAN
  OBVIOUS
<1> HIDE DEF c1, c2, c3
<1>5. /\ t1 \in Buffers
      /\ Carry(tx.q, global_seq) => Carry(t1.q, global_seq)
      /\ InOrder(tx.q, asks, n) => InOrder(t1.q, asks, n)
      /\ tx.size + Size["SystemStatus"] + 3 <= BUFFER_SIZE_MAX =>
           /\ Complete(tx.q, asks, n) => Complete(t1.q, asks, n)
           /\ t1.size <= tx.size + Size["SystemStatus"] + 3
  BY <1>2, <1>3, <1>4, SendPlain
<1> HIDE DEF t1
<1>6. /\ t2 \in Buffers
      /\ Carry(t1.q, global_seq) => Carry(t2.q, global_seq)
      /\ InOrder(t1.q, asks, n) => InOrder(t2.q, asks, n)
      /\ t1.size + Size["JointStatus"] + 3 <= BUFFER_SIZE_MAX =>
           /\ Complete(t1.q, asks, n) => Complete(t2.q, asks, n)
           /\ t2.size <= t1.size + Size["JointStatus"] + 3
  BY <1>2, <1>4, <1>5, SendPlain
<1> HIDE DEF t2
<1>7. /\ t3 \in Buffers
      /\ Carry(t2.q, global_seq) => Carry(t3.q, global_seq)
      /\ InOrder(t2.q, asks, n) => InOrder(t3.q, asks, n)
      /\ t2.size + Size["DriveStatus"] + 3 <= BUFFER_SIZE_MAX =>
           /\ Complete(t2.q, asks, n) => Complete(t3.q, asks, n)
           /\ t3.size <= t2.size + Size["DriveStatus"] + 3
  BY <1>2, <1>4, <1>6, SendPlain
<1> HIDE DEF t3
<1>8. /\ t4 \in Buffers
      /\ Carry(t3.q, global_seq) => Carry(t4.q, global_seq)
      /\ InOrder(t3.q, asks, n) => InOrder(t4.q, asks, n)
      /\ t3.size + Size["EndEpoch"] + 3 <= BUFFER_SIZE_MAX =>
           (Complete(t3.q, asks, n) => Complete(t4.q, asks, n))
  <2>1. t4 = SendIf(TRUE, t3, Plain("EndEpoch"))
    BY DEF SendIf
  <2> HIDE DEF t4
  <2> QED BY <1>2, <1>7, <2>1, SendPlain
<1>9. t3.size + Size["EndEpoch"] + 3 <= BUFFER_SIZE_MAX =>
        t4.q = Append(t3.q, Plain("EndEpoch"))
  <2>1. Plain("EndEpoch") \in Replies /\ Plain("EndEpoch").type = "EndEpoch"
    BY <1>2, PacketsSent
  <2> QED BY <1>7, <2>1, SendFacts
<1> HIDE DEF t4
<1>10. ASSUME tx.size + StatusBytes <= BUFFER_SIZE_MAX
       PROVE  /\ Complete(tx.q, asks, n) => Complete(sent', asks, n)
              /\ t4.q = Append(t3.q, Plain("EndEpoch"))
  <2>1. t1.size \in Nat /\ t2.size \in Nat /\ t3.size \in Nat
    BY <1>3, <1>5, <1>6, <1>7 DEF Buffers
  <2>2. tx.size + 109 <= BUFFER_SIZE_MAX
    BY <1>10, StatusBytesIs
  <2>3. /\ Complete(tx.q, asks, n) => Complete(t1.q, asks, n)
        /\ t1.size <= tx.size + 30
    <3>1. tx.size + 30 <= BUFFER_SIZE_MAX
      BY <1>3, <2>2
    <3> QED BY <1>3, <1>5, <3>1, Sizes
  <2>4. /\ Complete(t1.q, asks, n) => Complete(t2.q, asks, n)
        /\ t2.size <= tx.size + 59
    <3>1. t1.size + 29 <= BUFFER_SIZE_MAX
      BY <1>3, <2>1, <2>2, <2>3
    <3> QED BY <1>3, <1>6, <2>1, <2>3, <3>1, Sizes
  <2>5. /\ Complete(t2.q, asks, n) => Complete(t3.q, asks, n)
        /\ t3.size <= tx.size + 102
    <3>1. t2.size + 43 <= BUFFER_SIZE_MAX
      BY <1>3, <2>1, <2>2, <2>4
    <3> QED BY <1>3, <1>7, <2>1, <2>4, <3>1, Sizes
  <2>6. t3.size + Size["EndEpoch"] + 3 <= BUFFER_SIZE_MAX
    BY <1>3, <2>1, <2>2, <2>5, Sizes
  <2> QED BY <1>1, <1>8, <1>9, <2>3, <2>4, <2>5, <2>6
<1>11. ASSUME tx.size + StatusBytes <= BUFFER_SIZE_MAX
       PROVE  sent' # <<>> /\ sent'[Len(sent')].type = "EndEpoch"
  <2>1. t3.q \in Seq(Replies) /\ Plain("EndEpoch") \in Replies
          /\ Plain("EndEpoch").type = "EndEpoch"
    BY <1>2, <1>7, PacketsSent DEF Buffers
  <2>2. sent' = Append(t3.q, Plain("EndEpoch"))
    BY <1>1, <1>10, <1>11
  <2>3. /\ Len(sent') = Len(t3.q) + 1 /\ Len(t3.q) \in Nat
        /\ sent'[Len(t3.q) + 1] = Plain("EndEpoch")
    BY <2>1, <2>2, AppendProperties
  <2>4. Len(<<>>) = 0
    OBVIOUS
  <2> QED BY <2>1, <2>3, <2>4
<1>12. t4.q \in Seq(Replies)
  BY <1>8 DEF Buffers
<1> QED BY <1>1, <1>5, <1>6, <1>7, <1>8, <1>10, <1>11, <1>12

(* The epoch ends: what was said of it so far is said of what was sent.    *)
LEMMA FinishOK == ASSUME IInv, Finish PROVE IInv'
<1>1. /\ FinishEpoch /\ comm_pc = "process" /\ comm_pc' = "idle"
      /\ pending = <<>> /\ tx' = EmptyTx
      /\ UNCHANGED <<uart_rx, pending, global_seq, params, eeprom, heard,
                     asked, seqs_before>>
  BY DEF Finish, FinishEpoch, rxVars
<1>2. /\ Handled = Len(asked) /\ Len(asked) \in Nat
      /\ asked \in Seq(InPackets) /\ DOMAIN asked = 1 .. Len(asked)
  <2>1. asked \in Seq(InPackets) /\ Len(pending) = 0
    BY <1>1 DEF IInv, TypeOK
  <2> QED BY <2>1, LenProperties DEF Handled
<1>3. /\ sent' \in Seq(Replies)
      /\ Carry(tx.q, global_seq) => Carry(sent', global_seq)
      /\ InOrder(tx.q, asked, Len(asked)) => InOrder(sent', asked, Len(asked))
      /\ tx.size + StatusBytes <= BUFFER_SIZE_MAX =>
           /\ Complete(tx.q, asked, Len(asked)) =>
                Complete(sent', asked, Len(asked))
           /\ sent' # <<>> /\ sent'[Len(sent')].type = "EndEpoch"
  BY <1>1, <1>2, FinishSends DEF IInv
<1>4. TypeOK'
  <2>1. EmptyTx \in [q : Seq(Replies), size : 0 .. BUFFER_SIZE_MAX]
    BY Constants, EmptySeq DEF EmptyTx
  <2> QED BY <1>1, <1>3, <2>1 DEF IInv, TypeOK
<1>5. Numbered'
  <2>1. Carry(sent, global_seq)'
    BY <1>1, <1>3 DEF IInv, Numbered, Carry
  <2>2. Carry(tx.q, global_seq)'
    BY <1>1 DEF Carry, EmptyTx
  <2> QED BY <1>1, <2>1, <2>2 DEF IInv, Numbered
<1>6. InOrder(sent', asked, Len(asked))
  BY <1>1, <1>2, <1>3 DEF IInv, Answering
<1>7. AnswersInOrder'
  BY <1>1, <1>2, <1>6, Zenon DEF AnswersInOrder, InOrder
<1>8. ASSUME Affordable
      PROVE  /\ Complete(sent', asked, Len(asked))
             /\ sent' # <<>> /\ sent'[Len(sent')].type = "EndEpoch"
  <2>1. /\ Complete(tx.q, asked, Len(asked))
        /\ tx.size + StatusBytes <= Demand(asked)[Len(asked)]
    BY <1>1, <1>2, <1>8 DEF IInv, Answering
  <2>2. Demand(asked)[Len(asked)] \in Nat /\ tx.size \in Nat
          /\ StatusBytes = 109 /\ BUFFER_SIZE_MAX \in Nat
    <3>1. Len(asked) \in 0 .. Len(asked)
      BY <1>2
    <3> QED BY <1>2, <3>1, DemandGrows, StatusBytesIs, Constants
            DEF IInv, TypeOK
  <2>3. tx.size + StatusBytes <= BUFFER_SIZE_MAX
    BY <1>8, <2>1, <2>2 DEF Affordable
  <2> QED BY <1>3, <2>1, <2>3
<1>9. NoSpuriousDrop'
  <2> SUFFICES ASSUME Affordable
               PROVE  /\ Closed'
                      /\ \E question \in [Answers(sent') -> DOMAIN asked] :
                           /\ Matches(sent', asked, question)
                           /\ \A k \in DOMAIN asked :
                                \E i \in Answers(sent') : question[i] = k
    BY <1>1 DEF NoSpuriousDrop, Affordable
  <2>1. Closed'
    BY <1>1, <1>8 DEF Closed, Epoch
  <2> QED BY <1>2, <1>8, <2>1, Zenon DEF Complete
<1>10. LastWins(asked, Len(asked), params, eeprom)
  BY <1>1, <1>2 DEF IInv, Setting
<1>11. LastAcceptedWins'
  BY <1>1, <1>10 DEF LastAcceptedWins
<1> QED
  BY <1>1, <1>4, <1>5, <1>7, <1>9, <1>11 DEF IInv, Remaining, Unsent,
     Answering, Setting, Promised

(* The invariant speaks of these variables only.                           *)
LEMMA StutterOK == ASSUME IInv, UNCHANGED vars PROVE IInv'
<1>1. UNCHANGED <<comm_pc, uart_rx, pending, global_seq, tx, sent, params,
                  eeprom, heard, asked, seqs_before>>
  BY DEF vars, commVars
<1>2. TypeOK' /\ Remaining' /\ Unsent'
  BY <1>1 DEF IInv, TypeOK, Remaining, Handled, Unsent
<1>3. Numbered'
  BY <1>1 DEF IInv, Numbered, Carry, Epoch
<1>4. Answering' /\ Setting'
  BY <1>1 DEF IInv, Answering, Affordable, Handled, Setting
<1>5. Promised'
  BY <1>1 DEF IInv, Promised, AnswersInOrder, NoSpuriousDrop, Closed, Epoch,
              LastAcceptedWins
<1> QED BY <1>2, <1>3, <1>4, <1>5 DEF IInv
----------------------------------------------------------------------------
(* The inductive invariant holds. *)
THEOREM Invariance == Spec => []IInv
<1>1. Init => IInv
  BY InitOK
<1>2. IInv /\ [Next]_vars => IInv'
  BY ReceiveOK, BeginOK, FlushOK, StartOK, ProcessOK, FinishOK, StutterOK
     DEF Next, Handle
<1> QED BY <1>1, <1>2, PTL DEF Spec

(* The state is well formed, and the transmit buffer never holds more than *)
(* its capacity and is empty between two epochs.                           *)
THEOREM TypeCorrect == Spec => []TypeOK
<1>1. IInv => TypeOK
  BY DEF IInv
<1> QED BY <1>1, Invariance, PTL

(* The answers of an epoch belong to the packets it handled, in their      *)
(* order, whatever a full transmit buffer has dropped.                     *)
THEOREM AnswersInOrderAlways == Spec => []AnswersInOrder
<1>1. IInv => AnswersInOrder
  BY DEF IInv, Promised
<1> QED BY <1>1, Invariance, PTL

(* If all that an epoch could have to say fits into the buffer, it answers *)
(* every packet and is closed.                                             *)
THEOREM NoSpuriousDropAlways == Spec => []NoSpuriousDrop
<1>1. IInv => NoSpuriousDrop
  BY DEF IInv, Promised
<1> QED BY <1>1, Invariance, PTL

(* Where one packet more is within the limits, the receiver has a buffer   *)
(* for it and the list a place.                                            *)
LEMMA RoomForNext ==
  ASSUME NEW q \in Seq(InPackets), NEW p \in InPackets,
         WithinLimits(Append(q, p))
  PROVE  /\ WithinLimits(q)
         /\ Len(q) < PENDING_PACKETS_MAX
         /\ Cardinality({k \in DOMAIN q : q[k].type = p.type}) < PBUFNO
<1> DEFINE r == Append(q, p)
           Of(type) == {k \in 1 .. Len(q) : q[k].type = type}
           OfMore(type) == {k \in 1 .. Len(q) + 1 : r[k].type = type}
<1>1. /\ DOMAIN q = 1 .. Len(q) /\ DOMAIN r = 1 .. Len(q) + 1
      /\ Len(r) = Len(q) + 1 /\ Len(q) \in Nat
      /\ r[Len(q) + 1] = p /\ \A k \in 1 .. Len(q) : r[k] = q[k]
  BY AppendProperties
<1>2. PBUFNO \in Nat /\ PENDING_PACKETS_MAX \in Nat
  BY Constants
<1> HIDE DEF r
<1>3. /\ Len(r) <= PENDING_PACKETS_MAX
      /\ \A i \in 1 .. Len(q) + 1 : Cardinality(OfMore(r[i].type)) <= PBUFNO
  BY <1>1, Zenon DEF WithinLimits, r
<1>4. ASSUME NEW type
      PROVE  IsFiniteSet(Of(type)) /\ Cardinality(Of(type)) \in Nat
             /\ IsFiniteSet(OfMore(type)) /\ Cardinality(OfMore(type)) \in Nat
             /\ Cardinality(Of(type)) <= Cardinality(OfMore(type))
  <2>1. IsFiniteSet(1 .. Len(q) + 1)
    <3>1. 1 \in Int /\ Len(q) + 1 \in Int
      BY <1>1
    <3> QED BY <3>1, FS_Interval
  <2>2. OfMore(type) \in SUBSET (1 .. Len(q) + 1)
    OBVIOUS
  <2>3. Of(type) \in SUBSET OfMore(type)
    BY <1>1
  <2> HIDE DEF Of, OfMore
  <2>4. IsFiniteSet(OfMore(type))
    BY <2>1, <2>2, FS_Subset
  <2>5. IsFiniteSet(Of(type)) /\ Cardinality(Of(type)) <= Cardinality(OfMore(type))
    BY <2>3, <2>4, FS_Subset
  <2> QED BY <2>4, <2>5, FS_CardinalityType
<1>5. OfMore(p.type) = Of(p.type) \cup {Len(q) + 1}
  BY <1>1
<1>6. Len(q) + 1 \notin Of(p.type)
  BY <1>1
<1> HIDE DEF Of, OfMore
<1>7. Cardinality(OfMore(p.type)) = Cardinality(Of(p.type)) + 1
  BY <1>4, <1>5, <1>6, FS_AddElement
<1>8. Cardinality(OfMore(p.type)) <= PBUFNO
  <2>1. Len(q) + 1 \in 1 .. Len(q) + 1
    BY <1>1
  <2> QED BY <1>1, <1>3, <2>1
<1>9. Cardinality(Of(p.type)) < PBUFNO
  BY <1>2, <1>4, <1>7, <1>8
<1>10. ASSUME NEW i \in 1 .. Len(q) PROVE Cardinality(Of(q[i].type)) <= PBUFNO
  <2>1. i \in 1 .. Len(q) + 1 /\ r[i] = q[i]
    BY <1>1
  <2>2. Cardinality(OfMore(q[i].type)) <= PBUFNO
    BY <1>3, <2>1
  <2>3. /\ Cardinality(Of(q[i].type)) <= Cardinality(OfMore(q[i].type))
        /\ Cardinality(Of(q[i].type)) \in Nat
        /\ Cardinality(OfMore(q[i].type)) \in Nat
    BY <1>4
  <2> QED BY <1>2, <2>2, <2>3
<1>11. Len(q) < PENDING_PACKETS_MAX
  BY <1>1, <1>2, <1>3
<1>12. WithinLimits(q)
  <2>1. Len(q) <= PENDING_PACKETS_MAX
    BY <1>1, <1>2, <1>11
  <2> QED BY <1>1, <1>10, <2>1, Zenon DEF WithinLimits, Of
<1> QED BY <1>1, <1>9, <1>11, <1>12 DEF Of

(* A packet read from the UART is accepted, if all before it have been and *)
(* it is within the limits.                                                *)
LEMMA FlushHears == ASSUME IInv, Hearing, Flush PROVE Hearing'
<1>1. PICK p \in InPackets :
        /\ comm_pc = "flush" /\ comm_pc' = "flush"
        /\ heard' = IF p.type # "Noise" /\ WithinLimits(heard)
                    THEN Append(heard, p) ELSE heard
        /\ pending' = IF Counted(p) /\ Len(pending) < PENDING_PACKETS_MAX
                      THEN Append(pending, p) ELSE pending
  <2>1. Head(uart_rx) \in InPackets
    <3>1. uart_rx \in Seq(InPackets) /\ uart_rx # <<>>
      BY DEF IInv, TypeOK, Flush, FlushOne
    <3> QED BY <3>1, HeadTailProperties
  <2> QED BY <2>1 DEF Flush, FlushOne
<1>2. heard \in Seq(InPackets)
  BY DEF IInv, TypeOK
<1>3. ASSUME WithinLimits(heard') PROVE pending' = heard'
  <2>1. CASE p.type = "Noise"
    BY <1>1, <1>3, <2>1 DEF Hearing, Counted
  <2>2. CASE p.type # "Noise" /\ WithinLimits(heard)
    <3>1. heard' = Append(heard, p) /\ pending = heard
      BY <1>1, <2>2 DEF Hearing
    <3>2. /\ Len(heard) < PENDING_PACKETS_MAX
          /\ Cardinality({k \in DOMAIN heard : heard[k].type = p.type}) < PBUFNO
      BY <1>2, <1>3, <3>1, RoomForNext
    <3>3. Counted(p)
      BY <2>2, <3>1, <3>2 DEF Counted, BuffersTaken
    <3> QED BY <1>1, <3>1, <3>2, <3>3
  <2>3. CASE ~WithinLimits(heard)
    BY <1>1, <1>3, <2>3
  <2> QED BY <2>1, <2>2, <2>3
<1> QED BY <1>1, <1>3 DEF Hearing

(* Within the limits, a client's packets are all accepted. *)
THEOREM HearingAlways == Spec => []Hearing
<1>1. Init => Hearing
  BY DEF Init, CommInit, Hearing
<1>2. IInv /\ Hearing /\ [Next]_vars => Hearing'
  <2> SUFFICES ASSUME IInv, Hearing, [Next]_vars PROVE Hearing'
    OBVIOUS
  <2>1. CASE Receive
    BY <2>1 DEF Receive, Arrive, Hearing
  <2>2. CASE Begin
    BY <2>2 DEF Begin, CommBegin, rxVars, Hearing
  <2>3. CASE Flush
    BY <2>3, FlushHears
  <2>4. CASE StartEpoch
    BY <2>4 DEF StartEpoch, FlushEnd, rxVars, Hearing
  <2>5. CASE Process
    BY <2>5 DEF Process, ProcessOne, Hearing
  <2>6. CASE Finish
    BY <2>6 DEF Finish, FinishEpoch, rxVars, Hearing
  <2>7. CASE UNCHANGED vars
    BY <2>7 DEF vars, commVars, Hearing
  <2> QED BY <2>1, <2>2, <2>3, <2>4, <2>5, <2>6, <2>7 DEF Next, Handle
<1> QED BY <1>1, <1>2, Invariance, PTL DEF Spec

(* The parameters are those of the last packet accepted, and saved if the  *)
(* client asked for it after that; and every packet sent for an epoch is   *)
(* accepted, within PBUFNO of a type and PENDING_PACKETS_MAX altogether.   *)
THEOREM LastParamsWinAlways == Spec => []LastParamsWin
<1>1. IInv /\ Hearing => LastParamsWin
  BY DEF IInv, Promised, LastAcceptedWins, Hearing, Epoch, LastParamsWin
<1> QED BY <1>1, Invariance, HearingAlways, PTL

(* All packets of an epoch carry one number, which no packet of the epoch  *)
(* before carried.                                                         *)
THEOREM EpochsDifferAlways == Spec => []EpochsDiffer
<1>1. IInv => EpochsDiffer
  <2> SUFFICES ASSUME IInv, Epoch, NEW i \in DOMAIN sent
               PROVE  /\ sent[i].seq = sent[1].seq
                      /\ sent[i].seq \notin seqs_before
    BY DEF EpochsDiffer
  <2>1. 1 \in DOMAIN sent
    <3>1. sent \in Seq(Replies) /\ sent # <<>>
      BY DEF IInv, TypeOK, Epoch
    <3> QED BY <3>1
  <2> QED BY <2>1 DEF IInv, Numbered, Carry
<1> QED BY <1>1, Invariance, PTL
=============================================================================
