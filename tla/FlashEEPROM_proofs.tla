------------------------- MODULE FlashEEPROM_proofs -------------------------
(***************************************************************************)
(* The emulated EEPROM implements the memory of bytes that EEPROM          *)
(* describes, for all sizes of the flash and all sequences of writes and   *)
(* power failures; and with the same inductive invariant, what the runs    *)
(* check of its pages.                                                     *)
(*                                                                         *)
(* The invariant describes the pages by which of them are current.  None:  *)
(* a new board.  One: the page in use, and maybe the next one, which it is *)
(* being packed into.  Two: the packed copy has been marked and the full   *)
(* page before it is to be erased.                                         *)
(***************************************************************************)
EXTENDS FlashEEPROM, FiniteSetTheorems, WellFoundedInduction, TLAPS

(* What a read of a finds in the words of a page. *)
ReadIn(words, a) ==
  IF PlacesOf(words, a) = {} THEN Blank ELSE Found(words, a)

Full(words) == \A k \in Places : words[k].addr # NoAddr

Valid(words) ==
  \A k \in Places : words[k] = ErasedWord \/ words[k].addr \in Addr

(* The places are filled from the first on. *)
Contiguous(words) ==
  \A k \in Places :
    k > 1 /\ words[k].addr # NoAddr => words[k - 1].addr # NoAddr

(* new holds each address below n that was written in old, once, with what *)
(* a read of old finds, and nothing else.                                  *)
CopyOf(old, new, n) ==
  /\ \A k \in Places :
       \/ new[k] = ErasedWord
       \/ /\ new[k].addr \in Addr /\ new[k].addr < n
          /\ PlacesOf(old, new[k].addr) # {}
          /\ new[k].data = ReadIn(old, new[k].addr)
  /\ \A k, j \in Places :
       new[k].addr = new[j].addr => k = j \/ new[k].addr = NoAddr
  /\ \A a \in Addr : a < n /\ PlacesOf(old, a) # {} => PlacesOf(new, a) # {}
  /\ Contiguous(new)

ErasedExcept(S) == \A p \in Pages \ S : flash[p] = ErasedPage

(* PackEE between two rows: all rows before are full, so that it cannot    *)
(* get further in the page than in the addresses.                          *)
RowsFull(words) ==
  /\ packed.addr < DATA_EE_SIZE
  /\ RowFirst - 1 <= packed.addr
  /\ \A k \in Places : k >= RowFirst => words[k] = ErasedWord
  /\ RowFirst > 1 => words[RowFirst - 1].addr # NoAddr

Next1(p) == Following(p, 1)

NoneInUse ==
  /\ Current = {}
  /\ pc \in {"off", "format"} /\ ~interrupted
  /\ ErasedExcept({})

Running(c) ==
  /\ pc \in {"off", "ready"} /\ ~interrupted
  /\ ErasedExcept({c})
  /\ ~Full(flash[c].words)

(* The power failed before a full page was packed: it stays as it is. *)
Stuck(c) ==
  /\ pc \in {"off", "ready"} /\ interrupted
  /\ \A p \in Pages : Valid(flash[p].words)
  /\ Full(flash[c].words)

Repacking(c) ==
  /\ pc = "repack" /\ ~interrupted
  /\ ErasedExcept({c})
  /\ Full(flash[c].words)

Packing(c) ==
  /\ pc \in {"pack", "mark"} /\ ~interrupted
  /\ packed.page = Next1(c)
  /\ ErasedExcept({c, Next1(c)})
  /\ flash[Next1(c)] = [ErasedPage EXCEPT !.words = flash[Next1(c)].words]
  /\ Full(flash[c].words)
  /\ CopyOf(flash[c].words, flash[Next1(c)].words, packed.addr)
  /\ pc = "mark" => packed.addr = DATA_EE_SIZE
  /\ pc = "pack" => RowsFull(flash[Next1(c)].words)

OneInUse(c) ==
  /\ Current = {c}
  /\ Valid(flash[c].words) /\ Contiguous(flash[c].words)
  /\ Running(c) \/ Stuck(c) \/ Repacking(c) \/ Packing(c)

TwoInUse(o) ==
  /\ Current = {o, Next1(o)}
  /\ pc \in {"off", "erase"} /\ ~interrupted
  /\ pc = "erase" => packed.page = o
  /\ ErasedExcept({o, Next1(o)})
  /\ Valid(flash[o].words) /\ Contiguous(flash[o].words)
  /\ Full(flash[o].words)
  /\ CopyOf(flash[o].words, flash[Next1(o)].words, DATA_EE_SIZE)

IInv ==
  /\ TypeOK
  /\ NoneInUse \/ \E p \in Pages : OneInUse(p) \/ TwoInUse(p)
----------------------------------------------------------------------------
(* Sets of numbers *)

LEMMA Sizes ==
  /\ DATA_EE_SIZE \in Nat /\ DATA_EE_SIZE > 0
  /\ NUM_DATA_EE_PAGES \in Nat /\ NUM_DATA_EE_PAGES >= 3
  /\ PAGE_WORDS \in Nat /\ PAGE_WORDS > DATA_EE_SIZE + 1
  /\ ROW_WORDS \in Nat /\ ROW_WORDS >= 2
  /\ ERASE_WRITE_CYCLE_MAX \in Nat /\ ERASE_WRITE_CYCLE_MAX > 0
  /\ NoAddr = DATA_EE_SIZE /\ NoAddr \notin Addr
  /\ Addr \subseteq Nat /\ Places \subseteq Nat /\ Pages \subseteq Nat
BY FlashConstants DEF NoAddr, Addr, Places, Pages

(* The lowest of a set of numbers is in it.                                *)
LEMMA LowestIn ==
  ASSUME NEW S \in SUBSET Nat, S # {}
  PROVE  Lowest(S) \in S /\ \A j \in S : Lowest(S) <= j
<1> DEFINE R == OpToRel(<, Nat)
<1>1. PICK k \in S : \A j \in S : ~(<<j, k>> \in R)
  BY NatLessThanWellFounded, WFMin, Zenon
<1>2. \A j \in S : ~(j < k)
  BY <1>1, Zenon DEF OpToRel
<1>3. \A j \in S : k <= j
  <2> HIDE DEF R
  <2> QED BY <1>2
<1>4. \E m \in S : \A j \in S : m <= j
  BY <1>3, Zenon
<1> HIDE DEF R
<1> QED BY <1>4 DEF Lowest

(* The highest of a bounded set is in it,                                  *)
LEMMA HighestIn ==
  ASSUME NEW S \in SUBSET Nat, S # {}, NEW n \in Nat, \A k \in S : k <= n
  PROVE  Highest(S) \in S /\ \A j \in S : j <= Highest(S)
<1> DEFINE T == {n - k : k \in S}
<1>1. T \in SUBSET Nat /\ T # {}
  <2>1. ASSUME NEW k \in S PROVE n - k \in Nat
    <3>1. k \in Nat /\ k <= n
      OBVIOUS
    <3> QED BY <3>1
  <2>2. PICK k \in S : TRUE
    OBVIOUS
  <2>3. n - k \in T
    OBVIOUS
  <2> QED BY <2>1, <2>3
<1>2. Lowest(T) \in T /\ \A j \in T : Lowest(T) <= j
  <2> HIDE DEF T
  <2> QED BY <1>1, LowestIn
<1>3. PICK m \in S : Lowest(T) = n - m
  BY <1>2
<1>4. ASSUME NEW j \in S PROVE j <= m
  <2>1. n - m <= n - j
    BY <1>2, <1>3
  <2>2. n \in Nat /\ m \in Nat /\ j \in Nat
    OBVIOUS
  <2> QED BY <2>1, <2>2
<1> QED BY <1>4 DEF Highest

(* A set of addresses is finite, and so is what is below one of them. *)
LEMMA Counted ==
  ASSUME NEW S \in SUBSET Addr
  PROVE  IsFiniteSet(S) /\ Cardinality(S) \in Nat
<1>1. IsFiniteSet(0 .. DATA_EE_SIZE - 1)
  BY Sizes, FS_Interval
<1>2. IsFiniteSet(S)
  BY <1>1, FS_Subset DEF Addr
<1> QED BY <1>2, FS_CardinalityType

(* and so is the highest of a set of addresses.                            *)
LEMMA HighestAddr ==
  ASSUME NEW S \in SUBSET Addr, S # {}
  PROVE  Highest(S) \in S /\ \A j \in S : j <= Highest(S)
<1>1. S \in SUBSET Nat /\ \A k \in S : k <= DATA_EE_SIZE
  BY Sizes DEF Addr
<1> QED BY <1>1, Sizes, HighestIn

Below(a, S) == {b \in S : b < a}

(* Ranks are numbers.                                                      *)
LEMMA RankType ==
  ASSUME NEW S \in SUBSET Addr, NEW a
  PROVE  /\ Rank(a, S) = Cardinality(Below(a, S)) /\ Rank(a, S) \in Nat
         /\ Below(a, S) \in SUBSET Addr
BY Counted DEF Rank, Below

(* The rank tells the members of a set apart, in their order. *)
LEMMA RankLess ==
  ASSUME NEW S \in SUBSET Addr, NEW a \in S
  PROVE  /\ Rank(a, S) < Cardinality(S)
         /\ \A b \in S : a < b => Rank(a, S) < Rank(b, S)
<1>1. ASSUME NEW T \in SUBSET S, a \in T, \A b \in Below(a, S) : b \in T
      PROVE  Rank(a, S) < Cardinality(T)
  <2>0. Below(a, S) \in SUBSET T
    BY <1>1
  <2>1. a \notin Below(a, S)
    <3>1. a \in Nat
      BY Sizes
    <3> QED BY <3>1 DEF Below
  <2>2. IsFiniteSet(T) /\ Cardinality(T) \in Nat
    BY Counted
  <2>3. Cardinality(Below(a, S)) <= Cardinality(T)
    BY <2>0, <2>2, FS_Subset
  <2>4. Cardinality(Below(a, S)) # Cardinality(T)
    BY <2>0, <2>1, <2>2, <1>1, FS_Subset
  <2> QED BY <2>2, <2>3, <2>4, RankType
<1>2. Rank(a, S) < Cardinality(S)
  <2>1. S \in SUBSET S /\ a \in S /\ \A b \in Below(a, S) : b \in S
    BY DEF Below
  <2> QED BY <2>1, <1>1
<1>3. ASSUME NEW b \in S, a < b PROVE Rank(a, S) < Rank(b, S)
  <2>1. Below(b, S) \in SUBSET S /\ a \in Below(b, S)
    BY <1>3 DEF Below
  <2>2. \A c \in Below(a, S) : c \in Below(b, S)
    BY <1>3, Sizes DEF Below
  <2>3. Rank(a, S) < Cardinality(Below(b, S))
    BY <2>1, <2>2, <1>1
  <2> QED BY <2>3, RankType
<1> QED BY <1>2, <1>3

(* No two addresses have the same rank.                                    *)
LEMMA RankSame ==
  ASSUME NEW S \in SUBSET Addr, NEW a \in S, NEW b \in S,
         Rank(a, S) = Rank(b, S)
  PROVE  a = b
<1>1. a \in Nat /\ b \in Nat /\ Rank(a, S) \in Nat
  BY Sizes, RankType
<1>2. (a < b => Rank(a, S) < Rank(b, S)) /\ (b < a => Rank(b, S) < Rank(a, S))
  BY RankLess
<1> QED BY <1>1, <1>2

(* No rank is left out. *)
LEMMA RankBefore ==
  ASSUME NEW S \in SUBSET Addr, NEW a \in S, Rank(a, S) > 0
  PROVE  \E b \in S : Rank(b, S) = Rank(a, S) - 1
<1> DEFINE B == Below(a, S)
           h == Highest(B)
<1>1. B \in SUBSET Addr /\ IsFiniteSet(B) /\ Rank(a, S) = Cardinality(B)
  BY RankType, Counted
<1>2. B # {}
  BY <1>1, FS_EmptySet
<1>3. h \in B /\ \A b \in B : b <= h
  <2> HIDE DEF B
  <2> QED BY <1>1, <1>2, HighestAddr
<1>4. Below(h, S) = B \ {h}
  <2>1. h \in S /\ h \in Nat /\ h < a /\ a \in Nat
    BY <1>3, Sizes DEF Below
  <2>2. \A b \in S : b \in Nat
    BY Sizes
  <2>3. \A b \in S : b < a => b <= h
    BY <1>3 DEF Below
  <2> HIDE DEF h, B
  <2>4. \A b \in S : b < h <=> b < a /\ b # h
    BY <2>1, <2>2, <2>3
  <2> QED BY <2>4 DEF Below, B
<1>5. Cardinality(B \ {h}) = Cardinality(B) - 1
  <2> HIDE DEF B, h
  <2> QED BY <1>1, <1>3, FS_RemoveElement
<1>6. Rank(h, S) = Rank(a, S) - 1
  BY <1>1, <1>4, <1>5, RankType
<1>7. h \in S
  BY <1>3 DEF Below
<1> QED BY <1>6, <1>7

(* The highest address comes last.                                         *)
LEMMA RankHighest ==
  ASSUME NEW S \in SUBSET Addr, S # {}
  PROVE  Rank(Highest(S), S) = Cardinality(S) - 1
<1> DEFINE h == Highest(S)
<1>1. h \in S /\ \A b \in S : b <= h
  BY HighestAddr
<1>2. Below(h, S) = S \ {h}
  <2>1. h \in Nat /\ \A b \in S : b \in Nat
    BY <1>1, Sizes
  <2> HIDE DEF h
  <2>2. \A b \in S : b < h <=> b # h
    BY <1>1, <2>1
  <2> QED BY <2>2 DEF Below
<1>3. Cardinality(S \ {h}) = Cardinality(S) - 1
  <2> HIDE DEF h
  <2> QED BY <1>1, Counted, FS_RemoveElement
<1> QED BY <1>2, <1>3, RankType

(* The first n members of a set. *)
LEMMA LeastIn ==
  ASSUME NEW S \in SUBSET Addr, NEW n \in Nat, n > 0
  PROVE  LET A == Least(n, S) IN
         /\ A \in SUBSET S
         /\ Cardinality(A) <= n
         /\ \A a \in A, b \in S : b <= a => b \in A
         /\ Cardinality(A) < n => A = S
<1> DEFINE A == Least(n, S)
<1>1. A \in SUBSET S /\ \A a \in S : a \in A <=> Rank(a, S) < n
  BY DEF Least
<1> HIDE DEF A
<1>2. \A a \in A, b \in S : b <= a => b \in A
  <2> SUFFICES ASSUME NEW a \in A, NEW b \in S, b <= a PROVE b \in A
    OBVIOUS
  <2>1. a \in S /\ a \in Nat /\ b \in Nat
    BY <1>1, Sizes
  <2>2. Rank(a, S) < n /\ Rank(a, S) \in Nat /\ Rank(b, S) \in Nat
    BY <1>1, <2>1, RankType
  <2>3. b < a => Rank(b, S) < Rank(a, S)
    BY <2>1, RankLess
  <2> QED BY <1>1, <2>1, <2>2, <2>3
<1>3. Cardinality(A) <= n
  <2>1. CASE A = {}
    BY <2>1, FS_EmptySet
  <2>2. CASE A # {}
    <3> DEFINE h == Highest(A)
    <3>1. A \in SUBSET Addr
      BY <1>1
    <3>2. h \in A /\ \A b \in A : b <= h
      BY <2>2, <3>1, HighestAddr
    <3>3. Rank(h, A) = Cardinality(A) - 1
      BY <2>2, <3>1, RankHighest
    <3> HIDE DEF h
    <3>4. Below(h, A) \subseteq Below(h, S) /\ Below(h, S) \in SUBSET Addr
      BY <1>1 DEF Below
    <3>5. Rank(h, A) <= Rank(h, S)
      BY <3>1, <3>4, RankType, Counted, FS_Subset
    <3>6. Rank(h, S) < n /\ Rank(h, S) \in Nat /\ Cardinality(A) \in Nat
      BY <1>1, <3>1, <3>2, RankType, Counted
    <3> QED BY <3>3, <3>5, <3>6
  <2> QED BY <2>1, <2>2
<1>4. ASSUME Cardinality(A) < n, A # S PROVE FALSE
  <2> DEFINE X == S \ A
             b == Lowest(X)
  <2>1. X # {} /\ X \in SUBSET Nat
    BY <1>1, <1>4, Sizes
  <2>2. b \in X /\ \A c \in X : b <= c
    <3> HIDE DEF X
    <3> QED BY <2>1, LowestIn
  <2>3. Below(b, S) \subseteq A
    <3>1. \A c \in S : c \in Nat
      BY Sizes
    <3> HIDE DEF b
    <3> QED BY <2>2, <3>1 DEF Below
  <2>4. A \in SUBSET Addr
    BY <1>1
  <2>5. Rank(b, S) <= Cardinality(A)
    <3>1. Below(b, S) \in SUBSET A /\ IsFiniteSet(A)
      BY <2>3, <2>4, Counted
    <3>2. Cardinality(Below(b, S)) <= Cardinality(A)
      BY <3>1, FS_Subset
    <3> QED BY <3>2, RankType
  <2>6. Cardinality(A) \in Nat /\ Rank(b, S) \in Nat
    BY <2>4, Counted, RankType
  <2>7. b \in S /\ b \notin A
    BY <2>2
  <2> HIDE DEF b, X
  <2> QED BY <1>1, <1>4, <2>5, <2>6, <2>7
<1> QED BY <1>1, <1>2, <1>3, <1>4 DEF A

(* A set of numbers reaches as far as it has members. *)
LEMMA Spread ==
  ASSUME NEW S \in SUBSET Addr, S # {}, NEW l \in Nat, \A a \in S : l <= a
  PROVE  l + Cardinality(S) <= Highest(S) + 1
<1> DEFINE h == Highest(S)
<1>1. h \in S /\ \A b \in S : b <= h
  BY HighestAddr
<1> HIDE DEF h
<1>2. h \in Nat /\ l <= h /\ \A b \in S : b \in Nat
  BY <1>1, Sizes
<1>3. S \in SUBSET (l .. h)
  BY <1>1, <1>2
<1>4. IsFiniteSet(l .. h) /\ Cardinality(l .. h) = h - l + 1
  <2>1. l \in Int /\ h \in Int /\ ~(l > h)
    BY <1>2
  <2>2. /\ IsFiniteSet(l .. h)
        /\ Cardinality(l .. h) = IF l > h THEN 0 ELSE h - l + 1
    BY <2>1, FS_Interval, Zenon
  <2> QED BY <2>1, <2>2
<1>5. Cardinality(S) <= Cardinality(l .. h)
  BY <1>3, <1>4, FS_Subset
<1>6. Cardinality(S) \in Nat
  BY Counted
<1> QED BY <1>2, <1>4, <1>5, <1>6 DEF h
----------------------------------------------------------------------------
(* The words of a page *)

WordSet == [addr : 0 .. NoAddr + 1, data : Values]
Content == [Places -> WordSet]

(* The words of a page, and the places for them.                           *)
LEMMA Words ==
  /\ ErasedWord \in WordSet /\ ErasedWord.addr = NoAddr
  /\ Garbled.addr = NoAddr + 1 /\ NoAddr \in Nat
  /\ Addr \subseteq 0 .. NoAddr + 1
  /\ \A k \in Nat : k \in Places <=> k > 0 /\ k < PAGE_WORDS
BY FlashConstants, Sizes DEF ErasedWord, Garbled, WordSet, NoAddr, Addr, Places

(* A read finds the last place with the address. *)
LEMMA FoundLast ==
  ASSUME NEW words, NEW a, PlacesOf(words, a) # {}
  PROVE  \E h \in Places : /\ words[h].addr = a
                          /\ \A k \in Places : words[k].addr = a => k <= h
                          /\ ReadIn(words, a) = words[h].data
                          /\ h = Highest(PlacesOf(words, a))
<1> DEFINE S == PlacesOf(words, a)
           h == Highest(S)
<1>1. S \in SUBSET Nat /\ \A k \in S : k <= PAGE_WORDS
  BY Sizes DEF PlacesOf, Places
<1>2. h \in S /\ \A j \in S : j <= h
  <2> HIDE DEF S
  <2> QED BY <1>1, Sizes, HighestIn DEF S
<1>3. ReadIn(words, a) = words[h].data
  BY DEF ReadIn, Found
<1>4. h \in Places /\ words[h].addr = a
  BY <1>2 DEF PlacesOf
<1>5. \A k \in Places : words[k].addr = a => k <= h
  BY <1>2 DEF PlacesOf
<1> HIDE DEF h
<1> QED BY <1>3, <1>4, <1>5 DEF h, S

(* Another page with the same last place for an address reads the same. *)
LEMMA LastFound ==
  ASSUME NEW words, NEW a, NEW h \in Places, words[h].addr = a,
         \A k \in Places : words[k].addr = a => k <= h
  PROVE  ReadIn(words, a) = words[h].data /\ PlacesOf(words, a) # {}
<1>1. PlacesOf(words, a) # {}
  BY DEF PlacesOf
<1>2. PICK g \in Places : /\ words[g].addr = a
                         /\ \A k \in Places : words[k].addr = a => k <= g
                         /\ ReadIn(words, a) = words[g].data
  BY <1>1, FoundLast
<1>3. g \in Nat /\ h \in Nat /\ g <= h /\ h <= g
  BY <1>2, Sizes
<1>4. g = h
  BY <1>3
<1> QED BY <1>1, <1>2, <1>4

(* A copy is in order, as a page that was written in order.                *)
LEMMA CopyValid ==
  ASSUME NEW old, NEW new, NEW n, CopyOf(old, new, n)
  PROVE  Valid(new) /\ Contiguous(new)
BY DEF CopyOf, Valid

(* A complete copy reads as the original. *)
LEMMA CopyReads ==
  ASSUME NEW old, NEW new, CopyOf(old, new, DATA_EE_SIZE), NEW a \in Addr
  PROVE  ReadIn(new, a) = ReadIn(old, a)
<1>1. a < DATA_EE_SIZE /\ a # NoAddr
  BY Sizes DEF Addr
<1>2. ASSUME NEW k \in Places, new[k].addr = a
      PROVE  PlacesOf(old, a) # {} /\ new[k].data = ReadIn(old, a)
  BY <1>1, <1>2, Words DEF CopyOf
<1>3. CASE PlacesOf(old, a) = {}
  <2>1. PlacesOf(new, a) = {}
    BY <1>2, <1>3 DEF PlacesOf
  <2> QED BY <1>3, <2>1 DEF ReadIn
<1>4. CASE PlacesOf(old, a) # {}
  <2>1. PlacesOf(new, a) # {}
    BY <1>1, <1>4 DEF CopyOf
  <2>2. PICK h \in Places : new[h].addr = a /\ ReadIn(new, a) = new[h].data
    BY <2>1, FoundLast
  <2> QED BY <1>2, <2>2
<1> QED BY <1>3, <1>4

(* A copy has a free place: there are more places than addresses. *)
LEMMA CopyHasRoom ==
  ASSUME NEW old, NEW new, NEW n, CopyOf(old, new, n)
  PROVE  ~Full(new)
<1> SUFFICES ASSUME Full(new) PROVE FALSE
  OBVIOUS
<1> DEFINE f == [k \in Places |-> new[k].addr]
<1>1. \A k \in Places : new[k].addr \in Addr
  BY Words DEF Full, CopyOf
<1>2. f \in [Places -> Addr]
  BY <1>1
<1>3. IsFiniteSet(Addr) /\ Cardinality(Addr) = DATA_EE_SIZE
  <2>1. 0 \in Int /\ DATA_EE_SIZE - 1 \in Int /\ ~(0 > DATA_EE_SIZE - 1)
    BY Sizes
  <2>2. /\ IsFiniteSet(Addr)
        /\ Cardinality(Addr) = IF 0 > DATA_EE_SIZE - 1 THEN 0
                               ELSE (DATA_EE_SIZE - 1) - 0 + 1
    BY <2>1, FS_Interval, Zenon DEF Addr
  <2> QED BY <2>1, <2>2, Sizes
<1>4. IsFiniteSet(Places) /\ Cardinality(Places) = PAGE_WORDS - 1
  <2>1. 1 \in Int /\ PAGE_WORDS - 1 \in Int /\ ~(1 > PAGE_WORDS - 1)
    BY Sizes
  <2>2. /\ IsFiniteSet(Places)
        /\ Cardinality(Places) = IF 1 > PAGE_WORDS - 1 THEN 0
                                 ELSE (PAGE_WORDS - 1) - 1 + 1
    BY <2>1, FS_Interval, Zenon DEF Places
  <2> QED BY <2>1, <2>2, Sizes
<1>5. Cardinality(Addr) < Cardinality(Places)
  BY <1>3, <1>4, Sizes
<1>6. \E x, y \in Places : x # y /\ f[x] = f[y]
  <2> HIDE DEF f
  <2> QED BY <1>2, <1>3, <1>4, <1>5, FS_PigeonHole
<1>7. PICK x \in Places, y \in Places : x # y /\ new[x].addr = new[y].addr
  BY <1>6
<1>8. new[x].addr # NoAddr
  BY DEF Full
<1> QED BY <1>7, <1>8 DEF CopyOf

(* What is not filled ends the page. *)
LEMMA Prefix ==
  ASSUME NEW words, Contiguous(words), NEW k \in Places, NEW j \in Places,
         k <= j, words[k].addr = NoAddr
  PROVE  words[j].addr = NoAddr
<1> SUFFICES ASSUME words[j].addr # NoAddr PROVE FALSE
  OBVIOUS
<1> DEFINE S == {i \in Places : k <= i /\ words[i].addr # NoAddr}
           m == Lowest(S)
<1>1. S \in SUBSET Nat /\ S # {}
  BY Sizes
<1>2. m \in S /\ \A i \in S : m <= i
  <2> HIDE DEF S
  <2> QED BY <1>1, LowestIn
<1>3. m \in Places /\ k <= m /\ words[m].addr # NoAddr /\ m # k
  BY <1>2
<1>4. \A i \in Places : k <= i /\ words[i].addr # NoAddr => m <= i
  BY <1>2
<1> HIDE DEF m
<1>5. m \in Nat /\ k \in Nat /\ m > 1 /\ k <= m - 1 /\ m - 1 \in Places
  <2>1. m \in Nat /\ k \in Nat /\ k > 0 /\ m < PAGE_WORDS
    BY <1>3, Words, Sizes
  <2>2. m > 1 /\ k <= m - 1 /\ m - 1 \in Nat /\ m - 1 > 0 /\ m - 1 < PAGE_WORDS
    BY <2>1, <1>3, Sizes
  <2> QED BY <2>1, <2>2, Words
<1>6. words[m - 1].addr # NoAddr
  BY <1>3, <1>5 DEF Contiguous
<1>7. m <= m - 1
  BY <1>4, <1>5, <1>6
<1> QED BY <1>5, <1>7

(* A page that is not full has a first free word, and all words after it   *)
(* are free.                                                               *)
LEMMA FreeFirst ==
  ASSUME NEW words, Contiguous(words), ~Full(words)
  PROVE  LET k == Lowest(PlacesOf(words, NoAddr)) IN
         /\ PlacesOf(words, NoAddr) # {}
         /\ k \in Places /\ words[k].addr = NoAddr
         /\ \A j \in Places : words[j].addr = NoAddr <=> k <= j
<1> DEFINE S == PlacesOf(words, NoAddr)
           k == Lowest(S)
<1>1. S \in SUBSET Nat /\ S # {}
  BY Sizes DEF PlacesOf, Full
<1>2. k \in S /\ \A i \in S : k <= i
  <2> HIDE DEF S
  <2> QED BY <1>1, LowestIn
<1>3. k \in Places /\ words[k].addr = NoAddr
  BY <1>2 DEF PlacesOf
<1>4. \A j \in Places : words[j].addr = NoAddr => k <= j
  BY <1>2 DEF PlacesOf
<1>5. \A j \in Places : k <= j => words[j].addr = NoAddr
  <2> HIDE DEF k
  <2> QED BY <1>3, Prefix
<1> QED BY <1>1, <1>3, <1>4, <1>5

(* Programming the first free place of a page. *)
LEMMA ProgramFirst ==
  ASSUME NEW words \in Content, Valid(words), Contiguous(words), ~Full(words),
         NEW a \in Addr, NEW v \in Values
  PROVE  LET k == Lowest(PlacesOf(words, NoAddr))
             new == [words EXCEPT ![k] = [addr |-> a, data |-> v]] IN
         /\ k \in Places /\ Program(words[k], [addr |-> a, data |-> v])
                             = [addr |-> a, data |-> v]
         /\ new \in Content /\ Valid(new) /\ Contiguous(new)
         /\ Full(new) <=> k = PAGE_WORDS - 1
         /\ \A b \in Addr : ReadIn(new, b) = IF b = a THEN v ELSE ReadIn(words, b)
<1> DEFINE k == Lowest(PlacesOf(words, NoAddr))
           w == [addr |-> a, data |-> v]
           new == [words EXCEPT ![k] = w]
<1>1. /\ k \in Places /\ words[k].addr = NoAddr
      /\ \A j \in Places : words[j].addr = NoAddr <=> k <= j
  BY FreeFirst
<1> HIDE DEF k
<1>2. w \in WordSet /\ w.addr = a /\ w.data = v /\ a # NoAddr
  BY Words, Sizes DEF WordSet
<1>3. Program(words[k], w) = w
  <2>1. words[k] = ErasedWord
    BY <1>1, Sizes DEF Valid
  <2>2. w # ErasedWord
    BY <1>2, Words
  <2> HIDE DEF w
  <2> QED BY <2>1, <2>2 DEF Program
<1>4. new \in Content /\ \A j \in Places : new[j] = IF j = k THEN w ELSE words[j]
  BY <1>1, <1>2 DEF Content
<1> HIDE DEF new, w
<1>5. Valid(new)
  BY <1>2, <1>4 DEF Valid
<1>6. \A j \in Places : j \in Nat /\ j > 0 /\ j < PAGE_WORDS
  BY Words, Sizes
<1>7. Contiguous(new)
  <2> SUFFICES ASSUME NEW j \in Places, j > 1, new[j].addr # NoAddr
               PROVE  new[j - 1].addr # NoAddr
    BY DEF Contiguous
  <2>1. j <= k
    BY <1>1, <1>4, <1>6
  <2>2. j - 1 \in Places /\ ~(k <= j - 1)
    BY <1>1, <1>6, <2>1, Sizes DEF Places
  <2> QED BY <1>1, <1>4, <2>2
<1>8. Full(new) <=> k = PAGE_WORDS - 1
  <2>1. CASE k = PAGE_WORDS - 1
    <3>1. \A j \in Places : j = k \/ ~(k <= j)
      BY <2>1, <1>1, <1>6, Sizes
    <3> QED BY <2>1, <3>1, <1>1, <1>2, <1>4 DEF Full
  <2>2. CASE k # PAGE_WORDS - 1
    <3>1. k + 1 \in Places /\ k <= k + 1 /\ k + 1 # k
      BY <2>2, <1>1, <1>6, Sizes DEF Places
    <3>2. new[k + 1].addr = NoAddr
      BY <3>1, <1>1, <1>4
    <3> QED BY <2>2, <3>1, <3>2 DEF Full
  <2> QED BY <2>1, <2>2
<1>9. ReadIn(new, a) = v
  <2>1. new[k].addr = a /\ new[k].data = v
    BY <1>1, <1>2, <1>4
  <2>2. \A j \in Places : new[j].addr = a => j <= k
    BY <1>1, <1>2, <1>4, <1>6
  <2> QED BY <1>1, <2>1, <2>2, LastFound
<1>10. ASSUME NEW b \in Addr, b # a PROVE ReadIn(new, b) = ReadIn(words, b)
  <2>1. b # NoAddr
    BY Sizes
  <2>2. \A j \in Places : new[j].addr = b <=> words[j].addr = b
    BY <1>1, <1>2, <1>4, <1>10, <2>1
  <2>3. PlacesOf(new, b) = PlacesOf(words, b)
    BY <2>2 DEF PlacesOf
  <2>4. CASE PlacesOf(words, b) = {}
    BY <2>3, <2>4 DEF ReadIn
  <2>5. CASE PlacesOf(words, b) # {}
    <3>1. PICK h \in Places :
            /\ words[h].addr = b
            /\ \A j \in Places : words[j].addr = b => j <= h
            /\ ReadIn(words, b) = words[h].data
      BY <2>5, FoundLast
    <3>2. h # k
      BY <3>1, <2>1, <1>1
    <3>3. new[h] = words[h]
      BY <3>2, <1>4
    <3>4. ReadIn(new, b) = new[h].data
      BY <2>2, <3>1, <3>3, LastFound
    <3> QED BY <3>1, <3>3, <3>4
  <2> QED BY <2>4, <2>5
<1> QED BY <1>1, <1>3, <1>4, <1>5, <1>7, <1>8, <1>9, <1>10 DEF k, new, w
----------------------------------------------------------------------------
(* The pages *)

PageSet == [current : BOOLEAN, expired : BOOLEAN,
            count : 0 .. ERASE_WRITE_CYCLE_MAX - 1, words : Content]

(* The type invariant, with the sets that its proof uses.                  *)
LEMMA TypeIs ==
  TypeOK <=>
    /\ flash \in [Pages -> PageSet]
    /\ pc \in {"off", "format", "ready", "repack", "pack", "mark", "erase"}
    /\ packed \in [page : Pages, addr : 0 .. DATA_EE_SIZE,
                  row : 0 .. PAGE_WORDS \div ROW_WORDS]
    /\ addrNotFound \in BOOLEAN /\ interrupted \in BOOLEAN
BY DEF TypeOK, PageSet, Content, WordSet

(* An erased page is empty.                                                *)
LEMMA Erased ==
  /\ ErasedPage \in PageSet
  /\ ErasedPage.current = FALSE /\ ErasedPage.expired = FALSE
  /\ ErasedPage.count = 0
  /\ ErasedPage.words \in Content
  /\ \A k \in Places : ErasedPage.words[k] = ErasedWord
  /\ Valid(ErasedPage.words) /\ Contiguous(ErasedPage.words)
  /\ ~Full(ErasedPage.words)
<1>1. ErasedPage.words = [k \in Places |-> ErasedWord]
  BY DEF ErasedPage
<1>2. \A k \in Places : ErasedPage.words[k] = ErasedWord
  BY <1>1
<1>3. ErasedPage.words \in Content
  BY <1>1, Words DEF Content
<1>4. 0 \in 0 .. ERASE_WRITE_CYCLE_MAX - 1
  BY Sizes
<1>5. ErasedPage \in PageSet
  BY <1>3, <1>4 DEF ErasedPage, PageSet
<1>6. 1 \in Places
  BY Words, Sizes
<1>7. ~Full(ErasedPage.words)
  BY <1>2, <1>6, Words DEF Full
<1>8. Contiguous(ErasedPage.words)
  BY <1>2, Words DEF Contiguous
<1> QED BY <1>2, <1>3, <1>5, <1>7, <1>8 DEF ErasedPage, Valid

(* Nothing is found in an erased page.                                     *)
LEMMA ErasedReads ==
  ASSUME NEW a \in Addr
  PROVE  ReadIn(ErasedPage.words, a) = Blank
BY Erased, Words, Sizes DEF ReadIn, PlacesOf

(* The page after another one is a different one.                          *)
LEMMA Neighbour ==
  ASSUME NEW p \in Pages
  PROVE  /\ Next1(p) = IF p = NUM_DATA_EE_PAGES - 1 THEN 0 ELSE p + 1
         /\ Next1(p) \in Pages /\ Next1(p) # p
<1>1. /\ p \in Nat /\ p < NUM_DATA_EE_PAGES
      /\ NUM_DATA_EE_PAGES \in Nat /\ NUM_DATA_EE_PAGES >= 3
  BY Sizes DEF Pages
<1>2. (p + 1) % NUM_DATA_EE_PAGES =
        IF p = NUM_DATA_EE_PAGES - 1 THEN 0 ELSE p + 1
  <2>1. CASE p = NUM_DATA_EE_PAGES - 1
    <3>1. p + 1 = NUM_DATA_EE_PAGES
      BY <1>1, <2>1
    <3>2. NUM_DATA_EE_PAGES % NUM_DATA_EE_PAGES = 0
      BY <1>1
    <3> QED BY <2>1, <3>1, <3>2
  <2>2. CASE p # NUM_DATA_EE_PAGES - 1
    <3>1. p + 1 < NUM_DATA_EE_PAGES /\ p + 1 \in Nat
      BY <1>1, <2>2
    <3> QED BY <1>1, <2>2, <3>1
  <2> QED BY <2>1, <2>2
<1> QED BY <1>1, <1>2 DEF Next1, Following, Pages

(* Of one number, it is the lowest.                                        *)
LEMMA LowestOne ==
  ASSUME NEW c \in Nat
  PROVE  Lowest({c}) = c
BY LowestIn

(* One current page: that is where everything is read from and written to. *)
LEMMA OneView ==
  ASSUME NEW c \in Pages, Current = {c}
  PROVE  /\ currentPage = c
         /\ \A a \in Addr : Written(a) <=> PlacesOf(flash[c].words, a) # {}
         /\ \A a \in Addr : DataEERead(a) = ReadIn(flash[c].words, a)
         /\ Free = PlacesOf(flash[c].words, NoAddr)
         /\ Room <=> ~Full(flash[c].words)
<1>1. currentPage = c
  BY LowestOne, Sizes DEF currentPage
<1>2. Free = PlacesOf(flash[c].words, NoAddr)
  BY <1>1 DEF Free
<1>3. Room <=> ~Full(flash[c].words)
  BY <1>2 DEF Room, Full, PlacesOf
<1> QED BY <1>1, <1>2, <1>3 DEF Written, DataEERead, ReadIn

(* With one page in use after a step, that page is read.                   *)
LEMMA OneViewNext ==
  ASSUME NEW c \in Pages, Current' = {c}
  PROVE  \A a \in Addr : DataEERead(a)' = ReadIn(flash'[c].words, a)
<1>1. currentPage' = c
  BY LowestOne, Sizes DEF currentPage
<1> QED BY <1>1 DEF Written, DataEERead, ReadIn

(* With no other page expired, PackEE takes the next one. *)
LEMMA PacksNext ==
  ASSUME NEW c \in Pages, Current = {c}, flash[Next1(c)].expired = FALSE
  PROVE  Unexpired # {} /\ packedPage = Next1(c)
<1>1. currentPage = c
  BY OneView
<1>2. 1 \in Unexpired
  <2>1. 1 \in 1 .. NUM_DATA_EE_PAGES - 1
    BY Sizes
  <2> QED BY <1>1, <2>1 DEF Unexpired, Next1
<1>3. Unexpired \in SUBSET Nat /\ \A d \in Unexpired : 1 <= d
  BY Sizes DEF Unexpired
<1>4. Lowest(Unexpired) \in Unexpired /\ Lowest(Unexpired) <= 1
  BY <1>2, <1>3, LowestIn
<1>5. Lowest(Unexpired) = 1
  <2> DEFINE d == Lowest(Unexpired)
  <2>1. d \in Nat /\ 1 <= d /\ d <= 1
    BY <1>3, <1>4
  <2> HIDE DEF d
  <2>2. d = 1
    BY <2>1
  <2> QED BY <2>2 DEF d
<1> QED BY <1>1, <1>2, <1>5 DEF packedPage, Next1

(* Two current pages: both read the same, and the younger one follows. *)
LEMMA TwoView ==
  ASSUME NEW o \in Pages, TwoInUse(o)
  PROVE  /\ \A a \in Addr : DataEERead(a) = ReadIn(flash[o].words, a)
         /\ secondPage = Next1(o)
         /\ Cardinality(Current) = 2
<1> DEFINE n == Next1(o)
<1>1. /\ Current = {o, n} /\ n \in Pages /\ n # o
      /\ n = IF o = NUM_DATA_EE_PAGES - 1 THEN 0 ELSE o + 1
      /\ CopyOf(flash[o].words, flash[n].words, DATA_EE_SIZE)
  BY Neighbour DEF TwoInUse
<1> HIDE DEF n
<1>2. o \in Nat /\ n \in Nat /\ o < NUM_DATA_EE_PAGES
  BY <1>1, Sizes DEF Pages
<1>3. {o, n} \in SUBSET Nat /\ {o, n} # {}
  BY <1>2
<1>4. currentPage \in {o, n} /\ currentPage <= o /\ currentPage <= n
  BY <1>1, <1>3, LowestIn DEF currentPage
<1>5. ASSUME NEW a \in Addr PROVE DataEERead(a) = ReadIn(flash[o].words, a)
  <2>1. DataEERead(a) = ReadIn(flash[currentPage].words, a)
    BY <1>1 DEF DataEERead, Written, ReadIn
  <2>2. ReadIn(flash[n].words, a) = ReadIn(flash[o].words, a)
    BY <1>1, CopyReads
  <2> QED BY <1>4, <2>1, <2>2
<1>6. secondPage = n
  <2>1. CASE o = NUM_DATA_EE_PAGES - 1
    BY <2>1, <1>1 DEF secondPage
  <2>2. CASE o # NUM_DATA_EE_PAGES - 1
    <3>1. currentPage = o
      BY <2>2, <1>1, <1>2, <1>4
    <3>2. ~({0, NUM_DATA_EE_PAGES - 1} \subseteq {o, n})
      BY <2>2, <1>1, <1>2, Sizes
    <3> QED BY <3>1, <3>2, <1>1 DEF secondPage, Next1, n
  <2> QED BY <2>1, <2>2
<1>7. Cardinality(Current) = 2
  <2>1. IsFiniteSet({o}) /\ Cardinality({o}) = 1
    BY FS_Singleton
  <2>2. Cardinality({o} \cup {n}) = Cardinality({o}) + 1
    BY <1>1, <2>1, FS_AddElement
  <2>3. {o} \cup {n} = Current
    BY <1>1
  <2> QED BY <2>1, <2>2, <2>3
<1> QED BY <1>5, <1>6, <1>7 DEF n
----------------------------------------------------------------------------
(* One row of PackEE *)

LEMMA EmptyCopy ==
  ASSUME NEW old
  PROVE  CopyOf(old, ErasedPage.words, 0)
<1>1. \A a \in Addr : ~(a < 0)
  BY Sizes
<1> QED BY <1>1, Erased, Words DEF CopyOf

(* All rows before are full, so this one is within the page. *)
LEMMA RowBounds ==
  ASSUME TypeOK, packed.addr < DATA_EE_SIZE, RowFirst - 1 <= packed.addr
  PROVE  /\ RowFirst \in Nat /\ RowFirst > 0
         /\ RowRoom \in Nat /\ RowRoom > 0
         /\ RowFirst + RowRoom = (packed.row + 1) * ROW_WORDS
         /\ RowFirst + RowRoom <= PAGE_WORDS
         /\ packed.row \in Nat /\ packed.addr \in Nat
         /\ packed.row + 1 \in 0 .. PAGE_WORDS \div ROW_WORDS
<1> DEFINE q == PAGE_WORDS \div ROW_WORDS
           r == packed.row
           m == r * ROW_WORDS
<1>1. /\ q \in Nat /\ PAGE_WORDS = q * ROW_WORDS
  BY FlashConstants, SMT
<1>2. r \in Nat /\ packed.addr \in Nat
  BY Sizes, TypeIs
<1>3. /\ m \in Nat /\ (r + 1) * ROW_WORDS = m + ROW_WORDS
      /\ r = 0 => m = 0
      /\ r # 0 => m >= 2
  <2>1. ROW_WORDS \in Nat /\ ROW_WORDS >= 2
    BY Sizes
  <2> HIDE DEF r
  <2> QED BY <1>2, <2>1, SMT
<1>4. /\ RowFirst = m + (IF r = 0 THEN 1 ELSE 0)
      /\ RowRoom = (m + ROW_WORDS) - RowFirst
  BY <1>3 DEF RowFirst, RowRoom
<1> HIDE DEF q, r, m
<1>5. /\ RowFirst \in Nat /\ RowFirst > 0 /\ RowRoom \in Nat /\ RowRoom > 0
      /\ RowFirst + RowRoom = m + ROW_WORDS
  BY <1>2, <1>3, <1>4, Sizes
<1>6. m < PAGE_WORDS
  BY <1>2, <1>3, <1>4, <1>5, Sizes
<1>7. r < q
  <2> SUFFICES ASSUME ~(r < q) PROVE FALSE
    OBVIOUS
  <2>1. PICK d \in Nat : r = q + d
    <3>1. r - q \in Nat /\ r = q + (r - q)
      BY <1>1, <1>2
    <3> QED BY <3>1
  <2>2. m = q * ROW_WORDS + d * ROW_WORDS /\ d * ROW_WORDS \in Nat
    BY <1>1, <2>1, Sizes, SMT DEF m
  <2>3. m >= PAGE_WORDS
    BY <1>1, <2>2, Sizes
  <2> QED BY <1>3, <1>6, <2>3, Sizes
<1>8. m + ROW_WORDS <= PAGE_WORDS
  <2>1. PICK d \in Nat : q = (r + 1) + d
    <3>1. q - (r + 1) \in Nat /\ q = (r + 1) + (q - (r + 1))
      BY <1>1, <1>2, <1>7
    <3> QED BY <3>1
  <2>2. /\ PAGE_WORDS = (r + 1) * ROW_WORDS + d * ROW_WORDS
        /\ d * ROW_WORDS \in Nat
    BY <1>1, <1>2, <2>1, Sizes, SMT
  <2> QED BY <1>3, <2>2, Sizes
<1>9. r + 1 \in 0 .. q
  BY <1>1, <1>2, <1>7
<1> QED BY <1>2, <1>3, <1>5, <1>8, <1>9 DEF q, r

RowAt(k, A) == {a \in A : k = RowFirst + Rank(a, A)}

RowLatch(k, A) ==
  IF RowAt(k, A) = {} THEN ErasedWord
  ELSE [addr |-> Lowest(RowAt(k, A)), data |-> DataEERead(Lowest(RowAt(k, A)))]

RowWords(words) == [k \in Places |-> Program(words[k], RowLatch(k, RowAddrs))]

(* What a read finds is a byte. *)
LEMMA ReadType ==
  ASSUME NEW words \in Content, NEW a
  PROVE  ReadIn(words, a) \in Values
<1>1. CASE PlacesOf(words, a) = {}
  BY <1>1, FlashConstants DEF ReadIn
<1>2. CASE PlacesOf(words, a) # {}
  <2>1. PICK h \in Places : ReadIn(words, a) = words[h].data
    BY <1>2, FoundLast
  <2> QED BY <2>1 DEF Content, WordSet
<1> QED BY <1>1, <1>2

(* Each word of the page after a row: from before, erased, or the next     *)
(* address.                                                                *)
LEMMA RowPlaces ==
  ASSUME NEW c \in Pages, Current = {c}, NEW w,
         RowFirst \in Nat, RowFirst > 0, RowRoom \in Nat, RowRoom > 0,
         RowFirst + RowRoom <= PAGE_WORDS,
         \A k \in Places : k >= RowFirst => w[k] = ErasedWord
  PROVE  LET A == RowAddrs
             N == RowWords(w)
         IN /\ A \in SUBSET Addr
            /\ \A a \in A : Rank(a, A) \in Nat /\ Rank(a, A) < RowRoom
            /\ \A a \in A : RowFirst + Rank(a, A) \in Places
            /\ \A a \in A : N[RowFirst + Rank(a, A)] =
                 [addr |-> a, data |-> ReadIn(flash[c].words, a)]
            /\ \A k \in Places :
                 \/ k < RowFirst /\ N[k] = w[k]
                 \/ N[k] = ErasedWord /\ k >= RowFirst
                 \/ k >= RowFirst /\ \E a \in A : k = RowFirst + Rank(a, A)
<1> DEFINE A == RowAddrs
           N == RowWords(w)
           f == RowFirst
           T == {a \in Addr : a >= packed.addr /\ Written(a)}
<1>1. A \in SUBSET Addr /\ Cardinality(A) <= RowRoom
  <2>1. T \in SUBSET Addr /\ A = Least(RowRoom, T)
    BY DEF RowAddrs
  <2> HIDE DEF T, A
  <2> QED BY <2>1, LeastIn
<1>2. \A a \in A : Rank(a, A) \in Nat /\ Rank(a, A) < RowRoom
  <2>1. Cardinality(A) \in Nat
    BY <1>1, Counted
  <2> SUFFICES ASSUME NEW a \in A
               PROVE  Rank(a, A) \in Nat /\ Rank(a, A) < RowRoom
    OBVIOUS
  <2> HIDE DEF A
  <2>2. Rank(a, A) \in Nat
    BY <1>1, RankType
  <2>3. Rank(a, A) < Cardinality(A)
    BY <1>1, RankLess
  <2> QED BY <1>1, <2>1, <2>2, <2>3
<1>3. \A a \in A : f + Rank(a, A) \in Nat /\ f + Rank(a, A) >= f
  <2> HIDE DEF A, f
  <2> QED BY <1>2 DEF f
<1>4. \A a \in A : f + Rank(a, A) \in Places
  <2> SUFFICES ASSUME NEW a \in A PROVE f + Rank(a, A) \in Places
    OBVIOUS
  <2>1. /\ Rank(a, A) \in Nat /\ Rank(a, A) < RowRoom
        /\ f \in Nat /\ f > 0 /\ RowRoom \in Nat /\ f + RowRoom <= PAGE_WORDS
    BY <1>2
  <2>2. PAGE_WORDS \in Nat
    BY Sizes
  <2> HIDE DEF A, f
  <2>3. f + Rank(a, A) \in Nat /\ f + Rank(a, A) > 0 /\ f + Rank(a, A) < PAGE_WORDS
    BY <2>1, <2>2
  <2> QED BY <2>3, Words
<1>5. ASSUME NEW a \in A
      PROVE  N[f + Rank(a, A)] = [addr |-> a, data |-> ReadIn(flash[c].words, a)]
  <2> DEFINE k == f + Rank(a, A)
  <2>1. k \in Places /\ k \in Nat /\ k >= f /\ w[k] = ErasedWord
    BY <1>3, <1>4
  <2>2. RowAt(k, A) = {a}
    <3>1. ASSUME NEW b \in A, f + Rank(b, A) = k PROVE b = a
      <4>1. Rank(a, A) \in Nat /\ Rank(b, A) \in Nat /\ f \in Nat
        BY <1>2
      <4>2. Rank(a, A) = Rank(b, A)
        <5> HIDE DEF A, f
        <5> QED BY <3>1, <4>1
      <4> HIDE DEF A
      <4> QED BY <1>1, <4>2, RankSame
    <3>2. \A b \in A : k = RowFirst + Rank(b, A) <=> b = a
      BY <3>1
    <3> HIDE DEF k, A
    <3> QED BY <3>2 DEF RowAt
  <2>3. a \in Addr /\ a \in Nat
    BY <1>1, Sizes
  <2>4. Lowest(RowAt(k, A)) = a /\ RowAt(k, A) # {}
    BY <2>2, <2>3, LowestOne
  <2>5. RowLatch(k, A) = [addr |-> a, data |-> ReadIn(flash[c].words, a)]
    BY <2>3, <2>4, OneView DEF RowLatch
  <2>6. RowLatch(k, A) # ErasedWord
    <3>1. RowLatch(k, A).addr = a /\ a # NoAddr
      BY <2>3, <2>5, Sizes
    <3> QED BY <3>1, Words
  <2>7. N[k] = Program(w[k], RowLatch(k, A))
    BY <2>1 DEF RowWords
  <2> QED BY <2>1, <2>5, <2>6, <2>7 DEF Program
<1>6. ASSUME NEW k \in Places
      PROVE  \/ k < RowFirst /\ N[k] = w[k]
             \/ N[k] = ErasedWord /\ k >= RowFirst
             \/ k >= RowFirst /\ \E a \in A : k = RowFirst + Rank(a, A)
  <2>1. k \in Nat
    BY Sizes
  <2>2. CASE RowAt(k, A) = {}
    <3>1. N[k] = Program(w[k], ErasedWord)
      BY <2>2 DEF RowWords, RowLatch
    <3>2. N[k] = w[k]
      BY <3>1 DEF Program
    <3> HIDE DEF N
    <3> QED BY <2>1, <3>2
  <2>3. CASE RowAt(k, A) # {}
    <3>1. PICK a \in A : k = RowFirst + Rank(a, A)
      BY <2>3 DEF RowAt
    <3>2. k >= RowFirst
      BY <3>1, <1>3
    <3> QED BY <3>1, <3>2
  <2> QED BY <2>2, <2>3
<1> QED BY <1>1, <1>2, <1>4, <1>5, <1>6

(* The page w with a row from the place f on, which holds the addresses A: *)
(* those from m to n.                                                      *)
RowOf(old, w, new, A, m, n, f) ==
  /\ A \in SUBSET Addr /\ m \in Nat /\ n \in Nat /\ f \in Nat
  /\ f > 0 /\ m <= n
  /\ \A k \in Places : k >= f => w[k] = ErasedWord
  /\ f > 1 => w[f - 1].addr # NoAddr
  /\ \A a \in A : /\ m <= a /\ a < n /\ PlacesOf(old, a) # {}
                  /\ f + Rank(a, A) \in Places
                  /\ new[f + Rank(a, A)].addr = a
                  /\ new[f + Rank(a, A)].data = ReadIn(old, a)
  /\ \A a \in Addr : m <= a /\ a < n /\ PlacesOf(old, a) # {} => a \in A
  /\ \A k \in Places :
       \/ k < f /\ new[k] = w[k]
       \/ new[k] = ErasedWord /\ k >= f
       \/ k >= f /\ \E a \in A : k = f + Rank(a, A)

(* A copy up to the address m, and a row of the addresses from m to n, is  *)
(* a copy up to n.                                                         *)
LEMMA RowCopies ==
  ASSUME NEW old, NEW w, NEW new, NEW A, NEW m, NEW n, NEW f,
         CopyOf(old, w, m), RowOf(old, w, new, A, m, n, f)
  PROVE  CopyOf(old, new, n)
<1>0. /\ A \in SUBSET Addr /\ m \in Nat /\ n \in Nat /\ f \in Nat
      /\ f > 0 /\ m <= n
      /\ \A k \in Places : k >= f => w[k] = ErasedWord
      /\ f > 1 => w[f - 1].addr # NoAddr
      /\ \A a \in A : /\ m <= a /\ a < n /\ PlacesOf(old, a) # {}
                      /\ f + Rank(a, A) \in Places
                      /\ new[f + Rank(a, A)].addr = a
                      /\ new[f + Rank(a, A)].data = ReadIn(old, a)
      /\ \A a \in Addr : m <= a /\ a < n /\ PlacesOf(old, a) # {} => a \in A
      /\ \A k \in Places :
           \/ k < f /\ new[k] = w[k]
           \/ new[k] = ErasedWord /\ k >= f
           \/ k >= f /\ \E a \in A : k = f + Rank(a, A)
  BY DEF RowOf
<1> USE <1>0
<1>1. /\ \A k \in Places : k \in Nat /\ k > 0 /\ k < PAGE_WORDS
      /\ \A a \in Addr : a \in Nat /\ a # NoAddr
      /\ PAGE_WORDS \in Nat /\ ErasedWord.addr = NoAddr
  BY Words, Sizes
<1>2. ASSUME NEW k \in Places, k < f PROVE new[k] = w[k]
  BY <1>1, <1>2
<1>3. ASSUME NEW k \in Places, new[k].addr # NoAddr, ~(k < f)
      PROVE  \E a \in A : /\ k = f + Rank(a, A)
                          /\ new[k].addr = a
                          /\ new[k].data = ReadIn(old, a)
  BY <1>1, <1>3
<1>4. ASSUME NEW k \in Places, w[k].addr # NoAddr
      PROVE  /\ k < f /\ new[k] = w[k]
             /\ w[k].addr \in Addr /\ w[k].addr < m
             /\ PlacesOf(old, w[k].addr) # {}
             /\ w[k].data = ReadIn(old, w[k].addr)
  <2>1. k < f
    BY <1>1, <1>4
  <2>2. w[k] # ErasedWord
    BY <1>1, <1>4
  <2> QED BY <1>2, <2>1, <2>2 DEF CopyOf
<1>5. ASSUME NEW k \in Places
      PROVE  \/ new[k] = ErasedWord
             \/ /\ new[k].addr \in Addr /\ new[k].addr < n
                /\ PlacesOf(old, new[k].addr) # {}
                /\ new[k].data = ReadIn(old, new[k].addr)
  <2>1. CASE k < f
    <3>1. new[k] = w[k]
      BY <1>2, <2>1
    <3>2. CASE w[k] = ErasedWord
      BY <3>1, <3>2
    <3>3. CASE w[k] # ErasedWord
      <4>1. /\ w[k].addr \in Addr /\ w[k].addr < m
            /\ PlacesOf(old, w[k].addr) # {}
            /\ w[k].data = ReadIn(old, w[k].addr)
        BY <3>3 DEF CopyOf
      <4>2. w[k].addr < n
        BY <4>1, <1>1
      <4> QED BY <3>1, <4>1, <4>2
    <3> QED BY <3>2, <3>3
  <2>2. CASE ~(k < f)
    <3>1. CASE new[k] = ErasedWord
      BY <3>1
    <3>2. CASE \E a \in A : k = f + Rank(a, A)
      <4>1. PICK a \in A : k = f + Rank(a, A)
        BY <3>2
      <4>2. /\ new[k].addr = a /\ new[k].data = ReadIn(old, a)
            /\ a \in Addr /\ a < n /\ PlacesOf(old, a) # {}
        BY <4>1
      <4> QED BY <4>2
    <3> QED BY <2>2, <3>1, <3>2
  <2> QED BY <2>1, <2>2
<1>6. ASSUME NEW k \in Places, NEW j \in Places, new[k].addr = new[j].addr,
             new[k].addr # NoAddr
      PROVE  k = j
  <2>1. CASE k < f /\ j < f
    BY <2>1, <1>2, <1>6 DEF CopyOf
  <2>2. CASE ~(k < f) /\ ~(j < f)
    <3>1. PICK a \in A : k = f + Rank(a, A) /\ new[k].addr = a
      BY <2>2, <1>3, <1>6
    <3>2. PICK b \in A : j = f + Rank(b, A) /\ new[j].addr = b
      BY <2>2, <1>3, <1>6
    <3> QED BY <3>1, <3>2, <1>6
  <2>3. ASSUME NEW i \in Places, NEW l \in Places, i < f, ~(l < f),
               new[i].addr = new[l].addr, new[l].addr # NoAddr
        PROVE  FALSE
    <3>1. w[i].addr < m /\ new[i] = w[i] /\ w[i].addr \in Nat
      BY <2>3, <1>1, <1>2, <1>4
    <3>2. PICK a \in A : new[l].addr = a
      BY <2>3, <1>3
    <3>3. m <= a /\ a \in Nat
      BY <1>1
    <3> QED BY <2>3, <3>1, <3>2, <3>3
  <2> QED BY <1>6, <2>1, <2>2, <2>3
<1>7. ASSUME NEW a \in Addr, a < n, PlacesOf(old, a) # {}
      PROVE  PlacesOf(new, a) # {}
  <2>1. CASE a < m
    <3>1. PICK k \in Places : w[k].addr = a
      BY <1>7, <2>1 DEF CopyOf, PlacesOf
    <3>2. new[k].addr = a
      BY <3>1, <1>1, <1>4
    <3> QED BY <3>2 DEF PlacesOf
  <2>2. CASE ~(a < m)
    <3>1. a \in A
      BY <1>1, <1>7, <2>2
    <3>2. f + Rank(a, A) \in Places /\ new[f + Rank(a, A)].addr = a
      BY <3>1
    <3> QED BY <3>2 DEF PlacesOf
  <2> QED BY <2>1, <2>2
<1>8. Contiguous(new)
  <2> SUFFICES ASSUME NEW k \in Places, k > 1, new[k].addr # NoAddr
               PROVE  new[k - 1].addr # NoAddr
    BY DEF Contiguous
  <2>0. k \in Nat /\ k - 1 \in Places /\ k - 1 \in Nat
    <3>1. k \in Nat /\ k - 1 \in Nat /\ k - 1 > 0 /\ k - 1 < PAGE_WORDS
      BY <1>1
    <3> QED BY <3>1, Words
  <2>1. CASE k < f
    <3>1. w[k - 1].addr # NoAddr
      BY <2>1, <1>2 DEF CopyOf, Contiguous
    <3> QED BY <2>0, <3>1, <1>4
  <2>2. CASE ~(k < f)
    <3>1. PICK a \in A : k = f + Rank(a, A)
      BY <2>2, <1>3
    <3>2. Rank(a, A) \in Nat
      BY RankType
    <3>3. CASE Rank(a, A) = 0
      <4>1. k = f /\ f > 1
        BY <3>1, <3>3, <2>0
      <4>2. w[k - 1].addr # NoAddr
        BY <4>1
      <4> QED BY <4>2, <2>0, <1>4
    <3>4. CASE Rank(a, A) # 0
      <4>1. PICK b \in A : Rank(b, A) = Rank(a, A) - 1
        <5>1. Rank(a, A) > 0
          BY <3>2, <3>4
        <5> QED BY <5>1, RankBefore
      <4>2. k - 1 = f + Rank(b, A)
        BY <4>1, <3>1, <3>2
      <4>3. new[k - 1].addr = b
        BY <4>2
      <4> QED BY <4>3, <1>1
    <3> QED BY <3>3, <3>4
  <2> QED BY <2>1, <2>2
<1> QED BY <1>5, <1>6, <1>7, <1>8, Zenon DEF CopyOf

(* Where PackEE goes on after a row. *)
LEMMA RowNext ==
  ASSUME TypeOK, NEW c \in Pages, Current = {c},
         packed.addr < DATA_EE_SIZE, RowRoom \in Nat, RowRoom > 0
  PROVE  LET A == RowAddrs
             n == NextAddr(A)
         IN /\ A \in SUBSET Addr
            /\ n \in Nat /\ n <= DATA_EE_SIZE /\ packed.addr <= n
            /\ \A a \in A : /\ packed.addr <= a /\ a < n
                            /\ PlacesOf(flash[c].words, a) # {}
            /\ \A a \in Addr : /\ packed.addr <= a /\ a < n
                               /\ PlacesOf(flash[c].words, a) # {}
                               => a \in A
            /\ n < DATA_EE_SIZE => /\ packed.addr + RowRoom <= n
                                   /\ \E a \in A : Rank(a, A) = RowRoom - 1
<1> DEFINE A == RowAddrs
           n == NextAddr(A)
           m == packed.addr
           T == {a \in Addr : a >= m /\ Written(a)}
<1>0. /\ m \in Nat /\ DATA_EE_SIZE \in Nat
      /\ \A a \in Addr : a \in Nat /\ a < DATA_EE_SIZE
  BY Sizes, TypeIs DEF Addr
<1>1. \A a \in Addr : a \in T <=> m <= a /\ PlacesOf(flash[c].words, a) # {}
  <2>1. \A a \in Addr : Written(a) <=> PlacesOf(flash[c].words, a) # {}
    BY OneView
  <2>2. \A a \in Addr : a >= m <=> m <= a
    <3> HIDE DEF m
    <3> QED BY <1>0
  <2> QED BY <2>1, <2>2
<1>2. /\ A \in SUBSET T /\ T \in SUBSET Addr
      /\ Cardinality(A) <= RowRoom
      /\ \A a \in A, b \in T : b <= a => b \in A
      /\ Cardinality(A) < RowRoom => A = T
  <2>1. T \in SUBSET Addr /\ A = Least(RowRoom, T)
    BY DEF RowAddrs
  <2> HIDE DEF T, A
  <2> QED BY <2>1, LeastIn
<1>3. A \in SUBSET Addr /\ Cardinality(A) \in Nat
  <2>1. A \in SUBSET Addr
    BY <1>2
  <2> QED BY <2>1, Counted
<1>4. n = IF Cardinality(A) < RowRoom THEN DATA_EE_SIZE ELSE Highest(A) + 1
  BY DEF NextAddr
<1> HIDE DEF A, n, T, m
<1>5. \A a \in A : m <= a /\ PlacesOf(flash[c].words, a) # {}
  BY <1>1, <1>2, <1>3
<1>6. CASE Cardinality(A) < RowRoom
  <2>1. n = DATA_EE_SIZE /\ A = T
    BY <1>2, <1>4, <1>6
  <2>2. n \in Nat /\ n <= DATA_EE_SIZE /\ m <= n /\ ~(n < DATA_EE_SIZE)
    BY <2>1, <1>0 DEF m
  <2> QED BY <2>1, <2>2, <1>0, <1>1, <1>3, <1>5 DEF A, n, m
<1>7. CASE ~(Cardinality(A) < RowRoom)
  <2> DEFINE h == Highest(A)
  <2>1. Cardinality(A) = RowRoom /\ n = h + 1
    BY <1>2, <1>3, <1>4, <1>7
  <2>2. A # {}
    BY <2>1, FS_EmptySet
  <2>3. h \in A /\ \A b \in A : b <= h
    BY <1>3, <2>2, HighestAddr
  <2>4. m + Cardinality(A) <= h + 1
    BY <1>0, <1>3, <1>5, <2>2, Spread
  <2>5. Rank(h, A) = Cardinality(A) - 1
    BY <1>3, <2>2, RankHighest
  <2> HIDE DEF h
  <2>6. h \in Nat /\ h < DATA_EE_SIZE
    BY <1>0, <1>3, <2>3
  <2>7. /\ n \in Nat /\ n <= DATA_EE_SIZE /\ m <= n
        /\ m + RowRoom <= n
    BY <1>0, <2>1, <2>4, <2>6
  <2>8. \A a \in A : a < n
    BY <1>0, <1>3, <2>1, <2>3, <2>6
  <2>9. ASSUME NEW a \in Addr, m <= a, a < n, PlacesOf(flash[c].words, a) # {}
        PROVE  a \in A
    <3>1. a \in T
      BY <1>1, <2>9
    <3>2. a <= h
      BY <1>0, <2>1, <2>6, <2>9
    <3> QED BY <3>1, <3>2, <1>2, <2>3
  <2>10. Rank(h, A) = RowRoom - 1
    BY <2>1, <2>5
  <2> QED BY <2>3, <2>7, <2>8, <2>9, <2>10, <1>3, <1>5 DEF A, n, m
<1> QED BY <1>6, <1>7

(* One row of a copy: what it holds, how far it goes, and that the rest of *)
(* the page stays erased.                                                  *)
LEMMA Row ==
  ASSUME TypeOK, NEW c \in Pages, Current = {c}, pc = "pack", Packing(c)
  PROVE  LET N == RowWords(flash[Next1(c)].words)
             n == NextAddr(RowAddrs)
         IN /\ N \in Content /\ n \in 0 .. DATA_EE_SIZE
            /\ packed.row + 1 \in 0 .. PAGE_WORDS \div ROW_WORDS
            /\ CopyOf(flash[c].words, N, n)
            /\ n < DATA_EE_SIZE =>
                 /\ (RowFirst + RowRoom) - 1 <= n
                 /\ \A k \in Places : k >= RowFirst + RowRoom => N[k] = ErasedWord
                 /\ N[(RowFirst + RowRoom) - 1].addr # NoAddr
<1> DEFINE old == flash[c].words
           w == flash[Next1(c)].words
           N == RowWords(w)
           A == RowAddrs
           n == NextAddr(A)
           f == RowFirst
           m == packed.addr
           R(a) == Rank(a, A)
<1>1. /\ CopyOf(old, w, m) /\ RowsFull(w)
      /\ m < DATA_EE_SIZE /\ f - 1 <= m
      /\ \A k \in Places : k >= f => w[k] = ErasedWord
      /\ f > 1 => w[f - 1].addr # NoAddr
  BY DEF Packing, RowsFull
<1>2. /\ f \in Nat /\ f > 0 /\ RowRoom \in Nat /\ RowRoom > 0
      /\ f + RowRoom <= PAGE_WORDS /\ m \in Nat
      /\ packed.row + 1 \in 0 .. PAGE_WORDS \div ROW_WORDS
  BY <1>1, RowBounds
<1>3. /\ A \in SUBSET Addr
      /\ n \in Nat /\ n <= DATA_EE_SIZE /\ m <= n
      /\ \A a \in A : /\ m <= a /\ a < n
                      /\ PlacesOf(old, a) # {}
      /\ \A a \in Addr : /\ m <= a /\ a < n
                         /\ PlacesOf(old, a) # {}
                         => a \in A
      /\ n < DATA_EE_SIZE => /\ m + RowRoom <= n
                             /\ \E a \in A : R(a) = RowRoom - 1
  BY <1>1, <1>2, RowNext
<1>4. /\ \A a \in A : R(a) \in Nat /\ R(a) < RowRoom
      /\ \A a \in A : f + R(a) \in Places
      /\ \A a \in A : N[f + R(a)] = [addr |-> a, data |-> ReadIn(old, a)]
      /\ \A k \in Places :
           \/ k < f /\ N[k] = w[k]
           \/ N[k] = ErasedWord /\ k >= f
           \/ k >= f /\ \E a \in A : k = f + R(a)
  BY <1>1, <1>2, RowPlaces
<1>5. flash \in [Pages -> PageSet] /\ Next1(c) \in Pages
  BY TypeIs, Neighbour
<1>6. old \in Content /\ w \in Content
  BY <1>5 DEF PageSet
<1>7. N = [k \in Places |-> N[k]]
  BY DEF RowWords
<1> HIDE DEF old, w, N, A, n, f, m
<1>8. ASSUME NEW a \in A
      PROVE  N[f + R(a)].addr = a /\ N[f + R(a)].data = ReadIn(old, a)
  <2>1. N[f + R(a)] = [addr |-> a, data |-> ReadIn(old, a)]
    BY <1>4
  <2> QED BY <2>1
<1>9. N \in Content
  <2>1. ASSUME NEW k \in Places PROVE N[k] \in WordSet
    <3>1. CASE k < f /\ N[k] = w[k]
      BY <3>1, <1>6 DEF Content
    <3>2. CASE N[k] = ErasedWord
      BY <3>2, Words
    <3>3. CASE \E a \in A : k = f + R(a)
      <4>1. PICK a \in A : k = f + R(a)
        BY <3>3
      <4>2. N[k] = [addr |-> a, data |-> ReadIn(old, a)]
        BY <4>1, <1>4
      <4>3. a \in 0 .. NoAddr + 1 /\ ReadIn(old, a) \in Values
        BY <1>3, <1>6, Words, ReadType
      <4> QED BY <4>2, <4>3 DEF WordSet
    <3> QED BY <3>1, <3>2, <3>3, <1>4
  <2> QED BY <2>1, <1>7 DEF Content
<1>10. CopyOf(old, N, n)
  <2>1. \A a \in A : /\ m <= a /\ a < n /\ PlacesOf(old, a) # {}
                     /\ f + Rank(a, A) \in Places
                     /\ N[f + Rank(a, A)].addr = a
                     /\ N[f + Rank(a, A)].data = ReadIn(old, a)
    BY <1>3, <1>4, <1>8
  <2>2. \A k \in Places :
          \/ k < f /\ N[k] = w[k]
          \/ N[k] = ErasedWord /\ k >= f
          \/ k >= f /\ \E a \in A : k = f + Rank(a, A)
    BY <1>4
  <2>3. \A a \in Addr : /\ m <= a /\ a < n
                        /\ PlacesOf(old, a) # {}
                        => a \in A
    BY <1>3
  <2>4. RowOf(old, w, N, A, m, n, f)
    BY <1>1, <1>2, <1>3, <2>1, <2>2, <2>3 DEF RowOf
  <2> QED BY <1>1, <2>4, RowCopies
<1>11. ASSUME n < DATA_EE_SIZE
       PROVE  /\ (f + RowRoom) - 1 <= n
              /\ \A k \in Places : k >= f + RowRoom => N[k] = ErasedWord
              /\ N[(f + RowRoom) - 1].addr # NoAddr
  <2>1. (f + RowRoom) - 1 <= n
    BY <1>1, <1>2, <1>3, <1>11
  <2>2. PICK l \in A : R(l) = RowRoom - 1
    BY <1>3, <1>11
  <2>3. N[(f + RowRoom) - 1].addr # NoAddr
    <3>1. f + R(l) = (f + RowRoom) - 1
      BY <2>2, <1>2
    <3>2. N[(f + RowRoom) - 1].addr = l
      BY <3>1, <1>8
    <3> QED BY <3>2, <1>3, Sizes
  <2>4. ASSUME NEW k \in Places, k >= f + RowRoom PROVE N[k] = ErasedWord
    <3>1. k \in Nat /\ ~(k < f)
      BY <2>4, <1>2, Sizes
    <3>2. ASSUME NEW a \in A, k = f + R(a) PROVE FALSE
      <4>1. R(a) \in Nat /\ R(a) < RowRoom
        BY <1>4
      <4> QED BY <4>1, <3>2, <2>4, <1>2, <3>1
    <3> QED BY <3>1, <3>2, <1>4
  <2> QED BY <2>1, <2>3, <2>4
<1>12. n \in 0 .. DATA_EE_SIZE
  BY <1>3, Sizes
<1> QED BY <1>2, <1>9, <1>10, <1>11, <1>12 DEF old, w, N, A, n, f
----------------------------------------------------------------------------
(* The steps *)

(* No address reads otherwise than before. *)
Same == \A a \in Addr : DataEERead(a)' = DataEERead(a)

(* The type invariant after a step.                                        *)
LEMMA TypeNext ==
  ASSUME flash' \in [Pages -> PageSet],
         pc' \in {"off", "format", "ready", "repack", "pack", "mark", "erase"},
         packed' \in [page : Pages, addr : 0 .. DATA_EE_SIZE,
                      row : 0 .. PAGE_WORDS \div ROW_WORDS],
         addrNotFound' \in BOOLEAN, interrupted' \in BOOLEAN
  PROVE  TypeOK'
BY DEF TypeOK, PageSet, Content, WordSet

(* No copy is under way.                                                   *)
LEMMA NoPackType ==
  NoPack \in [page : Pages, addr : 0 .. DATA_EE_SIZE,
              row : 0 .. PAGE_WORDS \div ROW_WORDS]
<1>1. 0 \in Pages /\ 0 \in 0 .. DATA_EE_SIZE
  BY Sizes DEF Pages
<1>2. 0 \in 0 .. PAGE_WORDS \div ROW_WORDS
  <2>1. PAGE_WORDS \div ROW_WORDS \in Nat
    BY FlashConstants, SMT
  <2> QED BY <2>1
<1> QED BY <1>1, <1>2 DEF NoPack

(* One page changes. *)
LEMMA Changed ==
  ASSUME flash \in [Pages -> PageSet], NEW q \in Pages, NEW g \in PageSet,
         flash' = [flash EXCEPT ![q] = g]
  PROVE  /\ flash' \in [Pages -> PageSet]
         /\ flash'[q] = g /\ \A p \in Pages : p # q => flash'[p] = flash[p]
         /\ Current' = IF g.current THEN Current \cup {q} ELSE Current \ {q}
BY DEF Current

(* The pages stay as they are. *)
LEMMA SameView ==
  ASSUME flash' = flash
  PROVE  Current' = Current /\ Same
BY DEF Current, Same, DataEERead, Written, currentPage

(* A step that leaves the flash alone keeps the invariant.                 *)
LEMMA StutterStep ==
  ASSUME IInv, UNCHANGED <<flash, pc, packed, interrupted>>,
         addrNotFound' \in BOOLEAN
  PROVE  IInv' /\ Same
<1>1. Current' = Current /\ Same
  BY SameView
<1>2. TypeOK'
  BY DEF IInv, TypeOK
<1>3. NoneInUse => NoneInUse'
  BY <1>1 DEF NoneInUse, ErasedExcept
<1>4. ASSUME NEW p \in Pages PROVE OneInUse(p) => OneInUse(p)'
  <2>1. Running(p) => Running(p)'
    BY DEF Running, ErasedExcept
  <2>2. Stuck(p) => Stuck(p)'
    BY DEF Stuck
  <2>3. Repacking(p) => Repacking(p)'
    BY DEF Repacking, ErasedExcept
  <2>4. Packing(p) => Packing(p)'
    BY DEF Packing, ErasedExcept, RowsFull, RowFirst
  <2> QED BY <1>1, <2>1, <2>2, <2>3, <2>4 DEF OneInUse
<1>5. ASSUME NEW p \in Pages PROVE TwoInUse(p) => TwoInUse(p)'
  BY <1>1 DEF TwoInUse, ErasedExcept
<1> QED BY <1>1, <1>2, <1>3, <1>4, <1>5 DEF IInv

(* Between two calls, one page is in use, or its pack was interrupted. *)
LEMMA ReadyPage ==
  ASSUME IInv, pc = "ready"
  PROVE  \E c \in Pages : OneInUse(c) /\ (Running(c) \/ Stuck(c))
BY DEF IInv, NoneInUse, OneInUse, TwoInUse, Repacking, Packing

(* A full page begins to be packed. *)
LEMMA PackStarts ==
  ASSUME NEW c \in Pages, Current = {c}, flash[Next1(c)] = ErasedPage,
         PackEE, ErasedExcept({c})', Full(flash'[c].words), ~interrupted'
  PROVE  /\ pc' = "pack" /\ Packing(c)'
         /\ packed' \in [page : Pages, addr : 0 .. DATA_EE_SIZE,
                         row : 0 .. PAGE_WORDS \div ROW_WORDS]
<1>1. Next1(c) \in Pages /\ Next1(c) # c
  BY Neighbour
<1>2. /\ pc' = "pack"
      /\ packed' = [page |-> Next1(c), addr |-> 0, row |-> 0]
  BY PacksNext, Erased DEF PackEE
<1>3. flash'[Next1(c)] = ErasedPage
  BY <1>1 DEF ErasedExcept
<1>4. packed' \in [page : Pages, addr : 0 .. DATA_EE_SIZE,
                   row : 0 .. PAGE_WORDS \div ROW_WORDS]
  BY <1>1, <1>2, NoPackType DEF NoPack
<1>5. CopyOf(flash[c].words, flash[Next1(c)].words, packed.addr)'
  BY <1>2, <1>3, EmptyCopy
<1>6. RowsFull(flash[Next1(c)].words)'
  <2>1. RowFirst' = 1
    <3>1. 0 * ROW_WORDS = 0
      BY Sizes
    <3> QED BY <1>2, <3>1 DEF RowFirst
  <2>2. packed'.addr = 0 /\ 0 < DATA_EE_SIZE
    BY <1>2, Sizes
  <2> QED BY <1>3, <2>1, <2>2, Erased DEF RowsFull
<1>7. flash'[Next1(c)] = [ErasedPage EXCEPT !.words = flash'[Next1(c)].words]
  BY <1>3 DEF ErasedPage
<1>8. packed'.page = Next1(c)
  BY <1>2
<1>9. ErasedExcept({c, Next1(c)})'
  BY DEF ErasedExcept
<1> QED BY <1>2, <1>4, <1>5, <1>6, <1>7, <1>8, <1>9 DEF Packing

(* writeWord: the address then reads as what was written, all others as    *)
(* before.                                                                 *)
LEMMA WriteWordStep ==
  ASSUME IInv, NEW a \in Addr, NEW v \in Values, writeWord(a, v)
  PROVE  /\ IInv'
         /\ \A b \in Addr : DataEERead(b)' = IF b = a THEN v ELSE DataEERead(b)
<1>1. PICK c \in Pages : OneInUse(c) /\ (Running(c) \/ Stuck(c))
  BY ReadyPage DEF writeWord
<1>2. /\ Current = {c} /\ currentPage = c
      /\ Free = PlacesOf(flash[c].words, NoAddr)
      /\ ~Full(flash[c].words)
      /\ \A b \in Addr : DataEERead(b) = ReadIn(flash[c].words, b)
  BY <1>1, OneView DEF OneInUse, writeWord
<1>3. /\ ~interrupted /\ ErasedExcept({c})
      /\ Valid(flash[c].words) /\ Contiguous(flash[c].words)
  BY <1>1, <1>2 DEF OneInUse, Running, Stuck
<1>4. flash \in [Pages -> PageSet] /\ flash[c] \in PageSet
      /\ flash[c].words \in Content /\ flash[c].current = TRUE
  <2>1. flash \in [Pages -> PageSet]
    BY TypeIs DEF IInv
  <2>2. flash[c].current
    BY <1>2 DEF Current
  <2> QED BY <2>1, <2>2 DEF PageSet
<1> DEFINE words == flash[c].words
           k == Lowest(PlacesOf(words, NoAddr))
           new == [words EXCEPT ![k] = [addr |-> a, data |-> v]]
           g == [flash[c] EXCEPT !.words = new]
<1>5. /\ k \in Places /\ Program(words[k], [addr |-> a, data |-> v])
                           = [addr |-> a, data |-> v]
      /\ new \in Content /\ Valid(new) /\ Contiguous(new)
      /\ Full(new) <=> k = PAGE_WORDS - 1
      /\ \A b \in Addr : ReadIn(new, b) = IF b = a THEN v ELSE ReadIn(words, b)
  BY <1>2, <1>3, <1>4, ProgramFirst
<1>6. flash' = [flash EXCEPT ![c] = g]
  <2>1. flash' = [flash EXCEPT ![c].words[k] =
                    Program(@, [addr |-> a, data |-> v])]
    BY <1>2 DEF writeWord, GetNextAvailCount
  <2>2. flash' = [flash EXCEPT ![c] = [flash[c] EXCEPT !.words =
                    [words EXCEPT ![k] =
                       Program(words[k], [addr |-> a, data |-> v])]]]
    BY <2>1
  <2> QED BY <2>2, <1>5
<1> HIDE DEF new, k
<1>7. g \in PageSet /\ g.words = new /\ g.current = TRUE
  BY <1>4, <1>5 DEF PageSet
<1> HIDE DEF g
<1>8. /\ flash' \in [Pages -> PageSet] /\ flash'[c] = g
      /\ \A p \in Pages : p # c => flash'[p] = flash[p]
      /\ Current' = {c}
  BY <1>2, <1>4, <1>6, <1>7, Changed
<1>9. \A b \in Addr : DataEERead(b)' = IF b = a THEN v ELSE DataEERead(b)
  BY <1>2, <1>5, <1>7, <1>8, OneViewNext
<1>10. ErasedExcept({c})' /\ ~interrupted' /\ flash'[c].words = new
       /\ addrNotFound' = addrNotFound
  BY <1>3, <1>7, <1>8 DEF ErasedExcept, writeWord
<1>11. IF LastPlace(k) THEN PackEE ELSE UNCHANGED <<pc, packed>>
  BY <1>2 DEF writeWord, GetNextAvailCount, k
<1>12. LastPlace(k) <=> k = PAGE_WORDS - 1
  BY DEF LastPlace
<1>13. CASE LastPlace(k)
  <2>1. Next1(c) \in Pages /\ flash[Next1(c)] = ErasedPage
    BY <1>3, Neighbour DEF ErasedExcept
  <2>2. Full(flash'[c].words)
    BY <1>5, <1>10, <1>12, <1>13
  <2>3. /\ pc' = "pack" /\ Packing(c)'
        /\ packed' \in [page : Pages, addr : 0 .. DATA_EE_SIZE,
                         row : 0 .. PAGE_WORDS \div ROW_WORDS]
    BY <1>2, <1>10, <1>11, <1>13, <2>1, <2>2, PackStarts
  <2>4. TypeOK'
    BY <1>8, <1>10, <2>3, TypeNext DEF IInv, TypeOK, writeWord
  <2>5. OneInUse(c)'
    BY <1>5, <1>8, <1>10, <2>3 DEF OneInUse
  <2> QED BY <1>9, <2>4, <2>5 DEF IInv
<1>14. CASE ~LastPlace(k)
  <2>1. UNCHANGED <<pc, packed>> /\ pc' = "ready"
    BY <1>11, <1>14 DEF writeWord
  <2>2. ~Full(flash'[c].words)
    BY <1>5, <1>10, <1>12, <1>14
  <2>3. Running(c)'
    BY <1>10, <2>1, <2>2 DEF Running
  <2>4. TypeOK'
    BY <1>8, <1>10, <2>1, TypeNext DEF IInv, TypeOK, writeWord
  <2>5. OneInUse(c)'
    BY <1>5, <1>8, <1>10, <2>3 DEF OneInUse
  <2> QED BY <1>9, <2>4, <2>5 DEF IInv
<1> QED BY <1>13, <1>14

(* packRow: the copy grows, and what is read stays the same.               *)
LEMMA PackRowStep ==
  ASSUME IInv, packRow
  PROVE  IInv' /\ Same
<1>1. PICK c \in Pages : OneInUse(c) /\ Packing(c) /\ pc = "pack"
  BY DEF IInv, packRow, NoneInUse, TwoInUse, OneInUse, Running, Stuck, Repacking
<1> DEFINE t == Next1(c)
           w == flash[t].words
           N == RowWords(w)
           n == NextAddr(RowAddrs)
           g == [flash[t] EXCEPT !.words = N]
<1>2. /\ Current = {c} /\ packed.page = t /\ t \in Pages /\ t # c
      /\ flash[t] = [ErasedPage EXCEPT !.words = w]
      /\ Valid(flash[c].words) /\ Contiguous(flash[c].words)
      /\ Full(flash[c].words) /\ ~interrupted /\ ErasedExcept({c, t})
  BY <1>1, Neighbour DEF OneInUse, Packing
<1>3. flash \in [Pages -> PageSet] /\ flash[t] \in PageSet /\ w \in Content
      /\ flash[t].current = FALSE
  <2>1. flash \in [Pages -> PageSet]
    BY TypeIs DEF IInv
  <2> QED BY <1>2, <2>1, Erased DEF PageSet
<1>4. /\ N \in Content /\ n \in 0 .. DATA_EE_SIZE
      /\ packed.row + 1 \in 0 .. PAGE_WORDS \div ROW_WORDS
      /\ CopyOf(flash[c].words, N, n)
      /\ n < DATA_EE_SIZE =>
           /\ (RowFirst + RowRoom) - 1 <= n
           /\ \A k \in Places : k >= RowFirst + RowRoom => N[k] = ErasedWord
           /\ N[(RowFirst + RowRoom) - 1].addr # NoAddr
  BY <1>1, <1>2, Row DEF IInv
<1>5. /\ packed \in [page : Pages, addr : 0 .. DATA_EE_SIZE,
                     row : 0 .. PAGE_WORDS \div ROW_WORDS]
      /\ packed' = [packed EXCEPT !.addr = n, !.row = packed.row + 1]
      /\ pc' = IF n >= DATA_EE_SIZE THEN "mark" ELSE "pack"
      /\ UNCHANGED <<addrNotFound, interrupted>>
  BY TypeIs DEF IInv, packRow
<1>6. flash' = [flash EXCEPT ![t] = g]
  <2>1. flash' = [flash EXCEPT ![t].words =
                    [k \in Places |-> Program(@[k], RowLatch(k, RowAddrs))]]
    BY <1>2 DEF packRow, RowLatch, RowAt
  <2> QED BY <2>1 DEF RowWords
<1>7. RowFirst' = RowFirst + RowRoom
  <2>1. packed'.row = packed.row + 1
    BY <1>5
  <2>2. packed.row \in Nat
    BY <1>5
  <2>3. packed.row + 1 # 0
    BY <2>2
  <2>4. RowFirst' = (packed.row + 1) * ROW_WORDS + 0
    BY <2>1, <2>3 DEF RowFirst
  <2>5. /\ packed.addr < DATA_EE_SIZE /\ RowFirst - 1 <= packed.addr
    BY <1>1 DEF Packing, RowsFull
  <2>6. RowFirst + RowRoom = (packed.row + 1) * ROW_WORDS
        /\ RowFirst \in Nat /\ RowRoom \in Nat
    BY <2>5, RowBounds DEF IInv
  <2> QED BY <2>4, <2>6
<1> HIDE DEF N, n, t
<1>8. g \in PageSet /\ g.words = N /\ g.current = FALSE
  BY <1>3, <1>4 DEF PageSet
<1>9. g = [ErasedPage EXCEPT !.words = N]
  BY <1>2 DEF ErasedPage
<1> HIDE DEF g
<1>10. /\ flash' \in [Pages -> PageSet] /\ flash'[t] = g
       /\ \A p \in Pages : p # t => flash'[p] = flash[p]
       /\ Current' = {c}
  <2>1. /\ flash' \in [Pages -> PageSet] /\ flash'[t] = g
        /\ \A p \in Pages : p # t => flash'[p] = flash[p]
        /\ Current' = IF g.current THEN Current \cup {t} ELSE Current \ {t}
    BY <1>2, <1>3, <1>6, <1>8, Changed
  <2>2. {c} \ {t} = {c}
    BY <1>2
  <2> QED BY <2>1, <2>2, <1>2, <1>8
<1>11. flash'[c] = flash[c] /\ flash'[t].words = N
  BY <1>2, <1>8, <1>10
<1>12. Same
  BY <1>2, <1>10, <1>11, OneView, OneViewNext DEF Same
<1>13. packed'.page = t /\ packed'.addr = n
  BY <1>2, <1>5
<1>14. TypeOK'
  <2>1. packed' \in [page : Pages, addr : 0 .. DATA_EE_SIZE,
                     row : 0 .. PAGE_WORDS \div ROW_WORDS]
    BY <1>4, <1>5
  <2> QED BY <1>5, <1>10, <2>1, TypeNext DEF IInv, TypeOK
<1>15. Packing(c)'
  <2>1. n \in Nat /\ n <= DATA_EE_SIZE /\ DATA_EE_SIZE \in Nat
    BY <1>4, Sizes
  <2>2. pc' = "mark" => packed'.addr = DATA_EE_SIZE
    BY <1>5, <1>13, <2>1
  <2>3. ASSUME pc' = "pack" PROVE RowsFull(flash[t].words)'
    <3>1. n < DATA_EE_SIZE
      BY <1>5, <2>1, <2>3
    <3>2. /\ RowFirst' - 1 <= packed'.addr
          /\ \A k \in Places : k >= RowFirst' => flash'[t].words[k] = ErasedWord
          /\ flash'[t].words[RowFirst' - 1].addr # NoAddr
      BY <3>1, <1>4, <1>7, <1>11, <1>13
    <3> QED BY <3>1, <3>2, <1>13 DEF RowsFull
  <2>4. CopyOf(flash[c].words, flash[t].words, packed.addr)'
    BY <1>4, <1>11, <1>13
  <2>5. flash'[t] = [ErasedPage EXCEPT !.words = flash'[t].words]
    BY <1>9, <1>10, <1>11
  <2>6. ErasedExcept({c, t})'
    BY <1>2, <1>10 DEF ErasedExcept
  <2>7. pc' \in {"pack", "mark"} /\ ~interrupted' /\ packed'.page = t
    BY <1>2, <1>5, <1>13
  <2>8. Full(flash'[c].words)
    BY <1>2, <1>11
  <2> QED BY <2>2, <2>3, <2>4, <2>5, <2>6, <2>7, <2>8 DEF Packing, t
<1>16. OneInUse(c)'
  BY <1>2, <1>10, <1>11, <1>15 DEF OneInUse
<1> QED BY <1>12, <1>14, <1>16 DEF IInv

(* With two pages in use after a step, the old one is read.                *)
LEMMA TwoViewNext ==
  ASSUME NEW o \in Pages, Current' = {o, Next1(o)},
         CopyOf(flash'[o].words, flash'[Next1(o)].words, DATA_EE_SIZE)
  PROVE  \A a \in Addr : DataEERead(a)' = ReadIn(flash'[o].words, a)
<1> DEFINE n == Next1(o)
<1>1. n \in Pages /\ o \in Nat /\ n \in Nat
  BY Neighbour, Sizes
<1> HIDE DEF n
<1>2. {o, n} \in SUBSET Nat /\ {o, n} # {}
  BY <1>1
<1>3. currentPage' \in {o, n}
  BY <1>2, LowestIn DEF currentPage, n
<1> SUFFICES ASSUME NEW a \in Addr
             PROVE  DataEERead(a)' = ReadIn(flash'[o].words, a)
  OBVIOUS
<1>4. DataEERead(a)' = ReadIn(flash'[currentPage'].words, a)
  BY DEF DataEERead, Written, ReadIn
<1>5. ReadIn(flash'[n].words, a) = ReadIn(flash'[o].words, a)
  BY CopyReads DEF n
<1> QED BY <1>3, <1>4, <1>5

(* PackEE always finds its copy complete. *)
LEMMA CopyVerified ==
  ASSUME NEW c \in Pages, Current = {c}, Packing(c)
  PROVE  Verified
<1> DEFINE w == flash[packed.page].words
<1>1. CopyOf(flash[c].words, w, packed.addr)
  BY DEF Packing
<1> SUFFICES ASSUME NEW k \in Places, \A j \in 1 .. k : w[j].addr # NoAddr
             PROVE  w[k].addr \in Addr /\ DataEERead(w[k].addr) = w[k].data
  BY DEF Verified
<1>2. k \in 1 .. k
  BY Words, Sizes
<1>3. w[k].addr # NoAddr
  BY <1>2
<1>4. w[k].addr \in Addr /\ w[k].data = ReadIn(flash[c].words, w[k].addr)
  <2> HIDE DEF w
  <2> QED BY <1>1, <1>3, Words DEF CopyOf
<1> QED BY <1>4, OneView

(* packMark: the old page and its copy are both in use, and read the same. *)
LEMMA PackMarkStep ==
  ASSUME IInv, packMark
  PROVE  IInv' /\ Same
<1>1. PICK c \in Pages : OneInUse(c) /\ Packing(c) /\ pc = "mark"
  BY DEF IInv, packMark, NoneInUse, TwoInUse, OneInUse, Running, Stuck, Repacking
<1> DEFINE t == Next1(c)
           w == flash[t].words
           old == flash[c]
           last == ERASE_WRITE_CYCLE_MAX - 1
           count == IF packed.page = 0 /\ old.count < last
                    THEN old.count + 1 ELSE old.count
           g == [flash[t] EXCEPT !.current = TRUE, !.count = count,
                                 !.expired = old.expired \/ count >= last]
<1>2. /\ Current = {c} /\ packed.page = t /\ t \in Pages /\ t # c
      /\ Valid(flash[c].words) /\ Contiguous(flash[c].words)
      /\ Full(flash[c].words) /\ ~interrupted /\ ErasedExcept({c, t})
      /\ CopyOf(flash[c].words, w, DATA_EE_SIZE)
  BY <1>1, Neighbour DEF OneInUse, Packing
<1>3. /\ flash \in [Pages -> PageSet] /\ flash[t] \in PageSet
      /\ old \in PageSet
      /\ packed \in [page : Pages, addr : 0 .. DATA_EE_SIZE,
                     row : 0 .. PAGE_WORDS \div ROW_WORDS]
  BY <1>2, TypeIs DEF IInv
<1>4. Verified /\ currentPage = c
  BY <1>1, <1>2, CopyVerified, OneView
<1>5. count \in 0 .. ERASE_WRITE_CYCLE_MAX - 1
  <2>1. old.count \in 0 .. ERASE_WRITE_CYCLE_MAX - 1
    BY <1>3 DEF PageSet
  <2> HIDE DEF old
  <2> QED BY <2>1, Sizes
<1>6. (old.expired \/ count >= last) \in BOOLEAN
  OBVIOUS
<1>7. flash' = [flash EXCEPT ![t] = g]
  BY <1>2, <1>4, ZenonT(60) DEF packMark
<1>8. /\ packed' = [packed EXCEPT !.page = c] /\ pc' = "erase"
      /\ UNCHANGED <<addrNotFound, interrupted>>
  BY <1>4, Zenon DEF packMark
<1> HIDE DEF count, last, old
<1>9. g \in PageSet /\ g.words = w /\ g.current = TRUE
  BY <1>3, <1>5, <1>6 DEF PageSet
<1> HIDE DEF g, t
<1>10. /\ flash' \in [Pages -> PageSet] /\ flash'[t] = g
       /\ \A p \in Pages : p # t => flash'[p] = flash[p]
       /\ Current' = {c, t}
  BY <1>2, <1>3, <1>7, <1>9, Changed
<1>11. flash'[c] = flash[c] /\ flash'[t].words = w
  BY <1>2, <1>9, <1>10
<1>12. CopyOf(flash'[c].words, flash'[t].words, DATA_EE_SIZE)
  BY <1>2, <1>11
<1>13. Same
  BY <1>2, <1>10, <1>11, <1>12, OneView, TwoViewNext DEF Same, t
<1>14. TypeOK'
  <2>1. packed' \in [page : Pages, addr : 0 .. DATA_EE_SIZE,
                     row : 0 .. PAGE_WORDS \div ROW_WORDS]
    BY <1>3, <1>8
  <2> QED BY <1>8, <1>10, <2>1, TypeNext DEF IInv, TypeOK
<1>15. TwoInUse(c)'
  <2>1. packed'.page = c
    BY <1>3, <1>8
  <2>2. ErasedExcept({c, t})'
    BY <1>2, <1>10 DEF ErasedExcept
  <2>3. /\ Valid(flash'[c].words) /\ Contiguous(flash'[c].words)
        /\ Full(flash'[c].words)
    BY <1>2, <1>11
  <2>4. pc' = "erase" /\ ~interrupted'
    BY <1>2, <1>8
  <2> QED BY <1>10, <1>12, <2>1, <2>2, <2>3, <2>4 DEF TwoInUse, t
<1> QED BY <1>13, <1>14, <1>15 DEF IInv

(* packErase: the copy takes the place of the old page.                    *)
LEMMA PackEraseStep ==
  ASSUME IInv, packErase
  PROVE  IInv' /\ Same
<1>1. PICK o \in Pages : TwoInUse(o)
  BY DEF IInv, packErase, NoneInUse, OneInUse, Running, Stuck, Repacking, Packing
<1> DEFINE n == Next1(o)
<1>2. /\ Current = {o, n} /\ packed.page = o /\ n \in Pages /\ n # o
      /\ ErasedExcept({o, n}) /\ ~interrupted
      /\ CopyOf(flash[o].words, flash[n].words, DATA_EE_SIZE)
  BY <1>1, Neighbour DEF TwoInUse, packErase
<1>3. flash \in [Pages -> PageSet]
  BY TypeIs DEF IInv
<1>4. flash' = [flash EXCEPT ![o] = ErasedPage]
  BY <1>2 DEF packErase
<1> HIDE DEF n
<1>5. /\ flash' \in [Pages -> PageSet] /\ flash'[o] = ErasedPage
      /\ \A p \in Pages : p # o => flash'[p] = flash[p]
      /\ Current' = Current \ {o}
  BY <1>3, <1>4, Erased, Changed
<1>6. Current' = {n} /\ flash'[n] = flash[n]
  BY <1>2, <1>5
<1>7. Same
  BY <1>1, <1>2, <1>6, TwoView, OneViewNext, CopyReads DEF Same
<1>8. TypeOK'
  BY <1>5, NoPackType, TypeNext DEF IInv, TypeOK, packErase
<1>9. ErasedExcept({n})'
  BY <1>2, <1>5 DEF ErasedExcept
<1>10. /\ Valid(flash'[n].words) /\ Contiguous(flash'[n].words)
       /\ ~Full(flash'[n].words)
  BY <1>2, <1>6, CopyValid, CopyHasRoom
<1>11. OneInUse(n)'
  BY <1>2, <1>6, <1>9, <1>10 DEF OneInUse, Running, packErase
<1> QED BY <1>2, <1>7, <1>8, <1>11 DEF IInv

(* With no page in use, every address reads as blank.                      *)
LEMMA NothingReads ==
  (Current = {} => \A a \in Addr : DataEERead(a) = Blank)
  /\ (Current' = {} => \A a \in Addr : DataEERead(a)' = Blank)
BY DEF DataEERead, Written

(* Startup without a page in use: the first page is erased.                *)
LEMMA InitNoneStep ==
  ASSUME IInv, initNone
  PROVE  IInv' /\ Same
<1>1. NoneInUse /\ Current = {} /\ 0 \in Pages
  <2>1. Current = {} /\ 0 \in Pages
    BY Sizes DEF initNone, Pages
  <2>2. \A p \in Pages : ~OneInUse(p) /\ ~TwoInUse(p)
    BY <2>1 DEF OneInUse, TwoInUse
  <2> QED BY <2>1, <2>2 DEF IInv
<1>2. flash' = [flash EXCEPT ![0] = ErasedPage]
  BY DEF initNone
<1>3. flash \in [Pages -> PageSet]
  BY TypeIs DEF IInv
<1>4. /\ flash' \in [Pages -> PageSet] /\ flash'[0] = ErasedPage
      /\ \A p \in Pages : p # 0 => flash'[p] = flash[p]
      /\ Current' = Current \ {0}
  BY <1>1, <1>2, <1>3, Erased, Changed
<1>5. Current' = {}
  BY <1>1, <1>4
<1>6. Same
  BY <1>1, <1>5, NothingReads DEF Same
<1>7. TypeOK'
  BY <1>4, TypeNext DEF IInv, TypeOK, initNone
<1>8. NoneInUse'
  BY <1>1, <1>4, <1>5 DEF NoneInUse, ErasedExcept, initNone
<1> QED BY <1>6, <1>7, <1>8 DEF IInv

(* The first page becomes current. *)
LEMMA InitFormatStep ==
  ASSUME IInv, initFormat
  PROVE  IInv' /\ Same
<1>1. NoneInUse /\ Current = {} /\ 0 \in Pages /\ flash[0] = ErasedPage
  <2>1. NoneInUse
    BY DEF IInv, initFormat, OneInUse, TwoInUse, Running, Stuck, Repacking,
           Packing
  <2> QED BY <2>1, Sizes DEF NoneInUse, ErasedExcept, Pages
<1> DEFINE g == [flash[0] EXCEPT !.current = TRUE, !.count = 0,
                                 !.expired = FALSE]
<1>2. flash' = [flash EXCEPT ![0] = g]
  BY DEF initFormat
<1>3. flash \in [Pages -> PageSet]
  BY TypeIs DEF IInv
<1>4. g \in PageSet /\ g.current = TRUE /\ g.words = ErasedPage.words
  <2>1. ErasedPage \in PageSet /\ 0 \in 0 .. ERASE_WRITE_CYCLE_MAX - 1
    BY Erased, Sizes
  <2> QED BY <1>1, <2>1 DEF PageSet
<1> HIDE DEF g
<1>5. /\ flash' \in [Pages -> PageSet] /\ flash'[0] = g
      /\ \A p \in Pages : p # 0 => flash'[p] = flash[p]
      /\ Current' = {0} /\ flash'[0].words = ErasedPage.words
  BY <1>1, <1>2, <1>3, <1>4, Changed
<1>6. Same
  BY <1>1, <1>5, NothingReads, OneViewNext, ErasedReads DEF Same
<1>7. TypeOK'
  BY <1>5, TypeNext DEF IInv, TypeOK, initFormat
<1>8. ErasedExcept({0})'
  BY <1>1, <1>5 DEF NoneInUse, ErasedExcept
<1>9. Running(0)'
  BY <1>1, <1>5, <1>8, Erased DEF NoneInUse, Running, initFormat
<1>10. OneInUse(0)'
  BY <1>5, <1>9, Erased DEF OneInUse
<1> QED BY <1>1, <1>6, <1>7, <1>10 DEF IInv

(* Startup with one page in use.                                           *)
LEMMA InitReadyStep ==
  ASSUME IInv, initReady
  PROVE  IInv' /\ Same
<1>1. Current' = Current /\ Same
  BY SameView DEF initReady
<1>2. ~NoneInUse
  BY FS_EmptySet DEF NoneInUse, initReady
<1>3. ~(\E p \in Pages : TwoInUse(p))
  BY TwoView DEF initReady
<1>4. PICK c \in Pages : OneInUse(c)
  BY <1>2, <1>3 DEF IInv
<1>5. Running(c) \/ Stuck(c)
  BY <1>4 DEF OneInUse, Repacking, Packing, initReady
<1>6. Running(c)' \/ Stuck(c)'
  BY <1>5 DEF Running, Stuck, ErasedExcept, initReady
<1>7. OneInUse(c)'
  BY <1>1, <1>4, <1>6 DEF OneInUse, initReady
<1>8. TypeOK'
  BY TypeNext, TypeIs DEF IInv, initReady
<1> QED BY <1>1, <1>7, <1>8 DEF IInv

(* One page in use is counted as one.                                      *)
LEMMA OneCounted ==
  ASSUME NEW c, Current = {c}
  PROVE  Cardinality(Current) = 1
BY FS_Singleton

(* Of two current pages, the full one stays, and is packed again. *)
LEMMA InitTwoStep ==
  ASSUME IInv, initTwo
  PROVE  IInv' /\ Same
<1>1. PICK o \in Pages : TwoInUse(o)
  <2>1. ~NoneInUse
    BY FS_EmptySet DEF NoneInUse, initTwo
  <2>2. \A c \in Pages : ~OneInUse(c)
    BY OneCounted DEF OneInUse, initTwo
  <2> QED BY <2>1, <2>2 DEF IInv
<1> DEFINE n == Next1(o)
<1>2. /\ Current = {o, n} /\ n \in Pages /\ n # o
      /\ ErasedExcept({o, n}) /\ ~interrupted
      /\ Valid(flash[o].words) /\ Contiguous(flash[o].words)
      /\ Full(flash[o].words) /\ secondPage = n
  BY <1>1, Neighbour, TwoView DEF TwoInUse
<1>3. flash \in [Pages -> PageSet]
  BY TypeIs DEF IInv
<1>4. flash' = [flash EXCEPT ![n] = ErasedPage]
  BY <1>2 DEF initTwo
<1> HIDE DEF n
<1>5. /\ flash' \in [Pages -> PageSet] /\ flash'[n] = ErasedPage
      /\ \A p \in Pages : p # n => flash'[p] = flash[p]
      /\ Current' = Current \ {n}
  BY <1>2, <1>3, <1>4, Erased, Changed
<1>6. Current' = {o} /\ flash'[o] = flash[o]
  BY <1>2, <1>5
<1>7. Same
  BY <1>1, <1>6, TwoView, OneViewNext DEF Same
<1>8. TypeOK'
  BY <1>5, TypeNext DEF IInv, TypeOK, initTwo
<1>9. ErasedExcept({o})'
  BY <1>2, <1>5 DEF ErasedExcept
<1>10. Repacking(o)'
  BY <1>2, <1>6, <1>9 DEF Repacking, initTwo
<1>11. OneInUse(o)'
  BY <1>2, <1>6, <1>10 DEF OneInUse
<1> QED BY <1>7, <1>8, <1>11 DEF IInv

(* The page that startup has found is full: a pack is begun again.         *)
LEMMA InitRepackStep ==
  ASSUME IInv, initRepack
  PROVE  IInv' /\ Same
<1>1. PICK c \in Pages : OneInUse(c) /\ Repacking(c)
  BY DEF IInv, initRepack, NoneInUse, TwoInUse, OneInUse, Running, Stuck, Packing
<1>2. /\ Current = {c} /\ ErasedExcept({c}) /\ Full(flash[c].words)
      /\ ~interrupted
  BY <1>1 DEF OneInUse, Repacking
<1>3. ~Room
  BY <1>2, OneView
<1>4. PackEE /\ UNCHANGED <<flash, addrNotFound, call, interrupted>>
  BY <1>3 DEF initRepack
<1>5. Current' = Current /\ Same
  BY <1>4, SameView
<1>6. flash[Next1(c)] = ErasedPage
  BY <1>2, Neighbour DEF ErasedExcept
<1>7. ErasedExcept({c})' /\ Full(flash'[c].words) /\ ~interrupted'
  BY <1>2, <1>4 DEF ErasedExcept
<1>8. /\ pc' = "pack" /\ Packing(c)'
      /\ packed' \in [page : Pages, addr : 0 .. DATA_EE_SIZE,
                      row : 0 .. PAGE_WORDS \div ROW_WORDS]
  BY <1>2, <1>4, <1>6, <1>7, PackStarts
<1>9. TypeOK'
  BY <1>4, <1>8, TypeNext, TypeIs DEF IInv
<1>10. OneInUse(c)'
  BY <1>1, <1>4, <1>5, <1>8 DEF OneInUse
<1> QED BY <1>5, <1>9, <1>10 DEF IInv

(* The power fails.  Before the new page was marked, the full page is all  *)
(* that is left; after that, both pages are.                               *)
LEMMA PowerFailStep ==
  ASSUME IInv, powerFail
  PROVE  IInv' /\ Same
<1>1. /\ flash' = flash /\ pc' = "off"
      /\ interrupted' = (interrupted \/
                        (pc \in {"repack", "pack", "mark"} /\ ~Room))
      /\ pc # "off"
  BY DEF powerFail
<1>2. Current' = Current /\ Same
  BY <1>1, SameView
<1>3. interrupted' \in BOOLEAN
  BY <1>1
<1>4. TypeOK'
  BY <1>1, <1>3, NoPackType, TypeNext, TypeIs DEF IInv, powerFail
<1>5. CASE NoneInUse
  <2>1. NoneInUse'
    BY <1>1, <1>2, <1>5 DEF NoneInUse, ErasedExcept
  <2> QED BY <1>2, <1>4, <2>1 DEF IInv
<1>6. ASSUME NEW c \in Pages, OneInUse(c) PROVE OneInUse(c)'
  <2>1. CASE Running(c)
    BY <1>1, <1>2, <1>6, <2>1 DEF OneInUse, Running, ErasedExcept
  <2>2. CASE Stuck(c)
    BY <1>1, <1>2, <1>6, <2>2 DEF OneInUse, Stuck
  <2>3. ASSUME Full(flash[c].words), \A p \in Pages : Valid(flash[p].words),
               pc \in {"repack", "pack", "mark"}
        PROVE  OneInUse(c)'
    <3>1. ~Room
      BY <1>6, <2>3, OneView DEF OneInUse
    <3>2. Stuck(c)'
      BY <1>1, <2>3, <3>1 DEF Stuck
    <3> QED BY <1>1, <1>2, <1>6, <3>2 DEF OneInUse
  <2>4. CASE Repacking(c)
    <3>1. \A p \in Pages : Valid(flash[p].words)
      BY <1>6, <2>4, Erased DEF OneInUse, Repacking, ErasedExcept
    <3> QED BY <2>3, <2>4, <3>1 DEF Repacking
  <2>5. CASE Packing(c)
    <3>1. Valid(flash[Next1(c)].words)
      BY <2>5, CopyValid DEF Packing
    <3>2. \A p \in Pages : Valid(flash[p].words)
      BY <1>6, <2>5, <3>1, Erased DEF OneInUse, Packing, ErasedExcept
    <3> QED BY <2>3, <2>5, <3>2 DEF Packing
  <2> QED BY <1>6, <2>1, <2>2, <2>4, <2>5 DEF OneInUse
<1>7. ASSUME NEW o \in Pages, TwoInUse(o) PROVE TwoInUse(o)'
  BY <1>1, <1>2, <1>7 DEF TwoInUse, ErasedExcept
<1> QED BY <1>2, <1>4, <1>5, <1>6, <1>7 DEF IInv
----------------------------------------------------------------------------
(* The theorems *)

(* A new board. *)
LEMMA Initial ==
  Init => IInv /\ \A a \in Addr : DataEERead(a) = Blank
<1> SUFFICES ASSUME Init PROVE IInv /\ \A a \in Addr : DataEERead(a) = Blank
  OBVIOUS
<1>1. flash \in [Pages -> PageSet] /\ \A p \in Pages : flash[p] = ErasedPage
  BY Erased DEF Init
<1>2. Current = {}
  BY <1>1, Erased DEF Current
<1>3. TypeOK
  BY <1>1, NoPackType, TypeIs DEF Init
<1>4. NoneInUse
  BY <1>1, <1>2 DEF Init, NoneInUse, ErasedExcept
<1> QED BY <1>2, <1>3, <1>4, NothingReads DEF IInv

(* Reading an address changes no word.                                     *)
LEMMA ReadStep ==
  ASSUME IInv, NEW a \in Addr, EEPROM_read(a)
  PROVE  IInv' /\ Same
BY StutterStep DEF EEPROM_read, IInv, TypeOK

(* A write that changes no page: the byte is there already, or refused. *)
LEMMA NoWriteStep ==
  ASSUME IInv, NEW a \in Addr, NEW v \in Values,
         writeNothing(a, v) \/ writeRefused(a, v)
  PROVE  IInv' /\ Same
BY StutterStep DEF writeNothing, writeRefused, IInv, TypeOK

(* Whatever goes on apart from reads and writes, all addresses read the    *)
(* same.                                                                   *)
LEMMA BackgroundStep ==
  ASSUME IInv, Pack \/ Startup \/ powerFail
  PROVE  IInv' /\ Same /\ call' = call
<1>1. call' = call
  BY DEF Pack, packRow, packMark, packErase, Startup, initNone, initFormat,
         initReady, initTwo, initRepack, powerFail
<1> QED BY <1>1, PackRowStep, PackMarkStep, PackEraseStep, InitNoneStep,
           InitFormatStep, InitReadyStep, InitTwoStep, InitRepackStep,
           PowerFailStep DEF Pack, Startup

(* Every step keeps the pages in one of the three shapes. *)
LEMMA Inductive ==
  IInv /\ [Next]_vars => IInv'
<1> SUFFICES ASSUME IInv, [Next]_vars PROVE IInv'
  OBVIOUS
<1>1. ASSUME NEW a \in Addr, EEPROM_read(a) PROVE IInv'
  BY <1>1, ReadStep
<1>2. ASSUME NEW a \in Addr, NEW v \in Values, EEPROM_write(a, v) PROVE IInv'
  BY <1>2, NoWriteStep, WriteWordStep DEF EEPROM_write
<1>3. CASE Pack \/ Startup \/ powerFail
  BY <1>3, BackgroundStep
<1>4. CASE UNCHANGED vars
  BY <1>4, StutterStep DEF vars, IInv, TypeOK
<1> QED BY <1>1, <1>2, <1>3, <1>4 DEF Next

(* The pages are always in one of the three shapes. *)
THEOREM Invariance == Spec => []IInv
<1>1. Init => IInv
  BY Initial
<1> QED BY <1>1, Inductive, PTL DEF Spec

(* The state is well formed; and the rows of PackEE end within the page,   *)
(* which no check in the code ensures: each row but the last is full.      *)
THEOREM TypeCorrect == Spec => []TypeOK
<1>1. IInv => TypeOK
  BY DEF IInv
<1> QED BY <1>1, Invariance, PTL

(* No word is programmed over another: a page is erased before anything is *)
(* packed into it.                                                         *)
THEOREM NothingGarbledAlways == Spec => []NothingGarbled
<1>1. IInv => NothingGarbled
  <2> SUFFICES ASSUME IInv, NEW p \in Pages, NEW k \in Places
               PROVE  flash[p].words[k] # Garbled
    BY DEF NothingGarbled
  <2>1. ASSUME Valid(flash[p].words) PROVE flash[p].words[k] # Garbled
    <3>1. Garbled.addr \notin Addr /\ Garbled # ErasedWord
      BY Words, Sizes DEF Addr
    <3> QED BY <2>1, <3>1 DEF Valid
  <2>2. CASE NoneInUse
    BY <2>1, <2>2, Erased DEF NoneInUse, ErasedExcept
  <2>3. ASSUME NEW c \in Pages, OneInUse(c) PROVE Valid(flash[p].words)
    <3>1. CASE Running(c)
      BY <2>3, <3>1, Erased DEF OneInUse, Running, ErasedExcept
    <3>2. CASE Stuck(c)
      BY <3>2 DEF Stuck
    <3>3. CASE Repacking(c)
      BY <2>3, <3>3, Erased DEF OneInUse, Repacking, ErasedExcept
    <3>4. CASE Packing(c)
      <4>1. Valid(flash[Next1(c)].words)
        BY <3>4, CopyValid DEF Packing
      <4> QED BY <2>3, <3>4, <4>1, Erased DEF OneInUse, Packing, ErasedExcept
    <3> QED BY <2>3, <3>1, <3>2, <3>3, <3>4 DEF OneInUse
  <2>4. ASSUME NEW o \in Pages, TwoInUse(o) PROVE Valid(flash[p].words)
    <3>1. Valid(flash[Next1(o)].words)
      BY <2>4, CopyValid DEF TwoInUse
    <3> QED BY <2>4, <3>1, Erased DEF TwoInUse, ErasedExcept
  <2> QED BY <2>1, <2>2, <2>3, <2>4 DEF IInv
<1> QED BY <1>1, Invariance, PTL

(* Between two calls exactly one page is current and, unless a pack was    *)
(* interrupted, all others are erased.                                     *)
THEOREM OnePageInUseAlways == Spec => []OnePageInUse
<1>1. IInv => OnePageInUse
  <2> SUFFICES ASSUME IInv, pc = "ready"
               PROVE  /\ Cardinality(Current) = 1
                      /\ interrupted \/ \A p \in Pages \ Current :
                                          flash[p] = ErasedPage
    BY DEF OnePageInUse
  <2>1. PICK c \in Pages : OneInUse(c) /\ (Running(c) \/ Stuck(c))
    BY ReadyPage
  <2>2. Current = {c}
    BY <2>1 DEF OneInUse
  <2>3. interrupted \/ ErasedExcept({c})
    BY <2>1 DEF Running, Stuck
  <2> QED BY <2>2, <2>3, OneCounted DEF ErasedExcept
<1> QED BY <1>1, Invariance, PTL

(* Between two calls there is a free place, unless a pack was interrupted. *)
THEOREM RoomLeftAlways == Spec => []RoomLeft
<1>1. IInv => RoomLeft
  <2> SUFFICES ASSUME IInv, pc = "ready", ~interrupted PROVE Room
    BY DEF RoomLeft
  <2>1. PICK c \in Pages : OneInUse(c) /\ (Running(c) \/ Stuck(c))
    BY ReadyPage
  <2> QED BY <2>1, OneView DEF OneInUse, Running, Stuck
<1> QED BY <1>1, Invariance, PTL

(* The emulated EEPROM implements the memory of bytes: whatever is packed, *)
(* marked, erased or interrupted, an address reads what was last written   *)
(* to it.                                                                  *)
THEOREM Refinement == Spec => ImplementsEEPROM
<1>1. Init => Abstract!Init
  <2> SUFFICES ASSUME Init PROVE Abstract!Init
    OBVIOUS
  <2>1. [a \in Addr |-> DataEERead(a)] = [a \in Addr |-> Blank]
    BY Initial
  <2> QED BY <2>1 DEF Abstract!Init, Abstract!NoCall, Init
<1> DEFINE memory == [a \in Addr |-> DataEERead(a)]
<1>2. ASSUME Same PROVE memory' = memory
  BY <1>2 DEF Same
<1>3. IInv /\ [Next]_vars => [Abstract!Next]_<<memory, call>>
  <2> SUFFICES ASSUME IInv, [Next]_vars
               PROVE  [Abstract!Next]_<<memory, call>>
    OBVIOUS
  <2>1. ASSUME NEW a \in Addr, EEPROM_read(a)
        PROVE  UNCHANGED <<memory, call>>
    BY <1>2, <2>1, ReadStep DEF EEPROM_read
  <2>2. ASSUME NEW a \in Addr, NEW v \in Values, EEPROM_write(a, v)
        PROVE  Abstract!Write(a, v) \/ Abstract!Refuse(a, v)
    <3>1. CASE writeNothing(a, v)
      <4>1. memory' = memory /\ DataEERead(a) = v
        BY <1>2, <3>1, NoWriteStep DEF writeNothing, Unchanged
      <4>2. memory' = [memory EXCEPT ![a] = v]
        BY <4>1
      <4>3. call' = [addr |-> a, data |-> v, result |-> "done"]
        BY <3>1 DEF writeNothing, Called
      <4> QED BY <4>2, <4>3 DEF Abstract!Write
    <3>2. CASE writeRefused(a, v)
      <4>1. memory' = memory
        BY <1>2, <3>2, NoWriteStep
      <4>2. call' = [addr |-> a, data |-> v, result |-> "refused"]
        BY <3>2 DEF writeRefused, Called
      <4> QED BY <4>1, <4>2 DEF Abstract!Refuse
    <3>3. CASE writeWord(a, v)
      <4>1. \A b \in Addr :
              DataEERead(b)' = IF b = a THEN v ELSE DataEERead(b)
        BY <3>3, WriteWordStep
      <4>2. memory' = [memory EXCEPT ![a] = v]
        BY <4>1
      <4>3. call' = [addr |-> a, data |-> v, result |-> "done"]
        BY <3>3 DEF writeWord, Called
      <4> QED BY <4>2, <4>3 DEF Abstract!Write
    <3> QED BY <2>2, <3>1, <3>2, <3>3 DEF EEPROM_write
  <2>3. CASE Pack \/ Startup \/ powerFail
    BY <1>2, <2>3, BackgroundStep
  <2>4. CASE UNCHANGED vars
    BY <1>2, <2>4, SameView DEF vars
  <2> HIDE DEF memory
  <2> QED BY <2>1, <2>2, <2>3, <2>4 DEF Next, Abstract!Next
<1> QED BY <1>1, <1>3, Invariance, PTL DEF Spec, ImplementsEEPROM, Abstract!Spec
=============================================================================
