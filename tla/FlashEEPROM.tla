----------------------------- MODULE FlashEEPROM -----------------------------
(***************************************************************************)
(* The EEPROM that the dsPIC board emulates in its flash memory            *)
(* (src/arch/dspic/DEE Emulation 16-bit.c, without ECC, one bank) under    *)
(* the driver of src/arch/dspic/eeprom.c.                                  *)
(*                                                                         *)
(* A page of flash is a status word and places for pairs of an address and *)
(* a byte.  One page is current; a write programs the next place of it, a  *)
(* read takes the last place with its address.  When the last place has    *)
(* been programmed, PackEE copies what is valid to the next page and       *)
(* erases the old one.  Erasing a page, programming a word and programming *)
(* a row are each one step of the hardware; the power may fail between any *)
(* two.                                                                    *)
(***************************************************************************)
EXTENDS Naturals, FiniteSets

CONSTANTS
  DATA_EE_SIZE,         \* addresses (255)
  NUM_DATA_EE_PAGES,    \* pages (16)
  PAGE_WORDS,           \* words of a page, the status included (512)
  ROW_WORDS,            \* words of a row (64)
  ERASE_WRITE_CYCLE_MAX,\* rounds after which a page is marked expired (100)
  Values,               \* bytes that are written
  Blank                 \* what an address reads that was never written (0xFF)

Addr == 0 .. DATA_EE_SIZE - 1
Pages == 0 .. NUM_DATA_EE_PAGES - 1
Places == 1 .. PAGE_WORDS - 1

ASSUME FlashConstants ==
  /\ DATA_EE_SIZE \in Nat \ {0}
  /\ NUM_DATA_EE_PAGES \in Nat /\ NUM_DATA_EE_PAGES >= 3
  /\ PAGE_WORDS \in Nat /\ PAGE_WORDS > DATA_EE_SIZE + 1
  /\ ROW_WORDS \in Nat /\ ROW_WORDS >= 2 /\ PAGE_WORDS % ROW_WORDS = 0
  /\ ERASE_WRITE_CYCLE_MAX \in Nat \ {0}
  /\ Blank \in Values

VARIABLES
  flash,                \* per page: status and words
  pc,                   \* the next step of the driver
  packed,               \* PackEE: packedPage, latchAddr, the row
  addrNotFound,         \* dataEEFlags.addrNotFound
  call,                 \* history: the last write, and what became of it
  interrupted           \* history: the power failed before a pack was marked

vars == <<flash, pc, packed, addrNotFound, call, interrupted>>

(* An erased word has the address 0xFF, which no byte of the EEPROM has.   *)
(* A word that was programmed twice with different contents is Garbled.    *)
NoAddr == DATA_EE_SIZE
ErasedWord == [addr |-> NoAddr, data |-> Blank]
Garbled == [addr |-> NoAddr + 1, data |-> Blank]

ErasedPage == [current |-> FALSE, expired |-> FALSE, count |-> 0,
               words |-> [k \in Places |-> ErasedWord]]

NoPack == [page |-> 0, addr |-> 0, row |-> 0]

Init ==
  /\ flash = [p \in Pages |-> ErasedPage]
  /\ pc = "off"
  /\ packed = NoPack
  /\ addrNotFound = FALSE
  /\ call = [addr |-> 0, data |-> Blank, result |-> "none"]
  /\ interrupted = FALSE
----------------------------------------------------------------------------
(* Reading *)

Lowest(S) == CHOOSE k \in S : \A j \in S : k <= j
Highest(S) == CHOOSE k \in S : \A j \in S : j <= k

Current == {p \in Pages : flash[p].current}

(* The search begins at page 0. *)
currentPage == Lowest(Current)

PlacesOf(words, a) == {k \in Places : words[k].addr = a}

Written(a) ==
  Current # {} /\ PlacesOf(flash[currentPage].words, a) # {}

(* The search goes backward: the last place with the address is valid.     *)
Found(words, a) == words[Highest(PlacesOf(words, a))].data

(* The driver takes the low byte of the 0xFFFF that stands for not found.  *)
DataEERead(a) ==
  IF Written(a) THEN Found(flash[currentPage].words, a) ELSE Blank

Free == PlacesOf(flash[currentPage].words, NoAddr)

Room == Current # {} /\ Free # {}

(* Mistake: the search stops one place too early. *)
GetNextAvailCount_Early ==
  IF Lowest(Free) = 1 THEN 1 ELSE Lowest(Free) - 1

(* Where there is room, the first free place.                              *)
GetNextAvailCount == Lowest(Free)

(* The flag is never reset: it stays when other addresses are read.        *)
EEPROM_read(a) ==
  /\ pc = "ready"
  /\ addrNotFound' = (addrNotFound \/ ~Written(a))
  /\ UNCHANGED <<flash, pc, packed, call, interrupted>>
----------------------------------------------------------------------------
(* Programming *)

(* Bits are only cleared: what is programmed over erased words stays.      *)
Program(old, new) ==
  IF new = ErasedWord \/ new = old THEN old
  ELSE IF old = ErasedWord THEN new ELSE Garbled

(* The page to pack into: the next one that has not expired.               *)
Following(p, d) == (p + d) % NUM_DATA_EE_PAGES

Unexpired == {d \in 1 .. NUM_DATA_EE_PAGES - 1 :
                ~flash[Following(currentPage, d)].expired}

packedPage == Following(currentPage, Lowest(Unexpired))

(* PackEE up to the first row.  With all pages expired it does nothing.    *)
PackEE ==
  IF Unexpired = {}
  THEN pc' = "ready" /\ UNCHANGED packed
  ELSE /\ pc' = "pack"
       /\ packed' = [page |-> packedPage, addr |-> 0, row |-> 0]

Called(a, v, result) ==
  call' = [addr |-> a, data |-> v, result |-> result]

(* DataEEWrite: a byte that has not changed is not written, provided that  *)
(* no read since the start met an address that was never written.          *)
Unchanged(a, v) == DataEERead(a) = v /\ ~addrNotFound /\ Written(a)

writeNothing(a, v) ==
  /\ pc = "ready"
  /\ Unchanged(a, v)
  /\ Called(a, v, "done")
  /\ UNCHANGED <<flash, pc, packed, addrNotFound, interrupted>>

(* No page is current, or the current one is full. *)
writeRefused(a, v) ==
  /\ pc = "ready"
  /\ ~Unchanged(a, v) /\ ~Room
  /\ Called(a, v, "refused")
  /\ UNCHANGED <<flash, pc, packed, addrNotFound, interrupted>>

(* Mistake: the page is packed when nothing fits any more. *)
LastPlace_Late(k) == k = PAGE_WORDS

LastPlace(k) == k = PAGE_WORDS - 1

writeWord(a, v) ==
  /\ pc = "ready"
  /\ ~Unchanged(a, v) /\ Room
  /\ LET k == GetNextAvailCount
     IN /\ flash' = [flash EXCEPT
             ![currentPage].words[k] = Program(@, [addr |-> a, data |-> v])]
        /\ IF LastPlace(k) THEN PackEE ELSE UNCHANGED <<pc, packed>>
  /\ Called(a, v, "done")
  /\ UNCHANGED <<addrNotFound, interrupted>>

EEPROM_write(a, v) ==
  writeNothing(a, v) \/ writeRefused(a, v) \/ writeWord(a, v)
----------------------------------------------------------------------------
(* PackEE, one row.  The row holds the next addresses that were written;   *)
(* the status word, in the first row, is left erased.                      *)
RowFirst == packed.row * ROW_WORDS + (IF packed.row = 0 THEN 1 ELSE 0)
RowRoom == (packed.row + 1) * ROW_WORDS - RowFirst

Rank(a, S) == Cardinality({b \in S : b < a})

Least(n, S) == {a \in S : Rank(a, S) < n}

RowAddrs == Least(RowRoom, {a \in Addr : a >= packed.addr /\ Written(a)})

(* Mistake: an address is skipped when the row is full. *)
NextAddr_Skip(addrs) ==
  IF Cardinality(addrs) < RowRoom THEN DATA_EE_SIZE ELSE Highest(addrs) + 2

NextAddr(addrs) ==
  IF Cardinality(addrs) < RowRoom THEN DATA_EE_SIZE ELSE Highest(addrs) + 1

packRow ==
  /\ pc = "pack"
  /\ LET addrs == RowAddrs
         At(k) == {a \in addrs : k = RowFirst + Rank(a, addrs)}
         Latch(k) == IF At(k) = {} THEN ErasedWord
                     ELSE [addr |-> Lowest(At(k)),
                           data |-> DataEERead(Lowest(At(k)))]
         next == NextAddr(addrs)
     IN /\ flash' = [flash EXCEPT ![packed.page].words =
                       [k \in Places |-> Program(@[k], Latch(k))]]
        /\ packed' = [packed EXCEPT !.addr = next, !.row = @ + 1]
        /\ pc' = IF next >= DATA_EE_SIZE THEN "mark" ELSE "pack"
  /\ UNCHANGED <<addrNotFound, call, interrupted>>

(* Each word up to the first erased one reads as in the current page.      *)
Verified ==
  LET w == flash[packed.page].words
  IN \A k \in Places :
       (\A j \in 1 .. k : w[j].addr # NoAddr) =>
         w[k].addr \in Addr /\ DataEERead(w[k].addr) = w[k].data

(* The page becomes current by its status word.  The count of rounds goes  *)
(* on in page 0; of it only matters whether it has reached the maximum.    *)
(* From here on packed.page names the page that is to be erased.           *)
packMark ==
  /\ pc = "mark"
  /\ LET old == flash[currentPage]
         last == ERASE_WRITE_CYCLE_MAX - 1
         count == IF packed.page = 0 /\ old.count < last
                  THEN old.count + 1 ELSE old.count
     IN IF Verified
        THEN /\ flash' = [flash EXCEPT
                  ![packed.page].current = TRUE,
                  ![packed.page].count = count,
                  ![packed.page].expired = old.expired \/ count >= last]
             /\ packed' = [packed EXCEPT !.page = currentPage]
             /\ pc' = "erase"
        ELSE pc' = "ready" /\ UNCHANGED <<flash, packed>>
  /\ UNCHANGED <<addrNotFound, call, interrupted>>

(* ErasePage of the page that was current before. *)
packErase ==
  /\ pc = "erase"
  /\ flash' = [flash EXCEPT ![packed.page] = ErasedPage]
  /\ packed' = NoPack
  /\ pc' = "ready"
  /\ UNCHANGED <<addrNotFound, call, interrupted>>
----------------------------------------------------------------------------
(* EEPROM_init at power-up: DataEEInit *)

(* Mistake: the case of the last and the first page is forgotten. *)
secondPage_NoWrap == Following(currentPage, 1)

(* Of two current pages, the second is the younger one. *)
secondPage ==
  IF {0, NUM_DATA_EE_PAGES - 1} \subseteq Current THEN 0
  ELSE Following(currentPage, 1)

initNone ==
  /\ pc = "off" /\ Current = {}
  /\ flash' = [flash EXCEPT ![0] = ErasedPage]
  /\ pc' = "format"
  /\ UNCHANGED <<packed, addrNotFound, call, interrupted>>

initFormat ==
  /\ pc = "format"
  /\ flash' = [flash EXCEPT ![0].current = TRUE, ![0].count = 0,
                            ![0].expired = FALSE]
  /\ pc' = "ready"
  /\ UNCHANGED <<packed, addrNotFound, call, interrupted>>

(* One page: nothing to do.  Three: error 6, nothing is done either.  That *)
(* all pages have expired, error 1, cannot be: only current pages expire,  *)
(* there are at most two of them, and more pages than that.                *)
initReady ==
  /\ pc = "off" /\ Cardinality(Current) \notin {0, 2}
  /\ pc' = "ready"
  /\ UNCHANGED <<flash, packed, addrNotFound, call, interrupted>>

initTwo ==
  /\ pc = "off" /\ Cardinality(Current) = 2
  /\ flash' = [flash EXCEPT ![secondPage] = ErasedPage]
  /\ pc' = "repack"
  /\ UNCHANGED <<packed, addrNotFound, call, interrupted>>

initRepack ==
  /\ pc = "repack"
  /\ IF Room THEN pc' = "ready" /\ UNCHANGED packed ELSE PackEE
  /\ UNCHANGED <<flash, addrNotFound, call, interrupted>>

powerFail ==
  /\ pc # "off"
  /\ pc' = "off"
  /\ packed' = NoPack
  /\ addrNotFound' = FALSE
  /\ interrupted' = (interrupted \/
                    (pc \in {"repack", "pack", "mark"} /\ ~Room))
  /\ UNCHANGED <<flash, call>>

Pack == packRow \/ packMark \/ packErase

Startup == initNone \/ initFormat \/ initReady \/ initTwo \/ initRepack

Next == \/ \E a \in Addr : EEPROM_read(a) \/ \E v \in Values : EEPROM_write(a, v)
        \/ Pack \/ Startup \/ powerFail

Spec == Init /\ [][Next]_vars
----------------------------------------------------------------------------
(* The state is well formed, and PackEE programs no row beyond its page.   *)
TypeOK ==
  /\ flash \in [Pages ->
       [current : BOOLEAN, expired : BOOLEAN,
        count : 0 .. ERASE_WRITE_CYCLE_MAX - 1,
        words : [Places -> [addr : 0 .. NoAddr + 1, data : Values]]]]
  /\ pc \in {"off", "format", "ready", "repack", "pack", "mark", "erase"}
  /\ packed \in [page : Pages, addr : 0 .. DATA_EE_SIZE,
                row : 0 .. PAGE_WORDS \div ROW_WORDS]
  /\ addrNotFound \in BOOLEAN /\ interrupted \in BOOLEAN

(* Whatever is erased, moved or interrupted, an address reads what was     *)
(* last written to it: a power failure at any step loses nothing, brings   *)
(* nothing back, and a refused write leaves no trace.                      *)
Abstract == INSTANCE EEPROM WITH
              memory <- [a \in Addr |-> DataEERead(a)], call <- call

ImplementsEEPROM == Abstract!Spec

(* "one location should always be available" (DEE Emulation 16-bit.c,      *)
(* DataEEWrite): between two calls the current page has a free place, so   *)
(* no write is refused, as long as the power never failed after the last   *)
(* place was programmed and before the new page was marked.  If it did,    *)
(* DataEEInit finds one current page, does nothing, and the page stays     *)
(* full for good.                                                          *)
RoomLeft == pc = "ready" /\ ~interrupted => Room

(* Once DataEEInit has returned, and between two writes, exactly one page  *)
(* is current, and the page that PackEE would take next is erased, unless  *)
(* a pack was interrupted.                                                 *)
OnePageInUse ==
  pc = "ready" =>
    /\ Cardinality(Current) = 1
    /\ interrupted \/ \A p \in Pages \ Current : flash[p] = ErasedPage

(* No word is programmed over another: PackEE does not erase the page it   *)
(* packs into, and an interrupted pack may have left it half full.         *)
NothingGarbled ==
  \A p \in Pages, k \in Places : flash[p].words[k] # Garbled
=============================================================================
