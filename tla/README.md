# Orazio in TLA+

Orazio is a small differential-drive robot: firmware for AVR and dsPIC boards
(`src/src/server`, `src/src/arch`), a packet protocol over a serial line
(`src/src/common`, `src/include`) and a client library with a shell and a web
server on the PC (`src/src/client`). This directory holds TLA+ models of the parts
whose correctness depends on interleaving, loss, limits or order, the TLC runs that
check them, and proofs, checked by TLAPS, about all of them.

`PROJECT.json` lists the components, the runs, the mutants (for every property a
plausible bug that the property catches), the source lines behind each definition,
the hazards of the code and the theorems. Operators named `X_Something` under a
comment "Mistake:" are those bugs; no specification uses them.

## 1. The system

    PC                                             robot
    main thread   runner thread                    main loop            timer interrupt
        | sendPacket   | sync                      driveControl         jointsHandle
        v              v                           commHandle           hBridgeApplyControl
    OrazioClient: write_mutex, read_mutex          watchdog             comm_handle := 1
        |                                              |                     ^
    PacketHandler --- serial line --- UART rings --- PacketHandler           |
                                                   DeferredPacketHandler   encoder interrupt

Time on the robot is cut in *epochs*. Every `comm_cycles` ticks the interrupt raises
`comm_handle`; the main loop then reads all that has arrived, runs the handler of
each packet, sends responses, the periodic status packets and an end-of-epoch packet.

| component | state it keeps | operations | what is hard | what makes it correct |
|---|---|---|---|---|
| UART driver (`arch/*/uart.c`) | a ring per direction, the enable bit of the transmit interrupt | putChar, getChar, two interrupts | main program and interrupts share counters that are as wide as the ring is long | characters keep their order, none is lost, transmission never stalls |
| Packet framing (`packet_handler.c`) | transmit ring, state of the receive automaton | sendPacket, txByte, rxByte | contents look like frame marks, bytes get lost | packets arrive intact; a fault costs few packets and forges none, but of contents that look like frames |
| Deferred packet handler (`deferred_packet_handler.c`) | a ring of buffers per packet type, one list over all types | installPacket, initializeBuffer, onReceive, processPendingPackets | a packet is half received while the list is processed; two structures must agree | a bounded FIFO queue; its asserts hold |
| Communication cycle (`orazio_comm.c`) | parameters, commands, epoch number | commHandle and one handler per type | a transmit buffer too small for the answers, many packets in one epoch | the client can tell from one epoch what was answered and set |
| Main loop (`orazio.c`, `orazio_drive.c`, `orazio_joints.c`) | tick counter, watchdog, drive enable, joint modes | main, onTimerTick, driveControl, disable | the interrupt between any two steps, small counters that wrap | silence stops the motors, and they stay stopped |
| Saved parameters (`orazio_param.c`) | EEPROM: versions and three sets of parameters | init, load, save | power failure, new firmware | what was saved is kept, and fits the firmware that reads it |
| Joint controller and encoder (`orazio_joints_internal.c`, `encoder.c`) | encoder count, controller state | edge interrupt, sample, handle | 16-bit arithmetic, edges at any time, parameters that change meanwhile | the measured speed is real, the output stays in its limits |
| H-bridges (`orazio_hbridge*.c`, `pwm.c`, `digio.c`) | type and pins of each bridge, registers | hBridgeInit, hBridgeApplyControl | the interrupt drives bridges that are being rebuilt on shared pins | the motors obey the first tick after it; no stray pin drives |
| Client library (`orazio_client.c`) | transmit buffer, last packets received, two mutexes | sendPacket (blocking or deferred), sync, get, readConfiguration, setBaseVelocity | two threads, lost and late answers, unfair mutexes | Success means answered, calls return, sync reads an epoch |
| Shell, web server, client test (`orazio_shell*.c`, `orazio_websocket_server.c`, `orazio_client_test.c`) | the packet, the flag, the semaphore and the result of one operation handed to the runner | one command per operation, the runner between two syncs | semaphores made and destroyed per command, a result shared with the refresh of the state | a command ends, its packet is sent once, and it returns its own result |
| EEPROM in flash of the dsPIC (`DEE Emulation 16-bit.c`, `arch/dspic/eeprom.c`) | pages of flash, the current one marked by its status | init, read, write, move to a fresh page | power failure between any two operations of the flash, pages that fill up | a memory that only writes change, with room for the next |
| Kinematics (`orazio_drive_internal.c`) | odometry, velocity profile | update, control | floating point | not modelled |
| other dsPIC drivers (`arch/dspic`) | as the AVR drivers | as above | a receive interrupt that the main program raises itself | not modelled |
| Formatting, serial port, timers, test programs, web pages | none to speak of | output, system calls, registers | | not modelled |

`PROJECT.json` has each of them under "components", with the reason where it is not
modelled, and the hazards, at their lines, under "hazards".

## 2. The modules and the code

Each module begins with what it stands for. Variables keep the names of the source;
variables marked "history" in the declarations exist only for the properties.

* **DeferredPacketHandler**. `infos[t]` is the `DeferredPacketInfo` of a type, `buffers[t]`
  its packets, `pending_packets` the list, `pnum` the loop variable of
  `processPendingPackets`. `installPacket`, `initializeBuffer`, `onReceive` and
  `processOne` are the functions of the file; `rxWholePayload` and `rxChecksumError` are what
  the framing does to a packet whose buffer was granted. A payload in reception is
  `Partial`. The phase `pc` says when the firmware calls what: install at boot, then
  receive and process in turns.
* **PendingQueue** is the abstract specification of it: a bounded queue; a packet is
  handed to its action once, in arrival order, as it came.
* **PacketHandler** works on bytes (sets of bits, so that exclusive or is a symmetric
  difference) from `sendPacket` over the line to `rxByte`. `rx.fn` is the function
  pointer `rxFn` of the source, with one action per value.
* **OrazioComm** is one `commHandle`, step by step, with each handler and all they reach
  in other files. It has no specification of its own: **OrazioEpoch** runs it alone, to ask
  what one epoch tells the client; **OrazioServer** runs it in the main loop, under the timer
  interrupt. Packets are records whose real sizes (`Size`) are what the transmit buffer counts.
* **OrazioServer** adds `main`, one action per step, and `onTimerTick`, possible
  between any two. `output` and `duty` stand for all joints and say only whether they drive.
* **OrazioParam** is a board over its life: boots, refreshes, loads, saves, power failures,
  new firmware. An EEPROM write is an erase and a write, because that is what a failure
  can tell apart; the EEPROM survives, RAM does not.
* **UART**: `putChar` and `getChar` are cut where an interrupt can come; interrupts are one step.
* **OrazioClient**: the calls of the library, cut at each lock, unlock and unprotected access. The robot is
  one action per epoch, in the way OrazioEpoch describes; the line may lose packets. Like OrazioComm it has
  no specification of its own: a call begins with `lockWrite` and ends with `unlockWrite`, and
  what its caller does before and after is for the program to say.
* **OrazioPrograms** says it for three programs, each with a `main` thread and a `runner`. "shell" cuts the handshake
  of `paramFn` and `dumpFn` with `_runnerFn` at each access to the flag, the semaphore and the result: the runner alone
  uses the line, a command leaves it a packet. The web server runs the same two functions. "test" is
  `orazio_client_test.c`, where both threads read from the line, and "base" a user of `setBaseVelocity`. `op_result` says only
  whose result it is; `late` counts the epochs that the runner completes between its post and the end of the command.
* **EEPROM** is what `eeprom.h` promises: a memory of bytes, where a write stores or is refused, and a power failure changes
  nothing. **FlashEEPROM** implements it on pages of flash as the dsPIC driver does: a write programs the next place, a read
  takes the last place with its address, and writing the last place calls `PackEE`, which is `packRow` for each row,
  `packMark` and `packErase`. The operations of the flash, a word, a row or a page, are one step each;
  `powerFail` comes between any two, and the next steps are those of `DataEEInit`. A place programmed twice is `Garbled`.
* **JointController**: one wheel, its decoder and its controller, in integers of `Word` values.
* **HBridge**: the functions of the source that only write are sequences of writes;
  `hBridgeInit` queues them and `InitStep` makes one at a time, a tick of the
  interrupt makes all of its own at once.

`MCx` modules give TLC its constants. `x_proofs` modules hold the proofs.

## 3. The runs

State counts are those of TLC's exhaustive search. Deadlock is checked in all runs
except where said.

| run | instance | distinct states | what it shows |
|---|---|---|---|
| deferred | two types, rings of 2, list of 3 | 40,724 | rings and list agree, both asserts hold, no buffer in use is written, pending packets get processed, refinement of PendingQueue |
| packet | types 1, 4 and 11 of 4, 11 and 4 bytes, ring of 21, 4 of 7 packets, one fault | 3,294,803 | frames whose contents look like frames arrive intact; which packets survive a fault near them, and that nothing is forged from them |
| uart | rings of 4, counters mod 4, at most 3 waiting | 23,366 | order and completeness in both directions, no lost wake-up |
| uart_put | the same, a ring may fill | violation | a full ring counts as empty |
| epoch | real sizes, buffer of 256 bytes, list of 4, two per type | 3,308,298 | answers in order, nothing dropped that fits, the last parameters win unless there are too many, epochs differ |
| server | tick counter mod 3, watchdog mod 4, 2 waiting packets | 274,587 | the watchdog disables after every silence, disabled stays disabled, motors stop, cycles go on |
| server_joint_command | the same | violation | a joint command may be overruled by a drive command that came before it |
| param | three firmwares on two protocols, two values | 4,735,734 | saved parameters come back, and fit |
| programs | shell, client test and base; a robot whose buffer may be full, one lost packet, one epoch late | 1,498,556 | Success means answered, sync reads an epoch, commands get their own answer once and end, blocking calls return |
| flash | 3 pages of 3 rows of 2 words, 2 addresses, 2 bytes, expiry after 2 rounds | 220,321 | a memory under power failures, one page in use, nothing programmed twice, room for the next write |
| joint | integers of two bytes of two bits, two sets of parameters copied byte by byte | 5,955,456 | measured speed is travel, no overflow, outputs within limits |
| hbridge | all three types, two pairs of outputs | 4,635,636 | motors obey after every change of type, no pin left driving |

### Bounds, and why they are enough

* *deferred*: two buffers per type is the value of the firmware (`PBUFNO`) and the
  maximum of the header (`PACKETS_PER_TYPE_MAX`). Two types and a list of three let the list
  fill before the rings do, as 6 types and 8 places do on the robot, and let a packet of
  one type be received while the other's ring wraps. Larger instances are covered by the proofs.
* *packet*: every size is a type too, as 6 and 4 are on the robot (`ParamControl` has 6 bytes and `JointParam` is type 6:
  without its type, a `ParamControl` whose number has the low byte 36 begins like a `JointParam`, and the receiver takes the
  36 bytes from there; for the client, an end of epoch has 4 bytes and `JointStatus` is type 4). So a lost or inserted byte
  can make a header out of a size and the byte behind it, and the receiver take a long packet where a short one was sent,
  which happens in this run. `Harmless` says when it cannot: no `AA` in the packet or as its checksum, no valid header in its
  second and third byte, none of a longer packet that ends with its first. Two of the seven packets are harmless. Each of the
  others breaks one of the conditions and, if the condition is dropped, one of the properties: one goes on like a long packet
  when its type is lost, one begins like one when a type appears, one has the checksum `AA`, one is full of marks, one holds
  a whole short frame. `NothingForged` asks for harmless packets only where the receiver has lost its place. It leaves out
  the inserted byte, which can join the checksum of one frame and the contents of the next into a packet nobody sent, an
  exclusive-or being what it is; `Resynchronises` includes it. Of harmless packets, the one that was struck is missing, and
  after a lost byte the one behind it, whose first byte was taken for a checksum; all the others arrive, in order, before and
  after. A ring of 21 holds the longest frame and a short one, so that frames wrap at every offset and are refused for lack
  of room. "contents" is also what happens when the interrupt updates a status packet between the two reads of a byte in
  `sendPacket` (`packet_handler.c:173-174`). CHECK_DEADLOCK is FALSE because the number of packets sent is bounded: when all
  have arrived, nothing more need happen.
* *uart*: 4 stands for the 256 of ring and `uint8_t`; what matters is that ring size and
  counter range are equal and that the ring wraps. `MaxWaiting = 3` is the assumption under which
  the driver is right, that at most 255 characters wait. `CharMod` tells more characters
  apart than a ring holds.
* *epoch*: the client may send more than the robot accepts: a third packet of a type or a fifth of all is refused (`heard` against
  `asked`). Sizes are the real ones, so "fits in 256 bytes" is what it is on the robot. Four
  parameter packets and all status packets overflow the buffer; fewer do not. A packet type
  `Noise` of *server* stands for bytes that are rejected, including a frame cut in two
  by the end of `flushInputBuffers`, whose first part is read in one cycle and whose rest in the next.
* *server*: the counters wrap within a few ticks (`TickMod`, `CountMod` for 2^8 and 2^16);
  `watchdog_cycles` is switched on, off and changed while it counts, and `comm_cycles` is set
  to 0. `RxMod > UartMax`: fewer packets than 2^16 arrive in one cycle, so a count that did
  not change means that none came. `BUFFER_SIZE_MAX = 0` keeps the answers, which *epoch* is about,
  out of the state. Packets arrive just before `flushInputBuffers`
  looks at the UART, which loses nothing: it reads until there is none, and nobody else looks.
* *param*: an update within a protocol and one across are the two cases `paramInit` distinguishes
  or fails to; two values tell defaults from what was saved.
* *programs*: `Timeout = 2` packets lets a call fail before and after its answer is sent; `SeqRange = 4` wraps. `Calm` bounds
  how far a program outruns the line: with 2^16 numbers no number comes round while its first user is unanswered, with 4 the
  guard says so. `Success` is judged by a history mark on the packet (`mine`), not by the numbers that the code compares.
  `MaxLate = 1` lets the runner complete one epoch while a command that has its post is still on its way out: enough for
  every effect of the race (section 6), which one more epoch only repeats. With `DumpCycles = 1` a dump waits once and later
  posts are superfluous. The robot's buffer has 3 units (`RobotMax`), an answer and the end of an epoch take one each and the
  status two: with no answer all fits, one answer leaves room for the status and none for the end, two for the end and none
  for the status, as answers and copies of parameters may on the robot; the other packets of an epoch only take room and are
  left out. Whether the mask asks for a status is open in every epoch (`StatusFlag`) until a packet is lost, after which
  `SyncReadsWholeEpoch` asks nothing. The robot starts an epoch when the line has room for two packets more (`LineMax`).
  `SyncReadsWholeEpoch` leaves out lost packets, since a lost end of an epoch merges two epochs for any reader, and the
  client test, whose main thread reads packets too.
* *flash*: three pages are the least for which the circle has a middle, so that the two orders of two current pages
  (neighbours, last and first) both occur; pages expire in the second round, and the search for an unexpired page goes on.
  Three rows of two words make a row that is left full, one that is padded and one that is not reached; two addresses on five
  places let a page hold more copies of an address than there are addresses, which is what makes a move possible at all
  (`PAGE_WORDS > DATA_EE_SIZE + 1`). 255 is the byte that looks like an erased one.
* *joint*: two bytes of two bits instead of two of eight. A tick may come between any two bytes of a copy (`memcpy` of a packet, `EEPROM_read`), and copies may
  follow each other at any stage, so the parameters may be any mixture of bytes (`Mixtures`): half copied, the gains 1 and -1 of the
  run are 3 or -3. Copying in any order covers what compilers and both EEPROMs do. The wheel turns at most `MaxTurn` edges between two ticks, less than a
  quarter of the range (on the robot: 16,384 edges per tick), and the edge interrupt is faster than
  the wheel. The limits are nonnegative; `NoOverflow` also needs gains small enough for
  the sum (`GainsLeaveRoom`, of every mixture after every other), which the parameters of the run have. The two sets leave traces for each other.
* *hbridge*: outputs are odd, even and beyond the 8 bits of the PWM, of both signs. The two bridges share
  no pin with each other within a type, so two pairs are enough; -32768 is excluded, its absolute value
  does not exist in 16 bits. `BootTypes` excludes the types that do not exist (a hazard in
  `PROJECT.json`: an EEPROM that names one leaves the bridges without operations).

### Fairness

Safety needs none. For liveness:

* *deferred*: the main loop ends its set-up and runs `processPendingPackets` to the end. It does nothing else.
* *uart*: the processor goes on with `putChar` and `getChar` once it has entered them, and an enabled
  transmit interrupt is served. Nothing is assumed of who calls or what arrives.
* *server*: `main` goes on and the timer ticks (hardware). Nothing is assumed of the client.
* *programs*: each thread, the one that called or gave a command and the runner, goes on at last when it can, weakly: a mutex may be given to the other thread
  over and over. No command need be given. The robot goes on with its epochs. The code needs this: `_readPacket` blocks,
  and its timeout counts packets and not time (`orazio_client.c:83`): `orazio_client.h:19` says "waits for timeout packets".

## 4. What the properties say

One type invariant per module (a theorem states it for every value of the constants; a run checks it where
it bounds more than types, as the integral of the controller or the mutexes of the clients), then what several steps or several actors could break:

* `RingsMatchPending`, `AssertsHold` (both asserts of the source), `PendingComplete`,
  `PendingIsProcessed`, `ImplementsPendingQueue` (*deferred*);
* `ArriveIntact`, `NothingForged`, `Resynchronises` (*packet*). The last one compares what is received with what was sent before and after
  the packet that was struck (`struck`), and does not mind what the receiver makes of that one;
* `TxKeepsOrder`, `RxKeepsOrder`, `TxGoesOn` (*uart*);
* `AnswersInOrder`, `NoSpuriousDrop`, `LastParamsWin`, `EpochsDiffer` (*epoch*). The first two together are
  what remains true although every caller of `sendPacket` ignores its result. `LastParamsWin` is about what was accepted, and says when that is all that
  the client sent: with more than `PBUFNO` of a type in one cycle the first ones win, and their sender gets no answer;
* `SilenceDisables`, `DisabledStaysDisabled`, `SilenceStopsMotors`, `CyclesGoOn` (*server*). The first counts
  silent cycles by a history variable and not by the counter of the code;
* `SavedIsKept`, `LayoutMatches` (*param*), both except for sets of parameters that a power failure
  damaged (`damaged`). The first is an action property: whatever is loaded, at boot or on request, is what the client saved last (`saved`), after any
  restarts and updates; only a refresh for another protocol, or for an EEPROM without a version, may put the defaults in its place;
* `SuccessMeansAnswered`, `BlockingReturns`, `SyncReadsWholeEpoch`, `CommandGetsItsAnswer`, `PostsReachSemaphores`,
  `CommandsEnd` (*programs*). `SyncReadsWholeEpoch` asks for the status of the epoch whose end sync read, if the robot sent it one (`end_status`):
  its mask may leave it out, and answers may take its room (section 6). Where the code has a race, the property states how far the handshake holds: `late = 0`;
* `ImplementsEEPROM`, `RoomLeft`, `OnePageInUse`, `NothingGarbled` (*flash*). A pack that was cut short is the one exception (`interrupted`);
* `SpeedIsTravel`, `NoOverflow`, `OutputInRange` (*joint*), with parameters that a tick may find half copied;
* `MotorsObey`, `PinsMatchBridges` (*hbridge*). A write to the register of a port is one step although the code reads
  and writes it: a level lost in between is written again by the next tick, and `MotorsObey`
  speaks of the ticks after `hBridgeInit` has returned. It says that the pulse of full speed which `PWM_enable`
  causes by clearing the compare register ends with that tick, not that there is none.

## 5. What is proved

Eight modules of proofs, 15,589 obligations, for every value of the constants that the named assumptions allow. The assumptions
are those of the modules, and TLC evaluates them in the runs of these modules:

| assumption | what it says |
|---|---|
| `PacketConstants` (PacketHandler) | the ring has a place, packets and noise are bytes, the types are below 16 and sizes from 4 to 254, each packet begins with its type and its size |
| `NumBuffersAssumption`, `PendingAssumption`, `PartialAssumption` (DeferredPacketHandler) | each type has a buffer, the list has places, `Partial` is no payload |
| `CommConstants`, `CounterConstants`, `SystemRange` (OrazioComm, OrazioServer) | sizes and moduli are natural numbers, moduli positive, parameters and packets carry values of their C types |
| `CycleBound` (OrazioServer) | fewer than 2^16 packets arrive in one cycle |
| `EpochConstants` (OrazioEpoch) | there is more than one sequence number |
| `JointConstants` (JointController) | an integer is two bytes, a byte has an even number of values; the divisor of the gains positive, limits are natural numbers, the wheel turns less than `Word / 4` edges between ticks |
| `BridgeConstants` (HBridge) | outputs are integers of 16 bits without the least, boots are of types that exist |
| `UARTConstants` (UART) | a ring is no longer than its counter counts, `CharMod` tells all characters in a ring apart |
| `FlashConstants` (FlashEEPROM) | three pages at least, whole rows of two words at least, more places on a page than addresses |
| `ParamConstants` (OrazioParam) | protocol versions are not 0, which stands for an empty EEPROM |
| `ClientConstants`, `ProgramConstants` (OrazioClient, OrazioPrograms) | sizes and moduli are natural numbers, an answer takes room; more sequence numbers than a late command can use up (`SeqRange > MaxLate + 2`) |

Four theorems have a hypothesis more, which the code does not guarantee: `TxCounts` and `RxCounts` of UART (a ring of 256 is
filled to 255 at most, section 6) and `GainsLeaveRoom` of JointController. The default parameters (`orazio_globals.c:31-40`)
leave that room at every speed of the wheel that `JointConstants` allows: their gains sum up to 10,710 and the rest to less
than 17,000. A client may set others; then the bound is about all mixtures of their bytes with those before, which is how it
is stated.

**PacketHandlers_proofs**, of DeferredPacketHandler

| theorem | statement |
|---|---|
| `Invariance` | `Spec => []IInv` |
| `TypeCorrect`, `ListMatchesRings`, `PendingIntact` | `[]TypeOK`, `[]RingsMatchPending`, `[]PendingComplete` |
| `AssertionsHold` | the two asserts of the code never fail |
| `Refinement` | `Spec => ImplementsPendingQueue` |

None of the invariants is inductive alone. A ring only counts: that the buffer at its
start is the next of its type in the list needs that waiting packets occupy exactly the occupied part of the ring
(`WaitingOccupied`, `OccupiedWaiting`), in list order (`WaitingOrdered`). `Rank`, the distance
from the start of the ring, turns this into arithmetic: `BUFFER_PUT` gives the new packet the rank `size`, `BUFFER_GET`
lowers every rank by one, and ranks are injective. `IInv` adds what the phases and the receiver keep: a packet
in reception sits at the end of a ring that has room. Each action has a lemma; the refinement shows that
`onReceive` is `Receive` or a stutter, `processOne` is `Hand` and all else stutters.

The same module, of PacketHandler

| theorem | statement |
|---|---|
| `LineInvariance` | `LineSpec => []LineInv` |
| `LineTypeCorrect` | `[]LineTypeOK`, whatever goes wrong on the line |
| `PacketsArrive` | `[]ArriveIntact`: on a line without a fault what is received is what was sent, in order |

The receiver is right because it stands at the first byte that the ring will hand out, inside the frame of the next packet to be
received. `Layout` says where in the ring the frames of the packets on their way start, one where the one before ends, from the
byte that leaves next to the end of the ring's contents; the first may have begun already. `Reads` says for each place in a frame which
function of the automaton waits there and what it has kept: type, packet so far, bytes to come, checksum so far. Since every frame begins with
`AA 55` and the receiver reaches `rxAA` exactly at the end of a frame, contents that look like marks are never looked at. A frame that `sendPacket`
writes goes behind the others and overwrites none, as it is refused for lack of room. The checksums of both ends are the same recursive
function of the bytes (`Running`); that the function exists, and is a byte everywhere, is shown by the least number at which it would fail.
After a fault only the shape is left (`LineShape`).

**Motors_proofs**, of JointController

| theorem | statement |
|---|---|
| `TypeCorrect` | `[]TypeOK`: 16 bits, and an integral within the largest limit |
| `OutputsInRange` | `OutputInRange`, also when the sum before the clamp has overflowed |
| `SpeedMeasured` | `[]SpeedIsTravel` |
| `NoOverflowAlways` | `[]NoOverflow`, for parameters that leave room (`GainsLeaveRoom`) |

`SpeedIsTravel` compares a 16-bit difference of two counts with a distance. The invariant behind it (`IInv`) relates
encoder and wheel modulo `Word`: the decoder is within one edge of the wheel (`Adjacent`), it knows the
phase it last saw (`InStep`), its count moves with what it saw since the last sample (`CountIsTravel`), the
sample and the status before it differ by the travel between them (`SampleIsTravel`, `SampleHandled`). Congruent numbers
that both lie within 16 bits are equal, which turns the congruence into `SpeedIsTravel`.

`NoOverflow` must hold of the first sample too, when the decoder has not seen the wheel yet and compares the first edge with pins it
never read: its count may be two edges off. `Room` therefore adds to `IInv` how far wheel, decoder and count can be
from the last sample (`Near`, `Untouched`, `CountNear`), hence the bound `MaxTurn + 3` of a speed (`SpeedNear`), and that the
last error was within the slope of its time (`ErrorLeft`). A step of `copyParam` takes one byte from the parameters of a client; that what comes of it is
again a mixture (`MixStep`) rests on an integer being determined by its two bytes (`BytesParts`, `BytesWhole`), and that limits stay nonnegative
on their sign being in the high byte (`BytesLimits`). Products and quotients of bounded numbers are bounded; the rest is linear.

The same module, of HBridge

| theorem | statement |
|---|---|
| `BridgeTypeCorrect` | `[]BridgeTypeOK` |
| `MotorsAlwaysObey` | `[]MotorsObey` |
| `PinsAlwaysMatch` | `[]PinsMatchBridges` |

`hBridgeInit` is cut off by ticks of the interrupt, which write to the same pins through whatever operations the bridge has at that moment.
`BridgeInv` therefore speaks of the writes still to be made: field by field, the last of them that touches it leaves it as the new type
wants it, or none touches it and it is so already. A tick writes duty cycles and values, never PWM or direction of a pin, and the next tick
writes them again; the one level that must stay, that of the second pin of a half-cycle bridge, is written after the operations, from where
on no tick touches it (`ValueDue`). The two motors share no pin (`Wires`), so each is followed alone.

**OrazioServer_proofs**

| theorem | statement |
|---|---|
| `Invariance` | `Spec => []IInv` |
| `TypeCorrect` | `[]TypeOK` |
| `WatchdogStops` | `[]SilenceDisables` |
| `StaysDisabled` | `[]DisabledStaysDisabled` |

The watchdog compares two counters of packets, one of them from the cycle before; the properties speak of silence and of
commands obeyed. `IInv` ties them: within a cycle `rx_packets` is ahead of `rx_packets_before` by the packets counted so far,
modulo `RxMod`, and pending packets have been counted (`CycleOK`). So equal counters mean a quiet cycle, in which no handler
ran. In quiet cycles `watchdog_count` is `watchdog_cycles - silent` until it reaches zero, and from then on the last command
is "stop" (`WatchOK`): a changed `watchdog_cycles` comes in a packet, which resets both. A drive command is new only in the
cycle that brought it (`DriveOK`), so none is left to enable the drive after the watchdog has disabled it, also between
`jointsDisable` and `driveDisable`, where the joints are at rest and the drive is still enabled (`StopOK`). `CycleBound` is
needed: after exactly 2^16 packets in one cycle the counters are equal and the watchdog counts down with the client talking.

**OrazioEpoch_proofs**

| theorem | statement |
|---|---|
| `Invariance`, `TypeCorrect` | `[]IInv`, `[]TypeOK` |
| `AnswersInOrderAlways`, `NoSpuriousDropAlways` | `[]AnswersInOrder`, `[]NoSpuriousDrop` |
| `LastParamsWinAlways`, `EpochsDifferAlways` | `[]LastParamsWin`, `[]EpochsDiffer` |

The properties look at finished epochs. `IInv` says the same of the epoch under way, about the packets handled so far, which
are those that are no longer pending (`Remaining`): the answers in the transmit buffer belong to some of them, in order, and
as long as everything fits, to all of them, and they take no more room than `Demand` says (`Answering`); the parameters are
what they asked for last (`Setting`). What each handler appends is followed through the buffer one packet at a time. `Demand`
is a recursive function of the number of packets: that it grows with it is shown by the least counterexample, since sets of
numbers are well founded. That all packets within the limits are accepted (`Hearing`) needs that the list is empty when a
cycle begins, and that the rings count what is in it.

**OrazioPrograms_proofs**

| theorem | statement |
|---|---|
| `TypeCorrect` | `[]TypeOK`: who sends or reads holds its mutex, and nobody else does |
| `SuccessMeansAnsweredAlways` | `[]SuccessMeansAnswered` |
| `SyncReadsWholeEpochAlways` | `[]SyncReadsWholeEpoch` |
| `CommandGetsItsAnswerAlways`, `PostsReachSemaphoresAlways` | `[]CommandGetsItsAnswer`, `[]PostsReachSemaphores` |

All rest on `Shape`: each mutex and each flag of the shell is a function of where the two threads are. `SuccessMeansAnswered`
compares marks, the code compares numbers that wrap. `Window` puts all packets in order of their age, from the transmit
buffer over the line to the last answer read, and bounds the oldest age and what is still to be sent by `SeqRange`: so the
awaited number is on no other packet, and an answer that carries it is the right one (`Claims`). That a program does not
outrun its line by 2^16 packets is a guard of the model (`Calm`), as in the run. For sync, the status of an epoch, if it has
one, is the packet before its end on a line that loses nothing, so the end that is read belongs to the status read before it
(`Whole`, `Synced`). For the commands, `Answering` says at each place of the handshake how often the packet has been sent and
whose result it is, as long as `late = 0`.

**FlashEEPROM_proofs**

| theorem | statement |
|---|---|
| `Invariance`, `TypeCorrect` | `[]IInv`, `[]TypeOK` |
| `NothingGarbledAlways`, `OnePageInUseAlways`, `RoomLeftAlways` | `[]NothingGarbled`, `[]OnePageInUse`, `[]RoomLeft` |
| `Refinement` | `Spec => ImplementsEEPROM` |

`IInv` distinguishes how many pages are current. None: a new chip. One (`OneInUse`): the driver runs, is `Stuck` after the
power failure of section 6, is about to pack, or packs; then the next page holds a copy of what a read finds, up to the
address under way (`CopyOf`), with full rows below the next one (`RowsFull`). Two (`TwoInUse`): the copy is complete and the
old page waits to be erased. A read takes the last place with its address, so a complete copy answers every read like its
original, and marking and erasing are stutters of EEPROM; programming a word is its `write`. More places than addresses leave
the copy room for one more.

**UART_proofs**

| theorem | statement |
|---|---|
| `TypeCorrect` | `[]TypeOK` |
| `TxKeepsOrderAlways` | `[]TxKeepsOrder`, if the ring is smaller than the range of its counter or never filled to it (`TxCounts`) |
| `RxKeepsOrderAlways` | `[]RxKeepsOrder`, if no more wait than the ring has places and the counter can count (`RxCounts`) |
| `SentInOrder` | every step sends the successor of the last character, or nothing |

The end of a ring is its start plus its size, and between the check of `putChar` and its store an interrupt only makes room (`TxInv`, `RxInv`). Both hypotheses
are needed: without the first, run *uart_put* finds the loss.

**OrazioParam_proofs**

| theorem | statement |
|---|---|
| `Invariance`, `TypeCorrect` | `[]IInv`, types and places in the boot |
| `SavedIsKeptAlways`, `LayoutMatchesAlways` | `[]SavedIsKept`, `[]LayoutMatches` |

A boot rewrites the stored version first and the parameters after it. `IInv` says at each of these writes which parameters in the EEPROM suit the
version beside them, but for `damaged` ones (`EepromSuits`), and that those in RAM suit the firmware (`RamSuits`). Where the client's parameters are at each
moment is `SavedSuits`: in the EEPROM, or, once a refresh has begun, nowhere, and the defaults that replace them in RAM and on their way. A power failure
in the first write of a refresh leaves no version; the next boot then refreshes, and what it loads are defaults.

**Model-checked only.**

* Liveness (`PendingIsProcessed`, `TxGoesOn`, `CyclesGoOn`, `SilenceStopsMotors`, `BlockingReturns`, `CommandsEnd`) is
  out of the prover's reach.
* `NothingForged` and `Resynchronises` of PacketHandler. That `Harmless` packets are enough is checked for those of the run,
  and TLC shows that none of its conditions can be dropped.

## 6. Where the code and its documents disagree

With a run (in "findings"):

* `uart.h:10-12` says that `putChar` waits for room. The size of a ring of 256 is a `uint8_t`
  (`uart.c:101`), so the character that fills the ring makes it look empty (run *uart_put*).
* `orazio_drive.h:13-14` says that disabling the drive "allows direct joint control". A drive command that
  arrived in the same cycle before the joint command is still new to `driveControl` by its sequence number
  (`orazio_drive.c:37`), which enables the drive again and overwrites the joints (run *server_joint_command*).

Noted while modelling, without a run:

* `orazio_packets.h:190`: the end of an epoch is always sent. It is dropped when the transmit
  buffer is full, like any packet; so is the copy of a parameter packet before its
  response `Success` (`orazio_comm.c:68-86`).
* `orazio_client.h:27-31`: sync "reads all packets of an epoch". The status packets of an epoch are those the mask asks for, and of these what the answers
  leave room for (`orazio_comm.c:225-231`); when the end is dropped too, sync reads on into the next epoch.
* `orazio_packets.h:80-81`: parameter packets carry the number of the request. They carry the robot's.
* `orazio_param.c:20-36`: the firmware version is read from the EEPROM and never compared.
* `orazio_param.h:5-6` against `orazio_param.c:37`: after a power failure between the version and the parameters,
  the next boot loads what the old protocol left. `LayoutMatches` excepts such parameters.
* `orazio_client.c:229` against `:33`: a deferred velocity stops being sent when its 16-bit number wraps to 0,
  since the number is the flag that says there is one.
* `orazio_client.h:27-31` against `orazio_client.c:230-237`: sync queues the drive packet after the flush, so it leaves
  one cycle late; and with a blocking call in another thread it does not read one whole epoch.
* `orazio_shell_globals.h:24`: `op_result` is the "result of the last packet operation". `refreshState`
  (`orazio_shell_globals.c:219`) puts the success of its copies there, so a command whose packet timed out reports success when the
  runner completes the next epoch before the command has returned.
* `orazio_shell.c:22-26`: in the same case the runner finds `param_sem_init` still set and issues the operation again; its post
  goes to a semaphore that was destroyed, or to that of the next command, which then returns before its own operation was sent.
  Also, a next command may write `param_control` while the runner still sends it; this the model leaves out.
* `DEE Emulation 16-bit.c:743-744` says that "one location should always be available". If the power fails when the last place has been
  programmed and the new page is not yet marked, `DataEEInit` finds one current page, does nothing, and
  every later write is refused, also after further restarts. `EEPROM_write` (`arch/dspic/eeprom.c:29`) ignores that.
* `DEE Emulation 16-bit.c:741-742`: "if the data was not changed, the function exits". `addrNotFound` is never
  reset once a read has met an address that was never written, so unchanged bytes are written again until the next restart.
* `DEE Emulation 16-bit.c:284`: `PackEE` "finds the active page and an unexpired packed page". A page that was marked expired is
  erased when the next page takes over, and its mark with it: no page is ever passed over for having expired.
* `arch/dspic/uart.c:164`: `getChar` raises the receive interrupt itself, for each character: the handler then stores what
  it reads from the hardware although nothing has come, and `flushInputBuffers`, which reads until the ring is empty, may go on for ever.
* `orazio_packets.h:44-48`: gains are "*256", the code divides by 32; and the output of `JointPWM` is not clamped.

## 7. Not modelled, and the plan

Not modelled:

* the floating point of `orazio_drive_internal.c`: its effect on joint modes is in OrazioServer, the speeds it asks for are
  left open in JointController;
* the UART and the encoder of the dsPIC: what the hardware of the chip holds when the code reads it without need decides
  what happens, and the code does not say;
* the web server's table of connections, which one thread uses alone, and its HTML; formatting, completion, system calls, timers, pins;
* the versions that `paramInit` copies into `system_params` (`orazio_param.c:47-49`), which the client only reads; joint and drive
  status on the client's line, which only take room;
* operations of the flash that fail halfway: erasing a page or programming a word or a row is atomic in FlashEEPROM, and the
  checks after programming (`DEE Emulation 16-bit.c:825-851`) never fail.

What one module leaves open, another says: OrazioServer does not know of the pulse of `hBridgeInit`, HBridge does;
OrazioServer's controllers may output anything in a mode that drives, JointController says what; a client of OrazioServer sends
what it likes, OrazioPrograms says what it sends; OrazioParam's EEPROM is one on which an interrupted write
damages the byte being written and none is refused. FlashEEPROM keeps the byte, but may refuse: after an interrupted pack (section 6) a save on
the dsPIC does nothing, and the parameters saved before it come back.

The order of the work, most important behaviour first:

1. *(done)* DeferredPacketHandler with PendingQueue; OrazioComm, OrazioServer, OrazioEpoch; UART; PacketHandler;
   OrazioParam; OrazioClient; JointController; HBridge. Proofs of the first, of the controller and of the watchdog.
2. *(done)* OrazioPrograms: the threads of shell, web server and client test over OrazioClient. FlashEEPROM, which implements EEPROM.
3. *(done)* Proofs of UART for all sizes, of FlashEEPROM and its refinement of EEPROM, of OrazioPrograms (mutual exclusion,
   `SuccessMeansAnswered`, sync and commands), of OrazioParam, of OrazioEpoch, `NoOverflow` of the controller, of HBridge, and of
   PacketHandler on a line without faults.
4. *Left.* The proofs of OrazioComm's steps shared between OrazioEpoch_proofs and OrazioServer_proofs; a proof
   that `Harmless` packets, of any types and sizes, survive a fault as `NothingForged` and `Resynchronises` say.

## 8. Running

    tlc -config MCUART.cfg MCUART
    tlc -config MCUART_PutWaitsForRoom.cfg MCUART      # ends with the violation
    for m in *_proofs.tla; do tlapm $m; done

With two workers programs takes about three minutes, packet and joint two, the others one at most.
