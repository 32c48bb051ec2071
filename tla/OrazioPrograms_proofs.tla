------------------------ MODULE OrazioPrograms_proofs ------------------------
(***************************************************************************)
(* The client library and the programs that use it, for all sizes of the   *)
(* buffers, lines and counters: its locks, whose answer a blocking call    *)
(* returns, that sync reads whole epochs, and that the commands of the     *)
(* shell are answered by the runner.                                       *)
(***************************************************************************)
EXTENDS OrazioPrograms, TLAPS

(* What the variables may be. *)
Numbers == 0 .. SeqRange - 1
Epochs == 0 .. EpochRange - 1
Threads == {"main", "runner"}
OutTypes == {"ParamControl", "JointControl", "DriveControl"}

OutSet == [type : OutTypes, seq : Numbers, mine : BOOLEAN]

RespSet == [type : {"Response"}, p_type : OutTypes \cup {"none"},
            p_seq : Numbers, mine : BOOLEAN]
OwnSet == [type : {"SystemStatus", "EndEpoch"}, p_type : {"none"},
           p_seq : Epochs, mine : BOOLEAN, with_status : BOOLEAN]
InSet == RespSet \cup OwnSet

CallSet == [pc : {"idle", "lockRead", "send", "await", "unlockRead",
                  "unlockWrite"},
            by : Threads, awaited : Numbers, timeout : 0 .. Timeout,
            result : {"none", "TxBufferFull", "Timeout", "Success"}]

SyncPcs == {"sync", "drive", "pack", "note", "lockRead", "read", "check"}
ShellPcs == {"state", "postState", "param", "op", "called", "post"}
RunnerSet == [pc : SyncPcs \cup ShellPcs \cup {"return", "drives", "while", "ended"},
              current_seq : Epochs]

ParamPcs == {"semInit", "flag", "wait", "unflag", "destroy", "result"}
DumpPcs == {"dumpFlag", "dump", "dumpDestroy"}
MainSet == [pc : {"idle", "query", "called", "join", "ended"}
                 \cup ParamPcs \cup DumpPcs,
            left : Nat]

SemSet == [value : Nat, alive : BOOLEAN]

CallTypes ==
  /\ call \in CallSet /\ runner \in RunnerSet
  /\ call.pc = "await" => call.timeout > 0

LineTypes ==
  /\ global_seq \in Numbers /\ drive \in Numbers
  /\ tx \in Seq(OutSet) /\ to_robot \in Seq(OutSet)
  /\ from_robot \in Seq(InSet) /\ response \in RespSet
  /\ status \in Epochs /\ end_epoch \in Epochs /\ robot_seq \in Epochs
  /\ end_status \in BOOLEAN
  /\ Len(tx) <= TxMax
  /\ lost \in 0 .. MaxLost

ClientTypes == CallTypes /\ LineTypes

ProgramTypes ==
  /\ program \in AllPrograms /\ main \in MainSet
  /\ run \in BOOLEAN
  /\ state_sem \in SemSet /\ param_sem \in SemSet
  /\ state_sem_init \in BOOLEAN /\ param_sem_init \in BOOLEAN
  /\ late \in 0 .. MaxLate /\ sent \in Nat

(* Who holds the mutexes, and that nobody else is where they are needed. *)
Locks ==
  /\ write_mutex =
       IF call.pc # "idle" THEN call.by
       ELSE IF runner.pc \in {"drive", "pack"} THEN "runner" ELSE "free"
  /\ read_mutex =
       IF call.pc \in {"send", "await", "unlockRead"} THEN call.by
       ELSE IF runner.pc = "read" THEN "runner" ELSE "free"
  /\ call.pc # "idle" => runner.pc \notin {"drive", "pack"}
  /\ call.pc \in {"send", "await", "unlockRead"} => runner.pc # "read"

(* The blocking call is that of the thread that has called. *)
Callers ==
  /\ main.pc = "called" <=> call.pc # "idle" /\ call.by = "main"
  /\ runner.pc = "called" <=> call.pc # "idle" /\ call.by = "runner"

(* Each program has its own steps. *)
Parts ==
  /\ program = "shell" => /\ main.pc \notin {"query", "called"}
                          /\ runner.pc # "drives"
  /\ program # "shell" => /\ runner.pc \notin ShellPcs
                          /\ main.pc \in {"idle", "query", "called"}
  /\ program = "base" => main.pc = "idle" /\ runner.pc # "drives"
  /\ drive # 0 \/ runner.pc = "pack" => program = "base"

(* Flags and semaphores by the progress of the command. *)
Flags ==
  /\ param_sem_init <=> main.pc \in {"wait", "unflag"}
  /\ param_sem.alive <=> main.pc \in {"flag", "wait", "unflag", "destroy"}
  /\ state_sem_init <=> main.pc = "dump"
  /\ state_sem.alive <=> main.pc \in {"dumpFlag", "dump", "dumpDestroy"}

Shape == ClientTypes /\ ProgramTypes /\ Locks /\ Callers /\ Parts /\ Flags
----------------------------------------------------------------------------
(* How many numbers before g was x given to a packet. *)
Age(g, x) == IF x <= g THEN g - x ELSE (g + SeqRange) - x

Numbered(p) == p.type \notin {"SystemStatus", "EndEpoch"}

Number(p) == IF p.type = "Response" THEN p.p_seq ELSE p.seq

(* No packet of s is older than the response with the number r; the older  *)
(* packets of s come first; and no packet of t is older than one of s.     *)
Since(g, r, s) ==
  \A i \in DOMAIN s : Numbered(s[i]) => Age(g, Number(s[i])) <= Age(g, r)

Ordered(g, s) ==
  \A i, j \in DOMAIN s :
    i < j /\ Numbered(s[i]) /\ Numbered(s[j])
      => Age(g, Number(s[j])) <= Age(g, Number(s[i]))

Before(g, s, t) ==
  \A i \in DOMAIN s, j \in DOMAIN t :
    Numbered(s[i]) /\ Numbered(t[j])
      => Age(g, Number(t[j])) <= Age(g, Number(s[i]))

(* Packets travel in the order of their numbers, from the transmit buffer  *)
(* to the robot and from there to the client.                              *)
InOrder(g, r, in, out, buffer) ==
  /\ Since(g, r, in) /\ Since(g, r, out) /\ Since(g, r, buffer)
  /\ Ordered(g, in) /\ Ordered(g, out) /\ Ordered(g, buffer)
  /\ Before(g, in, out) /\ Before(g, in, buffer) /\ Before(g, out, buffer)

Busying == {"op", "called", "post"}

(* The packets that may still be sent before the next one is answered: the *)
(* one of the call under way, and those that the runner makes for the      *)
(* command of the main thread.                                             *)
CallToSend ==
  IF runner.pc = "op" \/ call.pc \in {"lockRead", "send"} THEN 1 ELSE 0

Returned == IF runner.pc \in {"return", "state", "postState", "param"} THEN 1 ELSE 0

CommandToSend ==
  CASE main.pc \in {"semInit", "flag"} -> (MaxLate - late) + 1
    [] main.pc = "wait" /\ param_sem.value = 0 ->
         (MaxLate - late) + IF runner.pc \in Busying THEN 0 ELSE 1
    [] main.pc = "wait" /\ param_sem.value > 0 -> (MaxLate - late) + Returned
    [] main.pc = "unflag" -> (MaxLate - late) + Returned
    [] OTHER -> 0

ToSend == CallToSend + CommandToSend

(* Of the numbers that are on their way, none has been given twice, and    *)
(* none will be by what may still be sent.                                 *)
Window ==
  program # "base" =>
    /\ InOrder(global_seq, response.p_seq, from_robot, to_robot, tx)
    /\ Age(global_seq, response.p_seq) + ToSend < SeqRange

(* During a call, what has its number is its packet. *)
Claimed(p) ==
  p.type = "ParamControl" /\ p.seq = call.awaited => p.mine

ClaimedReply(p) ==
  p.type = "Response" /\ p.p_type = "ParamControl" /\ p.p_seq = call.awaited
    => p.mine

Claims ==
  /\ call.pc = "await" =>
       /\ call.result # "Success"
       /\ ClaimedReply(response)
       /\ \A i \in DOMAIN from_robot : ClaimedReply(from_robot[i])
       /\ \A i \in DOMAIN to_robot : Claimed(to_robot[i])
  /\ call.pc = "unlockRead" /\ call.result = "Success" => response.mine
----------------------------------------------------------------------------
(* The status of an epoch goes right before its end, if it goes at all:    *)
(* where nothing is lost, it is the packet before, or has been read.       *)
Whole ==
  \A i \in DOMAIN from_robot :
    from_robot[i].type = "EndEpoch" /\ from_robot[i].with_status =>
      IF i = 1 THEN status = from_robot[i].p_seq
      ELSE /\ from_robot[i - 1].type = "SystemStatus"
           /\ from_robot[i - 1].p_seq = from_robot[i].p_seq

StatusRead == end_status => status = end_epoch

(* What sync, where nobody else reads, knows of the end of the epoch.      *)
Synced ==
  program # "test" =>
    /\ runner.pc \in {"lockRead", "read"} => runner.current_seq = end_epoch
    /\ runner.pc = "check" /\ runner.current_seq # end_epoch => StatusRead
    /\ runner.pc = "return" => StatusRead

Epochal == lost = 0 => Whole /\ Synced
----------------------------------------------------------------------------
(* The runner has posted, and the command goes on to its end. *)
Reported ==
  \/ main.pc = "wait" /\ param_sem.value > 0
  \/ main.pc \in {"unflag", "destroy", "result"}

(* A command and the runner, as long as the runner is not late. *)
Answering ==
  late = 0 =>
    /\ main.pc \in {"semInit", "flag"} => sent = 0
    /\ main.pc = "flag" => param_sem.value = 0
    /\ runner.pc \in Busying => main.pc = "wait" /\ param_sem.value = 0
    /\ main.pc = "wait" /\ param_sem.value = 0 =>
         \/ sent = 0 /\ runner.pc \notin {"called", "post"}
         \/ sent = 0 /\ runner.pc = "called" /\ call.pc \in {"lockRead", "send"}
         \/ /\ sent = 1 /\ sending = "own"
            /\ runner.pc = "called" /\ call.pc \notin {"lockRead", "send"}
         \/ sent = 1 /\ op_result = "own" /\ runner.pc = "post"
    /\ Reported =>
         /\ sent = 1 /\ op_result = "own"
         /\ runner.pc \in SyncPcs \cup {"while", "ended"}
    /\ runner.pc = "postState" => main.pc = "dump"
    /\ main.pc = "dumpFlag" => state_sem.value = 0
    /\ main.pc = "dump" /\ runner.pc \in {"return", "state", "postState"}
         => state_sem.value < main.left
    /\ main.pc = "dumpDestroy" => runner.pc \notin {"return", "state", "postState"}

(* What sending does to the control of the caller. *)
LEMMA SendEffect ==
  ASSUME call \in CallSet, sendBlocking
  PROVE  /\ call.pc = "send"
         /\ call'.pc \in {"unlockRead", "await"} /\ call'.by = call.by
         /\ UNCHANGED <<write_mutex, read_mutex, drive, runner>>
<1>1. call.pc = "send" /\ UNCHANGED <<write_mutex, read_mutex, drive, runner>>
  BY DEF sendBlocking, At
<1>2. CASE Full
  <2>1. call' = [call EXCEPT !.pc = "unlockRead", !.result = "TxBufferFull"]
    BY <1>2 DEF sendBlocking
  <2> QED BY <1>1, <2>1 DEF CallSet
<1>3. CASE ~Full
  <2>1. call' = [call EXCEPT !.pc = "await", !.awaited = NextSeq,
                             !.timeout = Timeout, !.result = "Timeout"]
    BY <1>3 DEF sendBlocking
  <2> QED BY <1>1, <2>1 DEF CallSet
<1> QED BY <1>2, <1>3

(* The line itself touches only what it carries. *)
LEMMA LineEffect ==
  ASSUME OnTheLine, robotEpoch \/ lose
  PROVE  UNCHANGED <<write_mutex, read_mutex, global_seq, tx, drive, received,
                     call, runner, program, main, shellVars>>
BY Zenon DEF OnTheLine, robotEpoch, lose

(* Every step keeps the mutexes, the calls and the parts of the programs.  *)
LEMMA ControlStep ==
  ASSUME Shape, [Next]_vars
  PROVE  Locks' /\ Callers' /\ Parts'
<1> USE DEF Shape, ClientTypes, CallTypes, LineTypes, ProgramTypes, Locks, Callers, Parts, CallSet, RunnerSet, MainSet, Threads, At, ShellPcs, SyncPcs, vars, clientVars, shellVars, received, lines, NoCall
<1>1. CASE InCall /\ lockRead
  BY <1>1 DEF InCall, lockRead
<1>2. CASE InCall /\ await
  BY <1>2 DEF InCall, await, readPacket
<1>3. CASE InCall /\ unlockRead
  BY <1>3 DEF InCall, unlockRead
<1>4. CASE InCall /\ sendBlocking
  <2>1. /\ call.pc = "send" /\ call.by = "main"
        /\ call'.pc \in {"unlockRead", "await"} /\ call'.by = call.by
        /\ UNCHANGED <<write_mutex, read_mutex, drive, runner, main, program>>
    BY <1>4, SendEffect DEF InCall, lockRead, await, unlockRead
  <2> QED BY <2>1
<1>5. CASE runnerSends
  <2>1. /\ call.pc = "send" /\ call.by = "runner"
        /\ call'.pc \in {"unlockRead", "await"} /\ call'.by = call.by
        /\ UNCHANGED <<write_mutex, read_mutex, drive, runner, main, program>>
    BY <1>5, SendEffect DEF runnerSends
  <2> QED BY <2>1
<1>6. CASE queryReturns
  BY <1>6 DEF queryReturns, unlockWrite
<1>7. CASE readConfiguration
  BY <1>7 DEF readConfiguration
<1>8. CASE queryCalls
  BY <1>8 DEF queryCalls, lockWrite, Goto
<1>9. CASE driveBase
  BY <1>9 DEF driveBase, setBaseVelocity
<1>10. CASE sendFn
  BY <1>10 DEF sendFn, sendDeferred, Command, Goto
<1>11. CASE quitFn
  BY <1>11 DEF quitFn, Command, Goto
<1>12. CASE paramFn
  BY <1>12 DEF paramFn, Command, Goto
<1>13. CASE dumpFn
  BY <1>13 DEF dumpFn, Command, Goto
<1>14. CASE paramSemInit
  BY <1>14 DEF paramSemInit, Goto
<1>15. CASE paramFlag
  BY <1>15 DEF paramFlag, Goto
<1>16. CASE paramWait
  BY <1>16 DEF paramWait, Goto
<1>17. CASE paramUnflag
  BY <1>17 DEF paramUnflag, Goto
<1>18. CASE paramDestroy
  BY <1>18 DEF paramDestroy, Goto
<1>19. CASE paramReturn
  BY <1>19 DEF paramReturn, Goto
<1>20. CASE dumpFlag
  BY <1>20 DEF dumpFlag
<1>21. CASE dumpWait
  BY <1>21 DEF dumpWait
<1>22. CASE dumpUnflag
  BY <1>22 DEF dumpUnflag, Goto
<1>23. CASE dumpDestroy
  BY <1>23 DEF dumpDestroy, Goto
<1>24. CASE join
  BY <1>24 DEF join, Goto
<1>25. CASE runnerSync /\ syncFlush
  BY <1>25 DEF runnerSync, syncFlush, RunnerGoto
<1>26. CASE runnerSync /\ syncStamp
  BY <1>26 DEF runnerSync, syncStamp, RunnerGoto
<1>27. CASE runnerSync /\ syncNoDrive
  BY <1>27 DEF runnerSync, syncNoDrive, RunnerGoto
<1>28. CASE runnerSync /\ syncPack
  BY <1>28 DEF runnerSync, syncPack, RunnerGoto
<1>29. CASE runnerSync /\ syncNote
  BY <1>29 DEF runnerSync, syncNote
<1>30. CASE runnerSync /\ syncLockRead
  BY <1>30 DEF runnerSync, syncLockRead, RunnerGoto
<1>31. CASE runnerSync /\ syncRead
  BY <1>31 DEF runnerSync, syncRead, readPacket, RunnerGoto
<1>32. CASE runnerSync /\ syncCheck
  BY <1>32 DEF runnerSync, syncCheck, RunnerGoto
<1>33. CASE refreshState
  BY <1>33 DEF refreshState, get, RunnerGoto
<1>34. CASE testState
  BY <1>34 DEF testState, RunnerGoto
<1>35. CASE postState
  BY <1>35 DEF postState, RunnerGoto
<1>36. CASE testParam
  BY <1>36 DEF testParam, RunnerGoto
<1>37. CASE opCalls
  BY <1>37 DEF opCalls, RunnerGoto, lockWrite
<1>38. CASE opReturns
  BY <1>38 DEF opReturns, RunnerGoto, unlockWrite, AfterOp
<1>39. CASE postParam
  BY <1>39 DEF postParam, RunnerGoto
<1>40. CASE whileRun
  BY <1>40 DEF whileRun
<1>41. CASE testRunnerGets
  BY <1>41 DEF testRunnerGets, get, RunnerGoto
<1>42. CASE testRunnerSends
  BY <1>42 DEF testRunnerSends, RunnerGoto, sendDeferred
<1>43. CASE baseRunner
  BY <1>43 DEF baseRunner, RunnerGoto
<1>44. CASE OnTheLine /\ robotEpoch
  BY <1>44, LineEffect
<1>45. CASE OnTheLine /\ lose
  BY <1>45, LineEffect
<1>46. CASE UNCHANGED vars
  BY <1>46
<1> QED
  BY <1>1, <1>2, <1>3, <1>4, <1>5, <1>6, <1>7, <1>8, <1>9, <1>10, <1>11, <1>12, <1>13, <1>14, <1>15, <1>16, <1>17, <1>18, <1>19, <1>20, <1>21, <1>22, <1>23, <1>24, <1>25, <1>26, <1>27, <1>28, <1>29, <1>30, <1>31, <1>32, <1>33, <1>34, <1>35, <1>36, <1>37, <1>38, <1>39, <1>40, <1>41, <1>42, <1>43, <1>44, <1>45, <1>46 DEF Next, Main, InCommand, CallStep, Runner, Ended, InCall, runnerSync, Sync, OnTheLine, Line

(* Every step keeps the program well formed, and its flags and semaphores. *)
LEMMA ProgramStep ==
  ASSUME Shape, [Next]_vars
  PROVE  ProgramTypes' /\ Flags'
<1> USE ProgramConstants DEF Shape, ProgramTypes, Flags, MainSet, ParamPcs, DumpPcs, SemSet, NoSem, NewSem, Posted, vars, clientVars, shellVars, Parts
<1>1. CASE InCall /\ lockRead
  BY <1>1 DEF InCall, lockRead
<1>2. CASE InCall /\ await
  BY <1>2 DEF InCall, await, readPacket
<1>3. CASE InCall /\ unlockRead
  BY <1>3 DEF InCall, unlockRead
<1>4. CASE InCall /\ sendBlocking
  BY <1>4 DEF InCall, sendBlocking
<1>5. CASE runnerSends
  BY <1>5 DEF runnerSends, sendBlocking
<1>6. CASE queryReturns
  BY <1>6 DEF queryReturns, unlockWrite
<1>7. CASE readConfiguration
  BY <1>7 DEF readConfiguration
<1>8. CASE queryCalls
  BY <1>8 DEF queryCalls, lockWrite, Goto
<1>9. CASE driveBase
  BY <1>9 DEF driveBase, setBaseVelocity
<1>10. CASE sendFn
  BY <1>10 DEF sendFn, sendDeferred, Command, Goto
<1>11. CASE quitFn
  BY <1>11 DEF quitFn, Command, Goto
<1>12. CASE paramFn
  BY <1>12 DEF paramFn, Command, Goto
<1>13. CASE dumpFn
  BY <1>13 DEF dumpFn, Command, Goto
<1>14. CASE paramSemInit
  BY <1>14 DEF paramSemInit, Goto
<1>15. CASE paramFlag
  BY <1>15 DEF paramFlag, Goto
<1>16. CASE paramWait
  BY <1>16 DEF paramWait, Goto
<1>17. CASE paramUnflag
  BY <1>17 DEF paramUnflag, Goto
<1>18. CASE paramDestroy
  BY <1>18 DEF paramDestroy, Goto
<1>19. CASE paramReturn
  BY <1>19 DEF paramReturn, Goto
<1>20. CASE dumpFlag
  BY <1>20 DEF dumpFlag
<1>21. CASE dumpWait
  BY <1>21 DEF dumpWait
<1>22. CASE dumpUnflag
  BY <1>22 DEF dumpUnflag, Goto
<1>23. CASE dumpDestroy
  BY <1>23 DEF dumpDestroy, Goto
<1>24. CASE join
  BY <1>24 DEF join, Goto
<1>25. CASE runnerSync /\ syncFlush
  BY <1>25 DEF runnerSync, syncFlush, RunnerGoto
<1>26. CASE runnerSync /\ syncStamp
  BY <1>26 DEF runnerSync, syncStamp, RunnerGoto
<1>27. CASE runnerSync /\ syncNoDrive
  BY <1>27 DEF runnerSync, syncNoDrive, RunnerGoto
<1>28. CASE runnerSync /\ syncPack
  BY <1>28 DEF runnerSync, syncPack, RunnerGoto
<1>29. CASE runnerSync /\ syncNote
  BY <1>29 DEF runnerSync, syncNote
<1>30. CASE runnerSync /\ syncLockRead
  BY <1>30 DEF runnerSync, syncLockRead, RunnerGoto
<1>31. CASE runnerSync /\ syncRead
  BY <1>31 DEF runnerSync, syncRead, readPacket, RunnerGoto
<1>32. CASE runnerSync /\ syncCheck
  BY <1>32 DEF runnerSync, syncCheck, RunnerGoto
<1>33. CASE refreshState
  BY <1>33 DEF refreshState, get, RunnerGoto
<1>34. CASE testState
  BY <1>34 DEF testState, RunnerGoto
<1>35. CASE postState
  BY <1>35 DEF postState, RunnerGoto
<1>36. CASE testParam
  BY <1>36 DEF testParam, RunnerGoto
<1>37. CASE opCalls
  BY <1>37 DEF opCalls, RunnerGoto, lockWrite
<1>38. CASE opReturns
  BY <1>38 DEF opReturns, RunnerGoto, unlockWrite, AfterOp
<1>39. CASE postParam
  BY <1>39 DEF postParam, RunnerGoto
<1>40. CASE whileRun
  BY <1>40 DEF whileRun
<1>41. CASE testRunnerGets
  BY <1>41 DEF testRunnerGets, get, RunnerGoto
<1>42. CASE testRunnerSends
  BY <1>42 DEF testRunnerSends, RunnerGoto, sendDeferred
<1>43. CASE baseRunner
  BY <1>43 DEF baseRunner, RunnerGoto
<1>44. CASE OnTheLine /\ robotEpoch
  BY <1>44, LineEffect
<1>45. CASE OnTheLine /\ lose
  BY <1>45, LineEffect
<1>46. CASE UNCHANGED vars
  BY <1>46
<1> QED
  BY <1>1, <1>2, <1>3, <1>4, <1>5, <1>6, <1>7, <1>8, <1>9, <1>10, <1>11, <1>12, <1>13, <1>14, <1>15, <1>16, <1>17, <1>18, <1>19, <1>20, <1>21, <1>22, <1>23, <1>24, <1>25, <1>26, <1>27, <1>28, <1>29, <1>30, <1>31, <1>32, <1>33, <1>34, <1>35, <1>36, <1>37, <1>38, <1>39, <1>40, <1>41, <1>42, <1>43, <1>44, <1>45, <1>46 DEF Next, Main, InCommand, CallStep, Runner, Ended, InCall, runnerSync,
         Sync, OnTheLine, Line
----------------------------------------------------------------------------
(* Numbers, packets and lines *)

LEMMA Sizes ==
  /\ SeqRange \in Nat /\ SeqRange > 3 /\ EpochRange \in Nat /\ EpochRange > 0
  /\ Timeout \in Nat /\ Timeout > 0
  /\ TxMax \in Nat /\ LineMax \in Nat /\ MaxLost \in Nat
  /\ MaxLate \in Nat /\ MaxLate > 0 /\ DumpCycles \in Nat /\ DumpCycles > 0
  /\ SeqRange > MaxLate + 2
  /\ RobotMax \in Nat /\ ResponseSize \in Nat /\ ResponseSize > 0
<1>1. /\ SeqRange \in Nat \ {0} /\ EpochRange \in Nat \ {0}
      /\ Timeout \in Nat \ {0}
      /\ TxMax \in Nat /\ LineMax \in Nat /\ MaxLost \in Nat
      /\ MaxLate \in Nat \ {0} /\ DumpCycles \in Nat \ {0}
      /\ SeqRange > MaxLate + 2
      /\ RobotMax \in Nat /\ ResponseSize \in Nat \ {0}
  BY ClientConstants, ProgramConstants
<1> QED BY <1>1

(* The next number, without the modulo.                                    *)
LEMMA NextNumber ==
  ASSUME global_seq \in Numbers
  PROVE  /\ NextSeq \in Numbers
         /\ NextSeq = IF global_seq = SeqRange - 1 THEN 0 ELSE global_seq + 1
<1>1. global_seq \in Nat /\ global_seq < SeqRange /\ SeqRange \in Nat
  BY Sizes DEF Numbers
<1>2. (global_seq + 1) % SeqRange =
        IF global_seq = SeqRange - 1 THEN 0 ELSE global_seq + 1
  <2>1. CASE global_seq = SeqRange - 1
    <3>1. global_seq + 1 = SeqRange /\ SeqRange > 0
      BY <1>1, <2>1, Sizes
    <3>2. SeqRange % SeqRange = 0
      BY <3>1, <1>1
    <3> QED BY <2>1, <3>1, <3>2
  <2>2. CASE global_seq # SeqRange - 1
    <3>1. global_seq + 1 \in Nat /\ global_seq + 1 < SeqRange
      BY <1>1, <2>2
    <3> QED BY <1>1, <2>2, <3>1
  <2> QED BY <2>1, <2>2
<1> QED BY <1>1, <1>2 DEF NextSeq, Numbers

(* Forgetting whose packets they are leaves the rest of them alone: on the *)
(* way to the robot ...                                                    *)
LEMMA ForgetOut ==
  ASSUME NEW q \in Seq(OutSet)
  PROVE  /\ Forget(q) \in Seq(OutSet) /\ Len(Forget(q)) = Len(q)
         /\ DOMAIN Forget(q) = DOMAIN q
         /\ \A i \in DOMAIN q : /\ Forget(q)[i].type = q[i].type
                                /\ Forget(q)[i].seq = q[i].seq
<1>1. \A i \in DOMAIN q : q[i] \in OutSet
  OBVIOUS
<1>2. \A i \in DOMAIN q : [q[i] EXCEPT !.mine = FALSE] \in OutSet
  BY <1>1 DEF OutSet
<1>3. \A i \in DOMAIN q : /\ [q[i] EXCEPT !.mine = FALSE].type = q[i].type
                          /\ [q[i] EXCEPT !.mine = FALSE].seq = q[i].seq
  BY <1>1 DEF OutSet
<1> DEFINE f(i) == [q[i] EXCEPT !.mine = FALSE]
<1>4. Forget(q) = [i \in 1 .. Len(q) |-> f(i)] /\ Len(q) \in Nat
      /\ DOMAIN q = 1 .. Len(q)
  BY DEF Forget
<1> HIDE DEF f
<1>5. Forget(q) \in Seq(OutSet) /\ Len(Forget(q)) = Len(q)
      /\ DOMAIN Forget(q) = DOMAIN q
      /\ \A i \in DOMAIN q : Forget(q)[i] = f(i)
  BY <1>2, <1>4 DEF f
<1> QED BY <1>3, <1>5 DEF f

(* ... and back.                                                           *)
LEMMA ForgetIn ==
  ASSUME NEW q \in Seq(InSet)
  PROVE  /\ Forget(q) \in Seq(InSet) /\ Len(Forget(q)) = Len(q)
         /\ DOMAIN Forget(q) = DOMAIN q
         /\ \A i \in DOMAIN q : /\ Forget(q)[i].type = q[i].type
                                /\ Forget(q)[i].p_type = q[i].p_type
                                /\ Forget(q)[i].p_seq = q[i].p_seq
                                /\ q[i].type = "EndEpoch" =>
                                     Forget(q)[i].with_status = q[i].with_status
<1>1. \A i \in DOMAIN q : q[i] \in InSet
  OBVIOUS
<1>2. \A i \in DOMAIN q : [q[i] EXCEPT !.mine = FALSE] \in InSet
  BY <1>1 DEF InSet, RespSet, OwnSet
<1>3. \A i \in DOMAIN q : /\ [q[i] EXCEPT !.mine = FALSE].type = q[i].type
                          /\ [q[i] EXCEPT !.mine = FALSE].p_type = q[i].p_type
                          /\ [q[i] EXCEPT !.mine = FALSE].p_seq = q[i].p_seq
                          /\ q[i].type = "EndEpoch" =>
                               [q[i] EXCEPT !.mine = FALSE].with_status
                                 = q[i].with_status
  BY <1>1 DEF InSet, RespSet, OwnSet
<1> DEFINE f(i) == [q[i] EXCEPT !.mine = FALSE]
<1>4. Forget(q) = [i \in 1 .. Len(q) |-> f(i)] /\ Len(q) \in Nat
      /\ DOMAIN q = 1 .. Len(q)
  BY DEF Forget
<1> HIDE DEF f
<1>5. Forget(q) \in Seq(InSet) /\ Len(Forget(q)) = Len(q)
      /\ DOMAIN Forget(q) = DOMAIN q
      /\ \A i \in DOMAIN q : Forget(q)[i] = f(i)
  BY <1>2, <1>4 DEF f
<1> QED BY <1>3, <1>5 DEF f

(* Two lines in one, on the way to the client ...                          *)
LEMMA JoinedIn ==
  ASSUME NEW s \in Seq(InSet), NEW t \in Seq(InSet)
  PROVE  /\ s \o t \in Seq(InSet) /\ Len(s \o t) = Len(s) + Len(t)
         /\ \A i \in 1 .. Len(s) : (s \o t)[i] = s[i]
         /\ \A i \in 1 .. Len(t) : (s \o t)[Len(s) + i] = t[i]
<1>1. Len(s) \in Nat /\ Len(t) \in Nat
  OBVIOUS
<1>2. s \o t \in Seq(InSet) /\ Len(s \o t) = Len(s) + Len(t)
  OBVIOUS
<1>3. \A i \in 1 .. Len(s) + Len(t) :
        (s \o t)[i] = IF i <= Len(s) THEN s[i] ELSE t[i - Len(s)]
  OBVIOUS
<1>4. \A i \in 1 .. Len(s) : (s \o t)[i] = s[i]
  BY <1>1, <1>3
<1>5. \A i \in 1 .. Len(t) : (s \o t)[Len(s) + i] = t[i]
  <2> SUFFICES ASSUME NEW i \in 1 .. Len(t)
               PROVE  (s \o t)[Len(s) + i] = t[i]
    OBVIOUS
  <2>1. /\ Len(s) + i \in 1 .. Len(s) + Len(t) /\ ~(Len(s) + i <= Len(s))
        /\ (Len(s) + i) - Len(s) = i
    BY <1>1
  <2> QED BY <1>3, <2>1
<1> QED BY <1>2, <1>4, <1>5

(* ... and to the robot.                                                   *)
LEMMA JoinedOut ==
  ASSUME NEW s \in Seq(OutSet), NEW t \in Seq(OutSet)
  PROVE  /\ s \o t \in Seq(OutSet) /\ Len(s \o t) = Len(s) + Len(t)
         /\ \A i \in 1 .. Len(s) : (s \o t)[i] = s[i]
         /\ \A i \in 1 .. Len(t) : (s \o t)[Len(s) + i] = t[i]
<1>1. Len(s) \in Nat /\ Len(t) \in Nat
  OBVIOUS
<1>2. s \o t \in Seq(OutSet) /\ Len(s \o t) = Len(s) + Len(t)
  OBVIOUS
<1>3. \A i \in 1 .. Len(s) + Len(t) :
        (s \o t)[i] = IF i <= Len(s) THEN s[i] ELSE t[i - Len(s)]
  OBVIOUS
<1>4. \A i \in 1 .. Len(s) : (s \o t)[i] = s[i]
  BY <1>1, <1>3
<1>5. \A i \in 1 .. Len(t) : (s \o t)[Len(s) + i] = t[i]
  <2> SUFFICES ASSUME NEW i \in 1 .. Len(t)
               PROVE  (s \o t)[Len(s) + i] = t[i]
    OBVIOUS
  <2>1. /\ Len(s) + i \in 1 .. Len(s) + Len(t) /\ ~(Len(s) + i <= Len(s))
        /\ (Len(s) + i) - Len(s) = i
    BY <1>1
  <2> QED BY <1>3, <2>1
<1> QED BY <1>2, <1>4, <1>5

(* Reading a packet: the next one on the line. *)
LEMMA ReadOne ==
  ASSUME LineTypes, readPacket
  PROVE  /\ from_robot' \in Seq(InSet) /\ response' \in RespSet
         /\ status' \in Epochs /\ end_epoch' \in Epochs
         /\ end_status' \in BOOLEAN
         /\ Len(from_robot) > 0 /\ Len(from_robot') = Len(from_robot) - 1
         /\ \A i \in DOMAIN from_robot' : /\ i + 1 \in DOMAIN from_robot
                                         /\ from_robot'[i] = from_robot[i + 1]
         /\ from_robot[1] \in InSet
         /\ response' = IF from_robot[1].type = "Response" THEN from_robot[1]
                        ELSE response
         /\ status' = IF from_robot[1].type = "SystemStatus"
                      THEN from_robot[1].p_seq ELSE status
         /\ end_epoch' = IF from_robot[1].type = "EndEpoch"
                         THEN from_robot[1].p_seq ELSE end_epoch
         /\ end_status' = IF from_robot[1].type = "EndEpoch"
                          THEN from_robot[1].with_status ELSE end_status
<1>1. from_robot \in Seq(InSet) /\ from_robot # <<>>
  BY DEF LineTypes, readPacket
<1>2. /\ Head(from_robot) = from_robot[1] /\ from_robot[1] \in InSet
      /\ Len(from_robot) > 0
      /\ Tail(from_robot) \in Seq(InSet)
      /\ Len(Tail(from_robot)) = Len(from_robot) - 1
      /\ \A i \in DOMAIN Tail(from_robot) :
           i + 1 \in DOMAIN from_robot /\ Tail(from_robot)[i] = from_robot[i + 1]
  BY <1>1
<1>3. from_robot' = Tail(from_robot)
  BY DEF readPacket
<1>4. /\ response' = IF from_robot[1].type = "Response" THEN from_robot[1]
                     ELSE response
      /\ status' = IF from_robot[1].type = "SystemStatus"
                   THEN from_robot[1].p_seq ELSE status
      /\ end_epoch' = IF from_robot[1].type = "EndEpoch"
                      THEN from_robot[1].p_seq ELSE end_epoch
      /\ end_status' = IF from_robot[1].type = "EndEpoch"
                       THEN from_robot[1].with_status ELSE end_status
  BY <1>2 DEF readPacket
<1>5. /\ from_robot[1].type = "Response" => from_robot[1] \in RespSet
      /\ from_robot[1].type # "Response" =>
           from_robot[1].p_seq \in Epochs /\ from_robot[1].with_status \in BOOLEAN
  BY <1>2 DEF InSet, RespSet, OwnSet
<1>6. /\ response \in RespSet /\ status \in Epochs /\ end_epoch \in Epochs
      /\ end_status \in BOOLEAN
  BY DEF LineTypes
<1>7. response' \in RespSet
  BY <1>4, <1>5, <1>6
<1>8. status' \in Epochs
  BY <1>4, <1>5, <1>6
<1>9. end_epoch' \in Epochs
  BY <1>4, <1>5, <1>6
<1>10. end_status' \in BOOLEAN
  <2>1. CASE from_robot[1].type = "EndEpoch"
    BY <2>1, <1>4, <1>5
  <2>2. CASE from_robot[1].type # "EndEpoch"
    BY <2>2, <1>4, <1>6
  <2> QED BY <2>1, <2>2
<1> QED BY <1>2, <1>3, <1>4, <1>7, <1>8, <1>9, <1>10

(* No more answers fit into a buffer than there is room for.               *)
LEMMA QuotientBound ==
  ASSUME NEW m \in Nat, NEW b \in Nat, NEW r \in Nat, r > 0, ~(m * r <= b)
  PROVE  b \div r \in 0 .. m
<1>1. PICK d \in Nat : d = b \div r
  OBVIOUS
<1>2. d * r <= b
  BY <1>1
<1>3. CASE d > m
  <2>1. PICK e \in Nat : d = m + e
    BY <1>3
  <2>2. d * r = m * r + e * r
    BY <2>1
  <2>3. m * r \in Nat /\ e * r \in Nat /\ d * r \in Nat
    OBVIOUS
  <2> QED BY <1>2, <2>2, <2>3
<1>4. CASE d <= m
  BY <1>1, <1>4
<1> QED BY <1>3, <1>4

(* The robot's own packets in an epoch: the status before the end.         *)
LEMMA OwnSent ==
  ASSUME NEW seq \in Epochs, NEW flag \in BOOLEAN
  PROVE  LET E == OwnPackets(seq, flag)
         IN /\ E \in Seq(InSet) /\ Len(E) \in 0 .. 2
            /\ \A i \in 1 .. Len(E) :
                 /\ E[i].type \in {"SystemStatus", "EndEpoch"}
                 /\ E[i].p_seq = seq
                 /\ E[i].type = "EndEpoch" /\ E[i].with_status =>
                      i = 2 /\ E[1].type = "SystemStatus"
<1> DEFINE used == AnswersFit * ResponseSize
           hasStatus == flag /\ used + StatusSize <= RobotMax
           hasEnd == (IF hasStatus THEN used + StatusSize ELSE used) + EndSize
                       <= RobotMax
           Own(type) == [type |-> type, p_type |-> "none", p_seq |-> seq,
                         mine |-> FALSE, with_status |-> hasStatus]
           S == Own("SystemStatus")
           T == Own("EndEpoch")
           E == OwnPackets(seq, flag)
<1>1. E = (IF hasStatus THEN <<S>> ELSE <<>>) \o (IF hasEnd THEN <<T>> ELSE <<>>)
  BY DEF OwnPackets
<1>2. hasStatus \in BOOLEAN /\ hasEnd \in BOOLEAN
  OBVIOUS
<1> HIDE DEF used, hasStatus, hasEnd
<1>3. /\ S \in InSet /\ S.type = "SystemStatus" /\ S.p_seq = seq
      /\ T \in InSet /\ T.type = "EndEpoch" /\ T.p_seq = seq
      /\ T.with_status = hasStatus
  BY <1>2 DEF InSet, OwnSet
<1> HIDE DEF S, T, E
<1>4. CASE hasStatus /\ hasEnd
  <2>1. E = <<S>> \o <<T>>
    BY <1>1, <1>4
  <2>2. /\ <<S>> \in Seq(InSet) /\ Len(<<S>>) = 1 /\ <<S>>[1] = S
        /\ <<T>> \in Seq(InSet) /\ Len(<<T>>) = 1 /\ <<T>>[1] = T
    BY <1>3
  <2>3. /\ E \in Seq(InSet) /\ Len(E) = 1 + 1
        /\ \A i \in 1 .. 1 : E[i] = <<S>>[i]
        /\ \A i \in 1 .. 1 : E[1 + i] = <<T>>[i]
    BY <2>1, <2>2, JoinedIn, Zenon
  <2>4. 1 \in 1 .. 1 /\ 1 + 1 = 2
    OBVIOUS
  <2>5. E \in Seq(InSet) /\ Len(E) = 2 /\ E[1] = S /\ E[2] = T
    BY <2>2, <2>3, <2>4, Zenon
  <2> QED BY <2>5, <1>3 DEF E
<1>5. CASE hasStatus /\ ~hasEnd
  <2>1. E = <<S>>
    BY <1>1, <1>5
  <2>2. E \in Seq(InSet) /\ Len(E) = 1 /\ E[1] = S
    BY <2>1, <1>3
  <2> QED BY <2>2, <1>3 DEF E
<1>6. CASE ~hasStatus /\ hasEnd
  <2>1. E = <<T>>
    BY <1>1, <1>6
  <2>2. E \in Seq(InSet) /\ Len(E) = 1 /\ E[1] = T
    BY <2>1, <1>3
  <2>3. ~T.with_status
    BY <1>3, <1>6
  <2> QED BY <2>2, <2>3, <1>3 DEF E
<1>7. CASE ~hasStatus /\ ~hasEnd
  <2>1. E = <<>>
    BY <1>1, <1>7
  <2>2. E \in Seq(InSet) /\ Len(E) = 0
    BY <2>1
  <2> QED BY <2>2 DEF E
<1> QED BY <1>4, <1>5, <1>6, <1>7

(* An epoch of the robot: answers to the first n packets that have come,   *)
(* and k packets of its own.                                               *)
EpochOf(n, k) ==
  LET l == Len(from_robot)
      q == from_robot'
  IN /\ Len(q) = l + n + k
     /\ \A i \in 1 .. l : q[i] = from_robot[i]
     /\ \A i \in 1 .. n : /\ q[l + i].type = "Response"
                          /\ q[l + i].p_type = to_robot[i].type
                          /\ q[l + i].p_seq = to_robot[i].seq
                          /\ q[l + i].mine = to_robot[i].mine
     /\ \A i \in 1 .. k :
          /\ q[l + n + i].type \in {"SystemStatus", "EndEpoch"}
          /\ q[l + n + i].p_seq = robot_seq'
          /\ /\ q[l + n + i].type = "EndEpoch"
             /\ q[l + n + i].with_status
             => i = 2 /\ q[l + n + 1].type = "SystemStatus"

LEMMA EpochSent ==
  ASSUME LineTypes, robotEpoch
  PROVE  /\ from_robot' \in Seq(InSet) /\ robot_seq' \in Epochs
         /\ \E n \in 0 .. Len(to_robot), k \in 0 .. 2 : EpochOf(n, k)
<1> DEFINE seq == (robot_seq + 1) % EpochRange
           l == Len(from_robot)
           m == Len(to_robot)
           n == AnswersFit
           R == [i \in 1 .. n |-> Reply(to_robot[i])]
<1>1. /\ l \in Nat /\ m \in Nat /\ DOMAIN to_robot = 1 .. m
      /\ from_robot \in Seq(InSet) /\ to_robot \in Seq(OutSet)
  BY DEF LineTypes
<1>2. seq \in Epochs
  <2>1. robot_seq \in Nat /\ EpochRange \in Nat /\ EpochRange > 0
    BY Sizes DEF LineTypes, Epochs
  <2>2. seq \in 0 .. EpochRange - 1
    BY <2>1
  <2> QED BY <2>2 DEF Epochs
<1>3. PICK flag \in BOOLEAN :
        from_robot' = from_robot \o R \o OwnPackets(seq, flag)
  BY Zenon DEF robotEpoch, StatusFlag
<1>4. n \in 0 .. m
  <2>1. RobotMax \in Nat /\ ResponseSize \in Nat /\ ResponseSize > 0
    BY Sizes
  <2>2. CASE m * ResponseSize <= RobotMax
    BY <2>2, <1>1 DEF AnswersFit
  <2>3. CASE ~(m * ResponseSize <= RobotMax)
    <3>1. n = RobotMax \div ResponseSize
      BY <2>3 DEF AnswersFit
    <3> QED BY <3>1, <2>1, <2>3, <1>1, QuotientBound
  <2> QED BY <2>2, <2>3
<1>5. \A i \in 1 .. m : /\ Reply(to_robot[i]) \in InSet
                        /\ Reply(to_robot[i]).type = "Response"
                        /\ Reply(to_robot[i]).p_type = to_robot[i].type
                        /\ Reply(to_robot[i]).p_seq = to_robot[i].seq
                        /\ Reply(to_robot[i]).mine = to_robot[i].mine
  <2>1. \A i \in 1 .. m : to_robot[i] \in OutSet
    BY <1>1
  <2> QED BY <2>1 DEF Reply, OutSet, InSet, RespSet
<1> HIDE DEF n, l, m, seq
<1>6. PICK E \in Seq(InSet) :
        /\ E = OwnPackets(seq, flag) /\ Len(E) \in 0 .. 2
        /\ \A i \in 1 .. Len(E) :
             /\ E[i].type \in {"SystemStatus", "EndEpoch"}
             /\ E[i].p_seq = seq
             /\ E[i].type = "EndEpoch" /\ E[i].with_status =>
                  i = 2 /\ E[1].type = "SystemStatus"
  BY <1>2, OwnSent
<1>7. R = [i \in 1 .. n |-> Reply(to_robot[i])] /\ n \in Nat
  BY <1>1, <1>4
<1> HIDE DEF R
<1>8. R \in Seq(InSet) /\ Len(R) = n
      /\ \A i \in 1 .. n : R[i] = Reply(to_robot[i])
  <2>1. \A i \in 1 .. n : Reply(to_robot[i]) \in InSet
    BY <1>1, <1>4, <1>5
  <2> QED BY <2>1, <1>7
<1>9. PICK k \in 0 .. 2 : k = Len(E)
  BY <1>6
<1>10. LET q == from_robot'
       IN /\ q \in Seq(InSet) /\ Len(q) = l + n + k
          /\ \A i \in 1 .. l : q[i] = from_robot[i]
          /\ \A i \in 1 .. n : q[l + i] = R[i]
          /\ \A i \in 1 .. k : q[l + n + i] = E[i]
  <2>1. Len(from_robot) = l
    BY DEF l
  <2>2. from_robot \in Seq(InSet) /\ R \in Seq(InSet)
        /\ Len(R) = n /\ l \in Nat /\ n \in Nat /\ k \in Nat
    BY <1>1, <1>7, <1>8
  <2> DEFINE X == from_robot \o R
  <2>3. /\ X \in Seq(InSet) /\ Len(X) = l + n
        /\ \A i \in 1 .. l : X[i] = from_robot[i]
        /\ \A i \in 1 .. n : X[l + i] = R[i]
    <3>1. /\ X \in Seq(InSet) /\ Len(X) = Len(from_robot) + Len(R)
          /\ \A i \in 1 .. Len(from_robot) : X[i] = from_robot[i]
          /\ \A i \in 1 .. Len(R) : X[Len(from_robot) + i] = R[i]
      BY <2>2, JoinedIn, Zenon
    <3> QED BY <2>1, <2>2, <3>1, Zenon
  <2>4. from_robot' = X \o E
    BY <1>3, <1>6
  <2> HIDE DEF X
  <2>5. /\ X \o E \in Seq(InSet) /\ Len(X \o E) = (l + n) + k
        /\ \A i \in 1 .. l + n : (X \o E)[i] = X[i]
        /\ \A i \in 1 .. k : (X \o E)[(l + n) + i] = E[i]
    <3>1. /\ X \o E \in Seq(InSet) /\ Len(X \o E) = Len(X) + Len(E)
          /\ \A i \in 1 .. Len(X) : (X \o E)[i] = X[i]
          /\ \A i \in 1 .. Len(E) : (X \o E)[Len(X) + i] = E[i]
      BY <2>3, JoinedIn, Zenon
    <3> QED BY <2>3, <3>1, <1>9, Zenon
  <2>6. /\ \A i \in 1 .. l : i \in 1 .. l + n
        /\ \A i \in 1 .. n : l + i \in 1 .. l + n
    BY <2>2
  <2>7. /\ \A i \in 1 .. l : (X \o E)[i] = from_robot[i]
        /\ \A i \in 1 .. n : (X \o E)[l + i] = R[i]
    BY <2>3, <2>5, <2>6, Zenon
  <2> QED BY <2>4, <2>5, <2>7, Zenon
<1>11. \A i \in 1 .. n : /\ R[i].type = "Response"
                         /\ R[i].p_type = to_robot[i].type
                         /\ R[i].p_seq = to_robot[i].seq
                         /\ R[i].mine = to_robot[i].mine
  BY <1>1, <1>4, <1>5, <1>8
<1>12. n \in 0 .. Len(to_robot) /\ robot_seq' = seq
  BY <1>4 DEF m, seq, robotEpoch
<1>13. \A i \in 1 .. k : 1 \in 1 .. k
  BY <1>9
<1>14. EpochOf(n, k)
  <2> DEFINE q == from_robot'
  <2>1. Len(from_robot) = l
    BY DEF l
  <2>2. /\ Len(q) = l + n + k
        /\ \A i \in 1 .. l : q[i] = from_robot[i]
        /\ \A i \in 1 .. n : q[l + i] = R[i]
        /\ \A i \in 1 .. k : q[l + n + i] = E[i]
    BY <1>10
  <2> HIDE DEF q
  <2>3. \A i \in 1 .. n : /\ q[l + i].type = "Response"
                           /\ q[l + i].p_type = to_robot[i].type
                           /\ q[l + i].p_seq = to_robot[i].seq
                           /\ q[l + i].mine = to_robot[i].mine
    <3> TAKE i \in 1 .. n
    <3>1. q[l + i] = R[i]
      BY <2>2, Zenon
    <3> QED BY <1>11, <3>1, Zenon
  <2>4. \A i \in 1 .. k :
          /\ q[l + n + i].type \in {"SystemStatus", "EndEpoch"}
          /\ q[l + n + i].p_seq = robot_seq'
          /\ q[l + n + i].type = "EndEpoch" /\ q[l + n + i].with_status =>
               i = 2 /\ q[l + n + 1].type = "SystemStatus"
    <3> TAKE i \in 1 .. k
    <3>1. q[l + n + i] = E[i] /\ q[l + n + 1] = E[1]
      BY <1>13, <2>2, Zenon
    <3>2. /\ E[i].type \in {"SystemStatus", "EndEpoch"}
          /\ E[i].p_seq = seq
          /\ E[i].type = "EndEpoch" /\ E[i].with_status =>
               i = 2 /\ E[1].type = "SystemStatus"
      BY <1>6, <1>9, Zenon
    <3> QED BY <1>12, <3>1, <3>2, Zenon
  <2>5. q = from_robot'
    BY DEF q
  <2> QED BY <2>1, <2>2, <2>3, <2>4, <2>5, Zenon DEF EpochOf
<1>15. from_robot' \in Seq(InSet) /\ robot_seq' \in Epochs
  BY <1>2, <1>10, <1>12
<1> QED BY <1>12, <1>14, <1>15, Zenon

(* What is sent goes to the end. *)
LEMMA OutType ==
  ASSUME NEW type \in OutTypes, NEW n \in Numbers, NEW b \in BOOLEAN
  PROVE  /\ Packet(type, n, b) \in OutSet
         /\ Packet(type, n, b).type = type /\ Packet(type, n, b).seq = n
         /\ Packet(type, n, b).mine = b
BY DEF Packet, OutSet

(* Every step keeps the call and the runner well formed.                   *)
LEMMA ClientCallStep ==
  ASSUME Shape, [Next]_vars
  PROVE  CallTypes'
<1>a. /\ call \in CallSet /\ runner \in RunnerSet /\ end_epoch \in Epochs
      /\ call.pc = "await" => call.timeout > 0
      /\ 0 \in Numbers /\ 0 \in Epochs /\ NextSeq \in Numbers
  <2>1. global_seq \in Numbers
    BY DEF Shape, ClientTypes, LineTypes
  <2>2. 0 \in Numbers /\ 0 \in Epochs
    BY Sizes DEF Numbers, Epochs
  <2> QED BY <2>1, <2>2, NextNumber DEF Shape, ClientTypes, CallTypes, LineTypes
<1> USE <1>a, Sizes DEF CallTypes, CallSet, RunnerSet, SyncPcs, ShellPcs, Threads, NoCall, At, vars, clientVars, shellVars, received, lines
<1>1. CASE InCall /\ lockRead
  BY <1>1 DEF InCall, lockRead
<1>2. CASE InCall /\ await
  <2>1. call.timeout \in 1 .. Timeout /\ call.pc = "await"
    BY <1>2, Sizes DEF InCall, await
  <2>2. call.timeout - 1 \in 0 .. Timeout
        /\ (call.timeout - 1 # 0 => call.timeout - 1 > 0)
    BY <2>1, Sizes
  <2>3. UNCHANGED runner
    BY <1>2 DEF InCall, await
  <2>4. call' = [call EXCEPT !.pc = "unlockRead", !.result = "Success"]
        \/ call' = [call EXCEPT !.timeout = call.timeout - 1,
                               !.pc = IF call.timeout - 1 = 0
                                      THEN "unlockRead" ELSE call.pc]
    BY <1>2 DEF InCall, await, Remaining
  <2> QED BY <2>1, <2>2, <2>3, <2>4
<1>3. CASE InCall /\ unlockRead
  BY <1>3 DEF InCall, unlockRead
<1>4. CASE InCall /\ sendBlocking
  <2>1. UNCHANGED runner /\ Timeout \in 0 .. Timeout /\ Timeout > 0
    BY <1>4, Sizes DEF InCall, sendBlocking
  <2>2. call' = [call EXCEPT !.pc = "unlockRead", !.result = "TxBufferFull"]
        \/ call' = [call EXCEPT !.pc = "await", !.awaited = NextSeq,
                               !.timeout = Timeout, !.result = "Timeout"]
    BY <1>4 DEF InCall, sendBlocking
  <2> QED BY <2>1, <2>2
<1>5. CASE runnerSends
  <2>1. UNCHANGED runner /\ Timeout \in 0 .. Timeout /\ Timeout > 0
    BY <1>5, Sizes DEF runnerSends, sendBlocking
  <2>2. call' = [call EXCEPT !.pc = "unlockRead", !.result = "TxBufferFull"]
        \/ call' = [call EXCEPT !.pc = "await", !.awaited = NextSeq,
                               !.timeout = Timeout, !.result = "Timeout"]
    BY <1>5 DEF runnerSends, sendBlocking
  <2> QED BY <2>1, <2>2
<1>6. CASE queryReturns
  BY <1>6 DEF queryReturns, unlockWrite
<1>7. CASE readConfiguration
  BY <1>7 DEF readConfiguration
<1>8. CASE queryCalls
  BY <1>8 DEF queryCalls, lockWrite, Goto
<1>9. CASE driveBase
  BY <1>9 DEF driveBase, setBaseVelocity
<1>10. CASE sendFn
  BY <1>10 DEF sendFn, sendDeferred, Command, Goto
<1>11. CASE quitFn
  BY <1>11 DEF quitFn, Command, Goto
<1>12. CASE paramFn
  BY <1>12 DEF paramFn, Command, Goto
<1>13. CASE dumpFn
  BY <1>13 DEF dumpFn, Command, Goto
<1>14. CASE paramSemInit
  BY <1>14 DEF paramSemInit, Goto
<1>15. CASE paramFlag
  BY <1>15 DEF paramFlag, Goto
<1>16. CASE paramWait
  BY <1>16 DEF paramWait, Goto
<1>17. CASE paramUnflag
  BY <1>17 DEF paramUnflag, Goto
<1>18. CASE paramDestroy
  BY <1>18 DEF paramDestroy, Goto
<1>19. CASE paramReturn
  BY <1>19 DEF paramReturn, Goto
<1>20. CASE dumpFlag
  BY <1>20 DEF dumpFlag
<1>21. CASE dumpWait
  BY <1>21 DEF dumpWait
<1>22. CASE dumpUnflag
  BY <1>22 DEF dumpUnflag, Goto
<1>23. CASE dumpDestroy
  BY <1>23 DEF dumpDestroy, Goto
<1>24. CASE join
  BY <1>24 DEF join, Goto
<1>25. CASE runnerSync /\ syncFlush
  BY <1>25 DEF runnerSync, syncFlush, RunnerGoto
<1>26. CASE runnerSync /\ syncStamp
  BY <1>26 DEF runnerSync, syncStamp, RunnerGoto
<1>27. CASE runnerSync /\ syncNoDrive
  BY <1>27 DEF runnerSync, syncNoDrive, RunnerGoto
<1>28. CASE runnerSync /\ syncPack
  BY <1>28 DEF runnerSync, syncPack, RunnerGoto
<1>29. CASE runnerSync /\ syncNote
  BY <1>29 DEF runnerSync, syncNote
<1>30. CASE runnerSync /\ syncLockRead
  BY <1>30 DEF runnerSync, syncLockRead, RunnerGoto
<1>31. CASE runnerSync /\ syncRead
  BY <1>31 DEF runnerSync, syncRead, readPacket, RunnerGoto
<1>32. CASE runnerSync /\ syncCheck
  BY <1>32 DEF runnerSync, syncCheck, RunnerGoto
<1>33. CASE refreshState
  BY <1>33 DEF refreshState, get, RunnerGoto
<1>34. CASE testState
  BY <1>34 DEF testState, RunnerGoto
<1>35. CASE postState
  BY <1>35 DEF postState, RunnerGoto
<1>36. CASE testParam
  BY <1>36 DEF testParam, RunnerGoto
<1>37. CASE opCalls
  BY <1>37 DEF opCalls, RunnerGoto, lockWrite
<1>38. CASE opReturns
  BY <1>38 DEF opReturns, RunnerGoto, unlockWrite, AfterOp
<1>39. CASE postParam
  BY <1>39 DEF postParam, RunnerGoto
<1>40. CASE whileRun
  BY <1>40 DEF whileRun
<1>41. CASE testRunnerGets
  BY <1>41 DEF testRunnerGets, get, RunnerGoto
<1>42. CASE testRunnerSends
  BY <1>42 DEF testRunnerSends, RunnerGoto, sendDeferred
<1>43. CASE baseRunner
  BY <1>43 DEF baseRunner, RunnerGoto
<1>44. CASE OnTheLine /\ robotEpoch
  BY <1>44, LineEffect
<1>45. CASE OnTheLine /\ lose
  BY <1>45, LineEffect
<1>46. CASE UNCHANGED vars
  BY <1>46
<1> QED
  BY <1>1, <1>2, <1>3, <1>4, <1>5, <1>6, <1>7, <1>8, <1>9, <1>10, <1>11, <1>12, <1>13, <1>14, <1>15, <1>16, <1>17, <1>18, <1>19, <1>20, <1>21, <1>22, <1>23, <1>24, <1>25, <1>26, <1>27, <1>28, <1>29, <1>30, <1>31, <1>32, <1>33, <1>34, <1>35, <1>36, <1>37, <1>38, <1>39, <1>40, <1>41, <1>42, <1>43, <1>44, <1>45, <1>46 DEF Next, Main, InCommand, CallStep, Runner, Ended, InCall, runnerSync,
         Sync, OnTheLine, Line

(* One more packet at the end of a line.                                   *)
LEMMA AppendedOut ==
  ASSUME NEW s \in Seq(OutSet), NEW p \in OutSet
  PROVE  /\ Append(s, p) \in Seq(OutSet) /\ Len(Append(s, p)) = Len(s) + 1
         /\ \A i \in 1 .. Len(s) : Append(s, p)[i] = s[i]
         /\ Append(s, p)[Len(s) + 1] = p
  OBVIOUS

(* What a deferred packet leaves in the transmit buffer.                   *)
LEMMA Deferred ==
  ASSUME LineTypes, NEW p \in OutSet,
         tx' = IF Full THEN tx ELSE Append(tx, p)
  PROVE  tx' \in Seq(OutSet) /\ Len(tx') <= TxMax
<1>1. tx \in Seq(OutSet) /\ Len(tx) \in Nat /\ Len(tx) <= TxMax /\ TxMax \in Nat
  BY Sizes DEF LineTypes
<1>2. Append(tx, p) \in Seq(OutSet) /\ Len(Append(tx, p)) = Len(tx) + 1
  BY <1>1, AppendedOut
<1> QED BY <1>1, <1>2 DEF Full

(* The packets stay well formed: in a blocking call ...                    *)
LEMMA BlockingTypes ==
  ASSUME LineTypes, sendBlocking
  PROVE  LineTypes'
<1> USE DEF LineTypes
<1>1. /\ tx \in Seq(OutSet) /\ to_robot \in Seq(OutSet)
      /\ from_robot \in Seq(InSet) /\ response \in RespSet
      /\ NextSeq \in Numbers /\ Len(tx) <= TxMax /\ TxMax \in Nat
  BY NextNumber, Sizes
<1>2. /\ Forget(tx) \in Seq(OutSet) /\ Len(Forget(tx)) = Len(tx)
      /\ Forget(to_robot) \in Seq(OutSet)
  BY <1>1, ForgetOut
<1>3. from_robot' \in Seq(InSet)
  BY <1>1, ForgetIn DEF sendBlocking
<1>4. response' \in RespSet
  BY <1>1 DEF sendBlocking, RespSet
<1>5. Append(Forget(to_robot) \o Forget(tx), Packet("ParamControl", NextSeq, TRUE))
        \in Seq(OutSet)
  <2>1. Forget(to_robot) \o Forget(tx) \in Seq(OutSet)
    BY <1>2
  <2>2. Packet("ParamControl", NextSeq, TRUE) \in OutSet
    BY <1>1 DEF Packet, OutSet, OutTypes
  <2> QED BY <2>1, <2>2, AppendedOut
<1>6. tx' \in Seq(OutSet) /\ Len(tx') <= TxMax /\ to_robot' \in Seq(OutSet)
  <2>1. CASE Full
    BY <2>1, <1>1, <1>2 DEF sendBlocking
  <2>2. CASE ~Full
    <3>1. tx' = <<>>
      BY <2>2 DEF sendBlocking
    <3>2. <<>> \in Seq(OutSet) /\ Len(<<>>) = 0 /\ 0 <= TxMax
      BY <1>1
    <3>3. to_robot' \in Seq(OutSet)
      BY <2>2, <1>5 DEF sendBlocking
    <3> QED BY <3>1, <3>2, <3>3, Zenon
  <2> QED BY <2>1, <2>2
<1> QED BY <1>1, <1>3, <1>4, <1>6 DEF sendBlocking

(* ... when one is read ...                                                *)
LEMMA ReadTypes ==
  ASSUME LineTypes, readPacket,
         UNCHANGED <<global_seq, drive, tx, to_robot, robot_seq, lost>>
  PROVE  LineTypes'
BY ReadOne DEF LineTypes

(* ... deferred ...                                                        *)
LEMMA DeferTypes ==
  ASSUME LineTypes, NEW type \in OutTypes, sendDeferred(type)
  PROVE  LineTypes'
<1>1. NextSeq \in Numbers /\ Packet(type, NextSeq, FALSE) \in OutSet
  BY NextNumber DEF LineTypes, Packet, OutSet
<1>2. tx' \in Seq(OutSet) /\ Len(tx') <= TxMax
  BY <1>1, Deferred DEF sendDeferred
<1> QED BY <1>1, <1>2 DEF sendDeferred, LineTypes, received, lines

(* ... sent by sync, with the drive packet ...                             *)
LEMMA FlushTypes ==
  ASSUME LineTypes, syncFlush
  PROVE  LineTypes'
<1>1. to_robot \o tx \in Seq(OutSet) /\ <<>> \in Seq(OutSet) /\ Len(<<>>) = 0
  BY DEF LineTypes
<1> QED BY <1>1, Sizes DEF syncFlush, LineTypes, received

(* The drive packet goes into the buffer.                                  *)
LEMMA PackTypes ==
  ASSUME LineTypes, syncPack
  PROVE  LineTypes'
<1>1. Packet("DriveControl", drive, FALSE) \in OutSet
  BY DEF LineTypes, Packet, OutSet, OutTypes
<1>2. tx' \in Seq(OutSet) /\ Len(tx') <= TxMax
  BY <1>1, Deferred DEF syncPack
<1> QED BY <1>2 DEF syncPack, LineTypes, received, lines

(* ... answered, or lost.                                                  *)
LEMMA EpochTypes ==
  ASSUME LineTypes, robotEpoch
  PROVE  LineTypes'
<1>1. from_robot' \in Seq(InSet) /\ robot_seq' \in Epochs
  BY EpochSent
<1>2. <<>> \in Seq(OutSet)
  OBVIOUS
<1> QED BY <1>1, <1>2 DEF robotEpoch, LineTypes, received

(* A lost packet leaves the others as they were.                           *)
LEMMA LossTypes ==
  ASSUME LineTypes, lose
  PROVE  LineTypes'
<1>1. lost + 1 \in 0 .. MaxLost
  BY Sizes DEF lose, LineTypes
<1>2. /\ to_robot # <<>> => Tail(to_robot) \in Seq(OutSet)
      /\ from_robot # <<>> => Tail(from_robot) \in Seq(InSet)
  BY DEF LineTypes
<1> QED BY <1>1, <1>2 DEF lose, LineTypes, received

(* Every step keeps the packets and numbers well formed.                   *)
LEMMA LineStep ==
  ASSUME Shape, [Next]_vars
  PROVE  LineTypes'
<1>a. /\ LineTypes
      /\ 1 \in Numbers /\ 0 \in Numbers /\ NextSeq \in Numbers
      /\ "JointControl" \in OutTypes /\ "DriveControl" \in OutTypes
  <2>1. LineTypes /\ global_seq \in Numbers
    BY DEF Shape, ClientTypes, LineTypes
  <2>2. 0 \in Numbers /\ 1 \in Numbers
    BY Sizes DEF Numbers
  <2> QED BY <2>1, <2>2, NextNumber DEF OutTypes
<1>b. UNCHANGED <<global_seq, tx, drive, received, lines>> => LineTypes'
  BY <1>a DEF LineTypes, received, lines
<1> USE <1>a, <1>b DEF vars, clientVars, shellVars
<1>1. CASE InCall /\ lockRead
  BY <1>1 DEF InCall, lockRead
<1>2. CASE InCall /\ await
  <2>1. readPacket /\ UNCHANGED <<global_seq, drive, tx, to_robot, robot_seq, lost>>
    BY <1>2 DEF await
  <2> QED BY <2>1, ReadTypes
<1>3. CASE InCall /\ unlockRead
  BY <1>3 DEF InCall, unlockRead
<1>4. CASE InCall /\ sendBlocking
  BY <1>4, BlockingTypes
<1>5. CASE runnerSends
  BY <1>5, BlockingTypes DEF runnerSends
<1>6. CASE queryReturns
  BY <1>6 DEF queryReturns, unlockWrite
<1>7. CASE readConfiguration
  BY <1>7 DEF readConfiguration
<1>8. CASE queryCalls
  BY <1>8 DEF queryCalls, lockWrite, Goto
<1>9. CASE driveBase
  BY <1>9 DEF driveBase, setBaseVelocity, LineTypes, received, lines
<1>10. CASE sendFn
  BY <1>10, DeferTypes DEF sendFn
<1>11. CASE quitFn
  BY <1>11 DEF quitFn, Command, Goto
<1>12. CASE paramFn
  BY <1>12 DEF paramFn, Command, Goto
<1>13. CASE dumpFn
  BY <1>13 DEF dumpFn, Command, Goto
<1>14. CASE paramSemInit
  BY <1>14 DEF paramSemInit, Goto
<1>15. CASE paramFlag
  BY <1>15 DEF paramFlag, Goto
<1>16. CASE paramWait
  BY <1>16 DEF paramWait, Goto
<1>17. CASE paramUnflag
  BY <1>17 DEF paramUnflag, Goto
<1>18. CASE paramDestroy
  BY <1>18 DEF paramDestroy, Goto
<1>19. CASE paramReturn
  BY <1>19 DEF paramReturn, Goto
<1>20. CASE dumpFlag
  BY <1>20 DEF dumpFlag
<1>21. CASE dumpWait
  BY <1>21 DEF dumpWait
<1>22. CASE dumpUnflag
  BY <1>22 DEF dumpUnflag, Goto
<1>23. CASE dumpDestroy
  BY <1>23 DEF dumpDestroy, Goto
<1>24. CASE join
  BY <1>24 DEF join, Goto
<1>25. CASE runnerSync /\ syncFlush
  BY <1>25, FlushTypes
<1>26. CASE runnerSync /\ syncStamp
  BY <1>26 DEF syncStamp, LineTypes, received, lines
<1>27. CASE runnerSync /\ syncNoDrive
  BY <1>27 DEF runnerSync, syncNoDrive, RunnerGoto
<1>28. CASE runnerSync /\ syncPack
  BY <1>28, PackTypes
<1>29. CASE runnerSync /\ syncNote
  BY <1>29 DEF runnerSync, syncNote
<1>30. CASE runnerSync /\ syncLockRead
  BY <1>30 DEF runnerSync, syncLockRead, RunnerGoto
<1>31. CASE runnerSync /\ syncRead
  <2>1. readPacket /\ UNCHANGED <<global_seq, drive, tx, to_robot, robot_seq, lost>>
    BY <1>31 DEF syncRead
  <2> QED BY <2>1, ReadTypes
<1>32. CASE runnerSync /\ syncCheck
  BY <1>32 DEF runnerSync, syncCheck, RunnerGoto
<1>33. CASE refreshState
  BY <1>33 DEF refreshState, get, RunnerGoto
<1>34. CASE testState
  BY <1>34 DEF testState, RunnerGoto
<1>35. CASE postState
  BY <1>35 DEF postState, RunnerGoto
<1>36. CASE testParam
  BY <1>36 DEF testParam, RunnerGoto
<1>37. CASE opCalls
  BY <1>37 DEF opCalls, RunnerGoto, lockWrite
<1>38. CASE opReturns
  BY <1>38 DEF opReturns, RunnerGoto, unlockWrite, AfterOp
<1>39. CASE postParam
  BY <1>39 DEF postParam, RunnerGoto
<1>40. CASE whileRun
  BY <1>40 DEF whileRun
<1>41. CASE testRunnerGets
  BY <1>41 DEF testRunnerGets, get, RunnerGoto
<1>42. CASE testRunnerSends
  <2>1. CASE Calm(1)
    BY <1>42, <2>1, DeferTypes DEF testRunnerSends
  <2>2. CASE ~Calm(1)
    BY <1>42, <2>2 DEF testRunnerSends
  <2> QED BY <2>1, <2>2
<1>43. CASE baseRunner
  BY <1>43 DEF baseRunner, RunnerGoto
<1>44. CASE OnTheLine /\ robotEpoch
  BY <1>44, EpochTypes
<1>45. CASE OnTheLine /\ lose
  BY <1>45, LossTypes
<1>46. CASE UNCHANGED vars
  BY <1>46
<1> QED
  BY <1>1, <1>2, <1>3, <1>4, <1>5, <1>6, <1>7, <1>8, <1>9, <1>10, <1>11, <1>12, <1>13, <1>14, <1>15, <1>16, <1>17, <1>18, <1>19, <1>20, <1>21, <1>22, <1>23, <1>24, <1>25, <1>26, <1>27, <1>28, <1>29, <1>30, <1>31, <1>32, <1>33, <1>34, <1>35, <1>36, <1>37, <1>38, <1>39, <1>40, <1>41, <1>42, <1>43, <1>44, <1>45, <1>46 DEF Next, Main, InCommand, CallStep, Runner, Ended, InCall, runnerSync,
         Sync, OnTheLine, Line

(* The shape of the state at the start and in every step.                  *)
LEMMA ShapeInit == Init => Shape
<1> SUFFICES ASSUME Init PROVE Shape
  OBVIOUS
<1> USE Sizes DEF Init, ClientInit
<1>1. 0 \in Numbers /\ 0 \in Epochs
  BY DEF Numbers, Epochs
<1>2. CallTypes
  BY <1>1 DEF CallTypes, CallSet, RunnerSet, SyncPcs, Threads, NoCall
<1>3. LineTypes
  <2>1. <<>> \in Seq(OutSet) /\ <<>> \in Seq(InSet) /\ Len(<<>>) = 0
    OBVIOUS
  <2>2. NoResponse \in RespSet
    BY <1>1 DEF NoResponse, RespSet
  <2>3. end_status = FALSE
    OBVIOUS
  <2>4. end_status \in BOOLEAN
    BY <2>3, Zenon
  <2> QED BY <1>1, <2>1, <2>2, <2>4 DEF LineTypes
<1>4. ProgramTypes
  <2>1. program \in AllPrograms
    BY ProgramConstants
  <2>2. main \in MainSet
    BY DEF MainSet
  <2>3. state_sem \in SemSet /\ param_sem \in SemSet
    BY DEF SemSet, NoSem
  <2>4. late \in 0 .. MaxLate /\ sent \in Nat
    OBVIOUS
  <2> QED BY <2>1, <2>2, <2>3, <2>4 DEF ProgramTypes
<1>5. Locks /\ Callers /\ Parts /\ Flags
  BY <1>4 DEF Locks, Callers, Parts, Flags, NoCall, NoSem, ShellPcs, ProgramTypes, MainSet
<1> QED BY <1>2, <1>3, <1>4, <1>5 DEF Shape, ClientTypes

(* The shape of the state is inductive,                                    *)
LEMMA ShapeStep ==
  ASSUME Shape, [Next]_vars
  PROVE  Shape'
BY ControlStep, ProgramStep, ClientCallStep, LineStep DEF Shape, ClientTypes

(* and holds always.                                                       *)
LEMMA ShapeHolds == Spec => []Shape
<1>1. Shape /\ [Next]_vars => Shape'
  BY ShapeStep
<1> QED BY <1>1, ShapeInit, PTL DEF Spec

(* The state is well formed, and the mutexes are held by the threads that  *)
(* are at the places that need them.                                       *)
THEOREM TypeCorrect == Spec => []TypeOK
<1>1. Shape => TypeOK
  BY Sizes DEF Shape, ClientTypes, CallTypes, LineTypes, Locks, TypeOK, CallSet,
     RunnerSet, Numbers, Epochs
<1> QED BY <1>1, ShapeHolds, PTL
----------------------------------------------------------------------------
(* As long as the runner is not late, a command and the runner go on in    *)
(* step: flag, call, result, post, wait.                                   *)
LEMMA AnsweringStep ==
  ASSUME Shape, Answering, [Next]_vars
  PROVE  Answering'
<1>a. /\ call \in CallSet /\ runner \in RunnerSet /\ main \in MainSet
      /\ state_sem \in SemSet /\ param_sem \in SemSet
      /\ late \in Nat /\ sent \in Nat
      /\ Callers /\ Parts /\ Flags
  BY Sizes DEF Shape, ClientTypes, CallTypes, ProgramTypes
<1> USE <1>a DEF Answering, Reported, Busying, Due, Busy, Callers, Parts, Flags,
        CallSet, RunnerSet, MainSet, SemSet, SyncPcs, ShellPcs, ParamPcs, DumpPcs,
        Posted, NewSem, NoSem, At, vars, clientVars, shellVars, NoCall
<1>1. CASE InCall /\ lockRead
  BY <1>1 DEF InCall, lockRead
<1>2. CASE InCall /\ await
  BY <1>2 DEF InCall, await, readPacket
<1>3. CASE InCall /\ unlockRead
  BY <1>3 DEF InCall, unlockRead
<1>4. CASE InCall /\ sendBlocking
  <2>1. main.pc = "called" /\ UNCHANGED <<runner, main, shellVars>>
    BY <1>4 DEF InCall, sendBlocking, lockRead, await, unlockRead
  <2> QED BY <2>1
<1>5. CASE runnerSends
  <2>1. /\ call.pc = "send" /\ runner.pc = "called"
        /\ UNCHANGED <<runner, main, state_sem, param_sem, op_result, late>>
        /\ sending' = "own" /\ (sent = 0 => sent' = 1)
    BY <1>5 DEF runnerSends, sendBlocking
  <2>2. call'.pc \in {"unlockRead", "await"}
    BY <1>5 DEF runnerSends, sendBlocking
  <2> QED BY <2>1, <2>2
<1>6. CASE queryReturns
  BY <1>6 DEF queryReturns, unlockWrite
<1>7. CASE readConfiguration
  BY <1>7 DEF readConfiguration
<1>8. CASE queryCalls
  BY <1>8 DEF queryCalls, lockWrite, Goto
<1>9. CASE driveBase
  BY <1>9 DEF driveBase, setBaseVelocity
<1>10. CASE sendFn
  BY <1>10 DEF sendFn, sendDeferred, Command, Goto
<1>11. CASE quitFn
  BY <1>11 DEF quitFn, Command, Goto
<1>12. CASE paramFn
  BY <1>12 DEF paramFn, Command, Goto
<1>13. CASE dumpFn
  BY <1>13 DEF dumpFn, Command, Goto
<1>14. CASE paramSemInit
  BY <1>14 DEF paramSemInit, Goto
<1>15. CASE paramFlag
  BY <1>15 DEF paramFlag, Goto
<1>16. CASE paramWait
  BY <1>16 DEF paramWait, Goto
<1>17. CASE paramUnflag
  BY <1>17 DEF paramUnflag, Goto
<1>18. CASE paramDestroy
  BY <1>18 DEF paramDestroy, Goto
<1>19. CASE paramReturn
  BY <1>19 DEF paramReturn, Goto
<1>20. CASE dumpFlag
  BY <1>20, Sizes DEF dumpFlag
<1>21. CASE dumpWait
  BY <1>21 DEF dumpWait
<1>22. CASE dumpUnflag
  BY <1>22 DEF dumpUnflag, Goto
<1>23. CASE dumpDestroy
  BY <1>23 DEF dumpDestroy, Goto
<1>24. CASE join
  BY <1>24 DEF join, Goto
<1>25. CASE runnerSync /\ syncFlush
  BY <1>25 DEF runnerSync, syncFlush, RunnerGoto
<1>26. CASE runnerSync /\ syncStamp
  BY <1>26 DEF runnerSync, syncStamp, RunnerGoto
<1>27. CASE runnerSync /\ syncNoDrive
  BY <1>27 DEF runnerSync, syncNoDrive, RunnerGoto
<1>28. CASE runnerSync /\ syncPack
  BY <1>28 DEF runnerSync, syncPack, RunnerGoto
<1>29. CASE runnerSync /\ syncNote
  BY <1>29 DEF runnerSync, syncNote
<1>30. CASE runnerSync /\ syncLockRead
  BY <1>30 DEF runnerSync, syncLockRead, RunnerGoto
<1>31. CASE runnerSync /\ syncRead
  BY <1>31 DEF runnerSync, syncRead, readPacket, RunnerGoto
<1>32. CASE runnerSync /\ syncCheck
  BY <1>32 DEF runnerSync, syncCheck, RunnerGoto
<1>33. CASE refreshState
  BY <1>33 DEF refreshState, get, RunnerGoto
<1>34. CASE testState
  BY <1>34 DEF testState, RunnerGoto
<1>35. CASE postState
  BY <1>35 DEF postState, RunnerGoto
<1>36. CASE testParam
  BY <1>36 DEF testParam, RunnerGoto
<1>37. CASE opCalls
  BY <1>37 DEF opCalls, RunnerGoto, lockWrite
<1>38. CASE opReturns
  BY <1>38 DEF opReturns, RunnerGoto, unlockWrite, AfterOp
<1>39. CASE postParam
  BY <1>39 DEF postParam, RunnerGoto
<1>40. CASE whileRun
  BY <1>40 DEF whileRun
<1>41. CASE testRunnerGets
  BY <1>41 DEF testRunnerGets, get, RunnerGoto
<1>42. CASE testRunnerSends
  BY <1>42 DEF testRunnerSends, RunnerGoto, sendDeferred
<1>43. CASE baseRunner
  BY <1>43 DEF baseRunner, RunnerGoto
<1>44. CASE OnTheLine /\ robotEpoch
  BY <1>44, LineEffect
<1>45. CASE OnTheLine /\ lose
  BY <1>45, LineEffect
<1>46. CASE UNCHANGED vars
  BY <1>46
<1> QED
  BY <1>1, <1>2, <1>3, <1>4, <1>5, <1>6, <1>7, <1>8, <1>9, <1>10, <1>11, <1>12, <1>13, <1>14, <1>15, <1>16, <1>17, <1>18, <1>19, <1>20, <1>21, <1>22, <1>23, <1>24, <1>25, <1>26, <1>27, <1>28, <1>29, <1>30, <1>31, <1>32, <1>33, <1>34, <1>35, <1>36, <1>37, <1>38, <1>39, <1>40, <1>41, <1>42, <1>43, <1>44, <1>45, <1>46 DEF Next, Main, InCommand, CallStep, Runner, Ended, InCall, runnerSync,
         Sync, OnTheLine, Line

(* A command of the shell gets its own answer, and its packet is sent      *)
(* once, as long as the runner completes no epoch between its post and the *)
(* end of the command.                                                     *)
THEOREM CommandGetsItsAnswerAlways == Spec => []CommandGetsItsAnswer
<1>1. Init => Answering
  BY DEF Init, ClientInit, Answering, Reported, Busying
<1>2. Shape /\ Answering /\ [Next]_vars => Answering'
  BY AnsweringStep
<1>3. Answering => CommandGetsItsAnswer
  BY DEF Answering, Reported, CommandGetsItsAnswer
<1> QED BY <1>1, <1>2, <1>3, ShapeHolds, PTL DEF Spec

(* With the same exception, every post of the runner reaches a semaphore   *)
(* that exists.                                                            *)
THEOREM PostsReachSemaphoresAlways == Spec => []PostsReachSemaphores
<1>1. Init => Answering
  BY DEF Init, ClientInit, Answering, Reported, Busying
<1>2. Shape /\ Answering /\ [Next]_vars => Answering'
  BY AnsweringStep
<1>3. Shape /\ Answering => PostsReachSemaphores
  BY DEF Shape, Flags, Answering, Busying, PostsReachSemaphores
<1> QED BY <1>1, <1>2, <1>3, ShapeHolds, PTL DEF Spec
----------------------------------------------------------------------------
(* Reading keeps the status of an epoch before its end, and with the end   *)
(* the client has both.                                                    *)
LEMMA WholeRead ==
  ASSUME LineTypes, Whole, readPacket
  PROVE  /\ Whole'
         /\ end_epoch' # end_epoch => StatusRead'
<1>1. /\ Len(from_robot) \in Nat /\ Len(from_robot) > 0
      /\ DOMAIN from_robot = 1 .. Len(from_robot)
      /\ DOMAIN from_robot' = 1 .. Len(from_robot) - 1
      /\ \A i \in DOMAIN from_robot' : from_robot'[i] = from_robot[i + 1]
      /\ status' = IF from_robot[1].type = "SystemStatus"
                   THEN from_robot[1].p_seq ELSE status
      /\ end_epoch' = IF from_robot[1].type = "EndEpoch"
                      THEN from_robot[1].p_seq ELSE end_epoch
      /\ end_status' = IF from_robot[1].type = "EndEpoch"
                       THEN from_robot[1].with_status ELSE end_status
  <2>1. from_robot \in Seq(InSet) /\ from_robot' \in Seq(InSet)
    BY ReadOne DEF LineTypes
  <2> QED BY <2>1, ReadOne
<1>2. ASSUME NEW i \in DOMAIN from_robot', from_robot'[i].type = "EndEpoch",
             from_robot'[i].with_status
      PROVE  IF i = 1 THEN status' = from_robot'[i].p_seq
             ELSE /\ from_robot'[i - 1].type = "SystemStatus"
                  /\ from_robot'[i - 1].p_seq = from_robot'[i].p_seq
  <2>1. /\ i \in Nat /\ i >= 1 /\ i + 1 \in DOMAIN from_robot /\ i + 1 # 1
        /\ (i + 1) - 1 = i
        /\ from_robot'[i] = from_robot[i + 1]
    BY <1>1
  <2>2. /\ from_robot[i].type = "SystemStatus"
        /\ from_robot[i].p_seq = from_robot[i + 1].p_seq
    BY <1>2, <2>1 DEF Whole
  <2>3. CASE i = 1
    BY <1>1, <2>1, <2>2, <2>3
  <2>4. CASE i # 1
    <3>1. i - 1 \in DOMAIN from_robot' /\ (i - 1) + 1 = i
      BY <1>1, <2>1, <2>4
    <3>2. from_robot'[i - 1] = from_robot[i]
      BY <1>1, <3>1
    <3> QED BY <2>1, <2>2, <2>4, <3>2
  <2> QED BY <2>3, <2>4
<1>3. end_epoch' # end_epoch => StatusRead'
  <2>1. 1 \in DOMAIN from_robot
    BY <1>1
  <2>2. from_robot[1].type = "EndEpoch" /\ from_robot[1].with_status =>
          status = from_robot[1].p_seq
    BY <2>1 DEF Whole
  <2> QED BY <1>1, <2>2 DEF StatusRead
<1> QED BY <1>2, <1>3 DEF Whole

(* An epoch of the robot puts its status, if there is one, before its end. *)
LEMMA WholeEpoch ==
  ASSUME LineTypes, Whole, robotEpoch
  PROVE  Whole'
<1>0. PICK n \in 0 .. Len(to_robot), k \in 0 .. 2 : EpochOf(n, k)
  BY EpochSent, Zenon
<1> DEFINE l == Len(from_robot)
           q == from_robot'
<1>1. /\ n \in 0 .. Len(to_robot) /\ k \in 0 .. 2 /\ Len(q) = l + n + k
      /\ \A i \in 1 .. l : q[i] = from_robot[i]
      /\ \A i \in 1 .. n : q[l + i].type = "Response"
      /\ \A i \in 1 .. k :
           /\ q[l + n + i].p_seq = robot_seq'
           /\ q[l + n + i].type = "EndEpoch" /\ q[l + n + i].with_status =>
                i = 2 /\ q[l + n + 1].type = "SystemStatus"
  BY <1>0 DEF EpochOf
<1>2. /\ l \in Nat /\ n \in Nat /\ k \in Nat /\ DOMAIN from_robot = 1 .. l
      /\ DOMAIN q = 1 .. l + n + k
      /\ UNCHANGED status
  <2>1. from_robot \in Seq(InSet) /\ q \in Seq(InSet)
    BY EpochSent DEF LineTypes
  <2>2. UNCHANGED status
    BY DEF robotEpoch, received
  <2> HIDE DEF q
  <2>3. l \in Nat /\ DOMAIN from_robot = 1 .. l /\ DOMAIN q = 1 .. Len(q)
    BY <2>1
  <2>4. n \in Nat /\ k \in Nat
    BY <1>1, <2>1
  <2>5. Len(q) = l + n + k
    BY <1>1 DEF q
  <2> HIDE DEF l
  <2> QED BY <2>2, <2>3, <2>4, <2>5
<1>3. /\ \A i \in 1 .. l : q[i] = from_robot[i]
      /\ \A i \in 1 .. n : q[l + i].type = "Response"
      /\ \A i \in 1 .. k :
           /\ q[l + n + i].p_seq = robot_seq'
           /\ q[l + n + i].type = "EndEpoch" /\ q[l + n + i].with_status =>
                i = 2 /\ q[l + n + 1].type = "SystemStatus"
  BY <1>1
<1> HIDE DEF l, q
<1>4. ASSUME NEW i \in DOMAIN q, q[i].type = "EndEpoch", q[i].with_status
      PROVE  IF i = 1 THEN status = q[i].p_seq
             ELSE q[i - 1].type = "SystemStatus" /\ q[i - 1].p_seq = q[i].p_seq
  <2>1. i \in 1 .. l \/ i - l \in 1 .. n \/ i - (l + n) \in 1 .. k
    BY <1>2
  <2>2. CASE i \in 1 .. l
    <3>1. q[i] = from_robot[i] /\ i \in DOMAIN from_robot
      BY <1>2, <1>3, <2>2
    <3>2. IF i = 1 THEN status = from_robot[i].p_seq
          ELSE /\ from_robot[i - 1].type = "SystemStatus"
               /\ from_robot[i - 1].p_seq = from_robot[i].p_seq
      BY <1>4, <3>1 DEF Whole
    <3>3. i # 1 => i - 1 \in 1 .. l
      BY <1>2, <2>2
    <3>4. i # 1 => q[i - 1] = from_robot[i - 1]
      BY <1>3, <3>3
    <3> QED BY <3>1, <3>2, <3>4
  <2>3. CASE i - l \in 1 .. n
    <3>1. l + (i - l) = i
      BY <1>2
    <3> QED BY <1>3, <1>4, <2>3, <3>1
  <2>4. CASE i - (l + n) \in 1 .. k
    <3>1. PICK j \in 1 .. k : j = i - (l + n)
      BY <2>4
    <3>2. l + n + j = i
      BY <1>2, <3>1
    <3>3. j = 2 /\ q[l + n + 1].type = "SystemStatus"
      BY <1>3, <1>4, <3>2
    <3>4. 1 \in 1 .. k
      BY <1>2, <3>3
    <3>5. q[l + n + 1].p_seq = robot_seq' /\ q[i].p_seq = robot_seq'
      BY <1>3, <3>2, <3>4
    <3>6. i - 1 = l + n + 1 /\ i # 1
      BY <1>2, <3>2, <3>3
    <3> QED BY <3>3, <3>5, <3>6
  <2> QED BY <2>1, <2>2, <2>3, <2>4
<1> QED BY <1>2, <1>4 DEF Whole, q

(* A blocking call changes nothing of the epochs on the line.              *)
LEMMA WholeForget ==
  ASSUME LineTypes, Whole, sendBlocking
  PROVE  Whole'
<1>1. from_robot \in Seq(InSet)
  BY DEF LineTypes
<1>2. /\ DOMAIN from_robot = 1 .. Len(from_robot) /\ Len(from_robot) \in Nat
      /\ DOMAIN from_robot' = DOMAIN from_robot
      /\ \A i \in DOMAIN from_robot :
           /\ from_robot'[i].type = from_robot[i].type
           /\ from_robot'[i].p_seq = from_robot[i].p_seq
           /\ from_robot[i].type = "EndEpoch" =>
                from_robot'[i].with_status = from_robot[i].with_status
      /\ UNCHANGED status
  BY <1>1, ForgetIn DEF sendBlocking
<1>3. \A i \in DOMAIN from_robot : i # 1 => i - 1 \in DOMAIN from_robot
  BY <1>2
<1> QED BY <1>2, <1>3 DEF Whole

(* Where nothing is lost, every step keeps the epochs whole.               *)
LEMMA EpochalStep ==
  ASSUME Shape, Epochal, [Next]_vars
  PROVE  Epochal'
<1>a. /\ Callers /\ Parts /\ runner \in RunnerSet /\ lost \in Nat /\ LineTypes
  BY Sizes DEF Shape, ClientTypes, CallTypes, LineTypes
<1>b. /\ UNCHANGED <<from_robot, status>> => (Whole => Whole')
      /\ UNCHANGED <<status, end_epoch, end_status>> =>
           (StatusRead' <=> StatusRead)
  BY DEF Whole, StatusRead
<1>c. UNCHANGED <<from_robot, status, end_epoch, end_status, lost, runner,
                  program>> => Epochal'
  BY DEF Epochal, Whole, Synced, StatusRead
<1> USE <1>a, <1>b, <1>c DEF Epochal, Synced, Callers, Parts, RunnerSet, SyncPcs, ShellPcs,
        At, vars, clientVars, shellVars, received, lines
<1>1. CASE InCall /\ lockRead
  BY <1>1 DEF InCall, lockRead
<1>2. CASE InCall /\ await
  <2>1. /\ readPacket /\ UNCHANGED <<runner, program, lost>>
        /\ call.pc = "await"
    BY <1>2 DEF InCall, await
  <2>2. program # "test" => runner.pc = "called"
    <3>1. call.by \in {"main", "runner"} /\ program \in {"shell", "test", "base"}
      BY DEF Shape, ClientTypes, CallTypes, CallSet, Threads, ProgramTypes, AllPrograms
    <3> QED BY <2>1, <1>a, <3>1
  <2>3. lost = 0 => Whole'
    BY <2>1, WholeRead
  <2> QED BY <2>1, <2>2, <2>3
<1>3. CASE InCall /\ unlockRead
  BY <1>3 DEF InCall, unlockRead
<1>4. CASE InCall /\ sendBlocking
  <2>1. UNCHANGED <<runner, program, lost, status, end_epoch, end_status>>
    BY <1>4 DEF InCall, sendBlocking
  <2> QED BY <1>4, <2>1, WholeForget
<1>5. CASE runnerSends
  <2>1. /\ UNCHANGED <<runner, program, lost, status, end_epoch, end_status>>
        /\ sendBlocking
    BY <1>5 DEF runnerSends, sendBlocking
  <2> QED BY <2>1, WholeForget
<1>6. CASE queryReturns
  BY <1>6 DEF queryReturns, unlockWrite
<1>7. CASE readConfiguration
  BY <1>7 DEF readConfiguration
<1>8. CASE queryCalls
  BY <1>8 DEF queryCalls, lockWrite, Goto
<1>9. CASE driveBase
  BY <1>9 DEF driveBase, setBaseVelocity
<1>10. CASE sendFn
  BY <1>10 DEF sendFn, sendDeferred, Command, Goto
<1>11. CASE quitFn
  BY <1>11 DEF quitFn, Command, Goto
<1>12. CASE paramFn
  BY <1>12 DEF paramFn, Command, Goto
<1>13. CASE dumpFn
  BY <1>13 DEF dumpFn, Command, Goto
<1>14. CASE paramSemInit
  BY <1>14 DEF paramSemInit, Goto
<1>15. CASE paramFlag
  BY <1>15 DEF paramFlag, Goto
<1>16. CASE paramWait
  BY <1>16 DEF paramWait, Goto
<1>17. CASE paramUnflag
  BY <1>17 DEF paramUnflag, Goto
<1>18. CASE paramDestroy
  BY <1>18 DEF paramDestroy, Goto
<1>19. CASE paramReturn
  BY <1>19 DEF paramReturn, Goto
<1>20. CASE dumpFlag
  BY <1>20 DEF dumpFlag
<1>21. CASE dumpWait
  BY <1>21 DEF dumpWait
<1>22. CASE dumpUnflag
  BY <1>22 DEF dumpUnflag, Goto
<1>23. CASE dumpDestroy
  BY <1>23 DEF dumpDestroy, Goto
<1>24. CASE join
  BY <1>24 DEF join, Goto
<1>25. CASE runnerSync /\ syncFlush
  BY <1>25 DEF runnerSync, syncFlush, RunnerGoto
<1>26. CASE runnerSync /\ syncStamp
  BY <1>26 DEF runnerSync, syncStamp, RunnerGoto
<1>27. CASE runnerSync /\ syncNoDrive
  BY <1>27 DEF runnerSync, syncNoDrive, RunnerGoto
<1>28. CASE runnerSync /\ syncPack
  BY <1>28 DEF runnerSync, syncPack, RunnerGoto
<1>29. CASE runnerSync /\ syncNote
  BY <1>29 DEF runnerSync, syncNote
<1>30. CASE runnerSync /\ syncLockRead
  BY <1>30 DEF runnerSync, syncLockRead, RunnerGoto
<1>31. CASE runnerSync /\ syncRead
  <2>1. /\ readPacket /\ UNCHANGED <<program, lost>>
        /\ runner.pc = "read" /\ runner'.pc = "check"
        /\ runner'.current_seq = runner.current_seq
    BY <1>31 DEF runnerSync, syncRead, RunnerGoto
  <2>2. lost = 0 => Whole' /\ (end_epoch' # end_epoch => StatusRead')
    BY <2>1, WholeRead
  <2> QED BY <2>1, <2>2
<1>32. CASE runnerSync /\ syncCheck
  <2>1. UNCHANGED <<from_robot, status, end_epoch, end_status, lost, program>>
    BY <1>32 DEF runnerSync, syncCheck
  <2>2. /\ runner.pc = "check"
        /\ runner'.pc = IF runner.current_seq # end_epoch THEN "return"
                        ELSE "lockRead"
        /\ runner.current_seq = end_epoch =>
             runner'.current_seq = runner.current_seq
    BY <1>32 DEF runnerSync, syncCheck, NewEpoch
  <2> QED BY <2>1, <2>2
<1>33. CASE refreshState
  BY <1>33 DEF refreshState, get, RunnerGoto
<1>34. CASE testState
  BY <1>34 DEF testState, RunnerGoto
<1>35. CASE postState
  BY <1>35 DEF postState, RunnerGoto
<1>36. CASE testParam
  BY <1>36 DEF testParam, RunnerGoto
<1>37. CASE opCalls
  BY <1>37 DEF opCalls, RunnerGoto, lockWrite
<1>38. CASE opReturns
  BY <1>38 DEF opReturns, RunnerGoto, unlockWrite, AfterOp
<1>39. CASE postParam
  BY <1>39 DEF postParam, RunnerGoto
<1>40. CASE whileRun
  BY <1>40 DEF whileRun
<1>41. CASE testRunnerGets
  BY <1>41 DEF testRunnerGets, get, RunnerGoto
<1>42. CASE testRunnerSends
  BY <1>42 DEF testRunnerSends, RunnerGoto, sendDeferred
<1>43. CASE baseRunner
  BY <1>43 DEF baseRunner, RunnerGoto
<1>44. CASE OnTheLine /\ robotEpoch
  <2>1. UNCHANGED <<runner, program, lost, status, end_epoch, end_status>>
    BY <1>44, Zenon DEF OnTheLine, robotEpoch, received
  <2> QED BY <1>44, <2>1, WholeEpoch
<1>45. CASE OnTheLine /\ lose
  <2>1. lost' # 0
    BY <1>45 DEF lose
  <2> QED BY <2>1
<1>46. CASE UNCHANGED vars
  BY <1>46
<1> QED
  BY <1>1, <1>2, <1>3, <1>4, <1>5, <1>6, <1>7, <1>8, <1>9, <1>10, <1>11, <1>12, <1>13, <1>14, <1>15, <1>16, <1>17, <1>18, <1>19, <1>20, <1>21, <1>22, <1>23, <1>24, <1>25, <1>26, <1>27, <1>28, <1>29, <1>30, <1>31, <1>32, <1>33, <1>34, <1>35, <1>36, <1>37, <1>38, <1>39, <1>40, <1>41, <1>42, <1>43, <1>44, <1>45, <1>46 DEF Next, Main, InCommand, CallStep, Runner, Ended, InCall, runnerSync,
         Sync, OnTheLine, Line

(* Where nobody else reads and nothing is lost on the line, the client has *)
(* the status of the epoch whose end it has read when sync returns, if the *)
(* robot sent one in that epoch.                                           *)
THEOREM SyncReadsWholeEpochAlways == Spec => []SyncReadsWholeEpoch
<1>1. Init => Epochal
  <2>1. ASSUME Init PROVE Epochal
    <3>1. DOMAIN from_robot = 1 .. 0 /\ status = 0 /\ end_epoch = 0
      BY <2>1 DEF Init, ClientInit
    <3>2. runner.pc = "sync"
      BY <2>1 DEF Init, ClientInit
    <3> QED BY <3>1, <3>2 DEF Epochal, Whole, Synced
  <2> QED BY <2>1
<1>2. Shape /\ Epochal /\ [Next]_vars => Epochal'
  BY EpochalStep
<1>3. Epochal => SyncReadsWholeEpoch
  BY DEF Epochal, Synced, StatusRead, SyncReadsWholeEpoch
<1> QED BY <1>1, <1>2, <1>3, ShapeHolds, PTL DEF Spec
----------------------------------------------------------------------------
(* Numbers and their age *)

LEMMA AgeRange ==
  ASSUME NEW g \in Numbers, NEW x \in Numbers
  PROVE  /\ Age(g, x) \in Nat /\ Age(g, x) < SeqRange
         /\ Age(g, g) = 0 /\ (Age(g, x) = 0 => x = g)
BY Sizes DEF Age, Numbers

(* The next number makes all others older by one, unless it is theirs.     *)
LEMMA AgeNext ==
  ASSUME NEW g \in Numbers, NEW h \in Numbers,
         h = IF g = SeqRange - 1 THEN 0 ELSE g + 1
  PROVE  \A x \in Numbers : Age(g, x) + 1 < SeqRange => Age(h, x) = Age(g, x) + 1
BY Sizes DEF Age, Numbers

(* Unanswered is the age of the last response.                             *)
LEMMA AgeUnanswered ==
  ASSUME LineTypes
  PROVE  /\ Unanswered = Age(global_seq, response.p_seq)
         /\ Unanswered \in Nat
<1>1. /\ global_seq \in Numbers /\ response.p_seq \in Numbers
      /\ global_seq \in Nat /\ global_seq < SeqRange
      /\ response.p_seq \in Nat /\ response.p_seq < SeqRange /\ SeqRange \in Nat
  BY Sizes DEF LineTypes, RespSet, Numbers
<1> DEFINE g == global_seq
           r == response.p_seq
           n == (g + SeqRange) - r
<1>2. n \in Nat /\ (r <= g => n - SeqRange \in 0 .. SeqRange - 1)
      /\ (~(r <= g) => n \in 0 .. SeqRange - 1)
  BY <1>1
<1>3. n % SeqRange = IF r <= g THEN n - SeqRange ELSE n
  <2> HIDE DEF n
  <2> SUFFICES ASSUME NEW b \in BOOLEAN, b <=> r <= g
               PROVE  n % SeqRange = IF b THEN n - SeqRange ELSE n
    OBVIOUS
  <2>1. CASE b
    BY <1>1, <1>2, <2>1
  <2>2. CASE ~b
    BY <1>1, <1>2, <2>2
  <2> QED BY <2>1, <2>2
<1>4. n - SeqRange = g - r
  BY <1>1
<1>5. Unanswered = n % SeqRange
  BY <1>1 DEF Unanswered
<1> QED BY <1>1, <1>3, <1>4, <1>5, AgeRange DEF Age

(* Which packets have a number, and that it is one.                        *)
LEMMA Numbering ==
  /\ \A p \in OutSet : Numbered(p) /\ Number(p) = p.seq /\ Number(p) \in Numbers
  /\ \A p \in InSet : /\ Numbered(p) <=> p.type = "Response"
                      /\ Numbered(p) => Number(p) = p.p_seq /\ Number(p) \in Numbers
BY DEF Numbered, Number, OutSet, OutTypes, InSet, RespSet, OwnSet

(* What the next number does to the order: nothing.                        *)
LEMMA OrderNext ==
  ASSUME NEW g \in Numbers, NEW h \in Numbers, NEW r \in Numbers,
         NEW in \in Seq(InSet), NEW out \in Seq(OutSet), NEW buffer \in Seq(OutSet),
         h = IF g = SeqRange - 1 THEN 0 ELSE g + 1,
         InOrder(g, r, in, out, buffer), Age(g, r) + 1 < SeqRange
  PROVE  InOrder(h, r, in, out, buffer) /\ Age(h, r) = Age(g, r) + 1
<1>1. \A x \in Numbers : Age(g, x) + 1 < SeqRange => Age(h, x) = Age(g, x) + 1
  BY AgeNext
<1>2. \A x \in Numbers : Age(g, x) \in Nat
  BY AgeRange
<1>3. Age(h, r) = Age(g, r) + 1
  BY <1>1
<1>4. \A x \in Numbers : Age(g, x) <= Age(g, r) => Age(h, x) = Age(g, x) + 1
  BY <1>1, <1>2, Sizes
<1>5. \A i \in DOMAIN in : Numbered(in[i]) =>
        /\ Age(h, Number(in[i])) = Age(g, Number(in[i])) + 1
        /\ Age(g, Number(in[i])) \in Nat
  BY <1>2, <1>4, Numbering DEF InOrder, Since
<1>6. \A i \in DOMAIN out :
        /\ Age(h, Number(out[i])) = Age(g, Number(out[i])) + 1
        /\ Age(g, Number(out[i])) \in Nat
  <2> SUFFICES ASSUME NEW i \in DOMAIN out
               PROVE  /\ Age(h, Number(out[i])) = Age(g, Number(out[i])) + 1
                      /\ Age(g, Number(out[i])) \in Nat
    OBVIOUS
  <2>1. out[i] \in OutSet
    OBVIOUS
  <2>2. Numbered(out[i]) /\ Number(out[i]) \in Numbers
    BY <2>1, Numbering
  <2>3. Age(g, Number(out[i])) <= Age(g, r)
    BY <2>2 DEF InOrder, Since
  <2> QED BY <1>2, <1>4, <2>2, <2>3
<1>7. \A i \in DOMAIN buffer :
        /\ Age(h, Number(buffer[i])) = Age(g, Number(buffer[i])) + 1
        /\ Age(g, Number(buffer[i])) \in Nat
  <2> SUFFICES ASSUME NEW i \in DOMAIN buffer
               PROVE  /\ Age(h, Number(buffer[i])) = Age(g, Number(buffer[i])) + 1
                      /\ Age(g, Number(buffer[i])) \in Nat
    OBVIOUS
  <2>1. buffer[i] \in OutSet
    OBVIOUS
  <2>2. Numbered(buffer[i]) /\ Number(buffer[i]) \in Numbers
    BY <2>1, Numbering
  <2>3. Age(g, Number(buffer[i])) <= Age(g, r)
    BY <2>2 DEF InOrder, Since
  <2> QED BY <1>2, <1>4, <2>2, <2>3
<1>8. Since(h, r, in) /\ Since(h, r, out) /\ Since(h, r, buffer)
  BY <1>2, <1>3, <1>5, <1>6, <1>7 DEF InOrder, Since
<1>9. Ordered(h, in) /\ Ordered(h, out) /\ Ordered(h, buffer)
  BY <1>5, <1>6, <1>7 DEF InOrder, Ordered
<1>10. Before(h, in, out) /\ Before(h, in, buffer) /\ Before(h, out, buffer)
  BY <1>5, <1>6, <1>7 DEF InOrder, Before
<1> QED BY <1>3, <1>8, <1>9, <1>10 DEF InOrder

(* The packet with the last number may follow all others: in the buffer,   *)
LEMMA OrderDeferred ==
  ASSUME NEW g \in Numbers, NEW r \in Numbers, NEW p \in OutSet, p.seq = g,
         NEW in \in Seq(InSet), NEW out \in Seq(OutSet), NEW buffer \in Seq(OutSet),
         InOrder(g, r, in, out, buffer)
  PROVE  InOrder(g, r, in, out, Append(buffer, p))
<1> DEFINE b == Append(buffer, p)
<1>1. /\ DOMAIN b = 1 .. Len(buffer) + 1 /\ DOMAIN buffer = 1 .. Len(buffer)
      /\ Len(buffer) \in Nat
      /\ \A i \in DOMAIN buffer : b[i] = buffer[i]
      /\ b[Len(buffer) + 1] = p
  BY AppendedOut
<1> HIDE DEF b
<1>2. \A i \in DOMAIN b : i \in DOMAIN buffer \/ i = Len(buffer) + 1
  BY <1>1
<1>3. Age(g, Number(p)) = 0
  BY Numbering, AgeRange
<1>4. /\ \A x \in Numbers : 0 <= Age(g, x)
      /\ \A i \in DOMAIN in : Numbered(in[i]) => 0 <= Age(g, Number(in[i]))
      /\ \A i \in DOMAIN out : 0 <= Age(g, Number(out[i]))
      /\ \A i \in DOMAIN buffer : 0 <= Age(g, Number(buffer[i]))
  <2>1. \A x \in Numbers : 0 <= Age(g, x)
    BY AgeRange
  <2> QED BY <2>1, Numbering
<1>5. Since(g, r, b)
  BY <1>1, <1>2, <1>3, <1>4 DEF InOrder, Since
<1>6. Ordered(g, b)
  <2> SUFFICES ASSUME NEW i \in DOMAIN b, NEW j \in DOMAIN b, i < j,
                      Numbered(b[i]), Numbered(b[j])
               PROVE  Age(g, Number(b[j])) <= Age(g, Number(b[i]))
    BY DEF Ordered
  <2>1. i \in DOMAIN buffer
    BY <1>1
  <2>2. CASE j \in DOMAIN buffer
    BY <2>1, <2>2, <1>1 DEF InOrder, Ordered
  <2>3. CASE j = Len(buffer) + 1
    BY <2>1, <2>3, <1>1, <1>3, <1>4
  <2> QED BY <2>2, <2>3, <1>2
<1>7. Before(g, in, b)
  BY <1>1, <1>2, <1>3, <1>4 DEF InOrder, Before
<1>8. Before(g, out, b)
  BY <1>1, <1>2, <1>3, <1>4 DEF InOrder, Before
<1> QED BY <1>5, <1>6, <1>7, <1>8 DEF InOrder, b

(* and the buffer may be put on the line.                                  *)
LEMMA OrderFlushed ==
  ASSUME NEW g \in Numbers, NEW r \in Numbers,
         NEW in \in Seq(InSet), NEW out \in Seq(OutSet), NEW buffer \in Seq(OutSet),
         InOrder(g, r, in, out, buffer)
  PROVE  InOrder(g, r, in, out \o buffer, <<>>)
<1> DEFINE b == out \o buffer
           l == Len(out)
<1>1. /\ DOMAIN b = 1 .. l + Len(buffer) /\ DOMAIN buffer = 1 .. Len(buffer)
      /\ l \in Nat /\ Len(buffer) \in Nat /\ DOMAIN out = 1 .. l
      /\ \A i \in 1 .. l : b[i] = out[i]
      /\ \A i \in 1 .. Len(buffer) : b[l + i] = buffer[i]
  BY JoinedOut
<1>2. \A i \in DOMAIN b :
        \/ i \in DOMAIN out /\ b[i] = out[i]
        \/ i - l \in DOMAIN buffer /\ i > l /\ b[i] = buffer[i - l]
  <2> SUFFICES ASSUME NEW i \in DOMAIN b, ~(i \in 1 .. l)
               PROVE  i - l \in DOMAIN buffer /\ i > l /\ b[i] = buffer[i - l]
    BY <1>1
  <2> HIDE DEF b, l
  <2>1. i - l \in 1 .. Len(buffer) /\ l + (i - l) = i /\ i > l
    BY <1>1
  <2> QED BY <1>1, <2>1
<1> HIDE DEF b, l
<1>3. DOMAIN <<>> = {}
  OBVIOUS
<1>4. Since(g, r, b)
  BY <1>2 DEF InOrder, Since
<1>5. Before(g, in, b)
  BY <1>2 DEF InOrder, Before
<1>6. Ordered(g, b)
  <2> SUFFICES ASSUME NEW i \in DOMAIN b, NEW j \in DOMAIN b, i < j,
                      Numbered(b[i]), Numbered(b[j])
               PROVE  Age(g, Number(b[j])) <= Age(g, Number(b[i]))
    BY DEF Ordered
  <2>1. CASE i \in DOMAIN out /\ b[i] = out[i] /\ j \in DOMAIN out /\ b[j] = out[j]
    BY <2>1 DEF InOrder, Ordered
  <2>2. CASE i \in DOMAIN out /\ b[i] = out[i] /\ j - l \in DOMAIN buffer /\ b[j] = buffer[j - l]
    BY <2>2 DEF InOrder, Before
  <2>3. CASE /\ i - l \in DOMAIN buffer /\ b[i] = buffer[i - l]
             /\ j - l \in DOMAIN buffer /\ b[j] = buffer[j - l]
    <3>1. i - l < j - l
      BY <1>1
    <3> QED BY <2>3, <3>1 DEF InOrder, Ordered
  <2>4. CASE i > l /\ j \in DOMAIN out
    BY <2>4, <1>1
  <2> QED BY <1>2, <2>1, <2>2, <2>3, <2>4
<1> QED BY <1>3, <1>4, <1>5, <1>6 DEF InOrder, Since, Ordered, Before, b

(* Only the numbers of the packets matter.                                 *)
LEMMA OrderSame ==
  ASSUME NEW g \in Numbers, NEW r \in Numbers,
         NEW in \in Seq(InSet), NEW out \in Seq(OutSet), NEW buffer \in Seq(OutSet),
         InOrder(g, r, in, out, buffer)
  PROVE  InOrder(g, r, Forget(in), Forget(out), Forget(buffer))
<1> DEFINE i2 == Forget(in)
           o2 == Forget(out)
           b2 == Forget(buffer)
<1>1. /\ DOMAIN i2 = DOMAIN in
      /\ \A i \in DOMAIN in :
           /\ Numbered(i2[i]) <=> Numbered(in[i])
           /\ Numbered(in[i]) => Number(i2[i]) = Number(in[i])
  <2>1. /\ i2 \in Seq(InSet) /\ DOMAIN i2 = DOMAIN in
        /\ \A i \in DOMAIN in : /\ i2[i].type = in[i].type
                                /\ i2[i].p_seq = in[i].p_seq
    BY ForgetIn
  <2>2. \A i \in DOMAIN in : in[i] \in InSet
    OBVIOUS
  <2> QED BY <2>1, <2>2, Numbering DEF Numbered, Number
<1>2. /\ DOMAIN o2 = DOMAIN out
      /\ \A i \in DOMAIN out :
           /\ Numbered(o2[i]) <=> Numbered(out[i])
           /\ Numbered(out[i]) => Number(o2[i]) = Number(out[i])
  <2>1. /\ DOMAIN o2 = DOMAIN out
        /\ \A i \in DOMAIN out : o2[i].type = out[i].type /\ o2[i].seq = out[i].seq
    BY ForgetOut
  <2>2. \A i \in DOMAIN out : out[i] \in OutSet
    OBVIOUS
  <2>3. \A i \in DOMAIN out : out[i].type # "Response"
    BY <2>2 DEF OutSet, OutTypes
  <2> QED BY <2>1, <2>3 DEF Numbered, Number
<1>3. /\ DOMAIN b2 = DOMAIN buffer
      /\ \A i \in DOMAIN buffer :
           /\ Numbered(b2[i]) <=> Numbered(buffer[i])
           /\ Numbered(buffer[i]) => Number(b2[i]) = Number(buffer[i])
  <2>1. /\ DOMAIN b2 = DOMAIN buffer
        /\ \A i \in DOMAIN buffer :
             b2[i].type = buffer[i].type /\ b2[i].seq = buffer[i].seq
    BY ForgetOut
  <2>2. \A i \in DOMAIN buffer : buffer[i] \in OutSet
    OBVIOUS
  <2>3. \A i \in DOMAIN buffer : buffer[i].type # "Response"
    BY <2>2 DEF OutSet, OutTypes
  <2> QED BY <2>1, <2>3 DEF Numbered, Number
<1> HIDE DEF i2, o2, b2
<1>4. Since(g, r, i2) /\ Since(g, r, o2) /\ Since(g, r, b2)
  BY <1>1, <1>2, <1>3 DEF InOrder, Since
<1>5. Ordered(g, i2) /\ Ordered(g, o2) /\ Ordered(g, b2)
  BY <1>1, <1>2, <1>3 DEF InOrder, Ordered
<1>6. Before(g, i2, o2) /\ Before(g, i2, b2) /\ Before(g, o2, b2)
  BY <1>1, <1>2, <1>3 DEF InOrder, Before
<1> QED BY <1>4, <1>5, <1>6 DEF InOrder, i2, o2, b2

(* The packet of a blocking call goes to the robot, after the others.      *)
LEMMA OrderSent ==
  ASSUME NEW g \in Numbers, NEW r \in Numbers, NEW p \in OutSet, p.seq = g,
         NEW in \in Seq(InSet), NEW out \in Seq(OutSet), NEW buffer \in Seq(OutSet),
         InOrder(g, r, in, out, buffer)
  PROVE  InOrder(g, r, in, Append(out \o buffer, p), <<>>)
<1> DEFINE o == out \o buffer
           b == Append(<<>>, p)
<1>1. o \in Seq(OutSet) /\ <<>> \in Seq(OutSet) /\ b \in Seq(OutSet)
  OBVIOUS
<1>2. InOrder(g, r, in, o, <<>>)
  BY OrderFlushed
<1> HIDE DEF o
<1>3. InOrder(g, r, in, o, b)
  BY <1>1, <1>2, OrderDeferred
<1>4. Append(o, p) = o \o b
  BY <1>1
<1> HIDE DEF b
<1>5. InOrder(g, r, in, o \o b, <<>>)
  BY <1>1, <1>3, OrderFlushed
<1> QED BY <1>4, <1>5 DEF o

(* The client reads the next packet, or it is lost.                        *)
LEMMA OrderRead ==
  ASSUME NEW g \in Numbers, NEW r \in Numbers, NEW r2 \in Numbers,
         NEW in \in Seq(InSet), NEW out \in Seq(OutSet), NEW buffer \in Seq(OutSet),
         in # <<>>, InOrder(g, r, in, out, buffer),
         r2 = r \/ (Numbered(in[1]) /\ r2 = Number(in[1]))
  PROVE  InOrder(g, r2, Tail(in), out, buffer) /\ Age(g, r2) <= Age(g, r)
<1> DEFINE t == Tail(in)
<1>1. /\ \A i \in DOMAIN t : i + 1 \in DOMAIN in /\ 1 < i + 1 /\ t[i] = in[i + 1]
      /\ \A i, j \in DOMAIN t : i < j => i + 1 < j + 1
      /\ 1 \in DOMAIN in
  OBVIOUS
<1>2. Age(g, r) <= Age(g, r)
  BY AgeRange
<1> HIDE DEF t
<1>3. /\ Since(g, r, t) /\ Ordered(g, t) /\ Before(g, t, out) /\ Before(g, t, buffer)
  <2>1. Since(g, r, t)
    BY <1>1 DEF InOrder, Since
  <2>2. Ordered(g, t)
    BY <1>1 DEF InOrder, Ordered
  <2>3. Before(g, t, out) /\ Before(g, t, buffer)
    BY <1>1 DEF InOrder, Before
  <2> QED BY <2>1, <2>2, <2>3
<1>4. CASE r2 = r
  BY <1>2, <1>3, <1>4 DEF InOrder, t
<1>5. CASE Numbered(in[1]) /\ r2 = Number(in[1])
  <2>1. Age(g, r2) <= Age(g, r)
    BY <1>1, <1>5 DEF InOrder, Since
  <2>2. Since(g, r2, t)
    BY <1>1, <1>5 DEF InOrder, Ordered, Since
  <2>3. Since(g, r2, out)
    BY <1>1, <1>5 DEF InOrder, Before, Since
  <2>4. Since(g, r2, buffer)
    BY <1>1, <1>5 DEF InOrder, Before, Since
  <2> QED BY <2>1, <2>2, <2>3, <2>4, <1>3 DEF InOrder, t
<1> QED BY <1>4, <1>5

(* A packet to the robot is lost.                                          *)
LEMMA OrderLost ==
  ASSUME NEW g \in Numbers, NEW r \in Numbers,
         NEW in \in Seq(InSet), NEW out \in Seq(OutSet), NEW buffer \in Seq(OutSet),
         out # <<>>, InOrder(g, r, in, out, buffer)
  PROVE  InOrder(g, r, in, Tail(out), buffer)
<1> DEFINE t == Tail(out)
<1>1. /\ \A i \in DOMAIN t : i + 1 \in DOMAIN out /\ t[i] = out[i + 1]
      /\ \A i, j \in DOMAIN t : i < j => i + 1 < j + 1
  OBVIOUS
<1> HIDE DEF t
<1>2. Since(g, r, t)
  BY <1>1 DEF InOrder, Since
<1>3. Ordered(g, t)
  BY <1>1 DEF InOrder, Ordered
<1>4. Before(g, in, t) /\ Before(g, t, buffer)
  BY <1>1 DEF InOrder, Before
<1> QED BY <1>2, <1>3, <1>4 DEF InOrder, t

(* The robot answers what has come: the first of it.                       *)
LEMMA OrderEpoch ==
  ASSUME LineTypes, robotEpoch, NEW g \in Numbers, NEW r \in Numbers,
         InOrder(g, r, from_robot, to_robot, tx)
  PROVE  InOrder(g, r, from_robot', <<>>, tx)
<1> DEFINE l == Len(from_robot)
           q == from_robot'
<1>0. PICK n \in 0 .. Len(to_robot), k \in 0 .. 2 : EpochOf(n, k)
  BY EpochSent, Zenon
<1>1. /\ Len(q) = l + n + k
      /\ \A i \in 1 .. l : q[i] = from_robot[i]
      /\ \A i \in 1 .. n : /\ q[l + i].type = "Response"
                           /\ q[l + i].p_seq = to_robot[i].seq
      /\ \A i \in 1 .. k : q[l + n + i].type \in {"SystemStatus", "EndEpoch"}
  BY <1>0 DEF EpochOf
<1>2. /\ l \in Nat /\ n \in Nat /\ n <= Len(to_robot) /\ Len(to_robot) \in Nat
      /\ k \in Nat
      /\ DOMAIN from_robot = 1 .. l /\ DOMAIN to_robot = 1 .. Len(to_robot)
      /\ DOMAIN q = 1 .. l + n + k
  <2>1. from_robot \in Seq(InSet) /\ q \in Seq(InSet) /\ to_robot \in Seq(OutSet)
    BY EpochSent DEF LineTypes
  <2> QED BY <1>1, <2>1
<1>3. \A i \in DOMAIN to_robot :
        Numbered(to_robot[i]) /\ Number(to_robot[i]) = to_robot[i].seq
  BY Numbering DEF LineTypes
<1> HIDE DEF l, q
<1>4. \A i \in DOMAIN q : Numbered(q[i]) =>
        \/ i \in DOMAIN from_robot /\ q[i] = from_robot[i]
        \/ /\ i > l /\ i - l \in DOMAIN to_robot
           /\ Number(q[i]) = Number(to_robot[i - l])
  <2> SUFFICES ASSUME NEW i \in DOMAIN q, Numbered(q[i]), ~(i \in 1 .. l)
               PROVE  /\ i > l /\ i - l \in DOMAIN to_robot
                      /\ Number(q[i]) = Number(to_robot[i - l])
    BY <1>1, <1>2
  <2>1. ~(i - (l + n) \in 1 .. k)
    <3> SUFFICES ASSUME i - (l + n) \in 1 .. k
                 PROVE  FALSE
      OBVIOUS
    <3>1. l + n + (i - (l + n)) = i
      BY <1>2
    <3> QED BY <1>1, <3>1 DEF Numbered
  <2>2. i - l \in 1 .. n /\ i > l /\ l + (i - l) = i
    BY <1>2, <2>1
  <2>3. q[i].type = "Response" /\ q[i].p_seq = to_robot[i - l].seq
    BY <1>1, <2>2
  <2>4. i - l \in DOMAIN to_robot
    BY <1>2, <2>2
  <2> QED BY <1>3, <2>2, <2>3, <2>4 DEF Number
<1>5. Since(g, r, q)
  BY <1>3, <1>4 DEF InOrder, Since
<1>6. Before(g, q, tx)
  BY <1>3, <1>4 DEF InOrder, Before
<1>7. Ordered(g, q)
  <2> SUFFICES ASSUME NEW i \in DOMAIN q, NEW j \in DOMAIN q, i < j,
                      Numbered(q[i]), Numbered(q[j])
               PROVE  Age(g, Number(q[j])) <= Age(g, Number(q[i]))
    BY DEF Ordered
  <2>1. CASE /\ i \in DOMAIN from_robot /\ q[i] = from_robot[i]
             /\ j \in DOMAIN from_robot /\ q[j] = from_robot[j]
    BY <2>1 DEF InOrder, Ordered
  <2>2. CASE /\ i \in DOMAIN from_robot /\ q[i] = from_robot[i]
             /\ j - l \in DOMAIN to_robot
             /\ Number(q[j]) = Number(to_robot[j - l])
    BY <2>2, <1>3 DEF InOrder, Before
  <2>3. CASE /\ i - l \in DOMAIN to_robot
             /\ Number(q[i]) = Number(to_robot[i - l])
             /\ j - l \in DOMAIN to_robot
             /\ Number(q[j]) = Number(to_robot[j - l])
    <3>1. i - l < j - l
      BY <1>2
    <3> QED BY <2>3, <3>1, <1>3 DEF InOrder, Ordered
  <2>4. CASE i > l /\ j \in DOMAIN from_robot
    BY <2>4, <1>2
  <2> QED BY <1>4, <2>1, <2>2, <2>3, <2>4
<1>8. DOMAIN <<>> = {}
  OBVIOUS
<1> QED BY <1>5, <1>6, <1>7, <1>8 DEF InOrder, Since, Ordered, Before, q

(* What may still be sent before the next answer never outruns the         *)
(* numbers: a packet is sent from the budget, and the budget is raised     *)
(* only where the program does not outrun the line.                        *)
LEMMA BudgetStep ==
  ASSUME Shape, Shape', [Next]_vars, program # "base",
         Unanswered \in Nat, Unanswered + ToSend < SeqRange
  PROVE  Unanswered + (IF global_seq' = global_seq THEN 0 ELSE 1) + ToSend' < SeqRange
<1>a. /\ Unanswered \in Nat /\ SeqRange \in Nat /\ MaxLate \in Nat /\ MaxLate > 0
      /\ late \in Nat /\ late <= MaxLate /\ late' \in Nat /\ late' <= MaxLate
      /\ call \in CallSet /\ runner \in RunnerSet /\ main \in MainSet
      /\ param_sem \in SemSet /\ state_sem \in SemSet
      /\ Callers /\ Parts /\ Flags /\ Locks
      /\ program \in {"shell", "test"}
  BY Sizes DEF Shape, ClientTypes, CallTypes, ProgramTypes, AllPrograms
<1> USE <1>a DEF ToSend, CallToSend, CommandToSend, Returned, Busying,
        Reported, Due, Busy, Callers, Parts, Flags, Locks,
        CallSet, RunnerSet, MainSet, SemSet, SyncPcs, ShellPcs, ParamPcs, DumpPcs,
        Posted, NewSem, NoSem, At, vars, clientVars, shellVars, received, lines, NoCall
<1>1. CASE InCall /\ lockRead
  BY <1>1 DEF InCall, lockRead
<1>2. CASE InCall /\ await
  BY <1>2 DEF InCall, await, readPacket
<1>3. CASE InCall /\ unlockRead
  BY <1>3 DEF InCall, unlockRead
<1>4. CASE InCall /\ sendBlocking
  <2>1. /\ call.pc = "send" /\ runner.pc # "op" /\ UNCHANGED <<runner, main, param_sem, late>>
        /\ call'.pc \in {"unlockRead", "await"}
    BY <1>4, SendEffect DEF InCall, lockRead, await, unlockRead
  <2>2. CallToSend = 1 /\ CallToSend' <= 0 /\ CommandToSend' = CommandToSend
    BY <2>1
  <2>3. CommandToSend \in Nat /\ CallToSend' \in Nat
    BY <2>1
  <2> QED BY <2>2, <2>3
<1>5. CASE runnerSends
  <2>1. /\ call.pc = "send" /\ runner.pc # "op" /\ UNCHANGED <<runner, main, param_sem, late>>
        /\ call'.pc \in {"unlockRead", "await"}
    BY <1>5, SendEffect DEF runnerSends
  <2>2. CallToSend = 1 /\ CallToSend' <= 0 /\ CommandToSend' = CommandToSend
    BY <2>1
  <2>3. CommandToSend \in Nat /\ CallToSend' \in Nat
    BY <2>1
  <2> QED BY <2>2, <2>3
<1>6. CASE queryReturns
  BY <1>6 DEF queryReturns, unlockWrite
<1>7. CASE readConfiguration
  BY <1>7 DEF readConfiguration
<1>8. CASE queryCalls
  BY <1>8 DEF queryCalls, lockWrite, Goto, Calm
<1>9. CASE driveBase
  BY <1>9 DEF driveBase, setBaseVelocity
<1>10. CASE sendFn
  BY <1>10 DEF sendFn, sendDeferred, Command, Goto, CommandCalm, Calm
<1>11. CASE quitFn
  BY <1>11 DEF quitFn, Command, Goto
<1>12. CASE paramFn
  <2>1. /\ main.pc = "idle" /\ main'.pc = "semInit" /\ UNCHANGED <<clientVars>>
        /\ Unanswered + (MaxLate + 2) < SeqRange
    BY <1>12 DEF paramFn, Command, Goto, CommandCalm, Calm
  <2>2. CallToSend' = CallToSend /\ CallToSend \in 0 .. 1 /\ global_seq' = global_seq
    BY <2>1
  <2>3. CommandToSend' \in 0 .. MaxLate + 1
    BY <2>1
  <2> QED BY <2>1, <2>2, <2>3
<1>13. CASE dumpFn
  BY <1>13 DEF dumpFn, Command, Goto
<1>14. CASE paramSemInit
  BY <1>14 DEF paramSemInit, Goto
<1>15. CASE paramFlag
  BY <1>15 DEF paramFlag, Goto
<1>16. CASE paramWait
  BY <1>16 DEF paramWait, Goto
<1>17. CASE paramUnflag
  BY <1>17 DEF paramUnflag, Goto
<1>18. CASE paramDestroy
  BY <1>18 DEF paramDestroy, Goto
<1>19. CASE paramReturn
  BY <1>19 DEF paramReturn, Goto
<1>20. CASE dumpFlag
  BY <1>20 DEF dumpFlag
<1>21. CASE dumpWait
  BY <1>21 DEF dumpWait
<1>22. CASE dumpUnflag
  BY <1>22 DEF dumpUnflag, Goto
<1>23. CASE dumpDestroy
  BY <1>23 DEF dumpDestroy, Goto
<1>24. CASE join
  BY <1>24 DEF join, Goto
<1>25. CASE runnerSync /\ syncFlush
  BY <1>25 DEF runnerSync, syncFlush, RunnerGoto
<1>26. CASE runnerSync /\ syncStamp
  BY <1>26 DEF runnerSync, syncStamp, RunnerGoto
<1>27. CASE runnerSync /\ syncNoDrive
  BY <1>27 DEF runnerSync, syncNoDrive, RunnerGoto
<1>28. CASE runnerSync /\ syncPack
  BY <1>28 DEF runnerSync, syncPack, RunnerGoto
<1>29. CASE runnerSync /\ syncNote
  BY <1>29 DEF runnerSync, syncNote
<1>30. CASE runnerSync /\ syncLockRead
  BY <1>30 DEF runnerSync, syncLockRead, RunnerGoto
<1>31. CASE runnerSync /\ syncRead
  BY <1>31 DEF runnerSync, syncRead, readPacket, RunnerGoto
<1>32. CASE runnerSync /\ syncCheck
  BY <1>32 DEF runnerSync, syncCheck, RunnerGoto, NewEpoch
<1>33. CASE refreshState
  BY <1>33 DEF refreshState, get, RunnerGoto
<1>34. CASE testState
  BY <1>34 DEF testState, RunnerGoto
<1>35. CASE postState
  BY <1>35 DEF postState, RunnerGoto
<1>36. CASE testParam
  BY <1>36 DEF testParam, RunnerGoto
<1>37. CASE opCalls
  BY <1>37 DEF opCalls, RunnerGoto, lockWrite
<1>38. CASE opReturns
  BY <1>38 DEF opReturns, RunnerGoto, unlockWrite, AfterOp
<1>39. CASE postParam
  BY <1>39 DEF postParam, RunnerGoto
<1>40. CASE whileRun
  BY <1>40 DEF whileRun
<1>41. CASE testRunnerGets
  BY <1>41 DEF testRunnerGets, get, RunnerGoto
<1>42. CASE testRunnerSends
  <2>1. /\ runner.pc = "drives" /\ runner'.pc = "while"
        /\ UNCHANGED <<call, main, param_sem, late>>
    BY <1>42 DEF testRunnerSends, RunnerGoto, sendDeferred
  <2>2. CommandToSend = 0 /\ CommandToSend' = 0 /\ CallToSend' = CallToSend
    BY <2>1
  <2>3. CASE Calm(1)
    <3>1. write_mutex = "free"
      BY <1>42, <2>3 DEF testRunnerSends, sendDeferred
    <3>2. call.pc = "idle"
      BY <3>1 DEF Threads
    <3>3. CallToSend = 0 /\ Unanswered + 1 < SeqRange
      BY <2>1, <2>3, <3>2 DEF Calm
    <3>4. CallToSend' = 0 /\ SeqRange \in Nat
      BY <2>2, <3>3
    <3>5. (IF global_seq' = global_seq THEN 0 ELSE 1) \in {0, 1}
      OBVIOUS
    <3>6. ToSend' = 0
      BY <2>2, <3>4
    <3> QED BY <3>3, <3>5, <3>6
  <2>4. CASE ~Calm(1)
    <3>1. UNCHANGED global_seq
      BY <1>42, <2>4 DEF testRunnerSends
    <3> QED BY <2>2, <3>1
  <2> QED BY <2>3, <2>4
<1>43. CASE baseRunner
  BY <1>43 DEF baseRunner, RunnerGoto
<1>44. CASE OnTheLine /\ robotEpoch
  <2>1. UNCHANGED <<global_seq, call, runner, main, param_sem, late>>
    BY <1>44, LineEffect
  <2> QED BY <2>1
<1>45. CASE OnTheLine /\ lose
  <2>1. UNCHANGED <<global_seq, call, runner, main, param_sem, late>>
    BY <1>45, LineEffect
  <2> QED BY <2>1
<1>46. CASE UNCHANGED vars
  BY <1>46
<1> QED
  BY <1>1, <1>2, <1>3, <1>4, <1>5, <1>6, <1>7, <1>8, <1>9, <1>10, <1>11, <1>12, <1>13, <1>14, <1>15, <1>16, <1>17, <1>18, <1>19, <1>20, <1>21, <1>22, <1>23, <1>24, <1>25, <1>26, <1>27, <1>28, <1>29, <1>30, <1>31, <1>32, <1>33, <1>34, <1>35, <1>36, <1>37, <1>38, <1>39, <1>40, <1>41, <1>42, <1>43, <1>44, <1>45, <1>46 DEF Next, Main, InCommand, CallStep, Runner, Ended, InCall, runnerSync,
         Sync, OnTheLine, Line

(* The order of the packets as it is now, and after a step.                *)
Now == InOrder(global_seq, response.p_seq, from_robot, to_robot, tx)
Then == InOrder(global_seq', response'.p_seq, from_robot', to_robot', tx')

(* The order of the packets: a blocking call,                              *)
LEMMA BlockingOrder ==
  ASSUME LineTypes, sendBlocking, Now,
         Age(global_seq, response.p_seq) + 1 < SeqRange
  PROVE  /\ Then
         /\ Age(global_seq', response'.p_seq) = Age(global_seq, response.p_seq) + 1
<1> DEFINE r == response.p_seq
           h == NextSeq
<1>1. /\ global_seq \in Numbers /\ h \in Numbers /\ r \in Numbers
      /\ h = IF global_seq = SeqRange - 1 THEN 0 ELSE global_seq + 1
      /\ from_robot \in Seq(InSet) /\ to_robot \in Seq(OutSet) /\ tx \in Seq(OutSet)
  BY NextNumber DEF LineTypes, RespSet
<1>2. /\ global_seq' = h /\ from_robot' = Forget(from_robot)
      /\ Full => tx' = Forget(tx) /\ to_robot' = Forget(to_robot)
      /\ ~Full => /\ tx' = <<>>
                  /\ to_robot' = Append(Forget(to_robot) \o Forget(tx),
                                        Packet("ParamControl", h, TRUE))
  BY DEF sendBlocking
<1>3. response'.p_seq = r
  BY DEF sendBlocking, LineTypes, RespSet
<1>4. Packet("ParamControl", h, TRUE) \in OutSet /\ Packet("ParamControl", h, TRUE).seq = h
  <2>1. h \in Numbers
    BY <1>1
  <2>2. "ParamControl" \in OutTypes
    BY DEF OutTypes
  <2> HIDE DEF h
  <2> QED BY <2>1, <2>2, OutType
<1> HIDE DEF h, r
<1>5. InOrder(global_seq, r, from_robot, to_robot, tx) /\ Age(global_seq, r) + 1 < SeqRange
  BY DEF Now, r
<1>6. InOrder(h, r, from_robot, to_robot, tx) /\ Age(h, r) = Age(global_seq, r) + 1
  BY <1>1, <1>5, OrderNext
<1>7. InOrder(h, r, Forget(from_robot), Forget(to_robot), Forget(tx))
  BY <1>1, <1>6, OrderSame
<1>8. /\ Forget(from_robot) \in Seq(InSet) /\ Forget(to_robot) \in Seq(OutSet)
      /\ Forget(tx) \in Seq(OutSet)
  BY <1>1, ForgetIn, ForgetOut
<1>9. InOrder(h, r, Forget(from_robot),
              Append(Forget(to_robot) \o Forget(tx), Packet("ParamControl", h, TRUE)), <<>>)
  BY <1>1, <1>4, <1>7, <1>8, OrderSent
<1>10. Then
  <2>1. CASE Full
    BY <2>1, <1>2, <1>3, <1>7 DEF Then
  <2>2. CASE ~Full
    BY <2>2, <1>2, <1>3, <1>9 DEF Then
  <2> QED BY <2>1, <2>2
<1> QED BY <1>2, <1>3, <1>6, <1>10 DEF r

(* a deferred packet,                                                      *)
LEMMA DeferredOrder ==
  ASSUME LineTypes, NEW type \in OutTypes, sendDeferred(type), Now,
         Age(global_seq, response.p_seq) + 1 < SeqRange
  PROVE  /\ Then
         /\ Age(global_seq', response'.p_seq) = Age(global_seq, response.p_seq) + 1
<1> DEFINE r == response.p_seq
           h == NextSeq
           p == Packet(type, h, FALSE)
<1>1. /\ global_seq \in Numbers /\ h \in Numbers /\ r \in Numbers
      /\ h = IF global_seq = SeqRange - 1 THEN 0 ELSE global_seq + 1
      /\ from_robot \in Seq(InSet) /\ to_robot \in Seq(OutSet) /\ tx \in Seq(OutSet)
  BY NextNumber DEF LineTypes, RespSet
<1>2. /\ global_seq' = h /\ UNCHANGED <<response, from_robot, to_robot>>
      /\ tx' = tx \/ tx' = Append(tx, p)
  BY DEF sendDeferred, received, lines
<1>3. response'.p_seq = r
  BY <1>2
<1>4. p \in OutSet /\ p.seq = h
  BY <1>1, OutType
<1> HIDE DEF h, r, p
<1>5. InOrder(global_seq, r, from_robot, to_robot, tx) /\ Age(global_seq, r) + 1 < SeqRange
  BY DEF Now, r
<1>6. InOrder(h, r, from_robot, to_robot, tx) /\ Age(h, r) = Age(global_seq, r) + 1
  BY <1>1, <1>5, OrderNext
<1>7. InOrder(h, r, from_robot, to_robot, Append(tx, p))
  BY <1>1, <1>4, <1>6, OrderDeferred
<1> QED BY <1>2, <1>3, <1>6, <1>7 DEF Then, r

(* a packet that is read,                                                  *)
LEMMA ReadOrder ==
  ASSUME LineTypes, readPacket, UNCHANGED <<global_seq, tx, to_robot>>, Now
  PROVE  /\ Then
         /\ Age(global_seq', response'.p_seq) <= Age(global_seq, response.p_seq)
<1> DEFINE r == response.p_seq
           r2 == response'.p_seq
<1>1. /\ global_seq \in Numbers /\ r \in Numbers /\ r2 \in Numbers
      /\ from_robot \in Seq(InSet) /\ to_robot \in Seq(OutSet) /\ tx \in Seq(OutSet)
      /\ from_robot # <<>> /\ from_robot' = Tail(from_robot)
  BY ReadOne DEF LineTypes, RespSet, readPacket
<1>2. r2 = r \/ (Numbered(from_robot[1]) /\ r2 = Number(from_robot[1]))
  BY ReadOne DEF Numbered, Number
<1> HIDE DEF r, r2
<1>3. InOrder(global_seq, r, from_robot, to_robot, tx)
  BY DEF Now, r
<1>4. InOrder(global_seq, r2, Tail(from_robot), to_robot, tx)
      /\ Age(global_seq, r2) <= Age(global_seq, r)
  BY <1>1, <1>2, <1>3, OrderRead
<1> QED BY <1>1, <1>4 DEF Then, r, r2

(* and one that is lost.                                                   *)
LEMMA LossOrder ==
  ASSUME LineTypes, lose, Now
  PROVE  Then
<1> DEFINE r == response.p_seq
<1>1. /\ global_seq \in Numbers /\ r \in Numbers
      /\ from_robot \in Seq(InSet) /\ to_robot \in Seq(OutSet) /\ tx \in Seq(OutSet)
  BY DEF LineTypes, RespSet
<1>2. UNCHANGED <<global_seq, tx, response>> /\ response'.p_seq = r
  BY DEF lose, received
<1> HIDE DEF r
<1>3. InOrder(global_seq, r, from_robot, to_robot, tx)
  BY DEF Now, r
<1>4. CASE to_robot # <<>> /\ to_robot' = Tail(to_robot) /\ UNCHANGED from_robot
  <2>1. InOrder(global_seq, r, from_robot, Tail(to_robot), tx)
    BY <1>1, <1>3, <1>4, OrderLost
  <2> QED BY <2>1, <1>2, <1>4 DEF Then
<1>5. CASE from_robot # <<>> /\ from_robot' = Tail(from_robot) /\ UNCHANGED to_robot
  <2>1. InOrder(global_seq, r, Tail(from_robot), to_robot, tx)
    BY <1>1, <1>3, <1>5, OrderRead
  <2> QED BY <2>1, <1>2, <1>5 DEF Then
<1> QED BY <1>4, <1>5 DEF lose

(* Every step keeps the order, and the last response grows older only by   *)
(* what is sent.                                                           *)
LEMMA OrderStep ==
  ASSUME Shape, [Next]_vars, program # "base", Now,
         global_seq' # global_seq => Age(global_seq, response.p_seq) + 1 < SeqRange
  PROVE  /\ Then
         /\ Age(global_seq', response'.p_seq) <=
              Age(global_seq, response.p_seq) + (IF global_seq' = global_seq THEN 0 ELSE 1)
<1> DEFINE Goal ==
             /\ Then
             /\ Age(global_seq', response'.p_seq) <=
                  Age(global_seq, response.p_seq)
                    + (IF global_seq' = global_seq THEN 0 ELSE 1)
<1> SUFFICES Goal
  OBVIOUS
<1>a. /\ LineTypes /\ global_seq \in Numbers /\ response.p_seq \in Numbers
      /\ from_robot \in Seq(InSet) /\ to_robot \in Seq(OutSet) /\ tx \in Seq(OutSet)
      /\ "JointControl" \in OutTypes /\ "DriveControl" \in OutTypes
      /\ Age(global_seq, response.p_seq) \in Nat
  BY AgeRange DEF Shape, ClientTypes, LineTypes, RespSet, OutTypes
<1>b. NextSeq # global_seq /\ NextSeq \in Numbers
  <2>1. global_seq \in Nat /\ SeqRange > 1 /\ SeqRange \in Nat
    BY <1>a, Sizes DEF Numbers
  <2>2. NextSeq = IF global_seq = SeqRange - 1 THEN 0 ELSE global_seq + 1
    BY <1>a, NextNumber
  <2> QED BY <1>a, <2>1, <2>2, NextNumber
<1>c. ASSUME Then, global_seq' = global_seq,
             Age(global_seq', response'.p_seq) <= Age(global_seq, response.p_seq)
      PROVE  Goal
  BY <1>a, <1>c
<1>d. ASSUME Then, global_seq' = NextSeq,
             Age(global_seq', response'.p_seq) = Age(global_seq, response.p_seq) + 1
      PROVE  Goal
  BY <1>a, <1>b, <1>d
<1>e. ASSUME UNCHANGED <<global_seq, response, from_robot, to_robot, tx>>
      PROVE  Goal
  <2>1. Then /\ Age(global_seq', response'.p_seq) <= Age(global_seq, response.p_seq)
    BY <1>a, <1>e DEF Now, Then
  <2> QED BY <2>1, <1>c, <1>e
<1> HIDE DEF Goal
<1> USE <1>e DEF vars, clientVars, shellVars, received, lines
<1>1. CASE InCall /\ lockRead
  BY <1>1 DEF InCall, lockRead
<1>2. CASE InCall /\ await
  <2>1. readPacket /\ UNCHANGED <<global_seq, tx, to_robot>>
    BY <1>2 DEF await, syncRead
  <2> QED BY <2>1, <1>a, <1>c, ReadOrder
<1>3. CASE InCall /\ unlockRead
  BY <1>3 DEF InCall, unlockRead
<1>4. CASE InCall /\ sendBlocking
  <2>1. sendBlocking /\ global_seq' = NextSeq
    BY <1>4 DEF runnerSends, sendBlocking
  <2>2. Age(global_seq, response.p_seq) + 1 < SeqRange
    BY <2>1, <1>b
  <2> QED BY <2>1, <2>2, <1>a, <1>d, BlockingOrder
<1>5. CASE runnerSends
  <2>1. sendBlocking /\ global_seq' = NextSeq
    BY <1>5 DEF runnerSends, sendBlocking
  <2>2. Age(global_seq, response.p_seq) + 1 < SeqRange
    BY <2>1, <1>b
  <2> QED BY <2>1, <2>2, <1>a, <1>d, BlockingOrder
<1>6. CASE queryReturns
  BY <1>6 DEF queryReturns, unlockWrite
<1>7. CASE readConfiguration
  BY <1>7 DEF readConfiguration
<1>8. CASE queryCalls
  BY <1>8 DEF queryCalls, lockWrite, Goto
<1>9. CASE driveBase
  BY <1>9 DEF driveBase
<1>10. CASE sendFn
  <2>1. sendDeferred("JointControl") /\ global_seq' = NextSeq
    BY <1>10 DEF sendFn, sendDeferred
  <2>2. Age(global_seq, response.p_seq) + 1 < SeqRange
    BY <2>1, <1>b
  <2> QED BY <2>1, <2>2, <1>a, <1>d, DeferredOrder
<1>11. CASE quitFn
  BY <1>11 DEF quitFn, Command, Goto
<1>12. CASE paramFn
  BY <1>12 DEF paramFn, Command, Goto
<1>13. CASE dumpFn
  BY <1>13 DEF dumpFn, Command, Goto
<1>14. CASE paramSemInit
  BY <1>14 DEF paramSemInit, Goto
<1>15. CASE paramFlag
  BY <1>15 DEF paramFlag, Goto
<1>16. CASE paramWait
  BY <1>16 DEF paramWait, Goto
<1>17. CASE paramUnflag
  BY <1>17 DEF paramUnflag, Goto
<1>18. CASE paramDestroy
  BY <1>18 DEF paramDestroy, Goto
<1>19. CASE paramReturn
  BY <1>19 DEF paramReturn, Goto
<1>20. CASE dumpFlag
  BY <1>20 DEF dumpFlag
<1>21. CASE dumpWait
  BY <1>21 DEF dumpWait
<1>22. CASE dumpUnflag
  BY <1>22 DEF dumpUnflag, Goto
<1>23. CASE dumpDestroy
  BY <1>23 DEF dumpDestroy, Goto
<1>24. CASE join
  BY <1>24 DEF join, Goto
<1>25. CASE runnerSync /\ syncFlush
  <2>1. /\ UNCHANGED <<global_seq, response, from_robot>>
        /\ to_robot' = to_robot \o tx /\ tx' = <<>>
    BY <1>25 DEF syncFlush
  <2>2. InOrder(global_seq, response.p_seq, from_robot, to_robot \o tx, <<>>)
    BY <1>a, OrderFlushed DEF Now
  <2>3. Then /\ Age(global_seq', response'.p_seq) <= Age(global_seq, response.p_seq)
    BY <1>a, <2>1, <2>2 DEF Then
  <2> QED BY <2>1, <2>3, <1>c
<1>26. CASE runnerSync /\ syncStamp
  BY <1>26 DEF syncStamp, RunnerGoto, Shape, Parts
<1>27. CASE runnerSync /\ syncNoDrive
  BY <1>27 DEF runnerSync, syncNoDrive, RunnerGoto
<1>28. CASE runnerSync /\ syncPack
  BY <1>28 DEF syncPack, RunnerGoto, At, Shape, Parts
<1>29. CASE runnerSync /\ syncNote
  BY <1>29 DEF runnerSync, syncNote
<1>30. CASE runnerSync /\ syncLockRead
  BY <1>30 DEF runnerSync, syncLockRead, RunnerGoto
<1>31. CASE runnerSync /\ syncRead
  <2>1. readPacket /\ UNCHANGED <<global_seq, tx, to_robot>>
    BY <1>31 DEF await, syncRead
  <2> QED BY <2>1, <1>a, <1>c, ReadOrder
<1>32. CASE runnerSync /\ syncCheck
  BY <1>32 DEF runnerSync, syncCheck, RunnerGoto
<1>33. CASE refreshState
  BY <1>33 DEF refreshState, get, RunnerGoto
<1>34. CASE testState
  BY <1>34 DEF testState, RunnerGoto
<1>35. CASE postState
  BY <1>35 DEF postState, RunnerGoto
<1>36. CASE testParam
  BY <1>36 DEF testParam, RunnerGoto
<1>37. CASE opCalls
  BY <1>37 DEF opCalls, RunnerGoto, lockWrite
<1>38. CASE opReturns
  BY <1>38 DEF opReturns, RunnerGoto, unlockWrite, AfterOp
<1>39. CASE postParam
  BY <1>39 DEF postParam, RunnerGoto
<1>40. CASE whileRun
  BY <1>40 DEF whileRun
<1>41. CASE testRunnerGets
  BY <1>41 DEF testRunnerGets, get, RunnerGoto
<1>42. CASE testRunnerSends
  <2>1. CASE Calm(1)
    <3>1. sendDeferred("DriveControl") /\ global_seq' = NextSeq
      BY <1>42, <2>1 DEF testRunnerSends, sendDeferred
    <3>2. Age(global_seq, response.p_seq) + 1 < SeqRange
      BY <3>1, <1>b
    <3> QED BY <3>1, <3>2, <1>a, <1>d, DeferredOrder
  <2>2. CASE ~Calm(1)
    BY <1>42, <2>2 DEF testRunnerSends
  <2> QED BY <2>1, <2>2
<1>43. CASE baseRunner
  BY <1>43 DEF baseRunner, RunnerGoto
<1>44. CASE OnTheLine /\ robotEpoch
  <2>1. UNCHANGED <<global_seq, response, tx>> /\ to_robot' = <<>>
    BY <1>44 DEF robotEpoch
  <2>2. InOrder(global_seq, response.p_seq, from_robot', <<>>, tx)
    BY <1>44, <1>a, OrderEpoch DEF Now
  <2>3. Then /\ Age(global_seq', response'.p_seq) <= Age(global_seq, response.p_seq)
    BY <1>a, <2>1, <2>2 DEF Then
  <2> QED BY <2>1, <2>3, <1>c
<1>45. CASE OnTheLine /\ lose
  <2>1. UNCHANGED <<global_seq, response>>
    BY <1>45 DEF lose
  <2>2. Age(global_seq', response'.p_seq) <= Age(global_seq, response.p_seq)
    BY <1>a, <2>1
  <2> QED BY <1>45, <2>1, <2>2, <1>a, <1>c, LossOrder
<1>46. CASE UNCHANGED vars
  BY <1>46
<1> QED
  BY <1>1, <1>2, <1>3, <1>4, <1>5, <1>6, <1>7, <1>8, <1>9, <1>10, <1>11, <1>12, <1>13, <1>14, <1>15, <1>16, <1>17, <1>18, <1>19, <1>20, <1>21, <1>22, <1>23, <1>24, <1>25, <1>26, <1>27, <1>28, <1>29, <1>30, <1>31, <1>32, <1>33, <1>34, <1>35, <1>36, <1>37, <1>38, <1>39, <1>40, <1>41, <1>42, <1>43, <1>44, <1>45, <1>46 DEF Next, Main, InCommand, CallStep, Runner, Ended, InCall, runnerSync,
         Sync, OnTheLine, Line

(* Every step keeps the numbers on their way apart.                        *)
LEMMA WindowStep ==
  ASSUME Shape, Shape', Window, [Next]_vars
  PROVE  Window'
<1> SUFFICES ASSUME program' # "base" PROVE Window'
  BY DEF Window
<1>1. program # "base"
  BY DEF Next, Main, InCommand, CallStep, Runner, Ended, InCall, runnerSync,
     OnTheLine, vars, clientVars, shellVars, runnerSends, queryReturns,
     readConfiguration, queryCalls, driveBase, sendFn, quitFn, paramFn, dumpFn,
     paramSemInit, paramFlag, paramWait, paramUnflag, paramDestroy, paramReturn,
     dumpFlag, dumpWait, dumpUnflag, dumpDestroy, join, refreshState, testState,
     postState, testParam, opCalls, opReturns, postParam, whileRun,
     testRunnerGets, testRunnerSends, baseRunner
<1>2. LineTypes /\ LineTypes' /\ Now
      /\ Age(global_seq, response.p_seq) + ToSend < SeqRange
  BY <1>1 DEF Window, Now, Shape, ClientTypes
<1>3. /\ Unanswered = Age(global_seq, response.p_seq) /\ Unanswered \in Nat
  BY <1>2, AgeUnanswered
<1>4. Unanswered + (IF global_seq' = global_seq THEN 0 ELSE 1) + ToSend' < SeqRange
  BY <1>1, <1>2, <1>3, BudgetStep
<1>5. ToSend' \in Nat /\ SeqRange \in Nat
  <2>1. late' \in Nat /\ MaxLate \in Nat /\ late' <= MaxLate
    BY Sizes DEF Shape, ProgramTypes
  <2> QED BY <2>1, Sizes DEF ToSend, CallToSend, CommandToSend, Returned
<1>6. global_seq' # global_seq => Age(global_seq, response.p_seq) + 1 < SeqRange
  BY <1>3, <1>4, <1>5
<1>7. /\ Then
      /\ Age(global_seq', response'.p_seq) <=
           Age(global_seq, response.p_seq) + (IF global_seq' = global_seq THEN 0 ELSE 1)
  BY <1>1, <1>2, <1>6, OrderStep
<1>8. Age(global_seq', response'.p_seq) \in Nat
  <2>1. global_seq' \in Numbers /\ response'.p_seq \in Numbers
    BY <1>2 DEF LineTypes, RespSet
  <2> QED BY <2>1, AgeRange
<1>9. Age(global_seq', response'.p_seq) + ToSend' < SeqRange
  BY <1>3, <1>4, <1>5, <1>7, <1>8
<1> QED BY <1>7, <1>9 DEF Window, Then
----------------------------------------------------------------------------
(* A blocking call claims a number that no other packet has.               *)
LEMMA Unclaimed ==
  ASSUME LineTypes, sendBlocking, Now,
         Age(global_seq, response.p_seq) + 1 < SeqRange
  PROVE  /\ response.p_seq # NextSeq
         /\ \A i \in DOMAIN from_robot :
              from_robot[i].type = "Response" => from_robot[i].p_seq # NextSeq
         /\ \A i \in DOMAIN to_robot : to_robot[i].seq # NextSeq
         /\ \A i \in DOMAIN tx : tx[i].seq # NextSeq
<1> DEFINE r == response.p_seq
           g == global_seq
           h == NextSeq
<1>1. /\ g \in Numbers /\ h \in Numbers /\ r \in Numbers
      /\ h = IF g = SeqRange - 1 THEN 0 ELSE g + 1
      /\ from_robot \in Seq(InSet) /\ to_robot \in Seq(OutSet) /\ tx \in Seq(OutSet)
  BY NextNumber DEF LineTypes, RespSet
<1>2. Age(g, r) + 1 < SeqRange /\ InOrder(g, r, from_robot, to_robot, tx)
  BY DEF Now
<1> HIDE DEF g, h, r
<1>3. \A x \in Numbers : Age(g, x) <= Age(g, r) => x # h
  <2> SUFFICES ASSUME NEW x \in Numbers, Age(g, x) <= Age(g, r), x = h
               PROVE  FALSE
    OBVIOUS
  <2>1. Age(g, x) \in Nat /\ Age(g, r) \in Nat /\ SeqRange \in Nat
    BY <1>1, AgeRange, Sizes
  <2>2. Age(g, x) + 1 < SeqRange
    BY <2>1, <1>2
  <2>3. Age(h, x) = Age(g, x) + 1
    BY <2>2, <1>1, AgeNext
  <2>4. Age(h, x) = 0
    BY <1>1, AgeRange
  <2> QED BY <2>1, <2>3, <2>4
<1>4. Age(g, r) <= Age(g, r)
  BY <1>1, AgeRange
<1>5. \A i \in DOMAIN from_robot :
        from_robot[i].type = "Response" => from_robot[i].p_seq # h
  <2> SUFFICES ASSUME NEW i \in DOMAIN from_robot, from_robot[i].type = "Response"
               PROVE  from_robot[i].p_seq # h
    OBVIOUS
  <2>1. from_robot[i] \in InSet
    BY <1>1
  <2>2. /\ Numbered(from_robot[i]) /\ Number(from_robot[i]) = from_robot[i].p_seq
        /\ Number(from_robot[i]) \in Numbers
    BY <2>1, Numbering
  <2> QED BY <2>2, <1>2, <1>3 DEF InOrder, Since
<1>6. \A i \in DOMAIN to_robot : to_robot[i].seq # h
  <2> SUFFICES ASSUME NEW i \in DOMAIN to_robot
               PROVE  to_robot[i].seq # h
    OBVIOUS
  <2>1. to_robot[i] \in OutSet
    BY <1>1
  <2>2. /\ Numbered(to_robot[i]) /\ Number(to_robot[i]) = to_robot[i].seq
        /\ Number(to_robot[i]) \in Numbers
    BY <2>1, Numbering
  <2> QED BY <2>2, <1>2, <1>3 DEF InOrder, Since
<1>7. \A i \in DOMAIN tx : tx[i].seq # h
  <2> SUFFICES ASSUME NEW i \in DOMAIN tx
               PROVE  tx[i].seq # h
    OBVIOUS
  <2>1. tx[i] \in OutSet
    BY <1>1
  <2>2. /\ Numbered(tx[i]) /\ Number(tx[i]) = tx[i].seq
        /\ Number(tx[i]) \in Numbers
    BY <2>1, Numbering
  <2> QED BY <2>2, <1>2, <1>3 DEF InOrder, Since
<1>8. r # h
  BY <1>1, <1>3, <1>4
<1> QED BY <1>5, <1>6, <1>7, <1>8 DEF g, h, r

(* What a call claims is kept by the call itself,                          *)
LEMMA BlockingClaims ==
  ASSUME LineTypes, CallTypes, sendBlocking, Now,
         Age(global_seq, response.p_seq) + 1 < SeqRange
  PROVE  Claims'
<1> DEFINE h == NextSeq
           P == Packet("ParamControl", h, TRUE)
           f == Forget(to_robot)
           x == Forget(tx)
           o == f \o x
<1>1. CASE Full
  <2>1. call'.pc = "unlockRead" /\ call'.result = "TxBufferFull"
    BY <1>1 DEF sendBlocking, CallTypes, CallSet
  <2> QED BY <2>1 DEF Claims
<1>2. CASE ~Full
  <2>1. /\ call'.pc = "await" /\ call'.result = "Timeout" /\ call'.awaited = h
        /\ from_robot' = Forget(from_robot) /\ to_robot' = Append(o, P)
        /\ response' = [response EXCEPT !.mine = FALSE]
    BY <1>2 DEF sendBlocking, CallTypes, CallSet
  <2>2. h \in Numbers /\ P \in OutSet /\ P.mine = TRUE
    BY NextNumber, OutType DEF LineTypes, OutTypes
  <2>3. /\ from_robot \in Seq(InSet) /\ to_robot \in Seq(OutSet) /\ tx \in Seq(OutSet)
        /\ response \in RespSet
    BY DEF LineTypes
  <2>4. /\ response.p_seq # h
        /\ \A i \in DOMAIN from_robot :
             from_robot[i].type = "Response" => from_robot[i].p_seq # h
        /\ \A i \in DOMAIN to_robot : to_robot[i].seq # h
        /\ \A i \in DOMAIN tx : tx[i].seq # h
    BY Unclaimed
  <2>5. f \in Seq(OutSet) /\ \A i \in DOMAIN f : f[i].seq # h
    BY <2>3, <2>4, ForgetOut
  <2>6. x \in Seq(OutSet) /\ \A i \in DOMAIN x : x[i].seq # h
    BY <2>3, <2>4, ForgetOut
  <2> HIDE DEF h, P, f, x
  <2>7. o \in Seq(OutSet) /\ \A i \in DOMAIN o : o[i].seq # h
    <3>1. /\ o \in Seq(OutSet) /\ Len(o) = Len(f) + Len(x)
          /\ \A i \in 1 .. Len(f) : o[i] = f[i]
          /\ \A i \in 1 .. Len(x) : o[Len(f) + i] = x[i]
      BY <2>5, <2>6, JoinedOut
    <3> HIDE DEF o
    <3> SUFFICES ASSUME NEW i \in DOMAIN o
                 PROVE  o[i].seq # h
      BY <3>1
    <3>2. Len(f) \in Nat /\ Len(x) \in Nat /\ i \in 1 .. Len(f) + Len(x)
          /\ DOMAIN f = 1 .. Len(f) /\ DOMAIN x = 1 .. Len(x)
      BY <3>1, <2>5, <2>6
    <3>3. CASE i \in 1 .. Len(f)
      BY <3>1, <3>2, <3>3, <2>5
    <3>4. CASE ~(i \in 1 .. Len(f))
      <4>1. i - Len(f) \in 1 .. Len(x) /\ Len(f) + (i - Len(f)) = i
        BY <3>2, <3>4
      <4>2. o[i] = x[i - Len(f)]
        BY <3>1, <4>1
      <4> QED BY <4>1, <4>2, <3>2, <2>6
    <3> QED BY <3>3, <3>4
  <2> HIDE DEF o
  <2>8. \A i \in DOMAIN to_robot' : Claimed(to_robot[i])'
    <3>1. /\ DOMAIN to_robot' = 1 .. Len(o) + 1 /\ DOMAIN o = 1 .. Len(o)
          /\ Len(o) \in Nat
          /\ \A i \in 1 .. Len(o) : to_robot'[i] = o[i]
          /\ to_robot'[Len(o) + 1] = P
      <4>1. Append(o, P) \in Seq(OutSet) /\ o \in Seq(OutSet)
        BY <2>2, <2>7
      <4> QED BY <4>1, <2>1, <2>2, AppendedOut
    <3>2. \A i \in DOMAIN to_robot' : i \in 1 .. Len(o) \/ i = Len(o) + 1
      BY <3>1
    <3> QED BY <3>1, <3>2, <2>1, <2>2, <2>7 DEF Claimed
  <2>9. \A i \in DOMAIN from_robot' : ClaimedReply(from_robot[i])'
    <3>1. /\ DOMAIN from_robot' = DOMAIN from_robot
          /\ \A i \in DOMAIN from_robot : /\ from_robot'[i].type = from_robot[i].type
                                          /\ from_robot'[i].p_seq = from_robot[i].p_seq
      BY <2>1, <2>3, ForgetIn
    <3> QED BY <3>1, <2>1, <2>4 DEF ClaimedReply
  <2>10. ClaimedReply(response)'
    <3>1. response'.p_seq = response.p_seq
      BY <2>1, <2>3 DEF RespSet
    <3> QED BY <3>1, <2>1, <2>4 DEF ClaimedReply
  <2> QED BY <2>1, <2>8, <2>9, <2>10 DEF Claims
<1> QED BY <1>1, <1>2

(* by reading,                                                             *)
LEMMA AwaitClaims ==
  ASSUME LineTypes, CallTypes, await, Claims
  PROVE  Claims'
<1>1. /\ call.pc = "await" /\ readPacket /\ UNCHANGED to_robot
      /\ call'.awaited = call.awaited
      /\ call'.pc = "await" => call'.result = call.result
      /\ call'.pc = "unlockRead" /\ call'.result = "Success" =>
           call.result = "Success" \/ Answered(response')
  <2>1. /\ call.pc = "await" /\ readPacket /\ UNCHANGED to_robot
        /\ call \in CallSet
    BY DEF await, CallTypes, At
  <2>2. CASE Answered(response')
    <3>1. call' = [call EXCEPT !.pc = "unlockRead", !.result = "Success"]
      BY <2>2 DEF await
    <3> QED BY <2>1, <2>2, <3>1 DEF CallSet
  <2>3. CASE ~Answered(response')
    <3>1. call' = [call EXCEPT !.timeout = Remaining(@),
                              !.pc = IF Remaining(call.timeout) = 0
                                     THEN "unlockRead" ELSE @]
      BY <2>3 DEF await
    <3>2. call'.awaited = call.awaited /\ call'.result = call.result
      BY <2>1, <3>1 DEF CallSet
    <3> QED BY <2>1, <3>2
  <2> QED BY <2>2, <2>3
<1>2. /\ call.result # "Success" /\ ClaimedReply(response)
      /\ \A i \in DOMAIN from_robot : ClaimedReply(from_robot[i])
      /\ \A i \in DOMAIN to_robot : Claimed(to_robot[i])
  BY <1>1 DEF Claims
<1>3. /\ \A i \in DOMAIN from_robot' : /\ i + 1 \in DOMAIN from_robot
                                      /\ from_robot'[i] = from_robot[i + 1]
      /\ response' = IF from_robot[1].type = "Response" THEN from_robot[1]
                     ELSE response
      /\ 1 \in DOMAIN from_robot
      /\ response'.type = "Response"
  <2>1. from_robot \in Seq(InSet) /\ Len(from_robot) > 0 /\ response' \in RespSet
    BY <1>1, ReadOne DEF LineTypes
  <2>2. 1 \in DOMAIN from_robot
    BY <2>1
  <2> QED BY <2>1, <2>2, <1>1, ReadOne DEF RespSet
<1>4. \A i \in DOMAIN from_robot' : ClaimedReply(from_robot[i])'
  BY <1>1, <1>2, <1>3 DEF ClaimedReply
<1>5. \A i \in DOMAIN to_robot' : Claimed(to_robot[i])'
  BY <1>1, <1>2 DEF Claimed
<1>6. ClaimedReply(response)'
  BY <1>1, <1>2, <1>3 DEF ClaimedReply
<1>7. Answered(response') => response'.mine
  BY <1>1, <1>3, <1>6 DEF Answered, ClaimedReply
<1> QED BY <1>1, <1>2, <1>4, <1>5, <1>6, <1>7 DEF Claims

(* by the answers of the robot,                                            *)
LEMMA EpochClaims ==
  ASSUME LineTypes, robotEpoch, Claims
  PROVE  Claims'
<1>1. UNCHANGED <<call, response>> /\ to_robot' = <<>>
  BY DEF robotEpoch, received
<1> SUFFICES ASSUME call.pc = "await"
             PROVE  \A i \in DOMAIN from_robot' : ClaimedReply(from_robot[i])'
  BY <1>1 DEF Claims, ClaimedReply, Claimed
<1> DEFINE l == Len(from_robot)
           q == from_robot'
<1>0. PICK n \in 0 .. Len(to_robot), k \in 0 .. 2 : EpochOf(n, k)
  BY EpochSent, Zenon
<1>2. /\ Len(q) = l + n + k
      /\ \A i \in 1 .. l : q[i] = from_robot[i]
      /\ \A i \in 1 .. n : /\ q[l + i].p_type = to_robot[i].type
                           /\ q[l + i].p_seq = to_robot[i].seq
                           /\ q[l + i].mine = to_robot[i].mine
      /\ \A i \in 1 .. k : q[l + n + i].type \in {"SystemStatus", "EndEpoch"}
  BY <1>0 DEF EpochOf
<1>3. /\ l \in Nat /\ n \in Nat /\ n <= Len(to_robot) /\ Len(to_robot) \in Nat
      /\ k \in Nat
      /\ DOMAIN from_robot = 1 .. l /\ DOMAIN to_robot = 1 .. Len(to_robot)
      /\ DOMAIN q = 1 .. l + n + k
  <2>1. from_robot \in Seq(InSet) /\ q \in Seq(InSet) /\ to_robot \in Seq(OutSet)
    BY EpochSent DEF LineTypes
  <2> QED BY <1>2, <2>1
<1>4. /\ \A i \in DOMAIN from_robot : ClaimedReply(from_robot[i])
      /\ \A i \in DOMAIN to_robot : Claimed(to_robot[i])
  BY DEF Claims
<1> HIDE DEF l, q
<1> SUFFICES ASSUME NEW i \in DOMAIN q
             PROVE  ClaimedReply(from_robot[i])'
  BY DEF q
<1>5. CASE i \in 1 .. l
  BY <1>1, <1>2, <1>3, <1>4, <1>5 DEF ClaimedReply, q
<1>6. CASE i - l \in 1 .. n
  <2>1. l + (i - l) = i /\ i - l \in DOMAIN to_robot
    BY <1>3, <1>6
  <2>2. /\ q[i].p_type = to_robot[i - l].type
        /\ q[i].p_seq = to_robot[i - l].seq
        /\ q[i].mine = to_robot[i - l].mine
    BY <1>2, <1>6, <2>1
  <2>3. Claimed(to_robot[i - l])
    BY <2>1, <1>4
  <2> QED BY <1>1, <2>2, <2>3 DEF ClaimedReply, Claimed, q
<1>7. CASE i - (l + n) \in 1 .. k
  <2>1. l + n + (i - (l + n)) = i
    BY <1>3
  <2>2. q[i].type \in {"SystemStatus", "EndEpoch"}
    BY <1>2, <1>7, <2>1
  <2> QED BY <2>2 DEF ClaimedReply, q
<1>8. i \in 1 .. l \/ i - l \in 1 .. n \/ i - (l + n) \in 1 .. k
  BY <1>3
<1> QED BY <1>5, <1>6, <1>7, <1>8

(* and by losses.                                                          *)
LEMMA LossClaims ==
  ASSUME LineTypes, lose, Claims
  PROVE  Claims'
<1>1. UNCHANGED <<call, response>>
  BY DEF lose, received
<1>2. from_robot \in Seq(InSet) /\ to_robot \in Seq(OutSet)
  BY DEF LineTypes
<1>3. CASE to_robot # <<>> /\ to_robot' = Tail(to_robot) /\ UNCHANGED from_robot
  <2>1. \A i \in DOMAIN to_robot' : i + 1 \in DOMAIN to_robot
                                    /\ to_robot'[i] = to_robot[i + 1]
    BY <1>2, <1>3
  <2> QED BY <1>1, <1>3, <2>1 DEF Claims, ClaimedReply, Claimed
<1>4. CASE from_robot # <<>> /\ from_robot' = Tail(from_robot) /\ UNCHANGED to_robot
  <2>1. \A i \in DOMAIN from_robot' : i + 1 \in DOMAIN from_robot
                                      /\ from_robot'[i] = from_robot[i + 1]
    BY <1>2, <1>4
  <2> QED BY <1>1, <1>4, <2>1 DEF Claims, ClaimedReply, Claimed
<1> QED BY <1>3, <1>4 DEF lose

(* What has the number that a call awaits is its packet, after every step. *)
LEMMA ClaimsStep ==
  ASSUME Shape, Window, Claims, [Next]_vars
  PROVE  Claims'
<1>a. /\ LineTypes /\ CallTypes /\ call \in CallSet /\ Callers /\ Locks
      /\ program \in {"shell", "test", "base"} /\ Parts
  BY DEF Shape, ClientTypes, CallTypes, ProgramTypes, AllPrograms
<1>b. ASSUME UNCHANGED <<call, response, from_robot, to_robot>>
      PROVE  Claims'
  BY <1>b DEF Claims, Claimed, ClaimedReply
<1>c. ASSUME call'.pc \notin {"await", "unlockRead"}
      PROVE  Claims'
  BY <1>c DEF Claims
<1>d. ASSUME sendBlocking PROVE Claims'
  <2>1. call.pc = "send"
    BY <1>d DEF sendBlocking, At
  <2>2. program # "base"
    BY <1>a, <2>1 DEF Callers, Parts, CallSet, Threads, ShellPcs
  <2>3. Now /\ Age(global_seq, response.p_seq) + ToSend < SeqRange
    BY <2>2 DEF Window, Now
  <2>4. ToSend \in Nat /\ ToSend >= 1 /\ SeqRange \in Nat
    <3>1. late \in Nat /\ MaxLate \in Nat /\ late <= MaxLate
      BY Sizes DEF Shape, ProgramTypes
    <3> QED BY <3>1, <2>1, Sizes DEF ToSend, CallToSend, CommandToSend, Returned
  <2>5. Age(global_seq, response.p_seq) \in Nat
    BY <1>a, AgeRange DEF LineTypes, RespSet
  <2>6. Age(global_seq, response.p_seq) + 1 < SeqRange
    BY <2>3, <2>4, <2>5
  <2> QED BY <1>a, <1>d, <2>3, <2>6, BlockingClaims
<1> USE <1>b DEF vars, clientVars, shellVars, received, lines
<1>1. CASE InCall /\ lockRead
  BY <1>1, <1>a, <1>c DEF lockRead, CallSet
<1>2. CASE InCall /\ await
  BY <1>2, <1>a, AwaitClaims
<1>3. CASE InCall /\ unlockRead
  BY <1>3, <1>a, <1>c DEF unlockRead, CallSet
<1>4. CASE InCall /\ sendBlocking
  BY <1>4, <1>d
<1>5. CASE runnerSends
  BY <1>5, <1>d DEF runnerSends
<1>6. CASE queryReturns
  BY <1>6, <1>c DEF queryReturns, unlockWrite, NoCall
<1>7. CASE readConfiguration
  BY <1>7 DEF readConfiguration
<1>8. CASE queryCalls
  BY <1>8, <1>a, <1>c DEF queryCalls, lockWrite, CallSet
<1>9. CASE driveBase
  BY <1>9 DEF driveBase, setBaseVelocity
<1>10. CASE sendFn
  BY <1>10 DEF sendFn, sendDeferred, Command, Goto
<1>11. CASE quitFn
  BY <1>11 DEF quitFn, Command, Goto
<1>12. CASE paramFn
  BY <1>12 DEF paramFn, Command, Goto
<1>13. CASE dumpFn
  BY <1>13 DEF dumpFn, Command, Goto
<1>14. CASE paramSemInit
  BY <1>14 DEF paramSemInit, Goto
<1>15. CASE paramFlag
  BY <1>15 DEF paramFlag, Goto
<1>16. CASE paramWait
  BY <1>16 DEF paramWait, Goto
<1>17. CASE paramUnflag
  BY <1>17 DEF paramUnflag, Goto
<1>18. CASE paramDestroy
  BY <1>18 DEF paramDestroy, Goto
<1>19. CASE paramReturn
  BY <1>19 DEF paramReturn, Goto
<1>20. CASE dumpFlag
  BY <1>20 DEF dumpFlag
<1>21. CASE dumpWait
  BY <1>21 DEF dumpWait
<1>22. CASE dumpUnflag
  BY <1>22 DEF dumpUnflag, Goto
<1>23. CASE dumpDestroy
  BY <1>23 DEF dumpDestroy, Goto
<1>24. CASE join
  BY <1>24 DEF join, Goto
<1>25. CASE runnerSync /\ syncFlush
  <2>1. UNCHANGED call /\ write_mutex = "free"
    BY <1>25 DEF syncFlush
  <2>2. call.pc = "idle"
    BY <2>1, <1>a DEF Locks, CallSet, Threads
  <2> QED BY <2>1, <2>2, <1>c
<1>26. CASE runnerSync /\ syncStamp
  BY <1>26 DEF runnerSync, syncStamp, RunnerGoto
<1>27. CASE runnerSync /\ syncNoDrive
  BY <1>27 DEF runnerSync, syncNoDrive, RunnerGoto
<1>28. CASE runnerSync /\ syncPack
  BY <1>28 DEF runnerSync, syncPack, RunnerGoto
<1>29. CASE runnerSync /\ syncNote
  BY <1>29 DEF runnerSync, syncNote
<1>30. CASE runnerSync /\ syncLockRead
  BY <1>30 DEF runnerSync, syncLockRead, RunnerGoto
<1>31. CASE runnerSync /\ syncRead
  <2>1. UNCHANGED call /\ runner.pc = "read"
    BY <1>31 DEF syncRead, RunnerGoto, At
  <2> QED BY <2>1, <1>a, <1>c DEF Locks
<1>32. CASE runnerSync /\ syncCheck
  BY <1>32 DEF runnerSync, syncCheck, RunnerGoto
<1>33. CASE refreshState
  BY <1>33 DEF refreshState, get, RunnerGoto
<1>34. CASE testState
  BY <1>34 DEF testState, RunnerGoto
<1>35. CASE postState
  BY <1>35 DEF postState, RunnerGoto
<1>36. CASE testParam
  BY <1>36 DEF testParam, RunnerGoto
<1>37. CASE opCalls
  BY <1>37, <1>a, <1>c DEF opCalls, lockWrite, CallSet
<1>38. CASE opReturns
  BY <1>38, <1>c DEF opReturns, unlockWrite, NoCall
<1>39. CASE postParam
  BY <1>39 DEF postParam, RunnerGoto
<1>40. CASE whileRun
  BY <1>40 DEF whileRun
<1>41. CASE testRunnerGets
  BY <1>41 DEF testRunnerGets, get, RunnerGoto
<1>42. CASE testRunnerSends
  BY <1>42 DEF testRunnerSends, RunnerGoto, sendDeferred
<1>43. CASE baseRunner
  BY <1>43 DEF baseRunner, RunnerGoto
<1>44. CASE OnTheLine /\ robotEpoch
  BY <1>44, <1>a, EpochClaims
<1>45. CASE OnTheLine /\ lose
  BY <1>45, <1>a, LossClaims
<1>46. CASE UNCHANGED vars
  BY <1>46
<1> QED
  BY <1>1, <1>2, <1>3, <1>4, <1>5, <1>6, <1>7, <1>8, <1>9, <1>10, <1>11, <1>12, <1>13, <1>14, <1>15, <1>16, <1>17, <1>18, <1>19, <1>20, <1>21, <1>22, <1>23, <1>24, <1>25, <1>26, <1>27, <1>28, <1>29, <1>30, <1>31, <1>32, <1>33, <1>34, <1>35, <1>36, <1>37, <1>38, <1>39, <1>40, <1>41, <1>42, <1>43, <1>44, <1>45, <1>46 DEF Next, Main, InCommand, CallStep, Runner, Ended, InCall, runnerSync,
         Sync, OnTheLine, Line

(* At the start there is nothing on the line.                              *)
LEMMA WindowInit == Init => Window /\ Claims
<1> SUFFICES ASSUME Init PROVE Window /\ Claims
  OBVIOUS
<1>1. /\ DOMAIN from_robot = {} /\ DOMAIN to_robot = {} /\ DOMAIN tx = {}
      /\ global_seq = 0 /\ response.p_seq = 0 /\ call.pc = "idle"
      /\ runner.pc = "sync" /\ main.pc = "idle"
  BY DEF Init, ClientInit, NoResponse, NoCall
<1>2. Age(0, 0) = 0 /\ SeqRange > 0
  BY Sizes DEF Age
<1>3. ToSend = 0
  BY <1>1 DEF ToSend, CallToSend, CommandToSend
<1>4. InOrder(global_seq, response.p_seq, from_robot, to_robot, tx)
  BY <1>1 DEF InOrder, Since, Ordered, Before
<1> QED BY <1>1, <1>2, <1>3, <1>4 DEF Window, Claims

(* A blocking call that returns Success has been answered: the response    *)
(* belongs to the very packet it sent.                                     *)
THEOREM SuccessMeansAnsweredAlways == Spec => []SuccessMeansAnswered
<1>1. Shape /\ Window /\ Claims /\ [Next]_vars => Shape' /\ Window' /\ Claims'
  BY ShapeStep, WindowStep, ClaimsStep
<1>2. Claims => SuccessMeansAnswered
  BY DEF Claims, SuccessMeansAnswered
<1> QED BY <1>1, <1>2, ShapeInit, WindowInit, PTL DEF Spec
==============================================================================
