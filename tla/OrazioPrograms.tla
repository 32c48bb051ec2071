--------------------------- MODULE OrazioPrograms ---------------------------
(***************************************************************************)
(* The programs on the PC that use the client library, each with a main    *)
(* thread and a runner:                                                    *)
(*                                                                         *)
(*   "shell"  orazio_shell.c with orazio_shell_commands.c.  The runner     *)
(*            alone reads from the line; a command of the main thread that *)
(*            needs it leaves a packet for it, raises a flag               *)
(*            and waits for a semaphore.  The runner and the commands of   *)
(*            orazio_websocket_server.c are the same.                      *)
(*   "test"   orazio_client_test.c.  Both threads read: the main thread    *)
(*            makes blocking calls while the runner syncs.                 *)
(*   "base"   a user of orazio_client.h that drives the base with          *)
(*            OrazioClient_setBaseVelocity while the runner syncs.         *)
(***************************************************************************)
EXTENDS OrazioClient

CONSTANTS
  Programs,             \* a subset of AllPrograms
  DumpCycles,           \* states that the command dump waits for
  MaxLate               \* bound: epochs the main thread may fall behind

AllPrograms == {"shell", "test", "base"}

ASSUME ProgramConstants ==
  /\ Programs \subseteq AllPrograms
  /\ {DumpCycles, MaxLate} \subseteq Nat \ {0}
  /\ SeqRange > MaxLate + 2

VARIABLES
  program,              \* which of the programs this is
  main,                 \* the main thread: pc, left (calls or states to come)
  run,                  \* the program goes on
  state_sem, param_sem, \* semaphores: value, and whether they exist
  state_sem_init, param_sem_init,
  op_result,            \* whose result it is: "own", of the last command's
                        \* packet, or "other"
  sending,              \* history: whose packet the runner last sent
  sent,                 \* history: how often the last command's was sent
  late                  \* history: epochs since the runner's last post

shellVars == <<run, state_sem, param_sem, state_sem_init, param_sem_init,
               op_result, sending, sent, late>>

vars == <<clientVars, program, main, shellVars>>

NoSem == [value |-> 0, alive |-> FALSE]
NewSem == [value |-> 0, alive |-> TRUE]

Init ==
  /\ ClientInit
  /\ program \in Programs
  /\ main = [pc |-> "idle", left |-> 0]
  /\ run = TRUE
  /\ state_sem = NoSem /\ param_sem = NoSem
  /\ state_sem_init = FALSE /\ param_sem_init = FALSE
  /\ op_result = "other"
  /\ sending = "other"
  /\ sent = 0
  /\ late = 0

Goto(from, to) == main.pc = from /\ main' = [main EXCEPT !.pc = to]

(* Bounds, no guards of the code: the program does not outrun the line,    *)
(* and of its last SeqRange - 1 packets one has been answered.             *)
Unanswered == (global_seq + SeqRange - response.p_seq) % SeqRange

Calm(packets) ==
  Len(to_robot) + Len(tx) < LineMax /\ Unanswered + packets < SeqRange

CommandCalm == Calm(MaxLate + 2)
----------------------------------------------------------------------------
(* The steps of a blocking call between its first lock and its last unlock *)

InCall ==
  /\ \/ lockRead \/ await \/ unlockRead
     \/ sendBlocking /\ call.by = "main"
  /\ UNCHANGED <<program, main, shellVars>>

(* The packet the shell sends is param_control as it is now, that of the   *)
(* last command.  That the main thread may overwrite it between            *)
(* _sendPacket and the lines that note its number is left out.             *)
runnerSends ==
  /\ sendBlocking /\ call.by = "runner"
  /\ sending' = "own"
  /\ sent' = IF sent < 2 THEN sent + 1 ELSE sent
  /\ UNCHANGED <<program, main, run, state_sem, param_sem, state_sem_init,
                 param_sem_init, op_result, late>>
----------------------------------------------------------------------------
(* The main thread of the client test: OrazioClient_readConfiguration      *)

readConfiguration ==
  /\ program = "test"
  /\ main.pc = "idle"
  /\ main' = [pc |-> "query", left |-> 3]
  /\ UNCHANGED <<clientVars, program, shellVars>>

queryCalls ==
  /\ Goto("query", "called")
  /\ Calm(1)
  /\ lockWrite("main")
  /\ UNCHANGED <<runner, program, shellVars>>

(* It asks for one set of parameters after the other, while all goes well. *)
queryReturns ==
  /\ main.pc = "called"
  /\ unlockWrite
  /\ main' = IF call.result = "Success" /\ main.left > 1
             THEN [pc |-> "query", left |-> main.left - 1]
             ELSE [pc |-> "idle", left |-> 0]
  /\ UNCHANGED <<runner, program, shellVars>>

(* The main thread of a program that drives the base *)
driveBase ==
  /\ program = "base"
  /\ setBaseVelocity
  /\ UNCHANGED <<program, main, shellVars>>
----------------------------------------------------------------------------
(* The main thread of the shell: executeCommand *)

Command(to) == program = "shell" /\ Goto("idle", to) /\ run

(* The runner is still busy with the command before.                       *)
Busy == runner.pc \in {"op", "called", "post", "postState"}

sendFn ==
  /\ Command("idle")
  /\ CommandCalm
  /\ sendDeferred("JointControl")
  /\ UNCHANGED <<runner, program, shellVars>>

quitFn ==
  /\ Command("join")
  /\ run' = FALSE
  /\ UNCHANGED <<clientVars, program, state_sem, param_sem, state_sem_init,
                 param_sem_init, op_result, sending, sent, late>>

(* pthread_join, OrazioClient_destroy *)
join ==
  /\ Goto("join", "ended")
  /\ runner.pc = "ended"
  /\ UNCHANGED <<clientVars, program, shellVars>>

(* Mistake: the flag is raised before the semaphore exists. *)
paramFn_FlagFirst ==
  /\ Command("semInit")
  /\ CommandCalm
  /\ param_sem_init' = TRUE
  /\ op_result' = "other" /\ sending' = "other" /\ sent' = 0
  /\ late' = IF Busy THEN 1 ELSE 0
  /\ UNCHANGED <<clientVars, program, run, state_sem, param_sem,
                 state_sem_init>>

(* paramFn: the packet in the semaphore, the flag.          *)
paramFn ==
  /\ Command("semInit")
  /\ CommandCalm
  /\ op_result' = "other" /\ sending' = "other" /\ sent' = 0
  /\ late' = IF Busy THEN 1 ELSE 0
  /\ UNCHANGED <<clientVars, program, run, state_sem, param_sem, state_sem_init,
                 param_sem_init>>

paramSemInit ==
  /\ Goto("semInit", "flag")
  /\ param_sem' = NewSem
  /\ UNCHANGED <<clientVars, program, run, state_sem, state_sem_init,
                 param_sem_init, op_result, sending, sent, late>>

paramFlag ==
  /\ Goto("flag", "wait")
  /\ param_sem_init' = TRUE
  /\ UNCHANGED <<clientVars, program, run, state_sem, param_sem, state_sem_init,
                 op_result, sending, sent, late>>

paramWait ==
  /\ Goto("wait", "unflag")
  /\ param_sem.value > 0
  /\ param_sem' = [param_sem EXCEPT !.value = @ - 1]
  /\ UNCHANGED <<clientVars, program, run, state_sem, state_sem_init,
                 param_sem_init, op_result, sending, sent, late>>

(* Mistake: the flag stays up. *)
paramUnflag_Not ==
  /\ Goto("unflag", "destroy")
  /\ UNCHANGED <<clientVars, program, shellVars>>

paramUnflag ==
  /\ Goto("unflag", "destroy")
  /\ param_sem_init' = FALSE
  /\ UNCHANGED <<clientVars, program, run, state_sem, param_sem, state_sem_init,
                 op_result, sending, sent, late>>

paramDestroy ==
  /\ Goto("destroy", "result")
  /\ param_sem' = NoSem
  /\ UNCHANGED <<clientVars, program, run, state_sem, state_sem_init,
                 param_sem_init, op_result, sending, sent, late>>

(* return op_result; the histories begin anew. *)
paramReturn ==
  /\ Goto("result", "idle")
  /\ op_result' = "other" /\ sending' = "other" /\ sent' = 0
  /\ UNCHANGED <<clientVars, program, run, state_sem, param_sem, state_sem_init,
                 param_sem_init, late>>

(* dumpFn: the semaphore, the flag, and a wait for each state to print.    *)
dumpFn ==
  /\ Command("dumpFlag")
  /\ state_sem' = NewSem
  /\ late' = IF Busy THEN 1 ELSE 0
  /\ UNCHANGED <<clientVars, program, run, param_sem, state_sem_init,
                 param_sem_init, op_result, sending, sent>>

dumpFlag ==
  /\ main.pc = "dumpFlag"
  /\ main' = [pc |-> "dump", left |-> DumpCycles]
  /\ state_sem_init' = TRUE
  /\ UNCHANGED <<clientVars, program, run, state_sem, param_sem, param_sem_init,
                 op_result, sending, sent, late>>

dumpWait ==
  /\ main.pc = "dump" /\ main.left > 0
  /\ state_sem.value > 0
  /\ main' = [main EXCEPT !.left = @ - 1]
  /\ state_sem' = [state_sem EXCEPT !.value = @ - 1]
  /\ UNCHANGED <<clientVars, program, run, param_sem, state_sem_init,
                 param_sem_init, op_result, sending, sent, late>>

dumpUnflag ==
  /\ Goto("dump", "dumpDestroy")
  /\ main.left = 0
  /\ state_sem_init' = FALSE
  /\ UNCHANGED <<clientVars, program, run, state_sem, param_sem, param_sem_init,
                 op_result, sending, sent, late>>

dumpDestroy ==
  /\ Goto("dumpDestroy", "idle")
  /\ state_sem' = NoSem
  /\ UNCHANGED <<clientVars, program, run, param_sem, state_sem_init,
                 param_sem_init, op_result, sending, sent, late>>
----------------------------------------------------------------------------
(* The runner between two calls of sync: _runnerFn *)

(* The main thread has all that it waits for, and only has to go on.       *)
Due ==
  \/ main.pc = "wait" /\ param_sem.value > 0
  \/ main.pc = "dump" /\ state_sem.value >= main.left
  \/ main.pc \in {"unflag", "destroy", "result", "dumpDestroy"}

(* While the main thread is Due, at most MaxLate epochs go by.             *)
runnerSync ==
  /\ Sync
  /\ LET returns == runner'.pc = "return" /\ Due
     IN /\ returns => late < MaxLate
        /\ late' = IF returns THEN late + 1 ELSE late
  /\ UNCHANGED <<program, main, run, state_sem, param_sem, state_sem_init,
                 param_sem_init, op_result, sending, sent>>

(* refreshState: copies under the lock; their success is put into          *)
(* op_result, which may hold the result of a command.                      *)
refreshState ==
  /\ program = "shell"
  /\ RunnerGoto("return", "state")
  /\ get
  /\ op_result' = "other"
  /\ UNCHANGED <<program, main, run, state_sem, param_sem, state_sem_init,
                 param_sem_init, sending, sent, late>>

testState ==
  /\ RunnerGoto("state", IF state_sem_init THEN "postState" ELSE "param")
  /\ UNCHANGED <<write_mutex, read_mutex, global_seq, tx, drive, received, call,
                 lines, program, main, shellVars>>

(* sem_post.  Posts that no wait is left for are not counted; one to a     *)
(* semaphore that does not exist is undone by the next sem_init.           *)
Posted(sem, max) ==
  IF sem.alive /\ sem.value < max THEN [sem EXCEPT !.value = @ + 1] ELSE sem

postState ==
  /\ RunnerGoto("postState", "param")
  /\ state_sem' = Posted(state_sem, DumpCycles)
  /\ UNCHANGED <<write_mutex, read_mutex, global_seq, tx, drive, received, call,
                 lines, program, main, run, param_sem, state_sem_init,
                 param_sem_init, op_result, sending, sent, late>>

testParam ==
  /\ RunnerGoto("param", IF param_sem_init THEN "op" ELSE "while")
  /\ UNCHANGED <<write_mutex, read_mutex, global_seq, tx, drive, received, call,
                 lines, program, main, shellVars>>

opCalls ==
  /\ RunnerGoto("op", "called")
  /\ lockWrite("runner")
  /\ UNCHANGED <<program, main, shellVars>>

(* Mistake: only an operation that succeeds is reported. *)
AfterOp_Success == IF call.result = "Success" THEN "post" ELSE "while"

AfterOp == "post"

(* With its result, and a copy of the parameters (refreshParams).          *)
opReturns ==
  /\ RunnerGoto("called", AfterOp)
  /\ unlockWrite
  /\ op_result' = sending
  /\ UNCHANGED <<program, main, run, state_sem, param_sem, state_sem_init,
                 param_sem_init, sending, sent, late>>

postParam ==
  /\ RunnerGoto("post", "while")
  /\ param_sem' = Posted(param_sem, 2)
  /\ UNCHANGED <<write_mutex, read_mutex, global_seq, tx, drive, received, call,
                 lines, program, main, run, state_sem, state_sem_init,
                 param_sem_init, op_result, sending, sent, late>>

whileRun ==
  /\ runner.pc = "while"
  /\ runner' = [pc |-> IF run THEN "sync" ELSE "ended", current_seq |-> 0]
  /\ UNCHANGED <<write_mutex, read_mutex, global_seq, tx, drive, received, call,
                 lines, program, main, shellVars>>

(* The runner of the test prints copies of two packets and drives the base.*)
testRunnerGets ==
  /\ program = "test"
  /\ RunnerGoto("return", "drives")
  /\ get
  /\ UNCHANGED <<program, main, shellVars>>

testRunnerSends ==
  /\ RunnerGoto("drives", "while")
  /\ IF Calm(1) THEN sendDeferred("DriveControl")
     ELSE UNCHANGED <<write_mutex, read_mutex, global_seq, tx, drive, received,
                      call, lines>>
  /\ UNCHANGED <<program, main, shellVars>>

baseRunner ==
  /\ program = "base"
  /\ RunnerGoto("return", "while")
  /\ UNCHANGED <<write_mutex, read_mutex, global_seq, tx, drive, received, call,
                 lines, program, main, shellVars>>

Runner == \/ runnerSync \/ refreshState \/ testState \/ postState
          \/ testParam \/ opCalls \/ opReturns \/ postParam \/ whileRun
          \/ testRunnerGets \/ testRunnerSends \/ baseRunner

OnTheLine == Line /\ UNCHANGED <<program, main, shellVars>>

Robot == robotEpoch /\ UNCHANGED <<program, main, shellVars>>

InCommand == \/ paramSemInit \/ paramFlag \/ paramWait \/ paramUnflag
             \/ paramDestroy \/ paramReturn \/ dumpFlag \/ dumpWait
             \/ dumpUnflag \/ dumpDestroy \/ join

Main == \/ readConfiguration \/ queryCalls \/ driveBase \/ sendFn \/ quitFn
        \/ paramFn \/ dumpFn

CallStep == InCall \/ runnerSends \/ queryReturns

(* The shell has quit: there is nothing left to do.                        *)
Ended == main.pc = "ended" /\ UNCHANGED vars

Next == Main \/ InCommand \/ CallStep \/ Runner \/ OnTheLine \/ Ended

(* A call or a command that was begun goes on when it can, the runner too, *)
(* and the robot goes on with its epochs.  The mutexes need not be fair.   *)
MainThread == InCommand \/ (call.by = "main" /\ CallStep)

RunnerThread == Runner \/ (call.by = "runner" /\ CallStep)

Fairness == WF_vars(MainThread) /\ WF_vars(RunnerThread) /\ WF_vars(Robot)

Spec == Init /\ [][Next]_vars /\ Fairness
----------------------------------------------------------------------------
(* "reads all packets of an epoch (same seq), and returns"                 *)
(* (orazio_client.h, sync): when sync returns, the client has the status   *)
(* of the very epoch whose end sync has read, if the robot sent one in     *)
(* that epoch, and none of a later epoch, where nobody else reads and      *)
(* nothing is lost on the line.                                            *)
SyncReadsWholeEpoch ==
  runner.pc = "return" /\ program # "test" /\ lost = 0 /\ end_status =>
    status = end_epoch

(* A command gets its own answer, and its packet is sent once, unless the  *)
(* runner completed an epoch between its post and the end of the command.  *)
(* It may: then refreshState overwrites the result with Success, and the   *)
(* operation is issued again, for this command or with the packet and the  *)
(* semaphore of the next.                                                  *)
CommandGetsItsAnswer ==
  main.pc = "result" /\ late = 0 => op_result = "own" /\ sent = 1

(* The runner posts to semaphores that exist, with the same exception: it  *)
(* tests the flag and posts later, and the command destroys the semaphore  *)
(* in between.                                                             *)
PostsReachSemaphores ==
  late = 0 => /\ runner.pc = "post" => param_sem.alive
              /\ runner.pc = "postState" => state_sem.alive

(* Commands of the shell end, whether their packets are answered or not:   *)
(* no post is missed, and quit waits for the runner only.                  *)
CommandsEnd ==
  program = "shell" /\ main.pc # "idle" ~> main.pc \in {"idle", "ended"}
=============================================================================
