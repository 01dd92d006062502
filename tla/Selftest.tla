------------------------------ MODULE Selftest ------------------------------
(***************************************************************************)
(* The commands of kernel/kernel.c that spawn programs and then wait for   *)
(* them by yielding a fixed number of times: kernel_run_selftest (at boot  *)
(* and as a command), stressproc and taskdemo, with the programs that the  *)
(* shell's run and spawnproc leave running beside them.                    *)
(*                                                                         *)
(* A task gives the CPU up only by yielding or exiting, so what it does    *)
(* between two such calls is one step.  Of a program the module keeps how  *)
(* often it yields and how many user pings it makes; the files that hold   *)
(* the images are those of vfs_init.  A spawn may fail for want of memory  *)
(* at any time (Process and AddrSpace have the detail).                    *)
(***************************************************************************)
EXTENDS Integers, FiniteSets, FiniteSetsExt

CONSTANTS MaxTasks,   \* MAX_TASKS
          ProcessMax, \* PROCESS_MAX
          Rounds,     \* the arguments given to stressproc
          MaxCommands \* bound: the commands typed

SelftestAssumption ==
  /\ MaxTasks \in Nat \ {0} /\ ProcessMax \in Nat \ {0}
  /\ Rounds \subseteq 1..256 /\ MaxCommands \in Nat

VARIABLES state, current_task, \* tasks[].state
          left,     \* the yields each task has still to make
          pings,    \* the user pings each task makes when it runs
          entry,    \* process_table[].tid; NoTask where active is 0
          user_pings, \* what system call 18 reports
          pc, after, k, \* where task 0 is, where it goes after k yields
          run,      \* the locals of the command
          made,     \* ghost: the tasks taskdemo has created
          trouble,  \* ghost: what has gone wrong in this run
          verdict, commands

tasks == <<state, current_task, left, pings>>
vars == <<tasks, entry, user_pings, pc, after, k, run, made, trouble, verdict, commands>>

NoTask == -1
Slots == 0..(ProcessMax - 1)

\* Only scheduler_pick_next is taken from the scheduler's module.
S == INSTANCE Scheduler WITH Quantum <- 1, TickMod <- 2, Stacks <- {}, NoStack <- 0,
       stack_base <- 0, heap <- {}, tick_since_switch <- 0, preempt_pending <- FALSE

\* The programs of exec.c and kernel.c: yields, then pings
Counter == [yields |-> 16, pings |-> 0]
Writer == [yields |-> 4, pings |-> 0]
Demo == [yields |-> 12, pings |-> 0]
ExitOnly == [yields |-> 0, pings |-> 0]
HelloPing == [yields |-> 0, pings |-> 3]
PingBurst == [yields |-> 0, pings |-> 8]

NoRun == [before |-> 0, round |-> 0, rounds |-> 0, created |-> 0, failed |-> 0, spawned |-> 0, bad |-> "none"]

Init ==
  /\ state = [t \in S!Tasks |-> IF t = 0 THEN "RUNNING" ELSE "UNUSED"]
  /\ current_task = 0
  /\ left = [t \in S!Tasks |-> 0] /\ pings = [t \in S!Tasks |-> 0]
  /\ entry = [s \in Slots |-> IF s = 0 THEN 0 ELSE NoTask]
  /\ user_pings = 0
  /\ pc = "selftest" /\ after = "none" /\ k = 0
  /\ run = NoRun /\ made = {} /\ trouble = {} /\ verdict = "none" /\ commands = 0
-----------------------------------------------------------------------------
(* The scheduler and the process table *)

Reusable == {t \in S!Tasks \ {0} : state[t] \in {"UNUSED", "ZOMBIE"}}
FreeSlots == {s \in Slots : entry[s] = NoTask}

\* scheduler_create_task
CreateTask(t, p) ==
  /\ Reusable # {} /\ t = Min(Reusable)
  /\ state' = [state EXCEPT ![t] = "RUNNABLE"]
  /\ left' = [left EXCEPT ![t] = p.yields]
  /\ pings' = [pings EXCEPT ![t] = p.pings]
  /\ UNCHANGED current_task

\* process_spawn_common with program p, when it succeeds
Spawn(p) ==
  /\ FreeSlots # {}
  /\ \E t \in S!Tasks : CreateTask(t, p) /\ entry' = [entry EXCEPT ![Min(FreeSlots)] = t]

NoSpawn == UNCHANGED <<tasks, entry>>

\* The entries process_reap clears: of two with one task only the first, since
\* the task is unused by the time the loop meets the second.
Reaped ==
  {s \in Slots : /\ entry[s] > 0 /\ state[entry[s]] = "ZOMBIE"
                 /\ \A r \in Slots : r < s => entry[r] # entry[s]}

process_reap ==
  /\ entry' = [s \in Slots |-> IF s \in Reaped THEN NoTask ELSE entry[s]]
  /\ state' = [t \in S!Tasks |-> IF \E s \in Reaped : entry[s] = t THEN "UNUSED" ELSE state[t]]

process_count == Cardinality({s \in Slots : entry[s] # NoTask})

\* The CPU goes from a task that is left in state s to the next one.
Dispatch(s) ==
  LET next == S!scheduler_pick_next(s, current_task)
  IN  /\ current_task' = IF next >= 0 THEN next ELSE current_task
      /\ state' = [s EXCEPT ![current_task'] = "RUNNING"]

\* A task other than 0 has the CPU: it goes on to its next yield or, having
\* made its pings, to its exit.
TaskYields ==
  /\ current_task # 0 /\ left[current_task] > 0
  /\ left' = [left EXCEPT ![current_task] = @ - 1]
  /\ Dispatch([state EXCEPT ![current_task] = "RUNNABLE"])
  /\ UNCHANGED <<pings, entry, user_pings, pc, after, k, run, made, trouble, verdict, commands>>

TaskExits ==
  /\ current_task # 0 /\ left[current_task] = 0
  /\ user_pings' = user_pings + pings[current_task]
  /\ pings' = [pings EXCEPT ![current_task] = 0]
  /\ Dispatch([state EXCEPT ![current_task] = "ZOMBIE"])
  /\ UNCHANGED <<left, entry, pc, after, k, run, made, trouble, verdict, commands>>
-----------------------------------------------------------------------------
(* Task 0 *)

At(label) == current_task = 0 /\ pc = label

Goto(label) == pc' = label /\ UNCHANGED <<after, k>>

\* A loop of n yields, each followed by process_reap except in taskdemo
Yields(n, then) == pc' = "yield" /\ k' = n /\ after' = then

Yield ==
  /\ At("yield")
  /\ Dispatch([state EXCEPT ![0] = "RUNNABLE"])
  /\ pc' = "resumed"
  /\ UNCHANGED <<left, pings, entry, user_pings, after, k, run, made, trouble, verdict, commands>>

Resume ==
  /\ At("resumed")
  /\ IF after = "demo done" THEN UNCHANGED <<state, entry>> ELSE process_reap
  /\ k' = k - 1
  /\ pc' = IF k = 1 THEN after ELSE "yield"
  /\ UNCHANGED <<current_task, left, pings, user_pings, after, run, made, trouble, verdict, commands>>

(* kernel_run_selftest *)

TestPrograms == <<ExitOnly, HelloPing, HelloPing>> \* userprobe, hello_ping, helloapp

SelftestStart ==
  /\ At("selftest")
  /\ run' = [NoRun EXCEPT !.before = user_pings]
  /\ trouble' = IF process_count > 1 THEN {"others"} ELSE {}
  /\ verdict' = "none"
  /\ Goto("spawn")
  /\ UNCHANGED <<tasks, entry, user_pings, made, commands>>

\* The three programs.  Without memory for the image buffer
\* process_build_user_image takes the built-in program instead of the file.
SelftestSpawn ==
  LET p == TestPrograms[run.round + 1]
  IN  /\ At("spawn")
      /\ \/ Spawn(p) /\ run' = [run EXCEPT !.round = @ + 1, !.spawned = @ + 1] /\ UNCHANGED trouble
         \/ /\ p = HelloPing /\ Spawn(ExitOnly)
            /\ run' = [run EXCEPT !.round = @ + 1, !.spawned = @ + 1]
            /\ trouble' = trouble \cup {"built-in"}
         \/ NoSpawn /\ run' = [run EXCEPT !.round = @ + 1] /\ trouble' = trouble \cup {"spawn"}
      /\ Goto(IF run'.round = 3 THEN "badimg" ELSE "spawn")
      /\ UNCHANGED <<user_pings, made, verdict, commands>>

\* The image that must be refused: the file is not written, the spawn fails
\* before or in the loader, or the built-in program runs in its place.
SelftestBadImage ==
  /\ At("badimg")
  /\ \/ \E b \in {"not written", "no room"} : run' = [run EXCEPT !.bad = b, !.round = 0]
        /\ NoSpawn /\ UNCHANGED trouble
     \/ /\ FreeSlots # {} /\ run' = [run EXCEPT !.bad = "malformed", !.round = 0]
        /\ NoSpawn /\ UNCHANGED trouble
     \/ /\ Spawn(ExitOnly) /\ run' = [run EXCEPT !.bad = "accepted", !.round = 0]
        /\ trouble' = trouble \cup {"accepted"}
  /\ IF run.spawned > 0 THEN Yields(12, "stress") ELSE Goto("stress")
  /\ UNCHANGED <<user_pings, made, verdict, commands>>

SelftestRound ==
  /\ At("stress") /\ run.round < 4 /\ run.failed = 0
  /\ \/ /\ Spawn(ExitOnly) /\ Yields(6, "stress")
        /\ run' = [run EXCEPT !.round = @ + 1, !.created = @ + 1] /\ UNCHANGED trouble
     \/ /\ NoSpawn /\ Goto("stress")
        /\ run' = [run EXCEPT !.failed = 1] /\ trouble' = trouble \cup {"spawn"}
  /\ UNCHANGED <<user_pings, made, verdict, commands>>

Passes_AnyPings ==
  /\ run.spawned = 3 /\ run.bad # "accepted"
  /\ run.created = 4 /\ run.failed = 0
  /\ Cardinality({s \in Slots : entry'[s] # NoTask}) = 1
Passes ==
  /\ run.spawned = 3 /\ run.bad # "accepted"
  /\ user_pings - run.before = 6
  /\ run.created = 4 /\ run.failed = 0
  /\ Cardinality({s \in Slots : entry'[s] # NoTask}) = 1

\* At boot a failure halts the kernel.
SelftestVerdict ==
  /\ At("stress") /\ (run.round = 4 \/ run.failed > 0)
  /\ process_reap
  /\ verdict' = IF Passes THEN "PASS" ELSE "FAIL"
  /\ Goto(IF commands = 0 /\ verdict' = "FAIL" THEN "halted" ELSE "loop")
  /\ UNCHANGED <<current_task, left, pings, user_pings, run, made, trouble, commands>>
-----------------------------------------------------------------------------
(* The shell *)

Command == At("shell") /\ commands < MaxCommands /\ commands' = commands + 1

Quiet == UNCHANGED <<user_pings, made, trouble, verdict>>

\* One turn of the loop that waits for a key: scheduler_run_pending, process_reap
Loop ==
  /\ At("loop")
  /\ \/ Yields(1, "shell") /\ UNCHANGED <<state, entry>>
     \/ process_reap /\ Goto("shell")
  /\ UNCHANGED <<current_task, left, pings, commands, run>> /\ Quiet

NoKey == At("shell") /\ Goto("loop") /\ UNCHANGED <<tasks, entry, run, commands>> /\ Quiet

selftest == Command /\ Goto("selftest") /\ UNCHANGED <<tasks, entry, run>> /\ Quiet

\* run and sysrun of a program
Run(p) ==
  /\ Command
  /\ Spawn(p) \/ NoSpawn
  /\ Goto("loop") /\ run' = NoRun /\ Quiet

\* Both spawns are tried, whatever becomes of the first.
spawnproc ==
  /\ Command
  /\ Spawn(Demo) \/ NoSpawn
  /\ Goto("spawnproc") /\ run' = NoRun /\ Quiet

SpawnprocSecond ==
  /\ At("spawnproc")
  /\ Spawn(Demo) \/ NoSpawn
  /\ Goto("loop") /\ UNCHANGED <<run, commands>> /\ Quiet

\* demo1; with demo2 as well there follow 40 yields, else demo1 is left to run.
taskdemo ==
  /\ Command
  /\ \/ \E t \in S!Tasks : CreateTask(t, Demo) /\ made' = {t}
     \/ UNCHANGED tasks /\ made' = {}
  /\ Goto("taskdemo") /\ run' = NoRun
  /\ UNCHANGED <<entry, user_pings, trouble, verdict>>

TaskdemoYields == 40

TaskdemoSecond ==
  /\ At("taskdemo")
  /\ \/ \E t \in S!Tasks : CreateTask(t, Demo) /\ made' = made \cup {t}
     \/ UNCHANGED <<tasks, made>>
  /\ IF Cardinality(made') = 2 THEN Yields(TaskdemoYields, "demo done") ELSE Goto("loop")
  /\ UNCHANGED <<entry, user_pings, trouble, verdict, run, commands>>

TaskdemoDone ==
  At("demo done") /\ Goto("loop") /\ UNCHANGED <<tasks, entry, run, commands>> /\ Quiet

stressproc(n) ==
  /\ Command
  /\ run' = [NoRun EXCEPT !.rounds = n]
  /\ Goto("stressproc") /\ UNCHANGED <<tasks, entry>> /\ Quiet

StressprocRound ==
  /\ At("stressproc") /\ run.round < run.rounds
  /\ \/ /\ Spawn(ExitOnly) /\ Yields(6, "stressproc")
        /\ run' = [run EXCEPT !.round = @ + 1, !.created = @ + 1]
     \/ /\ NoSpawn /\ Goto("stressproc")
        /\ run' = [run EXCEPT !.round = @ + 1, !.failed = @ + 1]
  /\ UNCHANGED commands /\ Quiet

drain_iters_PerRound(rounds) == rounds * 4
drain_iters(rounds) == IF rounds > 256 THEN 1024 ELSE rounds * 4 + 16

StressprocDrain ==
  /\ At("stressproc") /\ run.round = run.rounds
  /\ Yields(drain_iters(run.rounds), "report")
  /\ UNCHANGED <<tasks, entry, run, commands>> /\ Quiet

StressprocReport ==
  /\ At("report")
  /\ process_reap
  /\ verdict' = IF run.failed = 0 /\ Cardinality({s \in Slots : entry'[s] # NoTask}) = 1
                THEN "stressproc: PASS" ELSE "stressproc: FAIL"
  /\ Goto("loop")
  /\ UNCHANGED <<current_task, left, pings, user_pings, made, trouble, run, commands>>

Next ==
  \/ TaskYields \/ TaskExits
  \/ Yield \/ Resume
  \/ SelftestStart \/ SelftestSpawn \/ SelftestBadImage \/ SelftestRound \/ SelftestVerdict
  \/ Loop \/ NoKey \/ selftest
  \/ \E p \in {Counter, Writer, ExitOnly, HelloPing, PingBurst} : Run(p)
  \/ spawnproc \/ SpawnprocSecond
  \/ taskdemo \/ TaskdemoSecond \/ TaskdemoDone
  \/ \E n \in Rounds : stressproc(n)
  \/ StressprocRound \/ StressprocDrain \/ StressprocReport

Spec == Init /\ [][Next]_vars
-----------------------------------------------------------------------------
\* The self test passes exactly when nothing went wrong in it: twelve yields
\* are enough for its programs, six for each of the stress rounds, and it
\* notices a failed spawn and a built-in program run in place of a file.
\* Programs the shell had started before may make it fail, and their pings may
\* make up for those of a file that was not loaded; nothing else is hidden.
VerdictRight ==
  /\ verdict = "PASS" /\ "others" \notin trouble => trouble = {}
  /\ verdict = "PASS" => trouble \cap {"spawn", "accepted"} = {}
  /\ verdict = "FAIL" => trouble # {}

\* stressproc leaves nothing behind to be taken for a leak: whatever was
\* running when it began, counter with its sixteen yields included, has ended
\* and been reaped when it counts the processes that remain.
Drained == At("report") => process_count = 1

\* taskdemo's forty yields let both of its tasks end.
DemoEnded == At("demo done") => \A t \in made : state[t] = "ZOMBIE"

\* The numbers of yields written into the commands are enough.
YieldsSuffice == Drained /\ DemoEnded
=============================================================================
