# TLA+ models of the differential WebAssembly fuzzer

The program compares two WebAssembly engines.  `runner-coordinator` asks a
generator process for a random module, runs the module under V8 and under
SpiderMonkey with the same memory and the same arguments, compares the two logs
and stores everything in an SQLite database.  This directory holds TLA+
modules of it, the TLC runs that check them on small instances, and proofs of
the main results for every instance.

All paths below are relative to the repository, which has no documentation of
its own: what the code is meant to do is taken from its comments, messages and
names.

## Inventory

| component | state it keeps | operations | what makes it correct |
|---|---|---|---|
| tester workers (`src/runner-coordinator.cpp` 146-180, 487-565) | descriptor table, pid, wait status, `terminate_signal`, stream buffer, log | pipe, fork, reader thread, wait 10 s, kill, waitpid, closes | the log is complete or the report says timeout; nothing is leaked; the loop is never stuck |
| fuzzing loop (`src/runner-coordinator.cpp` 230-619) | two counters, `global_exit`, the two reports | "w", sleep, five memory steps, CompareLogs, flush, "q" | the testers run the module the row names; the rows read back as the logs; a crash leaves no half of a memory step |
| results database (`src/fuzzer-db.cpp`, `src/fuzzer-db.h`) | the file, its rows, the open transaction; serials in the coordinator's variables | open, create, insert, Flush, commit on destruction | foreign keys hold on disk; rows belong to the session that stored them; results of a session are all or nothing |
| module generator (`src/random-gen.cpp`) | random engine, block of random data, place of the next memory, module file, memory file | "w", "m", "q", `-skip-count`, `-skip-memory-count`, `-repro` | every module and memory can be written again from its place |
| test execution (`src/runner-common.cpp` 372-657) | random engine, shadow memory, shadow globals, log, descriptor 3, exit status | load, instantiate, set globals, select, invoke, compare; the modes of `Run` | both engines are given the same calls; equal behaviour gives equal logs, and the reverse; status 0 means a log, where the descriptor takes one |
| engine adapters (`src/runner-v8.cpp`, `src/runner-spidermonkey.cpp`) | compiled module, memory, globals | the virtual functions of `FuzzerRunnerBase` | the same value is logged alike |
| command line (`src/runner-common.h` 35-164) | words not consumed yet, values of options | consume an option and its value, check the required ones | a program starts exactly with the options it was given |
| interactive looper (`src/runner-common.cpp` 157-370) | `std::cin`, descriptor 3 | REPL commands | every line is one command; nothing is leaked; "quit" quits |
| memory and module generators for one file (`src/random-memory-gen.cpp`, `src/wasm-generator.cpp`) | none | write one file | - |

How they interact: the coordinator talks to the generator through a pipe made by
`popen`, to the testers through one pipe each (descriptor `COMMON_FILE_DESCRIPTOR`
in the tester) and their wait status, and generator and testers share one file,
`/dev/shm/randomized-wasm-<seed>`.  The two workers are threads of one process
and share its descriptor table; each has a detached reader thread.  SIGINT sets
a flag in the coordinator and cuts short a `waitpid` that blocks, and ends the
processes of its group that do not catch it.  Sessions follow each other over one
database file; a generator can outlive the coordinator that started it, be it
killed or at its orderly end: the stream over the generator's pipe is destroyed
before `POpenScope` and closes the descriptor, so that `pclose` fails and waits for
nobody.

What is hard: threads that share descriptors across `fork`; a timeout that races
the end of a log; processes that die at any point; a file that is written by a
process nobody waits for; a transaction that is open for a whole session, and
serial keys that a crash gives back; one stream of words and lines read by two
means.  `PROJECT.json` lists each hazard at its line.

## Modules

`TesterRun` is where threads, processes, pipes and timeouts meet, and everything
else believes its logs.  `FuzzingLoop` uses what it promises, `SingleRun` is the
inside of the two testers, `TesterMain` their outside, and `Sessions` puts
coordinators, generators and the database together.

| module | models | composes with |
|---|---|---|
| `TesterRun` | one memory step's pair of workers, readers and testers | implements `TesterReport` (`KeepsPromise`) |
| `TesterReport` | what such a run promises the fuzzing loop, in three variables | the abstract specification of `TesterRun` |
| `FuzzingLoop` | one session: the loops, `CompareLogs`, the generator, the module file, the transaction, SIGINT | a tester run appears only as `TesterReport` describes it: some log comes back, whole, cut, marked or empty |
| `SingleRun` | both testers of a memory step over the same inputs | what the logs say that `FuzzingLoop` compares |
| `FuzzerDb` | `Entities` over one file: creation, keys, transaction, loss of it | its callers are `DbNext`, or `Sessions` |
| `RandomGen` | generator processes, their arithmetic and the files they write | its users are `GenNext`, or `Sessions` |
| `Sessions` | coordinators one after the other, each with its generator, or a generator at a terminal | extends `FuzzerDb` and `RandomGen`; implements `DbSpec`, `GenSpec` and `Campaign` |
| `Campaign` | what the file of results promises its reader, in two variables | the abstract specification of `Sessions` (`KeepsCampaign`) |
| `CommandLine` | `CommandLineConsumer` and the options of the three programs | |
| `Marshal` | what a tester logs of a result, as operators | |
| `TesterMain` | a tester as a program: command line, modes of `Run`, `Looper` | extends `CommandLine` and `Marshal` |
| `TesterRunProofs`, `FuzzingLoopProofs`, `SingleRunProofs`, `FuzzerDbProofs`, `RandomGenProofs`, `SessionsProofs`, `CampaignProofs`, `TesterMainProofs` | the theorems | |
| `MCTesterRun`, `MCFuzzingLoop`, `MCSingleRun`, `MCSessions`, `MCTesterMain` | the constants of the TLC runs | |

### TesterRun: state and actions

A worker is a thread of the coordinator (`wpc`), its reader another one (`rpc`),
a tester a process (`child`, `status`).  `fds` is the descriptor table the
threads share, `held` the pipe ends a tester has open.  The bytes of a log are
counted (`sent`, `inPipe`, `buffered`, `got`): a unit is half a record, so that
an odd count is a log cut inside a record.

| actions | code (`src/runner-coordinator.cpp`) |
|---|---|
| `OpenPipe`, `Fork`, `StartReader` | `SpawnTester`: `pipe`, `fork` with the child's `dup2` and `execl`, `close(fd[1])`; the detached thread of the worker lambda |
| `FutureReady`, `Timeout`, `Reap`, `WaitChild`, `Interrupted` | `wait_for(10s)` and its two branches, `terminate_signal`, `kill`, the two `waitpid`s, and the SIGINT that cuts one short |
| `Join`, `CloseScope` | `read_future.get()`, the report, and `~stdio_filebuf` and `~FilenoScope`, which close the same number |
| `LeaveAtEof`, `LeaveAtTerminate`, `ReadSome`, `Peek`, `Wake`, `SeeEof` | the reader's loop over `readsome` and `peek` |
| `Write`, `Finish`, `Fail`, `Exit`, `Crash`, `SigKill` | the tester as its pipe and its parent see it: `Run`, `SingleRun` and `main` of the runners, and the arrival of SIGKILL |

The kernel (pipes, descriptor numbers, SIGPIPE, zombies, EINTR) is modelled from
how the code uses it.  A SIGKILL is sent by `Timeout` and arrives later: until
then the tester goes on, the `waitpid` after it blocks, and SIGINT, caught without
`SA_RESTART`, can cut that `waitpid` short as well as the one of the other branch.
`seen` tells the two apart: `unreaped` is a report of a timeout, `garbage` one made
of an uninitialised status; both leave the tester unreaped (`Cut`).  A `Run` that
fails closes its descriptor (`Fail`) before the process ends (`Exit`), so that the
reader can come to the end of the log first; one that keeps it open counts as
running until it ends.  The number of the signal in a verdict is left out.

### FuzzingLoop: state and actions

`pc`, `step` and `mem` are the position in the two loops and their counters, both
called `i` in the code.  `tx` holds the rows of the open transaction and `disk`
the committed ones.  `pending` and `quit` are the commands in the generator's
pipe; `gen`, `made` and `wasm` the generator and the module file; `ran` the module
each tester read.

| actions | code |
|---|---|
| `StoreSeed`, `SendW`, `StoreStep`, `Launch`, `NextStep`, `StoreCases`, `CheckExit`, `LoopDone`, `End`, `SendQ` | `FuzzingLoop` |
| `RunTester` | what a worker returns |
| `Compare` | `CompareLogs`, with its assertions |
| `Close` | the destructors of `filebuf_out`, `POpenScope` and `Entities`; none of them waits |
| `Interrupt` | `ExitHandler` |
| `Truncate`, `WriteModule`, `TakeQ`, `GeneratorDies` | the command loop of `src/random-gen.cpp`, and its end by a signal |

A crash of the coordinator discards `tx` (`Dies`); every state of the model is
also a state in which it could be killed, and `disk` is then what is left.

### SingleRun: state and actions

`test` is what the coordinator hands to both testers: a module (its functions
with the numbers they draw, its globals, its memory and data segments), a memory
file and a stream of random numbers.  `next` counts draws, `memory` and
`global_state` are the copies the comparison uses (the names of the code),
`mem` and `glob` what the engine has.  `past` is a history variable; no guard
reads it.

| actions | code (`src/runner-common.cpp`, `src/runner-v8.cpp`) |
|---|---|
| `InitializeModule`, `LoadMemory`, `InitializeExecution` | the virtual functions of the same names, and their early returns |
| `SetGlobals` | the loop that gives every global a random value |
| `Iterate` | the body of the call loop: sort index, argument draws, invocation, `CompareInternalMemory`, the comparison of globals by `operator==`, the record |
| `Finish`, `Crash` | the end of the loop; an engine that dies |

A function's name is a number, so that sorting compares numbers; an argument
list is its place among the draws; a global is a bit pattern, and `Denotes` says
which patterns `operator==` equates (the zeros, and all NaNs).  An engine is free
to leave any memory and any globals after a call.  Results and times of calls
are not in this module, and a call that traps is one more behaviour of the engine;
what a result is logged as is in `Marshal`.

### FuzzerDb: state and actions

A row is its table, its serial key and the rows that its foreign keys name
(`ForeignKeys` is the list of `specify_foreign`).  `disk` has the committed rows,
`tx` those of the open transaction, `db` says how far the constructor of
`Entities` has come and `file` whether the file exists.  Whether SQLite enforces
foreign keys depends on the library, so `enforced` is chosen at the start.  `cut`
is a history variable: a process died between making the file and filling it.

| actions | code (`src/fuzzer-db.cpp`) |
|---|---|
| `Open` | the constructor: `exists(filename)` first, then the database and its tables |
| `InsertV8`, `InsertSpiderMonkey` | `InitNewDb`, autocommitted, one statement at a time |
| `Insert` | the ten Store functions; `NextId` is the serial quince returns |
| `Flush`, `Close` | `Flush`, `~Entities` |
| `DieOpen` | the death of the process: SQLite rolls the transaction back |

### RandomGen: state and actions

The random engine is a stream of numbers fixed by the seed, so a module is named
by its seed, the place of its first number and the block size; a memory by the
number that seeds it.  A generator is a record: its position, its input, and the
variables of `main` (`drawn`, `from`, `ptr`, `pages`).  `made` and `mems` count
what it wrote.  `wasm` is the module file of each seed, which several generators
can write: `Mixed` is one module over a longer one.

| definitions | code (`src/random-gen.cpp`) |
|---|---|
| `Words`, `ToInt`, `Skipped`, `SeedAt` | the arithmetic of `main`, `GenerateRandomWASM` and `GenerateMemory`, with its widths (`IntMod`, `SizeMod`) |
| `ReproModule`, `ReproMemory` | `-repro`, a function of its options |
| `Start`, `Generate`, `Write`, `Fail`, `Memory`, `Quit`, `Ignore` | `main` and its command loop; the file is truncated first and written later |
| `Spin` | the end of the input, after which `getline` leaves an empty line for ever |
| `Send`, `CloseInput` | what the coordinator or a person does to the pipe |

"m" before the first "w" reads `mem_seed_ptr` and `mem_size` uninitialised
(`Uninit`): any number of pages, and data of the zero-filled block.

### Sessions: state and actions

`FuzzingLoop` has the inside of a session; here a session is its calls of the
Store functions, row by row, and its lines to the generator.  `ids` are the
serials in the coordinator's variables, and `Passes` says which variables each
call passes as foreign keys; `todo` is the list of rows that `CompareLogs` has
still to store.  `late` and `rival` are decided when the sleep ends and when "w" is
sent: the session's generator had not caught up; another generator with the
same seed had still to write.

| actions | code |
|---|---|
| `StartSession`, `InitNewDb`, `Popen`, `StoreSeed`, `FlushSeed` | `FuzzingLoop` up to the loop |
| `SendW`, `StoreStep`, `RunTesters`, `StoreNext`, `MemStepDone`, `NextStep` | the loops and `CompareLogs` |
| `End`, `SendQ`, `Finish` | the last flush, "q", the destructors: the end of the pipe (`HangUp`) and of the database, without waiting for the generator |
| `Refused` | the exception of a refused insertion, which nobody catches |
| `Crash` | the death of the coordinator anywhere: its transaction, and its end of the generator's pipe |
| `StartByHand`, `Type` | a generator at a terminal, which is where "m" is used |

### CommandLine, Marshal, TesterMain: state and actions

`CommandLine` has one step per turn of `CommandLineConsumer`'s loop: `Consume`,
`Set` (options without value), `MissingValue`, `Unknown`, `ValidateRequire`.
`Marshal` follows a result from the engine's value through `MarshallValue` to
`StringBinRepresentation`; a double is the whole number it equals, if any, and
its bits.

In `TesterMain`, `in` is `std::cin`: the lines not consumed yet, each the list of
its words.  A word is read across the ends of lines, the rest of a line with
`getline`, which is how `Looper` reads.  `fd3` is descriptor 3: closed, one that
takes the log, a full one, or one open for reading, which the stream of
`SingleRun` does not take and so does not close (`Leaves`).  Nobody asks the stream
whether it has failed, so that a log can be lost under a status of 0 (`Sinks`).
`leaked` are the descriptors nobody will close.  One step is one turn of the loop.

| actions | code |
|---|---|
| `ReadCommandLine`, `BadCommandLine` | `CommandLineConsumer`, `exit(-1)`, uncaught exceptions |
| `InitializeModule`, `Interactive`, `Single`, `Debug`, `InvokeOnce`, `OtherMode` | `Run` of `src/runner-common.cpp`, and what `main` of each runner returns |
| `Quit`, `Plain`, `Named`, `DumpFile`, `MemImport`, `Invoke`, `SetGlobal`, `SetGlobalThrows`, `SingleRunCommand`, `EndOfInput` | the branches of `Looper` |
| `TypeLine`, `CloseInput`, `Crash` | the person and the engine |

Two details of `Looper` that the model shows.  After a global is refused with an
exception, the loop reads the rest of the line a second time and so loses the
next line (`SetGlobalThrows`).  `catch (...)` with "Wrong value entered!" around
`singlerun` is not reached by a seed that is no number, as `std::cin` does not
throw: it is reached by a memory file that is missing.

## Runs

| run | what it checks | what it shows |
|---|---|---|
| `tester` | `TypeOK`, `CompleteLog`, `Reaped`, `PidIsOurs`, `FdsBalanced`, `EofStable`, `KeepsPromise`, `IInv`, `EveryWorkerReturns` | in every interleaving of two workers, readers and testers a report without the timeout flag is complete, a worker that returns has reaped its tester unless SIGINT cut its `waitpid` short, no pid is used after the reap, no descriptor leaks, and `TesterRun` implements `TesterReport`; a tester may hang anywhere but in its engine's teardown, and both workers return |
| `loop` | `TypeOK`, `OwnModule`, `NeverAhead`, `DurableWhole`, `SavedBeforeQuit`, `CallsReadBack`, `IInv`, `SessionEnds` | which module the testers run, what a crash leaves on disk, what `CompareLogs` stores, that a session ends, and its generator after an orderly end |
| `single_run` | `TypeOK`, `SameCalls`, `LogTellsState`, `SilenceIsAgreement`, `NoFalseAlarm`, `IInv` | the comparison of two logs is sound and complete for memory and globals |
| `sessions` | `TypeOK`, `KeysHold`, `OwnRows`, `Reproducible`, `RefusedOnlyAfterCut`, `ModuleRepeats`, `MemoryRepeats`, `LegalCalls`, `KeepsCampaign`, `QuitObeyed` | whatever crashes, keys hold on disk, rows hang on the seed of their session, a stored step can be repeated, and the file shows all of a session or only its seed; a generator that is sent "q" ends |
| `tester_main` | `TypeOK`, `OptionsAsGiven`, `EveryLineOnce`, `LeaksOne`, `ExitTells`, `TellsResult`, `QuitEnds` | a program starts exactly with the options it was given; each line at the prompt is run once; at most one descriptor is lost; status 0 is a written log, but for a descriptor that takes nothing; both engines tell a result alike, but for V8's whole doubles; a person can leave |
| `tester_double_close` | `ReaderKeepsItsPipe` violated | the second close of `pipeno` can close the sibling's pipe |
| `tester_signal` | `SignalIsFailure` violated | `result` is read uninitialised when the tester died of a signal |
| `tester_failed_run` | `FailedRunIsFailure` violated | `main` of the V8 runner drops the value of `Run` |
| `loop_crash_cases` | `CrashCasesFixed` violated | a log cut inside a record aborts the session |
| `loop_flush` | `WritesEvery100` violated | the flush tests the inner counter and never happens |
| `loop_same_module` | `SameModule` violated | nothing but the sleep orders the generator's write before the testers' reads |
| `loop_globals` | `GlobalsReadBack` violated | V8's global differences are stored under SpiderMonkey's call |

The last seven each refute one sentence of the code's own comments or
assertions; `findings` in `PROJECT.json` quotes it.

How far the results go:

- `SilenceIsAgreement` is about the whole of memory *as far as it was compared*:
  memory beyond the end of the memory file is compared by neither tester.
- `ExitTells` is the sentence `TesterRun` relies on, for a descriptor that takes what
  is written, as the pipe of `SpawnTester` does.  On a full or a read-only one the
  log is lost and the status is 0 as well; the property says that, too.
- `Reaped` exempts SIGINT: the `waitpid` it cuts short, of line 543 or of line 551,
  leaves a zombie until the coordinator ends.
- `NoFalseAlarm` is about memory and globals.  For results, `TellsResult` says
  where a false alarm does come from: V8's `MarshallValue` asks for the
  JavaScript type of a value, so that an `f64` result that is a whole number
  of 32 bits is logged as an integer, and SpiderMonkey's as its bits.
- `Reproducible` holds when the generator was not late and no other generator
  had still to write the same file; both can happen, and the code has only the
  sleep against the first.  It also needs `Exact`: the product of skip count
  and block size fits its types.
- `RefusedOnlyAfterCut`, `KeysHold`: a crash while the file is being created
  leaves a file whose list of implementations is never completed, because only
  the existence of the file is asked for.
- `KeepsCampaign` and `OwnRows` hold *because* the flush within the loop never
  comes (`loop_flush`): a session is one transaction, and a crash loses all of it.
- `QuitEnds` claims nothing after a line that lacks words or a seed that is no
  number: `std::cin` then fails, and `Looper` spins.

### Bounds

- `TesterRun`: two engines, as in the program; four descriptor numbers, what two
  pipes need, so that a number is reused as soon as it is free; `Units = 1` and
  `PipeCap = 1`, so that a log (with its closing bracket two units) is longer
  than its pipe: the writer blocks, the reader waits, and a log can be cut
  inside a record, after one unit.  `MaxCuts = 1`: one SIGINT wakes one thread, and
  the loop it interrupts ends after this memory step.  The theorems cover logs
  and pipes of any size and any number of cuts.
- `FuzzingLoop`: two steps with two memory steps each, so that there is a first
  and a last of both, and two "w"s can be waiting at once; `FlushEvery = 3` is
  longer than the inner loop, as 100 is longer than 5; logs of up to two calls
  of three kinds, so that logs differ in length and in each field.
- `SingleRun`: two calls, the least number for which a copy can be stale; two
  values of a byte; three bit patterns of which two are equal numbers; three
  tests: a memory that grows to the end of its file, a memory longer than its
  file, and a module without functions.
- `Sessions`: two coordinators over one seed, so that a restart meets what a crash
  left, serials included, and a generator that outlived its coordinator; two
  modules with one memory step, whose rows reach every table; eight serials, as
  many as a table can need; `FlushEvery = 3` is longer than the inner loop.
  Integers are 4 and 6 bits wide, so that a skip of 4 modules overflows; a block
  of 6 bytes is no whole number of words.  Four lines typed by hand reach the
  second module and a memory after it.
- `TesterMain`: every command line of up to four words out of seven, options and
  values mixed at will, the coordinator's own command line, each mode with its
  options (a memory file for the modes that load one, a function for
  `invoke`), and the command lines of the other programs less a word or with one
  more.  Three lines at the prompt out of eleven: a line that reads too much or
  too little is seen on the line after it, and whether that one is complete on
  the third.  Where `-mode debug` waits for one line, one is typed.  Integers
  are 2 and 4 bits wide, and results are one of each kind.

### Fairness

- `tester` assumes that the scheduler runs the threads of the coordinator and
  that the kernel delivers a SIGKILL, as one weak fairness condition: whenever some
  worker or reader can move, a kill can arrive or a teardown can end, one of them
  does.  Nothing is assumed of a tester except that the teardown of its engine ends
  (`Exit`): `waitpid` has no time limit, and a tester that hangs there after
  closing its log blocks the fuzzing loop for ever.  A kill is what makes a hung
  tester end, and with it the pipes it holds open.
- `loop` assumes that the coordinator runs, that a worker returns (the result of
  `tester`) and that the generator answers in the end; not how soon, and
  not that SIGINT ever comes.  The coordinator itself needs nothing of the
  generator (`NoStandstill`); that the generator is dead in the end does.
- `sessions` assumes that a generator process runs (`Works(g)`); nothing of the
  coordinator, which may crash or stop anywhere.
- `tester_main` assumes that the process runs and that calls of the engine
  return (`Works`); nothing of the person at the terminal.

Deadlock is checked in every run.  `Returned`, `Stopped`, `Ended`, `Idle` and
`Rest` are the states in which a system has finished or waits for a person.

## Proofs

TLAPS checks the theorems for every value of the constants that the named
assumptions allow: any log length and pipe capacity, any set of descriptor
numbers; any number of calls, any module, memory file and stream of numbers; any
number of sessions, generators, steps and serials; integers of any width; any
command lines and lines at the prompt.

`TesterRunProofs`.  `IInv` is `TypeOK` with four parts.  `FdInv`: each descriptor
of a worker is where the worker left it, or already closed by the second close
of a sibling that is done; this is what allows the double close.  `WorkerInv` ties the worker's
position to its reader's, `TesterInv` to the life of its tester, and
`ReaderInv` says that `got + buffered + inPipe = sent`, and that at an end of
file the pipe is empty and nobody can write to it.  `CompleteLog` is not
inductive by itself: it needs the sum, and the sum needs to know that the pipe
being read is the reader's own, which is `FdInv`.  From `IInv` follow
`TypeCorrect`, `LogComplete`, `TesterReaped`, `KillsOwnTester`, `NothingLeftOpen`,
`EofIsFinal` and, step by step, `PromiseKept`: `TesterRun` implements the safety
part of `TesterReport`.  `EnginesAssumption` (at most two engines) is used: with
a third one a second close could hit a pipe that is not the sibling's.

A second invariant of the same module, `WaitInv`, is about waiting.  `Connected`
says why the double close can cost a reader its pipe (the run
`tester_double_close`) but never a tester its write end: the first of two pipes takes
the lowest number, so that the number closed twice can only be the *read* end of
the second.  Hence `TesterKeepsItsPipe`.  `LifeInv` says what the worker's position
tells of its tester: a tester that runs holds its write end, and its worker has
not come to the end of the log unless it has sent a SIGKILL, so that whoever
reaches `waitpid` without a timeout has a tester that is dead or in its teardown
(`WaitsForTeardown`).  From both, `NobodyWaitsForEver`: a worker can only wait
for a reader that is blocked on a pipe its sibling's tester still holds, and that
sibling then has still to move, or its SIGKILL (`Killed`) to arrive.  `CanMove`
spells out the guards of worker, reader, teardown and SIGKILL, and never the
tester's own steps, so that the
theorem covers testers that hang.  It asks for two descriptor numbers: with
fewer no pipe can be opened.  `ThreadsAdvance` adds that each thread advances in
an order bounded by the log and the pipe (`WorkerRank`; units read, units
buffered, end of file, point of the iteration), and that nobody else takes a
reader back.

`SingleRunProofs`.  `DrawInv` says that a tester's place among the draws follows
from its last record, and that record `k` starts where record `k - 1` ended;
`CopyInv` that the copies are what the log says, and agree with the engine after
a call; `RecordInv` that a record compares what the records before it say with
what the engine did.  `SameCalls` needs `DrawInv`: two testers that agree on call
`k - 1` agree on where call `k` begins.  `NoFalseAlarm` needs all of them:
equal behaviour up to call `k` makes the logs before `k` equal, these say one
value for each byte (`SaysOne`), and so both copies and both differences are
equal.  From the conjunction follow `TypeCorrect`, `CallsAgree`, `NoAlarmIsFalse`,
`LogIsComplete` and `SilenceAgrees`.  `RankReached` proves that the sorted list has
a function at every index the remainder can give.

`FuzzingLoopProofs`, for any number of steps and memory steps, any flush period
and logs of any length.  `CountInv` counts commands: `made + pending`, plus one
for a busy generator, is the number of "w"s sent, unless the generator died.
`FileInv` says what the module file holds, so that a whole file is never ahead of
the step (`RunsNoLaterModule`).  `CaughtUpInv` adds that a generator that had caught
up when the sleep ended stays idle until the next "w", so that all memory steps
run the module of their step (`RunsItsModule`); `OwnModule` alone is not inductive,
because nothing in it says that the file stays as it is.  `RowInv` is
`DurableWhole` of the rows on disk *and* in the transaction, which makes a commit
at any point and a loss at any point safe (`DiskIsWhole`).  `NothingLeftToSave`
and `StoredAsLogged` follow from the last flush and from the loop of
`CompareLogs`; `TypeCorrect` from `CountInv`.  `SessionAdvances` gives the order in
which the coordinator advances: stage, step, part of the step, memory step, point
in it, workers that have not returned.  `NoStandstill` says that the
coordinator never waits for its generator, at the close of the pipe least of all.
`GeneratorFinishes` is about the generator it leaves behind: an orderly end comes
after "q" was written (`HandOver`), so that the generator has always something to
take from the pipe until it is dead, and each of its steps leaves less `Work`.

`FuzzerDbProofs` is about `DbSpec`: the database, and any callers that pass serials
of rows that are there.  `KeysHold` alone is not inductive, as a commit moves the
transaction to disk: `DbInv` asks it of the disk by itself (for a crash) and of
both together (for a commit), and `Listed` follows the two implementations
through the constructor.

`RandomGenProofs` is about `GenSpec`: any number of generators, with any lines and
skips.  Its invariant says where a generator is in its stream: it has drawn the
numbers skipped at the start and one block for each module since, so that the
n-th block is where `-skip-count` looks for it, as long as the product is `Exact`
(`SkipExact`); the pointer of the memories starts again with each module.
`QuitComesNearer` needs that a process which reads no more has no lines waiting
(`InputInv`): then a "q" in the queue can only move forward, by `TailMoves`.

`SessionsProofs` shows that a campaign is one of the callers of `DbSpec` and drives
its generators as `GenSpec` allows (`CampaignUsesDb`, `CampaignUsesGen`, two
refinements), which carries the theorems above over to it.  For the first it
needs `Keys`: what a row still to be stored refers to is live, or stored before
it (`Ordered`, a fact about the order of calls in `CompareLogs`).  `Pace` counts
the session's own generator against its coordinator, the way `CountInv` does,
but with other generators on the same file: if none of them owes a module when
"w" is sent, the file can only hold the session's own module when the generator
has caught up.  Hence `StepsReproducible`: the module the testers ran is the
`ReproModule` of the row.

`CampaignProofs`.  `Ownership` says that serials are unique, that all a session
has stored since its seed is in the open transaction, refers to rows of that
transaction or to the seed, and that nothing in the file refers to the seed yet.
From it `RowsAreOwn`, by going down the tables one level at a time, and
`CampaignKept`: the flush of the seed is `Record`, the last flush is `Publish`, and
every other step, crashes included, leaves the file as it is.
Both need `FlushAssumption` (100 > 5): no flush comes in between (`NeverDue`).

`TesterMainProofs` has three invariants.

- `MainInv`.  `Descriptors` says that descriptor 3 is either what the process was
  started with, and then nothing is lost, or closed: a descriptor that `SingleRun`
  was given by `dup2` is always closed, by its stream or by `Looper`, so that the
  next `open` returns 3 and `dup2` does nothing (`LosesOneDescriptor`).
  `Progress` keeps a mode and its outcome together for `StatusIsTrue`;
  `ResultsAreTold` follows from `MarshallValue` for integers of any width.
- `LineInv`.  What `std::cin` still holds is the end of what was typed (`Unread`),
  and no line that has run lies in it.  `Looper` is written on the words of the
  whole input, the way `>>` reads them, so that the proof has to find the lines in
  the words: `LineByLine` gives each place in the flattened input its line and its
  place there, and `RunsOneLine` that a complete line is consumed with all its
  words and nothing of the next.  Hence `LinesRunOnce`, and with it `TurnsConsume`
  and `QuitNotPassed` (`RanNoQuit`: no line that has run was a "quit").
  The flattening is a recursive function, and a proof about it needs induction; a rule that takes
  a predicate cannot be instantiated, so `LeastOf` and `UpTo` state the same for a
  *set* of numbers, from the well-foundedness of `<`.
- `WordsInv`, for `OptionsFollowArgv`.  `CommandLineConsumer` consumes words from the
  front, and `OptionsAsGiven` speaks of ways to split the whole line.  The
  invariant carries the places the loop has passed (`Passed`), the values
  given there (`Valued`), and that *whoever* splits the line has the same places as
  far as the loop has come.  At the end there is thus at most one way to split
  it, the one the loop found, and none at all when it refuses.

Its assumptions are those on the words: `WordsAssumption` (an argument is a string,
and not the mark for an option without a value) and `LinesAssumption` (a line is
a list of words).

Only model-checked: liveness (`EveryWorkerReturns`, `SessionEnds`, `QuitObeyed`,
`QuitEnds`) and the fairness part of `TesterReport`, as fairness and `ENABLED` are
out of the prover's reach.  What these four rest on is proved as far as it can
be stated without them:

| liveness | each step descends | somebody can step |
|---|---|---|
| `EveryWorkerReturns` | `ThreadsAdvance` | `NobodyWaitsForEver` |
| `SessionEnds` | `SessionAdvances`, `GeneratorFinishes` | `NoStandstill`, `GeneratorFinishes` |
| `QuitObeyed` | `QuitComesNearer`, `CampaignQuitsNearer` | TLC |
| `QuitEnds` | `TurnsConsume`, `QuitNotPassed` | TLC |

The violated properties are not theorems, of course; each has a counterexample in
its run.

## Not modelled

- `random-memory-gen` and `wasm-generator`: one pass, no state beyond it.
- The engines themselves, and the patches to them: the submodules are not in
  the repository.  They are external to `SingleRun`, free to do anything in a
  call; that both list the *globals* of a module in one order is assumed.
- `MarshallArgs` of both runners, the conversion of arguments to the engine's
  values, and the printing of `Looper`.
- Columns of rows that are no keys, except those `FuzzingLoop` compares.
- Two coordinators at the same time over one folder, or with one `time(NULL)` seed.
- `Reproduce` and its options (`-reproduce-seed`, `-step`, `-memory-step`,
  `-dump-core`), and `-invoke-count`: they are declared, but not registered with the
  command line, so that no command line reaches them.  `CommandLine` has them as
  the unknown options they are.
- The contents of files: `singlerun` opens its output without `O_TRUNC`, and a
  shorter log keeps the tail of a longer one.
- `DumperLooper`, which nothing calls; `CorePatternScope`, which only runs
  `sudo tee`; the failure of `pipe` and `fork`, which the code does not check.

## Plan

1. The contents of the log file, for `singlerun` over an older and longer log.
2. Two coordinators at once over one database file.
