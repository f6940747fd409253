----------------------------- MODULE FuzzingLoop -----------------------------
(***************************************************************************)
(* The coordinator: FuzzingLoop and CompareLogs, the generator process it  *)
(* commands through a pipe, the module file the generator writes and the   *)
(* testers read, SIGINT, and the transaction that holds the rows.          *)
(*                                                                         *)
(* A tester is what TesterReport promises of it: it reads the module file  *)
(* once, and some log of it comes back.  Of the text of a log the model    *)
(* keeps whether it is empty, parses as an array, or does not parse (it    *)
(* was cut in a record, or PROCESS TIMEOUT was appended).  The code tells  *)
(* rows apart by serial keys; the model names them by what they describe.  *)
(***************************************************************************)
EXTENDS Integers, Sequences, FiniteSets

CONSTANTS
    V8, SpiderMonkey,   \* the two implementations
    Steps,              \* modules of a session: 5000 in the code
    MemSteps,           \* memory steps of a module: 5 in the code
    FlushEvery,         \* 100 in the code
    CallKinds,          \* bound: the calls a log can report
    MaxCalls            \* bound: calls of a log, 50 in the code

Engines == {V8, SpiderMonkey}

ASSUME EnginesAssumption ==
    V8 # SpiderMonkey /\ Engines \cap {"seed", "step", "mem"} = {}
ASSUME BoundsAssumption ==
    /\ Steps \in Nat /\ MemSteps \in Nat /\ FlushEvery \in Nat \ {0} /\ MaxCalls \in Nat
    /\ CallKinds \subseteq [ok : BOOLEAN, mem : BOOLEAN, glob : BOOLEAN]

VARIABLES
    pc, step, mem,  \* where the loops stand, and their two counters i
    exit,           \* global_exit
    log,            \* what the two workers returned
    calls,          \* rows CompareLogs stored for this memory step
    tx, disk,       \* rows of the open transaction, rows committed
    pending, quit,  \* commands in the generator's pipe: "w"s, then one "q"
    gen, made,      \* the generator, and the modules it has generated
    wasm,           \* the module file: which module, and whether it is whole
    ran,            \* the module each tester read
    late            \* the generator had not caught up when the sleep ended

coordinator == <<pc, step, mem, log, calls, tx, disk>>
generator == <<gen, made, wasm>>
vars == <<coordinator, exit, pending, quit, generator, ran, late>>

NoModule == -1

\* The rows of the tables above the calls.
SeedRow == <<"seed", 0, 0>>
StepRow(i) == <<"step", i, 0>>
MemRow(i, j) == <<"mem", i, j>>
CaseRow(e, i, j) == <<e, i, j>>

NoLog == [text |-> "none", calls |-> <<>>]
EmptyLog == [text |-> "empty", calls |-> <<>>]
BrokenLog == [text |-> "broken", calls |-> <<>>]
CallSeqs == UNION {[1..n -> CallKinds] : n \in 0..MaxCalls}
ParsedLogs == [text : {"parses"}, calls : CallSeqs]
Logs == {EmptyLog, BrokenLog} \cup ParsedLogs

Init ==
    /\ pc = "seed" /\ step = 0 /\ mem = 0 /\ exit = FALSE
    /\ log = [e \in Engines |-> NoLog] /\ calls = <<>>
    /\ tx = {} /\ disk = {}
    /\ pending = 0 /\ quit = FALSE
    /\ gen = "idle" /\ made = 0
    /\ wasm = [module |-> NoModule, whole |-> FALSE]
    /\ ran = [e \in Engines |-> NoModule]
    /\ late = FALSE
-----------------------------------------------------------------------------
(***************************************************************************)
(* The transaction.                                                        *)
(***************************************************************************)
Store(rows) == tx' = tx \cup rows /\ UNCHANGED disk

Flush == disk' = disk \cup tx /\ tx' = {}

\* The process ends without ~Entities: the open transaction is rolled back.
Dies(how) ==
    /\ pc' = how /\ tx' = {}
    /\ UNCHANGED <<step, mem, log, calls, disk>>
-----------------------------------------------------------------------------
(***************************************************************************)
(* CompareLogs.                                                            *)
(***************************************************************************)
Shorter(a, b) == IF Len(a) < Len(b) THEN Len(a) ELSE Len(b)

\* Mutant: the memory diffs go where the global diffs go.
CallRowMixed(v8_exec, moz_exec) ==
    [ok   |-> [e \in Engines |-> IF e = V8 THEN v8_exec.ok ELSE moz_exec.ok],
     mem  |-> [e \in Engines |-> e = SpiderMonkey /\ (v8_exec.mem \/ moz_exec.mem)],
     glob |-> [e \in Engines |-> e = SpiderMonkey /\ (v8_exec.glob \/ moz_exec.glob)]]

\* What is stored for one pair of calls: for each implementation the success
\* of its TestCaseCall, and whether memory and global diffs refer to it.
CallRow(v8_exec, moz_exec) ==
    [ok   |-> [e \in Engines |-> IF e = V8 THEN v8_exec.ok ELSE moz_exec.ok],
     mem  |-> [e \in Engines |-> IF e = V8 THEN v8_exec.mem ELSE moz_exec.mem],
     glob |-> [e \in Engines |-> e = SpiderMonkey /\ (v8_exec.glob \/ moz_exec.glob)]]

\* The loop runs while both arrays have an element.
CallRows(v8_calls, moz_calls) ==
    [k \in 1..Shorter(v8_calls, moz_calls) |-> CallRow(v8_calls[k], moz_calls[k])]

\* A log that does not parse leaves a null document, whose Begin() asserts; the
\* assertion on the function names can fail when the testers ran two modules.
Compare ==
    /\ pc = "compare"
    /\ \/ /\ \E e \in Engines : log[e].text = "empty"
          /\ pc' = "check" /\ UNCHANGED <<step, mem, log, calls, tx, disk>>
       \/ /\ \A e \in Engines : log[e].text = "parses"
          /\ calls' = CallRows(log[V8].calls, log[SpiderMonkey].calls)
          /\ pc' = "check" /\ UNCHANGED <<step, mem, log, tx, disk>>
       \/ /\ \A e \in Engines : log[e].text # "empty"
          /\ \/ \E e \in Engines : log[e].text = "broken"
             \/ /\ ran[V8] # ran[SpiderMonkey]
                /\ Shorter(log[V8].calls, log[SpiderMonkey].calls) > 0
          /\ Dies("aborted")
    /\ UNCHANGED <<exit, pending, quit, generator, ran, late>>
-----------------------------------------------------------------------------
(***************************************************************************)
(* FuzzingLoop.                                                            *)
(***************************************************************************)
\* StoreSeedConfig, and the only flush before the end.
StoreSeed ==
    /\ pc = "seed" /\ pc' = "outer"
    /\ disk' = disk \cup tx \cup {SeedRow} /\ tx' = {}
    /\ UNCHANGED <<step, mem, exit, log, calls, pending, quit, generator, ran, late>>

\* os << "w": a write to a pipe nobody reads raises SIGPIPE.
SendW ==
    /\ pc = "outer" /\ step < Steps
    /\ IF gen = "dead"
       THEN Dies("killed") /\ UNCHANGED pending
       ELSE /\ pc' = "sleep" /\ pending' = pending + 1
            /\ UNCHANGED <<step, mem, log, calls, tx, disk>>
    /\ UNCHANGED <<exit, quit, generator, ran, late>>

\* The sleep of one second waits for nothing.
StoreStep ==
    /\ pc = "sleep" /\ pc' = "inner"
    /\ Store({StepRow(step)}) /\ mem' = 0
    /\ late' = (pending > 0 \/ gen # "idle")
    /\ UNCHANGED <<step, exit, log, calls, pending, quit, generator, ran>>

\* Mutant: the bound of the inner loop is off by one.
LaunchOneMore ==
    /\ pc = "inner" /\ mem <= MemSteps /\ pc' = "await"
    /\ log' = [e \in Engines |-> NoLog] /\ calls' = <<>>
    /\ ran' = [e \in Engines |-> NoModule]
    /\ UNCHANGED <<step, mem, tx, disk, exit, pending, quit, generator, late>>

\* Mutant: every memory step asks for a module.
LaunchAsking ==
    /\ pc = "inner" /\ mem < MemSteps /\ pc' = "await"
    /\ pending' = pending + 1
    /\ log' = [e \in Engines |-> NoLog] /\ calls' = <<>>
    /\ ran' = [e \in Engines |-> NoModule]
    /\ UNCHANGED <<step, mem, tx, disk, exit, quit, generator, late>>

Launch ==
    /\ pc = "inner" /\ mem < MemSteps /\ pc' = "await"
    /\ log' = [e \in Engines |-> NoLog] /\ calls' = <<>>
    /\ ran' = [e \in Engines |-> NoModule]
    /\ UNCHANGED <<step, mem, tx, disk, exit, pending, quit, generator, late>>

NextStep ==
    /\ pc = "inner" /\ mem = MemSteps /\ pc' = "outer"
    /\ step' = step + 1
    /\ UNCHANGED <<mem, log, calls, tx, disk, exit, pending, quit, generator, ran, late>>

\* A tester reads the module file and its worker returns a log; a module that
\* is missing or not whole does not compile, and no call is logged.
RunTester(e) ==
    /\ pc = "await" /\ log[e] = NoLog
    /\ IF wasm.whole
       THEN /\ ran' = [ran EXCEPT ![e] = wasm.module]
            /\ \E l \in Logs : log' = [log EXCEPT ![e] = l]
       ELSE /\ \E l \in {EmptyLog, BrokenLog} : log' = [log EXCEPT ![e] = l]
            /\ UNCHANGED ran
    /\ UNCHANGED <<pc, step, mem, calls, tx, disk, exit, pending, quit, generator, late>>

\* Mutant: the memory step is flushed before its test cases are stored.
StoreCasesFlushed ==
    /\ pc = "await" /\ (\A e \in Engines : log[e] # NoLog) /\ pc' = "compare"
    /\ disk' = disk \cup tx \cup {MemRow(step, mem)}
    /\ tx' = {CaseRow(e, step, mem) : e \in Engines}
    /\ UNCHANGED <<step, mem, log, calls, exit, pending, quit, generator, ran, late>>

\* The futures are taken, and the memory step and its two test cases stored.
StoreCases ==
    /\ pc = "await" /\ (\A e \in Engines : log[e] # NoLog) /\ pc' = "compare"
    /\ Store({MemRow(step, mem)} \cup {CaseRow(e, step, mem) : e \in Engines})
    /\ UNCHANGED <<step, mem, log, calls, exit, pending, quit, generator, ran, late>>

\* The i of "i % 100 == 0 && i != 0" is the counter of the inner loop.
FlushDue == mem % FlushEvery = 0 /\ mem # 0

\* Mutant: SIGINT returns from the loop, past the "q" of END.
CheckExitReturns ==
    /\ pc = "check"
    /\ IF exit
       THEN pc' = "close" /\ UNCHANGED <<mem, tx, disk>>
       ELSE /\ pc' = "inner" /\ mem' = mem + 1
            /\ IF FlushDue THEN Flush ELSE UNCHANGED <<tx, disk>>
    /\ UNCHANGED <<step, log, calls, exit, pending, quit, generator, ran, late>>

CheckExit ==
    /\ pc = "check"
    /\ IF exit
       THEN pc' = "end" /\ UNCHANGED <<mem, tx, disk>>
       ELSE /\ pc' = "inner" /\ mem' = mem + 1
            /\ IF FlushDue THEN Flush ELSE UNCHANGED <<tx, disk>>
    /\ UNCHANGED <<step, log, calls, exit, pending, quit, generator, ran, late>>

LoopDone ==
    /\ pc = "outer" /\ step = Steps /\ pc' = "end"
    /\ UNCHANGED <<step, mem, log, calls, tx, disk, exit, pending, quit, generator, ran, late>>

\* Mutant: the rows are left to ~Entities.
EndUnflushed ==
    /\ pc = "end" /\ pc' = "quit"
    /\ UNCHANGED <<step, mem, log, calls, tx, disk, exit, pending, quit, generator, ran, late>>

End ==
    /\ pc = "end" /\ pc' = "quit"
    /\ Flush
    /\ UNCHANGED <<step, mem, log, calls, exit, pending, quit, generator, ran, late>>

SendQ ==
    /\ pc = "quit"
    /\ IF gen = "dead"
       THEN Dies("killed") /\ UNCHANGED quit
       ELSE /\ pc' = "close" /\ quit' = TRUE
            /\ UNCHANGED <<step, mem, log, calls, tx, disk>>
    /\ UNCHANGED <<exit, pending, generator, ran, late>>

\* ~stdio_filebuf closes the pipe's descriptor, so that the pclose of
\* ~POpenScope fails and does not wait for the generator; ~Entities commits
\* once more.
Close ==
    /\ pc = "close" /\ pc' = "exited"
    /\ Flush
    /\ UNCHANGED <<step, mem, log, calls, exit, pending, quit, generator, ran, late>>

\* ExitHandler.
Interrupt ==
    /\ ~exit /\ exit' = TRUE
    /\ UNCHANGED <<coordinator, pending, quit, generator, ran, late>>
-----------------------------------------------------------------------------
(***************************************************************************)
(* The generator, as the coordinator and the module file see it.           *)
(***************************************************************************)
\* Mutant: all the "w"s that wait are answered with one module.
TruncateOnce ==
    /\ gen = "idle" /\ pending > 0 /\ gen' = "busy"
    /\ pending' = 0
    /\ wasm' = [module |-> made, whole |-> FALSE]
    /\ UNCHANGED <<coordinator, exit, quit, made, ran, late>>

\* A "w" truncates the module file before it generates the next module ...
Truncate ==
    /\ gen = "idle" /\ pending > 0 /\ gen' = "busy"
    /\ pending' = pending - 1
    /\ wasm' = [module |-> made, whole |-> FALSE]
    /\ UNCHANGED <<coordinator, exit, quit, made, ran, late>>

\* ... and writes it.
WriteModule ==
    /\ gen = "busy" /\ gen' = "idle"
    /\ wasm' = [wasm EXCEPT !.whole = TRUE]
    /\ made' = made + 1
    /\ UNCHANGED <<coordinator, exit, pending, quit, ran, late>>

TakeQ ==
    /\ gen = "idle" /\ pending = 0 /\ quit /\ gen' = "dead"
    /\ UNCHANGED <<coordinator, exit, pending, quit, made, wasm, ran, late>>

\* It aborts, or the SIGINT of the terminal, which it does not catch, ends it.
GeneratorDies ==
    /\ gen \in {"idle", "busy"} /\ gen' = "dead"
    /\ UNCHANGED <<coordinator, exit, pending, quit, made, wasm, ran, late>>
-----------------------------------------------------------------------------
Coordinator == \/ StoreSeed \/ SendW \/ StoreStep \/ Launch \/ NextStep \/ StoreCases
               \/ Compare \/ CheckExit \/ LoopDone \/ End \/ SendQ \/ Close
               \/ \E e \in Engines : RunTester(e)

Generator == Truncate \/ WriteModule \/ TakeQ

Ended == pc \in {"exited", "aborted", "killed"}

Stopped == Ended /\ UNCHANGED vars

Next == Coordinator \/ Generator \/ Interrupt \/ GeneratorDies \/ Stopped

Spec == Init /\ [][Next]_vars

\* The coordinator runs, every worker returns, and the generator answers in
\* the end; nothing says how soon, and SIGINT may never come.
FairSpec == Spec /\ WF_vars(Coordinator) /\ WF_vars(Generator)
-----------------------------------------------------------------------------
(***************************************************************************)
(* Properties.                                                             *)
(***************************************************************************)
PlainRows == {SeedRow} \cup {StepRow(i) : i \in 0..Steps} \cup {MemRow(i, j) : i \in 0..Steps, j \in 0..MemSteps}
Rows == PlainRows \cup {CaseRow(e, i, j) : e \in Engines, i \in 0..Steps, j \in 0..MemSteps}

\* The variables of FuzzingLoop have their types, and its counters stay within
\* the bounds of the two loops.
TypeOK ==
    /\ pc \in {"seed", "outer", "sleep", "inner", "await", "compare", "check", "end", "quit", "close",
              "exited", "aborted", "killed"}
    /\ step \in 0..Steps /\ mem \in 0..MemSteps
    /\ exit \in BOOLEAN /\ quit \in BOOLEAN /\ late \in BOOLEAN
    /\ log \in [Engines -> Logs \cup {NoLog}]
    /\ tx \subseteq Rows /\ disk \subseteq Rows
    /\ pending \in 0..Steps /\ made \in 0..Steps
    /\ gen \in {"idle", "busy", "dead"}
    /\ wasm \in [module : {NoModule} \cup 0..Steps, whole : BOOLEAN]
    /\ ran \in [Engines -> {NoModule} \cup 0..Steps]

\* Unless the generator was still behind when the sleep ended, every tester of
\* a step runs the module of that step, in each of its memory steps.
OwnModule ==
    \A e \in Engines : pc \in {"await", "compare", "check"} /\ log[e].text = "parses" /\ ~late
        => ran[e] = step

\* However late the generator is, no tester runs the module of a later step:
\* the module file never gets ahead of the row StoreStepping wrote.
NeverAhead ==
    \A e \in Engines : pc \in {"await", "compare", "check"} => ran[e] <= step

\* No row is there without the rows it refers to, nor a memory step without
\* the test cases of both implementations.
RowsWhole(rows) ==
    /\ \A i \in 0..Steps : StepRow(i) \in rows => SeedRow \in rows
    /\ \A i \in 0..Steps, j \in 0..MemSteps :
          /\ MemRow(i, j) \in rows => /\ StepRow(i) \in rows
                                     /\ \A e \in Engines : CaseRow(e, i, j) \in rows
          /\ \A e \in Engines : CaseRow(e, i, j) \in rows => MemRow(i, j) \in rows

\* A row on disk has the rows its foreign keys name, and a memory step on disk
\* has the test cases of both implementations: a crash of the coordinator, at
\* any point, leaves no half of a memory step behind.
DurableWhole == RowsWhole(disk)

\* Once "q" is due nothing is left to lose, so that the SIGPIPE of a generator
\* that is dead already costs no row.
SavedBeforeQuit == pc \in {"quit", "close", "exited"} => tx = {}

\* The rows CompareLogs stores for a memory step read back as the common
\* prefix of the two logs, as far as success and memory are concerned.
CallsReadBack ==
    pc = "check" /\ (\A e \in Engines : log[e].text = "parses") =>
        /\ \A e \in Engines : Len(calls) <= Len(log[e].calls)
        /\ \E e \in Engines : Len(calls) = Len(log[e].calls)
        /\ \A e \in Engines : \A k \in 1..Len(calls) :
              calls[k].ok[e] = log[e].calls[k].ok /\ calls[k].mem[e] = log[e].calls[k].mem

\* A session ends: after its last step, after a SIGINT, or with a generator or
\* a log the coordinator does not survive.  Nobody waits for its generator, but
\* after an orderly end it comes to its "q", however far behind, and ends too.
SessionEnds == <>(Ended /\ (pc = "exited" => gen = "dead"))
-----------------------------------------------------------------------------
(***************************************************************************)
(* The inductive invariant.                                                *)
(***************************************************************************)
InStep == {"sleep", "inner", "await", "compare", "check"}
InMemStep == {"await", "compare", "check"}
Busy == IF gen = "busy" THEN 1 ELSE 0

\* Every "w" sent is waiting, being answered or answered, but for the one a
\* generator died over.
CountInv ==
    /\ made + pending + Busy <= Steps
    /\ pc \in {"seed", "outer"} => made + pending + Busy <= step
    /\ pc \in InStep => /\ step < Steps
                        /\ made + pending + Busy <= step + 1
                        /\ gen # "dead" => made + pending + Busy = step + 1
    /\ pc = "outer" /\ gen # "dead" => made + pending + Busy = step
    /\ pc = "seed" => step = 0
    /\ pc \in InMemStep => mem < MemSteps

\* The module file holds the last module made, or the start of the next.
FileInv ==
    /\ wasm.whole => wasm.module = made - 1
    /\ gen = "busy" => wasm.module = made /\ ~wasm.whole

\* A generator that had caught up when the sleep ended stays out of the way
\* for the rest of the step.
CaughtUpInv ==
    pc \in {"inner"} \cup InMemStep /\ ~late => made = step + 1 /\ pending = 0 /\ gen # "busy"

\* Rows are stored after the rows they refer to.
RowInv ==
    /\ RowsWhole(disk \cup tx)
    /\ pc # "seed" => SeedRow \in disk
    /\ pc \in {"inner"} \cup InMemStep => StepRow(step) \in disk \cup tx

\* Everything above holds together, and every step keeps it.
IInv ==
    /\ TypeOK /\ CountInv /\ FileInv /\ CaughtUpInv /\ RowInv
    /\ OwnModule /\ NeverAhead /\ DurableWhole /\ SavedBeforeQuit /\ CallsReadBack
-----------------------------------------------------------------------------
(***************************************************************************)
(* What comments of the code say, and the code does not keep.              *)
(***************************************************************************)
\* "Fix the crash cases": a log that was cut short does not end the session.
CrashCasesFixed == pc = "aborted" => ran[V8] # ran[SpiderMonkey]

\* "Write every 100 records": a crash loses that many memory steps at most.
WritesEvery100 == Cardinality({r \in tx : r[1] = "mem"}) <= FlushEvery

\* "assert(std::strcmp(v8_exec[...], moz_exec[...]) == 0)": the two logs of a
\* memory step are logs of one module.
SameModule ==
    pc = "compare" /\ (\A e \in Engines : log[e].text = "parses") => ran[V8] = ran[SpiderMonkey]

\* "Store call each test case": a global diff refers to the call of the
\* implementation whose log reported it.
GlobalsReadBack ==
    pc = "check" /\ (\A e \in Engines : log[e].text = "parses") =>
        \A e \in Engines : \A k \in 1..Len(calls) : calls[k].glob[e] = log[e].calls[k].glob
=============================================================================
