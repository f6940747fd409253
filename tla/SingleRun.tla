------------------------------ MODULE SingleRun ------------------------------
(***************************************************************************)
(* The two testers of a memory step, side by side: Run in mode "single",   *)
(* and SingleRun, over the module, the memory file and the argument seed   *)
(* that the coordinator hands to both of them.  The testers share nothing  *)
(* else; what makes their logs comparable is that both draw the same       *)
(* numbers for the same purposes, and that both log all that changes.      *)
(*                                                                         *)
(* The engine is external: a call leaves memory and globals in any state   *)
(* and may grow the memory.  The arguments of a call are the draws after   *)
(* the one that selected its function, so that its position among the      *)
(* draws stands for them.  Results and elapsed times are left out.         *)
(***************************************************************************)
EXTENDS Integers, Sequences, FiniteSets

CONSTANTS
    Engines,    \* the engines compared
    Bytes,      \* bound: the values of a byte
    Bits,       \* bound: the bit patterns of a global, and the numbers drawn
    Denotes,    \* the number a bit pattern stands for: +0 and -0 are one, and all NaNs
    Count,      \* calls of a run: -count
    Tests       \* bound: what a coordinator can hand to its testers

Names(t) == DOMAIN t.arity

\* How many names come before n when they are sorted with ">".
Rank(n, S) == Cardinality({m \in S : m > n})

ASSUME ValuesAssumption == Bits \subseteq Nat /\ Denotes \in [Bits -> Nat] /\ Count \in Nat
ASSUME TestsAssumption ==
    \A t \in Tests :
        /\ Names(t) \subseteq Nat /\ IsFiniteSet(Names(t))
        /\ t.arity \in [Names(t) -> Nat]
        /\ \A e \in Engines : t.listed[e] \in Seq(Names(t))
        /\ t.globals \in Nat /\ t.length \in Nat /\ t.limit \in Nat
        /\ DOMAIN t.segments \subseteq 1..t.length
        /\ \A i \in DOMAIN t.segments : t.segments[i] \in Bytes
        /\ t.file \in Seq(Bytes)
        /\ t.stream \in Seq(Bits) /\ Len(t.stream) > 0

VARIABLES
    test,       \* module, memory file and argument seed
    pc,         \* how far a tester has come
    next,       \* numbers its generator has drawn
    mem,        \* the memory of its engine
    glob,       \* the globals of its engine
    memory,     \* its copy of the memory: as long as the memory file
    global_state, \* its copy of the globals
    log,        \* the records it has written
    past        \* history: memory and globals of the engine after each call

vars == <<test, pc, next, mem, glob, memory, global_state, log, past>>

Init ==
    /\ test \in Tests
    /\ pc = [e \in Engines |-> "start"]
    /\ next = [e \in Engines |-> 0]
    /\ mem = [e \in Engines |-> <<>>] /\ memory = [e \in Engines |-> <<>>]
    /\ glob = [e \in Engines |-> <<>>] /\ global_state = [e \in Engines |-> <<>>]
    /\ log = [e \in Engines |-> <<>>]
    /\ past = [e \in Engines |-> <<>>]
-----------------------------------------------------------------------------
\* The n-th number of the generator: it has a period, and one draw takes one
\* number whatever the type of the value.
Draw(n) == test.stream[1 + (n % Len(test.stream))]

\* Mutant: the functions stay in the order the engine lists them.
SelectedUnsorted(e, k) == test.listed[e][k + 1]

Nth(S, k) == CHOOSE n \in S : Rank(n, S) = k

\* The function at index k once they are sorted.
Selected(e, k) == Nth(Names(test), k)

\* Mutant: the last byte is not compared.
MemDiffShort(s, m) ==
    [i \in {j \in DOMAIN s \cap DOMAIN m : s[j] # m[j] /\ j + 1 \in DOMAIN s} |->
        [old |-> s[i], new |-> m[i]]]

\* CompareInternalMemory: the bytes both have and that differ.
MemDiff(s, m) ==
    [i \in {j \in DOMAIN s \cap DOMAIN m : s[j] # m[j]} |-> [old |-> s[i], new |-> m[i]]]

\* The globals that are not equal by operator==.
GlobDiff(s, g) ==
    [i \in {j \in DOMAIN s : Denotes[s[j]] # Denotes[g[j]]} |-> [old |-> s[i], new |-> g[i]]]

\* Mutant: the copy is not brought up to date.
UpdatedNever(s, d) == s

\* The copy after its differences were logged.
Updated(s, d) == [i \in DOMAIN s |-> IF i \in DOMAIN d THEN d[i].new ELSE s[i]]
-----------------------------------------------------------------------------
Goto(e, from, to) == pc[e] = from /\ pc' = [pc EXCEPT ![e] = to]

\* The module compiles, or Run returns -1.
InitializeModule(e) ==
    /\ Goto(e, "start", "load") \/ Goto(e, "start", "failed")
    /\ UNCHANGED <<test, next, mem, glob, memory, global_state, log, past>>

\* The memories LoadMemory can leave: the file as far as it goes, "and the
\* remainder will be undefined".
Imported == {m \in [1..test.length -> Bytes] : \A i \in DOMAIN m \cap DOMAIN test.file : m[i] = test.file[i]}

\* Mutant: the copy is taken from the memory instead of the file.
LoadMemoryBack(e) ==
    /\ Goto(e, "load", "instantiate")
    /\ \E m \in Imported : mem' = [mem EXCEPT ![e] = m] /\ memory' = [memory EXCEPT ![e] = m]
    /\ UNCHANGED <<test, next, glob, global_state, log, past>>

LoadMemory(e) ==
    /\ Goto(e, "load", "instantiate")
    /\ \E m \in Imported : mem' = [mem EXCEPT ![e] = m]
    /\ memory' = [memory EXCEPT ![e] = test.file]
    /\ UNCHANGED <<test, next, glob, global_state, log, past>>

\* Instantiation writes the data segments into the memory, or fails.
InitializeExecution(e) ==
    /\ \/ /\ Goto(e, "instantiate", "globals")
          /\ mem' = [mem EXCEPT ![e] = [i \in DOMAIN @ |-> IF i \in DOMAIN test.segments THEN test.segments[i] ELSE @[i]]]
       \/ Goto(e, "instantiate", "failed") /\ UNCHANGED mem
    /\ UNCHANGED <<test, next, glob, memory, global_state, log, past>>

\* Every global gets the next number.
SetGlobals(e) ==
    /\ Goto(e, "globals", "loop")
    /\ LET init == [g \in 1..test.globals |-> Draw(next[e] + g - 1)]
       IN glob' = [glob EXCEPT ![e] = init] /\ global_state' = [global_state EXCEPT ![e] = init]
    /\ next' = [next EXCEPT ![e] = @ + test.globals]
    /\ UNCHANGED <<test, mem, memory, log, past>>

\* What a call can leave behind: a memory never shrinks.
Outcomes(e) ==
    [mem : UNION {[1..n -> Bytes] : n \in Len(mem[e])..test.limit}, glob : [1..test.globals -> Bits]]

\* The body of the loop: select a function, draw its arguments, invoke it,
\* compare memory and globals, write the record.
CallAndLog(e) ==
    /\ Names(test) # {}
    /\ LET fn == Selected(e, Draw(next[e]) % Cardinality(Names(test)))
       IN \E after \in Outcomes(e) :
          LET memdiff == MemDiff(memory[e], after.mem)
              globdiff == GlobDiff(global_state[e], after.glob)
          IN /\ next' = [next EXCEPT ![e] = @ + 1 + test.arity[fn]]
             /\ mem' = [mem EXCEPT ![e] = after.mem]
             /\ glob' = [glob EXCEPT ![e] = after.glob]
             /\ memory' = [memory EXCEPT ![e] = Updated(@, memdiff)]
             /\ global_state' = [global_state EXCEPT ![e] = Updated(@, globdiff)]
             /\ log' = [log EXCEPT ![e] = Append(@, [at |-> next[e], fn |-> fn, mem |-> memdiff, glob |-> globdiff])]
             /\ past' = [past EXCEPT ![e] = Append(@, after)]
    /\ UNCHANGED <<test, pc>>

\* Mutant: one iteration too many.
IterateOnce(e) == pc[e] = "loop" /\ Len(log[e]) <= Count /\ CallAndLog(e)

Iterate(e) == pc[e] = "loop" /\ Len(log[e]) < Count /\ CallAndLog(e)

Finish(e) ==
    /\ Goto(e, "loop", "done") /\ Len(log[e]) = Count
    /\ UNCHANGED <<test, next, mem, glob, memory, global_state, log, past>>

Running(e) == pc[e] \notin {"done", "failed", "crashed"}

\* The engine dies in any step; so does a tester whose memory file is missing,
\* or whose module has no function to take the remainder by.
Crash(e) ==
    /\ Running(e) /\ pc' = [pc EXCEPT ![e] = "crashed"]
    /\ UNCHANGED <<test, next, mem, glob, memory, global_state, log, past>>

Tester(e) == \/ InitializeModule(e) \/ LoadMemory(e) \/ InitializeExecution(e) \/ SetGlobals(e)
             \/ Iterate(e) \/ Finish(e) \/ Crash(e)

Ended == (\A e \in Engines : ~Running(e)) /\ UNCHANGED vars

Next == (\E e \in Engines : Tester(e)) \/ Ended

Spec == Init /\ [][Next]_vars
-----------------------------------------------------------------------------
(***************************************************************************)
(* Properties.                                                             *)
(***************************************************************************)
\* Differences of an array of Values at the indices I, as a JSON object has them.
Diffs(I, Values) == UNION {[J -> [old : Values, new : Values]] : J \in SUBSET I}

Records == [at : Nat, fn : Names(test),
            mem : Diffs(DOMAIN test.file, Bytes), glob : Diffs(1..test.globals, Bits)]

\* The variables of SingleRun have their types, and a log has at most Count records.
TypeOK ==
    /\ test \in Tests
    /\ pc \in [Engines -> {"start", "load", "instantiate", "globals", "loop", "done", "failed", "crashed"}]
    /\ next \in [Engines -> Nat]
    /\ mem \in [Engines -> Seq(Bytes)] /\ memory \in [Engines -> Seq(Bytes)]
    /\ glob \in [Engines -> Seq(Bits)] /\ global_state \in [Engines -> Seq(Bits)]
    /\ log \in [Engines -> Seq(Records)]
    /\ past \in [Engines -> Seq([mem : Seq(Bytes), glob : Seq(Bits)])]
    /\ \A e \in Engines : Len(log[e]) <= Count /\ Len(past[e]) = Len(log[e])

\* The k-th record of one log and the k-th record of the other are of the same
\* function and the same arguments, whatever the calls did before and however
\* far each tester has come: what CompareLogs asserts of a pair of records.
SameCalls ==
    \A a, b \in Engines : \A k \in DOMAIN log[a] \cap DOMAIN log[b] :
        log[a][k].at = log[b][k].at /\ log[a][k].fn = log[b][k].fn

\* What a sequence of differences says of index i, whose first value is known.
Says(diffs, i, first, v) ==
    \/ v = first /\ \A k \in DOMAIN diffs : i \notin DOMAIN diffs[k]
    \/ \E k \in DOMAIN diffs :
          /\ i \in DOMAIN diffs[k] /\ v = diffs[k][i].new
          /\ \A j \in DOMAIN diffs : j > k => i \notin DOMAIN diffs[j]

\* The differences in the first n records of a log.
MemDiffs(records, n) == [k \in 1..n |-> records[k].mem]
GlobDiffs(records, n) == [k \in 1..n |-> records[k].glob]

\* The log tells the state: read over the memory file and the numbers the
\* globals were set to, it gives the memory of the engine, as far as the file
\* goes, and the numbers its globals denote, data segments and growth included.
LogTellsState ==
    \A e \in Engines : log[e] # <<>> =>
        /\ \A i \in DOMAIN test.file \cap DOMAIN mem[e] :
              Says(MemDiffs(log[e], Len(log[e])), i, test.file[i], mem[e][i])
        /\ \A g \in 1..test.globals : \E v \in Bits :
              Says(GlobDiffs(log[e], Len(log[e])), g, Draw(g - 1), v) /\ Denotes[v] = Denotes[glob[e][g]]

\* No difference is missed: testers with equal logs have equal memories, as
\* far as both were compared, and globals that denote the same numbers.
SilenceIsAgreement ==
    \A a, b \in Engines : log[a] # <<>> /\ log[a] = log[b] =>
        /\ \A i \in DOMAIN test.file \cap DOMAIN mem[a] \cap DOMAIN mem[b] : mem[a][i] = mem[b][i]
        /\ \A g \in 1..test.globals : Denotes[glob[a][g]] = Denotes[glob[b][g]]

\* No difference is invented: as long as the engines did the same in every
\* call, the records are the same, even when the file is shorter than the
\* memory and the remainder of the memory is undefined.
NoFalseAlarm ==
    \A a, b \in Engines : \A k \in DOMAIN log[a] \cap DOMAIN log[b] :
        (\A j \in 1..k : past[a][j] = past[b][j]) => log[a][k] = log[b][k]
-----------------------------------------------------------------------------
(***************************************************************************)
(* The inductive invariant.                                                *)
(***************************************************************************)
After(record) == record.at + 1 + test.arity[record.fn]

\* Where a tester is among the draws follows from its last record.
DrawInv(e) ==
    /\ pc[e] \in {"start", "load", "instantiate", "globals"} => log[e] = <<>> /\ next[e] = 0
    /\ log[e] # <<>> => log[e][1].at = test.globals
    /\ \A k \in DOMAIN log[e] :
          /\ log[e][k].fn = Selected(e, Draw(log[e][k].at) % Cardinality(Names(test)))
          /\ k > 1 => log[e][k].at = After(log[e][k - 1])
    /\ pc[e] = "loop" => next[e] = IF log[e] = <<>> THEN test.globals ELSE After(log[e][Len(log[e])])

\* The copies are what the log says, and agree with the engine.
Copied(e) == pc[e] = "loop" \/ log[e] # <<>>

CopyInv(e) ==
    /\ pc[e] \in {"instantiate", "globals"} => memory[e] = test.file
    /\ Copied(e) =>
          /\ DOMAIN memory[e] = DOMAIN test.file
          /\ DOMAIN global_state[e] = 1..test.globals /\ DOMAIN glob[e] = 1..test.globals
          /\ \A i \in DOMAIN test.file : Says(MemDiffs(log[e], Len(log[e])), i, test.file[i], memory[e][i])
          /\ \A g \in 1..test.globals : Says(GlobDiffs(log[e], Len(log[e])), g, Draw(g - 1), global_state[e][g])
    /\ log[e] # <<>> =>
          /\ \A i \in DOMAIN test.file \cap DOMAIN mem[e] : memory[e][i] = mem[e][i]
          /\ \A g \in 1..test.globals : Denotes[global_state[e][g]] = Denotes[glob[e][g]]

\* A record compares what the records before it say with the engine.
RecordInv(e) ==
    \A k \in DOMAIN log[e] :
        /\ \E s \in [DOMAIN test.file -> Bytes] :
              /\ \A i \in DOMAIN test.file : Says(MemDiffs(log[e], k - 1), i, test.file[i], s[i])
              /\ log[e][k].mem = MemDiff(s, past[e][k].mem)
        /\ \E s \in [1..test.globals -> Bits] :
              /\ \A g \in 1..test.globals : Says(GlobDiffs(log[e], k - 1), g, Draw(g - 1), s[g])
              /\ log[e][k].glob = GlobDiff(s, past[e][k].glob)

\* Everything above holds together, and every step keeps it.
IInv ==
    /\ TypeOK
    /\ \A e \in Engines : DrawInv(e) /\ CopyInv(e) /\ RecordInv(e)
    /\ SameCalls /\ NoFalseAlarm
=============================================================================
