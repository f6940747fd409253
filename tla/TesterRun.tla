------------------------------ MODULE TesterRun ------------------------------
(***************************************************************************)
(* One memory step of the fuzzing loop: the coordinator starts one worker  *)
(* per engine with std::async, and each worker                             *)
(*   - opens a pipe, forks a tester and starts a detached reader thread,   *)
(*   - waits 10 seconds for the reader's future,                           *)
(*   - kills the tester on a timeout, reaps it, and returns a verdict.     *)
(*                                                                         *)
(* The workers are threads of one process, so they share its descriptor    *)
(* table, and a fork copies every descriptor that is open at that moment   *)
(* (no pipe is opened with O_CLOEXEC).  The model keeps that table, which  *)
(* pipe ends each tester holds, and the bytes of the log as counted units: *)
(* a unit is half a record, so that an odd number of them is a log cut in  *)
(* the middle of a record; the closing bracket is one more unit.           *)
(***************************************************************************)
EXTENDS Naturals, FiniteSets

CONSTANTS
    Engines,    \* the engines compared; the program has two
    Fds,        \* descriptor numbers free in the coordinator at the start
    Units,      \* bound: the units of a whole log, less the closing one
    PipeCap,    \* bound: the units a pipe holds before a writer blocks
    MaxCuts,    \* bound: the waitpids that SIGINT cuts short
    DropsRet,   \* engines whose main() returns 0 whatever Run() returned
    Free        \* a descriptor number that is not open

Ends == Engines \X {"r", "w"}

ASSUME EnginesAssumption == \A a, b, c \in Engines : a = b \/ a = c \/ b = c
ASSUME FdsAssumption == Fds \subseteq Nat
ASSUME BoundsAssumption == Units \in Nat /\ PipeCap \in Nat \ {0} /\ MaxCuts \in Nat
ASSUME FreeAssumption == Free \notin Ends

VARIABLES
    wpc,        \* where the worker lambda of an engine stands
    fds,        \* the coordinator's descriptor table
    rfd, wfd,   \* fd[0] and fd[1] of SpawnTester
    seen,       \* what waitpid told the worker about its tester
    verdict,    \* what the worker returned
    terminate,  \* terminate_signal
    held,       \* the pipe ends a tester process has open
    child,      \* life of the tester process
    status,     \* its wait status, while it is a zombie
    sent,       \* units it has written
    inPipe,     \* units in its pipe
    rpc,        \* where the reader thread stands
    source,     \* the pipe its blocking read is on
    buffered,   \* units in its stream's buffer
    got,        \* units in its string stream
    marked,     \* it appended PROCESS TIMEOUT to them
    eof         \* is.eof()

worker == <<wpc, rfd, wfd, seen, verdict, terminate>>
tester == <<held, child, status, sent>>
reader == <<rpc, source, buffered, got, marked, eof>>
vars == <<worker, fds, tester, inPipe, reader>>
-----------------------------------------------------------------------------
Alive(e) == child[e] \in {"running", "closing"}

Holds(p, e) == <<e, "w">> \in held[p]

\* Someone can still write to the pipe of e: its end of file has not come.
Writable(e) == \/ \E n \in Fds : fds[n] = <<e, "w">>
               \/ \E p \in Engines : Holds(p, e)

\* Someone can still read it: a write does not raise SIGPIPE.
Readable(e) == \/ \E n \in Fds : fds[n] = <<e, "r">>
               \/ \E p \in Engines : <<e, "r">> \in held[p]

\* The kernel hands out the lowest free number.
LowestFree(n, taken) ==
    /\ fds[n] = Free /\ n \notin taken
    /\ \A m \in Fds : m < n => fds[m] # Free \/ m \in taken

Init ==
    /\ wpc = [e \in Engines |-> "pipe"]
    /\ fds = [n \in Fds |-> Free]
    /\ rfd = [e \in Engines |-> 0]
    /\ wfd = [e \in Engines |-> 0]
    /\ seen = [e \in Engines |-> "none"]
    /\ verdict = [e \in Engines |-> [success |-> FALSE, timeout |-> FALSE]]
    /\ terminate = [e \in Engines |-> FALSE]
    /\ held = [e \in Engines |-> {}]
    /\ child = [e \in Engines |-> "none"]
    /\ status = [e \in Engines |-> "none"]
    /\ sent = [e \in Engines |-> 0]
    /\ inPipe = [e \in Engines |-> 0]
    /\ rpc = [e \in Engines |-> "idle"]
    /\ source = [e \in Engines |-> e]
    /\ buffered = [e \in Engines |-> 0]
    /\ got = [e \in Engines |-> 0]
    /\ marked = [e \in Engines |-> FALSE]
    /\ eof = [e \in Engines |-> FALSE]
-----------------------------------------------------------------------------
(***************************************************************************)
(* The worker: SpawnTester, then wait_for, then one of its two branches.   *)
(***************************************************************************)
GotoW(e, from, to) == wpc[e] = from /\ wpc' = [wpc EXCEPT ![e] = to]

OpenPipe(e) ==
    /\ GotoW(e, "pipe", "fork")
    /\ \E r, w \in Fds :
          /\ LowestFree(r, {}) /\ LowestFree(w, {r})
          /\ fds' = [fds EXCEPT ![r] = <<e, "r">>, ![w] = <<e, "w">>]
          /\ rfd' = [rfd EXCEPT ![e] = r]
          /\ wfd' = [wfd EXCEPT ![e] = w]
    /\ UNCHANGED <<seen, verdict, terminate, tester, inPipe, reader>>

\* fork() and the child's close, dup2, close and execl.
Fork(e) ==
    /\ GotoW(e, "fork", "close")
    /\ child' = [child EXCEPT ![e] = "running"]
    /\ held' = [held EXCEPT ![e] = {fds[n] : n \in Fds \ {rfd[e]}} \ {Free}]
    /\ UNCHANGED <<fds, rfd, wfd, seen, verdict, terminate, status, sent, inPipe, reader>>

\* close(fd[1]) in the parent, and the start of the detached reader thread.
StartReader(e) ==
    /\ GotoW(e, "close", "wait")
    /\ fds' = [fds EXCEPT ![wfd[e]] = Free]
    /\ rpc' = [rpc EXCEPT ![e] = "top"]
    /\ UNCHANGED <<rfd, wfd, seen, verdict, terminate, tester, inPipe, source, buffered, got, marked, eof>>

\* wait_for(10 s) finds the future ready ...
FutureReady(e) ==
    /\ GotoW(e, "wait", "waitpid") /\ rpc[e] = "done"
    /\ UNCHANGED <<fds, rfd, wfd, seen, verdict, terminate, tester, inPipe, reader>>

\* ... or expires, which sets terminate_signal and sends SIGKILL, whose arrival
\* is SigKill.  (A reader that finishes between the two could as well finish
\* just after the store, and a tester that dies there just before it.)
Timeout(e) ==
    /\ GotoW(e, "wait", "reap") /\ rpc[e] # "done"
    /\ terminate' = [terminate EXCEPT ![e] = TRUE]
    /\ UNCHANGED <<fds, rfd, wfd, seen, verdict, tester, inPipe, reader>>

\* Mutant: the timeout branch without its waitpid.
ReapNothing(e) ==
    /\ GotoW(e, "reap", "join")
    /\ seen' = [seen EXCEPT ![e] = "timeout"]
    /\ UNCHANGED <<fds, rfd, wfd, verdict, terminate, tester, inPipe, reader>>

\* waitpid(pid, NULL, 0) of the timeout branch.
Reap(e) ==
    /\ GotoW(e, "reap", "join") /\ child[e] = "zombie"
    /\ child' = [child EXCEPT ![e] = "gone"]
    /\ status' = [status EXCEPT ![e] = "none"]
    /\ seen' = [seen EXCEPT ![e] = "timeout"]
    /\ UNCHANGED <<fds, rfd, wfd, verdict, terminate, held, sent, inPipe, reader>>

\* Mutant: the waitpid of the timeout branch follows that of the other one.
WaitChildTwice(e) ==
    /\ GotoW(e, "waitpid", "reap") /\ child[e] = "zombie"
    /\ child' = [child EXCEPT ![e] = "gone"]
    /\ UNCHANGED <<fds, rfd, wfd, seen, verdict, terminate, held, status, sent, inPipe, reader>>

\* waitpid(pid, &status, 0) of the other branch: it has no time limit.
WaitChild(e) ==
    /\ GotoW(e, "waitpid", "join") /\ child[e] = "zombie"
    /\ child' = [child EXCEPT ![e] = "gone"]
    /\ status' = [status EXCEPT ![e] = "none"]
    /\ seen' = [seen EXCEPT ![e] = status[e]]
    /\ UNCHANGED <<fds, rfd, wfd, verdict, terminate, held, sent, inPipe, reader>>

\* The timeout branch was taken; SIGINT cut the waitpid of either branch.
TimedOut(e) == seen[e] \in {"timeout", "unreaped"}
Cut(e) == seen[e] \in {"unreaped", "garbage"}

\* SIGINT is caught without SA_RESTART: a waitpid that blocks fails with EINTR.
\* The tester stays unreaped, and the status of the second one uninitialised.
Interrupted(e) ==
    /\ Alive(e) /\ Cardinality({o \in Engines : Cut(o)}) < MaxCuts
    /\ \/ GotoW(e, "reap", "join") /\ seen' = [seen EXCEPT ![e] = "unreaped"]
       \/ GotoW(e, "waitpid", "join") /\ seen' = [seen EXCEPT ![e] = "garbage"]
    /\ UNCHANGED <<fds, rfd, wfd, verdict, terminate, tester, inPipe, reader>>

\* Mutant: the timeout branch returns with its timeout flag unset.
VerdictsUnflagged(e) ==
    [success : BOOLEAN, timeout : {FALSE}]

\* The verdicts a worker can return, less the signal's number, which no property
\* reads.  result is assigned only when WIFEXITED, so a signal leaves result == 0
\* to chance, and so does a status that was never written.
Verdicts(e) ==
    CASE TimedOut(e)         -> {[success |-> FALSE, timeout |-> TRUE]}
      [] seen[e] = "exit0"   -> {[success |-> TRUE, timeout |-> FALSE]}
      [] seen[e] = "exit1"   -> {[success |-> FALSE, timeout |-> FALSE]}
      [] OTHER               -> [success : BOOLEAN, timeout : {FALSE}]

\* Mutant: the end closed is the one SpawnTester has closed already.
CloseWriteEnd(e) == fds' = [fds EXCEPT ![wfd[e]] = Free]

\* ~stdio_filebuf closes pipeno, and ~FilenoScope closes the same number.
ClosePipeno(e) == fds' = [fds EXCEPT ![rfd[e]] = Free]

\* read_future.get() and the return, with ~stdio_filebuf ...
Join(e) ==
    /\ GotoW(e, "join", "closescope") /\ rpc[e] = "done"
    /\ \E v \in Verdicts(e) : verdict' = [verdict EXCEPT ![e] = v]
    /\ ClosePipeno(e)
    /\ UNCHANGED <<rfd, wfd, seen, terminate, tester, inPipe, reader>>

\* ... and ~FilenoScope.
CloseScope(e) ==
    /\ GotoW(e, "closescope", "done")
    /\ ClosePipeno(e)
    /\ UNCHANGED <<rfd, wfd, seen, verdict, terminate, tester, inPipe, reader>>
-----------------------------------------------------------------------------
(***************************************************************************)
(* The reader thread: the loop over readsome and peek.  An iteration runs  *)
(* from its test of terminate_signal to its blocking read in one action: a *)
(* store in between has the effect of a store just after, and a close in   *)
(* between that of a close just before.  The blocking read is not part of  *)
(* it: the tester, the sibling and the worker all move while it waits.     *)
(***************************************************************************)
GotoR(e, from, to) == rpc[e] = from /\ rpc' = [rpc EXCEPT ![e] = to]

\* The descriptor the stream was built on is now the read end of pipe p.
Reads(e, p) == fds[rfd[e]] = <<p, "r">>

\* while (!is.eof()) ends the loop.
LeaveAtEof(e) ==
    /\ GotoR(e, "top", "done") /\ eof[e]
    /\ UNCHANGED <<worker, fds, tester, inPipe, source, buffered, got, marked, eof>>

\* terminate_signal is seen at the top of an iteration; a stream that went bad
\* never reaches its end of file, so that it leaves the loop only this way.
LeaveAtTerminate(e) ==
    /\ GotoR(e, "top", "done") \/ GotoR(e, "bad", "done")
    /\ ~eof[e] /\ terminate[e]
    /\ marked' = [marked EXCEPT ![e] = TRUE]
    /\ UNCHANGED <<worker, fds, tester, inPipe, source, buffered, got, eof>>

\* Mutant: the bytes are looked at and not taken.
ReadSomeTwice(e) ==
    /\ GotoR(e, "top", "top") /\ ~eof[e] /\ ~terminate[e]
    /\ \E p \in Engines : Reads(e, p) /\ inPipe[p] > 0 /\ got' = [got EXCEPT ![e] = @ + inPipe[p]]
    /\ UNCHANGED <<worker, fds, tester, inPipe, source, buffered, marked, eof>>

\* readsome takes what the buffer holds and what the pipe has ready, at most
\* 4096 bytes.
ReadSome(e) ==
    /\ GotoR(e, "top", "top") /\ ~eof[e] /\ ~terminate[e]
    /\ \E p \in Engines : \E n \in 0..inPipe[p] :
          /\ n > 0 => Reads(e, p)
          /\ buffered[e] + n > 0
          /\ got' = [got EXCEPT ![e] = @ + buffered[e] + n]
          /\ inPipe' = [inPipe EXCEPT ![p] = @ - n]
    /\ buffered' = [buffered EXCEPT ![e] = 0]
    /\ UNCHANGED <<worker, fds, tester, source, marked, eof>>

\* Mutant: nothing to read right now is taken for the end of the log.
PeekLeaves(e) ==
    /\ GotoR(e, "top", "done") /\ ~eof[e] /\ ~terminate[e] /\ buffered[e] = 0
    /\ \A p \in Engines : Reads(e, p) => inPipe[p] = 0
    /\ UNCHANGED <<worker, fds, tester, inPipe, source, buffered, got, marked, eof>>

\* When there is nothing to take, peek blocks in read(); on a closed descriptor
\* the stream goes bad instead.
Peek(e) ==
    /\ ~eof[e] /\ ~terminate[e] /\ buffered[e] = 0
    /\ \/ /\ GotoR(e, "top", "blocked")
          /\ \E p \in Engines : Reads(e, p) /\ inPipe[p] = 0 /\ source' = [source EXCEPT ![e] = p]
       \/ /\ GotoR(e, "top", "bad")
          /\ \A p \in Engines : ~Reads(e, p)
          /\ UNCHANGED source
    /\ UNCHANGED <<worker, fds, tester, inPipe, buffered, got, marked, eof>>

\* Mutant: the block that was read replaces nothing in the pipe.
WakeAgain(e) ==
    /\ GotoR(e, "blocked", "top")
    /\ \E n \in 1..inPipe[source[e]] : buffered' = [buffered EXCEPT ![e] = n]
    /\ UNCHANGED <<worker, fds, tester, inPipe, source, got, marked, eof>>

\* The blocking read returns data into the stream's buffer ...
Wake(e) ==
    /\ GotoR(e, "blocked", "top")
    /\ \E n \in 1..inPipe[source[e]] :
          /\ buffered' = [buffered EXCEPT ![e] = n]
          /\ inPipe' = [inPipe EXCEPT ![source[e]] = @ - n]
    /\ UNCHANGED <<worker, fds, tester, source, got, marked, eof>>

\* Mutant: an empty pipe is an end of file, as on a pipe that does not block.
SeeEofWhenEmpty(e) ==
    /\ GotoR(e, "blocked", "top")
    /\ inPipe[source[e]] = 0
    /\ eof' = [eof EXCEPT ![e] = TRUE]
    /\ UNCHANGED <<worker, fds, tester, inPipe, source, buffered, got, marked>>

\* ... or the end of file: the pipe is empty and nobody can write to it.
SeeEof(e) ==
    /\ GotoR(e, "blocked", "top")
    /\ inPipe[source[e]] = 0 /\ ~Writable(source[e])
    /\ eof' = [eof EXCEPT ![e] = TRUE]
    /\ UNCHANGED <<worker, fds, tester, inPipe, source, buffered, got, marked>>
-----------------------------------------------------------------------------
(***************************************************************************)
(* The tester process, as its pipe and its parent see it.                  *)
(***************************************************************************)
\* The end of a tester process: its descriptors are closed with it.
Dies(e, how) ==
    /\ child' = [child EXCEPT ![e] = "zombie"]
    /\ status' = [status EXCEPT ![e] = how]
    /\ held' = [held EXCEPT ![e] = {}]

\* A flush of a record, whole or in part; it blocks while the pipe is full and
\* raises SIGPIPE when nobody is left to read it.
Write(e) ==
    /\ child[e] = "running" /\ sent[e] < Units /\ Holds(e, e)
    /\ \/ /\ Readable(e) /\ inPipe[e] < PipeCap
          /\ sent' = [sent EXCEPT ![e] = @ + 1]
          /\ inPipe' = [inPipe EXCEPT ![e] = @ + 1]
          /\ UNCHANGED <<held, child, status>>
       \/ ~Readable(e) /\ Dies(e, "signal") /\ UNCHANGED <<sent, inPipe>>
    /\ UNCHANGED <<worker, fds, reader>>

\* SingleRun writes the closing bracket, and its filebuf closes descriptor 3.
Finish(e) ==
    /\ child[e] = "running" /\ sent[e] = Units /\ Holds(e, e)
    /\ Readable(e) /\ inPipe[e] < PipeCap
    /\ sent' = [sent EXCEPT ![e] = @ + 1]
    /\ inPipe' = [inPipe EXCEPT ![e] = @ + 1]
    /\ child' = [child EXCEPT ![e] = "closing"]
    /\ held' = [held EXCEPT ![e] = @ \ {<<e, "w">>}]
    /\ UNCHANGED <<worker, fds, status, reader>>

\* Run returns -1 without a record, and descriptor 3 is closed: by SingleRun when
\* it was reached, by the end of the process when it was not.  Such a process
\* counts as running until that end, so that Exit follows at once or later.
Fail(e) ==
    /\ child[e] = "running" /\ sent[e] = 0
    /\ child' = [child EXCEPT ![e] = "closing"]
    /\ held' = [held EXCEPT ![e] = @ \ {<<e, "w">>}]
    /\ UNCHANGED <<worker, fds, status, sent, inPipe, reader>>

\* Teardown of the engine after Run, and return from main.  Only a Run that
\* failed has written nothing.
Exit(e) ==
    /\ child[e] = "closing"
    /\ Dies(e, IF sent[e] = 0 /\ e \notin DropsRet THEN "exit1" ELSE "exit0")
    /\ UNCHANGED <<worker, fds, sent, inPipe, reader>>

\* The engine aborts or faults, in execl, in a call or in the teardown.
Crash(e) ==
    /\ Alive(e)
    /\ Dies(e, "signal")
    /\ UNCHANGED <<worker, fds, sent, inPipe, reader>>

\* The worker has sent SIGKILL; it need not be waiting for the end any more.
Killed(e) == wpc[e] = "reap" \/ TimedOut(e)

\* Mutant: a signal that a hung tester ignores.
SigKillIgnored(e) == Killed(e) /\ child[e] = "closing" /\ Crash(e)

\* SIGKILL arrives: until then the tester runs on, and the worker as well.
SigKill(e) == Killed(e) /\ Crash(e)
-----------------------------------------------------------------------------
Worker(e) == \/ OpenPipe(e) \/ Fork(e) \/ StartReader(e) \/ FutureReady(e)
             \/ Timeout(e) \/ Reap(e)
             \/ WaitChild(e) \/ Join(e) \/ CloseScope(e)

Reader(e) == \/ LeaveAtEof(e) \/ LeaveAtTerminate(e) \/ ReadSome(e)
             \/ Peek(e) \/ Wake(e) \/ SeeEof(e)

Tester(e) == Write(e) \/ Finish(e) \/ Exit(e) \/ Fail(e) \/ Crash(e) \/ SigKill(e)

\* Both futures of std::async have been taken.
Returned == /\ \A e \in Engines : wpc[e] = "done"
            /\ UNCHANGED vars

Next == \/ \E e \in Engines : Worker(e) \/ Reader(e) \/ Tester(e) \/ Interrupted(e)
        \/ Returned

Spec == Init /\ [][Next]_vars

\* The scheduler runs the threads of the coordinator and the kernel delivers a
\* SIGKILL; a tester may hang anywhere, except in the teardown of its engine.  It
\* is enough that of all these steps one is taken whenever one can be.
FairSpec ==
    /\ Spec
    /\ WF_vars(\E e \in Engines : Worker(e) \/ Reader(e) \/ SigKill(e) \/ Exit(e))
-----------------------------------------------------------------------------
(***************************************************************************)
(* Properties.                                                             *)
(***************************************************************************)
Opened == {"fork", "close", "wait", "waitpid", "reap", "join"}
Reported == {"closescope", "done"}
Reply == [success : BOOLEAN, timeout : BOOLEAN]

\* Every variable has its type; the worker, the reader and the tester of
\* SpawnTester and of the worker lambda only take the values named here.
TypeOK ==
    /\ wpc \in [Engines -> Opened \cup {"pipe", "closescope", "done"}]
    /\ fds \in [Fds -> Ends \cup {Free}]
    /\ rfd \in [Engines -> Nat] /\ wfd \in [Engines -> Nat]
    /\ seen \in [Engines -> {"none", "timeout", "unreaped", "exit0", "exit1", "signal", "garbage"}]
    /\ verdict \in [Engines -> Reply]
    /\ terminate \in [Engines -> BOOLEAN]
    /\ held \in [Engines -> SUBSET Ends]
    /\ child \in [Engines -> {"none", "running", "closing", "zombie", "gone"}]
    /\ status \in [Engines -> {"none", "exit0", "exit1", "signal"}]
    /\ sent \in [Engines -> 0..(Units + 1)]
    /\ inPipe \in [Engines -> 0..PipeCap]
    /\ rpc \in [Engines -> {"idle", "top", "blocked", "bad", "done"}]
    /\ source \in [Engines -> Engines]
    /\ buffered \in [Engines -> 0..PipeCap]
    /\ got \in [Engines -> 0..(Units + 1)]
    /\ marked \in [Engines -> BOOLEAN]
    /\ eof \in [Engines -> BOOLEAN]

\* "Eat the buffer until EOF": a log that comes back without the timeout flag
\* is everything the tester wrote, and no marker was put into it, although the
\* reader polls readsome and peek while the tester writes and dies.
CompleteLog ==
    \A e \in Engines : wpc[e] \in Reported /\ ~verdict[e].timeout
        => got[e] = sent[e] /\ ~marked[e]

\* A worker returns only after its tester has been reaped, so that no zombie
\* outlives a memory step.  SIGINT is the one exception: it can cut short the
\* waitpid of either branch, also after a kill that has not arrived yet.
Reaped ==
    \A e \in Engines : wpc[e] \in Reported /\ ~Cut(e) => child[e] = "gone"

\* kill and waitpid are given the pid of a tester nobody has reaped yet: the
\* number cannot belong to another process.
PidIsOurs ==
    \A e \in Engines : wpc[e] \in {"waitpid", "reap"} => child[e] \in {"running", "closing", "zombie"}

\* The two workers together leave no descriptor open, whatever the order of
\* the closes in the parent, of the destructors and of the sibling's pipe().
FdsBalanced ==
    (\A e \in Engines : wpc[e] = "done") => \A n \in Fds : fds[n] = Free

\* Once a reader has seen the end of file, its tester writes no more: the end
\* of the log is never taken for reached too early.
EofStable ==
    [][\A e \in Engines : eof[e] => sent'[e] = sent[e]]_vars

\* "Timeout, force close": a worker returns within its time limit plus the
\* teardown of its engine, so that the fuzzing loop goes on.
EveryWorkerReturns == <>(\A e \in Engines : wpc[e] = "done")

\* The worker, its reader and its tester together keep the promise the fuzzing
\* loop builds on: one report per engine, the whole log or a timeout.
Sealed(e) == child[e] # "none" /\ ~Holds(e, e)

ReportOf(e) ==
    [made |-> wpc[e] \in Reported,
     success |-> verdict[e].success,
     timeout |-> verdict[e].timeout,
     length |-> IF wpc[e] \in Reported THEN got[e] ELSE 0]

Promise == INSTANCE TesterReport WITH
    MaxOutput <- Units + 1,
    output <- sent,
    sealed <- [e \in Engines |-> Sealed(e)],
    report <- [e \in Engines |-> ReportOf(e)]

\* (The stutters stand first for TLC, since most steps are.)
KeepsPromise == Promise!Init /\ [][UNCHANGED Promise!vars \/ Promise!Next]_(Promise!vars)
-----------------------------------------------------------------------------
(***************************************************************************)
(* The inductive invariant.                                                *)
(***************************************************************************)
\* A descriptor of an engine is where its worker left it, or closed by the
\* second close of a sibling that is done; no other pipe has taken its number.
SlotOk(e, n, end) ==
    \/ fds[n] = <<e, end>>
    \/ fds[n] = Free /\ \A o \in Engines \ {e} : wpc[o] = "done"

FdInv ==
    /\ \A e \in Engines :
          /\ wpc[e] # "pipe" => rfd[e] \in Fds /\ wfd[e] \in Fds
          /\ wpc[e] \in Opened => SlotOk(e, rfd[e], "r")
          /\ wpc[e] \in {"fork", "close"} => SlotOk(e, wfd[e], "w")
    /\ \A n \in Fds : \A e \in Engines :
          /\ fds[n] = <<e, "r">> => n = rfd[e] /\ wpc[e] \in Opened
          /\ fds[n] = <<e, "w">> => n = wfd[e] /\ wpc[e] \in {"fork", "close"}

WorkerInv(e) ==
    /\ wpc[e] \in {"pipe", "fork", "close"} <=> rpc[e] = "idle"
    /\ wpc[e] \in {"waitpid"} \cup Reported => rpc[e] = "done"
    /\ wpc[e] \in {"pipe", "fork", "close", "wait", "waitpid", "reap"} => seen[e] = "none"
    /\ terminate[e] => wpc[e] = "reap" \/ TimedOut(e)
    /\ wpc[e] \in Reported => verdict[e] \in Verdicts(e)

TesterInv(e) ==
    /\ wpc[e] \in {"pipe", "fork"} <=> child[e] = "none"
    /\ wpc[e] \in {"close", "wait", "waitpid", "reap"} => child[e] # "gone"
    /\ wpc[e] \in {"join"} \cup Reported /\ ~Cut(e) => child[e] = "gone"

ReaderInv(e) ==
    /\ source[e] = e
    /\ got[e] + buffered[e] + inPipe[e] = sent[e]
    /\ rpc[e] = "blocked" => buffered[e] = 0
    /\ eof[e] => /\ rpc[e] \in {"top", "done"}
                 /\ buffered[e] = 0 /\ inPipe[e] = 0 /\ ~Writable(e)
    /\ marked[e] => terminate[e]
    /\ rpc[e] = "done" => eof[e] \/ marked[e]

\* Everything above holds together, and every step keeps it.
IInv ==
    /\ TypeOK
    /\ FdInv
    /\ \A e \in Engines : WorkerInv(e) /\ TesterInv(e) /\ ReaderInv(e)
-----------------------------------------------------------------------------
(***************************************************************************)
(* What the comments of the worker say, and the code does not keep.        *)
(***************************************************************************)
\* "Eat the buffer until EOF": until its reader is done the read end of the
\* pipe stays open.  (The sibling closes the number twice.)
ReaderKeepsItsPipe ==
    \A e \in Engines : rpc[e] \in {"top", "blocked", "bad"} => Reads(e, e)

\* "Check child process return status": a tester that died of a signal is not
\* a success.  (result is uninitialised.)
SignalIsFailure ==
    \A e \in Engines : wpc[e] \in Reported /\ seen[e] = "signal" => ~verdict[e].success

\* "Check child process return status": a tester that exited without a log,
\* since its Run() failed, is not a success.  (main() of the V8 runner drops the
\* value.)
FailedRunIsFailure ==
    \A e \in Engines : wpc[e] \in Reported /\ seen[e] = "exit0" /\ sent[e] = 0 => ~verdict[e].success
=============================================================================
