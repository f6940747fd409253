--------------------------- MODULE TesterRunProofs ---------------------------
(***************************************************************************)
(* Proofs about TesterRun, for every set of at most two engines, every     *)
(* descriptor table, log length and pipe capacity.                         *)
(***************************************************************************)
EXTENDS TesterRun, TLAPS

LEMMA FreeIsNoEnd == \A e \in Engines : Free # <<e, "r">> /\ Free # <<e, "w">>
BY FreeAssumption DEF Ends

\* The worker's steps keep the types.
LEMMA WorkerTypes ==
    ASSUME TypeOK, NEW e \in Engines, Worker(e) \/ Interrupted(e)
    PROVE  TypeOK'
<1> USE DEF TypeOK, Opened
<1>1. ASSUME OpenPipe(e) PROVE TypeOK'
  <2>1. PICK r \in Fds, w \in Fds :
          /\ fds' = [fds EXCEPT ![r] = <<e, "r">>, ![w] = <<e, "w">>]
          /\ rfd' = [rfd EXCEPT ![e] = r] /\ wfd' = [wfd EXCEPT ![e] = w]
    BY <1>1 DEF OpenPipe
  <2>2. <<e, "r">> \in Ends /\ <<e, "w">> \in Ends
    BY DEF Ends
  <2>3. fds' \in [Fds -> Ends \cup {Free}] /\ rfd' \in [Engines -> Nat] /\ wfd' \in [Engines -> Nat]
    BY <2>1, <2>2, FdsAssumption
  <2> QED
    BY <1>1, <2>3 DEF OpenPipe, GotoW, tester, reader
<1>2. CASE Fork(e)
  BY <1>2 DEF Fork, GotoW, reader
<1>3. CASE StartReader(e)
  BY <1>3 DEF StartReader, GotoW, tester
<1>4. CASE FutureReady(e)
  BY <1>4 DEF FutureReady, GotoW, tester, reader
<1>5. CASE Timeout(e)
  BY <1>5 DEF Timeout, GotoW, tester, reader
<1>6. CASE Reap(e)
  BY <1>6 DEF Reap, GotoW, reader
<1>7. CASE WaitChild(e)
  BY <1>7 DEF WaitChild, GotoW, reader
<1>8. CASE Interrupted(e)
  <2>1. PICK s \in {"unreaped", "garbage"} : seen' = [seen EXCEPT ![e] = s]
    BY <1>8 DEF Interrupted
  <2>2. wpc' = [wpc EXCEPT ![e] = "join"]
    BY <1>8 DEF Interrupted, GotoW
  <2> QED
    BY <1>8, <2>1, <2>2 DEF Interrupted, tester, reader
<1>9. CASE Join(e)
  <2>1. Verdicts(e) \subseteq Reply
    <3>1. \A s, t \in BOOLEAN : [success |-> s, timeout |-> t] \in Reply
      BY DEF Reply
    <3>2. [success : BOOLEAN, timeout : {FALSE}] \subseteq Reply
      BY DEF Reply
    <3> QED
      BY <3>1, <3>2, Zenon DEF Verdicts
  <2>2. verdict' \in [Engines -> Reply]
    BY <1>9, <2>1 DEF Join
  <2> QED
    BY <1>9, <2>2 DEF Join, ClosePipeno, GotoW, tester, reader
<1>10. CASE CloseScope(e)
  BY <1>10 DEF CloseScope, ClosePipeno, GotoW, tester, reader
<1> QED
  BY <1>1, <1>2, <1>3, <1>4, <1>5, <1>6, <1>7, <1>8, <1>9, <1>10 DEF Worker

\* The descriptor an active reader uses is never the pipe of its sibling.
LEMMA OwnPipe ==
    ASSUME IInv, NEW e \in Engines, rpc[e] = "top", NEW p \in Engines, Reads(e, p)
    PROVE  p = e
<1>1. wpc[e] \in Opened /\ rfd[e] \in Fds
  BY DEF IInv, TypeOK, WorkerInv, FdInv, Opened, Reported
<1>2. SlotOk(e, rfd[e], "r")
  BY <1>1 DEF IInv, FdInv
<1>3. fds[rfd[e]] # Free
  BY FreeAssumption DEF Reads, Ends
<1> QED
  BY <1>2, <1>3 DEF SlotOk, Reads

\* The reader's steps keep the types: what it has got is part of what was sent.
LEMMA ReaderTypes ==
    ASSUME IInv, NEW e \in Engines, Reader(e)
    PROVE  TypeOK'
<1>0. TypeOK
  BY DEF IInv
<1> USE <1>0, BoundsAssumption DEF TypeOK
<1>1. CASE LeaveAtEof(e)
  BY <1>1 DEF LeaveAtEof, GotoR, worker, tester
<1>2. CASE LeaveAtTerminate(e)
  BY <1>2 DEF LeaveAtTerminate, GotoR, worker, tester
<1>3. CASE ReadSome(e)
  <2>p. PICK p \in Engines : \E n \in 0..inPipe[p] :
          /\ n > 0 => Reads(e, p)
          /\ got' = [got EXCEPT ![e] = @ + buffered[e] + n]
          /\ inPipe' = [inPipe EXCEPT ![p] = @ - n]
    BY <1>3 DEF ReadSome
  <2>1. PICK n \in 0..inPipe[p] :
          /\ n > 0 => Reads(e, p)
          /\ got' = [got EXCEPT ![e] = @ + buffered[e] + n]
          /\ inPipe' = [inPipe EXCEPT ![p] = @ - n]
    BY <2>p
  <2>2. inPipe' \in [Engines -> 0..PipeCap]
    BY <2>1
  <2>3. buffered' \in [Engines -> 0..PipeCap]
    BY <1>3 DEF ReadSome
  <2>4. got[e] + buffered[e] + n \in 0..(Units + 1)
    <3>1. n <= inPipe[e]
      BY <2>1, OwnPipe, <1>3 DEF ReadSome, GotoR, IInv
    <3> QED
      BY <2>1, <3>1 DEF ReaderInv, IInv
  <2>5. got' \in [Engines -> 0..(Units + 1)]
    BY <2>1, <2>4
  <2> QED
    BY <1>3, <2>2, <2>3, <2>5 DEF ReadSome, GotoR, worker, tester
<1>4. CASE Peek(e)
  <2>1. source' \in [Engines -> Engines]
    BY <1>4 DEF Peek
  <2>2. rpc' \in [Engines -> {"idle", "top", "blocked", "bad", "done"}]
    BY <1>4 DEF Peek, GotoR
  <2> QED
    BY <1>4, <2>1, <2>2 DEF Peek, worker, tester
<1>5. CASE Wake(e)
  BY <1>5 DEF Wake, GotoR, worker, tester
<1>6. CASE SeeEof(e)
  BY <1>6 DEF SeeEof, GotoR, worker, tester
<1> QED
  BY <1>1, <1>2, <1>3, <1>4, <1>5, <1>6 DEF Reader

\* The tester's steps keep the types.
LEMMA TesterTypes ==
    ASSUME TypeOK, NEW e \in Engines, Tester(e)
    PROVE  TypeOK'
<1> USE BoundsAssumption DEF TypeOK
<1>1. CASE Write(e)
  <2>1. CASE sent' = [sent EXCEPT ![e] = @ + 1] /\ UNCHANGED <<held, child, status>>
    BY <1>1, <2>1 DEF Write, worker, reader
  <2>2. CASE Dies(e, "signal") /\ UNCHANGED <<sent, inPipe>>
    BY <1>1, <2>2 DEF Write, Dies, worker, reader
  <2> QED
    BY <1>1, <2>1, <2>2 DEF Write
<1>2. CASE Finish(e)
  BY <1>2 DEF Finish, worker, reader
<1>3. CASE Exit(e)
  BY <1>3 DEF Exit, Dies, worker, reader
<1>4. CASE Fail(e)
  BY <1>4 DEF Fail, worker, reader
<1>5. CASE Crash(e) \/ SigKill(e)
  BY <1>5 DEF SigKill, Crash, Alive, Dies, worker, reader
<1> QED
  BY <1>1, <1>2, <1>3, <1>4, <1>5 DEF Tester

\* Every step keeps the types.
LEMMA Types ==
    ASSUME IInv, [Next]_vars
    PROVE  TypeOK'
<1>1. CASE UNCHANGED vars
  BY <1>1 DEF IInv, TypeOK, vars, worker, tester, reader
<1>2. CASE \E e \in Engines : Worker(e) \/ Reader(e) \/ Tester(e) \/ Interrupted(e)
  BY <1>2, WorkerTypes, ReaderTypes, TesterTypes DEF IInv
<1> QED
  BY <1>1, <1>2 DEF Next, Returned
-----------------------------------------------------------------------------
\* The descriptor table: the steps that open, close or copy nothing.
LEMMA QuietFds ==
    ASSUME TypeOK, FdInv, UNCHANGED <<fds, rfd, wfd>>, NEW e \in Engines, NEW to,
           wpc' = [wpc EXCEPT ![e] = to],
           wpc[e] # "pipe", wpc[e] # "done", to # "pipe",
           to \in Opened <=> wpc[e] \in Opened,
           to \in {"fork", "close"} <=> wpc[e] \in {"fork", "close"}
    PROVE  FdInv'
<1>1. \A o \in Engines : wpc[o] = "done" => wpc'[o] = "done"
  BY DEF TypeOK
<1>2. \A o \in Engines, n \in Fds : \A end : SlotOk(o, n, end) => SlotOk(o, n, end)'
  BY <1>1 DEF SlotOk
<1>3. \A o \in Engines : /\ wpc'[o] # "pipe" <=> wpc[o] # "pipe"
                         /\ wpc'[o] \in Opened <=> wpc[o] \in Opened
                         /\ wpc'[o] \in {"fork", "close"} <=> wpc[o] \in {"fork", "close"}
  BY DEF TypeOK
<1>4. \A o \in Engines :
          /\ wpc'[o] # "pipe" => rfd'[o] \in Fds /\ wfd'[o] \in Fds
          /\ wpc'[o] \in Opened => SlotOk(o, rfd[o], "r")'
          /\ wpc'[o] \in {"fork", "close"} => SlotOk(o, wfd[o], "w")'
  <2>1. "pipe" \notin Opened \cup {"fork", "close"}
    BY DEF Opened
  <2> QED
    BY <1>2, <1>3, <2>1 DEF FdInv, SlotOk
<1>5. \A n \in Fds : \A o \in Engines :
          /\ fds'[n] = <<o, "r">> => n = rfd'[o] /\ wpc'[o] \in Opened
          /\ fds'[n] = <<o, "w">> => n = wfd'[o] /\ wpc'[o] \in {"fork", "close"}
  BY <1>3 DEF FdInv
<1> QED
  BY <1>4, <1>5 DEF FdInv, Opened

\* pipe() takes two free numbers, so that it disturbs no slot of the sibling.
LEMMA OpenPipeFds ==
    ASSUME IInv, NEW e \in Engines, OpenPipe(e)
    PROVE  FdInv'
<1> USE DEF TypeOK, IInv
<1>1. PICK r \in Fds : \E w \in Fds :
        /\ fds[r] = Free /\ fds[w] = Free /\ r # w
        /\ fds' = [fds EXCEPT ![r] = <<e, "r">>, ![w] = <<e, "w">>]
        /\ rfd' = [rfd EXCEPT ![e] = r] /\ wfd' = [wfd EXCEPT ![e] = w]
  BY DEF OpenPipe, LowestFree
<1>2. PICK w \in Fds :
        /\ fds[r] = Free /\ fds[w] = Free /\ r # w
        /\ fds' = [fds EXCEPT ![r] = <<e, "r">>, ![w] = <<e, "w">>]
        /\ rfd' = [rfd EXCEPT ![e] = r] /\ wfd' = [wfd EXCEPT ![e] = w]
  BY <1>1
<1>3. wpc[e] = "pipe" /\ wpc' = [wpc EXCEPT ![e] = "fork"]
  BY DEF OpenPipe, GotoW
<1>4. /\ fds'[r] = <<e, "r">> /\ fds'[w] = <<e, "w">>
      /\ \A n \in Fds \ {r, w} : fds'[n] = fds[n]
  BY <1>2
<1>5. ASSUME NEW o \in Engines, o # e
      PROVE  /\ wpc'[o] # "pipe" => rfd'[o] \in Fds /\ wfd'[o] \in Fds
             /\ wpc'[o] \in Opened => SlotOk(o, rfd[o], "r")'
             /\ wpc'[o] \in {"fork", "close"} => SlotOk(o, wfd[o], "w")'
  <2>1. wpc'[o] = wpc[o] /\ rfd'[o] = rfd[o] /\ wfd'[o] = wfd[o]
    BY <1>2, <1>3, <1>5
  <2>2. ASSUME NEW n \in Fds, NEW end \in {"r", "w"}, SlotOk(o, n, end)
        PROVE  fds[n] = <<o, end>> /\ SlotOk(o, n, end)'
    <3>1. fds[n] = <<o, end>>
      BY <1>3, <1>5, <2>2 DEF SlotOk
    <3>2. fds[n] # Free
      BY <3>1, FreeAssumption DEF Ends
    <3> QED
      BY <3>1, <3>2, <1>2, <1>4 DEF SlotOk
  <2> QED
    BY <2>1, <2>2 DEF FdInv, Opened
<1>6. /\ rfd'[e] \in Fds /\ wfd'[e] \in Fds
      /\ SlotOk(e, rfd[e], "r")' /\ SlotOk(e, wfd[e], "w")'
  BY <1>2, <1>4 DEF SlotOk
<1>7. ASSUME NEW n \in Fds, NEW o \in Engines
      PROVE  /\ fds'[n] = <<o, "r">> => n = rfd'[o] /\ wpc'[o] \in Opened
             /\ fds'[n] = <<o, "w">> => n = wfd'[o] /\ wpc'[o] \in {"fork", "close"}
  <2>1. CASE n \in {r, w}
    BY <2>1, <1>2, <1>3, <1>4 DEF Opened
  <2>2. CASE n \notin {r, w}
    <3>1. fds'[n] = fds[n] /\ wpc[e] \notin Opened
      BY <2>2, <1>3, <1>4 DEF Opened
    <3>2. o # e => rfd'[o] = rfd[o] /\ wfd'[o] = wfd[o] /\ wpc'[o] = wpc[o]
      BY <1>2, <1>3
    <3>3. "fork" \in Opened /\ "close" \in Opened
      BY DEF Opened
    <3> QED
      BY <3>1, <3>2, <3>3 DEF FdInv
  <2> QED
    BY <2>1, <2>2
<1> QED
  BY <1>5, <1>6, <1>7 DEF FdInv

\* A close disturbs the slots of the sibling only when it is the second close
\* of a number, and then the sibling is the only engine left.
LEMMA CloseFds ==
    ASSUME IInv, NEW e \in Engines, NEW m \in Fds, NEW to \in {"wait", "closescope", "done"},
           UNCHANGED <<rfd, wfd>>,
           wpc' = [wpc EXCEPT ![e] = to], wpc[e] \notin {"pipe", "done"},
           fds' = [fds EXCEPT ![m] = Free],
           to = "wait" => wpc[e] = "close" /\ fds[m] \in {<<e, "w">>, Free},
           to = "closescope" => fds[m] \in {<<e, "r">>, Free},
           \A n \in Fds : fds'[n] # <<e, "w">> /\ (to # "wait" => fds'[n] # <<e, "r">>)
    PROVE  FdInv'
<1> USE DEF TypeOK, IInv
<1>1. ASSUME NEW o \in Engines, NEW n \in Fds, NEW end \in {"r", "w"}, SlotOk(o, n, end),
             o # e \/ (to = "wait" /\ end = "r")
      PROVE  SlotOk(o, n, end)'
  <2>1. \A a \in Engines : wpc[a] = "done" => wpc'[a] = "done"
    OBVIOUS
  <2>2. CASE n # m \/ (fds[n] = Free /\ \A a \in Engines \ {o} : wpc[a] = "done")
    BY <1>1, <2>1, <2>2 DEF SlotOk
  <2>3. CASE n = m /\ fds[n] = <<o, end>>
    <3>1. fds[n] # Free
      BY <2>3, FreeAssumption DEF Ends
    <3>2. to = "done" /\ o # e
      BY <1>1, <2>3, <3>1
    <3>3. \A a \in Engines \ {o} : a = e
      BY <3>2, EnginesAssumption
    <3> QED
      BY <2>3, <3>2, <3>3 DEF SlotOk
  <2> QED
    BY <1>1, <2>2, <2>3 DEF SlotOk
<1>2. ASSUME NEW o \in Engines
      PROVE  /\ wpc'[o] # "pipe" => rfd'[o] \in Fds /\ wfd'[o] \in Fds
             /\ wpc'[o] \in Opened => SlotOk(o, rfd[o], "r")'
             /\ wpc'[o] \in {"fork", "close"} => SlotOk(o, wfd[o], "w")'
  <2>1. wpc'[o] # "pipe" => wpc[o] # "pipe"
    OBVIOUS
  <2>2. wpc'[o] \in Opened => wpc[o] \in Opened /\ (o # e \/ to = "wait")
    BY DEF Opened
  <2>3. wpc'[o] \in {"fork", "close"} => wpc[o] \in {"fork", "close"} /\ o # e
    OBVIOUS
  <2>4. wpc[o] \in Opened => rfd[o] \in Fds /\ SlotOk(o, rfd[o], "r")
    BY DEF FdInv, Opened
  <2>5. wpc[o] \in {"fork", "close"} => wfd[o] \in Fds /\ SlotOk(o, wfd[o], "w")
    BY DEF FdInv
  <2>6. ASSUME wpc[o] \in Opened, o # e \/ to = "wait" PROVE SlotOk(o, rfd[o], "r")'
    <3>1. \A n \in Fds : SlotOk(o, n, "r") => SlotOk(o, n, "r")'
      BY <1>1, <2>6
    <3> QED
      BY <2>4, <2>6, <3>1 DEF SlotOk
  <2>7. ASSUME wpc[o] \in {"fork", "close"}, o # e PROVE SlotOk(o, wfd[o], "w")'
    <3>1. \A n \in Fds : SlotOk(o, n, "w") => SlotOk(o, n, "w")'
      BY <1>1, <2>7
    <3> QED
      BY <2>5, <2>7, <3>1 DEF SlotOk
  <2> QED
    BY <2>1, <2>2, <2>3, <2>6, <2>7 DEF FdInv
<1>3. ASSUME NEW n \in Fds, NEW o \in Engines
      PROVE  /\ fds'[n] = <<o, "r">> => n = rfd'[o] /\ wpc'[o] \in Opened
             /\ fds'[n] = <<o, "w">> => n = wfd'[o] /\ wpc'[o] \in {"fork", "close"}
  <2>1. fds'[n] \in {<<o, "r">>, <<o, "w">>} => fds'[n] = fds[n]
    BY FreeIsNoEnd
  <2>2. /\ fds[n] = <<o, "r">> => n = rfd'[o] /\ wpc[o] \in Opened
        /\ fds[n] = <<o, "w">> => n = wfd'[o] /\ wpc[o] \in {"fork", "close"}
    BY DEF FdInv
  <2>3. CASE o # e
    BY <2>1, <2>2, <2>3
  <2>4. CASE o = e
    <3>1. "wait" \in Opened
      BY DEF Opened
    <3> QED
      BY <2>1, <2>2, <2>4, <3>1
  <2> QED
    BY <2>3, <2>4
<1> QED
  BY <1>2, <1>3 DEF FdInv

\* Every step keeps the descriptor table in order.
LEMMA FdStep ==
    ASSUME IInv, [Next]_vars
    PROVE  FdInv'
<1> USE DEF IInv
<1>1. CASE UNCHANGED vars
  BY <1>1 DEF vars, worker, FdInv, SlotOk
<1>2. ASSUME NEW e \in Engines, Reader(e) \/ Tester(e) PROVE FdInv'
  <2>1. UNCHANGED <<worker, fds>>
    BY <1>2 DEF Reader, Tester, LeaveAtEof, LeaveAtTerminate, ReadSome, Peek, Wake, SeeEof,
                Write, Finish, Exit, Fail, Crash, SigKill
  <2> QED
    BY <2>1 DEF worker, FdInv, SlotOk
<1>3. ASSUME NEW e \in Engines, OpenPipe(e) PROVE FdInv'
  BY <1>3, OpenPipeFds
<1>4. ASSUME NEW e \in Engines, StartReader(e) PROVE FdInv'
  <2>1. /\ wpc[e] = "close" /\ wpc' = [wpc EXCEPT ![e] = "wait"] /\ UNCHANGED <<rfd, wfd>>
        /\ fds' = [fds EXCEPT ![wfd[e]] = Free]
    BY <1>4 DEF StartReader, GotoW
  <2>2. wfd[e] \in Fds /\ fds[wfd[e]] \in {<<e, "w">>, Free}
    BY <2>1 DEF FdInv, SlotOk
  <2>3. \A n \in Fds : fds'[n] # <<e, "w">>
    <3>1. ASSUME NEW n \in Fds, n # wfd[e] PROVE fds'[n] # <<e, "w">>
      BY <2>1, <3>1 DEF FdInv
    <3> QED
      BY <2>1, <2>2, <3>1, FreeIsNoEnd DEF TypeOK
  <2> QED
    BY <2>1, <2>2, <2>3, CloseFds
<1>5. ASSUME NEW e \in Engines, Join(e) PROVE FdInv'
  <2>1. /\ wpc[e] = "join" /\ wpc' = [wpc EXCEPT ![e] = "closescope"] /\ UNCHANGED <<rfd, wfd>>
        /\ fds' = [fds EXCEPT ![rfd[e]] = Free]
    BY <1>5 DEF Join, ClosePipeno, GotoW
  <2>2. rfd[e] \in Fds /\ fds[rfd[e]] \in {<<e, "r">>, Free}
    BY <2>1 DEF FdInv, SlotOk, Opened
  <2>3. \A n \in Fds : fds'[n] # <<e, "w">> /\ fds'[n] # <<e, "r">>
    <3>1. ASSUME NEW n \in Fds, n # rfd[e] PROVE fds'[n] # <<e, "w">> /\ fds'[n] # <<e, "r">>
      BY <2>1, <3>1 DEF FdInv
    <3> QED
      BY <2>1, <2>2, <3>1, FreeIsNoEnd DEF TypeOK
  <2> QED
    BY <2>1, <2>2, <2>3, CloseFds
<1>6. ASSUME NEW e \in Engines, CloseScope(e) PROVE FdInv'
  <2>1. /\ wpc[e] = "closescope" /\ wpc' = [wpc EXCEPT ![e] = "done"] /\ UNCHANGED <<rfd, wfd>>
        /\ fds' = [fds EXCEPT ![rfd[e]] = Free]
    BY <1>6 DEF CloseScope, ClosePipeno, GotoW
  <2>2. rfd[e] \in Fds
    BY <2>1 DEF FdInv
  <2>3. \A n \in Fds : fds'[n] # <<e, "w">> /\ fds'[n] # <<e, "r">>
    <3>1. ASSUME NEW n \in Fds, n # rfd[e] PROVE fds'[n] # <<e, "w">> /\ fds'[n] # <<e, "r">>
      BY <2>1, <3>1 DEF FdInv, Opened
    <3> QED
      BY <2>1, <2>2, <3>1, FreeIsNoEnd DEF TypeOK
  <2> QED
    BY <2>1, <2>2, <2>3, CloseFds
<1>7. ASSUME NEW e \in Engines, NEW to \in {"close", "waitpid", "reap", "join"},
             wpc' = [wpc EXCEPT ![e] = to], UNCHANGED <<fds, rfd, wfd>>,
             to = "close" => wpc[e] = "fork",
             to # "close" => wpc[e] \in {"wait", "waitpid", "reap"}
      PROVE  FdInv'
  <2>1. /\ wpc[e] # "pipe" /\ wpc[e] # "done" /\ to # "pipe"
        /\ to \in Opened <=> wpc[e] \in Opened
        /\ to \in {"fork", "close"} <=> wpc[e] \in {"fork", "close"}
    BY <1>7 DEF Opened
  <2> QED
    BY <1>7, <2>1, QuietFds
<1>8. ASSUME NEW e \in Engines,
             Fork(e) \/ FutureReady(e) \/ Timeout(e) \/ Reap(e) \/ WaitChild(e) \/ Interrupted(e)
      PROVE  FdInv'
  <2>1. \E to \in {"close", "waitpid", "reap", "join"} :
           /\ wpc' = [wpc EXCEPT ![e] = to] /\ UNCHANGED <<fds, rfd, wfd>>
           /\ to = "close" => wpc[e] = "fork"
           /\ to # "close" => wpc[e] \in {"wait", "waitpid", "reap"}
    BY <1>8 DEF Fork, FutureReady, Timeout, Reap, WaitChild, Interrupted, GotoW
  <2> QED
    BY <1>7, <2>1
<1> QED
  BY <1>1, <1>2, <1>3, <1>4, <1>5, <1>6, <1>8 DEF Next, Returned, Worker

\* What a worker has seen and returned agrees with where it stands.
LEMMA WorkerStep ==
    ASSUME IInv, [Next]_vars, NEW o \in Engines
    PROVE  WorkerInv(o)'
<1>0. TypeOK /\ WorkerInv(o) /\ TesterInv(o) /\ ReaderInv(o)
  BY DEF IInv
<1> USE <1>0 DEF TypeOK, WorkerInv, Reported, Verdicts, TimedOut
<1>1. CASE UNCHANGED vars
  BY <1>1 DEF vars, worker, tester, reader
<1>2. ASSUME NEW e \in Engines, OpenPipe(e) PROVE WorkerInv(o)'
  BY <1>2 DEF OpenPipe, GotoW, tester, reader
<1>3. ASSUME NEW e \in Engines, Fork(e) PROVE WorkerInv(o)'
  BY <1>3 DEF Fork, GotoW, reader
<1>4. ASSUME NEW e \in Engines, StartReader(e) PROVE WorkerInv(o)'
  BY <1>4 DEF StartReader, GotoW, tester
<1>5. ASSUME NEW e \in Engines, FutureReady(e) PROVE WorkerInv(o)'
  BY <1>5 DEF FutureReady, GotoW, tester, reader
<1>6. ASSUME NEW e \in Engines, Timeout(e) PROVE WorkerInv(o)'
  BY <1>6 DEF Timeout, GotoW, tester, reader
<1>7. ASSUME NEW e \in Engines, Reap(e) PROVE WorkerInv(o)'
  BY <1>7 DEF Reap, GotoW, reader
<1>8. ASSUME NEW e \in Engines, WaitChild(e) PROVE WorkerInv(o)'
  BY <1>8 DEF WaitChild, GotoW, reader
<1>9. ASSUME NEW e \in Engines, Interrupted(e) PROVE WorkerInv(o)'
  <2>1. \/ wpc[e] = "reap" /\ seen' = [seen EXCEPT ![e] = "unreaped"]
        \/ wpc[e] = "waitpid" /\ seen' = [seen EXCEPT ![e] = "garbage"]
    BY <1>9 DEF Interrupted, GotoW
  <2>2. wpc' = [wpc EXCEPT ![e] = "join"] /\ UNCHANGED <<rpc, terminate, verdict>>
    BY <1>9 DEF Interrupted, GotoW, reader
  <2> QED
    BY <2>1, <2>2
<1>10. ASSUME NEW e \in Engines, Join(e) PROVE WorkerInv(o)'
  BY <1>10 DEF Join, GotoW, tester, reader
<1>11. ASSUME NEW e \in Engines, CloseScope(e) PROVE WorkerInv(o)'
  BY <1>11 DEF CloseScope, GotoW, tester, reader
<1>12. ASSUME NEW e \in Engines, LeaveAtEof(e) PROVE WorkerInv(o)'
  BY <1>12 DEF LeaveAtEof, GotoR, worker, tester
<1>13. ASSUME NEW e \in Engines, LeaveAtTerminate(e) PROVE WorkerInv(o)'
  BY <1>13, ZenonT(30) DEF LeaveAtTerminate, GotoR, worker, tester
<1>14. ASSUME NEW e \in Engines, ReadSome(e) PROVE WorkerInv(o)'
  BY <1>14, ZenonT(30) DEF ReadSome, GotoR, worker, tester
<1>15. ASSUME NEW e \in Engines, Peek(e) PROVE WorkerInv(o)'
  BY <1>15, ZenonT(30) DEF Peek, GotoR, worker, tester
<1>16. ASSUME NEW e \in Engines, Wake(e) PROVE WorkerInv(o)'
  BY <1>16 DEF Wake, GotoR, worker, tester
<1>17. ASSUME NEW e \in Engines, SeeEof(e) PROVE WorkerInv(o)'
  BY <1>17 DEF SeeEof, GotoR, worker, tester
<1>18. ASSUME NEW e \in Engines, Write(e) PROVE WorkerInv(o)'
  BY <1>18 DEF Write, Dies, worker, reader
<1>19. ASSUME NEW e \in Engines, Finish(e) PROVE WorkerInv(o)'
  BY <1>19 DEF Finish, worker, reader
<1>20. ASSUME NEW e \in Engines, Exit(e) PROVE WorkerInv(o)'
  BY <1>20 DEF Exit, Dies, worker, reader
<1>21. ASSUME NEW e \in Engines, Fail(e) PROVE WorkerInv(o)'
  BY <1>21 DEF Fail, worker, reader
<1>22. ASSUME NEW e \in Engines, Crash(e) \/ SigKill(e) PROVE WorkerInv(o)'
  BY <1>22 DEF SigKill, Crash, Alive, Dies, worker, reader
<1> QED
  BY <1>1, <1>2, <1>3, <1>4, <1>5, <1>6, <1>7, <1>8, <1>9, <1>10, <1>11, <1>12, <1>13,
     <1>14, <1>15, <1>16, <1>17, <1>18, <1>19, <1>20, <1>21, <1>22 DEF Next, Returned, Worker,
     Reader, Tester

\* A tester is started once, and reaped before its worker returns.
LEMMA TesterStep ==
    ASSUME IInv, [Next]_vars, NEW o \in Engines
    PROVE  TesterInv(o)'
<1>0. TypeOK /\ WorkerInv(o) /\ TesterInv(o) /\ ReaderInv(o)
  BY DEF IInv
<1> USE <1>0 DEF TypeOK, TesterInv, WorkerInv, Reported, Cut
<1>1. CASE UNCHANGED vars
  BY <1>1 DEF vars, worker, tester, reader
<1>2. ASSUME NEW e \in Engines, OpenPipe(e) PROVE TesterInv(o)'
  BY <1>2 DEF OpenPipe, GotoW, tester, reader
<1>3. ASSUME NEW e \in Engines, Fork(e) PROVE TesterInv(o)'
  BY <1>3 DEF Fork, GotoW, reader
<1>4. ASSUME NEW e \in Engines, StartReader(e) PROVE TesterInv(o)'
  BY <1>4 DEF StartReader, GotoW, tester
<1>5. ASSUME NEW e \in Engines, FutureReady(e) PROVE TesterInv(o)'
  BY <1>5 DEF FutureReady, GotoW, tester, reader
<1>6. ASSUME NEW e \in Engines, Timeout(e) PROVE TesterInv(o)'
  BY <1>6 DEF Timeout, GotoW, tester, reader
<1>7. ASSUME NEW e \in Engines, Reap(e) PROVE TesterInv(o)'
  BY <1>7 DEF Reap, GotoW, reader
<1>8. ASSUME NEW e \in Engines, WaitChild(e) PROVE TesterInv(o)'
  BY <1>8 DEF WaitChild, GotoW, reader
<1>9. ASSUME NEW e \in Engines, Interrupted(e) PROVE TesterInv(o)'
  BY <1>9 DEF Interrupted, GotoW, tester, reader
<1>10. ASSUME NEW e \in Engines, Join(e) PROVE TesterInv(o)'
  BY <1>10 DEF Join, GotoW, tester, reader
<1>11. ASSUME NEW e \in Engines, CloseScope(e) PROVE TesterInv(o)'
  BY <1>11 DEF CloseScope, GotoW, tester, reader
<1>12. ASSUME NEW e \in Engines, LeaveAtEof(e) PROVE TesterInv(o)'
  BY <1>12 DEF LeaveAtEof, GotoR, worker, tester
<1>13. ASSUME NEW e \in Engines, LeaveAtTerminate(e) PROVE TesterInv(o)'
  BY <1>13 DEF LeaveAtTerminate, GotoR, worker, tester
<1>14. ASSUME NEW e \in Engines, ReadSome(e) PROVE TesterInv(o)'
  BY <1>14 DEF ReadSome, GotoR, worker, tester
<1>15. ASSUME NEW e \in Engines, Peek(e) PROVE TesterInv(o)'
  BY <1>15 DEF Peek, GotoR, worker, tester
<1>16. ASSUME NEW e \in Engines, Wake(e) PROVE TesterInv(o)'
  BY <1>16 DEF Wake, GotoR, worker, tester
<1>17. ASSUME NEW e \in Engines, SeeEof(e) PROVE TesterInv(o)'
  BY <1>17 DEF SeeEof, GotoR, worker, tester
<1>18. ASSUME NEW e \in Engines, Write(e) PROVE TesterInv(o)'
  BY <1>18 DEF Write, Dies, worker, reader
<1>19. ASSUME NEW e \in Engines, Finish(e) PROVE TesterInv(o)'
  BY <1>19 DEF Finish, worker, reader
<1>20. ASSUME NEW e \in Engines, Exit(e) PROVE TesterInv(o)'
  BY <1>20 DEF Exit, Dies, worker, reader
<1>21. ASSUME NEW e \in Engines, Fail(e) PROVE TesterInv(o)'
  BY <1>21 DEF Fail, worker, reader
<1>22. ASSUME NEW e \in Engines, Crash(e) \/ SigKill(e) PROVE TesterInv(o)'
  BY <1>22 DEF SigKill, Crash, Alive, Dies, worker, reader
<1> HIDE DEF TypeOK, WorkerInv, TesterInv, Reported, Cut
<1> QED
  BY <1>1, <1>2, <1>3, <1>4, <1>5, <1>6, <1>7, <1>8, <1>9, <1>10, <1>11, <1>12, <1>13,
     <1>14, <1>15, <1>16, <1>17, <1>18, <1>19, <1>20, <1>21, <1>22 DEF Next, Returned, Worker,
     Reader, Tester

\* Nobody who cannot write to a pipe now will be able to later: pipe() is
\* called once for it, and only its own worker hands its write end on.
LEMMA StaysUnwritable ==
    ASSUME IInv, [Next]_vars, NEW o \in Engines, wpc[o] # "pipe", ~Writable(o)
    PROVE  ~Writable(o)'
<1> USE DEF IInv, TypeOK
<1>1. /\ \A n \in Fds : fds[n] # <<o, "w">>
      /\ \A p \in Engines : <<o, "w">> \notin held[p]
  BY DEF Writable, Holds
<1>2. \A n \in Fds : fds'[n] # <<o, "w">>
  <2>1. CASE UNCHANGED fds
    BY <2>1, <1>1
  <2>2. ASSUME NEW e \in Engines, OpenPipe(e) PROVE \A n \in Fds : fds'[n] # <<o, "w">>
    <3>1. e # o
      BY <2>2 DEF OpenPipe, GotoW
    <3> QED
      BY <2>2, <3>1, <1>1, SMTT(30) DEF OpenPipe
  <2>3. ASSUME NEW e \in Engines, StartReader(e) \/ Join(e) \/ CloseScope(e)
        PROVE  \A n \in Fds : fds'[n] # <<o, "w">>
    BY <2>3, <1>1, FreeIsNoEnd DEF StartReader, Join, CloseScope, ClosePipeno
  <2> QED
    BY <2>1, <2>2, <2>3 DEF Next, Returned, vars, Worker, Reader, Tester,
       Fork, FutureReady, Timeout, Reap, WaitChild, Interrupted,
       LeaveAtEof, LeaveAtTerminate, ReadSome, Peek, Wake, SeeEof, Write, Finish, Exit, Fail, Crash, SigKill
<1>3. \A p \in Engines : <<o, "w">> \notin held'[p]
  <2>1. CASE UNCHANGED held
    BY <2>1, <1>1
  <2>2. ASSUME NEW e \in Engines, Fork(e) PROVE \A p \in Engines : <<o, "w">> \notin held'[p]
    BY <2>2, <1>1, ZenonT(30) DEF Fork
  <2>3. ASSUME NEW e \in Engines, NEW how, Dies(e, how) PROVE \A p \in Engines : <<o, "w">> \notin held'[p]
    BY <2>3, <1>1 DEF Dies
  <2>4. ASSUME NEW e \in Engines, Finish(e) \/ Fail(e) PROVE \A p \in Engines : <<o, "w">> \notin held'[p]
    <3>1. held' \in {held, [held EXCEPT ![e] = held[e] \ {<<e, "w">>}]}
      BY <2>4 DEF Finish, Fail
    <3> QED
      BY <3>1, <1>1
  <2> QED
    BY <2>1, <2>2, <2>3, <2>4, ZenonT(30) DEF Next, Returned, vars, tester, Worker, Reader, Tester,
       OpenPipe, StartReader, FutureReady, Timeout, Reap, WaitChild, Interrupted, Join,
       CloseScope, LeaveAtEof, LeaveAtTerminate, ReadSome, Peek, Wake, SeeEof,
       Write, Exit, Crash, SigKill
<1> QED
  BY <1>2, <1>3 DEF Writable, Holds

\* The units of a log are in the pipe, in the stream or read; the end of file is final.
LEMMA ReaderStep ==
    ASSUME IInv, [Next]_vars, NEW o \in Engines
    PROVE  ReaderInv(o)'
<1>0. TypeOK /\ WorkerInv(o) /\ TesterInv(o) /\ ReaderInv(o)
  BY DEF IInv
<1>e. eof[o] => ~Writable(o)'
  BY <1>0, StaysUnwritable DEF ReaderInv, WorkerInv
<1> USE <1>0, <1>e, BoundsAssumption DEF TypeOK, ReaderInv
<1>1. CASE UNCHANGED vars
  BY <1>1 DEF vars, worker, tester, reader
<1>2. ASSUME NEW e \in Engines, OpenPipe(e) PROVE ReaderInv(o)'
  BY <1>2 DEF OpenPipe, GotoW, tester, reader
<1>3. ASSUME NEW e \in Engines, Fork(e) PROVE ReaderInv(o)'
  BY <1>3 DEF Fork, GotoW, reader
<1>4. ASSUME NEW e \in Engines, StartReader(e) PROVE ReaderInv(o)'
  BY <1>4 DEF StartReader, GotoW, tester
<1>5. ASSUME NEW e \in Engines, FutureReady(e) PROVE ReaderInv(o)'
  BY <1>5 DEF FutureReady, GotoW, tester, reader
<1>6. ASSUME NEW e \in Engines, Timeout(e) PROVE ReaderInv(o)'
  BY <1>6 DEF Timeout, GotoW, tester, reader
<1>7. ASSUME NEW e \in Engines, Reap(e) PROVE ReaderInv(o)'
  BY <1>7 DEF Reap, GotoW, reader
<1>8. ASSUME NEW e \in Engines, WaitChild(e) PROVE ReaderInv(o)'
  BY <1>8 DEF WaitChild, GotoW, reader
<1>9. ASSUME NEW e \in Engines, Interrupted(e) PROVE ReaderInv(o)'
  BY <1>9 DEF Interrupted, GotoW, tester, reader
<1>10. ASSUME NEW e \in Engines, Join(e) PROVE ReaderInv(o)'
  BY <1>10 DEF Join, GotoW, tester, reader
<1>11. ASSUME NEW e \in Engines, CloseScope(e) PROVE ReaderInv(o)'
  BY <1>11 DEF CloseScope, GotoW, tester, reader
<1>12. ASSUME NEW e \in Engines, LeaveAtEof(e) PROVE ReaderInv(o)'
  BY <1>12 DEF LeaveAtEof, GotoR, worker, tester
<1>13. ASSUME NEW e \in Engines, LeaveAtTerminate(e) PROVE ReaderInv(o)'
  BY <1>13 DEF LeaveAtTerminate, GotoR, worker, tester
<1>14. ASSUME NEW e \in Engines, ReadSome(e) PROVE ReaderInv(o)'
  <2>1. PICK p \in Engines : \E n \in 0..inPipe[p] :
          /\ n > 0 => Reads(e, p)
          /\ got' = [got EXCEPT ![e] = @ + buffered[e] + n]
          /\ inPipe' = [inPipe EXCEPT ![p] = @ - n]
    BY <1>14 DEF ReadSome
  <2>2. PICK n \in 0..inPipe[p] :
          /\ n > 0 => Reads(e, p)
          /\ got' = [got EXCEPT ![e] = @ + buffered[e] + n]
          /\ inPipe' = [inPipe EXCEPT ![p] = @ - n]
    BY <2>1
  <2>3. n > 0 => p = e
    BY <1>14, <2>2, OwnPipe DEF ReadSome, GotoR
  <2>4. /\ rpc[e] = "top" /\ ~eof[e]
        /\ rpc' = [rpc EXCEPT ![e] = "top"] /\ buffered' = [buffered EXCEPT ![e] = 0]
        /\ UNCHANGED <<sent, source, marked, eof, terminate>>
    BY <1>14 DEF ReadSome, GotoR, worker, tester
  <2>5. got'[o] + buffered'[o] + inPipe'[o] = sent'[o]
    <3>1. CASE o = e
      BY <2>2, <2>3, <2>4, <3>1
    <3>2. CASE o # e
      BY <2>2, <2>3, <2>4, <3>2
    <3> QED
      BY <3>1, <3>2
  <2>6. eof[o] => inPipe'[o] = 0
    BY <2>2
  <2> QED
    BY <2>4, <2>5, <2>6
<1>15. ASSUME NEW e \in Engines, Peek(e) PROVE ReaderInv(o)'
  <2>1. /\ rpc[e] = "top" /\ ~eof[e] /\ buffered[e] = 0
        /\ rpc' \in {[rpc EXCEPT ![e] = "blocked"], [rpc EXCEPT ![e] = "bad"]}
        /\ UNCHANGED <<sent, inPipe, buffered, got, marked, eof, terminate>>
    BY <1>15 DEF Peek, GotoR, worker, tester
  <2>2. source'[o] = o
    BY <1>15, OwnPipe DEF Peek, GotoR
  <2> QED
    BY <2>1, <2>2
<1>16. ASSUME NEW e \in Engines, Wake(e) PROVE ReaderInv(o)'
  <2>0. source[e] = e /\ buffered[e] = 0
    BY <1>16 DEF IInv, Wake, GotoR
  <2>1. PICK n \in 1..inPipe[e] : /\ buffered' = [buffered EXCEPT ![e] = n]
                                 /\ inPipe' = [inPipe EXCEPT ![e] = @ - n]
    BY <1>16, <2>0 DEF Wake
  <2>2. /\ rpc[e] = "blocked" /\ rpc' = [rpc EXCEPT ![e] = "top"]
        /\ UNCHANGED <<sent, source, got, marked, eof, terminate>>
    BY <1>16 DEF Wake, GotoR, worker, tester
  <2>3. inPipe'[o] \in Nat /\ buffered'[o] \in Nat
    BY <2>1
  <2>4. got'[o] + buffered'[o] + inPipe'[o] = sent'[o]
    BY <2>1, <2>2, <2>3
  <2> QED
    BY <2>1, <2>2, <2>4
<1>17. ASSUME NEW e \in Engines, SeeEof(e) PROVE ReaderInv(o)'
  <2>1. /\ rpc[e] = "blocked" /\ source[e] = e /\ buffered[e] = 0
        /\ inPipe[e] = 0 /\ ~Writable(e)
    BY <1>17 DEF IInv, SeeEof, GotoR
  <2>2. e = o => ~Writable(o)'
    BY <2>1, <1>0, StaysUnwritable DEF WorkerInv
  <2> QED
    BY <1>17, <2>1, <2>2 DEF SeeEof, GotoR, worker, tester
<1>18. ASSUME NEW e \in Engines, Write(e) PROVE ReaderInv(o)'
  <2>1. e = o => ~eof[o]
    BY <1>18 DEF Write, Writable
  <2>2. \/ /\ sent' = [sent EXCEPT ![e] = @ + 1]
           /\ inPipe' = [inPipe EXCEPT ![e] = @ + 1]
           /\ UNCHANGED held
        \/ UNCHANGED <<sent, inPipe>> /\ held' = [held EXCEPT ![e] = {}]
    BY <1>18 DEF Write, Dies
  <2>3. UNCHANGED <<fds, rpc, source, buffered, got, marked, eof, terminate>>
    BY <1>18 DEF Write, worker, reader
  <2>4. got'[o] + buffered'[o] + inPipe'[o] = sent'[o]
    BY <2>2, <2>3
  <2>5. e # o => inPipe'[o] = inPipe[o]
    BY <2>2
  <2>6. Writable(o)' => Writable(o)
    BY <2>2, <2>3 DEF Writable, Holds
  <2> QED
    BY <2>1, <2>3, <2>4, <2>5, <2>6
<1>19. ASSUME NEW e \in Engines, Finish(e) PROVE ReaderInv(o)'
  <2>1. e = o => ~eof[o]
    BY <1>19 DEF Finish, Writable
  <2> QED
    BY <1>19, <2>1 DEF Finish, worker, reader
<1>20. ASSUME NEW e \in Engines, Exit(e) PROVE ReaderInv(o)'
  BY <1>20 DEF Exit, Dies, worker, reader
<1>21. ASSUME NEW e \in Engines, Fail(e) PROVE ReaderInv(o)'
  BY <1>21 DEF Fail, worker, reader
<1>22. ASSUME NEW e \in Engines, Crash(e) \/ SigKill(e) PROVE ReaderInv(o)'
  BY <1>22 DEF SigKill, Crash, Alive, Dies, worker, reader
<1> HIDE DEF TypeOK, ReaderInv
<1> QED
  BY <1>1, <1>2, <1>3, <1>4, <1>5, <1>6, <1>7, <1>8, <1>9, <1>10, <1>11, <1>12, <1>13,
     <1>14, <1>15, <1>16, <1>17, <1>18, <1>19, <1>20, <1>21, <1>22 DEF Next, Returned, Worker,
     Reader, Tester
-----------------------------------------------------------------------------
\* The start of a memory step satisfies the inductive invariant.
LEMMA InitIInv == Init => IInv
<1> SUFFICES ASSUME Init PROVE IInv
  OBVIOUS
<1> USE DEF Init
<1>1. TypeOK
  BY BoundsAssumption DEF TypeOK, Opened, Reply, Ends
<1>2. FdInv
  BY FreeIsNoEnd DEF FdInv, Opened
<1>3. ASSUME NEW e \in Engines PROVE WorkerInv(e) /\ TesterInv(e) /\ ReaderInv(e)
  BY DEF WorkerInv, TesterInv, ReaderInv, Reported
<1> QED
  BY <1>1, <1>2, <1>3 DEF IInv

LEMMA IInvStep == IInv /\ [Next]_vars => IInv'
<1> SUFFICES ASSUME IInv, [Next]_vars PROVE IInv'
  OBVIOUS
<1>1. TypeOK'
  BY Types
<1>2. FdInv'
  BY FdStep
<1>3. \A e \in Engines : WorkerInv(e)' /\ TesterInv(e)' /\ ReaderInv(e)'
  BY WorkerStep, TesterStep, ReaderStep
<1> QED
  BY <1>1, <1>2, <1>3 DEF IInv

\* IInv holds in every state of the worker, reader and tester processes,
\* whatever the number of descriptors, the length of a log and the size of a
\* pipe.
THEOREM Inductive == Spec => []IInv
BY InitIInv, IInvStep, PTL DEF Spec

\* Every variable of a memory step keeps its type; the counters of the log stay
\* within the log and the pipe.
THEOREM TypeCorrect == Spec => []TypeOK
BY Inductive, PTL DEF IInv

\* A log that comes back from a worker without the timeout flag is the whole
\* log its tester wrote, and holds no marker.
THEOREM LogComplete == Spec => []CompleteLog
<1>1. IInv => CompleteLog
  <2> SUFFICES ASSUME IInv, NEW e \in Engines, wpc[e] \in Reported, ~verdict[e].timeout
               PROVE  got[e] = sent[e] /\ ~marked[e]
    BY DEF CompleteLog
  <2>1. rpc[e] = "done" /\ verdict[e] \in Verdicts(e)
    BY DEF IInv, WorkerInv
  <2>2. ~TimedOut(e)
    BY <2>1 DEF Verdicts, TimedOut
  <2>3. ~terminate[e]
    BY <2>2 DEF IInv, WorkerInv, Reported
  <2>4. eof[e] /\ ~marked[e]
    BY <2>1, <2>3 DEF IInv, ReaderInv
  <2> QED
    BY <2>4 DEF IInv, ReaderInv, TypeOK
<1> QED
  BY <1>1, Inductive, PTL

\* A worker whose waitpid was not cut short, in either branch, has reaped its
\* tester when it returns.
THEOREM TesterReaped == Spec => []Reaped
<1>1. IInv => Reaped
  BY DEF IInv, TesterInv, Reaped
<1> QED
  BY <1>1, Inductive, PTL

\* kill and waitpid are only called on a tester that has not been reaped.
THEOREM KillsOwnTester == Spec => []PidIsOurs
<1>1. IInv => PidIsOurs
  BY DEF IInv, TypeOK, TesterInv, PidIsOurs
<1> QED
  BY <1>1, Inductive, PTL

\* When both workers have returned the coordinator has no pipe left open.
THEOREM NothingLeftOpen == Spec => []FdsBalanced
<1>1. IInv => FdsBalanced
  BY DEF IInv, TypeOK, FdInv, FdsBalanced, Opened, Ends
<1> QED
  BY <1>1, Inductive, PTL

\* After the end of file its tester writes no more.
THEOREM EofIsFinal == Spec => EofStable
<1>1. IInv /\ [Next]_vars => [\A e \in Engines : eof[e] => sent'[e] = sent[e]]_vars
  <2> SUFFICES ASSUME IInv, Next, NEW e \in Engines, eof[e] PROVE sent'[e] = sent[e]
    OBVIOUS
  <2>1. ~Holds(e, e)
    BY DEF IInv, ReaderInv, Writable
  <2>2. ASSUME NEW o \in Engines, Write(o) \/ Finish(o) PROVE sent'[e] = sent[e]
    BY <2>1, <2>2 DEF Write, Finish, IInv, TypeOK
  <2>3. CASE UNCHANGED sent
    BY <2>3
  <2> QED
    BY <2>2, <2>3 DEF Next, Returned, vars, tester, Worker, Reader, Tester, OpenPipe, Fork,
       StartReader, FutureReady, Timeout, Reap, WaitChild, Interrupted, Join, CloseScope,
       LeaveAtEof, LeaveAtTerminate, ReadSome, Peek, Wake, SeeEof, Exit, Fail, Crash, SigKill
<1> QED
  BY <1>1, Inductive, PTL DEF Spec, EofStable
-----------------------------------------------------------------------------
(***************************************************************************)
(* The workers implement TesterReport.                                     *)
(***************************************************************************)
\* The worker's report is made at its join, and is not touched afterwards.
LEMMA ReportStep ==
    ASSUME IInv, [Next]_vars, NEW o \in Engines
    PROVE  ReportOf(o)' = ReportOf(o) \/ Join(o)
<1>0. TypeOK /\ WorkerInv(o)
  BY DEF IInv
<1> USE <1>0 DEF TypeOK
<1>1. CASE UNCHANGED <<wpc, verdict, got>>
  BY <1>1 DEF ReportOf
<1>2. ASSUME NEW e \in Engines, Worker(e) \/ Interrupted(e), ~Join(e) PROVE ReportOf(o)' = ReportOf(o)
  <2>1. UNCHANGED <<verdict, got>>
    BY <1>2 DEF Worker, OpenPipe, Fork, StartReader, FutureReady, Timeout, Reap, WaitChild,
       Interrupted, CloseScope, reader
  <2>2. wpc'[o] \in Reported <=> wpc[o] \in Reported
    BY <1>2 DEF Worker, OpenPipe, Fork, StartReader, FutureReady, Timeout, Reap, WaitChild,
       Interrupted, CloseScope, GotoW, Reported
  <2> QED
    BY <2>1, <2>2 DEF ReportOf
<1>3. ASSUME NEW e \in Engines, Join(e), e # o PROVE ReportOf(o)' = ReportOf(o)
  BY <1>3 DEF Join, GotoW, ReportOf, reader
<1>4. ASSUME NEW e \in Engines, ReadSome(e) PROVE ReportOf(o)' = ReportOf(o)
  <2>1. wpc[e] \notin Reported
    BY <1>4 DEF IInv, WorkerInv, ReadSome, GotoR
  <2>2. UNCHANGED <<wpc, verdict>> /\ (e # o => got'[o] = got[o])
    BY <1>4 DEF ReadSome, worker
  <2> QED
    BY <2>1, <2>2 DEF ReportOf
<1>5. ASSUME NEW e \in Engines, (Reader(e) /\ ~ReadSome(e)) \/ Tester(e) PROVE UNCHANGED <<wpc, verdict, got>>
  BY <1>5 DEF Reader, Tester, LeaveAtEof, LeaveAtTerminate, Peek, Wake, SeeEof,
     Write, Finish, Exit, Fail, Crash, SigKill, worker, reader
<1> HIDE DEF TypeOK
<1> QED
  BY <1>1, <1>2, <1>3, <1>4, <1>5 DEF Next, Returned, vars, worker, reader

\* A step of the output: some tester that is not sealed writes at most one unit,
\* and no tester that is sealed is ever unsealed.
LEMMA OutputStep ==
    ASSUME IInv, [Next]_vars
    PROVE  \/ UNCHANGED sent /\ \A o \in Engines : Sealed(o)' <=> Sealed(o)
           \/ \E e \in Engines : /\ ~Sealed(e)
                               /\ sent' \in {sent, [sent EXCEPT ![e] = @ + 1]}
                               /\ \A o \in Engines \ {e} : Sealed(o)' <=> Sealed(o)
<1> DEFINE Goal == \/ UNCHANGED sent /\ \A o \in Engines : Sealed(o)' <=> Sealed(o)
                   \/ \E e \in Engines : /\ ~Sealed(e)
                                       /\ sent' \in {sent, [sent EXCEPT ![e] = @ + 1]}
                                       /\ \A o \in Engines \ {e} : Sealed(o)' <=> Sealed(o)
<1> SUFFICES Goal
  OBVIOUS
<1>0. TypeOK /\ \A e \in Engines : TesterInv(e)
  BY DEF IInv
<1> USE <1>0
<1>1. CASE UNCHANGED <<child, held, sent>>
  BY <1>1 DEF Sealed, Holds
<1>2. ASSUME NEW e \in Engines, NEW c, NEW h,
             child' = [child EXCEPT ![e] = c], held' = [held EXCEPT ![e] = h],
             sent' \in {sent, [sent EXCEPT ![e] = @ + 1]},
             Sealed(e) => sent' = sent /\ c # "none" /\ <<e, "w">> \notin h
      PROVE  Goal
  <2>1. \A o \in Engines \ {e} : Sealed(o)' <=> Sealed(o)
    BY <1>2 DEF Sealed, Holds, TypeOK
  <2>2. Sealed(e) => Sealed(e)'
    BY <1>2 DEF Sealed, Holds, TypeOK
  <2>3. CASE Sealed(e)
    BY <1>2, <2>1, <2>2, <2>3
  <2>4. CASE ~Sealed(e)
    BY <1>2, <2>1, <2>4
  <2> QED
    BY <2>3, <2>4
<1>3. ASSUME NEW e \in Engines, Fork(e) PROVE Goal
  <2>1. ~Sealed(e)
    BY <1>3 DEF Fork, GotoW, Sealed, TesterInv
  <2>2. /\ child' = [child EXCEPT ![e] = "running"] /\ UNCHANGED sent
        /\ held' = [held EXCEPT ![e] = {fds[n] : n \in Fds \ {rfd[e]}} \ {Free}]
    BY <1>3 DEF Fork
  <2> QED
    BY <1>2, <2>1, <2>2
<1>4. ASSUME NEW e \in Engines, NEW how, Dies(e, how), UNCHANGED sent PROVE Goal
  <2>1. /\ child' = [child EXCEPT ![e] = "zombie"] /\ held' = [held EXCEPT ![e] = {}]
    BY <1>4 DEF Dies
  <2> QED
    BY <1>2, <1>4, <2>1
<1>5. ASSUME NEW e \in Engines, Write(e), UNCHANGED <<held, child>> PROVE Goal
  <2>1. ~Sealed(e) /\ sent' \in {sent, [sent EXCEPT ![e] = @ + 1]}
    BY <1>5 DEF Write, Sealed
  <2> QED
    BY <1>5, <2>1 DEF Sealed, Holds
<1>6. ASSUME NEW e \in Engines, Finish(e) PROVE Goal
  <2>1. ~Sealed(e) /\ sent' = [sent EXCEPT ![e] = @ + 1]
    BY <1>6 DEF Finish, Sealed
  <2>2. /\ child' = [child EXCEPT ![e] = "closing"]
        /\ held' = [held EXCEPT ![e] = held[e] \ {<<e, "w">>}]
    BY <1>6 DEF Finish
  <2> QED
    BY <1>2, <2>1, <2>2
<1>7. ASSUME NEW e \in Engines, Reap(e) \/ WaitChild(e) PROVE Goal
  <2>1. /\ child[e] = "zombie" /\ child' = [child EXCEPT ![e] = "gone"] /\ UNCHANGED <<held, sent>>
    BY <1>7 DEF Reap, WaitChild
  <2> QED
    BY <2>1 DEF Sealed, Holds, TypeOK
<1>8. ASSUME NEW e \in Engines, Fail(e) PROVE Goal
  <2>1. /\ child' = [child EXCEPT ![e] = "closing"] /\ UNCHANGED sent
        /\ child[e] = "running"
    BY <1>8 DEF Fail
  <2>2. PICK h \in {held[e], held[e] \ {<<e, "w">>}} : held' = [held EXCEPT ![e] = h]
    BY <1>8 DEF Fail, TypeOK
  <2>3. Sealed(e) => <<e, "w">> \notin h
    BY <2>2 DEF Sealed, Holds
  <2> QED
    BY <1>2, <2>1, <2>2, <2>3
<1>9. ASSUME NEW e \in Engines, Write(e), Dies(e, "signal"), UNCHANGED sent PROVE Goal
  BY <1>4, <1>9
<1>10. ASSUME NEW e \in Engines, Exit(e) \/ Crash(e) \/ SigKill(e) PROVE Goal
  BY <1>4, <1>10 DEF Exit, Crash, SigKill
<1>11. ASSUME NEW e \in Engines, Write(e) PROVE Goal
  BY <1>5, <1>9, <1>11 DEF Write
<1>12. ASSUME NEW e \in Engines,
              \/ OpenPipe(e) \/ StartReader(e) \/ FutureReady(e) \/ Timeout(e) \/ Interrupted(e)
              \/ Join(e) \/ CloseScope(e) \/ Reader(e)
       PROVE  UNCHANGED <<child, held, sent>>
  BY <1>12 DEF tester, Reader, OpenPipe, StartReader, FutureReady, Timeout, Interrupted, Join,
     CloseScope, LeaveAtEof, LeaveAtTerminate, ReadSome, Peek, Wake, SeeEof
<1> QED
  <2> HIDE DEF Goal
  <2>1. ASSUME NEW e \in Engines, Worker(e) \/ Interrupted(e) PROVE Goal
    BY <2>1, <1>1, <1>3, <1>7, <1>12 DEF Worker
  <2>2. ASSUME NEW e \in Engines, Reader(e) PROVE Goal
    BY <2>2, <1>1, <1>12
  <2>3. ASSUME NEW e \in Engines, Tester(e) PROVE Goal
    BY <2>3, <1>6, <1>8, <1>10, <1>11 DEF Tester
  <2>4. CASE UNCHANGED vars
    BY <2>4, <1>1 DEF vars, tester
  <2> QED
    BY <2>1, <2>2, <2>3, <2>4 DEF Next, Returned

\* A join reports what the abstract specification allows.
LEMMA JoinReports ==
    ASSUME IInv, NEW o \in Engines, Join(o)
    PROVE  /\ UNCHANGED <<sent, child, held>>
           /\ ~ReportOf(o).made
           /\ ReportOf(o)'.made
           /\ ReportOf(o)'.length \in 0..sent[o]
           /\ ReportOf(o)'.timeout \in BOOLEAN /\ ReportOf(o)'.success \in BOOLEAN
           /\ ReportOf(o)'.timeout => ~ReportOf(o)'.success
           /\ ~ReportOf(o)'.timeout => Sealed(o) /\ ReportOf(o)'.length = sent[o]
<1>1. TypeOK /\ WorkerInv(o) /\ TesterInv(o) /\ ReaderInv(o)
  BY DEF IInv
<1>2. /\ wpc[o] = "join" /\ wpc'[o] = "closescope" /\ rpc[o] = "done"
      /\ verdict'[o] \in Verdicts(o) /\ UNCHANGED <<got, sent, child, held>>
  BY <1>1 DEF TypeOK, Join, GotoW, tester, reader
<1>3. /\ verdict'[o].timeout \in BOOLEAN /\ verdict'[o].success \in BOOLEAN
      /\ verdict'[o].timeout => TimedOut(o) /\ ~verdict'[o].success
      /\ TimedOut(o) => verdict'[o].timeout
  <2>1. TimedOut(o) \/ seen[o] \in {"none", "exit0", "exit1", "signal", "garbage"}
    BY <1>1 DEF TypeOK, TimedOut
  <2>2. CASE TimedOut(o)
    <3>1. verdict'[o] = [success |-> FALSE, timeout |-> TRUE]
      BY <1>2, <2>2 DEF Verdicts, TimedOut
    <3> QED
      BY <2>2, <3>1
  <2>3. CASE seen[o] \in {"exit0", "exit1"}
    <3>1. \E s \in BOOLEAN : verdict'[o] = [success |-> s, timeout |-> FALSE]
      BY <1>2, <2>3 DEF Verdicts, TimedOut
    <3> QED
      BY <2>3, <3>1 DEF TimedOut
  <2>4. CASE seen[o] \in {"none", "signal", "garbage"}
    <3>1. verdict'[o] \in [success : BOOLEAN, timeout : {FALSE}]
      BY <1>2, <2>4 DEF Verdicts, TimedOut
    <3>2. verdict'[o].success \in BOOLEAN /\ verdict'[o].timeout \in {FALSE}
      BY ONLY <3>1
    <3> QED
      BY <2>4, <3>2 DEF TimedOut
  <2> QED
    BY <2>1, <2>2, <2>3, <2>4
<1>4. /\ ~ReportOf(o).made /\ ReportOf(o)'.made
      /\ ReportOf(o)'.length = got[o]
      /\ ReportOf(o)'.timeout = verdict'[o].timeout /\ ReportOf(o)'.success = verdict'[o].success
  BY <1>2 DEF ReportOf, Reported
<1>5. got[o] \in 0..sent[o]
  BY <1>1 DEF TypeOK, ReaderInv
<1>6. ASSUME ~verdict'[o].timeout PROVE Sealed(o) /\ got[o] = sent[o]
  <2>1. ~marked[o] /\ eof[o]
    BY <1>1, <1>2, <1>3, <1>6 DEF WorkerInv, ReaderInv
  <2>2. got[o] = sent[o]
    BY <1>1, <2>1 DEF TypeOK, ReaderInv
  <2>3. Sealed(o)
    BY <1>1, <1>2, <2>1 DEF TesterInv, ReaderInv, Writable, Sealed
  <2> QED
    BY <2>2, <2>3
<1> QED
  BY <1>2, <1>3, <1>4, <1>5, <1>6

\* The workers implement TesterReport: a log is sealed before it is reported
\* whole, a timeout reports a prefix and no success, and a report is made once.
THEOREM PromiseKept == Spec => KeepsPromise
<1>1. Init => Promise!Init
  <2> SUFFICES ASSUME Init PROVE Promise!Init
    OBVIOUS
  <2>1. ASSUME NEW e \in Engines
        PROVE  /\ Sealed(e) = FALSE
               /\ ReportOf(e) = [made |-> FALSE, success |-> FALSE, timeout |-> FALSE, length |-> 0]
    <3>1. ~Sealed(e) /\ wpc[e] \notin Reported
      BY DEF Init, Sealed, Reported
    <3>2. Sealed(e) = FALSE
      BY <3>1 DEF Sealed
    <3>3. (wpc[e] \in Reported) = FALSE
      BY <3>1
    <3>4. verdict[e].success = FALSE /\ verdict[e].timeout = FALSE
      BY DEF Init
    <3> QED
      BY <3>1, <3>2, <3>3, <3>4 DEF ReportOf
  <2> QED
    BY <2>1 DEF Init, Promise!Init
<1>2. IInv /\ [Next]_vars => [UNCHANGED Promise!vars \/ Promise!Next]_(Promise!vars)
  <2> SUFFICES ASSUME IInv, [Next]_vars PROVE Promise!Next \/ UNCHANGED Promise!vars
    OBVIOUS
  <2> DEFINE report == [e \in Engines |-> ReportOf(e)]
             sealed == [e \in Engines |-> Sealed(e)]
  <2>0. \A e \in Engines : Sealed(e) \in BOOLEAN /\ Sealed(e)' \in BOOLEAN
    BY DEF Sealed
  <2>1. ASSUME NEW o \in Engines, Join(o) PROVE Promise!Report(o)
    <3>1. UNCHANGED <<sent, sealed>>
      BY <2>1, JoinReports DEF Sealed, Holds
    <3>2. ASSUME NEW e \in Engines, e # o PROVE ReportOf(e)' = ReportOf(e)
      BY <2>1, <3>2 DEF Join, GotoW, ReportOf, reader
    <3>3. ReportOf(o)' = [made |-> TRUE, success |-> ReportOf(o)'.success,
                          timeout |-> ReportOf(o)'.timeout, length |-> ReportOf(o)'.length]
      BY <2>1, JoinReports DEF ReportOf
    <3>4. report' = [report EXCEPT ![o] = ReportOf(o)']
      BY <3>2
    <3>5. ~report[o].made
      BY <2>1, JoinReports
    <3>6. CASE ReportOf(o)'.timeout
      <4>1. ReportOf(o)'.timeout = TRUE /\ ReportOf(o)'.success = FALSE /\ ReportOf(o)'.length \in 0..sent[o]
        BY <2>1, <3>6, JoinReports
      <4>2. Promise!Made(o, FALSE, TRUE, ReportOf(o)'.length)
        BY <3>3, <3>4, <4>1 DEF Promise!Made
      <4> QED
        BY <3>1, <3>5, <4>1, <4>2 DEF Promise!Report
    <3>7. CASE ~ReportOf(o)'.timeout
      <4>1. /\ ReportOf(o)'.timeout = FALSE /\ ReportOf(o)'.success \in BOOLEAN
            /\ ReportOf(o)'.length = sent[o] /\ sealed[o]
        BY <2>1, <3>7, JoinReports
      <4>2. Promise!Made(o, ReportOf(o)'.success, FALSE, sent[o])
        BY <3>3, <3>4, <4>1 DEF Promise!Made
      <4> QED
        BY <3>1, <3>5, <4>1, <4>2 DEF Promise!Report
    <3> QED
      BY <3>6, <3>7
  <2>2. CASE \A o \in Engines : ~Join(o)
    <3>1. report' = report
      BY <2>2, ReportStep
    <3>2. CASE UNCHANGED sent /\ \A o \in Engines : Sealed(o)' <=> Sealed(o)
      <4>1. sealed' = sealed
        BY <2>0, <3>2
      <4> QED
        BY <3>1, <3>2, <4>1 DEF Promise!vars
    <3>3. ASSUME NEW e \in Engines, ~Sealed(e), sent' \in {sent, [sent EXCEPT ![e] = @ + 1]},
                 \A o \in Engines \ {e} : Sealed(o)' <=> Sealed(o)
          PROVE  Promise!Produce(e)
      <4>1. sealed' = [sealed EXCEPT ![e] = Sealed(e)'] /\ ~sealed[e]
        BY <2>0, <3>3
      <4>2. sent' = [sent EXCEPT ![e] = sent'[e]] /\ sent'[e] \in {sent[e], sent[e] + 1}
        BY <3>3 DEF IInv, TypeOK
      <4>3. sent'[e] \in 0..(Units + 1)
        BY Types DEF TypeOK
      <4> QED
        BY <2>0, <3>1, <4>1, <4>2, <4>3 DEF Promise!Produce
    <3> QED
      BY <3>2, <3>3, OutputStep DEF Promise!Next
  <2> QED
    BY <2>1, <2>2 DEF Promise!Next
<1> QED
  BY <1>1, <1>2, Inductive, PTL DEF Spec, KeepsPromise
-----------------------------------------------------------------------------
(***************************************************************************)
(* What a worker waits for.                                                *)
(***************************************************************************)
\* The first pipe of a memory step takes the lowest number, and the read end
\* of the second may take it again while the first worker is between its two
\* closes: the second close hits a read end, never the write end that the
\* tester of the second is about to inherit.
Connected(e) ==
    /\ wpc[e] # "pipe" => \A s \in Engines : wpc[s] = "pipe" => \A n \in Fds : rfd[e] <= n
    /\ wpc[e] \in {"fork", "close"} =>
          /\ fds[wfd[e]] = <<e, "w">>
          /\ \A s \in Engines : wpc[s] = "closescope" => rfd[s] # wfd[e]

\* What the life of the tester tells of its descriptors and of its worker.
LifeInv(e) ==
    /\ child[e] = "running" => Holds(e, e) /\ (wpc[e] \in {"close", "wait"} \/ Killed(e))
    /\ child[e] \in {"none", "zombie", "gone"} => held[e] = {}
    /\ wpc[e] = "waitpid" => child[e] \in {"closing", "zombie"}
    /\ wpc[e] = "reap" => terminate[e]
    /\ wpc[e] = "join" /\ rpc[e] # "done" => terminate[e]

WaitInv == IInv /\ \A e \in Engines : Connected(e) /\ LifeInv(e)

\* When a worker opens its pipe and its sibling has none yet, no descriptor of
\* the table is taken.
LEMMA FirstPipe ==
    ASSUME IInv, NEW e \in Engines, NEW s \in Engines, e # s, wpc[e] = "pipe", wpc[s] = "pipe"
    PROVE  \A n \in Fds : fds[n] = Free
<1> SUFFICES ASSUME NEW n \in Fds, fds[n] # Free PROVE FALSE
  OBVIOUS
<1>1. PICK o \in Engines : fds[n] = <<o, "r">> \/ fds[n] = <<o, "w">>
  BY DEF IInv, TypeOK, Ends
<1>2. wpc[o] # "pipe"
  BY <1>1 DEF IInv, FdInv, Opened
<1>3. o = e \/ o = s
  BY EnginesAssumption
<1> QED
  BY <1>2, <1>3

LEMMA ConnectedStep ==
    ASSUME WaitInv, [Next]_vars, NEW o \in Engines
    PROVE  Connected(o)'
<1>0. TypeOK /\ FdInv /\ Connected(o)
  BY DEF WaitInv, IInv
<1>1. CASE UNCHANGED <<wpc, fds, rfd, wfd>>
  BY <1>0, <1>1 DEF Connected
<1>2. ASSUME NEW e \in Engines, OpenPipe(e) PROVE Connected(o)'
  <2>1. PICK r \in Fds, w \in Fds :
          /\ LowestFree(r, {}) /\ LowestFree(w, {r})
          /\ fds' = [fds EXCEPT ![r] = <<e, "r">>, ![w] = <<e, "w">>]
          /\ rfd' = [rfd EXCEPT ![e] = r] /\ wfd' = [wfd EXCEPT ![e] = w]
    BY <1>2 DEF OpenPipe
  <2>2. wpc[e] = "pipe" /\ wpc' = [wpc EXCEPT ![e] = "fork"]
    BY <1>2 DEF OpenPipe, GotoW
  <2>3. r # w /\ fds[r] = Free /\ fds[w] = Free
    BY <2>1 DEF LowestFree
  <2>6. \A n \in Fds : fds[n] = Free => r <= n
    <3>1. \A n \in Fds : n < r => fds[n] # Free
      BY <2>1 DEF LowestFree
    <3> QED
      BY <3>1, FdsAssumption
  <2>4. CASE o = e
    <3>1. ASSUME NEW s \in Engines, wpc'[s] = "pipe", NEW n \in Fds PROVE r <= n
      <4>1. s # e /\ wpc[s] = "pipe"
        BY <1>0, <2>2, <3>1 DEF TypeOK
      <4>2. fds[n] = Free
        BY <2>2, <4>1, FirstPipe DEF WaitInv
      <4> QED
        BY <2>6, <4>2
    <3>2. ASSUME NEW s \in Engines, wpc'[s] = "closescope" PROVE rfd'[s] # w
      <4>1. s # e /\ wpc[s] = "closescope" /\ rfd'[s] = rfd[s] /\ rfd[s] \in Fds
        BY <1>0, <2>1, <2>2, <3>2 DEF TypeOK, FdInv
      <4>2. rfd[s] <= r
        BY <2>2, <4>1 DEF WaitInv, Connected
      <4>3. fds[rfd[s]] = Free
        <5>1. SUFFICES ASSUME fds[rfd[s]] # Free PROVE FALSE
          OBVIOUS
        <5>2. PICK n \in Fds : n = rfd[s]
          BY <4>1
        <5>3. fds[n] \in Ends
          BY <1>0, <5>1, <5>2 DEF TypeOK
        <5>4. PICK x \in Engines : fds[n] = <<x, "r">> \/ fds[n] = <<x, "w">>
          BY <5>3 DEF Ends
        <5>5. x = e \/ x = s
          BY <4>1, EnginesAssumption
        <5> QED
          BY <1>0, <2>2, <4>1, <5>4, <5>5 DEF FdInv, Opened
      <4>4. r <= rfd[s]
        BY <2>6, <4>1, <4>3
      <4> QED
        BY <2>3, <4>1, <4>2, <4>4, FdsAssumption
    <3>3. rfd'[e] = r /\ wfd'[e] = w /\ fds'[w] = <<e, "w">>
      BY <1>0, <2>1, <2>3 DEF TypeOK
    <3> QED
      BY <2>4, <3>1, <3>2, <3>3 DEF Connected
  <2>5. CASE o # e
    <3>1. wpc'[o] = wpc[o] /\ rfd'[o] = rfd[o] /\ wfd'[o] = wfd[o]
      BY <1>0, <2>1, <2>2, <2>5 DEF TypeOK
    <3>2. \A s \in Engines : /\ wpc'[s] = "pipe" => wpc[s] = "pipe"
                             /\ wpc'[s] = "closescope" => wpc[s] = "closescope" /\ rfd'[s] = rfd[s]
      BY <1>0, <2>1, <2>2 DEF TypeOK
    <3>3. wpc[o] \in {"fork", "close"} => fds'[wfd[o]] = fds[wfd[o]]
      BY <1>0, <2>1, <2>3, FreeIsNoEnd DEF TypeOK, FdInv, Connected
    <3> QED
      BY <1>0, <3>1, <3>2, <3>3 DEF Connected
  <2> QED
    BY <2>4, <2>5
<1>3. ASSUME NEW e \in Engines, StartReader(e) PROVE Connected(o)'
  <2>1. /\ wpc[e] = "close" /\ wpc' = [wpc EXCEPT ![e] = "wait"]
        /\ fds' = [fds EXCEPT ![wfd[e]] = Free] /\ UNCHANGED <<rfd, wfd>>
    BY <1>3 DEF StartReader, GotoW
  <2>2. wpc[o] \in {"fork", "close"} /\ o # e => wfd[o] # wfd[e]
    BY <1>0, <2>1 DEF WaitInv, Connected
  <2>3. wpc'[o] \in {"fork", "close"} => o # e
    BY <1>0, <2>1 DEF TypeOK
  <2> QED
    BY <1>0, <2>1, <2>2, <2>3, SMTT(30) DEF Connected, TypeOK
<1>4. ASSUME NEW e \in Engines, Join(e) PROVE Connected(o)'
  <2>1. /\ wpc[e] = "join" /\ wpc' = [wpc EXCEPT ![e] = "closescope"]
        /\ fds' = [fds EXCEPT ![rfd[e]] = Free] /\ UNCHANGED <<rfd, wfd>>
    BY <1>4 DEF Join, ClosePipeno, GotoW
  <2>2. wpc[o] \in {"fork", "close"} => rfd[e] # wfd[o]
    <3>1. SUFFICES ASSUME wpc[o] \in {"fork", "close"} PROVE rfd[e] # wfd[o]
      OBVIOUS
    <3>2. SlotOk(e, rfd[e], "r") /\ o # e /\ wpc[o] # "done"
      BY <1>0, <2>1, <3>1 DEF FdInv, Opened
    <3>3. fds[rfd[e]] = <<e, "r">> /\ fds[wfd[o]] = <<o, "w">>
      BY <1>0, <3>1, <3>2 DEF SlotOk, Connected
    <3> QED
      BY <3>3
  <2>3. wpc'[o] \in {"fork", "close"} => wpc[o] \in {"fork", "close"}
    BY <1>0, <2>1 DEF TypeOK
  <2>4. wpc'[o] # "pipe" => wpc[o] # "pipe"
    BY <1>0, <2>1 DEF TypeOK
  <2> QED
    BY <1>0, <2>1, <2>2, <2>3, <2>4, SMTT(30) DEF Connected, TypeOK
<1>5. ASSUME NEW e \in Engines, CloseScope(e) PROVE Connected(o)'
  <2>1. /\ wpc[e] = "closescope" /\ wpc' = [wpc EXCEPT ![e] = "done"]
        /\ fds' = [fds EXCEPT ![rfd[e]] = Free] /\ UNCHANGED <<rfd, wfd>>
    BY <1>5 DEF CloseScope, ClosePipeno, GotoW
  <2> QED
    BY <1>0, <2>1, SMTT(30) DEF Connected, TypeOK
<1>6. ASSUME NEW e \in Engines, NEW to, UNCHANGED <<fds, rfd, wfd>>, wpc[e] # "pipe",
             wpc' = [wpc EXCEPT ![e] = to], to \notin {"pipe", "closescope"},
             to \in {"fork", "close"} => wpc[e] \in {"fork", "close"}
      PROVE  Connected(o)'
  BY <1>0, <1>6, SMTT(30) DEF Connected, TypeOK
<1>7. ASSUME NEW e \in Engines,
             \/ Fork(e) \/ FutureReady(e) \/ Timeout(e) \/ Reap(e)
             \/ WaitChild(e) \/ Interrupted(e)
      PROVE  Connected(o)'
  <2>1. UNCHANGED <<fds, rfd, wfd>> /\ wpc[e] # "pipe"
    BY <1>7 DEF Fork, FutureReady, Timeout, Reap, WaitChild, Interrupted, GotoW
  <2>2. \E to : /\ wpc' = [wpc EXCEPT ![e] = to] /\ to \notin {"pipe", "closescope"}
                /\ to \in {"fork", "close"} => wpc[e] \in {"fork", "close"}
    BY <1>7 DEF Fork, FutureReady, Timeout, Reap, WaitChild, Interrupted, GotoW
  <2> QED
    BY <1>6, <2>1, <2>2
<1>8. ASSUME NEW e \in Engines, Reader(e) \/ Tester(e) PROVE UNCHANGED <<wpc, fds, rfd, wfd>>
  BY <1>8 DEF Reader, Tester, LeaveAtEof, LeaveAtTerminate, ReadSome, Peek, Wake, SeeEof,
     Write, Finish, Exit, Fail, Crash, SigKill, worker
<1>9. UNCHANGED vars => UNCHANGED <<wpc, fds, rfd, wfd>>
  BY DEF vars, worker
<1> QED
  BY <1>1, <1>2, <1>3, <1>4, <1>5, <1>7, <1>8, <1>9 DEF Next, Returned, Worker

\* A tester that still runs when the end of its pipe has been seen does not
\* write: it is in the teardown of its engine.
LEMMA DoneIsClosing ==
    ASSUME WaitInv, NEW e \in Engines, rpc[e] = "done", ~terminate[e]
    PROVE  child[e] # "running"
<1>1. eof[e]
  BY DEF WaitInv, IInv, ReaderInv
<1> QED
  BY <1>1 DEF WaitInv, IInv, ReaderInv, LifeInv, Writable

LEMMA LifeStep ==
    ASSUME WaitInv, [Next]_vars, NEW o \in Engines
    PROVE  LifeInv(o)'
<1>0. TypeOK /\ FdInv /\ LifeInv(o) /\ WorkerInv(o) /\ TesterInv(o)
  BY DEF WaitInv, IInv
<1> USE <1>0 DEF TypeOK, LifeInv, Holds, Killed, TimedOut
<1>1. CASE UNCHANGED vars
  BY <1>1 DEF vars, worker, tester, reader
<1>2. ASSUME NEW e \in Engines, OpenPipe(e) PROVE LifeInv(o)'
  BY <1>2 DEF OpenPipe, GotoW, tester, reader
<1>3. ASSUME NEW e \in Engines, Fork(e) PROVE LifeInv(o)'
  <2>1. /\ wpc[e] = "fork" /\ wpc' = [wpc EXCEPT ![e] = "close"]
        /\ child' = [child EXCEPT ![e] = "running"]
        /\ held' = [held EXCEPT ![e] = {fds[n] : n \in Fds \ {rfd[e]}} \ {Free}]
        /\ UNCHANGED <<rpc, seen, terminate>>
    BY <1>3 DEF Fork, GotoW, reader
  <2>2. wfd[e] \in Fds /\ fds[wfd[e]] = <<e, "w">> /\ SlotOk(e, rfd[e], "r")
    BY <2>1 DEF WaitInv, Connected, FdInv, Opened
  <2>3. wfd[e] # rfd[e]
    BY <2>2, FreeIsNoEnd DEF SlotOk
  <2>4. <<e, "w">> \in {fds[n] : n \in Fds \ {rfd[e]}} \ {Free}
    BY <2>2, <2>3, FreeIsNoEnd
  <2>5. <<e, "w">> \in held'[e]
    BY <2>1, <2>4
  <2> QED
    BY <2>1, <2>5
<1>4. ASSUME NEW e \in Engines, StartReader(e) PROVE LifeInv(o)'
  BY <1>4 DEF StartReader, GotoW, tester
<1>5. ASSUME NEW e \in Engines, FutureReady(e) PROVE LifeInv(o)'
  <2>1. e = o => child[o] \in {"closing", "zombie"}
    <3>1. SUFFICES ASSUME e = o PROVE child[o] \in {"closing", "zombie"}
      OBVIOUS
    <3>2. wpc[o] = "wait" /\ rpc[o] = "done"
      BY <1>5, <3>1 DEF FutureReady, GotoW
    <3>3. ~terminate[o]
      BY <3>2 DEF WorkerInv
    <3> QED
      BY <3>2, <3>3, DoneIsClosing DEF TesterInv
  <2> QED
    BY <1>5, <2>1 DEF FutureReady, GotoW, tester, reader
<1>6. ASSUME NEW e \in Engines, Timeout(e) PROVE LifeInv(o)'
  BY <1>6 DEF Timeout, GotoW, tester, reader
<1>7. ASSUME NEW e \in Engines, Reap(e) PROVE LifeInv(o)'
  BY <1>7 DEF Reap, GotoW, reader
<1>8. ASSUME NEW e \in Engines, WaitChild(e) PROVE LifeInv(o)'
  BY <1>8 DEF WaitChild, GotoW, WorkerInv, reader
<1>9. ASSUME NEW e \in Engines, Interrupted(e) PROVE LifeInv(o)'
  BY <1>9 DEF Interrupted, GotoW, WorkerInv, tester, reader
<1>10. ASSUME NEW e \in Engines, Join(e) PROVE LifeInv(o)'
  BY <1>10 DEF Join, GotoW, tester, reader
<1>11. ASSUME NEW e \in Engines, CloseScope(e) PROVE LifeInv(o)'
  BY <1>11 DEF CloseScope, GotoW, tester, reader
<1>12. ASSUME NEW e \in Engines, Reader(e) PROVE LifeInv(o)'
  <2>1. UNCHANGED <<wpc, seen, terminate, held, child>>
    BY <1>12 DEF Reader, LeaveAtEof, LeaveAtTerminate, ReadSome, Peek, Wake, SeeEof, worker, tester
  <2>2. rpc[o] = "done" => rpc'[o] = "done"
    BY <1>12, ZenonT(30) DEF Reader, LeaveAtEof, LeaveAtTerminate, ReadSome, Peek, Wake, SeeEof, GotoR
  <2> QED
    BY <2>1, <2>2
<1>13. ASSUME NEW e \in Engines, NEW how, Dies(e, how), Alive(e), UNCHANGED <<wpc, rpc, seen, terminate>>
       PROVE  LifeInv(o)'
  BY <1>13 DEF Dies, Alive
<1>14. ASSUME NEW e \in Engines, Write(e) PROVE LifeInv(o)'
  <2>1. Alive(e) /\ UNCHANGED <<wpc, rpc, seen, terminate>>
    BY <1>14 DEF Write, Alive, worker, reader
  <2>2. CASE UNCHANGED <<held, child>>
    BY <2>1, <2>2
  <2>3. CASE Dies(e, "signal")
    BY <1>13, <2>1, <2>3
  <2> QED
    BY <1>14, <2>2, <2>3 DEF Write
<1>15. ASSUME NEW e \in Engines, Finish(e) \/ Fail(e) PROVE LifeInv(o)'
  BY <1>15 DEF Finish, Fail, worker, reader
<1>16. ASSUME NEW e \in Engines, Exit(e) \/ Crash(e) \/ SigKill(e) PROVE LifeInv(o)'
  <2>1. Alive(e) /\ UNCHANGED <<wpc, rpc, seen, terminate>>
    BY <1>16 DEF Exit, Crash, SigKill, Alive, worker, reader
  <2> QED
    BY <1>13, <1>16, <2>1 DEF Exit, Crash, SigKill
<1> HIDE DEF TypeOK, LifeInv, Holds, Killed, TimedOut
<1> QED
  BY <1>1, <1>2, <1>3, <1>4, <1>5, <1>6, <1>7, <1>8, <1>9, <1>10, <1>11, <1>12,
     <1>14, <1>15, <1>16 DEF Next, Returned, Worker, Tester

\* What the worker waits for and the life of its tester agree in every state.
THEOREM Waiting == Spec => []WaitInv
<1>1. Init => WaitInv
  <2> SUFFICES ASSUME Init PROVE WaitInv
    OBVIOUS
  <2>1. IInv
    BY InitIInv
  <2> QED
    BY <2>1 DEF Init, WaitInv, Connected, LifeInv
<1>2. WaitInv /\ [Next]_vars => WaitInv'
  <2> SUFFICES ASSUME WaitInv, [Next]_vars PROVE WaitInv'
    OBVIOUS
  <2>1. IInv'
    BY IInvStep DEF WaitInv
  <2>2. \A e \in Engines : Connected(e)' /\ LifeInv(e)'
    BY ConnectedStep, LifeStep
  <2> QED
    BY <2>1, <2>2 DEF WaitInv
<1> QED
  BY <1>1, <1>2, PTL DEF Spec

\* Although a worker closes its descriptor twice, a tester always starts with
\* the write end of its own pipe and keeps it until it has written its log or
\* is dead: the double close can only cost a reader its pipe.
THEOREM TesterKeepsItsPipe == Spec => [](\A e \in Engines : child[e] = "running" => Holds(e, e))
<1>1. WaitInv => \A e \in Engines : child[e] = "running" => Holds(e, e)
  BY DEF WaitInv, LifeInv
<1> QED
  BY <1>1, Waiting, PTL

\* The waitpid without a time limit is only entered when the tester is dead or
\* in the teardown of its engine: it never waits for WebAssembly code to return.
THEOREM WaitsForTeardown ==
    Spec => [](\A e \in Engines : wpc[e] = "waitpid" => child[e] \in {"closing", "zombie"})
<1>1. WaitInv => \A e \in Engines : wpc[e] = "waitpid" => child[e] \in {"closing", "zombie"}
  BY DEF WaitInv, LifeInv
<1> QED
  BY <1>1, Waiting, PTL

\* The guards of the worker, of its reader, of the teardown of its tester and of
\* the SIGKILL sent to it: e has a step to take, whatever the tester's code does.
CanMove(e) ==
    \/ wpc[e] = "pipe" /\ \E m, n \in Fds : m # n /\ fds[m] = Free /\ fds[n] = Free
    \/ wpc[e] \in {"fork", "close", "wait", "closescope"}
    \/ wpc[e] \in {"reap", "waitpid"} /\ child[e] = "zombie"
    \/ wpc[e] = "join" /\ rpc[e] = "done"
    \/ rpc[e] = "top"
    \/ rpc[e] = "bad" /\ ~eof[e] /\ terminate[e]
    \/ rpc[e] = "blocked" /\ (inPipe[source[e]] > 0 \/ ~Writable(source[e]))
    \/ child[e] = "closing"
    \/ Killed(e) /\ Alive(e)

\* A worker that cannot move has not begun, has returned, or waits for a reader
\* that waits for a pipe somebody can write to.
LEMMA StuckInJoin ==
    ASSUME WaitInv, NEW e \in Engines, ~CanMove(e), wpc[e] \notin {"pipe", "done"}
    PROVE  wpc[e] = "join" /\ Writable(e)
<1>0. TypeOK /\ WorkerInv(e) /\ TesterInv(e) /\ ReaderInv(e) /\ LifeInv(e)
  BY DEF WaitInv, IInv
<1>1. wpc[e] = "join" /\ rpc[e] # "done"
  BY <1>0 DEF CanMove, TypeOK, LifeInv, TesterInv, Opened, Killed, Alive
<1>2. terminate[e] /\ rpc[e] # "idle"
  BY <1>0, <1>1 DEF LifeInv, WorkerInv
<1>3. rpc[e] = "blocked"
  BY <1>0, <1>1, <1>2 DEF CanMove, ReaderInv, TypeOK
<1> QED
  BY <1>0, <1>1, <1>3 DEF CanMove, ReaderInv

\* No memory step comes to a standstill, not even when every tester hangs: until
\* both workers have returned, one of the workers or readers, the teardown of a
\* tester or a SIGKILL on its way can take a step.  A pipe needs two descriptors.
THEOREM NobodyWaitsForEver ==
    ASSUME \E m, n \in Fds : m # n
    PROVE  Spec => []((\E e \in Engines : wpc[e] # "done") => \E e \in Engines : CanMove(e))
<1>1. WaitInv => ((\E e \in Engines : wpc[e] # "done") => \E e \in Engines : CanMove(e))
  <2> SUFFICES ASSUME WaitInv, NEW e \in Engines, wpc[e] # "done", \A x \in Engines : ~CanMove(x)
               PROVE  FALSE
    OBVIOUS
  <2>1. CASE \E x \in Engines : wpc[x] \notin {"pipe", "done"}
    <3>1. PICK x \in Engines : wpc[x] \notin {"pipe", "done"}
      BY <2>1
    <3>2. wpc[x] = "join" /\ Writable(x)
      BY <3>1, StuckInJoin
    <3>3. \A n \in Fds : fds[n] # <<x, "w">>
      BY <3>2 DEF WaitInv, IInv, FdInv
    <3>4. PICK p \in Engines : <<x, "w">> \in held[p]
      BY <3>2, <3>3 DEF Writable, Holds
    <3>5. child[p] \in {"running", "closing"}
      BY <3>4 DEF WaitInv, IInv, TypeOK, LifeInv
    <3> QED
      BY <3>5 DEF WaitInv, LifeInv, CanMove, Alive
  <2>2. CASE \A x \in Engines : wpc[x] \in {"pipe", "done"}
    <3>1. ASSUME NEW n \in Fds PROVE fds[n] = Free
      <4>1. fds[n] \in Ends \cup {Free}
        BY DEF WaitInv, IInv, TypeOK
      <4>2. \A x \in Engines : fds[n] # <<x, "r">> /\ fds[n] # <<x, "w">>
        BY <2>2 DEF WaitInv, IInv, FdInv, Opened
      <4> QED
        BY <4>1, <4>2 DEF Ends
    <3> QED
      BY <2>2, <3>1 DEF CanMove
  <2> QED
    BY <2>1, <2>2
<1> QED
  BY <1>1, Waiting, PTL

\* How far a worker and its reader have come.
WorkerRank(e) ==
    CASE wpc[e] = "pipe" -> 0 [] wpc[e] = "fork" -> 1              [] wpc[e] = "close" -> 2
      [] wpc[e] = "wait" -> 3 [] wpc[e] \in {"waitpid", "reap"} -> 4 [] wpc[e] = "join" -> 5
      [] wpc[e] = "closescope" -> 6
      [] OTHER -> 7

ReaderRank(e) ==
    CASE rpc[e] = "idle" -> 0 [] rpc[e] = "top" -> 1 [] rpc[e] = "blocked" -> 2
      [] rpc[e] = "bad" -> 3  [] OTHER -> 4

\* An iteration of the reader's loop takes bytes, fills its buffer, meets the
\* end of file, or goes on to the next point of the iteration.
ReaderAdvances(e) ==
    \/ got'[e] > got[e]
    \/ got'[e] = got[e] /\ buffered'[e] > buffered[e]
    \/ got'[e] = got[e] /\ buffered'[e] = buffered[e] /\ ~eof[e] /\ eof'[e]
    \/ UNCHANGED <<got[e], buffered[e], eof[e]>> /\ ReaderRank(e)' > ReaderRank(e)

\* No thread of a memory step runs for ever: every step of a worker brings it
\* nearer to its return and every step of a reader brings it nearer to the end
\* of its loop, and no step of anyone else takes a reader back.  The log and
\* the pipe are finite, so that the readers poll them finitely often.
THEOREM ThreadsAdvance ==
    Spec => [][\A e \in Engines :
                  /\ Worker(e) => WorkerRank(e)' > WorkerRank(e)
                  /\ Reader(e) => ReaderAdvances(e)
                  /\ ~Reader(e) => /\ UNCHANGED <<got[e], buffered[e], eof[e]>>
                                   /\ ReaderRank(e)' >= ReaderRank(e)]_vars
<1> DEFINE Quiet(e) == UNCHANGED <<got[e], buffered[e], eof[e]>> /\ ReaderRank(e)' >= ReaderRank(e)
<1>1. ASSUME IInv, NEW e \in Engines, Worker(e) PROVE WorkerRank(e)' > WorkerRank(e)
  <2>0. TypeOK
    BY <1>1 DEF IInv
  <2> QED
    BY <1>1, <2>0 DEF TypeOK, WorkerRank, Worker, OpenPipe, Fork, StartReader, FutureReady,
       Timeout, Reap, WaitChild, Join, CloseScope, GotoW
<1>2. ASSUME IInv, NEW e \in Engines, Reader(e) PROVE ReaderAdvances(e)
  <2>0. TypeOK /\ ReaderInv(e)
    BY <1>2 DEF IInv
  <2> USE <2>0 DEF TypeOK
  <2>1. CASE LeaveAtEof(e)
    BY <2>1 DEF LeaveAtEof, GotoR, ReaderAdvances, ReaderRank
  <2>2. CASE LeaveAtTerminate(e)
    BY <2>2 DEF LeaveAtTerminate, GotoR, ReaderAdvances, ReaderRank
  <2>3. CASE ReadSome(e)
    <3>1. PICK p \in Engines : \E n \in 0..inPipe[p] :
            buffered[e] + n > 0 /\ got' = [got EXCEPT ![e] = @ + buffered[e] + n]
      BY <2>3 DEF ReadSome
    <3>2. PICK n \in 0..inPipe[p] :
            buffered[e] + n > 0 /\ got' = [got EXCEPT ![e] = @ + buffered[e] + n]
      BY <3>1
    <3>3. got'[e] > got[e]
      BY <3>2
    <3> QED
      BY <3>3 DEF ReaderAdvances
  <2>4. CASE Peek(e)
    BY <2>4 DEF Peek, GotoR, ReaderAdvances, ReaderRank
  <2>5. CASE Wake(e)
    <3>1. buffered[e] = 0 /\ UNCHANGED got
      BY <2>5 DEF Wake, GotoR, ReaderInv
    <3>2. buffered'[e] > 0
      BY <2>5 DEF Wake
    <3> QED
      BY <3>1, <3>2 DEF ReaderAdvances
  <2>6. CASE SeeEof(e)
    BY <2>6 DEF SeeEof, GotoR, ReaderInv, ReaderAdvances
  <2> QED
    BY <1>2, <2>1, <2>2, <2>3, <2>4, <2>5, <2>6 DEF Reader
<1>3. ASSUME IInv, [Next]_vars, NEW e \in Engines, ~Reader(e) PROVE Quiet(e)
  <2>0. TypeOK
    BY <1>3 DEF IInv
  <2> USE <2>0 DEF TypeOK
  <2>1. CASE UNCHANGED <<got, buffered, eof, rpc>>
    BY <2>1 DEF ReaderRank
  <2>2. ASSUME NEW o \in Engines, StartReader(o) PROVE Quiet(e)
    <3>1. rpc'[e] = rpc[e] \/ (rpc'[e] = "top" /\ rpc[e] = "idle")
      BY <1>3, <2>2 DEF StartReader, GotoW, IInv, WorkerInv
    <3> QED
      BY <2>2, <3>1 DEF StartReader, ReaderRank
  <2>3. ASSUME NEW o \in Engines, Reader(o), o # e
        PROVE  UNCHANGED <<got[e], buffered[e], eof[e], rpc[e]>>
    BY <2>3 DEF Reader, LeaveAtEof, LeaveAtTerminate, ReadSome, Peek, Wake, SeeEof, GotoR
  <2>4. ASSUME NEW o \in Engines, (Worker(o) /\ ~StartReader(o)) \/ Interrupted(o) \/ Tester(o)
        PROVE  UNCHANGED <<got, buffered, eof, rpc>>
    BY <2>4 DEF Worker, OpenPipe, Fork, FutureReady, Timeout, Reap, WaitChild, Join, CloseScope,
       Interrupted, Tester, Write, Finish, Exit, Fail, Crash, SigKill, reader
  <2>5. UNCHANGED vars => UNCHANGED <<got, buffered, eof, rpc>>
    BY DEF vars, reader
  <2>6. UNCHANGED <<got[e], buffered[e], eof[e], rpc[e]>> => Quiet(e)
    BY DEF ReaderRank
  <2> QED
    <3> HIDE DEF Quiet, TypeOK
    <3> QED
      BY <1>3, <2>1, <2>2, <2>3, <2>4, <2>5, <2>6 DEF Next, Returned
<1>4. IInv /\ [Next]_vars =>
        [\A e \in Engines : /\ Worker(e) => WorkerRank(e)' > WorkerRank(e)
                            /\ Reader(e) => ReaderAdvances(e)
                            /\ ~Reader(e) => /\ UNCHANGED <<got[e], buffered[e], eof[e]>>
                                             /\ ReaderRank(e)' >= ReaderRank(e)]_vars
  BY <1>1, <1>2, <1>3
<1> QED
  BY <1>4, Inductive, PTL DEF Spec
=============================================================================
