--------------------------- MODULE TesterMainProofs ---------------------------
(***************************************************************************)
(* Theorems of TesterMain, for any command lines, lines, files and results *)
(* and for integers of any width.                                          *)
(***************************************************************************)
EXTENDS TesterMain, FiniteSetTheorems, SequenceTheorems, WellFoundedInduction, TLAPS

\* What has become of descriptor 3.
Descriptors ==
    /\ leaked \in Nat /\ given \in Descriptor /\ fd3 \in Descriptor
    /\ fd3 # "closed" => fd3 = given /\ leaked = 0
    /\ leaked <= (IF given # "closed" THEN 1 ELSE 0)

\* The log is told as the engine and the marshalling say.
Told == log # "none" => told = Logged(engine, returned)

\* How far Run is, and what of its options still counts.
Progress ==
    /\ program \in Programs /\ DOMAIN option = DOMAIN Options[program]
    /\ pc \in {"start", "run", "prompt", "spin", "exited", "dead"}
    /\ pc \in {"start", "run"} => fd3 = given
    /\ pc \notin {"start", "exited", "dead"} => program = "tester"
    /\ pc \in {"prompt", "spin"} => option["-mode"] = NotSet

MainInv == Descriptors /\ Told /\ Progress /\ ExitTells

\* The steps that write no log and open no descriptor.
Quiet == UNCHANGED <<fd3, leaked, given, log, told, returned, engine>>

LEMMA QuietKeeps == MainInv /\ Quiet => Descriptors' /\ Told'
BY DEF MainInv, Quiet, Descriptors, Told

\* SingleRun, whoever calls it, tells what it logs, and descriptor 3 is left as
\* it was at the start or closed.
LEMMA RunKeeps ==
    ASSUME MainInv, NEW memory, NEW out, NEW available, NEW result,
           SingleRun(memory, out, available, result), UNCHANGED <<engine, given>>,
           \/ fd3' \in {fd3, "closed"} /\ leaked' = leaked
           \/ fd3' = "closed" /\ leaked' \in {leaked, IF fd3 # "closed" THEN leaked + 1 ELSE leaked}
    PROVE  Descriptors' /\ Told'
<1>1. Descriptors'
    BY DEF MainInv, Descriptors, Descriptor
<1>2. Told'
    <2>1. (log' = log /\ told' = told /\ returned' = returned) \/ told' = Logged(engine, returned')
        BY DEF SingleRun
    <2>2. engine' = engine
        OBVIOUS
    <2>3. CASE log' = log /\ told' = told /\ returned' = returned
        BY <2>2, <2>3 DEF MainInv, Told
    <2>4. CASE told' = Logged(engine, returned')
        BY <2>2, <2>4 DEF Told, Logged, MarshallValue
    <2>5. QED
        BY <2>1, <2>3, <2>4
<1>3. QED
    BY <1>1, <1>2

\* The status of a failure is 255 for whoever passes it on.
LEMMA Failures == (-1) % 256 = 255 /\ 0 % 256 = 0
<1>1. ASSUME NEW n \in Int, n = -1 PROVE n % 256 = 255
    <2>1. n = 256 * (n \div 256) + (n % 256)
        OBVIOUS
    <2>2. n \div 256 \in Int /\ n % 256 \in 0..255
        OBVIOUS
    <2>3. ASSUME NEW q \in Int, NEW m \in 0..255, n = 256 * q + m PROVE m = 255
        BY <1>1, <2>3
    <2>4. QED
        BY <2>1, <2>2, <2>3
<1>2. -1 \in Int
    OBVIOUS
<1>3. (-1) % 256 = 255
    BY <1>1, <1>2
<1>4. 0 % 256 = 0
    OBVIOUS
<1>5. QED
    BY <1>3, <1>4

\* Only a tester has a mode.
LEMMA Modes == "-mode" \in DOMAIN Options["tester"] /\ "tester" \in Programs
BY DEF Options, Programs, TesterOptions

LEMMA ReadKeeps == MainInv /\ (ReadCommandLine \/ BadCommandLine) => MainInv'
<1> SUFFICES ASSUME MainInv, ReadCommandLine \/ BadCommandLine PROVE MainInv'
    OBVIOUS
<1>1. Quiet /\ pc = "start" /\ program' = program
    BY DEF ReadCommandLine, BadCommandLine, CommandLineNext, Quiet, outvars, clvars
<1>2. DOMAIN option' = DOMAIN option
    BY DEF ReadCommandLine, BadCommandLine, CommandLineNext, Consume, Set, MissingValue, Unknown, ValidateRequire, clvars
<1>3. pc' = "start" \/ (pc' = "exited" /\ status' = 255) \/ pc' = "dead"
    BY <1>1 DEF ReadCommandLine, BadCommandLine, Exit, Die
<1>4. Progress' /\ ExitTells'
    BY <1>1, <1>2, <1>3 DEF MainInv, Progress, ExitTells, Quiet
<1>5. QED
    BY <1>1, <1>4, QuietKeeps DEF MainInv

LEMMA StartKeeps == MainInv /\ (InitializeModule \/ Interactive) => MainInv'
<1> SUFFICES ASSUME MainInv, InitializeModule \/ Interactive PROVE MainInv'
    OBVIOUS
<1>1. CASE InitializeModule
    <2>1. Quiet /\ UNCHANGED <<program, option>> /\ pc = "start" /\ program = "tester"
        BY <1>1 DEF InitializeModule, Quiet, outvars, clvars
    <2>2. pc' = "run" \/ pc' = "dead" \/ (pc' = "exited" /\ (engine \in DropsRet \/ status' = 255))
        BY <1>1, Failures DEF InitializeModule, Return, Exit, Die
    <2>3. Progress' /\ ExitTells'
        BY <2>1, <2>2 DEF MainInv, Progress, ExitTells, Quiet
    <2>4. QED
        BY <2>1, <2>3, QuietKeeps DEF MainInv
<1>2. CASE Interactive
    <2>1. Quiet /\ program' = program /\ pc = "run" /\ pc' = "prompt" /\ option' = [o \in DOMAIN option |-> NotSet]
        BY <1>2 DEF Interactive, Mode, Quiet, outvars
    <2>2. program = "tester" /\ "-mode" \in DOMAIN option
        BY <2>1, Modes DEF MainInv, Progress
    <2>3. Progress' /\ ExitTells'
        BY <2>1, <2>2 DEF MainInv, Progress, ExitTells
    <2>4. QED
        BY <2>1, <2>3, QuietKeeps DEF MainInv
<1>3. QED
    BY <1>1, <1>2

\* The modes that end the process.
LEMMA ModesKeep == MainInv /\ (Single \/ Debug \/ InvokeOnce \/ OtherMode) => MainInv'
<1> SUFFICES ASSUME MainInv, Single \/ Debug \/ InvokeOnce \/ OtherMode PROVE MainInv'
    OBVIOUS
<1>1. pc = "run" /\ program = "tester" /\ UNCHANGED <<engine, given, program, option>> /\ fd3 = given
    BY DEF Single, Debug, InvokeOnce, OtherMode, Mode, clvars, MainInv, Progress
<1>2. ASSUME pc' \in {"exited", "dead"}, Descriptors', Told', ExitTells' PROVE MainInv'
    BY <1>1, <1>2 DEF MainInv, Progress
<1>3. ASSUME NEW result \in RunResults, SingleRun(option["-memory"], fd3, files, result), ReturnOf(result),
             leaked' = leaked, fd3' = Leaves(fd3)
      PROVE  /\ pc' \in {"exited", "dead"} /\ Descriptors' /\ Told'
             /\ pc' = "exited" /\ status' = 0 /\ engine \notin DropsRet /\ given # "closed"
                    => log' = (IF given = "given" THEN "given" ELSE "lost")
    <2>1. fd3' \in {fd3, "closed"} /\ given \in Descriptor
        BY <1>3 DEF Leaves, MainInv, Descriptors
    <2>2. Descriptors' /\ Told'
        BY <1>1, <1>3, <2>1, RunKeeps
    <2>3. pc' \in {"exited", "dead"} /\ (pc' = "exited" /\ status' = 0 /\ engine \notin DropsRet => result = "true")
        BY <1>3, Failures DEF ReturnOf, Return, Exit, Die, RunResults
    <2>4. result = "true" /\ given # "closed" => log' = (IF given = "given" THEN "given" ELSE "lost")
        BY <1>1, <1>3, <2>1 DEF SingleRun, Sinks, Descriptor
    <2>5. QED
        BY <2>2, <2>3, <2>4
<1>4. CASE Single \/ Debug
    <2>1. PICK result \in RunResults :
              /\ SingleRun(option["-memory"], fd3, files, result) /\ ReturnOf(result)
              /\ leaked' = leaked /\ fd3' = Leaves(fd3)
        BY <1>4 DEF Single, Debug
    <2>2. QED
        BY <1>1, <1>2, <1>3, <2>1 DEF ExitTells
<1>5. CASE InvokeOnce \/ OtherMode
    <2>1. Quiet
        BY <1>5 DEF InvokeOnce, OtherMode, Quiet, outvars
    <2>2. option["-mode"] # "single"
        BY <1>5 DEF InvokeOnce, OtherMode, Mode, NotSet
    <2>3. pc' \in {"exited", "dead"}
        BY <1>5 DEF InvokeOnce, OtherMode, Return, Exit, Die
    <2>4. ExitTells'
        BY <1>1, <2>2 DEF ExitTells
    <2>5. QED
        BY <1>2, <2>1, <2>3, <2>4, QuietKeeps
<1>6. QED
    BY <1>4, <1>5

\* A command that runs nothing.
LEMMA PromptKeeps ==
    ASSUME MainInv, Quiet, UNCHANGED clvars, pc \in {"run", "prompt", "spin"},
           pc' \in {pc, "spin", "dead"} \/ (pc = "prompt" /\ pc' = "exited"), pc' = "spin" => pc # "run"
    PROVE  MainInv'
<1>1. UNCHANGED <<program, option>> /\ UNCHANGED <<given, fd3, log, engine>> /\ program = "tester"
    BY DEF clvars, Quiet, MainInv, Progress
<1>2. pc' = "exited" => option["-mode"] = NotSet
    BY DEF MainInv, Progress
<1>3. ExitTells'
    BY <1>1, <1>2 DEF ExitTells, NotSet
<1>4. Progress'
    BY <1>1 DEF MainInv, Progress
<1>5. QED
    BY <1>3, <1>4, QuietKeeps DEF MainInv

LEMMA LooperKeeps == MainInv /\ Looper => MainInv'
<1> SUFFICES ASSUME MainInv, Looper PROVE MainInv'
    OBVIOUS
<1>1. CASE Quit \/ Plain \/ Named \/ Invoke \/ SetGlobal \/ SetGlobalThrows \/ MemImport \/ DumpFile \/ EndOfInput
    <2>1. pc = "prompt" /\ UNCHANGED clvars
        BY <1>1 DEF Quit, Plain, Named, Invoke, SetGlobal, SetGlobalThrows, MemImport, DumpFile, EndOfInput, Takes
    <2>2. Quiet
        BY <1>1 DEF Quit, Plain, Named, Invoke, SetGlobal, SetGlobalThrows, MemImport, DumpFile, EndOfInput, Quiet, outvars
    <2>3. pc' \in {"prompt", "spin", "dead", "exited"}
        BY <1>1, <2>1 DEF Quit, Plain, Named, Invoke, SetGlobal, SetGlobalThrows, MemImport, DumpFile, EndOfInput,
           NextPrompt, Return, Exit, Die
    <2>4. QED
        BY <2>1, <2>2, <2>3, PromptKeeps
<1>2. CASE SingleRunCommand
    <2>1. /\ pc = "prompt" /\ UNCHANGED <<program, option, engine, given>> /\ pc' \in {"prompt", "spin"} /\ status' = status
        BY <1>2 DEF SingleRunCommand, Takes, NextPrompt, clvars
    <2>2. PICK opened \in BOOLEAN, result \in RunResults :
              /\ leaked' = (IF opened /\ fd3 # "closed" THEN leaked + 1 ELSE leaked)
              /\ SingleRun(IF Seed /\ Len(Words) > 3 THEN Words[4] ELSE Argument(1), IF opened THEN "file" ELSE fd3,
                           IF opened THEN files \cup {Argument(1)} ELSE files, result)
              /\ fd3' = IF result = "throws" THEN Leaves(IF opened THEN "file" ELSE fd3) ELSE "closed"
        BY <1>2 DEF SingleRunCommand
    <2>3. fd3' = "closed" \/ (~opened /\ fd3' = fd3)
        BY <2>2 DEF Leaves
    <2>4. Descriptors' /\ Told'
        BY <2>1, <2>2, <2>3, RunKeeps
    <2>5. Progress' /\ ExitTells'
        BY <2>1 DEF MainInv, Progress, ExitTells
    <2>6. QED
        BY <2>4, <2>5 DEF MainInv
<1>3. QED
    BY <1>1, <1>2 DEF Looper

LEMMA MainInit == Init => MainInv
<1> SUFFICES ASSUME Init PROVE MainInv
    OBVIOUS
<1>1. Progress
    BY DEF Init, CommandLineInit, Progress
<1>2. Descriptors /\ Told /\ ExitTells
    BY DEF Init, Descriptors, Told, ExitTells
<1>3. QED
    BY <1>1, <1>2 DEF MainInv

\* The invariant is inductive.
LEMMA MainNext == MainInv /\ [Next]_vars => MainInv'
<1> SUFFICES ASSUME MainInv, [Next]_vars PROVE MainInv'
    OBVIOUS
<1>1. CASE Works
    BY <1>1, ReadKeeps, StartKeeps, ModesKeep, LooperKeeps DEF Works
<1>2. CASE Crash
    <2>1. pc \in {"run", "prompt", "spin"} /\ pc' = "dead" /\ UNCHANGED clvars /\ Quiet
        BY <1>2 DEF Crash, Die, Quiet, outvars
    <2>2. QED
        BY <2>1, PromptKeeps
<1>3. CASE TypeLine \/ CloseInput
    <2>1. pc \in {"run", "prompt"} /\ pc' = pc /\ UNCHANGED clvars /\ Quiet
        BY <1>3 DEF TypeLine, CloseInput, Mode, Quiet, outvars
    <2>2. QED
        BY <2>1, PromptKeeps
<1>4. CASE Rest \/ UNCHANGED vars
    <2>1. Quiet /\ UNCHANGED <<program, option, pc, status>>
        BY <1>4 DEF Rest, vars, clvars, outvars, Quiet
    <2>2. Progress' /\ ExitTells'
        BY <2>1 DEF MainInv, Progress, ExitTells, Quiet
    <2>3. QED
        BY <2>1, <2>2, QuietKeeps DEF MainInv
<1>5. QED
    BY <1>1, <1>2, <1>3, <1>4 DEF Next

LEMMA MainHolds == Spec => []MainInv
BY MainInit, MainNext, PTL DEF Spec

\* Looper, singlerun: however often it is typed, and whatever fails in it, no
\* more than the descriptor the process was started with is lost.
THEOREM LosesOneDescriptor == Spec => []LeaksOne
<1>1. MainInv => LeaksOne
    BY DEF MainInv, Descriptors, LeaksOne
<1>2. QED
    BY <1>1, MainHolds, PTL

\* main, Run and SingleRun: a status of 0 is a log that was written to a
\* descriptor that takes it, and one that was lost on one that does not, for
\* those engines whose main returns what Run returns.
THEOREM StatusIsTrue == Spec => []ExitTells
<1>1. MainInv => ExitTells
    BY DEF MainInv
<1>2. QED
    BY <1>1, MainHolds, PTL

\* MarshallValue and StringBinRepresentation: with integers of any width, both
\* engines tell a result as it is, but for the whole doubles of V8.
THEOREM ResultsAreTold == Spec => []TellsResult
<1>1. MainInv => TellsResult
    BY DEF MainInv, Told, TellsResult, Logged, MarshallValue, MarshallV8, MarshallSpiderMonkey
<1>2. QED
    BY <1>1, MainHolds, PTL
-----------------------------------------------------------------------------
(***************************************************************************)
(* Induction, over a set of numbers in place of a predicate.               *)
(***************************************************************************)
\* A set of numbers that has a member has a least one.
LEMMA LeastOf ==
    ASSUME NEW T \in SUBSET Nat, T # {}
    PROVE  \E m \in T : \A k \in T : m <= k
<1> DEFINE R == OpToRel(<, Nat)
<1>1. IsWellFoundedOn(R, Nat)
    BY NatLessThanWellFounded
<1>2. \A k, m \in Nat : k < m => <<k, m>> \in R
    BY Zenon DEF OpToRel
<1> HIDE DEF R
<1>3. PICK m \in T : \A k \in T : <<k, m>> \notin R
    BY <1>1, WFMin
<1>4. \A k \in T : ~(k < m)
    BY <1>2, <1>3
<1>5. QED
    BY <1>4

\* Induction up to a bound, over a set instead of a predicate.
LEMMA UpTo ==
    ASSUME NEW n \in Nat, NEW T, 0 \in T, \A k \in 1..n : k - 1 \in T => k \in T
    PROVE  \A k \in 0..n : k \in T
<1> DEFINE Left == {k \in 0..n : k \notin T}
<1> SUFFICES ASSUME Left # {} PROVE FALSE
    OBVIOUS
<1>1. Left \in SUBSET Nat
    OBVIOUS
<1>2. PICK m \in Left : \A k \in Left : m <= k
    <2> HIDE DEF Left
    <2>1. QED
        BY <1>1, LeastOf
<1>3. m \in 1..n /\ m - 1 \in 0..n /\ m - 1 \notin Left
    BY <1>2
<1>4. QED
    BY <1>3

-----------------------------------------------------------------------------
(***************************************************************************)
(* The words of a list of lines.                                           *)
(***************************************************************************)
\* FlattenSeq of a list is what any function says that adds one sequence after
\* the other.
LEMMA Flattened ==
    ASSUME NEW q, Len(q) \in Nat \ {0}, NEW g, g[1] = q[1], \A i \in 2..Len(q) : g[i] = g[i - 1] \o q[i],
           DOMAIN g = 1..Len(q), NEW R, g \in [1..Len(q) -> R]
    PROVE  FlattenSeq(q) = g[Len(q)]
<1> DEFINE n == Len(q)
           h == CHOOSE y : y = [i \in 1..Len(q) |-> IF i = 1 THEN q[i] ELSE y[i - 1] \o q[i]]
<1>1. FlattenSeq(q) = h[n]
    BY Zenon DEF FlattenSeq
<1>2. \E y : y = [i \in 1..n |-> IF i = 1 THEN q[i] ELSE y[i - 1] \o q[i]]
    <2> DEFINE G == [i \in 1..n |-> IF i = 1 THEN q[i] ELSE g[i - 1] \o q[i]]
    <2>0. \A i \in 1..n : i # 1 => i \in 2..n
        OBVIOUS
    <2>1. \A i \in 1..n : g[i] = G[i]
        BY <2>0
    <2>2. g = G
        <3>1. g = [i \in 1..n |-> g[i]]
            BY SMTT(30)
        <3>2. QED
            BY <2>1, <3>1, Zenon
    <2>3. QED
        BY <2>2
<1>3. h = [i \in 1..n |-> IF i = 1 THEN q[i] ELSE h[i - 1] \o q[i]]
    BY <1>2, Zenon
<1> HIDE DEF h
<1>4. \A i \in 1..n : h[i] = IF i = 1 THEN q[i] ELSE h[i - 1] \o q[i]
    BY <1>3
<1> DEFINE U == {i \in 0..n : i = 0 \/ h[i] = g[i]}
<1>5. ASSUME NEW i \in 1..n, i - 1 \in U PROVE i \in U
    <2>1. CASE i = 1
        BY <1>4, <2>1
    <2>2. CASE i > 1
        <3>1. i \in 2..n /\ h[i - 1] = g[i - 1]
            BY <1>5, <2>2
        <3>2. h[i] = h[i - 1] \o q[i] /\ g[i] = g[i - 1] \o q[i]
            BY <1>4, <2>2, <3>1
        <3>3. h[i] = g[i]
            BY <3>1, <3>2
        <3>4. QED
            BY <3>3
    <2>3. QED
        BY <2>1, <2>2
<1>6. 0 \in U /\ n \in Nat
    OBVIOUS
<1>7. n \in U
    <2> HIDE DEF U, n
    <2>1. \A i \in 0..n : i \in U
        BY <1>5, <1>6, UpTo
    <2>2. QED
        BY <1>6, <2>1
<1>8. QED
    BY <1>1, <1>7

\* The words of the first k lines are those of the lines before with those of
\* line k.
LEMMA LineByLine ==
    ASSUME NEW S, NEW s \in Seq(Seq(S))
    PROVE  \E f \in [0..Len(s) -> Seq(S)] :
              /\ f[0] = <<>> /\ \A k \in 1..Len(s) : f[k] = f[k - 1] \o s[k]
              /\ \A k \in 0..Len(s) : FlattenSeq(SubSeq(s, 1, k)) = f[k]
<1> DEFINE Grows(x, n) == x[0] = <<>> /\ \A k \in 1..n : x[k] = x[k - 1] \o s[k]
           T == {n \in 0..Len(s) : \E x \in [0..n -> Seq(S)] : Grows(x, n)}
<1>0. Len(s) \in Nat /\ \A k \in 1..Len(s) : s[k] \in Seq(S)
    BY ElementOfSeq
<1>1. 0 \in T
    <2> DEFINE g == [k \in 0..0 |-> <<>>]
    <2>1. g \in [0..0 -> Seq(S)] /\ g[0] = <<>>
        OBVIOUS
    <2> HIDE DEF g
    <2>2. Grows(g, 0)
        BY <2>1
    <2>3. \E x \in [0..0 -> Seq(S)] : Grows(x, 0)
        BY <2>1, <2>2
    <2>4. QED
        <3>1. 0 \in 0..Len(s)
            BY <1>0
        <3> HIDE DEF Grows
        <3>2. QED
            BY <2>3, <3>1
<1>2. ASSUME NEW n \in 1..Len(s), n - 1 \in T PROVE n \in T
    <2>1. PICK f \in [0..(n - 1) -> Seq(S)] : Grows(f, n - 1)
        BY <1>2
    <2> DEFINE g == [k \in 0..n |-> IF k < n THEN f[k] ELSE f[n - 1] \o s[n]]
    <2>0. n \in Nat \ {0} /\ n - 1 \in 0..(n - 1) /\ f[n - 1] \in Seq(S) /\ s[n] \in Seq(S)
        BY <1>0
    <2>2. f[n - 1] \o s[n] \in Seq(S)
        BY <2>0, ConcatProperties
    <2>3. g \in [0..n -> Seq(S)]
        BY <2>2
    <2>4. g[n] = f[n - 1] \o s[n] /\ \A k \in 0..(n - 1) : g[k] = f[k]
        <3>1. n \in 0..n /\ ~(n < n) /\ \A k \in 0..(n - 1) : k \in 0..n /\ k < n
            BY <2>0
        <3>2. QED
            BY <3>1
    <2> HIDE DEF g
    <2>5. ASSUME NEW k \in 1..n PROVE g[k] = g[k - 1] \o s[k]
        <3>1. k - 1 \in 0..(n - 1) /\ k \in Nat /\ (k = n \/ (k \in 1..(n - 1) /\ k \in 0..(n - 1)))
            BY <2>0
        <3>2. g[k - 1] = f[k - 1]
            BY <2>4, <3>1
        <3>3. CASE k = n
            BY <2>4, <3>2, <3>3
        <3>4. CASE k \in 1..(n - 1)
            <4>1. f[k] = f[k - 1] \o s[k]
                BY <2>1, <3>4
            <4>2. QED
                BY <2>4, <3>1, <3>2, <3>4, <4>1
        <3>5. QED
            BY <3>1, <3>3, <3>4
    <2>6. Grows(g, n)
        <3>1. 0 \in 0..(n - 1) /\ f[0] = <<>>
            BY <2>0, <2>1
        <3>2. QED
            BY <2>4, <2>5, <3>1
    <2>7. \E x \in [0..n -> Seq(S)] : Grows(x, n)
        <3> HIDE DEF Grows
        <3>1. QED
            BY <2>3, <2>6
    <2>8. QED
        <3>1. n \in 0..Len(s)
            BY <1>0
        <3> HIDE DEF Grows
        <3>2. QED
            BY <2>7, <3>1
<1>3. Len(s) \in T
    <2> HIDE DEF T
    <2>1. \A k \in 0..Len(s) : k \in T
        BY <1>0, <1>1, <1>2, UpTo
    <2>2. QED
        BY <1>0, <2>1
<1>4. PICK f \in [0..Len(s) -> Seq(S)] : Grows(f, Len(s))
    BY <1>3
<1>5. ASSUME NEW k \in 0..Len(s) PROVE FlattenSeq(SubSeq(s, 1, k)) = f[k]
    <2> DEFINE t == SubSeq(s, 1, k)
    <2>1. Len(t) = k /\ \A i \in 1..k : t[i] = s[i]
        BY <1>0
    <2>2. CASE k = 0
        <3>1. t = <<>>
            BY <2>2
        <3>2. QED
            BY <1>4, <2>1, <2>2, <3>1 DEF FlattenSeq
    <2>3. CASE k > 0
        <3> DEFINE g == [i \in 1..k |-> f[i]]
        <3>0. \A i \in 1..k : i \in 0..Len(s) /\ f[i] \in Seq(S)
            <4>1. \A i \in 1..k : i \in 0..Len(s)
                BY <1>0
            <4>2. QED
                BY <4>1
        <3>1. g \in [1..k -> Seq(S)] /\ DOMAIN g = 1..k /\ \A i \in 1..k : g[i] = f[i]
            BY <3>0
        <3>2. f[1] = s[1]
            <4>1. 1 \in 1..Len(s) /\ 1 - 1 = 0
                BY <1>0, <2>3
            <4>2. f[1] = f[0] \o s[1] /\ f[0] = <<>> /\ s[1] \in Seq(S)
                BY <1>0, <1>4, <4>1
            <4>3. QED
                BY <4>2, ConcatEmptySeq
        <3> HIDE DEF g, t
        <3>3. k \in Nat \ {0} /\ 1 \in 1..k
            BY <2>3
        <3>4. \A i \in 2..k : i - 1 \in 1..k /\ i \in 1..k /\ i \in 1..Len(s)
            BY <1>0
        <3>5. g[1] = t[1] /\ \A i \in 2..k : g[i] = g[i - 1] \o t[i]
            BY <1>4, <2>1, <3>1, <3>2, <3>3, <3>4
        <3>6. FlattenSeq(t) = g[k]
            BY <2>1, <3>1, <3>3, <3>5, Flattened
        <3>7. QED
            BY <3>1, <3>3, <3>6 DEF t
    <2>4. QED
        BY <2>2, <2>3
<1>6. QED
    BY <1>4, <1>5
StartsWith(t, s) == Len(s) <= Len(t) /\ \A m \in 1..Len(s) : t[m] = s[m]

\* The words of fewer lines are the first words of more lines.
LEMMA Longer ==
    ASSUME NEW S, NEW s \in Seq(Seq(S)), NEW f \in [0..Len(s) -> Seq(S)],
           \A k \in 1..Len(s) : f[k] = f[k - 1] \o s[k],
           NEW j \in 0..Len(s), NEW k \in j..Len(s)
    PROVE  StartsWith(f[k], f[j])
<1> DEFINE Begins(i) == Len(f[j]) <= Len(f[i]) /\ \A m \in 1..Len(f[j]) : f[i][m] = f[j][m]
           U == {i \in 0..Len(s) : j <= i => Begins(i)}
<1>1. Len(s) \in Nat /\ j \in Nat /\ \A i \in 0..Len(s) : f[i] \in Seq(S) /\ Len(f[i]) \in Nat
    BY LenProperties
<1>2. Begins(j)
    BY <1>1
<1>3. ASSUME NEW i \in 1..Len(s), i - 1 \in U PROVE i \in U
    <2>1. i \in 0..Len(s) /\ i - 1 \in 0..Len(s) /\ i \in Nat
        BY <1>1
    <2>2. CASE i <= j
        <3>1. j <= i => i = j
            BY <1>1, <2>1, <2>2
        <3> HIDE DEF Begins
        <3>2. QED
            BY <1>2, <2>1, <3>1
    <2>3. CASE j <= i - 1
        <3>1. s[i] \in Seq(S) /\ f[i] = f[i - 1] \o s[i]
            BY ElementOfSeq
        <3>2. /\ Len(f[i]) = Len(f[i - 1]) + Len(s[i]) /\ Len(s[i]) \in Nat
              /\ \A m \in 1..(Len(f[i - 1]) + Len(s[i])) : m <= Len(f[i - 1]) => f[i][m] = f[i - 1][m]
            BY <1>1, <2>1, <3>1, ConcatProperties, LenProperties
        <3>3. Begins(i - 1)
            BY <1>3, <2>3
        <3> DEFINE a == Len(f[j])
                   b == Len(f[i])
                   c == Len(f[i - 1])
                   d == Len(s[i])
        <3>4. a \in Nat /\ b \in Nat /\ c \in Nat /\ d \in Nat /\ a <= c /\ b = c + d
            BY <1>1, <2>1, <3>2, <3>3
        <3> HIDE DEF a, b, c, d
        <3>5. a <= b /\ \A m \in 1..a : m \in 1..(c + d) /\ m <= c
            BY <3>4
        <3> USE DEF a, b, c, d
        <3>6. Begins(i)
            <4>1. ASSUME NEW m \in 1..Len(f[j]) PROVE f[i][m] = f[j][m]
                BY <3>2, <3>3, <3>5
            <4>2. QED
                BY <3>5, <4>1
        <3> HIDE DEF Begins
        <3>7. QED
            BY <2>1, <3>6
    <2>4. QED
        BY <1>1, <2>1, <2>2, <2>3
<1>4. 0 \in U
    <2>1. j <= 0 => j = 0
        BY <1>1
    <2> HIDE DEF Begins
    <2>2. QED
        BY <1>1, <1>2, <2>1
<1>5. k \in U
    <2> HIDE DEF U
    <2>1. \A i \in 0..Len(s) : i \in U
        BY <1>1, <1>3, <1>4, UpTo
    <2>2. QED
        BY <1>1, <2>1
<1>6. QED
    BY <1>1, <1>5 DEF StartsWith

\* The n-th word stands on the line LineOf(n).
LEMMA LineHolds ==
    ASSUME in \in Seq(Seq(STRING)), NEW n \in 1..Len(Words), NEW f \in [0..Len(in) -> Seq(STRING)],
           f[0] = <<>>, \A k \in 1..Len(in) : f[k] = f[k - 1] \o in[k],
           \A k \in 0..Len(in) : FlattenSeq(SubSeq(in, 1, k)) = f[k]
    PROVE  LineOf(n) \in 1..Len(in) /\ Len(f[LineOf(n) - 1]) < n /\ n <= Len(f[LineOf(n)])
<1> DEFINE Behinds == {k \in 0..Len(in) : n <= Len(f[k])}
<1>1. Len(in) \in Nat /\ \A k \in 0..Len(in) : Len(f[k]) \in Nat
    BY LenProperties
<1>2. Words = f[Len(in)]
    <2>1. SubSeq(in, 1, Len(in)) = in
        BY SubSeqFull
    <2>2. Len(in) \in 0..Len(in)
        BY <1>1
    <2>3. QED
        BY <2>1, <2>2 DEF Words
<1>3. n \in Nat \ {0} /\ Len(in) \in Behinds
    BY <1>1, <1>2
<1>4. PICK l \in Behinds : \A k \in Behinds : l <= k
    <2>1. Behinds \in SUBSET Nat /\ Behinds # {}
        BY <1>1, <1>3
    <2> HIDE DEF Behinds
    <2>2. QED
        BY <2>1, LeastOf
<1>5. l \in 1..Len(in) /\ l - 1 \in 0..Len(in) /\ l - 1 \notin Behinds
    <2>1. l # 0
        BY <1>1, <1>3
    <2>2. QED
        BY <1>1, <1>4, <2>1
<1>6. Len(f[l - 1]) < n /\ n <= Len(f[l])
    BY <1>1, <1>3, <1>5
<1>7. {k \in 0..Len(in) : Len(FlattenSeq(SubSeq(in, 1, k))) < n} = 0..(l - 1)
    <2>1. ASSUME NEW k \in 0..Len(in) PROVE Len(f[k]) < n <=> k <= l - 1
        <3>1. CASE k <= l - 1
            <4>1. l - 1 \in k..Len(in)
                BY <1>1, <1>5, <3>1
            <4>2. Len(f[k]) <= Len(f[l - 1])
                BY <1>5, <4>1, Longer DEF StartsWith
            <4>3. QED
                BY <1>1, <1>3, <1>5, <1>6, <3>1, <4>2
        <3>2. CASE l <= k
            <4>1. k \in l..Len(in) /\ l \in 0..Len(in)
                BY <1>1, <1>5, <3>2
            <4>2. Len(f[l]) <= Len(f[k])
                BY <1>5, <4>1, Longer DEF StartsWith
            <4>3. ~(Len(f[k]) < n)
                BY <1>1, <1>3, <1>6, <4>1, <4>2
            <4>4. QED
                BY <1>1, <1>5, <3>2, <4>3
        <3>3. QED
            BY <1>1, <1>5, <3>1, <3>2
    <2>2. \A k \in 0..(l - 1) : k \in 0..Len(in)
        BY <1>1, <1>5
    <2>3. {k \in 0..Len(in) : Len(f[k]) < n} = 0..(l - 1)
        BY <1>1, <1>5, <2>1, <2>2
    <2>4. QED
        BY <2>3
<1>8. LineOf(n) = l
    <2>1. l \in Int /\ l - 1 \in Int /\ ~(0 > l - 1) /\ (l - 1) - 0 + 1 = l
        BY <1>1, <1>5
    <2>2. Cardinality(0..(l - 1)) = l
        BY <2>1, FS_Interval
    <2>3. QED
        BY <1>7, <2>2 DEF LineOf
<1>9. QED
    BY <1>5, <1>6, <1>8

\* The first word stands on the first line that is not empty, and the words of
\* that line are the first words.
LEMMA FirstLine ==
    ASSUME in \in Seq(Seq(STRING)), Words # <<>>
    PROVE  LET L == LineOf(1) IN
           /\ L \in 1..Len(in) /\ in[L] # <<>> /\ \A k \in 1..(L - 1) : in[k] = <<>>
           /\ Words \in Seq(STRING) /\ Len(in[L]) <= Len(Words)
           /\ \A m \in 1..Len(in[L]) : Words[m] = in[L][m] /\ LineOf(m) = L
           /\ \A n \in 1..Len(Words) : LineOf(n) \in L..Len(in)
<1> DEFINE L == LineOf(1)
<1>1. PICK f \in [0..Len(in) -> Seq(STRING)] :
          /\ f[0] = <<>> /\ \A k \in 1..Len(in) : f[k] = f[k - 1] \o in[k]
          /\ \A k \in 0..Len(in) : FlattenSeq(SubSeq(in, 1, k)) = f[k]
    BY LineByLine
<1>2. Len(in) \in Nat /\ \A k \in 0..Len(in) : f[k] \in Seq(STRING) /\ Len(f[k]) \in Nat
    BY LenProperties
<1>3. \A k \in 1..Len(in) : in[k] \in Seq(STRING) /\ Len(in[k]) \in Nat
    BY ElementOfSeq, LenProperties
<1>4. Words = f[Len(in)] /\ Words \in Seq(STRING) /\ Len(Words) \in Nat \ {0}
    <2>1. SubSeq(in, 1, Len(in)) = in
        BY SubSeqFull
    <2>2. Len(in) \in 0..Len(in)
        BY <1>2
    <2>3. Words = f[Len(in)]
        BY <1>1, <2>1, <2>2 DEF Words
    <2>4. QED
        BY <1>2, <2>2, <2>3, EmptySeq
<1>5. ASSUME NEW n \in 1..Len(Words)
      PROVE  LineOf(n) \in 1..Len(in) /\ Len(f[LineOf(n) - 1]) < n /\ n <= Len(f[LineOf(n)])
    BY <1>1, LineHolds
<1>6. L \in 1..Len(in) /\ Len(f[L - 1]) < 1 /\ 1 <= Len(f[L])
    BY <1>4, <1>5
<1> HIDE DEF L
<1>7. \A j \in 0..Len(in), k \in 0..Len(in) : j <= k =>
          Len(f[j]) <= Len(f[k]) /\ \A m \in 1..Len(f[j]) : f[k][m] = f[j][m]
    <2>1. \A k \in 1..Len(in) : f[k] = f[k - 1] \o in[k]
        BY <1>1
    <2>2. ASSUME NEW j \in 0..Len(in), NEW k \in 0..Len(in), j <= k PROVE StartsWith(f[k], f[j])
        <3>1. k \in j..Len(in)
            BY <1>2, <2>2
        <3>2. QED
            BY <2>1, <3>1, Longer
    <2>3. QED
        BY <2>2 DEF StartsWith
<1>8. L \in 0..Len(in) /\ L - 1 \in 0..Len(in) /\ L \in Nat /\ f[L - 1] = <<>>
    BY <1>2, <1>6, EmptySeq
<1>9. f[L] = in[L]
    <2>1. f[L] = f[L - 1] \o in[L]
        BY <1>1, <1>6
    <2>2. QED
        BY <1>3, <1>6, <1>8, <2>1, ConcatEmptySeq
<1>10. in[L] # <<>>
    BY <1>6, <1>9
<1>11. ASSUME NEW k \in 1..(L - 1) PROVE in[k] = <<>>
    <2>1. k \in 1..Len(in) /\ k \in 0..Len(in) /\ k - 1 \in 0..Len(in) /\ k <= L - 1
        BY <1>2, <1>6
    <2>2. Len(f[k]) = 0
        <3>1. Len(f[k]) <= Len(f[L - 1])
            BY <1>7, <1>8, <2>1
        <3>2. Len(f[k]) \in Nat /\ Len(f[L - 1]) = 0
            BY <1>2, <1>8, <2>1
        <3>3. QED
            BY <3>1, <3>2
    <2>3. f[k] = f[k - 1] \o in[k]
        BY <1>1, <2>1
    <2>4. Len(f[k]) = Len(f[k - 1]) + Len(in[k])
        BY <1>2, <1>3, <2>1, <2>3, ConcatProperties
    <2>5. Len(in[k]) = 0
        <3>1. Len(f[k - 1]) \in Nat /\ Len(in[k]) \in Nat
            BY <1>2, <1>3, <2>1
        <3> DEFINE a == Len(f[k - 1])
                   b == Len(in[k])
        <3>2. a \in Nat /\ b \in Nat /\ 0 = a + b
            BY <2>2, <2>4, <3>1
        <3> HIDE DEF a, b
        <3>3. b = 0
            BY <3>2
        <3>4. QED
            BY <3>3 DEF b
    <2>6. QED
        BY <1>3, <2>1, <2>5, EmptySeq
<1>12. Len(in[L]) <= Len(Words) /\ \A m \in 1..Len(in[L]) : Words[m] = in[L][m]
    <2>1. L <= Len(in) /\ Len(in) \in 0..Len(in)
        BY <1>2, <1>6
    <2>2. QED
        BY <1>4, <1>7, <1>8, <1>9, <2>1, SMTT(30)
<1>13. ASSUME NEW n \in 1..Len(Words) PROVE LineOf(n) \in L..Len(in)
    <2>1. LineOf(n) \in 1..Len(in) /\ LineOf(n) \in 0..Len(in)
        BY <1>2, <1>5
    <2>2. CASE LineOf(n) <= L - 1
        <3>1. Len(f[LineOf(n)]) <= Len(f[L - 1])
            BY <1>7, <1>8, <2>1, <2>2
        <3>2. QED
            BY <1>2, <1>4, <1>5, <1>6, <1>8, <2>1, <3>1
    <2>3. QED
        BY <1>2, <1>6, <2>1, <2>2
<1>14. ASSUME NEW m \in 1..Len(in[L]) PROVE LineOf(m) = L
    <2>1. m \in 1..Len(Words) /\ m \in Nat
        BY <1>3, <1>4, <1>6, <1>12
    <2>2. LineOf(m) \in L..Len(in) /\ LineOf(m) - 1 \in 0..Len(in)
        BY <1>2, <1>6, <1>13, <2>1, SMTT(30)
    <2>3. CASE L <= LineOf(m) - 1
        <3>1. Len(f[L]) <= Len(f[LineOf(m) - 1])
            BY <1>7, <1>8, <2>2, <2>3
        <3>2. Len(f[LineOf(m) - 1]) < m /\ m <= Len(f[L])
            BY <1>5, <1>9, <2>1
        <3>3. QED
            BY <1>2, <1>8, <2>1, <2>2, <3>1, <3>2
    <2>4. QED
        BY <1>2, <1>6, <2>2, <2>3
<1>15. QED
    BY <1>4, <1>6, <1>10, <1>11, <1>12, <1>13, <1>14 DEF L
-----------------------------------------------------------------------------
(***************************************************************************)
(* The lines and the commands run.                                         *)
(***************************************************************************)
Taken == Len(typed) - Len(in)

\* std::cin holds whole lines, the last ones typed.
Unread == Len(in) <= Len(typed) /\ \A k \in 1..Len(in) : in[k] = typed[Taken + k]

\* What has run stands on lines that are consumed, once Looper asks again.
LineInv ==
    /\ in \in Seq(Seq(STRING)) /\ typed \in Seq(Lines) /\ ran \in Seq(1..MaxLines) /\ Len(typed) <= MaxLines
    /\ Unread
    /\ pc \in {"start", "run"} => ran = <<>> /\ Taken = 0
    /\ pc = "prompt" => \A k \in 1..Len(ran) : ran[k] <= Taken
    /\ EveryLineOnce

LEMMA LineTypes ==
    ASSUME LineInv
    PROVE  /\ Len(in) \in Nat /\ Len(typed) \in Nat /\ Len(ran) \in Nat /\ DOMAIN ran = 1..Len(ran)
           /\ Taken \in Nat /\ Taken + Len(in) = Len(typed) /\ MaxLines \in Nat
           /\ \A k \in 1..Len(in) : in[k] = typed[Taken + k] /\ in[k] \in Seq(STRING) /\ Len(in[k]) \in Nat
           /\ \A k \in 1..Len(ran) : ran[k] \in 1..MaxLines
<1>1. Len(in) \in Nat /\ Len(typed) \in Nat /\ Len(ran) \in Nat /\ DOMAIN ran = 1..Len(ran)
    BY LenProperties DEF LineInv
<1>2. \A k \in 1..Len(in) : in[k] \in Seq(STRING)
    BY ElementOfSeq DEF LineInv
<1>3. \A k \in 1..Len(ran) : ran[k] \in 1..MaxLines
    BY ElementOfSeq DEF LineInv
<1>4. \A k \in 1..Len(in) : Len(in[k]) \in Nat
    BY <1>2, LenProperties
<1>5. QED
    BY <1>1, <1>2, <1>3, <1>4, LinesAssumption DEF LineInv, Unread, Taken

\* Lines are consumed from the first on.
LEMMA Consumed ==
    ASSUME LineInv, NEW d \in 0..Len(in), in' \in Seq(Seq(STRING)), Len(in') = Len(in) - d,
           \A k \in 1..Len(in') : in'[k] = in[d + k], typed' = typed
    PROVE  Unread' /\ Taken' = Taken + d
<1>1. Len(in) \in Nat /\ Len(typed) \in Nat /\ Taken + Len(in) = Len(typed) /\ Taken \in Nat
    BY LineTypes
<1>2. Taken' = Taken + d
    BY <1>1 DEF Taken
<1>3. Len(in') <= Len(typed')
    BY <1>1
<1>4. ASSUME NEW k \in 1..Len(in') PROVE in'[k] = typed'[Taken' + k]
    <2>1. d + k \in 1..Len(in) /\ Taken + (d + k) = (Taken + d) + k
        BY <1>1, SMTT(30)
    <2>2. in[d + k] = typed[Taken + (d + k)]
        BY <2>1, LineTypes
    <2>3. QED
        BY <1>2, <2>1, <2>2
<1>5. QED
    BY <1>2, <1>3, <1>4 DEF Unread

\* All that is left.
LEMMA AllConsumed ==
    ASSUME LineInv, in' = <<>>, typed' = typed
    PROVE  in' \in Seq(Seq(STRING)) /\ Unread'
<1>1. Len(in) \in Nat /\ Len(in) \in 0..Len(in) /\ Len(in') = Len(in) - Len(in) /\ in' \in Seq(Seq(STRING))
    BY LineTypes, EmptySeq
<1>2. \A k \in 1..Len(in') : in'[k] = in[Len(in) + k]
    BY <1>1
<1>3. QED
    BY <1>1, <1>2, Consumed

\* The lines behind one that is there.
LEMMA BehindIs ==
    ASSUME LineInv, NEW n, LineOf(n) \in 0..Len(in)
    PROVE  /\ Behind(n) \in Seq(Seq(STRING)) /\ Len(Behind(n)) = Len(in) - LineOf(n)
           /\ \A k \in 1..Len(Behind(n)) : Behind(n)[k] = in[LineOf(n) + k]
<1> DEFINE l == LineOf(n)
<1>1. Len(in) \in Nat /\ l \in 0..Len(in)
    BY LineTypes
<1>2. \A k \in (l + 1)..Len(in) : k \in 1..Len(in)
    BY <1>1
<1>3. \A k \in (l + 1)..Len(in) : in[k] \in Seq(STRING)
    BY <1>2, LineTypes
<1>4. l + 1 \in Int /\ Len(in) \in Int
    BY <1>1
<1> HIDE DEF l
<1>5. /\ SubSeq(in, l + 1, Len(in)) \in Seq(Seq(STRING))
      /\ Len(SubSeq(in, l + 1, Len(in))) = IF l + 1 <= Len(in) THEN Len(in) - (l + 1) + 1 ELSE 0
      /\ \A i \in 1..(Len(in) - (l + 1) + 1) : SubSeq(in, l + 1, Len(in))[i] = in[(l + 1) + i - 1]
    BY <1>3, <1>4, SubSeqProperties
<1>6. Len(SubSeq(in, l + 1, Len(in))) = Len(in) - l
    BY <1>1, <1>5
<1>7. \A i \in 1..(Len(in) - l) : SubSeq(in, l + 1, Len(in))[i] = in[l + i]
    BY <1>1, <1>5
<1>8. QED
    BY <1>5, <1>6, <1>7 DEF l, Behind

\* Any command is counted on the line of its first word.
LEMMA Counted ==
    ASSUME LineInv, NEW c, NEW n, Takes(c, n)
    PROVE  /\ pc = "prompt" /\ Words # <<>> /\ Words[1] = c /\ LineOf(1) \in 1..Len(in)
           /\ ran' = Append(ran, Taken + LineOf(1)) /\ ran' \in Seq(1..MaxLines)
<1>1. pc = "prompt" /\ Words # <<>> /\ Words[1] = c /\ ran' = Append(ran, Taken + LineOf(1))
    BY DEF Takes, Taken
<1>2. LineOf(1) \in 1..Len(in)
    BY <1>1, FirstLine DEF LineInv
<1>3. Taken + LineOf(1) \in 1..MaxLines
    <2>1. Len(typed) <= MaxLines
        BY DEF LineInv
    <2>2. QED
        BY <1>2, <2>1, LineTypes
<1>4. ran' \in Seq(1..MaxLines)
    BY <1>1, <1>3, AppendProperties DEF LineInv
<1>5. QED
    BY <1>1, <1>2, <1>4

\* Looper stops, or has failed.
LEMMA Elsewhere ==
    ASSUME LineInv, pc' \notin {"start", "run", "prompt"}, in' \in Seq(Seq(STRING)), Unread', typed' = typed,
           ran' \in Seq(1..MaxLines)
    PROVE  LineInv'
BY DEF LineInv, EveryLineOnce

\* A command that finds its words on its line leaves the next lines, and all
\* lines before its own are empty.
LEMMA RunsOneLine ==
    ASSUME LineInv, NEW c, NEW n \in Nat, Takes(c, n), Len(Words) > n, in' = Behind(n + 1), typed' = typed,
           pc' = "prompt", threw' = threw,
           \A line \in Seq(STRING) : line # <<>> /\ line[1] = c /\ Complete(line) => Len(line) > n
    PROVE  LineInv'
<1> DEFINE L == LineOf(1)
           d == LineOf(n + 1)
<1>1. /\ pc = "prompt" /\ Words # <<>> /\ Words[1] = c /\ L \in 1..Len(in)
      /\ ran' = Append(ran, Taken + L) /\ ran' \in Seq(1..MaxLines)
    BY Counted
<1>2. /\ in[L] # <<>> /\ (\A k \in 1..(L - 1) : in[k] = <<>>) /\ Words \in Seq(STRING)
      /\ (\A m \in 1..Len(in[L]) : Words[m] = in[L][m] /\ LineOf(m) = L)
      /\ \A m \in 1..Len(Words) : LineOf(m) \in L..Len(in)
    BY <1>1, FirstLine DEF LineInv
<1>3. Len(Words) \in Nat /\ n + 1 \in 1..Len(Words)
    BY <1>2, LenProperties
<1>4. d \in L..Len(in) /\ d \in 1..Len(in) /\ d \in 0..Len(in)
    <2>1. d \in L..Len(in)
        BY <1>2, <1>3
    <2>2. Len(in) \in Nat
        BY LineTypes
    <2> HIDE DEF L, d
    <2>3. QED
        BY <1>1, <2>1, <2>2
<1>5. Unread' /\ Taken' = Taken + d /\ in' \in Seq(Seq(STRING))
    BY <1>4, BehindIs, Consumed
<1> HIDE DEF L, d
<1>6. /\ Taken \in Nat /\ L \in Nat /\ d \in Nat /\ L <= d /\ Len(ran) \in Nat
      /\ \A k \in 1..Len(ran) : ran[k] \in Nat /\ ran[k] <= Taken
    <2>1. Taken \in Nat /\ Len(ran) \in Nat /\ Len(in) \in Nat
        BY LineTypes
    <2>2. \A k \in 1..Len(ran) : ran[k] \in 1..MaxLines /\ ran[k] <= Taken
        BY <1>1, LineTypes DEF LineInv
    <2>3. QED
        BY <1>1, <1>4, <2>1, <2>2
<1>7. /\ Len(ran') = Len(ran) + 1 /\ DOMAIN ran' = 1..(Len(ran) + 1) /\ ran'[Len(ran) + 1] = Taken + L
      /\ \A k \in 1..Len(ran) : ran'[k] = ran[k]
    <2>1. ran \in Seq(Nat) /\ Taken + L \in Nat
        <3>1. 1..MaxLines \subseteq Nat
            BY LineTypes
        <3>2. QED
            BY <1>6, <3>1, SeqMonotonic DEF LineInv
    <2>2. QED
        BY <1>1, <2>1, AppendProperties, LenProperties
<1>8. \A k \in 1..Len(ran') : ran'[k] <= Taken'
    <2>1. ASSUME NEW k \in 1..(Len(ran) + 1) PROVE ran'[k] <= Taken + d
        <3>1. k \in 1..Len(ran) \/ k = Len(ran) + 1
            BY <1>6
        <3>2. QED
            BY <1>6, <1>7, <3>1
    <2>2. QED
        BY <1>5, <1>7, <2>1
<1>9. ASSUME ~threw, \A k \in 1..Taken' : Complete(typed[k])
      PROVE  /\ \A i, j \in DOMAIN ran' : i < j => ran'[i] < ran'[j]
             /\ ToSet(ran') = {k \in 1..Taken' : typed[k] # <<>>}
    <2>1. \A k \in 1..Taken : k \in 1..Taken'
        BY <1>5, <1>6
    <2>2. /\ \A i, j \in DOMAIN ran : i < j => ran[i] < ran[j]
          /\ ToSet(ran) = {k \in 1..Taken : typed[k] # <<>>}
        BY <1>1, <1>9, <2>1 DEF LineInv, EveryLineOnce, Taken
    <2>3. typed[Taken + L] = in[L] /\ in[L] \in Seq(STRING) /\ Len(in[L]) \in Nat \ {0}
        BY <1>1, <1>2, LineTypes, EmptySeq
    <2>4. Taken + L \in 1..Taken'
        BY <1>1, <1>5, <1>6
    <2>5. in[L][1] = c
        <3>1. \A m \in 1..Len(in[L]) : Words[m] = in[L][m]
            BY <1>2
        <3>2. 1 \in 1..Len(in[L])
            BY <2>3
        <3>3. Words[1] = in[L][1]
            BY <3>1, <3>2
        <3>4. QED
            BY <1>1, <3>3
    <2>6. n + 1 \in 1..Len(in[L])
        BY <1>2, <1>9, <2>3, <2>4, <2>5
    <2>7. d = L
        BY <1>2, <2>6 DEF d
    <2>8. \A k \in 1..(L - 1) : typed[Taken + k] = <<>>
        <3>1. \A k \in 1..(L - 1) : k \in 1..Len(in)
            BY <1>1, LineTypes, SMTT(30)
        <3>2. QED
            BY <1>2, <3>1, LineTypes
    <2>9. ASSUME NEW k \in 1..(Taken + L), typed[k] # <<>> PROVE k \in 1..Taken \/ k = Taken + L
        <3>1. CASE k > Taken /\ k < Taken + L
            <4>1. k - Taken \in 1..(L - 1) /\ Taken + (k - Taken) = k
                BY <1>6, <3>1
            <4>2. QED
                BY <2>8, <2>9, <4>1
        <3>2. QED
            BY <1>6, <3>1
    <2>10. {k \in 1..Taken' : typed[k] # <<>>} = {k \in 1..Taken : typed[k] # <<>>} \cup {Taken + L}
        <3>1. Taken' = Taken + L /\ Taken + L \in 1..(Taken + L) /\ \A k \in 1..Taken : k \in 1..(Taken + L)
            BY <1>1, <1>5, <1>6, <2>7
        <3>2. typed[Taken + L] # <<>>
            BY <1>2, <2>3
        <3>3. QED
            BY <2>9, <3>1, <3>2
    <2>11. ToSet(ran') = ToSet(ran) \cup {Taken + L}
        <3>1. DOMAIN ran = 1..Len(ran) /\ Len(ran) + 1 \in 1..(Len(ran) + 1)
              /\ \A k \in 1..(Len(ran) + 1) : k \in 1..Len(ran) \/ k = Len(ran) + 1
            BY <1>6, LineTypes
        <3>2. \A k \in 1..Len(ran) : k \in 1..(Len(ran) + 1)
            BY <1>6
        <3>3. ASSUME NEW x \in ToSet(ran') PROVE x \in ToSet(ran) \cup {Taken + L}
            BY <1>7, <3>1, <3>3 DEF ToSet
        <3>4. ASSUME NEW x \in ToSet(ran) \cup {Taken + L} PROVE x \in ToSet(ran')
            BY <1>7, <3>1, <3>2, <3>4 DEF ToSet
        <3>5. QED
            BY <3>3, <3>4
    <2>12. ASSUME NEW i \in DOMAIN ran', NEW j \in DOMAIN ran', i < j PROVE ran'[i] < ran'[j]
        <3>1. i \in 1..Len(ran) /\ (j \in 1..Len(ran) \/ j = Len(ran) + 1) /\ DOMAIN ran = 1..Len(ran)
            BY <1>6, <1>7, <2>12, LineTypes
        <3>2. CASE j \in 1..Len(ran)
            BY <1>7, <2>2, <2>12, <3>1, <3>2
        <3>3. CASE j = Len(ran) + 1
            BY <1>1, <1>6, <1>7, <3>1, <3>3
        <3>4. QED
            BY <3>1, <3>2, <3>3
    <2>13. QED
        BY <2>2, <2>10, <2>11, <2>12
<1>10. EveryLineOnce'
    BY <1>9 DEF EveryLineOnce, Taken
<1>11. QED
    BY <1>1, <1>5, <1>8, <1>10 DEF LineInv

LEMMA PromptsAgain ==
    ASSUME LineInv, NEW c, NEW n \in Nat, Takes(c, n), NextPrompt(n), typed' = typed, threw' = threw,
           \A line \in Seq(STRING) : line # <<>> /\ line[1] = c /\ Complete(line) => Len(line) > n
    PROVE  LineInv'
<1>1. CASE Len(Words) > n
    BY <1>1, RunsOneLine DEF NextPrompt
<1>2. CASE ~(Len(Words) > n)
    <2>1. in' = <<>> /\ pc' = "spin"
        BY <1>2 DEF NextPrompt
    <2>2. QED
        BY <2>1, AllConsumed, Counted, Elsewhere
<1>3. QED
    BY <1>1, <1>2

\* The first word stands before the second one, where there are two.
LEMMA LineOrder ==
    ASSUME in \in Seq(Seq(STRING))
    PROVE  LineOf(1) \in Nat /\ LineOf(2) \in Nat /\ LineOf(1) <= LineOf(2)
<1> DEFINE Before(n) == {k \in 0..Len(in) : Len(FlattenSeq(SubSeq(in, 1, k))) < n}
<1>1. \A k \in 0..Len(in) : Len(FlattenSeq(SubSeq(in, 1, k))) \in Nat
    <2>1. PICK f \in [0..Len(in) -> Seq(STRING)] : \A k \in 0..Len(in) : FlattenSeq(SubSeq(in, 1, k)) = f[k]
        BY LineByLine
    <2>2. \A k \in 0..Len(in) : Len(f[k]) \in Nat
        BY LenProperties
    <2>3. QED
        BY <2>1, <2>2
<1>2. IsFiniteSet(0..Len(in))
    <2>1. 0 \in Int /\ Len(in) \in Int
        BY LenProperties
    <2>2. QED
        BY <2>1, FS_Interval
<1>3. Before(1) \in SUBSET Before(2) /\ Before(2) \in SUBSET (0..Len(in))
    BY <1>1
<1>4. LineOf(1) = Cardinality(Before(1)) /\ LineOf(2) = Cardinality(Before(2))
    BY DEF LineOf
<1> HIDE DEF Before
<1>5. IsFiniteSet(Before(2))
    BY <1>2, <1>3, FS_Subset
<1>6. IsFiniteSet(Before(1)) /\ Cardinality(Before(1)) <= Cardinality(Before(2))
    BY <1>3, <1>5, FS_Subset
<1>7. QED
    BY <1>4, <1>5, <1>6, FS_CardinalityType

LEMMA ThrowsKeeps == LineInv /\ SetGlobalThrows => LineInv'
<1> SUFFICES ASSUME LineInv, SetGlobalThrows PROVE LineInv'
    OBVIOUS
<1>1. Takes("setglobal", 1) /\ threw' = TRUE /\ typed' = typed
    BY DEF SetGlobalThrows
<1>2. /\ pc = "prompt" /\ LineOf(1) \in 1..Len(in)
      /\ ran' = Append(ran, Taken + LineOf(1)) /\ ran' \in Seq(1..MaxLines)
    BY <1>1, Counted
<1>3. CASE Len(Behind(2)) > 0
    <2>1. in' = Tail(Behind(2)) /\ pc' = "prompt"
        BY <1>2, <1>3 DEF SetGlobalThrows
    <2>2. Len(in) \in Nat /\ LineOf(1) \in Nat /\ LineOf(2) \in Nat /\ LineOf(1) <= LineOf(2)
        BY LineOrder, LineTypes DEF LineInv
    <2>3. LineOf(2) + 1 <= Len(in)
        <3>1. LineOf(2) + 1 > Len(in) => Behind(2) = <<>>
            <4>1. LineOf(2) + 1 \in Int /\ Len(in) \in Int
                BY <2>2
            <4>2. QED
                BY <4>1, SubSeqEmpty DEF Behind
        <3>2. Behind(2) # <<>>
            BY <1>3
        <3>3. QED
            BY <2>2, <3>1, <3>2
    <2>4. /\ Behind(2) \in Seq(Seq(STRING)) /\ Len(Behind(2)) = Len(in) - LineOf(2)
          /\ \A k \in 1..Len(Behind(2)) : Behind(2)[k] = in[LineOf(2) + k]
        BY <2>2, <2>3, BehindIs, SMTT(30)
    <2>5. /\ in' \in Seq(Seq(STRING)) /\ Len(in') = Len(Behind(2)) - 1
          /\ \A k \in 1..Len(in') : in'[k] = Behind(2)[k + 1]
        BY <1>3, <2>1, <2>4, HeadTailProperties
    <2> DEFINE d == LineOf(2) + 1
    <2>6. d \in 0..Len(in) /\ Len(in') = Len(in) - d /\ \A k \in 1..Len(in') : in'[k] = in[d + k]
        <3>1. Len(in') = Len(in) - d
            BY <2>2, <2>4, <2>5
        <3>2. ASSUME NEW k \in 1..Len(in') PROVE in'[k] = in[d + k]
            <4>1. k + 1 \in 1..Len(Behind(2)) /\ LineOf(2) + (k + 1) = d + k
                BY <2>2, <2>3, <2>4, <3>1, SMTT(30)
            <4>2. QED
                BY <2>4, <2>5, <4>1
        <3>3. QED
            BY <2>2, <2>3, <3>1, <3>2
    <2>7. Unread' /\ Taken' = Taken + d
        <3> HIDE DEF d
        <3>1. QED
            BY <1>1, <2>5, <2>6, Consumed
    <2>8. ASSUME NEW k \in 1..Len(ran') PROVE ran'[k] <= Taken'
        <3>1. Taken \in Nat /\ Len(ran) \in Nat /\ \A i \in 1..Len(ran) : ran[i] \in Nat /\ ran[i] <= Taken
            <4>1. \A i \in 1..Len(ran) : ran[i] \in 1..MaxLines /\ ran[i] <= Taken
                BY <1>2, LineTypes DEF LineInv
            <4>2. QED
                BY <4>1, LineTypes
        <3>2. ran'[k] \in {Taken + LineOf(1)} \cup {ran[i] : i \in 1..Len(ran)}
            <4>1. ran \in Seq(Nat) /\ Taken + LineOf(1) \in Nat
                <5>1. 1..MaxLines \subseteq Nat
                    BY LineTypes
                <5>2. ran \in Seq(Nat)
                    BY <5>1, SeqMonotonic DEF LineInv
                <5>3. QED
                    BY <2>2, <3>1, <5>2
            <4>2. /\ Len(ran') = Len(ran) + 1 /\ ran'[Len(ran) + 1] = Taken + LineOf(1)
                  /\ \A i \in 1..Len(ran) : ran'[i] = ran[i]
                BY <1>2, <4>1, AppendProperties
            <4>3. k \in 1..Len(ran) \/ k = Len(ran) + 1
                BY <3>1, <4>2
            <4>4. QED
                BY <4>2, <4>3
        <3>3. QED
            BY <2>2, <2>7, <3>1, <3>2, SMTT(30)
    <2>9. QED
        BY <1>1, <1>2, <2>1, <2>5, <2>7, <2>8 DEF LineInv, EveryLineOnce
<1>4. CASE ~(Len(Behind(2)) > 0)
    <2>1. in' = <<>> /\ pc' = "spin"
        BY <1>4 DEF SetGlobalThrows
    <2>2. QED
        BY <1>1, <1>2, <2>1, AllConsumed, Elsewhere
<1>5. QED
    BY <1>3, <1>4

\* The words the commands read are those a complete line has.
LEMMA Enough ==
    ASSUME NEW line \in Seq(STRING), line # <<>>, Complete(line)
    PROVE  Len(line) \in Nat /\ Len(line) > WordsOf(line[1]) /\ Len(line) > 0
BY EmptySeq DEF Complete

LEMMA LooperLines == LineInv /\ Looper => LineInv'
<1> SUFFICES ASSUME LineInv, Looper PROVE LineInv'
    OBVIOUS
<1>1. CASE Quit
    <2>1. PICK q : Takes(q, 0)
        BY <1>1 DEF Quit
    <2>2. pc' = "exited" /\ UNCHANGED <<in, typed>>
        BY <1>1 DEF Quit, Return, Exit, iovars
    <2>3. QED
        BY <2>1, <2>2, Counted, Elsewhere DEF LineInv, Unread, Taken
<1>2. CASE Plain
    <2>1. PICK c \in (UNION {ToSet(l) : l \in Lines}) \ Reading : Takes(c, 0)
        BY <1>2 DEF Plain
    <2>2. pc' = "prompt" /\ in' = Behind(0 + 1) /\ UNCHANGED <<typed, threw>>
        BY <1>2, <2>1 DEF Plain, Takes
    <2>3. Len(Words) > 0
        BY <2>1, Counted, FirstLine, EmptySeq DEF LineInv
    <2>4. QED
        BY <2>1, <2>2, <2>3, RunsOneLine, Enough
<1>3. CASE Named
    <2>1. PICK c \in OneWord : Takes(c, 1)
        BY <1>3 DEF Named
    <2>2. WordsOf(c) = 1
        BY DEF OneWord, WordsOf, Reading
    <2>3. NextPrompt(1) /\ UNCHANGED <<typed, threw>>
        BY <1>3 DEF Named
    <2>4. QED
        BY <2>1, <2>2, <2>3, PromptsAgain, Enough
<1>4. CASE DumpFile
    <2>1. WordsOf("dumpfile") = 2
        BY DEF WordsOf
    <2>2. Takes("dumpfile", 2) /\ NextPrompt(2) /\ UNCHANGED <<typed, threw>>
        BY <1>4 DEF DumpFile
    <2>3. QED
        BY <2>1, <2>2, PromptsAgain, Enough
<1>5. CASE MemImport
    <2>1. WordsOf("memimport") = 1
        BY DEF WordsOf, Reading, OneWord
    <2>2. Takes("memimport", 1) /\ UNCHANGED <<typed, threw>>
        BY <1>5 DEF MemImport
    <2>3. CASE NextPrompt(1)
        BY <2>1, <2>2, <2>3, PromptsAgain, Enough
    <2>4. CASE pc' = "dead" /\ in' = in
        BY <2>2, <2>4, Counted, Elsewhere DEF LineInv, Unread, Taken
    <2>5. QED
        BY <1>5, <2>3, <2>4 DEF MemImport, Die
<1>6. CASE Invoke \/ SetGlobal
    <2>1. WordsOf("invoke") = 1 /\ WordsOf("setglobal") = 1
        BY DEF WordsOf, Reading, OneWord
    <2>2. PICK c \in {"invoke", "setglobal"} : Takes(c, 1)
        BY <1>6 DEF Invoke, SetGlobal
    <2>3. NextPrompt(1) /\ UNCHANGED <<typed, threw>>
        BY <1>6 DEF Invoke, SetGlobal
    <2>4. QED
        BY <2>1, <2>2, <2>3, PromptsAgain, Enough
<1>7. CASE SetGlobalThrows
    BY <1>7, ThrowsKeeps
<1>8. CASE SingleRunCommand
    <2>1. PICK n \in {2, 3} : Takes("singlerun", n) /\ (Seed => n = 3)
        BY <1>8 DEF SingleRunCommand
    <2>2. UNCHANGED <<typed, threw>>
        BY <1>8 DEF SingleRunCommand
    <2>3. CASE Seed
        <3>1. NextPrompt(3) /\ Takes("singlerun", 3)
            BY <1>8, <2>1, <2>3 DEF SingleRunCommand
        <3>2. WordsOf("singlerun") = 3
            BY DEF WordsOf
        <3>3. QED
            BY <2>2, <3>1, <3>2, PromptsAgain, Enough
    <2>4. CASE ~Seed
        <3>1. in' = <<>> /\ pc' = "spin"
            BY <1>8, <2>4 DEF SingleRunCommand
        <3>2. QED
            BY <2>1, <2>2, <3>1, AllConsumed, Counted, Elsewhere
    <2>5. QED
        BY <2>3, <2>4
<1>9. CASE EndOfInput
    <2>1. in' = <<>> /\ pc' = "spin" /\ UNCHANGED <<typed, ran>>
        BY <1>9 DEF EndOfInput
    <2>2. QED
        BY <2>1, AllConsumed, Elsewhere DEF LineInv
<1>10. QED
    BY <1>1, <1>2, <1>3, <1>4, <1>5, <1>6, <1>7, <1>8, <1>9 DEF Looper

LEMMA LineInit == Init => LineInv
<1> SUFFICES ASSUME Init PROVE LineInv
    OBVIOUS
<1>1. in = <<>> /\ typed = <<>> /\ ran = <<>> /\ pc = "start"
    BY DEF Init
<1>2. Len(<<>>) = 0 /\ <<>> \in Seq(Seq(STRING)) /\ <<>> \in Seq(Lines) /\ <<>> \in Seq(1..MaxLines)
    BY EmptySeq
<1>3. Taken = 0 /\ Unread
    BY <1>1, <1>2 DEF Unread, Taken
<1>4. QED
    BY <1>1, <1>2, <1>3, LinesAssumption DEF LineInv, EveryLineOnce

\* Before the first prompt, and after the last one.
LEMMA ModeLines == LineInv /\ ((Works /\ ~Looper) \/ Crash) => LineInv'
<1> SUFFICES ASSUME LineInv, (Works /\ ~Looper) \/ Crash PROVE LineInv'
    OBVIOUS
<1>1. CASE ReadCommandLine \/ BadCommandLine \/ InitializeModule \/ Single \/ InvokeOnce \/ OtherMode \/ Crash
    <2>1. UNCHANGED <<in, typed, ran>>
        BY <1>1 DEF ReadCommandLine, BadCommandLine, InitializeModule, Single, InvokeOnce, OtherMode, Crash, iovars
    <2>2. pc' \in {"exited", "dead"} \/ (pc \in {"start", "run"} /\ pc' \in {"start", "run"})
        BY <1>1 DEF ReadCommandLine, BadCommandLine, InitializeModule, Single, InvokeOnce, OtherMode, Crash,
           ReturnOf, RunResults, Return, Exit, Die
    <2>3. Unread' /\ Taken' = Taken
        BY <2>1 DEF LineInv, Unread, Taken
    <2>4. QED
        BY <2>1, <2>2, <2>3 DEF LineInv, EveryLineOnce
<1>2. CASE Interactive
    <2>1. UNCHANGED <<in, typed, ran>> /\ pc = "run" /\ pc' = "prompt"
        BY <1>2 DEF Interactive, Mode, iovars
    <2>2. Unread' /\ Taken' = Taken /\ Taken = 0 /\ ran = <<>>
        BY <2>1 DEF LineInv, Unread, Taken
    <2>3. ToSet(<<>>) = {} /\ DOMAIN <<>> = {}
        BY DEF ToSet
    <2>4. EveryLineOnce'
        BY <2>1, <2>2, <2>3 DEF EveryLineOnce, Taken
    <2>5. QED
        BY <2>1, <2>2, <2>4 DEF LineInv
<1>3. CASE Debug
    <2>1. UNCHANGED <<typed, ran>> /\ pc' \in {"exited", "dead"} /\ (in' = in \/ (in # <<>> /\ in' = Tail(in)))
        BY <1>3 DEF Debug, ReturnOf, RunResults, Return, Exit, Die
    <2>2. CASE in' = in
        BY <2>1, <2>2, Elsewhere DEF LineInv, Unread, Taken
    <2>3. CASE in # <<>> /\ in' = Tail(in)
        <3>1. /\ in' \in Seq(Seq(STRING)) /\ Len(in') = Len(in) - 1 /\ Len(in) \in Nat \ {0}
              /\ \A k \in 1..Len(in') : in'[k] = in[k + 1]
            BY <2>3, HeadTailProperties, EmptySeq DEF LineInv
        <3>2. 1 \in 0..Len(in) /\ \A k \in 1..Len(in') : in'[k] = in[1 + k]
            BY <3>1
        <3>3. Unread'
            BY <2>1, <3>1, <3>2, Consumed
        <3>4. QED
            BY <2>1, <3>1, <3>3, Elsewhere DEF LineInv
    <2>4. QED
        BY <2>1, <2>2, <2>3
<1>4. QED
    BY <1>1, <1>2, <1>3 DEF Works

LEMMA TypingLines == LineInv /\ (TypeLine \/ CloseInput) => LineInv'
<1> SUFFICES ASSUME LineInv, TypeLine \/ CloseInput PROVE LineInv'
    OBVIOUS
<1>1. UNCHANGED <<ran, pc, threw>>
    BY DEF TypeLine, CloseInput
<1>2. CASE TypeLine
    <2>1. PICK line \in Lines : in' = Append(in, line) /\ typed' = Append(typed, line)
        BY <1>2 DEF TypeLine
    <2>2. Len(typed) < MaxLines
        BY <1>2 DEF TypeLine
    <2>3. line \in Seq(STRING)
        BY LinesAssumption
    <2>4. /\ in' \in Seq(Seq(STRING)) /\ Len(in') = Len(in) + 1 /\ in'[Len(in) + 1] = line
          /\ \A k \in 1..Len(in) : in'[k] = in[k]
        BY <2>1, <2>3, AppendProperties DEF LineInv
    <2>5. /\ typed' \in Seq(Lines) /\ Len(typed') = Len(typed) + 1 /\ typed'[Len(typed) + 1] = line
          /\ \A k \in 1..Len(typed) : typed'[k] = typed[k]
        BY <2>1, AppendProperties DEF LineInv
    <2>6. Len(in) \in Nat /\ Len(typed) \in Nat /\ Taken \in Nat /\ Taken + Len(in) = Len(typed) /\ MaxLines \in Nat
        BY LineTypes
    <2>7. Taken' = Taken
        BY <2>4, <2>5, <2>6 DEF Taken
    <2>8. ASSUME NEW k \in 1..Len(in') PROVE in'[k] = typed'[Taken' + k]
        <3>1. CASE k = Len(in) + 1
            <4>1. Taken + k = Len(typed) + 1
                BY <2>6, <3>1
            <4>2. QED
                BY <2>4, <2>5, <2>7, <3>1, <4>1
        <3>2. CASE k # Len(in) + 1
            <4>1. k \in 1..Len(in) /\ Taken + k \in 1..Len(typed)
                BY <2>4, <2>6, <3>2
            <4>2. QED
                BY <2>4, <2>5, <2>7, <4>1, LineTypes
        <3>3. QED
            BY <3>1, <3>2
    <2>9. Unread' /\ Len(typed') <= MaxLines
        BY <2>2, <2>4, <2>5, <2>6, <2>8 DEF LineInv, Unread
    <2>10. \A k \in 1..Taken : k \in 1..Len(typed) /\ typed'[k] = typed[k]
        BY <2>5, <2>6
    <2>11. EveryLineOnce'
        <3>1. {k \in 1..Taken : typed'[k] # <<>>} = {k \in 1..Taken : typed[k] # <<>>}
            BY <2>10
        <3>2. (\A k \in 1..Taken : Complete(typed'[k])) <=> (\A k \in 1..Taken : Complete(typed[k]))
            BY <2>10
        <3>3. QED
            BY <1>1, <2>7, <3>1, <3>2 DEF LineInv, EveryLineOnce, Taken
    <2>12. QED
        BY <1>1, <2>4, <2>5, <2>7, <2>9, <2>11 DEF LineInv
<1>3. CASE CloseInput
    <2>1. UNCHANGED <<in, typed>>
        BY <1>3 DEF CloseInput
    <2>2. QED
        BY <1>1, <2>1 DEF LineInv, Unread, Taken, EveryLineOnce
<1>4. QED
    BY <1>2, <1>3

LEMMA LineHolding == Spec => []LineInv
<1>1. LineInv /\ [Next]_vars => LineInv'
    <2> SUFFICES ASSUME LineInv, [Next]_vars PROVE LineInv'
        OBVIOUS
    <2>1. CASE Rest \/ UNCHANGED vars
        BY <2>1 DEF Rest, vars, iovars, LineInv, Unread, Taken, EveryLineOnce
    <2>2. QED
        BY <2>1, LooperLines, ModeLines, TypingLines DEF Next
<1>2. QED
    BY <1>1, LineInit, PTL DEF Spec

\* Looper: getline and the words read leave every command to its own line.
THEOREM LinesRunOnce == Spec => []EveryLineOnce
<1>1. LineInv => EveryLineOnce
    BY DEF LineInv
<1>2. QED
    BY <1>1, LineHolding, PTL

\* The types of what is no list of lines.
Scalars ==
    /\ program \in Programs /\ cl \in {"reading", "parsed", "refused", "dead", "left"}
    /\ pc \in {"start", "run", "prompt", "spin", "exited", "dead"}
    /\ engine \in Engines /\ status \in 0..255 /\ closed \in BOOLEAN /\ threw \in BOOLEAN
    /\ given \in Descriptor /\ fd3 \in Descriptor
    /\ log \in {"none", "given", "file", "stdout", "lost"} /\ leaked \in Nat /\ returned \in Results \cup {Void}

\* A status is a byte, whatever Run returns.
LEMMA ReturnsByte == ASSUME NEW ret \in {-1, 0}, Return(ret) PROVE pc' = "exited" /\ status' \in 0..255
<1>1. ret % 256 \in {0, 255}
    BY Failures
<1>2. QED
    BY <1>1 DEF Return, Exit

LEMMA RunTypes ==
    ASSUME Scalars, NEW memory, NEW out \in Descriptor \cup {"file"}, NEW available, NEW result,
           SingleRun(memory, out, available, result)
    PROVE  log' \in {"none", "given", "file", "stdout", "lost"} /\ returned' \in Results \cup {Void}
BY DEF Scalars, SingleRun, Sinks, Descriptor

LEMMA CommandLineTypes == Scalars /\ CommandLineNext => program' \in Programs /\ cl' \in {"reading", "parsed", "refused", "dead"}
<1> SUFFICES ASSUME Scalars, CommandLineNext PROVE program' \in Programs /\ cl' \in {"reading", "parsed", "refused", "dead"}
    OBVIOUS
<1>1. program' = program
    BY DEF CommandLineNext
<1>2. ASSUME NEW o \in DOMAIN option, Consume(o) \/ Set(o) \/ MissingValue(o)
      PROVE  cl' \in {"reading", "parsed", "refused", "dead"}
    BY <1>2 DEF Consume, Set, MissingValue, Reads
<1>3. QED
    BY <1>1, <1>2 DEF CommandLineNext, Unknown, ValidateRequire, Scalars

LEMMA ScalarsNext == Scalars /\ [Next]_vars => Scalars'
<1> SUFFICES ASSUME Scalars, [Next]_vars PROVE Scalars'
    OBVIOUS
<1> DEFINE Outs == UNCHANGED <<fd3, leaked, log, returned>>
           Mains == UNCHANGED <<program, cl, engine, given>>
<1>1. CASE ReadCommandLine
    BY <1>1, CommandLineTypes DEF ReadCommandLine, Scalars, iovars, outvars
<1>2. CASE BadCommandLine \/ InitializeModule \/ InvokeOnce \/ OtherMode \/ Quit \/ Crash
    <2>1. Outs /\ Mains /\ UNCHANGED <<closed, threw>>
        BY <1>2 DEF BadCommandLine, InitializeModule, InvokeOnce, OtherMode, Quit, Crash, clvars, iovars, outvars
    <2>2. \/ Exit(255) \/ Die \/ Return(-1) \/ Return(0) \/ (pc' = "run" /\ status' = status)
        BY <1>2 DEF BadCommandLine, InitializeModule, InvokeOnce, OtherMode, Quit, Crash
    <2>3. pc' \in {"run", "exited", "dead"} /\ status' \in 0..255
        BY <2>2, ReturnsByte DEF Exit, Die, Scalars
    <2>4. QED
        BY <2>1, <2>3 DEF Scalars
<1>3. CASE Interactive
    BY <1>3 DEF Interactive, Mode, Scalars, iovars, outvars
<1>4. CASE Single \/ Debug
    <2>1. PICK result \in RunResults :
              SingleRun(option["-memory"], fd3, files, result) /\ ReturnOf(result) /\ fd3' = Leaves(fd3)
        BY <1>4 DEF Single, Debug
    <2>2. leaked' = leaked /\ Mains /\ UNCHANGED <<closed, threw>>
        BY <1>4 DEF Single, Debug, clvars, iovars
    <2>3. fd3' \in Descriptor /\ log' \in {"none", "given", "file", "stdout", "lost"} /\ returned' \in Results \cup {Void}
        BY <2>1, RunTypes DEF Scalars, Leaves, Descriptor
    <2>4. pc' \in {"exited", "dead"} /\ status' \in 0..255
        BY <2>1, ReturnsByte DEF ReturnOf, RunResults, Die, Scalars
    <2>5. QED
        BY <2>2, <2>3, <2>4 DEF Scalars
<1>5. CASE Plain \/ Named \/ DumpFile \/ MemImport \/ Invoke \/ SetGlobal \/ SetGlobalThrows \/ EndOfInput
    <2>1. Outs /\ Mains /\ UNCHANGED <<closed, status>> /\ threw' \in {threw, TRUE}
        BY <1>5 DEF Plain, Named, DumpFile, MemImport, Invoke, SetGlobal, SetGlobalThrows, EndOfInput,
           NextPrompt, Die, clvars, outvars
    <2>2. pc' \in {"prompt", "spin", "dead"}
        BY <1>5 DEF Plain, Named, DumpFile, MemImport, Invoke, SetGlobal, SetGlobalThrows, EndOfInput,
           NextPrompt, Die, Takes
    <2>3. threw' \in BOOLEAN
        <3>1. threw \in BOOLEAN /\ threw' \in {threw, TRUE}
            BY <2>1 DEF Scalars
        <3>2. QED
            BY <3>1
    <2>4. QED
        BY <2>1, <2>2, <2>3 DEF Scalars
<1>6. CASE SingleRunCommand
    <2>1. PICK opened \in BOOLEAN, result \in RunResults :
              /\ leaked' = (IF opened /\ fd3 # "closed" THEN leaked + 1 ELSE leaked)
              /\ SingleRun(IF Seed /\ Len(Words) > 3 THEN Words[4] ELSE Argument(1), IF opened THEN "file" ELSE fd3,
                           IF opened THEN files \cup {Argument(1)} ELSE files, result)
              /\ fd3' = IF result = "throws" THEN Leaves(IF opened THEN "file" ELSE fd3) ELSE "closed"
        BY <1>6 DEF SingleRunCommand
    <2>2. Mains /\ UNCHANGED <<closed, threw, status>> /\ pc' \in {"prompt", "spin"}
        BY <1>6 DEF SingleRunCommand, NextPrompt, clvars
    <2>3. (IF opened THEN "file" ELSE fd3) \in Descriptor \cup {"file"} /\ leaked' \in Nat /\ fd3' \in Descriptor
        BY <2>1 DEF Scalars, Leaves, Descriptor
    <2>4. log' \in {"none", "given", "file", "stdout", "lost"} /\ returned' \in Results \cup {Void}
        BY <2>1, <2>3, RunTypes
    <2>5. QED
        BY <2>2, <2>3, <2>4 DEF Scalars
<1>7. CASE TypeLine \/ CloseInput
    <2>1. Outs /\ Mains /\ UNCHANGED <<pc, status, threw>>
        BY <1>7 DEF TypeLine, CloseInput, clvars, outvars
    <2>2. closed' \in BOOLEAN
        <3>1. closed' = closed \/ closed' = TRUE
            BY <1>7 DEF TypeLine, CloseInput
        <3>2. closed \in BOOLEAN
            BY DEF Scalars
        <3>3. QED
            BY <3>1, <3>2
    <2>3. QED
        BY <2>1, <2>2 DEF Scalars
<1>8. CASE Rest \/ UNCHANGED vars
    <2>1. Outs /\ Mains /\ UNCHANGED <<pc, status, threw, closed>>
        BY <1>8 DEF Rest, vars, clvars, iovars, outvars
    <2>2. QED
        BY <2>1 DEF Scalars
<1>9. QED
    BY <1>1, <1>2, <1>3, <1>4, <1>5, <1>6, <1>7, <1>8 DEF Next, Works, Looper

\* The variables keep their types, for any lines and results; a line counts at
\* most once for every line typed.
THEOREM TypeCorrect == Spec => []TypeOK
<1>1. ASSUME Init PROVE Scalars
    <2>1. program \in Programs /\ cl = "reading" /\ pc = "start" /\ status = 0 /\ log = "none" /\ leaked = 0
        BY <1>1 DEF Init, CommandLineInit
    <2>2. closed = FALSE /\ threw = FALSE
        BY <1>1 DEF Init
    <2>3. engine \in Engines /\ given \in Descriptor /\ fd3 = given /\ returned = Void
        BY <1>1 DEF Init
    <2>4. closed \in BOOLEAN /\ threw \in BOOLEAN
        BY <2>2
    <2>5. QED
        BY <2>1, <2>3, <2>4 DEF Scalars
<1>2. Scalars /\ LineInv => TypeOK
    BY DEF Scalars, LineInv, TypeOK
<1>3. QED
    BY <1>1, <1>2, ScalarsNext, LineHolding, PTL DEF Spec
-----------------------------------------------------------------------------
(***************************************************************************)
(* The command line.  The loop of CommandLineConsumer goes from place to   *)
(* place, and whoever splits the whole line into options and values has    *)
(* the places it has passed: there is at most one way to split it.         *)
(***************************************************************************)
\* The place of the next word.
Place == Len(argv) - Len(items) + 1

\* F are the places of the options before place k.
Passed(F, k) ==
    /\ k \in 1..(Len(argv) + 1) /\ F \subseteq 1..(k - 1) /\ (k = 1 \/ 1 \in F)
    /\ \A i \in F : argv[i] \in DOMAIN option /\ i + Width(i) \in F \cup {k}
    /\ \A j \in (F \cup {k}) \ {1} : \E i \in F : j = i + Width(i)
    /\ \A G \in Places : G \cap (1..(k - 1)) = F /\ (k <= Len(argv) => k \in G)

At(F, o) == {i \in F : argv[i] = o}

\* The options have the values their last places say.
Valued(F) ==
    /\ \A i \in F : Kind(argv[i]) = "number" => argv[i + 1] \in DOMAIN Numeric
    /\ \A o \in DOMAIN option :
           IF At(F, o) = {} THEN option[o] = NotSet
           ELSE \E i \in At(F, o) : option[o] = Says(F, i) /\ \A j \in At(F, o) : j <= i

ReadSoFar ==
    /\ items \in Seq(STRING) /\ Len(items) <= Len(argv)
    /\ \A j \in 1..Len(items) : items[j] = argv[Place - 1 + j]
    /\ \E F \in SUBSET (1..Len(argv)) : Passed(F, Place) /\ Valued(F)

ReadWhole == \E F \in SUBSET (1..Len(argv)) : Passed(F, Len(argv) + 1) /\ Valued(F) /\ Readable(F)

Unreadable == \A F \in Places : ~Readable(F)

WordsInv ==
    /\ program \in Programs /\ DOMAIN option = DOMAIN Options[program]
    /\ argv \in Seq(STRING) /\ \A k \in 1..Len(argv) : argv[k] # NotSet
    /\ cl = "reading" => ReadSoFar
    /\ cl = "parsed" => ReadWhole
    /\ cl \in {"refused", "dead"} => Unreadable

\* What the programs register.
LEMMA Kinds ==
    ASSUME program \in Programs, NEW o \in DOMAIN Options[program] PROVE Kind(o) \in {"nothing", "text", "number"}
BY DEF Programs, Options, TesterOptions, CoordinatorOptions, GeneratorOptions, Kind

LEMMA RequiredRegistered == ASSUME program \in Programs PROVE Required[program] \subseteq DOMAIN Options[program]
BY DEF Programs, Options, TesterOptions, CoordinatorOptions, GeneratorOptions, Required

LEMMA Widths == ASSUME NEW i PROVE Width(i) \in {1, 2} /\ (Width(i) = 1 <=> Kind(argv[i]) = "nothing")
BY DEF Width

\* Past an option and its value: no place of another split is between them.
LEMMA NextPlace ==
    ASSUME argv \in Seq(STRING), NEW F, NEW k, Passed(F, k), k <= Len(argv), argv[k] \in DOMAIN option,
           NEW H, H = F \cup {k}, NEW m, m = k + Width(k), m <= Len(argv) + 1
    PROVE  Passed(H, m)
<1>1. Len(argv) \in Nat /\ k \in 1..Len(argv) /\ Width(k) \in {1, 2}
    BY Widths, LenProperties DEF Passed
<1>2. F \subseteq 1..(k - 1) /\ (k = 1 \/ 1 \in F)
    BY DEF Passed
<1>3. \A i \in F : argv[i] \in DOMAIN option /\ i + Width(i) \in H
    BY DEF Passed
<1>4. \A j \in H \ {1} : \E i \in F : j = i + Width(i)
    BY DEF Passed
<1>5. \A G \in Places : G \cap (1..(k - 1)) = F /\ k \in G
    BY DEF Passed
<1>6. m \in 1..(Len(argv) + 1) /\ H \subseteq 1..(m - 1) /\ (m = 1 \/ 1 \in H)
    BY <1>1, <1>2
<1>7. \A i \in H : argv[i] \in DOMAIN option /\ i + Width(i) \in H \cup {m}
    BY <1>3
<1>8. \A j \in (H \cup {m}) \ {1} : \E i \in H : j = i + Width(i)
    BY <1>4
<1>9. ASSUME NEW G \in Places PROVE G \cap (1..(m - 1)) = H /\ (m <= Len(argv) => m \in G)
    <2>1. G \subseteq 1..Len(argv) /\ (\A i \in G : i + Width(i) \in G \/ i + Width(i) = Len(argv) + 1)
          /\ (\A j \in G \ {1} : \E i \in G : j = i + Width(i))
        BY LenProperties DEF Places
    <2>2. G \cap (1..(k - 1)) = F /\ k \in G
        BY <1>5
    <2>3. m <= Len(argv) => m \in G
        BY <1>1, <2>1, <2>2
    <2>4. k + 1 \in G => m = k + 1
        <3> SUFFICES ASSUME k + 1 \in G, Width(k) = 2 PROVE FALSE
            BY <1>1
        <3>1. PICK i \in G : k + 1 = i + Width(i)
            BY <1>1, <2>1
        <3>2. i \in 1..Len(argv) /\ Width(i) \in {1, 2}
            BY <2>1, Widths
        <3>3. i = k \/ i = k - 1
            BY <1>1, <3>1, <3>2
        <3>4. i \in F
            BY <1>1, <2>2, <3>1, <3>2, <3>3
        <3>5. k + 1 \in H
            BY <1>3, <3>1, <3>4
        <3>6. QED
            BY <1>1, <1>2, <3>5
    <2>5. G \cap (1..(m - 1)) = (G \cap (1..(k - 1))) \cup {k}
        BY <1>1, <2>1, <2>2, <2>4
    <2>6. QED
        BY <2>2, <2>3, <2>5
<1>10. QED
    BY <1>6, <1>7, <1>8, <1>9, Zenon DEF Passed

\* What has been passed depends on the options registered, not on their values.
LEMMA StillPassed ==
    ASSUME UNCHANGED <<program, argv>>, DOMAIN option' = DOMAIN option, NEW F, NEW k, Passed(F, k)
    PROVE  Passed(F, k)'
<1>1. \A i : Width(i)' = Width(i)
    BY DEF Width, Kind
<1>2. Places' = Places
    BY <1>1 DEF Places
<1>3. QED
    BY <1>1, <1>2 DEF Passed

\* The option at place k takes the value it is given there.
LEMMA TakesValue ==
    ASSUME WordsInv, NEW F, NEW k, Passed(F, k), Valued(F), k <= Len(argv), argv[k] \in DOMAIN option,
           Kind(argv[k]) = "number" => argv[k + 1] \in DOMAIN Numeric,
           option' = [option EXCEPT ![argv[k]] = Says(F, k)], UNCHANGED <<program, argv>>
    PROVE  Valued(F \cup {k})'
<1>1. F \subseteq 1..(k - 1) /\ k \in Int
    BY DEF Passed
<1>2. \A i \in F \cup {k} : Kind(argv[i])' = Kind(argv[i]) /\ Says(F \cup {k}, i)' = Says(F, i)
    BY DEF Kind, Says
<1>3. \A i \in F \cup {k} : (Kind(argv[i]) = "number" => argv[i + 1] \in DOMAIN Numeric)'
    BY <1>2 DEF Valued
<1>4. ASSUME NEW o \in DOMAIN option
      PROVE  IF At(F \cup {k}, o)' = {} THEN option'[o] = NotSet
             ELSE \E i \in At(F \cup {k}, o)' : option'[o] = Says(F \cup {k}, i)' /\ \A j \in At(F \cup {k}, o)' : j <= i
    <2>1. CASE o = argv[k]
        <3>1. At(F \cup {k}, o)' = At(F, o) \cup {k}
            BY <2>1 DEF At
        <3>2. option'[o] = Says(F \cup {k}, k)'
            BY <1>2, <2>1
        <3>3. \A j \in At(F, o) \cup {k} : j <= k
            BY <1>1 DEF At
        <3>4. QED
            BY <3>1, <3>2, <3>3
    <2>2. CASE o # argv[k]
        <3>1. At(F \cup {k}, o)' = At(F, o)
            BY <2>2 DEF At
        <3>2. option'[o] = option[o]
            BY <2>2
        <3>3. \A i \in At(F, o) : Says(F \cup {k}, i)' = Says(F, i)
            BY <1>2 DEF At
        <3>4. QED
            BY <3>1, <3>2, <3>3 DEF Valued
    <2>3. QED
        BY <2>1, <2>2
<1>5. QED
    BY <1>3, <1>4 DEF Valued

\* The word the loop looks at, and the one behind it.
LEMMA AtPlace ==
    ASSUME WordsInv, cl = "reading", items # <<>>
    PROVE  /\ Len(argv) \in Nat /\ Len(items) \in 1..Len(argv) /\ Place \in 1..Len(argv)
           /\ argv[Place] = Head(items) /\ Len(items) = Len(argv) - Place + 1
           /\ Len(items) > 1 => argv[Place + 1] = items[2]
<1>1. items \in Seq(STRING) /\ Len(items) <= Len(argv) /\ \A j \in 1..Len(items) : items[j] = argv[Place - 1 + j]
    BY DEF WordsInv, ReadSoFar
<1>2. Len(argv) \in Nat /\ Len(items) \in Nat /\ Len(items) # 0
    BY <1>1, EmptySeq, LenProperties DEF WordsInv
<1>3. Place \in 1..Len(argv) /\ Len(items) = Len(argv) - Place + 1
    BY <1>1, <1>2 DEF Place
<1>4. Head(items) = items[1]
    BY <1>1, HeadTailProperties
<1>5. items[1] = argv[Place - 1 + 1] /\ (Len(items) > 1 => items[2] = argv[Place - 1 + 2])
    BY <1>1, <1>2
<1>6. Place - 1 + 1 = Place /\ Place - 1 + 2 = Place + 1
    BY <1>3
<1>7. QED
    BY <1>1, <1>2, <1>3, <1>4, <1>5, <1>6

\* One option is consumed, with its value if it has one.
LEMMA Consumes ==
    ASSUME WordsInv, cl = "reading", items # <<>>, Head(items) \in DOMAIN option, Width(Place) <= Len(items),
           items' \in Seq(STRING), Len(items') = Len(items) - Width(Place),
           \A j \in 1..Len(items') : items'[j] = items[j + Width(Place)],
           option' = [option EXCEPT ![Head(items)] = Says({}, Place)],
           Kind(Head(items)) = "number" => argv[Place + 1] \in DOMAIN Numeric,
           UNCHANGED <<program, argv, cl>>
    PROVE  WordsInv'
<1>1. PICK F \in SUBSET (1..Len(argv)) : Passed(F, Place) /\ Valued(F)
    BY DEF WordsInv, ReadSoFar
<1>2. PICK k \in 1..Len(argv) : k = Place
    BY AtPlace
<1>3. PICK m \in Int : m = k + Width(k)
    BY Widths
<1>4. /\ Len(argv) \in Nat /\ Len(items) \in 1..Len(argv) /\ argv[k] = Head(items)
      /\ Len(items) = Len(argv) - k + 1 /\ Width(k) \in {1, 2}
    BY <1>2, AtPlace, Widths
<1>5. m \in 2..(Len(argv) + 1) /\ k <= Len(argv)
    BY <1>2, <1>3, <1>4
<1>6. PICK H \in SUBSET (1..Len(argv)) : H = F \cup {k}
    BY <1>4
<1>7. Passed(H, m)
    <2>1. Passed(F, k) /\ k <= Len(argv) /\ argv[k] \in DOMAIN option
        BY <1>1, <1>2, <1>4, <1>5
    <2>2. m <= Len(argv) + 1 /\ argv \in Seq(STRING)
        BY <1>4, <1>5 DEF WordsInv
    <2>3. QED
        BY <1>3, <1>6, <2>1, <2>2, NextPlace
<1>8. DOMAIN option' = DOMAIN option
    OBVIOUS
<1>9. Passed(H, m)'
    BY <1>7, <1>8, StillPassed
<1>10. Valued(H)'
    <2>1. Says({}, Place) = Says(F, k)
        BY <1>2 DEF Says
    <2>2. option' = [option EXCEPT ![argv[k]] = Says(F, k)]
        BY <1>2, <1>4, <2>1
    <2>3. argv[k] \in DOMAIN option /\ (Kind(argv[k]) = "number" => argv[k + 1] \in DOMAIN Numeric)
        BY <1>2, <1>4
    <2>4. Passed(F, k) /\ Valued(F) /\ k <= Len(argv)
        BY <1>1, <1>2, <1>5
    <2>5. Valued(F \cup {k})'
        BY <2>2, <2>3, <2>4, TakesValue
    <2>6. QED
        BY <1>6, <2>5
<1>11. Place' = m /\ Len(items') \in Nat /\ Len(items') <= Len(argv)
    BY <1>2, <1>3, <1>4, <1>5 DEF Place
<1>12. ASSUME NEW j \in 1..Len(items') PROVE items'[j] = argv'[Place' - 1 + j]
    <2>1. j + Width(k) \in 1..Len(items) /\ k - 1 + (j + Width(k)) = m - 1 + j
        <3>1. PICK n \in Nat : n = Len(items') /\ n = Len(items) - Width(k)
            BY <1>2, <1>11
        <3>2. j \in 1..n
            BY <3>1
        <3>3. PICK w \in {1, 2} : w = Width(k)
            BY <1>4
        <3> PICK l \in Nat : l = Len(items)
            BY LenProperties DEF WordsInv, ReadSoFar
        <3>4. n = l - w /\ m = k + w
            BY <1>3, <3>1, <3>3
        <3>5. j + w \in 1..l /\ k - 1 + (j + w) = m - 1 + j
            BY <3>2, <3>4
        <3>6. QED
            BY <3>3, <3>5, Zenon
    <2>2. items'[j] = items[j + Width(k)]
        BY <1>2
    <2>3. items[j + Width(k)] = argv[k - 1 + (j + Width(k))]
        BY <1>2, <2>1 DEF WordsInv, ReadSoFar
    <2>4. QED
        BY <1>11, <2>1, <2>2, <2>3
<1>13. ReadSoFar'
    BY <1>6, <1>9, <1>10, <1>11, <1>12 DEF ReadSoFar
<1>14. QED
    BY <1>8, <1>13 DEF WordsInv

\* The loop is left over a line that nobody can read.
LEMMA GivesUp ==
    ASSUME WordsInv, Unreadable, cl' \in {"refused", "dead"}, UNCHANGED <<program, argv, option>>
    PROVE  WordsInv'
<1>1. \A i : Width(i)' = Width(i)
    BY DEF Width, Kind
<1>2. Places' = Places
    BY <1>1 DEF Places
<1>3. \A F : Readable(F)' <=> Readable(F)
    BY DEF Readable, Kind
<1>4. Unreadable'
    BY <1>2, <1>3 DEF Unreadable
<1>5. QED
    BY <1>4 DEF WordsInv

LEMMA ConsumeReads == WordsInv /\ (\E o \in DOMAIN option : Consume(o)) /\ UNCHANGED <<program, argv>> => WordsInv'
<1> SUFFICES ASSUME WordsInv, NEW o \in DOMAIN option, Consume(o), UNCHANGED <<program, argv>> PROVE WordsInv'
    OBVIOUS
<1>1. /\ cl = "reading" /\ items # <<>> /\ Head(items) = o /\ Kind(o) # "nothing" /\ Len(items) > 1
      /\ argv[Place] = o /\ argv[Place + 1] = items[2] /\ items \in Seq(STRING)
    BY AtPlace DEF Consume, Reads, WordsInv, ReadSoFar
<1>2. Kind(o) \in {"text", "number"} /\ Width(Place) = 2
    BY <1>1, Kinds, Widths DEF WordsInv
<1>3. CASE Kind(o) = "text" \/ items[2] \in DOMAIN Numeric
    <2>1. option' = [option EXCEPT ![Head(items)] = Says({}, Place)]
        BY <1>1, <1>2, <1>3 DEF Consume, Says
    <2>2. items' = Tail(Tail(items)) /\ cl' = cl
        BY <1>3 DEF Consume
    <2>3. /\ Tail(items) \in Seq(STRING) /\ Len(Tail(items)) = Len(items) - 1 /\ Tail(items) # <<>>
          /\ \A j \in 1..Len(Tail(items)) : Tail(items)[j] = items[j + 1]
        <3>1. /\ Tail(items) \in Seq(STRING) /\ Len(Tail(items)) = Len(items) - 1
              /\ \A j \in 1..Len(Tail(items)) : Tail(items)[j] = items[j + 1]
            BY <1>1, HeadTailProperties
        <3>2. Len(Tail(items)) # 0
            BY <1>1, <3>1, LenProperties
        <3>3. QED
            BY <3>1, <3>2, EmptySeq
    <2>4. /\ items' \in Seq(STRING) /\ Len(items') = Len(items) - 2
          /\ \A j \in 1..Len(items') : items'[j] = items[j + 2]
        <3>1. /\ items' \in Seq(STRING) /\ Len(items') = Len(Tail(items)) - 1
              /\ \A j \in 1..Len(items') : items'[j] = Tail(items)[j + 1]
            BY <2>2, <2>3, HeadTailProperties
        <3>2. Len(items) \in Nat /\ Len(items') \in Nat
            BY <1>1, <3>1, LenProperties
        <3>3. ASSUME NEW j \in 1..Len(items') PROVE items'[j] = items[j + 2]
            <4>1. j + 1 \in 1..Len(Tail(items)) /\ (j + 1) + 1 = j + 2
                BY <2>3, <3>1, <3>2
            <4>2. QED
                BY <2>3, <3>1, <4>1
        <3>4. QED
            BY <2>3, <3>1, <3>2, <3>3
    <2>5. Kind(Head(items)) = "number" => argv[Place + 1] \in DOMAIN Numeric
        BY <1>1, <1>3
    <2>6. Width(Place) <= Len(items)
        BY <1>1, <1>2, LenProperties
    <2>7. QED
        BY <1>1, <1>2, <2>1, <2>2, <2>4, <2>5, <2>6, Consumes
<1>4. CASE ~(Kind(o) = "text" \/ items[2] \in DOMAIN Numeric)
    <2>1. PICK F \in SUBSET (1..Len(argv)) : Passed(F, Place)
        BY <1>1 DEF WordsInv, ReadSoFar
    <2>2. \A G \in Places : Place \in G
        BY <1>1, <2>1, AtPlace DEF Passed
    <2>3. Unreadable
        BY <1>1, <1>2, <1>4, <2>2 DEF Unreadable, Readable
    <2>4. QED
        BY <1>4, <2>3, GivesUp DEF Consume
<1>5. QED
    BY <1>3, <1>4

LEMMA SetReads == WordsInv /\ (\E o \in DOMAIN option : Set(o)) /\ UNCHANGED <<program, argv>> => WordsInv'
<1> SUFFICES ASSUME WordsInv, NEW o \in DOMAIN option, Set(o), UNCHANGED <<program, argv>> PROVE WordsInv'
    OBVIOUS
<1>1. /\ cl = "reading" /\ items # <<>> /\ Head(items) = o /\ Kind(o) = "nothing" /\ argv[Place] = o
      /\ items \in Seq(STRING) /\ items' = Tail(items) /\ cl' = cl
    BY AtPlace DEF Set, Reads, WordsInv, ReadSoFar
<1>2. Width(Place) = 1
    BY <1>1, Widths
<1>3. option' = [option EXCEPT ![Head(items)] = Says({}, Place)]
    BY <1>1 DEF Set, Says
<1>4. /\ items' \in Seq(STRING) /\ Len(items') = Len(items) - 1
      /\ \A j \in 1..Len(items') : items'[j] = items[j + 1]
    BY <1>1, HeadTailProperties
<1>5. Width(Place) <= Len(items)
    BY <1>1, <1>2, AtPlace
<1>6. Kind(Head(items)) = "number" => argv[Place + 1] \in DOMAIN Numeric
    BY <1>1
<1>7. QED
    BY <1>1, <1>2, <1>3, <1>4, <1>5, <1>6, Consumes

\* A value that is missing, or a word that is no option: there is no way to
\* split the line.
LEMMA LeavesLoop ==
    WordsInv /\ ((\E o \in DOMAIN option : MissingValue(o)) \/ Unknown) /\ UNCHANGED <<program, argv>> => WordsInv'
<1> SUFFICES ASSUME WordsInv, (\E o \in DOMAIN option : MissingValue(o)) \/ Unknown, UNCHANGED <<program, argv>>
             PROVE  WordsInv'
    OBVIOUS
<1>1. cl = "reading" /\ items # <<>> /\ option' = option /\ cl' \in {"refused", "dead"}
    BY DEF MissingValue, Unknown, Reads
<1>2. PICK F \in SUBSET (1..Len(argv)) : Passed(F, Place)
    BY <1>1 DEF WordsInv, ReadSoFar
<1>3. \A G \in Places : Place \in G
    BY <1>1, <1>2, AtPlace DEF Passed
<1>4. ASSUME NEW G \in Places PROVE FALSE
    <2>1. Place \in G /\ argv[Place] = Head(items) /\ Len(items) = Len(argv) - Place + 1
        BY <1>1, <1>3, AtPlace
    <2>2. /\ G \subseteq 1..Len(argv) /\ argv[Place] \in DOMAIN option
          /\ Place + Width(Place) \in G \/ Place + Width(Place) = Len(argv) + 1
        BY <2>1, LenProperties DEF Places, WordsInv
    <2>3. PICK o \in DOMAIN option : MissingValue(o)
        BY <2>1, <2>2 DEF Unknown
    <2>4. Width(Place) = 2 /\ Len(items) = 1
        BY <2>1, <2>3, Widths DEF MissingValue, Reads
    <2>5. Len(argv) \in Nat /\ Place \in 1..Len(argv)
        BY <1>1, AtPlace
    <2>6. Place = Len(argv)
        <3>1. PICK k \in Int, n \in Int : k = Place /\ n = Len(argv)
            BY <2>5
        <3>2. 1 = n - k + 1
            BY <2>1, <2>4, <3>1
        <3>3. k = n
            BY <3>2
        <3>4. QED
            BY <3>1, <3>3
    <2>7. QED
        BY <2>2, <2>4, <2>5, <2>6
<1>5. QED
    BY <1>1, <1>4, GivesUp DEF Unreadable

\* An option without a place is not set, and one with a place is.
LEMMA SetByPlace ==
    ASSUME WordsInv, NEW F, Passed(F, Len(argv) + 1), Valued(F), NEW o \in DOMAIN option
    PROVE  option[o] = NotSet <=> o \notin {argv[i] : i \in F}
<1>1. o \notin {argv[i] : i \in F} <=> At(F, o) = {}
    BY DEF At
<1>2. ASSUME At(F, o) # {} PROVE option[o] # NotSet
    <2>1. PICK i \in At(F, o) : option[o] = Says(F, i)
        BY <1>2 DEF Valued
    <2>2. i \in F /\ i \in 1..Len(argv) /\ argv[i] = o
        BY LenProperties DEF At, Passed, WordsInv
    <2>3. Kind(o) \in {"nothing", "text", "number"}
        BY Kinds DEF WordsInv
    <2>4. CASE Kind(o) = "nothing"
        BY <2>1, <2>2, <2>4 DEF Says, Given, NotSet
    <2>5. CASE Kind(o) = "text"
        <3>1. Width(i) = 2 /\ i + Width(i) \in F \cup {Len(argv) + 1} /\ F \subseteq 1..Len(argv)
            BY <2>2, <2>5, Widths, LenProperties DEF Passed, WordsInv
        <3>2. i + 1 \in 1..Len(argv)
            BY <2>2, <3>1, LenProperties DEF WordsInv
        <3>3. QED
            BY <2>1, <2>2, <2>5, <3>2 DEF Says, WordsInv
    <2>6. CASE Kind(o) = "number"
        <3>1. argv[i + 1] \in DOMAIN Numeric
            BY <2>2, <2>6 DEF Valued
        <3>2. Says(F, i) = Numeric[argv[i + 1]]
            BY <2>2, <2>6 DEF Says
        <3>3. QED
            BY <2>1, <3>1, <3>2, WordsAssumption
    <2>7. QED
        BY <2>3, <2>4, <2>5, <2>6
<1>3. QED
    BY <1>1, <1>2 DEF Valued

\* Whoever has passed the whole line has the only way to split it.
LEMMA OnlyPlaces ==
    ASSUME argv \in Seq(STRING), NEW F, Passed(F, Len(argv) + 1) PROVE Places = {F}
<1>1. Len(argv) \in Nat /\ DOMAIN argv = 1..Len(argv)
    BY LenProperties
<1>2. ASSUME NEW G \in Places PROVE G = F
    <2>1. G \subseteq 1..Len(argv)
        BY <1>1 DEF Places
    <2>2. G \cap (1..((Len(argv) + 1) - 1)) = F
        BY DEF Passed
    <2>3. (Len(argv) + 1) - 1 = Len(argv)
        BY <1>1
    <2>4. G \cap (1..Len(argv)) = F
        BY <2>2, <2>3
    <2>5. QED
        BY <2>1, <2>4
<1>3. F \in Places
    <2>1. F \subseteq DOMAIN argv
        BY <1>1 DEF Passed
    <2>2. argv = <<>> \/ 1 \in F
        <3>1. argv = <<>> <=> Len(argv) = 0
            BY EmptySeq, LenProperties
        <3>2. QED
            BY <1>1, <3>1 DEF Passed
    <2>3. \A i \in F : argv[i] \in DOMAIN option /\ (i + Width(i) \in F \/ i + Width(i) = Len(argv) + 1)
        BY DEF Passed
    <2>4. \A j \in F \ {1} : \E i \in F : j = i + Width(i)
        BY DEF Passed
    <2>5. QED
        BY <2>1, <2>2, <2>3, <2>4 DEF Places
<1>4. QED
    BY <1>2, <1>3

LEMMA ValidateReads == WordsInv /\ ValidateRequire /\ UNCHANGED <<program, argv>> => WordsInv'
<1> SUFFICES ASSUME WordsInv, ValidateRequire, UNCHANGED <<program, argv>> PROVE WordsInv'
    OBVIOUS
<1>1. cl = "reading" /\ items = <<>> /\ option' = option
    BY DEF ValidateRequire
<1>2. Len(argv) \in Nat /\ Place = Len(argv) + 1
    BY <1>1, EmptySeq, LenProperties DEF Place, WordsInv
<1>3. PICK F \in SUBSET (1..Len(argv)) : Passed(F, Len(argv) + 1) /\ Valued(F)
    BY <1>1, <1>2 DEF WordsInv, ReadSoFar
<1>4. Readable(F) <=> \A o \in Required[program] : option[o] # NotSet
    <2>1. \A o \in Required[program] : o \in DOMAIN option
        BY RequiredRegistered DEF WordsInv
    <2>2. \A o \in Required[program] : option[o] # NotSet <=> o \in {argv[i] : i \in F}
        BY <1>3, <2>1, SetByPlace
    <2>3. QED
        BY <1>3, <2>2 DEF Readable, Valued
<1>5. CASE \E o \in Required[program] : option[o] = NotSet
    <2>1. Unreadable
        BY <1>3, <1>4, <1>5, OnlyPlaces DEF Unreadable, WordsInv
    <2>2. cl' = "refused"
        BY <1>5 DEF ValidateRequire
    <2>3. QED
        BY <1>1, <2>1, <2>2, GivesUp
<1>6. CASE ~ \E o \in Required[program] : option[o] = NotSet
    <2>1. cl' = "parsed"
        BY <1>6 DEF ValidateRequire
    <2>2. PICK n \in Nat : n = Len(argv) + 1
        BY <1>2
    <2>3. Passed(F, n)'
        BY <1>1, <1>3, <2>2, StillPassed
    <2>4. Valued(F)'
        BY <1>1, <1>3 DEF Valued, At, Says, Kind
    <2>5. Readable(F)'
        BY <1>4, <1>6 DEF Readable, Kind
    <2>6. ReadWhole'
        BY <2>2, <2>3, <2>4, <2>5 DEF ReadWhole
    <2>7. QED
        BY <1>1, <2>1, <2>6 DEF WordsInv
<1>7. QED
    BY <1>5, <1>6

LEMMA LineStays == WordsInv /\ UNCHANGED clvars => WordsInv'
<1> SUFFICES ASSUME WordsInv, UNCHANGED clvars PROVE WordsInv'
    OBVIOUS
<1>1. UNCHANGED <<program, argv, items, option, cl>>
    BY DEF clvars
<1>2. ASSUME NEW F, Valued(F) PROVE Valued(F)'
    BY <1>1, <1>2 DEF Valued, At, Says, Kind
<1>3. \A F : Readable(F)' <=> Readable(F)
    BY <1>1 DEF Readable, Kind
<1>4. ReadSoFar => ReadSoFar'
    <2> SUFFICES ASSUME ReadSoFar PROVE ReadSoFar'
        OBVIOUS
    <2>1. Place' = Place
        BY <1>1 DEF Place
    <2>2. PICK F \in SUBSET (1..Len(argv)), k \in {Place} : k = Place /\ Passed(F, k) /\ Valued(F)
        BY DEF ReadSoFar
    <2>3. Passed(F, k)' /\ Valued(F)'
        BY <1>1, <1>2, <2>2, StillPassed
    <2>4. QED
        BY <1>1, <2>1, <2>2, <2>3 DEF ReadSoFar
<1>5. ReadWhole => ReadWhole'
    <2> SUFFICES ASSUME ReadWhole PROVE ReadWhole'
        OBVIOUS
    <2>1. PICK F \in SUBSET (1..Len(argv)), k \in {Len(argv) + 1} : Passed(F, k) /\ Valued(F) /\ Readable(F)
        BY DEF ReadWhole
    <2>2. Passed(F, k)' /\ Valued(F)' /\ Readable(F)'
        BY <1>1, <1>2, <1>3, <2>1, StillPassed
    <2>3. QED
        BY <1>1, <2>1, <2>2 DEF ReadWhole
<1>6. Unreadable => Unreadable'
    <2>1. \A i : Width(i)' = Width(i)
        BY <1>1 DEF Width, Kind
    <2>2. Places' = Places
        BY <1>1, <2>1 DEF Places
    <2>3. QED
        BY <1>3, <2>2 DEF Unreadable
<1>7. QED
    BY <1>1, <1>4, <1>5, <1>6 DEF WordsInv

LEMMA WordsInit == Init => WordsInv
<1> SUFFICES ASSUME Init PROVE WordsInv
    OBVIOUS
<1>1. /\ program \in Programs /\ argv \in Argvs[program] /\ items = argv /\ cl = "reading"
      /\ option = [o \in DOMAIN Options[program] |-> NotSet]
    BY DEF Init, CommandLineInit
<1>2. argv \in Seq(STRING) /\ \A k \in 1..Len(argv) : argv[k] # NotSet
    BY <1>1, WordsAssumption
<1>3. Len(argv) \in Nat /\ DOMAIN argv = 1..Len(argv) /\ Place = 1
    BY <1>1, <1>2, LenProperties DEF Place
<1>4. Passed({}, 1)
    <2>1. ASSUME NEW G \in Places PROVE G \cap (1..(1 - 1)) = {} /\ (1 <= Len(argv) => 1 \in G)
        <3>1. argv = <<>> \/ 1 \in G
            BY DEF Places
        <3>2. argv = <<>> => Len(argv) = 0
            BY EmptySeq
        <3>3. QED
            BY <1>3, <3>1, <3>2
    <2>2. QED
        BY <1>3, <2>1 DEF Passed
<1>5. Valued({})
    BY <1>1 DEF Valued, At
<1>6. ReadSoFar
    <2>1. Place - 1 = 0
        BY <1>3
    <2>2. \A j \in 1..Len(items) : items[j] = argv[Place - 1 + j]
        BY <1>1, <2>1
    <2>3. QED
        BY <1>1, <1>2, <1>3, <1>4, <1>5, <2>2 DEF ReadSoFar
<1>7. QED
    BY <1>1, <1>2, <1>6 DEF WordsInv

LEMMA WordsNext == WordsInv /\ [Next]_vars => WordsInv'
<1> SUFFICES ASSUME WordsInv, [Next]_vars PROVE WordsInv'
    OBVIOUS
<1>1. CASE ReadCommandLine
    BY <1>1, ConsumeReads, SetReads, LeavesLoop, ValidateReads DEF ReadCommandLine, CommandLineNext
<1>2. CASE Interactive
    <2>1. /\ program' = program /\ argv' = <<>> /\ cl' = "left"
          /\ option' = [o \in DOMAIN option |-> NotSet]
        BY <1>2 DEF Interactive
    <2>2. argv' \in Seq(STRING) /\ \A k \in 1..Len(argv') : argv'[k] # NotSet
        BY <2>1, EmptySeq
    <2>3. QED
        BY <2>1, <2>2 DEF WordsInv
<1>3. CASE BadCommandLine \/ InitializeModule \/ Single \/ Debug \/ InvokeOnce \/ OtherMode \/ Crash
    BY <1>3, LineStays DEF BadCommandLine, InitializeModule, Single, Debug, InvokeOnce, OtherMode, Crash
<1>4. CASE Looper
    BY <1>4, LineStays DEF Looper, Quit, Plain, Named, DumpFile, MemImport, Invoke, SetGlobal, SetGlobalThrows,
       SingleRunCommand, EndOfInput
<1>5. CASE TypeLine \/ CloseInput \/ Rest \/ UNCHANGED vars
    BY <1>5, LineStays DEF TypeLine, CloseInput, Rest, vars
<1>6. QED
    BY <1>1, <1>2, <1>3, <1>4, <1>5 DEF Next, Works

\* CommandLineConsumer: a program starts exactly when there is a way to split
\* its command line into options, values and all that is required, and takes
\* the last value of each option, for any command lines.
THEOREM OptionsFollowArgv == Spec => []OptionsAsGiven
<1>1. ASSUME WordsInv PROVE OptionsAsGiven
    <2>1. CASE cl \in {"refused", "dead"}
        BY <1>1, <2>1 DEF WordsInv, Unreadable, OptionsAsGiven
    <2>2. CASE cl = "parsed"
        <3>1. PICK F : Passed(F, Len(argv) + 1) /\ Valued(F) /\ Readable(F)
            BY <1>1, <2>2 DEF WordsInv, ReadWhole
        <3>2. Places = {F}
            BY <1>1, <3>1, OnlyPlaces DEF WordsInv
        <3>3. F \subseteq Int
            BY <3>1 DEF Passed
        <3>4. ASSUME NEW o \in DOMAIN option, At(F, o) # {}
              PROVE  option[o] = Says(F, CHOOSE i \in At(F, o) : \A j \in At(F, o) : j <= i)
            <4>1. PICK i \in At(F, o) : option[o] = Says(F, i) /\ \A j \in At(F, o) : j <= i
                BY <3>1, <3>4 DEF Valued
            <4>2. \A x \in At(F, o) : (\A j \in At(F, o) : j <= x) => x = i
                BY <3>3, <4>1 DEF At
            <4>3. (CHOOSE x \in At(F, o) : \A j \in At(F, o) : j <= x) = i
                BY <4>1, <4>2
            <4>4. QED
                BY <4>1, <4>3
        <3>5. \A o \in DOMAIN option : At(F, o) = {} => option[o] = NotSet
            BY <3>1 DEF Valued
        <3>6. QED
            BY <2>2, <3>1, <3>2, <3>4, <3>5 DEF OptionsAsGiven, At
    <2>3. QED
        BY <2>1, <2>2 DEF OptionsAsGiven
<1>2. QED
    BY <1>1, WordsInit, WordsNext, PTL DEF Spec
-----------------------------------------------------------------------------
(***************************************************************************)
(* What stands behind QuitEnds: each turn of Looper consumes a line, and   *)
(* none of them is a "quit".                                               *)
(***************************************************************************)
Quits == {"quit", "q"}

RanNoQuit == pc = "prompt" => \A k \in 1..Len(ran) : typed[ran[k]] # <<>> /\ typed[ran[k]][1] \notin Quits

LEMMA LinesTyped ==
    ASSUME LineInv, pc = "prompt", NEW k \in 1..Len(ran) PROVE ran[k] \in 1..Len(typed)
<1>1. ran[k] \in 1..MaxLines /\ ran[k] <= Taken /\ Taken <= Len(typed) /\ Len(typed) \in Nat /\ Taken \in Nat
    BY LineTypes DEF LineInv
<1>2. QED
    BY <1>1

\* A turn that asks again has run another command, on its own line.
LEMMA AsksAgain ==
    ASSUME LineInv, Looper, pc' = "prompt"
    PROVE  /\ typed' = typed
           /\ \E c, n : Takes(c, n) /\ c \notin Quits
           /\ \/ \E n \in Nat : in' = Behind(n + 1) /\ Len(Words) > n
              \/ in' = Tail(Behind(2)) /\ Len(Behind(2)) > 0
<1>1. ~Quit /\ ~EndOfInput
    BY DEF Quit, EndOfInput, Return, Exit
<1>2. CASE Plain
    <2>1. PICK c \in (UNION {ToSet(l) : l \in Lines}) \ Reading : Takes(c, 0)
        BY <1>2 DEF Plain
    <2>2. c \notin Quits /\ in' = Behind(0 + 1) /\ typed' = typed
        BY <1>2 DEF Plain, Reading, Quits
    <2>3. Len(Words) > 0
        BY <2>1, Counted, FirstLine, EmptySeq DEF LineInv
    <2>4. QED
        BY <2>1, <2>2, <2>3
<1>3. CASE Named \/ DumpFile \/ MemImport \/ Invoke \/ SetGlobal
    <2>1. PICK c \in {"dump", "getglobal", "dumpfile", "memimport", "invoke", "setglobal"}, n \in {1, 2} :
              Takes(c, n) /\ NextPrompt(n) /\ typed' = typed
        BY <1>3 DEF Named, OneWord, DumpFile, MemImport, Invoke, SetGlobal, Die
    <2>2. c \notin Quits /\ n \in Nat /\ in' = Behind(n + 1) /\ Len(Words) > n
        BY <2>1 DEF NextPrompt, Quits
    <2>3. QED
        BY <2>1, <2>2
<1>4. CASE SetGlobalThrows
    BY <1>4 DEF SetGlobalThrows, Quits
<1>5. CASE SingleRunCommand
    <2>1. PICK n \in {2, 3} : Takes("singlerun", n)
        BY <1>5 DEF SingleRunCommand
    <2>2. NextPrompt(3) /\ typed' = typed
        BY <1>5 DEF SingleRunCommand
    <2>3. in' = Behind(3 + 1) /\ Len(Words) > 3
        BY <2>2 DEF NextPrompt
    <2>4. QED
        BY <2>1, <2>2, <2>3 DEF Quits
<1>6. QED
    BY <1>1, <1>2, <1>3, <1>4, <1>5 DEF Looper

\* No turn of Looper leaves std::cin as it is, so that it asks at most once
\* for every line.
THEOREM TurnsConsume == Spec => [][Looper => pc' # "prompt" \/ Len(in') < Len(in)]_vars
<1>1. ASSUME LineInv, Looper, pc' = "prompt" PROVE Len(in') < Len(in)
    <2>1. PICK c, n : Takes(c, n)
        BY <1>1, AsksAgain
    <2>2. Words # <<>> /\ LineOf(1) \in 1..Len(in) /\ Len(in) \in Nat
        BY <1>1, <2>1, Counted, LineTypes
    <2>3. CASE \E m \in Nat : in' = Behind(m + 1) /\ Len(Words) > m
        <3>1. PICK m \in Nat : in' = Behind(m + 1) /\ Len(Words) > m
            BY <2>3
        <3>2. m + 1 \in 1..Len(Words)
            BY <1>1, <2>2, <3>1, FirstLine, LenProperties DEF LineInv
        <3>3. LineOf(m + 1) \in LineOf(1)..Len(in)
            BY <1>1, <2>2, <3>2, FirstLine DEF LineInv
        <3>4. PICK d \in 1..Len(in) : d = LineOf(m + 1)
            BY <2>2, <3>3
        <3>5. Len(in') = Len(in) - d
            BY <1>1, <2>2, <3>1, <3>4, BehindIs
        <3>6. QED
            BY <2>2, <3>4, <3>5
    <2>4. CASE in' = Tail(Behind(2)) /\ Len(Behind(2)) > 0
        <3>1. LineOf(2) \in Nat /\ LineOf(1) <= LineOf(2)
            BY <1>1, LineOrder DEF LineInv
        <3>2. LineOf(2) + 1 > Len(in) => Behind(2) = <<>>
            BY <2>2, <3>1, SubSeqEmpty DEF Behind
        <3>3. LineOf(2) \in 1..Len(in)
            BY <2>2, <2>4, <3>1, <3>2, EmptySeq
        <3>4. PICK d \in 1..Len(in) : d = LineOf(2)
            BY <3>3
        <3>5. Behind(2) \in Seq(Seq(STRING)) /\ Len(Behind(2)) = Len(in) - d
            BY <1>1, <2>2, <3>4, BehindIs
        <3>6. Len(in') = Len(Behind(2)) - 1
            BY <2>4, <3>5, HeadTailProperties
        <3>7. QED
            BY <2>2, <3>4, <3>5, <3>6
    <2>5. QED
        BY <1>1, <2>3, <2>4, AsksAgain
<1>2. LineInv /\ [Next]_vars => [Looper => pc' # "prompt" \/ Len(in') < Len(in)]_vars
    BY <1>1
<1>3. QED
    BY <1>2, LineHolding, PTL DEF Spec

LEMMA TurnRan == LineInv /\ RanNoQuit /\ Looper => RanNoQuit'
<1> SUFFICES ASSUME LineInv, RanNoQuit, Looper, pc' = "prompt"
             PROVE  \A k \in 1..Len(ran') : typed'[ran'[k]] # <<>> /\ typed'[ran'[k]][1] \notin Quits
    BY DEF RanNoQuit
<1>1. PICK c, n : Takes(c, n) /\ c \notin Quits
    BY AsksAgain
<1>2. typed' = typed
    BY AsksAgain
<1>3. /\ pc = "prompt" /\ Words # <<>> /\ Words[1] = c /\ LineOf(1) \in 1..Len(in)
      /\ ran' = Append(ran, Taken + LineOf(1)) /\ ran' \in Seq(1..MaxLines)
    BY <1>1, Counted
<1>4. PICK l \in 1..Len(in) : l = LineOf(1)
    BY <1>3
<1>5. typed[Taken + l] # <<>> /\ typed[Taken + l][1] = c
    <2>1. in[l] # <<>> /\ \A m \in 1..Len(in[l]) : Words[m] = in[l][m]
        BY <1>3, <1>4, FirstLine DEF LineInv
    <2>2. in[l] = typed[Taken + l] /\ in[l] \in Seq(STRING)
        BY <1>4, LineTypes
    <2>3. 1 \in 1..Len(in[l])
        BY <2>1, <2>2, EmptySeq, LenProperties
    <2>4. QED
        BY <1>3, <2>1, <2>2, <2>3
<1>6. /\ Len(ran') = Len(ran) + 1 /\ ran'[Len(ran) + 1] = Taken + l
      /\ \A k \in 1..Len(ran) : ran'[k] = ran[k]
    <2>1. ran \in Seq(Nat) /\ Taken + l \in Nat
        <3>1. 1..MaxLines \subseteq Nat
            BY LineTypes
        <3>2. ran \in Seq(Nat)
            BY <3>1, SeqMonotonic DEF LineInv
        <3>3. QED
            BY <1>4, <3>2, LineTypes
    <2>2. QED
        BY <1>3, <1>4, <2>1, AppendProperties
<1>7. ASSUME NEW k \in 1..Len(ran') PROVE typed[ran'[k]] # <<>> /\ typed[ran'[k]][1] \notin Quits
    <2>1. k \in 1..Len(ran) \/ k = Len(ran) + 1
        BY <1>6, LineTypes, SMTT(30)
    <2>2. QED
        BY <1>1, <1>3, <1>5, <1>6, <2>1 DEF RanNoQuit
<1>8. QED
    BY <1>2, <1>7

\* A "quit" is obeyed before anything behind it: while lines are complete and
\* Looper asks on, none of the lines it has consumed says so.
THEOREM QuitNotPassed ==
    Spec => [](pc = "prompt" /\ ~threw /\ (\A k \in 1..Taken : Complete(typed[k])) =>
                   \A k \in 1..Taken : typed[k] # <<>> => typed[k][1] \notin Quits)
<1>1. Init => RanNoQuit
    BY DEF Init, RanNoQuit
<1>2. ASSUME LineInv, RanNoQuit, [Next]_vars PROVE RanNoQuit'
    <2>1. CASE Looper
        BY <1>2, <2>1, TurnRan
    <2>2. CASE Interactive
        <3>1. ran' = ran /\ ran = <<>>
            BY <1>2, <2>2 DEF Interactive, Mode, LineInv
        <3>2. QED
            BY <3>1, EmptySeq DEF RanNoQuit
    <2>3. CASE (Works /\ ~Looper /\ ~Interactive) \/ Crash
        <3>1. pc' # "prompt"
            BY <2>3 DEF Works, ReadCommandLine, BadCommandLine, InitializeModule, Single, Debug, InvokeOnce, OtherMode,
               Crash, ReturnOf, RunResults, Return, Exit, Die, Mode
        <3>2. QED
            BY <3>1 DEF RanNoQuit
    <2>4. CASE TypeLine
        <3>1. ran' = ran /\ pc' = pc
            BY <2>4 DEF TypeLine
        <3>2. PICK line \in Lines : typed' = Append(typed, line)
            BY <2>4 DEF TypeLine
        <3>3. \A k \in 1..Len(typed) : typed'[k] = typed[k]
            BY <1>2, <3>2, AppendProperties DEF LineInv
        <3>4. QED
            BY <1>2, <3>1, <3>3, LinesTyped DEF RanNoQuit
    <2>5. CASE CloseInput \/ Rest \/ UNCHANGED vars
        BY <1>2, <2>5 DEF CloseInput, Rest, vars, iovars, RanNoQuit
    <2>6. QED
        BY <1>2, <2>1, <2>2, <2>3, <2>4, <2>5 DEF Next
<1>3. ASSUME LineInv, RanNoQuit, pc = "prompt", ~threw, \A k \in 1..Taken : Complete(typed[k]),
             NEW k \in 1..Taken, typed[k] # <<>>
      PROVE  typed[k][1] \notin Quits
    <2>1. ToSet(ran) = {i \in 1..Taken : typed[i] # <<>>}
        BY <1>3 DEF LineInv, EveryLineOnce, Taken
    <2>2. PICK i \in 1..Len(ran) : ran[i] = k
        BY <1>3, <2>1, LineTypes DEF ToSet
    <2>3. QED
        BY <1>3, <2>2 DEF RanNoQuit
<1>4. LineInv /\ RanNoQuit => (pc = "prompt" /\ ~threw /\ (\A k \in 1..Taken : Complete(typed[k])) =>
                   \A k \in 1..Taken : typed[k] # <<>> => typed[k][1] \notin Quits)
    BY <1>3
<1>5. QED
    BY <1>1, <1>2, <1>4, LineHolding, PTL DEF Spec
=============================================================================
