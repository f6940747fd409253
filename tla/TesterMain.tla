------------------------------ MODULE TesterMain ------------------------------
(***************************************************************************)
(* A tester as a program: its command line, the modes of Run, and the      *)
(* interactive Looper with the lines a person types.                       *)
(*                                                                         *)
(* std::cin is the list of the lines not consumed yet, of which the first  *)
(* may be consumed in part; a line is the list of its words.  A word is    *)
(* read across the ends of lines, the rest of a line with getline.  One    *)
(* step is one turn of the loop, which is what a person sees between two   *)
(* prompts.  The inside of SingleRun is in the module SingleRun.           *)
(***************************************************************************)
EXTENDS CommandLine, Marshal, SequencesExt

CONSTANTS
    Lines,          \* bound: the lines a person types; no word of them only begins with a number
    MaxLines,       \* bound: how many
    Stored,         \* the files that exist
    Functions,      \* the names of the module's functions
    Globals,        \* and of its globals
    Results,        \* bound: the results of a call
    DropsRet        \* the engines whose main drops the value of Run

ASSUME LinesAssumption == MaxLines \in Nat /\ Lines \subseteq Seq(STRING)

Engines == {"V8", "SpiderMonkey"}
RunResults == {"throws", "false", "true"}

\* Descriptor 3: not open, one that takes what is written, one on which every
\* write fails, and one that is open for reading.
Descriptor == {"closed", "given", "full", "readonly"}

VARIABLES
    engine,
    pc,             \* "start", "run", "prompt", "spin", "exited" or "dead"
    status,         \* the exit status
    in, closed,     \* std::cin, and whether its end has been typed
    files,          \* the files there are
    fd3, leaked,    \* what COMMON_FILE_DESCRIPTOR is; descriptors nobody will close
    log,            \* where the last whole log went
    told,           \* a result as it stands in that log
    typed, ran,     \* history: the lines typed, and those whose command ran
    threw,          \* history: an engine refused a global with an exception
    returned, given \* history: the result told, and fd3 at the start

iovars == <<in, closed, typed>>
outvars == <<files, fd3, leaked, log, told, returned>>
vars == <<clvars, iovars, outvars, engine, pc, status, ran, threw, given>>

Init ==
    /\ CommandLineInit
    /\ engine \in Engines /\ pc = "start" /\ status = 0
    /\ in = <<>> /\ closed = FALSE /\ typed = <<>> /\ ran = <<>> /\ threw = FALSE
    /\ files = Stored /\ given \in Descriptor /\ fd3 = given /\ leaked = 0
    /\ log = "none" /\ told = {} /\ returned = Void
-----------------------------------------------------------------------------
(***************************************************************************)
(* main and Run.                                                           *)
(***************************************************************************)
Exit(code) == pc' = "exited" /\ status' = code
Die == pc' = "dead" /\ UNCHANGED status

\* Mutant: the status is not cut to a byte.
ReturnWhole(ret) == Exit(IF engine \in DropsRet THEN 0 ELSE ret)

\* What Run returns, as far as main passes it on.
Return(ret) == Exit(IF engine \in DropsRet THEN 0 ELSE ret % 256)

ReadCommandLine ==
    /\ pc = "start" /\ CommandLineNext
    /\ UNCHANGED <<iovars, outvars, engine, pc, status, ran, threw, given>>

\* exit(-1), or an exception or a bad free.
BadCommandLine ==
    /\ pc = "start"
    /\ \/ cl = "refused" /\ Exit(255)
       \/ cl = "dead" /\ Die
    /\ UNCHANGED <<clvars, iovars, outvars, engine, ran, threw, given>>

\* OpenInput of a file that is missing throws, and nobody catches it here.
InitializeModule ==
    /\ pc = "start" /\ cl = "parsed" /\ program = "tester"
    /\ \/ option["-input"] \notin files /\ Die
       \/ option["-input"] \in files /\ (Return(-1) \/ (pc' = "run" /\ UNCHANGED status))
    /\ UNCHANGED <<clvars, iovars, outvars, engine, ran, threw, given>>

Mode(m) == pc = "run" /\ (IF option["-mode"] = NotSet THEN "interactive" ELSE option["-mode"]) = m

\* Nothing of the command line is used any more.
Interactive ==
    /\ Mode("interactive") /\ pc' = "prompt" /\ UNCHANGED status
    /\ argv' = <<>> /\ option' = [o \in DOMAIN option |-> NotSet] /\ cl' = "left" /\ UNCHANGED <<program, items>>
    /\ UNCHANGED <<iovars, outvars, engine, ran, threw, given>>

\* Where the log goes.  Nobody looks at the state of the stream, and writing to
\* a file or to a terminal may fail, too; printing a null pointer as the name
\* of the memory file silences std::cout.
Sinks(out, memory) ==
    CASE out = "given" -> {"given"}
      [] out = "file" -> {"file", "lost"}
      [] out \in {"full", "readonly"} -> {"lost"}
      [] out = "closed" -> IF memory = NotSet THEN {"lost"} ELSE {"stdout", "lost"}

\* Mutant: the stream leaves the descriptor open.
LeavesOpen(out) == IF out = "closed" THEN "closed" ELSE "given"

\* The stream over the descriptor closes it in any case, unless it cannot be
\* opened for writing.
Leaves(out) == IF out = "readonly" THEN "readonly" ELSE "closed"

\* SingleRun, with the descriptor as it finds it: LoadMemory throws,
\* InitializeExecution fails, or the log is written, well or not.
SingleRun(memory, out, available, result) ==
    /\ result \in IF memory # NotSet /\ memory \notin available THEN {"throws"} ELSE {"false", "true"}
    /\ IF result # "true" THEN UNCHANGED <<log, told, returned>>
       ELSE log' \in Sinks(out, memory) /\ returned' \in Results /\ told' = Logged(engine, returned')

\* Mutant: a failure is not passed on.
ReturnAnyway(result) == IF result = "throws" THEN Die ELSE Return(0)

\* What Run makes of it: nobody catches the exception.
ReturnOf(result) ==
    CASE result = "throws" -> Die
      [] result = "false" -> Return(-1)
      [] result = "true" -> Return(0)

Single ==
    /\ Mode("single")
    /\ \E result \in RunResults : SingleRun(option["-memory"], fd3, files, result) /\ ReturnOf(result)
    /\ fd3' = Leaves(fd3)
    /\ UNCHANGED <<clvars, iovars, files, leaked, engine, ran, threw, given>>

\* Every function is compiled, and SingleRun waits for a line.
Debug ==
    /\ Mode("debug")
    /\ \E result \in RunResults :
          /\ SingleRun(option["-memory"], fd3, files, result) /\ ReturnOf(result)
          /\ result = "throws" \/ in # <<>> \/ closed
          /\ in' = IF result = "throws" \/ in = <<>> THEN in ELSE Tail(in)
    /\ fd3' = Leaves(fd3)
    /\ UNCHANGED <<clvars, closed, typed, files, leaked, engine, ran, threw, given>>

\* InvokeFunction: it succeeds when the function traps, too.
InvokeOnce ==
    /\ Mode("invoke")
    /\ IF option["-function"] = NotSet THEN Return(-1)
       ELSE IF option["-memory"] # NotSet /\ option["-memory"] \notin files THEN Die
       ELSE Return(-1) \/ (option["-function"] \in Functions /\ Return(0))
    /\ UNCHANGED <<clvars, iovars, outvars, engine, ran, threw, given>>

OtherMode ==
    /\ \A m \in {"interactive", "single", "debug", "invoke"} : ~Mode(m)
    /\ pc = "run" /\ Return(0)
    /\ UNCHANGED <<clvars, iovars, outvars, engine, ran, threw, given>>

\* The engine crashes, or a person kills the process.
Crash ==
    /\ pc \in {"run", "prompt", "spin"} /\ Die
    /\ UNCHANGED <<clvars, iovars, outvars, engine, ran, threw, given>>
-----------------------------------------------------------------------------
(***************************************************************************)
(* Looper.                                                                 *)
(***************************************************************************)
Words == FlattenSeq(in)

\* The line that holds the n-th word, and the lines after it.
LineOf(n) == Cardinality({k \in 0..Len(in) : Len(FlattenSeq(SubSeq(in, 1, k))) < n})
Behind(n) == SubSeq(in, LineOf(n) + 1, Len(in))

\* A turn that reads a command and n words after it; at the end of the input
\* the last word read stays in their place.
Takes(command, n) ==
    /\ pc = "prompt" /\ Words # <<>> /\ Words[1] = command /\ (Len(Words) > n \/ closed)
    /\ ran' = Append(ran, Len(typed) - Len(in) + LineOf(1))

Argument(k) == IF Len(Words) > k THEN Words[k + 1] ELSE Last(Words)

\* The rest of the line is dropped; a stream that has failed stays so.
NextPrompt(n) ==
    /\ IF Len(Words) > n THEN in' = Behind(n + 1) /\ pc' = "prompt" ELSE in' = <<>> /\ pc' = "spin"
    /\ UNCHANGED status

\* Commands by the number of words they read before the rest of the line.
OneWord == {"dump", "getglobal"}
Reading == OneWord \cup {"dumpfile", "memimport", "invoke", "setglobal", "singlerun", "quit", "q"}
WordsOf(command) == IF command \in {"dumpfile"} THEN 2
                    ELSE IF command = "singlerun" THEN 3
                    ELSE IF command \in Reading \ {"quit", "q"} THEN 1 ELSE 0

Quit ==
    /\ \E q \in {"quit", "q"} : Takes(q, 0)
    /\ Return(0)
    /\ UNCHANGED <<clvars, iovars, outvars, engine, threw, given>>

\* list, listglobal, memaddr, instantiate, memimportgen, and unknown commands.
Plain ==
    /\ \E c \in (UNION {ToSet(l) : l \in Lines}) \ Reading : Takes(c, 0)
    /\ in' = Behind(1) /\ UNCHANGED <<pc, status>>
    /\ UNCHANGED <<clvars, closed, typed, outvars, engine, threw, given>>

Named ==
    /\ \E c \in OneWord : Takes(c, 1)
    /\ NextPrompt(1)
    /\ UNCHANGED <<clvars, closed, typed, outvars, engine, threw, given>>

DumpFile ==
    /\ Takes("dumpfile", 2) /\ NextPrompt(2)
    /\ \/ UNCHANGED files
       \/ Argument(1) \in Functions /\ Len(Words) > 2 /\ files' = files \cup {Argument(2)}
    /\ UNCHANGED <<clvars, closed, typed, fd3, leaked, log, told, returned, engine, threw, given>>

\* LoadMemory throws, and nobody catches it.
MemImport ==
    /\ Takes("memimport", 1)
    /\ IF Argument(1) \in files THEN NextPrompt(1) ELSE Die /\ UNCHANGED in
    /\ UNCHANGED <<clvars, closed, typed, outvars, engine, threw, given>>

\* Mutant: the arguments are read, and the rest of the line again.
InvokeFlushing ==
    /\ Takes("invoke", 1)
    /\ IF Argument(1) \in Functions /\ Behind(2) # <<>>
       THEN in' = Tail(Behind(2)) /\ UNCHANGED <<pc, status>> ELSE NextPrompt(1)
    /\ UNCHANGED <<clvars, closed, typed, outvars, engine, threw, given>>

\* The arguments of a known function are the rest of the line: continue.
Invoke ==
    /\ Takes("invoke", 1) /\ NextPrompt(1)
    /\ UNCHANGED <<clvars, closed, typed, outvars, engine, threw, given>>

SetGlobal ==
    /\ Takes("setglobal", 1) /\ NextPrompt(1) /\ UNCHANGED threw
    /\ UNCHANGED <<clvars, closed, typed, outvars, engine, given>>

\* After the exception the loop reads the rest of the line again, which is the
\* next line.
SetGlobalThrows ==
    /\ Takes("setglobal", 1) /\ Argument(1) \in Globals /\ (Len(Behind(2)) > 0 \/ closed)
    /\ threw' = TRUE /\ UNCHANGED status
    /\ IF Len(Behind(2)) > 0 THEN in' = Tail(Behind(2)) /\ UNCHANGED pc ELSE in' = <<>> /\ pc' = "spin"
    /\ UNCHANGED <<clvars, closed, typed, outvars, engine, given>>

\* A seed that is no number makes the stream fail, with the name of the output
\* file where that of the memory file should be.
Seed == Len(Words) > 2 /\ Words[3] \in DOMAIN Numeric

\* open takes the lowest descriptor that is free; dup2 closes what 3 was.  The
\* exception of a missing memory file is caught here, past the last close.
SingleRunCommand ==
    /\ Takes("singlerun", IF Len(Words) = 3 /\ ~Seed THEN 2 ELSE 3)
    /\ \E opened \in BOOLEAN, result \in RunResults :
          LET available == IF opened THEN files \cup {Argument(1)} ELSE files
              out == IF opened THEN "file" ELSE fd3
          IN
          /\ files' = available
          /\ leaked' = IF opened /\ fd3 # "closed" THEN leaked + 1 ELSE leaked
          /\ SingleRun(IF Seed /\ Len(Words) > 3 THEN Words[4] ELSE Argument(1), out, available, result)
          /\ fd3' = IF result = "throws" THEN Leaves(out) ELSE "closed"
    /\ IF Seed THEN NextPrompt(3) ELSE in' = <<>> /\ pc' = "spin" /\ UNCHANGED status
    /\ UNCHANGED <<clvars, closed, typed, engine, threw, given>>

\* An empty command is unknown, for ever.
EndOfInput ==
    /\ pc = "prompt" /\ closed /\ Words = <<>> /\ pc' = "spin" /\ in' = <<>>
    /\ UNCHANGED <<clvars, closed, typed, outvars, engine, status, ran, threw, given>>

Looper ==
    \/ Quit \/ Plain \/ Named \/ DumpFile \/ MemImport \/ Invoke \/ SetGlobal \/ SetGlobalThrows
    \/ SingleRunCommand \/ EndOfInput

\* Where one line is waited for, no more is typed.
TypeLine ==
    /\ pc = "prompt" \/ (Mode("debug") /\ typed = <<>>)
    /\ ~closed /\ Len(typed) < MaxLines
    /\ \E line \in Lines : in' = Append(in, line) /\ typed' = Append(typed, line)
    /\ UNCHANGED <<clvars, closed, outvars, engine, pc, status, ran, threw, given>>

CloseInput ==
    /\ pc = "prompt" \/ Mode("debug")
    /\ ~closed /\ closed' = TRUE
    /\ UNCHANGED <<clvars, in, typed, outvars, engine, pc, status, ran, threw, given>>

\* It is another program, it prints for ever, or it waits for a person.
Rest ==
    /\ pc \in {"exited", "dead", "spin"} \/ (pc = "start" /\ cl = "parsed" /\ program # "tester")
       \/ Len(typed) = MaxLines
    /\ UNCHANGED vars

Works ==
    \/ ReadCommandLine \/ BadCommandLine \/ InitializeModule
    \/ Interactive \/ Single \/ Debug \/ InvokeOnce \/ OtherMode \/ Looper

Next == Works \/ Crash \/ TypeLine \/ CloseInput \/ Rest

\* The process runs, and the calls of the engine return.
Spec == Init /\ [][Next]_vars /\ WF_vars(Works)
-----------------------------------------------------------------------------
(***************************************************************************)
(* Properties.                                                             *)
(***************************************************************************)
\* The variables of TesterMain have their types.
TypeOK ==
    /\ program \in Programs /\ cl \in {"reading", "parsed", "refused", "dead", "left"}
    /\ pc \in {"start", "run", "prompt", "spin", "exited", "dead"}
    /\ engine \in Engines /\ status \in 0..255 /\ closed \in BOOLEAN /\ threw \in BOOLEAN
    /\ in \in Seq(Seq(STRING)) /\ typed \in Seq(Lines) /\ ran \in Seq(1..MaxLines)
    /\ given \in Descriptor /\ fd3 \in Descriptor
    /\ log \in {"none", "given", "file", "stdout", "lost"} /\ leaked \in Nat /\ returned \in Results \cup {Void}

\* A line with all the words its command reads.
Complete(line) ==
    line # <<>> =>
        /\ Len(line) > WordsOf(line[1])
        /\ line[1] = "singlerun" => line[3] \in DOMAIN Numeric

\* A line is a command: whatever the commands before it read or leave over,
\* every line that is not empty is run, once, in order, and no word of a line
\* is run as a command, as long as no line lacks words and no engine throws.
EveryLineOnce ==
    LET taken == Len(typed) - Len(in) IN
    pc = "prompt" /\ ~threw /\ (\A k \in 1..taken : Complete(typed[k])) =>
        /\ \A i, j \in DOMAIN ran : i < j => ran[i] < ran[j]
        /\ ToSet(ran) = {k \in 1..taken : typed[k] # <<>>}

\* However many times singlerun is typed, with files that open or do not and
\* memory files that are missing, at most the one descriptor is lost that the
\* process was started with.
LeaksOne == leaked <= (IF given # "closed" THEN 1 ELSE 0)

\* What TesterRun takes for granted: a tester that got a descriptor for its log
\* and ends with 0 has been through its log and written it there, unless its
\* main drops what Run returned.  Whether the descriptor took the log is not
\* told: where every write fails the status is 0 as well.
ExitTells ==
    pc = "exited" /\ status = 0 /\ engine \notin DropsRet /\ option["-mode"] = "single" /\ given # "closed"
        => log = (IF given = "given" THEN "given" ELSE "lost")

\* Both engines tell a result alike, and as what it is: only V8 tells a double
\* that is a whole number as an integer.
TellsResult ==
    log # "none" /\ ~(engine = "V8" /\ returned.type = "F64" /\ returned.whole \cap Int32s # {}) =>
        told = BinRepresentation(returned)

\* A person can always leave: when every line up to "quit" is complete, Looper
\* ends, or the process dies.
QuitEnds ==
    (/\ pc = "prompt"
     /\ \E k \in DOMAIN in : in[k] # <<>> /\ in[k][1] = "quit" /\ \A j \in 1..k : Complete(in[j]))
        ~> (pc \in {"exited", "dead"} \/ threw)
=============================================================================
