------------------------------ MODULE CommandLine ------------------------------
(***************************************************************************)
(* CommandLineConsumer: how the three programs read their command lines.   *)
(* One step is one turn of its loop; the value of an option is whatever    *)
(* stands behind it.                                                       *)
(***************************************************************************)
EXTENDS Integers, Sequences, FiniteSets

CONSTANTS
    Argvs,      \* bound: the command lines of each program
    Numeric     \* the words that begin with a number, with that number as a word

NotSet == "not set"
Given == "set"

\* The options each program registers, with what they consume.
TesterOptions ==
    [o \in {"-input", "-mode", "-memory", "-function", "-arg-seed"} |->
        IF o = "-arg-seed" THEN "number" ELSE "text"]

CoordinatorOptions ==
    [o \in {"-block-size", "-output-folder", "-seed"} |->
        IF o = "-output-folder" THEN "text" ELSE "number"]

GeneratorOptions ==
    [o \in {"-block-size", "-seed", "-skip-count", "-output", "-memory", "-skip-memory-count", "-repro"} |->
        IF o = "-repro" THEN "nothing" ELSE IF o \in {"-output", "-memory"} THEN "text" ELSE "number"]

Options == [tester |-> TesterOptions, coordinator |-> CoordinatorOptions, generator |-> GeneratorOptions]

Required == [
    tester |-> {"-input"},
    coordinator |-> {"-block-size", "-output-folder"},
    generator |-> {"-block-size", "-seed", "-output", "-memory"}]

Programs == DOMAIN Options

\* What stands for an option that is not set is no word.
ASSUME WordsAssumption ==
    /\ \A p \in Programs : \A a \in Argvs[p] : a \in Seq(STRING) /\ \A k \in 1..Len(a) : a[k] # NotSet
    /\ \A word \in DOMAIN Numeric : Numeric[word] # NotSet

VARIABLES
    program, argv,
    items,      \* the words not consumed yet
    option,     \* the value of each option
    cl          \* "reading", "parsed", "refused": exit(-1), "dead", or "left" behind

clvars == <<program, argv, items, option, cl>>

Kind(o) == Options[program][o]

CommandLineInit ==
    /\ program \in Programs /\ argv \in Argvs[program]
    /\ items = argv /\ cl = "reading"
    /\ option = [o \in DOMAIN Options[program] |-> NotSet]
-----------------------------------------------------------------------------
Reads(o) == cl = "reading" /\ items # <<>> /\ Head(items) = o /\ o \in DOMAIN option

\* Mutant: an option keeps its first value.
ConsumeFirst(o) ==
    /\ Reads(o) /\ Kind(o) # "nothing" /\ Len(items) > 1
    /\ LET word == items[2] IN
       IF Kind(o) = "text" \/ word \in DOMAIN Numeric
       THEN /\ option' = [option EXCEPT ![o] = IF @ # NotSet THEN @ ELSE IF Kind(o) = "text" THEN word ELSE Numeric[word]]
            /\ items' = Tail(Tail(items)) /\ UNCHANGED cl
       ELSE cl' = "refused" /\ UNCHANGED <<option, items>>

\* ConsumeArg: a number may be followed by anything.
Consume(o) ==
    /\ Reads(o) /\ Kind(o) # "nothing" /\ Len(items) > 1
    /\ LET word == items[2] IN
       IF Kind(o) = "text" \/ word \in DOMAIN Numeric
       THEN /\ option' = [option EXCEPT ![o] = IF Kind(o) = "text" THEN word ELSE Numeric[word]]
            /\ items' = Tail(Tail(items)) /\ UNCHANGED cl
       ELSE cl' = "refused" /\ UNCHANGED <<option, items>>

\* Match sets an option without value.
Set(o) ==
    /\ Reads(o) /\ Kind(o) = "nothing"
    /\ option' = [option EXCEPT ![o] = Given] /\ items' = Tail(items) /\ UNCHANGED cl

\* front() and pop_front() of an empty list: a null string is no number, and
\* an element that is none cannot be freed.
MissingValue(o) ==
    /\ Reads(o) /\ Kind(o) # "nothing" /\ Len(items) = 1
    /\ cl' \in IF Kind(o) = "number" THEN {"refused", "dead"} ELSE {"dead"}
    /\ UNCHANGED <<option, items>>

\* Nobody catches the exception.
Unknown ==
    /\ cl = "reading" /\ items # <<>> /\ Head(items) \notin DOMAIN option
    /\ cl' = "dead" /\ UNCHANGED <<option, items>>

ValidateRequire ==
    /\ cl = "reading" /\ items = <<>>
    /\ cl' = IF \E o \in Required[program] : option[o] = NotSet THEN "refused" ELSE "parsed"
    /\ UNCHANGED <<option, items>>

CommandLineNext ==
    /\ \/ \E o \in DOMAIN option : Consume(o) \/ Set(o) \/ MissingValue(o)
       \/ Unknown \/ ValidateRequire
    /\ UNCHANGED <<program, argv>>
-----------------------------------------------------------------------------
(***************************************************************************)
(* What a command line says, without reading it from left to right.        *)
(***************************************************************************)
Width(i) == IF Kind(argv[i]) = "nothing" THEN 1 ELSE 2

\* The places of the options, if every place behind one and its value is an
\* option's again.
Places == {F \in SUBSET DOMAIN argv :
    /\ argv = <<>> \/ 1 \in F
    /\ \A i \in F : argv[i] \in DOMAIN option /\ (i + Width(i) \in F \/ i + Width(i) = Len(argv) + 1)
    /\ \A j \in F \ {1} : \E i \in F : j = i + Width(i)}

Says(F, i) == CASE Kind(argv[i]) = "nothing" -> Given
                [] Kind(argv[i]) = "text" -> argv[i + 1]
                [] OTHER -> Numeric[argv[i + 1]]

Readable(F) ==
    /\ \A i \in F : Kind(argv[i]) = "number" => argv[i + 1] \in DOMAIN Numeric
    /\ Required[program] \subseteq {argv[i] : i \in F}

\* A program starts exactly when its command line is a list of its options,
\* each with its value and the required ones among them, and then the value
\* of every option is the last one given.
OptionsAsGiven ==
    cl \in {"parsed", "refused", "dead"} =>
        IF \E F \in Places : Readable(F)
        THEN /\ cl = "parsed"
             /\ \A F \in Places : \A o \in DOMAIN option :
                   LET at == {i \in F : argv[i] = o} IN
                   option[o] = IF at = {} THEN NotSet
                               ELSE Says(F, CHOOSE i \in at : \A j \in at : j <= i)
        ELSE cl \in {"refused", "dead"}
=============================================================================
