------------------------------ MODULE RandomGen ------------------------------
(***************************************************************************)
(* random-gen: processes that write a random module for every "w" they     *)
(* read and a random memory for every "m", and the processes that repeat   *)
(* one module of another (-skip-count, -skip-memory-count, -repro).        *)
(*                                                                         *)
(* The random engine is a stream of numbers fixed by the seed.  A module   *)
(* is a function of the numbers in randomizedData, so that it is named by  *)
(* its seed and the place of its first number in the stream; a memory by   *)
(* the number it is seeded with and its pages.  Processes with one seed    *)
(* write one file: the coordinator names the file after the seed.          *)
(***************************************************************************)
EXTENDS Integers, Sequences, FiniteSets

CONSTANTS
    Gens,           \* generator processes
    Seeds,          \* bound: values of -seed
    Sizes,          \* bound: values of -block-size
    Pages,          \* bound: pages of a module's memory
    IntMod,         \* 2^32: int is 32 bits wide
    SizeMod         \* 2^64: uint64_t is 64 bits wide

ASSUME WidthsAssumption == IntMod \in Nat \ {0} /\ SizeMod \in Nat \ {0}
ASSUME ValuesAssumption == Sizes \subseteq Nat /\ Pages \subseteq Nat

VARIABLES
    gen,    \* the generator processes
    wasm    \* the module file of each seed

genvars == <<gen, wasm>>

Lines == {"w", "m", "q", ""}
NoData == -1        \* randomizedData before the first "w": zeros
Uninit == -1        \* mem_seed_ptr and mem_size before the first "w"

Module(seed, from, size) == [seed |-> seed, from |-> from, size |-> size]
Empty == [seed |-> "empty", from |-> NoData, size |-> 0]  \* no file, or truncated
Mixed == [seed |-> "mixed", from |-> NoData, size |-> 0]  \* a module over a longer one

NoMemory == [seed |-> "none", at |-> NoData, pages |-> 0]

Absent == [pc |-> "absent", in |-> <<>>, closed |-> FALSE, seed |-> "none", size |-> 0,
           drawn |-> 0, from |-> NoData, ptr |-> Uninit, pages |-> Uninit, memory |-> NoMemory,
           made |-> 0, mems |-> 0, skipped |-> 0]

GenInit ==
    /\ gen = [g \in Gens |-> Absent]
    /\ wasm = [s \in Seeds |-> Empty]
-----------------------------------------------------------------------------
(***************************************************************************)
(* The arithmetic of main and GenerateMemory.                              *)
(***************************************************************************)
\* size() / sizeof(uint32_t): the numbers that fill randomizedData.
Words(size) == size \div 4

\* A uint64_t stored in an int.
ToInt(n) == LET m == n % IntMod IN IF 2 * m < IntMod THEN m ELSE m - IntMod

\* Mutant: modules are counted, not numbers.
SkippedModules(count, size) == count

\* Mutant: the numbers are dropped in one call, however many.
SkippedSigned(count, size) == ToInt(((count * size) % SizeMod) \div 4)

\* skippedByteCount, as often as the loop counts: numbers that -skip-count drops.
Skipped(count, size) ==
    LET n == ToInt(((count * size) % SizeMod) \div 4) IN IF n > 0 THEN n ELSE 0

\* dataBeginAsInt32[mem_seed_ptr % maxIndex]: which number seeds a memory.
SeedAt(from, ptr, size) == IF from = NoData THEN NoData ELSE from + (ptr % Words(size))

\* What -repro writes: one module, and the number its one memory is seeded with.
ReproModule(seed, size, skip) == Module(seed, Skipped(skip, size), size)
ReproMemory(size, skip, skipMemory) == SeedAt(Skipped(skip, size), skipMemory, size)
-----------------------------------------------------------------------------
(***************************************************************************)
(* The processes.                                                          *)
(***************************************************************************)
\* What is left of a process that ends, or that does nothing any more.
Ends(g, how) == gen' = [gen EXCEPT ![g] = [Absent EXCEPT !.pc = how]]

Reading(g) == gen[g].pc = "read"
Takes(g, line) == Reading(g) /\ gen[g].in # <<>> /\ Head(gen[g].in) = line
Rest(g) == Tail(gen[g].in)

\* main up to the loop: the arguments, and the numbers skipped.
Start(g, seed, size, skip) ==
    /\ gen[g].pc = "absent"
    /\ gen' = [gen EXCEPT ![g] = [Absent EXCEPT
                  !.pc = "read", !.seed = seed, !.size = size,
                  !.drawn = Skipped(skip, size), !.skipped = skip]]
    /\ UNCHANGED wasm

\* What others do with its input: a line, or the end of it.
Send(g, line) ==
    /\ gen[g].pc \in {"read", "busy"} /\ ~gen[g].closed
    /\ gen' = [gen EXCEPT ![g].in = Append(@, line)]

CloseInput(g) == gen' = [gen EXCEPT ![g].closed = TRUE]

\* Mutant: the block is filled byte by byte.
GenerateBytes(g) ==
    /\ Takes(g, "w")
    /\ gen' = [gen EXCEPT ![g].pc = "busy", ![g].in = Rest(g),
                          ![g].from = gen[g].drawn, ![g].drawn = @ + gen[g].size]
    /\ wasm' = [wasm EXCEPT ![gen[g].seed] = Empty]

\* GenerateRandomWASM fills randomizedData and truncates the file ...
Generate(g) ==
    /\ Takes(g, "w")
    /\ gen' = [gen EXCEPT ![g].pc = "busy", ![g].in = Rest(g),
                          ![g].from = gen[g].drawn, ![g].drawn = @ + Words(gen[g].size)]
    /\ wasm' = [wasm EXCEPT ![gen[g].seed] = Empty]

\* Mutant: the pointer keeps counting from module to module.
WriteKeepingPtr(g) ==
    /\ gen[g].pc = "busy"
    /\ \E pages \in Pages : gen' = [gen EXCEPT ![g].pc = "read", ![g].pages = pages,
                                              ![g].ptr = IF @ = Uninit THEN 0 ELSE @,
                                              ![g].made = @ + 1, ![g].mems = 0]
    /\ LET own == Module(gen[g].seed, gen[g].from, gen[g].size)
       IN \E m \in {own} \cup (IF wasm[gen[g].seed] = Empty THEN {} ELSE {Mixed}) :
              wasm' = [wasm EXCEPT ![gen[g].seed] = m]

\* ... and writes it, over what another process wrote in the meantime.
Write(g) ==
    /\ gen[g].pc = "busy"
    /\ \E pages \in Pages : gen' = [gen EXCEPT ![g].pc = "read", ![g].pages = pages,
                                              ![g].ptr = 0, ![g].made = @ + 1, ![g].mems = 0]
    /\ LET own == Module(gen[g].seed, gen[g].from, gen[g].size)
       IN \E m \in {own} \cup (IF wasm[gen[g].seed] = Empty THEN {} ELSE {Mixed}) :
              wasm' = [wasm EXCEPT ![gen[g].seed] = m]

\* The generation fails and the process aborts, with the file truncated.
Fail(g) == gen[g].pc = "busy" /\ Ends(g, "dead") /\ UNCHANGED wasm

\* GenerateMemory: before the first "w" the pointer and the pages are whatever
\* the stack holds, and a block of less than one number divides by zero.
Memory(g) ==
    /\ Takes(g, "m")
    /\ IF Words(gen[g].size) = 0
       THEN Ends(g, "dead")
       ELSE \E pages \in IF gen[g].pages = Uninit THEN Pages ELSE {gen[g].pages} :
                gen' = [gen EXCEPT ![g].in = Rest(g),
                          ![g].memory = [seed |-> gen[g].seed, at |-> SeedAt(gen[g].from, gen[g].ptr, gen[g].size), pages |-> pages],
                          ![g].ptr = IF @ = Uninit THEN @ ELSE @ + 1, ![g].mems = @ + 1]
    /\ UNCHANGED wasm

Quit(g) == Takes(g, "q") /\ Ends(g, "dead") /\ UNCHANGED wasm

\* Any other line is ignored.
Ignore(g) == Takes(g, "") /\ gen' = [gen EXCEPT ![g].in = Rest(g)] /\ UNCHANGED wasm

\* Mutant: the lines before the end of the input are lost.
SpinAtOnce(g) ==
    /\ Reading(g) /\ gen[g].closed
    /\ Ends(g, "spin")
    /\ UNCHANGED wasm

\* At the end of the input getline leaves an empty line, for ever.
Spin(g) ==
    /\ Reading(g) /\ gen[g].in = <<>> /\ gen[g].closed
    /\ Ends(g, "spin")
    /\ UNCHANGED wasm

Works(g) == Generate(g) \/ Write(g) \/ Memory(g) \/ Quit(g) \/ Ignore(g) \/ Spin(g)

\* The processes, and whoever starts them and writes to them.
GenNext ==
    \E g \in Gens :
        \/ Works(g) \/ Fail(g)
        \/ \E seed \in Seeds, size \in Sizes, skip \in Nat : Start(g, seed, size, skip)
        \/ \E line \in Lines : Send(g, line) /\ UNCHANGED wasm
        \/ CloseInput(g) /\ UNCHANGED wasm

GenSpec == GenInit /\ [][GenNext]_genvars
-----------------------------------------------------------------------------
(***************************************************************************)
(* Properties.                                                             *)
(***************************************************************************)
\* The variables of RandomGen have their types.
GenTypeOK ==
    /\ gen \in [Gens -> [
          pc : {"absent", "read", "busy", "spin", "dead"}, in : Seq(Lines), closed : BOOLEAN,
          seed : Seeds \cup {"none"}, size : Nat, drawn : Nat, from : Nat \cup {NoData},
          ptr : Nat \cup {Uninit}, pages : Pages \cup {Uninit},
          memory : [seed : Seeds \cup {"none"}, at : Nat \cup {NoData}, pages : Pages \cup {0}],
          made : Nat, mems : Nat, skipped : Nat]]
    /\ wasm \in [Seeds -> {Empty, Mixed} \cup [seed : Seeds, from : Nat, size : Nat]]

\* The product of -skip-count and -block-size fits its types, and a block is a
\* whole number of words.
Exact(count, size) ==
    size % 4 = 0 /\ count * size < SizeMod /\ 2 * (count * Words(size)) < IntMod

\* The n-th module a process writes is the one that -repro writes when it
\* skips n - 1 modules, as long as the number of bytes to skip is exact.
ModuleRepeats ==
    \A g \in Gens : gen[g].made > 0 /\ gen[g].pc = "read" =>
        LET skip == gen[g].skipped + gen[g].made - 1 IN
        Exact(gen[g].skipped, gen[g].size) /\ Exact(skip, gen[g].size) =>
            gen[g].from = ReproModule(gen[g].seed, gen[g].size, skip).from

\* The j-th memory written for that module is the one that -repro writes when
\* it also skips j - 1 memories.
MemoryRepeats ==
    \A g \in Gens : gen[g].made > 0 /\ gen[g].mems > 0 /\ gen[g].pc = "read" =>
        LET skip == gen[g].skipped + gen[g].made - 1 IN
        Exact(gen[g].skipped, gen[g].size) /\ Exact(skip, gen[g].size) =>
            gen[g].memory.at = ReproMemory(gen[g].size, skip, gen[g].mems - 1)
=============================================================================
