---------------------------- MODULE RandomGenProofs ----------------------------
(***************************************************************************)
(* Theorems of GenSpec: any number of generators, writing over each        *)
(* other's files, whoever starts them and whatever they are sent, for      *)
(* every block size, every number of skipped modules and every width.      *)
(***************************************************************************)
EXTENDS RandomGen, TLAPS

\* How far a generator is in its stream of numbers, given what it has done:
\* the invariant that makes a module and a memory repeatable.
Stream(r) ==
    LET w == Words(r.size)
        start == Skipped(r.skipped, r.size)
    IN /\ r.pc \in {"read", "busy"} => r.seed \in Seeds /\ r.size \in Sizes
       /\ r.pc = "read" => r.drawn = start + r.made * w
       /\ r.pc = "busy" => r.from = start + r.made * w /\ r.drawn = start + r.made * w + w
       /\ r.pc = "read" /\ r.made > 0 =>
             /\ r.from = start + (r.made - 1) * w
             /\ r.ptr = r.mems
             /\ r.mems > 0 => r.memory.at = r.from + ((r.mems - 1) % w)

GenInv == GenTypeOK /\ \A g \in Gens : Stream(gen[g])

GenRecord == [
    pc : {"absent", "read", "busy", "spin", "dead"}, in : Seq(Lines), closed : BOOLEAN,
    seed : Seeds \cup {"none"}, size : Nat, drawn : Nat, from : Nat \cup {NoData},
    ptr : Nat \cup {Uninit}, pages : Pages \cup {Uninit},
    memory : [seed : Seeds \cup {"none"}, at : Nat \cup {NoData}, pages : Pages \cup {0}],
    made : Nat, mems : Nat, skipped : Nat]

Files == {Empty, Mixed} \cup [seed : Seeds, from : Nat, size : Nat]

\* The block of numbers and what is skipped are natural numbers.
LEMMA WordsNat == ASSUME NEW size \in Nat PROVE Words(size) \in Nat
BY SMT DEF Words

LEMMA SkippedNat == ASSUME NEW count \in Nat, NEW size \in Nat PROVE Skipped(count, size) \in Nat
<1>1. count * size \in Nat
    BY SMT
<1>2. (count * size) % SizeMod \in Int
    BY <1>1, WidthsAssumption, SMT
<1>3. ASSUME NEW n \in Int PROVE ToInt(n) \in Int
    BY WidthsAssumption, SMT DEF ToInt
<1>4. ((count * size) % SizeMod) \div 4 \in Int
    BY <1>2, SMT
<1>5. QED
    BY <1>3, <1>4, SMT DEF Skipped

\* As long as the product fits, -skip-count skips whole modules.
LEMMA SkipExact ==
    ASSUME NEW count \in Nat, NEW size \in Nat, Exact(count, size)
    PROVE  Skipped(count, size) = count * Words(size)
<1> DEFINE w == Words(size)
           m == count * w
<1>1. w \in Nat /\ size = 4 * w
    BY SMT DEF Exact, Words
<1>2. m \in Nat /\ 2 * m < IntMod
    BY <1>1, SMT DEF Exact
<1>3. count * size = 4 * m
    BY <1>1, SMT
<1>4. (count * size) % SizeMod = 4 * m
    BY <1>2, <1>3, WidthsAssumption, SMT DEF Exact
<1>5. ((count * size) % SizeMod) \div 4 = m
    BY <1>4, <1>2, SMT
<1>6. ToInt(m) = m
    BY <1>2, WidthsAssumption, SMT DEF ToInt
<1>7. QED
    BY <1>2, <1>5, <1>6, SMT DEF Skipped

LEMMA AbsentTyped == Absent \in GenRecord
<1>1. <<>> \in Seq(Lines)
    OBVIOUS
<1>2. NoMemory \in [seed : Seeds \cup {"none"}, at : Nat \cup {NoData}, pages : Pages \cup {0}]
    BY DEF NoMemory
<1>3. QED
    BY <1>1, <1>2 DEF Absent, GenRecord

\* A process that has ended, or not begun, has no place in a stream.
LEMMA AbsentOK ==
    ASSUME NEW how \in {"absent", "spin", "dead"}
    PROVE  [Absent EXCEPT !.pc = how] \in GenRecord /\ Stream([Absent EXCEPT !.pc = how])
<1> DEFINE r == [Absent EXCEPT !.pc = how]
<1>1. /\ r = [Absent EXCEPT !.pc = how]
      /\ r.pc = how
    BY DEF Absent
<1>2. r \in GenRecord
    <2>1. <<>> \in Seq(Lines)
        OBVIOUS
    <2>2. NoMemory \in [seed : Seeds \cup {"none"}, at : Nat \cup {NoData}, pages : Pages \cup {0}]
        BY DEF NoMemory
    <2>3. QED
        BY <2>1, <2>2 DEF Absent, GenRecord
<1>3. Stream(r)
    BY <1>1 DEF Stream
<1>4. QED
    BY <1>2, <1>3

\* One process changes ...
LEMMA ProcessChanges ==
    ASSUME GenInv, NEW g \in Gens, NEW r \in GenRecord, Stream(r), gen' = [gen EXCEPT ![g] = r],
           wasm' \in [Seeds -> Files]
    PROVE  GenInv'
<1>0. gen \in [Gens -> GenRecord]
    BY DEF GenInv, GenTypeOK, GenRecord
<1>1. gen' \in [Gens -> GenRecord]
    BY <1>0
<1>2. \A h \in Gens : Stream(gen'[h])
    BY <1>0 DEF GenInv
<1>3. QED
    BY <1>1, <1>2 DEF GenInv, GenTypeOK, GenRecord, Files, Stream

\* ... and writes nothing, or one file.
LEMMA FilesKept == ASSUME GenInv, UNCHANGED wasm PROVE wasm' \in [Seeds -> Files]
BY DEF GenInv, GenTypeOK, Files

LEMMA FileWritten ==
    ASSUME GenInv, NEW s \in Seeds, NEW f \in Files, wasm' = [wasm EXCEPT ![s] = f]
    PROVE  wasm' \in [Seeds -> Files]
BY DEF GenInv, GenTypeOK, Files

\* What is known of one process.
LEMMA One == ASSUME GenInv, NEW g \in Gens PROVE gen[g] \in GenRecord /\ Stream(gen[g])
BY DEF GenInv, GenTypeOK, GenRecord

LEMMA TailOK == ASSUME NEW q \in Seq(Lines), q # <<>> PROVE Tail(q) \in Seq(Lines)
OBVIOUS

LEMMA StartInv ==
    ASSUME GenInv, NEW g \in Gens, NEW seed \in Seeds, NEW size \in Sizes, NEW skip \in Nat, Start(g, seed, size, skip)
    PROVE  GenInv'
<1> DEFINE r == [Absent EXCEPT !.pc = "read", !.seed = seed, !.size = size, !.drawn = Skipped(skip, size), !.skipped = skip]
<1>1. size \in Nat /\ Words(size) \in Nat /\ Skipped(skip, size) \in Nat
    BY ValuesAssumption, WordsNat, SkippedNat
<1>2. r \in GenRecord
    <2>1. Absent \in GenRecord
        BY AbsentTyped
    <2>2. QED
        BY <1>1, <2>1 DEF GenRecord
<1>3. /\ r.pc = "read" /\ r.seed = seed /\ r.size = size /\ r.drawn = Skipped(skip, size)
      /\ r.skipped = skip /\ r.made = 0
    BY DEF Absent
<1>4. gen' = [gen EXCEPT ![g] = r] /\ wasm' = wasm
    BY DEF Start
<1> HIDE DEF r
<1>5. Stream(r)
    BY <1>1, <1>3, SMT DEF Stream
<1>6. QED
    BY <1>2, <1>4, <1>5, ProcessChanges, FilesKept

LEMMA SendInv ==
    ASSUME GenInv, NEW g \in Gens, NEW line \in Lines, Send(g, line), UNCHANGED wasm
    PROVE  GenInv'
<1> DEFINE r == [gen[g] EXCEPT !.in = Append(gen[g].in, line)]
<1>1. gen[g] \in GenRecord /\ Stream(gen[g])
    BY One
<1>2. r \in GenRecord
    <2>1. Append(gen[g].in, line) \in Seq(Lines)
        BY <1>1 DEF GenRecord
    <2>2. QED
        BY <1>1, <2>1 DEF GenRecord
<1>3. gen' = [gen EXCEPT ![g] = r]
    BY DEF Send
<1>4. Stream(r)
    BY <1>1 DEF Stream, GenRecord
<1>5. QED
    BY <1>2, <1>3, <1>4, ProcessChanges, FilesKept

LEMMA CloseInputInv ==
    ASSUME GenInv, NEW g \in Gens, CloseInput(g), UNCHANGED wasm
    PROVE  GenInv'
<1> DEFINE r == [gen[g] EXCEPT !.closed = TRUE]
<1>1. gen[g] \in GenRecord /\ Stream(gen[g])
    BY One
<1>2. r \in GenRecord /\ gen' = [gen EXCEPT ![g] = r]
    BY <1>1 DEF GenRecord, CloseInput
<1>3. Stream(r)
    BY <1>1 DEF Stream, GenRecord
<1>4. QED
    BY <1>2, <1>3, ProcessChanges, FilesKept

LEMMA EndsInv ==
    ASSUME GenInv, NEW g \in Gens, NEW how \in {"spin", "dead"}, Ends(g, how), UNCHANGED wasm
    PROVE  GenInv'
<1> DEFINE r == [Absent EXCEPT !.pc = how]
<1>1. gen' = [gen EXCEPT ![g] = r]
    BY DEF Ends
<1>2. r \in GenRecord /\ Stream(r)
    BY AbsentOK
<1>3. QED
    BY <1>1, <1>2, ProcessChanges, FilesKept

LEMMA IgnoreInv ==
    ASSUME GenInv, NEW g \in Gens, Ignore(g)
    PROVE  GenInv'
<1> DEFINE r == [gen[g] EXCEPT !.in = Rest(g)]
<1>1. gen[g] \in GenRecord /\ Stream(gen[g])
    BY One
<1>2. r \in GenRecord
    <2>1. Rest(g) \in Seq(Lines)
        BY <1>1, TailOK DEF Ignore, Takes, Rest, GenRecord
    <2>2. QED
        BY <1>1, <2>1 DEF GenRecord
<1>3. gen' = [gen EXCEPT ![g] = r] /\ wasm' = wasm
    BY DEF Ignore
<1>4. Stream(r)
    BY <1>1 DEF Stream, GenRecord
<1>5. QED
    BY <1>2, <1>3, <1>4, ProcessChanges, FilesKept

LEMMA GenerateInv ==
    ASSUME GenInv, NEW g \in Gens, Generate(g)
    PROVE  GenInv'
<1> DEFINE w == Words(gen[g].size)
           r == [gen[g] EXCEPT !.pc = "busy", !.in = Rest(g), !.from = gen[g].drawn, !.drawn = gen[g].drawn + w]
<1>1. gen[g] \in GenRecord /\ Stream(gen[g]) /\ gen[g].pc = "read"
    BY One DEF Generate, Takes, Reading
<1>2. w \in Nat /\ Rest(g) \in Seq(Lines)
    BY <1>1, TailOK, WordsNat DEF Generate, Takes, Rest, GenRecord
<1>3. gen' = [gen EXCEPT ![g] = r] /\ wasm' = [wasm EXCEPT ![gen[g].seed] = Empty]
    BY DEF Generate
<1>4. r \in GenRecord
    <2>1. gen[g].drawn \in Nat /\ gen[g].drawn + w \in Nat
        BY <1>1, <1>2, SMT DEF GenRecord
    <2> HIDE DEF w
    <2>2. QED
        BY <1>1, <1>2, <2>1 DEF GenRecord
<1>5. /\ r.pc = "busy" /\ r.from = gen[g].drawn /\ r.drawn = gen[g].drawn + w
      /\ r.seed = gen[g].seed /\ r.size = gen[g].size /\ r.skipped = gen[g].skipped /\ r.made = gen[g].made
    BY <1>1 DEF GenRecord
<1> HIDE DEF r
<1>6. Stream(r)
    BY <1>1, <1>5 DEF Stream
<1>7. gen[g].seed \in Seeds
    BY <1>1 DEF Stream
<1>8. QED
    BY <1>3, <1>4, <1>6, <1>7, ProcessChanges, FileWritten DEF Files

LEMMA WriteInv ==
    ASSUME GenInv, NEW g \in Gens, Write(g)
    PROVE  GenInv'
<1>1. PICK pages \in Pages : gen' = [gen EXCEPT ![g].pc = "read", ![g].pages = pages,
                                              ![g].ptr = 0, ![g].made = @ + 1, ![g].mems = 0]
    BY DEF Write
<1> DEFINE w == Words(gen[g].size)
           start == Skipped(gen[g].skipped, gen[g].size)
           r == [gen[g] EXCEPT !.pc = "read", !.pages = pages, !.ptr = 0, !.made = gen[g].made + 1, !.mems = 0]
<1>2. gen[g] \in GenRecord /\ Stream(gen[g]) /\ gen[g].pc = "busy"
    BY One DEF Write
<1>3. w \in Nat /\ start \in Nat /\ gen[g].made \in Nat
    BY <1>2, WordsNat, SkippedNat DEF GenRecord
<1>4. gen' = [gen EXCEPT ![g] = r]
    BY <1>1
<1>5. r \in GenRecord
    <2>1. gen[g].made + 1 \in Nat /\ 0 \in Nat
        BY <1>3, SMT
    <2> HIDE DEF w, start
    <2>2. QED
        BY <1>2, <2>1 DEF GenRecord
<1>6. /\ r.pc = "read" /\ r.ptr = 0 /\ r.mems = 0 /\ r.made = gen[g].made + 1
      /\ r.from = gen[g].from /\ r.drawn = gen[g].drawn
      /\ r.seed = gen[g].seed /\ r.size = gen[g].size /\ r.skipped = gen[g].skipped
    BY <1>2 DEF GenRecord
<1> HIDE DEF r
<1>7. gen[g].seed \in Seeds /\ gen[g].size \in Sizes /\ gen[g].from = start + gen[g].made * w /\ gen[g].drawn = start + gen[g].made * w + w
    BY <1>2 DEF Stream
<1>8. start + gen[g].made * w + w = start + (gen[g].made + 1) * w /\ (gen[g].made + 1) - 1 = gen[g].made
    BY <1>3, SMT
<1>9. Stream(r)
    BY <1>3, <1>6, <1>7, <1>8 DEF Stream
<1>10. PICK f \in Files : wasm' = [wasm EXCEPT ![gen[g].seed] = f]
    <2>1. gen[g].from \in Nat /\ gen[g].size \in Nat
        <3>1. gen[g].made * w \in Nat
            BY <1>3, SMT
        <3>2. QED
            BY <1>2, <1>3, <1>7, <3>1, SMTT(30) DEF GenRecord
    <2>2. Module(gen[g].seed, gen[g].from, gen[g].size) \in Files
        BY <2>1, <1>7 DEF Module, Files
    <2>3. QED
        BY <2>2 DEF Write, Files
<1>11. QED
    BY <1>4, <1>5, <1>7, <1>9, <1>10, ProcessChanges, FileWritten

LEMMA MemoryInv ==
    ASSUME GenInv, NEW g \in Gens, Memory(g)
    PROVE  GenInv'
<1> DEFINE w == Words(gen[g].size)
           at == SeedAt(gen[g].from, gen[g].ptr, gen[g].size)
<1>1. gen[g] \in GenRecord /\ Stream(gen[g]) /\ gen[g].pc = "read" /\ w \in Nat
    BY One, WordsNat DEF Memory, Takes, Reading, GenRecord
<1>2. CASE w = 0
    BY <1>2, EndsInv DEF Memory
<1>3. CASE w # 0
    <2>1. PICK pages \in IF gen[g].pages = Uninit THEN Pages ELSE {gen[g].pages} :
             gen' = [gen EXCEPT ![g].in = Rest(g),
                       ![g].memory = [seed |-> gen[g].seed, at |-> at, pages |-> pages],
                       ![g].ptr = IF @ = Uninit THEN @ ELSE @ + 1, ![g].mems = @ + 1]
        BY <1>3 DEF Memory
    <2> DEFINE r == [gen[g] EXCEPT !.in = Rest(g),
                       !.memory = [seed |-> gen[g].seed, at |-> at, pages |-> pages],
                       !.ptr = IF gen[g].ptr = Uninit THEN gen[g].ptr ELSE gen[g].ptr + 1, !.mems = gen[g].mems + 1]
    <2>2. gen' = [gen EXCEPT ![g] = r] /\ wasm' = wasm
        BY <2>1 DEF Memory
    <2>3. Rest(g) \in Seq(Lines)
        BY <1>1, TailOK DEF Memory, Takes, Rest, GenRecord
    <2>4. at \in Nat \cup {NoData}
        <3>1. gen[g].ptr % w \in Nat
            BY <1>1, <1>3, SMTT(30) DEF GenRecord, Uninit
        <3>2. QED
            BY <1>1, <3>1, SMTT(30) DEF SeedAt, GenRecord, NoData
    <2>5. pages \in Pages
        BY <1>1 DEF GenRecord
    <2>6. [seed |-> gen[g].seed, at |-> at, pages |-> pages] \in [seed : Seeds \cup {"none"}, at : Nat \cup {NoData}, pages : Pages \cup {0}]
        BY <1>1, <2>4, <2>5 DEF GenRecord
    <2>7. (IF gen[g].ptr = Uninit THEN gen[g].ptr ELSE gen[g].ptr + 1) \in Nat \cup {Uninit} /\ gen[g].mems + 1 \in Nat
        BY <1>1, SMTT(30) DEF GenRecord, Uninit
    <2> HIDE DEF at
    <2>8. r \in GenRecord
        <3> DEFINE memory == [seed |-> gen[g].seed, at |-> at, pages |-> pages]
                   ptr == IF gen[g].ptr = Uninit THEN gen[g].ptr ELSE gen[g].ptr + 1
                   mems == gen[g].mems + 1
        <3>1. memory \in [seed : Seeds \cup {"none"}, at : Nat \cup {NoData}, pages : Pages \cup {0}]
            BY <2>6
        <3>2. ptr \in Nat \cup {Uninit} /\ mems \in Nat
            BY <2>7
        <3>3. r = [gen[g] EXCEPT !.in = Rest(g), !.memory = memory, !.ptr = ptr, !.mems = mems]
            OBVIOUS
        <3> HIDE DEF memory, ptr, mems, r
        <3>4. QED
            BY <1>1, <2>3, <3>1, <3>2, <3>3 DEF GenRecord
    <2>9. /\ r.pc = "read" /\ r.mems = gen[g].mems + 1 /\ r.made = gen[g].made /\ r.memory.at = at
          /\ r.ptr = (IF gen[g].ptr = Uninit THEN gen[g].ptr ELSE gen[g].ptr + 1)
          /\ r.from = gen[g].from /\ r.drawn = gen[g].drawn
          /\ r.seed = gen[g].seed /\ r.size = gen[g].size /\ r.skipped = gen[g].skipped
        BY <1>1 DEF GenRecord
    <2> HIDE DEF r
    <2>10. ASSUME gen[g].made > 0
           PROVE  r.ptr = r.mems /\ r.memory.at = r.from + ((r.mems - 1) % w) /\ r.from = gen[g].from
        <3>1. gen[g].ptr = gen[g].mems /\ gen[g].mems \in Nat
            BY <1>1, <2>10 DEF Stream, GenRecord
        <3>2. r.ptr = r.mems /\ r.mems - 1 = gen[g].ptr
            BY <3>1, <2>9, SMT DEF Uninit
        <3>3. gen[g].from # NoData
            <4>1. Skipped(gen[g].skipped, gen[g].size) \in Nat /\ gen[g].made \in Nat
                BY <1>1, SkippedNat DEF GenRecord
            <4>2. (gen[g].made - 1) * w \in Nat
                BY <1>1, <4>1, <2>10, SMT
            <4>3. gen[g].from = Skipped(gen[g].skipped, gen[g].size) + (gen[g].made - 1) * w
                BY <1>1, <2>10 DEF Stream
            <4>4. QED
                BY <4>1, <4>2, <4>3, SMT DEF NoData
        <3>4. QED
            BY <2>9, <3>2, <3>3 DEF at, SeedAt
    <2>11. Stream(r)
        BY <1>1, <2>9, <2>10 DEF Stream
    <2>12. QED
        BY <2>2, <2>8, <2>11, ProcessChanges, FilesKept
<1>4. QED
    BY <1>2, <1>3

\* No process has begun.
LEMMA GenInitInv == GenInit => GenInv
<1> SUFFICES ASSUME GenInit PROVE GenInv
    OBVIOUS
<1>1. Absent \in GenRecord /\ Stream(Absent)
    BY AbsentTyped DEF Stream, Absent
<1>2. QED
    BY <1>1 DEF GenInit, GenInv, GenTypeOK, GenRecord

\* The invariant is inductive.
LEMMA GenNextInv == GenInv /\ [GenNext]_genvars => GenInv'
<1> SUFFICES ASSUME GenInv, [GenNext]_genvars PROVE GenInv'
    OBVIOUS
<1>1. CASE UNCHANGED genvars
    BY <1>1 DEF genvars, GenInv, GenTypeOK, Stream
<1>2. ASSUME NEW g \in Gens, Works(g) \/ Fail(g) PROVE GenInv'
    BY <1>2, GenerateInv, WriteInv, MemoryInv, IgnoreInv, EndsInv DEF Works, Fail, Quit, Spin
<1>3. ASSUME NEW g \in Gens, NEW seed \in Seeds, NEW size \in Sizes, NEW skip \in Nat, Start(g, seed, size, skip)
      PROVE  GenInv'
    BY <1>3, StartInv
<1>4. ASSUME NEW g \in Gens, NEW line \in Lines, Send(g, line), UNCHANGED wasm PROVE GenInv'
    BY <1>4, SendInv
<1>5. ASSUME NEW g \in Gens, CloseInput(g), UNCHANGED wasm PROVE GenInv'
    BY <1>5, CloseInputInv
<1>6. QED
    BY <1>1, <1>2, <1>3, <1>4, <1>5 DEF GenNext

\* random-gen: the variables of the processes and the files keep their types.
THEOREM GenTypeCorrect == GenSpec => []GenTypeOK
<1>1. GenInv => GenTypeOK
    BY DEF GenInv
<1>2. QED
    BY <1>1, GenInitInv, GenNextInv, PTL DEF GenSpec

\* The place of the last module of a process: as many modules in as it skipped
\* and wrote before.
LEMMA PlaceOfModule ==
    ASSUME GenInv, NEW g \in Gens, gen[g].made > 0, gen[g].pc = "read",
           Exact(gen[g].skipped, gen[g].size), Exact(gen[g].skipped + gen[g].made - 1, gen[g].size)
    PROVE  /\ gen[g].from = Skipped(gen[g].skipped + gen[g].made - 1, gen[g].size)
           /\ gen[g].from \in Nat
<1> DEFINE w == Words(gen[g].size)
           skipped == gen[g].skipped
           made == gen[g].made
<1>1. gen[g] \in GenRecord /\ Stream(gen[g])
    BY One
<1>2. skipped \in Nat /\ made \in Nat /\ gen[g].size \in Nat /\ w \in Nat
    BY <1>1, WordsNat DEF GenRecord
<1>3. skipped + made - 1 \in Nat
    BY <1>2, SMT
<1>4. Skipped(skipped, gen[g].size) = skipped * w
    BY <1>2, SkipExact
<1>5. Skipped(skipped + made - 1, gen[g].size) = (skipped + made - 1) * w
    BY <1>2, <1>3, SkipExact
<1>6. gen[g].from = skipped * w + (made - 1) * w
    BY <1>1, <1>4 DEF Stream
<1>7. skipped * w + (made - 1) * w = (skipped + made - 1) * w
    BY <1>2, SMT
<1>8. (skipped + made - 1) * w \in Nat
    BY <1>2, <1>3, SMT
<1>9. QED
    BY <1>5, <1>6, <1>7, <1>8

\* -skip-count repeats a module: whatever else runs, the last module a process
\* wrote is the one that -repro writes when it skips all those before it.
THEOREM ModulesRepeat == GenSpec => []ModuleRepeats
<1>1. GenInv => ModuleRepeats
    BY PlaceOfModule DEF ModuleRepeats, ReproModule, Module
<1>2. QED
    BY <1>1, GenInitInv, GenNextInv, PTL DEF GenSpec

\* -skip-memory-count repeats a memory of that module.
THEOREM MemoriesRepeat == GenSpec => []MemoryRepeats
<1>1. ASSUME GenInv PROVE MemoryRepeats
    <2> SUFFICES ASSUME NEW g \in Gens, gen[g].made > 0, gen[g].mems > 0, gen[g].pc = "read",
                        Exact(gen[g].skipped, gen[g].size), Exact(gen[g].skipped + gen[g].made - 1, gen[g].size)
                 PROVE  gen[g].memory.at = ReproMemory(gen[g].size, gen[g].skipped + gen[g].made - 1, gen[g].mems - 1)
        BY DEF MemoryRepeats
    <2>1. gen[g].from = Skipped(gen[g].skipped + gen[g].made - 1, gen[g].size) /\ gen[g].from \in Nat
        BY <1>1, PlaceOfModule
    <2>2. gen[g].memory.at = gen[g].from + ((gen[g].mems - 1) % Words(gen[g].size))
        BY <1>1, One DEF Stream
    <2>3. QED
        BY <2>1, <2>2 DEF ReproMemory, SeedAt, NoData
<1>2. QED
    BY <1>1, GenInitInv, GenNextInv, PTL DEF GenSpec

(***************************************************************************)
(* The "q" a process is sent.                                              *)
(***************************************************************************)
QuitAt(g, k) == k \in 1..Len(gen[g].in) /\ gen[g].in[k] = "q"

\* A process that has not begun, or does nothing any more, has no lines to read.
InputInv == GenInv /\ \A g \in Gens : gen[g].pc \in {"read", "busy"} \/ gen[g].in = <<>>

\* A line that is taken moves the others to the front.
LEMMA TailMoves ==
    ASSUME NEW q \in Seq(Lines), q # <<>>, NEW k \in 1..Len(q), q[k] = "q", Head(q) # "q"
    PROVE  k - 1 \in 1..Len(Tail(q)) /\ Tail(q)[k - 1] = "q"
<1>1. k # 1
    OBVIOUS
<1>2. k - 1 \in 1..Len(Tail(q))
    BY <1>1
<1>3. QED
    BY <1>1, <1>2

\* A step of a process that does not end it leaves it reading or writing, with
\* the lines it had, or all but the first of them.
LEMMA MemoryTakes ==
    ASSUME GenInv, NEW g \in Gens, Memory(g)
    PROVE  Ends(g, "dead") \/ \E r : gen' = [gen EXCEPT ![g] = r] /\ r.pc = "read" /\ r.in = Rest(g)
<1>1. gen[g] \in GenRecord /\ gen[g].pc = "read"
    BY One DEF Memory, Takes, Reading
<1> SUFFICES ASSUME ~Ends(g, "dead")
             PROVE  \E r : gen' = [gen EXCEPT ![g] = r] /\ r.pc = "read" /\ r.in = Rest(g)
    OBVIOUS
<1> DEFINE at == SeedAt(gen[g].from, gen[g].ptr, gen[g].size)
<1>2. PICK pages : gen' = [gen EXCEPT ![g].in = Rest(g),
                ![g].memory = [seed |-> gen[g].seed, at |-> at, pages |-> pages],
                ![g].ptr = IF @ = Uninit THEN @ ELSE @ + 1, ![g].mems = @ + 1]
    BY DEF Memory
<1> DEFINE r == [gen[g] EXCEPT !.in = Rest(g),
                !.memory = [seed |-> gen[g].seed, at |-> at, pages |-> pages],
                !.ptr = IF gen[g].ptr = Uninit THEN gen[g].ptr ELSE gen[g].ptr + 1, !.mems = gen[g].mems + 1]
<1>3. gen' = [gen EXCEPT ![g] = r]
    BY <1>2
<1>4. r.pc = "read" /\ r.in = Rest(g)
    BY <1>1 DEF GenRecord
<1>5. QED
    BY <1>3, <1>4

LEMMA WriteTakes ==
    ASSUME GenInv, NEW g \in Gens, Write(g)
    PROVE  \E r : gen' = [gen EXCEPT ![g] = r] /\ r.pc = "read" /\ r.in = gen[g].in
<1>1. PICK pages \in Pages : gen' = [gen EXCEPT ![g].pc = "read", ![g].pages = pages,
                                              ![g].ptr = 0, ![g].made = @ + 1, ![g].mems = 0]
    BY DEF Write
<1> DEFINE r == [gen[g] EXCEPT !.pc = "read", !.pages = pages, !.ptr = 0, !.made = gen[g].made + 1, !.mems = 0]
<1>2. gen' = [gen EXCEPT ![g] = r]
    BY <1>1
<1>3. r.pc = "read" /\ r.in = gen[g].in
    BY One DEF GenRecord
<1>4. QED
    BY <1>2, <1>3

LEMMA IgnoreTakes ==
    ASSUME GenInv, NEW g \in Gens, Ignore(g)
    PROVE  \E r : gen' = [gen EXCEPT ![g] = r] /\ r.pc = "read" /\ r.in = Rest(g)
<1> DEFINE r == [gen[g] EXCEPT !.in = Rest(g)]
<1>1. gen' = [gen EXCEPT ![g] = r]
    BY DEF Ignore
<1>2. r.pc = "read" /\ r.in = Rest(g)
    BY One DEF GenRecord, Ignore, Takes, Reading
<1>3. QED
    BY <1>1, <1>2

LEMMA InputStep == InputInv /\ [GenNext]_genvars => InputInv'
<1> SUFFICES ASSUME InputInv, [GenNext]_genvars PROVE InputInv'
    OBVIOUS
<1>0. GenInv' /\ gen \in [Gens -> GenRecord]
    BY GenNextInv DEF InputInv, GenInv, GenTypeOK, GenRecord
<1> DEFINE OK(r) == r.pc \in {"read", "busy"} \/ r.in = <<>>
<1>1. CASE UNCHANGED gen
    BY <1>0, <1>1 DEF InputInv
<1>2. ASSUME NEW g \in Gens, NEW r, gen' = [gen EXCEPT ![g] = r], OK(r) PROVE InputInv'
    BY <1>0, <1>2 DEF InputInv
<1>3. ASSUME NEW g \in Gens, NEW how, Ends(g, how) PROVE InputInv'
    BY <1>2, <1>3 DEF Ends, Absent
<1>4. ASSUME NEW g \in Gens, Works(g) \/ Fail(g) PROVE InputInv'
    <2>1. CASE \E how : Ends(g, how)
        BY <1>3, <2>1
    <2>2. CASE gen'[g].pc \in {"read", "busy"} /\ gen' = [gen EXCEPT ![g] = gen'[g]]
        BY <1>2, <2>2
    <2>3. CASE Generate(g)
        BY <1>0, <2>2, <2>3 DEF Generate, GenRecord
    <2>4. CASE Write(g)
        BY <1>2, <2>4, WriteTakes DEF InputInv
    <2>5. CASE Memory(g)
        BY <1>2, <2>1, <2>5, MemoryTakes DEF InputInv
    <2>6. CASE Ignore(g)
        BY <1>2, <2>6, IgnoreTakes DEF InputInv
    <2>7. QED
        BY <1>4, <2>1, <2>3, <2>4, <2>5, <2>6 DEF Works, Fail, Quit, Spin
<1>5. ASSUME NEW g \in Gens, NEW seed \in Seeds, NEW size \in Sizes, NEW skip \in Nat, Start(g, seed, size, skip)
      PROVE  InputInv'
    BY <1>2, <1>5 DEF Start, Absent
<1>6. ASSUME NEW g \in Gens, NEW line \in Lines, Send(g, line) PROVE InputInv'
    <2> DEFINE r == [gen[g] EXCEPT !.in = Append(gen[g].in, line)]
    <2>1. gen' = [gen EXCEPT ![g] = r]
        BY <1>6 DEF Send
    <2>2. OK(r)
        BY <1>0, <1>6 DEF Send, GenRecord
    <2>3. QED
        BY <1>2, <2>1, <2>2
<1>7. ASSUME NEW g \in Gens, CloseInput(g) PROVE InputInv'
    <2> DEFINE r == [gen[g] EXCEPT !.closed = TRUE]
    <2>1. gen' = [gen EXCEPT ![g] = r] /\ OK(gen[g])
        BY <1>7 DEF CloseInput, InputInv
    <2>2. OK(r)
        BY <1>0, <2>1 DEF GenRecord
    <2>3. QED
        BY <1>2, <2>1, <2>2
<1>8. QED
    BY <1>1, <1>4, <1>5, <1>6, <1>7 DEF GenNext, genvars

\* A "q" that is waiting stays at its place or comes nearer, until the process
\* ends; a step of the process takes a line off before it, finishes a module, or
\* ends the process.
Nearer(g, k) ==
    /\ gen'[g].pc = "dead" \/ \E j \in 1..k : QuitAt(g, j)'
    /\ Works(g) => \/ gen'[g].pc = "dead"
                   \/ \E j \in 1..(k - 1) : QuitAt(g, j)'
                   \/ gen[g].pc = "busy" /\ gen'[g].pc = "read"

\* A "q" is obeyed: whatever else the process is sent and whoever ends its
\* input, a "q" it has not read yet stays at its place or comes nearer, until
\* the process ends; and every step of the process itself takes a line off the
\* queue before it, finishes the module it is writing, or ends the process.
THEOREM QuitComesNearer ==
    GenSpec => [][\A g \in Gens : \A k \in Nat : QuitAt(g, k) => Nearer(g, k)]_genvars
<1>1. ASSUME InputInv, [GenNext]_genvars, NEW g \in Gens, NEW k \in Nat, QuitAt(g, k)
      PROVE  Nearer(g, k)
    <2> USE DEF Nearer
    <2>0. /\ gen \in [Gens -> GenRecord] /\ gen[g].in \in Seq(Lines)
          /\ gen[g].in # <<>> /\ gen[g].pc \in {"read", "busy"} /\ k \in 1..Len(gen[g].in)
        BY <1>1 DEF InputInv, GenInv, GenTypeOK, GenRecord, QuitAt
    <2>1. CASE gen'[g].in = gen[g].in /\ ~Works(g)
        BY <1>1, <2>0, <2>1 DEF QuitAt
    <2>2. CASE gen[g].in # <<>> /\ Head(gen[g].in) # "q" /\ gen'[g].in = Rest(g)
        <3>1. k - 1 \in 1..Len(Rest(g)) /\ Rest(g)[k - 1] = "q"
            BY <1>1, <2>0, <2>2, TailMoves DEF QuitAt, Rest
        <3>2. QuitAt(g, k - 1)' /\ k - 1 \in 1..(k - 1)
            BY <2>2, <3>1 DEF QuitAt
        <3>3. QED
            BY <3>2
    <2>3. CASE Works(g)
        <3>1. CASE Generate(g)
            BY <2>0, <2>2, <3>1 DEF Generate, Takes, GenRecord
        <3>2. CASE Write(g)
            <4>1. gen'[g].in = gen[g].in /\ gen'[g].pc = "read" /\ gen[g].pc = "busy"
                BY <2>0, <3>2 DEF Write, GenRecord
            <4>2. QED
                BY <1>1, <2>0, <4>1 DEF QuitAt
        <3>3. CASE Memory(g)
            <4>1. CASE Ends(g, "dead")
                BY <2>0, <4>1 DEF Ends, Absent
            <4>2. CASE ~Ends(g, "dead")
                <5>1. gen'[g].in = Rest(g)
                    BY <1>1, <2>0, <3>3, <4>2, MemoryTakes DEF InputInv
                <5>2. QED
                    BY <2>0, <2>2, <3>3, <5>1 DEF Memory, Takes
            <4>3. QED
                BY <4>1, <4>2
        <3>4. CASE Quit(g)
            BY <2>0, <3>4 DEF Quit, Ends, Absent
        <3>5. CASE Ignore(g)
            BY <2>0, <2>2, <3>5 DEF Ignore, Takes, GenRecord
        <3>6. CASE Spin(g)
            BY <2>0, <3>6 DEF Spin
        <3>7. QED
            BY <2>3, <3>1, <3>2, <3>3, <3>4, <3>5, <3>6 DEF Works
    <2>4. CASE ~Works(g)
        <3>1. CASE UNCHANGED gen
            BY <2>1, <2>4, <3>1
        <3>2. ASSUME NEW h \in Gens, h # g, gen' = [gen EXCEPT ![h] = gen'[h]] PROVE gen'[g] = gen[g]
            BY <2>0, <3>2
        <3>3. ASSUME NEW h \in Gens, Works(h) \/ Fail(h) PROVE gen' = [gen EXCEPT ![h] = gen'[h]]
            BY <2>0, <3>3 DEF Works, Fail, Generate, Write, Memory, Quit, Ignore, Spin, Ends, GenRecord
        <3>4. CASE Fail(g)
            BY <2>0, <3>4 DEF Fail, Ends, Absent
        <3>5. ASSUME NEW line \in Lines, NEW h \in Gens, Send(h, line) PROVE \E j \in 1..k : QuitAt(g, j)'
            <4>1. gen' = [gen EXCEPT ![h] = gen'[h]]
                BY <2>0, <3>5 DEF Send, GenRecord
            <4>2. CASE h # g
                <5>1. gen'[g] = gen[g]
                    BY <3>2, <4>1, <4>2
                <5>2. QuitAt(g, k)'
                    BY <1>1, <5>1 DEF QuitAt
                <5>3. QED
                    BY <2>0, <5>2
            <4>3. CASE h = g
                <5>1. gen'[g].in = Append(gen[g].in, line)
                    BY <2>0, <3>5, <4>3 DEF Send, GenRecord
                <5>2. QuitAt(g, k)'
                    BY <1>1, <2>0, <5>1 DEF QuitAt
                <5>3. QED
                    BY <2>0, <5>2
            <4>4. QED
                BY <4>2, <4>3
        <3>6. ASSUME NEW h \in Gens, CloseInput(h) PROVE gen'[g].in = gen[g].in
            BY <2>0, <3>6 DEF CloseInput, GenRecord
        <3>7. ASSUME NEW h \in Gens, NEW seed \in Seeds, NEW size \in Sizes, NEW skip \in Nat,
                     Start(h, seed, size, skip)
              PROVE  gen'[g] = gen[g]
            BY <2>0, <3>7 DEF Start
        <3>8. ASSUME NEW h \in Gens, h # g, Works(h) \/ Fail(h) PROVE gen'[g] = gen[g]
            BY <3>2, <3>3, <3>8
        <3>9. QED
            BY <1>1, <2>1, <2>4, <3>1, <3>4, <3>5, <3>6, <3>7, <3>8 DEF GenNext, genvars
    <2>5. QED
        BY <2>3, <2>4
<1>2. GenInit => InputInv
    BY GenInitInv DEF GenInit, InputInv, Absent
<1>3. InputInv /\ [GenNext]_genvars =>
        [\A g \in Gens : \A k \in Nat : QuitAt(g, k) => Nearer(g, k)]_genvars
    BY <1>1
<1>4. QED
    BY <1>2, <1>3, InputStep, PTL DEF GenSpec
=============================================================================
