---------------------------- MODULE SessionsProofs ----------------------------
(***************************************************************************)
(* Theorems of Sessions, for any number of sessions, steps and generators. *)
(* A campaign is one of the callers FuzzerDbProofs speaks of, and drives   *)
(* its generators in one of the ways RandomGenProofs speaks of, so that    *)
(* the theorems of both hold of it.  Beyond them, the pace of a generator  *)
(* against its coordinator makes every stored step repeatable.             *)
(***************************************************************************)
EXTENDS Sessions, FuzzerDbProofs, RandomGenProofs, SequenceTheorems

\* Where the coordinator is, and what it has of the database and of itself.
Stage ==
    /\ pc \in {"down", "open", "seed", "flush", "outer", "sleep", "inner", "store", "end", "quit", "close"}
    /\ session \in 0..MaxSessions
    /\ seed \in Seeds \cup {"none"} /\ size \in Blocks \cup {0}
    /\ pc # "down" => session \in 1..MaxSessions /\ seed \in Seeds /\ size \in Blocks
    /\ pc = "down" => db = "closed"
    /\ pc = "open" => db \in {"new", "half", "open"}
    /\ pc \notin {"down", "open"} => db = "open"
    /\ step \in 0..Steps /\ mem \in 0..MemSteps
    /\ pc \in {"down", "open", "seed", "flush"} => step = 0
    /\ pc \in {"sleep", "inner", "store"} => step < Steps
    /\ pc = "store" => mem < MemSteps
    /\ ran \in Files
    /\ {late, rival, refused} \subseteq BOOLEAN

\* A variable of the coordinator that names a row which is there.
Live(u) == u \in {"V8", "SpiderMonkey"} \/ Finds(disk \cup tx, TableOf[u], ids[u])

\* The serials: what a row that is still to be stored refers to is there, or
\* stored before it.
Keys ==
    /\ ids \in [DOMAIN TableOf -> Serials \cup {0}]
    /\ ids["V8"] = 1 /\ ids["SpiderMonkey"] = 2
    /\ pc \in {"flush", "outer", "sleep", "inner", "store", "end"} => Live("seed")
    /\ pc \in {"inner", "store"} => Live("step")
    /\ todo \in Seq(DOMAIN Passes)
    /\ pc # "store" => todo = <<>>
    /\ \A k \in 1..Len(todo) : \A u \in Passes[todo[k]] :
          Live(u) \/ \E j \in 1..(k - 1) : todo[j] = u

\* The pace: how far the session's own generator has come in the lines "w" it
\* was sent, and what it and the others have left in the module file.
InStep == {"sleep", "inner", "store"}
Sent == IF pc \in InStep THEN step + 1 ELSE step
Mine == Module(seed, gen[session].from, size)

Paced(r, s, z, sent) ==
    /\ r.pc \in {"read", "busy", "dead"}
    /\ r.pc # "dead" =>
          /\ ~r.closed /\ r.seed = s /\ r.size = z /\ r.skipped = 0
          /\ r.in \in Seq({"w"})
          /\ r.made + Len(r.in) + (IF r.pc = "busy" THEN 1 ELSE 0) = sent

Pace ==
    /\ pc \in {"seed", "flush", "outer"} \cup InStep => Paced(gen[session], seed, size, Sent)
    /\ pc \in InStep /\ ~rival => \A g \in Gens \ {session} : gen[g].seed = seed => ~Owes(g)
    /\ pc \in InStep /\ ~rival /\ gen[session].pc = "read" /\ gen[session].made = step + 1
          => wasm[seed] \in {Mixed, Mine}
    /\ pc \in {"inner", "store"} /\ ~late => gen[session].pc = "read" /\ gen[session].made = step + 1
    /\ pc = "store" /\ ~late /\ ~rival => ran \in {Empty, Mixed, Mine}

CampaignInv == DbInv /\ GenInv /\ Stage /\ Keys /\ Pace /\ RefusedOnlyAfterCut
-----------------------------------------------------------------------------
\* What a generator does to itself and to its file, whoever makes it.
LEMMA GenStep ==
    ASSUME Stage, [Next]_vars
    PROVE  [GenNext]_genvars
<1>1. CASE UNCHANGED vars
    BY <1>1 DEF vars
<1>2. ASSUME pc # "down" PROVE session \in Gens /\ size \in Sizes /\ seed \in Seeds
    BY <1>2, ProcessesAssumption DEF Stage
<1>3. ASSUME HangUp PROVE pc # "down" => [GenNext]_genvars
    BY <1>2, <1>3 DEF HangUp, GenNext, genvars
<1>4. CASE Popen
    <2>1. Start(session, seed, size, 0) /\ session \in Gens /\ size \in Sizes /\ seed \in Seeds
        BY <1>2, <1>4 DEF Popen
    <2>2. QED
        BY <2>1 DEF GenNext
<1>5. CASE SendW
    <2>1. Send(session, "w") /\ UNCHANGED wasm /\ session \in Gens
        BY <1>2, <1>5 DEF SendW, Lines
    <2>2. QED
        BY <2>1 DEF GenNext, Lines
<1>6. CASE SendQ
    <2>1. Send(session, "q") /\ UNCHANGED wasm /\ session \in Gens
        BY <1>2, <1>6 DEF SendQ
    <2>2. QED
        BY <2>1 DEF GenNext, Lines
<1>7. CASE StartByHand
    BY <1>7, ProcessesAssumption, SessionsAssumption DEF StartByHand, GenNext
<1>8. CASE Type
    BY <1>8, ProcessesAssumption DEF Type, GenNext
<1>9. ASSUME NEW g \in Gens, Generator(g) PROVE [GenNext]_genvars
    BY <1>9 DEF Generator, GenNext
<1>10. CASE Crash \/ Refused \/ Finish
    BY <1>3, <1>10 DEF Crash, Refused, Gone, Finish
<1>11. CASE StartSession \/ InitNewDb \/ StoreSeed \/ FlushSeed \/ StoreStep \/ RunTesters
    BY <1>11 DEF StartSession, InitNewDb, StoreSeed, FlushSeed, StoreStep, RunTesters, genvars
<1>12. CASE StoreNext \/ MemStepDone \/ NextStep \/ End \/ Idle
    BY <1>12 DEF StoreNext, MemStepDone, NextStep, End, Idle, vars, genvars
<1>13. QED
    BY <1>1, <1>4, <1>5, <1>6, <1>7, <1>8, <1>9, <1>10, <1>11, <1>12 DEF Next, Coordinator

\* The coordinator goes from stage to stage as its loops do.
LEMMA StageInv ==
    ASSUME DbInv, GenInv, Stage, [Next]_vars
    PROVE  Stage'
<1>1. CASE UNCHANGED vars
    BY <1>1 DEF vars, covars, dbvars, Stage
<1>2. ASSUME UNCHANGED <<covars, dbvars>> PROVE Stage'
    BY <1>2 DEF covars, dbvars, Stage
<1>3. 0 \in 0..Steps /\ 0 \in 0..MemSteps /\ Empty \in Files
    BY SessionsAssumption DEF Files
<1>4. ASSUME Gone, pc # "down", refused' \in BOOLEAN PROVE Stage'
    BY <1>3, <1>4 DEF Gone, DieOpen, Stage
<1>5. CASE StartSession
    BY <1>5, SessionsAssumption DEF StartSession, Open, Stage
<1>6. CASE InitNewDb
    BY <1>6 DEF InitNewDb, InsertV8, InsertSpiderMonkey, covars, Stage
<1>7. CASE Popen
    BY <1>7 DEF Popen, dbvars, Stage
<1>8. CASE StoreSeed
    BY <1>8 DEF StoreSeed, Store, Insert, Stage
<1>9. CASE FlushSeed
    BY <1>9 DEF FlushSeed, Flush, Stage
<1>10. CASE SendW
    <2>1. rival' \in BOOLEAN
        BY <1>10 DEF SendW
    <2>2. QED
        BY <1>10, <2>1, SessionsAssumption DEF SendW, dbvars, Stage
<1>11. CASE StoreStep
    <2>1. late' \in BOOLEAN
        BY <1>11 DEF StoreStep
    <2>2. QED
        BY <1>3, <1>11, <2>1 DEF StoreStep, Store, Insert, Stage
<1>12. CASE RunTesters
    <2>1. ran' \in Files
        BY <1>12 DEF RunTesters, GenInv, GenTypeOK, Files, Stage
    <2>2. QED
        BY <1>12, <2>1, SessionsAssumption DEF RunTesters, dbvars, Stage
<1>13. CASE StoreNext
    BY <1>13 DEF StoreNext, Store, Insert, Stage
<1>14. CASE Refused
    BY <1>4, <1>14 DEF Refused
<1>15. CASE MemStepDone
    <2>1. mem' \in 0..MemSteps
        BY <1>15, SessionsAssumption DEF MemStepDone, Stage
    <2>2. db' = db
        BY <1>15 DEF MemStepDone, Flush, dbvars
    <2>3. QED
        BY <1>15, <2>1, <2>2 DEF MemStepDone, Stage
<1>16. CASE NextStep
    BY <1>16, SessionsAssumption DEF NextStep, dbvars, Stage
<1>17. CASE End
    BY <1>17 DEF End, Flush, Stage
<1>18. CASE SendQ
    BY <1>18 DEF SendQ, dbvars, Stage
<1>19. CASE Finish
    BY <1>3, <1>19 DEF Finish, Close, Stage
<1>20. CASE Crash
    BY <1>4, <1>20 DEF Crash, Stage
<1>21. CASE StartByHand \/ Type \/ Idle
    BY <1>1, <1>2, <1>21 DEF StartByHand, Type, Idle
<1>22. ASSUME NEW g \in Gens, Generator(g) PROVE Stage'
    BY <1>2, <1>22 DEF Generator
<1>23. QED
    BY <1>1, <1>5, <1>6, <1>7, <1>8, <1>9, <1>10, <1>11, <1>12, <1>13, <1>14, <1>15, <1>16, <1>17, <1>18,
       <1>19, <1>20, <1>21, <1>22 DEF Next, Coordinator
-----------------------------------------------------------------------------
\* Every foreign key of a row is passed in a variable of its own.
LEMMA VariablesFit ==
    ASSUME NEW v \in DOMAIN Passes
    PROVE  /\ v \in DOMAIN TableOf /\ v \notin {"V8", "SpiderMonkey"}
           /\ TableOf[v] \in Tables \ {"implementations"}
           /\ \A p \in ForeignKeys[TableOf[v]] : \E u \in Passes[v] : TableOf[u] = p
           /\ Passes[v] \subseteq DOMAIN TableOf
           /\ \A u \in Passes[v] : TableOf[u] = "implementations" <=> u \in {"V8", "SpiderMonkey"}
<1>1. v \in {"seed", "step", "memstep", "v8_id", "sm_id", "functioncall_id", "arg", "v8_case", "moz_case",
             "v8_memory", "moz_memory", "v8_global", "moz_global"}
    BY DEF Passes
<1>2. CASE v \in {"seed", "step", "memstep", "v8_id", "sm_id"}
    BY <1>2 DEF Passes, TableOf, Tables, ForeignKeys
<1>3. CASE v \in {"functioncall_id", "arg", "v8_case", "moz_case"}
    BY <1>3 DEF Passes, TableOf, Tables, ForeignKeys
<1>4. CASE v \in {"v8_memory", "moz_memory", "v8_global", "moz_global"}
    BY <1>4 DEF Passes, TableOf, Tables, ForeignKeys
<1>5. QED
    BY <1>1, <1>2, <1>3, <1>4

\* The keys a Store call passes, when the variables it takes them from are live.
KeysPassed(v) == [p \in ForeignKeys[TableOf[v]] |-> ids[CHOOSE u \in Passes[v] : TableOf[u] = p]]

LEMMA StoreLegal ==
    ASSUME DbInv, ids["V8"] = 1, ids["SpiderMonkey"] = 2,
           NEW v \in DOMAIN Passes, \A u \in Passes[v] : Live(u)
    PROVE  KeysPassed(v) \in KeysOf(TableOf[v]) /\ Legal(KeysPassed(v))
<1> SUFFICES ASSUME NEW p \in ForeignKeys[TableOf[v]]
             PROVE  /\ KeysPassed(v)[p] \in Serials
                    /\ IF p = "implementations" THEN KeysPassed(v)[p] \in {1, 2}
                       ELSE Finds(disk \cup tx, p, KeysPassed(v)[p])
    BY DEF KeysPassed, KeysOf, Legal
<1> DEFINE u == CHOOSE w \in Passes[v] : TableOf[w] = p
<1>1. u \in Passes[v] /\ TableOf[u] = p /\ KeysPassed(v)[p] = ids[u]
    BY VariablesFit DEF KeysPassed
<1> HIDE DEF u
<1>2. CASE p = "implementations"
    BY <1>1, <1>2, VariablesFit, SerialsAssumption
<1>3. CASE p # "implementations"
    <2>1. Finds(disk \cup tx, p, ids[u])
        BY <1>1, <1>3, VariablesFit DEF Live
    <2>2. QED
        BY <1>1, <1>3, <2>1 DEF Finds, DbInv, DbTypeOK
<1>4. QED
    BY <1>2, <1>3

\* After it, its variable is live, and all those that were.
LEMMA StoreLive ==
    ASSUME ids \in [DOMAIN TableOf -> Serials \cup {0}], NEW v \in DOMAIN Passes, Store(v)
    PROVE  /\ ids' \in [DOMAIN TableOf -> Serials \cup {0}]
           /\ ids'["V8"] = ids["V8"] /\ ids'["SpiderMonkey"] = ids["SpiderMonkey"]
           /\ Live(v)' /\ \A u \in DOMAIN TableOf : Live(u) => Live(u)'
           /\ Insert(TableOf[v], KeysPassed(v))
<1> DEFINE t == TableOf[v]
<1>1. Insert(t, KeysPassed(v)) /\ ids' = [ids EXCEPT ![v] = NextId(t)]
    BY DEF Store, KeysPassed
<1>2. NextId(t) \in Serials /\ disk' = disk /\ tx' = tx \cup {Row(t, NextId(t), KeysPassed(v))}
    BY <1>1, NextIdIsSerial DEF Insert
<1>3. v \in DOMAIN TableOf /\ v \notin {"V8", "SpiderMonkey"}
    BY VariablesFit
<1>4. {"V8", "SpiderMonkey"} \subseteq DOMAIN TableOf
    BY DEF TableOf
<1>5. Finds(disk' \cup tx', t, NextId(t))
    <2> DEFINE r == Row(t, NextId(t), KeysPassed(v))
    <2>1. r \in disk' \cup tx' /\ r.table = t /\ r.id = NextId(t)
        BY <1>2 DEF Row
    <2> HIDE DEF r
    <2>2. QED
        BY <2>1 DEF Finds
<1>6. ids'[v] = NextId(t) /\ \A u \in DOMAIN TableOf \ {v} : ids'[u] = ids[u]
    BY <1>1, <1>3
<1>7. Live(v)'
    BY <1>5, <1>6 DEF Live
<1>8. ASSUME NEW u \in DOMAIN TableOf, Live(u) PROVE Live(u)'
    BY <1>2, <1>6, <1>7, <1>8, FindsMore DEF Live
<1>9. QED
    BY <1>1, <1>2, <1>3, <1>4, <1>6, <1>7, <1>8

\* A list of rows to store in which every row comes after those it refers to,
\* but for the step and the implementations.
Ordered(q) ==
    \A k \in 1..Len(q) : \A u \in Passes[q[k]] :
        u \in {"step", "V8", "SpiderMonkey"} \/ \E j \in 1..(k - 1) : q[j] = u

LEMMA DiffsTyped ==
    ASSUME NEW found
    PROVE  Diffs(found) \in Seq({"v8_memory", "moz_memory", "v8_global", "moz_global"})
<1> DEFINE S == {"v8_memory", "moz_memory", "v8_global", "moz_global"}
<1>1. ASSUME NEW v \in S PROVE OneOf(v, found) \in Seq(S)
    <2> HIDE DEF S
    <2>1. <<>> \in Seq(S) /\ <<v>> \in Seq(S)
        OBVIOUS
    <2>2. QED
        BY <2>1 DEF OneOf
<1>2. "v8_memory" \in S /\ "moz_memory" \in S /\ "v8_global" \in S /\ "moz_global" \in S
    OBVIOUS
<1> HIDE DEF S
<1>3. QED
    BY <1>1, <1>2, ConcatProperties DEF Diffs, S

LEMMA ConcatPlaces ==
    ASSUME NEW S, NEW h \in Seq(S), NEW d \in Seq(S)
    PROVE  /\ h \o d \in Seq(S) /\ Len(h \o d) = Len(h) + Len(d)
           /\ \A k \in 1..Len(h) : (h \o d)[k] = h[k]
           /\ \A k \in (Len(h) + 1)..Len(h \o d) : (h \o d)[k] = d[k - Len(h)] /\ k - Len(h) \in 1..Len(d)
<1>1. Len(h) \in Nat /\ Len(d) \in Nat
    BY LenProperties
<1>2. Len(h \o d) = Len(h) + Len(d) /\ h \o d \in Seq(S)
    BY ConcatProperties
<1>3. \A i \in 1..Len(h) + Len(d) : (h \o d)[i] = IF i <= Len(h) THEN h[i] ELSE d[i - Len(h)]
    BY ConcatProperties
<1>4. QED
    BY <1>1, <1>2, <1>3

LEMMA RowsOrdered ==
    /\ Cases \in Seq(DOMAIN Passes) /\ Ordered(Cases)
    /\ \A found : Cases \o Call \o Diffs(found) \in Seq(DOMAIN Passes) /\ Ordered(Cases \o Call \o Diffs(found))
<1>1. Cases \in Seq(DOMAIN Passes) /\ Ordered(Cases)
    BY DEF Cases, Ordered, Passes
<1>2. ASSUME NEW found PROVE Cases \o Call \o Diffs(found) \in Seq(DOMAIN Passes) /\ Ordered(Cases \o Call \o Diffs(found))
    <2> DEFINE head == Cases \o Call
               q == head \o Diffs(found)
    <2>1. /\ head \in Seq(DOMAIN Passes) /\ Len(head) = 7
          /\ head[1] = "memstep" /\ head[2] = "v8_id" /\ head[3] = "sm_id" /\ head[4] = "functioncall_id"
          /\ head[5] = "arg" /\ head[6] = "v8_case" /\ head[7] = "moz_case"
        BY DEF Cases, Call, Passes
    <2>2. /\ Diffs(found) \in Seq({"v8_memory", "moz_memory", "v8_global", "moz_global"})
          /\ Diffs(found) \in Seq(DOMAIN Passes)
        BY DiffsTyped DEF Passes
    <2> HIDE DEF head
    <2>3. /\ q \in Seq(DOMAIN Passes) /\ Len(q) = 7 + Len(Diffs(found))
          /\ \A k \in 1..7 : q[k] = head[k]
          /\ \A k \in (7 + 1)..Len(q) : q[k] = Diffs(found)[k - 7] /\ k - 7 \in 1..Len(Diffs(found))
        <3> DEFINE S == DOMAIN Passes
                   d == Diffs(found)
        <3>1. head \in Seq(S) /\ d \in Seq(S)
            BY <2>1, <2>2
        <3> HIDE DEF S, d
        <3>2. /\ head \o d \in Seq(S) /\ Len(head \o d) = Len(head) + Len(d)
              /\ \A k \in 1..Len(head) : (head \o d)[k] = head[k]
              /\ \A k \in (Len(head) + 1)..Len(head \o d) :
                    (head \o d)[k] = d[k - Len(head)] /\ k - Len(head) \in 1..Len(d)
            BY <3>1, ConcatPlaces
        <3>3. /\ head \o d \in Seq(S) /\ Len(head \o d) = 7 + Len(d)
              /\ \A k \in 1..7 : (head \o d)[k] = head[k]
              /\ \A k \in (7 + 1)..Len(head \o d) : (head \o d)[k] = d[k - 7] /\ k - 7 \in 1..Len(d)
            BY <2>1, <3>2
        <3>4. QED
            BY <3>3, Zenon DEF S, d
    <2> HIDE DEF q
    <2>4. ASSUME NEW k \in 1..Len(q), NEW u \in Passes[q[k]]
          PROVE  u \in {"step", "V8", "SpiderMonkey"} \/ \E j \in 1..(k - 1) : q[j] = u
        <3>1. CASE k > 7
            <4>1. q[k] \in {"v8_memory", "moz_memory", "v8_global", "moz_global"}
                BY <2>2, <2>3, <3>1, ElementOfSeq
            <4>2. u \in {"v8_case", "moz_case"}
                BY <4>1 DEF Passes
            <4>3. q[6] = "v8_case" /\ q[7] = "moz_case" /\ 6 \in 1..(k - 1) /\ 7 \in 1..(k - 1)
                BY <2>1, <2>3, <3>1
            <4>4. QED
                BY <4>2, <4>3
        <3>2. CASE k \in 1..7
            BY <2>1, <2>3, <3>2 DEF Passes
        <3>3. QED
            BY <2>3, <3>1, <3>2
    <2>5. QED
        BY <2>3, <2>4 DEF Ordered, q, head
<1>3. QED
    BY <1>1, <1>2

\* Where nothing is being stored, only the seed and the step matter.
LEMMA KeysBetween ==
    ASSUME Keys, todo' = <<>>, ids' \in [DOMAIN TableOf -> Serials \cup {0}],
           ids'["V8"] = 1, ids'["SpiderMonkey"] = 2,
           pc' \in {"flush", "outer", "sleep", "inner", "store", "end"} => Live("seed")',
           pc' \in {"inner", "store"} => Live("step")'
    PROVE  Keys'
<1>1. <<>> \in Seq(DOMAIN Passes) /\ 1..Len(<<>>) = {}
    OBVIOUS
<1>2. QED
    BY <1>1 DEF Keys

\* Rows that stay keep variables live.
LEMMA LiveKept ==
    ASSUME NEW u, Live(u), ids' = ids, disk \cup tx \subseteq disk' \cup tx'
    PROVE  Live(u)'
BY FindsMore DEF Live

LEMMA KeysInv ==
    ASSUME DbInv, Stage, Keys, [Next]_vars
    PROVE  Keys'
<1>1. ASSUME UNCHANGED <<covars, dbvars>> PROVE Keys'
    <2>1. pc' = pc /\ ids' = ids /\ todo' = todo /\ disk' = disk /\ tx' = tx
        BY <1>1 DEF covars, dbvars
    <2>2. \A u : Live(u)' <=> Live(u)
        BY <2>1 DEF Live, Finds
    <2>3. QED
        BY <2>1, <2>2 DEF Keys
<1>2. ASSUME ids' = ids, disk \cup tx \subseteq disk' \cup tx', todo = <<>>, todo' = <<>>,
             pc' \in {"flush", "outer", "sleep", "inner", "store", "end"} => pc \in {"flush", "outer", "sleep", "inner", "store", "end"},
             pc' \in {"inner", "store"} => pc \in {"inner", "store"}
      PROVE  Keys'
    BY <1>2, LiveKept, KeysBetween DEF Keys
<1>3. /\ NoIds \in [DOMAIN TableOf -> Serials \cup {0}] /\ NoIds["V8"] = 1 /\ NoIds["SpiderMonkey"] = 2
      /\ {"seed", "step"} \subseteq DOMAIN Passes /\ {"seed", "step"} \subseteq DOMAIN TableOf
    BY SerialsAssumption DEF NoIds, TableOf, Passes
<1>4. ASSUME Gone PROVE Keys'
    <2>1. ids' = NoIds /\ todo' = <<>> /\ pc' = "down"
        BY <1>4 DEF Gone
    <2>2. QED
        BY <1>3, <2>1, KeysBetween
<1>5. CASE StartSession
    BY <1>2, <1>5 DEF StartSession, Open, Keys
<1>6. CASE InitNewDb
    BY <1>2, <1>6 DEF InitNewDb, InsertV8, InsertSpiderMonkey, covars, Keys
<1>7. CASE Popen
    BY <1>2, <1>7 DEF Popen, dbvars, Keys
<1>8. CASE StoreSeed
    <2>1. Store("seed") /\ pc' = "flush" /\ todo' = <<>>
        BY <1>8 DEF StoreSeed, Keys
    <2>2. QED
        BY <1>3, <2>1, StoreLive, KeysBetween DEF Keys
<1>9. CASE FlushSeed
    BY <1>2, <1>9 DEF FlushSeed, Flush, Keys
<1>10. CASE SendW
    BY <1>2, <1>10 DEF SendW, dbvars, Keys
<1>11. CASE StoreStep
    <2>1. Store("step") /\ pc' = "inner" /\ todo' = <<>> /\ Live("seed")
        BY <1>11 DEF StoreStep, Keys
    <2>2. QED
        BY <1>3, <2>1, StoreLive, KeysBetween DEF Keys
<1>12. CASE RunTesters
    <2>1. Live("seed")' /\ Live("step")' /\ ids' = ids /\ pc' = "store"
        BY <1>12, LiveKept DEF RunTesters, dbvars, Keys
    <2>2. todo' \in Seq(DOMAIN Passes) /\ Ordered(todo')
        BY <1>12, RowsOrdered DEF RunTesters
    <2>3. \A u \in {"step", "V8", "SpiderMonkey"} : Live(u)'
        BY <2>1 DEF Live
    <2>4. QED
        BY <2>1, <2>2, <2>3 DEF Keys, Ordered
<1>13. CASE StoreNext
    <2>1. todo # <<>> /\ Store(Head(todo)) /\ todo' = Tail(todo) /\ pc = "store" /\ pc' = "store"
        BY <1>13 DEF StoreNext
    <2>2. PICK h \in DOMAIN Passes : h = todo[1] /\ Store(h)
        BY <2>1 DEF Keys
    <2>. todo \in Seq(DOMAIN Passes) /\ Len(todo) \in Nat \ {0}
        BY <2>1 DEF Keys
    <2>3. todo' \in Seq(DOMAIN Passes) /\ Len(todo') = Len(todo) - 1 /\ \A k \in 1..Len(todo') : todo'[k] = todo[k + 1]
        BY <2>1, HeadTailProperties
    <2>4. /\ Live(h)' /\ \A u \in DOMAIN TableOf : Live(u) => Live(u)'
          /\ ids' \in [DOMAIN TableOf -> Serials \cup {0}] /\ ids'["V8"] = 1 /\ ids'["SpiderMonkey"] = 2
        BY <2>2, StoreLive DEF Keys
    <2>5. ASSUME NEW k \in 1..Len(todo'), NEW u \in Passes[todo'[k]]
          PROVE  Live(u)' \/ \E j \in 1..(k - 1) : todo'[j] = u
        <3>1. k + 1 \in 1..Len(todo) /\ todo'[k] = todo[k + 1] /\ todo[k + 1] \in DOMAIN Passes
            BY <2>3
        <3>2. u \in DOMAIN TableOf
            BY <2>5, <3>1, VariablesFit
        <3>3. CASE Live(u)
            BY <2>4, <3>2, <3>3
        <3>4. ASSUME NEW j \in 1..k, todo[j] = u PROVE Live(u)' \/ \E i \in 1..(k - 1) : todo'[i] = u
            <4>1. CASE j = 1
                BY <2>2, <2>4, <3>4, <4>1
            <4>2. CASE j # 1
                <5>1. j - 1 \in 1..(k - 1) /\ j - 1 \in 1..Len(todo')
                    BY <2>3, <4>2
                <5>2. todo'[j - 1] = u
                    BY <2>3, <3>4, <5>1
                <5>3. QED
                    BY <5>1, <5>2
            <4>3. QED
                BY <4>1, <4>2
        <3>5. Live(u) \/ \E j \in 1..((k + 1) - 1) : todo[j] = u
            BY <3>1 DEF Keys
        <3>6. QED
            BY <2>3, <3>3, <3>4, <3>5
    <2>6. Live("seed")' /\ Live("step")'
        BY <1>3, <2>1, <2>4 DEF Keys
    <2>7. QED
        BY <2>1, <2>3, <2>4, <2>5, <2>6 DEF Keys
<1>14. CASE Refused \/ Crash
    BY <1>4, <1>14 DEF Refused, Crash
<1>15. CASE MemStepDone
    BY <1>2, <1>15 DEF MemStepDone, Flush, dbvars, Keys
<1>16. CASE NextStep
    BY <1>2, <1>16 DEF NextStep, dbvars, Keys
<1>17. CASE End
    BY <1>2, <1>17 DEF End, Flush, Keys
<1>18. CASE SendQ
    BY <1>2, <1>18 DEF SendQ, dbvars, Keys
<1>19. CASE Finish
    BY <1>3, <1>19, KeysBetween DEF Finish, Keys
<1>20. CASE StartByHand \/ Type \/ Idle \/ UNCHANGED vars
    BY <1>1, <1>20 DEF StartByHand, Type, Idle, vars
<1>21. ASSUME NEW g \in Gens, Generator(g) PROVE Keys'
    BY <1>1, <1>21 DEF Generator
<1>22. QED
    BY <1>5, <1>6, <1>7, <1>8, <1>9, <1>10, <1>11, <1>12, <1>13, <1>14, <1>15, <1>16, <1>17, <1>18,
       <1>19, <1>20, <1>21 DEF Next, Coordinator

\* What a coordinator stores is a legal call.
LEMMA StoresLegally ==
    ASSUME DbInv, Stage, Keys, StoreSeed \/ StoreStep \/ StoreNext
    PROVE  \E v \in DOMAIN Passes :
              Insert(TableOf[v], KeysPassed(v)) /\ KeysPassed(v) \in KeysOf(TableOf[v]) /\ Legal(KeysPassed(v))
<1>1. ASSUME NEW v \in DOMAIN Passes, Store(v), \A u \in Passes[v] : Live(u)
      PROVE  Insert(TableOf[v], KeysPassed(v)) /\ KeysPassed(v) \in KeysOf(TableOf[v]) /\ Legal(KeysPassed(v))
    BY <1>1, StoreLegal, StoreLive DEF Keys
<1>2. CASE StoreSeed
    <2>1. "seed" \in DOMAIN Passes /\ Passes["seed"] = {}
        BY DEF Passes
    <2>2. QED
        BY <1>1, <1>2, <2>1 DEF StoreSeed
<1>3. CASE StoreStep
    <2>1. "step" \in DOMAIN Passes /\ Passes["step"] = {"seed"} /\ Live("seed")
        BY <1>3 DEF Passes, StoreStep, Keys
    <2>2. QED
        BY <1>1, <1>3, <2>1 DEF StoreStep
<1>4. CASE StoreNext
    <2>1. todo \in Seq(DOMAIN Passes) /\ todo # <<>> /\ Store(Head(todo))
        BY <1>4 DEF StoreNext, Keys
    <2>2. Head(todo) = todo[1] /\ Head(todo) \in DOMAIN Passes /\ 1 \in 1..Len(todo) /\ 1..(1 - 1) = {}
        BY <2>1
    <2>3. \A u \in Passes[Head(todo)] : Live(u)
        BY <2>2 DEF Keys
    <2>4. QED
        BY <1>1, <2>1, <2>2, <2>3
<1>5. QED
    BY <1>2, <1>3, <1>4

\* What a campaign does to the file is what any caller may do.
LEMMA DbStep ==
    ASSUME DbInv, Stage, Keys, [Next]_vars
    PROVE  [DbNext]_dbvars
<1>1. CASE StoreSeed \/ StoreStep \/ StoreNext
    BY <1>1, StoresLegally, VariablesFit DEF DbNext
<1>2. CASE StartSession \/ InitNewDb \/ FlushSeed \/ End \/ Finish
    BY <1>2 DEF StartSession, InitNewDb, FlushSeed, End, Finish, DbNext
<1>3. CASE Refused \/ Crash
    BY <1>3 DEF Refused, Crash, Gone, DbNext
<1>4. CASE MemStepDone
    BY <1>4 DEF MemStepDone, DbNext
<1>5. CASE Popen \/ SendW \/ RunTesters \/ NextStep \/ SendQ
    BY <1>5 DEF Popen, SendW, RunTesters, NextStep, SendQ
<1>6. CASE StartByHand \/ Type \/ Idle \/ UNCHANGED vars
    BY <1>6 DEF StartByHand, Type, Idle, vars
<1>7. ASSUME NEW g \in Gens, Generator(g) PROVE UNCHANGED dbvars
    BY <1>7 DEF Generator
<1>8. QED
    BY <1>1, <1>2, <1>3, <1>4, <1>5, <1>6, <1>7 DEF Next, Coordinator
-----------------------------------------------------------------------------
\* What waits for a generator that was sent nothing but "w".
LEMMA OnlyW ==
    ASSUME NEW q \in Seq({"w"})
    PROVE  /\ q # <<>> => Head(q) = "w" /\ Tail(q) \in Seq({"w"}) /\ Len(Tail(q)) = Len(q) - 1
           /\ Len(q) \in Nat /\ (Len(q) = 0 <=> q = <<>>)
           /\ Append(q, "w") \in Seq({"w"}) /\ Len(Append(q, "w")) = Len(q) + 1
           /\ (\A k \in DOMAIN q : q[k] # "w") => q = <<>>
<1>1. q # <<>> => Head(q) = "w" /\ Tail(q) \in Seq({"w"}) /\ Len(Tail(q)) = Len(q) - 1
    BY HeadTailProperties
<1>2. Len(q) \in Nat /\ (Len(q) = 0 <=> q = <<>>)
    OBVIOUS
<1>3. Append(q, "w") \in Seq({"w"}) /\ Len(Append(q, "w")) = Len(q) + 1
    BY AppendProperties
<1>4. ASSUME q # <<>> PROVE \E k \in DOMAIN q : q[k] = "w"
    BY <1>1, <1>2, <1>4
<1>5. QED
    BY <1>1, <1>2, <1>3, <1>4

LEMMA HeadPlace == ASSUME NEW q \in Seq(Lines), q # <<>>, Head(q) = "w" PROVE \E k \in DOMAIN q : q[k] = "w"
<1>1. Len(q) \in Nat \ {0} /\ 1 \in DOMAIN q /\ q[1] = Head(q)
    OBVIOUS
<1>2. QED
    BY <1>1

\* The session's own generator: it takes a "w", or writes its module.
LEMMA OwnStep ==
    ASSUME GenInv, session \in Gens, seed \in Seeds, NEW n \in Nat, Paced(gen[session], seed, size, n),
           Works(session) \/ Fail(session)
    PROVE  /\ Paced(gen'[session], seed, size, n)
           /\ gen'[session].pc = "read" => wasm'[seed] \in {Mixed, Module(seed, gen'[session].from, size)}
           /\ gen[session].pc # "dead" /\ (gen[session].pc = "read" => gen[session].made < n)
<1> DEFINE r == gen[session]
           q == gen'[session]
<1>1. r \in GenRecord /\ gen \in [Gens -> GenRecord] /\ wasm \in [Seeds -> Files] /\ Words(r.size) \in Nat
    BY WordsNat, Zenon DEF GenInv, GenTypeOK, GenRecord, Files
<1>2. r.pc # "dead"
    BY Zenon DEF Works, Fail, Generate, Write, Memory, Quit, Ignore, Spin, Takes, Reading
<1>3. /\ ~r.closed /\ r.seed = seed /\ r.size = size /\ r.skipped = 0 /\ r.in \in Seq({"w"})
      /\ r.made + Len(r.in) + (IF r.pc = "busy" THEN 1 ELSE 0) = n /\ r.made \in Nat
    BY <1>1, <1>2 DEF Paced, GenRecord
<1>4. CASE Generate(session)
    <2>1. r.pc = "read" /\ r.in # <<>>
        BY <1>4 DEF Generate, Takes, Reading
    <2>2. q = [r EXCEPT !.pc = "busy", !.in = Rest(session), !.from = r.drawn, !.drawn = r.drawn + Words(r.size)]
        BY <1>1, <1>4 DEF Generate
    <2>3. q.pc = "busy" /\ q.in = Tail(r.in) /\ q.closed = r.closed /\ q.seed = r.seed /\ q.size = r.size
          /\ q.skipped = r.skipped /\ q.made = r.made
        BY <1>1, <2>2 DEF GenRecord, Rest
    <2> HIDE DEF r, q
    <2>4. Len(r.in) \in Nat \ {0} /\ Tail(r.in) \in Seq({"w"}) /\ Len(Tail(r.in)) = Len(r.in) - 1
        BY <1>3, <2>1, OnlyW
    <2>5. r.made + Len(r.in) = n
        BY <1>3, <2>1, <2>4
    <2>6. q.made + Len(q.in) + 1 = n /\ r.made < n
        BY <1>3, <2>3, <2>4, <2>5
    <2>7. Paced(q, seed, size, n)
        BY <1>3, <2>3, <2>4, <2>6 DEF Paced
    <2>8. q.pc # "read"
        BY <2>3
    <2>9. QED
        BY <1>2, <2>6, <2>7, <2>8 DEF q, r
<1>5. CASE Write(session)
    <2>1. PICK pages \in Pages : q = [r EXCEPT !.pc = "read", !.pages = pages, !.ptr = 0, !.made = r.made + 1, !.mems = 0]
        BY <1>1, <1>5 DEF Write
    <2>2. r.pc = "busy"
        BY <1>5 DEF Write
    <2>3. q.pc = "read" /\ q.in = r.in /\ q.closed = r.closed /\ q.seed = r.seed /\ q.size = r.size
          /\ q.skipped = r.skipped /\ q.made = r.made + 1 /\ q.from = r.from
        BY <1>1, <2>1 DEF GenRecord
    <2>4. wasm'[seed] \in {Mixed, Module(r.seed, r.from, r.size)}
        BY <1>1, <1>3, <1>5 DEF Write
    <2> HIDE DEF r, q
    <2>5. Len(r.in) \in Nat /\ r.made + Len(r.in) + 1 = n
        BY <1>3, <2>2, OnlyW
    <2>6. q.made + Len(q.in) + 0 = n
        BY <1>3, <2>3, <2>5
    <2>7. Paced(q, seed, size, n)
        BY <1>3, <2>3, <2>6 DEF Paced
    <2>8. wasm'[seed] \in {Mixed, Module(seed, q.from, size)} /\ r.pc # "read"
        BY <1>3, <2>2, <2>3, <2>4
    <2>9. QED
        BY <1>2, <2>7, <2>8 DEF q, r
<1>6. CASE Fail(session)
    <2>1. q = [Absent EXCEPT !.pc = "dead"] /\ r.pc = "busy"
        BY <1>1, <1>6 DEF Fail, Ends
    <2>2. q.pc = "dead"
        BY <2>1 DEF Absent
    <2>3. QED
        BY <1>2, <2>1, <2>2 DEF Paced
<1>7. CASE Memory(session) \/ Quit(session) \/ Ignore(session) \/ Spin(session)
    BY <1>3, <1>7, OnlyW DEF Memory, Quit, Ignore, Spin, Takes
<1>8. QED
    BY <1>4, <1>5, <1>6, <1>7 DEF Works

\* Another generator: one that owes no module writes none, and one of another
\* seed writes another file.
LEMMA OtherStep ==
    ASSUME GenInv, session \in Gens, seed \in Seeds, NEW g \in Gens \ {session}, Works(g) \/ Fail(g), UNCHANGED covars
    PROVE  /\ gen'[session] = gen[session]
           /\ (gen[g].seed = seed => ~Owes(g)) => wasm'[seed] = wasm[seed] /\ (gen'[g].seed = seed => ~Owes(g)')
           /\ \A h \in Gens \ {g} : gen'[h] = gen[h]
<1> DEFINE r == gen[g]
           q == gen'[g]
<1>1. r \in GenRecord /\ gen \in [Gens -> GenRecord] /\ wasm \in [Seeds -> Files]
    BY DEF GenInv, GenTypeOK, GenRecord, Files
<1>2. \A h \in Gens \ {g} : gen'[h] = gen[h]
    BY <1>1 DEF Works, Fail, Generate, Write, Memory, Quit, Ignore, Spin, Ends
<1>3. CASE Generate(g)
    <2>1. Owes(g)
        BY <1>1, <1>3, HeadPlace DEF Generate, Takes, GenRecord, Owes
    <2>2. wasm' = [wasm EXCEPT ![r.seed] = Empty] /\ q.seed = r.seed
        BY <1>1, <1>3 DEF Generate, GenRecord
    <2>3. QED
        BY <1>1, <1>2, <2>1, <2>2
<1>4. CASE Write(g)
    <2>1. Owes(g)
        BY <1>4 DEF Write, Owes
    <2>2. \A s \in Seeds \ {r.seed} : wasm'[s] = wasm[s]
        BY <1>1, <1>4 DEF Write
    <2>3. q.seed = r.seed
        BY <1>1, <1>4 DEF Write, GenRecord
    <2>4. QED
        BY <1>2, <2>1, <2>2, <2>3
<1>5. ASSUME NEW how \in {"spin", "dead"}, Ends(g, how), wasm' = wasm
      PROVE  wasm'[seed] = wasm[seed] /\ ~Owes(g)'
    <2>1. q = [Absent EXCEPT !.pc = how]
        BY <1>1, <1>5 DEF Ends
    <2>2. q.pc = how /\ q.in = <<>>
        BY <2>1 DEF Absent
    <2>3. QED
        BY <1>5, <2>2 DEF Owes
<1>6. CASE Fail(g) \/ Quit(g) \/ Spin(g)
    BY <1>2, <1>5, <1>6 DEF Fail, Quit, Spin
<1>7. ASSUME q.seed = r.seed, q.pc = r.pc, q.in = Tail(r.in), r.in # <<>>, r.pc = "read", ~Owes(g)
      PROVE  ~Owes(g)'
    <2>1. r.in \in Seq(Lines)
        BY <1>1 DEF GenRecord
    <2>2. \A k \in 1..Len(Tail(r.in)) : Tail(r.in)[k] = r.in[k + 1] /\ k + 1 \in DOMAIN r.in
        BY <1>7, <2>1
    <2>3. DOMAIN Tail(r.in) = 1..Len(Tail(r.in))
        BY <1>7, <2>1
    <2>4. \A k \in DOMAIN q.in : q.in[k] # "w"
        BY <1>7, <2>2, <2>3 DEF Owes
    <2>5. QED
        BY <1>7, <2>4 DEF Owes
<1>8. CASE Ignore(g)
    <2>1. q = [r EXCEPT !.in = Tail(r.in)] /\ wasm' = wasm
        BY <1>1, <1>8 DEF Ignore, Rest
    <2>2. q.seed = r.seed /\ q.pc = r.pc /\ q.in = Tail(r.in) /\ r.in # <<>> /\ r.pc = "read"
        BY <1>1, <1>8, <2>1 DEF GenRecord, Ignore, Takes, Reading
    <2>3. QED
        BY <1>2, <1>7, <2>1, <2>2
<1>9. CASE Memory(g)
    <2>1. CASE Words(r.size) = 0
        BY <1>2, <1>5, <1>9, <2>1 DEF Memory
    <2>2. CASE Words(r.size) # 0
        <3>1. q.seed = r.seed /\ q.pc = r.pc /\ q.in = Tail(r.in) /\ r.in # <<>> /\ r.pc = "read"
            <4>1. PICK pages : gen' = [gen EXCEPT ![g].in = Rest(g),
                       ![g].memory = [seed |-> gen[g].seed, at |-> SeedAt(gen[g].from, gen[g].ptr, gen[g].size), pages |-> pages],
                       ![g].ptr = IF @ = Uninit THEN @ ELSE @ + 1, ![g].mems = @ + 1]
                BY <1>9, <2>2 DEF Memory
            <4>2. q = [r EXCEPT !.in = Tail(r.in),
                       !.memory = [seed |-> r.seed, at |-> SeedAt(r.from, r.ptr, r.size), pages |-> pages],
                       !.ptr = IF r.ptr = Uninit THEN r.ptr ELSE r.ptr + 1, !.mems = r.mems + 1]
                BY <1>1, <4>1 DEF Rest
            <4>3. r.in # <<>> /\ r.pc = "read"
                BY <1>9 DEF Memory, Takes, Reading
            <4>4. QED
                BY <1>1, <4>2, <4>3 DEF GenRecord
        <3>2. wasm' = wasm
            BY <1>9 DEF Memory
        <3>3. QED
            BY <1>2, <1>7, <3>1, <3>2
    <2>3. QED
        BY <2>1, <2>2
<1>10. QED
    BY <1>3, <1>4, <1>6, <1>8, <1>9 DEF Works

\* The generators keep the pace of the coordinator.
LEMMA PaceOfGenerators ==
    ASSUME GenInv, Stage, Pace, NEW g \in Gens, Generator(g)
    PROVE  Pace'
<1>1. UNCHANGED covars /\ (Works(g) \/ Fail(g))
    BY DEF Generator
<1>2. pc' = pc /\ session' = session /\ seed' = seed /\ size' = size /\ step' = step /\ ran' = ran /\ late' = late /\ rival' = rival
    BY <1>1 DEF covars
<1>3. CASE pc \notin {"seed", "flush", "outer"} \cup InStep
    BY <1>2, <1>3 DEF Pace, InStep
<1>4. CASE pc \in {"seed", "flush", "outer"} \cup InStep
    <2>1. session \in Gens /\ seed \in Seeds /\ Sent \in Nat /\ Sent' = Sent /\ step \in Nat
        BY <1>2, <1>4, ProcessesAssumption, SessionsAssumption DEF Stage, Sent, InStep
    <2>2. pc \in InStep => Sent = step + 1
        BY DEF Sent
    <2>3. Paced(gen[session], seed, size, Sent)
        BY <1>4 DEF Pace
    <2>4. CASE g = session
        <3>1. /\ Paced(gen'[session], seed, size, Sent)
              /\ gen'[session].pc = "read" => wasm'[seed] \in {Mixed, Module(seed, gen'[session].from, size)}
              /\ gen[session].pc # "dead" /\ (gen[session].pc = "read" => gen[session].made < Sent)
            BY <1>1, <2>1, <2>3, <2>4, OwnStep
        <3>2. pc \in {"inner", "store"} => late
            <4>1. SUFFICES ASSUME pc \in {"inner", "store"}, ~late PROVE FALSE
                BY DEF Stage
            <4>2. gen[session].pc = "read" /\ gen[session].made = step + 1
                BY <4>1 DEF Pace
            <4>3. QED
                BY <2>1, <2>2, <3>1, <4>1, <4>2 DEF InStep
        <3>3. \A h \in Gens \ {session} : gen'[h] = gen[h]
            BY <1>1, <2>4 DEF Works, Fail, Generate, Write, Memory, Quit, Ignore, Spin, Ends, GenInv, GenTypeOK
        <3>4. pc \in InStep /\ ~rival => \A h \in Gens \ {session} : gen'[h].seed = seed => ~Owes(h)'
            BY <3>3 DEF Pace, Owes
        <3>5. QED
            BY <1>2, <2>1, <3>1, <3>2, <3>4 DEF Pace, Mine
    <2>5. CASE g # session
        <3>1. /\ gen'[session] = gen[session]
              /\ (gen[g].seed = seed => ~Owes(g)) => wasm'[seed] = wasm[seed] /\ (gen'[g].seed = seed => ~Owes(g)')
              /\ \A h \in Gens \ {g} : gen'[h] = gen[h]
            BY <1>1, <2>1, <2>5, OtherStep
        <3>2. pc \in InStep /\ ~rival => wasm'[seed] = wasm[seed] /\ \A h \in Gens \ {session} : gen'[h].seed = seed => ~Owes(h)'
            BY <2>5, <3>1 DEF Pace, Owes
        <3>3. Mine' = Mine
            BY <1>2, <3>1 DEF Mine
        <3>4. QED
            BY <1>2, <2>1, <2>3, <3>1, <3>2, <3>3 DEF Pace
    <2>6. QED
        BY <2>4, <2>5
<1>5. QED
    BY <1>3, <1>4

\* Steps that leave the generators alone.
LEMMA PaceKept ==
    ASSUME Stage, Pace, UNCHANGED <<genvars, session, seed, size>>, rival' = rival \/ pc' \notin InStep,
           Sent' = Sent, step' = step \/ pc' \notin InStep,
           pc' \in {"seed", "flush", "outer"} \cup InStep => pc \in {"seed", "flush", "outer"} \cup InStep,
           pc' \in InStep => pc \in InStep,
           pc' \in {"inner", "store"} /\ ~late' => gen[session].pc = "read" /\ gen[session].made = step + 1,
           pc' = "store" /\ ~late' /\ ~rival' => ran' \in {Empty, Mixed, Mine}
    PROVE  Pace'
<1>1. gen' = gen /\ wasm' = wasm /\ session' = session /\ seed' = seed /\ size' = size /\ Mine' = Mine
    BY DEF genvars, Mine
<1>2. \A g \in Gens : Owes(g)' <=> Owes(g)
    BY <1>1 DEF Owes
<1>3. {"inner", "store"} \subseteq InStep
    BY DEF InStep
<1>4. QED
    BY <1>1, <1>2, <1>3 DEF Pace

LEMMA PaceInv ==
    ASSUME GenInv, Stage, Pace, [Next]_vars
    PROVE  Pace'
<1> USE DEF InStep
<1>1. ASSUME UNCHANGED <<covars, genvars>> PROVE Pace'
    BY <1>1 DEF covars, genvars, Pace, Sent, Mine, Owes
<1>2. ASSUME pc' \notin {"seed", "flush", "outer"} \cup InStep PROVE Pace'
    BY <1>2 DEF Pace
<1>3. CASE StartSession \/ Refused \/ Crash \/ End \/ SendQ \/ Finish
    BY <1>2, <1>3 DEF StartSession, Refused, Crash, Gone, End, SendQ, Finish
<1>4. CASE InitNewDb
    BY <1>1, <1>4 DEF InitNewDb
<1>5. CASE Popen
    <2>1. pc' = "seed" /\ Start(session, seed, size, 0) /\ session' = session /\ seed' = seed /\ size' = size /\ step' = step
        BY <1>5 DEF Popen
    <2>2. step = 0 /\ session \in Gens /\ gen \in [Gens -> GenRecord]
        BY <1>5, ProcessesAssumption DEF Popen, Stage, GenInv, GenTypeOK, GenRecord
    <2>3. gen'[session] = [Absent EXCEPT !.pc = "read", !.seed = seed, !.size = size,
                                         !.drawn = Skipped(0, size), !.skipped = 0]
        BY <2>1, <2>2 DEF Start
    <2>4. /\ gen'[session].pc = "read" /\ gen'[session].seed = seed /\ gen'[session].size = size
          /\ gen'[session].skipped = 0 /\ gen'[session].in = <<>> /\ gen'[session].made = 0 /\ gen'[session].closed = FALSE
        BY <2>3 DEF Absent
    <2>5. <<>> \in Seq({"w"}) /\ Len(<<>>) = 0
        OBVIOUS
    <2>6. Paced(gen'[session], seed, size, 0)
        BY <2>4, <2>5 DEF Paced
    <2>7. QED
        BY <2>1, <2>2, <2>6 DEF Pace, Sent
<1>6. CASE StoreSeed \/ FlushSeed
    BY <1>6, PaceKept DEF StoreSeed, FlushSeed, genvars, Sent
<1>7. CASE SendW
    <2>1. /\ pc = "outer" /\ pc' = "sleep" /\ Send(session, "w") /\ wasm' = wasm
          /\ rival' = (\E g \in Gens \ {session} : gen[g].seed = seed /\ Owes(g))
          /\ session' = session /\ seed' = seed /\ size' = size /\ step' = step
        BY <1>7 DEF SendW
    <2>2. session \in Gens /\ gen \in [Gens -> GenRecord] /\ step \in Nat
        BY <2>1, ProcessesAssumption, SessionsAssumption DEF Stage, GenInv, GenTypeOK, GenRecord
    <2>3. Paced(gen[session], seed, size, step) /\ gen[session].pc \in {"read", "busy"}
        BY <2>1 DEF Pace, Sent, Send
    <2>4. /\ gen'[session] = [gen[session] EXCEPT !.in = Append(gen[session].in, "w")]
          /\ \A g \in Gens \ {session} : gen'[g] = gen[g]
        BY <2>1, <2>2 DEF Send
    <2> DEFINE r == gen[session]
               q == gen'[session]
    <2>5. /\ q.in = Append(r.in, "w") /\ q.pc = r.pc /\ q.closed = r.closed /\ q.seed = r.seed /\ q.size = r.size
          /\ q.skipped = r.skipped /\ q.made = r.made /\ r.made \in Nat
        BY <2>2, <2>4 DEF GenRecord
    <2> HIDE DEF r, q
    <2>6. /\ ~r.closed /\ r.seed = seed /\ r.size = size /\ r.skipped = 0 /\ r.in \in Seq({"w"})
          /\ r.made + Len(r.in) + (IF r.pc = "busy" THEN 1 ELSE 0) = step
        BY <2>3 DEF Paced, r
    <2>7. Append(r.in, "w") \in Seq({"w"}) /\ Len(Append(r.in, "w")) = Len(r.in) + 1 /\ Len(r.in) \in Nat
        BY <2>6, OnlyW
    <2>8. q.made + Len(q.in) + (IF q.pc = "busy" THEN 1 ELSE 0) = step + 1 /\ q.made # step + 1
        <3>1. Len(q.in) = Len(r.in) + 1 /\ q.made = r.made /\ r.made \in Nat
            BY <2>5, <2>7
        <3> DEFINE waiting == Len(r.in)
                   done == r.made
        <3>2. waiting \in Nat /\ done \in Nat /\ q.pc = r.pc /\ Len(q.in) = waiting + 1 /\ q.made = done
            BY <2>5, <2>7, <3>1
        <3>busy. r.pc = "busy" => done + waiting + 1 = step
            BY <2>6
        <3>idle. r.pc # "busy" => done + waiting + 0 = step
            BY <2>6
        <3> HIDE DEF waiting, done
        <3>3. CASE r.pc = "busy"
            <4>1. done + waiting + 1 = step /\ q.pc = "busy"
                BY <3>2, <3>busy, <3>3
            <4>2. done + (waiting + 1) + 1 = step + 1 /\ done # step + 1
                BY <3>2, <4>1, <2>2
            <4>3. QED
                BY <3>2, <4>1, <4>2
        <3>4a. CASE r.pc # "busy"
            <4>1. done + waiting + 0 = step /\ q.pc # "busy"
                BY <3>2, <3>idle, <3>4a
            <4>2. done + (waiting + 1) + 0 = step + 1 /\ done # step + 1
                BY <3>2, <4>1, <2>2
            <4>3. QED
                BY <3>2, <4>1, <4>2
        <3>4. QED
            BY <3>3, <3>4a
    <2>9. Paced(q, seed, size, step + 1)
        BY <2>3, <2>5, <2>6, <2>7, <2>8 DEF Paced, r
    <2>10. \A g \in Gens \ {session} : Owes(g)' <=> Owes(g)
        BY <2>4 DEF Owes
    <2>11. ~rival' => \A g \in Gens \ {session} : gen'[g].seed = seed => ~Owes(g)'
        BY <2>1, <2>4, <2>10
    <2>12. QED
        BY <2>1, <2>8, <2>9, <2>11 DEF Pace, Sent, q
<1>8. CASE StoreStep
    <2>1. /\ pc = "sleep" /\ pc' = "inner" /\ late' = (Owes(session) \/ gen[session].pc = "dead")
          /\ UNCHANGED <<genvars, session, seed, size, step, rival>>
        BY <1>8 DEF StoreStep, genvars
    <2>2. ASSUME ~late' PROVE gen[session].pc = "read" /\ gen[session].made = step + 1
        <3> DEFINE r == gen[session]
        <3>1. Paced(r, seed, size, step + 1) /\ r.pc \notin {"busy", "dead"} /\ \A k \in DOMAIN r.in : r.in[k] # "w"
            BY <2>1, <2>2 DEF Pace, Sent, Owes
        <3>2. r \in GenRecord /\ step \in Nat
            BY <2>1, ProcessesAssumption, SessionsAssumption DEF Stage, GenInv, GenTypeOK, GenRecord
        <3>3. r.made \in Nat
            BY <3>2 DEF GenRecord
        <3> HIDE DEF r
        <3>4. r.pc = "read" /\ r.in \in Seq({"w"}) /\ r.made + Len(r.in) + 0 = step + 1
            BY <3>1 DEF Paced
        <3>5. Len(r.in) = 0
            BY <3>1, <3>4, OnlyW
        <3>6. QED
            BY <3>2, <3>3, <3>4, <3>5 DEF r
    <2>3. QED
        BY <2>1, <2>2, PaceKept DEF Sent
<1>9. CASE RunTesters
    <2>1. /\ pc = "inner" /\ pc' = "store" /\ ran' = wasm[seed]
          /\ UNCHANGED <<genvars, session, seed, size, step, rival, late>>
        BY <1>9 DEF RunTesters, genvars
    <2>2. ~late /\ ~rival => wasm[seed] \in {Mixed, Mine}
        BY <2>1 DEF Pace
    <2>3. late \in BOOLEAN /\ rival \in BOOLEAN
        BY DEF Stage
    <2>4. ~late => gen[session].pc = "read" /\ gen[session].made = step + 1
        BY <2>1 DEF Pace
    <2>5. QED
        BY <2>1, <2>2, <2>3, <2>4, PaceKept DEF Sent
<1>10. CASE StoreNext
    <2>1. /\ pc = "store" /\ pc' = "store" /\ UNCHANGED <<genvars, session, seed, size, step, rival, late, ran>>
        BY <1>10 DEF StoreNext, genvars
    <2>2. QED
        BY <2>1, PaceKept DEF Sent, Pace
<1>11. CASE MemStepDone
    <2>1. /\ pc = "store" /\ pc' \in {"end", "inner"} /\ UNCHANGED <<genvars, session, seed, size, step, rival, late, ran>>
        BY <1>11 DEF MemStepDone, genvars
    <2>2. QED
        BY <1>2, <2>1, PaceKept DEF Sent, Pace
<1>12. CASE NextStep
    <2>1. /\ pc = "inner" /\ pc' = "outer" /\ step' = step + 1 /\ UNCHANGED <<genvars, session, seed, size>>
        BY <1>12 DEF NextStep, genvars
    <2>2. QED
        BY <2>1, PaceKept DEF Sent
<1>13. CASE StartByHand \/ Type
    <2>1. session = 0 /\ UNCHANGED covars
        BY <1>13 DEF StartByHand, Type
    <2>2. pc = "down"
        BY <2>1 DEF Stage
    <2>3. QED
        BY <1>2, <2>1, <2>2 DEF covars
<1>14. CASE Idle \/ UNCHANGED vars
    BY <1>1, <1>14 DEF Idle, vars
<1>15. QED
    BY <1>3, <1>4, <1>5, <1>6, <1>7, <1>8, <1>9, <1>10, <1>11, <1>12, <1>13, <1>14, PaceOfGenerators DEF Next, Coordinator

\* A row is refused for the want of an implementation.
LEMMA RefusedInv ==
    ASSUME DbInv, Stage, Keys, RefusedOnlyAfterCut, [Next]_vars
    PROVE  RefusedOnlyAfterCut'
<1>1. ASSUME refused' = refused, cut => cut' PROVE RefusedOnlyAfterCut'
    BY <1>1 DEF RefusedOnlyAfterCut
<1>2. CASE Refused
    <2>1. todo # <<>> /\ Refuses(Head(todo)) /\ todo \in Seq(DOMAIN Passes) /\ pc = "store"
        BY <1>2 DEF Refused, Keys
    <2>a. Head(todo) = todo[1] /\ todo[1] \in DOMAIN Passes
        BY <2>1
    <2>b. ASSUME NEW v, Refuses(v) PROVE ~Accepts(KeysPassed(v))
        BY <2>b DEF Refuses, KeysPassed
    <2>c. Refuses(todo[1])
        BY <2>1, <2>a
    <2>d. ~Accepts(KeysPassed(todo[1]))
        BY <2>b, <2>c
    <2>2. PICK v \in DOMAIN Passes : v = todo[1] /\ ~Accepts(KeysPassed(v))
        BY <2>a, <2>d
    <2>3. 1 \in 1..Len(todo) /\ 1..(1 - 1) = {}
        BY <2>1
    <2>4. \A u \in Passes[v] : Live(u)
        BY <2>2, <2>3 DEF Keys
    <2>5. Legal(KeysPassed(v))
        BY <2>4, StoreLegal DEF Keys
    <2>6. PICK t \in DOMAIN KeysPassed(v) : ~Finds(disk \cup tx, t, KeysPassed(v)[t])
        BY <2>2 DEF Accepts
    <2>7. t = "implementations" /\ KeysPassed(v)[t] \in {1, 2}
        BY <2>5, <2>6 DEF Legal
    <2>8. ASSUME ~cut PROVE FALSE
        <3>1. V8Row \in disk /\ SpiderMonkeyRow \in disk
            BY <2>1, <2>8 DEF Stage, DbInv, DbTypeOK, Listed
        <3>2. QED
            BY <2>6, <2>7, <3>1, Implementations DEF Finds
    <2>9. cut'
        BY <1>2, <2>8 DEF Refused, Gone, DieOpen
    <2>10. QED
        BY <2>9 DEF RefusedOnlyAfterCut
<1>3. CASE Crash
    BY <1>1, <1>3 DEF Crash, Gone, DieOpen
<1>4. CASE StartSession \/ InitNewDb \/ FlushSeed \/ End \/ Finish
    BY <1>1, <1>4 DEF StartSession, Open, InitNewDb, InsertV8, InsertSpiderMonkey, covars, FlushSeed, Flush, End, Finish, Close
<1>5. CASE StoreSeed \/ StoreStep \/ StoreNext
    BY <1>1, <1>5 DEF StoreSeed, StoreStep, StoreNext, Store, Insert
<1>6. CASE Popen \/ SendW \/ RunTesters \/ NextStep \/ SendQ
    BY <1>1, <1>6 DEF Popen, SendW, RunTesters, NextStep, SendQ, dbvars
<1>7. CASE MemStepDone
    BY <1>1, <1>7 DEF MemStepDone, Flush, dbvars
<1>8. CASE StartByHand \/ Type \/ Idle \/ UNCHANGED vars
    BY <1>1, <1>8 DEF StartByHand, Type, Idle, vars, covars, dbvars
<1>9. ASSUME NEW g \in Gens, Generator(g) PROVE RefusedOnlyAfterCut'
    BY <1>1, <1>9 DEF Generator, covars, dbvars
<1>10. QED
    BY <1>2, <1>3, <1>4, <1>5, <1>6, <1>7, <1>8, <1>9 DEF Next, Coordinator
-----------------------------------------------------------------------------
\* Nothing has happened.
LEMMA CampaignInit == Init => CampaignInv
<1> SUFFICES ASSUME Init PROVE CampaignInv
    OBVIOUS
<1>1. DbInv /\ GenInv
    BY DbInitInv, GenInitInv DEF Init
<1>2. Stage
    <2>1. 0 \in 0..MaxSessions /\ 0 \in 0..Steps /\ 0 \in 0..MemSteps /\ Empty \in Files
        BY SessionsAssumption DEF Files
    <2>2. QED
        BY <2>1 DEF Init, DbInit, Stage
<1>3. Keys
    <2>1. /\ NoIds \in [DOMAIN TableOf -> Serials \cup {0}] /\ NoIds["V8"] = 1 /\ NoIds["SpiderMonkey"] = 2
          /\ <<>> \in Seq(DOMAIN Passes) /\ 1..Len(<<>>) = {}
        BY SerialsAssumption DEF NoIds, TableOf
    <2>2. QED
        BY <2>1 DEF Init, Keys
<1>4. Pace
    BY DEF Init, Pace, InStep
<1>5. QED
    BY <1>1, <1>2, <1>3, <1>4 DEF CampaignInv, RefusedOnlyAfterCut, Init

\* The invariant is inductive.
LEMMA CampaignNext == CampaignInv /\ [Next]_vars => CampaignInv'
<1> SUFFICES ASSUME CampaignInv, [Next]_vars PROVE CampaignInv'
    OBVIOUS
<1>1. DbInv /\ GenInv /\ Stage /\ Keys /\ Pace /\ RefusedOnlyAfterCut
    BY DEF CampaignInv
<1>2. DbInv' /\ GenInv'
    BY <1>1, DbStep, GenStep, DbNextInv, GenNextInv
<1>3. Stage' /\ Keys' /\ Pace' /\ RefusedOnlyAfterCut'
    BY <1>1, StageInv, KeysInv, PaceInv, RefusedInv
<1>4. QED
    BY <1>2, <1>3 DEF CampaignInv

LEMMA CampaignHolds == Spec => []CampaignInv
BY CampaignInit, CampaignNext, PTL DEF Spec

\* Coordinators, one after the other, with a crash anywhere: what they and
\* their generators do is typed.
THEOREM CampaignTypeCorrect == Spec => []TypeOK
<1>1. CampaignInv => TypeOK
    BY DEF CampaignInv, DbInv, GenInv, Stage, Keys, TypeOK, Files
<1>2. QED
    BY <1>1, CampaignHolds, PTL

\* FuzzingLoop and CompareLogs only pass serials of rows that are there, in
\* any session and after any crash.
THEOREM CallsAreLegal == Spec => LegalCalls
<1>1. CampaignInv /\ [Next]_vars => [\A r \in tx' \ tx : Legal(r.keys)]_vars
    <2> SUFFICES ASSUME CampaignInv, [Next]_vars PROVE [\A r \in tx' \ tx : Legal(r.keys)]_vars
        OBVIOUS
    <2>1. DbInv /\ Stage /\ Keys
        BY DEF CampaignInv
    <2>2. CASE StoreSeed \/ StoreStep \/ StoreNext
        BY <2>1, <2>2, StoresLegally DEF Insert, Row
    <2>3. ASSUME tx' \subseteq tx PROVE [\A r \in tx' \ tx : Legal(r.keys)]_vars
        BY <2>3
    <2>4. CASE StartSession \/ InitNewDb \/ FlushSeed \/ End \/ Finish \/ Refused \/ Crash \/ MemStepDone
        BY <2>3, <2>4 DEF StartSession, Open, InitNewDb, InsertV8, InsertSpiderMonkey, FlushSeed, Flush, End, Finish, Close,
           Refused, Crash, Gone, DieOpen, MemStepDone, dbvars
    <2>5. CASE Popen \/ SendW \/ RunTesters \/ NextStep \/ SendQ
        BY <2>3, <2>5 DEF Popen, SendW, RunTesters, NextStep, SendQ, dbvars
    <2>6. CASE StartByHand \/ Type \/ Idle \/ UNCHANGED vars
        BY <2>3, <2>6 DEF StartByHand, Type, Idle, vars, dbvars
    <2>7. ASSUME NEW g \in Gens, Generator(g) PROVE tx' \subseteq tx
        BY <2>7 DEF Generator, dbvars
    <2>8. QED
        BY <2>2, <2>3, <2>4, <2>5, <2>6, <2>7 DEF Next, Coordinator
<1>2. QED
    BY <1>1, CampaignHolds, PTL DEF Spec, LegalCalls

\* A campaign is one of the callers of Entities that DbSpec speaks of ...
THEOREM CampaignUsesDb == Spec => DbSpec
<1>1. CampaignInv /\ [Next]_vars => [DbNext]_dbvars
    BY DbStep DEF CampaignInv
<1>2. Init => DbInit
    BY DEF Init
<1>3. QED
    BY <1>1, <1>2, CampaignHolds, PTL DEF Spec, DbSpec

\* ... and drives its generators as GenSpec allows.
THEOREM CampaignUsesGen == Spec => GenSpec
<1>1. CampaignInv /\ [Next]_vars => [GenNext]_genvars
    BY GenStep DEF CampaignInv
<1>2. Init => GenInit
    BY DEF Init
<1>3. QED
    BY <1>1, <1>2, CampaignHolds, PTL DEF Spec, GenSpec

\* However many sessions crash, wherever: foreign keys hold on disk, and every
\* module and memory can be found again from its place.
THEOREM CampaignKeysHold == Spec => []KeysHold
BY CampaignUsesDb, KeysAlwaysHold, PTL

THEOREM CampaignModulesRepeat == Spec => []ModuleRepeats
BY CampaignUsesGen, ModulesRepeat, PTL

THEOREM CampaignMemoriesRepeat == Spec => []MemoryRepeats
BY CampaignUsesGen, MemoriesRepeat, PTL

\* In a campaign too, a "q" that a generator was sent comes nearer with each of
\* its steps, whoever else types or ends its input: the way to QuitObeyed.
THEOREM CampaignQuitsNearer ==
    Spec => [][\A g \in Gens : \A k \in Nat : QuitAt(g, k) => Nearer(g, k)]_genvars
BY CampaignUsesGen, QuitComesNearer, PTL

\* No foreign key of its own ends a session whose database was made whole.
THEOREM RefusalsExplained == Spec => []RefusedOnlyAfterCut
<1>1. CampaignInv => RefusedOnlyAfterCut
    BY DEF CampaignInv
<1>2. QED
    BY <1>1, CampaignHolds, PTL

\* FuzzingLoop: the testers of a step ran the module that -repro writes for the
\* row of the step, in any session, restarted with its seed or not, as long as
\* its generator was not late and no other was still to write.
THEOREM StepsReproducible == Spec => []Reproducible
<1>1. ASSUME CampaignInv PROVE Reproducible
    <2> SUFFICES ASSUME pc = "store", ran \notin {Empty, Mixed}, ~late, ~rival, Exact(step, size)
                 PROVE  ran = ReproModule(seed, size, step)
        BY DEF Reproducible
    <2>1. /\ session \in Gens /\ step \in Nat /\ size \in Nat
          /\ gen[session].pc = "read" /\ gen[session].made = step + 1 /\ ran = Mine
          /\ Paced(gen[session], seed, size, step + 1)
        BY <1>1, ProcessesAssumption, SessionsAssumption, ValuesAssumption DEF CampaignInv, Stage, Pace, Sent, InStep
    <2>2. Exact(0, size) /\ Words(size) \in Nat
        BY <2>1, WidthsAssumption, WordsNat, SMT DEF Exact
    <2>3. Skipped(0, size) = 0 * Words(size) /\ Skipped(step, size) = step * Words(size)
        BY <2>1, <2>2, SkipExact
    <2>4. Stream(gen[session])
        BY <1>1, <2>1, One DEF CampaignInv
    <2>5. gen[session].size = size /\ gen[session].skipped = 0
        BY <2>1 DEF Paced
    <2>6. gen[session].from = Skipped(0, size) + (step + 1 - 1) * Words(size)
        BY <2>1, <2>4, <2>5 DEF Stream
    <2>7. gen[session].from = Skipped(step, size)
        <3>1. 0 * Words(size) = 0 /\ step + 1 - 1 = step /\ step * Words(size) \in Nat
            BY <2>1, <2>2, SMT
        <3>2. QED
            BY <2>3, <2>6, <3>1
    <2>8. QED
        BY <2>1, <2>7 DEF Mine, ReproModule
<1>2. QED
    BY <1>1, CampaignHolds, PTL
=============================================================================
