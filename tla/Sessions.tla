------------------------------- MODULE Sessions -------------------------------
(***************************************************************************)
(* A campaign: coordinators started one after the other over one output    *)
(* folder, each with a generator process of its own.  FuzzerDb is the file *)
(* of results they share; RandomGen are the generators, of which one may   *)
(* outlive its coordinator, which never waits for it, and share the module *)
(* file of a session that is restarted with the same -seed.                *)
(*                                                                         *)
(* FuzzingLoop has the inside of a session.  Here a session is its calls   *)
(* of Entities, row by row, and its lines to the generator; the testers of *)
(* a memory step read the module file in one step, and a log is the rows   *)
(* CompareLogs makes of it.  A person may use a generator by hand instead. *)
(***************************************************************************)
EXTENDS FuzzerDb, RandomGen

CONSTANTS
    MaxSessions,    \* bound: coordinators started
    Hand,           \* the generator used by hand
    Steps,          \* modules of a session: 5000 in the code
    MemSteps,       \* memory steps of a module: 5 in the code
    FlushEvery,     \* 100 in the code
    Found,          \* bound: what CompareLogs finds in two logs
    Blocks,         \* bound: values of the coordinator's -block-size
    Skips,          \* bound: values of -skip-count
    MaxTyped        \* bound: lines typed

ASSUME SessionsAssumption == MaxSessions \in Nat /\ Steps \in Nat /\ MemSteps \in Nat /\ Skips \subseteq Nat
\* 100 memory steps are more than the 5 of a module: the counter starts again
\* before the flush of FuzzingLoop is due.
ASSUME FlushAssumption == FlushEvery \in Nat /\ FlushEvery > MemSteps
ASSUME ProcessesAssumption == 1..MaxSessions \subseteq Gens /\ Hand \in Gens /\ Blocks \subseteq Sizes

VARIABLES
    pc, session,    \* how far the coordinator is, and the sessions started
    seed, size,     \* this_seed and -block-size
    ids,            \* the serials its variables hold
    step, mem,      \* the counters of its loops
    todo,           \* the rows it has still to store for this memory step
    ran,            \* the module file as the testers read it
    late,           \* the generator had not caught up when the sleep ended
    rival,          \* another generator was still to write the same file
    refused         \* history: a row was refused

covars == <<pc, session, seed, size, ids, step, mem, todo, ran, late, rival, refused>>
vars == <<covars, dbvars, genvars>>

\* What each variable of the coordinator is a serial of, and the variables
\* that its Store call passes as foreign keys.
TableOf == [
    V8 |-> "implementations", SpiderMonkey |-> "implementations",
    seed |-> "seed_suites", step |-> "steppings", memstep |-> "memory_steppings",
    v8_id |-> "testcases", sm_id |-> "testcases",
    functioncall_id |-> "function_calls", arg |-> "function_args",
    v8_case |-> "testcase_calls", moz_case |-> "testcase_calls",
    v8_memory |-> "memory_diffs", moz_memory |-> "memory_diffs",
    v8_global |-> "global_diffs", moz_global |-> "global_diffs"]

Passes == [
    seed |-> {}, step |-> {"seed"}, memstep |-> {"step"},
    v8_id |-> {"memstep", "V8"}, sm_id |-> {"memstep", "SpiderMonkey"},
    functioncall_id |-> {"memstep"}, arg |-> {"functioncall_id"},
    v8_case |-> {"v8_id", "functioncall_id"}, moz_case |-> {"sm_id", "functioncall_id"},
    v8_memory |-> {"v8_case"}, moz_memory |-> {"moz_case"},
    v8_global |-> {"moz_case"}, moz_global |-> {"moz_case"}]

NoIds == [v \in DOMAIN TableOf |-> IF v = "V8" THEN 1 ELSE IF v = "SpiderMonkey" THEN 2 ELSE 0]

\* The rows of one memory step, in the order of FuzzingLoop and CompareLogs.
Cases == <<"memstep", "v8_id", "sm_id">>
Call == <<"functioncall_id", "arg", "v8_case", "moz_case">>
OneOf(v, found) == IF v \in found THEN <<v>> ELSE <<>>
Diffs(found) ==
    OneOf("v8_memory", found) \o OneOf("moz_memory", found) \o OneOf("v8_global", found) \o OneOf("moz_global", found)

Init ==
    /\ DbInit /\ GenInit
    /\ pc = "down" /\ session = 0 /\ seed = "none" /\ size = 0
    /\ ids = NoIds /\ step = 0 /\ mem = 0 /\ todo = <<>>
    /\ ran = Empty /\ late = FALSE /\ rival = FALSE /\ refused = FALSE
-----------------------------------------------------------------------------
\* Mutant: the first row of a table is taken for the one just stored.
StoreUnderFirst(v) ==
    LET t == TableOf[v]
        keys == [p \in ForeignKeys[t] |-> IF p = "implementations" THEN 1
                                           ELSE CHOOSE id \in Serials : Finds(disk \cup tx, p, id)]
    IN Insert(t, keys) /\ ids' = [ids EXCEPT ![v] = NextId(t)]

\* Mutant: the serial of the step is dropped.
StoreForgetting(v) ==
    LET t == TableOf[v]
        keys == [p \in ForeignKeys[t] |-> ids[CHOOSE u \in Passes[v] : TableOf[u] = p]]
    IN Insert(t, keys) /\ ids' = IF v = "step" THEN ids ELSE [ids EXCEPT ![v] = NextId(t)]

\* One call of a Store function, and its serial in the variable v.
Store(v) ==
    LET t == TableOf[v]
        keys == [p \in ForeignKeys[t] |-> ids[CHOOSE u \in Passes[v] : TableOf[u] = p]]
    IN Insert(t, keys) /\ ids' = [ids EXCEPT ![v] = NextId(t)]

Refuses(v) ==
    LET t == TableOf[v]
    IN ~Accepts([p \in ForeignKeys[t] |-> ids[CHOOSE u \in Passes[v] : TableOf[u] = p]])

\* The coordinator's end of the pipe is closed; the generator, if it is there,
\* reads what is left in it.
HangUp ==
    /\ IF gen[session].pc \in {"read", "busy"} THEN CloseInput(session) ELSE UNCHANGED gen
    /\ UNCHANGED wasm

\* The process is gone: its transaction, and its end of the pipe.
Gone ==
    /\ DieOpen /\ HangUp
    /\ pc' = "down" /\ ids' = NoIds /\ todo' = <<>> /\ step' = 0 /\ mem' = 0
    /\ ran' = Empty /\ late' = FALSE /\ rival' = FALSE
    /\ UNCHANGED <<session, seed, size>>

\* A restart may take up the -seed of an earlier session.
StartSession ==
    /\ pc = "down" /\ session < MaxSessions /\ gen[Hand].pc = "absent"
    /\ Open
    /\ pc' = "open" /\ session' = session + 1
    /\ seed' \in Seeds /\ size' \in Blocks
    /\ UNCHANGED <<genvars, ids, step, mem, todo, ran, late, rival, refused>>

Popen ==
    /\ pc = "open" /\ db = "open" /\ pc' = "seed"
    /\ Start(session, seed, size, 0)
    /\ UNCHANGED <<dbvars, session, seed, size, ids, step, mem, todo, ran, late, rival, refused>>

InitNewDb ==
    /\ pc = "open" /\ (InsertV8 \/ InsertSpiderMonkey)
    /\ UNCHANGED <<covars, genvars>>

StoreSeed ==
    /\ pc = "seed" /\ pc' = "flush" /\ Store("seed")
    /\ UNCHANGED <<genvars, session, seed, size, step, mem, todo, ran, late, rival, refused>>

FlushSeed ==
    /\ pc = "flush" /\ pc' = "outer" /\ Flush
    /\ UNCHANGED <<genvars, session, seed, size, ids, step, mem, todo, ran, late, rival, refused>>

Owes(g) == gen[g].pc = "busy" \/ \E k \in DOMAIN gen[g].in : gen[g].in[k] = "w"

SendW ==
    /\ pc = "outer" /\ step < Steps /\ pc' = "sleep"
    /\ Send(session, "w") /\ UNCHANGED wasm
    /\ rival' = (\E g \in Gens \ {session} : gen[g].seed = seed /\ Owes(g))
    /\ UNCHANGED <<dbvars, session, seed, size, ids, step, mem, todo, ran, late, refused>>

StoreStep ==
    /\ pc = "sleep" /\ pc' = "inner" /\ Store("step") /\ mem' = 0
    /\ late' = (Owes(session) \/ gen[session].pc = "dead")
    /\ UNCHANGED <<genvars, session, seed, size, step, todo, ran, rival, refused>>

\* A file that is no module leaves two empty logs.
RunTesters ==
    /\ pc = "inner" /\ mem < MemSteps /\ pc' = "store"
    /\ ran' = wasm[seed]
    /\ \/ todo' = Cases
       \/ wasm[seed] \notin {Empty, Mixed} /\ \E found \in Found : todo' = Cases \o Call \o Diffs(found)
    /\ UNCHANGED <<dbvars, genvars, session, seed, size, ids, step, mem, late, rival, refused>>

StoreNext ==
    /\ pc = "store" /\ todo # <<>> /\ Store(Head(todo)) /\ todo' = Tail(todo)
    /\ UNCHANGED <<genvars, pc, session, seed, size, step, mem, ran, late, rival, refused>>

\* Nobody catches what a refused insertion throws.
Refused ==
    /\ pc = "store" /\ todo # <<>> /\ Refuses(Head(todo))
    /\ Gone /\ refused' = TRUE

FlushDue == mem % FlushEvery = 0 /\ mem # 0

\* The end of a memory step, with or without SIGINT before it.
MemStepDone ==
    /\ pc = "store" /\ todo = <<>>
    /\ \/ pc' = "end" /\ UNCHANGED <<dbvars, mem>>
       \/ /\ pc' = "inner" /\ mem' = mem + 1
          /\ IF FlushDue THEN Flush ELSE UNCHANGED dbvars
    /\ UNCHANGED <<genvars, session, seed, size, ids, step, todo, ran, late, rival, refused>>

NextStep ==
    /\ pc = "inner" /\ mem = MemSteps /\ pc' = "outer" /\ step' = step + 1
    /\ UNCHANGED <<dbvars, genvars, session, seed, size, ids, mem, todo, ran, late, rival, refused>>

End ==
    /\ pc = "end" \/ (pc = "outer" /\ step = Steps)
    /\ Flush /\ pc' = "quit"
    /\ UNCHANGED <<genvars, session, seed, size, ids, step, mem, todo, ran, late, rival, refused>>

SendQ ==
    /\ pc = "quit" /\ pc' = "close"
    /\ Send(session, "q") /\ UNCHANGED wasm
    /\ UNCHANGED <<dbvars, session, seed, size, ids, step, mem, todo, ran, late, rival, refused>>

\* ~stdio_filebuf closes the pipe, so that the pclose of ~POpenScope does not
\* wait: a generator that is behind outlives the session.  ~Entities closes the
\* database.
Finish ==
    /\ pc = "close" /\ HangUp /\ Close /\ pc' = "down"
    /\ ids' = NoIds /\ step' = 0 /\ mem' = 0 /\ ran' = Empty /\ late' = FALSE /\ rival' = FALSE
    /\ UNCHANGED <<session, seed, size, todo, refused>>

\* It aborts in CompareLogs, is killed, or writes to a generator that is dead.
Crash == pc # "down" /\ Gone /\ UNCHANGED refused

Coordinator ==
    \/ StartSession \/ InitNewDb \/ Popen \/ StoreSeed \/ FlushSeed \/ SendW \/ StoreStep \/ RunTesters
    \/ StoreNext \/ Refused \/ MemStepDone \/ NextStep \/ End \/ SendQ \/ Finish
-----------------------------------------------------------------------------
\* A generator at a terminal, in place of a campaign.
StartByHand ==
    /\ session = 0 /\ \E skip \in Skips, s \in Seeds, n \in Sizes : Start(Hand, s, n, skip)
    /\ UNCHANGED <<covars, dbvars>>

Type ==
    /\ session = 0
    /\ Len(gen[Hand].in) + gen[Hand].made + gen[Hand].mems < MaxTyped
    /\ \E line \in Lines : Send(Hand, line)
    /\ UNCHANGED <<wasm, covars, dbvars>>

Generator(g) == (Works(g) \/ Fail(g)) /\ UNCHANGED <<covars, dbvars>>

Idle == pc = "down" /\ UNCHANGED vars

Next ==
    \/ Coordinator \/ Crash \/ StartByHand \/ Type \/ Idle
    \/ \E g \in Gens : Generator(g)

Spec == Init /\ [][Next]_vars
FairSpec == Spec /\ \A g \in Gens : WF_vars(Works(g) /\ UNCHANGED <<covars, dbvars>>)
-----------------------------------------------------------------------------
(***************************************************************************)
(* Properties.                                                             *)
(***************************************************************************)
\* The variables of Sessions, FuzzerDb and RandomGen have their types.
TypeOK ==
    /\ DbTypeOK /\ GenTypeOK
    /\ pc \in {"down", "open", "seed", "flush", "outer", "sleep", "inner", "store", "end", "quit", "close"}
    /\ session \in 0..MaxSessions /\ seed \in Seeds \cup {"none"} /\ size \in Blocks \cup {0}
    /\ ids \in [DOMAIN TableOf -> Serials \cup {0}]
    /\ step \in 0..Steps /\ mem \in 0..MemSteps
    /\ todo \in Seq(DOMAIN Passes)
    /\ ran \in {Empty, Mixed} \cup [seed : Seeds, from : Nat, size : Nat]
    /\ {late, rival, refused} \subseteq BOOLEAN

\* A set of rows, with those rows of the transaction that refer to it only.
Under(rows) ==
    rows \cup {r \in tx : /\ DOMAIN r.keys # {}
                        /\ \A t \in DOMAIN r.keys \ {"implementations"} : Finds(rows, t, r.keys[t])}

\* However many sessions crashed before, every row that a session stores
\* belongs, by its foreign keys, to the seed of this session and to no other.
OwnRows ==
    LET suite == {r \in disk \cup tx : r.table = "seed_suites" /\ r.id = ids["seed"]}
    IN tx \subseteq Under(Under(Under(Under(Under(suite)))))

\* A memory step that is stored can be repeated from its row: the testers ran
\* the module that -repro writes for the seed, the block size and the step of
\* the row, unless the generator was late, or one of an earlier session with
\* the same -seed had still to write.
Reproducible ==
    pc = "store" /\ ran \notin {Empty, Mixed} /\ ~late /\ ~rival /\ Exact(step, size)
        => ran = ReproModule(seed, size, step)

\* A session is never ended by a foreign key of its own: only in a file whose
\* creation was cut short can a row be refused.
RefusedOnlyAfterCut == refused => cut

\* A generator that was sent "q" ends, whatever is waiting before it.
QuitObeyed == \A g \in Gens :
    (\E k \in DOMAIN gen[g].in : gen[g].in[k] = "q") ~> gen[g].pc = "dead"

\* The serials a session passes are those of rows that are there: no call uses
\* one that a crash has taken back, or that another table returned.
LegalCalls == [][\A r \in tx' \ tx : Legal(r.keys)]_vars

\* All or nothing: the file holds the results of a session that came to its
\* end, or just its seed.
Promise == INSTANCE Campaign WITH
    Sessions <- Serials, Results <- Serials,
    recorded <- {r.id : r \in {q \in disk : q.table = "seed_suites"}},
    results <- UNION {{<<p.keys["seed_suites"], m.id>> :
                         m \in {r \in disk : r.table = "memory_steppings" /\ r.keys["steppings"] = p.id}} :
                     p \in {r \in disk : r.table = "steppings"}}
KeepsCampaign == Promise!Spec
=============================================================================
