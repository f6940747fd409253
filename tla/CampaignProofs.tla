---------------------------- MODULE CampaignProofs ----------------------------
(***************************************************************************)
(* Sessions implements Campaign: the rows of a session stay in one         *)
(* transaction, hang together, and hang on the seed of the session alone,  *)
(* so that they reach the file all at once or not at all.                  *)
(***************************************************************************)
EXTENDS SessionsProofs

\* The variables that name rows of the transaction.
Locals == DOMAIN TableOf \ {"V8", "SpiderMonkey", "seed"}

Holding == {"outer", "sleep", "inner", "store", "end"}

\* A serial names one row of its table.
Unique ==
    \A q, r \in disk \cup tx :
        q.table = r.table /\ q.id = r.id /\ q.table # "implementations" => q = r

\* A row that refers to rows of the same transaction, or to the seed.
OwnKeys(r) ==
    /\ r.table \notin {"seed_suites", "implementations"}
    /\ \A t \in DOMAIN r.keys \ {"implementations"} :
          IF t = "seed_suites" THEN r.keys[t] = ids["seed"] ELSE Finds(tx, t, r.keys[t])

\* What a session has in its transaction, and of it in the file, at every stage.
Held ==
    /\ Finds(disk, "seed_suites", ids["seed"])
    /\ \A r \in tx : OwnKeys(r)
    /\ \A r \in disk : r.table = "steppings" => r.keys["seed_suites"] # ids["seed"]
    /\ \A u \in Locals : ids[u] = 0 \/ Finds(tx, TableOf[u], ids[u])

Announced ==
    /\ tx # {} /\ \A r \in tx : r.table = "seed_suites" /\ r.id = ids["seed"]
    /\ ~Finds(disk, "seed_suites", ids["seed"])
    /\ \A u \in Locals : ids[u] = 0

Ownership ==
    /\ Unique
    /\ pc \in {"down", "open", "seed", "quit", "close"} => tx = {}
    /\ pc \in {"down", "open", "seed"} => \A u \in Locals : ids[u] = 0
    /\ pc = "flush" => Announced
    /\ pc \in Holding => Held
    /\ \A k \in 1..Len(todo) : todo[k] # "seed"
-----------------------------------------------------------------------------
\* The flush within the loop never comes.
LEMMA NeverDue == Stage /\ pc = "store" => ~FlushDue
<1> SUFFICES ASSUME Stage, pc = "store", mem # 0 PROVE mem % FlushEvery # 0
    BY DEF FlushDue
<1>1. mem \in Nat /\ mem < FlushEvery /\ FlushEvery \in Nat
    BY SessionsAssumption, FlushAssumption DEF Stage
<1>2. mem % FlushEvery = mem
    BY <1>1
<1>3. QED
    BY <1>2

\* The serial of an insertion is new.
LEMMA InsertUnique ==
    ASSUME Unique, NEW t, NEW keys, Insert(t, keys)
    PROVE  Unique' /\ ~Finds(disk \cup tx, t, NextId(t))
<1>1. ~Finds(disk \cup tx, t, NextId(t))
    BY DEF Insert, NextId, Free
<1>2. disk' = disk /\ tx' = tx \cup {Row(t, NextId(t), keys)}
    BY DEF Insert
<1>3. Row(t, NextId(t), keys).table = t /\ Row(t, NextId(t), keys).id = NextId(t)
    BY DEF Row
<1>4. QED
    BY <1>1, <1>2, <1>3 DEF Unique, Finds

\* Only the seed is a serial of a suite.
LEMMA SeedOnly ==
    ASSUME NEW v \in DOMAIN Passes, NEW u \in Passes[v], TableOf[u] = "seed_suites"
    PROVE  u = "seed"
BY DEF Passes, TableOf

\* A row stored while a session holds its transaction refers to it.
LEMMA StoreHeld ==
    ASSUME DbInv, Keys, Held, NEW v \in DOMAIN Passes \ {"seed"}, Store(v), \A u \in Passes[v] : Live(u)
    PROVE  Held'
<1> DEFINE t == TableOf[v]
           keys == KeysPassed(v)
           new == Row(t, NextId(t), keys)
<1>1. Insert(t, keys) /\ ids' = [ids EXCEPT ![v] = NextId(t)] /\ ids \in [DOMAIN TableOf -> Serials \cup {0}]
    BY DEF Store, KeysPassed, Keys
<1>2. disk' = disk /\ tx' = tx \cup {new} /\ new \in tx'
    BY <1>1 DEF Insert
<1>3. new.table = t /\ new.id = NextId(t) /\ new.keys = keys
    BY DEF Row
<1>4. v \in DOMAIN TableOf /\ v # "seed" /\ "seed" \in DOMAIN TableOf /\ t \notin {"seed_suites", "implementations"}
    BY VariablesFit DEF TableOf, Passes
<1>5. ids'["seed"] = ids["seed"] /\ ids'[v] = NextId(t) /\ \A u \in DOMAIN TableOf \ {v} : ids'[u] = ids[u]
    BY <1>1, <1>4
<1>6. ASSUME NEW p \in ForeignKeys[t] \ {"implementations"}
      PROVE  IF p = "seed_suites" THEN keys[p] = ids["seed"] ELSE Finds(tx, p, keys[p])
    <2> DEFINE u == CHOOSE w \in Passes[v] : TableOf[w] = p
    <2>1. u \in Passes[v] /\ TableOf[u] = p /\ keys[p] = ids[u]
        BY VariablesFit DEF KeysPassed
    <2> HIDE DEF u, t, keys, new
    <2>2. u \in DOMAIN TableOf \ {"V8", "SpiderMonkey"} /\ Finds(disk \cup tx, p, ids[u])
        BY <2>1, VariablesFit DEF Live
    <2>3. CASE p = "seed_suites"
        BY <2>1, <2>3, SeedOnly
    <2>4. CASE p # "seed_suites"
        <3>1. u \in Locals
            BY <2>1, <2>2, <2>4 DEF Locals, TableOf
        <3>2. ids[u] # 0
            BY <2>2, SerialsAssumption DEF DbInv, DbTypeOK, Finds
        <3>3. QED
            BY <2>1, <2>4, <3>1, <3>2 DEF Held
    <2>5. QED
        BY <2>3, <2>4
<1>7. DOMAIN keys = ForeignKeys[t]
    BY DEF KeysPassed
<1> HIDE DEF keys, new, t
<1>8. \A r \in tx' : OwnKeys(r)'
    <2>1. ASSUME NEW r, r = new PROVE OwnKeys(r)'
        <3>1. r.table \notin {"seed_suites", "implementations"} /\ DOMAIN r.keys = ForeignKeys[t] /\ r.keys = keys
            BY <1>3, <1>4, <1>7, <2>1
        <3>2. \A p \in ForeignKeys[t] \ {"implementations"} :
                 IF p = "seed_suites" THEN keys[p] = ids'["seed"] ELSE Finds(tx', p, keys[p])
            BY <1>2, <1>5, <1>6, FindsMore
        <3>3. QED
            BY <3>1, <3>2 DEF OwnKeys
    <2>2. ASSUME NEW r \in tx PROVE OwnKeys(r)'
        BY <1>2, <1>5, <2>2, FindsMore DEF OwnKeys, Held
    <2>3. QED
        BY <1>2, <2>1, <2>2
<1>9. ASSUME NEW u \in Locals PROVE ids'[u] = 0 \/ Finds(tx', TableOf[u], ids'[u])
    <2>1. CASE u = v
        <3>1. new.table = TableOf[u] /\ new.id = ids'[u]
            BY <1>3, <1>5, <2>1 DEF t
        <3>2. QED
            BY <1>2, <3>1 DEF Finds
    <2>2. CASE u # v
        BY <1>2, <1>5, <2>2, FindsMore DEF Locals, Held
    <2>3. QED
        BY <2>1, <2>2
<1>10. QED
    BY <1>2, <1>5, <1>8, <1>9 DEF Held

\* The seed of a session: it is announced in a transaction of its own.
LEMMA SeedAnnounced ==
    ASSUME DbInv, Keys, tx = {}, \A u \in Locals : ids[u] = 0, Store("seed")
    PROVE  Announced'
<1> DEFINE new == Row("seed_suites", NextId("seed_suites"), KeysPassed("seed"))
<1>1. TableOf["seed"] = "seed_suites" /\ "seed" \in DOMAIN TableOf /\ "seed" \notin Locals
    BY DEF TableOf, Locals
<1>2. Insert("seed_suites", KeysPassed("seed")) /\ ids' = [ids EXCEPT !["seed"] = NextId("seed_suites")]
    BY <1>1 DEF Store, KeysPassed
<1>3. ids'["seed"] = NextId("seed_suites") /\ \A u \in Locals : ids'[u] = 0
    BY <1>1, <1>2 DEF Keys, Locals
<1>4. disk' = disk /\ tx' = {new} /\ new.table = "seed_suites" /\ new.id = NextId("seed_suites")
    BY <1>2 DEF Insert, Row
<1>5. ~Finds(disk, "seed_suites", NextId("seed_suites"))
    BY <1>2, FindsMore DEF Insert, NextId, Free
<1> HIDE DEF new
<1>6. QED
    BY <1>3, <1>4, <1>5 DEF Announced

\* Once it is in the file, nothing else of the session is.
LEMMA SeedHeld ==
    ASSUME DbInv, Announced, disk' = disk \cup tx, tx' = {}, ids' = ids
    PROVE  Held'
<1>1. Finds(disk', "seed_suites", ids'["seed"])
    BY DEF Announced, Finds
<1>2. ASSUME NEW r \in disk', r.table = "steppings" PROVE r.keys["seed_suites"] # ids'["seed"]
    <2>1. r \in disk /\ "seed_suites" \in DOMAIN r.keys
        BY <1>2 DEF Announced, DbInv, DbTypeOK, KeysOf, ForeignKeys
    <2>2. Finds(disk, "seed_suites", r.keys["seed_suites"])
        BY <2>1 DEF DbInv, KeysFound
    <2>3. QED
        BY <2>2 DEF Announced
<1>3. QED
    BY <1>1, <1>2 DEF Held, Announced

\* What the invariant says does not change while its variables do not.
LEMMA OwnershipKept ==
    ASSUME Ownership, UNCHANGED <<disk, tx, ids>>, \A k \in 1..Len(todo') : todo'[k] # "seed",
           pc' \in {"down", "open", "seed", "quit", "close"} => tx = {},
           pc' \in {"down", "open", "seed"} => \A u \in Locals : ids[u] = 0,
           pc' = "flush" => pc = "flush",
           pc' \in Holding => pc \in Holding
    PROVE  Ownership'
<1>1. Unique' /\ (pc' \in Holding => Held') /\ (pc' = "flush" => Announced')
    BY DEF Ownership, Unique, Held, OwnKeys, Announced, Finds
<1>2. QED
    BY <1>1 DEF Ownership

\* What a memory step stores is never another seed.
NoSeed(q) == \A k \in 1..Len(q) : q[k] # "seed"

LEMMA RowsWithoutSeed ==
    NoSeed(Cases) /\ \A found : NoSeed(Cases \o Call \o Diffs(found))
<1>1. NoSeed(Cases)
    BY DEF NoSeed, Cases
<1>2. ASSUME NEW found PROVE NoSeed(Cases \o Call \o Diffs(found))
    <2> DEFINE S == DOMAIN Passes \ {"seed"}
    <2>1. Cases \o Call \in Seq(S)
        BY DEF Cases, Call, Passes
    <2>2. Diffs(found) \in Seq(S)
        BY DiffsTyped DEF Passes
    <2> HIDE DEF S
    <2>3. (Cases \o Call) \o Diffs(found) \in Seq(S)
        BY <2>1, <2>2, ConcatProperties
    <2>4. QED
        BY <2>3, ElementOfSeq DEF NoSeed, S
<1>3. QED
    BY <1>1, <1>2

\* The invariant is inductive: a session ends in its own rows.
LEMMA OwnershipInv ==
    ASSUME DbInv, Stage, Keys, Ownership, [Next]_vars
    PROVE  Ownership'
<1>1. ASSUME UNCHANGED <<covars, dbvars>> PROVE Ownership'
    <2>1. UNCHANGED <<disk, tx, ids, pc, todo>>
        BY <1>1 DEF covars, dbvars
    <2>2. QED
        BY <2>1, OwnershipKept DEF Ownership
<1>2. todo \in Seq(DOMAIN Passes) /\ (pc # "store" => todo = <<>>) /\ 1..Len(<<>>) = {}
    BY DEF Keys
<1>3. \A u \in Locals : NoIds[u] = 0
    BY DEF Locals, NoIds
<1>4. ASSUME Gone PROVE Ownership'
    <2>1. ids' = NoIds /\ todo' = <<>> /\ pc' = "down" /\ tx' = {} /\ disk' = disk
        BY <1>4 DEF Gone, DieOpen
    <2>2. Unique'
        BY <2>1 DEF Ownership, Unique
    <2>3. QED
        BY <1>2, <1>3, <2>1, <2>2 DEF Ownership, Holding
<1>5. CASE StartSession
    BY <1>2, <1>5, OwnershipKept DEF StartSession, Open, Ownership, Holding
<1>6. CASE InitNewDb
    <2>1. pc = "open" /\ pc' = "open" /\ ids' = ids /\ todo' = todo /\ tx' = tx
        BY <1>6 DEF InitNewDb, InsertV8, InsertSpiderMonkey, covars
    <2>2. disk' = disk \cup {V8Row} \/ disk' = disk \cup {SpiderMonkeyRow}
        BY <1>6 DEF InitNewDb, InsertV8, InsertSpiderMonkey
    <2>3. Unique'
        BY <2>1, <2>2, Implementations DEF Ownership, Unique
    <2>4. QED
        BY <1>2, <2>1, <2>3 DEF Ownership, Holding
<1>7. CASE Popen
    BY <1>2, <1>7, OwnershipKept DEF Popen, dbvars, Ownership, Holding
<1>8. CASE StoreSeed
    <2>1. Store("seed") /\ pc = "seed" /\ pc' = "flush" /\ todo' = <<>>
        BY <1>2, <1>8 DEF StoreSeed
    <2>2. Unique'
        BY <2>1, InsertUnique DEF Store, Ownership
    <2>3. Announced'
        BY <2>1, SeedAnnounced DEF Ownership
    <2>4. QED
        BY <1>2, <2>1, <2>2, <2>3 DEF Ownership, Holding
<1>9. CASE FlushSeed
    <2>1. pc = "flush" /\ pc' = "outer" /\ disk' = disk \cup tx /\ tx' = {} /\ ids' = ids /\ todo' = <<>>
        BY <1>2, <1>9 DEF FlushSeed, Flush
    <2>2. Unique'
        BY <2>1 DEF Ownership, Unique
    <2>3. Held'
        BY <2>1, SeedHeld DEF Ownership
    <2>4. QED
        BY <1>2, <2>1, <2>2, <2>3 DEF Ownership
<1>10. CASE SendW
    BY <1>2, <1>10, OwnershipKept DEF SendW, dbvars, Holding
<1>11. ASSUME NEW v \in DOMAIN Passes \ {"seed"}, Store(v), \A u \in Passes[v] : Live(u), pc \in Holding
       PROVE  Unique' /\ Held'
    <2>1. Unique'
        BY <1>11, InsertUnique DEF Store, Ownership
    <2>2. QED
        BY <1>11, <2>1, StoreHeld DEF Ownership
<1>12. CASE StoreStep
    <2>1. Store("step") /\ pc = "sleep" /\ pc' = "inner" /\ todo' = <<>>
        BY <1>2, <1>12 DEF StoreStep
    <2>2. "step" \in DOMAIN Passes \ {"seed"} /\ Passes["step"] = {"seed"} /\ Live("seed")
        BY <2>1 DEF Passes, Keys
    <2>3. Unique' /\ Held'
        BY <1>11, <2>1, <2>2 DEF Holding
    <2>4. QED
        BY <1>2, <2>1, <2>3 DEF Ownership, Holding
<1>13. CASE RunTesters
    <2>1. pc = "inner" /\ pc' = "store" /\ UNCHANGED <<disk, tx, ids>>
        BY <1>13 DEF RunTesters, dbvars
    <2>2. \A k \in 1..Len(todo') : todo'[k] # "seed"
        <3>1. todo' \in Seq(DOMAIN Passes) /\ Ordered(todo') /\ NoSeed(todo')
            BY <1>13, RowsOrdered, RowsWithoutSeed DEF RunTesters
        <3>2. QED
            BY <3>1 DEF NoSeed
    <2>3. QED
        BY <2>1, <2>2, OwnershipKept DEF Holding
<1>14. CASE StoreNext
    <2>1. todo # <<>> /\ Store(Head(todo)) /\ todo' = Tail(todo) /\ pc = "store" /\ pc' = "store"
        BY <1>14 DEF StoreNext
    <2>2. /\ Head(todo) = todo[1] /\ todo[1] \in DOMAIN Passes /\ 1 \in 1..Len(todo) /\ 1..(1 - 1) = {}
          /\ Len(todo') = Len(todo) - 1 /\ Len(todo) \in Nat /\ \A k \in 1..Len(todo') : todo'[k] = todo[k + 1]
        BY <1>2, <2>1, HeadTailProperties
    <2>3. Head(todo) \in DOMAIN Passes \ {"seed"} /\ \A u \in Passes[Head(todo)] : Live(u)
        BY <2>2 DEF Keys, Ownership
    <2>4. Unique' /\ Held'
        BY <1>11, <2>1, <2>3 DEF Holding
    <2>5. \A k \in 1..Len(todo') : todo'[k] # "seed"
        <3>1. ASSUME NEW k \in 1..Len(todo') PROVE k + 1 \in 1..Len(todo) /\ todo'[k] = todo[k + 1]
            BY <2>2
        <3>2. QED
            BY <3>1 DEF Ownership
    <2>6. QED
        BY <2>1, <2>4, <2>5 DEF Ownership, Holding
<1>15. CASE Refused \/ Crash
    BY <1>4, <1>15 DEF Refused, Crash
<1>16. CASE MemStepDone
    <2>1. pc = "store" /\ pc' \in {"end", "inner"} /\ todo' = <<>> /\ UNCHANGED <<disk, tx, ids>>
        BY <1>16, NeverDue DEF MemStepDone, dbvars
    <2>2. QED
        BY <1>2, <2>1, OwnershipKept DEF Holding
<1>17. CASE NextStep
    BY <1>2, <1>17, OwnershipKept DEF NextStep, dbvars, Holding
<1>18. CASE End
    <2>1. pc' = "quit" /\ disk' = disk \cup tx /\ tx' = {} /\ todo' = <<>>
        BY <1>2, <1>18 DEF End, Flush
    <2>2. Unique'
        BY <2>1 DEF Ownership, Unique
    <2>3. QED
        BY <1>2, <2>1, <2>2 DEF Ownership, Holding
<1>19. CASE SendQ
    BY <1>2, <1>19, OwnershipKept DEF SendQ, dbvars, Ownership, Holding
<1>20. CASE Finish
    <2>1. pc = "close" /\ pc' = "down" /\ ids' = NoIds /\ todo' = <<>> /\ disk' = disk \cup tx /\ tx' = {}
        BY <1>2, <1>20 DEF Finish, Close
    <2>2. Unique'
        BY <2>1 DEF Ownership, Unique
    <2>3. QED
        BY <1>2, <1>3, <2>1, <2>2 DEF Ownership, Holding
<1>21. CASE StartByHand \/ Type \/ Idle \/ UNCHANGED vars
    BY <1>1, <1>21 DEF StartByHand, Type, Idle, vars
<1>22. ASSUME NEW g \in Gens, Generator(g) PROVE Ownership'
    BY <1>1, <1>22 DEF Generator
<1>23. QED
    BY <1>5, <1>6, <1>7, <1>8, <1>9, <1>10, <1>12, <1>13, <1>14, <1>15, <1>16, <1>17, <1>18, <1>19, <1>20,
       <1>21, <1>22 DEF Next, Coordinator

LEMMA OwnershipHolds == Spec => [](CampaignInv /\ Ownership)
<1>1. Init => Ownership
    <2>1. ASSUME Init PROVE \A u \in Locals : ids[u] = 0
        BY <2>1 DEF Init, NoIds, Locals
    <2>2. 1..Len(<<>>) = {}
        OBVIOUS
    <2>3. QED
        BY <2>1, <2>2 DEF Init, DbInit, Ownership, Unique, Holding
<1>2. CampaignInv /\ Ownership /\ [Next]_vars => Ownership'
    BY OwnershipInv DEF CampaignInv
<1>3. QED
    BY <1>1, <1>2, CampaignHolds, PTL DEF Spec
-----------------------------------------------------------------------------
\* A row of the transaction lies under the seed: steppings first, then their
\* memory steps, and so on down the tables.
LEMMA LiesUnder ==
    ASSUME NEW rows, NEW r \in tx, DOMAIN r.keys # {},
           \A t \in DOMAIN r.keys \ {"implementations"} : Finds(rows, t, r.keys[t])
    PROVE  r \in Under(rows)
BY DEF Under

LEMMA UnderMore == ASSUME NEW rows PROVE rows \subseteq Under(rows)
BY DEF Under

\* FuzzingLoop, CompareLogs: a session stores under its own seed, however many
\* sessions crashed before it.
THEOREM RowsAreOwn == Spec => []OwnRows
<1>1. ASSUME CampaignInv, Ownership PROVE OwnRows
    <2> DEFINE suite == {r \in disk \cup tx : r.table = "seed_suites" /\ r.id = ids["seed"]}
               U1 == Under(suite)
               U2 == Under(U1)
               U3 == Under(U2)
               U4 == Under(U3)
               U5 == Under(U4)
    <2> SUFFICES tx \subseteq U5
        BY DEF OwnRows
    <2>1. suite \subseteq U1 /\ U1 \subseteq U2 /\ U2 \subseteq U3 /\ U3 \subseteq U4 /\ U4 \subseteq U5
        BY UnderMore
    <2>2. CASE pc \in {"down", "open", "seed", "quit", "close"}
        BY <1>1, <2>2 DEF Ownership
    <2>3. CASE pc = "flush"
        <3>1. tx \subseteq suite
            BY <1>1, <2>3 DEF Ownership, Announced
        <3>2. QED
            BY <2>1, <3>1
    <2>4. CASE pc \in Holding
        <3>1. Finds(suite, "seed_suites", ids["seed"])
            BY <1>1, <2>4 DEF Ownership, Held, Finds
        <3>2. \A r \in tx : /\ r.table \in Tables \ {"seed_suites", "implementations"}
                            /\ DOMAIN r.keys = ForeignKeys[r.table] /\ OwnKeys(r)
            BY <1>1, <2>4 DEF Ownership, Held, OwnKeys, CampaignInv, DbInv, DbTypeOK, KeysOf
        <3> HIDE DEF suite
        <3>3. \A r \in tx : r.table = "steppings" => r \in U1
            BY <3>1, <3>2, LiesUnder DEF OwnKeys, ForeignKeys
        <3> HIDE DEF U1
        <3>4. \A r \in tx : r.table = "memory_steppings" => r \in U2
            <4>1. ASSUME NEW id, Finds(tx, "steppings", id) PROVE Finds(U1, "steppings", id)
                BY <3>3, <4>1 DEF Finds
            <4>2. QED
                BY <3>2, <4>1, LiesUnder DEF OwnKeys, ForeignKeys
        <3> HIDE DEF U2
        <3>5. \A r \in tx : r.table \in {"testcases", "function_calls"} => r \in U3
            <4>1. ASSUME NEW id, Finds(tx, "memory_steppings", id) PROVE Finds(U2, "memory_steppings", id)
                BY <3>4, <4>1 DEF Finds
            <4>2. QED
                BY <3>2, <4>1, LiesUnder DEF OwnKeys, ForeignKeys
        <3> HIDE DEF U3
        <3>6. \A r \in tx : r.table \in {"testcase_calls", "function_args"} => r \in U4
            <4>1. ASSUME NEW t \in {"testcases", "function_calls"}, NEW id, Finds(tx, t, id) PROVE Finds(U3, t, id)
                BY <3>5, <4>1 DEF Finds
            <4>2. QED
                BY <3>2, <4>1, LiesUnder DEF OwnKeys, ForeignKeys
        <3> HIDE DEF U4
        <3>7. \A r \in tx : r.table \in {"memory_diffs", "global_diffs"} => r \in U5
            <4>1. ASSUME NEW id, Finds(tx, "testcase_calls", id) PROVE Finds(U4, "testcase_calls", id)
                BY <3>6, <4>1 DEF Finds
            <4>2. QED
                BY <3>2, <4>1, LiesUnder DEF OwnKeys, ForeignKeys
        <3> HIDE DEF U5
        <3>8. Tables = {"seed_suites", "steppings", "memory_steppings", "implementations", "testcases",
                        "function_calls", "testcase_calls", "memory_diffs", "global_diffs", "function_args"}
            BY DEF Tables, ForeignKeys
        <3>9. QED
            BY <2>1, <3>2, <3>3, <3>4, <3>5, <3>6, <3>7, <3>8
    <2>5. QED
        BY <1>1, <2>2, <2>3, <2>4 DEF CampaignInv, Stage, Holding
<1>2. QED
    BY <1>1, OwnershipHolds, PTL
-----------------------------------------------------------------------------
\* The mapping to Campaign: the seeds of the file, and the memory steps of the
\* file with the seed of their step.
Recorded == {r.id : r \in {q \in disk : q.table = "seed_suites"}}
ResultsIn == UNION {{<<p.keys["seed_suites"], m.id>> :
                       m \in {r \in disk : r.table = "memory_steppings" /\ r.keys["steppings"] = p.id}} :
                   p \in {r \in disk : r.table = "steppings"}}

LEMMA ResultsMember ==
    \A x : x \in ResultsIn <=>
        \E p, m \in disk : /\ p.table = "steppings" /\ m.table = "memory_steppings" /\ m.keys["steppings"] = p.id
                           /\ x = <<p.keys["seed_suites"], m.id>>
BY DEF ResultsIn

LEMMA ResultsMemberNext ==
    \A x : x \in ResultsIn' <=>
        \E p, m \in disk' : /\ p.table = "steppings" /\ m.table = "memory_steppings" /\ m.keys["steppings"] = p.id
                            /\ x = <<p.keys["seed_suites"], m.id>>
BY DEF ResultsIn

\* Announcing a session: its seed is recorded.
LEMMA FlushRecords ==
    ASSUME DbInv, Announced, disk' = disk \cup tx
    PROVE  ids["seed"] \in Serials /\ ids["seed"] \notin Recorded /\ Recorded' = Recorded \cup {ids["seed"]} /\ ResultsIn' = ResultsIn
<1>1. ids["seed"] \in Serials /\ ids["seed"] \notin Recorded
    BY DEF Announced, Recorded, Finds, DbInv, DbTypeOK
<1>2. Recorded' = Recorded \cup {ids["seed"]}
    BY DEF Announced, Recorded
<1>3. \A q \in disk' : q.table # "seed_suites" => q \in disk
    BY DEF Announced
<1>4. ResultsIn' = ResultsIn
    <2>1. \A x : x \in ResultsIn' => x \in ResultsIn
        BY <1>3, ResultsMember, ResultsMemberNext
    <2>2. \A x : x \in ResultsIn => x \in ResultsIn'
        BY ResultsMember, ResultsMemberNext
    <2>3. QED
        BY <2>1, <2>2
<1>5. QED
    BY <1>1, <1>2, <1>4

\* The end of a session: its results appear, all at once.
LEMMA EndPublishes ==
    ASSUME DbInv, Unique, Held, disk' = disk \cup tx
    PROVE  /\ ids["seed"] \in Recorded /\ Recorded' = Recorded
           /\ \A x \in ResultsIn : x[1] # ids["seed"]
           /\ ResultsIn \subseteq ResultsIn' /\ ResultsIn' \ ResultsIn \subseteq {ids["seed"]} \X Serials
<1>1. ids["seed"] \in Recorded
    BY DEF Held, Finds, Recorded
<1>2. Recorded' = Recorded
    BY DEF Held, OwnKeys, Recorded
<1>3. \A x \in ResultsIn : x[1] # ids["seed"]
    BY ResultsMember DEF Held
<1>4. ResultsIn \subseteq ResultsIn'
    BY ResultsMember, ResultsMemberNext
<1>5. ASSUME NEW x \in ResultsIn', x \notin ResultsIn PROVE x \in {ids["seed"]} \X Serials
    <2>1. PICK p \in disk', m \in disk' :
              /\ p.table = "steppings" /\ m.table = "memory_steppings" /\ m.keys["steppings"] = p.id
              /\ x = <<p.keys["seed_suites"], m.id>>
        BY ResultsMemberNext
    <2>2. /\ DOMAIN p.keys = {"seed_suites"} /\ DOMAIN m.keys = {"steppings"} /\ m.id \in Serials
          /\ p \in disk \cup tx /\ m \in disk \cup tx
        BY <2>1 DEF DbInv, DbTypeOK, KeysOf, ForeignKeys
    <2>3. p \in tx
        <3>1. CASE m \in tx
            <4>1. Finds(tx, "steppings", p.id)
                BY <2>1, <2>2, <3>1 DEF Held, OwnKeys
            <4>2. PICK q \in tx : q.table = "steppings" /\ q.id = p.id
                BY <4>1 DEF Finds
            <4>3. q = p
                BY <2>1, <2>2, <4>2 DEF Unique
            <4>4. QED
                BY <4>2, <4>3
        <3>2. CASE m \notin tx
            BY <1>5, <2>1, <2>2, <3>2, ResultsMember
        <3>3. QED
            BY <3>1, <3>2
    <2>4. p.keys["seed_suites"] = ids["seed"]
        BY <2>1, <2>2, <2>3 DEF Held, OwnKeys
    <2>5. QED
        BY <2>1, <2>2, <2>4
<1>6. QED
    BY <1>1, <1>2, <1>3, <1>4, <1>5

\* A row that is neither leaves both as they are.
LEMMA ListingHidden ==
    ASSUME NEW r, r.table = "implementations", disk' = disk \cup {r}
    PROVE  Recorded' = Recorded /\ ResultsIn' = ResultsIn
<1>1. Recorded' = Recorded
    BY DEF Recorded
<1>2. ResultsIn' = ResultsIn
    BY DEF ResultsIn
<1>3. QED
    BY <1>1, <1>2

\* The file of results keeps its promise: whatever crashes, it holds all of a
\* session that came to its end, and of any other no more than its seed.
THEOREM CampaignKept == Spec => KeepsCampaign
<1>1. Init => Recorded = {} /\ ResultsIn = {}
    BY DEF Init, DbInit, Recorded, ResultsIn
<1>2. ASSUME CampaignInv, Ownership, [Next]_vars
      PROVE  UNCHANGED <<Recorded, ResultsIn>> \/ \E s \in Serials : Promise!Record(s) \/ Promise!Publish(s)
    <2>1. ASSUME disk' = disk PROVE UNCHANGED <<Recorded, ResultsIn>>
        BY <2>1 DEF Recorded, ResultsIn
    <2>2. CASE InitNewDb
        <3>1. disk' = disk \cup {V8Row} \/ disk' = disk \cup {SpiderMonkeyRow}
            BY <2>2 DEF InitNewDb, InsertV8, InsertSpiderMonkey
        <3>2. QED
            BY <3>1, Implementations, ListingHidden
    <2>3. CASE FlushSeed
        <3>1. pc = "flush" /\ disk' = disk \cup tx
            BY <2>3 DEF FlushSeed, Flush
        <3>2. DbInv /\ Announced
            BY <1>2, <3>1 DEF CampaignInv, Ownership
        <3>3. PICK s \in Serials : s = ids["seed"]
            BY <3>1, <3>2, FlushRecords
        <3>4. Promise!Record(s)
            BY <3>1, <3>2, <3>3, FlushRecords DEF Promise!Record, Recorded, ResultsIn
        <3>5. QED
            BY <3>4
    <2>4. CASE End
        <3>1. pc \in Holding /\ disk' = disk \cup tx
            BY <2>4 DEF End, Flush, Holding
        <3>2. DbInv /\ Unique /\ Held /\ ids["seed"] \in Serials
            BY <1>2, <3>1 DEF CampaignInv, Ownership, Held, Finds, DbInv, DbTypeOK
        <3>3. PICK s \in Serials : s = ids["seed"]
            BY <3>2
        <3>4. Promise!Publish(s)
            BY <3>1, <3>2, <3>3, EndPublishes DEF Promise!Publish, Recorded, ResultsIn
        <3>5. QED
            BY <3>4
    <2>5. CASE Finish
        <3>1. tx = {} /\ disk' = disk \cup tx
            BY <1>2, <2>5 DEF Finish, Close, Ownership
        <3>2. QED
            BY <2>1, <3>1
    <2>6. CASE MemStepDone
        <3>1. ~FlushDue /\ pc = "store"
            BY <1>2, <2>6, NeverDue DEF MemStepDone, CampaignInv
        <3>2. disk' = disk
            BY <2>6, <3>1 DEF MemStepDone, dbvars
        <3>3. QED
            BY <2>1, <3>2
    <2>7. CASE StoreSeed \/ StoreStep \/ StoreNext
        BY <2>1, <2>7 DEF StoreSeed, StoreStep, StoreNext, Store, Insert
    <2>8. CASE StartSession \/ Refused \/ Crash
        BY <2>1, <2>8 DEF StartSession, Open, Refused, Crash, Gone, DieOpen
    <2>9. CASE Popen \/ SendW \/ RunTesters \/ NextStep \/ SendQ
        BY <2>1, <2>9 DEF Popen, SendW, RunTesters, NextStep, SendQ, dbvars
    <2>10. CASE StartByHand \/ Type \/ Idle \/ UNCHANGED vars
        BY <2>1, <2>10 DEF StartByHand, Type, Idle, vars, dbvars
    <2>11. ASSUME NEW g \in Gens, Generator(g) PROVE UNCHANGED <<Recorded, ResultsIn>>
        BY <2>1, <2>11 DEF Generator, dbvars
    <2>12. QED
        BY <1>2, <2>2, <2>3, <2>4, <2>5, <2>6, <2>7, <2>8, <2>9, <2>10, <2>11 DEF Next, Coordinator
<1>3. Init => Promise!Init
    BY <1>1 DEF Promise!Init, Recorded, ResultsIn
<1>4. CampaignInv /\ Ownership /\ [Next]_vars => [Promise!Next]_<<{r.id : r \in {q \in disk : q.table = "seed_suites"}},
              UNION {{<<p.keys["seed_suites"], m.id>> :
                        m \in {r \in disk : r.table = "memory_steppings" /\ r.keys["steppings"] = p.id}} :
                    p \in {r \in disk : r.table = "steppings"}}>>
    BY <1>2 DEF Promise!Next, Recorded, ResultsIn
<1>5. QED
    BY <1>3, <1>4, OwnershipHolds, PTL DEF Spec, KeepsCampaign, Promise!Spec
=============================================================================
