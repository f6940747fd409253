------------------------------- MODULE FuzzerDb -------------------------------
(***************************************************************************)
(* Entities: one SQLite file that many sessions open one after the other.  *)
(* The file and the list of implementations are made by autocommitted      *)
(* statements; everything after that is in a transaction, which Flush and  *)
(* ~Entities commit and the death of the process rolls back.               *)
(*                                                                         *)
(* A row is its table, its serial key and the rows its foreign keys name;  *)
(* the other columns are left out.  Whether SQLite enforces foreign keys   *)
(* is up to the library (external), so that both cases are checked.        *)
(***************************************************************************)
EXTENDS Integers, FiniteSets

CONSTANT Serials    \* bound: serial keys of a table

\* The tables each table refers to: specify_foreign.
ForeignKeys == [
    seed_suites      |-> {},
    steppings        |-> {"seed_suites"},
    memory_steppings |-> {"steppings"},
    implementations  |-> {},
    testcases        |-> {"memory_steppings", "implementations"},
    function_calls   |-> {"memory_steppings"},
    testcase_calls   |-> {"testcases", "function_calls"},
    memory_diffs     |-> {"testcase_calls"},
    global_diffs     |-> {"testcase_calls"},
    function_args    |-> {"function_calls"}]

Tables == DOMAIN ForeignKeys
Row(t, id, keys) == [table |-> t, id |-> id, keys |-> keys]
KeysOf(t) == [ForeignKeys[t] -> Serials]

V8Row == Row("implementations", 1, [t \in {} |-> 0])
SpiderMonkeyRow == Row("implementations", 2, [t \in {} |-> 0])

\* The numbers of Entities::ID are keys too; serial keys count from 1.
ASSUME SerialsAssumption == {1, 2} \subseteq Serials /\ 0 \notin Serials

VARIABLES
    enforced,   \* whether a row whose key finds no row is refused
    file,       \* the file exists
    db,         \* how far the constructor has come
    disk, tx,   \* rows committed, rows of the open transaction
    cut         \* history: a process died between making the file and filling it

dbvars == <<enforced, file, db, disk, tx, cut>>

DbInit ==
    /\ enforced \in BOOLEAN
    /\ file = FALSE /\ db = "closed" /\ disk = {} /\ tx = {} /\ cut = FALSE
-----------------------------------------------------------------------------
Finds(rows, t, id) == \E r \in rows : r.table = t /\ r.id = id

\* Mutant: the constructor opens the file before it asks whether it exists.
OpenFirst ==
    /\ db = "closed" /\ file' = TRUE /\ db' = "open"
    /\ UNCHANGED <<enforced, disk, tx, cut>>

\* exists(filename) comes first; opening the database makes the file and those
\* tables that are missing.
Open ==
    /\ db = "closed" /\ file' = TRUE
    /\ db' = IF file THEN "open" ELSE "new"
    /\ UNCHANGED <<enforced, disk, tx, cut>>

\* InitNewDb, statement by statement, and the transaction is opened.
InsertV8 ==
    /\ db = "new" /\ db' = "half"
    /\ disk' = disk \cup {V8Row}
    /\ UNCHANGED <<enforced, file, tx, cut>>

InsertSpiderMonkey ==
    /\ db = "half" /\ db' = "open"
    /\ disk' = disk \cup {SpiderMonkeyRow}
    /\ UNCHANGED <<enforced, file, tx, cut>>

Free(t) == {id \in Serials : ~Finds(disk \cup tx, t, id)}

\* The serial key quince returns: one that is not in use.
NextId(t) == CHOOSE id \in Free(t) : TRUE

Accepts(keys) == enforced => \A t \in DOMAIN keys : Finds(disk \cup tx, t, keys[t])

\* Mutant: a row is inserted outside the transaction.
InsertAtOnce(t, keys) ==
    /\ db = "open" /\ Free(t) # {} /\ Accepts(keys)
    /\ disk' = disk \cup {Row(t, NextId(t), keys)}
    /\ UNCHANGED <<enforced, file, db, tx, cut>>

\* StoreSeedConfig ... StoreGlobalDiff.
Insert(t, keys) ==
    /\ db = "open" /\ Free(t) # {} /\ Accepts(keys)
    /\ tx' = tx \cup {Row(t, NextId(t), keys)}
    /\ UNCHANGED <<enforced, file, db, disk, cut>>

Flush ==
    /\ db = "open" /\ disk' = disk \cup tx /\ tx' = {}
    /\ UNCHANGED <<enforced, file, db, cut>>

\* ~Entities.
Close ==
    /\ db = "open" /\ db' = "closed"
    /\ disk' = disk \cup tx /\ tx' = {}
    /\ UNCHANGED <<enforced, file, cut>>

\* The process dies, and the transaction with it.
DieOpen ==
    /\ db' = "closed" /\ tx' = {}
    /\ cut' = (cut \/ db \in {"new", "half"})
    /\ UNCHANGED <<enforced, file, disk>>

\* What a caller may pass: keys of rows it stored, and the two numbers of ID.
Legal(keys) ==
    \A t \in DOMAIN keys :
        IF t = "implementations" THEN keys[t] \in {1, 2} ELSE Finds(disk \cup tx, t, keys[t])

DbNext ==
    \/ Open \/ InsertV8 \/ InsertSpiderMonkey \/ Flush \/ Close \/ DieOpen
    \/ \E t \in Tables \ {"implementations"} : \E keys \in KeysOf(t) : Legal(keys) /\ Insert(t, keys)

\* The database, and callers that keep to the serials it gave them.
DbSpec == DbInit /\ [][DbNext]_dbvars
-----------------------------------------------------------------------------
(***************************************************************************)
(* Properties.                                                             *)
(***************************************************************************)
\* The variables of FuzzerDb have their types.
DbTypeOK ==
    /\ enforced \in BOOLEAN /\ file \in BOOLEAN /\ cut \in BOOLEAN
    /\ db \in {"closed", "new", "half", "open"}
    /\ \A r \in disk \cup tx :
          r.table \in Tables /\ r = Row(r.table, r.id, r.keys) /\ r.id \in Serials /\ r.keys \in KeysOf(r.table)

\* A foreign key finds its row; that of an implementation may dangle when an
\* earlier session left the list of implementations unfinished.
KeysFound(rows) ==
    \A r \in rows : \A t \in DOMAIN r.keys :
        Finds(rows, t, r.keys[t]) \/ (t = "implementations" /\ cut /\ ~enforced)

\* A crash at any point, in any session, leaves a file in which every foreign
\* key finds its row: only a creation that was cut short, in a library that
\* does not enforce keys, lets a test case name a missing implementation.
KeysHold == KeysFound(disk)

\* The list of implementations is whole in every open database, unless a
\* creation was cut short: it is written once, by whoever makes the file.
BothListed == db = "open" /\ ~cut => {V8Row, SpiderMonkeyRow} \subseteq disk
=============================================================================
