---------------------------- MODULE FuzzerDbProofs ----------------------------
(***************************************************************************)
(* Theorems of DbSpec: the database, and any callers that keep to the      *)
(* serials it gave them, with any set of serials.                          *)
(***************************************************************************)
EXTENDS FuzzerDb, TLAPS

\* What the list of implementations is at every stage of the constructor.
Listed ==
    /\ file = FALSE => db = "closed" /\ disk = {} /\ ~cut
    /\ db \in {"new", "half"} => disk \subseteq {V8Row} /\ ~cut
    /\ db = "half" => V8Row \in disk
    /\ db # "open" => tx = {}
    /\ file /\ db \in {"closed", "open"} /\ ~cut => {V8Row, SpiderMonkeyRow} \subseteq disk

\* The inductive invariant: every key finds its row in the file alone, and
\* those of the transaction find theirs in the two together.
DbInv == DbTypeOK /\ Listed /\ KeysFound(disk) /\ KeysFound(disk \cup tx)

\* A row as it is found on disk or in the transaction.
RowOK(r) == r.table \in Tables /\ r = Row(r.table, r.id, r.keys) /\ r.id \in Serials /\ r.keys \in KeysOf(r.table)

\* The two rows of InitNewDb are rows of the table of implementations.
LEMMA Implementations ==
    /\ RowOK(V8Row) /\ RowOK(SpiderMonkeyRow)
    /\ DOMAIN V8Row.keys = {} /\ DOMAIN SpiderMonkeyRow.keys = {}
    /\ V8Row.table = "implementations" /\ SpiderMonkeyRow.table = "implementations"
    /\ V8Row.id = 1 /\ SpiderMonkeyRow.id = 2
<1>1. "implementations" \in Tables /\ ForeignKeys["implementations"] = {}
    BY DEF Tables, ForeignKeys
<1>2. [t \in {} |-> 0] \in KeysOf("implementations")
    BY <1>1 DEF KeysOf
<1>3. QED
    BY <1>1, <1>2, SerialsAssumption DEF RowOK, V8Row, SpiderMonkeyRow, Row

\* The serial of an insertion is a serial.
LEMMA NextIdIsSerial == ASSUME NEW t, Free(t) # {} PROVE NextId(t) \in Serials
BY DEF NextId, Free

\* More rows find more.
LEMMA FindsMore ==
    ASSUME NEW rows, NEW more, rows \subseteq more, NEW t, NEW id, Finds(rows, t, id)
    PROVE  Finds(more, t, id)
BY DEF Finds

\* The file starts without rows.
LEMMA DbInitInv == DbInit => DbInv
BY DEF DbInit, DbInv, DbTypeOK, Listed, KeysFound, Finds

\* The steps that move no row.
LEMMA OpenInv == DbInv /\ Open => DbInv'
BY DEF Open, DbInv, DbTypeOK, Listed, KeysFound, Finds

LEMMA FlushInv == DbInv /\ (Flush \/ Close) => DbInv'
BY DEF Flush, Close, DbInv, DbTypeOK, Listed, KeysFound, Finds

LEMMA DieInv == DbInv /\ DieOpen => DbInv'
BY DEF DieOpen, DbInv, DbTypeOK, Listed, KeysFound, Finds

\* The rows of InitNewDb refer to nothing.
LEMMA InsertV8Inv == DbInv /\ InsertV8 => DbInv'
BY Implementations DEF InsertV8, DbInv, DbTypeOK, Listed, KeysFound, Finds, RowOK

LEMMA InsertSpiderMonkeyInv == DbInv /\ InsertSpiderMonkey => DbInv'
BY Implementations DEF InsertSpiderMonkey, DbInv, DbTypeOK, Listed, KeysFound, Finds, RowOK

\* An insertion: its keys are found, by the legality of the call, by the list
\* of implementations, or by the enforcement of the keys.
LEMMA InsertInv ==
    ASSUME NEW t \in Tables \ {"implementations"}, NEW keys \in KeysOf(t), DbInv, Legal(keys), Insert(t, keys)
    PROVE  DbInv'
<1> DEFINE r == Row(t, NextId(t), keys)
<1>1. RowOK(r) /\ r.keys = keys
    BY NextIdIsSerial DEF RowOK, Row, Insert
<1>2. /\ db = "open" /\ tx' = tx \cup {r} /\ disk' = disk
      /\ UNCHANGED <<enforced, file, db, cut>>
    BY DEF Insert
<1> HIDE DEF r
<1>3. ASSUME NEW u \in DOMAIN keys
      PROVE  Finds(disk \cup tx, u, keys[u]) \/ (u = "implementations" /\ cut /\ ~enforced)
    <2>1. CASE u # "implementations"
        BY <2>1 DEF Legal
    <2>2. CASE u = "implementations" /\ cut
        BY <2>2 DEF Insert, Accepts, DbInv, DbTypeOK
    <2>3. CASE u = "implementations" /\ ~cut
        <3>1. keys[u] \in {1, 2}
            BY <2>3 DEF Legal
        <3>2. V8Row \in disk /\ SpiderMonkeyRow \in disk
            BY <2>3, <1>2 DEF DbInv, Listed, DbTypeOK
        <3>3. QED
            BY <3>1, <3>2, <2>3, Implementations DEF Finds
    <2>4. QED
        BY <2>1, <2>2, <2>3
<1>4. KeysFound(disk \cup tx)'
    <2> SUFFICES ASSUME NEW q \in disk \cup tx \cup {r}, NEW u \in DOMAIN q.keys
                 PROVE  Finds(disk \cup tx \cup {r}, u, q.keys[u]) \/ (u = "implementations" /\ cut /\ ~enforced)
        BY <1>2 DEF KeysFound, Finds
    <2>1. Finds(disk \cup tx, u, q.keys[u]) \/ (u = "implementations" /\ cut /\ ~enforced)
        BY <1>1, <1>3 DEF DbInv, KeysFound
    <2>2. QED
        BY <2>1, FindsMore
<1>5. DbTypeOK'
    BY <1>1, <1>2 DEF DbInv, DbTypeOK, RowOK
<1>6. Listed'
    BY <1>2 DEF DbInv, Listed
<1>7. KeysFound(disk)'
    BY <1>2 DEF DbInv, KeysFound, Finds
<1>8. QED
    BY <1>2, <1>4, <1>5, <1>6, <1>7 DEF DbInv

\* The invariant is inductive.
LEMMA DbNextInv == DbInv /\ [DbNext]_dbvars => DbInv'
<1>1. ASSUME DbInv, UNCHANGED dbvars PROVE DbInv'
    BY <1>1 DEF dbvars, DbInv, DbTypeOK, Listed, KeysFound, Finds
<1>2. QED
    BY <1>1, OpenInv, FlushInv, DieInv, InsertV8Inv, InsertSpiderMonkeyInv, InsertInv DEF DbNext

\* Whatever is inserted, flushed, closed or killed, and however often, the
\* variables keep their types.
THEOREM DbTypeCorrect == DbSpec => []DbTypeOK
<1>1. DbInv => DbTypeOK
    BY DEF DbInv
<1>2. QED
    BY <1>1, DbInitInv, DbNextInv, PTL DEF DbSpec

\* Entities: a process that dies at any point leaves a file in which every
\* foreign key finds its row, except those of implementations in a file whose
\* creation was cut short.
THEOREM KeysAlwaysHold == DbSpec => []KeysHold
<1>1. DbInv => KeysHold
    BY DEF DbInv, KeysHold
<1>2. QED
    BY <1>1, DbInitInv, DbNextInv, PTL DEF DbSpec

\* InitNewDb: an open database lists both implementations, unless a creation
\* was cut short.
THEOREM ImplementationsListed == DbSpec => []BothListed
<1>1. DbInv => BothListed
    BY DEF DbInv, Listed, BothListed
<1>2. QED
    BY <1>1, DbInitInv, DbNextInv, PTL DEF DbSpec
=============================================================================
