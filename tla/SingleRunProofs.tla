--------------------------- MODULE SingleRunProofs ---------------------------
(***************************************************************************)
(* Proofs about SingleRun, for every set of engines, every number of calls *)
(* and every module, memory file and stream of numbers.                    *)
(***************************************************************************)
EXTENDS SingleRun, FiniteSetTheorems, SequenceTheorems, WellFoundedInduction, TLAPS

(***************************************************************************)
(* The sorted list of functions.                                           *)
(***************************************************************************)
\* Every nonempty set of natural numbers has a least element.
LEMMA LeastNumber ==
    ASSUME NEW T, T \subseteq Nat, T # {}
    PROVE  \E x \in T : \A y \in T : x <= y
<1>1. \E x \in T : \A y \in T : <<y, x>> \notin OpToRel(<, Nat)
  BY NatLessThanWellFounded, WFMin
<1>2. \A x, y \in Nat : y < x => <<y, x>> \in OpToRel(<, Nat)
  BY Zenon DEF OpToRel
<1>3. PICK x \in T : \A y \in T : <<y, x>> \notin OpToRel(<, Nat)
  BY <1>1
<1>4. ASSUME NEW y \in T PROVE x <= y
  <2>1. x \in Nat /\ y \in Nat /\ ~(y < x)
    BY <1>2, <1>3
  <2> QED
    BY <2>1
<1> QED
  BY <1>4

\* A greater name comes earlier.
LEMMA RankFalls ==
    ASSUME NEW S, S \subseteq Nat, IsFiniteSet(S), NEW m \in S, NEW n \in S, m > n
    PROVE  Rank(m, S) \in Nat /\ Rank(n, S) \in Nat /\ Rank(m, S) < Rank(n, S)
<1> DEFINE A == {x \in S : x > m}
           B == {x \in S : x > n}
<1>1. IsFiniteSet(A) /\ IsFiniteSet(B)
  BY FS_Subset
<1>2. A \subseteq B /\ m \in B /\ m \notin A
  <2>1. m \in Nat /\ n \in Nat
    OBVIOUS
  <2>3. ~(m > m)
    BY <2>1
  <2>2. ASSUME NEW x \in S, x > m PROVE x > n
    <3>1. x \in Nat
      OBVIOUS
    <3> QED
      BY <2>1, <2>2, <3>1
  <2>4. A \subseteq B
    BY <2>2
  <2> QED
    BY <2>3, <2>4
<1>3. Cardinality(A) <= Cardinality(B) /\ (Cardinality(B) = Cardinality(A) => B = A)
  BY <1>1, <1>2, FS_Subset
<1>4. Cardinality(A) \in Nat /\ Cardinality(B) \in Nat
  BY <1>1, FS_CardinalityType
<1> QED
  BY <1>2, <1>3, <1>4 DEF Rank

\* There is a name at every index of the sorted list.
LEMMA RankReached ==
    ASSUME NEW S, S \subseteq Nat, IsFiniteSet(S), NEW k \in Nat, k < Cardinality(S)
    PROVE  \E n \in S : Rank(n, S) = k
<1> DEFINE Hi == {n \in S : Rank(n, S) < k}
           Lo == S \ Hi
<1>1. \A n \in S : Rank(n, S) \in Nat
  <2>1. \A n \in S : IsFiniteSet({x \in S : x > n})
    BY FS_Subset
  <2> QED
    BY <2>1, FS_CardinalityType DEF Rank
<1>2. IsFiniteSet(Hi) /\ Cardinality(Hi) <= k
  <2> DEFINE f == [n \in Hi |-> Rank(n, S)]
  <2>1. \A m, n \in Hi : f[m] = f[n] => m = n
    <3> SUFFICES ASSUME NEW m \in Hi, NEW n \in Hi, f[m] = f[n] PROVE m = n
      OBVIOUS
    <3>1. Rank(m, S) = Rank(n, S) /\ m \in Nat /\ n \in Nat /\ m \in S /\ n \in S
      OBVIOUS
    <3>2. ASSUME m > n PROVE FALSE
      <4>1. Rank(m, S) \in Nat /\ Rank(m, S) < Rank(n, S)
        BY <3>1, <3>2, RankFalls
      <4> QED
        BY <3>1, <4>1
    <3>3. ASSUME n > m PROVE FALSE
      <4>1. Rank(n, S) \in Nat /\ Rank(n, S) < Rank(m, S)
        BY <3>1, <3>3, RankFalls
      <4> QED
        BY <3>1, <4>1
    <3> QED
      BY <3>1, <3>2, <3>3
  <2>2. f \in Injection(Hi, 0..(k - 1))
    <3>1. ASSUME NEW n \in Hi PROVE Rank(n, S) \in 0..(k - 1)
      <4>1. Rank(n, S) \in Nat /\ Rank(n, S) < k
        BY <1>1
      <4> QED
        BY <4>1
    <3>2. f \in [Hi -> 0..(k - 1)]
      BY <3>1
    <3> QED
      BY <2>1, <3>2 DEF Injection, IsInjective
  <2>3. IsFiniteSet(0..(k - 1)) /\ Cardinality(0..(k - 1)) = k
    <3>1. k - 1 \in Int /\ 0 \in Int
      OBVIOUS
    <3>2. /\ IsFiniteSet(0..(k - 1))
          /\ Cardinality(0..(k - 1)) = IF 0 > k - 1 THEN 0 ELSE (k - 1) - 0 + 1
      BY <3>1, FS_Interval
    <3> QED
      BY <3>2
  <2>4. IsFiniteSet(Hi) /\ Cardinality(Hi) <= Cardinality(0..(k - 1))
    BY <2>2, <2>3, FS_Injection
  <2> QED
    BY <2>3, <2>4
<1>3. Lo # {}
  <2>1. ASSUME Lo = {} PROVE FALSE
    <3>1. Hi = S
      BY <2>1
    <3>2. Cardinality(S) \in Nat /\ Cardinality(S) <= k
      BY <1>2, <3>1, FS_CardinalityType
    <3> QED
      BY <3>2
  <2> QED
    BY <2>1
<1>4. PICK m \in Lo : \A n \in Lo : Rank(m, S) <= Rank(n, S)
  <2> DEFINE T == {Rank(n, S) : n \in Lo}
  <2>1. T \subseteq Nat /\ T # {}
    BY <1>1, <1>3
  <2>2. \E x \in T : \A y \in T : x <= y
    BY <2>1, LeastNumber
  <2> QED
    BY <2>2
<1>5. {x \in S : x > m} \subseteq Hi
  <2> SUFFICES ASSUME NEW x \in S, x > m, x \notin Hi PROVE FALSE
    OBVIOUS
  <2>1. Rank(x, S) < Rank(m, S) /\ Rank(x, S) \in Nat /\ Rank(m, S) \in Nat
    BY RankFalls
  <2>2. Rank(m, S) <= Rank(x, S)
    BY <1>4
  <2> QED
    BY <2>1, <2>2
<1>6. Rank(m, S) <= k
  <2>1. Cardinality({x \in S : x > m}) <= Cardinality(Hi)
    BY <1>2, <1>5, FS_Subset
  <2>2. Cardinality(Hi) \in Nat /\ Rank(m, S) \in Nat
    BY <1>1, <1>2, FS_CardinalityType
  <2> QED
    BY <1>2, <2>1, <2>2 DEF Rank
<1>7. m \in S /\ ~(Rank(m, S) < k) /\ Rank(m, S) \in Nat
  BY <1>1, <1>4
<1> QED
  BY <1>6, <1>7

\* The generator draws a bit pattern.
LEMMA DrawType ==
    ASSUME test \in Tests, NEW n \in Nat
    PROVE  Draw(n) \in Bits
<1>1. test.stream \in Seq(Bits) /\ Len(test.stream) \in Nat /\ Len(test.stream) > 0
  BY TestsAssumption, LenProperties
<1>2. n % Len(test.stream) \in Nat /\ n % Len(test.stream) < Len(test.stream)
  <2>1. \A d \in Nat : d > 0 => n % d \in Nat /\ n % d < d
    OBVIOUS
  <2> QED
    BY <1>1, <2>1, Zenon
<1>3. 1 + (n % Len(test.stream)) \in 1..Len(test.stream)
  <2>1. \A r, d \in Nat : r < d => 1 + r \in 1..d
    OBVIOUS
  <2> QED
    BY <1>1, <1>2, <2>1
<1> QED
  BY <1>1, <1>3, ElementOfSeq DEF Draw

\* The selected function is one of the module.
LEMMA SelectedIn ==
    ASSUME test \in Tests, Names(test) # {}, NEW e, NEW n \in Nat
    PROVE  Selected(e, Draw(n) % Cardinality(Names(test))) \in Names(test)
<1> DEFINE S == Names(test)
<1>1. S \subseteq Nat /\ IsFiniteSet(S)
  BY TestsAssumption
<1>2. Cardinality(S) \in Nat /\ Cardinality(S) # 0
  BY <1>1, FS_CardinalityType, FS_EmptySet
<1>3. Draw(n) \in Nat
  BY DrawType, ValuesAssumption
<1>4. Draw(n) % Cardinality(S) \in Nat /\ Draw(n) % Cardinality(S) < Cardinality(S)
  BY <1>2, <1>3
<1>5. \E x \in S : Rank(x, S) = Draw(n) % Cardinality(S)
  BY <1>1, <1>4, RankReached
<1> QED
  BY <1>5 DEF Selected, Nth
-----------------------------------------------------------------------------
(***************************************************************************)
(* What a sequence of differences says.                                    *)
(***************************************************************************)
\* One more difference: it says its own new values, and the others as before.
LEMMA SaysAppend ==
    ASSUME NEW n \in Nat, NEW D, NEW E, DOMAIN D = 1..n, DOMAIN E = 1..(n + 1),
           \A k \in 1..n : E[k] = D[k],
           NEW i, NEW first, NEW v, Says(D, i, first, v)
    PROVE  Says(E, i, first, IF i \in DOMAIN E[n + 1] THEN E[n + 1][i].new ELSE v)
<1>0. (n + 1) \in 1..(n + 1) /\ \A k \in 1..n : k \in 1..(n + 1) /\ ~(k > n + 1)
  OBVIOUS
<1>a. \A k \in 1..(n + 1) : k \in 1..n \/ k = n + 1
  OBVIOUS
<1>1. CASE i \in DOMAIN E[n + 1]
  <2>1. \A j \in DOMAIN E : ~(j > n + 1)
    OBVIOUS
  <2> QED
    BY <1>0, <1>1, <2>1 DEF Says
<1>2. CASE i \notin DOMAIN E[n + 1]
  <2>1. CASE v = first /\ \A k \in DOMAIN D : i \notin DOMAIN D[k]
    BY <1>a, <1>2, <2>1 DEF Says
  <2>2. ASSUME NEW k \in DOMAIN D, i \in DOMAIN D[k], v = D[k][i].new,
               \A j \in DOMAIN D : j > k => i \notin DOMAIN D[j]
        PROVE  Says(E, i, first, v)
    <3>1. k \in DOMAIN E /\ E[k] = D[k]
      BY <1>0
    <3>2. \A j \in DOMAIN E : j > k => i \notin DOMAIN E[j]
      BY <1>a, <1>2, <2>2
    <3> QED
      BY <2>2, <3>1, <3>2 DEF Says
  <2> QED
    BY <1>2, <2>1, <2>2 DEF Says
<1> QED
  BY <1>1, <1>2

\* Differences say one value.
LEMMA SaysOne ==
    ASSUME NEW n \in Nat, NEW D, DOMAIN D = 1..n, NEW i, NEW first, NEW v, NEW w,
           Says(D, i, first, v), Says(D, i, first, w)
    PROVE  v = w
<1>1. CASE \A k \in DOMAIN D : i \notin DOMAIN D[k]
  BY <1>1 DEF Says
<1>2. CASE \E k \in DOMAIN D : i \in DOMAIN D[k]
  <2>1. PICK a \in 1..n : /\ i \in DOMAIN D[a] /\ v = D[a][i].new
                          /\ \A j \in 1..n : j > a => i \notin DOMAIN D[j]
    BY <1>2, Zenon DEF Says
  <2>2. PICK b \in 1..n : /\ i \in DOMAIN D[b] /\ w = D[b][i].new
                          /\ \A j \in 1..n : j > b => i \notin DOMAIN D[j]
    BY <1>2, Zenon DEF Says
  <2>3. ~(b > a) /\ ~(a > b)
    BY <2>1, <2>2
  <2>4. a = b
    BY <2>3
  <2> QED
    BY <2>1, <2>2, <2>4
<1> QED
  BY <1>1, <1>2

\* No difference yet says the first value.
LEMMA SaysFirst == ASSUME NEW D, DOMAIN D = {}, NEW i, NEW first PROVE Says(D, i, first, first)
BY DEF Says

\* The copy after an update has what the difference says.
LEMMA UpdatedHas ==
    ASSUME NEW s, NEW d
    PROVE  /\ DOMAIN Updated(s, d) = DOMAIN s
           /\ \A i \in DOMAIN s : Updated(s, d)[i] = IF i \in DOMAIN d THEN d[i].new ELSE s[i]
BY DEF Updated

-----------------------------------------------------------------------------
(***************************************************************************)
(* Types.                                                                  *)
(***************************************************************************)
\* A function on 1..n is a sequence.
LEMMA FunctionIsSeq == ASSUME NEW S, NEW n \in Nat, NEW f \in [1..n -> S] PROVE f \in Seq(S) /\ Len(f) = n
BY SeqDef

LEMMA TestTypes ==
    ASSUME test \in Tests
    PROVE  /\ test.globals \in Nat /\ test.length \in Nat /\ test.limit \in Nat
           /\ test.file \in Seq(Bytes)
           /\ test.arity \in [Names(test) -> Nat]
           /\ \A i \in DOMAIN test.segments : test.segments[i] \in Bytes
BY TestsAssumption

\* A comparison of memory is a difference of bytes the file has.
LEMMA MemDiffType ==
    ASSUME NEW I, NEW s, DOMAIN s = I, \A i \in I : s[i] \in Bytes,
           NEW m \in Seq(Bytes)
    PROVE  MemDiff(s, m) \in Diffs(I, Bytes)
<1> DEFINE J == {j \in DOMAIN s \cap DOMAIN m : s[j] # m[j]}
<1>1. J \in SUBSET I
  OBVIOUS
<1>2. \A i \in J : s[i] \in Bytes /\ m[i] \in Bytes
  BY LenProperties, ElementOfSeq
<1>3. MemDiff(s, m) \in [J -> [old : Bytes, new : Bytes]]
  BY <1>2 DEF MemDiff
<1> QED
  BY <1>1, <1>3 DEF Diffs

LEMMA GlobDiffType ==
    ASSUME NEW I, NEW s, DOMAIN s = I, \A i \in I : s[i] \in Bits,
           NEW g, \A i \in I : g[i] \in Bits
    PROVE  GlobDiff(s, g) \in Diffs(I, Bits)
<1> DEFINE J == {j \in DOMAIN s : Denotes[s[j]] # Denotes[g[j]]}
<1>1. J \in SUBSET I
  OBVIOUS
<1>2. \A i \in J : s[i] \in Bits /\ g[i] \in Bits
  OBVIOUS
<1>3. GlobDiff(s, g) \in [J -> [old : Bits, new : Bits]]
  BY <1>2 DEF GlobDiff
<1> QED
  BY <1>1, <1>3 DEF Diffs

\* An update by a difference of the copy's own type keeps its type.
LEMMA UpdatedType ==
    ASSUME NEW Values, NEW s \in Seq(Values), NEW d \in Diffs(DOMAIN s, Values)
    PROVE  Updated(s, d) \in Seq(Values)
<1>1. Len(s) \in Nat /\ DOMAIN s = 1..Len(s) /\ \A i \in 1..Len(s) : s[i] \in Values
  BY LenProperties, ElementOfSeq
<1>2. PICK J \in SUBSET DOMAIN s : d \in [J -> [old : Values, new : Values]]
  BY DEF Diffs
<1>3. Updated(s, d) \in [1..Len(s) -> Values]
  BY <1>1, <1>2 DEF Updated
<1> QED
  BY <1>1, <1>3, FunctionIsSeq
-----------------------------------------------------------------------------
(***************************************************************************)
(* An iteration of the loop.                                               *)
(***************************************************************************)
\* What a tester does in an iteration: it makes a record and a new state.
Step(e, record, after) ==
    /\ pc[e] = "loop" /\ Len(log[e]) < Count /\ test' = test /\ pc' = pc
    /\ record \in Records /\ after \in [mem : Seq(Bytes), glob : Seq(Bits)]
    /\ record.at = next[e]
    /\ record.fn = Selected(e, Draw(next[e]) % Cardinality(Names(test)))
    /\ record.mem = MemDiff(memory[e], after.mem)
    /\ record.glob = GlobDiff(global_state[e], after.glob)
    /\ DOMAIN after.glob = 1..test.globals
    /\ next' = [next EXCEPT ![e] = After(record)]
    /\ mem' = [mem EXCEPT ![e] = after.mem]
    /\ glob' = [glob EXCEPT ![e] = after.glob]
    /\ memory' = [memory EXCEPT ![e] = Updated(memory[e], record.mem)]
    /\ global_state' = [global_state EXCEPT ![e] = Updated(global_state[e], record.glob)]
    /\ log' = [log EXCEPT ![e] = Append(log[e], record)]
    /\ past' = [past EXCEPT ![e] = Append(past[e], after)]

LEMMA Iterated ==
    ASSUME TypeOK, NEW e \in Engines, CopyInv(e), Iterate(e)
    PROVE  \E record, after : Step(e, record, after)
<1> DEFINE fn == Selected(e, Draw(next[e]) % Cardinality(Names(test)))
<1>1. PICK after \in Outcomes(e) :
        LET memdiff == MemDiff(memory[e], after.mem)
            globdiff == GlobDiff(global_state[e], after.glob)
        IN /\ next' = [next EXCEPT ![e] = @ + 1 + test.arity[fn]]
           /\ mem' = [mem EXCEPT ![e] = after.mem]
           /\ glob' = [glob EXCEPT ![e] = after.glob]
           /\ memory' = [memory EXCEPT ![e] = Updated(@, memdiff)]
           /\ global_state' = [global_state EXCEPT ![e] = Updated(@, globdiff)]
           /\ log' = [log EXCEPT ![e] = Append(@, [at |-> next[e], fn |-> fn, mem |-> memdiff, glob |-> globdiff])]
           /\ past' = [past EXCEPT ![e] = Append(@, after)]
  BY DEF Iterate, CallAndLog
<1> DEFINE record == [at |-> next[e], fn |-> fn, mem |-> MemDiff(memory[e], after.mem),
                      glob |-> GlobDiff(global_state[e], after.glob)]
<1>2. /\ pc[e] = "loop" /\ Len(log[e]) < Count /\ test' = test /\ pc' = pc
      /\ Names(test) # {} /\ test \in Tests /\ next[e] \in Nat
      /\ mem[e] \in Seq(Bytes) /\ memory[e] \in Seq(Bytes) /\ global_state[e] \in Seq(Bits)
  BY DEF Iterate, CallAndLog, TypeOK
<1>3. after.mem \in Seq(Bytes) /\ after.glob \in [1..test.globals -> Bits]
  <2>1. Len(mem[e]) \in Nat /\ test.limit \in Nat
    BY <1>2, LenProperties, TestTypes
  <2>2. after.glob \in [1..test.globals -> Bits]
    BY DEF Outcomes
  <2>3. PICK n \in Len(mem[e])..test.limit : after.mem \in [1..n -> Bytes]
    BY DEF Outcomes
  <2>4. n \in Nat
    BY <2>1
  <2> QED
    BY <2>2, <2>3, <2>4, FunctionIsSeq
<1>4. after.glob \in Seq(Bits)
  BY <1>2, <1>3, FunctionIsSeq, TestTypes
<1>5. /\ DOMAIN memory[e] = DOMAIN test.file /\ DOMAIN global_state[e] = 1..test.globals
  BY <1>2 DEF CopyInv, Copied
<1>6. MemDiff(memory[e], after.mem) \in Diffs(DOMAIN test.file, Bytes)
  <2>1. \A i \in DOMAIN test.file : memory[e][i] \in Bytes
    BY <1>2, <1>5, LenProperties, ElementOfSeq
  <2> QED
    BY <1>3, <1>5, <2>1, MemDiffType
<1>7. GlobDiff(global_state[e], after.glob) \in Diffs(1..test.globals, Bits)
  <2>1. \A i \in 1..test.globals : global_state[e][i] \in Bits
    BY <1>2, <1>5, LenProperties, ElementOfSeq
  <2>2. \A i \in 1..test.globals : after.glob[i] \in Bits
    BY <1>3
  <2> QED
    BY <1>5, <2>1, <2>2, GlobDiffType
<1>8. fn \in Names(test)
  BY <1>2, SelectedIn
<1>9. record \in Records
  BY <1>2, <1>6, <1>7, <1>8 DEF Records
<1>10. after \in [mem : Seq(Bytes), glob : Seq(Bits)]
  BY <1>3, <1>4 DEF Outcomes
<1>11. next[e] + 1 + test.arity[fn] = After(record)
  BY DEF After
<1>12. Step(e, record, after)
  BY <1>1, <1>2, <1>3, <1>9, <1>10, <1>11 DEF Step
<1> QED
  BY <1>12

\* How a log and its history grow.
LEMMA Grown ==
    ASSUME TypeOK, NEW e \in Engines, NEW record, NEW after, Step(e, record, after)
    PROVE  LET n == Len(log[e]) IN
           /\ n \in Nat /\ Len(past[e]) = n /\ n + 1 \in Nat \ {0}
           /\ DOMAIN log[e] = 1..n /\ DOMAIN past[e] = 1..n
           /\ Len(log'[e]) = n + 1 /\ Len(past'[e]) = n + 1
           /\ DOMAIN log'[e] = 1..(n + 1) /\ DOMAIN past'[e] = 1..(n + 1)
           /\ \A k \in 1..n : log'[e][k] = log[e][k] /\ past'[e][k] = past[e][k]
           /\ log'[e][n + 1] = record /\ past'[e][n + 1] = after
           /\ \A k \in 1..(n + 1) : k \in 1..n \/ k = n + 1
           /\ \A k \in 1..n : k \in 1..(n + 1) /\ k # n + 1
           /\ n + 1 \in 1..(n + 1)
           /\ \A o \in Engines \ {e} : log'[o] = log[o] /\ past'[o] = past[o]
           /\ log'[e] # <<>> /\ (log[e] = <<>> <=> n = 0)
           /\ log'[e] \in Seq(Records) /\ past'[e] \in Seq([mem : Seq(Bytes), glob : Seq(Bits)])
<1> DEFINE Past == [mem : Seq(Bytes), glob : Seq(Bits)]
<1>1. /\ log[e] \in Seq(Records) /\ past[e] \in Seq(Past) /\ Len(past[e]) = Len(log[e])
      /\ record \in Records /\ after \in Past
      /\ log'[e] = Append(log[e], record) /\ past'[e] = Append(past[e], after)
      /\ \A o \in Engines \ {e} : log'[o] = log[o] /\ past'[o] = past[o]
  BY DEF TypeOK, Step
<1>2. Len(log[e]) \in Nat /\ DOMAIN log[e] = 1..Len(log[e]) /\ DOMAIN past[e] = 1..Len(log[e])
  BY <1>1, LenProperties
<1>3. /\ log'[e] \in Seq(Records) /\ past'[e] \in Seq(Past)
      /\ Len(log'[e]) = Len(log[e]) + 1 /\ Len(past'[e]) = Len(log[e]) + 1
      /\ \A k \in 1..Len(log[e]) : log'[e][k] = log[e][k] /\ past'[e][k] = past[e][k]
      /\ log'[e][Len(log[e]) + 1] = record /\ past'[e][Len(log[e]) + 1] = after
  <2> HIDE DEF Past
  <2>1. /\ log'[e] \in Seq(Records) /\ Len(log'[e]) = Len(log[e]) + 1
        /\ \A k \in 1..Len(log[e]) : log'[e][k] = log[e][k]
        /\ log'[e][Len(log[e]) + 1] = record
    BY <1>1, AppendProperties
  <2>2. /\ past'[e] \in Seq(Past) /\ Len(past'[e]) = Len(past[e]) + 1
        /\ \A k \in 1..Len(past[e]) : past'[e][k] = past[e][k]
        /\ past'[e][Len(past[e]) + 1] = after
    BY <1>1, AppendProperties
  <2> QED
    BY <1>1, <2>1, <2>2
<1>4. DOMAIN log'[e] = 1..(Len(log[e]) + 1) /\ DOMAIN past'[e] = 1..(Len(log[e]) + 1)
  BY <1>3, LenProperties
<1>5. (log[e] = <<>> <=> Len(log[e]) = 0) /\ log'[e] # <<>>
  <2>1. log'[e] # <<>>
    <3>1. Len(log'[e]) # 0
      BY <1>2, <1>3
    <3> QED
      BY <3>1, EmptySeq
  <2>2. ASSUME log[e] = <<>> PROVE Len(log[e]) = 0
    BY <2>2, EmptySeq
  <2>3. ASSUME Len(log[e]) = 0 PROVE log[e] = <<>>
    BY <1>1, <2>3, EmptySeq
  <2> QED
    BY <2>1, <2>2, <2>3
<1>6. \A n \in Nat : /\ n + 1 \in Nat \ {0}
                     /\ \A k \in 1..(n + 1) : k \in 1..n \/ k = n + 1
                     /\ \A k \in 1..n : k \in 1..(n + 1) /\ k # n + 1
                     /\ n + 1 \in 1..(n + 1)
  OBVIOUS
<1> HIDE DEF Past
<1> QED
  BY <1>1, <1>2, <1>3, <1>4, <1>5, <1>6 DEF Past
-----------------------------------------------------------------------------
(***************************************************************************)
(* What a step leaves alone.                                               *)
(***************************************************************************)
\* The records of a tester stay what they are.
LEMMA RecordsStay ==
    ASSUME NEW e, test' = test, log'[e] = log[e], past'[e] = past[e], RecordInv(e)
    PROVE  RecordInv(e)'
BY DEF RecordInv, Draw

\* Nothing about a tester changes while its variables stay.
LEMMA TesterStays ==
    ASSUME NEW e, test' = test, pc'[e] = pc[e], next'[e] = next[e],
           mem'[e] = mem[e], glob'[e] = glob[e], memory'[e] = memory[e],
           global_state'[e] = global_state[e], log'[e] = log[e], past'[e] = past[e],
           DrawInv(e), CopyInv(e), RecordInv(e)
    PROVE  DrawInv(e)' /\ CopyInv(e)' /\ RecordInv(e)'
<1>1. DrawInv(e)'
  BY DEF DrawInv, Draw, Selected, Names, After
<1>2. CopyInv(e)'
  BY DEF CopyInv, Copied, Draw
<1>3. RecordInv(e)'
  BY RecordsStay
<1> QED
  BY <1>1, <1>2, <1>3

\* A step that writes no record has only its own tester to look after.
LEMMA QuietStep ==
    ASSUME IInv, NEW e \in Engines, TypeOK', DrawInv(e)', CopyInv(e)',
           test' = test, log' = log, past' = past,
           \A o \in Engines \ {e} :
               /\ pc'[o] = pc[o] /\ next'[o] = next[o] /\ mem'[o] = mem[o] /\ glob'[o] = glob[o]
               /\ memory'[o] = memory[o] /\ global_state'[o] = global_state[o]
    PROVE  IInv'
<1>1. SameCalls' /\ NoFalseAlarm'
  BY DEF IInv, SameCalls, NoFalseAlarm
<1>2. ASSUME NEW o \in Engines PROVE DrawInv(o)' /\ CopyInv(o)' /\ RecordInv(o)'
  <2>1. DrawInv(o) /\ CopyInv(o) /\ RecordInv(o)
    BY DEF IInv
  <2>2. CASE o = e
    BY <2>1, <2>2, RecordsStay
  <2>3. CASE o # e
    BY <2>1, <2>3, TesterStays
  <2> QED
    BY <2>2, <2>3
<1> QED
  BY <1>1, <1>2 DEF IInv
-----------------------------------------------------------------------------
(***************************************************************************)
(* The steps that write no record.                                         *)
(***************************************************************************)
\* Initially nothing was logged.
LEMMA InitIInv == Init => IInv
<1> SUFFICES ASSUME Init PROVE IInv
  OBVIOUS
<1>1. \A e \in Engines : log[e] = <<>> /\ past[e] = <<>> /\ next[e] = 0 /\ pc[e] = "start"
  BY DEF Init
<1>2. Len(<<>>) = 0 /\ DOMAIN <<>> = {}
  BY EmptySeq
<1>3. TypeOK
  <2>1. \A S : <<>> \in Seq(S)
    BY EmptySeq
  <2>2. Count \in Nat
    BY ValuesAssumption
  <2>3. \A e \in Engines : Len(log[e]) <= Count /\ Len(past[e]) = Len(log[e])
    BY <1>1, <1>2, <2>2
  <2> QED
    BY <2>1, <2>3 DEF Init, TypeOK
<1>4. \A e \in Engines : DrawInv(e) /\ CopyInv(e) /\ RecordInv(e)
  BY <1>1, <1>2 DEF DrawInv, CopyInv, Copied, RecordInv
<1>5. SameCalls /\ NoFalseAlarm
  BY <1>1, <1>2 DEF SameCalls, NoFalseAlarm
<1> QED
  BY <1>3, <1>4, <1>5 DEF IInv

LEMMA InitializeModuleKeeps == ASSUME IInv, NEW e \in Engines, InitializeModule(e) PROVE IInv'
<1>1. TypeOK /\ DrawInv(e) /\ CopyInv(e)
  BY DEF IInv
<1>2. /\ pc[e] = "start" /\ pc'[e] \in {"load", "failed"} /\ \A o \in Engines \ {e} : pc'[o] = pc[o]
      /\ test' = test /\ next' = next /\ mem' = mem /\ glob' = glob /\ memory' = memory
      /\ global_state' = global_state /\ log' = log /\ past' = past
  BY <1>1 DEF InitializeModule, Goto, TypeOK
<1>3. TypeOK'
  BY <1>1 DEF InitializeModule, Goto, TypeOK, Records, Names
<1>4. log[e] = <<>> /\ next[e] = 0
  BY <1>1, <1>2 DEF DrawInv
<1>5. DrawInv(e)' /\ CopyInv(e)'
  BY <1>2, <1>4, EmptySeq DEF DrawInv, CopyInv, Copied
<1> QED
  BY <1>2, <1>3, <1>5, QuietStep

LEMMA LoadMemoryKeeps == ASSUME IInv, NEW e \in Engines, LoadMemory(e) PROVE IInv'
<1>1. TypeOK /\ DrawInv(e) /\ CopyInv(e)
  BY DEF IInv
<1>2. PICK m \in Imported : mem' = [mem EXCEPT ![e] = m]
  BY DEF LoadMemory
<1>3. m \in Seq(Bytes) /\ test.file \in Seq(Bytes)
  BY <1>1, TestTypes, FunctionIsSeq DEF Imported, TypeOK
<1>4. /\ pc[e] = "load" /\ pc'[e] = "instantiate" /\ memory'[e] = test.file
      /\ test' = test /\ next' = next /\ glob' = glob
      /\ global_state' = global_state /\ log' = log /\ past' = past
      /\ \A o \in Engines \ {e} : pc'[o] = pc[o] /\ mem'[o] = mem[o] /\ memory'[o] = memory[o]
  BY <1>1, <1>2 DEF LoadMemory, Goto, TypeOK
<1>5. TypeOK'
  BY <1>1, <1>2, <1>3 DEF LoadMemory, Goto, TypeOK, Records, Names
<1>6. log[e] = <<>> /\ next[e] = 0
  BY <1>1, <1>4 DEF DrawInv, CopyInv, Copied
<1>7. DrawInv(e)' /\ CopyInv(e)'
  BY <1>4, <1>6, EmptySeq DEF DrawInv, CopyInv, Copied
<1> QED
  BY <1>4, <1>5, <1>7, QuietStep

LEMMA InitializeExecutionKeeps == ASSUME IInv, NEW e \in Engines, InitializeExecution(e) PROVE IInv'
<1> DEFINE m == [i \in DOMAIN mem[e] |-> IF i \in DOMAIN test.segments THEN test.segments[i] ELSE mem[e][i]]
<1>1. TypeOK /\ DrawInv(e) /\ CopyInv(e)
  BY DEF IInv
<1>2. m \in Seq(Bytes)
  <2>1. Len(mem[e]) \in Nat /\ DOMAIN mem[e] = 1..Len(mem[e]) /\ \A i \in 1..Len(mem[e]) : mem[e][i] \in Bytes
    BY <1>1, LenProperties, ElementOfSeq DEF TypeOK
  <2>2. m \in [1..Len(mem[e]) -> Bytes]
    BY <1>1, <2>1, TestTypes DEF TypeOK
  <2> QED
    BY <2>1, <2>2, FunctionIsSeq
<1>3. mem' = [mem EXCEPT ![e] = m] \/ mem' = mem
  BY DEF InitializeExecution
<1>4. /\ pc[e] = "instantiate" /\ pc'[e] \in {"globals", "failed"}
      /\ pc' \in [Engines -> {"start", "load", "instantiate", "globals", "loop", "done", "failed", "crashed"}]
      /\ test' = test /\ next' = next /\ glob' = glob /\ memory' = memory
      /\ global_state' = global_state /\ log' = log /\ past' = past
      /\ \A o \in Engines \ {e} : pc'[o] = pc[o] /\ mem'[o] = mem[o]
  BY <1>1, <1>3 DEF InitializeExecution, Goto, TypeOK
<1> HIDE DEF m
<1>5. mem' \in [Engines -> Seq(Bytes)]
  BY <1>1, <1>2, <1>3 DEF TypeOK
<1>6. TypeOK'
  BY <1>1, <1>4, <1>5 DEF TypeOK, Records, Names
<1>7. log[e] = <<>> /\ next[e] = 0 /\ memory[e] = test.file
  BY <1>1, <1>4 DEF DrawInv, CopyInv
<1>8. DrawInv(e)' /\ CopyInv(e)'
  BY <1>4, <1>7, EmptySeq DEF DrawInv, CopyInv, Copied
<1> QED
  BY <1>4, <1>6, <1>8, QuietStep

LEMMA SetGlobalsKeeps == ASSUME IInv, NEW e \in Engines, SetGlobals(e) PROVE IInv'
<1> DEFINE init == [g \in 1..test.globals |-> Draw(next[e] + g - 1)]
<1>1. TypeOK /\ DrawInv(e) /\ CopyInv(e) /\ test \in Tests /\ test.globals \in Nat
  BY TestTypes DEF IInv, TypeOK
<1>2. /\ pc[e] = "globals" /\ pc'[e] = "loop" /\ glob'[e] = init /\ global_state'[e] = init
      /\ next'[e] = next[e] + test.globals
      /\ test' = test /\ mem' = mem /\ memory' = memory /\ log' = log /\ past' = past
      /\ \A o \in Engines \ {e} : /\ pc'[o] = pc[o] /\ next'[o] = next[o]
                                  /\ glob'[o] = glob[o] /\ global_state'[o] = global_state[o]
  BY <1>1 DEF SetGlobals, Goto, TypeOK
<1>3. log[e] = <<>> /\ next[e] = 0 /\ memory[e] = test.file
  BY <1>1, <1>2 DEF DrawInv, CopyInv
<1>4. \A g \in 1..test.globals : init[g] = Draw(g - 1) /\ g - 1 \in Nat
  BY <1>1, <1>3
<1>5. init \in Seq(Bits)
  <2>1. init \in [1..test.globals -> Bits]
    BY <1>1, <1>4, DrawType
  <2> QED
    BY <1>1, <2>1, FunctionIsSeq
<1>6. DOMAIN init = 1..test.globals
  OBVIOUS
<1>7. glob' = [glob EXCEPT ![e] = init] /\ global_state' = [global_state EXCEPT ![e] = init]
  BY DEF SetGlobals
<1> HIDE DEF init
<1>8. TypeOK'
  <2>1. next' \in [Engines -> Nat]
    BY <1>1 DEF SetGlobals, TypeOK
  <2>2. glob' \in [Engines -> Seq(Bits)] /\ global_state' \in [Engines -> Seq(Bits)]
    BY <1>1, <1>5, <1>7 DEF TypeOK
  <2>3. pc' \in [Engines -> {"start", "load", "instantiate", "globals", "loop", "done", "failed", "crashed"}]
    BY <1>1 DEF SetGlobals, Goto, TypeOK
  <2> QED
    BY <1>1, <1>2, <2>1, <2>2, <2>3 DEF TypeOK, Records, Names
<1>9. DrawInv(e)'
  BY <1>1, <1>2, <1>3, EmptySeq DEF DrawInv
<1>10. CopyInv(e)'
  <2>1. Len(log[e]) = 0 /\ DOMAIN MemDiffs(log[e], 0) = {} /\ DOMAIN GlobDiffs(log[e], 0) = {}
    BY <1>3, EmptySeq DEF MemDiffs, GlobDiffs
  <2>2. \A i \in DOMAIN test.file : Says(MemDiffs(log[e], Len(log[e])), i, test.file[i], memory[e][i])
    BY <1>3, <2>1, SaysFirst
  <2>3. \A g \in 1..test.globals : Says(GlobDiffs(log[e], Len(log[e])), g, Draw(g - 1), init[g])
    BY <1>4, <2>1, SaysFirst
  <2> QED
    BY <1>2, <1>3, <1>6, <2>2, <2>3 DEF CopyInv, Draw
<1> QED
  BY <1>2, <1>8, <1>9, <1>10, QuietStep

\* A tester that returns, or dies, leaves what it has logged.
LEMMA EndKeeps == ASSUME IInv, NEW e \in Engines, Finish(e) \/ Crash(e) PROVE IInv'
<1>1. TypeOK /\ DrawInv(e) /\ CopyInv(e)
  BY DEF IInv
<1>2. /\ pc'[e] \in {"done", "crashed"} /\ \A o \in Engines \ {e} : pc'[o] = pc[o]
      /\ test' = test /\ next' = next /\ mem' = mem /\ glob' = glob /\ memory' = memory
      /\ global_state' = global_state /\ log' = log /\ past' = past
  BY <1>1 DEF Finish, Crash, Goto, TypeOK
<1>3. TypeOK'
  BY <1>1 DEF Finish, Crash, Goto, TypeOK, Records, Names
<1>4. DrawInv(e)'
  BY <1>1, <1>2 DEF DrawInv, Draw, Selected, Names, After
<1>5. CopyInv(e)'
  BY <1>1, <1>2 DEF CopyInv, Copied, Draw
<1> QED
  BY <1>2, <1>3, <1>4, <1>5, QuietStep
-----------------------------------------------------------------------------
(***************************************************************************)
(* The step that writes one.                                               *)
(***************************************************************************)
LEMMA StepTypes ==
    ASSUME IInv, NEW e \in Engines, NEW record, NEW after, Step(e, record, after)
    PROVE  TypeOK'
<1>1. TypeOK /\ CopyInv(e) /\ test \in Tests
  BY DEF IInv, TypeOK
<1>2. After(record) \in Nat
  <2>1. record.at \in Nat /\ record.fn \in Names(test)
    BY DEF Step, Records
  <2>2. test.arity[record.fn] \in Nat
    BY <1>1, <2>1, TestTypes
  <2> QED
    BY <2>1, <2>2 DEF After
<1>3. Updated(memory[e], record.mem) \in Seq(Bytes)
  <2>1. memory[e] \in Seq(Bytes) /\ DOMAIN memory[e] = DOMAIN test.file
    BY <1>1 DEF TypeOK, CopyInv, Copied, Step
  <2>2. record.mem \in Diffs(DOMAIN test.file, Bytes)
    BY DEF Step, Records
  <2> QED
    BY <2>1, <2>2, UpdatedType
<1>4. Updated(global_state[e], record.glob) \in Seq(Bits)
  <2>1. global_state[e] \in Seq(Bits) /\ DOMAIN global_state[e] = 1..test.globals
    BY <1>1 DEF TypeOK, CopyInv, Copied, Step
  <2>2. record.glob \in Diffs(1..test.globals, Bits)
    BY DEF Step, Records
  <2> QED
    BY <2>1, <2>2, UpdatedType
<1>5. log' \in [Engines -> Seq(Records)] /\ past' \in [Engines -> Seq([mem : Seq(Bytes), glob : Seq(Bits)])]
  BY <1>1, Grown DEF TypeOK, Step
<1>6. \A o \in Engines : Len(log'[o]) <= Count /\ Len(past'[o]) = Len(log'[o])
  <2>1. Len(log'[e]) = Len(log[e]) + 1 /\ Len(past'[e]) = Len(log[e]) + 1 /\ Len(log[e]) \in Nat
    BY <1>1, Grown
  <2>2. Len(log[e]) < Count /\ Count \in Nat
    BY ValuesAssumption DEF Step
  <2>3. \A o \in Engines \ {e} : log'[o] = log[o] /\ past'[o] = past[o]
    BY <1>1, Grown
  <2>4. \A o \in Engines : Len(log[o]) <= Count /\ Len(past[o]) = Len(log[o])
    BY <1>1 DEF TypeOK
  <2>5. Len(log'[e]) <= Count
    BY <2>1, <2>2
  <2> QED
    BY <2>1, <2>3, <2>4, <2>5
<1>7. /\ next' \in [Engines -> Nat] /\ mem' \in [Engines -> Seq(Bytes)] /\ memory' \in [Engines -> Seq(Bytes)]
      /\ glob' \in [Engines -> Seq(Bits)] /\ global_state' \in [Engines -> Seq(Bits)]
  BY <1>1, <1>2, <1>3, <1>4 DEF TypeOK, Step
<1>8. test' = test /\ pc' = pc
  BY DEF Step
<1> QED
  BY <1>1, <1>5, <1>6, <1>7, <1>8 DEF TypeOK, Records, Names

\* The generator goes on where the last record ends.
LEMMA StepDraws ==
    ASSUME IInv, NEW e \in Engines, NEW record, NEW after, Step(e, record, after)
    PROVE  DrawInv(e)'
<1> DEFINE n == Len(log[e])
<1>1. TypeOK /\ DrawInv(e) /\ test' = test /\ pc[e] = "loop" /\ pc' = pc
      /\ next'[e] = After(record) /\ record.at = next[e]
      /\ record.fn = Selected(e, Draw(record.at) % Cardinality(Names(test)))
  BY DEF IInv, Step, TypeOK
<1>2. /\ n \in Nat /\ DOMAIN log[e] = 1..n /\ DOMAIN log'[e] = 1..(n + 1) /\ Len(log'[e]) = n + 1
      /\ \A k \in 1..n : log'[e][k] = log[e][k]
      /\ log'[e][n + 1] = record
      /\ \A k \in 1..(n + 1) : k \in 1..n \/ k = n + 1
      /\ log'[e] # <<>> /\ (log[e] = <<>> <=> n = 0)
  BY <1>1, Grown
<1> HIDE DEF n
<1>3. log'[e][1].at = test.globals
  <2>1. CASE n = 0
    BY <1>1, <1>2, <2>1 DEF DrawInv
  <2>2. CASE n # 0
    <3>1. 1 \in 1..n
      BY <1>2, <2>2
    <3> QED
      BY <1>1, <1>2, <2>2, <3>1 DEF DrawInv
  <2> QED
    BY <2>1, <2>2
<1>4. ASSUME NEW k \in 1..(n + 1)
      PROVE  /\ log'[e][k].fn = Selected(e, Draw(log'[e][k].at) % Cardinality(Names(test)))
             /\ k > 1 => log'[e][k].at = After(log'[e][k - 1])
  <2>1. CASE k \in 1..n
    <3>1. k > 1 => k - 1 \in 1..n
      BY <1>2, <2>1
    <3> QED
      BY <1>1, <1>2, <2>1, <3>1 DEF DrawInv
  <2>2. CASE k = n + 1
    <3>1. ASSUME k > 1 PROVE log'[e][k].at = After(log'[e][k - 1])
      <4>1. n \in 1..n /\ n # 0 /\ k - 1 = n
        BY <1>2, <2>2, <3>1
      <4>2. next[e] = After(log[e][n])
        BY <1>1, <1>2, <4>1 DEF DrawInv, n
      <4> QED
        BY <1>1, <1>2, <2>2, <4>1, <4>2
    <3> QED
      BY <1>1, <1>2, <2>2, <3>1
  <2> QED
    BY <1>2, <2>1, <2>2
<1>5. next'[e] = After(log'[e][Len(log'[e])])
  BY <1>1, <1>2
<1> QED
  BY <1>1, <1>2, <1>3, <1>4, <1>5 DEF DrawInv, Draw, Selected, Names, After

\* Logs that agree on their first records have the same differences there.
LEMMA SamePrefix ==
    ASSUME NEW n \in Nat, NEW l, NEW r, \A k \in 1..n : l[k] = r[k], NEW m \in 0..n
    PROVE  MemDiffs(l, m) = MemDiffs(r, m) /\ GlobDiffs(l, m) = GlobDiffs(r, m)
<1>1. \A k \in 1..m : l[k] = r[k]
  <2>1. \A k \in 1..m : k \in 1..n
    OBVIOUS
  <2> QED
    BY <2>1
<1> QED
  BY <1>1 DEF MemDiffs, GlobDiffs

LEMMA StepCopies ==
    ASSUME IInv, NEW e \in Engines, NEW record, NEW after, Step(e, record, after)
    PROVE  CopyInv(e)'
<1> DEFINE n == Len(log[e])
<1>1. TypeOK /\ CopyInv(e) /\ test' = test /\ pc[e] = "loop" /\ pc' = pc
      /\ mem'[e] = after.mem /\ glob'[e] = after.glob /\ DOMAIN after.glob = 1..test.globals
      /\ memory'[e] = Updated(memory[e], record.mem)
      /\ global_state'[e] = Updated(global_state[e], record.glob)
      /\ record.mem = MemDiff(memory[e], after.mem) /\ record.glob = GlobDiff(global_state[e], after.glob)
  BY DEF IInv, Step, TypeOK
<1>2. /\ DOMAIN memory[e] = DOMAIN test.file /\ DOMAIN global_state[e] = 1..test.globals
      /\ \A i \in DOMAIN test.file : Says(MemDiffs(log[e], n), i, test.file[i], memory[e][i])
      /\ \A g \in 1..test.globals : Says(GlobDiffs(log[e], n), g, Draw(g - 1), global_state[e][g])
  BY <1>1 DEF CopyInv, Copied
<1>3. /\ n \in Nat /\ Len(log'[e]) = n + 1 /\ log'[e][n + 1] = record
      /\ \A k \in 1..n : log'[e][k] = log[e][k]
      /\ \A k \in 1..n : k \in 1..(n + 1)
      /\ n + 1 \in 1..(n + 1)
  BY <1>1, Grown
<1> HIDE DEF n
<1> DEFINE D == MemDiffs(log[e], n)
           E == MemDiffs(log'[e], n + 1)
           F == GlobDiffs(log[e], n)
           G == GlobDiffs(log'[e], n + 1)
<1>4. /\ DOMAIN D = 1..n /\ DOMAIN E = 1..(n + 1) /\ DOMAIN F = 1..n /\ DOMAIN G = 1..(n + 1)
      /\ \A k \in 1..n : E[k] = D[k] /\ G[k] = F[k]
      /\ E[n + 1] = record.mem /\ G[n + 1] = record.glob
  BY <1>3 DEF MemDiffs, GlobDiffs
<1>5. /\ DOMAIN memory'[e] = DOMAIN test.file
      /\ \A i \in DOMAIN test.file : memory'[e][i] = IF i \in DOMAIN record.mem THEN record.mem[i].new ELSE memory[e][i]
      /\ DOMAIN global_state'[e] = 1..test.globals
      /\ \A g \in 1..test.globals :
            global_state'[e][g] = IF g \in DOMAIN record.glob THEN record.glob[g].new ELSE global_state[e][g]
  <2>1. /\ DOMAIN Updated(memory[e], record.mem) = DOMAIN memory[e]
        /\ \A i \in DOMAIN memory[e] :
              Updated(memory[e], record.mem)[i] = IF i \in DOMAIN record.mem THEN record.mem[i].new ELSE memory[e][i]
    BY UpdatedHas, Zenon
  <2>2. /\ DOMAIN Updated(global_state[e], record.glob) = DOMAIN global_state[e]
        /\ \A g \in DOMAIN global_state[e] :
              Updated(global_state[e], record.glob)[g] =
                 IF g \in DOMAIN record.glob THEN record.glob[g].new ELSE global_state[e][g]
    BY UpdatedHas, Zenon
  <2> QED
    BY <1>1, <1>2, <2>1, <2>2
<1> HIDE DEF D, E, F, G
<1>6. ASSUME NEW i \in DOMAIN test.file PROVE Says(E, i, test.file[i], memory'[e][i])
  <2>1. Says(D, i, test.file[i], memory[e][i])
    BY <1>2 DEF D
  <2>2. Says(E, i, test.file[i], IF i \in DOMAIN E[n + 1] THEN E[n + 1][i].new ELSE memory[e][i])
    <3>1. n \in Nat /\ DOMAIN D = 1..n /\ DOMAIN E = 1..(n + 1) /\ \A k \in 1..n : E[k] = D[k]
      BY <1>3, <1>4
    <3> QED
      BY <2>1, <3>1, SaysAppend, Zenon
  <2> QED
    BY <1>4, <1>5, <2>2
<1>7. ASSUME NEW g \in 1..test.globals PROVE Says(G, g, Draw(g - 1), global_state'[e][g])
  <2> DEFINE first == Draw(g - 1)
  <2>1. Says(F, g, first, global_state[e][g])
    BY <1>2 DEF F
  <2> HIDE DEF first
  <2>2. Says(G, g, first, IF g \in DOMAIN G[n + 1] THEN G[n + 1][g].new ELSE global_state[e][g])
    <3>1. n \in Nat /\ DOMAIN F = 1..n /\ DOMAIN G = 1..(n + 1) /\ \A k \in 1..n : G[k] = F[k]
      BY <1>3, <1>4
    <3> QED
      BY <2>1, <3>1, SaysAppend, Zenon
  <2> QED
    BY <1>4, <1>5, <2>2 DEF first
<1>8. \A i \in DOMAIN test.file \cap DOMAIN mem'[e] : memory'[e][i] = mem'[e][i]
  <2>1. memory'[e] = Updated(memory[e], MemDiff(memory[e], after.mem))
    BY <1>1
  <2>2. \A i \in DOMAIN memory[e] \cap DOMAIN after.mem :
           Updated(memory[e], MemDiff(memory[e], after.mem))[i] = after.mem[i]
    BY DEF Updated, MemDiff
  <2> QED
    BY <1>1, <1>2, <2>1, <2>2
<1>9. \A g \in 1..test.globals : Denotes[global_state'[e][g]] = Denotes[glob'[e][g]]
  <2>1. global_state'[e] = Updated(global_state[e], GlobDiff(global_state[e], after.glob))
    BY <1>1
  <2>2. \A g \in DOMAIN global_state[e] :
           Denotes[Updated(global_state[e], GlobDiff(global_state[e], after.glob))[g]] = Denotes[after.glob[g]]
    BY DEF Updated, GlobDiff
  <2> QED
    BY <1>1, <1>2, <2>1, <2>2
<1> QED
  BY <1>1, <1>3, <1>5, <1>6, <1>7, <1>8, <1>9 DEF CopyInv, Copied, Draw, E, G

LEMMA StepRecords ==
    ASSUME IInv, NEW e \in Engines, NEW record, NEW after, Step(e, record, after)
    PROVE  RecordInv(e)'
<1> DEFINE n == Len(log[e])
<1>1. TypeOK /\ CopyInv(e) /\ RecordInv(e) /\ test' = test /\ pc[e] = "loop"
      /\ record.mem = MemDiff(memory[e], after.mem) /\ record.glob = GlobDiff(global_state[e], after.glob)
  BY DEF IInv, Step
<1>2. /\ DOMAIN memory[e] = DOMAIN test.file /\ DOMAIN global_state[e] = 1..test.globals
      /\ \A i \in DOMAIN test.file : Says(MemDiffs(log[e], n), i, test.file[i], memory[e][i])
      /\ \A g \in 1..test.globals : Says(GlobDiffs(log[e], n), g, Draw(g - 1), global_state[e][g])
  BY <1>1 DEF CopyInv, Copied
<1>3. /\ n \in Nat /\ DOMAIN log[e] = 1..n /\ DOMAIN log'[e] = 1..(n + 1)
      /\ log'[e][n + 1] = record /\ past'[e][n + 1] = after
      /\ \A k \in 1..n : log'[e][k] = log[e][k] /\ past'[e][k] = past[e][k]
      /\ \A k \in 1..(n + 1) : k \in 1..n \/ k = n + 1
  BY <1>1, Grown
<1>4. memory[e] \in [DOMAIN test.file -> Bytes] /\ global_state[e] \in [1..test.globals -> Bits]
  <2>1. memory[e] \in Seq(Bytes) /\ global_state[e] \in Seq(Bits)
    BY <1>1 DEF TypeOK
  <2> QED
    BY <1>2, <2>1, LenProperties
<1> HIDE DEF n
<1>5. \A m \in 0..n : MemDiffs(log'[e], m) = MemDiffs(log[e], m) /\ GlobDiffs(log'[e], m) = GlobDiffs(log[e], m)
  <2>1. \A k \in 1..n : log'[e][k] = log[e][k]
    BY <1>3
  <2> QED
    BY <1>3, <2>1, SamePrefix, Zenon
<1>6. ASSUME NEW k \in 1..(n + 1)
      PROVE  /\ \E s \in [DOMAIN test.file -> Bytes] :
                   /\ \A i \in DOMAIN test.file : Says(MemDiffs(log'[e], k - 1), i, test.file[i], s[i])
                   /\ log'[e][k].mem = MemDiff(s, past'[e][k].mem)
             /\ \E s \in [1..test.globals -> Bits] :
                   /\ \A g \in 1..test.globals : Says(GlobDiffs(log'[e], k - 1), g, Draw(g - 1), s[g])
                   /\ log'[e][k].glob = GlobDiff(s, past'[e][k].glob)
  <2>1. CASE k \in 1..n
    <3>1. k - 1 \in 0..n
      BY <1>3, <2>1
    <3> QED
      BY <1>1, <1>3, <1>5, <2>1, <3>1 DEF RecordInv
  <2>2. CASE k = n + 1
    <3>1. k - 1 \in 0..n /\ k - 1 = n
      BY <1>3, <2>2
    <3> QED
      BY <1>1, <1>2, <1>3, <1>4, <1>5, <2>2, <3>1
  <2> QED
    BY <1>3, <2>1, <2>2
<1> QED
  BY <1>1, <1>3, <1>6 DEF RecordInv, Draw

\* The new record is of the call the other tester makes at that place.
LEMMA StepSameOther ==
    ASSUME IInv, NEW e \in Engines, NEW record, NEW after, Step(e, record, after),
           NEW o \in Engines, NEW k \in DOMAIN log'[e] \cap DOMAIN log[o]
    PROVE  log'[e][k].at = log[o][k].at /\ log'[e][k].fn = log[o][k].fn
<1> DEFINE n == Len(log[e])
<1>1. TypeOK /\ SameCalls /\ DrawInv(e) /\ DrawInv(o) /\ pc[e] = "loop" /\ record.at = next[e]
      /\ record.fn = Selected(e, Draw(record.at) % Cardinality(Names(test)))
  BY DEF IInv, Step
<1>2. /\ n \in Nat /\ DOMAIN log[e] = 1..n /\ DOMAIN log'[e] = 1..(n + 1)
      /\ log'[e][n + 1] = record
      /\ \A j \in 1..n : log'[e][j] = log[e][j]
      /\ \A j \in 1..(n + 1) : j \in 1..n \/ j = n + 1
      /\ (log[e] = <<>> <=> n = 0)
  BY <1>1, Grown
<1>3. log[o] \in Seq(Records) /\ Len(log[o]) \in Nat /\ DOMAIN log[o] = 1..Len(log[o])
  BY <1>1, LenProperties DEF TypeOK
<1>4. next[e] = IF n = 0 THEN test.globals ELSE After(log[e][n])
  BY <1>1, <1>2 DEF DrawInv
<1> HIDE DEF n
<1>5. CASE k \in 1..n
  <2>1. log[e][k].at = log[o][k].at /\ log[e][k].fn = log[o][k].fn
    BY <1>1, <1>2, <1>5 DEF SameCalls
  <2> QED
    BY <1>2, <1>5, <2>1
<1>6. CASE k = n + 1
  <2>1. log[o][k].fn = Selected(e, Draw(log[o][k].at) % Cardinality(Names(test)))
    BY <1>1 DEF DrawInv, Selected
  <2>2. log[o][k].at = next[e]
    <3>1. CASE n = 0
      <4>1. log[o] # <<>> /\ k = 1
        BY <1>2, <1>3, <1>6, <3>1, EmptySeq
      <4> QED
        BY <1>1, <1>4, <3>1, <4>1 DEF DrawInv
    <3>2. CASE n # 0
      <4>1. k > 1 /\ k - 1 = n /\ n \in DOMAIN log[e] \cap DOMAIN log[o]
        BY <1>2, <1>3, <1>6, <3>2
      <4>2. log[e][n].at = log[o][n].at /\ log[e][n].fn = log[o][n].fn
        BY <1>1, <4>1 DEF SameCalls
      <4>3. log[o][k].at = After(log[o][n])
        BY <1>1, <4>1 DEF DrawInv
      <4> QED
        BY <1>4, <3>2, <4>2, <4>3 DEF After
    <3> QED
      BY <3>1, <3>2
  <2> QED
    BY <1>1, <1>2, <1>6, <2>1, <2>2
<1> QED
  BY <1>2, <1>5, <1>6

LEMMA StepSame ==
    ASSUME IInv, NEW e \in Engines, NEW record, NEW after, Step(e, record, after)
    PROVE  SameCalls'
<1> SUFFICES ASSUME NEW a \in Engines, NEW b \in Engines, NEW k \in DOMAIN log'[a] \cap DOMAIN log'[b]
             PROVE  log'[a][k].at = log'[b][k].at /\ log'[a][k].fn = log'[b][k].fn
  BY DEF SameCalls
<1>1. TypeOK /\ SameCalls
  BY DEF IInv
<1>2. \A o \in Engines \ {e} : log'[o] = log[o]
  BY <1>1, Grown
<1>3. CASE a = b
  BY <1>3
<1>4. CASE a = e /\ b # e
  BY <1>2, <1>4, StepSameOther
<1>5. CASE a # e /\ b = e
  <2>1. log'[e][k].at = log[a][k].at /\ log'[e][k].fn = log[a][k].fn
    BY <1>2, <1>5, StepSameOther
  <2> QED
    BY <1>2, <1>5, <2>1
<1>6. CASE a # e /\ b # e
  BY <1>1, <1>2, <1>6 DEF SameCalls
<1> QED
  BY <1>3, <1>4, <1>5, <1>6

\* The new record is the record the other tester made of the same behaviour.
LEMMA StepNoAlarmOther ==
    ASSUME IInv, NEW e \in Engines, NEW record, NEW after, Step(e, record, after),
           NEW o \in Engines, NEW k \in DOMAIN log'[e] \cap DOMAIN log[o],
           \A j \in 1..k : past'[e][j] = past[o][j]
    PROVE  log'[e][k] = log[o][k]
<1> DEFINE n == Len(log[e])
<1>1. TypeOK /\ NoFalseAlarm /\ CopyInv(e) /\ RecordInv(o) /\ pc[e] = "loop"
      /\ record.mem = MemDiff(memory[e], after.mem) /\ record.glob = GlobDiff(global_state[e], after.glob)
  BY DEF IInv, Step
<1>2. /\ n \in Nat /\ DOMAIN log[e] = 1..n /\ DOMAIN log'[e] = 1..(n + 1)
      /\ log'[e][n + 1] = record /\ past'[e][n + 1] = after
      /\ \A j \in 1..n : log'[e][j] = log[e][j] /\ past'[e][j] = past[e][j]
      /\ \A j \in 1..(n + 1) : j \in 1..n \/ j = n + 1
  BY <1>1, Grown
<1>3. log[o] \in Seq(Records) /\ Len(log[o]) \in Nat /\ DOMAIN log[o] = 1..Len(log[o])
  BY <1>1, LenProperties DEF TypeOK
<1>4. /\ DOMAIN memory[e] = DOMAIN test.file /\ DOMAIN global_state[e] = 1..test.globals
      /\ \A i \in DOMAIN test.file : Says(MemDiffs(log[e], n), i, test.file[i], memory[e][i])
      /\ \A g \in 1..test.globals : Says(GlobDiffs(log[e], n), g, Draw(g - 1), global_state[e][g])
  BY <1>1 DEF CopyInv, Copied
<1>5. log'[e][k].at = log[o][k].at /\ log'[e][k].fn = log[o][k].fn
  BY StepSameOther
<1> HIDE DEF n
<1>6. \A m \in 1..n : m \in DOMAIN log[o] /\ m <= k => log[e][m] = log[o][m]
  <2> SUFFICES ASSUME NEW m \in 1..n, m \in DOMAIN log[o], m <= k PROVE log[e][m] = log[o][m]
    OBVIOUS
  <2>1. \A j \in 1..m : j \in 1..n /\ j \in 1..k
    BY <1>2, <1>3
  <2>2. \A j \in 1..m : past[e][j] = past[o][j]
    BY <1>2, <2>1
  <2> QED
    BY <1>1, <1>2, <2>2 DEF NoFalseAlarm
<1>7. CASE k \in 1..n
  <2>1. log[e][k] = log[o][k]
    BY <1>6, <1>7
  <2> QED
    BY <1>2, <1>7, <2>1
<1>8. CASE k = n + 1
  <2>1. \A m \in 1..n : log[e][m] = log[o][m]
    <3>1. \A m \in 1..n : m \in 1..Len(log[o]) /\ m <= k
      BY <1>2, <1>3, <1>8
    <3> QED
      BY <1>3, <1>6, <3>1
  <2>2. MemDiffs(log[e], n) = MemDiffs(log[o], n) /\ GlobDiffs(log[e], n) = GlobDiffs(log[o], n)
    BY <2>1 DEF MemDiffs, GlobDiffs
  <2>3. k - 1 = n /\ k \in 1..k
    BY <1>2, <1>8
  <2>4. past[o][k] = after /\ log'[e][k] = record
    BY <1>2, <1>8, <2>3
  <2>5. log[o][k].mem = record.mem
    <3>1. PICK s \in [DOMAIN test.file -> Bytes] :
             /\ \A i \in DOMAIN test.file : Says(MemDiffs(log[o], n), i, test.file[i], s[i])
             /\ log[o][k].mem = MemDiff(s, after.mem)
      BY <1>1, <2>3, <2>4 DEF RecordInv
    <3> DEFINE D == MemDiffs(log[o], n)
    <3>2. DOMAIN D = 1..n
      BY DEF MemDiffs
    <3> HIDE DEF D
    <3>3. ASSUME NEW i \in DOMAIN test.file PROVE s[i] = memory[e][i]
      <4>1. Says(D, i, test.file[i], s[i]) /\ Says(D, i, test.file[i], memory[e][i])
        BY <1>4, <2>2, <3>1 DEF D
      <4> QED
        BY <1>2, <3>2, <4>1, SaysOne, Zenon
    <3>4. s = memory[e]
      <4>1. memory[e] \in Seq(Bytes)
        BY <1>1 DEF TypeOK
      <4>2. memory[e] = [i \in DOMAIN test.file |-> memory[e][i]]
        BY <1>4, <4>1, LenProperties
      <4> QED
        BY <3>1, <3>3, <4>2
    <3> QED
      BY <1>1, <3>1, <3>4
  <2>6. log[o][k].glob = record.glob
    <3>1. PICK s \in [1..test.globals -> Bits] :
             /\ \A g \in 1..test.globals : Says(GlobDiffs(log[o], n), g, Draw(g - 1), s[g])
             /\ log[o][k].glob = GlobDiff(s, after.glob)
      BY <1>1, <2>3, <2>4 DEF RecordInv
    <3> DEFINE D == GlobDiffs(log[o], n)
    <3>2. DOMAIN D = 1..n
      BY DEF GlobDiffs
    <3> HIDE DEF D
    <3>3. ASSUME NEW g \in 1..test.globals PROVE s[g] = global_state[e][g]
      <4> DEFINE first == Draw(g - 1)
      <4>1. Says(D, g, first, s[g]) /\ Says(D, g, first, global_state[e][g])
        BY <1>4, <2>2, <3>1 DEF D
      <4> HIDE DEF first
      <4> QED
        BY <1>2, <3>2, <4>1, SaysOne, Zenon
    <3>4. s = global_state[e]
      <4>1. global_state[e] \in Seq(Bits)
        BY <1>1 DEF TypeOK
      <4>2. global_state[e] = [g \in 1..test.globals |-> global_state[e][g]]
        BY <1>4, <4>1, LenProperties
      <4> QED
        BY <3>1, <3>3, <4>2
    <3> QED
      BY <1>1, <3>1, <3>4
  <2>7. log[o][k] \in Records /\ record \in Records
    BY <1>3, ElementOfSeq DEF Step
  <2> QED
    BY <1>5, <2>4, <2>5, <2>6, <2>7 DEF Records
<1> QED
  BY <1>2, <1>7, <1>8

LEMMA StepNoAlarm ==
    ASSUME IInv, NEW e \in Engines, NEW record, NEW after, Step(e, record, after)
    PROVE  NoFalseAlarm'
<1> SUFFICES ASSUME NEW a \in Engines, NEW b \in Engines, NEW k \in DOMAIN log'[a] \cap DOMAIN log'[b],
                    \A j \in 1..k : past'[a][j] = past'[b][j]
             PROVE  log'[a][k] = log'[b][k]
  BY DEF NoFalseAlarm
<1>1. TypeOK /\ NoFalseAlarm
  BY DEF IInv
<1>2. \A o \in Engines \ {e} : log'[o] = log[o] /\ past'[o] = past[o]
  BY <1>1, Grown
<1>3. CASE a = b
  BY <1>3
<1>4. CASE a = e /\ b # e
  BY <1>2, <1>4, StepNoAlarmOther
<1>5. CASE a # e /\ b = e
  <2>1. log'[e][k] = log[a][k]
    BY <1>2, <1>5, StepNoAlarmOther
  <2> QED
    BY <1>2, <1>5, <2>1
<1>6. CASE a # e /\ b # e
  BY <1>1, <1>2, <1>6 DEF NoFalseAlarm
<1> QED
  BY <1>3, <1>4, <1>5, <1>6

LEMMA IterateKeeps == ASSUME IInv, NEW e \in Engines, Iterate(e) PROVE IInv'
<1>1. TypeOK /\ CopyInv(e)
  BY DEF IInv
<1>2. PICK record, after : Step(e, record, after)
  BY <1>1, Iterated
<1>3. TypeOK' /\ DrawInv(e)' /\ CopyInv(e)' /\ RecordInv(e)' /\ SameCalls' /\ NoFalseAlarm'
  BY <1>2, StepTypes, StepDraws, StepCopies, StepRecords, StepSame, StepNoAlarm
<1>4. ASSUME NEW o \in Engines \ {e} PROVE DrawInv(o)' /\ CopyInv(o)' /\ RecordInv(o)'
  <2>1. DrawInv(o) /\ CopyInv(o) /\ RecordInv(o)
    BY DEF IInv
  <2>2. /\ test' = test /\ pc'[o] = pc[o] /\ next'[o] = next[o] /\ mem'[o] = mem[o] /\ glob'[o] = glob[o]
        /\ memory'[o] = memory[o] /\ global_state'[o] = global_state[o]
        /\ log'[o] = log[o] /\ past'[o] = past[o]
    BY <1>1, <1>2 DEF Step, TypeOK
  <2> QED
    BY <2>1, <2>2, TesterStays
<1> QED
  BY <1>3, <1>4 DEF IInv
-----------------------------------------------------------------------------
(***************************************************************************)
(* The theorems.                                                           *)
(***************************************************************************)
\* The inductive invariant holds in every reachable state: where each tester
\* is among the draws, and what its copies and its log say, follow from the
\* records it has written.
THEOREM Inductive == Spec => []IInv
<1>1. IInv /\ [Next]_vars => IInv'
  <2> SUFFICES ASSUME IInv, [Next]_vars PROVE IInv'
    OBVIOUS
  <2>1. ASSUME NEW e \in Engines, InitializeModule(e) PROVE IInv'
    BY <2>1, InitializeModuleKeeps
  <2>2. ASSUME NEW e \in Engines, LoadMemory(e) PROVE IInv'
    BY <2>2, LoadMemoryKeeps
  <2>3. ASSUME NEW e \in Engines, InitializeExecution(e) PROVE IInv'
    BY <2>3, InitializeExecutionKeeps
  <2>4. ASSUME NEW e \in Engines, SetGlobals(e) PROVE IInv'
    BY <2>4, SetGlobalsKeeps
  <2>5. ASSUME NEW e \in Engines, Iterate(e) PROVE IInv'
    BY <2>5, IterateKeeps
  <2>6. ASSUME NEW e \in Engines, Finish(e) \/ Crash(e) PROVE IInv'
    BY <2>6, EndKeeps
  <2>7. CASE UNCHANGED vars
    <3>1. /\ test' = test /\ pc' = pc /\ next' = next /\ mem' = mem /\ glob' = glob /\ memory' = memory
          /\ global_state' = global_state /\ log' = log /\ past' = past
      BY <2>7 DEF vars
    <3>2. TypeOK'
      BY <3>1 DEF IInv, TypeOK, Records, Names
    <3>3. SameCalls' /\ NoFalseAlarm'
      BY <3>1 DEF IInv, SameCalls, NoFalseAlarm
    <3>4. ASSUME NEW e \in Engines PROVE DrawInv(e)' /\ CopyInv(e)' /\ RecordInv(e)'
      <4>1. DrawInv(e) /\ CopyInv(e) /\ RecordInv(e)
        BY DEF IInv
      <4> QED
        BY <3>1, <4>1, TesterStays
    <3> QED
      BY <3>2, <3>3, <3>4 DEF IInv
  <2> QED
    BY <2>1, <2>2, <2>3, <2>4, <2>5, <2>6, <2>7 DEF Next, Tester, Ended
<1> QED
  BY <1>1, InitIInv, PTL DEF Spec

\* The variables of SingleRun keep their types, and no log outgrows -count.
THEOREM TypeCorrect == Spec => []TypeOK
<1>1. IInv => TypeOK
  BY DEF IInv
<1> QED
  BY <1>1, Inductive, PTL

\* Whatever engines are compared, for however many calls, the k-th records of
\* two logs are of the same function and the same arguments: TryCompareLogs
\* never compares calls that were not the same.
THEOREM CallsAgree == Spec => []SameCalls
<1>1. IInv => SameCalls
  BY DEF IInv
<1> QED
  BY <1>1, Inductive, PTL

\* Testers whose engines behaved the same write the same records, whatever the
\* memory beyond the file holds: the comparison raises no false alarm.
THEOREM NoAlarmIsFalse == Spec => []NoFalseAlarm
<1>1. IInv => NoFalseAlarm
  BY DEF IInv
<1> QED
  BY <1>1, Inductive, PTL

\* The log of a tester, read over its memory file and the numbers drawn for
\* its globals, tells the memory and the globals of its engine.
THEOREM LogIsComplete == Spec => []LogTellsState
<1>1. ASSUME IInv, NEW e \in Engines, log[e] # <<>>
      PROVE  /\ \A i \in DOMAIN test.file \cap DOMAIN mem[e] :
                   Says(MemDiffs(log[e], Len(log[e])), i, test.file[i], mem[e][i])
             /\ \A g \in 1..test.globals : \E v \in Bits :
                   Says(GlobDiffs(log[e], Len(log[e])), g, Draw(g - 1), v) /\ Denotes[v] = Denotes[glob[e][g]]
  <2>1. TypeOK /\ CopyInv(e)
    BY <1>1 DEF IInv
  <2>2. \A i \in DOMAIN test.file \cap DOMAIN mem[e] :
           Says(MemDiffs(log[e], Len(log[e])), i, test.file[i], mem[e][i])
    BY <1>1, <2>1 DEF CopyInv, Copied
  <2>3. ASSUME NEW g \in 1..test.globals
        PROVE  \E v \in Bits :
                  Says(GlobDiffs(log[e], Len(log[e])), g, Draw(g - 1), v) /\ Denotes[v] = Denotes[glob[e][g]]
    <3>1. global_state[e] \in Seq(Bits) /\ DOMAIN global_state[e] = 1..test.globals
      BY <1>1, <2>1 DEF TypeOK, CopyInv, Copied
    <3>2. global_state[e][g] \in Bits
      BY <3>1, LenProperties, ElementOfSeq
    <3>3. Says(GlobDiffs(log[e], Len(log[e])), g, Draw(g - 1), global_state[e][g])
          /\ Denotes[global_state[e][g]] = Denotes[glob[e][g]]
      BY <1>1, <2>1 DEF CopyInv, Copied
    <3> QED
      BY <3>2, <3>3
  <2> QED
    BY <2>2, <2>3
<1>2. IInv => LogTellsState
  BY <1>1 DEF LogTellsState
<1> QED
  BY <1>2, Inductive, PTL

\* Equal logs mean equal memories, as far as both were compared, and globals
\* that denote the same numbers: no difference is missed.
THEOREM SilenceAgrees == Spec => []SilenceIsAgreement
<1>1. ASSUME IInv, NEW a \in Engines, NEW b \in Engines, log[a] # <<>>, log[a] = log[b]
      PROVE  /\ \A i \in DOMAIN test.file \cap DOMAIN mem[a] \cap DOMAIN mem[b] : mem[a][i] = mem[b][i]
             /\ \A g \in 1..test.globals : Denotes[glob[a][g]] = Denotes[glob[b][g]]
  <2> DEFINE n == Len(log[a])
             D == MemDiffs(log[a], n)
             F == GlobDiffs(log[a], n)
  <2>1. TypeOK /\ CopyInv(a) /\ CopyInv(b) /\ log[b] # <<>>
    BY <1>1 DEF IInv
  <2>2. n \in Nat /\ DOMAIN D = 1..n /\ DOMAIN F = 1..n
    <3>1. log[a] \in Seq(Records)
      BY <2>1 DEF TypeOK
    <3> QED
      BY <3>1, LenProperties DEF MemDiffs, GlobDiffs
  <2>3. /\ \A i \in DOMAIN test.file :
              Says(D, i, test.file[i], memory[a][i]) /\ Says(D, i, test.file[i], memory[b][i])
        /\ \A g \in 1..test.globals :
              Says(F, g, Draw(g - 1), global_state[a][g]) /\ Says(F, g, Draw(g - 1), global_state[b][g])
    BY <1>1, <2>1 DEF CopyInv, Copied
  <2>4. /\ \A i \in DOMAIN test.file \cap DOMAIN mem[a] : memory[a][i] = mem[a][i]
        /\ \A i \in DOMAIN test.file \cap DOMAIN mem[b] : memory[b][i] = mem[b][i]
        /\ \A g \in 1..test.globals : Denotes[global_state[a][g]] = Denotes[glob[a][g]]
        /\ \A g \in 1..test.globals : Denotes[global_state[b][g]] = Denotes[glob[b][g]]
    BY <1>1, <2>1 DEF CopyInv
  <2> HIDE DEF n, D, F
  <2>5. ASSUME NEW i \in DOMAIN test.file PROVE memory[a][i] = memory[b][i]
    BY <2>2, <2>3, SaysOne, Zenon
  <2>6. ASSUME NEW g \in 1..test.globals PROVE global_state[a][g] = global_state[b][g]
    <3> DEFINE first == Draw(g - 1)
    <3>1. Says(F, g, first, global_state[a][g]) /\ Says(F, g, first, global_state[b][g])
      BY <2>3
    <3> HIDE DEF first
    <3> QED
      BY <2>2, <3>1, SaysOne, Zenon
  <2>7. \A i \in DOMAIN test.file \cap DOMAIN mem[a] \cap DOMAIN mem[b] : mem[a][i] = mem[b][i]
    BY <2>4, <2>5
  <2>8. \A g \in 1..test.globals : Denotes[glob[a][g]] = Denotes[glob[b][g]]
    BY <2>4, <2>6
  <2> QED
    BY <2>7, <2>8
<1>2. IInv => SilenceIsAgreement
  BY <1>1 DEF SilenceIsAgreement
<1> QED
  BY <1>2, Inductive, PTL
=============================================================================
