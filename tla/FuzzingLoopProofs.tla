-------------------------- MODULE FuzzingLoopProofs --------------------------
(***************************************************************************)
(* Proofs about FuzzingLoop, for every number of steps and memory steps,   *)
(* every flush period and all logs.                                        *)
(***************************************************************************)
EXTENDS FuzzingLoop, TLAPS

\* The counters are numbers.
LEMMA Counters ==
    ASSUME TypeOK
    PROVE  /\ Steps \in Nat /\ MemSteps \in Nat
           /\ step \in Nat /\ mem \in Nat /\ pending \in Nat /\ made \in Nat
           /\ step <= Steps /\ mem <= MemSteps
BY BoundsAssumption DEF TypeOK
-----------------------------------------------------------------------------
(***************************************************************************)
(* The generator and its commands.                                         *)
(***************************************************************************)

\* No "w" is lost but the one a generator dies over.
LEMMA CountKept == ASSUME IInv, Next PROVE CountInv'
<1>0. /\ CountInv /\ Steps \in Nat /\ MemSteps \in Nat
      /\ step \in Nat /\ mem \in Nat /\ pending \in Nat /\ made \in Nat
      /\ step <= Steps /\ mem <= MemSteps
  BY Counters DEF IInv
<1>1. CASE StoreSeed
  BY <1>0, <1>1 DEF StoreSeed, generator, CountInv, Busy, InStep, InMemStep
<1>2. CASE SendW
  BY <1>0, <1>2 DEF SendW, Dies, generator, CountInv, Busy, InStep, InMemStep
<1>3. CASE StoreStep
  BY <1>0, <1>3 DEF StoreStep, Store, generator, CountInv, Busy, InStep, InMemStep
<1>4. CASE Launch
  BY <1>0, <1>4 DEF Launch, generator, CountInv, Busy, InStep, InMemStep
<1>5. CASE NextStep
  BY <1>0, <1>5 DEF NextStep, generator, CountInv, Busy, InStep, InMemStep
<1>6. CASE StoreCases
  BY <1>0, <1>6 DEF StoreCases, Store, generator, CountInv, Busy, InStep, InMemStep
<1>7. CASE Compare
  BY <1>0, <1>7 DEF Compare, Dies, generator, CountInv, Busy, InStep, InMemStep
<1>8. CASE CheckExit
  BY <1>0, <1>8 DEF CheckExit, Flush, generator, CountInv, Busy, InStep, InMemStep
<1>9. CASE LoopDone
  BY <1>0, <1>9 DEF LoopDone, generator, CountInv, Busy, InStep, InMemStep
<1>10. CASE End
  BY <1>0, <1>10 DEF End, Flush, generator, CountInv, Busy, InStep, InMemStep
<1>11. CASE SendQ
  BY <1>0, <1>11 DEF SendQ, Dies, generator, CountInv, Busy, InStep, InMemStep
<1>12. CASE Close
  BY <1>0, <1>12 DEF Close, Flush, generator, CountInv, Busy, InStep, InMemStep
<1>13. ASSUME NEW e \in Engines, RunTester(e) PROVE CountInv'
  BY <1>0, <1>13 DEF RunTester, generator, CountInv, Busy, InStep, InMemStep
<1>14. CASE Truncate
  BY <1>0, <1>14 DEF Truncate, coordinator, CountInv, Busy, InStep, InMemStep
<1>15. CASE WriteModule
  BY <1>0, <1>15 DEF WriteModule, coordinator, CountInv, Busy, InStep, InMemStep
<1>16. CASE TakeQ
  BY <1>0, <1>16 DEF TakeQ, coordinator, CountInv, Busy, InStep, InMemStep
<1>17. CASE Interrupt
  BY <1>0, <1>17 DEF Interrupt, coordinator, generator, CountInv, Busy, InStep, InMemStep
<1>18. CASE GeneratorDies
  BY <1>0, <1>18 DEF GeneratorDies, coordinator, CountInv, Busy, InStep, InMemStep
<1>19. CASE Stopped
  BY <1>0, <1>19 DEF Stopped, vars, coordinator, generator, CountInv, Busy, InStep, InMemStep
<1> QED
  BY <1>1, <1>2, <1>3, <1>4, <1>5, <1>6, <1>7, <1>8, <1>9, <1>10,
     <1>11, <1>12, <1>13, <1>14, <1>15, <1>16, <1>17, <1>18, <1>19 DEF Next, Coordinator, Generator

\* The module file holds the last module made, or the start of the next.
LEMMA FileKept == ASSUME IInv, Next PROVE FileInv'
<1>0. FileInv /\ made \in Nat /\ wasm \in [module : {NoModule} \cup 0..Steps, whole : BOOLEAN]
  BY Counters DEF IInv, TypeOK
<1>1. CASE StoreSeed
  BY <1>0, <1>1 DEF StoreSeed, generator, FileInv
<1>2. CASE SendW
  BY <1>0, <1>2 DEF SendW, Dies, generator, FileInv
<1>3. CASE StoreStep
  BY <1>0, <1>3 DEF StoreStep, Store, generator, FileInv
<1>4. CASE Launch
  BY <1>0, <1>4 DEF Launch, generator, FileInv
<1>5. CASE NextStep
  BY <1>0, <1>5 DEF NextStep, generator, FileInv
<1>6. CASE StoreCases
  BY <1>0, <1>6 DEF StoreCases, Store, generator, FileInv
<1>7. CASE Compare
  BY <1>0, <1>7 DEF Compare, Dies, generator, FileInv
<1>8. CASE CheckExit
  BY <1>0, <1>8 DEF CheckExit, Flush, generator, FileInv
<1>9. CASE LoopDone
  BY <1>0, <1>9 DEF LoopDone, generator, FileInv
<1>10. CASE End
  BY <1>0, <1>10 DEF End, Flush, generator, FileInv
<1>11. CASE SendQ
  BY <1>0, <1>11 DEF SendQ, Dies, generator, FileInv
<1>12. CASE Close
  BY <1>0, <1>12 DEF Close, Flush, generator, FileInv
<1>13. ASSUME NEW e \in Engines, RunTester(e) PROVE FileInv'
  BY <1>0, <1>13 DEF RunTester, generator, FileInv
<1>14. CASE Truncate
  BY <1>0, <1>14 DEF Truncate, coordinator, FileInv
<1>15. CASE WriteModule
  BY <1>0, <1>15 DEF WriteModule, coordinator, FileInv
<1>16. CASE TakeQ
  BY <1>0, <1>16 DEF TakeQ, coordinator, FileInv
<1>17. CASE Interrupt
  BY <1>0, <1>17 DEF Interrupt, coordinator, generator, FileInv
<1>18. CASE GeneratorDies
  BY <1>0, <1>18 DEF GeneratorDies, coordinator, FileInv
<1>19. CASE Stopped
  BY <1>0, <1>19 DEF Stopped, vars, coordinator, generator, FileInv
<1> QED
  BY <1>1, <1>2, <1>3, <1>4, <1>5, <1>6, <1>7, <1>8, <1>9, <1>10,
     <1>11, <1>12, <1>13, <1>14, <1>15, <1>16, <1>17, <1>18, <1>19 DEF Next, Coordinator, Generator

\* A generator that has caught up gets no "w" before the step ends.
LEMMA CaughtUpKept == ASSUME IInv, Next PROVE CaughtUpInv'
<1>0. /\ CaughtUpInv /\ CountInv /\ step \in Nat /\ pending \in Nat /\ made \in Nat
      /\ gen \in {"idle", "busy", "dead"}
  BY Counters DEF IInv, TypeOK
<1>1. CASE StoreSeed
  BY <1>0, <1>1 DEF StoreSeed, generator, CaughtUpInv, CountInv, Busy, InStep, InMemStep
<1>2. CASE SendW
  BY <1>0, <1>2 DEF SendW, Dies, generator, CaughtUpInv, CountInv, Busy, InStep, InMemStep
<1>3. CASE StoreStep
  <2>1. pc = "sleep" /\ pc' = "inner" /\ step' = step /\ pending' = pending /\ gen' = gen /\ made' = made
    BY <1>3 DEF StoreStep, generator
  <2>2. ASSUME ~late' PROVE ~(pending > 0) /\ gen = "idle"
    BY <1>3, <2>2 DEF StoreStep
  <2>3. ASSUME ~late' PROVE made = step + 1 /\ pending = 0 /\ gen # "busy"
    BY <1>0, <2>1, <2>2, <2>3 DEF CountInv, Busy, InStep
  <2> QED
    BY <2>1, <2>3 DEF CaughtUpInv
<1>4. CASE Launch
  BY <1>0, <1>4 DEF Launch, generator, CaughtUpInv, CountInv, Busy, InStep, InMemStep
<1>5. CASE NextStep
  BY <1>0, <1>5 DEF NextStep, generator, CaughtUpInv, CountInv, Busy, InStep, InMemStep
<1>6. CASE StoreCases
  BY <1>0, <1>6 DEF StoreCases, Store, generator, CaughtUpInv, CountInv, Busy, InStep, InMemStep
<1>7. CASE Compare
  BY <1>0, <1>7 DEF Compare, Dies, generator, CaughtUpInv, CountInv, Busy, InStep, InMemStep
<1>8. CASE CheckExit
  BY <1>0, <1>8 DEF CheckExit, Flush, generator, CaughtUpInv, CountInv, Busy, InStep, InMemStep
<1>9. CASE LoopDone
  BY <1>0, <1>9 DEF LoopDone, generator, CaughtUpInv, CountInv, Busy, InStep, InMemStep
<1>10. CASE End
  BY <1>0, <1>10 DEF End, Flush, generator, CaughtUpInv, CountInv, Busy, InStep, InMemStep
<1>11. CASE SendQ
  BY <1>0, <1>11 DEF SendQ, Dies, generator, CaughtUpInv, CountInv, Busy, InStep, InMemStep
<1>12. CASE Close
  BY <1>0, <1>12 DEF Close, Flush, generator, CaughtUpInv, CountInv, Busy, InStep, InMemStep
<1>13. ASSUME NEW e \in Engines, RunTester(e) PROVE CaughtUpInv'
  BY <1>0, <1>13 DEF RunTester, generator, CaughtUpInv, CountInv, Busy, InStep, InMemStep
<1>14. CASE Truncate
  BY <1>0, <1>14 DEF Truncate, coordinator, CaughtUpInv, CountInv, Busy, InStep, InMemStep
<1>15. CASE WriteModule
  BY <1>0, <1>15 DEF WriteModule, coordinator, CaughtUpInv, CountInv, Busy, InStep, InMemStep
<1>16. CASE TakeQ
  BY <1>0, <1>16 DEF TakeQ, coordinator, CaughtUpInv, CountInv, Busy, InStep, InMemStep
<1>17. CASE Interrupt
  BY <1>0, <1>17 DEF Interrupt, coordinator, generator, CaughtUpInv, CountInv, Busy, InStep, InMemStep
<1>18. CASE GeneratorDies
  BY <1>0, <1>18 DEF GeneratorDies, coordinator, CaughtUpInv, CountInv, Busy, InStep, InMemStep
<1>19. CASE Stopped
  BY <1>0, <1>19 DEF Stopped, vars, coordinator, generator, CaughtUpInv, CountInv, Busy, InStep, InMemStep
<1> QED
  BY <1>1, <1>2, <1>3, <1>4, <1>5, <1>6, <1>7, <1>8, <1>9, <1>10,
     <1>11, <1>12, <1>13, <1>14, <1>15, <1>16, <1>17, <1>18, <1>19 DEF Next, Coordinator, Generator

-----------------------------------------------------------------------------
(***************************************************************************)
(* Types.                                                                  *)
(***************************************************************************)
\* The rows that are stored are rows of the tables.
LEMMA RowTypes ==
    ASSUME TypeOK
    PROVE  /\ SeedRow \in Rows /\ StepRow(step) \in Rows /\ MemRow(step, mem) \in Rows
           /\ \A e \in Engines : CaseRow(e, step, mem) \in Rows
BY DEF TypeOK, Rows, PlainRows

\* The variables keep their types.
LEMMA TypesKept == ASSUME IInv, Next PROVE TypeOK'
<1>0. /\ TypeOK /\ Steps \in Nat /\ MemSteps \in Nat
      /\ step \in Nat /\ mem \in Nat /\ pending \in Nat /\ made \in Nat
  BY Counters DEF IInv
<1>a. CountInv /\ CountInv'
  BY CountKept DEF IInv
<1>b. Engines # {} /\ EmptyLog \in Logs /\ BrokenLog \in Logs
  BY DEF Engines, Logs
<1>1. CASE StoreSeed
  <2>1. SeedRow \in Rows
    BY <1>0, RowTypes
  <2> QED
    BY <1>0, <1>1, <2>1 DEF StoreSeed, generator, TypeOK
<1>2. CASE SendW
  <2>1. pending' \in 0..Steps
    <3>1. CASE gen = "dead"
      BY <1>0, <1>2, <3>1 DEF SendW, TypeOK
    <3>2. CASE gen # "dead"
      BY <1>0, <1>a, <1>2, <3>2 DEF SendW, generator, CountInv, Busy, InStep
    <3> QED
      BY <3>1, <3>2
  <2> QED
    BY <1>0, <1>2, <2>1 DEF SendW, Dies, generator, TypeOK
<1>3. CASE StoreStep
  <2>1. StepRow(step) \in Rows
    BY <1>0, RowTypes
  <2> QED
    BY <1>0, <1>3, <2>1 DEF StoreStep, Store, generator, TypeOK
<1>4. CASE Launch
  BY <1>0, <1>4 DEF Launch, generator, TypeOK
<1>5. CASE NextStep
  <2>1. step' \in 0..Steps
    BY <1>0, <1>a, <1>5 DEF NextStep, CountInv, InStep
  <2> QED
    BY <1>0, <1>5, <2>1 DEF NextStep, generator, TypeOK
<1>6. CASE StoreCases
  <2>1. {MemRow(step, mem)} \cup {CaseRow(e, step, mem) : e \in Engines} \subseteq Rows
    BY <1>0, RowTypes
  <2> QED
    BY <1>0, <1>6, <2>1 DEF StoreCases, Store, generator, TypeOK
<1>7. CASE Compare
  BY <1>0, <1>7 DEF Compare, Dies, generator, TypeOK
<1>8. CASE CheckExit
  <2>1. mem' \in 0..MemSteps
    BY <1>0, <1>a, <1>8 DEF CheckExit, CountInv, InMemStep, TypeOK
  <2>2. tx' \subseteq Rows /\ disk' \subseteq Rows
    BY <1>0, <1>8 DEF CheckExit, Flush, TypeOK
  <2> QED
    BY <1>0, <1>8, <2>1, <2>2 DEF CheckExit, generator, TypeOK
<1>9. CASE LoopDone
  BY <1>0, <1>9 DEF LoopDone, generator, TypeOK
<1>10. CASE End
  BY <1>0, <1>10 DEF End, Flush, generator, TypeOK
<1>11. CASE SendQ
  BY <1>0, <1>11 DEF SendQ, Dies, generator, TypeOK
<1>12. CASE Close
  BY <1>0, <1>12 DEF Close, Flush, generator, TypeOK
<1>13. ASSUME NEW e \in Engines, RunTester(e) PROVE TypeOK'
  <2>1. PICK l \in Logs : log' = [log EXCEPT ![e] = l]
    BY <1>b, <1>13 DEF RunTester
  <2>2. ran' = ran \/ ran' = [ran EXCEPT ![e] = wasm.module]
    BY <1>13 DEF RunTester
  <2>3. log' \in [Engines -> Logs \cup {NoLog}]
    BY <1>0, <2>1 DEF TypeOK
  <2>4. ran' \in [Engines -> {NoModule} \cup 0..Steps]
    BY <1>0, <2>2 DEF TypeOK
  <2> QED
    BY <1>0, <1>13, <2>3, <2>4 DEF RunTester, generator, TypeOK
<1>14. CASE Truncate
  <2>1. pending' \in 0..Steps /\ made' = made
    BY <1>0, <1>14 DEF Truncate, TypeOK
  <2>2. wasm' \in [module : {NoModule} \cup 0..Steps, whole : BOOLEAN]
    BY <1>0, <1>14 DEF Truncate, TypeOK
  <2> QED
    BY <1>0, <1>14, <2>1, <2>2 DEF Truncate, coordinator, TypeOK
<1>15. CASE WriteModule
  <2>1. made' \in 0..Steps
    BY <1>0, <1>a, <1>15 DEF WriteModule, CountInv, Busy
  <2>2. wasm' \in [module : {NoModule} \cup 0..Steps, whole : BOOLEAN]
    BY <1>0, <1>15 DEF WriteModule, TypeOK
  <2> QED
    BY <1>0, <1>15, <2>1, <2>2 DEF WriteModule, coordinator, TypeOK
<1>16. CASE TakeQ
  BY <1>0, <1>16 DEF TakeQ, coordinator, TypeOK
<1>17. CASE Interrupt
  BY <1>0, <1>17 DEF Interrupt, coordinator, generator, TypeOK
<1>18. CASE GeneratorDies
  BY <1>0, <1>18 DEF GeneratorDies, coordinator, TypeOK
<1>19. CASE Stopped
  BY <1>0, <1>19 DEF Stopped, vars, coordinator, generator, TypeOK
<1> QED
  BY <1>1, <1>2, <1>3, <1>4, <1>5, <1>6, <1>7, <1>8, <1>9, <1>10,
     <1>11, <1>12, <1>13, <1>14, <1>15, <1>16, <1>17, <1>18, <1>19 DEF Next, Coordinator, Generator

-----------------------------------------------------------------------------
(***************************************************************************)
(* Modules and rows.                                                       *)
(***************************************************************************)
\* A whole module file holds no module of a later step, and the module of this
\* step if the generator had caught up.
LEMMA WholeFile ==
    ASSUME IInv, pc \in InMemStep, wasm.whole
    PROVE  wasm.module <= step /\ (~late => wasm.module = step)
<1>1. made \in Nat /\ pending \in Nat /\ step \in Nat /\ CountInv /\ FileInv /\ CaughtUpInv
  BY Counters DEF IInv
<1>2. made <= step + 1
  BY <1>1 DEF CountInv, InMemStep, InStep, Busy
<1> QED
  BY <1>1, <1>2 DEF FileInv, CaughtUpInv

\* No tester reads a module of a later step.
LEMMA NeverAheadKept == ASSUME IInv, Next PROVE NeverAhead'
<1>0. /\ NeverAhead
      /\ log \in [Engines -> Logs \cup {NoLog}] /\ ran \in [Engines -> {NoModule} \cup 0..Steps] /\ step \in Nat
  BY Counters DEF IInv, TypeOK
<1>1. CASE StoreSeed
  BY <1>0, <1>1 DEF StoreSeed, generator, NeverAhead
<1>2. CASE SendW
  BY <1>0, <1>2 DEF SendW, Dies, generator, NeverAhead
<1>3. CASE StoreStep
  BY <1>0, <1>3 DEF StoreStep, Store, generator, NeverAhead
<1>4. CASE Launch
  BY <1>0, <1>4 DEF Launch, NeverAhead, NoModule
<1>5. CASE NextStep
  BY <1>0, <1>5 DEF NextStep, generator, NeverAhead
<1>6. CASE StoreCases
  BY <1>0, <1>6 DEF StoreCases, Store, generator, NeverAhead
<1>7. CASE Compare
  BY <1>0, <1>7 DEF Compare, Dies, generator, NeverAhead
<1>8. CASE CheckExit
  BY <1>0, <1>8 DEF CheckExit, Flush, generator, NeverAhead
<1>9. CASE LoopDone
  BY <1>0, <1>9 DEF LoopDone, generator, NeverAhead
<1>10. CASE End
  BY <1>0, <1>10 DEF End, Flush, generator, NeverAhead
<1>11. CASE SendQ
  BY <1>0, <1>11 DEF SendQ, Dies, generator, NeverAhead
<1>12. CASE Close
  BY <1>0, <1>12 DEF Close, Flush, generator, NeverAhead
<1>13. ASSUME NEW e \in Engines, RunTester(e) PROVE NeverAhead'
  <2>1. pc = "await" /\ pc' = "await" /\ step' = step /\ late' = late
    BY <1>13 DEF RunTester
  <2>2. CASE wasm.whole
    <3>1. ran' = [ran EXCEPT ![e] = wasm.module] /\ \E l \in Logs : log' = [log EXCEPT ![e] = l]
      BY <1>13, <2>2 DEF RunTester
    <3>2. wasm.module <= step /\ (~late => wasm.module = step)
      BY <2>1, <2>2, WholeFile DEF InMemStep
    <3> QED
      BY <1>0, <2>1, <3>1, <3>2 DEF NeverAhead
  <2>3. CASE ~wasm.whole
    <3>1. ran' = ran /\ \E l \in {EmptyLog, BrokenLog} : log' = [log EXCEPT ![e] = l]
      BY <1>13, <2>3 DEF RunTester
    <3> QED
      BY <1>0, <2>1, <3>1 DEF NeverAhead, EmptyLog, BrokenLog
  <2> QED
    BY <2>2, <2>3
<1>14. CASE Truncate
  BY <1>0, <1>14 DEF Truncate, coordinator, NeverAhead
<1>15. CASE WriteModule
  BY <1>0, <1>15 DEF WriteModule, coordinator, NeverAhead
<1>16. CASE TakeQ
  BY <1>0, <1>16 DEF TakeQ, coordinator, NeverAhead
<1>17. CASE Interrupt
  BY <1>0, <1>17 DEF Interrupt, coordinator, generator, NeverAhead
<1>18. CASE GeneratorDies
  BY <1>0, <1>18 DEF GeneratorDies, coordinator, NeverAhead
<1>19. CASE Stopped
  BY <1>0, <1>19 DEF Stopped, vars, coordinator, generator, NeverAhead
<1> QED
  BY <1>1, <1>2, <1>3, <1>4, <1>5, <1>6, <1>7, <1>8, <1>9, <1>10,
     <1>11, <1>12, <1>13, <1>14, <1>15, <1>16, <1>17, <1>18, <1>19 DEF Next, Coordinator, Generator

\* After a generator that had caught up every tester reads the module of its step.
LEMMA OwnModuleKept == ASSUME IInv, Next PROVE OwnModule'
<1>0. /\ OwnModule
      /\ log \in [Engines -> Logs \cup {NoLog}] /\ ran \in [Engines -> {NoModule} \cup 0..Steps] /\ step \in Nat
  BY Counters DEF IInv, TypeOK
<1>1. CASE StoreSeed
  BY <1>0, <1>1 DEF StoreSeed, generator, OwnModule
<1>2. CASE SendW
  BY <1>0, <1>2 DEF SendW, Dies, generator, OwnModule
<1>3. CASE StoreStep
  BY <1>0, <1>3 DEF StoreStep, Store, generator, OwnModule
<1>4. CASE Launch
  BY <1>0, <1>4 DEF Launch, OwnModule, NoLog
<1>5. CASE NextStep
  BY <1>0, <1>5 DEF NextStep, generator, OwnModule
<1>6. CASE StoreCases
  BY <1>0, <1>6 DEF StoreCases, Store, generator, OwnModule
<1>7. CASE Compare
  BY <1>0, <1>7 DEF Compare, Dies, generator, OwnModule
<1>8. CASE CheckExit
  BY <1>0, <1>8 DEF CheckExit, Flush, generator, OwnModule
<1>9. CASE LoopDone
  BY <1>0, <1>9 DEF LoopDone, generator, OwnModule
<1>10. CASE End
  BY <1>0, <1>10 DEF End, Flush, generator, OwnModule
<1>11. CASE SendQ
  BY <1>0, <1>11 DEF SendQ, Dies, generator, OwnModule
<1>12. CASE Close
  BY <1>0, <1>12 DEF Close, Flush, generator, OwnModule
<1>13. ASSUME NEW e \in Engines, RunTester(e) PROVE OwnModule'
  <2>1. pc = "await" /\ pc' = "await" /\ step' = step /\ late' = late
    BY <1>13 DEF RunTester
  <2>2. CASE wasm.whole
    <3>1. ran' = [ran EXCEPT ![e] = wasm.module] /\ \E l \in Logs : log' = [log EXCEPT ![e] = l]
      BY <1>13, <2>2 DEF RunTester
    <3>2. wasm.module <= step /\ (~late => wasm.module = step)
      BY <2>1, <2>2, WholeFile DEF InMemStep
    <3> QED
      BY <1>0, <2>1, <3>1, <3>2 DEF OwnModule
  <2>3. CASE ~wasm.whole
    <3>1. ran' = ran /\ \E l \in {EmptyLog, BrokenLog} : log' = [log EXCEPT ![e] = l]
      BY <1>13, <2>3 DEF RunTester
    <3> QED
      BY <1>0, <2>1, <3>1 DEF OwnModule, EmptyLog, BrokenLog
  <2> QED
    BY <2>2, <2>3
<1>14. CASE Truncate
  BY <1>0, <1>14 DEF Truncate, coordinator, OwnModule
<1>15. CASE WriteModule
  BY <1>0, <1>15 DEF WriteModule, coordinator, OwnModule
<1>16. CASE TakeQ
  BY <1>0, <1>16 DEF TakeQ, coordinator, OwnModule
<1>17. CASE Interrupt
  BY <1>0, <1>17 DEF Interrupt, coordinator, generator, OwnModule
<1>18. CASE GeneratorDies
  BY <1>0, <1>18 DEF GeneratorDies, coordinator, OwnModule
<1>19. CASE Stopped
  BY <1>0, <1>19 DEF Stopped, vars, coordinator, generator, OwnModule
<1> QED
  BY <1>1, <1>2, <1>3, <1>4, <1>5, <1>6, <1>7, <1>8, <1>9, <1>10,
     <1>11, <1>12, <1>13, <1>14, <1>15, <1>16, <1>17, <1>18, <1>19 DEF Next, Coordinator, Generator

-----------------------------------------------------------------------------
(***************************************************************************)
(* What is on disk.                                                        *)
(***************************************************************************)
\* Rows of different tables, or of different keys, are different rows.
LEMMA PlainDiffer ==
    ASSUME NEW i, NEW j, NEW k, NEW l
    PROVE  /\ SeedRow # StepRow(i) /\ SeedRow # MemRow(i, j) /\ StepRow(k) # MemRow(i, j)
           /\ StepRow(i) = StepRow(k) => i = k
           /\ MemRow(i, j) = MemRow(k, l) => i = k /\ j = l
BY DEF SeedRow, StepRow, MemRow

LEMMA CasesDiffer ==
    ASSUME NEW i, NEW j, NEW k, NEW l, NEW e \in Engines, NEW o \in Engines
    PROVE  /\ CaseRow(e, i, j) # SeedRow /\ CaseRow(e, i, j) # StepRow(k) /\ CaseRow(e, i, j) # MemRow(k, l)
           /\ CaseRow(e, i, j) = CaseRow(o, k, l) => i = k /\ j = l
<1>1. e # "seed" /\ e # "step" /\ e # "mem"
  BY EnginesAssumption
<1> QED
  BY <1>1 DEF SeedRow, StepRow, MemRow, CaseRow

\* The seed row, and a step row once the seed row is there, may be added.
LEMMA SeedAdded == ASSUME NEW S, RowsWhole(S) PROVE RowsWhole(S \cup {SeedRow})
<1>1. ASSUME NEW i, NEW j
      PROVE  /\ StepRow(i) \in S \cup {SeedRow} => StepRow(i) \in S
             /\ MemRow(i, j) \in S \cup {SeedRow} => MemRow(i, j) \in S
             /\ \A e \in Engines : CaseRow(e, i, j) \in S \cup {SeedRow} => CaseRow(e, i, j) \in S
  BY PlainDiffer, CasesDiffer
<1> QED
  BY <1>1 DEF RowsWhole

LEMMA StepAdded ==
    ASSUME NEW S, RowsWhole(S), SeedRow \in S, NEW k
    PROVE  RowsWhole(S \cup {StepRow(k)})
<1>1. ASSUME NEW i, NEW j
      PROVE  /\ MemRow(i, j) \in S \cup {StepRow(k)} => MemRow(i, j) \in S
             /\ \A e \in Engines : CaseRow(e, i, j) \in S \cup {StepRow(k)} => CaseRow(e, i, j) \in S
  BY PlainDiffer, CasesDiffer
<1> QED
  BY <1>1 DEF RowsWhole

\* A memory step and its test cases may be added once the step row is there.
LEMMA MemStepAdded ==
    ASSUME NEW S, RowsWhole(S), NEW k, NEW l, StepRow(k) \in S
    PROVE  RowsWhole(S \cup ({MemRow(k, l)} \cup {CaseRow(e, k, l) : e \in Engines}))
<1> DEFINE T == S \cup ({MemRow(k, l)} \cup {CaseRow(e, k, l) : e \in Engines})
<1>a. \A x \in T : x \in S \/ x = MemRow(k, l) \/ \E e \in Engines : x = CaseRow(e, k, l)
  OBVIOUS
<1>4. S \subseteq T /\ MemRow(k, l) \in T /\ \A e \in Engines : CaseRow(e, k, l) \in T
  OBVIOUS
<1> HIDE DEF T
<1>1. ASSUME NEW i, StepRow(i) \in T PROVE StepRow(i) \in S
  <2>1. StepRow(i) # MemRow(k, l) /\ \A e \in Engines : CaseRow(e, k, l) # StepRow(i)
    BY PlainDiffer, CasesDiffer
  <2> QED
    BY <1>a, <1>1, <2>1
<1>2. ASSUME NEW i, NEW j, MemRow(i, j) \in T PROVE MemRow(i, j) \in S \/ (i = k /\ j = l)
  <2>1. \A e \in Engines : CaseRow(e, k, l) # MemRow(i, j)
    BY CasesDiffer
  <2>2. MemRow(i, j) = MemRow(k, l) => i = k /\ j = l
    BY PlainDiffer
  <2> QED
    BY <1>a, <1>2, <2>1, <2>2
<1>3. ASSUME NEW i, NEW j, NEW e \in Engines, CaseRow(e, i, j) \in T
      PROVE  CaseRow(e, i, j) \in S \/ (i = k /\ j = l)
  <2>1. CaseRow(e, i, j) # MemRow(k, l) /\ \A o \in Engines : CaseRow(e, i, j) = CaseRow(o, k, l) => i = k /\ j = l
    BY CasesDiffer
  <2> QED
    BY <1>a, <1>3, <2>1
<1>5. RowsWhole(T)
  BY <1>1, <1>2, <1>3, <1>4 DEF RowsWhole
<1> QED
  BY <1>5 DEF T

LEMMA Flushed == ASSUME Flush PROVE disk' \cup tx' = disk \cup tx /\ disk' = disk \cup tx /\ tx' = {}
BY DEF Flush

LEMMA Lost == ASSUME NEW how, Dies(how) PROVE disk' \cup tx' = disk /\ disk' = disk /\ tx' = {} /\ pc' = how
BY DEF Dies

\* No step leaves half of a memory step on disk.
LEMMA RowsKept == ASSUME IInv, Next PROVE (RowInv /\ DurableWhole /\ SavedBeforeQuit)'
<1>0. RowInv /\ DurableWhole /\ SavedBeforeQuit
  BY DEF IInv
<1>1. CASE StoreSeed
  <2>1. /\ disk' = disk \cup tx \cup {SeedRow} /\ tx' = {} /\ pc' = "outer"
        /\ disk' \cup tx' = disk'
    BY <1>1 DEF StoreSeed
  <2>2. RowsWhole(disk')
    BY <1>0, <2>1, SeedAdded DEF RowInv
  <2> QED
    BY <1>0, <2>1, <2>2 DEF RowInv, DurableWhole, SavedBeforeQuit, InMemStep
<1>2. CASE SendW
  <2>1. CASE gen = "dead"
    BY <1>0, <1>2, <2>1, Lost DEF SendW, RowInv, DurableWhole, SavedBeforeQuit, InMemStep
  <2>2. CASE ~(gen = "dead")
    BY <1>0, <1>2, <2>2 DEF SendW, RowInv, DurableWhole, SavedBeforeQuit, InMemStep
  <2> QED
    BY <2>1, <2>2
<1>3. CASE StoreStep
  <2>1. /\ disk' \cup tx' = (disk \cup tx) \cup {StepRow(step)} /\ disk' = disk
        /\ pc = "sleep" /\ pc' = "inner" /\ step' = step /\ StepRow(step)' = StepRow(step)
    BY <1>3 DEF StoreStep, Store, StepRow
  <2>2. RowsWhole((disk \cup tx) \cup {StepRow(step)})
    BY <1>0, <2>1, StepAdded DEF RowInv
  <2> QED
    BY <1>0, <2>1, <2>2 DEF RowInv, DurableWhole, SavedBeforeQuit, InMemStep
<1>4. CASE Launch
  BY <1>0, <1>4 DEF Launch, generator, RowInv, DurableWhole, SavedBeforeQuit, InMemStep
<1>5. CASE NextStep
  BY <1>0, <1>5 DEF NextStep, generator, RowInv, DurableWhole, SavedBeforeQuit, InMemStep
<1>6. CASE StoreCases
  <2> DEFINE rows == {MemRow(step, mem)} \cup {CaseRow(e, step, mem) : e \in Engines}
  <2>1. /\ disk' \cup tx' = (disk \cup tx) \cup rows /\ disk' = disk
        /\ pc = "await" /\ pc' = "compare" /\ step' = step /\ StepRow(step)' = StepRow(step)
    BY <1>6 DEF StoreCases, Store, StepRow
  <2>2. RowsWhole((disk \cup tx) \cup rows)
    BY <1>0, <2>1, MemStepAdded DEF RowInv, InMemStep
  <2> HIDE DEF rows
  <2> QED
    BY <1>0, <2>1, <2>2 DEF RowInv, DurableWhole, SavedBeforeQuit, InMemStep
<1>7. CASE Compare
  <2>1. CASE Dies("aborted")
    <3>1. pc = "compare"
      BY <1>7 DEF Compare
    <3> QED
      BY <1>0, <2>1, <3>1, Lost DEF RowInv, DurableWhole, SavedBeforeQuit, InMemStep
  <2>2. CASE ~Dies("aborted")
    BY <1>0, <1>7, <2>2 DEF Compare, RowInv, DurableWhole, SavedBeforeQuit, InMemStep
  <2> QED
    BY <2>1, <2>2
<1>8. CASE CheckExit
  <2>1. CASE ~exit /\ FlushDue
    <3>1. Flush /\ pc = "check" /\ pc' = "inner" /\ step' = step /\ StepRow(step)' = StepRow(step)
      BY <1>8, <2>1 DEF CheckExit, StepRow
    <3> QED
      BY <1>0, <3>1, Flushed DEF RowInv, DurableWhole, SavedBeforeQuit, InMemStep
  <2>2. CASE ~(~exit /\ FlushDue)
    BY <1>0, <1>8, <2>2 DEF CheckExit, RowInv, DurableWhole, SavedBeforeQuit, InMemStep
  <2> QED
    BY <2>1, <2>2
<1>9. CASE LoopDone
  BY <1>0, <1>9 DEF LoopDone, generator, RowInv, DurableWhole, SavedBeforeQuit, InMemStep
<1>10. CASE End
  BY <1>0, <1>10, Flushed DEF End, RowInv, DurableWhole, SavedBeforeQuit, InMemStep
<1>11. CASE SendQ
  <2>1. CASE gen = "dead"
    BY <1>0, <1>11, <2>1, Lost DEF SendQ, RowInv, DurableWhole, SavedBeforeQuit, InMemStep
  <2>2. CASE ~(gen = "dead")
    BY <1>0, <1>11, <2>2 DEF SendQ, RowInv, DurableWhole, SavedBeforeQuit, InMemStep
  <2> QED
    BY <2>1, <2>2
<1>12. CASE Close
  BY <1>0, <1>12, Flushed DEF Close, RowInv, DurableWhole, SavedBeforeQuit, InMemStep
<1>13. ASSUME NEW e \in Engines, RunTester(e) PROVE (RowInv /\ DurableWhole /\ SavedBeforeQuit)'
  BY <1>0, <1>13 DEF RunTester, generator, RowInv, DurableWhole, SavedBeforeQuit, InMemStep
<1>14. CASE Truncate
  BY <1>0, <1>14 DEF Truncate, coordinator, RowInv, DurableWhole, SavedBeforeQuit, InMemStep
<1>15. CASE WriteModule
  BY <1>0, <1>15 DEF WriteModule, coordinator, RowInv, DurableWhole, SavedBeforeQuit, InMemStep
<1>16. CASE TakeQ
  BY <1>0, <1>16 DEF TakeQ, coordinator, RowInv, DurableWhole, SavedBeforeQuit, InMemStep
<1>17. CASE Interrupt
  BY <1>0, <1>17 DEF Interrupt, coordinator, generator, RowInv, DurableWhole, SavedBeforeQuit, InMemStep
<1>18. CASE GeneratorDies
  BY <1>0, <1>18 DEF GeneratorDies, coordinator, RowInv, DurableWhole, SavedBeforeQuit, InMemStep
<1>19. CASE Stopped
  BY <1>0, <1>19 DEF Stopped, vars, coordinator, generator, RowInv, DurableWhole, SavedBeforeQuit, InMemStep
<1> QED
  BY <1>1, <1>2, <1>3, <1>4, <1>5, <1>6, <1>7, <1>8, <1>9, <1>10,
     <1>11, <1>12, <1>13, <1>14, <1>15, <1>16, <1>17, <1>18, <1>19 DEF Next, Coordinator, Generator

-----------------------------------------------------------------------------
(***************************************************************************)
(* What CompareLogs stores.                                                *)
(***************************************************************************)
\* The rows of two logs are as many as the shorter log has calls, and keep
\* success and memory of each.
LEMMA RowsOfCalls ==
    ASSUME NEW v \in CallSeqs, NEW m \in CallSeqs
    PROVE  /\ Len(CallRows(v, m)) = Shorter(v, m) /\ Shorter(v, m) <= Len(v) /\ Shorter(v, m) <= Len(m)
           /\ Shorter(v, m) = Len(v) \/ Shorter(v, m) = Len(m)
           /\ \A k \in 1..Shorter(v, m) : \A e \in Engines :
                 /\ CallRows(v, m)[k].ok[e] = IF e = V8 THEN v[k].ok ELSE m[k].ok
                 /\ CallRows(v, m)[k].mem[e] = IF e = V8 THEN v[k].mem ELSE m[k].mem
<1> DEFINE n == Shorter(v, m)
           rows == CallRows(v, m)
<1>1. Len(v) \in Nat /\ Len(m) \in Nat
  BY BoundsAssumption DEF CallSeqs
<1>2. n \in Nat /\ n <= Len(v) /\ n <= Len(m) /\ (n = Len(v) \/ n = Len(m))
  BY <1>1 DEF Shorter
<1>3. rows = [k \in 1..n |-> CallRow(v[k], m[k])]
  BY DEF CallRows
<1>4. Len(rows) = n
  BY <1>2, <1>3
<1>5. \A k \in 1..n : rows[k] = CallRow(v[k], m[k])
  BY <1>3
<1>6. \A a, b : \A e \in Engines : /\ CallRow(a, b).ok[e] = IF e = V8 THEN a.ok ELSE b.ok
                                   /\ CallRow(a, b).mem[e] = IF e = V8 THEN a.mem ELSE b.mem
  BY DEF CallRow
<1> QED
  BY <1>2, <1>4, <1>5, <1>6

\* The stored calls read back as the logs.
LEMMA CallsKept == ASSUME IInv, Next PROVE CallsReadBack'
<1>0. CallsReadBack /\ log \in [Engines -> Logs \cup {NoLog}]
  BY DEF IInv, TypeOK
<1>1. CASE StoreSeed
  BY <1>0, <1>1 DEF StoreSeed, generator, CallsReadBack
<1>2. CASE SendW
  BY <1>0, <1>2 DEF SendW, Dies, generator, CallsReadBack
<1>3. CASE StoreStep
  BY <1>0, <1>3 DEF StoreStep, Store, generator, CallsReadBack
<1>4. CASE Launch
  BY <1>0, <1>4 DEF Launch, generator, CallsReadBack
<1>5. CASE NextStep
  BY <1>0, <1>5 DEF NextStep, generator, CallsReadBack
<1>6. CASE StoreCases
  BY <1>0, <1>6 DEF StoreCases, Store, generator, CallsReadBack
<1>7. CASE Compare
  <2>1. log' = log
    BY <1>7 DEF Compare, Dies
  <2>2. CASE \E e \in Engines : log[e].text # "parses"
    BY <2>1, <2>2 DEF CallsReadBack
  <2>3. CASE \A e \in Engines : log[e].text = "parses"
    <3>1. CASE pc' = "aborted"
      BY <3>1 DEF CallsReadBack
    <3>2. CASE pc' # "aborted"
      <4> DEFINE v == log[V8].calls
                 m == log[SpiderMonkey].calls
                 n == Shorter(v, m)
      <4>1. calls' = CallRows(v, m)
        BY <1>7, <2>3, <3>2 DEF Compare, Dies, Engines
      <4>2. v \in CallSeqs /\ m \in CallSeqs
        <5>1. ASSUME NEW e \in Engines PROVE log[e].calls \in CallSeqs
          <6>1. log[e] \in ParsedLogs
            BY <1>0, <2>3 DEF Logs, EmptyLog, BrokenLog, NoLog
          <6> QED
            BY <6>1 DEF ParsedLogs
        <5> QED
          BY <5>1 DEF Engines
      <4>3. /\ Len(calls') = n /\ n <= Len(v) /\ n <= Len(m) /\ (n = Len(v) \/ n = Len(m))
            /\ \A k \in 1..n : \A e \in Engines :
                  /\ calls'[k].ok[e] = IF e = V8 THEN v[k].ok ELSE m[k].ok
                  /\ calls'[k].mem[e] = IF e = V8 THEN v[k].mem ELSE m[k].mem
        <5>1. n = Shorter(v, m)
          OBVIOUS
        <5> HIDE DEF v, m, n
        <5> QED
          BY <4>1, <4>2, <5>1, RowsOfCalls
      <4>4. \A e \in Engines : e = V8 \/ e = SpiderMonkey
        BY DEF Engines
      <4>5. V8 \in Engines /\ SpiderMonkey \in Engines /\ V8 # SpiderMonkey
        BY EnginesAssumption DEF Engines
      <4> HIDE DEF n
      <4> QED
        BY <2>1, <4>3, <4>4, <4>5 DEF CallsReadBack
    <3> QED
      BY <3>1, <3>2
  <2> QED
    BY <2>2, <2>3
<1>8. CASE CheckExit
  BY <1>0, <1>8 DEF CheckExit, Flush, generator, CallsReadBack
<1>9. CASE LoopDone
  BY <1>0, <1>9 DEF LoopDone, generator, CallsReadBack
<1>10. CASE End
  BY <1>0, <1>10 DEF End, Flush, generator, CallsReadBack
<1>11. CASE SendQ
  BY <1>0, <1>11 DEF SendQ, Dies, generator, CallsReadBack
<1>12. CASE Close
  BY <1>0, <1>12 DEF Close, Flush, generator, CallsReadBack
<1>13. ASSUME NEW e \in Engines, RunTester(e) PROVE CallsReadBack'
  BY <1>0, <1>13 DEF RunTester, generator, CallsReadBack
<1>14. CASE Truncate
  BY <1>0, <1>14 DEF Truncate, coordinator, CallsReadBack
<1>15. CASE WriteModule
  BY <1>0, <1>15 DEF WriteModule, coordinator, CallsReadBack
<1>16. CASE TakeQ
  BY <1>0, <1>16 DEF TakeQ, coordinator, CallsReadBack
<1>17. CASE Interrupt
  BY <1>0, <1>17 DEF Interrupt, coordinator, generator, CallsReadBack
<1>18. CASE GeneratorDies
  BY <1>0, <1>18 DEF GeneratorDies, coordinator, CallsReadBack
<1>19. CASE Stopped
  BY <1>0, <1>19 DEF Stopped, vars, coordinator, generator, CallsReadBack
<1> QED
  BY <1>1, <1>2, <1>3, <1>4, <1>5, <1>6, <1>7, <1>8, <1>9, <1>10,
     <1>11, <1>12, <1>13, <1>14, <1>15, <1>16, <1>17, <1>18, <1>19 DEF Next, Coordinator, Generator

-----------------------------------------------------------------------------
(***************************************************************************)
(* The theorems.                                                           *)
(***************************************************************************)
\* A session starts with nothing stored and nothing asked for.
LEMMA InitIInv == Init => IInv
<1> SUFFICES ASSUME Init PROVE IInv
  OBVIOUS
<1>0. Steps \in Nat /\ MemSteps \in Nat
  BY BoundsAssumption
<1>1. TypeOK
  <2>1. log \in [Engines -> Logs \cup {NoLog}] /\ ran \in [Engines -> {NoModule} \cup 0..Steps]
    BY DEF Init
  <2>2. wasm \in [module : {NoModule} \cup 0..Steps, whole : BOOLEAN]
    BY DEF Init
  <2>3. pc = "seed" /\ step = 0 /\ mem = 0 /\ exit = FALSE /\ tx = {} /\ disk = {}
        /\ pending = 0 /\ quit = FALSE /\ gen = "idle" /\ made = 0 /\ late = FALSE
    BY DEF Init
  <2>4. 0 \in 0..Steps /\ 0 \in 0..MemSteps
    BY <1>0
  <2> QED
    BY <2>1, <2>2, <2>3, <2>4 DEF TypeOK
<1>2. CountInv /\ FileInv /\ CaughtUpInv
  BY <1>0 DEF Init, CountInv, FileInv, CaughtUpInv, Busy, InStep, InMemStep
<1>3. RowInv /\ DurableWhole /\ SavedBeforeQuit
  BY DEF Init, RowInv, RowsWhole, DurableWhole, SavedBeforeQuit, InMemStep
<1>4. OwnModule /\ NeverAhead /\ CallsReadBack
  BY DEF Init, OwnModule, NeverAhead, CallsReadBack
<1> QED
  BY <1>1, <1>2, <1>3, <1>4 DEF IInv

\* Every step of the coordinator, of a tester and of the generator keeps the
\* invariant: the commands, the module file and the rows stay consistent.
THEOREM Inductive == Spec => []IInv
<1>1. ASSUME IInv, Next PROVE IInv'
  BY <1>1, CountKept, FileKept, CaughtUpKept, TypesKept, NeverAheadKept, OwnModuleKept, RowsKept, CallsKept DEF IInv
<1>2. ASSUME IInv, UNCHANGED vars PROVE IInv'
  <2>1. CASE Ended
    BY <1>1, <1>2, <2>1 DEF Next, Stopped
  <2>2. /\ pc' = pc /\ step' = step /\ mem' = mem /\ log' = log /\ calls' = calls /\ tx' = tx /\ disk' = disk
        /\ exit' = exit /\ pending' = pending /\ quit' = quit /\ gen' = gen /\ made' = made /\ wasm' = wasm
        /\ ran' = ran /\ late' = late
    BY <1>2 DEF vars, coordinator, generator
  <2>3. TypeOK' /\ CountInv' /\ FileInv' /\ CaughtUpInv'
    BY <1>2, <2>2 DEF IInv, TypeOK, CountInv, FileInv, CaughtUpInv, Busy
  <2>4. RowInv' /\ DurableWhole' /\ SavedBeforeQuit' /\ OwnModule' /\ NeverAhead' /\ CallsReadBack'
    BY <1>2, <2>2 DEF IInv, RowInv, DurableWhole, SavedBeforeQuit, OwnModule, NeverAhead, CallsReadBack
  <2> QED
    BY <2>3, <2>4 DEF IInv
<1> QED
  BY <1>1, <1>2, InitIInv, PTL DEF Spec


\* The variables keep their types, and the counters stay within their loops,
\* however many "w"s the generator is behind.
THEOREM TypeCorrect == Spec => []TypeOK
<1>1. IInv => TypeOK
  BY DEF IInv
<1> QED
  BY <1>1, Inductive, PTL

\* After a sleep that was long enough, every tester of every memory step runs
\* the module of the step its rows refer to.
THEOREM RunsItsModule == Spec => []OwnModule
<1>1. IInv => OwnModule
  BY DEF IInv
<1> QED
  BY <1>1, Inductive, PTL

\* However slow the generator is, no tester runs the module of a later step.
THEOREM RunsNoLaterModule == Spec => []NeverAhead
<1>1. IInv => NeverAhead
  BY DEF IInv
<1> QED
  BY <1>1, Inductive, PTL

\* Whenever the coordinator dies, the database holds no half of a memory step
\* and no row without the rows its foreign keys name.
THEOREM DiskIsWhole == Spec => []DurableWhole
<1>1. IInv => DurableWhole
  BY DEF IInv
<1> QED
  BY <1>1, Inductive, PTL

\* When the generator is told to quit, every row is on disk.
THEOREM NothingLeftToSave == Spec => []SavedBeforeQuit
<1>1. IInv => SavedBeforeQuit
  BY DEF IInv
<1> QED
  BY <1>1, Inductive, PTL

\* The rows of a memory step read back as the common prefix of the two logs,
\* for logs of any length.
THEOREM StoredAsLogged == Spec => []CallsReadBack
<1>1. IInv => CallsReadBack
  BY DEF IInv
<1> QED
  BY <1>1, Inductive, PTL
-----------------------------------------------------------------------------
(***************************************************************************)
(* What stands behind SessionEnds: the coordinator never comes back to     *)
(* where it was.                                                           *)
(***************************************************************************)
Stage == IF pc = "seed" THEN 0
         ELSE IF pc \in {"outer"} \cup InStep THEN 1
         ELSE IF pc = "end" THEN 2 ELSE IF pc = "quit" THEN 3 ELSE IF pc = "close" THEN 4 ELSE 5

\* Where a step of the outer loop stands, and a memory step of the inner one.
Part == IF pc = "outer" THEN 0 ELSE IF pc = "sleep" THEN 1 ELSE 2
Turn == IF pc \in {"inner"} \cup InMemStep THEN mem ELSE 0
Point == IF pc = "await" THEN 1 ELSE IF pc = "compare" THEN 2 ELSE IF pc = "check" THEN 3 ELSE 0

\* The workers that have not returned.
Awaited == IF pc = "await" THEN {e \in Engines : log[e] = NoLog} ELSE {}

InnerAdvances ==
    \/ Turn' > Turn
    \/ Turn' = Turn /\ Point' > Point
    \/ Turn' = Turn /\ Point' = Point /\ Awaited' \subseteq Awaited /\ Awaited' # Awaited

Advances ==
    \/ Stage' > Stage
    \/ /\ Stage' = 1 /\ Stage = 1
       /\ \/ step' > step
          \/ step' = step /\ Part' > Part
          \/ step' = step /\ Part' = Part /\ InnerAdvances

\* A session is finite: every step of the coordinator advances it in an order
\* whose places are bounded by the two loops (TypeCorrect) and by the two
\* engines, and nothing else moves it, for any number of steps and memory steps.
THEOREM SessionAdvances ==
    Spec => [][(Coordinator => Advances) /\ (~Coordinator => UNCHANGED <<pc, step, mem, log>>)]_vars
<1>1. ASSUME IInv, Coordinator PROVE Advances
    <2>1. step \in Nat /\ mem \in Nat
        BY <1>1, Counters DEF IInv
    <2>2. CASE StoreSeed \/ End \/ LoopDone \/ Close
        BY <2>2 DEF StoreSeed, End, LoopDone, Close, Advances, Stage, InStep
    <2>3. CASE SendQ
        BY <2>3 DEF SendQ, Dies, Advances, Stage, InStep
    <2>4. CASE SendW
        BY <2>4 DEF SendW, Dies, Advances, Stage, Part, InStep
    <2>5. CASE StoreStep
        BY <2>5 DEF StoreStep, Advances, Stage, Part, InStep
    <2>6. CASE NextStep
        BY <2>1, <2>6 DEF NextStep, Advances, Stage, InStep
    <2>7. CASE Launch
        BY <2>1, <2>7 DEF Launch, Advances, InnerAdvances, Stage, Part, Turn, Point, InStep, InMemStep
    <2>8. CASE StoreCases
        BY <2>1, <2>8 DEF StoreCases, Advances, InnerAdvances, Stage, Part, Turn, Point, InStep, InMemStep
    <2>9. CASE Compare
        <3>1. pc = "compare" /\ (pc' = "aborted" \/ (pc' = "check" /\ UNCHANGED <<step, mem>>))
            BY <2>9 DEF Compare, Dies
        <3>2. QED
            BY <2>1, <3>1 DEF Advances, InnerAdvances, Stage, Part, Turn, Point, InStep, InMemStep
    <2>10. CASE CheckExit
        <3>1. pc = "check" /\ step' = step /\ (pc' = "end" \/ (pc' = "inner" /\ mem' = mem + 1))
            BY <2>10 DEF CheckExit
        <3>2. QED
            BY <2>1, <3>1 DEF Advances, InnerAdvances, Stage, Part, Turn, InStep, InMemStep
    <2>11. CASE \E e \in Engines : RunTester(e)
        <3>1. PICK e \in Engines : RunTester(e)
            BY <2>11
        <3>2. pc = "await" /\ UNCHANGED <<pc, step, mem>> /\ log[e] = NoLog
            BY <3>1 DEF RunTester
        <3>3. PICK l \in Logs : log' = [log EXCEPT ![e] = l]
            BY <3>1 DEF RunTester, Logs
        <3>4. l # NoLog
            BY DEF Logs, EmptyLog, BrokenLog, ParsedLogs, NoLog
        <3>5. log'[e] = l /\ \A o \in Engines \ {e} : log'[o] = log[o]
            BY <1>1, <3>3 DEF IInv, TypeOK
        <3>6. Awaited' \subseteq Awaited /\ e \in Awaited /\ e \notin Awaited'
            BY <3>2, <3>4, <3>5 DEF Awaited
        <3>7. Turn' = Turn /\ Point' = Point /\ Part' = Part /\ Stage' = 1 /\ Stage = 1
            BY <3>2 DEF Turn, Point, Part, Stage, InStep, InMemStep
        <3>8. QED
            BY <3>2, <3>6, <3>7 DEF Advances, InnerAdvances
    <2>12. QED
        BY <1>1, <2>2, <2>3, <2>4, <2>5, <2>6, <2>7, <2>8, <2>9, <2>10, <2>11 DEF Coordinator
<1>2. [Next]_vars /\ ~Coordinator => UNCHANGED <<pc, step, mem, log>>
    BY DEF Next, Generator, Truncate, WriteModule, TakeQ, Interrupt, GeneratorDies, Stopped, vars, coordinator
<1>3. IInv /\ [Next]_vars => [(Coordinator => Advances) /\ (~Coordinator => UNCHANGED <<pc, step, mem, log>>)]_vars
    BY <1>1, <1>2
<1>4. QED
    BY <1>3, Inductive, PTL DEF Spec
-----------------------------------------------------------------------------
(***************************************************************************)
(* The coordinator never waits for its generator, and the generator is     *)
(* told to end.                                                            *)
(***************************************************************************)
\* The futures are taken before the logs are compared, and an orderly end is
\* one that has written "q".
HandOver ==
    /\ pc = "compare" => \A e \in Engines : log[e] # NoLog
    /\ pc \in {"close", "exited"} => quit

LEMMA HandOverStep == IInv /\ HandOver /\ [Next]_vars => HandOver'
<1> SUFFICES ASSUME IInv, HandOver, [Next]_vars PROVE HandOver'
  OBVIOUS
<1>1. CASE pc' \notin {"compare", "close", "exited"}
  BY <1>1 DEF HandOver
<1>2. CASE UNCHANGED <<pc, log, quit>>
  BY <1>2 DEF HandOver
<1>3. CASE StoreCases
  BY <1>3 DEF StoreCases, HandOver
<1>4. CASE SendQ
  BY <1>4 DEF SendQ, Dies, HandOver
<1>5. CASE Close
  BY <1>5 DEF Close, HandOver
<1>6. CASE StoreSeed \/ SendW \/ StoreStep \/ Launch \/ NextStep \/ Compare \/ CheckExit \/ LoopDone
           \/ End \/ \E e \in Engines : RunTester(e)
  <2>1. pc' \notin {"compare", "close", "exited"}
    BY <1>6 DEF StoreSeed, SendW, StoreStep, Launch, NextStep, Compare, CheckExit, LoopDone, End,
       RunTester, Dies
  <2> QED
    BY <1>1, <2>1
<1>7. CASE Generator \/ Interrupt \/ GeneratorDies \/ Stopped \/ UNCHANGED vars
  <2>1. UNCHANGED <<pc, log, quit>>
    BY <1>7 DEF Generator, Truncate, WriteModule, TakeQ, Interrupt, GeneratorDies, Stopped, vars, coordinator
  <2> QED
    BY <1>2, <2>1
<1> QED
  BY <1>3, <1>4, <1>5, <1>6, <1>7 DEF Next, Coordinator

LEMMA HandedOver == Spec => [](IInv /\ HandOver)
<1>1. Init => HandOver
  BY DEF Init, HandOver
<1> QED
  BY <1>1, HandOverStep, Inductive, PTL DEF Spec

\* The guards of the coordinator.
CanMove ==
    \/ pc \in {"seed", "sleep", "await", "check", "end", "quit", "close"}
    \/ pc = "outer" /\ step <= Steps
    \/ pc = "inner" /\ mem <= MemSteps
    \/ pc = "compare" /\ \/ \E e \in Engines : log[e].text \in {"empty", "broken"}
                         \/ \A e \in Engines : log[e].text = "parses"

\* Until the session has ended, the coordinator by itself can take a step: it
\* never waits for the generator, be it dead, behind, or in the middle of a
\* module, and CompareLogs has a case for every pair of logs.
THEOREM NoStandstill == Spec => [](~Ended => CanMove)
<1>1. IInv /\ HandOver => (~Ended => CanMove)
  <2> SUFFICES ASSUME IInv, HandOver, ~Ended PROVE CanMove
    OBVIOUS
  <2>1. TypeOK
    BY DEF IInv
  <2>2. CASE pc = "compare"
    <3>1. \A e \in Engines : log[e] \in Logs
      BY <2>1, <2>2 DEF TypeOK, HandOver
    <3>2. \A e \in Engines : log[e].text \in {"empty", "broken", "parses"}
      BY <3>1 DEF Logs, EmptyLog, BrokenLog, ParsedLogs
    <3> QED
      BY <2>2, <3>2 DEF CanMove
  <2>3. CASE pc \in {"outer", "inner"}
    BY <2>1, <2>3, Counters DEF CanMove
  <2> QED
    BY <2>1, <2>2, <2>3 DEF TypeOK, Ended, CanMove
<1> QED
  BY <1>1, HandedOver, PTL

\* The guards of the generator, and what it has to do before it ends.
GeneratorCanMove ==
    \/ gen = "busy"
    \/ gen = "idle" /\ (pending > 0 \/ quit)

Alive == IF gen = "dead" THEN 0 ELSE 1
Work == 2 * pending + Busy + Alive

\* A generator that outlives an orderly end of its session never waits for a
\* command that will not come, and what it has left to do is finite: each of
\* its steps leaves it less, one for each "w" still in the pipe and one for
\* each module, and nobody gives it more.
THEOREM GeneratorFinishes ==
    Spec => /\ [](pc \in {"close", "exited"} /\ gen # "dead" => GeneratorCanMove)
            /\ [][(Generator => Work' < Work) /\ (pc \in {"close", "exited"} => Work' <= Work)]_vars
<1>1. IInv /\ HandOver => (pc \in {"close", "exited"} /\ gen # "dead" => GeneratorCanMove)
  BY DEF IInv, TypeOK, HandOver, GeneratorCanMove
<1>2. ASSUME IInv, [Next]_vars
      PROVE  (Generator => Work' < Work) /\ (pc \in {"close", "exited"} => Work' <= Work)
  <2>0. pending \in Nat /\ gen \in {"idle", "busy", "dead"}
    BY <1>2, Counters DEF IInv, TypeOK
  <2>1. CASE Truncate
    BY <2>0, <2>1 DEF Truncate, Work, Busy, Alive
  <2>2. CASE WriteModule
    BY <2>0, <2>2 DEF WriteModule, Work, Busy, Alive
  <2>3. CASE TakeQ
    BY <2>0, <2>3 DEF TakeQ, Work, Busy, Alive
  <2>4. CASE GeneratorDies
    BY <2>0, <2>4 DEF GeneratorDies, Generator, Truncate, WriteModule, TakeQ, Work, Busy, Alive
  <2>5. CASE (pc \notin {"close", "exited"} \/ UNCHANGED <<pending, gen>>) /\ ~Generator
    <3>1. UNCHANGED <<pending, gen>> => Work' = Work /\ Work \in Nat
      BY <2>0 DEF Work, Busy, Alive
    <3> QED
      BY <2>5, <3>1
  <2>6. ~Generator /\ ~GeneratorDies => pc \notin {"close", "exited"} \/ UNCHANGED <<pending, gen>>
    BY <1>2 DEF Next, Coordinator, StoreSeed, SendW, StoreStep, Launch, NextStep, StoreCases, Compare,
       CheckExit, LoopDone, End, SendQ, Close, RunTester, Interrupt, Stopped, vars, generator
  <2> QED
    BY <2>1, <2>2, <2>3, <2>4, <2>5, <2>6 DEF Generator
<1>3. IInv /\ [Next]_vars =>
        [(Generator => Work' < Work) /\ (pc \in {"close", "exited"} => Work' <= Work)]_vars
  BY <1>2
<1> QED
  BY <1>1, <1>3, HandedOver, Inductive, PTL DEF Spec
=============================================================================
