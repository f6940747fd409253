----------------------------- MODULE TesterReport -----------------------------
(***************************************************************************)
(* What one run of a tester promises the fuzzing loop: a report that       *)
(* either holds the whole output of a finished tester, or says timeout,    *)
(* claims no success and holds a prefix of that output.                    *)
(***************************************************************************)
EXTENDS Naturals

CONSTANTS
    Engines,    \* the engines compared
    MaxOutput   \* bound: the units of a whole output

VARIABLES
    output,     \* units the tester has written
    sealed,     \* it can write no more
    report      \* what the fuzzing loop was told

vars == <<output, sealed, report>>

Init ==
    /\ output = [e \in Engines |-> 0]
    /\ sealed = [e \in Engines |-> FALSE]
    /\ report = [e \in Engines |-> [made |-> FALSE, success |-> FALSE, timeout |-> FALSE, length |-> 0]]

\* The tester writes, or closes its output, or both.
Produce(e) ==
    /\ UNCHANGED report
    /\ ~sealed[e]
    /\ \E n \in {output[e], output[e] + 1} \cap 0..MaxOutput :
          output' = [output EXCEPT ![e] = n]
    /\ \E s \in BOOLEAN : sealed' = [sealed EXCEPT ![e] = s]

\* The report of a finished tester, or of one that ran out of time.
Made(e, success, timeout, length) ==
    report' = [report EXCEPT ![e] =
        [made |-> TRUE, success |-> success, timeout |-> timeout, length |-> length]]

Report(e) ==
    /\ UNCHANGED <<output, sealed>>
    /\ ~report[e].made
    /\ \/ sealed[e] /\ \E s \in BOOLEAN : Made(e, s, FALSE, output[e])
       \/ \E n \in 0..output[e] : Made(e, FALSE, TRUE, n)

Next == \E e \in Engines : Produce(e) \/ Report(e)

Spec == Init /\ [][Next]_vars /\ \A e \in Engines : WF_vars(Report(e))
=============================================================================
