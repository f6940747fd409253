------------------------------- MODULE Campaign -------------------------------
(***************************************************************************)
(* What the file of results promises its reader: the seeds of the sessions *)
(* that were started, and for each of them either nothing or everything    *)
(* that the session ever found.                                            *)
(***************************************************************************)
CONSTANTS Sessions, Results

VARIABLES
    recorded,   \* the sessions whose seed is in the file
    results     \* the results in the file, each with its session

Init == recorded = {} /\ results = {}

\* A session announces itself before it does anything else.
Record(s) == s \notin recorded /\ recorded' = recorded \cup {s} /\ UNCHANGED results

\* The results of a session appear all at once, and do not change any more.
Publish(s) ==
    /\ s \in recorded /\ \A x \in results : x[1] # s
    /\ results \subseteq results' /\ results' \ results \subseteq {s} \X Results
    /\ UNCHANGED recorded

Next == \E s \in Sessions : Record(s) \/ Publish(s)

Spec == Init /\ [][Next]_<<recorded, results>>
=============================================================================
