----------------------------- MODULE MCTesterRun -----------------------------
(***************************************************************************)
(* Small instances of TesterRun: the two engines, the four descriptor      *)
(* numbers two pipes need, and a log longer than its pipe.                 *)
(***************************************************************************)
EXTENDS TesterRun

CONSTANTS v8, sm

MCEngines == {v8, sm}
MCFds == 4..7
MCDropsRet == {v8}
=============================================================================
