---------------------------- MODULE MCSingleRun ----------------------------
(***************************************************************************)
(* Small instances of SingleRun: a memory that can grow up to the length   *)
(* of its file, a memory longer than its file, and a module without any    *)
(* function.  The engines list the functions in different orders, and the  *)
(* patterns 0 and 2 of a global are two zeros.                             *)
(***************************************************************************)
EXTENDS SingleRun

CONSTANTS v8, sm

MCEngines == {v8, sm}
MCDenotes == [b \in 0..2 |-> IF b = 2 THEN 0 ELSE b]

Growing == [arity |-> <<0, 1>>, listed |-> [e \in MCEngines |-> IF e = v8 THEN <<1, 2>> ELSE <<2, 1>>],
            globals |-> 1, length |-> 1, limit |-> 2, segments |-> <<1>>, file |-> <<0, 1>>,
            stream |-> <<2, 1, 1, 0, 2>>]
LongerThanFile == [Growing EXCEPT !.globals = 0, !.length = 2, !.segments = <<>>, !.file = <<1>>,
                                  !.stream = <<1, 0, 2>>]
Functionless == [Growing EXCEPT !.arity = <<>>, !.listed = [e \in MCEngines |-> <<>>]]

MCTests == {Growing, LongerThanFile, Functionless}
=============================================================================
