---------------------------- MODULE MCFuzzingLoop ----------------------------
(***************************************************************************)
(* Small instances of FuzzingLoop: two modules with two memory steps each, *)
(* and a flush period longer than the inner loop, as in the code.          *)
(***************************************************************************)
EXTENDS FuzzingLoop

\* A plain call, a call that fails, a call that leaves memory and globals changed.
MCCallKinds == {[ok |-> TRUE, mem |-> FALSE, glob |-> FALSE],
                [ok |-> FALSE, mem |-> TRUE, glob |-> FALSE],
                [ok |-> TRUE, mem |-> TRUE, glob |-> TRUE]}
=============================================================================
