----------------------------- MODULE MCTesterMain -----------------------------
(***************************************************************************)
(* The testers with every command line of up to four of its words and the  *)
(* one the coordinator gives them, and the other two programs with the     *)
(* command lines they are started with, less a word or with one more; up   *)
(* to three lines at the prompt.  Integers are 2 and 4 bits wide.          *)
(***************************************************************************)
EXTENDS TesterMain

Short == UNION {[1..n -> {"-input", "-mode", "-arg-seed", "-invoke-count", "a.wasm", "single", "7x"}] : n \in 0..4}
WithMode(m) == <<"-input", "a.wasm", "-mode", m>>
Memories == {<<>>, <<"-memory", "mem">>, <<"-memory", "none">>}
More ==
    {WithMode(m) : m \in {"interactive", "other", "invoke"}} \cup {WithMode(m) \o x : m \in {"single", "debug"}, x \in Memories}
        \cup {WithMode("invoke") \o <<"-function", "f">> \o x : x \in Memories}

ByCoordinator == <<"-mode", "single", "-input", "a.wasm", "-memory", "mem", "-arg-seed", "7">>
OfGenerator == <<"-block-size", "7", "-seed", "7", "-output", "o", "-memory", "mem">>
OfPerson == <<"-block-size", "7", "-output-folder", "o", "-seed", "7">>

Less(w) == {RemoveAt(w, k) : k \in DOMAIN w}
WithWord(w, x) == {InsertAt(w, k, x) : k \in 1..(Len(w) + 1)}

MCArgvs == [
    tester |-> Short \cup More \cup {ByCoordinator},
    generator |-> {OfGenerator} \cup Less(OfGenerator) \cup WithWord(OfGenerator, "-repro") \cup WithWord(OfGenerator, "-seed"),
    coordinator |-> {OfPerson} \cup Less(OfPerson) \cup WithWord(OfPerson, "-dump-core") \cup {OfPerson \o OfPerson}]

MCNumeric == ("7" :> "7") @@ ("7x" :> "7")

MCLines == {
    <<>>, <<"quit">>, <<"list">>, <<"dump">>, <<"dumpfile", "f", "out">>,
    <<"invoke", "f", "7">>, <<"setglobal", "g", "7">>, <<"memimport", "out">>,
    <<"singlerun", "out", "7", "mem">>, <<"singlerun", "out", "7", "none">>, <<"singlerun", "out">>}

MCResults == {Void, I32(3), I64(7), F64({1}, 5), F64({}, 1)}
=============================================================================
