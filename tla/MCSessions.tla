------------------------------ MODULE MCSessions ------------------------------
(***************************************************************************)
(* Two sessions over one file, of two modules with one memory step each,   *)
(* or a generator at a terminal.  Integers are 4 and 6 bits wide.          *)
(***************************************************************************)
EXTENDS Sessions

CONSTANT s1

MCGens == {1, 2}
MCSeeds == {s1}
MCSerials == 1..8
MCFound == {{"v8_memory", "moz_global"}}
MCSizes == {8, 6}
MCBlocks == {8}
MCSkips == {0, 1, 4}
MCPages == {1}
=============================================================================
