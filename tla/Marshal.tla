-------------------------------- MODULE Marshal --------------------------------
(***************************************************************************)
(* What a tester logs of the result of a call: MarshallValue of its engine *)
(* and StringBinRepresentation.  A double is the set of the whole numbers  *)
(* it equals, one or none (fractions, NaN, infinities and minus zero), and *)
(* its bits.                                                               *)
(***************************************************************************)
EXTENDS Integers

CONSTANTS IMod, LMod        \* 2^32, 2^64: the widths of an i32 and an i64

ToSigned(n, mod) == IF 2 * n < mod THEN n ELSE n - mod

\* The numbers IsUint32 or IsInt32 of V8 (external) hold of.
Int32s == (-(IMod \div 2))..(IMod - 1)

I32(n) == [type |-> "I32", n |-> n]
I64(n) == [type |-> "I64", n |-> n]
F64(whole, bits) == [type |-> "F64", whole |-> whole, bits |-> bits]
Void == [type |-> "Void"]

\* Mutant: a BigInt is read as an i32.
MarshallNarrow(v) ==
    IF v.type = "I64" THEN I32(v.n % IMod)
    ELSE IF v.type = "F64" /\ v.whole \cap Int32s # {} THEN I32((CHOOSE n \in v.whole : TRUE) % IMod)
    ELSE v

\* The engine hands out a signed number, a BigInt, a double or undefined
\* (external); MarshallValue asks for its JavaScript type, not for the type
\* the function returns.
MarshallV8(v) ==
    IF v.type = "F64" /\ v.whole \cap Int32s # {} THEN I32((CHOOSE n \in v.whole : TRUE) % IMod)
    ELSE v

MarshallSpiderMonkey(v) == v

MarshallValue(engine, v) == IF engine = "V8" THEN MarshallV8(v) ELSE MarshallSpiderMonkey(v)

\* StringBinRepresentation; a Void gets no Result.
BinRepresentation(v) ==
    CASE v.type = "I32" -> {ToSigned(v.n, IMod)}
      [] v.type = "I64" -> {ToSigned(v.n, LMod)}
      [] v.type = "F64" -> {ToSigned(v.bits, LMod)}
      [] v.type = "Void" -> {}

Logged(engine, v) == BinRepresentation(MarshallValue(engine, v))
=============================================================================
