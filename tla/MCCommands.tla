----------------------------- MODULE MCCommands -----------------------------
(* Commands for TLC: harts that differ in their extensions and in how their  *)
(* registers are reached, halted in programs that use F and V and that do    *)
(* not, and a memory whose second word does not answer.                      *)
EXTENDS Commands

\* mscratch and dpc of a 64-bit hart use its upper half.
Content(xlen, mstatus, vtype, vl) ==
    [fp |-> 11, s1 |-> 12, a0 |-> 13, ft0 |-> 21, ft1 |-> 22, v0 |-> <<31, 32>>, v1 |-> <<33, 34>>,
     misa |-> 41 + (IF xlen = 32 THEN 64 ELSE 2 * 16384), mstatus |-> mstatus, dcsr |-> 1,
     dpc |-> IF xlen = 32 THEN 42 ELSE 4242, fcsr |-> 43, mscratch |-> IF xlen = 32 THEN 44 ELSE 300,
     vstart |-> 1, vl |-> vl, vtype |-> vtype, vlenb |-> 45]

Of(xlen, ext, abstract, progbuf, mstatus, vtype, vl) ==
    [xlen |-> xlen, ext |-> ext, abstract |-> abstract, progbuf |-> progbuf,
     r |-> Content(xlen, mstatus, vtype, vl)]

AllHarts == {
    Of(64, {"f", "v"}, {"gpr"}, TRUE, 7, Half, 3),
    Of(64, {"f", "v"}, {"gpr", "csr"}, TRUE, 4, Vill, 0),
    Of(64, {"f", "v"}, Classes, FALSE, 7, Xlen, 1),
    Of(32, {"f", "v"}, {"gpr"}, TRUE, 5, Xlen, 2),
    Of(32, {}, {"gpr"}, TRUE, 4, Vill, 0),
    Of(32, {"f"}, {"gpr", "csr"}, FALSE, 6, Vill, 0)}

AllMemories == {[bytes |-> [a \in 0 .. 9 |-> IF a = 1 THEN 3 ELSE IF a \in {2, 8} THEN 13 ELSE a],
                  bad |-> bad] : bad \in {{}, {6}}}
\* Where a session is not about them, one of them is enough.
SomeHarts(t) ==
    IF t = "registers" THEN AllHarts ELSE {CHOOSE h \in AllHarts : TRUE}
SomeMemories(t) ==
    IF t = "memory" THEN AllMemories ELSE {CHOOSE m \in AllMemories : TRUE}
CallsOn(t) == IF t = "registers" THEN 3 ELSE 2

SomeData == {<<>>, <<13>>, <<3, 13>>, <<1, 13, 3>>, <<13, 13, 14, 15>>, <<9, 3, 10, 11, 12>>,
             <<1, 2, 4, 5, 6, 7, 9>>}

MCValuesFor(n) ==
    CASE n \in Vectors -> {<<51, 52>>}
      [] n = "vtype"   -> {Xlen, Half, 7}
      [] n = "vl"      -> {1, 9}
      [] n = "mstatus" -> {8, 15}
      [] n = "priv"    -> {3, 5}
      [] n = "dcsr"    -> {53, 309}
      [] OTHER         -> {53}
=============================================================================
