--------------------------- MODULE WatchpointInst ----------------------------
(***************************************************************************)
(* rv_parse_watchpoint_inst: the base register and the offset of the load  *)
(* or store that hit a watchpoint, worked out of the bits of the           *)
(* instruction, against the formats of the instruction set.                *)
(*                                                                         *)
(* An instruction is a function from bit numbers to 0 and 1.               *)
(***************************************************************************)
EXTENDS Integers

CONSTANTS
    Xlen,        \* of the target: 32 or 64
    Offsets,     \* offsets of 32-bit loads and stores to look at
    Bases        \* and their base registers

ASSUME XlenAssumption == Xlen \in {32, 64}
ASSUME AccessAssumption == Offsets \subseteq -2048 .. 2047 /\ Bases \subseteq 0 .. 31

VARIABLES
    access,          \* the access the instruction makes
    inst,            \* the instruction, as it is read from memory at dpc
    regno, offset,   \* what the decoder says
    done

vars == <<access, inst, regno, offset, done>>

Bits == 0 .. 31

-----------------------------------------------------------------------------
(* The instruction set.  Of a format: which bits of the instruction, from   *)
(* high to low, hold the offset from bit at up.                             *)

Piece(hi, lo, at) == [hi |-> hi, lo |-> lo, at |-> at]

Layout == [
    I    |-> {Piece(31, 20, 0)},
    S    |-> {Piece(31, 25, 5), Piece(11, 7, 0)},
    CL4  |-> {Piece(12, 10, 3), Piece(6, 6, 2), Piece(5, 5, 6)},
    CL8  |-> {Piece(12, 10, 3), Piece(6, 5, 6)},
    CI4  |-> {Piece(12, 12, 5), Piece(6, 4, 2), Piece(3, 2, 6)},
    CI8  |-> {Piece(12, 12, 5), Piece(6, 5, 3), Piece(4, 2, 6)},
    CSS4 |-> {Piece(12, 9, 2), Piece(8, 7, 6)},
    CSS8 |-> {Piece(12, 10, 3), Piece(9, 7, 6)},
    none |-> {}]

\* Opcode (and funct3 of a compressed instruction, above its low two bits),
\* format, and register field or implied register.
Op(code, format) == [code |-> code, format |-> format]

Full == {Op(3, "I"), Op(7, "I"), Op(35, "S"), Op(39, "S")}

\* C.FLD, C.LW, C.FSD, C.SW and their forms on the stack pointer; the two
\* columns that differ hold C.FLW and C.FSW or, with 64 bits, C.LD and C.SD.
Compressed ==
    {Op(4, "CL8"), Op(8, "CL4"), Op(20, "CL8"), Op(24, "CL4"),
     Op(6, "CI8"), Op(10, "CI4"), Op(22, "CSS8"), Op(26, "CSS4")}
    \cup IF Xlen = 32
         THEN {Op(12, "CL4"), Op(28, "CL4"), Op(14, "CI4"), Op(30, "CSS4")}
         ELSE {Op(12, "CL8"), Op(28, "CL8"), Op(14, "CI8"), Op(30, "CSS8")}

\* Instructions that access no memory, or not by a base and an offset.
Others == {Op(19, "none"), Op(47, "none"), Op(99, "none"), Op(0, "none"), Op(1, "none"),
           Op(18, "none")}

Width(format) == CASE format = "CL4" -> 7 [] format = "CL8" -> 8 [] format \in {"CI4", "CSS4"} -> 8
                   [] OTHER -> 9
Scale(format) == IF format \in {"CL4", "CI4", "CSS4"} THEN 4 ELSE 8

Access(op, base, off) == [op |-> op, base |-> base, offset |-> off]

Accesses ==
    {Access(op, b, o) : op \in Full, b \in Bases, o \in Offsets}
    \cup {a \in [op : Compressed, base : {2} \cup 8 .. 15, offset : 0 .. 511] :
             /\ a.offset % Scale(a.op.format) = 0
             /\ a.offset < 2 ^ Width(a.op.format)
             /\ (a.op.format \in {"CL4", "CL8"}) = (a.base # 2)}
    \cup {Access(op, 0, 0) : op \in Others}

Bit(n, k) == (n \div (2 ^ k)) % 2

\* The bits an instruction has to have; the others, and the instruction behind
\* a compressed one, are all equal to fill.
Encoded(a, fill) ==
    LET code   == a.op.code
        full   == code % 4 = 3
        pieces(i) == {p \in Layout[a.op.format] : i \in p.lo .. p.hi}
        piece(i)  == CHOOSE p \in pieces(i) : TRUE
    IN  [i \in Bits |->
            IF pieces(i) # {} THEN Bit(a.offset, i - piece(i).lo + piece(i).at)
            ELSE
            CASE full /\ i \in 0 .. 6 -> Bit(code, i)
              [] full /\ i \in 15 .. 19 /\ a.op.format # "none" -> Bit(a.base, i - 15)
              [] ~full /\ i \in 0 .. 1 -> Bit(code, i)
              [] ~full /\ i \in 13 .. 15 -> Bit(code, i - 11)
              [] ~full /\ i \in 7 .. 9 /\ a.op.format \in {"CL4", "CL8"} -> Bit(a.base - 8, i - 7)
              [] OTHER -> fill]

Init ==
    /\ access \in Accesses
    /\ \E fill \in {0, 1} : inst = Encoded(access, fill)
    /\ regno = 0 /\ offset = 0 /\ done = FALSE

-----------------------------------------------------------------------------
(* The decoder.  Field is what a mask and a shift leave: bits lo to hi of   *)
(* the instruction, moved to bit at.                                        *)

Field(hi, lo, at) ==
    LET sum[i \in lo .. hi] ==
          inst[i] * 2 ^ (i - lo + at) + (IF i = lo THEN 0 ELSE sum[i - 1])
    IN  sum[hi]

IsFull == Field(1, 0, 0) = 3

\* offset_s >> 20 of an int32_t.
Extended(n) == IF n >= 2048 THEN n - 4096 ELSE n

FullRegno(opcode) == IF opcode \in {3, 7, 35, 39} THEN Field(19, 15, 0) ELSE 0

FullOffset(opcode) ==
    CASE opcode \in {3, 7}   -> Extended(Field(31, 20, 0))
      [] opcode \in {35, 39} -> Extended(Field(31, 25, 5) + Field(11, 7, 0))
      [] OTHER -> 0

CompressedRegno(opcode) ==
    CASE opcode \in {4, 8, 12, 20, 24, 28}  -> Field(9, 7, 0) + 8
      [] opcode \in {6, 10, 14, 22, 26, 30} -> 2
      [] OTHER -> 0

\* Mutant: C.SWSP is taken for C.LWSP's format.
CompressedOffsetOfLoads(opcode) ==
    CASE opcode \in {4, 20} -> Field(12, 10, 3) + Field(6, 5, 6)
      [] opcode \in {8, 12, 24, 28} -> Field(12, 10, 3) + Field(6, 6, 2) + Field(5, 5, 6)
      [] opcode = 6 -> Field(12, 12, 5) + Field(6, 5, 3) + Field(4, 2, 6)
      [] opcode \in {10, 14, 26, 30} -> Field(12, 12, 5) + Field(6, 4, 2) + Field(3, 2, 6)
      [] opcode = 22 -> Field(12, 10, 3) + Field(9, 7, 6)
      [] OTHER -> 0

CompressedOffset(opcode) ==
    CASE opcode \in {4, 20} -> Field(12, 10, 3) + Field(6, 5, 6)
      [] opcode \in {8, 12, 24, 28} -> Field(12, 10, 3) + Field(6, 6, 2) + Field(5, 5, 6)
      [] opcode = 6 -> Field(12, 12, 5) + Field(6, 5, 3) + Field(4, 2, 6)
      [] opcode \in {10, 14} -> Field(12, 12, 5) + Field(6, 4, 2) + Field(3, 2, 6)
      [] opcode = 22 -> Field(12, 10, 3) + Field(9, 7, 6)
      [] opcode \in {26, 30} -> Field(12, 9, 2) + Field(8, 7, 6)
      [] OTHER -> 0

Parse ==
    LET opcode == IF IsFull THEN Field(6, 0, 0) ELSE Field(15, 13, 2) + Field(1, 0, 0)
    IN  /\ ~done
        /\ done' = TRUE
        /\ regno' = IF IsFull THEN FullRegno(opcode) ELSE CompressedRegno(opcode)
        /\ offset' = IF IsFull THEN FullOffset(opcode) ELSE CompressedOffset(opcode)
        /\ UNCHANGED <<access, inst>>

Spec == Init /\ [][Parse]_vars

-----------------------------------------------------------------------------
\* Every load and store is decoded to its base register and its offset, signed,
\* and an instruction of another kind to x0 and zero.
DecodedRight == done => regno = access.base /\ offset = access.offset
=============================================================================
