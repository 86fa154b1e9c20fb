------------------------------ MODULE SpiFlash ------------------------------
(***************************************************************************)
(* The NOR flash behind the target's SPI controller, as flash.c relies on  *)
(* it.  External: no source of it is in the repository.  A byte is one bit *)
(* here, three of them make an address, and 1 is the erased value.         *)
(***************************************************************************)
EXTENDS Integers, Sequences, FiniteSetsExt

CONSTANTS PAGE, BLOCK    \* SPIFLASH_PAGE_SIZE, SPIFLASH_BLOCK_SIZE

ASSUME SizeAssumption == /\ PAGE \in {1, 2, 4, 8} /\ BLOCK \in {1, 2, 4, 8}

Bytes == 0 .. 1
Cells == 0 .. 7

\* Command codes, none of them a Byte.
READ_STATUS   == 2
WRITE_ENABLE  == 3
PAGE_PROGRAM  == 4
BLOCK_ERASE   == 5
READ_ID       == 6

\* wel: the write enable latch; next: what mem is to be once not busy; asked:
\* the chip sends its status.
Chip(mem) == [mem |-> mem, wel |-> FALSE, busy |-> FALSE, next |-> mem, asked |-> FALSE]

AddressOf(bytes) == bytes[1] * 4 + bytes[2] * 2 + bytes[3]

EraseIn(mem, addr) == [c \in Cells |-> IF c \div BLOCK = addr \div BLOCK THEN 1 ELSE mem[c]]

\* Programming clears bits only, and wraps at the end of the page.
ProgramIn(mem, addr, data) ==
    [c \in Cells |->
        LET at == {i \in DOMAIN data : (addr + i - 1) % PAGE = c % PAGE}
        IN  IF c \div PAGE # addr \div PAGE \/ at = {} THEN mem[c] ELSE mem[c] * data[Max(at)]]

\* What the chip does with the bytes of one frame when it is deselected.
Take(chip, bytes) ==
    LET cmd == Head(bytes)
        arg == Tail(bytes)
        Begin(mem) == [chip EXCEPT !.busy = TRUE, !.next = mem]
    IN  IF bytes = <<>> \/ chip.busy THEN chip
        ELSE IF cmd = WRITE_ENABLE /\ arg = <<>> THEN [chip EXCEPT !.wel = TRUE]
        ELSE IF cmd = BLOCK_ERASE /\ Len(arg) = 3 /\ chip.wel
             THEN Begin(EraseIn(chip.mem, AddressOf(arg)))
        ELSE IF cmd = PAGE_PROGRAM /\ Len(arg) > 3 /\ chip.wel
             THEN Begin(ProgramIn(chip.mem, AddressOf(arg), SubSeq(arg, 4, Len(arg))))
        ELSE chip

Settled(chip) == [chip EXCEPT !.mem = chip.next, !.busy = FALSE, !.wel = FALSE]
=============================================================================
