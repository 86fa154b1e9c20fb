-------------------------------- MODULE Flash --------------------------------
(***************************************************************************)
(* Programming the target's SPI flash: flash.c, driven by the vFlash       *)
(* commands of gdb-server.c, against the chip of SpiFlash.  A step is one  *)
(* frame on the SPI bus or one poll of the chip's status.  The controller  *)
(* may keep a byte waiting for as many polls as Polls says.                *)
(***************************************************************************)
EXTENDS SpiFlash, SequencesExt

CONSTANTS
    Polls,       \* polls a byte may wait for the controller beyond the first
    TIMES_OUT,   \* NUSPI_TX_TIMES_OUT, NUSPI_RX_TIMES_OUT
    Writes,      \* the data of the host's writes
    Contents,    \* what the flash of a board holds at first
    XIP          \* where the host sees the flash

ASSUME PollAssumption == Polls \subseteq Nat /\ TIMES_OUT \in Nat \ {0, 1}
ASSUME DataAssumption == Writes \subseteq Seq(Bytes) /\ Contents \subseteq [Cells -> Bytes]
\* The flash is mapped at a multiple of its size.
ASSUME MapAssumption  == XIP \in Nat /\ XIP % 8 = 0

VARIABLES
    chip,       \* the flash
    spi,        \* the controller: version, hw (FCTRL), cs (CSMODE), rx FIFO
    is_nuspi,
    pc,         \* where the server is
    op,         \* flash_erase or flash_write
    curr,       \* curr_addr, offset
    left,       \* blocks still to be erased
    buffer,     \* bytes still to be written
    status,     \* `value' of flash_wip: the busy bit
    known,      \* the host has sent vFlashInit to this board
    slow,       \* history: the controller was too slow once
    want        \* history: the content the command asks for

vars == <<chip, spi, is_nuspi, pc, op, curr, left, buffer, status, known, slow, want>>

Versions == {"nuspi", "old"}
Reset(version) == [version |-> version, hw |-> TRUE, cs |-> "auto", rx |-> <<>>]

-----------------------------------------------------------------------------
\* `while (times_out--)' leaves 0 behind when the last try succeeds, which is
\* taken for a time-out, and wraps when none does, which is not.
Wait(polls) == IF polls < TIMES_OUT - 1 THEN "ready"
               ELSE IF polls = TIMES_OUT - 1 THEN "error" ELSE "late"

\* How the controller treats a transfer of n bytes: one of them, or the end of
\* the last one, is waited for.  Fast: none is.
Fast == [at |-> 1, polls |-> 0]
Treatments(n) == {Fast} \union
    (IF slow THEN {} ELSE [at : 1 .. n + 1, polls : Polls \ {0}])

TooSlow(t) == Wait(t.polls) # "ready"

\* The bytes that leave the controller: an error ends the transfer, a byte
\* pushed into a full FIFO is lost.
nuspi_tx(in, t) ==
    CASE Wait(t.polls) = "ready" -> in
      [] Wait(t.polls) = "error" -> SubSeq(in, 1, t.at - 1)
      [] Wait(t.polls) = "late"  -> IF t.at > Len(in) THEN Front(in) ELSE RemoveAt(in, t.at)

\* One byte read: the value in `out' afterwards, the FIFO, and whether it was
\* waited for too long.  A byte left in the FIFO comes before the one asked for.
nuspi_rx(out, byte, t) ==
    LET fifo == Append(spi.rx, byte)
        wait == IF spi.rx = <<>> THEN Wait(t.polls) ELSE "ready"
    IN  IF wait = "ready" THEN {[value |-> Head(fifo), rx |-> Tail(fifo), slow |-> FALSE]}
        ELSE IF wait = "error"
             THEN {[value |-> out, rx |-> IF is_nuspi THEN fifo ELSE <<>>, slow |-> TRUE]}
        ELSE {[value |-> v, rx |-> fifo, slow |-> TRUE] : v \in Bytes}

\* Three bytes of address: the ones above are cut off.
Address(a) == <<(a \div 4) % 2, (a \div 2) % 2, a % 2>>

\* A whole frame.  In hardware mode the FIFO does not reach the chip.
nuspi_cs(bytes) == IF spi.hw THEN chip ELSE Take(chip, bytes)

-----------------------------------------------------------------------------
Init ==
    /\ \E mem \in Contents : chip = Chip(mem) /\ want = mem
    /\ \E v \in Versions, junk \in {<<>>, <<0>>} : spi = [Reset(v) EXCEPT !.rx = junk]
    /\ is_nuspi = FALSE /\ pc = "idle" /\ op = "none" /\ curr = 0 /\ left = 0
    /\ buffer = <<>> /\ status = 0 /\ known = FALSE /\ slow = FALSE

\* vFlashInit: nuspi_init looks at the version.  The flag is static, and
\* nothing clears it.
FlashInit ==
    /\ pc = "idle"
    /\ is_nuspi' = (is_nuspi \/ spi.version = "nuspi")
    /\ pc' = "flush" /\ known' = TRUE
    /\ UNCHANGED <<chip, spi, op, curr, left, buffer, status, slow, want>>

Rest == IF spi.rx = <<>> THEN <<>> ELSE Tail(spi.rx)

\* Mutant: STATUS is asked whatever the controller.
ClearedByStatus == spi.version = "nuspi" /\ Rest = <<>>

\* The FIFO is found empty: by STATUS, which an old controller does not have
\* and reads as zero, or by RXDATA itself.
Cleared == IF is_nuspi THEN spi.version = "nuspi" /\ Rest = <<>> ELSE spi.rx = <<>>

\* One round of nuspi_init's loop, and the registers it sets after the last.
ClearRxFifo ==
    /\ pc = "flush"
    /\ spi' = [spi EXCEPT !.rx = Rest, !.hw = IF Cleared THEN FALSE ELSE @]
    /\ pc' = IF Cleared THEN "identify" ELSE pc
    /\ UNCHANGED <<chip, is_nuspi, op, curr, left, buffer, status, known, slow, want>>

\* flash_init: the identification is read, and not used.
Identify ==
    \E s \in Treatments(1), r \in Treatments(0) : \E got \in nuspi_rx(0, 0, r) :
        /\ pc = "identify"
        /\ TooSlow(s) => r = Fast
        /\ chip' = Take(chip, nuspi_tx(<<READ_ID>>, s))
        /\ spi' = [spi EXCEPT !.rx = got.rx, !.hw = TRUE]
        /\ slow' = (slow \/ TooSlow(s) \/ got.slow)
        /\ pc' = "idle"
        /\ UNCHANGED <<is_nuspi, op, curr, left, buffer, status, known, want>>

Unmapped == [spi EXCEPT !.hw = FALSE]
Mapped   == [spi EXCEPT !.hw = TRUE]

\* vFlashErase: whole blocks only.
FlashErase(addr, length) ==
    /\ pc = "idle" /\ known /\ ~slow
    /\ IF length < BLOCK
       THEN spi' = Mapped /\ UNCHANGED <<pc, op, curr, left>>
       ELSE /\ spi' = Unmapped /\ pc' = "enable"
            /\ op' = "erase" /\ curr' = addr /\ left' = length \div BLOCK
    /\ want' = [c \in Cells |-> IF c + XIP \in addr .. addr + length - 1 THEN 1 ELSE chip.mem[c]]
    /\ UNCHANGED <<chip, is_nuspi, buffer, status, known, slow>>

\* vFlashWrite.
FlashWrite(addr, data) ==
    /\ pc = "idle" /\ known /\ ~slow
    /\ buffer' = data
    /\ IF data = <<>>
       THEN spi' = Mapped /\ UNCHANGED <<pc, op, curr>>
       ELSE spi' = Unmapped /\ pc' = "enable" /\ op' = "write" /\ curr' = addr
    /\ want' = [c \in Cells |-> IF c + XIP \in addr .. addr + Len(data) - 1
                                THEN chip.mem[c] * data[c + XIP - addr + 1] ELSE chip.mem[c]]
    /\ UNCHANGED <<chip, is_nuspi, left, status, known, slow>>

WriteEnable ==
    \E t \in Treatments(1) :
        /\ pc = "enable"
        /\ chip' = nuspi_cs(nuspi_tx(<<WRITE_ENABLE>>, t))
        /\ slow' = (slow \/ TooSlow(t))
        /\ pc' = op
        /\ UNCHANGED <<spi, is_nuspi, op, curr, left, buffer, status, known, want>>

EraseBlock ==
    \E t \in Treatments(4) :
        /\ pc = "erase"
        /\ chip' = nuspi_cs(nuspi_tx(<<BLOCK_ERASE>> \o Address(curr), t))
        /\ slow' = (slow \/ TooSlow(t))
        /\ curr' = curr + BLOCK /\ left' = left - 1
        /\ pc' = "ask"
        /\ UNCHANGED <<spi, is_nuspi, op, buffer, status, known, want>>

\* Mutant: a page of bytes, wherever it begins.
PagefulAnywhere == IF Len(buffer) >= PAGE THEN PAGE ELSE Len(buffer)

\* cur_count: the bytes up to the end of the page.
CurCount ==
    IF (curr % PAGE) + Len(buffer) >= PAGE THEN PAGE - (curr % PAGE) ELSE Len(buffer)

\* Command, address and data in one frame.  An error in the address does not
\* keep the data back.
ProgramPage ==
    LET data == SubSeq(buffer, 1, CurCount)
    IN  \E t \in Treatments(4), d \in Treatments(CurCount) :
        /\ pc = "write"
        /\ TooSlow(t) => d = Fast
        /\ chip' = nuspi_cs(nuspi_tx(<<PAGE_PROGRAM>> \o Address(curr), t) \o nuspi_tx(data, d))
        /\ slow' = (slow \/ TooSlow(t) \/ TooSlow(d))
        /\ curr' = curr + CurCount
        /\ buffer' = SubSeq(buffer, CurCount + 1, Len(buffer))
        /\ pc' = "ask"
        /\ UNCHANGED <<spi, is_nuspi, op, left, status, known, want>>

\* flash_wip: selects the chip and asks.  The answer is taken to be `busy'
\* until one is heard (the command's own code has that bit set).
AskStatus ==
    \E t \in Treatments(1) :
        /\ pc = "ask"
        /\ chip' = [chip EXCEPT !.asked = nuspi_tx(<<READ_STATUS>>, t) # <<>> /\ ~spi.hw]
        /\ slow' = (slow \/ TooSlow(t))
        /\ spi' = [spi EXCEPT !.cs = "hold"]
        /\ status' = 1 /\ pc' = "status"
        /\ UNCHANGED <<is_nuspi, op, curr, left, buffer, known, want>>

\* A chip that was not asked leaves the line floating.
OnLine == IF ~chip.asked THEN Bytes ELSE IF chip.busy THEN {1} ELSE {0}

More == IF op = "erase" THEN left > 0 ELSE buffer # <<>>

\* The locals of a call end with it.
Return(ends) == IF ends THEN op' = "none" /\ curr' = 0 /\ left' = 0
                ELSE UNCHANGED <<op, curr, left>>

ReadStatus ==
    \E byte \in OnLine, t \in Treatments(0) : \E got \in nuspi_rx(status, byte, t) :
        /\ pc = "status"
        /\ status' = got.value
        /\ slow' = (slow \/ got.slow)
        /\ IF got.value = 1
           THEN pc' = pc /\ chip' = chip /\ spi' = [spi EXCEPT !.rx = got.rx]
           ELSE /\ chip' = [chip EXCEPT !.asked = FALSE]
                /\ spi' = [spi EXCEPT !.rx = got.rx, !.cs = "auto", !.hw = ~More]
                /\ pc' = IF More THEN "enable" ELSE "idle"
        /\ Return(pc' = "idle")
        /\ UNCHANGED <<is_nuspi, buffer, known, want>>

Server ==
    \/ ClearRxFifo \/ Identify
    \/ WriteEnable \/ EraseBlock \/ ProgramPage
    \/ AskStatus \/ ReadStatus

-----------------------------------------------------------------------------
\* The chip has finished erasing or programming.
ChipDone ==
    /\ chip.busy /\ chip' = Settled(chip)
    /\ UNCHANGED <<spi, is_nuspi, pc, op, curr, left, buffer, status, known, slow, want>>

\* Another board, or this one anew; the probe stays powered.
Replace ==
    /\ pc = "idle" /\ ~chip.busy
    /\ \E mem \in Contents : chip' = Chip(mem) /\ want' = mem
    /\ \E v \in Versions, junk \in {<<>>, <<0>>} : spi' = [Reset(v) EXCEPT !.rx = junk]
    /\ op' = "none" /\ curr' = 0 /\ left' = 0 /\ buffer' = <<>> /\ status' = 0
    /\ known' = FALSE /\ slow' = FALSE
    /\ UNCHANGED <<is_nuspi, pc>>

\* The host keeps to the memory map: erases whole blocks, writes inside.
\* Bound: nothing is sent once the controller was too slow, as nothing but the
\* end of the command at hand is promised then.
Host ==
    \/ ~slow /\ FlashInit
    \/ \E a \in Cells, n \in 0 .. 8 :
          a % BLOCK = 0 /\ n % BLOCK = 0 /\ a + n =< 8 /\ FlashErase(XIP + a, n)
    \/ \E a \in Cells, data \in Writes : a + Len(data) =< 8 /\ FlashWrite(XIP + a, data)

Next == Server \/ ChipDone \/ Replace \/ Host

\* The server task runs, and a chip finishes what it began.
Spec == Init /\ [][Next]_vars /\ WF_vars(Server) /\ WF_vars(ChipDone)

-----------------------------------------------------------------------------
Memory == INSTANCE FlashMemory WITH
    mem <- chip.mem, open <- pc # "idle", mapped <- spi.hw /\ spi.cs = "auto", fault <- slow

\* The commands do what FlashMemory promises: nothing outside the range is
\* touched on the way, pages, blocks and the chip's busy times included, and
\* all of it is done when the answer goes out.
DoesAsAsked == Memory!Spec

\* A flag an earlier board left behind.
Misjudged == is_nuspi /\ spi.version = "old"

\* Every command is answered, unless the controller was too slow or is taken
\* for a newer one.
Answered == (pc # "idle") ~> (pc = "idle" \/ slow \/ Misjudged)
=============================================================================
