------------------------------ MODULE TapTarget ------------------------------
(***************************************************************************)
(* The far end of the wires: an IEEE 1149.1 TAP with the IEEE 1149.7       *)
(* adapter some targets put before it, and behind it the RISC-V debug      *)
(* transport, whose DMI takes its time over an access.  External: the      *)
(* probe sees of it only levels of pins.                                   *)
(*                                                                         *)
(* A register is scanned field by field instead of bit by bit: a tick      *)
(* carries a whole field, and the DMI register is three of them, op, data  *)
(* and address.  Ones of an activation scan are fields of one bit.         *)
(***************************************************************************)
EXTENDS Integers, Sequences

CONSTANTS
    Idcode,    \* what the IDCODE register reads; its lowest bit is one
    Idle       \* cycles in Run-Test/Idle dtmcs asks for between two scans

ASSUME IdcodeAssumption == Idcode \in Nat /\ Idcode % 2 = 1
ASSUME IdleAssumption   == Idle \in 0 .. 7

\* Debug module registers, by address: data0 and dmcontrol.
Data0 == 4
DmControl == 16
Addresses == {Data0, DmControl}

NOP == 0   READ == 1   WRITE == 2                 \* requests
DONE == 0  FAIL == 2   BUSY == 3                  \* and statuses of the DMI
IDCODE == 1  DTMCS == 16  DMI == 17               \* the instruction register
Floats == -1                                      \* of a pin nobody drives

DMIRESET == 65536
DtmcsWord(stat) == 1 + 7 * 16 + stat * 1024 + Idle * 4096   \* version 1, abits 7

Idling == [op |-> NOP, addr |-> 0, data |-> 0, left |-> 0,
           fails |-> FALSE, mine |-> FALSE]

Fresh(adapter, wires) == [
    adapter |-> adapter,     \* "none", activated by zero-bit scans ("long") or
                             \* by an escape ("short"); "absent": no target
    wires   |-> wires,       \* 4, or 2: only TCK and TMS are connected
    fsm     |-> "TLR",       \* TAP controller
    ir      |-> IDCODE, sh |-> <<0>>, count |-> 0,
    format  |-> "jtag",      \* "oscan1", "selecting" or "offline"
    held    |-> <<>>,        \* levels of the packet or selection under way
    scans   |-> <<>>,        \* lengths of the scans of a command under way
    check   |-> 0,           \* what is left of a check packet
    pend    |-> Idling,      \* the DMI access in progress
    stat    |-> DONE, last |-> 0,     \* sticky status, last data
    lat     |-> 0, fails |-> FALSE,   \* how the next access goes
    unseen  |-> FALSE,       \* it failed, and no scan has been told
    ran     |-> 0,           \* how often the probe's request was carried out
    dm      |-> [a \in Addresses |-> 0]]

NextState == [
    TLR   |-> <<"RTI", "TLR">>,
    RTI   |-> <<"RTI", "SelDR">>,
    SelDR |-> <<"CapDR", "SelIR">>,  SelIR |-> <<"CapIR", "TLR">>,
    CapDR |-> <<"ShDR", "Ex1DR">>,   CapIR |-> <<"ShIR", "Ex1IR">>,
    ShDR  |-> <<"ShDR", "Ex1DR">>,   ShIR  |-> <<"ShIR", "Ex1IR">>,
    Ex1DR |-> <<"PauDR", "UpDR">>,   Ex1IR |-> <<"PauIR", "UpIR">>,
    PauDR |-> <<"PauDR", "Ex2DR">>,  PauIR |-> <<"PauIR", "Ex2IR">>,
    Ex2DR |-> <<"ShDR", "UpDR">>,    Ex2IR |-> <<"ShIR", "UpIR">>,
    UpDR  |-> <<"RTI", "SelDR">>,    UpIR  |-> <<"RTI", "SelDR">>]

-----------------------------------------------------------------------------
(* The debug transport.                                                     *)

\* A request that is due runs; its data is then what the next scan captures.
Completed(t) ==
    LET p == t.pend
        done == [t EXCEPT !.pend = Idling, !.ran = IF p.mine THEN @ + 1 ELSE @]
    IN  IF p.fails THEN [t EXCEPT !.pend = Idling, !.stat = FAIL, !.unseen = TRUE]
        ELSE IF p.op = READ THEN [done EXCEPT !.last = t.dm[p.addr]]
        ELSE [done EXCEPT !.dm[p.addr] = p.data]

InProgress(t) == t.pend.op # NOP

RunCycle(t) ==
    IF ~InProgress(t) THEN t
    ELSE IF t.pend.left > 1 THEN [t EXCEPT !.pend.left = @ - 1]
    ELSE Completed(t)

\* A scan that comes too early finds, and leaves behind, the busy status.
CaptureDmi(t) ==
    LET now == IF InProgress(t) THEN [t EXCEPT !.stat = BUSY] ELSE t
    IN  [now EXCEPT !.sh = <<now.stat, now.last, 0>>, !.unseen = FALSE]

\* While a status sticks, requests are dropped.
UpdateDmi(t) ==
    IF t.stat # DONE \/ t.sh[1] \notin {READ, WRITE} \/ t.sh[3] \notin Addresses THEN t
    ELSE IF InProgress(t) THEN [t EXCEPT !.stat = BUSY]
    ELSE [t EXCEPT !.pend = [op |-> t.sh[1], data |-> t.sh[2], addr |-> t.sh[3],
                             left |-> t.lat, fails |-> t.fails, mine |-> TRUE]]

\* The command that selects OScan1 and reads the selection back: two zero-bit
\* scans, one of a bit, then command and operand counted in bits, twice, and
\* the scan that carries the answer.
Handshake == <<0, 0, 1, 3, 9, 9, 0, 1>>
Commanded(t) == Len(t.scans) >= 3
Answering(t) == Len(t.scans) = 7

Counted(t, n) ==
    LET s == Append(t.scans, n)
    IN  IF t.adapter = "long" /\ Len(s) =< Len(Handshake) /\ s = SubSeq(Handshake, 1, Len(s))
        THEN [t EXCEPT !.scans = s, !.check = IF Len(s) = 5 THEN 4 ELSE @]
        ELSE [t EXCEPT !.scans = <<>>]

Capture(t) ==
    LET zero == [t EXCEPT !.count = 0]
    IN  IF Answering(t) THEN [zero EXCEPT !.sh = <<9>>]
        ELSE IF t.ir = DMI THEN CaptureDmi(zero)
        ELSE [zero EXCEPT !.sh = <<IF t.ir = IDCODE THEN Idcode
                                   ELSE IF t.ir = DTMCS THEN DtmcsWord(t.stat) ELSE 0>>]

Update(t) ==
    LET seen == Counted(t, t.count)
    IN  IF Commanded(t) THEN seen
        ELSE IF t.ir = DMI THEN UpdateDmi(seen)
        ELSE IF t.ir = DTMCS /\ t.sh[1] >= DMIRESET THEN [seen EXCEPT !.stat = DONE, !.unseen = FALSE]
        ELSE seen

-----------------------------------------------------------------------------
(* The TAP controller, one TCK, and the wires before it.                    *)

Selected(t) == t.fsm \in {"ShDR", "ShIR"}

Reset(t) == [t EXCEPT !.ir = IDCODE, !.scans = <<>>, !.check = 0]

Idled(t) ==
    LET run == RunCycle(t)
    IN  IF t.check = 0 THEN run
        ELSE [run EXCEPT !.check = @ - 1,
                         !.format = IF t.check = 1 THEN "oscan1" ELSE @,
                         !.held = <<>>]

TapStep(t, in) ==
    LET acted ==
          IF t.fsm = "TLR" THEN Reset(t)
          ELSE IF t.fsm = "RTI" THEN Idled(t)
          ELSE IF t.fsm = "CapDR" THEN Capture(t)
          ELSE IF t.fsm = "CapIR" THEN [t EXCEPT !.sh = <<1>>, !.count = 0]
          ELSE IF Selected(t) THEN [t EXCEPT !.sh = Append(Tail(@), in[2]), !.count = @ + 1]
          ELSE IF t.fsm = "UpDR" THEN Update(t)
          ELSE IF t.fsm = "UpIR" THEN [t EXCEPT !.ir = t.sh[1], !.scans = <<>>]
          ELSE t
    IN  [acted EXCEPT !.fsm = NextState[t.fsm][IF in[1] = 1 THEN 2 ELSE 1]]

\* An escape of six or seven edges, and these levels of TMS behind it, bring a
\* short adapter on line: selection 1100, format 1000, check 0000, low bit first.
Selection == <<0, 0, 1, 1, 0, 0, 0, 1, 0, 0, 0, 0>>

\* What an edge means by itself, and what three of them mean in OScan1.
Plain(t, tms, tdi) == <<tms, IF t.wires = 4 THEN tdi ELSE Floats>>
Packed(levels) == <<levels[2], 1 - levels[1]>>
Selecting(t, heard) ==
    IF Len(heard) < Len(Selection) THEN [t EXCEPT !.held = heard]
    ELSE IF heard # Selection THEN [t EXCEPT !.held = <<>>, !.format = "offline"]
    ELSE [Reset(t) EXCEPT !.held = <<>>, !.format = "oscan1", !.fsm = "TLR"]

\* A rising edge of TCK.  OScan1 spends three: TDI inverted, TMS, and TDO.
Edge(t, tms, tdi) ==
    LET heard == Append(t.held, tms)
    IN  IF t.adapter = "absent" \/ t.format = "offline" THEN t
        ELSE IF t.format = "selecting" THEN Selecting(t, heard)
        ELSE IF t.format = "oscan1" /\ Len(heard) < 3 THEN [t EXCEPT !.held = heard]
        ELSE TapStep([t EXCEPT !.held = <<>>],
                     IF t.format = "jtag" THEN Plain(t, tms, tdi) ELSE Packed(heard))

\* Edges of TMS while TCK is high.
Escape(t, edges) ==
    IF t.adapter \in {"absent", "none"} THEN t
    ELSE IF edges >= 8 THEN [Reset(t) EXCEPT !.format = "jtag", !.held = <<>>, !.fsm = "TLR"]
    ELSE IF edges >= 6 /\ t.adapter = "short" /\ t.format = "jtag"
         THEN [t EXCEPT !.format = "selecting", !.held = <<>>]
    ELSE t

\* What a probe reads: pulled down, TDO is low unless the target shifts a
\* field out; so is, but for its last bit, a field on a TMS only pulled.
Speaks(t) == t.adapter # "absent" /\ Selected(t)
TdoLevel(t) == IF Speaks(t) /\ t.format = "jtag" /\ t.wires = 4 THEN t.sh[1] ELSE 0
TmsLevel(t) == IF Speaks(t) /\ t.format = "oscan1" /\ Len(t.held) = 2 THEN t.sh[1] ELSE 0
=============================================================================
