------------------------------ MODULE RiscvTap -------------------------------
(***************************************************************************)
(* riscv-tap.c: resets, idling and scans as ticks of TMS and TDI, in plain *)
(* JTAG or in OScan1, and the two ways of bringing a target to OScan1.     *)
(*                                                                         *)
(* A link is the probe's end (the mode, the level it left on TMS, what the *)
(* last ticks heard) and the target at the other.                          *)
(***************************************************************************)
EXTENDS TapTarget

Link(target) == [oscan1_mode |-> FALSE, tms |-> 0, heard |-> <<>>, far |-> target]

\* rv_tap_init; the target is left as it is.
rv_tap_init(link) == [link EXCEPT !.oscan1_mode = FALSE]

\* A tick is a packet of one edge, or in OScan1 of three, the last of which
\* samples a TMS that is only pulled to its level.
Packet(oscan1_mode, tms, tdi) ==
    IF oscan1_mode THEN <<<<1 - tdi, Floats>>, <<tms, Floats>>, <<tms, Floats>>>>
    ELSE <<<<tms, tdi>>>>
Sampled(link, far) == IF link.oscan1_mode THEN TmsLevel(far) ELSE TdoLevel(far)

rv_tap_tick(link, tms, tdi) ==
    LET edges == Packet(link.oscan1_mode, tms, tdi)
        far[n \in 0 .. Len(edges)] ==
          IF n = 0 THEN link.far ELSE Edge(far[n - 1], edges[n][1], edges[n][2])
    IN  [link EXCEPT !.tms = tms, !.far = far[Len(edges)],
                     !.heard = Append(@, Sampled(link, far[Len(edges) - 1]))]

\* The singleton has TLC work out a link before it goes over the ticks: a
\* chain of a hundred scans is too deep to be evaluated by need.
Ticks(link, ticks) ==
    CHOOSE end \in {LET after[n \in 0 .. Len(ticks)] ==
                          IF n = 0 THEN start
                          ELSE rv_tap_tick(after[n - 1], ticks[n][1], ticks[n][2])
                    IN  after[Len(ticks)] : start \in {[link EXCEPT !.heard = <<>>]}} : TRUE

Repeat(n, tms, tdi) == [i \in 1 .. n |-> <<tms, tdi>>]

rv_tap_reset(link, len) == Ticks(link, Append(Repeat(len, 1, 1), <<0, 1>>))

rv_tap_idle(link, len) == Ticks(link, Repeat(len, 0, 1))

\* From Run-Test/Idle to the shift state, through it with the last field on
\* the way out, and back; an empty scan leaves from the capture state.
Shift(in) ==
    LET fields == [i \in 1 .. Len(in) |-> <<IF i = Len(in) THEN 1 ELSE 0, in[i]>>]
    IN  IF in = <<>> THEN <<<<1, 1>>>> ELSE <<<<0, 1>>>> \o fields

rv_tap_shift_scan(link, in, ir) ==
    LET select == IF ir THEN <<<<1, 1>>, <<1, 1>>>> ELSE <<<<1, 1>>>>
        scan   == Ticks(link, select \o <<<<0, 1>>>> \o Shift(in) \o <<<<1, 1>>, <<0, 1>>>>)
        first  == Len(select) + 3
    IN  [scan EXCEPT !.heard = SubSeq(@, first, first + Len(in) - 1)]

-----------------------------------------------------------------------------
\* A scan of len ones into the data register, and an empty one of either.
Ones(link, len) == rv_tap_shift_scan(link, [i \in 1 .. len |-> 1], FALSE)
ZeroBitScan(link, ir) == rv_tap_shift_scan(link, <<>>, ir)

\* The format the target says it selected is OScan1, or it is reset.
Confirmed(crscan) ==
    IF crscan.heard[1] # 9
    THEN rv_tap_reset([crscan EXCEPT !.oscan1_mode = FALSE], 50)
    ELSE ZeroBitScan(rv_tap_idle(crscan, 4), TRUE)

\* Activation by zero-bit scans, and the check of what was selected.
rv_tap_oscan1_mode(link) ==
    LET idle   == rv_tap_reset([link EXCEPT !.oscan1_mode = FALSE], 50)
        level2 == Ones(ZeroBitScan(ZeroBitScan(idle, FALSE), FALSE), 1)
        format == rv_tap_idle(Ones(Ones(level2, 3), 9), 4)
        oscan1 == [format EXCEPT !.oscan1_mode = TRUE]
    IN  Confirmed(Ones(ZeroBitScan(Ones(oscan1, 9), FALSE), 1))

\* TCK rises once; then n levels are put on TMS, the first of them a zero.
rvl_tap_escape(link, n) ==
    LET risen == Edge(link.far, link.tms, Floats)
        edges == IF link.tms = 0 THEN n - 1 ELSE n
    IN  [link EXCEPT !.far = Escape(risen, edges), !.tms = (n - 1) % 2]

rvl_tap_oac == <<<<0, 0>>, <<0, 0>>, <<1, 0>>, <<1, 0>>>>
rvl_tap_ec  == <<<<0, 0>>, <<0, 0>>, <<0, 0>>, <<1, 0>>>>
rvl_tap_cp  == <<<<0, 0>>, <<0, 0>>, <<0, 0>>, <<0, 0>>>>

rv_tap_oscan1_mode_short(link) ==
    LET reset  == rv_tap_reset(rvl_tap_escape([link EXCEPT !.oscan1_mode = FALSE], 10), 50)
        online == Ticks(rvl_tap_escape(reset, 7), rvl_tap_oac \o rvl_tap_ec \o rvl_tap_cp)
    IN  Ticks([online EXCEPT !.oscan1_mode = TRUE], <<<<0, 0>>>>)

\* Mutant: the TAP is reset, the adapter before it is not.
rv_tap_short_exit_by_reset(link) == rv_tap_reset(link, 50)

rv_tap_oscan1_mode_short_exit(link) == rv_tap_reset(rvl_tap_escape(link, 10), 50)
=============================================================================
