--------------------------------- MODULE Dmi ---------------------------------
(***************************************************************************)
(* The debug module interface of riscv-target.c on top of the TAP: the     *)
(* instruction register it caches, reads and writes with their retries,    *)
(* and bringing a target up in JTAG or cJTAG, whatever an earlier session  *)
(* or another target left behind.                                          *)
(*                                                                         *)
(* Nothing else uses the wires, so a call is one action; how a target      *)
(* answers it (at once, too late, with a failure) is chosen at its start.  *)
(***************************************************************************)
EXTENDS RiscvTap

CONSTANTS
    Targets,       \* the targets there are, as Fresh(adapter, wires)
    Latencies,     \* cycles in Run-Test/Idle an access may take
    Values,        \* values the host writes
    DMI_RETRIES    \* RV_TARGET_CONFIG_DMI_RETRIES

ASSUME LatencyAssumption == Latencies \subseteq Nat \ {0}
ASSUME ValueAssumption   == Values \subseteq Nat
ASSUME RetryAssumption   == DMI_RETRIES \in Nat \ {0}

VARIABLES
    link,        \* the wires, and the target behind them
    last_reg,    \* rv_dtm_sync: the instruction register as last scanned
    dtmcs,       \* target.dtm.dtmcs
    result,      \* the status of the last access
    error,       \* gdb_server_i.target_error
    connected,   \* gdb_server_i.gdb_connected
    out,         \* where the caller of rv_dmi_read keeps the register
    steady,      \* the target has been there since the session began
    call         \* history: the last call, and what there was before it

vars == <<link, last_reg, dtmcs, result, error, connected, out, steady, call>>

Protocols == {"jtag", "cjtag"}

IdleOf(word)    == (word \div 4096) % 8
VersionOf(word) == word % 16

-----------------------------------------------------------------------------
\* What a call works on: the link, the cached register, and target.dtm and
\* target.dmi.
Probe == [link |-> link, last_reg |-> last_reg, dtmcs |-> dtmcs, idcode |-> 0,
          op |-> result, data |-> 0]

\* Mutant: a scan of dtmcs does not enter the cache.
SyncedDmiOnly(p, reg) == IF reg = DTMCS THEN p.last_reg ELSE reg

Synced(p, reg) == reg

Status(field) == field % 4

\* The instruction register is scanned unless it is thought to hold reg already.
SelectedBy(p, reg) ==
    IF reg = p.last_reg THEN p.link ELSE rv_tap_shift_scan(p.link, <<reg>>, TRUE)

Taken(p, reg, scan) ==
    LET q == [p EXCEPT !.last_reg = Synced(p, reg), !.link = scan]
    IN  IF reg = IDCODE THEN [q EXCEPT !.idcode = scan.heard[1]]
        ELSE IF reg = DTMCS THEN [q EXCEPT !.dtmcs = scan.heard[1]]
        ELSE [q EXCEPT !.op = Status(scan.heard[1]), !.data = scan.heard[2]]

RestIdle(p) == [p EXCEPT !.link = rv_tap_idle(@, IdleOf(p.dtmcs))]

\* A scan of the data register `reg' selects, and the idle cycles asked for.
rv_dtm_sync(p, reg, in) ==
    RestIdle(Taken(p, reg, rv_tap_shift_scan(SelectedBy(p, reg), in, FALSE)))

WithReset(word) == IF word >= DMIRESET THEN word ELSE word + DMIRESET

\* Empty requests until the answer is not `busy', and the sticky status reset
\* when it is not `done'.
AfterRetry(p) == IF p.op = BUSY THEN [p EXCEPT !.link = rv_tap_idle(@, 32)] ELSE p
Retry(p, first) ==
    IF first \/ p.op = BUSY THEN AfterRetry(rv_dtm_sync(p, DMI, <<NOP, 0, 0>>)) ELSE p

Poll(p) ==
    LET after[n \in 0 .. DMI_RETRIES] == IF n = 0 THEN p ELSE Retry(after[n - 1], n = 1)
    IN  after[DMI_RETRIES]

\* Mutant: the status is left to the next access.
SettleLater(p) == p

Settle(p) == IF p.op = DONE THEN p ELSE rv_dtm_sync(p, DTMCS, <<WithReset(p.dtmcs)>>)

\* Mutant: the answer to the request itself is taken for its result.
PollIfBusy(p) == IF p.op = BUSY THEN Poll(p) ELSE p
AccessAtOnce(p, op, addr, data) == Settle(PollIfBusy(rv_dtm_sync(p, DMI, <<op, data, addr>>)))

Access(p, op, addr, data) == Settle(Poll(rv_dtm_sync(p, DMI, <<op, data, addr>>)))

rv_dmi_read(p, addr) == Access(p, READ, addr, 0)
rv_dmi_write(p, addr, in) == Access(p, WRITE, addr, in)

-----------------------------------------------------------------------------
Outcome(p, err) == [p |-> p, err |-> err]

\* The debug module is there and turns active.
ActiveIn(p) == Outcome(p, IF p.op # DONE \/ p.data # 1 THEN "debug_module" ELSE "none")
ReadBack(p) ==
    IF p.op # DONE THEN Outcome(p, "debug_module") ELSE ActiveIn(rv_dmi_read(p, DmControl))
Switch(p) ==
    IF VersionOf(p.dtmcs) = 0 THEN Outcome(p, "debug_module")
    ELSE ReadBack(rv_dmi_write(p, DmControl, 1))

Responds(p) == p.idcode % 2 = 1
Activate(p) ==
    IF Responds(p) THEN Switch(rv_dtm_sync([p EXCEPT !.dtmcs = 0], DTMCS, <<0>>))
    ELSE Outcome(p, "line")

Identify(p, wires) == rv_dtm_sync([p EXCEPT !.link = wires], IDCODE, <<0>>)
OrShort(p) == IF Responds(p) THEN p ELSE Identify(p, rv_tap_oscan1_mode_short(p.link))

rv_target_init_post(p, protocol) ==
    LET reset == rv_tap_oscan1_mode_short_exit(rv_tap_reset(p.link, 32))
    IN  Activate(IF protocol = "jtag" THEN Identify(p, reset)
                 ELSE OrShort(Identify(p, rv_tap_oscan1_mode(reset))))

-----------------------------------------------------------------------------
NoCall == [op |-> "none", addr |-> 0, data |-> 0, protocol |-> "jtag",
           held |-> 0, prompt |-> FALSE, fails |-> FALSE]

\* What the caller's copy holds before rv_dmi_read.
Untouched == -2

\* A target answers in its time, or fails to; one that is not the target of the
\* session is given prompt answers only.
Answers == {[lat |-> l, fails |-> f] : l \in Latencies, f \in BOOLEAN}
Likely  == {a \in Answers : ~steady \/ error # "none" => ~a.fails /\ a.lat =< Idle}

\* How the target answers the next call.
Expecting(a) == [link EXCEPT !.far.lat = a.lat, !.far.fails = a.fails, !.far.ran = 0,
                             !.far.pend.mine = FALSE]
Prompt(a) == a.lat =< Idle /\ ~InProgress(link.far) /\ ~link.far.unseen

\* The call is over.  What was heard on the way, and what a scan captures anew,
\* is forgotten.
Take(p) ==
    /\ link' = [p.link EXCEPT !.heard = <<>>, !.far.lat = 0, !.far.fails = FALSE,
                              !.far.sh = IF Selected(p.link.far) THEN @ ELSE <<0>>,
                              !.far.count = IF Selected(p.link.far) THEN @ ELSE 0]
    /\ last_reg' = p.last_reg /\ dtmcs' = p.dtmcs /\ result' = p.op

Init ==
    /\ \E t \in Targets : link = Link(t)
    /\ last_reg = 0 /\ dtmcs = 0 /\ result = DONE
    /\ error = "none" /\ connected = FALSE /\ out = Untouched
    /\ steady = FALSE /\ call = NoCall

\* gdb_server_connected: rv_target_init and rv_target_init_post.
Connected(r) == Take(r.p) /\ error' = r.err /\ connected' = TRUE

Connect(protocol, a) ==
    /\ ~connected
    /\ Connected(rv_target_init_post([Probe EXCEPT !.link = rv_tap_init(Expecting(a))], protocol))
    /\ steady' = TRUE /\ out' = Untouched
    /\ call' = [NoCall EXCEPT !.op = "connect", !.protocol = protocol, !.prompt = Prompt(a)]

\* Only a read that is done touches the caller's copy.
Returned(p) == Take(p) /\ out' = IF p.op = DONE THEN p.data ELSE Untouched

Read(addr, a) ==
    /\ connected
    /\ Returned(rv_dmi_read([Probe EXCEPT !.link = Expecting(a)], addr))
    /\ call' = [NoCall EXCEPT !.op = "read", !.addr = addr,
                   !.held = link.far.dm[addr], !.prompt = Prompt(a), !.fails = a.fails]
    /\ UNCHANGED <<error, connected, steady>>

Write(addr, in, a) ==
    /\ connected
    /\ Take(rv_dmi_write([Probe EXCEPT !.link = Expecting(a)], addr, in))
    /\ out' = Untouched
    /\ call' = [NoCall EXCEPT !.op = "write", !.addr = addr, !.data = in,
                   !.prompt = Prompt(a), !.fails = a.fails]
    /\ UNCHANGED <<error, connected, steady>>

\* gdb_server_disconnected: rv_target_fini_pre disables the debug module of a
\* target that answered.  The pins are let go, the target keeps its format.
Disconnect(a) ==
    /\ connected
    /\ IF error = "line" THEN UNCHANGED <<link, last_reg, dtmcs, result>>
       ELSE Take(rv_dmi_write([Probe EXCEPT !.link = Expecting(a)], DmControl, 0))
    /\ connected' = FALSE /\ steady' = FALSE /\ call' = NoCall /\ out' = Untouched
    /\ UNCHANGED error

\* The target is powered down and up again, or another one takes its place.
Replace(t) ==
    /\ link' = [link EXCEPT !.far = t]
    /\ steady' = FALSE /\ call' = NoCall /\ out' = Untouched
    /\ UNCHANGED <<last_reg, dtmcs, result, error, connected>>

Next ==
    \/ \E protocol \in Protocols, a \in Answers : ~a.fails /\ Connect(protocol, a)
    \/ \E addr \in Addresses, a \in Likely : Read(addr, a)
    \/ \E in \in Values, a \in Likely : Write(Data0, in, a)
    \/ \E a \in Likely : Disconnect(a)
    \/ \E t \in Targets : Replace(t)

Spec == Init /\ [][Next]_vars

-----------------------------------------------------------------------------
InSession == connected /\ steady /\ error = "none"

\* In a session the two ends agree: on the scan format, on Run-Test/Idle, and
\* on the register that is selected.  The static last_reg survives resets of
\* the TAP, sessions and targets.
EndsAgree == InSession =>
    /\ link.oscan1_mode <=> link.far.format = "oscan1"
    /\ link.far.fsm = "RTI" /\ link.far.held = <<>>
    /\ last_reg = link.far.ir

\* An access that says it is done was carried out exactly once and returns
\* what the register held; any other leaves the caller's copy as it was.
AccessExact == InSession /\ call.op \in {"read", "write"} =>
    /\ link.far.ran =< 1
    /\ result = DONE => link.far.ran = 1
    /\ result = DONE /\ call.op = "write" => link.far.dm[call.addr] = call.data
    /\ out = IF result = DONE /\ call.op = "read" THEN call.held ELSE Untouched

\* A target that keeps to the idle cycles it asks for is never found busy and
\* gets the access done, whatever the one before came to: unless that is still
\* under way, or failed when nobody looked any more.
PromptIsDone == InSession /\ call.op \in {"read", "write"} /\ call.prompt =>
    result = IF call.fails THEN FAIL ELSE DONE

Reachable(t, protocol) == t.adapter # "absent" /\ (t.wires = 4 \/ protocol = "cjtag")

\* A prompt target is brought up over every protocol its wires carry, and no
\* other is, whatever format and register it was left with.
ComesUp == call.op = "connect" /\ call.prompt =>
    error = IF Reachable(link.far, call.protocol) THEN "none" ELSE "line"
=============================================================================
