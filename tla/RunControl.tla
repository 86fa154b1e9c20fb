----------------------------- MODULE RunControl ------------------------------
(***************************************************************************)
(* Halting and resuming the target: what stops it, what                    *)
(* rv_target_halt_check makes of that, and the registers gdb_server_poll   *)
(* puts back behind a flash algorithm.  The tables of breakpoints and the  *)
(* triggers agree, as Breakpoints shows: a slot in use is an armed trigger.*)
(*                                                                         *)
(* The core registers are one value, named for the run that left it.       *)
(***************************************************************************)
EXTENDS Integers, FiniteSets

CONSTANTS
    Code, Data,    \* addresses of instructions, and of data
    NSlots,        \* RV_TARGET_CONFIG_HARDWARE_BREAKPOINT_NUM
    Targets        \* kinds of target: what a trigger tells of its match

Slots      == 0 .. NSlots - 1
Watches    == {"write", "read", "access"}
HardTypes  == Watches \cup {"hardware"}
Accesses   == {"load", "store"}
Causes     == {"none", "haltreq", "ebreak", "trigger", "step", "reset"}
Values     == {"p0", "p1"}
Nowhere    == 0

\* "hit": mcontrol.hit is implemented and a trigger fires before the access;
\* "hit after": it fires behind it; "no hit": the bit reads as zero.
TargetKinds == {"hit", "hit after", "no hit"}

ASSUME AddressAssumption == Code \cap Data = {} /\ Nowhere \notin Code \cup Data
ASSUME SlotsAssumption   == NSlots \in Nat \ {0}
ASSUME TargetsAssumption == Targets \subseteq TargetKinds /\ Targets # {}

VARIABLES
    kind,             \* the target there is
    exec,             \* target: "halted" or "running"
    cause, dpc,       \* dcsr.cause and dpc of the last halt
    ebreak, step,     \* dcsr.ebreakm, dcsr.step
    hit,              \* the slots whose trigger has its hit bit set
    access,           \* what the instruction at dpc accesses, as it is decoded
    core,             \* the core registers
    hard, soft,       \* hardware_breakpoints[]; some software breakpoint is in place
    polling,          \* target_running
    flag, regs,       \* restore_reg_flag, gdb_server_i.regs
    reported,         \* the last stop reply
    phase,            \* host: what it does
    own, why          \* the program's registers; the breakpoints that fired
                      \* since the last stop reply

targetVars == <<kind, exec, cause, dpc, ebreak, step, hit, access, core>>
probeVars  == <<hard, soft, polling, flag, regs>>
hostVars   == <<reported, phase, own, why>>
vars       == <<targetVars, probeVars, hostVars>>

\* "ctrl-c" is gdb_server_poll's own.
StopReasons == HardTypes \cup {"none", "software", "other", "ctrl-c"}

Unused == [type |-> "unused", addr |-> Nowhere]
Stop(reason, addr) == [reason |-> reason, addr |-> addr]

Least(S) == CHOOSE i \in S : \A j \in S : i =< j

Used  == {i \in Slots : hard[i].type # "unused"}
At(a) == {i \in Used : hard[i] = [type |-> "hardware", addr |-> a]}

\* After gdb_server_connected.
Init ==
    /\ kind \in Targets
    /\ exec = "halted" /\ cause = "haltreq" /\ dpc \in Code
    /\ ebreak = TRUE /\ step = FALSE /\ hit = {} /\ access = Nowhere
    /\ core = "p0" /\ own = "p0"
    /\ hard = [i \in Slots |-> Unused] /\ soft = FALSE
    /\ polling = FALSE /\ flag = FALSE /\ regs = "p1"
    /\ reported = Stop("none", Nowhere) /\ phase = "idle" /\ why = {}

-----------------------------------------------------------------------------
(* The host.  It takes every breakpoint out when the target stops, watches  *)
(* an address in one way at a time, and sends no \x03 to a flash algorithm. *)

CanInsert(type, a) ==
    /\ phase = "idle"
    /\ IF type = "hardware" THEN a \in Code ELSE a \in Data
    /\ \A i \in Used : hard[i].addr # a

\* rv_target_insert_breakpoint for a trigger that accepts what is asked.
InsertHardware(type, a) ==
    LET free == Slots \ Used
    IN  /\ CanInsert(type, a)
        /\ free # {}
        /\ hard' = [hard EXCEPT ![Least(free)] = [type |-> type, addr |-> a]]
        /\ UNCHANGED <<targetVars, soft, polling, flag, regs, hostVars>>

InsertSoftware ==
    /\ phase = "idle"
    /\ soft' = TRUE
    /\ UNCHANGED <<targetVars, hard, polling, flag, regs, hostVars>>

\* Mutant: the hit bit outlives the removal of its breakpoint.
HitAfterRemoveKept(i) == hit

\* tdata1 is written with zero.
HitAfterRemove(i) == hit \ {i}

\* rv_target_remove_breakpoint; the slot keeps its address.
RemoveHardware(i) ==
    /\ phase = "stopped"
    /\ i \in Used
    /\ hard' = [hard EXCEPT ![i].type = "unused"]
    /\ hit' = HitAfterRemove(i)
    /\ phase' = IF Used = {i} /\ ~soft THEN "idle" ELSE "stopped"
    /\ UNCHANGED <<kind, exec, cause, dpc, ebreak, step, access, core, soft,
                   polling, flag, regs, reported, own, why>>

RemoveSoftware ==
    /\ phase = "stopped"
    /\ soft
    /\ soft' = FALSE
    /\ phase' = IF Used = {} THEN "idle" ELSE "stopped"
    /\ UNCHANGED <<targetVars, hard, polling, flag, regs, reported, own, why>>

\* gdb_server_cmd_g leaves what it reads in gdb_server_i.regs.
ReadRegs ==
    /\ phase \in {"idle", "stopped"}
    /\ regs' = core
    /\ UNCHANGED <<targetVars, hard, soft, polling, flag, hostVars>>

\* gdb_server_cmd_G.
WriteRegs(v) ==
    /\ phase \in {"idle", "stopped"}
    /\ regs' = v /\ core' = v /\ own' = v
    /\ UNCHANGED <<kind, exec, cause, dpc, ebreak, step, hit, access, hard, soft,
                   polling, flag, reported, phase, why>>

\* Mutant: the registers are saved when the algorithm's are already written.
SavedLate == "loader"

\* What rv_target_read_core_registers saves.
Saved == core

\* gdb_server_cmd_custom_algorithm: the host asks for it with no breakpoint
\* in place and continues next.
Algorithm ==
    /\ phase = "idle" /\ Used = {} /\ ~soft
    /\ regs' = Saved
    /\ flag' = TRUE
    /\ core' = "loader"
    /\ phase' = "loaded"
    /\ UNCHANGED <<kind, exec, cause, dpc, ebreak, step, hit, access, hard, soft,
                   polling, reported, own, why>>

\* Mutant: dcsr.step is left from the step before.
StepAfterKept(single) == step \/ single

\* rv_target_resume clears dcsr.step, rv_target_step sets it.
StepAfter(single) == single

\* gdb_server_cmd_c and gdb_server_cmd_s.  What the last halt left is not looked
\* at while the target runs.
Resume(single) ==
    /\ phase = "idle" \/ (phase = "loaded" /\ ~single)
    /\ exec' = "running"
    /\ step' = StepAfter(single)
    /\ polling' = TRUE
    /\ phase' = IF phase = "loaded" THEN "loading" ELSE IF single THEN "stepping" ELSE "waiting"
    /\ cause' = "none" /\ dpc' = Nowhere /\ access' = Nowhere
    /\ reported' = Stop("none", Nowhere)
    /\ UNCHANGED <<kind, ebreak, hit, core, hard, soft, flag, regs, own, why>>

-----------------------------------------------------------------------------
(* The target runs.  A program leaves new values in its registers.          *)

Halts(why_, cause_, at, values) ==
    /\ exec = "running"
    /\ exec' = "halted"
    /\ cause' = cause_
    /\ dpc' = at
    /\ why' = why_
    /\ core' = values
    /\ own' = IF core = "loader" THEN own ELSE values
    /\ UNCHANGED <<kind, ebreak, step, probeVars, reported, phase>>

Fires(slots) == hit' = IF kind = "no hit" THEN {} ELSE hit \cup slots

Left == IF core = "loader" THEN {"loader"} ELSE Values

\* An execute trigger: before the instruction, whatever that one accesses.
ReachesHardware ==
    \E a \in Code, v \in Left, d \in Data \cup {Nowhere} :
        /\ At(a) # {}
        /\ Halts({hard[i] : i \in At(a)}, "trigger", a, v)
        /\ Fires(At(a))
        /\ access' = d

Matches(type, how) == type = "access" \/ type = (IF how = "load" THEN "read" ELSE "write")

\* A load or store trigger.  Before the access, dpc is at the instruction,
\* whose address the code works out or, for one it does not know, takes as x0;
\* behind it, dpc is at some other instruction.
TouchesWatched ==
    \E a \in Data, how \in Accesses, p \in Code, v \in Left, d \in Data \cup {Nowhere} :
        LET fired == {i \in Used : hard[i].addr = a /\ Matches(hard[i].type, how)}
        IN  /\ fired # {}
            /\ kind # "hit after" => At(p) = {} /\ d \in {a, Nowhere}
            /\ Halts({hard[i] : i \in fired}, "trigger", p, v)
            /\ Fires(fired)
            /\ access' = d

\* An ebreak: a software breakpoint of the program, or the algorithm's end.
ReachesEbreak ==
    \E p \in Code, v \in Left :
        /\ ebreak
        /\ soft \/ core = "loader"
        /\ Halts({[type |-> "software", addr |-> Nowhere]}, "ebreak", p, v)
        /\ access' = Nowhere
        /\ UNCHANGED hit

Stepped ==
    \E p \in Code, v \in Left :
        /\ step
        /\ Halts({}, "step", p, v)
        /\ access' = Nowhere
        /\ UNCHANGED hit

-----------------------------------------------------------------------------
(* The probe takes notice.                                                  *)

\* What a trigger halt is put down to: the first slot with its hit bit set,
\* the hardware breakpoint at dpc before it, and without either the first slot
\* with the address the instruction at dpc accesses, if it watches it.
TriggerReason ==
    LET hits    == hit \cap Used
        first   == hard[Least(hits)]
        watched == {i \in Used : hard[i].type \in Watches}
        same    == {i \in Slots : hard[i].addr = access}
        near    == hard[Least(same)]
    IN  IF At(dpc) # {} THEN Stop("hardware", Nowhere)
        ELSE IF hits # {}
             THEN Stop(first.type, IF first.type \in Watches THEN first.addr ELSE Nowhere)
        ELSE IF watched # {} /\ same # {} /\ near.type \in Watches THEN Stop(near.type, access)
        ELSE Stop("other", Nowhere)

Reason ==
    IF cause = "ebreak" THEN Stop("software", Nowhere)
    ELSE IF cause = "trigger" THEN TriggerReason
    ELSE Stop("other", Nowhere)

Told(stop) ==
    /\ polling' = FALSE
    /\ reported' = stop
    /\ why' = {}
    /\ phase' = IF Used = {} /\ ~soft THEN "idle" ELSE "stopped"

\* Mutant: the flag is left set.
RestoreKept ==
    /\ core' = IF flag THEN regs ELSE core
    /\ UNCHANGED flag

\* rv_target_write_core_registers(regs), once.
Restore ==
    /\ core' = IF flag THEN regs ELSE core
    /\ flag' = FALSE

\* The halt check of gdb_server_poll finds the target halted.
HaltCheck ==
    /\ polling
    /\ exec = "halted"
    /\ Told(Reason)
    /\ Restore
    /\ UNCHANGED <<kind, exec, cause, dpc, ebreak, step, hit, access, hard, soft,
                   regs, own>>

\* \x03 before the halt check: the target is halted now if it was not yet.
CtrlC ==
    /\ phase \in {"waiting", "stepping"}
    /\ polling
    /\ Told(Stop("ctrl-c", Nowhere))
    /\ exec' = "halted"
    /\ IF exec = "halted"
       THEN UNCHANGED <<cause, dpc, core, own, access>>
       ELSE /\ cause' = "haltreq" /\ dpc' \in Code /\ access' = Nowhere
            /\ core' \in Left /\ own' = core'
    /\ UNCHANGED <<kind, ebreak, step, hit, hard, soft, flag, regs>>

\* `monitor reset': the hart starts anew, dcsr and triggers with it, and halts
\* at its reset vector.  The host has taken its breakpoints out.
MonitorReset ==
    /\ phase = "idle" /\ Used = {} /\ ~soft
    /\ cause' = "reset" /\ dpc' \in Code
    /\ ebreak' = FALSE /\ step' = FALSE /\ hit' = {} /\ access' = Nowhere
    /\ core' = "p0" /\ own' = "p0"
    /\ UNCHANGED <<kind, exec, probeVars, reported, phase, why>>

\* `monitor halt': rv_target_init_after_halted sets dcsr.ebreakm and clears the
\* triggers.
MonitorHalt ==
    /\ phase = "idle" /\ Used = {} /\ ~soft
    /\ ebreak' = TRUE /\ hit' = {}
    /\ UNCHANGED <<kind, exec, cause, dpc, step, access, core, probeVars, hostVars>>

Host == \/ \E type \in HardTypes, a \in Code \cup Data : InsertHardware(type, a)
        \/ \E i \in Slots : RemoveHardware(i)
        \/ InsertSoftware \/ RemoveSoftware
        \/ ReadRegs \/ \E v \in Values : WriteRegs(v)
        \/ Algorithm \/ \E single \in BOOLEAN : Resume(single)
        \/ CtrlC \/ MonitorReset \/ MonitorHalt

Program == ReachesHardware \/ TouchesWatched \/ ReachesEbreak \/ Stepped

Next == Host \/ Program \/ HaltCheck

Spec == Init /\ [][Next]_vars

-----------------------------------------------------------------------------
TypeOK ==
    /\ kind \in TargetKinds
    /\ exec \in {"halted", "running"}
    /\ cause \in Causes
    /\ dpc \in Code \cup {Nowhere} /\ ebreak \in BOOLEAN /\ step \in BOOLEAN
    /\ hit \subseteq Slots
    /\ access \in Data \cup {Nowhere}
    /\ core \in Values \cup {"loader"} /\ own \in Values
    /\ hard \in [Slots -> [type : HardTypes \cup {"unused"}, addr : Code \cup Data \cup {Nowhere}]]
    /\ soft \in BOOLEAN /\ polling \in BOOLEAN
    /\ flag \in BOOLEAN /\ regs \in Values
    /\ reported \in [reason : StopReasons, addr : Data \cup {Nowhere}]
    /\ phase \in {"idle", "stopped", "loaded", "loading", "stepping", "waiting"}

\* A stop reply names a breakpoint that stopped the target this time, and none
\* when none did: a hardware breakpoint where the target stands, a watchpoint
\* that fired, at its address.  "other" is said of a trigger only by a target
\* without hit bits, of an instruction that is not decoded.
NamesCause ==
    LET r == reported'
    IN  IF r.reason \in Watches THEN [type |-> r.reason, addr |-> r.addr] \in why
        ELSE IF r.reason = "hardware" THEN At(dpc) # {} /\ why # {}
        ELSE IF r.reason = "software" THEN \E b \in why : b.type = "software"
        ELSE why = {} \/ (kind = "no hit" /\ access = Nowhere)
StopNamesItsCause == [][HaltCheck => NamesCause]_vars

\* Whenever the host may look, the core registers are the program's own: what
\* an algorithm did to them is undone, and nothing is put back a second time.
RegistersSurvive == phase \in {"idle", "stopped"} => core = own

\* A program that is continued is not stopped by a step nobody asked for.
ContinueRuns == [][Stepped => phase = "stepping"]_vars

\* Ebreak instructions enter Debug Mode in every target that runs with a
\* software breakpoint in place or an algorithm loaded.
EbreakEntersDebug == exec = "running" /\ (soft \/ phase = "loading") => ebreak
=============================================================================
