----------------------------- MODULE Breakpoints -----------------------------
(***************************************************************************)
(* The two tables of riscv-target.c, software_breakpoints[] and            *)
(* hardware_breakpoints[], against what they stand for in the target: the  *)
(* ebreak instructions written over the program and the trigger registers. *)
(*                                                                         *)
(* Memory is counted in halfwords, the unit the code reads and writes it   *)
(* in here.  A halfword is the program's own or a piece of an ebreak.      *)
(***************************************************************************)
EXTENDS Integers, FiniteSets

CONSTANTS
    LastAddr,     \* halfwords 0 .. LastAddr of the target's memory
    Ram,          \* those that can be written; writing another one is an error
    NSoftware,    \* RV_TARGET_CONFIG_SOFTWARE_BREAKPOINT_NUM
    NHardware,    \* RV_TARGET_CONFIG_HARDWARE_BREAKPOINT_NUM
    NTriggers,    \* triggers the target has
    Supports,     \* trigger -> the accesses it can match
    KeepsInserted \* the host leaves breakpoints in place in a halted target

Addrs    == 0 .. LastAddr
SoftSlots == 0 .. NSoftware - 1
HardSlots == 0 .. NHardware - 1
Triggers == 0 .. NTriggers - 1
Accesses == {"execute", "load", "store"}
Pieces   == {"program", "c.ebreak", "ebreak.lo", "ebreak.hi"}
HardTypes == {"hardware", "write", "read", "access"}
Replies  == {"none", "OK", "E0e"}

ASSUME SizeAssumption ==
    LastAddr \in Nat /\ NSoftware \in Nat \ {0} /\ NHardware \in Nat \ {0}
ASSUME RamAssumption == Ram \subseteq Addrs
ASSUME TriggerAssumption ==
    /\ NTriggers \in Nat \ {0}
    /\ Supports \in [Triggers -> SUBSET Accesses]
ASSUME HostAssumption == KeepsInserted \in BOOLEAN

VARIABLES
    live,       \* host: breakpoints acknowledged with OK and not removed
    reply,      \* the answer to the last Z or z packet
    mem,        \* the target's memory
    soft, hard, \* software_breakpoints[], hardware_breakpoints[]
    trig,       \* tdata1 and tdata2 of every trigger
    tselect     \* the trigger selected

vars == <<live, reply, mem, soft, hard, trig, tselect>>

Kinds == {2, 4}
Cells(addr, kind) == IF kind = 2 THEN {addr} ELSE {addr, addr + 1}
Places == {p \in Addrs \X Kinds : Cells(p[1], p[2]) \subseteq Addrs}

\* What the halfword at a holds when an ebreak of this kind is at addr.
EbreakAt(addr, kind, a) ==
    IF kind = 2 THEN "c.ebreak" ELSE IF a = addr THEN "ebreak.lo" ELSE "ebreak.hi"

FreeSoft == [type |-> "unused", addr |-> 0, kind |-> 2, inst |-> [a \in Addrs |-> "program"]]
FreeHard == [type |-> "unused", addr |-> 0, kind |-> 2]
Off == [match |-> {}, addr |-> 0]

Least(S) == CHOOSE i \in S : \A j \in S : i =< j

\* The host's name of a breakpoint.
Bp(type, addr, kind) == [type |-> type, addr |-> addr, kind |-> kind]

Init ==
    /\ live = {} /\ reply = "none"
    /\ mem = [a \in Addrs |-> "program"]
    /\ soft = [i \in SoftSlots |-> FreeSoft]
    /\ hard = [i \in HardSlots |-> FreeHard]
    /\ trig = [t \in Triggers |-> Off]
    /\ tselect = 0

-----------------------------------------------------------------------------
(* Target.  rv_memory_write goes through a breakpoint's halfwords in order  *)
(* and stops at the first error, and its callers here do not look.  A       *)
(* tselect that names no trigger is not taken; tdata1 takes the accesses    *)
(* the trigger can match.                                                   *)

\* Before the first halfword that is not RAM.
Reached(cells) == {a \in cells : \A b \in cells : b =< a => b \in Ram}

Written(cells, val) == [a \in Addrs |-> IF a \in Reached(cells) THEN val[a] ELSE mem[a]]

Selected(i) == IF i \in Triggers THEN i ELSE tselect

Matches(type) == CASE type = "hardware" -> {"execute"}
                   [] type = "write"    -> {"store"}
                   [] type = "read"     -> {"load"}
                   [] type = "access"   -> {"load", "store"}

-----------------------------------------------------------------------------
(* The host inserts no breakpoint over another one and removes what it has  *)
(* inserted.                                                                *)

Clear(type, addr, kind) ==
    IF type = "software"
    THEN \A b \in live : b.type = "software" => Cells(b.addr, b.kind) \cap Cells(addr, kind) = {}
    ELSE Bp(type, addr, kind) \notin live

Acknowledge(ok, new) ==
    /\ reply' = IF ok THEN "OK" ELSE "E0e"
    /\ live' = IF ok THEN new ELSE live

\* Mutant: the instruction is read back after the ebreak was written.
KeptAfter(addr, kind) ==
    [a \in Addrs |-> IF a \in Cells(addr, kind) THEN EbreakAt(addr, kind, a) ELSE "program"]

\* What the slot keeps of the program.
Kept(addr, kind) == [a \in Addrs |-> IF a \in Cells(addr, kind) THEN mem[a] ELSE "program"]

\* rv_target_insert_breakpoint, software.
InsertSoftware(addr, kind) ==
    LET free == {i \in SoftSlots : soft[i].type = "unused"}
        i == Least(free)
    IN  /\ Clear("software", addr, kind)
        /\ Acknowledge(free # {}, live \cup {Bp("software", addr, kind)})
        /\ IF free = {}
           THEN UNCHANGED <<soft, mem>>
           ELSE /\ soft' = [soft EXCEPT ![i] = [type |-> "software", addr |-> addr,
                                                kind |-> kind, inst |-> Kept(addr, kind)]]
                /\ mem' = Written(Cells(addr, kind), [a \in Addrs |-> EbreakAt(addr, kind, a)])
        /\ UNCHANGED <<hard, trig, tselect>>

\* Mutant: the address is not compared.
FoundSoftAnywhere(addr, kind) ==
    {i \in SoftSlots : soft[i].type = "software" /\ soft[i].kind = kind}

FoundSoft(addr, kind) ==
    {i \in SoftSlots : soft[i].type = "software" /\ soft[i].addr = addr /\ soft[i].kind = kind}

\* rv_target_remove_breakpoint, software.
RemoveSoftware(addr, kind) ==
    LET found == FoundSoft(addr, kind)
        i == Least(found)
    IN  /\ Bp("software", addr, kind) \in live
        /\ Acknowledge(found # {}, live \ {Bp("software", addr, kind)})
        /\ IF found = {}
           THEN UNCHANGED <<soft, mem>>
           ELSE /\ mem' = Written(Cells(addr, kind), soft[i].inst)
                /\ soft' = [soft EXCEPT ![i].type = "unused"]
        /\ UNCHANGED <<hard, trig, tselect>>

-----------------------------------------------------------------------------
(* Hardware breakpoints and watchpoints.  A slot stands for the trigger of   *)
(* its number.                                                              *)

\* Mutant: the search stops before the last slot.
FreeHardButLast == {i \in HardSlots : i < NHardware - 1 /\ hard[i].type = "unused"}

FreeHardSlots == {i \in HardSlots : hard[i].type = "unused"}

\* The early returns leave tselect where it is.
TselectAfter(i, returnsEarly) == IF returnsEarly THEN Selected(i) ELSE tselect

\* Mutant: tdata2 is not written.
ArmedAtOld(i, want, addr) == [match |-> want, addr |-> trig[i].addr]

Armed(i, want, addr) == [match |-> want, addr |-> addr]

\* rv_target_insert_breakpoint, hardware and watchpoints.  The slot is taken
\* first and stays taken when tselect or tdata1 reads back as something else.
InsertHardware(type, addr) ==
    LET i    == Least(FreeHardSlots)
        want == trig[i].match \cup Matches(type)
        got  == want \cap Supports[i]
        ok   == FreeHardSlots # {} /\ i \in Triggers /\ got = want
    IN  /\ Clear(type, addr, 4)
        /\ Acknowledge(ok, live \cup {Bp(type, addr, 4)})
        /\ IF FreeHardSlots = {}
           THEN UNCHANGED <<hard, trig, tselect>>
           ELSE /\ hard' = [hard EXCEPT ![i] = Bp(type, addr, 4)]
                /\ trig' = IF i \notin Triggers THEN trig
                           ELSE IF ok THEN [trig EXCEPT ![i] = Armed(i, want, addr)]
                           ELSE [trig EXCEPT ![i].match = got]
                /\ tselect' = TselectAfter(i, ~ok)
        /\ UNCHANGED <<mem, soft>>

\* Mutant: tdata1 of the trigger that is selected is cleared, not the slot's.
ReleasedSelected(i) == [trig EXCEPT ![tselect].match = {}]

Released(i) == [trig EXCEPT ![i].match = {}]

\* rv_target_remove_breakpoint, hardware and watchpoints.
RemoveHardware(type, addr) ==
    LET found == {i \in HardSlots : hard[i] = Bp(type, addr, 4)}
        i     == Least(found)
        ok    == found # {} /\ i \in Triggers
    IN  /\ Bp(type, addr, 4) \in live
        /\ Acknowledge(ok, live \ {Bp(type, addr, 4)})
        /\ IF found = {}
           THEN UNCHANGED <<hard, trig, tselect>>
           ELSE /\ trig' = IF ok THEN Released(i) ELSE trig
                /\ hard' = IF ok THEN [hard EXCEPT ![i].type = "unused"] ELSE hard
                /\ tselect' = TselectAfter(i, ~ok)
        /\ UNCHANGED <<mem, soft>>

\* Mutant: tselect is left at the counter of the loop.
LastSelectedCounter == NHardware

\* The last tselect the loop over the slots gets accepted.
LastSelected == IF NHardware =< NTriggers THEN NHardware - 1 ELSE NTriggers - 1

\* The end of rv_target_init_after_halted: tdata1 of every trigger a slot
\* stands for is cleared; tselect is left at the last one.
ClearTriggers ==
    /\ trig' = [t \in Triggers |-> IF t \in HardSlots THEN [trig[t] EXCEPT !.match = {}]
                                   ELSE trig[t]]
    /\ tselect' = LastSelected

\* A host that takes its breakpoints out of a halted target has none in place
\* when it sends anything else.
NothingPlanted == KeepsInserted \/ live = {}

\* `monitor halt': rv_target_init_after_halted, to its end or to one of its
\* early returns.
MonitorHalt ==
    /\ NothingPlanted
    /\ ClearTriggers \/ UNCHANGED <<trig, tselect>>
    /\ reply' = "OK"
    /\ UNCHANGED <<live, mem, soft, hard>>

\* gdb_server_connected: rv_target_init forgets both tables, then, if the
\* target answers, rv_target_init_after_halted.  The new host has nothing.
Connect ==
    /\ NothingPlanted
    /\ soft' = [i \in SoftSlots |-> [soft[i] EXCEPT !.type = "unused"]]
    /\ hard' = [i \in HardSlots |-> [hard[i] EXCEPT !.type = "unused"]]
    /\ ClearTriggers \/ UNCHANGED <<trig, tselect>>
    /\ live' = {}
    /\ reply' = "none"
    /\ UNCHANGED mem

-----------------------------------------------------------------------------
Software == \E p \in Places : InsertSoftware(p[1], p[2]) \/ RemoveSoftware(p[1], p[2])
Hardware == \E type \in HardTypes, addr \in Addrs :
                InsertHardware(type, addr) \/ RemoveHardware(type, addr)

Next == Software \/ Hardware \/ MonitorHalt \/ Connect

Spec == Init /\ [][Next]_vars

-----------------------------------------------------------------------------
TypeOK ==
    /\ live \subseteq [type : HardTypes \cup {"software"}, addr : Addrs, kind : Kinds]
    /\ reply \in Replies
    /\ mem \in [Addrs -> Pieces]
    /\ soft \in [SoftSlots -> [type : {"software", "unused"}, addr : Addrs, kind : Kinds,
                               inst : [Addrs -> Pieces]]]
    /\ hard \in [HardSlots -> [type : HardTypes \cup {"unused"}, addr : Addrs, kind : Kinds]]
    /\ trig \in [Triggers -> [match : SUBSET Accesses, addr : Addrs]]
    /\ tselect \in Triggers

UsedSoft == {i \in SoftSlots : soft[i].type # "unused"}

\* The target's memory is the program's but for an ebreak at each software
\* breakpoint of the table, of which the halfwords are there that lie in RAM
\* with all before them: taking breakpoints out in any order puts the program
\* back.
SoftAgrees ==
    \A a \in Addrs :
        LET over == {i \in UsedSoft : /\ a \in Cells(soft[i].addr, soft[i].kind)
                                      /\ soft[i].addr .. a \subseteq Ram}
        IN  IF over # {}
            THEN \A i \in over : mem[a] = EbreakAt(soft[i].addr, soft[i].kind, a)
            ELSE mem[a] = "program"

\* One slot for each software breakpoint the host has, and no other slot taken:
\* the table is full only when the host has as many in place.
SoftTracksHost ==
    /\ {Bp(soft[i].type, soft[i].addr, soft[i].kind) : i \in UsedSoft}
           = {b \in live : b.type = "software"}
    /\ \A i, j \in UsedSoft : soft[i].addr = soft[j].addr => i = j

\* A trigger that can stop the program belongs to the slot of its number and
\* matches that slot's accesses at that slot's address.
TriggersHaveSlots ==
    \A t \in Triggers : trig[t].match # {} =>
        /\ t \in HardSlots
        /\ hard[t].type # "unused"
        /\ trig[t] = [match |-> Matches(hard[t].type), addr |-> hard[t].addr]

\* A hardware breakpoint or watchpoint the host was told is in place is.
AcknowledgedIsPlanted ==
    \A b \in live : b.type # "software" =>
        \E t \in Triggers : trig[t] = [match |-> Matches(b.type), addr |-> b.addr]

\* The probe offers as many hardware breakpoints as it has slots, whatever
\* requests it has turned down before.
HardCapacity ==
    [][(\E addr \in Addrs : InsertHardware("hardware", addr)) /\ reply' = "E0e" =>
          Cardinality({b \in live : b.type # "software"}) = NHardware]_vars
=============================================================================
