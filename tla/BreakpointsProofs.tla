-------------------------- MODULE BreakpointsProofs --------------------------
(***************************************************************************)
(* The tables of Breakpoints for every memory, every number of slots and   *)
(* triggers, and every target.  The software half needs no assumption on   *)
(* the target; the hardware half names what it needs as TriggersAlike.     *)
(***************************************************************************)
EXTENDS Breakpoints, WellFoundedInduction, FiniteSetTheorems, TLAPS

\* The triggers of the target match the same accesses, and loads if and only
\* if stores.
TriggersAlike ==
    \A t, u \in Triggers : /\ Supports[t] = Supports[u]
                           /\ "load" \in Supports[t] <=> "store" \in Supports[t]

-----------------------------------------------------------------------------
(* The inductive invariants.                                                *)

SoftBp(i)    == Bp(soft[i].type, soft[i].addr, soft[i].kind)
SoftCells(i) == Cells(soft[i].addr, soft[i].kind)

\* Slots in use and software breakpoints of the host are in step, and no two
\* slots in use share a halfword.
SoftTable ==
    /\ \A i \in UsedSoft : SoftBp(i) \in live
    /\ \A b \in live : b.type = "software" => \E i \in UsedSoft : SoftBp(i) = b
    /\ \A i, j \in UsedSoft : SoftCells(i) \cap SoftCells(j) # {} => i = j

\* A slot keeps the program's own halfwords, never a piece of another ebreak.
KeepsProgram == \A i \in UsedSoft : \A a \in SoftCells(i) : soft[i].inst[a] = "program"

\* SoftAgrees, halfword by halfword.
MemAgrees ==
    \A a \in Addrs :
        /\ \A i \in UsedSoft : a \in Reached(SoftCells(i)) =>
               mem[a] = EbreakAt(soft[i].addr, soft[i].kind, a)
        /\ (\A i \in UsedSoft : a \notin Reached(SoftCells(i))) => mem[a] = "program"

SoftInv == TypeOK /\ SoftTable
MemInv  == SoftInv /\ KeepsProgram /\ MemAgrees

Full(b) == [match |-> Matches(b.type), addr |-> b.addr]

Arm(t) == trig[t].match # {}

\* An armed trigger is that of a breakpoint the host has, and the only one.
ArmedTriggers ==
    /\ \A t \in Triggers : Arm(t) =>
          /\ t \in HardSlots /\ hard[t].type # "unused" /\ hard[t] \in live
          /\ trig[t] = Full(hard[t]) /\ Matches(hard[t].type) \subseteq Supports[t]
    /\ \A t, u \in Triggers : Arm(t) /\ Arm(u) /\ hard[t] = hard[u] => t = u

\* A slot that is taken without a trigger armed is one that was turned down.
TurnedDown ==
    \A t \in Triggers \cap HardSlots : hard[t].type # "unused" /\ ~Arm(t) =>
        ~(Matches(hard[t].type) \subseteq Supports[t])

\* Every hardware breakpoint or watchpoint of the host has its slot and trigger.
Planted ==
    \A b \in live : b.type # "software" =>
        /\ b.kind = 4
        /\ \E t \in Triggers : t \in HardSlots /\ hard[t] = b /\ trig[t] = Full(b)

HardInv == TypeOK /\ ArmedTriggers /\ TurnedDown /\ Planted

-----------------------------------------------------------------------------
(* Operators.                                                               *)

\* Least is the least: the code's searches find the first slot there is.
LEMMA LeastIsLeast ==
    ASSUME NEW S \in SUBSET Nat, S # {}
    PROVE  Least(S) \in S /\ \A j \in S : Least(S) =< j
<1>1. PICK i \in S : \A j \in S : <<j, i>> \notin OpToRel(<, Nat)
  BY NatLessThanWellFounded, WFMin
<1>2. ASSUME NEW j \in S, ~(i =< j) PROVE FALSE
  <2>1. j < i /\ j \in Nat /\ i \in Nat
    BY <1>2
  <2>2. <<j, i>> \in OpToRel(<, Nat)
    BY <2>1, Zenon DEF OpToRel
  <2> QED
    BY <1>1, <2>2
<1> QED
  BY <1>2 DEF Least

\* Slots and triggers are counted from zero.
LEMMA Counted == SoftSlots \subseteq Nat /\ HardSlots \subseteq Nat /\ Triggers \subseteq Nat
BY SizeAssumption, TriggerAssumption DEF SoftSlots, HardSlots, Triggers

\* A breakpoint that fits into memory lies on halfwords of memory.
LEMMA PlacesAreInside ==
    ASSUME NEW p \in Places
    PROVE  /\ p[1] \in Addrs /\ p[2] \in Kinds
           /\ Cells(p[1], p[2]) \subseteq Addrs
           /\ p[1] \in Cells(p[1], p[2])
BY DEF Places, Cells

\* A write reaches those halfwords of a breakpoint that lie in RAM with all
\* before them, and no others.
LEMMA ReachedFromFirst ==
    ASSUME NEW addr \in Nat, NEW kind \in Kinds, NEW a
    PROVE  a \in Reached(Cells(addr, kind)) <=> a \in Cells(addr, kind) /\ addr .. a \subseteq Ram
<1>1. CASE kind = 2
  BY <1>1 DEF Reached, Cells
<1>2. CASE kind # 2
  BY <1>2 DEF Reached, Cells
<1> QED
  BY <1>1, <1>2

\* And never leave the breakpoint.
LEMMA ReachedIsInside == \A cells : Reached(cells) \subseteq cells
BY DEF Reached

-----------------------------------------------------------------------------
(* Types.                                                                   *)

\* A slot of either table, a trigger.
SoftEntry == [type : {"software", "unused"}, addr : Addrs, kind : Kinds, inst : [Addrs -> Pieces]]
HardEntry == [type : HardTypes \cup {"unused"}, addr : Addrs, kind : Kinds]
Trigger   == [match : SUBSET Accesses, addr : Addrs]

\* Every step keeps the variables in their types.
LEMMA TypeStep == ASSUME TypeOK, [Next]_vars PROVE TypeOK'
<1> USE SizeAssumption, TriggerAssumption, RamAssumption
<1>1. ASSUME NEW p \in Places, InsertSoftware(p[1], p[2]) PROVE TypeOK'
  <2> DEFINE free == {i \in SoftSlots : soft[i].type = "unused"}
  <2>1. free # {} => Least(free) \in SoftSlots
    BY LeastIsLeast, Counted
  <2>2. Bp("software", p[1], p[2]) \in [type : HardTypes \cup {"software"}, addr : Addrs, kind : Kinds]
    BY PlacesAreInside DEF Bp
  <2>3. live' \subseteq [type : HardTypes \cup {"software"}, addr : Addrs, kind : Kinds] /\ reply' \in Replies
    BY <1>1, <2>2 DEF InsertSoftware, Acknowledge, TypeOK, Replies
  <2>4. Kept(p[1], p[2]) \in [Addrs -> Pieces]
    BY DEF Kept, TypeOK, Pieces
  <2>5. soft' \in [SoftSlots -> SoftEntry]
    <3> DEFINE new == [type |-> "software", addr |-> p[1], kind |-> p[2], inst |-> Kept(p[1], p[2])]
    <3>1. new \in SoftEntry
      BY <2>4, PlacesAreInside DEF SoftEntry
    <3>2. soft \in [SoftSlots -> SoftEntry]
      BY DEF TypeOK, SoftEntry
    <3>3. soft' = soft \/ (free # {} /\ soft' = [soft EXCEPT ![Least(free)] = new])
      BY <1>1 DEF InsertSoftware
    <3> QED
      BY <2>1, <3>1, <3>2, <3>3
  <2>6. mem' \in [Addrs -> Pieces]
    BY <1>1 DEF InsertSoftware, Written, EbreakAt, TypeOK, Pieces
  <2> QED
    BY <1>1, <2>3, <2>5, <2>6 DEF InsertSoftware, TypeOK, SoftEntry
<1>2. ASSUME NEW p \in Places, RemoveSoftware(p[1], p[2]) PROVE TypeOK'
  <2> DEFINE found == FoundSoft(p[1], p[2])
  <2>1. found # {} => Least(found) \in SoftSlots
    BY LeastIsLeast, Counted DEF FoundSoft
  <2>2. soft' \in [SoftSlots -> SoftEntry]
    <3>1. soft \in [SoftSlots -> SoftEntry]
      BY DEF TypeOK, SoftEntry
    <3>2. ASSUME NEW i \in SoftSlots PROVE [soft[i] EXCEPT !.type = "unused"] \in SoftEntry
      BY <3>1 DEF SoftEntry
    <3>3. soft' = soft \/ (found # {} /\ soft' = [soft EXCEPT ![Least(found)].type = "unused"])
      BY <1>2 DEF RemoveSoftware
    <3> QED
      BY <2>1, <3>1, <3>2, <3>3
  <2>3. mem' \in [Addrs -> Pieces]
    BY <1>2, <2>1 DEF RemoveSoftware, Written, TypeOK
  <2> QED
    BY <1>2, <2>2, <2>3 DEF RemoveSoftware, Acknowledge, TypeOK, Replies, SoftEntry
<1>3. ASSUME NEW type \in HardTypes, NEW addr \in Addrs, InsertHardware(type, addr) PROVE TypeOK'
  <2> DEFINE i == Least(FreeHardSlots)
  <2> DEFINE want == trig[i].match \cup Matches(type)
  <2>1. FreeHardSlots # {} => i \in HardSlots
    BY LeastIsLeast, Counted DEF FreeHardSlots
  <2>2. Bp(type, addr, 4) \in [type : HardTypes, addr : Addrs, kind : Kinds]
    BY DEF Bp, Kinds
  <2>3. live' \subseteq [type : HardTypes \cup {"software"}, addr : Addrs, kind : Kinds] /\ reply' \in Replies
    BY <1>3, <2>2 DEF InsertHardware, Acknowledge, TypeOK, Replies, Bp
  <2>4. hard' \in [HardSlots -> [type : HardTypes \cup {"unused"}, addr : Addrs, kind : Kinds]]
    BY <1>3, <2>1, <2>2 DEF InsertHardware, TypeOK
  <2>5. i \in Triggers => want \in SUBSET Accesses /\ want \cap Supports[i] \in SUBSET Accesses
    BY DEF TypeOK, Matches, HardTypes, Accesses
  <2>6. trig' \in [Triggers -> Trigger]
    <3>1. trig \in [Triggers -> Trigger]
      BY DEF TypeOK, Trigger
    <3>2. i \in Triggers => Armed(i, want, addr) \in Trigger
                          /\ [trig[i] EXCEPT !.match = want \cap Supports[i]] \in Trigger
      BY <2>5, <3>1 DEF Trigger, Armed
    <3>3. \/ trig' = trig
          \/ i \in Triggers /\ trig' = [trig EXCEPT ![i] = Armed(i, want, addr)]
          \/ i \in Triggers /\ trig' = [trig EXCEPT ![i].match = want \cap Supports[i]]
      BY <1>3 DEF InsertHardware
    <3> QED
      BY <3>1, <3>2, <3>3
  <2>7. tselect' \in Triggers
    BY <1>3 DEF InsertHardware, TypeOK, TselectAfter, Selected
  <2> QED
    BY <1>3, <2>3, <2>4, <2>6, <2>7 DEF InsertHardware, TypeOK, Trigger
<1>4. ASSUME NEW type \in HardTypes, NEW addr \in Addrs, RemoveHardware(type, addr) PROVE TypeOK'
  <2> DEFINE found == {i \in HardSlots : hard[i] = Bp(type, addr, 4)}
  <2>1. found # {} => Least(found) \in HardSlots
    BY LeastIsLeast, Counted
  <2>2. trig' \in [Triggers -> [match : SUBSET Accesses, addr : Addrs]]
    BY <1>4 DEF RemoveHardware, Released, TypeOK
  <2>3. hard' \in [HardSlots -> HardEntry]
    <3>1. hard \in [HardSlots -> HardEntry]
      BY DEF TypeOK, HardEntry
    <3>2. ASSUME NEW i \in HardSlots PROVE [hard[i] EXCEPT !.type = "unused"] \in HardEntry
      BY <3>1 DEF HardEntry
    <3>3. hard' = hard \/ (found # {} /\ hard' = [hard EXCEPT ![Least(found)].type = "unused"])
      BY <1>4 DEF RemoveHardware
    <3> QED
      BY <2>1, <3>1, <3>2, <3>3
  <2>4. tselect' \in Triggers
    BY <1>4 DEF RemoveHardware, TypeOK, TselectAfter, Selected
  <2> QED
    BY <1>4, <2>2, <2>3, <2>4 DEF RemoveHardware, Acknowledge, TypeOK, Replies, HardEntry
<1>5. ASSUME ClearTriggers \/ UNCHANGED <<trig, tselect>>
      PROVE  trig' \in [Triggers -> [match : SUBSET Accesses, addr : Addrs]] /\ tselect' \in Triggers
  <2>1. LastSelected \in Triggers
    BY DEF LastSelected, Triggers
  <2>2. trig \in [Triggers -> Trigger] /\ tselect \in Triggers
    BY DEF TypeOK, Trigger
  <2>3. \A t \in Triggers : [trig[t] EXCEPT !.match = {}] \in Trigger
    BY <2>2 DEF Trigger
  <2>4. trig' \in [Triggers -> Trigger] /\ tselect' \in Triggers
    BY <1>5, <2>1, <2>2, <2>3 DEF ClearTriggers
  <2> QED
    BY <2>4 DEF Trigger
<1>6. CASE MonitorHalt
  BY <1>5, <1>6 DEF MonitorHalt, TypeOK, Replies
<1>7. CASE Connect
  BY <1>5, <1>7, ZenonT(60) DEF Connect, TypeOK, Replies
<1>8. CASE UNCHANGED vars
  BY <1>8 DEF vars, TypeOK
<1> QED
  BY <1>1, <1>2, <1>3, <1>4, <1>6, <1>7, <1>8 DEF Next, Software, Hardware

\* At power-on every variable has its type.
LEMMA TypeInitially == Init => TypeOK
BY SizeAssumption, TriggerAssumption
   DEF Init, TypeOK, Replies, Pieces, FreeSoft, FreeHard, Off, Kinds, Addrs, Triggers

\* Every variable keeps its type.
THEOREM TypeCorrect == Spec => []TypeOK
<1>1. TypeOK /\ [Next]_vars => TypeOK'
  BY TypeStep
<1> QED
  BY <1>1, TypeInitially, PTL DEF Spec
-----------------------------------------------------------------------------
(* The software breakpoints.                                                *)

\* A slot in use is a software breakpoint's.
LEMMA UsedIsSoftware ==
    ASSUME TypeOK
    PROVE  \A i \in UsedSoft : i \in SoftSlots /\ soft[i].type = "software"
BY DEF TypeOK, UsedSoft

\* What is new on the host's side of an insertion overlaps no slot in use.
LEMMA ClearOfTable ==
    ASSUME TypeOK, SoftTable, NEW addr, NEW kind, Clear("software", addr, kind)
    PROVE  \A i \in UsedSoft : SoftCells(i) \cap Cells(addr, kind) = {}
<1> SUFFICES ASSUME NEW i \in UsedSoft PROVE SoftCells(i) \cap Cells(addr, kind) = {}
  OBVIOUS
<1>1. SoftBp(i) \in live /\ soft[i].type = "software"
  BY UsedIsSoftware DEF SoftTable
<1>2. SoftBp(i).type = "software" /\ SoftBp(i).addr = soft[i].addr /\ SoftBp(i).kind = soft[i].kind
  BY <1>1 DEF SoftBp, Bp
<1> QED
  BY <1>1, <1>2 DEF Clear, SoftCells

\* An insertion that finds a free slot takes that slot and no other.
LEMMA InsertTakesSlot ==
    ASSUME SoftInv, NEW p \in Places, InsertSoftware(p[1], p[2])
    PROVE  \/ UNCHANGED <<soft, mem, live>>
           \/ \E i \in SoftSlots :
                 /\ i \notin UsedSoft /\ UsedSoft' = UsedSoft \cup {i}
                 /\ soft'[i] = [type |-> "software", addr |-> p[1], kind |-> p[2], inst |-> Kept(p[1], p[2])]
                 /\ \A j \in UsedSoft : soft'[j] = soft[j]
                 /\ live' = live \cup {Bp("software", p[1], p[2])}
                 /\ mem' = Written(Cells(p[1], p[2]), [a \in Addrs |-> EbreakAt(p[1], p[2], a)])
                 /\ \A j \in UsedSoft : SoftCells(j) \cap Cells(p[1], p[2]) = {}
<1> DEFINE free == {i \in SoftSlots : soft[i].type = "unused"}
           i    == Least(free)
           new  == [type |-> "software", addr |-> p[1], kind |-> p[2], inst |-> Kept(p[1], p[2])]
<1>1. CASE free = {}
  BY <1>1 DEF InsertSoftware, Acknowledge
<1>2. CASE free # {}
  <2>1. i \in SoftSlots /\ soft[i].type = "unused"
    BY <1>2, LeastIsLeast, Counted
  <2>2. /\ soft' = [soft EXCEPT ![i] = new]
        /\ live' = live \cup {Bp("software", p[1], p[2])}
        /\ mem' = Written(Cells(p[1], p[2]), [a \in Addrs |-> EbreakAt(p[1], p[2], a)])
    BY <1>2 DEF InsertSoftware, Acknowledge
  <2>3. new.type # "unused" /\ DOMAIN soft = SoftSlots
    BY DEF SoftInv, TypeOK
  <2>4. /\ i \notin UsedSoft /\ UsedSoft' = UsedSoft \cup {i} /\ soft'[i] = new
        /\ \A j \in UsedSoft : soft'[j] = soft[j]
    BY <2>1, <2>2, <2>3, Zenon DEF UsedSoft
  <2>5. \A j \in UsedSoft : SoftCells(j) \cap Cells(p[1], p[2]) = {}
    BY ClearOfTable DEF SoftInv, InsertSoftware
  <2> QED
    BY <2>1, <2>2, <2>4, <2>5
<1> QED
  BY <1>1, <1>2

\* A removal finds the breakpoint of the host and frees its slot, and no other.
LEMMA RemoveFreesSlot ==
    ASSUME SoftInv, NEW p \in Places, RemoveSoftware(p[1], p[2])
    PROVE  \E i \in UsedSoft :
              /\ SoftBp(i) = Bp("software", p[1], p[2])
              /\ UsedSoft' = UsedSoft \ {i}
              /\ \A j \in UsedSoft' : soft'[j] = soft[j]
              /\ live' = live \ {Bp("software", p[1], p[2])}
              /\ mem' = Written(SoftCells(i), soft[i].inst)
<1> DEFINE b == Bp("software", p[1], p[2])
           found == FoundSoft(p[1], p[2])
           i == Least(found)
<1>1. PICK k \in UsedSoft : SoftBp(k) = b
  BY DEF RemoveSoftware, SoftInv, SoftTable, Bp
<1>2. k \in found
  BY <1>1, UsedIsSoftware DEF SoftInv, FoundSoft, SoftBp, Bp
<1>3. i \in found
  BY <1>2, LeastIsLeast, Counted DEF FoundSoft
<1>4. i \in UsedSoft /\ SoftBp(i) = b /\ SoftCells(i) = Cells(p[1], p[2])
  BY <1>3 DEF FoundSoft, UsedSoft, SoftBp, SoftCells, Bp
<1>5. /\ mem' = Written(Cells(p[1], p[2]), soft[i].inst)
      /\ soft' = [soft EXCEPT ![i].type = "unused"]
      /\ live' = live \ {b}
  BY <1>2 DEF RemoveSoftware, Acknowledge
<1>6. i \in SoftSlots /\ DOMAIN soft = SoftSlots /\ soft'[i].type = "unused"
  BY <1>4, <1>5 DEF SoftInv, TypeOK, UsedSoft
<1>7. \A j \in SoftSlots \ {i} : soft'[j] = soft[j]
  BY <1>5, <1>6
<1>8. UsedSoft' = UsedSoft \ {i} /\ \A j \in UsedSoft' : soft'[j] = soft[j]
  BY <1>6, <1>7 DEF UsedSoft
<1> QED
  BY <1>4, <1>5, <1>8
\* Every step keeps the table of software breakpoints and the host in step.
LEMMA SoftStep == ASSUME SoftInv, [Next]_vars PROVE SoftInv'
<1>0. TypeOK'
  BY TypeStep DEF SoftInv
<1>1. ASSUME NEW p \in Places, InsertSoftware(p[1], p[2]) PROVE SoftTable'
  <2>1. CASE UNCHANGED <<soft, mem, live>>
    BY <2>1 DEF SoftInv, SoftTable, UsedSoft, SoftBp, SoftCells
  <2>2. CASE ~UNCHANGED <<soft, mem, live>>
    <3> DEFINE b == Bp("software", p[1], p[2])
    <3>1. PICK i \in SoftSlots :
             /\ i \notin UsedSoft /\ UsedSoft' = UsedSoft \cup {i}
             /\ soft'[i] = [type |-> "software", addr |-> p[1], kind |-> p[2], inst |-> Kept(p[1], p[2])]
             /\ \A j \in UsedSoft : soft'[j] = soft[j]
             /\ live' = live \cup {b}
             /\ \A j \in UsedSoft : SoftCells(j) \cap Cells(p[1], p[2]) = {}
      BY <1>1, <2>2, InsertTakesSlot
    <3>2. SoftBp(i)' = b /\ SoftCells(i)' = Cells(p[1], p[2])
      BY <3>1 DEF SoftBp, SoftCells
    <3>3. \A j \in UsedSoft : SoftBp(j)' = SoftBp(j) /\ SoftCells(j)' = SoftCells(j)
      BY <3>1 DEF SoftBp, SoftCells
    <3>4. \A j \in UsedSoft' : SoftBp(j)' \in live'
      BY <3>1, <3>2, <3>3 DEF SoftInv, SoftTable
    <3>5. \A c \in live' : c.type = "software" => \E j \in UsedSoft' : SoftBp(j)' = c
      BY <3>1, <3>2, <3>3 DEF SoftInv, SoftTable
    <3>6. \A j, k \in UsedSoft' : SoftCells(j)' \cap SoftCells(k)' # {} => j = k
      BY <3>1, <3>2, <3>3 DEF SoftInv, SoftTable
    <3> QED
      BY <3>4, <3>5, <3>6 DEF SoftTable
  <2> QED
    BY <2>1, <2>2
<1>2. ASSUME NEW p \in Places, RemoveSoftware(p[1], p[2]) PROVE SoftTable'
  <2> DEFINE b == Bp("software", p[1], p[2])
  <2>1. PICK i \in UsedSoft :
           /\ SoftBp(i) = b
           /\ UsedSoft' = UsedSoft \ {i}
           /\ \A j \in UsedSoft' : soft'[j] = soft[j]
           /\ live' = live \ {b}
    BY <1>2, RemoveFreesSlot
  <2>2. \A j \in UsedSoft' : SoftBp(j)' = SoftBp(j) /\ SoftCells(j)' = SoftCells(j)
    BY <2>1 DEF SoftBp, SoftCells
  <2>3. ASSUME NEW j \in UsedSoft' PROVE SoftBp(j) # b
    <3>1. SUFFICES ASSUME SoftBp(j) = b PROVE SoftCells(i) \cap SoftCells(j) # {}
      BY <2>1 DEF SoftInv, SoftTable
    <3>2. soft[j].addr = soft[i].addr /\ soft[j].kind = soft[i].kind
      BY <2>1, <3>1 DEF SoftBp, Bp
    <3> QED
      BY <3>2 DEF SoftCells, Cells
  <2>4. \A j \in UsedSoft' : SoftBp(j)' \in live'
    BY <2>1, <2>2, <2>3 DEF SoftInv, SoftTable
  <2>5. \A c \in live' : c.type = "software" => \E j \in UsedSoft' : SoftBp(j)' = c
    BY <2>1, <2>2 DEF SoftInv, SoftTable
  <2>6. \A j, k \in UsedSoft' : SoftCells(j)' \cap SoftCells(k)' # {} => j = k
    BY <2>1, <2>2 DEF SoftInv, SoftTable
  <2> QED
    BY <2>4, <2>5, <2>6 DEF SoftTable
<1>3. ASSUME NEW type \in HardTypes, NEW addr \in Addrs,
             InsertHardware(type, addr) \/ RemoveHardware(type, addr)
      PROVE  SoftTable'
  <2>1. \A c : c.type = "software" => c # Bp(type, addr, 4)
    BY DEF Bp, HardTypes
  <2>2. UNCHANGED soft /\ (live' = live \/ live' = live \cup {Bp(type, addr, 4)} \/ live' = live \ {Bp(type, addr, 4)})
    BY <1>3 DEF InsertHardware, RemoveHardware, Acknowledge
  <2>3. \A i \in UsedSoft : SoftBp(i).type = "software"
    BY UsedIsSoftware DEF SoftInv, SoftBp, Bp
  <2>4. UsedSoft' = UsedSoft /\ \A i \in UsedSoft : SoftBp(i)' = SoftBp(i) /\ SoftCells(i)' = SoftCells(i)
    BY <2>2 DEF UsedSoft, SoftBp, SoftCells
  <2>5. \A c : c.type = "software" => (c \in live' <=> c \in live)
    BY <2>1, <2>2
  <2> QED
    BY <2>3, <2>4, <2>5 DEF SoftInv, SoftTable
<1>4. ASSUME MonitorHalt \/ UNCHANGED vars PROVE SoftTable'
  <2>1. UNCHANGED <<live, soft>>
    BY <1>4 DEF MonitorHalt, vars
  <2>2. UsedSoft' = UsedSoft /\ \A i : SoftBp(i)' = SoftBp(i) /\ SoftCells(i)' = SoftCells(i)
    BY <2>1 DEF UsedSoft, SoftBp, SoftCells
  <2> QED
    BY <2>1, <2>2 DEF SoftInv, SoftTable
<1>5. ASSUME Connect PROVE SoftTable'
  <2>1. UsedSoft' = {} /\ live' = {}
    BY <1>5 DEF Connect, UsedSoft
  <2> QED
    BY <2>1 DEF SoftTable
<1> QED
  BY <1>0, <1>1, <1>2, <1>3, <1>4, <1>5 DEF Next, Software, Hardware, SoftInv

\* Nothing is in the table at power-on.
LEMMA SoftInitially == Init => SoftInv
<1> SUFFICES ASSUME Init PROVE SoftInv
  OBVIOUS
<1>1. UsedSoft = {} /\ live = {}
  BY DEF Init, UsedSoft, FreeSoft
<1> QED
  BY <1>1, TypeInitially DEF SoftInv, SoftTable

\* One slot for each software breakpoint the host has, and no other slot taken.
THEOREM SoftTableTracksHost == Spec => []SoftTracksHost
<1>1. SoftInv /\ [Next]_vars => SoftInv'
  BY SoftStep
<1>2. ASSUME SoftInv PROVE SoftTracksHost
  <2>1. ASSUME NEW b \in live, b.type = "software" PROVE \E i \in UsedSoft : SoftBp(i) = b
    BY <1>2, <2>1 DEF SoftInv, SoftTable
  <2>2. ASSUME NEW i \in UsedSoft PROVE SoftBp(i) \in live /\ SoftBp(i).type = "software"
    BY <1>2, UsedIsSoftware DEF SoftInv, SoftTable, SoftBp, Bp
  <2>3. ASSUME NEW i \in UsedSoft, NEW j \in UsedSoft, soft[i].addr = soft[j].addr PROVE i = j
    <3>1. soft[i].addr \in SoftCells(i) /\ soft[i].addr \in SoftCells(j)
      BY <2>3 DEF SoftCells, Cells
    <3> QED
      BY <1>2, <3>1 DEF SoftInv, SoftTable
  <2>4. {SoftBp(i) : i \in UsedSoft} = {b \in live : b.type = "software"}
    BY <2>1, <2>2
  <2> QED
    BY <2>3, <2>4 DEF SoftTracksHost, SoftBp
<1> QED
  BY <1>1, <1>2, SoftInitially, PTL DEF Spec
\* A host that takes its breakpoints out first: no step spoils the program.
LEMMA MemStep == ASSUME ~KeepsInserted, MemInv, [Next]_vars PROVE MemInv'
<1>0. SoftInv' /\ SoftInv
  BY SoftStep DEF MemInv
<1>1. ASSUME NEW p \in Places, InsertSoftware(p[1], p[2]) PROVE KeepsProgram' /\ MemAgrees'
  <2>1. CASE UNCHANGED <<soft, mem, live>>
    <3>1. UsedSoft' = UsedSoft /\ \A i : SoftCells(i)' = SoftCells(i)
      BY <2>1 DEF UsedSoft, SoftCells
    <3> QED
      BY <2>1, <3>1 DEF MemInv, KeepsProgram, MemAgrees
  <2>2. CASE ~UNCHANGED <<soft, mem, live>>
    <3> DEFINE cells == Cells(p[1], p[2])
    <3>1. PICK i \in SoftSlots :
             /\ i \notin UsedSoft /\ UsedSoft' = UsedSoft \cup {i}
             /\ soft'[i] = [type |-> "software", addr |-> p[1], kind |-> p[2], inst |-> Kept(p[1], p[2])]
             /\ \A j \in UsedSoft : soft'[j] = soft[j]
             /\ mem' = Written(cells, [a \in Addrs |-> EbreakAt(p[1], p[2], a)])
             /\ \A j \in UsedSoft : SoftCells(j) \cap cells = {}
      BY <1>0, <1>1, <2>2, InsertTakesSlot
    <3>2. SoftCells(i)' = cells /\ cells \subseteq Addrs /\ Reached(cells) \subseteq cells
      BY <3>1, PlacesAreInside, ReachedIsInside DEF SoftCells
    <3>3. \A j \in UsedSoft : SoftCells(j)' = SoftCells(j)
      BY <3>1 DEF SoftCells
    <3>4. \A a \in cells : mem[a] = "program"
      <4>1. \A a \in cells, j \in UsedSoft : a \notin Reached(SoftCells(j))
        BY <3>1, ReachedIsInside
      <4> QED
        BY <3>2, <4>1 DEF MemInv, MemAgrees
    <3>5. \A a \in cells : soft'[i].inst[a] = "program"
      BY <3>1, <3>2, <3>4 DEF Kept
    <3>6. KeepsProgram'
      BY <3>1, <3>2, <3>3, <3>5 DEF MemInv, KeepsProgram
    <3>7. \A a \in Addrs : mem'[a] = IF a \in Reached(cells) THEN EbreakAt(p[1], p[2], a) ELSE mem[a]
      BY <3>1 DEF Written
    <3>8. soft'[i].addr = p[1] /\ soft'[i].kind = p[2]
      BY <3>1
    <3>9. MemAgrees'
      <4>1. ASSUME NEW a \in Addrs, NEW j \in UsedSoft', a \in Reached(SoftCells(j)')
            PROVE  mem'[a] = EbreakAt(soft'[j].addr, soft'[j].kind, a)
        <5>1. CASE j = i
          BY <3>2, <3>7, <3>8, <4>1, <5>1
        <5>2. CASE j # i
          <6>1. j \in UsedSoft /\ a \in Reached(SoftCells(j)) /\ soft'[j] = soft[j]
            BY <3>1, <3>3, <4>1, <5>2
          <6>2. a \notin Reached(cells)
            BY <3>1, <6>1, ReachedIsInside
          <6> QED
            BY <3>7, <6>1, <6>2 DEF MemInv, MemAgrees
        <5> QED
          BY <5>1, <5>2
      <4>2. ASSUME NEW a \in Addrs, \A j \in UsedSoft' : a \notin Reached(SoftCells(j)')
            PROVE  mem'[a] = "program"
        <5>1. a \notin Reached(cells) /\ \A j \in UsedSoft : a \notin Reached(SoftCells(j))
          BY <3>1, <3>2, <3>3, <4>2
        <5> QED
          BY <3>7, <5>1 DEF MemInv, MemAgrees
      <4> QED
        BY <4>1, <4>2 DEF MemAgrees
    <3> QED
      BY <3>6, <3>9
  <2> QED
    BY <2>1, <2>2
<1>2. ASSUME NEW p \in Places, RemoveSoftware(p[1], p[2]) PROVE KeepsProgram' /\ MemAgrees'
  <2>1. PICK i \in UsedSoft :
           /\ UsedSoft' = UsedSoft \ {i}
           /\ \A j \in UsedSoft' : soft'[j] = soft[j]
           /\ mem' = Written(SoftCells(i), soft[i].inst)
    BY <1>0, <1>2, RemoveFreesSlot
  <2>2. \A j \in UsedSoft' : SoftCells(j)' = SoftCells(j)
    BY <2>1 DEF SoftCells
  <2>3. KeepsProgram'
    BY <2>1, <2>2 DEF MemInv, KeepsProgram
  <2>4. \A a \in Addrs : mem'[a] = IF a \in Reached(SoftCells(i)) THEN "program" ELSE mem[a]
    BY <2>1, ReachedIsInside DEF Written, MemInv, KeepsProgram
  <2>5. \A j \in UsedSoft' : Reached(SoftCells(j)) \cap Reached(SoftCells(i)) = {}
    <3>1. \A j \in UsedSoft' : SoftCells(j) \cap SoftCells(i) = {}
      BY <2>1, <1>0 DEF SoftInv, SoftTable
    <3> QED
      BY <3>1, ReachedIsInside
  <2>6. MemAgrees'
    BY <2>1, <2>2, <2>4, <2>5 DEF MemInv, MemAgrees
  <2> QED
    BY <2>3, <2>6
<1>3. ASSUME UNCHANGED <<mem, soft>> PROVE KeepsProgram' /\ MemAgrees'
  <2>1. UsedSoft' = UsedSoft /\ \A i : SoftCells(i)' = SoftCells(i)
    BY <1>3 DEF UsedSoft, SoftCells
  <2> QED
    BY <1>3, <2>1 DEF MemInv, KeepsProgram, MemAgrees
<1>4. ASSUME Connect PROVE KeepsProgram' /\ MemAgrees'
  <2>1. UsedSoft = {}
    BY <1>0, <1>4 DEF Connect, NothingPlanted, SoftInv, SoftTable
  <2>2. UsedSoft' = {} /\ mem' = mem
    BY <1>4 DEF Connect, UsedSoft
  <2> QED
    BY <2>1, <2>2 DEF MemInv, KeepsProgram, MemAgrees
<1>5. CASE UNCHANGED vars
  BY <1>0, <1>3, <1>5 DEF vars, MemInv
<1>6. CASE MonitorHalt
  BY <1>0, <1>3, <1>6 DEF MonitorHalt, MemInv
<1>7. CASE Hardware
  BY <1>0, <1>3, <1>7 DEF Hardware, InsertHardware, RemoveHardware, MemInv
<1> QED
  BY <1>0, <1>1, <1>2, <1>4, <1>5, <1>6, <1>7 DEF Next, Software, MemInv

\* At power-on the memory is the program's.
LEMMA MemInitially == Init => MemInv
<1> SUFFICES ASSUME Init PROVE MemInv
  OBVIOUS
<1>1. UsedSoft = {} /\ \A a \in Addrs : mem[a] = "program"
  BY DEF Init, UsedSoft, FreeSoft
<1> QED
  BY <1>1, SoftInitially DEF MemInv, KeepsProgram, MemAgrees

\* The target's memory is the program's but for the ebreaks of the table, each
\* written up to the first halfword that is no RAM, whatever the RAM is, as
\* long as the host takes its breakpoints out before it sends anything else:
\* breakpoints taken out in any order put the program back.
THEOREM MemoryIsTheProgram == ASSUME ~KeepsInserted PROVE Spec => []SoftAgrees
<1>1. MemInv /\ [Next]_vars => MemInv'
  BY MemStep
<1>2. ASSUME MemInv PROVE SoftAgrees
  <2>1. ASSUME NEW i \in UsedSoft, NEW a
        PROVE  a \in Reached(SoftCells(i)) <=> a \in SoftCells(i) /\ soft[i].addr .. a \subseteq Ram
    <3>1. soft[i].addr \in Nat /\ soft[i].kind \in Kinds
      BY <1>2, SizeAssumption DEF MemInv, SoftInv, TypeOK, UsedSoft, Addrs
    <3> QED
      BY <3>1, ReachedFromFirst DEF SoftCells
  <2> QED
    BY <1>2, <2>1 DEF MemInv, MemAgrees, SoftAgrees, SoftCells
<1> QED
  BY <1>1, <1>2, MemInitially, PTL DEF Spec
-----------------------------------------------------------------------------
(* Hardware breakpoints and watchpoints.                                    *)

\* What is asked of a trigger, by its type: something, and never the same of
\* two types.
LEMMA MatchesApart ==
    ASSUME NEW type \in HardTypes
    PROVE  /\ Matches(type) # {} /\ Matches(type) \subseteq Accesses
           /\ \A other \in HardTypes : Matches(other) = Matches(type) => other = type
BY DEF HardTypes, Matches, Accesses

\* Triggers that are alike take all of what a type asks, or nothing of it.
LEMMA AllOrNothing ==
    ASSUME TriggersAlike, NEW type \in HardTypes, NEW t \in Triggers
    PROVE  \/ Matches(type) \cap Supports[t] = Matches(type)
           \/ Matches(type) \cap Supports[t] = {} /\ ~(Matches(type) \subseteq Supports[t])
BY MatchesApart DEF TriggersAlike, HardTypes, Matches, Accesses

\* A free slot's trigger is off, and what the host has was asked of it as a type.
LEMMA SlotFacts ==
    ASSUME HardInv
    PROVE  /\ \A t \in Triggers \cap HardSlots : hard[t].type = "unused" => trig[t].match = {}
           /\ \A t \in Triggers : t \notin HardSlots => trig[t].match = {}
           /\ \A b \in live : b.type # "software" => b.type \in HardTypes
BY DEF HardInv, ArmedTriggers, Arm, TypeOK

\* The first free slot is taken; its trigger is armed if the request is
\* acknowledged, and is off if not.
LEMMA InsertArms ==
    ASSUME TriggersAlike, HardInv, NEW type \in HardTypes, NEW addr \in Addrs,
           InsertHardware(type, addr), FreeHardSlots # {}
    PROVE  \E i \in HardSlots :
              /\ hard[i].type = "unused" /\ hard' = [hard EXCEPT ![i] = Bp(type, addr, 4)]
              /\ \/ /\ i \in Triggers /\ Matches(type) \subseteq Supports[i]
                    /\ trig' = [trig EXCEPT ![i] = Full(Bp(type, addr, 4))]
                    /\ live' = live \cup {Bp(type, addr, 4)} /\ Bp(type, addr, 4) \notin live
                 \/ /\ i \in Triggers => ~(Matches(type) \subseteq Supports[i])
                    /\ trig' = trig \/ (i \in Triggers /\ trig' = [trig EXCEPT ![i].match = {}])
                    /\ live' = live
<1> DEFINE i    == Least(FreeHardSlots)
           b    == Bp(type, addr, 4)
           want == trig[i].match \cup Matches(type)
           got  == want \cap Supports[i]
           ok   == FreeHardSlots # {} /\ i \in Triggers /\ got = want
<1>1. i \in HardSlots /\ hard[i].type = "unused"
  BY LeastIsLeast, Counted DEF FreeHardSlots
<1>2. hard' = [hard EXCEPT ![i] = b]
  BY DEF InsertHardware
<1>3. live' = (IF ok THEN live \cup {b} ELSE live) /\ b \notin live
  BY DEF InsertHardware, Acknowledge, Clear, HardTypes
<1>4. trig' = IF i \notin Triggers THEN trig
              ELSE IF ok THEN [trig EXCEPT ![i] = Armed(i, want, addr)]
              ELSE [trig EXCEPT ![i].match = got]
  BY DEF InsertHardware
<1>5. CASE i \notin Triggers
  BY <1>1, <1>2, <1>3, <1>4, <1>5
<1>6. CASE i \in Triggers
  <2>1. want = Matches(type)
    BY <1>1, <1>6, SlotFacts
  <2>2. CASE got = want
    <3>1. Matches(type) \subseteq Supports[i]
      BY <2>1, <2>2
    <3>2. Armed(i, want, addr) = Full(b)
      BY <2>1 DEF Armed, Full, Bp
    <3>3. trig' = [trig EXCEPT ![i] = Full(b)] /\ live' = live \cup {b}
      BY <1>3, <1>4, <1>6, <2>2, <3>2
    <3> QED
      BY <1>1, <1>2, <1>3, <1>6, <3>1, <3>3
  <2>3. CASE got # want
    <3>1. got = {} /\ ~(Matches(type) \subseteq Supports[i])
      BY <1>6, <2>1, <2>3, AllOrNothing
    <3>2. trig' = [trig EXCEPT ![i].match = {}] /\ live' = live
      BY <1>3, <1>4, <1>6, <2>3, <3>1
    <3> QED
      BY <1>1, <1>2, <1>6, <3>1, <3>2
  <2> QED
    BY <2>2, <2>3
<1> QED
  BY <1>5, <1>6

\* The slot found first is the armed one: its trigger is put out and the host
\* told so.
LEMMA RemoveDisarms ==
    ASSUME TriggersAlike, HardInv, NEW type \in HardTypes, NEW addr \in Addrs,
           RemoveHardware(type, addr)
    PROVE  \E i \in Triggers \cap HardSlots :
              /\ Arm(i) /\ hard[i] = Bp(type, addr, 4)
              /\ hard' = [hard EXCEPT ![i].type = "unused"]
              /\ trig' = [trig EXCEPT ![i].match = {}]
              /\ live' = live \ {Bp(type, addr, 4)}
              /\ reply' = "OK"
<1> DEFINE b == Bp(type, addr, 4)
           found == {k \in HardSlots : hard[k] = b}
           i == Least(found)
<1>1. b \in live /\ b.type = type /\ type # "software" /\ type # "unused"
  BY DEF RemoveHardware, Bp, HardTypes
<1>2. PICK t \in Triggers : t \in HardSlots /\ hard[t] = b /\ trig[t] = Full(b)
  BY <1>1 DEF HardInv, Planted
<1>3. i \in found /\ i =< t
  BY <1>2, LeastIsLeast, Counted
<1>4. i \in Triggers /\ i \in HardSlots /\ hard[i] = b
  BY <1>2, <1>3, Counted, SizeAssumption, TriggerAssumption DEF Triggers, HardSlots
<1>5. Arm(i)
  <2>1. Matches(type) \subseteq Supports[t]
    BY <1>1, <1>2, MatchesApart DEF HardInv, ArmedTriggers, Arm, Full
  <2>2. Supports[i] = Supports[t]
    BY <1>4 DEF TriggersAlike
  <2> QED
    BY <1>1, <1>4, <2>1, <2>2 DEF HardInv, TurnedDown
<1>6. found # {} /\ i \in Triggers
  BY <1>2, <1>4
<1>7. /\ trig' = [trig EXCEPT ![i].match = {}]
      /\ hard' = [hard EXCEPT ![i].type = "unused"]
      /\ live' = live \ {b} /\ reply' = "OK"
  BY <1>6 DEF RemoveHardware, Released, Acknowledge
<1> QED
  BY <1>4, <1>5, <1>7
\* Every step keeps slots, triggers and the host's breakpoints in step.
LEMMA HardStep == ASSUME TriggersAlike, ~KeepsInserted, HardInv, [Next]_vars PROVE HardInv'
<1>0. TypeOK /\ TypeOK' /\ DOMAIN hard = HardSlots /\ DOMAIN trig = Triggers
  BY TypeStep DEF HardInv, TypeOK
<1> DEFINE Tables == ArmedTriggers /\ TurnedDown /\ Planted
<1>1. ASSUME UNCHANGED <<hard, trig, live>> PROVE Tables'
  BY <1>1 DEF HardInv, ArmedTriggers, TurnedDown, Planted, Arm, Full
<1>2. ASSUME NEW type \in HardTypes, NEW addr \in Addrs, InsertHardware(type, addr)
      PROVE  Tables'
  <2> DEFINE b == Bp(type, addr, 4)
  <2>1. CASE FreeHardSlots = {}
    BY <1>1, <1>2, <2>1 DEF InsertHardware, Acknowledge
  <2>2. CASE FreeHardSlots # {}
    <3>1. PICK i \in HardSlots :
              /\ hard[i].type = "unused" /\ hard' = [hard EXCEPT ![i] = b]
              /\ \/ /\ i \in Triggers /\ Matches(type) \subseteq Supports[i]
                    /\ trig' = [trig EXCEPT ![i] = Full(b)]
                    /\ live' = live \cup {b} /\ b \notin live
                 \/ /\ i \in Triggers => ~(Matches(type) \subseteq Supports[i])
                    /\ trig' = trig \/ (i \in Triggers /\ trig' = [trig EXCEPT ![i].match = {}])
                    /\ live' = live
      BY <1>2, <2>2, InsertArms
    <3>2. /\ hard'[i] = b /\ b.type = type /\ b.kind = 4 /\ type # "unused"
          /\ \A t \in HardSlots : t # i => hard'[t] = hard[t]
          /\ \A t \in Triggers : t # i => trig'[t] = trig[t]
      BY <1>0, <3>1 DEF Bp, HardTypes
    <3>3. ASSUME NEW c \in live, c.type # "software", NEW t \in Triggers, t \in HardSlots, hard[t] = c
          PROVE  t # i
      BY <3>1, <3>3, SlotFacts DEF HardTypes
    <3>4. \A t \in Triggers : Arm(t)' /\ t # i => Arm(t)
      BY <3>2 DEF Arm
    <3>5. CASE i \in Triggers /\ Matches(type) \subseteq Supports[i] /\ live' = live \cup {b} /\ b \notin live
               /\ trig' = [trig EXCEPT ![i] = Full(b)]
      <4>1. trig'[i] = Full(b)
        BY <1>0, <3>5
      <4>2. ArmedTriggers'
        BY <3>1, <3>2, <3>4, <3>5, <4>1 DEF HardInv, ArmedTriggers, Arm, Full
      <4>3. Arm(i)'
        BY <3>2, <4>1, MatchesApart DEF Arm, Full
      <4>4. TurnedDown'
        BY <3>2, <4>3 DEF HardInv, TurnedDown, Arm
      <4>5. Planted'
        BY <3>1, <3>2, <3>3, <3>5, <4>1 DEF HardInv, Planted, Full
      <4> QED
        BY <4>2, <4>4, <4>5
    <3>6. CASE /\ i \in Triggers => ~(Matches(type) \subseteq Supports[i])
               /\ live' = live
               /\ trig' = trig \/ (i \in Triggers /\ trig' = [trig EXCEPT ![i].match = {}])
      <4>0. i \in Triggers => trig[i].match = {}
        BY <3>1, SlotFacts
      <4>1. i \in Triggers => ~Arm(i)'
        <5>1. CASE trig' = trig
          BY <4>0, <5>1 DEF Arm
        <5>2. CASE i \in Triggers /\ trig' = [trig EXCEPT ![i].match = {}]
          <6>1. trig'[i].match = {}
            BY <1>0, <5>2
          <6> QED
            BY <6>1 DEF Arm
        <5> QED
          BY <3>6, <5>1, <5>2
      <4>2. ArmedTriggers'
        <5>1. \A t \in Triggers : Arm(t)' => t # i /\ Arm(t)
          BY <3>4, <4>1
        <5>2. \A t \in Triggers : Arm(t)' => hard'[t] = hard[t] /\ trig'[t] = trig[t]
          BY <3>2, <5>1 DEF HardInv, ArmedTriggers
        <5>3. live' = live
          BY <3>6
        <5> QED
          BY <5>1, <5>2, <5>3 DEF HardInv, ArmedTriggers, Full
      <4>3. TurnedDown'
        BY <3>2, <3>6 DEF HardInv, TurnedDown, Arm
      <4>4. Planted'
        BY <3>1, <3>2, <3>3, <3>6 DEF HardInv, Planted, Full
      <4> QED
        BY <4>2, <4>3, <4>4
    <3> QED
      BY <3>1, <3>5, <3>6
  <2> QED
    BY <2>1, <2>2
<1>3. ASSUME NEW type \in HardTypes, NEW addr \in Addrs, RemoveHardware(type, addr)
      PROVE  Tables'
  <2> DEFINE b == Bp(type, addr, 4)
  <2>1. PICK i \in Triggers \cap HardSlots :
           /\ Arm(i) /\ hard[i] = b
           /\ hard' = [hard EXCEPT ![i].type = "unused"]
           /\ trig' = [trig EXCEPT ![i].match = {}]
           /\ live' = live \ {b}
    BY <1>3, RemoveDisarms
  <2>2. /\ hard'[i].type = "unused" /\ trig'[i].match = {}
        /\ \A t \in HardSlots : t # i => hard'[t] = hard[t]
        /\ \A t \in Triggers : t # i => trig'[t] = trig[t]
    BY <1>0, <2>1
  <2>3. \A t \in Triggers : Arm(t)' => t # i /\ Arm(t)
    BY <2>2 DEF Arm
  <2>4. \A t \in Triggers : Arm(t) /\ t # i => hard[t] # b
    BY <2>1 DEF HardInv, ArmedTriggers
  <2>5. ArmedTriggers'
    BY <2>1, <2>2, <2>3, <2>4 DEF HardInv, ArmedTriggers, Arm, Full
  <2>6. TurnedDown'
    BY <2>2 DEF HardInv, TurnedDown, Arm
  <2>7. Planted'
    BY <2>1, <2>2 DEF HardInv, Planted, Full
  <2> QED
    BY <2>5, <2>6, <2>7
<1>4. ASSUME NothingPlanted, ClearTriggers \/ UNCHANGED <<trig, tselect>>
      PROVE  live = {} /\ \A t \in Triggers : ~Arm(t) /\ ~Arm(t)'
  <2>1. live = {} /\ \A t \in Triggers : ~Arm(t)
    BY <1>4 DEF NothingPlanted, HardInv, ArmedTriggers
  <2>2. ASSUME NEW t \in Triggers PROVE trig'[t].match = {}
    <3>1. trig[t].match = {}
      BY <2>1 DEF Arm
    <3>2. [trig[t] EXCEPT !.match = {}].match = {}
      <4>1. trig[t] \in [match : SUBSET Accesses, addr : Addrs]
        BY <1>0 DEF TypeOK
      <4> QED
        BY <4>1
    <3>3. trig'[t] = trig[t] \/ trig'[t] = [trig[t] EXCEPT !.match = {}]
      BY <1>4, Zenon DEF ClearTriggers
    <3> QED
      BY <3>1, <3>2, <3>3, Zenon
  <2> QED
    BY <2>1, <2>2 DEF Arm
<1>5. ASSUME MonitorHalt PROVE Tables'
  <2>1. live' = {} /\ hard' = hard /\ \A t \in Triggers : ~Arm(t) /\ ~Arm(t)'
    BY <1>4, <1>5 DEF MonitorHalt
  <2> QED
    BY <2>1 DEF HardInv, ArmedTriggers, TurnedDown, Planted
<1>6. ASSUME Connect PROVE Tables'
  <2>1. live' = {} /\ \A t \in Triggers : ~Arm(t)'
    BY <1>4, <1>6 DEF Connect
  <2>2. ASSUME NEW t \in HardSlots PROVE hard'[t].type = "unused"
    <3>1. hard'[t] = [hard[t] EXCEPT !.type = "unused"]
      BY <1>6, Zenon DEF Connect
    <3>2. hard[t] \in HardEntry
      BY <1>0 DEF TypeOK, HardEntry
    <3> QED
      BY <3>1, <3>2 DEF HardEntry
  <2> QED
    BY <2>1, <2>2 DEF ArmedTriggers, TurnedDown, Planted
<1>7. ASSUME Software PROVE Tables'
  <2>1. PICK p \in Places : InsertSoftware(p[1], p[2]) \/ RemoveSoftware(p[1], p[2])
    BY <1>7 DEF Software
  <2> DEFINE s == Bp("software", p[1], p[2])
  <2>2. UNCHANGED <<hard, trig>> /\ (live' = live \/ live' = live \cup {s} \/ live' = live \ {s})
    BY <2>1 DEF InsertSoftware, RemoveSoftware, Acknowledge
  <2>3. \A c : c.type # "software" => c # s
    BY DEF Bp
  <2>4. \A c : c.type # "software" => (c \in live' <=> c \in live)
    BY <2>2, <2>3
  <2>5. \A t \in Triggers \cap HardSlots : hard[t].type # "software"
    BY <1>0 DEF TypeOK, HardTypes
  <2> QED
    BY <2>2, <2>4, <2>5 DEF HardInv, ArmedTriggers, TurnedDown, Planted, Arm, Full
<1>8. CASE UNCHANGED vars
  BY <1>0, <1>1, <1>8 DEF vars, HardInv
<1> QED
  BY <1>0, <1>2, <1>3, <1>5, <1>6, <1>7, <1>8 DEF Next, Hardware, HardInv

\* At power-on no trigger is armed.
LEMMA HardInitially == Init => HardInv
<1> SUFFICES ASSUME Init PROVE HardInv
  OBVIOUS
<1>1. /\ live = {} /\ \A t \in Triggers : ~Arm(t)
      /\ \A t \in HardSlots : hard[t].type = "unused"
  BY DEF Init, Arm, Off, FreeHard
<1> QED
  BY <1>1, TypeInitially DEF HardInv, ArmedTriggers, TurnedDown, Planted

\* A trigger that can stop the program belongs to the slot of its number and
\* matches what that slot was asked for.  With triggers that take loads and not
\* stores it would not: a watchpoint that is turned down leaves half of its
\* accesses armed, at the address of the breakpoint before it.
THEOREM TriggersBelongToSlots ==
    ASSUME TriggersAlike, ~KeepsInserted
    PROVE  Spec => []TriggersHaveSlots
<1>1. HardInv /\ [Next]_vars => HardInv'
  BY HardStep
<1>2. HardInv => TriggersHaveSlots
  BY DEF HardInv, ArmedTriggers, Arm, Full, TriggersHaveSlots
<1> QED
  BY <1>1, <1>2, HardInitially, PTL DEF Spec

\* A hardware breakpoint or watchpoint the host was told is in place is.
THEOREM AcknowledgedArePlanted ==
    ASSUME TriggersAlike, ~KeepsInserted
    PROVE  Spec => []AcknowledgedIsPlanted
<1>1. HardInv /\ [Next]_vars => HardInv'
  BY HardStep
<1>2. HardInv => AcknowledgedIsPlanted
  BY DEF HardInv, Planted, Full, AcknowledgedIsPlanted
<1> QED
  BY <1>1, <1>2, HardInitially, PTL DEF Spec

\* Triggers that match everything, one for each slot at least.
TriggersSuffice == NHardware =< NTriggers /\ \A t \in Triggers : Supports[t] = Accesses

\* With every slot taken, slots and the host's hardware breakpoints are as many.
LEMMA FullTable ==
    ASSUME TriggersSuffice, HardInv, FreeHardSlots = {}
    PROVE  Cardinality({b \in live : b.type # "software"}) = NHardware
<1> DEFINE H == {b \in live : b.type # "software"}
<1>1. HardSlots \subseteq Triggers
  BY SizeAssumption, TriggerAssumption DEF TriggersSuffice, HardSlots, Triggers
<1>2. \A t \in HardSlots : hard[t].type \in HardTypes
  BY DEF HardInv, TypeOK, FreeHardSlots
<1>3. \A t \in HardSlots : Arm(t)
  BY <1>1, <1>2, MatchesApart DEF HardInv, TurnedDown, TriggersSuffice, HardTypes
<1>4. hard \in [HardSlots -> H]
  BY <1>1, <1>2, <1>3 DEF HardInv, TypeOK, ArmedTriggers, HardTypes
<1>5. \A t, u \in HardSlots : hard[t] = hard[u] => t = u
  BY <1>1, <1>3 DEF HardInv, ArmedTriggers
<1>6. \A b \in H : \E t \in HardSlots : hard[t] = b
  BY DEF HardInv, Planted
<1>7. hard \in Bijection(HardSlots, H)
  BY <1>4, <1>5, <1>6 DEF Bijection, Injection, Surjection, IsInjective
<1>8. IsFiniteSet(HardSlots) /\ Cardinality(HardSlots) = NHardware
  BY SizeAssumption, FS_Interval DEF HardSlots
<1> QED
  BY <1>7, <1>8, FS_Bijection DEF ExistsBijection

\* The probe offers as many hardware breakpoints as it has slots: with triggers
\* enough it turns one down only when the host has that many.
THEOREM CapacityIsOffered ==
    ASSUME TriggersSuffice, ~KeepsInserted
    PROVE  Spec => HardCapacity
<1>1. TriggersAlike
  BY DEF TriggersSuffice, TriggersAlike, Accesses
<1>2. HardInv /\ [Next]_vars => HardInv'
  BY <1>1, HardStep
<1>3. ASSUME HardInv, NEW addr \in Addrs, InsertHardware("hardware", addr), reply' = "E0e"
      PROVE  Cardinality({b \in live : b.type # "software"}) = NHardware
  <2>1. CASE FreeHardSlots = {}
    BY <1>3, <2>1, FullTable
  <2>2. CASE FreeHardSlots # {}
    <3> DEFINE i == Least(FreeHardSlots)
               want == trig[i].match \cup Matches("hardware")
    <3>1. i \in HardSlots
      BY <2>2, LeastIsLeast, Counted DEF FreeHardSlots
    <3>2. i \in Triggers
      BY <3>1, SizeAssumption, TriggerAssumption DEF TriggersSuffice, HardSlots, Triggers
    <3>3. want \cap Supports[i] = want
      BY <1>3, <3>2 DEF HardInv, TypeOK, TriggersSuffice, Matches, Accesses
    <3>4. reply' = "OK"
      BY <1>3, <2>2, <3>2, <3>3 DEF InsertHardware, Acknowledge
    <3> QED
      BY <1>3, <3>4
  <2> QED
    BY <2>1, <2>2
<1>4. HardInv /\ [Next]_vars =>
          [(\E addr \in Addrs : InsertHardware("hardware", addr)) /\ reply' = "E0e" =>
              Cardinality({b \in live : b.type # "software"}) = NHardware]_vars
  BY <1>3
<1> QED
  BY <1>2, <1>4, HardInitially, PTL DEF Spec, HardCapacity
=============================================================================
