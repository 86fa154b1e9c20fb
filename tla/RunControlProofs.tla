--------------------------- MODULE RunControlProofs ---------------------------
(***************************************************************************)
(* The stop reason and the registers of RunControl for every set of        *)
(* addresses, number of slots and kind of target.                          *)
(***************************************************************************)
EXTENDS RunControl, WellFoundedInduction, TLAPS

-----------------------------------------------------------------------------
(* The inductive invariant.                                                 *)

\* What the phase of the host says of the probe and of the registers.
Phases ==
    /\ polling <=> phase \in {"loading", "stepping", "waiting"}
    /\ flag <=> phase \in {"loaded", "loading"}
    /\ core = "loader" <=> flag
    /\ flag => regs = own
    /\ ~flag => core = own
    /\ exec = "running" => polling /\ (step <=> phase = "stepping")

\* The table: what is watched is data, no address is used twice, and, as all is
\* taken out before anything is put in again, the slots in use are the first.
Table ==
    /\ \A i \in Used : IF hard[i].type = "hardware" THEN hard[i].addr \in Code ELSE hard[i].addr \in Data
    /\ \A i, j \in Used : hard[i].addr = hard[j].addr => i = j
    /\ phase # "stopped" => \A i \in Used, j \in Slots : j < i => j \in Used

\* No hit bit outlives its breakpoint, and none is set when the target starts.
HitBits ==
    /\ hit \subseteq Used
    /\ phase \in {"idle", "loaded"} \/ exec = "running" => hit = {}

\* What fired, when the probe has yet to look.
Pending ==
    polling /\ exec = "halted" =>
        /\ cause \in {"trigger", "ebreak", "step"}
        /\ cause = "ebreak" => \E b \in why : b.type = "software"
        /\ cause = "step" => why = {}
        /\ cause = "trigger" =>
              /\ why # {}
              /\ \A i \in hit : hard[i] \in why /\ (hard[i].type = "hardware" => At(dpc) # {})
              /\ \/ At(dpc) # {} \/ hit # {}
                 \/ kind = "no hit" /\ access = Nowhere
                 \/ \E i \in Used : hard[i] \in why /\ hard[i].type \in Watches /\ hard[i].addr = access

IInv == TypeOK /\ Phases /\ Table /\ HitBits /\ Pending
\* Least is the least: the code's searches find the first slot there is.
LEMMA LeastIsLeast ==
    ASSUME NEW S \in SUBSET Nat, S # {}
    PROVE  Least(S) \in S /\ \A j \in S : Least(S) =< j
<1>1. PICK i \in S : \A j \in S : <<j, i>> \notin OpToRel(<, Nat)
  BY NatLessThanWellFounded, WFMin
<1>2. ASSUME NEW j \in S, ~(i =< j) PROVE FALSE
  <2>1. j < i /\ j \in Nat /\ i \in Nat
    BY <1>2
  <2>2. <<j, i>> \in OpToRel(<, Nat)
    BY <2>1, Zenon DEF OpToRel
  <2> QED
    BY <1>1, <2>2
<1> QED
  BY <1>2 DEF Least

\* What fires at an access to data are watchpoints of its address.
LEMMA WatchpointsFire ==
    ASSUME TouchesWatched
    PROVE  \E a \in Data, p \in Code, v \in Left, d \in Data \cup {Nowhere}, fired \in SUBSET Used :
              /\ fired # {}
              /\ \A i \in fired : hard[i].addr = a /\ hard[i].type \in Watches
              /\ kind # "hit after" => At(p) = {} /\ d \in {a, Nowhere}
              /\ Halts({hard[i] : i \in fired}, "trigger", p, v)
              /\ Fires(fired)
              /\ access' = d
<1> DEFINE Fired(a, how) == {i \in Used : hard[i].addr = a /\ Matches(hard[i].type, how)}
<1>1. PICK a \in Data, how \in Accesses, p \in Code, v \in Left, d \in Data \cup {Nowhere} :
          /\ Fired(a, how) # {}
          /\ kind # "hit after" => At(p) = {} /\ d \in {a, Nowhere}
          /\ Halts({hard[i] : i \in Fired(a, how)}, "trigger", p, v)
          /\ Fires(Fired(a, how))
          /\ access' = d
  BY Zenon DEF TouchesWatched
<1>2. \A i \in Fired(a, how) : hard[i].addr = a /\ hard[i].type \in Watches
  BY DEF Matches, Watches
<1>3. Fired(a, how) \in SUBSET Used
  OBVIOUS
<1> HIDE DEF Fired
<1> QED
  BY <1>1, <1>2, <1>3, Zenon

\* Every step keeps the phase, the registers and the flag in step.
LEMMA PhasesStep == ASSUME TypeOK, Phases, [Next]_vars PROVE Phases'
<1>1. ASSUME NEW type \in HardTypes, NEW a \in Code \cup Data, InsertHardware(type, a) PROVE Phases'
  BY <1>1 DEF InsertHardware, CanInsert, targetVars, probeVars, hostVars, Phases, TypeOK, Values
<1>2. ASSUME NEW i \in Slots, RemoveHardware(i) PROVE Phases'
  BY <1>2 DEF RemoveHardware, HitAfterRemove, targetVars, probeVars, hostVars, Phases, TypeOK, Values
<1>3. CASE InsertSoftware
  BY <1>3 DEF InsertSoftware, targetVars, probeVars, hostVars, Phases, TypeOK, Values
<1>4. CASE RemoveSoftware
  BY <1>4 DEF RemoveSoftware, targetVars, probeVars, hostVars, Phases, TypeOK, Values
<1>5. CASE ReadRegs
  BY <1>5 DEF ReadRegs, targetVars, probeVars, hostVars, Phases, TypeOK, Values
<1>6. ASSUME NEW v \in Values, WriteRegs(v) PROVE Phases'
  BY <1>6 DEF WriteRegs, targetVars, probeVars, hostVars, Phases, TypeOK, Values
<1>7. CASE Algorithm
  BY <1>7 DEF Algorithm, Saved, targetVars, probeVars, hostVars, Phases, TypeOK, Values
<1>8. ASSUME NEW single \in BOOLEAN, Resume(single) PROVE Phases'
  BY <1>8 DEF Resume, StepAfter, Stop, targetVars, probeVars, hostVars, Phases, TypeOK, Values
<1>9. CASE CtrlC
  BY <1>9 DEF CtrlC, Told, Stop, Left, targetVars, probeVars, hostVars, Phases, TypeOK, Values
<1>10. CASE MonitorReset
  BY <1>10 DEF MonitorReset, targetVars, probeVars, hostVars, Phases, TypeOK, Values
<1>11. CASE MonitorHalt
  BY <1>11 DEF MonitorHalt, targetVars, probeVars, hostVars, Phases, TypeOK, Values
<1>12. CASE ReachesHardware
  BY <1>12 DEF ReachesHardware, Halts, Left, Fires, targetVars, probeVars, hostVars, Phases, TypeOK, Values
<1>13. CASE TouchesWatched
  <2>1. PICK p \in Code, v \in Left, fired \in SUBSET Used : Halts({hard[i] : i \in fired}, "trigger", p, v)
    BY <1>13, WatchpointsFire, Zenon
  <2> QED
    BY <2>1 DEF Halts, Left, targetVars, probeVars, hostVars, Phases, TypeOK, Values
<1>14. CASE ReachesEbreak
  BY <1>14 DEF ReachesEbreak, Halts, Left, targetVars, probeVars, hostVars, Phases, TypeOK, Values
<1>15. CASE Stepped
  BY <1>15 DEF Stepped, Halts, Left, targetVars, probeVars, hostVars, Phases, TypeOK, Values
<1>16. CASE HaltCheck
  BY <1>16 DEF HaltCheck, Told, Restore, targetVars, probeVars, hostVars, Phases, TypeOK, Values
<1>17. CASE UNCHANGED vars
  BY <1>17 DEF vars, targetVars, probeVars, hostVars, Phases, TypeOK, Values
<1> QED
  BY <1>1, <1>2, <1>3, <1>4, <1>5, <1>6, <1>7, <1>8, <1>9, <1>10, <1>11, <1>12, <1>13, <1>14, <1>15, <1>16, <1>17 DEF Next, Host, Program
\* A stop reply names a stop reason, and an address only of data.
LEMMA ReasonType ==
    ASSUME TypeOK, Table, HitBits
    PROVE  Reason \in [reason : StopReasons, addr : Data \cup {Nowhere}]
<1> DEFINE hits  == hit \cap Used
           first == hard[Least(hits)]
           same  == {i \in Slots : hard[i].addr = access}
           near  == hard[Least(same)]
<1>1. Slots \subseteq Nat
  BY SlotsAssumption DEF Slots
<1>2. hits # {} => Least(hits) \in Used
  BY <1>1, LeastIsLeast DEF Used
<1>3. hits # {} => first.type \in HardTypes /\ (first.type \in Watches => first.addr \in Data)
  BY <1>2 DEF Used, TypeOK, Table, Watches, HardTypes
<1>4. TriggerReason \in [reason : StopReasons, addr : Data \cup {Nowhere}]
  <2>1. CASE At(dpc) # {}
    BY <2>1 DEF TriggerReason, Stop, StopReasons, HardTypes
  <2>2. CASE At(dpc) = {} /\ hits # {}
    <3>1. TriggerReason = Stop(first.type, IF first.type \in Watches THEN first.addr ELSE Nowhere)
      BY <2>2, Zenon DEF TriggerReason
    <3> QED
      BY <2>2, <3>1, <1>3 DEF Stop, StopReasons
  <2>3. CASE At(dpc) = {} /\ hits = {}
    <3>1. \/ TriggerReason = Stop("other", Nowhere)
          \/ near.type \in Watches /\ TriggerReason = Stop(near.type, access)
      BY <2>3, Zenon DEF TriggerReason
    <3> QED
      BY <3>1 DEF TypeOK, Stop, StopReasons, HardTypes
  <2> QED
    BY <2>1, <2>2, <2>3
<1> QED
  BY <1>4 DEF Reason, Stop, StopReasons

\* What the program leaves when it halts is of its type.
LEMMA HaltsType ==
    ASSUME TypeOK, Phases, NEW w, NEW c \in Causes, NEW p \in Code, NEW v \in Left,
           Halts(w, c, p, v), hit' \subseteq Slots, access' \in Data \cup {Nowhere}
    PROVE  TypeOK'
<1>1. core' \in Values \cup {"loader"} /\ own' \in Values
  BY DEF Halts, Left, TypeOK, Values
<1> QED
  BY <1>1 DEF Halts, probeVars, TypeOK

\* Every step keeps the variables in their types.
LEMMA TypeStep == ASSUME TypeOK, Phases, Table, HitBits, [Next]_vars PROVE TypeOK'
<1> USE AddressAssumption, SlotsAssumption, TargetsAssumption
<1>1. ASSUME NEW type \in HardTypes, NEW a \in Code \cup Data, InsertHardware(type, a) PROVE TypeOK'
  <2> DEFINE free == Slots \ Used
  <2>1. Least(free) \in Slots
    BY <1>1, SlotsAssumption, LeastIsLeast DEF InsertHardware, Slots
  <2>2. [type |-> type, addr |-> a] \in [type : HardTypes \cup {"unused"}, addr : Code \cup Data \cup {Nowhere}]
    BY <1>1
  <2>3. hard' = [hard EXCEPT ![Least(free)] = [type |-> type, addr |-> a]]
    BY <1>1 DEF InsertHardware
  <2>4. hard' \in [Slots -> [type : HardTypes \cup {"unused"}, addr : Code \cup Data \cup {Nowhere}]]
    BY <2>1, <2>2, <2>3 DEF TypeOK
  <2> QED
    BY <1>1, <2>4 DEF InsertHardware, targetVars, hostVars, TypeOK
<1>2. ASSUME NEW i \in Slots, RemoveHardware(i) PROVE TypeOK'
  BY <1>2 DEF RemoveHardware, HitAfterRemove, targetVars, probeVars, hostVars, TypeOK, Phases, Values, HardTypes, Causes, Unused
<1>3. CASE InsertSoftware
  BY <1>3 DEF InsertSoftware, targetVars, probeVars, hostVars, TypeOK, Phases, Values, HardTypes, Causes, Unused
<1>4. CASE RemoveSoftware
  BY <1>4, ZenonT(60) DEF RemoveSoftware, targetVars, probeVars, hostVars, TypeOK, Phases, Values, HardTypes, Causes, Unused
<1>5. CASE ReadRegs
  BY <1>5 DEF ReadRegs, targetVars, probeVars, hostVars, TypeOK, Phases, Values, HardTypes, Causes, Unused
<1>6. ASSUME NEW v \in Values, WriteRegs(v) PROVE TypeOK'
  BY <1>6 DEF WriteRegs, targetVars, probeVars, hostVars, TypeOK, Phases, Values, HardTypes, Causes, Unused
<1>7. CASE Algorithm
  BY <1>7 DEF Algorithm, Saved, targetVars, probeVars, hostVars, TypeOK, Phases, Values, HardTypes, Causes, Unused
<1>8. ASSUME NEW single \in BOOLEAN, Resume(single) PROVE TypeOK'
  <2>1. step' \in BOOLEAN /\ polling' \in BOOLEAN
    BY <1>8, Zenon DEF Resume, StepAfter
  <2>2. reported' \in [reason : StopReasons, addr : Data \cup {Nowhere}]
    BY <1>8 DEF Resume, Stop, StopReasons
  <2> QED
    BY <1>8, <2>1, <2>2 DEF Resume, TypeOK, Causes
<1>9. CASE CtrlC
  <2>1. reported' \in [reason : StopReasons, addr : Data \cup {Nowhere}] /\ polling' \in BOOLEAN
    BY <1>9 DEF CtrlC, Told, Stop, StopReasons
  <2>2. core' \in Values \cup {"loader"} /\ own' \in Values
    BY <1>9 DEF CtrlC, Left, TypeOK, Phases
  <2>3. /\ exec' \in {"halted", "running"} /\ cause' \in Causes /\ dpc' \in Code \cup {Nowhere}
        /\ access' \in Data \cup {Nowhere}
        /\ phase' \in {"idle", "stopped", "loaded", "loading", "stepping", "waiting"}
    BY <1>9 DEF CtrlC, Told, TypeOK, Causes
  <2> QED
    BY <1>9, <2>1, <2>2, <2>3 DEF CtrlC, TypeOK
<1>10. CASE MonitorReset
  BY <1>10 DEF MonitorReset, targetVars, probeVars, hostVars, TypeOK, Phases, Values, HardTypes, Causes, Unused
<1>11. CASE MonitorHalt
  BY <1>11 DEF MonitorHalt, targetVars, probeVars, hostVars, TypeOK, Phases, Values, HardTypes, Causes, Unused
<1>12. CASE ReachesHardware
  <2>1. PICK a \in Code, v \in Left : Halts({hard[i] : i \in At(a)}, "trigger", a, v) /\ Fires(At(a))
                                 /\ access' \in Data \cup {Nowhere}
    BY <1>12, Zenon DEF ReachesHardware
  <2>2. hit' \subseteq Slots
    BY <2>1 DEF Fires, At, Used, TypeOK
  <2> QED
    BY <2>1, <2>2, HaltsType DEF Causes
<1>13. CASE TouchesWatched
  <2>1. PICK a \in Data, p \in Code, v \in Left, d \in Data \cup {Nowhere}, fired \in SUBSET Used :
          Halts({hard[i] : i \in fired}, "trigger", p, v) /\ Fires(fired) /\ access' = d
    BY <1>13, WatchpointsFire, Zenon
  <2>2. hit' \subseteq Slots
    BY <2>1 DEF Fires, Used, TypeOK
  <2> QED
    BY <2>1, <2>2, HaltsType DEF Causes
<1>14. CASE ReachesEbreak
  BY <1>14 DEF ReachesEbreak, Halts, Left, targetVars, probeVars, hostVars, TypeOK, Phases, Values, HardTypes, Causes, Unused
<1>15. CASE Stepped
  BY <1>15 DEF Stepped, Halts, Left, targetVars, probeVars, hostVars, TypeOK, Phases, Values, HardTypes, Causes, Unused
<1>16. CASE HaltCheck
  <2>1. reported' \in [reason : StopReasons, addr : Data \cup {Nowhere}]
    BY <1>16, ReasonType DEF HaltCheck, Told
  <2>2. polling' \in BOOLEAN /\ flag' \in BOOLEAN
        /\ phase' \in {"idle", "stopped", "loaded", "loading", "stepping", "waiting"}
    BY <1>16 DEF HaltCheck, Told, Restore
  <2>3. core' \in Values \cup {"loader"}
    BY <1>16 DEF HaltCheck, Restore, TypeOK
  <2> QED
    BY <1>16, <2>1, <2>2, <2>3 DEF HaltCheck, TypeOK
<1>17. CASE UNCHANGED vars
  BY <1>17 DEF vars, targetVars, probeVars, hostVars, TypeOK, Phases, Values, HardTypes, Causes, Unused
<1> QED
  BY <1>1, <1>2, <1>3, <1>4, <1>5, <1>6, <1>7, <1>8, <1>9, <1>10, <1>11, <1>12, <1>13, <1>14, <1>15, <1>16, <1>17 DEF Next, Host, Program
\* Every step keeps the table in order.
LEMMA TableStep == ASSUME TypeOK, Table, [Next]_vars PROVE Table'
<1>0. ASSUME UNCHANGED hard, phase' = phase \/ phase # "stopped" \/ phase' = "stopped" PROVE Table'
  BY <1>0 DEF Table, Used
<1>1. ASSUME NEW type \in HardTypes, NEW a \in Code \cup Data, InsertHardware(type, a) PROVE Table'
  <2> DEFINE free == Slots \ Used
             s == Least(free)
             new == [type |-> type, addr |-> a]
  <2>1. s \in free /\ \A j \in free : s =< j
    BY <1>1, SlotsAssumption, LeastIsLeast DEF InsertHardware, Slots
  <2>2. hard' = [hard EXCEPT ![s] = new] /\ DOMAIN hard = Slots
    BY <1>1 DEF InsertHardware, TypeOK
  <2>3. hard'[s] = new /\ \A j \in Slots : j # s => hard'[j] = hard[j]
    BY <2>1, <2>2
  <2>4. type # "unused" /\ Used' = Used \cup {s}
    BY <1>1, <2>1, <2>3 DEF Used, HardTypes, Watches
  <2>5. \A i \in Used : i \in Slots /\ i # s /\ hard[i].addr # a /\ hard'[i] = hard[i]
    BY <1>1, <2>1, <2>3 DEF InsertHardware, CanInsert, Used
  <2>6. IF type = "hardware" THEN a \in Code ELSE a \in Data
    BY <1>1 DEF InsertHardware, CanInsert
  <2>7. \A i \in Used' : IF hard'[i].type = "hardware" THEN hard'[i].addr \in Code ELSE hard'[i].addr \in Data
    BY <2>3, <2>4, <2>5, <2>6 DEF Table
  <2>8. \A i, j \in Used' : hard'[i].addr = hard'[j].addr => i = j
    BY <2>3, <2>4, <2>5 DEF Table
  <2>9. \A i \in Used', j \in Slots : j < i => j \in Used'
    <3>1. phase # "stopped"
      BY <1>1 DEF InsertHardware, CanInsert
    <3>2. \A j \in Slots : j < s => j \in Used
      <4>1. \A j \in Slots : j \in Int
        BY SlotsAssumption DEF Slots
      <4> QED
        BY <2>1, <4>1
    <3> QED
      BY <2>4, <3>1, <3>2 DEF Table
  <2> QED
    BY <2>7, <2>8, <2>9 DEF Table
<1>2. ASSUME NEW i \in Slots, RemoveHardware(i) PROVE Table'
  <2>1. DOMAIN hard = Slots /\ hard' = [hard EXCEPT ![i].type = "unused"]
    BY <1>2 DEF RemoveHardware, TypeOK
  <2>2. hard'[i].type = "unused" /\ \A j \in Slots : j # i => hard'[j] = hard[j]
    BY <1>2, <2>1
  <2>3. Used' = Used \ {i}
    BY <2>2 DEF Used
  <2>4. phase' # "stopped" => Used' = {}
    BY <1>2, <2>3 DEF RemoveHardware
  <2>5. \A j \in Used' : j \in Used /\ hard'[j] = hard[j]
    BY <2>2, <2>3 DEF Used
  <2> QED
    BY <2>4, <2>5 DEF Table
<1>3. CASE InsertSoftware
  BY <1>3, <1>0 DEF InsertSoftware, probeVars, hostVars
<1>4. CASE RemoveSoftware
  <2>1. hard' = hard /\ (phase' # "stopped" => Used = {})
    BY <1>4 DEF RemoveSoftware
  <2> QED
    BY <2>1 DEF Table, Used
<1>5. CASE ReadRegs
  BY <1>5, <1>0 DEF ReadRegs, probeVars, hostVars
<1>6. ASSUME NEW v \in Values, WriteRegs(v) PROVE Table'
  BY <1>6, <1>0 DEF WriteRegs, probeVars, hostVars
<1>7. CASE Algorithm
  BY <1>7, <1>0 DEF Algorithm, probeVars, hostVars
<1>8. ASSUME NEW single \in BOOLEAN, Resume(single) PROVE Table'
  BY <1>8, <1>0 DEF Resume, probeVars, hostVars
<1>9. CASE CtrlC
  <2>1. hard' = hard /\ (phase' # "stopped" => Used = {})
    BY <1>9 DEF CtrlC, Told
  <2> QED
    BY <2>1 DEF Table, Used
<1>10. CASE MonitorReset
  BY <1>10, <1>0 DEF MonitorReset, probeVars, hostVars
<1>11. CASE MonitorHalt
  BY <1>11, <1>0 DEF MonitorHalt, probeVars, hostVars
<1>12. CASE ReachesHardware
  BY <1>12, <1>0 DEF ReachesHardware, Halts, probeVars
<1>13. CASE TouchesWatched
  <2>1. PICK p \in Code, v \in Left, fired \in SUBSET Used : Halts({hard[i] : i \in fired}, "trigger", p, v)
    BY <1>13, WatchpointsFire, Zenon
  <2> QED
    BY <1>0, <2>1 DEF Halts, probeVars
<1>14. CASE ReachesEbreak
  BY <1>14, <1>0 DEF ReachesEbreak, Halts, probeVars
<1>15. CASE Stepped
  BY <1>15, <1>0 DEF Stepped, Halts, probeVars
<1>16. CASE HaltCheck
  <2>1. hard' = hard /\ (phase' # "stopped" => Used = {})
    BY <1>16 DEF HaltCheck, Told
  <2> QED
    BY <2>1 DEF Table, Used
<1>17. CASE UNCHANGED vars
  BY <1>17, <1>0 DEF vars, targetVars, probeVars, hostVars
<1> QED
  BY <1>1, <1>2, <1>3, <1>4, <1>5, <1>6, <1>7, <1>8, <1>9, <1>10, <1>11, <1>12, <1>13, <1>14, <1>15, <1>16, <1>17 DEF Next, Host, Program
\* Every step keeps the hit bits to breakpoints that have fired.
LEMMA HitStep == ASSUME TypeOK, Phases, HitBits, [Next]_vars PROVE HitBits'
<1>0. ASSUME NEW w, NEW c, NEW p, NEW v, NEW fired \in SUBSET Used, Halts(w, c, p, v), Fires(fired)
      PROVE  HitBits'
  BY <1>0 DEF Halts, Fires, probeVars, Phases, HitBits, Used
<1>1. ASSUME NEW type \in HardTypes, NEW a \in Code \cup Data, InsertHardware(type, a) PROVE HitBits'
  <2>1. Least(Slots \ Used) \in Slots \ Used
    BY <1>1, SlotsAssumption, LeastIsLeast DEF InsertHardware, Slots
  <2>2. DOMAIN hard = Slots /\ hard' = [hard EXCEPT ![Least(Slots \ Used)] = [type |-> type, addr |-> a]]
    BY <1>1 DEF InsertHardware, TypeOK
  <2>3. Used \subseteq Used'
    BY <2>1, <2>2 DEF Used
  <2> QED
    BY <1>1, <2>3 DEF InsertHardware, targetVars, hostVars, HitBits
<1>2. ASSUME NEW i \in Slots, RemoveHardware(i) PROVE HitBits'
  <2>1. DOMAIN hard = Slots /\ hard' = [hard EXCEPT ![i].type = "unused"]
    BY <1>2 DEF RemoveHardware, TypeOK
  <2>2. Used' = Used \ {i}
    BY <1>2, <2>1 DEF Used
  <2>3. hit' \subseteq Used'
    BY <1>2, <2>2 DEF RemoveHardware, HitAfterRemove, HitBits
  <2>4. exec' # "running" /\ (phase' \in {"idle", "loaded"} => Used' = {})
    BY <1>2, <2>2 DEF RemoveHardware, Phases
  <2> QED
    BY <2>3, <2>4 DEF HitBits
<1>3. CASE InsertSoftware
  BY <1>3 DEF InsertSoftware, targetVars, probeVars, hostVars, HitBits, Used
<1>4. CASE RemoveSoftware
  <2>1. UNCHANGED <<hard, hit>> /\ exec' # "running" /\ (phase' \in {"idle", "loaded"} => Used = {})
    BY <1>4 DEF RemoveSoftware, targetVars, Phases
  <2> QED
    BY <2>1 DEF HitBits, Used
<1>5. CASE ReadRegs
  BY <1>5 DEF ReadRegs, targetVars, probeVars, hostVars, HitBits, Used
<1>6. ASSUME NEW v \in Values, WriteRegs(v) PROVE HitBits'
  BY <1>6 DEF WriteRegs, targetVars, probeVars, hostVars, HitBits, Used
<1>7. CASE Algorithm
  BY <1>7 DEF Algorithm, targetVars, probeVars, hostVars, HitBits, Used
<1>8. ASSUME NEW single \in BOOLEAN, Resume(single) PROVE HitBits'
  BY <1>8 DEF Resume, targetVars, probeVars, hostVars, HitBits, Used
<1>9. CASE CtrlC
  <2>1. UNCHANGED <<hard, hit>> /\ exec' # "running" /\ (phase' \in {"idle", "loaded"} => Used = {})
    BY <1>9 DEF CtrlC, Told
  <2> QED
    BY <2>1 DEF HitBits, Used
<1>10. CASE MonitorReset
  BY <1>10 DEF MonitorReset, targetVars, probeVars, hostVars, HitBits, Used, Phases
<1>11. CASE MonitorHalt
  BY <1>11 DEF MonitorHalt, targetVars, probeVars, hostVars, HitBits, Used
<1>12. CASE ReachesHardware
  <2>1. PICK a \in Code, v \in Left : Halts({hard[i] : i \in At(a)}, "trigger", a, v) /\ Fires(At(a))
    BY <1>12, Zenon DEF ReachesHardware
  <2>2. At(a) \in SUBSET Used
    BY DEF At
  <2> QED
    BY <1>0, <2>1, <2>2, Zenon
<1>13. CASE TouchesWatched
  <2>1. PICK p \in Code, v \in Left, fired \in SUBSET Used :
          Halts({hard[i] : i \in fired}, "trigger", p, v) /\ Fires(fired)
    BY <1>13, WatchpointsFire, Zenon
  <2> QED
    BY <1>0, <2>1, Zenon
<1>14. CASE ReachesEbreak
  BY <1>14 DEF ReachesEbreak, Halts, probeVars, Phases, HitBits, Used
<1>15. CASE Stepped
  BY <1>15 DEF Stepped, Halts, probeVars, Phases, HitBits, Used
<1>16. CASE HaltCheck
  <2>1. UNCHANGED <<hard, hit>> /\ exec' # "running" /\ (phase' \in {"idle", "loaded"} => Used = {})
    BY <1>16 DEF HaltCheck, Told
  <2> QED
    BY <2>1 DEF HitBits, Used
<1>17. CASE UNCHANGED vars
  BY <1>17 DEF vars, targetVars, probeVars, hostVars, HitBits, Used
<1> QED
  BY <1>1, <1>2, <1>3, <1>4, <1>5, <1>6, <1>7, <1>8, <1>9, <1>10, <1>11, <1>12, <1>13, <1>14, <1>15, <1>16, <1>17 DEF Next, Host, Program

\* Every step keeps account of what fired until the probe has looked.
LEMMA PendingStep == ASSUME TypeOK, Phases, HitBits, Pending, [Next]_vars PROVE Pending'
<1>1. ASSUME NEW type \in HardTypes, NEW a \in Code \cup Data, InsertHardware(type, a) PROVE Pending'
  BY <1>1 DEF InsertHardware, CanInsert, probeVars, Phases, Pending
<1>2. ASSUME NEW i \in Slots, RemoveHardware(i) PROVE Pending'
  BY <1>2 DEF RemoveHardware, probeVars, Phases, Pending
<1>3. CASE InsertSoftware
  BY <1>3 DEF InsertSoftware, probeVars, Phases, Pending
<1>4. CASE RemoveSoftware
  BY <1>4 DEF RemoveSoftware, probeVars, Phases, Pending
<1>5. CASE ReadRegs
  BY <1>5 DEF ReadRegs, probeVars, Phases, Pending
<1>6. ASSUME NEW v \in Values, WriteRegs(v) PROVE Pending'
  BY <1>6 DEF WriteRegs, probeVars, Phases, Pending
<1>7. CASE Algorithm
  BY <1>7 DEF Algorithm, probeVars, Phases, Pending
<1>8. ASSUME NEW single \in BOOLEAN, Resume(single) PROVE Pending'
  BY <1>8 DEF Resume, Pending
<1>9. CASE CtrlC
  BY <1>9 DEF CtrlC, Told, Pending
<1>10. CASE MonitorReset
  BY <1>10 DEF MonitorReset, probeVars, Phases, Pending
<1>11. CASE MonitorHalt
  BY <1>11 DEF MonitorHalt, probeVars, Phases, Pending
<1>12. CASE ReachesHardware
  <2>1. PICK a \in Code, v \in Left :
          Halts({hard[i] : i \in At(a)}, "trigger", a, v) /\ Fires(At(a)) /\ At(a) # {}
    BY <1>12, Zenon DEF ReachesHardware
  <2>2. At(dpc)' = At(a) /\ hard' = hard
    BY <2>1 DEF Halts, probeVars, At, Used
  <2>3. hit' \subseteq At(a)
    BY <2>1 DEF Fires, Halts, HitBits
  <2>4. why' = {hard[i] : i \in At(a)} /\ cause' = "trigger"
    BY <2>1 DEF Halts
  <2>5. why' # {} /\ \A i \in hit' : hard'[i] \in why'
    BY <2>1, <2>2, <2>3, <2>4
  <2> QED
    BY <2>1, <2>2, <2>4, <2>5 DEF Pending
<1>13. CASE TouchesWatched
  <2>1. PICK a \in Data, p \in Code, v \in Left, d \in Data \cup {Nowhere}, fired \in SUBSET Used :
          /\ fired # {}
          /\ \A i \in fired : hard[i].addr = a /\ hard[i].type \in Watches
          /\ kind # "hit after" => At(p) = {} /\ d \in {a, Nowhere}
          /\ Halts({hard[i] : i \in fired}, "trigger", p, v)
          /\ Fires(fired)
          /\ access' = d
    BY <1>13, WatchpointsFire
  <2>2. hard' = hard /\ Used' = Used /\ kind' = kind
    BY <2>1 DEF Halts, probeVars, Used
  <2>3. hit' = IF kind = "no hit" THEN {} ELSE fired
    BY <2>1 DEF Fires, Halts, HitBits
  <2>4. why' = {hard[i] : i \in fired} /\ cause' = "trigger"
    BY <2>1 DEF Halts
  <2>5. why' # {} /\ \A i \in fired : hard'[i] \in why' /\ hard'[i].type # "hardware"
    BY <2>1, <2>2, <2>4 DEF Watches
  <2>6. \/ hit' # {}
        \/ kind' = "no hit" /\ access' = Nowhere
        \/ \E i \in Used' : hard'[i] \in why' /\ hard'[i].type \in Watches /\ hard'[i].addr = access'
    BY <2>1, <2>2, <2>3, <2>5
  <2> QED
    BY <2>3, <2>4, <2>5, <2>6 DEF Pending
<1>14. CASE ReachesEbreak
  BY <1>14 DEF ReachesEbreak, Halts, Pending
<1>15. CASE Stepped
  BY <1>15 DEF Stepped, Halts, Pending
<1>16. CASE HaltCheck
  BY <1>16 DEF HaltCheck, Told, Pending
<1>17. CASE UNCHANGED vars
  <2>1. At(dpc)' = At(dpc) /\ Used' = Used
    BY <1>17 DEF vars, targetVars, probeVars, At, Used
  <2> QED
    BY <1>17, <2>1 DEF vars, targetVars, probeVars, hostVars, Pending
<1> QED
  BY <1>1, <1>2, <1>3, <1>4, <1>5, <1>6, <1>7, <1>8, <1>9, <1>10, <1>11, <1>12, <1>13, <1>14, <1>15, <1>16, <1>17 DEF Next, Host, Program
-----------------------------------------------------------------------------
(* What follows.                                                            *)

\* The states after gdb_server_connected satisfy the invariant.
LEMMA InvInitially == Init => IInv
<1> USE AddressAssumption, SlotsAssumption, TargetsAssumption
<1> SUFFICES ASSUME Init PROVE IInv
  OBVIOUS
<1>1. Used = {}
  BY DEF Init, Used, Unused
<1>2. /\ step \in BOOLEAN /\ ebreak \in BOOLEAN /\ soft \in BOOLEAN /\ polling \in BOOLEAN /\ flag \in BOOLEAN
      /\ hard \in [Slots -> [type : HardTypes \cup {"unused"}, addr : Code \cup Data \cup {Nowhere}]]
      /\ reported \in [reason : StopReasons, addr : Data \cup {Nowhere}]
  BY DEF Init, Unused, Stop, StopReasons
<1>3. TypeOK
  BY <1>2 DEF Init, TypeOK, Causes, Values
<1>4. Phases
  BY DEF Init, Phases
<1>5. Table /\ HitBits /\ Pending
  BY <1>1 DEF Init, Table, HitBits, Pending
<1> QED
  BY <1>3, <1>4, <1>5 DEF IInv

\* Every step keeps it.
LEMMA InvStep == IInv /\ [Next]_vars => IInv'
BY TypeStep, PhasesStep, TableStep, HitStep, PendingStep DEF IInv

\* The invariant is one.
LEMMA Invariant == Spec => []IInv
BY InvInitially, InvStep, PTL DEF Spec

\* Every variable keeps its type.
THEOREM TypeCorrect == Spec => []TypeOK
<1>1. IInv => TypeOK
  BY DEF IInv
<1> QED
  BY <1>1, Invariant, PTL

\* Whenever the host may look, the core registers are the program's own: what
\* an algorithm did to them is undone, and nothing is put back a second time.
THEOREM RegistersAreThePrograms == Spec => []RegistersSurvive
<1>1. IInv => RegistersSurvive
  BY DEF IInv, Phases, RegistersSurvive
<1> QED
  BY <1>1, Invariant, PTL

\* A program that is continued is not stopped by a step nobody asked for.
THEOREM ContinueIsNoStep == Spec => ContinueRuns
<1>1. IInv /\ [Next]_vars => [Stepped => phase = "stepping"]_vars
  BY DEF IInv, Phases, Stepped, Halts
<1> QED
  BY <1>1, Invariant, PTL DEF Spec, ContinueRuns

\* What a halt by a trigger is put down to has fired since the last stop reply.
\* Without hit bits this rests on the order of the table: no free slot that
\* still holds the address comes before the one in use.
LEMMA TriggerNamed ==
    ASSUME IInv, polling, exec = "halted", cause = "trigger"
    PROVE  LET r == TriggerReason
           IN  \/ r.reason \in Watches /\ [type |-> r.reason, addr |-> r.addr] \in why
               \/ r.reason = "hardware" /\ At(dpc) # {} /\ why # {}
               \/ r.reason = "other" /\ kind = "no hit" /\ access = Nowhere
<1> DEFINE hits  == hit \cap Used
           first == hard[Least(hits)]
           watched == {i \in Used : hard[i].type \in Watches}
           same  == {i \in Slots : hard[i].addr = access}
           near  == hard[Least(same)]
<1> USE DEF IInv
<1>1. Slots \subseteq Nat /\ Used \subseteq Slots /\ hits = hit
  <2>1. Slots \subseteq Nat
    BY SlotsAssumption DEF Slots
  <2>2. Used \subseteq Slots
    BY DEF Used
  <2>3. hits = hit
    BY DEF HitBits
  <2> QED
    BY <2>1, <2>2, <2>3
<1>2. \A i \in Used : /\ hard[i].type \in HardTypes
                      /\ hard[i] = [type |-> hard[i].type, addr |-> hard[i].addr]
  BY DEF Used, TypeOK
<1>3. /\ why # {}
      /\ \A i \in hit : hard[i] \in why /\ (hard[i].type = "hardware" => At(dpc) # {})
      /\ \/ At(dpc) # {} \/ hit # {}
         \/ kind = "no hit" /\ access = Nowhere
         \/ \E i \in Used : hard[i] \in why /\ hard[i].type \in Watches /\ hard[i].addr = access
  BY DEF Pending
<1>4. CASE At(dpc) # {}
  BY <1>3, <1>4 DEF TriggerReason, Stop
<1>5. CASE At(dpc) = {} /\ hit # {}
  <2>1. Least(hits) \in Used /\ Least(hits) \in hit
    BY <1>1, <1>5, LeastIsLeast
  <2>2. first.type \in Watches /\ first \in why
    BY <1>2, <1>3, <1>5, <2>1 DEF HardTypes
  <2>3. TriggerReason = Stop(first.type, first.addr)
    BY <1>1, <1>5, <2>2, Zenon DEF TriggerReason
  <2>4. first = [type |-> first.type, addr |-> first.addr]
    BY <1>2, <2>1
  <2> QED
    BY <2>2, <2>3, <2>4 DEF Stop
<1>6. CASE At(dpc) = {} /\ hit = {}
  <2>1. CASE \E i \in Used : hard[i] \in why /\ hard[i].type \in Watches /\ hard[i].addr = access
    <3>1. PICK i \in Used : hard[i] \in why /\ hard[i].type \in Watches /\ hard[i].addr = access
      BY <2>1
    <3>2. i \in same /\ i \in watched
      BY <1>1, <3>1
    <3>3. Least(same) \in same /\ Least(same) =< i
      BY <1>1, <3>2, LeastIsLeast
    <3>4. Least(same) \in Used
      <4>1. phase # "stopped"
        BY DEF Phases
      <4>2. Least(same) \in Slots /\ Least(same) \in Nat /\ i \in Nat
        BY <1>1, <3>1, <3>3
      <4>3. CASE Least(same) = i
        BY <4>3
      <4>4. CASE Least(same) # i
        BY <3>3, <4>1, <4>2, <4>4 DEF Table
      <4> QED
        BY <4>3, <4>4
    <3>5. Least(same) = i
      BY <3>1, <3>3, <3>4 DEF Table
    <3>6. TriggerReason = Stop(near.type, access)
      BY <1>1, <1>6, <3>1, <3>2, <3>5, Zenon DEF TriggerReason
    <3>7. hard[i] = [type |-> hard[i].type, addr |-> hard[i].addr]
      BY <1>2
    <3> QED
      BY <3>1, <3>5, <3>6, <3>7 DEF Stop
  <2>2. CASE kind = "no hit" /\ access = Nowhere
    <3>1. \/ TriggerReason = Stop("other", Nowhere)
          \/ same # {} /\ near.type \in Watches /\ TriggerReason = Stop(near.type, access)
      BY <1>1, <1>6, Zenon DEF TriggerReason
    <3>2. ASSUME same # {} PROVE near.type \notin Watches
      <4>1. Least(same) \in Slots /\ near.addr = Nowhere
        BY <1>1, <2>2, <3>2, LeastIsLeast
      <4>2. Least(same) \notin Used
        BY <4>1, AddressAssumption DEF Table
      <4> QED
        BY <4>1, <4>2 DEF Used, Watches
    <3>3. TriggerReason = Stop("other", Nowhere)
      BY <3>1, <3>2, Zenon
    <3> QED
      BY <2>2, <3>3 DEF Stop
  <2> QED
    BY <1>3, <1>6, <2>1, <2>2
<1> QED
  BY <1>4, <1>5, <1>6

\* A stop reply names a breakpoint that stopped the target this time, and none
\* when none did.
THEOREM StopsAreNamed == Spec => StopNamesItsCause
<1>1. ASSUME IInv, HaltCheck PROVE NamesCause
  <2>1. polling /\ exec = "halted" /\ reported' = Reason
    BY <1>1 DEF HaltCheck, Told
  <2>2. cause \in {"trigger", "ebreak", "step"}
    BY <1>1, <2>1 DEF IInv, Pending
  <2>3. CASE cause = "trigger"
    BY <1>1, <2>1, <2>3, TriggerNamed DEF NamesCause, Reason, Watches
  <2>4. CASE cause = "ebreak"
    BY <1>1, <2>1, <2>4 DEF NamesCause, Reason, Stop, Watches, IInv, Pending
  <2>5. CASE cause = "step"
    BY <1>1, <2>1, <2>5 DEF NamesCause, Reason, Stop, Watches, IInv, Pending
  <2> QED
    BY <2>2, <2>3, <2>4, <2>5
<1>2. IInv /\ [Next]_vars => [HaltCheck => NamesCause]_vars
  BY <1>1
<1> QED
  BY <1>2, Invariant, PTL DEF Spec, StopNamesItsCause
=============================================================================
