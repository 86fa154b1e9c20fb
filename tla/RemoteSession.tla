---------------------------- MODULE RemoteSession ----------------------------
(***************************************************************************)
(* What the probe promises its debugger, with no task, packet or buffer in *)
(* sight: a command is carried out once, its effect on the session is in   *)
(* force before its answer arrives, the answer is its own, and a target    *)
(* that runs in a session brings one stop reply.  GdbTransport implements  *)
(* it.                                                                     *)
(***************************************************************************)
CONSTANT Asks    \* commands that only read or write the target

Stops    == {"T02", "T05"}
Commands == Asks \cup {"connect", "kill", "noack", "reset", "cont"}
Nothing  == "blank"

VARIABLES
    pend,                        \* what the host waits for
    asked,                       \* the last command it asked
    todo,                        \* the command the probe still has to carry out
    answer,                      \* the answer on its way
    connected, running, noAck    \* the session, as the probe sees it

vars == <<pend, asked, todo, answer, connected, running, noAck>>

Init ==
    /\ pend = "none" /\ asked = Nothing /\ todo = Nothing /\ answer = Nothing
    /\ connected = FALSE /\ running = FALSE /\ noAck = FALSE

Ask(m) ==
    /\ pend = "none"
    /\ pend' = IF m = "cont" THEN "stop" ELSE "reply"
    /\ asked' = m
    /\ todo' = m
    /\ UNCHANGED <<answer, connected, running, noAck>>

\* The probe carries the command out and owes its answer.
CarryOut ==
    /\ todo \in Commands \ {"cont"}
    /\ todo' = Nothing
    /\ answer' = todo
    /\ noAck' = (todo = "noack" \/ (noAck /\ todo # "connect"))
    /\ connected' = (todo = "connect" \/ (connected /\ todo # "kill"))
    /\ running' \in CASE todo = "connect" -> {FALSE}
                      [] todo = "kill"    -> {TRUE, running}
                      [] OTHER            -> {running}
    /\ UNCHANGED <<pend, asked>>

Resume ==
    /\ todo = "cont"
    /\ todo' = Nothing
    /\ running' = TRUE
    /\ UNCHANGED <<pend, asked, answer, connected, noAck>>

\* The target halted by itself, or the probe halted it.
Stop ==
    /\ connected /\ running
    /\ running' = FALSE
    /\ answer' \in Stops
    /\ UNCHANGED <<pend, asked, todo, connected, noAck>>

\* The host receives an answer it waits for, and no other.
Answer ==
    /\ answer # Nothing
    /\ \/ pend = "reply" /\ answer = asked
       \/ pend = "stop" /\ answer \in Stops
    /\ pend' = "none"
    /\ answer' = Nothing
    /\ UNCHANGED <<asked, todo, connected, running, noAck>>

Next == (\E m \in Commands : Ask(m)) \/ CarryOut \/ Resume \/ Stop \/ Answer

Spec == Init /\ [][Next]_vars
=============================================================================
