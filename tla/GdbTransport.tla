---------------------------- MODULE GdbTransport ----------------------------
(***************************************************************************)
(* How a command of the host reaches gdb_server_poll and how the reply     *)
(* gets back, at the grain of whole messages.  Four parties share the      *)
(* state: the USB interrupt handlers, the task that collects command       *)
(* packets (gdb_cmd_packet_vTask, priority 2), the task that sends replies *)
(* (gdb_rsp_packet_vTask, priority 3) and the server task (priority 4).    *)
(* Only the queues hold values; the bytes they point at stay in the one    *)
(* cmd_buffer and the one rsp_buffer, which nothing locks.                 *)
(*                                                                         *)
(* A message is named by what it asks for.  The contents of a buffer are   *)
(* named by the message whose bytes were written there last.  cmdQ, rspQ   *)
(* and rlabel hold the message that was meant when the pointer was queued. *)
(***************************************************************************)
EXTENDS Integers, Sequences, FiniteSets

CONSTANTS
    Asks,        \* commands that only read or write the target: g, m, p, Z...
    MaxWire,     \* bound: messages the host has queued for the OUT endpoint
    MaxPackets   \* bound: USB packets of one message

Stops   == {"T02", "T05"}
Control == {"connect", "kill", "noack", "reset", "cont", "quiet", "break"}
Commands == Asks \cup Control
Waits   == {"none", "reply", "stop"}

ASSUME AsksAssumption == Asks \cap (Control \cup Stops \cup {"blank"}) = {}
ASSUME BoundAssumption == MaxWire \in Nat /\ MaxPackets \in Nat \ {0}

VARIABLES
    pend, asked,          \* host: the answer it waits for, and to which command
    heard,                \* host: whose bytes the packets of this answer carried
    hostConn, hostNoAck,  \* host: the session as the answers have described it
    wire, outDone,        \* host to probe: messages, packets of the first one sent
    armed, received, temp,\* OUT endpoint armed, cdc0_packet_receive, the packet
    inEp, sent,           \* IN endpoint busy, cdc0_packet_sent
    cpc, cmdBuf, cmdQ,    \* gdb_cmd_packet_vTask, cmd_buffer, its queue
    spc, doing,           \* gdb_server_poll, and the reply it is putting together
    connected, running,   \* gdb_server_i.gdb_connected, .target_running
    noAck,                \* no_ack_mode
    rspBuf, rspQ,         \* rsp_buffer, gdb_rsp_packet_xQueue
    rpc, rlabel,          \* gdb_rsp_packet_vTask and its copy of the packet
    frameNoAck, left      \* the frame under way: mode, packets still to send

hostVars == <<pend, asked, heard, hostConn, hostNoAck>>
usbVars  == <<wire, outDone, armed, received, temp, inEp, sent>>
cmdVars  == <<cpc, cmdBuf, cmdQ>>
srvVars  == <<spc, doing, connected, running, noAck, rspBuf, rspQ>>
rspVars  == <<rpc, rlabel, frameNoAck, left>>
vars     == <<hostVars, usbVars, cmdVars, srvVars, rspVars>>

Init ==
    /\ pend = "none" /\ asked = "blank" /\ heard = {}
    /\ hostConn = FALSE /\ hostNoAck = FALSE
    /\ wire = <<>> /\ outDone = 0
    /\ armed = FALSE /\ received = FALSE /\ temp = [msg |-> "blank", last |-> FALSE]
    /\ inEp = FALSE /\ sent = FALSE
    /\ cpc = "arm" /\ cmdBuf = "blank" /\ cmdQ = <<>>
    /\ spc = "recv" /\ doing = "blank"
    /\ connected = FALSE /\ running = FALSE /\ noAck = FALSE
    /\ rspBuf = "blank" /\ rspQ = <<>>
    /\ rpc = "recv" /\ rlabel = "blank" /\ frameNoAck = FALSE /\ left = 0

-----------------------------------------------------------------------------
(* Scheduling.  configUSE_PREEMPTION is 1, so a step of a task needs every  *)
(* task above it to be blocked.  vTaskDelay(5 / portTICK_PERIOD_MS) is      *)
(* vTaskDelay(0) at 100 Hz, which yields and does not block: the polling    *)
(* loop of the reply task keeps the command task off the processor.         *)

Polling == connected /\ running      \* which of the two receives runs

\* The server task could run.
SrvReady == \/ spc = "recv" /\ cmdQ # <<>>
            \/ spc \in {"check", "after"}
            \/ spc = "post" /\ rspQ = <<>>

\* The reply task could run: it holds a reply, or one waits for it.
RspReady == rpc # "recv" \/ rspQ # <<>>

\* Mutant: the reply task is given a priority above the server's.
RspRunsFirst == TRUE
RspRuns == ~SrvReady
\* Mutant: the command task is given a priority above the others.
CmdRunsFirst == TRUE
CmdRuns == ~SrvReady /\ ~RspReady

-----------------------------------------------------------------------------
(* The host: the debugger's side, which asks one thing at a time.  It       *)
(* resumes the target only after the probe has confirmed the connection,    *)
(* and may send \x03 at any time, whatever it waits for.                    *)

Awaited(m) == IF m = "quiet" THEN "none" ELSE IF m = "cont" THEN "stop" ELSE "reply"

HostAsks(m) ==
    /\ pend = "none"
    /\ m # "break"
    /\ m = "cont" => hostConn
    /\ Len(wire) < MaxWire
    /\ wire' = Append(wire, m)
    /\ pend' = Awaited(m)
    /\ asked' = IF m = "quiet" THEN asked ELSE m
    /\ UNCHANGED <<heard, hostConn, hostNoAck, outDone, armed, received, temp,
                   inEp, sent, cmdVars, srvVars, rspVars>>

HostBreaks ==
    /\ Len(wire) < MaxWire
    /\ wire' = Append(wire, "break")
    /\ UNCHANGED <<hostVars, outDone, armed, received, temp, inEp, sent,
                   cmdVars, srvVars, rspVars>>

\* cdc_acm_data_out_handler: a packet of the first message has arrived in the
\* buffer the endpoint was armed with.
UsbOut ==
    /\ armed
    /\ wire # <<>>
    /\ \E last \in BOOLEAN :
        /\ outDone + 1 = MaxPackets \/ Head(wire) = "break" => last
        /\ temp' = [msg |-> Head(wire), last |-> last]
        /\ wire' = IF last THEN Tail(wire) ELSE wire
        /\ outDone' = IF last THEN 0 ELSE outDone + 1
    /\ armed' = FALSE
    /\ received' = TRUE
    /\ UNCHANGED <<hostVars, inEp, sent, cmdVars, srvVars, rspVars>>

\* cdc_acm_data_in_handler: the host has taken a packet out of rsp_buffer.
\* With the last one the host has its whole answer.
UsbIn ==
    /\ inEp
    /\ inEp' = FALSE
    /\ sent' = TRUE
    /\ IF left > 0
       THEN /\ heard' = heard \cup {rspBuf}
            /\ UNCHANGED <<pend, hostConn, hostNoAck>>
       ELSE /\ heard' = {}
            /\ pend' = "none"
            /\ hostConn' = (asked = "connect" \/ (asked # "kill" /\ hostConn))
            /\ hostNoAck' = (asked = "noack" \/ (asked # "connect" /\ hostNoAck))
    /\ UNCHANGED <<asked, wire, outDone, armed, received, temp,
                   cmdVars, srvVars, rspVars>>

-----------------------------------------------------------------------------
(* gdb_cmd_packet_vTask.                                                    *)

CmdArm ==
    /\ CmdRuns
    /\ cpc = "arm"
    /\ received' = FALSE
    /\ armed' = TRUE
    /\ cpc' = "wait"
    /\ UNCHANGED <<hostVars, wire, outDone, temp, inEp, sent, cmdBuf, cmdQ,
                   srvVars, rspVars>>

\* The packet is appended to cmd_buffer; the loop ends when '$' and '#' are in.
CmdParse ==
    /\ CmdRuns
    /\ cpc = "wait"
    /\ received
    /\ cmdBuf' = temp.msg
    /\ cpc' = IF temp.last THEN "send" ELSE "arm"
    /\ UNCHANGED <<hostVars, usbVars, cmdQ, srvVars, rspVars>>

CmdSend ==
    /\ CmdRuns
    /\ cpc = "send"
    /\ cmdQ = <<>>
    /\ cmdQ' = <<cmdBuf>>
    /\ cpc' = "arm"
    /\ UNCHANGED <<hostVars, usbVars, cmdBuf, srvVars, rspVars>>

-----------------------------------------------------------------------------
(* gdb_server_poll.                                                         *)

\* Commands that are answered and then have an effect of their own.
Effectful == {"connect", "kill", "noack"}

\* The handler has written reply m into rsp_buffer and is about to queue it.
Reply(m) == rspBuf' = m /\ doing' = m /\ spc' = "post"

\* The receive without a timeout, and the handler its first byte selects.  The
\* handlers of "cont" (c and s) resume the target and answer nothing; "quiet"
\* is a command no branch answers, and so is \x03 here.
SrvDispatch ==
    /\ spc = "recv"
    /\ ~Polling
    /\ cmdQ # <<>>
    /\ cmdQ' = <<>>
    /\ \/ /\ cmdBuf \in Asks \cup Effectful
          /\ Reply(cmdBuf)
          /\ UNCHANGED running
       \/ /\ cmdBuf = "reset"
          /\ spc' = "sleep"
          /\ UNCHANGED <<doing, running, rspBuf>>
       \/ /\ cmdBuf = "cont"
          /\ running' = TRUE
          /\ UNCHANGED <<spc, doing, rspBuf>>
       \/ /\ cmdBuf \in {"quiet", "break"}
          /\ UNCHANGED <<spc, doing, running, rspBuf>>
    /\ UNCHANGED <<hostVars, usbVars, cpc, cmdBuf, connected, noAck, rspQ, rspVars>>

\* rv_target_reset has slept its vTaskDelays; the reply follows.
SrvWake ==
    /\ spc = "sleep"
    /\ Reply("reset")
    /\ UNCHANGED <<hostVars, usbVars, cmdVars, connected, running, noAck, rspQ, rspVars>>

\* Mutant: after \x03 the server goes on polling the target.
SrvTakeRunningStays ==
    /\ spc = "recv"
    /\ Polling
    /\ cmdQ # <<>>
    /\ cmdQ' = <<>>
    /\ IF cmdBuf = "break" THEN Reply("T02") ELSE spc' = "check" /\ UNCHANGED <<doing, rspBuf>>
    /\ UNCHANGED <<hostVars, usbVars, cpc, cmdBuf, connected, running, noAck, rspQ, rspVars>>

\* Mutant: \x03 is dropped like any other command.
SrvTakeRunningDrops ==
    /\ spc = "recv"
    /\ Polling
    /\ cmdQ # <<>>
    /\ cmdQ' = <<>>
    /\ spc' = "check"
    /\ UNCHANGED <<hostVars, usbVars, cpc, cmdBuf, doing, connected, running, noAck,
                   rspBuf, rspQ, rspVars>>

\* The receive with a timeout returned a command: \x03 halts the target and
\* ends the polling, anything else is dropped.
SrvTakeRunning ==
    /\ spc = "recv"
    /\ Polling
    /\ cmdQ # <<>>
    /\ cmdQ' = <<>>
    /\ IF cmdBuf = "break"
       THEN running' = FALSE /\ Reply("T02")
       ELSE spc' = "check" /\ UNCHANGED <<doing, running, rspBuf>>
    /\ UNCHANGED <<hostVars, usbVars, cpc, cmdBuf, connected, noAck, rspQ, rspVars>>

\* The receive with a timeout returned nothing.
SrvTimeout ==
    /\ spc = "recv"
    /\ Polling
    /\ cmdQ = <<>>
    /\ spc' = "check"
    /\ UNCHANGED <<hostVars, usbVars, cmdVars, doing, connected, running, noAck,
                   rspBuf, rspQ, rspVars>>

\* rv_target_halt_check found the target halted ...
SrvHalted ==
    /\ spc = "check"
    /\ running' = FALSE
    /\ Reply("T05")
    /\ UNCHANGED <<hostVars, usbVars, cmdVars, connected, noAck, rspQ, rspVars>>

\* ... or still running.
SrvStillRuns ==
    /\ spc = "check"
    /\ spc' = "recv"
    /\ UNCHANGED <<hostVars, usbVars, cmdVars, doing, connected, running, noAck,
                   rspBuf, rspQ, rspVars>>

\* gdb_server_send_response: blocks while the queue of length one is full.
SrvPost ==
    /\ spc = "post"
    /\ rspQ = <<>>
    /\ rspQ' = <<doing>>
    /\ spc' = IF doing \in Effectful THEN "after" ELSE "recv"
    /\ UNCHANGED <<hostVars, usbVars, cmdVars, doing, connected, running, noAck,
                   rspBuf, rspVars>>

\* Mutant: a new connection inherits target_running and the mode of the last.
SrvAfterInherits ==
    /\ spc = "after"
    /\ spc' = "recv"
    /\ connected' = (doing = "connect" \/ (doing # "kill" /\ connected))
    /\ noAck' = (doing = "noack" \/ noAck)
    /\ running' \in IF doing = "kill" THEN {TRUE, running} ELSE {running}
    /\ UNCHANGED <<hostVars, usbVars, cmdVars, doing, rspBuf, rspQ, rspVars>>

\* What the handler does once its reply is queued: gdb_set_no_ack_mode(true),
\* gdb_server_connected, gdb_server_disconnected (which resumes the target
\* unless the line to it failed, and does not clear target_running).
SrvAfter ==
    /\ spc = "after"
    /\ spc' = "recv"
    /\ \/ /\ doing = "noack"
          /\ noAck' = TRUE
          /\ UNCHANGED <<connected, running>>
       \/ /\ doing = "connect"
          /\ connected' = TRUE
          /\ running' = FALSE
          /\ noAck' = FALSE
       \/ /\ doing = "kill"
          /\ connected' = FALSE
          /\ running' \in {TRUE, running}
          /\ UNCHANGED noAck
    /\ UNCHANGED <<hostVars, usbVars, cmdVars, doing, rspBuf, rspQ, rspVars>>

-----------------------------------------------------------------------------
(* gdb_rsp_packet_vTask.                                                    *)

RspTake ==
    /\ RspRuns
    /\ rpc = "recv"
    /\ rspQ # <<>>
    /\ rlabel' = Head(rspQ)
    /\ rspQ' = <<>>
    /\ rpc' = "frame"
    /\ UNCHANGED <<hostVars, usbVars, cmdVars, spc, doing, connected, running,
                   noAck, rspBuf, frameNoAck, left>>

\* Checksum and "#xx|" behind, "$" or "+$" in front, as no_ack_mode says now.
RspFrame ==
    /\ RspRuns
    /\ rpc = "frame"
    /\ frameNoAck' = noAck
    /\ left' \in 1 .. MaxPackets
    /\ rpc' = "send"
    /\ UNCHANGED <<hostVars, usbVars, cmdVars, srvVars, rlabel>>

RspSend ==
    /\ RspRuns
    /\ rpc = "send"
    /\ sent' = FALSE
    /\ inEp' = TRUE
    /\ left' = left - 1
    /\ rpc' = "wait"
    /\ UNCHANGED <<hostVars, wire, outDone, armed, received, temp, cmdVars,
                   srvVars, rlabel, frameNoAck>>

\* Mutant: the loop goes round once more when nothing is left.
RspWaitOnceMore ==
    /\ RspRuns
    /\ rpc = "wait"
    /\ sent
    /\ rpc' = IF left < 0 THEN "recv" ELSE "send"
    /\ UNCHANGED <<hostVars, usbVars, cmdVars, srvVars, rlabel, frameNoAck, left>>

\* The polling loop sees cdc0_packet_sent.
RspWait ==
    /\ RspRuns
    /\ rpc = "wait"
    /\ sent
    /\ rpc' = IF left = 0 THEN "recv" ELSE "send"
    /\ UNCHANGED <<hostVars, usbVars, cmdVars, srvVars, rlabel, frameNoAck, left>>

-----------------------------------------------------------------------------
HostNext == HostBreaks \/ \E m \in Commands : HostAsks(m)
CmdTask  == CmdArm \/ CmdParse \/ CmdSend
SrvTask  == \/ SrvDispatch \/ SrvTakeRunning \/ SrvTimeout
            \/ SrvHalted \/ SrvStillRuns \/ SrvPost \/ SrvAfter
RspTask  == RspTake \/ RspFrame \/ RspSend \/ RspWait

Next == HostNext \/ UsbOut \/ UsbIn \/ CmdTask \/ SrvTask \/ SrvWake \/ RspTask

\* The server is the highest task and a timed block ends, the reply task runs
\* whenever the server blocks; the command task gets the processor again and
\* again, but a tick may take it away, hence strong fairness.  The host takes
\* and delivers packets.  Nothing obliges it to ask.
Fairness ==
    /\ WF_vars(SrvTask) /\ WF_vars(SrvWake) /\ WF_vars(RspTask)
    /\ WF_vars(UsbIn) /\ WF_vars(UsbOut)
    /\ SF_vars(CmdTask)

Spec     == Init /\ [][Next]_vars
FairSpec == Spec /\ Fairness

-----------------------------------------------------------------------------
TypeOK ==
    /\ pend \in Waits
    /\ asked \in Commands \cup {"blank"}
    /\ heard \subseteq Commands \cup Stops \cup {"blank"}
    /\ hostConn \in BOOLEAN /\ hostNoAck \in BOOLEAN
    /\ wire \in Seq(Commands) /\ Len(wire) =< MaxWire
    /\ outDone \in 0 .. MaxPackets - 1
    /\ armed \in BOOLEAN /\ received \in BOOLEAN
    /\ temp \in [msg : Commands \cup {"blank"}, last : BOOLEAN]
    /\ inEp \in BOOLEAN /\ sent \in BOOLEAN
    /\ cpc \in {"arm", "wait", "send"}
    /\ cmdBuf \in Commands \cup {"blank"}
    /\ cmdQ \in Seq(Commands) /\ Len(cmdQ) =< 1
    /\ spc \in {"recv", "check", "sleep", "post", "after"}
    /\ doing \in Commands \cup Stops \cup {"blank"}
    /\ connected \in BOOLEAN /\ running \in BOOLEAN /\ noAck \in BOOLEAN
    /\ rspBuf \in Commands \cup Stops \cup {"blank"}
    /\ rspQ \in Seq(Commands \cup Stops) /\ Len(rspQ) =< 1
    /\ rpc \in {"recv", "frame", "send", "wait"}
    /\ rlabel \in Commands \cup Stops \cup {"blank"}
    /\ frameNoAck \in BOOLEAN
    /\ left \in 0 .. MaxPackets

\* A reply that is queued or being sent is still the one in rsp_buffer: the
\* server writes the next one only after the last packet is out.
RspIntact ==
    /\ rspQ # <<>> => rspBuf = Head(rspQ)
    /\ rpc # "recv" => rspBuf = rlabel

\* A command that is queued is still the one in cmd_buffer, although the task
\* that fills the buffer goes on collecting packets.
CmdIntact == cmdQ # <<>> => cmdBuf = Head(cmdQ)

\* Every frame carries the acknowledgement the mode of the session calls for
\* once its own command has taken effect: the OK to QStartNoAckMode is already
\* sent without '+', the answer to a new connection is sent with it.
AckModeOfReply ==
    rpc \in {"send", "wait"} =>
        frameNoAck = (rlabel = "noack" \/ (noAck /\ rlabel # "connect"))

\* Whenever the host waits for nothing, the probe's session is what the
\* answers told the host, and the server is not polling a running target.
SessionAgrees ==
    pend = "none" => /\ connected = hostConn
                     /\ noAck = hostNoAck
                     /\ ~Polling

\* The host only ever hears the answer to what it asked, whole: the reply to
\* the outstanding command, or one stop reply after a continue.
Expected == IF pend = "stop" THEN Stops ELSE {asked}
AnswerMatches ==
    [][UsbIn => pend # "none" /\ heard \subseteq {rspBuf} /\ rspBuf \in Expected]_vars

-----------------------------------------------------------------------------
(* The abstraction: what is left to do and which answer is on its way, read *)
(* off the places a message can be in.                                      *)

\* Messages of the host that no handler has taken yet.
Pipeline ==
    {wire[i] : i \in 1 .. Len(wire)}
        \cup (IF cpc = "wait" /\ received /\ temp.last THEN {temp.msg} ELSE {})
        \cup (IF cpc = "send" THEN {cmdBuf} ELSE {})
        \cup {cmdQ[i] : i \in 1 .. Len(cmdQ)}

\* The handler's reply is not queued yet, or its effect is still to come.
Handling == spc = "sleep" \/ (spc \in {"post", "after"} /\ doing \notin Stops)

Sending == rpc \in {"frame", "send"} \/ (rpc = "wait" /\ (inEp \/ left > 0))

Session == INSTANCE RemoteSession WITH
    todo   <- IF Handling \/ Pipeline \ {"quiet", "break"} # {} THEN asked ELSE "blank",
    answer <- IF Handling THEN "blank"
              ELSE IF spc = "post" \/ rspQ # <<>> \/ Sending THEN rspBuf ELSE "blank"

\* The tasks together implement the session: every command is carried out once
\* and answered by the reply rsp_buffer holds when its last packet leaves.
ImplementsSession == Session!Spec

\* Every command that wants a reply is answered.
AnswerArrives == pend = "reply" ~> pend = "none"

\* A \x03 sent behind a continue stops the target and brings a stop reply.
BreakStops ==
    (pend = "stop" /\ wire # <<>> /\ wire[Len(wire)] = "break") ~> pend = "none"
=============================================================================
