------------------------- MODULE GdbTransportProofs -------------------------
(***************************************************************************)
(* The safety of GdbTransport for every set of commands and every bound.   *)
(* No lock protects cmd_buffer and rsp_buffer: that they are intact rests  *)
(* on the priorities of the tasks and on the host asking one thing at a    *)
(* time, and the invariant IInv says how.  By it, GdbTransport implements  *)
(* RemoteSession.                                                          *)
(***************************************************************************)
EXTENDS GdbTransport, SequenceTheorems, TLAPS

Noise == {"quiet", "break"}     \* messages that want no answer

\* The probe owes the host an answer and no command is left to be carried out.
Owing == \/ spc \in {"sleep", "post", "after"}
         \/ Polling
         \/ rspQ # <<>>
         \/ Sending

\* A whole packet that ends a message lies in temp.
Arrived == cpc = "wait" /\ received /\ temp.last

\* Only \x03s are under way.
OnlyBreaks ==
    /\ \A i \in 1 .. Len(wire) : wire[i] = "break"
    /\ Arrived => temp.msg = "break"
    /\ cpc = "send" => cmdBuf = "break"
    /\ cmdQ # <<>> => cmdQ[1] = "break"

\* Local facts: what a program point says of the variables around it.
Local ==
    /\ armed => cpc = "wait" /\ ~received
    /\ cpc = "wait" /\ received => temp.msg \in Commands
    /\ cpc = "wait" /\ received /\ ~temp.last =>
           wire # <<>> /\ wire[1] = temp.msg /\ temp.msg # "break"
    /\ cpc = "send" => cmdBuf \in Commands
    /\ spc \in {"post", "after"} => doing \in Commands \cup Stops /\ rspBuf = doing
    /\ spc = "after" => doing \in Effectful /\ rspQ = <<doing>>
    /\ rpc = "send" => left > 0
    /\ inEp => rpc = "wait" /\ ~sent

\* The tasks keep out of each other's way.
Apart ==
    /\ spc \in {"sleep", "post", "check"} => ~RspReady
    /\ Polling => ~RspReady
    /\ Polling => spc \in {"recv", "check"}
    /\ spc = "check" => Polling
    /\ rspQ # <<>> => rpc = "recv"
    /\ cmdQ # <<>> => ~RspReady \/ cmdQ[1] = "break"
    /\ cmdQ # <<>> /\ cmdQ[1] # "break" => cpc = "arm" /\ spc = "recv"

\* One command at a time: behind one that wants an answer come only \x03s, and
\* while the probe owes an answer nothing else is under way.
OneAtATime ==
    /\ \A i \in 1 .. Len(wire) : wire[i] \notin Noise =>
           /\ pend # "none"
           /\ wire[i] = asked
           /\ \A j \in i + 1 .. Len(wire) : wire[j] = "break"
    /\ Arrived /\ temp.msg \notin Noise =>
           /\ pend # "none" /\ temp.msg = asked
           /\ \A i \in 1 .. Len(wire) : wire[i] = "break"
    /\ cpc = "send" /\ cmdBuf \notin Noise =>
           /\ pend # "none" /\ cmdBuf = asked
           /\ \A i \in 1 .. Len(wire) : wire[i] = "break"
    /\ cmdQ # <<>> /\ cmdQ[1] \notin Noise =>
           /\ pend # "none" /\ cmdQ[1] = asked
           /\ \A i \in 1 .. Len(wire) : wire[i] = "break"
    /\ spc = "sleep" => asked = "reset"
    /\ Owing => pend # "none" /\ OnlyBreaks

\* The invariant that is inductive.
IInv == TypeOK /\ Local /\ Apart /\ OneAtATime /\ RspIntact /\ CmdIntact

\* Reply l is the answer the host waits for.
Fits(l) == (pend = "reply" /\ l = asked) \/ (pend = "stop" /\ l \in Stops)

\* Whatever is on its way to the host is the answer it waits for, and what it
\* has heard of a frame came from that answer.
Answers ==
    /\ pend # "none" => pend = Awaited(asked)
    /\ Polling => pend = "stop"
    /\ spc \in {"post", "after"} => Fits(doing)
    /\ rspQ # <<>> => Fits(rspQ[1])
    /\ Sending => Fits(rlabel)
    /\ IF rpc \in {"send", "wait"} /\ Sending THEN heard \subseteq {rlabel} ELSE heard = {}

\* The command has had its effect on the session, the host does not know yet.
Applied == (rspQ # <<>> /\ spc # "after") \/ Sending

\* The session of the probe is the host's, but for a command that is Applied.
Effects ==
    /\ Applied =>
          /\ connected = (asked = "connect" \/ (asked # "kill" /\ hostConn))
          /\ noAck = (asked = "noack" \/ (asked # "connect" /\ hostNoAck))
    /\ ~Applied => connected = hostConn /\ noAck = hostNoAck

SInv == IInv /\ Answers /\ Effects /\ AckModeOfReply

-----------------------------------------------------------------------------
(* Types.                                                                   *)

\* TypeOK alone is not inductive: a reply is cut into packets only while some
\* are left, and what is queued was a message when it was put together.
TypeInv == TypeOK /\ Local

\* Every step keeps the variables in their types.
LEMMA TypeStep == ASSUME TypeInv, [Next]_vars PROVE TypeInv'
<1> USE AsksAssumption, BoundAssumption DEF TypeInv, Commands, Control, Stops,
        hostVars, usbVars, cmdVars, srvVars, rspVars
<1>1. ASSUME NEW m \in Commands, HostAsks(m) PROVE TypeInv'
  BY <1>1 DEF HostAsks, Awaited, Waits, TypeOK, Local
<1>2. CASE HostBreaks
  BY <1>2 DEF HostBreaks, TypeOK, Local
<1>3. CASE UsbOut
  <2>1. armed' \in BOOLEAN /\ received' \in BOOLEAN
    BY <1>3, Zenon DEF UsbOut
  <2>2. TypeOK'
    BY <1>3, <2>1 DEF UsbOut, TypeOK, Local
  <2>3. Local'
    BY <1>3, <2>2 DEF UsbOut, TypeOK, Local
  <2> QED
    BY <2>2, <2>3
<1>4. CASE UsbIn
  <2>1. inEp' \in BOOLEAN /\ sent' \in BOOLEAN /\ hostConn' \in BOOLEAN /\ hostNoAck' \in BOOLEAN
    BY <1>4, Zenon DEF UsbIn, TypeOK
  <2>2. TypeOK'
    BY <1>4, <2>1 DEF UsbIn, Waits, TypeOK, Local
  <2>3. Local'
    BY <1>4, <2>2 DEF UsbIn, Waits, TypeOK, Local
  <2> QED
    BY <2>2, <2>3
<1>5. CASE CmdArm
  <2>1. armed' \in BOOLEAN /\ received' \in BOOLEAN
    BY <1>5, Zenon DEF CmdArm, TypeOK
  <2>2. TypeOK'
    BY <1>5, <2>1 DEF CmdArm, CmdRuns, TypeOK, Local
  <2>3. Local'
    BY <1>5, <2>2 DEF CmdArm, CmdRuns, TypeOK, Local
  <2> QED
    BY <2>2, <2>3
<1>6. CASE CmdParse
  BY <1>6 DEF CmdParse, CmdRuns, TypeOK, Local
<1>7. CASE CmdSend
  BY <1>7 DEF CmdSend, CmdRuns, TypeOK, Local
<1>8. CASE SrvDispatch
  <2>1. running' \in BOOLEAN
    BY <1>8, Zenon DEF SrvDispatch, TypeOK
  <2>2. TypeOK'
    BY <1>8, <2>1 DEF SrvDispatch, Reply, Effectful, Polling, TypeOK, Local
  <2>3. Local'
    BY <1>8, <2>2 DEF SrvDispatch, Reply, Effectful, Polling, TypeOK, Local
  <2> QED
    BY <2>2, <2>3
<1>9. CASE SrvTakeRunning
  <2>1. running' \in BOOLEAN
    BY <1>9, Zenon DEF SrvTakeRunning, TypeOK
  <2>2. TypeOK'
    BY <1>9, <2>1 DEF SrvTakeRunning, Reply, TypeOK, Local
  <2>3. Local'
    BY <1>9, <2>2 DEF SrvTakeRunning, Reply, TypeOK, Local
  <2> QED
    BY <2>2, <2>3
<1>10. CASE SrvTimeout
  BY <1>10 DEF SrvTimeout, TypeOK, Local
<1>11. CASE SrvHalted
  <2>1. running' \in BOOLEAN
    BY <1>11, Zenon DEF SrvHalted, TypeOK
  <2>2. TypeOK'
    BY <1>11, <2>1 DEF SrvHalted, Reply, TypeOK, Local
  <2>3. Local'
    BY <1>11, <2>2 DEF SrvHalted, Reply, TypeOK, Local
  <2> QED
    BY <2>2, <2>3
<1>12. CASE SrvStillRuns
  BY <1>12 DEF SrvStillRuns, TypeOK, Local
<1>13. CASE SrvPost
  BY <1>13 DEF SrvPost, Effectful, TypeOK, Local
<1>14. CASE SrvAfter
  <2>1. connected' \in BOOLEAN /\ running' \in BOOLEAN /\ noAck' \in BOOLEAN
    BY <1>14, Zenon DEF SrvAfter, TypeOK
  <2>2. TypeOK'
    BY <1>14, <2>1 DEF SrvAfter, Effectful, TypeOK, Local
  <2>3. Local'
    BY <1>14, <2>2 DEF SrvAfter, Effectful, TypeOK, Local
  <2> QED
    BY <2>2, <2>3
<1>15. CASE SrvWake
  BY <1>15 DEF SrvWake, Reply, TypeOK, Local
<1>16. CASE RspTake
  BY <1>16 DEF RspTake, RspRuns, SrvReady, TypeOK, Local
<1>17. CASE RspFrame
  BY <1>17 DEF RspFrame, RspRuns, SrvReady, TypeOK, Local
<1>18. CASE RspSend
  <2>1. inEp' \in BOOLEAN /\ sent' \in BOOLEAN
    BY <1>18, Zenon DEF RspSend, TypeOK
  <2>2. TypeOK'
    BY <1>18, <2>1 DEF RspSend, RspRuns, SrvReady, TypeOK, Local
  <2>3. Local'
    BY <1>18, <2>2 DEF RspSend, RspRuns, SrvReady, TypeOK, Local
  <2> QED
    BY <2>2, <2>3
<1>19. CASE RspWait
  BY <1>19 DEF RspWait, RspRuns, SrvReady, TypeOK, Local
<1>20. CASE UNCHANGED vars
  BY <1>20 DEF vars, TypeOK, Local
<1> QED
  BY <1>1, <1>2, <1>3, <1>4, <1>5, <1>6, <1>7, <1>8, <1>9, <1>10, <1>11, <1>12, <1>13, <1>14, <1>15, <1>16, <1>17, <1>18, <1>19, <1>20 DEF Next, HostNext, CmdTask, SrvTask, RspTask

\* The initial values are of their types.
LEMMA TypeInitially == Init => TypeInv
<1> SUFFICES ASSUME Init PROVE TypeInv
  OBVIOUS
<1>1. /\ hostConn \in BOOLEAN /\ hostNoAck \in BOOLEAN /\ armed \in BOOLEAN
    /\ received \in BOOLEAN /\ inEp \in BOOLEAN /\ sent \in BOOLEAN
    /\ connected \in BOOLEAN /\ running \in BOOLEAN /\ noAck \in BOOLEAN
    /\ frameNoAck \in BOOLEAN
  BY Zenon DEF Init
<1>2. temp \in [msg : Commands \cup {"blank"}, last : BOOLEAN]
  BY DEF Init
<1> QED
  BY <1>1, <1>2, BoundAssumption DEF Init, TypeInv, TypeOK, Local, Waits

\* Every variable keeps its type.
THEOREM TypeCorrect == Spec => []TypeOK
<1>1. Init => TypeInv
  BY TypeInitially
<1>2. TypeInv /\ [Next]_vars => TypeInv'
  BY TypeStep
<1>3. TypeInv => TypeOK
  BY DEF TypeInv
<1> QED
  BY <1>1, <1>2, <1>3, PTL DEF Spec

-----------------------------------------------------------------------------
(* The buffers.                                                             *)

\* Every step keeps the invariant.
LEMMA InvStep == ASSUME IInv, [Next]_vars PROVE IInv'
<1> USE AsksAssumption, BoundAssumption DEF Commands, Control, Stops,
        hostVars, usbVars, cmdVars, srvVars, rspVars
<1>0. TypeOK' /\ Local'
  BY TypeStep DEF IInv, TypeInv
<1>1. ASSUME NEW m \in Commands, HostAsks(m) PROVE Apart' /\ OneAtATime' /\ RspIntact' /\ CmdIntact'
  <2>1. Apart'
    BY <1>0, <1>1 DEF HostAsks, Awaited, Waits, IInv, TypeOK, Local, Apart, OneAtATime, OnlyBreaks, Owing, Arrived, Noise, Sending, Polling, RspReady, SrvReady, RspRuns, CmdRuns, RspIntact, CmdIntact
  <2>2. OneAtATime'
    BY <1>0, <1>1 DEF HostAsks, Awaited, Waits, IInv, TypeOK, Local, Apart, OneAtATime, OnlyBreaks, Owing, Arrived, Noise, Sending, Polling, RspReady, SrvReady, RspRuns, CmdRuns, RspIntact, CmdIntact
  <2>3. RspIntact' /\ CmdIntact'
    BY <1>0, <1>1 DEF HostAsks, Awaited, Waits, IInv, TypeOK, Local, Apart, OneAtATime, OnlyBreaks, Owing, Arrived, Noise, Sending, Polling, RspReady, SrvReady, RspRuns, CmdRuns, RspIntact, CmdIntact
  <2> QED
    BY <1>0, <2>1, <2>2, <2>3 DEF IInv
<1>2. CASE HostBreaks
  <2>1. Apart'
    BY <1>0, <1>2 DEF HostBreaks, IInv, TypeOK, Local, Apart, OneAtATime, OnlyBreaks, Owing, Arrived, Noise, Sending, Polling, RspReady, SrvReady, RspRuns, CmdRuns, RspIntact, CmdIntact
  <2>2. OneAtATime'
    BY <1>0, <1>2, SMTT(30) DEF HostBreaks, IInv, TypeOK, Local, Apart, OneAtATime, OnlyBreaks, Owing, Arrived, Noise, Sending, Polling, RspReady, SrvReady, RspRuns, CmdRuns, RspIntact, CmdIntact
  <2>3. RspIntact' /\ CmdIntact'
    BY <1>0, <1>2 DEF HostBreaks, IInv, TypeOK, Local, Apart, OneAtATime, OnlyBreaks, Owing, Arrived, Noise, Sending, Polling, RspReady, SrvReady, RspRuns, CmdRuns, RspIntact, CmdIntact
  <2> QED
    BY <1>0, <2>1, <2>2, <2>3 DEF IInv
<1>3. CASE UsbOut
  <2>1. Apart'
    BY <1>0, <1>3 DEF UsbOut, IInv, TypeOK, Local, Apart, OneAtATime, OnlyBreaks, Owing, Arrived, Noise, Sending, Polling, RspReady, SrvReady, RspRuns, CmdRuns, RspIntact, CmdIntact
  <2>2. OneAtATime'
    BY <1>0, <1>3 DEF UsbOut, IInv, TypeOK, Local, Apart, OneAtATime, OnlyBreaks, Owing, Arrived, Noise, Sending, Polling, RspReady, SrvReady, RspRuns, CmdRuns, RspIntact, CmdIntact
  <2>3. RspIntact' /\ CmdIntact'
    BY <1>0, <1>3 DEF UsbOut, IInv, TypeOK, Local, Apart, OneAtATime, OnlyBreaks, Owing, Arrived, Noise, Sending, Polling, RspReady, SrvReady, RspRuns, CmdRuns, RspIntact, CmdIntact
  <2> QED
    BY <1>0, <2>1, <2>2, <2>3 DEF IInv
<1>4. CASE UsbIn
  <2>1. Apart'
    BY <1>0, <1>4 DEF UsbIn, IInv, TypeOK, Local, Apart, OneAtATime, OnlyBreaks, Owing, Arrived, Noise, Sending, Polling, RspReady, SrvReady, RspRuns, CmdRuns, RspIntact, CmdIntact
  <2>2. OneAtATime'
    <3>1. rpc = "wait" /\ Sending /\ spc \notin {"sleep", "post", "after"} /\ ~Polling /\ rspQ = <<>>
      BY <1>4 DEF UsbIn, IInv, TypeOK, Local, Apart, Sending, RspReady
    <3>2. OnlyBreaks /\ OnlyBreaks'
      BY <1>4, <3>1 DEF UsbIn, IInv, OneAtATime, Owing, OnlyBreaks, Arrived
    <3>3. Owing' => left > 0
      BY <1>0, <1>4, <3>1 DEF UsbIn, Owing, Sending, Polling, TypeOK
    <3>4. Owing' => pend' # "none"
      BY <1>4, <3>1, <3>3 DEF UsbIn, IInv, OneAtATime, Owing
    <3> QED
      BY <1>4, <3>1, <3>2, <3>4 DEF UsbIn, IInv, OneAtATime, OnlyBreaks, Arrived, Noise, TypeOK
  <2>3. RspIntact' /\ CmdIntact'
    BY <1>0, <1>4 DEF UsbIn, IInv, TypeOK, Local, Apart, OneAtATime, OnlyBreaks, Owing, Arrived, Noise, Sending, Polling, RspReady, SrvReady, RspRuns, CmdRuns, RspIntact, CmdIntact
  <2> QED
    BY <1>0, <2>1, <2>2, <2>3 DEF IInv
<1>5. CASE CmdArm
  <2>1. Apart'
    BY <1>0, <1>5 DEF CmdArm, IInv, TypeOK, Local, Apart, OneAtATime, OnlyBreaks, Owing, Arrived, Noise, Sending, Polling, RspReady, SrvReady, RspRuns, CmdRuns, RspIntact, CmdIntact
  <2>2. OneAtATime'
    BY <1>0, <1>5 DEF CmdArm, IInv, TypeOK, Local, Apart, OneAtATime, OnlyBreaks, Owing, Arrived, Noise, Sending, Polling, RspReady, SrvReady, RspRuns, CmdRuns, RspIntact, CmdIntact
  <2>3. RspIntact' /\ CmdIntact'
    BY <1>0, <1>5 DEF CmdArm, IInv, TypeOK, Local, Apart, OneAtATime, OnlyBreaks, Owing, Arrived, Noise, Sending, Polling, RspReady, SrvReady, RspRuns, CmdRuns, RspIntact, CmdIntact
  <2> QED
    BY <1>0, <2>1, <2>2, <2>3 DEF IInv
<1>6. CASE CmdParse
  <2>1. Apart'
    BY <1>0, <1>6 DEF CmdParse, IInv, TypeOK, Local, Apart, OneAtATime, OnlyBreaks, Owing, Arrived, Noise, Sending, Polling, RspReady, SrvReady, RspRuns, CmdRuns, RspIntact, CmdIntact
  <2>2. OneAtATime'
    BY <1>0, <1>6 DEF CmdParse, IInv, TypeOK, Local, Apart, OneAtATime, OnlyBreaks, Owing, Arrived, Noise, Sending, Polling, RspReady, SrvReady, RspRuns, CmdRuns, RspIntact, CmdIntact
  <2>3. RspIntact' /\ CmdIntact'
    BY <1>0, <1>6 DEF CmdParse, IInv, TypeOK, Local, Apart, OneAtATime, OnlyBreaks, Owing, Arrived, Noise, Sending, Polling, RspReady, SrvReady, RspRuns, CmdRuns, RspIntact, CmdIntact
  <2> QED
    BY <1>0, <2>1, <2>2, <2>3 DEF IInv
<1>7. CASE CmdSend
  <2>1. Apart'
    BY <1>0, <1>7 DEF CmdSend, IInv, TypeOK, Local, Apart, OneAtATime, OnlyBreaks, Owing, Arrived, Noise, Sending, Polling, RspReady, SrvReady, RspRuns, CmdRuns, RspIntact, CmdIntact
  <2>2. OneAtATime'
    BY <1>0, <1>7 DEF CmdSend, IInv, TypeOK, Local, Apart, OneAtATime, OnlyBreaks, Owing, Arrived, Noise, Sending, Polling, RspReady, SrvReady, RspRuns, CmdRuns, RspIntact, CmdIntact
  <2>3. RspIntact' /\ CmdIntact'
    BY <1>0, <1>7 DEF CmdSend, IInv, TypeOK, Local, Apart, OneAtATime, OnlyBreaks, Owing, Arrived, Noise, Sending, Polling, RspReady, SrvReady, RspRuns, CmdRuns, RspIntact, CmdIntact
  <2> QED
    BY <1>0, <2>1, <2>2, <2>3 DEF IInv
<1>8. CASE SrvDispatch
  <2>1. Apart'
    BY <1>0, <1>8 DEF SrvDispatch, Reply, Effectful, IInv, TypeOK, Local, Apart, OneAtATime, OnlyBreaks, Owing, Arrived, Noise, Sending, Polling, RspReady, SrvReady, RspRuns, CmdRuns, RspIntact, CmdIntact
  <2>2. OneAtATime'
    BY <1>0, <1>8 DEF SrvDispatch, Reply, Effectful, IInv, TypeOK, Local, Apart, OneAtATime, OnlyBreaks, Owing, Arrived, Noise, Sending, Polling, RspReady, SrvReady, RspRuns, CmdRuns, RspIntact, CmdIntact
  <2>3. RspIntact' /\ CmdIntact'
    BY <1>0, <1>8 DEF SrvDispatch, Reply, Effectful, IInv, TypeOK, Local, Apart, OneAtATime, OnlyBreaks, Owing, Arrived, Noise, Sending, Polling, RspReady, SrvReady, RspRuns, CmdRuns, RspIntact, CmdIntact
  <2> QED
    BY <1>0, <2>1, <2>2, <2>3 DEF IInv
<1>9. CASE SrvTakeRunning
  <2>1. Apart'
    BY <1>0, <1>9 DEF SrvTakeRunning, Reply, IInv, TypeOK, Local, Apart, OneAtATime, OnlyBreaks, Owing, Arrived, Noise, Sending, Polling, RspReady, SrvReady, RspRuns, CmdRuns, RspIntact, CmdIntact
  <2>2. OneAtATime'
    BY <1>0, <1>9 DEF SrvTakeRunning, Reply, IInv, TypeOK, Local, Apart, OneAtATime, OnlyBreaks, Owing, Arrived, Noise, Sending, Polling, RspReady, SrvReady, RspRuns, CmdRuns, RspIntact, CmdIntact
  <2>3. RspIntact' /\ CmdIntact'
    BY <1>0, <1>9 DEF SrvTakeRunning, Reply, IInv, TypeOK, Local, Apart, OneAtATime, OnlyBreaks, Owing, Arrived, Noise, Sending, Polling, RspReady, SrvReady, RspRuns, CmdRuns, RspIntact, CmdIntact
  <2> QED
    BY <1>0, <2>1, <2>2, <2>3 DEF IInv
<1>10. CASE SrvTimeout
  <2>1. Apart'
    BY <1>0, <1>10 DEF SrvTimeout, IInv, TypeOK, Local, Apart, OneAtATime, OnlyBreaks, Owing, Arrived, Noise, Sending, Polling, RspReady, SrvReady, RspRuns, CmdRuns, RspIntact, CmdIntact
  <2>2. OneAtATime'
    BY <1>0, <1>10 DEF SrvTimeout, IInv, TypeOK, Local, Apart, OneAtATime, OnlyBreaks, Owing, Arrived, Noise, Sending, Polling, RspReady, SrvReady, RspRuns, CmdRuns, RspIntact, CmdIntact
  <2>3. RspIntact' /\ CmdIntact'
    BY <1>0, <1>10 DEF SrvTimeout, IInv, TypeOK, Local, Apart, OneAtATime, OnlyBreaks, Owing, Arrived, Noise, Sending, Polling, RspReady, SrvReady, RspRuns, CmdRuns, RspIntact, CmdIntact
  <2> QED
    BY <1>0, <2>1, <2>2, <2>3 DEF IInv
<1>11. CASE SrvHalted
  <2>1. Apart'
    BY <1>0, <1>11 DEF SrvHalted, Reply, IInv, TypeOK, Local, Apart, OneAtATime, OnlyBreaks, Owing, Arrived, Noise, Sending, Polling, RspReady, SrvReady, RspRuns, CmdRuns, RspIntact, CmdIntact
  <2>2. OneAtATime'
    BY <1>0, <1>11 DEF SrvHalted, Reply, IInv, TypeOK, Local, Apart, OneAtATime, OnlyBreaks, Owing, Arrived, Noise, Sending, Polling, RspReady, SrvReady, RspRuns, CmdRuns, RspIntact, CmdIntact
  <2>3. RspIntact' /\ CmdIntact'
    BY <1>0, <1>11 DEF SrvHalted, Reply, IInv, TypeOK, Local, Apart, OneAtATime, OnlyBreaks, Owing, Arrived, Noise, Sending, Polling, RspReady, SrvReady, RspRuns, CmdRuns, RspIntact, CmdIntact
  <2> QED
    BY <1>0, <2>1, <2>2, <2>3 DEF IInv
<1>12. CASE SrvStillRuns
  <2>1. Apart'
    BY <1>0, <1>12 DEF SrvStillRuns, IInv, TypeOK, Local, Apart, OneAtATime, OnlyBreaks, Owing, Arrived, Noise, Sending, Polling, RspReady, SrvReady, RspRuns, CmdRuns, RspIntact, CmdIntact
  <2>2. OneAtATime'
    BY <1>0, <1>12 DEF SrvStillRuns, IInv, TypeOK, Local, Apart, OneAtATime, OnlyBreaks, Owing, Arrived, Noise, Sending, Polling, RspReady, SrvReady, RspRuns, CmdRuns, RspIntact, CmdIntact
  <2>3. RspIntact' /\ CmdIntact'
    BY <1>0, <1>12 DEF SrvStillRuns, IInv, TypeOK, Local, Apart, OneAtATime, OnlyBreaks, Owing, Arrived, Noise, Sending, Polling, RspReady, SrvReady, RspRuns, CmdRuns, RspIntact, CmdIntact
  <2> QED
    BY <1>0, <2>1, <2>2, <2>3 DEF IInv
<1>13. CASE SrvPost
  <2>1. Apart'
    BY <1>0, <1>13 DEF SrvPost, Effectful, IInv, TypeOK, Local, Apart, OneAtATime, OnlyBreaks, Owing, Arrived, Noise, Sending, Polling, RspReady, SrvReady, RspRuns, CmdRuns, RspIntact, CmdIntact
  <2>2. OneAtATime'
    BY <1>0, <1>13 DEF SrvPost, Effectful, IInv, TypeOK, Local, Apart, OneAtATime, OnlyBreaks, Owing, Arrived, Noise, Sending, Polling, RspReady, SrvReady, RspRuns, CmdRuns, RspIntact, CmdIntact
  <2>3. RspIntact' /\ CmdIntact'
    BY <1>0, <1>13 DEF SrvPost, Effectful, IInv, TypeOK, Local, Apart, OneAtATime, OnlyBreaks, Owing, Arrived, Noise, Sending, Polling, RspReady, SrvReady, RspRuns, CmdRuns, RspIntact, CmdIntact
  <2> QED
    BY <1>0, <2>1, <2>2, <2>3 DEF IInv
<1>14. CASE SrvAfter
  <2>1. Apart'
    BY <1>0, <1>14 DEF SrvAfter, Effectful, IInv, TypeOK, Local, Apart, OneAtATime, OnlyBreaks, Owing, Arrived, Noise, Sending, Polling, RspReady, SrvReady, RspRuns, CmdRuns, RspIntact, CmdIntact
  <2>2. OneAtATime'
    BY <1>0, <1>14 DEF SrvAfter, Effectful, IInv, TypeOK, Local, Apart, OneAtATime, OnlyBreaks, Owing, Arrived, Noise, Sending, Polling, RspReady, SrvReady, RspRuns, CmdRuns, RspIntact, CmdIntact
  <2>3. RspIntact' /\ CmdIntact'
    BY <1>0, <1>14 DEF SrvAfter, Effectful, IInv, TypeOK, Local, Apart, OneAtATime, OnlyBreaks, Owing, Arrived, Noise, Sending, Polling, RspReady, SrvReady, RspRuns, CmdRuns, RspIntact, CmdIntact
  <2> QED
    BY <1>0, <2>1, <2>2, <2>3 DEF IInv
<1>15. CASE SrvWake
  <2>1. Apart'
    BY <1>0, <1>15 DEF SrvWake, Reply, IInv, TypeOK, Local, Apart, OneAtATime, OnlyBreaks, Owing, Arrived, Noise, Sending, Polling, RspReady, SrvReady, RspRuns, CmdRuns, RspIntact, CmdIntact
  <2>2. OneAtATime'
    BY <1>0, <1>15 DEF SrvWake, Reply, IInv, TypeOK, Local, Apart, OneAtATime, OnlyBreaks, Owing, Arrived, Noise, Sending, Polling, RspReady, SrvReady, RspRuns, CmdRuns, RspIntact, CmdIntact
  <2>3. RspIntact' /\ CmdIntact'
    BY <1>0, <1>15 DEF SrvWake, Reply, IInv, TypeOK, Local, Apart, OneAtATime, OnlyBreaks, Owing, Arrived, Noise, Sending, Polling, RspReady, SrvReady, RspRuns, CmdRuns, RspIntact, CmdIntact
  <2> QED
    BY <1>0, <2>1, <2>2, <2>3 DEF IInv
<1>16. CASE RspTake
  <2>1. Apart'
    BY <1>0, <1>16 DEF RspTake, IInv, TypeOK, Local, Apart, OneAtATime, OnlyBreaks, Owing, Arrived, Noise, Sending, Polling, RspReady, SrvReady, RspRuns, CmdRuns, RspIntact, CmdIntact
  <2>2. OneAtATime'
    BY <1>0, <1>16 DEF RspTake, IInv, TypeOK, Local, Apart, OneAtATime, OnlyBreaks, Owing, Arrived, Noise, Sending, Polling, RspReady, SrvReady, RspRuns, CmdRuns, RspIntact, CmdIntact
  <2>3. RspIntact' /\ CmdIntact'
    BY <1>0, <1>16 DEF RspTake, IInv, TypeOK, Local, Apart, OneAtATime, OnlyBreaks, Owing, Arrived, Noise, Sending, Polling, RspReady, SrvReady, RspRuns, CmdRuns, RspIntact, CmdIntact
  <2> QED
    BY <1>0, <2>1, <2>2, <2>3 DEF IInv
<1>17. CASE RspFrame
  <2>1. Apart'
    BY <1>0, <1>17 DEF RspFrame, IInv, TypeOK, Local, Apart, OneAtATime, OnlyBreaks, Owing, Arrived, Noise, Sending, Polling, RspReady, SrvReady, RspRuns, CmdRuns, RspIntact, CmdIntact
  <2>2. OneAtATime'
    BY <1>0, <1>17 DEF RspFrame, IInv, TypeOK, Local, Apart, OneAtATime, OnlyBreaks, Owing, Arrived, Noise, Sending, Polling, RspReady, SrvReady, RspRuns, CmdRuns, RspIntact, CmdIntact
  <2>3. RspIntact' /\ CmdIntact'
    BY <1>0, <1>17 DEF RspFrame, IInv, TypeOK, Local, Apart, OneAtATime, OnlyBreaks, Owing, Arrived, Noise, Sending, Polling, RspReady, SrvReady, RspRuns, CmdRuns, RspIntact, CmdIntact
  <2> QED
    BY <1>0, <2>1, <2>2, <2>3 DEF IInv
<1>18. CASE RspSend
  <2>1. Apart'
    BY <1>0, <1>18 DEF RspSend, IInv, TypeOK, Local, Apart, OneAtATime, OnlyBreaks, Owing, Arrived, Noise, Sending, Polling, RspReady, SrvReady, RspRuns, CmdRuns, RspIntact, CmdIntact
  <2>2. OneAtATime'
    BY <1>0, <1>18 DEF RspSend, IInv, TypeOK, Local, Apart, OneAtATime, OnlyBreaks, Owing, Arrived, Noise, Sending, Polling, RspReady, SrvReady, RspRuns, CmdRuns, RspIntact, CmdIntact
  <2>3. RspIntact' /\ CmdIntact'
    BY <1>0, <1>18 DEF RspSend, IInv, TypeOK, Local, Apart, OneAtATime, OnlyBreaks, Owing, Arrived, Noise, Sending, Polling, RspReady, SrvReady, RspRuns, CmdRuns, RspIntact, CmdIntact
  <2> QED
    BY <1>0, <2>1, <2>2, <2>3 DEF IInv
<1>19. CASE RspWait
  <2>1. Apart'
    BY <1>0, <1>19 DEF RspWait, IInv, TypeOK, Local, Apart, OneAtATime, OnlyBreaks, Owing, Arrived, Noise, Sending, Polling, RspReady, SrvReady, RspRuns, CmdRuns, RspIntact, CmdIntact
  <2>2. OneAtATime'
    BY <1>0, <1>19 DEF RspWait, IInv, TypeOK, Local, Apart, OneAtATime, OnlyBreaks, Owing, Arrived, Noise, Sending, Polling, RspReady, SrvReady, RspRuns, CmdRuns, RspIntact, CmdIntact
  <2>3. RspIntact' /\ CmdIntact'
    BY <1>0, <1>19 DEF RspWait, IInv, TypeOK, Local, Apart, OneAtATime, OnlyBreaks, Owing, Arrived, Noise, Sending, Polling, RspReady, SrvReady, RspRuns, CmdRuns, RspIntact, CmdIntact
  <2> QED
    BY <1>0, <2>1, <2>2, <2>3 DEF IInv
<1>20. CASE UNCHANGED vars
  <2>1. Apart'
    BY <1>0, <1>20 DEF vars, IInv, TypeOK, Local, Apart, OneAtATime, OnlyBreaks, Owing, Arrived, Noise, Sending, Polling, RspReady, SrvReady, RspRuns, CmdRuns, RspIntact, CmdIntact
  <2>2. OneAtATime'
    BY <1>0, <1>20 DEF vars, IInv, TypeOK, Local, Apart, OneAtATime, OnlyBreaks, Owing, Arrived, Noise, Sending, Polling, RspReady, SrvReady, RspRuns, CmdRuns, RspIntact, CmdIntact
  <2>3. RspIntact' /\ CmdIntact'
    BY <1>0, <1>20 DEF vars, IInv, TypeOK, Local, Apart, OneAtATime, OnlyBreaks, Owing, Arrived, Noise, Sending, Polling, RspReady, SrvReady, RspRuns, CmdRuns, RspIntact, CmdIntact
  <2> QED
    BY <1>0, <2>1, <2>2, <2>3 DEF IInv
<1> QED
  BY <1>0, <1>1, <1>2, <1>3, <1>4, <1>5, <1>6, <1>7, <1>8, <1>9, <1>10, <1>11, <1>12, <1>13, <1>14, <1>15, <1>16, <1>17, <1>18, <1>19, <1>20 DEF Next, HostNext, CmdTask, SrvTask, RspTask, IInv

\* The invariant holds initially.
LEMMA InvInit == Init => IInv
<1> SUFFICES ASSUME Init PROVE IInv
  OBVIOUS
<1>1. TypeInv
  BY TypeInitially
<1> QED
  BY <1>1 DEF Init, IInv, TypeInv, Apart, OneAtATime, OnlyBreaks, Owing, Arrived, Sending,
     Polling, RspReady, RspIntact, CmdIntact

\* The invariant that keeps the tasks apart holds of every behaviour.
THEOREM Invariant == Spec => []IInv
<1>1. IInv /\ [Next]_vars => IInv'
  BY InvStep
<1> QED
  BY InvInit, <1>1, PTL DEF Spec

\* A reply that is queued or being sent is the one in rsp_buffer.
THEOREM ReplyIntact == Spec => []RspIntact
<1>1. IInv => RspIntact
  BY DEF IInv
<1> QED
  BY Invariant, <1>1, PTL

\* A queued command is the one in cmd_buffer.
THEOREM CommandIntact == Spec => []CmdIntact
<1>1. IInv => CmdIntact
  BY DEF IInv
<1> QED
  BY Invariant, <1>1, PTL

-----------------------------------------------------------------------------
(* The session.                                                             *)

\* Every step keeps the host's view and the probe's session in agreement.
LEMMA SessionStep == ASSUME SInv, [Next]_vars PROVE SInv'
<1> USE AsksAssumption, BoundAssumption DEF Commands, Control, Stops,
        hostVars, usbVars, cmdVars, srvVars, rspVars
<1>0. IInv'
  BY InvStep DEF SInv
<1>1. ASSUME NEW m \in Commands, HostAsks(m) PROVE Answers' /\ Effects' /\ AckModeOfReply'
  <2>1. Answers'
    BY <1>0, <1>1 DEF HostAsks, SInv, IInv, TypeOK, Local, Apart, OneAtATime, Owing, Noise, Sending, Polling, RspReady, RspIntact, CmdIntact, Answers, Fits, Awaited
  <2>2. Effects' /\ AckModeOfReply'
    BY <1>1 DEF HostAsks, SInv, IInv, TypeOK, Local, Apart, OneAtATime, Owing, Noise, Sending, Polling, RspReady, CmdIntact, Answers, Fits, Awaited, Applied, Effects, AckModeOfReply
  <2> QED
    BY <1>0, <2>1, <2>2 DEF SInv
<1>2. CASE HostBreaks
  <2>1. Answers'
    BY <1>0, <1>2 DEF HostBreaks, SInv, IInv, TypeOK, Local, Apart, OneAtATime, Owing, Noise, Sending, Polling, RspReady, RspIntact, CmdIntact, Answers, Fits, Awaited
  <2>2. Effects' /\ AckModeOfReply'
    BY <1>2 DEF HostBreaks, SInv, IInv, TypeOK, Local, Apart, OneAtATime, Owing, Noise, Sending, Polling, RspReady, CmdIntact, Answers, Fits, Awaited, Applied, Effects, AckModeOfReply
  <2> QED
    BY <1>0, <2>1, <2>2 DEF SInv
<1>3. CASE UsbOut
  <2>1. Answers'
    BY <1>0, <1>3 DEF UsbOut, SInv, IInv, TypeOK, Local, Apart, OneAtATime, Owing, Noise, Sending, Polling, RspReady, RspIntact, CmdIntact, Answers, Fits, Awaited
  <2>2. Effects' /\ AckModeOfReply'
    BY <1>3 DEF UsbOut, SInv, IInv, TypeOK, Local, Apart, OneAtATime, Owing, Noise, Sending, Polling, RspReady, CmdIntact, Answers, Fits, Awaited, Applied, Effects, AckModeOfReply
  <2> QED
    BY <1>0, <2>1, <2>2 DEF SInv
<1>4. CASE UsbIn
  <2>1. Answers'
    BY <1>0, <1>4 DEF UsbIn, SInv, IInv, TypeOK, Local, Apart, OneAtATime, Owing, Noise, Sending, Polling, RspReady, RspIntact, CmdIntact, Answers, Fits, Awaited
  <2>2. Effects' /\ AckModeOfReply'
    BY <1>4 DEF UsbIn, SInv, IInv, TypeOK, Local, Apart, OneAtATime, Owing, Noise, Sending, Polling, RspReady, CmdIntact, Answers, Fits, Awaited, Applied, Effects, AckModeOfReply
  <2> QED
    BY <1>0, <2>1, <2>2 DEF SInv
<1>5. CASE CmdArm
  <2>1. Answers'
    BY <1>0, <1>5 DEF CmdArm, SInv, IInv, TypeOK, Local, Apart, OneAtATime, Owing, Noise, Sending, Polling, RspReady, RspIntact, CmdIntact, Answers, Fits, Awaited
  <2>2. Effects' /\ AckModeOfReply'
    BY <1>5 DEF CmdArm, SInv, IInv, TypeOK, Local, Apart, OneAtATime, Owing, Noise, Sending, Polling, RspReady, CmdIntact, Answers, Fits, Awaited, Applied, Effects, AckModeOfReply
  <2> QED
    BY <1>0, <2>1, <2>2 DEF SInv
<1>6. CASE CmdParse
  <2>1. Answers'
    BY <1>0, <1>6 DEF CmdParse, SInv, IInv, TypeOK, Local, Apart, OneAtATime, Owing, Noise, Sending, Polling, RspReady, RspIntact, CmdIntact, Answers, Fits, Awaited
  <2>2. Effects' /\ AckModeOfReply'
    BY <1>6 DEF CmdParse, SInv, IInv, TypeOK, Local, Apart, OneAtATime, Owing, Noise, Sending, Polling, RspReady, CmdIntact, Answers, Fits, Awaited, Applied, Effects, AckModeOfReply
  <2> QED
    BY <1>0, <2>1, <2>2 DEF SInv
<1>7. CASE CmdSend
  <2>1. Answers'
    BY <1>0, <1>7 DEF CmdSend, SInv, IInv, TypeOK, Local, Apart, OneAtATime, Owing, Noise, Sending, Polling, RspReady, RspIntact, CmdIntact, Answers, Fits, Awaited
  <2>2. Effects' /\ AckModeOfReply'
    BY <1>7 DEF CmdSend, SInv, IInv, TypeOK, Local, Apart, OneAtATime, Owing, Noise, Sending, Polling, RspReady, CmdIntact, Answers, Fits, Awaited, Applied, Effects, AckModeOfReply
  <2> QED
    BY <1>0, <2>1, <2>2 DEF SInv
<1>8. CASE SrvDispatch
  <2>1. Answers'
    BY <1>0, <1>8 DEF SrvDispatch, Reply, Effectful, SInv, IInv, TypeOK, Local, Apart, OneAtATime, Owing, Noise, Sending, Polling, RspReady, RspIntact, CmdIntact, Answers, Fits, Awaited
  <2>2. Effects' /\ AckModeOfReply'
    BY <1>8 DEF SrvDispatch, Reply, Effectful, SInv, IInv, TypeOK, Local, Apart, OneAtATime, Owing, Noise, Sending, Polling, RspReady, CmdIntact, Answers, Fits, Awaited, Applied, Effects, AckModeOfReply
  <2> QED
    BY <1>0, <2>1, <2>2 DEF SInv
<1>9. CASE SrvTakeRunning
  <2>1. Answers'
    BY <1>0, <1>9 DEF SrvTakeRunning, Reply, SInv, IInv, TypeOK, Local, Apart, OneAtATime, Owing, Noise, Sending, Polling, RspReady, RspIntact, CmdIntact, Answers, Fits, Awaited
  <2>2. Effects' /\ AckModeOfReply'
    BY <1>9 DEF SrvTakeRunning, Reply, SInv, IInv, TypeOK, Local, Apart, OneAtATime, Owing, Noise, Sending, Polling, RspReady, CmdIntact, Answers, Fits, Awaited, Applied, Effects, AckModeOfReply
  <2> QED
    BY <1>0, <2>1, <2>2 DEF SInv
<1>10. CASE SrvTimeout
  <2>1. Answers'
    BY <1>0, <1>10 DEF SrvTimeout, SInv, IInv, TypeOK, Local, Apart, OneAtATime, Owing, Noise, Sending, Polling, RspReady, RspIntact, CmdIntact, Answers, Fits, Awaited
  <2>2. Effects' /\ AckModeOfReply'
    BY <1>10 DEF SrvTimeout, SInv, IInv, TypeOK, Local, Apart, OneAtATime, Owing, Noise, Sending, Polling, RspReady, CmdIntact, Answers, Fits, Awaited, Applied, Effects, AckModeOfReply
  <2> QED
    BY <1>0, <2>1, <2>2 DEF SInv
<1>11. CASE SrvHalted
  <2>1. Answers'
    BY <1>0, <1>11 DEF SrvHalted, Reply, SInv, IInv, TypeOK, Local, Apart, OneAtATime, Owing, Noise, Sending, Polling, RspReady, RspIntact, CmdIntact, Answers, Fits, Awaited
  <2>2. Effects' /\ AckModeOfReply'
    BY <1>11 DEF SrvHalted, Reply, SInv, IInv, TypeOK, Local, Apart, OneAtATime, Owing, Noise, Sending, Polling, RspReady, CmdIntact, Answers, Fits, Awaited, Applied, Effects, AckModeOfReply
  <2> QED
    BY <1>0, <2>1, <2>2 DEF SInv
<1>12. CASE SrvStillRuns
  <2>1. Answers'
    BY <1>0, <1>12 DEF SrvStillRuns, SInv, IInv, TypeOK, Local, Apart, OneAtATime, Owing, Noise, Sending, Polling, RspReady, RspIntact, CmdIntact, Answers, Fits, Awaited
  <2>2. Effects' /\ AckModeOfReply'
    BY <1>12 DEF SrvStillRuns, SInv, IInv, TypeOK, Local, Apart, OneAtATime, Owing, Noise, Sending, Polling, RspReady, CmdIntact, Answers, Fits, Awaited, Applied, Effects, AckModeOfReply
  <2> QED
    BY <1>0, <2>1, <2>2 DEF SInv
<1>13. CASE SrvPost
  <2>1. Answers'
    BY <1>0, <1>13 DEF SrvPost, Effectful, SInv, IInv, TypeOK, Local, Apart, OneAtATime, Owing, Noise, Sending, Polling, RspReady, RspIntact, CmdIntact, Answers, Fits, Awaited
  <2>2. Effects' /\ AckModeOfReply'
    BY <1>13 DEF SrvPost, Effectful, SInv, IInv, TypeOK, Local, Apart, OneAtATime, Owing, Noise, Sending, Polling, RspReady, CmdIntact, Answers, Fits, Awaited, Applied, Effects, AckModeOfReply
  <2> QED
    BY <1>0, <2>1, <2>2 DEF SInv
<1>14. CASE SrvAfter
  <2>1. Answers'
    BY <1>0, <1>14 DEF SrvAfter, Effectful, SInv, IInv, TypeOK, Local, Apart, OneAtATime, Owing, Noise, Sending, Polling, RspReady, RspIntact, CmdIntact, Answers, Fits, Awaited
  <2>2. /\ rpc = "recv" /\ rspQ # <<>> /\ doing = asked /\ doing \in Effectful
        /\ connected = hostConn /\ noAck = hostNoAck
    BY <1>14 DEF SrvAfter, Effectful, SInv, IInv, Local, Apart, RspReady, Answers, Fits,
       Sending, Applied, Effects
  <2>3. /\ noAck' = (doing = "noack" \/ (doing # "connect" /\ noAck))
        /\ connected' = (doing = "connect" \/ (doing # "kill" /\ connected))
    <3>1. CASE doing = "noack"
      BY <1>14, <3>1, Zenon DEF SrvAfter, SInv, IInv, TypeOK
    <3>2. CASE doing = "connect"
      BY <1>14, <3>2, Zenon DEF SrvAfter, SInv, IInv, TypeOK
    <3>3. CASE doing = "kill"
      BY <1>14, <3>3, Zenon DEF SrvAfter, SInv, IInv, TypeOK
    <3> QED
      BY <2>2, <3>1, <3>2, <3>3 DEF Effectful
  <2>4. rpc' = "recv" /\ rspQ' # <<>> /\ spc' = "recv" /\ asked' = asked
        /\ hostConn' = hostConn /\ hostNoAck' = hostNoAck
    BY <1>14, <2>2 DEF SrvAfter
  <2>5. Applied'
    BY <2>4 DEF Applied
  <2>6. Effects'
    BY <2>2, <2>3, <2>4, <2>5, Zenon DEF Effects
  <2>7. AckModeOfReply'
    BY <2>4 DEF AckModeOfReply
  <2> QED
    BY <1>0, <2>1, <2>6, <2>7 DEF SInv
<1>15. CASE SrvWake
  <2>1. Answers'
    BY <1>0, <1>15 DEF SrvWake, Reply, SInv, IInv, TypeOK, Local, Apart, OneAtATime, Owing, Noise, Sending, Polling, RspReady, RspIntact, CmdIntact, Answers, Fits, Awaited
  <2>2. Effects' /\ AckModeOfReply'
    BY <1>15 DEF SrvWake, Reply, SInv, IInv, TypeOK, Local, Apart, OneAtATime, Owing, Noise, Sending, Polling, RspReady, CmdIntact, Answers, Fits, Awaited, Applied, Effects, AckModeOfReply
  <2> QED
    BY <1>0, <2>1, <2>2 DEF SInv
<1>16. CASE RspTake
  <2>1. Answers'
    BY <1>0, <1>16 DEF RspTake, RspRuns, SrvReady, SInv, IInv, TypeOK, Local, Apart, OneAtATime, Owing, Noise, Sending, Polling, RspReady, RspIntact, CmdIntact, Answers, Fits, Awaited
  <2>2. Effects' /\ AckModeOfReply'
    BY <1>16 DEF RspTake, RspRuns, SrvReady, SInv, IInv, TypeOK, Local, Apart, OneAtATime, Owing, Noise, Sending, Polling, RspReady, CmdIntact, Answers, Fits, Awaited, Applied, Effects, AckModeOfReply
  <2> QED
    BY <1>0, <2>1, <2>2 DEF SInv
<1>17. CASE RspFrame
  <2>1. Answers'
    BY <1>0, <1>17 DEF RspFrame, RspRuns, SrvReady, SInv, IInv, TypeOK, Local, Apart, OneAtATime, Owing, Noise, Sending, Polling, RspReady, RspIntact, CmdIntact, Answers, Fits, Awaited
  <2>2. Effects' /\ AckModeOfReply'
    BY <1>17 DEF RspFrame, RspRuns, SrvReady, SInv, IInv, TypeOK, Local, Apart, OneAtATime, Owing, Noise, Sending, Polling, RspReady, CmdIntact, Answers, Fits, Awaited, Applied, Effects, AckModeOfReply
  <2> QED
    BY <1>0, <2>1, <2>2 DEF SInv
<1>18. CASE RspSend
  <2>1. Answers'
    BY <1>0, <1>18 DEF RspSend, SInv, IInv, TypeOK, Local, Apart, OneAtATime, Owing, Noise, Sending, Polling, RspReady, RspIntact, CmdIntact, Answers, Fits, Awaited
  <2>2. Effects' /\ AckModeOfReply'
    BY <1>18 DEF RspSend, SInv, IInv, TypeOK, Local, Apart, OneAtATime, Owing, Noise, Sending, Polling, RspReady, CmdIntact, Answers, Fits, Awaited, Applied, Effects, AckModeOfReply
  <2> QED
    BY <1>0, <2>1, <2>2 DEF SInv
<1>19. CASE RspWait
  <2>1. Answers'
    BY <1>0, <1>19 DEF RspWait, SInv, IInv, TypeOK, Local, Apart, OneAtATime, Owing, Noise, Sending, Polling, RspReady, RspIntact, CmdIntact, Answers, Fits, Awaited
  <2>2. Effects' /\ AckModeOfReply'
    BY <1>19 DEF RspWait, SInv, IInv, TypeOK, Local, Apart, OneAtATime, Owing, Noise, Sending, Polling, RspReady, CmdIntact, Answers, Fits, Awaited, Applied, Effects, AckModeOfReply
  <2> QED
    BY <1>0, <2>1, <2>2 DEF SInv
<1>20. CASE UNCHANGED vars
  <2>1. Answers'
    BY <1>0, <1>20 DEF vars, SInv, IInv, TypeOK, Local, Apart, OneAtATime, Owing, Noise, Sending, Polling, RspReady, RspIntact, CmdIntact, Answers, Fits, Awaited
  <2>2. Effects' /\ AckModeOfReply'
    BY <1>20 DEF vars, SInv, IInv, TypeOK, Local, Apart, OneAtATime, Owing, Noise, Sending, Polling, RspReady, CmdIntact, Answers, Fits, Awaited, Applied, Effects, AckModeOfReply
  <2> QED
    BY <1>0, <2>1, <2>2 DEF SInv
<1> QED
  BY <1>0, <1>1, <1>2, <1>3, <1>4, <1>5, <1>6, <1>7, <1>8, <1>9, <1>10, <1>11, <1>12, <1>13, <1>14, <1>15, <1>16, <1>17, <1>18, <1>19, <1>20 DEF Next, HostNext, CmdTask, SrvTask, RspTask, SInv

\* The invariant holds initially.
LEMMA SessionInit == Init => SInv
<1> SUFFICES ASSUME Init PROVE SInv
  OBVIOUS
<1>1. IInv
  BY InvInit
<1> QED
  BY <1>1 DEF Init, SInv, Answers, Effects, Applied, Sending, Polling, AckModeOfReply

\* The strengthened invariant of the session holds of every behaviour.
THEOREM SessionInvariant == Spec => []SInv
<1>1. SInv /\ [Next]_vars => SInv'
  BY SessionStep
<1> QED
  BY SessionInit, <1>1, PTL DEF Spec

\* Whenever the host waits for nothing, the session is what the answers told
\* it, and the server is not polling a running target.
THEOREM SessionAgreement == Spec => []SessionAgrees
<1>1. SInv => SessionAgrees
  BY DEF SInv, IInv, OneAtATime, Owing, Applied, Effects, SessionAgrees
<1> QED
  BY SessionInvariant, <1>1, PTL

\* Every frame is sent in the mode in force after its own command.
THEOREM AckMode == Spec => []AckModeOfReply
<1>1. SInv => AckModeOfReply
  BY DEF SInv
<1> QED
  BY SessionInvariant, <1>1, PTL

\* The host only hears the answer to what it asked, and all of it.
THEOREM AnswersMatch == Spec => AnswerMatches
<1> DEFINE Matches == UsbIn => pend # "none" /\ heard \subseteq {rspBuf} /\ rspBuf \in Expected
<1>1. SInv /\ [Next]_vars => [Matches]_vars
  BY DEF SInv, IInv, Local, RspIntact, Answers, Fits, Sending, Expected, UsbIn
<1> QED
  BY SessionInvariant, <1>1, PTL DEF Spec, AnswerMatches

-----------------------------------------------------------------------------
(* Each step of a task, of the USB handlers or of the host is a step of the  *)
(* session or leaves it alone.                                              *)

\* The state of the session, as the refinement mapping reads it.
Todo == IF Handling \/ Pipeline \ {"quiet", "break"} # {} THEN asked ELSE "blank"

AnswerOnItsWay ==
    IF Handling THEN "blank"
    ELSE IF spc = "post" \/ rspQ # <<>> \/ Sending THEN rspBuf ELSE "blank"

session == <<pend, asked, Todo, AnswerOnItsWay, connected, running, noAck>>

\* A command that wants an answer has not reached a handler yet.
UnderWay ==
    \/ \E i \in 1 .. Len(wire) : wire[i] \notin Noise
    \/ Arrived /\ temp.msg \notin Noise
    \/ cpc = "send" /\ cmdBuf \notin Noise
    \/ cmdQ # <<>> /\ cmdQ[1] \notin Noise

\* What the host waits for was asked by a command that is answered.
AskedCommand == pend # "none" => asked \in Commands \ Noise

RInv == SInv /\ AskedCommand

-----------------------------------------------------------------------------
(* The mapping, place by place.                                             *)

\* A message is in one of the places between the host and the handlers.
LEMMA PipelinePlaces ==
    ASSUME TypeOK, TypeOK'
    PROVE  /\ Pipeline \ {"quiet", "break"} # {} <=> UnderWay
           /\ Pipeline' \ {"quiet", "break"} # {} <=> UnderWay'
<1>1. Pipeline \ {"quiet", "break"} # {} <=> UnderWay
  <2>1. \A m : m \in Pipeline <=> \/ \E i \in 1 .. Len(wire) : wire[i] = m
                                  \/ Arrived /\ temp.msg = m
                                  \/ cpc = "send" /\ cmdBuf = m
                                  \/ \E i \in 1 .. Len(cmdQ) : cmdQ[i] = m
    BY DEF Pipeline, Arrived
  <2>2. IF cmdQ = <<>> THEN Len(cmdQ) = 0 ELSE Len(cmdQ) = 1
    <3>1. cmdQ \in Seq(Commands) /\ Len(cmdQ) =< 1
      BY DEF TypeOK
    <3>2. cmdQ # <<>> => Len(cmdQ) \in Nat \ {0}
      BY <3>1, EmptySeq
    <3>3. Len(<<>>) = 0
      BY EmptySeq
    <3>4. CASE cmdQ # <<>>
      <4> DEFINE n == Len(cmdQ)
      <4>1. n \in Nat \ {0} /\ n =< 1
        BY <3>1, <3>2, <3>4
      <4> HIDE DEF n
      <4>2. n = 1
        BY <4>1
      <4> QED
        BY <3>4, <4>2, Zenon DEF n
    <3>5. CASE cmdQ = <<>>
      BY <3>3, <3>5, Zenon
    <3> QED
      BY <3>4, <3>5, Zenon
  <2>3. \A m : (\E i \in 1 .. Len(cmdQ) : cmdQ[i] = m) <=> cmdQ # <<>> /\ cmdQ[1] = m
    BY <2>2
  <2>4. Pipeline \ {"quiet", "break"} # {} <=> \E m \in Pipeline : m \notin Noise
    BY DEF Noise
  <2> QED
    BY <2>1, <2>3, <2>4 DEF UnderWay
<1>2. Pipeline' \ {"quiet", "break"} # {} <=> UnderWay'
  <2>1. \A m : m \in Pipeline' <=> \/ \E i \in 1 .. Len(wire') : wire'[i] = m
                                   \/ Arrived' /\ temp'.msg = m
                                   \/ cpc' = "send" /\ cmdBuf' = m
                                   \/ \E i \in 1 .. Len(cmdQ') : cmdQ'[i] = m
    BY DEF Pipeline, Arrived
  <2>2. IF cmdQ' = <<>> THEN Len(cmdQ') = 0 ELSE Len(cmdQ') = 1
    <3>1. cmdQ' \in Seq(Commands) /\ Len(cmdQ') =< 1
      BY DEF TypeOK
    <3>2. cmdQ' # <<>> => Len(cmdQ') \in Nat \ {0}
      BY <3>1, EmptySeq
    <3>3. Len(<<>>) = 0
      BY EmptySeq
    <3>4. CASE cmdQ' # <<>>
      <4> DEFINE n == Len(cmdQ')
      <4>1. n \in Nat \ {0} /\ n =< 1
        BY <3>1, <3>2, <3>4
      <4> HIDE DEF n
      <4>2. n = 1
        BY <4>1
      <4> QED
        BY <3>4, <4>2, Zenon DEF n
    <3>5. CASE cmdQ' = <<>>
      BY <3>3, <3>5, Zenon
    <3> QED
      BY <3>4, <3>5, Zenon
  <2>3. \A m : (\E i \in 1 .. Len(cmdQ') : cmdQ'[i] = m) <=> cmdQ' # <<>> /\ cmdQ'[1] = m
    BY <2>2
  <2>4. Pipeline' \ {"quiet", "break"} # {} <=> \E m \in Pipeline' : m \notin Noise
    BY DEF Noise
  <2>5. (\E m \in Pipeline' : m \notin Noise) =>
            \/ \E i \in 1 .. Len(wire') : wire'[i] \notin Noise
            \/ Arrived' /\ temp'.msg \notin Noise
            \/ cpc' = "send" /\ cmdBuf' \notin Noise
            \/ cmdQ' # <<>> /\ cmdQ'[1] \notin Noise
    BY <2>1, <2>3, ZenonT(60)
  <2>6. \/ \E i \in 1 .. Len(wire') : wire'[i] \notin Noise
        \/ Arrived' /\ temp'.msg \notin Noise
        \/ cpc' = "send" /\ cmdBuf' \notin Noise
        \/ cmdQ' # <<>> /\ cmdQ'[1] \notin Noise
        => \E m \in Pipeline' : m \notin Noise
    BY <2>1, <2>3
  <2> QED
    BY <2>4, <2>5, <2>6, Zenon DEF UnderWay
<1> QED
  BY <1>1, <1>2

\* What is to be done, by the places of its command.
LEMMA TodoPlaces ==
    ASSUME TypeOK, TypeOK'
    PROVE  /\ Todo = IF Handling \/ UnderWay THEN asked ELSE "blank"
           /\ Todo' = IF Handling' \/ UnderWay' THEN asked' ELSE "blank"
BY PipelinePlaces DEF Todo

\* While the probe owes an answer no command is under way; a command that is
\* queued for the server is the only one.
LEMMA NothingElse ==
    ASSUME RInv
    PROVE  /\ Owing => ~UnderWay /\ pend # "none"
           /\ Handling => Owing
           /\ cmdQ # <<>> /\ cmdQ[1] \notin Noise =>
                 /\ asked = cmdQ[1] /\ pend # "none" /\ cpc = "arm" /\ ~RspReady
                 /\ \A i \in 1 .. Len(wire) : wire[i] = "break"
<1> USE DEF RInv, SInv, IInv
<1>1. Owing => ~UnderWay /\ pend # "none"
  BY DEF OneAtATime, OnlyBreaks, UnderWay, Noise
<1>2. Handling => Owing
  BY DEF Handling, Owing
<1>3. cmdQ # <<>> /\ cmdQ[1] \notin Noise =>
         /\ asked = cmdQ[1] /\ pend # "none" /\ cpc = "arm" /\ ~RspReady
         /\ \A i \in 1 .. Len(wire) : wire[i] = "break"
  BY DEF OneAtATime, Apart, Noise
<1> QED
  BY <1>1, <1>2, <1>3
-----------------------------------------------------------------------------
(* The invariant of the mapping.                                            *)

\* Every step keeps it.
LEMMA MappingInvStep == ASSUME RInv, [Next]_vars PROVE RInv'
<1> USE DEF RInv
<1>1. SInv'
  BY SessionStep
<1>2. ASSUME NEW m \in Commands, HostAsks(m) PROVE AskedCommand'
  BY <1>2 DEF HostAsks, Awaited, AskedCommand, Noise, Commands, Control
<1>3. CASE ~\E m \in Commands : HostAsks(m)
  <2>1. asked' = asked /\ (pend' = pend \/ pend' = "none")
    BY <1>3 DEF Next, vars, HostNext, HostBreaks, UsbOut, UsbIn, CmdTask, CmdArm, CmdParse, CmdSend,
       SrvTask, SrvDispatch, SrvTakeRunning, SrvTimeout, SrvHalted, SrvStillRuns, SrvPost, SrvAfter,
       SrvWake, RspTask, RspTake, RspFrame, RspSend, RspWait, hostVars
  <2> QED
    BY <1>1, <2>1 DEF AskedCommand
<1> QED
  BY <1>1, <1>2, <1>3

\* It holds initially, and so always.
LEMMA MappingInvariant == Spec => []RInv
<1>1. Init => RInv
  BY SessionInit DEF Init, RInv, AskedCommand
<1>2. RInv /\ [Next]_vars => RInv'
  BY MappingInvStep
<1> QED
  BY <1>1, <1>2, PTL DEF Spec

-----------------------------------------------------------------------------
(* Step by step.                                                            *)

\* A step that moves messages between the places and answers nothing is no
\* step of the session.
LEMMA Stutters ==
    ASSUME TypeOK, TypeOK', UNCHANGED <<pend, asked, connected, running, noAck>>,
           Handling' <=> Handling, UnderWay' <=> UnderWay, AnswerOnItsWay' = AnswerOnItsWay
    PROVE  UNCHANGED session
BY TodoPlaces DEF session

\* What every action may rely on.
LEMMA Around ==
    ASSUME RInv
    PROVE  TypeOK /\ Local /\ Apart /\ RspIntact /\ CmdIntact /\ Answers /\ Effects
BY DEF RInv, SInv, IInv

\* The host asks: a command that wants an answer is an Ask of the session.
LEMMA HostAsksMaps ==
    ASSUME RInv, RInv', NEW m \in Commands, HostAsks(m)
    PROVE  Session!Next \/ UNCHANGED session
<1>1. TypeOK /\ TypeOK'
  BY DEF RInv, SInv, IInv
<1>2. AnswerOnItsWay' = AnswerOnItsWay /\ (Handling' <=> Handling)
  BY DEF HostAsks, cmdVars, srvVars, rspVars, AnswerOnItsWay, Handling, Sending
<1>3. Len(wire') = Len(wire) + 1 /\ wire'[Len(wire) + 1] = m /\ Len(wire) \in Nat
      /\ \A i \in 1 .. Len(wire) : wire'[i] = wire[i]
  BY <1>1 DEF HostAsks, TypeOK
<1>4. CASE m = "quiet"
  <2>1. UnderWay' <=> UnderWay
    BY <1>3, <1>4 DEF HostAsks, cmdVars, UnderWay, Arrived, Noise
  <2>2. UNCHANGED <<pend, asked, connected, running, noAck>>
    BY <1>4 DEF HostAsks, Awaited, srvVars
  <2> QED
    BY <1>1, <1>2, <2>1, <2>2, Stutters
<1>5. CASE m # "quiet"
  <2>1. m \notin Noise
    BY <1>5 DEF HostAsks, Noise
  <2>2. UnderWay'
    BY <1>3, <2>1 DEF UnderWay
  <2>3. Todo' = m
    BY <1>1, <1>5, <2>2, TodoPlaces DEF HostAsks
  <2>4. m \in Session!Commands
    BY <1>5 DEF HostAsks, Session!Commands, Commands, Control
  <2>5. Session!Ask(m)
    BY <1>2, <1>5, <2>3 DEF HostAsks, Awaited, srvVars, Session!Ask, Todo, AnswerOnItsWay
  <2> QED
    BY <2>4, <2>5 DEF Session!Next
<1> QED
  BY <1>4, <1>5

\* A \x03 is no command of the session.
LEMMA HostBreaksMaps ==
    ASSUME RInv, RInv', HostBreaks
    PROVE  UNCHANGED session
<1>1. TypeOK /\ TypeOK'
  BY DEF RInv, SInv, IInv
<1>2. AnswerOnItsWay' = AnswerOnItsWay /\ (Handling' <=> Handling)
  BY DEF HostBreaks, cmdVars, srvVars, rspVars, AnswerOnItsWay, Handling, Sending
<1>3. Len(wire') = Len(wire) + 1 /\ wire'[Len(wire) + 1] = "break" /\ Len(wire) \in Nat
      /\ \A i \in 1 .. Len(wire) : wire'[i] = wire[i]
  BY <1>1 DEF HostBreaks, TypeOK, Commands, Control
<1>4. UnderWay' <=> UnderWay
  BY <1>3 DEF HostBreaks, cmdVars, UnderWay, Arrived, Noise
<1>5. UNCHANGED <<pend, asked, connected, running, noAck>>
  BY DEF HostBreaks, hostVars, srvVars
<1> QED
  BY <1>1, <1>2, <1>4, <1>5, Stutters

\* The OUT endpoint moves a message from the wire into temp.
LEMMA UsbOutMaps ==
    ASSUME RInv, RInv', UsbOut
    PROVE  UNCHANGED session
<1>1. TypeOK /\ TypeOK' /\ Local
  BY Around DEF RInv, SInv, IInv
<1>2. AnswerOnItsWay' = AnswerOnItsWay /\ (Handling' <=> Handling)
  BY DEF UsbOut, cmdVars, srvVars, rspVars, AnswerOnItsWay, Handling, Sending
<1>3. PICK last \in BOOLEAN :
         /\ temp' = [msg |-> Head(wire), last |-> last]
         /\ wire' = IF last THEN Tail(wire) ELSE wire
  BY DEF UsbOut
<1>4. /\ cpc = "wait" /\ ~received /\ received' /\ cpc' = cpc /\ cmdBuf' = cmdBuf /\ cmdQ' = cmdQ
      /\ wire \in Seq(Commands) /\ wire # <<>>
  BY <1>1 DEF UsbOut, Local, TypeOK, cmdVars
<1>5. UnderWay' <=> UnderWay
  <2>1. CASE last
    <3>1. Head(wire) = wire[1] /\ Len(wire) \in Nat \ {0} /\ Len(wire') = Len(wire) - 1
          /\ \A i \in 1 .. Len(wire') : wire'[i] = wire[i + 1]
      BY <1>3, <1>4, <2>1, HeadTailProperties
    <3>2. (\E i \in 1 .. Len(wire) : wire[i] \notin Noise) <=>
             wire[1] \notin Noise \/ (\E i \in 1 .. Len(wire') : wire'[i] \notin Noise)
      <4>1. ASSUME NEW i \in 1 .. Len(wire), i # 1
            PROVE  i - 1 \in 1 .. Len(wire') /\ wire'[i - 1] = wire[i]
        BY <3>1, <4>1
      <4>2. ASSUME NEW i \in 1 .. Len(wire')
            PROVE  i + 1 \in 1 .. Len(wire) /\ wire'[i] = wire[i + 1]
        BY <3>1
      <4>3. 1 \in 1 .. Len(wire)
        BY <3>1
      <4> QED
        BY <4>1, <4>2, <4>3
    <3>3. ~Arrived /\ Arrived' /\ temp'.msg = wire[1]
      BY <1>3, <1>4, <2>1, <3>1 DEF Arrived
    <3> QED
      BY <1>4, <3>2, <3>3 DEF UnderWay
  <2>2. CASE ~last
    <3>1. ~Arrived /\ ~Arrived' /\ wire' = wire
      BY <1>3, <1>4, <2>2 DEF Arrived
    <3> QED
      BY <1>4, <3>1 DEF UnderWay
  <2> QED
    BY <2>1, <2>2
<1>6. UNCHANGED <<pend, asked, connected, running, noAck>>
  BY DEF UsbOut, hostVars, srvVars
<1> QED
  BY <1>1, <1>2, <1>5, <1>6, Stutters

\* The command task moves a message from temp to the queue.
LEMMA CmdTaskMaps ==
    ASSUME RInv, RInv', CmdTask
    PROVE  UNCHANGED session
<1>1. TypeOK /\ TypeOK' /\ Local
  BY Around DEF RInv, SInv, IInv
<1>2. AnswerOnItsWay' = AnswerOnItsWay /\ (Handling' <=> Handling)
      /\ UNCHANGED <<pend, asked, connected, running, noAck, wire, temp>>
  BY DEF CmdTask, CmdArm, CmdParse, CmdSend, hostVars, usbVars, srvVars, rspVars,
     AnswerOnItsWay, Handling, Sending
<1>3. CASE CmdArm
  <2>1. ~Arrived /\ ~Arrived' /\ cpc # "send" /\ cpc' # "send" /\ cmdQ' = cmdQ
    BY <1>3 DEF CmdArm, Arrived
  <2>2. UnderWay' <=> UnderWay
    BY <1>2, <2>1 DEF UnderWay
  <2> QED
    BY <1>1, <1>2, <2>2, Stutters
<1>4. CASE CmdParse
  <2>1. cpc = "wait" /\ received /\ cmdBuf' = temp.msg /\ cmdQ' = cmdQ
        /\ cpc' = IF temp.last THEN "send" ELSE "arm"
    BY <1>4 DEF CmdParse
  <2>2. UnderWay' <=> UnderWay
    BY <1>2, <2>1 DEF UnderWay, Arrived
  <2> QED
    BY <1>1, <1>2, <2>2, Stutters
<1>5. CASE CmdSend
  <2>1. cpc = "send" /\ cmdQ = <<>> /\ cmdQ' = <<cmdBuf>> /\ cpc' = "arm"
    BY <1>5 DEF CmdSend
  <2>2. cmdQ' # <<>> /\ cmdQ'[1] = cmdBuf
    BY <2>1
  <2>3. UnderWay' <=> UnderWay
    BY <1>2, <2>1, <2>2 DEF UnderWay, Arrived
  <2> QED
    BY <1>1, <1>2, <2>3, Stutters
<1> QED
  BY <1>3, <1>4, <1>5 DEF CmdTask

\* The host has taken a packet: with the last one it has its answer.
LEMMA UsbInMaps ==
    ASSUME RInv, RInv', UsbIn
    PROVE  Session!Next \/ UNCHANGED session
<1>1. TypeOK /\ TypeOK' /\ Local /\ Apart /\ RspIntact /\ Answers /\ AskedCommand
  BY Around DEF RInv, SInv, IInv
<1>2. (Handling' <=> Handling) /\ (UnderWay' <=> UnderWay) /\ Todo' = Todo
  <2>1. (Handling' <=> Handling) /\ (UnderWay' <=> UnderWay) /\ asked' = asked
    BY DEF UsbIn, Handling, UnderWay, Arrived, cmdVars, srvVars
  <2> QED
    BY <1>1, <2>1, TodoPlaces
<1>3. Sending /\ rpc = "wait" /\ rspBuf = rlabel /\ Fits(rlabel) /\ spc \notin {"sleep", "post"}
      /\ rspQ = <<>>
  BY <1>1 DEF UsbIn, Local, Apart, RspIntact, Answers, Sending, RspReady
<1>4. ~Handling
  BY <1>1, <1>3 DEF Handling, Local
<1>5. AnswerOnItsWay = rspBuf
  BY <1>3, <1>4 DEF AnswerOnItsWay
<1>6. CASE left > 0
  <2>1. AnswerOnItsWay' = AnswerOnItsWay
    BY <1>6, <1>2, <1>3, <1>4, <1>5 DEF UsbIn, AnswerOnItsWay, Sending, rspVars, srvVars
  <2>2. UNCHANGED <<pend, asked, connected, running, noAck>>
    BY <1>6 DEF UsbIn, srvVars
  <2> QED
    BY <1>1, <1>2, <2>1, <2>2, Stutters
<1>7. CASE ~(left > 0)
  <2>1. pend' = "none" /\ UNCHANGED <<asked, connected, running, noAck>>
    BY <1>7 DEF UsbIn, srvVars
  <2>2. AnswerOnItsWay' = "blank"
    <3>1. ~Sending' /\ spc' # "post" /\ rspQ' = <<>>
      BY <1>3, <1>7 DEF UsbIn, Sending, rspVars, srvVars
    <3> QED
      BY <3>1 DEF AnswerOnItsWay
  <2>3. rspBuf # "blank" /\ \/ pend = "reply" /\ rspBuf = asked
                            \/ pend = "stop" /\ rspBuf \in Stops
    BY <1>1, <1>3, AsksAssumption DEF Fits, AskedCommand, Commands, Control, Stops
  <2>4. Session!Answer
    BY <1>2, <1>5, <2>1, <2>2, <2>3 DEF Session!Answer, Session!Nothing, Session!Stops, Stops,
       Todo, AnswerOnItsWay
  <2> QED
    BY <2>4 DEF Session!Next
<1> QED
  BY <1>6, <1>7

\* A handler takes its command: what is to be done stays to be done until the
\* answer is owed, and a continue resumes the target at once.
LEMMA SrvDispatchMaps ==
    ASSUME RInv, RInv', SrvDispatch
    PROVE  Session!Next \/ UNCHANGED session
<1>1. TypeOK /\ TypeOK' /\ Local /\ Apart /\ CmdIntact /\ Answers
  BY Around DEF RInv, SInv, IInv
<1>2. /\ spc = "recv" /\ ~Polling /\ cmdQ # <<>> /\ cmdQ' = <<>> /\ cmdBuf = cmdQ[1]
      /\ UNCHANGED <<pend, asked, connected, noAck, rspQ, wire, temp, cpc, cmdBuf, received>>
      /\ UNCHANGED <<rpc, rlabel, left, inEp>>
  BY <1>1 DEF SrvDispatch, CmdIntact, hostVars, usbVars, rspVars
<1>3. ~Handling /\ (Sending' <=> Sending)
  BY <1>2 DEF Handling, Sending
<1>4. CASE cmdBuf \notin Noise
  <2>1. /\ asked = cmdBuf /\ pend # "none" /\ cpc = "arm" /\ ~RspReady
        /\ \A i \in 1 .. Len(wire) : wire[i] = "break"
    BY <1>2, <1>4, NothingElse
  <2>2. UnderWay /\ ~UnderWay'
    BY <1>2, <1>4, <2>1 DEF UnderWay, Arrived, Noise
  <2>3. AnswerOnItsWay = "blank"
    BY <1>2, <1>3, <2>1 DEF AnswerOnItsWay, RspReady, Sending
  <2>4. Todo = asked
    BY <1>1, <2>2, TodoPlaces
  <2>5. CASE cmdBuf = "cont"
    <3>1. spc' = "recv" /\ running' = TRUE
      BY <1>2, <2>5, AsksAssumption DEF SrvDispatch, Effectful, Control
    <3>2. ~Handling'
      BY <3>1 DEF Handling
    <3>3. Todo' = "blank"
      BY <1>1, <2>2, <3>2, TodoPlaces
    <3>4. AnswerOnItsWay' = "blank"
      BY <1>2, <1>3, <2>1, <3>1, <3>2 DEF AnswerOnItsWay, RspReady, Sending
    <3>5. Session!Resume
      BY <1>2, <2>1, <2>3, <2>4, <2>5, <3>1, <3>3, <3>4 DEF Session!Resume, Session!Nothing,
         Todo, AnswerOnItsWay
    <3> QED
      BY <3>5 DEF Session!Next
  <2>6. CASE cmdBuf # "cont"
    <3>1. \/ spc' = "sleep"
          \/ spc' = "post" /\ doing' = cmdBuf /\ cmdBuf \in Asks \cup Effectful
      BY <1>4, <2>6 DEF SrvDispatch, Reply, Noise
    <3>2. running' = running
      BY <1>4, <2>6 DEF SrvDispatch, Noise
    <3>3. Handling'
      BY <3>1, AsksAssumption DEF Handling, Effectful, Stops
    <3>4. Todo' = Todo
      BY <1>1, <1>2, <2>4, <3>3, TodoPlaces
    <3>5. AnswerOnItsWay' = "blank"
      BY <3>3 DEF AnswerOnItsWay
    <3> QED
      BY <1>2, <2>3, <3>2, <3>4, <3>5 DEF session
  <2> QED
    BY <2>5, <2>6
<1>5. CASE cmdBuf \in Noise
  <2>1. UNCHANGED <<spc, doing, running, rspBuf>>
    BY <1>5, AsksAssumption DEF SrvDispatch, Noise, Effectful, Control
  <2>2. UnderWay' <=> UnderWay
    BY <1>2, <1>5 DEF UnderWay, Arrived
  <2>3. (Handling' <=> Handling) /\ AnswerOnItsWay' = AnswerOnItsWay
    BY <1>2, <1>3, <2>1 DEF Handling, AnswerOnItsWay
  <2> QED
    BY <1>1, <1>2, <2>1, <2>2, <2>3, Stutters
<1> QED
  BY <1>4, <1>5

\* A stop of the target, polled for or brought about, is a Stop of the session.
LEMMA StopMaps ==
    ASSUME RInv, RInv', NEW s \in Stops, Polling, Reply(s), running' = FALSE,
           UNCHANGED <<hostVars, connected, noAck, rspQ>>,
           ~Handling, ~UnderWay, ~UnderWay'
    PROVE  Session!Next \/ UNCHANGED session
<1>1. TypeOK /\ TypeOK' /\ Apart
  BY Around DEF RInv, SInv, IInv
<1>2. ~Handling' /\ spc' = "post" /\ rspBuf' = s
  BY DEF Reply, Handling
<1>3. AnswerOnItsWay' = s
  BY <1>2 DEF AnswerOnItsWay
<1>4. Todo = "blank" /\ Todo' = "blank"
  BY <1>1, <1>2, TodoPlaces
<1>5. UNCHANGED <<pend, asked, connected, noAck>> /\ connected /\ running
  BY DEF hostVars, Polling
<1>6. Session!Stop
  BY <1>3, <1>4, <1>5 DEF Session!Stop, Session!Stops, Stops, Todo, AnswerOnItsWay
<1> QED
  BY <1>6 DEF Session!Next

\* While the target is polled only a \x03 can be in the queue.
LEMMA SrvPollsMaps ==
    ASSUME RInv, RInv', SrvTakeRunning \/ SrvTimeout \/ SrvHalted \/ SrvStillRuns
    PROVE  Session!Next \/ UNCHANGED session
<1>1. TypeOK /\ TypeOK' /\ Local /\ Apart /\ CmdIntact /\ Answers
  BY Around DEF RInv, SInv, IInv
<1>2. Polling /\ spc \in {"recv", "check"}
  BY <1>1 DEF SrvTakeRunning, SrvTimeout, SrvHalted, SrvStillRuns, Apart
<1>3. ~Handling /\ ~UnderWay
  <2>1. Owing
    BY <1>2 DEF Owing
  <2> QED
    BY <1>2, <2>1, NothingElse DEF Handling
<1>4. /\ UNCHANGED <<hostVars, connected, noAck, rspQ>>
      /\ UNCHANGED <<wire, temp, received, cpc, cmdBuf, rpc, inEp, left>>
      /\ cmdQ' = cmdQ \/ cmdQ' = <<>>
  BY DEF SrvTakeRunning, SrvTimeout, SrvHalted, SrvStillRuns, usbVars, cmdVars, rspVars
<1>5. ~UnderWay'
  BY <1>3, <1>4 DEF UnderWay, Arrived
<1>6. CASE SrvHalted
  BY <1>2, <1>3, <1>4, <1>5, <1>6, StopMaps DEF SrvHalted, Stops
<1>7. CASE SrvTakeRunning /\ cmdBuf = "break"
  BY <1>2, <1>3, <1>4, <1>5, <1>7, StopMaps DEF SrvTakeRunning, Stops
<1>8. CASE SrvTimeout \/ SrvStillRuns \/ (SrvTakeRunning /\ cmdBuf # "break")
  <2>1. spc' \in {"recv", "check"} /\ UNCHANGED <<doing, running, rspBuf>>
    BY <1>8 DEF SrvTimeout, SrvStillRuns, SrvTakeRunning
  <2>2. ~Handling'
    BY <2>1 DEF Handling
  <2>3. AnswerOnItsWay' = AnswerOnItsWay
    BY <1>2, <1>3, <1>4, <2>1, <2>2 DEF AnswerOnItsWay, Sending
  <2> QED
    BY <1>1, <1>3, <1>4, <1>5, <2>1, <2>2, <2>3, Stutters DEF hostVars
<1> QED
  BY <1>6, <1>7, <1>8

\* A reply is queued.  A command without an effect of its own is carried out
\* here; the others have still to take effect, and a stop has had its own.
LEMMA SrvPostMaps ==
    ASSUME RInv, RInv', SrvPost
    PROVE  Session!Next \/ UNCHANGED session
<1>1. TypeOK /\ TypeOK' /\ Local /\ Apart /\ RspIntact /\ Answers /\ AskedCommand
  BY Around DEF RInv, SInv, IInv
<1>2. /\ spc = "post" /\ ~RspReady /\ rspBuf = doing /\ Fits(doing) /\ ~UnderWay
      /\ rspQ' = <<doing>> /\ pend # "none" /\ pend = Awaited(asked)
  <2>1. Owing
    BY DEF SrvPost, Owing
  <2> QED
    BY <1>1, <2>1, NothingElse DEF SrvPost, Local, Apart, Answers
<1>3. /\ UNCHANGED <<pend, asked, connected, running, noAck, rspBuf, doing>>
      /\ UNCHANGED <<wire, temp, received, cpc, cmdBuf, cmdQ, rpc, inEp, left>>
  BY DEF SrvPost, hostVars, usbVars, cmdVars, rspVars
<1>4. ~UnderWay' /\ ~Sending /\ ~Sending'
  BY <1>2, <1>3 DEF UnderWay, Arrived, Sending, RspReady
<1>5. rspQ' # <<>>
  BY <1>2
<1>6. CASE doing \in Effectful \cup Stops
  <2>1. Handling' <=> Handling
    BY <1>2, <1>3, <1>6 DEF SrvPost, Handling, Effectful, Stops
  <2>2. AnswerOnItsWay' = AnswerOnItsWay
    BY <1>2, <1>3, <1>5, <2>1 DEF AnswerOnItsWay
  <2> QED
    BY <1>1, <1>2, <1>3, <1>4, <2>1, <2>2, Stutters
<1>7. CASE doing \notin Effectful \cup Stops
  <2>1. pend = "reply" /\ doing = asked /\ asked # "cont" /\ asked \in Commands \ Noise
    BY <1>1, <1>2, <1>7 DEF Fits, Awaited, AskedCommand
  <2>2. spc' = "recv" /\ ~Handling' /\ Handling
    BY <1>2, <1>3, <1>7 DEF SrvPost, Handling
  <2>3. Todo = asked /\ Todo' = "blank"
    BY <1>1, <1>3, <1>4, <2>2, TodoPlaces
  <2>4. AnswerOnItsWay' = asked
    BY <1>2, <1>3, <1>5, <2>1, <2>2 DEF AnswerOnItsWay
  <2>5. asked \in Session!Commands \ {"cont"} /\ asked \notin {"connect", "kill", "noack"}
    BY <1>7, <2>1 DEF Session!Commands, Commands, Control, Noise, Effectful
  <2>6. /\ noAck' = (asked = "noack" \/ (noAck /\ asked # "connect"))
        /\ connected' = (asked = "connect" \/ (connected /\ asked # "kill"))
    BY <1>1, <1>3, <2>5, Zenon DEF TypeOK
  <2>7. running' \in CASE asked = "connect" -> {FALSE}
                       [] asked = "kill"    -> {TRUE, running}
                       [] OTHER             -> {running}
    BY <1>3, <2>5
  <2>8. Session!CarryOut
    BY <1>3, <2>3, <2>4, <2>5, <2>6, <2>7, Zenon DEF Session!CarryOut, Session!Nothing,
       Todo, AnswerOnItsWay
  <2> QED
    BY <2>8 DEF Session!Next
<1> QED
  BY <1>6, <1>7

\* connect, kill and QStartNoAckMode are carried out behind their replies.
LEMMA SrvAfterMaps ==
    ASSUME RInv, RInv', SrvAfter
    PROVE  Session!Next \/ UNCHANGED session
<1>1. TypeOK /\ TypeOK' /\ Local /\ Apart /\ RspIntact /\ Answers /\ AskedCommand
  BY Around DEF RInv, SInv, IInv
<1>2. /\ spc = "after" /\ rspBuf = doing /\ Fits(doing) /\ doing \in Effectful
      /\ rspQ = <<doing>> /\ ~UnderWay
  <2>1. Owing
    BY DEF SrvAfter, Owing
  <2> QED
    BY <1>1, <2>1, NothingElse DEF SrvAfter, Local, Answers
<1>3. doing = asked /\ asked \in {"connect", "kill", "noack"}
  BY <1>2 DEF Fits, Effectful, Stops
<1>4. /\ UNCHANGED <<pend, asked, rspBuf, rspQ>>
      /\ UNCHANGED <<wire, temp, received, cpc, cmdBuf, cmdQ>> /\ spc' = "recv"
  BY DEF SrvAfter, hostVars, usbVars, cmdVars
<1>5. ~UnderWay' /\ Handling /\ ~Handling'
  BY <1>2, <1>3, <1>4 DEF UnderWay, Arrived, Handling, Stops
<1>6. Todo = asked /\ Todo' = "blank"
  BY <1>1, <1>2, <1>5, TodoPlaces
<1>7. AnswerOnItsWay' = asked
  <2>1. rspQ' # <<>>
    BY <1>2, <1>4
  <2> QED
    BY <1>2, <1>3, <1>4, <1>5, <2>1 DEF AnswerOnItsWay
<1>8. /\ noAck' = (asked = "noack" \/ (noAck /\ asked # "connect"))
      /\ connected' = (asked = "connect" \/ (connected /\ asked # "kill"))
  <2>1. CASE asked = "noack"
    BY <1>1, <1>3, <2>1, Zenon DEF SrvAfter, TypeOK
  <2>2. CASE asked = "connect"
    BY <1>1, <1>3, <2>2, Zenon DEF SrvAfter, TypeOK
  <2>3. CASE asked = "kill"
    BY <1>1, <1>3, <2>3, Zenon DEF SrvAfter, TypeOK
  <2> QED
    BY <1>3, <2>1, <2>2, <2>3
<1>9. running' \in CASE asked = "connect" -> {FALSE}
                     [] asked = "kill"    -> {TRUE, running}
                     [] OTHER             -> {running}
  <2>1. CASE asked = "noack"
    BY <1>3, <2>1 DEF SrvAfter
  <2>2. CASE asked = "connect"
    BY <1>3, <2>2 DEF SrvAfter
  <2>3. CASE asked = "kill"
    BY <1>3, <2>3 DEF SrvAfter
  <2> QED
    BY <1>3, <2>1, <2>2, <2>3
<1>10. asked \in Session!Commands \ {"cont"}
  BY <1>3 DEF Session!Commands
<1>11. Session!CarryOut
  BY <1>4, <1>6, <1>7, <1>8, <1>9, <1>10, Zenon DEF Session!CarryOut, Session!Nothing,
     Todo, AnswerOnItsWay
<1> QED
  BY <1>11 DEF Session!Next

\* A reset that has slept goes on to its reply.
LEMMA SrvWakeMaps ==
    ASSUME RInv, RInv', SrvWake
    PROVE  UNCHANGED session
<1>1. TypeOK /\ TypeOK'
  BY DEF RInv, SInv, IInv
<1>2. Handling /\ Handling' /\ (UnderWay' <=> UnderWay)
  BY DEF SrvWake, Reply, Handling, Stops, UnderWay, Arrived, cmdVars, usbVars
<1>3. UNCHANGED <<pend, asked, connected, running, noAck>>
  BY DEF SrvWake, hostVars
<1> QED
  BY <1>1, <1>2, <1>3, Stutters DEF AnswerOnItsWay

\* The reply task takes, frames and cuts an answer that stays the same.
LEMMA RspTaskMaps ==
    ASSUME RInv, RInv', RspTask
    PROVE  UNCHANGED session
<1>1. TypeOK /\ TypeOK' /\ Local /\ Apart
  BY Around DEF RInv, SInv, IInv
<1>2. /\ UNCHANGED <<pend, asked, connected, running, noAck, spc, doing, rspBuf>>
      /\ UNCHANGED <<wire, temp, received, cpc, cmdBuf, cmdQ>>
  BY DEF RspTask, RspTake, RspFrame, RspSend, RspWait, hostVars, usbVars, cmdVars, srvVars
<1>3. (Handling' <=> Handling) /\ (UnderWay' <=> UnderWay)
  BY <1>2 DEF Handling, UnderWay, Arrived
<1>4. (rspQ' # <<>> \/ Sending') <=> (rspQ # <<>> \/ Sending)
  <2>1. CASE RspTake
    BY <2>1 DEF RspTake, Sending
  <2>2. CASE RspFrame
    BY <2>2 DEF RspFrame, Sending
  <2>3. CASE RspSend
    BY <2>3 DEF RspSend, Sending
  <2>4. CASE RspWait
    <3>1. ~inEp /\ inEp' = inEp /\ left' = left /\ rspQ' = rspQ /\ left \in Nat
      BY <1>1, <2>4 DEF RspWait, Local, usbVars, srvVars, TypeOK
    <3> QED
      BY <2>4, <3>1 DEF RspWait, Sending
  <2> QED
    BY <2>1, <2>2, <2>3, <2>4 DEF RspTask
<1>5. AnswerOnItsWay' = AnswerOnItsWay
  BY <1>2, <1>3, <1>4 DEF AnswerOnItsWay
<1> QED
  BY <1>1, <1>2, <1>3, <1>5, Stutters

\* Nothing happens, and nothing happens in the session.
LEMMA NothingMaps ==
    ASSUME UNCHANGED vars
    PROVE  UNCHANGED session
BY DEF vars, hostVars, usbVars, cmdVars, srvVars, rspVars, session, Todo, AnswerOnItsWay,
   Handling, Pipeline, Sending

-----------------------------------------------------------------------------
(* The refinement.                                                          *)

\* Every step of the implementation is one of the session, or none.
LEMMA StepMaps == ASSUME RInv, RInv', [Next]_vars PROVE Session!Next \/ UNCHANGED session
<1>1. CASE HostNext
  BY <1>1, HostAsksMaps, HostBreaksMaps DEF HostNext
<1>2. CASE UsbOut
  BY <1>2, UsbOutMaps
<1>3. CASE UsbIn
  BY <1>3, UsbInMaps
<1>4. CASE CmdTask
  BY <1>4, CmdTaskMaps
<1>5. CASE SrvTask
  BY <1>5, SrvDispatchMaps, SrvPollsMaps, SrvPostMaps, SrvAfterMaps DEF SrvTask
<1>6. CASE SrvWake
  BY <1>6, SrvWakeMaps
<1>7. CASE RspTask
  BY <1>7, RspTaskMaps
<1>8. CASE UNCHANGED vars
  BY <1>8, NothingMaps
<1> QED
  BY <1>1, <1>2, <1>3, <1>4, <1>5, <1>6, <1>7, <1>8 DEF Next

\* The session begins with nothing asked, nothing to do and no answer.
LEMMA InitMaps == Init => Session!Init
<1> SUFFICES ASSUME Init PROVE Session!Init
  OBVIOUS
<1>1. ~Handling /\ ~Sending /\ rspQ = <<>> /\ spc # "post"
  BY DEF Init, Handling, Sending
<1>2. Pipeline \ {"quiet", "break"} = {}
  BY DEF Init, Pipeline
<1> QED
  BY <1>1, <1>2 DEF Init, Session!Init, Session!Nothing

\* The tasks, queues and buffers of the transport implement the session: each
\* command is carried out once, its effect is in force before its answer
\* arrives, and an answer is the one to what was asked or a single stop reply.
THEOREM TransportImplementsSession == Spec => ImplementsSession
<1>1. RInv /\ RInv' /\ [Next]_vars => [Session!Next]_(Session!vars)
  BY StepMaps DEF Session!vars, session, Todo, AnswerOnItsWay
<1> QED
  BY InitMaps, MappingInvariant, <1>1, PTL DEF Spec, ImplementsSession, Session!Spec
=============================================================================
