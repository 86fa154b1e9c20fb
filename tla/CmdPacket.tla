------------------------------ MODULE CmdPacket ------------------------------
(***************************************************************************)
(* gdb_cmd_packet_vTask byte by byte: commands come as one stream that USB *)
(* cuts wherever it likes; the task finds "$" and "#" in it, collects the  *)
(* bytes in cmd_buffer and hands the server what lies between.  The        *)
(* checksum behind "#" is not waited for: it is the head of the next round.*)
(***************************************************************************)
EXTENDS Integers, Sequences

CONSTANTS
    Text,        \* bytes of a payload, without "#"
    MaxPayload,  \* bound: bytes of a payload
    PacketSize,  \* CDC_ACM_DATA_PACKET_SIZE
    BufferSize   \* bytes of cmd_buffer

ASSUME TextAssumption == {"#", "nul", "old", "h"} \cap Text = {}
ASSUME SizeAssumption ==
    /\ MaxPayload \in Nat \ {0} /\ PacketSize \in Nat \ {0}
    \* two digits of the last checksum, "+", "$", the payload, "#" and two digits
    /\ BufferSize \in Nat /\ BufferSize >= MaxPayload + 7

Bytes == Text \cup {"+", "$", "#", "h"}      \* "h": a digit of the checksum

VARIABLES
    payload,               \* host: the command it waits on, <<>> when on none
    wire,                  \* bytes the OUT endpoint has not taken
    armed, received, temp, \* the endpoint, cdc0_packet_receive, the packet
    dollar, sharp, total,  \* where "$" and "#" are, bytes so far
    cmdBuffer,             \* cmd_buffer
    taken                  \* what the server found in the packet, <<>> before

vars == <<payload, wire, armed, received, temp, dollar, sharp, total, cmdBuffer, taken>>

Init ==
    /\ payload = <<>> /\ wire = <<>>
    /\ armed = FALSE /\ received = FALSE /\ temp = <<>>
    /\ dollar = -1 /\ sharp = -1 /\ total = 0
    /\ cmdBuffer = [i \in 0 .. BufferSize - 1 |-> "old"]
    /\ taken = <<>>

-----------------------------------------------------------------------------
Payloads == UNION {[1 .. n -> Text] : n \in 1 .. MaxPayload}

\* The host frames a command; in the acknowledging mode "+" goes before it.
HostAsks ==
    /\ payload = <<>>
    /\ \E p \in Payloads, ack \in {<<>>, <<"+">>} :
        /\ payload' = p
        /\ wire' = wire \o ack \o <<"$">> \o p \o <<"#", "h", "h">>
    /\ UNCHANGED <<armed, received, temp, dollar, sharp, total, cmdBuffer, taken>>

\* A packet of any size arrives.
UsbOut ==
    /\ armed
    /\ \E n \in 1 .. PacketSize :
        /\ n =< Len(wire)
        /\ temp' = SubSeq(wire, 1, n)
        /\ wire' = SubSeq(wire, n + 1, Len(wire))
    /\ armed' = FALSE
    /\ received' = TRUE
    /\ UNCHANGED <<payload, dollar, sharp, total, cmdBuffer, taken>>

CmdArm ==
    /\ ~armed /\ ~received
    /\ armed' = TRUE
    /\ UNCHANGED <<payload, wire, received, temp, dollar, sharp, total, cmdBuffer, taken>>

\* Mutant: positions count from the start of the packet, not of the command.
FindInPacket(b, before) ==
    LET here == {i \in 1 .. Len(temp) : temp[i] = b}
    IN  IF before = -1 /\ here # {}
        THEN (CHOOSE i \in here : \A j \in here : i =< j) - 1
        ELSE before

\* Where byte b is in the stream: found before, found in temp, or not there.
Find(b, before) ==
    LET here == {i \in 1 .. Len(temp) : temp[i] = b}
    IN  IF before = -1 /\ here # {}
        THEN total + (CHOOSE i \in here : \A j \in here : i =< j) - 1
        ELSE before

\* Mutant: "$" as the first byte of the stream is taken for "not found".
CompleteAfterFirst(d, s) == d > 0 /\ s > 0

Complete(d, s) == d >= 0 /\ s > 0

\* Mutant: the next command goes on counting where this one ended.
RestartedNever(done, value, start) == value

\* The variables of the loop start anew with every command.
Restarted(done, value, start) == IF done THEN start ELSE value

\* One round of the loop, and with the last one the command for the queue:
\* NUL over "#", and the next command starts from nothing.
CmdParse ==
    LET d == Find("$", dollar)
        s == Find("#", sharp)
        copied == [i \in 0 .. BufferSize - 1 |->
                      IF d >= 0 /\ i \in total .. total + Len(temp) - 1
                      THEN temp[i - total + 1] ELSE cmdBuffer[i]]
        len == s - d - 1
        done == Complete(d, s)
    IN  /\ received
        /\ received' = FALSE
        /\ IF done
           THEN /\ cmdBuffer' = [copied EXCEPT ![d + 1 + len] = "nul"]
                /\ taken' = [i \in 1 .. len |-> cmdBuffer'[d + i]]
           ELSE /\ cmdBuffer' = copied
                /\ UNCHANGED taken
        /\ dollar' = Restarted(done, d, -1)
        /\ sharp' = Restarted(done, s, -1)
        /\ total' = Restarted(done, total + Len(temp), 0)
        /\ temp' = <<>>
        /\ UNCHANGED <<payload, wire, armed>>

\* The server is done with the command and the host has its answer.  The bytes
\* the command leaves in the buffer are called "old" from here on.
Answer ==
    /\ taken # <<>>
    /\ taken' = <<>>
    /\ payload' = <<>>
    /\ cmdBuffer' = [i \in 0 .. BufferSize - 1 |-> "old"]
    /\ UNCHANGED <<wire, armed, received, temp, dollar, sharp, total>>

Next == HostAsks \/ UsbOut \/ CmdArm \/ CmdParse \/ Answer

Spec == Init /\ [][Next]_vars /\ WF_vars(UsbOut) /\ WF_vars(CmdArm \/ CmdParse) /\ WF_vars(Answer)

-----------------------------------------------------------------------------
TypeOK ==
    /\ payload \in Payloads \cup {<<>>}
    /\ wire \in Seq(Bytes)
    /\ armed \in BOOLEAN /\ received \in BOOLEAN
    /\ temp \in Seq(Bytes) /\ Len(temp) =< PacketSize
    /\ dollar \in -1 .. BufferSize /\ sharp \in -1 .. BufferSize
    /\ total \in 0 .. BufferSize
    /\ cmdBuffer \in [0 .. BufferSize - 1 -> Bytes \cup {"nul", "old"}]
    /\ taken \in Seq(Bytes)

\* However the stream was cut, the server reads exactly the payload.
CommandExact == taken # <<>> => taken = payload

\* No packet is copied past the end of cmd_buffer.
NoOverrun == received => total + Len(temp) =< BufferSize

\* Every command reaches the server.
CommandArrives == payload # <<>> ~> taken # <<>>
=============================================================================
