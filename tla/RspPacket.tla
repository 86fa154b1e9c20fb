------------------------------ MODULE RspPacket ------------------------------
(***************************************************************************)
(* gdb_rsp_packet_vTask byte by byte: a reply the server has written into  *)
(* rsp_buffer gets its frame around it in place and leaves in packets,     *)
(* with the empty packet cdc_acm_data_in_handler puts behind a full one.   *)
(* Bytes are numbers; the host looks at them one reply at a time.  CdcAcm  *)
(* puts the task on its endpoint of the USB device and gives its fairness. *)
(***************************************************************************)
EXTENDS Integers, Sequences, SequencesExt

CONSTANTS
    Text,        \* bytes a reply is made of
    MaxReply,    \* bound: bytes of a reply
    PacketSize,  \* CDC_ACM_DATA_PACKET_SIZE
    BufferSize   \* bytes of rsp_buffer

ASSUME TextAssumption == Text \subseteq 0 .. 255
ASSUME SizeAssumption ==
    /\ MaxReply \in Nat \ {0} /\ PacketSize \in Nat \ {0}
    \* "+$" before the reply, "#", two digits, "|" and NUL behind it
    /\ BufferSize \in Nat /\ BufferSize >= MaxReply + 7

Plus == 43
Dollar == 36
Sharp == 35
Bar == 124
Nul == 0

VARIABLES
    reply,        \* what the server asked to send, <<>> before the first
    noAck,        \* no_ack_mode when it is framed
    rspBuffer,    \* rsp_buffer
    data, len,    \* rsp.data as an index into rsp_buffer, rsp.len
    rpc,          \* "recv", "frame", "send" or "wait"
    xfer,         \* transfer of the IN endpoint: [from, len], len -1 when none
    sent,         \* cdc0_packet_sent
    heard,        \* host: the bytes since the reply was asked for
    lastPacket    \* host: the size of the last packet

vars == <<reply, noAck, rspBuffer, data, len, rpc, xfer, sent, heard, lastPacket>>

NoTransfer == [from |-> 0, len |-> -1]

Init ==
    /\ reply = <<>> /\ noAck = FALSE
    /\ rspBuffer = [i \in 0 .. BufferSize - 1 |-> Nul]
    /\ data = 2 /\ len = 0
    /\ rpc = "recv"
    /\ xfer = NoTransfer /\ sent = FALSE
    /\ heard = <<>> /\ lastPacket = 0

-----------------------------------------------------------------------------
\* rsp_buffer with the bytes of s put at index at.
Put(buf, at, s) ==
    [i \in DOMAIN buf |-> IF i \in at .. at + Len(s) - 1 THEN s[i - at + 1] ELSE buf[i]]

\* gdb_packet_checksum: the loop, and what it returns.
Total(bytes) ==
    LET checksum[i \in 0 .. Len(bytes)] == IF i = 0 THEN 0 ELSE checksum[i - 1] + bytes[i]
    IN  checksum[Len(bytes)]

Checksum(bytes) == Total(bytes) % 256

\* The text of snprintf("#%02x|").
HexDigit(d) == IF d < 10 THEN 48 + d ELSE 87 + d
Trailer(sum) == <<Sharp, HexDigit(sum \div 16), HexDigit(sum % 16), Bar>>

Replies == UNION {[1 .. n -> Text] : n \in 1 .. MaxReply}

\* The server writes a reply at rsp_buffer[2] and queues it; RspIntact of
\* GdbTransport says that it does so only while no reply is being sent.
ServerReplies ==
    /\ rpc = "recv"
    /\ \E r \in Replies, mode \in BOOLEAN :
        /\ reply' = r
        /\ noAck' = mode
        /\ rspBuffer' = Put(rspBuffer, 2, r)
        /\ len' = Len(r)
    /\ data' = 2
    /\ heard' = <<>>
    /\ rpc' = "frame"
    /\ UNCHANGED <<xfer, sent, lastPacket>>

Frame ==
    LET payload == [i \in 1 .. len |-> rspBuffer[data + i - 1]]
        behind  == Put(rspBuffer, data + len, Trailer(Checksum(payload)) \o <<Nul>>)
        before  == IF noAck THEN <<Dollar>> ELSE <<Plus, Dollar>>
    IN  /\ rpc = "frame"
        /\ rspBuffer' = Put(behind, data - Len(before), before)
        /\ data' = data - Len(before)
        /\ len' = len + Len(before) + 4
        /\ rpc' = "send"
        /\ UNCHANGED <<reply, noAck, xfer, sent, heard, lastPacket>>

\* Mutant: cdc0_packet_sent is still set from the packet before.
SendStale ==
    LET n == IF len >= PacketSize THEN PacketSize ELSE len
    IN  /\ rpc = "send"
        /\ xfer' = [from |-> data, len |-> n]
        /\ data' = data + n
        /\ len' = len - n
        /\ rpc' = "wait"
        /\ UNCHANGED <<reply, noAck, rspBuffer, sent, heard, lastPacket>>

\* Mutant: the rest of the frame goes out in one transfer.
SendAll ==
    /\ rpc = "send"
    /\ sent' = FALSE
    /\ xfer' = [from |-> data, len |-> len]
    /\ data' = data + len
    /\ len' = 0
    /\ rpc' = "wait"
    /\ UNCHANGED <<reply, noAck, rspBuffer, heard, lastPacket>>

\* One round of the loop up to usbd_ep_send.
Send ==
    LET n == IF len >= PacketSize THEN PacketSize ELSE len
    IN  /\ rpc = "send"
        /\ sent' = FALSE
        /\ xfer' = [from |-> data, len |-> n]
        /\ data' = data + n
        /\ len' = len - n
        /\ rpc' = "wait"
        /\ UNCHANGED <<reply, noAck, rspBuffer, heard, lastPacket>>

\* Mutant: no empty packet behind a full one.
NeedsEmptyNever(n) == FALSE

\* Mutant: an empty packet is followed by another one.
NeedsEmptyAlways(n) == n % PacketSize = 0

\* A transfer that fills its last packet is closed by an empty one.
NeedsEmpty(n) == n % PacketSize = 0 /\ n # 0

\* cdc_acm_data_in_handler: the host took the packet.
DataIn ==
    /\ xfer.len >= 0
    /\ heard' = heard \o [i \in 1 .. xfer.len |-> rspBuffer[xfer.from + i - 1]]
    /\ lastPacket' = xfer.len
    /\ IF NeedsEmpty(xfer.len)
       THEN xfer' = [xfer EXCEPT !.len = 0] /\ UNCHANGED sent
       ELSE xfer' = NoTransfer /\ sent' = TRUE
    /\ UNCHANGED <<reply, noAck, rspBuffer, data, len, rpc>>

Wait ==
    /\ rpc = "wait"
    /\ sent
    /\ rpc' = IF len > 0 THEN "send" ELSE "recv"
    /\ UNCHANGED <<reply, noAck, rspBuffer, data, len, xfer, sent, heard, lastPacket>>

-----------------------------------------------------------------------------
TypeOK ==
    /\ reply \in Replies \cup {<<>>}
    /\ noAck \in BOOLEAN
    /\ rspBuffer \in [0 .. BufferSize - 1 -> 0 .. 255]
    /\ data \in 0 .. BufferSize /\ len \in 0 .. BufferSize
    /\ rpc \in {"recv", "frame", "send", "wait"}
    /\ xfer \in [from : 0 .. BufferSize - 1, len : -1 .. PacketSize]
    /\ sent \in BOOLEAN
    /\ heard \in Seq(0 .. 255)
    /\ lastPacket \in 0 .. PacketSize

\* When the task waits for the next reply the host has heard the frame of this
\* one, byte for byte: "+" only in the acknowledging mode, "$", the reply, and
\* the two hex digits of the sum of its bytes modulo 256 between "#" and "|".
HeardExact ==
    rpc = "recv" /\ reply # <<>> =>
        LET total == Total(reply)
            digit(d) == <<48, 49, 50, 51, 52, 53, 54, 55, 56, 57,
                          97, 98, 99, 100, 101, 102>>[d + 1]
        IN  heard = (IF noAck THEN <<>> ELSE <<Plus>>) \o <<Dollar>> \o reply
                        \o <<Sharp, digit((total \div 16) % 16), digit(total % 16), Bar>>

\* The last packet of a frame is short, so that the host's read ends there.
EndsShort == rpc = "recv" => lastPacket < PacketSize
=============================================================================
