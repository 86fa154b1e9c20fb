-------------------------------- MODULE CdcAcm --------------------------------
(***************************************************************************)
(* The USB device of cdc_acm_core.c with its two functions: the debugger's *)
(* (RspPacket, on endpoint 1) and the serial bridge of usb-serial.c (on    *)
(* endpoint 2), which turns what the UART receives into packets.  Both     *)
(* live on endpoints that a new configuration sets up and clears; the      *)
(* UART's line coding comes over the control endpoint.                     *)
(*                                                                         *)
(* USB's and the UART's interrupts have the same level: a handler is one   *)
(* action.  cdc1_packet_sent, which nobody reads, is left out, and so is   *)
(* the way to the UART: nobody arms its OUT endpoint.                      *)
(***************************************************************************)
EXTENDS RspPacket

CONSTANTS
    Chars,      \* bytes the UART receives
    Codings,    \* line codings the host sets: their bytes, and the rate meant
    MaxResets   \* bound: how often the host takes the configuration away

ASSUME CharAssumption   == Chars \subseteq 0 .. 255
\* A coding means what PSTN120 says its bytes mean.
ASSUME CodingAssumption == \A c \in Codings :
    /\ c.bytes \in [1 .. 7 -> 0 .. 255]
    /\ c.rate = c.bytes[1] + 256 * c.bytes[2] + 65536 * c.bytes[3] + 16777216 * c.bytes[4]
ASSUME ResetAssumption  == MaxResets \in Nat

VARIABLES
    traffic,         \* bound: the function the host uses, as they share no data
    endpoints,       \* endpoints that are set up
    resets,
    cdc_cmd, usb_cmd_buffer, linecoding,
    rate,            \* of the UART
    control,         \* host: the control transfer it is at
    asked, told,     \* history: the coding it set last, and the answer since
    cache, index,    \* of USART0_IRQHandler
    xfer1,           \* the transfer of endpoint 2: its length, -1 when none
    owed,            \* history: what the UART got and the host has to hear yet
    late             \* history: the cache was written to with a packet waiting

serialVars  == <<cache, index, xfer1, owed, late>>
controlVars == <<cdc_cmd, usb_cmd_buffer, linecoding, rate, control, asked, told>>
deviceVars  == <<traffic, endpoints, resets, serialVars, controlVars>>

configuration_descriptor == [function \in {0, 1} |->
    IF function = 0 THEN [in |-> "EP1_IN", out |-> "EP1_OUT"]
                    ELSE [in |-> "EP2_IN", out |-> "EP2_OUT"]]

DataEndpoints == UNION {{f.in, f.out} : f \in Range(configuration_descriptor)}

\* USB_OTG_dev.dev.cur_status.
Configured == endpoints # {}

NO_CMD == 255
SET_LINE_CODING == 32
Default == [bytes |-> <<0, 194, 1, 0, 0, 0, 8>>, rate |-> 115200]

\* Mutant: the rate is that of the low two bytes.
CodingOfTwo(b) == [dwDTERate |-> b[1] + 256 * b[2], format |-> SubSeq(b, 5, 7)]

Coding(b) == [dwDTERate |-> b[1] + 256 * b[2] + 65536 * b[3] + 16777216 * b[4],
              format    |-> SubSeq(b, 5, 7)]
Coded(c) ==
    [i \in 1 .. 4 |-> (c.dwDTERate \div <<1, 256, 65536, 16777216>>[i]) % 256] \o c.format

DeviceInit ==
    /\ Init
    /\ traffic \in {"replies", "serial"} /\ endpoints = {} /\ resets = 0
    /\ cdc_cmd = NO_CMD /\ usb_cmd_buffer = [i \in 1 .. 7 |-> 0]
    /\ linecoding = Coding(Default.bytes) /\ rate = Default.rate
    /\ control = "idle" /\ asked = Default /\ told = <<>>
    /\ cache = [i \in 0 .. PacketSize - 1 |-> 0] /\ index = 0
    /\ xfer1 = -1 /\ owed = <<>> /\ late = FALSE

-----------------------------------------------------------------------------
(* The serial bridge.                                                       *)

Held(n)  == [i \in 1 .. n |-> cache[i - 1]]
InFlight == IF xfer1 > 0 THEN Held(xfer1) ELSE <<>>

\* Mutant: the index is not set back.
IndexAfterKept(full) == index + 1

IndexAfter(full) == IF full THEN 0 ELSE index + 1

\* USART0_IRQHandler.  A packet for an endpoint that is not set up is lost, and
\* one that still waits is replaced.
UartReceives(c) ==
    LET full == index + 1 >= PacketSize \/ c = 10
    IN  /\ cache' = [cache EXCEPT ![index] = c]
        /\ index' = IndexAfter(full)
        /\ xfer1' = IF full /\ Configured THEN index + 1 ELSE xfer1
        /\ late' = (late \/ xfer1 > 0)
        /\ owed' = IF late' \/ (full /\ ~Configured) THEN <<>> ELSE Append(owed, c)
        /\ UNCHANGED <<traffic, endpoints, resets, controlVars, vars>>

\* The packet that waits is gone: heard, or lost with the endpoint.
Gone ==
    /\ late' = FALSE
    /\ owed' = IF late THEN Held(index) ELSE SubSeq(owed, Len(InFlight) + 1, Len(owed))

\* cdc_acm_data_in_handler: the host took the packet.
SerialIn ==
    /\ xfer1 >= 0
    /\ xfer1' = IF NeedsEmpty(xfer1) THEN 0 ELSE -1
    /\ IF xfer1 > 0 THEN Gone ELSE UNCHANGED <<late, owed>>
    /\ UNCHANGED <<traffic, endpoints, resets, controlVars, cache, index, vars>>

-----------------------------------------------------------------------------
(* The control endpoint.  A host may give a transfer up for another one.    *)

\* cdc_acm_req_handler; "state" stands for the requests it ignores.
cdc_acm_req_handler(request) ==
    /\ Configured /\ traffic = "serial"
    /\ control' = IF request = "state" THEN "idle" ELSE request
    /\ cdc_cmd' = IF request = "set" THEN SET_LINE_CODING ELSE cdc_cmd
    /\ usb_cmd_buffer' = IF request = "get" THEN Coded(linecoding) ELSE usb_cmd_buffer
    /\ UNCHANGED <<traffic, endpoints, resets, serialVars, linecoding, rate, asked, told, vars>>

\* cdc_acm_ep0_data_out_handler, when the host has sent the coding.
DataOut(coding) ==
    /\ control = "set" /\ control' = "idle"
    /\ usb_cmd_buffer' = coding.bytes /\ asked' = coding /\ told' = <<>>
    /\ IF cdc_cmd = SET_LINE_CODING
       THEN /\ linecoding' = Coding(coding.bytes)
            /\ cdc_cmd' = NO_CMD
            /\ rate' = linecoding'.dwDTERate
       ELSE UNCHANGED <<linecoding, cdc_cmd, rate>>
    /\ UNCHANGED <<traffic, endpoints, resets, serialVars, vars>>

\* The host reads the answer to GET_LINE_CODING.
Answered ==
    /\ control = "get" /\ control' = "idle"
    /\ told' = usb_cmd_buffer
    /\ UNCHANGED <<traffic, endpoints, resets, serialVars, cdc_cmd, usb_cmd_buffer,
                   linecoding, rate, asked, vars>>

-----------------------------------------------------------------------------
\* SET_CONFIGURATION.
cdc_acm_init ==
    /\ ~Configured
    /\ endpoints' = DataEndpoints
    /\ UNCHANGED <<traffic, resets, serialVars, controlVars, vars>>

\* The configuration is taken away, and what waits on an endpoint with it.
cdc_acm_deinit ==
    /\ Configured /\ resets < MaxResets
    /\ resets' = resets + 1
    /\ endpoints' = endpoints \ DataEndpoints
    /\ xfer' = NoTransfer /\ xfer1' = -1 /\ control' = "idle"
    /\ IF xfer1 > 0 THEN Gone ELSE UNCHANGED <<late, owed>>
    /\ UNCHANGED <<traffic, cache, index, cdc_cmd, usb_cmd_buffer, linecoding, rate, asked,
                   told, reply, noAck, rspBuffer, data, len, rpc, sent, heard, lastPacket>>

\* A step of the debugger's function; a packet is sent when the device is
\* configured.
Replying(A) == traffic = "replies" /\ A /\ UNCHANGED deviceVars

DeviceNext ==
    \/ Replying(Configured /\ ServerReplies)
    \/ Replying(Frame)
    \/ Replying(Configured /\ Send)
    \/ Replying(DataIn)
    \/ Replying(Wait)
    \/ traffic = "serial" /\ \E c \in Chars : UartReceives(c)
    \/ SerialIn
    \/ \E request \in {"set", "get", "state"} : cdc_acm_req_handler(request)
    \/ \E coding \in Codings : DataOut(coding)
    \/ Answered
    \/ cdc_acm_init
    \/ cdc_acm_deinit

allVars == <<vars, deviceVars>>

\* The task runs, and the host configures the device and takes its packets.
DeviceSpec ==
    /\ DeviceInit /\ [][DeviceNext]_allVars
    /\ WF_allVars(Replying(Frame \/ (Configured /\ Send) \/ Wait))
    /\ WF_allVars(Replying(DataIn)) /\ WF_allVars(cdc_acm_init)

-----------------------------------------------------------------------------
\* What the UART received and the host has not heard is the packet that waits
\* and the line in the cache, byte for byte, unless a byte came while a packet
\* waited: that spoils the packet, and nothing behind it.
SerialExact ==
    /\ index < PacketSize
    /\ ~late => owed = InFlight \o Held(index)

\* The UART runs at the rate the host set last, and the host is told of that
\* coding, whatever control transfers it gave up in between.
LineHeld == rate = asked.rate /\ told \in {<<>>, asked.bytes}

\* A reset of the bus took the packet the task waits for.
Stranded == resets > 0 /\ rpc = "wait" /\ ~sent /\ xfer = NoTransfer

\* Every reply is sent to its end, unless a reset of the bus takes a packet of
\* it: the task waits for that one for ever.
ReplySent == rpc = "frame" ~> rpc = "recv" \/ Stranded
=============================================================================
