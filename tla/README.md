# Verification of the Nuclei DLink firmware

DLink is the firmware of a RISC-V debug probe: a GD32VF103 microcontroller that
speaks a GDB-like protocol over USB on one side and JTAG or cJTAG on the other.
This directory holds TLA+ models of it, the TLC configurations that check them
and proofs about them. Paths below are relative to `src/`.

## 1. The system

### Parts, their state and operations

| Part | Files | State | Operations |
|---|---|---|---|
| Remote transport | `server/gdb-server/source/gdb-packet.c` | `cmd_buffer`, `rsp_buffer`, two queues of length one, `no_ack_mode`, the positions of `$` and `#`, the reply under way | the two tasks `gdb_cmd_packet_vTask` (priority 2) and `gdb_rsp_packet_vTask` (3) |
| Server task | `dlink.c`, `server/gdb-server/source/gdb-server.c` | `gdb_connected`, `target_running`, `restore_reg_flag`, saved registers, halt reason | `gdb_server_poll` (priority 4) and one handler per command |
| Breakpoints | `arch/riscv/source/riscv-target.c` | `software_breakpoints[]`, `hardware_breakpoints[]`; in the target: ebreak instructions and trigger registers | insert, remove, the clearing at connection and after a halt |
| Run control | same | `dcsr`, `dpc`, `dmcontrol`, `dmstatus` | reset, halt, halt check, resume, step |
| Register and memory access | same | `target.dm`, `err_flag`, fp, s1, mstatus, vtype, vl borrowed during a transfer | abstract commands, program buffer |
| Debug module interface | same | `target.dmi`, `target.dtm`, `last_reg`, `result` | `rv_dmi_read`, `rv_dmi_write`, `rv_dtm_sync` |
| TAP | `arch/riscv/source/riscv-tap.c` | the TAP state machine, protocol mode | shift, idle, cJTAG activation |
| Flash loader | `flash/source/flash.c` | `is_nuspi`; in the target: SPI controller and flash | init, erase, write, read |
| USB device | `soc/*/cdc_acm_core.c` | `cdc0_packet_sent`, `cdc0_packet_receive`, `cdc0_receive_length`, the endpoints, `cdc_cmd`, `usb_cmd_buffer`, `linecoding` | data in and data out handlers, class requests, init and deinit |
| Serial bridge | `soc/*/usb-serial.c` | `cache`, `index` | the UART interrupt |

`soc/gd32vf103/gd32vf103v_rvstar` repeats the files of `gd32vf103c_dlink` with
other pins, and `soc/cm32m433r` is a port without a USB part of its own.

### How they interact

The host writes a command to the OUT endpoint. The USB interrupt sets
`cdc0_packet_receive`; the command task, which polls that flag, appends the packet
to `cmd_buffer` and, when `$` and `#` are in, queues a pointer into the buffer. The
server task takes it, runs the handler, which works on the target through registers,
memory, DMI and TAP, writes a reply at `rsp_buffer[2]` and queues a pointer to it.
The reply task frames it in place and sends packet after packet, polling
`cdc0_packet_sent`, which the USB interrupt sets. Nothing locks the buffers or the
flags. `no_ack_mode` is written by the server and read by the reply task.

### What is hard

* Three tasks of different priorities and two interrupts share two buffers and
  three flags without a lock; the queues only carry pointers.
* Some handlers queue their reply before their effect (`QStartNoAckMode`, `k`,
  `set:protocol`), so what the host hears and what holds may part.
* A `\x03` may come at any time, and a target may halt by itself at that moment.
* USB cuts the stream of commands anywhere; replies need an empty packet behind a
  full one; a reset of the bus takes what is on its way.
* A DMI access may be busy or fail, and is retried a bounded number of times; nothing
  above looks at how it ended. The scan register is cached in a static that outlives
  sessions and targets.
* A register that the debug module does not reach is fetched by way of other registers,
  which have to be given back, whatever fails in between.
* `reg_tmp` and `mem_buffer` are static: what a command does not fill is what an earlier
  one left.
* Polls of the SPI controller time out by an unsigned counter that wraps.
* `vTaskDelay(5 / portTICK_PERIOD_MS)` is `vTaskDelay(0)` at 100 Hz: the polling
  loops yield and do not block.
* Requests to the target fail half-way: a slot taken for a trigger that does not
  match, a write to memory that is not RAM, an abstract command that fails.
* Host, probe and target each keep a view of breakpoints and session, and a
  reconnection or a reset clears only some of them.

### What makes each part correct

* Transport: a queued message is the one in the buffer; the host hears whole answers
  to what it asked; the frame is in the mode of the session; every command is answered.
* Server: the session the host was told of is the one the probe is in.
* Breakpoints: memory and triggers are what the tables say, and the tables are what
  the host was told; taking breakpoints out puts the program back; no slot is lost.
* Run control: the stop reason is that of this stop.
* Register access: a transfer leaves every other register as it was, errors included.
* DMI and TAP: both ends agree on format, state and selected register; an access that
  is said to be done was carried out once.
* Flash: what was acknowledged is in the flash and nothing beside it has changed.
* Serial bridge: the host gets the bytes the UART received, in lines.

`PROJECT.json` lists the hazards line by line, with the properties that watch them.

## 2. The modules

### GdbTransport

The transport at the grain of messages. A message is the name of what it asks for;
a buffer holds the name of the message written there last; `cmdQ`, `rspQ` and
`rlabel` hold the message that was *meant* when a pointer was queued, so that a buffer
overwritten too early shows. Every task has a program counter (`cpc`, `spc`, `rpc`)
whose values are the places where another task or an interrupt can see a difference:

| Action | Code |
|---|---|
| `CmdArm`, `CmdParse`, `CmdSend` | the loop of `gdb_cmd_packet_vTask` |
| `UsbOut`, `UsbIn` | `cdc_acm_data_out_handler`, `cdc_acm_data_in_handler` |
| `SrvDispatch` | the receive without a timeout of `gdb_server_poll` and the handler it selects |
| `SrvTakeRunning`, `SrvTimeout`, `SrvHalted`, `SrvStillRuns` | the receive with a timeout, the `\x03` branch and the halt check |
| `SrvWake` | the end of the delays in `rv_target_reset` |
| `SrvPost`, `SrvAfter` | `gdb_server_send_response` and what a handler does behind it |
| `RspTake`, `RspFrame`, `RspSend`, `RspWait` | `gdb_rsp_packet_vTask` |
| `HostAsks`, `HostBreaks` | the debugger |

Commands fall into classes by their effect on the session: `Asks` (those that only
work on the target), `connect` (`+:set:protocol`), `kill` (`k`), `noack`
(`QStartNoAckMode`), `reset` (`qRcmd` reset, which sleeps), `cont` (`c` and `s`),
`quiet` (commands no branch answers) and `break` (`\x03`).

Scheduling is in the guards. `configUSE_PREEMPTION` is 1, so a step of the reply task
needs the server blocked (`RspRuns`), and a step of the command task needs both
others blocked (`CmdRuns`). As the delays are zero ticks long the reply task is never
blocked while it sends.

Of the host the model assumes that it asks one command at a time, that it resumes
the target only in a session it was told of, and that it takes the packets it is
sent. It may send `\x03` at any moment.

### RemoteSession

The same system as its debugger may think of it: a command is carried out once, its
effect is in force before its answer arrives, and a target that runs brings one stop
reply. `GdbTransport` implements it under the mapping `Session`: `todo` is the asked
command while it is in any of the places a message can be in, `answer` the contents of
`rsp_buffer` while a reply is on its way. The refinement catches reorderings no
invariant names.

### CmdPacket and RspPacket

The two loops of `gdb-packet.c` byte by byte: `CmdPacket` has the search for `$` and
`#` over packets cut anywhere, the copy into `cmd_buffer` and the leftover checksum that
opens the next round; `RspPacket` has the framing in place, checksum, the packets and
the empty packet of `cdc_acm_data_in_handler`. `RspPacket` takes from `GdbTransport`
that the server does not write `rsp_buffer` while it is being sent (`RspIntact`). It has
the steps only; `CdcAcm` puts them together with the device they go through.

### CdcAcm

The USB device: the debugger's function (`RspPacket`, endpoint 1), the serial bridge
(endpoint 2), the line coding on the control endpoint, and the configuration all of them
need.

| Action | Code |
|---|---|
| `Replying(...)` | `gdb_rsp_packet_vTask`, where it asks for `USBD_CONFIGURED` |
| `UartReceives` | `USART0_IRQHandler` |
| `DataIn`, `SerialIn` | `cdc_acm_data_in_handler`, either endpoint |
| `cdc_acm_req_handler`, `DataOut` | the class requests, and `cdc_acm_ep0_data_out_handler` behind the data of one |
| `cdc_acm_init`, `cdc_acm_deinit` | the host configures the device, or a bus reset takes that away |

A packet's bytes are read when the host takes it: the USB core is not in the repository,
and later than that it cannot copy. A UART byte that comes while a packet waits then
spoils it (`late`), and `SerialExact` says that it spoils nothing else. What the model
brings to light besides: a bus reset while a packet is on its way leaves the reply task in
`while (!cdc0_packet_sent)` for ever (`Stranded`, the exception in `ReplySent`); a line
that ends before the device is configured is lost; `cdc_cmd` survives a control
transfer that was given up, harmlessly (`LineHeld`); no code arms the OUT endpoint of the
bridge, so nothing reaches the UART. Stop bits, parity and word length are handed to the
library as the host's numbers, where `usb_serial_init` uses the library's constants; only
the rate is modelled as an effect.

### Dmi, RiscvTap and TapTarget

From a DMI access down to the edges of TCK. `TapTarget` is the other end and external: the
TAP controller of IEEE 1149.1, the adapter of IEEE 1149.7 some targets have before it
(activated by zero-bit scans or by an escape), and a debug transport that takes its time
or fails. `RiscvTap` has the functions of `riscv-tap.c` as operators on the link between
the two, tick by tick, with `oscan1_mode`. `Dmi` has `rv_dtm_sync` with its cached
`last_reg`, `rv_dmi_read` and `rv_dmi_write` with their retries and the reset of a sticky
status, and `rv_target_init_post`. A register is scanned field by field instead of bit by
bit.

Nothing else touches the wires, so a call is one action: `Connect`, `Read`, `Write`,
`Disconnect`, and `Replace`, which exchanges the target or powers it down at any time,
with the session open or not. An access is answered as `Answers` says, chosen with the
call. `last_reg` survives all of it, and `EndsAgree` holds because every connection begins
with a scan of IDCODE and a reset of the TAP selects just that. `Disconnect` has the one
write of `rv_target_fini_pre` that closes the debug module, not its accesses to dcsr.

### Commands, RegisterAccess, MemoryAccess and Hart

`Hart` is external: a halted hart by its width, its extensions, the classes of registers
its abstract commands reach and whether it has a program buffer; it runs the instructions
the probe puts there. `RegisterAccess` has `rv_target_read_register` and
`rv_target_write_register` with everything they call, and `rv_target_init_after_halted`
as far as it touches registers; each operator takes and returns an access: the hart, what
`target` knows of it, `err_flag`, and the value read. `MemoryAccess` has the transfers,
with access width and stop at an error, and the codecs. `Commands` has a handler an action:

| Action | Code |
|---|---|
| `gdb_server_cmd_custom_set`, `..._custom_read` | `+:set:protocol` with the connection it makes, `+:read` |
| `gdb_server_cmd_qRcmd` | `monitor halt`, and an unknown command (`monitor reset` is in `RunControl`) |
| `gdb_server_cmd_p`, `_P`, `_g`, `_G` | registers, in hexadecimal of the width the probe found |
| `gdb_server_cmd_m`, `_M`, `_x`, `_X` | memory, in hexadecimal or escaped |

A byte has four bits and a hexadecimal digit two; a register has a byte for every 16 of
its bits, so that a value of 32 bits is below 256, one of 64 bits below 65536, and `Lower`
and `Upper` are the halves. An access carries the width it transfers: dcsr is 32 bits on
every hart (`riscv-target.c:209`), and the value goes into the buffer of the caller, half
of which may stay what it was (`Into`). That buffer is `reg_tmp` of `p` and `P`, which
outlives the command: on a 64-bit hart `p` of priv (`:914`), or of a dcsr that an abstract
command reads, sends an upper half that an earlier `p` or `P` left there
(`gdb-server.c:445`). `HalfStale` names the two cases, and `TransfersRight` says of them
what is sent. `+:read:misa` answers misa cut to 32 bits, with MXL on top (`Packed`,
`riscv-target.c:807`). The properties name what the code does not give back, as exceptions a reader may
want to know of: `vstart` behind every vector access; FS or VS, which are switched off
behind an access whatever they were (`riscv-target.c:189`); `fp` of a 32-bit hart with a
program buffer, which is left with misa at every connection, as the 64-bit attempt reads
misa through `fp` and fails to restore it (`:787`); `fcsr`, which needs FS and is not
prepared for. `m` of memory that does not answer sends what `mem_buffer` held before;
`x` may send less than was asked for, as `bin_encode` counts its escapes.

### Flash, FlashMemory and SpiFlash

`SpiFlash` is the external NOR chip: programming clears bits and wraps in its page, a
command needs the write enable latch and an idle chip. `Flash` has `flash.c` a frame or a
poll an action, under the vFlash commands: `FlashInit`, `ClearRxFifo`, `Identify`;
`FlashErase`, `FlashWrite`, `WriteEnable`, `EraseBlock`, `ProgramPage`, `AskStatus`,
`ReadStatus`. The controller keeps a byte waiting for as many polls as `Polls` says; the
last allowed try and one more are among them, where `times_out--` goes wrong in two ways.
`FlashMemory` is what the commands promise, and `DoesAsAsked` the refinement: a plain
memory whose cells go to what was asked and no other way, mapped again when the answer
goes out. Once the controller was too slow the content is no longer promised, as the code
drops bytes and goes on; nor does the server tell the host, whose vFlash is answered OK
whatever the functions return. `is_nuspi` is never cleared: behind a board with the newer
controller, one with the older hangs in `nuspi_init` (`Misjudged`, the exception in
`Answered`).

### Breakpoints

`rv_target_insert_breakpoint` and `rv_target_remove_breakpoint` with the memory and the
triggers behind them. Memory is counted in halfwords, the unit of the code's accesses;
a halfword is the program's or a piece of an ebreak. Addresses outside `Ram` can be read
and not written. `rv_memory_write` stops at the first error (`riscv-target.c:391`) and no
caller looks: of an ebreak, or of what is put back, the halfwords up to the first that is
not in `Ram` are written (`Reached`), and `SoftAgrees` expects just those. Each trigger
takes the accesses in `Supports`, as the read-back of `tdata1` tests. `tselect` goes back
to what it was only where the trigger is accepted; the early returns leave it at the one
tried (`TselectAfter`), which no property forbids, as every use selects first. `MonitorHalt` and
`Connect` are the other code that touches the tables or the triggers. Hardware requests
have kind 4. The host inserts no software breakpoint over another one, removes only
what was acknowledged, and, with `KeepsInserted = FALSE`, has no breakpoint in place
when it sends `monitor halt` or connects (GDB's default; with `TRUE`
`rv_target_init_after_halted` clears triggers the tables still name, and
`AcknowledgedIsPlanted` does not hold).

### RunControl

The stop and the start of the target: the handlers of `c`, `s`, `g`, `G`, the algorithm
command, `monitor reset` and `monitor halt`, the halt check of `gdb_server_poll`, and
`rv_target_halt_check` (`TriggerReason`) over a target whose triggers have hit bits,
have none, or fire behind the access. The triggers are those of `hard`: `Breakpoints`
shows that the two agree for such a host. `access` is what the instruction at `dpc`
accesses once it is decoded, which `WatchpointInst` looks at. The core registers are one
value; `own` is what the program left in them, `why` the breakpoints that fired since the
last stop reply. Of the host the module assumes what GDB does by default: it takes its
breakpoints out at every stop and puts them back before it goes on, and lets a flash
algorithm finish. Both assumptions matter: with breakpoints kept in place an old hit bit
names a later stop, and with a `\x03` in the middle of an algorithm `restore_reg_flag`
stays set for the halt after the next resume.

### WatchpointInst

`rv_parse_watchpoint_inst` on instructions as functions of bits. The formats of the
instruction set (`Layout`) say which bits hold the offset; an instruction is put together
by them from an operation, a base and an offset, and the decoder has to get both back.

## 3. The runs

| Run | Shows | Bounds and why they are enough |
|---|---|---|
| `transport` | invariants, action property, two liveness properties, refinement | two `Asks`, enough to tell an answer from another; three messages on the wire, so that a `\x03` and an unanswered command run ahead of or behind a command; two packets a message, so that every buffer is seen half read. 71 157 states |
| `cmd_packet` | `CommandExact`, `NoOverrun`, `CommandArrives` | payloads of up to three bytes that may hold `$` and `+`, packets of up to three: every cut of a frame; the buffer has no byte to spare |
| `rsp_packet` | `HeardExact`, `EndsShort`, `SerialExact`, `LineHeld`, `ReplySent` | replies whose sum passes 255, packets of four: frames that end in, at and one before the end of a packet; lines that fill the cache and shorter ones; rates of two bytes and of three; one reset of the bus at any moment. The host uses one function or the other (`traffic`), as they share no data. 68 267 states |
| `breakpoints` | tables against memory, triggers and host | four halfwords, the second of them not writable: breakpoints of both kinds that touch and overlap, that begin before it, begin at it, with RAM behind, and end in it; two slots of each table and two triggers: full tables and reuse. 203 478 states |
| `breakpoints_capacity` | a violation of `HardCapacity` | the same with triggers that only match execution |
| `run_control` | `RegistersSurvive`, `StopNamesItsCause`, `ContinueRuns` | two instructions and two watched addresses in two slots: two breakpoints at a time, of any types, and slots with stale addresses; two values of the registers. 787 288 states |
| `run_control_reset` | a violation of `EbreakEntersDebug` | the same |
| `watchpoint_inst` | `DecodedRight` on RV32 | every compressed load and store; the full ones with every base and offsets that set each bit alone; the other bits all zero and all one |
| `watchpoint_inst_rv64` | a violation of `DecodedRight` | the same on RV64 |
| `dtm` | `EndsAgree`, `AccessExact`, `PromptIsDone`, `ComesUp` | six targets: no adapter, both kinds of adapter with four wires and with two, none at all; accesses within the promised idle cycles, beyond them, and so late that they outlive the retries and meet the next call. 7 381 states |
| `flash` | `DoesAsAsked` (refinement of `FlashMemory`), `Answered` | eight bytes of one bit in pages of two and blocks of four: writes that begin in the middle of a page and span three; `TIMES_OUT` 3 with waits of 0, 2 (the last try) and 3 polls, one slow byte in a session; both controllers, exchanged. 390 736 states |
| `registers` | `Undisturbed`, `TransfersRight`, `MemoryExact` | six harts of either width, with and without F and V, a program buffer and abstract access to CSRs, halted with FS and VS on or off; three register commands (a connection, an access, what it left behind) or two on memory (`topic`, as they share no state); ten bytes of memory, in half of the cases one word that does not answer; a `mem_buffer` of six. mscratch and dpc use both halves of a 64-bit register, so that `p` of priv or dcsr behind them finds one in `reg_tmp`. 88 529 states |

Deadlock is not checked in `rsp_packet`, where a bus reset leaves the reply task waiting,
in `run_control`, where a target may run for ever (an algorithm
loaded after `monitor reset` has no ebreak to stop it), nor in `watchpoint_inst`, whose
decoder ends.

`breakpoints_capacity` is a finding: `README_DLink.md:37` offers eight hardware
breakpoints, yet a request the target turns down keeps its slot (the early returns
at `riscv-target.c:1195` and `:1229` come after the slot was taken at `:1188`). The
host was told of an error and will not remove it.

`run_control_reset` is another: the comment at `riscv-target.c:823` promises that ebreak
instructions enter Debug Mode, and `monitor reset` resets the register that makes them.
Until `monitor halt` or a new connection a software breakpoint raises an exception in
the target. `watchpoint_inst_rv64` is the third: `README_DLink.md:17` offers RV64, and
the decoder takes C.LD and C.SD for C.FLW and C.FSW, which have their places on RV32.

### Fairness

`FairSpec` of `GdbTransport` asks for: weak fairness of the server task (the
highest priority; its receive has a timeout) and of the sleep in reset (the delays and
the loop of a hundred rounds end); weak fairness of the reply task, which runs when the
server blocks, and the server polls a running target only every 100 ms; strong
fairness of the command task, which gets the processor again and again but not
continuously; weak fairness of the two USB interrupts, that is, a host that takes
what it is sent and a USB that stays configured. Nothing obliges the host to ask, or the
target to halt. `CmdPacket` asks for weak fairness of the same parties, and `CdcAcm` of
the reply task, of a host that takes the packets of a configured device, and of a host
that configures it again. `Flash` asks for a server that runs and a chip that finishes
what it began; nothing is asked of the controller.

## 4. The proofs

Eight modules hold proofs, each beside the module it is about. A theorem holds for every
value of the constants that meets the named assumptions of that module; what a theorem
assumes beyond them stands in its `ASSUME` and below. Each inductive invariant was checked
with TLC on the instance of its run first.

| Module | Theorems | Beyond the module's own assumptions |
|---|---|---|
| `GdbTransportProofs` | `TypeCorrect`, `Invariant`, `ReplyIntact`, `CommandIntact`, `SessionInvariant`, `SessionAgreement`, `AckMode`, `AnswersMatch`, `TransportImplementsSession` | none |
| `CmdPacketProofs` | `Invariant`, `TypeCorrect`, `CommandsAreExact`, `NothingOverruns` | none |
| `CdcAcmProofs` | `Invariant`, `TypeCorrect`, `RepliesAreHeard`, `FramesEndShort`, `BytesReachTheHost`, `CodingIsKept` | none |
| `BreakpointsProofs` | `TypeCorrect`, `SoftTableTracksHost` | none |
| | `MemoryIsTheProgram` | `~KeepsInserted` |
| | `TriggersBelongToSlots`, `AcknowledgedArePlanted` | `~KeepsInserted`, `TriggersAlike` |
| | `CapacityIsOffered` | `~KeepsInserted`, `TriggersSuffice` |
| `RunControlProofs` | `TypeCorrect`, `RegistersAreThePrograms`, `ContinueIsNoStep`, `StopsAreNamed` | none |
| `FlashProofs` | `LoaderKeepsItsPromise` | none |
| `CommandsProofs` | `MemoryInvariant`, `MemoryIsExact`, `RegisterInvariant`, `RegistersUndisturbed`, `TransfersAreRight` | none |
| `WatchpointInstProofs` | `DecodesRight` | `Xlen = 32` |

Every property of a passing run that is not liveness is proved, but for the four
invariants of `dtm`.

### Transport

`RspIntact` and `CmdIntact` are not inductive: they hold because the host waits. `IInv`
says where a command can be while it does. `Owing` counts the places an unanswered command
or its answer can be in (wire, packet, buffer, queue, handler, reply queue, reply task); at
most one of them holds it (`OneAtATime`), what is behind it on the wire are breaks and
unanswered commands (`OnlyBreaks`), and a server that sleeps or posts leaves only breaks
for the command task to put into the buffer (`Apart`). The scheduler's guards are used where
two tasks could otherwise both be in the buffer. The session needs a second invariant,
`SInv`: what the host knows is the probe's session once the effect behind the reply is
applied (`Effects`), for which the reply task must not frame a reply before the server is
done (`Local`).

The refinement of `RemoteSession` rests on both, and on one fact more (`RInv`): what the
host waits for is a command that gets an answer. `UnderWay` lists the places between the host
and the handlers; as one of them at most is taken, a step of the command task or of USB
moves the command from one to the next, which the session does not see, `SrvDispatch` is
the session's carrying out, and the last packet of a reply its hearing. There is one lemma
for each action.

### Packets

`CmdPacketProofs` relates the positions the task keeps to the stream: while a command is
on its way (`Streaming`) the bytes in hand and on the wire continue the frame (`Framed`)
where the buffer ends, `$` is known as soon as it was passed, and the payload behind it is
in the buffer at its own place; otherwise (`Resting`) at most the two checksum digits of
the last command are left, which is why the leftover never reaches a second packet or the
end of the buffer.

`CdcAcmProofs` has three invariants that share no variable. `ReplyInv`: the frame lies in
`rsp_buffer` from `Start` to `End` (`InPlace`), what was heard is its beginning, and the
packet on its way begins there; after a reset of the bus a task that waits is promised
nothing. `SerialInv`: a packet that waits was the whole cache and the UART has been silent
since, or a byte is owned to be `late`. `ControlInv`: a control transfer the host is at finds
its own request in `cdc_cmd`, and the answer in `usb_cmd_buffer`, whatever it gave up
before. That the checksum of the frame is a byte for every reply is an induction over its
length; it is proved by the least length for which it fails (`WFMin`), as the library's
induction rules cannot be applied here. The three need `CodingAssumption`: the codings
are seven bytes each, and the rate is their first four.

### Breakpoints

The two tables share nothing but the host, and are proved apart. `SoftInv` says that slots
in use and software breakpoints of the host are in step and that no two slots share a
halfword; it needs no assumption, so that the table tracks any host. `MemInv` adds what the
memory holds at, and beside, the slots: an ebreak up to the first halfword outside `Ram`,
for any `Ram` (`Reached`). It is lost when a host with breakpoints inserted
connects again, as `rv_target_init` forgets the table and not the ebreaks (`KeepsInserted`).

`HardInv` was meant to hold for triggers of every kind and does not: TLC finds a target
with triggers for loads and execution, not for stores, where an access watchpoint is turned
down (`riscv-target.c:1229`) with the half of `tdata1` that matched left set and `tdata2` not
written yet. The trigger then stops the program at an old address nobody asks for any more
(`TriggersHaveSlots`). Behind a new connection, which forgets the slots, the next request in
that slot adds its accesses to those left set, and the breakpoint is acknowledged with a
trigger that stops at more than it was asked for (`AcknowledgedIsPlanted`). `TriggersAlike`
excludes just that: all triggers match the same accesses, and loads if and only if stores.
With it `HardInv` says that an armed trigger has the number and the request of a slot the
host was told of, and that a slot without one was turned down. `CapacityIsOffered` counts:
with a trigger for every slot that takes all it is asked, the slots in use are as many as
the breakpoints of the host.

### Run control

`IInv` says what each phase of the host implies of the probe (`Phases`: whose registers
are in the core and in `regs`, whether the step bit is set while the target runs), that the
slots in use come first and have different addresses (`Table`), that no hit bit outlives
its breakpoint (`HitBits`), and what is known of a halt the probe has not looked at yet
(`Pending`). `StopsAreNamed` follows from the last by the three ways `TriggerReason` finds
a name. That the code takes the first slot that fits is a least element (`LeastIsLeast`).

### Flash

`FlashProofs` shows that each frame and each poll maps to a step of `FlashMemory`. `Mapping`
holds however slow the controller was: a command that is over leaves the flash mapped.
`Exact` holds until it is too slow once: what the command asks for is what the chip holds, or
is about to hold, with the blocks and bytes that are left carried out (`Done`). A block or
a page that is sent takes as much off that as it adds to the chip: `EraseIs` and
`ProgramIs` say what the chip makes of a frame, with the addresses cut to three bytes, and
`CountIs` that no page is left. `MapAssumption`, that the flash is mapped at a multiple of
its size, is needed there: the code sends the low bytes of the host's address.
`DataAssumption` gives contents and data their types. The chip has eight bytes of a bit each
in the model, and pages and blocks of any size that divides it.

### Registers and memory

The assumptions of `Commands` say what a hart and a memory are. `HartAssumption`: a hart is
`Debuggable`, of 32 or 64 bits, its abstract commands reach the GPRs, and either they or a
program buffer its CSRs, as the specification of the debug module asks; `Holds` says what
registers can hold (mstatus without the bits of missing extensions, a legal vtype and a vl
within it). `MemoryAssumption`: a memory is a range of addresses with a byte each.
`Debuggable` includes that misa
names the width in its top bits, which `rv_target_init_after_halted` goes by. `CallAssumption` and
`ValueAssumption` type what the host calls. Two guards bound the host's calls
to what a packet and a register hold (`InPacket`, `InRegister`).

`CommandsProofs` goes up the calls of `RegisterAccess`. An access is written
`St(h, t, r, e, out)`, so that a step of the code is an equation from one `St` to the next, and
a function's lemma says with which registers it can end. The lemmas on single transfers
come first (`rv_register_read`, `rv_program_exec` instruction by instruction), then what
borrows a register and gives it back (`s1`, `fp`, mstatus, vtype and vl, one inside the other),
then the accesses of the commands. What can fail is split from what cannot: with a program
buffer the abstract accesses to GPRs at the width of the hart always succeed, so the borrowed
register does come back.
The invariant is `RegistersKept`: the hart stays `Debuggable`, and once connected the server
knows of misa and vlenb what the hart has; without the second half an access might use the
wrong width. It says nothing of `reg_tmp`, whose
content is only used for the half that `HalfStale` names. `RegistersUndisturbed` and
`TransfersAreRight` are then a case a command; the second gives the answer to `p` in every
case, the stale half included.

`MemoryIsExact` needs `MemoryKept` (memory and `mem_buffer` keep their types), that widths
divide the length and that a transfer stops no earlier than the first bad word (`Sound`), and
that the codecs are each other's inverse. `bin_encode` and `bin_decode` are functions of the
bytes done; that these exist, and what they come to, is proved by the least number for
which it fails (`UpTo`, `StatesExist`): the prefix that was decoded so far is the prefix that
was encoded, also where `bin_encode` stops early, between an escape and the next byte.

### Watchpoints

`DecodesRight` is about every offset of a format, not the ones the run picks. A field is the sum
of its bits' worth (`FieldIs`), which is a difference of remainders of the offset: bits 2 to 4
are `o % 32 - o % 4`. The pieces of a format share no bit (`PiecesApart`), so the
instruction has the offset in them (`Borne`), and the sum of a format's fields is the
offset. `Xlen = 32` is what the code says of itself (`riscv-target.c:603`); the run
`watchpoint_inst_rv64` shows that it is needed.

### Only model-checked

* Liveness: `AnswerArrives`, `BreakStops`, `CommandArrives`, `ReplySent`, `Answered`. The
  prover has no rules for fairness and ENABLED.
* `EndsAgree`, `AccessExact`, `PromptIsDone`, `ComesUp` of `Dmi`: one call is up to some
  hundred ticks, each a function of the tick before, in and out of OScan1. A step of the
  proof would be an execution of all of them on paper, for every adapter and every state a
  target was left in. An invariant of the single tick is the way to it.
* That the decoder is right on RV64 for what RV64 shares with RV32: `watchpoint_inst_rv64`
  only shows where it is wrong.

## 5. Not modelled, and the plan

Not modelled:

* The text of USB descriptors and strings, the bytes of enumeration, LEDs, pins and clocks
  (no state the rest depends on); what FreeRTOS does inside a queue; the instruction
  encoders of `opcodes.h` (a program is instructions by name).
* Doubles of an RV32 hart through `hartinfo.dataaddr` (`riscv-target.c:435`, `:511`).
* `abstractcs.busy`: an abstract command is one step. Its loop at `:235` has no bound, and
  memory transfers do not look at it.
* Accesses to a running hart: `gdb_server_disconnected` resumes the hart before
  `rv_target_fini_pre` takes the ebreak bits out of dcsr, and a resume is not awaited.
* A misa with another width than the one it is read with, a dcsr of another version.
* What lies behind `dcsr` (`riscv-target.c:34`), a global of 32 bits: on a 64-bit hart whose
  abstract commands do not reach CSRs it is read and written through the program buffer, 64
  bits at a time, and the variable the linker put there takes part.
* The parsing of numbers and the capacity of `rsp_buffer` (`m` takes up to 1024 bytes,
  whose digits do not fit).
* A host that restarts while the target runs; one that interrupts an algorithm or keeps its
  breakpoints inserted.
* A bus reset in the command task, and a USB host that does not configure the device again.
* `flash_read`, which nothing calls, and failing accesses to the SPI controller.

Next, in this order:

1. Proofs: `Dmi`, from an invariant of the tick: `EndsAgree` first, then `AccessExact`.
2. The running hart: `gdb_server_disconnected`, resume and halt without acknowledgement.
3. Two configurations more of `RunControl`: a host that keeps its breakpoints inserted, and
   one that interrupts an algorithm.
