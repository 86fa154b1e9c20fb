------------------------------ MODULE Commands ------------------------------
(***************************************************************************)
(* The commands of gdb-server.c that read and write registers and memory:  *)
(* p, P, g, G, m, M, x, X, +:read and qRcmd, and the connection that       *)
(* +:set:protocol makes.  The hart is halted and the server does nothing   *)
(* else meanwhile, so a command is one action.                             *)
(***************************************************************************)
EXTENDS RegisterAccess, MemoryAccess

CONSTANTS
    Harts(_),     \* the harts there are, with what their registers hold
    Memories(_),  \* the memories there are
    Lengths,      \* lengths the host asks for
    Data,         \* what it calls to memory
    ValuesFor(_), \* what it calls to a register
    BUFFER,       \* sizeof(mem_buffer)
    MaxCalls(_)   \* bound: commands in one session, by its topic

Topics == {"registers", "memory"}

ASSUME HartAssumption == \A t \in Topics : \A h \in Harts(t) : Debuggable(h)
ASSUME BufferAssumption == BUFFER \in Nat \ {0}

\* A memory is a range of addresses, some of which do not answer.
ASSUME MemoryAssumption == \A t \in Topics : \A m \in Memories(t) :
    /\ m = [bytes |-> m.bytes, bad |-> m.bad] /\ m.bad \subseteq Nat
    /\ m.bytes \in [DOMAIN m.bytes -> Bytes] /\ DOMAIN m.bytes \subseteq Nat
    /\ \E lo, hi \in DOMAIN m.bytes : DOMAIN m.bytes = lo .. hi
ASSUME CallAssumption == Lengths \subseteq Nat /\ Data \subseteq Seq(Bytes)
ASSUME ValueAssumption == \A n \in Vectors : ValuesFor(n) \subseteq [1 .. Elements -> Nat]

VARIABLES
    hart,
    memory,
    target,       \* what target has of misa and vlenb
    mem_buffer,
    reg_tmp,      \* its first xlen bits; static, as mem_buffer is
    connected,
    topic,        \* bound: what the commands of a session are about, as those
                  \* on registers and those on memory share no state
    calls,        \* commands so far
    call,         \* history: the last command
    reply         \* history: its answer

vars == <<hart, memory, target, mem_buffer, reg_tmp, connected, topic, calls, call, reply>>

DLINK_FIRMWARE_VERSION == "version"

NoCall == [op |-> "none", reg |-> "none", value |-> 0, addr |-> 0, len |-> 0, data |-> <<>>]

Init ==
    /\ topic \in Topics /\ hart \in Harts(topic) /\ memory \in Memories(topic)
    /\ target = Unknown /\ mem_buffer = [i \in 1 .. BUFFER |-> 0]
    /\ reg_tmp = 0 /\ connected = FALSE /\ calls = 0 /\ call = NoCall /\ reply = <<>>

Now == Access(hart, target, reg_tmp)

Served ==
    /\ connected /\ calls < MaxCalls(topic)
    /\ calls' = calls + 1 /\ UNCHANGED connected

\* The register accesses of a command come to s, and the command is answered.
AnswerBy(s, c, answer) ==
    /\ hart' = s.h /\ target' = Target(s) /\ call' = c /\ reply' = answer
    /\ UNCHANGED <<memory, mem_buffer, topic>>

\* By a command that has buffers of its own.
Answer(s, c, answer) == AnswerBy(s, c, answer) /\ UNCHANGED reg_tmp

\* Of gdb_server_connected: rv_target_init, and what comes after the halt.
gdb_server_connected(s) == rv_target_init_after_halted(rv_target_init(s))

\* A protocol that is not known is answered with the reply before it, and the
\* connection is made all the same.
gdb_server_cmd_custom_set(protocol) ==
    /\ IF connected THEN Served ELSE connected' = TRUE /\ UNCHANGED calls
    /\ Answer(gdb_server_connected(Now), [NoCall EXCEPT !.op = "connect"],
              IF protocol = "other" THEN reply ELSE <<"-:set:protocol", protocol>>)

\* +:read.
gdb_server_cmd_custom_read(field) ==
    Served /\ Answer(Now, [NoCall EXCEPT !.op = "read", !.reg = field],
                     IF field = "version" THEN DLINK_FIRMWARE_VERSION ELSE target[field])

\* `monitor halt' of a halted hart, and a command that is not known.
gdb_server_cmd_qRcmd(command) ==
    /\ Served
    /\ IF command = "halt"
       THEN Answer(rv_target_init_after_halted(Now), [NoCall EXCEPT !.op = "connect"], "OK")
       ELSE Answer(Now, NoCall, ":( unsupported monitor command!")

\* Registers, or the elements of one, in digits, and back.
Hex(words, xlen) ==
    LET n == xlen \div 8
    IN  [k \in 1 .. Len(words) * n |->
            uint_to_hex_le(words[((k - 1) \div n) + 1], xlen)[((k - 1) % n) + 1]]

Words(digits, xlen) ==
    LET n == xlen \div 8
    IN  [i \in 1 .. Len(digits) \div n |->
            hex_to_uint_le(SubSeq(digits, (i - 1) * n + 1, i * n), xlen)]

WordsOf(n, v) == IF n \in Vectors THEN v ELSE <<v>>

gdb_server_cmd_p(n) ==
    LET s == rv_target_read_register(Now, n)
    IN  /\ Served
        /\ AnswerBy(s, [NoCall EXCEPT !.op = "p", !.reg = n], Hex(WordsOf(n, s.out), s.mxl))
        /\ reg_tmp' = WordsOf(n, s.out)[1]

\* v is what the host sends in digits, for a hart of its width.
gdb_server_cmd_P(n, v) ==
    LET words == Words(Hex(WordsOf(n, v), hart.xlen), target.mxl)
    IN  /\ Served
        /\ AnswerBy(rv_target_write_register(Now, n, IF n \in Vectors THEN words ELSE words[1]),
                    [NoCall EXCEPT !.op = "P", !.reg = n, !.value = v], "OK")
        /\ reg_tmp' = words[1]

gdb_server_cmd_g ==
    LET s == rv_target_read_core_registers(Now)
    IN  Served /\ Answer(s, [NoCall EXCEPT !.op = "g"], Hex(s.out, s.mxl))

gdb_server_cmd_G(values) ==
    LET words == Words(Hex(values, hart.xlen), target.mxl)
    IN  Served /\ Answer(rv_target_write_core_registers(Now, words),
                         [NoCall EXCEPT !.op = "G", !.data = values], "OK")

-----------------------------------------------------------------------------
MemoryCall(op, addr, len, data) ==
    call' = [NoCall EXCEPT !.op = op, !.addr = addr, !.len = len, !.data = data]
OnlyMemory == UNCHANGED <<hart, target, reg_tmp, topic>>

Capped(len) == IF len > BUFFER THEN BUFFER ELSE len
Filled(bytes) == [i \in 1 .. BUFFER |-> IF i =< Len(bytes) THEN bytes[i] ELSE mem_buffer[i]]

gdb_server_cmd_m(addr, len) ==
    /\ Served /\ OnlyMemory
    /\ mem_buffer' = rv_target_read_memory(memory, mem_buffer, addr, Capped(len))
    /\ reply' = bin_to_hex(SubSeq(mem_buffer', 1, Capped(len)))
    /\ MemoryCall("m", addr, len, <<>>)
    /\ UNCHANGED memory

gdb_server_cmd_x(addr, len) ==
    /\ Served /\ OnlyMemory
    /\ mem_buffer' = rv_target_read_memory(memory, mem_buffer, addr, Capped(len))
    /\ reply' = bin_encode(SubSeq(mem_buffer', 1, Capped(len)))
    /\ MemoryCall("x", addr, len, <<>>)
    /\ UNCHANGED memory

\* The host's data, as digits.
gdb_server_cmd_M(addr, data) ==
    /\ Served /\ OnlyMemory
    /\ mem_buffer' = Filled(hex_to_bin(bin_to_hex(data)))
    /\ memory' = rv_target_write_memory(memory, mem_buffer', addr, Capped(Len(data)))
    /\ reply' = "OK" /\ MemoryCall("M", addr, Len(data), data)

\* What the host sends for X: every special byte escaped.
HostEncoded(data) ==
    LET after[i \in 0 .. Len(data)] ==
          IF i = 0 THEN <<>> ELSE after[i - 1] \o EncodeByte(data[i])
    IN  after[Len(data)]

\* A length of zero only asks whether X is known.
gdb_server_cmd_X(addr, data) ==
    /\ Served /\ OnlyMemory
    /\ reply' = "OK" /\ MemoryCall("X", addr, Len(data), data)
    /\ IF data = <<>> THEN UNCHANGED <<memory, mem_buffer>>
       ELSE /\ mem_buffer' = Filled(bin_decode(HostEncoded(data)))
            /\ memory' = rv_target_write_memory(memory, mem_buffer', addr, Capped(Len(data)))

\* The host stays within memory, sends X no more than mem_buffer holds (the
\* server names no packet size, so a packet has 400 bytes), and asks for vector
\* registers of a hart that has them, with values that fit into registers.
InMemory(addr, len) == addr + len - 1 =< Max(DOMAIN memory.bytes)
InPacket(data) == Len(data) =< BUFFER

Registered(n) == n \in Vectors => "v" \in hart.ext
InRegister(n, v) == LET words == WordsOf(n, v) IN
    \A i \in DOMAIN words : words[i] \in 0 .. (IF hart.xlen = 32 THEN 255 ELSE 65535)

OnRegisters ==
    \/ \E protocol \in {"jtag", "cjtag", "other"} : gdb_server_cmd_custom_set(protocol)
    \/ \E field \in {"misa", "vlenb", "version"} : gdb_server_cmd_custom_read(field)
    \/ \E command \in {"halt", "other"} : gdb_server_cmd_qRcmd(command)
    \/ \E n \in Numbered : Registered(n) /\ gdb_server_cmd_p(n)
    \/ \E n \in Numbered : \E v \in ValuesFor(n) :
          Registered(n) /\ InRegister(n, v) /\ gdb_server_cmd_P(n, v)
    \/ gdb_server_cmd_g
    \/ gdb_server_cmd_G(<<5, 6, 7, 8>>)

OnMemory ==
    \E addr \in DOMAIN memory.bytes :
        \/ \E len \in Lengths : InMemory(addr, len) /\ gdb_server_cmd_m(addr, len)
        \/ \E len \in Lengths : InMemory(addr, len) /\ gdb_server_cmd_x(addr, len)
        \/ \E d \in Data : InMemory(addr, Len(d)) /\ gdb_server_cmd_M(addr, d)
        \/ \E d \in Data : InMemory(addr, Len(d)) /\ InPacket(d) /\ gdb_server_cmd_X(addr, d)

\* The host has no more to ask.
Rest == connected /\ calls = MaxCalls(topic) /\ UNCHANGED vars

Next ==
    \/ topic = "memory" /\ ~connected /\ gdb_server_cmd_custom_set("jtag")
    \/ topic = "registers" /\ OnRegisters
    \/ topic = "memory" /\ OnMemory
    \/ Rest

Spec == Init /\ [][Next]_vars

-----------------------------------------------------------------------------
\* The registers a command is about.
About(c) == CASE c.op = "P" -> {Named(c.reg)} \union (IF c.reg = "vtype" THEN {"vl"} ELSE {})
              [] c.op = "G" -> Gprs \union {"dpc"}
              [] c.op = "connect" -> {"dcsr"}
              [] OTHER -> {}

\* What the code is known not to give back: vstart, which every vector
\* instruction clears, and on a 32-bit hart fp, which the attempt to read misa
\* with 64 bits leaves behind changed.
NotKept(c) ==
    (IF c.reg \in Vectors \/ (c.op = "P" /\ c.reg \in {"vl", "vtype"}) THEN {"vstart"} ELSE {})
    \union (IF c.op = "connect" /\ hart.xlen = 32 THEN {"fp"} ELSE {})

\* A command leaves every register alone but those it is about, whatever was
\* borrowed for it and whatever failed on the way.  Of mstatus it may switch
\* off the extension the access needs, and no more.
LeavesAlone ==
    LET kept == Registers \ (About(call') \union NotKept(call') \union {"mstatus"})
        m == hart.r.mstatus
        n == hart'.r.mstatus
    IN  /\ \A r \in kept : hart'.r[r] = hart.r[r]
        /\ "mstatus" \notin About(call') =>
              /\ n \div 4 = m \div 4
              /\ Fs(n) # Fs(m) => FsOf(call'.reg)
              /\ Vs(n) # Vs(m) => VsOf(call'.reg) \/ (call'.op = "connect" /\ "v" \in hart.ext)
Undisturbed == [][LeavesAlone]_vars

\* The hart has a way for the probe to get at n.
Reachable(n) ==
    /\ n \in Fprs \union {"fcsr"} => "f" \in hart.ext
    /\ n \in Vectors \union VectorCsrs => "v" \in hart.ext
    /\ n = "fcsr" => Fs(hart.r.mstatus) = 1
    /\ hart.progbuf \/ (n \notin Vectors /\ ClassOf(n) \in hart.abstract)

ValueOf(n) == IF n = "priv" THEN Prv(hart.r.dcsr) ELSE hart.r[Named(n)]

\* What the code is known to answer wrong: of priv, and of a dcsr that an abstract
\* command reads, 32 bits are stored and on a 64-bit hart 64 bits are sent, the
\* others of which are what the p or P before left in reg_tmp.
HalfStale(n) ==
    hart.xlen = 64 /\ (n = "priv" \/ (n = "dcsr" /\ "csr" \in hart.abstract))
AnswerFor(n) == IF HalfStale(n) THEN Upper(reg_tmp) + ValueOf(n) ELSE ValueOf(n)

\* p and g answer what the registers hold, but for the half named above, and +:read
\* the letters of misa behind the width; P and G leave in the registers what was
\* asked, or what the hart makes of it.
Transfers ==
    LET n == Named(call'.reg) IN
    /\ call'.op = "p" /\ n # "none" /\ Reachable(n) =>
          reply' = Hex(WordsOf(n, AnswerFor(call'.reg)), hart.xlen)
    /\ call'.op = "P" /\ n # "none" /\ Reachable(n) /\ (n \in {"vl", "vtype"} => hart.progbuf) =>
          IF call'.reg = "priv" THEN hart'.r.dcsr = (hart.r.dcsr - Prv(hart.r.dcsr)) + Prv(call'.value)
          ELSE hart'.r[n] = IF n = "vlenb" THEN hart.r[n] ELSE Kept(hart, n, call'.value)
    /\ call'.op = "read" /\ n = "misa" => reply' = Letters(hart.r.misa) + 64 * (hart.xlen \div 32)
    /\ call'.op = "read" /\ n = "vlenb" => reply' = IF "v" \in hart.ext THEN hart.r.vlenb ELSE NoVlenb
    /\ call'.op = "g" =>
          reply' = Hex([i \in DOMAIN CoreRegisters |-> ValueOf(CoreRegisters[i])], hart.xlen)
    /\ call'.op = "G" => \A i \in DOMAIN CoreRegisters :
          hart'.r[Named(CoreRegisters[i])] = call'.data[i]
TransfersRight == [][Transfers]_vars

\* The bytes before the first word with a bad address.
Sound(addr, i) == \A a \in addr .. addr + i - 1 : ((a \div 4) * 4) .. ((a \div 4) * 4 + 3) \cap memory.bad = {}

\* m and x answer what memory holds, x perhaps less of it than was asked for;
\* M and X store what the host sent: for as many bytes as mem_buffer has and lie
\* before the first word with an address that does not answer.  Nothing else is
\* written.
MovesExactly ==
    LET c == call' IN
    /\ c.op = "m" => \A i \in 1 .. Capped(c.len) :
          Sound(c.addr, i) => hex_to_bin(reply')[i] = memory.bytes[c.addr + i - 1]
    /\ c.op = "x" => LET got == bin_decode(reply') IN
          /\ c.len > 0 => got # <<>>
          /\ \A i \in DOMAIN got : Sound(c.addr, i) => got[i] = memory.bytes[c.addr + i - 1]
    /\ \A a \in DOMAIN memory.bytes :
          IF c.op \in {"M", "X"} /\ a \in c.addr .. c.addr + Capped(c.len) - 1
          THEN LET i == a - c.addr + 1 IN
               /\ memory'.bytes[a] \in {memory.bytes[a], c.data[i]}
               /\ Sound(c.addr, i) => memory'.bytes[a] = c.data[i]
          ELSE memory'.bytes[a] = memory.bytes[a]
MemoryExact == [][MovesExactly]_vars
=============================================================================
