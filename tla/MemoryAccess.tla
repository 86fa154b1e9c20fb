---------------------------- MODULE MemoryAccess ----------------------------
(***************************************************************************)
(* Memory through abstract commands (rv_target_read_memory, _write_memory  *)
(* of riscv-target.c), and the forms in which gdb-server.c sends and       *)
(* receives it and registers: hexadecimal and escaped binary.  A byte is   *)
(* four bits here, and a hexadecimal digit two.  memory is a record:       *)
(* bytes, by address, and bad, the addresses that answer with a bus error. *)
(***************************************************************************)
EXTENDS Integers, Sequences, FiniteSetsExt

Bytes == 0 .. 15

\* Mutant: the length is not looked at.
WidthByAddress(addr, len) == IF addr % 4 = 0 THEN 4 ELSE IF addr % 2 = 0 THEN 2 ELSE 1

\* aamsize: the widest access that address and length allow.
Width(addr, len) ==
    IF addr % 4 = 0 /\ len % 4 = 0 THEN 4
    ELSE IF addr % 2 = 0 /\ len % 2 = 0 THEN 2 ELSE 1

\* How many bytes are transferred before an access fails, or at all.
Transferred(memory, addr, len) ==
    LET w == Width(addr, len)
        fails == {i \in 0 .. (len \div w) - 1 :
                    \E b \in 0 .. w - 1 : addr + i * w + b \in memory.bad}
    IN  w * (IF fails = {} THEN len \div w ELSE Min(fails))

\* The buffer after a read: what was not transferred is as it was.
rv_target_read_memory(memory, buffer, addr, len) ==
    [i \in DOMAIN buffer |->
        IF i =< Transferred(memory, addr, len) THEN memory.bytes[addr + i - 1] ELSE buffer[i]]

rv_target_write_memory(memory, buffer, addr, len) ==
    [memory EXCEPT !.bytes = [a \in DOMAIN memory.bytes |->
        IF a \in addr .. addr + Transferred(memory, addr, len) - 1
        THEN buffer[a - addr + 1] ELSE memory.bytes[a]]]

-----------------------------------------------------------------------------
\* Two digits a byte.
bin_to_hex(bytes) ==
    [k \in 1 .. 2 * Len(bytes) |->
        LET b == bytes[(k + 1) \div 2] IN IF k % 2 = 1 THEN b \div 4 ELSE b % 4]

hex_to_bin(digits) ==
    [i \in 1 .. Len(digits) \div 2 |-> digits[2 * i - 1] * 4 + digits[2 * i]]

\* uint32_ and uint64_to_hex_le: a register, its least significant byte first.  A
\* register of xlen bits has xlen / 16 bytes here.
Places == <<1, 16, 256, 4096>>
uint_to_hex_le(v, xlen) == bin_to_hex([i \in 1 .. xlen \div 16 |-> (v \div Places[i]) % 16])

hex_to_uint_le(digits, xlen) ==
    LET bytes == hex_to_bin(digits)
        low   == bytes[1] + Places[2] * bytes[2]
    IN  IF xlen = 32 THEN low ELSE low + Places[3] * bytes[3] + Places[4] * bytes[4]

\* '}' and one that stands for '#', '$' and '*'; escaping flips a bit.
Escape  == 13
Special == {3, Escape}
Flip(b) == IF (b \div 2) % 2 = 1 THEN b - 2 ELSE b + 2

EncodeByte(b) == IF b \in Special THEN <<Escape, Flip(b)>> ELSE <<b>>

\* Stops when the reply has as many bytes as were asked for, escapes included.
bin_encode(bytes) ==
    LET after[i \in 0 .. Len(bytes)] ==
          IF i = 0 THEN <<>>
          ELSE IF i > 1 /\ Len(after[i - 1]) >= Len(bytes) THEN after[i - 1]
          ELSE after[i - 1] \o EncodeByte(bytes[i])
    IN  after[Len(bytes)]

bin_decode(xbin) ==
    LET after[i \in 0 .. Len(xbin)] ==
          IF i = 0 THEN [bin |-> <<>>, found |-> FALSE]
          ELSE IF xbin[i] = Escape THEN [after[i - 1] EXCEPT !.found = TRUE]
          ELSE [found |-> FALSE,
                bin |-> Append(after[i - 1].bin,
                               IF after[i - 1].found THEN Flip(xbin[i]) ELSE xbin[i])]
    IN  after[Len(xbin)].bin
=============================================================================
