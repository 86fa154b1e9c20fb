---------------------------- MODULE FlashProofs ----------------------------
(***************************************************************************)
(* The flash loader implements FlashMemory, for every size of pages and    *)
(* blocks, every content and data, and every controller.                   *)
(***************************************************************************)
EXTENDS Flash, SequenceTheorems, TLAPS

Phases  == {"idle", "flush", "identify", "enable", "erase", "write", "ask", "status"}
Resting == {"idle", "flush", "identify"}
Loading == Phases \ Resting

SpiType  == [version : Versions, hw : BOOLEAN, cs : {"auto", "hold"}, rx : Seq(Bytes)]
ChipType == [mem : [Cells -> Bytes], wel : BOOLEAN, busy : BOOLEAN,
             next : [Cells -> Bytes], asked : BOOLEAN]

\* What holds however slow the controller was: the flash is mapped when a
\* command is over.
Mapping ==
    /\ pc \in Phases /\ slow \in BOOLEAN /\ spi \in SpiType /\ status \in Bytes
    /\ pc \in Resting => spi.cs = "auto"
    /\ pc = "idle" => spi.hw
    /\ pc \in Loading => op \in {"erase", "write"}

\* The content m once the rest of the command is carried out.
Left == IF op = "erase" THEN left * BLOCK ELSE Len(buffer)
Asked(m, c) == IF op = "erase" THEN 1 ELSE m[c] * buffer[c + XIP - curr + 1]
Done(m) == [c \in Cells |-> IF curr =< c + XIP /\ c + XIP < curr + Left THEN Asked(m, c) ELSE m[c]]

\* What the chip holds when it is no longer busy.
Content == IF chip.busy THEN chip.next ELSE chip.mem

Ready == op \in {"erase", "write"} /\ known /\ ~spi.hw
         /\ XIP =< curr /\ curr + Left =< XIP + 8 /\ (op = "erase" => curr % BLOCK = 0)

Exact ==
    /\ chip \in ChipType /\ want \in [Cells -> Bytes] /\ known \in BOOLEAN
    /\ curr \in Nat /\ left \in Nat /\ buffer \in Seq(Bytes)
    /\ known /\ pc # "flush" => spi.rx = <<>>
    /\ pc # "idle" => known
    /\ pc \in Resting => ~chip.busy /\ want = chip.mem
    /\ pc \in Loading => Ready /\ want = Done(Content)
    /\ pc \in {"enable", "erase", "write"} => ~chip.busy /\ More
    /\ pc \in {"erase", "write"} => chip.wel /\ pc = op
    /\ chip.busy => \A c \in Cells : chip.next[c] \in {chip.mem[c], want[c]}
    /\ pc = "status" => chip.asked

IInv == Mapping /\ (~slow => Exact)

-----------------------------------------------------------------------------
(* Frames and what the chip does with them.                                 *)

\* A transfer in time is a transfer.
LEMMA InTime ==
    ASSUME NEW in, NEW t, ~TooSlow(t)
    PROVE  nuspi_tx(in, t) = in
BY DEF nuspi_tx, TooSlow

\* A frame does not change the content at once, whatever is in it.
LEMMA TakeKeepsMem ==
    ASSUME NEW ch \in ChipType, NEW bytes
    PROVE  Take(ch, bytes).mem = ch.mem
<1>1. \A m : [ch EXCEPT !.busy = TRUE, !.next = m].mem = ch.mem
  BY DEF ChipType
<1>2. [ch EXCEPT !.wel = TRUE].mem = ch.mem
  BY DEF ChipType
<1> QED
  BY <1>1, <1>2, Zenon DEF Take

\* A number is so many eights and a rest.
LEMMA Eights ==
    ASSUME NEW a \in Nat
    PROVE  \E q \in Nat, r \in 0 .. 7 : a = 8 * q + r
<1> DEFINE q == a \div 8
           r == a - 8 * q
<1>1. 8 * q =< a /\ a < 8 * q + 8 /\ q \in Nat
  OBVIOUS
<1> HIDE DEF q
<1>2. r \in 0 .. 7 /\ a = 8 * q + r
  BY <1>1
<1> QED
  BY <1>1, <1>2, Zenon

\* The three bytes of an address stand for its place in the flash.
LEMMA AddressIs ==
    ASSUME NEW a \in Nat
    PROVE  /\ Address(a) \in Seq(Bytes) /\ Len(Address(a)) = 3
           /\ AddressOf(Address(a)) = a % 8
<1>1. PICK q \in Nat, r \in 0 .. 7 : a = 8 * q + r
  BY Eights, Zenon
<1> DEFINE x == (a \div 4) % 2
           y == (a \div 2) % 2
           z == a % 2
           x2 == IF r >= 4 THEN 1 ELSE 0
           y2 == IF r >= 6 THEN 3 ELSE IF r >= 4 THEN 2 ELSE IF r >= 2 THEN 1 ELSE 0
<1>2. a % 8 = r /\ a \div 4 = 2 * q + x2 /\ a \div 2 = 2 * (2 * q) + y2 /\ a % 2 = r % 2
  BY <1>1
<1>3. x = x2 /\ y = y2 % 2 /\ z = r % 2 /\ x \in Bytes /\ y \in Bytes /\ z \in Bytes
  <2>1. \A k \in Nat, n \in 0 .. 3 : (2 * k + n) % 2 = n % 2
    OBVIOUS
  <2>2. x2 \in 0 .. 1 /\ y2 \in 0 .. 3 /\ q \in Nat /\ 2 * q \in Nat
    OBVIOUS
  <2> HIDE DEF x2, y2
  <2>3. x = x2 % 2 /\ y = y2 % 2 /\ z = r % 2
    BY <1>2, <2>1, <2>2
  <2> QED
    BY <2>2, <2>3 DEF Bytes
<1>4. x * 4 + y * 2 + z = r
  BY <1>3
<1> HIDE DEF x, y, z
<1>5. <<x, y, z>> \in Seq(Bytes) /\ Len(<<x, y, z>>) = 3 /\ AddressOf(<<x, y, z>>) = x * 4 + y * 2 + z
  BY <1>3 DEF AddressOf
<1> QED
  BY <1>2, <1>4, <1>5, Zenon DEF Address, x, y, z

\* f is the bytes of s and those of t, m and n of them.
Joined(f, s, m, t, n) ==
    /\ f \in Seq(Nat) /\ Len(f) = m + n
    /\ \A i \in 1 .. m : f[i] = s[i]
    /\ \A i \in 1 .. n : f[m + i] = t[i]

LEMMA JoinIs ==
    ASSUME NEW s \in Seq(Nat), NEW t \in Seq(Nat), NEW m \in Nat, NEW n \in Nat,
           m = Len(s), n = Len(t)
    PROVE  Joined(s \o t, s, m, t, n)
<1>1. /\ s \o t \in Seq(Nat) /\ Len(s \o t) = m + n
      /\ \A i \in 1 .. m + n : (s \o t)[i] = IF i =< m THEN s[i] ELSE t[i - m]
  <2>1. /\ s \o t \in Seq(Nat) /\ Len(s \o t) = Len(s) + Len(t)
        /\ \A i \in 1 .. Len(s) + Len(t) : (s \o t)[i] = IF i =< Len(s) THEN s[i] ELSE t[i - Len(s)]
    BY ConcatProperties
  <2> QED
    BY <2>1, Zenon
<1>2. \A i \in 1 .. m : i \in 1 .. m + n /\ i =< m
  OBVIOUS
<1>3. \A i \in 1 .. n : m + i \in 1 .. m + n /\ ~(m + i =< m) /\ (m + i) - m = i
  OBVIOUS
<1>4. \A i \in 1 .. m : (s \o t)[i] = s[i]
  BY <1>1, <1>2, Zenon
<1>5. \A i \in 1 .. n : (s \o t)[m + i] = t[i]
  <2>1. ASSUME NEW i \in 1 .. n PROVE (s \o t)[m + i] = t[(m + i) - m]
    BY <1>1, <1>3, Zenon
  <2> QED
    BY <1>3, <2>1, Zenon
<1> QED
  BY <1>1, <1>4, <1>5, Zenon DEF Joined

\* A frame of a command and its argument is split where it was put together.
LEMMA FrameSplits ==
    ASSUME NEW b \in Nat, NEW s \in Seq(Nat)
    PROVE  Head(<<b>> \o s) = b /\ Tail(<<b>> \o s) = s /\ <<b>> \o s # <<>>
<1> DEFINE f == <<b>> \o s
           n == Len(s)
<1>1. <<b>> \in Seq(Nat) /\ Len(<<b>>) = 1 /\ <<b>>[1] = b /\ n \in Nat
  OBVIOUS
<1>2. Joined(f, <<b>>, 1, s, n)
  BY <1>1, JoinIs, Zenon
<1> HIDE DEF f, n
<1>3. f \in Seq(Nat) /\ Len(f) = 1 + n /\ f[1] = b /\ \A i \in 1 .. n : f[1 + i] = s[i]
  BY <1>1, <1>2 DEF Joined
<1>4. f # <<>> /\ Head(f) = b
  BY <1>1, <1>3
<1>5. Tail(f) \in Seq(Nat) /\ Len(Tail(f)) = n /\ \A i \in 1 .. n : Tail(f)[i] = s[i]
  BY <1>1, <1>3, <1>4, HeadTailProperties
<1>6. Tail(f) = s
  BY <1>5, SeqEqual DEF n
<1> QED
  BY <1>4, <1>6, Zenon DEF f

\* The bytes of a frame are numbers.
LEMMA BytesAreNumbers ==
    /\ Bytes \subseteq Nat
    /\ \A s \in Seq(Bytes) : s \in Seq(Nat)
<1>1. Bytes \subseteq Nat
  BY DEF Bytes
<1> QED
  BY <1>1, SeqMonotonic

LEMMA TakeEnable ==
    ASSUME NEW ch \in ChipType, ~ch.busy
    PROVE  Take(ch, <<WRITE_ENABLE>>) = [ch EXCEPT !.wel = TRUE]
<1>1. Head(<<WRITE_ENABLE>>) = WRITE_ENABLE /\ Tail(<<WRITE_ENABLE>>) = <<>> /\ <<WRITE_ENABLE>> # <<>>
  OBVIOUS
<1> QED
  BY <1>1, Zenon DEF Take

\* A frame that erases the block of address a.
LEMMA TakeErase ==
    ASSUME NEW ch \in ChipType, ~ch.busy, ch.wel, NEW a \in Nat
    PROVE  Take(ch, <<BLOCK_ERASE>> \o Address(a))
               = [ch EXCEPT !.busy = TRUE, !.next = EraseIn(ch.mem, a % 8)]
<1> DEFINE s == Address(a)
           f == <<BLOCK_ERASE>> \o s
<1>1. s \in Seq(Nat) /\ Len(s) = 3 /\ AddressOf(s) = a % 8
  BY BytesAreNumbers, AddressIs, Zenon
<1>2. BLOCK_ERASE # WRITE_ENABLE /\ BLOCK_ERASE \in Nat
  BY DEF BLOCK_ERASE, WRITE_ENABLE
<1> HIDE DEF s
<1>3. Head(f) = BLOCK_ERASE /\ Tail(f) = s /\ f # <<>>
  BY <1>1, <1>2, FrameSplits, Zenon
<1> QED
  BY <1>1, <1>2, <1>3, Zenon DEF Take, s

\* A frame that programs data from address a on.
LEMMA TakeProgram ==
    ASSUME NEW ch \in ChipType, ~ch.busy, ch.wel, NEW a \in Nat,
           NEW data \in Seq(Bytes), data # <<>>
    PROVE  Take(ch, (<<PAGE_PROGRAM>> \o Address(a)) \o data)
               = [ch EXCEPT !.busy = TRUE, !.next = ProgramIn(ch.mem, a % 8, data)]
<1> DEFINE s == Address(a)
           n == Len(data)
           arg == s \o data
           f == (<<PAGE_PROGRAM>> \o s) \o data
<1>1. s \in Seq(Nat) /\ Len(s) = 3 /\ AddressOf(s) = a % 8
  BY BytesAreNumbers, AddressIs, Zenon
<1>2. data \in Seq(Nat) /\ n \in Nat /\ n > 0
  <2>1. data \in Seq(Nat)
    BY BytesAreNumbers, Zenon
  <2> QED
    BY <2>1
<1> HIDE DEF s, n
<1>3. Joined(arg, s, 3, data, n)
  <2>1. 3 \in Nat /\ 3 = Len(s) /\ n = Len(data)
    BY <1>1 DEF n
  <2> QED
    BY <1>1, <1>2, <2>1, JoinIs, Zenon
<1>4. f = <<PAGE_PROGRAM>> \o arg
  <2>1. <<PAGE_PROGRAM>> \in Seq(Nat)
    BY DEF PAGE_PROGRAM
  <2> QED
    BY <1>1, <1>2, <2>1, ConcatAssociative
<1> HIDE DEF arg, f
<1>5. /\ arg \in Seq(Nat) /\ Len(arg) = 3 + n
      /\ arg[1] = s[1] /\ arg[2] = s[2] /\ arg[3] = s[3]
      /\ \A i \in 1 .. n : arg[3 + i] = data[i]
  BY <1>3, SMTT(30) DEF Joined
<1>6. Head(f) = PAGE_PROGRAM /\ Tail(f) = arg /\ f # <<>>
  <2>1. PAGE_PROGRAM \in Nat
    BY DEF PAGE_PROGRAM
  <2> QED
    BY <1>4, <1>5, <2>1, FrameSplits, Zenon
<1>7. AddressOf(arg) = a % 8
  BY <1>1, <1>5, Zenon DEF AddressOf
<1>8. SubSeq(arg, 4, Len(arg)) = data
  <2> DEFINE l == 3 + n
             u == SubSeq(arg, 4, l)
  <2>1. l \in Int /\ 4 \in Int /\ \A i \in 4 .. l : arg[i] \in Nat
    <3>1. \A i \in 1 .. Len(arg) : arg[i] \in Nat
      BY <1>5, ElementOfSeq
    <3> QED
      BY <1>2, <1>5, <3>1, SMTT(30)
  <2>2. l - 4 + 1 = n /\ 4 =< l
    BY <1>2
  <2> HIDE DEF l
  <2>3. u \in Seq(Nat) /\ Len(u) = (IF 4 =< l THEN l - 4 + 1 ELSE 0)
        /\ \A i \in 1 .. l - 4 + 1 : u[i] = arg[4 + i - 1]
    BY <2>1, SubSeqProperties
  <2> HIDE DEF u
  <2>4. \A i \in 1 .. n : 4 + i - 1 = 3 + i
    BY <1>2
  <2>5. u \in Seq(Nat) /\ Len(u) = n /\ \A i \in 1 .. n : u[i] = data[i]
    BY <1>5, <2>2, <2>3, <2>4, Zenon
  <2>6. u = data
    BY <1>2, <2>5, SeqEqual DEF n
  <2> QED
    BY <1>5, <2>6, Zenon DEF u, l
<1>9. PAGE_PROGRAM # WRITE_ENABLE /\ PAGE_PROGRAM # BLOCK_ERASE
  BY DEF BLOCK_ERASE, WRITE_ENABLE, PAGE_PROGRAM
<1>10. Len(arg) > 3
  BY <1>2, <1>5
<1> QED
  BY <1>6, <1>7, <1>8, <1>9, <1>10, Zenon DEF Take, f, s

-----------------------------------------------------------------------------
(* Places in the flash, in pages and in blocks.                             *)

\* The place of an address in the flash, its page and its block.
LEMMA Places ==
    ASSUME NEW a \in Nat, XIP =< a, a < XIP + 8
    PROVE  /\ a - XIP \in 0 .. 7 /\ a % 8 = a - XIP
           /\ (a - XIP) % BLOCK = a % BLOCK /\ (a - XIP) % PAGE = a % PAGE
<1>1. PICK q \in Nat : XIP = 8 * q
  <2>1. PICK q \in Nat, r \in 0 .. 7 : XIP = 8 * q + r
    BY MapAssumption, Eights, Zenon
  <2>2. XIP % 8 = r
    BY <2>1
  <2>3. XIP = 8 * q
    BY <2>1, <2>2, MapAssumption
  <2> QED
    BY <2>3
<1> DEFINE x == a - 8 * q
<1>2. x \in 0 .. 7 /\ a = 8 * q + x /\ a - XIP = x
  BY <1>1
<1> HIDE DEF x
<1>3. a % 8 = x
  BY <1>2
<1>4. \A n \in {1, 2, 4, 8} : (8 * q + x) % n = x % n
  <2>1. ASSUME NEW n \in {1, 2, 4, 8} PROVE (8 * q + x) % n = x % n
    <3>1. (8 * q + x) % 1 = x % 1
      BY <1>2
    <3>2. (8 * q + x) % 2 = x % 2
      BY <1>2
    <3>3. (8 * q + x) % 4 = x % 4
      BY <1>2
    <3>4. (8 * q + x) % 8 = x % 8
      BY <1>2
    <3> QED
      BY <3>1, <3>2, <3>3, <3>4
  <2> QED
    BY <2>1
<1> QED
  BY <1>2, <1>3, <1>4, SizeAssumption, Zenon

\* The cells of the block that begins at a.
LEMMA BlockIs ==
    ASSUME NEW a \in 0 .. 7, a % BLOCK = 0, NEW c \in Cells
    PROVE  c \div BLOCK = a \div BLOCK <=> a =< c /\ c < a + BLOCK
<1>1. CASE BLOCK = 1
  BY <1>1 DEF Cells
<1>2. CASE BLOCK = 2
  BY <1>2 DEF Cells
<1>3. CASE BLOCK = 4
  BY <1>3 DEF Cells
<1>4. CASE BLOCK = 8
  BY <1>4 DEF Cells
<1> QED
  BY <1>1, <1>2, <1>3, <1>4, SizeAssumption

\* The cells that n bytes from a on reach in a page they do not leave.
LEMMA PageIs ==
    ASSUME NEW a \in 0 .. 7, NEW n \in 1 .. 8, (a % PAGE) + n =< PAGE, NEW c \in Cells, NEW i \in 1 .. n
    PROVE  /\ a =< c /\ c < a + n => c \div PAGE = a \div PAGE
           /\ c \div PAGE = a \div PAGE => ((a + i - 1) % PAGE = c % PAGE <=> a + i - 1 = c)
<1>1. CASE PAGE = 1
  BY <1>1 DEF Cells
<1>2. CASE PAGE = 2
  BY <1>2 DEF Cells
<1>3. CASE PAGE = 4
  BY <1>3 DEF Cells
<1>4. CASE PAGE = 8
  BY <1>4 DEF Cells
<1> QED
  BY <1>1, <1>2, <1>3, <1>4, SizeAssumption

\* Erasing the block at a.
LEMMA EraseIs ==
    ASSUME NEW m \in [Cells -> Bytes], NEW a \in 0 .. 7, a % BLOCK = 0
    PROVE  EraseIn(m, a) = [c \in Cells |-> IF a =< c /\ c < a + BLOCK THEN 1 ELSE m[c]]
BY BlockIs DEF EraseIn

\* Programming n bytes from a on.
LEMMA ProgramIs ==
    ASSUME NEW m \in [Cells -> Bytes], NEW a \in 0 .. 7, NEW d \in Seq(Bytes), NEW n \in 1 .. 8,
           n = Len(d), (a % PAGE) + n =< PAGE
    PROVE  ProgramIn(m, a, d)
               = [c \in Cells |-> IF a =< c /\ c < a + n THEN m[c] * d[c - a + 1] ELSE m[c]]
<1> DEFINE at(c) == {i \in DOMAIN d : (a + i - 1) % PAGE = c % PAGE}
<1>1. ASSUME NEW c \in Cells
      PROVE  (IF c \div PAGE # a \div PAGE \/ at(c) = {} THEN m[c] ELSE m[c] * d[Max(at(c))])
                 = IF a =< c /\ c < a + n THEN m[c] * d[c - a + 1] ELSE m[c]
  <2>1. DOMAIN d = 1 .. n /\ c \in 0 .. 7
    BY LenProperties DEF Cells
  <2>2. CASE a =< c /\ c < a + n
    <3> DEFINE i == c - a + 1
    <3>1. i \in 1 .. n /\ i \in Int /\ a + i - 1 = c
      BY <2>1, <2>2
    <3> HIDE DEF i
    <3>2. \A j \in 1 .. n : (a + j - 1) % PAGE = c % PAGE <=> a + j - 1 = c
      BY <2>2, PageIs
    <3>3. \A j \in 1 .. n : a + j - 1 = c <=> j = i
      BY <2>1, <3>1
    <3>4. at(c) = {i}
      BY <2>1, <3>1, <3>2, <3>3, Zenon
    <3>5. Max({i}) = i
      BY <3>1 DEF Max
    <3>6. c \div PAGE = a \div PAGE /\ at(c) # {}
      BY <2>2, <3>1, <3>4, PageIs
    <3>7. d[Max(at(c))] = d[i]
      BY <3>4, <3>5, Zenon
    <3> HIDE DEF at
    <3> QED
      BY <2>2, <3>6, <3>7, Zenon DEF i
  <2>3. CASE ~(a =< c /\ c < a + n)
    <3>1. SUFFICES ASSUME c \div PAGE = a \div PAGE PROVE at(c) = {}
      BY <2>3, Zenon
    <3>2. \A j \in 1 .. n : (a + j - 1) % PAGE = c % PAGE <=> a + j - 1 = c
      BY <3>1, PageIs
    <3>3. \A j \in 1 .. n : a + j - 1 # c
      BY <2>1, <2>3
    <3> QED
      BY <2>1, <3>2, <3>3, Zenon
  <2> QED
    BY <2>2, <2>3
<1> QED
  BY <1>1, Zenon DEF ProgramIn

\* What a bit can be programmed to.
LEMMA BitAndBit == \A x, y \in Bytes : x * y \in Bytes
<1>1. \A y \in Bytes : 0 * y = 0 /\ 1 * y = y
  BY DEF Bytes
<1>2. \A x \in Bytes : x = 0 \/ x = 1
  BY DEF Bytes
<1>3. 0 \in Bytes
  BY DEF Bytes
<1> QED
  BY <1>1, <1>2, <1>3, Zenon

-----------------------------------------------------------------------------
(* One byte read, and one sent.                                             *)

LEMMA RxType ==
    ASSUME NEW out \in Bytes, NEW byte \in Bytes, NEW t, spi \in SpiType,
           NEW got \in nuspi_rx(out, byte, t)
    PROVE  got.value \in Bytes /\ got.rx \in Seq(Bytes)
<1> DEFINE fifo == Append(spi.rx, byte)
<1>1. spi.rx \in Seq(Bytes)
  BY DEF SpiType
<1>2. fifo \in Seq(Bytes) /\ fifo # <<>>
  BY <1>1
<1> HIDE DEF fifo
<1>3. Head(fifo) \in Bytes /\ Tail(fifo) \in Seq(Bytes) /\ <<>> \in Seq(Bytes)
  BY <1>2
<1> DEFINE wait == IF spi.rx = <<>> THEN Wait(t.polls) ELSE "ready"
<1>4. CASE wait = "ready"
  <2>1. got = [value |-> Head(fifo), rx |-> Tail(fifo), slow |-> FALSE]
    BY <1>4 DEF nuspi_rx, fifo
  <2> QED
    BY <1>3, <2>1
<1>5. CASE wait = "error"
  <2>1. got = [value |-> out, rx |-> IF is_nuspi THEN fifo ELSE <<>>, slow |-> TRUE]
    BY <1>5 DEF nuspi_rx, fifo
  <2> QED
    BY <1>2, <1>3, <2>1
<1>6. CASE wait # "ready" /\ wait # "error"
  <2>1. PICK v \in Bytes : got = [value |-> v, rx |-> fifo, slow |-> TRUE]
    BY <1>6 DEF nuspi_rx, fifo
  <2> QED
    BY <1>2, <2>1
<1> QED
  BY <1>4, <1>5, <1>6

\* Out of an empty FIFO, in time, comes the byte that was read.
LEMMA RxExact ==
    ASSUME NEW out, NEW byte \in Bytes, NEW t, spi.rx = <<>>,
           NEW got \in nuspi_rx(out, byte, t), ~got.slow
    PROVE  got.value = byte /\ got.rx = <<>>
<1>1. Append(spi.rx, byte) = <<byte>> /\ Head(<<byte>>) = byte /\ Tail(<<byte>>) = <<>>
  OBVIOUS
<1> QED
  BY <1>1 DEF nuspi_rx

-----------------------------------------------------------------------------
(* The flash is mapped at the end, whatever happens on the way.             *)

\* The controller of a board that has been switched on.
LEMMA ResetType ==
    ASSUME NEW v \in Versions, NEW junk \in {<<>>, << 0 >>}
    PROVE  /\ [Reset(v) EXCEPT !.rx = junk] \in SpiType
           /\ [Reset(v) EXCEPT !.rx = junk].cs = "auto" /\ [Reset(v) EXCEPT !.rx = junk].hw = TRUE
<1>1. 0 \in Bytes
  BY DEF Bytes
<1>2. <<>> \in Seq(Bytes) /\ << 0 >> \in Seq(Bytes)
  BY <1>1
<1>3. junk \in Seq(Bytes)
  BY <1>2, Zenon
<1> QED
  BY <1>3 DEF Reset, SpiType

\* Every step keeps it so.
LEMMA MappingKeeps == ASSUME Mapping, [Next]_vars PROVE Mapping'
<1> USE DEF Phases, Resting, Loading
<1>1. /\ pc \in Phases /\ slow \in BOOLEAN /\ spi \in SpiType /\ status \in Bytes
      /\ (pc \in Resting => spi.cs = "auto") /\ (pc = "idle" => spi.hw)
      /\ (pc \in Loading => op \in {"erase", "write"})
  BY DEF Mapping
<1>2. CASE FlashInit
  BY <1>1, <1>2 DEF FlashInit, Mapping
<1>3. CASE ClearRxFifo
  <2>1. Rest \in Seq(Bytes)
    BY <1>1 DEF Rest, SpiType
  <2>2. spi' \in SpiType /\ spi'.cs = spi.cs
    BY <1>1, <1>3, <2>1 DEF ClearRxFifo, SpiType
  <2> QED
    BY <1>1, <1>3, <2>2 DEF ClearRxFifo, Mapping
<1>4. CASE Identify
  <2>1. PICK s \in Treatments(1), r \in Treatments(0) : \E got \in nuspi_rx(0, 0, r) :
            /\ pc = "identify" /\ spi' = [spi EXCEPT !.rx = got.rx, !.hw = TRUE]
            /\ slow' = (slow \/ TooSlow(s) \/ got.slow) /\ pc' = "idle"
            /\ UNCHANGED <<op, status>>
    BY <1>4 DEF Identify
  <2>2. PICK got \in nuspi_rx(0, 0, r) :
            /\ pc = "identify" /\ spi' = [spi EXCEPT !.rx = got.rx, !.hw = TRUE]
            /\ slow' = (slow \/ TooSlow(s) \/ got.slow) /\ pc' = "idle"
            /\ UNCHANGED <<op, status>>
    BY <2>1
  <2>3. got.rx \in Seq(Bytes)
    <3>1. 0 \in Bytes
      BY DEF Bytes
    <3> QED
      BY <1>1, <3>1, RxType
  <2>4. spi' \in SpiType /\ spi'.cs = spi.cs /\ spi'.hw = TRUE
    BY <1>1, <2>2, <2>3 DEF SpiType
  <2>5. slow' \in BOOLEAN
    BY <2>2, Zenon
  <2> QED
    BY <1>1, <2>2, <2>4, <2>5 DEF Mapping
<1>5. ASSUME NEW a \in Cells, NEW n \in 0 .. 8, FlashErase(XIP + a, n) PROVE Mapping'
  <2>1. Mapped \in SpiType /\ Mapped.cs = spi.cs /\ Mapped.hw = TRUE /\ Unmapped \in SpiType
    BY <1>1 DEF Mapped, Unmapped, SpiType
  <2> QED
    BY <1>1, <1>5, <2>1 DEF FlashErase, Mapping
<1>6. ASSUME NEW a \in Cells, NEW data \in Writes, FlashWrite(XIP + a, data) PROVE Mapping'
  <2>1. Mapped \in SpiType /\ Mapped.cs = spi.cs /\ Mapped.hw = TRUE /\ Unmapped \in SpiType
    BY <1>1 DEF Mapped, Unmapped, SpiType
  <2> QED
    BY <1>1, <1>6, <2>1 DEF FlashWrite, Mapping
<1>7. CASE WriteEnable
  <2>1. slow' \in BOOLEAN
    BY <1>7, Zenon DEF WriteEnable
  <2>2. pc = "enable" /\ pc' = op /\ UNCHANGED <<spi, op, status>>
    BY <1>7 DEF WriteEnable
  <2> QED
    BY <1>1, <2>1, <2>2 DEF Mapping
<1>8. CASE EraseBlock
  <2>1. slow' \in BOOLEAN
    BY <1>8, Zenon DEF EraseBlock
  <2>2. pc = "erase" /\ pc' = "ask" /\ UNCHANGED <<spi, op, status>>
    BY <1>8 DEF EraseBlock
  <2> QED
    BY <1>1, <2>1, <2>2 DEF Mapping
<1>9. CASE ProgramPage
  <2>1. slow' \in BOOLEAN
    BY <1>9, Zenon DEF ProgramPage
  <2>2. pc = "write" /\ pc' = "ask" /\ UNCHANGED <<spi, op, status>>
    BY <1>9 DEF ProgramPage
  <2> QED
    BY <1>1, <2>1, <2>2 DEF Mapping
<1>10. CASE AskStatus
  <2>1. slow' \in BOOLEAN
    BY <1>10, Zenon DEF AskStatus
  <2>2. /\ pc = "ask" /\ pc' = "status" /\ status' = 1 /\ op' = op
        /\ spi' = [spi EXCEPT !.cs = "hold"]
    BY <1>10 DEF AskStatus
  <2>3. spi' \in SpiType /\ 1 \in Bytes
    BY <1>1, <2>2 DEF SpiType, Bytes
  <2> QED
    BY <1>1, <2>1, <2>2, <2>3 DEF Mapping
<1>11. CASE ReadStatus
  <2>1. PICK byte \in OnLine, t \in Treatments(0) : \E got \in nuspi_rx(status, byte, t) :
            /\ pc = "status" /\ status' = got.value /\ slow' = (slow \/ got.slow)
            /\ IF got.value = 1
               THEN pc' = pc /\ spi' = [spi EXCEPT !.rx = got.rx]
               ELSE /\ spi' = [spi EXCEPT !.rx = got.rx, !.cs = "auto", !.hw = ~More]
                    /\ pc' = IF More THEN "enable" ELSE "idle"
            /\ Return(pc' = "idle")
    BY <1>11 DEF ReadStatus
  <2>2. PICK got \in nuspi_rx(status, byte, t) :
            /\ pc = "status" /\ status' = got.value /\ slow' = (slow \/ got.slow)
            /\ IF got.value = 1
               THEN pc' = pc /\ spi' = [spi EXCEPT !.rx = got.rx]
               ELSE /\ spi' = [spi EXCEPT !.rx = got.rx, !.cs = "auto", !.hw = ~More]
                    /\ pc' = IF More THEN "enable" ELSE "idle"
            /\ Return(pc' = "idle")
    BY <2>1
  <2>3. byte \in Bytes
    BY DEF OnLine, Bytes
  <2>4. got.value \in Bytes /\ got.rx \in Seq(Bytes)
    BY <1>1, <2>3, RxType
  <2>5. slow' \in BOOLEAN
    BY <2>2, Zenon
  <2>6. CASE got.value = 1
    <3>1. pc' = "status" /\ op' = op
      BY <2>2, <2>6 DEF Return
    <3>2. spi' \in SpiType
      BY <1>1, <2>2, <2>4, <2>6 DEF SpiType
    <3> QED
      BY <1>1, <2>2, <2>4, <2>5, <3>1, <3>2 DEF Mapping
  <2>7. CASE got.value # 1 /\ More
    <3>1. pc' = "enable" /\ op' = op
      BY <2>2, <2>7 DEF Return
    <3>2. spi' \in SpiType
      BY <1>1, <2>2, <2>4, <2>7 DEF SpiType
    <3> QED
      BY <1>1, <2>2, <2>4, <2>5, <3>1, <3>2 DEF Mapping
  <2>8. CASE got.value # 1 /\ ~More
    <3>1. pc' = "idle"
      BY <2>2, <2>8
    <3>2. spi' \in SpiType /\ spi'.cs = "auto" /\ spi'.hw
      BY <1>1, <2>2, <2>4, <2>8, ZenonT(60) DEF SpiType
    <3> QED
      BY <1>1, <2>2, <2>4, <2>5, <3>1, <3>2 DEF Mapping
  <2> QED
    BY <2>6, <2>7, <2>8
<1>12. CASE ChipDone
  BY <1>1, <1>12 DEF ChipDone, Mapping
<1>13. CASE Replace
  <2>1. PICK v \in Versions, junk \in {<<>>, << 0 >>} : spi' = [Reset(v) EXCEPT !.rx = junk]
    BY <1>13 DEF Replace
  <2>2. spi' \in SpiType /\ spi'.cs = "auto" /\ spi'.hw
    BY <2>1, ResetType
  <2>3. status' = 0 /\ slow' = FALSE /\ pc = "idle" /\ pc' = "idle" /\ 0 \in Bytes
    BY <1>13 DEF Replace, Bytes
  <2> QED
    BY <1>1, <2>2, <2>3 DEF Mapping
<1>14. CASE UNCHANGED vars
  BY <1>1, <1>14 DEF vars, Mapping
<1> QED
  BY <1>2, <1>3, <1>4, <1>5, <1>6, <1>7, <1>8, <1>9, <1>10, <1>11, <1>12, <1>13, <1>14
     DEF Next, Server, Host

-----------------------------------------------------------------------------
(* Steps of the controller that take too long, and the steps after one.     *)

MStep == Memory!Next \/ UNCHANGED Memory!vars

LEMMA SlowMaps == ASSUME IInv, [Next]_vars, slow \/ slow' PROVE MStep
<1>1. Mapping /\ Mapping' /\ slow \in BOOLEAN /\ slow' \in BOOLEAN
  BY MappingKeeps DEF IInv, Mapping
<1>2. pc' # "idle" \/ (spi'.hw /\ spi'.cs = "auto")
  BY <1>1 DEF Mapping, Resting
<1>3. CASE slow /\ slow'
  BY <1>2, <1>3 DEF MStep, Memory!Next, Memory!AfterFault
<1>4. CASE Replace
  <2>1. pc = "idle" /\ pc' = "idle" /\ ~slow'
    BY <1>4 DEF Replace
  <2> QED
    BY <1>2, <2>1 DEF MStep, Memory!Next, Memory!Replace
<1>5. CASE slow /\ ~slow' /\ ~Replace
  <2>1. CASE Server
    <3>1. CASE ClearRxFifo
      BY <1>5, <3>1 DEF ClearRxFifo
    <3>2. CASE Identify
      BY <1>5, <3>2, Zenon DEF Identify
    <3>3. CASE WriteEnable
      BY <1>5, <3>3, Zenon DEF WriteEnable
    <3>4. CASE EraseBlock
      BY <1>5, <3>4, Zenon DEF EraseBlock
    <3>5. CASE ProgramPage
      BY <1>5, <3>5, Zenon DEF ProgramPage
    <3>6. CASE AskStatus
      BY <1>5, <3>6, Zenon DEF AskStatus
    <3>7. CASE ReadStatus
      BY <1>5, <3>7, Zenon DEF ReadStatus
    <3> QED
      BY <2>1, <3>1, <3>2, <3>3, <3>4, <3>5, <3>6, <3>7 DEF Server
  <2>2. CASE ChipDone
    BY <1>5, <2>2 DEF ChipDone
  <2>3. CASE Host
    BY <1>5, <2>3 DEF Host, FlashInit, FlashErase, FlashWrite
  <2>4. CASE UNCHANGED vars
    BY <1>5, <2>4 DEF vars
  <2> QED
    BY <1>5, <2>1, <2>2, <2>3, <2>4 DEF Next
<1>6. CASE ~slow /\ slow' /\ ~Replace
  <2>1. chip \in ChipType
    BY <1>6 DEF IInv, Exact
  <2>2. ASSUME NEW bytes PROVE nuspi_cs(bytes).mem = chip.mem
    BY <2>1, TakeKeepsMem DEF nuspi_cs
  <2>3. pc # "idle" /\ chip'.mem = chip.mem /\ want' = want
    <3>1. CASE Server
      <4>1. CASE ClearRxFifo
        BY <1>6, <4>1 DEF ClearRxFifo
      <4>2. CASE Identify
        BY <2>1, <4>2, TakeKeepsMem DEF Identify
      <4>3. CASE WriteEnable
        BY <2>2, <4>3 DEF WriteEnable
      <4>4. CASE EraseBlock
        BY <2>2, <4>4 DEF EraseBlock
      <4>5. CASE ProgramPage
        BY <2>2, <4>5 DEF ProgramPage
      <4>6. CASE AskStatus
        <5>1. PICK b \in BOOLEAN : chip' = [chip EXCEPT !.asked = b]
          BY <4>6 DEF AskStatus
        <5>2. chip'.mem = chip.mem
          BY <2>1, <5>1 DEF ChipType
        <5> QED
          BY <4>6, <5>2 DEF AskStatus
      <4>7. CASE ReadStatus
        <5>1. chip' = chip \/ chip' = [chip EXCEPT !.asked = FALSE]
          BY <4>7 DEF ReadStatus
        <5>2. chip'.mem = chip.mem
          BY <2>1, <5>1 DEF ChipType
        <5> QED
          BY <4>7, <5>2 DEF ReadStatus
      <4> QED
        BY <3>1, <4>1, <4>2, <4>3, <4>4, <4>5, <4>6, <4>7 DEF Server
    <3>2. CASE ChipDone
      BY <1>6, <3>2 DEF ChipDone
    <3>3. CASE Host
      BY <1>6, <3>3 DEF Host, FlashInit, FlashErase, FlashWrite
    <3>4. CASE UNCHANGED vars
      BY <1>6, <3>4 DEF vars
    <3> QED
      BY <1>6, <3>1, <3>2, <3>3, <3>4 DEF Next
  <2>4. CASE pc' # "idle"
    BY <1>6, <2>3, <2>4 DEF MStep, Memory!Next, Memory!Fault
  <2>5. CASE pc' = "idle"
    BY <1>2, <1>6, <2>3, <2>5 DEF MStep, Memory!Next, Memory!Answer
  <2> QED
    BY <2>4, <2>5
<1> QED
  BY <1>3, <1>4, <1>5, <1>6, Zenon

-----------------------------------------------------------------------------
(* Steps in time.                                                           *)

\* A chip that has begun to change its content.
LEMMA Begins ==
    ASSUME NEW ch \in ChipType, NEW m \in [Cells -> Bytes], NEW new,
           new = [ch EXCEPT !.busy = TRUE, !.next = m]
    PROVE  /\ new \in ChipType /\ new.busy = TRUE /\ new.next = m
           /\ new.mem = ch.mem /\ new.wel = ch.wel /\ new.asked = ch.asked
BY DEF ChipType

\* The multiples of a block.
LEMMA Multiples ==
    ASSUME NEW l \in Nat
    PROVE  /\ BLOCK \in Nat /\ BLOCK > 0 /\ l * BLOCK \in Nat /\ (l = 0 => l * BLOCK = 0)
           /\ l > 0 => l - 1 \in Nat /\ (l - 1) * BLOCK = l * BLOCK - BLOCK /\ l * BLOCK >= BLOCK
           /\ \A a \in Nat : a % BLOCK = 0 => (a + BLOCK) % BLOCK = 0
           /\ \A n \in 0 .. 8 : n % BLOCK = 0 => n \div BLOCK \in Nat /\ (n \div BLOCK) * BLOCK = n
                                                /\ (n < BLOCK => n = 0)
<1>1. CASE BLOCK = 1
  BY <1>1
<1>2. CASE BLOCK = 2
  BY <1>2
<1>3. CASE BLOCK = 4
  BY <1>3
<1>4. CASE BLOCK = 8
  BY <1>4
<1> QED
  BY <1>1, <1>2, <1>3, <1>4, SizeAssumption

\* A step inside a command that keeps the content.
LEMMA KeepsContent ==
    ASSUME IInv, [Next]_vars, ~slow, ~slow', pc # "idle", pc' # "idle",
           chip'.mem = chip.mem, want' = want
    PROVE  MStep
<1>1. slow' = slow
  <2>1. slow \in BOOLEAN /\ slow' \in BOOLEAN
    BY MappingKeeps, Zenon DEF IInv, Mapping
  <2> QED
    BY <2>1, Zenon
<1>2. \A c \in DOMAIN chip.mem : chip'.mem[c] \in {chip.mem[c], want[c]}
  OBVIOUS
<1>3. Memory!Progress
  BY <1>1, <1>2, Zenon DEF Memory!Progress
<1> QED
  BY <1>3, Zenon DEF MStep, Memory!Next

LEMMA FlashInitExact == ASSUME IInv, ~slow, FlashInit PROVE Exact' /\ MStep
<1>1. /\ Exact /\ pc = "idle" /\ pc' = "flush" /\ known' = TRUE
      /\ UNCHANGED <<chip, spi, op, curr, left, buffer, status, slow, want>>
  BY DEF IInv, FlashInit
<1>2. Exact'
  BY <1>1 DEF Exact, Resting, Loading, Phases
<1>3. Memory!Ask
  BY <1>1 DEF Memory!Ask
<1> QED
  BY <1>2, <1>3 DEF MStep, Memory!Next

LEMMA ClearRxFifoExact == ASSUME IInv, ~slow, ClearRxFifo PROVE Exact' /\ MStep
<1>1. /\ Exact /\ Mapping /\ pc = "flush" /\ pc' \in {"flush", "identify"}
      /\ (pc' = "identify" => Cleared) /\ spi' = [spi EXCEPT !.rx = Rest, !.hw = IF Cleared THEN FALSE ELSE @]
      /\ UNCHANGED <<chip, is_nuspi, op, curr, left, buffer, status, known, slow, want>>
  BY DEF IInv, ClearRxFifo
<1>2. spi'.rx = Rest /\ (Cleared => Rest = <<>>)
  BY <1>1 DEF Mapping, SpiType, Cleared, Rest
<1>3. Exact'
  BY <1>1, <1>2 DEF Exact, Resting, Loading, Phases
<1>4. Memory!Progress
  BY <1>1 DEF Memory!Progress
<1> QED
  BY <1>3, <1>4 DEF MStep, Memory!Next

LEMMA IdentifyExact == ASSUME IInv, [Next]_vars, ~slow, ~slow', Identify PROVE Exact' /\ MStep
<1>1. Exact /\ Mapping /\ Mapping'
  BY MappingKeeps DEF IInv
<1>2. PICK s \in Treatments(1), r \in Treatments(0) : \E got \in nuspi_rx(0, 0, r) :
          /\ pc = "identify" /\ chip' = Take(chip, nuspi_tx(<<READ_ID>>, s))
          /\ spi' = [spi EXCEPT !.rx = got.rx, !.hw = TRUE]
          /\ slow' = (slow \/ TooSlow(s) \/ got.slow) /\ pc' = "idle"
          /\ UNCHANGED <<is_nuspi, op, curr, left, buffer, status, known, want>>
  BY DEF Identify
<1>3. PICK got \in nuspi_rx(0, 0, r) :
          /\ pc = "identify" /\ chip' = Take(chip, nuspi_tx(<<READ_ID>>, s))
          /\ spi' = [spi EXCEPT !.rx = got.rx, !.hw = TRUE]
          /\ slow' = (slow \/ TooSlow(s) \/ got.slow) /\ pc' = "idle"
          /\ UNCHANGED <<is_nuspi, op, curr, left, buffer, status, known, want>>
  BY <1>2
<1>4. ~TooSlow(s) /\ ~got.slow
  BY <1>3, Zenon
<1>5. known /\ spi.rx = <<>> /\ chip \in ChipType /\ ~chip.busy /\ want = chip.mem
  BY <1>1, <1>3 DEF Exact, Resting
<1>6. spi'.rx = <<>>
  <2>1. 0 \in Bytes
    BY DEF Bytes
  <2>2. got.rx = <<>>
    BY <1>4, <1>5, <2>1, RxExact
  <2> QED
    BY <1>1, <1>3, <2>2 DEF Mapping, SpiType
<1>7. chip' = chip
  <2>1. chip' = Take(chip, <<READ_ID>>)
    BY <1>3, <1>4, InTime, Zenon
  <2>2. Head(<<READ_ID>>) = READ_ID /\ READ_ID # WRITE_ENABLE /\ READ_ID # BLOCK_ERASE /\ READ_ID # PAGE_PROGRAM
    BY DEF READ_ID, WRITE_ENABLE, BLOCK_ERASE, PAGE_PROGRAM
  <2> QED
    BY <2>1, <2>2, Zenon DEF Take
<1>8. Exact'
  BY <1>1, <1>3, <1>5, <1>6, <1>7 DEF Exact, Resting, Loading, Phases
<1>9. spi'.hw /\ spi'.cs = "auto"
  BY <1>1, <1>3 DEF Mapping, Resting
<1>10. Memory!Answer
  BY <1>3, <1>5, <1>7, <1>9 DEF Memory!Answer
<1> QED
  BY <1>8, <1>10 DEF MStep, Memory!Next

LEMMA WriteEnableExact == ASSUME IInv, [Next]_vars, ~slow, ~slow', WriteEnable PROVE Exact' /\ MStep
<1>1. PICK t \in Treatments(1) :
          /\ pc = "enable" /\ chip' = nuspi_cs(nuspi_tx(<<WRITE_ENABLE>>, t))
          /\ slow' = (slow \/ TooSlow(t)) /\ pc' = op
          /\ UNCHANGED <<spi, is_nuspi, op, curr, left, buffer, status, known, want>>
  BY DEF WriteEnable
<1>2. Exact /\ Ready /\ chip \in ChipType /\ ~chip.busy /\ More /\ op \in {"erase", "write"} /\ ~spi.hw
  BY <1>1 DEF IInv, Exact, Ready, Resting, Loading, Phases
<1>3. ~TooSlow(t)
  BY <1>1, Zenon
<1>4. chip' = [chip EXCEPT !.wel = TRUE]
  <2>1. chip' = Take(chip, <<WRITE_ENABLE>>)
    BY <1>1, <1>2, <1>3, InTime, Zenon DEF nuspi_cs
  <2> QED
    BY <1>2, <2>1, TakeEnable, Zenon
<1>5. /\ chip' \in ChipType /\ chip'.wel = TRUE /\ chip'.mem = chip.mem /\ chip'.busy = chip.busy
      /\ chip'.next = chip.next /\ chip'.asked = chip.asked
  BY <1>2, <1>4 DEF ChipType
<1>6. Content' = Content /\ Done(Content)' = Done(Content) /\ Ready' = Ready /\ More' = More
  BY <1>1, <1>5 DEF Content, Done, Left, Asked, Ready, More
<1>7. Exact'
  BY <1>1, <1>2, <1>5, <1>6 DEF Exact, Resting, Loading, Phases
<1>8. pc # "idle" /\ pc' # "idle"
  BY <1>1, <1>2
<1> QED
  BY <1>1, <1>5, <1>7, <1>8, KeepsContent, Zenon

\* Erasing: what is left to be erased gets shorter by the block that is.
LEMMA EraseBlockExact == ASSUME IInv, [Next]_vars, ~slow, ~slow', EraseBlock PROVE Exact' /\ MStep
<1>1. PICK t \in Treatments(4) :
          /\ pc = "erase" /\ chip' = nuspi_cs(nuspi_tx(<<BLOCK_ERASE>> \o Address(curr), t))
          /\ slow' = (slow \/ TooSlow(t))
          /\ curr' = curr + BLOCK /\ left' = left - 1 /\ pc' = "ask"
          /\ UNCHANGED <<spi, is_nuspi, op, buffer, status, known, want>>
  BY DEF EraseBlock
<1>2. /\ chip \in ChipType /\ ~chip.busy /\ chip.wel /\ op = "erase" /\ left \in Nat /\ left > 0 /\ ~spi.hw
      /\ want \in [Cells -> Bytes] /\ known /\ curr \in Nat /\ buffer \in Seq(Bytes) /\ spi.rx = <<>>
      /\ XIP =< curr /\ curr + left * BLOCK =< XIP + 8 /\ curr % BLOCK = 0
      /\ want = Done(chip.mem) /\ chip.mem \in [Cells -> Bytes]
  BY <1>1 DEF IInv, Exact, Ready, Resting, Loading, Phases, More, Content, Left, ChipType
<1> DEFINE a == curr - XIP
           L == left * BLOCK
           n == EraseIn(chip.mem, a)
           D == Done(Content)'
<1>3. /\ L \in Nat /\ BLOCK \in Nat /\ BLOCK > 0 /\ L >= BLOCK /\ left' \in Nat /\ left' * BLOCK = L - BLOCK
      /\ (curr + BLOCK) % BLOCK = 0
  BY <1>1, <1>2, Multiples
<1>4. a \in 0 .. 7 /\ curr % 8 = a /\ a % BLOCK = 0 /\ XIP \in Nat
  <2>1. curr < XIP + 8 /\ XIP \in Nat
    BY <1>2, <1>3, MapAssumption
  <2> QED
    BY <1>2, <2>1, Places, Zenon
<1>5. chip' = [chip EXCEPT !.busy = TRUE, !.next = n]
  <2>1. ~TooSlow(t)
    BY <1>1, Zenon
  <2>2. chip' = Take(chip, <<BLOCK_ERASE>> \o Address(curr))
    BY <1>1, <1>2, <2>1, InTime, Zenon DEF nuspi_cs
  <2> QED
    BY <1>2, <1>4, <2>2, TakeErase, Zenon
<1>6. n = [c \in Cells |-> IF curr =< c + XIP /\ c + XIP < curr + BLOCK THEN 1 ELSE chip.mem[c]]
  <2>1. n = [c \in Cells |-> IF a =< c /\ c < a + BLOCK THEN 1 ELSE chip.mem[c]]
    BY <1>2, <1>4, EraseIs, Zenon
  <2>2. \A c \in Cells : a =< c /\ c < a + BLOCK <=> curr =< c + XIP /\ c + XIP < curr + BLOCK
    BY <1>2, <1>3, <1>4 DEF Cells
  <2> HIDE DEF n, a
  <2> QED
    BY <2>1, <2>2
<1>7. n \in [Cells -> Bytes]
  <2>1. 1 \in Bytes
    BY DEF Bytes
  <2> HIDE DEF n
  <2> QED
    BY <1>2, <1>6, <2>1
<1> HIDE DEF n
<1>8. chip' \in ChipType /\ chip'.busy = TRUE /\ chip'.next = n /\ chip'.mem = chip.mem
  BY <1>2, <1>5, <1>7 DEF ChipType
<1>9. want = [c \in Cells |-> IF curr =< c + XIP /\ c + XIP < curr + L THEN 1 ELSE chip.mem[c]]
  BY <1>2 DEF Done, Left, Asked
<1>10. D = [c \in Cells |-> IF curr' =< c + XIP /\ c + XIP < curr' + left' * BLOCK THEN 1 ELSE n[c]]
  BY <1>1, <1>2, <1>8 DEF Done, Left, Asked, Content
<1> HIDE DEF L, a, D
<1>11. \A c \in Cells : want[c] = D[c] /\ n[c] \in {chip.mem[c], want[c]}
  <2> SUFFICES ASSUME NEW c \in Cells
               PROVE  want[c] = D[c] /\ n[c] \in {chip.mem[c], want[c]}
    OBVIOUS
  <2> DEFINE x == c + XIP
             all == curr =< x /\ x < curr + L
             now == curr =< x /\ x < curr + BLOCK
             rest == curr + BLOCK =< x /\ x < curr + BLOCK + (L - BLOCK)
  <2>1. /\ want[c] = IF all THEN 1 ELSE chip.mem[c]
        /\ n[c] = IF now THEN 1 ELSE chip.mem[c]
        /\ D[c] = IF rest THEN 1 ELSE n[c]
    BY <1>1, <1>3, <1>6, <1>9, <1>10, Zenon
  <2>2. x \in Nat
    BY <1>4 DEF Cells
  <2> HIDE DEF x
  <2>3. all <=> now \/ rest
    BY <1>2, <1>3, <2>2
  <2> HIDE DEF all, now, rest
  <2> QED
    BY <2>1, <2>3, Zenon
<1>12. want' = Done(Content)'
  <2>1. want = D
    BY <1>9, <1>10, <1>11
  <2> QED
    BY <1>1, <2>1, Zenon DEF D
<1>13. Ready'
  <2>1. curr' + left' * BLOCK =< XIP + 8 /\ XIP =< curr' /\ curr' % BLOCK = 0
    BY <1>1, <1>2, <1>3, <1>4 DEF L
  <2> QED
    BY <1>1, <1>2, <2>1 DEF Ready, Left
<1>14. curr' \in Nat
  BY <1>1, <1>2, <1>3
<1>15. \A c \in Cells : chip'.next[c] \in {chip'.mem[c], want'[c]}
  BY <1>1, <1>8, <1>11
<1>16. Exact'
  BY <1>1, <1>2, <1>3, <1>8, <1>12, <1>13, <1>14, <1>15 DEF Exact, Resting, Loading, Phases
<1>17. pc # "idle" /\ pc' # "idle"
  BY <1>1
<1> QED
  BY <1>1, <1>8, <1>16, <1>17, KeepsContent, Zenon

\* The bytes of a sequence up to one of them, and the others.
LEMMA Halves ==
    ASSUME NEW s \in Seq(Bytes), NEW l \in Nat, l = Len(s), NEW k \in 1 .. l
    PROVE  /\ SubSeq(s, 1, k) \in Seq(Bytes) /\ Len(SubSeq(s, 1, k)) = k
           /\ \A i \in 1 .. k : SubSeq(s, 1, k)[i] = s[i]
           /\ SubSeq(s, k + 1, Len(s)) \in Seq(Bytes) /\ Len(SubSeq(s, k + 1, Len(s))) = l - k
           /\ \A i \in 1 .. l - k : SubSeq(s, k + 1, Len(s))[i] = s[k + i]
<1>1. \A i \in 1 .. l : s[i] \in Bytes
  BY ElementOfSeq
<1> DEFINE u == SubSeq(s, 1, k)
           v == SubSeq(s, k + 1, l)
<1>2. u \in Seq(Bytes) /\ Len(u) = k /\ \A i \in 1 .. k : u[i] = s[i]
  <2>1. 1 \in Int /\ k \in Int /\ \A i \in 1 .. k : s[i] \in Bytes
    BY <1>1
  <2>2. u \in Seq(Bytes) /\ Len(u) = (IF 1 =< k THEN k - 1 + 1 ELSE 0)
        /\ \A i \in 1 .. k - 1 + 1 : u[i] = s[1 + i - 1]
    BY <2>1, SubSeqProperties
  <2> HIDE DEF u
  <2>3. k - 1 + 1 = k /\ 1 =< k /\ \A i \in 1 .. k : 1 + i - 1 = i
    OBVIOUS
  <2> QED
    BY <2>2, <2>3, Zenon
<1>3. v \in Seq(Bytes) /\ Len(v) = l - k /\ \A i \in 1 .. l - k : v[i] = s[k + i]
  <2> DEFINE j == k + 1
  <2>1. j \in Int /\ l \in Int /\ \A i \in j .. l : s[i] \in Bytes
    BY <1>1
  <2>2. l - j + 1 = l - k /\ (IF j =< l THEN l - j + 1 ELSE 0) = l - k /\ \A i \in 1 .. l - k : j + i - 1 = k + i
    OBVIOUS
  <2> HIDE DEF j
  <2>3. v \in Seq(Bytes) /\ Len(v) = (IF j =< l THEN l - j + 1 ELSE 0)
        /\ \A i \in 1 .. l - j + 1 : v[i] = s[j + i - 1]
    BY <2>1, SubSeqProperties DEF j
  <2> HIDE DEF v
  <2> QED
    BY <2>2, <2>3, Zenon
<1> QED
  BY <1>2, <1>3, Zenon DEF u, v

\* How many bytes go into the page at hand.
LEMMA CountIs ==
    ASSUME curr \in Nat, NEW l \in Nat, l = Len(buffer), l > 0
    PROVE  CurCount \in 1 .. l /\ (curr % PAGE) + CurCount =< PAGE
<1>1. PAGE \in Nat /\ curr % PAGE \in 0 .. PAGE - 1
  <2>1. curr % 1 \in 0 .. 0 /\ curr % 2 \in 0 .. 1 /\ curr % 4 \in 0 .. 3 /\ curr % 8 \in 0 .. 7
    OBVIOUS
  <2>2. CASE PAGE = 1
    BY <2>1, <2>2
  <2>3. CASE PAGE = 2
    BY <2>1, <2>3
  <2>4. CASE PAGE = 4
    BY <2>1, <2>4
  <2>5. CASE PAGE = 8
    BY <2>1, <2>5
  <2> QED
    BY <2>2, <2>3, <2>4, <2>5, SizeAssumption
<1> DEFINE r == curr % PAGE
<1>2. CurCount = IF r + l >= PAGE THEN PAGE - r ELSE l
  BY DEF CurCount
<1> HIDE DEF r
<1>3. r \in 0 .. PAGE - 1 /\ PAGE \in Nat
  BY <1>1 DEF r
<1> QED
  BY <1>2, <1>3 DEF r

\* Programming: what is left to be written gets shorter by the bytes that are.
LEMMA ProgramPageExact == ASSUME IInv, [Next]_vars, ~slow, ~slow', ProgramPage PROVE Exact' /\ MStep
<1> DEFINE k == CurCount
           data == SubSeq(buffer, 1, k)
<1>1. PICK t \in Treatments(4), d \in Treatments(k) :
          /\ pc = "write"
          /\ chip' = nuspi_cs(nuspi_tx(<<PAGE_PROGRAM>> \o Address(curr), t) \o nuspi_tx(data, d))
          /\ slow' = (slow \/ TooSlow(t) \/ TooSlow(d))
          /\ curr' = curr + k /\ buffer' = SubSeq(buffer, k + 1, Len(buffer)) /\ pc' = "ask"
          /\ UNCHANGED <<spi, is_nuspi, op, left, status, known, want>>
  BY DEF ProgramPage
<1> DEFINE l == Len(buffer)
           a == curr - XIP
           n == ProgramIn(chip.mem, a, data)
           D == Done(Content)'
<1>2. /\ chip \in ChipType /\ ~chip.busy /\ chip.wel /\ op = "write" /\ left \in Nat /\ buffer # <<>> /\ ~spi.hw
      /\ want \in [Cells -> Bytes] /\ known /\ curr \in Nat /\ buffer \in Seq(Bytes) /\ spi.rx = <<>>
      /\ XIP =< curr /\ curr + l =< XIP + 8
      /\ want = Done(chip.mem) /\ chip.mem \in [Cells -> Bytes]
  BY <1>1 DEF IInv, Exact, Ready, Resting, Loading, Phases, More, Content, Left, ChipType
<1>3. l \in Nat /\ l > 0 /\ XIP \in Nat
  BY <1>2, MapAssumption
<1>4. k \in 1 .. l /\ (curr % PAGE) + k =< PAGE
  BY <1>2, <1>3, CountIs, Zenon
<1>5. want = [c \in Cells |-> IF curr =< c + XIP /\ c + XIP < curr + l
                              THEN chip.mem[c] * buffer[c + XIP - curr + 1] ELSE chip.mem[c]]
  BY <1>2 DEF Done, Left, Asked
<1>6. /\ data \in Seq(Bytes) /\ Len(data) = k /\ (\A i \in 1 .. k : data[i] = buffer[i])
      /\ buffer' \in Seq(Bytes) /\ Len(buffer') = l - k /\ \A i \in 1 .. l - k : buffer'[i] = buffer[k + i]
  <2> HIDE DEF k
  <2> QED
    BY <1>1, <1>2, <1>3, <1>4, Halves, ZenonT(60)
<1>7. /\ a \in 0 .. 7 /\ curr % 8 = a /\ (a % PAGE) + k =< PAGE /\ k \in 1 .. 8
      /\ curr = a + XIP
  <2> HIDE DEF k, l
  <2>1. curr < XIP + 8 /\ k \in 1 .. 8 /\ curr = a + XIP
    BY <1>2, <1>3, <1>4
  <2>2. a \in 0 .. 7 /\ curr % 8 = a /\ a % PAGE = curr % PAGE
    BY <1>2, <1>3, <2>1, Places, Zenon
  <2> HIDE DEF a
  <2> QED
    BY <1>4, <2>1, <2>2, Zenon
<1> HIDE DEF k, l, data
<1>8. chip' = [chip EXCEPT !.busy = TRUE, !.next = n]
  <2>1. ~TooSlow(t) /\ ~TooSlow(d)
    BY <1>1, Zenon
  <2>2. chip' = Take(chip, (<<PAGE_PROGRAM>> \o Address(curr)) \o data)
    BY <1>1, <1>2, <2>1, InTime, Zenon DEF nuspi_cs
  <2>3. data # <<>>
    BY <1>4, <1>6
  <2> QED
    <3>1. Take(chip, (<<PAGE_PROGRAM>> \o Address(curr)) \o data)
              = [chip EXCEPT !.busy = TRUE, !.next = ProgramIn(chip.mem, curr % 8, data)]
      <4>1. chip \in ChipType /\ ~chip.busy /\ chip.wel /\ curr \in Nat /\ data \in Seq(Bytes)
        BY <1>2, <1>6, Zenon
      <4> QED
        BY <4>1, <2>3, TakeProgram
    <3> HIDE DEF a
    <3> QED
      BY <1>7, <2>2, <3>1, Zenon
<1>9. n = [c \in Cells |-> IF a =< c /\ c < a + k THEN chip.mem[c] * data[c - a + 1] ELSE chip.mem[c]]
  <2> HIDE DEF a
  <2> QED
    BY <1>2, <1>6, <1>7, ProgramIs, ZenonT(60)
<1>10. \A i \in 1 .. l : buffer[i] \in Bytes
  BY <1>2, ElementOfSeq DEF l
<1> HIDE DEF n
<1> DEFINE m == chip.mem
           all(c) == curr =< c + XIP /\ c + XIP < curr + l
           now(c) == curr =< c + XIP /\ c + XIP < curr + k
           rest(c) == curr + k =< c + XIP /\ c + XIP < curr + k + (l - k)
           bit(c) == buffer[c + XIP - curr + 1]
<1>11. \A c \in Cells : (all(c) <=> now(c) \/ rest(c)) /\ ~(now(c) /\ rest(c))
  BY <1>2, <1>3, <1>4 DEF Cells
<1>12. \A c \in Cells : all(c) => bit(c) \in Bytes
  <2>1. \A c \in Cells : all(c) => c + XIP - curr + 1 \in 1 .. l
    BY <1>2, <1>3 DEF Cells
  <2> QED
    BY <1>10, <2>1, Zenon
<1>13. \A c \in Cells : n[c] = IF now(c) THEN m[c] * bit(c) ELSE m[c]
  <2>1. ASSUME NEW c \in Cells PROVE n[c] = IF now(c) THEN m[c] * bit(c) ELSE m[c]
    <3>1. n[c] = IF a =< c /\ c < a + k THEN m[c] * data[c - a + 1] ELSE m[c]
      BY <1>9, Zenon
    <3>2. a =< c /\ c < a + k <=> now(c)
      <4> HIDE DEF a
      <4> QED
        BY <1>3, <1>4, <1>7 DEF Cells
    <3>3. now(c) => c - a + 1 \in 1 .. k /\ c - a + 1 = c + XIP - curr + 1
      <4> HIDE DEF a
      <4> QED
        BY <1>3, <1>4, <1>7 DEF Cells
    <3>4. now(c) => data[c - a + 1] = bit(c)
      BY <1>6, <3>3, Zenon
    <3> HIDE DEF now, bit, a
    <3> QED
      BY <3>1, <3>2, <3>4, Zenon
  <2> QED
    BY <2>1, Zenon
<1>14. D = [c \in Cells |-> IF curr' =< c + XIP /\ c + XIP < curr' + Len(buffer')
                            THEN chip'.next[c] * buffer'[c + XIP - curr' + 1] ELSE chip'.next[c]]
  <2>1. chip'.busy = TRUE
    BY <1>2, <1>8 DEF ChipType
  <2> QED
    BY <1>1, <1>2, <2>1 DEF Done, Left, Asked, Content
<1>15. n \in [Cells -> Bytes]
  <2>1. ASSUME NEW c \in Cells PROVE n[c] \in Bytes
    <3>1. m[c] \in Bytes
      BY <1>2
    <3> HIDE DEF all, now, rest, bit, m
    <3> QED
      BY <1>11, <1>12, <1>13, <3>1, BitAndBit, Zenon
  <2> QED
    BY <1>9, <2>1
<1>16. chip' \in ChipType /\ chip'.busy = TRUE /\ chip'.next = n /\ chip'.mem = chip.mem
  BY <1>2, <1>8, <1>15 DEF ChipType
<1>17. \A c \in Cells : D[c] = IF rest(c) THEN n[c] * bit(c) ELSE n[c]
  <2>1. ASSUME NEW c \in Cells PROVE D[c] = IF rest(c) THEN n[c] * bit(c) ELSE n[c]
    <3>1. D[c] = IF curr + k =< c + XIP /\ c + XIP < curr + k + (l - k)
                 THEN n[c] * buffer'[c + XIP - (curr + k) + 1] ELSE n[c]
      BY <1>1, <1>6, <1>14, <1>16, Zenon
    <3>2. rest(c) => c + XIP - (curr + k) + 1 \in 1 .. l - k
                     /\ k + (c + XIP - (curr + k) + 1) = c + XIP - curr + 1
      BY <1>2, <1>3, <1>4 DEF Cells
    <3>3. rest(c) => buffer'[c + XIP - (curr + k) + 1] = bit(c)
      BY <1>6, <3>2, Zenon
    <3> QED
      BY <3>1, <3>3, Zenon
  <2> QED
    BY <2>1, Zenon
<1>18. \A c \in Cells : want[c] = IF all(c) THEN m[c] * bit(c) ELSE m[c]
  BY <1>5, Zenon
<1> HIDE DEF all, now, rest, bit, D, m
<1>19. \A c \in Cells : want[c] = D[c] /\ n[c] \in {m[c], want[c]}
  <2> SUFFICES ASSUME NEW c \in Cells
               PROVE  want[c] = D[c] /\ n[c] \in {m[c], want[c]}
    OBVIOUS
  <2>1. CASE now(c)
    BY <1>11, <1>13, <1>17, <1>18, <2>1, Zenon
  <2>2. CASE ~now(c) /\ rest(c)
    BY <1>11, <1>13, <1>17, <1>18, <2>2, Zenon
  <2>3. CASE ~now(c) /\ ~rest(c)
    BY <1>11, <1>13, <1>17, <1>18, <2>3, Zenon
  <2> QED
    BY <2>1, <2>2, <2>3, Zenon
<1>20. want' = Done(Content)'
  <2>1. want = D
    BY <1>5, <1>14, <1>19
  <2> QED
    BY <1>1, <2>1, Zenon DEF D
<1>21. Ready'
  <2>1. curr' + Len(buffer') =< XIP + 8 /\ XIP =< curr'
    <3>1. curr + k + (l - k) =< XIP + 8 /\ XIP =< curr + k
      BY <1>2, <1>3, <1>4
    <3> QED
      BY <1>1, <1>6, <3>1, Zenon
  <2> QED
    BY <1>1, <1>2, <2>1 DEF Ready, Left
<1>22. curr' \in Nat
  BY <1>1, <1>2, <1>4
<1>23. \A c \in Cells : chip'.next[c] \in {chip'.mem[c], want'[c]}
  BY <1>1, <1>16, <1>19 DEF m
<1>24. Exact'
  BY <1>1, <1>2, <1>6, <1>16, <1>20, <1>21, <1>22, <1>23 DEF Exact, Resting, Loading, Phases
<1>25. pc # "idle" /\ pc' # "idle"
  BY <1>1
<1> QED
  BY <1>1, <1>16, <1>24, <1>25, KeepsContent, Zenon

LEMMA AskStatusExact == ASSUME IInv, [Next]_vars, ~slow, ~slow', AskStatus PROVE Exact' /\ MStep
<1>1. PICK t \in Treatments(1) :
          /\ pc = "ask" /\ chip' = [chip EXCEPT !.asked = nuspi_tx(<<READ_STATUS>>, t) # <<>> /\ ~spi.hw]
          /\ slow' = (slow \/ TooSlow(t)) /\ spi' = [spi EXCEPT !.cs = "hold"]
          /\ pc' = "status"
          /\ UNCHANGED <<is_nuspi, op, curr, left, buffer, known, want>>
  BY DEF AskStatus
<1>2. Exact /\ Mapping /\ Ready /\ chip \in ChipType /\ spi \in SpiType /\ known /\ ~spi.hw /\ spi.rx = <<>>
  BY <1>1 DEF IInv, Mapping, Exact, Ready, Resting, Loading, Phases
<1>3. chip' = [chip EXCEPT !.asked = TRUE]
  <2>1. ~TooSlow(t)
    BY <1>1, Zenon
  <2>2. nuspi_tx(<<READ_STATUS>>, t) = <<READ_STATUS>>
    BY <2>1, InTime
  <2>3. (nuspi_tx(<<READ_STATUS>>, t) # <<>> /\ ~spi.hw) = TRUE
    BY <1>2, <2>2
  <2> QED
    BY <1>1, <2>3, Zenon
<1>4. /\ chip' \in ChipType /\ chip'.asked = TRUE /\ chip'.mem = chip.mem /\ chip'.busy = chip.busy
      /\ chip'.next = chip.next /\ chip'.wel = chip.wel
  BY <1>2, <1>3 DEF ChipType
<1>5. spi'.rx = spi.rx /\ spi'.hw = spi.hw
  BY <1>1, <1>2 DEF SpiType
<1>6. Content' = Content /\ Done(Content)' = Done(Content) /\ Ready' = Ready
  BY <1>1, <1>4, <1>5 DEF Content, Done, Left, Asked, Ready
<1>7. Exact'
  BY <1>1, <1>2, <1>4, <1>5, <1>6 DEF Exact, Resting, Loading, Phases
<1>8. pc # "idle" /\ pc' # "idle"
  BY <1>1
<1> QED
  BY <1>1, <1>4, <1>7, <1>8, KeepsContent, Zenon

\* When nothing is left, the content is what the command asks for.
LEMMA NothingLeft ==
    ASSUME Exact, pc = "status", ~More, ~chip.busy
    PROVE  want = chip.mem
<1>1. /\ Ready /\ want = Done(Content) /\ Content = chip.mem /\ left \in Nat /\ curr \in Nat
      /\ chip.mem \in [Cells -> Bytes]
  BY DEF Exact, Content, Resting, Loading, Phases, ChipType
<1>2. Left = 0
  <2>1. CASE op = "erase"
    BY <1>1, <2>1, Multiples DEF More, Left
  <2>2. CASE op = "write"
    BY <2>2 DEF More, Left
  <2> QED
    BY <1>1, <2>1, <2>2 DEF Ready
<1>3. XIP \in Nat
  BY MapAssumption
<1>4. \A c \in Cells : ~(curr =< c + XIP /\ c + XIP < curr + Left)
  BY <1>1, <1>2, <1>3 DEF Cells
<1>5. \A c \in Cells : Done(chip.mem)[c] = chip.mem[c]
  BY <1>4, Zenon DEF Done
<1>6. Done(chip.mem) = [c \in Cells |-> Done(chip.mem)[c]]
  BY DEF Done
<1> HIDE DEF Done
<1> QED
  BY <1>1, <1>5, <1>6

LEMMA ReadStatusExact == ASSUME IInv, [Next]_vars, ~slow, ~slow', ReadStatus PROVE Exact' /\ MStep
<1>1. PICK byte \in OnLine, t \in Treatments(0) : \E got \in nuspi_rx(status, byte, t) :
        /\ pc = "status" /\ slow' = (slow \/ got.slow)
        /\ IF got.value = 1
           THEN pc' = pc /\ chip' = chip /\ spi' = [spi EXCEPT !.rx = got.rx]
           ELSE /\ chip' = [chip EXCEPT !.asked = FALSE]
                /\ spi' = [spi EXCEPT !.rx = got.rx, !.cs = "auto", !.hw = ~More]
                /\ pc' = IF More THEN "enable" ELSE "idle"
        /\ Return(pc' = "idle")
        /\ UNCHANGED <<is_nuspi, buffer, known, want>>
  BY DEF ReadStatus
<1>2. PICK got \in nuspi_rx(status, byte, t) :
        /\ pc = "status" /\ slow' = (slow \/ got.slow)
        /\ IF got.value = 1
           THEN pc' = pc /\ chip' = chip /\ spi' = [spi EXCEPT !.rx = got.rx]
           ELSE /\ chip' = [chip EXCEPT !.asked = FALSE]
                /\ spi' = [spi EXCEPT !.rx = got.rx, !.cs = "auto", !.hw = ~More]
                /\ pc' = IF More THEN "enable" ELSE "idle"
        /\ Return(pc' = "idle")
        /\ UNCHANGED <<is_nuspi, buffer, known, want>>
  BY <1>1
<1>3. /\ Exact /\ Mapping /\ Ready /\ chip \in ChipType /\ spi \in SpiType /\ known /\ ~spi.hw /\ spi.rx = <<>>
      /\ chip.asked /\ want = Done(Content)
  BY <1>2 DEF IInv, Mapping, Exact, Ready, Resting, Loading, Phases
<1>4. got.value = byte /\ got.rx = <<>> /\ (byte = 1 => chip.busy) /\ (byte # 1 => ~chip.busy)
  <2>1. ~got.slow
    BY <1>2, Zenon
  <2>2. byte \in Bytes /\ (byte = 1 => chip.busy) /\ (byte # 1 => ~chip.busy)
    BY <1>3 DEF OnLine, Bytes
  <2> QED
    BY <1>3, <2>1, <2>2, RxExact
<1>5. CASE byte = 1
  <2>1. pc' = "status" /\ chip' = chip /\ spi' = [spi EXCEPT !.rx = <<>>] /\ UNCHANGED <<op, curr, left>>
    BY <1>2, <1>4, <1>5 DEF Return
  <2>2. spi'.rx = <<>> /\ spi'.hw = spi.hw
    BY <1>3, <2>1 DEF SpiType
  <2>3. Content' = Content /\ Done(Content)' = Done(Content) /\ Ready' = Ready
    BY <1>2, <2>1, <2>2 DEF Content, Done, Left, Asked, Ready
  <2>4. Exact'
    BY <1>2, <1>3, <2>1, <2>2, <2>3 DEF Exact, Resting, Loading, Phases
  <2> QED
    BY <1>2, <2>1, <2>4, KeepsContent
<1>6. CASE byte # 1
  <2>1. /\ chip' = [chip EXCEPT !.asked = FALSE]
        /\ spi' = [spi EXCEPT !.rx = <<>>, !.cs = "auto", !.hw = ~More]
        /\ pc' = IF More THEN "enable" ELSE "idle"
    BY <1>2, <1>4, <1>6
  <2>2. /\ chip' \in ChipType /\ chip'.mem = chip.mem /\ chip'.busy = chip.busy
        /\ chip'.next = chip.next /\ chip'.wel = chip.wel
    BY <1>3, <2>1 DEF ChipType
  <2>3. spi'.rx = <<>> /\ spi'.cs = "auto" /\ (More => ~spi'.hw) /\ (~More => spi'.hw)
    BY <1>3, <2>1 DEF SpiType
  <2>4. CASE More
    <3>1. pc' = "enable" /\ UNCHANGED <<op, curr, left>>
      BY <1>2, <2>1, <2>4 DEF Return
    <3>2. Content' = Content /\ Done(Content)' = Done(Content) /\ Ready' /\ More'
      BY <1>2, <1>3, <2>2, <2>3, <2>4, <3>1 DEF Content, Done, Left, Asked, Ready, More
    <3>3. Exact'
      BY <1>2, <1>3, <1>4, <1>6, <2>2, <2>3, <3>1, <3>2 DEF Exact, Resting, Loading, Phases
    <3> QED
      BY <1>2, <2>2, <3>1, <3>3, KeepsContent
  <2>5. CASE ~More
    <3>1. pc' = "idle" /\ curr' = 0 /\ left' = 0
      BY <1>2, <2>1, <2>5 DEF Return
    <3>2. want = chip.mem
      BY <1>2, <1>3, <1>4, <1>6, <2>5, NothingLeft
    <3>3. Exact'
      BY <1>2, <1>3, <1>4, <1>6, <2>2, <2>3, <3>1, <3>2 DEF Exact, Resting, Loading, Phases
    <3>4. spi'.hw /\ spi'.cs = "auto"
      BY <2>3, <2>5
    <3>5. Memory!Answer
      BY <1>2, <2>2, <3>1, <3>2, <3>4 DEF Memory!Answer
    <3> QED
      BY <3>3, <3>5 DEF MStep, Memory!Next
  <2> QED
    BY <2>4, <2>5
<1> QED
  BY <1>5, <1>6

LEMMA ChipDoneExact == ASSUME IInv, [Next]_vars, ~slow, ChipDone PROVE Exact' /\ MStep
<1>1. /\ Exact /\ chip.busy /\ chip' = Settled(chip)
      /\ UNCHANGED <<spi, is_nuspi, pc, op, curr, left, buffer, status, known, slow, want>>
  BY DEF IInv, ChipDone
<1>2. /\ chip \in ChipType /\ pc \notin Resting /\ pc \notin {"enable", "erase", "write"}
      /\ \A c \in Cells : chip.next[c] \in {chip.mem[c], want[c]}
  BY <1>1 DEF Exact
<1>3. /\ chip' \in ChipType /\ chip'.mem = chip.next /\ chip'.busy = FALSE /\ chip'.next = chip.next
      /\ chip'.asked = chip.asked
  BY <1>1, <1>2 DEF Settled, ChipType
<1>4. Content' = Content
  BY <1>1, <1>3 DEF Content
<1>5. Done(Content)' = Done(Content) /\ Ready' = Ready
  BY <1>1, <1>4 DEF Done, Left, Asked, Ready
<1>6. Exact'
  BY <1>1, <1>2, <1>3, <1>4, <1>5 DEF Exact
<1>7. Memory!Progress
  <2>1. DOMAIN chip.mem = Cells /\ DOMAIN chip'.mem = Cells
    BY <1>2, <1>3 DEF ChipType
  <2>2. pc # "idle" /\ pc' # "idle"
    BY <1>1, <1>2 DEF Resting
  <2>3. \A c \in Cells : chip'.mem[c] \in {chip.mem[c], want[c]}
    BY <1>2, <1>3
  <2> QED
    BY <1>1, <2>1, <2>2, <2>3, Zenon DEF Memory!Progress
<1> QED
  BY <1>6, <1>7 DEF MStep, Memory!Next

\* A chip that has been switched on.
LEMMA ChipIs ==
    ASSUME NEW mem \in [Cells -> Bytes]
    PROVE  Chip(mem) \in ChipType /\ Chip(mem).mem = mem /\ Chip(mem).busy = FALSE
BY DEF Chip, ChipType

LEMMA ReplaceExact == ASSUME IInv, [Next]_vars, Replace PROVE Exact' /\ MStep
<1>1. PICK mem \in Contents : chip' = Chip(mem) /\ want' = mem
  BY DEF Replace
<1>2. mem \in [Cells -> Bytes]
  BY DataAssumption
<1>3. chip' \in ChipType /\ chip'.mem = want' /\ chip'.busy = FALSE /\ want' \in [Cells -> Bytes]
  BY <1>1, <1>2, ChipIs
<1>4. pc = "idle" /\ pc' = "idle" /\ curr' = 0 /\ left' = 0 /\ buffer' = <<>> /\ known' = FALSE /\ slow' = FALSE
  BY DEF Replace
<1>5. Exact'
  <2>1. <<>> \in Seq(Bytes)
    OBVIOUS
  <2>2. buffer' \in Seq(Bytes) /\ pc' \notin Loading /\ ~known'
    BY <1>4, <2>1 DEF Loading, Resting
  <2> QED
    BY <1>3, <1>4, <2>2 DEF Exact, Loading, Resting
<1>6. spi'.hw /\ spi'.cs = "auto"
  BY <1>4, MappingKeeps DEF IInv, Mapping, Resting
<1>7. Memory!Replace
  BY <1>4, <1>6 DEF Memory!Replace
<1> QED
  BY <1>5, <1>7 DEF MStep, Memory!Next

\* The commands of the host: what is asked for is what is left to be done.
LEMMA FlashEraseExact ==
    ASSUME IInv, [Next]_vars, NEW a \in Cells, NEW n \in 0 .. 8,
           a % BLOCK = 0, n % BLOCK = 0, a + n =< 8, FlashErase(XIP + a, n)
    PROVE  Exact' /\ MStep
<1> DEFINE addr == XIP + a
<1>1. /\ pc = "idle" /\ known /\ ~slow
      /\ IF n < BLOCK
         THEN spi' = Mapped /\ UNCHANGED <<pc, op, curr, left>>
         ELSE /\ spi' = Unmapped /\ pc' = "enable"
              /\ op' = "erase" /\ curr' = addr /\ left' = n \div BLOCK
      /\ want' = [c \in Cells |-> IF c + XIP \in addr .. addr + n - 1 THEN 1 ELSE chip.mem[c]]
      /\ UNCHANGED <<chip, is_nuspi, buffer, status, known, slow>>
  BY DEF FlashErase
<1>2. /\ Exact /\ spi \in SpiType /\ chip \in ChipType /\ ~chip.busy /\ chip.mem \in [Cells -> Bytes]
      /\ buffer \in Seq(Bytes) /\ curr \in Nat /\ left \in Nat /\ spi.rx = <<>>
  BY <1>1 DEF IInv, Mapping, Exact, Resting, ChipType
<1>3. XIP \in Nat /\ a \in 0 .. 7 /\ addr \in Nat /\ XIP =< addr /\ addr < XIP + 8 /\ addr - XIP = a
  BY MapAssumption DEF Cells
<1>4. addr % BLOCK = 0
  <2>1. (addr - XIP) % BLOCK = addr % BLOCK
    <3> HIDE DEF addr
    <3> QED
      BY <1>3, Places, Zenon
  <2> QED
    BY <1>3, <2>1
<1>5. BLOCK \in Nat /\ BLOCK > 0 /\ n \div BLOCK \in Nat /\ (n \div BLOCK) * BLOCK = n /\ (n < BLOCK => n = 0)
  BY Multiples
<1>6. want' = [c \in Cells |-> IF addr =< c + XIP /\ c + XIP < addr + n THEN 1 ELSE chip.mem[c]]
  <2>1. \A c \in Cells : c + XIP \in addr .. addr + n - 1 <=> addr =< c + XIP /\ c + XIP < addr + n
    BY <1>3 DEF Cells
  <2> HIDE DEF addr
  <2> QED
    BY <1>1, <2>1
<1>7. want' \in [Cells -> Bytes]
  <2>1. 1 \in Bytes
    BY DEF Bytes
  <2> HIDE DEF addr
  <2> QED
    BY <1>2, <1>6, <2>1
<1>8. CASE n < BLOCK
  <2>1. spi' = Mapped /\ UNCHANGED <<pc, op, curr, left, chip>> /\ spi'.rx = spi.rx
    BY <1>1, <1>2, <1>8 DEF Mapped, SpiType
  <2>2. want' = chip.mem
    <3>1. \A c \in Cells : ~(addr =< c + XIP /\ c + XIP < addr + n)
      BY <1>3, <1>5, <1>8 DEF Cells
    <3> HIDE DEF addr
    <3> QED
      BY <1>2, <1>6, <3>1
  <2>3. Exact'
    BY <1>1, <1>2, <1>7, <2>1, <2>2 DEF Exact, Resting, Loading, Phases
  <2>4. spi'.hw /\ spi'.cs = "auto"
    BY <1>1, <2>1, MappingKeeps DEF IInv, Mapping, Resting
  <2>5. Memory!Nothing
    BY <1>1, <2>1, <2>4 DEF Memory!Nothing
  <2> QED
    BY <2>3, <2>5 DEF MStep, Memory!Next
<1>9. CASE ~(n < BLOCK)
  <2>1. /\ spi' = Unmapped /\ pc' = "enable" /\ op' = "erase" /\ curr' = addr /\ left' = n \div BLOCK
        /\ chip' = chip /\ spi'.rx = spi.rx /\ spi'.hw = FALSE
    BY <1>1, <1>2, <1>9 DEF Unmapped, SpiType
  <2>2. left' * BLOCK = n /\ left' \in Nat /\ curr' \in Nat
    BY <1>3, <1>5, <2>1
  <2>3. left' > 0
    <3>1. n > 0 /\ n \in Nat
      BY <1>5, <1>9
    <3>2. left' # 0
      <4>1. 0 * BLOCK = 0
        BY <1>5
      <4>2. left' = 0 => n = 0
        BY <2>2, <4>1, Zenon
      <4> QED
        BY <3>1, <4>2
    <3> QED
      BY <2>2, <3>2
  <2>4. Ready' /\ More'
    <3>1. curr' + left' * BLOCK =< XIP + 8 /\ XIP =< curr' /\ curr' % BLOCK = 0
      BY <1>3, <1>4, <2>1, <2>2
    <3> QED
      BY <1>1, <2>1, <2>3, <3>1 DEF Ready, Left, More
  <2>5. want' = Done(Content)'
    <3> HIDE DEF addr
    <3>1. Done(Content)' = [c \in Cells |-> IF addr =< c + XIP /\ c + XIP < addr + n THEN 1 ELSE chip.mem[c]]
      BY <1>2, <2>1, <2>2 DEF Done, Left, Asked, Content
    <3> QED
      BY <1>6, <3>1, Zenon
  <2>6. Exact'
    BY <1>1, <1>2, <1>7, <2>1, <2>2, <2>4, <2>5 DEF Exact, Resting, Loading, Phases
  <2>7. Memory!Ask
    BY <1>1, <2>1 DEF Memory!Ask
  <2> QED
    BY <2>6, <2>7 DEF MStep, Memory!Next
<1> QED
  BY <1>8, <1>9

LEMMA FlashWriteExact ==
    ASSUME IInv, [Next]_vars, NEW a \in Cells, NEW data \in Writes,
           a + Len(data) =< 8, FlashWrite(XIP + a, data)
    PROVE  Exact' /\ MStep
<1> DEFINE addr == XIP + a
           n == Len(data)
           bit(c) == data[c + XIP - addr + 1]
<1>1. /\ pc = "idle" /\ known /\ ~slow
      /\ buffer' = data
      /\ IF data = <<>>
         THEN spi' = Mapped /\ UNCHANGED <<pc, op, curr>>
         ELSE spi' = Unmapped /\ pc' = "enable" /\ op' = "write" /\ curr' = addr
      /\ want' = [c \in Cells |-> IF c + XIP \in addr .. addr + n - 1 THEN chip.mem[c] * bit(c) ELSE chip.mem[c]]
      /\ UNCHANGED <<chip, is_nuspi, left, status, known, slow>>
  BY DEF FlashWrite
<1>2. /\ Exact /\ spi \in SpiType /\ chip \in ChipType /\ ~chip.busy /\ chip.mem \in [Cells -> Bytes]
      /\ curr \in Nat /\ left \in Nat /\ spi.rx = <<>>
  BY <1>1 DEF IInv, Mapping, Exact, Resting, ChipType
<1>3. data \in Seq(Bytes) /\ n \in Nat /\ (data = <<>> => n = 0) /\ \A i \in 1 .. n : data[i] \in Bytes
  <2>1. data \in Seq(Bytes)
    BY DataAssumption
  <2> QED
    BY <2>1, ElementOfSeq
<1>4. XIP \in Nat /\ a \in 0 .. 7 /\ addr \in Nat /\ XIP =< addr /\ addr + n =< XIP + 8
  BY <1>3, MapAssumption DEF Cells
<1> HIDE DEF addr, n
<1>5. \A c \in Cells : c + XIP \in addr .. addr + n - 1 <=> addr =< c + XIP /\ c + XIP < addr + n
  BY <1>3, <1>4 DEF Cells
<1>6. want' = [c \in Cells |-> IF addr =< c + XIP /\ c + XIP < addr + n THEN chip.mem[c] * bit(c) ELSE chip.mem[c]]
  <2> HIDE DEF bit
  <2> QED
    BY <1>1, <1>5
<1>7. want' \in [Cells -> Bytes]
  <2>1. ASSUME NEW c \in Cells PROVE want'[c] \in Bytes
    <3>1. addr =< c + XIP /\ c + XIP < addr + n => c + XIP - addr + 1 \in 1 .. n
      BY <1>3, <1>4 DEF Cells
    <3>2. addr =< c + XIP /\ c + XIP < addr + n => bit(c) \in Bytes
      BY <1>3, <3>1, Zenon
    <3>3. chip.mem[c] \in Bytes
      BY <1>2
    <3> HIDE DEF bit
    <3> QED
      BY <1>6, <3>2, <3>3, BitAndBit, Zenon
  <2> HIDE DEF bit
  <2> QED
    BY <1>6, <2>1
<1>8. CASE data = <<>>
  <2>1. spi' = Mapped /\ UNCHANGED <<pc, op, curr, left, chip>> /\ spi'.rx = spi.rx
    BY <1>1, <1>2, <1>8 DEF Mapped, SpiType
  <2>2. want' = chip.mem
    <3>1. \A c \in Cells : ~(addr =< c + XIP /\ c + XIP < addr + n)
      BY <1>3, <1>4, <1>8 DEF Cells
    <3> HIDE DEF bit
    <3> QED
      BY <1>2, <1>6, <3>1
  <2>3. Exact'
    BY <1>1, <1>2, <1>3, <1>7, <2>1, <2>2 DEF Exact, Resting, Loading, Phases
  <2>4. spi'.hw /\ spi'.cs = "auto"
    BY <1>1, <2>1, MappingKeeps DEF IInv, Mapping, Resting
  <2>5. Memory!Nothing
    BY <1>1, <2>1, <2>4 DEF Memory!Nothing
  <2> QED
    BY <2>3, <2>5 DEF MStep, Memory!Next
<1>9. CASE data # <<>>
  <2>1. /\ spi' = Unmapped /\ pc' = "enable" /\ op' = "write" /\ curr' = addr
        /\ chip' = chip /\ spi'.rx = spi.rx /\ spi'.hw = FALSE /\ buffer' = data /\ left' = left
    BY <1>1, <1>2, <1>9 DEF Unmapped, SpiType
  <2>2. Ready' /\ More'
    BY <1>1, <1>4, <1>9, <2>1 DEF Ready, Left, More, n
  <2>3. want' = Done(Content)'
    <3>1. Done(Content)' = [c \in Cells |-> IF addr =< c + XIP /\ c + XIP < addr + n
                                            THEN chip.mem[c] * bit(c) ELSE chip.mem[c]]
      BY <1>2, <2>1 DEF Done, Left, Asked, Content, n
    <3> HIDE DEF bit
    <3> QED
      BY <1>6, <3>1, Zenon
  <2>4. Exact'
    BY <1>1, <1>2, <1>3, <1>4, <1>7, <2>1, <2>2, <2>3 DEF Exact, Resting, Loading, Phases
  <2>5. Memory!Ask
    BY <1>1, <2>1 DEF Memory!Ask
  <2> QED
    BY <2>4, <2>5 DEF MStep, Memory!Next
<1> QED
  BY <1>8, <1>9

-----------------------------------------------------------------------------
LEMMA StepMaps == ASSUME IInv, [Next]_vars PROVE IInv' /\ MStep
<1>1. Mapping'
  BY MappingKeeps DEF IInv
<1>2. CASE slow'
  BY <1>1, <1>2, SlowMaps DEF IInv
<1>3. CASE ~slow' /\ slow /\ ~Replace
  <2>1. slow' = slow
    <3>1. CASE UNCHANGED vars
      BY <3>1 DEF vars
    <3>2. CASE Host
      BY <1>3, <3>2 DEF Host, FlashInit, FlashErase, FlashWrite
    <3>3. CASE ChipDone
      BY <3>3 DEF ChipDone
    <3>4. CASE ClearRxFifo
      BY <3>4 DEF ClearRxFifo
    <3>5. CASE Identify \/ WriteEnable
      BY <1>3, <3>5, Zenon DEF Identify, WriteEnable
    <3>6. CASE EraseBlock \/ ProgramPage
      BY <1>3, <3>6, Zenon DEF EraseBlock, ProgramPage
    <3>7. CASE AskStatus \/ ReadStatus
      BY <1>3, <3>7, Zenon DEF AskStatus, ReadStatus
    <3> QED
      BY <1>3, <3>1, <3>2, <3>3, <3>4, <3>5, <3>6, <3>7 DEF Next, Server
  <2> QED
    BY <1>3, <2>1
<1>4. CASE ~slow' /\ (~slow \/ Replace)
  <2>1. CASE Replace
    BY <1>1, <2>1, ReplaceExact DEF IInv
  <2>2. CASE ~Replace /\ Server
    BY <1>1, <1>4, <2>2, ClearRxFifoExact, IdentifyExact, WriteEnableExact, EraseBlockExact,
       ProgramPageExact, AskStatusExact, ReadStatusExact DEF Server, IInv
  <2>3. CASE ~Replace /\ ChipDone
    BY <1>1, <1>4, <2>3, ChipDoneExact DEF IInv
  <2>4. CASE ~Replace /\ Host
    <3>1. CASE FlashInit
      BY <1>1, <1>4, <2>4, <3>1, FlashInitExact DEF IInv
    <3>2. ASSUME NEW a \in Cells, NEW n \in 0 .. 8, a % BLOCK = 0, n % BLOCK = 0, a + n =< 8,
                 FlashErase(XIP + a, n)
          PROVE  Exact' /\ MStep
      BY <3>2, FlashEraseExact
    <3>3. ASSUME NEW a \in Cells, NEW data \in Writes, a + Len(data) =< 8, FlashWrite(XIP + a, data)
          PROVE  Exact' /\ MStep
      BY <3>3, FlashWriteExact
    <3> QED
      BY <1>1, <2>4, <3>1, <3>2, <3>3 DEF Host, IInv
  <2>5. CASE UNCHANGED vars
    <3>1. Exact'
      BY <1>4, <2>1, <2>5 DEF IInv, Exact, vars, Ready, Done, Content, Left, Asked, More
    <3>2. UNCHANGED Memory!vars
      BY <2>5 DEF Memory!vars, vars
    <3> QED
      BY <1>1, <3>1, <3>2 DEF MStep, IInv
  <2> QED
    BY <2>1, <2>2, <2>3, <2>4, <2>5 DEF Next
<1> QED
  BY <1>2, <1>3, <1>4

LEMMA InitMaps == ASSUME Init PROVE IInv /\ Memory!Init
<1>1. PICK mem \in Contents : chip = Chip(mem) /\ want = mem
  BY DEF Init
<1>2. PICK v \in Versions, junk \in {<<>>, << 0 >>} : spi = [Reset(v) EXCEPT !.rx = junk]
  BY DEF Init
<1>3. spi \in SpiType /\ spi.cs = "auto" /\ spi.hw
  BY <1>2, ResetType
<1>4. chip \in ChipType /\ chip.mem = want /\ chip.busy = FALSE /\ want \in [Cells -> Bytes]
  <2>1. mem \in [Cells -> Bytes]
    BY DataAssumption
  <2> QED
    BY <1>1, <2>1, ChipIs
<1>5. pc = "idle" /\ curr = 0 /\ left = 0 /\ buffer = <<>> /\ status = 0 /\ known = FALSE /\ slow = FALSE
  BY DEF Init
<1>6. Mapping
  <2>1. pc \in Phases /\ slow \in BOOLEAN /\ status \in Bytes /\ pc \notin Loading
    <3>1. slow \in BOOLEAN
      BY <1>5, Zenon
    <3>2. pc \in Phases /\ status \in Bytes /\ pc \notin Loading
      BY <1>5 DEF Phases, Loading, Resting, Bytes
    <3> QED
      BY <3>1, <3>2
  <2> QED
    BY <1>3, <2>1 DEF Mapping
<1>7. Exact
  <2>1. <<>> \in Seq(Bytes)
    OBVIOUS
  <2> QED
    BY <1>4, <1>5, <2>1 DEF Exact, Loading, Resting, Phases
<1>8. Memory!Init
  BY <1>3, <1>4, <1>5 DEF Memory!Init
<1> QED
  BY <1>6, <1>7, <1>8 DEF IInv

\* flash.c does what its commands promise: on the way every cell of the flash
\* holds what it held or what the command asks for, whatever the pages and
\* blocks the range begins and ends in, and at the end all of it is done and
\* the flash mapped again, unless the controller was too slow, after which the
\* mapping alone is promised.
THEOREM LoaderKeepsItsPromise == Spec => DoesAsAsked
<1>1. Init => IInv /\ Memory!Init
  BY InitMaps
<1>2. IInv /\ [Next]_vars => IInv' /\ [Memory!Next]_(Memory!vars)
  BY StepMaps DEF MStep
<1> QED
  BY <1>1, <1>2, PTL DEF Spec, DoesAsAsked, Memory!Spec
=============================================================================
