------------------------ MODULE WatchpointInstProofs ------------------------
(***************************************************************************)
(* rv_parse_watchpoint_inst gives every load and store of RV32 its base    *)
(* register and its offset.                                                *)
(***************************************************************************)
EXTENDS WatchpointInst, WellFoundedInduction, TLAPS

-----------------------------------------------------------------------------
(* Bits of a number, and fields of them.                                    *)

\* A number without its bits from k on, and what bit k is worth.
Low(n, k)   == n % (2 ^ k)
Worth(n, k) == Bit(n, k) * 2 ^ k

\* A bit more of a number.
LEMMA OneMore ==
    ASSUME NEW n \in Int, NEW k \in 0 .. 11
    PROVE  /\ Bit(n, k) \in {0, 1} /\ Worth(n, k) \in Int
           /\ Low(n, k) \in Int /\ Low(n, k + 1) \in Int
           /\ Low(n, k + 1) = Low(n, k) + Worth(n, k)
<1>1. k = 0 \/ k = 1 \/ k = 2 \/ k = 3 \/ k = 4 \/ k = 5 \/ k = 6 \/ k = 7 \/ k = 8 \/ k = 9
      \/ k = 10 \/ k = 11
  OBVIOUS
<1>2. CASE k = 0
  BY <1>2 DEF Bit, Low, Worth
<1>3. CASE k = 1
  BY <1>3 DEF Bit, Low, Worth
<1>4. CASE k = 2
  BY <1>4 DEF Bit, Low, Worth
<1>5. CASE k = 3
  BY <1>5 DEF Bit, Low, Worth
<1>6. CASE k = 4
  BY <1>6 DEF Bit, Low, Worth
<1>7. CASE k = 5
  BY <1>7 DEF Bit, Low, Worth
<1>8. CASE k = 6
  BY <1>8 DEF Bit, Low, Worth
<1>9. CASE k = 7
  BY <1>9 DEF Bit, Low, Worth
<1>10. CASE k = 8
  BY <1>10 DEF Bit, Low, Worth
<1>11. CASE k = 9
  BY <1>11 DEF Bit, Low, Worth
<1>12. CASE k = 10
  BY <1>12 DEF Bit, Low, Worth
<1>13. CASE k = 11
  BY <1>13 DEF Bit, Low, Worth
<1> QED
  BY <1>1, <1>2, <1>3, <1>4, <1>5, <1>6, <1>7, <1>8, <1>9, <1>10, <1>11, <1>12, <1>13

\* What holds of lo, and of every i up to hi if of the one before, holds of all.
LEMMA UpTo ==
    ASSUME NEW lo \in Nat, NEW hi \in Nat, NEW P, lo \in P,
           \A i \in lo + 1 .. hi : i - 1 \in P => i \in P
    PROVE  \A i \in lo .. hi : i \in P
<1> DEFINE Bad == {m \in lo .. hi : m \notin P}
<1>1. SUFFICES ASSUME Bad # {} PROVE FALSE
  OBVIOUS
<1>2. PICK m \in Bad : \A k \in Bad : ~(k < m)
  <2>1. Bad \subseteq Nat
    OBVIOUS
  <2>2. \E m \in Bad : \A k \in Nat : <<k, m>> \in OpToRel(<, Nat) => k \notin Bad
    BY <1>1, <2>1, NatLessThanWellFounded, WFMin, Zenon
  <2> QED
    BY <2>1, <2>2 DEF OpToRel
<1>3. m # lo
  BY <1>2
<1>4. m \in lo + 1 .. hi /\ m - 1 \in lo .. hi /\ m - 1 \notin Bad
  BY <1>2, <1>3
<1> QED
  BY <1>2, <1>4

\* Bits lo to hi of the instruction hold those of n from bit at up.
Carries(n, hi, lo, at) == \A i \in lo .. hi : inst[i] = Bit(n, i - lo + at)

\* A field is what its bits are worth where they belong.
LEMMA FieldIs ==
    ASSUME NEW n \in Int, NEW lo \in Nat, NEW hi \in Nat, NEW at \in Nat,
           lo =< hi, hi - lo + at =< 11, Carries(n, hi, lo, at)
    PROVE  Field(hi, lo, at) = Low(n, hi - lo + at + 1) - Low(n, at)
<1> DEFINE Part(i) == Low(n, i - lo + at + 1) - Low(n, at)
           At(g, i) == inst[i] * 2 ^ (i - lo + at) + (IF i = lo THEN 0 ELSE g[i - 1])
           Is(g) == g = [i \in lo .. hi |-> At(g, i)]
           parts == [i \in lo .. hi |-> Part(i)]
           sum == CHOOSE g : Is(g)
<1>1. ASSUME NEW i \in lo .. hi
      PROVE  /\ inst[i] * 2 ^ (i - lo + at) = Worth(n, i - lo + at) /\ Worth(n, i - lo + at) \in Int
             /\ Part(i) \in Int /\ Low(n, at) \in Int
             /\ Part(i) = Worth(n, i - lo + at) + (IF i = lo THEN 0 ELSE Part(i - 1))
  <2>1. i - lo + at \in 0 .. 11 /\ at \in 0 .. 11
    OBVIOUS
  <2>2. inst[i] = Bit(n, i - lo + at)
    BY DEF Carries
  <2>3. /\ Worth(n, i - lo + at) \in Int
        /\ Low(n, i - lo + at) \in Int /\ Low(n, i - lo + at + 1) \in Int
        /\ Low(n, i - lo + at + 1) = Low(n, i - lo + at) + Worth(n, i - lo + at)
    BY <2>1, OneMore
  <2>4. Low(n, at) \in Int
    BY <2>1, OneMore
  <2>5. (i - 1) - lo + at + 1 = i - lo + at
    OBVIOUS
  <2>6. i = lo => Low(n, i - lo + at) = Low(n, at)
    OBVIOUS
  <2> QED
    BY <2>2, <2>3, <2>4, <2>5, <2>6 DEF Worth
<1> HIDE DEF Part
<1>2. Is(parts)
  <2>1. ASSUME NEW i \in lo .. hi PROVE Part(i) = At(parts, i)
    <3>1. i # lo => parts[i - 1] = Part(i - 1)
      OBVIOUS
    <3> QED
      BY <1>1, <3>1
  <2> QED
    BY <2>1
<1>3. Is(sum)
  BY <1>2, Zenon
<1> HIDE DEF sum
<1>4. \A i \in lo .. hi : sum[i] = Part(i)
  <2> DEFINE P == {i \in lo .. hi : sum[i] = Part(i)}
  <2>1. \A i \in lo .. hi : sum[i] = At(sum, i)
    BY <1>3
  <2>2. lo \in P
    BY <1>1, <2>1
  <2>3. ASSUME NEW i \in lo + 1 .. hi, i - 1 \in P PROVE i \in P
    BY <1>1, <2>1, <2>3
  <2>4. \A i \in lo .. hi : i \in P
    <3> HIDE DEF P
    <3> QED
      BY <2>2, <2>3, UpTo
  <2> QED
    BY <2>4
<1>5. Field(hi, lo, at) = sum[hi]
  BY DEF Field, sum
<1> QED
  BY <1>4, <1>5 DEF Part

\* The numbers the code's fields are cut at.
Cuts(n) ==
    /\ Low(n, 0) = 0 /\ Low(n, 2) = n % 4 /\ Low(n, 3) = n % 8 /\ Low(n, 5) = n % 32
    /\ Low(n, 6) = n % 64 /\ Low(n, 7) = n % 128 /\ Low(n, 8) = n % 256
    /\ Low(n, 9) = n % 512 /\ Low(n, 12) = n % 4096

LEMMA CutsHold == ASSUME NEW n \in Int PROVE Cuts(n)
<1>1. Low(n, 0) = 0 /\ Low(n, 2) = n % 4 /\ Low(n, 3) = n % 8
  BY DEF Low
<1>2. Low(n, 5) = n % 32 /\ Low(n, 6) = n % 64 /\ Low(n, 7) = n % 128
  BY DEF Low
<1>3. Low(n, 8) = n % 256 /\ Low(n, 9) = n % 512 /\ Low(n, 12) = n % 4096
  BY DEF Low
<1> QED
  BY <1>1, <1>2, <1>3 DEF Cuts

-----------------------------------------------------------------------------
(* Where an instruction has its operation, its base and its offset.         *)

Formats == {"I", "S", "CL4", "CL8", "CI4", "CI8", "CSS4", "CSS8", "none"}

\* The pieces of a format: where they are.
LEMMA Pieces ==
    /\ Layout["I"]    = {Piece(31, 20, 0)}
    /\ Layout["S"]    = {Piece(31, 25, 5), Piece(11, 7, 0)}
    /\ Layout["CL4"]  = {Piece(12, 10, 3), Piece(6, 6, 2), Piece(5, 5, 6)}
    /\ Layout["CL8"]  = {Piece(12, 10, 3), Piece(6, 5, 6)}
    /\ Layout["CI4"]  = {Piece(12, 12, 5), Piece(6, 4, 2), Piece(3, 2, 6)}
    /\ Layout["CI8"]  = {Piece(12, 12, 5), Piece(6, 5, 3), Piece(4, 2, 6)}
    /\ Layout["CSS4"] = {Piece(12, 9, 2), Piece(8, 7, 6)}
    /\ Layout["CSS8"] = {Piece(12, 10, 3), Piece(9, 7, 6)}
    /\ Layout["none"] = {}
BY DEF Layout

\* Two pieces of a format share no bit.
Apart(f) == \A p, q \in Layout[f] : \A i \in p.lo .. p.hi : i \in q.lo .. q.hi => p = q

LEMMA PiecesApart == \A f \in Formats : Apart(f)
<1>1. Apart("I") /\ Apart("S")
  BY Pieces DEF Apart, Piece
<1>2. Apart("CL4")
  BY Pieces DEF Apart, Piece
<1>3. Apart("CL8")
  BY Pieces DEF Apart, Piece
<1>4. Apart("CI4")
  BY Pieces DEF Apart, Piece
<1>5. Apart("CI8")
  BY Pieces DEF Apart, Piece
<1>6. Apart("CSS4") /\ Apart("CSS8")
  BY Pieces DEF Apart, Piece
<1>7. Apart("none")
  BY Pieces DEF Apart
<1> QED
  BY <1>1, <1>2, <1>3, <1>4, <1>5, <1>6, <1>7 DEF Formats

\* An instruction has offset o where the format wants it.
Borne(o, f) == \A p \in Layout[f] : Carries(o, p.hi, p.lo, p.at)

LEMMA OffsetBits ==
    ASSUME NEW a, NEW fill, inst = Encoded(a, fill), a.op.format \in Formats
    PROVE  Borne(a.offset, a.op.format)
<1> DEFINE f == a.op.format
           pieces(i) == {q \in Layout[f] : i \in q.lo .. q.hi}
<1>1. SUFFICES ASSUME NEW p \in Layout[f], NEW i \in p.lo .. p.hi
               PROVE  inst[i] = Bit(a.offset, i - p.lo + p.at)
  BY DEF Carries, Borne
<1>2. p \in pieces(i)
  OBVIOUS
<1>3. \A q \in pieces(i) : q = p
  BY PiecesApart DEF Apart
<1>4. (CHOOSE q \in pieces(i) : TRUE) = p
  BY <1>2, <1>3
<1>5. p.lo \in Nat /\ p.hi \in 0 .. 31
  BY Pieces DEF Piece, Formats
<1>6. i \in Bits
  BY <1>5 DEF Bits
<1>7. pieces(i) # {}
  BY <1>2
<1>8. Encoded(a, fill)[i] = Bit(a.offset, i - p.lo + p.at)
  BY <1>4, <1>6, <1>7 DEF Encoded
<1> QED
  BY <1>8

\* The bits beside the pieces.
LEMMA OtherBits ==
    ASSUME NEW a, NEW fill, inst = Encoded(a, fill), NEW i \in Bits,
           \A q \in Layout[a.op.format] : i \notin q.lo .. q.hi
    PROVE  /\ a.op.code % 4 = 3 /\ i \in 0 .. 6 => inst[i] = Bit(a.op.code, i)
           /\ a.op.code % 4 = 3 /\ i \in 15 .. 19 /\ a.op.format # "none" =>
                 inst[i] = Bit(a.base, i - 15)
           /\ a.op.code % 4 # 3 /\ i \in 0 .. 1 => inst[i] = Bit(a.op.code, i)
           /\ a.op.code % 4 # 3 /\ i \in 13 .. 15 => inst[i] = Bit(a.op.code, i - 11)
           /\ a.op.code % 4 # 3 /\ i \in 7 .. 9 /\ a.op.format \in {"CL4", "CL8"} =>
                 inst[i] = Bit(a.base - 8, i - 7)
<1>1. {q \in Layout[a.op.format] : i \in q.lo .. q.hi} = {}
  OBVIOUS
<1>2. a.op.code % 4 = 3 /\ i \in 0 .. 6 => inst[i] = Bit(a.op.code, i)
  BY <1>1 DEF Encoded
<1>3. a.op.code % 4 = 3 /\ i \in 15 .. 19 /\ a.op.format # "none" => inst[i] = Bit(a.base, i - 15)
  BY <1>1 DEF Encoded
<1>4. a.op.code % 4 # 3 /\ i \in 0 .. 1 => inst[i] = Bit(a.op.code, i)
  BY <1>1 DEF Encoded
<1>5. a.op.code % 4 # 3 /\ i \in 13 .. 15 => inst[i] = Bit(a.op.code, i - 11)
  BY <1>1 DEF Encoded
<1>6. a.op.code % 4 # 3 /\ i \in 7 .. 9 /\ a.op.format \in {"CL4", "CL8"} =>
         inst[i] = Bit(a.base - 8, i - 7)
  BY <1>1 DEF Encoded
<1> QED
  BY <1>2, <1>3, <1>4, <1>5, <1>6

\* The operation and the base of an instruction of 32 bits.
LEMMA FullBits ==
    ASSUME NEW a, NEW fill, inst = Encoded(a, fill),
           a.op.code % 4 = 3, a.op.format \in {"I", "S", "none"}
    PROVE  /\ Carries(a.op.code, 1, 0, 0) /\ Carries(a.op.code, 6, 0, 0)
           /\ a.op.format # "none" => Carries(a.base, 19, 15, 0)
<1>1. \A i \in (0 .. 6) \union (15 .. 19) : \A q \in Layout[a.op.format] : i \notin q.lo .. q.hi
  BY Pieces DEF Piece
<1>2. (0 .. 6) \union (15 .. 19) \subseteq Bits
  BY DEF Bits
<1>3. \A i \in 0 .. 6 : inst[i] = Bit(a.op.code, i)
  BY <1>1, <1>2, OtherBits
<1>4. a.op.format # "none" => \A i \in 15 .. 19 : inst[i] = Bit(a.base, i - 15)
  BY <1>1, <1>2, OtherBits
<1> QED
  BY <1>3, <1>4 DEF Carries

\* And of a compressed one.
LEMMA CompressedBits ==
    ASSUME NEW a, NEW fill, inst = Encoded(a, fill),
           a.op.code % 4 # 3,
           a.op.format \in {"CL4", "CL8", "CI4", "CI8", "CSS4", "CSS8", "none"}
    PROVE  /\ Carries(a.op.code, 1, 0, 0) /\ Carries(a.op.code, 15, 13, 2)
           /\ a.op.format \in {"CL4", "CL8"} => Carries(a.base - 8, 9, 7, 0)
<1>1. \A i \in (0 .. 1) \union (13 .. 15) : \A q \in Layout[a.op.format] : i \notin q.lo .. q.hi
  BY Pieces DEF Piece
<1>2. a.op.format \in {"CL4", "CL8"} =>
         \A i \in 7 .. 9 : \A q \in Layout[a.op.format] : i \notin q.lo .. q.hi
  BY Pieces DEF Piece
<1>3. (0 .. 1) \union (13 .. 15) \union (7 .. 9) \subseteq Bits
  BY DEF Bits
<1>4. \A i \in 0 .. 1 : inst[i] = Bit(a.op.code, i)
  BY <1>1, <1>3, OtherBits
<1>5. \A i \in 13 .. 15 : inst[i] = Bit(a.op.code, i - 13 + 2)
  <2>1. \A i \in 13 .. 15 : i - 13 + 2 = i - 11
    OBVIOUS
  <2> QED
    BY <1>1, <1>3, <2>1, OtherBits
<1>6. a.op.format \in {"CL4", "CL8"} => \A i \in 7 .. 9 : inst[i] = Bit(a.base - 8, i - 7)
  BY <1>2, <1>3, OtherBits
<1> QED
  BY <1>4, <1>5, <1>6 DEF Carries

-----------------------------------------------------------------------------
(* The decoder, a format at a time.                                         *)

\* The fields the code looks at.
FieldsOf(n) ==
    /\ Carries(n, 1, 0, 0) => Field(1, 0, 0) = (n % 4)
    /\ Carries(n, 6, 0, 0) => Field(6, 0, 0) = (n % 128)
    /\ Carries(n, 19, 15, 0) => Field(19, 15, 0) = (n % 32)
    /\ Carries(n, 15, 13, 2) => Field(15, 13, 2) = (n % 32) - (n % 4)
    /\ Carries(n, 9, 7, 0) => Field(9, 7, 0) = (n % 8)
    /\ Carries(n, 31, 20, 0) => Field(31, 20, 0) = (n % 4096)
    /\ Carries(n, 31, 25, 5) => Field(31, 25, 5) = (n % 4096) - (n % 32)
    /\ Carries(n, 11, 7, 0) => Field(11, 7, 0) = (n % 32)
    /\ Carries(n, 12, 10, 3) => Field(12, 10, 3) = (n % 64) - (n % 8)
    /\ Carries(n, 6, 6, 2) => Field(6, 6, 2) = (n % 8) - (n % 4)
    /\ Carries(n, 5, 5, 6) => Field(5, 5, 6) = (n % 128) - (n % 64)
    /\ Carries(n, 6, 5, 6) => Field(6, 5, 6) = (n % 256) - (n % 64)
    /\ Carries(n, 12, 12, 5) => Field(12, 12, 5) = (n % 64) - (n % 32)
    /\ Carries(n, 6, 4, 2) => Field(6, 4, 2) = (n % 32) - (n % 4)
    /\ Carries(n, 3, 2, 6) => Field(3, 2, 6) = (n % 256) - (n % 64)
    /\ Carries(n, 6, 5, 3) => Field(6, 5, 3) = (n % 32) - (n % 8)
    /\ Carries(n, 4, 2, 6) => Field(4, 2, 6) = (n % 512) - (n % 64)
    /\ Carries(n, 12, 9, 2) => Field(12, 9, 2) = (n % 64) - (n % 4)
    /\ Carries(n, 8, 7, 6) => Field(8, 7, 6) = (n % 256) - (n % 64)
    /\ Carries(n, 9, 7, 6) => Field(9, 7, 6) = (n % 512) - (n % 64)

LEMMA Fields == ASSUME NEW n \in Int PROVE FieldsOf(n)
<1> DEFINE Is(hi, lo, at, top) == Field(hi, lo, at) = Low(n, top) - Low(n, at)
<1>1. Cuts(n)
  BY CutsHold
<1>2. ASSUME NEW hi \in Nat, NEW lo \in Nat, NEW at \in Nat, NEW top \in Nat,
             lo =< hi, hi - lo + at =< 11, top = hi - lo + at + 1, Carries(n, hi, lo, at)
      PROVE  Is(hi, lo, at, top)
  BY <1>2, FieldIs
<1> HIDE DEF Is
<1>3. ASSUME Carries(n, 1, 0, 0) PROVE Field(1, 0, 0) = n % 4
  <2>1. Is(1, 0, 0, 2)
    BY <1>2, <1>3
  <2> QED
    BY <1>1, <2>1 DEF Is, Cuts
<1>4. ASSUME Carries(n, 6, 0, 0) PROVE Field(6, 0, 0) = n % 128
  <2>1. Is(6, 0, 0, 7)
    BY <1>2, <1>4
  <2> QED
    BY <1>1, <2>1 DEF Is, Cuts
<1>5. ASSUME Carries(n, 19, 15, 0) PROVE Field(19, 15, 0) = n % 32
  <2>1. Is(19, 15, 0, 5)
    BY <1>2, <1>5
  <2> QED
    BY <1>1, <2>1 DEF Is, Cuts
<1>6. ASSUME Carries(n, 15, 13, 2) PROVE Field(15, 13, 2) = (n % 32) - (n % 4)
  <2>1. Is(15, 13, 2, 5)
    BY <1>2, <1>6
  <2> QED
    BY <1>1, <2>1 DEF Is, Cuts
<1>7. ASSUME Carries(n, 9, 7, 0) PROVE Field(9, 7, 0) = n % 8
  <2>1. Is(9, 7, 0, 3)
    BY <1>2, <1>7
  <2> QED
    BY <1>1, <2>1 DEF Is, Cuts
<1>8. ASSUME Carries(n, 31, 20, 0) PROVE Field(31, 20, 0) = n % 4096
  <2>1. Is(31, 20, 0, 12)
    BY <1>2, <1>8
  <2> QED
    BY <1>1, <2>1 DEF Is, Cuts
<1>9. ASSUME Carries(n, 31, 25, 5) PROVE Field(31, 25, 5) = (n % 4096) - (n % 32)
  <2>1. Is(31, 25, 5, 12)
    BY <1>2, <1>9
  <2> QED
    BY <1>1, <2>1 DEF Is, Cuts
<1>10. ASSUME Carries(n, 11, 7, 0) PROVE Field(11, 7, 0) = n % 32
  <2>1. Is(11, 7, 0, 5)
    BY <1>2, <1>10
  <2> QED
    BY <1>1, <2>1 DEF Is, Cuts
<1>11. ASSUME Carries(n, 12, 10, 3) PROVE Field(12, 10, 3) = (n % 64) - (n % 8)
  <2>1. Is(12, 10, 3, 6)
    BY <1>2, <1>11
  <2> QED
    BY <1>1, <2>1 DEF Is, Cuts
<1>12. ASSUME Carries(n, 6, 6, 2) PROVE Field(6, 6, 2) = (n % 8) - (n % 4)
  <2>1. Is(6, 6, 2, 3)
    BY <1>2, <1>12
  <2> QED
    BY <1>1, <2>1 DEF Is, Cuts
<1>13. ASSUME Carries(n, 5, 5, 6) PROVE Field(5, 5, 6) = (n % 128) - (n % 64)
  <2>1. Is(5, 5, 6, 7)
    BY <1>2, <1>13
  <2> QED
    BY <1>1, <2>1 DEF Is, Cuts
<1>14. ASSUME Carries(n, 6, 5, 6) PROVE Field(6, 5, 6) = (n % 256) - (n % 64)
  <2>1. Is(6, 5, 6, 8)
    BY <1>2, <1>14
  <2> QED
    BY <1>1, <2>1 DEF Is, Cuts
<1>15. ASSUME Carries(n, 12, 12, 5) PROVE Field(12, 12, 5) = (n % 64) - (n % 32)
  <2>1. Is(12, 12, 5, 6)
    BY <1>2, <1>15
  <2> QED
    BY <1>1, <2>1 DEF Is, Cuts
<1>16. ASSUME Carries(n, 6, 4, 2) PROVE Field(6, 4, 2) = (n % 32) - (n % 4)
  <2>1. Is(6, 4, 2, 5)
    BY <1>2, <1>16
  <2> QED
    BY <1>1, <2>1 DEF Is, Cuts
<1>17. ASSUME Carries(n, 3, 2, 6) PROVE Field(3, 2, 6) = (n % 256) - (n % 64)
  <2>1. Is(3, 2, 6, 8)
    BY <1>2, <1>17
  <2> QED
    BY <1>1, <2>1 DEF Is, Cuts
<1>18. ASSUME Carries(n, 6, 5, 3) PROVE Field(6, 5, 3) = (n % 32) - (n % 8)
  <2>1. Is(6, 5, 3, 5)
    BY <1>2, <1>18
  <2> QED
    BY <1>1, <2>1 DEF Is, Cuts
<1>19. ASSUME Carries(n, 4, 2, 6) PROVE Field(4, 2, 6) = (n % 512) - (n % 64)
  <2>1. Is(4, 2, 6, 9)
    BY <1>2, <1>19
  <2> QED
    BY <1>1, <2>1 DEF Is, Cuts
<1>20. ASSUME Carries(n, 12, 9, 2) PROVE Field(12, 9, 2) = (n % 64) - (n % 4)
  <2>1. Is(12, 9, 2, 6)
    BY <1>2, <1>20
  <2> QED
    BY <1>1, <2>1 DEF Is, Cuts
<1>21. ASSUME Carries(n, 8, 7, 6) PROVE Field(8, 7, 6) = (n % 256) - (n % 64)
  <2>1. Is(8, 7, 6, 8)
    BY <1>2, <1>21
  <2> QED
    BY <1>1, <2>1 DEF Is, Cuts
<1>22. ASSUME Carries(n, 9, 7, 6) PROVE Field(9, 7, 6) = (n % 512) - (n % 64)
  <2>1. Is(9, 7, 6, 9)
    BY <1>2, <1>22
  <2> QED
    BY <1>1, <2>1 DEF Is, Cuts
<1> QED
  BY <1>3, <1>4, <1>5, <1>6, <1>7, <1>8, <1>9, <1>10, <1>11, <1>12, <1>13, <1>14,
     <1>15, <1>16, <1>17, <1>18, <1>19, <1>20, <1>21, <1>22 DEF FieldsOf

\* The operation, of either length.
LEMMA FullOpcode ==
    ASSUME NEW a, NEW fill, inst = Encoded(a, fill), a.op.code \in 0 .. 127,
           a.op.code % 4 = 3, a.op.format \in {"I", "S", "none"}
    PROVE  IsFull /\ Field(6, 0, 0) = a.op.code
<1>0. FieldsOf(a.op.code)
  BY Fields
<1>1. Field(1, 0, 0) = (a.op.code % 4) /\ Field(6, 0, 0) = (a.op.code % 128)
  BY FullBits, <1>0 DEF FieldsOf
<1> QED
  BY <1>1 DEF IsFull

LEMMA CompressedOpcode ==
    ASSUME NEW a, NEW fill, inst = Encoded(a, fill), a.op.code \in 0 .. 31,
           a.op.code % 4 # 3,
           a.op.format \in {"CL4", "CL8", "CI4", "CI8", "CSS4", "CSS8", "none"}
    PROVE  ~IsFull /\ Field(15, 13, 2) + Field(1, 0, 0) = a.op.code
<1>0. FieldsOf(a.op.code)
  BY Fields
<1>1. /\ Field(1, 0, 0) = (a.op.code % 4)
      /\ Field(15, 13, 2) = (a.op.code % 32) - (a.op.code % 4)
  BY CompressedBits, <1>0 DEF FieldsOf
<1> QED
  BY <1>1 DEF IsFull

\* The base register.
LEMMA FullBase ==
    ASSUME NEW a, NEW fill, inst = Encoded(a, fill), a.op.code % 4 = 3,
           a.op.format \in {"I", "S"}, a.base \in 0 .. 31
    PROVE  Field(19, 15, 0) = a.base
<1>0. FieldsOf(a.base)
  BY Fields
<1>1. Field(19, 15, 0) = (a.base % 32)
  BY FullBits, <1>0 DEF FieldsOf
<1> QED
  BY <1>1

LEMMA CompressedBase ==
    ASSUME NEW a, NEW fill, inst = Encoded(a, fill), a.op.code % 4 # 3,
           a.op.format \in {"CL4", "CL8"}, a.base \in 8 .. 15
    PROVE  Field(9, 7, 0) + 8 = a.base
<1> DEFINE b == a.base - 8
<1>0. FieldsOf(b)
  BY Fields
<1>1. Carries(b, 9, 7, 0) /\ b \in Int
  BY CompressedBits
<1>2. Field(9, 7, 0) = (b % 8)
  BY <1>1, <1>0 DEF FieldsOf
<1> QED
  BY <1>2

\* The offset of a format: its pieces, put together.
LEMMA OffsetOfI ==
    ASSUME NEW o \in Int, -2048 =< o, o =< 2047, Borne(o, "I")
    PROVE  Extended(Field(31, 20, 0)) = o
<1>1. FieldsOf(o)
  BY Fields
<1>2. Carries(o, 31, 20, 0)
  BY Pieces DEF Borne, Piece
<1>3. Field(31, 20, 0) = o % 4096
  BY <1>1, <1>2 DEF FieldsOf
<1>4. Field(31, 20, 0) = o % 4096
  BY <1>3
<1> QED
  BY <1>4 DEF Extended

LEMMA OffsetOfS ==
    ASSUME NEW o \in Int, -2048 =< o, o =< 2047, Borne(o, "S")
    PROVE  Extended(Field(31, 25, 5) + Field(11, 7, 0)) = o
<1>1. FieldsOf(o)
  BY Fields
<1>2. Carries(o, 31, 25, 5) /\ Carries(o, 11, 7, 0)
  BY Pieces DEF Borne, Piece
<1>3. /\ Field(31, 25, 5) = (o % 4096) - (o % 32)
      /\ Field(11, 7, 0) = o % 32
  BY <1>1, <1>2 DEF FieldsOf
<1>4. Field(31, 25, 5) + Field(11, 7, 0) = o % 4096
  BY <1>3
<1> QED
  BY <1>4 DEF Extended

LEMMA OffsetOfCL4 ==
    ASSUME NEW o \in Nat, o % 4 = 0, o < 128, Borne(o, "CL4")
    PROVE  Field(12, 10, 3) + Field(6, 6, 2) + Field(5, 5, 6) = o
<1>1. FieldsOf(o)
  BY Fields
<1>2. Carries(o, 12, 10, 3) /\ Carries(o, 6, 6, 2) /\ Carries(o, 5, 5, 6)
  BY Pieces DEF Borne, Piece
<1>3. /\ Field(12, 10, 3) = (o % 64) - (o % 8)
      /\ Field(6, 6, 2) = (o % 8) - (o % 4)
      /\ Field(5, 5, 6) = (o % 128) - (o % 64)
  BY <1>1, <1>2 DEF FieldsOf
<1>4. o % 128 = o
  OBVIOUS
<1> QED
  BY <1>3, <1>4

LEMMA OffsetOfCL8 ==
    ASSUME NEW o \in Nat, o % 8 = 0, o < 256, Borne(o, "CL8")
    PROVE  Field(12, 10, 3) + Field(6, 5, 6) = o
<1>1. FieldsOf(o)
  BY Fields
<1>2. Carries(o, 12, 10, 3) /\ Carries(o, 6, 5, 6)
  BY Pieces DEF Borne, Piece
<1>3. /\ Field(12, 10, 3) = (o % 64) - (o % 8)
      /\ Field(6, 5, 6) = (o % 256) - (o % 64)
  BY <1>1, <1>2 DEF FieldsOf
<1>4. o % 256 = o
  OBVIOUS
<1> QED
  BY <1>3, <1>4

LEMMA OffsetOfCI4 ==
    ASSUME NEW o \in Nat, o % 4 = 0, o < 256, Borne(o, "CI4")
    PROVE  Field(12, 12, 5) + Field(6, 4, 2) + Field(3, 2, 6) = o
<1>1. FieldsOf(o)
  BY Fields
<1>2. Carries(o, 12, 12, 5) /\ Carries(o, 6, 4, 2) /\ Carries(o, 3, 2, 6)
  BY Pieces DEF Borne, Piece
<1>3. /\ Field(12, 12, 5) = (o % 64) - (o % 32)
      /\ Field(6, 4, 2) = (o % 32) - (o % 4)
      /\ Field(3, 2, 6) = (o % 256) - (o % 64)
  BY <1>1, <1>2 DEF FieldsOf
<1>4. o % 256 = o
  OBVIOUS
<1> QED
  BY <1>3, <1>4

LEMMA OffsetOfCI8 ==
    ASSUME NEW o \in Nat, o % 8 = 0, o < 512, Borne(o, "CI8")
    PROVE  Field(12, 12, 5) + Field(6, 5, 3) + Field(4, 2, 6) = o
<1>1. FieldsOf(o)
  BY Fields
<1>2. Carries(o, 12, 12, 5) /\ Carries(o, 6, 5, 3) /\ Carries(o, 4, 2, 6)
  BY Pieces DEF Borne, Piece
<1>3. /\ Field(12, 12, 5) = (o % 64) - (o % 32)
      /\ Field(6, 5, 3) = (o % 32) - (o % 8)
      /\ Field(4, 2, 6) = (o % 512) - (o % 64)
  BY <1>1, <1>2 DEF FieldsOf
<1>4. o % 512 = o
  OBVIOUS
<1> QED
  BY <1>3, <1>4

LEMMA OffsetOfCSS4 ==
    ASSUME NEW o \in Nat, o % 4 = 0, o < 256, Borne(o, "CSS4")
    PROVE  Field(12, 9, 2) + Field(8, 7, 6) = o
<1>1. FieldsOf(o)
  BY Fields
<1>2. Carries(o, 12, 9, 2) /\ Carries(o, 8, 7, 6)
  BY Pieces DEF Borne, Piece
<1>3. /\ Field(12, 9, 2) = (o % 64) - (o % 4)
      /\ Field(8, 7, 6) = (o % 256) - (o % 64)
  BY <1>1, <1>2 DEF FieldsOf
<1>4. o % 256 = o
  OBVIOUS
<1> QED
  BY <1>3, <1>4

LEMMA OffsetOfCSS8 ==
    ASSUME NEW o \in Nat, o % 8 = 0, o < 512, Borne(o, "CSS8")
    PROVE  Field(12, 10, 3) + Field(9, 7, 6) = o
<1>1. FieldsOf(o)
  BY Fields
<1>2. Carries(o, 12, 10, 3) /\ Carries(o, 9, 7, 6)
  BY Pieces DEF Borne, Piece
<1>3. /\ Field(12, 10, 3) = (o % 64) - (o % 8)
      /\ Field(9, 7, 6) = (o % 512) - (o % 64)
  BY <1>1, <1>2 DEF FieldsOf
<1>4. o % 512 = o
  OBVIOUS
<1> QED
  BY <1>3, <1>4

-----------------------------------------------------------------------------
(* The decoder, an operation at a time.                                     *)

\* What Parse makes of the instruction.
Decodes(a) ==
    LET opcode == IF IsFull THEN Field(6, 0, 0) ELSE Field(15, 13, 2) + Field(1, 0, 0)
    IN  /\ (IF IsFull THEN FullRegno(opcode) ELSE CompressedRegno(opcode)) = a.base
        /\ (IF IsFull THEN FullOffset(opcode) ELSE CompressedOffset(opcode)) = a.offset

\* Loads and stores of 32 bits.
LEMMA FullDecoded ==
    ASSUME NEW a, NEW fill, inst = Encoded(a, fill), a.op \in Full,
           a.base \in 0 .. 31, a.offset \in Int, -2048 =< a.offset, a.offset =< 2047
    PROVE  Decodes(a)
<1> DEFINE code == a.op.code
<1>1. \/ code \in {3, 7} /\ a.op.format = "I"
      \/ code \in {35, 39} /\ a.op.format = "S"
  BY DEF Full, Op
<1>2. code \in 0 .. 127 /\ code % 4 = 3
  BY <1>1
<1>3. IsFull /\ Field(6, 0, 0) = code
  BY <1>1, <1>2, FullOpcode
<1>4. Field(19, 15, 0) = a.base
  BY <1>1, <1>2, FullBase
<1>5. Borne(a.offset, a.op.format)
  BY <1>1, OffsetBits DEF Formats
<1>6. FullRegno(code) = a.base
  BY <1>1, <1>4 DEF FullRegno
<1>7. FullOffset(code) = a.offset
  <2>1. CASE code \in {3, 7} /\ a.op.format = "I"
    <3>1. Extended(Field(31, 20, 0)) = a.offset
      BY <1>5, <2>1, OffsetOfI
    <3> QED
      BY <2>1, <3>1 DEF FullOffset
  <2>2. CASE code \in {35, 39} /\ a.op.format = "S"
    <3>1. Extended(Field(31, 25, 5) + Field(11, 7, 0)) = a.offset
      BY <1>5, <2>2, OffsetOfS
    <3> QED
      BY <2>2, <3>1 DEF FullOffset
  <2> QED
    BY <1>1, <2>1, <2>2
<1> QED
  BY <1>3, <1>6, <1>7 DEF Decodes

\* Instructions of another kind.
LEMMA OthersDecoded ==
    ASSUME NEW a, NEW fill, inst = Encoded(a, fill), a.op \in Others, a.base = 0, a.offset = 0
    PROVE  Decodes(a)
<1> DEFINE code == a.op.code
<1>1. code \in {19, 47, 99, 0, 1, 18} /\ a.op.format = "none"
  BY DEF Others, Op
<1>2. CASE code \in {19, 47, 99}
  <2>1. code \in 0 .. 127 /\ code % 4 = 3
    BY <1>2
  <2>2. IsFull /\ Field(6, 0, 0) = code
    BY <1>1, <2>1, FullOpcode
  <2>3. FullRegno(code) = 0 /\ FullOffset(code) = 0
    BY <1>2 DEF FullRegno, FullOffset
  <2> QED
    BY <2>2, <2>3 DEF Decodes
<1>3. CASE code \in {0, 1, 18}
  <2>1. code \in 0 .. 31 /\ code % 4 # 3
    BY <1>3
  <2>2. ~IsFull /\ Field(15, 13, 2) + Field(1, 0, 0) = code
    BY <1>1, <2>1, CompressedOpcode
  <2>3. CompressedRegno(code) = 0 /\ CompressedOffset(code) = 0
    BY <1>3 DEF CompressedRegno, CompressedOffset
  <2> QED
    BY <2>2, <2>3 DEF Decodes
<1> QED
  BY <1>1, <1>2, <1>3

\* The operations of RV32, by format.
LEMMA CompressedOps ==
    ASSUME Xlen = 32, NEW op \in Compressed
    PROVE  \/ op.code \in {4, 20} /\ op.format = "CL8"
           \/ op.code \in {8, 12, 24, 28} /\ op.format = "CL4"
           \/ op.code = 6 /\ op.format = "CI8"
           \/ op.code \in {10, 14} /\ op.format = "CI4"
           \/ op.code = 22 /\ op.format = "CSS8"
           \/ op.code \in {26, 30} /\ op.format = "CSS4"
BY DEF Compressed, Op

\* Compressed loads and stores.
LEMMA CompressedDecoded ==
    ASSUME Xlen = 32, NEW a, NEW fill, inst = Encoded(a, fill), a.op \in Compressed,
           a.base \in {2} \union 8 .. 15, a.offset \in 0 .. 511,
           a.offset % Scale(a.op.format) = 0, a.offset < 2 ^ Width(a.op.format),
           (a.op.format \in {"CL4", "CL8"}) = (a.base # 2)
    PROVE  Decodes(a)
<1> DEFINE code == a.op.code
           f == a.op.format
           o == a.offset
<1>1. \/ code \in {4, 20} /\ f = "CL8"
      \/ code \in {8, 12, 24, 28} /\ f = "CL4"
      \/ code = 6 /\ f = "CI8"
      \/ code \in {10, 14} /\ f = "CI4"
      \/ code = 22 /\ f = "CSS8"
      \/ code \in {26, 30} /\ f = "CSS4"
  BY CompressedOps
<1>2. code \in 0 .. 31 /\ code % 4 # 3
  BY <1>1
<1>3. ~IsFull /\ Field(15, 13, 2) + Field(1, 0, 0) = code
  BY <1>1, <1>2, CompressedOpcode
<1>4. Borne(o, f) /\ o \in Nat
  BY <1>1, OffsetBits DEF Formats
<1>5. CompressedRegno(code) = a.base
  <2>1. CASE f \in {"CL4", "CL8"}
    <3>1. a.base \in 8 .. 15
      BY <2>1
    <3>2. Field(9, 7, 0) + 8 = a.base
      BY <1>2, <2>1, <3>1, CompressedBase
    <3>3. code \in {4, 8, 12, 20, 24, 28}
      BY <1>1, <2>1
    <3> QED
      BY <3>2, <3>3 DEF CompressedRegno
  <2>2. CASE f \notin {"CL4", "CL8"}
    <3>1. a.base = 2
      BY <2>2
    <3>2. code \in {6, 10, 14, 22, 26, 30}
      BY <1>1, <2>2
    <3> QED
      BY <3>1, <3>2 DEF CompressedRegno
  <2> QED
    BY <2>1, <2>2
<1>6. CompressedOffset(code) = o
  <2>1. CASE code \in {4, 20} /\ f = "CL8"
    <3>1. o % 8 = 0 /\ o < 256
      BY <2>1 DEF Scale, Width
    <3>2. Field(12, 10, 3) + Field(6, 5, 6) = o
      BY <1>4, <2>1, <3>1, OffsetOfCL8
    <3> QED
      BY <2>1, <3>2 DEF CompressedOffset
  <2>2. CASE code \in {8, 12, 24, 28} /\ f = "CL4"
    <3>1. o % 4 = 0 /\ o < 128
      BY <2>2 DEF Scale, Width
    <3>2. Field(12, 10, 3) + Field(6, 6, 2) + Field(5, 5, 6) = o
      BY <1>4, <2>2, <3>1, OffsetOfCL4
    <3> QED
      BY <2>2, <3>2 DEF CompressedOffset
  <2>3. CASE code = 6 /\ f = "CI8"
    <3>1. o % 8 = 0 /\ o < 512
      BY <2>3 DEF Scale, Width
    <3>2. Field(12, 12, 5) + Field(6, 5, 3) + Field(4, 2, 6) = o
      BY <1>4, <2>3, <3>1, OffsetOfCI8
    <3> QED
      BY <2>3, <3>2 DEF CompressedOffset
  <2>4. CASE code \in {10, 14} /\ f = "CI4"
    <3>1. o % 4 = 0 /\ o < 256
      BY <2>4 DEF Scale, Width
    <3>2. Field(12, 12, 5) + Field(6, 4, 2) + Field(3, 2, 6) = o
      BY <1>4, <2>4, <3>1, OffsetOfCI4
    <3> QED
      BY <2>4, <3>2 DEF CompressedOffset
  <2>5. CASE code = 22 /\ f = "CSS8"
    <3>1. o % 8 = 0 /\ o < 512
      BY <2>5 DEF Scale, Width
    <3>2. Field(12, 10, 3) + Field(9, 7, 6) = o
      BY <1>4, <2>5, <3>1, OffsetOfCSS8
    <3> QED
      BY <2>5, <3>2 DEF CompressedOffset
  <2>6. CASE code \in {26, 30} /\ f = "CSS4"
    <3>1. o % 4 = 0 /\ o < 256
      BY <2>6 DEF Scale, Width
    <3>2. Field(12, 9, 2) + Field(8, 7, 6) = o
      BY <1>4, <2>6, <3>1, OffsetOfCSS4
    <3> QED
      BY <2>6, <3>2 DEF CompressedOffset
  <2> QED
    BY <1>1, <2>1, <2>2, <2>3, <2>4, <2>5, <2>6
<1> QED
  BY <1>3, <1>5, <1>6 DEF Decodes

\* What there is to look at.
LEMMA Limits ==
    ASSUME NEW b \in Bases, NEW o \in Offsets
    PROVE  b \in 0 .. 31 /\ o \in Int /\ -2048 =< o /\ o =< 2047
BY AccessAssumption

\* Every access there is.
LEMMA AccessDecoded ==
    ASSUME Xlen = 32, NEW a \in Accesses, NEW fill, inst = Encoded(a, fill)
    PROVE  Decodes(a)
<1>1. CASE \E op \in Full, b \in Bases, o \in Offsets : a = Access(op, b, o)
  <2>1. a.op \in Full /\ a.base \in Bases /\ a.offset \in Offsets
    BY <1>1 DEF Access
  <2>2. a.base \in 0 .. 31 /\ a.offset \in Int /\ -2048 =< a.offset /\ a.offset =< 2047
    BY <2>1, Limits
  <2> QED
    BY <2>1, <2>2, FullDecoded
<1>2. CASE /\ a \in [op : Compressed, base : {2} \union 8 .. 15, offset : 0 .. 511]
           /\ a.offset % Scale(a.op.format) = 0 /\ a.offset < 2 ^ Width(a.op.format)
           /\ (a.op.format \in {"CL4", "CL8"}) = (a.base # 2)
  <2>1. a.op \in Compressed /\ a.base \in {2} \union 8 .. 15 /\ a.offset \in 0 .. 511
    BY <1>2
  <2> QED
    BY <1>2, <2>1, CompressedDecoded
<1>3. CASE \E op \in Others : a = Access(op, 0, 0)
  <2>1. a.op \in Others /\ a.base = 0 /\ a.offset = 0
    BY <1>3 DEF Access
  <2> QED
    BY <2>1, OthersDecoded
<1> QED
  BY <1>1, <1>2, <1>3 DEF Accesses

-----------------------------------------------------------------------------

IInv ==
    /\ access \in Accesses
    /\ \E fill \in {0, 1} : inst = Encoded(access, fill)
    /\ DecodedRight

\* rv_parse_watchpoint_inst gives every load and store its base register and
\* its signed offset, and every other instruction x0 and zero, on RV32: its
\* comment at riscv-target.c:603 says that only RV32 is considered, and the run
\* on RV64 shows that there it is wrong.
THEOREM DecodesRight == ASSUME Xlen = 32 PROVE Spec => []DecodedRight
<1>1. Init => IInv
  BY DEF Init, IInv, DecodedRight
<1>2. IInv /\ [Parse]_vars => IInv'
  <2>1. SUFFICES ASSUME IInv, [Parse]_vars PROVE IInv'
    OBVIOUS
  <2>2. CASE Parse
    <3>1. access' = access /\ inst' = inst
      BY <2>2 DEF Parse
    <3>2. Decodes(access)
      BY <2>1, AccessDecoded DEF IInv
    <3>3. regno' = access.base /\ offset' = access.offset
      BY <2>2, <3>2 DEF Parse, Decodes
    <3> QED
      BY <2>1, <3>1, <3>3 DEF IInv, DecodedRight
  <2>3. CASE UNCHANGED vars
    BY <2>1, <2>3 DEF vars, IInv, DecodedRight
  <2> QED
    BY <2>1, <2>2, <2>3
<1>3. IInv => DecodedRight
  BY DEF IInv
<1> QED
  BY <1>1, <1>2, <1>3, PTL DEF Spec
=============================================================================
