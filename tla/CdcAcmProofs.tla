---------------------------- MODULE CdcAcmProofs ----------------------------
(***************************************************************************)
(* The safety of the USB device for every text, every packet and buffer    *)
(* size and every coding: the replies of RspPacket on endpoint 1, the      *)
(* serial bridge on endpoint 2, the line coding on the control endpoint.   *)
(***************************************************************************)
EXTENDS CdcAcm, SequenceTheorems, WellFoundedInduction, TLAPS

-----------------------------------------------------------------------------
(* The checksum.                                                            *)

\* The sums of the first bytes of s, up to the n-th.
Sums(s, n, g) == g = [i \in 0 .. n |-> IF i = 0 THEN 0 ELSE g[i - 1] + s[i]]

\* There are such sums: a shortest beginning without them would have a shorter.
LEMMA SumsExist ==
    ASSUME NEW s, NEW n \in Nat
    PROVE  \E g : Sums(s, n, g)
<1> DEFINE Bad == {m \in 0 .. n : ~\E g : Sums(s, m, g)}
<1>1. SUFFICES ASSUME Bad # {} PROVE FALSE
  OBVIOUS
<1>2. PICK m \in Bad : \A k \in Bad : ~(k < m)
  <2>1. Bad \subseteq Nat
    OBVIOUS
  <2>2. \E m \in Bad : \A k \in Nat : <<k, m>> \in OpToRel(<, Nat) => k \notin Bad
    BY <1>1, <2>1, NatLessThanWellFounded, WFMin, Zenon
  <2> QED
    BY <2>1, <2>2 DEF OpToRel
<1>3. m \in 0 .. n /\ ~\E g : Sums(s, m, g)
  BY <1>2
<1>4. m # 0
  <2>1. Sums(s, 0, [i \in 0 .. 0 |-> 0])
    BY DEF Sums
  <2> QED
    BY <1>3, <2>1
<1>5. PICK g : Sums(s, m - 1, g)
  BY <1>2, <1>3, <1>4
<1> DEFINE h == [i \in 0 .. m |-> IF i = m THEN g[m - 1] + s[m] ELSE g[i]]
<1>6. Sums(s, m, h)
  <2>1. \A i \in 0 .. m - 1 : g[i] = IF i = 0 THEN 0 ELSE g[i - 1] + s[i]
    BY <1>5 DEF Sums
  <2>2. \A i \in 0 .. m : h[i] = IF i = 0 THEN 0 ELSE h[i - 1] + s[i]
    BY <1>3, <1>4, <2>1
  <2> QED
    BY <2>2 DEF Sums
<1> QED
  BY <1>3, <1>6

\* A total of bytes is a number.
LEMMA TotalIsNumber ==
    ASSUME NEW s \in Seq(Nat)
    PROVE  Total(s) \in Nat
<1> DEFINE n == Len(s)
           sums == CHOOSE g : Sums(s, n, g)
           Bad == {m \in 0 .. n : sums[m] \notin Nat}
<1>1. n \in Nat /\ \A i \in 1 .. n : s[i] \in Nat
  OBVIOUS
<1>2. Total(s) = sums[n]
  BY Zenon DEF Total, Sums
<1> HIDE DEF n
<1>3. Sums(s, n, sums)
  BY <1>1, SumsExist
<1> HIDE DEF sums
<1>4. \A i \in 0 .. n : sums[i] = IF i = 0 THEN 0 ELSE sums[i - 1] + s[i]
  BY <1>3 DEF Sums
<1>5. Bad = {}
  <2>1. SUFFICES ASSUME Bad # {} PROVE FALSE
    OBVIOUS
  <2>2. PICK m \in Bad : \A k \in Bad : ~(k < m)
    <3>1. Bad \subseteq Nat
      BY <1>1
    <3>2. \E m \in Bad : \A k \in Nat : <<k, m>> \in OpToRel(<, Nat) => k \notin Bad
      BY <2>1, <3>1, NatLessThanWellFounded, WFMin, Zenon
    <3> QED
      BY <3>1, <3>2 DEF OpToRel
  <2>3. m # 0
    BY <1>1, <1>4, <2>2
  <2>4. m - 1 \in 0 .. n /\ m - 1 \notin Bad
    BY <1>1, <2>2, <2>3
  <2>5. sums[m - 1] \in Nat /\ s[m] \in Nat /\ sums[m] = sums[m - 1] + s[m]
    BY <1>1, <1>4, <2>2, <2>3, <2>4
  <2>6. sums[m] \in Nat
    BY <2>5
  <2> QED
    BY <2>2, <2>6
<1> QED
  BY <1>1, <1>2, <1>5

-----------------------------------------------------------------------------
(* The frame of a reply.                                                    *)

\* Where the frame starts in rsp_buffer and where it ends, how much of it the
\* host has heard, and the two digits of the checksum.
Size  == Len(reply)
Start == IF noAck THEN 1 ELSE 0
End   == Size + 6
Heard == Len(heard)
High  == HexDigit(Checksum(reply) \div 16)
Low   == HexDigit(Checksum(reply) % 16)

\* What belongs at index j of rsp_buffer.
Byte(j) == IF j = 0 THEN Plus ELSE IF j = 1 THEN Dollar
           ELSE IF j < 2 + Size THEN reply[j - 1]
           ELSE <<Sharp, High, Low, Bar>>[j - Size - 1]

\* The whole frame as the host knows it.
Whole == (IF noAck THEN <<>> ELSE <<Plus>>) \o <<Dollar>> \o reply \o <<Sharp, High, Low, Bar>>

\* A reply is a short sequence of bytes, and not an empty one.
LEMMA ReplyIs ==
    ASSUME NEW r \in Replies
    PROVE  /\ r \in Seq(0 .. 255) /\ r \in Seq(Nat) /\ r # <<>>
           /\ Len(r) \in 1 .. MaxReply
           /\ \A i \in 1 .. Len(r) : r[i] \in 0 .. 255
<1>1. PICK n \in 1 .. MaxReply : r \in [1 .. n -> Text]
  BY DEF Replies
<1>2. n \in Nat /\ MaxReply \in Nat
  BY SizeAssumption
<1>3. r \in [1 .. n -> 0 .. 255]
  BY <1>1, TextAssumption
<1> QED
  <2>1. r \in Seq(0 .. 255) /\ r \in Seq(Nat)
    <3>1. r \in Seq(0 .. 255)
      BY <1>2, <1>3
    <3>2. 0 .. 255 \subseteq Nat
      OBVIOUS
    <3> QED
      BY <3>1, <3>2, SeqMonotonic
  <2>2. Len(r) = n
    BY <1>2, <1>3
  <2>3. n # 0 /\ Len(<<>>) = 0 /\ n \in 1 .. MaxReply
    BY <1>2, EmptySeq
  <2>4. r # <<>>
    BY <2>2, <2>3, Zenon
  <2>5. \A i \in 1 .. n : r[i] \in 0 .. 255
    BY <1>3
  <2> QED
    BY <2>1, <2>2, <2>3, <2>4, <2>5, Zenon

\* The digits are bytes.
LEMMA DigitsAreBytes ==
    ASSUME reply \in Seq(Nat)
    PROVE  High \in 0 .. 255 /\ Low \in 0 .. 255 /\ Checksum(reply) \in 0 .. 255
<1>1. Total(reply) \in Nat
  BY TotalIsNumber
<1>2. Checksum(reply) \in 0 .. 255
  <2>1. \A t \in Nat : t % 256 \in 0 .. 255
    OBVIOUS
  <2> QED
    BY <1>1, <2>1, Zenon DEF Checksum
<1>3. Checksum(reply) \div 16 \in 0 .. 15 /\ Checksum(reply) % 16 \in 0 .. 15
  <2>1. \A t \in 0 .. 255 : t \div 16 \in 0 .. 15 /\ t % 16 \in 0 .. 15
    OBVIOUS
  <2> QED
    BY <1>2, <2>1, Zenon
<1>4. \A d \in 0 .. 15 : HexDigit(d) \in 0 .. 255
  BY DEF HexDigit
<1> QED
  BY <1>2, <1>3, <1>4 DEF High, Low

\* new is buf with the m bytes of s from index at on.
Holds(new, n, buf, at, m, s) ==
    /\ new \in [0 .. n -> 0 .. 255]
    /\ \A i \in 0 .. n : at =< i /\ i < at + m => new[i] = s[i - at + 1]
    /\ \A i \in 0 .. n : ~(at =< i /\ i < at + m) => new[i] = buf[i]

LEMMA PutIs ==
    ASSUME NEW n \in Nat, NEW m \in Nat, NEW at \in Nat,
           NEW buf \in [0 .. n -> 0 .. 255], NEW s \in [1 .. m -> 0 .. 255]
    PROVE  Holds(Put(buf, at, s), n, buf, at, m, s)
<1>1. Len(s) = m
  OBVIOUS
<1>2. Put(buf, at, s) = [i \in 0 .. n |-> IF i \in at .. at + m - 1 THEN s[i - at + 1] ELSE buf[i]]
  BY <1>1 DEF Put
<1>3. ASSUME NEW i \in 0 .. n PROVE /\ i \in at .. at + m - 1 <=> at =< i /\ i < at + m
                                    /\ i \in at .. at + m - 1 => i - at + 1 \in 1 .. m
  OBVIOUS
<1> QED
  BY <1>2, <1>3 DEF Holds

-----------------------------------------------------------------------------
(* The replies.                                                             *)

\* The whole frame lies in rsp_buffer.
InPlace == \A j \in Start .. End - 1 : rspBuffer[j] = Byte(j)

\* What the host has heard is the beginning of the frame.
HeardSoFar ==
    /\ Start + Heard =< End
    /\ \A i \in 1 .. Heard : heard[i] = Byte(Start + i - 1)

\* Where the task is in the frame.  A transfer that was lost with the endpoint
\* leaves the task waiting, and nothing is said of what the host heard.
Progress ==
    /\ rpc # "wait" => xfer = NoTransfer
    /\ sent => xfer = NoTransfer
    /\ rpc # "recv" => reply \in Replies
    /\ rpc = "frame" => data = 2 /\ len = Size /\ heard = <<>>
                        /\ \A i \in 1 .. Size : rspBuffer[i + 1] = reply[i]
    /\ rpc = "send" => InPlace /\ HeardSoFar /\ data = Start + Heard /\ len > 0
    /\ rpc = "wait" => InPlace
    /\ rpc \in {"send", "wait"} => data + len = End
    /\ xfer.len > 0 => HeardSoFar /\ xfer.from = Start + Heard /\ xfer.from + xfer.len = data
    /\ rpc = "wait" /\ (xfer.len = 0 \/ sent) => HeardSoFar /\ data = Start + Heard
    /\ rpc = "recv" /\ reply # <<>> => HeardSoFar /\ Start + Heard = End
    /\ rpc = "recv" \/ sent => lastPacket < PacketSize

ReplyInv == TypeOK /\ Progress

\* Numbers, all of them.
LEMMA Numbers ==
    ASSUME TypeOK
    PROVE  /\ Size \in 0 .. MaxReply /\ MaxReply \in Nat /\ Start \in 0 .. 1 /\ Heard \in Nat
           /\ PacketSize \in Nat /\ PacketSize > 0 /\ BufferSize \in Nat /\ BufferSize >= MaxReply + 7
           /\ data \in 0 .. BufferSize /\ len \in 0 .. BufferSize
           /\ xfer.from \in 0 .. BufferSize - 1 /\ xfer.len \in -1 .. PacketSize
           /\ End \in 6 .. MaxReply + 6 /\ End = Size + 6
           /\ reply \in Seq(0 .. 255) /\ reply \in Seq(Nat)
           /\ reply # <<>> => Size > 0
<1>1. MaxReply \in Nat /\ PacketSize \in Nat /\ PacketSize > 0 /\ BufferSize \in Nat /\ BufferSize >= MaxReply + 7
  BY SizeAssumption
<1>2. /\ Size \in 0 .. MaxReply /\ reply \in Seq(0 .. 255) /\ reply \in Seq(Nat)
      /\ (reply # <<>> => Size > 0)
  <2>1. CASE reply = <<>>
    <3>1. Size = 0 /\ reply \in Seq(0 .. 255) /\ reply \in Seq(Nat)
      BY <2>1, EmptySeq DEF Size
    <3> QED
      BY <1>1, <2>1, <3>1
  <2>2. CASE reply \in Replies
    BY <2>2, ReplyIs DEF Size
  <2> QED
    BY <2>1, <2>2 DEF TypeOK
<1>3. Start \in 0 .. 1
  BY DEF Start
<1>4. Heard \in Nat
  BY DEF TypeOK, Heard
<1>5. End \in 6 .. MaxReply + 6 /\ End = Size + 6
  BY <1>1, <1>2 DEF End
<1>6. data \in 0 .. BufferSize /\ len \in 0 .. BufferSize
      /\ xfer.from \in 0 .. BufferSize - 1 /\ xfer.len \in -1 .. PacketSize
  BY DEF TypeOK
<1> QED
  BY <1>1, <1>2, <1>3, <1>4, <1>5, <1>6

\* The server writes a reply.
LEMMA ServerRepliesKeeps == ASSUME ReplyInv, ServerReplies PROVE ReplyInv'
<1>1. PICK r \in Replies, mode \in BOOLEAN :
         reply' = r /\ noAck' = mode /\ rspBuffer' = Put(rspBuffer, 2, r) /\ len' = Len(r)
  BY DEF ServerReplies
<1>2. TypeOK /\ Progress /\ rpc = "recv" /\ data' = 2 /\ heard' = <<>> /\ rpc' = "frame"
      /\ UNCHANGED <<xfer, sent, lastPacket>>
  BY DEF ReplyInv, ServerReplies
<1>3. /\ r \in Seq(0 .. 255) /\ r # <<>> /\ Size' = Len(r) /\ Size' \in 1 .. MaxReply
      /\ MaxReply \in Nat /\ BufferSize \in Nat /\ BufferSize >= MaxReply + 7
  BY <1>1, <1>2, ReplyIs, Numbers DEF Size
<1>4. /\ rspBuffer' \in [0 .. BufferSize - 1 -> 0 .. 255]
      /\ \A i \in 0 .. BufferSize - 1 : 2 =< i /\ i < 2 + Size' => rspBuffer'[i] = r[i - 2 + 1]
  <2>1. BufferSize - 1 \in Nat /\ rspBuffer \in [0 .. BufferSize - 1 -> 0 .. 255]
    BY <1>2, <1>3 DEF TypeOK
  <2>2. Size' \in Nat /\ r \in [1 .. Size' -> 0 .. 255]
    <3>1. \A s \in Seq(0 .. 255) : Len(s) \in Nat /\ s \in [1 .. Len(s) -> 0 .. 255]
      BY LenProperties, ZenonT(60)
    <3> QED
      BY <1>3, <3>1, Zenon
  <2>3. 2 \in Nat
    OBVIOUS
  <2> QED
    <3>1. Holds(Put(rspBuffer, 2, r), BufferSize - 1, rspBuffer, 2, Size', r)
      BY <2>1, <2>2, <2>3, PutIs, ZenonT(60)
    <3> QED
      BY <1>1, <3>1, Zenon DEF Holds
<1>5. \A i \in 1 .. Size' : rspBuffer'[i + 1] = reply'[i]
  <2>1. ASSUME NEW i \in 1 .. Size'
        PROVE  i + 1 \in 0 .. BufferSize - 1 /\ 2 =< i + 1 /\ i + 1 < 2 + Size' /\ (i + 1) - 2 + 1 = i
    BY <1>3
  <2> QED
    BY <1>1, <1>4, <2>1
<1>6. TypeOK'
  <2>1. noAck' \in BOOLEAN
    BY <1>1
  <2>2. data' \in 0 .. BufferSize /\ len' \in 0 .. BufferSize
    BY <1>1, <1>2, <1>3
  <2>3. heard' \in Seq(0 .. 255)
    BY <1>2, EmptySeq
  <2> QED
    BY <1>1, <1>2, <1>4, <2>1, <2>2, <2>3 DEF TypeOK
<1>7. Progress'
  <2>1. xfer' = NoTransfer /\ ~(xfer'.len > 0)
    BY <1>2 DEF Progress, NoTransfer
  <2>2. len' = Size'
    BY <1>1, <1>3
  <2> QED
    BY <1>1, <1>2, <1>5, <2>1, <2>2 DEF Progress, NoTransfer
<1> QED
  BY <1>6, <1>7 DEF ReplyInv

\* The frame is a matter of the reply and the mode.
LEMMA SameFrame ==
    ASSUME reply' = reply, noAck' = noAck
    PROVE  /\ Size' = Size /\ Start' = Start /\ End' = End
           /\ \A j \in Nat : Byte(j)' = Byte(j)
<1>1. Size' = Size /\ Start' = Start
  BY DEF Size, Start
<1>2. High' = High /\ Low' = Low
  BY DEF High, Low
<1> QED
  BY <1>1, <1>2 DEF End, Byte

\* The four bytes behind a reply and the NUL.
LEMMA TrailerIs ==
    ASSUME reply \in Seq(Nat)
    PROVE  LET text == Trailer(Checksum(reply)) \o <<Nul>>
           IN  /\ text \in [1 .. 5 -> 0 .. 255]
               /\ \A i \in 1 .. 4 : text[i] = <<Sharp, High, Low, Bar>>[i]
<1>1. High \in 0 .. 255 /\ Low \in 0 .. 255
  BY DigitsAreBytes
<1>2. Trailer(Checksum(reply)) = <<Sharp, High, Low, Bar>>
  BY Zenon DEF Trailer, High, Low
<1> DEFINE four == <<Sharp, High, Low, Bar>>
           text == four \o <<Nul>>
<1>3. four \in Seq(0 .. 255) /\ Len(four) = 4 /\ <<Nul>> \in Seq(0 .. 255) /\ Len(<<Nul>>) = 1
  BY <1>1 DEF Sharp, Bar, Nul
<1>5. Trailer(Checksum(reply)) \o <<Nul>> = text
  BY <1>2, Zenon
<1> HIDE DEF four
<1>6. text \in Seq(0 .. 255) /\ Len(text) = 5 /\ \A i \in 1 .. 4 : text[i] = four[i]
  <2>1. text \in Seq(0 .. 255) /\ Len(text) = Len(four) + Len(<<Nul>>)
        /\ \A i \in 1 .. Len(four) + Len(<<Nul>>) :
               text[i] = IF i =< Len(four) THEN four[i] ELSE <<Nul>>[i - Len(four)]
    BY <1>3, ConcatProperties, ZenonT(60)
  <2>2. text \in Seq(0 .. 255) /\ Len(text) = 4 + 1
        /\ \A i \in 1 .. 4 + 1 : text[i] = IF i =< 4 THEN four[i] ELSE <<Nul>>[i - 4]
    BY <1>3, <2>1, Zenon
  <2> QED
    BY <2>2
<1> HIDE DEF text
<1>7. text \in [1 .. 5 -> 0 .. 255]
  <2>1. \A s \in Seq(0 .. 255) : s \in [1 .. Len(s) -> 0 .. 255]
    BY LenProperties, Zenon
  <2> QED
    BY <1>6, <2>1, Zenon
<1> QED
  BY <1>5, <1>6, <1>7, Zenon DEF four

\* The task puts the frame around the reply.
LEMMA FrameKeeps == ASSUME ReplyInv, Frame PROVE ReplyInv'
<1> DEFINE payload == [i \in 1 .. len |-> rspBuffer[data + i - 1]]
           text    == Trailer(Checksum(reply)) \o <<Nul>>
           behind  == Put(rspBuffer, 2 + Size, text)
           before  == IF noAck THEN <<Dollar>> ELSE <<Plus, Dollar>>
<1>1. /\ TypeOK /\ Progress /\ rpc = "frame" /\ rpc' = "send" /\ data = 2 /\ len = Size /\ heard = <<>>
      /\ \A i \in 1 .. Size : rspBuffer[i + 1] = reply[i]
      /\ xfer = NoTransfer /\ reply \in Replies
      /\ reply' = reply /\ noAck' = noAck /\ xfer' = xfer /\ sent' = sent
      /\ heard' = heard /\ lastPacket' = lastPacket
  BY DEF ReplyInv, Frame, Progress
<1>2. /\ Size \in 1 .. MaxReply /\ MaxReply \in Nat /\ Start \in 0 .. 1 /\ End = Size + 6
      /\ BufferSize \in Nat /\ BufferSize >= MaxReply + 7
      /\ reply \in Seq(0 .. 255) /\ reply \in Seq(Nat)
  BY <1>1, Numbers, ReplyIs DEF Size
<1>3. payload = reply
  <2>1. \A s \in Seq(0 .. 255) : s = [i \in 1 .. Len(s) |-> s[i]]
    OBVIOUS
  <2>2. reply = [i \in 1 .. Size |-> reply[i]]
    BY <1>2, <2>1, Zenon DEF Size
  <2>3. \A i \in 1 .. Size : data + i - 1 = i + 1
    BY <1>1, <1>2
  <2>4. payload = [i \in 1 .. Size |-> reply[i]]
    BY <1>1, <2>3
  <2> QED
    BY <2>2, <2>4, Zenon
<1>4. text \in [1 .. 5 -> 0 .. 255] /\ \A i \in 1 .. 4 : text[i] = <<Sharp, High, Low, Bar>>[i]
  BY <1>2, TrailerIs, Zenon
<1>5. /\ before \in [1 .. 2 - Start -> 0 .. 255] /\ Len(before) = 2 - Start
      /\ before[2 - Start] = Dollar /\ (Start = 0 => before[1] = Plus)
  BY DEF Start, Dollar, Plus
<1>6. /\ rspBuffer' = Put(behind, data - Len(before), before)
      /\ data' = data - Len(before) /\ len' = len + Len(before) + 4
  BY <1>1, <1>3, Zenon DEF Frame
<1> HIDE DEF payload, text, before
<1>7. data' = Start /\ len' = End - Start
  BY <1>1, <1>2, <1>5, <1>6
<1>8. Holds(behind, BufferSize - 1, rspBuffer, 2 + Size, 5, text)
  <2>1. BufferSize - 1 \in Nat /\ 5 \in Nat /\ 2 + Size \in Nat
    BY <1>2
  <2>2. rspBuffer \in [0 .. BufferSize - 1 -> 0 .. 255]
    BY <1>1 DEF TypeOK
  <2> QED
    BY <1>4, <2>1, <2>2, PutIs, ZenonT(60)
<1> HIDE DEF behind
<1>9. Holds(rspBuffer', BufferSize - 1, behind, Start, 2 - Start, before)
  <2>1. BufferSize - 1 \in Nat /\ 2 - Start \in Nat /\ Start \in Nat
    BY <1>2
  <2>2. behind \in [0 .. BufferSize - 1 -> 0 .. 255]
    BY <1>8 DEF Holds
  <2>3. rspBuffer' = Put(behind, Start, before)
    BY <1>6, <1>7, Zenon
  <2> QED
    BY <1>5, <2>1, <2>2, <2>3, PutIs, ZenonT(60)
<1>10. \A j \in Start .. End - 1 : rspBuffer'[j] = Byte(j)
  <2>1. ASSUME NEW j \in Start .. End - 1 PROVE rspBuffer'[j] = Byte(j)
    <3>1. j \in 0 .. BufferSize - 1 /\ j \in Nat
      BY <1>2
    <3>2. CASE j < 2
      <4>1. rspBuffer'[j] = before[j - Start + 1]
        BY <1>2, <1>9, <3>1, <3>2 DEF Holds
      <4>2. j = 0 \/ j = 1
        BY <3>1, <3>2
      <4>3. j = 0 => Start = 0 /\ j - Start + 1 = 1
        BY <1>2
      <4>4. j = 1 => j - Start + 1 = 2 - Start
        BY <1>2
      <4> QED
        BY <1>5, <4>1, <4>2, <4>3, <4>4 DEF Byte
    <3>3. CASE 2 =< j /\ j < 2 + Size
      <4>1. rspBuffer'[j] = behind[j]
        BY <1>2, <1>9, <3>1, <3>3 DEF Holds
      <4>2. behind[j] = rspBuffer[j]
        BY <1>2, <1>8, <3>1, <3>3 DEF Holds
      <4>3. j - 1 \in 1 .. Size /\ (j - 1) + 1 = j
        BY <1>2, <3>1, <3>3
      <4>4. rspBuffer[j] = reply[j - 1]
        BY <1>1, <4>3
      <4> QED
        BY <3>1, <3>3, <4>1, <4>2, <4>4 DEF Byte
    <3>4. CASE 2 + Size =< j
      <4>1. rspBuffer'[j] = behind[j]
        BY <1>2, <1>9, <3>1, <3>4 DEF Holds
      <4>2. behind[j] = text[j - (2 + Size) + 1]
        BY <1>2, <1>8, <3>1, <3>4 DEF Holds
      <4>3. j - (2 + Size) + 1 = j - Size - 1 /\ j - Size - 1 \in 1 .. 4
        BY <1>2, <3>1, <3>4
      <4>4. text[j - Size - 1] = <<Sharp, High, Low, Bar>>[j - Size - 1]
        BY <1>4, <4>3, Zenon
      <4>5. ~(j < 2 + Size) /\ j # 0 /\ j # 1
        BY <1>2, <3>1, <3>4
      <4>6. Byte(j) = <<Sharp, High, Low, Bar>>[j - Size - 1]
        BY <4>5, Zenon DEF Byte
      <4> QED
        BY <4>1, <4>2, <4>3, <4>4, <4>6, Zenon
    <3> QED
      BY <1>2, <3>1, <3>2, <3>3, <3>4
  <2> QED
    BY <2>1
<1>11. Start' = Start /\ End' = End /\ Size' = Size /\ \A j \in Nat : Byte(j)' = Byte(j)
  BY <1>1, SameFrame, Zenon
<1>12. InPlace'
  <2>1. \A j \in Start .. End - 1 : j \in Nat
    BY <1>2
  <2> QED
    BY <1>10, <1>11, <2>1, Zenon DEF InPlace
<1>13. HeardSoFar' /\ Heard' = 0
  <2>1. heard' = <<>> /\ Heard' = 0
    BY <1>1, EmptySeq DEF Heard
  <2> QED
    BY <1>2, <1>11, <2>1 DEF HeardSoFar
<1>14. TypeOK'
  <2>1. data' \in 0 .. BufferSize /\ len' \in 0 .. BufferSize
    BY <1>2, <1>7
  <2>2. rspBuffer' \in [0 .. BufferSize - 1 -> 0 .. 255]
    BY <1>9 DEF Holds
  <2> QED
    BY <1>1, <2>1, <2>2 DEF TypeOK
<1>15. Progress'
  <2>1. ~(xfer'.len > 0) /\ xfer' = NoTransfer
    BY <1>1 DEF NoTransfer
  <2>2. data' = Start' + Heard' /\ len' > 0 /\ data' + len' = End'
    BY <1>2, <1>7, <1>11, <1>13
  <2>3. sent' => lastPacket' < PacketSize
    BY <1>1 DEF Progress
  <2> QED
    BY <1>1, <1>12, <1>13, <2>1, <2>2, <2>3 DEF Progress
<1> QED
  BY <1>14, <1>15 DEF ReplyInv

\* u is the m bytes of s and the n of t.
Joined(u, s, m, t, n) ==
    /\ u \in Seq(0 .. 255) /\ Len(u) = m + n
    /\ \A i \in 1 .. m : u[i] = s[i]
    /\ \A i \in m + 1 .. m + n : u[i] = t[i - m]

LEMMA JoinIs ==
    ASSUME NEW s \in Seq(0 .. 255), NEW t \in Seq(0 .. 255), NEW m, NEW n, m = Len(s), n = Len(t)
    PROVE  Joined(s \o t, s, m, t, n)
<1>1. m \in Nat /\ n \in Nat
  BY LenProperties, Zenon
<1>2. /\ s \o t \in Seq(0 .. 255) /\ Len(s \o t) = m + n
      /\ \A i \in 1 .. m + n : (s \o t)[i] = IF i =< m THEN s[i] ELSE t[i - m]
  <2>1. /\ s \o t \in Seq(0 .. 255) /\ Len(s \o t) = Len(s) + Len(t)
        /\ \A i \in 1 .. Len(s) + Len(t) : (s \o t)[i] = IF i =< Len(s) THEN s[i] ELSE t[i - Len(s)]
    BY ConcatProperties
  <2> QED
    BY <2>1, Zenon
<1>3. \A i \in 1 .. m : i \in 1 .. m + n /\ i =< m
  BY <1>1
<1>4. \A i \in m + 1 .. m + n : i \in 1 .. m + n /\ ~(i =< m)
  BY <1>1
<1> QED
  BY <1>2, <1>3, <1>4, Zenon DEF Joined

\* Where the frame is, stays.
LEMMA StaysInPlace ==
    ASSUME TypeOK, InPlace, reply' = reply, noAck' = noAck, rspBuffer' = rspBuffer
    PROVE  InPlace'
<1>1. \A j \in Start .. End - 1 : j \in Nat
  <2>1. Start \in 0 .. 1 /\ End \in 6 .. MaxReply + 6
    BY Numbers, Zenon
  <2> QED
    BY <2>1
<1> QED
  BY <1>1, SameFrame, Zenon DEF InPlace

LEMMA StaysHeard ==
    ASSUME TypeOK, HeardSoFar, reply' = reply, noAck' = noAck, heard' = heard
    PROVE  HeardSoFar' /\ Heard' = Heard
<1>1. \A i \in 1 .. Heard : Start + i - 1 \in Nat
  <2>1. Start \in 0 .. 1 /\ Heard \in Nat
    BY Numbers, Zenon
  <2> QED
    BY <2>1
<1>2. Heard' = Heard
  BY DEF Heard
<1> QED
  BY <1>1, <1>2, SameFrame, Zenon DEF HeardSoFar

\* The task hands a packet to the endpoint.
LEMMA SendKeeps == ASSUME ReplyInv, Send PROVE ReplyInv'
<1>1. /\ TypeOK /\ Progress /\ rpc = "send" /\ rpc' = "wait" /\ reply \in Replies
      /\ InPlace /\ HeardSoFar /\ data = Start + Heard /\ len > 0 /\ data + len = End
      /\ reply' = reply /\ noAck' = noAck /\ rspBuffer' = rspBuffer /\ sent' = FALSE
      /\ heard' = heard /\ lastPacket' = lastPacket
  BY DEF ReplyInv, Progress, Send
<1> DEFINE n == IF len >= PacketSize THEN PacketSize ELSE len
<1>2. xfer' = [from |-> data, len |-> n] /\ data' = data + n /\ len' = len - n
  BY DEF Send
<1>3. n \in 1 .. PacketSize /\ n =< len /\ n \in Nat
  <2>1. PacketSize \in Nat /\ PacketSize > 0 /\ len \in 0 .. BufferSize /\ BufferSize \in Nat
    BY <1>1, Numbers, Zenon
  <2>2. len > 0
    BY <1>1, Zenon
  <2> QED
    BY <2>1, <2>2
<1> HIDE DEF n
<1>4. xfer'.from = data /\ xfer'.len = n
  BY <1>2
<1>5. InPlace' /\ HeardSoFar' /\ Heard' = Heard /\ Start' = Start /\ End' = End
  BY <1>1, StaysInPlace, StaysHeard, SameFrame, Zenon
<1>6. /\ data' \in 0 .. BufferSize /\ len' \in 0 .. BufferSize /\ data \in 0 .. BufferSize - 1
      /\ data' + len' = End' /\ data + n = data'
  <2>1. /\ data \in 0 .. BufferSize /\ len \in 0 .. BufferSize /\ End \in Nat /\ BufferSize \in Nat
        /\ End < BufferSize
    <3>1. /\ data \in 0 .. BufferSize /\ len \in 0 .. BufferSize /\ End \in 6 .. MaxReply + 6
          /\ BufferSize \in Nat /\ MaxReply \in Nat /\ BufferSize >= MaxReply + 7
      BY <1>1, Numbers, Zenon
    <3> QED
      BY <3>1
  <2> QED
    BY <1>1, <1>2, <1>3, <1>5, <2>1
<1>7. TypeOK'
  <2>1. n \in -1 .. PacketSize
    BY <1>3, Numbers
  <2>2. xfer' \in [from : 0 .. BufferSize - 1, len : -1 .. PacketSize]
    BY <1>2, <1>6, <2>1
  <2> QED
    BY <1>1, <1>6, <2>2 DEF TypeOK
<1>8. Progress'
  <2>1. xfer'.len > 0 /\ xfer'.len # 0
    BY <1>3, <1>4
  <2> QED
    BY <1>1, <1>4, <1>5, <1>6, <2>1 DEF Progress
<1> QED
  BY <1>7, <1>8 DEF ReplyInv

\* The host takes a packet.
LEMMA DataInKeeps == ASSUME ReplyInv, DataIn PROVE ReplyInv'
<1> DEFINE n == xfer.len
           from == xfer.from
           piece == [i \in 1 .. n |-> rspBuffer[from + i - 1]]
<1>1. /\ TypeOK /\ Progress /\ n >= 0 /\ heard' = heard \o piece /\ lastPacket' = n
      /\ IF NeedsEmpty(n) THEN xfer' = [xfer EXCEPT !.len = 0] /\ sent' = sent
                          ELSE xfer' = NoTransfer /\ sent' = TRUE
      /\ reply' = reply /\ noAck' = noAck /\ rspBuffer' = rspBuffer
      /\ data' = data /\ len' = len /\ rpc' = rpc
  BY DEF ReplyInv, DataIn
<1>2. /\ n \in 0 .. PacketSize /\ n \in Nat /\ from \in 0 .. BufferSize - 1 /\ from \in Nat
      /\ Start \in 0 .. 1 /\ End \in Nat /\ Heard \in Nat /\ PacketSize \in Nat /\ PacketSize > 0
      /\ data \in 0 .. BufferSize /\ len \in 0 .. BufferSize /\ BufferSize \in Nat
      /\ End < BufferSize
  <2>1. /\ Start \in 0 .. 1 /\ End \in 6 .. MaxReply + 6 /\ MaxReply \in Nat /\ Heard \in Nat
        /\ PacketSize \in Nat /\ PacketSize > 0 /\ BufferSize \in Nat
        /\ BufferSize >= MaxReply + 7 /\ data \in 0 .. BufferSize /\ len \in 0 .. BufferSize
        /\ xfer.from \in 0 .. BufferSize - 1 /\ xfer.len \in -1 .. PacketSize
    BY <1>1, Numbers, Zenon
  <2>2. n \in 0 .. PacketSize /\ n \in Nat
    BY <1>1, <2>1
  <2> QED
    BY <2>1, <2>2
<1>3. rpc = "wait" /\ ~sent /\ reply \in Replies /\ InPlace /\ data + len = End
  <2>1. xfer # NoTransfer
    BY <1>2 DEF NoTransfer
  <2> QED
    BY <1>1, <2>1 DEF Progress, TypeOK
<1>4. HeardSoFar /\ Start + Heard + n = data /\ (n > 0 => from = Start + Heard)
  BY <1>1, <1>2, <1>3 DEF Progress
<1> HIDE DEF n, from
<1>5. piece \in Seq(0 .. 255) /\ Len(piece) = n
  <2>1. \A i \in 1 .. n : rspBuffer[from + i - 1] \in 0 .. 255
    <3>1. \A i \in 1 .. n : from + i - 1 \in 0 .. BufferSize - 1
      BY <1>2, <1>3, <1>4
    <3> QED
      BY <1>1, <3>1 DEF TypeOK
  <2> QED
    BY <1>2, <2>1
<1>6. \A i \in 1 .. n : piece[i] = rspBuffer[from + i - 1]
  OBVIOUS
<1> HIDE DEF piece
<1>7. Joined(heard', heard, Heard, piece, n)
  <2>1. heard \in Seq(0 .. 255)
    BY <1>1 DEF TypeOK
  <2> QED
    BY <1>1, <1>5, <2>1, JoinIs, Zenon DEF Heard
<1>8. Start' = Start /\ End' = End /\ InPlace' /\ \A j \in Nat : Byte(j)' = Byte(j)
  BY <1>1, <1>3, SameFrame, StaysInPlace, Zenon
<1>9. Heard' = Heard + n
  BY <1>7 DEF Joined, Heard
<1>10. HeardSoFar' /\ data' = Start' + Heard'
  <2>1. Start + Heard + n =< End
    BY <1>2, <1>3, <1>4
  <2>2. ASSUME NEW i \in 1 .. Heard + n PROVE heard'[i] = Byte(Start + i - 1)
    <3>1. CASE i =< Heard
      <4>1. i \in 1 .. Heard
        BY <1>2, <3>1
      <4> QED
        BY <1>4, <1>7, <4>1 DEF Joined, HeardSoFar
    <3>2. CASE i > Heard
      <4>1. i \in Heard + 1 .. Heard + n /\ i - Heard \in 1 .. n /\ n > 0
        BY <1>2, <3>2
      <4>2. heard'[i] = piece[i - Heard]
        BY <1>7, <4>1, Zenon DEF Joined
      <4>3. piece[i - Heard] = rspBuffer[from + (i - Heard) - 1]
        BY <1>6, <4>1
      <4>4. from + (i - Heard) - 1 = Start + i - 1 /\ Start + i - 1 \in Start .. End - 1
        BY <1>2, <1>4, <2>1, <4>1
      <4> QED
        BY <1>3, <4>2, <4>3, <4>4 DEF InPlace
    <3> QED
      BY <1>2, <3>1, <3>2
  <2>3. \A i \in 1 .. Heard + n : Start + i - 1 \in Nat
    BY <1>2
  <2>4. (\A i \in 1 .. Heard : heard[i] = Byte(Start + i - 1))'
    BY <1>8, <1>9, <2>2, <2>3
  <2>5. Start' + Heard' =< End' /\ data' = Start' + Heard'
    BY <1>1, <1>2, <1>4, <1>8, <1>9, <2>1
  <2> QED
    BY <2>4, <2>5 DEF HeardSoFar
<1>11. \/ xfer' = NoTransfer /\ sent' = TRUE /\ n < PacketSize
       \/ xfer'.len = 0 /\ xfer' # NoTransfer /\ sent' = FALSE /\ xfer' \in [from : 0 .. BufferSize - 1, len : -1 .. PacketSize]
  <2>1. CASE NeedsEmpty(n)
    <3>1. xfer' = [xfer EXCEPT !.len = 0] /\ xfer \in [from : 0 .. BufferSize - 1, len : -1 .. PacketSize]
      BY <1>1, <2>1 DEF TypeOK
    <3>2. 0 \in -1 .. PacketSize
      BY <1>2
    <3>3. xfer'.len = 0 /\ xfer' \in [from : 0 .. BufferSize - 1, len : -1 .. PacketSize]
      BY <3>1, <3>2
    <3>4. sent = FALSE
      BY <1>1, <1>3 DEF TypeOK
    <3> QED
      BY <1>1, <2>1, <3>3, <3>4 DEF NoTransfer
  <2>2. CASE ~NeedsEmpty(n)
    <3>1. \A p \in Nat \ {0} : p % p = 0
      OBVIOUS
    <3>2. n # PacketSize
      BY <1>2, <2>2, <3>1 DEF NeedsEmpty
    <3> QED
      BY <1>1, <1>2, <2>2, <3>2
  <2> QED
    BY <2>1, <2>2
<1>12. TypeOK'
  <2>1. heard' \in Seq(0 .. 255)
    BY <1>7 DEF Joined
  <2>2. xfer' \in [from : 0 .. BufferSize - 1, len : -1 .. PacketSize] /\ sent' \in BOOLEAN
    <3>1. NoTransfer \in [from : 0 .. BufferSize - 1, len : -1 .. PacketSize]
      BY <1>2 DEF NoTransfer
    <3> QED
      BY <1>11, <3>1
  <2>3. lastPacket' \in 0 .. PacketSize
    BY <1>1, <1>2
  <2> QED
    BY <1>1, <2>1, <2>2, <2>3 DEF TypeOK
<1>13. Progress'
  <2>1. ~(xfer'.len > 0)
    BY <1>11 DEF NoTransfer
  <2> QED
    BY <1>1, <1>3, <1>8, <1>10, <1>11, <2>1 DEF Progress
<1> QED
  BY <1>12, <1>13 DEF ReplyInv

\* The task goes on when the packet was taken.
LEMMA WaitKeeps == ASSUME ReplyInv, Wait PROVE ReplyInv'
<1>1. /\ TypeOK /\ Progress /\ rpc = "wait" /\ sent /\ xfer = NoTransfer /\ reply \in Replies
      /\ HeardSoFar /\ data = Start + Heard /\ InPlace /\ data + len = End /\ lastPacket < PacketSize
      /\ rpc' = (IF len > 0 THEN "send" ELSE "recv")
      /\ reply' = reply /\ noAck' = noAck /\ rspBuffer' = rspBuffer /\ data' = data /\ len' = len
      /\ xfer' = xfer /\ sent' = sent /\ heard' = heard /\ lastPacket' = lastPacket
  BY DEF ReplyInv, Progress, Wait
<1>2. InPlace' /\ HeardSoFar' /\ Heard' = Heard /\ Start' = Start /\ End' = End
  BY <1>1, StaysInPlace, StaysHeard, SameFrame, Zenon
<1>3. ~(len > 0) => Start + Heard = End
  <2>1. /\ len \in 0 .. BufferSize /\ data \in 0 .. BufferSize /\ BufferSize \in Nat
        /\ Start \in 0 .. 1 /\ Heard \in Nat /\ End \in 6 .. MaxReply + 6
    BY <1>1, Numbers, Zenon
  <2> QED
    BY <1>1, <2>1
<1>4. TypeOK'
  BY <1>1 DEF TypeOK
<1>5. Progress'
  BY <1>1, <1>2, <1>3 DEF Progress, NoTransfer
<1> QED
  BY <1>4, <1>5 DEF ReplyInv

\* What waits on the endpoint is lost, or nothing happens to the replies.
LEMMA LossKeeps ==
    ASSUME ReplyInv, xfer' \in {xfer, NoTransfer}, reply' = reply, noAck' = noAck,
           rspBuffer' = rspBuffer, data' = data, len' = len, rpc' = rpc, sent' = sent,
           heard' = heard, lastPacket' = lastPacket
    PROVE  ReplyInv'
<1>1. TypeOK /\ Progress
  BY DEF ReplyInv
<1>2. (InPlace => InPlace') /\ Start' = Start /\ End' = End /\ Size' = Size
  BY <1>1, StaysInPlace, SameFrame, Zenon
<1>3. (HeardSoFar => HeardSoFar') /\ Heard' = Heard
  <2>1. Heard' = Heard
    BY DEF Heard
  <2> QED
    BY <1>1, <2>1, StaysHeard, Zenon
<1>4. TypeOK'
  <2>1. NoTransfer \in [from : 0 .. BufferSize - 1, len : -1 .. PacketSize]
    BY SizeAssumption DEF NoTransfer
  <2> QED
    BY <1>1, <2>1 DEF TypeOK
<1>5. Progress'
  <2>1. CASE xfer' = xfer
    BY <1>1, <1>2, <1>3, <2>1 DEF Progress
  <2>2. CASE xfer' = NoTransfer
    <3>1. ~(xfer'.len > 0) /\ xfer'.len # 0
      BY <2>2 DEF NoTransfer
    <3> QED
      BY <1>1, <1>2, <1>3, <2>2, <3>1 DEF Progress
  <2> QED
    BY <2>1, <2>2
<1> QED
  BY <1>4, <1>5 DEF ReplyInv

\* Before the first reply.
LEMMA InitReplies == ASSUME Init PROVE ReplyInv
<1>1. TypeOK
  <2>1. heard \in Seq(0 .. 255)
    BY EmptySeq DEF Init
  <2>2. NoTransfer \in [from : 0 .. BufferSize - 1, len : -1 .. PacketSize]
    BY SizeAssumption DEF NoTransfer
  <2>3. rspBuffer \in [0 .. BufferSize - 1 -> 0 .. 255]
    BY DEF Init, Nul
  <2>4. data \in 0 .. BufferSize /\ len \in 0 .. BufferSize /\ lastPacket \in 0 .. PacketSize
    BY SizeAssumption DEF Init
  <2> QED
    BY <2>1, <2>2, <2>3, <2>4 DEF Init, TypeOK
<1>2. Progress
  BY SizeAssumption DEF Init, Progress, NoTransfer
<1> QED
  BY <1>1, <1>2 DEF ReplyInv

\* The digits of the checksum are those of the sum itself.
LEMMA DigitsOfTheSum ==
    ASSUME reply \in Seq(Nat)
    PROVE  LET digit(d) == <<48, 49, 50, 51, 52, 53, 54, 55, 56, 57,
                             97, 98, 99, 100, 101, 102>>[d + 1]
           IN  digit((Total(reply) \div 16) % 16) = High /\ digit(Total(reply) % 16) = Low
<1> DEFINE digit(d) == <<48, 49, 50, 51, 52, 53, 54, 55, 56, 57,
                         97, 98, 99, 100, 101, 102>>[d + 1]
<1>1. \A d \in 0 .. 15 : digit(d) = HexDigit(d)
  <2> DEFINE digits == <<48, 49, 50, 51, 52, 53, 54, 55, 56, 57, 97, 98, 99, 100, 101, 102>>
  <2>1. /\ digits[1] = 48 /\ digits[2] = 49 /\ digits[3] = 50 /\ digits[4] = 51
        /\ digits[5] = 52 /\ digits[6] = 53 /\ digits[7] = 54 /\ digits[8] = 55
        /\ digits[9] = 56 /\ digits[10] = 57 /\ digits[11] = 97 /\ digits[12] = 98
        /\ digits[13] = 99 /\ digits[14] = 100 /\ digits[15] = 101 /\ digits[16] = 102
    OBVIOUS
  <2> HIDE DEF digits
  <2>2. \A d \in 0 .. 9 : digits[d + 1] = 48 + d
    <3>1. digits[0 + 1] = 48 + 0 /\ digits[1 + 1] = 48 + 1 /\ digits[2 + 1] = 48 + 2
      BY <2>1
    <3>2. digits[3 + 1] = 48 + 3 /\ digits[4 + 1] = 48 + 4 /\ digits[5 + 1] = 48 + 5
      BY <2>1
    <3>3. \A d \in 6 .. 9 : digits[d + 1] = 48 + d
      BY <2>1
    <3>4. \A d \in 0 .. 9 : d = 0 \/ d = 1 \/ d = 2 \/ d = 3 \/ d = 4 \/ d = 5 \/ d \in 6 .. 9
      OBVIOUS
    <3> QED
      BY <3>1, <3>2, <3>3, <3>4, Zenon
  <2>3. \A d \in 10 .. 15 : digits[d + 1] = 87 + d
    <3>1. \A d \in 10 .. 15 : d = 10 \/ d = 11 \/ d = 12 \/ d = 13 \/ d = 14 \/ d = 15
      OBVIOUS
    <3> QED
      BY <2>1, <3>1
  <2>4. (\A d \in 0 .. 9 : HexDigit(d) = 48 + d) /\ (\A d \in 10 .. 15 : HexDigit(d) = 87 + d)
    BY DEF HexDigit
  <2>5. \A d \in 0 .. 15 : d \in 0 .. 9 \/ d \in 10 .. 15
    OBVIOUS
  <2>6. \A d \in 0 .. 15 : digits[d + 1] = HexDigit(d)
    <3>1. ASSUME NEW d \in 0 .. 15 PROVE digits[d + 1] = HexDigit(d)
      <4>1. CASE d \in 0 .. 9
        BY <2>2, <2>4, <4>1, ZenonT(60)
      <4>2. CASE d \in 10 .. 15
        BY <2>3, <2>4, <4>2, ZenonT(60)
      <4> QED
        BY <2>5, <4>1, <4>2, Zenon
    <3> QED
      BY <3>1
  <2> QED
    BY <2>6, Zenon DEF digits
<1>2. Total(reply) \in Nat
  BY TotalIsNumber
<1>3. \A t \in Nat : (t \div 16) % 16 = (t % 256) \div 16 /\ (t \div 16) % 16 \in 0 .. 15
  OBVIOUS
<1>4. \A t \in Nat : t % 16 = (t % 256) % 16 /\ t % 16 \in 0 .. 15
  OBVIOUS
<1> HIDE DEF digit
<1>5. digit((Total(reply) \div 16) % 16) = High /\ digit(Total(reply) % 16) = Low
  <2> DEFINE t == Total(reply)
  <2>1. /\ (t \div 16) % 16 = (t % 256) \div 16 /\ (t \div 16) % 16 \in 0 .. 15
        /\ t % 16 = (t % 256) % 16 /\ t % 16 \in 0 .. 15
    BY <1>2, <1>3, <1>4, ZenonT(60)
  <2>2. High = HexDigit((t % 256) \div 16) /\ Low = HexDigit((t % 256) % 16)
    BY Zenon DEF High, Low, Checksum
  <2> QED
    <3>1. digit((t \div 16) % 16) = HexDigit((t \div 16) % 16) /\ digit(t % 16) = HexDigit(t % 16)
      BY <1>1, <2>1, Zenon
    <3>2. /\ HexDigit((t \div 16) % 16) = HexDigit((t % 256) \div 16)
          /\ HexDigit(t % 16) = HexDigit((t % 256) % 16)
      BY <2>1, Zenon
    <3> QED
      BY <2>2, <3>1, <3>2, Zenon
<1> QED
  BY <1>5, Zenon DEF digit

\* The frame of a reply, byte by byte, is its frame put together.
LEMMA WholeIs ==
    ASSUME TypeOK, HeardSoFar, Start + Heard = End
    PROVE  heard = Whole
<1> DEFINE plus   == IF noAck THEN <<>> ELSE <<Plus>>
           dollar == <<Dollar>>
           tail   == <<Sharp, High, Low, Bar>>
           head   == plus \o dollar
           front  == head \o reply
           whole  == front \o tail
<1>1. /\ Start \in 0 .. 1 /\ Size \in Nat /\ Heard \in Nat /\ End = Size + 6
      /\ reply \in Seq(0 .. 255) /\ reply \in Seq(Nat) /\ heard \in Seq(0 .. 255)
  <2>1. \A n \in Nat : \A i \in 0 .. n : i \in Nat
    OBVIOUS
  <2> QED
    BY <2>1, Numbers, Zenon DEF TypeOK
<1>2. /\ plus \in Seq(0 .. 255) /\ Len(plus) = 1 - Start /\ (Start = 0 => plus[1] = Plus)
      /\ dollar \in Seq(0 .. 255) /\ Len(dollar) = 1 /\ dollar[1] = Dollar
  <2>1. dollar \in Seq(0 .. 255) /\ Len(dollar) = 1 /\ dollar[1] = Dollar
    BY DEF Dollar
  <2>2. CASE noAck
    <3>1. plus = <<>> /\ Start = 1
      BY <2>2, Zenon DEF Start
    <3>2. <<>> \in Seq(0 .. 255) /\ Len(<<>>) = 0
      BY EmptySeq, Zenon
    <3> HIDE DEF plus, dollar
    <3> QED
      BY <2>1, <3>1, <3>2
  <2>3. CASE ~noAck
    <3>1. plus = <<Plus>> /\ Start = 0
      BY <2>3, Zenon DEF Start
    <3>2. <<Plus>> \in Seq(0 .. 255) /\ Len(<<Plus>>) = 1 /\ <<Plus>>[1] = Plus
      BY DEF Plus
    <3> HIDE DEF plus, dollar
    <3> QED
      BY <2>1, <3>1, <3>2
  <2> QED
    BY <2>2, <2>3, Zenon
<1>3. tail \in Seq(0 .. 255) /\ Len(tail) = 4
  BY <1>1, DigitsAreBytes DEF Sharp, Bar
<1> HIDE DEF plus, dollar, tail
<1>4. Joined(head, plus, 1 - Start, dollar, 1)
  BY <1>2, JoinIs, Zenon
<1>5. head \in Seq(0 .. 255) /\ Len(head) = 2 - Start
  BY <1>1, <1>4 DEF Joined
<1> HIDE DEF head
<1>6. Joined(front, head, 2 - Start, reply, Size)
  BY <1>1, <1>5, JoinIs, Zenon DEF Size
<1>7. front \in Seq(0 .. 255) /\ Len(front) = 2 - Start + Size
  BY <1>6 DEF Joined
<1> HIDE DEF front
<1>8. Joined(whole, front, 2 - Start + Size, tail, 4)
  BY <1>3, <1>7, JoinIs, Zenon
<1> HIDE DEF whole
<1>9. whole \in Seq(0 .. 255) /\ Len(whole) = Heard
  BY <1>1, <1>8 DEF Joined
<1>10. \A i \in 1 .. Heard : whole[i] = heard[i]
  <2>1. ASSUME NEW i \in 1 .. Heard PROVE whole[i] = Byte(Start + i - 1)
    <3> DEFINE j == Start + i - 1
    <3>1. j \in Nat /\ j < Size + 6 /\ i = j - Start + 1 /\ j >= Start
      BY <1>1
    <3> SUFFICES whole[i] = Byte(j)
      BY Zenon
    <3> HIDE DEF j
    <3>2. CASE j < 2
      <4>1. i \in 1 .. 2 - Start /\ i \in 1 .. 2 - Start + Size
        BY <1>1, <3>1, <3>2
      <4>2. whole[i] = head[i]
        BY <1>6, <1>8, <4>1, Zenon DEF Joined
      <4>3. CASE j = 0
        <5>1. Start = 0 /\ i = 1 /\ i \in 1 .. 1 - Start
          BY <1>1, <3>1, <4>3
        <5>2. head[i] = plus[i]
          BY <1>4, <5>1, Zenon DEF Joined
        <5>3. Byte(j) = Plus
          BY <4>3, Zenon DEF Byte
        <5> QED
          BY <1>2, <4>2, <5>1, <5>2, <5>3, Zenon
      <4>4. CASE j = 1
        <5>1. i \in (1 - Start) + 1 .. (1 - Start) + 1 /\ i - (1 - Start) = 1 /\ j # 0
          BY <1>1, <3>1, <4>4
        <5>2. head[i] = dollar[i - (1 - Start)]
          BY <1>4, <5>1, Zenon DEF Joined
        <5>3. Byte(j) = Dollar
          BY <4>4, <5>1 DEF Byte
        <5> QED
          BY <1>2, <4>2, <5>1, <5>2, <5>3, Zenon
      <4> QED
        BY <3>1, <3>2, <4>3, <4>4
    <3>3. CASE 2 =< j /\ j < 2 + Size
      <4>1. /\ i \in 1 .. 2 - Start + Size /\ i \in (2 - Start) + 1 .. (2 - Start) + Size
            /\ i - (2 - Start) = j - 1 /\ j # 0 /\ j # 1
        BY <1>1, <3>1, <3>3
      <4>2. whole[i] = front[i] /\ front[i] = reply[j - 1]
        BY <1>6, <1>8, <4>1, Zenon DEF Joined
      <4>3. Byte(j) = reply[j - 1]
        BY <3>3, <4>1 DEF Byte
      <4> QED
        BY <4>2, <4>3, Zenon
    <3>4. CASE 2 + Size =< j
      <4>1. /\ i \in (2 - Start + Size) + 1 .. (2 - Start + Size) + 4
            /\ i - (2 - Start + Size) = j - Size - 1 /\ j # 0 /\ j # 1 /\ ~(j < 2 + Size)
        BY <1>1, <3>1, <3>4
      <4>2. whole[i] = tail[j - Size - 1]
        BY <1>8, <4>1, Zenon DEF Joined
      <4>3. Byte(j) = tail[j - Size - 1]
        BY <4>1, Zenon DEF Byte, tail
      <4> QED
        BY <4>2, <4>3, Zenon
    <3> QED
      BY <1>1, <3>1, <3>2, <3>3, <3>4
  <2> QED
    BY <2>1, Zenon DEF HeardSoFar
<1>11. heard = whole
  BY <1>1, <1>9, <1>10, SeqEqual, Zenon DEF Heard
<1> QED
  BY <1>11, Zenon DEF whole, front, head, tail, dollar, plus, Whole

LEMMA ReplyInvSuffices == ASSUME ReplyInv PROVE HeardExact /\ EndsShort
<1>1. TypeOK /\ Progress
  BY DEF ReplyInv
<1>2. EndsShort
  BY <1>1 DEF Progress, EndsShort
<1>3. ASSUME rpc = "recv", reply # <<>> PROVE heard = Whole
  BY <1>1, <1>3, WholeIs DEF Progress
<1>4. reply \in Seq(Nat)
  BY <1>1, Numbers
<1>5. HeardExact
  BY <1>3, <1>4, DigitsOfTheSum, ZenonT(60) DEF HeardExact, Whole
<1> QED
  BY <1>2, <1>5

-----------------------------------------------------------------------------
(* The serial bridge.                                                       *)

\* A packet that waits was the whole cache, and the UART has been silent since,
\* unless the packet is spoiled.
SerialInv ==
    /\ index \in 0 .. PacketSize - 1 /\ xfer1 \in -1 .. PacketSize
    /\ cache \in [0 .. PacketSize - 1 -> 0 .. 255]
    /\ owed \in Seq(0 .. 255) /\ late \in BOOLEAN
    /\ ~late /\ xfer1 > 0 => index = 0
    /\ SerialExact

\* What is held is a sequence of that many bytes.
LEMMA HeldIs ==
    ASSUME SerialInv, NEW n \in 0 .. PacketSize
    PROVE  Held(n) \in Seq(0 .. 255) /\ Len(Held(n)) = n /\ (n = 0 => Held(n) = <<>>)
<1>1. n \in Nat /\ \A i \in 1 .. n : cache[i - 1] \in 0 .. 255
  <2>1. PacketSize \in Nat
    BY SizeAssumption
  <2>2. \A i \in 1 .. n : i - 1 \in 0 .. PacketSize - 1
    BY <2>1
  <2> QED
    BY <2>1, <2>2 DEF SerialInv
<1>2. Held(n) \in Seq(0 .. 255) /\ Len(Held(n)) = n
  BY <1>1 DEF Held
<1>3. \A s \in Seq(0 .. 255) : Len(s) = 0 => s = <<>>
  OBVIOUS
<1> QED
  BY <1>2, <1>3

\* A byte more in the cache.
LEMMA HeldGrows ==
    ASSUME SerialInv, NEW c \in 0 .. 255, cache' = [cache EXCEPT ![index] = c]
    PROVE  /\ cache' \in [0 .. PacketSize - 1 -> 0 .. 255]
           /\ Append(Held(index), c) = [i \in 1 .. index + 1 |-> cache'[i - 1]]
           /\ Append(Held(index), c) \in Seq(0 .. 255)
<1> DEFINE longer == Append(Held(index), c)
           held   == [i \in 1 .. index + 1 |-> cache'[i - 1]]
<1>1. index \in 0 .. PacketSize - 1 /\ cache \in [0 .. PacketSize - 1 -> 0 .. 255] /\ PacketSize \in Nat
  BY SizeAssumption DEF SerialInv
<1>2. cache' \in [0 .. PacketSize - 1 -> 0 .. 255]
      /\ \A j \in 0 .. PacketSize - 1 : cache'[j] = IF j = index THEN c ELSE cache[j]
  BY <1>1
<1>3. Held(index) \in Seq(0 .. 255) /\ Len(Held(index)) = index
      /\ \A i \in 1 .. index : Held(index)[i] = cache[i - 1]
  <2>1. index \in 0 .. PacketSize
    BY <1>1
  <2>2. \A i \in 1 .. index : Held(index)[i] = cache[i - 1]
    BY DEF Held
  <2> QED
    BY <2>1, <2>2, HeldIs
<1>4. longer \in Seq(0 .. 255) /\ Len(longer) = index + 1
      /\ \A i \in 1 .. index + 1 : longer[i] = IF i = index + 1 THEN c ELSE Held(index)[i]
  <2> DEFINE s == Held(index)
             m == index
  <2>1. s \in Seq(0 .. 255) /\ Len(s) = m /\ m \in Nat
    BY <1>1, <1>3
  <2> HIDE DEF s, m
  <2>2. Append(s, c) \in Seq(0 .. 255) /\ Len(Append(s, c)) = m + 1
        /\ \A i \in 1 .. m + 1 : Append(s, c)[i] = IF i = m + 1 THEN c ELSE s[i]
    BY <2>1
  <2> QED
    BY <2>2 DEF s, m
<1> HIDE DEF longer
<1>5. held \in Seq(0 .. 255) /\ Len(held) = index + 1
      /\ \A i \in 1 .. index + 1 : held[i] = cache'[i - 1]
  <2>1. index + 1 \in Nat /\ \A i \in 1 .. index + 1 : cache'[i - 1] \in 0 .. 255
    <3>1. \A i \in 1 .. index + 1 : i - 1 \in 0 .. PacketSize - 1
      BY <1>1
    <3> QED
      BY <1>1, <1>2, <3>1
  <2> DEFINE f == cache'
             m == index + 1
  <2>2. m \in Nat /\ \A i \in 1 .. m : f[i - 1] \in 0 .. 255
    BY <2>1
  <2> HIDE DEF f, m
  <2>3. [i \in 1 .. m |-> f[i - 1]] \in Seq(0 .. 255) /\ Len([i \in 1 .. m |-> f[i - 1]]) = m
        /\ \A i \in 1 .. m : [j \in 1 .. m |-> f[j - 1]][i] = f[i - 1]
    BY <2>2
  <2> QED
    BY <2>3, Zenon DEF f, m
<1> HIDE DEF held
<1>6. \A i \in 1 .. index + 1 : longer[i] = held[i]
  <2>1. ASSUME NEW i \in 1 .. index + 1 PROVE longer[i] = held[i]
    <3>1. i - 1 \in 0 .. PacketSize - 1 /\ (i = index + 1 <=> i - 1 = index)
          /\ (i # index + 1 => i \in 1 .. index)
      BY <1>1
    <3> QED
      BY <1>2, <1>3, <1>4, <1>5, <3>1
  <2> QED
    BY <2>1
<1>7. longer = held
  BY <1>4, <1>5, <1>6, SeqEqual
<1> QED
  BY <1>2, <1>4, <1>7 DEF longer, held

\* The packet that waits leaves nothing behind it, and what came late stays.
LEMMA GoneLeaves ==
    ASSUME SerialInv, Gone, xfer1 > 0, xfer1' \in {-1, 0}, index' = index, cache' = cache
    PROVE  SerialInv'
<1>1. /\ index \in 0 .. PacketSize - 1 /\ xfer1 \in 1 .. PacketSize /\ PacketSize \in Nat
      /\ index \in 0 .. PacketSize
  BY SizeAssumption DEF SerialInv
<1>2. Held(index)' = Held(index) /\ InFlight' = <<>>
  <2>1. ~(xfer1' > 0)
    OBVIOUS
  <2>2. Held(index)' = Held(index)
    BY DEF Held
  <2> QED
    BY <2>1, <2>2 DEF InFlight
<1>3. Held(index) \in Seq(0 .. 255) /\ (index = 0 => Held(index) = <<>>)
  BY <1>1, HeldIs
<1>4. owed' = Held(index)
  <2>1. CASE late
    BY <2>1 DEF Gone
  <2>2. CASE ~late
    <3>1. index = 0 /\ Held(index) = <<>> /\ owed = InFlight \o Held(index)
      BY <1>3, <2>2 DEF SerialInv, SerialExact
    <3>2. owed = InFlight /\ InFlight \in Seq(0 .. 255)
      <4>1. InFlight = Held(xfer1)
        BY DEF InFlight
      <4>2. xfer1 \in 0 .. PacketSize
        BY <1>1
      <4>3. InFlight \in Seq(0 .. 255)
        BY <4>1, <4>2, HeldIs
      <4> QED
        BY <3>1, <4>3, ConcatEmptySeq, Zenon
    <3>3. owed' = SubSeq(owed, Len(owed) + 1, Len(owed))
      BY <2>2, <3>2, Zenon DEF Gone
    <3>4. Len(owed) \in Nat
      BY <3>2
    <3>5. owed' = <<>>
      <4> DEFINE m == Len(owed)
      <4>1. m \in Nat /\ owed' = SubSeq(owed, m + 1, m)
        BY <3>3, <3>4
      <4> HIDE DEF m
      <4>2. m + 1 \in Int /\ m \in Int /\ m < m + 1
        BY <4>1
      <4> QED
        BY <4>1, <4>2, SubSeqEmpty, Zenon
    <3> QED
      BY <3>1, <3>5
  <2> QED
    BY <2>1, <2>2
<1>5. owed' = InFlight' \o Held(index)'
  <2>1. <<>> \o Held(index) = Held(index)
    BY <1>3, ConcatEmptySeq, Zenon
  <2> QED
    BY <1>2, <1>4, <2>1, Zenon
<1>6. SerialExact'
  BY <1>1, <1>5 DEF SerialExact
<1>7. late' = FALSE /\ ~(xfer1' > 0) /\ xfer1' \in -1 .. PacketSize /\ owed' \in Seq(0 .. 255)
  <2>1. late' = FALSE
    BY DEF Gone
  <2> QED
    BY <1>1, <1>3, <1>4, <2>1
<1> QED
  BY <1>6, <1>7 DEF SerialInv

\* The UART gets a byte.
LEMMA UartReceivesKeeps ==
    ASSUME SerialInv, NEW c \in Chars, UartReceives(c)
    PROVE  SerialInv'
<1> DEFINE full == index + 1 >= PacketSize \/ c = 10
<1>1. /\ index \in 0 .. PacketSize - 1 /\ xfer1 \in -1 .. PacketSize /\ PacketSize \in Nat
      /\ PacketSize > 0 /\ owed \in Seq(0 .. 255) /\ late \in BOOLEAN /\ c \in 0 .. 255
  BY SizeAssumption, CharAssumption DEF SerialInv
<1>2. /\ cache' = [cache EXCEPT ![index] = c]
      /\ index' = IF full THEN 0 ELSE index + 1
      /\ xfer1' = IF full /\ Configured THEN index + 1 ELSE xfer1
      /\ late' = (late \/ xfer1 > 0)
      /\ owed' = IF late' \/ (full /\ ~Configured) THEN <<>> ELSE Append(owed, c)
  BY DEF UartReceives, IndexAfter
<1> HIDE DEF full
<1>3. ~full => index + 1 =< PacketSize - 1
  BY <1>1 DEF full
<1>4. /\ cache' \in [0 .. PacketSize - 1 -> 0 .. 255]
      /\ Append(Held(index), c) = [i \in 1 .. index + 1 |-> cache'[i - 1]]
      /\ Append(Held(index), c) \in Seq(0 .. 255)
  BY <1>1, <1>2, HeldGrows
<1>5. /\ index' \in 0 .. PacketSize - 1 /\ xfer1' \in -1 .. PacketSize /\ late' \in BOOLEAN
      /\ owed' \in Seq(0 .. 255)
  <2>1. owed' \in Seq(0 .. 255)
    <3>1. <<>> \in Seq(0 .. 255) /\ Append(owed, c) \in Seq(0 .. 255)
      BY <1>1, EmptySeq
    <3> QED
      BY <1>2, <3>1
  <2> QED
    BY <1>1, <1>2, <1>3, <2>1
<1>6. ASSUME ~late' PROVE xfer1' > 0 => index' = 0
  <2>1. ~(xfer1 > 0)
    BY <1>2, <1>6
  <2> QED
    BY <1>2, <2>1
<1>7. ASSUME ~late' PROVE owed' = InFlight' \o Held(index)'
  <2>1. ~late /\ ~(xfer1 > 0)
    BY <1>2, <1>7
  <2>2. owed = Held(index)
    <3>1. InFlight = <<>> /\ owed = InFlight \o Held(index)
      BY <2>1 DEF InFlight, SerialInv, SerialExact
    <3>2. index \in 0 .. PacketSize
      BY <1>1
    <3>3. Held(index) \in Seq(0 .. 255)
      BY <3>2, HeldIs
    <3> QED
      BY <3>1, <3>3, ConcatEmptySeq, Zenon
  <2> DEFINE more == Append(Held(index), c)
  <2>3. more \in Seq(0 .. 255) /\ more = [i \in 1 .. index + 1 |-> cache'[i - 1]]
    BY <1>4
  <2> HIDE DEF more
  <2>4. <<>> \o more = more /\ more \o <<>> = more /\ <<>> \o <<>> = <<>>
    <3>1. <<>> \in Seq(0 .. 255)
      BY EmptySeq
    <3> QED
      BY <2>3, <3>1, ConcatEmptySeq, Zenon
  <2>5. \A f : [i \in 1 .. 0 |-> f[i - 1]] = <<>>
    OBVIOUS
  <2>6. index' = 0 => Held(index)' = <<>>
    BY <2>5 DEF Held
  <2>7. CASE full /\ Configured
    <3>1. xfer1' = index + 1 /\ index' = 0 /\ owed' = more
      BY <1>2, <1>7, <2>2, <2>7, Zenon DEF more
    <3>2. InFlight' = more
      <4>1. xfer1' > 0
        BY <1>1, <3>1
      <4>2. InFlight' = [i \in 1 .. xfer1' |-> cache'[i - 1]]
        BY <4>1 DEF InFlight, Held
      <4> QED
        BY <2>3, <3>1, <4>2
    <3> QED
      BY <2>4, <2>6, <3>1, <3>2, Zenon
  <2>8. CASE full /\ ~Configured
    <3>1. xfer1' = xfer1 /\ index' = 0 /\ owed' = <<>>
      BY <1>2, <2>8, Zenon
    <3>2. InFlight' = <<>>
      BY <2>1, <3>1 DEF InFlight
    <3> QED
      BY <2>4, <2>6, <3>1, <3>2, Zenon
  <2>9. CASE ~full
    <3>1. xfer1' = xfer1 /\ index' = index + 1 /\ owed' = more
      BY <1>2, <1>7, <2>2, <2>9, Zenon DEF more
    <3>2. InFlight' = <<>>
      BY <2>1, <3>1 DEF InFlight
    <3>3. Held(index)' = more
      BY <2>3, <3>1 DEF Held
    <3> QED
      BY <2>4, <3>1, <3>2, <3>3, Zenon
  <2> QED
    BY <2>7, <2>8, <2>9, Zenon
<1>8. SerialExact'
  BY <1>1, <1>5, <1>7 DEF SerialExact
<1> QED
  BY <1>4, <1>5, <1>6, <1>8 DEF SerialInv

\* The host takes a packet of the bridge.
LEMMA SerialInKeeps == ASSUME SerialInv, SerialIn PROVE SerialInv'
<1>1. /\ xfer1 >= 0 /\ xfer1' \in {-1, 0} /\ cache' = cache /\ index' = index
      /\ IF xfer1 > 0 THEN Gone ELSE late' = late /\ owed' = owed
  BY DEF SerialIn
<1>2. CASE xfer1 > 0
  BY <1>1, <1>2, GoneLeaves
<1>3. CASE ~(xfer1 > 0)
  <2>1. ~(xfer1' > 0) /\ xfer1' \in -1 .. PacketSize
    BY <1>1, SizeAssumption
  <2>2. InFlight' = InFlight /\ Held(index)' = Held(index)
    BY <1>1, <1>3, <2>1 DEF InFlight, Held
  <2>3. SerialExact'
    <3>1. late' = late /\ owed' = owed /\ index' = index
      BY <1>1, <1>3
    <3> QED
      BY <2>2, <3>1, Zenon DEF SerialInv, SerialExact
  <2>4. late' = late /\ owed' = owed /\ index' = index /\ cache' = cache
    BY <1>1, <1>3
  <2> QED
    BY <2>1, <2>3, <2>4 DEF SerialInv
<1> QED
  BY <1>2, <1>3

\* Nothing happens to the bridge.
LEMMA SerialStays == ASSUME SerialInv, UNCHANGED serialVars PROVE SerialInv'
<1>1. cache' = cache /\ index' = index /\ xfer1' = xfer1 /\ owed' = owed /\ late' = late
  BY DEF serialVars
<1>2. InFlight' = InFlight /\ Held(index)' = Held(index)
  BY <1>1 DEF InFlight, Held
<1> QED
  BY <1>1, <1>2 DEF SerialInv, SerialExact

-----------------------------------------------------------------------------
(* The control endpoint.                                                    *)

\* The rate that the bytes of a coding mean.
RateOf(b) == b[1] + 256 * b[2] + 65536 * b[3] + 16777216 * b[4]

\* The device keeps the coding the host set last, and a transfer the host is at
\* finds in cdc_cmd and usb_cmd_buffer what belongs to it.
ControlInv ==
    /\ asked.bytes \in [1 .. 7 -> 0 .. 255] /\ asked.rate = RateOf(asked.bytes)
    /\ rate = asked.rate /\ linecoding = Coding(asked.bytes)
    /\ told \in {<<>>, asked.bytes}
    /\ control = "set" => cdc_cmd = SET_LINE_CODING
    /\ control = "get" => usb_cmd_buffer = asked.bytes

\* The bytes of a number of four bytes.
IsNumber(n, p, q, s, t) == n = p + 256 * q + 65536 * s + 16777216 * t
HasBytes(n, p, q, s, t) ==
    /\ (n \div 1) % 256 = p /\ (n \div 256) % 256 = q
    /\ (n \div 65536) % 256 = s /\ (n \div 16777216) % 256 = t

LEMMA BytesOf ==
    ASSUME NEW p \in 0 .. 255, NEW q \in 0 .. 255, NEW s \in 0 .. 255, NEW t \in 0 .. 255,
           NEW n \in Int, IsNumber(n, p, q, s, t)
    PROVE  HasBytes(n, p, q, s, t)
<1> USE DEF IsNumber
<1>1. (n \div 1) % 256 = p
  <2>1. n \div 1 = n
    BY SMT
  <2>2. n % 256 = p
    BY SMT
  <2> QED
    BY <2>1, <2>2, SMT
<1>2. (n \div 256) % 256 = q
  <2>1. n \div 256 = q + 256 * (s + 256 * t)
    BY SMT
  <2>2. (q + 256 * (s + 256 * t)) % 256 = q
    BY SMT
  <2> QED
    BY <2>1, <2>2, SMT
<1>3. (n \div 65536) % 256 = s
  <2>1. n \div 65536 = s + 256 * t
    BY SMT
  <2>2. (s + 256 * t) % 256 = s
    BY SMT
  <2> QED
    BY <2>1, <2>2, SMT
<1>4. (n \div 16777216) % 256 = t
  <2>1. n \div 16777216 = t
    BY SMT
  <2>2. t % 256 = t
    BY SMT
  <2> QED
    BY <2>1, <2>2, SMT
<1> QED
  BY <1>1, <1>2, <1>3, <1>4, SMT DEF HasBytes

\* A coding read back is the coding that was written.
LEMMA CodedIsBack ==
    ASSUME NEW b \in [1 .. 7 -> 0 .. 255]
    PROVE  Coded(Coding(b)) = b
<1> DEFINE r     == RateOf(b)
           power == <<1, 256, 65536, 16777216>>
           four  == [i \in 1 .. 4 |-> (r \div power[i]) % 256]
           rest  == SubSeq(b, 5, 7)
<1>1. \A i \in 1 .. 7 : b[i] \in 0 .. 255
  OBVIOUS
<1>2. /\ (r \div 1) % 256 = b[1] /\ (r \div 256) % 256 = b[2]
      /\ (r \div 65536) % 256 = b[3] /\ (r \div 16777216) % 256 = b[4]
  <2>1. b[1] \in 0 .. 255 /\ b[2] \in 0 .. 255 /\ b[3] \in 0 .. 255 /\ b[4] \in 0 .. 255
    BY <1>1, SMT
  <2>2. r = b[1] + 256 * b[2] + 65536 * b[3] + 16777216 * b[4]
    BY SMT DEF RateOf
  <2> HIDE DEF r
  <2>3. r \in Int
    BY <2>1, <2>2, SMT
  <2> QED
    <3>1. IsNumber(r, b[1], b[2], b[3], b[4])
      BY <2>2, SMT DEF IsNumber
    <3>2. HasBytes(r, b[1], b[2], b[3], b[4])
      BY <2>1, <2>3, <3>1, BytesOf, Zenon
    <3> QED
      BY <3>2, SMT DEF HasBytes
<1>3. power[1] = 1 /\ power[2] = 256 /\ power[3] = 65536 /\ power[4] = 16777216
  BY SMT
<1> HIDE DEF r, power
<1>4. \A i \in 1 .. 4 : (r \div power[i]) % 256 = b[i]
  <2>1. \A i \in 1 .. 4 : i = 1 \/ i = 2 \/ i = 3 \/ i = 4
    OBVIOUS
  <2> QED
    BY <1>2, <1>3, <2>1, SMT
<1>5. four = [i \in 1 .. 4 |-> b[i]]
  BY <1>4
<1>6. four \in Seq(0 .. 255) /\ Len(four) = 4 /\ \A i \in 1 .. 4 : four[i] = b[i]
  <2> DEFINE g == [i \in 1 .. 4 |-> b[i]]
  <2>1. g \in Seq(0 .. 255) /\ Len(g) = 4 /\ \A i \in 1 .. 4 : g[i] = b[i]
    BY <1>1
  <2> QED
    BY <1>5, <2>1, Zenon
<1>7. rest \in Seq(0 .. 255) /\ Len(rest) = 3 /\ \A i \in 1 .. 3 : rest[i] = b[i + 4]
  <2>1. \A i \in 5 .. 7 : b[i] \in 0 .. 255
    BY <1>1
  <2>2. /\ rest \in Seq(0 .. 255) /\ Len(rest) = (IF 5 =< 7 THEN 7 - 5 + 1 ELSE 0)
        /\ \A i \in 1 .. 7 - 5 + 1 : rest[i] = b[5 + i - 1]
    BY <2>1, SubSeqProperties
  <2> HIDE DEF rest
  <2>3. \A i \in 1 .. 3 : 5 + i - 1 = i + 4 /\ i \in 1 .. 7 - 5 + 1
    OBVIOUS
  <2>4. (IF 5 =< 7 THEN 7 - 5 + 1 ELSE 0) = 3
    OBVIOUS
  <2>5. \A i \in 1 .. 3 : rest[i] = b[i + 4]
    BY <2>2, <2>3
  <2> QED
    BY <2>2, <2>4, <2>5, Zenon
<1>8. Coded(Coding(b)) = four \o rest
  <2> DEFINE c == Coding(b)
             F(x, y) == [i \in 1 .. 4 |-> (x \div power[i]) % 256] \o y
  <2>1. c.dwDTERate = r /\ c.format = rest
    BY DEF Coding, RateOf, r
  <2> HIDE DEF c
  <2>2. Coded(c) = F(c.dwDTERate, c.format)
    BY DEF Coded, power
  <2>3. F(c.dwDTERate, c.format) = F(r, rest)
    <3> HIDE DEF F
    <3> QED
      BY <2>1, Zenon
  <2> QED
    BY <2>2, <2>3, Zenon DEF c
<1> HIDE DEF four, rest
<1>9. Joined(four \o rest, four, 4, rest, 3)
  BY <1>6, <1>7, JoinIs
<1> DEFINE u == four \o rest
<1>10. u \in Seq(0 .. 255) /\ Len(u) = 7 /\ (\A i \in 1 .. 4 : u[i] = four[i])
       /\ \A i \in 5 .. 7 : u[i] = rest[i - 4]
  BY <1>9, SMTT(30) DEF Joined
<1> HIDE DEF u
<1>11. \A i \in 1 .. 7 : u[i] = b[i]
  <2>1. ASSUME NEW i \in 1 .. 4 PROVE u[i] = b[i]
    BY <1>6, <1>10, Zenon
  <2>2. ASSUME NEW i \in 5 .. 7 PROVE u[i] = b[i]
    <3>1. i - 4 \in 1 .. 3 /\ (i - 4) + 4 = i
      OBVIOUS
    <3> QED
      BY <1>7, <1>10, <3>1, Zenon
  <2>3. \A i \in 1 .. 7 : i \in 1 .. 4 \/ i \in 5 .. 7
    OBVIOUS
  <2> QED
    BY <2>1, <2>2, <2>3
<1>12. b \in Seq(0 .. 255) /\ Len(b) = 7
  <2>1. \A n \in Nat : \A f \in [1 .. n -> 0 .. 255] : f \in Seq(0 .. 255) /\ Len(f) = n
    OBVIOUS
  <2>2. 7 \in Nat
    OBVIOUS
  <2> QED
    BY <2>1, <2>2, Zenon
<1>13. u = b
  BY <1>10, <1>11, <1>12, SeqEqual
<1> QED
  BY <1>8, <1>13, Zenon DEF u

\* The host starts a control transfer.
LEMMA RequestKeeps ==
    ASSUME ControlInv, NEW request \in {"set", "get", "state"}, cdc_acm_req_handler(request)
    PROVE  ControlInv'
<1>1. Coded(linecoding) = asked.bytes
  BY CodedIsBack DEF ControlInv
<1>2. SET_LINE_CODING = 32
  BY DEF SET_LINE_CODING
<1>3. /\ control' = (IF request = "state" THEN "idle" ELSE request)
      /\ cdc_cmd' = (IF request = "set" THEN SET_LINE_CODING ELSE cdc_cmd)
      /\ usb_cmd_buffer' = (IF request = "get" THEN Coded(linecoding) ELSE usb_cmd_buffer)
      /\ linecoding' = linecoding /\ rate' = rate /\ asked' = asked /\ told' = told
  BY DEF cdc_acm_req_handler
<1>4. control' = "set" => cdc_cmd' = SET_LINE_CODING
  BY <1>3
<1>5. control' = "get" => usb_cmd_buffer' = asked'.bytes
  BY <1>1, <1>3
<1> QED
  BY <1>3, <1>4, <1>5 DEF ControlInv

\* The host has sent a coding.
LEMMA DataOutKeeps ==
    ASSUME ControlInv, NEW coding \in Codings, DataOut(coding)
    PROVE  ControlInv'
<1>1. cdc_cmd = SET_LINE_CODING
  BY DEF ControlInv, DataOut
<1>2. /\ control' = "idle" /\ asked' = coding /\ told' = <<>>
      /\ linecoding' = Coding(coding.bytes) /\ rate' = linecoding'.dwDTERate
  BY <1>1 DEF DataOut
<1>3. coding.bytes \in [1 .. 7 -> 0 .. 255] /\ coding.rate = RateOf(coding.bytes)
  BY CodingAssumption, SMTT(30) DEF RateOf
<1>4. rate' = coding.rate
  BY <1>2, <1>3 DEF Coding, RateOf
<1> QED
  BY <1>2, <1>3, <1>4 DEF ControlInv

\* The host has the answer.
LEMMA AnsweredKeeps == ASSUME ControlInv, Answered PROVE ControlInv'
<1>1. /\ control = "get" /\ control' = "idle" /\ told' = usb_cmd_buffer /\ linecoding' = linecoding
      /\ rate' = rate /\ asked' = asked
  BY DEF Answered
<1> QED
  BY <1>1 DEF ControlInv

\* Nothing happens to the control endpoint, or the transfer is given up.
LEMMA ControlStays ==
    ASSUME ControlInv, control' \in {control, "idle"}, cdc_cmd' = cdc_cmd,
           usb_cmd_buffer' = usb_cmd_buffer, linecoding' = linecoding, rate' = rate,
           asked' = asked, told' = told
    PROVE  ControlInv'
BY DEF ControlInv

-----------------------------------------------------------------------------
(* The device.                                                              *)

IInv == ReplyInv /\ SerialInv /\ ControlInv

LEMMA InitInv == ASSUME DeviceInit PROVE IInv
<1>1. ReplyInv
  BY InitReplies DEF DeviceInit
<1>2. SerialInv
  <2>1. /\ cache = [i \in 0 .. PacketSize - 1 |-> 0] /\ index = 0 /\ xfer1 = -1
        /\ owed = <<>> /\ late = FALSE /\ PacketSize \in Nat /\ PacketSize > 0
    BY SizeAssumption DEF DeviceInit
  <2>2. InFlight = <<>> /\ Held(index) = <<>>
    <3>1. \A f : [i \in 1 .. 0 |-> f[i - 1]] = <<>>
      OBVIOUS
    <3> QED
      BY <2>1, <3>1 DEF InFlight, Held
  <2>3. <<>> \in Seq(0 .. 255) /\ <<>> \o <<>> = <<>>
    BY EmptySeq, ConcatEmptySeq, Zenon
  <2>4. SerialExact
    BY <2>1, <2>2, <2>3 DEF SerialExact
  <2>5. cache \in [0 .. PacketSize - 1 -> 0 .. 255]
    BY <2>1
  <2> QED
    <3>1. index \in 0 .. PacketSize - 1 /\ xfer1 \in -1 .. PacketSize /\ ~(xfer1 > 0)
      BY <2>1
    <3>2. owed \in Seq(0 .. 255) /\ late \in BOOLEAN
      BY <2>1, <2>3
    <3> QED
      BY <2>4, <2>5, <3>1, <3>2, Zenon DEF SerialInv
<1>3. ControlInv
  <2>1. /\ asked = Default /\ rate = Default.rate /\ linecoding = Coding(Default.bytes)
        /\ told = <<>> /\ control = "idle"
    BY DEF DeviceInit
  <2>2. Default.bytes \in [1 .. 7 -> 0 .. 255] /\ Default.rate = RateOf(Default.bytes)
    BY DEF Default, RateOf
  <2> QED
    BY <2>1, <2>2 DEF ControlInv
<1> QED
  BY <1>1, <1>2, <1>3 DEF IInv

LEMMA NextInv == ASSUME IInv, [DeviceNext]_allVars PROVE IInv'
<1> USE DEF IInv
<1>1. ASSUME UNCHANGED vars PROVE ReplyInv'
  BY <1>1, LossKeeps DEF vars
<1>2. ASSUME UNCHANGED controlVars PROVE ControlInv'
  BY <1>2, ControlStays DEF controlVars
<1>3. ASSUME UNCHANGED deviceVars PROVE SerialInv' /\ ControlInv'
  BY <1>2, <1>3, SerialStays DEF deviceVars
<1>4. CASE Replying(Configured /\ ServerReplies) \/ Replying(Frame) \/ Replying(Configured /\ Send)
           \/ Replying(DataIn) \/ Replying(Wait)
  BY <1>3, <1>4, ServerRepliesKeeps, FrameKeeps, SendKeeps, DataInKeeps, WaitKeeps, Zenon DEF Replying
<1>5. ASSUME NEW c \in Chars, UartReceives(c) PROVE IInv'
  <2>1. UNCHANGED vars /\ UNCHANGED controlVars
    BY <1>5 DEF UartReceives
  <2> QED
    BY <1>1, <1>2, <1>5, <2>1, UartReceivesKeeps, Zenon
<1>6. CASE SerialIn
  <2>1. UNCHANGED vars /\ UNCHANGED controlVars
    BY <1>6 DEF SerialIn
  <2> QED
    BY <1>1, <1>2, <1>6, <2>1, SerialInKeeps, Zenon
<1>7. ASSUME NEW request \in {"set", "get", "state"}, cdc_acm_req_handler(request) PROVE IInv'
  <2>1. UNCHANGED vars /\ UNCHANGED serialVars
    BY <1>7 DEF cdc_acm_req_handler
  <2> QED
    BY <1>1, <1>7, <2>1, RequestKeeps, SerialStays, Zenon
<1>8. ASSUME NEW coding \in Codings, DataOut(coding) PROVE IInv'
  <2>1. UNCHANGED vars /\ UNCHANGED serialVars
    BY <1>8 DEF DataOut
  <2> QED
    BY <1>1, <1>8, <2>1, DataOutKeeps, SerialStays, Zenon
<1>9. CASE Answered
  <2>1. UNCHANGED vars /\ UNCHANGED serialVars
    BY <1>9 DEF Answered
  <2> QED
    BY <1>1, <1>9, <2>1, AnsweredKeeps, SerialStays, Zenon
<1>10. CASE cdc_acm_init
  <2>1. UNCHANGED vars /\ UNCHANGED serialVars /\ UNCHANGED controlVars
    BY <1>10 DEF cdc_acm_init
  <2> QED
    BY <1>1, <1>2, <2>1, SerialStays, Zenon
<1>11. CASE cdc_acm_deinit
  <2>1. ReplyInv'
    BY <1>11, LossKeeps DEF cdc_acm_deinit
  <2>2. ControlInv'
    BY <1>11, ControlStays DEF cdc_acm_deinit
  <2>3. /\ xfer1' = -1 /\ cache' = cache /\ index' = index
        /\ IF xfer1 > 0 THEN Gone ELSE late' = late /\ owed' = owed
    BY <1>11 DEF cdc_acm_deinit
  <2>4. SerialInv'
    <3>1. CASE xfer1 > 0
      BY <2>3, <3>1, GoneLeaves
    <3>2. CASE ~(xfer1 > 0)
      <4>1. ~(xfer1' > 0) /\ xfer1' \in -1 .. PacketSize
        BY <2>3, SizeAssumption
      <4>2. InFlight' = InFlight /\ Held(index)' = Held(index)
        BY <2>3, <3>2, <4>1 DEF InFlight, Held
      <4>3. late' = late /\ owed' = owed /\ index' = index /\ cache' = cache
        BY <2>3, <3>2
      <4>4. SerialExact'
        BY <4>2, <4>3, Zenon DEF SerialInv, SerialExact
      <4> QED
        BY <4>1, <4>3, <4>4 DEF SerialInv
    <3> QED
      BY <3>1, <3>2
  <2> QED
    BY <2>1, <2>2, <2>4
<1>12. CASE UNCHANGED allVars
  <2>1. UNCHANGED vars /\ UNCHANGED deviceVars
    BY <1>12 DEF allVars
  <2> QED
    BY <1>1, <1>3, <2>1, Zenon
<1> QED
  BY <1>4, <1>5, <1>6, <1>7, <1>8, <1>9, <1>10, <1>11, <1>12, Zenon DEF DeviceNext

\* The inductive invariant of the whole device.
THEOREM Invariant == DeviceSpec => []IInv
<1>1. DeviceInit => IInv
  BY InitInv
<1>2. IInv /\ [DeviceNext]_allVars => IInv'
  BY NextInv
<1> QED
  BY <1>1, <1>2, PTL DEF DeviceSpec

\* Every variable of the reply task keeps its type: gdb_rsp_packet_vTask never
\* puts a byte of a frame outside rsp_buffer.
THEOREM TypeCorrect == DeviceSpec => []TypeOK
<1>1. IInv => TypeOK
  BY DEF IInv, ReplyInv
<1> QED
  BY <1>1, Invariant, PTL

\* The host hears every reply as its frame, byte for byte, with the checksum of
\* gdb_packet_checksum, however the endpoint cuts it into packets.
THEOREM RepliesAreHeard == DeviceSpec => []HeardExact
<1>1. IInv => HeardExact
  BY ReplyInvSuffices DEF IInv
<1> QED
  BY <1>1, Invariant, PTL

\* A frame ends in a short packet: cdc_acm_data_in_handler puts an empty one
\* behind a full one.
THEOREM FramesEndShort == DeviceSpec => []EndsShort
<1>1. IInv => EndsShort
  BY ReplyInvSuffices DEF IInv
<1> QED
  BY <1>1, Invariant, PTL

\* The serial bridge loses and changes no byte the UART receives, apart from a
\* packet that USART0_IRQHandler overwrites or a reset of the bus takes away.
THEOREM BytesReachTheHost == DeviceSpec => []SerialExact
<1>1. IInv => SerialExact
  BY DEF IInv, SerialInv
<1> QED
  BY <1>1, Invariant, PTL

\* The UART has the line coding the host set last and the host is told that one,
\* whatever control transfers it gave up.
THEOREM CodingIsKept == DeviceSpec => []LineHeld
<1>1. IInv => LineHeld
  BY DEF IInv, ControlInv, LineHeld
<1> QED
  BY <1>1, Invariant, PTL
=============================================================================
