--------------------------- MODULE CmdPacketProofs ---------------------------
(***************************************************************************)
(* The safety of CmdPacket for every text, every payload and packet size   *)
(* and every way USB cuts the stream.  The command task keeps no more of   *)
(* the stream than two positions and a length; the invariant Streaming     *)
(* says what they are worth while a command is on its way, and Resting     *)
(* what may be left of the command before.                                 *)
(***************************************************************************)
EXTENDS CmdPacket, SequenceTheorems, TLAPS

\* Bytes of the packet that has come, of the wire, and of the payload.
Here  == Len(temp)
Left  == Len(wire)
Asked == Len(payload)

\* What lies in front of "$": the digits of the last checksum, and "+".  The
\* stream begins with this round of the task and ends with the last digits.
Before == total + Here + Left - Asked - 4

\* b can be byte i of the stream while a command is on its way.
Framed(i, b) ==
    /\ i =< Before => b \in {"h", "+"}
    /\ i = Before + 1 => b = "$"
    /\ i \in Before + 2 .. Before + 1 + Asked => b = payload[i - Before - 1]
    /\ i = Before + 2 + Asked => b = "#"
    /\ i > Before + 2 + Asked => b = "h"

\* A command has been asked, and "#" not been found: the task knows where "$"
\* is if it has passed it, and has the payload it passed in cmd_buffer.
Streaming ==
    /\ Before \in 0 .. 3
    /\ total =< Before + 1 + Asked
    /\ \A i \in 1 .. Here : Framed(total + i, temp[i])
    /\ \A i \in 1 .. Left : Framed(total + Here + i, wire[i])
    /\ dollar = IF total > Before THEN Before ELSE -1
    /\ \A i \in 1 .. Asked : Before + i < total => cmdBuffer[Before + i] = payload[i]

\* Between "#" and the next command at most the two digits are left.
Resting ==
    /\ total + Here + Left =< 2
    /\ \A i \in 1 .. Here : temp[i] = "h"
    /\ \A i \in 1 .. Left : wire[i] = "h"
    /\ dollar = -1

\* The endpoint is armed only when its packet has been looked at.
OnePacket ==
    /\ armed => ~received
    /\ ~received => temp = <<>>
    /\ received => temp # <<>>

IInv ==
    /\ TypeOK
    /\ OnePacket
    /\ sharp = -1
    /\ IF payload # <<>> /\ taken = <<>> THEN Streaming ELSE Resting
    /\ taken # <<>> => payload # <<>> /\ taken = payload

-----------------------------------------------------------------------------
(* Lengths, and the search for a byte.                                      *)

\* A payload is a short sequence of text bytes, and not an empty one.
LEMMA PayloadIs ==
    ASSUME NEW p \in Payloads
    PROVE  /\ p \in Seq(Text) /\ p # <<>>
           /\ Len(p) \in 1 .. MaxPayload
           /\ \A i \in 1 .. Len(p) : p[i] \in Text
BY SizeAssumption DEF Payloads

\* The lengths are numbers.
LEMMA Lengths ==
    ASSUME TypeOK
    PROVE  /\ total \in Nat /\ Here \in Nat /\ Left \in Nat /\ Asked \in 0 .. MaxPayload
           /\ MaxPayload \in Nat /\ BufferSize \in Nat /\ BufferSize >= MaxPayload + 7
           /\ payload # <<>> => Asked > 0 /\ \A i \in 1 .. Asked : payload[i] \in Text
           /\ temp # <<>> => Here > 0
           /\ temp = <<>> => Here = 0
<1>1. total \in Nat /\ MaxPayload \in Nat /\ BufferSize \in Nat /\ BufferSize >= MaxPayload + 7
  BY SizeAssumption DEF TypeOK
<1>2. Here \in Nat /\ Left \in Nat /\ (temp # <<>> => Here > 0) /\ (temp = <<>> => Here = 0)
  BY EmptySeq DEF TypeOK, Here, Left
<1>3. CASE payload = <<>>
  BY <1>1, <1>2, <1>3 DEF Asked
<1>4. CASE payload \in Payloads
  BY <1>1, <1>2, <1>4, PayloadIs DEF Asked
<1> QED
  BY <1>3, <1>4 DEF TypeOK

\* A byte that is not in temp is not found.
LEMMA NotFound ==
    ASSUME NEW b, NEW before, \A i \in 1 .. Here : temp[i] # b
    PROVE  Find(b, before) = before
BY DEF Find, Here

\* A byte that was found is not looked for again.
LEMMA FoundBefore ==
    ASSUME NEW b, NEW before, before # -1
    PROVE  Find(b, before) = before
BY DEF Find

\* The first such byte in temp is found, at its place in the stream.
LEMMA FoundFirst ==
    ASSUME Here \in Nat, NEW b, NEW k \in 1 .. Here, temp[k] = b,
           \A i \in 1 .. k - 1 : temp[i] # b
    PROVE  Find(b, -1) = total + k - 1
<1> DEFINE here == {i \in 1 .. Here : temp[i] = b}
           first(i) == i \in here /\ \A j \in here : i =< j
<1>2. first(k)
  OBVIOUS
<1>3. \A i : first(i) => i = k
  BY <1>2
<1>4. (CHOOSE i \in here : \A j \in here : i =< j) = k
  BY <1>2, <1>3
<1>5. here # {}
  BY <1>2
<1> HIDE DEF here
<1>6. Find(b, -1) = total + (CHOOSE i \in here : \A j \in here : i =< j) - 1
  BY <1>5 DEF Find, here, Here
<1> QED
  BY <1>4, <1>6

-----------------------------------------------------------------------------
(* Step by step.                                                            *)

\* The host asks: what is left of the last command is the head of the stream.
LEMMA HostAsksKeeps == ASSUME IInv, HostAsks PROVE IInv'
<1>1. PICK p \in Payloads, ack \in {<<>>, <<"+">>} :
         payload' = p /\ wire' = wire \o ack \o <<"$">> \o p \o <<"#", "h", "h">>
  BY DEF HostAsks
<1>2. p \in Seq(Text) /\ p # <<>> /\ \A i \in 1 .. Len(p) : p[i] \in Text
  BY PayloadIs
<1>3. /\ TypeOK /\ OnePacket /\ sharp = -1 /\ payload = <<>> /\ taken = <<>> /\ Resting
      /\ UNCHANGED <<armed, received, temp, dollar, sharp, total, cmdBuffer, taken>>
  BY DEF IInv, HostAsks
<1>4. total \in Nat /\ Here \in Nat /\ Left \in Nat /\ Here' = Here
      /\ wire \in Seq(Bytes) /\ \A i \in 1 .. Here : temp[i] = "h"
  BY <1>3, Lengths DEF TypeOK, Here, Resting
<1> DEFINE front == wire \o ack
           k == Len(front)
           mid == front \o <<"$">>
           most == mid \o p
           m == Len(most)
<1>5. /\ front \in Seq(Bytes) /\ k \in Left .. Left + 1 /\ k \in Nat
      /\ \A i \in 1 .. k : front[i] \in {"h", "+"}
  <2>1. \A i \in 1 .. Len(wire) : wire[i] = "h"
    BY <1>3 DEF Resting, Left
  <2>2. CASE ack = <<>>
    <3>1. front = wire
      BY <1>4, <2>2
    <3> QED
      BY <1>4, <2>1, <3>1 DEF Left
  <2>3. CASE ack = <<"+">>
    <3>1. front = Append(wire, "+")
      BY <1>4, <2>3
    <3>2. "+" \in Bytes
      BY DEF Bytes
    <3> QED
      BY <1>4, <2>1, <3>1, <3>2 DEF Left
  <2> QED
    BY <2>2, <2>3
<1> HIDE DEF front
<1>6. mid \in Seq(Bytes) /\ Len(mid) = k + 1 /\ (\A i \in 1 .. k : mid[i] = front[i]) /\ mid[k + 1] = "$"
  BY <1>5 DEF Bytes
<1> HIDE DEF mid
<1>7. Asked' \in Nat /\ Asked' > 0 /\ Asked' = Len(p) /\ \A i \in 1 .. Asked' : p[i] \in Text
  BY <1>1, <1>2, PayloadIs, SizeAssumption DEF Asked
<1>8. most \in Seq(Bytes) /\ m = k + 1 + Asked'
      /\ (\A i \in 1 .. k + 1 : most[i] = mid[i])
      /\ (\A i \in k + 2 .. k + 1 + Asked' : most[i] = p[i - k - 1])
  <2>1. p \in Seq(Bytes)
    BY <1>2 DEF Bytes
  <2>2. /\ most \in Seq(Bytes) /\ Len(most) = Len(mid) + Len(p)
        /\ \A i \in 1 .. Len(mid) + Len(p) : most[i] = IF i =< Len(mid) THEN mid[i]
                                                      ELSE p[i - Len(mid)]
    BY <1>6, <2>1, ConcatProperties
  <2> HIDE DEF k, most
  <2> QED
    BY <1>5, <1>6, <1>7, <2>2
<1>9. /\ wire' \in Seq(Bytes) /\ Left' = k + Asked' + 4
      /\ \A i \in 1 .. k + 1 + Asked' : wire'[i] = most[i]
      /\ wire'[k + Asked' + 2] = "#" /\ wire'[k + Asked' + 3] = "h" /\ wire'[k + Asked' + 4] = "h"
  <2>1. wire' = most \o <<"#", "h", "h">>
    BY <1>1 DEF most, mid, front
  <2> HIDE DEF most
  <2>2. <<"#", "h", "h">> \in Seq(Bytes) /\ Len(<<"#", "h", "h">>) = 3
    BY DEF Bytes
  <2>3. /\ wire' \in Seq(Bytes) /\ Len(wire') = Len(most) + 3
        /\ \A i \in 1 .. Len(most) + 3 : wire'[i] = IF i =< Len(most) THEN most[i]
                                                    ELSE <<"#", "h", "h">>[i - Len(most)]
    BY <2>1, <2>2, <1>8, ConcatProperties
  <2>4. /\ Left' = m + 3
        /\ \A i \in 1 .. m + 3 : wire'[i] = IF i =< m THEN most[i]
                                            ELSE <<"#", "h", "h">>[i - m]
    BY <2>3 DEF Left
  <2> HIDE DEF k, m
  <2>5. m + 1 = k + Asked' + 2 /\ m + 2 = k + Asked' + 3 /\ m + 3 = k + Asked' + 4 /\ m \in Nat
    BY <1>5, <1>7, <1>8
  <2>6. wire'[m + 1] = "#" /\ wire'[m + 2] = "h" /\ wire'[m + 3] = "h"
        /\ \A i \in 1 .. m : wire'[i] = most[i]
    BY <2>4, <2>5
  <2> QED
    BY <2>3, <2>4, <2>5, <2>6, <1>8
<1>10. TypeOK'
  BY <1>1, <1>3, <1>9 DEF TypeOK
<1> HIDE DEF k, most, m
<1>11. Before' = total + Here + k /\ Before' \in 0 .. 3 /\ total =< Before'
  <2>1. Before' = total + Here + Left' - Asked' - 4
    BY <1>3, <1>4 DEF Before
  <2>2. total \in Nat /\ Here \in Nat /\ Left \in Nat /\ total + Here + Left =< 2
    BY <1>3, <1>4 DEF Resting
  <2>3. k \in Nat /\ k =< Left + 1
    BY <1>5, <2>2
  <2>4. PICK a \in Nat : a = Asked' /\ Left' = k + a + 4
    BY <1>7, <1>9, Zenon
  <2>5. Before' = total + Here + k
    <3>1. Before' = total + Here + (k + a + 4) - a - 4
      BY <2>1, <2>4, Zenon
    <3> QED
      BY <2>2, <2>3, <3>1
  <2>6. total + Here + k \in 0 .. 3 /\ total =< total + Here + k
    BY <2>2, <2>3
  <2> QED
    BY <2>5, <2>6, Zenon
<1>12. (\A i \in 1 .. Here : Framed(total + i, temp[i]))'
  BY <1>3, <1>4, <1>5, <1>7, <1>11 DEF Framed
<1>13. (\A i \in 1 .. Left : Framed(total + Here + i, wire[i]))'
  <2>1. ASSUME NEW i \in 1 .. Left'
        PROVE  /\ i =< k => wire'[i] \in {"h", "+"}
               /\ i = k + 1 => wire'[i] = "$"
               /\ i \in k + 2 .. k + 1 + Asked' => wire'[i] = p[i - k - 1]
               /\ i = k + 2 + Asked' => wire'[i] = "#"
               /\ i > k + 2 + Asked' => wire'[i] = "h"
    <3>1. ASSUME NEW j \in 1 .. k PROVE wire'[j] \in {"h", "+"}
      <4>1. j \in 1 .. k + 1 /\ j \in 1 .. k + 1 + Asked'
        BY <1>5, <1>7
      <4>2. wire'[j] = most[j] /\ most[j] = mid[j] /\ mid[j] = front[j]
        BY <1>6, <1>8, <1>9, <4>1, Zenon
      <4> QED
        BY <1>5, <4>2
    <3>2. wire'[k + 1] = "$"
      <4>1. k + 1 \in 1 .. k + 1 /\ k + 1 \in 1 .. k + 1 + Asked'
        BY <1>5, <1>7
      <4> QED
        BY <1>6, <1>8, <1>9, <4>1, Zenon
    <3>7. ASSUME NEW j \in k + 2 .. k + 1 + Asked' PROVE wire'[j] = p[j - k - 1]
      <4>1. j \in 1 .. k + 1 + Asked'
        BY <1>5, <1>7
      <4> QED
        BY <1>8, <1>9, <4>1, Zenon
    <3>3. i \in Nat /\ i > 0 /\ i =< k + Asked' + 4
      BY <1>5, <1>7, <1>9
    <3>4. i > k + 2 + Asked' => i = k + Asked' + 3 \/ i = k + Asked' + 4
      BY <1>5, <1>7, <3>3
    <3>5. i =< k => i \in 1 .. k
      BY <1>5, <3>3
    <3>6. k + 2 + Asked' = k + Asked' + 2
      BY <1>5, <1>7
    <3> QED
      BY <1>9, <3>1, <3>2, <3>4, <3>5, <3>6, <3>7
  <2> DEFINE at == total + Here
  <2>2. at \in Nat /\ at' = at /\ Before' = at + k /\ payload' = p
    BY <1>1, <1>3, <1>4, <1>11
  <2> HIDE DEF at
  <2>3. ASSUME NEW i \in 1 .. Left' PROVE Framed(at + i, wire[i])'
    BY <1>5, <1>7, <2>1, <2>2, SMTT(30) DEF Framed
  <2> QED
    BY <2>3 DEF at
<1>14. Streaming'
  BY <1>3, <1>4, <1>7, <1>11, <1>12, <1>13 DEF Streaming, Resting
<1> QED
  BY <1>1, <1>2, <1>3, <1>10, <1>14 DEF IInv, OnePacket

\* A packet comes: its bytes move from the wire to temp, and keep their places.
LEMMA UsbOutKeeps == ASSUME IInv, UsbOut PROVE IInv'
<1>1. PICK n \in 1 .. PacketSize :
         n =< Left /\ temp' = SubSeq(wire, 1, n) /\ wire' = SubSeq(wire, n + 1, Left)
  BY DEF UsbOut, Left
<1>2. /\ TypeOK /\ OnePacket /\ sharp = -1 /\ armed /\ temp = <<>> /\ armed' = FALSE /\ received' = TRUE
      /\ UNCHANGED <<payload, dollar, sharp, total, cmdBuffer, taken>>
  BY DEF IInv, UsbOut, OnePacket
<1>3. total \in Nat /\ Here = 0 /\ Left \in Nat /\ Asked \in Nat /\ n \in Nat /\ n > 0
      /\ wire \in Seq(Bytes) /\ PacketSize \in Nat /\ Asked' = Asked
  BY <1>2, Lengths, SizeAssumption DEF TypeOK, Asked
<1>4. /\ temp' \in Seq(Bytes) /\ Here' = n /\ temp' # <<>>
      /\ \A i \in 1 .. n : temp'[i] = wire[i]
  <2>1. /\ SubSeq(wire, 1, n) \in Seq(Bytes) /\ Len(SubSeq(wire, 1, n)) = n
        /\ \A i \in 1 .. n : SubSeq(wire, 1, n)[i] = wire[i]
    BY <1>1, <1>3 DEF Left
  <2>2. temp' # <<>>
    <3>1. Len(temp') = n
      BY <2>1, <1>1
    <3>2. Len(<<>>) = 0
      BY EmptySeq
    <3>3. n # 0
      BY <1>3
    <3> QED
      BY <3>1, <3>2, <3>3, Zenon
  <2> QED
    BY <2>1, <2>2, <1>1 DEF Here
<1>5. /\ wire' \in Seq(Bytes) /\ Left' = Left - n
      /\ \A i \in 1 .. Left - n : wire'[i] = wire[n + i]
  BY <1>1, <1>3 DEF Left
<1>6. TypeOK' /\ OnePacket'
  <2>1. Len(temp') = n /\ n =< PacketSize
    BY <1>1, <1>3, <1>4 DEF Here
  <2>2. Len(temp') =< PacketSize
    BY <2>1
  <2>3. armed' \in BOOLEAN /\ received' \in BOOLEAN
    BY <1>2
  <2> QED
    BY <1>2, <1>4, <1>5, <2>2, <2>3 DEF TypeOK, OnePacket
<1>7. CASE payload # <<>> /\ taken = <<>>
  <2>1. Streaming
    BY <1>7 DEF IInv
  <2>2. Before' = Before /\ Before \in Nat
    BY <1>2, <1>3, <1>4, <1>5, <2>1 DEF Before, Streaming
  <2>3. \A i \in 1 .. Left : Framed(total + i, wire[i])
    BY <2>1, <1>3 DEF Streaming
  <2>4. ASSUME NEW i \in 1 .. n PROVE Framed(total + i, temp[i])'
    BY <1>2, <1>3, <1>1, <1>4, <2>2, <2>3 DEF Framed
  <2>5. ASSUME NEW i \in 1 .. Left - n PROVE Framed(total + Here + i, wire[i])'
    <3>1. n + i \in 1 .. Left /\ total + (n + i) = (total + Here + i)'
      BY <1>1, <1>2, <1>3, <1>4
    <3>2. Framed((total + Here + i)', wire'[i])
      BY <2>3, <3>1, <1>5
    <3> QED
      BY <1>2, <1>3, <2>2, <3>2 DEF Framed
  <2>6. Streaming'
    BY <1>2, <1>3, <1>4, <1>5, <2>1, <2>2, <2>4, <2>5 DEF Streaming
  <2> QED
    BY <1>2, <1>6, <1>7, <2>6 DEF IInv
<1>8. CASE ~(payload # <<>> /\ taken = <<>>)
  <2>1. Resting
    BY <1>8 DEF IInv
  <2>2. Resting'
    <3>1. total' + Here' + Left' =< 2
      BY <1>2, <1>3, <1>4, <1>5, <2>1 DEF Resting
    <3>2. (\A i \in 1 .. Here : temp[i] = "h")'
      BY <1>1, <1>3, <1>4, <2>1 DEF Resting
    <3>3. (\A i \in 1 .. Left : wire[i] = "h")'
      BY <1>1, <1>3, <1>5, <2>1 DEF Resting
    <3> QED
      BY <1>2, <2>1, <3>1, <3>2, <3>3 DEF Resting
  <2> QED
    BY <1>2, <1>6, <1>8, <2>2 DEF IInv
<1> QED
  BY <1>7, <1>8

\* The endpoint is armed again.
LEMMA CmdArmKeeps == ASSUME IInv, CmdArm PROVE IInv'
<1>1. armed' = TRUE /\ ~received
      /\ UNCHANGED <<payload, wire, received, temp, dollar, sharp, total, cmdBuffer, taken>>
  BY DEF CmdArm
<1>2. Here' = Here /\ Left' = Left /\ Asked' = Asked /\ Before' = Before
  BY <1>1 DEF Here, Left, Asked, Before
<1>3. \A i, b : Framed(i, b)' <=> Framed(i, b)
  BY <1>1, <1>2 DEF Framed
<1>4. (Streaming => Streaming') /\ (Resting => Resting')
  BY <1>1, <1>2 DEF Framed, Streaming, Resting
<1> QED
  BY <1>1, <1>4 DEF IInv, TypeOK, OnePacket

\* The server is done: the next command may be asked.
LEMMA AnswerKeeps == ASSUME IInv, Answer PROVE IInv'
<1>1. /\ taken # <<>> /\ taken' = <<>> /\ payload' = <<>>
      /\ UNCHANGED <<wire, armed, received, temp, dollar, sharp, total>>
      /\ cmdBuffer' = [i \in 0 .. BufferSize - 1 |-> "old"]
  BY DEF Answer
<1>2. Resting
  BY <1>1 DEF IInv
<1>3. Resting'
  BY <1>1, <1>2 DEF Resting, Here, Left
<1>4. TypeOK'
  BY <1>1 DEF IInv, TypeOK
<1> QED
  BY <1>1, <1>3, <1>4 DEF IInv, OnePacket

\* What the task does in one round, once it knows where "$" and "#" are.
Copied(d) ==
    [i \in 0 .. BufferSize - 1 |->
        IF d >= 0 /\ i \in total .. total + Here - 1 THEN temp[i - total + 1] ELSE cmdBuffer[i]]

LEMMA ParseIs ==
    ASSUME CmdParse, NEW d, NEW s, d = Find("$", dollar), s = Find("#", sharp)
    PROVE  /\ received /\ received' = FALSE /\ temp' = <<>> /\ UNCHANGED <<payload, wire, armed>>
           /\ Complete(d, s) =>
                 /\ cmdBuffer' = [Copied(d) EXCEPT ![d + 1 + (s - d - 1)] = "nul"]
                 /\ taken' = [i \in 1 .. s - d - 1 |-> cmdBuffer'[d + i]]
                 /\ dollar' = -1 /\ sharp' = -1 /\ total' = 0
           /\ ~Complete(d, s) =>
                 /\ cmdBuffer' = Copied(d) /\ taken' = taken
                 /\ dollar' = d /\ sharp' = s /\ total' = total + Here
BY DEF CmdParse, Restarted, Copied, Here

\* Whatever d is, cmd_buffer stays a buffer.
LEMMA CopiedIs ==
    ASSUME TypeOK, NEW d \in Int
    PROVE  /\ Copied(d) \in [0 .. BufferSize - 1 -> Bytes \cup {"nul", "old"}]
           /\ d < 0 => Copied(d) = cmdBuffer
<1>1. Here \in Nat /\ total \in Nat /\ BufferSize \in Nat
  BY Lengths
<1>2. cmdBuffer \in [0 .. BufferSize - 1 -> Bytes \cup {"nul", "old"}]
  BY DEF TypeOK
<1>3. \A i \in 1 .. Here : temp[i] \in Bytes
  BY DEF TypeOK, Here
<1>4. ASSUME NEW i \in 0 .. BufferSize - 1, i \in total .. total + Here - 1
      PROVE  i - total + 1 \in 1 .. Here
  BY <1>1, <1>4
<1>5. Copied(d) \in [0 .. BufferSize - 1 -> Bytes \cup {"nul", "old"}]
  BY <1>2, <1>3, <1>4 DEF Copied
<1>6. ASSUME d < 0 PROVE Copied(d) = cmdBuffer
  BY <1>2, <1>6 DEF Copied
<1> QED
  BY <1>5, <1>6

\* The digits that are left of a command are passed over.
LEMMA ParseResting == ASSUME IInv, Resting, CmdParse PROVE Resting' /\ TypeOK' /\ sharp' = -1 /\ taken' = taken
<1>1. /\ TypeOK /\ sharp = -1 /\ dollar = -1 /\ total + Here + Left =< 2
      /\ \A i \in 1 .. Here : temp[i] = "h"
  BY DEF IInv, Resting
<1>2. total \in Nat /\ Here \in Nat /\ Left \in Nat /\ BufferSize \in Nat /\ BufferSize >= 7
  BY <1>1, Lengths
<1>3. Find("$", dollar) = -1 /\ Find("#", sharp) = -1
  BY <1>1, NotFound
<1>4. ~Complete(-1, -1)
  BY DEF Complete
<1>5. /\ cmdBuffer' = Copied(-1) /\ taken' = taken /\ dollar' = -1 /\ sharp' = -1
      /\ total' = total + Here /\ received' = FALSE /\ temp' = <<>> /\ UNCHANGED <<payload, wire, armed>>
  BY <1>3, <1>4, ParseIs
<1>6. Here' = 0 /\ Left' = Left
  BY <1>5, EmptySeq DEF Here, Left
<1>7. Resting'
  BY <1>1, <1>2, <1>5, <1>6 DEF Resting
<1>8. TypeOK'
  <2>1. cmdBuffer' \in [0 .. BufferSize - 1 -> Bytes \cup {"nul", "old"}]
    BY <1>1, <1>5, CopiedIs
  <2>2. total' \in 0 .. BufferSize
    BY <1>1, <1>2, <1>5
  <2>3. temp' \in Seq(Bytes) /\ Len(temp') =< PacketSize
    BY <1>5, EmptySeq, SizeAssumption
  <2> QED
    BY <1>1, <1>2, <1>5, <2>1, <2>2, <2>3 DEF TypeOK
<1> QED
  BY <1>5, <1>7, <1>8

\* "$" is found in the packet that holds it, and kept from then on.
LEMMA DollarFound ==
    ASSUME IInv, payload # <<>>, Streaming
    PROVE  Find("$", dollar) = IF total + Here > Before THEN Before ELSE -1
<1>1. /\ total \in Nat /\ Here \in Nat /\ Before \in Nat /\ Asked \in Nat
      /\ \A i \in 1 .. Here : Framed(total + i, temp[i])
      /\ dollar = IF total > Before THEN Before ELSE -1
  BY Lengths DEF IInv, Streaming
<1>2. CASE total > Before
  BY <1>1, <1>2, FoundBefore
<1>3. CASE total =< Before /\ total + Here > Before
  <2> DEFINE k == Before + 1 - total
  <2>1. k \in 1 .. Here /\ total + k = Before + 1 /\ total + k - 1 = Before
    BY <1>1, <1>3
  <2>2. temp[k] = "$"
    BY <1>1, <2>1 DEF Framed
  <2>3. ASSUME NEW i \in 1 .. k - 1 PROVE temp[i] # "$"
    <3>1. i \in 1 .. Here /\ total + i =< Before
      BY <1>1, <1>3, <2>1
    <3> QED
      BY <1>1, <3>1 DEF Framed
  <2> HIDE DEF k
  <2>4. Find("$", -1) = total + k - 1
    BY <1>1, <2>1, <2>2, <2>3, FoundFirst
  <2> QED
    BY <1>1, <1>3, <2>1, <2>4
<1>4. CASE total + Here =< Before
  <2>1. ASSUME NEW i \in 1 .. Here PROVE temp[i] # "$"
    <3>1. total + i =< Before
      BY <1>1, <1>4
    <3> QED
      BY <1>1, <3>1 DEF Framed
  <2>2. dollar = -1 /\ ~(total + Here > Before)
    BY <1>1, <1>4
  <2> QED
    BY <2>1, <2>2, NotFound
<1> QED
  BY <1>1, <1>2, <1>3, <1>4

\* "#" is found in the packet that holds it.
LEMMA SharpFound ==
    ASSUME IInv, payload # <<>>, Streaming
    PROVE  Find("#", sharp) = IF total + Here > Before + 1 + Asked THEN Before + 1 + Asked ELSE -1
<1>1. /\ total \in Nat /\ Here \in Nat /\ Before \in Nat /\ Asked \in Nat
      /\ \A i \in 1 .. Here : Framed(total + i, temp[i])
      /\ total =< Before + 1 + Asked /\ sharp = -1
      /\ \A i \in 1 .. Asked : payload[i] \in Text
  BY Lengths DEF IInv, Streaming
<1>2. ASSUME NEW i \in 1 .. Here, total + i =< Before + 1 + Asked PROVE temp[i] # "#"
  <2>1. Framed(total + i, temp[i])
    BY <1>1
  <2>2. CASE total + i =< Before + 1
    BY <1>1, <2>1, <2>2 DEF Framed
  <2>3. CASE total + i > Before + 1
    <3>1. total + i \in Before + 2 .. Before + 1 + Asked /\ total + i - Before - 1 \in 1 .. Asked
      BY <1>1, <1>2, <2>3
    <3>2. temp[i] \in Text
      BY <1>1, <2>1, <3>1 DEF Framed
    <3> QED
      BY <3>2, TextAssumption
  <2> QED
    BY <1>1, <2>2, <2>3
<1>3. CASE total + Here > Before + 1 + Asked
  <2> DEFINE k == Before + 2 + Asked - total
  <2>1. k \in 1 .. Here /\ total + k = Before + 2 + Asked /\ total + k - 1 = Before + 1 + Asked
    BY <1>1, <1>3
  <2>2. temp[k] = "#"
    BY <1>1, <2>1 DEF Framed
  <2>3. ASSUME NEW i \in 1 .. k - 1 PROVE temp[i] # "#"
    <3>1. i \in 1 .. Here /\ total + i =< Before + 1 + Asked
      BY <1>1, <1>3, <2>1
    <3> QED
      BY <1>2, <3>1
  <2> HIDE DEF k
  <2>4. Find("#", -1) = total + k - 1
    BY <1>1, <2>1, <2>2, <2>3, FoundFirst
  <2> QED
    BY <1>1, <1>3, <2>1, <2>4
<1>4. CASE total + Here =< Before + 1 + Asked
  <2>1. ASSUME NEW i \in 1 .. Here PROVE temp[i] # "#"
    <3>1. total + i =< Before + 1 + Asked
      BY <1>1, <1>4
    <3> QED
      BY <1>2, <3>1
  <2>2. sharp = -1 /\ ~(total + Here > Before + 1 + Asked)
    BY <1>1, <1>4
  <2> QED
    BY <2>1, <2>2, NotFound
<1> QED
  BY <1>1, <1>3, <1>4

\* The payload that has been passed lies in cmd_buffer, from its place on.
LEMMA PayloadCopied ==
    ASSUME IInv, payload # <<>>, Streaming, NEW i \in 1 .. Asked, Before + i < total + Here
    PROVE  Copied(Before)[Before + i] = payload[i] /\ Before + i \in 0 .. BufferSize - 1
<1>1. /\ total \in Nat /\ Here \in Nat /\ Before \in 0 .. 3 /\ Asked \in 0 .. MaxPayload /\ MaxPayload \in Nat
      /\ BufferSize \in Nat /\ BufferSize >= MaxPayload + 7
      /\ \A j \in 1 .. Here : Framed(total + j, temp[j])
      /\ (Before + i < total => cmdBuffer[Before + i] = payload[i])
  BY Lengths DEF IInv, Streaming
<1>2. Before + i \in 0 .. BufferSize - 1
  BY <1>1
<1>3. Copied(Before)[Before + i] = IF Before + i \in total .. total + Here - 1
                                   THEN temp[Before + i - total + 1] ELSE cmdBuffer[Before + i]
  BY <1>1, <1>2 DEF Copied
<1>4. CASE Before + i < total
  BY <1>1, <1>2, <1>3, <1>4
<1>5. CASE Before + i >= total
  <2> DEFINE j == Before + i - total + 1
  <2>1. j \in 1 .. Here /\ total + j = Before + i + 1 /\ Before + i \in total .. total + Here - 1
        /\ total + j - Before - 1 = i /\ total + j \in Before + 2 .. Before + 1 + Asked
    BY <1>1, <1>5
  <2>2. Framed(total + j, temp[j])
    BY <1>1, <2>1
  <2> HIDE DEF j
  <2>3. total \in Int /\ Before \in Int /\ Asked \in Int /\ j \in Int
    BY <1>1, <2>1
  <2>4. temp[j] = payload[i]
    BY <2>1, <2>2, <2>3 DEF Framed
  <2> QED
    BY <1>2, <1>3, <2>1, <2>4, Zenon DEF j
<1> QED
  BY <1>1, <1>4, <1>5

\* A packet that does not end the command.
LEMMA ParseMore ==
    ASSUME IInv, payload # <<>>, taken = <<>>, Streaming, CmdParse, total + Here =< Before + 1 + Asked
    PROVE  IInv'
<1> DEFINE d == IF total + Here > Before THEN Before ELSE -1
<1>1. /\ total \in Nat /\ Here \in Nat /\ Left \in Nat /\ Before \in 0 .. 3
      /\ Asked \in 0 .. MaxPayload /\ MaxPayload \in Nat
      /\ BufferSize \in Nat /\ BufferSize >= MaxPayload + 7 /\ TypeOK
      /\ dollar = IF total > Before THEN Before ELSE -1
  BY Lengths DEF IInv, Streaming
<1>2. ~(total + Here > Before + 1 + Asked)
  BY <1>1
<1>3. Find("$", dollar) = d /\ Find("#", sharp) = -1
  BY <1>2, DollarFound, SharpFound
<1>4. d \in Int /\ d \in -1 .. 3 /\ (d < 0 <=> total + Here =< Before) /\ (d # Before => d < 0)
  BY <1>1
<1> HIDE DEF d
<1>5. ~Complete(d, -1)
  BY DEF Complete
<1>6. /\ cmdBuffer' = Copied(d) /\ taken' = taken /\ dollar' = d /\ sharp' = -1
      /\ total' = total + Here /\ received' = FALSE /\ temp' = <<>> /\ UNCHANGED <<payload, wire, armed>>
  BY <1>3, <1>5, ParseIs
<1>7. Here' = 0 /\ Left' = Left /\ Asked' = Asked
  BY <1>6, EmptySeq DEF Here, Left, Asked
<1>8. Before' = Before
  BY <1>1, <1>6, <1>7 DEF Before
<1>9. TypeOK'
  <2>1. cmdBuffer' \in [0 .. BufferSize - 1 -> Bytes \cup {"nul", "old"}]
    BY <1>1, <1>4, <1>6, CopiedIs
  <2>2. total' \in 0 .. BufferSize /\ dollar' \in -1 .. BufferSize /\ sharp' \in -1 .. BufferSize
    BY <1>1, <1>4, <1>6
  <2>3. temp' \in Seq(Bytes) /\ Len(temp') =< PacketSize
    BY <1>6, EmptySeq, SizeAssumption
  <2> QED
    BY <1>1, <1>6, <2>1, <2>2, <2>3 DEF TypeOK
<1>10. (\A i \in 1 .. Left : Framed(total + Here + i, wire[i]))'
  <2>1. ASSUME NEW i \in 1 .. Left PROVE Framed(total + Here + i, wire[i])
    BY DEF Streaming
  <2>2. ASSUME NEW i \in 1 .. Left PROVE Framed(total + Here + i, wire[i])'
    <3>1. (total + Here + i)' = total + Here + i
      BY <1>1, <1>6, <1>7
    <3> QED
      BY <1>6, <1>7, <1>8, <2>1, <3>1 DEF Framed
  <2> QED
    BY <1>7, <2>2
<1>11. ASSUME NEW i \in 1 .. Asked, Before + i < total'
       PROVE  cmdBuffer'[Before + i] = payload[i]
  <2>1. Before + i < total + Here /\ d = Before
    BY <1>1, <1>4, <1>6, <1>11
  <2> QED
    BY <1>6, <2>1, PayloadCopied
<1>12. dollar' = IF total' > Before' THEN Before' ELSE -1
  BY <1>6, <1>8 DEF d
<1>13. Streaming'
  <2>1. total' =< Before + 1 + Asked
    BY <1>6
  <2> QED
    BY <1>1, <1>6, <1>7, <1>8, <1>10, <1>11, <1>12, <2>1 DEF Streaming
<1> QED
  BY <1>6, <1>9, <1>13 DEF IInv, OnePacket

\* The packet that holds "#": the server gets the payload, and the task starts
\* anew, with at most the two digits left.
LEMMA ParseLast ==
    ASSUME IInv, payload # <<>>, taken = <<>>, Streaming, CmdParse, total + Here > Before + 1 + Asked
    PROVE  IInv'
<1> DEFINE s == Before + 1 + Asked
<1>1. /\ total \in Nat /\ Here \in Nat /\ Left \in Nat /\ Before \in 0 .. 3
      /\ Asked \in 0 .. MaxPayload /\ MaxPayload \in Nat /\ Asked > 0
      /\ BufferSize \in Nat /\ BufferSize >= MaxPayload + 7 /\ TypeOK
  BY Lengths DEF IInv, Streaming
<1>2. total + Here > Before
  BY <1>1
<1>3. Find("$", dollar) = Before /\ Find("#", sharp) = s
  BY <1>2, DollarFound, SharpFound
<1>4. s - Before - 1 = Asked /\ Before + 1 + (s - Before - 1) = Before + 1 + Asked /\ s > 0
  BY <1>1
<1> HIDE DEF s
<1>5. Complete(Before, s)
  BY <1>1, <1>4 DEF Complete
<1>6. /\ cmdBuffer' = [Copied(Before) EXCEPT ![Before + 1 + Asked] = "nul"]
      /\ taken' = [i \in 1 .. Asked |-> cmdBuffer'[Before + i]]
      /\ dollar' = -1 /\ sharp' = -1 /\ total' = 0
      /\ received' = FALSE /\ temp' = <<>> /\ UNCHANGED <<payload, wire, armed>>
  <2>1. /\ cmdBuffer' = [Copied(Before) EXCEPT ![Before + 1 + (s - Before - 1)] = "nul"]
        /\ taken' = [i \in 1 .. s - Before - 1 |-> cmdBuffer'[Before + i]]
        /\ dollar' = -1 /\ sharp' = -1 /\ total' = 0
        /\ received' = FALSE /\ temp' = <<>> /\ UNCHANGED <<payload, wire, armed>>
    <3>1. CmdParse /\ Before = Find("$", dollar) /\ s = Find("#", sharp)
      BY <1>3
    <3> QED
      BY <1>5, <3>1 DEF CmdParse, Restarted, Copied, Here
  <2> QED
    BY <1>4, <2>1, Zenon
<1>7. Here' = 0 /\ Left' = Left
  BY <1>6, EmptySeq DEF Here, Left
<1>8. cmdBuffer' \in [0 .. BufferSize - 1 -> Bytes \cup {"nul", "old"}]
  <2>1. Copied(Before) \in [0 .. BufferSize - 1 -> Bytes \cup {"nul", "old"}]
    BY <1>1, CopiedIs
  <2> QED
    BY <1>6, <2>1
<1>9. ASSUME NEW i \in 1 .. Asked PROVE cmdBuffer'[Before + i] = payload[i]
  <2>1. Before + i < total + Here /\ Before + i # Before + 1 + Asked
    BY <1>1
  <2>2. Copied(Before)[Before + i] = payload[i] /\ Before + i \in 0 .. BufferSize - 1
    BY <2>1, PayloadCopied
  <2>3. Copied(Before) \in [0 .. BufferSize - 1 -> Bytes \cup {"nul", "old"}]
    BY <1>1, CopiedIs
  <2> QED
    BY <1>6, <2>1, <2>2, <2>3
<1>10. taken' = payload
  <2>1. payload = [i \in 1 .. Asked |-> payload[i]]
    <3>1. payload \in Seq(Text)
      BY <1>1, PayloadIs DEF TypeOK
    <3> QED
      BY <3>1 DEF Asked
  <2> QED
    BY <1>6, <1>9, <2>1
<1>11. Left =< 2 /\ \A i \in 1 .. Left : wire[i] = "h"
  <2>1. total + Here + Left = Before + Asked + 4
    BY <1>1 DEF Before
  <2>2. Left =< 2
    BY <1>1, <2>1
  <2>3. ASSUME NEW i \in 1 .. Left PROVE wire[i] = "h"
    <3>1. total + Here + i > Before + 2 + Asked /\ Framed(total + Here + i, wire[i])
      BY <1>1, SMTT(30) DEF Streaming
    <3> QED
      BY <3>1 DEF Framed
  <2> QED
    BY <2>2, <2>3
<1>12. Resting'
  BY <1>1, <1>6, <1>7, <1>11 DEF Resting
<1>13. TypeOK'
  <2>1. temp' \in Seq(Bytes) /\ Len(temp') =< PacketSize
    BY <1>6, EmptySeq, SizeAssumption
  <2>2. taken' \in Seq(Bytes)
    <3>1. payload \in Seq(Text)
      BY <1>1, PayloadIs DEF TypeOK
    <3> QED
      BY <1>10, <3>1 DEF Bytes
  <2>3. total' \in 0 .. BufferSize /\ dollar' \in -1 .. BufferSize /\ sharp' \in -1 .. BufferSize
    BY <1>1, <1>6
  <2> QED
    BY <1>1, <1>6, <1>8, <2>1, <2>2, <2>3 DEF TypeOK
<1> QED
  BY <1>6, <1>10, <1>12, <1>13 DEF IInv, OnePacket

-----------------------------------------------------------------------------
(* The theorems.                                                            *)

\* Nothing is asked at first, and nothing is left of an earlier command.
LEMMA InvInitially == Init => IInv
<1> SUFFICES ASSUME Init PROVE IInv
  OBVIOUS
<1>1. Here = 0 /\ Left = 0
  BY EmptySeq DEF Init, Here, Left
<1>2. Resting
  BY <1>1 DEF Init, Resting
<1>3. TypeOK
  <2>1. wire \in Seq(Bytes) /\ temp \in Seq(Bytes) /\ taken \in Seq(Bytes) /\ Len(temp) =< PacketSize
    BY EmptySeq, SizeAssumption DEF Init
  <2>2. total \in 0 .. BufferSize /\ dollar \in -1 .. BufferSize /\ sharp \in -1 .. BufferSize
    BY SizeAssumption DEF Init
  <2> QED
    BY <2>1, <2>2 DEF Init, TypeOK
<1> QED
  BY <1>2, <1>3 DEF Init, IInv, OnePacket

\* Every step of the host, the endpoint, the task and the server keeps it.
LEMMA InvStep == ASSUME IInv, [Next]_vars PROVE IInv'
<1>1. CASE CmdParse
  <2>1. CASE payload # <<>> /\ taken = <<>>
    <3>1. Streaming
      BY <2>1 DEF IInv
    <3>2. total + Here =< Before + 1 + Asked \/ total + Here > Before + 1 + Asked
      BY <3>1, Lengths DEF IInv, Streaming
    <3> QED
      BY <1>1, <2>1, <3>1, <3>2, ParseMore, ParseLast
  <2>2. CASE ~(payload # <<>> /\ taken = <<>>)
    <3>1. Resting
      BY <2>2 DEF IInv
    <3>2. Resting' /\ TypeOK' /\ sharp' = -1 /\ taken' = taken
      BY <1>1, <3>1, ParseResting
    <3>3. payload' = payload /\ armed' = armed /\ received /\ received' = FALSE /\ temp' = <<>>
      BY <1>1 DEF CmdParse
    <3> QED
      BY <2>2, <3>2, <3>3 DEF IInv, OnePacket
  <2> QED
    BY <2>1, <2>2
<1>2. CASE UNCHANGED vars
  <2>1. UNCHANGED <<Here, Left, Asked, Before>>
    BY <1>2 DEF vars, Here, Left, Asked, Before
  <2>2. (Streaming => Streaming') /\ (Resting => Resting')
    BY <1>2, <2>1 DEF vars, Framed, Streaming, Resting
  <2> QED
    BY <1>2, <2>2 DEF vars, IInv, TypeOK, OnePacket
<1> QED
  BY <1>1, <1>2, HostAsksKeeps, UsbOutKeeps, CmdArmKeeps, AnswerKeeps DEF Next

\* What the task knows of the stream is right in every behaviour.
THEOREM Invariant == Spec => []IInv
<1>1. IInv /\ [Next]_vars => IInv'
  BY InvStep
<1> QED
  BY InvInitially, <1>1, PTL DEF Spec

\* The positions and lengths stay within cmd_buffer, and bytes bytes.
THEOREM TypeCorrect == Spec => []TypeOK
<1>1. IInv => TypeOK
  BY DEF IInv
<1> QED
  BY Invariant, <1>1, PTL

\* However USB cuts the stream into packets, and however long the payload is,
\* the server reads the payload the host framed and nothing else.
THEOREM CommandsAreExact == Spec => []CommandExact
<1>1. IInv => CommandExact
  BY DEF IInv, CommandExact
<1> QED
  BY Invariant, <1>1, PTL

\* No packet is copied past the end of cmd_buffer, if that holds seven bytes
\* more than the longest payload.
THEOREM NothingOverruns == Spec => []NoOverrun
<1>1. IInv => NoOverrun
  <2> SUFFICES ASSUME IInv PROVE total + Here =< BufferSize
    BY DEF NoOverrun, Here
  <2>1. /\ total \in Nat /\ Here \in Nat /\ Left \in Nat /\ Asked \in 0 .. MaxPayload
        /\ MaxPayload \in Nat /\ BufferSize \in Nat /\ BufferSize >= MaxPayload + 7
    BY Lengths DEF IInv
  <2>2. CASE Streaming
    <3>1. total + Here + Left = Before + Asked + 4 /\ Before \in 0 .. 3
      BY <2>1, <2>2 DEF Before, Streaming
    <3> QED
      BY <2>1, <3>1
  <2>3. CASE Resting
    BY <2>1, <2>3 DEF Resting
  <2> QED
    BY <2>2, <2>3 DEF IInv
<1> QED
  BY Invariant, <1>1, PTL
=============================================================================
