--------------------------- MODULE CommandsProofs ---------------------------
(***************************************************************************)
(* The register and memory commands, for every hart that can be debugged,  *)
(* every memory, all data and every size of mem_buffer.                    *)
(*                                                                         *)
(* The first part is about RegisterAccess: what rv_target_read_register,   *)
(* rv_target_write_register and the others come to, which registers they   *)
(* leave as they were, what they answer, and what they leave in the        *)
(* register.  An access is written St(h, t, r, e, out): hart h with        *)
(* registers r, of a server that knows t.  err is written as a tag, since  *)
(* a record with a Boolean in it does not unify in the provers.  The       *)
(* second part has the codecs, the transfers, and the commands.            *)
(***************************************************************************)
EXTENDS Commands, WellFoundedInduction, TLAPS

-----------------------------------------------------------------------------
(* An access to a hart, and the registers in it.                            *)

\* Hart h with registers r, and an access to it of a server that knows t.
With(h, r) ==
    [xlen |-> h.xlen, ext |-> h.ext, abstract |-> h.abstract, progbuf |-> h.progbuf, r |-> r]

Flag(e) == e = "failed"

St(h, t, r, e, out) ==
    [h |-> With(h, r), mxl |-> t.mxl, misa |-> t.misa, vlenb |-> t.vlenb, err |-> Flag(e), out |-> out]

Put(r, n, v) == [r EXCEPT ![n] = v]

\* The ways an access goes on.
Gives(s, x)    == [s EXCEPT !.out = x, !.err = FALSE]
Lacks(s, x)    == [s EXCEPT !.out = x, !.err = TRUE]
Fails(s)       == [s EXCEPT !.err = TRUE]
Takes(s, n, v) == [s EXCEPT !.h.r[n] = v, !.err = FALSE]
Shows(s, x)    == [s EXCEPT !.out = x]

AreRegisters(r) == r = [n \in Registers |-> r[n]]

\* The two values of the tag that stands for err.
LEMMA FlagIs == Flag("ok") = FALSE /\ Flag("failed") = TRUE
BY DEF Flag

\* The fields of a hart, and of an access.
LEMMA WithIs ==
    ASSUME NEW h, NEW r
    PROVE  /\ With(h, r).xlen = h.xlen /\ With(h, r).ext = h.ext
           /\ With(h, r).abstract = h.abstract /\ With(h, r).progbuf = h.progbuf
           /\ With(h, r).r = r
BY DEF With

LEMMA StIs ==
    ASSUME NEW h, NEW t, NEW r, NEW e, NEW out
    PROVE  /\ St(h, t, r, e, out).h = With(h, r)
           /\ St(h, t, r, e, out).mxl = t.mxl
           /\ St(h, t, r, e, out).misa = t.misa
           /\ St(h, t, r, e, out).vlenb = t.vlenb
           /\ St(h, t, r, e, out).err = Flag(e)
           /\ St(h, t, r, e, out).out = out
BY DEF St

\* An access whose out, err or hart is replaced is another.
LEMMA StOut ==
    ASSUME NEW h, NEW t, NEW r, NEW e, NEW out, NEW x
    PROVE  [St(h, t, r, e, out) EXCEPT !.out = x] = St(h, t, r, e, x)
BY DEF St

LEMMA StErr ==
    ASSUME NEW h, NEW t, NEW r, NEW e, NEW out, NEW x
    PROVE  [St(h, t, r, e, out) EXCEPT !.err = Flag(x)] = St(h, t, r, x, out)
BY DEF St

LEMMA StHart ==
    ASSUME NEW h, NEW t, NEW r, NEW e, NEW out, NEW q
    PROVE  [St(h, t, r, e, out) EXCEPT !.h = With(h, q)] = St(h, t, q, e, out)
BY DEF St

\* The same for the ways the code goes on.
LEMMA StOk ==
    ASSUME NEW h, NEW t, NEW r, NEW e, NEW out
    PROVE  [St(h, t, r, e, out) EXCEPT !.err = FALSE] = St(h, t, r, "ok", out)
<1>1. PICK y : y = Flag("ok")
  OBVIOUS
<1>2. [St(h, t, r, e, out) EXCEPT !.err = y] = St(h, t, r, "ok", out)
  BY <1>1, StErr
<1>3. y = FALSE
  BY <1>1, FlagIs
<1> QED
  BY <1>2, <1>3

LEMMA StFailed ==
    ASSUME NEW h, NEW t, NEW r, NEW e, NEW out
    PROVE  [St(h, t, r, e, out) EXCEPT !.err = TRUE] = St(h, t, r, "failed", out)
<1>1. PICK y : y = Flag("failed")
  OBVIOUS
<1>2. [St(h, t, r, e, out) EXCEPT !.err = y] = St(h, t, r, "failed", out)
  BY <1>1, StErr
<1>3. y = TRUE
  BY <1>1, FlagIs
<1> QED
  BY <1>2, <1>3

LEMMA StOutOk ==
    ASSUME NEW h, NEW t, NEW r, NEW e, NEW out, NEW x
    PROVE  Gives(St(h, t, r, e, out), x) = St(h, t, r, "ok", x)
<1>1. [St(h, t, r, e, out) EXCEPT !.out = x, !.err = FALSE]
         = [[St(h, t, r, e, out) EXCEPT !.out = x] EXCEPT !.err = FALSE]
  OBVIOUS
<1>2. [St(h, t, r, e, out) EXCEPT !.out = x] = St(h, t, r, e, x)
  BY StOut
<1>3. [St(h, t, r, e, x) EXCEPT !.err = FALSE] = St(h, t, r, "ok", x)
  BY StOk
<1> QED
  BY <1>1, <1>2, <1>3 DEF Gives

LEMMA StOutFailed ==
    ASSUME NEW h, NEW t, NEW r, NEW e, NEW out, NEW x
    PROVE  Lacks(St(h, t, r, e, out), x) = St(h, t, r, "failed", x)
<1>1. [St(h, t, r, e, out) EXCEPT !.out = x, !.err = TRUE]
         = [[St(h, t, r, e, out) EXCEPT !.out = x] EXCEPT !.err = TRUE]
  OBVIOUS
<1>2. [St(h, t, r, e, out) EXCEPT !.out = x] = St(h, t, r, e, x)
  BY StOut
<1>3. [St(h, t, r, e, x) EXCEPT !.err = TRUE] = St(h, t, r, "failed", x)
  BY StFailed
<1> QED
  BY <1>1, <1>2, <1>3 DEF Lacks

\* A hart whose registers are replaced.
LEMMA WithRegisters ==
    ASSUME NEW h, NEW r, NEW q
    PROVE  [With(h, r) EXCEPT !.r = q] = With(h, q)
BY DEF With

\* A register takes a value.
LEMMA StPutOk ==
    ASSUME NEW h, NEW t, NEW r, NEW e, NEW out, NEW n, NEW v
    PROVE  Takes(St(h, t, r, e, out), n, v) = St(h, t, Put(r, n, v), "ok", out)
<1>1. PICK s : s = St(h, t, r, e, out)
  OBVIOUS
<1>2. PICK q : q = Put(r, n, v)
  OBVIOUS
<1>3. [s EXCEPT !.h.r[n] = v, !.err = FALSE] = [[s EXCEPT !.h.r[n] = v] EXCEPT !.err = FALSE]
  OBVIOUS
<1>4. s.h = With(h, r) /\ s.h.r = r
  BY <1>1, StIs, WithIs
<1>5. [s EXCEPT !.h.r[n] = v] = [s EXCEPT !.h = [s.h EXCEPT !.r = [s.h.r EXCEPT ![n] = v]]]
  OBVIOUS
<1>6. [s.h.r EXCEPT ![n] = v] = q
  BY <1>2, <1>4 DEF Put
<1>7. [s.h EXCEPT !.r = q] = With(h, q)
  BY <1>4, WithRegisters
<1>8. [s EXCEPT !.h = With(h, q)] = St(h, t, q, e, out)
  BY <1>1, StHart
<1>9. [s EXCEPT !.h.r[n] = v] = St(h, t, q, e, out)
  BY <1>5, <1>6, <1>7, <1>8
<1>10. [St(h, t, q, e, out) EXCEPT !.err = FALSE] = St(h, t, q, "ok", out)
  BY StOk
<1> QED
  BY <1>1, <1>2, <1>3, <1>9, <1>10 DEF Takes

\* out or err alone are replaced.
LEMMA StShows ==
    ASSUME NEW h, NEW t, NEW r, NEW e, NEW out, NEW x
    PROVE  Shows(St(h, t, r, e, out), x) = St(h, t, r, e, x)
BY StOut DEF Shows

LEMMA StFails ==
    ASSUME NEW h, NEW t, NEW r, NEW e, NEW out
    PROVE  Fails(St(h, t, r, e, out)) = St(h, t, r, "failed", out)
BY StFailed DEF Fails

\* One register is replaced.
LEMMA PutIs ==
    ASSUME NEW r, AreRegisters(r), NEW n \in Registers, NEW v
    PROVE  /\ AreRegisters(Put(r, n, v)) /\ Put(r, n, v)[n] = v
           /\ \A m \in Registers : m # n => Put(r, n, v)[m] = r[m]
BY DEF Put, AreRegisters

\* Registers that hold the same are the same.
LEMMA SameRegisters ==
    ASSUME NEW r, NEW q, AreRegisters(r), AreRegisters(q), \A n \in Registers : r[n] = q[n]
    PROVE  r = q
BY DEF AreRegisters
-----------------------------------------------------------------------------
(* Abstract commands and programs.                                          *)

\* What the server knows of the width of h is right.
Ready(h, t) == Debuggable(h) /\ t.mxl = h.xlen

\* The registers of a class the abstract commands reach.
Direct(h, n) == ClassOf(n) \in h.abstract

\* What a value of n read from h leaves in a buffer that holds out.
Lands(h, n, out, v) == IF n = "dcsr" /\ h.xlen = 64 THEN LowerOver(out, v) ELSE v

\* A value that is stored, of as many bits as n has.
LEMMA IntoIs ==
    ASSUME NEW h, NEW t, Ready(h, t), NEW r, NEW e, NEW out, NEW n
    PROVE  /\ SizeFor(St(h, t, r, e, out), n) = WidthOf(With(h, r), n)
           /\ \A v : Into(St(h, t, r, e, out), SizeFor(St(h, t, r, e, out), n), v) = Lands(h, n, out, v)
<1>1. h.xlen \in {32, 64} /\ t.mxl = h.xlen
  BY DEF Ready, Debuggable
<1> DEFINE s == St(h, t, r, e, out)
<1>2. s.mxl = h.xlen /\ s.out = out
  BY <1>1, StIs
<1> HIDE DEF s
<1>3. SizeFor(s, n) = IF n = "dcsr" THEN 32 ELSE h.xlen
  BY <1>2 DEF SizeFor
<1>4. \A v : Into(s, SizeFor(s, n), v) = Lands(h, n, out, v)
  BY <1>1, <1>2, <1>3 DEF Into, Lands
<1>5. SizeFor(s, n) = WidthOf(With(h, r), n)
  BY <1>3, WithIs DEF WidthOf
<1> QED
  BY <1>4, <1>5 DEF s

\* An abstract command reads what it reaches, and fails on anything else.
LEMMA RegisterRead ==
    ASSUME NEW h, NEW t, Ready(h, t), NEW r, NEW e, NEW out, NEW n
    PROVE  rv_register_read(St(h, t, r, e, out), n)
              = IF Direct(h, n) /\ Enabled(With(h, r), n)
                THEN St(h, t, r, "ok", Lands(h, n, out, r[n]))
                ELSE St(h, t, r, "failed", Lands(h, n, out, Junk))
<1> DEFINE s == St(h, t, r, e, out)
           x == Lands(h, n, out, r[n])
           y == Lands(h, n, out, Junk)
<1>1. s.h = With(h, r) /\ s.h.r[n] = r[n]
  BY StIs, WithIs
<1>2. SizeFor(s, n) = WidthOf(With(h, r), n) /\ Into(s, SizeFor(s, n), r[n]) = x
      /\ Into(s, SizeFor(s, n), Junk) = y
  BY IntoIs
<1>3. AbstractReads(s.h, n, SizeFor(s, n)) <=> Direct(h, n) /\ Enabled(With(h, r), n)
  BY <1>1, <1>2, WithIs DEF AbstractReads, Direct
<1> HIDE DEF x, y
<1>4. Gives(s, x) = St(h, t, r, "ok", x) /\ Lacks(s, y) = St(h, t, r, "failed", y)
  BY StOutOk, StOutFailed
<1> HIDE DEF s
<1>5. rv_register_read(s, n) = IF AbstractReads(s.h, n, SizeFor(s, n))
                               THEN Gives(s, Into(s, SizeFor(s, n), s.h.r[n]))
                               ELSE Lacks(s, Into(s, SizeFor(s, n), Junk))
  BY Zenon DEF rv_register_read, Gives, Lacks
<1> QED
  BY <1>1, <1>2, <1>3, <1>4, <1>5 DEF s, x, y

\* All but dcsr fill the buffer.
LEMMA RegisterReadWhole ==
    ASSUME NEW h, NEW t, Ready(h, t), NEW r, NEW e, NEW out, NEW n, n # "dcsr"
    PROVE  rv_register_read(St(h, t, r, e, out), n)
              = IF Direct(h, n) /\ Enabled(With(h, r), n)
                THEN St(h, t, r, "ok", r[n]) ELSE St(h, t, r, "failed", Junk)
BY RegisterRead DEF Lands

\* And it writes what it reaches and may be written.
LEMMA RegisterWrite ==
    ASSUME NEW h, NEW t, Ready(h, t), NEW r, NEW e, NEW out, NEW n, NEW v
    PROVE  rv_register_write(St(h, t, r, e, out), n, v)
              = IF Direct(h, n) /\ Enabled(With(h, r), n) /\ n \notin ReadOnly
                THEN St(h, t, Put(r, n, Kept(With(h, r), n, v)), "ok", out)
                ELSE St(h, t, r, "failed", out)
<1> DEFINE s == St(h, t, r, e, out)
           k == Kept(With(h, r), n, v)
<1>1. s.h = With(h, r)
  BY StIs
<1>2. SizeFor(s, n) = WidthOf(With(h, r), n) /\ Kept(s.h, n, v) = k
  BY <1>1, IntoIs
<1>3. AbstractWrites(s.h, n, SizeFor(s, n))
         <=> Direct(h, n) /\ Enabled(With(h, r), n) /\ n \notin ReadOnly
  BY <1>1, <1>2, WithIs DEF AbstractReads, AbstractWrites, Direct
<1> HIDE DEF k
<1>4. Takes(s, n, k) = St(h, t, Put(r, n, k), "ok", out) /\ Fails(s) = St(h, t, r, "failed", out)
  BY StPutOk, StFails
<1> HIDE DEF s
<1>5. rv_register_write(s, n, v)
         = IF AbstractWrites(s.h, n, SizeFor(s, n)) THEN Takes(s, n, Kept(s.h, n, v)) ELSE Fails(s)
  BY Zenon DEF rv_register_write, Takes, Fails
<1> QED
  BY <1>2, <1>3, <1>4, <1>5 DEF s, k

\* GPRs are always there.
LEMMA GprRead ==
    ASSUME NEW h, NEW t, Ready(h, t), NEW r, NEW e, NEW out, NEW n \in Gprs
    PROVE  /\ rv_register_read(St(h, t, r, e, out), n) = St(h, t, r, "ok", r[n])
           /\ Borrowed(St(h, t, r, e, out), n) = r[n]
<1>1. Direct(h, n)
  BY DEF Ready, Debuggable, Direct, ClassOf
<1>2. Enabled(With(h, r), n)
  BY DEF Enabled, Gprs, Fprs, Vectors, VectorCsrs
<1>3. rv_register_read(St(h, t, r, e, out), n) = St(h, t, r, "ok", r[n])
  BY <1>1, <1>2, RegisterReadWhole DEF Gprs
<1>4. St(h, t, r, "ok", r[n]).out = r[n]
  BY StIs
<1> QED
  BY <1>3, <1>4 DEF Borrowed

\* And can be written.
LEMMA GprWrite ==
    ASSUME NEW h, NEW t, Ready(h, t), NEW r, NEW e, NEW out, NEW n \in Gprs, NEW v
    PROVE  rv_register_write(St(h, t, r, e, out), n, v) = St(h, t, Put(r, n, v), "ok", out)
<1>1. Direct(h, n)
  BY DEF Ready, Debuggable, Direct, ClassOf
<1>2. Enabled(With(h, r), n) /\ n \notin ReadOnly
  BY DEF Enabled, Gprs, Fprs, Vectors, VectorCsrs, ReadOnly
<1>3. Kept(With(h, r), n, v) = v
  BY DEF Gprs, Kept
<1> QED
  BY <1>1, <1>2, <1>3, RegisterWrite

\* fp gets back what was saved.
LEMMA FpBackIs ==
    ASSUME NEW h, NEW t, Ready(h, t), NEW r, NEW e, NEW out, NEW v
    PROVE  FpBack(St(h, t, r, e, out), v) = St(h, t, Put(r, "fp", v), "ok", out)
BY GprWrite DEF FpBack, Gprs

Stopped(g) == [h |-> g, ok |-> FALSE]

\* A program of one or two instructions: the recursive function, unrolled.
LEMMA RunOne ==
    ASSUME NEW h, NEW i
    PROVE  Run(h, << i >>) = IF h.progbuf THEN Step(Begun(h), i) ELSE Stopped(h)
<1> DEFINE Is(g) == g = [k \in 0 .. Len(<< i >>) |-> IF k = 0 THEN Begun(h) ELSE Step(g[k - 1], << i >>[k])]
           one == [k \in 0 .. 1 |-> IF k = 0 THEN Begun(h) ELSE Step(Begun(h), i)]
           all == CHOOSE g : Is(g)
<1>1. Run(h, << i >>) = IF h.progbuf THEN all[Len(<< i >>)] ELSE Stopped(h)
  BY Zenon DEF Run, Stopped
<1>2. Len(<< i >>) = 1 /\ << i >>[1] = i
  OBVIOUS
<1>3. Is(one)
  <2>1. \A k \in 0 .. 1 : one[k] = IF k = 0 THEN Begun(h) ELSE Step(one[k - 1], << i >>[k])
    BY <1>2
  <2> QED
    BY <1>2, <2>1
<1>4. Is(all)
  BY <1>3, Zenon
<1>5. all[0] = Begun(h) /\ all[1] = Step(all[0], i)
  <2> HIDE DEF all
  <2> QED
    BY <1>2, <1>4
<1> HIDE DEF all
<1> QED
  BY <1>1, <1>2, <1>5

LEMMA RunTwo ==
    ASSUME NEW h, NEW i, NEW j
    PROVE  Run(h, <<i, j>>) = IF h.progbuf THEN Step(Step(Begun(h), i), j)
                              ELSE Stopped(h)
<1> DEFINE Is(g) == g = [k \in 0 .. Len(<<i, j>>) |->
                            IF k = 0 THEN Begun(h) ELSE Step(g[k - 1], <<i, j>>[k])]
           two == [k \in 0 .. 2 |-> IF k = 0 THEN Begun(h) ELSE IF k = 1 THEN Step(Begun(h), i)
                                    ELSE Step(Step(Begun(h), i), j)]
           all == CHOOSE g : Is(g)
<1>1. Run(h, <<i, j>>) = IF h.progbuf THEN all[Len(<<i, j>>)] ELSE Stopped(h)
  BY Zenon DEF Run, Stopped
<1>2. Len(<<i, j>>) = 2 /\ <<i, j>>[1] = i /\ <<i, j>>[2] = j
  OBVIOUS
<1>3. Is(two)
  <2>1. \A k \in 0 .. 2 : two[k] = IF k = 0 THEN Begun(h) ELSE Step(two[k - 1], <<i, j>>[k])
    <3>1. two[0] = Begun(h) /\ two[1] = Step(two[0], <<i, j>>[1]) /\ two[2] = Step(two[1], <<i, j>>[2])
      BY <1>2
    <3> HIDE DEF two
    <3>2. \A k \in 0 .. 2 : k = 0 \/ k = 1 \/ k = 2
      OBVIOUS
    <3> QED
      BY <3>1, <3>2
  <2>2. two = [k \in 0 .. 2 |-> two[k]]
    OBVIOUS
  <2> HIDE DEF two
  <2> QED
    BY <1>2, <2>1, <2>2
<1>4. Is(all)
  BY <1>3, Zenon
<1>5. all[0] = Begun(h) /\ all[1] = Step(all[0], i) /\ all[2] = Step(all[1], j)
  <2> HIDE DEF all
  <2> QED
    BY <1>2, <1>4
<1> HIDE DEF all
<1> QED
  BY <1>1, <1>2, <1>5

\* What an instruction does to a hart in a program that goes well so far.
LEMMA StepIs ==
    ASSUME NEW h, NEW r, NEW i
    PROVE  Step(Begun(With(h, r)), i)
              = IF Legal(With(h, r), i) THEN Begun(With(h, Effect(With(h, r), i)))
                ELSE Stopped(With(h, r))
<1>1. PICK g, q : g = With(h, r) /\ q = Effect(g, i)
  OBVIOUS
<1>2. Begun(g).h = g /\ Begun(g).ok = TRUE
  BY DEF Begun
<1>3. [g EXCEPT !.r = q] = With(h, q)
  BY <1>1, WithRegisters
<1>4. [Begun(g) EXCEPT !.ok = FALSE] = Stopped(g)
  <2>1. PICK y, x : y = FALSE /\ x = TRUE
    OBVIOUS
  <2>2. [[h |-> g, ok |-> x] EXCEPT !.ok = y] = [h |-> g, ok |-> y]
    OBVIOUS
  <2> QED
    BY <2>1, <2>2 DEF Begun, Stopped
<1> QED
  BY <1>1, <1>2, <1>3, <1>4 DEF Step

\* A program has run, with or without an exception.
Ends(s, g, x) == [s EXCEPT !.h = g, !.err = Flag(x)]

\* What that makes of an access.
LEMMA StEnds ==
    ASSUME NEW h, NEW t, NEW r, NEW e, NEW out, NEW q, NEW x
    PROVE  Ends(St(h, t, r, e, out), With(h, q), x) = St(h, t, q, x, out)
<1> DEFINE s == St(h, t, r, e, out)
<1>1. Ends(s, With(h, q), x) = [[s EXCEPT !.h = With(h, q)] EXCEPT !.err = Flag(x)]
  BY DEF Ends
<1>2. [s EXCEPT !.h = With(h, q)] = St(h, t, q, e, out)
  BY StHart
<1>3. [St(h, t, q, e, out) EXCEPT !.err = Flag(x)] = St(h, t, q, x, out)
  BY StErr
<1> QED
  BY <1>1, <1>2, <1>3

\* The two ends of a program.
LEMMA RanIs ==
    ASSUME NEW h, NEW t, NEW r, NEW e \in {"ok", "failed"}, NEW out, NEW q
    PROVE  /\ Ran(St(h, t, r, e, out), Begun(With(h, q))) = St(h, t, q, e, out)
           /\ Ran(St(h, t, r, e, out), Stopped(With(h, q))) = St(h, t, q, "failed", out)
<1> DEFINE s == St(h, t, r, e, out)
           g == With(h, q)
           stopped == Stopped(g)
<1>1. Begun(g).h = g /\ Begun(g).ok = TRUE /\ stopped.h = g /\ stopped.ok = FALSE
  BY DEF Begun, Stopped
<1>2. s.err = Flag(e)
  BY StIs
<1>3. Ends(s, g, e) = St(h, t, q, e, out) /\ Ends(s, g, "failed") = St(h, t, q, "failed", out)
  BY StEnds
<1> HIDE DEF s, g, stopped
<1>4. Ran(s, Begun(g)) = Ends(s, g, e)
  <2>1. (s.err \/ ~Begun(g).ok) = Flag(e)
    BY <1>1, <1>2 DEF Flag
  <2>2. PICK y, z : y = (s.err \/ ~Begun(g).ok) /\ z = Begun(g).h
    OBVIOUS
  <2>3. Ran(s, Begun(g)) = [s EXCEPT !.h = z, !.err = y]
    BY <2>2 DEF Ran
  <2>4. Ends(s, g, e) = [s EXCEPT !.h = g, !.err = y]
    BY <2>1, <2>2 DEF Ends
  <2> QED
    BY <1>1, <2>2, <2>3, <2>4
<1>5. Ran(s, stopped) = Ends(s, g, "failed")
  <2>1. (s.err \/ ~stopped.ok) = Flag("failed")
    BY <1>1 DEF Flag
  <2>2. PICK y, z : y = (s.err \/ ~stopped.ok) /\ z = stopped.h
    OBVIOUS
  <2>3. Ran(s, stopped) = [s EXCEPT !.h = z, !.err = y]
    BY <2>2 DEF Ran
  <2>4. Ends(s, g, "failed") = [s EXCEPT !.h = g, !.err = y]
    BY <2>1, <2>2 DEF Ends
  <2> QED
    BY <1>1, <2>2, <2>3, <2>4
<1> QED
  BY <1>3, <1>4, <1>5 DEF s, g, stopped

\* One instruction takes effect if there is a program buffer and it is legal.
LEMMA ExecOne ==
    ASSUME NEW h, NEW t, NEW r, NEW e \in {"ok", "failed"}, NEW out, NEW i
    PROVE  rv_program_exec(St(h, t, r, e, out), << i >>)
              = IF h.progbuf /\ Legal(With(h, r), i)
                THEN St(h, t, Effect(With(h, r), i), e, out)
                ELSE St(h, t, r, "failed", out)
<1> DEFINE g == With(h, r)
           q == Effect(g, i)
<1>1. rv_program_exec(St(h, t, r, e, out), << i >>) = Ran(St(h, t, r, e, out), Run(g, << i >>))
  BY StIs DEF rv_program_exec
<1>2. g.progbuf = h.progbuf
  BY WithIs
<1>3. Run(g, << i >>) = IF h.progbuf /\ Legal(g, i) THEN Begun(With(h, q)) ELSE Stopped(g)
  BY <1>2, RunOne, StepIs
<1>4. /\ Ran(St(h, t, r, e, out), Begun(With(h, q))) = St(h, t, q, e, out)
      /\ Ran(St(h, t, r, e, out), Stopped(g)) = St(h, t, r, "failed", out)
  BY RanIs
<1> QED
  BY <1>1, <1>3, <1>4

\* Two take effect one after the other.
LEMMA ExecTwo ==
    ASSUME NEW h, NEW t, NEW r, NEW e \in {"ok", "failed"}, NEW out, NEW i, NEW j,
           h.progbuf, Legal(With(h, r), i),
           NEW q, q = Effect(With(h, r), i), Legal(With(h, q), j)
    PROVE  rv_program_exec(St(h, t, r, e, out), <<i, j>>) = St(h, t, Effect(With(h, q), j), e, out)
<1> DEFINE g == With(h, r)
           p == Effect(With(h, q), j)
<1>1. rv_program_exec(St(h, t, r, e, out), <<i, j>>) = Ran(St(h, t, r, e, out), Run(g, <<i, j>>))
  BY StIs DEF rv_program_exec
<1>2. g.progbuf = h.progbuf
  BY WithIs
<1>3. Step(Begun(g), i) = Begun(With(h, q)) /\ Step(Begun(With(h, q)), j) = Begun(With(h, p))
  BY StepIs
<1> HIDE DEF p
<1>4. Run(g, <<i, j>>) = Begun(With(h, p))
  <2>1. Step(Step(Begun(g), i), j) = Begun(With(h, p))
    BY <1>3
  <2>2. Run(g, <<i, j>>) = IF g.progbuf THEN Step(Step(Begun(g), i), j) ELSE Stopped(g)
    BY RunTwo
  <2> QED
    BY <1>2, <2>1, <2>2
<1>5. Ran(St(h, t, r, e, out), Begun(With(h, p))) = St(h, t, p, e, out)
  BY RanIs
<1> QED
  BY <1>1, <1>4, <1>5 DEF p

\* A program whose first instruction is illegal does nothing.
LEMMA ExecNone ==
    ASSUME NEW h, NEW t, NEW r, NEW e \in {"ok", "failed"}, NEW out, NEW i, NEW j,
           ~(h.progbuf /\ Legal(With(h, r), i))
    PROVE  rv_program_exec(St(h, t, r, e, out), <<i, j>>) = St(h, t, r, "failed", out)
<1> DEFINE g == With(h, r)
           stopped == Stopped(g)
<1>1. rv_program_exec(St(h, t, r, e, out), <<i, j>>) = Ran(St(h, t, r, e, out), Run(g, <<i, j>>))
  BY StIs DEF rv_program_exec
<1>2. g.progbuf = h.progbuf
  BY WithIs
<1>3. Step(stopped, j) = stopped
  <2>1. PICK y : y = FALSE
    OBVIOUS
  <2>2. [[h |-> g, ok |-> y] EXCEPT !.ok = y] = [h |-> g, ok |-> y]
    OBVIOUS
  <2> QED
    BY <2>1, <2>2 DEF Step, Stopped
<1>4. h.progbuf => Step(Begun(g), i) = stopped
  BY StepIs
<1> HIDE DEF stopped
<1>5. Run(g, <<i, j>>) = stopped
  BY <1>2, <1>3, <1>4, RunTwo DEF stopped
<1>6. Ran(St(h, t, r, e, out), stopped) = St(h, t, r, "failed", out)
  BY RanIs DEF stopped
<1> QED
  BY <1>1, <1>5, <1>6

\* The instructions.
Vset(r, vtype, vl) == [r EXCEPT !.vtype = vtype, !.vstart = 0, !.vl = vl]
Moved(r, n, v)     == [r EXCEPT ![n] = v, !.vstart = 0]

\* When each instruction is legal, and what it leaves in the registers.
LEMMA CsrrIs ==
    ASSUME NEW h, NEW r, NEW rd, NEW n
    PROVE  /\ Legal(With(h, r), Csrr(rd, n)) <=> Enabled(With(h, r), n)
           /\ Effect(With(h, r), Csrr(rd, n)) = Put(r, rd, r[n])
BY WithIs DEF Legal, Effect, Csrr, Put

LEMMA CsrwIs ==
    ASSUME NEW h, NEW r, NEW rs, NEW n
    PROVE  /\ Legal(With(h, r), Csrw(n, rs)) <=> Enabled(With(h, r), n) /\ n \notin ReadOnly
           /\ Effect(With(h, r), Csrw(n, rs)) = Put(r, n, Kept(With(h, r), n, r[rs]))
BY WithIs DEF Legal, Effect, Csrw, Put

LEMMA FmvIs ==
    ASSUME NEW h, NEW r, NEW rd, NEW rs
    PROVE  /\ Legal(With(h, r), Fmv(rd, rs)) <=> Enabled(With(h, r), "fcsr")
           /\ Effect(With(h, r), Fmv(rd, rs)) = Put(r, rd, r[rs])
BY WithIs DEF Legal, Effect, Fmv, Put

LEMMA VsetvlIs ==
    ASSUME NEW h, NEW r, NEW a, NEW b
    PROVE  LET T == Kept(With(h, r), "vtype", r[b]) IN
           /\ Legal(With(h, r), Vsetvl(a, b)) <=> Enabled(With(h, r), "vl")
           /\ Effect(With(h, r), Vsetvl(a, b)) = Vset(r, T, Min({r[a], VlMax(T)}))
<1> DEFINE i == Vsetvl(a, b)
           g == With(h, r)
<1>1. i.rd = a /\ i.rs = b /\ i.op = "vsetvl"
  BY DEF Vsetvl
<1>2. g.r = r
  BY WithIs
<1> HIDE DEF i, g
<1>3. Effect(g, i) = LET T == Kept(g, "vtype", g.r[i.rs])
                     IN  Vset(g.r, T, Min({g.r[i.rd], VlMax(T)}))
  BY <1>1 DEF Effect, Vset
<1>4. Legal(g, i) <=> Enabled(g, "vl")
  BY <1>1 DEF Legal
<1> QED
  BY <1>1, <1>2, <1>3, <1>4 DEF i, g

\* What vsetvl makes of a length.
Length(x, T) == Min({x, VlMax(T)})

\* The same, with the length named.
LEMMA VsetIs ==
    ASSUME NEW h, NEW r, NEW a, NEW b, NEW T, T = Kept(With(h, r), "vtype", r[b])
    PROVE  Effect(With(h, r), Vsetvl(a, b)) = Vset(r, T, Length(r[a], T))
<1> DEFINE i == Vsetvl(a, b)
           g == With(h, r)
<1>1. i.rd = a /\ i.rs = b /\ i.op = "vsetvl"
  BY DEF Vsetvl
<1>2. g.r = r
  BY WithIs
<1> HIDE DEF i, g
<1>3. Effect(g, i) = LET U == Kept(g, "vtype", g.r[i.rs])
                     IN  Vset(g.r, U, Length(g.r[i.rd], U))
  BY <1>1 DEF Effect, Vset, Length
<1>4. Kept(g, "vtype", g.r[i.rs]) = T
  BY <1>1, <1>2 DEF g
<1> QED
  BY <1>1, <1>2, <1>3, <1>4 DEF i, g

LEMMA VmvXSIs ==
    ASSUME NEW h, NEW r, NEW rd, NEW v
    PROVE  /\ Legal(With(h, r), VmvXS(rd, v)) <=> Enabled(With(h, r), "vl") /\ r.vtype # Vill
           /\ Effect(With(h, r), VmvXS(rd, v)) = Moved(r, rd, r[v][1])
<1> DEFINE i == VmvXS(rd, v)
           g == With(h, r)
<1>1. i.rd = rd /\ i.rs = v /\ i.op = "vmv.x.s"
  BY DEF VmvXS
<1>2. g.r = r
  BY WithIs
<1> HIDE DEF i, g
<1>3. Effect(g, i) = Moved(g.r, i.rd, g.r[i.rs][1])
  BY <1>1 DEF Effect, Moved
<1>4. Legal(g, i) <=> Enabled(g, "vl") /\ g.r.vtype # Vill
  BY <1>1 DEF Legal
<1> QED
  BY <1>1, <1>2, <1>3, <1>4 DEF i, g

LEMMA Vslide1downIs ==
    ASSUME NEW h, NEW r, NEW v, NEW rs, r.vtype = Xlen, r.vl = Elements
    PROVE  /\ Legal(With(h, r), Vslide1down(v, rs)) <=> Enabled(With(h, r), "vl")
           /\ Effect(With(h, r), Vslide1down(v, rs))
                = Moved(r, v, [e \in 1 .. Elements |-> IF e = Elements THEN r[rs] ELSE r[v][e + 1]])
<1> DEFINE i == Vslide1down(v, rs)
<1>1. i.rd = v /\ i.rs = rs /\ i.op = "vslide1down"
  BY DEF Vslide1down
<1>2. With(h, r).r = r
  BY WithIs
<1>3. Slid(With(h, r), i) = [e \in 1 .. Elements |-> IF e = Elements THEN r[rs] ELSE r[v][e + 1]]
  BY <1>1, <1>2 DEF Slid, Elements, Xlen
<1> DEFINE g == With(h, r)
<1> HIDE DEF i, g
<1>4. Effect(g, i) = Moved(g.r, i.rd, Slid(g, i))
  BY <1>1 DEF Effect, Moved
<1>5. Legal(g, i) <=> Enabled(g, "vl") /\ g.r.vtype # Vill
  BY <1>1 DEF Legal
<1>6. r.vtype # Vill
  BY DEF Xlen, Vill
<1> QED
  BY <1>1, <1>2, <1>3, <1>4, <1>5, <1>6 DEF i, g

\* vsetvl changes vtype, vl and vstart alone.
LEMMA VsetRegisters ==
    ASSUME NEW r, AreRegisters(r), NEW vtype, NEW vl
    PROVE  /\ AreRegisters(Vset(r, vtype, vl))
           /\ Vset(r, vtype, vl)["vtype"] = vtype /\ Vset(r, vtype, vl)["vl"] = vl
           /\ Vset(r, vtype, vl)["vstart"] = 0
           /\ \A m \in Registers : m \notin {"vtype", "vl", "vstart"} => Vset(r, vtype, vl)[m] = r[m]
BY DEF Vset, AreRegisters, Registers, Csrs, VectorCsrs

\* A vector instruction changes what it is about and vstart alone.
LEMMA MovedIs ==
    ASSUME NEW r, AreRegisters(r), NEW n \in Registers, n # "vstart", NEW v
    PROVE  /\ AreRegisters(Moved(r, n, v)) /\ Moved(r, n, v)[n] = v /\ Moved(r, n, v)["vstart"] = 0
           /\ \A m \in Registers : m \notin {n, "vstart"} => Moved(r, n, v)[m] = r[m]
BY DEF Moved, AreRegisters, Registers, Csrs, VectorCsrs
-----------------------------------------------------------------------------
(* Registers through the program buffer, or either way.                     *)

\* Only mstatus says whether an extension is on.
LEMMA EnabledSame ==
    ASSUME NEW h, NEW r, NEW q, r.mstatus = q.mstatus, NEW n
    PROVE  Enabled(With(h, r), n) <=> Enabled(With(h, q), n)
BY WithIs DEF Enabled

\* Only misa and vtype say what is kept of a value.
LEMMA KeptSame ==
    ASSUME NEW h, NEW r, NEW q, r.misa = q.misa, r.vtype = q.vtype, NEW n, NEW v
    PROVE  Kept(With(h, r), n, v) = Kept(With(h, q), n, v)
<1> DEFINE f == With(h, r)
           g == With(h, q)
<1>1. f.ext = g.ext /\ f.r.misa = g.r.misa /\ f.r.vtype = g.r.vtype
  BY WithIs
<1> HIDE DEF f, g
<1> QED
  BY <1>1, Zenon DEF Kept, f, g

\* The registers that carry values.
LEMMA FpIs == "fp" \in Gprs /\ "s1" \in Gprs /\ Gprs \subseteq Registers
BY DEF Gprs, Registers

\* A register that gets back what it held.
LEMMA PutBack ==
    ASSUME NEW r, AreRegisters(r), NEW n \in Registers, NEW v
    PROVE  Put(Put(r, n, v), n, r[n]) = r /\ Put(r, n, r[n]) = r
<1>1. ASSUME NEW q, AreRegisters(q), \A m \in Registers : m # n => q[m] = r[m]
      PROVE  Put(q, n, r[n]) = r
  BY <1>1, PutIs, SameRegisters
<1> QED
  BY <1>1, PutIs

\* All that V adds is on together.
LEMMA VectorCsrsAlike ==
    ASSUME NEW g, NEW n \in VectorCsrs \union Vectors
    PROVE  Enabled(g, n) <=> "v" \in g.ext /\ Vs(g.r.mstatus) = 1
<1>1. n \notin Fprs \union {"fcsr"} /\ n \in Vectors \union VectorCsrs
  BY DEF Fprs, Vectors, VectorCsrs
<1> QED
  BY <1>1 DEF Enabled

\* The carried value: out is what the register holds, or what fp does.
LEMMA ReadScalarIs ==
    ASSUME NEW h, NEW t, Ready(h, t), NEW r, AreRegisters(r), NEW e \in {"ok", "failed"}, NEW out,
           NEW n \in Fprs \union Csrs
    PROVE  ReadScalar(St(h, t, r, e, out), n)
              = St(h, t, r, "ok", IF h.progbuf /\ Enabled(With(h, r), n) THEN r[n] ELSE r["fp"])
<1> DEFINE s == St(h, t, r, e, out)
           carry == IF n \in Fprs THEN Fmv("fp", n) ELSE Csrr("fp", n)
           legal == h.progbuf /\ Enabled(With(h, r), n)
           q == IF legal THEN Put(r, "fp", r[n]) ELSE r
           x == IF legal THEN r[n] ELSE r["fp"]
<1>1. (Legal(With(h, r), carry) <=> Enabled(With(h, r), n)) /\ Effect(With(h, r), carry) = Put(r, "fp", r[n])
  <2>1. CASE n \in Fprs
    <3>1. Enabled(With(h, r), "fcsr") <=> Enabled(With(h, r), n)
      BY <2>1 DEF Enabled, Fprs, Vectors, VectorCsrs
    <3> QED
      BY <2>1, <3>1, FmvIs
  <2>2. CASE n \notin Fprs
    BY <2>2, CsrrIs
  <2> QED
    BY <2>1, <2>2
<1> HIDE DEF carry
<1>2. PICK f \in {"ok", "failed"} : rv_program_exec(s, << carry >>) = St(h, t, q, f, out)
  <2>1. CASE legal
    <3>1. rv_program_exec(s, << carry >>) = St(h, t, Effect(With(h, r), carry), e, out)
      BY <1>1, <2>1, ExecOne, ZenonT(60)
    <3> QED
      BY <1>1, <2>1, <3>1
  <2>2. CASE ~legal
    <3>1. rv_program_exec(s, << carry >>) = St(h, t, r, "failed", out)
      BY <1>1, <2>2, ExecOne
    <3> QED
      BY <2>2, <3>1
  <2> QED
    BY <2>1, <2>2
<1>3. "fp" \in Registers /\ q["fp"] = x /\ AreRegisters(q) /\ Put(q, "fp", r["fp"]) = r
  BY FpIs, PutIs, PutBack
<1> HIDE DEF q, x
<1>4. rv_register_read(St(h, t, q, f, out), "fp") = St(h, t, q, "ok", x)
  BY <1>3, FpIs, GprRead
<1>5. Borrowed(s, "fp") = r["fp"]
  BY FpIs, GprRead
<1>6. FpBack(St(h, t, q, "ok", x), r["fp"]) = St(h, t, r, "ok", x)
  BY <1>3, FpBackIs
<1> HIDE DEF s
<1>7. ReadScalar(s, n) = FpBack(rv_register_read(rv_program_exec(s, << carry >>), "fp"), Borrowed(s, "fp"))
  BY Zenon DEF ReadScalar, carry
<1> QED
  BY <1>2, <1>4, <1>5, <1>6, <1>7 DEF s, x

\* There is a way to register n.
Accessible(h, r, n) == Enabled(With(h, r), n) /\ (h.progbuf \/ Direct(h, n))

\* What a read of n leaves in a buffer that holds out.
Fetched(h, n, out, v) == IF Direct(h, n) THEN Lands(h, n, out, v) ELSE v

\* A register is read one way or the other, or out is what fp holds.
LEMMA EitherIs ==
    ASSUME NEW h, NEW t, Ready(h, t), NEW r, AreRegisters(r), NEW e \in {"ok", "failed"}, NEW out,
           NEW n \in Fprs \union Csrs
    PROVE  ReadEither(St(h, t, r, e, out), n)
              = St(h, t, r, "ok", IF Accessible(h, r, n) THEN Fetched(h, n, out, r[n]) ELSE r["fp"])
<1> DEFINE y == Lands(h, n, out, Junk)
<1>1. CASE Direct(h, n) /\ Enabled(With(h, r), n)
  <2>1. rv_register_read(St(h, t, r, e, out), n) = St(h, t, r, "ok", Lands(h, n, out, r[n]))
    BY <1>1, RegisterRead
  <2>2. St(h, t, r, "ok", Lands(h, n, out, r[n])).err = FALSE
    BY StIs, FlagIs
  <2> QED
    BY <1>1, <2>1, <2>2 DEF ReadEither, OrRead, Accessible, Fetched
<1>2. CASE ~(Direct(h, n) /\ Enabled(With(h, r), n))
  <2>1. rv_register_read(St(h, t, r, e, out), n) = St(h, t, r, "failed", y)
    BY <1>2, RegisterRead
  <2> HIDE DEF y
  <2>2. St(h, t, r, "failed", y).err = TRUE
    BY StIs, FlagIs
  <2>3. ReadScalar(St(h, t, r, "failed", y), n)
           = St(h, t, r, "ok", IF h.progbuf /\ Enabled(With(h, r), n) THEN r[n] ELSE r["fp"])
    BY ReadScalarIs
  <2> QED
    BY <1>2, <2>1, <2>2, <2>3 DEF ReadEither, OrRead, Accessible, Fetched
<1> QED
  BY <1>1, <1>2

\* All but dcsr fill the buffer.
LEMMA ReadEitherIs ==
    ASSUME NEW h, NEW t, Ready(h, t), NEW r, AreRegisters(r), NEW e \in {"ok", "failed"}, NEW out,
           NEW n \in Fprs \union Csrs, n # "dcsr"
    PROVE  ReadEither(St(h, t, r, e, out), n)
              = St(h, t, r, "ok", IF Accessible(h, r, n) THEN r[n] ELSE r["fp"])
BY EitherIs DEF Fetched, Lands

\* What a write of v to n leaves in the registers.
Written(h, r, n, v) ==
    IF Accessible(h, r, n) /\ n \notin ReadOnly THEN Put(r, n, Kept(With(h, r), n, v)) ELSE r

\* What vsetvl leaves in them.
Configured(h, r, n, v) ==
    IF ~(h.progbuf /\ Enabled(With(h, r), "vl")) THEN r
    ELSE IF n = "vl" THEN Vset(r, r.vtype, Min({v, VlMax(r.vtype)}))
    ELSE LET T == Kept(With(h, r), "vtype", v) IN Vset(r, T, Min({r.vl, VlMax(T)}))
\* fp and s1 get back what they held.
LEMMA BothBack ==
    ASSUME NEW c, AreRegisters(c), NEW q, AreRegisters(q),
           \A m \in Registers : m \notin {"fp", "s1"} => c[m] = q[m]
    PROVE  Put(Put(c, "s1", q["s1"]), "fp", q["fp"]) = q
<1> DEFINE d == Put(c, "s1", q["s1"])
<1>1. AreRegisters(d) /\ d["s1"] = q["s1"] /\ \A m \in Registers : m # "s1" => d[m] = c[m]
  BY PutIs, FpIs
<1> HIDE DEF d
<1> DEFINE f == Put(d, "fp", q["fp"])
<1>2. AreRegisters(f) /\ f["fp"] = q["fp"] /\ \A m \in Registers : m # "fp" => f[m] = d[m]
  BY <1>1, PutIs, FpIs
<1> HIDE DEF f
<1>3. \A m \in Registers : f[m] = q[m]
  BY <1>1, <1>2, FpIs
<1> QED
  BY <1>2, <1>3, SameRegisters DEF f, d

\* vl or vtype is written, and fp and s1 are as before.
LEMMA WriteVectorIs ==
    ASSUME NEW h, NEW t, Ready(h, t), NEW r, Holds(h, r), NEW e \in {"ok", "failed"}, NEW out,
           NEW n \in {"vl", "vtype"}, NEW v
    PROVE  WriteVector(St(h, t, r, e, out), n, v) = St(h, t, Configured(h, r, n, v), "ok", out)
<1> DEFINE s == St(h, t, r, e, out)
           first == IF n = "vl" THEN Csrr("s1", "vtype") ELSE Csrr("s1", "vl")
           second == IF n = "vl" THEN Vsetvl("fp", "s1") ELSE Vsetvl("s1", "fp")
           other == IF n = "vl" THEN "vtype" ELSE "vl"
           a == Put(r, "fp", v)
           q == Configured(h, r, n, v)
<1>1. /\ AreRegisters(r) /\ {"fp", "s1", "vl", "vtype", "vstart", "mstatus", "misa"} \subseteq Registers
      /\ r.vtype \in {Xlen, Half, Vill}
  BY DEF Holds, AreRegisters, Registers, Gprs, Csrs, VectorCsrs
<1>2. /\ AreRegisters(a) /\ a["fp"] = v
      /\ \A m \in Registers : m # "fp" => a[m] = r[m]
  BY <1>1, PutIs
<1>3. rv_register_write(s, "fp", v) = St(h, t, a, "ok", out)
  BY FpIs, GprWrite
<1>4. Borrowed(s, "fp") = r["fp"] /\ Borrowed(s, "s1") = r["s1"]
  BY FpIs, GprRead
<1> HIDE DEF a, s
<1>5. WriteVector(s, n, v)
        = FpBack(rv_register_write(rv_program_exec(rv_register_write(s, "fp", v), <<first, second>>),
                                   "s1", Borrowed(s, "s1")),
                 Borrowed(s, "fp"))
  <2>1. CASE n = "vl"
    BY <2>1 DEF WriteVector
  <2>2. CASE n # "vl"
    BY <2>2 DEF WriteVector
  <2> QED
    BY <2>1, <2>2
<1>6. ASSUME NEW f \in {"ok", "failed"}, NEW c, AreRegisters(c),
             rv_program_exec(St(h, t, a, "ok", out), <<first, second>>) = St(h, t, c, f, out),
             NEW p, AreRegisters(p), p["fp"] = r["fp"], p["s1"] = r["s1"],
             \A m \in Registers : m \notin {"fp", "s1"} => c[m] = p[m]
      PROVE  WriteVector(s, n, v) = St(h, t, p, "ok", out)
  <2>1. rv_register_write(St(h, t, c, f, out), "s1", r["s1"]) = St(h, t, Put(c, "s1", r["s1"]), "ok", out)
    BY FpIs, GprWrite
  <2>2. FpBack(St(h, t, Put(c, "s1", r["s1"]), "ok", out), r["fp"])
          = St(h, t, Put(Put(c, "s1", r["s1"]), "fp", r["fp"]), "ok", out)
    BY FpBackIs
  <2>3. Put(Put(c, "s1", p["s1"]), "fp", p["fp"]) = p
    BY <1>6, BothBack
  <2> QED
    BY <1>3, <1>4, <1>5, <1>6, <2>1, <2>2, <2>3
<1>7. Enabled(With(h, a), "vtype") <=> Enabled(With(h, a), "vl")
  BY VectorCsrsAlike DEF VectorCsrs
<1>8. Enabled(With(h, a), "vl") <=> Enabled(With(h, r), "vl")
  BY <1>1, <1>2, EnabledSame
<1>9. (Legal(With(h, a), first) <=> Enabled(With(h, r), "vl"))
      /\ Effect(With(h, a), first) = Put(a, "s1", r[other])
  BY <1>1, <1>2, <1>7, <1>8, CsrrIs
<1>10. CASE ~(h.progbuf /\ Enabled(With(h, r), "vl"))
  <2>1. rv_program_exec(St(h, t, a, "ok", out), <<first, second>>) = St(h, t, a, "failed", out)
    BY <1>9, <1>10, ExecNone
  <2>2. q = r
    BY <1>10 DEF Configured
  <2> QED
    BY <1>1, <1>2, <1>6, <2>1, <2>2 DEF s
<1>11. CASE h.progbuf /\ Enabled(With(h, r), "vl")
  <2> DEFINE b == Put(a, "s1", r[other])
             T == IF n = "vl" THEN r.vtype ELSE Kept(With(h, r), "vtype", v)
             L == IF n = "vl" THEN Min({v, VlMax(T)}) ELSE Min({r.vl, VlMax(T)})
  <2>1. /\ AreRegisters(b) /\ b["s1"] = r[other] /\ b["fp"] = v
        /\ \A m \in Registers : m \notin {"fp", "s1"} => b[m] = r[m]
    BY <1>1, <1>2, PutIs
  <2> HIDE DEF b
  <2>2. Enabled(With(h, b), "vl")
    BY <1>1, <1>11, <2>1, EnabledSame
  <2>3. \A x : Kept(With(h, b), "vtype", x) = Kept(With(h, r), "vtype", x)
    BY <1>1, <2>1, KeptSame
  <2>4. Kept(With(h, r), "vtype", r.vtype) = r.vtype
    BY <1>1 DEF Kept
  <2>5. Legal(With(h, b), second) /\ Effect(With(h, b), second) = Vset(b, T, L)
    <3>1. CASE n = "vl"
      BY <2>1, <2>2, <2>3, <2>4, <3>1, VsetvlIs
    <3>2. CASE n # "vl"
      <4>1. second = Vsetvl("s1", "fp") /\ b["s1"] = r.vl /\ b["fp"] = v
        BY <2>1, <3>2
      <4>2. Kept(With(h, b), "vtype", b["fp"]) = T
        BY <2>3, <3>2, <4>1
      <4>3. Effect(With(h, b), Vsetvl("s1", "fp")) = Vset(b, T, Length(b["s1"], T))
        BY <4>2, VsetIs
      <4>5. Length(b["s1"], T) = L
        BY <3>2, <4>1 DEF Length
      <4>7. Effect(With(h, b), second) = Vset(b, T, L)
        BY <4>1, <4>3, <4>5
      <4>4. Legal(With(h, b), second)
        BY <2>2, <4>1, VsetvlIs
      <4> QED
        BY <4>4, <4>7
    <3> QED
      BY <3>1, <3>2
  <2>6. rv_program_exec(St(h, t, a, "ok", out), <<first, second>>) = St(h, t, Vset(b, T, L), "ok", out)
    <3>1. Legal(With(h, a), first) /\ b = Effect(With(h, a), first)
      BY <1>9, <1>11 DEF b
    <3>2. rv_program_exec(St(h, t, a, "ok", out), <<first, second>>)
            = St(h, t, Effect(With(h, b), second), "ok", out)
      BY <1>11, <2>5, <3>1, ExecTwo
    <3> QED
      BY <2>5, <3>2
  <2>7. q = Vset(r, T, L)
    BY <1>11 DEF Configured
  <2> HIDE DEF T, L, q
  <2>8. /\ AreRegisters(q) /\ q["vtype"] = T /\ q["vl"] = L /\ q["vstart"] = 0
        /\ \A m \in Registers : m \notin {"vtype", "vl", "vstart"} => q[m] = r[m]
    BY <1>1, <2>7, VsetRegisters
  <2> DEFINE c == Vset(b, T, L)
  <2>9. /\ AreRegisters(c) /\ c["vtype"] = T /\ c["vl"] = L /\ c["vstart"] = 0
        /\ \A m \in Registers : m \notin {"vtype", "vl", "vstart"} => c[m] = b[m]
    BY <2>1, VsetRegisters
  <2> HIDE DEF c
  <2>10. \A m \in Registers : m \notin {"fp", "s1"} => c[m] = q[m]
    BY <2>1, <2>8, <2>9
  <2>11. q["fp"] = r["fp"] /\ q["s1"] = r["s1"]
    BY <1>1, <2>8
  <2>12. WriteVector(s, n, v) = St(h, t, q, "ok", out)
    BY <1>6, <2>6, <2>8, <2>9, <2>10, <2>11 DEF c
  <2> QED
    BY <2>12 DEF s, q
<1> QED
  BY <1>10, <1>11

\* fp gets back what it held, and n keeps what it got.
LEMMA CarriedBack ==
    ASSUME NEW r, AreRegisters(r), NEW n \in Registers, n # "fp", NEW v, NEW k
    PROVE  Put(Put(Put(r, "fp", v), n, k), "fp", r["fp"]) = Put(r, n, k)
<1> DEFINE a == Put(r, "fp", v)
           b == Put(a, n, k)
           c == Put(b, "fp", r["fp"])
           q == Put(r, n, k)
<1>1. AreRegisters(a) /\ \A m \in Registers : m # "fp" => a[m] = r[m]
  BY PutIs, FpIs
<1> HIDE DEF a
<1>2. AreRegisters(b) /\ b[n] = k /\ \A m \in Registers : m # n => b[m] = a[m]
  BY <1>1, PutIs
<1> HIDE DEF b
<1>3. AreRegisters(c) /\ c["fp"] = r["fp"] /\ \A m \in Registers : m # "fp" => c[m] = b[m]
  BY <1>2, PutIs, FpIs
<1>4. AreRegisters(q) /\ q[n] = k /\ \A m \in Registers : m # n => q[m] = r[m]
  BY PutIs
<1> HIDE DEF c, q
<1>5. \A m \in Registers : c[m] = q[m]
  BY <1>1, <1>2, <1>3, <1>4
<1> QED
  BY <1>3, <1>4, <1>5, SameRegisters DEF a, b, c, q

\* An FPR or another CSR is written, and fp is as before.
LEMMA WriteScalarIs ==
    ASSUME NEW h, NEW t, Ready(h, t), NEW r, AreRegisters(r), NEW e \in {"ok", "failed"}, NEW out,
           NEW n \in (Fprs \union Csrs) \ {"vl", "vtype"}, NEW v
    PROVE  WriteScalar(St(h, t, r, e, out), n, v)
              = St(h, t, IF h.progbuf /\ Enabled(With(h, r), n) /\ n \notin ReadOnly
                         THEN Put(r, n, Kept(With(h, r), n, v)) ELSE r, "ok", out)
<1> DEFINE s == St(h, t, r, e, out)
           carry == IF n \in Fprs THEN Fmv(n, "fp") ELSE Csrw(n, "fp")
           a == Put(r, "fp", v)
           k == Kept(With(h, r), n, v)
           legal == Enabled(With(h, r), n) /\ n \notin ReadOnly
<1>1. /\ n \in Registers /\ {"fp", "mstatus", "misa", "vtype"} \subseteq Registers /\ n # "fp"
      /\ (n \in Fprs => n \notin Csrs)
  BY DEF Registers, Fprs, Gprs, Csrs, VectorCsrs
<1>2. AreRegisters(a) /\ a["fp"] = v /\ \A m \in Registers : m # "fp" => a[m] = r[m]
  BY <1>1, PutIs
<1>3. rv_register_write(s, "fp", v) = St(h, t, a, "ok", out)
  BY FpIs, GprWrite
<1>4. Borrowed(s, "fp") = r["fp"]
  BY FpIs, GprRead
<1> HIDE DEF a
<1>5. \A m : Enabled(With(h, a), m) <=> Enabled(With(h, r), m)
  BY <1>1, <1>2, EnabledSame
<1>6. (Legal(With(h, a), carry) <=> legal) /\ Effect(With(h, a), carry) = Put(a, n, k)
  <2>1. CASE n \in Fprs
    <3>1. Enabled(With(h, r), "fcsr") <=> Enabled(With(h, r), n)
      BY <2>1 DEF Enabled, Fprs, Vectors, VectorCsrs
    <3>2. n \notin ReadOnly /\ k = v
      BY <2>1 DEF ReadOnly, Fprs, Kept
    <3>3. /\ Legal(With(h, a), Fmv(n, "fp")) <=> Enabled(With(h, a), "fcsr")
          /\ Effect(With(h, a), Fmv(n, "fp")) = Put(a, n, a["fp"])
      BY FmvIs
    <3> QED
      BY <1>2, <1>5, <2>1, <3>1, <3>2, <3>3
  <2>2. CASE n \notin Fprs
    <3>1. Kept(With(h, a), n, v) = k
      BY <1>1, <1>2, KeptSame
    <3>2. /\ Legal(With(h, a), Csrw(n, "fp")) <=> Enabled(With(h, a), n) /\ n \notin ReadOnly
          /\ Effect(With(h, a), Csrw(n, "fp")) = Put(a, n, Kept(With(h, a), n, a["fp"]))
      BY CsrwIs
    <3> QED
      BY <1>2, <1>5, <2>2, <3>1, <3>2
  <2> QED
    BY <2>1, <2>2
<1> HIDE DEF carry, s, k
<1>7. WriteScalar(s, n, v) = FpBack(rv_program_exec(rv_register_write(s, "fp", v), << carry >>), Borrowed(s, "fp"))
  BY Zenon DEF WriteScalar, carry
<1>8. CASE h.progbuf /\ legal
  <2>1. rv_program_exec(St(h, t, a, "ok", out), << carry >>) = St(h, t, Put(a, n, k), "ok", out)
    BY <1>6, <1>8, ExecOne
  <2>2. FpBack(St(h, t, Put(a, n, k), "ok", out), r["fp"]) = St(h, t, Put(Put(a, n, k), "fp", r["fp"]), "ok", out)
    BY FpBackIs
  <2>3. Put(Put(a, n, k), "fp", r["fp"]) = Put(r, n, k)
    BY <1>1, CarriedBack DEF a
  <2> QED
    BY <1>3, <1>4, <1>7, <1>8, <2>1, <2>2, <2>3 DEF s, k
<1>9. CASE ~(h.progbuf /\ legal)
  <2>1. rv_program_exec(St(h, t, a, "ok", out), << carry >>) = St(h, t, a, "failed", out)
    BY <1>6, <1>9, ExecOne
  <2>2. FpBack(St(h, t, a, "failed", out), r["fp"]) = St(h, t, Put(a, "fp", r["fp"]), "ok", out)
    BY FpBackIs
  <2>3. Put(a, "fp", r["fp"]) = r
    BY <1>1, PutBack DEF a
  <2> QED
    BY <1>3, <1>4, <1>7, <1>9, <2>1, <2>2, <2>3 DEF s
<1> QED
  BY <1>8, <1>9

\* What a write of v to the FPR or CSR n leaves in the registers, either way.
Stored(h, r, n, v) == IF n \in {"vl", "vtype"} THEN Configured(h, r, n, v) ELSE Written(h, r, n, v)

\* An FPR or CSR is written one way or the other.
LEMMA WriteEitherIs ==
    ASSUME NEW h, NEW t, Ready(h, t), NEW r, Holds(h, r), NEW e \in {"ok", "failed"}, NEW out,
           NEW n \in Fprs \union Csrs, NEW v
    PROVE  WriteEither(St(h, t, r, e, out), n, v) = St(h, t, Stored(h, r, n, v), "ok", out)
<1> DEFINE s == St(h, t, r, e, out)
           k == Kept(With(h, r), n, v)
           direct == Direct(h, n) /\ Enabled(With(h, r), n) /\ n \notin ReadOnly
<1>1. rv_register_write(s, n, v) = IF direct THEN St(h, t, Put(r, n, k), "ok", out) ELSE St(h, t, r, "failed", out)
  BY RegisterWrite
<1>2. AreRegisters(r)
  BY DEF Holds, AreRegisters
<1> HIDE DEF k
<1>3. CASE direct
  <2>1. St(h, t, Put(r, n, k), "ok", out).err = FALSE
    BY StIs, FlagIs
  <2>2. Stored(h, r, n, v) = Put(r, n, k)
    BY <1>3 DEF Stored, Written, Accessible, ReadOnly, k
  <2> QED
    BY <1>1, <1>3, <2>1, <2>2 DEF WriteEither, OrWrite
<1>4. CASE ~direct
  <2>1. St(h, t, r, "failed", out).err = TRUE
    BY StIs, FlagIs
  <2>2. WriteScalar(St(h, t, r, "failed", out), n, v) = St(h, t, Stored(h, r, n, v), "ok", out)
    <3>1. CASE n \in {"vl", "vtype"}
      <4>1. WriteVector(St(h, t, r, "failed", out), n, v) = St(h, t, Configured(h, r, n, v), "ok", out)
        BY <3>1, WriteVectorIs
      <4> QED
        BY <3>1, <4>1 DEF WriteScalar, Stored
    <3>2. CASE n \notin {"vl", "vtype"}
      <4>1. WriteScalar(St(h, t, r, "failed", out), n, v)
               = St(h, t, IF h.progbuf /\ Enabled(With(h, r), n) /\ n \notin ReadOnly
                          THEN Put(r, n, k) ELSE r, "ok", out)
        BY <1>2, <3>2, WriteScalarIs DEF k
      <4>2. Stored(h, r, n, v) = IF h.progbuf /\ Enabled(With(h, r), n) /\ n \notin ReadOnly
                                 THEN Put(r, n, k) ELSE r
        BY <1>4, <3>2 DEF Stored, Written, Accessible, k
      <4> QED
        BY <4>1, <4>2
    <3> QED
      BY <3>1, <3>2
  <2> QED
    BY <1>1, <1>4, <2>1, <2>2 DEF WriteEither, OrWrite
<1> QED
  BY <1>3, <1>4

-----------------------------------------------------------------------------
(* What registers hold is what they can hold.                               *)

\* The lesser of two numbers.
LEMMA LesserIs ==
    ASSUME NEW a \in Nat, NEW b \in Nat
    PROVE  Min({a, b}) = IF a =< b THEN a ELSE b
<1> DEFINE Least(x) == x \in {a, b} /\ \A y \in {a, b} : x =< y
           m == IF a =< b THEN a ELSE b
<1>1. Least(m)
  OBVIOUS
<1>2. Min({a, b}) = CHOOSE x \in {a, b} : \A y \in {a, b} : x =< y
  BY DEF Min
<1>3. \A x \in {a, b} : (\A y \in {a, b} : x =< y) => x = m
  OBVIOUS
<1> QED
  BY <1>1, <1>2, <1>3

\* vl is what was asked for, or as much of it as vtype allows.
LEMMA LengthIs ==
    ASSUME NEW v \in Nat, NEW T \in {Xlen, Half, Vill}
    PROVE  /\ Length(v, T) \in 0 .. VlMax(T) /\ VlMax(T) \in Nat
           /\ Length(v, T) = IF v =< VlMax(T) THEN v ELSE VlMax(T)
<1>1. VlMax(T) \in Nat
  BY DEF VlMax, Elements, Xlen, Half, Vill
<1> QED
  BY <1>1, LesserIs DEF Length

\* mstatus with other FS and VS.
LEMMA SwitchedBits ==
    ASSUME NEW m \in Nat, NEW a \in 0 .. 1, NEW b \in 0 .. 1,
           NEW k, k = (m - (m % 4)) + 2 * a + b
    PROVE  k \in Nat /\ Fs(k) = a /\ Vs(k) = b /\ k \div 4 = m \div 4 /\ k - (k % 4) = m - (m % 4)
<1>1. PICK i \in Nat, j \in 0 .. 3 : m = 4 * i + j
  <2>1. m \div 4 \in Nat /\ m % 4 \in 0 .. 3 /\ m = 4 * (m \div 4) + (m % 4)
    OBVIOUS
  <2> QED
    BY <2>1
<1>2. m % 4 = j /\ m \div 4 = i
  BY <1>1
<1>3. k = 4 * i + 2 * a + b
  BY <1>1, <1>2
<1>4. k % 4 = 2 * a + b /\ k \div 4 = i /\ k % 2 = b /\ k \div 2 = 2 * i + a
  BY <1>3
<1>5. (2 * i + a) % 2 = a
  OBVIOUS
<1> QED
  BY <1>1, <1>2, <1>3, <1>4, <1>5 DEF Fs, Vs

\* mstatus is made of FS, VS and the rest.
LEMMA BitsIs ==
    ASSUME NEW m \in Nat
    PROVE  Fs(m) \in 0 .. 1 /\ Vs(m) \in 0 .. 1 /\ m = (m - (m % 4)) + 2 * Fs(m) + Vs(m)
<1>1. m % 4 = 2 * ((m \div 2) % 2) + (m % 2)
  OBVIOUS
<1> QED
  BY <1>1 DEF Fs, Vs

\* FS and VS stay off where there is no F or V.
LEMMA MstatusIs ==
    ASSUME NEW h, NEW v \in Nat, NEW k, k = Kept(h, "mstatus", v)
    PROVE  /\ k \in Nat /\ k \div 4 = v \div 4
           /\ Fs(k) = (IF "f" \in h.ext THEN Fs(v) ELSE 0)
           /\ Vs(k) = (IF "v" \in h.ext THEN Vs(v) ELSE 0)
           /\ Kept(h, "mstatus", k) = k
<1> DEFINE a == IF "f" \in h.ext THEN Fs(v) ELSE 0
           b == IF "v" \in h.ext THEN Vs(v) ELSE 0
<1>1. a \in 0 .. 1 /\ b \in 0 .. 1
  BY BitsIs
<1>2. k = (v - (v % 4)) + 2 * a + b
  BY DEF Kept
<1>3. k \in Nat /\ Fs(k) = a /\ Vs(k) = b /\ k \div 4 = v \div 4 /\ k - (k % 4) = v - (v % 4)
  BY <1>1, <1>2, SwitchedBits
<1>4. Kept(h, "mstatus", k) = (k - (k % 4)) + 2 * (IF "f" \in h.ext THEN Fs(k) ELSE 0)
                                + (IF "v" \in h.ext THEN Vs(k) ELSE 0)
  BY DEF Kept
<1>5. Kept(h, "mstatus", k) = (k - (k % 4)) + 2 * a + b
  BY <1>3, <1>4
<1> HIDE DEF a, b
<1> QED
  BY <1>2, <1>3, <1>5 DEF a, b

\* The lower half of a number is its own lower half.
LEMMA LowerIs ==
    ASSUME NEW v \in Nat
    PROVE  Lower(v) \in 0 .. 255 /\ Lower(Lower(v)) = Lower(v) /\ Upper(v) + Lower(v) = v
BY DEF Lower, Upper

\* What a register can be given.
Fits(n, v) == /\ n \in {"mstatus", "dcsr", "vl"} => v \in Nat
              /\ n \in Vectors => v = [i \in 1 .. Elements |-> v[i]]

\* Registers that differ in one that can hold what it does.
LEMMA HoldsPut ==
    ASSUME NEW h, NEW r, Holds(h, r), NEW n \in Registers \ {"vtype", "vl"}, NEW v, Fits(n, v)
    PROVE  Holds(h, Put(r, n, Kept(With(h, r), n, v)))
<1> DEFINE k == Kept(With(h, r), n, v)
           q == Put(r, n, k)
<1>1. AreRegisters(r) /\ {"mstatus", "dcsr", "vtype", "vl"} \subseteq Registers /\ Vectors \subseteq Registers
  BY DEF Holds, AreRegisters, Registers, Csrs, VectorCsrs
<1>2. AreRegisters(q) /\ q[n] = k /\ \A m \in Registers : m # n => q[m] = r[m]
  BY <1>1, PutIs
<1>3. \A x : Kept(With(h, r), "mstatus", x) = Kept(h, "mstatus", x)
  BY WithIs DEF Kept
<1>4. q["mstatus"] \in Nat /\ Kept(h, "mstatus", q["mstatus"]) = q["mstatus"]
  <2>1. CASE n = "mstatus"
    <3>1. k = Kept(h, "mstatus", v) /\ v \in Nat
      BY <1>3, <2>1 DEF Fits
    <3> HIDE DEF k
    <3> QED
      BY <1>2, <2>1, <3>1, MstatusIs
  <2>2. CASE n # "mstatus"
    BY <1>1, <1>2, <2>2 DEF Holds
  <2> QED
    BY <2>1, <2>2
<1>5. q["dcsr"] \in Nat /\ Kept(h, "dcsr", q["dcsr"]) = q["dcsr"]
  <2>1. \A x : Kept(h, "dcsr", x) = Lower(x) /\ Kept(With(h, r), "dcsr", x) = Lower(x)
    BY DEF Kept
  <2>2. ASSUME n = "dcsr" PROVE k \in Nat /\ Lower(k) = k
    <3>1. k = Lower(v) /\ v \in Nat
      BY <2>1, <2>2 DEF Fits
    <3> HIDE DEF k
    <3> QED
      BY <3>1, LowerIs
  <2> QED
    BY <1>1, <1>2, <2>1, <2>2 DEF Holds
<1>6. q["vtype"] \in {Xlen, Half, Vill} /\ q["vl"] \in 0 .. VlMax(q["vtype"])
  BY <1>1, <1>2 DEF Holds
<1>7. ASSUME NEW m \in Vectors
      PROVE  q[m] = [e \in 1 .. Elements |-> q[m][e]]
  <2>1. CASE n = m
    <3>1. k = v /\ v = [i \in 1 .. Elements |-> v[i]]
      BY <2>1 DEF Kept, Fits, Vectors
    <3> HIDE DEF k, q
    <3> QED
      BY <1>2, <2>1, <3>1
  <2>2. CASE n # m
    <3>1. r[m] = [e \in 1 .. Elements |-> r[m][e]]
      BY DEF Holds
    <3>2. q[m] = r[m]
      BY <1>1, <1>2, <2>2
    <3> QED
      BY <3>1, <3>2
  <2> QED
    BY <2>1, <2>2
<1> HIDE DEF q
<1> QED
  BY <1>2, <1>4, <1>5, <1>6, <1>7 DEF Holds, AreRegisters, q

\* The same, where nothing the others depend on has changed.
LEMMA HoldsSame ==
    ASSUME NEW h, NEW r, Holds(h, r), NEW q, AreRegisters(q),
           \A n \in {"mstatus", "dcsr"} \union Vectors : q[n] = r[n],
           q.vtype \in {Xlen, Half, Vill}, q.vl \in 0 .. VlMax(q.vtype)
    PROVE  Holds(h, q)
BY DEF Holds, AreRegisters

\* A write leaves registers that hold what they can hold.
LEMMA HoldsStored ==
    ASSUME NEW h, NEW r, Holds(h, r), NEW n \in Fprs \union Csrs, NEW v, Fits(n, v)
    PROVE  Holds(h, Stored(h, r, n, v))
<1>1. AreRegisters(r) /\ r.vtype \in {Xlen, Half, Vill} /\ r.vl \in 0 .. VlMax(r.vtype)
  BY DEF Holds, AreRegisters
<1>2. CASE n \notin {"vl", "vtype"}
  <2>1. n \in Registers \ {"vtype", "vl"}
    BY <1>2 DEF Registers
  <2>2. Holds(h, Put(r, n, Kept(With(h, r), n, v)))
    BY <2>1, HoldsPut
  <2> QED
    BY <1>2, <2>2 DEF Stored, Written
<1>3. ASSUME NEW T \in {Xlen, Half, Vill}, NEW x \in Nat
      PROVE  Holds(h, Vset(r, T, Length(x, T)))
  <2> DEFINE L == Length(x, T)
             q == Vset(r, T, L)
  <2>1. L \in 0 .. VlMax(T)
    BY LengthIs
  <2> HIDE DEF L
  <2>2. /\ AreRegisters(q) /\ q["vtype"] = T /\ q["vl"] = L
        /\ \A m \in Registers : m \notin {"vtype", "vl", "vstart"} => q[m] = r[m]
    BY <1>1, VsetRegisters
  <2>3. \A m \in {"mstatus", "dcsr"} \union Vectors : m \in Registers /\ m \notin {"vtype", "vl", "vstart"}
    BY DEF Registers, Vectors, Csrs, VectorCsrs
  <2> HIDE DEF q
  <2>4. Holds(h, q)
    BY <2>1, <2>2, <2>3, HoldsSame
  <2> QED
    BY <2>4 DEF q, L
<1>4. CASE n = "vl"
  <2>1. Holds(h, Vset(r, r.vtype, Length(v, r.vtype)))
    BY <1>1, <1>3, <1>4 DEF Fits
  <2> QED
    BY <1>4, <2>1 DEF Stored, Configured, Length
<1>5. CASE n = "vtype"
  <2> DEFINE T == Kept(With(h, r), "vtype", v)
  <2>1. T \in {Xlen, Half, Vill}
    BY DEF Kept
  <2>2. r.vl \in Nat
    <3>1. VlMax(r.vtype) \in Nat
      BY <1>1, LengthIs
    <3> QED
      BY <1>1, <3>1
  <2> HIDE DEF T
  <2>3. Holds(h, Vset(r, T, Length(r.vl, T)))
    BY <1>3, <2>1, <2>2
  <2>4. Configured(h, r, "vtype", v) = r \/ Configured(h, r, "vtype", v) = Vset(r, T, Length(r.vl, T))
    BY DEF Configured, Length, T
  <2> QED
    BY <1>5, <2>3, <2>4 DEF Stored
<1> QED
  BY <1>2, <1>4, <1>5

-----------------------------------------------------------------------------
(* Vector registers.                                                        *)

\* Vector instructions can be used.
InUse(h, r) == h.progbuf /\ Enabled(With(h, r), "vl")

\* Registers r, with vtype and vl as the access to a whole vector register
\* needs them.
Whole(r) == Vset(r, Xlen, Elements)

\* vtype and vl are set for a whole vector register where that is possible.
LEMMA WholeIs ==
    ASSUME NEW h, NEW t, Ready(h, t), NEW r, Holds(h, r), NEW out
    PROVE  WholeRegister(St(h, t, r, "ok", out)) = St(h, t, IF InUse(h, r) THEN Whole(r) ELSE r, "ok", out)
<1> DEFINE s == St(h, t, r, "ok", out)
           a == Configured(h, r, "vtype", Xlen)
           b == Configured(h, a, "vl", Elements)
<1>1. /\ AreRegisters(r) /\ r.vl \in Nat
      /\ {"mstatus", "vtype", "vl", "vstart"} \subseteq Registers
  <2>1. r.vl \in 0 .. VlMax(r.vtype) /\ VlMax(r.vtype) \in Nat
    BY LengthIs DEF Holds
  <2> QED
    BY <2>1 DEF Holds, AreRegisters, Registers, Csrs, VectorCsrs
<1>2. Stored(h, r, "vtype", Xlen) = a
  BY DEF Stored
<1>3. Holds(h, a)
  <2>1. "vtype" \in Fprs \union Csrs /\ Fits("vtype", Xlen)
    BY DEF Csrs, VectorCsrs, Fits, Vectors
  <2> QED
    BY <1>2, <2>1, HoldsStored
<1> HIDE DEF a
<1>4. WriteVector(s, "vtype", Xlen) = St(h, t, a, "ok", out)
  BY WriteVectorIs DEF a
<1> HIDE DEF s
<1>5. WholeRegister(s) = St(h, t, b, "ok", out)
  BY <1>3, <1>4, WriteVectorIs DEF WholeRegister
<1>6. CASE ~InUse(h, r)
  <2>1. a = r
    BY <1>6 DEF a, Configured, InUse
  <2>2. b = r
    BY <1>6, <2>1 DEF Configured, InUse
  <2> QED
    BY <1>5, <1>6, <2>2 DEF s
<1>7. CASE InUse(h, r)
  <2> DEFINE L == Length(r.vl, Xlen)
  <2>1. Kept(With(h, r), "vtype", Xlen) = Xlen
    BY DEF Kept
  <2>2. a = Vset(r, Xlen, L)
    BY <1>7, <2>1 DEF a, Configured, InUse, Length
  <2> HIDE DEF L
  <2>3. /\ AreRegisters(a) /\ a["vtype"] = Xlen
        /\ a["vstart"] = 0
        /\ \A m \in Registers : m \notin {"vtype", "vl", "vstart"} => a[m] = r[m]
    BY <1>1, <2>2, VsetRegisters
  <2>4. Enabled(With(h, a), "vl")
    BY <1>1, <1>7, <2>3, EnabledSame DEF InUse
  <2>5. Length(Elements, Xlen) = Elements
    <3>1. Elements \in Nat /\ VlMax(Xlen) = Elements
      BY DEF Elements, VlMax
    <3> QED
      BY <3>1, LengthIs
  <2>6. b = Vset(a, Xlen, Elements)
    BY <1>7, <2>3, <2>4, <2>5 DEF Configured, InUse, Length
  <2>7. /\ AreRegisters(b) /\ b["vtype"] = Xlen /\ b["vl"] = Elements /\ b["vstart"] = 0
        /\ \A m \in Registers : m \notin {"vtype", "vl", "vstart"} => b[m] = a[m]
    BY <2>3, <2>6, VsetRegisters
  <2> DEFINE c == Whole(r)
  <2>8. /\ AreRegisters(c) /\ c["vtype"] = Xlen /\ c["vl"] = Elements /\ c["vstart"] = 0
        /\ \A m \in Registers : m \notin {"vtype", "vl", "vstart"} => c[m] = r[m]
    BY <1>1, VsetRegisters DEF Whole
  <2> HIDE DEF b, c
  <2>9. \A m \in Registers : b[m] = c[m]
    BY <2>3, <2>7, <2>8
  <2>10. b = c
    BY <2>7, <2>8, <2>9, SameRegisters
  <2> QED
    BY <1>5, <1>7, <2>10 DEF s, c
<1> QED
  BY <1>6, <1>7

\* A vector register turned by one element, x coming in.
Turned(v, x) == [i \in 1 .. Elements |-> IF i = Elements THEN x ELSE v[i + 1]]

ReadProgram(n) == <<VmvXS("fp", n), Vslide1down(n, "fp")>>

\* One element of n is read, and comes in again at the other end.
ReadRound(p, n)     == Moved(Moved(p, "fp", p[n][1]), n, Turned(p[n], p[n][1]))
\* One is written.
WriteRound(p, n, x) == Moved(Put(p, "fp", x), n, Turned(p[n], x))

IsWhole(h, p) == AreRegisters(p) /\ p["vtype"] = Xlen /\ p["vl"] = Elements /\ InUse(h, p)

\* A vector register is none of those the access itself uses.
LEMMA VectorNames ==
    ASSUME NEW n \in Vectors
    PROVE  /\ n \in Registers /\ n # "vstart" /\ n # "fp"
           /\ n \notin {"vtype", "vl", "mstatus", "dcsr", "misa", "vlenb"}
BY DEF Vectors, Registers

\* The registers the access uses are registers.
LEMMA OtherNames ==
    /\ {"fp", "s1", "vstart", "vl", "vtype", "mstatus", "dcsr", "misa", "vlenb"} \subseteq Registers
    /\ {"vstart", "vl", "vtype", "mstatus", "dcsr", "misa", "vlenb"} \subseteq Csrs
BY DEF Registers, Gprs, Csrs, VectorCsrs

\* Only mstatus says whether vector instructions can be used.
LEMMA InUseSame ==
    ASSUME NEW h, NEW r, NEW q, r.mstatus = q.mstatus
    PROVE  InUse(h, r) <=> InUse(h, q)
BY EnabledSame DEF InUse

\* One round of the read: fp has the first element, and the register is turned.
LEMMA ReadRoundIs ==
    ASSUME NEW h, NEW t, NEW p, IsWhole(h, p), NEW e \in {"ok", "failed"}, NEW out, NEW n \in Vectors
    PROVE  /\ rv_program_exec(St(h, t, p, e, out), ReadProgram(n)) = St(h, t, ReadRound(p, n), e, out)
           /\ IsWhole(h, ReadRound(p, n))
           /\ ReadRound(p, n)["fp"] = p[n][1] /\ ReadRound(p, n)[n] = Turned(p[n], p[n][1])
           /\ \A m \in Registers : m \notin {"fp", n, "vstart"} => ReadRound(p, n)[m] = p[m]
<1> DEFINE i == VmvXS("fp", n)
           j == Vslide1down(n, "fp")
           x == p[n][1]
           q == Moved(p, "fp", x)
           w == Moved(q, n, Turned(q[n], x))
<1>1. Legal(With(h, p), i)
  <2>1. p.vtype # Vill
    BY DEF IsWhole, Xlen, Vill
  <2> QED
    BY <2>1, VmvXSIs DEF IsWhole, InUse
<1>2. q = Effect(With(h, p), i)
  BY VmvXSIs
<1>3. /\ AreRegisters(q) /\ q["fp"] = x
      /\ \A m \in Registers : m \notin {"fp", "vstart"} => q[m] = p[m]
  BY OtherNames, MovedIs DEF IsWhole
<1>4. q["vtype"] = Xlen /\ q["vl"] = Elements /\ q["mstatus"] = p["mstatus"] /\ q[n] = p[n]
  BY <1>3, OtherNames, VectorNames DEF IsWhole
<1> HIDE DEF x, q
<1>5. InUse(h, q)
  BY <1>4, InUseSame DEF IsWhole
<1>6. Legal(With(h, q), j) /\ Effect(With(h, q), j) = w
  <2>1. Effect(With(h, q), j)
          = Moved(q, n, [e1 \in 1 .. Elements |-> IF e1 = Elements THEN q["fp"] ELSE q[n][e1 + 1]])
    BY <1>4, Vslide1downIs
  <2>2. Legal(With(h, q), j) <=> Enabled(With(h, q), "vl")
    BY <1>4, Vslide1downIs
  <2> QED
    BY <1>3, <1>5, <2>1, <2>2 DEF InUse, Turned
<1>7. rv_program_exec(St(h, t, p, e, out), <<i, j>>) = St(h, t, Effect(With(h, q), j), e, out)
  <2>1. h.progbuf
    BY DEF IsWhole, InUse
  <2> HIDE DEF i, j
  <2> QED
    BY <1>1, <1>2, <1>6, <2>1, ExecTwo
<1>8. /\ AreRegisters(w) /\ w[n] = Turned(q[n], x)
      /\ \A m \in Registers : m \notin {n, "vstart"} => w[m] = q[m]
  BY <1>3, VectorNames, MovedIs
<1>9. w = ReadRound(p, n)
  BY <1>4 DEF ReadRound, q, x
<1> HIDE DEF w
<1>10. w["vtype"] = Xlen /\ w["vl"] = Elements /\ w["mstatus"] = q["mstatus"] /\ w["fp"] = x
  BY <1>3, <1>4, <1>8, OtherNames, VectorNames
<1>11. InUse(h, w)
  BY <1>5, <1>10, InUseSame
<1> QED
  BY <1>3, <1>4, <1>6, <1>7, <1>8, <1>9, <1>10, <1>11 DEF IsWhole, ReadProgram, x

\* One round of the write.
LEMMA WriteRoundIs ==
    ASSUME NEW h, NEW t, Ready(h, t), NEW p, IsWhole(h, p), NEW out, NEW n \in Vectors, NEW x
    PROVE  /\ rv_program_exec(rv_register_write(St(h, t, p, "ok", out), "fp", x), << Vslide1down(n, "fp") >>)
                = St(h, t, WriteRound(p, n, x), "ok", out)
           /\ IsWhole(h, WriteRound(p, n, x))
           /\ WriteRound(p, n, x)[n] = Turned(p[n], x)
           /\ \A m \in Registers : m \notin {"fp", n, "vstart"} => WriteRound(p, n, x)[m] = p[m]
<1> DEFINE j == Vslide1down(n, "fp")
           q == Put(p, "fp", x)
           w == Moved(q, n, Turned(q[n], x))
<1>1. rv_register_write(St(h, t, p, "ok", out), "fp", x) = St(h, t, q, "ok", out)
  BY FpIs, GprWrite
<1>2. AreRegisters(q) /\ q["fp"] = x /\ \A m \in Registers : m # "fp" => q[m] = p[m]
  BY FpIs, PutIs DEF IsWhole
<1>3. q["vtype"] = Xlen /\ q["vl"] = Elements /\ q["mstatus"] = p["mstatus"] /\ q[n] = p[n]
  BY <1>2, OtherNames, VectorNames DEF IsWhole
<1> HIDE DEF q
<1>4. InUse(h, q)
  BY <1>3, InUseSame DEF IsWhole
<1>5. Legal(With(h, q), j) /\ Effect(With(h, q), j) = w
  <2>1. Effect(With(h, q), j)
          = Moved(q, n, [e1 \in 1 .. Elements |-> IF e1 = Elements THEN q["fp"] ELSE q[n][e1 + 1]])
    BY <1>3, Vslide1downIs
  <2>2. Legal(With(h, q), j) <=> Enabled(With(h, q), "vl")
    BY <1>3, Vslide1downIs
  <2> QED
    BY <1>2, <1>4, <2>1, <2>2 DEF InUse, Turned
<1>6. rv_program_exec(St(h, t, q, "ok", out), << j >>) = St(h, t, w, "ok", out)
  <2>1. h.progbuf
    BY DEF IsWhole, InUse
  <2> HIDE DEF j, w
  <2>2. rv_program_exec(St(h, t, q, "ok", out), << j >>) = St(h, t, Effect(With(h, q), j), "ok", out)
    BY <1>5, <2>1, ExecOne
  <2> QED
    BY <1>5, <2>2
<1>7. /\ AreRegisters(w) /\ w[n] = Turned(q[n], x)
      /\ \A m \in Registers : m \notin {n, "vstart"} => w[m] = q[m]
  BY <1>2, VectorNames, MovedIs
<1>8. w = WriteRound(p, n, x)
  BY <1>3 DEF WriteRound, q
<1> HIDE DEF w
<1>9. w["vtype"] = Xlen /\ w["vl"] = Elements /\ w["mstatus"] = q["mstatus"]
  BY <1>3, <1>7, OtherNames, VectorNames
<1>10. InUse(h, w)
  BY <1>4, <1>9, InUseSame
<1> QED
  BY <1>1, <1>2, <1>3, <1>6, <1>7, <1>8, <1>9, <1>10 DEF IsWhole

\* A list of two, put together one by one.
LEMMA TwoAre ==
    ASSUME NEW a, NEW b, NEW l, l = << a >>
    PROVE  Append(l, b) = <<a, b>>
<1>1. l \in Seq({a, b}) /\ Len(l) = 1 /\ l[1] = a
  OBVIOUS
<1>2. PICK k, m : k = Append(l, b) /\ m = <<a, b>>
  OBVIOUS
<1>3. k \in Seq({a, b}) /\ Len(k) = 2 /\ k[1] = a /\ k[2] = b
  BY <1>1, <1>2
<1>4. k = [i \in 1 .. 2 |-> k[i]]
  BY <1>3
<1>5. m = [i \in 1 .. 2 |-> m[i]] /\ m[1] = a /\ m[2] = b
  BY <1>2
<1>6. \A i \in 1 .. 2 : m[i] = k[i]
  <2>1. \A i \in 1 .. 2 : i = 1 \/ i = 2
    OBVIOUS
  <2> QED
    BY <1>3, <1>5, <2>1
<1> QED
  BY <1>2, <1>4, <1>5, <1>6

ReadOneMore(s, n)     == Listed(rv_program_exec(s, ReadProgram(n)))
WriteOneMore(s, n, x) == rv_program_exec(rv_register_write(s, "fp", x), << Vslide1down(n, "fp") >>)

\* The rounds of a read, and of a write: the recursive functions, unrolled.
LEMMA ReadElementsAre ==
    ASSUME NEW s, NEW n
    PROVE  ReadElements(s, n)
              = FpBack(ReadOneMore(ReadOneMore(Shows(WholeRegister(s), <<>>), n), n), Borrowed(s, "fp"))
<1> DEFINE a0 == Shows(WholeRegister(s), <<>>)
           a1 == ReadOneMore(a0, n)
           a2 == ReadOneMore(a1, n)
           Is(g) == g = [i \in 0 .. Elements |-> IF i = 0 THEN Shows(WholeRegister(s), <<>>) ELSE ReadOneMore(g[i - 1], n)]
           two == [i \in 0 .. 2 |-> IF i = 0 THEN a0 ELSE IF i = 1 THEN a1 ELSE a2]
           all == CHOOSE g : Is(g)
<1>1. ReadElements(s, n) = FpBack(all[Elements], Borrowed(s, "fp"))
  BY Zenon DEF ReadElements, ReadOneMore, ReadProgram, Shows
<1>2. Elements = 2
  BY DEF Elements
<1>3. Is(two)
  <2>1. two[0] = a0 /\ two[1] = ReadOneMore(two[0], n) /\ two[2] = ReadOneMore(two[1], n)
    OBVIOUS
  <2>2. two = [i \in 0 .. 2 |-> two[i]]
    OBVIOUS
  <2>3. \A i \in 0 .. 2 : i = 0 \/ i = 1 \/ i = 2
    OBVIOUS
  <2> HIDE DEF two
  <2>4. \A i \in 0 .. 2 : two[i] = IF i = 0 THEN a0 ELSE ReadOneMore(two[i - 1], n)
    BY <2>1, <2>3
  <2> QED
    BY <1>2, <2>2, <2>4
<1>4. Is(all)
  BY <1>3, Zenon
<1>5. all[0] = a0 /\ all[1] = ReadOneMore(all[0], n) /\ all[2] = ReadOneMore(all[1], n)
  <2> HIDE DEF all
  <2> QED
    BY <1>2, <1>4
<1> HIDE DEF all
<1> QED
  BY <1>1, <1>2, <1>5

LEMMA WriteElementsAre ==
    ASSUME NEW s, NEW n, NEW v
    PROVE  WriteElements(s, n, v)
              = FpBack(WriteOneMore(WriteOneMore(WholeRegister(s), n, v[1]), n, v[2]), Borrowed(s, "fp"))
<1> DEFINE a0 == WholeRegister(s)
           a1 == WriteOneMore(a0, n, v[1])
           a2 == WriteOneMore(a1, n, v[2])
           Is(g) == g = [i \in 0 .. Elements |-> IF i = 0 THEN WholeRegister(s) ELSE WriteOneMore(g[i - 1], n, v[i])]
           two == [i \in 0 .. 2 |-> IF i = 0 THEN a0 ELSE IF i = 1 THEN a1 ELSE a2]
           all == CHOOSE g : Is(g)
<1>1. WriteElements(s, n, v) = FpBack(all[Elements], Borrowed(s, "fp"))
  BY Zenon DEF WriteElements, WriteOneMore
<1>2. Elements = 2
  BY DEF Elements
<1>3. Is(two)
  <2>1. two[0] = a0 /\ two[1] = WriteOneMore(two[0], n, v[1]) /\ two[2] = WriteOneMore(two[1], n, v[2])
    OBVIOUS
  <2>2. two = [i \in 0 .. 2 |-> two[i]]
    OBVIOUS
  <2>3. \A i \in 0 .. 2 : i = 0 \/ i = 1 \/ i = 2
    OBVIOUS
  <2> HIDE DEF two
  <2>4. \A i \in 0 .. 2 : two[i] = IF i = 0 THEN a0 ELSE WriteOneMore(two[i - 1], n, v[i])
    BY <2>1, <2>3
  <2> QED
    BY <1>2, <2>2, <2>4
<1>4. Is(all)
  BY <1>3, Zenon
<1>5. all[0] = a0 /\ all[1] = WriteOneMore(all[0], n, v[1]) /\ all[2] = WriteOneMore(all[1], n, v[2])
  <2> HIDE DEF all
  <2> QED
    BY <1>2, <1>4
<1> HIDE DEF all
<1> QED
  BY <1>1, <1>2, <1>5

\* The element in fp is appended to out.
LEMMA ListedIs ==
    ASSUME NEW h, NEW t, Ready(h, t), NEW p, NEW e, NEW out
    PROVE  Listed(St(h, t, p, e, out)) = St(h, t, p, e, Append(out, p["fp"]))
<1>1. Borrowed(St(h, t, p, e, out), "fp") = p["fp"] /\ St(h, t, p, e, out).out = out
  BY FpIs, GprRead, StIs
<1>2. PICK y : y = Append(out, p["fp"])
  OBVIOUS
<1>3. Listed(St(h, t, p, e, out)) = Shows(St(h, t, p, e, out), y)
  BY <1>1, <1>2 DEF Listed, Shows
<1>4. Shows(St(h, t, p, e, out), y) = St(h, t, p, e, y)
  BY StShows
<1> QED
  BY <1>2, <1>3, <1>4

\* Registers in use for a vector register that hold what they did before it.
Resembles(q, r) == \A m \in Registers : m \notin {"vtype", "vl", "vstart"} => q[m] = r[m]

\* A register turned Elements times by its own elements is as it was.
LEMMA TurnedTwice ==
    ASSUME NEW v, v = [i \in 1 .. Elements |-> v[i]], NEW w, w = Turned(v, v[1])
    PROVE  Turned(w, w[1]) = v /\ <<v[1], w[1]>> = v
BY DEF Turned, Elements

\* And by others, it holds those.
LEMMA TurnedIn ==
    ASSUME NEW v, NEW w, w = [i \in 1 .. Elements |-> w[i]]
    PROVE  Turned(Turned(v, w[1]), w[2]) = w
BY DEF Turned, Elements

\* Setting vtype and vl changes no other register but vstart.
LEMMA WholeOfUse ==
    ASSUME NEW h, NEW r, Holds(h, r), InUse(h, r)
    PROVE  /\ IsWhole(h, Whole(r)) /\ Resembles(Whole(r), r)
           /\ \A n \in Vectors : Whole(r)[n] = r[n] /\ r[n] = [i \in 1 .. Elements |-> r[n][i]]
<1> DEFINE c == Whole(r)
<1>1. AreRegisters(r)
  BY DEF Holds, AreRegisters
<1>2. /\ AreRegisters(c) /\ c["vtype"] = Xlen /\ c["vl"] = Elements /\ c["vstart"] = 0
      /\ \A m \in Registers : m \notin {"vtype", "vl", "vstart"} => c[m] = r[m]
  BY <1>1, VsetRegisters DEF Whole
<1> HIDE DEF c
<1>3. InUse(h, c)
  BY <1>2, InUseSame, OtherNames
<1>4. \A n \in Vectors : c[n] = r[n]
  BY <1>2, VectorNames
<1> QED
  BY <1>2, <1>3, <1>4 DEF IsWhole, Resembles, c, Holds

\* Reading a vector register leaves it as it was.
LEMMA ReadElementsIs ==
    ASSUME NEW h, NEW t, Ready(h, t), NEW r, Holds(h, r), NEW out, NEW n \in Vectors, InUse(h, r)
    PROVE  \E q : /\ ReadElements(St(h, t, r, "ok", out), n) = St(h, t, q, "ok", r[n])
                  /\ IsWhole(h, q) /\ Resembles(q, r)
<1> DEFINE s == St(h, t, r, "ok", out)
           c == Whole(r)
           c1 == ReadRound(c, n)
           c2 == ReadRound(c1, n)
           q == Put(c2, "fp", r["fp"])
           v == r[n]
<1>1. IsWhole(h, c) /\ Resembles(c, r) /\ c[n] = v /\ v = [i \in 1 .. Elements |-> v[i]]
  BY WholeOfUse
<1>2. Shows(WholeRegister(s), <<>>) = St(h, t, c, "ok", <<>>)
  BY WholeIs, StShows
<1> HIDE DEF c
<1>3. PICK y : y = <<>>
  OBVIOUS
<1>4. /\ rv_program_exec(St(h, t, c, "ok", y), ReadProgram(n)) = St(h, t, c1, "ok", y)
      /\ IsWhole(h, c1) /\ c1["fp"] = c[n][1] /\ c1[n] = Turned(c[n], c[n][1])
      /\ \A m \in Registers : m \notin {"fp", n, "vstart"} => c1[m] = c[m]
  <2>1. IsWhole(h, c)
    BY <1>1
  <2> QED
    BY <2>1, ReadRoundIs
<1> HIDE DEF c1
<1>5. PICK x : x = Append(y, c1["fp"])
  OBVIOUS
<1>6. ReadOneMore(St(h, t, c, "ok", y), n) = St(h, t, c1, "ok", x)
  BY <1>4, <1>5, ListedIs DEF ReadOneMore
<1>7. /\ rv_program_exec(St(h, t, c1, "ok", x), ReadProgram(n)) = St(h, t, c2, "ok", x)
      /\ IsWhole(h, c2) /\ c2["fp"] = c1[n][1] /\ c2[n] = Turned(c1[n], c1[n][1])
      /\ \A m \in Registers : m \notin {"fp", n, "vstart"} => c2[m] = c1[m]
  <2>1. IsWhole(h, c1)
    BY <1>4
  <2> QED
    BY <2>1, ReadRoundIs
<1> HIDE DEF c2
<1>8. PICK z : z = Append(x, c2["fp"])
  OBVIOUS
<1>9. ReadOneMore(St(h, t, c1, "ok", x), n) = St(h, t, c2, "ok", z)
  BY <1>7, <1>8, ListedIs DEF ReadOneMore
<1>10. c2[n] = v /\ z = v
  <2>1. PICK w, a, b : w = Turned(v, v[1]) /\ a = v[1] /\ b = w[1]
    OBVIOUS
  <2>2. c1[n] = w /\ c2["fp"] = b /\ c2[n] = Turned(w, w[1]) /\ c1["fp"] = a
    BY <1>1, <1>4, <1>7, <2>1
  <2>3. Turned(w, w[1]) = v /\ <<a, b>> = v
    BY <1>1, <2>1, TurnedTwice
  <2>4. z = Append(Append(<<>>, a), b)
    BY <1>3, <1>5, <1>8, <2>2
  <2>5. Append(Append(<<>>, a), b) = <<a, b>>
    <3>1. Append(<<>>, a) = << a >>
      OBVIOUS
    <3> QED
      BY <3>1, TwoAre
  <2> QED
    BY <2>2, <2>3, <2>4, <2>5
<1> HIDE DEF s
<1>11. ReadElements(s, n) = St(h, t, q, "ok", v)
  <2>1. Borrowed(s, "fp") = r["fp"]
    BY FpIs, GprRead DEF s
  <2>2. ReadOneMore(ReadOneMore(Shows(WholeRegister(s), <<>>), n), n) = St(h, t, c2, "ok", v)
    BY <1>2, <1>3, <1>6, <1>9, <1>10
  <2> HIDE DEF v
  <2>3. ReadElements(s, n) = FpBack(St(h, t, c2, "ok", v), r["fp"])
    BY <2>1, <2>2, ReadElementsAre
  <2> QED
    BY <2>3, FpBackIs
<1>12. AreRegisters(q) /\ q["fp"] = r["fp"] /\ \A m \in Registers : m # "fp" => q[m] = c2[m]
  BY <1>7, FpIs, PutIs DEF IsWhole
<1> HIDE DEF q
<1>13. \A m \in Registers : m \notin {"vtype", "vl", "vstart"} => q[m] = r[m]
  <2> SUFFICES ASSUME NEW m \in Registers, m \notin {"vtype", "vl", "vstart"} PROVE q[m] = r[m]
    OBVIOUS
  <2>1. CASE m = "fp"
    BY <1>12, <2>1
  <2>2. CASE m = n /\ m # "fp"
    BY <1>10, <1>12, <2>2
  <2>3. CASE m \notin {"fp", n}
    <3>1. c[m] = r[m]
      BY <1>1 DEF Resembles
    <3> QED
      BY <1>4, <1>7, <1>12, <2>3, <3>1
  <2> QED
    BY <2>1, <2>2, <2>3
<1>14. IsWhole(h, q)
  <2>1. q["vtype"] = Xlen /\ q["vl"] = Elements /\ q["mstatus"] = c2["mstatus"] /\ InUse(h, c2)
    BY <1>7, <1>12, OtherNames DEF IsWhole
  <2>2. InUse(h, q)
    BY <2>1, InUseSame
  <2> QED
    BY <1>12, <2>1, <2>2 DEF IsWhole
<1> QED
  BY <1>11, <1>13, <1>14 DEF Resembles, s

IsVector(v) == v = [i \in 1 .. Elements |-> v[i]]

\* Writing a vector register leaves the elements in it, and the rest as it was.
LEMMA WriteElementsIs ==
    ASSUME NEW h, NEW t, Ready(h, t), NEW r, Holds(h, r), NEW out, NEW n \in Vectors, InUse(h, r),
           NEW v, IsVector(v)
    PROVE  \E q : /\ WriteElements(St(h, t, r, "ok", out), n, v) = St(h, t, q, "ok", out)
                  /\ IsWhole(h, q) /\ Resembles(q, Put(r, n, v))
<1> DEFINE s == St(h, t, r, "ok", out)
           c == Whole(r)
           c1 == WriteRound(c, n, v[1])
           c2 == WriteRound(c1, n, v[2])
           q == Put(c2, "fp", r["fp"])
<1>1. IsWhole(h, c) /\ Resembles(c, r) /\ c[n] = r[n]
  BY WholeOfUse
<1>2. WholeRegister(s) = St(h, t, c, "ok", out)
  BY WholeIs
<1> HIDE DEF c
<1>3. /\ WriteOneMore(St(h, t, c, "ok", out), n, v[1]) = St(h, t, c1, "ok", out)
      /\ IsWhole(h, c1) /\ c1[n] = Turned(c[n], v[1])
      /\ \A m \in Registers : m \notin {"fp", n, "vstart"} => c1[m] = c[m]
  BY <1>1, WriteRoundIs DEF WriteOneMore
<1> HIDE DEF c1
<1>4. /\ WriteOneMore(St(h, t, c1, "ok", out), n, v[2]) = St(h, t, c2, "ok", out)
      /\ IsWhole(h, c2) /\ c2[n] = Turned(c1[n], v[2])
      /\ \A m \in Registers : m \notin {"fp", n, "vstart"} => c2[m] = c1[m]
  BY <1>3, WriteRoundIs DEF WriteOneMore
<1> HIDE DEF c2, s
<1>5. WriteElements(s, n, v) = FpBack(St(h, t, c2, "ok", out), r["fp"])
  <2>1. Borrowed(s, "fp") = r["fp"]
    BY FpIs, GprRead DEF s
  <2> QED
    BY <1>2, <1>3, <1>4, <2>1, WriteElementsAre
<1>6. WriteElements(s, n, v) = St(h, t, q, "ok", out)
  BY <1>5, FpBackIs
<1>7. AreRegisters(q) /\ q["fp"] = r["fp"] /\ \A m \in Registers : m # "fp" => q[m] = c2[m]
  BY <1>4, FpIs, PutIs DEF IsWhole
<1> HIDE DEF q
<1> DEFINE p == Put(r, n, v)
<1>8. p[n] = v /\ \A m \in Registers : m # n => p[m] = r[m]
  BY VectorNames, PutIs DEF Holds, AreRegisters
<1> HIDE DEF p
<1>9. \A m \in Registers : m \notin {"vtype", "vl", "vstart"} => q[m] = p[m]
  <2> SUFFICES ASSUME NEW m \in Registers, m \notin {"vtype", "vl", "vstart"} PROVE q[m] = p[m]
    OBVIOUS
  <2>1. CASE m = "fp"
    BY <1>7, <1>8, <2>1, VectorNames
  <2>2. CASE m = n
    <3>1. PICK u : u = c[n]
      OBVIOUS
    <3>2. Turned(Turned(u, v[1]), v[2]) = v
      BY TurnedIn DEF IsVector
    <3>3. c2[n] = v
      BY <1>3, <1>4, <3>1, <3>2
    <3> QED
      BY <1>7, <1>8, <2>2, <3>3, VectorNames
  <2>3. CASE m \notin {"fp", n}
    <3>1. c[m] = r[m]
      BY <1>1 DEF Resembles
    <3> QED
      BY <1>3, <1>4, <1>7, <1>8, <2>3, <3>1
  <2> QED
    BY <2>1, <2>2, <2>3
<1>10. IsWhole(h, q)
  <2>1. q["vtype"] = Xlen /\ q["vl"] = Elements /\ q["mstatus"] = c2["mstatus"] /\ InUse(h, c2)
    BY <1>4, <1>7, OtherNames DEF IsWhole
  <2>2. InUse(h, q)
    BY <2>1, InUseSame
  <2> QED
    BY <1>7, <2>1, <2>2 DEF IsWhole
<1> QED
  BY <1>6, <1>9, <1>10 DEF Resembles, s, p

\* vtype and vl are given back.
LEMMA CleanupIs ==
    ASSUME NEW h, NEW t, Ready(h, t), NEW q, Holds(h, q), NEW out, NEW vtype, NEW vl,
           InUse(h, q) => vtype \in {Xlen, Half, Vill} /\ vl \in 0 .. VlMax(vtype)
    PROVE  rv_cleanup_for_vector_access(St(h, t, q, "ok", out), vtype, vl)
              = St(h, t, IF InUse(h, q) THEN Vset(q, vtype, vl) ELSE q, "ok", out)
<1> DEFINE s == St(h, t, q, "ok", out)
           a == Configured(h, q, "vtype", vtype)
           b == Configured(h, a, "vl", vl)
<1>1. AreRegisters(q)
  BY DEF Holds, AreRegisters
<1>2. Holds(h, a)
  <2>1. "vtype" \in Fprs \union Csrs /\ Fits("vtype", vtype)
    BY DEF Csrs, VectorCsrs, Fits, Vectors
  <2>2. Stored(h, q, "vtype", vtype) = a
    BY DEF Stored
  <2> QED
    BY <2>1, <2>2, HoldsStored
<1>3. WriteVector(s, "vtype", vtype) = St(h, t, a, "ok", out)
  BY WriteVectorIs
<1> HIDE DEF a, s
<1>4. rv_cleanup_for_vector_access(s, vtype, vl) = St(h, t, b, "ok", out)
  BY <1>2, <1>3, WriteVectorIs DEF rv_cleanup_for_vector_access
<1>5. CASE ~InUse(h, q)
  <2>1. a = q
    BY <1>5 DEF a, Configured, InUse
  <2>2. b = q
    BY <1>5, <2>1 DEF Configured, InUse
  <2> QED
    BY <1>4, <1>5, <2>2 DEF s
<1>6. CASE InUse(h, q)
  <2> DEFINE L == Length(q.vl, vtype)
  <2>1. Kept(With(h, q), "vtype", vtype) = vtype
    BY <1>6 DEF Kept
  <2>2. a = Vset(q, vtype, L)
    BY <1>6, <2>1 DEF a, Configured, InUse, Length
  <2> HIDE DEF L
  <2>3. /\ AreRegisters(a) /\ a["vtype"] = vtype
        /\ \A m \in Registers : m \notin {"vtype", "vl", "vstart"} => a[m] = q[m]
    BY <1>1, <2>2, VsetRegisters
  <2>4. InUse(h, a)
    BY <1>6, <2>3, InUseSame, OtherNames
  <2>5. Length(vl, vtype) = vl
    <3>1. VlMax(vtype) \in Nat
      BY <1>6, LengthIs
    <3>2. vl \in Nat /\ vl =< VlMax(vtype)
      BY <1>6, <3>1
    <3> QED
      BY <1>6, <3>2, LengthIs
  <2>6. b = Vset(a, vtype, vl)
    BY <2>3, <2>4, <2>5 DEF Configured, InUse, Length
  <2>7. /\ AreRegisters(b) /\ b["vtype"] = vtype /\ b["vl"] = vl /\ b["vstart"] = 0
        /\ \A m \in Registers : m \notin {"vtype", "vl", "vstart"} => b[m] = a[m]
    BY <2>3, <2>6, VsetRegisters
  <2> DEFINE c == Vset(q, vtype, vl)
  <2>8. /\ AreRegisters(c) /\ c["vtype"] = vtype /\ c["vl"] = vl /\ c["vstart"] = 0
        /\ \A m \in Registers : m \notin {"vtype", "vl", "vstart"} => c[m] = q[m]
    BY <1>1, VsetRegisters
  <2> HIDE DEF b, c
  <2>9. \A m \in Registers : b[m] = c[m]
    BY <2>3, <2>7, <2>8
  <2>10. b = c
    BY <2>7, <2>8, <2>9, SameRegisters
  <2> QED
    BY <1>4, <1>6, <2>10 DEF s, c
<1> QED
  BY <1>5, <1>6

\* What was done with a whole vector register shows, but nothing of how.
LEMMA WithVectorIs ==
    ASSUME NEW h, NEW t, Ready(h, t), NEW r, Holds(h, r), NEW out, InUse(h, r),
           NEW p, AreRegisters(p), \A m \in Registers \ Vectors : p[m] = r[m],
           \A m \in Vectors : p[m] = [i \in 1 .. Elements |-> p[m][i]],
           NEW q, IsWhole(h, q), Resembles(q, p), NEW x
    PROVE  WithVector(St(h, t, r, "ok", out), St(h, t, q, "ok", x)) = St(h, t, Put(p, "vstart", 0), "ok", x)
<1> DEFINE s == St(h, t, r, "ok", out)
           done == St(h, t, q, "ok", x)
<1>1. AreRegisters(r) /\ r.vtype \in {Xlen, Half, Vill} /\ r.vl \in 0 .. VlMax(r.vtype)
  BY DEF Holds, AreRegisters
<1>2. ReadScalar(s, "vtype").out = r.vtype /\ ReadScalar(s, "vl").out = r.vl
  <2>1. Enabled(With(h, r), "vtype") /\ Enabled(With(h, r), "vl") /\ h.progbuf
    BY VectorCsrsAlike DEF InUse, VectorCsrs
  <2>2. "vtype" \in Fprs \union Csrs /\ "vl" \in Fprs \union Csrs
    BY OtherNames
  <2>3. ReadScalar(s, "vtype") = St(h, t, r, "ok", r["vtype"]) /\ ReadScalar(s, "vl") = St(h, t, r, "ok", r["vl"])
    BY <1>1, <2>1, <2>2, ReadScalarIs
  <2> QED
    BY <2>3, StIs
<1>3. \A m \in Vectors : m \in Registers /\ m \notin {"vtype", "vl", "vstart"}
  BY VectorNames
<1>4. \A m \in {"vstart", "vl", "vtype", "mstatus", "dcsr"} : m \in Registers \ Vectors
  BY OtherNames DEF Vectors
<1>5. Holds(h, q)
  <2>1. q["mstatus"] = r["mstatus"] /\ q["dcsr"] = r["dcsr"]
    BY <1>4 DEF Resembles
  <2>2. q["vtype"] = Xlen /\ q["vl"] = Elements /\ AreRegisters(q)
    BY DEF IsWhole
  <2>3. Elements \in 0 .. VlMax(Xlen)
    BY DEF VlMax, Elements
  <2>4. \A m \in Vectors : q[m] = [i \in 1 .. Elements |-> q[m][i]]
    BY <1>3 DEF Resembles
  <2> QED
    BY <2>1, <2>2, <2>3, <2>4 DEF Holds, AreRegisters
<1>6. InUse(h, q)
  BY DEF IsWhole
<1> HIDE DEF s
<1>7. WithVector(s, done) = rv_cleanup_for_vector_access(done, r.vtype, r.vl)
  BY <1>2 DEF WithVector
<1>8. rv_cleanup_for_vector_access(done, r.vtype, r.vl) = St(h, t, Vset(q, r.vtype, r.vl), "ok", x)
  BY <1>1, <1>5, <1>6, CleanupIs
<1> DEFINE b == Vset(q, r.vtype, r.vl)
           c == Put(p, "vstart", 0)
<1>9. /\ AreRegisters(b) /\ b["vtype"] = r.vtype /\ b["vl"] = r.vl /\ b["vstart"] = 0
      /\ \A m \in Registers : m \notin {"vtype", "vl", "vstart"} => b[m] = q[m]
  BY VsetRegisters DEF IsWhole
<1>10. AreRegisters(c) /\ c["vstart"] = 0 /\ \A m \in Registers : m # "vstart" => c[m] = p[m]
  BY PutIs, OtherNames
<1>11. p["vtype"] = r["vtype"] /\ p["vl"] = r["vl"]
  BY <1>4
<1> HIDE DEF b, c
<1>12. \A m \in Registers : b[m] = c[m]
  BY <1>9, <1>10, <1>11 DEF Resembles
<1>13. b = c
  BY <1>9, <1>10, <1>12, SameRegisters
<1> QED
  BY <1>7, <1>8, <1>13 DEF s, b, c

\* Without a way to use vector instructions, nothing comes of it.
LEMMA WithoutVectorIs ==
    ASSUME NEW h, NEW t, Ready(h, t), NEW r, Holds(h, r), NEW out, ~InUse(h, r), NEW x
    PROVE  WithVector(St(h, t, r, "ok", out), St(h, t, r, "ok", x)) = St(h, t, r, "ok", x)
BY CleanupIs DEF WithVector

\* A vector register is read, and vtype and vl are what they were.
LEMMA ReadVectorIs ==
    ASSUME NEW h, NEW t, Ready(h, t), NEW r, Holds(h, r), NEW out, NEW n \in Vectors
    PROVE  LET s == St(h, t, r, "ok", out) IN
           /\ InUse(h, r) => WithVector(s, ReadElements(s, n)) = St(h, t, Put(r, "vstart", 0), "ok", r[n])
           /\ ~InUse(h, r) => \E x : WithVector(s, ReadElements(s, n)) = St(h, t, r, "ok", x)
<1> DEFINE s == St(h, t, r, "ok", out)
<1>1. AreRegisters(r)
  BY DEF Holds, AreRegisters
<1>2. CASE InUse(h, r)
  <2>1. PICK q : ReadElements(s, n) = St(h, t, q, "ok", r[n]) /\ IsWhole(h, q) /\ Resembles(q, r)
    BY <1>2, ReadElementsIs
  <2>2. \A m \in Vectors : r[m] = [i \in 1 .. Elements |-> r[m][i]]
    BY DEF Holds
  <2>3. WithVector(s, St(h, t, q, "ok", r[n])) = St(h, t, Put(r, "vstart", 0), "ok", r[n])
    BY <1>1, <1>2, <2>1, <2>2, WithVectorIs
  <2> QED
    BY <1>2, <2>1, <2>3
<1>3. CASE ~InUse(h, r)
  <2> DEFINE i == VmvXS("fp", n)
             j == Vslide1down(n, "fp")
  <2>1. ~(h.progbuf /\ Legal(With(h, r), i))
    BY <1>3, VmvXSIs DEF InUse
  <2> HIDE DEF i, j
  <2>2. ASSUME NEW e \in {"ok", "failed"}, NEW y
        PROVE  \E z : ReadOneMore(St(h, t, r, e, y), n) = St(h, t, r, "failed", z)
    <3>1. rv_program_exec(St(h, t, r, e, y), <<i, j>>) = St(h, t, r, "failed", y)
      BY <2>1, ExecNone
    <3>2. ReadProgram(n) = <<i, j>>
      BY DEF ReadProgram, i, j
    <3> QED
      BY <3>1, <3>2, ListedIs DEF ReadOneMore
  <2>3. PICK y : Shows(WholeRegister(s), <<>>) = St(h, t, r, "ok", y)
    BY <1>3, WholeIs, StShows
  <2>4. PICK z : ReadOneMore(St(h, t, r, "ok", y), n) = St(h, t, r, "failed", z)
    BY <2>2
  <2>5. PICK x : ReadOneMore(St(h, t, r, "failed", z), n) = St(h, t, r, "failed", x)
    BY <2>2
  <2>6. Borrowed(s, "fp") = r["fp"] /\ Put(r, "fp", r["fp"]) = r
    BY <1>1, FpIs, GprRead, PutBack
  <2>7. FpBack(St(h, t, r, "failed", x), r["fp"]) = St(h, t, r, "ok", x)
    BY <2>6, FpBackIs
  <2> HIDE DEF s
  <2>8. ReadElements(s, n) = St(h, t, r, "ok", x)
    BY <2>3, <2>4, <2>5, <2>6, <2>7, ReadElementsAre
  <2>9. WithVector(s, ReadElements(s, n)) = St(h, t, r, "ok", x)
    BY <1>3, <2>8, WithoutVectorIs DEF s
  <2> QED
    BY <1>3, <2>9 DEF s
<1> QED
  BY <1>2, <1>3

AlikeButFp(a, r) == AreRegisters(a) /\ \A m \in Registers : m # "fp" => a[m] = r[m]

\* Where vector instructions cannot be used, a round does nothing.
LEMMA WriteOneMoreFails ==
    ASSUME NEW h, NEW t, Ready(h, t), NEW r, ~InUse(h, r), NEW a, AlikeButFp(a, r),
           NEW e \in {"ok", "failed"}, NEW out, NEW n, NEW x
    PROVE  \E b : WriteOneMore(St(h, t, a, e, out), n, x) = St(h, t, b, "failed", out) /\ AlikeButFp(b, r)
<1> DEFINE b == Put(a, "fp", x)
           j == Vslide1down(n, "fp")
<1>1. rv_register_write(St(h, t, a, e, out), "fp", x) = St(h, t, b, "ok", out)
  BY FpIs, GprWrite
<1>2. AreRegisters(b) /\ \A m \in Registers : m # "fp" => b[m] = a[m]
  BY FpIs, PutIs DEF AlikeButFp
<1> HIDE DEF b
<1>3. b["mstatus"] = r["mstatus"]
  BY <1>2, OtherNames DEF AlikeButFp
<1>4. ~(h.progbuf /\ Enabled(With(h, b), "vl"))
  BY <1>3, InUseSame DEF InUse
<1>5. Legal(With(h, b), j) => Enabled(With(h, b), "vl")
  <2>1. j.op = "vslide1down"
    BY DEF Vslide1down
  <2> HIDE DEF j
  <2> QED
    BY <2>1 DEF Legal
<1> HIDE DEF j
<1>6. ~(h.progbuf /\ Legal(With(h, b), j))
  BY <1>4, <1>5
<1>7. rv_program_exec(St(h, t, b, "ok", out), << j >>) = St(h, t, b, "failed", out)
  BY <1>6, ExecOne
<1>8. WriteOneMore(St(h, t, a, e, out), n, x) = St(h, t, b, "failed", out)
  BY <1>1, <1>7 DEF WriteOneMore, j
<1>9. AlikeButFp(b, r)
  BY <1>2 DEF AlikeButFp
<1> QED
  BY <1>8, <1>9

\* A vector register is written, and vtype and vl are what they were.
LEMMA WriteVectorRegisterIs ==
    ASSUME NEW h, NEW t, Ready(h, t), NEW r, Holds(h, r), NEW out, NEW n \in Vectors,
           NEW v, IsVector(v)
    PROVE  LET s == St(h, t, r, "ok", out) IN
           WithVector(s, WriteElements(s, n, v))
              = St(h, t, IF InUse(h, r) THEN Put(Put(r, n, v), "vstart", 0) ELSE r, "ok", out)
<1> DEFINE s == St(h, t, r, "ok", out)
           p == Put(r, n, v)
<1>1. AreRegisters(r)
  BY DEF Holds, AreRegisters
<1>2. CASE InUse(h, r)
  <2>1. PICK q : WriteElements(s, n, v) = St(h, t, q, "ok", out) /\ IsWhole(h, q) /\ Resembles(q, p)
    BY <1>2, WriteElementsIs
  <2>2. AreRegisters(p) /\ p[n] = v /\ \A m \in Registers : m # n => p[m] = r[m]
    BY <1>1, PutIs, VectorNames
  <2> HIDE DEF p
  <2>3. \A m \in Vectors : p[m] = [i \in 1 .. Elements |-> p[m][i]]
    <3> SUFFICES ASSUME NEW m \in Vectors PROVE p[m] = [i \in 1 .. Elements |-> p[m][i]]
      OBVIOUS
    <3>1. CASE m = n
      BY <2>2, <3>1 DEF IsVector
    <3>2. CASE m # n
      <4>1. r[m] = [i \in 1 .. Elements |-> r[m][i]]
        BY DEF Holds
      <4>2. p[m] = r[m]
        BY <2>2, <3>2, VectorNames
      <4> QED
        BY <4>1, <4>2
    <3> QED
      BY <3>1, <3>2
  <2>4. WithVector(s, St(h, t, q, "ok", out)) = St(h, t, Put(p, "vstart", 0), "ok", out)
    BY <1>2, <2>1, <2>2, <2>3, WithVectorIs
  <2> QED
    BY <1>2, <2>1, <2>4 DEF p
<1>3. CASE ~InUse(h, r)
  <2>1. AlikeButFp(r, r)
    BY <1>1 DEF AlikeButFp
  <2>2. WholeRegister(s) = St(h, t, r, "ok", out)
    BY <1>3, WholeIs
  <2>3. PICK a : /\ WriteOneMore(St(h, t, r, "ok", out), n, v[1]) = St(h, t, a, "failed", out)
                 /\ AlikeButFp(a, r)
    BY <1>3, <2>1, WriteOneMoreFails
  <2>4. PICK b : /\ WriteOneMore(St(h, t, a, "failed", out), n, v[2]) = St(h, t, b, "failed", out)
                 /\ AlikeButFp(b, r)
    BY <1>3, <2>3, WriteOneMoreFails
  <2>5. Borrowed(s, "fp") = r["fp"]
    BY FpIs, GprRead
  <2>6. Put(b, "fp", r["fp"]) = r
    <3> DEFINE c == Put(b, "fp", r["fp"])
    <3>1. AreRegisters(c) /\ c["fp"] = r["fp"] /\ \A m \in Registers : m # "fp" => c[m] = b[m]
      BY <2>4, FpIs, PutIs DEF AlikeButFp
    <3> HIDE DEF c
    <3>2. \A m \in Registers : c[m] = r[m]
      BY <2>4, <3>1 DEF AlikeButFp
    <3>3. c = r
      BY <1>1, <3>1, <3>2, SameRegisters
    <3> QED
      BY <3>3 DEF c
  <2>7. FpBack(St(h, t, b, "failed", out), r["fp"]) = St(h, t, r, "ok", out)
    BY <2>6, FpBackIs
  <2> HIDE DEF s
  <2>8. WriteElements(s, n, v) = St(h, t, r, "ok", out)
    BY <2>2, <2>3, <2>4, <2>5, <2>7, WriteElementsAre
  <2>9. WithVector(s, WriteElements(s, n, v)) = St(h, t, r, "ok", out)
    BY <1>3, <2>8, WithoutVectorIs DEF s
  <2> QED
    BY <1>3, <2>9 DEF s
<1> QED
  BY <1>2, <1>3

-----------------------------------------------------------------------------
(* FS and VS are switched on for an access, and off after it.               *)

\* mstatus is always within reach.
LEMMA MstatusAccessible ==
    ASSUME NEW h, NEW t, Ready(h, t), NEW r, NEW n \in {"misa", "mstatus", "dcsr", "dpc", "mscratch"}
    PROVE  Accessible(h, r, n)
BY DEF Ready, Debuggable, Accessible, Direct, Enabled, ClassOf, Gprs, Fprs, Vectors, VectorCsrs

\* The code's own dcsr holds all of it.
LEMMA ReadDcsrIs ==
    ASSUME NEW h, NEW t, Ready(h, t), NEW r, Holds(h, r), NEW e \in {"ok", "failed"}, NEW out
    PROVE  ReadDcsr(St(h, t, r, e, out)) = St(h, t, r, "ok", r["dcsr"])
<1>1. Narrow(St(h, t, r, e, out)) = St(h, t, r, e, 0)
  BY StOut DEF Narrow
<1>2. AreRegisters(r) /\ r["dcsr"] \in Nat /\ Lower(r["dcsr"]) = r["dcsr"]
  BY DEF Holds, AreRegisters, Kept
<1>3. "dcsr" \in Csrs /\ Accessible(h, r, "dcsr")
  BY OtherNames, MstatusAccessible
<1>4. ReadEither(St(h, t, r, e, 0), "dcsr") = St(h, t, r, "ok", Fetched(h, "dcsr", 0, r["dcsr"]))
  BY <1>2, <1>3, EitherIs
<1>5. Upper(0) = 0
  BY DEF Upper, Lower
<1>6. Fetched(h, "dcsr", 0, r["dcsr"]) = r["dcsr"]
  BY <1>2, <1>5 DEF Fetched, Lands, LowerOver
<1> QED
  BY <1>1, <1>4, <1>6 DEF ReadDcsr

NeedsSwitch(n) == FsOf(n) \/ VsOf(n)

SwitchedTo(h, r, n, on) ==
    IF NeedsSwitch(n) THEN Put(r, "mstatus", Kept(h, "mstatus", Switched(r.mstatus, n, on))) ELSE r

\* FS and VS once the extension is switched on or off.
LEMMA SwitchedIs ==
    ASSUME NEW h, NEW r, Holds(h, r), NEW n, NEW on \in 0 .. 1, NEW q, q = SwitchedTo(h, r, n, on)
    PROVE  /\ Holds(h, q) /\ \A m \in Registers : m # "mstatus" => q[m] = r[m]
           /\ q.mstatus \div 4 = r.mstatus \div 4
           /\ Fs(q.mstatus) = IF FsOf(n) THEN IF "f" \in h.ext THEN on ELSE 0 ELSE Fs(r.mstatus)
           /\ Vs(q.mstatus) = IF VsOf(n) THEN IF "v" \in h.ext THEN on ELSE 0 ELSE Vs(r.mstatus)
<1> DEFINE m == r.mstatus
           a == IF FsOf(n) THEN on ELSE Fs(m)
           b == IF VsOf(n) THEN on ELSE Vs(m)
           w == Switched(m, n, on)
           k == Kept(h, "mstatus", w)
<1>1. m \in Nat /\ Kept(h, "mstatus", m) = m /\ AreRegisters(r)
  BY DEF Holds, AreRegisters
<1>2. Fs(m) = (IF "f" \in h.ext THEN Fs(m) ELSE 0) /\ Vs(m) = (IF "v" \in h.ext THEN Vs(m) ELSE 0)
  BY <1>1, MstatusIs
<1>3. CASE ~NeedsSwitch(n)
  BY <1>3 DEF SwitchedTo, NeedsSwitch
<1>4. CASE NeedsSwitch(n)
  <2>1. a \in 0 .. 1 /\ b \in 0 .. 1
    BY <1>1, BitsIs
  <2>2. w = (m - (m % 4)) + 2 * a + b
    BY DEF Switched
  <2> HIDE DEF a, b, w
  <2>3. w \in Nat /\ Fs(w) = a /\ Vs(w) = b /\ w \div 4 = m \div 4
    BY <1>1, <2>1, <2>2, SwitchedBits
  <2>4. /\ k \in Nat /\ k \div 4 = w \div 4
        /\ Fs(k) = (IF "f" \in h.ext THEN a ELSE 0) /\ Vs(k) = (IF "v" \in h.ext THEN b ELSE 0)
    BY <2>3, MstatusIs
  <2>5. Kept(With(h, r), "mstatus", w) = k
    BY WithIs DEF Kept
  <2>6. q = Put(r, "mstatus", Kept(With(h, r), "mstatus", w))
    BY <1>4, <2>5 DEF SwitchedTo, w
  <2>7. Holds(h, q)
    <3>1. "mstatus" \in Registers \ {"vtype", "vl"} /\ Fits("mstatus", w)
      BY <2>3, OtherNames DEF Fits, Vectors
    <3> QED
      BY <2>6, <3>1, HoldsPut
  <2> HIDE DEF k
  <2>8. q["mstatus"] = k /\ \A x \in Registers : x # "mstatus" => q[x] = r[x]
    BY <1>1, <2>5, <2>6, PutIs, OtherNames
  <2> QED
    BY <1>2, <2>3, <2>4, <2>7, <2>8 DEF a, b
<1> QED
  BY <1>3, <1>4

\* rv_prep_ and rv_cleanup_for_register_access change mstatus alone.
LEMMA SwitchIs ==
    ASSUME NEW h, NEW t, Ready(h, t), NEW r, Holds(h, r), NEW e \in {"ok", "failed"}, NEW out,
           NEW n, NEW on \in 0 .. 1
    PROVE  Switch(St(h, t, r, e, out), n, on)
              = St(h, t, SwitchedTo(h, r, n, on), IF NeedsSwitch(n) THEN "ok" ELSE e, out)
<1> DEFINE s == St(h, t, r, e, out)
           w == Switched(r["mstatus"], n, on)
           q == Put(r, "mstatus", Kept(With(h, r), "mstatus", w))
<1>1. CASE ~NeedsSwitch(n)
  BY <1>1 DEF Switch, SwitchedTo, NeedsSwitch
<1>2. CASE NeedsSwitch(n)
  <2>1. "mstatus" \in Fprs \union Csrs /\ "mstatus" \notin ReadOnly /\ AreRegisters(r)
    BY OtherNames DEF ReadOnly, Holds, AreRegisters
  <2>2. Accessible(h, r, "mstatus")
    BY MstatusAccessible
  <2>3. ReadEither(s, "mstatus") = St(h, t, r, "ok", r["mstatus"])
    BY <2>1, <2>2, ReadEitherIs
  <2>4. Stored(h, r, "mstatus", w) = q
    BY <2>1, <2>2 DEF Stored, Written
  <2> HIDE DEF w, q
  <2>5. PICK x : x = r["mstatus"]
    OBVIOUS
  <2>6. WriteEither(St(h, t, r, "ok", x), "mstatus", w) = St(h, t, q, "ok", x)
    BY <2>1, <2>4, WriteEitherIs
  <2>7. St(h, t, r, "ok", x).out = x
    BY StIs
  <2>8. WriteMstatus(St(h, t, r, "ok", x), n, on, out) = Shows(St(h, t, q, "ok", x), out)
    BY <2>5, <2>6, <2>7 DEF WriteMstatus, Shows, w
  <2>9. s.out = out
    BY StIs
  <2> HIDE DEF s
  <2>10. Switch(s, n, on) = WriteMstatus(ReadEither(s, "mstatus"), n, on, out)
    BY <1>2, <2>9 DEF Switch, NeedsSwitch
  <2>11. q = SwitchedTo(h, r, n, on)
    BY <1>2, WithIs DEF q, w, SwitchedTo, Kept
  <2> QED
    BY <1>2, <2>3, <2>5, <2>8, <2>10, <2>11, StShows DEF s
<1> QED
  BY <1>1, <1>2
-----------------------------------------------------------------------------
(* A register is read.                                                      *)

Shown(r, n) == IF n = "priv" THEN Prv(r.dcsr) ELSE r[Named(n)]

\* 32 bits are stored of it, and 64 answered.
StaleHalf(h, n) == h.xlen = 64 /\ (n = "priv" \/ (n = "dcsr" /\ Direct(h, n)))

\* What a read leaves in a buffer that holds out.
Given(h, r, n, out) == IF StaleHalf(h, n) THEN Upper(out) + Shown(r, n) ELSE Shown(r, n)

\* There is a way to n, while its extension is on.
Available(h, r, n) == n \in Gprs \/ IF n \in Vectors THEN InUse(h, r) ELSE Accessible(h, r, Named(n))

Done(n, e) == IF n = "none" THEN e ELSE "ok"

\* What a number stands for.
LEMMA NumberedIs ==
    ASSUME NEW n \in Numbered
    PROVE  n \in Gprs \/ n \in Vectors \/ n = "none" \/ (n \notin Gprs /\ n \notin Vectors /\ n # "none" /\ Named(n) \in Fprs \union Csrs)
BY DEF Numbered, Registers, Named, Csrs, Vectors, Gprs

\* A GPR needs no extension.
LEMMA GprNames ==
    ASSUME NEW n \in Gprs
    PROVE  n \in Registers /\ n # "priv" /\ n # "none" /\ Named(n) = n /\ n \notin Vectors
BY DEF Gprs, Registers, Named, Vectors

\* A read changes nothing but vstart, and only for a vector register.
LEMMA ReadPreparedIs ==
    ASSUME NEW h, NEW t, Ready(h, t), NEW r, Holds(h, r), NEW e \in {"ok", "failed"}, NEW out,
           NEW n \in Numbered, n \in Vectors => e = "ok"
    PROVE  \E x : /\ ReadPrepared(St(h, t, r, e, out), n)
                        = St(h, t, IF n \in Vectors /\ InUse(h, r) THEN Put(r, "vstart", 0) ELSE r, Done(n, e), x)
                  /\ n # "none" /\ Available(h, r, n) => x = Given(h, r, n, out)
<1> DEFINE s == St(h, t, r, e, out)
<1>1. AreRegisters(r) /\ h.xlen \in {32, 64} /\ t.mxl = h.xlen
  BY DEF Holds, AreRegisters, Ready, Debuggable
<1>2. CASE n \in Gprs
  <2>1. rv_register_read(s, n) = St(h, t, r, "ok", r[n])
    BY <1>2, GprRead
  <2> HIDE DEF s
  <2>2. ReadPrepared(s, n) = rv_register_read(s, n)
    BY <1>2, GprNames, Zenon DEF ReadPrepared
  <2>3. Given(h, r, n, out) = r[n] /\ n \notin Vectors /\ Done(n, e) = "ok"
    BY <1>2, GprNames DEF Given, StaleHalf, Shown, Done, Gprs
  <2> QED
    BY <2>1, <2>2, <2>3 DEF s
<1>3. CASE n \in Vectors
  <2>1. n \notin Gprs /\ n # "none" /\ Given(h, r, n, out) = r[n] /\ Done(n, e) = "ok" /\ (Available(h, r, n) <=> InUse(h, r))
    BY <1>3 DEF Vectors, Gprs, Given, StaleHalf, Shown, Done, Available, Named
  <2> HIDE DEF s
  <2>2. ReadPrepared(s, n) = WithVector(s, ReadElements(s, n))
    <3>1. n # "priv"
      BY <1>3 DEF Vectors
    <3> QED
      BY <1>3, <2>1, <3>1 DEF ReadPrepared
  <2>3. /\ InUse(h, r) => WithVector(s, ReadElements(s, n)) = St(h, t, Put(r, "vstart", 0), "ok", r[n])
        /\ ~InUse(h, r) => \E x : WithVector(s, ReadElements(s, n)) = St(h, t, r, "ok", x)
    BY <1>3, ReadVectorIs DEF s
  <2>4. CASE InUse(h, r)
    BY <1>3, <2>1, <2>2, <2>3, <2>4 DEF s
  <2>5. CASE ~InUse(h, r)
    BY <1>3, <2>1, <2>2, <2>3, <2>5 DEF s
  <2> QED
    BY <2>4, <2>5
<1>4. CASE n = "none"
  <2>1. n \notin Gprs /\ n \notin Vectors
    BY <1>4 DEF Gprs, Vectors
  <2>4. PICK y : y = Into(s, 32, Junk)
    OBVIOUS
  <2>2. ReadPrepared(s, n) = Shows(s, y)
    BY <1>4, <2>1, <2>4 DEF ReadPrepared, Shows
  <2>3. Shows(s, y) = St(h, t, r, e, y)
    BY StShows
  <2> QED
    BY <1>4, <2>1, <2>2, <2>3 DEF Done
<1>5. CASE n = "priv"
  <2> DEFINE d == r["dcsr"]
  <2>1. ReadDcsr(s) = St(h, t, r, "ok", d)
    BY ReadDcsrIs
  <2>2. PICK x : x = Into(s, 32, Prv(d))
    OBVIOUS
  <2>3. x = Given(h, r, n, out)
    <3>1. Lower(Prv(d)) = Prv(d)
      BY DEF Holds, Lower, Prv
    <3>2. s.mxl = h.xlen /\ s.out = out
      BY <1>1, StIs
    <3> HIDE DEF s
    <3> QED
      BY <1>1, <1>5, <2>2, <3>1, <3>2 DEF Into, LowerOver, Given, StaleHalf, Shown
  <2>4. ReadPrepared(s, n) = Shows(St(h, t, r, "ok", d), x)
    <3>1. St(h, t, r, "ok", d).out = d
      BY StIs
    <3> HIDE DEF s, d
    <3>2. ReadPrepared(s, n) = [ReadDcsr(s) EXCEPT !.out = Into(s, 32, Prv(@))]
      <4>1. n \notin Gprs /\ n \notin Vectors /\ n # "none"
        BY <1>5 DEF Gprs, Vectors
      <4> QED
        BY <1>5, <4>1, Zenon DEF ReadPrepared
    <3>3. PICK z : z = ReadDcsr(s)
      OBVIOUS
    <3>4. [z EXCEPT !.out = Into(s, 32, Prv(@))] = Shows(z, Into(s, 32, Prv(z.out)))
      BY DEF Shows
    <3> QED
      BY <2>1, <2>2, <3>1, <3>2, <3>3, <3>4
  <2>5. Shows(St(h, t, r, "ok", d), x) = St(h, t, r, "ok", x)
    BY StShows
  <2>6. Done(n, e) = "ok" /\ n \notin Vectors
    BY <1>5 DEF Done, Vectors
  <2> QED
    BY <2>3, <2>4, <2>5, <2>6
<1>6. CASE n \notin Gprs /\ n \notin Vectors /\ n \notin {"none", "priv"} /\ Named(n) \in Fprs \union Csrs
  <2> DEFINE m == Named(n)
  <2>1. PICK x : ReadEither(s, m) = St(h, t, r, "ok", x) /\ (Accessible(h, r, m) => x = Fetched(h, m, out, r[m]))
    BY <1>1, <1>6, EitherIs
  <2> HIDE DEF s
  <2>2. ReadPrepared(s, n) = ReadEither(s, m)
    BY <1>6 DEF ReadPrepared
  <2>3. Fetched(h, m, out, r[m]) = Given(h, r, n, out)
    <3>1. CASE m = "dcsr"
      <4>1. n = "dcsr"
        BY <1>6, <3>1 DEF Named
      <4>2. Lower(r["dcsr"]) = r["dcsr"]
        BY DEF Holds, Kept
      <4> QED
        BY <3>1, <4>1, <4>2 DEF Fetched, Lands, LowerOver, Given, StaleHalf, Shown
    <3>2. CASE m # "dcsr"
      <4>1. n # "dcsr"
        BY <3>2 DEF Named
      <4> QED
        BY <1>6, <3>2, <4>1 DEF Fetched, Lands, Given, StaleHalf, Shown
    <3> QED
      BY <3>1, <3>2
  <2>4. Available(h, r, n) <=> Accessible(h, r, m)
    BY <1>6 DEF Available
  <2>5. Done(n, e) = "ok"
    BY <1>6 DEF Done
  <2> QED
    BY <1>6, <2>1, <2>2, <2>3, <2>4, <2>5 DEF s
<1> QED
  BY <1>2, <1>3, <1>4, <1>5, <1>6, NumberedIs

\* Registers r are left as q: nothing has changed but those in S and, for an
\* access to n, the extension it needs.
StatusLeft(m, k, n) ==
    k \div 4 = m \div 4 /\ (Fs(k) # Fs(m) => FsOf(n)) /\ (Vs(k) # Vs(m) => VsOf(n))

Left(h, r, q, n, S) ==
    /\ Holds(h, q)
    /\ \A m \in Registers : m \notin S /\ m # "mstatus" => q[m] = r[m]
    /\ "mstatus" \notin S => StatusLeft(r.mstatus, q.mstatus, n)

Clears(n) == IF n \in Vectors THEN {"vstart"} ELSE {}

\* There is a way to n.
Reaches(h, r, n) ==
    /\ n \in Fprs \union {"fcsr"} => "f" \in h.ext
    /\ n \in Vectors \union VectorCsrs => "v" \in h.ext
    /\ n = "fcsr" => Fs(r.mstatus) = 1
    /\ h.progbuf \/ (n \notin Vectors /\ ClassOf(n) \in h.abstract)

\* Where there is a way to n, there is one once its extension is on.
LEMMA ReachesIs ==
    ASSUME NEW h, NEW t, Ready(h, t), NEW r, Holds(h, r), NEW n \in Numbered, n # "none",
           Reaches(h, r, Named(n)), NEW q, q = SwitchedTo(h, r, n, 1)
    PROVE  Available(h, q, n)
<1>1. /\ Fs(q.mstatus) = IF FsOf(n) THEN IF "f" \in h.ext THEN 1 ELSE 0 ELSE Fs(r.mstatus)
      /\ Vs(q.mstatus) = IF VsOf(n) THEN IF "v" \in h.ext THEN 1 ELSE 0 ELSE Vs(r.mstatus)
  BY SwitchedIs
<1>2. CASE n \in Gprs
  BY <1>2 DEF Available
<1>3. CASE n \in Vectors
  <2>1. Named(n) = n /\ VsOf(n) /\ n \notin Gprs
    BY <1>3 DEF Vectors, Named, VsOf, Gprs
  <2>2. h.progbuf /\ Vs(q.mstatus) = 1 /\ "v" \in h.ext
    BY <1>1, <1>3, <2>1 DEF Reaches
  <2>3. Enabled(With(h, q), "vl")
    BY <2>2, WithIs, VectorCsrsAlike DEF VectorCsrs
  <2> QED
    BY <1>3, <2>2, <2>3 DEF Available, InUse
<1>4. CASE n \notin Gprs /\ n \notin Vectors
  <2> DEFINE m == Named(n)
  <2>1. m \in Fprs \union Csrs
    BY <1>4, NumberedIs
  <2>2. /\ (FsOf(n) <=> m \in Fprs) /\ (VsOf(n) <=> m \in VectorCsrs) /\ m \notin Vectors
    BY <1>4, <2>1 DEF FsOf, VsOf, Named, Fprs, VectorCsrs, Vectors, Csrs
  <2>3. m \in Fprs \union {"fcsr"} => "f" \in h.ext /\ Fs(q.mstatus) = 1
    BY <1>1, <2>2 DEF Reaches, Fprs
  <2>4. m \in VectorCsrs => "v" \in h.ext /\ Vs(q.mstatus) = 1
    BY <1>1, <2>2 DEF Reaches
  <2> HIDE DEF m
  <2>5. Enabled(With(h, q), m)
    BY <2>2, <2>3, <2>4, WithIs DEF Enabled
  <2>6. h.progbuf \/ Direct(h, m)
    BY DEF Reaches, Direct, m
  <2> QED
    BY <1>4, <2>5, <2>6 DEF Available, Accessible, m
<1> QED
  BY <1>2, <1>3, <1>4

\* The value of n is the same while its extension is on.
LEMMA ShownSame ==
    ASSUME NEW r, NEW q, \A m \in Registers : m # "mstatus" => q[m] = r[m], NEW n \in Numbered,
           n \notin {"none", "mstatus"}
    PROVE  Shown(q, n) = Shown(r, n)
<1>1. CASE n = "priv"
  BY <1>1, OtherNames DEF Shown
<1>2. CASE n # "priv"
  <2>1. Named(n) \in Registers /\ Named(n) # "mstatus"
    BY <1>2, OtherNames DEF Named, Numbered, Registers, Csrs
  <2> QED
    BY <1>2, <2>1 DEF Shown
<1> QED
  BY <1>1, <1>2

\* Off again, after the registers q0 that were left by an access.
LEMMA SwitchedOff ==
    ASSUME NEW h, NEW r, Holds(h, r), NEW n, NEW S, "mstatus" \notin S \/ ~NeedsSwitch(n), NEW p, Holds(h, p),
           \A m \in Registers : m \notin S /\ m # "mstatus" => p[m] = r[m],
           "mstatus" \notin S => StatusLeft(r.mstatus, p.mstatus, n)
    PROVE  Left(h, r, SwitchedTo(h, p, n, 0), n, S)
<1> DEFINE q == SwitchedTo(h, p, n, 0)
<1>1. /\ Holds(h, q) /\ \A m \in Registers : m # "mstatus" => q[m] = p[m]
      /\ q.mstatus \div 4 = p.mstatus \div 4
      /\ Fs(q.mstatus) = IF FsOf(n) THEN IF "f" \in h.ext THEN 0 ELSE 0 ELSE Fs(p.mstatus)
      /\ Vs(q.mstatus) = IF VsOf(n) THEN IF "v" \in h.ext THEN 0 ELSE 0 ELSE Vs(p.mstatus)
  BY SwitchedIs
<1> HIDE DEF q
<1>2. "mstatus" \notin S => StatusLeft(r.mstatus, q.mstatus, n)
  BY <1>1 DEF StatusLeft
<1> QED
  BY <1>1, <1>2 DEF Left, q

\* A read gives what the register holds, and leaves the registers as they were.
LEMMA ReadRegisterIs ==
    ASSUME NEW h, NEW t, Ready(h, t), NEW r, Holds(h, r), NEW e \in {"ok", "failed"}, NEW out, NEW n \in Numbered
    PROVE  \E q, x : /\ rv_target_read_register(St(h, t, r, e, out), n) = St(h, t, q, Done(n, e), x)
                     /\ Left(h, r, q, n, Clears(n))
                     /\ n # "none" /\ Reaches(h, r, Named(n)) => x = Given(h, r, n, out)
<1> DEFINE s == St(h, t, r, e, out)
           a == SwitchedTo(h, r, n, 1)
           f == IF NeedsSwitch(n) THEN "ok" ELSE e
           p == IF n \in Vectors /\ InUse(h, a) THEN Put(a, "vstart", 0) ELSE a
           q == SwitchedTo(h, p, n, 0)
<1>1. Switch(s, n, 1) = St(h, t, a, f, out)
  BY SwitchIs
<1>2. /\ Holds(h, a) /\ \A m \in Registers : m # "mstatus" => a[m] = r[m]
      /\ a.mstatus \div 4 = r.mstatus \div 4
      /\ Fs(a.mstatus) = IF FsOf(n) THEN IF "f" \in h.ext THEN 1 ELSE 0 ELSE Fs(r.mstatus)
      /\ Vs(a.mstatus) = IF VsOf(n) THEN IF "v" \in h.ext THEN 1 ELSE 0 ELSE Vs(r.mstatus)
  BY SwitchedIs
<1>3. f \in {"ok", "failed"} /\ (n \in Vectors => f = "ok") /\ (NeedsSwitch(n) => n # "none")
  BY DEF NeedsSwitch, VsOf, FsOf, Fprs, Vectors, VectorCsrs
<1>4. n # "none" /\ Reaches(h, r, Named(n)) => Available(h, a, n)
  BY ReachesIs
<1> HIDE DEF a, f
<1>5. PICK x : /\ ReadPrepared(St(h, t, a, f, out), n) = St(h, t, p, Done(n, f), x)
               /\ n # "none" /\ Available(h, a, n) => x = Given(h, a, n, out)
  BY <1>2, <1>3, ReadPreparedIs
<1>6. Holds(h, p) /\ \A m \in Registers : m # "vstart" \/ n \notin Vectors => p[m] = a[m]
  <2>1. CASE n \in Vectors /\ InUse(h, a)
    <3>1. "vstart" \in Registers \ {"vtype", "vl"} /\ Fits("vstart", 0) /\ Kept(With(h, a), "vstart", 0) = 0
      BY OtherNames DEF Fits, Vectors, Kept
    <3>2. Holds(h, p)
      BY <1>2, <2>1, <3>1, HoldsPut
    <3>3. AreRegisters(a)
      BY <1>2 DEF Holds, AreRegisters
    <3>4. \A m \in Registers : m # "vstart" => Put(a, "vstart", 0)[m] = a[m]
      BY <3>3, OtherNames, PutIs
    <3> QED
      BY <2>1, <3>2, <3>4
  <2>2. CASE ~(n \in Vectors /\ InUse(h, a))
    BY <1>2, <2>2
  <2> QED
    BY <2>1, <2>2
<1> HIDE DEF p
<1>7. p["mstatus"] = a["mstatus"]
  BY <1>6, OtherNames
<1>8. Switch(St(h, t, p, Done(n, f), x), n, 0) = St(h, t, q, Done(n, e), x)
  <2>1. Done(n, f) \in {"ok", "failed"}
    BY <1>3 DEF Done
  <2>2. (IF NeedsSwitch(n) THEN "ok" ELSE Done(n, f)) = Done(n, e)
    BY <1>3 DEF Done, f
  <2> QED
    BY <1>6, <2>1, <2>2, SwitchIs
<1>9. Left(h, r, q, n, Clears(n))
  <2>1. "mstatus" \notin Clears(n)
    BY DEF Clears
  <2>2. \A m \in Registers : m \notin Clears(n) /\ m # "mstatus" => p[m] = r[m]
    BY <1>2, <1>6 DEF Clears
  <2>3. StatusLeft(r.mstatus, p.mstatus, n)
    BY <1>2, <1>7 DEF StatusLeft
  <2> QED
    BY <1>6, <2>1, <2>2, <2>3, SwitchedOff
<1>10. n # "none" /\ Reaches(h, r, Named(n)) => x = Given(h, r, n, out)
  <2> SUFFICES ASSUME n # "none", Reaches(h, r, Named(n)) PROVE Shown(a, n) = Shown(r, n)
    BY <1>4, <1>5 DEF Given
  <2>1. CASE n = "mstatus"
    <3>1. a = r
      BY <2>1 DEF a, SwitchedTo, NeedsSwitch, FsOf, VsOf, Fprs, Vectors, VectorCsrs
    <3> QED
      BY <3>1
  <2>2. CASE n # "mstatus"
    BY <1>2, <2>2, ShownSame
  <2> QED
    BY <2>1, <2>2
<1> HIDE DEF s, q
<1>11. rv_target_read_register(s, n) = St(h, t, q, Done(n, e), x)
  BY <1>1, <1>5, <1>8 DEF rv_target_read_register
<1> QED
  BY <1>9, <1>10, <1>11 DEF s

-----------------------------------------------------------------------------
(* A register is written.                                                   *)

\* The registers a write to n is about.
Touches(n) ==
    {Named(n)} \union (IF n = "vtype" THEN {"vl"} ELSE {})
               \union (IF n \in Vectors \union {"vl", "vtype"} THEN {"vstart"} ELSE {})

\* What a write of v to n makes of it.
Becomes(h, r, n, v) ==
    IF n = "priv" THEN (r.dcsr - Prv(r.dcsr)) + Prv(v)
    ELSE IF n = "vlenb" THEN r[n] ELSE Kept(With(h, r), Named(n), v)

FitsInto(n, v) == Fits(Named(n), v) /\ (n = "priv" => v \in Nat)

\* There is a way to write n.
Writable(h, r, n) == Available(h, r, n) /\ (n \in {"vl", "vtype"} => h.progbuf)

\* Registers r become p by a write of v to n.
Turns(h, r, n, v, p) ==
    /\ Holds(h, p) /\ p.misa = r.misa /\ p.vlenb = r.vlenb
    /\ \A m \in Registers : m \notin Touches(n) => p[m] = r[m]
    /\ n # "none" /\ Writable(h, r, n) => p[Named(n)] = Becomes(h, r, n, v)

\* What a write leaves in the register and in the others.
LEMMA StoredIs ==
    ASSUME NEW h, NEW r, Holds(h, r), NEW n \in (Fprs \union Csrs) \ {"vl", "vtype"}, NEW v
    PROVE  /\ AreRegisters(Stored(h, r, n, v)) /\ \A m \in Registers : m # n => Stored(h, r, n, v)[m] = r[m]
           /\ Stored(h, r, n, v)[n] = IF Accessible(h, r, n) /\ n \notin ReadOnly
                                      THEN Kept(With(h, r), n, v) ELSE r[n]
<1>1. AreRegisters(r) /\ n \in Registers
  BY DEF Holds, AreRegisters, Registers
<1>2. PICK k : k = Kept(With(h, r), n, v)
  OBVIOUS
<1>3. AreRegisters(Put(r, n, k)) /\ Put(r, n, k)[n] = k /\ \A m \in Registers : m # n => Put(r, n, k)[m] = r[m]
  BY <1>1, PutIs
<1>4. Stored(h, r, n, v) = IF Accessible(h, r, n) /\ n \notin ReadOnly THEN Put(r, n, k) ELSE r
  BY <1>2 DEF Stored, Written
<1> QED
  BY <1>1, <1>2, <1>3, <1>4

\* What vsetvl leaves in vl, vtype and the others.
LEMMA ConfiguredIs ==
    ASSUME NEW h, NEW r, Holds(h, r), NEW n \in {"vl", "vtype"}, NEW v, n = "vl" => v \in Nat,
           NEW q, q = Configured(h, r, n, v)
    PROVE  /\ \A m \in Registers : m \notin Touches(n) => q[m] = r[m]
           /\ InUse(h, r) => q[n] = Kept(With(h, r), n, v)
<1>1. AreRegisters(r)
  BY DEF Holds, AreRegisters
<1>2. CASE ~InUse(h, r)
  BY <1>2 DEF Configured, InUse
<1>3. CASE InUse(h, r) /\ n = "vl"
  <2> DEFINE L == Length(v, r.vtype)
  <2>1. q = Vset(r, r.vtype, L)
    BY <1>3 DEF Configured, InUse, Length
  <2>2. Kept(With(h, r), "vl", v) = L
    BY WithIs, ZenonT(60) DEF Kept, Length
  <2> HIDE DEF L
  <2>3. /\ q["vtype"] = r.vtype /\ q["vl"] = L
        /\ \A m \in Registers : m \notin {"vtype", "vl", "vstart"} => q[m] = r[m]
    BY <1>1, <2>1, VsetRegisters
  <2>4. Touches("vl") = {"vl", "vstart"}
    BY DEF Touches, Named
  <2> QED
    BY <1>3, <2>2, <2>3, <2>4
<1>4. CASE InUse(h, r) /\ n = "vtype"
  <2> DEFINE T == Kept(With(h, r), "vtype", v)
             L == Length(r.vl, T)
  <2>1. q = Vset(r, T, L)
    BY <1>4 DEF Configured, InUse, Length
  <2> HIDE DEF L, T
  <2>2. /\ q["vtype"] = T
        /\ \A m \in Registers : m \notin {"vtype", "vl", "vstart"} => q[m] = r[m]
    BY <1>1, <2>1, VsetRegisters
  <2>3. Touches("vtype") = {"vtype", "vl", "vstart"}
    BY DEF Touches, Named
  <2> QED
    BY <1>4, <2>2, <2>3 DEF T
<1> QED
  BY <1>2, <1>3, <1>4

\* dcsr with another prv fits into dcsr.
LEMMA PrvKept ==
    ASSUME NEW d \in Nat, Lower(d) = d, NEW v \in Nat, NEW w, w = (d - Prv(d)) + Prv(v)
    PROVE  w \in Nat /\ Lower(w) = w
<1>1. d \in 0 .. 255 /\ Prv(v) \in 0 .. 3 /\ Prv(d) \in 0 .. 3
  BY DEF Lower, Prv
<1>2. d = 4 * (d \div 4) + Prv(d) /\ d \div 4 \in 0 .. 63
  BY <1>1 DEF Prv
<1>3. w \in 0 .. 255
  BY <1>1, <1>2
<1> QED
  BY <1>3 DEF Lower

\* A write changes the registers it is about alone.
LEMMA WritePreparedIs ==
    ASSUME NEW h, NEW t, Ready(h, t), NEW r, Holds(h, r), NEW e \in {"ok", "failed"}, NEW out,
           NEW n \in Numbered, n \in Vectors => e = "ok", NEW v, FitsInto(n, v)
    PROVE  \E p, x : WritePrepared(St(h, t, r, e, out), n, v) = St(h, t, p, Done(n, e), x) /\ Turns(h, r, n, v, p)
<1> DEFINE s == St(h, t, r, e, out)
<1>1. AreRegisters(r)
  BY DEF Holds, AreRegisters
<1>2. CASE n \in Gprs
  <2> DEFINE p == Put(r, n, v)
  <2>1. rv_register_write(s, n, v) = St(h, t, p, "ok", out)
    BY <1>2, GprWrite
  <2>2. n \in Registers \ {"vl", "vtype", "misa", "vlenb"} /\ Named(n) = n /\ Kept(With(h, r), n, v) = v
    BY <1>2 DEF Registers, Gprs, Named, Kept
  <2>3. p[n] = v /\ \A m \in Registers : m # n => p[m] = r[m]
    BY <1>1, <2>2, PutIs
  <2>4. Holds(h, p)
    BY <2>2, HoldsPut DEF FitsInto
  <2> HIDE DEF s, p
  <2>5. WritePrepared(s, n, v) = rv_register_write(s, n, v)
    BY <1>2, GprNames, Zenon DEF WritePrepared
  <2>6. Becomes(h, r, n, v) = v /\ Done(n, e) = "ok" /\ n \in Touches(n)
    BY <1>2, <2>2, GprNames DEF Becomes, Done, Touches
  <2>7. Turns(h, r, n, v, p)
    BY <2>2, <2>3, <2>4, <2>6, OtherNames DEF Turns
  <2> QED
    BY <2>1, <2>5, <2>6, <2>7 DEF s
<1>3. CASE n \in Vectors
  <2>1. n \notin Gprs /\ n # "none" /\ n # "priv" /\ Named(n) = n /\ Done(n, e) = "ok" /\ e = "ok"
    BY <1>3 DEF Vectors, Gprs, Named, Done
  <2>2. Touches(n) = {n, "vstart"} /\ Becomes(h, r, n, v) = v
    BY <1>3 DEF Vectors, Touches, Becomes, Named, Kept
  <2> DEFINE p == Put(Put(r, n, v), "vstart", 0)
  <2>3. IsVector(v)
    BY <1>3, <2>1 DEF FitsInto, Fits, IsVector
  <2>4. WithVector(s, WriteElements(s, n, v)) = St(h, t, IF InUse(h, r) THEN p ELSE r, "ok", out)
    BY <1>3, <2>1, <2>3, WriteVectorRegisterIs
  <2> HIDE DEF s
  <2>5. WritePrepared(s, n, v) = WithVector(s, WriteElements(s, n, v))
    BY <1>3, <2>1, Zenon DEF WritePrepared
  <2>6. ~InUse(h, r) => Turns(h, r, n, v, r)
    BY <1>3, <2>1 DEF Turns, Writable, Available
  <2>7. InUse(h, r) => Turns(h, r, n, v, p)
    <3> DEFINE a == Put(r, n, v)
    <3>1. n \in Registers \ {"vtype", "vl", "mstatus", "vstart", "misa", "vlenb"}
      BY <1>3, VectorNames
    <3>2. Kept(With(h, r), n, v) = v
      BY <1>3 DEF Kept, Vectors
    <3>3. Holds(h, a)
      BY <2>1, <3>1, <3>2, HoldsPut DEF FitsInto
    <3>4. AreRegisters(a) /\ a[n] = v /\ \A m \in Registers : m # n => a[m] = r[m]
      BY <1>1, <3>1, PutIs
    <3> HIDE DEF a
    <3>5. Kept(With(h, a), "vstart", 0) = 0 /\ Fits("vstart", 0) /\ "vstart" \in Registers \ {"vtype", "vl"}
      BY OtherNames DEF Kept, Fits, Vectors
    <3>6. Holds(h, Put(a, "vstart", 0))
      BY <3>3, <3>5, HoldsPut
    <3> DEFINE b == Put(a, "vstart", 0)
    <3>7. \A m \in Registers : m # "vstart" => b[m] = a[m]
      BY <3>4, OtherNames, PutIs
    <3> HIDE DEF b
    <3>8. Turns(h, r, n, v, b)
      BY <2>1, <2>2, <3>1, <3>4, <3>6, <3>7, OtherNames DEF Turns, b
    <3> QED
      BY <3>8 DEF a, b
  <2> QED
    BY <2>1, <2>4, <2>5, <2>6, <2>7 DEF s
<1>4. CASE n = "none"
  <2>1. n \notin Gprs /\ n \notin Vectors /\ n \notin Registers
    BY <1>4 DEF Gprs, Vectors, Registers, Fprs, Csrs, VectorCsrs
  <2>2. WritePrepared(s, n, v) = s
    BY <1>4, <2>1 DEF WritePrepared
  <2>3. Turns(h, r, n, v, r)
    BY <1>4 DEF Turns
  <2> QED
    BY <1>4, <2>2, <2>3 DEF Done
<1>5. CASE n = "priv"
  <2> DEFINE d == r["dcsr"]
             w == (d - Prv(d)) + Prv(v)
             p == Stored(h, r, "dcsr", w)
  <2>1. "dcsr" \in (Fprs \union Csrs) \ {"vl", "vtype"} /\ "dcsr" \notin ReadOnly
    BY OtherNames DEF ReadOnly
  <2>2. Accessible(h, r, "dcsr")
    BY MstatusAccessible
  <2>3. ReadDcsr(s) = St(h, t, r, "ok", d)
    BY ReadDcsrIs
  <2>4. w \in Nat /\ Lower(w) = w
    <3>1. d \in Nat /\ v \in Nat /\ Lower(d) = d
      BY <1>5 DEF Holds, FitsInto, Kept
    <3> QED
      BY <3>1, PrvKept
  <2> HIDE DEF d, w
  <2>5. /\ AreRegisters(p) /\ \A m \in Registers : m # "dcsr" => p[m] = r[m]
        /\ p["dcsr"] = Kept(With(h, r), "dcsr", w)
    BY <2>1, <2>2, StoredIs
  <2>6. Holds(h, p)
    <3>1. Fits("dcsr", w)
      BY <2>4 DEF Fits, Vectors
    <3> QED
      BY <2>1, <3>1, HoldsStored
  <2> HIDE DEF p
  <2>7. WriteEither(St(h, t, r, "ok", d), "dcsr", w) = St(h, t, p, "ok", d)
    BY <2>1, WriteEitherIs DEF p
  <2>8. WritePriv(St(h, t, r, "ok", d), v) = WriteEither(St(h, t, r, "ok", d), "dcsr", w)
    <3>1. St(h, t, r, "ok", d).out = d
      BY StIs
    <3> QED
      BY <3>1 DEF WritePriv, w
  <2> HIDE DEF s
  <2>9. WritePrepared(s, n, v) = WritePriv(ReadDcsr(s), v)
    <3>1. n \notin Gprs /\ n \notin Vectors /\ n # "none"
      BY <1>5 DEF Gprs, Vectors
    <3> QED
      BY <1>5, <3>1 DEF WritePrepared
  <2>10. Kept(With(h, r), "dcsr", w) = w
    BY <2>4 DEF Kept
  <2>11. Turns(h, r, n, v, p)
    <3>1. Named(n) = "dcsr" /\ Touches(n) = {"dcsr"} /\ Becomes(h, r, n, v) = w
      BY <1>5 DEF Named, Touches, Becomes, Vectors, w, d
    <3> QED
      BY <2>5, <2>6, <2>10, <3>1, OtherNames DEF Turns
  <2>12. Done(n, e) = "ok"
    BY <1>5 DEF Done
  <2> QED
    BY <2>3, <2>7, <2>8, <2>9, <2>11, <2>12 DEF s
<1>6. CASE n \notin Gprs /\ n \notin Vectors /\ n # "none" /\ n # "priv" /\ Named(n) \in Fprs \union Csrs
  <2> DEFINE m == Named(n)
             p == Stored(h, r, m, v)
  <2>1. WriteEither(s, m, v) = St(h, t, p, "ok", out)
    BY <1>6, WriteEitherIs
  <2>2. Holds(h, p)
    BY <1>6, HoldsStored DEF FitsInto
  <2>3. WritePrepared(s, n, v) = WriteEither(s, m, v)
    <3> HIDE DEF s
    <3> QED
      BY <1>6 DEF WritePrepared
  <2>4. /\ \A x \in Registers : x \notin Touches(n) => p[x] = r[x]
        /\ Writable(h, r, n) => p[m] = Becomes(h, r, n, v)
        /\ p.misa = r.misa /\ p.vlenb = r.vlenb
    <3>1. CASE m \in {"vl", "vtype"}
      <4>1. m = n /\ p = Configured(h, r, m, v)
        BY <3>1 DEF Named, Stored
      <4>2. n = "vl" => v \in Nat
        BY <4>1 DEF FitsInto, Fits
      <4>3. /\ \A x \in Registers : x \notin Touches(n) => p[x] = r[x]
            /\ InUse(h, r) => p[n] = Kept(With(h, r), n, v)
        BY <3>1, <4>1, <4>2, ConfiguredIs
      <4>4. Writable(h, r, n) => InUse(h, r)
        <5>1. Enabled(With(h, r), "vtype") <=> Enabled(With(h, r), "vl")
          BY VectorCsrsAlike DEF VectorCsrs
        <5> QED
          BY <1>6, <3>1, <4>1, <5>1 DEF Writable, Available, Accessible, InUse
      <4>5. Becomes(h, r, n, v) = Kept(With(h, r), n, v)
        BY <3>1, <4>1 DEF Becomes
      <4>6. "misa" \notin Touches(n) /\ "vlenb" \notin Touches(n)
        BY <3>1, <4>1 DEF Touches, Vectors
      <4> HIDE DEF p, m
      <4> QED
        BY <4>1, <4>3, <4>4, <4>5, <4>6, OtherNames
    <3>2. CASE m \notin {"vl", "vtype"}
      <4>1. /\ \A x \in Registers : x # m => p[x] = r[x]
            /\ p[m] = IF Accessible(h, r, m) /\ m \notin ReadOnly THEN Kept(With(h, r), m, v) ELSE r[m]
        BY <1>6, <3>2, StoredIs
      <4>2. m \in Touches(n) /\ (Writable(h, r, n) => Accessible(h, r, m))
        BY <1>6 DEF Touches, Writable, Available
      <4>3. (m \in ReadOnly <=> n = "vlenb") /\ (n = "vlenb" => m = "vlenb")
        BY <3>2 DEF ReadOnly, Named
      <4>4. m = "misa" => Kept(With(h, r), m, v) = r["misa"]
        BY WithIs DEF Kept
      <4>5. Becomes(h, r, n, v) = IF n = "vlenb" THEN r[n] ELSE Kept(With(h, r), m, v)
        BY <1>6 DEF Becomes
      <4> HIDE DEF p, m
      <4>6. p["misa"] = r["misa"]
        BY <4>1, <4>4, OtherNames
      <4>7. p["vlenb"] = r["vlenb"]
        BY <4>1, <4>3, OtherNames DEF ReadOnly
      <4>8. \A x \in Registers : x \notin Touches(n) => p[x] = r[x]
        BY <4>1, <4>2
      <4>9. Writable(h, r, n) => p[m] = Becomes(h, r, n, v)
        BY <4>1, <4>2, <4>3, <4>5
      <4> QED
        BY <4>6, <4>7, <4>8, <4>9
    <3> QED
      BY <3>1, <3>2
  <2> HIDE DEF p
  <2>5. Turns(h, r, n, v, p)
    BY <2>2, <2>4 DEF Turns
  <2>6. Done(n, e) = "ok"
    BY <1>6 DEF Done
  <2> QED
    BY <2>1, <2>3, <2>5, <2>6
<1> QED
  BY <1>2, <1>3, <1>4, <1>5, <1>6, NumberedIs

\* The registers a write is about, and those whose extension it switches.
LEMMA TouchesIs ==
    ASSUME NEW n \in Numbered
    PROVE  /\ "mstatus" \in Touches(n) <=> n = "mstatus"
           /\ NeedsSwitch(n) => n # "mstatus" /\ n # "none"
           /\ n \in Vectors => NeedsSwitch(n)
           /\ n # "mstatus" => Named(n) # "mstatus"
           /\ n # "none" => Named(n) \in Registers
BY DEF Touches, NeedsSwitch, FsOf, VsOf, Vectors, VectorCsrs, Fprs, Named, Numbered, Registers, Csrs

\* A write leaves in the register what it makes of the value, and the others as they were.
LEMMA WriteRegisterIs ==
    ASSUME NEW h, NEW t, Ready(h, t), NEW r, Holds(h, r), NEW e \in {"ok", "failed"}, NEW out,
           NEW n \in Numbered, NEW v, FitsInto(n, v)
    PROVE  \E q, x : /\ rv_target_write_register(St(h, t, r, e, out), n, v) = St(h, t, q, Done(n, e), x)
                     /\ Left(h, r, q, n, Touches(n)) /\ q.misa = r.misa /\ q.vlenb = r.vlenb
                     /\ n # "none" /\ Reaches(h, r, Named(n)) /\ (n \in {"vl", "vtype"} => h.progbuf)
                           => q[Named(n)] = Becomes(h, r, n, v)
<1> DEFINE s == St(h, t, r, e, out)
           a == SwitchedTo(h, r, n, 1)
           f == IF NeedsSwitch(n) THEN "ok" ELSE e
<1>1. Switch(s, n, 1) = St(h, t, a, f, out)
  BY SwitchIs
<1>2. /\ Holds(h, a) /\ \A m \in Registers : m # "mstatus" => a[m] = r[m]
      /\ a.mstatus \div 4 = r.mstatus \div 4
      /\ Fs(a.mstatus) = IF FsOf(n) THEN IF "f" \in h.ext THEN 1 ELSE 0 ELSE Fs(r.mstatus)
      /\ Vs(a.mstatus) = IF VsOf(n) THEN IF "v" \in h.ext THEN 1 ELSE 0 ELSE Vs(r.mstatus)
  BY SwitchedIs
<1>3. f \in {"ok", "failed"} /\ (n \in Vectors => f = "ok")
  BY TouchesIs
<1>4. n # "none" /\ Reaches(h, r, Named(n)) => Available(h, a, n)
  BY ReachesIs
<1>5. n = "mstatus" => a = r
  BY TouchesIs DEF SwitchedTo
<1> HIDE DEF a, f
<1>6. PICK p, x : WritePrepared(St(h, t, a, f, out), n, v) = St(h, t, p, Done(n, f), x) /\ Turns(h, a, n, v, p)
  BY <1>2, <1>3, WritePreparedIs
<1>7. Holds(h, p)
  BY <1>6 DEF Turns
<1> DEFINE q == SwitchedTo(h, p, n, 0)
<1>8. Switch(St(h, t, p, Done(n, f), x), n, 0) = St(h, t, q, Done(n, e), x)
  <2>1. Done(n, f) \in {"ok", "failed"}
    BY <1>3 DEF Done
  <2>2. (IF NeedsSwitch(n) THEN "ok" ELSE Done(n, f)) = Done(n, e)
    BY TouchesIs DEF Done, f
  <2> QED
    BY <1>7, <2>1, <2>2, SwitchIs
<1>9. \A m \in Registers : m # "mstatus" => q[m] = p[m]
  BY <1>7, SwitchedIs
<1>10. n = "mstatus" => q = p
  BY TouchesIs DEF SwitchedTo
<1>11. Left(h, r, q, n, Touches(n))
  <2>1. "mstatus" \notin Touches(n) \/ ~NeedsSwitch(n)
    BY TouchesIs
  <2>2. \A m \in Registers : m \notin Touches(n) /\ m # "mstatus" => p[m] = r[m]
    BY <1>2, <1>6 DEF Turns
  <2>3. "mstatus" \notin Touches(n) => StatusLeft(r.mstatus, p.mstatus, n)
    <3>1. "mstatus" \notin Touches(n) => p["mstatus"] = a["mstatus"]
      BY <1>6, OtherNames DEF Turns
    <3> QED
      BY <1>2, <3>1 DEF StatusLeft
  <2> QED
    BY <1>7, <2>1, <2>2, <2>3, SwitchedOff
<1>12. q.misa = r.misa /\ q.vlenb = r.vlenb
  <2>1. a["misa"] = r["misa"] /\ a["vlenb"] = r["vlenb"] /\ p["misa"] = a["misa"] /\ p["vlenb"] = a["vlenb"]
    BY <1>2, <1>6, OtherNames DEF Turns
  <2>2. q["misa"] = p["misa"] /\ q["vlenb"] = p["vlenb"]
    BY <1>9, OtherNames
  <2> QED
    BY <2>1, <2>2
<1> HIDE DEF q
<1>13. ASSUME n # "none", Reaches(h, r, Named(n)), n \in {"vl", "vtype"} => h.progbuf
       PROVE  q[Named(n)] = Becomes(h, r, n, v)
  <2>1. p[Named(n)] = Becomes(h, a, n, v)
    BY <1>4, <1>6, <1>13 DEF Turns, Writable
  <2>2. q[Named(n)] = p[Named(n)]
    BY <1>9, <1>10, <1>13, TouchesIs
  <2>3. a["dcsr"] = r["dcsr"] /\ a["vlenb"] = r["vlenb"] /\ a["misa"] = r["misa"] /\ a["vtype"] = r["vtype"]
    BY <1>2, OtherNames
  <2>4. Kept(With(h, a), Named(n), v) = Kept(With(h, r), Named(n), v)
    BY <2>3, KeptSame
  <2> QED
    BY <2>1, <2>2, <2>3, <2>4 DEF Becomes
<1> HIDE DEF s
<1>14. rv_target_write_register(s, n, v) = St(h, t, q, Done(n, e), x)
  BY <1>1, <1>6, <1>8 DEF rv_target_write_register
<1> QED
  BY <1>11, <1>12, <1>13, <1>14 DEF s
-----------------------------------------------------------------------------
(* The core registers.                                                      *)

ReadNext(s, i) == Gathered(rv_target_read_register(s, CoreRegisters[i]), s.out)

\* The registers of g and G.
LEMMA CoreIs ==
    /\ Len(CoreRegisters) = 4 /\ DOMAIN CoreRegisters = 1 .. 4
    /\ CoreRegisters[1] = "fp" /\ CoreRegisters[2] = "s1" /\ CoreRegisters[3] = "a0" /\ CoreRegisters[4] = "pc"
BY DEF CoreRegisters

\* Reading and writing them: the recursive functions, unrolled.
LEMMA ReadCoreAre ==
    ASSUME NEW s
    PROVE  rv_target_read_core_registers(s)
              = ReadNext(ReadNext(ReadNext(ReadNext(Shows(s, <<>>), 1), 2), 3), 4)
<1> DEFINE a0 == Shows(s, <<>>)
           a1 == ReadNext(a0, 1)
           a2 == ReadNext(a1, 2)
           a3 == ReadNext(a2, 3)
           a4 == ReadNext(a3, 4)
           Is(g) == g = [i \in 0 .. Len(CoreRegisters) |-> IF i = 0 THEN Shows(s, <<>>) ELSE ReadNext(g[i - 1], i)]
           four == [i \in 0 .. 4 |-> IF i = 0 THEN a0 ELSE IF i = 1 THEN a1 ELSE IF i = 2 THEN a2
                                     ELSE IF i = 3 THEN a3 ELSE a4]
           all == CHOOSE g : Is(g)
<1>1. rv_target_read_core_registers(s) = all[Len(CoreRegisters)]
  BY Zenon DEF rv_target_read_core_registers, ReadNext, Shows
<1>2. Len(CoreRegisters) = 4
  BY CoreIs
<1>3. Is(four)
  <2>1. four[0] = a0 /\ four[1] = a1 /\ four[2] = a2 /\ four[3] = a3 /\ four[4] = a4
    <3> HIDE DEF a0, a1, a2, a3, a4
    <3> QED
      OBVIOUS
  <2>2. four = [i \in 0 .. 4 |-> four[i]]
    OBVIOUS
  <2>3. \A i \in 0 .. 4 : i = 0 \/ i = 1 \/ i = 2 \/ i = 3 \/ i = 4
    OBVIOUS
  <2>4. /\ four[1] = ReadNext(four[0], 1) /\ four[2] = ReadNext(four[1], 2)
        /\ four[3] = ReadNext(four[2], 3) /\ four[4] = ReadNext(four[3], 4)
    <3> HIDE DEF four
    <3> QED
      BY <2>1
  <2> HIDE DEF four
  <2>5. \A i \in 0 .. 4 : four[i] = IF i = 0 THEN a0 ELSE ReadNext(four[i - 1], i)
    BY <2>1, <2>3, <2>4
  <2> QED
    BY <1>2, <2>2, <2>5
<1>4. Is(all)
  BY <1>3, Zenon
<1>5. /\ all[0] = a0 /\ all[1] = ReadNext(all[0], 1) /\ all[2] = ReadNext(all[1], 2)
      /\ all[3] = ReadNext(all[2], 3) /\ all[4] = ReadNext(all[3], 4)
  <2> HIDE DEF all
  <2> QED
    BY <1>2, <1>4
<1> HIDE DEF all
<1> QED
  BY <1>1, <1>2, <1>5

WriteNext(s, v, i) == rv_target_write_register(s, CoreRegisters[i], v[i])

LEMMA WriteCoreAre ==
    ASSUME NEW s, NEW v
    PROVE  rv_target_write_core_registers(s, v)
              = WriteNext(WriteNext(WriteNext(WriteNext(s, v, 1), v, 2), v, 3), v, 4)
<1> DEFINE a1 == WriteNext(s, v, 1)
           a2 == WriteNext(a1, v, 2)
           a3 == WriteNext(a2, v, 3)
           a4 == WriteNext(a3, v, 4)
           Is(g) == g = [i \in 0 .. Len(CoreRegisters) |-> IF i = 0 THEN s ELSE WriteNext(g[i - 1], v, i)]
           four == [i \in 0 .. 4 |-> IF i = 0 THEN s ELSE IF i = 1 THEN a1 ELSE IF i = 2 THEN a2
                                     ELSE IF i = 3 THEN a3 ELSE a4]
           all == CHOOSE g : Is(g)
<1>1. rv_target_write_core_registers(s, v) = all[Len(CoreRegisters)]
  BY Zenon DEF rv_target_write_core_registers, WriteNext
<1>2. Len(CoreRegisters) = 4
  BY CoreIs
<1>3. Is(four)
  <2>1. four[0] = s /\ four[1] = a1 /\ four[2] = a2 /\ four[3] = a3 /\ four[4] = a4
    <3> HIDE DEF a1, a2, a3, a4
    <3> QED
      OBVIOUS
  <2>2. four = [i \in 0 .. 4 |-> four[i]]
    OBVIOUS
  <2>3. \A i \in 0 .. 4 : i = 0 \/ i = 1 \/ i = 2 \/ i = 3 \/ i = 4
    OBVIOUS
  <2>4. /\ four[1] = WriteNext(four[0], v, 1) /\ four[2] = WriteNext(four[1], v, 2)
        /\ four[3] = WriteNext(four[2], v, 3) /\ four[4] = WriteNext(four[3], v, 4)
    <3> HIDE DEF four
    <3> QED
      BY <2>1
  <2> HIDE DEF four
  <2>5. \A i \in 0 .. 4 : four[i] = IF i = 0 THEN s ELSE WriteNext(four[i - 1], v, i)
    BY <2>1, <2>3, <2>4
  <2> QED
    BY <1>2, <2>2, <2>5
<1>4. Is(all)
  BY <1>3, Zenon
<1>5. /\ all[0] = s /\ all[1] = WriteNext(all[0], v, 1) /\ all[2] = WriteNext(all[1], v, 2)
      /\ all[3] = WriteNext(all[2], v, 3) /\ all[4] = WriteNext(all[3], v, 4)
  <2> HIDE DEF all
  <2> QED
    BY <1>2, <1>4
<1> HIDE DEF all
<1> QED
  BY <1>1, <1>2, <1>5

\* These a hart that can be debugged always gives access to.
LEMMA ReachesAlways ==
    ASSUME NEW h, NEW t, Ready(h, t), NEW r, NEW n \in Gprs \union {"misa", "mstatus", "dcsr", "dpc", "mscratch"}
    PROVE  Reaches(h, r, n)
BY DEF Ready, Debuggable, Reaches, ClassOf, Gprs, Fprs, Vectors, VectorCsrs

\* Registers that need no extension and have none to borrow from.
LEMMA PlainNames ==
    ASSUME NEW n \in {"fp", "s1", "a0", "pc", "misa", "dcsr"}
    PROVE  /\ n \in Numbered /\ n # "none" /\ n # "priv" /\ n \notin Vectors /\ ~NeedsSwitch(n) /\ n \notin {"vl", "vtype"}
           /\ Named(n) \in (Gprs \union {"misa", "mstatus", "dcsr", "dpc", "mscratch"}) \ {"mstatus"}
           /\ Named(n) \in Registers /\ Touches(n) = {Named(n)} /\ ~FsOf(n) /\ ~VsOf(n)
BY DEF Numbered, Registers, Gprs, Fprs, Csrs, Vectors, VectorCsrs, NeedsSwitch, FsOf, VsOf, Named, Touches

\* Their access leaves mstatus as it is.
LEMMA StatusSame ==
    ASSUME NEW h, NEW r, Holds(h, r), NEW q, Holds(h, q), NEW n, ~NeedsSwitch(n),
           StatusLeft(r.mstatus, q.mstatus, n)
    PROVE  q.mstatus = r.mstatus
<1>1. PICK m, k : m = r.mstatus /\ k = q.mstatus
  OBVIOUS
<1>2. m \in Nat /\ k \in Nat
  BY <1>1 DEF Holds
<1>3. k \div 4 = m \div 4 /\ Fs(k) = Fs(m) /\ Vs(k) = Vs(m)
  BY <1>1 DEF StatusLeft, NeedsSwitch
<1>4. m = (m - (m % 4)) + 2 * Fs(m) + Vs(m) /\ k = (k - (k % 4)) + 2 * Fs(k) + Vs(k)
  BY <1>2, BitsIs
<1>5. m - (m % 4) = 4 * (m \div 4) /\ k - (k % 4) = 4 * (k \div 4)
  BY <1>2
<1>6. k = m
  <2> DEFINE a == Fs(m)
             b == Vs(m)
  <2>1. a \in 0 .. 1 /\ b \in 0 .. 1
    BY <1>2, BitsIs
  <2>2. k = 4 * (k \div 4) + 2 * a + b /\ m = 4 * (m \div 4) + 2 * a + b
    BY <1>3, <1>4, <1>5
  <2> HIDE DEF a, b
  <2> QED
    BY <1>3, <2>1, <2>2
<1> QED
  BY <1>1, <1>6

\* A register whose access switches nothing is read, and all stays as it was.
LEMMA ReadPlainIs ==
    ASSUME NEW h, NEW t, Ready(h, t), NEW r, Holds(h, r), NEW e \in {"ok", "failed"}, NEW out,
           NEW n \in {"fp", "s1", "a0", "pc", "misa", "dcsr"}, n = "dcsr" => out = 0
    PROVE  rv_target_read_register(St(h, t, r, e, out), n) = St(h, t, r, "ok", r[Named(n)])
<1>1. PICK q, x : /\ rv_target_read_register(St(h, t, r, e, out), n) = St(h, t, q, Done(n, e), x)
                  /\ Left(h, r, q, n, Clears(n))
                  /\ n # "none" /\ Reaches(h, r, Named(n)) => x = Given(h, r, n, out)
  BY PlainNames, ReadRegisterIs
<1>2. Clears(n) = {} /\ Done(n, e) = "ok" /\ Given(h, r, n, out) = r[Named(n)]
  <2>1. Clears(n) = {} /\ Done(n, e) = "ok" /\ n # "priv" /\ Shown(r, n) = r[Named(n)]
    BY PlainNames DEF Clears, Done, Shown
  <2>2. n = "dcsr" => Upper(out) + r["dcsr"] = r["dcsr"] /\ Named(n) = "dcsr"
    BY DEF Holds, Upper, Lower, Named
  <2> QED
    BY <2>1, <2>2 DEF Given, StaleHalf
<1>3. x = r[Named(n)]
  BY <1>1, <1>2, PlainNames, ReachesAlways
<1>4. Holds(h, q) /\ \A m \in Registers : m # "mstatus" => q[m] = r[m]
  BY <1>1, <1>2 DEF Left
<1>5. q["mstatus"] = r["mstatus"]
  <2>1. StatusLeft(r.mstatus, q.mstatus, n)
    BY <1>1, <1>2 DEF Left
  <2> QED
    BY <1>4, <2>1, StatusSame, PlainNames
<1>6. q = r
  <2>1. \A m \in Registers : q[m] = r[m]
    BY <1>4, <1>5
  <2> QED
    BY <1>4, <2>1, SameRegisters DEF Holds, AreRegisters
<1> QED
  BY <1>1, <1>2, <1>3, <1>6

\* The same for one that is written.
LEMMA WritePlainIs ==
    ASSUME NEW h, NEW t, Ready(h, t), NEW r, Holds(h, r), NEW e \in {"ok", "failed"}, NEW out,
           NEW n \in {"fp", "s1", "a0", "pc", "dcsr"}, NEW v \in Nat, n = "dcsr" => Lower(v) = v
    PROVE  /\ \E x : rv_target_write_register(St(h, t, r, e, out), n, v) = St(h, t, Put(r, Named(n), v), "ok", x)
           /\ Holds(h, Put(r, Named(n), v))
<1>1. FitsInto(n, v) /\ Named(n) \notin {"misa", "vlenb", "mstatus", "vtype", "vl"} /\ n # "vlenb"
  BY DEF FitsInto, Fits, Named, Vectors
<1>2. PICK q, x : /\ rv_target_write_register(St(h, t, r, e, out), n, v) = St(h, t, q, Done(n, e), x)
                  /\ Left(h, r, q, n, Touches(n))
                  /\ n # "none" /\ Reaches(h, r, Named(n)) /\ (n \in {"vl", "vtype"} => h.progbuf)
                        => q[Named(n)] = Becomes(h, r, n, v)
  BY <1>1, PlainNames, WriteRegisterIs
<1>3. Becomes(h, r, n, v) = v
  <2>1. Named(n) = "dcsr" => n = "dcsr"
    BY PlainNames DEF Named
  <2> QED
    BY <1>1, <2>1, PlainNames DEF Becomes, Kept
<1>4. q[Named(n)] = v
  BY <1>2, <1>3, PlainNames, ReachesAlways
<1>5. Holds(h, q) /\ \A m \in Registers : m # Named(n) /\ m # "mstatus" => q[m] = r[m]
  BY <1>2, PlainNames DEF Left
<1>6. q["mstatus"] = r["mstatus"]
  <2>1. StatusLeft(r.mstatus, q.mstatus, n)
    BY <1>1, <1>2, PlainNames DEF Left
  <2> QED
    BY <1>5, <2>1, StatusSame, PlainNames
<1> DEFINE p == Put(r, Named(n), v)
<1>7. AreRegisters(p) /\ p[Named(n)] = v /\ \A m \in Registers : m # Named(n) => p[m] = r[m]
  BY PutIs, PlainNames DEF Holds, AreRegisters
<1> HIDE DEF p
<1>8. q = p
  <2>1. \A m \in Registers : q[m] = p[m]
    BY <1>4, <1>5, <1>6, <1>7
  <2> QED
    BY <1>5, <1>7, <2>1, SameRegisters DEF Holds, AreRegisters
<1>9. Done(n, e) = "ok"
  BY PlainNames DEF Done
<1> QED
  BY <1>2, <1>5, <1>8, <1>9 DEF p

\* The values of the first k core registers.
Lists(l, r, k) == l = [i \in 1 .. k |-> l[i]] /\ \A i \in 1 .. k : l[i] = r[Named(CoreRegisters[i])]

\* A list with one more element.
LEMMA AppendIs ==
    ASSUME NEW k \in Nat, NEW l, l = [i \in 1 .. k |-> l[i]], NEW b, NEW m, m = Append(l, b)
    PROVE  m = [i \in 1 .. k + 1 |-> m[i]] /\ m[k + 1] = b /\ \A i \in 1 .. k : m[i] = l[i]
<1>1. PICK S : S = {l[i] : i \in 1 .. k} \union {b}
  OBVIOUS
<1>2. l \in Seq(S) /\ Len(l) = k
  BY <1>1
<1>3. b \in S
  BY <1>1
<1>4. m \in Seq(S) /\ Len(m) = k + 1
  BY <1>2, <1>3
<1> QED
  BY <1>2, <1>3, <1>4

\* One more of the registers of g.
LEMMA ReadNextIs ==
    ASSUME NEW h, NEW t, Ready(h, t), NEW r, Holds(h, r), NEW k \in 0 .. 3, NEW l, Lists(l, r, k),
           NEW i, i = k + 1
    PROVE  \E m : ReadNext(St(h, t, r, "ok", l), i) = St(h, t, r, "ok", m) /\ Lists(m, r, i)
<1>1. CoreRegisters[i] \in {"fp", "s1", "a0", "pc", "misa", "dcsr"} /\ CoreRegisters[i] # "dcsr"
  BY CoreIs
<1>2. PICK x : x = r[Named(CoreRegisters[i])]
  OBVIOUS
<1>3. PICK m : m = Append(l, x)
  OBVIOUS
<1>4. rv_target_read_register(St(h, t, r, "ok", l), CoreRegisters[i]) = St(h, t, r, "ok", x)
  BY <1>1, <1>2, ReadPlainIs
<1>5. St(h, t, r, "ok", l).out = l /\ St(h, t, r, "ok", x).out = x
  BY StIs
<1>6. Gathered(St(h, t, r, "ok", x), l) = Shows(St(h, t, r, "ok", x), m)
  BY <1>3, <1>5 DEF Gathered, Shows
<1>7. ReadNext(St(h, t, r, "ok", l), i) = St(h, t, r, "ok", m)
  BY <1>4, <1>5, <1>6, StShows DEF ReadNext
<1>8. l = [j \in 1 .. k |-> l[j]] /\ \A j \in 1 .. k : l[j] = r[Named(CoreRegisters[j])]
  BY DEF Lists
<1>9. m = [j \in 1 .. k + 1 |-> m[j]] /\ m[k + 1] = x /\ \A j \in 1 .. k : m[j] = l[j]
  BY <1>3, <1>8, AppendIs
<1>10. ASSUME NEW j \in 1 .. i
       PROVE  m[j] = r[Named(CoreRegisters[j])]
  <2>1. CASE j = i
    BY <1>2, <1>9, <2>1
  <2>2. CASE j # i
    <3>1. j \in 1 .. k
      BY <2>2
    <3> QED
      BY <1>8, <1>9, <3>1
  <2> QED
    BY <2>1, <2>2
<1>11. m = [j \in 1 .. i |-> m[j]]
  BY <1>9
<1>12. Lists(m, r, i)
  BY <1>10, <1>11 DEF Lists
<1> QED
  BY <1>7, <1>12

\* g: the list of what they hold, and nothing has changed.
LEMMA ReadCoreIs ==
    ASSUME NEW h, NEW t, Ready(h, t), NEW r, Holds(h, r), NEW out
    PROVE  \E l : /\ rv_target_read_core_registers(St(h, t, r, "ok", out)) = St(h, t, r, "ok", l)
                  /\ Lists(l, r, 4)
<1> DEFINE s == St(h, t, r, "ok", out)
<1>1. PICK l0 : l0 = <<>>
  OBVIOUS
<1>2. Lists(l0, r, 0)
  BY <1>1 DEF Lists
<1>3. Shows(s, <<>>) = St(h, t, r, "ok", l0)
  BY <1>1, StShows
<1>4. PICK l1 : ReadNext(St(h, t, r, "ok", l0), 1) = St(h, t, r, "ok", l1) /\ Lists(l1, r, 1)
  <2>1. 1 = 0 + 1 /\ 0 \in 0 .. 3
    OBVIOUS
  <2> QED
    BY <1>2, <2>1, ReadNextIs
<1>5. PICK l2 : ReadNext(St(h, t, r, "ok", l1), 2) = St(h, t, r, "ok", l2) /\ Lists(l2, r, 2)
  <2>1. 2 = 1 + 1 /\ 1 \in 0 .. 3
    OBVIOUS
  <2> QED
    BY <1>4, <2>1, ReadNextIs
<1>6. PICK l3 : ReadNext(St(h, t, r, "ok", l2), 3) = St(h, t, r, "ok", l3) /\ Lists(l3, r, 3)
  <2>1. 3 = 2 + 1 /\ 2 \in 0 .. 3
    OBVIOUS
  <2> QED
    BY <1>5, <2>1, ReadNextIs
<1>7. PICK l4 : ReadNext(St(h, t, r, "ok", l3), 4) = St(h, t, r, "ok", l4) /\ Lists(l4, r, 4)
  <2>1. 4 = 3 + 1 /\ 3 \in 0 .. 3
    OBVIOUS
  <2> QED
    BY <1>6, <2>1, ReadNextIs
<1> HIDE DEF s
<1>8. rv_target_read_core_registers(s) = St(h, t, r, "ok", l4)
  BY <1>3, <1>4, <1>5, <1>6, <1>7, ReadCoreAre
<1> QED
  BY <1>7, <1>8 DEF s

\* One more of the registers of G.
LEMMA WriteNextIs ==
    ASSUME NEW h, NEW t, Ready(h, t), NEW r, Holds(h, r), NEW out, NEW i \in 1 .. 4, NEW v, v[i] \in Nat
    PROVE  LET n == Named(CoreRegisters[i]) IN
           /\ \E x : WriteNext(St(h, t, r, "ok", out), v, i) = St(h, t, Put(r, n, v[i]), "ok", x)
           /\ Holds(h, Put(r, n, v[i])) /\ n \in Gprs \union {"dpc"} /\ n \in Registers
<1>1. CoreRegisters[i] \in {"fp", "s1", "a0", "pc"}
  BY CoreIs
<1>2. PICK c, y : c = CoreRegisters[i] /\ y = v[i]
  OBVIOUS
<1>3. /\ \E x : rv_target_write_register(St(h, t, r, "ok", out), c, y) = St(h, t, Put(r, Named(c), y), "ok", x)
      /\ Holds(h, Put(r, Named(c), y))
  BY <1>1, <1>2, WritePlainIs
<1>4. Named(c) \in Gprs \union {"dpc"} /\ Named(c) \in Registers
  BY <1>1, <1>2 DEF Named, Gprs, Registers, Csrs
<1> QED
  BY <1>2, <1>3, <1>4 DEF WriteNext

\* G: they hold the values, and the others what they did.
LEMMA WriteCoreIs ==
    ASSUME NEW h, NEW t, Ready(h, t), NEW r, Holds(h, r), NEW out, NEW v, \A i \in 1 .. 4 : v[i] \in Nat
    PROVE  \E q, x : /\ rv_target_write_core_registers(St(h, t, r, "ok", out), v) = St(h, t, q, "ok", x)
                     /\ Holds(h, q)
                     /\ \A m \in Registers : m \notin Gprs \union {"dpc"} => q[m] = r[m]
                     /\ \A i \in 1 .. 4 : q[Named(CoreRegisters[i])] = v[i]
<1> DEFINE c(i) == Named(CoreRegisters[i])
           r1 == Put(r, c(1), v[1])
           r2 == Put(r1, c(2), v[2])
           r3 == Put(r2, c(3), v[3])
           r4 == Put(r3, c(4), v[4])
<1>1. /\ c(1) = "fp" /\ c(2) = "s1" /\ c(3) = "a0" /\ c(4) = "dpc"
      /\ {"fp", "s1", "a0", "dpc"} \subseteq Registers /\ Gprs = {"fp", "s1", "a0"}
  BY CoreIs DEF Named, Gprs, Registers, Csrs
<1>2. \A i \in 1 .. 4 : v[i] \in Nat
  OBVIOUS
<1> HIDE DEF c
<1>3. PICK x1 : WriteNext(St(h, t, r, "ok", out), v, 1) = St(h, t, r1, "ok", x1) /\ Holds(h, r1)
  BY <1>2, WriteNextIs DEF c
<1>4. r1["fp"] = v[1] /\ \A m \in Registers : m # "fp" => r1[m] = r[m]
  BY <1>1, PutIs DEF Holds, AreRegisters
<1> HIDE DEF r1
<1>5. PICK x2 : WriteNext(St(h, t, r1, "ok", x1), v, 2) = St(h, t, r2, "ok", x2) /\ Holds(h, r2)
  BY <1>2, <1>3, WriteNextIs DEF c
<1>6. r2["s1"] = v[2] /\ \A m \in Registers : m # "s1" => r2[m] = r1[m]
  BY <1>1, <1>3, PutIs, SMTT(30) DEF Holds, AreRegisters
<1> HIDE DEF r2
<1>7. PICK x3 : WriteNext(St(h, t, r2, "ok", x2), v, 3) = St(h, t, r3, "ok", x3) /\ Holds(h, r3)
  BY <1>2, <1>5, WriteNextIs DEF c
<1>8. r3["a0"] = v[3] /\ \A m \in Registers : m # "a0" => r3[m] = r2[m]
  BY <1>1, <1>5, PutIs, SMTT(30) DEF Holds, AreRegisters
<1> HIDE DEF r3
<1>9. PICK x4 : WriteNext(St(h, t, r3, "ok", x3), v, 4) = St(h, t, r4, "ok", x4) /\ Holds(h, r4)
  BY <1>2, <1>7, WriteNextIs DEF c
<1>10. r4["dpc"] = v[4] /\ \A m \in Registers : m # "dpc" => r4[m] = r3[m]
  BY <1>1, <1>7, PutIs, SMTT(30) DEF Holds, AreRegisters
<1> HIDE DEF r4
<1>11. rv_target_write_core_registers(St(h, t, r, "ok", out), v) = St(h, t, r4, "ok", x4)
  BY <1>3, <1>5, <1>7, <1>9, WriteCoreAre
<1>12. \A m \in Registers : m \notin Gprs \union {"dpc"} => r4[m] = r[m]
  BY <1>1, <1>4, <1>6, <1>8, <1>10
<1>13. \A i \in 1 .. 4 : r4[c(i)] = v[i]
  <2>1. \A i \in 1 .. 4 : i = 1 \/ i = 2 \/ i = 3 \/ i = 4
    OBVIOUS
  <2>2. r4["fp"] = v[1] /\ r4["s1"] = v[2] /\ r4["a0"] = v[3] /\ r4["dpc"] = v[4]
    BY <1>1, <1>4, <1>6, <1>8, <1>10
  <2> QED
    BY <1>1, <2>1, <2>2
<1> QED
  BY <1>9, <1>11, <1>12, <1>13 DEF c

-----------------------------------------------------------------------------
(* The connection.                                                          *)

Knows(mxl, misa, vlenb) == [mxl |-> mxl, misa |-> misa, vlenb |-> vlenb]

AsWide(s, x)    == [s EXCEPT !.mxl = x]
AsMisa(s, x)    == [s EXCEPT !.misa = x]
AsVlenb(s, x)   == [s EXCEPT !.vlenb = x]

\* An access of a server that comes to know more.
LEMMA StKnows ==
    ASSUME NEW h, NEW t, NEW r, NEW e, NEW out, NEW x
    PROVE  /\ AsWide(St(h, t, r, e, out), x) = St(h, Knows(x, t.misa, t.vlenb), r, e, out)
           /\ AsMisa(St(h, t, r, e, out), x) = St(h, Knows(t.mxl, x, t.vlenb), r, e, out)
           /\ AsVlenb(St(h, t, r, e, out), x) = St(h, Knows(t.mxl, t.misa, x), r, e, out)
BY DEF St, Knows, AsWide, AsMisa, AsVlenb

\* The fields of target.
LEMMA KnowsIs ==
    ASSUME NEW m, NEW i, NEW v
    PROVE  Knows(m, i, v).mxl = m /\ Knows(m, i, v).misa = i /\ Knows(m, i, v).vlenb = v
BY DEF Knows

\* rv_target_init forgets what was known.
LEMMA InitIs ==
    ASSUME NEW h, NEW t, NEW r, NEW e, NEW out
    PROVE  rv_target_init(St(h, t, r, e, out)) = St(h, Knows(0, 0, 0), r, e, out)
<1>1. PICK s, z : s = St(h, t, r, e, out) /\ z = 0
  OBVIOUS
<1>2. [s EXCEPT !.mxl = z, !.misa = z, !.vlenb = z] = AsVlenb(AsMisa(AsWide(s, z), z), z)
  BY DEF AsWide, AsMisa, AsVlenb
<1>3. AsWide(s, z) = St(h, Knows(z, t.misa, t.vlenb), r, e, out)
  BY <1>1, StKnows
<1>4. AsMisa(AsWide(s, z), z) = St(h, Knows(z, z, t.vlenb), r, e, out)
  BY <1>3, StKnows, KnowsIs
<1>5. AsVlenb(AsMisa(AsWide(s, z), z), z) = St(h, Knows(z, z, z), r, e, out)
  BY <1>4, StKnows, KnowsIs
<1> QED
  BY <1>1, <1>2, <1>5 DEF rv_target_init

\* A 32-bit hart is asked for misa as if it had 64 bits: a program reads it into
\* fp, and nothing gets back what it held.
LEMMA WideTry ==
    ASSUME NEW h, Debuggable(h), h.xlen = 32, NEW t, t.mxl = 64, NEW r, Holds(h, r),
           NEW e \in {"ok", "failed"}, NEW out
    PROVE  rv_target_read_register(St(h, t, r, e, out), "misa")
              = St(h, t, IF h.progbuf THEN Put(r, "fp", r["misa"]) ELSE r, "failed", Junk)
<1> DEFINE s == St(h, t, r, e, out)
           q == IF h.progbuf THEN Put(r, "fp", r["misa"]) ELSE r
<1>1. ASSUME NEW a, NEW f, NEW x, NEW n \in {"misa", "fp"}
      PROVE  /\ rv_register_read(St(h, t, a, f, x), n) = St(h, t, a, "failed", Junk)
             /\ \A v : rv_register_write(St(h, t, a, f, x), n, v) = St(h, t, a, "failed", x)
  <2> DEFINE u == St(h, t, a, f, x)
  <2>1. u.h = With(h, a) /\ u.mxl = 64 /\ u.h.xlen = 32 /\ n # "dcsr"
    BY StIs, WithIs
  <2>2. Lacks(u, Junk) = St(h, t, a, "failed", Junk) /\ Fails(u) = St(h, t, a, "failed", x)
    BY StOutFailed, StFails
  <2> HIDE DEF u
  <2>3. SizeFor(u, n) = 64 /\ Into(u, SizeFor(u, n), Junk) = Junk
    BY <2>1 DEF SizeFor, Into
  <2>4. ~AbstractReads(u.h, n, SizeFor(u, n)) /\ ~AbstractWrites(u.h, n, SizeFor(u, n))
    BY <2>1, <2>3 DEF AbstractReads, AbstractWrites, WidthOf
  <2>5. rv_register_read(u, n) = IF AbstractReads(u.h, n, SizeFor(u, n))
                                 THEN Gives(u, Into(u, SizeFor(u, n), u.h.r[n]))
                                 ELSE Lacks(u, Into(u, SizeFor(u, n), Junk))
    BY Zenon DEF rv_register_read, Gives, Lacks
  <2>6. ASSUME NEW v
        PROVE  rv_register_write(u, n, v)
                 = IF AbstractWrites(u.h, n, SizeFor(u, n)) THEN Takes(u, n, Kept(u.h, n, v)) ELSE Fails(u)
    BY Zenon DEF rv_register_write, Takes, Fails
  <2> QED
    BY <2>2, <2>3, <2>4, <2>5, <2>6 DEF u
<1>2. PICK f \in {"ok", "failed"} : rv_program_exec(St(h, t, r, "failed", Junk), << Csrr("fp", "misa") >>) = St(h, t, q, f, Junk)
  <2> DEFINE i == Csrr("fp", "misa")
  <2>1. Enabled(With(h, r), "misa")
    BY DEF Enabled, Fprs, Vectors, VectorCsrs
  <2>2. Legal(With(h, r), i) /\ Effect(With(h, r), i) = Put(r, "fp", r["misa"])
    BY <2>1, CsrrIs
  <2> HIDE DEF i
  <2>3. rv_program_exec(St(h, t, r, "failed", Junk), << i >>) = St(h, t, q, "failed", Junk)
    BY <2>2, ExecOne
  <2> QED
    BY <2>3 DEF i
<1> HIDE DEF q
<1>3. ReadScalar(St(h, t, r, "failed", Junk), "misa") = St(h, t, q, "failed", Junk)
  <2> DEFINE u == St(h, t, r, "failed", Junk)
  <2>1. "misa" \notin Fprs
    BY DEF Fprs
  <2>2. rv_register_read(St(h, t, q, f, Junk), "fp") = St(h, t, q, "failed", Junk)
    BY <1>1
  <2>3. FpBack(St(h, t, q, "failed", Junk), Borrowed(u, "fp")) = St(h, t, q, "failed", Junk)
    BY <1>1 DEF FpBack
  <2> HIDE DEF u
  <2>4. ReadScalar(u, "misa") = FpBack(rv_register_read(rv_program_exec(u, << Csrr("fp", "misa") >>), "fp"), Borrowed(u, "fp"))
    BY <2>1 DEF ReadScalar
  <2> QED
    BY <1>2, <2>2, <2>3, <2>4 DEF u
<1>4. ReadEither(s, "misa") = St(h, t, q, "failed", Junk)
  <2>1. rv_register_read(s, "misa") = St(h, t, r, "failed", Junk)
    BY <1>1
  <2>2. St(h, t, r, "failed", Junk).err = TRUE
    BY StIs, FlagIs
  <2> HIDE DEF s
  <2> QED
    BY <1>3, <2>1, <2>2 DEF ReadEither, OrRead
<1> HIDE DEF s
<1>5. ReadPrepared(s, "misa") = ReadEither(s, "misa")
  <2>1. "misa" \notin Gprs /\ "misa" \notin Vectors /\ Named("misa") = "misa"
    BY DEF Gprs, Vectors, Named
  <2> QED
    BY <2>1 DEF ReadPrepared
<1>6. \A u : Switch(u, "misa", 1) = u /\ Switch(u, "misa", 0) = u
  BY PlainNames DEF Switch, NeedsSwitch
<1> QED
  BY <1>4, <1>5, <1>6 DEF rv_target_read_register, s, q

\* What the server comes to know of h.
PackedOf(h, m) == IF h.xlen = 32 THEN m ELSE Letters(m) + 64 * Mxl(m, 64)
KnownOf(h, r) == Knows(h.xlen, PackedOf(h, r["misa"]), IF "v" \in h.ext THEN r["vlenb"] ELSE NoVlenb)

\* Registers r become q by the connection.
Connects(h, r, q) ==
    /\ Holds(h, q)
    /\ \A m \in Registers : m \notin {"mstatus", "dcsr"} /\ (m # "fp" \/ h.xlen # 32) => q[m] = r[m]
    /\ q.mstatus \div 4 = r.mstatus \div 4 /\ Fs(q.mstatus) = Fs(r.mstatus)
    /\ Vs(q.mstatus) # Vs(r.mstatus) => "v" \in h.ext

\* The width is found, and misa is read; only fp may have changed.
LEMMA WidthFound ==
    ASSUME NEW h, Debuggable(h), NEW t, NEW r, Holds(h, r), NEW e \in {"ok", "failed"}, NEW out
    PROVE  \E p : /\ OrNarrow(rv_target_read_register(AsWide(St(h, t, r, e, out), 64), "misa"))
                       = St(h, Knows(h.xlen, t.misa, t.vlenb), p, "ok", r["misa"])
                  /\ Holds(h, p)
                  /\ \A m \in Registers : m # "fp" \/ h.xlen # 32 => p[m] = r[m]
<1> DEFINE wide == Knows(64, t.misa, t.vlenb)
           narrow == Knows(32, t.misa, t.vlenb)
<1>1. AsWide(St(h, t, r, e, out), 64) = St(h, wide, r, e, out)
  BY StKnows
<1>2. wide.mxl = 64 /\ narrow.mxl = 32 /\ wide.misa = t.misa /\ wide.vlenb = t.vlenb
  BY DEF Knows
<1> HIDE DEF wide, narrow
<1>3. Named("misa") = "misa"
  BY DEF Named
<1>4. CASE h.xlen = 64
  <2>1. Ready(h, wide)
    BY <1>2, <1>4 DEF Ready
  <2>2. rv_target_read_register(St(h, wide, r, e, out), "misa") = St(h, wide, r, "ok", r["misa"])
    BY <1>3, <2>1, ReadPlainIs
  <2>3. St(h, wide, r, "ok", r["misa"]).err = FALSE
    BY StIs, FlagIs
  <2>4. OrNarrow(St(h, wide, r, "ok", r["misa"])) = St(h, wide, r, "ok", r["misa"])
    BY <2>3 DEF OrNarrow
  <2> QED
    BY <1>1, <1>4, <2>2, <2>4 DEF wide
<1>5. CASE h.xlen # 64
  <2>1. h.xlen = 32
    BY <1>5 DEF Debuggable
  <2> DEFINE p == IF h.progbuf THEN Put(r, "fp", r["misa"]) ELSE r
  <2>2. rv_target_read_register(St(h, wide, r, e, out), "misa") = St(h, wide, p, "failed", Junk)
    BY <1>2, <2>1, WideTry
  <2>3. Holds(h, p) /\ \A m \in Registers : m # "fp" => p[m] = r[m]
    <3>1. "fp" \in Registers \ {"vtype", "vl"} /\ Kept(With(h, r), "fp", r["misa"]) = r["misa"] /\ Fits("fp", r["misa"])
      BY FpIs DEF Kept, Fits, Vectors
    <3>2. Holds(h, Put(r, "fp", r["misa"]))
      BY <3>1, HoldsPut
    <3>3. \A m \in Registers : m # "fp" => Put(r, "fp", r["misa"])[m] = r[m]
      BY <3>1, PutIs DEF Holds, AreRegisters
    <3> QED
      BY <3>2, <3>3
  <2> HIDE DEF p
  <2>4. St(h, wide, p, "failed", Junk).err = TRUE
    BY StIs, FlagIs
  <2>5. AsWide(St(h, wide, p, "failed", Junk), 32) = St(h, narrow, p, "failed", Junk)
    BY <1>2, StKnows DEF narrow
  <2>6. Ready(h, narrow)
    BY <1>2, <2>1 DEF Ready
  <2>7. rv_target_read_register(St(h, narrow, p, "failed", Junk), "misa") = St(h, narrow, p, "ok", p["misa"])
    BY <1>3, <2>3, <2>6, ReadPlainIs
  <2>8. OrNarrow(St(h, wide, p, "failed", Junk)) = St(h, narrow, p, "ok", p["misa"])
    BY <2>4, <2>5, <2>7 DEF OrNarrow, AsWide
  <2>9. p["misa"] = r["misa"]
    BY <2>3, OtherNames
  <2> QED
    BY <1>1, <2>1, <2>2, <2>3, <2>8, <2>9 DEF narrow
<1> QED
  BY <1>4, <1>5

\* After the halt the server knows the hart, whatever it knew before.
LEMMA ConnectIs ==
    ASSUME NEW h, Debuggable(h), NEW t, NEW r, Holds(h, r), NEW e \in {"ok", "failed"}, NEW out
    PROVE  \E q, x : /\ rv_target_init_after_halted(St(h, t, r, e, out)) = St(h, KnownOf(h, r), q, "ok", x)
                     /\ Connects(h, r, q)
<1>1. PICK p : /\ OrNarrow(rv_target_read_register(AsWide(St(h, t, r, e, out), 64), "misa"))
                    = St(h, Knows(h.xlen, t.misa, t.vlenb), p, "ok", r["misa"])
               /\ Holds(h, p)
               /\ \A m \in Registers : m # "fp" \/ h.xlen # 32 => p[m] = r[m]
  BY WidthFound
<1> DEFINE s == St(h, Knows(h.xlen, t.misa, t.vlenb), p, "ok", r["misa"])
           k1 == PackedOf(h, r["misa"])
           t1 == Knows(h.xlen, k1, t.vlenb)
           t2 == KnownOf(h, r)
<1>2. p["mstatus"] = r["mstatus"] /\ p["vlenb"] = r["vlenb"] /\ p["misa"] = r["misa"]
  BY <1>1, OtherNames
<1>3. t1.mxl = h.xlen /\ t2.mxl = h.xlen /\ t1.misa = k1
  BY DEF Knows, KnownOf
<1>4. Ready(h, t1) /\ Ready(h, t2)
  BY <1>3 DEF Ready
<1>5. AsMisa(s, Packed(s)) = St(h, t1, p, "ok", r["misa"]) /\ s.err = FALSE
  <2>1. s.out = r["misa"] /\ s.err = FALSE /\ s.mxl = h.xlen
    BY StIs, FlagIs, KnowsIs
  <2>5. Packed(s) = k1
    BY <2>1 DEF Packed, PackedOf
  <2>2. Knows(h.xlen, t.misa, t.vlenb).mxl = h.xlen /\ Knows(h.xlen, t.misa, t.vlenb).vlenb = t.vlenb
    BY DEF Knows
  <2>3. PICK y, u, k : y = r["misa"] /\ u = Knows(h.xlen, t.misa, t.vlenb) /\ k = k1
    OBVIOUS
  <2>4. AsMisa(St(h, u, p, "ok", y), k) = St(h, Knows(u.mxl, k, u.vlenb), p, "ok", y)
    BY StKnows
  <2> QED
    BY <2>1, <2>2, <2>3, <2>4, <2>5
<1>6. PICK q, x : /\ SeesVlenb(St(h, t1, p, "ok", r["misa"])) = St(h, t2, q, "ok", x)
                  /\ Connects(h, r, q)
  <2> DEFINE u == St(h, t1, p, "ok", r["misa"])
  <2>1. u.h.ext = h.ext
    BY StIs, WithIs
  <2>2. CASE "v" \in h.ext
    <3>1. "vlenb" \in Numbered /\ "vlenb" # "none" /\ Named("vlenb") = "vlenb" /\ "vlenb" \notin Vectors
      BY OtherNames DEF Numbered, Named, Vectors
    <3>2. PICK q, x : /\ rv_target_read_register(u, "vlenb") = St(h, t1, q, Done("vlenb", "ok"), x)
                      /\ Left(h, p, q, "vlenb", Clears("vlenb"))
                      /\ Reaches(h, p, "vlenb") => x = Given(h, p, "vlenb", r["misa"])
      BY <1>1, <1>4, <3>1, ReadRegisterIs
    <3>3. Reaches(h, p, "vlenb")
      BY <2>2 DEF Reaches, Debuggable, ClassOf, Gprs, Fprs, Vectors
    <3>4. x = r["vlenb"] /\ Done("vlenb", "ok") = "ok" /\ Clears("vlenb") = {}
      BY <1>2, <3>1, <3>2, <3>3 DEF Given, StaleHalf, Shown, Done, Clears
    <3> HIDE DEF u
    <3>5. SeesVlenb(u) = SeenVlenb(St(h, t1, q, "ok", x))
      BY <2>1, <2>2, <3>2, <3>4 DEF SeesVlenb
    <3>6. SeenVlenb(St(h, t1, q, "ok", x)) = St(h, Knows(t1.mxl, t1.misa, x), q, "ok", x)
      <4>1. St(h, t1, q, "ok", x).out = x
        BY StIs
      <4> QED
        BY <4>1, StKnows DEF SeenVlenb, AsVlenb
    <3>7. Knows(t1.mxl, t1.misa, x) = t2
      BY <1>3, <2>2, <3>4 DEF KnownOf
    <3>8. Connects(h, r, q)
      <4>1. Holds(h, q) /\ \A m \in Registers : m # "mstatus" => q[m] = p[m]
        BY <3>2, <3>4 DEF Left
      <4>2. StatusLeft(p.mstatus, q.mstatus, "vlenb") /\ ~FsOf("vlenb")
        BY <3>2, <3>4 DEF Left, FsOf, Fprs
      <4> QED
        BY <1>1, <1>2, <2>2, <4>1, <4>2 DEF Connects, StatusLeft
    <3> QED
      BY <3>5, <3>6, <3>7, <3>8 DEF u
  <2>3. CASE "v" \notin h.ext
    <3>1. AsVlenb(u, NoVlenb) = St(h, Knows(t1.mxl, t1.misa, NoVlenb), p, "ok", r["misa"])
      BY StKnows
    <3>2. Knows(t1.mxl, t1.misa, NoVlenb) = t2
      BY <1>3, <2>3 DEF KnownOf
    <3>3. Connects(h, r, p)
      BY <1>1, <1>2 DEF Connects
    <3> HIDE DEF u
    <3>4. SeesVlenb(u) = AsVlenb(u, NoVlenb)
      BY <2>1, <2>3 DEF SeesVlenb, AsVlenb
    <3> QED
      BY <3>1, <3>2, <3>3, <3>4 DEF u
  <2> QED
    BY <2>2, <2>3
<1>7. Holds(h, q)
  BY <1>6 DEF Connects
<1> DEFINE d == q["dcsr"]
           w == 4 + Prv(d)
           z == Put(q, "dcsr", w)
<1> HIDE DEF t1, t2
<1>8. rv_target_read_register(Narrow(St(h, t2, q, "ok", x)), "dcsr") = St(h, t2, q, "ok", d)
  <2>1. Named("dcsr") = "dcsr"
    BY DEF Named
  <2>2. Narrow(St(h, t2, q, "ok", x)) = St(h, t2, q, "ok", 0)
    BY StOut DEF Narrow
  <2>3. rv_target_read_register(St(h, t2, q, "ok", 0), "dcsr") = St(h, t2, q, "ok", d)
    BY <1>4, <1>7, <2>1, ReadPlainIs
  <2> QED
    BY <2>2, <2>3
<1>9. PICK y : SetsEbreak(St(h, t2, q, "ok", d)) = St(h, t2, z, "ok", y) /\ Holds(h, z)
  <2>1. w \in Nat /\ Lower(w) = w
    <3>1. d \in Nat
      BY <1>7 DEF Holds
    <3> QED
      BY <3>1 DEF Prv, Lower
  <2>2. Named("dcsr") = "dcsr" /\ St(h, t2, q, "ok", d).out = d
    BY StIs DEF Named
  <2>3. SetsEbreak(St(h, t2, q, "ok", d)) = rv_target_write_register(St(h, t2, q, "ok", d), "dcsr", w)
    BY <2>2 DEF SetsEbreak
  <2> HIDE DEF w, d
  <2>4. /\ \E y : rv_target_write_register(St(h, t2, q, "ok", d), "dcsr", w) = St(h, t2, z, "ok", y)
        /\ Holds(h, z)
    <3>1. PICK n : n = "dcsr"
      OBVIOUS
    <3>2. /\ \E y : rv_target_write_register(St(h, t2, q, "ok", d), n, w) = St(h, t2, Put(q, Named(n), w), "ok", y)
          /\ Holds(h, Put(q, Named(n), w))
      BY <1>4, <1>7, <2>1, <3>1, WritePlainIs
    <3> QED
      BY <2>2, <3>1, <3>2
  <2> QED
    BY <2>3, <2>4
<1>10. Connects(h, r, z)
  <2>1. \A m \in Registers : m # "dcsr" => z[m] = q[m]
    BY <1>7, OtherNames, PutIs DEF Holds, AreRegisters
  <2> HIDE DEF z
  <2>2. z["mstatus"] = q["mstatus"]
    BY <2>1, OtherNames
  <2> QED
    BY <1>6, <1>9, <2>1, <2>2 DEF Connects
<1> HIDE DEF z, d
<1>11. Known(s) = SetsEbreak(rv_target_read_register(Narrow(SeesMisa(s)), "dcsr"))
  BY <1>5 DEF Known
<1>12. SeesMisa(s) = St(h, t2, q, "ok", x)
  BY <1>5, <1>6 DEF SeesMisa, AsMisa
<1> HIDE DEF s
<1>13. rv_target_init_after_halted(St(h, t, r, e, out)) = St(h, t2, z, "ok", y)
  BY <1>1, <1>8, <1>9, <1>11, <1>12 DEF rv_target_init_after_halted, AsWide, s
<1> QED
  BY <1>10, <1>13 DEF t2

-----------------------------------------------------------------------------
(* Induction up to a number, over a set, and what it gives of recursion.    *)

\* What holds of 0, and of every i up to n if of the one before, holds of all.
LEMMA UpTo ==
    ASSUME NEW n \in Nat, NEW P, 0 \in P,
           \A i \in 1 .. n : i - 1 \in P => i \in P
    PROVE  \A i \in 0 .. n : i \in P
<1> DEFINE Bad == {m \in 0 .. n : m \notin P}
<1>1. SUFFICES ASSUME Bad # {} PROVE FALSE
  OBVIOUS
<1>2. PICK m \in Bad : \A k \in Bad : ~(k < m)
  <2>1. Bad \subseteq Nat
    OBVIOUS
  <2>2. \E m \in Bad : \A k \in Nat : <<k, m>> \in OpToRel(<, Nat) => k \notin Bad
    BY <1>1, <2>1, NatLessThanWellFounded, WFMin, Zenon
  <2> QED
    BY <2>1, <2>2 DEF OpToRel
<1>3. m # 0
  BY <1>2
<1>4. m \in 1 .. n /\ m - 1 \in 0 .. n /\ m - 1 \notin Bad
  BY <1>2, <1>3
<1> QED
  BY <1>2, <1>4

\* The states that steps f lead through from s.
States(n, s, f, g) == g[0] = s /\ \A i \in 1 .. n : g[i] = f[<<i, g[i - 1]>>]

\* There are such states.
LEMMA StatesExist ==
    ASSUME NEW S, NEW n \in Nat, NEW s \in S, NEW f \in [(1 .. n) \X S -> S]
    PROVE  \E g \in [0 .. n -> S] : States(n, s, f, g)
<1> DEFINE P == {m \in 0 .. n : \E g \in [0 .. m -> S] : States(m, s, f, g)}
<1>1. 0 \in P
  <2> DEFINE g == [i \in 0 .. 0 |-> s]
  <2>1. g \in [0 .. 0 -> S] /\ g[0] = s /\ \A i \in 1 .. 0 : FALSE
    OBVIOUS
  <2>2. States(0, s, f, g)
    BY <2>1 DEF States
  <2> QED
    BY <2>1, <2>2
<1>2. ASSUME NEW m \in 1 .. n, m - 1 \in P PROVE m \in P
  <2>1. PICK g \in [0 .. m - 1 -> S] : States(m - 1, s, f, g)
    BY <1>2
  <2> DEFINE h == [i \in 0 .. m |-> IF i = m THEN f[<<m, g[m - 1]>>] ELSE g[i]]
  <2>2. m \in 1 .. n /\ m - 1 \in 0 .. m - 1 /\ g[m - 1] \in S
    OBVIOUS
  <2>3. f[<<m, g[m - 1]>>] \in S
    BY <2>2
  <2>4. h \in [0 .. m -> S]
    BY <2>2, <2>3
  <2>5. g[0] = s /\ \A i \in 1 .. m - 1 : g[i] = f[<<i, g[i - 1]>>]
    BY <2>1 DEF States
  <2>6. h[0] = s /\ h[m] = f[<<m, h[m - 1]>>]
    BY <2>2, <2>5
  <2>7. \A i \in 1 .. m - 1 : h[i] = g[i] /\ h[i - 1] = g[i - 1]
    BY <2>2
  <2>8. ASSUME NEW i \in 1 .. m PROVE h[i] = f[<<i, h[i - 1]>>]
    <3>1. CASE i = m
      BY <2>6, <3>1
    <3>2. CASE i # m
      <4>1. i \in 1 .. m - 1
        BY <3>2
      <4>2. h[i] = g[i] /\ h[i - 1] = g[i - 1] /\ g[i] = f[<<i, g[i - 1]>>]
        BY <2>5, <2>7, <4>1
      <4> HIDE DEF h
      <4> QED
        BY <4>2
    <3> QED
      BY <3>1, <3>2
  <2>9. States(m, s, f, h)
    BY <2>6, <2>8 DEF States
  <2> QED
    BY <2>4, <2>9
<1> HIDE DEF P
<1>3. n \in P
  BY <1>1, <1>2, UpTo
<1> QED
  BY <1>3 DEF P

-----------------------------------------------------------------------------
(* The forms in which bytes travel.                                         *)

\* Digits are read back as the bytes they were made of.
LEMMA HexRoundTrip ==
    ASSUME NEW b \in Seq(Bytes)
    PROVE  hex_to_bin(bin_to_hex(b)) = b
<1> DEFINE d == bin_to_hex(b)
<1>1. /\ Len(b) \in Nat /\ b \in [1 .. Len(b) -> Bytes]
      /\ \A i \in 1 .. Len(b) : b[i] \in Int /\ 0 =< b[i] /\ b[i] =< 15
  BY SMTT(30) DEF Bytes
<1>2. Len(d) = 2 * Len(b) /\ Len(d) \div 2 = Len(b)
  <2>1. 2 * Len(b) \in Nat /\ (2 * Len(b)) \div 2 = Len(b)
    <3>1. \A n \in Nat : 2 * n \in Nat /\ (2 * n) \div 2 = n
      OBVIOUS
    <3> QED
      BY <1>1, <3>1
  <2>2. DOMAIN d = 1 .. 2 * Len(b)
    BY DEF bin_to_hex
  <2>3. d \in Seq({d[i] : i \in 1 .. 2 * Len(b)})
    BY <2>1 DEF bin_to_hex
  <2> QED
    BY <2>1, <2>2, <2>3
<1>3. ASSUME NEW i \in 1 .. Len(b)
      PROVE  d[2 * i - 1] * 4 + d[2 * i] = b[i]
  <2>1. 2 * i - 1 \in 1 .. 2 * Len(b) /\ 2 * i \in 1 .. 2 * Len(b)
    BY <1>1
  <2>2. (2 * i - 1 + 1) \div 2 = i /\ (2 * i + 1) \div 2 = i
        /\ (2 * i - 1) % 2 = 1 /\ (2 * i) % 2 # 1
    BY <1>1
  <2>3. d[2 * i - 1] = b[i] \div 4 /\ d[2 * i] = b[i] % 4
    BY <2>1, <2>2, Zenon DEF bin_to_hex
  <2> QED
    BY <1>1, <2>3
<1> HIDE DEF d
<1>4. hex_to_bin(d) = [i \in 1 .. Len(b) |-> b[i]]
  BY <1>2, <1>3, Zenon DEF hex_to_bin
<1> QED
  BY <1>1, <1>4 DEF d

\* What bin_decode knows while it reads, and what a byte does to it.
Decodings == [bin : Seq(Bytes), found : BOOLEAN]
DecodeByte(s, c) ==
    IF c = Escape THEN [s EXCEPT !.found = TRUE]
    ELSE [found |-> FALSE, bin |-> Append(s.bin, IF s.found THEN Flip(c) ELSE c)]
Undecoded == [bin |-> <<>>, found |-> FALSE]

\* Decoding(x, g): g is what it knows after each byte of x.
Decoding(x, g) ==
    g = [i \in 0 .. Len(x) |->
          IF i = 0 THEN [bin |-> <<>>, found |-> FALSE]
          ELSE IF x[i] = Escape THEN [g[i - 1] EXCEPT !.found = TRUE]
          ELSE [found |-> FALSE,
                bin |-> Append(g[i - 1].bin,
                               IF g[i - 1].found THEN Flip(x[i]) ELSE x[i])]]

Decoded(x) == (CHOOSE g : Decoding(x, g))[Len(x)]

\* Escaping flips a bit: flipped twice, a byte is itself, and what stands for a
\* special byte is no escape.
LEMMA FlipTwice ==
    ASSUME NEW c \in Bytes
    PROVE  /\ Flip(c) \in Bytes /\ Flip(Flip(c)) = c
           /\ c \in Special => Flip(c) # Escape
<1> c \in Int /\ 0 =< c /\ c =< 15
  BY DEF Bytes
<1> QED
  BY DEF Flip, Special, Escape, Bytes

\* A byte is decoded into a state of decoding.
LEMMA DecodeByteType ==
    ASSUME NEW s \in Decodings, NEW c \in Bytes
    PROVE  DecodeByte(s, c) \in Decodings
<1>1. s.bin \in Seq(Bytes) /\ s = [bin |-> s.bin, found |-> s.found] /\ s.found \in BOOLEAN
  BY DEF Decodings
<1>2. CASE c = Escape
  <2>1. DecodeByte(s, c) = [bin |-> s.bin, found |-> TRUE]
    BY <1>1, <1>2 DEF DecodeByte
  <2> QED
    BY <1>1, <2>1 DEF Decodings
<1>3. CASE c # Escape
  <2> DEFINE d == IF s.found THEN Flip(c) ELSE c
  <2>1. d \in Bytes
    BY FlipTwice
  <2>2. DecodeByte(s, c) = [found |-> FALSE, bin |-> Append(s.bin, d)]
    BY <1>3 DEF DecodeByte
  <2> HIDE DEF d
  <2>3. Append(s.bin, d) \in Seq(Bytes)
    BY <1>1, <2>1
  <2> QED
    BY <2>2, <2>3 DEF Decodings
<1> QED
  BY <1>2, <1>3

\* bin_decode's states: they are there, and follow one another byte by byte.
LEMMA DecodingIs ==
    ASSUME NEW x \in Seq(Bytes)
    PROVE  \E g \in [0 .. Len(x) -> Decodings] :
              /\ Decoded(x) = g[Len(x)]
              /\ g[0] = Undecoded
              /\ \A i \in 1 .. Len(x) : g[i] = DecodeByte(g[i - 1], x[i])
<1> DEFINE n == Len(x)
           f == [p \in (1 .. n) \X Decodings |-> DecodeByte(p[2], x[p[1]])]
<1>1. n \in Nat /\ \A i \in 1 .. n : x[i] \in Bytes
  OBVIOUS
<1> HIDE DEF n
<1>2. f \in [(1 .. n) \X Decodings -> Decodings]
  BY <1>1, DecodeByteType
<1>3. \A i \in 1 .. n : \A s \in Decodings : f[<<i, s>>] = DecodeByte(s, x[i])
  OBVIOUS
<1> HIDE DEF f
<1>4. Undecoded \in Decodings
  BY DEF Undecoded, Decodings
<1>5. PICK g \in [0 .. n -> Decodings] : States(n, Undecoded, f, g)
  BY <1>1, <1>2, <1>4, StatesExist
<1>6. g[0] = Undecoded
  BY <1>5 DEF States
<1>7. \A i \in 1 .. n : g[i] = DecodeByte(g[i - 1], x[i])
  <2>1. SUFFICES ASSUME NEW i \in 1 .. n PROVE g[i] = DecodeByte(g[i - 1], x[i])
    OBVIOUS
  <2>2. i - 1 \in 0 .. n
    BY <1>1
  <2>3. g[i] = f[<<i, g[i - 1]>>] /\ g[i - 1] \in Decodings
    BY <1>5, <2>2 DEF States
  <2> QED
    BY <1>3, <2>3
<1>8. Decoding(x, g)
  <2>1. \A i \in 0 .. n : i # 0 => i \in 1 .. n
    BY <1>1
  <2>2. \A i \in 0 .. n : g[i] =
          IF i = 0 THEN [bin |-> <<>>, found |-> FALSE]
          ELSE IF x[i] = Escape THEN [g[i - 1] EXCEPT !.found = TRUE]
          ELSE [found |-> FALSE,
                bin |-> Append(g[i - 1].bin,
                               IF g[i - 1].found THEN Flip(x[i]) ELSE x[i])]
    BY <1>6, <1>7, <2>1, Zenon DEF DecodeByte, Undecoded
  <2> QED
    BY <2>2, Zenon DEF Decoding, n
<1> DEFINE h == CHOOSE h : Decoding(x, h)
<1>9. Decoding(x, h)
  BY <1>8
<1>10. h = [i \in 0 .. n |->
          IF i = 0 THEN [bin |-> <<>>, found |-> FALSE]
          ELSE IF x[i] = Escape THEN [h[i - 1] EXCEPT !.found = TRUE]
          ELSE [found |-> FALSE,
                bin |-> Append(h[i - 1].bin,
                               IF h[i - 1].found THEN Flip(x[i]) ELSE x[i])]]
  BY <1>9, Zenon DEF Decoding, n
<1> HIDE DEF h
<1>11. h[0] = Undecoded
  BY <1>1, <1>10 DEF Undecoded
<1>12. \A i \in 1 .. n : h[i] = DecodeByte(h[i - 1], x[i])
  <2>1. \A i \in 1 .. n : i \in 0 .. n /\ i # 0
    BY <1>1
  <2> QED
    BY <1>10, <2>1, Zenon DEF DecodeByte
<1>13. \A i \in 0 .. n : h[i] \in Decodings
  <2> DEFINE P == {i \in 0 .. n : h[i] \in Decodings}
  <2>1. 0 \in P
    BY <1>1, <1>4, <1>11
  <2>2. ASSUME NEW i \in 1 .. n, i - 1 \in P PROVE i \in P
    BY <1>1, <1>12, <2>2, DecodeByteType
  <2> HIDE DEF P
  <2>3. \A i \in 0 .. n : i \in P
    BY <1>1, <2>1, <2>2, UpTo
  <2> QED
    BY <2>3 DEF P
<1>14. h \in [0 .. n -> Decodings]
  BY <1>10, <1>13
<1> QED
  BY <1>11, <1>12, <1>14 DEF Decoded, h, n

\* One more byte is one more step.
LEMMA DecodedAppend ==
    ASSUME NEW x \in Seq(Bytes), NEW c \in Bytes
    PROVE  /\ Decoded(x) \in Decodings
           /\ Decoded(Append(x, c)) = DecodeByte(Decoded(x), c)
<1> DEFINE n == Len(x)
           y == Append(x, c)
<1>1. /\ n \in Nat /\ y \in Seq(Bytes) /\ Len(y) = n + 1 /\ y[n + 1] = c
      /\ \A i \in 1 .. n : y[i] = x[i]
  OBVIOUS
<1> HIDE DEF n, y
<1>2. PICK g \in [0 .. n -> Decodings] :
          /\ Decoded(x) = g[n] /\ g[0] = Undecoded
          /\ \A i \in 1 .. n : g[i] = DecodeByte(g[i - 1], x[i])
  BY DecodingIs DEF n
<1>3. PICK h \in [0 .. n + 1 -> Decodings] :
          /\ Decoded(y) = h[n + 1] /\ h[0] = Undecoded
          /\ \A i \in 1 .. n + 1 : h[i] = DecodeByte(h[i - 1], y[i])
  BY <1>1, DecodingIs
<1>4. \A i \in 0 .. n : h[i] = g[i]
  <2> DEFINE P == {i \in 0 .. n : h[i] = g[i]}
  <2>1. 0 \in P
    BY <1>1, <1>2, <1>3
  <2>2. ASSUME NEW i \in 1 .. n, i - 1 \in P PROVE i \in P
    <3>1. i \in 0 .. n /\ i \in 1 .. n + 1 /\ h[i - 1] = g[i - 1] /\ y[i] = x[i]
      BY <1>1, <2>2
    <3>2. h[i] = g[i]
      BY <1>2, <1>3, <3>1, Zenon
    <3> QED
      BY <3>1, <3>2
  <2> HIDE DEF P
  <2>3. \A i \in 0 .. n : i \in P
    BY <1>1, <2>1, <2>2, UpTo
  <2> QED
    BY <2>3 DEF P
<1>5. h[n] = g[n] /\ h[n + 1] = DecodeByte(h[n], y[n + 1])
  BY <1>1, <1>3, <1>4
<1>6. g[n] \in Decodings
  BY <1>1
<1> QED
  BY <1>1, <1>2, <1>3, <1>5, <1>6 DEF y

\* An encoded byte, read where no escape is open, is the byte.
LEMMA DecodedByte ==
    ASSUME NEW x \in Seq(Bytes), NEW b \in Seq(Bytes), NEW c \in Bytes,
           Decoded(x) = [bin |-> b, found |-> FALSE]
    PROVE  /\ x \o EncodeByte(c) \in Seq(Bytes)
           /\ Decoded(x \o EncodeByte(c)) = [bin |-> Append(b, c), found |-> FALSE]
<1>1. Escape \in Bytes /\ Flip(c) \in Bytes /\ Flip(Flip(c)) = c
  BY FlipTwice, SMTT(30) DEF Escape, Bytes
<1>2. CASE c \in Special
  <2>1. x \o EncodeByte(c) = Append(Append(x, Escape), Flip(c))
    <3>1. EncodeByte(c) = <<Escape, Flip(c)>>
      BY <1>2 DEF EncodeByte
    <3> QED
      BY <1>1, <3>1
  <2>2. Append(x, Escape) \in Seq(Bytes)
    BY <1>1
  <2>3. Decoded(Append(x, Escape)) = [bin |-> b, found |-> TRUE]
    BY <1>1, DecodedAppend DEF DecodeByte
  <2>4. Flip(c) # Escape
    BY <1>2, FlipTwice
  <2>5. Decoded(Append(Append(x, Escape), Flip(c))) = DecodeByte([bin |-> b, found |-> TRUE], Flip(c))
    BY <1>1, <2>2, <2>3, DecodedAppend
  <2>6. DecodeByte([bin |-> b, found |-> TRUE], Flip(c)) = [bin |-> Append(b, c), found |-> FALSE]
    BY <1>1, <2>4 DEF DecodeByte
  <2>7. Append(Append(x, Escape), Flip(c)) \in Seq(Bytes)
    BY <1>1, <2>2
  <2> QED
    BY <2>1, <2>5, <2>6, <2>7
<1>3. CASE c \notin Special
  <2>1. c # Escape
    BY <1>3 DEF Special
  <2>2. x \o EncodeByte(c) = Append(x, c)
    <3>1. EncodeByte(c) = <<c>>
      BY <1>3 DEF EncodeByte
    <3> QED
      BY <3>1
  <2>3. DecodeByte([bin |-> b, found |-> FALSE], c) = [bin |-> Append(b, c), found |-> FALSE]
    BY <2>1 DEF DecodeByte
  <2>4. Decoded(Append(x, c)) = DecodeByte([bin |-> b, found |-> FALSE], c)
    BY DecodedAppend
  <2> QED
    BY <2>2, <2>3, <2>4
<1> QED
  BY <1>2, <1>3

\* Nothing is decoded from nothing.
LEMMA DecodedEmpty == Decoded(<<>>) = Undecoded
<1>1. <<>> \in Seq(Bytes) /\ Len(<<>>) = 0
  OBVIOUS
<1> QED
  BY <1>1, DecodingIs

\* What is decoded is what the last state has.
LEMMA DecodedIs ==
    ASSUME NEW x
    PROVE  bin_decode(x) = Decoded(x).bin
BY Zenon DEF bin_decode, Decoded, Decoding

\* What the host escapes is decoded as what it was.
Escaped(b, g) ==
    g = [i \in 0 .. Len(b) |-> IF i = 0 THEN <<>> ELSE g[i - 1] \o EncodeByte(b[i])]

\* A byte is escaped into bytes.
LEMMA EncodeByteType ==
    ASSUME NEW c \in Bytes
    PROVE  EncodeByte(c) \in Seq(Bytes) /\ EncodeByte(c) # <<>>
<1>1. Escape \in Bytes /\ Flip(c) \in Bytes
  BY FlipTwice DEF Escape, Bytes
<1> QED
  BY <1>1 DEF EncodeByte

\* X decodes what the host escaped.
LEMMA HostRoundTrip ==
    ASSUME NEW b \in Seq(Bytes)
    PROVE  bin_decode(HostEncoded(b)) = b
<1> DEFINE n == Len(b)
           f == [p \in (1 .. n) \X Seq(Bytes) |-> p[2] \o EncodeByte(b[p[1]])]
           h == CHOOSE h : Escaped(b, h)
<1>1. n \in Nat /\ \A i \in 1 .. n : b[i] \in Bytes
  OBVIOUS
<1>2. HostEncoded(b) = h[n]
  BY Zenon DEF HostEncoded, Escaped
<1> HIDE DEF n
<1>3. f \in [(1 .. n) \X Seq(Bytes) -> Seq(Bytes)]
  <2> SUFFICES ASSUME NEW i \in 1 .. n, NEW s \in Seq(Bytes) PROVE s \o EncodeByte(b[i]) \in Seq(Bytes)
    OBVIOUS
  <2> QED
    BY <1>1, EncodeByteType
<1>4. \A i \in 1 .. n : \A s \in Seq(Bytes) : f[<<i, s>>] = s \o EncodeByte(b[i])
  OBVIOUS
<1> HIDE DEF f
<1>5. PICK g \in [0 .. n -> Seq(Bytes)] : States(n, <<>>, f, g)
  <2>1. <<>> \in Seq(Bytes)
    OBVIOUS
  <2> QED
    BY <1>1, <1>3, <2>1, StatesExist
<1>6. Escaped(b, g)
  <2>1. \A i \in 0 .. n : i # 0 => i \in 1 .. n /\ g[i - 1] \in Seq(Bytes)
    BY <1>1
  <2>2. \A i \in 0 .. n : g[i] = IF i = 0 THEN <<>> ELSE g[i - 1] \o EncodeByte(b[i])
    BY <1>4, <1>5, <2>1, Zenon DEF States
  <2> QED
    BY <2>2, Zenon DEF Escaped, n
<1>7. Escaped(b, h)
  BY <1>6
<1> HIDE DEF h
<1>8. h[0] = <<>> /\ \A i \in 1 .. n : h[i] = h[i - 1] \o EncodeByte(b[i])
  <2>1. h = [i \in 0 .. n |-> IF i = 0 THEN <<>> ELSE h[i - 1] \o EncodeByte(b[i])]
    BY <1>7, Zenon DEF Escaped, n
  <2>2. 0 \in 0 .. n /\ \A i \in 1 .. n : i \in 0 .. n /\ i # 0
    BY <1>1
  <2> QED
    BY <2>1, <2>2, Zenon
<1> DEFINE P == {i \in 0 .. n : /\ h[i] \in Seq(Bytes)
                                /\ Decoded(h[i]) = [bin |-> SubSeq(b, 1, i), found |-> FALSE]}
<1>9. 0 \in P
  <2>1. SubSeq(b, 1, 0) = <<>> /\ 0 \in 0 .. n /\ h[0] \in Seq(Bytes)
    BY <1>1, <1>8
  <2> QED
    BY <1>8, <2>1, DecodedEmpty DEF Undecoded
<1>10. ASSUME NEW i \in 1 .. n, i - 1 \in P PROVE i \in P
  <2>1. /\ h[i - 1] \in Seq(Bytes)
        /\ Decoded(h[i - 1]) = [bin |-> SubSeq(b, 1, i - 1), found |-> FALSE]
        /\ b[i] \in Bytes
    BY <1>1, <1>10
  <2>2. SubSeq(b, 1, i - 1) \in Seq(Bytes) /\ Append(SubSeq(b, 1, i - 1), b[i]) = SubSeq(b, 1, i)
    BY <1>1 DEF n
  <2> DEFINE x == h[i - 1]
             d == SubSeq(b, 1, i - 1)
             c == b[i]
  <2>3. h[i] = x \o EncodeByte(c)
    BY <1>8
  <2> HIDE DEF x, d, c
  <2>4. x \in Seq(Bytes) /\ d \in Seq(Bytes) /\ c \in Bytes /\ Decoded(x) = [bin |-> d, found |-> FALSE]
    BY <2>1, <2>2 DEF x, d, c
  <2>5. h[i] \in Seq(Bytes) /\ Decoded(h[i]) = [bin |-> Append(d, c), found |-> FALSE]
    BY <2>3, <2>4, DecodedByte
  <2>6. h[i] \in Seq(Bytes) /\ Decoded(h[i]) = [bin |-> SubSeq(b, 1, i), found |-> FALSE]
    BY <2>2, <2>5 DEF d, c
  <2> QED
    BY <2>6
<1> HIDE DEF P
<1>11. \A i \in 0 .. n : i \in P
  BY <1>1, <1>9, <1>10, UpTo
<1>12. Decoded(h[n]).bin = SubSeq(b, 1, n)
  <2>1. n \in P
    BY <1>1, <1>11
  <2>2. Decoded(h[n]) = [bin |-> SubSeq(b, 1, n), found |-> FALSE]
    BY <2>1 DEF P
  <2>3. \A d : [bin |-> d, found |-> FALSE].bin = d
    OBVIOUS
  <2> QED
    BY <2>2, <2>3, Zenon
<1>13. SubSeq(b, 1, n) = b
  BY DEF n
<1> QED
  BY <1>2, <1>12, <1>13, DecodedIs DEF n

\* What x sends is decoded as a beginning of what was read, and not an empty one
\* if anything was.
Encoded(b, g) ==
    g = [i \in 0 .. Len(b) |->
          IF i = 0 THEN <<>>
          ELSE IF i > 1 /\ Len(g[i - 1]) >= Len(b) THEN g[i - 1]
          ELSE g[i - 1] \o EncodeByte(b[i])]

\* What x sends is decoded as the first of the bytes, and one at least.
LEMMA EncodedPrefix ==
    ASSUME NEW b \in Seq(Bytes)
    PROVE  \E k \in 0 .. Len(b) :
              /\ bin_decode(bin_encode(b)) = SubSeq(b, 1, k)
              /\ Len(b) > 0 => k > 0
<1> DEFINE n == Len(b)
           Next1(i, s) == IF i > 1 /\ Len(s) >= n THEN s ELSE s \o EncodeByte(b[i])
           f == [p \in (1 .. n) \X Seq(Bytes) |-> Next1(p[1], p[2])]
           h == CHOOSE h : Encoded(b, h)
<1>1. n \in Nat /\ \A i \in 1 .. n : b[i] \in Bytes
  OBVIOUS
<1>2. bin_encode(b) = h[n]
  BY Zenon DEF bin_encode, Encoded
<1> HIDE DEF n
<1>3. f \in [(1 .. n) \X Seq(Bytes) -> Seq(Bytes)]
  <2> SUFFICES ASSUME NEW i \in 1 .. n, NEW s \in Seq(Bytes) PROVE s \o EncodeByte(b[i]) \in Seq(Bytes)
    OBVIOUS
  <2> QED
    BY <1>1, EncodeByteType
<1>4. \A i \in 1 .. n : \A s \in Seq(Bytes) : f[<<i, s>>] = Next1(i, s)
  OBVIOUS
<1> HIDE DEF f
<1>5. PICK g \in [0 .. n -> Seq(Bytes)] : States(n, <<>>, f, g)
  <2>1. <<>> \in Seq(Bytes)
    OBVIOUS
  <2> QED
    BY <1>1, <1>3, <2>1, StatesExist
<1>6. Encoded(b, g)
  <2>1. \A i \in 0 .. n : i # 0 => i \in 1 .. n /\ g[i - 1] \in Seq(Bytes)
    BY <1>1
  <2>2. \A i \in 0 .. n : g[i] = IF i = 0 THEN <<>> ELSE Next1(i, g[i - 1])
    BY <1>4, <1>5, <2>1, Zenon DEF States
  <2> QED
    BY <2>2, Zenon DEF Encoded, n
<1>7. Encoded(b, h)
  BY <1>6
<1> HIDE DEF h
<1>8. h[0] = <<>> /\ \A i \in 1 .. n : h[i] = Next1(i, h[i - 1])
  <2>1. h = [i \in 0 .. n |-> IF i = 0 THEN <<>> ELSE Next1(i, h[i - 1])]
    BY <1>7, Zenon DEF Encoded, n
  <2>2. 0 \in 0 .. n /\ \A i \in 1 .. n : i \in 0 .. n /\ i # 0
    BY <1>1
  <2> QED
    BY <2>1, <2>2, Zenon
<1> DEFINE Ok(i, k) == /\ Decoded(h[i]) = [bin |-> SubSeq(b, 1, k), found |-> FALSE]
                       /\ i > 0 => k > 0
                       /\ k < i => i > 1 /\ Len(h[i]) >= n
           P == {i \in 0 .. n : h[i] \in Seq(Bytes) /\ \E k \in 0 .. i : Ok(i, k)}
<1>9. 0 \in P
  <2>1. SubSeq(b, 1, 0) = <<>> /\ 0 \in 0 .. n /\ h[0] \in Seq(Bytes) /\ 0 \in 0 .. 0
    BY <1>1, <1>8
  <2>2. Ok(0, 0)
    <3>1. Decoded(h[0]) = [bin |-> SubSeq(b, 1, 0), found |-> FALSE]
      BY <1>8, <2>1, DecodedEmpty DEF Undecoded
    <3> QED
      BY <3>1
  <2> QED
    BY <2>1, <2>2
<1>10. ASSUME NEW i \in 1 .. n, i - 1 \in P PROVE i \in P
  <2> DEFINE x == h[i - 1]
             c == b[i]
  <2>1. PICK k \in 0 .. i - 1 : x \in Seq(Bytes) /\ Ok(i - 1, k)
    BY <1>10
  <2>2. k \in 0 .. i /\ i \in 0 .. n /\ c \in Bytes /\ Len(x) \in Nat
    BY <1>1, <2>1
  <2>3. CASE i > 1 /\ Len(x) >= n
    <3>1. h[i] = x
      BY <1>8, <2>3
    <3>2. Ok(i, k)
      BY <2>1, <2>2, <2>3, <3>1
    <3> QED
      BY <2>1, <2>2, <3>1, <3>2
  <2>4. CASE ~(i > 1 /\ Len(x) >= n)
    <3>1. h[i] = x \o EncodeByte(c)
      BY <1>8, <2>4
    <3>2. k = i - 1
      BY <1>1, <2>1, <2>2, <2>4
    <3> DEFINE d == SubSeq(b, 1, i - 1)
    <3>3. d \in Seq(Bytes) /\ Append(d, c) = SubSeq(b, 1, i)
      BY <1>1 DEF n
    <3>4. Decoded(x) = [bin |-> d, found |-> FALSE]
      BY <2>1, <3>2
    <3> HIDE DEF x, c, d
    <3>5. h[i] \in Seq(Bytes) /\ Decoded(h[i]) = [bin |-> Append(d, c), found |-> FALSE]
      <4>1. x \in Seq(Bytes) /\ c \in Bytes
        BY <2>1, <2>2
      <4>2. /\ x \o EncodeByte(c) \in Seq(Bytes)
            /\ Decoded(x \o EncodeByte(c)) = [bin |-> Append(d, c), found |-> FALSE]
        BY <3>3, <3>4, <4>1, DecodedByte, Zenon
      <4> QED
        BY <3>1, <4>2, Zenon
    <3>6. Ok(i, i)
      BY <1>1, <3>3, <3>5
    <3>7. i \in 0 .. i
      BY <1>1
    <3> QED
      BY <2>2, <3>5, <3>6, <3>7
  <2> QED
    BY <2>3, <2>4
<1> HIDE DEF P
<1>11. \A i \in 0 .. n : i \in P
  BY <1>1, <1>9, <1>10, UpTo
<1>12. PICK k \in 0 .. n : Ok(n, k)
  <2>1. n \in P
    BY <1>1, <1>11
  <2> QED
    BY <2>1 DEF P
<1>13. Decoded(h[n]).bin = SubSeq(b, 1, k)
  <2>1. \A d : [bin |-> d, found |-> FALSE].bin = d
    OBVIOUS
  <2> QED
    BY <1>12, <2>1, Zenon
<1> QED
  BY <1>2, <1>12, <1>13, DecodedIs DEF n

-----------------------------------------------------------------------------
(* What is transferred before an access fails.                              *)

\* A set of numbers has a least one.
LEMMA LeastIs ==
    ASSUME NEW S \in SUBSET Nat, S # {}
    PROVE  Min(S) \in S /\ \A i \in S : Min(S) =< i
<1>1. \E m \in S : \A k \in Nat : <<k, m>> \in OpToRel(<, Nat) => k \notin S
  BY NatLessThanWellFounded, WFMin, Zenon
<1>2. PICK m \in S : \A i \in S : ~(i < m)
  BY <1>1 DEF OpToRel
<1>3. m \in S /\ \A i \in S : m =< i
  BY <1>2
<1> QED
  BY <1>3, Zenon DEF Min

\* The last address of a range.
LEMMA LastIs ==
    ASSUME NEW lo \in Nat, NEW hi \in Nat, lo =< hi
    PROVE  Max(lo .. hi) = hi
<1>1. hi \in lo .. hi /\ \A i \in lo .. hi : i =< hi
  OBVIOUS
<1>2. Max(lo .. hi) \in lo .. hi /\ \A i \in lo .. hi : Max(lo .. hi) >= i
  BY <1>1, Zenon DEF Max
<1> QED
  BY <1>1, <1>2

\* Address and length are multiples of the width.
LEMMA WidthIs ==
    ASSUME NEW addr \in Nat, NEW len \in Nat
    PROVE  LET w == Width(addr, len) IN
           w \in {1, 2, 4} /\ addr % w = 0 /\ len % w = 0
BY DEF Width

\* An access of w bytes lies in the word its first byte lies in.
LEMMA AccessInWord ==
    ASSUME NEW w \in {1, 2, 4}, NEW a \in Nat, a % w = 0, NEW b \in 0 .. w - 1
    PROVE  a + b \in ((a \div 4) * 4) .. ((a \div 4) * 4 + 3)
<1>1. CASE w = 1
  BY <1>1
<1>2. CASE w = 2
  BY <1>2
<1>3. CASE w = 4
  BY <1>3
<1> QED
  BY <1>1, <1>2, <1>3

\* No more is transferred than was asked for, and every byte that lies before
\* the first word with an address that does not answer.
LEMMA TransferredIs ==
    ASSUME NEW addr \in Nat, NEW len \in Nat, memory.bad \subseteq Nat
    PROVE  /\ Transferred(memory, addr, len) \in 0 .. len
           /\ \A i \in 1 .. len : Sound(addr, i) => i =< Transferred(memory, addr, len)
<1> DEFINE w == Width(addr, len)
           fails == {i \in 0 .. (len \div w) - 1 :
                       \E b \in 0 .. w - 1 : addr + i * w + b \in memory.bad}
           n == len \div w
<1>1. w \in {1, 2, 4} /\ addr % w = 0 /\ len % w = 0
  BY WidthIs
<1>2. Transferred(memory, addr, len) = w * (IF fails = {} THEN n ELSE Min(fails))
  BY Zenon DEF Transferred
<1> HIDE DEF w
<1>3. n \in Nat /\ w * n = len
  <2>1. CASE w = 1
    BY <1>1, <2>1
  <2>2. CASE w = 2
    BY <1>1, <2>2
  <2>3. CASE w = 4
    BY <1>1, <2>3
  <2> QED
    BY <1>1, <2>1, <2>2, <2>3
<1>4. CASE fails = {}
  BY <1>2, <1>3, <1>4
<1>5. CASE fails # {}
  <2> DEFINE k == Min(fails)
  <2>1. fails \subseteq Nat
    BY <1>3
  <2>2. k \in fails
    BY <1>5, <2>1, LeastIs
  <2>3. k \in 0 .. n - 1 /\ \E b \in 0 .. w - 1 : addr + k * w + b \in memory.bad
    BY <2>2
  <2> HIDE DEF k, n, fails
  <2>4. PICK b \in 0 .. w - 1 : addr + k * w + b \in memory.bad
    BY <2>3
  <2> DEFINE a == addr + k * w
  <2>5. k \in Nat /\ a \in Nat /\ a % w = 0 /\ w * k = k * w /\ w * k < len
    <3>1. CASE w = 1
      BY <1>1, <1>3, <2>3, <3>1
    <3>2. CASE w = 2
      BY <1>1, <1>3, <2>3, <3>2
    <3>3. CASE w = 4
      BY <1>1, <1>3, <2>3, <3>3
    <3> QED
      BY <1>1, <3>1, <3>2, <3>3
  <2>6. Transferred(memory, addr, len) = a - addr /\ a - addr \in 0 .. len
    <3>1. Transferred(memory, addr, len) = w * k
      BY <1>2, <1>5 DEF k
    <3>2. k * w \in Nat
      BY <1>1, <2>5
    <3> QED
      BY <2>5, <3>1, <3>2
  <2>7. a + b \in ((a \div 4) * 4) .. ((a \div 4) * 4 + 3)
    BY <1>1, <2>5, AccessInWord
  <2>8. a + b \in memory.bad
    BY <2>4
  <2> HIDE DEF a
  <2>9. ASSUME NEW i \in 1 .. len, Sound(addr, i) PROVE i =< a - addr
    <3>1. SUFFICES ASSUME i > a - addr PROVE FALSE
      BY <2>5
    <3>2. a \in addr .. addr + i - 1
      BY <2>5, <2>6, <3>1
    <3> QED
      BY <2>7, <2>8, <2>9, <3>2 DEF Sound
  <2> QED
    BY <2>6, <2>9
<1> QED
  BY <1>4, <1>5

-----------------------------------------------------------------------------
(* The memory commands.                                                     *)

\* The invariant: a memory is a range of addresses with bytes in it, and so is
\* mem_buffer.
MemoryKept ==
    /\ mem_buffer \in [1 .. BUFFER -> Bytes]
    /\ memory = [bytes |-> memory.bytes, bad |-> memory.bad] /\ memory.bad \subseteq Nat
    /\ memory.bytes \in [DOMAIN memory.bytes -> Bytes] /\ DOMAIN memory.bytes \subseteq Nat
    /\ \E lo, hi \in DOMAIN memory.bytes : DOMAIN memory.bytes = lo .. hi

\* A length is capped at mem_buffer's.
LEMMA CappedIs ==
    ASSUME NEW len \in Nat
    PROVE  Capped(len) \in 0 .. len /\ Capped(len) \in 0 .. BUFFER /\ (len > 0 => Capped(len) > 0)
BY BufferAssumption DEF Capped

\* What the host asks for is there.
LEMMA InMemoryIs ==
    ASSUME MemoryKept, NEW addr \in DOMAIN memory.bytes, NEW len \in Nat, InMemory(addr, len)
    PROVE  addr \in Nat /\ \A i \in 1 .. len : addr + i - 1 \in DOMAIN memory.bytes
<1>1. PICK lo \in Nat, hi \in Nat : DOMAIN memory.bytes = lo .. hi /\ lo =< hi
  BY DEF MemoryKept
<1>2. addr + len - 1 =< hi
  BY <1>1, LastIs DEF InMemory
<1> QED
  BY <1>1, <1>2

\* A read leaves the sound bytes in mem_buffer.
LEMMA ReadIs ==
    ASSUME MemoryKept, NEW addr \in DOMAIN memory.bytes, NEW len \in Nat, InMemory(addr, len),
           NEW buffer, buffer = rv_target_read_memory(memory, mem_buffer, addr, Capped(len))
    PROVE  LET got == SubSeq(buffer, 1, Capped(len)) IN
           /\ buffer \in [1 .. BUFFER -> Bytes]
           /\ got \in Seq(Bytes) /\ Len(got) = Capped(len)
           /\ \A i \in 1 .. Capped(len) :
                 Sound(addr, i) => got[i] = memory.bytes[addr + i - 1]
<1> DEFINE n == Capped(len)
           t == Transferred(memory, addr, n)
           got == SubSeq(buffer, 1, n)
<1>1. n \in 0 .. len /\ n \in 0 .. BUFFER /\ BUFFER \in Nat
  BY CappedIs, BufferAssumption
<1>2. addr \in Nat /\ \A i \in 1 .. len : addr + i - 1 \in DOMAIN memory.bytes
  BY InMemoryIs
<1>3. DOMAIN mem_buffer = 1 .. BUFFER /\ mem_buffer \in [1 .. BUFFER -> Bytes]
  BY DEF MemoryKept
<1>4. buffer = [i \in 1 .. BUFFER |->
                  IF i =< t THEN memory.bytes[addr + i - 1] ELSE mem_buffer[i]]
  BY <1>3, Zenon DEF rv_target_read_memory
<1> HIDE DEF n
<1>5. t \in 0 .. n /\ \A i \in 1 .. n : Sound(addr, i) => i =< t
  BY <1>1, <1>2, TransferredIs DEF MemoryKept
<1> HIDE DEF t
<1>6. buffer \in [1 .. BUFFER -> Bytes]
  <2>1. \A i \in 1 .. BUFFER : i =< t => i \in 1 .. len
    BY <1>1, <1>5
  <2>2. memory.bytes \in [DOMAIN memory.bytes -> Bytes]
    BY DEF MemoryKept
  <2>3. \A i \in 1 .. BUFFER : i =< t => memory.bytes[addr + i - 1] \in Bytes
    BY <1>2, <2>1, <2>2
  <2> QED
    BY <1>3, <1>4, <2>3
<1>7. got \in Seq(Bytes) /\ Len(got) = n /\ \A i \in 1 .. n : got[i] = buffer[i]
  <2>1. buffer \in Seq(Bytes) /\ Len(buffer) = BUFFER
    BY <1>1, <1>6
  <2> QED
    BY <1>1, <2>1
<1>8. \A i \in 1 .. n : Sound(addr, i) => got[i] = memory.bytes[addr + i - 1]
  <2>1. \A i \in 1 .. n : i \in 1 .. BUFFER
    BY <1>1
  <2> HIDE DEF got
  <2> QED
    BY <1>4, <1>5, <1>7, <2>1
<1> QED
  BY <1>6, <1>7, <1>8 DEF n

\* m answers what is there.
LEMMA ReadMemory ==
    ASSUME MemoryKept, NEW addr \in DOMAIN memory.bytes, NEW len \in Nat, InMemory(addr, len),
           gdb_server_cmd_m(addr, len)
    PROVE  MemoryKept' /\ MovesExactly
<1> DEFINE got == SubSeq(mem_buffer', 1, Capped(len))
<1>1. /\ mem_buffer' \in [1 .. BUFFER -> Bytes] /\ got \in Seq(Bytes)
      /\ \A i \in 1 .. Capped(len) : Sound(addr, i) => got[i] = memory.bytes[addr + i - 1]
  BY ReadIs DEF gdb_server_cmd_m
<1>2. memory' = memory /\ reply' = bin_to_hex(got)
      /\ call'.op = "m" /\ call'.addr = addr /\ call'.len = len
  BY DEF gdb_server_cmd_m, MemoryCall, NoCall
<1>3. hex_to_bin(reply') = got
  BY <1>1, <1>2, HexRoundTrip
<1> HIDE DEF got
<1>4. MemoryKept'
  BY <1>1, <1>2 DEF MemoryKept
<1> QED
  BY <1>1, <1>2, <1>3, <1>4 DEF MovesExactly

\* x answers the beginning of what is there.
LEMMA ReadMemoryBinary ==
    ASSUME MemoryKept, NEW addr \in DOMAIN memory.bytes, NEW len \in Nat, InMemory(addr, len),
           gdb_server_cmd_x(addr, len)
    PROVE  MemoryKept' /\ MovesExactly
<1> DEFINE got == SubSeq(mem_buffer', 1, Capped(len))
           decoded == bin_decode(reply')
<1>1. /\ mem_buffer' \in [1 .. BUFFER -> Bytes]
      /\ got \in Seq(Bytes) /\ Len(got) = Capped(len)
      /\ \A i \in 1 .. Capped(len) : Sound(addr, i) => got[i] = memory.bytes[addr + i - 1]
  BY ReadIs DEF gdb_server_cmd_x
<1>2. memory' = memory /\ reply' = bin_encode(got)
      /\ call'.op = "x" /\ call'.addr = addr /\ call'.len = len
  BY DEF gdb_server_cmd_x, MemoryCall, NoCall
<1> HIDE DEF got
<1>3. PICK k \in 0 .. Len(got) : decoded = SubSeq(got, 1, k) /\ (Len(got) > 0 => k > 0)
  BY <1>1, <1>2, EncodedPrefix
<1> HIDE DEF decoded
<1>4. Len(got) = Capped(len) /\ Capped(len) \in Nat /\ (len > 0 => Capped(len) > 0)
  BY <1>1, CappedIs
<1>5. DOMAIN decoded = 1 .. k /\ \A i \in 1 .. k : decoded[i] = got[i]
  BY <1>1, <1>3
<1>6. len > 0 => decoded # <<>>
  <2>1. Len(decoded) = k
    BY <1>1, <1>3
  <2> QED
    BY <1>3, <1>4, <2>1
<1>7. \A i \in DOMAIN decoded : Sound(addr, i) => decoded[i] = memory.bytes[addr + i - 1]
  BY <1>1, <1>3, <1>4, <1>5
<1>8. MemoryKept'
  BY <1>1, <1>2 DEF MemoryKept
<1> QED
  BY <1>2, <1>6, <1>7, <1>8 DEF MovesExactly, decoded

\* M and X store the sound bytes, and write nothing else.
LEMMA WriteMemory ==
    ASSUME MemoryKept, NEW addr \in DOMAIN memory.bytes, NEW data \in Data,
           InMemory(addr, Len(data)),
           mem_buffer' = Filled(data),
           memory' = rv_target_write_memory(memory, mem_buffer', addr, Capped(Len(data))),
           call'.op \in {"M", "X"}, call'.addr = addr, call'.len = Len(data), call'.data = data
    PROVE  MemoryKept' /\ MovesExactly
<1> DEFINE n == Capped(Len(data))
           t == Transferred(memory, addr, n)
<1>1. data \in Seq(Bytes) /\ Len(data) \in Nat /\ \A i \in 1 .. Len(data) : data[i] \in Bytes
  BY CallAssumption
<1>2. n \in 0 .. Len(data) /\ n \in 0 .. BUFFER /\ BUFFER \in Nat
  BY <1>1, CappedIs, BufferAssumption
<1>3. addr \in Nat
  BY <1>1, InMemoryIs
<1> HIDE DEF n
<1>4. t \in 0 .. n /\ \A i \in 1 .. n : Sound(addr, i) => i =< t
  BY <1>2, <1>3, TransferredIs DEF MemoryKept
<1>5. mem_buffer' = [i \in 1 .. BUFFER |-> IF i =< Len(data) THEN data[i] ELSE mem_buffer[i]]
  BY Zenon DEF Filled
<1>6. mem_buffer' \in [1 .. BUFFER -> Bytes]
  BY <1>1, <1>5 DEF MemoryKept
<1>7. \A i \in 1 .. n : mem_buffer'[i] = data[i] /\ data[i] \in Bytes
  BY <1>1, <1>2, <1>5
<1> DEFINE range == addr .. addr + t - 1
           bytes == [a \in DOMAIN memory.bytes |->
                       IF a \in range THEN mem_buffer'[a - addr + 1] ELSE memory.bytes[a]]
<1>8. memory' = [bytes |-> bytes, bad |-> memory.bad]
  <2>1. memory' = [memory EXCEPT !.bytes = bytes]
    BY Zenon DEF rv_target_write_memory, n
  <2> HIDE DEF bytes
  <2>2. memory = [bytes |-> memory.bytes, bad |-> memory.bad]
    BY DEF MemoryKept
  <2> QED
    BY <2>1, <2>2
<1> HIDE DEF t
<1>9. \A a \in range : a - addr + 1 \in 1 .. n
  BY <1>2, <1>3, <1>4
<1>10. bytes \in [DOMAIN memory.bytes -> Bytes]
  BY <1>6, <1>7, <1>9 DEF MemoryKept
<1> HIDE DEF bytes
<1>11. memory'.bytes = bytes /\ memory'.bad = memory.bad /\ DOMAIN bytes = DOMAIN memory.bytes
  BY <1>8, <1>10
<1>12. MemoryKept'
  BY <1>6, <1>8, <1>10, <1>11 DEF MemoryKept
<1>13. ASSUME NEW a \in DOMAIN memory.bytes
       PROVE  IF a \in addr .. addr + n - 1
              THEN LET i == a - addr + 1 IN
                   /\ memory'.bytes[a] \in {memory.bytes[a], data[i]}
                   /\ Sound(addr, i) => memory'.bytes[a] = data[i]
              ELSE memory'.bytes[a] = memory.bytes[a]
  <2>1. a \in Nat
    BY DEF MemoryKept
  <2>2. CASE a \in range
    <3>1. memory'.bytes[a] = mem_buffer'[a - addr + 1]
      BY <1>11, <2>2 DEF bytes
    <3>2. memory'.bytes[a] = data[a - addr + 1]
      BY <1>7, <1>9, <2>2, <3>1
    <3>3. a \in addr .. addr + n - 1
      BY <1>2, <1>3, <1>4, <2>1, <2>2
    <3> QED
      BY <3>2, <3>3
  <2>3. CASE a \notin range
    <3>1. memory'.bytes[a] = memory.bytes[a]
      BY <1>11, <2>3 DEF bytes
    <3>2. a \in addr .. addr + n - 1 => a - addr + 1 \in 1 .. n /\ ~(a - addr + 1 =< t)
      BY <1>2, <1>3, <1>4, <2>1, <2>3
    <3>3. a \in addr .. addr + n - 1 => ~Sound(addr, a - addr + 1)
      BY <1>4, <3>2
    <3> QED
      BY <3>1, <3>3
  <2> QED
    BY <2>2, <2>3
<1> QED
  BY <1>12, <1>13 DEF MovesExactly, n

\* Commands that have nothing to do with memory.
LEMMA MemoryAlone ==
    ASSUME MemoryKept, UNCHANGED <<memory, mem_buffer>>,
           call'.op \notin {"m", "x", "M", "X"} \/ (call'.op = "X" /\ call'.len = 0 /\ call'.addr \in Nat)
    PROVE  MemoryKept' /\ MovesExactly
<1>1. MemoryKept'
  BY DEF MemoryKept
<1>2. call'.op \notin {"m", "x"}
  OBVIOUS
<1>3. ASSUME NEW a \in DOMAIN memory.bytes, call'.op \in {"M", "X"}
      PROVE  a \notin call'.addr .. call'.addr + Capped(call'.len) - 1
  <2>1. Capped(call'.len) = 0
    BY <1>3, BufferAssumption DEF Capped
  <2>2. a \in Nat /\ call'.addr \in Nat
    BY <1>3 DEF MemoryKept
  <2> QED
    BY <2>1, <2>2
<1> QED
  BY <1>1, <1>2, <1>3 DEF MovesExactly

\* The invariant holds at first, and every step keeps it.
LEMMA MemoryInit == Init => MemoryKept
<1> SUFFICES ASSUME Init PROVE MemoryKept
  OBVIOUS
<1>1. topic \in Topics /\ memory \in Memories(topic) /\ mem_buffer = [i \in 1 .. BUFFER |-> 0]
  BY DEF Init
<1>2. mem_buffer \in [1 .. BUFFER -> Bytes]
  BY <1>1 DEF Bytes
<1> QED
  BY <1>1, <1>2, MemoryAssumption DEF MemoryKept

LEMMA MemoryStep == MemoryKept /\ [Next]_vars => MemoryKept' /\ [MovesExactly]_vars
<1> SUFFICES ASSUME MemoryKept, Next PROVE MemoryKept' /\ (MovesExactly \/ UNCHANGED vars)
  <2>1. UNCHANGED vars /\ MemoryKept => MemoryKept'
    BY DEF vars, MemoryKept
  <2> QED
    BY <2>1
<1>1. CASE OnMemory
  <2>1. PICK addr \in DOMAIN memory.bytes :
          \/ \E len \in Lengths : InMemory(addr, len) /\ gdb_server_cmd_m(addr, len)
          \/ \E len \in Lengths : InMemory(addr, len) /\ gdb_server_cmd_x(addr, len)
          \/ \E d \in Data : InMemory(addr, Len(d)) /\ gdb_server_cmd_M(addr, d)
          \/ \E d \in Data : InMemory(addr, Len(d)) /\ InPacket(d) /\ gdb_server_cmd_X(addr, d)
    BY <1>1 DEF OnMemory
  <2>2. ASSUME NEW len \in Lengths, InMemory(addr, len), gdb_server_cmd_m(addr, len)
        PROVE  MemoryKept' /\ MovesExactly
    BY <2>2, CallAssumption, ReadMemory
  <2>3. ASSUME NEW len \in Lengths, InMemory(addr, len), gdb_server_cmd_x(addr, len)
        PROVE  MemoryKept' /\ MovesExactly
    BY <2>3, CallAssumption, ReadMemoryBinary
  <2>4. ASSUME NEW d \in Data, InMemory(addr, Len(d)), gdb_server_cmd_M(addr, d)
        PROVE  MemoryKept' /\ MovesExactly
    <3>1. call'.op = "M" /\ call'.addr = addr /\ call'.len = Len(d) /\ call'.data = d
      BY <2>4 DEF gdb_server_cmd_M, MemoryCall, NoCall
    <3>2. hex_to_bin(bin_to_hex(d)) = d
      BY CallAssumption, HexRoundTrip
    <3>3. /\ mem_buffer' = Filled(d)
          /\ memory' = rv_target_write_memory(memory, mem_buffer', addr, Capped(Len(d)))
      BY <2>4, <3>2, Zenon DEF gdb_server_cmd_M
    <3> QED
      BY <2>4, <3>1, <3>3, WriteMemory
  <2>5. ASSUME NEW d \in Data, InMemory(addr, Len(d)), gdb_server_cmd_X(addr, d)
        PROVE  MemoryKept' /\ MovesExactly
    <3>1. call'.op = "X" /\ call'.addr = addr /\ call'.len = Len(d) /\ call'.data = d
      BY <2>5 DEF gdb_server_cmd_X, MemoryCall, NoCall
    <3>2. CASE d = <<>>
      <4>1. UNCHANGED <<memory, mem_buffer>> /\ call'.len = 0 /\ addr \in Nat
        BY <2>5, <3>1, <3>2 DEF gdb_server_cmd_X, MemoryKept
      <4> QED
        BY <3>1, <4>1, MemoryAlone
    <3>3. CASE d # <<>>
      <4>1. bin_decode(HostEncoded(d)) = d
        BY CallAssumption, HostRoundTrip
      <4>2. /\ mem_buffer' = Filled(d)
            /\ memory' = rv_target_write_memory(memory, mem_buffer', addr, Capped(Len(d)))
        BY <2>5, <3>3, <4>1, Zenon DEF gdb_server_cmd_X
      <4> QED
        BY <2>5, <3>1, <4>2, WriteMemory
    <3> QED
      BY <3>2, <3>3
  <2> QED
    BY <2>1, <2>2, <2>3, <2>4, <2>5
<1>2. CASE OnRegisters
  <2>1. UNCHANGED <<memory, mem_buffer>> /\ call'.op \notin {"m", "x", "M", "X"}
    <3> DEFINE Ok == UNCHANGED <<memory, mem_buffer>> /\ call'.op \notin {"m", "x", "M", "X"}
    <3>1. ASSUME NEW protocol, gdb_server_cmd_custom_set(protocol) PROVE Ok
      BY <3>1 DEF gdb_server_cmd_custom_set, Answer, AnswerBy, NoCall
    <3>2. ASSUME NEW field, gdb_server_cmd_custom_read(field) PROVE Ok
      BY <3>2 DEF gdb_server_cmd_custom_read, Answer, AnswerBy, NoCall
    <3>3. ASSUME NEW command, gdb_server_cmd_qRcmd(command) PROVE Ok
      <4>1. \/ call' = [NoCall EXCEPT !.op = "connect"] /\ UNCHANGED <<memory, mem_buffer, topic>>
            \/ call' = NoCall /\ UNCHANGED <<memory, mem_buffer, topic>>
        BY <3>3, Zenon DEF gdb_server_cmd_qRcmd, Answer, AnswerBy
      <4> QED
        BY <4>1 DEF NoCall
    <3>4. ASSUME NEW n, gdb_server_cmd_p(n) PROVE Ok
      BY <3>4 DEF gdb_server_cmd_p, Answer, AnswerBy, NoCall
    <3>5. ASSUME NEW n, NEW v, gdb_server_cmd_P(n, v) PROVE Ok
      BY <3>5 DEF gdb_server_cmd_P, Answer, AnswerBy, NoCall
    <3>6. ASSUME gdb_server_cmd_g PROVE Ok
      BY <3>6 DEF gdb_server_cmd_g, Answer, AnswerBy, NoCall
    <3>7. ASSUME NEW values, gdb_server_cmd_G(values) PROVE Ok
      BY <3>7 DEF gdb_server_cmd_G, Answer, AnswerBy, NoCall
    <3> HIDE DEF Ok
    <3>8. Ok
      BY <1>2, <3>1, <3>2, <3>3, <3>4, <3>5, <3>6, <3>7, Zenon DEF OnRegisters
    <3> QED
      BY <3>8 DEF Ok
  <2> QED
    BY <2>1, MemoryAlone
<1>3. CASE gdb_server_cmd_custom_set("jtag")
  <2>1. UNCHANGED <<memory, mem_buffer>> /\ call'.op \notin {"m", "x", "M", "X"}
    BY <1>3 DEF gdb_server_cmd_custom_set, Answer, AnswerBy, NoCall
  <2> QED
    BY <2>1, MemoryAlone
<1>4. CASE Rest
  BY <1>4 DEF Rest, vars, MemoryKept
<1> QED
  BY <1>1, <1>2, <1>3, <1>4 DEF Next

\* Memory stays the range it is, and mem_buffer a buffer of BUFFER bytes.
THEOREM MemoryInvariant == Spec => []MemoryKept
<1>1. Init => MemoryKept
  BY MemoryInit
<1>2. MemoryKept /\ [Next]_vars => MemoryKept'
  BY MemoryStep
<1> QED
  BY <1>1, <1>2, PTL DEF Spec

\* Memory commands transfer exactly their range, whatever the memory, the data,
\* the lengths and the size of mem_buffer.
THEOREM MemoryIsExact == Spec => MemoryExact
<1>1. MemoryKept /\ [Next]_vars => [MovesExactly]_vars
  BY MemoryStep
<1> QED
  BY <1>1, MemoryInvariant, PTL DEF Spec, MemoryExact

-----------------------------------------------------------------------------
(* Registers in digits.                                                     *)

\* What a register of xlen bits can hold.
Most(xlen) == IF xlen = 32 THEN 255 ELSE 65535
Word(xlen) == 0 .. Most(xlen)

\* A number is made of its digits.
LEMMA DigitsOf ==
    ASSUME NEW w \in Nat
    PROVE  /\ w < 256 => w = (w % 16) + 16 * ((w \div 16) % 16)
           /\ w < 65536 => w = (w % 16) + 16 * ((w \div 16) % 16)
                                + 256 * ((w \div 256) % 16) + 4096 * ((w \div 4096) % 16)
<1>1. PICK q1 \in Nat, r1 \in 0 .. 15 : q1 = w \div 16 /\ r1 = w % 16 /\ w = 16 * q1 + r1
  BY SMT
<1>2. PICK q2 \in Nat, r2 \in 0 .. 15 : q2 = q1 \div 16 /\ r2 = q1 % 16 /\ q1 = 16 * q2 + r2
  BY SMT
<1>3. PICK q3 \in Nat, r3 \in 0 .. 15 : q3 = q2 \div 16 /\ r3 = q2 % 16 /\ q2 = 16 * q3 + r3
  BY SMT
<1>4. w = 256 * q2 + (16 * r2 + r1) /\ 16 * r2 + r1 \in 0 .. 255
  BY <1>1, <1>2, SMT
<1>5. w \div 256 = q2
  BY <1>4, SMT
<1>6. PICK c \in Nat : c = 256 * r3 + 16 * r2 + r1
  BY SMT
<1>7. c < 4096
  BY <1>6, SMT
<1>8. w = 4096 * q3 + c
  BY <1>3, <1>4, <1>6, SMT
<1>9. w \div 4096 = q3
  BY <1>8, <1>7, SMT
<1>10. w < 256 => q2 = 0
  BY <1>4, SMT
<1>11. w < 65536 => q3 % 16 = q3
  BY <1>8, <1>7, SMT
<1>12. w < 256 => w = r1 + 16 * r2
  BY <1>4, <1>10, SMT
<1>13. w < 65536 => w = r1 + 16 * r2 + 256 * r3 + 4096 * (q3 % 16)
  BY <1>8, <1>11, <1>6, SMT
<1>14. r1 = w % 16 /\ r2 = (w \div 16) % 16 /\ r3 = (w \div 256) % 16 /\ q3 % 16 = (w \div 4096) % 16
  BY <1>1, <1>2, <1>3, <1>5, <1>9
<1> QED
  BY <1>12, <1>13, <1>14, SMT

\* How many bytes and digits a register has.
LEMMA SizesAre ==
    ASSUME NEW xlen \in {32, 64}
    PROVE  /\ xlen = 32 => xlen \div 16 = 2 /\ xlen \div 8 = 4
           /\ xlen = 64 => xlen \div 16 = 4 /\ xlen \div 8 = 8
           /\ xlen \div 8 = 2 * (xlen \div 16)
<1>1. CASE xlen = 32
  BY <1>1, SMT
<1>2. CASE xlen = 64
  BY <1>2, SMT
<1> QED
  BY <1>1, <1>2

\* A word is less than the digits can say.
LEMMA WordIs ==
    ASSUME NEW xlen \in {32, 64}, NEW w \in Word(xlen)
    PROVE  w \in Nat /\ w < 65536 /\ (xlen = 32 => w < 256)
<1>1. PICK m : m = Most(xlen)
  OBVIOUS
<1>2. w \in 0 .. m
  BY <1>1 DEF Word
<1>3. m \in Nat /\ m < 65536 /\ (xlen = 32 => m < 256)
  BY <1>1, SMT DEF Most
<1> QED
  BY <1>2, <1>3, SMT

\* What the digits stand for.
LEMMA PlacesAre ==
    /\ Places[1] = 1 /\ Places[2] = 16 /\ Places[3] = 256 /\ Places[4] = 4096
    /\ \A i \in 1 .. 4 : Places[i] \in {1, 16, 256, 4096}
BY SMT DEF Places

\* Every byte of a word is a byte.
LEMMA PlaceIs ==
    ASSUME NEW w \in Nat, NEW p \in {1, 16, 256, 4096}
    PROVE  (w \div p) % 16 \in 0 .. 15
<1>1. CASE p = 1
  BY <1>1, SMT
<1>2. CASE p = 16
  BY <1>2, SMT
<1>3. CASE p = 256
  BY <1>3, SMT
<1>4. CASE p = 4096
  BY <1>4, SMT
<1> QED
  BY <1>1, <1>2, <1>3, <1>4

\* A word is what its digits say.
LEMMA UintIs ==
    ASSUME NEW xlen \in {32, 64}, NEW w \in Word(xlen)
    PROVE  /\ uint_to_hex_le(w, xlen) \in [1 .. xlen \div 8 -> 0 .. 3]
           /\ hex_to_uint_le(uint_to_hex_le(w, xlen), xlen) = w
<1> DEFINE b == [i \in 1 .. xlen \div 16 |-> (w \div Places[i]) % 16]
<1>1. w \in Nat /\ w < 65536 /\ (xlen = 32 => w < 256)
  BY WordIs
<1>2. PICK m : m = xlen \div 16 /\ m \in {2, 4} /\ (xlen = 32 => m = 2) /\ (xlen = 64 => m = 4)
               /\ xlen \div 8 = 2 * m
  BY SizesAre
<1>3. \A i \in 1 .. m : (w \div Places[i]) % 16 \in 0 .. 15
  BY <1>1, <1>2, PlacesAre, PlaceIs, SMTT(30)
<1>4. b \in [1 .. m -> Bytes]
  BY <1>2, <1>3 DEF Bytes
<1>5. b \in Seq(Bytes) /\ Len(b) = m
  BY <1>2, <1>4
<1>6. uint_to_hex_le(w, xlen) = bin_to_hex(b)
  BY DEF uint_to_hex_le
<1>7. hex_to_bin(uint_to_hex_le(w, xlen)) = b
  BY <1>5, <1>6, HexRoundTrip
<1>8. \A i \in 1 .. m : b[i] = (w \div Places[i]) % 16
  BY <1>2
<1> HIDE DEF b
<1>9. b[1] = (w \div Places[1]) % 16 /\ b[2] = (w \div Places[2]) % 16
  BY <1>2, <1>8
<1>10. xlen = 64 => b[3] = (w \div Places[3]) % 16 /\ b[4] = (w \div Places[4]) % 16
  BY <1>2, <1>8
<1>11. b[1] = w % 16 /\ b[2] = (w \div 16) % 16
       /\ (xlen = 64 => b[3] = (w \div 256) % 16 /\ b[4] = (w \div 4096) % 16)
  BY <1>1, <1>9, <1>10, PlacesAre, SMT
<1>12. uint_to_hex_le(w, xlen) \in [1 .. xlen \div 8 -> 0 .. 3]
  <2>1. ASSUME NEW k \in 1 .. 2 * m
        PROVE  b[(k + 1) \div 2] \in 0 .. 15
    <3>1. (k + 1) \div 2 \in 1 .. m
      BY <1>2, SMT
    <3> QED
      BY <3>1, <1>4 DEF Bytes
  <2>2. \A c \in 0 .. 15 : c \div 4 \in 0 .. 3 /\ c % 4 \in 0 .. 3
    BY SMT
  <2>3. bin_to_hex(b) = [k \in 1 .. 2 * m |-> IF k % 2 = 1 THEN b[(k + 1) \div 2] \div 4 ELSE b[(k + 1) \div 2] % 4]
    BY <1>5 DEF bin_to_hex
  <2>4. ASSUME NEW k \in 1 .. 2 * m
        PROVE  (IF k % 2 = 1 THEN b[(k + 1) \div 2] \div 4 ELSE b[(k + 1) \div 2] % 4) \in 0 .. 3
    <3>1. PICK c \in 0 .. 15 : c = b[(k + 1) \div 2]
      BY <2>1
    <3> QED
      BY <2>2, <3>1
  <2>5. bin_to_hex(b) \in [1 .. 2 * m -> 0 .. 3]
    BY <2>3, <2>4
  <2> QED
    BY <1>2, <1>6, <2>5
<1>13. hex_to_uint_le(uint_to_hex_le(w, xlen), xlen)
          = IF xlen = 32 THEN b[1] + Places[2] * b[2]
            ELSE b[1] + Places[2] * b[2] + Places[3] * b[3] + Places[4] * b[4]
  BY <1>7 DEF hex_to_uint_le
<1>14. CASE xlen = 32
  <2>1. hex_to_uint_le(uint_to_hex_le(w, xlen), xlen) = b[1] + 16 * b[2]
    BY <1>13, <1>14, PlacesAre
  <2>2. w = (w % 16) + 16 * ((w \div 16) % 16)
    BY <1>1, <1>14, DigitsOf
  <2> QED
    BY <1>11, <1>12, <2>1, <2>2
<1>15. CASE xlen = 64
  <2>1. hex_to_uint_le(uint_to_hex_le(w, xlen), xlen) = b[1] + 16 * b[2] + 256 * b[3] + 4096 * b[4]
    BY <1>13, <1>15, PlacesAre
  <2>2. w = (w % 16) + 16 * ((w \div 16) % 16) + 256 * ((w \div 256) % 16) + 4096 * ((w \div 4096) % 16)
    BY <1>1, DigitsOf
  <2> QED
    BY <1>11, <1>12, <1>15, <2>1, <2>2
<1> QED
  BY <1>14, <1>15

\* A part of a sequence.
LEMMA SliceIs ==
    ASSUME NEW S, NEW s \in Seq(S), NEW p \in Nat, NEW q \in Nat, p >= 1, q =< Len(s),
           NEW n \in Nat, q = p + n - 1, NEW t, t = SubSeq(s, p, q)
    PROVE  Len(t) = n /\ t \in Seq(S) /\ \A l \in 1 .. n : t[l] = s[p + l - 1]
OBVIOUS

\* Where the digits of a word are.
LEMMA ChunkIs ==
    ASSUME NEW n \in {4, 8}, NEW i \in Nat, i > 0, NEW l \in 1 .. n, NEW j \in Nat, j = (i - 1) * n + l
    PROVE  ((j - 1) \div n) + 1 = i /\ ((j - 1) % n) + 1 = l
<1>1. CASE n = 4
  <2>1. j - 1 = 4 * (i - 1) + (l - 1) /\ l - 1 \in 0 .. 3
    BY <1>1, SMT
  <2> QED
    BY <1>1, <2>1, SMT
<1>2. CASE n = 8
  <2>1. j - 1 = 8 * (i - 1) + (l - 1) /\ l - 1 \in 0 .. 7
    BY <1>2, SMT
  <2> QED
    BY <1>2, <2>1, SMT
<1> QED
  BY <1>1, <1>2

LEMMA ChunkIn ==
    ASSUME NEW n \in {4, 8}, NEW k \in Nat, NEW i \in 1 .. k, NEW l \in 1 .. n
    PROVE  (i - 1) * n + l \in 1 .. k * n
<1>1. CASE n = 4
  BY <1>1, SMT
<1>2. CASE n = 8
  BY <1>2, SMT
<1> QED
  BY <1>1, <1>2

LEMMA ChunkOf ==
    ASSUME NEW n \in {4, 8}, NEW k \in Nat, NEW j \in 1 .. k * n
    PROVE  ((j - 1) \div n) + 1 \in 1 .. k /\ ((j - 1) % n) + 1 \in 1 .. n
<1>1. CASE n = 4
  BY <1>1, SMT
<1>2. CASE n = 8
  BY <1>2, SMT
<1> QED
  BY <1>1, <1>2

IsList(words, k) == words = [i \in 1 .. k |-> words[i]]

\* Words in digits come back as they were.
LEMMA RoundTrip ==
    ASSUME NEW xlen \in {32, 64}, NEW k \in Nat, NEW words, IsList(words, k), \A i \in 1 .. k : words[i] \in Word(xlen)
    PROVE  Words(Hex(words, xlen), xlen) = words
<1>1. PICK n \in {4, 8} : n = xlen \div 8
  BY SizesAre
<1>2. PICK digits : digits = Hex(words, xlen)
  OBVIOUS
<1>3. Len(words) = k
  <2>1. words \in [1 .. k -> Word(xlen)]
    BY DEF IsList
  <2> QED
    BY <2>1
<1>4. PICK kn \in Nat : kn = k * n /\ kn \div n = k
  <2>1. CASE n = 4
    BY <2>1, SMT
  <2>2. CASE n = 8
    BY <2>2, SMT
  <2> QED
    BY <2>1, <2>2
<1>5. digits = [j \in 1 .. kn |-> uint_to_hex_le(words[((j - 1) \div n) + 1], xlen)[((j - 1) % n) + 1]]
  BY <1>1, <1>2, <1>3, <1>4 DEF Hex
<1>6. ASSUME NEW j \in 1 .. kn
      PROVE  digits[j] \in 0 .. 3
  <2>1. PICK i \in 1 .. k, l \in 1 .. n : i = ((j - 1) \div n) + 1 /\ l = ((j - 1) % n) + 1
    BY <1>4, ChunkOf
  <2>2. PICK u : u = uint_to_hex_le(words[i], xlen)
    OBVIOUS
  <2>3. u \in [1 .. n -> 0 .. 3]
    BY <1>1, <2>2, UintIs
  <2>4. digits[j] = u[l]
    BY <1>5, <2>1, <2>2
  <2> QED
    BY <2>3, <2>4
<1>7. digits \in [1 .. kn -> 0 .. 3]
  <2>1. digits = [j \in 1 .. kn |-> digits[j]]
    BY <1>5
  <2> QED
    BY <1>6, <2>1
<1>8. PICK D : D = 0 .. 3
  OBVIOUS
<1>11. digits \in Seq(D) /\ Len(digits) = kn
  BY <1>7, <1>8
<1>9. ASSUME NEW i \in 1 .. k
      PROVE  hex_to_uint_le(SubSeq(digits, (i - 1) * n + 1, i * n), xlen) = words[i]
  <2>1. PICK u : u = uint_to_hex_le(words[i], xlen)
    OBVIOUS
  <2>2. u \in [1 .. n -> 0 .. 3] /\ hex_to_uint_le(u, xlen) = words[i]
    BY <1>1, <2>1, UintIs, ZenonT(60)
  <2>3. ASSUME NEW l \in 1 .. n
        PROVE  digits[(i - 1) * n + l] = u[l]
    <3>1. PICK j \in 1 .. kn : j = (i - 1) * n + l
      BY <1>4, ChunkIn
    <3>2. digits[j] = uint_to_hex_le(words[((j - 1) \div n) + 1], xlen)[((j - 1) % n) + 1]
      BY <1>5
    <3>3. ((j - 1) \div n) + 1 = i /\ ((j - 1) % n) + 1 = l
      <4>1. i \in Nat /\ i > 0
        OBVIOUS
      <4> QED
        BY <3>1, <4>1, ChunkIs
    <3> QED
      BY <2>1, <3>1, <3>2, <3>3
  <2>4. PICK p \in Nat, q \in Nat : /\ p = (i - 1) * n + 1 /\ q = i * n /\ p >= 1
                                   /\ q =< kn /\ q = p + n - 1
    <3>1. CASE n = 4
      BY <1>4, <3>1, SMT
    <3>2. CASE n = 8
      BY <1>4, <3>2, SMT
    <3> QED
      BY <3>1, <3>2
  <2>5. PICK t : t = SubSeq(digits, p, q)
    OBVIOUS
  <2>6. Len(t) = n /\ t \in Seq(D) /\ \A l \in 1 .. n : t[l] = digits[p + l - 1]
    <3>1. q =< Len(digits) /\ n \in Nat /\ p >= 1 /\ q = p + n - 1
      BY <1>11, <2>4
    <3> QED
      BY <1>11, <2>5, <3>1, SliceIs
  <2>7. \A l \in 1 .. n : p + l - 1 = (i - 1) * n + l
    BY <2>4
  <2>8. \A l \in 1 .. n : t[l] = u[l]
    <3> TAKE l \in 1 .. n
    <3>1. PICK j : j = (i - 1) * n + l
      OBVIOUS
    <3>2. digits[j] = u[l]
      BY <2>3, <3>1
    <3>3. p + l - 1 = j
      BY <2>7, <3>1
    <3> QED
      BY <2>6, <3>2, <3>3
  <2>9. t = u
    BY <2>2, <2>6, <2>8
  <2> QED
    BY <2>2, <2>4, <2>5, <2>9
<1>10. Words(digits, xlen) = [i \in 1 .. k |-> hex_to_uint_le(SubSeq(digits, (i - 1) * n + 1, i * n), xlen)]
  BY <1>1, <1>4, <1>11 DEF Words
<1> QED
  BY <1>2, <1>9, <1>10 DEF IsList

\* And so does one.
LEMMA RoundTripOne ==
    ASSUME NEW xlen \in {32, 64}, NEW w \in Word(xlen)
    PROVE  Words(Hex(<< w >>, xlen), xlen)[1] = w
<1>1. PICK words : words = << w >>
  OBVIOUS
<1>2. words = [i \in 1 .. 1 |-> words[i]] /\ words[1] = w
  BY <1>1
<1>3. \A i \in 1 .. 1 : words[i] \in Word(xlen)
  BY <1>2
<1>4. Words(Hex(words, xlen), xlen) = words
  BY <1>2, <1>3, RoundTrip, ZenonT(60) DEF IsList
<1> QED
  BY <1>1, <1>2, <1>4

-----------------------------------------------------------------------------
(* The register commands.                                                   *)

\* LeavesAlone and Transfers of a step that leaves the registers of h as q, c as
\* the last command and y as its answer, with reg_tmp at o before.
NotKeptOf(h, c) ==
    (IF c.reg \in Vectors \/ (c.op = "P" /\ c.reg \in {"vl", "vtype"}) THEN {"vstart"} ELSE {})
    \union (IF c.op = "connect" /\ h.xlen = 32 THEN {"fp"} ELSE {})

LeavesFor(h, q, c) ==
    LET m == h.r.mstatus
        n == q.mstatus
    IN  /\ \A r \in Registers : r \notin About(c) \union NotKeptOf(h, c) \union {"mstatus"} => q[r] = h.r[r]
        /\ "mstatus" \notin About(c) =>
              /\ n \div 4 = m \div 4
              /\ Fs(n) # Fs(m) => FsOf(c.reg)
              /\ Vs(n) # Vs(m) => VsOf(c.reg) \/ (c.op = "connect" /\ "v" \in h.ext)

AnswersRead(h, o, c, y) ==
    LET n == Named(c.reg) IN
    n # "none" /\ Reaches(h, h.r, n) => y = Hex(WordsOf(n, Given(h, h.r, c.reg, o)), h.xlen)

AnswersWrite(h, q, c) ==
    LET n == Named(c.reg) IN
    n # "none" /\ Reaches(h, h.r, n) /\ (n \in {"vl", "vtype"} => h.progbuf) =>
        IF c.reg = "priv" THEN q.dcsr = (h.r.dcsr - Prv(h.r.dcsr)) + Prv(c.value)
        ELSE q[n] = IF n = "vlenb" THEN h.r[n] ELSE Kept(h, n, c.value)

AnswersQuery(h, c, y) ==
    /\ Named(c.reg) = "misa" => y = Letters(h.r.misa) + 64 * (h.xlen \div 32)
    /\ Named(c.reg) = "vlenb" => y = IF "v" \in h.ext THEN h.r.vlenb ELSE NoVlenb

TransfersFor(h, o, q, c, y) ==
    /\ c.op = "p" => AnswersRead(h, o, c, y)
    /\ c.op = "P" => AnswersWrite(h, q, c)
    /\ c.op = "read" => AnswersQuery(h, c, y)
    /\ c.op = "g" => y = Hex([i \in DOMAIN CoreRegisters |-> Shown(h.r, CoreRegisters[i])], h.xlen)
    /\ c.op = "G" => \A i \in DOMAIN CoreRegisters : q[Named(CoreRegisters[i])] = c.data[i]

\* LeavesAlone and Transfers follow from these.
LEMMA LeavesAloneIs ==
    ASSUME NEW q, hart'.r = q, LeavesFor(hart, q, call')
    PROVE  LeavesAlone
BY DEF LeavesAlone, LeavesFor, NotKept, NotKeptOf

LEMMA TransfersAre ==
    ASSUME NEW q, hart'.r = q, TransfersFor(hart, reg_tmp, q, call', reply')
    PROVE  Transfers
<1>1. \A n : Reachable(n) <=> Reaches(hart, hart.r, n)
  BY DEF Reachable, Reaches
<1>2. \A n : ValueOf(n) = Shown(hart.r, n)
  BY DEF ValueOf, Shown
<1>8. \A n : AnswerFor(n) = Given(hart, hart.r, n, reg_tmp)
  <2>1. \A n : HalfStale(n) <=> StaleHalf(hart, n)
    BY DEF HalfStale, StaleHalf, Direct, ClassOf, Gprs, Fprs
  <2> QED
    BY <1>2, <2>1 DEF AnswerFor, Given
<1>3. call'.op = "p" /\ Named(call'.reg) # "none" /\ Reachable(Named(call'.reg)) =>
         reply' = Hex(WordsOf(Named(call'.reg), AnswerFor(call'.reg)), hart.xlen)
  BY <1>1, <1>8, Zenon DEF TransfersFor, AnswersRead
<1>4. call'.op = "P" /\ Named(call'.reg) # "none" /\ Reachable(Named(call'.reg))
         /\ (Named(call'.reg) \in {"vl", "vtype"} => hart.progbuf) =>
         IF call'.reg = "priv" THEN hart'.r.dcsr = (hart.r.dcsr - Prv(hart.r.dcsr)) + Prv(call'.value)
         ELSE hart'.r[Named(call'.reg)]
                = IF Named(call'.reg) = "vlenb" THEN hart.r[Named(call'.reg)]
                  ELSE Kept(hart, Named(call'.reg), call'.value)
  BY <1>1, Zenon DEF TransfersFor, AnswersWrite
<1>5. call'.op = "read" /\ Named(call'.reg) = "misa" =>
         reply' = Letters(hart.r.misa) + 64 * (hart.xlen \div 32)
  BY Zenon DEF TransfersFor, AnswersQuery
<1>9. call'.op = "read" /\ Named(call'.reg) = "vlenb" =>
         reply' = IF "v" \in hart.ext THEN hart.r.vlenb ELSE NoVlenb
  BY Zenon DEF TransfersFor, AnswersQuery
<1>6. call'.op = "g" =>
         reply' = Hex([i \in DOMAIN CoreRegisters |-> ValueOf(CoreRegisters[i])], hart.xlen)
  <2>1. [i \in DOMAIN CoreRegisters |-> ValueOf(CoreRegisters[i])]
           = [i \in DOMAIN CoreRegisters |-> Shown(hart.r, CoreRegisters[i])]
    BY <1>2, Zenon
  <2> QED
    BY <2>1, Zenon DEF TransfersFor
<1>7. call'.op = "G" => \A i \in DOMAIN CoreRegisters :
         hart'.r[Named(CoreRegisters[i])] = call'.data[i]
  BY Zenon DEF TransfersFor
<1> QED
  BY <1>3, <1>4, <1>5, <1>6, <1>7, <1>9, Zenon DEF Transfers

\* The invariant: the hart can be debugged, and a connected server knows it.
RegistersKept ==
    /\ Debuggable(hart)
    /\ connected => target = KnownOf(hart, hart.r)

\* A hart is itself with its own registers.
LEMMA WithItself ==
    ASSUME NEW h, Debuggable(h)
    PROVE  With(h, h.r) = h /\ Holds(h, h.r)
BY DEF Debuggable, With

\* Whatever its registers but misa come to hold, a hart can be debugged.
LEMMA DebuggableWith ==
    ASSUME NEW h, Debuggable(h), NEW q, Holds(h, q), q["misa"] = h.r["misa"]
    PROVE  Debuggable(With(h, q))
<1> DEFINE g == With(h, q)
<1>1. g.xlen = h.xlen /\ g.ext = h.ext /\ g.abstract = h.abstract /\ g.progbuf = h.progbuf /\ g.r = q
  BY WithIs
<1>2. g = [xlen |-> g.xlen, ext |-> g.ext, abstract |-> g.abstract, progbuf |-> g.progbuf, r |-> g.r]
  BY DEF With
<1>3. Holds(g, q)
  BY <1>1 DEF Holds, Kept
<1> QED
  BY <1>1, <1>2, <1>3 DEF Debuggable

\* The access a command starts with.
LEMMA AccessIs ==
    ASSUME NEW h, Debuggable(h), NEW t, NEW o
    PROVE  Access(h, t, o) = St(h, t, h.r, "ok", o)
<1>1. With(h, h.r) = h
  BY WithItself
<1> QED
  BY <1>1, FlagIs DEF Access, St

\* What an access comes to.
LEMMA TargetIs ==
    ASSUME NEW h, NEW t, NEW q, NEW e, NEW x, NEW s, s = St(h, t, q, e, x)
    PROVE  s.h = With(h, q) /\ s.out = x /\ s.mxl = t.mxl /\ Target(s) = Knows(t.mxl, t.misa, t.vlenb)
BY StIs DEF Target, Knows

\* What the server knows of a hart.
LEMMA KnownIs ==
    ASSUME NEW h, NEW r, NEW t, t = KnownOf(h, r)
    PROVE  /\ t.mxl = h.xlen /\ Knows(t.mxl, t.misa, t.vlenb) = t
           /\ t.misa = PackedOf(h, r["misa"]) /\ t.vlenb = IF "v" \in h.ext THEN r["vlenb"] ELSE NoVlenb
BY DEF KnownOf, Knows

\* That is the same while misa and vlenb are.
LEMMA KnownSame ==
    ASSUME NEW h, NEW r, NEW q, q["misa"] = r["misa"], q["vlenb"] = r["vlenb"]
    PROVE  KnownOf(h, q) = KnownOf(h, r) /\ KnownOf(With(h, q), q) = KnownOf(h, q)
BY WithIs DEF KnownOf, PackedOf

\* The letters of misa, with the width at the top of 32 bits.
LEMMA PackedIs ==
    ASSUME NEW h, Debuggable(h)
    PROVE  PackedOf(h, h.r["misa"]) = Letters(h.r.misa) + 64 * (h.xlen \div 32)
<1>1. PICK m : m = h.r.misa
  OBVIOUS
<1>2. m \in Nat /\ Mxl(m, h.xlen) = h.xlen \div 32 /\ h.xlen \in {32, 64}
  BY <1>1 DEF Debuggable
<1>3. m = (m % 64) + 64 * (m \div 64)
  BY <1>2
<1>4. CASE h.xlen = 32
  <2>1. m = Letters(m) + 64 * Mxl(m, 32)
    BY <1>3 DEF Letters, Mxl
  <2> QED
    BY <1>1, <1>2, <1>4, <2>1 DEF PackedOf
<1>5. CASE h.xlen = 64
  BY <1>1, <1>2, <1>5 DEF PackedOf
<1> QED
  BY <1>2, <1>4, <1>5

\* A register command that is answered keeps the invariant.
LEMMA AnsweredIs ==
    ASSUME RegistersKept, NEW q, Holds(hart, q), q["misa"] = hart.r["misa"], q["vlenb"] = hart.r["vlenb"],
           NEW e, NEW x, NEW s, s = St(hart, KnownOf(hart, hart.r), q, e, x),
           NEW c, NEW y, AnswerBy(s, c, y), LeavesFor(hart, q, c), TransfersFor(hart, reg_tmp, q, c, y)
    PROVE  RegistersKept' /\ LeavesAlone /\ Transfers
<1>1. PICK g : g = With(hart, q)
  OBVIOUS
<1>2. PICK t : t = KnownOf(hart, hart.r)
  OBVIOUS
<1>3. s.h = g /\ Target(s) = t
  BY <1>1, <1>2, TargetIs, KnownIs
<1>4. hart' = g /\ target' = t /\ call' = c /\ reply' = y
  BY <1>3 DEF AnswerBy
<1>5. g.r = q /\ Debuggable(g)
  BY <1>1, WithIs, DebuggableWith DEF RegistersKept
<1>6. t = KnownOf(g, g.r)
  BY <1>1, <1>2, <1>5, KnownSame
<1>7. RegistersKept'
  <2>1. Debuggable(hart')
    BY <1>4, <1>5
  <2>2. target' = KnownOf(hart', hart'.r)
    BY <1>4, <1>6
  <2> QED
    BY <2>1, <2>2 DEF RegistersKept
<1>8. hart'.r = q /\ LeavesFor(hart, q, call') /\ TransfersFor(hart, reg_tmp, q, call', reply')
  BY <1>4, <1>5
<1> QED
  BY <1>7, <1>8, LeavesAloneIs, TransfersAre

\* No command but these is held to anything.
LEMMA TransfersOther ==
    ASSUME NEW h, NEW q, NEW c, NEW y, c.op \notin {"p", "P", "read", "g", "G"}
    PROVE  \A o : TransfersFor(h, o, q, c, y)
BY DEF TransfersFor

\* A command that changes no register leaves them all alone.
LEMMA LeavesSame ==
    ASSUME NEW h, NEW c
    PROVE  LeavesFor(h, h.r, c)
BY DEF LeavesFor

\* A vector register has its own name.
LEMMA NamedVectors ==
    ASSUME NEW n, NEW v
    PROVE  /\ n \in Vectors <=> Named(n) \in Vectors
           /\ WordsOf(Named(n), v) = WordsOf(n, v)
           /\ Named(n) # "none" => n # "none"
BY DEF Named, Vectors, WordsOf

\* What a read clears is what it is known not to give back.
LEMMA LeavesRead ==
    ASSUME NEW h, NEW q, NEW n, Left(h, h.r, q, n, Clears(n)), NEW c, c.op = "p", c.reg = n
    PROVE  LeavesFor(h, q, c)
<1>1. About(c) = {}
  BY DEF About
<1>2. NotKeptOf(h, c) = Clears(n)
  BY DEF NotKeptOf, Clears
<1>3. "mstatus" \notin Clears(n)
  BY DEF Clears
<1> QED
  BY <1>1, <1>2, <1>3 DEF LeavesFor, Left, StatusLeft

\* p.
LEMMA CommandRead ==
    ASSUME RegistersKept, connected, NEW n \in Numbered, gdb_server_cmd_p(n)
    PROVE  RegistersKept' /\ LeavesAlone /\ Transfers
<1>1. PICK t : t = KnownOf(hart, hart.r)
  OBVIOUS
<1>2. target = t /\ Debuggable(hart) /\ t.mxl = hart.xlen
  BY <1>1, KnownIs DEF RegistersKept
<1>3. Now = St(hart, t, hart.r, "ok", reg_tmp)
  BY <1>2, AccessIs DEF Now
<1>4. Holds(hart, hart.r) /\ Ready(hart, t)
  BY <1>2, WithItself DEF Ready
<1>5. PICK s : s = rv_target_read_register(Now, n)
  OBVIOUS
<1>6. PICK q, x : /\ rv_target_read_register(St(hart, t, hart.r, "ok", reg_tmp), n) = St(hart, t, q, Done(n, "ok"), x)
                  /\ Left(hart, hart.r, q, n, Clears(n))
                  /\ n # "none" /\ Reaches(hart, hart.r, Named(n)) => x = Given(hart, hart.r, n, reg_tmp)
  BY <1>4, ReadRegisterIs
<1>7. s = St(hart, t, q, Done(n, "ok"), x) /\ s.out = x /\ s.mxl = hart.xlen
  BY <1>2, <1>3, <1>5, <1>6, StIs
<1>8. PICK c : c = [NoCall EXCEPT !.op = "p", !.reg = n]
  OBVIOUS
<1>9. c.op = "p" /\ c.reg = n
  BY <1>8 DEF NoCall
<1>10. AnswerBy(s, c, Hex(WordsOf(n, x), hart.xlen))
  BY <1>5, <1>7, <1>8 DEF gdb_server_cmd_p
<1>11. Holds(hart, q) /\ q["misa"] = hart.r["misa"] /\ q["vlenb"] = hart.r["vlenb"]
  BY <1>6 DEF Left, Clears, Registers, Csrs, VectorCsrs
<1>12. LeavesFor(hart, q, c)
  BY <1>6, <1>9, LeavesRead
<1>13. TransfersFor(hart, reg_tmp, q, c, Hex(WordsOf(n, x), hart.xlen))
  <2>1. AnswersRead(hart, reg_tmp, c, Hex(WordsOf(n, x), hart.xlen))
    BY <1>6, <1>9, NamedVectors DEF AnswersRead
  <2> QED
    BY <1>9, <2>1 DEF TransfersFor
<1> QED
  BY <1>1, <1>7, <1>10, <1>11, <1>12, <1>13, AnsweredIs

\* The value P sends is the value it writes.
LEMMA SentIs ==
    ASSUME NEW xlen \in {32, 64}, NEW n \in Numbered, NEW v, n \in Vectors => v \in [1 .. Elements -> Nat],
           NEW ws, ws = WordsOf(n, v), \A i \in DOMAIN ws : ws[i] \in Word(xlen)
    PROVE  /\ (IF n \in Vectors THEN Words(Hex(ws, xlen), xlen) ELSE Words(Hex(ws, xlen), xlen)[1]) = v
           /\ FitsInto(n, v)
<1>1. CASE n \in Vectors
  <2>1. ws = v /\ IsList(ws, Elements) /\ Elements \in Nat /\ DOMAIN ws = 1 .. Elements
    BY <1>1 DEF WordsOf, IsList, Elements
  <2>2. Words(Hex(ws, xlen), xlen) = ws
    BY <2>1, RoundTrip
  <2>3. FitsInto(n, v)
    BY <1>1, <2>1 DEF FitsInto, Fits, IsList, Named, Vectors
  <2> QED
    BY <1>1, <2>1, <2>2, <2>3
<1>2. CASE n \notin Vectors
  <2>1. ws = << v >>
    BY <1>2 DEF WordsOf
  <2>2. 1 \in DOMAIN ws /\ ws[1] = v
    BY <2>1
  <2>3. v \in Word(xlen)
    BY <2>2
  <2>4. Words(Hex(ws, xlen), xlen)[1] = v
    BY <2>1, <2>3, RoundTripOne
  <2>5. v \in Nat
    BY <2>3, WordIs
  <2>6. FitsInto(n, v)
    BY <1>2, <2>5 DEF FitsInto, Fits, Named, Vectors
  <2> QED
    BY <1>2, <2>4, <2>6
<1> QED
  BY <1>1, <1>2

\* What a write touches is what it is about, and vstart.
LEMMA LeavesWrite ==
    ASSUME NEW h, NEW q, NEW n, Left(h, h.r, q, n, Touches(n)), NEW c, c.op = "P", c.reg = n
    PROVE  LeavesFor(h, q, c)
<1>1. About(c) = {Named(n)} \union (IF n = "vtype" THEN {"vl"} ELSE {})
  BY DEF About
<1>2. NotKeptOf(h, c) = IF n \in Vectors \union {"vl", "vtype"} THEN {"vstart"} ELSE {}
  BY DEF NotKeptOf
<1>3. Touches(n) = About(c) \union NotKeptOf(h, c)
  BY <1>1, <1>2 DEF Touches
<1>4. "mstatus" \notin NotKeptOf(h, c)
  BY <1>2
<1> QED
  BY <1>3, <1>4 DEF LeavesFor, Left, StatusLeft

\* P.
LEMMA CommandWrite ==
    ASSUME RegistersKept, connected, NEW n \in Numbered, NEW v \in ValuesFor(n), InRegister(n, v),
           gdb_server_cmd_P(n, v)
    PROVE  RegistersKept' /\ LeavesAlone /\ Transfers
<1>1. PICK t : t = KnownOf(hart, hart.r)
  OBVIOUS
<1>2. target = t /\ Debuggable(hart) /\ t.mxl = hart.xlen
  BY <1>1, KnownIs DEF RegistersKept
<1>3. Now = St(hart, t, hart.r, "ok", reg_tmp)
  BY <1>2, AccessIs DEF Now
<1>4. Holds(hart, hart.r) /\ Ready(hart, t) /\ With(hart, hart.r) = hart /\ hart.xlen \in {32, 64}
  BY <1>2, WithItself DEF Ready, Debuggable
<1>5. PICK ws : ws = WordsOf(n, v)
  OBVIOUS
<1>6. \A i \in DOMAIN ws : ws[i] \in Word(hart.xlen)
  BY <1>5 DEF InRegister, Word, Most
<1>7. n \in Vectors => v \in [1 .. Elements -> Nat]
  BY ValueAssumption
<1>8. PICK z : z = IF n \in Vectors THEN Words(Hex(ws, hart.xlen), hart.xlen)
                   ELSE Words(Hex(ws, hart.xlen), hart.xlen)[1]
  OBVIOUS
<1>9. z = v /\ FitsInto(n, v)
  BY <1>4, <1>5, <1>6, <1>7, <1>8, SentIs
<1>10. PICK c : c = [NoCall EXCEPT !.op = "P", !.reg = n, !.value = v]
  OBVIOUS
<1>11. c.op = "P" /\ c.reg = n /\ c.value = v
  BY <1>10 DEF NoCall
<1>12. PICK s : s = rv_target_write_register(Now, n, v)
  OBVIOUS
<1>13. AnswerBy(s, c, "OK")
  BY <1>2, <1>5, <1>8, <1>9, <1>10, <1>12 DEF gdb_server_cmd_P
<1>14. PICK q, x :
         /\ rv_target_write_register(St(hart, t, hart.r, "ok", reg_tmp), n, v) = St(hart, t, q, Done(n, "ok"), x)
         /\ Left(hart, hart.r, q, n, Touches(n)) /\ q.misa = hart.r.misa /\ q.vlenb = hart.r.vlenb
         /\ n # "none" /\ Reaches(hart, hart.r, Named(n)) /\ (n \in {"vl", "vtype"} => hart.progbuf)
               => q[Named(n)] = Becomes(hart, hart.r, n, v)
  BY <1>4, <1>9, WriteRegisterIs
<1>15. s = St(hart, t, q, Done(n, "ok"), x)
  BY <1>3, <1>12, <1>14
<1>16. Holds(hart, q) /\ q["misa"] = hart.r["misa"] /\ q["vlenb"] = hart.r["vlenb"]
  BY <1>14 DEF Left
<1>17. LeavesFor(hart, q, c)
  BY <1>11, <1>14, LeavesWrite
<1>18. TransfersFor(hart, reg_tmp, q, c, "OK")
  <2>1. n \in {"vl", "vtype"} => Named(n) \in {"vl", "vtype"}
    BY DEF Named
  <2>2. Named(n) # "none" /\ Reaches(hart, hart.r, Named(n)) /\ (Named(n) \in {"vl", "vtype"} => hart.progbuf)
           => q[Named(n)] = Becomes(hart, hart.r, n, v)
    BY <1>14, <2>1, NamedVectors
  <2>3. n = "priv" => Named(n) = "dcsr"
    BY DEF Named
  <2>4. Named(n) = "vlenb" <=> n = "vlenb"
    BY DEF Named
  <2>5. AnswersWrite(hart, q, c)
    BY <1>4, <1>11, <2>2, <2>3, <2>4 DEF AnswersWrite, Becomes
  <2> QED
    BY <1>11, <2>5 DEF TransfersFor
<1> QED
  BY <1>1, <1>13, <1>15, <1>16, <1>17, <1>18, AnsweredIs

\* What a step of a connected server starts from.
LEMMA StartIs ==
    ASSUME RegistersKept, NEW t, t = KnownOf(hart, hart.r)
    PROVE  /\ Debuggable(hart) /\ t.mxl = hart.xlen /\ Ready(hart, t)
           /\ Holds(hart, hart.r) /\ hart.xlen \in {32, 64}
           /\ connected => target = t /\ Now = St(hart, t, hart.r, "ok", reg_tmp)
<1>1. Debuggable(hart) /\ t.mxl = hart.xlen /\ (connected => target = t)
  BY KnownIs DEF RegistersKept
<1>2. Holds(hart, hart.r) /\ Ready(hart, t) /\ hart.xlen \in {32, 64}
  BY <1>1, WithItself DEF Ready, Debuggable
<1>3. connected => Now = St(hart, t, hart.r, "ok", reg_tmp)
  BY <1>1, AccessIs DEF Now
<1> QED
  BY <1>1, <1>2, <1>3

\* g.
LEMMA CommandReadAll ==
    ASSUME RegistersKept, connected, gdb_server_cmd_g
    PROVE  RegistersKept' /\ LeavesAlone /\ Transfers
<1>1. PICK t : t = KnownOf(hart, hart.r)
  OBVIOUS
<1>2. /\ Debuggable(hart) /\ t.mxl = hart.xlen /\ Ready(hart, t) /\ Holds(hart, hart.r)
      /\ target = t /\ Now = St(hart, t, hart.r, "ok", reg_tmp)
  BY <1>1, StartIs
<1>3. PICK s : s = rv_target_read_core_registers(Now)
  OBVIOUS
<1>4. PICK l : /\ rv_target_read_core_registers(St(hart, t, hart.r, "ok", reg_tmp)) = St(hart, t, hart.r, "ok", l)
               /\ Lists(l, hart.r, 4)
  BY <1>2, ReadCoreIs
<1>5. s = St(hart, t, hart.r, "ok", l) /\ s.out = l /\ s.mxl = hart.xlen
  BY <1>2, <1>3, <1>4, StIs
<1>6. PICK c : c = [NoCall EXCEPT !.op = "g"]
  OBVIOUS
<1>7. c.op = "g"
  BY <1>6 DEF NoCall
<1>8. AnswerBy(s, c, Hex(l, hart.xlen))
  BY <1>3, <1>5, <1>6 DEF gdb_server_cmd_g, Answer
<1>9. l = [i \in DOMAIN CoreRegisters |-> Shown(hart.r, CoreRegisters[i])]
  <2>1. DOMAIN CoreRegisters = 1 .. 4 /\ \A i \in 1 .. 4 : CoreRegisters[i] # "priv"
    BY CoreIs
  <2>2. \A i \in 1 .. 4 : l[i] = Shown(hart.r, CoreRegisters[i])
    BY <1>4, <2>1 DEF Lists, Shown
  <2> QED
    BY <1>4, <2>1, <2>2 DEF Lists
<1>10. TransfersFor(hart, reg_tmp, hart.r, c, Hex(l, hart.xlen))
  BY <1>7, <1>9 DEF TransfersFor
<1>11. LeavesFor(hart, hart.r, c)
  BY LeavesSame
<1> QED
  BY <1>1, <1>2, <1>5, <1>8, <1>10, <1>11, AnsweredIs

\* G.
LEMMA CommandWriteAll ==
    ASSUME RegistersKept, connected, gdb_server_cmd_G(<< 5, 6, 7, 8 >>)
    PROVE  RegistersKept' /\ LeavesAlone /\ Transfers
<1>1. PICK t : t = KnownOf(hart, hart.r)
  OBVIOUS
<1>2. /\ Debuggable(hart) /\ t.mxl = hart.xlen /\ Ready(hart, t) /\ Holds(hart, hart.r)
      /\ target = t /\ Now = St(hart, t, hart.r, "ok", reg_tmp) /\ hart.xlen \in {32, 64}
  BY <1>1, StartIs
<1>3. PICK values : values = << 5, 6, 7, 8 >>
  OBVIOUS
<1>4. IsList(values, 4) /\ \A i \in 1 .. 4 : values[i] \in 5 .. 8
  BY <1>3 DEF IsList
<1>5. 5 .. 8 \subseteq Word(hart.xlen) /\ 5 .. 8 \subseteq Nat
  <2>1. Most(hart.xlen) \in Nat /\ Most(hart.xlen) >= 8
    BY SMT DEF Most
  <2> QED
    BY <2>1, SMT DEF Word
<1>6. Words(Hex(values, hart.xlen), hart.xlen) = values
  BY <1>2, <1>4, <1>5, RoundTrip
<1>7. PICK s : s = rv_target_write_core_registers(Now, values)
  OBVIOUS
<1>8. PICK c : c = [NoCall EXCEPT !.op = "G", !.data = values]
  OBVIOUS
<1>9. c.op = "G" /\ c.data = values /\ c.reg = "none"
  BY <1>8 DEF NoCall
<1>10. gdb_server_cmd_G(values)
  BY <1>3
<1>11. AnswerBy(s, c, "OK")
  BY <1>2, <1>6, <1>7, <1>8, <1>10 DEF gdb_server_cmd_G, Answer
<1>12. \A i \in 1 .. 4 : values[i] \in Nat
  BY <1>4, <1>5
<1>13. PICK q, x : /\ rv_target_write_core_registers(St(hart, t, hart.r, "ok", reg_tmp), values) = St(hart, t, q, "ok", x)
                   /\ Holds(hart, q)
                   /\ \A m \in Registers : m \notin Gprs \union {"dpc"} => q[m] = hart.r[m]
                   /\ \A i \in 1 .. 4 : q[Named(CoreRegisters[i])] = values[i]
  BY <1>2, <1>12, WriteCoreIs
<1>14. s = St(hart, t, q, "ok", x)
  BY <1>2, <1>7, <1>13
<1>15. q["misa"] = hart.r["misa"] /\ q["vlenb"] = hart.r["vlenb"] /\ q["mstatus"] = hart.r["mstatus"]
  BY <1>13 DEF Gprs, Registers, Csrs, VectorCsrs
<1>16. LeavesFor(hart, q, c)
  <2>1. About(c) = Gprs \union {"dpc"}
    BY <1>9 DEF About
  <2> QED
    BY <1>13, <1>15, <2>1 DEF LeavesFor
<1>17. TransfersFor(hart, reg_tmp, q, c, "OK")
  BY <1>9, <1>13, CoreIs DEF TransfersFor
<1> QED
  BY <1>1, <1>11, <1>13, <1>14, <1>15, <1>16, <1>17, AnsweredIs

\* A connection is about dcsr.
LEMMA LeavesConnect ==
    ASSUME NEW h, NEW q, Connects(h, h.r, q), NEW c, c.op = "connect"
    PROVE  LeavesFor(h, q, c)
<1>1. About(c) = {"dcsr"}
  BY DEF About
<1>2. h.xlen = 32 => "fp" \in NotKeptOf(h, c)
  BY DEF NotKeptOf
<1> QED
  BY <1>1, <1>2 DEF LeavesFor, Connects

\* A connection, or a halt of a halted hart.
LEMMA ConnectedIs ==
    ASSUME RegistersKept, NEW u, NEW s, s = rv_target_init_after_halted(St(hart, u, hart.r, "ok", reg_tmp)),
           NEW c, c.op = "connect", NEW y, Answer(s, c, y)
    PROVE  RegistersKept' /\ LeavesAlone /\ Transfers
<1>1. Debuggable(hart) /\ Holds(hart, hart.r)
  BY WithItself DEF RegistersKept
<1>2. PICK q, x : /\ rv_target_init_after_halted(St(hart, u, hart.r, "ok", reg_tmp)) = St(hart, KnownOf(hart, hart.r), q, "ok", x)
                  /\ Connects(hart, hart.r, q)
  BY <1>1, ConnectIs
<1>3. Holds(hart, q) /\ q["misa"] = hart.r["misa"] /\ q["vlenb"] = hart.r["vlenb"]
  BY <1>2 DEF Connects, Registers, Csrs, VectorCsrs
<1>4. s = St(hart, KnownOf(hart, hart.r), q, "ok", x)
  BY <1>2
<1>6. AnswerBy(s, c, y)
  BY DEF Answer
<1>5. LeavesFor(hart, q, c) /\ TransfersFor(hart, reg_tmp, q, c, y)
  BY <1>2, LeavesConnect, TransfersOther
<1> QED
  BY <1>3, <1>4, <1>5, <1>6, AnsweredIs

\* +:set:protocol.
LEMMA CommandConnect ==
    ASSUME RegistersKept, NEW protocol, gdb_server_cmd_custom_set(protocol)
    PROVE  RegistersKept' /\ LeavesAlone /\ Transfers
<1>1. Now = St(hart, target, hart.r, "ok", reg_tmp)
  BY AccessIs DEF Now, RegistersKept
<1>2. gdb_server_connected(Now) = rv_target_init_after_halted(St(hart, Knows(0, 0, 0), hart.r, "ok", reg_tmp))
  BY <1>1, InitIs DEF gdb_server_connected
<1>3. PICK c : c = [NoCall EXCEPT !.op = "connect"]
  OBVIOUS
<1>4. c.op = "connect"
  BY <1>3 DEF NoCall
<1>5. PICK s : s = gdb_server_connected(Now)
  OBVIOUS
<1>6. PICK y : y = IF protocol = "other" THEN reply ELSE <<"-:set:protocol", protocol>>
  OBVIOUS
<1>7. Answer(s, c, y)
  BY <1>3, <1>5, <1>6 DEF gdb_server_cmd_custom_set
<1> QED
  BY <1>2, <1>4, <1>5, <1>7, ConnectedIs

\* qRcmd.
LEMMA CommandMonitor ==
    ASSUME RegistersKept, connected, NEW command, gdb_server_cmd_qRcmd(command)
    PROVE  RegistersKept' /\ LeavesAlone /\ Transfers
<1>1. PICK t : t = KnownOf(hart, hart.r)
  OBVIOUS
<1>2. Holds(hart, hart.r) /\ target = t /\ Now = St(hart, t, hart.r, "ok", reg_tmp)
  BY <1>1, StartIs
<1>3. CASE command = "halt"
  <2>1. PICK c : c = [NoCall EXCEPT !.op = "connect"]
    OBVIOUS
  <2>2. c.op = "connect"
    BY <2>1 DEF NoCall
  <2>3. PICK s : s = rv_target_init_after_halted(Now)
    OBVIOUS
  <2>4. Answer(s, c, "OK")
    BY <1>3, <2>1, <2>3 DEF gdb_server_cmd_qRcmd
  <2>5. s = rv_target_init_after_halted(St(hart, t, hart.r, "ok", reg_tmp))
    BY <1>2, <2>3
  <2> QED
    BY <2>2, <2>4, <2>5, ConnectedIs
<1>4. CASE command # "halt"
  <2>1. PICK y : y = ":( unsupported monitor command!"
    OBVIOUS
  <2>2. AnswerBy(Now, NoCall, y)
    BY <1>4, <2>1 DEF gdb_server_cmd_qRcmd, Answer
  <2>3. LeavesFor(hart, hart.r, NoCall)
    BY LeavesSame
  <2>4. NoCall.op = "none"
    BY DEF NoCall
  <2>5. TransfersFor(hart, reg_tmp, hart.r, NoCall, y)
    BY <2>4, TransfersOther
  <2> QED
    BY <1>1, <1>2, <2>2, <2>3, <2>5, AnsweredIs
<1> QED
  BY <1>3, <1>4

\* +:read.
LEMMA CommandQuery ==
    ASSUME RegistersKept, connected, NEW field \in {"misa", "vlenb", "version"}, gdb_server_cmd_custom_read(field)
    PROVE  RegistersKept' /\ LeavesAlone /\ Transfers
<1>1. PICK t : t = KnownOf(hart, hart.r)
  OBVIOUS
<1>2. Holds(hart, hart.r) /\ target = t /\ Now = St(hart, t, hart.r, "ok", reg_tmp)
  BY <1>1, StartIs
<1>3. PICK c : c = [NoCall EXCEPT !.op = "read", !.reg = field]
  OBVIOUS
<1>4. c.op = "read" /\ c.reg = field /\ Named(field) = field
  BY <1>3 DEF NoCall, Named
<1>5. PICK y : y = IF field = "version" THEN DLINK_FIRMWARE_VERSION ELSE t[field]
  OBVIOUS
<1>6. AnswerBy(Now, c, y)
  BY <1>2, <1>3, <1>5 DEF gdb_server_cmd_custom_read, Answer
<1>7. /\ t["misa"] = Letters(hart.r.misa) + 64 * (hart.xlen \div 32)
      /\ t["vlenb"] = IF "v" \in hart.ext THEN hart.r["vlenb"] ELSE NoVlenb
  BY <1>1, KnownIs, PackedIs DEF RegistersKept
<1>8. AnswersQuery(hart, c, y)
  BY <1>4, <1>5, <1>7 DEF AnswersQuery
<1>9. TransfersFor(hart, reg_tmp, hart.r, c, y)
  BY <1>4, <1>8 DEF TransfersFor
<1>10. LeavesFor(hart, hart.r, c)
  BY LeavesSame
<1> QED
  BY <1>1, <1>2, <1>6, <1>9, <1>10, AnsweredIs

\* The memory commands leave hart and target alone.
LEMMA CommandMemory ==
    ASSUME RegistersKept, connected, Served, UNCHANGED <<hart, target>>, call'.op \in {"m", "x", "M", "X"}
    PROVE  RegistersKept' /\ LeavesAlone /\ Transfers
<1>1. RegistersKept'
  BY DEF RegistersKept, Served
<1>2. hart'.r = hart.r
  OBVIOUS
<1>3. LeavesFor(hart, hart.r, call') /\ TransfersFor(hart, reg_tmp, hart.r, call', reply')
  BY LeavesSame, TransfersOther
<1> QED
  BY <1>1, <1>2, <1>3, LeavesAloneIs, TransfersAre

\* m, x, M and X.
LEMMA MemoryCommands ==
    ASSUME RegistersKept, NEW addr, NEW len, NEW data,
           \/ gdb_server_cmd_m(addr, len) \/ gdb_server_cmd_x(addr, len)
           \/ gdb_server_cmd_M(addr, data) \/ gdb_server_cmd_X(addr, data)
    PROVE  RegistersKept' /\ LeavesAlone /\ Transfers
<1>1. Served /\ connected /\ UNCHANGED <<hart, target>>
  BY DEF gdb_server_cmd_m, gdb_server_cmd_x, gdb_server_cmd_M, gdb_server_cmd_X, OnlyMemory, Served
<1>2. PICK op \in {"m", "x", "M", "X"} : \E l, d : MemoryCall(op, addr, l, d)
  BY DEF gdb_server_cmd_m, gdb_server_cmd_x, gdb_server_cmd_M, gdb_server_cmd_X
<1>3. call'.op = op
  BY <1>2 DEF MemoryCall, NoCall
<1> QED
  BY <1>1, <1>3, CommandMemory

\* The invariant holds at first, and every step keeps it.
LEMMA RegistersInit == Init => RegistersKept
<1> SUFFICES ASSUME Init
             PROVE  RegistersKept
  OBVIOUS
<1>1. topic \in Topics /\ hart \in Harts(topic) /\ ~connected
  BY DEF Init
<1>2. Debuggable(hart)
  BY <1>1, HartAssumption
<1> QED
  BY <1>1, <1>2 DEF RegistersKept

LEMMA RegistersStep == RegistersKept /\ [Next]_vars => RegistersKept' /\ [LeavesAlone]_vars /\ [Transfers]_vars
<1> SUFFICES ASSUME RegistersKept, [Next]_vars
             PROVE  RegistersKept' /\ [LeavesAlone]_vars /\ [Transfers]_vars
  OBVIOUS
<1>1. CASE UNCHANGED vars
  BY <1>1 DEF vars, RegistersKept
<1>2. ASSUME NEW protocol, gdb_server_cmd_custom_set(protocol)
      PROVE  RegistersKept' /\ LeavesAlone /\ Transfers
  BY <1>2, CommandConnect
<1>3. CASE OnRegisters
  <2>1. ASSUME NEW field \in {"misa", "vlenb", "version"}, gdb_server_cmd_custom_read(field)
        PROVE  RegistersKept' /\ LeavesAlone /\ Transfers
    <3>1. connected
      BY <2>1 DEF gdb_server_cmd_custom_read, Served
    <3> QED
      BY <2>1, <3>1, CommandQuery
  <2>2. ASSUME NEW command, gdb_server_cmd_qRcmd(command)
        PROVE  RegistersKept' /\ LeavesAlone /\ Transfers
    <3>1. connected
      BY <2>2 DEF gdb_server_cmd_qRcmd, Served
    <3> QED
      BY <2>2, <3>1, CommandMonitor
  <2>3. ASSUME NEW n \in Numbered, gdb_server_cmd_p(n)
        PROVE  RegistersKept' /\ LeavesAlone /\ Transfers
    <3>1. connected
      BY <2>3 DEF gdb_server_cmd_p, Served
    <3> QED
      BY <2>3, <3>1, CommandRead
  <2>4. ASSUME NEW n \in Numbered, NEW v \in ValuesFor(n), InRegister(n, v), gdb_server_cmd_P(n, v)
        PROVE  RegistersKept' /\ LeavesAlone /\ Transfers
    <3>1. connected
      BY <2>4 DEF gdb_server_cmd_P, Served
    <3> QED
      BY <2>4, <3>1, CommandWrite
  <2>5. CASE gdb_server_cmd_g
    <3>1. connected
      BY <2>5 DEF gdb_server_cmd_g, Served
    <3> QED
      BY <2>5, <3>1, CommandReadAll
  <2>6. CASE gdb_server_cmd_G(<< 5, 6, 7, 8 >>)
    <3>1. connected
      BY <2>6 DEF gdb_server_cmd_G, Served
    <3> QED
      BY <2>6, <3>1, CommandWriteAll
  <2> QED
    BY <1>2, <1>3, <2>1, <2>2, <2>3, <2>4, <2>5, <2>6, Zenon DEF OnRegisters
<1>4. CASE OnMemory
  <2>1. PICK addr : \E len, d : \/ gdb_server_cmd_m(addr, len) \/ gdb_server_cmd_x(addr, len)
                               \/ gdb_server_cmd_M(addr, d) \/ gdb_server_cmd_X(addr, d)
    BY <1>4, Zenon DEF OnMemory
  <2> QED
    BY <2>1, MemoryCommands
<1>5. CASE Rest
  BY <1>1, <1>5 DEF Rest
<1> QED
  BY <1>1, <1>2, <1>3, <1>4, <1>5 DEF Next

\* A hart stays one that can be debugged, whatever failed on it, and the server
\* of a connection knows the misa and vlenb it has.
THEOREM RegisterInvariant == Spec => []RegistersKept
<1>1. Init => RegistersKept
  BY RegistersInit
<1>2. RegistersKept /\ [Next]_vars => RegistersKept'
  BY RegistersStep
<1> QED
  BY <1>1, <1>2, PTL DEF Spec

\* A command on registers or memory leaves every register alone but those it is
\* about, and of mstatus what the extension behind them needs.
THEOREM RegistersUndisturbed == Spec => Undisturbed
<1>1. RegistersKept /\ [Next]_vars => [LeavesAlone]_vars
  BY RegistersStep
<1> QED
  BY <1>1, RegisterInvariant, PTL DEF Spec, Undisturbed

\* What p, g and +:read send is what the registers hold, but for the upper half of
\* priv and dcsr on a 64-bit hart, which is what the p or P before left; what P
\* and G write is what the registers come to hold.
THEOREM TransfersAreRight == Spec => TransfersRight
<1>1. RegistersKept /\ [Next]_vars => [Transfers]_vars
  BY RegistersStep
<1> QED
  BY <1>1, RegisterInvariant, PTL DEF Spec, TransfersRight
===============================================================================
