-------------------------------- MODULE Hart --------------------------------
(***************************************************************************)
(* A halted hart behind its debug module, as riscv-target.c relies on it:  *)
(* abstract register commands, and programs run from the program buffer.   *)
(* External.  A hart h is a record: xlen; ext, the extensions it has;      *)
(* abstract, the classes of registers its abstract commands reach;         *)
(* progbuf, whether it has a program buffer; r, its registers.             *)
(***************************************************************************)
EXTENDS Integers, Sequences, FiniteSetsExt

Gprs       == {"fp", "s1", "a0"}
Fprs       == {"ft0", "ft1"}
Vectors    == {"v0", "v1"}
VectorCsrs == {"vstart", "vl", "vtype", "vlenb"}
Csrs       == {"misa", "mstatus", "dcsr", "dpc", "fcsr", "mscratch"} \union VectorCsrs
\* Of misa's, those the code looks for or a register needs.
Extensions == {"f", "v"}
Registers  == Gprs \union Fprs \union Vectors \union Csrs

\* A register has a quarter of its bits: a word of 32 bits is below 256, one of 64
\* has another such half above it.
Lower(v) == v % 256
Upper(v) == v - Lower(v)

\* mstatus: FS and VS (off or on), and the rest.  dcsr: prv, and the rest.
\* misa: the letters of its extensions, and MXL at its top.
Fs(m)  == (m \div 2) % 2
Vs(m)  == m % 2
Prv(d) == d % 4
Letters(m)   == m % 64
Mxl(m, xlen) == IF xlen = 32 THEN m \div 64 ELSE m \div 16384

\* A vector register has Elements elements of xlen bits.  vtype: elements of
\* xlen bits, of half of that, or no legal type.
Elements == 2
Xlen == 1
Half == 2
Vill == 3
VlMax(vtype) == IF vtype = Xlen THEN Elements ELSE IF vtype = Half THEN 2 * Elements ELSE 0

\* What is kept of v written to n.
Kept(h, n, v) ==
    CASE n = "mstatus" -> (v - (v % 4)) + 2 * (IF "f" \in h.ext THEN Fs(v) ELSE 0)
                                        + (IF "v" \in h.ext THEN Vs(v) ELSE 0)
      [] n = "dcsr"  -> Lower(v)
      [] n = "misa"  -> h.r.misa
      [] n = "vtype" -> IF v \in {Xlen, Half} THEN v ELSE Vill
      [] n = "vl"    -> Min({v, VlMax(h.r.vtype)})
      [] OTHER       -> v

\* What registers r of a hart h can hold.
Holds(h, r) ==
    /\ r = [n \in Registers |-> r[n]]
    /\ r.mstatus \in Nat /\ Kept(h, "mstatus", r.mstatus) = r.mstatus
    /\ r.dcsr \in Nat /\ Kept(h, "dcsr", r.dcsr) = r.dcsr
    /\ r.vtype \in {Xlen, Half, Vill} /\ r.vl \in 0 .. VlMax(r.vtype)
    /\ \A n \in Vectors : r[n] = [e \in 1 .. Elements |-> r[n][e]]

\* The extension that has n is there and switched on.
Enabled(h, n) ==
    /\ n \in Fprs \union {"fcsr"} => "f" \in h.ext /\ Fs(h.r.mstatus) = 1
    /\ n \in Vectors \union VectorCsrs => "v" \in h.ext /\ Vs(h.r.mstatus) = 1

Classes  == {"gpr", "fpr", "csr"}
ReadOnly == {"vl", "vtype", "vlenb"}
ClassOf(n) == IF n \in Gprs THEN "gpr" ELSE IF n \in Fprs THEN "fpr" ELSE "csr"

\* dcsr has 32 bits on every hart.
WidthOf(h, n) == IF n = "dcsr" THEN 32 ELSE h.xlen

AbstractReads(h, n, size)  == ClassOf(n) \in h.abstract /\ size = WidthOf(h, n) /\ Enabled(h, n)
AbstractWrites(h, n, size) == AbstractReads(h, n, size) /\ n \notin ReadOnly

\* A hart that can be debugged: its abstract commands reach the GPRs, and its CSRs
\* they or programs do.
Debuggable(h) ==
    /\ h = [xlen |-> h.xlen, ext |-> h.ext, abstract |-> h.abstract, progbuf |-> h.progbuf, r |-> h.r]
    /\ h.xlen \in {32, 64} /\ h.ext \subseteq Extensions /\ h.abstract \subseteq Classes
    /\ h.progbuf \in BOOLEAN
    /\ "gpr" \in h.abstract /\ (h.progbuf \/ "csr" \in h.abstract)
    /\ Holds(h, h.r) /\ h.r.misa \in Nat /\ Mxl(h.r.misa, h.xlen) = h.xlen \div 32

-----------------------------------------------------------------------------
\* Instructions: what they do to the registers, and when they are legal.
Csrr(rd, csr)       == [op |-> "csrr", rd |-> rd, rs |-> csr]
Csrw(csr, rs)       == [op |-> "csrw", rd |-> csr, rs |-> rs]
Fmv(rd, rs)         == [op |-> "fmv", rd |-> rd, rs |-> rs]
Vsetvl(avl, vtype)  == [op |-> "vsetvl", rd |-> avl, rs |-> vtype]
VmvXS(rd, v)        == [op |-> "vmv.x.s", rd |-> rd, rs |-> v]
Vslide1down(v, rs)  == [op |-> "vslide1down", rd |-> v, rs |-> rs]

Legal(h, i) ==
    CASE i.op = "csrr"   -> Enabled(h, i.rs)
      [] i.op = "csrw"   -> Enabled(h, i.rd) /\ i.rd \notin ReadOnly
      [] i.op = "fmv"    -> Enabled(h, "fcsr")
      [] i.op = "vsetvl" -> Enabled(h, "vl")
      [] OTHER           -> Enabled(h, "vl") /\ h.r.vtype # Vill

Slid(h, i) == [e \in 1 .. Elements |->
    IF h.r.vtype # Xlen \/ e > h.r.vl THEN h.r[i.rd][e]
    ELSE IF e = h.r.vl THEN h.r[i.rs] ELSE h.r[i.rd][e + 1]]

Effect(h, i) ==
    CASE i.op \in {"csrr", "fmv"} -> [h.r EXCEPT ![i.rd] = h.r[i.rs]]
      [] i.op = "csrw"    -> [h.r EXCEPT ![i.rd] = Kept(h, i.rd, h.r[i.rs])]
      [] i.op = "vsetvl"  -> LET t == Kept(h, "vtype", h.r[i.rs])
                             IN  [h.r EXCEPT !.vtype = t, !.vstart = 0,
                                             !.vl = Min({h.r[i.rd], VlMax(t)})]
      [] i.op = "vmv.x.s" -> [h.r EXCEPT ![i.rd] = h.r[i.rs][1], !.vstart = 0]
      [] OTHER            -> [h.r EXCEPT ![i.rd] = Slid(h, i), !.vstart = 0]

\* A program ends at its ebreak or at the first exception.
Begun(h) == [h |-> h, ok |-> TRUE]

Step(run, i) == IF run.ok /\ Legal(run.h, i) THEN Begun([run.h EXCEPT !.r = Effect(run.h, i)])
                ELSE [run EXCEPT !.ok = FALSE]

Run(h, program) ==
    LET after[i \in 0 .. Len(program)] ==
          IF i = 0 THEN Begun(h) ELSE Step(after[i - 1], program[i])
    IN  IF h.progbuf THEN after[Len(program)] ELSE [h |-> h, ok |-> FALSE]
=============================================================================
