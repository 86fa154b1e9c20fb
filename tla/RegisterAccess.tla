--------------------------- MODULE RegisterAccess ---------------------------
(***************************************************************************)
(* Reading and writing the registers of a halted hart: riscv-target.c's    *)
(* rv_target_read_register and rv_target_write_register with all they call.*)
(* An operator takes and returns an access s: the hart h, what target      *)
(* knows of it, err_flag, and out, the buffer a value read is left in.     *)
(***************************************************************************)
EXTENDS Hart

\* What data0 happens to hold.
Junk == -1

\* target: mxl (the width target.misa has), misa and vlenb.
Unknown == [mxl |-> 0, misa |-> 0, vlenb |-> 0]
Target(s) == [mxl |-> s.mxl, misa |-> s.misa, vlenb |-> s.vlenb]

Access(h, t, out) == [h |-> h, mxl |-> t.mxl, misa |-> t.misa, vlenb |-> t.vlenb,
                      err |-> FALSE, out |-> out]

SizeFor(s, n) == IF n = "dcsr" THEN 32 ELSE s.mxl

\* 32 bits stored for a 64-bit hart leave the upper half of the buffer as it was.
LowerOver(out, v) == Upper(out) + Lower(v)
Into(s, size, v) == IF size = s.mxl THEN v ELSE LowerOver(s.out, v)

\* A buffer that has 32 bits has no other half.
Narrow(s) == [s EXCEPT !.out = 0]

rv_register_read(s, n) ==
    IF AbstractReads(s.h, n, SizeFor(s, n))
    THEN [s EXCEPT !.out = Into(s, SizeFor(s, n), s.h.r[n]), !.err = FALSE]
    ELSE [s EXCEPT !.out = Into(s, SizeFor(s, n), Junk), !.err = TRUE]

\* Of v as many bits as n has: what dcsr keeps of it.
rv_register_write(s, n, v) ==
    IF AbstractWrites(s.h, n, SizeFor(s, n))
    THEN [s EXCEPT !.h.r[n] = Kept(s.h, n, v), !.err = FALSE]
    ELSE [s EXCEPT !.err = TRUE]

Ran(s, run) == [s EXCEPT !.h = run.h, !.err = @ \/ ~run.ok]
rv_program_exec(s, program) == Ran(s, Run(s.h, program))

-----------------------------------------------------------------------------
\* Through the program buffer.  fp carries the value, and gets back what it
\* held.
Borrowed(s, n) == rv_register_read(s, n).out

FpBack(s, saved) == rv_register_write(s, "fp", saved)

\* rv_register_read_buf of a CSR or an FPR.
ReadScalar(s, n) ==
    LET carry == IF n \in Fprs THEN Fmv("fp", n) ELSE Csrr("fp", n)
        read  == rv_register_read(rv_program_exec(s, <<carry>>), "fp")
    IN  FpBack(read, Borrowed(s, "fp"))

\* rv_register_write_buf of vl or vtype: by vsetvl, with the other of the two
\* in s1.
WriteVector(s, n, v) ==
    LET program == IF n = "vl" THEN <<Csrr("s1", "vtype"), Vsetvl("fp", "s1")>>
                   ELSE <<Csrr("s1", "vl"), Vsetvl("s1", "fp")>>
        done    == rv_program_exec(rv_register_write(s, "fp", v), program)
    IN  FpBack(rv_register_write(done, "s1", Borrowed(s, "s1")), Borrowed(s, "fp"))

\* rv_register_write_buf of an FPR or any other CSR.
WriteScalar(s, n, v) ==
    IF n \in {"vl", "vtype"} THEN WriteVector(s, n, v)
    ELSE LET carry == IF n \in Fprs THEN Fmv(n, "fp") ELSE Csrw(n, "fp")
         IN  FpBack(rv_program_exec(rv_register_write(s, "fp", v), <<carry>>), Borrowed(s, "fp"))

\* Mutant: vtype and vl stay the program's.
AsConfigured(s) == s

\* debug_vl elements of xlen bits, whatever vtype and vl say.
WholeRegister(s) == WriteVector(WriteVector(s, "vtype", Xlen), "vl", Elements)

\* rv_register_read_buf of a vector register: its elements come round to where
\* they were.
Listed(s) == [s EXCEPT !.out = Append(@, Borrowed(s, "fp"))]

ReadElements(s, n) ==
    LET after[i \in 0 .. Elements] ==
          IF i = 0 THEN [WholeRegister(s) EXCEPT !.out = <<>>]
          ELSE Listed(rv_program_exec(after[i - 1], <<VmvXS("fp", n), Vslide1down(n, "fp")>>))
    IN  FpBack(after[Elements], Borrowed(s, "fp"))

\* rv_register_write_buf of a vector register.
WriteElements(s, n, v) ==
    LET after[i \in 0 .. Elements] ==
          IF i = 0 THEN WholeRegister(s)
          ELSE rv_program_exec(rv_register_write(after[i - 1], "fp", v[i]), <<Vslide1down(n, "fp")>>)
    IN  FpBack(after[Elements], Borrowed(s, "fp"))

\* Mutant: vl first, when vtype may not allow it yet.
VlThenVtype(s, vtype, vl) == WriteVector(WriteVector(s, "vl", vl), "vtype", vtype)

\* rv_cleanup_for_vector_access.
rv_cleanup_for_vector_access(s, vtype, vl) == WriteVector(WriteVector(s, "vtype", vtype), "vl", vl)

\* What was done between rv_prep_for_vector_access, which saves vtype and vl,
\* and that.
WithVector(s, done) ==
    rv_cleanup_for_vector_access(done, ReadScalar(s, "vtype").out, ReadScalar(s, "vl").out)

-----------------------------------------------------------------------------
\* A CSR or an FPR: by an abstract command, or else by the program buffer.
OrRead(a, n) == IF a.err THEN ReadScalar(a, n) ELSE a
ReadEither(s, n) == OrRead(rv_register_read(s, n), n)

OrWrite(a, n, v) == IF a.err THEN WriteScalar(a, n, v) ELSE a
WriteEither(s, n, v) == OrWrite(rv_register_write(s, n, v), n, v)

\* The extension behind n has to be on.
FsOf(n) == n \in Fprs
VsOf(n) == n \in Vectors \union VectorCsrs

Switched(m, n, on) == (m - (m % 4)) + 2 * (IF FsOf(n) THEN on ELSE Fs(m))
                                    + (IF VsOf(n) THEN on ELSE Vs(m))

WriteMstatus(s, n, on, out) ==
    [WriteEither(s, "mstatus", Switched(s.out, n, on)) EXCEPT !.out = out]

\* rv_prep_ and rv_cleanup_for_register_access: FS or VS is switched on, and
\* off again whatever it was.
Switch(s, n, on) == IF FsOf(n) \/ VsOf(n)
                    THEN WriteMstatus(ReadEither(s, "mstatus"), n, on, s.out) ELSE s

\* The registers the host has numbers for, and a number that is none's.
Numbered == Registers \union {"pc", "priv", "none"}

\* The code's own dcsr.
ReadDcsr(s) == ReadEither(Narrow(s), "dcsr")

\* pc stands for dpc, priv for a field of dcsr.
Named(n) == IF n = "pc" THEN "dpc" ELSE IF n = "priv" THEN "dcsr" ELSE n

ReadPrepared(s, n) ==
    CASE n \in Gprs    -> rv_register_read(s, n)
      [] n \in Vectors -> WithVector(s, ReadElements(s, n))
      [] n = "none"    -> [s EXCEPT !.out = Into(s, 32, Junk)]
      [] n = "priv"    -> [ReadDcsr(s) EXCEPT !.out = Into(s, 32, Prv(@))]
      [] OTHER -> ReadEither(s, Named(n))

rv_target_read_register(s, n) == Switch(ReadPrepared(Switch(s, n, 1), n), n, 0)

WritePriv(s, v) == WriteEither(s, "dcsr", (s.out - Prv(s.out)) + Prv(v))

WritePrepared(s, n, v) ==
    CASE n \in Gprs    -> rv_register_write(s, n, v)
      [] n \in Vectors -> WithVector(s, WriteElements(s, n, v))
      [] n = "none"    -> s
      [] n = "priv"    -> WritePriv(ReadDcsr(s), v)
      [] OTHER -> WriteEither(s, Named(n), v)

rv_target_write_register(s, n, v) == Switch(WritePrepared(Switch(s, n, 1), n, v), n, 0)

CoreRegisters == <<"fp", "s1", "a0", "pc">>

Gathered(s, values) == [s EXCEPT !.out = Append(values, @)]

rv_target_read_core_registers(s) ==
    LET after[i \in 0 .. Len(CoreRegisters)] ==
          IF i = 0 THEN [s EXCEPT !.out = <<>>]
          ELSE Gathered(rv_target_read_register(after[i - 1], CoreRegisters[i]), after[i - 1].out)
    IN  after[Len(CoreRegisters)]

rv_target_write_core_registers(s, v) ==
    LET after[i \in 0 .. Len(CoreRegisters)] ==
          IF i = 0 THEN s ELSE rv_target_write_register(after[i - 1], CoreRegisters[i], v[i])
    IN  after[Len(CoreRegisters)]

-----------------------------------------------------------------------------
\* rv_target_init_after_halted: the width is tried out, 64 bits first.  (Its
\* last part, which clears the triggers, is in Breakpoints.)
OrNarrow(s) == IF s.err THEN rv_target_read_register([s EXCEPT !.mxl = 32], "misa") ELSE s
\* Stands for 0xFFFFFFFF.
NoVlenb == -2
SeenVlenb(s) == [s EXCEPT !.vlenb = s.out]
SeesVlenb(s) == IF "v" \in s.h.ext THEN SeenVlenb(rv_target_read_register(s, "vlenb"))
                ELSE [s EXCEPT !.vlenb = NoVlenb]
SetsEbreak(s) == rv_target_write_register(s, "dcsr", 4 + Prv(s.out))
\* misa, of a 64-bit hart cut to 32 bits, with MXL at the top of those.
Packed(s) == IF s.mxl = 32 THEN s.out ELSE Letters(s.out) + 64 * Mxl(s.out, 64)
SeesMisa(s) == SeesVlenb([s EXCEPT !.misa = Packed(s)])
Known(s) == IF s.err THEN s ELSE SetsEbreak(rv_target_read_register(Narrow(SeesMisa(s)), "dcsr"))

\* rv_target_init, as far as registers go.
rv_target_init(s) == [s EXCEPT !.mxl = 0, !.misa = 0, !.vlenb = 0]

rv_target_init_after_halted(s) ==
    Known(OrNarrow(rv_target_read_register([s EXCEPT !.mxl = 64], "misa")))
=============================================================================
