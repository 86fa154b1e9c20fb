--------------------------- MODULE MCGdbTransport ---------------------------
(* GdbTransport for TLC.  Two commands that read or write the target are    *)
(* enough to tell an answer from another; three messages on the wire let    *)
(* \x03s and unanswered commands run ahead of a command; two packets make a *)
(* message longer than one packet.                                          *)
EXTENDS GdbTransport

CONSTANTS readRegs, insertBp
TwoAsks == {readRegs, insertBp}
=============================================================================
