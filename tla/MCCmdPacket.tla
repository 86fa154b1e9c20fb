---------------------------- MODULE MCCmdPacket -----------------------------
(* CmdPacket for TLC: payloads of up to three bytes that may hold "$" and    *)
(* "+", packets of up to three, and a buffer with no byte to spare.          *)
EXTENDS CmdPacket

SomeText == {"a", "$", "+"}
=============================================================================
