---------------------------- MODULE MCRspPacket -----------------------------
(* CdcAcm for TLC: replies of up to three bytes whose sum passes 255, and     *)
(* packets of four, so that frames end in the middle of a packet and at its  *)
(* end, in a buffer with no byte to spare; lines that fill the cache and     *)
(* shorter ones; rates of two and of three bytes; one reset of the bus.      *)
EXTENDS CdcAcm

SomeText == {3, 97, 221}
SomeCodings == {[bytes |-> <<128, 37, 0, 0, 2, 1, 7>>, rate |-> 9600],
                [bytes |-> <<0, 194, 1, 0, 0, 0, 8>>, rate |-> 115200]}
=============================================================================
