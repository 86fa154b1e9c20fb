-------------------------- MODULE MCWatchpointInst ---------------------------
(* WatchpointInst for TLC: every compressed access; of the full ones every   *)
(* base register and offsets that set each bit alone, with and without sign. *)
EXTENDS WatchpointInst

EachBit == {2 ^ k : k \in 0 .. 10}
SomeOffsets == {0, 2047} \cup EachBit \cup {-o : o \in EachBit} \cup {-2048}
AllBases == 0 .. 31
=============================================================================
