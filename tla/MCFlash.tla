------------------------------- MODULE MCFlash -------------------------------
(* Flash for TLC: eight bytes in pages of two and blocks of four.  Polls of   *)
(* 2 and 3 are the last try and one too many.                                 *)
EXTENDS Flash

SomeWrites   == {<<>>, <<0>>, <<0, 0>>, <<1, 0, 0>>, <<0, 1, 0, 0, 1>>}
SomeContents == {[c \in Cells |-> 1], [c \in Cells |-> (c \div 2) % 2]}
=============================================================================
