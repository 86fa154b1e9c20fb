--------------------------- MODULE MCBreakpoints ----------------------------
(* Breakpoints for TLC: four halfwords, the second of them not writable, so   *)
(* that breakpoints of both kinds touch, overlap, and fail to be written from *)
(* their first or from their second halfword on.                              *)
EXTENDS Breakpoints

AllButSecond == {0, 2, 3}
MatchAll == [t \in Triggers |-> Accesses]
MatchExecute == [t \in Triggers |-> {"execute"}]
=============================================================================
