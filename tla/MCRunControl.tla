---------------------------- MODULE MCRunControl -----------------------------
(* RunControl for TLC: two instructions and two watched addresses, so that   *)
(* breakpoints of every type meet, in two slots that are used again.         *)
EXTENDS RunControl

TwoCode == {1, 2}
TwoData == {3, 4}
AllTargets == TargetKinds
=============================================================================
