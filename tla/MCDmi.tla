-------------------------------- MODULE MCDmi --------------------------------
(* Dmi for TLC: targets of every kind, and none.  A latency of 3 is beyond   *)
(* the two idle cycles promised but met by the tick that leaves the state,   *)
(* 5 is not; 120 outlives the retries and reaches into the next access.      *)
EXTENDS Dmi

AllTargets == {Fresh("none", 4), Fresh("long", 4), Fresh("long", 2),
               Fresh("short", 4), Fresh("short", 2), Fresh("absent", 4)}
SomeLatencies == {2, 5, 120}
=============================================================================
