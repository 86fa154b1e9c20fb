---------------------------- MODULE FlashMemory ----------------------------
(***************************************************************************)
(* What the flash commands promise their host: between a command and its   *)
(* answer every byte goes from what it was to what the command makes it,   *)
(* or stays, and when the answer comes all have gone and the flash is      *)
(* mapped for reading again.  After a fault of the SPI controller only the *)
(* mapping is promised.                                                    *)
(***************************************************************************)
VARIABLES mem, want, open, mapped, fault

vars == <<mem, want, open, mapped, fault>>

Init == want = mem /\ open = FALSE /\ mapped = TRUE /\ fault = FALSE

Ask == ~open /\ open' /\ UNCHANGED <<mem, fault>>

Progress ==
    /\ open /\ open'
    /\ DOMAIN mem' = DOMAIN mem
    /\ \A c \in DOMAIN mem : mem'[c] \in {mem[c], want[c]}
    /\ UNCHANGED <<want, fault>>

Answer ==
    /\ open /\ ~open' /\ mapped'
    /\ fault' \/ mem = want
    /\ UNCHANGED mem

Fault == open /\ open' /\ fault' /\ UNCHANGED <<mem, want>>

AfterFault == fault /\ fault' /\ (open' \/ mapped')

\* A command that asks for nothing.
Nothing == ~open /\ ~open' /\ mapped' /\ UNCHANGED <<mem, fault>>

\* Another board.
Replace == ~open /\ ~open' /\ mapped' /\ ~fault'

Next == Ask \/ Nothing \/ Progress \/ Answer \/ Fault \/ AfterFault \/ Replace

Spec == Init /\ [][Next]_vars
=============================================================================
