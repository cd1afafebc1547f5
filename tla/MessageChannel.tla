--------------------------- MODULE MessageChannel ---------------------------
(* What a connection promises: messages arrive whole, once and in order,   *)
(* until it breaks.                                                        *)
EXTENDS Naturals

CONSTANTS Messages      \* how many are sent

VARIABLES
    sentCount,      \* how many were sent
    gotCount,       \* how many were received
    fails,          \* has there been a timeout or an error?
    broken          \* has either end given up?

vars == <<sentCount, gotCount, fails, broken>>

Init == sentCount = 0 /\ gotCount = 0 /\ fails = FALSE /\ broken = FALSE

Send == sentCount < Messages /\ sentCount' = sentCount + 1 /\ UNCHANGED <<gotCount, fails, broken>>

Receive == gotCount < sentCount /\ gotCount' = gotCount + 1 /\ UNCHANGED <<sentCount, fails, broken>>

Break == fails' = TRUE /\ broken' = TRUE /\ UNCHANGED <<sentCount, gotCount>>

Next == Send \/ Receive \/ Break
=============================================================================
