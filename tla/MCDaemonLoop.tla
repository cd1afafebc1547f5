---------------------------- MODULE MCDaemonLoop ----------------------------
(* Instances of DaemonLoop for TLC: two stoppers or two clients, not both. *)
EXTENDS DaemonLoop

CONSTANTS c1, c2, s1, s2

(* Stoppers and clients are interchangeable: s1 calls before s2 does, and  *)
(* c1 connects before c2.  c2 stays away when s2 calls.                    *)
InOrder ==
    /\ spc[s2] # "out" => spc[s1] # "out"
    /\ fate[c2] # "none" => fate[c1] # "none" /\ spc[s2] = "out"

MCInit == Init /\ InOrder

MCSpec == MCInit /\ [][Next /\ InOrder']_vars /\ Fairness
=============================================================================
