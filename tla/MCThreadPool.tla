---------------------------- MODULE MCThreadPool ----------------------------
(* Instances of ThreadPool for TLC. *)
EXTENDS ThreadPool

CONSTANTS w3, j2, c1

(* A third worker and a second job take part in the runs in which nobody   *)
(* closes the pool, and fairness asks for no step that this rules out.     *)
Bounded == cpc[c1] # "start" => status[j2] = "free" /\ wpc[w3] = "unborn"

MCSpec ==
    /\ Init /\ [][Next /\ Bounded']_vars
    /\ WF_vars(Process /\ Bounded')
    /\ \A w \in Worker : WF_vars(WorkerStep(w))
    /\ \A c \in Closer : WF_vars(CloseStep(c))
=============================================================================
