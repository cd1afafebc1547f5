--------------------------- MODULE DaemonService ---------------------------
(***************************************************************************)
(* What a daemon promises to the program that runs it and to its clients:  *)
(* it serves until it is asked to stop, it stops when it is asked to, and  *)
(* every client that reaches it is served, refused or dropped, by a daemon *)
(* that has not stopped.  The one thing besides a request to stop that may *)
(* end it is a client that goes away.                                      *)
(***************************************************************************)
CONSTANT Client

VARIABLES
    phase,      \* "idle", "serving" or "stopped"
    asked,      \* has somebody asked the daemon to stop?
    fate        \* of each client: "none", "waiting", "served" or "dismissed"

vars == <<phase, asked, fate>>

Init ==
    /\ phase = "idle" /\ asked = FALSE
    /\ fate \in [Client -> {"none", "served"}]

Start == phase = "idle" /\ phase' = "serving" /\ UNCHANGED <<asked, fate>>

Ask == asked' = TRUE /\ UNCHANGED <<phase, fate>>

Arrive(c) ==
    /\ fate[c] = "none"
    /\ fate' = [fate EXCEPT ![c] = "waiting"] /\ UNCHANGED <<phase, asked>>

Serve(c) ==
    /\ phase = "serving" /\ fate[c] = "waiting"
    /\ fate' = [fate EXCEPT ![c] = "served"] /\ UNCHANGED <<phase, asked>>

(* The departure of a client may itself be what the daemon has to stop on. *)
Dismiss(c) ==
    /\ phase = "serving" /\ fate[c] \in {"waiting", "served"}
    /\ fate' = [fate EXCEPT ![c] = "dismissed"] /\ asked' \in {asked, TRUE}
    /\ UNCHANGED phase

(* A client that is in hand when the daemon ends is dismissed.  Unasked it *)
(* ends only with a client that it has not served.                         *)
Stop ==
    /\ phase # "stopped" /\ phase' = "stopped"
    /\ \/ asked /\ fate' = fate
       \/ \E c \in Client :
            /\ fate[c] = "waiting" \/ (asked /\ fate[c] = "served")
            /\ fate' = [fate EXCEPT ![c] = "dismissed"]
    /\ UNCHANGED asked

Next ==
    \/ Start \/ Ask \/ Stop
    \/ \E c \in Client : Arrive(c) \/ Serve(c) \/ Dismiss(c)

(* A daemon that runs and is asked to stop does so.                        *)
Spec == Init /\ [][Next]_vars /\ WF_vars(phase = "serving" /\ asked /\ Stop)
=============================================================================
