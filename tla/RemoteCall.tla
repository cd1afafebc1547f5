----------------------------- MODULE RemoteCall -----------------------------
(***************************************************************************)
(* What a Pyro method call promises its caller, with no connection and no  *)
(* server thread in sight: a call is executed at most once per attempt, a  *)
(* normal return means that it was executed, and every call ends.  It      *)
(* promises no more: a call that raised may have been executed, may be     *)
(* executed later, or more than once.                                      *)
(***************************************************************************)
EXTENDS Naturals

CONSTANTS Call, MAX_RETRIES

VARIABLES outcome,   \* what the caller has seen of each call
          executed   \* how often the method has been run for it

callVars == <<outcome, executed>>

Init ==
    /\ outcome = [k \in Call |-> "none"]
    /\ executed = [k \in Call |-> 0]

Begin(k) ==
    /\ outcome[k] = "none"
    /\ outcome' = [outcome EXCEPT ![k] = "pending"]
    /\ UNCHANGED executed

Execute(k) ==
    /\ outcome[k] # "none" /\ executed[k] <= MAX_RETRIES
    /\ executed' = [executed EXCEPT ![k] = @ + 1]
    /\ UNCHANGED outcome

(* A value or the method's own exception reaches the caller. *)
Return(k) ==
    /\ outcome[k] = "pending" /\ executed[k] > 0
    /\ outcome' = [outcome EXCEPT ![k] = "returned"]
    /\ UNCHANGED executed

(* The caller gets a communication error, or (oneway) no answer at all. *)
GiveUp(k) ==
    /\ outcome[k] = "pending"
    /\ \E o \in {"raised", "sent"} : outcome' = [outcome EXCEPT ![k] = o]
    /\ UNCHANGED executed

Next == \E k \in Call : Begin(k) \/ Execute(k) \/ Return(k) \/ GiveUp(k)

Spec ==
    /\ Init /\ [][Next]_callVars
    /\ \A k \in Call : WF_callVars(Return(k) \/ GiveUp(k))

=============================================================================
