----------------------------- MODULE NameTable -----------------------------
(***************************************************************************)
(* What a storage of the name server promises: a map from names to a uri   *)
(* and a set of metadata.  A call changes it in one step, completely, or   *)
(* not at all if the process crashes, however many statements it takes.    *)
(***************************************************************************)
CONSTANTS Name, Entry, None

VARIABLES
    entries,    \* of each name: an Entry, or None
    call,       \* the call under way: [names, entry], or None
    keeps,      \* does the storage keep metadata?
    lasts,      \* does it outlive its process?
    upgrading   \* is it being brought to a new format?

vars == <<entries, call, keeps, lasts, upgrading>>

Empty == [n \in Name |-> None]

(* A call gives each of its names the same entry, or removes it. *)
Calls == [names : SUBSET Name, entry : Entry \cup {None}]

Kept(e) == IF e = None \/ keeps THEN e ELSE [e EXCEPT !.meta = {}]

Init ==
    /\ entries \in [Name -> Entry \cup {None}] /\ call = None
    /\ keeps \in BOOLEAN /\ lasts \in BOOLEAN /\ upgrading \in BOOLEAN

Begin == call = None /\ call' \in Calls /\ UNCHANGED <<entries, upgrading>>

Finish ==
    /\ call # None /\ call' = None
    /\ entries' = [n \in Name |-> IF n \in call.names THEN Kept(call.entry) ELSE entries[n]]
    /\ UNCHANGED upgrading

(* Only a storage in memory forgets, and one whose upgrade is interrupted. *)
Crash ==
    /\ call' = None
    /\ entries' = entries \/ ((~lasts \/ upgrading) /\ entries' = Empty)
    /\ upgrading' \in BOOLEAN

Upgrade == upgrading' \in BOOLEAN /\ UNCHANGED <<entries, call>>

Next == (Begin \/ Finish \/ Crash \/ Upgrade) /\ UNCHANGED <<keeps, lasts>>

Spec == Init /\ [][Next]_vars
=============================================================================
