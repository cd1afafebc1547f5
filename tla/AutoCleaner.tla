---------------------------- MODULE AutoCleaner -----------------------------
(***************************************************************************)
(* The name server with the thread of naming.AutoCleaner: it lists the     *)
(* registrations, tries to connect to each, and removes a name that has    *)
(* been unreachable for max_unreachable_time.  It calls the name server's  *)
(* own methods, while clients call them too.                               *)
(*                                                                         *)
(* The servers behind the uris come and go.  A uri of a Unix domain socket *)
(* ("./u:") and a PYRONAME have no host and port, so there is nothing to   *)
(* connect to.  Time is only compared with max_unreachable_time: an entry  *)
(* of unreachable is "new" until then, and "old" after.                    *)
(***************************************************************************)
EXTENDS NameServer

CONSTANTS
    Cleaner,    \* the cleaner's thread
    Unaddressed,  \* the uris without host and port
    MaxFlips    \* bound: how often a server may stop or start

ASSUME CleanerAssumption == Cleaner \in Thread /\ Unaddressed \subseteq Uri /\ MaxFlips \in Nat

Client == Thread \ {Cleaner}

VARIABLES
    up, flips,     \* the uris that answer; how often that has changed
    cpc, target,   \* the cleaner: step; the name it is removing
    unreachable,   \* AutoCleaner.unreachable: since when, by name
    found,         \* history: names whose present registration the cleaner has found
                   \* unreachable before
    again,         \* history: names that were registered, or removed, more than once
    lastUri,       \* history: the uri that each name has, or had last
    renewed,       \* history: whether the name server's entry has been written anew
    hasty          \* history: whether names that were registered once ("first"), or more
                   \* often ("again"), were removed without having been found before

cleanerVars == <<cpc, target, unreachable>>
history == <<found, again, lastUri, renewed, hasty>>
allVars == <<vars, up, flips, cleanerVars, history>>

CleanerTypeOK ==
    /\ TypeOK
    /\ up \subseteq Uri /\ flips \in 0 .. MaxFlips
    /\ cpc \in {"sleep", "list", "probe", "remove", "dead"} /\ target \in Name \cup {None}
    /\ unreachable \in [Name -> {"none", "new", "old"}]
    /\ found \subseteq Name /\ again \subseteq Name /\ hasty \subseteq {"first", "again"}
    /\ lastUri \in [AllNames -> Uri \cup {None}] /\ renewed \in BOOLEAN

CleanerInit ==
    /\ Init
    /\ up = Uri \ Unaddressed /\ flips = 0
    /\ cpc = "sleep" /\ target = None /\ unreachable = [n \in Name |-> "none"]
    /\ found = {} /\ again = {} /\ lastUri = Uris /\ renewed = FALSE /\ hasty = {}

(* A name that is written while it is registered, or that is removed, has  *)
(* lost what was known of its registration.                                *)
Watch ==
    LET written == {n \in Name : table[n] # None /\ table'[n] # table[n]}
    IN  /\ found' = found \ written /\ again' = again \cup written
        /\ lastUri' = [n \in AllNames |-> IF n \in Keys' THEN Uris'[n] ELSE lastUri[n]]
        /\ renewed' = (renewed \/ (NS \in Keys' /\ table'[NS] # table[NS]))

ServerFlips(u) ==
    /\ u \notin Unaddressed /\ flips < MaxFlips /\ flips' = flips + 1
    /\ up' = IF u \in up THEN up \ {u} ELSE up \cup {u}
    /\ UNCHANGED <<vars, cleanerVars, history>>

ClientBegins(t) == Begin(t) /\ UNCHANGED <<up, flips, cleanerVars, history>>

ClientSteps(t) == Step(t) /\ Watch /\ UNCHANGED <<up, flips, cleanerVars, hasty>>

-----------------------------------------------------------------------------
(* AutoCleaner.run *)

CleanerCall(kind, n) ==
    \E o \in Op :
        /\ o.kind = kind /\ o.name = n /\ o.meta = {} /\ o.filter = {} /\ ~o.safe
        /\ o.uri = CHOOSE u \in Uri : TRUE
        /\ Call(Cleaner, o)

CleanerWakes ==
    /\ cpc = "sleep" /\ cpc' = "list"
    /\ CleanerCall("list", NS)
    /\ UNCHANGED <<left, up, flips, target, unreachable, history>>

(* A step of the name server's method that the cleaner has called. *)
CleanerSteps ==
    /\ Step(Cleaner) /\ Watch
    /\ hasty' = IF target \in Keys \ found /\ table'[target] = None
                THEN hasty \cup {IF target \in again THEN "again" ELSE "first"} ELSE hasty
    /\ UNCHANGED <<up, flips, cleanerVars>>

(* An exception that is not a socket error ends the thread. *)
CleanerDies ==
    /\ cpc \in {"list", "remove"} /\ pc[Cleaner] = "idle" /\ Cleaner \in crashed
    /\ cpc' = "dead"
    /\ UNCHANGED <<vars, up, flips, target, unreachable, history>>

HasListed ==
    /\ cpc = "list" /\ pc[Cleaner] = "idle" /\ Cleaner \notin crashed
    /\ cpc' = "probe"
    /\ UNCHANGED <<vars, up, flips, target, unreachable, history>>

(* The next of the listed names is tried: it answers, or it has not        *)
(* answered for long enough, or this is noted.                             *)
Probe(n) ==
    /\ cpc = "probe" /\ n \in Listed(Cleaner)
    /\ items' = [items EXCEPT ![Cleaner][n] = None]
    /\ UNCHANGED <<storage, table, lock, crashed, picked, left, faults, up, flips, again,
                   lastUri, renewed, hasty>>

ProbeAnswers(n) ==
    /\ Probe(n) /\ items[Cleaner][n] \in up
    /\ unreachable' = [unreachable EXCEPT ![n] = "none"]
    /\ UNCHANGED <<pc, op, cpc, target, found>>

Found(n) ==
    found' = IF n \in Keys /\ table[n].uri = items[Cleaner][n] THEN found \cup {n} ELSE found

Silent(n) == items[Cleaner][n] \notin up \cup Unaddressed

ProbeFails(n) ==
    /\ Probe(n) /\ Silent(n) /\ unreachable[n] # "old"
    /\ unreachable' = [unreachable EXCEPT ![n] = "new"] /\ Found(n)
    /\ UNCHANGED <<pc, op, cpc, target>>

(* createSocket(connect=(None, None)) raises a TypeError, which is no      *)
(* socket error and ends the thread.                                       *)
ProbeRaises(n) ==
    /\ cpc = "probe" /\ n \in Listed(Cleaner) /\ items[Cleaner][n] \in Unaddressed
    /\ cpc' = "dead"
    /\ UNCHANGED <<vars, up, flips, target, unreachable, history>>

(* Mutant: the first failure is enough. *)
GiveUpAtOnce(n) ==
    /\ cpc = "probe" /\ n \in Listed(Cleaner) /\ Silent(n)
    /\ items' = [items EXCEPT ![Cleaner][n] = None]
    /\ cpc' = "remove" /\ target' = n
    /\ op' = [op EXCEPT ![Cleaner] = [kind |-> "remove", name |-> n, uri |-> items[Cleaner][n],
                                      meta |-> {}, safe |-> FALSE, filter |-> {}]]
    /\ pc' = [pc EXCEPT ![Cleaner] = "test"]
    /\ UNCHANGED <<storage, table, lock, crashed, picked, left, faults, up, flips, unreachable,
                   history>>

(* Mutant: the name is forgotten but not removed. *)
GiveUpKept(n) ==
    /\ Probe(n) /\ Silent(n) /\ unreachable[n] = "old"
    /\ unreachable' = [unreachable EXCEPT ![n] = "none"]
    /\ UNCHANGED <<pc, op, cpc, target, found>>

GiveUp(n) ==
    /\ cpc = "probe" /\ n \in Listed(Cleaner)
    /\ Silent(n) /\ unreachable[n] = "old"
    /\ items' = [items EXCEPT ![Cleaner][n] = None]
    /\ cpc' = "remove" /\ target' = n
    /\ op' = [op EXCEPT ![Cleaner] = [kind |-> "remove", name |-> n, uri |-> items[Cleaner][n],
                                      meta |-> {}, safe |-> FALSE, filter |-> {}]]
    /\ pc' = [pc EXCEPT ![Cleaner] = "test"]
    /\ UNCHANGED <<storage, table, lock, crashed, picked, left, faults, up, flips, unreachable,
                   history>>

HasRemoved ==
    /\ cpc = "remove" /\ pc[Cleaner] = "idle" /\ Cleaner \notin crashed
    /\ unreachable' = [unreachable EXCEPT ![target] = "none"]
    /\ cpc' = "probe" /\ target' = None
    /\ UNCHANGED <<vars, up, flips, history>>

RoundEnds ==
    /\ cpc = "probe" /\ Listed(Cleaner) \subseteq {NS}
    /\ cpc' = "sleep" /\ items' = [items EXCEPT ![Cleaner] = Nothing]
    /\ UNCHANGED <<storage, table, lock, pc, op, picked, crashed, left, faults, up, flips,
                   target, unreachable, history>>

CleanerRuns ==
    \/ CleanerWakes \/ CleanerSteps \/ CleanerDies \/ HasListed \/ HasRemoved \/ RoundEnds
    \/ \E n \in Name : ProbeAnswers(n) \/ ProbeFails(n) \/ ProbeRaises(n) \/ GiveUp(n)

(* max_unreachable_time has passed since the name was found unreachable. *)
TimePasses(n) ==
    /\ unreachable[n] = "new" /\ unreachable' = [unreachable EXCEPT ![n] = "old"]
    /\ UNCHANGED <<vars, up, flips, cpc, target, history>>

-----------------------------------------------------------------------------
CleanerNext ==
    \/ \E t \in Client : ClientBegins(t) \/ ClientSteps(t)
    \/ CleanerRuns
    \/ \E u \in Uri : ServerFlips(u)
    \/ \E n \in Name : TimePasses(n)

CleanerSpec ==
    /\ CleanerInit /\ [][CleanerNext]_allVars
    /\ \A t \in Client : WF_allVars(ClientSteps(t))
    /\ WF_allVars(CleanerRuns)
    /\ \A n \in Name : WF_allVars(TimePasses(n))

-----------------------------------------------------------------------------
(* Properties *)

(* The name server's own entry is never removed, whatever is removed by    *)
(* name, prefix or regex at the same time, the name server's name and      *)
(* patterns that match it included (NameServer.remove, lines 139, 145 and  *)
(* 151).  Over SqlStorage this is only so until a client registers the     *)
(* name server's name or sets its metadata: then its row gets an id that a *)
(* removal may have selected for another name.                             *)
NameServerKept == (storage = "sql" => ~renewed) => NS \in Keys

(* A safe registration never replaces an entry (naming.py:104, "name       *)
(* cannot be registered twice"), and set_metadata writes the uri that the  *)
(* name has, or had until a removal that does not take the lock deleted it *)
(* between the reading and the writing: never an earlier one (lines        *)
(* 114-119, 128-134).                                                      *)
RegistrationsKept ==
    [][\A t \in Thread : SetItem(t) =>
        /\ op[t].kind = "register" /\ op[t].safe => op[t].name \notin Keys
        /\ op[t].kind = "set_metadata" => op[t].uri = lastUri[op[t].name]]_allVars

(* A name that was registered once is removed by the cleaner only if an    *)
(* earlier round has found its server unreachable (AutoCleaner.run, lines  *)
(* 359-364).                                                               *)
FirstGrace == "first" \notin hasty

(* No registration is removed by the cleaner unless it was found           *)
(* unreachable before (naming.py:323, "If it cannot be contacted anymore,  *)
(* it will be removed after ~20 seconds").  The code keeps FirstGrace      *)
(* only: a name that is registered again inherits the time of its          *)
(* predecessor, and one that is registered again while the cleaner is      *)
(* removing it is removed at once.                                         *)
Grace == hasty = {}

(* What ends the cleaner's thread (AutoCleaner.run): a dict or a dbm file  *)
(* that others change at the same time, an error of the database, or a     *)
(* registered uri that cannot be probed.                                   *)
CleanerEnded ==
    /\ cpc = "dead"
    /\ \/ storage # "sql" \/ faults > 0
       \/ \E n \in Name : items[Cleaner][n] \in Unaddressed

(* A registration whose server stays away is removed in the end, unless    *)
(* the cleaner's thread has ended, for one of the reasons it can have.     *)
DeadNamesGo == \A n \in Name : []<>(n \notin Keys \/ table[n].uri \in up \/ CleanerEnded)

(* The cleaner removes the registrations "that are not available anymore"  *)
(* (config.rst:92).  Where a Unix domain socket or a PYRONAME is           *)
(* registered, the code does not do so.                                    *)
DeadNamesGone ==
    \A n \in Name : []<>(n \notin Keys \/ table[n].uri \in up \cup Unaddressed)

(* What clients and the cleaner keep while they change the table at once:  *)
(* the name server's entry, the ids of rows, and the grace of names that   *)
(* were registered once.                                                   *)
NamesInv == CleanerTypeOK /\ NameServerKept /\ IdsDiffer /\ FirstGrace
=============================================================================
