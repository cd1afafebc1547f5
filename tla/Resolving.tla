------------------------------ MODULE Resolving ------------------------------
(***************************************************************************)
(* Logical names in use: people change the name server's table with the    *)
(* control tool (nsc.handleCommand), daemons come and go, and proxies are  *)
(* given a name, or metadata, that they resolve each time they connect     *)
(* (core._resolve, Proxy._pyroReconnect).                                  *)
(***************************************************************************)
EXTENDS Values, Naturals

CONSTANTS
    Operator,       \* people that run the control tool
    LogicalName,    \* names in the table
    Endpoint,       \* exact URIs that daemons may serve
    Property,       \* metadata tags
    Resolver,       \* proxies
    MaxCommands, MaxConnects, MaxTries, \* bounds: commands, calls that connect, tries,
    MaxOutages      \* and times that something stops or starts again

VARIABLES
    nsUp,       \* can the name server be found?
    table,      \* of each name: [uri, meta], or None
    available,     \* locations whose object a daemon serves now
    command,    \* of each operator: [cmd, name, uri, meta, at], or None
    given,      \* what each proxy was made with: a name, a set of tags, or a location
    exact,      \* the URI that has replaced it, or None
    bound,      \* history: has _pyroBind connected it?
    connectedTo, \* of each proxy: the location that it is connected to, or None
    connecting, \* of each proxy: [how, tries, at, uri], or None
    meant,      \* history: locations that its URI stood for at some time since then
    spent      \* commands, connects and outages so far

tableVars == <<nsUp, table>>
resolverVars == <<given, exact, bound, connectedTo, connecting>>
resolvingVars == <<tableVars, available, command, resolverVars, meant, spent>>

Ask == [byName : LogicalName] \cup [byMeta : SUBSET Property \ {{}}] \cup [at : Endpoint]

ASSUME ResolvingAssumption == None \notin Endpoint /\ MaxTries \in Nat

Has(g, field) == field \in DOMAIN g

(* _resolve: what a URI stands for; of several candidates it takes any. *)
Candidates(g, tb) ==
    IF Has(g, "at") THEN {g.at}
    ELSE IF Has(g, "byName")
         THEN IF tb[g.byName] = None THEN {} ELSE {tb[g.byName].uri}
         ELSE {tb[n].uri : n \in {m \in LogicalName : tb[m] # None /\ g.byMeta \subseteq tb[m].meta}}

ResolvingInit ==
    /\ nsUp = TRUE /\ table = [n \in LogicalName |-> None] /\ available = Endpoint
    /\ command = [o \in Operator |-> None]
    /\ given = None /\ exact = [p \in Resolver |-> None] /\ bound = [p \in Resolver |-> FALSE]
    /\ connectedTo = [p \in Resolver |-> None] /\ connecting = [p \in Resolver |-> None]
    /\ meant = [p \in Resolver |-> {}] /\ spent = [commands |-> 0, connects |-> 0, outages |-> 0]

(* Proxies are made, and servers have registered their objects. *)
MakeProxies ==
    /\ given = None /\ given' \in [Resolver -> Ask]
    /\ table' \in [LogicalName -> [uri : Endpoint, meta : SUBSET Property]]
    /\ UNCHANGED <<nsUp, available, command, exact, bound, connectedTo, connecting, meant, spent>>

-----------------------------------------------------------------------------
(* A proxy's URI now, and what it should stand for. *)
UriNow(p) == IF exact[p] # None THEN [at |-> exact[p]] ELSE given[p]
StandsFor(p, tb) == IF bound[p] THEN {exact[p]} ELSE Candidates(given[p], tb)

(* A change of the table, seen by the proxies that are connecting. *)
TableBecomes(tb) ==
    /\ table' = tb
    /\ meant' = [p \in Resolver |->
           IF connecting[p] = None THEN meant[p] ELSE meant[p] \cup StandsFor(p, tb)]

(* The control tool.  A wrong number of arguments ends it before a call. *)
BeginCommand(o, cmd, n, u, m) ==
    /\ given # None /\ command[o] = None /\ spent.commands < MaxCommands
    /\ spent' = [spent EXCEPT !.commands = @ + 1]
    /\ command' = [command EXCEPT
           ![o] = [cmd |-> cmd, name |-> n, uri |-> u, meta |-> m, at |-> "locate"]]
    /\ UNCHANGED <<tableVars, available, resolverVars, meant>>

EndCommand(o) == command' = [command EXCEPT ![o] = None]

(* main: locateNS; without a name server it says so and ends. *)
LocateForCommand(o) ==
    /\ command[o] # None /\ command[o].at = "locate"
    /\ IF nsUp THEN command' = [command EXCEPT
                        ![o].at = IF command[o].cmd = "removematching" THEN "sure?" ELSE "call"]
       ELSE EndCommand(o)
    /\ UNCHANGED <<tableVars, available, resolverVars, meant, spent>>

Sure(o, yes) ==
    /\ command[o] # None /\ command[o].at = "sure?"
    /\ IF yes THEN command' = [command EXCEPT ![o].at = "call"] ELSE EndCommand(o)
    /\ UNCHANGED <<tableVars, available, resolverVars, meant, spent>>

(* register does not replace; setmeta needs a registration; the errors are *)
(* printed.  removematching removes what matches by now: here everything.  *)
TableAfter(c, tb) ==
    LET old == tb[c.name]
    IN  CASE c.cmd = "register" /\ old = None -> [tb EXCEPT ![c.name] = [uri |-> c.uri, meta |-> {}]]
          [] c.cmd = "setmeta" /\ old # None -> [tb EXCEPT ![c.name].meta = c.meta]
          [] c.cmd = "remove" -> [tb EXCEPT ![c.name] = None]
          [] c.cmd = "removematching" -> [n \in LogicalName |-> None]
          [] OTHER -> tb

CallNameServer(o) ==
    /\ command[o] # None /\ command[o].at = "call" /\ EndCommand(o)
    /\ IF nsUp THEN TableBecomes(TableAfter(command[o], table)) ELSE UNCHANGED <<table, meant>>
    /\ UNCHANGED <<nsUp, available, resolverVars, spent>>

-----------------------------------------------------------------------------
(* The network: the name server and the daemons stop and start again. *)
Outage ==
    /\ given # None /\ spent.outages < MaxOutages
    /\ spent' = [spent EXCEPT !.outages = @ + 1]
    /\ UNCHANGED <<table, command, resolverVars, meant>>

NameServerGoes == Outage /\ nsUp' = ~nsUp /\ UNCHANGED available

DaemonGoes(l) ==
    /\ Outage /\ UNCHANGED nsUp
    /\ available' = IF l \in available THEN available \ {l} ELSE available \cup {l}

-----------------------------------------------------------------------------
(* A proxy connects: in a call, in _pyroBind or in _pyroReconnect, which   *)
(* releases the connection that there may be; the others need none then.  *)
BeginConnecting(p, how) ==
    /\ given # None /\ connecting[p] = None /\ spent.connects < MaxConnects
    /\ how # "reconnect" => connectedTo[p] = None
    /\ spent' = [spent EXCEPT !.connects = @ + 1]
    /\ connectedTo' = [connectedTo EXCEPT ![p] = None]
    /\ connecting' = [connecting EXCEPT ![p] = [how |-> how, at |-> "resolve", uri |-> None,
                          tries |-> IF how = "reconnect" THEN MaxTries ELSE 1]]
    /\ meant' = [meant EXCEPT ![p] = StandsFor(p, table)]
    /\ UNCHANGED <<tableVars, available, command, given, exact, bound>>

(* The call fails on a lost connection, and the proxy releases it. *)
CallFindsLost(p) ==
    /\ connectedTo[p] \notin available \cup {None} /\ connectedTo' = [connectedTo EXCEPT ![p] = None]
    /\ UNCHANGED <<tableVars, available, command, given, exact, bound, connecting, meant, spent>>

GoesOnAt(p, at, u) == connecting' = [connecting EXCEPT ![p].at = at, ![p].uri = u]
GivesUp(p) == connecting' = [connecting EXCEPT ![p] = None]

(* A CommunicationError, which _pyroReconnect catches. *)
FailsOnce(p) ==
    connecting' = [connecting EXCEPT
        ![p] = IF connecting[p].tries <= 1 THEN None
               ELSE [connecting[p] EXCEPT !.at = "resolve", !.uri = None,
                                          !.tries = connecting[p].tries - 1]]

(* An exact URI is not looked up.  A NamingError ends _pyroReconnect too. *)
BeginResolve(p) ==
    /\ connecting[p].at = "resolve"
    /\ IF Has(UriNow(p), "at") THEN GoesOnAt(p, "connect", UriNow(p).at)
       ELSE IF nsUp THEN GoesOnAt(p, "look up", None) ELSE GivesUp(p)
    /\ UNCHANGED <<connectedTo, exact, bound>>

LookUpName(p) ==
    /\ connecting[p].at = "look up"
    /\ IF ~nsUp THEN FailsOnce(p)
       ELSE IF Candidates(UriNow(p), table) = {} THEN GivesUp(p)
       ELSE \E u \in Candidates(UriNow(p), table) : GoesOnAt(p, "connect", u)
    /\ UNCHANGED <<connectedTo, exact, bound>>

Connects(p, replaced) ==
    /\ connecting[p].at = "connect"
    /\ IF connecting[p].uri \in available
       THEN /\ connectedTo' = [connectedTo EXCEPT ![p] = connecting[p].uri]
            /\ exact' = [exact EXCEPT ![p] = replaced]
            /\ bound' = [bound EXCEPT ![p] = @ \/ connecting[p].how = "bind"]
            /\ GivesUp(p)
       ELSE FailsOnce(p) /\ UNCHANGED <<connectedTo, exact, bound>>

(* Mutant: a proxy keeps the URI that it has found. *)
ConnectToKeeping(p) == Connects(p, connecting[p].uri)

(* Only _pyroBind replaces the proxy's URI. *)
ConnectTo(p) == Connects(p, IF connecting[p].how = "bind" THEN connecting[p].uri ELSE exact[p])

ResolvingNext ==
    \/ MakeProxies \/ NameServerGoes \/ \E l \in Endpoint : DaemonGoes(l)
    \/ \E o \in Operator :
        \/ \E n \in LogicalName, u \in Endpoint : BeginCommand(o, "register", n, u, {})
        \/ \E n \in LogicalName, m \in SUBSET Property : BeginCommand(o, "setmeta", n, None, m)
        \/ \E n \in LogicalName, cmd \in {"remove", "removematching"} :
             BeginCommand(o, cmd, n, None, {})
        \/ LocateForCommand(o) \/ CallNameServer(o)
        \/ \E yes \in BOOLEAN : Sure(o, yes)
    \/ \E p \in Resolver :
        \/ \E how \in {"call", "bind", "reconnect"} : BeginConnecting(p, how)
        \/ CallFindsLost(p)
        \/ /\ connecting[p] # None /\ UNCHANGED <<tableVars, available, command, given, meant, spent>>
           /\ BeginResolve(p) \/ LookUpName(p) \/ ConnectTo(p)

ResolvingSpec == ResolvingInit /\ [][ResolvingNext]_resolvingVars

-----------------------------------------------------------------------------
(* Properties *)

(* A proxy that is given a name or metadata connects to a location that    *)
(* they stood for since it began to connect, however often the name has    *)
(* moved before; one that was bound stays with its location (core lines    *)
(* 402-408, 568-569, 588 and 1897-1925).                                   *)
ConnectsAsMeant == \A p \in Resolver : connectedTo[p] # None => connectedTo[p] \in meant[p]
=============================================================================
