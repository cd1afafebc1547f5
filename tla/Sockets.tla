------------------------------ MODULE Sockets --------------------------------
(***************************************************************************)
(* How servers and proxies make their sockets (socketutil.py): the version *)
(* of IP that each side takes for a host, ports, the queue of connections  *)
(* that wait for a server, and the connection that wakes a server up.      *)
(***************************************************************************)
EXTENDS Values, Naturals, FiniteSets

CONSTANTS
    Process,        \* processes, each with its PREFER_IP_VERSION, server and proxy
    HostName,       \* hosts that servers are bound to
    Backlog,        \* connections that may wait for a server: listen(100)
    MaxSockets      \* bound: sockets

ASSUME SocketsAssumption == None \notin Nat

(* Hosts, and the versions of the addresses that getaddrinfo knows.  "any" *)
(* is the empty host, and 0.0.0.0 where an address is needed.  There is    *)
(* also "unix", of Unix domain sockets.                                    *)
Versions == [both |-> {4, 6}, only6 |-> {6}, numeric4 |-> {4}, numeric6 |-> {6}, any |-> {4}]
FixedPort == 1
AfUnix == 1     \* AF_UNIX; the other families are 4 and 6

VARIABLES
    prefer,     \* PREFER_IP_VERSION of each process: 4, 6, or 0; None before it is set
    osFirst,    \* the version of the first address that getaddrinfo gives
    servers,    \* servers: [by, host, family, port, no]
    waiting,    \* connections in the queues: [from, server], by numbers
    attempt,    \* each process's createSocket(connect) in progress: [to, family], or None
    result,     \* history: how it ended: [to, how, server], server a number if connected
    sockets     \* sockets so far

socketsVars == <<prefer, osFirst, servers, waiting, attempt, result, sockets>>

SocketsInit ==
    /\ prefer = None /\ osFirst = None
    /\ servers = {} /\ waiting = {} /\ sockets = 0
    /\ attempt = [p \in Process |-> None] /\ result = [p \in Process |-> None]

(* The configuration of the processes, and of the system's resolver. *)
ConfigureSockets ==
    /\ prefer = None /\ prefer' \in [Process -> {0, 4, 6}] /\ osFirst' \in {4, 6}
    /\ UNCHANGED <<servers, waiting, attempt, result, sockets>>

-----------------------------------------------------------------------------
(* getaddrinfo in one family, or in both (0): the version of the first     *)
(* address, None if there is none.                                         *)
GetAddr(h, version) ==
    IF version = 0 THEN IF Versions[h] = {4, 6} THEN osFirst ELSE CHOOSE v \in Versions[h] : TRUE
    ELSE IF version \in Versions[h] THEN version ELSE None

(* getIpAddress: a host with colons is looked up in both families. *)
GetIpAddress(h, preferred) ==
    IF h = "numeric6" THEN GetAddr(h, 0)
    ELSE IF GetAddr(h, preferred) # None THEN GetAddr(h, preferred)
    ELSE IF preferred = 6 THEN None ELSE GetAddr(h, 0)

(* createSocket: the family of a socket to bind, "any" being empty... *)
BindFamily(p, h) ==
    IF h = "unix" THEN AfUnix ELSE IF h = "any" THEN 4 ELSE GetIpAddress(h, prefer[p])

(* Mutant: the operating system chooses. *)
ConnectFamilyByOs(p, h) ==
    IF h = "unix" THEN AfUnix ELSE GetIpAddress(h, 0)

(* ... and of one to connect. *)
ConnectFamily(p, h) ==
    IF h = "unix" THEN AfUnix ELSE GetIpAddress(h, prefer[p])

(* Two sockets at one address; each host has addresses of its own. *)
SameAddress(s, host, family, port) ==
    /\ s.family = family /\ s.port = port
    /\ s.host = host \/ (family = 4 /\ "any" \in {s.host, host})

-----------------------------------------------------------------------------
(* bindOnUnusedPort: the system gives a port that is free. *)
PortGiven(asked, no) == IF asked = 0 THEN FixedPort + no ELSE asked

(* init of a server: the name cannot be resolved, the address is in use,   *)
(* or it listens.                                                          *)
ListenAt(p, h, asked) ==
    LET family == BindFamily(p, h)  no == sockets + 1  port == PortGiven(asked, no)
    IN  /\ prefer # None /\ sockets < MaxSockets /\ ~\E s \in servers : s.by = p
        /\ h = "unix" => asked = FixedPort
        /\ sockets' = no
        /\ servers' = IF family = None \/ \E s \in servers : SameAddress(s, h, family, port)
                        THEN servers
                        ELSE servers \cup
                            {[by |-> p, host |-> h, family |-> family, port |-> port, no |-> no]}
        /\ UNCHANGED <<prefer, osFirst, waiting, attempt, result>>

CloseServer(s) ==
    /\ s \in servers /\ servers' = servers \ {s}
    /\ waiting' = {w \in waiting : w.server # s.no}
    /\ UNCHANGED <<prefer, osFirst, attempt, result, sockets>>

Accept(w) ==
    /\ w \in waiting /\ waiting' = waiting \ {w}
    /\ UNCHANGED <<prefer, osFirst, servers, attempt, result, sockets>>

Queue(s) == {w \in waiting : w.server = s.no}

(* A proxy connects to the location that a server has told. *)
BeginConnect(p, s) ==
    /\ sockets < MaxSockets /\ attempt[p] = None /\ s \in servers
    /\ sockets' = sockets + 1 /\ result' = [result EXCEPT ![p] = None]
    /\ attempt' = [attempt EXCEPT
           ![p] = [to |-> s, family |-> ConnectFamily(p, s.host), no |-> sockets']]
    /\ UNCHANGED <<prefer, osFirst, servers, waiting>>

Ends(p, how, no) ==
    /\ attempt' = [attempt EXCEPT ![p] = None]
    /\ result' = [result EXCEPT ![p] = [to |-> attempt[p].to, how |-> how, server |-> no]]

Found(p) ==
    {s \in servers : SameAddress(s, attempt[p].to.host, attempt[p].family, attempt[p].to.port)}

(* The connection is refused, or the host has no address of the family. *)
ConnectFails(p) ==
    /\ attempt[p] # None /\ Found(p) = {} /\ Ends(p, "refused", 0)
    /\ UNCHANGED <<prefer, osFirst, servers, waiting, sockets>>

(* In one go, or when select says that the socket is writable. *)
Connected(p) ==
    /\ attempt[p] # None
    /\ \E s \in Found(p) :
        /\ Cardinality(Queue(s)) < Backlog
        /\ waiting' = waiting \cup {[from |-> attempt[p].no, server |-> s.no]}
        /\ Ends(p, "connected", s.no)
    /\ UNCHANGED <<prefer, osFirst, servers, sockets>>

(* Nobody takes it from the queue in time; a Unix domain socket does not   *)
(* wait for that, and select says at once that it is writable.             *)
QueueFull(p) ==
    /\ attempt[p] # None /\ Found(p) # {}
    /\ \A s \in Found(p) : Cardinality(Queue(s)) >= Backlog
    /\ Ends(p, IF attempt[p].family = AfUnix THEN "not connected" ELSE "timeout", 0)
    /\ UNCHANGED <<prefer, osFirst, servers, waiting, sockets>>

(* interruptSocket: the server's process connects to the address that the  *)
(* socket is bound to, a numeric one; errors are ignored.                  *)
WakeUp(s) ==
    LET numeric == IF s.family = 6 THEN "numeric6" ELSE IF s.family = 4 THEN "numeric4" ELSE "unix"
    IN  /\ s \in servers /\ sockets < MaxSockets /\ sockets' = sockets + 1
        /\ waiting' = IF ConnectFamily(s.by, numeric) = None \/ Cardinality(Queue(s)) >= Backlog
                      THEN waiting ELSE waiting \cup {[from |-> sockets', server |-> s.no]}
        /\ UNCHANGED <<prefer, osFirst, servers, attempt, result>>

SocketsNext ==
    \/ ConfigureSockets
    \/ \E p \in Process :
        \/ \E h \in HostName, asked \in {0, FixedPort} : ListenAt(p, h, asked)
        \/ \E s \in servers : BeginConnect(p, s)
        \/ ConnectFails(p) \/ Connected(p) \/ QueueFull(p)
    \/ \E s \in servers : CloseServer(s) \/ WakeUp(s)
    \/ \E w \in waiting : Accept(w)

SocketsSpec == SocketsInit /\ [][SocketsNext]_socketsVars

-----------------------------------------------------------------------------
(* Properties *)

(* A proxy reaches the very server whose location it was told, under a     *)
(* name with several addresses too, if its process prefers the version of  *)
(* IP that the server's does, and the server is still there; except that   *)
(* one who prefers IPv6 does not find a server that listens on all         *)
(* addresses of IPv4 (lines 61-106, 242-277).                              *)
MeetsServer ==
    \A p \in Process :
        LET r == result[p]
        IN  r # None /\ r.to \in servers /\ prefer[p] = prefer[r.to.by]
                /\ ~(prefer[p] = 6 /\ r.to.host = "any") =>
            r.how # "refused" /\ (r.how = "connected" => r.server = r.to.no)
=============================================================================
