----------------------------- MODULE NameLookup ------------------------------
(***************************************************************************)
(* How a client finds the name server (core._locateNS): on this machine,   *)
(* by broadcast, or at NS_HOST; and the name server that is looked for,    *)
(* which starts, stops and answers broadcasts (naming.startNSloop,         *)
(* BroadcastServer).  Broadcasts and their answers may be lost, late or    *)
(* doubled.                                                                *)
(***************************************************************************)
EXTENDS Values, Naturals, Sequences, FiniteSets

CONSTANTS
    Net,        \* networks of the server's machine that clients are in
    MaxServers, MaxLookups  \* bounds: starts of the name server, lookups

(* Interfaces: "this" is the server's machine.  Ports: "ns" and "bc" are   *)
(* NS_PORT and NS_BCPORT, "own" another.                                   *)
Place == Net \cup {"this"}
Interface == [n \in Place |-> <<"interface", n>>]
Localhost == <<"localhost">>
Debian == <<"127.0.1.1">>
AnyAddress == <<"0.0.0.0">>

VARIABLES
    server,     \* [number, host, port, nat]: the name server, or None
    up,         \* is its daemon running?
    bcserver,   \* the URI [host, port, number] that its broadcast server tells, or None
    lookup,     \* [from, port, nsHost, ipv6, phase, tries], or None
    broadcasts, \* requests on their way
    answers,    \* answers on their way to the lookup's socket: URIs
    found,      \* what the last lookup gave: [uri, from, error], or None
    alive,      \* history: servers that ran or answered since the lookup began
    steady,     \* history: could NS_HOST be reached all the time since then?
    numbers     \* of servers and lookups so far

lookupVars ==
    <<server, up, bcserver, lookup, broadcasts, answers, found, alive, steady, numbers>>

Address(h, p, n) == [host |-> h, port |-> p, number |-> n]
NsAddress ==
    [host : {Localhost, Debian, AnyAddress} \cup {Interface[n] : n \in Place},
     port : {"ns", "own", "bc"}, number : Nat]

ASSUME LookupAssumption == None \notin NsAddress /\ MaxServers \in Nat /\ MaxLookups \in Nat

(* Is this server at a host, as a client from this place says it? *)
Leads(s, from, host) ==
    \/ host = s.host /\ (host # Localhost \/ from = "this")
    \/ s.host = AnyAddress /\ host \in {Interface[from]} \cup
                            (IF from = "this" THEN {Localhost, Debian} ELSE {})

(* Does a client reach a running name server there? *)
Reaches(from, host, port) == up /\ server.port = port /\ Leads(server, from, host)

LookupInit ==
    /\ server = None /\ up = FALSE /\ bcserver = None /\ lookup = None
    /\ broadcasts = {} /\ answers = {} /\ found = None
    /\ alive = {} /\ steady = FALSE /\ numbers = [servers |-> 0, lookups |-> 0]

clientVars == <<lookup, broadcasts, answers, found>>
serverVars == <<server, up, bcserver, numbers>>

-----------------------------------------------------------------------------
(* The name server *)

(* startNSloop: no broadcast server for localhost.  It tells the internal  *)
(* address and not that of NAT.                                            *)
StartNS(host, port, broadcast) ==
    /\ server = None /\ numbers.servers < MaxServers
    /\ numbers' = [numbers EXCEPT !.servers = @ + 1]
    /\ server' = [number |-> numbers.servers + 1, host |-> host, port |-> port]
    /\ up' = TRUE
    /\ bcserver' = IF broadcast /\ host # Localhost
                   THEN Address(host, port, numbers.servers + 1) ELSE None
    /\ alive' = alive \cup {numbers.servers + 1}
    /\ UNCHANGED <<clientVars, steady>>

(* The daemon is closed before the broadcast server. *)
CloseDaemon ==
    /\ server # None /\ up /\ up' = FALSE /\ steady' = FALSE
    /\ UNCHANGED <<server, bcserver, clientVars, alive, numbers>>

CloseBroadcast ==
    /\ server # None /\ ~up /\ server' = None /\ bcserver' = None
    /\ UNCHANGED <<up, clientVars, alive, steady, numbers>>

Killed ==
    /\ server # None /\ up /\ up' = FALSE /\ server' = None /\ bcserver' = None /\ steady' = FALSE
    /\ UNCHANGED <<clientVars, alive, numbers>>

(* What processRequest tells the client: for INADDR_ANY the interface that *)
(* leads to the client, if it can be found.                                *)
Told(known) ==
    IF bcserver.host = AnyAddress /\ known THEN [bcserver EXCEPT !.host = Interface[lookup.from]]
    ELSE bcserver

(* Mutant: the server changes its own URI and not a copy. *)
ProcessRequestInPlace(b, known) ==
    /\ bcserver # None /\ lookup # None /\ b \in broadcasts
    /\ answers' = answers \cup {Told(known)}
    /\ bcserver' = Told(known)
    /\ \E rest \in {broadcasts, broadcasts \ {b}} : broadcasts' = rest
    /\ UNCHANGED <<server, up, lookup, found, alive, steady, numbers>>

(* A request may arrive again. *)
ProcessRequest(b, known) ==
    /\ bcserver # None /\ lookup # None /\ b \in broadcasts
    /\ answers' = answers \cup {Told(known)}
    /\ \E rest \in {broadcasts, broadcasts \ {b}} : broadcasts' = rest
    /\ UNCHANGED <<serverVars, lookup, found, alive, steady>>

-----------------------------------------------------------------------------
(* The client *)

NsHost == lookup.nsHost

(* _locateNS: a host may be given, and a port. *)
Locate(from, host, port, nsHost, ipv6) ==
    /\ lookup = None /\ numbers.lookups < MaxLookups
    /\ numbers' = [numbers EXCEPT !.lookups = @ + 1]
    /\ lookup' = [from |-> from, port |-> port, nsHost |-> IF host = None THEN nsHost ELSE host,
                  ipv6 |-> ipv6, tries |-> 0,
                  phase |-> CASE host # None -> "host"
                              [] host = None /\ nsHost = Localhost -> "localhost"
                              [] host = None /\ nsHost # Localhost ->
                                    IF ipv6 THEN "nshost" ELSE "broadcast"]
    /\ broadcasts' = {} /\ answers' = {} /\ found' = None
    /\ alive' = IF server = None THEN {} ELSE {server.number}
    /\ steady' = Reaches(from, lookup'.nsHost, IF host # None /\ port # None THEN port ELSE "ns")
    /\ UNCHANGED <<server, up, bcserver>>

(* The lookup ends: with a URI, or NamingError, or an error of the socket. *)
Given(uri, error) ==
    /\ lookup' = None /\ found' = [uri |-> uri, from |-> lookup.from, error |-> error]
    /\ UNCHANGED <<broadcasts, answers>>

(* Connect to a host and port; if there is no name server go on. *)
Bind(host, port, next) ==
    /\ IF Reaches(lookup.from, host, port)
       THEN Given(Address(host, port, server.number), FALSE)
       ELSE IF next = "fail" THEN Given(None, FALSE)
       ELSE lookup' = [lookup EXCEPT !.phase = next] /\ UNCHANGED <<broadcasts, answers, found>>
    /\ UNCHANGED <<serverVars, alive, steady>>

OrNs(port) == IF port = None THEN "ns" ELSE port
AfterLocal == IF lookup.ipv6 THEN "nshost" ELSE "broadcast"

(* The other address is tried if the machine has it among its hosts.       *)
TryLocalhost ==
    /\ lookup.phase = "localhost"
    /\ \E next \in {"debian", AfterLocal} : Bind(Localhost, OrNs(lookup.port), next)
TryDebian == lookup.phase = "debian" /\ Bind(Debian, OrNs(lookup.port), AfterLocal)

(* Up to three broadcasts, each of which waits for an answer to any. *)
Broadcast ==
    /\ lookup.phase = "broadcast" /\ lookup.tries < 3
    /\ lookup' = [lookup EXCEPT !.phase = "answer", !.tries = @ + 1]
    /\ broadcasts' = IF lookup.port \in {None, "bc"} THEN broadcasts \cup {lookup.tries}
                     ELSE broadcasts
    /\ UNCHANGED <<serverVars, answers, found, alive, steady>>

(* sendto or recvfrom (or what makes the socket) fails, with an error other *)
(* than the two that are caught after sendto: nothing else is tried.       *)
SocketFails ==
    /\ lookup.phase \in {"broadcast", "answer"}
    /\ Given(None, TRUE)
    /\ UNCHANGED <<serverVars, alive, steady>>

(* The proxy is not bound: nothing shows that the name server still runs.  *)
Answered(uri) ==
    /\ lookup.phase = "answer" /\ uri \in answers
    /\ Given(uri, FALSE)
    /\ UNCHANGED <<serverVars, alive, steady>>

NoAnswer ==
    /\ lookup.phase = "answer"
    /\ lookup' = [lookup EXCEPT !.phase = IF lookup.tries < 3 THEN "broadcast" ELSE "nshost"]
    /\ UNCHANGED <<serverVars, broadcasts, answers, found, alive, steady>>

(* Mutant: the port is still that of the broadcast. *)
TryNsHostAtBcPort ==
    /\ lookup.phase = "nshost"
    /\ Bind(NsHost, IF lookup.tries > 0 THEN "bc" ELSE "ns", "fail")

(* After a broadcast at NS_PORT, whatever port is given. *)
TryNsHost == lookup.phase = "nshost" /\ Bind(NsHost, "ns", "fail")

TryHost == lookup.phase = "host" /\ Bind(NsHost, OrNs(lookup.port), "fail")

Hosts == {Localhost, AnyAddress, Interface["this"]}
Looking ==
    TryLocalhost \/ TryDebian \/ Broadcast \/ SocketFails \/ NoAnswer \/ TryNsHost \/ TryHost

LookupNext ==
    \/ \E h \in Hosts, p \in {"ns", "own"}, b \in BOOLEAN : StartNS(h, p, b)
    \/ CloseDaemon \/ CloseBroadcast \/ Killed
    \/ \E b \in broadcasts, known \in BOOLEAN : ProcessRequest(b, known)
    \/ \E from \in Place, host \in {None, Interface["this"]}, port \in {None, "own", "bc"},
          nsHost \in {Localhost, Interface["this"]}, ipv6 \in BOOLEAN :
        Locate(from, host, port, nsHost, ipv6)
    \/ lookup # None /\ (Looking \/ \E uri \in answers : Answered(uri))

LookupSpec == LookupInit /\ [][LookupNext]_lookupVars

-----------------------------------------------------------------------------
(* Properties *)

(* A lookup gives a name server that ran, or whose broadcast server was    *)
(* still answering, after the lookup began, at an address that leads to it *)
(* from where the client is, if the server could find that address (core   *)
(* lines 1929-2016, naming lines 371-459).                                 *)
FoundLeads ==
    found # None /\ found.uri # None =>
        /\ found.uri.number \in alive
        /\ server # None /\ server.number = found.uri.number /\ found.uri.host # AnyAddress =>
            found.uri.port = server.port /\ Leads(server, found.from, found.uri.host)

(* A lookup does not say that there is no name server if one can be        *)
(* reached at NS_HOST, or at the host that is given, all the time (core    *)
(* lines 1929-2016).                                                       *)
NotMissed == found # None /\ steady => found.uri # None \/ found.error

(* It finds such a one whatever becomes of its broadcasts: "broadcast      *)
(* failed or skipped, try PYRO directly on specific host" (core line 1991).*)
NeverMissed == found # None /\ steady => found.uri # None

(* A lookup finds a name server that it can reach, and unless its socket   *)
(* fails misses none that was there all the time.                          *)
LookupInv == FoundLeads /\ NotMissed
=============================================================================
