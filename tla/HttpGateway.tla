---------------------------- MODULE HttpGateway ------------------------------
(***************************************************************************)
(* The gateway from HTTP to Pyro objects (utils/httpgateway.py): which     *)
(* requests it lets through, what it calls for them, and the proxy of the  *)
(* name server that it keeps between requests, while name servers stop and *)
(* start.                                                                  *)
(***************************************************************************)
EXTENDS Values, Naturals

CONSTANTS
    NsPlace,            \* addresses at which the name server may run
    Exposable,          \* names of objects that ns_regex matches
    Hidden,             \* names that it does not match
    MaxNs, MaxHttp      \* bounds: starts of the name server, requests

ASSUME GatewayAssumption == None \notin Nat

Names == Exposable \cup Hidden

(* A key comes in a header or with the other parameters of the query. *)
Key == {None, "right", "wrong"}
HttpRequest ==
    [path : {"/pyro/"}, header : {None}, key : {None}, query : {FALSE}, name : {None},
     method : {None}] \cup
    [path : {"/pyro/name/method"}, header : Key, key : Key, query : BOOLEAN, name : Names,
     method : {"$meta", "attr", "run"}]

VARIABLES
    gatewayKey,     \* pyro_app.gateway_key is set
    ns,             \* the name server that runs: [at, no], or None
    nameserver,     \* _nameserver: [at, conn], conn = None if not connected; or None
    http,           \* the request in progress: [request, phase, given], or None
    responded,      \* of the last response: [code, why], or None
    invoked,        \* history: calls of objects: [http, given, key, name]
    had, nsSteady,  \* history: was _nameserver connected when this request began; did
                    \* one name server run, and answer, all the time since?
    many            \* numbers of name servers and requests so far

gatewayVars == <<gatewayKey, ns, nameserver, http, responded, invoked, had, nsSteady, many>>

GatewayInit ==
    /\ gatewayKey = FALSE /\ ns = None /\ nameserver = None /\ http = None /\ responded = None
    /\ invoked = {} /\ had = FALSE /\ nsSteady = FALSE /\ many = [ns |-> 0, http |-> 0]

-----------------------------------------------------------------------------
(* The name server *)

StartNameServer(p) ==
    /\ ns = None /\ many.ns < MaxNs
    /\ many' = [many EXCEPT !.ns = @ + 1] /\ ns' = [at |-> p, no |-> many'.ns]
    /\ UNCHANGED <<gatewayKey, nameserver, http, responded, invoked, had, nsSteady>>

StopNameServer ==
    /\ ns # None /\ ns' = None /\ nsSteady' = FALSE
    /\ UNCHANGED <<gatewayKey, nameserver, http, responded, invoked, had, many>>

-----------------------------------------------------------------------------
(* Requests *)

MainOptions ==
    /\ many.http = 0 /\ ~gatewayKey /\ gatewayKey' = TRUE
    /\ UNCHANGED <<ns, nameserver, http, responded, invoked, had, nsSteady, many>>

Respond(code, why) == http' = None /\ responded' = [code |-> code, why |-> why]
Phase(p) == http' = [http EXCEPT !.phase = p] /\ UNCHANGED responded
kept == <<gatewayKey, ns, invoked, had, nsSteady, many>>

(* pyro_app *)
BeginRequest(r) ==
    /\ many' = [many EXCEPT !.http = @ + 1]
    /\ http' = [request |-> r, phase |-> "check", given |-> None] /\ responded' = None
    /\ had' = (nameserver # None /\ nameserver.conn # None) /\ nsSteady' = (ns # None)
    /\ UNCHANGED <<gatewayKey, ns, nameserver, invoked>>

(* Another method, or a path that is not of the gateway. *)
Refuse ==
    /\ http # None /\ http.phase = "check"
    /\ \E code \in {302, 404, 405} : Respond(code, "not for the gateway")
    /\ UNCHANGED <<kept, nameserver>>

(* The one in the header goes first. *)
KeyGiven(r) == IF r.header # None THEN r.header ELSE r.key

(* Mutant: the key in the query is left there. *)
CheckRequestKeepingKey ==
    /\ http # None /\ http.phase = "check"
    /\ LET r == http.request
       IN IF r.path = "/pyro/" THEN Phase("locate")
          ELSE IF gatewayKey /\ KeyGiven(r) # "right" THEN Respond(403, "key")
          ELSE IF r.name \notin Exposable THEN Respond(403, "name")
          ELSE http' = [http EXCEPT !.phase = "locate", !.given = KeyGiven(r)] /\ UNCHANGED responded
    /\ UNCHANGED <<kept, nameserver>>

(* process_pyro_request: the homepage needs no key. *)
CheckRequest ==
    /\ http # None /\ http.phase = "check"
    /\ LET r == http.request
       IN IF r.path = "/pyro/" THEN Phase("locate")
          ELSE IF gatewayKey /\ KeyGiven(r) # "right" THEN Respond(403, "key")
          ELSE IF r.name \notin Exposable THEN Respond(403, "name")
          ELSE /\ http' = [http EXCEPT !.phase = "locate",
                    !.request.key = IF gatewayKey THEN None ELSE @,
                    !.given = KeyGiven(r)]
               /\ UNCHANGED responded
    /\ UNCHANGED <<kept, nameserver>>

Locating == http # None /\ http.phase = "locate"
Located == Phase(IF http.request.path = "/pyro/" THEN "homepage" ELSE "lookup")

(* get_nameserver, the first time: locateNS finds whichever runs. *)
LocateNameServer ==
    /\ Locating /\ nameserver = None
    /\ IF ns = None THEN Respond(500, "NamingError") /\ UNCHANGED nameserver
       ELSE /\ nameserver' = [at |-> ns.at, conn |-> ns.no]
            /\ UNCHANGED <<http, responded>>
    /\ UNCHANGED kept

Alive == ns # None /\ nameserver.conn = ns.no
CanConnect == nameserver.conn = None /\ ns # None /\ ns.at = nameserver.at

(* Later: the proxy connects again if it lost its connection before. *)
PingNameServer ==
    /\ Locating /\ nameserver # None /\ (Alive \/ CanConnect)
    /\ nameserver' = [nameserver EXCEPT !.conn = ns.no] /\ Located
    /\ UNCHANGED kept

(* Mutant: the closed connection is an error of the request. *)
ConnectionLostRaised ==
    /\ Locating /\ nameserver # None /\ nameserver.conn # None /\ ~Alive
    /\ nameserver' = [nameserver EXCEPT !.conn = None] /\ Respond(500, "CommunicationError")
    /\ UNCHANGED kept

(* ConnectionClosedError: the name server is located anew... *)
ConnectionLost ==
    /\ Locating /\ nameserver # None /\ nameserver.conn # None /\ ~Alive
    /\ nameserver' = None /\ UNCHANGED <<kept, http, responded>>

(* ... but not when it cannot be connected to. *)
CannotConnect ==
    /\ Locating /\ nameserver # None /\ nameserver.conn = None /\ ~CanConnect
    /\ Respond(500, "CommunicationError") /\ UNCHANGED <<kept, nameserver>>

(* A timeout in ping or lookup closes the connection, and the proxy stays. *)
NameServerTimeout ==
    /\ http # None /\ http.phase \in {"locate", "lookup", "homepage"} /\ nameserver # None
    /\ nameserver' = [nameserver EXCEPT !.conn = None] /\ nsSteady' = FALSE
    /\ Respond(500, "TimeoutError")
    /\ UNCHANGED <<gatewayKey, ns, invoked, had, many>>

(* return_homepage: it has responded before it lists the names. *)
Homepage ==
    /\ http # None /\ http.phase = "homepage" /\ Respond(200, "homepage")
    /\ nameserver' = IF Alive THEN nameserver ELSE [nameserver EXCEPT !.conn = None]
    /\ UNCHANGED kept

Lookup(registered) ==
    /\ http # None /\ http.phase = "lookup"
    /\ nameserver' = IF Alive THEN nameserver ELSE [nameserver EXCEPT !.conn = None]
    /\ IF ~Alive THEN Respond(500, "ConnectionClosedError")
       ELSE IF ~registered THEN Respond(500, "NamingError: unknown name")
       ELSE Phase("call")
    /\ UNCHANGED kept

(* An attribute is not asked for with parameters, the key among them. *)
CallObject(outcome) ==
    LET r == http.request
        call == [http |-> many.http, given |-> http.given, key |-> r.key, name |-> r.name]
        refused == r.method = "attr" /\ (r.query \/ r.key # None)
    IN  /\ http # None /\ http.phase = "call"
        /\ invoked' = IF outcome = "unreachable" \/ r.method = "$meta" \/ refused THEN invoked
                      ELSE invoked \cup {call}
        /\ IF outcome = "unreachable" \/ refused THEN Respond(500, "error")
           ELSE IF r.method = "$meta" \/ outcome = "result" THEN Respond(200, "object")
           ELSE Respond(500, outcome)
        /\ UNCHANGED <<gatewayKey, ns, nameserver, had, nsSteady, many>>

GatewayNext ==
    \/ \E p \in NsPlace : StartNameServer(p)
    \/ StopNameServer \/ MainOptions
    \/ http = None /\ many.http < MaxHttp /\ \E r \in HttpRequest : BeginRequest(r)
    \/ Refuse \/ CheckRequest \/ LocateNameServer \/ PingNameServer \/ ConnectionLost
    \/ CannotConnect \/ NameServerTimeout \/ Homepage
    \/ \E registered \in BOOLEAN : Lookup(registered)
    \/ \E outcome \in {"unreachable", "result", "exception", "no reply"} : CallObject(outcome)

GatewaySpec == GatewayInit /\ [][GatewayNext]_gatewayVars

-----------------------------------------------------------------------------
(* Properties *)

(* What the gateway calls was asked for with the right key if it has one,  *)
(* on an exposed name, and is not given the key (lines 201-247).           *)
OnlyExposedCalled ==
    \A c \in invoked :
        /\ c.name \in Exposable
        /\ gatewayKey => c.given = "right" /\ c.key = None

(* When the connection that the gateway had to a name server turns out to  *)
(* be closed, the request is not lost: if a name server runs all the time  *)
(* meanwhile, wherever it is, it is asked (lines 43-53, 221-222).          *)
LostConnectionHidden ==
    had /\ nsSteady /\ responded # None =>
        responded.why \notin {"NamingError", "CommunicationError", "ConnectionClosedError"}

(* The gateway calls what may be called, and survives a name server that   *)
(* moves.                                                                  *)
GatewayInv == OnlyExposedCalled /\ LostConnectionHidden
=============================================================================
