----------------------------- MODULE SslContext ------------------------------
(***************************************************************************)
(* The SSL contexts that a process makes once and keeps                    *)
(* (socketutil.getSSLcontext).  No lock is held: threads may come between  *)
(* any two statements, and a context is in its global variable before it   *)
(* is complete.                                                            *)
(***************************************************************************)
EXTENDS Values, Naturals

CONSTANTS
    SslThread,      \* threads that make connections or a server
    File,           \* of "", not configured, "here", "missing" and "damaged"
    MaxContexts     \* bound: contexts

Purpose == {"server", "client"}
SslCall == [purpose : Purpose, cert : File, at : {"test", "create", "cert", "cas", "verify"}]

ASSUME SslAssumption ==
    /\ File \subseteq {"", "here", "missing", "damaged"} /\ MaxContexts \in Nat
    /\ None \notin SslCall \cup 1..MaxContexts

VARIABLES
    ssl,        \* SSL_SERVERCERT, SSL_CLIENTCERT, SSL_CACERTS, SSL_REQUIRECLIENTCERT; or None
    cached,     \* of each purpose: the number of the context in the global variable, or None
    contexts,   \* of each context: what is loaded, [cert, cas, required]
    contextsMade,   \* contexts so far
    sslCalls,   \* of each thread: [purpose, cert, at], or None
    sslFailed   \* history: has a call failed?

sslContextVars == <<ssl, cached, contexts, contextsMade, sslCalls, sslFailed>>

Fresh == [cert |-> FALSE, cas |-> FALSE, required |-> FALSE]

SslContextInit ==
    /\ ssl = None /\ contextsMade = 0 /\ sslFailed = FALSE
    /\ cached = [p \in Purpose |-> None] /\ contexts = [n \in 1..MaxContexts |-> Fresh]
    /\ sslCalls = [t \in SslThread |-> None]

ConfigureSsl ==
    /\ ssl = None
    /\ ssl' \in [server : File, client : File, cas : File, required : BOOLEAN]
    /\ UNCHANGED <<cached, contexts, contextsMade, sslCalls, sslFailed>>

-----------------------------------------------------------------------------
(* A server passes its certificate, a proxy its own; without a server      *)
(* certificate the call is one for a client's context.                     *)
GetSslContext(t, side) ==
    LET cert == IF side = "server" THEN ssl.server ELSE ssl.client
        purpose == IF side = "server" /\ cert # "" THEN "server" ELSE "client"
    IN  /\ ssl # None /\ sslCalls[t] = None
        /\ sslCalls' = [sslCalls EXCEPT ![t] = [purpose |-> purpose, cert |-> cert, at |-> "test"]]
        /\ UNCHANGED <<ssl, cached, contexts, contextsMade, sslFailed>>

GoesOn(t, at) == sslCalls' = [sslCalls EXCEPT ![t].at = at] /\ UNCHANGED sslFailed

(* What is returned is the context that is in the variable by then. *)
Returns(t) == sslCalls' = [sslCalls EXCEPT ![t] = None] /\ UNCHANGED sslFailed

Raises(t) == sslCalls' = [sslCalls EXCEPT ![t] = None] /\ sslFailed' = TRUE

IsCached(t) ==
    /\ sslCalls[t].at = "test" /\ cached[sslCalls[t].purpose] # None /\ Returns(t)
    /\ UNCHANGED <<cached, contexts, contextsMade>>

(* A server's certificate must be a file before there is a context. *)
NotCached(t) ==
    /\ sslCalls[t].at = "test" /\ cached[sslCalls[t].purpose] = None
    /\ IF sslCalls[t].purpose = "server" /\ sslCalls[t].cert = "missing" THEN Raises(t)
       ELSE GoesOn(t, "create")
    /\ UNCHANGED <<cached, contexts, contextsMade>>

CreateContext(t) ==
    /\ sslCalls[t].at = "create" /\ contextsMade < MaxContexts /\ contextsMade' = contextsMade + 1
    /\ cached' = [cached EXCEPT ![sslCalls[t].purpose] = contextsMade'] /\ GoesOn(t, "cert")
    /\ UNCHANGED contexts

(* What is loaded goes to the context that is in the variable now. *)
Loads(t, field, value) ==
    contexts' = [contexts EXCEPT ![cached[sslCalls[t].purpose]] = [@ EXCEPT ![field] = value]]

LoadCertificate(t) ==
    /\ sslCalls[t].at = "cert"
    /\ CASE sslCalls[t].cert = "" -> GoesOn(t, "cas") /\ UNCHANGED contexts
         [] sslCalls[t].cert = "here" -> GoesOn(t, "cas") /\ Loads(t, "cert", TRUE)
         [] sslCalls[t].cert \in {"missing", "damaged"} -> Raises(t) /\ UNCHANGED contexts
    /\ UNCHANGED <<cached, contextsMade>>

(* Mutant: only a server trusts the configured authorities. *)
LoadAuthoritiesOfServer(t) ==
    /\ sslCalls[t].at = "cas"
    /\ IF ssl.cas \in {"missing", "damaged"} THEN Raises(t) /\ UNCHANGED contexts
       ELSE GoesOn(t, "verify")
            /\ IF ssl.cas = "" \/ sslCalls[t].purpose = "client" THEN UNCHANGED contexts
               ELSE Loads(t, "cas", TRUE)
    /\ UNCHANGED <<cached, contextsMade>>

LoadAuthorities(t) ==
    /\ sslCalls[t].at = "cas"
    /\ IF ssl.cas \in {"missing", "damaged"} THEN Raises(t) /\ UNCHANGED contexts
       ELSE GoesOn(t, "verify") /\ IF ssl.cas = "" THEN UNCHANGED contexts ELSE Loads(t, "cas", TRUE)
    /\ UNCHANGED <<cached, contextsMade>>

SetVerifyMode(t) ==
    /\ sslCalls[t].at = "verify" /\ Returns(t)
    /\ IF sslCalls[t].purpose = "server" THEN Loads(t, "required", ssl.required) ELSE UNCHANGED contexts
    /\ UNCHANGED <<cached, contextsMade>>

SslContextNext ==
    \/ ConfigureSsl
    \/ \E t \in SslThread :
        \/ \E side \in Purpose : GetSslContext(t, side)
        \/ /\ sslCalls[t] # None /\ UNCHANGED ssl
           /\ \/ IsCached(t) \/ NotCached(t) \/ CreateContext(t)
              \/ LoadCertificate(t) \/ LoadAuthorities(t) \/ SetVerifyMode(t)

SslContextSpec == SslContextInit /\ [][SslContextNext]_sslContextVars

-----------------------------------------------------------------------------
(* Properties *)

Configured(p) ==
    [cert |-> IF p = "server" THEN ssl.server # "" ELSE ssl.client # "",
     cas |-> ssl.cas # "", required |-> p = "server" /\ ssl.required]

(* When no call is under way and none has failed, the context that further *)
(* calls will get is complete, however many threads made one at a time and *)
(* loaded theirs into another's; unless a server that has no certificate   *)
(* took the client's (lines 574-621).                                      *)
ContextComplete ==
    ssl # None /\ ~sslFailed /\ (\A t \in SslThread : sslCalls[t] = None) /\ ssl.server # "" =>
        \A p \in Purpose : cached[p] # None => contexts[cached[p]] = Configured(p)
=============================================================================
