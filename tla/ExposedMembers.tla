--------------------------- MODULE ExposedMembers ---------------------------
(***************************************************************************)
(* What a class exposes (core.expose, util.get_exposed_members), what a    *)
(* proxy knows of it from the handshake or from get_metadata, and what the *)
(* daemon lets through.  The members of a class are computed once and      *)
(* cached until resetMetadataCache.                                        *)
(***************************************************************************)
EXTENDS Values, Naturals, FiniteSets

CONSTANTS
    Member, Private,    \* names of members; those that is_private_attribute refuses
    Simple,             \* bound: members that are methods of the class itself
    MaxSteps            \* bound: changes of the class and of the configuration

VARIABLES
    members,    \* of each member of the class: [parts, own], or None at first
    tagged,     \* its functions with _pyroExposed: <<member, part>>
    requireExpose,      \* config.REQUIRE_EXPOSE
    cache,      \* __exposed_member_cache: by only_exposed and as_lists
    methods, attrs,     \* _pyroMethods and _pyroAttrs of the proxy
    connected,  \* is the proxy connected?
    outdated,   \* history: by only_exposed, has the class changed since the last
                \* reset while its members were cached?
    stale,      \* history: may the proxy know other members than the class has?
    steps

exposedVars ==
    <<members, tagged, requireExpose, cache, methods, attrs, connected, outdated, stale, steps>>
proxyVars == <<methods, attrs, connected>>

(* A method is its function, a property its accessors, and anything else   *)
(* has no function that could be tagged.  What is read from a member that  *)
(* is no method may be callable, and tagged itself (a class, say).         *)
Shapes ==
    {s \in [parts : {{"call"}, {"fget"}, {"fset"}, {"fdel"}, {"fget", "fset"}, {}},
            own : BOOLEAN, value : {"plain", "callable", "exposed"}] :
        s.value # "plain" => s.parts = {} \/ "fget" \in s.parts}

IsPrivate(m) == m \in Private     \* is_private_attribute
IsMethod(m) == members[m].parts = {"call"}
IsProperty(m) == members[m].parts \cap {"fget", "fset", "fdel"} # {}

(* fget or fset or fdel *)
FirstOf(m) ==
    CASE "fget" \in members[m].parts -> "fget"
      [] "fget" \notin members[m].parts /\ "fset" \in members[m].parts -> "fset"
      [] OTHER -> "fdel"

Tagged(m, part) == <<m, part>> \in tagged \/ ~requireExpose

ExposedInit ==
    /\ members = None /\ tagged = {} /\ requireExpose = TRUE
    /\ cache = [k \in BOOLEAN \X BOOLEAN |-> None]
    /\ methods = {} /\ attrs = {} /\ connected = FALSE
    /\ outdated = [k \in BOOLEAN |-> FALSE] /\ stale = FALSE /\ steps = 0

Define ==
    /\ members = None /\ members' \in [Member -> Shapes]
    /\ \A m \in Simple : members'[m] = [parts |-> {"call"}, own |-> TRUE, value |-> "plain"]
    /\ UNCHANGED <<tagged, requireExpose, cache, proxyVars, outdated, stale, steps>>

-----------------------------------------------------------------------------
(* The class and the configuration change. *)

Change ==
    /\ members # None /\ steps < MaxSteps /\ steps' = steps + 1 /\ stale' = TRUE
    /\ UNCHANGED <<members, proxyVars>>

ClassChanges ==
    /\ Change
    /\ outdated' = [k \in BOOLEAN |-> outdated[k] \/ \E l \in BOOLEAN : cache[<<k, l>>] # None]
    /\ UNCHANGED <<requireExpose, cache>>

(* @expose on a member refuses private names. *)
Expose(m) ==
    /\ ClassChanges
    /\ ~IsPrivate(m) /\ members[m].parts # {}
    /\ tagged' = tagged \cup {<<m, IF IsMethod(m) THEN "call" ELSE FirstOf(m)>>}

(* @expose on the class tags what it defines itself. *)
ExposeClass ==
    /\ ClassChanges
    /\ tagged' = tagged \cup
        UNION {{m} \X members[m].parts : m \in {x \in Member : ~IsPrivate(x) /\ members[x].own}}

SetRequireExpose ==
    /\ Change /\ requireExpose' = ~requireExpose
    /\ UNCHANGED <<tagged, cache, outdated>>

(* Mutant: the members as lists, which the handshake sends, stay cached. *)
ResetOfSets ==
    cache' = [k \in BOOLEAN \X BOOLEAN |-> IF k = <<requireExpose, FALSE>> THEN None ELSE cache[k]]

Reset ==
    cache' = [k \in BOOLEAN \X BOOLEAN |-> IF k[1] = requireExpose THEN None ELSE cache[k]]

ResetMetadataCache ==
    /\ members # None /\ steps < MaxSteps /\ steps' = steps + 1
    /\ Reset
    /\ outdated' = [outdated EXCEPT ![requireExpose] = FALSE]
    /\ UNCHANGED <<members, tagged, requireExpose, proxyVars, stale>>

-----------------------------------------------------------------------------
(* get_exposed_members *)

ExposedMethods == {m \in Member : ~IsPrivate(m) /\ IsMethod(m) /\ Tagged(m, "call")}

ExposedAttrs == {m \in Member : ~IsPrivate(m) /\ IsProperty(m) /\ Tagged(m, FirstOf(m))}

(* The metadata that the daemon returns, from the cache if it can. *)
Metadata(lists) ==
    IF cache[<<requireExpose, lists>>] # None THEN cache[<<requireExpose, lists>>]
    ELSE [methods |-> ExposedMethods, attrs |-> ExposedAttrs]

GetMetadata(lists) ==
    LET known == Metadata(lists)
    IN  /\ cache' = [cache EXCEPT ![<<requireExpose, lists>>] = known]
        /\ methods' = known.methods /\ attrs' = known.attrs
        /\ stale' = outdated[requireExpose]
        /\ UNCHANGED <<members, tagged, requireExpose, outdated, steps>>

(* The handshake sends the members as lists.  If there are none the proxy  *)
(* raises and stays as it is.                                              *)
BindProxy ==
    /\ members # None /\ ~connected
    /\ GetMetadata(TRUE)
    /\ connected' = (methods' \cup attrs' # {})

Release ==
    /\ connected /\ connected' = FALSE
    /\ UNCHANGED <<members, tagged, requireExpose, cache, methods, attrs, outdated, stale, steps>>

(* A proxy on an existing socket, which made no handshake, calls           *)
(* get_metadata.                                                           *)
AskMetadata ==
    /\ members # None /\ connected /\ methods \cup attrs = {}
    /\ GetMetadata(FALSE) /\ UNCHANGED connected

ConnectSocket ==
    /\ members # None /\ ~connected /\ methods \cup attrs = {} /\ connected' = TRUE
    /\ UNCHANGED <<members, tagged, requireExpose, cache, methods, attrs, outdated, stale, steps>>

ExposedNext ==
    \/ Define \/ ExposeClass \/ SetRequireExpose \/ ResetMetadataCache
    \/ BindProxy \/ Release \/ AskMetadata \/ ConnectSocket
    \/ \E m \in Member : Expose(m)

ExposedSpec == ExposedInit /\ [][ExposedNext]_exposedVars

-----------------------------------------------------------------------------
(* An access to a member: __getattr__ and __setattr__ of the proxy,        *)

Access == {"call", "get", "set"}

Passes(op, m) == IF op = "call" THEN m \in methods ELSE m \in attrs

(* and on the daemon's side getAttribute for a call, which takes whatever  *)
(* getattr returns, get_exposed_property_value and                         *)
(* set_exposed_property_value.                                             *)

Callable(m) ==
    IF IsMethod(m) THEN Tagged(m, "call")
    ELSE members[m].value = "exposed" \/ (members[m].value = "callable" /\ ~requireExpose)

Executes(op, m) ==
    CASE op = "call" -> ~IsPrivate(m) /\ Callable(m)
      [] op = "get" -> "fget" \in members[m].parts /\ Tagged(m, "fget")
      [] op = "set" -> "fset" \in members[m].parts /\ Tagged(m, FirstOf(m))

Accessor(op) == CASE op = "call" -> "call" [] op = "get" -> "fget" [] op = "set" -> "fset"

-----------------------------------------------------------------------------
(* Properties *)

(* A proxy that learned the members after the last change, or after a      *)
(* reset that followed it, lets a call or an access pass if the daemon     *)
(* executes it, and the daemon executes what it lets pass if the member    *)
(* has such a function: two pieces of code judge separately (util lines    *)
(* 838-851 and 895-975, core lines 268-298), one of them from a cache.     *)
(* Private names, which proxies never let pass, are apart; and so is the   *)
(* call of a member that is callable and not a method, which the daemon    *)
(* executes although it lists no such member.                              *)
ProxyAgrees ==
    methods \cup attrs # {} /\ ~stale =>
        \A op \in Access, m \in Member :
            /\ Passes(op, m) /\ Accessor(op) \in members[m].parts => Executes(op, m)
            /\ Executes(op, m) /\ ~IsPrivate(m) =>
                Passes(op, m) \/ (op = "call" /\ ~IsMethod(m))

-----------------------------------------------------------------------------
(* What a docstring says, which the code does not keep.                    *)

(* util.py:901: "If it is False, all public members are returned" -- so    *)
(* that, without REQUIRE_EXPOSE, a proxy lets pass every call of a public  *)
(* member that the daemon executes.                                        *)
AllReturned ==
    methods \cup attrs # {} /\ ~stale /\ ~requireExpose =>
        \A m \in Member : Executes("call", m) => Passes("call", m)
=============================================================================
