# Pyro4 in TLA+

Pyro4 lets Python programs call methods of objects in other processes. This
directory holds TLA+ models of `src/src/Pyro4` and of one of its larger examples,
the TLC runs that check them, and TLAPS proofs about six components and all nineteen
of the smaller parts. Line numbers in
comments refer to the files of `src/src/Pyro4`; `PROJECT.json` maps every definition
to the lines it models.

## The system

A *client* holds a `Proxy`. A method call on it connects to the *daemon* if need
be, sends a request with a sequence number and waits for the reply. The daemon's
*transport server* accepts connections and reads requests: the thread server gives
every connection to a worker of a pool; the multiplex server serves all of them
in one thread; a third server works on one socket that already exists. The daemon
finds the object by its id, makes an instance if a class is registered, calls the
method and replies. If the method returns a generator, the daemon keeps it in a
table of streams and the client asks for its items one at a time. Arguments and
results go through a *serializer* into *messages* over a *socket*. The *name
server* is itself a Pyro object: a map from names to URIs, over one of three
storages, with a thread that removes names nobody answers for, and a thread that
answers broadcasts of clients that look for it.

| component | state it keeps | operations | what is hard |
|---|---|---|---|
| worker thread pool | idle, busy, closed; per worker job and event | process, close, run, notify_done | no lock; sets are swapped and counted while threads move between them |
| remote method calls | proxy: connection, sequence number, lock, retries left; server: requests and replies in flight | invoke, retry, release, handleRequest, oneway threads | late replies, broken connections, retries, numbers that wrap, a proxy shared by threads |
| item streams | streaming_responses: stream, client, two time stamps | next item, close, disconnect, housekeeping, reconnect | a dict changed by workers, housekeeper and oneway threads without a lock |
| object registry and instances | objectsById, _pyroId; single and session instances; one lock | register, unregister, find or make an instance | first calls that race, creators that raise, connections that are made again |
| daemon life cycle, server loops | two events, transportServer, sockets, selector, housekeeper | requestLoop, shutdown, close, accept, deny, housekeeping | shutdown against a running loop, from a request of that loop, from several threads; refusal of a client in the accept loop |
| name server and storages | entries (URI, metadata), a lock, rows and ids in SQL, a schema | register, remove, list, set_metadata, lookup, upgrade | what the lock does not cover; iteration over a dict that changes; a crash between statements |
| automatic cleaner | unreachable: since when, by name | a pass over all names | its list is stale when it removes; clients re-register meanwhile |
| futures, asynchronous proxies | call_delay, cancelled, completed, chain; value, ready, lock | call, delay, cancel, then, iferror | test and assignment in two steps; chains that grow while they are walked; a retry around it all |
| batches | the calls collected | add, call, oneway, asynchronous | an error in the middle, a batch that is sent again |
| call context, tracked resources | current_context of each thread, response annotations, resources of a connection | call, oneway thread, track, close | a dict shared by two threads; a set that changes while it is iterated over |
| exposed members | a cache by class and configuration, the proxy's copy | expose, metadata, access | two judges of one question, one of them from a cache |
| name server lookup, broadcast | none; the proxy's URI and connection | locateNS, resolve, reconnect | order of attempts; lost, late and doubled datagrams; names that move |
| starting and ending servers | socket, storage, cleaner, broadcast server, their threads | startNS, startNSloop, serveSimple, the echo server's main | steps that fail in the middle, threads that end late |
| wire messages, sockets, TLS | bytes sent and received; two cached SSL contexts | to_bytes, recv, receiveData, sendData, createSocket, getSSLcontext | partial transfers, wrapping numbers, two versions of IP, a global that is used half made |
| serializers, blobs, addresses | registries of converters | dumps, loads, exceptions, URIs, AUTOPROXY | serializers that must agree; ids that are given again |
| configuration | one record | reset from the environment | a reset that breaks off |
| nsc, HTTP gateway, flame, message bus | a proxy of the name server; sys.stdout and sys.modules; topics and queues | commands, requests, consoles, deliveries | a name server that moves; output that is redirected for all; a bus that crashes |

What makes each of them correct is stated as the properties below. `PROJECT.json`
lists the hazards that matter most, each at its line, with the properties that
would catch it going wrong.

## The modules

    ThreadPool <- MCThreadPool
    RemoteCall <- (INSTANCE) ProxyCall <- MCProxyCall, ProxyCallProofs
    DaemonService <- (INSTANCE) DaemonLoop <- MCDaemonLoop, DaemonLoopProofs
    ItemStream <- MCItemStream, ItemStreamProofs
    NameServer <- AutoCleaner <- AutoCleanerProofs
    NameTable <- (INSTANCE) NameStorage <- MCNameStorage
    MessageChannel <- (INSTANCE) MessageStream
    NameStorage, WireMessage, MessageStream, Serializing, ExposedMembers, CallContext,
    Addresses, BatchCall, NameLookup, MessageBus, BlobMessage, HttpGateway, FlameServer,
    Sockets, SslContext, Resolving, Serving, Configuration, ObjectRegistry <- MCParts
    ThreadPool, WireMessage, MessageStream, Serializing, MessageBus <- TransportProofs
    Futures, BatchCall, ExposedMembers <- ClientProofs
    ObjectRegistry, CallContext, BlobMessage, Serving, HttpGateway, FlameServer,
    Configuration, SslContext <- ServerProofs
    NameStorage, NameLookup, Resolving, Addresses, Sockets <- NamingProofs

**ThreadPool** (`socketserver/threadpool.py`). One action per read or write of an
attribute or operation on a set. `apc` is the step of the request loop in
`Pool.process`, `wpc[w]` that of worker `w` in `Worker.run` and `notify_done`,
`cpc[c]` that of a thread in `Pool.close`. `idle`, `busy`, `closed`, `job[w]` and
`event[w]` are the attributes of these names; `status` and `running` are history.

**ProxyCall** (`core.Proxy._pyroInvoke`, `_RemoteMethod`, `Daemon.handleRequest`
and the server's loop over a connection). A connection is a pair of queues, `req`
and `rep`, that may break at any step and lose what is in them. Client threads
share the proxy (`conn`, `seq`, `lock`) and retry; the server reads, executes,
replies or drops the connection. **RemoteCall** is the abstract promise: a method
is run at most once per attempt, a normal return means that it was run, every call
ends. `KeepsPromise` is the refinement: `outcome` and `executed` are history
variables of ProxyCall.

**DaemonLoop** (`Daemon.requestLoop`, `shutdown`, `close`, and the loops of the three
transport servers). `loop` is the step of the thread in requestLoop, `spc[s]` that
of a thread that calls shutdown or close, or of a request that the loop is serving
itself; `sock`, `transport`, `poolOpen`, `selectorOpen` and the events are the
attributes they share. A client connects, speaks or stays silent, and may leave. What
close() unsets while the loop is using it is an exception there: `AssertSocket` and
`AcceptFails` (the assertion of events() and the accept), `Disconnect` (the connection of
an existing socket), `Join` (the second of two threads that join the housekeeper).
**DaemonService** is the abstract promise: a daemon serves until it is asked to stop,
stops when it is, and serves, refuses or drops every client that it accepts.

**ItemStream** (`_StreamResultIterator`, `_streamResponse`, `get_next_stream_item`,
`close_stream`, `_clientDisconnect`, `_housekeeping`). `table` is
`streaming_responses`; a time stamp is "new" until it is past its limit. In the
multiplex server a request, a disconnect, a round of housekeeping and a oneway call that
has no thread of its own finish before the next one begins.

**NameServer** (`naming.py`, `naming_storage.py`). `table` is the storage; `pc[t]`
and `op[t]` are the step and the operation of a server thread. The three storages
differ in which of a method's steps other threads can come between, in whether a
changed dict stops an iteration, and in the ids of SQL rows. Clients name any name,
the name server's own too, and the database may fail (`StorageFails`). **AutoCleaner**
adds the cleaner's thread, the servers behind the URIs that come and go, and
`unreachable`; a URI in `Unaddressed`, such as that of a Unix domain socket, has no
host and port to connect to, and ends the thread (`ProbeRaises`).

**NameStorage** (`MemoryStorage`, `SqlStorage`, `DbmStorage`, one call at a time).
The methods of SqlStorage are lists of statements; a process may crash between two of
them and start again on the file, whose schema may be an old one. Each read is an
operator, and the optimized searches of SQL and dbm are compared with a search over
all entries: `Begins` are the names with a prefix, `Alike` those that LIKE gives, and
`ListAllGiven` is told how many tags an iterable had, repetitions included. **NameTable** is the map that all three refine.

**Futures** (`futures.py`, `_AsyncRemoteMethod`). One result, filled by the thread
of a `Future` or of an asynchronous proxy's call, while user threads start, cancel,
delay and extend it. A value is the sequence of the chained calls that made it.

**ObjectRegistry** (`Daemon.register`, `unregister`, `_getInstance`, the lookup in
`handleRequest`, the instances of a `SocketConnection`). `objectsById` and `pyroId`
change one dict operation or attribute at a time; `cpc[c]` is the step of the worker
of connection `c`; `lock` is `create_single_instance_lock`. Creators may raise, and
instances of a class in `Sized` may be false: no class of the run is, the theorems hold
for any.

**MessageStream** (`sendData`, `receiveData`, `Message.recv`) has bytes that carry the
message they belong to, so that a byte read twice or left out is seen; **MessageChannel**
is the queue of whole messages that it implements. **WireMessage** (`message.py`) is one
message on its way: its header's fields and limits, its checksum and HMAC as
functions of what they digest, a change on the wire (of any field by one of `Changes`,
of the reserved one, of data or annotations), and the receiver's tests and reads.

**Serializing** (the serializers of `util.py`, `SerializerBase`'s registries, the
errors that a daemon sends), **BlobMessage** (`SerializedBlob`), **Addresses** (`URI`,
`uriFor`, `register`, AUTOPROXY) and **ExposedMembers** (`expose`,
`get_exposed_members`, the proxy's and the daemon's tests) follow one value, blob, URI
or class through the operators that convert it, while registrations, the
configuration or the class change. A value of Serializing is the sequence of the
containers and objects in one another, from the outermost one to what is in none, so
that what a serializer does with it is said node by node, at any depth: each of them
has one item, as no serializer treats two items differently. In Addresses an id with a
"@" inside has the id before it in `CutId` and the text behind it in `Behind`, which is
where `Parse` cuts a URI's text. In ExposedMembers a member may be callable without
being a method.

**CallContext** (`_CallContext`, `handleRequest`, `SocketConnection.close`): `context`
has an entry for the thread that serves and one for each thread of a oneway call; two
contexts may share one dict of response annotations; a nested call takes along the
correlation id of its thread and the annotations of the request; the close of a
connection is a loop that fails when the set changes.

**BatchCall** (`_BatchProxyAdapter` and the batch loop of `handleRequest`):
`callsQueued` is the adapter's list, `orders` what reaches the daemon. An asynchronous
batch first copies the adapter (`CopyAdapter`), while the list goes on growing.

**NameLookup** (`_locateNS`, `BroadcastServer`): the client's attempts in their order,
datagrams in flight, sockets that fail, a name server that starts and stops. **Resolving** (`_resolve`,
`_pyroReconnect`, `nsc.py`): proxies of names, and people and daemons that change what
the names mean. **Serving** (`startNSloop`, `serveSimple`, the echo server's main):
what a program opens and closes, step by step, each of which may fail.

**Sockets** (`getIpAddress`, `bindOnUnusedPort`, `createSocket`): the address
and version of IP that each side chooses, ports, and backlogs. **SslContext** (`getSSLcontext`):
statement by statement, in several threads. **Configuration** (`Configuration.reset`):
item by item, with a daemon that may be made in between.

**HttpGateway**, **FlameServer** (`utils/`) and **MessageBus** (`examples/messagebus`) are
programs on top of proxies: what they keep between requests and who may change it.

Mutated forms of definitions (comment "Mutant:") stand before the definition they
break. They are used by the mutation tests in `PROJECT.json` only. A run's invariant
may be a conjunction (`PoolInv`, `StreamInv`, ...); then most of its parts have a mutant
of their own.

## The runs

Passing runs:

| run | bounds | what it shows |
|---|---|---|
| `pool` | 3 workers, 2 jobs, 1 closer, sizes 1 to 2 | as long as nobody closes the pool an idle worker is ready, no accepted job is lost, the minimum is kept, accepted jobs are called; close() at any moment: no job with two workers, the sets stay disjoint, a surplus worker ends |
| `calls` | 2 threads sharing a proxy, 2 calls, 2 connections, 1 retry; three configurations | no call ends with another's reply; a kept connection has nothing under way; the whole implements RemoteCall |
| `stream_linger` | 2 streams of 2 items, 2 connections, every server kind, with and without linger and lifetime; the second stream as long as there is one connection and no linger | items complete and in order, never repeated; a stream that stays with a connection that is gone was cut off by a KeyError in its disconnect, not in a multiplex server without oneway threads; that server's loop survives its housekeeping; a lingering stream goes in the end |
| `names` | 2 clients with 2 operations between them on 1 name and the name server's own, the cleaner, 2 URIs (one without host and port), 1 error of the database, three storages | "safe" never replaces, metadata goes with the URI that the name has or had last, the name server keeps its entry, row ids differ, a name registered once has its grace, dead names go unless the cleaner's thread has ended, for a reason it can have |
| `futures` | 2 users, 2 chained calls, 1 retry, 1 delay | started once, composed in order, cancelled in time, final, arrives |
| `loop` | two clients or two threads that shut down (with one client), each transport server | shutdown and close end and have released everything; the whole implements DaemonService |
| `parts` | see below | the parts that share no state, each in behaviours of its own |

The bounds are small because each property talks about one resource and the two or
three actors that can meet at it. Three workers give the pool one that is idle,
one that is busy and one in transit; two jobs, one accepted and one being offered.
Two threads and one retry are what it takes for a late reply to meet another call,
and sequence numbers of one bit in the configuration that closes after an error
make them meet as often as possible. Two connections are the one in use and the one
it replaced, which lives on at the server; what is sent on one never reaches another.
One stream is enough for what a stream's items go through, because streams share nothing
but the table, whose keys are independent; the loop of a disconnect over a connection's
streams is what the second one is for, and it deletes only without lingering. The theorems about streams hold for
any number. `MCThreadPool`, `MCDaemonLoop` and `MCItemStream`
leave out combinations that are permutations of others (`c2` before `c1`), and a
third actor where two are what a race takes. `CHECK_DEADLOCK FALSE` is set
where the program really stops: all calls are made, the pool has been closed, all
operations are used up.

**`parts`.** Nineteen modules share no variable. `MCParts` puts them side by side:
the first step of a behaviour chooses one, and only this one goes on, so that the
state space is their sum and not their product. What each part's bounds contain:

| part | bounds | property |
|---|---|---|
| NameStorage | 2 names, one of which only LIKE gives for the prefix, 1 URI, 2 tags, 3 calls, a crash between any two statements, old, current and no database | `StorageInv`: rows and metadata fit, all reads agree where the code lets them; `StoresTable`: the storages implement NameTable |
| WireMessage | fields at 65535 and 65536, sizes at and over the limits, no or 1 annotation, two keys, a field changed by 1, 65535 or 65536 either way, the reserved field, the data | `WireInv`: received as sent, or refused, but for a size that is off by 65536 where no key is used |
| MessageStream | messages of 3+3, 3+0 and 3+2 bytes, buffers of 2, with and without MSG_WAITALL | `WholeMessages`; `StreamIsChannel`: implements MessageChannel |
| Serializing | objects of core, exception and other classes, UUIDs, complex numbers and dates in containers and wrappers; arguments, results and errors in seven serializers; a receiver that has the classes or has not | `SerializingInv`: round trips; only known classes |
| ExposedMembers | one member of every shape and two methods, 3 changes | `ProxyAgrees`: the proxy and the daemon judge alike, callable members that are no methods apart |
| CallContext | 2 connections, 4 requests, 2 actions of the program's code (one may be a nested call), 2 resources | `ContextInv`: replies and nested calls carry their own; a gone connection has closed its resources |
| Addresses | 2 objects, 3 ids (one with a "@", one with a space), 2 registrations, hosts and sockets of each kind, NAT, AUTOPROXY on and off, five serializers | `AddressInv`: URIs that were read survive their text; proxies lead back, ids with a "@" apart |
| BatchCall | 2 calls, 2 batches, 1 retry | `BatchInv`: results in order; executed once |
| NameLookup | 2 networks, 1 start, 2 lookups | `LookupInv`: what is found leads to a name server; none is missed unless a socket fails |
| MessageBus | 1 topic, 1 subscriber, 2 messages, batches and queues of 1, 1 retry, crashes | `BusInv`: kept until delivered, in order |
| BlobMessage | a client and two servers, 2 serializers, 2 hops | `BlobKept` |
| HttpGateway | 2 places of the name server, 2 starts, 2 requests | `GatewayInv`: only what is exposed, with its key; a lost connection is hidden |
| FlameServer | 2 consoles, modules `a` and `a.b`, 2 calls | `FlameInv`: output comes back to its console; modules are found |
| Sockets | 2 processes with any preference, 4 kinds of host, 3 sockets, a backlog of 1 | `MeetsServer` |
| SslContext | 2 threads, files here, missing, not set | `ContextComplete` |
| Resolving | 1 name, 2 locations, 1 tag, 1 proxy, 2 commands, 2 connections, 2 tries, 1 outage | `ConnectsAsMeant` |
| Serving | 3 processes or threads, 2 starts, 5 setups | `ServingInv`: ended programs hold nothing; named objects are served |
| Configuration | an item of each type, 2 resets | `MadeFromComplete` |
| ObjectRegistry | 2 connections, one made twice; a class of each mode; 1 registration or removal | `InstanceInv`, `SessionsApart` |

Two is again the number of actors that can disagree; the boundary values (65535, a
backlog or queue of 1, a buffer shorter than a message) stand for their real
counterparts, at which the same branch is taken. A second connection of the first
client (`Reconnects`) is what tells a session from its successor.

Runs that end in a violation; each is a disagreement between the code and what it
or its documentation says:

| run | property | what happens |
|---|---|---|
| `call_nested` | `OwnAnswer` | an error reply takes its sequence number from an exception of a nested call, and a later call takes it for its own |
| `futures_cancel` | `CancelHonoured` | cancel() returns True, and the callable is called afterwards |
| `loop_abort` | `NoAbort` | a refused client that has gone ends the thread server's loop with an exception |
| `storage_upgrade` | `UpgradeKeepsNames` | a crash in the upgrade of the schema, and the next start finds no names |
| `stream_orphan` | `NoOrphan` | without lingering, a oneway close_stream between the test and the `del` of a disconnect makes it raise KeyError, and the connection's other stream stays for good |

The modules state eleven more properties that a doc, a comment or a docstring promises
and the code does not keep. What it keeps of each is part of a passing run, with the
exception spelled out; the property without it has no run of its own, but TLC refutes it
on the instance in the last column (the other constants as in the run of the module).

| property | what happens | kept instead | instance |
|---|---|---|---|
| `DataRetrieved` (BlobMessage) | a blob's data, sent with json, comes out as its key `params` | `BlobKept` | as in `parts` |
| `RemovesMatched` (AutoCleaner) | in SqlStorage, a removal by regex deletes a name that does not match: it selected an id that another name has got since | `NameServerKept` | 2 names, 1 URI, no tag, filter of 1 name, 4 operations |
| `UpdatesExisting` (AutoCleaner) | set_metadata registers anew a name that a removal without the lock has deleted since it was read | `RegistrationsKept` | 1 name, 1 tag, 2 operations |
| `Grace` (AutoCleaner) | a name that is registered again inherits its predecessor's time at the cleaner | `FirstGrace` | 1 name, 2 URIs, 2 operations, 1 flip |
| `DeadNamesGone` (AutoCleaner) | the URI of a Unix domain socket ends the cleaner's thread with a TypeError, and dead names stay | `DeadNamesGo` | 2 names, 2 URIs, one of them unaddressed |
| `PrefixExact` (NameStorage) | SqlStorage lists names that are LIKE the prefix and do not start with it | `ReadsAgree` | 1 call |
| `SearchExact` (NameStorage) | SqlStorage finds nothing when an iterable of tags has one of them twice | `ReadsAgree` | 1 call |
| `AllReturned` (ExposedMembers) | without REQUIRE_EXPOSE the daemon executes callable members that it does not list, and that a proxy therefore stops | `ProxyAgrees` | as in `parts` |
| `LeadsBackAlways` (Addresses) | an object that is registered as `a@b` is passed as a proxy of the object `a` at `b@host` | `LeadsBack` | as in `parts` |
| `NeverMissed` (NameLookup) | an error of the broadcast's socket leaves _locateNS before NS_HOST is tried | `NotMissed` | as in `parts` |
| `EndsCleanly` (DaemonLoop) | a shutdown unsets the socket that the loop is about to use, and it ends with an AssertionError or AttributeError | `Released`, `ServesUntilAsked` | 1 thread that shuts down, the thread server |

Other disagreements that were met and have no run: a worker on its way from busy to
idle is counted nowhere, so that one more than `THREADPOOL_SIZE` may be created; a
oneway close_stream in a thread of its own can end the multiplex server's loop;
in SqlStorage the name server's own row has another id once a client has registered
the name server's name or set its metadata, and a removal that has selected this id for
another name deletes it (`NameServerKept` says until when it is safe); two
threads removing one name or unregistering one object (KeyError); a lookup in
SqlStorage that reads two states; unregister() of an object whose id now belongs to
another; the checksum of 16 bits, which takes a data size that is off by a multiple of
65536 (`SizeWrapped`), and does not cover the reserved field; the message bus with SQLite
can forget messages of a failed delivery when it
crashes between two removals (`NoneLost` in MessageBus states the contrary, and TLC
refutes it); a thread can be given an SSL context that another is still
completing; DbmStorage matches a regex to the end of the name and the other storages
do not.

## Fairness

Liveness is checked under weak fairness of threads: the interpreter schedules every
thread that can run, so a worker, a client thread, a closer or the background thread
of a future that has a step takes it. What goes beyond that:

- `ProxyCall`: on an existing socket, which is never released, a caller waits
  until its timeout passes, so the timeout is fair there. Elsewhere a broken
  connection ends the wait.
- `DaemonLoop`: the loop, the housekeeper and each thread that shuts down are
  scheduled, and sleep() orders nothing. A client that the loop is blocked on speaks
  or leaves: without it `COMMTIMEOUT` 0, the default, lets a silent client hold a
  loop for good. No fairness makes a client connect.
- `ItemStream`: time passes (`LingerPasses`), and the housekeeper comes round
  again and again (strong fairness of `HousekeepingStarts`, because in the
  multiplex server it is enabled only between requests).
- `AutoCleaner`: clients' operations end, the cleaner's rounds go on as long as its thread
  lives, and time passes (`TimePasses`). No fairness makes a database fail.
- `Futures`: callables that an application gives to a future return or raise. That
  the server binds a connection is not assumed: `ResultArrives` has it as its
  premise, since a full thread pool refuses connections for as long as it is full.
- `ThreadPool`: nothing obliges a client to connect or a job to end (it lasts as long
  as its connection), and no property needs it.
- The parts state safety only.

## What is proved

Eight modules hold the proofs. Four are about one component each; **TransportProofs**,
**ClientProofs**, **ServerProofs** and **NamingProofs** have a section for each of several
parts, which share no variable.

**ThreadPool** (TransportProofs), for any finite set of workers, any jobs and closers, with
`1 <= SIZE_MIN <= SIZE`, at least `SIZE_MIN` thread objects, and `None` no job and
no worker (`SizeAssumption`, `WorkerAssumption`, `NoneAssumption`): `PoolInv`, that
is `TypeOK`, `Disjoint`, `OneWorkerPerJob`, `IdleReady` and `JobKept`, each a theorem
of its own, and `MinimumKept`. The inductive invariant has three layers. `Typed` adds
to `TypeOK` that the worker that process() has picked is one (`AddBusy` adds it to a
set of workers). `BaseInv` holds even while the pool is being closed: the offered job
is nobody's, an idle worker has no job and is not busy, a worker on its way back has
none, and the history agrees. `OpenInv` holds until somebody closes the pool; it
needs `EventInv` (an event is set only between the signal and the clear) and
`HandInv` (the worker that a job is being handed to still waits), because `IdleReady`
and `JobKept` alone say nothing of a worker between two sets. `MinimumKept` is an
argument about cardinalities: the only steps that take a worker out of `Standing` do
so when idle has at least `SIZE_MIN` others.

**DaemonLoopProofs**, for any clients and any threads that call shutdown or close, on
each kind of transport server: `LoopInv` (`TypeOK` and `Released`) and
`ImplementsService`, the safety part of the refinement: the initial states of
DaemonLoop are those of DaemonService, and each of its steps is one of DaemonService
or a stutter. `ReleaseInv`
is the order of close(): the housekeeper has ended before its attribute is unset,
that happens before the socket is looked at, and transportServer is unset by a thread
that has closed it; nobody opens again what was closed, so that it holds for any
number of threads that do this at once. `ServiceInv` says that nothing is closed before
somebody asks, and that a client the loop has in hand is held by it, so that a step
changes the fate of one client.

**Futures** (ClientProofs), for any threads that share a future or the result of an asynchronous
call, any callables, and any bounds on retries and delays (`BoundsAssumption`):
`FutureInv`, that is `TypeOK`, `StartedOnce`, `CancelledInTime` and
`ComposedInOrder`, each a theorem of its own, and `ReadyIsFinal`. `OnceInv` says that
only the thread that took the list of calls away starts the background thread.
`CancelInv` follows a cancellation through the two assignments (`completed`,
`cancelled = False`) that could undo it. `ReadyInv` ties the event to the end of the
background thread and the lock to the steps at which it sets the value, so that a
`then()` either appends before the walk or applies its call afterwards. `ComposeInv`
says at each step of that thread which calls the value is made of: `MadeOf(v, list,
calls, n)` is some first calls of `list` followed by the first `n` of `calls`. The
chains may have any length and grow at any moment; lemmas about `MadeOf` (one more
call, a longer list, the whole list) carry it from step to step, and `MadeInOrder`
turns it into `ComposedInOrder`.

**ProxyCallProofs**, for any threads that share a proxy, any connections, attempts,
sequence numbers and each combination of the options (`CallAssumption`): `InSync`;
`OwnAnswer` and with it `CallInv`, without `keep_open`; and the safety part of the
refinement of RemoteCall (`RunsAreBounded`, `PromiseKept`). `Typed` adds who holds the
lock, has a call or a connection at which step. `LinksInv`: nothing is on connections
that are not made yet. `WaitInv`: oneway calls are not replied to nor waited for.
`AwaitInv`: on the proxy's connection there is at most one message that is not oneway,
a request, the one that is handled or a reply, and it is that of the thread that waits;
what might come later goes with the connection. With `keep_open` it does not, and
`call_nested` refutes `OwnAnswer`. For the refinement, `OnceInv` says that what was sent
was sent once and is in one place: a queue, a worker or a oneway thread. `CountInv`
bounds the runs of a method by the cardinality of the set of its attempts that are
over, so by `MAX_RETRIES + 1`. `RepliesInv`: a reply is made for a method that has been
run; with `OwnAnswer`, no call returns whose method was not run.

**AutoCleanerProofs**, for any finite set of names, any URIs, threads, servers, and
each of the three storages, failures of the database and URIs that cannot be probed
included (`NameAssumption`, `CleanerAssumption`): `NamesInv` (`CleanerTypeOK`,
`NameServerKept`, `IdsDiffer`, `FirstGrace`), `RegistrationsKept`, and `TypeCorrect`. `Typed` bounds the ids of
rows by the highest one given, which exists because the names are finitely many; ids
differ because a new one is higher. `SparedInv` follows what a listing may have of the
name server's own name through the steps of a removal. `WriteInv` says that a thread
that has tested a name under the lock still finds it as it was, because only the
holder writes rows in between, and that removals by prefix and the cleaner's, which go
on without the lock, only take away. What set_metadata writes
is the URI the name has, or had last if one of these took it away meanwhile (`lastUri`).
`CleanerInv` and `GraceInv` tie `unreachable` to the names whose servers a pass has found
silent.

**ItemStreamProofs**, for any streams and connections, generators of any length and
any set of configurations (`StreamAssumption`): `TypeOK`, `ItemsComplete`,
`NeverRepeats`, `LoopSurvives`, `OrphansAreCut` and so `StreamInv`, none under a
condition; and `NothingOrphaned`, that `NoOrphan` holds with lingering and in the
multiplex server without oneway threads: elsewhere it fails, as `stream_orphan` shows. `LinkInv` is the client's one call:
`ConnInv` (its connection is the one that is up), `WaitInv` (a call is requested, served
or answered), `LeftInv` (what goes on for a lost connection is about streams that the
client knows to be interrupted). `RunInv` (a generator is running exactly while a
worker is in it) and `PosInv` (got, under way and made are in this order) give
`NeverRepeats`. For `ItemsComplete` a stream is *owned* as long as the client may ask for
more on its first connection: `TableOf` says that it is in the table under that
connection, `SparedOf` that neither the housekeeper nor a disconnect has it in hand,
`GotOf` that got and made differ by what is under way. `TurnsInv` (one at a time in
the multiplex server) gives `PresentInv` (what is about to be deleted is there), on
which `LoopSurvives` rests. `OrphanInv` says that a connection that ends still has
its streams before it, and of one that is gone what was before it when it was cut off.

**The nineteen parts** are in ServerProofs (a server and what its programs share),
NamingProofs (the way from a name to a connection), ClientProofs (what a client holds) and
TransportProofs (what carries a call). All of them assume that `None` is none of their
values; the rest are the types of their constants.

- *ObjectRegistry* (`InstanceInv`, `SessionsApart`), for any classes, modes, ids,
  connections and registering threads, with the daemon's object under its id and `None`
  none of them (`ServantAssumption`). `Typed` adds what a worker knows of its call at
  each step and that instances are filed under their class. `LockReleased` is inductive
  with it. `SingleInv` is the life of a single instance, *unmade*, *making*, *filed*;
  that no second worker is making one follows from `LockReleased`, which says that the
  one that is making holds the lock. `SessionInv` ties the dict of a connection to its
  epoch, to the last instance that served and to the one in use.
- *CallContext* (`ContextInv`), for any connections, resources and oneway threads.
  `ThreadsOwn`: a thread that executes the program's code has the context of its own
  request, and the annotations in the server thread's are those of the call it executes
  or of one that left them. `Owing`: what calls have tracked on a connection is tracked,
  closed, or, while the close's loop runs, among what it has not seen yet.
- *BatchCall* (`BatchInv`), for any number of calls, batches and retries. Calls are
  numbered; an asynchronous batch's copy has the calls that the adapter had (`CopiesNoted`);
  two requests have none in common (`OrdersApart`), nor has the adapter's list
  with any request (`QueueApart`) but the one that it waits for, unless they were sent
  again.
- *BlobMessage* (`BlobKept`), for any dispatchers, over any number of hops: a message
  that is passed on says truly by whom its bytes were made and whether they are
  compressed (`MessageTrue`).
- *Serving* (`ServingInv`), for any programs and name servers. `Right` says what a
  program holds at each place of its code; a name is told from the place at which the
  object is registered and the socket open.
- *HttpGateway* (`GatewayInv`), for any names and places of the name server. A request is
  past its check only with the key (`LetThrough`); when a name server runs all the time, a
  request that found the connection lost has another one before it looks the name up
  (`OnTheWay`).
- *FlameServer* (`FlameInv`), for any clients, lines and sources. While one call is executed
  at a time all the others wait (`CallsAlone`); a line's call has saved the server's own
  stdout and finds only what it printed itself, and a walk along a path has come to a module
  that is in the table (`ConsoleOwn`, `ModuleOwn`). A submodule is an attribute of its parent
  and no module is made twice (`ModulesLinked`), so what was sent stays where it is called.
- *Configuration* (`MadeFromComplete`), for any order of items and any environment. A
  reset has read the items up to its place (`ResetBegun`), and what has broken off leaves
  the accepted serializers a text, of which no daemon can be made (`ResetEnded`).
- *SslContext* (`ContextComplete`), for any number of threads. A context that two threads
  load into is complete at the end because whatever it has not yet is still to be loaded
  by a call under way (`WillHave`), and the server's is not the client's (`SslApart`).
- *NameStorage* (`StorageInv`, and every step one of NameTable or a stutter:
  `StoresTable`), for any finitely many names and tags, any uris and any number of
  calls, crashes and starts (`StorageAssumption`: `Begins` within `Alike`, `MatchedAll`
  within `Matched`, and `None` no entry, no call and no set of rows). Each statement is
  proved to lead from tables that fit together (`GoodDb`: no two rows with one id or one
  name, metadata of existing rows) to such tables, and a method's last one to the map in
  which its names have changed (`RowsDeleted`, `ItemSet`). `PlanOK` says of the
  statements still to come that nothing of a method is durable before its commit
  (`MethodPlan`) and that those of a start show the same names whenever they are
  interrupted, or lose them in the one way that NameTable allows (`OpenPlan`). That the
  count of a join's rows is a comparison of sets (`TagsCounted`) is an argument about
  cardinalities.
- *NameLookup* (`LookupInv`), for any networks and any number of servers and lookups. Every
  address in an answer is of a server that was alive since the lookup began, and right if it
  is still the one that runs (`GoodUri`); as long as the host can be reached all the time,
  the lookup ends there if nowhere else, or by an error of its socket (`HostReached`).
- *Resolving* (`ConnectsAsMeant`), for any names, operators, proxies and retries. While a
  proxy connects, all that its URI stands for in the table is what it has been meant to
  reach (`LooksForMeant`), as a change of the table adds to both.
- *Addresses* (`AddressInv`), for any objects, ids, tags, hosts and ports. `LocationKept`
  and `TagsInOrder` give `TextKept`: a URI's text is read as the same URI. Objects and ids
  are paired unless an id was given away (`Paired`), and a registered object has its daemon
  unless marshal took it away (`Attached`). Ids may have a "@" inside: the text of such a URI is
  read as another one, and what is proved is about the rest.
- *Sockets* (`MeetsServer`), for any processes and any number of sockets. No two servers
  have one address or number (`ServersApart`), and both sides choose a version of IP from
  the same preference (`SameFamily`).
- *MessageStream* (`WholeMessages`, and every step one of MessageChannel: `StreamKeepsPromise`),
  for any sizes of headers, bodies and buffers. A byte says which message it belongs to and
  its place there. `InOrder`: each byte is followed by its successor, so a run of bytes is
  known by its first and its last one; `InPlace`: those read so far for the next part, those
  on the way and those still to be sent go from the reader's place to the end of the message
  that is being sent. `Taken` and `Added` are what reading and sending do to such a run.
- *WireMessage* (`WireInv`), for any types, flags, sequence numbers, sizes, annotations,
  secrets and limits (`WireAssumption`: the numbers are natural, the keys have an order).
  What is on the wire is what was sent (`Intact`), with whatever in its reserved field, or a
  field of its header was changed, by any number, and the receiver's test sees it or the size
  is off by a multiple of 65536 (`HeaderSeen`), or no digest fits its body any more
  (`BodySeen`). That another changed field changes the checksum is arithmetic modulo 65536:
  two values of a field of 16 bits are below it, so they differ by less. A size that the
  checksum does not see is found by a peer with a key, as other bytes are digested. That packing and reading agree on
  the size of the annotations is an induction over the order of the keys.
- *Serializing* (`SerializingInv`), for any classes, converters and receivers
  (`ClassAssumption`: Pyro's and Python's own classes have names without double underscore
  and of their own). What arrived is what the serializer makes of a value that was sent, with
  the classes registered now (`Sent`, `Raised`). Each node of a value comes back loosely
  (`BroughtBack`), because the objects that `recreate_classes` has to find are in
  containers only, or the exception in a wrapper (`ObjectsFound`); nothing else becomes an
  object than the dict of a known class (`BroughtKnown`).
- *ExposedMembers* (`ProxyAgrees`), for any members and any changes of class and
  configuration. What is cached holds of the class until it changes (`CacheHolds`), and what
  a proxy knows until class or configuration change (`ProxyHolds`); so the proxy's answer and
  the daemon's are two readings of the same class, which are compared member by member. What the daemon
  executes and does not list, a callable that is no method, is apart.
- *MessageBus* (`BusInv`), for any topics, subscribers, sizes of batches and queues, retries,
  messages and crashes, and both storages (`BusAssumption`). What was collected for a
  subscriber has been delivered, is still to be delivered or is in the call under way
  (`Served`), so that nothing is removed that somebody waits for. No message is collected,
  called with or requested before an earlier one of its topic (`BatchOrder`, `CallOrder`,
  `RequestOrder`), which late and repeated requests keep because all of the part that is
  waited for is in the queue or still in its request (`AwaitedPart`). Message numbers
  grow, so the lists stay sorted whatever is removed from them (`Sorted`).

Only model-checked: liveness (`QueuedIsCalled`, `SurplusEnds`, `LingeringEnds`,
`DeadNamesGo`, `ResultArrives`, `ShutdownEnds`) and the liveness parts of
`KeepsPromise` and `ServesUntilAsked`, which are out of the prover's reach. Every
invariant that a passing run checks is proved. Where recursion goes over a list (the
messages that stay, the size of annotations), the modules have a recursive function over
its indexes; that it has a solution is proved once (`RecursionExists`) by an induction
over a set of numbers (`Ascending`). Where the code does not keep a
property, no theorem states it: `OwnAnswer` with `keep_open`, `NoOrphan` without
lingering, and the eleven properties listed above.

## What is not modelled

- Data beyond what properties tell apart: payloads, tracebacks, compression, basic types
  in serializers but UUIDs, complex numbers and dates, the bytes of the formats, HTML
  pages, the text of times.
- In ItemStream generators that raise, in ObjectRegistry creators that call back
  into the daemon, in ProxyCall an application's validation of the handshake.
- That a client that reconnects to a stream loses the item whose reply was lost:
  the code does not try to keep it, and `NeverRepeats` states what it does keep.
- In DaemonLoop: combined daemons, a housekeeping hook that shuts the daemon down,
  selectors that return nothing after their close.
- In NameStorage a dbm write that is interrupted, which is a matter of the dbm library;
  SQLite is taken to give rows in the order of their insertion and to make a
  transaction durable as a whole.
- In Serving the end of a whole process, which frees everything.
- The commands of nsc that print, the flame wrappers that call Python's own functions, the
  test object of the echo server, socket options and socket pairs, the other examples.

## Plan

Done: all of the above. What would add most next:

1. A registry with three operations as a run of its own: the hazards that name it are
   now reached by the model only.
2. The composition of NameLookup with Resolving: a proxy that locates the name server
   anew while both move.
