SPECIFICATION PartsSpec
INVARIANTS
    StorageInv WireInv WholeMessages SerializingInv ProxyAgrees ContextInv AddressInv
    BatchInv LookupInv BusInv BlobKept GatewayInv FlameInv MeetsServer ContextComplete
    ConnectsAsMeant ServingInv MadeFromComplete InstanceInv SessionsApart
PROPERTIES StoresTable StreamIsChannel
CONSTANTS
    None = None
    n1 = n1
    n2 = n2
    p1 = p1
    Name = {n1, n2}
    Uri = {u1}
    Tag = {t1, t2}
    Begins <- MCBegins
    Alike <- MCAlike
    Matched <- MCAlike
    MatchedAll <- MCBegins
    Databases = {"none", "old", "current"}
    MaxCalls = 3
    Type = {65535}
    Flags = {0}
    Seqno = {65535, 65536}
    Format = {1}
    Length = {0, 65503, 65536}
    Byte = {x, y}
    KeyOrder <- MCKeyOrder
    FourLetters = {"ABCD"}
    HmacKey = {h1, h2}
    MaxMessage = {0, 30}
    DataLimit = 131072
    Changes <- MCChanges
    HeaderSize = 3
    BodySize <- MCBodySize
    BufferSize = 2
    CoreClass = {"URI"}
    PyroError = {"Pyro4.errors.PyroError"}
    Builtin = {"ValueError"}
    OtherError = {"MyError"}
    OtherClass = {"My", "__My"}
    Dunder = {"__My"}
    Member = {"m", "n", "_p"}
    Private = {"_p"}
    Simple = {"n", "_p"}
    MaxSteps = 3
    Peer = {c1, c2}
    Resource = {r1, r2}
    MaxRequests = 4
    MaxActs = 2
    PyroObject = {"o1", "o2"}
    ObjectId = {"a", "a@b", "c d"}
    CutId <- MCCutId
    Behind <- MCBehind
    BadId = {"c d"}
    MetaTag = {"t1", "t2"}
    PlainHost = {"host"}
    Ipv6Host = {"ip6"}
    Port = {1}
    NatPort = {0, 2}
    NsPort = 9090
    MaxRegistrations = 2
    Retries = 1
    MaxAdded = 2
    MaxBatches = 2
    Net = {"lan", "wan"}
    MaxServers = 1
    MaxLookups = 2
    Topic = {"weather"}
    Subscriber = {"s"}
    BatchLimit = 1
    QueueLimit = 1
    SendRetries = 1
    MaxSent = 2
    MaxInvokes = 2
    MaxRounds = 2
    Holder = {"client", "dispatcher", "listener"}
    BlobSerializer = {"serpent", "json"}
    MaxHops = 2
    NsPlace = {"p1", "p2"}
    Exposable = {"http.a"}
    Hidden = {"Pyro.NameServer"}
    MaxNs = 2
    MaxHttp = 2
    FlameClient = {"k1", "k2"}
    Defined = {"f"}
    MaxFlameCalls = 2
    Process = {"p", "q"}
    HostName = {"both", "only6", "any", "unix"}
    Backlog = 1
    MaxSockets = 3
    SslThread = {"s1", "s2"}
    File = {"", "here", "missing"}
    MaxContexts = 2
    Operator = {"o"}
    LogicalName = {"n"}
    Endpoint = {"l1", "l2"}
    Property = {"t"}
    Resolver = {"q"}
    MaxCommands = 2
    MaxConnects = 2
    MaxTries = 2
    MaxOutages = 1
    Program = {"x1", "x2", "x3"}
    Setup <- MCSetup
    MaxRuns = 2
    ItemOrder <- MCItems
    Boolean = {"METADATA"}
    Number = {"MAX_RETRIES"}
    Optional = {"NATHOST"}
    EnvText <- MCTexts
    MaxResets = 2
    counter = counter
    basket = basket
    task = task
    daemon = daemon
    Servant = {counter, basket, task, daemon}
    Mode <- InstanceModes
    Sized = {}
    theDaemon = theDaemon
    DaemonId = theDaemon
    TheDaemon = daemon
    i1 = i1
    i2 = i2
    Id = {theDaemon, i1, i2}
    Registrar = {r3}
    c1 = c1
    Conn = {c1, c2}
    Startup <- FirstObjects
    MaxOps = 1
    MaxMade <- FewInstances
    MaxEpoch <- Reconnects
CHECK_DEADLOCK FALSE
