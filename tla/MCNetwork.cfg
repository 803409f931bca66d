SPECIFICATION NetworkSpec
CONSTANTS
  Client = Client
  Server = Server
  SlotCount = 3
  Mss = 2
  Capacity = 1
  MaxRetries = 1
  SeqSpace = 16
  Clocks <- MCClocks
  ClientBytes = 2
  ServerBytes = 0
  PortMod = 4
  EphemeralStart = 3
  Flight = 2
  Faults = 1
  Threads = {t1, t2}
  PoolSize = 2
  UdpSize = 2
  TcpSize = 2
  QueueDepth = 2
  PortSpace = 3
  FirstEphemeral = 2
  Datagrams = 3
  Calls = 5
  Peers = {p1, p2, p3}
  Macs = {a, b}
  CacheSize = 2
  Ttl = 2
  Attempts = 1
  LastTick = 3
  Sizes <- MCSizes
  Block = 2
  MaxFragment = 4
  MaxSize = 9
  ReasmMax = 2
  Timeout = 1
  LastIpTick = 1
  Depth = 2
  Receipts = 4
  Callers = {c1, c2}
  Servers = {s1, s2}
  Leases = {1}
  DhcpCalls = 2
  Resolvers = {r1, r2}
  Names = {n1, n2, n3}
  CacheMax = 2
  DnsPorts = {1, 2}
  Lookups = 3
  Descriptors = 3
  Frames = 4
  Budget = 2
  Flights <- MCFlights
  Payloads = {1, 3}
  Chunk = 2
  RecvCapacity = 2
  TlsCalls = 3
  PingHosts = {h1, h2}
  Numbers = {1, 2}
  PingTimeout = 2
  Pings = 2
  LastPingTick = 3
  Urls <- MCUrls
  Links <- MCLinks
  Site <- MCSite
  Room = 13
  MaxRedirects = 3
  Clients = {w1, w2}
  ListenPorts = {80, 8080}
  Segments = 2
  Nesting = 2
INVARIANTS   ArpAnswersNewest 
           PingsSound  NamesResolved RingsSound 
CHECK_DEADLOCK FALSE
