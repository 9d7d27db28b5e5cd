CONSTANTS
  Worker = {w1, w2}
  Radio = FALSE
  MaxClients = 2
  MaxConnections = 1
  MaxBroadcasts = 2
  Sender = {s1, s2}
  MaxHistory = 2
  MaxPackets = 5
  MaxStarts = 3
  Peer = {p1}
  Mock = mock
  MaxApEvents = 3
  MaxLiveEvents = 2
  MaxStored = 2
  Limit = 2
  MaxRadioEvents = 4
  Source = {src1, src2}
  Time = {2, 3, 4}
  TicksPerSecond = 2
  PageLimit = 1
  MaxMessages = 3
  MaxViewers = 2
  MaxWalks = 3
  Walker = {topology, post}
  Periodic = topology
  MaxErrors = 3
  MaxGpsEvents = 5
  Node = {self, a, b}
  Self = self
  Transceiver = {r1, r2}
  TxWindow = 3
  Rate = {0, 1}
  Link <- RouterLink
  Unit = 2
  MaxRouteEvents = 4
  a = a
  b = b
  r1 = r1
  r2 = r2
SPECIFICATION Spec
INVARIANTS
  TypeOK
  APIsolated ReportedIsReal PortalEnds
  ListenersAreRegistered NoPlaceForTheDead
  HistoryIsLatest OneTextMissed
  PageShowsStore
  PagesAreComplete StoreShowsInbox
  AnnouncedIsListed
  MissedOnlyByRemoval
  RoutesAreShortest
PROPERTIES
  AddressIsKept
  StoreFollowsMesh
  ImplementsChannel
  FreshInTheEnd
CHECK_DEADLOCK FALSE
