\* The SSH clients of two hosts, and a page's WebSockets: each is explored by itself.
SPECIFICATION ConnectionsSpec
CONSTANTS
  \* SSH clients
  h1 = h1
  h2 = h2
  other = other
  Spellings <- MCSpellings
  Hosts <- MCHosts
  IdOf <- MCIdOf
  Conns <- MCConns
  KeyOf <- MCKeyOf
  NoConn = 0
  MaxVersion = 2
  \* WebSockets
  Socks = {1, 2}
  NoSock = 0
  MaxFaults = 1
  MaxKeys = 2
  MaxInputs = 2
  Targets = {"t1", "t2"}
  NoView = 0
  HeaderLen = 2
  MaxText = 2
  MaxLosses = 1
  MaxBytes = 5
  Wire <- MCWire
  NoAsk = 0
  MaxAnswer = 2
VIEW ConnectionsView
CHECK_DEADLOCK FALSE
INVARIANTS
  ConnectionsTypeOK
  CachedIsOpen
  StaleOnlyIfCrossed
  SoloIsCached
  PageHasItsSockets
  FeedIsWhole
PROPERTIES
  InputIsPipe
