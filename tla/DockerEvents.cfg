\* Safety: one remote host with three connections.
SPECIFICATION Spec
CONSTANTS
  h1 = h1
  Local = local
  NoConn = 0
  NConns = 3
  Spellings <- MCHosts
  Hosts <- MCHosts
  IdOf <- MCIdOf
  Conns <- MCConns
  KeyOf <- MCKeyOf
  Streams <- MCStreams
  FeedOf <- MCFeedOf
  MaxVersion = 2
  MaxTimers = 2
INVARIANTS
  TypeOK
  OneStreamPerHost
  NeverAbandoned
  StreamIsCurrent
