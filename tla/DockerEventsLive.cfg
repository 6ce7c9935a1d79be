\* Liveness: one remote host with two connections, a chat, a tab's live feed.
SPECIFICATION LiveSpec
CONSTANTS
  h1 = h1
  Local = local
  NoConn = 0
  NConns = 2
  Spellings <- MCHosts
  Hosts <- MCHosts
  IdOf <- MCIdOf
  Conns <- MCConns
  KeyOf <- MCKeyOf
  Streams <- MCStreams
  FeedOf <- MCFeedOf
  MaxVersion = 2
  MaxTimers = 2
  Socks = {1, 2}
  NoChat = 0
  MaxTurns = 2
  MaxTokens = 1
  NoFeed = 0
  Twins = {2}
  MaxEvents = 3
CHECK_DEADLOCK FALSE
INVARIANTS
  ChatStaysInOrder
  TabIsTold
PROPERTIES
  HostsAreFollowed
  HostsAreLetGo
  ChatGoesOn
  TabIsReconnected
