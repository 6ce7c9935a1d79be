\* What the comment at dockerEvents.ts 109 says.
SPECIFICATION Spec
CONSTANTS
  h1 = h1
  Local = local
  NoConn = 0
  NConns = 2
  Spellings <- MCHosts
  Hosts <- MCHosts
  IdOf <- MCIdOf
  Conns <- MCConns
  KeyOf <- MCKeyOf
  Streams <- MCStreams
  FeedOf <- MCFeedOf
  MaxVersion = 2
  MaxTimers = 2
PROPERTY RetryEndsForRemovedHost
