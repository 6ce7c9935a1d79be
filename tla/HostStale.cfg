\* Two remote hosts with two connections and two versions each.
SPECIFICATION HostSpec
CONSTANTS
  h1 = h1
  h2 = h2
  other = other
  Spellings <- MCSpellings
  Hosts <- MCHosts
  IdOf <- MCIdOf
  Conns <- MCConns
  KeyOf <- MCKeyOf
  NoConn = 0
  MaxVersion = 2
INVARIANT FreshAfterInvalidate
CHECK_DEADLOCK FALSE
