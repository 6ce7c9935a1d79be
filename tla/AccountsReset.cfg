\* What the web application says of a factory reset.
SPECIFICATION Spec
CONSTANTS
  Names = {n1, n2}
  MaxId = 2
  Sids = {s1, s2}
  Reqs = {r1, r2}
  CodeSets = {}
  Provider = TRUE
  NoUser = NoUser
  NoSession = NoSession
  NoSid = NoSid
  NoBackup = NoBackup
  Digits = Digits
SYMMETRY Symmetry
CHECK_DEADLOCK FALSE
INVARIANTS
  AdminOrSetup
