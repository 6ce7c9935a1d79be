\* Second factors and backups: one request under way, two generations of codes.
SPECIFICATION Spec
CONSTANTS
  Names = {n1, n2}
  MaxId = 2
  Sids = {s1, s2}
  Reqs = {r1}
  CodeSets = {{k1, k2}, {k3}}
  Provider = FALSE
  NoUser = NoUser
  NoSession = NoSession
  NoSid = NoSid
  NoBackup = NoBackup
  Digits = Digits
SYMMETRY Symmetry
CHECK_DEADLOCK FALSE
INVARIANTS
  TypeOK
  RetiredCodesStayRetired
  ReplacedSessionsSignedOut
