\* A factory reset that is alone and its webhook rows.
SPECIFICATION Spec
CONSTANTS
  Names = {a, b}
  Reqs = {r1, r2}
  MaxToken = 1
  NoReq = NoReq
  NoName = NoName
SYMMETRY Symmetry
PROPERTY ResetKeepsOnlyAuditLog
