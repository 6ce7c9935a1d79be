\* Two stacks, two requests under way, one token.
SPECIFICATION Spec
CONSTANTS
  Names = {a, b}
  Reqs = {r1, r2}
  MaxToken = 1
  NoReq = NoReq
  NoName = NoName
SYMMETRY Symmetry
INVARIANTS
  TypeOK
  NoHalfStack
  HookHasStack
  NoOrphans
PROPERTY RetiredTokensNeverDeploy
