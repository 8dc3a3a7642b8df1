\* Reports filed together, resolved, repeated and rolled back; two reporters
\* hide a profile.
SPECIFICATION CrashSpec
CONSTANTS
  User <- Accusers
  Req = {r1, r2}
  HideAt = 2
  Settled = {1, 2, 3}
  Files <- Accusations
  Deletable = {1}
SYMMETRY ReqSymmetry
INVARIANTS TypeOK HideBudget HiddenForReason DuplicateBudget
