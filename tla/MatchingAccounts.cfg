\* A man with a quota of one swipe a day over two days; a deletion and crashes.
SPECIFICATION CrashSpec
CONSTANTS
  User <- TrioUser
  Req = {r1, r2}
  Male = {1}
  Payer = {}
  FreeDailySwipes = 1
  LastDay = 1
  Swipes <- TrioSwipes
  Blocks <- TrioBlocks
  Unmatches <- PairUnmatches
  Bannable = {}
  Deletable = {2}
SYMMETRY ReqSymmetry
INVARIANTS TypeOK MatchHasLikes SwipeBudget LikesPaidFor
PROPERTY PartedForEver
