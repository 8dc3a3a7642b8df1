\* Mutual likes are matched, at any moment and in the end.
SPECIFICATION FairSpec
CONSTANTS
  User <- PairUser
  Req = {r1, r2}
  Male = {2}
  Payer = {2}
  FreeDailySwipes = 1
  LastDay = 0
  Swipes <- PairSwipes
  Blocks <- PairBlocks
  Unmatches <- PairUnmatches
  Bannable = {1}
  Deletable = {1}
INVARIANT MutualLikeIsMatched
PROPERTY PromiseKept
