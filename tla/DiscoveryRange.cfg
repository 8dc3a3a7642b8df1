\* A client that changes one bound of the ages at a time.
SPECIFICATION Spec
CONSTANTS
  User <- Others
  Age <- Ages
  Dtos <- SingleDtos
  Near = {1, 2}
  Score <- Scores
  Limit = 1
  Free = TRUE
  FreeDailySwipes = 1
  Freshest <- Order
  Editors = {}
  Bannable = {}
  BlocksMe = {}
  IBlock = {}
  Post = {p1}
INVARIANT AgesInOrder
