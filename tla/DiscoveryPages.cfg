\* A patient seeker with one free swipe a day, two swipes on their way at a
\* time, and a page of one card out of the three freshest profiles of four.
SPECIFICATION PatientSpec
CONSTANTS
  User <- Others
  Age <- Ages
  Dtos <- PageDtos
  Near = {1, 2}
  Score <- Scores
  Limit = 1
  Free = TRUE
  FreeDailySwipes = 1
  Freshest <- Order
  Editors = {1}
  Bannable = {1}
  BlocksMe = {1}
  IBlock = {1}
  Post = {p1, p2}
INVARIANTS TypeOK OutIsNotShown
PROPERTIES BestAreShown NearbyIsShown
