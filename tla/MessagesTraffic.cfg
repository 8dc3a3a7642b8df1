\* A free man writes in two matches over a midnight, one of which is blocked,
\* unmatched and matched again, while accounts are banned and the server dies.
SPECIFICATION Spec
CONSTANTS
  u1 = u1
  u2 = u2
  u3 = u3
  m1 = m1
  m2 = m2
  User = {u1, u2, u3}
  Match = {m1, m2}
  Participants <- TwoMatches
  Req = {r1, r2}
  Male = {u1}
  Payer = {}
  FreeDailyNewChats = 1
  LastDay = 1
  MaxSent = 1
  Bannable = {u2}
  Sockets = {u2}
  Swipers = {u1}
  Closable = {m1}
SYMMETRY ReqSymmetry
INVARIANTS TypeOK NewChatBudget NewChatsPaidFor
PROPERTIES ClosedForEver BanTakesHold
