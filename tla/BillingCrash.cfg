\* A crash between the transaction and the subscription.
SPECIFICATION CrashSpec
CONSTANTS
  u1 = u1
  u2 = u2
  short = short
  long = long
  h1 = h1
  h2 = h2
  h3 = h3
  w1 = w1
  c1 = c1
  c2 = c2
  t1 = t1
  t2 = t2
  User = {u1, u2}
  Plan = {short, long}
  PlanConfig <- Plans
  Hash = {h1, h2}
  Wallet = {w1}
  Comment = {c1, c2}
  NoComment = none
  Transfer = {t1, t2}
  Message <- Messages
  Dtos <- FrontendReports
  Purchases = {}
  Req = {r1, r2}
  Deletable = {}
  LastTime = 1
INVARIANT PaidIsGranted
