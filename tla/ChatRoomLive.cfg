\* Two pages that come, go and lose their connection while messages are sent.
SPECIFICATION Spec
CONSTANTS
  Page = {a, b}
  Msg = {m1, m2}
  Req = {r1, r2}
  Take = 1
  NoMsg = NoMsg
SYMMETRY Symmetry
INVARIANTS TypeOK HeardOnce NotBehindTheList SameOrder
