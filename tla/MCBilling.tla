------------------------------ MODULE MCBilling ------------------------------
(***************************************************************************)
(* Small instances of Billing for TLC.                                     *)
(***************************************************************************)
EXTENDS Billing, TLC

CONSTANTS u1, u2, short, long, h1, h2, h3, w1, c1, c2, t1, t2

Plans == (short :> [days |-> 1, price |-> 3]) @@ (long :> [days |-> 2, price |-> 5])

Report(hash, plan, comment) ==
  [txHash |-> hash, plan |-> plan, senderAddress |-> w1, orderComment |-> comment]

\* A transfer that is worth the long plan, just within the tolerance, and one
\* that is worth the short plan only.
Messages ==
  (t1 :> [comment |-> c1, src |-> w1, value |-> 4])
  @@ (t2 :> [comment |-> c2, src |-> w1, value |-> 3])

\* Both are reported, by anyone, the second under two hashes and also as the
\* long plan, which it does not pay.
Reports ==
  {Report(h1, long, c1), Report(h2, short, c2), Report(h3, short, c2), Report(h3, long, c2)}

\* The transfers as the frontend sends them, without a comment.
Uncommented ==
  (t1 :> [comment |-> NoComment, src |-> w1, value |-> 5])
  @@ (t2 :> [comment |-> NoComment, src |-> w1, value |-> 3])

\* What the frontend reports: each order under its own hash and comment.
Frontend ==
  {[buyer |-> u1, transfer |-> t1, dto |-> Report(h1, long, c1)],
   [buyer |-> u2, transfer |-> t2, dto |-> Report(h2, short, c2)]}
FrontendReports == {x.dto : x \in Frontend}

ReqSymmetry == Permutations(Req)
=============================================================================
