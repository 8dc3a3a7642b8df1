--------------------------- MODULE MatchingProofs ---------------------------
(***************************************************************************)
(* Theorems about Matching, for any users, any number of requests and any  *)
(* quota; last, that it keeps the promise of MatchPromise, and what the    *)
(* promise is worth.                                                       *)
(***************************************************************************)
EXTENDS Matching, FiniteSetTheorems, TLAPS

LEMMA OrderedIds ==
  ASSUME NEW a \in User, NEW b \in User
  PROVE  /\ OrderIds(a, b) \in Pairs
         /\ OrderIds(a, b) = OrderIds(b, a)
         /\ OrderIds(a, b) \in {<<a, b>>, <<b, a>>}
BY MatchingAssumption DEF OrderIds, Pairs

LEMMA Ascending ==
  ASSUME NEW a \in User, NEW b \in User, a # b
  PROVE  \/ OrderIds(a, b) = <<a, b>> /\ a < b
         \/ OrderIds(a, b) = <<b, a>> /\ b < a
<1>1. a \in Int /\ b \in Int
  BY MatchingAssumption
<1>2. a < b \/ b < a
  BY <1>1
<1>3. a < b => ~(b < a)
  BY <1>1
<1>4. QED
  BY <1>2, <1>3 DEF OrderIds

\* The slots hold what their pc promises.
LEMMA SlotTypes ==
  ASSUME TypeOK, NEW r \in Req
  PROVE  /\ req[r].pc = "idle" <=> req[r] = Idle
         /\ req[r].pc \in {"block", "unmatch"} => req[r] \in PairRequest
         /\ req[r].pc \notin {"idle", "block", "unmatch"} => req[r] \in SwipeRequest
<1>1. req[r] \in {Idle} \cup SwipeRequest \cup PairRequest
  BY DEF TypeOK
<1>2. CASE req[r] = Idle
  BY <1>2 DEF Idle
<1>3. CASE req[r] \in SwipeRequest
  BY <1>3 DEF SwipeRequest, Idle
<1>4. CASE req[r] \in PairRequest
  BY <1>4 DEF PairRequest, Idle
<1>5. QED
  BY <1>1, <1>2, <1>3, <1>4

LEMMA InitTypeOK == Init => TypeOK
BY MatchingAssumption DEF Init, TypeOK, Pairs, Idle, Day

\* A request may change stage, and lose a pending read while it learns the
\* day and something that is a Boolean.
LEMMA Restaged ==
  ASSUME NEW q \in SwipeRequest,
         NEW pc \in {"charge", "like", "reciprocal", "check", "find", "insert", "update"}
  PROVE  [q EXCEPT !.pc = pc] \in SwipeRequest
BY DEF SwipeRequest

LEMMA Learned ==
  ASSUME TypeOK, NEW q \in SwipeRequest, NEW what \in Reads, NEW b \in BOOLEAN
  PROVE  /\ [q EXCEPT !.todo = @ \ {what}, !.today = day, !.ok = b] \in SwipeRequest
         /\ [q EXCEPT !.todo = @ \ {what}, !.today = day, !.pays = b] \in SwipeRequest
BY DEF SwipeRequest, TypeOK

LEMMA ReqTyped ==
  ASSUME TypeOK, NEW r \in Req, NEW q \in {Idle} \cup SwipeRequest \cup PairRequest
  PROVE  [req EXCEPT ![r] = q] \in [Req -> {Idle} \cup SwipeRequest \cup PairRequest]
BY DEF TypeOK

LEMMA StepTypeOK ==
  ASSUME TypeOK, NEW r \in Req, Step(r)
  PROVE  TypeOK'
<1>1. CASE ReadTarget(r)
  <2>1. req[r] \in SwipeRequest
    BY <1>1, SlotTypes DEF ReadTarget, Read
  <2>2. PICK b \in BOOLEAN : req' = [req EXCEPT ![r] = [req[r] EXCEPT !.todo = @ \ {"target"}, !.today = day, !.ok = b]]
    BY <1>1 DEF ReadTarget, Put
  <2>3. req' \in [Req -> {Idle} \cup SwipeRequest \cup PairRequest]
    BY <2>1, <2>2, Learned, ReqTyped DEF Reads
  <2>4. QED
    BY <1>1, <2>3 DEF ReadTarget, Read, TypeOK, tables
<1>2. CASE ReadBlocked(r)
  <2>1. req[r] \in SwipeRequest
    BY <1>2, SlotTypes DEF ReadBlocked, Read
  <2>2. PICK b \in BOOLEAN : req' = [req EXCEPT ![r] = [req[r] EXCEPT !.todo = @ \ {"blocked"}, !.today = day, !.ok = b]]
    BY <1>2 DEF ReadBlocked, Put
  <2>3. req' \in [Req -> {Idle} \cup SwipeRequest \cup PairRequest]
    BY <2>1, <2>2, Learned, ReqTyped DEF Reads
  <2>4. QED
    BY <1>2, <2>3 DEF ReadBlocked, Read, TypeOK, tables
<1>3. CASE ReadLike(r)
  <2>1. req[r] \in SwipeRequest
    BY <1>3, SlotTypes DEF ReadLike, Read
  <2>2. PICK b \in BOOLEAN : req' = [req EXCEPT ![r] = [req[r] EXCEPT !.todo = @ \ {"like"}, !.today = day, !.pays = b]]
    BY <1>3 DEF ReadLike, Put
  <2>3. req' \in [Req -> {Idle} \cup SwipeRequest \cup PairRequest]
    BY <2>1, <2>2, Learned, ReqTyped DEF Reads
  <2>4. QED
    BY <1>3, <2>3 DEF ReadLike, Read, TypeOK, tables
<1>4. CASE Refuse(r)
  BY <1>4, SlotTypes DEF Refuse, Finish, Put, TypeOK, tables
<1>5. CASE PassQuota(r)
  <2>1. req[r] \in SwipeRequest
    BY <1>5, SlotTypes DEF PassQuota, AtCheck, ReadsDone
  <2>2. req' \in [Req -> {Idle} \cup SwipeRequest \cup PairRequest]
    BY <1>5, <2>1, Restaged, ReqTyped DEF PassQuota, AtCheck, ReadsDone, Put, Goto, Finish, TypeOK
  <2>3. QED
    BY <1>5, <2>1, <2>2 DEF PassQuota, TypeOK, tables
<1>6. CASE ExceedQuota(r)
  BY <1>6, SlotTypes DEF ExceedQuota, Finish, Put, TypeOK, tables
<1>7. CASE Charge(r)
  <2>1. req[r] \in SwipeRequest
    BY <1>7, SlotTypes DEF Charge
  <2>2. req' \in [Req -> {Idle} \cup SwipeRequest \cup PairRequest]
    BY <1>7, <2>1, Restaged, ReqTyped DEF Charge, Put, Goto, Finish, TypeOK
  <2>3. QED
    BY <1>7, <2>1, <2>2 DEF Charge, TypeOK, SwipeRequest
<1>8. CASE PutLike(r)
  <2>1. req[r] \in SwipeRequest
    BY <1>8, SlotTypes DEF PutLike, AtLike, ReadsDone
  <2>2. req' \in [Req -> {Idle} \cup SwipeRequest \cup PairRequest]
    BY <1>8, <2>1, Restaged, ReqTyped DEF PutLike, AtLike, ReadsDone, Put, Goto, Finish, TypeOK
  <2>3. QED
    BY <1>8, <2>1, <2>2 DEF PutLike, TypeOK, SwipeRequest, Pairs
<1>9. CASE ReadReciprocal(r)
  <2>1. req[r] \in SwipeRequest
    BY <1>9, SlotTypes DEF ReadReciprocal
  <2>2. req' \in [Req -> {Idle} \cup SwipeRequest \cup PairRequest]
    BY <1>9, <2>1, Restaged, ReqTyped DEF ReadReciprocal, Put, Goto, Finish, TypeOK
  <2>3. QED
    BY <1>9, <2>1, <2>2 DEF ReadReciprocal, TypeOK, tables
<1>10. CASE CheckBlocked(r)
  <2>1. req[r] \in SwipeRequest
    BY <1>10, SlotTypes DEF CheckBlocked
  <2>2. req' \in [Req -> {Idle} \cup SwipeRequest \cup PairRequest]
    BY <1>10, <2>1, Restaged, ReqTyped DEF CheckBlocked, Put, Goto, Finish, TypeOK
  <2>3. QED
    BY <1>10, <2>1, <2>2 DEF CheckBlocked, TypeOK, tables
<1>11. CASE FindMatch(r)
  <2>1. req[r] \in SwipeRequest
    BY <1>11, SlotTypes DEF FindMatch
  <2>2. req' \in [Req -> {Idle} \cup SwipeRequest \cup PairRequest]
    BY <1>11, <2>1, Restaged, ReqTyped DEF FindMatch, Put, Goto, Finish, TypeOK
  <2>3. QED
    BY <1>11, <2>1, <2>2 DEF FindMatch, TypeOK, tables
<1>12. CASE InsertMatch(r)
  BY <1>12, SlotTypes DEF InsertMatch, Finish, Put, TypeOK
<1>13. CASE UpdateMatch(r)
  BY <1>13, SlotTypes DEF UpdateMatch, Finish, Put, TypeOK
<1>14. CASE FailGone(r)
  BY <1>14, SlotTypes DEF FailGone, Finish, Put, TypeOK, tables
<1>15. CASE Unmatch(r)
  BY <1>15, SlotTypes DEF Unmatch, Finish, Put, TypeOK
<1>16. CASE Block(r)
  BY <1>16, SlotTypes DEF Block, Finish, Put, TypeOK, PairRequest, Pairs
<1>17. QED
  BY <1>1, <1>2, <1>3, <1>4, <1>5, <1>6, <1>7, <1>8, <1>9, <1>10, <1>11, <1>12,
     <1>13, <1>14, <1>15, <1>16 DEF Step

LEMMA NextTypeOK == TypeOK /\ [Next \/ Crash]_vars => TypeOK'
<1> SUFFICES ASSUME TypeOK, [Next \/ Crash]_vars PROVE TypeOK'
  OBVIOUS
<1> USE MatchingAssumption
<1>1. ASSUME NEW r \in Req, Swipe(r) PROVE TypeOK'
  BY <1>1 DEF Swipe, Begin, Put, TypeOK, SwipeRequest, Reads, tables, Day
<1>2. ASSUME NEW r \in Req, BeginUnmatch(r) \/ BeginBlock(r) PROVE TypeOK'
  BY <1>2 DEF BeginUnmatch, BeginBlock, Begin, Put, TypeOK, PairRequest, tables
<1>3. ASSUME NEW u \in User, BanUser(u) \/ UnbanUser(u) PROVE TypeOK'
  BY <1>3 DEF BanUser, UnbanUser, TypeOK, tables
<1>4. ASSUME NEW u \in User, DeleteUser(u) PROVE TypeOK'
  BY <1>4 DEF DeleteUser, TypeOK, Pairs, Day
<1>5. CASE NextDay
  BY <1>5 DEF NextDay, TypeOK, Day, tables
<1>6. CASE Crash
  BY <1>6 DEF Crash, TypeOK, tables
<1>7. CASE UNCHANGED vars
  BY <1>7 DEF vars, tables, TypeOK
<1>8. QED
  BY <1>1, <1>2, <1>3, <1>4, <1>5, <1>6, <1>7, StepTypeOK DEF Next

(* Every variable keeps its type, whenever the server crashes.             *)
THEOREM TypeCorrect == CrashSpec => []TypeOK
BY InitTypeOK, NextTypeOK, PTL DEF CrashSpec

(* A server that never crashes is one that may.                            *)
LEMMA SpecMayCrash == Spec => CrashSpec
<1>1. [Next]_vars => [Next \/ Crash]_vars
  OBVIOUS
<1>2. QED
  BY <1>1, PTL DEF Spec, CrashSpec

-----------------------------------------------------------------------------
(* The inductive invariant.  Nothing is left of a deleted user's likes and *)
(* matches, and a request at a later stage rests on rows that are there    *)
(* unless one of the two users has been deleted meanwhile.                 *)

NothingLeft ==
  \A p \in Pairs :
    "GONE" \in {status[p[1]], status[p[2]]} => like[p] = "NONE" /\ match[p] = "NONE"

Grounded(q) ==
  /\ q.pc \notin {"idle", "block", "unmatch"} => q.from # q.to
  /\ q.pc \in Pursuing /\ status[q.from] # "GONE" /\ status[q.to] # "GONE" =>
       /\ like[<<q.from, q.to>>] # "NONE"
       /\ q.pc # "reciprocal" => like[<<q.to, q.from>>] # "NONE"
       /\ q.pc = "update" => match[OrderIds(q.from, q.to)] # "NONE"

RowInv ==
  /\ TypeOK
  /\ NothingLeft
  /\ \A r \in Req : Grounded(req[r])
  /\ MatchHasLikes

LEMMA InitRowInv == Init => RowInv /\ MutualLikeIsMatched
<1> SUFFICES ASSUME Init PROVE RowInv /\ MutualLikeIsMatched
  OBVIOUS
<1>1. NothingLeft /\ MutualLikeIsMatched /\ MatchHasLikes
  BY DEF Init, NothingLeft, MutualLikeIsMatched, MatchHasLikes, Mutual, IsLike, Pairs
<1>2. \A r \in Req : Grounded(req[r])
  BY DEF Init, Grounded, Idle, Pursuing
<1>3. QED
  BY <1>1, <1>2, InitTypeOK DEF RowInv

\* A step of a request touches that request only, and takes no row away.
StepOnly(r) ==
  /\ status' = status
  /\ \A p \in Pairs : like[p] # "NONE" => like'[p] # "NONE"
  /\ \A p \in Pairs : match[p] # "NONE" => match'[p] # "NONE"
  /\ blocked \subseteq blocked'
  /\ \A s \in Req \ {r} : req'[s] = req[s]

LEMMA StepGrows ==
  ASSUME TypeOK, NEW r \in Req, Step(r)
  PROVE  StepOnly(r)
<1> USE SlotTypes, OrderedIds DEF TypeOK, StepOnly, Put, Goto, Finish
<1>1. CASE ReadTarget(r) \/ ReadBlocked(r) \/ ReadLike(r)
  BY <1>1 DEF ReadTarget, ReadBlocked, ReadLike, Read, tables
<1>2. CASE Refuse(r) \/ PassQuota(r) \/ ExceedQuota(r) \/ FailGone(r)
  BY <1>2 DEF Refuse, PassQuota, ExceedQuota, FailGone, tables
<1>3. CASE Charge(r)
  BY <1>3 DEF Charge
<1>4. CASE PutLike(r)
  <2>1. req[r] \in SwipeRequest
    BY <1>4 DEF PutLike, AtLike, ReadsDone
  <2>2. req[r].action # "NONE"
    BY <2>1 DEF SwipeRequest, SwipeAction
  <2>3. QED
    BY <1>4, <2>1, <2>2 DEF PutLike, Pairs
<1>5. CASE ReadReciprocal(r) \/ CheckBlocked(r) \/ FindMatch(r)
  BY <1>5 DEF ReadReciprocal, CheckBlocked, FindMatch, tables
<1>6. CASE InsertMatch(r) \/ UpdateMatch(r) \/ Unmatch(r)
  BY <1>6 DEF InsertMatch, UpdateMatch, Unmatch
<1>7. CASE Block(r)
  BY <1>7 DEF Block
<1>8. QED
  BY <1>1, <1>2, <1>3, <1>4, <1>5, <1>6, <1>7 DEF Step

LEMMA StepNothingLeft ==
  ASSUME RowInv, NEW r \in Req, Step(r)
  PROVE  NothingLeft'
<1> USE SlotTypes, OrderedIds DEF RowInv, TypeOK, NothingLeft
<1>1. CASE PutLike(r)
  <2>1. req[r] \in SwipeRequest
    BY <1>1 DEF PutLike, AtLike, ReadsDone
  <2>2. QED
    BY <1>1, <2>1 DEF PutLike, SwipeRequest, Pairs
<1>2. CASE InsertMatch(r)
  <2>1. req[r] \in SwipeRequest
    BY <1>2 DEF InsertMatch
  <2>2. Key(r) \in {<<req[r].from, req[r].to>>, <<req[r].to, req[r].from>>}
    BY <2>1 DEF Key, SwipeRequest
  <2>3. QED
    BY <1>2, <2>1, <2>2 DEF InsertMatch, SwipeRequest, Pairs
<1>3. CASE UpdateMatch(r) \/ Unmatch(r)
  BY <1>3 DEF UpdateMatch, Unmatch
<1>4. CASE Block(r)
  BY <1>4 DEF Block
<1>5. CASE like' = like /\ match' = match /\ status' = status
  BY <1>5
<1>6. QED
  BY <1>1, <1>2, <1>3, <1>4, <1>5 DEF Step, ReadTarget, ReadBlocked, ReadLike, Read,
     Refuse, PassQuota, ExceedQuota, Charge, ReadReciprocal, CheckBlocked, FindMatch,
     FailGone, tables

\* The steps up to the charge keep the pair, and come before its like.
LEMMA EarlySteps ==
  ASSUME TypeOK, NEW r \in Req,
         ReadTarget(r) \/ ReadBlocked(r) \/ ReadLike(r) \/ PassQuota(r) \/ Charge(r)
  PROVE  /\ req[r] \in SwipeRequest
         /\ req'[r].pc \in {"reads", "charge", "like"}
         /\ req'[r].from = req[r].from /\ req'[r].to = req[r].to
<1> USE SlotTypes DEF TypeOK, Put, Goto
<1>1. req[r] \in SwipeRequest
  BY DEF ReadTarget, ReadBlocked, ReadLike, Read, PassQuota, AtCheck, ReadsDone, Charge
<1>2. CASE ReadTarget(r) \/ ReadBlocked(r)
  <2>1. PICK what, b : req' = [req EXCEPT ![r] = [req[r] EXCEPT !.todo = @ \ {what}, !.today = day, !.ok = b]]
    BY <1>2 DEF ReadTarget, ReadBlocked
  <2>2. QED
    BY <1>1, <1>2, <2>1 DEF ReadTarget, ReadBlocked, Read, SwipeRequest
<1>3. CASE ReadLike(r)
  <2>1. PICK b : req' = [req EXCEPT ![r] = [req[r] EXCEPT !.todo = @ \ {"like"}, !.today = day, !.pays = b]]
    BY <1>3 DEF ReadLike
  <2>2. QED
    BY <1>1, <1>3, <2>1 DEF ReadLike, Read, SwipeRequest
<1>4. CASE PassQuota(r)
  BY <1>1, <1>4 DEF PassQuota, SwipeRequest
<1>5. CASE Charge(r)
  BY <1>1, <1>5 DEF Charge, SwipeRequest
<1>6. QED
  BY <1>1, <1>2, <1>3, <1>4, <1>5

LEMMA StepGrounded ==
  ASSUME RowInv, NEW r \in Req, Step(r), NEW s \in Req
  PROVE  Grounded(req[s])'
<1> USE SlotTypes DEF RowInv
<1>1. CASE s # r
  <2>1. req'[s] = req[s] /\ StepOnly(r)
    BY <1>1, StepGrows DEF StepOnly
  <2>2. CASE req[s] \in SwipeRequest
    BY <2>1, <2>2, OrderedIds DEF StepOnly, Grounded, SwipeRequest, Pairs
  <2>3. CASE req[s] \notin SwipeRequest
    BY <2>1, <2>3 DEF Grounded, Pursuing
  <2>4. QED
    BY <2>2, <2>3
<1>2. CASE s = r
  <2> USE <1>2, StepGrows DEF TypeOK, Put, Goto, Finish
  <2>1. CASE req'[r] = Idle
    BY <2>1 DEF Grounded, Idle, Pursuing
  <2>2. CASE ReadTarget(r) \/ ReadBlocked(r) \/ ReadLike(r) \/ PassQuota(r) \/ Charge(r)
    <3>2. /\ req[r] \in SwipeRequest
          /\ req'[r].pc \in {"reads", "charge", "like"}
          /\ req'[r].from = req[r].from /\ req'[r].to = req[r].to
      BY <2>2, EarlySteps
    <3>3. req[r].from # req[r].to
      BY <3>2 DEF Grounded, SwipeRequest
    <3>4. QED
      BY <3>2, <3>3 DEF Grounded, Pursuing
  <2>3. CASE PutLike(r)
    <3>1. req[r] \in SwipeRequest
      BY <2>3 DEF PutLike, AtLike, ReadsDone
    <3>2. req[r].from # req[r].to
      BY <3>1 DEF Grounded, SwipeRequest
    <3>3. QED
      BY <2>1, <2>3, <3>1, <3>2 DEF PutLike, Grounded, SwipeRequest, SwipeAction, Pairs, Pursuing
  <2>4. CASE ReadReciprocal(r)
    <3>1. req[r] \in SwipeRequest
      BY <2>4 DEF ReadReciprocal
    <3>2. CASE IsLike(like[<<req[r].to, req[r].from>>])
      <4>1. like[<<req[r].to, req[r].from>>] # "NONE"
        BY <3>2 DEF IsLike
      <4>2. req' = [req EXCEPT ![r] = [req[r] EXCEPT !.pc = "check"]]
        BY <2>4, <3>2 DEF ReadReciprocal
      <4>3. QED
        BY <2>4, <3>1, <4>1, <4>2 DEF ReadReciprocal, Grounded, SwipeRequest, Pursuing, tables
    <3>3. QED
      BY <2>1, <2>4, <3>2 DEF ReadReciprocal
  <2>5. CASE CheckBlocked(r)
    <3>1. req[r] \in SwipeRequest
      BY <2>5 DEF CheckBlocked
    <3>2. QED
      BY <2>1, <2>5, <3>1 DEF CheckBlocked, Grounded, SwipeRequest, Pursuing, tables
  <2>6. CASE FindMatch(r)
    <3>1. req[r] \in SwipeRequest
      BY <2>6 DEF FindMatch
    <3>2. QED
      BY <2>6, <3>1 DEF FindMatch, Key, Grounded, SwipeRequest, Pursuing, tables
  <2>7. QED
    BY <2>1, <2>2, <2>3, <2>4, <2>5, <2>6 DEF Step, Refuse, ExceedQuota, InsertMatch,
       UpdateMatch, FailGone, Unmatch, Block
<1>3. QED
  BY <1>1, <1>2

LEMMA StepMatchHasLikes ==
  ASSUME RowInv, NEW r \in Req, Step(r)
  PROVE  MatchHasLikes'
<1> USE DEF RowInv, TypeOK
<1>1. CASE InsertMatch(r)
  <2> DEFINE u == req[r].from
             v == req[r].to
  <2>1. u \in User /\ v \in User /\ u # v
    BY <1>1, SlotTypes DEF InsertMatch, SwipeRequest, Grounded
  <2>2. like[<<u, v>>] # "NONE" /\ like[<<v, u>>] # "NONE"
    BY <1>1, <2>1 DEF InsertMatch, Grounded, Pursuing
  <2>3. /\ Key(r)[1] < Key(r)[2]
        /\ like[Key(r)] # "NONE" /\ like[<<Key(r)[2], Key(r)[1]>>] # "NONE"
    <3> HIDE DEF u, v
    <3>1. CASE Key(r) = <<u, v>> /\ u < v
      BY <2>2, <3>1
    <3>2. CASE Key(r) = <<v, u>> /\ v < u
      <4>1. Key(r)[1] = v /\ Key(r)[2] = u
        BY <3>2
      <4>2. QED
        BY <2>2, <3>2, <4>1
    <3>3. Key(r) = OrderIds(u, v)
      BY DEF Key, u, v
    <3>4. QED
      BY <2>1, <3>1, <3>2, <3>3, Ascending
  <2>4. \A p \in Pairs : match'[p] # "NONE" => match[p] # "NONE" \/ p = Key(r)
    BY <1>1 DEF InsertMatch
  <2>5. QED
    BY <1>1, <2>3, <2>4 DEF InsertMatch, MatchHasLikes
<1>2. CASE ~InsertMatch(r)
  <2>1. \A p \in Pairs : match'[p] # "NONE" => match[p] # "NONE"
    BY <1>2 DEF Step, ReadTarget, ReadBlocked, ReadLike, Read, Refuse, PassQuota, ExceedQuota,
       Charge, PutLike, ReadReciprocal, CheckBlocked, FindMatch, UpdateMatch, FailGone,
       Unmatch, Block, tables
  <2>2. StepOnly(r)
    BY StepGrows
  <2>3. QED
    BY <2>1, <2>2 DEF StepOnly, MatchHasLikes, Pairs
<1>3. QED
  BY <1>1, <1>2

LEMMA StepMutual ==
  ASSUME RowInv, MutualLikeIsMatched, NEW r \in Req, Step(r)
  PROVE  MutualLikeIsMatched'
<1> USE DEF RowInv, TypeOK
<1> SUFFICES ASSUME NEW a \in User, NEW b \in User, Mutual(a, b)'
             PROVE  \/ match'[OrderIds(a, b)] # "NONE"
                    \/ IsBlocked(a, b)'
                    \/ \E s \in Req : Matching(s, a, b)'
  BY DEF MutualLikeIsMatched
<1>1. StepOnly(r)
  BY StepGrows
<1>2. OrderIds(a, b) \in Pairs /\ <<a, b>> \in Pairs /\ <<b, a>> \in Pairs
  BY OrderedIds DEF Pairs
<1>3. CASE match[OrderIds(a, b)] # "NONE" \/ IsBlocked(a, b)
  BY <1>1, <1>2, <1>3 DEF StepOnly, IsBlocked
<1>4. ASSUME NEW s \in Req, s # r, Matching(s, a, b)
      PROVE  Matching(s, a, b)'
  BY <1>1, <1>4 DEF StepOnly, Matching
<1>5. CASE PutLike(r)
  <2>1. req[r] \in SwipeRequest
    BY <1>5, SlotTypes DEF PutLike, AtLike, ReadsDone
  <2>2. CASE <<req[r].from, req[r].to>> \in {<<a, b>>, <<b, a>>}
    <3>1. IsLike(req[r].action)
      BY <1>2, <1>5, <2>1, <2>2 DEF PutLike, Mutual, SwipeRequest
    <3>2. req' = [req EXCEPT ![r] = [req[r] EXCEPT !.pc = "reciprocal"]]
      BY <1>5, <3>1 DEF PutLike, Goto, Put
    <3>3. Matching(r, a, b)'
      BY <2>1, <2>2, <3>2 DEF Matching, SwipeRequest, Pursuing
    <3>4. QED
      BY <3>3
  <2>3. CASE <<req[r].from, req[r].to>> \notin {<<a, b>>, <<b, a>>}
    <3>1. Mutual(a, b) /\ ~Matching(r, a, b)
      BY <1>2, <1>5, <2>1, <2>3 DEF PutLike, Mutual, SwipeRequest, Matching
    <3>2. QED
      BY <1>3, <1>4, <3>1 DEF MutualLikeIsMatched
  <2>4. QED
    BY <2>2, <2>3
<1>6. CASE ~PutLike(r) /\ match[OrderIds(a, b)] = "NONE" /\ ~IsBlocked(a, b)
  <2>1. like' = like
    BY <1>6 DEF Step, ReadTarget, ReadBlocked, ReadLike, Read, Refuse, PassQuota, ExceedQuota,
       Charge, ReadReciprocal, CheckBlocked, FindMatch, InsertMatch, UpdateMatch, FailGone,
       Unmatch, Block, tables
  <2>2. Mutual(a, b)
    BY <2>1 DEF Mutual
  <2>3. PICK s \in Req : Matching(s, a, b)
    BY <1>6, <2>2 DEF MutualLikeIsMatched
  <2>4. CASE s # r
    BY <1>4, <2>3, <2>4
  <2>5. CASE s = r
    <3>1. req[r] \in SwipeRequest
      BY <2>3, <2>5, SlotTypes DEF Matching, Pursuing
    <3>2. /\ Key(r) = OrderIds(a, b)
          /\ IsBlocked(req[r].from, req[r].to) <=> IsBlocked(a, b)
          /\ IsLike(like[<<req[r].to, req[r].from>>])
      BY <2>2, <2>3, <2>5, <3>1, OrderedIds DEF Matching, Key, IsBlocked, Mutual, SwipeRequest
    <3>3. like[<<a, b>>] # "NONE"
      BY <2>2 DEF Mutual, IsLike
    <3>4. status[a] # "GONE" /\ status[b] # "GONE"
      BY <1>2, <3>3 DEF NothingLeft, Pairs
    <3>5. status[req[r].from] # "GONE" /\ status[req[r].to] # "GONE"
      BY <2>3, <2>5, <3>4 DEF Matching
    <3>6. req[r].pc # "update"
      BY <1>6, <3>1, <3>2, <3>5 DEF Grounded, Key, Pursuing
    <3>7. ASSUME NEW pc \in Pursuing, req' = [req EXCEPT ![r] = [req[r] EXCEPT !.pc = pc]]
          PROVE  Matching(r, a, b)'
      BY <2>3, <2>5, <3>1, <3>7 DEF Matching, SwipeRequest
    <3>8. CASE ReadReciprocal(r) \/ CheckBlocked(r) \/ FindMatch(r)
      <4>1. \E pc \in Pursuing : req' = [req EXCEPT ![r] = [req[r] EXCEPT !.pc = pc]]
        BY <1>6, <3>2, <3>8 DEF ReadReciprocal, CheckBlocked, FindMatch, Goto, Put, Pursuing
      <4>2. QED
        BY <3>7, <4>1
    <3>9. CASE InsertMatch(r)
      BY <1>2, <3>2, <3>9 DEF InsertMatch
    <3>10. req[r].pc \in Pursuing
      BY <2>3, <2>5 DEF Matching
    <3>11. QED
      BY <1>6, <3>5, <3>6, <3>8, <3>9, <3>10 DEF Step, ReadTarget, ReadBlocked, ReadLike, Read,
         Refuse, PassQuota, ExceedQuota, AtCheck, ReadsDone, AtLike, Charge, UpdateMatch,
         FailGone, Unmatch, Block, Pursuing
  <2>6. QED
    BY <2>4, <2>5
<1>7. QED
  BY <1>3, <1>5, <1>6

\* The only other steps that touch the rows are deletions.
LEMMA BeginRowInv ==
  ASSUME RowInv, NEW r \in Req, Swipe(r) \/ BeginUnmatch(r) \/ BeginBlock(r)
  PROVE  /\ (NothingLeft /\ MatchHasLikes)' /\ \A s \in Req : Grounded(req[s])'
         /\ MutualLikeIsMatched => MutualLikeIsMatched'
<1> USE DEF RowInv, TypeOK
<1>1. UNCHANGED <<status, like, match, blocked, usage, day>>
  BY DEF Swipe, BeginUnmatch, BeginBlock, Begin, tables
<1>2. (NothingLeft /\ MatchHasLikes)'
  BY <1>1 DEF NothingLeft, MatchHasLikes
<1>3. /\ req[r].pc = "idle"
      /\ \A s \in Req \ {r} : req'[s] = req[s]
      /\ req'[r].pc \in {"reads", "block", "unmatch"}
      /\ req'[r].pc = "reads" => req'[r].from # req'[r].to
  <2>1. CASE Swipe(r)
    BY <2>1 DEF Swipe, Begin, Put
  <2>2. CASE BeginUnmatch(r)
    BY <2>2 DEF BeginUnmatch, Begin, Put
  <2>3. CASE BeginBlock(r)
    BY <2>3 DEF BeginBlock, Begin, Put
  <2>4. QED
    BY <2>1, <2>2, <2>3
<1>4. ASSUME NEW s \in Req PROVE Grounded(req[s])'
  BY <1>1, <1>3 DEF Grounded, Pursuing
<1>5. ASSUME MutualLikeIsMatched PROVE MutualLikeIsMatched'
  BY <1>1, <1>3, <1>5 DEF MutualLikeIsMatched, Mutual, IsBlocked, Matching, Pursuing
<1>6. QED
  BY <1>2, <1>4, <1>5

LEMMA AccountRowInv ==
  ASSUME RowInv,
         \/ \E u \in User : BanUser(u) \/ UnbanUser(u)
         \/ NextDay \/ UNCHANGED vars
  PROVE  /\ (NothingLeft /\ MatchHasLikes)' /\ \A s \in Req : Grounded(req[s])'
         /\ MutualLikeIsMatched => MutualLikeIsMatched'
<1> USE DEF RowInv, TypeOK
<1>1. /\ UNCHANGED <<like, match, blocked, req>>
      /\ \A u \in User : status'[u] = "GONE" <=> status[u] = "GONE"
  BY DEF BanUser, UnbanUser, NextDay, vars, tables
<1>2. ASSUME NEW s \in Req PROVE Grounded(req[s])'
  <2>1. CASE req[s] \in SwipeRequest
    BY <1>1, <2>1 DEF Grounded, SwipeRequest
  <2>2. CASE req[s] \notin SwipeRequest
    BY <1>1, <2>2, SlotTypes DEF Grounded, Pursuing
  <2>3. QED
    BY <2>1, <2>2
<1>3. QED
  BY <1>1, <1>2 DEF NothingLeft, MatchHasLikes, MutualLikeIsMatched, Mutual, IsBlocked, Matching, Pairs

LEMMA DeleteRowInv ==
  ASSUME RowInv, NEW u \in User, DeleteUser(u)
  PROVE  /\ (NothingLeft /\ MatchHasLikes)' /\ \A s \in Req : Grounded(req[s])'
         /\ MutualLikeIsMatched => MutualLikeIsMatched'
<1> USE DEF RowInv, TypeOK
<1>1. /\ req' = req
      /\ status' = [status EXCEPT ![u] = "GONE"]
      /\ \A p \in Pairs : u \in {p[1], p[2]} => like'[p] = "NONE" /\ match'[p] = "NONE"
      /\ \A p \in Pairs : u \notin {p[1], p[2]} =>
           /\ like'[p] = like[p] /\ match'[p] = match[p]
           /\ p \in blocked' <=> p \in blocked
  BY DEF DeleteUser, Pairs
<1> DEFINE Same(a, b) ==
  /\ like'[<<a, b>>] = like[<<a, b>>]
  /\ match'[OrderIds(a, b)] = match[OrderIds(a, b)]
  /\ <<a, b>> \in blocked' <=> <<a, b>> \in blocked
<1>same. ASSUME NEW a \in User \ {u}, NEW b \in User \ {u} PROVE Same(a, b)
  <2>1. <<a, b>> \in Pairs /\ <<b, a>> \in Pairs
    BY DEF Pairs
  <2>2. \A p \in {<<a, b>>, <<b, a>>} : u \notin {p[1], p[2]}
    OBVIOUS
  <2>3. OrderIds(a, b) = <<a, b>> \/ OrderIds(a, b) = <<b, a>>
    BY DEF OrderIds
  <2>4. QED
    BY <1>1, <2>1, <2>2, <2>3
<1>2. NothingLeft'
  BY <1>1 DEF NothingLeft, Pairs
<1>3. MatchHasLikes'
  BY <1>1 DEF MatchHasLikes, Pairs
<1>4. ASSUME NEW s \in Req PROVE Grounded(req[s])'
  <2>1. CASE req[s] \in SwipeRequest
    <3>1. req[s].from \in User /\ req[s].to \in User
      BY <2>1 DEF SwipeRequest
    <3>2. CASE u \in {req[s].from, req[s].to}
      BY <1>1, <3>1, <3>2 DEF Grounded
    <3>3. CASE u \notin {req[s].from, req[s].to}
      <4>1. Same(req[s].from, req[s].to) /\ Same(req[s].to, req[s].from)
        BY <1>same, <3>1, <3>3
      <4>2. QED
        BY <1>1, <3>1, <3>3, <4>1 DEF Grounded
    <3>4. QED
      BY <3>2, <3>3
  <2>2. CASE req[s] \notin SwipeRequest
    BY <1>1, <2>2, SlotTypes DEF Grounded, Pursuing
  <2>3. QED
    BY <2>1, <2>2
<1>5. ASSUME MutualLikeIsMatched, NEW a \in User, NEW b \in User, Mutual(a, b)'
      PROVE  \/ match'[OrderIds(a, b)] # "NONE"
             \/ IsBlocked(a, b)'
             \/ \E s \in Req : Matching(s, a, b)'
  <2>1. a # u /\ b # u
    BY <1>1, <1>5 DEF Mutual, IsLike, Pairs
  <2>2. Mutual(a, b)
    BY <1>1, <1>5, <2>1 DEF Mutual, Pairs
  <2>3. match'[OrderIds(a, b)] = match[OrderIds(a, b)] /\ (IsBlocked(a, b)' <=> IsBlocked(a, b))
    BY <1>same, <2>1 DEF IsBlocked
  <2>4. QED
    BY <1>1, <1>5, <2>2, <2>3 DEF MutualLikeIsMatched, Matching
<1>6. QED
  BY <1>2, <1>3, <1>4, <1>5 DEF MutualLikeIsMatched

LEMMA NextRowInv ==
  ASSUME RowInv, [Next \/ Crash]_vars
  PROVE  RowInv'
<1>1. TypeOK'
  BY NextTypeOK DEF RowInv
<1>2. CASE \E r \in Req : Step(r)
  BY <1>1, <1>2, StepNothingLeft, StepGrounded, StepMatchHasLikes DEF RowInv
<1>3. CASE Crash
  BY <1>1, <1>3 DEF RowInv, Crash, tables, NothingLeft, MatchHasLikes, Grounded, Idle, Pursuing
<1>4. CASE \E r \in Req : Swipe(r) \/ BeginUnmatch(r) \/ BeginBlock(r)
  BY <1>1, <1>4, BeginRowInv DEF RowInv
<1>5. CASE \E u \in Deletable : DeleteUser(u)
  BY <1>1, <1>5, DeleteRowInv, MatchingAssumption DEF RowInv
<1>6. CASE (\E u \in Bannable : BanUser(u) \/ UnbanUser(u)) \/ NextDay \/ UNCHANGED vars
  BY <1>1, <1>6, AccountRowInv, MatchingAssumption DEF RowInv
<1>7. QED
  BY <1>2, <1>3, <1>4, <1>5, <1>6 DEF Next

(* Whatever the order of requests, deletions and crashes, a match row      *)
(* stands once per pair and between two users who both swiped: createMatch *)
(* is reached only past the sender's own upsert and the reciprocal read.   *)
THEOREM MatchesRest == CrashSpec => []MatchHasLikes
<1>1. RowInv => MatchHasLikes
  BY DEF RowInv
<1>2. QED
  BY <1>1, InitRowInv, NextRowInv, PTL DEF CrashSpec

(* As long as the server does not crash, no mutual like is lost: the pair  *)
(* is matched, blocked, or in the hands of a request.                      *)
THEOREM MutualLikesMatched == Spec => []MutualLikeIsMatched
<1>1. ASSUME RowInv, MutualLikeIsMatched, [Next]_vars PROVE MutualLikeIsMatched'
  <2>1. CASE \E r \in Req : Step(r)
    BY <1>1, <2>1, StepMutual
  <2>2. CASE \E r \in Req : Swipe(r) \/ BeginUnmatch(r) \/ BeginBlock(r)
    BY <1>1, <2>2, BeginRowInv
  <2>3. CASE \E u \in Deletable : DeleteUser(u)
    BY <1>1, <2>3, DeleteRowInv, MatchingAssumption
  <2>4. CASE (\E u \in Bannable : BanUser(u) \/ UnbanUser(u)) \/ NextDay \/ UNCHANGED vars
    BY <1>1, <2>4, AccountRowInv, MatchingAssumption
  <2>5. QED
    BY <1>1, <2>1, <2>2, <2>3, <2>4 DEF Next
<1>2. Spec => []RowInv
  BY SpecMayCrash, InitRowInv, NextRowInv, PTL DEF CrashSpec
<1>3. QED
  BY <1>1, <1>2, InitRowInv, PTL DEF Spec

-----------------------------------------------------------------------------
(* A parted pair stays parted.                                             *)

LEMMA StepParted ==
  ASSUME RowInv, NEW r \in Req, Step(r), NEW a \in User, NEW b \in User, Parted(a, b)
  PROVE  Parted(a, b)'
<1> USE DEF RowInv, TypeOK
<1>1. StepOnly(r)
  BY StepGrows
<1>2. CASE "GONE" \in {status[a], status[b]}
  <2>1. OrderIds(a, b) \in Pairs
    BY OrderedIds
  <2>2. match'[OrderIds(a, b)] = "NONE"
    BY <1>1, <1>2, <2>1, StepNothingLeft, OrderedIds DEF StepOnly, NothingLeft, Pairs
  <2>3. QED
    BY <1>1, <1>2, <2>2 DEF Parted, StepOnly
<1>3. CASE "GONE" \notin {status[a], status[b]}
  <2>1. /\ match[OrderIds(a, b)] # "ACTIVE" /\ IsBlocked(a, b)
        /\ \A s \in Req : Matching(s, a, b) => req[s].pc \in {"reciprocal", "check"}
    BY <1>3 DEF Parted
  <2>2. IsBlocked(a, b)'
    BY <1>1, <2>1 DEF StepOnly, IsBlocked
  <2>3. match'[OrderIds(a, b)] # "ACTIVE"
    <3>1. CASE InsertMatch(r) \/ UpdateMatch(r)
      <4>1. req[r] \in SwipeRequest
        BY <3>1, SlotTypes DEF InsertMatch, UpdateMatch
      <4>2. Key(r) # OrderIds(a, b)
        BY <2>1, <3>1, <4>1 DEF InsertMatch, UpdateMatch, Key, OrderIds, Matching, Pursuing
      <4>3. QED
        BY <2>1, <3>1, <4>2, OrderedIds DEF InsertMatch, UpdateMatch
    <3>2. CASE ~(InsertMatch(r) \/ UpdateMatch(r))
      <4>1. \A p \in Pairs : match'[p] = "ACTIVE" => match[p] = "ACTIVE"
        BY <3>2 DEF Step, ReadTarget, ReadBlocked, ReadLike, Read, Refuse, PassQuota, ExceedQuota,
           Charge, PutLike, ReadReciprocal, CheckBlocked, FindMatch, FailGone, Unmatch, Block, tables
      <4>2. QED
        BY <2>1, <4>1, OrderedIds
    <3>3. QED
      BY <3>1, <3>2
  <2>4. ASSUME NEW s \in Req, Matching(s, a, b)' PROVE req'[s].pc \in {"reciprocal", "check"}
    <3>1. CASE s # r
      BY <1>1, <2>1, <2>4, <3>1 DEF StepOnly, Matching
    <3>2. CASE s = r
      <4>1. req'[r] # Idle
        BY <2>4, <3>2 DEF Matching, Pursuing, Idle
      <4>2. CASE ReadTarget(r) \/ ReadBlocked(r) \/ ReadLike(r) \/ PassQuota(r) \/ Charge(r)
        <5>2. req'[r].pc \notin Pursuing
          BY <4>2, EarlySteps DEF Pursuing
        <5>3. QED
          BY <2>4, <3>2, <5>2 DEF Matching
      <4>3. CASE PutLike(r) \/ ReadReciprocal(r)
        <5>1. req[r] \in SwipeRequest
          BY <4>3, SlotTypes DEF PutLike, AtLike, ReadsDone, ReadReciprocal
        <5>2. QED
          BY <3>2, <4>1, <4>3, <5>1 DEF PutLike, ReadReciprocal, Put, Goto, Finish, SwipeRequest
      <4>4. CASE CheckBlocked(r) \/ FindMatch(r)
        <5>1. req[r] \in SwipeRequest
          BY <4>4, SlotTypes DEF CheckBlocked, FindMatch
        <5>2. <<req[r].from, req[r].to>> = <<req'[r].from, req'[r].to>>
          BY <4>1, <4>4, <5>1 DEF CheckBlocked, FindMatch, Put, Goto, Finish, SwipeRequest
        <5>3. Matching(r, a, b)
          BY <2>4, <3>2, <4>4, <5>2 DEF Matching, CheckBlocked, FindMatch, Pursuing
        <5>4. IsBlocked(req[r].from, req[r].to) /\ req[r].pc # "find"
          BY <2>1, <5>3 DEF Matching, IsBlocked
        <5>5. QED
          BY <4>1, <4>4, <5>4 DEF CheckBlocked, FindMatch, Finish, Put
      <4>5. QED
        BY <4>1, <4>2, <4>3, <4>4 DEF Step, Refuse, ExceedQuota, InsertMatch, UpdateMatch,
           FailGone, Unmatch, Block, Finish, Put
    <3>3. QED
      BY <3>1, <3>2
  <2>5. QED
    BY <2>2, <2>3, <2>4 DEF Parted
<1>4. QED
  BY <1>2, <1>3

(* No crash, re-swipe or deletion gives a parted pair a match again: every *)
(* way to an active match leads through createMatch's check.               *)
THEOREM PartedStays == CrashSpec => PartedForEver
<1>1. ASSUME RowInv, [Next \/ Crash]_vars, NEW a \in User, NEW b \in User, Parted(a, b)
      PROVE  Parted(a, b)'
  <2> USE <1>1 DEF RowInv, TypeOK
  <2>1. CASE \E r \in Req : Step(r)
    BY <2>1, StepParted
  <2>2. CASE \E r \in Req : Swipe(r) \/ BeginUnmatch(r) \/ BeginBlock(r)
    <3>1. PICK r \in Req : Swipe(r) \/ BeginUnmatch(r) \/ BeginBlock(r)
      BY <2>2
    <3>2. UNCHANGED <<status, like, match, blocked>>
      BY <3>1 DEF Swipe, BeginUnmatch, BeginBlock, Begin, tables
    <3>3. req'[r].pc \notin Pursuing /\ \A s \in Req \ {r} : req'[s] = req[s]
      <4>1. CASE Swipe(r)
        BY <4>1 DEF Swipe, Begin, Put, Pursuing
      <4>2. CASE BeginUnmatch(r)
        BY <4>2 DEF BeginUnmatch, Begin, Put, Pursuing
      <4>3. CASE BeginBlock(r)
        BY <4>3 DEF BeginBlock, Begin, Put, Pursuing
      <4>4. QED
        BY <3>1, <4>1, <4>2, <4>3
    <3>4. QED
      BY <3>2, <3>3 DEF Parted, IsBlocked, Matching
  <2>3. CASE \E u \in User : DeleteUser(u)
    <3>1. PICK u \in User : DeleteUser(u)
      BY <2>3
    <3>2. OrderIds(a, b) \in Pairs /\ OrderIds(a, b) \in {<<a, b>>, <<b, a>>}
      BY OrderedIds
    <3>3. match'[OrderIds(a, b)] # "ACTIVE"
      BY <3>1, <3>2 DEF DeleteUser, Parted
    <3>4. CASE u \in {a, b} \/ "GONE" \in {status[a], status[b]}
      BY <3>1, <3>3, <3>4 DEF DeleteUser, Parted
    <3>5. CASE u \notin {a, b} /\ "GONE" \notin {status[a], status[b]}
      <4>1. IsBlocked(a, b)'
        BY <3>1, <3>5 DEF DeleteUser, Parted, IsBlocked
      <4>2. req' = req
        BY <3>1 DEF DeleteUser
      <4>3. QED
        BY <3>3, <3>5, <4>1, <4>2 DEF Parted, Matching
    <3>6. QED
      BY <3>4, <3>5
  <2>4. CASE (\E u \in User : BanUser(u) \/ UnbanUser(u)) \/ NextDay \/ UNCHANGED vars
    <3>1. /\ UNCHANGED <<match, blocked, req>>
          /\ \A u \in User : status'[u] = "GONE" <=> status[u] = "GONE"
      BY <2>4 DEF BanUser, UnbanUser, NextDay, vars, tables
    <3>2. QED
      BY <3>1 DEF Parted, IsBlocked, Matching
  <2>5. CASE Crash
    BY <2>5 DEF Crash, tables, Parted, IsBlocked, Matching, Idle, Pursuing
  <2>6. QED
    BY <2>1, <2>2, <2>3, <2>4, <2>5, MatchingAssumption DEF Next
<1>2. RowInv /\ [Next \/ Crash]_vars => [\A a, b \in User : Parted(a, b) => Parted(a, b)']_vars
  BY <1>1
<1>3. QED
  BY <1>2, InitRowInv, NextRowInv, PTL DEF CrashSpec, PartedForEver

-----------------------------------------------------------------------------
(* The quota.  Each request counted by Charging holds a slot, and the one  *)
(* that has just passed the check saw a count below the limit.             *)

LEMMA ChargingFinite ==
  ASSUME NEW u, NEW d
  PROVE  /\ IsFiniteSet(Charging(u, d))
         /\ Cardinality(Charging(u, d)) \in Nat
         /\ Cardinality(Charging(u, d)) <= Cardinality(Req)
         /\ Cardinality(Req) \in Nat
BY FS_Subset, FS_CardinalityType, MatchingAssumption DEF Charging

LEMMA ChargingShrinks ==
  ASSUME NEW u, NEW d, Charging(u, d)' \subseteq Charging(u, d)
  PROVE  /\ Cardinality(Charging(u, d)') \in Nat
         /\ Cardinality(Charging(u, d)') <= Cardinality(Charging(u, d))
BY ChargingFinite, FS_Subset, FS_CardinalityType

LEMMA InitBudget == Init => SwipeBudget
<1> SUFFICES ASSUME Init, NEW u \in User, NEW d \in Day
             PROVE  usage[u][d] + Cardinality(Charging(u, d)) <= FreeDailySwipes + Cardinality(Req) - 1
  BY DEF SwipeBudget
<1>1. Charging(u, d) = {} /\ usage[u][d] = 0
  BY DEF Init, Charging, Idle
<1>2. QED
  BY <1>1, ChargingFinite, FS_EmptySet, MatchingAssumption

LEMMA NextBudget ==
  ASSUME TypeOK, SwipeBudget, [Next \/ Crash]_vars
  PROVE  SwipeBudget'
<1> SUFFICES ASSUME NEW u \in User, NEW d \in Day
             PROVE  usage'[u][d] + Cardinality(Charging(u, d)') <= FreeDailySwipes + Cardinality(Req) - 1
  BY DEF SwipeBudget
<1> USE DEF TypeOK
<1>1. usage[u][d] \in Nat /\ usage[u][d] + Cardinality(Charging(u, d)) <= FreeDailySwipes + Cardinality(Req) - 1
  BY DEF SwipeBudget
<1>2. ASSUME usage'[u][d] \in Nat, usage'[u][d] <= usage[u][d], Charging(u, d)' \subseteq Charging(u, d)
      PROVE  usage'[u][d] + Cardinality(Charging(u, d)') <= FreeDailySwipes + Cardinality(Req) - 1
  BY <1>1, <1>2, ChargingShrinks, ChargingFinite, MatchingAssumption
<1>3. ASSUME NEW r \in Req, PassQuota(r)
      PROVE  usage'[u][d] + Cardinality(Charging(u, d)') <= FreeDailySwipes + Cardinality(Req) - 1
  <2>1. req[r] \in SwipeRequest /\ req[r].pc = "reads"
    BY <1>3, SlotTypes DEF PassQuota, AtCheck, ReadsDone
  <2>2. usage' = usage /\ req' = [req EXCEPT ![r] = [req[r] EXCEPT !.pc = "charge"]]
    BY <1>3 DEF PassQuota, Goto, Put, tables
  <2>3. CASE req[r].from = u /\ req[r].today = d
    <3>1. usage[u][d] < FreeDailySwipes
      BY <1>3, <2>3 DEF PassQuota
    <3>2. Charging(u, d)' \subseteq Req
      BY DEF Charging
    <3>3. Cardinality(Charging(u, d)') \in Nat /\ Cardinality(Charging(u, d)') <= Cardinality(Req)
      BY <3>2, FS_Subset, FS_CardinalityType, MatchingAssumption
    <3>4. QED
      BY <1>1, <2>2, <3>1, <3>3, ChargingFinite, MatchingAssumption
  <2>4. CASE ~(req[r].from = u /\ req[r].today = d)
    <3>1. Charging(u, d)' \subseteq Charging(u, d)
      BY <2>1, <2>2, <2>4 DEF Charging, SwipeRequest
    <3>2. QED
      BY <1>1, <1>2, <2>2, <3>1
  <2>5. QED
    BY <2>3, <2>4
<1>4. ASSUME NEW r \in Req, Charge(r)
      PROVE  usage'[u][d] + Cardinality(Charging(u, d)') <= FreeDailySwipes + Cardinality(Req) - 1
  <2>1. req[r] \in SwipeRequest /\ req[r].pc = "charge"
    BY <1>4, SlotTypes DEF Charge
  <2>2. /\ usage' = [usage EXCEPT ![req[r].from][req[r].today] = @ + 1]
        /\ req' = [req EXCEPT ![r] = [req[r] EXCEPT !.pc = "like"]]
    BY <1>4 DEF Charge, Goto, Put
  <2>3. Charging(u, d)' = Charging(u, d) \ {r}
    BY <2>1, <2>2 DEF Charging, SwipeRequest
  <2>4. CASE req[r].from = u /\ req[r].today = d
    <3>1. usage'[u][d] = usage[u][d] + 1
      BY <2>2, <2>4
    <3>2. r \in Charging(u, d)
      BY <2>1, <2>4 DEF Charging
    <3>3. Cardinality(Charging(u, d)') = Cardinality(Charging(u, d)) - 1
      BY <2>3, <3>2, ChargingFinite, FS_RemoveElement
    <3>4. QED
      BY <1>1, <3>1, <3>3, ChargingFinite, MatchingAssumption
  <2>5. CASE ~(req[r].from = u /\ req[r].today = d)
    <3>1. usage'[u][d] = usage[u][d]
      BY <2>1, <2>2, <2>5 DEF SwipeRequest
    <3>2. QED
      BY <1>1, <1>2, <2>3, <3>1
  <2>6. QED
    BY <2>4, <2>5
<1>5. ASSUME NEW r \in Req, UNCHANGED usage, req'[r].pc # "charge",
             \A s \in Req \ {r} : req'[s] = req[s]
      PROVE  usage'[u][d] + Cardinality(Charging(u, d)') <= FreeDailySwipes + Cardinality(Req) - 1
  <2>1. Charging(u, d)' \subseteq Charging(u, d)
    BY <1>5 DEF Charging
  <2>2. QED
    BY <1>1, <1>2, <1>5, <2>1
<1>6. ASSUME NEW r \in Req, Step(r), ~PassQuota(r), ~Charge(r)
      PROVE  UNCHANGED usage /\ req'[r].pc # "charge" /\ \A s \in Req \ {r} : req'[s] = req[s]
  <2>1. StepOnly(r)
    BY <1>6, StepGrows
  <2>2. UNCHANGED usage
    BY <1>6 DEF Step, ReadTarget, ReadBlocked, ReadLike, Read, Refuse, ExceedQuota,
       PutLike, ReadReciprocal, CheckBlocked, FindMatch, InsertMatch, UpdateMatch,
       FailGone, Unmatch, Block, tables
  <2>3. CASE req'[r] = Idle
    BY <2>1, <2>2, <2>3 DEF StepOnly, Idle
  <2>4. CASE ReadTarget(r) \/ ReadBlocked(r) \/ ReadLike(r)
    <3>1. req[r] \in SwipeRequest /\ req[r].pc = "reads"
      BY <2>4, SlotTypes DEF ReadTarget, ReadBlocked, ReadLike, Read
    <3>2. CASE ReadTarget(r) \/ ReadBlocked(r)
      <4>1. PICK what, b : req' = [req EXCEPT ![r] = [req[r] EXCEPT !.todo = @ \ {what}, !.today = day, !.ok = b]]
        BY <3>2 DEF ReadTarget, ReadBlocked, Put
      <4>2. QED
        BY <2>1, <2>2, <3>1, <4>1 DEF StepOnly, SwipeRequest
    <3>3. CASE ReadLike(r)
      <4>1. PICK b : req' = [req EXCEPT ![r] = [req[r] EXCEPT !.todo = @ \ {"like"}, !.today = day, !.pays = b]]
        BY <3>3 DEF ReadLike, Put
      <4>2. QED
        BY <2>1, <2>2, <3>1, <4>1 DEF StepOnly, SwipeRequest
    <3>4. QED
      BY <2>4, <3>2, <3>3
  <2>5. CASE req'[r] # Idle /\ (PutLike(r) \/ ReadReciprocal(r) \/ CheckBlocked(r) \/ FindMatch(r))
    <3>1. req[r] \in SwipeRequest
      BY <2>5, SlotTypes DEF PutLike, AtLike, ReadsDone, ReadReciprocal, CheckBlocked, FindMatch
    <3>2. PICK pc \in Pursuing : req' = [req EXCEPT ![r] = [req[r] EXCEPT !.pc = pc]]
      BY <2>5 DEF PutLike, ReadReciprocal, CheckBlocked, FindMatch, Put, Goto, Finish, Pursuing
    <3>3. QED
      BY <2>1, <2>2, <3>1, <3>2 DEF StepOnly, SwipeRequest, Pursuing
  <2>6. QED
    BY <1>6, <2>3, <2>4, <2>5 DEF Step, Refuse, ExceedQuota, InsertMatch, UpdateMatch,
       FailGone, Unmatch, Block, Finish, Put
<1>7. ASSUME NEW r \in Req, Swipe(r) \/ BeginUnmatch(r) \/ BeginBlock(r)
      PROVE  UNCHANGED usage /\ req'[r].pc # "charge" /\ \A s \in Req \ {r} : req'[s] = req[s]
  <2>1. CASE Swipe(r)
    BY <2>1 DEF Swipe, Begin, Put, tables
  <2>2. CASE BeginUnmatch(r)
    BY <2>2 DEF BeginUnmatch, Begin, Put, tables
  <2>3. CASE BeginBlock(r)
    BY <2>3 DEF BeginBlock, Begin, Put, tables
  <2>4. QED
    BY <1>7, <2>1, <2>2, <2>3
<1>8. ASSUME NEW w \in User, DeleteUser(w)
      PROVE  usage'[u][d] + Cardinality(Charging(u, d)') <= FreeDailySwipes + Cardinality(Req) - 1
  <2>1. Charging(u, d)' = Charging(u, d)
    BY <1>8 DEF DeleteUser, Charging
  <2>2. usage'[u][d] = usage[u][d] \/ usage'[u][d] = 0
    BY <1>8 DEF DeleteUser
  <2>3. QED
    BY <1>1, <1>2, <2>1, <2>2
<1>9. CASE (\E w \in User : BanUser(w) \/ UnbanUser(w)) \/ NextDay \/ UNCHANGED vars
  <2>1. UNCHANGED <<usage, req>>
    BY <1>9 DEF BanUser, UnbanUser, NextDay, vars, tables
  <2>2. QED
    BY <1>1, <2>1 DEF Charging
<1>10. CASE Crash
  BY <1>1, <1>2, <1>10 DEF Crash, tables, Charging, Idle
<1>11. QED
  BY <1>3, <1>4, <1>5, <1>6, <1>7, <1>8, <1>9, <1>10, MatchingAssumption DEF Next

(* The check and the increment are two statements, and still no user is    *)
(* charged, on any day, for more than the limit plus the requests that     *)
(* could be between the two.                                               *)
THEOREM SwipeBudgetKept == CrashSpec => []SwipeBudget
BY InitTypeOK, NextTypeOK, InitBudget, NextBudget, PTL DEF CrashSpec

-----------------------------------------------------------------------------
(* What a free man owes.  A request past its charge holds a charge for the *)
(* like it is about to write, as long as that like is new; and one that    *)
(* pays nothing has seen a like that is still there, or one of its users   *)
(* has been deleted and it will fail.                                      *)

Fresh(a, b) == like[<<a, b>>] = "NONE" /\ "GONE" \notin {status[a], status[b]}

Creating(u) ==
  {r \in Req : req[r].pc = "like" /\ req[r].from = u /\ Fresh(u, req[r].to)}

FreeOfCharge(r) ==
  req[r].pc = "reads" /\ req[r].from \in Male \ Payer /\ ~req[r].pays =>
    ~Fresh(req[r].from, req[r].to)

PaidFor(u) ==
  /\ IsFiniteSet(Liked(u)) /\ IsFiniteSet(Charges(u))
  /\ Cardinality(Liked(u)) + Cardinality(Creating(u)) <= Cardinality(Charges(u))

PaidInv ==
  /\ TypeOK
  /\ \A r \in Req : FreeOfCharge(r)
  /\ \A u \in Male \ Payer : PaidFor(u)

LEMMA NoLarger ==
  ASSUME NEW S, NEW T, IsFiniteSet(T), S \subseteq T
  PROVE  /\ IsFiniteSet(S) /\ Cardinality(S) \in Nat /\ Cardinality(T) \in Nat
         /\ Cardinality(S) <= Cardinality(T)
<1>1. IsFiniteSet(S) /\ Cardinality(S) <= Cardinality(T)
  BY FS_Subset
<1>2. Cardinality(S) \in Nat /\ Cardinality(T) \in Nat
  BY <1>1, FS_CardinalityType
<1>3. QED
  BY <1>1, <1>2

LEMMA OneMore ==
  ASSUME NEW S, IsFiniteSet(S), NEW x
  PROVE  /\ IsFiniteSet(S \cup {x})
         /\ Cardinality(S) \in Nat /\ Cardinality(S \cup {x}) \in Nat
         /\ Cardinality(S \cup {x}) = Cardinality(S) + (IF x \in S THEN 0 ELSE 1)
<1>1. Cardinality(S) \in Nat
  BY FS_CardinalityType
<1>2. CASE x \in S
  <2>1. IsFiniteSet(S \cup {x}) /\ Cardinality(S \cup {x}) = Cardinality(S)
    BY <1>2, FS_AddElement
  <2>2. QED
    BY <1>1, <1>2, <2>1
<1>3. CASE x \notin S
  <2>1. IsFiniteSet(S \cup {x}) /\ Cardinality(S \cup {x}) = Cardinality(S) + 1
    BY <1>3, FS_AddElement
  <2>2. QED
    BY <1>1, <1>3, <2>1
<1>4. QED
  BY <1>2, <1>3

LEMMA OneCharge ==
  ASSUME NEW u, NEW c
  PROVE  /\ c \in Charges(u) <=> \E d \in Day : \E i \in 1 .. usage[u][d] : c = <<d, i>>
         /\ c \in Charges(u)' <=> \E d \in Day : \E i \in 1 .. usage'[u][d] : c = <<d, i>>
BY DEF Charges

\* An increment of the count is one more charge.
LEMMA ChargesGrow ==
  ASSUME TypeOK, NEW u \in User, NEW d \in Day, usage' = [usage EXCEPT ![u][d] = @ + 1]
  PROVE  /\ Charges(u)' = Charges(u) \cup {<<d, usage[u][d] + 1>>}
         /\ <<d, usage[u][d] + 1>> \notin Charges(u)
         /\ \A v \in User \ {u} : Charges(v)' = Charges(v)
<1> DEFINE n == usage[u][d]
<1>1. /\ n \in Nat /\ usage'[u][d] = n + 1
      /\ \A e \in Day \ {d} : usage'[u][e] = usage[u][e]
      /\ \A v \in User \ {u} : usage'[v] = usage[v]
  BY DEF TypeOK
<1>2. \A i : i \in 1 .. (n + 1) <=> i \in 1 .. n \/ i = n + 1
  BY <1>1
<1>3. ASSUME NEW c PROVE c \in Charges(u)' <=> c \in Charges(u) \/ c = <<d, n + 1>>
  <2>1. ASSUME c \in Charges(u)' PROVE c \in Charges(u) \/ c = <<d, n + 1>>
    <3>1. PICK e \in Day : \E i \in 1 .. usage'[u][e] : c = <<e, i>>
      BY <2>1, OneCharge
    <3>2. PICK i \in 1 .. usage'[u][e] : c = <<e, i>>
      BY <3>1
    <3>3. i \in 1 .. usage[u][e] \/ (e = d /\ i = n + 1)
      BY <1>1, <1>2, <3>2
    <3>4. QED
      BY <3>2, <3>3, OneCharge
  <2>2. ASSUME c \in Charges(u) PROVE c \in Charges(u)'
    <3>1. PICK e \in Day : \E i \in 1 .. usage[u][e] : c = <<e, i>>
      BY <2>2, OneCharge
    <3>2. PICK i \in 1 .. usage[u][e] : c = <<e, i>>
      BY <3>1
    <3>3. i \in 1 .. usage'[u][e]
      BY <1>1, <1>2, <3>2
    <3>4. QED
      BY <3>2, <3>3, OneCharge
  <2>3. <<d, n + 1>> \in Charges(u)'
    <3>1. n + 1 \in 1 .. usage'[u][d]
      BY <1>1
    <3>2. QED
      BY <3>1, OneCharge
  <2>4. QED
    BY <2>1, <2>2, <2>3
<1>4. <<d, n + 1>> \notin Charges(u)
  <2>1. ASSUME NEW e \in Day, NEW i \in 1 .. usage[u][e], <<d, n + 1>> = <<e, i>> PROVE FALSE
    <3>1. d = e /\ n + 1 = i
      BY <2>1
    <3>2. n + 1 \in 1 .. n
      BY <3>1
    <3>3. QED
      BY <1>1, <3>2
  <2>2. QED
    BY <2>1, OneCharge
<1>5. ASSUME NEW v \in User \ {u} PROVE Charges(v)' = Charges(v)
  BY <1>1 DEF Charges
<1>6. QED
  BY <1>3, <1>4, <1>5

LEMMA CreatingFinite ==
  ASSUME NEW u
  PROVE  /\ IsFiniteSet(Creating(u)) /\ IsFiniteSet(Creating(u)')
         /\ Cardinality(Creating(u)) \in Nat /\ Cardinality(Creating(u)') \in Nat
<1>1. Creating(u) \subseteq Req /\ Creating(u)' \subseteq Req /\ IsFiniteSet(Req)
  BY MatchingAssumption DEF Creating
<1>2. QED
  BY <1>1, NoLarger

\* Who writes no further like and has no further one to write owes no more.
LEMMA OwesNoMore ==
  ASSUME NEW u, PaidFor(u), Liked(u)' \subseteq Liked(u), Charges(u)' = Charges(u),
         Creating(u)' \subseteq Creating(u)
  PROVE  PaidFor(u)'
<1>1. IsFiniteSet(Liked(u)) /\ IsFiniteSet(Charges(u))
  BY DEF PaidFor
<1>2. /\ Cardinality(Liked(u)) \in Nat /\ Cardinality(Liked(u)') \in Nat
      /\ Cardinality(Liked(u)') <= Cardinality(Liked(u)) /\ IsFiniteSet(Liked(u)')
  BY <1>1, NoLarger
<1>3. /\ Cardinality(Creating(u)) \in Nat /\ Cardinality(Creating(u)') \in Nat
      /\ Cardinality(Creating(u)') <= Cardinality(Creating(u))
  BY CreatingFinite, NoLarger
<1>4. Cardinality(Liked(u)) + Cardinality(Creating(u)) <= Cardinality(Charges(u))
  BY DEF PaidFor
<1>5. Cardinality(Charges(u)) \in Nat
  BY <1>1, FS_CardinalityType
<1>6. Cardinality(Liked(u)') + Cardinality(Creating(u)') <= Cardinality(Charges(u)')
  BY <1>2, <1>3, <1>4, <1>5
<1>7. QED
  BY <1>1, <1>2, <1>6 DEF PaidFor

\* No step makes a like new again for users who are both there.
LEMMA FreshFades ==
  ASSUME TypeOK, [Next \/ Crash]_vars, NEW a \in User, NEW b \in User, Fresh(a, b)'
  PROVE  Fresh(a, b)
<1> USE DEF Fresh, TypeOK
<1>1. <<a, b>> \in Pairs
  BY DEF Pairs
<1>2. CASE \E r \in Req : Step(r)
  BY <1>1, <1>2, StepGrows DEF StepOnly
<1>3. CASE \E r \in Req : Swipe(r) \/ BeginUnmatch(r) \/ BeginBlock(r)
  BY <1>3 DEF Swipe, BeginUnmatch, BeginBlock, Begin, tables
<1>4. CASE \E u \in User : BanUser(u) \/ UnbanUser(u)
  BY <1>4 DEF BanUser, UnbanUser, tables
<1>5. CASE \E u \in User : DeleteUser(u)
  BY <1>1, <1>5 DEF DeleteUser
<1>6. CASE NextDay \/ Crash \/ UNCHANGED vars
  BY <1>6 DEF NextDay, Crash, vars, tables
<1>7. QED
  BY <1>2, <1>3, <1>4, <1>5, <1>6, MatchingAssumption DEF Next

\* A slot that leaves no new like pending, or leaves its request as it was.
LEMMA CreatingFades ==
  ASSUME TypeOK, [Next \/ Crash]_vars, NEW u \in User,
         \A s \in Req : req'[s].pc = "like" => req'[s] = req[s]
  PROVE  Creating(u)' \subseteq Creating(u)
<1> SUFFICES ASSUME NEW s \in Creating(u)' PROVE s \in Creating(u)
  OBVIOUS
<1>1. s \in Req /\ req'[s].pc = "like" /\ req'[s].from = u /\ Fresh(u, req[s].to)'
  BY DEF Creating
<1>2. req'[s] = req[s] /\ req[s].to \in User
  BY <1>1, SlotTypes DEF SwipeRequest
<1>3. like'[<<u, req[s].to>>] = "NONE" /\ "GONE" \notin {status'[u], status'[req[s].to]}
  BY <1>1, <1>2 DEF Fresh
<1>4. \A b \in User : like'[<<u, b>>] = "NONE" /\ "GONE" \notin {status'[u], status'[b]} => Fresh(u, b)
  BY FreshFades DEF Fresh
<1>5. QED
  BY <1>1, <1>2, <1>3, <1>4 DEF Creating

LEMMA InitPaid == Init => PaidInv
<1> SUFFICES ASSUME Init PROVE PaidInv
  OBVIOUS
<1>1. ASSUME NEW u \in Male \ Payer PROVE PaidFor(u)
  <2>1. u \in User
    BY MatchingAssumption
  <2>2. Liked(u) = {} /\ Creating(u) = {}
    BY <2>1 DEF Init, Liked, Creating, Idle, Pairs
  <2>3. \A d \in Day : 1 .. usage[u][d] = {}
    BY <2>1 DEF Init
  <2>4. Charges(u) = {}
    BY <2>3 DEF Charges
  <2>5. IsFiniteSet({}) /\ Cardinality({}) = 0
    BY FS_EmptySet
  <2>6. QED
    BY <2>2, <2>4, <2>5 DEF PaidFor
<1>2. \A r \in Req : FreeOfCharge(r)
  BY DEF Init, FreeOfCharge, Idle
<1>3. QED
  BY <1>1, <1>2, InitTypeOK DEF PaidInv

LEMMA ChargePaid ==
  ASSUME PaidInv, NEW r \in Req, Charge(r), NEW u \in Male \ Payer
  PROVE  PaidFor(u)'
<1> DEFINE f == req[r].from
           d == req[r].today
<1>1. /\ TypeOK /\ PaidFor(u) /\ u \in User
      /\ req[r] \in SwipeRequest /\ f \in User /\ d \in Day
  BY SlotTypes, MatchingAssumption DEF PaidInv, Charge, SwipeRequest
<1>2. /\ UNCHANGED <<like, status>>
      /\ usage' = [usage EXCEPT ![f][d] = @ + 1]
      /\ req' = [req EXCEPT ![r] = [req[r] EXCEPT !.pc = "like"]]
  BY DEF Charge, Goto, Put
<1>3. /\ req'[r].from = f /\ \A s \in Req \ {r} : req'[s] = req[s]
      /\ Liked(u)' = Liked(u)
  BY <1>1, <1>2 DEF TypeOK, SwipeRequest, Liked
<1>4. CASE u # f
  <2>1. Charges(u)' = Charges(u)
    BY <1>1, <1>2, <1>4, ChargesGrow
  <2>2. Creating(u)' \subseteq Creating(u)
    BY <1>2, <1>3, <1>4 DEF Creating, Fresh
  <2>3. QED
    BY <1>1, <1>3, <2>1, <2>2, OwesNoMore
<1>5. CASE u = f
  <2> DEFINE c == <<d, usage[u][d] + 1>>
  <2>1. Charges(u)' = Charges(u) \cup {c} /\ c \notin Charges(u)
    BY <1>1, <1>2, <1>5, ChargesGrow
  <2> HIDE DEF c
  <2>2. Creating(u)' \subseteq Creating(u) \cup {r}
    BY <1>2, <1>3 DEF Creating, Fresh
  <2>3. IsFiniteSet(Charges(u)) /\ IsFiniteSet(Liked(u))
    BY <1>1 DEF PaidFor
  <2>4. /\ IsFiniteSet(Charges(u)') /\ Cardinality(Charges(u)) \in Nat
        /\ Cardinality(Charges(u)') = Cardinality(Charges(u)) + 1
    BY <2>1, <2>3, OneMore
  <2>5. /\ IsFiniteSet(Creating(u) \cup {r})
        /\ Cardinality(Creating(u) \cup {r}) \in Nat /\ Cardinality(Creating(u)) \in Nat
        /\ Cardinality(Creating(u) \cup {r}) <= Cardinality(Creating(u)) + 1
    BY CreatingFinite, OneMore
  <2>6. /\ Cardinality(Creating(u)') \in Nat
        /\ Cardinality(Creating(u)') <= Cardinality(Creating(u) \cup {r})
    BY <2>2, <2>5, NoLarger
  <2>7. Cardinality(Liked(u)) \in Nat
    BY <2>3, FS_CardinalityType
  <2>8. Cardinality(Liked(u)) + Cardinality(Creating(u)) <= Cardinality(Charges(u))
    BY <1>1 DEF PaidFor
  <2>9. Cardinality(Liked(u)') + Cardinality(Creating(u)') <= Cardinality(Charges(u)')
    BY <1>3, <2>4, <2>5, <2>6, <2>7, <2>8
  <2>10. QED
    BY <1>3, <2>3, <2>4, <2>9 DEF PaidFor
<1>6. QED
  BY <1>4, <1>5

LEMMA PutLikePaid ==
  ASSUME PaidInv, NEW r \in Req, PutLike(r), NEW u \in Male \ Payer
  PROVE  PaidFor(u)'
<1> DEFINE f == req[r].from
           v == req[r].to
<1>1. /\ TypeOK /\ PaidFor(u) /\ u \in User
      /\ req[r] \in SwipeRequest /\ f \in User /\ v \in User /\ req[r].action # "NONE"
  BY SlotTypes, MatchingAssumption DEF PaidInv, PutLike, AtLike, ReadsDone, SwipeRequest, SwipeAction
<1>2. /\ UNCHANGED <<usage, status>> /\ "GONE" \notin {status[f], status[v]}
      /\ like' = [like EXCEPT ![<<f, v>>] = req[r].action]
      /\ req[r].pc = "like" \/ (req[r].pc = "reads" /\ ~req[r].pays)
      /\ \/ req' = [req EXCEPT ![r] = [req[r] EXCEPT !.pc = "reciprocal"]]
         \/ req' = [req EXCEPT ![r] = Idle]
  BY DEF PutLike, AtLike, ReadsDone, Goto, Finish, Put
<1>3. req'[r].pc # "like" /\ \A s \in Req \ {r} : req'[s] = req[s]
  BY <1>1, <1>2 DEF TypeOK, SwipeRequest, Idle
<1>4. /\ like'[<<f, v>>] # "NONE"
      /\ \A p \in Pairs \ {<<f, v>>} : like'[p] = like[p]
      /\ \A w \in User : <<u, w>> \in Pairs
      /\ Charges(u)' = Charges(u)
  BY <1>1, <1>2 DEF TypeOK, Pairs, Charges
<1>5. Creating(u)' \subseteq Creating(u) \ {r}
  <2>1. [Next \/ Crash]_vars
    BY DEF Next, Step
  <2>2. Creating(u)' \subseteq Creating(u)
    BY <1>1, <1>3, <2>1, CreatingFades
  <2>3. QED
    BY <1>3, <2>2 DEF Creating
<1>6. CASE u # f \/ like[<<u, v>>] # "NONE"
  <2>1. Liked(u)' \subseteq Liked(u)
    BY <1>4, <1>6 DEF Liked
  <2>2. QED
    BY <1>1, <1>4, <1>5, <2>1, OwesNoMore
<1>7. CASE u = f /\ like[<<u, v>>] = "NONE"
  <2>1. Fresh(u, v)
    BY <1>2, <1>7 DEF Fresh
  <2>2. req[r].pc = "like"
    BY <1>2, <1>7, <2>1 DEF PaidInv, FreeOfCharge
  <2>3. r \in Creating(u)
    BY <1>7, <2>1, <2>2 DEF Creating
  <2>4. Liked(u)' \subseteq Liked(u) \cup {v}
    BY <1>4, <1>7 DEF Liked
  <2>5. IsFiniteSet(Liked(u)) /\ IsFiniteSet(Charges(u))
    BY <1>1 DEF PaidFor
  <2>6. /\ IsFiniteSet(Liked(u) \cup {v})
        /\ Cardinality(Liked(u)) \in Nat /\ Cardinality(Liked(u) \cup {v}) \in Nat
        /\ Cardinality(Liked(u) \cup {v}) <= Cardinality(Liked(u)) + 1
    <3> HIDE DEF v
    <3>1. /\ IsFiniteSet(Liked(u) \cup {v})
          /\ Cardinality(Liked(u)) \in Nat /\ Cardinality(Liked(u) \cup {v}) \in Nat
          /\ Cardinality(Liked(u) \cup {v}) = Cardinality(Liked(u)) + IF v \in Liked(u) THEN 0 ELSE 1
      BY <2>5, OneMore
    <3>2. QED
      BY <3>1
  <2>7. /\ IsFiniteSet(Liked(u)') /\ Cardinality(Liked(u)') \in Nat
        /\ Cardinality(Liked(u)') <= Cardinality(Liked(u) \cup {v})
    BY <2>4, <2>6, NoLarger
  <2>8. /\ IsFiniteSet(Creating(u) \ {r}) /\ Cardinality(Creating(u)) \in Nat
        /\ Cardinality(Creating(u) \ {r}) = Cardinality(Creating(u)) - 1
    BY <2>3, CreatingFinite, FS_RemoveElement
  <2>9. /\ Cardinality(Creating(u)') \in Nat
        /\ Cardinality(Creating(u)') <= Cardinality(Creating(u) \ {r})
    BY <1>5, <2>8, NoLarger
  <2>10. Cardinality(Charges(u)) \in Nat
    BY <2>5, FS_CardinalityType
  <2>11. Cardinality(Liked(u)) + Cardinality(Creating(u)) <= Cardinality(Charges(u))
    BY <1>1 DEF PaidFor
  <2>12. Cardinality(Liked(u)') + Cardinality(Creating(u)') <= Cardinality(Charges(u)')
    BY <1>4, <2>6, <2>7, <2>8, <2>9, <2>10, <2>11
  <2>13. QED
    BY <1>4, <2>5, <2>7, <2>12 DEF PaidFor
<1>8. QED
  BY <1>6, <1>7

\* Only a charge leads to the stage where a like is written.
LEMMA ToLike ==
  ASSUME TypeOK, NEW r \in Req, Step(r), ~Charge(r)
  PROVE  req'[r].pc # "like"
<1> USE SlotTypes DEF TypeOK, Put, Goto, Finish
<1>1. CASE req'[r] = Idle
  BY <1>1 DEF Idle
<1>2. CASE ReadTarget(r) \/ ReadBlocked(r) \/ ReadLike(r)
  <2>1. req[r] \in SwipeRequest /\ req[r].pc = "reads"
    BY <1>2 DEF ReadTarget, ReadBlocked, ReadLike, Read
  <2>2. CASE ReadTarget(r) \/ ReadBlocked(r)
    <3>1. PICK what, b : req' = [req EXCEPT ![r] = [req[r] EXCEPT !.todo = @ \ {what}, !.today = day, !.ok = b]]
      BY <2>2 DEF ReadTarget, ReadBlocked
    <3>2. QED
      BY <2>1, <3>1 DEF SwipeRequest
  <2>3. CASE ReadLike(r)
    <3>1. PICK b : req' = [req EXCEPT ![r] = [req[r] EXCEPT !.todo = @ \ {"like"}, !.today = day, !.pays = b]]
      BY <2>3 DEF ReadLike
    <3>2. QED
      BY <2>1, <3>1 DEF SwipeRequest
  <2>4. QED
    BY <1>2, <2>2, <2>3
<1>3. CASE /\ req'[r] # Idle
           /\ PassQuota(r) \/ PutLike(r) \/ ReadReciprocal(r) \/ CheckBlocked(r) \/ FindMatch(r)
  <2>1. req[r] \in SwipeRequest
    BY <1>3 DEF PassQuota, AtCheck, PutLike, AtLike, ReadsDone, ReadReciprocal, CheckBlocked, FindMatch
  <2>2. PICK pc \in Pursuing \cup {"charge"} : req' = [req EXCEPT ![r] = [req[r] EXCEPT !.pc = pc]]
    BY <1>3 DEF PassQuota, PutLike, ReadReciprocal, CheckBlocked, FindMatch, Pursuing
  <2>3. QED
    BY <2>1, <2>2 DEF SwipeRequest, Pursuing
<1>4. QED
  BY <1>1, <1>2, <1>3 DEF Step, Refuse, ExceedQuota, InsertMatch, UpdateMatch, FailGone, Unmatch, Block

LEMMA StepPaid ==
  ASSUME PaidInv, NEW r \in Req, Step(r), NEW u \in Male \ Payer
  PROVE  PaidFor(u)'
<1>1. /\ TypeOK /\ PaidFor(u) /\ u \in User /\ StepOnly(r) /\ [Next \/ Crash]_vars
  BY StepGrows, MatchingAssumption DEF PaidInv, Next
<1>2. CASE ~Charge(r) /\ ~PutLike(r)
  <2>1. UNCHANGED <<like, usage>>
    BY <1>2 DEF Step, ReadTarget, ReadBlocked, ReadLike, Read, Refuse, PassQuota, ExceedQuota,
       ReadReciprocal, CheckBlocked, FindMatch, InsertMatch, UpdateMatch, FailGone, Unmatch, Block,
       tables
  <2>2. \A s \in Req : req'[s].pc = "like" => req'[s] = req[s]
    BY <1>1, <1>2, ToLike DEF StepOnly
  <2>3. Liked(u)' = Liked(u) /\ Charges(u)' = Charges(u)
    BY <2>1 DEF Liked, Charges
  <2>4. QED
    BY <1>1, <2>2, <2>3, CreatingFades, OwesNoMore
<1>3. QED
  BY <1>2, ChargePaid, PutLikePaid

\* What happens outside the handlers.
LEMMA OthersPaid ==
  ASSUME PaidInv, [Next \/ Crash]_vars, ~ \E r \in Req : Step(r), NEW u \in Male \ Payer
  PROVE  PaidFor(u)'
<1>1. TypeOK /\ PaidFor(u) /\ u \in User
  BY MatchingAssumption DEF PaidInv
<1>2. \A s \in Req : req'[s].pc = "like" => req'[s] = req[s]
  <2>1. CASE \E r \in Req : Swipe(r) \/ BeginUnmatch(r) \/ BeginBlock(r)
    BY <1>1, <2>1 DEF Swipe, BeginUnmatch, BeginBlock, Begin, Put, TypeOK
  <2>2. CASE Crash
    BY <2>2 DEF Crash, Idle
  <2>3. CASE UNCHANGED req
    BY <2>3
  <2>4. QED
    BY <2>1, <2>2, <2>3 DEF Next, BanUser, UnbanUser, DeleteUser, NextDay, vars
<1>3. Creating(u)' \subseteq Creating(u)
  BY <1>1, <1>2, CreatingFades
<1>4. CASE UNCHANGED <<like, usage>>
  <2>1. Liked(u)' = Liked(u) /\ Charges(u)' = Charges(u)
    BY <1>4 DEF Liked, Charges
  <2>2. QED
    BY <1>1, <1>3, <2>1, OwesNoMore
<1>5. CASE \E w \in User : DeleteUser(w)
  <2>1. PICK w \in User : DeleteUser(w)
    BY <1>5
  <2>2. CASE w = u
    <3>1. Liked(u)' = {}
      BY <2>1, <2>2 DEF DeleteUser, Liked, Pairs
    <3>2. usage'[u] = [d \in Day |-> 0]
      BY <1>1, <2>1, <2>2 DEF DeleteUser, TypeOK
    <3>3. Charges(u)' = {}
      <4>1. \A d \in Day : 1 .. usage'[u][d] = {}
        BY <3>2
      <4>2. QED
        BY <4>1 DEF Charges
    <3>4. Creating(u)' = {}
      BY <1>1, <2>1, <2>2 DEF DeleteUser, Creating, Fresh, TypeOK
    <3>5. IsFiniteSet({}) /\ Cardinality({}) = 0
      BY FS_EmptySet
    <3>6. QED
      BY <3>1, <3>3, <3>4, <3>5 DEF PaidFor
  <2>3. CASE w # u
    <3>1. Liked(u)' \subseteq Liked(u)
      BY <1>1, <2>1 DEF DeleteUser, Liked, Pairs
    <3>2. usage'[u] = usage[u]
      BY <1>1, <2>1, <2>3 DEF DeleteUser, TypeOK
    <3>3. Charges(u)' = Charges(u)
      BY <3>2 DEF Charges
    <3>4. QED
      BY <1>1, <1>3, <3>1, <3>3, OwesNoMore
  <2>4. QED
    BY <2>2, <2>3
<1>6. QED
  BY <1>4, <1>5, MatchingAssumption DEF Next, Swipe, BeginUnmatch, BeginBlock, Begin, BanUser, UnbanUser,
     NextDay, Crash, vars, tables

\* Who was told that nothing is due keeps being right about it.
LEMMA NextFreeOfCharge ==
  ASSUME PaidInv, [Next \/ Crash]_vars, NEW s \in Req
  PROVE  FreeOfCharge(s)'
<1> SUFFICES ASSUME req'[s].pc = "reads", req'[s].from \in Male \ Payer, ~req'[s].pays,
                    Fresh(req[s].from, req[s].to)'
             PROVE  FALSE
  BY DEF FreeOfCharge
<1> USE DEF PaidInv
<1> DEFINE Learns(r) == ReadTarget(r) \/ ReadBlocked(r) \/ ReadLike(r)
<1>1. \A a, b \in User :
        like'[<<a, b>>] = "NONE" /\ "GONE" \notin {status'[a], status'[b]} => Fresh(a, b)
  BY FreshFades DEF Fresh
<1>2. like'[<<req'[s].from, req'[s].to>>] = "NONE"
      /\ "GONE" \notin {status'[req'[s].from], status'[req'[s].to]}
  BY DEF Fresh
<1>3. ASSUME req[s] \in SwipeRequest, req'[s].from = req[s].from, req'[s].to = req[s].to
      PROVE  Fresh(req[s].from, req[s].to)
  BY <1>1, <1>2, <1>3 DEF SwipeRequest
<1>4. CASE req'[s] = req[s]
  <2>1. req[s] \in SwipeRequest
    BY <1>4, SlotTypes
  <2>2. QED
    BY <1>3, <1>4, <2>1 DEF FreeOfCharge
<1>5. CASE Learns(s)
  <2>1. /\ req[s] \in SwipeRequest /\ req[s].pc = "reads"
        /\ req'[s].from = req[s].from /\ req'[s].to = req[s].to
    BY <1>5, EarlySteps, SlotTypes DEF ReadTarget, ReadBlocked, ReadLike, Read
  <2>2. Fresh(req[s].from, req[s].to)
    BY <1>3, <2>1
  <2>3. req[s].pays
    BY <2>1, <2>2 DEF FreeOfCharge
  <2>4. CASE ReadTarget(s) \/ ReadBlocked(s)
    <3>1. PICK what, b : req' = [req EXCEPT ![s] = [req[s] EXCEPT !.todo = @ \ {what}, !.today = day, !.ok = b]]
      BY <2>4 DEF ReadTarget, ReadBlocked, Put
    <3>2. req'[s].pays = req[s].pays
      BY <2>1, <3>1 DEF SwipeRequest, TypeOK
    <3>3. QED
      BY <2>3, <3>2
  <2>5. CASE ReadLike(s)
    <3> DEFINE b == req[s].pays /\ like[<<req[s].from, req[s].to>>] = "NONE"
    <3>1. req' = [req EXCEPT ![s] = [req[s] EXCEPT !.todo = @ \ {"like"}, !.today = day, !.pays = b]]
      BY <2>5 DEF ReadLike, Put
    <3>2. b
      BY <2>2, <2>3 DEF Fresh
    <3> HIDE DEF b
    <3>3. req'[s].pays = b
      BY <2>1, <3>1 DEF SwipeRequest, TypeOK
    <3>4. QED
      BY <3>2, <3>3
  <2>6. QED
    BY <1>5, <2>4, <2>5
<1>6. CASE Swipe(s)
  <2>1. PICK w \in Swipes, premium \in BOOLEAN :
          /\ premium => w[1] \in Payer
          /\ req' = [req EXCEPT ![s] =
               [pc |-> "reads", from |-> w[1], to |-> w[2], action |-> w[3], todo |-> Reads,
                ok |-> TRUE, pays |-> w[1] \in Male /\ ~premium, today |-> 0]]
    BY <1>6 DEF Swipe, Begin, Put
  <2>2. req'[s].from = w[1] /\ req'[s].pays = (w[1] \in Male /\ ~premium)
    BY <2>1 DEF TypeOK
  <2>3. QED
    BY <2>1, <2>2
<1>7. CASE \E r \in Req : Step(r)
  <2>1. PICK r \in Req : Step(r)
    BY <1>7
  <2>2. CASE s # r
    BY <1>4, <2>1, <2>2, StepGrows DEF StepOnly
  <2>3. CASE s = r /\ ~Learns(s)
    <3>1. CASE req'[s] = Idle
      BY <3>1 DEF Idle
    <3>2. CASE /\ req'[s] # Idle
               /\ \/ PassQuota(s) \/ Charge(s) \/ PutLike(s) \/ ReadReciprocal(s)
                  \/ CheckBlocked(s) \/ FindMatch(s)
      <4>1. req[s] \in SwipeRequest
        BY <3>2, SlotTypes DEF PassQuota, AtCheck, Charge, PutLike, AtLike, ReadsDone,
           ReadReciprocal, CheckBlocked, FindMatch
      <4>2. PICK pc \in Pursuing \cup {"charge", "like"} :
              req' = [req EXCEPT ![s] = [req[s] EXCEPT !.pc = pc]]
        BY <3>2 DEF PassQuota, Charge, PutLike, ReadReciprocal, CheckBlocked, FindMatch, Pursuing,
           Goto, Finish, Put, TypeOK
      <4>3. QED
        BY <4>1, <4>2 DEF SwipeRequest, Pursuing, TypeOK
    <3>3. QED
      BY <2>1, <2>3, <3>1, <3>2 DEF Step, Refuse, ExceedQuota, InsertMatch, UpdateMatch, FailGone,
         Unmatch, Block, Finish, Put, TypeOK
  <2>4. QED
    BY <1>5, <2>2, <2>3
<1>8. CASE \E r \in Req : Swipe(r) /\ r # s
  BY <1>4, <1>8 DEF Swipe, Begin, Put, TypeOK
<1>9. CASE \E r \in Req : BeginUnmatch(r) \/ BeginBlock(r)
  <2>1. req'[s] = req[s] \/ req'[s].pc \in {"unmatch", "block"}
    BY <1>9 DEF BeginUnmatch, BeginBlock, Begin, Put, TypeOK
  <2>2. QED
    BY <1>4, <2>1
<1>10. CASE Crash
  BY <1>10 DEF Crash, Idle
<1>11. CASE UNCHANGED req
  BY <1>4, <1>11
<1>12. QED
  BY <1>6, <1>7, <1>8, <1>9, <1>10, <1>11 DEF Next, BanUser, UnbanUser, DeleteUser, NextDay, vars

LEMMA NextPaid ==
  ASSUME PaidInv, [Next \/ Crash]_vars
  PROVE  PaidInv'
<1>1. TypeOK'
  BY NextTypeOK DEF PaidInv
<1>2. \A s \in Req : FreeOfCharge(s)'
  BY NextFreeOfCharge
<1>3. \A u \in Male \ Payer : PaidFor(u)'
  BY StepPaid, OthersPaid
<1>4. QED
  BY <1>1, <1>2, <1>3 DEF PaidInv

(* A man who never pays gets no like for nothing, however his swipes,      *)
(* midnights, deletions and crashes interleave: each user he has swiped on *)
(* has a charge of its own.                                                *)
THEOREM LikesPaidForHolds == CrashSpec => []LikesPaidFor
<1>1. ASSUME PaidInv PROVE LikesPaidFor
  <2> SUFFICES ASSUME NEW u \in Male \ Payer
               PROVE  Cardinality(Liked(u)) <= Cardinality(Charges(u))
    BY DEF LikesPaidFor
  <2>1. PaidFor(u)
    BY <1>1 DEF PaidInv
  <2>2. Cardinality(Liked(u)) \in Nat /\ Cardinality(Charges(u)) \in Nat
    BY <2>1, FS_CardinalityType DEF PaidFor
  <2>3. QED
    BY <2>1, <2>2, CreatingFinite DEF PaidFor
<1>2. QED
  BY <1>1, InitPaid, NextPaid, PTL DEF CrashSpec

-----------------------------------------------------------------------------
(* Matching keeps the promise of MatchPromise: each step of each request   *)
(* is a step of the promise or none.                                       *)

\* A block in flight is of two different users, as the guard of blockUser says.
BlocksOthers == \A r \in Req : req[r].pc = "block" => req[r].from # req[r].to

LEMMA NextBlocksOthers ==
  ASSUME TypeOK, BlocksOthers, [Next]_vars
  PROVE  BlocksOthers'
<1> USE SlotTypes DEF TypeOK, BlocksOthers
<1>1. CASE \E r \in Req : Swipe(r) \/ BeginUnmatch(r) \/ BeginBlock(r)
  BY <1>1 DEF Swipe, BeginUnmatch, BeginBlock, Begin, Put
<1>2. ASSUME NEW r \in Req, Step(r) PROVE BlocksOthers'
  <2>1. \A s \in Req \ {r} : req'[s] = req[s]
    BY <1>2, StepGrows DEF StepOnly
  <2>2. req'[r].pc # "block"
    <3>1. CASE ReadTarget(r) \/ ReadBlocked(r) \/ ReadLike(r) \/ PassQuota(r) \/ Charge(r)
      BY <3>1, EarlySteps
    <3>2. CASE PutLike(r) \/ ReadReciprocal(r) \/ CheckBlocked(r) \/ FindMatch(r)
      BY <3>2 DEF PutLike, AtLike, ReadsDone, ReadReciprocal, CheckBlocked, FindMatch, Goto,
         Finish, Put, Idle, SwipeRequest
    <3>3. CASE \/ Refuse(r) \/ ExceedQuota(r) \/ InsertMatch(r) \/ UpdateMatch(r)
               \/ FailGone(r) \/ Unmatch(r) \/ Block(r)
      BY <3>3 DEF Refuse, ExceedQuota, InsertMatch, UpdateMatch, FailGone, Unmatch, Block,
         Finish, Put, Idle
    <3>4. QED
      BY <1>2, <3>1, <3>2, <3>3 DEF Step
  <2>3. QED
    BY <2>1, <2>2
<1>3. CASE UNCHANGED req
  BY <1>3
<1>4. QED
  BY <1>1, <1>2, <1>3 DEF Next, BanUser, UnbanUser, DeleteUser, NextDay, vars

-----------------------------------------------------------------------------
(* The pair of a request, and whom it concerns.                            *)

LEMMA KeyFacts ==
  ASSUME TypeOK, NEW r \in Req, req[r].pc # "idle"
  PROVE  /\ req[r].from \in User /\ req[r].to \in User
         /\ Key(r) \in {<<req[r].from, req[r].to>>, <<req[r].to, req[r].from>>}
         /\ Key(r) \in Pairs
         /\ Key(r) = Promise!Pair(req[r].from, req[r].to)
         /\ req[r].from # req[r].to => Key(r) \in Promise!Keys /\ Key(r)[1] < Key(r)[2]
<1>1. req[r].from \in User /\ req[r].to \in User
  BY SlotTypes DEF SwipeRequest, PairRequest
<1>2. Key(r) \in {<<req[r].from, req[r].to>>, <<req[r].to, req[r].from>>} /\ Key(r) \in Pairs
  BY <1>1, OrderedIds DEF Key
<1>3. Key(r) = Promise!Pair(req[r].from, req[r].to)
  BY DEF Key, OrderIds, Promise!Pair
<1>4. ASSUME req[r].from # req[r].to PROVE Key(r) \in Promise!Keys /\ Key(r)[1] < Key(r)[2]
  BY <1>1, <1>2, <1>4, Ascending DEF Key, Promise!Keys, Promise!Pairs, Pairs
<1>5. QED
  BY <1>1, <1>2, <1>3, <1>4

LEMMA KeysOfPromise == Promise!Keys = {q \in Pairs : q[1] < q[2]}
<1>1. ASSUME NEW q \in Pairs, q[1] < q[2] PROVE q[1] # q[2]
  <2>1. q[1] \in Int /\ q[2] \in Int
    BY MatchingAssumption DEF Pairs
  <2>2. QED
    BY <1>1, <2>1
<1>2. QED
  BY <1>1 DEF Promise!Keys, Promise!Pairs, Pairs

\* A living pair is a key, and a request of it has two living users.
LEMMA LivingKey ==
  ASSUME TypeOK, NEW r \in Req, req[r].pc # "idle", Key(r) \in Living
  PROVE  /\ req[r].from # req[r].to
         /\ status[req[r].from] # "GONE" /\ status[req[r].to] # "GONE"
<1>1. req[r].from # req[r].to
  <2> SUFFICES ASSUME req[r].from = req[r].to PROVE FALSE
    OBVIOUS
  <2>1. Key(r) = <<req[r].from, req[r].from>> /\ req[r].from \in Int
    BY KeyFacts, MatchingAssumption
  <2>2. QED
    BY <2>1 DEF Living
<1>2. QED
  BY <1>1, KeyFacts DEF Living, Members

LEMMA KeyLives ==
  ASSUME TypeOK, NEW r \in Req, req[r].pc # "idle", req[r].from # req[r].to,
         status[req[r].from] # "GONE", status[req[r].to] # "GONE"
  PROVE  Key(r) \in Living
BY KeyFacts DEF Living, Members

-----------------------------------------------------------------------------
(* What a step of one request does to the pairs that are owed or admitted. *)

\* The other requests are where they were, and their users too.
Alone(r) ==
  /\ Members' = Members
  /\ \A s \in Req \ {r} : req'[s] = req[s]

\* If the likes stand, so do the debts of the others.
OthersOwe(r) == \A s \in Req \ {r} : Owes(s)' <=> Owes(s)

LEMMA OthersKeep ==
  ASSUME NEW r \in Req, Alone(r)
  PROVE  /\ like' = like => OthersOwe(r)
         /\ \A s \in Req \ {r} : (Admits(s)' <=> Admits(s)) /\ Key(s)' = Key(s)
BY DEF Alone, OthersOwe, Owes, Admits, Key

LEMMA OwedAfter ==
  ASSUME NEW r \in Req, Alone(r), OthersOwe(r), Owes(r)' => Owes(r) /\ Key(r)' = Key(r)
  PROVE  /\ Owed' \in {Owed, Owed \ {Key(r)}}
         /\ Owes(r)' \/ ~Owes(r) => Owed' = Owed
<1>1. Living' = Living
  BY DEF Alone, Living
<1>2. /\ \A s \in Req \ {r} : (Owes(s)' <=> Owes(s)) /\ Key(s)' = Key(s)
  BY OthersKeep DEF OthersOwe
<1>3. \A k \in Living : k # Key(r) => (k \in Owed' <=> k \in Owed)
  BY <1>1, <1>2 DEF Owed
<1>4. Key(r) \in Owed' => Key(r) \in Owed
  BY <1>1, <1>2 DEF Owed
<1>5. Owed \subseteq Living /\ Owed' \subseteq Living
  BY <1>1 DEF Owed
<1>6. Owes(r)' \/ ~Owes(r) => (Key(r) \in Owed => Key(r) \in Owed')
  BY <1>1, <1>2 DEF Owed
<1>7. QED
  BY <1>3, <1>4, <1>5, <1>6

LEMMA AdmittedAfter ==
  ASSUME NEW r \in Req, Alone(r), Admits(r)' => Admits(r) /\ Key(r)' = Key(r)
  PROVE  /\ Admitted' \in {Admitted, Admitted \ {Key(r)}}
         /\ Admits(r)' \/ ~Admits(r) => Admitted' = Admitted
<1>1. Living' = Living
  BY DEF Alone, Living
<1>2. /\ \A s \in Req \ {r} : (Admits(s)' <=> Admits(s)) /\ Key(s)' = Key(s)
  BY OthersKeep
<1>3. \A k \in Living : k # Key(r) => (k \in Admitted' <=> k \in Admitted)
  BY <1>1, <1>2 DEF Admitted
<1>4. Key(r) \in Admitted' => Key(r) \in Admitted
  BY <1>1, <1>2 DEF Admitted
<1>5. Admitted \subseteq Living /\ Admitted' \subseteq Living
  BY <1>1 DEF Admitted
<1>6. Admits(r)' \/ ~Admits(r) => (Key(r) \in Admitted => Key(r) \in Admitted')
  BY <1>1, <1>2 DEF Admitted
<1>7. QED
  BY <1>3, <1>4, <1>5, <1>6

-----------------------------------------------------------------------------
(* One case per statement.                                                 *)

Stutter == UNCHANGED <<Members, Wish, blocked, Owed, Admitted, Row>>

\* A step that neither makes nor settles anything.
LEMMA QuietStep ==
  ASSUME NEW r \in Req, Alone(r), UNCHANGED <<like, match, blocked>>,
         (Owes(r)' <=> Owes(r)) /\ (Admits(r)' <=> Admits(r)),
         Owes(r) \/ Admits(r) => Key(r)' = Key(r)
  PROVE  Stutter
<1>1. OthersOwe(r)
  BY OthersKeep
<1>2. Owed' = Owed /\ Admitted' = Admitted
  BY <1>1, OwedAfter, AdmittedAfter
<1>3. QED
  BY <1>2 DEF Stutter, Alone, Wish, Row

LEMMA BeginStutters ==
  ASSUME TypeOK, NEW r \in Req, Swipe(r) \/ BeginUnmatch(r) \/ BeginBlock(r)
  PROVE  Stutter
<1>1. UNCHANGED <<status, like, match, blocked>>
  BY DEF Swipe, BeginUnmatch, BeginBlock, Begin, tables
<1>2. /\ req[r].pc = "idle" /\ req'[r].pc \in {"reads", "unmatch", "block"}
      /\ \A s \in Req \ {r} : req'[s] = req[s]
  <2>1. CASE Swipe(r)
    BY <2>1 DEF Swipe, Begin, Put, TypeOK
  <2>2. CASE BeginUnmatch(r)
    BY <2>2 DEF BeginUnmatch, Begin, Put, TypeOK
  <2>3. CASE BeginBlock(r)
    BY <2>3 DEF BeginBlock, Begin, Put, TypeOK
  <2>4. QED
    BY <2>1, <2>2, <2>3
<1>3. ~Owes(r) /\ ~Owes(r)' /\ ~Admits(r) /\ ~Admits(r)'
  BY <1>2 DEF Owes, Admits
<1>4. Alone(r)
  BY <1>1, <1>2 DEF Alone, Members
<1>5. QED
  BY <1>1, <1>3, <1>4, QuietStep

LEMMA EarlyStutters ==
  ASSUME TypeOK, NEW r \in Req,
         \/ ReadTarget(r) \/ ReadBlocked(r) \/ ReadLike(r) \/ PassQuota(r) \/ Charge(r)
         \/ Refuse(r) \/ ExceedQuota(r)
  PROVE  Stutter
<1>1. Alone(r)
  BY StepGrows DEF Step, StepOnly, Alone, Members
<1>2. UNCHANGED <<like, match, blocked>>
  BY DEF ReadTarget, ReadBlocked, ReadLike, Read, PassQuota, Charge, Refuse, ExceedQuota, tables
<1>3. req[r].pc \in {"reads", "charge"}
  BY DEF ReadTarget, ReadBlocked, ReadLike, Read, PassQuota, AtCheck, Charge, Refuse,
     ExceedQuota, ReadsDone
<1>4. req'[r].pc \in {"reads", "charge", "like", "idle"}
  BY EarlySteps DEF Refuse, ExceedQuota, Finish, Put, Idle, TypeOK
<1>5. ~Owes(r) /\ ~Owes(r)' /\ ~Admits(r) /\ ~Admits(r)'
  BY <1>3, <1>4 DEF Owes, Admits
<1>6. QED
  BY <1>1, <1>2, <1>5, QuietStep

LEMMA LateStutters ==
  ASSUME RowInv, NEW r \in Req, ReadReciprocal(r) \/ FindMatch(r)
  PROVE  Stutter
<1> USE SlotTypes DEF RowInv, TypeOK
<1>1. Alone(r)
  BY StepGrows DEF Step, StepOnly, Alone, Members
<1>2. UNCHANGED <<like, match, blocked>>
  BY DEF ReadReciprocal, FindMatch, tables
<1>3. req[r] \in SwipeRequest
  BY DEF ReadReciprocal, FindMatch
<1>4. CASE ReadReciprocal(r)
  <2>1. IsLike(like[<<req[r].to, req[r].from>>]) =>
          req'[r].pc = "check" /\ req'[r].from = req[r].from /\ req'[r].to = req[r].to
    BY <1>3, <1>4 DEF ReadReciprocal, Goto, Put, SwipeRequest
  <2>2. ~IsLike(like[<<req[r].to, req[r].from>>]) => req'[r].pc = "idle"
    BY <1>3, <1>4 DEF ReadReciprocal, Finish, Put, Idle
  <2>3. req[r].pc = "reciprocal"
    BY <1>4 DEF ReadReciprocal
  <2>4. (Owes(r)' <=> Owes(r)) /\ ~Admits(r) /\ ~Admits(r)'
    BY <2>1, <2>2, <2>3 DEF Owes, Admits
  <2>5. Owes(r) => Key(r)' = Key(r)
    BY <2>1, <2>3 DEF Owes, Key
  <2>6. QED
    BY <1>1, <1>2, <2>4, <2>5, QuietStep
<1>5. CASE FindMatch(r)
  <2>1. /\ req[r].pc = "find" /\ req'[r].pc \in {"insert", "update"}
        /\ req'[r].from = req[r].from /\ req'[r].to = req[r].to
    BY <1>3, <1>5 DEF FindMatch, Goto, Put, SwipeRequest
  <2>2. ~Owes(r) /\ ~Owes(r)' /\ Admits(r) /\ Admits(r)' /\ Key(r)' = Key(r)
    BY <2>1 DEF Owes, Admits, Key
  <2>3. QED
    BY <1>1, <1>2, <2>2, QuietStep
<1>6. QED
  BY <1>4, <1>5

\* A write fails for a pair that is not living any more.
LEMMA FailStutters ==
  ASSUME RowInv, NEW r \in Req, FailGone(r)
  PROVE  Stutter
<1> USE DEF RowInv
<1>1. Alone(r)
  BY StepGrows DEF Step, StepOnly, Alone, Members
<1>2. UNCHANGED <<like, match, blocked>>
  BY DEF FailGone, tables
<1>3. req[r].pc \in {"reads", "charge", "like", "insert", "update"} /\ req'[r].pc = "idle"
  BY DEF FailGone, AtCheck, AtLike, ReadsDone, Finish, Put, Idle, TypeOK
<1>4. ~Owes(r) /\ ~Owes(r)' /\ ~Admits(r)'
  BY <1>3 DEF Owes, Admits
<1>5. CASE ~Admits(r)
  BY <1>1, <1>2, <1>4, <1>5, QuietStep
<1>6. CASE Admits(r)
  <2>1. req[r].pc \in {"insert", "update"}
    BY <1>3, <1>6 DEF Admits
  <2>2. Key(r) \notin Living
    <3> SUFFICES ASSUME Key(r) \in Living PROVE FALSE
      OBVIOUS
    <3>1. status[req[r].from] # "GONE" /\ status[req[r].to] # "GONE"
      BY <2>1, LivingKey
    <3>2. req[r].pc = "update" /\ match[Key(r)] = "NONE"
      BY <2>1, <3>1 DEF FailGone, AtCheck, AtLike, ReadsDone
    <3>3. QED
      BY <3>1, <3>2 DEF Grounded, Pursuing, Key
  <2>3. Key(r) \notin Admitted
    BY <2>2 DEF Admitted
  <2>4. Admitted' = Admitted
    BY <1>1, <1>4, <2>3, AdmittedAfter
  <2>5. Owed' = Owed
    BY <1>1, <1>2, <1>4, OthersKeep, OwedAfter
  <2>6. QED
    BY <1>1, <1>2, <2>4, <2>5 DEF Stutter, Alone, Wish, Row
<1>7. QED
  BY <1>5, <1>6

LEMMA CheckBlockedKeeps ==
  ASSUME RowInv, NEW r \in Req, CheckBlocked(r)
  PROVE  Promise!Next \/ Stutter
<1> USE DEF RowInv
<1>1. Alone(r) /\ OthersOwe(r)
  BY StepGrows, OthersKeep DEF Step, StepOnly, Alone, Members, CheckBlocked, tables
<1>2. UNCHANGED <<Wish, Row, blocked>> /\ Members' = Members
  BY <1>1 DEF CheckBlocked, tables, Wish, Row, Alone
<1>3. req[r].pc = "check" /\ Owes(r) /\ ~Admits(r)
  BY DEF CheckBlocked, Owes, Admits
<1>4. req[r] \in SwipeRequest
  BY <1>3, SlotTypes
<1>5. req[r].from # req[r].to
  BY <1>3 DEF Grounded
<1>6. Key(r) \in Promise!Keys /\ Key(r) \in {<<req[r].from, req[r].to>>, <<req[r].to, req[r].from>>}
  BY <1>3, <1>5, KeyFacts
<1>7. Promise!Apart(Key(r)) <=> IsBlocked(req[r].from, req[r].to)
  BY <1>6 DEF Promise!Apart, IsBlocked
<1>8. CASE IsBlocked(req[r].from, req[r].to)
  <2>1. req'[r].pc = "idle"
    BY <1>8 DEF CheckBlocked, Finish, Put, Idle, TypeOK
  <2>2. ~Owes(r)' /\ ~Admits(r)'
    BY <2>1 DEF Owes, Admits
  <2>3. Owed' \in {Owed, Owed \ {Key(r)}} /\ Admitted' = Admitted
    BY <1>1, <1>3, <2>2, OwedAfter, AdmittedAfter
  <2>4. CASE Owed' = Owed
    BY <1>2, <2>3, <2>4 DEF Stutter
  <2>5. CASE Owed' = Owed \ {Key(r)}
    <3>1. Promise!Settle(Key(r))
      BY <1>2, <1>7, <1>8, <2>3, <2>5 DEF Promise!Settle
    <3>2. QED
      BY <1>6, <3>1 DEF Promise!Next
  <2>6. QED
    BY <2>3, <2>4, <2>5
<1>9. CASE ~IsBlocked(req[r].from, req[r].to)
  <2>1. /\ req'[r].pc = "find"
        /\ req'[r].from = req[r].from /\ req'[r].to = req[r].to
    BY <1>4, <1>9 DEF CheckBlocked, Goto, Put, SwipeRequest, TypeOK
  <2>2. ~Owes(r)' /\ Admits(r)' /\ Key(r)' = Key(r)
    BY <2>1 DEF Owes, Admits, Key
  <2>3. Owed' \in {Owed, Owed \ {Key(r)}}
    BY <1>1, <1>3, <2>2, OwedAfter
  <2>4. /\ Living' = Living
        /\ \A s \in Req \ {r} : (Admits(s)' <=> Admits(s)) /\ Key(s)' = Key(s)
    BY <1>1, OthersKeep DEF Alone, Living
  <2>5. CASE Key(r) \in Living
    <3>1. Admitted' = Admitted \cup {Key(r)}
      BY <1>3, <2>2, <2>4, <2>5 DEF Admitted
    <3>2. Key(r) \in Owed
      BY <1>3, <2>5 DEF Owed
    <3>3. {Key(r)[1], Key(r)[2]} \subseteq Members
      BY <2>5 DEF Living
    <3>4. Promise!Admit(Key(r))
      BY <1>2, <1>7, <1>9, <2>3, <3>1, <3>2, <3>3 DEF Promise!Admit
    <3>5. QED
      BY <1>6, <3>4 DEF Promise!Next
  <2>6. CASE Key(r) \notin Living
    <3>1. Admitted' = Admitted
      BY <1>3, <2>2, <2>4, <2>6 DEF Admitted
    <3>2. Key(r) \notin Owed
      BY <2>6 DEF Owed
    <3>3. QED
      BY <1>2, <2>3, <3>1, <3>2 DEF Stutter
  <2>7. QED
    BY <2>5, <2>6
<1>10. QED
  BY <1>8, <1>9

\* After a wish the debts of other pairs are what they were.
LEMMA PutLikeOthers ==
  ASSUME RowInv, NEW r \in Req, PutLike(r)
  PROVE  /\ req[r] \in SwipeRequest /\ req[r].from # req[r].to
         /\ ~Owes(r) /\ ~Admits(r) /\ ~Admits(r)'
         /\ Alone(r) /\ Living' = Living
         /\ status[req[r].from] # "GONE" /\ status[req[r].to] # "GONE"
         /\ Key(r) \in Living
         /\ \A s \in Req \ {r} : Owes(s)' = Owes(s) \/ Key(s) = Key(r)
         /\ Owed' \in {Owed, Owed \cup {Key(r)}, Owed \ {Key(r)}}
         /\ UNCHANGED <<Members, blocked, Admitted, Row>>
<1> USE DEF RowInv, TypeOK
<1>1. req[r] \in SwipeRequest /\ req[r].pc \in {"reads", "like"}
  BY SlotTypes DEF PutLike, AtLike, ReadsDone
<1>2. req[r].from # req[r].to
  BY <1>1 DEF Grounded
<1>3. ~Owes(r) /\ ~Admits(r)
  BY <1>1 DEF Owes, Admits
<1>4. req'[r].pc \in {"reciprocal", "idle"} /\ (req'[r].pc # "idle" => Key(r)' = Key(r))
  <2>1. CASE IsLike(req[r].action)
    <3>1. req'[r] = [req[r] EXCEPT !.pc = "reciprocal"]
      BY <2>1 DEF PutLike, Goto, Put
    <3>2. QED
      BY <1>1, <3>1 DEF SwipeRequest, Key
  <2>2. CASE ~IsLike(req[r].action)
    BY <2>2 DEF PutLike, Finish, Put, Idle
  <2>3. QED
    BY <2>1, <2>2
<1>5. ~Admits(r)' /\ (Owes(r)' => Key(r)' = Key(r))
  BY <1>4 DEF Admits, Owes
<1>6. Alone(r) /\ Living' = Living
  BY StepGrows DEF Step, StepOnly, Alone, Members, Living
<1>7. status[req[r].from] # "GONE" /\ status[req[r].to] # "GONE" /\ Key(r) \in Living
  BY <1>1, <1>2, KeyLives DEF PutLike
<1>8. ASSUME NEW s \in Req \ {r} PROVE Owes(s)' = Owes(s) \/ Key(s) = Key(r)
  <2>1. req'[s] = req[s]
    BY <1>6 DEF Alone
  <2>2. CASE req[s].pc = "reciprocal"
    <3>1. req[s] \in SwipeRequest
      BY <2>2, SlotTypes
    <3>2. <<req[s].to, req[s].from>> \in Pairs
      BY <3>1 DEF SwipeRequest, Pairs
    <3>3. CASE <<req[s].to, req[s].from>> = <<req[r].from, req[r].to>>
      BY <1>1, <3>1, <3>3, OrderedIds DEF Key, SwipeRequest
    <3>4. CASE <<req[s].to, req[s].from>> # <<req[r].from, req[r].to>>
      <4>1. like'[<<req[s].to, req[s].from>>] = like[<<req[s].to, req[s].from>>]
        BY <3>2, <3>4 DEF PutLike
      <4>2. QED
        BY <2>1, <4>1 DEF Owes
    <3>5. QED
      BY <3>3, <3>4
  <2>3. CASE req[s].pc # "reciprocal"
    BY <2>1, <2>3 DEF Owes
  <2>4. QED
    BY <2>2, <2>3
<1>9. Owed' \in {Owed, Owed \cup {Key(r)}, Owed \ {Key(r)}}
  <2>1. \A s \in Req \ {r} : Key(s)' = Key(s)
    BY <1>6, OthersKeep
  <2>2. \A k \in Living : k # Key(r) => (k \in Owed' <=> k \in Owed)
    BY <1>3, <1>5, <1>6, <1>8, <2>1 DEF Owed
  <2>3. Owed \subseteq Living /\ Owed' \subseteq Living
    BY <1>6 DEF Owed
  <2>4. QED
    BY <2>2, <2>3
<1>10. UNCHANGED <<Members, blocked, Admitted, Row>>
  BY <1>3, <1>5, <1>6, AdmittedAfter DEF PutLike, Alone, Row
<1>11. QED
  BY <1>1, <1>2, <1>3, <1>5, <1>6, <1>7, <1>8, <1>9, <1>10

LEMMA PutLikeKeeps ==
  ASSUME RowInv, NEW r \in Req, PutLike(r)
  PROVE  Promise!Next
<1> DEFINE u == req[r].from
           v == req[r].to
<1> USE DEF RowInv, TypeOK
<1>1. /\ req[r] \in SwipeRequest /\ u \in User /\ v \in User /\ u # v
      /\ ~Owes(r) /\ Alone(r) /\ Living' = Living /\ Key(r) \in Living
      /\ \A s \in Req \ {r} : Owes(s)' = Owes(s) \/ Key(s) = Key(r)
      /\ Owed' \in {Owed, Owed \cup {Key(r)}, Owed \ {Key(r)}}
      /\ UNCHANGED <<Members, blocked, Admitted, Row>>
  BY PutLikeOthers DEF SwipeRequest
<1>2. {u, v} \subseteq Members
  BY <1>1, PutLikeOthers DEF Members
<1>3. <<u, v>> \in Promise!Pairs /\ <<v, u>> \in Promise!Pairs /\ <<u, v>> # <<v, u>>
  BY <1>1 DEF Promise!Pairs
<1>4. Key(r) = Promise!Pair(u, v) /\ req[r].pc # "idle"
  BY <1>1, KeyFacts DEF PutLike, AtLike, ReadsDone
<1>5. \A s \in Req \ {r} : Key(s)' = Key(s) /\ req'[s] = req[s]
  BY <1>1, OthersKeep DEF Alone
<1>6. CASE IsLike(req[r].action)
  <2>1. Wish' = [Wish EXCEPT ![<<u, v>>] = "LIKE"]
    BY <1>1, <1>3, <1>6 DEF PutLike, Wish, Pairs, Promise!Pairs
  <2>2. req'[r].pc = "reciprocal" /\ req'[r].from = u /\ req'[r].to = v /\ Key(r)' = Key(r)
    BY <1>1, <1>6 DEF PutLike, Goto, Put, SwipeRequest, Key
  <2>3. like'[<<v, u>>] = like[<<v, u>>] /\ like'[<<u, v>>] = req[r].action
    BY <1>1, <1>3 DEF PutLike, Pairs
  <2>4. Wish[<<v, u>>] = "LIKE" => Key(r) \in Owed'
    <3> SUFFICES ASSUME Wish[<<v, u>>] = "LIKE" PROVE Owes(r)'
      BY <1>1, <2>2 DEF Owed
    <3>1. IsLike(like[<<v, u>>])
      BY <1>3 DEF Wish, Pairs, Promise!Pairs, IsLike
    <3>2. QED
      BY <2>2, <2>3, <3>1 DEF Owes
  <2>5. Key(r) \in Owed => Key(r) \in Owed'
    <3> SUFFICES ASSUME NEW s \in Req, Owes(s), Key(s) = Key(r) PROVE Owes(s)'
      BY <1>1, <1>5 DEF Owed
    <3>1. s # r /\ req'[s] = req[s]
      BY <1>1, <1>5
    <3>2. CASE req[s].pc = "check"
      BY <3>1, <3>2 DEF Owes
    <3>3. CASE req[s].pc = "reciprocal" /\ IsLike(like[<<req[s].to, req[s].from>>])
      <4>1. req[s].to \in User /\ req[s].from \in User
        BY <3>3, KeyFacts
      <4>2. IsLike(like'[<<req[s].to, req[s].from>>])
        BY <1>6, <3>3, <4>1 DEF PutLike, Pairs
      <4>3. QED
        BY <3>1, <3>3, <4>2 DEF Owes
    <3>4. QED
      BY <3>2, <3>3 DEF Owes
  <2>6. Key(r) \in Owed' /\ Key(r) \notin Owed => Wish[<<v, u>>] # "NONE"
    <3> SUFFICES ASSUME NEW s \in Req, Owes(s)', Key(s)' = Key(r), Key(r) \notin Owed
                 PROVE  like[<<v, u>>] # "NONE"
      BY <1>3 DEF Owed, Wish, Pairs, Promise!Pairs, IsLike
    <3>1. CASE s = r
      BY <2>2, <2>3, <3>1 DEF Owes, IsLike
    <3>2. CASE s # r
      <4>1. req'[s] = req[s] /\ Key(s) = Key(r)
        BY <1>5, <3>2
      <4>2. ~Owes(s)
        BY <1>1, <4>1 DEF Owed
      <4>3. req[s].pc = "reciprocal"
        BY <4>1, <4>2 DEF Owes
      <4>4. status[req[s].from] # "GONE" /\ status[req[s].to] # "GONE"
        BY <1>1, <4>1, <4>3, LivingKey
      <4>5. like[<<req[s].from, req[s].to>>] # "NONE"
        BY <4>3, <4>4 DEF Grounded, Pursuing
      <4>6. like'[<<req[s].to, req[s].from>>] # like[<<req[s].to, req[s].from>>]
        BY <4>1, <4>2, <4>3 DEF Owes
      <4>7. req[s].to = u /\ req[s].from = v
        <5>1. <<req[s].to, req[s].from>> \in Pairs
          BY <4>3, KeyFacts DEF Pairs
        <5>2. <<req[s].to, req[s].from>> = <<u, v>>
          BY <4>6, <5>1 DEF PutLike
        <5>3. QED
          BY <5>2
      <4>8. QED
        BY <4>5, <4>7
    <3>3. QED
      BY <3>1, <3>2
  <2>7. \/ Wish[<<v, u>>] # "NONE" /\ Owed' = Owed \cup {Key(r)}
        \/ Wish[<<v, u>>] # "LIKE" /\ Owed' = Owed
    BY <1>1, <2>4, <2>5, <2>6
  <2>8. Promise!Like(u, v)
    BY <1>1, <1>2, <1>4, <2>1, <2>7 DEF Promise!Like
  <2>9. QED
    BY <1>3, <2>8 DEF Promise!Next
<1>7. CASE ~IsLike(req[r].action)
  <2>1. req[r].action = "PASS"
    BY <1>1, <1>7 DEF SwipeRequest, SwipeAction, IsLike
  <2>2. Wish' = [Wish EXCEPT ![<<u, v>>] = "PASS"]
    BY <1>1, <1>3, <2>1 DEF PutLike, Wish, Pairs, Promise!Pairs, IsLike
  <2>3. req'[r].pc = "idle"
    BY <1>7 DEF PutLike, Finish, Put, Idle
  <2>4. ~Owes(r)'
    BY <2>3 DEF Owes
  <2>5. Key(r) \in Owed' => Key(r) \in Owed
    <3> SUFFICES ASSUME NEW s \in Req, Owes(s)', Key(s)' = Key(r) PROVE Owes(s)
      BY <1>1, <1>5, <2>4 DEF Owed
    <3>1. s # r /\ req'[s] = req[s]
      BY <1>5, <2>4
    <3>2. CASE req[s].pc = "check"
      BY <3>2 DEF Owes
    <3>3. CASE req[s].pc = "reciprocal" /\ IsLike(like'[<<req[s].to, req[s].from>>])
      <4>1. req[s].to \in User /\ req[s].from \in User
        BY <3>3, KeyFacts
      <4>2. IsLike(like[<<req[s].to, req[s].from>>])
        BY <1>7, <3>3, <4>1 DEF PutLike, Pairs
      <4>3. QED
        BY <3>3, <4>2 DEF Owes
    <3>4. QED
      BY <3>1, <3>2, <3>3 DEF Owes
  <2>6. Owed' \in {Owed, Owed \ {Key(r)}}
    BY <1>1, <2>5
  <2>7. Promise!Pass(u, v)
    BY <1>1, <1>2, <1>4, <2>2, <2>6 DEF Promise!Pass
  <2>8. QED
    BY <1>3, <2>7 DEF Promise!Next
<1>8. QED
  BY <1>6, <1>7

LEMMA InsertMatchKeeps ==
  ASSUME RowInv, NEW r \in Req, InsertMatch(r)
  PROVE  Promise!Next \/ Stutter
<1> USE DEF RowInv, TypeOK
<1>1. Alone(r) /\ OthersOwe(r)
  BY StepGrows, OthersKeep DEF Step, StepOnly, Alone, Members, InsertMatch
<1>2. UNCHANGED <<Members, Wish, blocked>>
  BY <1>1 DEF InsertMatch, Alone, Wish
<1>3. req[r].pc = "insert" /\ req'[r].pc = "idle"
  BY DEF InsertMatch, Finish, Put, Idle
<1>4. Owed' = Owed /\ Admits(r) /\ Admitted' \in {Admitted, Admitted \ {Key(r)}}
  BY <1>1, <1>3, OwedAfter, AdmittedAfter DEF Owes, Admits
<1>5. req[r].from # req[r].to
  BY <1>3 DEF Grounded
<1>6. Key(r) \in Promise!Keys /\ Key(r) \in Pairs /\ Key(r)[1] < Key(r)[2]
  BY <1>3, <1>5, KeyFacts
<1>7. Key(r) \in Admitted
  BY <1>3, <1>4, <1>5, KeyLives DEF InsertMatch, Admitted
<1>8. CASE match[Key(r)] = "NONE"
  <2>1. Row' = [Row EXCEPT ![Key(r)] = "ACTIVE"]
    BY <1>6, <1>8 DEF InsertMatch, Row
  <2>2. Promise!Make(Key(r))
    BY <1>2, <1>4, <1>7, <2>1 DEF Promise!Make
  <2>3. QED
    BY <1>6, <2>2 DEF Promise!Next
<1>9. CASE match[Key(r)] # "NONE"
  <2>1. match' = match /\ Row' = Row
    BY <1>9 DEF InsertMatch, Row
  <2>2. CASE Admitted' = Admitted
    BY <1>2, <1>4, <2>1, <2>2 DEF Stutter
  <2>3. CASE Admitted' = Admitted \ {Key(r)}
    <3>1. Row[Key(r)] # "NONE"
      BY <1>6, <1>9 DEF Row
    <3>2. Promise!Settle(Key(r))
      BY <1>2, <1>4, <2>1, <2>3, <3>1 DEF Promise!Settle
    <3>3. QED
      BY <1>6, <3>2 DEF Promise!Next
  <2>4. QED
    BY <1>4, <2>2, <2>3
<1>10. QED
  BY <1>8, <1>9

LEMMA UpdateMatchKeeps ==
  ASSUME RowInv, NEW r \in Req, UpdateMatch(r)
  PROVE  Promise!Next
<1> USE DEF RowInv, TypeOK
<1>1. Alone(r) /\ OthersOwe(r)
  BY StepGrows, OthersKeep DEF Step, StepOnly, Alone, Members, UpdateMatch
<1>2. UNCHANGED <<Members, Wish, blocked>>
  BY <1>1 DEF UpdateMatch, Alone, Wish
<1>3. req[r].pc = "update" /\ req'[r].pc = "idle"
  BY DEF UpdateMatch, Finish, Put, Idle
<1>4. Owed' = Owed /\ Admits(r) /\ Admitted' \in {Admitted, Admitted \ {Key(r)}}
  BY <1>1, <1>3, OwedAfter, AdmittedAfter DEF Owes, Admits
<1>5. req[r].from # req[r].to
  BY <1>3 DEF Grounded
<1>6. /\ Key(r) \in Promise!Keys /\ Key(r) \in Pairs /\ Key(r)[1] < Key(r)[2]
      /\ Key(r) \in {<<req[r].from, req[r].to>>, <<req[r].to, req[r].from>>}
  BY <1>3, <1>5, KeyFacts
<1>7. status[req[r].from] # "GONE" /\ status[req[r].to] # "GONE"
  BY <1>6 DEF UpdateMatch, NothingLeft
<1>8. Key(r) \in Admitted
  BY <1>3, <1>4, <1>5, <1>7, KeyLives DEF Admitted
<1>9. Row' = [Row EXCEPT ![Key(r)] = "ACTIVE"]
  BY <1>6 DEF UpdateMatch, Row
<1>10. Promise!Make(Key(r))
  BY <1>2, <1>4, <1>8, <1>9 DEF Promise!Make
<1>11. QED
  BY <1>6, <1>10 DEF Promise!Next

LEMMA UnmatchKeeps ==
  ASSUME RowInv, NEW r \in Req, Unmatch(r)
  PROVE  Promise!Next \/ Stutter
<1> USE DEF RowInv, TypeOK
<1>1. Alone(r) /\ OthersOwe(r)
  BY StepGrows, OthersKeep DEF Step, StepOnly, Alone, Members, Unmatch
<1>2. req[r].pc = "unmatch" /\ req'[r].pc = "idle"
  BY DEF Unmatch, Finish, Put, Idle
<1>3. UNCHANGED <<Members, Wish, blocked, Owed, Admitted>>
  BY <1>1, <1>2, OwedAfter, AdmittedAfter DEF Owes, Admits, Unmatch, Alone, Wish
<1>4. CASE req[r].from # req[r].to
  <2>1. Key(r) \in Promise!Keys /\ Key(r) \in Pairs /\ Key(r)[1] < Key(r)[2]
    BY <1>2, <1>4, KeyFacts
  <2>2. Row' = Promise!Part(Key(r))
    BY <2>1 DEF Unmatch, Row, Promise!Part
  <2>3. Promise!Unmatch(Key(r))
    BY <1>3, <2>2 DEF Promise!Unmatch
  <2>4. QED
    BY <2>1, <2>3 DEF Promise!Next
<1>5. CASE req[r].from = req[r].to
  <2>1. Key(r) = <<req[r].from, req[r].from>> /\ req[r].from \in Int
    BY <1>2, <1>5, KeyFacts, MatchingAssumption
  <2>2. ~(Key(r)[1] < Key(r)[2])
    BY <2>1
  <2>3. Row' = Row
    BY <2>2 DEF Unmatch, Row
  <2>4. QED
    BY <1>3, <2>3 DEF Stutter
<1>6. QED
  BY <1>4, <1>5

LEMMA BlockKeeps ==
  ASSUME RowInv, BlocksOthers, NEW r \in Req, Block(r)
  PROVE  Promise!Next \/ Stutter
<1> DEFINE u == req[r].from
           v == req[r].to
<1> USE DEF RowInv, TypeOK
<1>1. Alone(r) /\ OthersOwe(r)
  BY StepGrows, OthersKeep DEF Step, StepOnly, Alone, Members, Block
<1>2. req[r].pc = "block" /\ req'[r].pc = "idle" /\ u # v
  BY DEF Block, Finish, Put, Idle, BlocksOthers
<1>3. UNCHANGED <<Members, Wish, Owed, Admitted>>
  BY <1>1, <1>2, OwedAfter, AdmittedAfter DEF Owes, Admits, Block, Alone, Wish
<1>4. CASE "GONE" \in {status[u], status[v]}
  BY <1>3, <1>4 DEF Block, Row, Stutter
<1>5. CASE "GONE" \notin {status[u], status[v]}
  <2>1. u \in User /\ v \in User /\ u \in Int /\ v \in Int
    BY <1>2, KeyFacts, MatchingAssumption
  <2>2. <<u, v>> \in Promise!Pairs
    BY <1>2, <2>1 DEF Promise!Pairs
  <2>3. Key(r) \in Promise!Keys /\ Key(r) = Promise!Pair(u, v)
    BY <1>2, KeyFacts
  <2>4. blocked' = blocked \cup {<<u, v>>}
    BY <1>5 DEF Block
  <2>5. \A p \in Pairs : p[1] < p[2] => (p \in {<<u, v>>, <<v, u>>} <=> p = Key(r))
    <3>1. ~(<<u, v>>[1] < <<u, v>>[2] /\ <<v, u>>[1] < <<v, u>>[2])
      BY <2>1
    <3>2. Key(r)[1] < Key(r)[2] /\ Key(r) \in {<<u, v>>, <<v, u>>}
      BY <1>2, KeyFacts
    <3>3. QED
      BY <3>1, <3>2
  <2>6. Row' = Promise!Part(Key(r))
    BY <1>5, <2>5 DEF Block, Row, Promise!Part
  <2>7. Promise!Block(u, v)
    BY <1>3, <2>3, <2>4, <2>6 DEF Promise!Block
  <2>8. QED
    BY <2>2, <2>7 DEF Promise!Next
<1>6. QED
  BY <1>4, <1>5

\* Bans and midnight concern nobody's membership.
LEMMA AccountStutters ==
  ASSUME TypeOK,
         (\E u \in Bannable : BanUser(u) \/ UnbanUser(u)) \/ NextDay \/ UNCHANGED vars
  PROVE  Stutter
<1>1. UNCHANGED <<like, match, blocked, req>>
  BY DEF BanUser, UnbanUser, NextDay, vars, tables
<1>2. Members' = Members
  BY MatchingAssumption DEF BanUser, UnbanUser, NextDay, vars, Members, TypeOK
<1>3. Living' = Living
  BY <1>2 DEF Living
<1>4. QED
  BY <1>1, <1>2, <1>3 DEF Stutter, Wish, Row, Owed, Admitted, Owes, Admits, Key

LEMMA DeleteKeeps ==
  ASSUME RowInv, NEW u \in User, DeleteUser(u)
  PROVE  Promise!Delete(u)
<1> USE DEF RowInv, TypeOK
<1>1. Members' = Members \ {u}
  BY DEF DeleteUser, Members
<1>2. Living' = {k \in Living : u \notin {k[1], k[2]}}
  BY <1>1 DEF Living
<1>3. Wish' = [p \in Promise!Pairs |-> IF u \in {p[1], p[2]} THEN "NONE" ELSE Wish[p]]
  BY DEF DeleteUser, Wish, Promise!Pairs, Pairs, IsLike
<1>4. Row' = [p \in Promise!Keys |-> IF u \in {p[1], p[2]} THEN "NONE" ELSE Row[p]]
  <2>1. \A p \in Promise!Keys : p \in Pairs /\ p[1] < p[2]
    BY DEF Promise!Keys, Promise!Pairs, Pairs
  <2>2. QED
    BY <2>1, KeysOfPromise DEF DeleteUser, Row
<1>5. blocked' = {p \in blocked : u \notin {p[1], p[2]}}
  BY DEF DeleteUser
<1>6. \A s \in Req : req'[s] = req[s] /\ Key(s)' = Key(s) /\ (Admits(s)' <=> Admits(s))
  BY DEF DeleteUser, Key, Admits
<1>7. ASSUME NEW s \in Req, Key(s) \in Living, u \notin {Key(s)[1], Key(s)[2]}
      PROVE  Owes(s)' <=> Owes(s)
  <2>1. CASE req[s].pc = "reciprocal"
    <3>1. u \notin {req[s].from, req[s].to} /\ <<req[s].to, req[s].from>> \in Pairs
      BY <1>7, <2>1, KeyFacts DEF Pairs
    <3>2. like'[<<req[s].to, req[s].from>>] = like[<<req[s].to, req[s].from>>]
      BY <3>1 DEF DeleteUser
    <3>3. QED
      BY <1>6, <3>2 DEF Owes
  <2>2. CASE req[s].pc # "reciprocal"
    BY <1>6, <2>2 DEF Owes
  <2>3. QED
    BY <2>1, <2>2
<1>8. Owed' = {p \in Owed : u \notin {p[1], p[2]}}
  BY <1>2, <1>6, <1>7 DEF Owed
<1>9. Admitted' = {p \in Admitted : u \notin {p[1], p[2]}}
  BY <1>2, <1>6 DEF Admitted
<1>10. QED
  BY <1>1, <1>3, <1>4, <1>5, <1>8, <1>9 DEF Promise!Delete

-----------------------------------------------------------------------------
LEMMA InitKeeps == Init => Promise!Init
<1> SUFFICES ASSUME Init PROVE Promise!Init
  OBVIOUS
<1>1. Members = User
  BY DEF Init, Members
<1>2. Wish = [p \in Promise!Pairs |-> "NONE"]
  BY DEF Init, Wish, Promise!Pairs, Pairs, IsLike
<1>3. Row = [p \in Promise!Keys |-> "NONE"]
  BY KeysOfPromise DEF Init, Row
<1>4. Owed = {} /\ Admitted = {}
  BY DEF Init, Owed, Admitted, Owes, Admits, Idle
<1>5. QED
  BY <1>1, <1>2, <1>3, <1>4 DEF Init, Promise!Init

LEMMA NextKeeps ==
  ASSUME RowInv, BlocksOthers, [Next]_vars
  PROVE  Promise!Next \/ Stutter
<1> USE DEF RowInv
<1>1. CASE \E r \in Req : Swipe(r) \/ BeginUnmatch(r) \/ BeginBlock(r)
  BY <1>1, BeginStutters
<1>2. CASE \E r \in Req : Step(r)
  BY <1>2, EarlyStutters, PutLikeKeeps, LateStutters, CheckBlockedKeeps, InsertMatchKeeps,
     UpdateMatchKeeps, FailStutters, UnmatchKeeps, BlockKeeps DEF Step
<1>3. CASE \E u \in Deletable : DeleteUser(u)
  BY <1>3, DeleteKeeps, MatchingAssumption DEF Promise!Next
<1>4. CASE (\E u \in Bannable : BanUser(u) \/ UnbanUser(u)) \/ NextDay \/ UNCHANGED vars
  BY <1>4, AccountStutters
<1>5. QED
  BY <1>1, <1>2, <1>3, <1>4 DEF Next

(* LikesService, MatchesService and UsersService, statement by statement   *)
(* and with any requests between two of them, keep the promise: whoever    *)
(* relies on MatchPromise may forget about statements and requests.        *)
THEOREM PromiseIsKept == Spec => Promise!Spec
<1>1. Init => RowInv /\ BlocksOthers
  BY InitRowInv DEF Init, BlocksOthers, Idle
<1>2. RowInv /\ BlocksOthers /\ [Next]_vars => (RowInv /\ BlocksOthers)'
  BY NextRowInv, NextBlocksOthers DEF RowInv
<1>3. RowInv /\ BlocksOthers /\ [Next]_vars => [Promise!Next]_(Promise!vars)
  BY NextKeeps DEF Stutter, Promise!vars
<1>4. QED
  BY <1>1, <1>2, <1>3, InitKeeps, PTL DEF Spec, Promise!Spec

-----------------------------------------------------------------------------
(* What the promise is worth to whoever relies on it and knows nothing of  *)
(* statements and requests.                                                *)

PromiseTypes ==
  /\ Members \subseteq User
  /\ Wish \in [Promise!Pairs -> {"NONE", "LIKE", "PASS", "SUPER_LIKE"}]
  /\ Row \in [Promise!Keys -> {"NONE", "ACTIVE", "INACTIVE"}]

LEMMA InitPromiseTypes == Promise!Init => PromiseTypes
BY DEF Promise!Init, PromiseTypes

LEMMA NextPromiseTypes == PromiseTypes /\ [Promise!Next]_(Promise!vars) => PromiseTypes'
<1> SUFFICES ASSUME PromiseTypes, [Promise!Next]_(Promise!vars) PROVE PromiseTypes'
  OBVIOUS
<1> USE DEF PromiseTypes
<1>1. ASSUME NEW p \in Promise!Pairs, Promise!Like(p[1], p[2]) \/ Promise!Pass(p[1], p[2])
      PROVE  PromiseTypes'
  BY <1>1 DEF Promise!Like, Promise!Pass
<1>2. ASSUME NEW p \in Promise!Pairs, Promise!Block(p[1], p[2]) PROVE PromiseTypes'
  BY <1>2 DEF Promise!Block, Promise!Part
<1>3. ASSUME NEW p \in Promise!Keys,
             Promise!Admit(p) \/ Promise!Make(p) \/ Promise!Settle(p) \/ Promise!Unmatch(p)
      PROVE  PromiseTypes'
  BY <1>3 DEF Promise!Admit, Promise!Make, Promise!Settle, Promise!Unmatch, Promise!Part
<1>4. ASSUME NEW u \in User, Promise!Delete(u) PROVE PromiseTypes'
  BY <1>4 DEF Promise!Delete
<1>5. CASE UNCHANGED Promise!vars
  BY <1>5 DEF Promise!vars
<1>6. QED
  BY <1>1, <1>2, <1>3, <1>4, <1>5 DEF Promise!Next

\* Of the two orders of a pair one is its key.
LEMMA KeyOfPair ==
  ASSUME NEW u \in User, NEW v \in User, u # v
  PROVE  \A p \in Promise!Keys : p \in {<<u, v>>, <<v, u>>} => p = Promise!Pair(u, v)
<1>1. \A a, b \in Int : a < b => ~(b < a)
  OBVIOUS
<1>2. QED
  BY <1>1, MatchingAssumption DEF Promise!Keys, Promise!Pair, Promise!Pairs

LEMMA NextRemembered ==
  ASSUME PromiseTypes, Promise!Remembered, [Promise!Next]_(Promise!vars)
  PROVE  Promise!Remembered'
<1> USE DEF PromiseTypes, Promise!Mutual, Promise!Apart
<1>0. \A p \in Promise!Keys :
        p \in Promise!Pairs /\ <<p[2], p[1]>> \in Promise!Pairs /\ p = <<p[1], p[2]>>
  BY DEF Promise!Keys, Promise!Pairs
<1>1. ASSUME NEW q \in Promise!Pairs, Promise!Like(q[1], q[2]) PROVE Promise!Remembered'
  <2> SUFFICES ASSUME NEW p \in Promise!Keys, Promise!Mutual(p)'
               PROVE  Row'[p] # "NONE" \/ Promise!Apart(p)' \/ p \in Owed' \cup Admitted'
    BY DEF Promise!Remembered
  <2>1. CASE Promise!Mutual(p)
    BY <1>1, <2>1 DEF Promise!Remembered, Promise!Like
  <2>2. CASE ~Promise!Mutual(p)
    <3>1. p \in {<<q[1], q[2]>>, <<q[2], q[1]>>}
      BY <1>0, <1>1, <2>2 DEF Promise!Like
    <3>2. p = Promise!Pair(q[1], q[2])
      BY <3>1, KeyOfPair DEF Promise!Pairs
    <3>3. Wish[<<q[2], q[1]>>] = "LIKE"
      BY <1>0, <1>1, <3>1 DEF Promise!Like, Promise!Pairs
    <3>4. QED
      BY <1>1, <3>2, <3>3 DEF Promise!Like
  <2>3. QED
    BY <2>1, <2>2
<1>2. ASSUME NEW q \in Promise!Pairs, Promise!Pass(q[1], q[2]) PROVE Promise!Remembered'
  <2> SUFFICES ASSUME NEW p \in Promise!Keys, Promise!Mutual(p)'
               PROVE  Row'[p] # "NONE" \/ Promise!Apart(p)' \/ p \in Owed' \cup Admitted'
    BY DEF Promise!Remembered
  <2>1. p # <<q[1], q[2]>> /\ p # <<q[2], q[1]>>
    BY <1>0, <1>2 DEF Promise!Pass, Promise!Pairs
  <2>2. Promise!Mutual(p)
    BY <1>0, <1>2, <2>1 DEF Promise!Pass
  <2>3. p # Promise!Pair(q[1], q[2])
    BY <2>1 DEF Promise!Pair
  <2>4. QED
    BY <1>2, <2>2, <2>3 DEF Promise!Remembered, Promise!Pass
<1>3. ASSUME NEW q \in Promise!Pairs, Promise!Block(q[1], q[2]) PROVE Promise!Remembered'
  BY <1>3 DEF Promise!Remembered, Promise!Block, Promise!Part
<1>4. ASSUME NEW k \in Promise!Keys, Promise!Admit(k) PROVE Promise!Remembered'
  BY <1>4 DEF Promise!Remembered, Promise!Admit
<1>5. ASSUME NEW k \in Promise!Keys, Promise!Make(k) PROVE Promise!Remembered'
  BY <1>5 DEF Promise!Remembered, Promise!Make
<1>6. ASSUME NEW k \in Promise!Keys, Promise!Settle(k) \/ Promise!Unmatch(k) PROVE Promise!Remembered'
  BY <1>6 DEF Promise!Remembered, Promise!Settle, Promise!Unmatch, Promise!Part
<1>7. ASSUME NEW u \in User, Promise!Delete(u) PROVE Promise!Remembered'
  <2> SUFFICES ASSUME NEW p \in Promise!Keys, Promise!Mutual(p)'
               PROVE  Row'[p] # "NONE" \/ Promise!Apart(p)' \/ p \in Owed' \cup Admitted'
    BY DEF Promise!Remembered
  <2>1. u \notin {p[1], p[2]} /\ Promise!Mutual(p)
    BY <1>0, <1>7 DEF Promise!Delete
  <2>2. QED
    BY <1>0, <1>7, <2>1 DEF Promise!Remembered, Promise!Delete
<1>8. CASE UNCHANGED Promise!vars
  BY <1>8 DEF Promise!Remembered, Promise!vars
<1>9. QED
  BY <1>1, <1>2, <1>3, <1>4, <1>5, <1>6, <1>7, <1>8 DEF Promise!Next

(* No mutual like is forgotten: whoever keeps the promise (every step of   *)
(* LikesService and MatchesService is one of its steps) owes the pair a    *)
(* match until there is one, or a block.                                   *)
THEOREM NobodyForgotten == Promise!Spec => []Promise!Remembered
<1>1. Promise!Init => Promise!Remembered
  BY DEF Promise!Init, Promise!Remembered, Promise!Mutual, Promise!Keys, Promise!Pairs
<1>2. PromiseTypes /\ Promise!Remembered /\ [Promise!Next]_(Promise!vars) => Promise!Remembered'
  BY NextRemembered
<1>3. QED
  BY <1>1, <1>2, InitPromiseTypes, NextPromiseTypes, PTL DEF Promise!Spec

(* A pair that is parted, by a block or a deletion that came in time, is   *)
(* parted for ever: no later wish, debt or match concerns it.              *)
THEOREM ClosedStaysClosed == Promise!Spec => Promise!ClosedForEver
<1>1. ASSUME PromiseTypes, [Promise!Next]_(Promise!vars), NEW k \in Promise!Keys, Promise!Closed(k)
      PROVE  Promise!Closed(k)'
  <2> USE <1>1 DEF PromiseTypes, Promise!Closed, Promise!Apart
  <2>1. ASSUME NEW p \in Promise!Pairs, Promise!Like(p[1], p[2]) \/ Promise!Pass(p[1], p[2])
      PROVE  Promise!Closed(k)'
    BY <2>1 DEF Promise!Like, Promise!Pass
  <2>2. ASSUME NEW p \in Promise!Pairs, Promise!Block(p[1], p[2]) PROVE Promise!Closed(k)'
    BY <2>2 DEF Promise!Block, Promise!Part
  <2>3. ASSUME NEW p \in Promise!Keys, Promise!Admit(p) PROVE Promise!Closed(k)'
    BY <2>3 DEF Promise!Admit
  <2>4. ASSUME NEW p \in Promise!Keys, Promise!Make(p) PROVE Promise!Closed(k)'
    BY <2>4 DEF Promise!Make
  <2>5. ASSUME NEW p \in Promise!Keys, Promise!Settle(p) \/ Promise!Unmatch(p) PROVE Promise!Closed(k)'
    BY <2>5 DEF Promise!Settle, Promise!Unmatch, Promise!Part
  <2>6. ASSUME NEW u \in User, Promise!Delete(u) PROVE Promise!Closed(k)'
    BY <2>6 DEF Promise!Delete
  <2>7. CASE UNCHANGED Promise!vars
    BY <2>7 DEF Promise!vars
  <2>8. QED
    BY <2>1, <2>2, <2>3, <2>4, <2>5, <2>6, <2>7 DEF Promise!Next
<1>2. ASSUME PromiseTypes, [Promise!Next]_(Promise!vars),
             NEW u \in User, NEW v \in User, u < v, Promise!Closed(<<u, v>>)
      PROVE  Promise!Closed(<<u, v>>)'
  <2>1. u # v
    BY <1>2, MatchingAssumption
  <2>2. <<u, v>> \in Promise!Keys
    BY <1>2, <2>1 DEF Promise!Keys, Promise!Pairs
  <2>3. QED
    BY <1>1, <1>2, <2>2
<1>3. PromiseTypes /\ [Promise!Next]_(Promise!vars)
        => [\A u, v \in User : u < v /\ Promise!Closed(<<u, v>>) => Promise!Closed(<<u, v>>)']_(Promise!vars)
  BY <1>2
<1>4. QED
  BY <1>3, InitPromiseTypes, NextPromiseTypes, PTL DEF Promise!Spec, Promise!ClosedForEver

(* So for the services themselves: at no moment is a mutual like without a *)
(* match row, a block and a request that owes the match, and a pair that   *)
(* is closed stays so.                                                     *)
COROLLARY PromiseMatters == Spec => []Promise!Remembered /\ Promise!ClosedForEver
BY PromiseIsKept, NobodyForgotten, ClosedStaysClosed
=============================================================================
