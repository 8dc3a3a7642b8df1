------------------------------ MODULE Matching ------------------------------
(***************************************************************************)
(* Swiping, matching, unmatching and blocking: LikesService,               *)
(* MatchesService and UsersService on top of the Like, Match, BlockedUser  *)
(* and DailyUsage tables.                                                  *)
(*                                                                         *)
(* The server handles many requests at once.  Every `await` of a handler   *)
(* is a database statement that commits on its own, and the handlers of    *)
(* other requests run between two of them, so one action below is one      *)
(* statement together with the synchronous code up to the next one.  A     *)
(* slot of Req holds one request in flight; its "pc" names the statement   *)
(* it executes next.                                                       *)
(***************************************************************************)
EXTENDS Integers, FiniteSets

CONSTANTS
  User,             \* user ids; orderIds compares them, so they are integers
  Req,              \* slots for requests in flight
  Male,             \* the users whose profile says MALE
  Payer,            \* the users who may hold an active subscription
  FreeDailySwipes,  \* FREE_DAILY_SWIPES_MALE
  LastDay,          \* bound: the clock stops at this UTC day
  Swipes,           \* the <<from, to, action>> that clients submit
  Blocks,           \* the <<blocker, blocked>> that clients submit
  Unmatches,        \* the <<user, other>> whose match a client deletes
  Bannable,         \* the users an administrator may ban and unban
  Deletable         \* the users an administrator may delete

SwipeAction == {"LIKE", "PASS", "SUPER_LIKE"}
Day == 0 .. LastDay

ASSUME MatchingAssumption ==
  /\ User \subseteq Int
  /\ IsFiniteSet(Req)
  /\ Male \subseteq User /\ Payer \subseteq User
  /\ FreeDailySwipes \in Nat \ {0} /\ LastDay \in Nat
  /\ Swipes \subseteq User \X User \X SwipeAction
  /\ Blocks \subseteq User \X User /\ Unmatches \subseteq User \X User
  /\ Bannable \subseteq User /\ Deletable \subseteq User

VARIABLES
  status,   \* User.status, or "GONE" once the row has been deleted
  like,     \* Like.action under its unique (fromUserId, toUserId), or "NONE"
  match,    \* Match.isActive under its unique (userAId, userBId), or "NONE"
  blocked,  \* the (blockerId, blockedId) rows of BlockedUser
  usage,    \* DailyUsage.swipeCount by user and day; no row counts as 0
  day,      \* the UTC day
  req       \* the requests in flight

tables == <<like, match, blocked, usage>>
vars == <<status, like, match, blocked, usage, day, req>>

Pairs == User \X User
IsLike(action) == action \in {"LIKE", "SUPER_LIKE"}
OrderIds(a, b) == IF a < b THEN <<a, b>> ELSE <<b, a>>
IsBlocked(a, b) == <<a, b>> \in blocked \/ <<b, a>> \in blocked

Reads == {"target", "blocked", "like"}
Idle == [pc |-> "idle"]
SwipeRequest ==
  [pc : {"reads", "charge", "like", "reciprocal", "check", "find", "insert", "update"},
   from : User, to : User, action : SwipeAction,
   todo : SUBSET Reads,  \* the reads of the Promise.all still under way
   ok : BOOLEAN,         \* no read so far forbids the swipe
   pays : BOOLEAN,       \* isFreeMale && shouldConsumeSwipe, as far as read
   today : Day]          \* the day of its last read, whose quota it uses
PairRequest == [pc : {"block", "unmatch"}, from : User, to : User]

TypeOK ==
  /\ status \in [User -> {"ACTIVE", "BANNED", "GONE"}]
  /\ like \in [Pairs -> SwipeAction \cup {"NONE"}]
  /\ match \in [Pairs -> {"NONE", "ACTIVE", "INACTIVE"}]
  /\ blocked \subseteq Pairs
  /\ usage \in [User -> [Day -> Nat]]
  /\ day \in Day
  /\ req \in [Req -> {Idle} \cup SwipeRequest \cup PairRequest]

Init ==
  /\ status = [u \in User |-> "ACTIVE"]
  /\ like = [p \in Pairs |-> "NONE"]
  /\ match = [p \in Pairs |-> "NONE"]
  /\ blocked = {}
  /\ usage = [u \in User |-> [d \in Day |-> 0]]
  /\ day = 0
  /\ req = [r \in Req |-> Idle]

-----------------------------------------------------------------------------
(* Entering and leaving a handler.                                         *)

Put(r, request) == req' = [req EXCEPT ![r] = request]
Finish(r) == Put(r, Idle)
Goto(r, pc) == Put(r, [req[r] EXCEPT !.pc = pc])

(* JwtStrategy.validate lets a request in while its sender is ACTIVE; it is *)
(* not asked again.                                                        *)
Begin(r, request) ==
  /\ req[r].pc = "idle"
  /\ status[request.from] = "ACTIVE"
  /\ Put(r, request)
  /\ UNCHANGED <<status, tables, day>>

-----------------------------------------------------------------------------
(* LikesService.swipe                                                      *)

(* The profile and the subscription belong to other components: the read   *)
(* of a Payer's subscription may come out either way.                      *)
Swipe(r) ==
  \E s \in Swipes, premium \in BOOLEAN :
    /\ s[1] # s[2]
    /\ premium => s[1] \in Payer
    /\ Begin(r, [pc |-> "reads", from |-> s[1], to |-> s[2], action |-> s[3],
                 todo |-> Reads, ok |-> TRUE,
                 pays |-> s[1] \in Male /\ ~premium, today |-> 0])

(* The reads of the Promise.all run side by side: in any order, and with   *)
(* other requests between them.  todayUtc() is taken after the last one.   *)
Read(r, what) ==
  /\ req[r].pc = "reads"
  /\ what \in req[r].todo
  /\ UNCHANGED <<status, tables, day>>

(* The target must be ACTIVE; whether its profile is visible and complete  *)
(* is decided by other components, so either answer is possible.           *)
ReadTarget(r) ==
  /\ Read(r, "target")
  /\ \E shown \in BOOLEAN :
       Put(r, [req[r] EXCEPT !.todo = @ \ {"target"}, !.today = day,
                             !.ok = @ /\ status[req[r].to] = "ACTIVE" /\ shown])

ReadBlocked(r) ==
  /\ Read(r, "blocked")
  /\ Put(r, [req[r] EXCEPT !.todo = @ \ {"blocked"}, !.today = day,
                           !.ok = @ /\ ~IsBlocked(req[r].from, req[r].to)])

\* mutant of ReadLike: looks for the like the target gave
ReadLikeSwapped(r) ==
  /\ Read(r, "like")
  /\ Put(r, [req[r] EXCEPT !.todo = @ \ {"like"}, !.today = day,
                           !.pays = @ /\ like[<<req[r].to, req[r].from>>] = "NONE"])

ReadLike(r) ==
  /\ Read(r, "like")
  /\ Put(r, [req[r] EXCEPT !.todo = @ \ {"like"}, !.today = day,
                           !.pays = @ /\ like[<<req[r].from, req[r].to>>] = "NONE"])

ReadsDone(r) == req[r].pc = "reads" /\ req[r].todo = {}

Refuse(r) ==
  /\ ReadsDone(r)
  /\ ~req[r].ok
  /\ Finish(r)
  /\ UNCHANGED <<status, tables, day>>

(* dailyUsage.upsert returns the row of the day, and the handler compares  *)
(* its count with the limit.                                               *)
AtCheck(r) == ReadsDone(r) /\ req[r].ok /\ req[r].pays

\* mutant of PassQuota: the limit is off by one
PassQuotaAtLimit(r) ==
  /\ AtCheck(r)
  /\ status[req[r].from] # "GONE"
  /\ usage[req[r].from][req[r].today] <= FreeDailySwipes
  /\ Goto(r, "charge")
  /\ UNCHANGED <<status, tables, day>>

PassQuota(r) ==
  /\ AtCheck(r)
  /\ status[req[r].from] # "GONE"
  /\ usage[req[r].from][req[r].today] < FreeDailySwipes
  /\ Goto(r, "charge")
  /\ UNCHANGED <<status, tables, day>>

ExceedQuota(r) ==
  /\ AtCheck(r)
  /\ status[req[r].from] # "GONE"
  /\ usage[req[r].from][req[r].today] >= FreeDailySwipes
  /\ Finish(r)
  /\ UNCHANGED <<status, tables, day>>

\* mutant of Charge: counts the swipes left, in a row created with none
ChargeDown(r) ==
  /\ req[r].pc = "charge"
  /\ status[req[r].from] # "GONE"
  /\ usage' = [usage EXCEPT ![req[r].from][req[r].today] = @ - 1]
  /\ Goto(r, "like")
  /\ UNCHANGED <<status, like, match, blocked, day>>

Charge(r) ==
  /\ req[r].pc = "charge"
  /\ status[req[r].from] # "GONE"
  /\ usage' = [usage EXCEPT ![req[r].from][req[r].today] = @ + 1]
  /\ Goto(r, "like")
  /\ UNCHANGED <<status, like, match, blocked, day>>

(* like.upsert: one INSERT .. ON CONFLICT .. UPDATE statement.             *)
AtLike(r) == req[r].pc = "like" \/ (ReadsDone(r) /\ req[r].ok /\ ~req[r].pays)

PutLike(r) ==
  /\ AtLike(r)
  /\ status[req[r].from] # "GONE" /\ status[req[r].to] # "GONE"
  /\ like' = [like EXCEPT ![<<req[r].from, req[r].to>>] = req[r].action]
  /\ IF IsLike(req[r].action) THEN Goto(r, "reciprocal") ELSE Finish(r)
  /\ UNCHANGED <<status, match, blocked, usage, day>>

\* mutant of ReadReciprocal: a SUPER_LIKE is not taken for a like
ReadReciprocalLike(r) ==
  /\ req[r].pc = "reciprocal"
  /\ IF like[<<req[r].to, req[r].from>>] = "LIKE" THEN Goto(r, "check") ELSE Finish(r)
  /\ UNCHANGED <<status, tables, day>>

\* mutant of ReadReciprocal: matches on the sender's own like
ReadReciprocalOwn(r) ==
  /\ req[r].pc = "reciprocal"
  /\ IF IsLike(like[<<req[r].from, req[r].to>>]) THEN Goto(r, "check") ELSE Finish(r)
  /\ UNCHANGED <<status, tables, day>>

ReadReciprocal(r) ==
  /\ req[r].pc = "reciprocal"
  /\ IF IsLike(like[<<req[r].to, req[r].from>>]) THEN Goto(r, "check") ELSE Finish(r)
  /\ UNCHANGED <<status, tables, day>>

-----------------------------------------------------------------------------
(* MatchesService.createMatch                                              *)

Key(r) == OrderIds(req[r].from, req[r].to)

\* mutant of CheckBlocked: asks only whether the sender blocks the target
CheckBlockedOneWay(r) ==
  /\ req[r].pc = "check"
  /\ IF <<req[r].from, req[r].to>> \in blocked THEN Finish(r) ELSE Goto(r, "find")
  /\ UNCHANGED <<status, tables, day>>

CheckBlocked(r) ==
  /\ req[r].pc = "check"
  /\ IF IsBlocked(req[r].from, req[r].to) THEN Finish(r) ELSE Goto(r, "find")
  /\ UNCHANGED <<status, tables, day>>

(* match.upsert includes related rows, so Prisma runs it as a SELECT       *)
(* followed by an INSERT or an UPDATE.                                     *)
FindMatch(r) ==
  /\ req[r].pc = "find"
  /\ Goto(r, IF match[Key(r)] = "NONE" THEN "insert" ELSE "update")
  /\ UNCHANGED <<status, tables, day>>

(* The unique index refuses a second row for the pair: the request fails   *)
(* and the row of the other request stays.                                 *)
InsertMatch(r) ==
  /\ req[r].pc = "insert"
  /\ status[req[r].from] # "GONE" /\ status[req[r].to] # "GONE"
  /\ match' = [match EXCEPT ![Key(r)] = IF @ = "NONE" THEN "ACTIVE" ELSE @]
  /\ Finish(r)
  /\ UNCHANGED <<status, like, blocked, usage, day>>

UpdateMatch(r) ==
  /\ req[r].pc = "update"
  /\ match[Key(r)] # "NONE"
  /\ match' = [match EXCEPT ![Key(r)] = "ACTIVE"]
  /\ Finish(r)
  /\ UNCHANGED <<status, like, blocked, usage, day>>

(* A write for a deleted user fails: its foreign key or its row is gone.   *)
FailGone(r) ==
  /\ \/ /\ AtCheck(r) \/ req[r].pc = "charge"
        /\ status[req[r].from] = "GONE"
     \/ /\ AtLike(r) \/ req[r].pc = "insert"
        /\ "GONE" \in {status[req[r].from], status[req[r].to]}
     \/ /\ req[r].pc = "update"
        /\ match[Key(r)] = "NONE"
  /\ Finish(r)
  /\ UNCHANGED <<status, tables, day>>

-----------------------------------------------------------------------------
(* MatchesService.unmatch and UsersService.blockUser.  Each looks a row up *)
(* and then writes.  A row found can only disappear with its user, and the *)
(* write then fails, so lookup and write are one action.                   *)

BeginUnmatch(r) ==
  \E p \in Unmatches : Begin(r, [pc |-> "unmatch", from |-> p[1], to |-> p[2]])

Unmatch(r) ==
  /\ req[r].pc = "unmatch"
  /\ match' = [match EXCEPT ![Key(r)] = IF @ = "NONE" THEN @ ELSE "INACTIVE"]
  /\ Finish(r)
  /\ UNCHANGED <<status, like, blocked, usage, day>>

BeginBlock(r) ==
  \E p \in Blocks :
    /\ p[1] # p[2]
    /\ Begin(r, [pc |-> "block", from |-> p[1], to |-> p[2]])

(* One transaction: the block and the end of the match commit together.    *)
Block(r) ==
  LET u == req[r].from
      v == req[r].to
  IN /\ req[r].pc = "block"
     /\ IF "GONE" \in {status[u], status[v]} THEN UNCHANGED <<blocked, match>>
        ELSE /\ blocked' = blocked \cup {<<u, v>>}
             /\ match' = [p \in Pairs |-> IF p \in {<<u, v>>, <<v, u>>} /\ match[p] # "NONE"
                                          THEN "INACTIVE" ELSE match[p]]
     /\ Finish(r)
     /\ UNCHANGED <<status, like, usage, day>>

-----------------------------------------------------------------------------
(* AdminService, and the passing of time.                                  *)

BanUser(u) ==
  /\ status[u] = "ACTIVE"
  /\ status' = [status EXCEPT ![u] = "BANNED"]
  /\ UNCHANGED <<tables, day, req>>

UnbanUser(u) ==
  /\ status[u] = "BANNED"
  /\ status' = [status EXCEPT ![u] = "ACTIVE"]
  /\ UNCHANGED <<tables, day, req>>

(* user.delete cascades to every row that names the user.                  *)
DeleteUser(u) ==
  /\ status[u] # "GONE"
  /\ status' = [status EXCEPT ![u] = "GONE"]
  /\ like' = [p \in Pairs |-> IF u \in {p[1], p[2]} THEN "NONE" ELSE like[p]]
  /\ match' = [p \in Pairs |-> IF u \in {p[1], p[2]} THEN "NONE" ELSE match[p]]
  /\ blocked' = {p \in blocked : u \notin {p[1], p[2]}}
  /\ usage' = [usage EXCEPT ![u] = [d \in Day |-> 0]]
  /\ UNCHANGED <<day, req>>

NextDay ==
  /\ day < LastDay
  /\ day' = day + 1
  /\ UNCHANGED <<status, tables, req>>

(* The process dies: the requests are lost, what was committed stays.      *)
Crash ==
  /\ \E r \in Req : req[r] # Idle
  /\ req' = [r \in Req |-> Idle]
  /\ UNCHANGED <<status, tables, day>>

-----------------------------------------------------------------------------
Step(r) ==
  \/ ReadTarget(r) \/ ReadBlocked(r) \/ ReadLike(r) \/ Refuse(r)
  \/ PassQuota(r) \/ ExceedQuota(r) \/ Charge(r) \/ PutLike(r)
  \/ ReadReciprocal(r) \/ CheckBlocked(r)
  \/ FindMatch(r) \/ InsertMatch(r) \/ UpdateMatch(r) \/ FailGone(r)
  \/ Unmatch(r) \/ Block(r)

Next ==
  \/ \E r \in Req : Swipe(r) \/ BeginUnmatch(r) \/ BeginBlock(r) \/ Step(r)
  \/ \E u \in Bannable : BanUser(u) \/ UnbanUser(u)
  \/ \E u \in Deletable : DeleteUser(u)
  \/ NextDay

Spec == Init /\ [][Next]_vars

\* Every statement of a request in flight is answered in the end.
FairSpec == Spec /\ \A r \in Req : WF_vars(Step(r))

CrashSpec == Init /\ [][Next \/ Crash]_vars

-----------------------------------------------------------------------------
(* Properties.                                                             *)

Mutual(a, b) == a # b /\ IsLike(like[<<a, b>>]) /\ IsLike(like[<<b, a>>])

\* r has saved a like within the pair and has not finished with it.
Pursuing == {"reciprocal", "check", "find", "insert", "update"}
Matching(r, a, b) ==
  /\ req[r].pc \in Pursuing
  /\ <<req[r].from, req[r].to>> \in {<<a, b>>, <<b, a>>}

(* Two users who like each other have a match row (unmatching only makes   *)
(* it inactive), or one blocks the other, or a request that will see to it *)
(* is still in flight.  Each swipe writes its own like before it reads the *)
(* other one (LikesService.swipe), so of two simultaneous swipes at least  *)
(* one finds the pair.                                                     *)
MutualLikeIsMatched ==
  \A a, b \in User :
    Mutual(a, b) =>
      \/ match[OrderIds(a, b)] # "NONE"
      \/ IsBlocked(a, b)
      \/ \E r \in Req : Matching(r, a, b)

(* A match row stands under the ordered ids, so that a pair never has two, *)
(* and both its users have swiped on each other; whatever happened since,  *)
(* a deletion included, neither like row is missing.                       *)
MatchHasLikes ==
  \A p \in Pairs :
    match[p] # "NONE" =>
      p[1] < p[2] /\ like[p] # "NONE" /\ like[<<p[2], p[1]>>] # "NONE"

(* The pair is parted: it has no active match, and one user is deleted, or *)
(* one blocks the other and no request has passed createMatch's check.     *)
Parted(a, b) ==
  /\ match[OrderIds(a, b)] # "ACTIVE"
  /\ \/ "GONE" \in {status[a], status[b]}
     \/ /\ IsBlocked(a, b)
        /\ \A r \in Req : Matching(r, a, b) => req[r].pc \in {"reciprocal", "check"}

(* Once parted, for ever parted: no later swipe of either user, and none   *)
(* that was already under way, gives the pair a match again.               *)
PartedForEver == [][\A a, b \in User : Parted(a, b) => Parted(a, b)']_vars

Charging(u, d) == {r \in Req : req[r].pc = "charge" /\ req[r].from = u /\ req[r].today = d}

(* How far the check and the increment of the quota, two statements, let a *)
(* user pass the limit: by one swipe less than the requests in flight.     *)
SwipeBudget ==
  \A u \in User, d \in Day :
    usage[u][d] + Cardinality(Charging(u, d)) <= FreeDailySwipes + Cardinality(Req) - 1

(* A man who never pays has been charged for every user he swiped on: no   *)
(* order of requests, midnights and re-swipes lets a new like row in free. *)
Liked(u) == {v \in User : like[<<u, v>>] # "NONE"}
Charges(u) == UNION {{d} \X (1 .. usage[u][d]) : d \in Day}  \* each swipe charged to u
LikesPaidFor == \A u \in Male \ Payer : Cardinality(Liked(u)) <= Cardinality(Charges(u))

-----------------------------------------------------------------------------
(* The promise these statements keep.  A pair is owed a match while one of *)
(* its requests will find both likes, and admitted to one when the request *)
(* is past createMatch's look at the blocks.                               *)

Members == {u \in User : status[u] # "GONE"}
Wish == [p \in {q \in Pairs : q[1] # q[2]} |-> IF IsLike(like[p]) THEN "LIKE" ELSE like[p]]
Row == [p \in {q \in Pairs : q[1] < q[2]} |-> match[p]]

Living == {k \in Pairs : k[1] < k[2] /\ {k[1], k[2]} \subseteq Members}
Owes(r) ==
  \/ req[r].pc = "check"
  \/ req[r].pc = "reciprocal" /\ IsLike(like[<<req[r].to, req[r].from>>])
Admits(r) == req[r].pc \in {"find", "insert", "update"}
Owed == {k \in Living : \E r \in Req : Owes(r) /\ Key(r) = k}
Admitted == {k \in Living : \E r \in Req : Admits(r) /\ Key(r) = k}

Promise == INSTANCE MatchPromise WITH
  members <- Members, wish <- Wish, owed <- Owed, admitted <- Admitted, match <- Row

(* Every step of every request is a step of the promise or none, and a     *)
(* mutual like ends in a match row, a block, or the end of the likes.      *)
PromiseKept == Promise!Spec /\ Promise!Honoured
=============================================================================
