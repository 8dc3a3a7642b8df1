------------------------------ MODULE Discovery ------------------------------
(***************************************************************************)
(* One user's DiscoveryPage and DiscoveryService.getCandidates behind it,  *)
(* and ProfilesService.upsert: the seeker opens the page, swipes on what   *)
(* it shows and opens it again, edits the own profile and blocks, while    *)
(* the other users edit their profiles, are banned and block.              *)
(*                                                                         *)
(* getCandidates only reads, one statement after another, so an answer is  *)
(* put together from several moments.  The seeker swipes freely or has the *)
(* daily quota.  The page does not wait for a swipe it has posted, so that *)
(* swipes on their way overlap each other and the next load of the page.   *)
(* The reads at the start of a swipe are one moment here; Matching takes   *)
(* them apart.                                                             *)
(***************************************************************************)
EXTENDS Integers, FiniteSets

CONSTANTS
  User,             \* the other users, in each other's preferred gender
  Age,              \* their ages
  Near,             \* those within maxDistanceKm, or without a known place
  Score,            \* interests shared, twice, and languages shared
  Limit,            \* requestedLimit, 20 by default
  Free,             \* whether the seeker is a man without a subscription
  FreeDailySwipes,  \* FREE_DAILY_SWIPES_MALE
  Freshest,         \* the initial order by updatedAt: 1 is the latest
  Dtos,             \* what the seeker's clients PUT as the own profile
  Editors,          \* those who edit their profiles
  Bannable,         \* those an administrator may ban and unban
  BlocksMe,         \* those who may block the seeker
  IBlock,           \* those the seeker may block
  Post              \* the places for swipes on their way to the server

(* UpsertProfileDto as far as it matters here.  The validated fields leave *)
(* only the name to make a profile incomplete, when it is blank; the two   *)
(* bounds on the ages looked for may be left out, each by itself.          *)
Absent == 0
Adult == 18..100
Dto ==
  [named : BOOLEAN, minAgePref : Adult \cup {Absent}, maxAgePref : Adult \cup {Absent}]

ASSUME DiscoveryAssumption ==
  /\ IsFiniteSet(User)
  /\ Near \subseteq User /\ Editors \subseteq User /\ Bannable \subseteq User
  /\ BlocksMe \subseteq User /\ IBlock \subseteq User
  /\ Score \in [User -> Nat] /\ Age \in [User -> Adult]
  /\ Dtos \subseteq Dto
  /\ Limit \in 1..50 /\ FreeDailySwipes \in Nat \ {0} /\ Free \in BOOLEAN
  /\ Freshest \in [User -> 1..Cardinality(User)]
  /\ \A u, v \in User : Freshest[u] = Freshest[v] => u = v

VARIABLES
  rank,       \* the order of the profiles by updatedAt, 1 for the latest
  complete,   \* the users with isComplete and isVisible
  own,        \* the seeker's profile: isComplete and the ages looked for
  active,     \* the users with status ACTIVE
  swiped,     \* the users the seeker has a Like row for
  blocked,    \* the users the seeker has blocked
  blocking,   \* the users who have blocked the seeker
  usage,      \* the seeker's swipeCount of the day
  post,       \* the swipes on their way
  page        \* the page and its request for candidates

profiles == <<rank, complete, own, active>>
past == <<swiped, blocked, blocking, usage, post>>
vars == <<profiles, past, page>>

Idle == [pc |-> "idle"]
Posted == [pc : {"read", "check", "charge", "like"}, to : User]

Reads == {"swiped", "blocked", "blocking"}
Closed == [pc |-> "closed"]
Left ==
  [barred : SUBSET User,    \* swiped on or blocked when the page was opened
   unlisted : SUBSET User,  \* else, at no time listed since then
   unasked : SUBSET User]   \* or at no time of an age looked for since then
Loading ==
  [pc : {"remaining", "own", "reads", "find"},
   minAge : Adult, maxAge : Adult,  \* myProfile, once it is read
   todo : SUBSET Reads,     \* reads of the Promise.all not answered yet
   exclude : SUBSET User,   \* excludeIds, as far as read
   left : Left]             \* bookkeeping: whom the answer leaves out
Answered == [pc : {"answer"}, cards : SUBSET User, left : Left]
Showing == [pc : {"open", "error"}, cards : SUBSET User]

TypeOK ==
  /\ rank \in [User -> 1..Cardinality(User)]
  /\ complete \subseteq User /\ active \subseteq User
  /\ own \in [isComplete : BOOLEAN, minAgePref : Adult, maxAgePref : Adult]
  /\ swiped \subseteq User /\ blocked \subseteq User /\ blocking \subseteq User
  /\ usage \in Nat
  /\ post \in [Post -> {Idle} \cup Posted]
  /\ page \in {Closed} \cup Loading \cup Answered \cup Showing

Init ==
  /\ rank = Freshest
  /\ complete = User /\ active = User
  /\ own = [isComplete |-> TRUE, minAgePref |-> 18, maxAgePref |-> 99]
  /\ swiped = {} /\ blocked = {} /\ blocking = {}
  /\ usage = 0
  /\ post = [p \in Post |-> Idle]
  /\ page = Closed

Listed == complete \cap active
Aged(min, max) == {u \in User : min <= Age[u] /\ Age[u] <= max}
LookedFor == Aged(own.minAgePref, own.maxAgePref)
Barred == swiped \cup blocked \cup blocking
Eligible == (Listed \cap LookedFor) \ Barred

-----------------------------------------------------------------------------
(* getCandidates                                                           *)

\* The page asks once, when it is mounted.
Open ==
  /\ page.pc = "closed"
  /\ page' = [pc |-> "remaining", minAge |-> 18, maxAge |-> 99,
              todo |-> Reads, exclude |-> {},
              left |-> [barred |-> Barred, unlisted |-> User \ (Barred \cup Listed),
                        unasked |-> User \ (Barred \cup LookedFor)]]
  /\ UNCHANGED <<profiles, past>>

Goto(pc) == page' = [page EXCEPT !.pc = pc]
Show(pc, cards) == page' = [pc |-> pc, cards |-> cards]
Refuse == Show("error", {})

\* getRemainingSwipes, and the refusal when none remain.
ReadRemaining ==
  /\ page.pc = "remaining"
  /\ IF Free /\ usage >= FreeDailySwipes THEN Refuse ELSE Goto("own")
  /\ UNCHANGED <<profiles, past>>

ReadOwnProfile ==
  /\ page.pc = "own"
  /\ IF own.isComplete
     THEN page' = [page EXCEPT !.pc = "reads", !.minAge = own.minAgePref,
                               !.maxAge = own.maxAgePref]
     ELSE Refuse
  /\ UNCHANGED <<profiles, past>>

Read(what, users) ==
  /\ page.pc = "reads" /\ what \in page.todo
  /\ page' = [page EXCEPT !.todo = @ \ {what}, !.exclude = @ \cup users,
                          !.pc = IF page.todo = {what} THEN "find" ELSE @]
  /\ UNCHANGED <<profiles, past>>

\* mutant of ReadBlocking: only the seeker's own blocks count
ReadBlockingNone == Read("blocking", {})

ReadSwiped == Read("swiped", swiped)
ReadBlocked == Read("blocked", blocked)
ReadBlocking == Read("blocking", blocking)

\* mutant of Taken: as many are taken as are asked for
TakenLimit(S) == {u \in S : Cardinality({v \in S : rank[v] < rank[u]}) < Limit}

\* orderBy updatedAt, take three times the limit.  (isPriority, the first
\* key, is false in every row: nothing writes it.)
Taken(S) == {u \in S : Cardinality({v \in S : rank[v] < rank[u]}) < 3 * Limit}

\* mutant of Better: the lowest score comes first
Worse(u, v) == Score[u] < Score[v] \/ (Score[u] = Score[v] /\ rank[u] < rank[v])

\* The sort by score is stable.
Better(u, v) == Score[u] > Score[v] \/ (Score[u] = Score[v] /\ rank[u] < rank[v])
Best(S) == {u \in S : Cardinality({v \in S : Better(v, u)}) < Limit}

Asked == Listed \cap Aged(page.minAge, page.maxAge)

FindCandidates ==
  /\ page.pc = "find"
  /\ page' = [pc |-> "answer", left |-> page.left,
              cards |-> Best(Taken(Asked \ page.exclude) \cap Near)]
  /\ UNCHANGED <<profiles, past>>

Answer ==
  /\ page.pc = "answer"
  /\ Show("open", page.cards)
  /\ UNCHANGED <<profiles, past>>

-----------------------------------------------------------------------------
(* The seeker                                                              *)

\* onSwipe takes the card away and posts the swipe, and waits for nothing.
Swipe(u) ==
  /\ page.pc = "open" /\ u \in page.cards
  /\ page' = [page EXCEPT !.cards = @ \ {u}]
  /\ \E p \in Post :
       /\ post[p] = Idle
       /\ post' = [post EXCEPT ![p] = [pc |-> "read", to |-> u]]
  /\ UNCHANGED <<profiles, swiped, blocked, blocking, usage>>

Leave ==
  /\ page.pc \in {"open", "error"}
  /\ page' = Closed
  /\ UNCHANGED <<profiles, past>>

(* LikesService.swipe, one statement after another.  The reads find the    *)
(* target listed and no block, or the swipe is refused; whoever pays with  *)
(* the quota is checked and charged; then the like is written.             *)
Charged(u) == Free /\ u \notin swiped
Allowed(u) == u \in Listed \ (blocked \cup blocking)

Proceed(p, pc) == post' = [post EXCEPT ![p].pc = pc]
Finish(p) == post' = [post EXCEPT ![p] = Idle]

ReadTarget(p) ==
  /\ post[p].pc = "read"
  /\ IF Allowed(post[p].to)
     THEN Proceed(p, IF Charged(post[p].to) THEN "check" ELSE "like")
     ELSE Finish(p)
  /\ UNCHANGED <<profiles, swiped, blocked, blocking, usage, page>>

CheckQuota(p) ==
  /\ post[p].pc = "check"
  /\ IF usage >= FreeDailySwipes THEN Finish(p) ELSE Proceed(p, "charge")
  /\ UNCHANGED <<profiles, swiped, blocked, blocking, usage, page>>

\* mutant of Charge: counts the swipes left, in a row created with none
ChargeDown(p) ==
  /\ post[p].pc = "charge"
  /\ usage' = usage - 1
  /\ Proceed(p, "like")
  /\ UNCHANGED <<profiles, swiped, blocked, blocking, page>>

Charge(p) ==
  /\ post[p].pc = "charge"
  /\ usage' = usage + 1
  /\ Proceed(p, "like")
  /\ UNCHANGED <<profiles, swiped, blocked, blocking, page>>

PutLike(p) ==
  /\ post[p].pc = "like"
  /\ swiped' = swiped \cup {post[p].to}
  /\ Finish(p)
  /\ UNCHANGED <<profiles, blocked, blocking, usage, page>>

Step(p) == ReadTarget(p) \/ CheckQuota(p) \/ Charge(p) \/ PutLike(p)

\* Midnight: the new day has no row.  A swipe checked before it charges the
\* old day's row, which nothing reads any more.
NextDay ==
  /\ usage > 0 \/ \E p \in Post : post[p].pc = "charge"
  /\ usage' = 0
  /\ post' = [p \in Post |-> IF post[p].pc = "charge" THEN [post[p] EXCEPT !.pc = "like"]
                             ELSE post[p]]
  /\ UNCHANGED <<profiles, swiped, blocked, blocking, page>>

Block(u) ==
  /\ u \notin blocked
  /\ blocked' = blocked \cup {u}
  /\ UNCHANGED <<profiles, swiped, blocking, usage, post, page>>

\* Bookkeeping for OutIsNotShown: users found now are not left out any more.
Note(found, asked) ==
  page' = IF page.pc \in {"closed", "answer", "open", "error"} THEN page
          ELSE [page EXCEPT !.left.unlisted = @ \ found, !.left.unasked = @ \ asked]

(* ProfilesService.upsert.  The bounds that are given are checked against  *)
(* each other and against the defaults, and only they are written.         *)
EditOwn ==
  \E dto \in Dtos :
    LET Or(bound, other) == IF bound = Absent THEN other ELSE bound
    IN /\ Or(dto.minAgePref, 18) <= Or(dto.maxAgePref, 99)
       /\ own' = [isComplete |-> dto.named,
                  minAgePref |-> Or(dto.minAgePref, own.minAgePref),
                  maxAgePref |-> Or(dto.maxAgePref, own.maxAgePref)]
       /\ Note(Listed, LookedFor')
       /\ UNCHANGED <<rank, complete, active, past>>

-----------------------------------------------------------------------------
(* The others                                                              *)

\* An upsert makes the profile the latest; a blank name makes it incomplete.
EditProfile(u) ==
  /\ rank' = [v \in User |-> IF v = u THEN 1
                             ELSE IF rank[v] < rank[u] THEN rank[v] + 1 ELSE rank[v]]
  /\ complete' \in {complete \cup {u}, complete \ {u}}
  /\ Note(complete' \cap active, LookedFor)
  /\ UNCHANGED <<own, active, past>>

BanUser(u) ==
  /\ u \in active
  /\ active' = active \ {u}
  /\ UNCHANGED <<rank, complete, own, past, page>>

UnbanUser(u) ==
  /\ u \notin active
  /\ active' = active \cup {u}
  /\ Note(complete \cap active', LookedFor)
  /\ UNCHANGED <<rank, complete, own, past>>

BlockMe(u) ==
  /\ u \notin blocking
  /\ blocking' = blocking \cup {u}
  /\ UNCHANGED <<profiles, swiped, blocked, usage, post, page>>

-----------------------------------------------------------------------------
Load ==
  \/ Open \/ ReadRemaining \/ ReadOwnProfile
  \/ ReadSwiped \/ ReadBlocked \/ ReadBlocking \/ FindCandidates \/ Answer

Next ==
  \/ Load \/ Leave \/ EditOwn \/ NextDay
  \/ \E u \in User : Swipe(u)
  \/ \E p \in Post : Step(p)
  \/ \E u \in Editors : EditProfile(u)
  \/ \E u \in Bannable : BanUser(u) \/ UnbanUser(u)
  \/ \E u \in BlocksMe : BlockMe(u)
  \/ \E u \in IBlock : Block(u)

Spec == Init /\ [][Next]_vars

(* The server answers, the days pass, and the seeker is patient: swipes on *)
(* what is shown and comes back for more.                                  *)
PatientSpec ==
  /\ Spec
  /\ WF_vars(Load) /\ WF_vars(Leave) /\ WF_vars(NextDay)
  /\ \A u \in Near : SF_vars(Swipe(u))
  /\ \A p \in Post : WF_vars(Step(p))

-----------------------------------------------------------------------------
(* Properties.                                                             *)

(* No card shows a user the seeker had swiped on, or one blocked either    *)
(* way, before the page was opened, nor one who was banned, incomplete or  *)
(* of an age not looked for ever since.  (Two reasons that take turns are  *)
(* too much to ask: a user who blocks the seeker after the blocks were     *)
(* read and then completes the profile is shown.)                          *)
OutIsNotShown ==
  page.pc = "answer" =>
    page.cards \cap (page.left.barred \cup page.left.unlisted \cup page.left.unasked) = {}

(* The ages looked for are in order, as upsert refuses any others with     *)
(* 'Minimum preferred age cannot exceed maximum preferred age'.            *)
AgesInOrder == own.minAgePref <= own.maxAgePref

(* What the query and the ranking owe the seeker together: a nearby user   *)
(* who can be shown, of the ages looked for when the profile was read, is  *)
(* left out only for a full page of users that suit at least as well, or   *)
(* behind 3 * Limit fresher profiles, whoever those are.                   *)
BestAreShown ==
  [][page.pc = "find" /\ page'.pc = "answer" =>
       \A u \in (Near \cap Asked) \ (Barred \cup page'.cards) :
         \/ /\ Cardinality(page'.cards) = Limit
            /\ \A c \in page'.cards : Score[c] >= Score[u]
         \/ Cardinality({v \in User : rank[v] < rank[u]}) >= 3 * Limit]_vars

(* 'No more profiles nearby right now' is no dead end: where fewer than    *)
(* 3 * Limit users are too far away to be shown, no nearby user stays      *)
(* unseen for ever, whatever the edits do to the order.  The seeker's own  *)
(* profile must settle and be complete, and no one may come and go without *)
(* end: the card would come back unsaved each time.                        *)
Settled ==
  /\ <>[]own.isComplete
  /\ <>[][Listed' = Listed]_vars
NearbyIsShown ==
  Cardinality(User \ Near) < 3 * Limit /\ Settled => \A u \in Near : []<>(u \notin Eligible)
=============================================================================
