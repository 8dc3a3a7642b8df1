--------------------------- MODULE DiscoveryProofs ---------------------------
(***************************************************************************)
(* Theorems about Discovery, for any users, any limit and any profiles.    *)
(***************************************************************************)
EXTENDS Discovery, FiniteSetTheorems, TLAPS

LEMMA Size == Cardinality(User) \in Nat
BY DiscoveryAssumption, FS_CardinalityType

\* What the page holds, its pc says.
LEMMA PageTypes ==
  ASSUME TypeOK
  PROVE  /\ page.pc \in {"remaining", "own", "reads", "find"} <=> page \in Loading
         /\ page.pc = "answer" <=> page \in Answered
         /\ page.pc \in {"open", "error"} <=> page \in Showing
         /\ page.pc = "closed" <=> page = Closed
<1>1. page \in {Closed} \cup Loading \cup Answered \cup Showing
  BY DEF TypeOK
<1>2. CASE page = Closed
  BY <1>2 DEF Closed, Loading, Answered, Showing
<1>3. CASE page \in Loading
  BY <1>3 DEF Closed, Loading, Answered, Showing
<1>4. CASE page \in Answered
  BY <1>4 DEF Closed, Loading, Answered, Showing
<1>5. CASE page \in Showing
  BY <1>5 DEF Closed, Loading, Answered, Showing
<1>6. QED
  BY <1>1, <1>2, <1>3, <1>4, <1>5

LEMMA InitTypeOK == Init => TypeOK
<1> SUFFICES ASSUME Init PROVE TypeOK
  OBVIOUS
<1>1. 18 \in Adult /\ 99 \in Adult
  BY DEF Adult
<1>2. post \in [Post -> {Idle} \cup Posted]
  BY DEF Init
<1>3. QED
  BY <1>1, <1>2, DiscoveryAssumption DEF Init, TypeOK

\* The bookkeeping keeps the page what it is.
LEMMA NoteTypes ==
  ASSUME TypeOK, NEW found, NEW asked, Note(found, asked)
  PROVE  /\ page' \in {Closed} \cup Loading \cup Answered \cup Showing
         /\ page'.pc = page.pc
         /\ page.pc \notin {"remaining", "own", "reads", "find"} => page' = page
         /\ page.pc \in {"remaining", "own", "reads", "find"} =>
              /\ page'.minAge = page.minAge /\ page'.maxAge = page.maxAge
              /\ page'.todo = page.todo /\ page'.exclude = page.exclude
              /\ page'.left.barred = page.left.barred
              /\ page'.left.unlisted = page.left.unlisted \ found
              /\ page'.left.unasked = page.left.unasked \ asked
<1>1. page \in {Closed} \cup Loading \cup Answered \cup Showing
  BY DEF TypeOK
<1>2. CASE page.pc \in {"closed", "answer", "open", "error"}
  BY <1>1, <1>2 DEF Note
<1>3. CASE page.pc \in {"remaining", "own", "reads", "find"}
  <2>1. page \in Loading /\ page.left \in Left
    BY <1>3, PageTypes DEF Loading
  <2>2. page' = [page EXCEPT !.left = [page.left EXCEPT !.unlisted = @ \ found, !.unasked = @ \ asked]]
    BY <1>3, <2>1 DEF Note, Loading, Left
  <2>3. [page.left EXCEPT !.unlisted = @ \ found, !.unasked = @ \ asked] \in Left
    BY <2>1 DEF Left
  <2>4. page' \in Loading
    BY <2>1, <2>2, <2>3 DEF Loading
  <2>5. page'.left = [page.left EXCEPT !.unlisted = @ \ found, !.unasked = @ \ asked]
    BY <2>1, <2>2 DEF Loading
  <2>6. /\ page'.pc = page.pc /\ page'.minAge = page.minAge /\ page'.maxAge = page.maxAge
        /\ page'.todo = page.todo /\ page'.exclude = page.exclude
    BY <2>1, <2>2 DEF Loading
  <2>7. /\ page'.left.barred = page.left.barred
        /\ page'.left.unlisted = page.left.unlisted \ found
        /\ page'.left.unasked = page.left.unasked \ asked
    BY <2>1, <2>5 DEF Left
  <2>8. QED
    BY <1>3, <2>4, <2>6, <2>7
<1>4. QED
  BY <1>1, <1>2, <1>3 DEF Closed, Loading, Answered, Showing

\* What the seeker's own profile holds after an upsert.
LEMMA EditOwnTypes ==
  ASSUME TypeOK, EditOwn
  PROVE  own' \in [isComplete : BOOLEAN, minAgePref : Adult, maxAgePref : Adult]
<1>1. PICK dto \in Dtos :
        own' = [isComplete |-> dto.named,
                minAgePref |-> IF dto.minAgePref = Absent THEN own.minAgePref ELSE dto.minAgePref,
                maxAgePref |-> IF dto.maxAgePref = Absent THEN own.maxAgePref ELSE dto.maxAgePref]
  BY DEF EditOwn
<1>2. dto \in Dto
  BY DiscoveryAssumption
<1>3. QED
  BY <1>1, <1>2 DEF TypeOK, Dto

LEMMA EditRank ==
  ASSUME TypeOK, NEW u \in User, EditProfile(u)
  PROVE  rank' \in [User -> 1..Cardinality(User)]
<1>1. \A v \in User : rank[v] \in 1..Cardinality(User)
  BY DEF TypeOK
<1>2. ASSUME NEW v \in User
      PROVE  (IF v = u THEN 1 ELSE IF rank[v] < rank[u] THEN rank[v] + 1 ELSE rank[v])
               \in 1..Cardinality(User)
  BY <1>1, Size
<1>3. QED
  BY <1>2 DEF EditProfile

LEMMA LoadTypeOK == TypeOK /\ Load => TypeOK'
<1> SUFFICES ASSUME TypeOK, Load PROVE page' \in {Closed} \cup Loading \cup Answered \cup Showing
  BY DEF TypeOK, Load, Open, ReadRemaining, ReadOwnProfile, ReadSwiped, ReadBlocked, ReadBlocking,
     Read, FindCandidates, Answer, profiles, past
<1> USE PageTypes
<1>1. CASE Open
  <2>1. [barred |-> Barred, unlisted |-> User \ (Barred \cup Listed),
         unasked |-> User \ (Barred \cup LookedFor)] \in Left
    BY DEF Left, Barred, TypeOK
  <2>2. 18 \in Adult /\ 99 \in Adult
    BY DEF Adult
  <2>3. QED
    BY <1>1, <2>1, <2>2 DEF Open, Loading
<1>2. CASE ReadRemaining
  <2>1. page \in Loading
    BY <1>2 DEF ReadRemaining
  <2>2. [page EXCEPT !.pc = "own"] \in Loading
    BY <2>1 DEF Loading
  <2>3. QED
    BY <1>2, <2>2 DEF ReadRemaining, Refuse, Show, Goto, Showing
<1>3. CASE ReadOwnProfile
  <2>1. page \in Loading
    BY <1>3 DEF ReadOwnProfile
  <2>2. [page EXCEPT !.pc = "reads", !.minAge = own.minAgePref, !.maxAge = own.maxAgePref] \in Loading
    BY <2>1 DEF Loading, TypeOK
  <2>3. QED
    BY <1>3, <2>2 DEF ReadOwnProfile, Refuse, Show, Showing
<1>4. CASE ReadSwiped \/ ReadBlocked \/ ReadBlocking
  <2>1. page \in Loading
    BY <1>4 DEF ReadSwiped, ReadBlocked, ReadBlocking, Read
  <2>2. PICK what \in Reads, users \in SUBSET User : Read(what, users)
    BY <1>4 DEF ReadSwiped, ReadBlocked, ReadBlocking, Reads, TypeOK
  <2>3. PICK pc \in {"reads", "find"} :
          page' = [page EXCEPT !.todo = @ \ {what}, !.exclude = @ \cup users, !.pc = pc]
    BY <2>1, <2>2 DEF Read, Loading
  <2>4. QED
    BY <2>1, <2>3 DEF Loading
<1>5. CASE FindCandidates
  <2>1. page \in Loading
    BY <1>5 DEF FindCandidates
  <2>2. Best(Taken(Asked \ page.exclude) \cap Near) \subseteq User
    BY DEF Best, Taken, Asked, Listed, TypeOK
  <2>3. QED
    BY <1>5, <2>1, <2>2 DEF FindCandidates, Loading, Answered
<1>6. CASE Answer
  BY <1>6 DEF Answer, Show, Answered, Showing
<1>7. QED
  BY <1>1, <1>2, <1>3, <1>4, <1>5, <1>6 DEF Load

\* A place holds a swipe or none: it is taken, goes on and falls free again.
LEMMA PostTypes ==
  ASSUME TypeOK, NEW p \in Post
  PROVE  /\ \A u \in User : [post EXCEPT ![p] = [pc |-> "read", to |-> u]] \in [Post -> {Idle} \cup Posted]
         /\ [post EXCEPT ![p] = Idle] \in [Post -> {Idle} \cup Posted]
         /\ post[p].pc \in {"read", "check", "charge", "like"} =>
              /\ post[p].to \in User
              /\ \A pc \in {"check", "charge", "like"} :
                   /\ [post[p] EXCEPT !.pc = pc] \in Posted
                   /\ [post EXCEPT ![p].pc = pc] \in [Post -> {Idle} \cup Posted]
<1>1. post \in [Post -> {Idle} \cup Posted]
  BY DEF TypeOK
<1>2. \A u \in User : [pc |-> "read", to |-> u] \in Posted
  BY DEF Posted
<1>3. ASSUME post[p].pc \in {"read", "check", "charge", "like"} PROVE post[p] \in Posted
  BY <1>1, <1>3 DEF Idle
<1>4. ASSUME post[p] \in Posted, NEW pc \in {"check", "charge", "like"}
      PROVE  [post[p] EXCEPT !.pc = pc] \in Posted
  BY <1>4 DEF Posted
<1>5. post[p] \in Posted => post[p].to \in User
  BY DEF Posted
<1>6. QED
  BY <1>1, <1>2, <1>3, <1>4, <1>5

LEMMA StepTypeOK == TypeOK /\ (\E p \in Post : Step(p)) => TypeOK'
<1> SUFFICES ASSUME TypeOK, NEW p \in Post, Step(p) PROVE TypeOK'
  OBVIOUS
<1>1. UNCHANGED <<profiles, blocked, blocking, page>>
  BY DEF Step, ReadTarget, CheckQuota, Charge, PutLike
<1>2. post' \in [Post -> {Idle} \cup Posted]
  BY PostTypes DEF Step, ReadTarget, CheckQuota, Charge, PutLike, Proceed, Finish
<1>3. swiped' \subseteq User
  <2>1. swiped \subseteq User
    BY DEF TypeOK
  <2>2. CASE PutLike(p)
    <3>1. post[p].to \in User
      BY <2>2, PostTypes DEF PutLike
    <3>2. QED
      BY <2>1, <2>2, <3>1 DEF PutLike
  <2>3. CASE UNCHANGED swiped
    BY <2>1, <2>3
  <2>4. QED
    BY <2>2, <2>3 DEF Step, ReadTarget, CheckQuota, Charge
<1>4. usage' \in Nat
  BY DEF Step, ReadTarget, CheckQuota, Charge, PutLike, TypeOK
<1>5. QED
  BY <1>1, <1>2, <1>3, <1>4 DEF TypeOK, profiles

LEMMA NextTypeOK == TypeOK /\ [Next]_vars => TypeOK'
<1> SUFFICES ASSUME TypeOK, [Next]_vars PROVE TypeOK'
  OBVIOUS
<1>1. CASE Load
  BY <1>1, LoadTypeOK
<1>2. CASE Leave
  BY <1>2 DEF Leave, TypeOK, profiles, past
<1>3. CASE EditOwn
  <2>1. page' \in {Closed} \cup Loading \cup Answered \cup Showing
    BY <1>3, NoteTypes DEF EditOwn
  <2>2. QED
    BY <1>3, <2>1, EditOwnTypes DEF EditOwn, TypeOK, past
<1>4. CASE NextDay
  <2>1. \A p \in Post : (IF post[p].pc = "charge" THEN [post[p] EXCEPT !.pc = "like"]
                          ELSE post[p]) \in {Idle} \cup Posted
    BY PostTypes DEF TypeOK
  <2>2. post' \in [Post -> {Idle} \cup Posted]
    BY <1>4, <2>1 DEF NextDay
  <2>3. QED
    BY <1>4, <2>2 DEF NextDay, TypeOK, profiles
<1>5. ASSUME NEW u \in User, Swipe(u) PROVE TypeOK'
  <2>1. page \in Showing
    BY <1>5, PageTypes DEF Swipe
  <2>2. [page EXCEPT !.cards = @ \ {u}] \in Showing
    BY <2>1 DEF Showing
  <2>3. page' \in Showing
    BY <1>5, <2>2 DEF Swipe
  <2>4. post' \in [Post -> {Idle} \cup Posted]
    <3>1. PICK p \in Post : post' = [post EXCEPT ![p] = [pc |-> "read", to |-> u]]
      BY <1>5 DEF Swipe
    <3>2. [post EXCEPT ![p] = [pc |-> "read", to |-> u]] \in [Post -> {Idle} \cup Posted]
      BY PostTypes
    <3>3. QED
      BY <3>1, <3>2
  <2>5. UNCHANGED <<profiles, swiped, blocked, blocking, usage>>
    BY <1>5 DEF Swipe
  <2>6. QED
    BY <2>3, <2>4, <2>5 DEF TypeOK, profiles
<1>6. CASE \E p \in Post : Step(p)
  BY <1>6, StepTypeOK
<1>7. ASSUME NEW u \in User, EditProfile(u) PROVE TypeOK'
  <2>1. page' \in {Closed} \cup Loading \cup Answered \cup Showing
    BY <1>7, NoteTypes DEF EditProfile
  <2>2. QED
    BY <1>7, <2>1, EditRank DEF EditProfile, TypeOK, past
<1>8. ASSUME NEW u \in User, BanUser(u) \/ BlockMe(u) \/ Block(u) PROVE TypeOK'
  BY <1>8 DEF BanUser, BlockMe, Block, TypeOK, profiles, past
<1>9. ASSUME NEW u \in User, UnbanUser(u) PROVE TypeOK'
  <2>1. page' \in {Closed} \cup Loading \cup Answered \cup Showing
    BY <1>9, NoteTypes DEF UnbanUser
  <2>2. QED
    BY <1>9, <2>1 DEF UnbanUser, TypeOK, past
<1>10. CASE UNCHANGED vars
  BY <1>10 DEF vars, profiles, past, TypeOK
<1>11. QED
  BY <1>1, <1>2, <1>3, <1>4, <1>5, <1>6, <1>7, <1>8, <1>9, <1>10, DiscoveryAssumption DEF Next

(* Every variable keeps its type, with any number of swipes on their way.  *)
THEOREM TypeCorrect == Spec => []TypeOK
BY InitTypeOK, NextTypeOK, PTL DEF Spec

-----------------------------------------------------------------------------
(* Whom an answer leaves out.  Of the users barred when the page was       *)
(* opened each is excluded already or still to be read; the others whom    *)
(* the answer leaves out are out now, and were out when the ages were read.*)

IsLoading == page.pc \in {"remaining", "own", "reads", "find"}

ExclusionInv ==
  /\ IsLoading =>
       /\ page.left.barred \subseteq
            page.exclude \cup (IF "swiped" \in page.todo THEN swiped ELSE {})
                         \cup (IF "blocked" \in page.todo THEN blocked ELSE {})
                         \cup (IF "blocking" \in page.todo THEN blocking ELSE {})
       /\ page.exclude \subseteq Barred
       /\ page.left.unlisted \cap Listed = {}
       /\ page.left.unasked \cap LookedFor = {}
  /\ page.pc \in {"reads", "find"} =>
       page.left.unasked \cap Aged(page.minAge, page.maxAge) = {}
  /\ page.pc = "find" => page.todo = {}

OutInv == TypeOK /\ ExclusionInv /\ OutIsNotShown

LEMMA InitOutInv == Init => OutInv
BY InitTypeOK DEF Init, OutInv, ExclusionInv, OutIsNotShown, IsLoading, Closed

\* What happens elsewhere while the page waits.
LEMMA OutsideExclusion ==
  ASSUME OutInv, page' = page,
         swiped \subseteq swiped', blocked \subseteq blocked', blocking \subseteq blocking',
         Listed' \subseteq Listed, own' = own
  PROVE  ExclusionInv' /\ OutIsNotShown'
<1>1. LookedFor' = LookedFor /\ Barred \subseteq Barred'
  BY DEF LookedFor, Aged, Barred
<1>2. OutIsNotShown'
  BY DEF OutInv, OutIsNotShown
<1>3. CASE IsLoading
  BY <1>1, <1>2, <1>3 DEF OutInv, ExclusionInv, IsLoading, Aged
<1>4. CASE ~IsLoading
  BY <1>2, <1>4 DEF ExclusionInv, IsLoading
<1>5. QED
  BY <1>3, <1>4

\* An edit that lists or asks for more is noted.
LEMMA NotedExclusion ==
  ASSUME OutInv, UNCHANGED <<swiped, blocked, blocking>>,
         NEW found, NEW asked, Note(found, asked),
         Listed' \subseteq Listed \cup found, LookedFor' \subseteq LookedFor \cup asked
  PROVE  ExclusionInv' /\ OutIsNotShown'
<1> USE DEF OutInv
<1>1. Barred' = Barred
  BY DEF Barred
<1>2. CASE IsLoading
  <2>1. /\ page'.pc = page.pc
        /\ page'.minAge = page.minAge /\ page'.maxAge = page.maxAge
        /\ page'.todo = page.todo /\ page'.exclude = page.exclude
        /\ page'.left.barred = page.left.barred
        /\ page'.left.unlisted = page.left.unlisted \ found
        /\ page'.left.unasked = page.left.unasked \ asked
    BY <1>2, NoteTypes DEF IsLoading
  <2>2. QED
    BY <1>1, <1>2, <2>1 DEF ExclusionInv, OutIsNotShown, IsLoading, Aged
<1>3. CASE ~IsLoading
  <2>1. page' = page
    BY <1>3, NoteTypes DEF IsLoading
  <2>2. QED
    BY <1>3, <2>1 DEF ExclusionInv, OutIsNotShown, IsLoading
<1>4. QED
  BY <1>2, <1>3

LEMMA ReadExclusion ==
  ASSUME OutInv, ReadSwiped \/ ReadBlocked \/ ReadBlocking
  PROVE  ExclusionInv' /\ OutIsNotShown'
<1>1. page \in Loading /\ page.pc = "reads"
  BY PageTypes DEF OutInv, ReadSwiped, ReadBlocked, ReadBlocking, Read
<1>2. PICK what \in Reads, users \in {swiped, blocked, blocking} :
        /\ Read(what, users)
        /\ what = "swiped" => users = swiped
        /\ what = "blocked" => users = blocked
        /\ what = "blocking" => users = blocking
  BY DEF ReadSwiped, ReadBlocked, ReadBlocking, Reads
<1>3. /\ page'.pc = (IF page.todo = {what} THEN "find" ELSE "reads")
      /\ page'.todo = page.todo \ {what} /\ page'.exclude = page.exclude \cup users
      /\ page'.left = page.left
      /\ page'.minAge = page.minAge /\ page'.maxAge = page.maxAge
  BY <1>1, <1>2 DEF Read, Loading
<1>4. UNCHANGED <<swiped, blocked, blocking, complete, active, own>>
  BY <1>2 DEF Read, profiles, past
<1>5. Listed' = Listed /\ LookedFor' = LookedFor /\ Barred' = Barred
  BY <1>4 DEF Listed, LookedFor, Barred, Aged
<1>6. /\ page'.left.barred \subseteq
            page'.exclude \cup (IF "swiped" \in page'.todo THEN swiped ELSE {})
                         \cup (IF "blocked" \in page'.todo THEN blocked ELSE {})
                         \cup (IF "blocking" \in page'.todo THEN blocking ELSE {})
      /\ page'.exclude \subseteq Barred
  BY <1>1, <1>2, <1>3 DEF OutInv, ExclusionInv, IsLoading, Barred, Reads
<1>7. QED
  BY <1>1, <1>3, <1>4, <1>5, <1>6 DEF OutInv, ExclusionInv, OutIsNotShown, IsLoading, Aged

LEMMA NextOutInv == OutInv /\ [Next]_vars => OutInv'
<1> SUFFICES ASSUME OutInv, [Next]_vars PROVE OutInv'
  OBVIOUS
<1>t. TypeOK /\ TypeOK'
  BY NextTypeOK DEF OutInv
<1> SUFFICES ExclusionInv' /\ OutIsNotShown'
  BY <1>t DEF OutInv
<1>1. CASE Open
  <2>1. /\ page'.pc = "remaining" /\ page'.todo = Reads /\ page'.exclude = {}
        /\ page'.left.barred = Barred /\ page'.left.unlisted = User \ (Barred \cup Listed)
        /\ page'.left.unasked = User \ (Barred \cup LookedFor)
        /\ UNCHANGED <<swiped, blocked, blocking, complete, active, own>>
    BY <1>1 DEF Open, profiles, past
  <2>2. QED
    BY <2>1 DEF ExclusionInv, OutIsNotShown, IsLoading, Reads, Barred, Listed, LookedFor, Aged
<1>2. CASE ReadRemaining
  <2>1. page \in Loading /\ page.pc = "remaining"
    BY <1>t, <1>2, PageTypes DEF ReadRemaining
  <2>2. CASE Goto("own")
    <3>1. /\ page'.pc = "own" /\ page'.todo = page.todo /\ page'.exclude = page.exclude
          /\ page'.left = page.left
      BY <2>1, <2>2 DEF Goto, Loading
    <3>2. UNCHANGED <<swiped, blocked, blocking, complete, active, own>>
      BY <1>2 DEF ReadRemaining, profiles, past
    <3>3. QED
      BY <2>1, <3>1, <3>2 DEF OutInv, ExclusionInv, OutIsNotShown, IsLoading, Barred, Listed,
         LookedFor, Aged
  <2>3. CASE Refuse
    BY <2>3 DEF Refuse, Show, ExclusionInv, OutIsNotShown, IsLoading
  <2>4. QED
    BY <1>2, <2>2, <2>3 DEF ReadRemaining
<1>3. CASE ReadOwnProfile
  <2>1. page \in Loading /\ page.pc = "own"
    BY <1>t, <1>3, PageTypes DEF ReadOwnProfile
  <2>2. CASE own.isComplete
    <3>1. /\ page'.pc = "reads" /\ page'.todo = page.todo /\ page'.exclude = page.exclude
          /\ page'.left = page.left
          /\ page'.minAge = own.minAgePref /\ page'.maxAge = own.maxAgePref
      BY <1>3, <2>1, <2>2 DEF ReadOwnProfile, Loading
    <3>2. UNCHANGED <<swiped, blocked, blocking, complete, active, own>>
      BY <1>3 DEF ReadOwnProfile, profiles, past
    <3>3. QED
      BY <2>1, <3>1, <3>2 DEF OutInv, ExclusionInv, OutIsNotShown, IsLoading, Barred, Listed,
         LookedFor, Aged
  <2>3. CASE ~own.isComplete
    BY <1>3, <2>3 DEF ReadOwnProfile, Refuse, Show, ExclusionInv, OutIsNotShown, IsLoading
  <2>4. QED
    BY <2>2, <2>3
<1>4. CASE ReadSwiped \/ ReadBlocked \/ ReadBlocking
  BY <1>4, ReadExclusion
<1>5. CASE FindCandidates
  <2>1. page'.pc = "answer" /\ page'.left = page.left
        /\ page'.cards = Best(Taken(Asked \ page.exclude) \cap Near)
    BY <1>5 DEF FindCandidates
  <2>2. page'.cards \subseteq (Listed \cap Aged(page.minAge, page.maxAge)) \ page.exclude
    BY <2>1 DEF Best, Taken, Asked
  <2>3. page.left.barred \subseteq page.exclude
    BY <1>5 DEF FindCandidates, OutInv, ExclusionInv, IsLoading
  <2>4. QED
    BY <1>5, <2>1, <2>2, <2>3 DEF FindCandidates, OutInv, ExclusionInv, OutIsNotShown, IsLoading
<1>6. CASE Answer \/ Leave
  BY <1>6 DEF Answer, Leave, Show, Closed, ExclusionInv, OutIsNotShown, IsLoading
<1>7. CASE EditOwn
  <2>1. Listed' = Listed
    BY <1>7 DEF EditOwn, Listed
  <2>2. QED
    BY <1>7, <2>1, NotedExclusion DEF EditOwn, past
<1>8. ASSUME NEW u \in User, EditProfile(u) PROVE ExclusionInv' /\ OutIsNotShown'
  <2>1. Listed' = complete' \cap active /\ LookedFor' = LookedFor
    BY <1>8 DEF EditProfile, Listed, LookedFor, Aged
  <2>2. QED
    BY <1>8, <2>1, NotedExclusion DEF EditProfile, past
<1>9. ASSUME NEW u \in User, UnbanUser(u) PROVE ExclusionInv' /\ OutIsNotShown'
  <2>1. Listed' = complete \cap active' /\ LookedFor' = LookedFor
    BY <1>9 DEF UnbanUser, Listed, LookedFor, Aged
  <2>2. QED
    BY <1>9, <2>1, NotedExclusion DEF UnbanUser, past
<1>10. ASSUME NEW u, BanUser(u) \/ BlockMe(u) \/ Block(u) \/ Step(u)
       PROVE  ExclusionInv' /\ OutIsNotShown'
  <2>1. /\ page' = page /\ own' = own /\ Listed' \subseteq Listed
        /\ swiped \subseteq swiped' /\ blocked \subseteq blocked' /\ blocking \subseteq blocking'
    BY <1>10 DEF BanUser, BlockMe, Block, Step, ReadTarget, CheckQuota, Charge, PutLike,
       Listed, profiles, past
  <2>2. QED
    BY <2>1, OutsideExclusion
<1>11. CASE NextDay \/ UNCHANGED vars
  BY <1>11, OutsideExclusion DEF NextDay, vars, Listed, profiles, past
<1>12. ASSUME NEW u \in User, Swipe(u) PROVE ExclusionInv' /\ OutIsNotShown'
  <2>1. page'.pc = "open"
    BY <1>t, <1>12, PageTypes DEF Swipe, Showing
  <2>2. QED
    BY <2>1 DEF ExclusionInv, OutIsNotShown, IsLoading
<1>13. QED
  BY <1>1, <1>2, <1>3, <1>4, <1>5, <1>6, <1>7, <1>8, <1>9, <1>10, <1>11, <1>12,
     DiscoveryAssumption DEF Next, Load

LEMMA OutInvHolds == Spec => []OutInv
BY InitOutInv, NextOutInv, PTL DEF Spec

(* An answer shows nobody whom the seeker had swiped on, or who was        *)
(* blocked, before the page was opened, nor anyone out for one lasting     *)
(* reason, in whatever order the reads of the Promise.all are answered.    *)
THEOREM OutIsNotShownHolds == Spec => []OutIsNotShown
<1>1. OutInv => OutIsNotShown
  BY DEF OutInv
<1>2. QED
  BY <1>1, OutInvHolds, PTL

-----------------------------------------------------------------------------
(* What is shown of the users found.  No two profiles share a place in the *)
(* order by updatedAt, so Better ranks any set of users, and Best are the  *)
(* first Limit of them.                                                    *)

RankInjective == \A u, v \in User : rank[u] = rank[v] => u = v

LEMMA EditKeepsOrder ==
  ASSUME TypeOK, RankInjective, NEW u \in User, EditProfile(u)
  PROVE  RankInjective'
<1>1. \A v \in User : rank'[v] = IF v = u THEN 1
                                 ELSE IF rank[v] < rank[u] THEN rank[v] + 1 ELSE rank[v]
  BY DEF EditProfile
<1>2. \A v \in User : rank[v] \in Int /\ rank[v] >= 1
  BY Size DEF TypeOK
<1>3. SUFFICES ASSUME NEW v \in User, NEW w \in User, rank'[v] = rank'[w] PROVE v = w
  BY DEF RankInjective
<1>4. v # u => rank[v] # rank[u]
  BY DEF RankInjective
<1>5. w # u => rank[w] # rank[u]
  BY DEF RankInjective
<1>6. rank[v] = rank[w] => v = w
  BY DEF RankInjective
<1>7. /\ rank[u] \in Int /\ rank[u] >= 1 /\ rank[v] \in Int /\ rank[v] >= 1
      /\ rank[w] \in Int /\ rank[w] >= 1
  BY <1>2
<1>8. rank'[v] = (IF v = u THEN 1 ELSE IF rank[v] < rank[u] THEN rank[v] + 1 ELSE rank[v])
  BY <1>1
<1>9. rank'[w] = (IF w = u THEN 1 ELSE IF rank[w] < rank[u] THEN rank[w] + 1 ELSE rank[w])
  BY <1>1
<1>10. ASSUME NEW i \in Int, NEW j \in Int, NEW k \in Int, i # k, j # k,
              (IF i < k THEN i + 1 ELSE i) = (IF j < k THEN j + 1 ELSE j)
       PROVE  i = j
  BY <1>10
<1>11. ASSUME NEW i \in Int, NEW k \in Int, k >= 1, i >= 1, i # k
       PROVE  (IF i < k THEN i + 1 ELSE i) # 1
  BY <1>11
<1>12. CASE v = u
  BY <1>3, <1>5, <1>7, <1>8, <1>9, <1>11, <1>12
<1>13. CASE v # u /\ w = u
  BY <1>3, <1>4, <1>7, <1>8, <1>9, <1>11, <1>13
<1>14. CASE v # u /\ w # u
  BY <1>3, <1>4, <1>5, <1>6, <1>7, <1>8, <1>9, <1>10, <1>14
<1>15. QED
  BY <1>12, <1>13, <1>14

LEMMA NextRankInjective ==
  ASSUME TypeOK, RankInjective, [Next]_vars
  PROVE  RankInjective'
<1>1. CASE UNCHANGED rank
  BY <1>1 DEF RankInjective
<1>2. ASSUME NEW u \in User, EditProfile(u) PROVE RankInjective'
  BY <1>2, EditKeepsOrder
<1>3. CASE Load
  BY <1>3, <1>1 DEF Load, Open, ReadRemaining, ReadOwnProfile, ReadSwiped, ReadBlocked, ReadBlocking,
     Read, FindCandidates, Answer, profiles
<1>4. QED
  BY <1>1, <1>2, <1>3, DiscoveryAssumption DEF Next, Leave, EditOwn, NextDay, Swipe, Step,
     ReadTarget, CheckQuota, Charge, PutLike,
     BanUser, UnbanUser, BlockMe, Block, vars, profiles

\* Better is a strict order, and compares any two users.
LEMMA BetterOrder ==
  ASSUME TypeOK, RankInjective, NEW u \in User, NEW v \in User, NEW w \in User
  PROVE  /\ ~Better(u, u)
         /\ Better(u, v) /\ Better(v, w) => Better(u, w)
         /\ u # v => Better(u, v) \/ Better(v, u)
         /\ Better(u, v) => Score[u] >= Score[v]
<1>1. \A x \in {u, v, w} : Score[x] \in Int /\ rank[x] \in Int
  BY Size, DiscoveryAssumption DEF TypeOK
<1>2. u # v => rank[u] # rank[v]
  BY DEF RankInjective
<1>3. QED
  BY <1>1, <1>2 DEF Better

\* A subset is no larger, and smaller when it is another set.
LEMMA Smaller ==
  ASSUME NEW S, NEW T, IsFiniteSet(T), S \subseteq T
  PROVE  /\ IsFiniteSet(S) /\ Cardinality(S) \in Nat /\ Cardinality(T) \in Nat
         /\ Cardinality(S) <= Cardinality(T)
         /\ S # T => Cardinality(S) < Cardinality(T)
<1>1. /\ IsFiniteSet(S) /\ Cardinality(S) <= Cardinality(T)
      /\ Cardinality(T) = Cardinality(S) => T = S
  BY FS_Subset
<1>2. Cardinality(S) \in Nat /\ Cardinality(T) \in Nat
  BY <1>1, FS_CardinalityType
<1>3. QED
  BY <1>1, <1>2

\* How many of a set come before a user.
Place(C, u) == Cardinality({v \in C : Better(v, u)})

LEMMA Places ==
  ASSUME TypeOK, RankInjective, NEW C \in SUBSET User
  PROVE  /\ IsFiniteSet(C) /\ Cardinality(C) \in Nat
         /\ \A u \in C : Place(C, u) \in 0..Cardinality(C) - 1
         /\ \A u, v \in C : Better(u, v) => Place(C, u) < Place(C, v)
         /\ \A u, v \in C : Place(C, u) = Place(C, v) => u = v
<1>1. IsFiniteSet(C) /\ Cardinality(C) \in Nat
  BY Smaller, DiscoveryAssumption
<1>2. ASSUME NEW u \in C PROVE Place(C, u) \in 0..Cardinality(C) - 1
  <2>1. ~Better(u, u)
    BY BetterOrder
  <2>2. {v \in C : Better(v, u)} \subseteq C /\ {v \in C : Better(v, u)} # C
    BY <2>1
  <2>3. Place(C, u) \in Nat /\ Place(C, u) < Cardinality(C)
    BY <1>1, <2>2, Smaller DEF Place
  <2>4. QED
    BY <1>1, <2>3
<1>3. ASSUME NEW u \in C, NEW v \in C, Better(u, v) PROVE Place(C, u) < Place(C, v)
  <2> DEFINE Before(x) == {w \in C : Better(w, x)}
  <2>1. Before(u) \subseteq Before(v)
    BY <1>3, BetterOrder
  <2>2. u \in Before(v) /\ u \notin Before(u)
    BY <1>3, BetterOrder
  <2>3. IsFiniteSet(Before(v))
    BY <1>1, Smaller
  <2>4. Cardinality(Before(u)) < Cardinality(Before(v))
    BY <2>1, <2>2, <2>3, Smaller
  <2>5. QED
    BY <2>4 DEF Place
<1>4. ASSUME NEW u \in C, NEW v \in C, Place(C, u) = Place(C, v) PROVE u = v
  <2>1. Place(C, u) \in Int /\ Place(C, v) \in Int
    BY <1>1, <1>2
  <2>2. ~Better(u, v) /\ ~Better(v, u)
    BY <1>3, <1>4, <2>1
  <2>3. QED
    BY <2>2, BetterOrder
<1>5. QED
  BY <1>1, <1>2, <1>3, <1>4

\* Who is not among the best of a set is kept out by a full page of them, and
\* each of those suits at least as well: the places of n users are 0 to n - 1,
\* so the best have the places below Limit, and there are so many.
LEMMA FullPage ==
  ASSUME TypeOK, RankInjective, NEW C \in SUBSET User, NEW u \in C \ Best(C)
  PROVE  /\ Cardinality(Best(C)) = Limit
         /\ \A c \in Best(C) : Score[c] >= Score[u]
<1> DEFINE n == Cardinality(C)
           place == [v \in C |-> Place(C, v)]
           best == [v \in Best(C) |-> Place(C, v)]
<1>1. /\ IsFiniteSet(C) /\ n \in Nat
      /\ \A v \in C : Place(C, v) \in 0..n - 1
      /\ \A v, w \in C : Better(v, w) => Place(C, v) < Place(C, w)
      /\ \A v, w \in C : Place(C, v) = Place(C, w) => v = w
  BY Places
<1>2. Limit \in Nat \ {0}
  BY DiscoveryAssumption
<1>3. \A v \in C : v \in Best(C) <=> Place(C, v) < Limit
  BY DEF Best, Place
<1>4. Best(C) \subseteq C
  BY DEF Best
<1>5. Place(C, u) >= Limit /\ Place(C, u) \in 0..n - 1
  BY <1>1, <1>2, <1>3
<1>6. Limit < n
  BY <1>1, <1>2, <1>5
<1>7. place \in Injection(C, 0..n - 1)
  BY <1>1 DEF Injection, IsInjective
<1>8. IsFiniteSet(0..n - 1) /\ Cardinality(0..n - 1) = n
  BY <1>1, <1>2, <1>6, FS_Interval
<1>9. place \in Surjection(C, 0..n - 1)
  BY <1>7, <1>8, FS_Injection
<1>10. best \in Bijection(Best(C), 0..Limit - 1)
  <2>1. ASSUME NEW v \in Best(C) PROVE Place(C, v) \in 0..Limit - 1
    <3>1. Place(C, v) \in 0..n - 1 /\ Place(C, v) < Limit
      BY <1>1, <1>3, <1>4
    <3>2. QED
      BY <1>1, <1>2, <3>1
  <2>2. best \in Injection(Best(C), 0..Limit - 1)
    BY <1>1, <1>4, <2>1 DEF Injection, IsInjective
  <2>3. ASSUME NEW i \in 0..Limit - 1 PROVE \E v \in Best(C) : best[v] = i
    <3>1. i \in 0..n - 1 /\ i < Limit
      BY <1>1, <1>2, <1>6
    <3>2. PICK v \in C : place[v] = i
      BY <1>9, <3>1 DEF Surjection
    <3>3. QED
      BY <1>3, <3>1, <3>2
  <2>4. best \in Surjection(Best(C), 0..Limit - 1)
    BY <2>2, <2>3 DEF Surjection, Injection
  <2>5. QED
    BY <2>2, <2>4 DEF Bijection
<1>11. Cardinality(Best(C)) = Limit
  <2>1. IsFiniteSet(Best(C))
    BY <1>1, <1>4, FS_Subset
  <2>2. Cardinality(0..Limit - 1) = Cardinality(Best(C))
    BY <1>10, <2>1, FS_Bijection DEF ExistsBijection
  <2>3. Cardinality(0..Limit - 1) = Limit
    BY <1>2, FS_Interval
  <2>4. QED
    BY <2>2, <2>3
<1>12. ASSUME NEW c \in Best(C) PROVE Score[c] >= Score[u]
  <2>1. c \in C /\ Place(C, c) < Limit /\ Place(C, c) \in Int /\ Place(C, u) \in Int
    BY <1>1, <1>3, <1>4
  <2>2. ~Better(u, c) /\ c # u
    BY <1>1, <1>2, <1>5, <2>1
  <2>3. QED
    BY <2>1, <2>2, BetterOrder
<1>13. QED
  BY <1>11, <1>12

\* The query finds whoever is listed, asked for and not excluded, or so many
\* fresher ones.
LEMMA Fresher ==
  ASSUME NEW S \in SUBSET User, NEW u \in S \ Taken(S), TypeOK
  PROVE  Cardinality({v \in User : rank[v] < rank[u]}) >= 3 * Limit
<1> DEFINE found == {v \in S : rank[v] < rank[u]}
           all == {v \in User : rank[v] < rank[u]}
<1>1. ~(Cardinality(found) < 3 * Limit)
  BY DEF Taken
<1>2. IsFiniteSet(all)
  BY Smaller, DiscoveryAssumption
<1>3. found \subseteq all
  OBVIOUS
<1>4. Cardinality(found) \in Nat /\ Cardinality(all) \in Nat /\ Cardinality(found) <= Cardinality(all)
  BY <1>2, <1>3, Smaller
<1>5. Limit \in Nat
  BY DiscoveryAssumption
<1>6. QED
  BY <1>1, <1>4, <1>5

\* Only the answer of the query brings cards.
LEMMA OnlyFind ==
  ASSUME TypeOK, [Next]_vars, page.pc = "find", page'.pc = "answer"
  PROVE  FindCandidates
<1>1. page \in Loading
  BY PageTypes
<1>2. ASSUME UNCHANGED page PROVE FALSE
  BY <1>2
<1>3. ASSUME NEW found, NEW asked, Note(found, asked) PROVE FALSE
  BY <1>3, NoteTypes
<1>4. QED
  BY <1>1, <1>2, <1>3, DiscoveryAssumption DEF Next, Load, Open, ReadRemaining, ReadOwnProfile,
     ReadSwiped, ReadBlocked, ReadBlocking, Read, Answer, Leave, EditOwn, NextDay, Swipe, Step,
     ReadTarget, CheckQuota, Charge, PutLike,
     EditProfile, BanUser, UnbanUser, BlockMe, Block, vars

LEMMA FindShowsBest ==
  ASSUME TypeOK, RankInjective, page.exclude \subseteq Barred, FindCandidates,
         NEW u \in (Near \cap Asked) \ (Barred \cup page'.cards)
  PROVE  \/ /\ Cardinality(page'.cards) = Limit
            /\ \A c \in page'.cards : Score[c] >= Score[u]
         \/ Cardinality({v \in User : rank[v] < rank[u]}) >= 3 * Limit
<1> DEFINE S == Asked \ page.exclude
           C == Taken(S) \cap Near
<1>1. page'.cards = Best(C)
  BY DEF FindCandidates
<1>2. S \subseteq User /\ C \subseteq User /\ u \in S
  BY DEF Asked, Listed, TypeOK, Taken
<1>3. CASE u \in Taken(S)
  <2>1. u \in C \ Best(C)
    BY <1>1, <1>3
  <2>2. QED
    BY <1>1, <1>2, <2>1, FullPage
<1>4. CASE u \notin Taken(S)
  BY <1>2, <1>4, Fresher
<1>5. QED
  BY <1>3, <1>4

(* A nearby user who suits and is not shown gives way to a full page of    *)
(* users who suit at least as well, or stands behind 3 * Limit fresher     *)
(* profiles, whatever limit, scores and order there are.                   *)
THEOREM BestAreShownHolds == Spec => BestAreShown
<1>1. Init => RankInjective
  BY DiscoveryAssumption DEF Init, RankInjective
<1>2. OutInv /\ RankInjective /\ [Next]_vars => RankInjective'
  BY NextRankInjective DEF OutInv
<1>3. ASSUME OutInv, RankInjective, [Next]_vars, page.pc = "find", page'.pc = "answer",
             NEW u \in (Near \cap Asked) \ (Barred \cup page'.cards)
      PROVE  \/ /\ Cardinality(page'.cards) = Limit
                /\ \A c \in page'.cards : Score[c] >= Score[u]
             \/ Cardinality({v \in User : rank[v] < rank[u]}) >= 3 * Limit
  <2>1. page.exclude \subseteq Barred
    BY <1>3 DEF OutInv, ExclusionInv, IsLoading
  <2>2. FindCandidates /\ TypeOK
    BY <1>3, OnlyFind DEF OutInv
  <2>3. QED
    BY <1>3, <2>1, <2>2, FindShowsBest
<1>4. OutInv /\ RankInjective /\ [Next]_vars =>
        [page.pc = "find" /\ page'.pc = "answer" =>
           \A u \in (Near \cap Asked) \ (Barred \cup page'.cards) :
             \/ /\ Cardinality(page'.cards) = Limit
                /\ \A c \in page'.cards : Score[c] >= Score[u]
             \/ Cardinality({v \in User : rank[v] < rank[u]}) >= 3 * Limit]_vars
  BY <1>3
<1>5. QED
  BY <1>1, <1>2, <1>4, OutInvHolds, PTL DEF Spec, BestAreShown

=============================================================================
