------------------------------- MODULE Messages -------------------------------
(***************************************************************************)
(* Sending a message: MessagesService.sendMessage as REST and the socket   *)
(* gateway call it, against the Match, BlockedUser, DailyUsage and Message *)
(* tables that other requests change meanwhile.                            *)
(*                                                                         *)
(* As in Matching, an action is one database statement of a request held   *)
(* in a slot of Req, with the code up to the next one.                     *)
(***************************************************************************)
EXTENDS Integers, FiniteSets

CONSTANTS
  User,
  Match,          \* ids of match rows
  Participants,   \* the two users of each
  Req,            \* slots for requests in flight
  Male,           \* the users whose profile says MALE
  Payer,          \* the users who may hold an active subscription
  FreeDailyNewChats,  \* FREE_DAILY_NEW_CHAT_MESSAGES
  LastDay,        \* bound: the clock stops at this UTC day
  MaxSent,        \* bound: no send starts past this many messages of a user in a match
  Bannable,       \* the users an administrator may ban and unban
  Sockets,        \* the users who connect to the socket gateway
  Swipers,        \* the users who also swipe
  Closable        \* the matches that are unmatched, made again or blocked

Day == 0 .. LastDay

ASSUME MessagesAssumption ==
  /\ Participants \in [Match -> SUBSET User]
  /\ IsFiniteSet(Req)
  /\ Male \subseteq User /\ Payer \subseteq User /\ Bannable \subseteq User
  /\ Sockets \subseteq User /\ Swipers \subseteq User /\ Closable \subseteq Match
  /\ FreeDailyNewChats \in Nat \ {0}
  /\ LastDay \in Nat /\ MaxSent \in Nat

VARIABLES
  banned,   \* the users whose status is not ACTIVE
  online,   \* the users with an authorised socket
  active,   \* Match.isActive
  blocked,  \* the matches between whose users a BlockedUser row stands
  rows,     \* the <<user, day>> with a DailyUsage row
  usage,    \* its newChatMsgCount
  sent,     \* how many messages of a user the match holds
  day,      \* the UTC day
  req       \* the requests in flight

accounts == <<banned, online>>
pairs == <<active, blocked>>
quota == <<rows, usage>>
vars == <<accounts, pairs, quota, sent, day, req>>

Idle == [pc |-> "idle"]
SendRequest ==
  [pc : {"match", "blocked", "profile", "count", "quota", "charge", "create"},
   from : User, match : Match,
   today : Day]  \* the day whose row the quota check reads

TypeOK ==
  /\ banned \subseteq User /\ online \subseteq User
  /\ active \in [Match -> BOOLEAN]
  /\ blocked \subseteq Match
  /\ rows \subseteq User \X Day
  /\ usage \in [User -> [Day -> Nat]]
  /\ sent \in [Match -> [User -> Nat]]
  /\ day \in Day
  /\ req \in [Req -> {Idle} \cup SendRequest]

Init ==
  /\ banned = {} /\ online = {}
  /\ active = [m \in Match |-> TRUE]
  /\ blocked = {}
  /\ rows = {}
  /\ usage = [u \in User |-> [d \in Day |-> 0]]
  /\ sent = [m \in Match |-> [u \in User |-> 0]]
  /\ day = 0
  /\ req = [r \in Req |-> Idle]

-----------------------------------------------------------------------------
(* What other components do meanwhile.                                     *)

BanUser(u) ==
  /\ u \notin banned
  /\ banned' = banned \cup {u}
  /\ UNCHANGED <<online, pairs, quota, sent, day, req>>

UnbanUser(u) ==
  /\ u \in banned
  /\ banned' = banned \ {u}
  /\ UNCHANGED <<online, pairs, quota, sent, day, req>>

\* mutant of Connect: nobody asks for the status of the account
ConnectAnyone(u) ==
  /\ u \notin online
  /\ online' = online \cup {u}
  /\ UNCHANGED <<banned, pairs, quota, sent, day, req>>

\* handleConnection looks at the status of the account, this once.
Connect(u) ==
  /\ u \notin banned /\ u \notin online
  /\ online' = online \cup {u}
  /\ UNCHANGED <<banned, pairs, quota, sent, day, req>>

Disconnect(u) ==
  /\ u \in online
  /\ online' = online \ {u}
  /\ UNCHANGED <<banned, pairs, quota, sent, day, req>>

Unmatch(m) ==
  /\ active[m]
  /\ active' = [active EXCEPT ![m] = FALSE]
  /\ UNCHANGED <<accounts, blocked, quota, sent, day, req>>

\* A new swipe makes an old match active again (Matching), even past a block
\* that overtook createMatch.
Rematch(m) ==
  /\ ~active[m]
  /\ active' = [active EXCEPT ![m] = TRUE]
  /\ UNCHANGED <<accounts, blocked, quota, sent, day, req>>

Block(m) ==
  /\ m \notin blocked
  /\ blocked' = blocked \cup {m}
  /\ active' = [active EXCEPT ![m] = FALSE]
  /\ UNCHANGED <<accounts, quota, sent, day, req>>

\* A swipe creates the day's row too.
CountSwipe(u) ==
  /\ <<u, day>> \notin rows
  /\ rows' = rows \cup {<<u, day>>}
  /\ UNCHANGED <<accounts, pairs, usage, sent, day, req>>

NextDay ==
  /\ day < LastDay
  /\ day' = day + 1
  /\ UNCHANGED <<accounts, pairs, quota, sent, req>>

-----------------------------------------------------------------------------
(* MessagesService.sendMessage                                             *)

Put(r, request) == req' = [req EXCEPT ![r] = request]
Finish(r) == Put(r, Idle)
Goto(r, pc) == Put(r, [req[r] EXCEPT !.pc = pc])

\* REST asks for the status with every request, the socket does not.
Begin(r) ==
  \E m \in Match : \E u \in Participants[m] :
    /\ req[r].pc = "idle"
    /\ sent[m][u] < MaxSent
    /\ u \notin banned \/ u \in online
    /\ Put(r, [pc |-> "match", from |-> u, match |-> m, today |-> 0])
    /\ UNCHANGED <<accounts, pairs, quota, sent, day>>

AssertParticipant(r) ==
  /\ req[r].pc = "match"
  /\ IF active[req[r].match] THEN Goto(r, "blocked") ELSE Finish(r)
  /\ UNCHANGED <<accounts, pairs, quota, sent, day>>

\* mutant of CheckBlocked: trusts the match row alone
CheckBlockedSkipped(r) ==
  /\ req[r].pc = "blocked"
  /\ Goto(r, "profile")
  /\ UNCHANGED <<accounts, pairs, quota, sent, day>>

CheckBlocked(r) ==
  /\ req[r].pc = "blocked"
  /\ IF req[r].match \in blocked THEN Finish(r) ELSE Goto(r, "profile")
  /\ UNCHANGED <<accounts, pairs, quota, sent, day>>

\* Only a man without a subscription is counted.
ReadProfile(r) ==
  \E premium \in BOOLEAN :
    /\ req[r].pc = "profile"
    /\ premium => req[r].from \in Payer
    /\ Goto(r, IF req[r].from \in Male /\ ~premium THEN "count" ELSE "create")
    /\ UNCHANGED <<accounts, pairs, quota, sent, day>>

\* mutant of CountPrior: a message of either user starts the conversation
CountPriorAny(r) ==
  /\ req[r].pc = "count"
  /\ IF \A u \in User : sent[req[r].match][u] = 0
     THEN Put(r, [req[r] EXCEPT !.pc = "quota", !.today = day]) ELSE Goto(r, "create")
  /\ UNCHANGED <<accounts, pairs, quota, sent, day>>

\* The answer is followed by todayUtc().
CountPrior(r) ==
  /\ req[r].pc = "count"
  /\ IF sent[req[r].match][req[r].from] = 0
     THEN Put(r, [req[r] EXCEPT !.pc = "quota", !.today = day]) ELSE Goto(r, "create")
  /\ UNCHANGED <<accounts, pairs, quota, sent, day>>

\* mutant of CheckQuota: the limit is off by one
CheckQuotaAtLimit(r) ==
  LET u == req[r].from
      d == req[r].today
  IN /\ req[r].pc = "quota"
     /\ rows' = rows \cup {<<u, d>>}
     /\ IF usage[u][d] > FreeDailyNewChats THEN Finish(r)
        ELSE Goto(r, "charge")
     /\ UNCHANGED <<accounts, pairs, usage, sent, day>>

\* dailyUsage.upsert creates the day's row if it is missing.
CheckQuota(r) ==
  LET u == req[r].from
      d == req[r].today
  IN /\ req[r].pc = "quota"
     /\ rows' = rows \cup {<<u, d>>}
     /\ IF usage[u][d] >= FreeDailyNewChats THEN Finish(r)
        ELSE Goto(r, "charge")
     /\ UNCHANGED <<accounts, pairs, usage, sent, day>>

\* mutant of Charge: the counter goes the other way
ChargeDown(r) ==
  \E d \in Day :
    /\ req[r].pc = "charge"
    /\ req[r].today <= d /\ d <= day
    /\ usage' = [usage EXCEPT ![req[r].from][d] = @ - 1]
    /\ Goto(r, "create")
    /\ UNCHANGED <<accounts, pairs, rows, sent, day>>

\* The day is taken again, at some moment since the check; dailyUsage.update
\* fails when that day has no row.
Charge(r) ==
  \E d \in Day :
    /\ req[r].pc = "charge"
    /\ req[r].today <= d /\ d <= day
    /\ IF <<req[r].from, d>> \in rows
       THEN usage' = [usage EXCEPT ![req[r].from][d] = @ + 1] /\ Goto(r, "create")
       ELSE Finish(r) /\ UNCHANGED usage
    /\ UNCHANGED <<accounts, pairs, rows, sent, day>>

\* message.create; the notification that follows changes nothing.
CreateMessage(r) ==
  /\ req[r].pc = "create"
  /\ sent' = [sent EXCEPT ![req[r].match][req[r].from] = @ + 1]
  /\ Finish(r)
  /\ UNCHANGED <<accounts, pairs, quota, day>>

(* The process dies: the requests and sockets are lost.                    *)
Crash ==
  /\ online # {} \/ \E r \in Req : req[r] # Idle
  /\ online' = {}
  /\ req' = [r \in Req |-> Idle]
  /\ UNCHANGED <<banned, pairs, quota, sent, day>>

-----------------------------------------------------------------------------
Step(r) ==
  \/ AssertParticipant(r) \/ CheckBlocked(r) \/ ReadProfile(r) \/ CountPrior(r)
  \/ CheckQuota(r) \/ Charge(r) \/ CreateMessage(r)

Next ==
  \/ \E r \in Req : Begin(r) \/ Step(r)
  \/ \E u \in Sockets : Connect(u) \/ Disconnect(u)
  \/ \E u \in Swipers : CountSwipe(u)
  \/ \E u \in Bannable : BanUser(u) \/ UnbanUser(u)
  \/ \E m \in Closable : Unmatch(m) \/ Rematch(m) \/ Block(m)
  \/ NextDay
  \/ Crash

Spec == Init /\ [][Next]_vars

-----------------------------------------------------------------------------
(* Properties.                                                             *)

(* The conversation is closed: a block stands, and whoever is sending has  *)
(* yet to ask for it.                                                      *)
Closed(m) ==
  /\ m \in blocked
  /\ \A r \in Req :
       req[r].pc # "idle" /\ req[r].match = m => req[r].pc \in {"match", "blocked"}

(* A closed conversation stays closed and gets no further message, even if *)
(* a swipe that raced the block has made the match active again: the match *)
(* row alone would let messages through, sendMessage asks for the block.   *)
ClosedForEver == [][\A m \in Match : Closed(m) => Closed(m)' /\ sent'[m] = sent[m]]_vars

\* A ban has taken hold of u: no socket from before it is left, and no request.
Silenced(u) ==
  /\ u \in banned \ online
  /\ \A r \in Req : req[r].pc # "idle" => req[r].from # u

(* A ban ends what an account can say, for as long as it stands: only a    *)
(* socket that was open before, whose status nobody looks at again, and    *)
(* requests already let in may outlive it.                                 *)
BanTakesHold ==
  [][\A u \in User :
       Silenced(u) => /\ u \notin banned' \/ Silenced(u)'
                      /\ \A m \in Match : sent'[m][u] = sent[m][u]]_vars

\* The requests that may yet charge u for the day d, without a look at the
\* count of that day: it is d's row they have read, or midnight has passed.
Charging(u, d) ==
  {r \in Req : /\ \/ req[r].pc = "charge" /\ req[r].today <= d
                  \/ req[r].pc = "quota" /\ req[r].today < d
               /\ req[r].from = u}

(* How far check and increment of the quota let a user pass the limit: by  *)
(* one conversation less than the requests in flight.  A request checked   *)
(* before midnight may be charged to the new day, and counts there too.    *)
NewChatBudget ==
  \A u \in User, d \in Day :
    usage[u][d] + Cardinality(Charging(u, d)) <= FreeDailyNewChats + Cardinality(Req) - 1

(* A man who never pays was charged for every conversation he has written  *)
(* in, whoever wrote first.                                                *)
Chats(u) == {m \in Match : sent[m][u] > 0}
Charges(u) == UNION {{d} \X (1 .. usage[u][d]) : d \in Day}  \* each charge to u
NewChatsPaidFor == \A u \in Male \ Payer : Cardinality(Chats(u)) <= Cardinality(Charges(u))
=============================================================================
