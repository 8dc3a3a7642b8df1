---------------------------- MODULE MessagesProofs ----------------------------
(***************************************************************************)
(* Theorems about Messages, for any users, matches, limit and number of    *)
(* requests in flight.                                                     *)
(***************************************************************************)
EXTENDS Messages, FiniteSetTheorems, TLAPS

LEMMA SlotTypes ==
  ASSUME TypeOK, NEW r \in Req
  PROVE  /\ req[r].pc = "idle" <=> req[r] = Idle
         /\ req[r].pc # "idle" => req[r] \in SendRequest
<1>1. req[r] = Idle \/ req[r] \in SendRequest
  BY DEF TypeOK
<1>2. CASE req[r] = Idle
  BY <1>2 DEF Idle
<1>3. CASE req[r] \in SendRequest
  BY <1>3 DEF SendRequest, Idle
<1>4. QED
  BY <1>1, <1>2, <1>3

\* A step of a request changes that request only; it goes on with the same
\* message, to a stage after its check of the block only by passing it.
StepOnly(r) ==
  /\ UNCHANGED <<accounts, pairs, day>>
  /\ req[r] \in SendRequest
  /\ \A s \in Req \ {r} : req'[s] = req[s]
  /\ \/ req'[r] = Idle
     \/ /\ req'[r] \in SendRequest
        /\ req'[r].from = req[r].from /\ req'[r].match = req[r].match
        /\ req'[r].pc = "blocked" \/ req[r].pc \notin {"match", "blocked"}
             \/ req[r].match \notin blocked
  /\ req'[r].pc = "charge" => CheckQuota(r)
  /\ req'[r].pc = "quota" => req'[r].today = day

LEMMA StepShape ==
  ASSUME TypeOK, NEW r \in Req, Step(r)
  PROVE  StepOnly(r)
<1> USE DEF TypeOK, StepOnly, Put, Goto, Finish
<1>1. req[r] \in SendRequest
  BY SlotTypes DEF Step, AssertParticipant, CheckBlocked, ReadProfile, CountPrior, CheckQuota,
     Charge, CreateMessage
<1>2. CASE AssertParticipant(r)
  BY <1>1, <1>2 DEF AssertParticipant, SendRequest, Idle
<1>3. CASE CheckBlocked(r)
  BY <1>1, <1>3 DEF CheckBlocked, SendRequest, Idle
<1>4. CASE ReadProfile(r)
  BY <1>1, <1>4 DEF ReadProfile, SendRequest
<1>5. CASE CountPrior(r)
  <2>1. /\ UNCHANGED <<accounts, pairs, day>> /\ req[r].pc = "count" /\ day \in Day
        /\ \/ req' = [req EXCEPT ![r] = [req[r] EXCEPT !.pc = "quota", !.today = day]]
           \/ req' = [req EXCEPT ![r] = [req[r] EXCEPT !.pc = "create"]]
    BY <1>5 DEF CountPrior
  <2>2. /\ \A s \in Req \ {r} : req'[s] = req[s]
        /\ req'[r].pc \in {"quota", "create"} /\ req'[r] \in SendRequest
        /\ req'[r].from = req[r].from /\ req'[r].match = req[r].match
        /\ req'[r].pc = "quota" => req'[r].today = day
    <3>1. CASE req' = [req EXCEPT ![r] = [req[r] EXCEPT !.pc = "quota", !.today = day]]
      <4>1. req'[r] = [req[r] EXCEPT !.pc = "quota", !.today = day]
        BY <3>1
      <4>2. \A s \in Req \ {r} : req'[s] = req[s]
        BY <3>1
      <4>3. QED
        BY <1>1, <2>1, <4>1, <4>2 DEF SendRequest
    <3>2. CASE req' = [req EXCEPT ![r] = [req[r] EXCEPT !.pc = "create"]]
      BY <1>1, <2>1, <3>2 DEF SendRequest
    <3>3. QED
      BY <2>1, <3>1, <3>2
  <2>3. QED
    BY <1>1, <2>1, <2>2
<1>6. CASE CheckQuota(r)
  <2>1. /\ UNCHANGED <<accounts, pairs, day>> /\ req[r].pc = "quota"
        /\ \/ req' = [req EXCEPT ![r] = Idle]
           \/ req' = [req EXCEPT ![r] = [req[r] EXCEPT !.pc = "charge"]]
    BY <1>6 DEF CheckQuota
  <2>2. CASE req' = [req EXCEPT ![r] = Idle]
    <3>1. req'[r] = Idle /\ \A s \in Req \ {r} : req'[s] = req[s]
      BY <2>2
    <3>2. QED
      BY <1>1, <2>1, <3>1 DEF Idle
  <2>3. CASE req' = [req EXCEPT ![r] = [req[r] EXCEPT !.pc = "charge"]]
    <3>1. /\ req'[r] \in SendRequest /\ req'[r].pc = "charge"
          /\ req'[r].from = req[r].from /\ req'[r].match = req[r].match
          /\ \A s \in Req \ {r} : req'[s] = req[s]
      BY <1>1, <2>3 DEF SendRequest
    <3>2. QED
      BY <1>1, <1>6, <2>1, <3>1
  <2>4. QED
    BY <2>1, <2>2, <2>3
<1>7. CASE Charge(r)
  <2>1. /\ UNCHANGED <<accounts, pairs, day>> /\ req[r].pc = "charge"
        /\ \/ req' = [req EXCEPT ![r] = Idle]
           \/ req' = [req EXCEPT ![r] = [req[r] EXCEPT !.pc = "create"]]
    BY <1>7 DEF Charge
  <2>2. CASE req' = [req EXCEPT ![r] = Idle]
    <3>1. req'[r] = Idle /\ \A s \in Req \ {r} : req'[s] = req[s]
      BY <2>2
    <3>2. QED
      BY <1>1, <2>1, <3>1 DEF Idle
  <2>3. CASE req' = [req EXCEPT ![r] = [req[r] EXCEPT !.pc = "create"]]
    <3>1. /\ req'[r] \in SendRequest /\ req'[r].pc = "create"
          /\ req'[r].from = req[r].from /\ req'[r].match = req[r].match
          /\ \A s \in Req \ {r} : req'[s] = req[s]
      BY <1>1, <2>3 DEF SendRequest
    <3>2. QED
      BY <1>1, <2>1, <3>1
  <2>4. QED
    BY <2>1, <2>2, <2>3
<1>8. CASE CreateMessage(r)
  BY <1>1, <1>8 DEF CreateMessage, Idle
<1>9. QED
  BY <1>2, <1>3, <1>4, <1>5, <1>6, <1>7, <1>8 DEF Step

LEMMA InitTypeOK == Init => TypeOK
BY MessagesAssumption DEF Init, TypeOK, Day

LEMMA NextTypeOK ==
  ASSUME TypeOK, [Next]_vars
  PROVE  TypeOK'
<1> USE MessagesAssumption DEF TypeOK, accounts, pairs, quota
<1>1. ASSUME NEW r \in Req, Begin(r) PROVE TypeOK'
  <2>1. PICK m \in Match, u \in User :
          req' = [req EXCEPT ![r] = [pc |-> "match", from |-> u, match |-> m, today |-> 0]]
    BY <1>1 DEF Begin, Put
  <2>2. [pc |-> "match", from |-> u, match |-> m, today |-> 0] \in SendRequest
    BY <2>1 DEF SendRequest, Day
  <2>3. QED
    BY <1>1, <2>1, <2>2 DEF Begin
<1>2. ASSUME NEW r \in Req, Step(r) PROVE TypeOK'
  <2>1. StepOnly(r)
    BY <1>2, StepShape
  <2>2. DOMAIN req' = Req /\ req' = [s \in Req |-> req'[s]]
    BY <1>2 DEF Step, AssertParticipant, CheckBlocked, ReadProfile, CountPrior, CheckQuota,
       Charge, CreateMessage, Put, Goto, Finish
  <2>3. req' \in [Req -> {Idle} \cup SendRequest]
    BY <2>1, <2>2 DEF StepOnly
  <2>4. CASE CheckQuota(r)
    BY <2>1, <2>3, <2>4 DEF StepOnly, CheckQuota, SendRequest
  <2>5. CASE Charge(r)
    <3>1. PICK d \in Day :
            \/ usage' = [usage EXCEPT ![req[r].from] = [usage[req[r].from] EXCEPT ![d] = usage[req[r].from][d] + 1]]
            \/ usage' = usage
      BY <2>5 DEF Charge
    <3>2. UNCHANGED <<rows, sent>> /\ req[r].from \in User
      BY <2>1, <2>5 DEF Charge, StepOnly, SendRequest
    <3>3. usage' \in [User -> [Day -> Nat]]
      <4>1. usage[req[r].from] \in [Day -> Nat]
        BY <3>2
      <4>2. [usage[req[r].from] EXCEPT ![d] = usage[req[r].from][d] + 1] \in [Day -> Nat]
        BY <4>1
      <4>3. QED
        BY <3>1, <3>2, <4>2
    <3>4. QED
      BY <2>1, <2>3, <3>2, <3>3 DEF StepOnly
  <2>6. CASE CreateMessage(r)
    BY <2>1, <2>3, <2>6 DEF StepOnly, CreateMessage, SendRequest
  <2>7. CASE AssertParticipant(r) \/ CheckBlocked(r) \/ ReadProfile(r) \/ CountPrior(r)
    BY <2>1, <2>3, <2>7 DEF StepOnly, AssertParticipant, CheckBlocked, ReadProfile, CountPrior
  <2>8. QED
    BY <1>2, <2>4, <2>5, <2>6, <2>7 DEF Step
<1>3. ASSUME NEW u \in User, Connect(u) \/ Disconnect(u) \/ CountSwipe(u) \/ BanUser(u) \/ UnbanUser(u)
      PROVE  TypeOK'
  BY <1>3 DEF Connect, Disconnect, CountSwipe, BanUser, UnbanUser
<1>4. ASSUME NEW m \in Match, Unmatch(m) \/ Rematch(m) \/ Block(m) PROVE TypeOK'
  BY <1>4 DEF Unmatch, Rematch, Block
<1>5. CASE NextDay \/ Crash
  BY <1>5 DEF NextDay, Crash, Day
<1>6. CASE UNCHANGED vars
  BY <1>6 DEF vars
<1>7. QED
  BY <1>1, <1>2, <1>3, <1>4, <1>5, <1>6 DEF Next

(* Every variable keeps its type, crashes included.                        *)
THEOREM TypeCorrect == Spec => []TypeOK
BY InitTypeOK, NextTypeOK, PTL DEF Spec

-----------------------------------------------------------------------------
(* What the other actions leave to a request.                              *)

Quiet(r) ==
  \/ req'[r] = req[r]
  \/ req'[r] = Idle
  \/ req[r] = Idle /\ req'[r].pc = "match" /\ req'[r] \in SendRequest

LEMMA OthersQuiet ==
  ASSUME TypeOK, [Next]_vars, ~ \E r \in Req : Step(r)
  PROVE  /\ \A r \in Req : Quiet(r)
         /\ UNCHANGED <<usage, sent>>
         /\ rows \subseteq rows' /\ blocked \subseteq blocked'
         /\ day' = day \/ (day' = day + 1 /\ UNCHANGED rows)
<1> USE MessagesAssumption DEF TypeOK, Quiet, accounts, pairs, quota
<1>1. ASSUME NEW r \in Req, Begin(r)
      PROVE  \A s \in Req : Quiet(s)
  <2>1. PICK m \in Match, u \in User :
          req' = [req EXCEPT ![r] = [pc |-> "match", from |-> u, match |-> m, today |-> 0]]
    BY <1>1 DEF Begin, Put
  <2>2. [pc |-> "match", from |-> u, match |-> m, today |-> 0] \in SendRequest
    BY <2>1 DEF SendRequest, Day
  <2>3. req[r] = Idle
    BY <1>1, SlotTypes DEF Begin
  <2>4. QED
    BY <2>1, <2>2, <2>3
<1>2. CASE \E r \in Req : Begin(r)
  BY <1>1, <1>2 DEF Begin
<1>3. CASE \E u \in User : Connect(u) \/ Disconnect(u) \/ CountSwipe(u) \/ BanUser(u) \/ UnbanUser(u)
  BY <1>3 DEF Connect, Disconnect, CountSwipe, BanUser, UnbanUser
<1>4. CASE \E m \in Match : Unmatch(m) \/ Rematch(m) \/ Block(m)
  BY <1>4 DEF Unmatch, Rematch, Block
<1>5. CASE NextDay \/ Crash \/ UNCHANGED vars
  BY <1>5 DEF NextDay, Crash, vars
<1>6. QED
  BY <1>2, <1>3, <1>4, <1>5 DEF Next

(* No message reaches a conversation closed by a block: every way to       *)
(* message.create leads past the check of the block, even when the match   *)
(* row has come back to life.                                              *)
THEOREM ClosedStays == Spec => ClosedForEver
<1>1. ASSUME TypeOK, [Next]_vars, NEW m \in Match, Closed(m)
      PROVE  Closed(m)' /\ sent'[m] = sent[m]
  <2>1. CASE \E r \in Req : Step(r)
    <3>1. PICK r \in Req : Step(r)
      BY <2>1
    <3>2. StepOnly(r)
      BY <1>1, <3>1, StepShape
    <3>3. Closed(m)'
      <4>1. m \in blocked /\ blocked' = blocked
        BY <1>1, <3>2 DEF Closed, StepOnly, pairs
      <4>2. ASSUME NEW s \in Req, req'[s].pc # "idle", req'[s].match = m
            PROVE  req'[s].pc \in {"match", "blocked"}
        <5>1. CASE s # r
          BY <1>1, <3>2, <4>2, <5>1 DEF Closed, StepOnly
        <5>2. CASE s = r
          BY <1>1, <3>2, <4>1, <4>2, <5>2 DEF Closed, StepOnly, Idle, SendRequest
        <5>3. QED
          BY <5>1, <5>2
      <4>3. QED
        BY <4>1, <4>2 DEF Closed
    <3>4. sent'[m] = sent[m]
      <4>1. CASE CreateMessage(r)
        <5>1. req[r].match # m
          BY <1>1, <4>1 DEF CreateMessage, Closed
        <5>2. QED
          BY <1>1, <4>1, <5>1 DEF CreateMessage, TypeOK
      <4>2. CASE ~CreateMessage(r)
        BY <3>1, <4>2 DEF Step, AssertParticipant, CheckBlocked, ReadProfile, CountPrior,
           CheckQuota, Charge
      <4>3. QED
        BY <4>1, <4>2
    <3>5. QED
      BY <3>3, <3>4
  <2>2. CASE ~ \E r \in Req : Step(r)
    BY <1>1, <2>2, OthersQuiet DEF Closed, Quiet, Idle
  <2>3. QED
    BY <2>1, <2>2
<1>2. TypeOK /\ [Next]_vars => [\A m \in Match : Closed(m) => Closed(m)' /\ sent'[m] = sent[m]]_vars
  BY <1>1
<1>3. QED
  BY <1>2, InitTypeOK, NextTypeOK, PTL DEF Spec, ClosedForEver

(* A ban takes hold once the sockets and the requests from before it are   *)
(* gone: then no message of the account is saved, and no socket or request *)
(* of it is let in, until the account is unbanned.                         *)
THEOREM BanHolds == Spec => BanTakesHold
<1>1. ASSUME TypeOK, [Next]_vars, NEW u \in User, Silenced(u)
      PROVE  /\ u \notin banned' \/ Silenced(u)'
             /\ \A m \in Match : sent'[m][u] = sent[m][u]
  <2> USE <1>1 DEF TypeOK, accounts
  <2>1. u \in banned \ online /\ \A r \in Req : req[r].pc # "idle" => req[r].from # u
    BY DEF Silenced
  <2>2. CASE \E r \in Req : Step(r)
    <3>1. PICK r \in Req : Step(r)
      BY <2>2
    <3>2. StepOnly(r)
      BY <3>1, StepShape
    <3>3. req[r].from # u
      BY <2>1, <3>2 DEF StepOnly, SendRequest
    <3>4. ASSUME NEW s \in Req, req'[s].pc # "idle" PROVE req'[s].from # u
      <4>1. CASE s = r
        BY <3>2, <3>3, <3>4, <4>1 DEF StepOnly, Idle
      <4>2. CASE s # r
        BY <2>1, <3>2, <3>4, <4>2 DEF StepOnly
      <4>3. QED
        BY <4>1, <4>2
    <3>5. Silenced(u)'
      BY <2>1, <3>2, <3>4 DEF Silenced, StepOnly
    <3>6. \A m \in Match : sent'[m][u] = sent[m][u]
      <4>1. CASE CreateMessage(r)
        BY <3>3, <4>1 DEF CreateMessage
      <4>2. CASE ~CreateMessage(r)
        BY <3>1, <4>2 DEF Step, AssertParticipant, CheckBlocked, ReadProfile, CountPrior, CheckQuota,
           Charge
      <4>3. QED
        BY <4>1, <4>2
    <3>7. QED
      BY <3>5, <3>6
  <2>3. CASE \E r \in Req : Begin(r)
    <3>1. PICK r \in Req, m \in Match, v \in User :
            /\ v \notin banned \/ v \in online
            /\ req' = [req EXCEPT ![r] = [pc |-> "match", from |-> v, match |-> m, today |-> 0]]
            /\ UNCHANGED <<accounts, sent>>
      BY <2>3, MessagesAssumption DEF Begin, Put
    <3>2. req'[r].from # u /\ \A s \in Req \ {r} : req'[s] = req[s]
      BY <2>1, <3>1
    <3>3. QED
      BY <2>1, <3>1, <3>2 DEF Silenced
  <2>4. ASSUME NEW v \in User, Connect(v) \/ Disconnect(v) \/ CountSwipe(v) \/ BanUser(v) \/ UnbanUser(v)
        PROVE  /\ UNCHANGED <<sent, req>>
               /\ u \in banned' => u \notin online'
    BY <2>1, <2>4 DEF Connect, Disconnect, CountSwipe, BanUser, UnbanUser
  <2>5. CASE \E v \in User : Connect(v) \/ Disconnect(v) \/ CountSwipe(v) \/ BanUser(v) \/ UnbanUser(v)
    BY <2>1, <2>4, <2>5 DEF Silenced
  <2>6. CASE (\E m \in Match : Unmatch(m) \/ Rematch(m) \/ Block(m)) \/ NextDay \/ UNCHANGED vars
    <3>1. UNCHANGED <<banned, online, sent, req>>
      BY <2>6 DEF Unmatch, Rematch, Block, NextDay, vars
    <3>2. QED
      BY <2>1, <3>1 DEF Silenced
  <2>7. CASE Crash
    BY <2>1, <2>7 DEF Crash, Silenced, Idle
  <2>8. QED
    BY <2>2, <2>3, <2>5, <2>6, <2>7, MessagesAssumption DEF Next
<1>2. TypeOK /\ [Next]_vars =>
        [\A u \in User :
           Silenced(u) => /\ u \notin banned' \/ Silenced(u)'
                          /\ \A m \in Match : sent'[m][u] = sent[m][u]]_vars
  BY <1>1
<1>3. QED
  BY <1>2, InitTypeOK, NextTypeOK, PTL DEF Spec, BanTakesHold

-----------------------------------------------------------------------------
(* The quota.  A request about to charge was checked on a day that has     *)
(* come and has a row; nothing is charged to a day that has not come.      *)

\* upsert has created the row an admitted message was checked against, and nothing removes it.
AdmittedHasRow ==
  \A r \in Req : req[r].pc = "charge" => <<req[r].from, req[r].today>> \in rows

QuotaInv ==
  /\ AdmittedHasRow
  /\ \A r \in Req : req[r].pc \in {"quota", "charge"} => req[r].today <= day
  /\ \A u \in User, d \in Day : d > day => usage[u][d] = 0
  /\ NewChatBudget

LEMMA ChargingFinite ==
  ASSUME NEW S \in SUBSET Req
  PROVE  /\ IsFiniteSet(S)
         /\ Cardinality(S) \in Nat /\ Cardinality(Req) \in Nat
         /\ Cardinality(S) <= Cardinality(Req)
BY FS_Subset, FS_CardinalityType, MessagesAssumption

LEMMA ChargingInReq == ASSUME NEW u, NEW d PROVE Charging(u, d) \in SUBSET Req /\ Charging(u, d)' \in SUBSET Req
BY DEF Charging

LEMMA InitQuota == Init => QuotaInv
<1> SUFFICES ASSUME Init PROVE QuotaInv
  OBVIOUS
<1>1. ASSUME NEW u \in User, NEW d \in Day
      PROVE  usage[u][d] + Cardinality(Charging(u, d)) <= FreeDailyNewChats + Cardinality(Req) - 1
  <2>1. Charging(u, d) = {} /\ usage[u][d] = 0
    BY DEF Init, Charging, Idle
  <2>2. QED
    BY <2>1, FS_EmptySet, ChargingInReq, ChargingFinite, MessagesAssumption
<1>2. QED
  BY <1>1 DEF Init, QuotaInv, AdmittedHasRow, NewChatBudget, Idle

\* If nothing is charged and nobody newly waits to charge, except one who has
\* yet to look at the count of this very day, little changes.
LEMMA NoNewCharge ==
  ASSUME TypeOK, TypeOK', QuotaInv, rows \subseteq rows', usage' = usage, day <= day',
         \A r \in Req : req'[r].pc \in {"quota", "charge"} =>
                        \/ req'[r] = req[r]
                        \/ req'[r].pc = "quota" /\ req'[r].today = day
  PROVE  QuotaInv'
<1> USE DEF QuotaInv, TypeOK
<1>1. AdmittedHasRow'
  BY DEF AdmittedHasRow
<1>2. \A r \in Req : req'[r].pc \in {"quota", "charge"} => req'[r].today <= day'
  <2> SUFFICES ASSUME NEW r \in Req, req'[r].pc \in {"quota", "charge"} PROVE req'[r].today <= day'
    OBVIOUS
  <2>1. day \in Int /\ day' \in Int
    BY MessagesAssumption DEF Day
  <2>2. CASE req'[r] = req[r]
    <3>1. req[r].today <= day /\ req[r].today \in Day
      BY <2>2, SlotTypes DEF SendRequest
    <3>2. QED
      BY <2>1, <2>2, <3>1 DEF Day
  <2>3. CASE req'[r].today = day
    BY <2>1, <2>3
  <2>4. QED
    BY <2>2, <2>3
<1>3. \A u \in User, d \in Day : d > day' => usage'[u][d] = 0
  BY DEF Day
<1>4. ASSUME NEW u \in User, NEW d \in Day
      PROVE  usage'[u][d] + Cardinality(Charging(u, d)') <= FreeDailyNewChats + Cardinality(Req) - 1
  <2>1. /\ usage[u][d] \in Nat /\ FreeDailyNewChats \in Nat \ {0} /\ day \in Int /\ d \in Int
        /\ Cardinality(Charging(u, d)') \in Nat /\ Cardinality(Charging(u, d)) \in Nat
        /\ Cardinality(Req) \in Nat /\ Cardinality(Charging(u, d)') <= Cardinality(Req)
    BY ChargingInReq, ChargingFinite, MessagesAssumption DEF Day
  <2>2. CASE d > day
    <3>1. usage[u][d] = 0
      BY <2>2
    <3>2. QED
      BY <2>1, <3>1
  <2>3. CASE ~(d > day)
    <3>1. Charging(u, d)' \subseteq Charging(u, d)
      BY <2>1, <2>3 DEF Charging
    <3>2. Cardinality(Charging(u, d)') <= Cardinality(Charging(u, d))
      BY <3>1, ChargingInReq, ChargingFinite, FS_Subset
    <3>3. usage[u][d] + Cardinality(Charging(u, d)) <= FreeDailyNewChats + Cardinality(Req) - 1
      BY DEF NewChatBudget
    <3>4. QED
      BY <2>1, <3>2, <3>3
  <2>4. QED
    BY <2>2, <2>3
<1>5. QED
  BY <1>1, <1>2, <1>3, <1>4 DEF NewChatBudget

LEMMA Below == \A a, b \in Int : a <= b /\ a # b => a < b
OBVIOUS

LEMMA CheckQuotaInv ==
  ASSUME TypeOK, TypeOK', QuotaInv, NEW r \in Req, CheckQuota(r)
  PROVE  QuotaInv'
<1> DEFINE u == req[r].from
<1> DEFINE e == req[r].today
<1> USE DEF QuotaInv, TypeOK
<1>1. /\ req[r] \in SendRequest /\ u \in User /\ e \in Day /\ req[r].pc = "quota"
      /\ e <= day
  BY SlotTypes DEF CheckQuota, SendRequest
<1>2. /\ rows' = rows \cup {<<u, e>>} /\ UNCHANGED <<usage, day>>
      /\ \/ usage[u][e] >= FreeDailyNewChats /\ req' = [req EXCEPT ![r] = Idle]
         \/ /\ ~(usage[u][e] >= FreeDailyNewChats)
            /\ req' = [req EXCEPT ![r] = [req[r] EXCEPT !.pc = "charge"]]
  BY DEF CheckQuota, Finish, Goto, Put
<1>3. CASE req' = [req EXCEPT ![r] = Idle]
  BY <1>2, <1>3, NoNewCharge DEF Idle, Day
<1>4. CASE /\ ~(usage[u][e] >= FreeDailyNewChats)
           /\ req' = [req EXCEPT ![r] = [req[r] EXCEPT !.pc = "charge"]]
  <2>1. /\ req'[r].from = u /\ req'[r].today = e /\ req'[r].pc = "charge"
        /\ \A s \in Req \ {r} : req'[s] = req[s]
    BY <1>1, <1>4 DEF SendRequest
  <2>2. AdmittedHasRow'
    BY <1>2, <2>1 DEF AdmittedHasRow
  <2>3. \A s \in Req : req'[s].pc \in {"quota", "charge"} => req'[s].today <= day'
    BY <1>1, <1>2, <2>1
  <2>4. ASSUME NEW v \in User, NEW d \in Day
        PROVE  usage[v][d] + Cardinality(Charging(v, d)') <= FreeDailyNewChats + Cardinality(Req) - 1
    <3>1. /\ Cardinality(Charging(v, d)') \in Nat /\ Cardinality(Req) \in Nat
          /\ Cardinality(Charging(v, d)') <= Cardinality(Req)
          /\ usage[v][d] \in Nat /\ FreeDailyNewChats \in Nat \ {0}
      BY ChargingInReq, ChargingFinite, MessagesAssumption
    <3>2. CASE v = u /\ d = e
      BY <1>4, <3>1, <3>2
    <3>3. CASE ~(v = u /\ d = e)
      <4>1. e \in Int /\ d \in Int
        BY <1>1 DEF Day
      <4>2. Charging(v, d)' \subseteq Charging(v, d)
        <5> SUFFICES ASSUME NEW s \in Charging(v, d)' PROVE s \in Charging(v, d)
          OBVIOUS
        <5>1. CASE s = r
          <6>1. v = u /\ e <= d
            BY <2>1, <5>1 DEF Charging
          <6>2. e < d
            <7>1. e # d
              BY <3>3, <6>1
            <7>2. QED
              BY <4>1, <6>1, <7>1, Below
          <6>3. req[r].pc = "quota" /\ req[r].today < d /\ req[r].from = v
            BY <1>1, <6>1, <6>2
          <6>4. QED
            BY <5>1, <6>3 DEF Charging
        <5>2. CASE s # r
          BY <2>1, <5>2 DEF Charging
        <5>3. QED
          BY <5>1, <5>2
      <4>3. Cardinality(Charging(v, d)') <= Cardinality(Charging(v, d))
        BY <4>2, ChargingInReq, ChargingFinite, FS_Subset
      <4>4. usage[v][d] + Cardinality(Charging(v, d)) <= FreeDailyNewChats + Cardinality(Req) - 1
        BY DEF NewChatBudget
      <4>5. Cardinality(Charging(v, d)) \in Nat
        BY ChargingInReq, ChargingFinite
      <4>6. QED
        BY <3>1, <4>3, <4>4, <4>5
    <3>4. QED
      BY <3>2, <3>3
  <2>5. QED
    BY <1>2, <2>2, <2>3, <2>4 DEF NewChatBudget
<1>5. QED
  BY <1>2, <1>3, <1>4

\* A set less one of its elements.
LEMMA RemoveOne ==
  ASSUME NEW S, IsFiniteSet(S), NEW x \in S
  PROVE  Cardinality(S \ {x}) = Cardinality(S) - 1
BY FS_RemoveElement

LEMMA ChargeInv ==
  ASSUME TypeOK, TypeOK', QuotaInv, NEW r \in Req, Charge(r)
  PROVE  QuotaInv'
<1> DEFINE u == req[r].from
<1> USE DEF QuotaInv, TypeOK
<1>1. req[r] \in SendRequest /\ u \in User
  BY SlotTypes DEF Charge, SendRequest
<1>2. PICK d \in Day :
        /\ req[r].pc = "charge" /\ req[r].today <= d /\ d <= day
        /\ UNCHANGED <<rows, day>>
        /\ \/ usage' = [usage EXCEPT ![u][d] = @ + 1] /\ req' = [req EXCEPT ![r] = [req[r] EXCEPT !.pc = "create"]]
           \/ usage' = usage /\ req' = [req EXCEPT ![r] = Idle]
  BY DEF Charge, Goto, Finish, Put
<1>3. CASE usage' = usage /\ req' = [req EXCEPT ![r] = Idle]
  <2>1. req'[r] = Idle /\ \A s \in Req \ {r} : req'[s] = req[s]
    BY <1>1, <1>3
  <2>2. \A s \in Req : req'[s].pc \in {"quota", "charge"} => req'[s] = req[s]
    <3>1. ASSUME NEW s \in Req, req'[s].pc \in {"quota", "charge"}
          PROVE  req'[s] = req[s]
      <4>1. s # r
        BY <2>1, <3>1 DEF Idle
      <4>2. QED
        BY <2>1, <3>1, <4>1
    <3>2. QED
      BY <3>1
  <2>3. UNCHANGED <<rows, usage, day>>
    BY <1>2, <1>3
  <2>4. QED
    BY <2>2, <2>3, NoNewCharge DEF Day
<1>4. CASE usage' = [usage EXCEPT ![u][d] = @ + 1] /\ req' = [req EXCEPT ![r] = [req[r] EXCEPT !.pc = "create"]]
  <2>1. req'[r].pc = "create" /\ \A s \in Req \ {r} : req'[s] = req[s]
    BY <1>1, <1>4 DEF SendRequest
  <2>2. AdmittedHasRow' /\ \A s \in Req : req'[s].pc \in {"quota", "charge"} => req'[s].today <= day'
    BY <1>2, <2>1 DEF AdmittedHasRow
  <2>3. \A v \in User, e \in Day : e > day' => usage'[v][e] = 0
    BY <1>1, <1>2, <1>4 DEF Day
  <2>4. ASSUME NEW v \in User, NEW e \in Day
        PROVE  usage'[v][e] + Cardinality(Charging(v, e)') <= FreeDailyNewChats + Cardinality(Req) - 1
    <3>1. /\ Cardinality(Charging(v, e)') \in Nat /\ Cardinality(Req) \in Nat
          /\ Cardinality(Charging(v, e)) \in Nat /\ IsFiniteSet(Charging(v, e))
          /\ usage[v][e] \in Nat /\ FreeDailyNewChats \in Nat \ {0}
      BY ChargingInReq, ChargingFinite, MessagesAssumption
    <3>2. usage[v][e] + Cardinality(Charging(v, e)) <= FreeDailyNewChats + Cardinality(Req) - 1
      BY DEF NewChatBudget
    <3>3. Charging(v, e)' = Charging(v, e) \ {r}
      BY <2>1 DEF Charging
    <3>4. CASE v = u /\ e = d
      <4>1. r \in Charging(v, e)
        BY <1>2, <3>4 DEF Charging
      <4>2. Cardinality(Charging(v, e)') = Cardinality(Charging(v, e)) - 1
        <5>1. Cardinality(Charging(v, e) \ {r}) = Cardinality(Charging(v, e)) - 1
          BY <3>1, <4>1, RemoveOne
        <5>2. QED
          BY <3>3, <5>1
      <4>3. usage'[v][e] = usage[v][e] + 1
        BY <1>1, <1>4, <3>4
      <4>4. QED
        BY <3>1, <3>2, <4>2, <4>3
    <3>5. CASE ~(v = u /\ e = d)
      <4>1. Cardinality(Charging(v, e)') <= Cardinality(Charging(v, e))
        BY <3>1, <3>3, FS_Subset
      <4>2. usage'[v][e] = usage[v][e]
        BY <1>1, <1>4, <3>5
      <4>3. QED
        BY <3>1, <3>2, <4>1, <4>2
    <3>6. QED
      BY <3>4, <3>5
  <2>5. QED
    BY <2>2, <2>3, <2>4 DEF NewChatBudget
<1>5. QED
  BY <1>2, <1>3, <1>4

LEMMA NextQuota ==
  ASSUME TypeOK, QuotaInv, [Next]_vars
  PROVE  QuotaInv'
<1>1. TypeOK'
  BY NextTypeOK
<1>2. CASE \E r \in Req : Step(r)
  <2>1. PICK r \in Req : Step(r)
    BY <1>2
  <2>2. CASE CheckQuota(r)
    BY <1>1, <2>2, CheckQuotaInv
  <2>3. CASE Charge(r)
    BY <1>1, <2>3, ChargeInv
  <2>4. CASE ~CheckQuota(r) /\ ~Charge(r)
    <3>1. StepOnly(r)
      BY <2>1, StepShape
    <3>2. UNCHANGED <<rows, usage, day>>
      BY <2>1, <2>4, <3>1 DEF StepOnly, Step, AssertParticipant, CheckBlocked, ReadProfile,
         CountPrior, CreateMessage, quota
    <3>3. \A s \in Req : req'[s].pc \in {"quota", "charge"} =>
            req'[s] = req[s] \/ (req'[s].pc = "quota" /\ req'[s].today = day)
      <4>1. req'[r].pc # "charge" /\ (req'[r].pc = "quota" => req'[r].today = day)
        BY <2>4, <3>1 DEF StepOnly
      <4>2. \A s \in Req \ {r} : req'[s] = req[s]
        BY <3>1 DEF StepOnly
      <4>3. ASSUME NEW s \in Req, req'[s].pc \in {"quota", "charge"}
            PROVE  req'[s] = req[s] \/ (req'[s].pc = "quota" /\ req'[s].today = day)
        <5>1. CASE s = r
          BY <4>1, <4>3, <5>1
        <5>2. CASE s # r
          BY <4>2, <4>3, <5>2
        <5>3. QED
          BY <5>1, <5>2
      <4>4. QED
        BY <4>3
    <3>4. QED
      BY <1>1, <3>2, <3>3, NoNewCharge DEF TypeOK, Day
  <2>5. QED
    BY <2>2, <2>3, <2>4
<1>3. CASE ~ \E r \in Req : Step(r)
  <2>1. \A r \in Req : req'[r].pc \in {"quota", "charge"} => req'[r] = req[r]
    BY <1>3, OthersQuiet DEF Quiet, Idle
  <2>2. UNCHANGED usage /\ rows \subseteq rows' /\ day <= day'
    BY <1>3, OthersQuiet DEF TypeOK, Day
  <2>3. QED
    BY <1>1, <2>1, <2>2, NoNewCharge
<1>4. QED
  BY <1>2, <1>3

(* Check and increment are two statements and a midnight can fall between  *)
(* them: still no day is charged for more than the limit plus the requests *)
(* that could be between the two.                                          *)
THEOREM NewChatBudgetKept == Spec => []NewChatBudget
<1>1. QuotaInv => NewChatBudget
  BY DEF QuotaInv
<1>2. QED
  BY <1>1, InitTypeOK, NextTypeOK, InitQuota, NextQuota, PTL DEF Spec

(* The row an admitted message was checked against is there when it is     *)
(* charged: upsert has created it and nothing removes it.                  *)
THEOREM AdmittedHasRowHolds == Spec => []AdmittedHasRow
<1>1. QuotaInv => AdmittedHasRow
  BY DEF QuotaInv
<1>2. QED
  BY <1>1, InitTypeOK, NextTypeOK, InitQuota, NextQuota, PTL DEF Spec

-----------------------------------------------------------------------------
(* What a free man owes.  A request past its charge holds a charge for the *)
(* conversation it opens, until the message is there; two that open the    *)
(* same one were charged twice.                                            *)

Opening(u) == {r \in Req : /\ req[r].pc = "create" /\ req[r].from = u
                           /\ sent[req[r].match][u] = 0}

Paid(u) ==
  /\ IsFiniteSet(Chats(u)) /\ IsFiniteSet(Charges(u))
  /\ Cardinality(Chats(u)) + Cardinality(Opening(u)) <= Cardinality(Charges(u))

PaidInv == TypeOK /\ \A u \in Male \ Payer : Paid(u)

LEMMA NoLarger ==
  ASSUME NEW S, NEW T, IsFiniteSet(T), S \subseteq T
  PROVE  /\ IsFiniteSet(S) /\ Cardinality(S) \in Nat /\ Cardinality(T) \in Nat
         /\ Cardinality(S) <= Cardinality(T)
<1>1. IsFiniteSet(S) /\ Cardinality(S) <= Cardinality(T)
  BY FS_Subset
<1>2. Cardinality(S) \in Nat /\ Cardinality(T) \in Nat
  BY <1>1, FS_CardinalityType
<1>3. QED
  BY <1>1, <1>2

LEMMA OneMore ==
  ASSUME NEW S, IsFiniteSet(S), NEW x
  PROVE  /\ IsFiniteSet(S \cup {x})
         /\ Cardinality(S) \in Nat /\ Cardinality(S \cup {x}) \in Nat
         /\ Cardinality(S \cup {x}) = Cardinality(S) + (IF x \in S THEN 0 ELSE 1)
<1>1. Cardinality(S) \in Nat
  BY FS_CardinalityType
<1>2. CASE x \in S
  <2>1. IsFiniteSet(S \cup {x}) /\ Cardinality(S \cup {x}) = Cardinality(S)
    BY <1>2, FS_AddElement
  <2>2. QED
    BY <1>1, <1>2, <2>1
<1>3. CASE x \notin S
  <2>1. IsFiniteSet(S \cup {x}) /\ Cardinality(S \cup {x}) = Cardinality(S) + 1
    BY <1>3, FS_AddElement
  <2>2. QED
    BY <1>1, <1>3, <2>1
<1>4. QED
  BY <1>2, <1>3

LEMMA OneCharge ==
  ASSUME NEW u, NEW c
  PROVE  /\ c \in Charges(u) <=> \E d \in Day : \E i \in 1 .. usage[u][d] : c = <<d, i>>
         /\ c \in Charges(u)' <=> \E d \in Day : \E i \in 1 .. usage'[u][d] : c = <<d, i>>
BY DEF Charges

\* An increment of the count is one more charge.
LEMMA ChargesGrow ==
  ASSUME TypeOK, NEW u \in User, NEW d \in Day, usage' = [usage EXCEPT ![u][d] = @ + 1]
  PROVE  /\ Charges(u)' = Charges(u) \cup {<<d, usage[u][d] + 1>>}
         /\ <<d, usage[u][d] + 1>> \notin Charges(u)
         /\ \A v \in User \ {u} : Charges(v)' = Charges(v)
<1> DEFINE n == usage[u][d]
<1>1. /\ n \in Nat /\ usage'[u][d] = n + 1
      /\ \A e \in Day \ {d} : usage'[u][e] = usage[u][e]
      /\ \A v \in User \ {u} : usage'[v] = usage[v]
  BY DEF TypeOK
<1>2. \A i : i \in 1 .. (n + 1) <=> i \in 1 .. n \/ i = n + 1
  BY <1>1
<1>3. ASSUME NEW c PROVE c \in Charges(u)' <=> c \in Charges(u) \/ c = <<d, n + 1>>
  <2>1. ASSUME c \in Charges(u)' PROVE c \in Charges(u) \/ c = <<d, n + 1>>
    <3>1. PICK e \in Day : \E i \in 1 .. usage'[u][e] : c = <<e, i>>
      BY <2>1, OneCharge
    <3>2. PICK i \in 1 .. usage'[u][e] : c = <<e, i>>
      BY <3>1
    <3>3. i \in 1 .. usage[u][e] \/ (e = d /\ i = n + 1)
      BY <1>1, <1>2, <3>2
    <3>4. QED
      BY <3>2, <3>3, OneCharge
  <2>2. ASSUME c \in Charges(u) PROVE c \in Charges(u)'
    <3>1. PICK e \in Day : \E i \in 1 .. usage[u][e] : c = <<e, i>>
      BY <2>2, OneCharge
    <3>2. PICK i \in 1 .. usage[u][e] : c = <<e, i>>
      BY <3>1
    <3>3. i \in 1 .. usage'[u][e]
      BY <1>1, <1>2, <3>2
    <3>4. QED
      BY <3>2, <3>3, OneCharge
  <2>3. <<d, n + 1>> \in Charges(u)'
    <3>1. n + 1 \in 1 .. usage'[u][d]
      BY <1>1
    <3>2. QED
      BY <3>1, OneCharge
  <2>4. QED
    BY <2>1, <2>2, <2>3
<1>4. <<d, n + 1>> \notin Charges(u)
  <2>1. ASSUME NEW e \in Day, NEW i \in 1 .. usage[u][e], <<d, n + 1>> = <<e, i>> PROVE FALSE
    <3>1. d = e /\ n + 1 = i
      BY <2>1
    <3>2. n + 1 \in 1 .. n
      BY <3>1
    <3>3. QED
      BY <1>1, <3>2
  <2>2. QED
    BY <2>1, OneCharge
<1>5. ASSUME NEW v \in User \ {u} PROVE Charges(v)' = Charges(v)
  BY <1>1 DEF Charges
<1>6. QED
  BY <1>3, <1>4, <1>5

LEMMA OpeningFinite ==
  ASSUME NEW u
  PROVE  /\ IsFiniteSet(Opening(u)) /\ IsFiniteSet(Opening(u)')
         /\ Cardinality(Opening(u)) \in Nat /\ Cardinality(Opening(u)') \in Nat
<1>1. Opening(u) \subseteq Req /\ Opening(u)' \subseteq Req /\ IsFiniteSet(Req)
  BY MessagesAssumption DEF Opening
<1>2. QED
  BY <1>1, NoLarger

\* Who opens no further conversation and has no further one owes no more.
LEMMA OwesNoMore ==
  ASSUME NEW u, Paid(u), Chats(u)' = Chats(u), Charges(u)' = Charges(u),
         Opening(u)' \subseteq Opening(u)
  PROVE  Paid(u)'
<1>1. IsFiniteSet(Chats(u)) /\ IsFiniteSet(Charges(u))
  BY DEF Paid
<1>2. Cardinality(Chats(u)) \in Nat /\ Cardinality(Charges(u)) \in Nat
  BY <1>1, FS_CardinalityType
<1>3. /\ Cardinality(Opening(u)) \in Nat /\ Cardinality(Opening(u)') \in Nat
      /\ Cardinality(Opening(u)') <= Cardinality(Opening(u))
  BY OpeningFinite, NoLarger
<1>4. Cardinality(Chats(u)) + Cardinality(Opening(u)) <= Cardinality(Charges(u))
  BY DEF Paid
<1>5. Cardinality(Chats(u)') + Cardinality(Opening(u)') <= Cardinality(Charges(u)')
  BY <1>2, <1>3, <1>4
<1>6. QED
  BY <1>1, <1>5 DEF Paid

LEMMA InitPaid == Init => PaidInv
<1> SUFFICES ASSUME Init PROVE PaidInv
  OBVIOUS
<1>1. ASSUME NEW u \in Male \ Payer PROVE Paid(u)
  <2>1. u \in User
    BY MessagesAssumption
  <2>2. Chats(u) = {} /\ Opening(u) = {}
    BY <2>1 DEF Init, Chats, Opening, Idle
  <2>3. \A d \in Day : 1 .. usage[u][d] = {}
    BY <2>1 DEF Init
  <2>4. Charges(u) = {}
    BY <2>3 DEF Charges
  <2>5. IsFiniteSet({}) /\ Cardinality({}) = 0
    BY FS_EmptySet
  <2>6. QED
    BY <2>2, <2>4, <2>5 DEF Paid
<1>2. QED
  BY <1>1, InitTypeOK DEF PaidInv

LEMMA ChargePaid ==
  ASSUME PaidInv, NEW r \in Req, Charge(r), NEW u \in Male \ Payer
  PROVE  Paid(u)'
<1> DEFINE f == req[r].from
<1>1. /\ TypeOK /\ Paid(u) /\ u \in User /\ StepOnly(r) /\ f \in User
  BY StepShape, MessagesAssumption DEF PaidInv, Step, StepOnly, SendRequest
<1>2. UNCHANGED sent /\ Chats(u)' = Chats(u)
  BY DEF Charge, Chats
<1>3. PICK d \in Day :
        \/ usage' = [usage EXCEPT ![f][d] = @ + 1]
        \/ usage' = usage /\ req' = [req EXCEPT ![r] = Idle]
  BY DEF Charge, Finish, Put
<1>4. CASE usage' = usage /\ req' = [req EXCEPT ![r] = Idle]
  <2>1. req'[r].pc = "idle"
    BY <1>1, <1>4 DEF TypeOK, Idle
  <2>2. Opening(u)' \subseteq Opening(u) /\ Charges(u)' = Charges(u)
    BY <1>1, <1>2, <1>4, <2>1 DEF Opening, Charges, StepOnly
  <2>3. QED
    BY <1>1, <1>2, <2>2, OwesNoMore
<1>5. CASE usage' = [usage EXCEPT ![f][d] = @ + 1] /\ u # f
  <2>1. Charges(u)' = Charges(u)
    BY <1>1, <1>5, ChargesGrow
  <2>2. Opening(u)' \subseteq Opening(u)
    BY <1>1, <1>2, <1>5 DEF Opening, StepOnly, Idle
  <2>3. QED
    BY <1>1, <1>2, <2>1, <2>2, OwesNoMore
<1>6. CASE usage' = [usage EXCEPT ![f][d] = @ + 1] /\ u = f
  <2> DEFINE c == <<d, usage[u][d] + 1>>
  <2>1. Charges(u)' = Charges(u) \cup {c} /\ c \notin Charges(u)
    BY <1>1, <1>6, ChargesGrow
  <2> HIDE DEF c
  <2>2. Opening(u)' \subseteq Opening(u) \cup {r}
    BY <1>1, <1>2 DEF Opening, StepOnly
  <2>3. IsFiniteSet(Charges(u)) /\ IsFiniteSet(Chats(u))
    BY <1>1 DEF Paid
  <2>4. /\ IsFiniteSet(Charges(u)') /\ Cardinality(Charges(u)) \in Nat
        /\ Cardinality(Charges(u)') = Cardinality(Charges(u)) + 1
    BY <2>1, <2>3, OneMore
  <2>5. /\ IsFiniteSet(Opening(u) \cup {r})
        /\ Cardinality(Opening(u) \cup {r}) \in Nat /\ Cardinality(Opening(u)) \in Nat
        /\ Cardinality(Opening(u) \cup {r}) <= Cardinality(Opening(u)) + 1
    BY OpeningFinite, OneMore
  <2>6. /\ Cardinality(Opening(u)') \in Nat
        /\ Cardinality(Opening(u)') <= Cardinality(Opening(u) \cup {r})
    BY <2>2, <2>5, NoLarger
  <2>7. Cardinality(Chats(u)) \in Nat
    BY <2>3, FS_CardinalityType
  <2>8. Cardinality(Chats(u)) + Cardinality(Opening(u)) <= Cardinality(Charges(u))
    BY <1>1 DEF Paid
  <2>9. Cardinality(Chats(u)') + Cardinality(Opening(u)') <= Cardinality(Charges(u)')
    BY <1>2, <2>4, <2>5, <2>6, <2>7, <2>8
  <2>10. QED
    BY <1>2, <2>3, <2>4, <2>9 DEF Paid
<1>7. QED
  BY <1>3, <1>4, <1>5, <1>6

LEMMA CreatePaid ==
  ASSUME PaidInv, NEW r \in Req, CreateMessage(r), NEW u \in Male \ Payer
  PROVE  Paid(u)'
<1> DEFINE f == req[r].from
           m == req[r].match
<1>1. /\ TypeOK /\ Paid(u) /\ u \in User /\ StepOnly(r) /\ f \in User /\ m \in Match
  BY StepShape, MessagesAssumption DEF PaidInv, Step, StepOnly, SendRequest
<1>2. Charges(u)' = Charges(u)
  BY DEF CreateMessage, Charges, quota
<1>3. /\ req[r].pc = "create" /\ req'[r] = Idle
      /\ sent' = [sent EXCEPT ![m][f] = @ + 1]
  BY <1>1 DEF CreateMessage, Finish, Put, TypeOK
<1>4. /\ sent[m][f] \in Nat /\ sent'[m][f] = sent[m][f] + 1
      /\ \A n \in Match, v \in User : <<n, v>> # <<m, f>> => sent'[n][v] = sent[n][v]
  BY <1>1, <1>3 DEF TypeOK
<1>5. \A s \in Req : req[s].pc = "create" => req[s].match \in Match /\ req[s].from \in User
  BY <1>1, SlotTypes DEF SendRequest
<1>6. Opening(u)' \subseteq Opening(u) \ {r}
  <2> SUFFICES ASSUME NEW s \in Opening(u)' PROVE s \in Opening(u) /\ s # r
    OBVIOUS
  <2>1. s \in Req /\ req'[s].pc = "create" /\ req'[s].from = u /\ sent'[req'[s].match][u] = 0
    BY DEF Opening
  <2>2. s # r
    BY <1>3, <2>1 DEF Idle
  <2>3. req'[s] = req[s]
    BY <1>1, <2>1, <2>2 DEF StepOnly
  <2>4. req[s].match \in Match /\ req[s].from = u
    BY <1>5, <2>1, <2>3
  <2>5. sent[req[s].match][u] = 0
    <3>1. CASE <<req[s].match, u>> = <<m, f>>
      BY <1>4, <2>1, <2>3, <3>1
    <3>2. CASE <<req[s].match, u>> # <<m, f>>
      BY <1>1, <1>4, <2>1, <2>3, <2>4, <3>2
    <3>3. QED
      BY <3>1, <3>2
  <2>6. QED
    BY <2>1, <2>2, <2>3, <2>5 DEF Opening
<1>7. CASE u # f \/ sent[m][f] > 0
  <2>1. Chats(u)' = Chats(u)
    BY <1>1, <1>4, <1>7 DEF Chats
  <2>2. QED
    BY <1>1, <1>2, <1>6, <2>1, OwesNoMore
<1>8. CASE u = f /\ ~(sent[m][f] > 0)
  <2>1. sent[m][u] = 0
    BY <1>4, <1>8
  <2>2. r \in Opening(u)
    BY <1>3, <1>8, <2>1 DEF Opening
  <2>3. Chats(u)' = Chats(u) \cup {m} /\ m \notin Chats(u)
    BY <1>1, <1>4, <1>8, <2>1 DEF Chats
  <2>4. IsFiniteSet(Chats(u)) /\ IsFiniteSet(Charges(u))
    BY <1>1 DEF Paid
  <2>5. /\ IsFiniteSet(Chats(u)') /\ Cardinality(Chats(u)) \in Nat
        /\ Cardinality(Chats(u)') = Cardinality(Chats(u)) + 1
    <3>1. /\ IsFiniteSet(Chats(u) \cup {m}) /\ Cardinality(Chats(u)) \in Nat
          /\ Cardinality(Chats(u) \cup {m}) = Cardinality(Chats(u)) + IF m \in Chats(u) THEN 0 ELSE 1
      BY <2>4, OneMore
    <3>2. QED
      BY <2>3, <3>1
  <2>6. /\ IsFiniteSet(Opening(u) \ {r}) /\ Cardinality(Opening(u)) \in Nat
        /\ Cardinality(Opening(u) \ {r}) = Cardinality(Opening(u)) - 1
    BY <2>2, OpeningFinite, FS_RemoveElement
  <2>7. /\ Cardinality(Opening(u)') \in Nat
        /\ Cardinality(Opening(u)') <= Cardinality(Opening(u) \ {r})
    BY <1>6, <2>6, NoLarger
  <2>8. Cardinality(Charges(u)) \in Nat
    BY <2>4, FS_CardinalityType
  <2>9. Cardinality(Chats(u)) + Cardinality(Opening(u)) <= Cardinality(Charges(u))
    BY <1>1 DEF Paid
  <2>10. Cardinality(Chats(u)') + Cardinality(Opening(u)') <= Cardinality(Charges(u)')
    BY <1>2, <2>5, <2>6, <2>7, <2>8, <2>9
  <2>11. QED
    BY <1>2, <2>4, <2>5, <2>10 DEF Paid
<1>9. QED
  BY <1>7, <1>8

LEMMA NextPaid ==
  ASSUME PaidInv, [Next]_vars
  PROVE  PaidInv'
<1>1. TypeOK /\ TypeOK'
  BY NextTypeOK DEF PaidInv
<1>2. ASSUME NEW u \in Male \ Payer PROVE Paid(u)'
  <2>1. Paid(u) /\ u \in User
    BY <1>2, MessagesAssumption DEF PaidInv
  <2>2. CASE \E r \in Req : Charge(r) \/ CreateMessage(r)
    BY <2>2, ChargePaid, CreatePaid
  <2>3. CASE \E r \in Req : /\ AssertParticipant(r) \/ CheckBlocked(r) \/ ReadProfile(r)
                                \/ CountPrior(r) \/ CheckQuota(r)
    <3>1. PICK r \in Req : /\ AssertParticipant(r) \/ CheckBlocked(r) \/ ReadProfile(r)
                                \/ CountPrior(r) \/ CheckQuota(r)
      BY <2>3
    <3>2. StepOnly(r) /\ UNCHANGED <<usage, sent>>
      BY <1>1, <3>1, StepShape DEF Step, AssertParticipant, CheckBlocked, ReadProfile, CountPrior,
         CheckQuota, quota
    <3>3. req'[r].pc = "create" /\ req'[r].from = u => sent[req'[r].match][u] # 0
      <4>1. CASE AssertParticipant(r) \/ CheckBlocked(r) \/ CheckQuota(r)
        <5>1. req'[r].pc # "create"
          BY <1>1, <3>2, <4>1 DEF AssertParticipant, CheckBlocked, CheckQuota, Goto, Finish, Put,
             TypeOK, StepOnly, SendRequest, Idle
        <5>2. QED
          BY <5>1
      <4>2. CASE ReadProfile(r)
        <5>1. PICK premium \in BOOLEAN :
                /\ premium => req[r].from \in Payer
                /\ req' = [req EXCEPT ![r] = [req[r] EXCEPT !.pc =
                     IF req[r].from \in Male /\ ~premium THEN "count" ELSE "create"]]
          BY <4>2 DEF ReadProfile, Goto, Put
        <5>2. /\ req'[r].from = req[r].from
              /\ req'[r].pc = IF req[r].from \in Male /\ ~premium THEN "count" ELSE "create"
          BY <1>1, <3>2, <5>1 DEF TypeOK, StepOnly, SendRequest
        <5>3. QED
          BY <1>2, <5>1, <5>2
      <4>3. CASE CountPrior(r)
        <5>1. CASE sent[req[r].match][req[r].from] = 0
          <6>1. req' = [req EXCEPT ![r] = [req[r] EXCEPT !.pc = "quota", !.today = day]]
            BY <4>3, <5>1 DEF CountPrior, Put
          <6>2. req'[r] = [req[r] EXCEPT !.pc = "quota", !.today = day]
            BY <1>1, <6>1 DEF TypeOK
          <6>3. req'[r].pc = "quota"
            BY <3>2, <6>2 DEF StepOnly, SendRequest
          <6>4. QED
            BY <6>3
        <5>2. CASE sent[req[r].match][req[r].from] # 0
          BY <3>2, <5>2 DEF StepOnly, Idle
        <5>3. QED
          BY <5>1, <5>2
      <4>4. QED
        BY <3>1, <4>1, <4>2, <4>3
    <3>4. Chats(u)' = Chats(u) /\ Charges(u)' = Charges(u)
      BY <3>2 DEF Chats, Charges
    <3>5. Opening(u)' \subseteq Opening(u)
      BY <3>2, <3>3 DEF Opening, StepOnly
    <3>6. QED
      BY <2>1, <3>4, <3>5, OwesNoMore
  <2>4. CASE ~ \E r \in Req : Step(r)
    <3>1. UNCHANGED <<usage, sent>> /\ \A r \in Req : Quiet(r)
      BY <1>1, <2>4, OthersQuiet
    <3>2. Chats(u)' = Chats(u) /\ Charges(u)' = Charges(u)
      BY <3>1 DEF Chats, Charges
    <3>3. Opening(u)' \subseteq Opening(u)
      BY <3>1 DEF Opening, Quiet, Idle
    <3>4. QED
      BY <2>1, <3>2, <3>3, OwesNoMore
  <2>5. QED
    BY <2>2, <2>3, <2>4 DEF Step
<1>3. QED
  BY <1>1, <1>2 DEF PaidInv

(* A man who never pays gets no conversation for nothing, however his      *)
(* messages, midnights and crashes interleave: each one he has written in  *)
(* has a charge of its own.                                                *)
THEOREM NewChatsPaidForHolds == Spec => []NewChatsPaidFor
<1>1. ASSUME PaidInv PROVE NewChatsPaidFor
  <2> SUFFICES ASSUME NEW u \in Male \ Payer
               PROVE  Cardinality(Chats(u)) <= Cardinality(Charges(u))
    BY DEF NewChatsPaidFor
  <2>1. Paid(u)
    BY <1>1 DEF PaidInv
  <2>2. Cardinality(Chats(u)) \in Nat /\ Cardinality(Charges(u)) \in Nat
    BY <2>1, FS_CardinalityType DEF Paid
  <2>3. QED
    BY <2>1, <2>2, OpeningFinite DEF Paid
<1>2. QED
  BY <1>1, InitPaid, NextPaid, PTL DEF Spec
=============================================================================
