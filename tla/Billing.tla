------------------------------- MODULE Billing -------------------------------
(***************************************************************************)
(* Buying premium time with TON: PaymentsService, TonVerificationService,  *)
(* SubscriptionsService and its hourly job, with the Transaction and       *)
(* Subscription tables and the merchant's account on the chain.            *)
(*                                                                         *)
(* createOrder hands out a comment and stores nothing, so all the server   *)
(* has of a purchase is what the confirmation reports: a hash, a plan, a   *)
(* wallet and a comment.  The four are independent of each other here, as  *)
(* they are for the server.  As in Matching, an action is one database     *)
(* statement or one call of the chain API of a request held in a slot.     *)
(***************************************************************************)
EXTENDS Integers, FiniteSets

CONSTANTS
  User,
  Plan,
  PlanConfig,  \* days and price of each plan; prices in thousandths of a TON
  Hash, Wallet, Comment,
  NoComment,   \* what extractComment finds in a transfer without a comment
  Transfer,    \* the transfers to the merchant
  Message,     \* comment, source and value of the inMessage of each
  Dtos,        \* what clients report
  Purchases,   \* what the frontend does: a transfer and the report of it
  Req,         \* slots for confirmations in flight
  Deletable,   \* the users an administrator may delete
  LastTime     \* bound: the clock stops here

Dto == [txHash : Hash, plan : Plan, senderAddress : Wallet, orderComment : Comment]

ASSUME BillingAssumption ==
  /\ PlanConfig \in [Plan -> [days : Nat \ {0}, price : Nat]]
  /\ Message \in [Transfer -> [comment : Comment \cup {NoComment}, src : Wallet, value : Nat]]
  /\ NoComment \notin Comment
  /\ Dtos \subseteq Dto
  /\ Purchases \subseteq [buyer : User, transfer : Transfer, dto : Dtos]
  /\ Deletable \subseteq User
  /\ LastTime \in Nat
  /\ IsFiniteSet(Req)

Days(plan) == PlanConfig[plan].days

VARIABLES
  now,     \* the clock, in days
  landed,  \* the transfers the chain shows
  tx,      \* the Transaction row with each tonTxHash
  sub,     \* the Subscription row of that transaction
  gone,    \* the users deleted
  req      \* the confirmations in flight

vars == <<now, landed, tx, sub, gone, req>>

Idle == [pc |-> "idle"]
NoRow == [status |-> "NONE"]
Confirmation ==
  [pc : {"lookup", "verify", "record", "current", "extend", "create"},
   user : User, dto : Dtos,
   amount : Nat,   \* amountTon, once verified
   expires : Nat]  \* the expiry read, then the new one
Transaction ==
  [status : {"CONFIRMED"}, user : User, plan : Plan, wallet : Wallet, amount : Nat]
Subscription ==
  [status : {"ACTIVE", "EXPIRED"}, user : User, plan : Plan, expires : Nat]

TypeOK ==
  /\ now \in Nat
  /\ landed \subseteq Transfer
  /\ tx \in [Hash -> {NoRow} \cup Transaction]
  /\ sub \in [Hash -> {NoRow} \cup Subscription]
  /\ gone \subseteq User
  /\ req \in [Req -> {Idle} \cup Confirmation]

Init ==
  /\ now = 0
  /\ landed = {}
  /\ tx = [h \in Hash |-> NoRow]
  /\ sub = [h \in Hash |-> NoRow]
  /\ gone = {}
  /\ req = [r \in Req |-> Idle]

-----------------------------------------------------------------------------
(* The chain and the clients.                                              *)

Land(t) ==
  /\ t \notin landed
  /\ landed' = landed \cup {t}
  /\ UNCHANGED <<now, tx, sub, gone, req>>

\* A client reports a payment: the frontend once, as soon as it is sent, but
\* nothing stops another report, nor one of a payment that is not there.
Confirm(r, u, dto) ==
  /\ req[r].pc = "idle" /\ u \notin gone
  /\ req' = [req EXCEPT ![r] =
               [pc |-> "lookup", user |-> u, dto |-> dto, amount |-> 0, expires |-> 0]]
  /\ UNCHANGED <<now, landed, tx, sub, gone>>

-----------------------------------------------------------------------------
(* PaymentsService.confirmPayment                                          *)

Put(r, request) == req' = [req EXCEPT ![r] = request]
Finish(r) == Put(r, Idle)
Goto(r, pc) == Put(r, [req[r] EXCEPT !.pc = pc])
HashOf(r) == req[r].dto.txHash

Lookup(r) ==
  /\ req[r].pc = "lookup"
  /\ IF tx[HashOf(r)] # NoRow THEN Finish(r) ELSE Goto(r, "verify")
  /\ UNCHANGED <<now, landed, tx, sub, gone>>

\* 0.001 TON
Tolerance == 1

\* mutant of Verify: the amount is not compared with the price of the plan
VerifyAnyAmount(r) ==
  LET dto == req[r].dto
  IN /\ req[r].pc = "verify"
     /\ \E t \in landed :
          /\ Message[t].comment = dto.orderComment
          /\ Message[t].src = dto.senderAddress
          /\ Put(r, [req[r] EXCEPT !.pc = "record", !.amount = Message[t].value])
     /\ UNCHANGED <<now, landed, tx, sub, gone>>

(* verifyPayment finds the transfer by the comment reported and compares   *)
(* its source and its value.  The hash reported only tells the chain API   *)
(* where to look; the transfer found is not compared with it.              *)
Verify(r) ==
  LET dto == req[r].dto
  IN /\ req[r].pc = "verify"
     /\ \E t \in landed :
          /\ Message[t].comment = dto.orderComment
          /\ Message[t].src = dto.senderAddress
          /\ Message[t].value >= PlanConfig[dto.plan].price - Tolerance
          /\ Put(r, [req[r] EXCEPT !.pc = "record", !.amount = Message[t].value])
     /\ UNCHANGED <<now, landed, tx, sub, gone>>

\* It fails if none is found that way, or if another with the same comment is
\* found first; and it may miss the transfer at any time: the chain API is
\* down, or 20 later transfers have pushed it out of the page that is fetched.
VerifyFails(r) ==
  /\ req[r].pc = "verify"
  /\ Finish(r)
  /\ UNCHANGED <<now, landed, tx, sub, gone>>

Recorded(r) ==
  [status |-> "CONFIRMED", user |-> req[r].user, plan |-> req[r].dto.plan,
   wallet |-> req[r].dto.senderAddress, amount |-> req[r].amount]

\* mutant of Record: the row is written again when it exists
RecordAgain(r) ==
  /\ req[r].pc = "record"
  /\ IF req[r].user \in gone
     THEN Finish(r) /\ UNCHANGED tx
     ELSE tx' = [tx EXCEPT ![HashOf(r)] = Recorded(r)] /\ Goto(r, "current")
  /\ UNCHANGED <<now, landed, sub, gone>>

\* transaction.create fails on the unique tonTxHash or a deleted user.
Record(r) ==
  /\ req[r].pc = "record"
  /\ IF tx[HashOf(r)] # NoRow \/ req[r].user \in gone
     THEN Finish(r) /\ UNCHANGED tx
     ELSE tx' = [tx EXCEPT ![HashOf(r)] = Recorded(r)] /\ Goto(r, "current")
  /\ UNCHANGED <<now, landed, sub, gone>>

-----------------------------------------------------------------------------
(* SubscriptionsService                                                    *)

Rows(u) == {h \in Hash : sub[h] # NoRow /\ sub[h].user = u}
Running(u) == {h \in Rows(u) : sub[h].status = "ACTIVE" /\ sub[h].expires > now}

\* mutant of ReadCurrent: the comparison with the clock is the wrong way round
ReadOutdated(r) ==
  LET over == {h \in Rows(req[r].user) : sub[h].status = "ACTIVE" /\ sub[h].expires <= now}
  IN /\ req[r].pc = "current"
     /\ \/ over = {} /\ Goto(r, "extend")
        \/ \E h \in over :
             /\ \A g \in over : sub[g].expires <= sub[h].expires
             /\ Put(r, [req[r] EXCEPT !.pc = "extend", !.expires = sub[h].expires])
     /\ UNCHANGED <<now, landed, tx, sub, gone>>

(* The latest expiry of the running subscriptions, or none (0).            *)
ReadCurrent(r) ==
  LET running == Running(req[r].user)
  IN /\ req[r].pc = "current"
     /\ \/ running = {} /\ Goto(r, "extend")
        \/ \E h \in running :
             /\ \A g \in running : sub[g].expires <= sub[h].expires
             /\ Put(r, [req[r] EXCEPT !.pc = "extend", !.expires = sub[h].expires])
     /\ UNCHANGED <<now, landed, tx, sub, gone>>

\* mutant of Extend: the days are taken off the base
ExtendBack(r) ==
  LET base == IF req[r].expires > now THEN req[r].expires ELSE now
  IN /\ req[r].pc = "extend"
     /\ Put(r, [req[r] EXCEPT !.pc = "create", !.expires = base - Days(req[r].dto.plan)])
     /\ UNCHANGED <<now, landed, tx, sub, gone>>

(* The clock is read again when the answer arrives.                        *)
Extend(r) ==
  LET base == IF req[r].expires > now THEN req[r].expires ELSE now
  IN /\ req[r].pc = "extend"
     /\ Put(r, [req[r] EXCEPT !.pc = "create", !.expires = base + Days(req[r].dto.plan)])
     /\ UNCHANGED <<now, landed, tx, sub, gone>>

\* mutant of CreateSub: the request that recorded the payment ends here
CreateSubLost(r) ==
  /\ req[r].pc = "create"
  /\ Finish(r)
  /\ UNCHANGED <<now, landed, tx, sub, gone>>

\* subscription.create fails on the unique transactionId or a deleted user,
\* with whom the transaction has gone.
CreateSub(r) ==
  LET h == HashOf(r)
  IN /\ req[r].pc = "create"
     /\ sub' = IF req[r].user \in gone \/ sub[h] # NoRow THEN sub
               ELSE [sub EXCEPT ![h] =
                       [status |-> "ACTIVE", user |-> req[r].user,
                        plan |-> req[r].dto.plan, expires |-> req[r].expires]]
     /\ Finish(r)
     /\ UNCHANGED <<now, landed, tx, gone>>

\* mutant of Outdated: the comparison is the wrong way round
StillRunning(h) == sub[h].status = "ACTIVE" /\ sub[h].expires >= now

Outdated(h) == sub[h].status = "ACTIVE" /\ sub[h].expires <= now

\* The hourly job, when there is something for it to do.
ExpireOutdated ==
  /\ \E h \in Hash : Outdated(h)
  /\ sub' = [h \in Hash |-> IF Outdated(h) THEN [sub[h] EXCEPT !.status = "EXPIRED"]
                            ELSE sub[h]]
  /\ UNCHANGED <<now, landed, tx, gone, req>>

-----------------------------------------------------------------------------
\* user.delete cascades to the user's transactions and subscriptions; their
\* hashes are free again.
DeleteUser(u) ==
  /\ u \notin gone
  /\ gone' = gone \cup {u}
  /\ tx' = [h \in Hash |-> IF tx[h] # NoRow /\ tx[h].user = u THEN NoRow ELSE tx[h]]
  /\ sub' = [h \in Hash |-> IF h \in Rows(u) THEN NoRow ELSE sub[h]]
  /\ UNCHANGED <<now, landed, req>>

Tick ==
  /\ now < LastTime
  /\ now' = now + 1
  /\ UNCHANGED <<landed, tx, sub, gone, req>>

(* The process dies: the requests are lost, what was committed stays.      *)
Crash ==
  /\ \E r \in Req : req[r] # Idle
  /\ req' = [r \in Req |-> Idle]
  /\ UNCHANGED <<now, landed, tx, sub, gone>>

Step(r) ==
  \/ Lookup(r) \/ Verify(r) \/ VerifyFails(r) \/ Record(r)
  \/ ReadCurrent(r) \/ Extend(r) \/ CreateSub(r)

Next ==
  \/ \E t \in Transfer : Land(t)
  \/ \E r \in Req : Step(r) \/ \E u \in User, dto \in Dtos : Confirm(r, u, dto)
  \/ ExpireOutdated
  \/ \E u \in Deletable : DeleteUser(u)
  \/ Tick

Spec == Init /\ [][Next]_vars
CrashSpec == Init /\ [][Next \/ Crash]_vars

\* Statements are answered.  Besides, the transfers of the frontend land, and
\* a buyer who has no subscription yet keeps reporting the payment, to a
\* chain API that answers now and then: far more than the frontend does.
PatientSpec ==
  /\ Spec
  /\ \A r \in Req : WF_vars(Step(r)) /\ SF_vars(Verify(r))
  /\ \A x \in Purchases :
       /\ WF_vars(Land(x.transfer))
       /\ \A r \in Req : SF_vars(Confirm(r, x.buyer, x.dto))

-----------------------------------------------------------------------------
(* Properties.                                                             *)

Activating(r) == req[r].pc \in {"current", "extend", "create"}
Premium(u) == Running(u) # {}

(* What a user holds was paid: a subscription stands on a transaction row  *)
(* of the same user and plan, and the wallet of the row has sent on the    *)
(* chain the amount it states, which is the price of that plan but for the *)
(* tolerance.                                                              *)
OnlyPaid ==
  \A h \in Hash :
    sub[h] # NoRow =>
      /\ tx[h] # NoRow /\ tx[h].user = sub[h].user /\ tx[h].plan = sub[h].plan
      /\ tx[h].amount >= PlanConfig[tx[h].plan].price - Tolerance
      /\ \E t \in landed : Message[t].src = tx[h].wallet /\ Message[t].value = tx[h].amount

(* Of any number of confirmations under a hash, whoever sends them, one    *)
(* activates: the lookup lets several pass, the unique index stops all but *)
(* one of them, and none follows a subscription already there.  A request  *)
(* of a deleted user, whose row has gone, no longer counts: another user   *)
(* may have recorded the hash since.                                       *)
Live(r) == Activating(r) /\ req[r].user \notin gone
OneActivation ==
  \A r \in Req :
    Live(r) =>
      /\ sub[HashOf(r)] = NoRow
      /\ \A s \in Req \ {r} : Live(s) => HashOf(s) # HashOf(r)

(* A recorded payment ends in a subscription of its user: the row is       *)
(* there, or the request that wrote the transaction is about to create it. *)
PaidIsGranted ==
  \A h \in Hash :
    tx[h] # NoRow =>
      \/ h \in Rows(tx[h].user)
      \/ \E r \in Req : Live(r) /\ HashOf(r) = h /\ req[r].user = tx[h].user

(* Two purchases of a user never cover the same time: activate starts the  *)
(* new one where the running one ends.  True if one confirmation runs at a *)
(* time; false if two overlap.                                             *)
Start(h) == sub[h].expires - Days(sub[h].plan)
NoOverlap ==
  \A u \in User : \A g, h \in Rows(u) :
    g # h => sub[g].expires <= Start(h) \/ sub[h].expires <= Start(g)

(* What is left of that when they do: no moment is paid for more often     *)
(* than there are confirmations in flight, since whoever reads the running *)
(* subscriptions extends the latest of them.  (The most is paid for at the *)
(* start of one of them.)                                                  *)
Covering(u, t) == {h \in Rows(u) : Start(h) <= t /\ t < sub[h].expires}
OverlapBudget ==
  \A h \in Hash :
    sub[h] # NoRow => Cardinality(Covering(sub[h].user, Start(h))) <= Cardinality(Req)

(* Premium ends by the clock or with the account, never by the hourly job  *)
(* or by another purchase.                                                 *)
PremiumEndsByTime ==
  [][\A u \in User : Premium(u) /\ ~Premium(u)' => now' > now \/ u \in gone']_vars

(* What a buyer expects: a payment the chain shows is granted in the end.  *)
LandedIsGranted ==
  \A x \in Purchases :
    x.transfer \in landed ~> (sub[x.dto.txHash] # NoRow \/ x.buyer \in gone)
=============================================================================
