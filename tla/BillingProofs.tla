---------------------------- MODULE BillingProofs ----------------------------
(***************************************************************************)
(* Theorems about Billing, for any users, plans, transfers, reports and    *)
(* number of confirmations in flight.                                      *)
(***************************************************************************)
EXTENDS Billing, FiniteSetTheorems, TLAPS

Slots == [Req -> {Idle} \cup Confirmation]

LEMMA SlotTypes ==
  ASSUME TypeOK, NEW r \in Req
  PROVE  /\ req[r].pc = "idle" <=> req[r] = Idle
         /\ req[r].pc # "idle" => req[r] \in Confirmation
<1>1. req[r] = Idle \/ req[r] \in Confirmation
  BY DEF TypeOK
<1>2. CASE req[r] = Idle
  BY <1>2 DEF Idle
<1>3. CASE req[r] \in Confirmation
  BY <1>3 DEF Confirmation, Idle
<1>4. QED
  BY <1>1, <1>2, <1>3

LEMMA RowTypes ==
  ASSUME TypeOK, NEW h \in Hash
  PROVE  /\ tx[h] # NoRow => tx[h] \in Transaction
         /\ sub[h] # NoRow => sub[h] \in Subscription /\ sub[h].expires \in Nat
         /\ sub[h] = NoRow <=> sub[h].status = "NONE"
<1>1. /\ tx[h] = NoRow \/ tx[h] \in Transaction
      /\ sub[h] = NoRow \/ sub[h] \in Subscription
  BY DEF TypeOK
<1>2. NoRow.status = "NONE"
  BY DEF NoRow
<1>3. ASSUME sub[h] \in Subscription
      PROVE  sub[h].status \in {"ACTIVE", "EXPIRED"} /\ sub[h].expires \in Nat
  BY <1>3 DEF Subscription
<1>4. QED
  BY <1>1, <1>2, <1>3

LEMMA ConfirmationTypes ==
  ASSUME NEW q \in Confirmation
  PROVE  /\ q.dto \in Dtos /\ q.dto.txHash \in Hash /\ q.dto.plan \in Plan
         /\ q.dto.senderAddress \in Wallet
         /\ q.user \in User /\ q.amount \in Nat /\ q.expires \in Nat
         /\ Days(q.dto.plan) \in Nat \ {0} /\ PlanConfig[q.dto.plan].price \in Nat
<1>1. q.dto \in Dto /\ q.dto \in Dtos /\ q.user \in User /\ q.amount \in Nat /\ q.expires \in Nat
  BY BillingAssumption DEF Confirmation
<1>2. q.dto.txHash \in Hash /\ q.dto.plan \in Plan /\ q.dto.senderAddress \in Wallet
  BY <1>1 DEF Dto
<1>3. PlanConfig[q.dto.plan] \in [days : Nat \ {0}, price : Nat]
  BY <1>2, BillingAssumption
<1>4. QED
  BY <1>1, <1>2, <1>3 DEF Days

LEMMA Restaged ==
  ASSUME NEW q \in Confirmation, NEW n \in Nat,
         NEW pc \in {"verify", "record", "current", "extend", "create"}
  PROVE  /\ [q EXCEPT !.pc = pc] \in Confirmation
         /\ [q EXCEPT !.pc = pc, !.expires = n] \in Confirmation
         /\ [q EXCEPT !.pc = pc, !.amount = n] \in Confirmation
BY DEF Confirmation

LEMMA InitTypeOK == Init => TypeOK
BY BillingAssumption DEF Init, TypeOK

LEMMA StepTypeOK ==
  ASSUME TypeOK, NEW r \in Req, Step(r)
  PROVE  TypeOK'
<1>1. req[r] \in Confirmation
  BY SlotTypes DEF Step, Lookup, Verify, VerifyFails, Record, ReadCurrent, Extend, CreateSub
<1>2. ASSUME NEW q \in {Idle} \cup Confirmation PROVE [req EXCEPT ![r] = q] \in Slots
  BY DEF TypeOK, Slots
<1>3. CASE Lookup(r) \/ VerifyFails(r)
  BY <1>1, <1>2, <1>3, Restaged DEF Lookup, VerifyFails, Goto, Finish, Put, TypeOK, Slots
<1>4. CASE Verify(r)
  <2>1. \A t \in landed : Message[t].value \in Nat
    BY BillingAssumption DEF TypeOK
  <2>2. req' \in Slots
    BY <1>1, <1>2, <1>4, <2>1, Restaged DEF Verify, Put
  <2>3. QED
    BY <1>4, <2>2 DEF Verify, TypeOK, Slots
<1>5. CASE Record(r)
  <2>1. req' \in Slots
    BY <1>1, <1>2, <1>5, Restaged DEF Record, Goto, Finish, Put
  <2>2. Recorded(r) \in Transaction
    BY <1>1, ConfirmationTypes DEF Recorded, Transaction
  <2>3. tx' \in [Hash -> {NoRow} \cup Transaction]
    BY <1>5, <2>2 DEF Record, TypeOK
  <2>4. QED
    BY <1>5, <2>1, <2>3 DEF Record, TypeOK, Slots
<1>6. CASE ReadCurrent(r)
  <2>1. \A h \in Running(req[r].user) : sub[h].expires \in Nat
    BY RowTypes DEF Running, Rows
  <2>2. req' \in Slots
    BY <1>1, <1>2, <1>6, <2>1, Restaged DEF ReadCurrent, Goto, Put
  <2>3. QED
    BY <1>6, <2>2 DEF ReadCurrent, TypeOK, Slots
<1>7. CASE Extend(r)
  <2> DEFINE base == IF req[r].expires > now THEN req[r].expires ELSE now
  <2>1. base + Days(req[r].dto.plan) \in Nat
    BY <1>1, ConfirmationTypes DEF TypeOK
  <2>2. req' \in Slots
    BY <1>1, <1>2, <1>7, <2>1, Restaged DEF Extend, Put
  <2>3. QED
    BY <1>7, <2>2 DEF Extend, TypeOK, Slots
<1>8. CASE CreateSub(r)
  <2>1. [status |-> "ACTIVE", user |-> req[r].user, plan |-> req[r].dto.plan,
         expires |-> req[r].expires] \in Subscription
    BY <1>1, ConfirmationTypes DEF Subscription
  <2>2. sub' \in [Hash -> {NoRow} \cup Subscription]
    BY <1>8, <2>1 DEF CreateSub, TypeOK
  <2>3. req' \in Slots
    BY <1>2, <1>8 DEF CreateSub, Finish, Put
  <2>4. QED
    BY <1>8, <2>2, <2>3 DEF CreateSub, TypeOK, Slots
<1>9. QED
  BY <1>3, <1>4, <1>5, <1>6, <1>7, <1>8 DEF Step

\* The hourly job makes rows of rows.
LEMMA ExpireShape ==
  ASSUME TypeOK, ExpireOutdated
  PROVE  /\ UNCHANGED <<now, landed, tx, gone, req>>
         /\ sub' \in [Hash -> {NoRow} \cup Subscription]
         /\ \A h \in Hash :
              /\ sub'[h] = NoRow <=> sub[h] = NoRow
              /\ sub[h] # NoRow => /\ sub'[h].user = sub[h].user /\ sub'[h].plan = sub[h].plan
                                   /\ sub'[h].expires = sub[h].expires
              /\ sub'[h] = sub[h] \/ (sub'[h].status = "EXPIRED" /\ sub[h].expires <= now)
<1>1. ASSUME NEW h \in Hash, Outdated(h)
      PROVE  LET row == [sub[h] EXCEPT !.status = "EXPIRED"]
             IN /\ row \in Subscription /\ row # NoRow /\ sub[h] # NoRow
                /\ row.user = sub[h].user /\ row.plan = sub[h].plan
                /\ row.expires = sub[h].expires /\ row.status = "EXPIRED"
  <2>1. sub[h] \in Subscription /\ sub[h] # NoRow
    BY <1>1, RowTypes DEF Outdated
  <2>2. NoRow.status = "NONE"
    BY DEF NoRow
  <2>3. QED
    BY <2>1, <2>2 DEF Subscription
<1>2. QED
  BY <1>1 DEF ExpireOutdated, Outdated, TypeOK

LEMMA NextTypeOK ==
  ASSUME TypeOK, [Next \/ Crash]_vars
  PROVE  TypeOK'
<1> USE BillingAssumption DEF TypeOK
<1>1. ASSUME NEW t \in Transfer, Land(t) PROVE TypeOK'
  BY <1>1 DEF Land
<1>2. ASSUME NEW r \in Req, NEW u \in User, NEW dto \in Dtos, Confirm(r, u, dto) PROVE TypeOK'
  BY <1>2 DEF Confirm, Confirmation
<1>3. CASE ExpireOutdated
  BY <1>3, ExpireShape
<1>4. ASSUME NEW u \in User, DeleteUser(u) PROVE TypeOK'
  BY <1>4 DEF DeleteUser
<1>5. CASE Tick \/ Crash
  BY <1>5 DEF Tick, Crash
<1>6. CASE UNCHANGED vars
  BY <1>6 DEF vars
<1>7. QED
  BY <1>1, <1>2, <1>3, <1>4, <1>5, <1>6, StepTypeOK DEF Next

(* Every variable keeps its type, whenever the server crashes.             *)
THEOREM TypeCorrect == CrashSpec => []TypeOK
BY InitTypeOK, NextTypeOK, PTL DEF CrashSpec

-----------------------------------------------------------------------------
(* The inductive invariant: what a confirmation has learned stays true, as *)
(* long as its user is there, and a deleted user has no rows.              *)

Verified(r) ==
  /\ req[r].amount >= PlanConfig[req[r].dto.plan].price - Tolerance
  /\ \E t \in landed : /\ Message[t].src = req[r].dto.senderAddress
                       /\ Message[t].value = req[r].amount

Grounded(r) ==
  /\ req[r].pc \in {"record", "current", "extend", "create"} => Verified(r)
  /\ Live(r) => tx[HashOf(r)] = Recorded(r)

NothingLeft ==
  \A h \in Hash :
    /\ tx[h] # NoRow => tx[h].user \notin gone
    /\ sub[h] # NoRow => sub[h].user \notin gone

LedgerInv ==
  /\ TypeOK
  /\ NothingLeft
  /\ \A r \in Req : Grounded(r)
  /\ OnlyPaid
  /\ OneActivation

LEMMA InitLedger == Init => LedgerInv /\ PaidIsGranted
BY InitTypeOK DEF Init, LedgerInv, NothingLeft, Grounded, OnlyPaid, OneActivation, PaidIsGranted,
   Live, Activating, Idle

\* A step of a confirmation touches that confirmation, which keeps what was
\* reported, and the rows under its hash only.
StepOnly(r) ==
  /\ UNCHANGED <<landed, gone>>
  /\ \A s \in Req \ {r} : req'[s] = req[s]
  /\ \/ req'[r] = Idle
     \/ req'[r] \in Confirmation /\ req'[r].user = req[r].user /\ req'[r].dto = req[r].dto
  /\ \A h \in Hash \ {HashOf(r)} : tx'[h] = tx[h] /\ sub'[h] = sub[h]

LEMMA ReadCurrentShape ==
  ASSUME TypeOK, NEW r \in Req, ReadCurrent(r)
  PROVE  /\ UNCHANGED <<now, landed, tx, sub, gone>>
         /\ \A s \in Req \ {r} : req'[s] = req[s]
         /\ req[r].pc = "current" /\ req'[r].pc = "extend" /\ req'[r].user = req[r].user
         /\ req'[r].dto = req[r].dto /\ req'[r].amount = req[r].amount
<1>1. req[r] \in Confirmation
  BY SlotTypes DEF ReadCurrent
<1>2. \/ req' = [req EXCEPT ![r] = [req[r] EXCEPT !.pc = "extend"]]
      \/ \E e : req' = [req EXCEPT ![r] = [req[r] EXCEPT !.pc = "extend", !.expires = e]]
  BY DEF ReadCurrent, Goto, Put
<1>3. UNCHANGED <<now, landed, tx, sub, gone>> /\ req[r].pc = "current"
  BY DEF ReadCurrent
<1>4. CASE req' = [req EXCEPT ![r] = [req[r] EXCEPT !.pc = "extend"]]
  BY <1>1, <1>3, <1>4 DEF TypeOK, Confirmation
<1>5. CASE \E e : req' = [req EXCEPT ![r] = [req[r] EXCEPT !.pc = "extend", !.expires = e]]
  <2>1. PICK e : req' = [req EXCEPT ![r] = [req[r] EXCEPT !.pc = "extend", !.expires = e]]
    BY <1>5
  <2>2. QED
    BY <1>1, <1>3, <2>1 DEF TypeOK, Confirmation
<1>6. QED
  BY <1>2, <1>4, <1>5

LEMMA VerifyShape ==
  ASSUME TypeOK, NEW r \in Req, Verify(r)
  PROVE  /\ UNCHANGED <<now, landed, tx, sub, gone>>
         /\ \A s \in Req \ {r} : req'[s] = req[s]
         /\ req[r].pc = "verify" /\ req'[r].pc = "record" /\ req'[r].user = req[r].user
         /\ req'[r].dto = req[r].dto /\ Verified(r)'
<1>1. req[r] \in Confirmation
  BY SlotTypes DEF Verify
<1>2. PICK t \in landed :
        /\ Message[t].src = req[r].dto.senderAddress
        /\ Message[t].value >= PlanConfig[req[r].dto.plan].price - Tolerance
        /\ req' = [req EXCEPT ![r] = [req[r] EXCEPT !.pc = "record", !.amount = Message[t].value]]
  BY DEF Verify, Put
<1>3. UNCHANGED <<now, landed, tx, sub, gone>> /\ req[r].pc = "verify"
  BY DEF Verify
<1>4. /\ \A s \in Req \ {r} : req'[s] = req[s]
      /\ req'[r].pc = "record" /\ req'[r].user = req[r].user
      /\ req'[r].dto = req[r].dto /\ req'[r].amount = Message[t].value
  BY <1>1, <1>2 DEF TypeOK, Confirmation
<1>5. Verified(r)'
  BY <1>2, <1>3, <1>4 DEF Verified
<1>6. QED
  BY <1>3, <1>4, <1>5

LEMMA ExtendShape ==
  ASSUME TypeOK, NEW r \in Req, Extend(r)
  PROVE  /\ UNCHANGED <<now, landed, tx, sub, gone>>
         /\ \A s \in Req \ {r} : req'[s] = req[s]
         /\ req[r].pc = "extend" /\ req'[r].pc = "create" /\ req'[r].user = req[r].user
         /\ req'[r].dto = req[r].dto /\ req'[r].amount = req[r].amount
         /\ req'[r].expires = (IF req[r].expires > now THEN req[r].expires ELSE now)
                              + Days(req[r].dto.plan)
<1> DEFINE e == (IF req[r].expires > now THEN req[r].expires ELSE now) + Days(req[r].dto.plan)
<1>1. req[r] \in Confirmation
  BY SlotTypes DEF Extend
<1>2. /\ UNCHANGED <<now, landed, tx, sub, gone>> /\ req[r].pc = "extend"
      /\ req' = [req EXCEPT ![r] = [req[r] EXCEPT !.pc = "create", !.expires = e]]
  BY DEF Extend, Put
<1> HIDE DEF e
<1>3. /\ \A s \in Req \ {r} : req'[s] = req[s]
      /\ req'[r].pc = "create" /\ req'[r].user = req[r].user
      /\ req'[r].dto = req[r].dto /\ req'[r].amount = req[r].amount /\ req'[r].expires = e
  BY <1>1, <1>2 DEF TypeOK, Confirmation
<1>4. QED
  BY <1>2, <1>3 DEF e

LEMMA GotoShape ==
  ASSUME TypeOK, NEW r \in Req, req[r] \in Confirmation,
         NEW pc \in {"verify", "record", "current", "extend", "create"}, Goto(r, pc)
  PROVE  /\ \A s \in Req \ {r} : req'[s] = req[s]
         /\ req'[r] \in Confirmation /\ req'[r].pc = pc
         /\ req'[r].user = req[r].user /\ req'[r].dto = req[r].dto
         /\ req'[r].amount = req[r].amount
BY DEF Goto, Put, TypeOK, Confirmation

LEMMA FinishShape ==
  ASSUME TypeOK, NEW r \in Req, Finish(r)
  PROVE  req'[r] = Idle /\ \A s \in Req \ {r} : req'[s] = req[s]
BY DEF Finish, Put, TypeOK

LEMMA StepLocal ==
  ASSUME TypeOK, NEW r \in Req, Step(r)
  PROVE  StepOnly(r) /\ req[r] \in Confirmation /\ HashOf(r) \in Hash
<1> USE DEF StepOnly
<1>1. req[r] \in Confirmation
  BY SlotTypes DEF Step, Lookup, Verify, VerifyFails, Record, ReadCurrent, Extend, CreateSub
<1>2. HashOf(r) \in Hash
  BY <1>1, ConfirmationTypes DEF HashOf
<1>3. TypeOK'
  BY StepTypeOK
<1>4. ASSUME NEW q, req' = [req EXCEPT ![r] = q] PROVE \A s \in Req \ {r} : req'[s] = req[s]
  BY <1>4 DEF TypeOK
<1>5. CASE Lookup(r) \/ VerifyFails(r)
  <2>1. UNCHANGED <<landed, gone, tx, sub>>
    BY <1>5 DEF Lookup, VerifyFails
  <2>2. /\ \A s \in Req \ {r} : req'[s] = req[s]
        /\ \/ req'[r] = Idle
           \/ req'[r] \in Confirmation /\ req'[r].user = req[r].user /\ req'[r].dto = req[r].dto
    BY <1>1, <1>5, GotoShape, FinishShape DEF Lookup, VerifyFails
  <2>3. QED
    BY <1>1, <1>2, <2>1, <2>2
<1>6. CASE Verify(r)
  <2>1. req'[r] \in Confirmation
    BY <1>3, <1>6, VerifyShape DEF TypeOK, Idle
  <2>2. QED
    BY <1>1, <1>2, <1>6, <2>1, VerifyShape
<1>7. CASE Record(r)
  <2>1. /\ UNCHANGED <<landed, gone, sub>>
        /\ \A h \in Hash \ {HashOf(r)} : tx'[h] = tx[h]
    BY <1>7 DEF Record, Finish, Goto, TypeOK
  <2>2. /\ \A s \in Req \ {r} : req'[s] = req[s]
        /\ \/ req'[r] = Idle
           \/ req'[r] \in Confirmation /\ req'[r].user = req[r].user /\ req'[r].dto = req[r].dto
    BY <1>1, <1>7, GotoShape, FinishShape DEF Record
  <2>3. QED
    BY <1>1, <1>2, <2>1, <2>2
<1>8. CASE ReadCurrent(r)
  <2>1. req'[r] \in Confirmation
    BY <1>3, <1>8, ReadCurrentShape DEF TypeOK, Idle
  <2>2. QED
    BY <1>1, <1>2, <1>8, <2>1, ReadCurrentShape
<1>9. CASE Extend(r)
  <2>1. req'[r] \in Confirmation
    BY <1>3, <1>9, ExtendShape DEF TypeOK, Idle
  <2>2. QED
    BY <1>1, <1>2, <1>9, <2>1, ExtendShape
<1>10. CASE CreateSub(r)
  BY <1>1, <1>2, <1>4, <1>10 DEF CreateSub, Finish, Put, TypeOK
<1>11. QED
  BY <1>5, <1>6, <1>7, <1>8, <1>9, <1>10 DEF Step

\* A step of r that writes no row leaves the others as they are.
LEMMA QuietLedger ==
  ASSUME LedgerInv, NEW r \in Req, StepOnly(r), UNCHANGED <<tx, sub>>,
         Grounded(r)', Live(r)' => Live(r)
  PROVE  /\ (NothingLeft /\ OnlyPaid /\ OneActivation)' /\ \A s \in Req : Grounded(s)'
<1>1. ASSUME NEW s \in Req, s # r PROVE Grounded(s)'
  BY <1>1 DEF LedgerInv, Grounded, Verified, StepOnly, Live, Activating, HashOf, Recorded
<1>2. NothingLeft' /\ OnlyPaid'
  BY DEF LedgerInv, NothingLeft, OnlyPaid, StepOnly
<1>3. ASSUME NEW s \in Req, Live(s)' PROVE Live(s) /\ HashOf(s)' = HashOf(s)
  <2>1. CASE s = r
    BY <1>3, <2>1 DEF StepOnly, Live, Activating, HashOf, Idle
  <2>2. CASE s # r
    BY <1>3, <2>2 DEF StepOnly, Live, Activating, HashOf
  <2>3. QED
    BY <2>1, <2>2
<1>4. OneActivation'
  BY <1>3 DEF LedgerInv, OneActivation
<1>5. QED
  BY <1>1, <1>2, <1>4

\* As long as r activates until then, what was to be granted still is.
LEMMA QuietGrant ==
  ASSUME TypeOK, NEW r \in Req, StepOnly(r), UNCHANGED <<tx, sub>>, PaidIsGranted,
         Live(r) => Live(r)'
  PROVE  PaidIsGranted'
<1> SUFFICES ASSUME NEW h \in Hash, tx'[h] # NoRow
             PROVE  \/ h \in Rows(tx[h].user)'
                    \/ \E s \in Req : Live(s)' /\ HashOf(s)' = h /\ req'[s].user = tx'[h].user
  BY DEF PaidIsGranted
<1>1. CASE h \in Rows(tx[h].user)
  BY <1>1 DEF Rows
<1>2. CASE \E s \in Req : Live(s) /\ HashOf(s) = h /\ req[s].user = tx[h].user
  <2>1. PICK s \in Req : Live(s) /\ HashOf(s) = h /\ req[s].user = tx[h].user
    BY <1>2
  <2>2. CASE s = r
    BY <2>1, <2>2 DEF StepOnly, Live, Activating, HashOf, Idle
  <2>3. CASE s # r
    BY <2>1, <2>3 DEF StepOnly, Live, Activating, HashOf
  <2>4. QED
    BY <2>2, <2>3
<1>3. QED
  BY <1>1, <1>2 DEF PaidIsGranted

LEMMA StepLedger ==
  ASSUME LedgerInv, NEW r \in Req, Step(r)
  PROVE  /\ (NothingLeft /\ OnlyPaid /\ OneActivation)' /\ \A s \in Req : Grounded(s)'
         /\ PaidIsGranted => PaidIsGranted'
<1> DEFINE h == HashOf(r)
<1>1. /\ StepOnly(r) /\ req[r] \in Confirmation /\ h \in Hash
      /\ TypeOK /\ Grounded(r)
  BY StepLocal DEF LedgerInv
<1> HIDE DEF h
<1>2. CASE Lookup(r) \/ VerifyFails(r)
  <2>1. UNCHANGED <<tx, sub>> /\ req[r].pc \in {"lookup", "verify"}
        /\ (req'[r] = Idle \/ req'[r].pc = "verify")
    BY <1>1, <1>2, GotoShape, FinishShape DEF Lookup, VerifyFails
  <2>2. ~Live(r) /\ ~Live(r)' /\ Grounded(r)'
    BY <2>1 DEF Live, Activating, Grounded, Idle
  <2>3. QED
    BY <1>1, <2>1, <2>2, QuietLedger, QuietGrant
<1>3. CASE Verify(r)
  <2>1. UNCHANGED <<tx, sub>> /\ req[r].pc = "verify" /\ req'[r].pc = "record" /\ Verified(r)'
    BY <1>1, <1>3, VerifyShape
  <2>2. ~Live(r) /\ ~Live(r)' /\ Grounded(r)'
    BY <2>1 DEF Live, Activating, Grounded
  <2>3. QED
    BY <1>1, <2>1, <2>2, QuietLedger, QuietGrant
<1>4. CASE Record(r) /\ (tx[h] # NoRow \/ req[r].user \in gone)
  <2>1. UNCHANGED <<tx, sub>> /\ req[r].pc = "record" /\ req'[r] = Idle
    BY <1>1, <1>4, FinishShape DEF Record, h
  <2>2. ~Live(r) /\ ~Live(r)' /\ Grounded(r)'
    BY <2>1 DEF Live, Activating, Grounded, Idle
  <2>3. QED
    BY <1>1, <2>1, <2>2, QuietLedger, QuietGrant
<1>5. CASE Record(r) /\ tx[h] = NoRow /\ req[r].user \notin gone
  <2>1. /\ tx' = [tx EXCEPT ![h] = Recorded(r)] /\ UNCHANGED <<sub, gone, landed>>
        /\ req[r].pc = "record" /\ req'[r].pc = "current" /\ req'[r].user = req[r].user
        /\ req'[r].dto = req[r].dto /\ req'[r].amount = req[r].amount
    BY <1>1, <1>5, GotoShape DEF Record, h
  <2>2. /\ tx'[h] = Recorded(r) /\ Recorded(r)' = Recorded(r) /\ HashOf(r)' = h
        /\ tx'[h].user = req[r].user /\ Live(r)' /\ ~Live(r)
    <3>1. tx'[h] = Recorded(r)
      BY <1>1, <2>1 DEF TypeOK
    <3>2. Recorded(r)' = Recorded(r) /\ HashOf(r)' = h
      BY <2>1 DEF Recorded, HashOf, h
    <3>3. tx'[h].user = req[r].user
      BY <3>1 DEF Recorded
    <3>4. Live(r)' /\ ~Live(r)
      BY <1>5, <2>1 DEF Live, Activating
    <3>5. QED
      BY <3>1, <3>2, <3>3, <3>4
  <2>3. sub[h] = NoRow /\ \A s \in Req \ {r} : Live(s) => HashOf(s) # h
    <3>1. sub[h] = NoRow
      BY <1>1, <1>5 DEF LedgerInv, OnlyPaid
    <3>2. ASSUME NEW s \in Req \ {r}, Live(s), HashOf(s) = h PROVE FALSE
      <4>1. tx[h] = Recorded(s)
        BY <3>2 DEF LedgerInv, Grounded
      <4>2. Recorded(s).status = "CONFIRMED" /\ NoRow.status = "NONE"
        BY DEF Recorded, NoRow
      <4>3. QED
        BY <1>5, <4>1, <4>2
    <3>3. QED
      BY <3>1, <3>2
  <2>4. ASSUME NEW s \in Req, s # r
        PROVE  /\ Live(s)' <=> Live(s)
               /\ HashOf(s)' = HashOf(s) /\ Recorded(s)' = Recorded(s)
               /\ Verified(s)' <=> Verified(s)
               /\ Grounded(s)'
    <3>1. req'[s] = req[s] /\ Grounded(s)
      BY <1>1, <2>4 DEF StepOnly, LedgerInv
    <3>2. /\ Live(s)' <=> Live(s)
          /\ HashOf(s)' = HashOf(s) /\ Recorded(s)' = Recorded(s)
          /\ Verified(s)' <=> Verified(s)
      BY <2>1, <3>1 DEF Live, Activating, HashOf, Recorded, Verified
    <3>3. Live(s) => tx'[HashOf(s)] = tx[HashOf(s)]
      <4>1. Live(s) => HashOf(s) \in Hash
        BY <1>1, SlotTypes, ConfirmationTypes DEF Live, Activating, HashOf
      <4>2. QED
        BY <1>1, <2>3, <2>4, <4>1 DEF StepOnly, h
    <3>4. QED
      BY <3>1, <3>2, <3>3 DEF Grounded
  <2>5. Grounded(r)'
    BY <1>1, <2>1, <2>2 DEF Grounded, Verified
  <2>6. OneActivation'
    BY <2>1, <2>2, <2>3, <2>4 DEF LedgerInv, OneActivation
  <2>7. NothingLeft' /\ OnlyPaid'
    BY <1>1, <1>5, <2>1, <2>2, <2>3 DEF LedgerInv, NothingLeft, OnlyPaid, StepOnly, h
  <2>8. ASSUME PaidIsGranted, NEW g \in Hash, tx'[g] # NoRow
        PROVE  \/ g \in Rows(tx[g].user)'
               \/ \E s \in Req : Live(s)' /\ HashOf(s)' = g /\ req'[s].user = tx'[g].user
    <3>1. CASE g = h
      BY <2>1, <2>2, <3>1
    <3>2. CASE g # h /\ g \in Rows(tx[g].user)
      BY <1>1, <2>1, <3>2 DEF StepOnly, Rows, h
    <3>3. CASE g # h /\ \E s \in Req : Live(s) /\ HashOf(s) = g /\ req[s].user = tx[g].user
      <4>1. PICK s \in Req : Live(s) /\ HashOf(s) = g /\ req[s].user = tx[g].user
        BY <3>3
      <4>2. s # r /\ req'[s] = req[s] /\ tx'[g] = tx[g]
        BY <1>1, <2>2, <3>3, <4>1 DEF StepOnly, h
      <4>3. QED
        BY <2>4, <4>1, <4>2
    <3>4. tx[g] # NoRow \/ g = h
      BY <1>1, <2>8 DEF StepOnly, h
    <3>5. QED
      BY <2>8, <3>1, <3>2, <3>3, <3>4 DEF PaidIsGranted
  <2>9. PaidIsGranted => PaidIsGranted'
    BY <2>8 DEF PaidIsGranted
  <2>10. QED
    BY <2>4, <2>5, <2>6, <2>7, <2>9
<1>6. CASE ReadCurrent(r) \/ Extend(r)
  <2>1. /\ UNCHANGED <<tx, sub, gone, landed>>
        /\ req[r].pc \in {"current", "extend"} /\ req'[r].pc \in {"extend", "create"}
        /\ req'[r].user = req[r].user /\ req'[r].dto = req[r].dto /\ req'[r].amount = req[r].amount
    BY <1>1, <1>6, ReadCurrentShape, ExtendShape
  <2>2. (Live(r)' <=> Live(r)) /\ Recorded(r)' = Recorded(r) /\ HashOf(r)' = HashOf(r)
        /\ (Verified(r)' <=> Verified(r))
    BY <2>1 DEF Live, Activating, Recorded, HashOf, Verified
  <2>3. Grounded(r)'
    BY <1>1, <2>1, <2>2 DEF Grounded
  <2>4. QED
    BY <1>1, <2>1, <2>2, <2>3, QuietLedger, QuietGrant
<1>7. CASE CreateSub(r) /\ req[r].user \in gone
  <2>1. UNCHANGED <<tx, sub>> /\ req'[r] = Idle
    BY <1>1, <1>7, FinishShape DEF CreateSub
  <2>2. ~Live(r) /\ ~Live(r)' /\ Grounded(r)'
    BY <1>7, <2>1 DEF Live, Activating, Grounded, Idle
  <2>3. QED
    BY <1>1, <2>1, <2>2, QuietLedger, QuietGrant
<1>8. CASE CreateSub(r) /\ req[r].user \notin gone
  <2>1. /\ Live(r) /\ sub[h] = NoRow /\ tx[h] = Recorded(r) /\ Verified(r)
        /\ \A s \in Req \ {r} : Live(s) => HashOf(s) # h
    BY <1>1, <1>8 DEF LedgerInv, OneActivation, Grounded, Live, Activating, CreateSub, h
  <2>2. /\ UNCHANGED <<tx, gone, landed>> /\ req'[r] = Idle
        /\ sub' = [sub EXCEPT ![h] =
                     [status |-> "ACTIVE", user |-> req[r].user,
                      plan |-> req[r].dto.plan, expires |-> req[r].expires]]
    BY <1>1, <1>8, <2>1, FinishShape DEF CreateSub, h
  <2>3. /\ ~Live(r)' /\ sub'[h] # NoRow
        /\ sub'[h].user = req[r].user /\ sub'[h].plan = req[r].dto.plan
    BY <1>1, <2>2 DEF Live, Activating, Idle, TypeOK, NoRow
  <2>4. /\ tx[h] # NoRow /\ tx[h].user = req[r].user /\ tx[h].plan = req[r].dto.plan
        /\ tx[h].wallet = req[r].dto.senderAddress /\ tx[h].amount = req[r].amount
    BY <2>1 DEF Recorded, NoRow
  <2>5. ASSUME NEW s \in Req, s # r
        PROVE  /\ Live(s)' <=> Live(s)
               /\ HashOf(s)' = HashOf(s) /\ Grounded(s)'
    <3>1. req'[s] = req[s] /\ Grounded(s)
      BY <1>1, <2>5 DEF StepOnly, LedgerInv
    <3>2. QED
      BY <2>2, <3>1 DEF Live, Activating, HashOf, Recorded, Verified, Grounded
  <2>6. Grounded(r)'
    BY <2>2, <2>3 DEF Grounded, Idle
  <2>7. OneActivation'
    <3>1. ASSUME NEW s \in Req, Live(s)' PROVE sub'[HashOf(s)'] = NoRow
      <4>1. s # r /\ Live(s) /\ HashOf(s)' = HashOf(s) /\ HashOf(s) # h
        BY <2>1, <2>3, <2>5, <3>1
      <4>2. HashOf(s) \in Hash
        BY <1>1, <4>1, SlotTypes, ConfirmationTypes DEF Live, Activating, HashOf
      <4>3. QED
        BY <1>1, <4>1, <4>2 DEF LedgerInv, OneActivation, StepOnly, h
    <3>2. QED
      BY <2>3, <2>5, <3>1 DEF LedgerInv, OneActivation
  <2>8. NothingLeft' /\ OnlyPaid'
    <3>1. tx[h].amount >= PlanConfig[tx[h].plan].price - Tolerance
          /\ \E t \in landed : Message[t].src = tx[h].wallet /\ Message[t].value = tx[h].amount
      BY <2>1, <2>4 DEF Verified
    <3>2. QED
      BY <1>1, <1>8, <2>2, <2>3, <2>4, <3>1 DEF LedgerInv, NothingLeft, OnlyPaid, StepOnly, h
  <2>9. ASSUME PaidIsGranted, NEW g \in Hash, tx'[g] # NoRow
        PROVE  \/ g \in Rows(tx[g].user)'
               \/ \E s \in Req : Live(s)' /\ HashOf(s)' = g /\ req'[s].user = tx'[g].user
    <3>1. CASE g = h
      BY <1>1, <2>2, <2>3, <2>4, <3>1 DEF Rows
    <3>2. CASE g # h /\ g \in Rows(tx[g].user)
      BY <1>1, <2>2, <3>2 DEF StepOnly, Rows, h
    <3>3. CASE g # h /\ \E s \in Req : Live(s) /\ HashOf(s) = g /\ req[s].user = tx[g].user
      <4>1. PICK s \in Req : Live(s) /\ HashOf(s) = g /\ req[s].user = tx[g].user
        BY <3>3
      <4>2. s # r /\ req'[s] = req[s]
        BY <1>1, <3>3, <4>1 DEF StepOnly, h
      <4>3. QED
        BY <2>2, <2>5, <4>1, <4>2
    <3>4. QED
      BY <2>2, <2>9, <3>1, <3>2, <3>3 DEF PaidIsGranted
  <2>10. PaidIsGranted => PaidIsGranted'
    BY <2>9 DEF PaidIsGranted
  <2>11. QED
    BY <2>5, <2>6, <2>7, <2>8, <2>10
<1>9. QED
  BY <1>2, <1>3, <1>4, <1>5, <1>6, <1>7, <1>8 DEF Step

\* What happens outside the handlers.
Others ==
  \/ \E t \in Transfer : Land(t)
  \/ \E r \in Req, u \in User, dto \in Dtos : Confirm(r, u, dto)
  \/ ExpireOutdated \/ Tick \/ UNCHANGED vars
  \/ \E u \in User : DeleteUser(u)

LEMMA NextIsStepOrOthers ==
  ASSUME [Next]_vars
  PROVE  (\E r \in Req : Step(r)) \/ Others
BY BillingAssumption DEF Next, Others

LEMMA DeleteShape ==
  ASSUME TypeOK, NEW u \in User, DeleteUser(u)
  PROVE  /\ gone' = gone \cup {u} /\ UNCHANGED <<now, landed, req>>
         /\ \A h \in Hash :
              /\ tx'[h] = IF tx[h] # NoRow /\ tx[h].user = u THEN NoRow ELSE tx[h]
              /\ sub'[h] = IF sub[h] # NoRow /\ sub[h].user = u THEN NoRow ELSE sub[h]
BY DEF DeleteUser, Rows

LEMMA ConfirmShape ==
  ASSUME TypeOK, NEW r \in Req, NEW u \in User, NEW dto \in Dtos, Confirm(r, u, dto)
  PROVE  /\ UNCHANGED <<now, landed, tx, sub, gone>>
         /\ \A s \in Req \ {r} : req'[s] = req[s]
         /\ req[r].pc = "idle" /\ req'[r].pc = "lookup" /\ req'[r].user = u
BY DEF Confirm, TypeOK

LEMMA OthersLedger ==
  ASSUME LedgerInv, Others
  PROVE  /\ (NothingLeft /\ OnlyPaid /\ OneActivation)' /\ \A s \in Req : Grounded(s)'
         /\ PaidIsGranted => PaidIsGranted'
<1> USE DEF LedgerInv
<1>1. CASE Tick \/ UNCHANGED vars \/ \E t \in Transfer : Land(t)
  <2>1. UNCHANGED <<tx, sub, gone, req>> /\ landed \subseteq landed'
    BY <1>1 DEF Tick, vars, Land
  <2>2. \A s \in Req : Grounded(s)' /\ (Live(s)' <=> Live(s)) /\ HashOf(s)' = HashOf(s)
    BY <2>1 DEF Grounded, Verified, Live, Activating, HashOf, Recorded
  <2>3. NothingLeft' /\ OnlyPaid' /\ OneActivation'
    BY <2>1, <2>2 DEF NothingLeft, OnlyPaid, OneActivation
  <2>4. PaidIsGranted => PaidIsGranted'
    BY <2>1, <2>2 DEF PaidIsGranted, Rows
  <2>5. QED
    BY <2>2, <2>3, <2>4
<1>2. CASE \E r \in Req, u \in User, dto \in Dtos : Confirm(r, u, dto)
  <2>1. PICK r \in Req, u \in User, dto \in Dtos : Confirm(r, u, dto)
    BY <1>2
  <2>2. /\ UNCHANGED <<landed, tx, sub, gone>> /\ req'[r].pc = "lookup" /\ req[r].pc = "idle"
        /\ \A s \in Req \ {r} : req'[s] = req[s]
    BY <2>1, ConfirmShape
  <2>3. ASSUME NEW s \in Req
        PROVE  Grounded(s)' /\ (Live(s)' <=> Live(s)) /\ (Live(s) => s # r /\ req'[s] = req[s])
    <3>1. CASE s = r
      BY <2>2, <3>1 DEF Grounded, Live, Activating
    <3>2. CASE s # r
      BY <2>2, <3>2 DEF Grounded, Verified, Live, Activating, HashOf, Recorded
    <3>3. QED
      BY <3>1, <3>2
  <2>4. NothingLeft' /\ OnlyPaid'
    BY <2>2 DEF NothingLeft, OnlyPaid
  <2>5. OneActivation'
    BY <2>2, <2>3 DEF OneActivation, HashOf
  <2>6. PaidIsGranted => PaidIsGranted'
    BY <2>2, <2>3 DEF PaidIsGranted, Rows, HashOf
  <2>7. QED
    BY <2>3, <2>4, <2>5, <2>6
<1>3. CASE ExpireOutdated
  <2>1. /\ UNCHANGED <<landed, tx, gone, req>>
        /\ \A h \in Hash :
             /\ sub'[h] = NoRow <=> sub[h] = NoRow
             /\ sub[h] # NoRow => sub'[h].user = sub[h].user /\ sub'[h].plan = sub[h].plan
    BY <1>3, ExpireShape
  <2>2. ASSUME NEW s \in Req
        PROVE  /\ Grounded(s)' /\ (Live(s)' <=> Live(s)) /\ HashOf(s)' = HashOf(s)
               /\ Live(s) => HashOf(s) \in Hash
    BY <2>1, SlotTypes, ConfirmationTypes
       DEF Grounded, Verified, Live, Activating, HashOf, Recorded
  <2>3. NothingLeft' /\ OnlyPaid'
    BY <2>1 DEF NothingLeft, OnlyPaid
  <2>4. OneActivation'
    BY <2>1, <2>2 DEF OneActivation
  <2>5. PaidIsGranted => PaidIsGranted'
    BY <2>1, <2>2 DEF PaidIsGranted, Rows
  <2>6. QED
    BY <2>2, <2>3, <2>4, <2>5
<1>4. CASE \E u \in User : DeleteUser(u)
  <2>1. PICK u \in User : DeleteUser(u)
    BY <1>4
  <2>2. /\ gone' = gone \cup {u} /\ UNCHANGED <<landed, req>>
        /\ \A h \in Hash :
             /\ tx'[h] = IF tx[h] # NoRow /\ tx[h].user = u THEN NoRow ELSE tx[h]
             /\ sub'[h] = IF sub[h] # NoRow /\ sub[h].user = u THEN NoRow ELSE sub[h]
    BY <2>1, DeleteShape
  <2>3. NothingLeft' /\ OnlyPaid'
    BY <2>2 DEF NothingLeft, OnlyPaid
  <2>4. ASSUME NEW s \in Req
        PROVE  /\ Live(s)' <=> Live(s) /\ req[s].user # u
               /\ HashOf(s)' = HashOf(s) /\ Recorded(s)' = Recorded(s)
               /\ Verified(s)' <=> Verified(s)
               /\ Live(s) => HashOf(s) \in Hash /\ Recorded(s).user = req[s].user
    BY <2>2, SlotTypes, ConfirmationTypes DEF Verified, Live, Activating, HashOf, Recorded
  <2>5. \A s \in Req : Grounded(s)'
    BY <2>2, <2>4 DEF Grounded
  <2>6. OneActivation'
    BY <2>2, <2>4 DEF OneActivation
  <2>7. ASSUME PaidIsGranted, NEW h \in Hash, tx'[h] # NoRow
        PROVE  \/ h \in Rows(tx[h].user)'
               \/ \E s \in Req : Live(s)' /\ HashOf(s)' = h /\ req'[s].user = tx'[h].user
    <3>1. tx[h] # NoRow /\ tx'[h] = tx[h] /\ tx[h].user # u
      BY <2>2, <2>7
    <3>2. CASE h \in Rows(tx[h].user)
      BY <2>2, <3>1, <3>2 DEF Rows
    <3>3. CASE \E s \in Req : Live(s) /\ HashOf(s) = h /\ req[s].user = tx[h].user
      BY <2>2, <2>4, <3>1, <3>3
    <3>4. QED
      BY <2>7, <3>1, <3>2, <3>3 DEF PaidIsGranted
  <2>8. PaidIsGranted => PaidIsGranted'
    BY <2>7 DEF PaidIsGranted
  <2>9. QED
    BY <2>3, <2>5, <2>6, <2>8
<1>5. QED
  BY <1>1, <1>2, <1>3, <1>4 DEF Others

LEMMA NextLedger ==
  ASSUME LedgerInv, [Next \/ Crash]_vars
  PROVE  LedgerInv'
<1>1. TypeOK'
  BY NextTypeOK DEF LedgerInv
<1>2. CASE \E r \in Req : Step(r)
  BY <1>1, <1>2, StepLedger DEF LedgerInv
<1>3. CASE Crash
  <2>1. UNCHANGED <<landed, tx, sub, gone>> /\ \A r \in Req : req'[r] = Idle
    BY <1>3 DEF Crash
  <2>2. \A r \in Req : ~Live(r)' /\ Grounded(r)'
    BY <2>1 DEF Live, Activating, Grounded, Idle
  <2>3. QED
    BY <1>1, <2>1, <2>2 DEF LedgerInv, NothingLeft, OnlyPaid, OneActivation
<1>4. CASE Others
  BY <1>1, <1>4, OthersLedger DEF LedgerInv
<1>5. QED
  BY <1>2, <1>3, <1>4, NextIsStepOrOthers

(* Whatever the clients report, crashes and deletions included, a          *)
(* subscription stands on a row of its user and plan that a transfer of    *)
(* the wallet reported, worth the plan, let in.                            *)
THEOREM OnlyPaidHolds == CrashSpec => []OnlyPaid
<1>1. LedgerInv => OnlyPaid
  BY DEF LedgerInv
<1>2. QED
  BY <1>1, InitLedger, NextLedger, PTL DEF CrashSpec

(* However many confirmations report a hash at once, whoever sends them,   *)
(* its unique index lets one of them activate.                             *)
THEOREM OneActivationHolds == CrashSpec => []OneActivation
<1>1. LedgerInv => OneActivation
  BY DEF LedgerInv
<1>2. QED
  BY <1>1, InitLedger, NextLedger, PTL DEF CrashSpec

(* Without a crash, a recorded payment has its subscription or the request *)
(* that will create it.                                                    *)
THEOREM PaidIsGrantedHolds == Spec => []PaidIsGranted
<1>1. ASSUME LedgerInv, PaidIsGranted, [Next]_vars PROVE PaidIsGranted' /\ LedgerInv'
  BY <1>1, StepLedger, OthersLedger, NextLedger, NextIsStepOrOthers
<1>2. QED
  BY <1>1, InitLedger, PTL DEF Spec

\* The row a confirmation writes is the first under its hash.
LEMMA CreateShape ==
  ASSUME TypeOK, NEW r \in Req, CreateSub(r)
  PROVE  /\ UNCHANGED <<now, landed, tx, gone>>
         /\ req[r].pc = "create" /\ req[r] \in Confirmation /\ req'[r] = Idle
         /\ \A s \in Req \ {r} : req'[s] = req[s]
         /\ \/ sub' = sub
            \/ /\ HashOf(r) \in Hash /\ sub[HashOf(r)] = NoRow /\ sub'[HashOf(r)] # NoRow
               /\ sub'[HashOf(r)].status = "ACTIVE" /\ sub'[HashOf(r)].user = req[r].user
               /\ sub'[HashOf(r)].plan = req[r].dto.plan
               /\ sub'[HashOf(r)].expires = req[r].expires
               /\ \A h \in Hash \ {HashOf(r)} : sub'[h] = sub[h]
<1>1. req[r] \in Confirmation /\ HashOf(r) \in Hash /\ req[r].pc = "create"
  BY SlotTypes, ConfirmationTypes DEF CreateSub, HashOf
<1>2. /\ UNCHANGED <<now, landed, tx, gone>>
      /\ req'[r] = Idle /\ \A s \in Req \ {r} : req'[s] = req[s]
  BY FinishShape DEF CreateSub
<1>3. CASE req[r].user \in gone \/ sub[HashOf(r)] # NoRow
  BY <1>1, <1>2, <1>3 DEF CreateSub
<1>4. CASE req[r].user \notin gone /\ sub[HashOf(r)] = NoRow
  <2>1. sub' = [sub EXCEPT ![HashOf(r)] =
                  [status |-> "ACTIVE", user |-> req[r].user,
                   plan |-> req[r].dto.plan, expires |-> req[r].expires]]
    BY <1>4 DEF CreateSub
  <2>2. NoRow.status = "NONE"
    BY DEF NoRow
  <2>3. QED
    BY <1>1, <1>2, <1>4, <2>1, <2>2 DEF TypeOK
<1>5. QED
  BY <1>3, <1>4

\* The steps before ReadCurrent are none of SubscriptionsService's business.
LEMMA EarlyShape ==
  ASSUME TypeOK, NEW r \in Req, Lookup(r) \/ Verify(r) \/ VerifyFails(r) \/ Record(r)
  PROVE  /\ UNCHANGED <<now, landed, sub, gone>>
         /\ req[r].pc \notin {"extend", "create"} /\ req'[r].pc \notin {"extend", "create"}
         /\ \A s \in Req \ {r} : req'[s] = req[s]
<1>1. req[r] \in Confirmation
  BY SlotTypes DEF Lookup, Verify, VerifyFails, Record
<1>2. CASE Lookup(r) \/ VerifyFails(r) \/ Record(r)
  <2>1. /\ UNCHANGED <<now, landed, sub, gone>> /\ req[r].pc \notin {"extend", "create"}
        /\ Finish(r) \/ Goto(r, "verify") \/ Goto(r, "current")
    BY <1>2 DEF Lookup, VerifyFails, Record
  <2>2. CASE Finish(r)
    BY <2>1, <2>2, FinishShape DEF Idle
  <2>3. CASE Goto(r, "verify")
    BY <1>1, <2>1, <2>3, GotoShape
  <2>4. CASE Goto(r, "current")
    BY <1>1, <2>1, <2>4, GotoShape
  <2>5. QED
    BY <2>1, <2>2, <2>3, <2>4
<1>3. CASE Verify(r)
  BY <1>3, VerifyShape
<1>4. QED
  BY <1>2, <1>3

(* The hourly job and later purchases leave every running subscription as  *)
(* it is: premium ends when its time is over or the account is deleted.    *)
THEOREM PremiumEndsByTimeHolds == CrashSpec => PremiumEndsByTime
<1>1. ASSUME TypeOK, [Next \/ Crash]_vars, NEW u \in User, NEW h \in Running(u)
      PROVE  h \in Running(u)' \/ now' > now \/ u \in gone'
  <2> USE <1>1
  <2>0. h \in Hash /\ sub[h] # NoRow /\ sub[h].user = u /\ sub[h].status = "ACTIVE"
        /\ sub[h].expires > now /\ sub[h].expires \in Nat /\ now \in Nat
    BY RowTypes DEF Running, Rows, TypeOK
  <2>1. CASE \E r \in Req : Step(r)
    <3>1. UNCHANGED now /\ sub'[h] = sub[h]
      BY <2>0, <2>1, EarlyShape, ReadCurrentShape, ExtendShape, CreateShape DEF Step
    <3>2. QED
      BY <2>0, <3>1 DEF Running, Rows
  <2>2. CASE ExpireOutdated
    <3>1. UNCHANGED now /\ (sub'[h] = sub[h] \/ sub[h].expires <= now)
      BY <2>0, <2>2, ExpireShape
    <3>2. QED
      BY <2>0, <3>1 DEF Running, Rows
  <2>3. CASE \E v \in User : DeleteUser(v)
    BY <2>0, <2>3, DeleteShape DEF Running, Rows
  <2>4. CASE Tick
    BY <2>0, <2>4 DEF Tick
  <2>5. CASE Crash \/ UNCHANGED vars \/ \E t \in Transfer : Land(t)
    BY <2>0, <2>5 DEF Crash, vars, Land, Running, Rows
  <2>6. CASE \E r \in Req, v \in User, dto \in Dtos : Confirm(r, v, dto)
    BY <2>0, <2>6 DEF Confirm, Running, Rows
  <2>7. QED
    BY <2>1, <2>2, <2>3, <2>4, <2>5, <2>6, NextIsStepOrOthers DEF Others
<1>2. TypeOK /\ [Next \/ Crash]_vars =>
        [\A u \in User : Premium(u) /\ ~Premium(u)' => now' > now \/ u \in gone']_vars
  BY <1>1 DEF Premium
<1>3. QED
  BY <1>2, InitTypeOK, NextTypeOK, PTL DEF CrashSpec, PremiumEndsByTime

-----------------------------------------------------------------------------
(* One confirmation at a time.  A row that is not ACTIVE is over, and the  *)
(* expiry a confirmation has computed leaves room after every row of its   *)
(* user: nothing is created between its read and its write.                *)

OthersAreOver ==
  \A h \in Hash : sub[h] # NoRow /\ sub[h].status # "ACTIVE" => sub[h].expires <= now

Room(r) ==
  \A h \in Rows(req[r].user) :
    /\ req[r].pc = "extend" => sub[h].expires <= req[r].expires \/ sub[h].expires <= now
    /\ req[r].pc = "create" => sub[h].expires <= req[r].expires - Days(req[r].dto.plan)

SerialInv ==
  /\ TypeOK
  /\ OthersAreOver
  /\ NoOverlap
  /\ \A r \in Req : Room(r)

\* What a confirmation reads is no earlier than any running subscription.
LEMMA ReadsLatest ==
  ASSUME TypeOK, OthersAreOver, NEW r \in Req, ReadCurrent(r), NEW h \in Rows(req[r].user)
  PROVE  sub[h].expires <= req'[r].expires \/ sub[h].expires <= now
<1>1. h \in Hash /\ sub[h] # NoRow /\ sub[h].expires \in Nat /\ now \in Nat
  BY RowTypes DEF Rows, TypeOK
<1>2. CASE h \notin Running(req[r].user)
  BY <1>1, <1>2 DEF Running, OthersAreOver
<1>3. CASE h \in Running(req[r].user)
  <2>1. PICK m \in Running(req[r].user) :
          /\ \A x \in Running(req[r].user) : sub[x].expires <= sub[m].expires
          /\ req' = [req EXCEPT ![r] = [req[r] EXCEPT !.pc = "extend", !.expires = sub[m].expires]]
    BY <1>3 DEF ReadCurrent, Put
  <2>2. req[r] \in Confirmation
    BY SlotTypes DEF ReadCurrent
  <2>3. req'[r].expires = sub[m].expires
    BY <2>1, <2>2 DEF Confirmation, TypeOK
  <2>4. QED
    BY <1>3, <2>1, <2>3
<1>4. QED
  BY <1>2, <1>3

LEMMA NextOver ==
  ASSUME TypeOK, OthersAreOver, [Next \/ Crash]_vars
  PROVE  OthersAreOver'
<1>1. CASE \E r \in Req : Step(r)
  BY <1>1, EarlyShape, ReadCurrentShape, ExtendShape, CreateShape DEF Step, OthersAreOver
<1>2. CASE \E r \in Req, u \in User, dto \in Dtos : Confirm(r, u, dto)
  BY <1>2 DEF Confirm, OthersAreOver
<1>3. CASE (\E t \in Transfer : Land(t)) \/ Crash \/ UNCHANGED vars
  BY <1>3 DEF Land, Crash, vars, OthersAreOver
<1>4. CASE ExpireOutdated
  BY <1>4, ExpireShape DEF OthersAreOver
<1>5. CASE \E u \in User : DeleteUser(u)
  BY <1>5, DeleteShape DEF OthersAreOver
<1>6. CASE Tick
  BY <1>6, RowTypes DEF Tick, OthersAreOver, TypeOK
<1>7. QED
  BY <1>1, <1>2, <1>3, <1>4, <1>5, <1>6, NextIsStepOrOthers DEF Others

LEMMA InitSerial == Init => SerialInv
<1>1. Init => \A h \in Hash : sub[h] = NoRow
  BY DEF Init
<1>2. QED
  BY <1>1, InitTypeOK DEF SerialInv, OthersAreOver, NoOverlap, Room, Rows

LEMMA StepSerial ==
  ASSUME SerialInv, NEW r \in Req, Req = {r}, Step(r)
  PROVE  (NoOverlap /\ Room(r))'
<1> USE DEF SerialInv
<1>1. CASE Lookup(r) \/ Verify(r) \/ VerifyFails(r) \/ Record(r)
  <2>1. UNCHANGED <<now, sub>> /\ req'[r].pc \notin {"extend", "create"}
    BY <1>1, EarlyShape
  <2>2. QED
    BY <2>1 DEF NoOverlap, Room, Rows, Start
<1>2. CASE ReadCurrent(r)
  <2>1. /\ UNCHANGED <<now, sub>> /\ req'[r].pc = "extend" /\ req'[r].user = req[r].user
    BY <1>2, ReadCurrentShape
  <2>2. \A h \in Rows(req[r].user) : sub[h].expires <= req'[r].expires \/ sub[h].expires <= now
    BY <1>2, ReadsLatest
  <2>3. QED
    BY <2>1, <2>2 DEF NoOverlap, Room, Rows, Start
<1>3. CASE Extend(r)
  <2> DEFINE base == IF req[r].expires > now THEN req[r].expires ELSE now
             d == Days(req[r].dto.plan)
  <2>1. /\ UNCHANGED <<now, sub>> /\ req[r].pc = "extend" /\ req'[r].pc = "create"
        /\ req'[r].user = req[r].user /\ req'[r].dto = req[r].dto
        /\ req'[r].expires = base + d
    BY <1>3, ExtendShape
  <2>2. req[r].expires \in Nat /\ now \in Nat /\ d \in Nat
    BY <2>1, SlotTypes, ConfirmationTypes DEF TypeOK
  <2>3. ASSUME NEW h \in Rows(req[r].user)
        PROVE  sub[h].expires <= req'[r].expires - d
    <3>1. sub[h].expires <= req[r].expires \/ sub[h].expires <= now
      BY <2>1 DEF Room
    <3>2. sub[h].expires \in Nat
      BY RowTypes DEF Rows
    <3> HIDE DEF d
    <3>3. QED
      BY <2>1, <2>2, <3>1, <3>2
  <2>4. QED
    BY <2>1, <2>3 DEF NoOverlap, Room, Rows, Start
<1>4. CASE CreateSub(r)
  <2> DEFINE h == HashOf(r)
  <2>1. UNCHANGED now /\ req'[r] = Idle /\ req[r].pc = "create" /\ req[r] \in Confirmation
    BY <1>4, CreateShape
  <2>2. Room(r)'
    BY <2>1 DEF Room, Idle
  <2>3. CASE sub' = sub
    BY <2>2, <2>3 DEF NoOverlap, Rows, Start
  <2>4. CASE sub' # sub
    <3>1. /\ h \in Hash /\ sub[h] = NoRow /\ sub'[h] # NoRow
          /\ sub'[h].user = req[r].user /\ sub'[h].plan = req[r].dto.plan
          /\ sub'[h].expires = req[r].expires
          /\ \A g \in Hash \ {h} : sub'[g] = sub[g]
      BY <1>4, <2>4, CreateShape
    <3> HIDE DEF h
    <3>2. \A g \in Rows(req[r].user) : sub[g].expires <= req[r].expires - Days(req[r].dto.plan)
      BY <2>1 DEF Room
    <3>3. ASSUME NEW u \in User, NEW f \in Rows(u)', NEW g \in Rows(u)', f # g
          PROVE  sub'[f].expires <= Start(g)' \/ sub'[g].expires <= Start(f)'
      <4>1. CASE f # h /\ g # h
        BY <3>1, <3>3, <4>1 DEF NoOverlap, Rows, Start
      <4>2. CASE f = h
        BY <3>1, <3>2, <3>3, <4>2 DEF Rows, Start
      <4>3. CASE g = h
        BY <3>1, <3>2, <3>3, <4>3 DEF Rows, Start
      <4>4. QED
        BY <4>1, <4>2, <4>3
    <3>4. QED
      BY <2>2, <3>3 DEF NoOverlap
  <2>5. QED
    BY <2>3, <2>4
<1>5. QED
  BY <1>1, <1>2, <1>3, <1>4 DEF Step

LEMMA OthersSerial ==
  ASSUME SerialInv, Others \/ Crash, NEW r \in Req
  PROVE  (NoOverlap /\ Room(r))'
<1> USE DEF SerialInv
<1>1. CASE (\E t \in Transfer : Land(t)) \/ UNCHANGED vars
  <2>1. UNCHANGED <<now, sub, req>>
    BY <1>1 DEF Land, vars
  <2>2. QED
    BY <2>1 DEF NoOverlap, Room, Rows, Start
<1>2. CASE \E s \in Req, u \in User, dto \in Dtos : Confirm(s, u, dto)
  <2>1. UNCHANGED <<now, sub>> /\ (req'[r] = req[r] \/ req'[r].pc = "lookup")
    BY <1>2, ConfirmShape
  <2>2. QED
    BY <2>1 DEF NoOverlap, Room, Rows, Start
<1>3. CASE Crash
  <2>1. UNCHANGED <<now, sub>> /\ req'[r].pc = "idle"
    BY <1>3 DEF Crash, Idle
  <2>2. QED
    BY <2>1 DEF NoOverlap, Room, Rows, Start
<1>4. CASE Tick
  <2>1. /\ UNCHANGED <<sub, req>> /\ now' = now + 1 /\ now \in Nat
        /\ \A h \in Hash : sub[h] # NoRow => sub[h].expires \in Nat
    BY <1>4, RowTypes DEF Tick, TypeOK
  <2>2. QED
    BY <2>1 DEF NoOverlap, Room, Rows, Start
<1>5. CASE ExpireOutdated \/ \E u \in User : DeleteUser(u)
  <2>1. /\ UNCHANGED <<now, req>>
        /\ \A h \in Hash : sub'[h] # NoRow =>
             /\ sub[h] # NoRow /\ sub'[h].user = sub[h].user /\ sub'[h].plan = sub[h].plan
             /\ sub'[h].expires = sub[h].expires
    BY <1>5, ExpireShape, DeleteShape
  <2>2. \A h \in Hash : sub'[h] # NoRow => Start(h)' = Start(h)
    BY <2>1 DEF Start
  <2>3. NoOverlap'
    BY <2>1, <2>2 DEF NoOverlap, Rows
  <2>4. QED
    BY <2>1, <2>3 DEF Room, Rows
<1>6. QED
  BY <1>1, <1>2, <1>3, <1>4, <1>5 DEF Others

(* If confirmations come one at a time, each purchase starts where the     *)
(* last one ends: its user gets the whole time of every plan.              *)
THEOREM SerialPurchasesDoNotOverlap ==
  ASSUME NEW r \in Req, Req = {r}
  PROVE  CrashSpec => []NoOverlap
<1>1. ASSUME SerialInv, [Next \/ Crash]_vars PROVE SerialInv'
  BY <1>1, NextTypeOK, NextOver, StepSerial, OthersSerial, NextIsStepOrOthers DEF SerialInv
<1>2. SerialInv => NoOverlap
  BY DEF SerialInv
<1>3. QED
  BY <1>1, <1>2, InitSerial, PTL DEF CrashSpec

-----------------------------------------------------------------------------
(* Several confirmations at a time.  A moment may come to be covered by    *)
(* every confirmation that has read the expiry it will extend and not yet  *)
(* written.  One that reads it now can only cover moments nothing covers,  *)
(* so at those only the confirmations count, and there are no more of them *)
(* than slots; after that each turns itself into at most one subscription. *)

WillCover(r, u, t) ==
  /\ req[r].pc \in {"extend", "create"} /\ req[r].user = u
  /\ \/ req[r].pc = "extend" /\ req[r].expires <= t /\ now <= t
     \/ /\ req[r].pc = "create"
        /\ req[r].expires - Days(req[r].dto.plan) <= t /\ t < req[r].expires

MayCover(u, t) == {r \in Req : WillCover(r, u, t)}

WithinBudget(u, t) ==
  /\ IsFiniteSet(Covering(u, t))
  /\ Cardinality(Covering(u, t)) + Cardinality(MayCover(u, t)) <= Cardinality(Req)

BudgetInv ==
  /\ TypeOK
  /\ OthersAreOver
  /\ \A u \in User, t \in Int : WithinBudget(u, t)

LEMMA NoLarger ==
  ASSUME NEW S, NEW T, IsFiniteSet(T), S \subseteq T
  PROVE  /\ IsFiniteSet(S) /\ Cardinality(S) \in Nat /\ Cardinality(T) \in Nat
         /\ Cardinality(S) <= Cardinality(T)
<1>1. IsFiniteSet(S) /\ Cardinality(S) <= Cardinality(T)
  BY FS_Subset
<1>2. Cardinality(S) \in Nat /\ Cardinality(T) \in Nat
  BY <1>1, FS_CardinalityType
<1>3. QED
  BY <1>1, <1>2

LEMMA FewerCover ==
  ASSUME NEW u, NEW t, WithinBudget(u, t),
         Covering(u, t)' \subseteq Covering(u, t), MayCover(u, t)' \subseteq MayCover(u, t)
  PROVE  WithinBudget(u, t)'
<1>1. MayCover(u, t) \subseteq Req /\ IsFiniteSet(Req)
  BY BillingAssumption DEF MayCover
<1>2. IsFiniteSet(MayCover(u, t))
  BY <1>1, NoLarger
<1>3. /\ Cardinality(MayCover(u, t)') \in Nat /\ Cardinality(MayCover(u, t)) \in Nat
      /\ Cardinality(MayCover(u, t)') <= Cardinality(MayCover(u, t))
  BY <1>2, NoLarger
<1>4. IsFiniteSet(Covering(u, t))
  BY DEF WithinBudget
<1>5. /\ IsFiniteSet(Covering(u, t)')
      /\ Cardinality(Covering(u, t)') \in Nat /\ Cardinality(Covering(u, t)) \in Nat
      /\ Cardinality(Covering(u, t)') <= Cardinality(Covering(u, t))
  BY <1>4, NoLarger
<1>6. Cardinality(Req) \in Nat
  BY BillingAssumption, FS_CardinalityType
<1>7. Cardinality(Covering(u, t)') + Cardinality(MayCover(u, t)') <= Cardinality(Req)
  BY <1>3, <1>5, <1>6 DEF WithinBudget
<1>8. QED
  BY <1>5, <1>7 DEF WithinBudget

\* What nothing covers yet, at most every confirmation will.
LEMMA NothingCovers ==
  ASSUME NEW u, NEW t, Covering(u, t) = {}
  PROVE  WithinBudget(u, t)
<1>1. MayCover(u, t) \subseteq Req /\ IsFiniteSet(Req)
  BY BillingAssumption DEF MayCover
<1>2. /\ Cardinality(MayCover(u, t)) \in Nat /\ Cardinality(Req) \in Nat
      /\ Cardinality(MayCover(u, t)) <= Cardinality(Req)
  BY <1>1, NoLarger
<1>3. IsFiniteSet(Covering(u, t)) /\ Cardinality(Covering(u, t)) = 0
  BY FS_EmptySet
<1>4. QED
  BY <1>2, <1>3 DEF WithinBudget

LEMMA InitBudget == Init => BudgetInv
<1> SUFFICES ASSUME Init PROVE BudgetInv
  OBVIOUS
<1>1. \A u \in User, t \in Int : Covering(u, t) = {}
  BY DEF Init, Covering, Rows
<1>2. OthersAreOver
  BY DEF Init, OthersAreOver
<1>3. QED
  BY <1>1, <1>2, InitTypeOK, NothingCovers DEF BudgetInv

\* A step that leaves the rows and the clock alone and takes no confirmation
\* to a moment it might not have covered before.
LEMMA QuietStep ==
  ASSUME BudgetInv, UNCHANGED sub, NEW u \in User, NEW t \in Int,
         \A s \in Req : WillCover(s, u, t)' => WillCover(s, u, t)
  PROVE  WithinBudget(u, t)'
<1>1. Covering(u, t)' = Covering(u, t)
  BY DEF Covering, Start, Rows
<1>2. MayCover(u, t)' \subseteq MayCover(u, t)
  BY DEF MayCover
<1>3. QED
  BY <1>1, <1>2, FewerCover DEF BudgetInv

LEMMA ReadBudget ==
  ASSUME BudgetInv, NEW r \in Req, ReadCurrent(r), NEW u \in User, NEW t \in Int
  PROVE  WithinBudget(u, t)'
<1> USE DEF BudgetInv
<1>1. /\ UNCHANGED <<now, sub>> /\ now \in Nat
      /\ \A s \in Req \ {r} : req'[s] = req[s]
      /\ req[r].pc = "current" /\ req'[r].pc = "extend" /\ req'[r].user = req[r].user
  BY ReadCurrentShape DEF TypeOK
<1>2. \A s \in Req \ {r} : WillCover(s, u, t)' => WillCover(s, u, t)
  BY <1>1 DEF WillCover
<1>3. CASE ~WillCover(r, u, t)'
  BY <1>1, <1>2, <1>3, QuietStep
<1>4. CASE WillCover(r, u, t)'
  <2>1. u = req[r].user /\ req'[r].expires <= t /\ now <= t
    BY <1>1, <1>4 DEF WillCover
  <2>2. ASSUME NEW h \in Rows(u) PROVE sub[h].expires <= t
    <3>1. sub[h].expires <= req'[r].expires \/ sub[h].expires <= now
      BY <2>1, ReadsLatest
    <3>2. sub[h].expires \in Nat
      BY RowTypes DEF Rows
    <3>3. req'[r].expires \in Nat
      <4>1. TypeOK'
        BY StepTypeOK DEF Step
      <4>2. req'[r] \in Confirmation
        BY <1>1, <4>1 DEF TypeOK, Idle
      <4>3. QED
        BY <4>2, ConfirmationTypes
    <3>4. QED
      BY <1>1, <2>1, <3>1, <3>2, <3>3
  <2>3. Covering(u, t) = {}
    <3>1. \A h \in Rows(u) : sub[h].expires \in Nat
      BY RowTypes DEF Rows
    <3>2. QED
      BY <2>2, <3>1 DEF Covering
  <2>4. Covering(u, t)' = {}
    BY <1>1, <2>3 DEF Covering, Start, Rows
  <2>5. MayCover(u, t)' \subseteq Req
    BY DEF MayCover
  <2>6. /\ Cardinality(MayCover(u, t)') \in Nat /\ Cardinality(Req) \in Nat
        /\ Cardinality(MayCover(u, t)') <= Cardinality(Req)
    BY <2>5, NoLarger, BillingAssumption
  <2>7. IsFiniteSet(Covering(u, t)') /\ Cardinality(Covering(u, t)') = 0
    BY <2>4, FS_EmptySet
  <2>8. QED
    BY <2>6, <2>7 DEF WithinBudget
<1>5. QED
  BY <1>3, <1>4

LEMMA ExtendBudget ==
  ASSUME BudgetInv, NEW r \in Req, Extend(r), NEW u \in User, NEW t \in Int
  PROVE  WithinBudget(u, t)'
<1> DEFINE base == IF req[r].expires > now THEN req[r].expires ELSE now
           d == Days(req[r].dto.plan)
<1> USE DEF BudgetInv
<1>1. /\ UNCHANGED <<now, sub>>
      /\ \A s \in Req \ {r} : req'[s] = req[s]
      /\ req[r].pc = "extend" /\ req'[r].pc = "create" /\ req'[r].user = req[r].user
      /\ req'[r].dto = req[r].dto /\ req'[r].expires = base + d
  BY ExtendShape
<1>2. req[r].expires \in Nat /\ now \in Nat /\ d \in Nat
  BY <1>1, SlotTypes, ConfirmationTypes DEF TypeOK
<1>3. WillCover(r, u, t)' => req[r].user = u /\ req'[r].expires - d <= t
  BY <1>1 DEF WillCover
<1>4. req[r].user = u /\ req[r].expires <= t /\ now <= t => WillCover(r, u, t)
  BY <1>1 DEF WillCover
<1> HIDE DEF d
<1>5. WillCover(r, u, t)' => WillCover(r, u, t)
  BY <1>1, <1>2, <1>3, <1>4
<1>6. \A s \in Req \ {r} : WillCover(s, u, t)' => WillCover(s, u, t)
  BY <1>1 DEF WillCover
<1>7. QED
  BY <1>1, <1>5, <1>6, QuietStep

LEMMA CreateBudget ==
  ASSUME BudgetInv, NEW r \in Req, CreateSub(r), NEW u \in User, NEW t \in Int
  PROVE  WithinBudget(u, t)'
<1> DEFINE h == HashOf(r)
<1> USE DEF BudgetInv
<1>1. /\ UNCHANGED now /\ req[r].pc = "create" /\ req'[r] = Idle
      /\ \A s \in Req \ {r} : req'[s] = req[s]
  BY CreateShape
<1>2. \A s \in Req : WillCover(s, u, t)' => WillCover(s, u, t) /\ s # r
  BY <1>1 DEF WillCover, Idle
<1>3. CASE sub' = sub
  BY <1>2, <1>3, QuietStep
<1>4. CASE sub' # sub
  <2>1. /\ h \in Hash /\ sub[h] = NoRow /\ sub'[h] # NoRow
        /\ sub'[h].user = req[r].user /\ sub'[h].plan = req[r].dto.plan
        /\ sub'[h].expires = req[r].expires
        /\ \A g \in Hash \ {h} : sub'[g] = sub[g]
    BY <1>4, CreateShape
  <2> HIDE DEF h
  <2>2. /\ \A g \in Hash \ {h} : g \in Covering(u, t)' <=> g \in Covering(u, t)
        /\ h \in Covering(u, t)' => WillCover(r, u, t)
        /\ h \notin Covering(u, t)
        /\ Covering(u, t) \subseteq Hash /\ Covering(u, t)' \subseteq Hash
    BY <1>1, <2>1 DEF Covering, Start, Rows, WillCover
  <2>3. CASE h \notin Covering(u, t)'
    <3>1. Covering(u, t)' \subseteq Covering(u, t)
      BY <2>2, <2>3
    <3>2. MayCover(u, t)' \subseteq MayCover(u, t)
      BY <1>2 DEF MayCover
    <3>3. QED
      BY <3>1, <3>2, FewerCover
  <2>4. CASE h \in Covering(u, t)'
    <3>1. Covering(u, t)' = Covering(u, t) \cup {h}
      BY <2>2, <2>4
    <3>2. IsFiniteSet(Covering(u, t)) /\ Cardinality(Covering(u, t)) \in Nat
      BY FS_CardinalityType DEF WithinBudget
    <3>3. /\ IsFiniteSet(Covering(u, t)')
          /\ Cardinality(Covering(u, t)') = Cardinality(Covering(u, t)) + 1
      BY <2>2, <3>1, <3>2, FS_AddElement
    <3>4. MayCover(u, t)' \subseteq MayCover(u, t) \ {r} /\ r \in MayCover(u, t)
      BY <1>2, <2>2, <2>4 DEF MayCover
    <3>5. MayCover(u, t) \subseteq Req
      BY DEF MayCover
    <3>6. IsFiniteSet(MayCover(u, t)) /\ Cardinality(MayCover(u, t)) \in Nat
      BY <3>5, NoLarger, BillingAssumption, FS_CardinalityType
    <3>7. /\ IsFiniteSet(MayCover(u, t) \ {r})
          /\ Cardinality(MayCover(u, t) \ {r}) = Cardinality(MayCover(u, t)) - 1
      BY <3>4, <3>6, FS_RemoveElement
    <3>8. /\ Cardinality(MayCover(u, t)') \in Nat
          /\ Cardinality(MayCover(u, t)') <= Cardinality(MayCover(u, t) \ {r})
      BY <3>4, <3>7, NoLarger
    <3>9. Cardinality(Req) \in Nat
      BY FS_CardinalityType, BillingAssumption
    <3>10. Cardinality(Covering(u, t)') + Cardinality(MayCover(u, t)') <= Cardinality(Req)
      BY <3>2, <3>3, <3>6, <3>7, <3>8, <3>9 DEF WithinBudget
    <3>11. QED
      BY <3>3, <3>10 DEF WithinBudget
  <2>5. QED
    BY <2>3, <2>4
<1>5. QED
  BY <1>3, <1>4

LEMMA StepBudget ==
  ASSUME BudgetInv, NEW r \in Req, Step(r), NEW u \in User, NEW t \in Int
  PROVE  WithinBudget(u, t)'
<1>1. CASE Lookup(r) \/ Verify(r) \/ VerifyFails(r) \/ Record(r)
  <2>1. /\ UNCHANGED <<now, sub>>
        /\ \A s \in Req \ {r} : req'[s] = req[s]
        /\ req'[r].pc \notin {"extend", "create"}
    BY <1>1, EarlyShape DEF BudgetInv
  <2>2. \A s \in Req : WillCover(s, u, t)' => WillCover(s, u, t)
    BY <2>1 DEF WillCover
  <2>3. QED
    BY <2>1, <2>2, QuietStep
<1>2. QED
  BY <1>1, ReadBudget, ExtendBudget, CreateBudget DEF Step

LEMMA OthersBudget ==
  ASSUME BudgetInv, Others \/ Crash, NEW u \in User, NEW t \in Int
  PROVE  WithinBudget(u, t)'
<1>1. CASE (\E x \in Transfer : Land(x)) \/ UNCHANGED vars
  <2>1. UNCHANGED <<now, sub, req>>
    BY <1>1 DEF Land, vars
  <2>2. \A s \in Req : WillCover(s, u, t)' => WillCover(s, u, t)
    BY <2>1 DEF WillCover
  <2>3. QED
    BY <2>1, <2>2, QuietStep
<1>2. CASE \E s \in Req, v \in User, dto \in Dtos : Confirm(s, v, dto)
  <2>1. UNCHANGED <<now, sub>> /\ \A s \in Req : req'[s] = req[s] \/ req'[s].pc = "lookup"
    BY <1>2, ConfirmShape DEF BudgetInv
  <2>2. \A s \in Req : WillCover(s, u, t)' => WillCover(s, u, t)
    BY <2>1 DEF WillCover
  <2>3. QED
    BY <2>1, <2>2, QuietStep
<1>3. CASE Crash
  <2>1. UNCHANGED <<now, sub>> /\ \A s \in Req : req'[s].pc = "idle"
    BY <1>3 DEF Crash, Idle
  <2>2. \A s \in Req : WillCover(s, u, t)' => WillCover(s, u, t)
    BY <2>1 DEF WillCover
  <2>3. QED
    BY <2>1, <2>2, QuietStep
<1>4. CASE Tick
  <2>1. UNCHANGED <<sub, req>> /\ now' = now + 1 /\ now \in Nat
    BY <1>4 DEF Tick, BudgetInv, TypeOK
  <2>2. \A s \in Req : WillCover(s, u, t)' => WillCover(s, u, t)
    BY <2>1 DEF WillCover
  <2>3. QED
    BY <2>1, <2>2, QuietStep
<1>5. CASE ExpireOutdated \/ \E v \in User : DeleteUser(v)
  <2>1. /\ UNCHANGED <<now, req>>
        /\ \A h \in Hash : sub'[h] # NoRow =>
             /\ sub[h] # NoRow /\ sub'[h].user = sub[h].user /\ sub'[h].plan = sub[h].plan
             /\ sub'[h].expires = sub[h].expires
    BY <1>5, ExpireShape, DeleteShape DEF BudgetInv
  <2>2. Covering(u, t)' \subseteq Covering(u, t)
    BY <2>1 DEF Covering, Start, Rows
  <2>3. MayCover(u, t)' \subseteq MayCover(u, t)
    BY <2>1 DEF MayCover, WillCover
  <2>4. QED
    BY <2>2, <2>3, FewerCover DEF BudgetInv
<1>6. QED
  BY <1>1, <1>2, <1>3, <1>4, <1>5 DEF Others

LEMMA NextBudget ==
  ASSUME BudgetInv, [Next \/ Crash]_vars
  PROVE  BudgetInv'
<1>1. TypeOK' /\ OthersAreOver'
  BY NextTypeOK, NextOver DEF BudgetInv
<1>2. ASSUME NEW u \in User, NEW t \in Int PROVE WithinBudget(u, t)'
  BY StepBudget, OthersBudget, NextIsStepOrOthers
<1>3. QED
  BY <1>1, <1>2 DEF BudgetInv

(* However the confirmations of a user's purchases overlap, no moment is   *)
(* paid for more often than there are confirmations in flight.             *)
THEOREM OverlapBudgetKept == CrashSpec => []OverlapBudget
<1>1. ASSUME BudgetInv PROVE OverlapBudget
  <2> SUFFICES ASSUME NEW h \in Hash, sub[h] # NoRow
               PROVE  Cardinality(Covering(sub[h].user, Start(h))) <= Cardinality(Req)
    BY DEF OverlapBudget
  <2> DEFINE u == sub[h].user
             t == Start(h)
  <2>1. u \in User /\ t \in Int
    <3>1. sub[h] \in Subscription
      BY <1>1, RowTypes DEF BudgetInv
    <3>2. u \in User /\ sub[h].plan \in Plan /\ sub[h].expires \in Nat
      BY <3>1 DEF Subscription
    <3>3. PlanConfig[sub[h].plan] \in [days : Nat \ {0}, price : Nat]
      BY <3>2, BillingAssumption
    <3>4. QED
      BY <3>2, <3>3 DEF Start, Days
  <2>2. WithinBudget(u, t)
    BY <1>1, <2>1 DEF BudgetInv
  <2>3. Cardinality(Covering(u, t)) \in Nat
    BY <2>2, FS_CardinalityType DEF WithinBudget
  <2>4. MayCover(u, t) \subseteq Req
    BY DEF MayCover
  <2>5. Cardinality(MayCover(u, t)) \in Nat /\ Cardinality(Req) \in Nat
    BY <2>4, NoLarger, BillingAssumption
  <2>6. QED
    BY <2>2, <2>3, <2>5 DEF WithinBudget
<1>2. QED
  BY <1>1, InitBudget, NextBudget, PTL DEF CrashSpec
=============================================================================
