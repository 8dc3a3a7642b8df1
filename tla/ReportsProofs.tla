---------------------------- MODULE ReportsProofs ----------------------------
(***************************************************************************)
(* Theorems about Reports, for any users, any threshold and any number of  *)
(* reports in flight, crashes included.                                    *)
(***************************************************************************)
EXTENDS Reports, FiniteSetTheorems, TLAPS

\* The slots hold what their pc promises.
LEMMA SlotTypes ==
  ASSUME TypeOK, NEW r \in Req
  PROVE  /\ req[r].pc = "idle" <=> req[r] = Idle
         /\ req[r].pc # "idle" <=> req[r] \in Filing
         /\ req[r] \in Filing => Pair(r) \in Pairs
<1>1. req[r] \in {Idle} \cup Filing
  BY DEF TypeOK
<1>2. CASE req[r] = Idle
  BY <1>2 DEF Idle, Filing
<1>3. CASE req[r] \in Filing
  BY <1>3 DEF Filing, Idle, Pair, Pairs
<1>4. QED
  BY <1>1, <1>2, <1>3

LEMMA ReqTyped ==
  ASSUME TypeOK, NEW r \in Req, NEW q \in {Idle} \cup Filing
  PROVE  [req EXCEPT ![r] = q] \in [Req -> {Idle} \cup Filing]
BY DEF TypeOK

LEMMA InitTypeOK == Init => TypeOK
BY DEF Init, TypeOK, Idle

LEMMA StepTypeOK ==
  ASSUME TypeOK, NEW r \in Req, Step(r)
  PROVE  TypeOK'
<1>1. req[r] \in Filing
  BY SlotTypes DEF Step, FindTarget, FindOpen, Decide, InsertReport, CountReporters, HideProfile, Commit
<1>2. \A pc \in {"insert", "count", "hide", "commit"} : [req[r] EXCEPT !.pc = pc] \in Filing
  BY <1>1 DEF Filing
<1>3. CASE FindTarget(r)
  <2>1. PICK b \in BOOLEAN : b = (req[r].ok /\ req[r].of \notin gone)
    OBVIOUS
  <2>2. [req[r] EXCEPT !.left = @ \ {"target"}, !.ok = b] \in Filing
    BY <1>1 DEF Filing
  <2>3. req' = [req EXCEPT ![r] = [req[r] EXCEPT !.left = @ \ {"target"}, !.ok = b]]
    BY <1>1, <1>3, <2>1 DEF FindTarget, Put, Filing
  <2>4. QED
    BY <1>3, <2>2, <2>3, ReqTyped DEF FindTarget, TypeOK
<1>4. CASE FindOpen(r)
  <2>1. PICK b \in BOOLEAN : b = (req[r].ok /\ open[Pair(r)] = 0)
    OBVIOUS
  <2>2. [req[r] EXCEPT !.left = @ \ {"open"}, !.ok = b] \in Filing
    BY <1>1 DEF Filing
  <2>3. req' = [req EXCEPT ![r] = [req[r] EXCEPT !.left = @ \ {"open"}, !.ok = b]]
    BY <1>1, <1>4, <2>1 DEF FindOpen, Put, Filing
  <2>4. QED
    BY <1>4, <2>2, <2>3, ReqTyped DEF FindOpen, TypeOK
<1>5. CASE Decide(r) \/ InsertReport(r) \/ CountReporters(r)
  <2>1. PICK q \in {Idle} \cup Filing : req' = [req EXCEPT ![r] = q]
    BY <1>2, <1>5 DEF Decide, InsertReport, CountReporters, Goto, Finish, Put
  <2>2. QED
    BY <1>5, <2>1, ReqTyped DEF Decide, InsertReport, CountReporters, TypeOK
<1>6. CASE HideProfile(r)
  <2>1. [req[r] EXCEPT !.pc = "commit", !.hidden = profile[req[r].of] # "none"] \in Filing
    BY <1>1 DEF Filing
  <2>2. QED
    BY <1>6, <2>1, ReqTyped DEF HideProfile, Put, TypeOK
<1>7. CASE Commit(r)
  <2>1. Pair(r) \in Pairs /\ req[r].of \in User
    BY <1>1, SlotTypes DEF Filing
  <2>2. req' \in [Req -> {Idle} \cup Filing]
    BY <1>7, ReqTyped DEF Commit, Finish, Put
  <2>3. QED
    BY <1>7, <2>1, <2>2 DEF Commit, TypeOK
<1>8. QED
  BY <1>3, <1>4, <1>5, <1>6, <1>7 DEF Step

LEMMA NextTypeOK == TypeOK /\ [Next \/ Crash]_vars => TypeOK'
<1> SUFFICES ASSUME TypeOK, [Next \/ Crash]_vars PROVE TypeOK'
  OBVIOUS
<1>1. ASSUME NEW r \in Req, NEW p \in Files, FileReport(r, p[1], p[2]) PROVE TypeOK'
  <2>1. p[1] \in User /\ p[2] \in User
    BY ReportsAssumption
  <2>2. [pc |-> "reads", by |-> p[1], of |-> p[2], left |-> {"target", "open"},
         ok |-> TRUE, hidden |-> FALSE] \in Filing
    BY <2>1 DEF Filing
  <2>3. QED
    BY <1>1, <2>2, ReqTyped DEF FileReport, Put, TypeOK
<1>2. ASSUME NEW u \in User, UpsertProfile(u) PROVE TypeOK'
  BY <1>2 DEF UpsertProfile, TypeOK
<1>3. ASSUME NEW p \in Pairs, ResolveReport(p) PROVE TypeOK'
  BY <1>3 DEF ResolveReport, TypeOK
<1>4. ASSUME NEW u \in Deletable, DeleteUser(u) PROVE TypeOK'
  BY <1>4, ReportsAssumption DEF DeleteUser, TypeOK
<1>5. CASE Crash
  BY <1>5 DEF Crash, TypeOK
<1>6. CASE UNCHANGED vars
  BY <1>6 DEF vars, TypeOK
<1>7. QED
  BY <1>1, <1>2, <1>3, <1>4, <1>5, <1>6, StepTypeOK DEF Next

(* Every variable keeps its type, crashes included.                        *)
THEOREM TypeCorrect == CrashSpec => []TypeOK
BY InitTypeOK, NextTypeOK, PTL DEF CrashSpec

-----------------------------------------------------------------------------
(* Duplicates.  Whoever found no open report of a pair holds a slot, and   *)
(* the next one to look finds one as soon as one of them has committed.    *)

Decided == \A r \in Req : req[r].pc \notin {"idle", "reads"} => req[r].left = {} /\ req[r].ok

AdmittedReq(q, p) ==
  q.pc # "idle" /\ <<q.by, q.of>> = p /\ "open" \notin q.left /\ q.ok

LEMMA AdmittedFinite ==
  ASSUME NEW p
  PROVE  /\ Admitted(p) = {r \in Req : AdmittedReq(req[r], p)}
         /\ IsFiniteSet(Admitted(p)) /\ Cardinality(Admitted(p)) \in Nat
<1>1. Admitted(p) \subseteq Req
  BY DEF Admitted
<1>2. IsFiniteSet(Admitted(p))
  BY <1>1, ReportsAssumption, FS_Subset
<1>3. QED
  BY <1>2, FS_CardinalityType DEF Admitted, AdmittedReq, Pair

LEMMA ReqSlots ==
  /\ Cardinality(Req) \in Nat \ {0}
  /\ \A r \in Req : IsFiniteSet(Req \ {r}) /\ Cardinality(Req \ {r}) = Cardinality(Req) - 1
<1>1. Cardinality(Req) \in Nat
  BY ReportsAssumption, FS_CardinalityType
<1>2. Cardinality(Req) # 0
  BY ReportsAssumption, FS_EmptySet
<1>3. \A r \in Req : IsFiniteSet(Req \ {r}) /\ Cardinality(Req \ {r}) = Cardinality(Req) - 1
  BY ReportsAssumption, FS_RemoveElement
<1>4. QED
  BY <1>1, <1>2, <1>3

\* A set with one element more.
LEMMA OneMore ==
  ASSUME NEW S, IsFiniteSet(S), NEW x
  PROVE  IsFiniteSet(S \cup {x}) /\ Cardinality(S \cup {x}) <= Cardinality(S) + 1
<1>1. Cardinality(S) \in Nat
  BY FS_CardinalityType
<1>2. CASE x \in S
  <2>1. IsFiniteSet(S \cup {x}) /\ Cardinality(S \cup {x}) = Cardinality(S)
    BY <1>2, FS_AddElement
  <2>2. QED
    BY <1>1, <2>1
<1>3. CASE x \notin S
  <2>1. IsFiniteSet(S \cup {x}) /\ Cardinality(S \cup {x}) = Cardinality(S) + 1
    BY <1>3, FS_AddElement
  <2>2. QED
    BY <1>1, <2>1
<1>4. QED
  BY <1>2, <1>3

\* A subset of a finite set is no larger.
LEMMA NoLarger ==
  ASSUME NEW S, NEW T, IsFiniteSet(T), S \subseteq T
  PROVE  /\ IsFiniteSet(S) /\ Cardinality(S) \in Nat /\ Cardinality(T) \in Nat
         /\ Cardinality(S) <= Cardinality(T)
<1>1. IsFiniteSet(S) /\ Cardinality(S) <= Cardinality(T)
  BY FS_Subset
<1>2. Cardinality(S) \in Nat /\ Cardinality(T) \in Nat
  BY <1>1, FS_CardinalityType
<1>3. QED
  BY <1>1, <1>2

\* Who gives up neither rows nor admissions stays within the budget.
LEMMA BudgetShrinks ==
  ASSUME TypeOK, TypeOK', NEW p \in Pairs,
         open[p] + Cardinality(Admitted(p)) <= Cardinality(Req),
         open'[p] <= open[p], Admitted(p)' \subseteq Admitted(p)
  PROVE  open'[p] + Cardinality(Admitted(p)') <= Cardinality(Req)
<1>1. Cardinality(Admitted(p)') <= Cardinality(Admitted(p)) /\ Cardinality(Admitted(p)') \in Nat
  BY AdmittedFinite, NoLarger
<1>2. open[p] \in Nat /\ open'[p] \in Nat
  BY DEF TypeOK
<1>3. QED
  BY <1>1, <1>2, AdmittedFinite, ReqSlots

LEMMA AdmittedAfter ==
  ASSUME TypeOK, NEW r \in Req, NEW q, req' = [req EXCEPT ![r] = q], NEW p,
         AdmittedReq(q, p) => AdmittedReq(req[r], p)
  PROVE  Admitted(p)' \subseteq Admitted(p)
BY AdmittedFinite DEF TypeOK, Admitted, AdmittedReq, Pair

DuplicateInv == TypeOK /\ Decided /\ DuplicateBudget

LEMMA InitDuplicateInv == Init => DuplicateInv
<1> SUFFICES ASSUME Init PROVE DuplicateInv
  OBVIOUS
<1>1. Decided /\ \A p \in Pairs : Admitted(p) = {} /\ open[p] = 0
  BY DEF Init, Decided, Admitted, Idle
<1>2. QED
  BY <1>1, InitTypeOK, FS_EmptySet, ReqSlots DEF DuplicateInv, DuplicateBudget

LEMMA StepDuplicateInv ==
  ASSUME DuplicateInv, NEW r \in Req, Step(r)
  PROVE  DuplicateInv'
<1> USE DEF Put, Goto, Finish
<1>t. TypeOK /\ TypeOK'
  BY StepTypeOK DEF DuplicateInv
<1>f. req[r] \in Filing
  BY <1>t, SlotTypes DEF Step, FindTarget, FindOpen, Decide, InsertReport, CountReporters, HideProfile, Commit
<1>i. Idle.pc = "idle" /\ \A p : ~AdmittedReq(Idle, p)
  BY DEF Idle, AdmittedReq
<1>b. \A p \in Pairs : open[p] + Cardinality(Admitted(p)) <= Cardinality(Req)
  BY DEF DuplicateInv, DuplicateBudget
<1>1. CASE FindOpen(r)
  <2> DEFINE q == [req[r] EXCEPT !.left = @ \ {"open"}, !.ok = @ /\ open[Pair(r)] = 0]
  <2>1. req' = [req EXCEPT ![r] = q] /\ open' = open
    BY <1>1 DEF FindOpen
  <2>2. /\ q.pc = "reads" /\ q.by = req[r].by /\ q.of = req[r].of
        /\ q.ok => open[Pair(r)] = 0
    BY <1>1, <1>f DEF FindOpen, Filing
  <2>3. Decided'
    BY <1>t, <2>1, <2>2 DEF TypeOK, DuplicateInv, Decided
  <2>4. ASSUME NEW p \in Pairs
        PROVE  open'[p] + Cardinality(Admitted(p)') <= Cardinality(Req)
    <3>1. CASE AdmittedReq(q, p)
      <4>1. open[p] = 0
        BY <2>2, <3>1 DEF AdmittedReq, Pair
      <4>2. Admitted(p)' \subseteq Req
        BY DEF Admitted
      <4>3. Cardinality(Admitted(p)') <= Cardinality(Req) /\ Cardinality(Admitted(p)') \in Nat
        BY <4>2, ReportsAssumption, NoLarger
      <4>4. QED
        BY <2>1, <4>1, <4>3, ReqSlots
    <3>2. CASE ~AdmittedReq(q, p)
      <4>1. Admitted(p)' \subseteq Admitted(p)
        BY <1>t, <2>1, <3>2, AdmittedAfter
      <4>2. open'[p] <= open[p]
        BY <1>t, <2>1 DEF TypeOK
      <4>3. QED
        BY <1>t, <1>b, <4>1, <4>2, BudgetShrinks
    <3>3. QED
      BY <3>1, <3>2
  <2>5. QED
    BY <1>t, <2>3, <2>4 DEF DuplicateInv, DuplicateBudget
<1>2. CASE Commit(r)
  <2>1. /\ req' = [req EXCEPT ![r] = Idle]
        /\ open' = [open EXCEPT ![Pair(r)] = @ + 1]
        /\ Pair(r) \in Pairs /\ r \in Admitted(Pair(r))
    BY <1>2, <1>t, <1>f, SlotTypes DEF Commit, Admitted, DuplicateInv, Decided
  <2>2. Decided'
    BY <1>t, <1>i, <2>1 DEF TypeOK, DuplicateInv, Decided
  <2>3. ASSUME NEW p \in Pairs
        PROVE  open'[p] + Cardinality(Admitted(p)') <= Cardinality(Req)
    <3>1. Admitted(p)' \subseteq Admitted(p)
      BY <1>t, <1>i, <2>1, AdmittedAfter
    <3>2. CASE p # Pair(r)
      <4>1. open'[p] <= open[p]
        BY <1>t, <2>1, <3>2 DEF TypeOK
      <4>2. QED
        BY <1>t, <1>b, <3>1, <4>1, BudgetShrinks
    <3>3. CASE p = Pair(r)
      <4>1. Admitted(p)' \subseteq Admitted(p) \ {r}
        <5>1. r \notin Admitted(p)'
          BY <1>t, <2>1 DEF TypeOK, Admitted, Idle
        <5>2. QED
          BY <3>1, <5>1
      <4>2. /\ IsFiniteSet(Admitted(p) \ {r})
            /\ Cardinality(Admitted(p) \ {r}) = Cardinality(Admitted(p)) - 1
        BY <2>1, <3>3, AdmittedFinite, FS_RemoveElement
      <4>3. /\ Cardinality(Admitted(p)') <= Cardinality(Admitted(p)) - 1
            /\ Cardinality(Admitted(p)') \in Nat
        BY <4>1, <4>2, NoLarger
      <4>4. open'[p] = open[p] + 1 /\ open[p] \in Nat
        BY <1>t, <2>1, <3>3 DEF TypeOK
      <4>5. QED
        BY <1>b, <4>3, <4>4, AdmittedFinite, ReqSlots
    <3>4. QED
      BY <3>2, <3>3
  <2>4. QED
    BY <1>t, <2>2, <2>3 DEF DuplicateInv, DuplicateBudget
<1>3. ASSUME UNCHANGED open, NEW q, req' = [req EXCEPT ![r] = q],
             \A p \in Pairs : AdmittedReq(q, p) => AdmittedReq(req[r], p),
             q.pc \notin {"idle", "reads"} => q.left = {} /\ q.ok
      PROVE  DuplicateInv'
  <2>1. Decided'
    BY <1>t, <1>3 DEF TypeOK, DuplicateInv, Decided
  <2>2. ASSUME NEW p \in Pairs
        PROVE  open'[p] + Cardinality(Admitted(p)') <= Cardinality(Req)
    <3>1. Admitted(p)' \subseteq Admitted(p)
      BY <1>t, <1>3, AdmittedAfter
    <3>2. open'[p] <= open[p]
      BY <1>t, <1>3 DEF TypeOK
    <3>3. QED
      BY <1>t, <1>b, <3>1, <3>2, BudgetShrinks
  <2>3. QED
    BY <1>t, <2>1, <2>2 DEF DuplicateInv, DuplicateBudget
<1>4. CASE req' = [req EXCEPT ![r] = Idle] /\ open' = open
  BY <1>i, <1>3, <1>4
<1>5. CASE FindTarget(r)
  <2> DEFINE q == [req[r] EXCEPT !.left = @ \ {"target"}, !.ok = @ /\ req[r].of \notin gone]
  <2>1. \A p \in Pairs : AdmittedReq(q, p) => AdmittedReq(req[r], p)
    BY <1>5, <1>f DEF FindTarget, AdmittedReq, Filing
  <2>2. q.pc = "reads"
    BY <1>5, <1>f DEF FindTarget, Filing
  <2>3. QED
    BY <1>3, <1>5, <2>1, <2>2 DEF FindTarget
<1>6. ASSUME UNCHANGED open, NEW pc \in {"insert", "count", "hide", "commit"},
             req' = [req EXCEPT ![r] = [req[r] EXCEPT !.pc = pc]],
             req[r].left = {} /\ req[r].ok
      PROVE  DuplicateInv'
  <2> DEFINE q == [req[r] EXCEPT !.pc = pc]
  <2>1. \A p \in Pairs : AdmittedReq(q, p) => AdmittedReq(req[r], p)
    BY <1>f, <1>6, SlotTypes, <1>t DEF AdmittedReq, Filing
  <2>2. q.left = {} /\ q.ok
    BY <1>f, <1>6 DEF Filing
  <2>3. QED
    BY <1>3, <1>6, <2>1, <2>2
<1>7. CASE HideProfile(r)
  <2> DEFINE q == [req[r] EXCEPT !.pc = "commit", !.hidden = profile[req[r].of] # "none"]
  <2>0. req[r].left = {} /\ req[r].ok
    BY <1>7 DEF HideProfile, DuplicateInv, Decided
  <2>1. \A p \in Pairs : AdmittedReq(q, p) => AdmittedReq(req[r], p)
    BY <1>7, <1>f DEF HideProfile, AdmittedReq, Filing
  <2>2. q.left = {} /\ q.ok
    BY <1>f, <2>0 DEF Filing
  <2>3. QED
    BY <1>3, <1>7, <2>1, <2>2 DEF HideProfile
<1>8. CASE Decide(r) \/ InsertReport(r) \/ CountReporters(r)
  <2>1. req[r].pc # "reads" => req[r].left = {} /\ req[r].ok
    BY <1>8 DEF Decide, InsertReport, CountReporters, DuplicateInv, Decided
  <2>2. CASE Decide(r)
    BY <1>4, <1>6, <2>2 DEF Decide
  <2>3. CASE InsertReport(r)
    BY <1>4, <1>6, <2>1, <2>3 DEF InsertReport
  <2>4. CASE CountReporters(r)
    <3>1. PICK pc \in {"hide", "commit"} : req' = [req EXCEPT ![r] = [req[r] EXCEPT !.pc = pc]]
      BY <2>4 DEF CountReporters
    <3>2. QED
      BY <1>6, <2>1, <2>4, <3>1 DEF CountReporters
  <2>5. QED
    BY <1>8, <2>2, <2>3, <2>4
<1>9. QED
  BY <1>1, <1>2, <1>5, <1>7, <1>8 DEF Step

LEMMA NextDuplicateInv == DuplicateInv /\ [Next \/ Crash]_vars => DuplicateInv'
<1> SUFFICES ASSUME DuplicateInv, [Next \/ Crash]_vars PROVE DuplicateInv'
  OBVIOUS
<1>t. TypeOK /\ TypeOK'
  BY NextTypeOK DEF DuplicateInv
<1>b. \A p \in Pairs : open[p] + Cardinality(Admitted(p)) <= Cardinality(Req)
  BY DEF DuplicateInv, DuplicateBudget
<1>1. ASSUME Decided', \A p \in Pairs : open'[p] <= open[p] /\ Admitted(p)' \subseteq Admitted(p)
      PROVE  DuplicateInv'
  BY <1>t, <1>b, <1>1, BudgetShrinks DEF DuplicateInv, DuplicateBudget
<1>0. \A p \in Pairs : open[p] \in Nat /\ open[p] <= open[p]
  BY <1>t DEF TypeOK
<1>2. ASSUME NEW r \in Req, NEW p \in Files, FileReport(r, p[1], p[2]) PROVE DuplicateInv'
  <2> DEFINE q == [pc |-> "reads", by |-> p[1], of |-> p[2], left |-> {"target", "open"},
                   ok |-> TRUE, hidden |-> FALSE]
  <2>1. (\A o \in Pairs : ~AdmittedReq(q, o)) /\ q.pc = "reads"
    BY DEF AdmittedReq
  <2>2. req' = [req EXCEPT ![r] = q] /\ open' = open
    BY <1>2 DEF FileReport, Put
  <2> HIDE DEF q
  <2>3. Decided'
    BY <1>t, <2>1, <2>2 DEF DuplicateInv, Decided, TypeOK
  <2>4. \A o \in Pairs : Admitted(o)' \subseteq Admitted(o)
    BY <1>t, <2>1, <2>2, AdmittedAfter
  <2>5. QED
    BY <1>0, <1>1, <2>2, <2>3, <2>4
<1>3. CASE UNCHANGED <<open, req>>
  BY <1>0, <1>1, <1>3 DEF Admitted, Pair, DuplicateInv, Decided
<1>4. ASSUME NEW p \in Pairs, ResolveReport(p) PROVE DuplicateInv'
  <2>1. \A o \in Pairs : open'[o] <= open[o]
    BY <1>t, <1>4 DEF ResolveReport, TypeOK
  <2>2. QED
    BY <1>1, <1>4, <2>1 DEF ResolveReport, Admitted, Pair, DuplicateInv, Decided
<1>5. ASSUME NEW u \in User, DeleteUser(u) PROVE DuplicateInv'
  <2>1. \A o \in Pairs : open'[o] <= open[o]
    BY <1>t, <1>5 DEF DeleteUser, TypeOK
  <2>2. QED
    BY <1>1, <1>5, <2>1 DEF DeleteUser, Admitted, Pair, DuplicateInv, Decided
<1>6. CASE Crash
  <2>1. Decided' /\ \A p \in Pairs : Admitted(p)' = {}
    BY <1>6 DEF Crash, Decided, Admitted, Idle
  <2>2. QED
    BY <1>0, <1>1, <1>6, <2>1 DEF Crash
<1>7. QED
  BY <1>2, <1>3, <1>4, <1>5, <1>6, StepDuplicateInv, ReportsAssumption DEF Next, UpsertProfile, vars

(* 'You already have an open report' holds up to the reports in flight at  *)
(* once, for any number of them and whatever is resolved meanwhile.        *)
THEOREM DuplicateBudgetKept == CrashSpec => []DuplicateBudget
<1>1. DuplicateInv => DuplicateBudget
  BY DEF DuplicateInv
<1>2. QED
  BY <1>1, InitDuplicateInv, NextDuplicateInv, PTL DEF CrashSpec

-----------------------------------------------------------------------------
(* Hiding in time.  What a transaction has counted is short of the         *)
(* threshold by one at least, and the reports it did not see hold other    *)
(* slots.  A settled user in a transaction has a profile to hide.          *)

\* A set named by the elements of another one is no larger.
LEMMA NamedBy ==
  ASSUME NEW S, NEW T, NEW f, IsFiniteSet(S), \A v \in T : \E s \in S : v = f[s]
  PROVE  IsFiniteSet(T) /\ Cardinality(T) \in Nat /\ Cardinality(T) <= Cardinality(S)
<1> DEFINE R == {f[s] : s \in S}
           g == [s \in S |-> f[s]]
<1>1. g \in Surjection(S, R)
  BY DEF Surjection
<1>2. IsFiniteSet(R) /\ Cardinality(R) <= Cardinality(S)
  BY <1>1, FS_Surjection
<1>3. T \subseteq R
  OBVIOUS
<1> HIDE DEF R
<1>4. IsFiniteSet(T) /\ Cardinality(T) \in Nat /\ Cardinality(R) \in Nat
      /\ Cardinality(T) <= Cardinality(R)
  BY <1>2, <1>3, NoLarger
<1>5. Cardinality(S) \in Nat
  BY FS_CardinalityType
<1>6. QED
  BY <1>2, <1>4, <1>5

SettledHasProfile == \A u \in Settled : profile[u] = "none" => u \in gone

NobodyGone == \A r \in Req : InTransaction(r) => {req[r].by, req[r].of} \cap gone = {}

HideInv == TypeOK /\ SettledHasProfile /\ NobodyGone /\ HideBudget

\* A report about to commit that leaves the profile of u as it is.
Late(q, v, u) == q.pc = "commit" /\ ~q.hidden /\ <<q.by, q.of>> = <<v, u>>

LEMMA UncountedSet ==
  ASSUME NEW u \in User
  PROVE  /\ Uncounted(u) = OpenReporters(u) \cup {v \in User : \E r \in Req : Late(req[r], v, u)}
         /\ Uncounted(u) \subseteq User
         /\ IsFiniteSet(Uncounted(u)) /\ Cardinality(Uncounted(u)) \in Nat
         /\ IsFiniteSet(OpenReporters(u))
<1>1. Uncounted(u) \subseteq User /\ OpenReporters(u) \subseteq User
  BY DEF Uncounted, OpenReporters
<1>2. IsFiniteSet(Uncounted(u)) /\ Cardinality(Uncounted(u)) \in Nat /\ IsFiniteSet(OpenReporters(u))
  BY <1>1, ReportsAssumption, NoLarger
<1>3. QED
  BY <1>1, <1>2 DEF Uncounted, Late, Pair

LEMMA HideShrinks ==
  ASSUME HideBudget,
         \A u \in Settled : profile'[u] = "visible" =>
           profile[u] = "visible" /\ Uncounted(u)' \subseteq Uncounted(u)
  PROVE  HideBudget'
<1> SUFFICES ASSUME NEW u \in Settled, profile'[u] = "visible"
             PROVE  Cardinality(Uncounted(u)') <= HideAt - 2 + Cardinality(Req)
  BY DEF HideBudget
<1>1. u \in User
  BY ReportsAssumption
<1>2. /\ Cardinality(Uncounted(u)') \in Nat
      /\ Cardinality(Uncounted(u)') <= Cardinality(Uncounted(u))
  BY <1>1, UncountedSet, NoLarger
<1>3. Cardinality(Uncounted(u)) <= HideAt - 2 + Cardinality(Req)
  BY DEF HideBudget
<1>4. QED
  BY <1>1, <1>2, <1>3, UncountedSet, ReqSlots, ReportsAssumption

LEMMA UncountedAfter ==
  ASSUME TypeOK, NEW u \in User, UNCHANGED open,
         NEW r \in Req, NEW q, req' = [req EXCEPT ![r] = q],
         \A v \in User : ~Late(q, v, u)
  PROVE  Uncounted(u)' \subseteq Uncounted(u)
<1>1. OpenReporters(u)' = OpenReporters(u)
  BY DEF OpenReporters
<1>2. \A v \in User, s \in Req : Late(req[s], v, u)' => Late(req[s], v, u)
  BY DEF TypeOK, Late
<1>3. QED
  BY <1>1, <1>2 DEF Uncounted, Late, Pair

LEMMA InitHideInv == Init => HideInv
<1> SUFFICES ASSUME Init PROVE HideInv
  OBVIOUS
<1>1. SettledHasProfile /\ NobodyGone
  BY ReportsAssumption DEF Init, SettledHasProfile, NobodyGone, InTransaction, Idle
<1>2. \A u \in Settled : Uncounted(u) = {}
  BY ReportsAssumption DEF Init, Uncounted, OpenReporters, Pairs, Idle
<1>3. HideBudget
  <2>1. \A u \in Settled : Cardinality(Uncounted(u)) = 0
    BY <1>2, FS_EmptySet
  <2>2. 0 <= HideAt - 2 + Cardinality(Req)
    BY ReqSlots, ReportsAssumption
  <2>3. QED
    BY <2>1, <2>2 DEF HideBudget
<1>4. QED
  BY <1>1, <1>3, InitTypeOK DEF HideInv

LEMMA StepHideInv ==
  ASSUME HideInv, NEW r \in Req, Step(r)
  PROVE  HideInv'
<1> USE DEF Put, Goto, Finish
<1>t. TypeOK /\ TypeOK'
  BY StepTypeOK DEF HideInv
<1>f. req[r] \in Filing
  BY <1>t, SlotTypes DEF Step, FindTarget, FindOpen, Decide, InsertReport, CountReporters, HideProfile, Commit
<1>i. Idle.pc = "idle"
  BY DEF Idle
<1>p. Pair(r) = <<req[r].by, req[r].of>> /\ req[r].by \in User /\ req[r].of \in User
  BY <1>f DEF Pair, Filing
\* A step that only moves the request, and not to a commit that hides nothing.
<1>1. ASSUME UNCHANGED <<profile, open, gone>>, NEW q, req' = [req EXCEPT ![r] = q],
             q.pc \in {"count", "hide", "commit"} => {q.by, q.of} \cap gone = {},
             \A u \in Settled : profile[u] = "visible" => \A v \in User : ~Late(q, v, u)
      PROVE  HideInv'
  <2>1. SettledHasProfile' /\ NobodyGone'
    BY <1>t, <1>1 DEF HideInv, SettledHasProfile, NobodyGone, InTransaction, TypeOK
  <2>2. HideBudget'
    BY <1>t, <1>1, UncountedAfter, HideShrinks, ReportsAssumption DEF HideInv
  <2>3. QED
    BY <1>t, <2>1, <2>2 DEF HideInv
<1>2. CASE FindTarget(r) \/ FindOpen(r)
  <2>1. PICK q : req' = [req EXCEPT ![r] = q] /\ q.pc = "reads"
    <3>1. CASE FindTarget(r)
      <4> DEFINE q == [req[r] EXCEPT !.left = @ \ {"target"}, !.ok = @ /\ req[r].of \notin gone]
      <4>1. req' = [req EXCEPT ![r] = q] /\ q.pc = "reads"
        BY <1>f, <3>1 DEF FindTarget, Filing
      <4>2. QED
        BY <4>1
    <3>2. CASE FindOpen(r)
      <4> DEFINE q == [req[r] EXCEPT !.left = @ \ {"open"}, !.ok = @ /\ open[Pair(r)] = 0]
      <4>1. req' = [req EXCEPT ![r] = q] /\ q.pc = "reads"
        BY <1>f, <3>2 DEF FindOpen, Filing
      <4>2. QED
        BY <4>1
    <3>3. QED
      BY <1>2, <3>1, <3>2
  <2>2. QED
    BY <1>1, <1>2, <2>1 DEF FindTarget, FindOpen, Late
<1>3. ASSUME UNCHANGED <<profile, open, gone>>, req' = [req EXCEPT ![r] = Idle] PROVE HideInv'
  BY <1>1, <1>3, <1>i DEF Late
<1>4. ASSUME UNCHANGED <<profile, open, gone>>, NEW pc \in {"insert", "count", "hide"},
             req' = [req EXCEPT ![r] = [req[r] EXCEPT !.pc = pc]],
             pc # "insert" => {req[r].by, req[r].of} \cap gone = {}
      PROVE  HideInv'
  <2> DEFINE q == [req[r] EXCEPT !.pc = pc]
  <2>1. q.pc = pc /\ q.by = req[r].by /\ q.of = req[r].of
    BY <1>f DEF Filing
  <2>2. QED
    BY <1>1, <1>4, <2>1 DEF Late
<1>5. CASE Decide(r) \/ InsertReport(r)
  BY <1>3, <1>4, <1>5 DEF Decide, InsertReport
<1>6. CASE CountReporters(r)
  <2> DEFINE u == req[r].of
             q == [req[r] EXCEPT !.pc = "commit"]
             seen == OpenReporters(u) \cup {req[r].by}
  <2>0. {req[r].by, req[r].of} \cap gone = {}
    BY <1>6 DEF CountReporters, HideInv, NobodyGone, InTransaction
  <2>1. CASE Cardinality(seen) >= HideAt
    BY <1>4, <1>6, <2>0, <2>1 DEF CountReporters
  <2>2. CASE ~(Cardinality(seen) >= HideAt)
    <3>1. /\ req' = [req EXCEPT ![r] = q]
          /\ q.pc = "commit" /\ q.by = req[r].by /\ q.of = u
          /\ UNCHANGED <<profile, open, gone>>
      BY <1>f, <1>6, <2>2 DEF CountReporters, Filing
    <3> HIDE DEF q
    <3>2. SettledHasProfile' /\ NobodyGone'
      BY <1>t, <2>0, <3>1 DEF HideInv, SettledHasProfile, NobodyGone, InTransaction, TypeOK
    <3>3. ASSUME NEW w \in Settled, profile'[w] = "visible"
          PROVE  Cardinality(Uncounted(w)') <= HideAt - 2 + Cardinality(Req)
      <4>0. w \in User
        BY ReportsAssumption
      <4>1. CASE w # u
        <5>1. Uncounted(w)' \subseteq Uncounted(w)
          BY <1>t, <3>1, <4>0, <4>1, UncountedAfter DEF Late
        <5>2. /\ Cardinality(Uncounted(w)') \in Nat
              /\ Cardinality(Uncounted(w)') <= Cardinality(Uncounted(w))
          BY <4>0, <5>1, UncountedSet, NoLarger
        <5>3. Cardinality(Uncounted(w)) <= HideAt - 2 + Cardinality(Req)
          BY <3>1, <3>3 DEF HideInv, HideBudget
        <5>4. QED
          BY <4>0, <5>2, <5>3, UncountedSet, ReqSlots, ReportsAssumption
      <4>2. CASE w = u
        <5> DEFINE others == {v \in User : \E s \in Req \ {r} : v = req[s].by}
        <5>1. Uncounted(w)' \subseteq seen \cup others
          <6>1. OpenReporters(w)' = OpenReporters(w)
            BY <3>1 DEF OpenReporters
          <6>2. ASSUME NEW v \in User, NEW s \in Req, Late(req[s], v, w)'
                PROVE  v \in seen \cup others
            BY <1>t, <3>1, <4>2, <6>2 DEF Late, TypeOK
          <6>3. QED
            BY <4>2, <6>1, <6>2 DEF Uncounted, Late, Pair
        <5>2. IsFiniteSet(others) /\ Cardinality(others) \in Nat /\ Cardinality(others) <= Cardinality(Req) - 1
          <6> DEFINE f == [s \in Req |-> req[s].by]
          <6>1. \A v \in others : \E s \in Req \ {r} : v = f[s]
            OBVIOUS
          <6> HIDE DEF f, others
          <6>2. /\ IsFiniteSet(others) /\ Cardinality(others) \in Nat
                /\ Cardinality(others) <= Cardinality(Req \ {r})
            BY <6>1, ReqSlots, NamedBy
          <6>3. QED
            BY <6>2, ReqSlots
        <5> HIDE DEF others
        <5>3. IsFiniteSet(seen) /\ Cardinality(seen) \in Nat
          BY <4>0, <4>2, UncountedSet, FS_AddElement, FS_CardinalityType
        <5> HIDE DEF seen
        <5>4. IsFiniteSet(seen \cup others)
              /\ Cardinality(seen \cup others) <= Cardinality(seen) + Cardinality(others)
          <6>1. /\ IsFiniteSet(seen \cup others)
                /\ Cardinality(seen \cup others)
                     = Cardinality(seen) + Cardinality(others) - Cardinality(seen \cap others)
            BY <5>2, <5>3, FS_Union
          <6>2. seen \cap others \subseteq seen
            OBVIOUS
          <6>3. Cardinality(seen \cap others) \in Nat
            BY <5>3, <6>2, NoLarger
          <6>4. QED
            BY <5>2, <5>3, <6>1, <6>3
        <5>5. /\ Cardinality(Uncounted(w)') <= Cardinality(seen \cup others)
              /\ Cardinality(Uncounted(w)') \in Nat /\ Cardinality(seen \cup others) \in Nat
          BY <5>1, <5>4, NoLarger
        <5>6. QED
          <6>1. Cardinality(seen) <= HideAt - 1
            BY <2>2, <5>3, ReportsAssumption DEF seen
          <6>2. QED
            BY <5>2, <5>3, <5>4, <5>5, <6>1, ReqSlots, ReportsAssumption
      <4>3. QED
        BY <4>1, <4>2
    <3>4. QED
      BY <1>t, <3>2, <3>3 DEF HideInv, HideBudget
  <2>3. QED
    BY <2>1, <2>2
<1>7. CASE HideProfile(r)
  <2> DEFINE q == [req[r] EXCEPT !.pc = "commit", !.hidden = profile[req[r].of] # "none"]
  <2>0. {req[r].by, req[r].of} \cap gone = {}
    BY <1>7 DEF HideProfile, HideInv, NobodyGone, InTransaction
  <2>1. /\ q.by = req[r].by /\ q.of = req[r].of
        /\ q.hidden <=> profile[req[r].of] # "none"
    BY <1>f DEF Filing
  <2>2. req' = [req EXCEPT ![r] = q] /\ UNCHANGED <<profile, open, gone>>
    BY <1>7 DEF HideProfile
  <2> HIDE DEF q
  <2>3. \A u \in Settled : profile[u] = "visible" => \A v \in User : ~Late(q, v, u)
    BY <2>1 DEF Late
  <2>4. QED
    BY <1>1, <2>0, <2>1, <2>2, <2>3
<1>8. CASE Commit(r)
  <2>0. /\ req[r].pc = "commit" /\ gone' = gone
        /\ req' = [req EXCEPT ![r] = Idle]
        /\ open' = [open EXCEPT ![Pair(r)] = @ + 1]
    BY <1>8 DEF Commit
  <2>1. \A u \in User : \/ profile'[u] = profile[u]
                        \/ profile'[u] = "hidden" /\ req[r].hidden /\ u = req[r].of
    BY <1>t, <1>p, <1>8 DEF Commit, TypeOK
  <2>2. SettledHasProfile' /\ NobodyGone'
    BY <1>t, <1>i, <2>0, <2>1, ReportsAssumption
       DEF HideInv, SettledHasProfile, NobodyGone, InTransaction, TypeOK
  <2>3. ASSUME NEW u \in User, profile'[u] = "visible"
        PROVE  profile[u] = "visible" /\ Uncounted(u)' \subseteq Uncounted(u)
    <3>1. profile[u] = "visible"
      BY <2>1, <2>3
    <3>2. \A v \in User : open'[<<v, u>>] > 0 => open[<<v, u>>] > 0 \/ Pair(r) = <<v, u>>
      BY <1>t, <1>p, <2>0 DEF TypeOK, Pairs
    <3>3. Pair(r) = <<req[r].by, u>> => ~req[r].hidden
      BY <1>8, <1>t, <1>p, <2>3 DEF Commit, TypeOK
    <3>4. \A v \in User, s \in Req : Late(req[s], v, u)' => Late(req[s], v, u)
      BY <1>t, <1>i, <2>0 DEF TypeOK, Late
    <3>5. OpenReporters(u)' \subseteq Uncounted(u)
      BY <1>p, <2>0, <3>2, <3>3 DEF OpenReporters, Uncounted
    <3>6. QED
      BY <3>1, <3>4, <3>5 DEF Uncounted, Late, Pair
  <2>4. HideBudget'
    BY <2>3, HideShrinks, ReportsAssumption DEF HideInv
  <2>5. QED
    BY <1>t, <2>2, <2>4 DEF HideInv
<1>9. QED
  BY <1>2, <1>5, <1>6, <1>7, <1>8 DEF Step

LEMMA NextHideInv == HideInv /\ [Next \/ Crash]_vars => HideInv'
<1> SUFFICES ASSUME HideInv, [Next \/ Crash]_vars PROVE HideInv'
  OBVIOUS
<1>t. TypeOK /\ TypeOK'
  BY NextTypeOK DEF HideInv
<1>1. ASSUME NEW r \in Req, NEW p \in Files, FileReport(r, p[1], p[2]) PROVE HideInv'
  <2> DEFINE q == [pc |-> "reads", by |-> p[1], of |-> p[2], left |-> {"target", "open"},
                   ok |-> TRUE, hidden |-> FALSE]
  <2>1. q.pc = "reads" /\ req' = [req EXCEPT ![r] = q] /\ UNCHANGED <<profile, open, gone>>
    BY <1>1 DEF FileReport, Put
  <2> HIDE DEF q
  <2>2. SettledHasProfile' /\ NobodyGone'
    BY <1>t, <2>1 DEF HideInv, SettledHasProfile, NobodyGone, InTransaction, TypeOK
  <2>3. HideBudget'
    BY <1>t, <2>1, UncountedAfter, HideShrinks, ReportsAssumption DEF HideInv, Late
  <2>4. QED
    BY <1>t, <2>2, <2>3 DEF HideInv
<1>2. ASSUME NEW u \in User, UpsertProfile(u) PROVE HideInv'
  <2>1. \A w \in Settled : profile'[w] = profile[w]
    BY <1>t, <1>2, ReportsAssumption DEF UpsertProfile, HideInv, SettledHasProfile, TypeOK
  <2>2. HideBudget'
    BY <1>2, <2>1, HideShrinks DEF HideInv, UpsertProfile, Uncounted, OpenReporters, Pair
  <2>3. QED
    BY <1>t, <1>2, <2>1, <2>2 DEF UpsertProfile, HideInv, SettledHasProfile, NobodyGone, InTransaction
<1>3. ASSUME NEW p \in Pairs, ResolveReport(p) PROVE HideInv'
  <2>1. \A o \in Pairs : open'[o] > 0 => open[o] > 0
    BY <1>t, <1>3 DEF ResolveReport, TypeOK
  <2>2. \A u \in User : Uncounted(u)' \subseteq Uncounted(u)
    BY <1>3, <2>1 DEF ResolveReport, Uncounted, OpenReporters, Pair, Pairs
  <2>3. HideBudget'
    BY <1>3, <2>2, HideShrinks, ReportsAssumption DEF ResolveReport, HideInv
  <2>4. QED
    BY <1>t, <1>3, <2>3 DEF ResolveReport, HideInv, SettledHasProfile, NobodyGone, InTransaction
<1>4. ASSUME NEW u \in User, DeleteUser(u) PROVE HideInv'
  <2>1. \A o \in Pairs : open'[o] > 0 => open[o] > 0
    BY <1>t, <1>4 DEF DeleteUser, TypeOK
  <2>2. \A w \in User : Uncounted(w)' \subseteq Uncounted(w)
    BY <1>4, <2>1 DEF DeleteUser, Uncounted, OpenReporters, Pair, Pairs
  <2>3. \A w \in User : profile'[w] = IF w = u THEN "none" ELSE profile[w]
    BY <1>t, <1>4 DEF DeleteUser, TypeOK
  <2>4. HideBudget'
    BY <2>2, <2>3, HideShrinks, ReportsAssumption DEF HideInv
  <2>5. SettledHasProfile' /\ NobodyGone'
    BY <1>4, <2>3, ReportsAssumption DEF DeleteUser, HideInv, SettledHasProfile, NobodyGone, InTransaction
  <2>6. QED
    BY <1>t, <2>4, <2>5 DEF HideInv
<1>5. CASE Crash
  <2>1. /\ \A r \in Req : req'[r].pc = "idle"
        /\ UNCHANGED <<profile, open, gone>>
    BY <1>5 DEF Crash, Idle
  <2>2. \A u \in User : Uncounted(u)' \subseteq Uncounted(u)
    BY <2>1 DEF Uncounted, OpenReporters
  <2>3. HideBudget'
    BY <2>1, <2>2, HideShrinks, ReportsAssumption DEF HideInv
  <2>4. QED
    BY <1>t, <2>1, <2>3 DEF HideInv, SettledHasProfile, NobodyGone, InTransaction
<1>6. CASE UNCHANGED vars
  BY <1>t, <1>6, HideShrinks DEF vars, HideInv, SettledHasProfile, NobodyGone, InTransaction,
     Uncounted, OpenReporters, Pair
<1>7. QED
  BY <1>1, <1>2, <1>3, <1>4, <1>5, <1>6, StepHideInv, ReportsAssumption DEF Next

(* A settled profile that is still visible has been reported by fewer      *)
(* users than the threshold and the other reports in flight allow, for any *)
(* threshold: READ COMMITTED hides from a count what others have inserted. *)
THEOREM HideBudgetKept == CrashSpec => []HideBudget
<1>1. HideInv => HideBudget
  BY DEF HideInv
<1>2. QED
  BY <1>1, InitHideInv, NextHideInv, PTL DEF CrashSpec

-----------------------------------------------------------------------------
(* Hiding with reason.  A transaction that hides has counted reporters who *)
(* stay filed, or go with their accounts, until it commits.                *)

Behind(u) == {v \in User : <<v, u>> \in filed} \cup gone

OpenIsFiled == \A p \in Pairs : open[p] > 0 => p \in filed

HasReason(q) ==
  /\ q.pc # "idle" /\ q.hidden => q.pc = "commit"
  /\ q.pc = "hide" \/ (q.pc = "commit" /\ q.hidden) =>
       Cardinality(Behind(q.of) \cup {q.by}) >= HideAt

ReasonInv ==
  /\ TypeOK /\ NobodyGone /\ OpenIsFiled
  /\ \A r \in Req : HasReason(req[r])
  /\ HiddenForReason

LEMMA BehindFinite ==
  ASSUME TypeOK, NEW u \in User
  PROVE  /\ Behind(u) \subseteq User /\ IsFiniteSet(Behind(u))
         /\ \A v \in User : IsFiniteSet(Behind(u) \cup {v})
<1>1. Behind(u) \subseteq User
  BY DEF Behind, TypeOK
<1>2. IsFiniteSet(Behind(u))
  BY <1>1, ReportsAssumption, NoLarger
<1>3. QED
  BY <1>1, <1>2, FS_AddElement

\* What is behind a profile only grows, as long as its user is there.
LEMMA BehindGrows ==
  ASSUME TypeOK, TypeOK', NEW u \in User, gone \subseteq gone',
         \A v \in User : <<v, u>> \in filed => <<v, u>> \in filed' \/ v \in gone'
  PROVE  /\ Cardinality(Behind(u)) >= HideAt => Cardinality(Behind(u)') >= HideAt
         /\ \A v \in User : Cardinality(Behind(u) \cup {v}) >= HideAt =>
              Cardinality(Behind(u)' \cup {v}) >= HideAt
<1>1. Behind(u) \subseteq Behind(u)'
  BY DEF Behind
<1>2. IsFiniteSet(Behind(u)') /\ Behind(u)' \subseteq User
  <2>1. Behind(u)' \subseteq User
    BY DEF Behind, TypeOK
  <2>2. QED
    BY <2>1, ReportsAssumption, NoLarger
<1>3. Cardinality(Behind(u)) >= HideAt => Cardinality(Behind(u)') >= HideAt
  BY <1>1, <1>2, NoLarger, ReportsAssumption
<1>4. ASSUME NEW v \in User, Cardinality(Behind(u) \cup {v}) >= HideAt
      PROVE  Cardinality(Behind(u)' \cup {v}) >= HideAt
  <2>1. IsFiniteSet(Behind(u)' \cup {v})
    BY <1>2, FS_AddElement
  <2>2. Behind(u) \cup {v} \subseteq Behind(u)' \cup {v}
    BY <1>1
  <2>3. QED
    BY <1>4, <2>1, <2>2, NoLarger, ReportsAssumption
<1>5. QED
  BY <1>3, <1>4

LEMMA InitReasonInv == Init => ReasonInv
<1> SUFFICES ASSUME Init PROVE ReasonInv
  OBVIOUS
<1>1. NobodyGone /\ OpenIsFiled
  BY DEF Init, NobodyGone, InTransaction, Idle, OpenIsFiled
<1>2. \A r \in Req : HasReason(req[r])
  BY DEF Init, HasReason, Idle
<1>3. HiddenForReason
  BY DEF Init, HiddenForReason
<1>4. QED
  BY <1>1, <1>2, <1>3, InitTypeOK DEF ReasonInv

LEMMA StepReasonInv ==
  ASSUME ReasonInv, NEW r \in Req, Step(r)
  PROVE  ReasonInv'
<1> USE DEF Put, Goto, Finish
<1>t. TypeOK /\ TypeOK'
  BY StepTypeOK DEF ReasonInv
<1>f. req[r] \in Filing
  BY <1>t, SlotTypes DEF Step, FindTarget, FindOpen, Decide, InsertReport, CountReporters, HideProfile, Commit
<1>i. Idle.pc = "idle"
  BY DEF Idle
<1>p. Pair(r) = <<req[r].by, req[r].of>> /\ req[r].by \in User /\ req[r].of \in User
  BY <1>f DEF Pair, Filing
<1>h. HasReason(req[r])
  BY DEF ReasonInv
\* A step that only moves the request, to something it has reason for.
<1>1. ASSUME UNCHANGED <<profile, open, filed, gone>>, NEW q, req' = [req EXCEPT ![r] = q],
             q.pc \in {"count", "hide", "commit"} => {q.by, q.of} \cap gone = {},
             HasReason(q)
      PROVE  ReasonInv'
  <2>1. NobodyGone' /\ OpenIsFiled'
    BY <1>t, <1>1 DEF ReasonInv, NobodyGone, OpenIsFiled, InTransaction, TypeOK
  <2>2. \A s \in Req : HasReason(req[s])'
    BY <1>t, <1>1 DEF ReasonInv, HasReason, Behind, TypeOK
  <2>3. HiddenForReason'
    BY <1>1 DEF ReasonInv, HiddenForReason
  <2>4. QED
    BY <1>t, <2>1, <2>2, <2>3 DEF ReasonInv
<1>2. ASSUME UNCHANGED <<profile, open, filed, gone>>, req' = [req EXCEPT ![r] = Idle]
      PROVE  ReasonInv'
  BY <1>1, <1>2, <1>i DEF HasReason
<1>3. CASE FindTarget(r)
  <2> DEFINE q == [req[r] EXCEPT !.left = @ \ {"target"}, !.ok = @ /\ req[r].of \notin gone]
  <2>1. req' = [req EXCEPT ![r] = q] /\ q.pc = "reads" /\ q.hidden = req[r].hidden
    BY <1>f, <1>3 DEF FindTarget, Filing
  <2>2. HasReason(q)
    BY <1>3, <1>h, <2>1 DEF FindTarget, HasReason
  <2>3. QED
    BY <1>1, <1>3, <2>1, <2>2 DEF FindTarget
<1>4. CASE FindOpen(r)
  <2> DEFINE q == [req[r] EXCEPT !.left = @ \ {"open"}, !.ok = @ /\ open[Pair(r)] = 0]
  <2>1. req' = [req EXCEPT ![r] = q] /\ q.pc = "reads" /\ q.hidden = req[r].hidden
    BY <1>f, <1>4 DEF FindOpen, Filing
  <2>2. HasReason(q)
    BY <1>4, <1>h, <2>1 DEF FindOpen, HasReason
  <2>3. QED
    BY <1>1, <1>4, <2>1, <2>2 DEF FindOpen
<1>5. ASSUME UNCHANGED <<profile, open, filed, gone>>,
             NEW pc \in {"insert", "count", "hide", "commit"},
             req' = [req EXCEPT ![r] = [req[r] EXCEPT !.pc = pc]],
             req[r].pc # "commit",
             pc # "insert" => {req[r].by, req[r].of} \cap gone = {},
             pc = "hide" => Cardinality(Behind(req[r].of) \cup {req[r].by}) >= HideAt
      PROVE  ReasonInv'
  <2> DEFINE q == [req[r] EXCEPT !.pc = pc]
  <2>1. q.pc = pc /\ q.by = req[r].by /\ q.of = req[r].of /\ q.hidden = req[r].hidden
    BY <1>f DEF Filing
  <2> HIDE DEF q
  <2>2. ~req[r].hidden
    BY <1>t, <1>f, <1>h, <1>5, SlotTypes DEF HasReason
  <2>3. HasReason(q)
    BY <1>5, <2>1, <2>2 DEF HasReason
  <2>4. QED
    BY <1>1, <1>5, <2>1, <2>3 DEF q
<1>6. CASE Decide(r) \/ InsertReport(r)
  BY <1>2, <1>5, <1>6 DEF Decide, InsertReport
<1>7. CASE CountReporters(r)
  <2> DEFINE seen == OpenReporters(req[r].of) \cup {req[r].by}
  <2>0. {req[r].by, req[r].of} \cap gone = {}
    BY <1>7 DEF CountReporters, ReasonInv, NobodyGone, InTransaction
  <2>1. CASE Cardinality(seen) >= HideAt
    <3>1. seen \subseteq Behind(req[r].of) \cup {req[r].by}
      BY <1>p DEF ReasonInv, OpenIsFiled, OpenReporters, Behind, Pairs
    <3>2. Cardinality(Behind(req[r].of) \cup {req[r].by}) >= HideAt
      <4>1. IsFiniteSet(Behind(req[r].of) \cup {req[r].by})
        BY <1>t, <1>p, BehindFinite
      <4> HIDE DEF seen
      <4>2. QED
        BY <2>1, <3>1, <4>1, NoLarger, ReportsAssumption
    <3>3. QED
      BY <1>5, <1>7, <2>0, <2>1, <3>2 DEF CountReporters
  <2>2. CASE ~(Cardinality(seen) >= HideAt)
    BY <1>5, <1>7, <2>0, <2>2 DEF CountReporters
  <2>3. QED
    BY <2>1, <2>2
<1>8. CASE HideProfile(r)
  <2> DEFINE q == [req[r] EXCEPT !.pc = "commit", !.hidden = profile[req[r].of] # "none"]
  <2>0. {req[r].by, req[r].of} \cap gone = {}
    BY <1>8 DEF HideProfile, ReasonInv, NobodyGone, InTransaction
  <2>1. q.by = req[r].by /\ q.of = req[r].of /\ q.pc = "commit"
    BY <1>f DEF Filing
  <2>2. req' = [req EXCEPT ![r] = q] /\ UNCHANGED <<profile, open, filed, gone>>
    BY <1>8 DEF HideProfile
  <2> HIDE DEF q
  <2>3. HasReason(q)
    BY <1>8, <1>h, <2>1 DEF HideProfile, HasReason
  <2>4. QED
    BY <1>1, <2>0, <2>1, <2>2, <2>3
<1>9. CASE Commit(r)
  <2>0. /\ req[r].pc = "commit" /\ gone' = gone
        /\ req' = [req EXCEPT ![r] = Idle]
        /\ open' = [open EXCEPT ![Pair(r)] = @ + 1]
        /\ filed' = filed \cup {Pair(r)}
    BY <1>9 DEF Commit
  <2>1. \A u \in User : \/ profile'[u] = profile[u]
                        \/ profile'[u] = "hidden" /\ req[r].hidden /\ u = req[r].of
    BY <1>t, <1>p, <1>9 DEF Commit, TypeOK
  <2>2. NobodyGone'
    BY <1>t, <1>i, <2>0 DEF ReasonInv, NobodyGone, InTransaction, TypeOK
  <2>3. OpenIsFiled'
    BY <1>t, <2>0 DEF ReasonInv, OpenIsFiled, TypeOK
  <2>4. ASSUME NEW u \in User
        PROVE  /\ Cardinality(Behind(u)) >= HideAt => Cardinality(Behind(u)') >= HideAt
               /\ \A v \in User : Cardinality(Behind(u) \cup {v}) >= HideAt =>
                    Cardinality(Behind(u)' \cup {v}) >= HideAt
    BY <1>t, <2>0, BehindGrows
  <2>5. ASSUME NEW s \in Req PROVE HasReason(req[s])'
    <3>1. CASE s = r
      BY <1>t, <1>i, <2>0, <3>1 DEF HasReason, TypeOK
    <3>2. CASE s # r
      <4>1. req'[s] = req[s] /\ HasReason(req[s])
        BY <1>t, <2>0, <3>2 DEF TypeOK, ReasonInv
      <4>2. CASE req[s] = Idle
        BY <1>i, <4>1, <4>2 DEF HasReason
      <4>3. CASE req[s] # Idle
        <5>1. req[s].of \in User /\ req[s].by \in User
          BY <1>t, <4>3, SlotTypes DEF Filing
        <5>2. QED
          BY <2>4, <4>1, <5>1 DEF HasReason, Behind
      <4>4. QED
        BY <4>2, <4>3
    <3>3. QED
      BY <3>1, <3>2
  <2>6. HiddenForReason'
    <3> SUFFICES ASSUME NEW u \in User, profile'[u] = "hidden"
                 PROVE  Cardinality(Behind(u)') >= HideAt
      BY DEF HiddenForReason, Behind
    <3>1. CASE profile'[u] = profile[u]
      BY <2>4, <3>1 DEF ReasonInv, HiddenForReason, Behind
    <3>2. CASE req[r].hidden /\ u = req[r].of
      <4>1. Behind(u) \cup {req[r].by} \subseteq Behind(u)'
        BY <1>p, <2>0, <3>2 DEF Behind
      <4>2. IsFiniteSet(Behind(u)')
        <5>1. Behind(u)' \subseteq User
          BY <1>t DEF Behind, TypeOK
        <5>2. QED
          BY <5>1, ReportsAssumption, NoLarger
      <4>3. Cardinality(Behind(u) \cup {req[r].by}) >= HideAt
        BY <1>h, <2>0, <3>2 DEF HasReason
      <4>4. QED
        BY <4>1, <4>2, <4>3, NoLarger, ReportsAssumption
    <3>3. QED
      BY <2>1, <3>1, <3>2
  <2>7. QED
    BY <1>t, <2>2, <2>3, <2>5, <2>6 DEF ReasonInv
<1>10. QED
  BY <1>3, <1>4, <1>6, <1>7, <1>8, <1>9 DEF Step

LEMMA NextReasonInv == ReasonInv /\ [Next \/ Crash]_vars => ReasonInv'
<1> SUFFICES ASSUME ReasonInv, [Next \/ Crash]_vars PROVE ReasonInv'
  OBVIOUS
<1>t. TypeOK /\ TypeOK'
  BY NextTypeOK DEF ReasonInv
<1>1. ASSUME NEW r \in Req, NEW p \in Files, FileReport(r, p[1], p[2]) PROVE ReasonInv'
  <2> DEFINE q == [pc |-> "reads", by |-> p[1], of |-> p[2], left |-> {"target", "open"},
                   ok |-> TRUE, hidden |-> FALSE]
  <2>1. /\ q.pc = "reads" /\ ~q.hidden
        /\ req' = [req EXCEPT ![r] = q] /\ UNCHANGED <<profile, open, filed, gone>>
    BY <1>1 DEF FileReport, Put
  <2> HIDE DEF q
  <2>2. NobodyGone' /\ OpenIsFiled'
    BY <1>t, <2>1 DEF ReasonInv, NobodyGone, OpenIsFiled, InTransaction, TypeOK
  <2>3. \A s \in Req : HasReason(req[s])'
    BY <1>t, <2>1 DEF ReasonInv, HasReason, Behind, TypeOK
  <2>4. QED
    BY <1>t, <2>1, <2>2, <2>3 DEF ReasonInv, HiddenForReason
<1>2. ASSUME NEW u \in User, UpsertProfile(u) PROVE ReasonInv'
  <2>1. \A w \in User : profile'[w] = "hidden" => profile[w] = "hidden"
    BY <1>t, <1>2 DEF UpsertProfile, TypeOK
  <2>2. QED
    BY <1>t, <1>2, <2>1 DEF UpsertProfile, ReasonInv, HiddenForReason, HasReason, Behind,
       NobodyGone, OpenIsFiled, InTransaction
<1>3. ASSUME NEW p \in Pairs, ResolveReport(p) PROVE ReasonInv'
  <2>1. \A o \in Pairs : open'[o] > 0 => open[o] > 0
    BY <1>t, <1>3 DEF ResolveReport, TypeOK
  <2>2. QED
    BY <1>t, <1>3, <2>1 DEF ResolveReport, ReasonInv, HiddenForReason, HasReason, Behind,
       NobodyGone, OpenIsFiled, InTransaction
<1>4. ASSUME NEW u \in User, DeleteUser(u) PROVE ReasonInv'
  <2>1. /\ gone' = gone \cup {u} /\ req' = req
        /\ \A o \in Pairs : open'[o] > 0 => open[o] > 0 /\ u \notin {o[1], o[2]}
        /\ filed' = {o \in filed : u \notin {o[1], o[2]}}
        /\ \A w \in User : profile'[w] = IF w = u THEN "none" ELSE profile[w]
    BY <1>t, <1>4 DEF DeleteUser, TypeOK
  <2>2. NobodyGone' /\ OpenIsFiled'
    BY <1>4, <2>1 DEF DeleteUser, ReasonInv, NobodyGone, OpenIsFiled, InTransaction
  <2>3. ASSUME NEW w \in User, w # u
        PROVE  /\ Cardinality(Behind(w)) >= HideAt => Cardinality(Behind(w)') >= HideAt
               /\ \A v \in User : Cardinality(Behind(w) \cup {v}) >= HideAt =>
                    Cardinality(Behind(w)' \cup {v}) >= HideAt
    <3>1. \A v \in User : <<v, w>> \in filed => <<v, w>> \in filed' \/ v \in gone'
      BY <2>1, <2>3
    <3>2. QED
      BY <1>t, <2>1, <3>1, BehindGrows
  <2>4. ASSUME NEW s \in Req PROVE HasReason(req[s])'
    <3>1. CASE InTransaction(s)
      <4>1. req[s].of \in User /\ req[s].by \in User /\ req[s].of # u
        BY <1>t, <1>4, <3>1, SlotTypes DEF DeleteUser, InTransaction, Filing
      <4>2. QED
        <5>1. HasReason(req[s]) /\ req'[s] = req[s]
          BY <2>1 DEF ReasonInv
        <5>2. Cardinality(Behind(req[s].of) \cup {req[s].by}) >= HideAt =>
                Cardinality(Behind(req[s].of) \cup {req[s].by})' >= HideAt
          <6>1. \A w, v \in User : w = req[s].of /\ v = req[s].by =>
                  Behind(w)' \cup {v} = (Behind(req[s].of) \cup {req[s].by})'
            BY <5>1 DEF Behind
          <6>2. QED
            BY <2>3, <4>1, <6>1
        <5>3. QED
          BY <5>1, <5>2 DEF HasReason
    <3>2. CASE ~InTransaction(s)
      BY <2>1, <3>2 DEF ReasonInv, HasReason, InTransaction
    <3>3. QED
      BY <3>1, <3>2
  <2>5. HiddenForReason'
    BY <2>1, <2>3 DEF ReasonInv, HiddenForReason, Behind
  <2>6. QED
    BY <1>t, <2>2, <2>4, <2>5 DEF ReasonInv
<1>5. CASE Crash
  <2>1. /\ \A r \in Req : req'[r].pc = "idle"
        /\ UNCHANGED <<profile, open, filed, gone>>
    BY <1>5 DEF Crash, Idle
  <2>2. QED
    BY <1>t, <2>1 DEF ReasonInv, HiddenForReason, HasReason, NobodyGone, OpenIsFiled, InTransaction
<1>6. CASE UNCHANGED vars
  BY <1>t, <1>6 DEF vars, ReasonInv, HiddenForReason, HasReason, Behind, NobodyGone,
     OpenIsFiled, InTransaction
<1>7. QED
  BY <1>1, <1>2, <1>3, <1>4, <1>5, <1>6, StepReasonInv, ReportsAssumption DEF Next

(* Behind every hidden profile are as many users as the threshold asks     *)
(* for, who have a row of their own against it or were deleted since: no   *)
(* number of duplicates, and no report rolled back, hides a profile.       *)
THEOREM HiddenForReasonHolds == CrashSpec => []HiddenForReason
<1>1. ReasonInv => HiddenForReason
  BY DEF ReasonInv
<1>2. QED
  BY <1>1, InitReasonInv, NextReasonInv, PTL DEF CrashSpec

=============================================================================
