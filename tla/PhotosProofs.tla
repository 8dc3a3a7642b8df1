---------------------------- MODULE PhotosProofs ----------------------------
(***************************************************************************)
(* Theorems about Photos, for any keys, any limit and any number of        *)
(* requests.                                                               *)
(***************************************************************************)
EXTENDS Photos, FiniteSetTheorems, TLAPS

\* The slots hold what their pc promises.
LEMMA SlotTypes ==
  ASSUME TypeOK, NEW r \in Req
  PROVE  /\ req[r].pc = "idle" <=> req[r] = Idle
         /\ req[r].pc \in {"reads", "create", "discard"} <=> req[r] \in ConfirmRequest
         /\ req[r].pc \in {"object", "row"} <=> req[r] \in DeleteRequest
<1>1. req[r] \in {Idle} \cup ConfirmRequest \cup DeleteRequest
  BY DEF TypeOK
<1>2. CASE req[r] = Idle
  BY <1>2 DEF Idle, ConfirmRequest, DeleteRequest
<1>3. CASE req[r] \in ConfirmRequest
  BY <1>3 DEF ConfirmRequest, DeleteRequest, Idle
<1>4. CASE req[r] \in DeleteRequest
  BY <1>4 DEF ConfirmRequest, DeleteRequest, Idle
<1>5. QED
  BY <1>1, <1>2, <1>3, <1>4

LEMMA RowTypes ==
  ASSUME TypeOK, NEW i \in Rows
  PROVE  photo[i] \in [key : Key, position : Nat]
BY DEF TypeOK, Rows

\* A row is not the absence of one.
LEMMA RowIsRow ==
  ASSUME NEW k, NEW n
  PROVE  [key |-> k, position |-> n] # NoRow
<1>1. SUFFICES ASSUME [key |-> k, position |-> n] = NoRow PROVE FALSE
  OBVIOUS
<1>2. DOMAIN [key |-> k, position |-> n] = {"key", "position"} /\ DOMAIN NoRow = {"key"}
  BY DEF NoRow
<1>3. QED
  BY <1>1, <1>2

LEMMA RowsFinite ==
  IsFiniteSet(Rows) /\ Cardinality(Rows) \in Nat
<1>1. Rows \subseteq Photo
  BY DEF Rows
<1>2. IsFiniteSet(Rows)
  BY <1>1, PhotosAssumption, FS_Subset
<1>3. QED
  BY <1>2, FS_CardinalityType

LEMMA InitTypeOK == Init => TypeOK
BY DEF Init, TypeOK, Idle, NoRow

LEMMA ReqTyped ==
  ASSUME TypeOK, NEW r \in Req, NEW q \in {Idle} \cup ConfirmRequest \cup DeleteRequest
  PROVE  [req EXCEPT ![r] = q] \in [Req -> {Idle} \cup ConfirmRequest \cup DeleteRequest]
BY DEF TypeOK

LEMMA StepTypeOK ==
  ASSUME TypeOK, NEW r \in Req, Step(r)
  PROVE  TypeOK'
<1>1. CASE CountPhotos(r)
  <2> DEFINE q == [req[r] EXCEPT !.left = @ \ {"count"}, !.position = Cardinality(Rows),
                                 !.ok = @ /\ Cardinality(Rows) < MaxPhotos]
  <2>1. req[r] \in ConfirmRequest
    BY <1>1, SlotTypes DEF CountPhotos
  <2>2. q \in ConfirmRequest
    <3>1. PICK b \in BOOLEAN : b = (req[r].ok /\ Cardinality(Rows) < MaxPhotos)
      OBVIOUS
    <3>2. q = [req[r] EXCEPT !.left = @ \ {"count"}, !.position = Cardinality(Rows), !.ok = b]
      BY <2>1, <3>1 DEF ConfirmRequest
    <3>3. QED
      BY <2>1, <3>2, RowsFinite DEF ConfirmRequest
  <2>3. req' = [req EXCEPT ![r] = q]
    BY <1>1 DEF CountPhotos, Put
  <2>4. QED
    BY <1>1, <2>2, <2>3, ReqTyped DEF CountPhotos, TypeOK
<1>2. CASE FindDuplicate(r)
  <2> DEFINE q == [req[r] EXCEPT !.left = @ \ {"duplicate"},
                                 !.ok = @ /\ \A i \in Rows : photo[i].key # req[r].key]
  <2>1. req[r] \in ConfirmRequest
    BY <1>2, SlotTypes DEF FindDuplicate
  <2>2. q \in ConfirmRequest
    <3>1. PICK b \in BOOLEAN : b = (req[r].ok /\ \A i \in Rows : photo[i].key # req[r].key)
      OBVIOUS
    <3>2. q = [req[r] EXCEPT !.left = @ \ {"duplicate"}, !.ok = b]
      BY <2>1, <3>1 DEF ConfirmRequest
    <3>3. QED
      BY <2>1, <3>2 DEF ConfirmRequest
  <2>3. req' = [req EXCEPT ![r] = q]
    BY <1>2 DEF FindDuplicate, Put
  <2>4. QED
    BY <1>2, <2>2, <2>3, ReqTyped DEF FindDuplicate, TypeOK
<1>3. CASE Refuse(r)
  BY <1>3, ReqTyped DEF Refuse, Finish, Put, TypeOK
<1>4. CASE HeadObject(r)
  <2>1. req[r] \in ConfirmRequest
    BY <1>4, SlotTypes DEF HeadObject
  <2>2. [req[r] EXCEPT !.pc = "create"] \in ConfirmRequest
        /\ [req[r] EXCEPT !.pc = "discard"] \in ConfirmRequest
    BY <2>1 DEF ConfirmRequest
  <2>3. req' \in {[req EXCEPT ![r] = Idle], [req EXCEPT ![r] = [req[r] EXCEPT !.pc = "create"]],
                  [req EXCEPT ![r] = [req[r] EXCEPT !.pc = "discard"]]}
    BY <1>4 DEF HeadObject, Goto, Finish, Put
  <2>4. QED
    BY <1>4, <2>2, <2>3, ReqTyped DEF HeadObject, TypeOK
<1>5. CASE Discard(r)
  BY <1>5, ReqTyped DEF Discard, Finish, Put, TypeOK
<1>6. CASE CreatePhoto(r)
  <2>1. req[r] \in ConfirmRequest
    BY <1>6, SlotTypes DEF CreatePhoto
  <2>2. [key |-> req[r].key, position |-> req[r].position] \in [key : Key, position : Nat]
    BY <2>1 DEF ConfirmRequest
  <2>3. QED
    BY <1>6, <2>2, ReqTyped DEF CreatePhoto, Finish, Put, TypeOK
<1>7. CASE DeleteObject(r)
  <2>1. req[r] \in DeleteRequest
    BY <1>7, SlotTypes DEF DeleteObject
  <2>2. [req[r] EXCEPT !.pc = "row"] \in DeleteRequest
    BY <2>1 DEF DeleteRequest
  <2>3. QED
    BY <1>7, <2>2, ReqTyped DEF DeleteObject, Goto, Put, TypeOK
<1>8. CASE DeleteFails(r)
  BY <1>8, ReqTyped DEF DeleteFails, Finish, Put, TypeOK
<1>9. CASE DeleteRow(r)
  <2>1. req[r] \in DeleteRequest
    BY <1>9, SlotTypes DEF DeleteRow
  <2>2. QED
    BY <1>9, <2>1, ReqTyped DEF DeleteRow, Finish, Put, TypeOK, DeleteRequest
<1>10. QED
  BY <1>1, <1>2, <1>3, <1>4, <1>5, <1>6, <1>7, <1>8, <1>9 DEF Step

LEMMA NextTypeOK == TypeOK /\ [Next]_vars => TypeOK'
<1> SUFFICES ASSUME TypeOK, [Next]_vars PROVE TypeOK'
  OBVIOUS
<1>1. ASSUME NEW k \in Key, CreateUploadUrl(k) \/ Upload(k) PROVE TypeOK'
  BY <1>1 DEF CreateUploadUrl, Upload, TypeOK
<1>2. ASSUME NEW r \in Req, NEW k \in Key, ConfirmUpload(r, k) PROVE TypeOK'
  <2>1. [pc |-> "reads", key |-> k, left |-> {"count", "duplicate"}, ok |-> TRUE, position |-> 0]
          \in ConfirmRequest
    BY DEF ConfirmRequest
  <2>2. QED
    BY <1>2, <2>1, ReqTyped DEF ConfirmUpload, Put, TypeOK
<1>3. ASSUME NEW r \in Req, NEW i \in Photo, FindPhoto(r, i) PROVE TypeOK'
  <2>1. [pc |-> "object", photo |-> i, key |-> photo[i].key] \in DeleteRequest
    BY <1>3, RowTypes DEF FindPhoto, DeleteRequest
  <2>2. QED
    BY <1>3, <2>1, ReqTyped DEF FindPhoto, Put, TypeOK
<1>4. CASE DeleteUser
  BY <1>4 DEF DeleteUser, TypeOK, Rows
<1>5. CASE Crash \/ UNCHANGED vars
  BY <1>5 DEF Crash, vars, TypeOK
<1>6. QED
  BY <1>1, <1>2, <1>3, <1>4, <1>5, StepTypeOK DEF Next

(* Every variable keeps its type, whenever the server crashes.             *)
THEOREM TypeCorrect == Spec => []TypeOK
BY InitTypeOK, NextTypeOK, PTL DEF Spec

-----------------------------------------------------------------------------
(* The limit.  Whoever passes the count saw fewer photos than the limit,   *)
(* and all others that are admitted hold another slot.                     *)

AdmittedReq(q) ==
  q.pc = "create" \/ (q.pc = "reads" /\ "count" \notin q.left /\ q.ok)

LEMMA AdmittedFinite ==
  /\ Admitted = {r \in Req : AdmittedReq(req[r])}
  /\ IsFiniteSet(Admitted) /\ Cardinality(Admitted) \in Nat
<1>1. Admitted \subseteq Req
  BY DEF Admitted
<1>2. IsFiniteSet(Admitted)
  BY <1>1, PhotosAssumption, FS_Subset
<1>3. QED
  BY <1>2, FS_CardinalityType DEF Admitted, AdmittedReq

\* A set with one element more, or one less.
LEMMA OneMore ==
  ASSUME NEW S, IsFiniteSet(S), NEW x
  PROVE  IsFiniteSet(S \cup {x}) /\ Cardinality(S \cup {x}) <= Cardinality(S) + 1
<1>1. Cardinality(S) \in Nat
  BY FS_CardinalityType
<1>2. CASE x \in S
  <2>1. IsFiniteSet(S \cup {x}) /\ Cardinality(S \cup {x}) = Cardinality(S)
    BY <1>2, FS_AddElement
  <2>2. QED
    BY <1>1, <2>1
<1>3. CASE x \notin S
  <2>1. IsFiniteSet(S \cup {x}) /\ Cardinality(S \cup {x}) = Cardinality(S) + 1
    BY <1>3, FS_AddElement
  <2>2. QED
    BY <1>1, <2>1
<1>4. QED
  BY <1>2, <1>3

LEMMA ReqSlots ==
  Cardinality(Req) \in Nat /\ \A r \in Req : Cardinality(Req \ {r}) = Cardinality(Req) - 1
BY PhotosAssumption, FS_CardinalityType, FS_RemoveElement

\* Who gives up neither rows nor admissions stays within the budget.
LEMMA BudgetShrinks ==
  ASSUME PhotoBudget, Rows' \subseteq Rows, Admitted' \subseteq Admitted
  PROVE  PhotoBudget'
<1>1. Cardinality(Rows') <= Cardinality(Rows) /\ Cardinality(Rows') \in Nat
  BY RowsFinite, FS_Subset, FS_CardinalityType
<1>2. Cardinality(Admitted') <= Cardinality(Admitted) /\ Cardinality(Admitted') \in Nat
  BY AdmittedFinite, FS_Subset, FS_CardinalityType
<1>3. QED
  BY <1>1, <1>2, RowsFinite, AdmittedFinite, ReqSlots, PhotosAssumption DEF PhotoBudget

\* A request that was not admitted, or is no longer.
LEMMA AdmittedAfter ==
  ASSUME TypeOK, NEW r \in Req, NEW q, req' = [req EXCEPT ![r] = q],
         AdmittedReq(q) => r \in Admitted
  PROVE  Admitted' \subseteq Admitted
BY AdmittedFinite DEF TypeOK, Admitted, AdmittedReq

LEMMA StepBudget ==
  ASSUME TypeOK, PhotoBudget, NEW r \in Req, Step(r)
  PROVE  PhotoBudget'
<1> USE DEF Put, Goto, Finish
<1>0. ~AdmittedReq(Idle)
  BY DEF AdmittedReq, Idle
<1>1. CASE CountPhotos(r)
  <2> DEFINE q == [req[r] EXCEPT !.left = @ \ {"count"}, !.position = Cardinality(Rows),
                                 !.ok = @ /\ Cardinality(Rows) < MaxPhotos]
  <2>1. req' = [req EXCEPT ![r] = q] /\ Rows' = Rows
    BY <1>1 DEF CountPhotos, Rows
  <2>2. CASE Cardinality(Rows) < MaxPhotos
    <3>1. Admitted \subseteq Req \ {r}
      BY <1>1 DEF CountPhotos, Admitted
    <3>2. Admitted' \subseteq Admitted \cup {r}
      BY <2>1 DEF TypeOK, Admitted
    <3>3. Cardinality(Admitted) <= Cardinality(Req) - 1
      <4>1. IsFiniteSet(Req \ {r}) /\ Cardinality(Req \ {r}) = Cardinality(Req) - 1
        BY ReqSlots, PhotosAssumption, FS_Subset
      <4>2. Cardinality(Admitted) <= Cardinality(Req \ {r})
        BY <3>1, <4>1, FS_Subset
      <4>3. QED
        BY <4>1, <4>2
    <3>4. Cardinality(Admitted') <= Cardinality(Admitted) + 1
      <4>1. Cardinality(Admitted \cup {r}) <= Cardinality(Admitted) + 1
        BY AdmittedFinite, OneMore
      <4>2. IsFiniteSet(Admitted \cup {r})
        BY AdmittedFinite, OneMore
      <4>3. /\ Cardinality(Admitted') <= Cardinality(Admitted \cup {r})
            /\ Cardinality(Admitted') \in Nat /\ Cardinality(Admitted \cup {r}) \in Nat
        BY <3>2, <4>2, FS_Subset, FS_CardinalityType
      <4>4. QED
        BY <4>1, <4>3, AdmittedFinite
    <3>5. Cardinality(Admitted') \in Nat
      <4>1. Admitted' \subseteq Req
        BY DEF Admitted
      <4>2. QED
        BY <4>1, PhotosAssumption, FS_Subset, FS_CardinalityType
    <3>6. QED
      BY <2>1, <2>2, <3>3, <3>4, <3>5, RowsFinite, AdmittedFinite, ReqSlots, PhotosAssumption
         DEF PhotoBudget
  <2>3. CASE ~(Cardinality(Rows) < MaxPhotos)
    <3>1. ~AdmittedReq(q)
      BY <1>1, <2>3, SlotTypes DEF CountPhotos, AdmittedReq, ConfirmRequest
    <3>2. QED
      BY <2>1, <3>1, AdmittedAfter, BudgetShrinks
  <2>4. QED
    BY <2>2, <2>3
<1>2. CASE FindDuplicate(r)
  <2> DEFINE q == [req[r] EXCEPT !.left = @ \ {"duplicate"},
                                 !.ok = @ /\ \A i \in Rows : photo[i].key # req[r].key]
  <2>1. req' = [req EXCEPT ![r] = q] /\ Rows' = Rows
    BY <1>2 DEF FindDuplicate, Rows
  <2>2. AdmittedReq(q) => AdmittedReq(req[r])
    BY <1>2, SlotTypes DEF FindDuplicate, AdmittedReq, ConfirmRequest
  <2>3. QED
    BY <2>1, <2>2, AdmittedAfter, AdmittedFinite, BudgetShrinks
<1>3. CASE Refuse(r) \/ Discard(r) \/ DeleteFails(r)
  BY <1>0, <1>3, AdmittedAfter, BudgetShrinks DEF Refuse, Discard, DeleteFails, Rows
<1>4. CASE HeadObject(r)
  <2>1. AdmittedReq(req[r])
    BY <1>4 DEF HeadObject, AdmittedReq
  <2>2. PICK q : req' = [req EXCEPT ![r] = q]
    BY <1>4 DEF HeadObject
  <2>3. QED
    BY <1>4, <2>1, <2>2, AdmittedAfter, AdmittedFinite, BudgetShrinks DEF HeadObject, Rows
<1>5. CASE CreatePhoto(r)
  <2>1. req' = [req EXCEPT ![r] = Idle] /\ r \in Admitted
    BY <1>5 DEF CreatePhoto, Admitted
  <2>2. CASE UNCHANGED photo
    BY <1>0, <2>1, <2>2, AdmittedAfter, BudgetShrinks DEF Rows
  <2>3. ASSUME NEW i \in Photo \ (Rows \cup deleted),
               photo' = [photo EXCEPT ![i] = [key |-> req[r].key, position |-> req[r].position]]
        PROVE  PhotoBudget'
    <3>1. Rows' \subseteq Rows \cup {i}
      BY <2>3 DEF Rows, TypeOK
    <3>2. Admitted' \subseteq Admitted \ {r}
      BY <1>0, <2>1, AdmittedFinite DEF TypeOK, Admitted, AdmittedReq
    <3>3. /\ Cardinality(Rows') <= Cardinality(Rows) + 1
          /\ Cardinality(Rows') \in Nat
      <4>1. /\ IsFiniteSet(Rows \cup {i})
            /\ Cardinality(Rows \cup {i}) <= Cardinality(Rows) + 1
        BY RowsFinite, OneMore
      <4>2. /\ Cardinality(Rows') <= Cardinality(Rows \cup {i})
            /\ Cardinality(Rows') \in Nat /\ Cardinality(Rows \cup {i}) \in Nat
        BY <3>1, <4>1, FS_Subset, FS_CardinalityType
      <4>3. QED
        BY <4>1, <4>2, RowsFinite
    <3>4. /\ Cardinality(Admitted') <= Cardinality(Admitted) - 1
          /\ Cardinality(Admitted') \in Nat
      <4>1. /\ IsFiniteSet(Admitted \ {r})
            /\ Cardinality(Admitted \ {r}) = Cardinality(Admitted) - 1
        BY <2>1, AdmittedFinite, FS_RemoveElement
      <4>2. QED
        BY <3>2, <4>1, FS_Subset, FS_CardinalityType
    <3>5. QED
      BY <3>3, <3>4, RowsFinite, AdmittedFinite, ReqSlots, PhotosAssumption DEF PhotoBudget
  <2>4. QED
    BY <1>5, <2>2, <2>3 DEF CreatePhoto
<1>6. CASE DeleteObject(r)
  <2>1. ~AdmittedReq([req[r] EXCEPT !.pc = "row"])
    BY <1>6, SlotTypes DEF DeleteObject, AdmittedReq, DeleteRequest
  <2>2. QED
    BY <1>6, <2>1, AdmittedAfter, BudgetShrinks DEF DeleteObject, Rows
<1>7. CASE DeleteRow(r)
  <2>1. Rows' \subseteq Rows
    BY <1>7 DEF DeleteRow, Rows, TypeOK
  <2>2. QED
    BY <1>0, <1>7, <2>1, AdmittedAfter, BudgetShrinks DEF DeleteRow
<1>8. QED
  BY <1>1, <1>2, <1>3, <1>4, <1>5, <1>6, <1>7 DEF Step

LEMMA NextBudget == TypeOK /\ PhotoBudget /\ [Next]_vars => PhotoBudget'
<1> SUFFICES ASSUME TypeOK, PhotoBudget, [Next]_vars PROVE PhotoBudget'
  OBVIOUS
<1>1. CASE UNCHANGED <<photo, req>>
  BY <1>1, BudgetShrinks DEF Rows, Admitted
<1>2. ASSUME NEW r \in Req, NEW k \in Key, ConfirmUpload(r, k) PROVE PhotoBudget'
  <2> DEFINE q == [pc |-> "reads", key |-> k, left |-> {"count", "duplicate"},
                   ok |-> TRUE, position |-> 0]
  <2>1. ~AdmittedReq(q)
    BY DEF AdmittedReq
  <2>2. QED
    BY <1>2, <2>1, AdmittedAfter, BudgetShrinks DEF ConfirmUpload, Put, Rows
<1>3. ASSUME NEW r \in Req, NEW i \in Photo, FindPhoto(r, i) PROVE PhotoBudget'
  <2> DEFINE q == [pc |-> "object", photo |-> i, key |-> photo[i].key]
  <2>1. ~AdmittedReq(q)
    BY DEF AdmittedReq
  <2>2. QED
    BY <1>3, <2>1, AdmittedAfter, BudgetShrinks DEF FindPhoto, Put, Rows
<1>4. CASE DeleteUser
  BY <1>4, BudgetShrinks DEF DeleteUser, Rows, Admitted
<1>5. CASE Crash
  <2>1. Rows' = Rows /\ Admitted' = {}
    BY <1>5 DEF Crash, Rows, Admitted, Idle
  <2>2. QED
    BY <2>1, BudgetShrinks
<1>6. QED
  BY <1>1, <1>2, <1>3, <1>4, <1>5, StepBudget DEF Next, CreateUploadUrl, Upload, vars

LEMMA InitBudget == Init => PhotoBudget
<1> SUFFICES ASSUME Init PROVE PhotoBudget
  OBVIOUS
<1>1. Rows = {} /\ Admitted = {}
  BY DEF Init, Rows, Admitted, Idle
<1>2. QED
  BY <1>1, FS_EmptySet, ReqSlots, PhotosAssumption DEF PhotoBudget

(* The limit of photos is passed by one photo less than the requests in    *)
(* flight, for any limit: confirmUpload counts in one statement and        *)
(* inserts in another.                                                     *)
THEOREM PhotoBudgetKept == Spec => []PhotoBudget
BY InitTypeOK, NextTypeOK, InitBudget, NextBudget, PTL DEF Spec

-----------------------------------------------------------------------------
(* Rows and objects.  The inductive invariant says what the requests have  *)
(* learned: a key is in the hands of one confirmation, which past its      *)
(* duplicate check knows that the key has no row, and past S3 that the     *)
(* object is an image; a deletion holds the key of its row, which keeps    *)
(* its object from being mistaken for a new one when it is gone.           *)

OneConfirmation ==
  \A r, s \in Req : \A k \in Key : Confirming(r, k) /\ Confirming(s, k) => r = s

Checked(q) ==
  q.pc \in {"create", "discard"} \/ (q.pc = "reads" /\ "duplicate" \notin q.left /\ q.ok)

NoRowYet(q) == Checked(q) => \A i \in Rows : photo[i].key # q.key

HasImage(q) == q.pc = "create" => object[q.key] = "image" \/ gone

\* Of the row a deletePhoto has found, or has had taken from it.
HoldsKey(q) ==
  q.pc \in {"object", "row"} =>
    /\ q.photo \in Rows \cup deleted
    /\ q.photo \in Rows => photo[q.photo].key = q.key
    /\ q.photo \notin Rows => object[q.key] = "removed" \/ gone
    /\ q.pc = "row" => object[q.key] = "removed"

KeyInv ==
  /\ TypeOK
  /\ Rows \cap deleted = {}
  /\ gone => Rows = {}
  /\ OneConfirmation
  /\ \A r \in Req : NoRowYet(req[r]) /\ HasImage(req[r]) /\ HoldsKey(req[r])
  /\ OneRowPerKey

LEMMA InitKeyInv == Init => KeyInv
<1> SUFFICES ASSUME Init PROVE KeyInv
  OBVIOUS
<1>1. Rows = {} /\ deleted = {}
  BY DEF Init, Rows
<1>2. \A r \in Req : req[r] = Idle
  BY DEF Init
<1>3. \A r \in Req : NoRowYet(req[r]) /\ HasImage(req[r]) /\ HoldsKey(req[r])
  BY <1>2 DEF Idle, NoRowYet, Checked, HasImage, HoldsKey
<1>4. OneConfirmation
  BY <1>2 DEF Idle, OneConfirmation, Confirming
<1>5. QED
  BY <1>1, <1>3, <1>4, InitTypeOK DEF KeyInv, OneRowPerKey

\* A step in which only one request moves, to something it may know.
LEMMA QuietStep ==
  ASSUME KeyInv, TypeOK', UNCHANGED <<object, photo, deleted, gone>>,
         NEW r \in Req, NEW q, req' = [req EXCEPT ![r] = q],
         q.pc \in {"reads", "create", "discard"} =>
           \A s \in Req \ {r} : ~Confirming(s, q.key),
         NoRowYet(q), HasImage(q), HoldsKey(q)
  PROVE  KeyInv'
<1> USE DEF KeyInv, TypeOK
<1>1. Rows' = Rows
  BY DEF Rows
<1>2. req'[r] = q /\ \A s \in Req \ {r} : req'[s] = req[s]
  OBVIOUS
<1>3. ASSUME NEW s \in Req PROVE (NoRowYet(req[s]) /\ HasImage(req[s]) /\ HoldsKey(req[s]))'
  BY <1>1, <1>2 DEF NoRowYet, Checked, HasImage, HoldsKey
<1>4. OneConfirmation'
  BY <1>2 DEF OneConfirmation, Confirming
<1>5. OneRowPerKey'
  BY <1>1 DEF OneRowPerKey
<1>6. QED
  BY <1>1, <1>3, <1>4, <1>5

LEMMA StepKeyInv ==
  ASSUME KeyInv, NEW r \in Req, Step(r)
  PROVE  KeyInv'
<1> USE DEF Put, Goto, Finish
<1>t. TypeOK /\ TypeOK'
  BY StepTypeOK DEF KeyInv
<1>h. NoRowYet(req[r]) /\ HasImage(req[r]) /\ HoldsKey(req[r])
  BY DEF KeyInv
<1>i. /\ Idle.pc = "idle"
      /\ NoRowYet(Idle) /\ HasImage(Idle) /\ HoldsKey(Idle)
  BY DEF Idle, NoRowYet, Checked, HasImage, HoldsKey
<1>o. req[r].pc \in {"reads", "create", "discard"} =>
        req[r].key \in Key /\ \A s \in Req \ {r} : ~Confirming(s, req[r].key)
  BY <1>t, SlotTypes DEF KeyInv, OneConfirmation, Confirming, ConfirmRequest
<1>1. CASE CountPhotos(r)
  <2> DEFINE q == [req[r] EXCEPT !.left = @ \ {"count"}, !.position = Cardinality(Rows),
                                 !.ok = @ /\ Cardinality(Rows) < MaxPhotos]
  <2>1. /\ req[r] \in ConfirmRequest /\ req[r].pc = "reads"
        /\ req' = [req EXCEPT ![r] = q]
    BY <1>1, <1>t, SlotTypes DEF CountPhotos
  <2>2. /\ q.pc = "reads" /\ q.key = req[r].key /\ q.left = req[r].left \ {"count"}
        /\ q.ok => req[r].ok
    BY <2>1 DEF ConfirmRequest
  <2>3. NoRowYet(q) /\ HasImage(q) /\ HoldsKey(q)
    BY <1>h, <2>1, <2>2 DEF NoRowYet, Checked, HasImage, HoldsKey
  <2>4. QED
    <3> HIDE DEF q
    <3>1. QED
      BY <1>1, <1>t, <1>o, <2>1, <2>2, <2>3, QuietStep DEF CountPhotos
<1>2. CASE FindDuplicate(r)
  <2> DEFINE q == [req[r] EXCEPT !.left = @ \ {"duplicate"},
                                 !.ok = @ /\ \A i \in Rows : photo[i].key # req[r].key]
  <2>1. /\ req[r] \in ConfirmRequest /\ req[r].pc = "reads"
        /\ req' = [req EXCEPT ![r] = q]
    BY <1>2, <1>t, SlotTypes DEF FindDuplicate
  <2>2. /\ q.pc = "reads" /\ q.key = req[r].key
        /\ q.ok => \A i \in Rows : photo[i].key # req[r].key
    BY <2>1 DEF ConfirmRequest
  <2>3. NoRowYet(q) /\ HasImage(q) /\ HoldsKey(q)
    <3> HIDE DEF q
    <3>1. QED
      BY <2>1, <2>2 DEF NoRowYet, Checked, HasImage, HoldsKey
  <2>4. QED
    <3> HIDE DEF q
    <3>1. QED
      BY <1>2, <1>t, <1>o, <2>1, <2>2, <2>3, QuietStep DEF FindDuplicate
<1>3. CASE Refuse(r)
  BY <1>3, <1>t, <1>i, QuietStep DEF Refuse
<1>4. CASE HeadObject(r)
  <2>1. req[r] \in ConfirmRequest /\ req[r].pc = "reads" /\ Checked(req[r])
    BY <1>4, <1>t, SlotTypes DEF HeadObject, Checked
  <2>2. CASE req' = [req EXCEPT ![r] = Idle]
    BY <1>4, <1>t, <1>i, <2>2, QuietStep DEF HeadObject
  <2>3. ASSUME NEW pc \in {"create", "discard"}, req' = [req EXCEPT ![r] = [req[r] EXCEPT !.pc = pc]],
               pc = "create" => object[req[r].key] = "image"
        PROVE  KeyInv'
    <3> DEFINE q == [req[r] EXCEPT !.pc = pc]
    <3>1. q.pc = pc /\ q.key = req[r].key
      BY <2>1 DEF ConfirmRequest
    <3>2. NoRowYet(q) /\ HasImage(q) /\ HoldsKey(q)
      BY <1>h, <2>1, <2>3, <3>1 DEF NoRowYet, Checked, HasImage, HoldsKey
    <3>3. QED
      <4> HIDE DEF q
      <4>1. QED
        BY <1>4, <1>t, <1>o, <2>1, <2>3, <3>1, <3>2, QuietStep DEF HeadObject, q
  <2>4. QED
    BY <1>4, <2>2, <2>3 DEF HeadObject
<1>5. CASE Discard(r)
  <2>1. req[r] \in ConfirmRequest /\ req[r].pc = "discard" /\ req' = [req EXCEPT ![r] = Idle]
    BY <1>5, <1>t, SlotTypes DEF Discard
  <2>2. CASE object' = object
    BY <1>5, <1>t, <1>i, <2>1, <2>2, QuietStep DEF Discard
  <2>3. CASE object' = [object EXCEPT ![req[r].key] = "removed"]
    <3>1. Rows' = Rows /\ \A i \in Rows : photo[i].key # req[r].key
      BY <1>5, <1>h, <2>1 DEF Discard, Rows, NoRowYet, Checked
    <3>2. ASSUME NEW s \in Req
          PROVE  (NoRowYet(req[s]) /\ HasImage(req[s]) /\ HoldsKey(req[s]))'
      <4>1. CASE s = r
        BY <1>i, <1>t, <2>1, <4>1 DEF TypeOK, NoRowYet, Checked, HasImage, HoldsKey
      <4>2. CASE s # r
        <5>1. req'[s] = req[s] /\ NoRowYet(req[s]) /\ HasImage(req[s]) /\ HoldsKey(req[s])
          BY <2>1, <4>2, <1>t DEF TypeOK, KeyInv
        <5>2. req[s].pc = "create" => req[s].key # req[r].key
          BY <1>o, <2>1, <4>2 DEF Confirming
        <5>3. req[s].pc \in {"object", "row"} => req[s].key \in Key
          BY <1>t, SlotTypes DEF DeleteRequest
        <5>4. req[s].pc = "create" => req[s].key \in Key
          BY <1>t, SlotTypes DEF ConfirmRequest
        <5>5. QED
          BY <1>5, <1>t, <2>1, <2>3, <3>1, <5>1, <5>2, <5>3, <5>4
             DEF Discard, TypeOK, NoRowYet, Checked, HasImage, HoldsKey, ConfirmRequest
      <4>3. QED
        BY <4>1, <4>2
    <3>3. OneConfirmation'
      BY <1>t, <2>1 DEF KeyInv, TypeOK, OneConfirmation, Confirming, Idle
    <3>4. QED
      BY <1>5, <1>t, <3>1, <3>2, <3>3 DEF Discard, KeyInv, OneRowPerKey
  <2>4. QED
    BY <1>5, <2>2, <2>3 DEF Discard
<1>6. CASE CreatePhoto(r)
  <2>1. req[r] \in ConfirmRequest /\ req[r].pc = "create" /\ req' = [req EXCEPT ![r] = Idle]
    BY <1>6, <1>t, SlotTypes DEF CreatePhoto
  <2>2. CASE photo' = photo
    BY <1>6, <1>t, <1>i, <2>1, <2>2, QuietStep DEF CreatePhoto
  <2>3. ASSUME ~gone, NEW i \in Photo \ (Rows \cup deleted),
               photo' = [photo EXCEPT ![i] = [key |-> req[r].key, position |-> req[r].position]]
        PROVE  KeyInv'
    <3>1. /\ Rows' = Rows \cup {i}
          /\ photo'[i].key = req[r].key
          /\ \A j \in Rows : photo'[j] = photo[j]
      BY <1>t, <2>3, RowIsRow DEF Rows, TypeOK
    <3>2. (\A j \in Rows : photo[j].key # req[r].key) /\ object[req[r].key] = "image"
      BY <1>h, <2>1, <2>3 DEF NoRowYet, Checked, HasImage
    <3>3. ASSUME NEW s \in Req
          PROVE  (NoRowYet(req[s]) /\ HasImage(req[s]) /\ HoldsKey(req[s]))'
      <4>1. CASE s = r
        BY <1>i, <1>t, <2>1, <4>1 DEF TypeOK, NoRowYet, Checked, HasImage, HoldsKey
      <4>2. CASE s # r
        <5>1. req'[s] = req[s] /\ NoRowYet(req[s]) /\ HasImage(req[s]) /\ HoldsKey(req[s])
          BY <2>1, <4>2, <1>t DEF TypeOK, KeyInv
        <5>2. Checked(req[s]) => req[s].key # req[r].key
          BY <1>o, <2>1, <4>2 DEF Checked, Confirming
        <5>3. NoRowYet(req[s])'
          BY <3>1, <5>1, <5>2 DEF NoRowYet, Checked
        <5>4. HoldsKey(req[s])'
          BY <1>6, <2>3, <3>1, <5>1 DEF CreatePhoto, HoldsKey
        <5>5. QED
          BY <1>6, <5>1, <5>3, <5>4 DEF CreatePhoto, HasImage
      <4>3. QED
        BY <4>1, <4>2
    <3>4. OneConfirmation'
      BY <1>t, <2>1 DEF KeyInv, TypeOK, OneConfirmation, Confirming, Idle
    <3>5. OneRowPerKey'
      BY <3>1, <3>2 DEF KeyInv, OneRowPerKey
    <3>6. QED
      BY <1>6, <1>t, <2>3, <3>1, <3>3, <3>4, <3>5 DEF CreatePhoto, KeyInv
  <2>4. QED
    BY <1>6, <2>2, <2>3 DEF CreatePhoto
<1>7. CASE DeleteFails(r) /\ object' = object
  BY <1>7, <1>t, <1>i, QuietStep DEF DeleteFails
<1>8. CASE /\ DeleteObject(r) \/ DeleteFails(r)
           /\ object' = [object EXCEPT ![req[r].key] = "removed"]
  <2> DEFINE k == req[r].key
             i == req[r].photo
  <2>1. /\ req[r] \in DeleteRequest /\ req[r].pc = "object"
        /\ k \in Key /\ i \in Photo
    BY <1>8, <1>t, SlotTypes DEF DeleteObject, DeleteFails, DeleteRequest
  <2>2. /\ Rows' = Rows /\ photo' = photo /\ gone' = gone /\ deleted' = deleted
        /\ \A s \in Req \ {r} : req'[s] = req[s]
    BY <1>8, <1>t DEF DeleteObject, DeleteFails, Rows, TypeOK
  <2>3. /\ req'[r].pc \in {"idle", "row"}
        /\ req'[r].pc = "row" => req'[r].photo = i /\ req'[r].key = k
    <3>1. CASE DeleteFails(r)
      BY <1>t, <1>i, <3>1 DEF DeleteFails, TypeOK
    <3>2. CASE DeleteObject(r)
      BY <1>t, <2>1, <3>2 DEF DeleteObject, DeleteRequest, TypeOK
    <3>3. QED
      BY <1>8, <3>1, <3>2
  <2>4. object'[k] = "removed" /\ \A c \in Key : c # k => object'[c] = object[c]
    BY <1>8, <1>t, <2>1 DEF TypeOK
  <2> HIDE DEF k, i
  \* A confirmation of the same key is not past S3.
  <2>5. \A s \in Req : req[s].pc = "create" /\ req[s].key = k => gone
    BY <1>h, <2>1 DEF KeyInv, NoRowYet, Checked, HasImage, HoldsKey, k, i
  <2>6. ASSUME NEW s \in Req
        PROVE  (NoRowYet(req[s]) /\ HasImage(req[s]) /\ HoldsKey(req[s]))'
    <3>1. CASE s = r
      BY <1>h, <2>1, <2>2, <2>3, <2>4, <3>1 DEF NoRowYet, Checked, HasImage, HoldsKey, k, i
    <3>2. CASE s # r
      <4>1. req'[s] = req[s] /\ NoRowYet(req[s]) /\ HasImage(req[s]) /\ HoldsKey(req[s])
        BY <2>2, <3>2 DEF KeyInv
      <4>2. req[s].pc \in {"create", "object", "row"} => req[s].key \in Key
        BY <1>t, SlotTypes DEF DeleteRequest, ConfirmRequest
      <4>3. HasImage(req[s])'
        BY <2>2, <2>4, <2>5, <4>1, <4>2 DEF HasImage
      <4>4. HoldsKey(req[s])'
        BY <2>2, <2>4, <4>1, <4>2 DEF HoldsKey
      <4>5. QED
        BY <2>2, <4>1, <4>3, <4>4 DEF NoRowYet, Checked
    <3>3. QED
      BY <3>1, <3>2
  <2>7. OneConfirmation'
    BY <2>2, <2>3 DEF KeyInv, OneConfirmation, Confirming
  <2>8. QED
    BY <1>t, <2>2, <2>6, <2>7 DEF KeyInv, OneRowPerKey
<1>9. CASE DeleteRow(r)
  <2> DEFINE k == req[r].key
             i == req[r].photo
  <2>1. req[r] \in DeleteRequest /\ req[r].pc = "row" /\ req' = [req EXCEPT ![r] = Idle]
    BY <1>9, <1>t, SlotTypes DEF DeleteRow
  <2>2. i \in Photo /\ k \in Key /\ object[k] = "removed" /\ (i \in Rows => photo[i].key = k)
    BY <1>h, <2>1 DEF DeleteRequest, HoldsKey
  <2>3. /\ Rows' = Rows \ {i} /\ deleted' = deleted \cup {i}
        /\ \A j \in Rows' : photo'[j] = photo[j]
        /\ object' = object /\ gone' = gone
    BY <1>9, <1>t, <2>2 DEF DeleteRow, Rows, TypeOK
  <2> HIDE DEF k, i
  <2>4. ASSUME NEW s \in Req
        PROVE  (NoRowYet(req[s]) /\ HasImage(req[s]) /\ HoldsKey(req[s]))'
    <3>1. CASE s = r
      BY <1>i, <1>t, <2>1, <3>1 DEF TypeOK, NoRowYet, Checked, HasImage, HoldsKey
    <3>2. CASE s # r
      <4>1. req'[s] = req[s] /\ NoRowYet(req[s]) /\ HasImage(req[s]) /\ HoldsKey(req[s])
        BY <2>1, <3>2, <1>t DEF TypeOK, KeyInv
      <4>2. HoldsKey(req[s])'
        BY <2>2, <2>3, <4>1 DEF HoldsKey
      <4>3. QED
        BY <2>3, <4>1, <4>2 DEF NoRowYet, Checked, HasImage
    <3>3. QED
      BY <3>1, <3>2
  <2>5. OneConfirmation'
    BY <1>t, <2>1 DEF KeyInv, TypeOK, OneConfirmation, Confirming, Idle
  <2>6. QED
    BY <1>t, <2>3, <2>4, <2>5 DEF KeyInv, OneRowPerKey
<1>10. QED
  BY <1>1, <1>2, <1>3, <1>4, <1>5, <1>6, <1>7, <1>8, <1>9 DEF Step, DeleteObject, DeleteFails

LEMMA NextKeyInv == KeyInv /\ [Next]_vars => KeyInv'
<1> SUFFICES ASSUME KeyInv, [Next]_vars PROVE KeyInv'
  OBVIOUS
<1>t. TypeOK /\ TypeOK'
  BY NextTypeOK DEF KeyInv
<1>1. CASE UNCHANGED <<object, photo, deleted, gone, req>>
  BY <1>t, <1>1 DEF KeyInv, Rows, OneConfirmation, Confirming, NoRowYet, Checked, HasImage,
     HoldsKey, OneRowPerKey
<1>2. ASSUME NEW k \in Key, Upload(k) PROVE KeyInv'
  <2>1. /\ Rows' = Rows /\ photo' = photo /\ deleted' = deleted /\ gone' = gone /\ req' = req
        /\ \A c \in Key : object[c] # "none" => object'[c] = object[c]
    BY <1>t, <1>2 DEF Upload, Rows, TypeOK
  <2>2. \A s \in Req : req[s].pc \in {"create", "object", "row"} => req[s].key \in Key
    BY <1>t, SlotTypes DEF DeleteRequest, ConfirmRequest
  <2>3. ASSUME NEW s \in Req
        PROVE  (NoRowYet(req[s]) /\ HasImage(req[s]) /\ HoldsKey(req[s]))'
    BY <2>1, <2>2 DEF KeyInv, NoRowYet, Checked, HasImage, HoldsKey
  <2>4. QED
    BY <1>t, <2>1, <2>3 DEF KeyInv, OneConfirmation, Confirming, OneRowPerKey
<1>3. ASSUME NEW r \in Req, NEW k \in Key, ConfirmUpload(r, k) PROVE KeyInv'
  <2> DEFINE q == [pc |-> "reads", key |-> k, left |-> {"count", "duplicate"},
                   ok |-> TRUE, position |-> 0]
  <2>1. NoRowYet(q) /\ HasImage(q) /\ HoldsKey(q)
    BY DEF NoRowYet, Checked, HasImage, HoldsKey
  <2>2. q.key = k
    OBVIOUS
  <2>3. req' = [req EXCEPT ![r] = q]
    BY <1>3 DEF ConfirmUpload, Put
  <2> HIDE DEF q
  <2>4. QED
    BY <1>3, <1>t, <2>1, <2>2, <2>3, QuietStep DEF ConfirmUpload
<1>4. ASSUME NEW r \in Req, NEW i \in Photo, FindPhoto(r, i) PROVE KeyInv'
  <2> DEFINE q == [pc |-> "object", photo |-> i, key |-> photo[i].key]
  <2>1. NoRowYet(q) /\ HasImage(q) /\ HoldsKey(q) /\ q.pc = "object"
    BY <1>4 DEF FindPhoto, NoRowYet, Checked, HasImage, HoldsKey
  <2>2. req' = [req EXCEPT ![r] = q]
    BY <1>4 DEF FindPhoto, Put
  <2> HIDE DEF q
  <2>3. QED
    BY <1>4, <1>t, <2>1, <2>2, QuietStep DEF FindPhoto
<1>5. CASE DeleteUser
  <2>1. Rows' = {} /\ gone' /\ deleted' = deleted \cup Rows /\ object' = object /\ req' = req
    BY <1>5 DEF DeleteUser, Rows
  <2>2. ASSUME NEW s \in Req
        PROVE  (NoRowYet(req[s]) /\ HasImage(req[s]) /\ HoldsKey(req[s]))'
    BY <2>1 DEF KeyInv, NoRowYet, HasImage, HoldsKey
  <2>3. QED
    BY <1>t, <2>1, <2>2 DEF KeyInv, OneConfirmation, Confirming, OneRowPerKey
<1>6. CASE Crash
  <2>1. UNCHANGED <<object, photo, deleted, gone>> /\ Rows' = Rows /\ \A s \in Req : req'[s].pc = "idle"
    BY <1>6 DEF Crash, Rows, Idle
  <2>2. QED
    BY <1>t, <2>1 DEF KeyInv, OneConfirmation, Confirming, NoRowYet, Checked, HasImage, HoldsKey,
       OneRowPerKey
<1>7. QED
  BY <1>1, <1>2, <1>3, <1>4, <1>5, <1>6, StepKeyInv DEF Next, CreateUploadUrl, vars

LEMMA KeyInvHolds == Spec => []KeyInv
BY InitKeyInv, NextKeyInv, PTL DEF Spec

(* A key is confirmed into one row at most, whatever is deleted and        *)
(* confirmed again meanwhile, although no unique index says so.            *)
THEOREM OneRowPerKeyHolds == Spec => []OneRowPerKey
<1>1. KeyInv => OneRowPerKey
  BY DEF KeyInv
<1>2. QED
  BY <1>1, KeyInvHolds, PTL

\* A step after which a photo has no picture, if it had one or was not there.
LEMMA WhoBreaks ==
  ASSUME KeyInv, [Next]_vars, NEW i \in Broken', i \notin Broken
  PROVE  \E r \in Req : req[r].pc = "object" /\ req[r].photo = i
<1>t. TypeOK
  BY DEF KeyInv
<1>b. i \in Rows' /\ object'[photo'[i].key] # "image"
  BY DEF Broken
<1>1. CASE UNCHANGED <<object, photo>>
  BY <1>1, <1>b DEF Broken, Rows
<1>2. ASSUME NEW k \in Key, Upload(k) PROVE FALSE
  <2>1. i \in Rows /\ photo[i].key \in Key /\ object[photo[i].key] = "image"
    BY <1>t, <1>b, <1>2, RowTypes DEF Upload, Broken, Rows
  <2>2. QED
    BY <1>t, <1>b, <1>2, <2>1 DEF Upload, TypeOK
<1>3. CASE DeleteUser
  BY <1>b, <1>3 DEF DeleteUser, Rows
<1>4. ASSUME NEW r \in Req, DeleteRow(r) PROVE FALSE
  BY <1>t, <1>b, <1>4 DEF DeleteRow, Rows, TypeOK, Broken
<1>5. ASSUME NEW r \in Req, CreatePhoto(r) PROVE FALSE
  <2>1. CASE photo' = photo
    BY <1>b, <1>5, <2>1 DEF CreatePhoto, Broken, Rows
  <2>2. ASSUME ~gone, NEW j \in Photo \ (Rows \cup deleted),
               photo' = [photo EXCEPT ![j] = [key |-> req[r].key, position |-> req[r].position]]
        PROVE  FALSE
    <3>1. object[req[r].key] = "image" /\ object' = object
      BY <1>5, <2>2 DEF KeyInv, HasImage, CreatePhoto
    <3>2. CASE i = j
      BY <1>t, <1>b, <2>2, <3>1, <3>2 DEF TypeOK
    <3>3. CASE i # j
      BY <1>t, <1>b, <2>2, <3>1, <3>3 DEF TypeOK, Broken, Rows
    <3>4. QED
      BY <3>2, <3>3
  <2>3. QED
    BY <1>5, <2>1, <2>2 DEF CreatePhoto
<1>6. ASSUME NEW r \in Req, Discard(r) PROVE FALSE
  <2>1. /\ i \in Rows /\ photo'[i] = photo[i] /\ photo[i].key \in Key
        /\ object[photo[i].key] = "image" /\ photo[i].key # req[r].key
    BY <1>t, <1>b, <1>6, RowTypes DEF Discard, Broken, Rows, KeyInv, NoRowYet, Checked
  <2>2. QED
    BY <1>t, <1>b, <1>6, <2>1 DEF Discard, TypeOK
<1>7. ASSUME NEW r \in Req, DeleteObject(r) \/ DeleteFails(r)
      PROVE  req[r].pc = "object" /\ req[r].photo = i
  <2>1. /\ req[r].pc = "object" /\ i \in Rows /\ photo'[i] = photo[i] /\ photo[i].key \in Key
        /\ object[photo[i].key] = "image"
        /\ object' \in {object, [object EXCEPT ![req[r].key] = "removed"]}
    BY <1>t, <1>b, <1>7, RowTypes DEF DeleteObject, DeleteFails, Broken, Rows
  <2>2. photo[i].key = req[r].key
    BY <1>t, <1>b, <2>1 DEF TypeOK
  <2>3. HoldsKey(req[r]) /\ OneRowPerKey /\ (gone => Rows = {})
    BY DEF KeyInv
  <2>4. QED
    BY <2>1, <2>2, <2>3 DEF HoldsKey, OneRowPerKey
<1>8. QED
  BY <1>1, <1>2, <1>3, <1>4, <1>5, <1>6, <1>7
     DEF Next, Step, CreateUploadUrl, ConfirmUpload, CountPhotos, FindDuplicate, Refuse, HeadObject,
         FindPhoto, Crash, vars

(* A photo loses its picture by its own deletion only, whatever becomes of *)
(* the calls of S3: between the HEAD of S3 and the insert nothing removes  *)
(* the object of a key that has no row yet, and past the duplicate check   *)
(* nothing is discarded that has one.                                      *)
THEOREM OnlyDeletionBreaksHolds == Spec => OnlyDeletionBreaks
<1>1. KeyInv /\ [Next]_vars =>
        [\A i \in Broken' \ Broken :
           \E r \in Req : req[r].pc = "object" /\ req[r].photo = i]_vars
  BY WhoBreaks
<1>2. QED
  BY <1>1, InitKeyInv, NextKeyInv, PTL DEF Spec, OnlyDeletionBreaks
=============================================================================
