---------------------------- MODULE SessionProofs ----------------------------
(***************************************************************************)
(* Theorems about Session, for any number of pages and of accounts.        *)
(***************************************************************************)
EXTENDS Session, TLAPS

Logins ==
  [pc : {"off", "find", "create", "done"}] \cup [pc : {"update"}, id : Id]
    \cup [pc : {"answer"}, id : Id, setup : BOOLEAN]
Saves ==
  [pc : {"validate", "upsert", "ok", "401"}, token : Id,
   from : {"setup", "edit"}, as : {"incomplete", "complete"}]
Calls == [pc : {"validate", "401"}, token : Id]

\* What a request holds, its pc says.
LEMMA SlotTypes ==
  ASSUME TypeOK, NEW d \in Page
  PROVE  /\ login[d].pc = "update" => login[d].id \in Id
         /\ login[d].pc = "answer" => login[d].id \in Id /\ login[d].setup \in BOOLEAN
         /\ save[d] # Idle <=> save[d] \in Saves
         /\ save[d] # Idle <=> save[d].pc # "idle"
         /\ call[d] # Idle <=> call[d] \in Calls
         /\ call[d] # Idle <=> call[d].pc # "idle"
         /\ store[d] \in [token : Id \cup {NoToken}, setup : BOOLEAN]
<1>1. login[d] \in Logins
  BY DEF TypeOK, Logins
<1>2. save[d] \in {Idle} \cup Saves /\ call[d] \in {Idle} \cup Calls
  BY DEF TypeOK, Saves, Calls
<1>3. \A q \in Saves : q # Idle /\ q.pc # "idle"
  BY DEF Saves, Idle
<1>4. \A q \in Calls : q # Idle /\ q.pc # "idle"
  BY DEF Calls, Idle
<1>5. login[d].pc = "update" => login[d].id \in Id
  BY <1>1 DEF Logins
<1>6. login[d].pc = "answer" => login[d].id \in Id /\ login[d].setup \in BOOLEAN
  BY <1>1 DEF Logins
<1>7. store[d] \in [token : Id \cup {NoToken}, setup : BOOLEAN]
  BY DEF TypeOK
<1>8. Idle.pc = "idle"
  BY DEF Idle
<1>9. QED
  BY <1>2, <1>3, <1>4, <1>5, <1>6, <1>7, <1>8

LEMMA InitTypeOK == Init => TypeOK
BY DEF Init, TypeOK, Idle, LoggedOut

LEMMA NextTypeOK == TypeOK /\ [Next]_vars => TypeOK'
<1> SUFFICES ASSUME TypeOK, [Next]_vars PROVE TypeOK'
  OBVIOUS
<1>l. LoggedOut \in [token : Id \cup {NoToken}, setup : BOOLEAN]
  BY DEF LoggedOut
<1>1. ASSUME NEW d \in Page, NEW i \in InitData, Mount(d, i) PROVE TypeOK'
  <2>1. save[d].pc = "upsert" => [save[d] EXCEPT !.from = "edit"] \in Saves
    BY SlotTypes DEF Saves, Idle
  <2>2. PICK q \in {Idle} \cup Saves : save' = [save EXCEPT ![d] = q]
    BY <1>1, <2>1 DEF Mount
  <2>3. save' \in [Page -> {Idle} \cup Saves]
    BY <2>2 DEF TypeOK, Saves
  <2>4. login' \in [Page -> Logins]
    BY <1>1 DEF Mount, TypeOK, Logins
  <2>5. QED
    BY <1>1, <1>l, <2>3, <2>4 DEF Mount, TypeOK, Saves, Logins, tables
<1>2. ASSUME NEW d \in Page, Login(d) PROVE TypeOK'
  <2>1. CASE FindUser(d)
    BY <2>1 DEF FindUser, TypeOK, Rows, tables
  <2>2. CASE CreateUser(d)
    <3>1. PICK q \in Logins : login' = [login EXCEPT ![d] = q]
      BY <2>2 DEF CreateUser, Logins
    <3>2. login' \in [Page -> Logins]
      BY <3>1 DEF TypeOK, Logins
    <3>3. account' \in [Id -> {"none", "ACTIVE", "BANNED", "gone"}]
      BY <2>2 DEF CreateUser, TypeOK
    <3>4. QED
      BY <2>2, <3>2, <3>3 DEF CreateUser, TypeOK, Logins
  <2>3. CASE UpdateUser(d)
    <3>1. login[d].id \in Id /\ (profile[login[d].id] # "complete") \in BOOLEAN
      BY <2>3, SlotTypes DEF UpdateUser
    <3>2. login'[d] \in [pc : {"done"}] \cup [pc : {"answer"}, id : Id, setup : BOOLEAN]
      BY <2>3, <3>1 DEF UpdateUser, TypeOK
    <3>3. login' = [login EXCEPT ![d] = login'[d]]
      BY <2>3 DEF UpdateUser, TypeOK
    <3>4. QED
      BY <2>3, <3>2, <3>3 DEF UpdateUser, TypeOK, tables
  <2>4. CASE Bootstrapped(d)
    BY <2>4, SlotTypes DEF Bootstrapped, SetSession, TypeOK, tables
  <2>5. QED
    BY <1>2, <2>1, <2>2, <2>3, <2>4 DEF Login
<1>3. ASSUME NEW d \in Page, SaveSetup(d) \/ SaveEdit(d) PROVE TypeOK'
  BY <1>3, SlotTypes DEF SaveSetup, SaveEdit, PutSave, TypeOK, tables
<1>4. ASSUME NEW d \in Page, Saving(d) PROVE TypeOK'
  <2>1. save[d] \in Saves
    BY <1>4, SlotTypes DEF Saving, ValidateSave, Upsert, Saved, SaveRefused
  <2>2. \A pc \in {"upsert", "ok", "401"} : [save[d] EXCEPT !.pc = pc] \in Saves
    BY <2>1 DEF Saves
  <2>s. ASSUME NEW q \in {Idle} \cup Saves, save' = [save EXCEPT ![d] = q]
        PROVE  save' \in [Page -> {Idle} \cup Saves]
    BY <2>s DEF TypeOK, Saves
  <2>3. CASE ValidateSave(d)
    <3>1. PICK pc \in {"upsert", "401"} : save' = [save EXCEPT ![d] = [save[d] EXCEPT !.pc = pc]]
      BY <2>3 DEF ValidateSave, GotoSave, PutSave
    <3>2. save' \in [Page -> {Idle} \cup Saves]
      BY <2>2, <2>s, <3>1
    <3>3. QED
      BY <2>3, <3>2 DEF ValidateSave, TypeOK, Saves, tables
  <2>4. CASE Upsert(d)
    <3>1. save' \in {[save EXCEPT ![d] = Idle], [save EXCEPT ![d] = [save[d] EXCEPT !.pc = "ok"]]}
      BY <2>4 DEF Upsert, GotoSave, PutSave
    <3>2. save' \in [Page -> {Idle} \cup Saves]
      BY <2>2, <2>s, <3>1
    <3>3. save[d].as \in {"incomplete", "complete"} /\ save[d].token \in Id
      BY <2>1 DEF Saves
    <3>4. profile' \in [Id -> {"none", "incomplete", "complete"}]
      BY <2>4, <3>3 DEF Upsert, TypeOK
    <3>5. QED
      BY <2>4, <3>2, <3>4 DEF Upsert, TypeOK, Saves
  <2>5. CASE Saved(d)
    <3>1. save' \in [Page -> {Idle} \cup Saves]
      BY <2>5, <2>s DEF Saved, PutSave
    <3>2. store' \in [Page -> [token : Id \cup {NoToken}, setup : BOOLEAN]]
      <4>1. [token |-> save[d].token, setup |-> FALSE] \in [token : Id \cup {NoToken}, setup : BOOLEAN]
        BY <2>1 DEF Saves
      <4>2. QED
        BY <2>5, <4>1 DEF Saved, SetSession, TypeOK
    <3>3. QED
      BY <2>5, <3>1, <3>2 DEF Saved, TypeOK, Saves, tables
  <2>6. CASE SaveRefused(d)
    BY <1>l, <2>6 DEF SaveRefused, Logout, PutSave, TypeOK, tables
  <2>7. QED
    BY <1>4, <2>3, <2>4, <2>5, <2>6 DEF Saving
<1>5. ASSUME NEW d \in Page, Calling(d) PROVE TypeOK'
  <2>1. CASE Call(d)
    BY <2>1, SlotTypes DEF Call, PutCall, TypeOK, tables
  <2>2. CASE ValidateCall(d)
    <3>1. [call[d] EXCEPT !.pc = "401"] \in Calls
      BY <2>2, SlotTypes DEF ValidateCall, Calls
    <3>2. QED
      BY <2>2, <3>1 DEF ValidateCall, PutCall, TypeOK, Calls, tables
  <2>3. CASE CallRefused(d)
    BY <1>l, <2>3 DEF CallRefused, Logout, PutCall, TypeOK, tables
  <2>4. QED
    BY <1>5, <2>1, <2>2, <2>3 DEF Calling
<1>6. ASSUME NEW d \in Page, LogoutClick(d) PROVE TypeOK'
  BY <1>l, <1>6 DEF LogoutClick, Logout, TypeOK, tables
<1>7. ASSUME NEW i \in Id, BanUser(i) \/ UnbanUser(i) \/ DeleteUser(i) PROVE TypeOK'
  BY <1>7 DEF BanUser, UnbanUser, DeleteUser, TypeOK
<1>8. CASE UNCHANGED vars
  BY <1>8 DEF vars, tables, TypeOK
<1>9. QED
  BY <1>1, <1>2, <1>3, <1>4, <1>5, <1>6, <1>7, <1>8 DEF Next

(* Every variable keeps its type.                                          *)
THEOREM TypeCorrect == Spec => []TypeOK
BY InitTypeOK, NextTypeOK, PTL DEF Spec

-----------------------------------------------------------------------------
(* The inductive invariant.  One account is alive at a time, every id that *)
(* a page, a login or a request holds was an account once, and whatever    *)
(* may still take a page past the setup has found or written a profile.    *)

OneRow == \A i, j \in Rows : i = j

Made(i) == account[i] # "none"

HasProfile(i) == profile[i] # "none" \/ account[i] = "gone"

Sound(d) ==
  /\ store[d].token # NoToken =>
       Made(store[d].token) /\ (~store[d].setup => HasProfile(store[d].token))
  /\ login[d].pc \in {"update", "answer"} => Made(login[d].id)
  /\ login[d].pc = "answer" /\ ~login[d].setup => HasProfile(login[d].id)
  /\ save[d] # Idle => Made(save[d].token)
  /\ save[d].pc = "ok" => HasProfile(save[d].token)

SessionInv == TypeOK /\ OneRow /\ \A d \in Page : Sound(d)

LEMMA InitSessionInv == Init => SessionInv
<1> SUFFICES ASSUME Init PROVE SessionInv
  OBVIOUS
<1>1. OneRow
  BY DEF Init, OneRow, Rows
<1>2. \A d \in Page : Sound(d)
  BY DEF Init, Sound, LoggedOut, Idle
<1>3. QED
  BY <1>1, <1>2, InitTypeOK DEF SessionInv

\* A page that a step does not touch stays sound.
LEMMA Elsewhere ==
  ASSUME SessionInv, NEW d \in Page,
         \A i \in Id : Made(i) => Made(i)',
         \A i \in Id : Made(i) /\ HasProfile(i) => HasProfile(i)',
         store'[d] = store[d], login'[d] = login[d], save'[d] = save[d]
  PROVE  Sound(d)'
BY SlotTypes DEF SessionInv, Sound, Saves

LEMMA NextSessionInv == SessionInv /\ [Next]_vars => SessionInv'
<1> SUFFICES ASSUME SessionInv, [Next]_vars PROVE SessionInv'
  OBVIOUS
<1>t. TypeOK /\ TypeOK'
  BY NextTypeOK DEF SessionInv
\* The account of an id: made once, gone once.
<1>m. /\ \A i \in Id : Made(i) => Made(i)'
      /\ \A i \in Id : Made(i) /\ HasProfile(i) => HasProfile(i)'
  <2>1. CASE UNCHANGED tables
    BY <2>1 DEF tables, Made, HasProfile
  <2>2. ASSUME NEW d \in Page, CreateUser(d)
        PROVE  \A i \in Id : /\ Made(i) => Made(i)'
                             /\ Made(i) /\ HasProfile(i) => HasProfile(i)'
    BY <1>t, <2>2 DEF CreateUser, Fresh, TypeOK, Made, HasProfile
  <2>3. ASSUME NEW d \in Page, Upsert(d)
        PROVE  \A i \in Id : /\ Made(i) => Made(i)'
                             /\ Made(i) /\ HasProfile(i) => HasProfile(i)'
    <3>1. save[d].token \in Id /\ save[d].as # "none"
      BY <1>t, <2>3, SlotTypes DEF Upsert, Saves
    <3>2. QED
      BY <1>t, <2>3, <3>1 DEF Upsert, TypeOK, Made, HasProfile
  <2>4. ASSUME NEW j \in Id, BanUser(j) \/ UnbanUser(j) \/ DeleteUser(j)
        PROVE  \A i \in Id : /\ Made(i) => Made(i)'
                             /\ Made(i) /\ HasProfile(i) => HasProfile(i)'
    BY <1>t, <2>4 DEF BanUser, UnbanUser, DeleteUser, TypeOK, Made, HasProfile
  <2>5. QED
    BY <2>1, <2>2, <2>3, <2>4 DEF Next, Mount, Login, FindUser, UpdateUser, Bootstrapped,
       SaveSetup, SaveEdit, Saving, ValidateSave, Saved, SaveRefused, Calling, Call,
       ValidateCall, CallRefused, LogoutClick, vars, tables
<1>r. OneRow'
  <2>1. CASE Rows' \subseteq Rows
    BY <2>1 DEF SessionInv, OneRow
  <2>2. ASSUME NEW d \in Page, CreateUser(d) PROVE OneRow'
    BY <1>t, <2>2 DEF CreateUser, TypeOK, OneRow, Rows, SessionInv
  <2>3. ASSUME NEW j \in Id, BanUser(j) \/ UnbanUser(j) \/ DeleteUser(j) PROVE OneRow'
    BY <1>t, <2>3 DEF BanUser, UnbanUser, DeleteUser, TypeOK, OneRow, Rows, SessionInv
  <2>4. CASE UNCHANGED account
    BY <2>1, <2>4 DEF Rows
  <2>5. QED
    BY <2>2, <2>3, <2>4 DEF Next, Mount, Login, FindUser, UpdateUser, Bootstrapped,
       SaveSetup, SaveEdit, Saving, ValidateSave, Upsert, Saved, SaveRefused, Calling, Call,
       ValidateCall, CallRefused, LogoutClick, vars, tables
<1>s. ASSUME NEW e \in Page PROVE Sound(e)'
  <2>1. CASE store'[e] = store[e] /\ login'[e] = login[e] /\ save'[e] = save[e]
    BY <1>m, <2>1, Elsewhere
  <2>2. CASE \E i \in InitData : Mount(e, i)
    <3>1. store'[e] = LoggedOut /\ login'[e].pc \in {"find", "done"}
      BY <1>t, <2>2 DEF Mount, TypeOK
    <3>2. CASE save[e].pc = "upsert"
      <4>1. save[e] \in Saves /\ save'[e] = [save[e] EXCEPT !.from = "edit"]
        BY <1>t, <2>2, <3>2, SlotTypes DEF Mount, TypeOK, Idle
      <4>2. save'[e].token = save[e].token /\ save'[e].pc = "upsert" /\ save[e].token \in Id
            /\ save[e] # Idle
        BY <3>2, <4>1 DEF Saves, Idle
      <4>3. QED
        BY <1>m, <3>1, <4>2 DEF SessionInv, Sound, LoggedOut
    <3>3. CASE save[e].pc # "upsert"
      <4>1. save'[e] = Idle
        BY <1>t, <2>2, <3>3 DEF Mount, TypeOK
      <4>2. QED
        BY <3>1, <4>1 DEF Sound, LoggedOut, Idle
    <3>4. QED
      BY <3>2, <3>3
  <2>3. CASE Login(e)
    <3>1. CASE Bootstrapped(e)
      <4>1. /\ store'[e] = [token |-> login[e].id, setup |-> login[e].setup]
            /\ login'[e] = [pc |-> "done"] /\ save'[e] = save[e] /\ login[e].id \in Id
        BY <1>t, <3>1, SlotTypes DEF Bootstrapped, SetSession, TypeOK
      <4>2. save[e] # Idle => save[e].token \in Id
        BY <1>t, SlotTypes DEF Saves
      <4>3. save[e].pc = "ok" => save[e] # Idle
        BY DEF Idle
      <4>4. QED
        BY <1>m, <3>1, <4>1, <4>2, <4>3 DEF Bootstrapped, SessionInv, Sound
    <3>2. CASE FindUser(e) \/ CreateUser(e) \/ UpdateUser(e)
      <4>1. store'[e] = store[e] /\ save'[e] = save[e]
        BY <3>2 DEF FindUser, CreateUser, UpdateUser
      <4>2. (/\ login[e].pc \in {"update", "answer"} => Made(login[e].id)
             /\ login[e].pc = "answer" /\ ~login[e].setup => HasProfile(login[e].id))'
        <5>1. CASE FindUser(e)
          BY <1>t, <1>m, <5>1 DEF FindUser, TypeOK, Rows, Made, tables
        <5>2. CASE CreateUser(e)
          BY <1>t, <5>2 DEF CreateUser, TypeOK, Made
        <5>3. CASE UpdateUser(e)
          <6>1. login[e].id \in Id
            BY <1>t, <5>3, SlotTypes DEF UpdateUser
          <6>2. CASE login[e].id \notin Rows
            BY <1>t, <5>3, <6>2 DEF UpdateUser, TypeOK
          <6>3. CASE login[e].id \in Rows
            BY <1>t, <5>3, <6>1, <6>3 DEF UpdateUser, TypeOK, Rows, Made, HasProfile, tables
          <6>4. QED
            BY <6>2, <6>3
        <5>4. QED
          BY <3>2, <5>1, <5>2, <5>3
      <4>3. QED
        BY <1>t, <1>m, <4>1, <4>2, SlotTypes DEF SessionInv, Sound, Saves
    <3>3. QED
      BY <2>3, <3>1, <3>2 DEF Login
  <2>4. CASE SaveSetup(e) \/ SaveEdit(e)
    <3>1. /\ store'[e] = store[e] /\ login'[e] = login[e]
          /\ store[e].token # NoToken /\ save'[e].token = store[e].token
          /\ save'[e].pc = "validate"
      BY <1>t, <2>4 DEF SaveSetup, SaveEdit, PutSave, TypeOK
    <3>2. QED
      BY <1>t, <1>m, <3>1, SlotTypes DEF SessionInv, Sound
  <2>5. CASE Saving(e)
    <3>1. save[e] \in Saves /\ save[e] # Idle /\ save[e].token \in Id
      BY <1>t, <2>5, SlotTypes DEF Saving, ValidateSave, Upsert, Saved, SaveRefused, Saves
    <3>2. Made(save[e].token)
      BY <3>1 DEF SessionInv, Sound
    <3>3. CASE ValidateSave(e)
      <4>1. /\ store'[e] = store[e] /\ login'[e] = login[e]
            /\ save'[e].token = save[e].token /\ save'[e].pc \in {"upsert", "401"}
        BY <1>t, <3>1, <3>3 DEF ValidateSave, GotoSave, PutSave, TypeOK, Saves
      <4>2. QED
        BY <1>t, <1>m, <3>1, <3>2, <4>1, SlotTypes DEF SessionInv, Sound
    <3>4. CASE Upsert(e)
      <4>1. store'[e] = store[e] /\ login'[e] = login[e]
        BY <3>4 DEF Upsert
      <4>2. CASE save[e].token \in Rows
        <5>1. /\ save'[e].token = save[e].token /\ save'[e].pc = "ok"
              /\ profile'[save[e].token] # "none"
          BY <1>t, <3>1, <3>4, <4>2 DEF Upsert, GotoSave, PutSave, TypeOK, Saves
        <5>2. QED
          BY <1>t, <1>m, <3>1, <3>2, <4>1, <5>1, SlotTypes DEF SessionInv, Sound, HasProfile
      <4>3. CASE save[e].token \notin Rows
        <5>1. save'[e] = Idle
          BY <1>t, <3>4, <4>3 DEF Upsert, PutSave, TypeOK
        <5>2. QED
          BY <1>t, <1>m, <4>1, <5>1, SlotTypes DEF SessionInv, Sound, Idle
      <4>4. QED
        BY <4>2, <4>3
    <3>5. CASE Saved(e)
      <4>1. /\ save'[e] = Idle /\ login'[e] = login[e]
            /\ store'[e] \in {store[e], [token |-> save[e].token, setup |-> FALSE]}
        BY <1>t, <3>5 DEF Saved, SetSession, PutSave, TypeOK
      <4>2. HasProfile(save[e].token)
        BY <3>5 DEF Saved, SessionInv, Sound
      <4>3. QED
        BY <1>t, <1>m, <3>1, <3>2, <4>1, <4>2, SlotTypes DEF SessionInv, Sound, Idle
    <3>6. CASE SaveRefused(e)
      <4>1. save'[e] = Idle /\ login'[e] = login[e] /\ store'[e] = LoggedOut
        BY <1>t, <3>6 DEF SaveRefused, Logout, PutSave, TypeOK
      <4>2. QED
        BY <1>t, <1>m, <4>1, SlotTypes DEF SessionInv, Sound, LoggedOut, Idle
    <3>7. QED
      BY <2>5, <3>3, <3>4, <3>5, <3>6 DEF Saving
  <2>6. CASE CallRefused(e) \/ LogoutClick(e)
    <3>1. save'[e] = save[e] /\ login'[e] = login[e] /\ store'[e] = LoggedOut
      BY <1>t, <2>6 DEF CallRefused, LogoutClick, Logout, TypeOK
    <3>2. QED
      BY <1>t, <1>m, <3>1, SlotTypes DEF SessionInv, Sound, LoggedOut, Saves
  <2>7. ASSUME NEW d \in Page \ {e},
               \/ \E i \in InitData : Mount(d, i)
               \/ Login(d) \/ SaveSetup(d) \/ SaveEdit(d) \/ Saving(d)
               \/ Calling(d) \/ LogoutClick(d)
        PROVE  store'[e] = store[e] /\ login'[e] = login[e] /\ save'[e] = save[e]
    <3>1. CASE \E i \in InitData : Mount(d, i)
      BY <1>t, <3>1 DEF TypeOK, Mount
    <3>2. CASE Login(d)
      BY <1>t, <3>2 DEF TypeOK, Login, FindUser, CreateUser, UpdateUser, Bootstrapped, SetSession
    <3>3. CASE SaveSetup(d) \/ SaveEdit(d)
      BY <1>t, <3>3 DEF TypeOK, SaveSetup, SaveEdit, PutSave
    <3>4. CASE Saving(d)
      BY <1>t, <3>4 DEF TypeOK, Saving, ValidateSave, Upsert, Saved, SaveRefused, Logout,
         SetSession, GotoSave, PutSave
    <3>5. CASE Calling(d) \/ LogoutClick(d)
      BY <1>t, <3>5 DEF TypeOK, Calling, Call, ValidateCall, CallRefused, LogoutClick, Logout
    <3>6. QED
      BY <2>7, <3>1, <3>2, <3>3, <3>4, <3>5
  <2>8. CASE UNCHANGED <<store, login, save>>
    BY <2>1, <2>8
  <2>9. QED
    BY <2>1, <2>2, <2>3, <2>4, <2>5, <2>6, <2>7, <2>8 DEF Next, Calling, Call, ValidateCall,
       BanUser, UnbanUser, DeleteUser, vars
<1>q. QED
  BY <1>t, <1>r, <1>s DEF SessionInv

LEMMA SessionInvHolds == Spec => []SessionInv
BY InitSessionInv, NextSessionInv, PTL DEF Spec

(* Two pages of a person hold tokens of one account, unless one of the     *)
(* accounts was deleted, however many first logins run at once.            *)
THEOREM SameAccountHolds == Spec => []SameAccount
<1>1. SessionInv => SameAccount
  BY SlotTypes DEF SessionInv, Sound, SameAccount, OneRow, Rows, Made, TypeOK
<1>2. QED
  BY <1>1, SessionInvHolds, PTL

(* No page is past the setup without a profile, also one that was logged   *)
(* out while it saved: what it puts back has just been given one.          *)
THEOREM PastSetupHasProfileHolds == Spec => []PastSetupHasProfile
<1>1. SessionInv => PastSetupHasProfile
  BY DEF SessionInv, Sound, PastSetupHasProfile, HasProfile
<1>2. QED
  BY <1>1, SessionInvHolds, PTL
=============================================================================
