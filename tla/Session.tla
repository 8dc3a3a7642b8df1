------------------------------- MODULE Session -------------------------------
(***************************************************************************)
(* One person's sessions: the login of App over AuthService, the token and *)
(* the setup flag in each page's authStore, the pages that save a profile, *)
(* and the interceptor that logs a page out when the server answers 401.   *)
(*                                                                         *)
(* The person opens the Mini App on several devices; an administrator bans *)
(* or deletes the account meanwhile, and a login after that makes a new    *)
(* one.  An action is one database statement of the server or one callback *)
(* of a page.                                                              *)
(***************************************************************************)
EXTENDS Naturals, FiniteSets

CONSTANTS
  Page,    \* the pages of the person
  Id,      \* user ids the person's accounts get
  NoToken

ASSUME SessionAssumption == NoToken \notin Id

MaxAge == 1   \* the day after which initData is refused; ages count from 0

VARIABLES
  account,  \* the status of each User row; all have the person's telegramId
  profile,  \* Profile.isComplete of each account, if it has a row
  store,    \* authStore: whose token it holds, and needsProfileSetup
  login,    \* POST /auth/telegram of each page
  save,     \* PUT /profiles/me, from ProfileSetupPage or ProfileEditPage
  call      \* any other call of the API

tables == <<account, profile>>
vars == <<tables, store, login, save, call>>

Idle == [pc |-> "idle"]
LoggedOut == [token |-> NoToken, setup |-> FALSE]

TypeOK ==
  /\ account \in [Id -> {"none", "ACTIVE", "BANNED", "gone"}]
  /\ profile \in [Id -> {"none", "incomplete", "complete"}]
  /\ store \in [Page -> [token : Id \cup {NoToken}, setup : BOOLEAN]]
  /\ login \in [Page -> [pc : {"off", "find", "create", "done"}]
                          \cup [pc : {"update"}, id : Id]
                          \cup [pc : {"answer"}, id : Id, setup : BOOLEAN]]
  /\ save \in [Page -> {Idle} \cup
                 [pc : {"validate", "upsert", "ok", "401"}, token : Id,
                  from : {"setup", "edit"}, as : {"incomplete", "complete"}]]
  /\ call \in [Page -> {Idle} \cup [pc : {"validate", "401"}, token : Id]]

Init ==
  /\ account = [i \in Id |-> "none"]
  /\ profile = [i \in Id |-> "none"]
  /\ store = [d \in Page |-> LoggedOut]
  /\ login = [d \in Page |-> [pc |-> "off"]]
  /\ save = [d \in Page |-> Idle]
  /\ call = [d \in Page |-> Idle]

Rows == {i \in Id : account[i] \in {"ACTIVE", "BANNED"}}

-----------------------------------------------------------------------------
(* Logging in: bootstrap in App, loginWithTelegram on the server           *)

\* What Telegram tells a page, once in its life: a reload sends it again.
\* signed: the hash is right and a user is named.
InitData == [signed : BOOLEAN, age : {MaxAge, MaxAge + 1}]

\* mutant of Valid: initData is refused as long as it is young
ValidOld(i) == i.signed /\ i.age > MaxAge

\* TelegramValidationService.validate; an empty initData is not signed.
Valid(i) == i.signed /\ i.age <= MaxAge

\* The page is loaded, anew if it was open: nothing of the old one is left but
\* a save that the server has let in and whose answer nobody hears.
Mount(d, initData) ==
  /\ login[d].pc \in {"off", "done"}
  /\ login' = [login EXCEPT ![d] = [pc |-> IF Valid(initData) THEN "find" ELSE "done"]]
  /\ store' = [store EXCEPT ![d] = LoggedOut]
  /\ save' = [save EXCEPT ![d] = IF @.pc = "upsert" THEN [@ EXCEPT !.from = "edit"] ELSE Idle]
  /\ call' = [call EXCEPT ![d] = Idle]
  /\ UNCHANGED tables

FindUser(d) ==
  /\ login[d].pc = "find"
  /\ \/ Rows = {} /\ login' = [login EXCEPT ![d] = [pc |-> "create"]]
     \/ \E i \in Rows :
          login' = [login EXCEPT ![d] = IF account[i] = "BANNED" THEN [pc |-> "done"]
                                        ELSE [pc |-> "update", id |-> i]]
  /\ UNCHANGED <<tables, store, save, call>>

Fresh(i) == account[i] = "none"

\* mutant of CreateUser: no unique index on telegramId
CreateAnyway(d) ==
  /\ login[d].pc = "create"
  /\ \E i \in Id :
       /\ Fresh(i)
       /\ account' = [account EXCEPT ![i] = "ACTIVE"]
       /\ login' = [login EXCEPT ![d] = [pc |-> "answer", id |-> i, setup |-> TRUE]]
  /\ UNCHANGED <<profile, store, save, call>>

\* telegramId is unique: the login fails if another one has created the row.
CreateUser(d) ==
  /\ login[d].pc = "create"
  /\ \/ /\ Rows # {}
        /\ login' = [login EXCEPT ![d] = [pc |-> "done"]]
        /\ UNCHANGED account
     \/ /\ Rows = {}
        /\ \E i \in Id :
             /\ Fresh(i)
             /\ account' = [account EXCEPT ![i] = "ACTIVE"]
             /\ login' = [login EXCEPT ![d] = [pc |-> "answer", id |-> i, setup |-> TRUE]]
  /\ UNCHANGED <<profile, store, save, call>>

\* mutant of UpdateUser: needsProfileSetup tells new users only
UpdateUserSetUp(d) ==
  /\ login[d].pc = "update"
  /\ LET i == login[d].id IN
     login' = [login EXCEPT ![d] = IF i \notin Rows THEN [pc |-> "done"]
                                   ELSE [pc |-> "answer", id |-> i, setup |-> FALSE]]
  /\ UNCHANGED <<tables, store, save, call>>

\* The update fails if the row is gone; a ban since the find is not seen.
UpdateUser(d) ==
  /\ login[d].pc = "update"
  /\ LET i == login[d].id IN
     login' = [login EXCEPT ![d] =
       IF i \notin Rows THEN [pc |-> "done"]
       ELSE [pc |-> "answer", id |-> i, setup |-> profile[i] # "complete"]]
  /\ UNCHANGED <<tables, store, save, call>>

SetSession(d, token, setup) == store' = [store EXCEPT ![d] = [token |-> token, setup |-> setup]]

Bootstrapped(d) ==
  /\ login[d].pc = "answer"
  /\ SetSession(d, login[d].id, login[d].setup)
  /\ login' = [login EXCEPT ![d] = [pc |-> "done"]]
  /\ UNCHANGED <<tables, save, call>>

-----------------------------------------------------------------------------
(* Saving the profile                                                      *)

PutSave(d, request) == save' = [save EXCEPT ![d] = request]
GotoSave(d, pc) == PutSave(d, [save[d] EXCEPT !.pc = pc])

\* handleSave of ProfileSetupPage, which wants a name.
SaveSetup(d) ==
  /\ save[d] = Idle
  /\ store[d].token # NoToken /\ store[d].setup
  /\ PutSave(d, [pc |-> "validate", token |-> store[d].token,
                 from |-> "setup", as |-> "complete"])
  /\ UNCHANGED <<tables, store, login, call>>

\* handleSave of ProfileEditPage, which has loaded a profile and sends a
\* blank name as well.
SaveEdit(d) ==
  /\ save[d] = Idle
  /\ store[d].token # NoToken /\ ~store[d].setup /\ profile[store[d].token] # "none"
  /\ \E as \in {"incomplete", "complete"} :
       PutSave(d, [pc |-> "validate", token |-> store[d].token, from |-> "edit", as |-> as])
  /\ UNCHANGED <<tables, store, login, call>>

ValidateSave(d) ==
  /\ save[d].pc = "validate"
  /\ GotoSave(d, IF account[save[d].token] = "ACTIVE" THEN "upsert" ELSE "401")
  /\ UNCHANGED <<tables, store, login, call>>

\* The upsert fails if the account is gone by now.
Upsert(d) ==
  /\ save[d].pc = "upsert"
  /\ IF save[d].token \in Rows
     THEN profile' = [profile EXCEPT ![save[d].token] = save[d].as] /\ GotoSave(d, "ok")
     ELSE PutSave(d, Idle) /\ UNCHANGED profile
  /\ UNCHANGED <<account, store, login, call>>

(* The setup page goes on with the token it had when it was saved, even if *)
(* the page has been logged out meanwhile.                                 *)
Saved(d) ==
  /\ save[d].pc = "ok"
  /\ IF save[d].from = "setup" THEN SetSession(d, save[d].token, FALSE) ELSE UNCHANGED store
  /\ PutSave(d, Idle)
  /\ UNCHANGED <<tables, login, call>>

-----------------------------------------------------------------------------
(* Other calls, and the interceptor                                        *)

PutCall(d, request) == call' = [call EXCEPT ![d] = request]

\* mutant of Call: the page calls without a session
CallAnyway(d) ==
  /\ call[d] = Idle
  /\ PutCall(d, [pc |-> "validate", token |-> store[d].token])
  /\ UNCHANGED <<tables, store, login, save>>

Call(d) ==
  /\ call[d] = Idle /\ store[d].token # NoToken
  /\ PutCall(d, [pc |-> "validate", token |-> store[d].token])
  /\ UNCHANGED <<tables, store, login, save>>

ValidateCall(d) ==
  /\ call[d].pc = "validate"
  /\ PutCall(d, IF account[call[d].token] = "ACTIVE" THEN Idle ELSE [call[d] EXCEPT !.pc = "401"])
  /\ UNCHANGED <<tables, store, login, save>>

\* mutant of Logout: what the interceptor does is lost
KeepSession(d) == UNCHANGED store

\* logout, if there is a session
Logout(d) == store' = [store EXCEPT ![d] = LoggedOut]

CallRefused(d) ==
  /\ call[d].pc = "401"
  /\ Logout(d)
  /\ PutCall(d, Idle)
  /\ UNCHANGED <<tables, login, save>>

SaveRefused(d) ==
  /\ save[d].pc = "401"
  /\ Logout(d)
  /\ PutSave(d, Idle)
  /\ UNCHANGED <<tables, login, call>>

\* The button of SettingsPage.
LogoutClick(d) ==
  /\ store[d].token # NoToken /\ ~store[d].setup
  /\ Logout(d)
  /\ UNCHANGED <<tables, login, save, call>>

-----------------------------------------------------------------------------
(* AdminService                                                            *)

BanUser(i) ==
  /\ account[i] = "ACTIVE"
  /\ account' = [account EXCEPT ![i] = "BANNED"]
  /\ UNCHANGED <<profile, store, login, save, call>>

UnbanUser(i) ==
  /\ account[i] = "BANNED"
  /\ account' = [account EXCEPT ![i] = "ACTIVE"]
  /\ UNCHANGED <<profile, store, login, save, call>>

\* Bound: while an id is left for the next account.
DeleteUser(i) ==
  /\ i \in Rows /\ \E j \in Id : Fresh(j)
  /\ account' = [account EXCEPT ![i] = "gone"]
  /\ profile' = [profile EXCEPT ![i] = "none"]
  /\ UNCHANGED <<store, login, save, call>>

-----------------------------------------------------------------------------
Login(d) == FindUser(d) \/ CreateUser(d) \/ UpdateUser(d) \/ Bootstrapped(d)
Saving(d) == ValidateSave(d) \/ Upsert(d) \/ Saved(d) \/ SaveRefused(d)
Calling(d) == Call(d) \/ ValidateCall(d) \/ CallRefused(d)

Next ==
  \/ \E d \in Page :
       \/ \E i \in InitData : Mount(d, i)
       \/ Login(d) \/ SaveSetup(d) \/ SaveEdit(d) \/ Saving(d)
       \/ Calling(d) \/ LogoutClick(d)
  \/ \E i \in Id : BanUser(i) \/ UnbanUser(i) \/ DeleteUser(i)

Spec == Init /\ [][Next]_vars

(* WelcomePage is all there is to see without a session; who sees it opens *)
(* the app from Telegram again, which gives the page a new initData.       *)
Reopen(d) ==
  /\ store[d].token = NoToken
  /\ \E i \in InitData : i.signed /\ i.age <= MaxAge /\ Mount(d, i)

\* Requests are answered, a page that is logged in is used, and one that is
\* not is opened again.
UsedSpec ==
  /\ Spec
  /\ \A d \in Page : WF_vars(Login(d)) /\ WF_vars(Saving(d)) /\ WF_vars(Calling(d))
  /\ \A d \in Page : WF_vars(Reopen(d))

-----------------------------------------------------------------------------
(* Properties.                                                             *)

(* Two pages are logged in to the same account, unless one account was     *)
(* deleted: of two first logins at once the unique telegramId fails one,   *)
(* and no late answer brings a second account into a page.                 *)
SameAccount ==
  \A d, e \in Page :
    LET t == store[d].token  u == store[e].token
    IN  t # NoToken /\ u # NoToken /\ t # u => "gone" \in {account[t], account[u]}

(* A page is past the setup only with a profile, or with an account that   *)
(* was deleted since; a page that was logged out by a 401 while it saved   *)
(* and came back with the old token is no exception.                       *)
PastSetupHasProfile ==
  \A d \in Page :
    LET t == store[d].token
    IN  t # NoToken /\ ~store[d].setup => profile[t] # "none" \/ account[t] = "gone"

(* A page does not hold on to the token of an account that stays banned or *)
(* deleted: though a save under way may put the token back after the 401   *)
(* has taken it away, the next call takes it away again.                   *)
DeadTokenGoes ==
  \A d \in Page : \A i \in Id :
    <>[](account[i] \in {"BANNED", "gone"}) => <>[](store[d].token # i)

(* Whoever opens the app again as long as it shows no session gets one     *)
(* again and again, unless bans go on for ever: a first login that lost to *)
(* another one, initData that was too old, a 401 that put the session out, *)
(* a deleted account are all got over by opening the app again.            *)
PatientGetsIn ==
  \A d \in Page :
    []<>(store[d].token # NoToken) \/ []<>(\E i \in Id : account[i] = "BANNED")
=============================================================================
