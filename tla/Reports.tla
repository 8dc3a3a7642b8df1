------------------------------- MODULE Reports -------------------------------
(***************************************************************************)
(* Reports and the visibility of profiles: ReportsService.fileReport, the  *)
(* administrator who resolves reports and deletes users, and the edits of  *)
(* profiles that go on meanwhile.                                          *)
(*                                                                         *)
(* fileReport reads, then runs an interactive transaction at PostgreSQL's  *)
(* default level, READ COMMITTED: what it has written so far is seen by no *)
(* one else until it commits.  The writes of a transaction are therefore   *)
(* kept with the request.                                                  *)
(***************************************************************************)
EXTENDS Integers, FiniteSets

CONSTANTS
  User,
  Req,        \* slots for reports in flight
  HideAt,     \* the distinct reporters who hide a profile (5)
  Settled,    \* users with a profile from the start
  Files,      \* who may report whom
  Deletable   \* users an administrator may delete

ASSUME ReportsAssumption ==
  /\ IsFiniteSet(User) /\ IsFiniteSet(Req) /\ Req # {}
  /\ HideAt \in Nat \ {0}
  /\ Settled \subseteq User /\ Deletable \subseteq User
  /\ Files \subseteq User \X User

VARIABLES
  profile,   \* Profile.isVisible, if there is a row
  open,      \* the number of OPEN Report rows by reporter and reported user
  filed,     \* the pairs with a row, open or resolved
  gone,      \* the users deleted
  req        \* the reports in flight

vars == <<profile, open, filed, gone, req>>

Pairs == User \X User
Idle == [pc |-> "idle"]
Filing ==
  [pc : {"reads", "insert", "count", "hide", "commit"},
   by : User, of : User,
   left : SUBSET {"target", "open"},  \* reads not answered yet
   ok : BOOLEAN,                      \* no answer refuses the report
   hidden : BOOLEAN]                  \* the transaction has hidden the profile

TypeOK ==
  /\ profile \in [User -> {"none", "visible", "hidden"}]
  /\ open \in [Pairs -> Nat]
  /\ filed \subseteq Pairs
  /\ gone \subseteq User
  /\ req \in [Req -> {Idle} \cup Filing]

Init ==
  /\ profile = [u \in User |-> IF u \in Settled THEN "visible" ELSE "none"]
  /\ open = [p \in Pairs |-> 0]
  /\ filed = {}
  /\ gone = {}
  /\ req = [r \in Req |-> Idle]

-----------------------------------------------------------------------------
(* fileReport                                                              *)

Put(r, request) == req' = [req EXCEPT ![r] = request]
Finish(r) == Put(r, Idle)
Goto(r, pc) == Put(r, [req[r] EXCEPT !.pc = pc])
Pair(r) == <<req[r].by, req[r].of>>

OpenReporters(u) == {v \in User : open[<<v, u>>] > 0}

FileReport(r, by, of) ==
  /\ req[r].pc = "idle"
  /\ by # of /\ by \notin gone
  /\ Put(r, [pc |-> "reads", by |-> by, of |-> of, left |-> {"target", "open"},
             ok |-> TRUE, hidden |-> FALSE])
  /\ UNCHANGED <<profile, open, filed, gone>>

FindTarget(r) ==
  /\ req[r].pc = "reads" /\ "target" \in req[r].left
  /\ Put(r, [req[r] EXCEPT !.left = @ \ {"target"}, !.ok = @ /\ req[r].of \notin gone])
  /\ UNCHANGED <<profile, open, filed, gone>>

\* mutant of FindOpen: the answer is not looked at
FindOpenIgnored(r) ==
  /\ req[r].pc = "reads" /\ "open" \in req[r].left
  /\ Put(r, [req[r] EXCEPT !.left = @ \ {"open"}])
  /\ UNCHANGED <<profile, open, filed, gone>>

FindOpen(r) ==
  /\ req[r].pc = "reads" /\ "open" \in req[r].left
  /\ Put(r, [req[r] EXCEPT !.left = @ \ {"open"}, !.ok = @ /\ open[Pair(r)] = 0])
  /\ UNCHANGED <<profile, open, filed, gone>>

\* The target is not found, or the reporter has an open report of it.
Decide(r) ==
  /\ req[r].pc = "reads" /\ req[r].left = {}
  /\ IF req[r].ok THEN Goto(r, "insert") ELSE Finish(r)
  /\ UNCHANGED <<profile, open, filed, gone>>

\* tx.report.create, which fails if one of the two users is gone.  Until the
\* transaction ends, its foreign keys keep both users from being deleted.
InsertReport(r) ==
  /\ req[r].pc = "insert"
  /\ IF {req[r].by, req[r].of} \cap gone = {} THEN Goto(r, "count") ELSE Finish(r)
  /\ UNCHANGED <<profile, open, filed, gone>>

\* mutant of CountReporters: the threshold is missed by one
CountOneMore(r) ==
  /\ req[r].pc = "count"
  /\ Goto(r, IF Cardinality(OpenReporters(req[r].of) \cup {req[r].by}) > HideAt
             THEN "hide" ELSE "commit")
  /\ UNCHANGED <<profile, open, filed, gone>>

\* mutant of CountReporters: rows are counted, not reporters
CountRows(r) ==
  LET rows[S \in SUBSET User] ==
        IF S = {} THEN 1
        ELSE LET v == CHOOSE v \in S : TRUE IN open[<<v, req[r].of>>] + rows[S \ {v}]
  IN /\ req[r].pc = "count"
     /\ Goto(r, IF rows[User] >= HideAt THEN "hide" ELSE "commit")
     /\ UNCHANGED <<profile, open, filed, gone>>

\* The distinct reporters of the committed open reports and of its own.
CountReporters(r) ==
  /\ req[r].pc = "count"
  /\ Goto(r, IF Cardinality(OpenReporters(req[r].of) \cup {req[r].by}) >= HideAt
             THEN "hide" ELSE "commit")
  /\ UNCHANGED <<profile, open, filed, gone>>

\* tx.profile.updateMany changes nothing where there is no profile yet.
HideProfile(r) ==
  /\ req[r].pc = "hide"
  /\ Put(r, [req[r] EXCEPT !.pc = "commit", !.hidden = profile[req[r].of] # "none"])
  /\ UNCHANGED <<profile, open, filed, gone>>

Commit(r) ==
  /\ req[r].pc = "commit"
  /\ open' = [open EXCEPT ![Pair(r)] = @ + 1]
  /\ filed' = filed \cup {Pair(r)}
  /\ profile' = IF req[r].hidden THEN [profile EXCEPT ![req[r].of] = "hidden"] ELSE profile
  /\ Finish(r)
  /\ UNCHANGED gone

-----------------------------------------------------------------------------
(* ProfilesService.upsert and AdminService                                 *)

\* A new profile is visible; an edit leaves that as it is.
UpsertProfile(u) ==
  /\ u \notin gone
  /\ profile' = [profile EXCEPT ![u] = IF @ = "none" THEN "visible" ELSE @]
  /\ UNCHANGED <<open, filed, gone, req>>

\* mutant of ResolveReport: one row too many is taken from the open ones
ResolveTwo(p) ==
  /\ open[p] > 0
  /\ open' = [open EXCEPT ![p] = @ - 2]
  /\ UNCHANGED <<profile, filed, gone, req>>

\* resolveReport closes one open row, whatever the verdict.
ResolveReport(p) ==
  /\ open[p] > 0
  /\ open' = [open EXCEPT ![p] = @ - 1]
  /\ UNCHANGED <<profile, filed, gone, req>>

InTransaction(r) == req[r].pc \in {"count", "hide", "commit"}

\* The reports by and of the user go with it, and its profile.
DeleteUser(u) ==
  /\ u \notin gone
  /\ \A r \in Req : InTransaction(r) => u \notin {req[r].by, req[r].of}
  /\ gone' = gone \cup {u}
  /\ profile' = [profile EXCEPT ![u] = "none"]
  /\ open' = [p \in Pairs |-> IF u \in {p[1], p[2]} THEN 0 ELSE open[p]]
  /\ filed' = {p \in filed : u \notin {p[1], p[2]}}
  /\ UNCHANGED req

\* The process dies, and its transactions are rolled back.
Crash ==
  /\ \E r \in Req : req[r] # Idle
  /\ req' = [r \in Req |-> Idle]
  /\ UNCHANGED <<profile, open, filed, gone>>

-----------------------------------------------------------------------------
Step(r) ==
  \/ FindTarget(r) \/ FindOpen(r) \/ Decide(r)
  \/ InsertReport(r) \/ CountReporters(r) \/ HideProfile(r) \/ Commit(r)

Next ==
  \/ \E r \in Req : Step(r) \/ \E p \in Files : FileReport(r, p[1], p[2])
  \/ \E u \in User : UpsertProfile(u)
  \/ \E p \in Pairs : ResolveReport(p)
  \/ \E u \in Deletable : DeleteUser(u)

CrashSpec == Init /\ [][Next \/ Crash]_vars

-----------------------------------------------------------------------------
(* Properties.                                                             *)

\* Those who have reported u, or will have when the transactions commit that
\* have found too few to hide the profile.
Uncounted(u) ==
  OpenReporters(u) \cup
    {v \in User : \E r \in Req : req[r].pc = "commit" /\ ~req[r].hidden /\ Pair(r) = <<v, u>>}

(* A profile that was there when it was first reported is hidden at the    *)
(* threshold, or late by one reporter less than the reports in flight:     *)
(* transactions that do not see each other's rows all count too few.       *)
HideBudget ==
  \A u \in Settled :
    profile[u] = "visible" => Cardinality(Uncounted(u)) <= HideAt - 2 + Cardinality(Req)

(* No one hides a profile alone: behind a hidden profile are HideAt users  *)
(* who have reported it (their reports may be resolved or have gone with   *)
(* their accounts), however many rows one of them has filed.               *)
HiddenForReason ==
  \A u \in User :
    profile[u] = "hidden" =>
      Cardinality({v \in User : <<v, u>> \in filed} \cup gone) >= HideAt

\* Reports of p whose look for an open one has found none.
Admitted(p) ==
  {r \in Req : /\ req[r].pc # "idle" /\ Pair(r) = p
               /\ "open" \notin req[r].left /\ req[r].ok}

(* 'You already have an open report for this user' holds up to reports in  *)
(* flight together: there is no unique index behind the check.             *)
DuplicateBudget == \A p \in Pairs : open[p] + Cardinality(Admitted(p)) <= Cardinality(Req)
=============================================================================
