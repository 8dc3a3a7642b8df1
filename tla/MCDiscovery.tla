----------------------------- MODULE MCDiscovery -----------------------------
(***************************************************************************)
(* Small instances of Discovery for TLC.                                   *)
(***************************************************************************)
EXTENDS Discovery

\* Users 1 and 2 are nearby, 3 and 4 too far away.  The order is 3, 2, 4, 1
\* until user 1 edits the profile and comes first.
Others == {1, 2, 3, 4}
Scores == <<0, 2, 3, 1>>
Order == <<4, 2, 1, 3>>
\* User 2 is older than the others.
Ages == <<25, 50, 30, 30>>

\* What the pages of the frontend PUT: no ages on the setup page, those of the
\* profile, here with a blank name, on the edit page.
PageDtos ==
  {[named |-> TRUE, minAgePref |-> Absent, maxAgePref |-> Absent],
   [named |-> FALSE, minAgePref |-> 18, maxAgePref |-> 99]}

\* Clients that PUT only the bound that was changed.
SingleDtos ==
  {[named |-> TRUE, minAgePref |-> 35, maxAgePref |-> Absent],
   [named |-> TRUE, minAgePref |-> Absent, maxAgePref |-> 30]}
=============================================================================
