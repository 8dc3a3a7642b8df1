---------------------------- MODULE MatchPromise ----------------------------
(***************************************************************************)
(* What swiping promises, without statements and requests: users like and  *)
(* pass, block, unmatch and leave, and a pair whose likes meet is owed a   *)
(* match.  Matching implements it.                                         *)
(***************************************************************************)
EXTENDS Integers

CONSTANT User  \* user ids, which are integers

VARIABLES
  members,   \* the users who have not been deleted
  wish,      \* what one user last said of another
  blocked,   \* the <<blocker, blocked>>
  owed,      \* the pairs, in the order of their ids, that are owed a match
  admitted,  \* those that no block can deprive of it any more
  match      \* the match of each pair

vars == <<members, wish, blocked, owed, admitted, match>>

Pairs == {p \in User \X User : p[1] # p[2]}
Keys == {p \in Pairs : p[1] < p[2]}
Pair(u, v) == IF u < v THEN <<u, v>> ELSE <<v, u>>
Apart(p) == p \in blocked \/ <<p[2], p[1]>> \in blocked

Init ==
  /\ members = User
  /\ wish = [p \in Pairs |-> "NONE"]
  /\ blocked = {} /\ owed = {} /\ admitted = {}
  /\ match = [p \in Keys |-> "NONE"]

(* A like that meets a like creates the debt.  Where it meets a PASS the   *)
(* other user may have changed a like into it a moment ago, and that like  *)
(* may still count.                                                        *)
Like(u, v) ==
  /\ {u, v} \subseteq members
  /\ wish' = [wish EXCEPT ![<<u, v>>] = "LIKE"]
  /\ \/ wish[<<v, u>>] # "NONE" /\ owed' = owed \cup {Pair(u, v)}
     \/ wish[<<v, u>>] # "LIKE" /\ UNCHANGED owed
  /\ UNCHANGED <<members, blocked, admitted, match>>

\* A change of mind may come in time to cancel the debt.
Pass(u, v) ==
  /\ {u, v} \subseteq members
  /\ wish' = [wish EXCEPT ![<<u, v>>] = "PASS"]
  /\ owed' \in {owed, owed \ {Pair(u, v)}}
  /\ UNCHANGED <<members, blocked, admitted, match>>

\* No block has been made: from now on none comes in time.
Admit(p) ==
  /\ p \in owed /\ ~Apart(p) /\ {p[1], p[2]} \subseteq members
  /\ admitted' = admitted \cup {p}
  /\ owed' \in {owed, owed \ {p}}
  /\ UNCHANGED <<members, wish, blocked, match>>

Make(p) ==
  /\ p \in admitted
  /\ match' = [match EXCEPT ![p] = "ACTIVE"]
  /\ admitted' \in {admitted, admitted \ {p}}
  /\ UNCHANGED <<members, wish, blocked, owed>>

\* Nothing is owed to a pair with a block, nor a second match.
Settle(p) ==
  /\ \/ Apart(p) /\ owed' = owed \ {p} /\ UNCHANGED admitted
     \/ match[p] # "NONE" /\ admitted' = admitted \ {p} /\ UNCHANGED owed
  /\ UNCHANGED <<members, wish, blocked, match>>

Part(p) == [match EXCEPT ![p] = IF @ = "NONE" THEN @ ELSE "INACTIVE"]

Unmatch(p) ==
  /\ match' = Part(p)
  /\ UNCHANGED <<members, wish, blocked, owed, admitted>>

Block(u, v) ==
  /\ blocked' = blocked \cup {<<u, v>>}
  /\ match' = Part(Pair(u, v))
  /\ UNCHANGED <<members, wish, owed, admitted>>

\* A deleted user leaves nothing behind.
Delete(u) ==
  /\ members' = members \ {u}
  /\ wish' = [p \in Pairs |-> IF u \in {p[1], p[2]} THEN "NONE" ELSE wish[p]]
  /\ match' = [p \in Keys |-> IF u \in {p[1], p[2]} THEN "NONE" ELSE match[p]]
  /\ blocked' = {p \in blocked : u \notin {p[1], p[2]}}
  /\ owed' = {p \in owed : u \notin {p[1], p[2]}}
  /\ admitted' = {p \in admitted : u \notin {p[1], p[2]}}

Next ==
  \/ \E p \in Pairs : Like(p[1], p[2]) \/ Pass(p[1], p[2]) \/ Block(p[1], p[2])
  \/ \E p \in Keys : Admit(p) \/ Make(p) \/ Settle(p) \/ Unmatch(p)
  \/ \E u \in User : Delete(u)

Spec == Init /\ [][Next]_vars

-----------------------------------------------------------------------------
(* What the promise is worth.                                              *)

Mutual(p) == wish[p] = "LIKE" /\ wish[<<p[2], p[1]>>] = "LIKE"

(* Nobody forgets a mutual like: there is a match row, a block, or a debt. *)
Remembered ==
  \A p \in Keys : Mutual(p) => match[p] # "NONE" \/ Apart(p) \/ p \in owed \cup admitted

(* A pair with a block or a deleted user, without a match and without an   *)
(* admitted one, stays without.                                            *)
Closed(p) ==
  /\ match[p] # "ACTIVE" /\ p \notin admitted
  /\ Apart(p) \/ ~({p[1], p[2]} \subseteq members)
ClosedForEver ==
  [][\A u, v \in User : u < v /\ Closed(<<u, v>>) => Closed(<<u, v>>)']_vars

(* A debt is paid, unless a block or a change of mind ends it.             *)
Honoured ==
  \A p \in Keys : Mutual(p) ~> (match[p] # "NONE" \/ Apart(p) \/ ~Mutual(p))
=============================================================================
