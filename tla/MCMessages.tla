------------------------------ MODULE MCMessages ------------------------------
(***************************************************************************)
(* Small instances of Messages for TLC.                                    *)
(***************************************************************************)
EXTENDS Messages, TLC

CONSTANTS u1, u2, u3, m1, m2

\* A man in two matches.
TwoMatches == (m1 :> {u1, u2}) @@ (m2 :> {u1, u3})

ReqSymmetry == Permutations(Req)
=============================================================================
