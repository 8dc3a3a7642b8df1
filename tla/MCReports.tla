------------------------------ MODULE MCReports ------------------------------
(***************************************************************************)
(* Small instances of Reports for TLC.                                     *)
(***************************************************************************)
EXTENDS Reports, TLC

ReqSymmetry == Permutations(Req)

\* Users 1, 2 and 4 report user 3; user 4 has no profile at first
\* and is reported by user 1.
Accusers == 1..4
Accusations == {<<1, 3>>, <<2, 3>>, <<4, 3>>, <<1, 4>>}
=============================================================================
