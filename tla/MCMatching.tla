----------------------------- MODULE MCMatching -----------------------------
(***************************************************************************)
(* Small instances of Matching for TLC.                                    *)
(***************************************************************************)
EXTENDS Matching, TLC

ReqSymmetry == Permutations(Req)

\* Two users who swipe on each other, change their minds, unmatch and block.
PairUser == {1, 2}
PairSwipes == {<<1, 2, "LIKE">>, <<1, 2, "PASS">>, <<2, 1, "SUPER_LIKE">>}
PairBlocks == {<<1, 2>>, <<2, 2>>}
PairUnmatches == {<<1, 2>>}

\* Two users who like each other, at the same moment if they want; the first
\* passes on a third.
MutualSwipes == {<<1, 2, "LIKE">>, <<2, 1, "LIKE">>}
TrioUser == {1, 2, 3}
TrioSwipes == MutualSwipes \cup {<<1, 3, "PASS">>}
TrioBlocks == {<<1, 2>>}
=============================================================================
