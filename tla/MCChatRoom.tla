----------------------------- MODULE MCChatRoom -----------------------------
(***************************************************************************)
(* Small instances of ChatRoom for TLC.                                    *)
(***************************************************************************)
EXTENDS ChatRoom

Symmetry == Permutations(Page) \cup Permutations(Msg) \cup Permutations(Req)
=============================================================================
