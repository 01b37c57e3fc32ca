---------------------------- MODULE MCFriendBook ---------------------------
(* A few users, accounts and requests for FriendBook. *)
EXTENDS FriendBook, TLC

CONSTANTS x, y  \* accounts other than the default one

\* A room of two humans, one of whom loses more than he has.
MCResults == {<<-128, 64>>}

Symmetry == Permutations(Users) \cup Permutations(Requests) \cup Permutations({x, y})
=============================================================================
