---------------------------- MODULE MCScoreBook ----------------------------
(* Two users in one online room, and one of them in a game against bots. *)
EXTENDS ScoreBook, TLC

CONSTANTS u1, u2, online, bots

TwoRooms == (online :> {u1, u2}) @@ (bots :> {u1})
FewActions == (online :> 1) @@ (bots :> 2)
OnlineActions == online :> 2
OnlineRoom == online :> {u1, u2}
=============================================================================
