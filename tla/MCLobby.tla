------------------------------ MODULE MCLobby ------------------------------
(* Few users, tokens and ids for Lobby. *)
EXTENDS LobbyProperties, TLC

Symmetry ==
  Permutations(Users) \cup Permutations(Tokens) \cup Permutations(RoomIds)
  \cup Permutations(InviteIds)

\* A bound on what there is at a time of sessions without a connection, bots in
\* preparation and invitations, open or answered: any one or two of them, not all.
Extras ==
  Cardinality({t \in DOMAIN sessions : ~sessions[t].online}) + Cardinality(BotSeats)
    + Cardinality(DOMAIN invitations \cup DOMAIN resolved)

OneAtATime == Extras <= 1
TwoAtATime == Extras <= 2
=============================================================================
