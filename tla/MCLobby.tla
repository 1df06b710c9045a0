------------------------------- MODULE MCLobby -------------------------------
(* Small instances of the lobby for TLC.                                   *)
EXTENDS Lobby, TLC

CONSTANTS c1, c2, c3

Three == {c1, c2, c3}
Two == {c1, c2}

(* Clients differ in nothing but their name.                               *)
ClientSymmetry == Permutations(Clients)
=============================================================================
