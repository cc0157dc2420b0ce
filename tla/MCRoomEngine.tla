---------------------------- MODULE MCRoomEngine ----------------------------
(* TLC instances of RoomEngine. *)
EXTENDS RoomEngine, TLC

(* Players and reservation ids are only ever compared for equality. *)
Symmetry == Permutations(Identities) \cup Permutations(Tickets)

=============================================================================
