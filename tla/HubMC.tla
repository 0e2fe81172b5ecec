------------------------------- MODULE HubMC -------------------------------
(* Values for the constants of Hub: Alice has two connections, Bob one. *)
EXTENDS HubFeed

CONSTANTS a1, a2, b1, alice, bob, general, nowhere

MCUserOf == [c \in Conns |-> IF c = b1 THEN bob ELSE alice]
RoomsOnly == {"room"} \X Rooms
RoomOrBob == RoomsOnly \cup {<<"user", bob>>}
DirectToBob == {<<"user", bob>>}
=============================================================================
