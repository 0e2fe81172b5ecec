---------------------------- MODULE ChatServerMC ----------------------------
(* Values for the constants of ChatServer: up to three guests. *)
EXTENDS ChatServer

CONSTANTS c1, c2, c3, guest1, guest2, guest3, lobby, go

MCGuest == [c \in Clients |-> CASE c = c1 -> guest1 [] c = c2 -> guest2 [] OTHER -> guest3]
=============================================================================
