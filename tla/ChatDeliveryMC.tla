--------------------------- MODULE ChatDeliveryMC ---------------------------
(* Values for the constants of ChatDelivery. *)
EXTENDS ChatDelivery

CONSTANTS c1, c2, c3, guest1, guest2, guest3, lobby, go

MCGuest == [c \in Clients |-> CASE c = c1 -> guest1 [] c = c2 -> guest2 [] OTHER -> guest3]
=============================================================================
