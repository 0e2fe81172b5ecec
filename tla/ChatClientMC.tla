---------------------------- MODULE ChatClientMC ----------------------------
(* Values for the constants of ChatClient: two other clients' goroutines. *)
EXTENDS ChatClient

CONSTANTS o1, o2
=============================================================================
