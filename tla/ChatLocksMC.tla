---------------------------- MODULE ChatLocksMC ----------------------------
(* One client joins the lobby, one asks who is there, one talks. *)
EXTENDS ChatLocks
CONSTANTS c1, c2, c3, lobby
=============================================================================
