------------------------------- MODULE Session -------------------------------
(***************************************************************************)
(* What the TCP chat server relies on in each of its sessions.              *)
(*                                                                         *)
(* A session is open, closing or closed, and never goes back. It begins to  *)
(* close at any moment, or because its reader was told to quit or ran out   *)
(* of input; it is closed once removeClient has run for it. A reader that   *)
(* shuts its session down comes back no earlier: from /quit to what is left *)
(* of its input, from the end of its input to nothing more.                 *)
(***************************************************************************)

VARIABLES
    phase,   \* "open", "closing" or "closed"
    reader   \* "reading", or in shutdown, "quitting" or "ending", or "ended"

vars == <<phase, reader>>

Init == phase = "open" /\ reader = "reading"

Shut == phase' = IF phase = "open" THEN "closing" ELSE phase

(* Another goroutine of the session shuts it down. *)
Fail == phase = "open" /\ Shut /\ UNCHANGED reader

Quit       == reader = "reading" /\ reader' = "quitting" /\ Shut
EndOfInput == reader = "reading" /\ reader' = "ending" /\ Shut

ComeBack ==
    \/ reader = "quitting" /\ reader' = "reading"
    \/ reader = "ending" /\ reader' = "ended"

(* removeClient: the goroutine that has called it may be the reader. *)
Remove ==
    /\ phase = "closing" /\ phase' = "closed"
    /\ UNCHANGED reader \/ ComeBack

Return == phase = "closed" /\ ComeBack /\ UNCHANGED phase

Next == Fail \/ Quit \/ EndOfInput \/ Remove \/ Return

Spec == Init /\ [][Next]_vars
=============================================================================
