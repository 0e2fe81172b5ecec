------------------------------- MODULE WebMC -------------------------------
(* One browser, on which Ann and Bob log in, and Bob's other client. *)
EXTENDS Web

CONSTANTS page, ann, bob, s1, s2, s3, other

MCUserOf    == [c \in Conns |-> IF c \in {s1, s2} THEN ann ELSE bob]
MCBrowserOf == [c \in Conns |-> IF c = other THEN Elsewhere ELSE page]
=============================================================================
