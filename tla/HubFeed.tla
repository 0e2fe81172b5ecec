------------------------------- MODULE HubFeed -------------------------------
(* The gateway implements the feed: what Feed calls a connection's outbox,  *)
(* the queue, the listeners and the log, in terms of the state of Hub.      *)
EXTENDS Hub

(* CreateMessage is done and broadcastRoom or broadcastUser still to come. *)
OutboxOf(c) ==
    LET own == <<"user", UserOf[c]>> IN
    CASE pc[c] = "publish" /\ job[c].kind = "message" ->
             IF job[c].dest[1] = "user"
             THEN <<OutboundFor(c, job[c].dest), OutboundFor(c, own)>>
             ELSE <<OutboundFor(c, job[c].dest)>>
      [] pc[c] = "echo" -> <<OutboundFor(c, own)>>
      [] OTHER -> <<>>

(* What Hub.Run has taken from the channel and not sent is still the head. *)
QueueOf == IF hub.at = "send" THEN <<hub.msg>> \o bcast ELSE bcast

Outboxes  == [c \in Conns |-> OutboxOf(c)]
Listeners == [dest \in Dests |-> Audience(dest)]
Logs      == [c \in Conns |-> Log(c)]

Abstract == INSTANCE Feed WITH
    outbox    <- Outboxes,
    queue     <- QueueOf,
    listeners <- Listeners,
    log       <- Logs

(* Through all its buffers, locks and goroutines the gateway gives          *)
(* connections nothing but the feed: each copy once, from one queue, to     *)
(* those who listen when it is its turn, and notices that are true.         *)
ImplementsFeed == Abstract!Spec
=============================================================================
