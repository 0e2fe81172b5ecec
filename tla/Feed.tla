-------------------------------- MODULE Feed --------------------------------
(***************************************************************************)
(* What the WebSocket gateway promises, without goroutines and buffers.     *)
(*                                                                         *)
(* A stored message goes out as one copy to its destination and, when it is *)
(* direct, another to its sender. The copies of all connections go through  *)
(* one queue, and the head of the queue is given to some of those who       *)
(* listen to its destination at that moment: to all but those whose buffer  *)
(* is full. Nothing else gives anybody a message, and nothing changes the   *)
(* order of what a connection has been given.                               *)
(***************************************************************************)
EXTENDS Naturals, Sequences, SequencesExt

CONSTANTS Conns, Users, UserOf, Rooms, NoConn

VARIABLES
    stored,     \* the table messages
    outbox,     \* the copies a connection has still to publish
    queue,      \* what has been published and not yet given out
    listeners,  \* who listens to a room or, being connected, to its user
    log         \* what a connection has been given, in order

vars == <<stored, outbox, queue, listeners, log>>

Dests == ({"room"} \X Rooms) \cup ({"user"} \X Users)

Copy(e, dest, except) == [dest |-> dest, event |-> e, exclude |-> except]
Message(id)           == [type |-> "message", id |-> id]
Typing(u)             == [type |-> "typing", user |-> u]

Notices == [type : {"room_joined"}, room : Rooms]
           \cup [type : {"presence"}, user : Users, online : BOOLEAN]
           \cup [type : {"error"}]

Copies(c, dest, id) ==
    LET to(d) == Copy(Message(id), d, NoConn)
    IN IF dest[1] = "user" THEN <<to(dest), to(<<"user", UserOf[c]>>)>> ELSE <<to(dest)>>

Init ==
    /\ stored    = <<>>
    /\ outbox    = [c \in Conns |-> <<>>]
    /\ queue     = <<>>
    /\ listeners = [d \in Dests |-> {}]
    /\ log       = [c \in Conns |-> <<>>]

Give(to, e) == log' = [c \in Conns |-> IF c \in to THEN Append(log[c], e) ELSE log[c]]

(* A message is stored, and its copies are now owed. *)
Post(c, dest) ==
    /\ outbox[c] = <<>>
    /\ stored' = Append(stored, [sender |-> c, dest |-> dest])
    /\ outbox' = [outbox EXCEPT ![c] = Copies(c, dest, Len(stored) + 1)]
    /\ UNCHANGED <<queue, listeners, log>>

Publish(c) ==
    /\ outbox[c] # <<>>
    /\ queue' = Append(queue, Head(outbox[c]))
    /\ outbox' = [outbox EXCEPT ![c] = Tail(@)]
    /\ UNCHANGED <<stored, listeners, log>>

(* Typing is not stored, and not shown to the connection it comes from. *)
Whisper(c, dest) ==
    /\ outbox[c] = <<>>
    /\ queue' = Append(queue, Copy(Typing(UserOf[c]), dest, c))
    /\ UNCHANGED <<stored, outbox, listeners, log>>

Relay ==
    /\ queue # <<>>
    /\ queue' = Tail(queue)
    /\ \E to \in SUBSET (listeners[Head(queue).dest] \ {Head(queue).exclude}) :
          Give(to, Head(queue).event)
    /\ UNCHANGED <<stored, outbox, listeners>>

(* A notice is true when it is given. *)
Holds(e, to) ==
    /\ e.type = "presence"    => e.online = (listeners'[<<"user", e.user>>] # {})
    /\ e.type = "room_joined" => to \subseteq listeners'[<<"room", e.room>>]

(* Connections come and go, join and leave; some may be given a notice. A   *)
(* user's own destination is listened to by its own connections only.       *)
Tune ==
    /\ listeners' \in [Dests -> SUBSET Conns]
    /\ \A u \in Users : \A c \in listeners'[<<"user", u>>] : UserOf[c] = u
    /\ \E e \in Notices, to \in SUBSET Conns : Give(to, e) /\ Holds(e, to)
    /\ UNCHANGED <<stored, outbox, queue>>

(* A write to the socket fails and takes the event with it. *)
Lose(c) ==
    /\ \E i \in 1 .. Len(log[c]) : log' = [log EXCEPT ![c] = RemoveAt(@, i)]
    /\ UNCHANGED <<stored, outbox, queue, listeners>>

Next ==
    \/ \E c \in Conns, dest \in Dests : Post(c, dest) \/ Whisper(c, dest)
    \/ \E c \in Conns : Publish(c) \/ Lose(c)
    \/ Relay \/ Tune

Spec == Init /\ [][Next]_vars

----------------------------------------------------------------------------
(* What a gateway that keeps to the feed is good for. *)

RoomMessage(e) == e.type = "message" /\ stored[e.id].dest[1] = "room"

(* A direct message to its own sender goes out twice to the same audience. *)
ToSelf(id) == stored[id].dest = <<"user", UserOf[stored[id].sender]>>

(* Two connections see the room messages both were given in one order. *)
SameOrder ==
    \A c, d \in Conns : \A i, j \in 1 .. Len(log[c]), k, m \in 1 .. Len(log[d]) :
        (/\ i < j /\ log[c][i] # log[c][j]
         /\ RoomMessage(log[c][i]) /\ RoomMessage(log[c][j])
         /\ log[c][i] = log[d][k] /\ log[c][j] = log[d][m]) => k < m

(* e may come before f: a connection's room messages go out as it sent them. *)
InOrder(e, f) ==
    (/\ RoomMessage(e) /\ RoomMessage(f)
     /\ stored[e.id].sender = stored[f.id].sender) => e.id <= f.id

(* The room messages of one connection arrive in the order they were stored. *)
SenderOrder ==
    \A c \in Conns : \A i, j \in 1 .. Len(log[c]) : i < j => InOrder(log[c][i], log[c][j])

(* Nobody is given a message twice, but for a message to oneself. *)
AtMostOnce ==
    \A c \in Conns : \A i, j \in 1 .. Len(log[c]) :
        (i # j /\ log[c][i] = log[c][j] /\ log[c][i].type = "message") => ToSelf(log[c][i].id)

(* A direct message reaches only connections of its two users. *)
DirectIsPrivate ==
    \A c \in Conns : \A i \in 1 .. Len(log[c]) : log[c][i].type = "message" =>
        LET m == stored[log[c][i].id]
        IN m.dest[1] = "user" => UserOf[c] \in {m.dest[2], UserOf[m.sender]}
=============================================================================
