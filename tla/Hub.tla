-------------------------------- MODULE Hub --------------------------------
(***************************************************************************)
(* The WebSocket gateway: the hub goroutine of internal/ws/hub.go and the   *)
(* two goroutines of every connection of internal/ws/conn.go.               *)
(*                                                                         *)
(*  - Hub.Run is one goroutine: it picks a ready channel operation          *)
(*    (register, unregister, broadcast), then runs the handler under h.mu.  *)
(*  - readLoop runs a client's requests one after the other; the steps of   *)
(*    one request (database call, h.mu section, channel send) interleave    *)
(*    with everything else, and a send on the full broadcast channel blocks.*)
(*  - writeLoop takes events from the connection's buffer to the socket.    *)
(*                                                                         *)
(* The h.mu sections only touch maps and do non-blocking sends, so each is  *)
(* one step. A Go map whose empty entries are deleted is a function that    *)
(* gives {}.                                                                *)
(***************************************************************************)
EXTENDS Naturals, Sequences, FiniteSets

CONSTANTS
    Conns,        \* connections, each accepted at most once
    Users,
    UserOf,       \* conn.user.ID of a connection
    Rooms,        \* room ids a client may name
    KnownRooms,   \* those with a row in the table rooms
    HttpUsers,    \* users who also join and leave rooms over the HTTP API
    Kinds,        \* the request kinds clients send in this instance
    Targets,      \* the rooms and users they name in them
    SendCap,      \* capacity of Conn.send (64 in the code)
    BcastCap,     \* capacity of Hub.broadcast (128 in the code)
    Flaky,        \* bound: connections that may hang up, fail a write or, under
                  \* fairness, stop reading
    StoreFails,   \* whether a database call may return an error
    MaxRequests,  \* bound: requests of all connections together
    NoConn        \* the nil *Conn of outboundMessage.exclude

ASSUME HubAssumption ==
    /\ UserOf \in [Conns -> Users]
    /\ KnownRooms \subseteq Rooms
    /\ HttpUsers \subseteq Users
    /\ Kinds \subseteq {"join_room", "bad_join", "leave_room", "message", "typing", "read"}
    /\ Targets \subseteq ({"room"} \X Rooms) \cup ({"user"} \X Users)
    /\ Flaky \subseteq Conns
    /\ SendCap \in Nat \ {0}
    /\ BcastCap \in Nat \ {0}
    /\ StoreFails \in BOOLEAN
    /\ MaxRequests \in Nat
    /\ NoConn \notin Conns

VARIABLES
    pc,        \* where the connection's ServeWS/readLoop goroutine stands
    job,       \* the request it is working on
    writer,    \* its writeLoop goroutine: "off", "on" or "done"
    socket,    \* "open" until the server closes it
    sendq,     \* Conn.send
    connRooms, \* Conn.rooms
    hub,       \* what Hub.Run has received and not yet handled
    users,     \* Hub.users
    rooms,     \* Hub.rooms
    bcast,     \* Hub.broadcast
    members,   \* the table room_members
    stored,    \* the table messages, in insertion order
    requests,  \* requests made so far (bounded by MaxRequests)
    wire,      \* history: what each writeLoop wrote to its socket
    lost,      \* history: the events each full send buffer refused
    owed       \* history: stored messages a connection is to be offered

connVars  == <<pc, job, writer, socket, connRooms>>
hubVars   == <<hub, users, rooms>>
tableVars == <<members, stored>>
vars == <<pc, job, writer, socket, sendq, connRooms, hub, users, rooms, bcast,
          members, stored, requests, wire, lost, owed>>

Dests    == ({"room"} \X Rooms) \cup ({"user"} \X Users)
RoomJobs == [kind : {"join_room", "leave_room"}, dest : {"room"} \X Rooms, id : {0}]
PostJobs == [kind : {"message", "typing"}, dest : Dests, id : Nat]
NoJob    == [kind |-> "none"]

Message(id)    == [type |-> "message", id |-> id]
Typing(u)      == [type |-> "typing", user |-> u]
RoomJoined(r)  == [type |-> "room_joined", room |-> r]
Presence(u, b) == [type |-> "presence", user |-> u, online |-> b]
Refusal        == [type |-> "error"]

Events == [type : {"message"}, id : Nat] \cup [type : {"typing"}, user : Users]
          \cup [type : {"room_joined"}, room : Rooms]
          \cup [type : {"presence"}, user : Users, online : BOOLEAN]
          \cup {Refusal}

Outbound == [dest : Dests, event : Events, exclude : Conns \cup {NoConn}]

Select == [at |-> "select"]
HubStates == {Select} \cup [at : {"add", "remove"}, conn : Conns]
             \cup [at : {"send"}, msg : Outbound]

ReaderStates == {"absent", "registering", "reading", "join", "subscribe", "confirm",
                 "leave", "unsubscribe", "check", "store", "publish", "echo",
                 "closing", "unregistered", "gone"}

Init ==
    /\ pc        = [c \in Conns |-> "absent"]
    /\ job       = [c \in Conns |-> NoJob]
    /\ writer    = [c \in Conns |-> "off"]
    /\ socket    = [c \in Conns |-> "open"]
    /\ sendq     = [c \in Conns |-> <<>>]
    /\ connRooms = [c \in Conns |-> {}]
    /\ hub       = Select
    /\ users     = [u \in Users |-> {}]
    /\ rooms     = [r \in Rooms |-> {}]
    /\ bcast     = <<>>
    /\ members   = {}
    /\ stored    = <<>>
    /\ requests  = 0
    /\ wire      = [c \in Conns |-> <<>>]
    /\ lost      = [c \in Conns |-> {}]
    /\ owed      = [c \in Conns |-> {}]

----------------------------------------------------------------------------
(* Conn.enqueue on every connection of cs: a full buffer refuses the event. *)
HasSpace(c) == Len(sendq[c]) < SendCap

Offer(cs, e) ==
    /\ sendq' = [c \in Conns |-> IF c \in cs /\ HasSpace(c)
                                 THEN Append(sendq[c], e) ELSE sendq[c]]
    /\ lost'  = [c \in Conns |-> IF c \in cs /\ ~HasSpace(c)
                                 THEN lost[c] \cup {e} ELSE lost[c]]

Goto(c, from, to) == pc[c] = from /\ pc' = [pc EXCEPT ![c] = to]

(* The request is finished: the goroutine is back in ReadJSON. *)
Finish(c, from) == Goto(c, from, "reading") /\ job' = [job EXCEPT ![c] = NoJob]

(* Fault: a direct message goes to every user's connections. *)
AudienceOfAnyUser(dest) ==
    IF dest[1] = "room" THEN rooms[dest[2]] ELSE UNION {users[u] : u \in Users}

(* The connections h.rooms or h.users holds for a destination. *)
Audience(dest) == IF dest[1] = "room" THEN rooms[dest[2]] ELSE users[dest[2]]

----------------------------------------------------------------------------
(* A connection's life: ServeWS, the requests of readLoop, writeLoop.       *)

(* ServeWS has authenticated and upgraded; it offers the Conn to the hub.   *)
Connect(c) ==
    /\ Goto(c, "absent", "registering")
    /\ UNCHANGED <<job, writer, socket, connRooms, hubVars, tableVars, sendq, bcast,
                   requests, wire, lost, owed>>

(* ReadJSON returned a request; its kind picks the handler. *)
Receive(c, kind, dest) ==
    /\ requests < MaxRequests
    /\ requests' = requests + 1
    /\ Goto(c, "reading", CASE kind = "join_room"  -> "join"
                            [] kind = "leave_room" -> "leave"
                            [] kind = "typing"     -> "publish"
                            [] kind = "message" /\ dest[1] = "room" -> "check"
                            [] OTHER               -> "store")
    /\ job' = [job EXCEPT ![c] = [kind |-> kind, dest |-> dest, id |-> 0]]
    /\ UNCHANGED <<writer, socket, connRooms, hubVars, tableVars, sendq, bcast, wire,
                   lost, owed>>

(* A join_room whose room id does not parse is answered with an error. *)
RejectJoin(c) ==
    /\ pc[c] = "reading"
    /\ "bad_join" \in Kinds /\ requests < MaxRequests
    /\ requests' = requests + 1
    /\ Offer({c}, Refusal)
    /\ UNCHANGED <<connVars, hubVars, tableVars, bcast, wire, owed>>

(* read sets a column that nothing reads, whether the call fails or not; a  *)
(* message, leave or typing request that names nothing also ends here.      *)
MarkRead(c) ==
    /\ pc[c] = "reading"
    /\ "read" \in Kinds /\ requests < MaxRequests
    /\ requests' = requests + 1
    /\ UNCHANGED <<connVars, hubVars, tableVars, sendq, bcast, wire, lost, owed>>

(* Fault: AddRoomMember is given its two ids the wrong way round. *)
JoinStoreSwapped(c) ==
    /\ Goto(c, "join", "subscribe")
    /\ members' = members \cup {<<UserOf[c], job[c].dest[2]>>}
    /\ UNCHANGED <<job, writer, socket, connRooms, hubVars, stored, sendq, bcast,
                   requests, wire, lost, owed>>

(* joinRoom: AddRoomMember, whose error (no such room, or a database        *)
(* failure) is ignored, then SubscribeRoom, then the confirmation.          *)
JoinStore(c) ==
    /\ Goto(c, "join", "subscribe")
    /\ LET r == job[c].dest[2] IN
         \/ /\ r \in KnownRooms
            /\ members' = members \cup {<<r, UserOf[c]>>}
         \/ /\ r \notin KnownRooms \/ StoreFails
            /\ UNCHANGED members
    /\ UNCHANGED <<job, writer, socket, connRooms, hubVars, stored, sendq, bcast,
                   requests, wire, lost, owed>>

SubscribeRoom(c) ==
    /\ Goto(c, "subscribe", "confirm")
    /\ rooms' = [rooms EXCEPT ![job[c].dest[2]] = @ \cup {c}]
    /\ UNCHANGED <<job, writer, socket, connRooms, hub, users, tableVars, sendq, bcast,
                   requests, wire, lost, owed>>

ConfirmJoin(c) ==
    /\ Finish(c, "confirm")
    /\ connRooms' = [connRooms EXCEPT ![c] = @ \cup {job[c].dest[2]}]
    /\ Offer({c}, RoomJoined(job[c].dest[2]))
    /\ UNCHANGED <<writer, socket, hubVars, tableVars, bcast, requests, wire, owed>>

(* Fault: after a database error leaveRoom returns, Conn.rooms already changed. *)
LeaveStoreOrReturn(c) ==
    /\ \/ /\ Goto(c, "leave", "unsubscribe")
          /\ members' = members \ {<<job[c].dest[2], UserOf[c]>>}
          /\ UNCHANGED job
       \/ StoreFails /\ Finish(c, "leave") /\ UNCHANGED members
    /\ connRooms' = [connRooms EXCEPT ![c] = @ \ {job[c].dest[2]}]
    /\ UNCHANGED <<writer, socket, hubVars, stored, sendq, bcast, requests, wire, lost,
                   owed>>

(* leaveRoom: RemoveRoomMember, its error ignored, then UnsubscribeRoom. *)
LeaveStore(c) ==
    /\ Goto(c, "leave", "unsubscribe")
    /\ \/ members' = members \ {<<job[c].dest[2], UserOf[c]>>}
       \/ StoreFails /\ UNCHANGED members
    /\ connRooms' = [connRooms EXCEPT ![c] = @ \ {job[c].dest[2]}]
    /\ UNCHANGED <<job, writer, socket, hubVars, stored, sendq, bcast, requests, wire,
                   lost, owed>>

UnsubscribeRoom(c) ==
    /\ Finish(c, "unsubscribe")
    /\ rooms' = [rooms EXCEPT ![job[c].dest[2]] = @ \ {c}]
    /\ owed' = [owed EXCEPT ![c] = {id \in @ : stored[id].dest # job[c].dest}]
    /\ UNCHANGED <<writer, socket, connRooms, hub, users, tableVars, sendq, bcast,
                   requests, wire, lost>>

(* sendRoomMessage: IsRoomMember, CreateMessage, broadcastRoom; each        *)
(* database error ends the request, the first with an error event.          *)
CheckMember(c) ==
    LET r == job[c].dest[2] IN
    \/ /\ Goto(c, "check", "store")
       /\ <<r, UserOf[c]>> \in members
       /\ UNCHANGED <<job, sendq, lost, writer, socket, connRooms, hubVars, tableVars,
                      bcast, requests, wire, owed>>
    \/ /\ Finish(c, "check")
       /\ <<r, UserOf[c]>> \notin members \/ StoreFails
       /\ Offer({c}, Refusal)
       /\ UNCHANGED <<writer, socket, connRooms, hubVars, tableVars, bcast, requests,
                      wire, owed>>

CreateMessage(c) ==
    /\ Goto(c, "store", "publish")
    /\ stored' = Append(stored, [sender |-> c, dest |-> job[c].dest])
    /\ job' = [job EXCEPT ![c].id = Len(stored) + 1]
    /\ LET due == Audience(job[c].dest)
                  \cup (IF job[c].dest[1] = "user" THEN users[UserOf[c]] ELSE {})
       IN owed' = [d \in Conns |-> IF d \in due THEN owed[d] \cup {Len(stored) + 1}
                                               ELSE owed[d]]
    /\ UNCHANGED <<writer, socket, connRooms, hubVars, members, sendq, bcast, requests,
                   wire, lost>>

CreateFails(c) ==
    /\ StoreFails
    /\ Finish(c, "store")
    /\ UNCHANGED <<writer, socket, connRooms, hubVars, tableVars, sendq, bcast, requests,
                   wire, lost, owed>>

(* The event a request makes for the hub; typing skips the typist. *)
OutboundFor(c, dest) ==
    [dest |-> dest,
     event |-> IF job[c].kind = "typing" THEN Typing(UserOf[c]) ELSE Message(job[c].id),
     exclude |-> IF job[c].kind = "typing" THEN c ELSE NoConn]

(* broadcastRoom and broadcastUser: the send blocks while the channel is full. *)
Broadcast(c, dest) ==
    /\ Len(bcast) < BcastCap
    /\ bcast' = Append(bcast, OutboundFor(c, dest))

(* Fault: the sender gives itself its copy, and the hub leaves the sender out. *)
PublishPastHub(c) ==
    /\ pc[c] = "publish"
    /\ Len(bcast) < BcastCap
    /\ bcast' = Append(bcast, [OutboundFor(c, job[c].dest) EXCEPT !.exclude = c])
    /\ Offer({c}, Message(job[c].id))
    /\ Finish(c, "publish")
    /\ UNCHANGED <<writer, socket, connRooms, hubVars, tableVars, requests, wire, owed>>

(* Fault: both copies of a direct message go to its sender. *)
PublishToSender(c) ==
    /\ pc[c] = "publish"
    /\ Broadcast(c, IF job[c].dest[1] = "user" THEN <<"user", UserOf[c]>> ELSE job[c].dest)
    /\ IF job[c].kind = "message" /\ job[c].dest[1] = "user"
       THEN Goto(c, "publish", "echo") /\ UNCHANGED job
       ELSE Finish(c, "publish")
    /\ UNCHANGED <<writer, socket, connRooms, hubVars, tableVars, sendq, requests, wire,
                   lost, owed>>

(* A direct message is sent twice: to its recipient, then to its sender. *)
Publish(c) ==
    /\ pc[c] = "publish"
    /\ Broadcast(c, job[c].dest)
    /\ IF job[c].kind = "message" /\ job[c].dest[1] = "user"
       THEN Goto(c, "publish", "echo") /\ UNCHANGED job
       ELSE Finish(c, "publish")
    /\ UNCHANGED <<writer, socket, connRooms, hubVars, tableVars, sendq, requests, wire,
                   lost, owed>>

(* Fault: both copies of a direct message go to its recipient. *)
EchoToRecipient(c) ==
    /\ Finish(c, "echo")
    /\ Broadcast(c, job[c].dest)
    /\ UNCHANGED <<writer, socket, connRooms, hubVars, tableVars, sendq, requests, wire,
                   lost, owed>>

Echo(c) ==
    /\ Finish(c, "echo")
    /\ Broadcast(c, <<"user", UserOf[c]>>)
    /\ UNCHANGED <<writer, socket, connRooms, hubVars, tableVars, sendq, requests, wire,
                   lost, owed>>

(* Fault: a socket the server closed does not end readLoop. *)
DisconnectByPeer(c) ==
    /\ c \in Flaky /\ socket[c] = "open"
    /\ Goto(c, "reading", "closing")
    /\ UNCHANGED <<job, writer, socket, connRooms, hubVars, tableVars, sendq, bcast,
                   requests, wire, lost, owed>>

(* ReadJSON failed: the peer is gone, or the server closed the socket. *)
Disconnect(c) ==
    /\ c \in Flaky \/ socket[c] = "closed"
    /\ Goto(c, "reading", "closing")
    /\ UNCHANGED <<job, writer, socket, connRooms, hubVars, tableVars, sendq, bcast,
                   requests, wire, lost, owed>>

(* writeLoop: one event to the socket, or a failed write that ends it. *)
WriteEvent(c) ==
    /\ writer[c] = "on" /\ socket[c] = "open" /\ sendq[c] # <<>>
    /\ sendq' = [sendq EXCEPT ![c] = Tail(@)]
    /\ wire'  = [wire EXCEPT ![c] = Append(@, Head(sendq[c]))]
    /\ UNCHANGED <<connVars, hubVars, tableVars, bcast, requests, lost, owed>>

WriteFails(c) ==
    /\ c \in Flaky \/ socket[c] = "closed"
    /\ writer[c] = "on" /\ sendq[c] # <<>>
    /\ sendq'  = [sendq EXCEPT ![c] = Tail(@)]
    /\ writer' = [writer EXCEPT ![c] = "done"]
    /\ socket' = [socket EXCEPT ![c] = "closed"]
    /\ lost'   = [lost EXCEPT ![c] = @ \cup {Head(sendq[c])}]
    /\ UNCHANGED <<pc, job, connRooms, hubVars, tableVars, bcast, requests, wire, owed>>

(* The deferred function of readLoop: once the hub has taken the Conn from  *)
(* the channel unregister (HubUnregister), the socket is closed.            *)
CloseSocket(c) ==
    /\ Goto(c, "unregistered", "gone")
    /\ socket' = [socket EXCEPT ![c] = "closed"]
    /\ UNCHANGED <<job, writer, connRooms, hubVars, tableVars, sendq, bcast, requests,
                   wire, lost, owed>>

----------------------------------------------------------------------------
(* The hub goroutine: receive from a ready channel, then run the handler.   *)
(* Between the two, the connection that handed itself over already goes on. *)

HubRegister(c) ==
    /\ hub = Select
    /\ hub' = [at |-> "add", conn |-> c]
    /\ Goto(c, "registering", "reading")
    /\ writer' = [writer EXCEPT ![c] = "on"]
    /\ UNCHANGED <<job, socket, connRooms, users, rooms, tableVars, sendq, bcast,
                   requests, wire, lost, owed>>

(* addConn: everyone connected, the newcomer included, hears it is online. *)
HubAdd ==
    /\ hub.at = "add"
    /\ hub' = Select
    /\ users' = [users EXCEPT ![UserOf[hub.conn]] = @ \cup {hub.conn}]
    /\ Offer(UNION {users'[u] : u \in Users}, Presence(UserOf[hub.conn], TRUE))
    /\ UNCHANGED <<connVars, rooms, tableVars, bcast, requests, wire, owed>>

HubUnregister(c) ==
    /\ hub = Select
    /\ hub' = [at |-> "remove", conn |-> c]
    /\ Goto(c, "closing", "unregistered")
    /\ UNCHANGED <<job, writer, socket, connRooms, users, rooms, tableVars, sendq, bcast,
                   requests, wire, lost, owed>>

(* Fault: removeConn leaves the connection in the rooms. *)
HubRemoveKeepsRooms ==
    /\ hub.at = "remove"
    /\ hub' = Select
    /\ LET u == UserOf[hub.conn] IN
         /\ users' = [users EXCEPT ![u] = @ \ {hub.conn}]
         /\ IF users[u] # {} /\ users'[u] = {}
            THEN Offer(UNION {users'[v] : v \in Users}, Presence(u, FALSE))
            ELSE UNCHANGED <<sendq, lost>>
    /\ owed' = [owed EXCEPT ![hub.conn] = {}]
    /\ UNCHANGED <<connVars, rooms, tableVars, bcast, requests, wire>>

(* Fault: the last connection of a user goes without a word. *)
HubRemoveSilent ==
    /\ hub.at = "remove"
    /\ hub' = Select
    /\ users' = [users EXCEPT ![UserOf[hub.conn]] = @ \ {hub.conn}]
    /\ rooms' = [r \in Rooms |-> rooms[r] \ {hub.conn}]
    /\ owed' = [owed EXCEPT ![hub.conn] = {}]
    /\ UNCHANGED <<connVars, tableVars, sendq, bcast, requests, wire, lost>>

(* Fault: the user goes offline with any of its connections. *)
HubRemoveOffline ==
    /\ hub.at = "remove"
    /\ hub' = Select
    /\ users' = [users EXCEPT ![UserOf[hub.conn]] = @ \ {hub.conn}]
    /\ Offer(UNION {users'[v] : v \in Users}, Presence(UserOf[hub.conn], FALSE))
    /\ rooms' = [r \in Rooms |-> rooms[r] \ {hub.conn}]
    /\ owed' = [owed EXCEPT ![hub.conn] = {}]
    /\ UNCHANGED <<connVars, tableVars, bcast, requests, wire>>

(* removeConn: with its last connection a user goes offline, and whoever is *)
(* left hears of it.                                                        *)
HubRemove ==
    /\ hub.at = "remove"
    /\ hub' = Select
    /\ LET u == UserOf[hub.conn] IN
         /\ users' = [users EXCEPT ![u] = @ \ {hub.conn}]
         /\ IF users[u] # {} /\ users'[u] = {}
            THEN Offer(UNION {users'[v] : v \in Users}, Presence(u, FALSE))
            ELSE UNCHANGED <<sendq, lost>>
    /\ rooms' = [r \in Rooms |-> rooms[r] \ {hub.conn}]
    /\ owed' = [owed EXCEPT ![hub.conn] = {}]
    /\ UNCHANGED <<connVars, tableVars, bcast, requests, wire>>

(* Fault: messages leave the channel in any order. *)
HubTakeAny ==
    /\ hub = Select
    /\ \E i \in 1 .. Len(bcast) :
          /\ hub' = [at |-> "send", msg |-> bcast[i]]
          /\ bcast' = SubSeq(bcast, 1, i - 1) \o SubSeq(bcast, i + 1, Len(bcast))
    /\ UNCHANGED <<connVars, users, rooms, tableVars, sendq, requests, wire, lost, owed>>

HubTake ==
    /\ hub = Select
    /\ bcast # <<>>
    /\ hub' = [at |-> "send", msg |-> Head(bcast)]
    /\ bcast' = Tail(bcast)
    /\ UNCHANGED <<connVars, users, rooms, tableVars, sendq, requests, wire, lost, owed>>

(* Fault: one full buffer ends the loop over the audience. *)
HubSendUntilFull ==
    /\ hub.at = "send"
    /\ hub' = Select
    /\ LET to   == Audience(hub.msg.dest) \ {hub.msg.exclude}
           full == {c \in to : ~HasSpace(c)}
       IN \E before \in SUBSET (to \ full) :
             Offer(IF full = {} THEN to ELSE before \cup {CHOOSE c \in full : TRUE},
                   hub.msg.event)
    /\ UNCHANGED <<connVars, users, rooms, tableVars, bcast, requests, wire, owed>>

(* Fault: the hub waits for space in every buffer. *)
HubSendWaits ==
    /\ hub.at = "send"
    /\ \A c \in Audience(hub.msg.dest) \ {hub.msg.exclude} : HasSpace(c)
    /\ hub' = Select
    /\ Offer(Audience(hub.msg.dest) \ {hub.msg.exclude}, hub.msg.event)
    /\ UNCHANGED <<connVars, users, rooms, tableVars, bcast, requests, wire, owed>>

HubSend ==
    /\ hub.at = "send"
    /\ hub' = Select
    /\ Offer(Audience(hub.msg.dest) \ {hub.msg.exclude}, hub.msg.event)
    /\ UNCHANGED <<connVars, users, rooms, tableVars, bcast, requests, wire, owed>>

----------------------------------------------------------------------------
(* POST /rooms/{id}/join and /leave change the table, and only the table.   *)
HTTPJoin(u, r) ==
    /\ r \in KnownRooms
    /\ members' = members \cup {<<r, u>>}
    /\ UNCHANGED <<connVars, hubVars, stored, sendq, bcast, requests, wire, lost, owed>>

HTTPLeave(u, r) ==
    /\ members' = members \ {<<r, u>>}
    /\ UNCHANGED <<connVars, hubVars, stored, sendq, bcast, requests, wire, lost, owed>>

----------------------------------------------------------------------------
(* A step of a request under way, as opposed to one the client decides on. *)
Serve(c) ==
    \/ JoinStore(c) \/ SubscribeRoom(c) \/ ConfirmJoin(c)
    \/ LeaveStore(c) \/ UnsubscribeRoom(c)
    \/ CheckMember(c) \/ CreateMessage(c) \/ CreateFails(c) \/ Publish(c) \/ Echo(c)
    \/ CloseSocket(c)

Request(c) ==
    \/ \E kind \in Kinds \ {"bad_join", "read"}, dest \in Targets :
          /\ kind \in {"join_room", "leave_room"} => dest[1] = "room"
          /\ Receive(c, kind, dest)
    \/ RejectJoin(c)
    \/ MarkRead(c)

Write(c) == WriteEvent(c) \/ WriteFails(c)

HubStep ==
    \/ \E c \in Conns : HubRegister(c) \/ HubUnregister(c)
    \/ HubAdd \/ HubRemove \/ HubTake \/ HubSend

HTTPStep == \E u \in HttpUsers, r \in Rooms : HTTPJoin(u, r) \/ HTTPLeave(u, r)

Next ==
    \/ \E c \in Conns : Connect(c) \/ Request(c) \/ Serve(c) \/ Disconnect(c) \/ Write(c)
    \/ HubStep
    \/ HTTPStep

Spec == Init /\ [][Next]_vars

(* Go runs a ready goroutine. Which of several ready channels the hub picks *)
(* is random; requests are bounded, so weak fairness of the hub as a whole  *)
(* is enough. A client need not connect, ask for anything or hang up, but   *)
(* ReadJSON and WriteJSON do fail once the server has closed the socket. A  *)
(* write has no deadline: it ends if the client goes on reading.            *)
FairSpec ==
    /\ Spec
    /\ WF_vars(HubStep)
    /\ \A c \in Conns : /\ WF_vars(Serve(c))
                        /\ WF_vars((c \notin Flaky \/ socket[c] = "closed") /\ Write(c))
                        /\ WF_vars(socket[c] = "closed" /\ Disconnect(c))

----------------------------------------------------------------------------
(* Properties *)

(* Every variable keeps its type, and a request its shape. *)
TypeOK ==
    /\ pc        \in [Conns -> ReaderStates]
    /\ job       \in [Conns -> RoomJobs \cup PostJobs \cup {NoJob}]
    /\ writer    \in [Conns -> {"off", "on", "done"}]
    /\ socket    \in [Conns -> {"open", "closed"}]
    /\ sendq     \in [Conns -> Seq(Events)]
    /\ connRooms \in [Conns -> SUBSET Rooms]
    /\ hub       \in HubStates
    /\ users     \in [Users -> SUBSET Conns]
    /\ rooms     \in [Rooms -> SUBSET Conns]
    /\ bcast     \in Seq(Outbound)
    /\ members   \in SUBSET (Rooms \X Users)
    /\ stored    \in Seq([sender : Conns, dest : Dests])
    /\ requests  \in 0 .. MaxRequests
    /\ wire      \in [Conns -> Seq(Events)]
    /\ lost      \in [Conns -> SUBSET Events]
    /\ owed      \in [Conns -> SUBSET (1 .. Len(stored))]

(* What a connection has been given so far, in the order it was given. *)
Log(c) == wire[c] \o sendq[c]

Being(c, what) == hub.at = what /\ hub.conn = c

(* The hub's two tables hold exactly the live connections: one that never   *)
(* registered or that removeConn has handled is in neither (a left-over     *)
(* would be sent to for ever), one that addConn has handled is under its    *)
(* own user until removeConn runs.                                          *)
NoGhostConn ==
    \A c \in Conns :
        /\ \A u \in Users : c \in users[u] <=>
              /\ u = UserOf[c]
              /\ pc[c] \notin {"absent", "registering"} /\ ~Being(c, "add")
              /\ pc[c] \in {"unregistered", "gone"} => Being(c, "remove")
        /\ \A r \in Rooms : c \in rooms[r] =>
              /\ pc[c] \notin {"absent", "registering"}
              /\ pc[c] \in {"unregistered", "gone"} => Being(c, "remove")

(* Conn.rooms, written outside h.mu, and Hub.rooms, written under it, agree *)
(* whenever the connection is between two requests.                         *)
RoomsMatchConn ==
    \A c \in Conns : pc[c] \in {"reading", "closing"} =>
        connRooms[c] = {r \in Rooms : c \in rooms[r]}

(* What a connected client last heard of a user is true, unless the full    *)
(* buffer refused it a presence event: a user with two connections does not *)
(* go offline with the first.                                               *)
About(e, u) == e.type = "presence" /\ e.user = u

PresenceView ==
    \A c \in Conns, u \in Users :
        (/\ c \in users[UserOf[c]]
         /\ Presence(u, TRUE) \notin lost[c] /\ Presence(u, FALSE) \notin lost[c]) =>
            \A i \in 1 .. Len(Log(c)) :
                (/\ About(Log(c)[i], u)
                 /\ \A j \in i + 1 .. Len(Log(c)) : ~About(Log(c)[j], u))
                => Log(c)[i].online = (users[u] # {})

RoomMessage(e) == e.type = "message" /\ stored[e.id].dest[1] = "room"

(* Two connections see the room messages both were given in one order: the  *)
(* sender's own copy comes through the hub like everyone else's.            *)
SameOrder ==
    \A c, d \in Conns :
        \A i, j \in 1 .. Len(Log(c)), k, m \in 1 .. Len(Log(d)) :
            (/\ i < j /\ Log(c)[i] # Log(c)[j]
             /\ RoomMessage(Log(c)[i]) /\ RoomMessage(Log(c)[j])
             /\ Log(c)[i] = Log(d)[k] /\ Log(c)[j] = Log(d)[m]) => k < m

(* The room messages of one connection arrive in the order they were stored. *)
SenderOrder ==
    \A c \in Conns : \A i, j \in 1 .. Len(Log(c)) :
        (/\ i < j /\ RoomMessage(Log(c)[i]) /\ RoomMessage(Log(c)[j])
         /\ stored[Log(c)[i].id].sender = stored[Log(c)[j].id].sender)
        => Log(c)[i].id <= Log(c)[j].id

(* Nobody is given a message twice, but for a message to oneself, which is  *)
(* broadcast to its recipient and to its sender.                            *)
AtMostOnce ==
    \A c \in Conns : \A i, j \in 1 .. Len(Log(c)) :
        (i # j /\ Log(c)[i] = Log(c)[j] /\ Log(c)[i].type = "message") =>
            LET m == stored[Log(c)[i].id] IN m.dest = <<"user", UserOf[m.sender]>>

(* A direct message reaches only connections of its two users. *)
DirectIsPrivate ==
    \A c \in Conns : \A i \in 1 .. Len(Log(c)) : Log(c)[i].type = "message" =>
        LET m == stored[Log(c)[i].id]
        IN m.dest[1] = "user" => UserOf[c] \in {m.dest[2], UserOf[m.sender]}

(* The message is on its way to c: a sender is about to broadcast it, or it *)
(* waits in the channel, or the hub is about to send it.                    *)
Pending(id, c) ==
    LET reaches(msg) == /\ msg.event = Message(id)
                        /\ msg.exclude # c
                        /\ c \in Audience(msg.dest)
    IN \/ \E d \in Conns :
            /\ pc[d] \in {"publish", "echo"} /\ job[d].kind = "message" /\ job[d].id = id
            /\ \/ pc[d] = "publish" /\ c \in Audience(job[d].dest)
               \/ job[d].dest[1] = "user" /\ UserOf[c] = UserOf[d]
       \/ \E i \in 1 .. Len(bcast) : reaches(bcast[i])
       \/ hub.at = "send" /\ reaches(hub.msg)

(* A connection that was subscribed when a message was stored, and still is,*)
(* has been given it, is about to be, or had its buffer full when it came:  *)
(* nothing else loses a message.                                            *)
NoMissedMessage ==
    \A c \in Conns : \A id \in owed[c] :
        \/ \E i \in 1 .. Len(Log(c)) : Log(c)[i] = Message(id)
        \/ Message(id) \in lost[c]
        \/ Pending(id, c)

(* README.md:100 "room_joined: confirmation of join": it should not be sent *)
(* for a room that does not exist.                                          *)
ConfirmedRoomsExist ==
    \A c \in Conns, r \in Rooms :
        (\E i \in 1 .. Len(Log(c)) : Log(c)[i] = RoomJoined(r)) => r \in KnownRooms

(* A sender blocked on the full broadcast channel always gets through: the  *)
(* hub never waits for a connection, however slow.                          *)
SendersUnblock ==
    \A c \in Conns : pc[c] \in {"publish", "echo"} ~> pc[c] = "reading"

(* A failed write closes the socket, and that ends in removeConn. *)
DeadConnLeaves ==
    \A c \in Conns : socket[c] = "closed" ~> pc[c] = "gone" /\ \A u \in Users : c \notin users[u]

(* What is owed is settled: written to the socket, lost to a full buffer or *)
(* a failed write, or the connection has left. Of a client that has stopped *)
(* reading it may stay in the buffer; nobody else has to wait for that.     *)
MessagesSettle ==
    \A c \in Conns : \A id \in 1 .. MaxRequests :
        LET in(q) == \E i \in 1 .. Len(q) : q[i] = Message(id)
        IN id \in owed[c] ~> \/ id \notin owed[c]
                             \/ Message(id) \in lost[c]
                             \/ in(wire[c])
                             \/ c \in Flaky /\ in(sendq[c])
=============================================================================
