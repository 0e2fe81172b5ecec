---------------------------- MODULE ChatDelivery ----------------------------
(***************************************************************************)
(* What the clients of the TCP chat core get to hear: the messages, topics  *)
(* and announcements of broadcastRoom (internal/chat/server.go), and the    *)
(* topic and history a newcomer is shown (internal/chat/room.go).           *)
(*                                                                         *)
(* The module adds talking to ChatServer: each of its steps is a step of    *)
(* ChatServer, with what the goroutine then has to say, or a step of        *)
(* somebody talking. A goroutine goes on with its command only when it has  *)
(* said everything. None of it happens under s.mu.                          *)
(*                                                                         *)
(* A text is a number, the same for the line and for a topic. A session     *)
(* that is no longer open hears nothing: Send returns at once (that Send    *)
(* may also panic then is the subject of ChatClient). Replies to the        *)
(* speaker alone (/history among them), the announcement of a new nickname  *)
(* and private messages are left out: no property tells them apart.         *)
(***************************************************************************)
EXTENDS ChatServer

CONSTANTS
    HistoryLimit,  \* Config.HistoryLimit
    Slow           \* bound: clients whose send buffer may be found full

ASSUME DeliveryAssumption ==
    /\ HistoryLimit \in Nat \ {0}
    /\ Slow \subseteq Clients

VARIABLES
    texts,    \* how many texts have been said
    log,      \* the lines appended to the history of each room
    topic,    \* Room.topic, 0 for none
    talk,     \* what each goroutine still has to say
    offered,  \* texts Send has put into each client's buffer, or dropped
              \* because it was full
    told,     \* what was last announced to a client of another in its room
    cut       \* history: clients removed while their reader was talking

talkVars     == <<texts, log, topic, talk, offered, told, cut>>
deliveryVars == <<vars, talkVars>>

Goroutines == {"reader", "closer"}   \* the one in readLoop, the one in shutdown

(* A task: look at the topic or the history of a room, store a line or a    *)
(* topic, take the snapshot of the members, send to those of the snapshot.  *)
Task(do, kind, room, text) == [do |-> do, kind |-> kind, room |-> room, text |-> text, to |-> {}]

Broadcast(kind, room, text) == Task("snapshot", kind, room, text)

Idle(c) == talk[c]["reader"] = <<>>

DeliveryInit ==
    /\ Init
    /\ texts   = 0
    /\ log     = [o \in Objects |-> <<>>]
    /\ topic   = [o \in Objects |-> 0]
    /\ talk    = [c \in Clients |-> [g \in Goroutines |-> <<>>]]
    /\ offered = [c \in Clients |-> {}]
    /\ told    = [c \in Clients |-> [d \in Clients |-> "nothing"]]
    /\ cut     = {}

(* Room.history: the last lines appended. *)
History(o) ==
    {log[o][i] : i \in {j \in 1 .. Len(log[o]) : j + HistoryLimit > Len(log[o])}}

(* roomForClient: the room listed under the client's key. *)
RoomFor(c) == IF roomKey[c] = NoKey THEN 0 ELSE attached[roomKey[c]]

----------------------------------------------------------------------------
(* The steps of ChatServer *)

(* Fault: the newcomer is shown the topic and no history. *)
EnterTasksNoHistory(c, k) ==
    IF roomKey[c] = k THEN <<>>
    ELSE <<Task("topic", "", attached'[k], 0), Broadcast("in", attached'[k], 0)>>
         \o (IF left'[c] = 0 THEN <<>> ELSE <<Broadcast("out", left'[c], 0)>>)

(* joinRoom after moveClientRoom: nothing for a client that is in the room  *)
(* already; else topic and history, then the two announcements.             *)
EnterTasks(c, k) ==
    IF roomKey[c] = k THEN <<>>
    ELSE <<Task("topic", "", attached'[k], 0), Task("history", "", attached'[k], 0),
           Broadcast("in", attached'[k], 0)>>
         \o (IF left'[c] = 0 THEN <<>> ELSE <<Broadcast("out", left'[c], 0)>>)

Enter(c, k) ==
    /\ Idle(c)
    /\ (k = Lobby /\ JoinLobby(c)) \/ JoinRoom(c, k)
    /\ talk' = [talk EXCEPT ![c]["reader"] = EnterTasks(c, k)]
    /\ told' = IF roomKey[c] = k THEN told
               ELSE [told EXCEPT ![c] = [d \in Clients |-> "nothing"]]
    /\ UNCHANGED <<texts, log, topic, offered, cut>>

(* Steps of a reader that say nothing. *)
Quietly(c) ==
    /\ Idle(c)
    /\ \/ Connect(c) \/ CleanupCheck(c) \/ CleanupRoom(c) \/ SetName(c)
       \/ \E n \in Names : Nick(c, n)
       \/ Quit(c) \/ EndOfInput(c)
       \/ (talk[c]["closer"] = <<>> /\ (QuitDone(c) \/ Ended(c)))
    /\ UNCHANGED talkVars

FailQuietly(c) == Fail(c) /\ UNCHANGED talkVars

(* Fault: the room a client is removed from is not told. *)
RemoveUnannounced(c) ==
    /\ RemoveClient(c)
    /\ cut' = IF Idle(c) THEN cut ELSE cut \cup {c}
    /\ UNCHANGED <<texts, log, topic, talk, offered, told>>

(* removeClient tells the room the client was in, after its section. *)
RemoveAndTell(c) ==
    /\ RemoveClient(c)
    /\ talk' = IF RoomFor(c) = 0 THEN talk
               ELSE [talk EXCEPT ![c]["closer"] = <<Broadcast("out", RoomFor(c), 0)>>]
    /\ cut' = IF Idle(c) THEN cut ELSE cut \cup {c}
    /\ UNCHANGED <<texts, log, topic, offered, told>>

(* A message, or a command about the room the client is in. *)
Say(c, tasks) ==
    /\ Idle(c)
    /\ OtherCommand(c)
    /\ RoomFor(c) # 0
    /\ talk' = [talk EXCEPT ![c]["reader"] = tasks]
    /\ UNCHANGED <<log, topic, offered, told, cut>>

(* Fault: the line goes to the members before it goes into the history. *)
PostThenStore(c) ==
    /\ Say(c, <<Broadcast("line", RoomFor(c), texts + 1),
                Task("store", "line", RoomFor(c), texts + 1)>>)
    /\ texts' = texts + 1

(* postMessage and /me: into the history, then to the members. *)
Post(c) ==
    /\ Say(c, <<Task("store", "line", RoomFor(c), texts + 1),
                Broadcast("line", RoomFor(c), texts + 1)>>)
    /\ texts' = texts + 1

(* /topic with a text. *)
SetTopic(c) ==
    /\ Say(c, <<Task("store", "topic", RoomFor(c), texts + 1),
                Broadcast("topic", RoomFor(c), texts + 1)>>)
    /\ texts' = texts + 1

----------------------------------------------------------------------------
(* Talking: the first task of goroutine g of client c. *)

Doing(c, g, do) == talk[c][g] # <<>> /\ Head(talk[c][g]).do = do

(* The task is done, and these come before the remaining ones. *)
Then(c, g, tasks) == talk' = [talk EXCEPT ![c][g] = tasks \o Tail(@)]

Hear(m, heard) ==
    offered' = IF session[m] = "open" THEN [offered EXCEPT ![m] = @ \cup heard] ELSE offered

(* Fault: a room without a topic is taken for one with topic 0. *)
ShowTopicUnset(c, g) ==
    /\ Doing(c, g, "topic")
    /\ Hear(c, {topic[Head(talk[c][g]).room]})
    /\ Then(c, g, <<>>)
    /\ UNCHANGED <<vars, texts, log, topic, told, cut>>

(* The newcomer is shown the topic, and the lines of the history. Lines    *)
(* that others put between them make no difference to what it has heard.   *)
ShowTopic(c, g) ==
    /\ Doing(c, g, "topic")
    /\ Hear(c, {topic[Head(talk[c][g]).room]} \ {0})
    /\ Then(c, g, <<>>)
    /\ UNCHANGED <<vars, texts, log, topic, told, cut>>

ShowHistory(c, g) ==
    /\ Doing(c, g, "history")
    /\ Hear(c, History(Head(talk[c][g]).room))
    /\ Then(c, g, <<>>)
    /\ UNCHANGED <<vars, texts, log, topic, told, cut>>

(* AppendHistory or Room.SetTopic, under the room's lock. *)
Store(c, g) ==
    LET task == Head(talk[c][g])
    IN /\ Doing(c, g, "store")
       /\ IF task.kind = "line"
          THEN log' = [log EXCEPT ![task.room] = Append(@, task.text)] /\ UNCHANGED topic
          ELSE topic' = [topic EXCEPT ![task.room] = task.text] /\ UNCHANGED log
       /\ Then(c, g, <<>>)
       /\ UNCHANGED <<vars, texts, offered, told, cut>>

(* MembersSnapshot: announcements exclude the one they are about. *)
Snapshot(c, g) ==
    LET task == Head(talk[c][g])
        to   == members[task.room] \ (IF task.kind \in {"in", "out"} THEN {c} ELSE {})
    IN /\ Doing(c, g, "snapshot")
       /\ Then(c, g, IF to = {} THEN <<>> ELSE <<[task EXCEPT !.do = "send", !.to = to]>>)
       /\ UNCHANGED <<vars, texts, log, topic, offered, told, cut>>

(* The loop of broadcastRoom, one Send a step, in the order of the snapshot, *)
(* which is any order.                                                       *)
Deliver(c, g) ==
    LET task == Head(talk[c][g])
    IN /\ Doing(c, g, "send")
       /\ \E m \in task.to :
            /\ Then(c, g, IF task.to = {m} THEN <<>> ELSE <<[task EXCEPT !.to = @ \ {m}]>>)
            /\ IF task.kind \in {"in", "out"}
               THEN /\ IF session[m] = "open" /\ roomKey[m] = made[task.room]
                       THEN \E full \in {FALSE} \cup {s \in {TRUE} : m \in Slow} :
                              told' = [told EXCEPT ![m][c] =
                                          IF full THEN "nothing" ELSE task.kind]
                       ELSE UNCHANGED told
                    /\ UNCHANGED offered
               ELSE Hear(m, {task.text}) /\ UNCHANGED told
       /\ UNCHANGED <<vars, texts, log, topic, cut>>

Talk(c, g) == ShowTopic(c, g) \/ ShowHistory(c, g) \/ Store(c, g) \/ Snapshot(c, g) \/ Deliver(c, g)

Act(c) ==
    \/ \E k \in Keys : Enter(c, k)
    \/ Quietly(c) \/ FailQuietly(c) \/ RemoveAndTell(c)
    \/ Post(c) \/ SetTopic(c)

DeliveryNext == \E c \in Clients : Act(c) \/ \E g \in Goroutines : Talk(c, g)

DeliverySpec == DeliveryInit /\ [][DeliveryNext]_deliveryVars

----------------------------------------------------------------------------
(* Properties *)

Tasked ==
    [do : {"topic", "history", "store", "snapshot", "send"},
     kind : {"", "line", "topic", "in", "out"},
     room : 1 .. Len(made), text : 0 .. texts, to : SUBSET Clients]

DeliveryTypeOK ==
    /\ texts   \in Nat
    /\ log     \in [Objects -> Seq(1 .. texts)]
    /\ topic   \in [Objects -> 0 .. texts]
    /\ talk    \in [Clients -> [Goroutines -> Seq(Tasked)]]
    /\ offered \in [Clients -> SUBSET (1 .. texts)]
    /\ told    \in [Clients -> [Clients -> {"nothing", "in", "out"}]]
    /\ cut     \in SUBSET Clients

Tasks(c, g) == {talk[c][g][i] : i \in DOMAIN talk[c][g]}

(* Something is still on its way to member m of room o: the text itself, or, *)
(* for a newcomer, the look at what was said before.                         *)
Coming(m, o, look, text) ==
    \/ \E task \in Tasks(m, "reader") : task.do = look /\ task.room = o
    \/ \E c \in Clients : \E task \in Tasks(c, "reader") :
         /\ task.room = o /\ task.text = text
         /\ task.do = "snapshot" \/ (task.do = "send" /\ m \in task.to)

(* Between looking back and listening nothing is missed: a member of a room  *)
(* that is still connected has been offered the latest lines and the topic   *)
(* of the room, or they are on their way to it, whenever it came in and      *)
(* whoever is talking at the time.                                           *)
NothingMissed ==
    \A o \in 1 .. Len(made) : \A m \in members[o] : session[m] = "open" =>
        /\ \A text \in History(o) : text \in offered[m] \/ Coming(m, o, "history", text)
        /\ topic[o] # 0 => topic[o] \in offered[m] \/ Coming(m, o, "topic", topic[o])

(* What is announced is right: when a member of a listed room was last told  *)
(* that another came in, that one is in a room of this name, and when it was *)
(* told that it left, it is not; except while the other is still announcing, *)
(* and unless its session was torn down in the middle of a command.          *)
AnnouncedIsSo ==
    \A v, c \in Clients :
        (/\ session[v] = "open"
         /\ RoomFor(v) # 0 /\ v \in members[RoomFor(v)]
         /\ talk[c] = [g \in Goroutines |-> <<>>]
         /\ c \notin torn \cup cut)
        => /\ told[v][c] = "in"  => c \in clients /\ roomKey[c] = roomKey[v]
           /\ told[v][c] = "out" => ~(c \in clients /\ roomKey[c] = roomKey[v])
=============================================================================
