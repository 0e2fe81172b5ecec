# livechat-server: specification and proofs

TLA+ models of livechat-server, checked with TLC and, where noted, proved with
TLAPS. Paths such as `ws/hub.go` are below `src/internal/`. `PROJECT.json` lists
every run, every definition with the source lines it models, the hazards and the
theorems; this file explains them.

## 1. The system

The repository holds two chat systems. The web system is what `main.go` starts:
an HTTP API and a WebSocket gateway over PostgreSQL, with a React client. The TCP
chat core (`chat/`) is a line-based server with rooms, nicknames and commands;
no main program imports it, and it is complete in itself.

| component | state | operations | hard behaviour |
|---|---|---|---|
| WebSocket hub (`ws/hub.go`) | `users`, `rooms`, three channels | register, unregister, broadcast, subscribe, unsubscribe | one goroutine selecting among channels, readers blocking on a bounded channel, maps under `h.mu` |
| WebSocket connection (`ws/conn.go`) | `send` (64), `rooms` | `join_room`, `leave_room`, `message`, `typing`, `read`; writing | requests of several steps (database, lock, channel); full buffers; failed writes |
| store (`store/`, `db/migrations`) | users, rooms, room_members, messages | one SQL statement each | failing calls; foreign keys; check-then-insert |
| HTTP handlers (`http/`) | none of their own | register, login, rooms, join, leave, history, uploads | several statements without a transaction |
| server process (`main.go`) | | start, seed, shut down | shutdown order |
| web client (`web/src`) | token, user; messages, active thread, socket | log in and out, hydrate, connect, handle events, load history, send | answers that come late or to another login; sockets never closed; history replacing what arrived meanwhile |
| TCP server (`chat/server.go`, `chat/room.go`) | `rooms`, `clients`, `names`; members, history, topic per room | connect, join, leave, nick, quit, messages | locks dropped between the steps of a command; a session torn down under its command |
| TCP session (`chat/client.go`) | `send`, `done`, `idleReset`, `once`, name, room | read, write, time out, `Send`, `shutdown` | three goroutines and all other clients' goroutines; closing channels |

How they interact. An HTTP request to `/ws` becomes a `Conn` with a reader and a
writer goroutine; the reader hands it to the hub over `register`, calls the store
and the hub's locked methods, and publishes over `broadcast`; the hub puts events
into the bounded buffers of the connections; the writer empties them. The HTTP
handlers share only the database with the gateway. In the TCP core every client
has a reader, a writer and an idle watcher; readers call the `Server`, which calls
`Send` on other clients; each of the three goroutines may call `shutdown`, which
calls back into the `Server`.

What makes each part correct is stated as properties below; the hazards that
suggested them, each with its line, are in `PROJECT.json`.

## 2. Modules

| module | models | status |
|---|---|---|
| `Hub` | hub, connections, the two tables the gateway uses, HTTP join and leave | done |
| `Feed` | abstract: what the gateway promises, without goroutines and buffers | done |
| `HubFeed` | the refinement mapping from `Hub` to `Feed` | done |
| `HubMC` | constants of `Hub` for TLC | done |
| `HubProofs` | theorems about the control of `Hub` | three theorems |
| `FeedProofs` | theorems about `Feed` | four theorems |
| `HubFeedProofs` | that `Hub` implements `Feed`, and what follows | five theorems |
| `HubDeliveryProofs` | presence and delivery in `Hub` | two theorems |
| `ChatServer` | registry of the TCP core: rooms, clients, names | done |
| `ChatServerMC` | its constants | done |
| `ChatServerProofs` | theorems about `ChatServer` | seven theorems |
| `ChatDelivery` | messages, topics, history and announcements of the TCP core, on top of `ChatServer` | done |
| `ChatDeliveryMC` | its constants | done |
| `ChatDeliveryProofs` | theorems about `ChatDelivery` | five theorems |
| `Session` | abstract: what the TCP server relies on in a session | done |
| `ChatClient` | one TCP session: goroutines, channels, `Send`, `shutdown`, idle timer | done |
| `ChatClientMC` | its constants | done |
| `ChatClientProofs` | theorems about `ChatClient` | three theorems |
| `ChatLocks` | the locks of server, rooms and clients of the TCP core, one by one | done |
| `ChatLocksMC` | its constants | done |
| `Web` | the browser's stores, the HTTP API behind them, and the gateway as `Feed` | direct messages done |
| `WebMC` | its constants | done |
| `WebProofs` | theorems about `Web` | five theorems |

Each component module holds, in this order, its constants with a named
assumption, its variables, one action per step of the code, the specification
and its properties. Operators commented "Fault" are not part of the
specification: each is a version of the action after it with a plausible bug, and
the run that checks a property must fail when the fault takes the action's place.
They show that the property can fail at all.

### Hub

`pc[c]` is where the goroutine of `ServeWS`/`readLoop` of connection `c` stands,
`job[c]` the request it serves, `writer[c]` its `writeLoop`. A step is what runs
without another goroutine being able to tell the difference: one database call,
one section under `h.mu`, one channel operation. The sections under `h.mu` do not
block (`enqueue` never waits), so each is one step. `hub` is what the goroutine
`Hub.Run` has received from a channel and not yet handled: between `<-h.register`
and `addConn` the connection already runs, and the model keeps the two apart.
`register` and `unregister` have no buffer, so sending and receiving are one step
(`HubRegister`, `HubUnregister`); `broadcast` is the sequence `bcast` of at most
`BcastCap`, and `Publish` and `Echo` wait for space.

`members` and `stored` are the tables `room_members` and `messages`. The foreign
key refuses a room outside `KnownRooms`; with `StoreFails` any call may return an
error, which each handler treats as the code does (most ignore it). A message is its
position in `stored`, its text is not modelled. `wire`, `lost` and `owed` are
history: what was written to a socket, what a full buffer or a failed write lost,
and the stored messages whose audience the connection was part of. The request `read` (`MarkRead`)
sets a column nothing reads, and so changes nothing here. Tokens and the text of errors
are left out.

### Feed and HubFeed

`Feed` says what a client of the gateway may rely on. A stored message is owed one copy
to its destination and, if direct, one to its sender (`Post`); the copies of all
connections go through one queue (`Publish`), whose head is given to some of those who
listen to its destination at that moment (`Relay`): some, because a full buffer drops.
Connections come, go, join and leave as they like (`Tune`), and what they are told of
that is true when they are told: a user is announced online exactly if somebody listens
to it, and `room_joined` goes to a listener of the room. `HubFeed` maps `Hub` to it: a
connection's outbox is what its goroutine still has to broadcast, the queue is the message
`Hub.Run` is handling followed by the channel, the listeners are the audience of a
destination, and the log is what was written to the socket followed by what is in its
buffer. `ImplementsFeed` is the refinement.

### ChatServer

The registry at the granularity of `s.mu`: one step per section under the lock, and
steps of their own for what happens outside it (`setName` after `cmdNick`'s section,
the unlocked `IsEmpty` in `cleanupRoom`). A Room object is its index in `made`,
because one key may stand for several objects in the course of time, and that is
where the trouble is. `Fail` is a failed write or an idle timeout: it starts a
shutdown at any moment, whatever the reader is doing; `RemoveClient` is the section
of `removeClient`. A reader whose session is closed may still find lines in its
scanner's buffer and run them. Messages, history and topics are not part of this
module; the commands about them are one action, `OtherCommand`.

### ChatDelivery

`ChatDelivery` extends `ChatServer`: each of its steps is a step of `ChatServer`
together with what the goroutine then has to say (`Enter`, `RemoveAndTell`, `Post`,
`SetTopic`), or one step of saying it (`Talk`). `talk[c][g]` is what goroutine `g` of
client `c` still has to say: a list of tasks, done from the front. A broadcast is the
task of taking the snapshot, then one `Send` a step; a line or a topic is stored by a
task of its own before it. The reader goes on with its command, `cleanupRoom` included,
only when its list is empty; a shutdown may come at any time, from another goroutine
(`"closer"`). Of the history the model keeps all lines (`log`); `History` is what
`AppendHistory` leaves of them. `offered` is what `Send` was called with for a client whose
session was open: whether the buffer had room is told apart only for announcements
(`Slow`).

### ChatClient

One session. `todo[p]` is what goroutine `p` still has to do in the function it
called: `Send` is a look at `done` and then a send, `shutdown` is `once`, the two
`close`s, the close of the connection, and `removeClient`. The goroutines in `Others`
are other clients' readers that send to this one. The idle timer may fire at any
time; a reset of a fired timer takes its value out first, as the code does.
A step `"lock"` is where the goroutine waits for a mutex of the server, a room or a
client, all that its code takes up to the next step here: before the texts of a command,
which are one `Send`, before a client's name is logged (`Put` on a full buffer, `LogShutdown`), and inside
`removeClient`. Who else holds the locks is in `ChatLocks`; here such a step may be taken
at any time or never.

### Session

`Session` joins the two modules of the TCP core, which look at a session from its two
sides. It is open, closing or closed (`phase`), and its reader may be inside a `shutdown`,
from which it does not come back before `removeClient` has run, whoever ran it: `sync.Once`
keeps a second caller waiting for the first. In `ChatServer` this is an assumption,
made by its `session[c]` and by the guard of `QuitDone`; `SessionsAreSo` says that what it
assumes of each client is `Session`. In `ChatClient` it is a consequence of how the three
goroutines go through `once`: `PhaseOf` reads the phase off `once` and `removed`,
`ReaderOf` the reader's state off its `todo`, and `ImplementsSession` says that they
behave as `Session`. So the server assumes no more than the session provides. `Remove` may
bring the reader back in the same step, because in `ChatClient` the end of
`removeClient` is the end of `shutdown` for the goroutine that called it.

### ChatLocks

Each operation is the sequence of `RLock`, `RUnlock`, `Lock` and `Unlock` its goroutine
goes through, with the changes of the members and of the client's room in between; `todo`
is what is left of it. Whether a loop over members or rooms takes one lock or many, and in
which order, is decided when it is reached (`Expand`). The mutex is Go's: a `Lock` first
announces itself, which keeps out later readers, then waits for the earlier ones, and
`Unlock` lets in all who wait to read. Names, texts and the rooms' coming and going are
not in this module.

### Web

`Web` extends `Feed`: a socket of a browser is one of its connections, its log holds the
events that came through, and `seen` says how many of them the browser has handled. The
two stores are `auth` (token and user) and `thread`, `activeDM` and `socket`. The effects
of `ChatPage` run with the change that causes them: a login calls `hydrate`, connects and
loads the active thread (`SignIn`); the answer of `hydrate` is a new user object, so the
page connects once more (`Hydrate`), as in the code, where nothing closes the first socket.
`calls` are requests without an answer yet. A history is computed by `Answer` and put in
place by `ShowHistory`, in either order with everything else; an answer without rows is
`null`, on which the code throws, so the thread stays. `self` is the user in the closure of
a socket's handlers. `mixed` marks a page on which `hydrate` answered for one login after
another had begun: it then has the token of one user and shows the other, and the
properties exempt it; `been` are the users of the page since it was loaded, `applied`
the answer each thread was last replaced by. `Stop` cuts all sockets and forgets what was
published; the tables stay. A send and its two broadcasts are one step, since no browser
can tell; buffers of the hub do not overflow here, `hub_churn` is about that.

## 3. Runs

Bounds are constants of the models: the number of connections or clients, the total
number of requests or commands (`MaxRequests`, `MaxCommands`, `MaxLines`,
`MaxSends`), Room objects ever made (`MaxRooms`) and which peers may fail (`Flaky`,
`Unreliable`). Every run sets `CHECK_DEADLOCK FALSE`, because these systems do stop:
all connections may be gone and all requests used up. That nobody waits for ever is
checked by the liveness properties. Channel capacities are 1 or 2 instead of 64 and
128, so that full buffers are the usual case.

| run | instance | states | shows |
|---|---|---|---|
| `hub_rooms` | Alice and Bob, one connection each, one room, joins and leaves, buffers of 2, 4 requests, no failures | 1.0 million | `SameOrder`: two clients see the messages they were both given in one order. `SenderOrder`: each sender's in the order stored. `NoMissedMessage`: a subscriber at the time a message is stored gets it, unless it left or its buffer was full. `ImplementsFeed` |
| `hub_churn` | two connections of Alice, every kind of request, to the room and to Bob, buffers of 1, 2 requests, one connection fails, database calls fail, Alice also joins and leaves over HTTP | 1.2 million | `NoGhostConn`: the hub's maps hold exactly the live connections. `RoomsMatchConn`: `Conn.rooms` and `Hub.rooms` agree between requests. `PresenceView`: what was last heard of a user is true unless a presence event was dropped; with nobody but Alice here, that she is not told of one connection's end while the other lives (`hub_live` has the going offline). `AtMostOnce`. `ImplementsFeed` under failures |
| `hub_live` | direct messages to Bob, buffers of 1, Bob's connection hangs up, fails or stops reading, fairness | 0.25 million | `DirectIsPrivate`, `ImplementsFeed` for direct messages, `PresenceView` of Bob as Alice hears of him, `SendersUnblock`, `DeadConnLeaves`; `MessagesSettle`: what is owed is written, lost or moot, and only for the client that may stop reading may it stay in the buffer |
| `hub_confirm` | one connection, one unknown room | | violated: `ConfirmedRoomsExist` |
| `chat_registry` | three clients, one unreliable, two room names, three names, three Room objects, 5 commands | 3.0 million | `OneRoom`, `LobbyStays`, `NameLeadsToOwner`, `SessionsAreSo`; `HoldsOwnName` and `CleanExit` for sessions not torn down under their reader; `CleanExit` also for newcomers turned away |
| `chat_ghost` | one client | | violated: `RemovedForGood` |
| `chat_orphan` | two clients, three Room objects | | violated: `OnlyEmptyRoomsGo` |
| `chat_delivery` | two clients, one unreliable, one slow, two room names, three Room objects, a history of one line, 3 commands | 2.5 million | `NothingMissed`: a connected member has been offered the latest lines and the topic of its room, or they are on their way. `AnnouncedIsSo`: what was announced of another client is so |
| `chat_session` | one session, one other sender, a buffer of 1, 2 lines, 2 sends, fairness | 205 thousand | `ShutdownOnce`, `ImplementsSession`; `ClientCutOff`: a session being shut down closes its connection, whatever locks others hold; `GoroutinesEnd` and `IdleSessionEnds`, if locks can be had |
| `chat_panic` | the same, smaller | | violated: `SendBuffersOrDrops` |
| `chat_deadlock` | three clients, the lobby, `/who` and posts, 2 commands, fairness | | violated: `WhoIsAnswered` |
| `web_client` | one page on which Ann and Bob log in, two sockets of Ann and one of Bob, Bob's other client, a history of one message, 2 histories asked for, 2 messages, 2 turns (logins, reloads, stops, failures) | 1.3 million | `ThreadsAreOwn`: a thread holds messages of its user with somebody who was logged in on the page. `NothingHidden`: what a socket brought is shown until the thread is replaced by an answer computed before it was stored, or full, or asked for by another login. `CopiesAreBrought`: a message is shown no more often than it was brought. `SpeaksAsSelf`: what is typed goes out under the user the page shows |

Why the bounds are enough. Order and loss involve one message overtaking another,
hence two messages, two connections and channels that hold more than one element
(`hub_rooms`) or fill with one (`hub_churn`). Presence needs a user with two
connections, one of which goes (`hub_churn`); a copy too many shows on the sender's second
connection, which only listens. In the registry every interaction is
between a client and the holder of the name or room it wants; the third client is
there for the name one of them leaves behind. Three Room objects are the lobby and
two rooms of one key, the case behind `chat_orphan`. A text is missed, or a stale
announcement left behind, between one client who speaks or goes and one who comes
(`chat_delivery`); a history of one line makes both the full and the trimmed one occur. On the page every hazard is between two
events: a login and the one before it, an answer and a message, a socket and its successor
(which is why Ann has two); a history of one message makes every second message leave it.
Nobody on the page writes to himself, which the search would allow.

### Fairness

`FairSpec` of `Hub`: weak fairness of the hub goroutine as a whole, of each request
under way (its database calls return, with an error or without), of the writers of
clients that go on reading or whose socket is closed, and of a reader whose socket the
server has closed. Go
runs every ready goroutine; which ready channel `select` takes is random, so no
single channel is promised to be served, and weak fairness of the whole hub is all
that is assumed. No client has to connect, ask or hang up. The gateway sets no write
deadline (`ws/conn.go:51`), so a client that stays connected and stops reading stalls its
`writeLoop` for ever: a client in `Flaky` need not be written to while its socket is open,
and `MessagesSettle` lets what it is owed stay in its buffer. Everybody else's messages
settle all the same, which is the point.

`FairSpec` of `ChatLocks`: weak fairness of every goroutine. It never has to acquire a lock
it could not get: the run's counterexample ends in a state where no lock can be taken.

`FairSpec` of `ChatClient`: weak fairness of every goroutine at the steps that take no
lock (`GoOn`), of the writer, whose write ends because of its deadline of 15 seconds, of
the watcher, and of the reader once the connection is closed. Neither input nor the timer
has to come. There is no fairness for `TakeLock` and `RemoveClient`: `chat_deadlock` shows
that a lock may never be free again, and then `removeClient` does not return, `once.Do`
does not either, and every other caller of `shutdown` waits with it. So `GoroutinesEnd` and
`IdleSessionEnds` have the premise `LocksAreHad`, that none of the three goroutines waits at
a lock for ever, and `ClientCutOff` says what holds without it: the connection is closed.
All three say "unless the process has died", because of the panic `chat_panic` shows.

### What the violations show

1. `hub_confirm` (`ws/conn.go:85`). `joinRoom` ignores the error of `AddRoomMember`,
   subscribes and sends `room_joined`, which the README calls the confirmation of a
   join, for a room that does not exist.
2. `chat_ghost` (`chat/client.go:49`). Writer and watcher start before the reader
   enters the lobby. A shutdown before that removes the client from nothing, and the
   reader then enters it into the lobby for good. A `/join` or `/nick` in progress has
   the same gap, which is why `CleanExit` and `HoldsOwnName` exempt the sessions in `torn`.
3. `chat_orphan` (`chat/server.go:200`). `cleanupRoom` checks one Room object and
   deletes by its key. When the room has been deleted and created anew in between, the
   new, inhabited one leaves the map. Nobody can join it or see it in `/rooms`, and what its
   members post is answered "You are not inside a room" (`chat/server.go:259`).
4. `chat_panic` (`chat/client.go:126`). `Send` looks at `done` and then sends on a
   channel that `shutdown` may have closed in between.
5. `chat_deadlock` (`chat/client.go:190`). A joining client holds its `Client.mu` in
   `setRoom` and asks for the room's name, behind a post that waits to write the room's
   history, behind a `/who` that holds the room and waits for the newcomer's `Client.mu`.
   `moveClientRoom` holds `Server.mu` meanwhile, so everything else stops too.

## 4. Proofs

Every invariant of every passing run, and the refinements `ImplementsFeed`,
`ImplementsSession` and `SessionsAreSo`, are proved with TLAPS, for every value of the constants that satisfies the module's assumption: any
number of connections, rooms and messages, any capacity. TLC evaluates the assumptions in
every run. They ask for little: `NoConn`, `NoKey` and `Nobody` are not what they stand
beside, every connection has a user, capacities and limits are positive.
`WebAssumption` adds that the sockets of all pages are finitely many, because
`CopiesAreBrought` counts what they brought, and that the limit of an answer is positive,
because `ListDMs` replaces any other by 50. `FeedProofs` needs no more than that every
connection has a user.

Most properties are not inductive. Each paragraph names the strengthening that is, and what
it adds. That of the page was first checked by TLC, on the
instance of `web_client`. The proof that a step preserves one has a lemma per
action, or one for all the actions that leave its variables alone (`...Quiet`).

### The gateway

* `HubTypeOK`. What `Publish` sends depends on the request in `job[c]`. `TypeInv` adds
  `JobOK`, that a goroutine in the middle of a request has a request of that kind.
* `HubNoGhostConn`. `GhostInv` adds `LifeOK`: a connection the hub is adding is
  alive and cannot be past its own `unregister`, one it is removing is past it. Without it
  nothing says that a connection cannot be removed before it is added.
* `HubRoomsMatchConn`. `RoomsInv` says what the two tables are in the middle of a
  join or a leave, where they differ by the room of the request; it uses `GhostInv`,
  because `removeConn` empties one table only.
* `HubInv` is all of these with `RequestInv`: what a goroutine publishes is what it has
  stored, as its own, and only a direct message is published a second time. The proofs
  below start from it.
* `FeedAtMostOnce`, `FeedDirectIsPrivate`, `FeedSenderOrder`, `FeedSameOrder`, of the abstract
  feed. `FeedInv` adds to them where copies can be. `Routing`: what is in an outbox, the
  queue or a log is a stored message on its way to where it belongs. `Single`: of a message
  and a destination there is one copy, in one place, and it is in no log it could still
  reach. `Sorted`: what one connection sent to rooms is in the order stored in the queue, and
  everything in a log is before everything in the queue. Two readers see one order because
  what they both were given left the queue once. Each step is first put in terms of what it
  does to the sequences: it takes something away (`Thinned`), a copy joins the queue
  (`Joins`), or the head is given out (`Relays`).
* `HubImplementsFeed`. Initial states map to initial states, and each action of `Hub` to a
  step of `Feed` or to none: `CreateMessage` is `Post`; `Publish` and `Echo` are `Publish`
  or, for typing, `Whisper`; `HubSend` is `Relay` to those with space in their buffer; what
  changes the tables or tells of it is `Tune`; a write that fails is `Lose`; `Write` is none,
  since an event only moves from the buffer to the wire. `HubInv` is needed at `Publish`,
  whose outbox is computed from the request.
* `HubSameOrder`, `HubSenderOrder`, `HubAtMostOnce`, `HubDirectIsPrivate` are the four theorems about
  `Feed`, carried over by the refinement: the logs of the feed are the logs of the hub.
* `HubPresenceView`. `PresenceInv` adds that a connection the hub has not added yet has heard
  of nobody. A user's table becomes empty or inhabited in the same section under `h.mu` that
  tells all connections of it.
* `HubNoMissedMessage`. `CopiesInv`: a message under way is a stored one, on its way to where
  it belongs. `DeliveryInv` adds that direct messages are owed to connected clients only. A
  message that is owed stays on its way, from the goroutine that stored it to the channel and
  to the hub, as long as the connection listens; one that leaves is owed nothing.

### The TCP core

* `ChatTypeOK`. `TypeInv` adds that a room to be cleaned up is one that was made.
* `ChatOneRoom`, `ChatLobbyStays`. `RoomInv`: rooms not yet made have no members,
  and no client is about to delete the lobby.
* `ChatNameLeadsToOwner`. `NameInv`: during a renaming a client holds no name but
  the new one; a client that has not connected is nowhere in the map and still has its
  guest name.
* `ChatHoldsOwnName`, `ChatCleanExit`. `LifeInv`: `s.clients` holds exactly the connected clients
  whose session is not closed. A client is removed while its reader is at no command,
  unless its session was torn down under it; so the section of `removeClient` undoes all
  that commands have entered. `ExitInv` adds to `CleanExit` the connections that `addClient`
  has not seen yet. No step makes a session less torn, which is what lets the
  two properties exempt `torn` and still be inductive.
* `ChatSessionsAreSo`. Each action moves the session of one client at most, and that as
  `Session` allows; the sessions of the others stutter. `TypeInv` is needed to know that
  the value of `session[c]` is one of the three.
* `DeliveryImplementsServer`, `DeliveryOneRoom`. `ChatDelivery` implements `ChatServer`
  under the identity: a step of `Talk` leaves the registry alone, every other step is one
  of `ChatServer`. What is proved of `ChatServer` therefore holds of `ChatDelivery`, and
  `RoomInv` and `LifeInv` are used below.
* `DeliveryTypes`, `DeliveryNothingMissed`. `TalkInv`: the task after one that stores a
  text is the broadcast of that text to the same room; announcements have no text. With it
  `NothingMissed` is inductive: storing a line puts its broadcast in charge of all
  members, the snapshot hands it to those who are members then, and a client that becomes
  a member later has the look back before it (`MissedEnter`). `RoomInv` is needed for a
  room made at that moment, which has no other members.
* `DeliveryAnnouncedIsSo`. `ToldInv` says it of a client that is still talking: what
  somebody was told of it is so, or a better announcement is on its way to him; and no
  announcement that is left is false by now (`SaysSo`). `CloserInv`: the goroutine in
  shutdown speaks after the session has closed, when the reader can change nothing more.
* `ClientTypeOK`, `ClientShutdownOnce`. `SessionInv`: every `todo` is what is left of a
  `Send`, a `shutdown` or one after the other, with a lock before it or not (`PlanOK`); at most one goroutine is
  inside `once.Do`, and how far it has come is how far the session is closed (`OnceOK`).
  A reader that has left its loop has its shutdown before it or behind it, which gives
  the last part of `ShutdownOnce`.
* `ClientImplementsSession`, from `SessionInv`. `OnceOK` says that `removed` follows
  `once`, so that the phase is a function of `once` alone, and `PlanOK` that the reader's
  state is one of its `todo`, of `once` and of whether its loop runs (`Seen`). A step
  that changes neither stutters (`ViewStep`). The step that finishes `once` is the
  one that closes the session, and a reader waiting at it goes on only after that.

### The web client

* `WebTypes`, `WebThreadsAreOwn`, `WebNothingHidden`, `WebCopiesAreBrought`, `WebSpeaksAsSelf` have one
  inductive invariant, `WebInv`. `GatewayInv`: what a socket was given concerns its user, and
  a message has two copies at most. `SocketInv`: handlers speak of a user who was logged in
  on the page and, unless the page is mixed, of the socket's own. `CallsInv`: an answer under
  way has every message between its two users that was stored when it was computed, each
  once, or it is full and what it misses is older (`IsAnswer`).
* That `ListDMs` returns such an answer is the one place where data would ask for induction.
  `Ascending(ids)` is the increasing sequence over a set; that there is one follows from
  cardinalities alone (`OrderExists`): the number of smaller elements is an injection of
  the set into as many numbers, hence a bijection, and its inverse is increasing.
* The three properties of threads are proved together, for one thread (`PageGood`). A step
  either leaves what sockets brought alone (`PageQuiet`), or shows one more message
  (`PageShows`), or replaces the thread by an answer (`PageReads`), or starts the page
  anew (`PageReloads`).

### Only model-checked

The liveness properties: `SendersUnblock`, `DeadConnLeaves`, `MessagesSettle`,
`ClientCutOff`, `GoroutinesEnd` and `IdleSessionEnds`. They rest on fairness, hence on `ENABLED`, which the
installed provers cannot reason about. The violations are counterexamples of
TLC. `ChatLocks` has no invariant and no theorem, and its sequences of lock operations are
only run.

## 5. Not modelled

Passwords, the expiry of tokens, the case of emails, uploads, the search, the paging of
history, the list and creation of rooms and the seeding of the default room (single
statements on a table no modelled step reads but for the foreign key), the order of the
shutdown in `main`, the router, configuration, and the wording of all texts. Of the web
client, presence, typing, the list of rooms and the rendering; it never sends `join_room`,
so the messages of a room reach it only as history. The filter `created_at < before` of
`ListDMs` is left out: `before` is the API's clock and one second more
(`http/handlers/helpers.go`), so it hides a message only when the clocks of API and database are
further apart. `Login` asks for a page without a token, since no link of a page that
has one leads to `/login`, though the route itself is open to it; the double effects of
React's StrictMode in development are left out. Of the TCP core, replies to the caller
alone and private messages (whose addressee is `NameLeadsToOwner`).

## 6. Plan

1. The rooms table: creation and its owner, the seeding race.
2. Presence and typing in the client.
3. Theorems about what the two add.
