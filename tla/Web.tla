--------------------------------- MODULE Web ---------------------------------
(***************************************************************************)
(* The web client (web/src) with the HTTP API and the gateway behind it.    *)
(*                                                                         *)
(*  - Sockets are the connections of Feed, whose steps are the gateway's.   *)
(*    The events of a socket wait in its log until the browser handles them.*)
(*  - A call to the API is made, the server answers it from the tables in   *)
(*    one SQL statement, the answer is applied to the browser's stores; in  *)
(*    between anything may happen. The effects of ChatPage run with the     *)
(*    change that causes them.                                              *)
(*                                                                         *)
(* A token is its user. Passwords and the case of emails decide only        *)
(* whether a login is accepted; a refused one changes nothing. The client   *)
(* subscribes to no room, so only direct messages reach it. Presence,       *)
(* typing, the list of rooms and the search are left out.                   *)
(***************************************************************************)
EXTENDS Feed, FiniteSets

CONSTANTS
    Browsers,
    BrowserOf,     \* the browser whose socket a connection can be
    Elsewhere,     \* or that of another client, which is always connected
    Members,       \* the users that have an account from the start
    Nobody,        \* null
    HistoryLimit,  \* messages in an answer of DMHistory (50 in the code)
    MaxLoads,      \* bound: calls of DMHistory
    MaxPosts,      \* bound: messages
    MaxTurns       \* bound: logins, registrations, reloads, stops and failures

ASSUME WebAssumption ==
    /\ IsFiniteSet(Conns)
    /\ UserOf \in [Conns -> Users]
    /\ BrowserOf \in [Conns -> Browsers \cup {Elsewhere}]
    /\ Members \subseteq Users
    /\ Nobody \notin Users \cup Conns
    /\ HistoryLimit \in Nat \ {0}
    /\ {MaxLoads, MaxPosts, MaxTurns} \subseteq Nat

VARIABLES
    accounts,  \* the table users
    server,    \* "up" or "down"
    turns,     \* how many logins, reloads, stops and failures there were
    auth,      \* useAuthStore: token and user
    calls,     \* the calls to the API a browser waits for
    made,      \* how many calls of DMHistory were made
    link,      \* a socket: "unused", "opening", "open", "lost", "closed"
    self,      \* the selfId in the closure of its handlers
    seen,      \* how many of its events the browser has handled
    socket,    \* useChatStore.socket
    thread,    \* useChatStore.messages of each dm
    activeDM,  \* useChatStore.activeDMUserId
    been,      \* history: the users this page was logged in as
    mixed,     \* history: the page paired a token with another's user
    applied    \* history: the answer of DMHistory a thread was last replaced by

authVars   == <<accounts, auth, been>>
socketVars == <<link, self, seen, socket>>
pageVars   == <<thread, activeDM, applied>>
webVars    == <<vars, server, turns, authVars, calls, made, mixed, socketVars, pageVars>>

SocketsOf(b) == {c \in Conns : BrowserOf[c] = b}
Pending      == <<>>
NoAuth       == [token |-> Nobody, user |-> Nobody]

WebInit ==
    /\ Init
    /\ accounts = Members
    /\ server   = "up"
    /\ turns    = 0
    /\ auth     = [b \in Browsers |-> NoAuth]
    /\ calls    = [b \in Browsers |-> {}]
    /\ made     = 0
    /\ link     = [c \in Conns |-> "unused"]
    /\ self     = [c \in Conns |-> Nobody]
    /\ seen     = [c \in Conns |-> 0]
    /\ socket   = [b \in Browsers |-> Nobody]
    /\ thread   = [b \in Browsers |-> [u \in Users |-> <<>>]]
    /\ activeDM = [b \in Browsers |-> Nobody]
    /\ been     = [b \in Browsers |-> {}]
    /\ mixed    = {}
    /\ applied  = [b \in Browsers |-> [u \in Users |-> Pending]]

----------------------------------------------------------------------------
(* Parts of actions: calls to the API, and the effects of ChatPage.         *)

(* A token shows the page. *)
OnPage(b) == auth[b].token # Nobody

(* Require finds the user of the token; accounts are never deleted. *)
Me(u)             == [what |-> "me", as |-> u, peer |-> Nobody]
LoadHistory(u, k) == [what |-> "history", as |-> u, peer |-> k]

(* Calls are made, numbered, and wait for their answers. *)
Numbered(new) == {[call |-> q, n |-> made + turns, answer |-> Pending] : q \in new}
Make(b, new, others) ==
    /\ made' = made + Cardinality({q \in new : q.what = "history"})
    /\ made' <= MaxLoads
    /\ calls' = [calls EXCEPT ![b] = others \cup Numbered(new)]

(* Calls fail while the server is down, and now and then.   *)
Turn    == turns < MaxTurns /\ turns' = turns + 1
Failure == IF server = "down" THEN UNCHANGED turns ELSE Turn

(* Fault: a socket that is still there is used on. *)
ConnectOnce(b, token, user) ==
    LET fresh == {c \in SocketsOf(b) : link[c] = "unused" /\ UserOf[c] = token}
        c == CHOOSE c \in fresh : TRUE
    IN  IF socket[b] # Nobody THEN UNCHANGED <<socketVars, mixed>>
        ELSE /\ fresh # {}
             /\ link'   = [link EXCEPT ![c] = "opening"]
             /\ self'   = [self EXCEPT ![c] = user]
             /\ socket' = [socket EXCEPT ![b] = c]
             /\ UNCHANGED <<seen, mixed>>

(* connect: a new socket, whatever socket there was. *)
Connect(b, token, user) ==
    LET fresh == {c \in SocketsOf(b) : link[c] = "unused" /\ UserOf[c] = token}
        c == CHOOSE c \in fresh : TRUE
    IN  /\ fresh # {}
        /\ link'   = [link EXCEPT ![c] = "opening"]
        /\ self'   = [self EXCEPT ![c] = user]
        /\ socket' = [socket EXCEPT ![b] = c]
        /\ mixed'  = IF token = user THEN mixed ELSE mixed \cup {b}
        /\ UNCHANGED seen

SetUser(b, u) ==
    /\ auth' = [auth EXCEPT ![b] = [token |-> u, user |-> u]]
    /\ been' = [been EXCEPT ![b] = @ \cup {u}]

(* The page appears with a login: it asks who it is, connects, and loads    *)
(* the thread that was active last.                                         *)
SignIn(b, u) ==
    /\ Turn
    /\ SetUser(b, u)
    /\ Make(b, {Me(u)} \cup (IF activeDM[b] = Nobody THEN {}
                               ELSE {LoadHistory(u, activeDM[b])}), calls[b])
    /\ Connect(b, u, u)
    /\ UNCHANGED <<vars, server, pageVars>>

----------------------------------------------------------------------------
(* useAuthStore *)

GetUserByEmail(u) == u \in accounts /\ UNCHANGED accounts

(* The insert finds the email or the username taken, or makes the account.  *)
CreateUser(u) == u \notin accounts /\ accounts' = accounts \cup {u}

Login(b, u) ==
    /\ server = "up" /\ ~OnPage(b)
    /\ GetUserByEmail(u)
    /\ SignIn(b, u)

Register(b, u) ==
    /\ server = "up" /\ ~OnPage(b)
    /\ CreateUser(u)
    /\ SignIn(b, u)

(* The page goes; socket, threads and calls under way stay. *)
Logout(b) ==
    /\ OnPage(b)
    /\ auth' = [auth EXCEPT ![b] = NoAuth]
    /\ UNCHANGED <<vars, server, turns, accounts, been, calls, made, mixed,
                   socketVars, pageVars>>

(* hydrate has its answer, the user of the token it asked with: ChatPage    *)
(* sees a new user object and connects.                                     *)
Hydrate(b, k) ==
    /\ k.call.what = "me" /\ server = "up"
    /\ calls' = [calls EXCEPT ![b] = @ \ {k}]
    /\ auth' = [auth EXCEPT ![b].user = k.call.as]
    /\ IF auth[b].token = Nobody THEN UNCHANGED <<socketVars, mixed>>
       ELSE Connect(b, auth[b].token, k.call.as)
    /\ UNCHANGED <<vars, server, turns, accounts, been, made, pageVars>>

(* Its failure logs out whoever is logged in by now. *)
HydrateFails(b, k) ==
    /\ k.call.what = "me"
    /\ Failure
    /\ calls' = [calls EXCEPT ![b] = @ \ {k}]
    /\ auth' = [auth EXCEPT ![b] = NoAuth]
    /\ UNCHANGED <<vars, server, accounts, been, made, mixed, socketVars,
                   pageVars>>

----------------------------------------------------------------------------
(* The server: calls are answered, and the process stops and starts.        *)

Parties(id) == {UserOf[stored[id].sender], stored[id].dest[2]}

(* Fault: always the sender. *)
TheSender(u, id) == UserOf[stored[id].sender]
OtherThan(u, id) == IF UserOf[stored[id].sender] = u THEN stored[id].dest[2]
                    ELSE UserOf[stored[id].sender]

(* The ids of a set, oldest first. *)
Ascending(ids) ==
    CHOOSE s \in [1 .. Cardinality(ids) -> ids] : \A i, j \in DOMAIN s : i < j => s[i] < s[j]

(* Fault: only what the one sent to the other. *)
ListSent(u, k) ==
    Ascending({id \in DOMAIN stored : UserOf[stored[id].sender] = u /\ stored[id].dest[2] = k})

Between(u, k) == {id \in DOMAIN stored : Parties(id) = {u, k}}

(* ListDMs between two users, the last of them, oldest first. *)
ListDMs(u, k) ==
    LET ids == Ascending(Between(u, k))
    IN SubSeq(ids, IF Len(ids) > HistoryLimit THEN Len(ids) - HistoryLimit + 1 ELSE 1, Len(ids))

Answer(b, k) ==
    /\ server = "up" /\ k.call.what = "history" /\ k.answer = Pending
    /\ calls' = [calls EXCEPT ![b] =
           (@ \ {k}) \cup {[k EXCEPT !.answer = <<ListDMs(k.call.as, k.call.peer), Len(stored)>>]}]
    /\ UNCHANGED <<vars, server, turns, authVars, made, mixed, socketVars, pageVars>>

(* What was published and not relayed is gone; the tables stay. *)
Stop ==
    /\ server = "up" /\ Turn
    /\ server' = "down"
    /\ queue' = <<>>
    /\ listeners' = [d \in Dests |-> {}]
    /\ link' = [c \in Conns |-> IF link[c] \in {"opening", "open"} THEN "lost" ELSE link[c]]
    /\ UNCHANGED <<stored, outbox, log, authVars, calls, made, mixed, self, seen, socket, pageVars>>

Restart ==
    /\ server = "down" /\ server' = "up"
    /\ UNCHANGED <<vars, turns, authVars, calls, made, mixed, socketVars, pageVars>>

----------------------------------------------------------------------------
(* Sockets: ServeWS, messages, onmessage, onclose.                          *)

Listen(c, join) ==
    LET own == <<"user", UserOf[c]>> IN
    listeners' = [listeners EXCEPT ![own] = IF join THEN @ \cup {c} ELSE @ \ {c}]

Open(c) ==
    /\ server = "up" /\ link[c] = "opening"
    /\ link' = [link EXCEPT ![c] = "open"]
    /\ Listen(c, TRUE)
    /\ UNCHANGED <<stored, outbox, queue, log, server, turns, authVars, calls, made, mixed,
                   self, seen, socket, pageVars>>

(* A socket is lost, or cannot be opened. That of a stopped server is lost  *)
(* with it, and nothing connects before it is up again.                     *)
Break(c) ==
    /\ link[c] \in {"opening", "open"} /\ Turn
    /\ link' = [link EXCEPT ![c] = "lost"]
    /\ Listen(c, FALSE)
    /\ UNCHANGED <<stored, outbox, queue, log, server, authVars, calls, made, mixed,
                   self, seen, socket, pageVars>>

(* onclose forgets the socket of the store, which may be a later one. What  *)
(* had not come through is lost.                                            *)
OnClose(c) ==
    /\ link[c] = "lost"
    /\ link' = [link EXCEPT ![c] = "closed"]
    /\ socket' = [socket EXCEPT ![BrowserOf[c]] = Nobody]
    /\ log' = [log EXCEPT ![c] = SubSeq(@, 1, seen[c])]
    /\ UNCHANGED <<stored, outbox, queue, listeners, server, turns, authVars, calls, made,
                   mixed, self, seen, pageVars>>

(* A message is filed under the other of its two users, as the socket's     *)
(* handlers see it.                                                         *)
OnMessage(c) ==
    LET b  == BrowserOf[c]
        id == log[c][seen[c] + 1].id
    IN /\ link[c] \in {"open", "lost"} /\ seen[c] < Len(log[c])
       /\ seen' = [seen EXCEPT ![c] = @ + 1]
       /\ thread' = [thread EXCEPT ![b][OtherThan(self[c], id)] = Append(@, id)]
       /\ UNCHANGED <<vars, server, turns, authVars, calls, made, mixed, link, self, socket,
                      activeDM, applied>>

(* No buffer of the hub overflows here. *)
Gateway ==
    /\ server = "up"
    /\ Relay /\ \A c \in listeners[Head(queue).dest] : log'[c] # log[c]
    /\ UNCHANGED <<server, turns, authVars, calls, made, mixed, socketVars, pageVars>>

----------------------------------------------------------------------------
(* useChatStore *)

(* Fault: the effect does not wait for a login. *)
SelectLoggedOut(b, k) ==
    /\ k \in accounts \ {auth[b].token} /\ k # activeDM[b]
    /\ activeDM' = [activeDM EXCEPT ![b] = k]
    /\ Make(b, {LoadHistory(auth[b].token, k)}, calls[b])
    /\ UNCHANGED <<vars, server, turns, authVars, mixed, socketVars, thread, applied>>

(* The search offers the user itself, too; nobody here writes to himself. *)
SelectDM(b, k) ==
    /\ OnPage(b) /\ k \in accounts \ {auth[b].token} /\ k # activeDM[b]
    /\ activeDM' = [activeDM EXCEPT ![b] = k]
    /\ Make(b, {LoadHistory(auth[b].token, k)}, calls[b])
    /\ UNCHANGED <<vars, server, turns, authVars, mixed, socketVars, thread, applied>>

(* The answer replaces the thread; an answer without rows is null, on which *)
(* reverse throws.                                                          *)
ShowHistory(b, k) ==
    /\ k.call.what = "history" /\ k.answer # Pending
    /\ calls' = [calls EXCEPT ![b] = @ \ {k}]
    /\ LET peer == k.call.peer
           ids  == k.answer[1]
       IN  IF ids = <<>> THEN UNCHANGED <<thread, applied>>
           ELSE /\ thread'  = [thread EXCEPT ![b][peer] = ids]
                /\ applied' = [applied EXCEPT ![b][peer] = <<k.call.as>> \o k.answer]
    /\ UNCHANGED <<vars, server, turns, authVars, made, mixed, socketVars, activeDM>>

HistoryFails(b, k) ==
    /\ k.call.what = "history" /\ k.answer = Pending
    /\ Failure
    /\ calls' = [calls EXCEPT ![b] = @ \ {k}]
    /\ UNCHANGED <<vars, server, authVars, made, mixed, socketVars, pageVars>>

(* Post and each Publish of Feed in one step, which no browser can tell     *)
(* from many.                                                               *)
Send(c, dest) ==
    /\ Len(stored) < MaxPosts
    /\ stored' = Append(stored, [sender |-> c, dest |-> dest])
    /\ queue'  = queue \o Copies(c, dest, Len(stored) + 1)
    /\ UNCHANGED <<outbox, listeners, log>>

(* Fault: the message is shown at once, and again when it comes back. *)
SendAndShow(b) ==
    /\ OnPage(b) /\ activeDM[b] # Nobody
    /\ socket[b] # Nobody /\ link[socket[b]] = "open"
    /\ Send(socket[b], <<"user", activeDM[b]>>)
    /\ thread' = [thread EXCEPT ![b][activeDM[b]] = Append(@, Len(stored'))]
    /\ UNCHANGED <<server, turns, authVars, calls, made, mixed, socketVars, activeDM, applied>>

(* The browser sends only over a socket that is open; the message is shown  *)
(* when it comes back.                                                      *)
SendMessage(b) ==
    /\ OnPage(b) /\ activeDM[b] # Nobody
    /\ socket[b] # Nobody /\ link[socket[b]] = "open"
    /\ Send(socket[b], <<"user", activeDM[b]>>)
    /\ UNCHANGED <<server, turns, authVars, calls, made, mixed, socketVars, pageVars>>

SendElsewhere(c, k) ==
    /\ BrowserOf[c] = Elsewhere /\ server = "up"
    /\ k \in accounts \ {UserOf[c]}
    /\ Send(c, <<"user", k>>)
    /\ UNCHANGED <<server, turns, authVars, calls, made, mixed, socketVars, pageVars>>

(* The page is loaded anew: of both stores only the token is kept. *)
Reload(b) ==
    /\ Turn
    /\ auth' = [auth EXCEPT ![b].user = Nobody]
    /\ Make(b, IF OnPage(b) THEN {Me(auth[b].token)} ELSE {}, {})
    /\ link' = [c \in Conns |-> IF c \in SocketsOf(b) /\ link[c] # "unused" THEN "closed"
                                ELSE link[c]]
    /\ self' = [c \in Conns |-> IF c \in SocketsOf(b) THEN Nobody ELSE self[c]]
    /\ seen' = [c \in Conns |-> IF c \in SocketsOf(b) THEN 0 ELSE seen[c]]
    /\ log'  = [c \in Conns |-> IF c \in SocketsOf(b) THEN <<>> ELSE log[c]]
    /\ listeners' = [d \in Dests |-> listeners[d] \ SocketsOf(b)]
    /\ socket'   = [socket EXCEPT ![b] = Nobody]
    /\ thread'   = [thread EXCEPT ![b] = [u \in Users |-> <<>>]]
    /\ activeDM' = [activeDM EXCEPT ![b] = Nobody]
    /\ been'     = [been EXCEPT ![b] = {auth[b].token} \ {Nobody}]
    /\ mixed'    = mixed \ {b}
    /\ applied'  = [applied EXCEPT ![b] = [u \in Users |-> Pending]]
    /\ UNCHANGED <<stored, outbox, queue, server, accounts>>

WebNext ==
    \/ \E b \in Browsers :
          \/ \E u \in Users : Login(b, u) \/ Register(b, u) \/ SelectDM(b, u)
          \/ \E k \in calls[b] : \/ Answer(b, k) \/ Hydrate(b, k) \/ HydrateFails(b, k)
                                 \/ ShowHistory(b, k) \/ HistoryFails(b, k)
          \/ Logout(b) \/ SendMessage(b) \/ Reload(b)
    \/ \E c \in Conns : \/ Open(c) \/ Break(c) \/ OnClose(c) \/ OnMessage(c)
                        \/ \E u \in Users : SendElsewhere(c, u)
    \/ Gateway \/ Stop \/ Restart

WebSpec == WebInit /\ [][WebNext]_webVars

----------------------------------------------------------------------------
(* Properties *)

(* Every variable keeps its type. *)
WebTypeOK ==
    /\ accounts \subseteq Users
    /\ server   \in {"up", "down"}
    /\ auth     \in [Browsers -> [token : Users \cup {Nobody}, user : Users \cup {Nobody}]]
    /\ {made, turns} \subseteq Nat
    /\ \A b \in Browsers : \A k \in calls[b] :
          k.call.what \in {"me", "history"} /\ k.call.as \in Users /\ k.n \in 0 .. MaxLoads + MaxTurns
    /\ link     \in [Conns -> {"unused", "opening", "open", "lost", "closed"}]
    /\ self     \in [Conns -> Users \cup {Nobody}]
    /\ \A c \in Conns : seen[c] \in 0 .. Len(log[c])
    /\ \A b \in Browsers : socket[b] \in SocketsOf(b) \cup {Nobody}
    /\ thread   \in [Browsers -> [Users -> Seq(1 .. Len(stored))]]
    /\ activeDM \in [Browsers -> Users \cup {Nobody}]
    /\ been     \in [Browsers -> SUBSET Users]
    /\ mixed    \subseteq Browsers

Shown(b, k, id) == \E i \in DOMAIN thread[b][k] : thread[b][k][i] = id

(* The events that brought a message to a thread. *)
Brought(b, k, id) ==
    {e \in SocketsOf(b) \X (1 .. MaxPosts * 2) :
        LET c == e[1] IN
        /\ self[c] # Nobody /\ e[2] <= seen[c]
        /\ log[c][e[2]] = Message(id) /\ OtherThan(self[c], id) = k}

(* A thread holds messages between its user and somebody who was logged in  *)
(* on this page: not those of others, nor under the wrong user, though the  *)
(* sockets of earlier logins stay open and late answers come in. It fails   *)
(* only if hydrate answers for an earlier login than the one it meets.      *)
ThreadsAreOwn ==
    \A b \in Browsers \ mixed : \A k \in Users : \A i \in DOMAIN thread[b][k] :
        \E u \in been[b] : Parties(thread[b][k][i]) = {u, k}

(* What a socket brought is shown until the thread is replaced by an answer  *)
(* of DMHistory that another login asked for, that was computed before the   *)
(* message was stored, or that is full of later ones.                        *)
NothingHidden ==
    \A b \in Browsers, k \in Users, id \in DOMAIN stored : Brought(b, k, id) # {} =>
        \/ Shown(b, k, id)
        \/ LET a == applied[b][k] IN
           /\ a # Pending
           /\ \/ {a[1], k} # Parties(id)
              \/ id > a[3]
              \/ Len(a[2]) = HistoryLimit /\ id < a[2][1]

(* A message is shown as often as sockets brought it, and once more if the   *)
(* answer that replaced the thread has it.                                   *)
CopiesAreBrought ==
    \A b \in Browsers, k \in Users, id \in DOMAIN stored :
        Cardinality({i \in DOMAIN thread[b][k] : thread[b][k][i] = id})
        <= Cardinality(Brought(b, k, id))
           + (IF applied[b][k] # Pending /\ \E i \in DOMAIN applied[b][k][2] :
                    applied[b][k][2][i] = id
              THEN 1 ELSE 0)

(* What is typed goes out under the user the page shows, although logout    *)
(* leaves the socket open.                                                  *)
SpeaksAsSelf ==
    \A b \in Browsers \ mixed :
        OnPage(b) /\ auth[b].user # Nobody /\ socket[b] # Nobody
        => UserOf[socket[b]] = auth[b].user
=============================================================================
