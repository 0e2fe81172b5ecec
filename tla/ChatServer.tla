----------------------------- MODULE ChatServer -----------------------------
(***************************************************************************)
(* The registry of the TCP chat core (internal/chat/server.go): the maps    *)
(* Server.rooms, Server.clients and Server.names, the members of every Room *)
(* object, and each Client's own name and room key.                         *)
(*                                                                         *)
(* A client's reader goroutine runs its commands one after the other. Its   *)
(* shutdown may be started by that goroutine (/quit, end of input) or, at   *)
(* any moment, by its writer (a failed write) or its idle watcher. A section*)
(* under s.mu is one step; what a handler does outside s.mu (setName, the   *)
(* first IsEmpty of cleanupRoom) is a step of its own.                      *)
(*                                                                         *)
(* A Room object is its position in "made", the sequence of the keys of all *)
(* rooms ever created: the map s.rooms may give one key several objects in  *)
(* the course of time.                                                      *)
(***************************************************************************)
EXTENDS Naturals, Sequences, FiniteSets

CONSTANTS
    Clients,
    Names,        \* display names, compared without case
    Guest,        \* the name "guest-0001" a client is given on connecting
    Keys,         \* normalized room names
    Lobby,        \* the key of Config.LobbyName
    NoClient,     \* an absent entry of s.names
    NoKey,        \* the roomKey "" of a client that is in no room yet
    Unreliable,   \* bound: clients whose writes fail or who fall idle
    MaxRooms,     \* bound: Room objects
    MaxCommands   \* bound: commands of all clients together

ASSUME ChatAssumption ==
    /\ Guest \in [Clients -> Names]
    /\ \A c, d \in Clients : Guest[c] = Guest[d] => c = d
    /\ Lobby \in Keys
    /\ NoClient \notin Clients
    /\ NoKey \notin Keys
    /\ Unreliable \subseteq Clients
    /\ MaxRooms \in Nat \ {0}
    /\ MaxCommands \in Nat

VARIABLES
    made,      \* the keys of the Room objects created so far
    attached,  \* Server.rooms: the object of each key, 0 for none
    members,   \* Room.members of each object
    clients,   \* Server.clients
    names,     \* Server.names
    nick,      \* Client.name
    roomKey,   \* Client.roomKey
    session,   \* Client.once: "open", "closing" (its channels and connection
               \* closed) or "closed" (removeClient has run)
    pc,        \* where the reader goroutine stands
    left,      \* the room joinRoom has to clean up, 0 for none
    newNick,   \* the name cmdNick has entered and not yet set
    commands,  \* commands so far
    torn       \* history: clients removed in the middle of a command, or that
               \* handled another command after their removal

roomVars   == <<made, attached, members>>
clientVars == <<nick, roomKey>>
localVars  == <<left, newNick>>
vars == <<made, attached, members, clients, names, nick, roomKey, session, pc, left,
          newNick, commands, torn>>

Objects   == 1 .. MaxRooms
PCs       == {"absent", "rejected", "lobby", "reading", "leaving", "cleanup", "rename",
              "quitting", "ending", "ended"}

Init ==
    /\ made     = <<>>
    /\ attached = [k \in Keys |-> 0]
    /\ members  = [o \in Objects |-> {}]
    /\ clients  = {}
    /\ names    = [n \in Names |-> NoClient]
    /\ nick     = Guest
    /\ roomKey  = [c \in Clients |-> NoKey]
    /\ session  = [c \in Clients |-> "open"]
    /\ pc       = [c \in Clients |-> "absent"]
    /\ left     = [c \in Clients |-> 0]
    /\ newNick  = Guest
    /\ commands = 0
    /\ torn     = {}

Goto(c, from, to) == pc[c] = from /\ pc' = [pc EXCEPT ![c] = to]

(* The reader takes the next line of its input. After the connection is     *)
(* closed there may still be lines in the scanner's buffer.                 *)
Command(c) ==
    /\ pc[c] = "reading"
    /\ commands < MaxCommands
    /\ commands' = commands + 1
    /\ torn' = IF session[c] = "closed" THEN torn \cup {c} ELSE torn

----------------------------------------------------------------------------
(* handleConn and addClient: a guest name another client has taken with     *)
(* /nick turns the connection away.                                         *)
Connect(c) ==
    /\ IF names[Guest[c]] = NoClient
       THEN /\ Goto(c, "absent", "lobby")
            /\ clients' = clients \cup {c}
            /\ names' = [names EXCEPT ![Guest[c]] = c]
       ELSE Goto(c, "absent", "rejected") /\ UNCHANGED <<clients, names>>
    /\ UNCHANGED <<roomVars, clientVars, localVars, session, commands, torn>>

(* Fault: the client stays a member of the room it comes from. *)
MoveClientRoomStays(c, k) ==
    LET fresh == attached[k] = 0
        room  == IF fresh THEN Len(made) + 1 ELSE attached[k]
        prev  == IF roomKey[c] = NoKey THEN 0 ELSE attached[roomKey[c]]
    IN /\ fresh => Len(made) < MaxRooms
       /\ made' = IF fresh THEN Append(made, k) ELSE made
       /\ attached' = [attached EXCEPT ![k] = room]
       /\ members' = [members EXCEPT ![room] = @ \cup {c}]
       /\ roomKey' = [roomKey EXCEPT ![c] = k]
       /\ left' = [left EXCEPT ![c] = prev]
       /\ pc' = [pc EXCEPT ![c] = IF prev = 0 THEN "reading" ELSE "leaving"]

(* moveClientRoom, under s.mu: find or create the room, leave the one the   *)
(* old key stands for, enter the new one. The room is created even when     *)
(* the client is "already" in a room of that key.                           *)
MoveClientRoom(c, k) ==
    LET fresh == attached[k] = 0
        room  == IF fresh THEN Len(made) + 1 ELSE attached[k]
        prev  == IF roomKey[c] = NoKey THEN 0 ELSE attached[roomKey[c]]
    IN /\ fresh => Len(made) < MaxRooms
       /\ made' = IF fresh THEN Append(made, k) ELSE made
       /\ attached' = [attached EXCEPT ![k] = room]
       /\ IF roomKey[c] = k
          THEN /\ pc' = [pc EXCEPT ![c] = "reading"]
               /\ UNCHANGED <<members, roomKey, left>>
          ELSE /\ members' = [o \in Objects |-> IF o = room THEN members[o] \cup {c}
                                               ELSE IF o = prev THEN members[o] \ {c}
                                               ELSE members[o]]
               /\ roomKey' = [roomKey EXCEPT ![c] = k]
               /\ left' = [left EXCEPT ![c] = prev]
               /\ pc' = [pc EXCEPT ![c] = IF prev = 0 THEN "reading" ELSE "leaving"]

(* Client.start puts the newcomer into the lobby. *)
JoinLobby(c) ==
    /\ pc[c] = "lobby"
    /\ MoveClientRoom(c, Lobby)
    /\ torn' = IF session[c] = "closed" THEN torn \cup {c} ELSE torn
    /\ UNCHANGED <<clients, names, nick, session, newNick, commands>>

(* /join and /leave. *)
JoinRoom(c, k) ==
    /\ Command(c)
    /\ MoveClientRoom(c, k)
    /\ UNCHANGED <<clients, names, nick, session, newNick>>

(* Fault: the lobby is cleaned up like any room. *)
CleanupCheckAny(c) ==
    /\ Goto(c, "leaving", IF members[left[c]] = {} THEN "cleanup" ELSE "reading")
    /\ UNCHANGED <<roomVars, clientVars, localVars, clients, names, session, commands, torn>>

(* cleanupRoom of the room just left: a look without the lock ... *)
CleanupCheck(c) ==
    /\ Goto(c, "leaving", IF made[left[c]] # Lobby /\ members[left[c]] = {}
                          THEN "cleanup" ELSE "reading")
    /\ UNCHANGED <<roomVars, clientVars, localVars, clients, names, session, commands, torn>>

(* ... and a second look under it, which deletes by key. *)
CleanupRoom(c) ==
    /\ Goto(c, "cleanup", "reading")
    /\ attached' = IF members[left[c]] = {}
                   THEN [attached EXCEPT ![made[left[c]]] = 0] ELSE attached
    /\ UNCHANGED <<made, members, clientVars, localVars, clients, names, session, commands,
                   torn>>

(* Faults of cmdNick: the map is given the name for the client, the old name *)
(* is kept, a name in use is taken over.                                     *)
NickStoresName(c, n) ==
    /\ Command(c)
    /\ names[n] = NoClient
    /\ names' = [names EXCEPT ![nick[c]] = NoClient, ![n] = n]
    /\ newNick' = [newNick EXCEPT ![c] = n]
    /\ pc' = [pc EXCEPT ![c] = "rename"]
    /\ UNCHANGED <<roomVars, clientVars, clients, session, left>>

NickKeepsOld(c, n) ==
    /\ Command(c)
    /\ names[n] = NoClient
    /\ names' = [names EXCEPT ![n] = c]
    /\ newNick' = [newNick EXCEPT ![c] = n]
    /\ pc' = [pc EXCEPT ![c] = "rename"]
    /\ UNCHANGED <<roomVars, clientVars, clients, session, left>>

NickUnchecked(c, n) ==
    /\ Command(c)
    /\ names' = [names EXCEPT ![nick[c]] = NoClient, ![n] = c]
    /\ newNick' = [newNick EXCEPT ![c] = n]
    /\ pc' = [pc EXCEPT ![c] = "rename"]
    /\ UNCHANGED <<roomVars, clientVars, clients, session, left>>

(* cmdNick: the check and the exchange of names under s.mu, then setName. *)
Nick(c, n) ==
    /\ Command(c)
    /\ IF names[n] # NoClient
       THEN UNCHANGED <<pc, names, newNick>>
       ELSE /\ names' = [names EXCEPT ![nick[c]] = NoClient, ![n] = c]
            /\ newNick' = [newNick EXCEPT ![c] = n]
            /\ pc' = [pc EXCEPT ![c] = "rename"]
    /\ UNCHANGED <<roomVars, clientVars, clients, session, left>>

SetName(c) ==
    /\ Goto(c, "rename", "reading")
    /\ nick' = [nick EXCEPT ![c] = newNick[c]]
    /\ UNCHANGED <<roomVars, roomKey, localVars, clients, names, session, commands, torn>>

(* All other commands, and messages, leave the registry as it is. *)
OtherCommand(c) ==
    /\ Command(c)
    /\ UNCHANGED <<roomVars, clientVars, localVars, clients, names, session, pc>>

----------------------------------------------------------------------------
(* Client.shutdown runs once; a second caller waits for the first. *)
Shutdown(c) == session' = [session EXCEPT ![c] = IF @ = "open" THEN "closing" ELSE @]

(* /quit: after the shutdown the reader looks at its input again. *)
Quit(c) ==
    /\ Command(c)
    /\ pc' = [pc EXCEPT ![c] = "quitting"]
    /\ Shutdown(c)
    /\ UNCHANGED <<roomVars, clientVars, localVars, clients, names>>

(* Fault: /quit goes on while another goroutine is still shutting down. *)
QuitGoesOn(c) ==
    /\ Goto(c, "quitting", "reading")
    /\ UNCHANGED <<roomVars, clientVars, localVars, clients, names, session, commands, torn>>

QuitDone(c) ==
    /\ session[c] = "closed"
    /\ Goto(c, "quitting", "reading")
    /\ UNCHANGED <<roomVars, clientVars, localVars, clients, names, session, commands, torn>>

(* The input ends; the deferred shutdown is the goroutine's last act. *)
EndOfInput(c) ==
    /\ Goto(c, "reading", "ending")
    /\ Shutdown(c)
    /\ UNCHANGED <<roomVars, clientVars, localVars, clients, names, commands, torn>>

Ended(c) ==
    /\ session[c] = "closed"
    /\ Goto(c, "ending", "ended")
    /\ UNCHANGED <<roomVars, clientVars, localVars, clients, names, session, commands, torn>>

(* The writer's write failed, or the idle timer fired. *)
Fail(c) ==
    /\ c \in Unreliable \cap clients
    /\ session[c] = "open"
    /\ Shutdown(c)
    /\ UNCHANGED <<roomVars, clientVars, localVars, clients, names, pc, commands, torn>>

(* Fault: removeClient frees the name the client connected with. *)
RemoveClientByGuest(c) ==
    LET room  == IF roomKey[c] = NoKey THEN 0 ELSE attached[roomKey[c]]
        empty == room # 0 /\ members[room] \subseteq {c} /\ made[room] # Lobby
    IN /\ session[c] = "closing"
       /\ session' = [session EXCEPT ![c] = "closed"]
       /\ clients' = clients \ {c}
       /\ names' = [names EXCEPT ![Guest[c]] = NoClient]
       /\ members' = [o \in Objects |-> IF o = room THEN members[o] \ {c} ELSE members[o]]
       /\ attached' = IF empty THEN [attached EXCEPT ![roomKey[c]] = 0] ELSE attached
       /\ torn' = IF pc[c] \in {"quitting", "ending", "reading"} THEN torn ELSE torn \cup {c}
       /\ UNCHANGED <<made, clientVars, localVars, pc, commands>>

(* removeClient, under s.mu: whoever holds the client's current name and    *)
(* room key in the maps is what is removed.                                 *)
RemoveClient(c) ==
    LET room  == IF roomKey[c] = NoKey THEN 0 ELSE attached[roomKey[c]]
        empty == room # 0 /\ members[room] \subseteq {c} /\ made[room] # Lobby
    IN /\ session[c] = "closing"
       /\ session' = [session EXCEPT ![c] = "closed"]
       /\ clients' = clients \ {c}
       /\ names' = [names EXCEPT ![nick[c]] = NoClient]
       /\ members' = [o \in Objects |-> IF o = room THEN members[o] \ {c} ELSE members[o]]
       /\ attached' = IF empty THEN [attached EXCEPT ![roomKey[c]] = 0] ELSE attached
       /\ torn' = IF pc[c] \in {"quitting", "ending", "reading"} THEN torn ELSE torn \cup {c}
       /\ UNCHANGED <<made, clientVars, localVars, pc, commands>>

----------------------------------------------------------------------------
Reader(c) ==
    \/ Connect(c) \/ JoinLobby(c) \/ CleanupCheck(c) \/ CleanupRoom(c) \/ SetName(c)
    \/ QuitDone(c) \/ Ended(c)

Input(c) ==
    \/ \E k \in Keys : JoinRoom(c, k)
    \/ \E n \in Names : Nick(c, n)
    \/ OtherCommand(c) \/ Quit(c) \/ EndOfInput(c)

Next == \E c \in Clients : Reader(c) \/ Input(c) \/ Fail(c) \/ RemoveClient(c)

Spec == Init /\ [][Next]_vars

----------------------------------------------------------------------------
(* Properties *)

TypeOK ==
    /\ made     \in Seq(Keys)
    /\ Len(made) \in 0 .. MaxRooms
    /\ attached \in [Keys -> 0 .. Len(made)]
    /\ members  \in [Objects -> SUBSET Clients]
    /\ clients  \in SUBSET Clients
    /\ names    \in [Names -> Clients \cup {NoClient}]
    /\ nick     \in [Clients -> Names]
    /\ roomKey  \in [Clients -> Keys \cup {NoKey}]
    /\ session  \in [Clients -> {"open", "closing", "closed"}]
    /\ pc       \in [Clients -> PCs]
    /\ left     \in [Clients -> 0 .. Len(made)]
    /\ newNick  \in [Clients -> Names]
    /\ commands \in 0 .. MaxCommands
    /\ torn     \in SUBSET Clients

(* A room of s.rooms is filed under its own key, and its members are clients *)
(* whose own room key is that one: so nobody is a member of two of them.     *)
OneRoom ==
    \A k \in Keys : attached[k] # 0 =>
        /\ made[attached[k]] = k
        /\ \A c \in members[attached[k]] : roomKey[c] = k

(* The lobby is created once and stays. *)
LobbyStays ==
    /\ \A i, j \in 1 .. Len(made) : (made[i] = Lobby /\ made[j] = Lobby) => i = j
    /\ (\E i \in 1 .. Len(made) : made[i] = Lobby) => attached[Lobby] # 0

(* /msg reaches who it names: an entry of s.names leads to a client of that  *)
(* name, or one about to be called so.                                       *)
NameLeadsToOwner ==
    \A n \in Names, c \in clients :
        names[n] = c => nick[c] = n \/ (pc[c] = "rename" /\ newNick[c] = n)

(* As long as no session was torn down under its reader, every client is the *)
(* holder of its own name; so no two have the same.                          *)
HoldsOwnName ==
    torn = {} => \A c \in clients :
        names[IF pc[c] = "rename" THEN newNick[c] ELSE nick[c]] = c

InMaps(c) ==
    \/ c \in clients
    \/ \E n \in Names : names[n] = c
    \/ \E k \in Keys : attached[k] # 0 /\ c \in members[attached[k]]

(* A newcomer who is turned away, and a client whose session was not torn    *)
(* down under its reader, leaves nothing.                                    *)
CleanExit ==
    \A c \in Clients \ torn : session[c] = "closed" \/ pc[c] = "rejected" => ~InMaps(c)

(* The session of a client, as this module sees it. *)
ReaderOf(c) == IF pc[c] \in {"quitting", "ending", "ended"} THEN pc[c] ELSE "reading"

One(c) == INSTANCE Session WITH phase <- session[c], reader <- ReaderOf(c)

(* Whatever the registry does, every client's session is the one ChatClient  *)
(* implements.                                                               *)
SessionsAreSo ==
    /\ \A c \in Clients : One(c)!Init
    /\ [][\A c \in Clients : [One(c)!Next]_(One(c)!vars)]_vars

(* server.go:97 "removeClient 在客户端断开后做清理": after the disconnection    *)
(* the server keeps nothing of the client.                                   *)
RemovedForGood ==
    \A c \in Clients : pc[c] = "ended" => ~InMaps(c)

(* server.go:190 "cleanupRoom 在房间为空且非大厅时删除它": a room taken out of  *)
(* s.rooms is empty.                                                         *)
OnlyEmptyRoomsGo ==
    [][\A k \in Keys : (attached[k] # 0 /\ attached'[k] = 0) => members'[attached[k]] = {}]_vars
=============================================================================
