------------------------------ MODULE ChatLocks ------------------------------
(***************************************************************************)
(* The locks of the TCP core one by one: Server.mu, the mu of every Room    *)
(* and the mu of every Client, all of them a sync.RWMutex. ChatServer takes *)
(* a section under Server.mu as one step; here the calls inside it matter.  *)
(* What an operation does with the locks is data: the sequence of           *)
(* instructions its goroutine has still to run.                             *)
(*                                                                         *)
(* A room is its key: that it may be deleted and made anew changes no lock  *)
(* that anybody holds. Looks at one lock that directly follow each other    *)
(* are one. Send looks at Client.mu when a buffer is full; no lock is held  *)
(* there, and the look is left out.                                         *)
(***************************************************************************)
EXTENDS Naturals, Sequences, FiniteSets, SequencesExt

CONSTANTS
    Clients,
    Rooms,
    Lobby,
    Nowhere,      \* the room key ""
    Nobody,       \* no goroutine
    Commands,     \* the commands readers are given in this instance
    MaxCommands   \* bound: commands of all clients together

(* A client's reader runs its commands; its closer stands for whichever of  *)
(* its goroutines runs shutdown.                                            *)
Threads == Clients \X {"reader", "closer"}

Mu    == <<"server">>
Of(c) == <<"client", c>>
In(r) == <<"room", r>>
Locks == {Mu} \cup {Of(c) : c \in Clients} \cup {In(r) : r \in Rooms}

VARIABLES
    online,   \* Server.clients
    fresh,    \* the clients that have not connected
    todo,     \* the instructions a goroutine has still to run
    writer,   \* who has called Lock and not yet Unlock
    readers,  \* who holds a lock for reading
    waiting,  \* whose RLock came after a Lock and waits for its Unlock
    members,  \* Room.members
    place,    \* Client.roomKey
    commands  \* commands so far (bounded by MaxCommands)

vars == <<online, fresh, todo, writer, readers, waiting, members, place, commands>>

Init ==
    /\ online   = {}
    /\ fresh    = Clients
    /\ todo     = [t \in Threads |-> <<>>]
    /\ writer   = [l \in Locks |-> Nobody]
    /\ readers  = [l \in Locks |-> {}]
    /\ waiting  = [l \in Locks |-> {}]
    /\ members  = [r \in Rooms |-> {}]
    /\ place    = [c \in Clients |-> Nowhere]
    /\ commands = 0

----------------------------------------------------------------------------
(* What each operation does with the locks.                                 *)

Reading(l, body) == <<<<"rlock", l>>>> \o body \o <<<<"runlock", l>>>>
Writing(l, body) == <<<<"lock", l>>>> \o body \o <<<<"unlock", l>>>>
Look(l)          == Reading(l, <<>>)
Call(what, x)    == <<<<what, x>>>>

RoomForClient(c) == Look(Of(c)) \o Look(Mu)

AddClient(c) == Writing(Mu, Look(Of(c)) \o Call("register", c)) \o Look(Of(c))

(* AddMember, then setRoom, which reads the room's name under Client.mu.    *)
MoveClientRoom(c, r) ==
    Writing(Mu,
        Look(Of(c))
        \o (IF place[c] \in {r, Nowhere} THEN <<>>
            ELSE Writing(In(place[c]), Call("drop", <<c, place[c]>>)))
        \o (IF place[c] = r THEN <<>>
            ELSE Writing(In(r), Call("add", <<c, r>>))
                 \o Writing(Of(c), Look(In(r)) \o Call("place", <<c, r>>))))

JoinRoom(c, r) ==
    MoveClientRoom(c, r) \o Look(In(r))
    \o (IF place[c] = r THEN <<>> ELSE Look(Of(c)) \o Look(In(r)))
    \o (IF place[c] \in {r, Nowhere} THEN <<>>
        ELSE Look(Of(c)) \o Look(In(place[c])) \o Call("cleanup", place[c]))

(* The commands of a client in a room; the last look is the broadcast's     *)
(* snapshot or the room's name in the reply.                                *)
Script(c, command) ==
    LET r == In(place[c]) IN
    CASE command = "nick"    -> Look(Of(c)) \o Writing(Mu, <<>>) \o Writing(Of(c), <<>>)
                                \o RoomForClient(c) \o Look(r)
      [] command = "who"     -> RoomForClient(c) \o Reading(r, Call("names", place[c]))
                                \o Look(r)
      [] command = "who all" -> Reading(Mu, Call("everybody", c))
      [] command = "rooms"   -> Reading(Mu, Call("everywhere", c))
      [] command = "post"    -> RoomForClient(c) \o Look(Of(c)) \o Writing(r, <<>>) \o Look(r)
      [] command = "topic"   -> RoomForClient(c) \o Writing(r, <<>>) \o Look(Of(c)) \o Look(r)
      [] command = "history" -> RoomForClient(c) \o Look(r)
      [] command = "whoami"  -> Look(Of(c))

(* directMessage finds the addressee and reads both names. *)
DirectMessage(c, d) == Look(Mu) \o Look(Of(c)) \o Look(Of(d))

(* removeClient reads the room's key when it holds Server.mu. *)
RemoveClient(c) == <<<<"lock", Mu>>>> \o Look(Of(c)) \o Call("remove", c)

(* Maps are ranged over in any order. *)
LookAtEach(ls) ==
    {FlattenSeq([i \in DOMAIN s |-> Look(s[i])]) : s \in SetToSeqs(ls)}

(* What a call whose locks depend on the state at that moment turns into.   *)
Calls(what, x) ==
    CASE what = "names"      -> LookAtEach({Of(m) : m \in members[x]})
      [] what = "everybody"  -> LookAtEach({Of(m) : m \in online})
      [] what = "everywhere" -> LookAtEach({In(r) : r \in Rooms})
      [] what = "cleanup"    -> {IF x # Lobby /\ members[x] = {}
                                 THEN Writing(Mu, Look(In(x))) ELSE <<>>}
      [] what = "remove"     -> {Call("unregister", x)
                                 \o (IF place[x] = Nowhere THEN <<<<"unlock", Mu>>>>
                                     ELSE Writing(In(place[x]), Call("drop", <<x, place[x]>>))
                                          \o Look(In(place[x])) \o <<<<"unlock", Mu>>>>
                                          \o Look(Of(x)) \o Look(In(place[x])))}

----------------------------------------------------------------------------
(* A goroutine starts an operation.                                         *)

Start(t, script) == todo[t] = <<>> /\ todo' = [todo EXCEPT ![t] = script]

Connect(c) ==
    /\ c \in fresh
    /\ fresh' = fresh \ {c}
    /\ Start(<<c, "reader">>, AddClient(c) \o JoinRoom(c, Lobby))
    /\ UNCHANGED <<online, writer, readers, waiting, members, place, commands>>

Command(c) ==
    /\ c \in online /\ place[c] # Nowhere
    /\ commands < MaxCommands
    /\ commands' = commands + 1
    /\ \/ \E command \in Commands \ {"join", "msg", "close"} :
             Start(<<c, "reader">>, Script(c, command))
       \/ "join" \in Commands /\ \E r \in Rooms : Start(<<c, "reader">>, JoinRoom(c, r))
       \/ "msg" \in Commands /\ \E d \in online : Start(<<c, "reader">>, DirectMessage(c, d))
    /\ UNCHANGED <<online, fresh, writer, readers, waiting, members, place>>

Shutdown(c) ==
    /\ "close" \in Commands
    /\ c \in online
    /\ Start(<<c, "closer">>, RemoveClient(c))
    /\ UNCHANGED <<online, fresh, writer, readers, waiting, members, place, commands>>

----------------------------------------------------------------------------
(* sync.RWMutex. A Lock announces itself, which stops later readers, waits  *)
(* for the earlier ones, and its Unlock lets in all who wait to read.       *)

Running(t, what) == todo[t] # <<>> /\ Head(todo[t])[1] = what
Arg(t)           == Head(todo[t])[2]
Proceed(ts)      == todo' = [t \in Threads |-> IF t \in ts THEN Tail(todo[t]) ELSE todo[t]]

RLock(t) ==
    /\ Running(t, "rlock")
    /\ t \notin waiting[Arg(t)]
    /\ IF writer[Arg(t)] = Nobody
       THEN readers' = [readers EXCEPT ![Arg(t)] = @ \cup {t}] /\ Proceed({t})
            /\ UNCHANGED waiting
       ELSE waiting' = [waiting EXCEPT ![Arg(t)] = @ \cup {t}] /\ UNCHANGED <<readers, todo>>
    /\ UNCHANGED <<online, fresh, writer, members, place, commands>>

RUnlock(t) ==
    /\ Running(t, "runlock")
    /\ readers' = [readers EXCEPT ![Arg(t)] = @ \ {t}]
    /\ Proceed({t})
    /\ UNCHANGED <<online, fresh, writer, waiting, members, place, commands>>

Announce(t) ==
    /\ Running(t, "lock")
    /\ writer[Arg(t)] = Nobody
    /\ writer' = [writer EXCEPT ![Arg(t)] = t]
    /\ UNCHANGED <<online, fresh, todo, readers, waiting, members, place, commands>>

Lock(t) ==
    /\ Running(t, "lock")
    /\ writer[Arg(t)] = t /\ readers[Arg(t)] = {}
    /\ Proceed({t})
    /\ UNCHANGED <<online, fresh, writer, readers, waiting, members, place, commands>>

Unlock(t) ==
    /\ Running(t, "unlock")
    /\ writer'  = [writer EXCEPT ![Arg(t)] = Nobody]
    /\ readers' = [readers EXCEPT ![Arg(t)] = waiting[Arg(t)]]
    /\ waiting' = [waiting EXCEPT ![Arg(t)] = {}]
    /\ Proceed({t} \cup waiting[Arg(t)])
    /\ UNCHANGED <<online, fresh, members, place, commands>>

(* The changes made under the locks. *)
Effect(t) ==
    /\ \E what \in {"register", "unregister", "add", "drop", "place"} : Running(t, what)
    /\ LET what == Head(todo[t])[1]
           x    == Arg(t)
       IN /\ online'  = CASE what = "register"   -> online \cup {x}
                          [] what = "unregister" -> online \ {x}
                          [] OTHER               -> online
          /\ members' = CASE what = "add"  -> [members EXCEPT ![x[2]] = @ \cup {x[1]}]
                          [] what = "drop" -> [members EXCEPT ![x[2]] = @ \ {x[1]}]
                          [] OTHER         -> members
          /\ place'   = IF what = "place" THEN [place EXCEPT ![x[1]] = x[2]] ELSE place
    /\ Proceed({t})
    /\ UNCHANGED <<fresh, writer, readers, waiting, commands>>

Expand(t) ==
    /\ \E what \in {"names", "everybody", "everywhere", "cleanup", "remove"} : Running(t, what)
    /\ \E body \in Calls(Head(todo[t])[1], Arg(t)) :
          todo' = [todo EXCEPT ![t] = body \o Tail(@)]
    /\ UNCHANGED <<online, fresh, writer, readers, waiting, members, place, commands>>

Step(t) ==
    \/ RLock(t) \/ RUnlock(t) \/ Announce(t) \/ Lock(t) \/ Unlock(t)
    \/ Effect(t) \/ Expand(t)

Next ==
    \/ \E c \in Clients : Connect(c) \/ Command(c) \/ Shutdown(c)
    \/ \E t \in Threads : Step(t)

(* Every goroutine that can run does; nobody has to connect or type.        *)
FairSpec == Init /\ [][Next]_vars /\ \A t \in Threads : WF_vars(Step(t))

----------------------------------------------------------------------------
(* server.go:311: "cmdWho 根据参数返回当前房间或全部在线用户": it returns the  *)
(* users of the room or of the server. Whoever asks is answered: what is    *)
(* said of cmdWho can be true only if its goroutine comes back from every   *)
(* lock.                                                                    *)
WhoIsAnswered ==
    \A c \in Clients : Running(<<c, "reader">>, "names") ~> todo[<<c, "reader">>] = <<>>
=============================================================================
