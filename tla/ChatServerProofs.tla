-------------------------- MODULE ChatServerProofs --------------------------
(***************************************************************************)
(* Theorems about the registry of the chat core for every set of clients,  *)
(* names and rooms, and any number of commands.                            *)
(***************************************************************************)
EXTENDS ChatServer, TLAPS

(* TypeOK, and the room a client is about to clean up is one that was made. *)
TypeInv ==
    /\ TypeOK
    /\ \A c \in Clients : pc[c] \in {"leaving", "cleanup"} => left[c] \in 1 .. Len(made)

LEMMA TypeInit == Init => TypeInv
BY ChatAssumption DEF Init, TypeInv, TypeOK, PCs

LEMMA CommandType ==
    ASSUME TypeOK, NEW c \in Clients, Command(c)
    PROVE  commands' \in 0 .. MaxCommands /\ torn' \in SUBSET Clients
BY ChatAssumption DEF Command, TypeOK

LEMMA MoveType ==
    ASSUME TypeInv, NEW c \in Clients, NEW k \in Keys, MoveClientRoom(c, k)
    PROVE  /\ made' \in Seq(Keys) /\ Len(made') \in Len(made) .. MaxRooms
           /\ attached' \in [Keys -> 0 .. Len(made')]
           /\ members' \in [Objects -> SUBSET Clients]
           /\ roomKey' \in [Clients -> Keys \cup {NoKey}]
           /\ left' \in [Clients -> 0 .. Len(made')]
           /\ pc' \in [Clients -> PCs]
           /\ \A d \in Clients : pc'[d] \in {"leaving", "cleanup"} => left'[d] \in 1 .. Len(made')
<1> DEFINE fresh == attached[k] = 0
           room  == IF fresh THEN Len(made) + 1 ELSE attached[k]
           prev  == IF roomKey[c] = NoKey THEN 0 ELSE attached[roomKey[c]]
<1>1. /\ made \in Seq(Keys) /\ Len(made) \in 0 .. MaxRooms /\ MaxRooms \in Nat
      /\ attached \in [Keys -> 0 .. Len(made)]
  BY ChatAssumption DEF TypeInv, TypeOK
<1>2. /\ made' \in Seq(Keys)
      /\ Len(made') = IF fresh THEN Len(made) + 1 ELSE Len(made)
      /\ fresh => Len(made) < MaxRooms
  BY <1>1 DEF MoveClientRoom
<1>3. Len(made') \in Len(made) .. MaxRooms /\ room \in 1 .. Len(made')
  BY <1>1, <1>2
<1>4. prev \in 0 .. Len(made)
  BY <1>1 DEF TypeInv, TypeOK
<1>5. attached' = [attached EXCEPT ![k] = room]
  BY DEF MoveClientRoom
<1>6. attached' \in [Keys -> 0 .. Len(made')]
  BY <1>1, <1>3, <1>5
<1>7. CASE roomKey[c] = k
  <2>1. UNCHANGED <<members, roomKey, left>> /\ pc' = [pc EXCEPT ![c] = "reading"]
    BY <1>7 DEF MoveClientRoom
  <2>2. left' \in [Clients -> 0 .. Len(made')]
    BY <2>1, <1>1, <1>3 DEF TypeInv, TypeOK
  <2>3. pc' \in [Clients -> PCs]
    BY <2>1 DEF TypeInv, TypeOK, PCs
  <2>4. ASSUME NEW d \in Clients, pc'[d] \in {"leaving", "cleanup"}
        PROVE  left'[d] \in 1 .. Len(made')
    <3>1. pc[d] \in {"leaving", "cleanup"} /\ left'[d] = left[d]
      BY <2>1, <2>4 DEF TypeInv, TypeOK
    <3>2. left[d] \in 1 .. Len(made)
      BY <3>1 DEF TypeInv
    <3> QED BY <1>1, <1>3, <3>1, <3>2
  <2>5. members' \in [Objects -> SUBSET Clients] /\ roomKey' \in [Clients -> Keys \cup {NoKey}]
    BY <2>1 DEF TypeInv, TypeOK
  <2> QED
    BY <1>2, <1>3, <1>6, <2>2, <2>3, <2>4, <2>5
<1>8. CASE roomKey[c] # k
  <2>1. /\ roomKey' = [roomKey EXCEPT ![c] = k]
        /\ left' = [left EXCEPT ![c] = prev]
        /\ pc' = [pc EXCEPT ![c] = IF prev = 0 THEN "reading" ELSE "leaving"]
    BY <1>8 DEF MoveClientRoom
  <2>2. members' \in [Objects -> SUBSET Clients]
    <3>1. members' = [o \in Objects |-> IF o = room THEN members[o] \cup {c}
                                       ELSE IF o = prev THEN members[o] \ {c} ELSE members[o]]
      BY <1>8 DEF MoveClientRoom
    <3>2. members \in [Objects -> SUBSET Clients]
      BY DEF TypeInv, TypeOK
    <3> HIDE DEF room, prev
    <3> QED BY <3>1, <3>2
  <2>3. left' \in [Clients -> 0 .. Len(made')]
    BY <2>1, <1>1, <1>3, <1>4 DEF TypeInv, TypeOK
  <2>4. roomKey' \in [Clients -> Keys \cup {NoKey}]
    BY <2>1 DEF TypeInv, TypeOK
  <2> HIDE DEF prev
  <2>5. pc' \in [Clients -> PCs]
    BY <2>1 DEF TypeInv, TypeOK, PCs
  <2>6. ASSUME NEW d \in Clients, pc'[d] \in {"leaving", "cleanup"}
        PROVE  left'[d] \in 1 .. Len(made')
    <3>1. CASE d = c
      BY <1>1, <1>3, <1>4, <2>1, <2>6, <3>1 DEF TypeInv, TypeOK
    <3>2. CASE d # c
      <4>1. left'[d] = left[d] /\ left[d] \in 1 .. Len(made)
        BY <2>1, <2>6, <3>2 DEF TypeInv, TypeOK
      <4> QED BY <1>1, <1>3, <4>1
    <3> QED BY <3>1, <3>2
  <2> QED
    BY <1>2, <1>3, <1>6, <2>2, <2>3, <2>4, <2>5, <2>6
<1> QED BY <1>7, <1>8

LEMMA TypeMoving ==
    ASSUME TypeInv, NEW c \in Clients,
           JoinLobby(c) \/ \E k \in Keys : JoinRoom(c, k)
    PROVE  TypeInv'
<1>1. PICK k \in Keys : MoveClientRoom(c, k)
  BY ChatAssumption DEF JoinLobby, JoinRoom
<1>2. commands' \in 0 .. MaxCommands /\ torn' \in SUBSET Clients
  BY CommandType DEF JoinLobby, JoinRoom, TypeInv, TypeOK
<1>3. UNCHANGED <<clients, names, nick, session, newNick>>
  BY DEF JoinLobby, JoinRoom
<1>4. Len(made') \in 0 .. MaxRooms
  BY <1>1, MoveType DEF TypeInv, TypeOK
<1> QED
  BY <1>1, <1>2, <1>3, <1>4, MoveType DEF TypeInv, TypeOK

LEMMA TypeRemove == ASSUME TypeInv, NEW c \in Clients, RemoveClient(c) PROVE TypeInv'
<1>1. attached' \in [Keys -> 0 .. Len(made)]
  BY DEF RemoveClient, TypeInv, TypeOK
<1>2. members' \in [Objects -> SUBSET Clients]
  BY DEF RemoveClient, TypeInv, TypeOK
<1> QED
  BY <1>1, <1>2 DEF RemoveClient, TypeInv, TypeOK, clientVars, localVars

LEMMA TypeNick == ASSUME TypeInv, NEW c \in Clients, NEW n \in Names, Nick(c, n) PROVE TypeInv'
<1>1. UNCHANGED <<made, attached, members, nick, roomKey, clients, session, left>>
  BY DEF Nick, roomVars, clientVars
<1>2. commands' \in 0 .. MaxCommands /\ torn' \in SUBSET Clients
  BY CommandType DEF Nick, TypeInv
<1>3. UNCHANGED names \/ names' = [names EXCEPT ![nick[c]] = NoClient, ![n] = c]
  BY DEF Nick
<1>4. UNCHANGED newNick \/ newNick' = [newNick EXCEPT ![c] = n]
  BY DEF Nick
<1>5. UNCHANGED pc \/ pc' = [pc EXCEPT ![c] = "rename"]
  BY DEF Nick
<1>6. names' \in [Names -> Clients \cup {NoClient}]
  BY <1>3 DEF TypeInv, TypeOK
<1>7. newNick' \in [Clients -> Names]
  BY <1>4 DEF TypeInv, TypeOK
<1>8. /\ pc' \in [Clients -> PCs]
      /\ \A d \in Clients : pc'[d] \in {"leaving", "cleanup"} => pc[d] \in {"leaving", "cleanup"}
  BY <1>5 DEF TypeInv, TypeOK, PCs
<1> QED BY <1>1, <1>2, <1>6, <1>7, <1>8 DEF TypeInv, TypeOK

(* The steps that change no room. *)
LEMMA TypeOther ==
    ASSUME TypeInv, NEW c \in Clients,
           \/ Connect(c) \/ CleanupCheck(c) \/ CleanupRoom(c) \/ SetName(c) \/ QuitDone(c)
           \/ Ended(c) \/ Quit(c) \/ EndOfInput(c) \/ Fail(c)
           \/ OtherCommand(c)
    PROVE  TypeInv'
<1>1. CASE Connect(c)
  <2>1. /\ \/ pc' = [pc EXCEPT ![c] = "lobby"]
           \/ pc' = [pc EXCEPT ![c] = "rejected"]
        /\ UNCHANGED <<made, attached, members, nick, roomKey, left, newNick, session,
                       commands, torn>>
    BY <1>1 DEF Connect, Goto, roomVars, clientVars, localVars
  <2>2. clients' \in SUBSET Clients /\ names' \in [Names -> Clients \cup {NoClient}]
    <3>1. \/ UNCHANGED <<clients, names>>
          \/ clients' = clients \cup {c} /\ names' = [names EXCEPT ![Guest[c]] = c]
      BY <1>1 DEF Connect
    <3>2. clients \in SUBSET Clients /\ names \in [Names -> Clients \cup {NoClient}]
      BY DEF TypeInv, TypeOK
    <3> QED BY <3>1, <3>2
  <2> QED
    BY <2>1, <2>2 DEF TypeInv, TypeOK, PCs
<1>2. CASE CleanupCheck(c)
  BY <1>2 DEF CleanupCheck, Goto, TypeInv, TypeOK, PCs, roomVars, clientVars, localVars
<1>6. CASE CleanupRoom(c)
  <2>1. attached' \in [Keys -> 0 .. Len(made)]
    <3>1. attached' = attached \/ \E k : attached' = [attached EXCEPT ![k] = 0]
      BY <1>6 DEF CleanupRoom
    <3>2. 0 \in 0 .. Len(made) /\ attached \in [Keys -> 0 .. Len(made)]
      BY DEF TypeInv, TypeOK
    <3> QED BY <3>1, <3>2
  <2> QED
    BY <1>6, <2>1 DEF CleanupRoom, Goto, TypeInv, TypeOK, PCs, clientVars, localVars
<1>3. CASE SetName(c) \/ QuitDone(c) \/ Ended(c)
  <2>1. /\ UNCHANGED <<made, attached, members, roomKey, left, newNick, clients, names, session,
                        commands, torn>>
        /\ UNCHANGED nick \/ nick' = [nick EXCEPT ![c] = newNick[c]]
        /\ \E to \in {"reading", "ended"} : pc' = [pc EXCEPT ![c] = to]
    BY <1>3 DEF SetName, QuitDone, Ended, Goto, roomVars, clientVars, localVars
  <2>2. nick' \in [Clients -> Names]
    BY <2>1 DEF TypeInv, TypeOK
  <2>3. /\ pc' \in [Clients -> PCs]
        /\ \A d \in Clients : pc'[d] \in {"leaving", "cleanup"} => pc[d] \in {"leaving", "cleanup"}
    BY <2>1 DEF TypeInv, TypeOK, PCs
  <2> QED BY <2>1, <2>2, <2>3 DEF TypeInv, TypeOK
<1>4. CASE Quit(c)
  BY <1>4, CommandType DEF Quit, Shutdown, TypeInv, TypeOK, PCs, roomVars, clientVars, localVars
<1>5. CASE EndOfInput(c) \/ Fail(c)
  BY <1>5 DEF EndOfInput, Fail, Shutdown, Goto, TypeInv, TypeOK, PCs, roomVars, clientVars, localVars
<1>7. CASE OtherCommand(c)
  BY <1>7, CommandType DEF OtherCommand, TypeInv, TypeOK, roomVars, clientVars, localVars
<1> QED BY <1>1, <1>2, <1>3, <1>4, <1>5, <1>6, <1>7

LEMMA TypeStep == TypeInv /\ [Next]_vars => TypeInv'
<1> SUFFICES ASSUME TypeInv, [Next]_vars PROVE TypeInv'
  OBVIOUS
<1>1. CASE UNCHANGED vars
  BY <1>1 DEF TypeInv, TypeOK, vars
<1>2. ASSUME NEW c \in Clients, Reader(c) \/ Input(c) \/ Fail(c) \/ RemoveClient(c)
      PROVE  TypeInv'
  BY <1>2, TypeMoving, TypeRemove, TypeNick, TypeOther DEF Reader, Input
<1> QED BY <1>1, <1>2 DEF Next

LEMMA TypeCorrect == Spec => []TypeInv
BY TypeInit, TypeStep, PTL DEF Spec

(* The maps of Server, the rooms' members and the clients' fields keep their *)
(* types.                                                                    *)
THEOREM ChatTypeOK == Spec => []TypeOK
<1>1. TypeInv => TypeOK
  BY DEF TypeInv
<1> QED BY <1>1, TypeCorrect, PTL

-----------------------------------------------------------------------------
(* Rooms. *)

(* What OneRoom needs of the objects that are not in s.rooms: the ones still *)
(* to be created are empty. What LobbyStays needs: nobody cleans it up.      *)
RoomInv ==
    /\ OneRoom
    /\ \A o \in Objects : o > Len(made) => members[o] = {}
    /\ LobbyStays
    /\ \A c \in Clients : pc[c] = "cleanup" => made[left[c]] # Lobby

LEMMA RoomInit == Init => RoomInv
BY ChatAssumption DEF Init, RoomInv, OneRoom, LobbyStays

LEMMA RoomQuiet ==
    ASSUME RoomInv, UNCHANGED <<made, attached, members, roomKey, left>>,
           \A c \in Clients : pc'[c] = "cleanup" => pc[c] = "cleanup"
    PROVE  RoomInv'
BY DEF RoomInv, OneRoom, LobbyStays

(* Moving a client: the only step that creates a room or adds a member. *)
LEMMA RoomMove ==
    ASSUME TypeInv, RoomInv, NEW c \in Clients, NEW k \in Keys, MoveClientRoom(c, k)
    PROVE  RoomInv'
<1> DEFINE fresh == attached[k] = 0
           room  == IF fresh THEN Len(made) + 1 ELSE attached[k]
           prev  == IF roomKey[c] = NoKey THEN 0 ELSE attached[roomKey[c]]
<1>1. /\ made \in Seq(Keys) /\ Len(made) \in 0 .. MaxRooms /\ MaxRooms \in Nat
      /\ attached \in [Keys -> 0 .. Len(made)]
      /\ members \in [Objects -> SUBSET Clients]
      /\ roomKey \in [Clients -> Keys \cup {NoKey}]
  BY ChatAssumption DEF TypeInv, TypeOK
<1>2. /\ made' = IF fresh THEN Append(made, k) ELSE made
      /\ fresh => Len(made) < MaxRooms
      /\ attached' = [attached EXCEPT ![k] = room]
  BY DEF MoveClientRoom
<1>3. /\ Len(made') = IF fresh THEN Len(made) + 1 ELSE Len(made)
      /\ \A i \in 1 .. Len(made) : made'[i] = made[i]
      /\ fresh => made'[Len(made) + 1] = k
      /\ room \in Objects /\ room \in 1 .. Len(made')
  BY <1>1, <1>2 DEF Objects
<1>4. made'[room] = k /\ members[room] \in SUBSET Clients
  BY <1>1, <1>3 DEF RoomInv, OneRoom
<1>5. \A j \in Keys : attached'[j] # 0 => made'[attached'[j]] = j
  <2> SUFFICES ASSUME NEW j \in Keys, attached'[j] # 0 PROVE made'[attached'[j]] = j
    OBVIOUS
  <2>1. CASE j = k
    BY <1>1, <1>2, <1>4, <2>1
  <2>2. CASE j # k
    <3>1. attached'[j] = attached[j] /\ attached[j] \in 1 .. Len(made)
      BY <1>1, <1>2, <2>2
    <3> QED BY <1>3, <3>1 DEF RoomInv, OneRoom
  <2> QED BY <2>1, <2>2
<1>6. LobbyStays'
  <2>1. ASSUME NEW i \in 1 .. Len(made'), NEW j \in 1 .. Len(made'),
               made'[i] = Lobby, made'[j] = Lobby
        PROVE  i = j
    <3>1. i \in 1 .. Len(made) \/ (fresh /\ i = Len(made) + 1 /\ k = Lobby)
      BY <1>1, <1>3, <2>1
    <3>2. j \in 1 .. Len(made) \/ (fresh /\ j = Len(made) + 1 /\ k = Lobby)
      BY <1>1, <1>3, <2>1
    <3>3. (fresh /\ k = Lobby) => \A n \in 1 .. Len(made) : made[n] # Lobby
      BY DEF RoomInv, LobbyStays
    <3> QED BY <1>3, <2>1, <3>1, <3>2, <3>3 DEF RoomInv, LobbyStays
  <2>2. ASSUME NEW i \in 1 .. Len(made'), made'[i] = Lobby
        PROVE  attached'[Lobby] # 0
    <3>1. CASE k = Lobby
      BY <1>1, <1>2, <1>3, <3>1
    <3>2. CASE k # Lobby
      <4>1. i \in 1 .. Len(made) /\ made[i] = Lobby
        BY <1>1, <1>3, <2>2, <3>2
      <4> QED BY <1>1, <1>2, <3>2, <4>1, ChatAssumption DEF RoomInv, LobbyStays
    <3> QED BY <3>1, <3>2
  <2> QED BY <2>1, <2>2 DEF LobbyStays
<1>7. CASE roomKey[c] = k
  <2>1. /\ UNCHANGED <<members, roomKey, left>>
        /\ pc' = [pc EXCEPT ![c] = "reading"]
    BY <1>7 DEF MoveClientRoom
  <2>2. ASSUME NEW j \in Keys, attached'[j] # 0, NEW d \in members'[attached'[j]]
        PROVE  roomKey'[d] = j
    <3>1. CASE j = k /\ fresh
      <4>1. members[Len(made) + 1] = {}
        BY <1>1, <1>3, <3>1 DEF RoomInv
      <4> QED BY <1>1, <1>2, <2>1, <2>2, <3>1, <4>1
    <3>2. CASE j # k \/ ~fresh
      <4>1. attached'[j] = attached[j]
        BY <1>1, <1>2, <3>2
      <4> QED BY <2>1, <2>2, <4>1 DEF RoomInv, OneRoom
    <3> QED BY <3>1, <3>2
  <2>3. \A o \in Objects : o > Len(made') => members'[o] = {}
    BY <1>1, <1>3, <2>1 DEF RoomInv, Objects
  <2>4. \A d \in Clients : pc'[d] = "cleanup" => made'[left'[d]] # Lobby
    <3>1. \A d \in Clients : pc'[d] = "cleanup" =>
              pc[d] = "cleanup" /\ left'[d] = left[d] /\ left[d] \in 1 .. Len(made)
      BY <2>1 DEF TypeInv, TypeOK
    <3> QED BY <1>3, <3>1 DEF RoomInv
  <2> QED BY <1>5, <1>6, <2>2, <2>3, <2>4 DEF RoomInv, OneRoom
<1>8. CASE roomKey[c] # k
  <2>1. /\ roomKey' = [roomKey EXCEPT ![c] = k]
        /\ left' = [left EXCEPT ![c] = prev]
        /\ pc' = [pc EXCEPT ![c] = IF prev = 0 THEN "reading" ELSE "leaving"]
        /\ members' = [o \in Objects |-> IF o = room THEN members[o] \cup {c}
                                        ELSE IF o = prev THEN members[o] \ {c}
                                        ELSE members[o]]
    BY <1>8 DEF MoveClientRoom
  <2>2. ASSUME NEW j \in Keys, attached'[j] # 0, NEW d \in members'[attached'[j]]
        PROVE  roomKey'[d] = j
    <3>1. CASE j = k
      <4>1. attached'[j] = room
        BY <1>1, <1>2, <3>1
      <4>2. d = c \/ d \in members[room]
        BY <1>3, <2>1, <2>2, <4>1
      <4>3. d \in members[room] => ~fresh /\ d \in Clients
        BY <1>1, <1>3 DEF RoomInv, Objects
      <4>4. (d \in members[room] /\ ~fresh) => roomKey[d] = k
        BY DEF RoomInv, OneRoom
      <4> QED BY <1>1, <2>1, <3>1, <4>2, <4>3, <4>4
    <3>2. CASE j # k
      <4>1. attached'[j] = attached[j] /\ attached[j] \in 1 .. Len(made)
        BY <1>1, <1>2, <2>2, <3>2
      <4>2. attached[j] # room
        BY <1>1, <1>3, <1>4, <4>1, <3>2, <2>2, <1>5
      <4>3. d \in members[attached[j]] /\ (attached[j] = prev => d # c)
        BY <1>1, <2>1, <2>2, <4>1, <4>2 DEF Objects
      <4>4. roomKey[d] = j /\ d \in Clients
        BY <1>1, <4>1, <4>3 DEF RoomInv, OneRoom, Objects
      <4>5. d # c
        BY <1>1, <4>3, <4>4, ChatAssumption
      <4> QED BY <1>1, <2>1, <4>4, <4>5
    <3> QED BY <3>1, <3>2
  <2>3. \A o \in Objects : o > Len(made') => members'[o] = {}
    BY <1>1, <1>3, <2>1 DEF RoomInv, Objects
  <2>4. \A d \in Clients : pc'[d] = "cleanup" => made'[left'[d]] # Lobby
    <3>1. \A d \in Clients : pc'[d] = "cleanup" =>
              d # c /\ pc[d] = "cleanup" /\ left'[d] = left[d] /\ left[d] \in 1 .. Len(made)
      BY <2>1 DEF TypeInv, TypeOK
    <3> QED BY <1>3, <3>1 DEF RoomInv
  <2> QED BY <1>5, <1>6, <2>2, <2>3, <2>4 DEF RoomInv, OneRoom
<1> QED BY <1>7, <1>8

LEMMA RoomCleanup ==
    ASSUME TypeInv, RoomInv, NEW c \in Clients, CleanupCheck(c) \/ CleanupRoom(c)
    PROVE  RoomInv'
<1>1. CASE CleanupCheck(c)
  BY <1>1 DEF CleanupCheck, Goto, TypeInv, TypeOK, RoomInv, OneRoom, LobbyStays, roomVars,
     clientVars, localVars
<1>2. CASE CleanupRoom(c)
  <2>1. made[left[c]] # Lobby
    BY <1>2 DEF CleanupRoom, Goto, RoomInv
  <2>2. attached' = attached \/ attached' = [attached EXCEPT ![made[left[c]]] = 0]
    BY <1>2 DEF CleanupRoom
  <2>3. /\ UNCHANGED <<made, members, roomKey, left>>
        /\ \A d \in Clients : pc'[d] = "cleanup" => pc[d] = "cleanup"
    BY <1>2 DEF CleanupRoom, Goto, TypeInv, TypeOK, clientVars, localVars
  <2>4. attached'[Lobby] = attached[Lobby]
    BY <2>1, <2>2, ChatAssumption DEF TypeInv, TypeOK
  <2>5. \A k \in Keys : attached'[k] # 0 => attached'[k] = attached[k]
    BY <2>2 DEF TypeInv, TypeOK
  <2> QED BY <2>3, <2>4, <2>5 DEF RoomInv, OneRoom, LobbyStays
<1> QED BY <1>1, <1>2

LEMMA RoomRemove ==
    ASSUME TypeInv, RoomInv, NEW c \in Clients, RemoveClient(c)
    PROVE  RoomInv'
<1> DEFINE room == IF roomKey[c] = NoKey THEN 0 ELSE attached[roomKey[c]]
<1>1. /\ UNCHANGED <<made, roomKey, left, pc>>
      /\ members' = [o \in Objects |-> IF o = room THEN members[o] \ {c} ELSE members[o]]
      /\ \/ attached' = attached
         \/ /\ room # 0 /\ made[room] # Lobby
            /\ attached' = [attached EXCEPT ![roomKey[c]] = 0]
  BY DEF RemoveClient, clientVars, localVars
<1>2. room # 0 => roomKey[c] \in Keys /\ room = attached[roomKey[c]] /\ made[room] = roomKey[c]
  BY DEF TypeInv, TypeOK, RoomInv, OneRoom
<1>3. attached'[Lobby] = attached[Lobby]
  BY <1>1, <1>2, ChatAssumption DEF TypeInv, TypeOK
<1>4. \A k \in Keys : attached'[k] # 0 => attached'[k] = attached[k]
  BY <1>1 DEF TypeInv, TypeOK
<1>5. \A o \in Objects : members'[o] \subseteq members[o]
  BY <1>1
<1>6. \A k \in Keys : attached[k] # 0 => attached[k] \in Objects
  BY ChatAssumption DEF TypeInv, TypeOK, Objects
<1> QED BY <1>1, <1>3, <1>4, <1>5, <1>6 DEF RoomInv, OneRoom, LobbyStays

LEMMA RoomOther ==
    ASSUME TypeInv, RoomInv, NEW c \in Clients,
           \/ Connect(c) \/ SetName(c) \/ QuitDone(c) \/ Ended(c) \/ Quit(c)
           \/ EndOfInput(c) \/ Fail(c) \/ OtherCommand(c) \/ \E n \in Names : Nick(c, n)
    PROVE  RoomInv'
<1>1. UNCHANGED <<made, attached, members, roomKey, left>>
  BY DEF Connect, SetName, QuitDone, Ended, Quit, EndOfInput, Fail, Nick, OtherCommand,
     roomVars, clientVars, localVars
<1>2. \A d \in Clients : pc'[d] = "cleanup" => pc[d] = "cleanup"
  <2>1. pc' = pc \/ \E to \in PCs \ {"cleanup"} : pc' = [pc EXCEPT ![c] = to]
    BY DEF Connect, SetName, QuitDone, Ended, Quit, EndOfInput, Fail, Nick, OtherCommand,
       Goto, PCs
  <2> QED BY <2>1 DEF TypeInv, TypeOK
<1> QED BY <1>1, <1>2, RoomQuiet

LEMMA RoomStep == TypeInv /\ RoomInv /\ [Next]_vars => RoomInv'
<1> SUFFICES ASSUME TypeInv, RoomInv, [Next]_vars PROVE RoomInv'
  OBVIOUS
<1>1. CASE UNCHANGED vars
  BY <1>1, RoomQuiet DEF vars
<1>2. ASSUME NEW c \in Clients, Reader(c) \/ Input(c) \/ Fail(c) \/ RemoveClient(c)
      PROVE  RoomInv'
  BY <1>2, RoomMove, RoomCleanup, RoomRemove, RoomOther, ChatAssumption
     DEF Reader, Input, JoinLobby, JoinRoom
<1> QED BY <1>1, <1>2 DEF Next

LEMMA RoomCorrect == Spec => []RoomInv
BY TypeCorrect, RoomInit, RoomStep, PTL DEF Spec

(* Whatever rooms are created, cleaned up and created again under one key,   *)
(* and whoever is removed meanwhile, no client is a member of two rooms that *)
(* /join, /rooms and broadcasts can reach.                                   *)
THEOREM ChatOneRoom == Spec => []OneRoom
<1>1. RoomInv => OneRoom
  BY DEF RoomInv
<1> QED BY <1>1, RoomCorrect, PTL

(* The lobby is created once and never cleaned up. *)
THEOREM ChatLobbyStays == Spec => []LobbyStays
<1>1. RoomInv => LobbyStays
  BY DEF RoomInv
<1> QED BY <1>1, RoomCorrect, PTL

-----------------------------------------------------------------------------
(* Names. *)

(* NameLeadsToOwner holds through a renaming because the old name is free at *)
(* once, and through a connection because a client is new to the map.        *)
NameInv ==
    /\ NameLeadsToOwner
    /\ \A c \in clients : pc[c] = "rename" =>
          \A n \in Names : names[n] = c => n = newNick[c]
    /\ \A c \in Clients : pc[c] = "absent" =>
          /\ c \notin clients /\ nick[c] = Guest[c]
          /\ \A n \in Names : names[n] # c

LEMMA NameInit == Init => NameInv
BY ChatAssumption DEF Init, NameInv, NameLeadsToOwner

LEMMA NameQuiet ==
    ASSUME TypeOK, NameInv, UNCHANGED <<names, nick, newNick, clients>>,
           \A c \in Clients : /\ pc'[c] = "rename" <=> pc[c] = "rename"
                              /\ pc'[c] = "absent" => pc[c] = "absent"
    PROVE  NameInv'
BY DEF NameInv, NameLeadsToOwner, TypeOK

LEMMA NameConnect ==
    ASSUME TypeOK, NameInv, NEW c \in Clients, Connect(c) PROVE NameInv'
<1>1. CASE pc' = [pc EXCEPT ![c] = "rejected"] /\ UNCHANGED <<clients, names>>
  BY <1>1 DEF Connect, Goto, NameInv, NameLeadsToOwner, TypeOK, clientVars, localVars
<1>2. CASE /\ pc[c] = "absent" /\ pc' = [pc EXCEPT ![c] = "lobby"]
           /\ clients' = clients \cup {c}
           /\ names' = [names EXCEPT ![Guest[c]] = c]
  <2>1. UNCHANGED <<nick, newNick>>
    BY DEF Connect, clientVars, localVars
  <2>2. nick[c] = Guest[c] /\ \A n \in Names : names[n] # c
    BY <1>2 DEF NameInv
  <2> QED
    BY <1>2, <2>1, <2>2 DEF NameInv, NameLeadsToOwner, TypeOK
<1> QED BY <1>1, <1>2 DEF Connect, Goto

LEMMA NameNick ==
    ASSUME TypeOK, NameInv, NEW c \in Clients, NEW n \in Names, Nick(c, n) PROVE NameInv'
<1>1. CASE UNCHANGED <<pc, names, newNick>>
  BY <1>1, NameQuiet DEF Nick, clientVars
<1>2. CASE /\ names' = [names EXCEPT ![nick[c]] = NoClient, ![n] = c]
           /\ newNick' = [newNick EXCEPT ![c] = n]
           /\ pc' = [pc EXCEPT ![c] = "rename"]
  <2>1. UNCHANGED <<nick, clients>> /\ pc[c] = "reading"
    BY DEF Nick, Command, clientVars
  <2>2. \A m \in Names : names[m] = c /\ c \in clients => m = nick[c]
    BY <2>1 DEF NameInv, NameLeadsToOwner
  <2>3. \A m \in Names : names'[m] = IF m = n THEN c ELSE IF m = nick[c] THEN NoClient
                                     ELSE names[m]
    BY <1>2 DEF TypeOK
  <2>4. /\ newNick'[c] = n /\ pc'[c] = "rename"
        /\ \A d \in Clients \ {c} : newNick'[d] = newNick[d] /\ pc'[d] = pc[d]
    BY <1>2 DEF TypeOK
  <2>5. clients \subseteq Clients /\ NoClient \notin Clients
    BY ChatAssumption DEF TypeOK
  <2>6. \A d \in Clients \ {c}, m \in Names : names'[m] = d => names[m] = d
    BY <2>3, <2>5
  <2>7. \A m \in Names : names'[m] = c /\ c \in clients => m = n
    BY <2>2, <2>3, <2>5
  <2>8. NameLeadsToOwner'
    BY <2>1, <2>4, <2>5, <2>6, <2>7 DEF NameInv, NameLeadsToOwner
  <2> QED
    BY <2>1, <2>4, <2>5, <2>6, <2>7, <2>8 DEF NameInv
<1> QED BY <1>1, <1>2 DEF Nick

LEMMA NameRest ==
    ASSUME TypeInv, NameInv, NEW c \in Clients, SetName(c) \/ RemoveClient(c)
    PROVE  NameInv'
<1>1. CASE SetName(c)
  BY <1>1 DEF SetName, Goto, TypeInv, TypeOK, NameInv, NameLeadsToOwner, localVars
<1>2. CASE RemoveClient(c)
  <2>1. /\ clients' = clients \ {c} /\ names' = [names EXCEPT ![nick[c]] = NoClient]
        /\ UNCHANGED <<pc, nick, newNick>>
    BY <1>2 DEF RemoveClient, clientVars, localVars
  <2>2. \A n \in Names : names'[n] = names[n] \/ names'[n] = NoClient
    BY <2>1 DEF TypeInv, TypeOK
  <2> QED
    BY <2>1, <2>2, ChatAssumption DEF TypeInv, TypeOK, NameInv, NameLeadsToOwner
<1> QED BY <1>1, <1>2

LEMMA NameOther ==
    ASSUME TypeInv, NameInv, NEW c \in Clients,
           \/ JoinLobby(c) \/ CleanupCheck(c) \/ CleanupRoom(c) \/ QuitDone(c) \/ Ended(c)
           \/ Quit(c) \/ EndOfInput(c) \/ Fail(c) \/ OtherCommand(c)
           \/ \E k \in Keys : JoinRoom(c, k)
    PROVE  NameInv'
<1>1. UNCHANGED <<names, nick, newNick, clients>>
  BY DEF JoinLobby, CleanupCheck, CleanupRoom, QuitDone, Ended, Quit, EndOfInput, Fail,
     OtherCommand, JoinRoom, clientVars, localVars
<1>2. \/ pc' = pc
      \/ /\ pc[c] # "rename"
         /\ \E to \in PCs \ {"rename", "absent"} : pc' = [pc EXCEPT ![c] = to]
  BY DEF JoinLobby, CleanupCheck, CleanupRoom, QuitDone, Ended, Quit, EndOfInput, Fail,
     OtherCommand, JoinRoom, MoveClientRoom, Command, Goto, PCs
<1>3. \A d \in Clients : /\ pc'[d] = "rename" <=> pc[d] = "rename"
                         /\ pc'[d] = "absent" => pc[d] = "absent"
  BY <1>2 DEF TypeInv, TypeOK
<1> QED BY <1>1, <1>3, NameQuiet DEF TypeInv

LEMMA NameStep == TypeInv /\ NameInv /\ [Next]_vars => NameInv'
<1> SUFFICES ASSUME TypeInv, NameInv, [Next]_vars PROVE NameInv'
  OBVIOUS
<1>1. CASE UNCHANGED vars
  BY <1>1, NameQuiet DEF vars, TypeInv
<1>2. ASSUME NEW c \in Clients, Reader(c) \/ Input(c) \/ Fail(c) \/ RemoveClient(c)
      PROVE  NameInv'
  BY <1>2, NameConnect, NameNick, NameRest, NameOther DEF Reader, Input, TypeInv
<1> QED BY <1>1, <1>2 DEF Next

LEMMA NameCorrect == Spec => []NameInv
BY TypeCorrect, NameInit, NameStep, PTL DEF Spec

(* A private message is given to a client that has, or is about to have, the *)
(* name it was sent to, however renamings and disconnections interleave.     *)
THEOREM ChatNameLeadsToOwner == Spec => []NameLeadsToOwner
<1>1. NameInv => NameLeadsToOwner
  BY DEF NameInv
<1> QED BY <1>1, NameCorrect, PTL

-----------------------------------------------------------------------------
(* Sessions. *)

(* s.clients holds the connected clients, from addClient to removeClient. *)
LifeInv ==
    \A c \in Clients :
        /\ c \in clients <=> pc[c] \notin {"absent", "rejected"} /\ session[c] # "closed"
        /\ pc[c] \in {"absent", "rejected"} => session[c] = "open"

LEMMA LifeInit == Init => LifeInv
BY DEF Init, LifeInv

LEMMA LifeStep == TypeInv /\ LifeInv /\ [Next]_vars => LifeInv'
<1> SUFFICES ASSUME TypeInv, LifeInv, [Next]_vars PROVE LifeInv'
  OBVIOUS
<1>1. CASE UNCHANGED vars
  BY <1>1 DEF vars, LifeInv
<1>2. ASSUME NEW c \in Clients, Connect(c)
      PROVE  LifeInv'
  <2>1. CASE pc' = [pc EXCEPT ![c] = "rejected"] /\ UNCHANGED clients
    BY <1>2, <2>1 DEF Connect, Goto, LifeInv, TypeInv, TypeOK
  <2>2. CASE pc' = [pc EXCEPT ![c] = "lobby"] /\ clients' = clients \cup {c}
    BY <1>2, <2>2 DEF Connect, Goto, LifeInv, TypeInv, TypeOK
  <2> QED BY <1>2, <2>1, <2>2 DEF Connect, Goto
<1>3. ASSUME NEW c \in Clients, RemoveClient(c)
      PROVE  LifeInv'
  BY <1>3 DEF RemoveClient, LifeInv, TypeInv, TypeOK
<1>4. ASSUME NEW c \in Clients, Fail(c)
      PROVE  LifeInv'
  <2>1. UNCHANGED <<pc, clients>> /\ c \in clients
    BY <1>4 DEF Fail
  <2>2. session' = [session EXCEPT ![c] = "closing"] /\ session[c] = "open"
    BY <1>4 DEF Fail, Shutdown, TypeInv, TypeOK
  <2> QED BY <2>1, <2>2 DEF LifeInv, TypeInv, TypeOK
<1>5. ASSUME NEW c \in Clients, Quit(c) \/ EndOfInput(c)
      PROVE  LifeInv'
  <2>1. /\ UNCHANGED clients /\ pc[c] = "reading"
        /\ \E to \in {"quitting", "ending"} : pc' = [pc EXCEPT ![c] = to]
    BY <1>5 DEF Quit, EndOfInput, Command, Goto
  <2>2. session' = [session EXCEPT ![c] = "closing"] \/ session' = session
    BY <1>5 DEF Quit, EndOfInput, Shutdown, TypeInv, TypeOK
  <2>3. session'[c] = "closed" <=> session[c] = "closed"
    BY <1>5 DEF Quit, EndOfInput, Shutdown, TypeInv, TypeOK
  <2> QED BY <2>1, <2>2, <2>3 DEF LifeInv, TypeInv, TypeOK
<1>6. ASSUME NEW c \in Clients,
             \/ JoinLobby(c) \/ CleanupCheck(c) \/ CleanupRoom(c) \/ SetName(c) \/ QuitDone(c)
             \/ Ended(c) \/ OtherCommand(c) \/ (\E k \in Keys : JoinRoom(c, k))
             \/ \E n \in Names : Nick(c, n)
      PROVE  LifeInv'
  <2>1. UNCHANGED <<clients, session>>
    BY <1>6 DEF JoinLobby, CleanupCheck, CleanupRoom, SetName, QuitDone, Ended, OtherCommand,
       JoinRoom, Nick
  <2>2. \/ pc' = pc
        \/ /\ pc[c] \notin {"absent", "rejected"}
           /\ \E to \in PCs \ {"absent", "rejected"} : pc' = [pc EXCEPT ![c] = to]
    BY <1>6 DEF JoinLobby, CleanupCheck, CleanupRoom, SetName, QuitDone, Ended, OtherCommand,
       JoinRoom, Nick, MoveClientRoom, Command, Goto, PCs
  <2> QED BY <2>1, <2>2 DEF LifeInv, TypeInv, TypeOK
<1> QED BY <1>1, <1>2, <1>3, <1>4, <1>5, <1>6 DEF Next, Reader, Input

LEMMA LifeCorrect == Spec => []LifeInv
BY TypeCorrect, LifeInit, LifeStep, PTL DEF Spec

(* The name a client has, or has taken in s.names and is about to have. *)
Own(c) == IF pc[c] = "rename" THEN newNick[c] ELSE nick[c]

(* Whoever is removed was at no other work, while nobody is torn down. *)
LEMMA TornGrows ==
    ASSUME [Next]_vars
    PROVE  /\ torn \subseteq torn'
           /\ \A c \in Clients : Command(c) /\ c \notin torn' => session[c] # "closed"
           /\ \A c \in Clients : JoinLobby(c) /\ c \notin torn' => session[c] # "closed"
           /\ \A c \in Clients : RemoveClient(c) /\ c \notin torn' =>
                 pc[c] \in {"quitting", "ending", "reading"}
<1>1. torn \subseteq torn'
  BY DEF Next, Reader, Input, vars, Connect, JoinLobby, CleanupCheck, CleanupRoom, SetName,
     QuitDone, Ended, JoinRoom, Nick, OtherCommand, Quit, EndOfInput, Fail, RemoveClient, Command
<1> QED BY <1>1 DEF Command, JoinLobby, RemoveClient

LEMMA HoldsStep ==
    TypeInv /\ NameInv /\ LifeInv /\ HoldsOwnName /\ [Next]_vars => HoldsOwnName'
<1> SUFFICES ASSUME TypeInv, NameInv, LifeInv, HoldsOwnName, [Next]_vars, torn' = {}
             PROVE  \A c \in clients' : names'[Own(c)'] = c
  BY DEF HoldsOwnName, Own
<1>1. torn = {} /\ clients \subseteq Clients /\ \A c \in clients : names[Own(c)] = c
  BY TornGrows DEF HoldsOwnName, Own, TypeInv, TypeOK
<1>2. /\ names \in [Names -> Clients \cup {NoClient}] /\ pc \in [Clients -> PCs]
      /\ nick \in [Clients -> Names] /\ newNick \in [Clients -> Names]
      /\ \A c \in Clients : Own(c) \in Names
  BY DEF TypeInv, TypeOK, Own
<1>3. CASE UNCHANGED vars
  BY <1>1, <1>3 DEF vars, Own
<1>4. ASSUME NEW c \in Clients, Connect(c)
      PROVE  \A d \in clients' : names'[Own(d)'] = d
  <2>1. UNCHANGED <<nick, newNick>> /\ pc[c] = "absent"
    BY <1>4 DEF Connect, Goto, clientVars, localVars
  <2>2. \A d \in Clients : Own(d)' = Own(d)
    BY <1>2, <1>4, <2>1 DEF Connect, Goto, Own
  <2>3. Own(c) = Guest[c] /\ Guest[c] \in Names
    BY <2>1, ChatAssumption DEF NameInv, Own
  <2>4. CASE UNCHANGED <<clients, names>>
    BY <1>1, <2>2, <2>4
  <2>5. CASE /\ names[Guest[c]] = NoClient /\ clients' = clients \cup {c}
             /\ names' = [names EXCEPT ![Guest[c]] = c]
    BY <1>1, <1>2, <2>2, <2>3, <2>5, ChatAssumption
  <2> QED BY <1>4, <2>4, <2>5 DEF Connect
<1>5. ASSUME NEW c \in Clients, NEW n \in Names, Nick(c, n)
      PROVE  \A d \in clients' : names'[Own(d)'] = d
  <2>1. UNCHANGED <<nick, clients>> /\ pc[c] = "reading" /\ c \in clients
    BY <1>5, TornGrows DEF Nick, Command, clientVars, LifeInv
  <2>2. CASE UNCHANGED <<pc, names, newNick>>
    BY <1>1, <2>1, <2>2 DEF Own
  <2>3. CASE /\ names[n] = NoClient
             /\ names' = [names EXCEPT ![nick[c]] = NoClient, ![n] = c]
             /\ newNick' = [newNick EXCEPT ![c] = n]
             /\ pc' = [pc EXCEPT ![c] = "rename"]
    <3>1. Own(c)' = n /\ \A d \in Clients \ {c} : Own(d)' = Own(d)
      BY <1>2, <2>1, <2>3 DEF Own
    <3>2. names[nick[c]] = c
      BY <1>1, <2>1 DEF Own
    <3>3. \A d \in clients \ {c} : Own(d) # n /\ Own(d) # nick[c]
      BY <1>1, <2>3, <3>2, ChatAssumption
    <3> QED BY <1>1, <1>2, <2>1, <2>3, <3>1, <3>3
  <2> QED BY <1>5, <2>2, <2>3 DEF Nick
<1>6. ASSUME NEW c \in Clients, SetName(c)
      PROVE  \A d \in clients' : names'[Own(d)'] = d
  <2>1. UNCHANGED <<names, clients>> /\ \A d \in Clients : Own(d)' = Own(d)
    BY <1>2, <1>6 DEF SetName, Goto, localVars, Own
  <2> QED BY <1>1, <2>1
<1>7. ASSUME NEW c \in Clients, RemoveClient(c)
      PROVE  \A d \in clients' : names'[Own(d)'] = d
  <2>1. /\ clients' = clients \ {c} /\ names' = [names EXCEPT ![nick[c]] = NoClient]
        /\ UNCHANGED <<pc, nick, newNick>> /\ session[c] = "closing"
    BY <1>7 DEF RemoveClient, clientVars, localVars
  <2>2. pc[c] \in {"quitting", "ending", "reading"}
    BY <1>7, TornGrows
  <2>3. c \in clients /\ Own(c) = nick[c]
    BY <2>1, <2>2 DEF LifeInv, Own
  <2>4. \A d \in clients \ {c} : Own(d) # nick[c] /\ Own(d)' = Own(d)
    BY <1>1, <2>1, <2>3 DEF Own
  <2> QED BY <1>1, <1>2, <2>1, <2>4
<1>8. ASSUME NEW c \in Clients,
             \/ JoinLobby(c) \/ CleanupCheck(c) \/ CleanupRoom(c) \/ QuitDone(c) \/ Ended(c)
             \/ Quit(c) \/ EndOfInput(c) \/ Fail(c) \/ OtherCommand(c)
             \/ \E k \in Keys : JoinRoom(c, k)
      PROVE  \A d \in clients' : names'[Own(d)'] = d
  <2>1. UNCHANGED <<names, nick, newNick, clients>>
    BY <1>8 DEF JoinLobby, CleanupCheck, CleanupRoom, QuitDone, Ended, Quit, EndOfInput, Fail,
       OtherCommand, JoinRoom, clientVars, localVars
  <2>2. \/ pc' = pc
        \/ /\ pc[c] # "rename"
           /\ \E to \in PCs \ {"rename"} : pc' = [pc EXCEPT ![c] = to]
    BY <1>8 DEF JoinLobby, CleanupCheck, CleanupRoom, QuitDone, Ended, Quit, EndOfInput, Fail,
       OtherCommand, JoinRoom, MoveClientRoom, Command, Goto, PCs
  <2>3. \A d \in Clients : Own(d)' = Own(d)
    BY <1>2, <2>1, <2>2 DEF Own
  <2> QED BY <1>1, <2>1, <2>3
<1> QED BY <1>3, <1>4, <1>5, <1>6, <1>7, <1>8 DEF Next, Reader, Input

(* Two clients never share a name, and each is reached under its own, unless *)
(* some session was removed in the middle of a command (the window in which   *)
(* cmdNick has changed s.names and not yet the client).                       *)
THEOREM ChatHoldsOwnName == Spec => []HoldsOwnName
<1>1. Init => HoldsOwnName
  BY DEF Init, HoldsOwnName
<1> QED BY <1>1, TypeCorrect, NameCorrect, LifeCorrect, HoldsStep, PTL DEF Spec

-----------------------------------------------------------------------------
(* What a disconnected client leaves. *)

(* The maps that InMaps looks into, for a client whose name no step enters. *)
LEMMA StaysOut ==
    ASSUME TypeOK, RoomInv, NEW c \in Clients, ~InMaps(c),
           c \notin clients', \A n \in Names : names'[n] = c => names[n] = c,
           \A k \in Keys : attached'[k] # 0 /\ c \in members'[attached'[k]] =>
               attached[k] # 0 /\ c \in members[attached[k]]
    PROVE  ~InMaps(c)'
BY DEF InMaps

(* A room gets no member but the client that moves. *)
LEMMA MoveOthers ==
    ASSUME TypeInv, RoomInv, NEW d \in Clients, NEW k \in Keys, MoveClientRoom(d, k),
           NEW c \in Clients \ {d}, NEW j \in Keys,
           attached'[j] # 0, c \in members'[attached'[j]]
    PROVE  attached[j] # 0 /\ c \in members[attached[j]]
<1> DEFINE fresh == attached[k] = 0
           room  == IF fresh THEN Len(made) + 1 ELSE attached[k]
           prev  == IF roomKey[d] = NoKey THEN 0 ELSE attached[roomKey[d]]
<1>1. /\ made \in Seq(Keys) /\ Len(made) \in 0 .. MaxRooms /\ MaxRooms \in Nat
      /\ attached \in [Keys -> 0 .. Len(made)]
      /\ members \in [Objects -> SUBSET Clients]
  BY ChatAssumption DEF TypeInv, TypeOK
<1>2. /\ fresh => Len(made) < MaxRooms
      /\ attached' = [attached EXCEPT ![k] = room]
      /\ \/ UNCHANGED members
         \/ members' = [o \in Objects |-> IF o = room THEN members[o] \cup {d}
                                         ELSE IF o = prev THEN members[o] \ {d}
                                         ELSE members[o]]
  BY DEF MoveClientRoom
<1>3. attached'[j] \in Objects
  BY <1>1, <1>2 DEF Objects
<1>4. c \in members[attached'[j]]
  BY <1>2, <1>3
<1>5. fresh => members[Len(made) + 1] = {}
  BY <1>1, <1>2 DEF RoomInv, Objects
<1> QED BY <1>1, <1>2, <1>4, <1>5

LEMMA ExitRemove ==
    ASSUME TypeInv, RoomInv, NameInv, LifeInv, [Next]_vars, NEW c \in Clients,
           RemoveClient(c), c \notin torn'
    PROVE  ~InMaps(c)'
<1> DEFINE room  == IF roomKey[c] = NoKey THEN 0 ELSE attached[roomKey[c]]
           empty == room # 0 /\ members[room] \subseteq {c} /\ made[room] # Lobby
<1>1. /\ clients' = clients \ {c} /\ names' = [names EXCEPT ![nick[c]] = NoClient]
      /\ members' = [o \in Objects |-> IF o = room THEN members[o] \ {c} ELSE members[o]]
      /\ attached' = IF empty THEN [attached EXCEPT ![roomKey[c]] = 0] ELSE attached
      /\ session[c] = "closing"
  BY DEF RemoveClient
<1>2. pc[c] \in {"quitting", "ending", "reading"} /\ c \in clients
  BY <1>1, TornGrows DEF LifeInv
<1>3. ASSUME NEW n \in Names
      PROVE  names'[n] # c
  <2>1. names[n] = c => n = nick[c]
    BY <1>2 DEF NameInv, NameLeadsToOwner
  <2> QED BY <1>1, <2>1, ChatAssumption DEF TypeInv, TypeOK
<1>4. ASSUME NEW k \in Keys, attached'[k] # 0
      PROVE  c \notin members'[attached'[k]]
  <2>1. attached'[k] = attached[k] /\ attached[k] \in Objects
    BY <1>1, <1>4, ChatAssumption DEF TypeInv, TypeOK, Objects
  <2>2. CASE c \in members[attached[k]]
    <3>1. roomKey[c] = k
      BY <1>4, <2>1, <2>2 DEF RoomInv, OneRoom
    <3>2. room = attached[k]
      BY <3>1, ChatAssumption
    <3> QED BY <1>1, <2>1, <3>2
  <2>3. CASE c \notin members[attached[k]]
    BY <1>1, <2>1, <2>3
  <2> QED BY <2>2, <2>3
<1> QED BY <1>1, <1>3, <1>4 DEF InMaps

(* CleanExit says the same of connections the server has not seen yet. *)
Out(c) == session[c] = "closed" \/ pc[c] \in {"absent", "rejected"}
ExitInv == \A c \in Clients \ torn : Out(c) => ~InMaps(c)

LEMMA ExitStep ==
    TypeInv /\ RoomInv /\ NameInv /\ LifeInv /\ ExitInv /\ [Next]_vars => ExitInv'
<1> SUFFICES ASSUME TypeInv, RoomInv, NameInv, LifeInv, ExitInv, [Next]_vars,
                    NEW c \in Clients \ torn', Out(c)'
             PROVE  ~InMaps(c)'
  BY DEF ExitInv
<1>1. c \notin torn
  BY TornGrows
<1>2. TypeOK /\ clients \subseteq Clients
  BY DEF TypeInv, TypeOK
<1>3. Out(c) => ~InMaps(c)
  BY <1>1 DEF ExitInv
<1>4. CASE UNCHANGED vars
  <2>1. Out(c) /\ UNCHANGED <<clients, names, attached, members>>
    BY <1>4 DEF vars, Out
  <2> QED BY <1>3, <2>1 DEF InMaps
<1>5. ASSUME NEW d \in Clients, RemoveClient(d)
      PROVE  ~InMaps(c)'
  <2>1. CASE d = c
    BY <1>5, <2>1, ExitRemove
  <2>2. CASE d # c
    <3>1. ~InMaps(c)
      BY <1>3, <1>5, <2>2 DEF RemoveClient, TypeInv, TypeOK, Out
    <3>2. c \notin clients' /\ \A n \in Names : names'[n] = c => names[n] = c
      BY <1>2, <1>5, <3>1, ChatAssumption DEF RemoveClient, InMaps, TypeOK
    <3>3. ASSUME NEW k \in Keys, attached'[k] # 0, c \in members'[attached'[k]]
          PROVE  attached[k] # 0 /\ c \in members[attached[k]]
      <4>1. attached'[k] = attached[k]
        BY <1>2, <1>5, <3>3 DEF RemoveClient, TypeOK
      <4>2. attached[k] \in Objects
        BY <1>2, <3>3, <4>1, ChatAssumption DEF TypeOK, Objects
      <4>3. members'[attached[k]] \subseteq members[attached[k]]
        BY <1>5, <4>2 DEF RemoveClient
      <4> QED BY <3>3, <4>1, <4>3
    <3> QED BY <1>2, <3>1, <3>2, <3>3, StaysOut
  <2> QED BY <2>1, <2>2
<1>6. ASSUME NEW d \in Clients, NEW k \in Keys, MoveClientRoom(d, k),
             UNCHANGED <<clients, names, session>>, d \notin torn' => session[d] # "closed"
      PROVE  ~InMaps(c)'
  <2>1. c # d /\ ~InMaps(c)
    <3>1. \E to \in {"reading", "leaving"} : pc' = [pc EXCEPT ![d] = to]
      BY <1>6 DEF MoveClientRoom
    <3>2. c # d
      BY <1>2, <1>6, <3>1 DEF Out, TypeOK
    <3> QED BY <1>2, <1>3, <1>6, <3>1, <3>2 DEF Out, TypeOK
  <2>2. \A j \in Keys : attached'[j] # 0 /\ c \in members'[attached'[j]] =>
            attached[j] # 0 /\ c \in members[attached[j]]
    BY <1>6, <2>1, MoveOthers
  <2>3. c \notin clients' /\ \A n \in Names : names'[n] = c => names[n] = c
    BY <1>6, <2>1 DEF InMaps
  <2> QED BY <1>2, <2>1, <2>2, <2>3, StaysOut
<1>7. ASSUME NEW d \in Clients, JoinLobby(d) \/ \E k \in Keys : JoinRoom(d, k)
      PROVE  ~InMaps(c)'
  <2>1. PICK k \in Keys : MoveClientRoom(d, k)
    BY <1>7, ChatAssumption DEF JoinLobby, JoinRoom
  <2>2. UNCHANGED <<clients, names, session>> /\ (d \notin torn' => session[d] # "closed")
    BY <1>7, TornGrows DEF JoinLobby, JoinRoom
  <2> QED BY <1>6, <2>1, <2>2
<1>8. ASSUME NEW d \in Clients, CleanupRoom(d)
      PROVE  ~InMaps(c)'
  <2>1. /\ UNCHANGED <<clients, names, session, members>>
        /\ pc[d] = "cleanup" /\ pc' = [pc EXCEPT ![d] = "reading"]
    BY <1>8 DEF CleanupRoom, Goto
  <2>2. \A k \in Keys : attached'[k] # 0 => attached'[k] = attached[k]
    BY <1>2, <1>8 DEF CleanupRoom, TypeOK
  <2>3. ~InMaps(c)
    BY <1>2, <1>3, <2>1 DEF Out, TypeOK
  <2> QED BY <2>1, <2>2, <2>3 DEF InMaps
<1>9. ASSUME NEW d \in Clients, Connect(d)
      PROVE  ~InMaps(c)'
  <2>1. UNCHANGED <<session, attached, members>> /\ pc[d] = "absent"
    BY <1>9 DEF Connect, Goto, roomVars
  <2>2. \/ UNCHANGED <<clients, names>> /\ pc' = [pc EXCEPT ![d] = "rejected"]
        \/ /\ clients' = clients \cup {d} /\ names' = [names EXCEPT ![Guest[d]] = d]
           /\ pc' = [pc EXCEPT ![d] = "lobby"]
    BY <1>9 DEF Connect, Goto
  <2>3. ~InMaps(c)
    BY <1>2, <1>3, <2>1, <2>2 DEF Out, TypeOK
  <2>4. CASE UNCHANGED <<clients, names>>
    BY <2>1, <2>3, <2>4 DEF InMaps
  <2>5. CASE /\ clients' = clients \cup {d} /\ names' = [names EXCEPT ![Guest[d]] = d]
             /\ pc' = [pc EXCEPT ![d] = "lobby"]
    <3>1. c # d
      BY <1>2, <2>1, <2>5 DEF Out, LifeInv, TypeOK
    <3> QED BY <1>2, <2>1, <2>3, <2>5, <3>1 DEF InMaps, TypeOK
  <2> QED BY <2>2, <2>4, <2>5
<1>10. ASSUME NEW d \in Clients, NEW n \in Names, Nick(d, n)
       PROVE  ~InMaps(c)'
  <2>1. /\ UNCHANGED <<session, clients, attached, members>> /\ pc[d] = "reading"
        /\ pc' = pc \/ pc' = [pc EXCEPT ![d] = "rename"]
    BY <1>10 DEF Nick, roomVars, Command
  <2>2. c # d /\ ~InMaps(c)
    <3>1. c # d
      BY <1>2, <1>10, <2>1, TornGrows DEF Nick, Out, TypeOK
    <3> QED BY <1>2, <1>3, <2>1, <3>1 DEF Out, TypeOK
  <2>3. UNCHANGED names \/ names' = [names EXCEPT ![nick[d]] = NoClient, ![n] = d]
    BY <1>10 DEF Nick
  <2>4. \A m \in Names : names'[m] = c => names[m] = c
    <3>1. NoClient # c /\ names \in [Names -> Clients \cup {NoClient}]
      BY <1>2, ChatAssumption DEF TypeOK
    <3> QED BY <2>2, <2>3, <3>1
  <2> QED BY <2>1, <2>2, <2>4 DEF InMaps
<1>11. ASSUME NEW d \in Clients,
              \/ CleanupCheck(d) \/ SetName(d) \/ QuitDone(d) \/ Ended(d) \/ Quit(d)
              \/ EndOfInput(d) \/ Fail(d) \/ OtherCommand(d)
       PROVE  ~InMaps(c)'
  <2>1. UNCHANGED <<clients, names, attached, members>>
    BY <1>11 DEF CleanupCheck, SetName, QuitDone, Ended, Quit, EndOfInput, Fail, OtherCommand,
       roomVars
  <2>2. session'[c] = "closed" => session[c] = "closed"
    BY <1>2, <1>11 DEF CleanupCheck, SetName, QuitDone, Ended, Quit, EndOfInput, Fail,
       OtherCommand, Shutdown, TypeOK
  <2>3. pc' = pc \/ \E to \in PCs \ {"absent", "rejected"} : pc' = [pc EXCEPT ![d] = to]
    BY <1>11 DEF CleanupCheck, SetName, QuitDone, Ended, Quit, EndOfInput, Fail, OtherCommand,
       Goto, PCs
  <2>4. Out(c)
    BY <1>2, <2>2, <2>3 DEF Out, TypeOK
  <2> QED BY <1>3, <2>1, <2>4 DEF InMaps
<1> QED BY <1>4, <1>5, <1>7, <1>8, <1>9, <1>10, <1>11 DEF Next, Reader, Input

(* When a client's session ends and it was at no command that removal cut in  *)
(* two, removeClient has found all there was of it: its entry in s.clients,   *)
(* the one name that leads to it, and the one room it is a member of. A       *)
(* newcomer who is turned away has never got into any of them.                *)
THEOREM ChatCleanExit == Spec => []CleanExit
<1>1. Init => ExitInv
  BY ChatAssumption DEF Init, ExitInv, InMaps
<1>2. ExitInv => CleanExit
  BY DEF ExitInv, CleanExit, Out
<1> QED
  BY <1>1, <1>2, TypeCorrect, RoomCorrect, NameCorrect, LifeCorrect, ExitStep, PTL DEF Spec
-----------------------------------------------------------------------------
(* What a client's session shows of a step: its reader reads, or is in its   *)
(* own shutdown, or has ended.                                               *)
Away == {"quitting", "ending", "ended"}

LEMMA OneQuiet ==
    ASSUME NEW c \in Clients, UNCHANGED session[c],
           pc'[c] = pc[c] \/ {pc[c], pc'[c]} \cap Away = {}
    PROVE  [One(c)!Next]_(One(c)!vars)
<1>1. ReaderOf(c)' = ReaderOf(c)
  BY DEF ReaderOf, Away
<1> QED BY <1>1 DEF One!vars

LEMMA OneStarts ==
    ASSUME TypeInv, NEW c \in Clients, Quit(c) \/ EndOfInput(c) \/ Fail(c)
    PROVE  One(c)!Quit \/ One(c)!EndOfInput \/ One(c)!Fail
<1>1. /\ session'[c] = IF session[c] = "open" THEN "closing" ELSE session[c]
      /\ pc \in [Clients -> PCs] /\ session \in [Clients -> {"open", "closing", "closed"}]
  BY DEF Quit, EndOfInput, Fail, Shutdown, TypeInv, TypeOK
<1>2. CASE Quit(c)
  <2>1. pc[c] = "reading" /\ pc'[c] = "quitting"
    BY <1>1, <1>2 DEF Quit, Command
  <2> QED BY <1>1, <2>1 DEF One!Quit, One!Shut, ReaderOf
<1>3. CASE EndOfInput(c)
  <2>1. pc[c] = "reading" /\ pc'[c] = "ending"
    BY <1>1, <1>3 DEF EndOfInput, Goto
  <2> QED BY <1>1, <2>1 DEF One!EndOfInput, One!Shut, ReaderOf
<1>4. CASE Fail(c)
  <2>1. session[c] = "open" /\ pc'[c] = pc[c]
    BY <1>4 DEF Fail
  <2> QED BY <1>1, <2>1 DEF One!Fail, One!Shut, ReaderOf
<1> QED BY <1>2, <1>3, <1>4

LEMMA OneEnds ==
    ASSUME TypeInv, NEW c \in Clients, QuitDone(c) \/ Ended(c) \/ RemoveClient(c)
    PROVE  One(c)!Return \/ One(c)!Remove
<1>1. pc \in [Clients -> PCs] /\ session \in [Clients -> {"open", "closing", "closed"}]
  BY DEF TypeInv, TypeOK
<1>2. CASE QuitDone(c) \/ Ended(c)
  <2>1. /\ session[c] = "closed" /\ session'[c] = "closed"
        /\ \/ pc[c] = "quitting" /\ pc'[c] = "reading"
           \/ pc[c] = "ending" /\ pc'[c] = "ended"
    BY <1>1, <1>2 DEF QuitDone, Ended, Goto
  <2> QED BY <2>1 DEF One!Return, One!ComeBack, ReaderOf
<1>3. CASE RemoveClient(c)
  <2>1. session[c] = "closing" /\ session'[c] = "closed" /\ pc'[c] = pc[c]
    BY <1>1, <1>3 DEF RemoveClient
  <2> QED BY <2>1 DEF One!Remove, ReaderOf
<1> QED BY <1>2, <1>3

(* A step of one client is no other client's. *)
LEMMA OneOthers ==
    ASSUME TypeInv, NEW c \in Clients, NEW d \in Clients \ {c},
           Reader(c) \/ Input(c) \/ Fail(c) \/ RemoveClient(c)
    PROVE  UNCHANGED <<session[d], pc[d]>>
<1>1. pc \in [Clients -> PCs] /\ session \in [Clients -> {"open", "closing", "closed"}]
  BY DEF TypeInv, TypeOK
<1>2. CASE Reader(c) \/ Fail(c) \/ RemoveClient(c)
  BY <1>1, <1>2 DEF Reader, Connect, JoinLobby, MoveClientRoom, CleanupCheck, CleanupRoom,
     SetName, QuitDone, Ended, Fail, RemoveClient, Shutdown, Goto
<1>3. CASE Input(c)
  BY <1>1, <1>3 DEF Input, JoinRoom, MoveClientRoom, Nick, OtherCommand, Quit, EndOfInput,
     Shutdown, Goto
<1> QED BY <1>2, <1>3

LEMMA OneStep ==
    ASSUME TypeInv, NEW c \in Clients, [Next]_vars
    PROVE  [One(c)!Next]_(One(c)!vars)
<1>1. pc \in [Clients -> PCs]
  BY DEF TypeInv, TypeOK
<1>2. CASE UNCHANGED vars
  BY <1>2, OneQuiet DEF vars
<1>3. ASSUME NEW d \in Clients \ {c}, Reader(d) \/ Input(d) \/ Fail(d) \/ RemoveClient(d)
      PROVE  [One(c)!Next]_(One(c)!vars)
  BY <1>3, OneOthers, OneQuiet
<1>4. CASE Quit(c) \/ EndOfInput(c) \/ Fail(c)
  BY <1>4, OneStarts DEF One!Next
<1>5. CASE QuitDone(c) \/ Ended(c) \/ RemoveClient(c)
  BY <1>5, OneEnds DEF One!Next
<1>6. CASE Connect(c) \/ JoinLobby(c) \/ CleanupCheck(c) \/ CleanupRoom(c) \/ SetName(c)
  <2>1. UNCHANGED session[c] /\ {pc[c], pc'[c]} \cap Away = {}
    BY <1>1, <1>6 DEF Connect, JoinLobby, MoveClientRoom, CleanupCheck, CleanupRoom, SetName,
       Goto, Away
  <2> QED BY <2>1, OneQuiet
<1>7. CASE OtherCommand(c) \/ (\E k \in Keys : JoinRoom(c, k)) \/ \E n \in Names : Nick(c, n)
  <2>1. UNCHANGED session[c] /\ {pc[c], pc'[c]} \cap Away = {}
    BY <1>1, <1>7 DEF OtherCommand, JoinRoom, MoveClientRoom, Nick, Command, Away
  <2> QED BY <2>1, OneQuiet
<1> QED BY <1>2, <1>3, <1>4, <1>5, <1>6, <1>7 DEF Next, Reader, Input

(* The registry changes a session only as Session says, one client at a      *)
(* time; ClientImplementsSession says the same of the goroutines behind it.  *)
THEOREM ChatSessionsAreSo == Spec => SessionsAreSo
<1>1. Init => \A c \in Clients : One(c)!Init
  BY DEF Init, One!Init, ReaderOf
<1>2. TypeInv /\ [Next]_vars => [\A c \in Clients : [One(c)!Next]_(One(c)!vars)]_vars
  BY OneStep
<1> QED BY <1>1, <1>2, TypeCorrect, PTL DEF Spec, SessionsAreSo
=============================================================================
