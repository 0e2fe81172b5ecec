----------------------------- MODULE HubProofs -----------------------------
(***************************************************************************)
(* Theorems about the WebSocket gateway for every set of connections,      *)
(* users and rooms, every channel capacity and every number of requests.   *)
(***************************************************************************)
EXTENDS Hub, SequenceTheorems, TLAPS

(* A goroutine in the middle of a request works on a request of that kind. *)
JobOK ==
    \A c \in Conns :
        /\ pc[c] \in {"join", "subscribe", "confirm", "leave", "unsubscribe"}
              => job[c] \in RoomJobs
        /\ pc[c] = "check" => job[c] \in PostJobs /\ job[c].dest \in {"room"} \X Rooms
        /\ pc[c] \in {"store", "publish", "echo"} => job[c] \in PostJobs

TypeInv == TypeOK /\ JobOK

LEMMA EventTypes ==
    /\ \A n \in Nat : Message(n) \in Events
    /\ \A u \in Users : Typing(u) \in Events
    /\ \A r \in Rooms : RoomJoined(r) \in Events
    /\ \A u \in Users, b \in BOOLEAN : Presence(u, b) \in Events
    /\ Refusal \in Events
BY DEF Message, Typing, RoomJoined, Presence, Refusal, Events

LEMMA HubShape ==
    ASSUME hub \in HubStates
    PROVE  /\ hub.at \in {"add", "remove"} => hub.conn \in Conns
           /\ hub.at = "send" => hub.msg \in Outbound
BY DEF HubStates, Select

LEMMA HubStateTypes ==
    /\ Select \in HubStates
    /\ \A c \in Conns : /\ [at |-> "add", conn |-> c] \in HubStates
                        /\ [at |-> "remove", conn |-> c] \in HubStates
    /\ \A m \in Outbound : [at |-> "send", msg |-> m] \in HubStates
BY DEF HubStates

LEMMA OutboundShape ==
    ASSUME NEW m \in Outbound
    PROVE  m.dest \in Dests /\ m.event \in Events
BY DEF Outbound

LEMMA DestShape ==
    ASSUME NEW d \in Dests
    PROVE  /\ d[1] = "room" => d \in {"room"} \X Rooms /\ d[2] \in Rooms
           /\ d[1] # "room" => d[2] \in Users
           /\ d[1] \in {"room", "user"}
BY DEF Dests

LEMMA RoomJobShape ==
    ASSUME NEW j \in RoomJobs
    PROVE  j.dest \in Dests /\ j.dest[2] \in Rooms
BY DEF RoomJobs, Dests

LEMMA PostJobShape ==
    ASSUME NEW j \in PostJobs
    PROVE  /\ j.dest \in Dests /\ j.id \in Nat
           /\ \A n \in Nat : [j EXCEPT !.id = n] \in PostJobs
           /\ \A n \in Nat : [j EXCEPT !.id = n].dest = j.dest
BY DEF PostJobs

LEMMA JobTypes ==
    /\ \A k \in {"join_room", "leave_room"}, d \in {"room"} \X Rooms :
          [kind |-> k, dest |-> d, id |-> 0] \in RoomJobs
    /\ \A k \in {"message", "typing"}, d \in Dests :
          [kind |-> k, dest |-> d, id |-> 0] \in PostJobs
BY DEF RoomJobs, PostJobs

LEMMA AudienceType ==
    ASSUME TypeOK, NEW d \in Dests
    PROVE  Audience(d) \in SUBSET Conns
BY DestShape DEF TypeOK, Audience

(* Offering an event to any set of connections keeps buffers well-typed. *)
LEMMA OfferType ==
    ASSUME TypeOK, NEW cs, NEW e \in Events, Offer(cs, e)
    PROVE  /\ sendq' \in [Conns -> Seq(Events)]
           /\ lost' \in [Conns -> SUBSET Events]
BY DEF TypeOK, Offer


LEMMA TypeInit == Init => TypeInv
<1> SUFFICES ASSUME Init PROVE TypeInv
  OBVIOUS
<1>1. TypeOK
  BY HubAssumption, HubStateTypes DEF Init, TypeOK, ReaderStates, NoJob
<1>2. JobOK
  BY DEF Init, JobOK
<1> QED BY <1>1, <1>2 DEF TypeInv

LEMMA TypeStutter == ASSUME TypeInv, UNCHANGED vars PROVE TypeInv'
BY DEF TypeInv, TypeOK, JobOK, vars

LEMMA TypeConnect == ASSUME TypeInv, NEW c \in Conns, Connect(c) PROVE TypeInv'
<1>1. pc' = [pc EXCEPT ![c] = "registering"]
  BY DEF Connect, Goto
<1>2. /\ pc' \in [Conns -> ReaderStates]
      /\ \A d \in Conns : pc'[d] = pc[d] \/ pc'[d] = "registering"
  BY <1>1 DEF TypeInv, TypeOK, ReaderStates
<1>3. TypeOK'
  BY <1>2 DEF TypeInv, TypeOK, Connect, hubVars, tableVars
<1>4. JobOK'
  BY <1>2 DEF TypeInv, JobOK, Connect
<1> QED BY <1>3, <1>4 DEF TypeInv

LEMMA TypeReceive ==
    ASSUME TypeInv, NEW c \in Conns, NEW kind \in Kinds \ {"bad_join", "read"}, NEW dest \in Targets,
           kind \in {"join_room", "leave_room"} => dest[1] = "room",
           Receive(c, kind, dest)
    PROVE  TypeInv'
<1> DEFINE j == [kind |-> kind, dest |-> dest, id |-> 0]
<1>1. dest \in Dests /\ kind \in {"join_room", "leave_room", "message", "typing"}
  BY HubAssumption DEF Dests
<1>2. \/ kind \in {"join_room", "leave_room"} /\ j \in RoomJobs
      \/ kind \in {"message", "typing"} /\ j \in PostJobs /\ j.dest = dest
  BY <1>1, JobTypes, DestShape
<1>3. dest[1] = "room" => dest \in {"room"} \X Rooms
  BY <1>1, DestShape
<1>4. job' = [job EXCEPT ![c] = j]
  BY DEF Receive
<1> HIDE DEF j
<1>5. TypeOK'
  <2>1. \E to \in {"join", "leave", "publish", "check", "store"} : pc' = [pc EXCEPT ![c] = to]
    BY DEF Receive, Goto
  <2>2. pc' \in [Conns -> ReaderStates]
    BY <2>1 DEF TypeInv, TypeOK, ReaderStates
  <2>3. job' \in [Conns -> RoomJobs \cup PostJobs \cup {NoJob}]
    BY <1>2, <1>4 DEF TypeInv, TypeOK
  <2>4. requests' \in 0 .. MaxRequests
    BY HubAssumption DEF TypeInv, TypeOK, Receive
  <2> QED BY <2>2, <2>3, <2>4 DEF TypeInv, TypeOK, Receive, hubVars, tableVars
<1>6. JobOK'
  BY <1>1, <1>2, <1>3, <1>4 DEF TypeInv, TypeOK, JobOK, Receive, Goto
<1> QED BY <1>5, <1>6 DEF TypeInv

LEMMA TypeJoinStore == ASSUME TypeInv, NEW c \in Conns, JoinStore(c) PROVE TypeInv'
<1>1. members' \in SUBSET (Rooms \X Users)
  <2>1. UserOf[c] \in Users /\ KnownRooms \subseteq Rooms
    BY HubAssumption
  <2> QED BY <2>1 DEF TypeInv, TypeOK, JoinStore
<1> QED
  BY <1>1 DEF TypeInv, TypeOK, JobOK, JoinStore, Goto, ReaderStates, hubVars

LEMMA TypeSubscribeRoom == ASSUME TypeInv, NEW c \in Conns, SubscribeRoom(c) PROVE TypeInv'
BY DEF TypeInv, TypeOK, JobOK, SubscribeRoom, Goto, ReaderStates, tableVars

LEMMA TypeConfirmJoin == ASSUME TypeInv, NEW c \in Conns, ConfirmJoin(c) PROVE TypeInv'
<1>1. job[c].dest[2] \in Rooms /\ RoomJoined(job[c].dest[2]) \in Events
  BY RoomJobShape, EventTypes DEF TypeInv, JobOK, ConfirmJoin, Finish, Goto
<1>2. sendq' \in [Conns -> Seq(Events)] /\ lost' \in [Conns -> SUBSET Events]
  BY <1>1, OfferType DEF TypeInv, ConfirmJoin
<1> QED
  BY <1>1, <1>2 DEF TypeInv, TypeOK, JobOK, ConfirmJoin, Finish, Goto, ReaderStates, hubVars, tableVars

LEMMA TypeMarkRead == ASSUME TypeInv, NEW c \in Conns, MarkRead(c) PROVE TypeInv'
BY HubAssumption DEF TypeInv, TypeOK, JobOK, MarkRead, connVars, hubVars, tableVars

LEMMA TypeRejectJoin == ASSUME TypeInv, NEW c \in Conns, RejectJoin(c) PROVE TypeInv'
<1>1. sendq' \in [Conns -> Seq(Events)] /\ lost' \in [Conns -> SUBSET Events]
  BY EventTypes, OfferType DEF TypeInv, RejectJoin
<1> QED
  BY <1>1, HubAssumption DEF TypeInv, TypeOK, JobOK, RejectJoin, connVars, hubVars, tableVars

LEMMA TypeLeaveStore == ASSUME TypeInv, NEW c \in Conns, LeaveStore(c) PROVE TypeInv'
BY DEF TypeInv, TypeOK, JobOK, LeaveStore, Goto, ReaderStates, hubVars

LEMMA TypeUnsubscribeRoom ==
    ASSUME TypeInv, NEW c \in Conns, UnsubscribeRoom(c) PROVE TypeInv'
BY DEF TypeInv, TypeOK, JobOK, UnsubscribeRoom, Finish, Goto, ReaderStates, tableVars

LEMMA TypeCheckMember == ASSUME TypeInv, NEW c \in Conns, CheckMember(c) PROVE TypeInv'
<1>1. CASE Goto(c, "check", "store") /\ UNCHANGED <<job, sendq, lost>>
  BY <1>1 DEF TypeInv, TypeOK, JobOK, CheckMember, Finish, Goto, ReaderStates, connVars,
     hubVars, tableVars
<1>2. CASE Finish(c, "check") /\ Offer({c}, Refusal)
  <2>1. sendq' \in [Conns -> Seq(Events)] /\ lost' \in [Conns -> SUBSET Events]
    BY <1>2, EventTypes, OfferType DEF TypeInv
  <2> QED
    BY <1>2, <2>1 DEF TypeInv, TypeOK, JobOK, CheckMember, Finish, Goto, ReaderStates,
       connVars, hubVars, tableVars
<1> QED BY <1>1, <1>2 DEF CheckMember

LEMMA TypeCreateMessage == ASSUME TypeInv, NEW c \in Conns, CreateMessage(c) PROVE TypeInv'
<1> DEFINE m  == [sender |-> c, dest |-> job[c].dest]
           n  == Len(stored) + 1
<1>1. job[c] \in PostJobs /\ job[c].dest \in Dests
  BY PostJobShape DEF TypeInv, JobOK, CreateMessage, Goto
<1>2. /\ stored' \in Seq([sender : Conns, dest : Dests])
      /\ Len(stored') = Len(stored) + 1
      /\ Len(stored) \in Nat
  <2>1. m \in [sender : Conns, dest : Dests]
    BY <1>1
  <2> QED BY <2>1 DEF TypeInv, TypeOK, CreateMessage
<1>3. [job[c] EXCEPT !.id = n] \in PostJobs
  <2>1. n \in Nat
    BY <1>2
  <2> QED BY <1>1, <2>1, PostJobShape
<1>4. job' = [job EXCEPT ![c] = [job[c] EXCEPT !.id = n]]
  BY DEF CreateMessage
<1>5. owed' \in [Conns -> SUBSET (1 .. Len(stored'))]
  BY <1>2 DEF TypeInv, TypeOK, CreateMessage
<1>6. TypeOK'
  <2>1. job' \in [Conns -> RoomJobs \cup PostJobs \cup {NoJob}]
    BY <1>3, <1>4 DEF TypeInv, TypeOK
  <2> QED
    BY <1>2, <1>5, <2>1 DEF TypeInv, TypeOK, CreateMessage, Goto, ReaderStates, hubVars
<1>7. JobOK'
  BY <1>3, <1>4 DEF TypeInv, TypeOK, JobOK, CreateMessage, Goto
<1> QED BY <1>6, <1>7 DEF TypeInv

LEMMA TypeCreateFails == ASSUME TypeInv, NEW c \in Conns, CreateFails(c) PROVE TypeInv'
BY DEF TypeInv, TypeOK, JobOK, CreateFails, Finish, Goto, ReaderStates, hubVars, tableVars

LEMMA BroadcastType ==
    ASSUME TypeInv, NEW c \in Conns, NEW d \in Dests, job[c] \in PostJobs, Broadcast(c, d)
    PROVE  bcast' \in Seq(Outbound)
<1>1. OutboundFor(c, d).event \in Events
  BY EventTypes, PostJobShape, HubAssumption DEF OutboundFor
<1>2. OutboundFor(c, d) \in Outbound
  BY <1>1 DEF OutboundFor, Outbound
<1> QED BY <1>2 DEF TypeInv, TypeOK, Broadcast

LEMMA TypePublish == ASSUME TypeInv, NEW c \in Conns, Publish(c) PROVE TypeInv'
<1>1. job[c] \in PostJobs /\ job[c].dest \in Dests
  BY PostJobShape DEF TypeInv, JobOK, Publish
<1>2. bcast' \in Seq(Outbound)
  BY <1>1, BroadcastType DEF Publish
<1>3. CASE Goto(c, "publish", "echo") /\ UNCHANGED job
  BY <1>1, <1>2, <1>3 DEF TypeInv, TypeOK, JobOK, Publish, Goto, ReaderStates, hubVars,
     tableVars
<1>4. CASE Finish(c, "publish")
  BY <1>2, <1>4 DEF TypeInv, TypeOK, JobOK, Publish, Finish, Goto, ReaderStates, hubVars,
     tableVars
<1> QED BY <1>3, <1>4 DEF Publish

LEMMA TypeEcho == ASSUME TypeInv, NEW c \in Conns, Echo(c) PROVE TypeInv'
<1>1. job[c] \in PostJobs
  BY DEF TypeInv, JobOK, Echo, Finish, Goto
<1>2. <<"user", UserOf[c]>> \in Dests
  BY HubAssumption DEF Dests
<1>3. bcast' \in Seq(Outbound)
  BY <1>1, <1>2, BroadcastType DEF Echo
<1> QED
  BY <1>3 DEF TypeInv, TypeOK, JobOK, Echo, Finish, Goto, ReaderStates, hubVars, tableVars

LEMMA TypeDisconnect == ASSUME TypeInv, NEW c \in Conns, Disconnect(c) PROVE TypeInv'
BY DEF TypeInv, TypeOK, JobOK, Disconnect, Goto, ReaderStates, hubVars, tableVars

LEMMA TypeCloseSocket == ASSUME TypeInv, NEW c \in Conns, CloseSocket(c) PROVE TypeInv'
BY DEF TypeInv, TypeOK, JobOK, CloseSocket, Goto, ReaderStates, hubVars, tableVars

LEMMA TypeWriteEvent == ASSUME TypeInv, NEW c \in Conns, WriteEvent(c) PROVE TypeInv'
<1>1. Head(sendq[c]) \in Events /\ Tail(sendq[c]) \in Seq(Events)
  BY DEF TypeInv, TypeOK, WriteEvent
<1>2. sendq' \in [Conns -> Seq(Events)] /\ wire' \in [Conns -> Seq(Events)]
  BY <1>1 DEF TypeInv, TypeOK, WriteEvent
<1> QED
  BY <1>2 DEF TypeInv, TypeOK, JobOK, WriteEvent, connVars, hubVars, tableVars

LEMMA TypeWriteFails == ASSUME TypeInv, NEW c \in Conns, WriteFails(c) PROVE TypeInv'
<1>1. Head(sendq[c]) \in Events /\ Tail(sendq[c]) \in Seq(Events)
  BY DEF TypeInv, TypeOK, WriteFails
<1>2. sendq' \in [Conns -> Seq(Events)] /\ lost' \in [Conns -> SUBSET Events]
  BY <1>1 DEF TypeInv, TypeOK, WriteFails
<1> QED
  BY <1>2 DEF TypeInv, TypeOK, JobOK, WriteFails, hubVars, tableVars

LEMMA TypeHubRegister == ASSUME TypeInv, NEW c \in Conns, HubRegister(c) PROVE TypeInv'
BY HubStateTypes DEF TypeInv, TypeOK, JobOK, HubRegister, Goto, ReaderStates, tableVars

LEMMA TypeHubUnregister ==
    ASSUME TypeInv, NEW c \in Conns, HubUnregister(c) PROVE TypeInv'
BY HubStateTypes DEF TypeInv, TypeOK, JobOK, HubUnregister, Goto, ReaderStates, tableVars

LEMMA TypeHubAdd == ASSUME TypeInv, HubAdd PROVE TypeInv'
<1>1. hub.conn \in Conns /\ UserOf[hub.conn] \in Users
  BY HubAssumption, HubShape DEF TypeInv, TypeOK, HubAdd
<1>2. sendq' \in [Conns -> Seq(Events)] /\ lost' \in [Conns -> SUBSET Events]
  BY <1>1, EventTypes, OfferType DEF TypeInv, TypeOK, HubAdd
<1> QED
  BY <1>1, <1>2, HubStateTypes DEF TypeInv, TypeOK, JobOK, HubAdd, connVars, tableVars

LEMMA TypeHubSend == ASSUME TypeInv, HubSend PROVE TypeInv'
<1>1. hub.msg.event \in Events
  BY HubShape, OutboundShape DEF TypeInv, TypeOK, HubSend
<1>2. sendq' \in [Conns -> Seq(Events)] /\ lost' \in [Conns -> SUBSET Events]
  BY <1>1, OfferType DEF TypeInv, HubSend
<1> QED
  BY <1>2, HubStateTypes DEF TypeInv, TypeOK, JobOK, HubSend, connVars, tableVars

LEMMA TypeHTTPStep == ASSUME TypeInv, HTTPStep PROVE TypeInv'
<1>1. HttpUsers \subseteq Users
  BY HubAssumption
<1>2. members' \in SUBSET (Rooms \X Users)
  BY <1>1 DEF TypeInv, TypeOK, HTTPStep, HTTPJoin, HTTPLeave
<1> QED
  BY <1>2 DEF TypeInv, TypeOK, JobOK, HTTPStep, HTTPJoin, HTTPLeave, connVars, hubVars

LEMMA TypeHubRemove == ASSUME TypeInv, HubRemove PROVE TypeInv'
<1>1. hub.conn \in Conns /\ UserOf[hub.conn] \in Users
  BY HubAssumption, HubShape DEF TypeInv, TypeOK, HubRemove
<1>2. sendq' \in [Conns -> Seq(Events)] /\ lost' \in [Conns -> SUBSET Events]
  BY <1>1, EventTypes, OfferType DEF TypeInv, TypeOK, HubRemove
<1> QED
  BY <1>1, <1>2, HubStateTypes DEF TypeInv, TypeOK, JobOK, HubRemove, connVars, tableVars

LEMMA TypeHubTake == ASSUME TypeInv, HubTake PROVE TypeInv'
BY HubStateTypes DEF TypeInv, TypeOK, JobOK, HubTake, connVars, tableVars

(* Every variable of the gateway keeps its type through every step. *)
LEMMA TypeStep == TypeInv /\ [Next]_vars => TypeInv'
<1> SUFFICES ASSUME TypeInv, [Next]_vars PROVE TypeInv'
  OBVIOUS
<1>1. ASSUME NEW c \in Conns, Request(c) PROVE TypeInv'
  BY <1>1, TypeReceive, TypeRejectJoin, TypeMarkRead DEF Request
<1>2. ASSUME NEW c \in Conns, Serve(c) PROVE TypeInv'
  BY <1>2, TypeJoinStore, TypeSubscribeRoom, TypeConfirmJoin, TypeLeaveStore,
     TypeUnsubscribeRoom, TypeCheckMember, TypeCreateMessage, TypeCreateFails, TypePublish,
     TypeEcho, TypeCloseSocket DEF Serve
<1>3. ASSUME NEW c \in Conns, Connect(c) \/ Disconnect(c) \/ Write(c) PROVE TypeInv'
  BY <1>3, TypeConnect, TypeDisconnect, TypeWriteEvent, TypeWriteFails DEF Write
<1>4. ASSUME HubStep PROVE TypeInv'
  BY <1>4, TypeHubRegister, TypeHubUnregister, TypeHubAdd, TypeHubRemove, TypeHubTake,
     TypeHubSend DEF HubStep
<1> QED
  BY <1>1, <1>2, <1>3, <1>4, TypeHTTPStep, TypeStutter DEF Next

LEMMA TypeCorrect == Spec => []TypeInv
BY TypeInit, TypeStep, PTL DEF Spec

(* The gateway of hub.go and conn.go is type-correct. *)
THEOREM HubTypeOK == Spec => []TypeOK
<1>1. TypeInv => TypeOK
  BY DEF TypeInv
<1> QED BY <1>1, TypeCorrect, PTL

-----------------------------------------------------------------------------
(* Who is in the hub's tables. *)

Early == {"absent", "registering"}
Late  == {"unregistered", "gone"}

(* The connection the hub has taken from a channel has gone on meanwhile:   *)
(* one being added is alive and cannot leave before the hub is back in its  *)
(* select, one being removed is past its own unregister.                    *)
LifeOK ==
    \A c \in Conns : /\ Being(c, "add") => pc[c] \notin Early \cup Late
                     /\ Being(c, "remove") => pc[c] \in Late

GhostInv == LifeOK /\ NoGhostConn

(* A step that leaves the hub alone and moves no connection into or out of  *)
(* its life changes nothing here.                                           *)
LEMMA GhostQuiet ==
    ASSUME GhostInv, UNCHANGED hubVars,
           \A c \in Conns : /\ pc'[c] \in Early <=> pc[c] \in Early
                            /\ pc'[c] \in Late <=> pc[c] \in Late
    PROVE  GhostInv'
BY DEF GhostInv, LifeOK, NoGhostConn, Being, hubVars, Early, Late

LEMMA GhostInit == Init => GhostInv
BY DEF Init, GhostInv, LifeOK, NoGhostConn, Being, Early, Late, Select

LEMMA GhostConn ==
    ASSUME TypeOK, GhostInv, NEW c \in Conns,
           \/ Connect(c) \/ Request(c) \/ Disconnect(c) \/ Write(c)
           \/ Serve(c) /\ ~SubscribeRoom(c) /\ ~UnsubscribeRoom(c)
    PROVE  GhostInv'
<1>1. UNCHANGED hubVars
  BY DEF Connect, Request, Receive, RejectJoin, MarkRead, Disconnect, Write, WriteEvent, WriteFails,
     Serve, JoinStore, ConfirmJoin, LeaveStore, CheckMember, CreateMessage, CreateFails,
     Publish, Echo, CloseSocket
<1>2. \A d \in Conns : /\ pc'[d] \in Early <=> pc[d] \in Early
                       /\ pc'[d] \in Late <=> pc[d] \in Late
  <2>1. \/ UNCHANGED pc
        \/ \E from, to : /\ Goto(c, from, to)
                         /\ from \in Early <=> to \in Early
                         /\ from \in Late <=> to \in Late
    <3>1. CASE Request(c)
      BY <3>1 DEF Request, Receive, RejectJoin, MarkRead, connVars, Early, Late, Goto
    <3>2. CASE Serve(c)
      <4> DEFINE atWork == {"join", "subscribe", "confirm", "leave", "unsubscribe", "check",
                            "store", "publish", "echo", "reading"}
      <4>1. (\E from, to \in atWork : Goto(c, from, to)) \/ Goto(c, "unregistered", "gone")
        <5>1. CASE CloseSocket(c)
          BY <5>1 DEF CloseSocket
        <5>2. CASE \/ JoinStore(c) \/ SubscribeRoom(c) \/ ConfirmJoin(c)
                   \/ LeaveStore(c) \/ UnsubscribeRoom(c)
          BY <5>2 DEF JoinStore, SubscribeRoom, ConfirmJoin, LeaveStore, UnsubscribeRoom, Finish
        <5>3. CASE CheckMember(c) \/ CreateMessage(c) \/ CreateFails(c)
          BY <5>3 DEF CheckMember, CreateMessage, CreateFails, Finish
        <5>4. CASE Publish(c) \/ Echo(c)
          BY <5>4 DEF Publish, Echo, Finish
        <5> QED BY <3>2, <5>1, <5>2, <5>3, <5>4 DEF Serve
      <4>2. \A s \in atWork : s \notin Early /\ s \notin Late
        BY DEF Early, Late
      <4>3. {"unregistered", "gone"} \subseteq Late /\ {"unregistered", "gone"} \cap Early = {}
        BY DEF Early, Late
      <4> HIDE DEF atWork
      <4> QED BY <4>1, <4>2, <4>3
    <3>3. CASE Connect(c) \/ Disconnect(c) \/ Write(c)
      BY <3>3 DEF Connect, Disconnect, Write, WriteEvent, WriteFails, connVars, Early, Late
    <3> QED BY <3>1, <3>2, <3>3
  <2> QED BY <2>1 DEF Goto, TypeOK
<1> QED BY <1>1, <1>2, GhostQuiet

LEMMA GhostSubscribe ==
    ASSUME TypeOK, GhostInv, NEW c \in Conns, SubscribeRoom(c) \/ UnsubscribeRoom(c)
    PROVE  GhostInv'
<1>1. /\ UNCHANGED <<hub, users>>
      /\ pc[c] \notin Early \cup Late
      /\ pc'[c] \notin Early \cup Late
      /\ \A d \in Conns \ {c} : pc'[d] = pc[d]
      /\ \A r \in Rooms, d \in Conns \ {c} : d \in rooms'[r] => d \in rooms[r]
  <2>1. CASE SubscribeRoom(c)
    BY <2>1 DEF SubscribeRoom, Goto, TypeOK, Early, Late
  <2>2. CASE UnsubscribeRoom(c)
    BY <2>2 DEF UnsubscribeRoom, Finish, Goto, TypeOK, Early, Late
  <2> QED BY <2>1, <2>2
<1> QED BY <1>1 DEF GhostInv, LifeOK, NoGhostConn, Being, Early, Late

LEMMA GhostHubRegister ==
    ASSUME TypeOK, GhostInv, NEW c \in Conns, HubRegister(c) PROVE GhostInv'
BY DEF HubRegister, Goto, TypeOK, GhostInv, LifeOK, NoGhostConn, Being, Early, Late, Select

LEMMA GhostHubUnregister ==
    ASSUME TypeOK, GhostInv, NEW c \in Conns, HubUnregister(c) PROVE GhostInv'
BY DEF HubUnregister, Goto, TypeOK, GhostInv, LifeOK, NoGhostConn, Being, Early, Late, Select

LEMMA GhostHubAdd == ASSUME TypeOK, GhostInv, HubAdd PROVE GhostInv'
<1>1. hub.conn \in Conns /\ UserOf[hub.conn] \in Users
  BY HubAssumption, HubShape DEF TypeOK, HubAdd
<1> QED
  BY <1>1 DEF HubAdd, TypeOK, GhostInv, LifeOK, NoGhostConn, Being, Early, Late, Select,
     connVars

LEMMA GhostHubRemove == ASSUME TypeOK, GhostInv, HubRemove PROVE GhostInv'
<1>1. hub.conn \in Conns /\ UserOf[hub.conn] \in Users
  BY HubAssumption, HubShape DEF TypeOK, HubRemove
<1>2. /\ users' = [users EXCEPT ![UserOf[hub.conn]] = @ \ {hub.conn}]
      /\ rooms' = [r \in Rooms |-> rooms[r] \ {hub.conn}]
      /\ hub' = Select /\ UNCHANGED pc
  BY DEF HubRemove, connVars
<1> QED
  BY <1>1, <1>2 DEF HubRemove, TypeOK, GhostInv, LifeOK, NoGhostConn, Being, Early, Late,
     Select

LEMMA GhostHubSend == ASSUME TypeOK, GhostInv, HubTake \/ HubSend PROVE GhostInv'
BY DEF HubTake, HubSend, GhostInv, LifeOK, NoGhostConn, Being, Early, Late, Select, connVars

LEMMA GhostStep == TypeOK /\ GhostInv /\ [Next]_vars => GhostInv'
<1> SUFFICES ASSUME TypeOK, GhostInv, [Next]_vars PROVE GhostInv'
  OBVIOUS
<1>1. CASE HTTPStep \/ UNCHANGED vars
  BY <1>1, GhostQuiet DEF HTTPStep, HTTPJoin, HTTPLeave, vars, connVars, hubVars
<1>2. CASE HubStep
  BY <1>2, GhostHubRegister, GhostHubUnregister, GhostHubAdd, GhostHubRemove, GhostHubSend
     DEF HubStep
<1>3. ASSUME NEW c \in Conns,
             Connect(c) \/ Request(c) \/ Serve(c) \/ Disconnect(c) \/ Write(c)
      PROVE  GhostInv'
  BY <1>3, GhostConn, GhostSubscribe
<1> QED BY <1>1, <1>2, <1>3 DEF Next

(* No connection the hub has removed, or not yet added, is in its tables, so *)
(* nothing is ever sent to a goroutine that has ended, and every live one    *)
(* is reached through its user.                                              *)
THEOREM HubNoGhostConn == Spec => []NoGhostConn
<1>1. GhostInv => NoGhostConn
  BY DEF GhostInv
<1> QED BY <1>1, GhostInit, GhostStep, HubTypeOK, PTL DEF Spec

-----------------------------------------------------------------------------
(* Conn.rooms and Hub.rooms. *)

(* The rooms the hub sends to c for. *)
Subscribed(c) == {r \in Rooms : c \in rooms[r]}

(* In the middle of a join or a leave the two differ by the room of the job, *)
(* which the hub knows first when joining and last when leaving.             *)
RoomsInv ==
    \A c \in Conns :
        /\ pc[c] \notin {"confirm", "unsubscribe"} \cup Late => connRooms[c] = Subscribed(c)
        /\ pc[c] = "confirm" => Subscribed(c) = connRooms[c] \cup {job[c].dest[2]}
        /\ pc[c] = "unsubscribe" => connRooms[c] = Subscribed(c) \ {job[c].dest[2]}

LEMMA RoomsInit == Init => RoomsInv
BY DEF Init, RoomsInv, Subscribed, Late

(* A step that touches neither table and neither enters nor leaves the       *)
(* middle of a join or a leave.                                              *)
LEMMA RoomsQuiet ==
    ASSUME RoomsInv, UNCHANGED <<rooms, connRooms>>,
           \A c \in Conns :
              \/ pc'[c] = pc[c] /\ job'[c] = job[c]
              \/ /\ pc[c] \notin {"confirm", "unsubscribe"} \cup Late
                 /\ pc'[c] \notin {"confirm", "unsubscribe"}
              \/ pc'[c] \in Late
    PROVE  RoomsInv'
BY DEF RoomsInv, Subscribed, Late

LEMMA RoomsReceive ==
    ASSUME TypeOK, RoomsInv, NEW c \in Conns, NEW kind, NEW dest, Receive(c, kind, dest)
    PROVE  RoomsInv'
<1>1. /\ UNCHANGED <<rooms, connRooms>>
      /\ pc[c] = "reading" /\ pc'[c] \notin {"confirm", "unsubscribe"}
      /\ \A d \in Conns \ {c} : pc'[d] = pc[d] /\ job'[d] = job[d]
  BY DEF Receive, Goto, TypeOK, hubVars
<1> QED BY <1>1, RoomsQuiet DEF Late

LEMMA RoomsServeQuiet ==
    ASSUME TypeOK, RoomsInv, NEW c \in Conns,
           \/ JoinStore(c) \/ CheckMember(c) \/ CreateMessage(c) \/ CreateFails(c)
           \/ Publish(c) \/ Echo(c) \/ CloseSocket(c) \/ Connect(c) \/ Disconnect(c)
    PROVE  RoomsInv'
<1>1. UNCHANGED <<rooms, connRooms>>
  BY DEF JoinStore, CheckMember, CreateMessage, CreateFails, Publish, Echo, CloseSocket,
     Connect, Disconnect, hubVars, connVars
<1>2. \A d \in Conns \ {c} : pc'[d] = pc[d] /\ job'[d] = job[d]
  BY DEF JoinStore, CheckMember, CreateMessage, CreateFails, Publish, Echo, CloseSocket,
     Connect, Disconnect, Finish, Goto, TypeOK
<1>3. \/ /\ pc[c] \notin {"confirm", "unsubscribe"} \cup Late
         /\ pc'[c] \notin {"confirm", "unsubscribe"}
      \/ pc'[c] \in Late
  BY DEF JoinStore, CheckMember, CreateMessage, CreateFails, Publish, Echo, CloseSocket,
     Connect, Disconnect, Finish, Goto, TypeOK, Late
<1> QED BY <1>1, <1>2, <1>3, RoomsQuiet

LEMMA RoomsJoin ==
    ASSUME TypeInv, RoomsInv, NEW c \in Conns, SubscribeRoom(c) \/ ConfirmJoin(c)
    PROVE  RoomsInv'
<1>1. job[c].dest[2] \in Rooms
  BY RoomJobShape DEF TypeInv, JobOK, SubscribeRoom, ConfirmJoin, Finish, Goto
<1>2. CASE SubscribeRoom(c)
  BY <1>1, <1>2 DEF SubscribeRoom, Goto, TypeInv, TypeOK, RoomsInv, Subscribed, Late
<1>3. CASE ConfirmJoin(c)
  BY <1>1, <1>3 DEF ConfirmJoin, Finish, Goto, TypeInv, TypeOK, RoomsInv, Subscribed, Late,
     hubVars
<1> QED BY <1>2, <1>3

LEMMA RoomsLeave ==
    ASSUME TypeInv, RoomsInv, NEW c \in Conns, LeaveStore(c) \/ UnsubscribeRoom(c)
    PROVE  RoomsInv'
<1>1. job[c].dest[2] \in Rooms
  BY RoomJobShape DEF TypeInv, JobOK, LeaveStore, UnsubscribeRoom, Finish, Goto
<1>2. CASE LeaveStore(c)
  BY <1>1, <1>2 DEF LeaveStore, Goto, TypeInv, TypeOK, RoomsInv, Subscribed, Late, hubVars
<1>3. CASE UnsubscribeRoom(c)
  BY <1>1, <1>3 DEF UnsubscribeRoom, Finish, Goto, TypeInv, TypeOK, RoomsInv, Subscribed,
     Late
<1> QED BY <1>2, <1>3

LEMMA RoomsHub == ASSUME TypeOK, GhostInv, RoomsInv, HubStep PROVE RoomsInv'
<1>1. CASE HubRemove
  <2>1. hub.conn \in Conns /\ pc[hub.conn] \in Late
    BY <1>1, HubShape DEF TypeOK, HubRemove, GhostInv, LifeOK, Being
  <2>2. /\ UNCHANGED <<pc, job, connRooms>>
        /\ rooms' = [r \in Rooms |-> rooms[r] \ {hub.conn}]
    BY <1>1 DEF HubRemove, connVars
  <2> QED BY <2>1, <2>2 DEF RoomsInv, Subscribed, Late
<1>2. CASE HubAdd \/ HubTake \/ HubSend
  BY <1>2, RoomsQuiet DEF HubAdd, HubTake, HubSend, connVars
<1>3. ASSUME NEW c \in Conns, HubRegister(c) \/ HubUnregister(c)
      PROVE  RoomsInv'
  BY <1>3, RoomsQuiet DEF HubRegister, HubUnregister, Goto, TypeOK, Late
<1> QED BY <1>1, <1>2, <1>3 DEF HubStep

LEMMA RoomsStep == TypeInv /\ GhostInv /\ RoomsInv /\ [Next]_vars => RoomsInv'
<1> SUFFICES ASSUME TypeInv, GhostInv, RoomsInv, [Next]_vars PROVE RoomsInv'
  OBVIOUS
<1>1. CASE HTTPStep \/ UNCHANGED vars
  BY <1>1, RoomsQuiet DEF HTTPStep, HTTPJoin, HTTPLeave, vars, connVars, hubVars
<1>2. CASE HubStep
  BY <1>2, RoomsHub DEF TypeInv
<1>3. ASSUME NEW c \in Conns, Serve(c) \/ Connect(c) \/ Disconnect(c)
      PROVE  RoomsInv'
  BY <1>3, RoomsServeQuiet, RoomsJoin, RoomsLeave DEF Serve, TypeInv
<1>4. ASSUME NEW c \in Conns, Request(c)
      PROVE  RoomsInv'
  BY <1>4, RoomsReceive, RoomsQuiet DEF Request, RejectJoin, MarkRead, TypeInv, connVars, hubVars
<1>5. ASSUME NEW c \in Conns, Write(c)
      PROVE  RoomsInv'
  BY <1>5, RoomsQuiet DEF Write, WriteEvent, WriteFails, connVars, hubVars
<1> QED BY <1>1, <1>2, <1>3, <1>4, <1>5 DEF Next

(* A client between two requests receives the messages of exactly the rooms  *)
(* its connection believes it is in, although Conn.rooms is written outside  *)
(* the lock that guards Hub.rooms.                                           *)
THEOREM HubRoomsMatchConn == Spec => []RoomsMatchConn
<1>1. RoomsInv => RoomsMatchConn
  BY DEF RoomsInv, RoomsMatchConn, Subscribed, Late
<1> QED
  BY <1>1, TypeCorrect, GhostInit, GhostStep, RoomsInit, RoomsStep, PTL DEF Spec, TypeInv

-----------------------------------------------------------------------------
(* What a goroutine in the middle of a post is posting. *)

Posting == {"check", "store", "publish", "echo"}

(* The message a goroutine is publishing is the one it has stored, and only a *)
(* direct one is published a second time.                                    *)
RequestInv ==
    \A c \in Conns :
        /\ pc[c] \in {"check", "store", "echo"} => job[c].kind = "message"
        /\ pc[c] = "echo" => job[c].dest[1] = "user"
        /\ pc[c] \in {"publish", "echo"} /\ job[c].kind = "message" =>
              /\ job[c].id \in 1 .. Len(stored)
              /\ stored[job[c].id] = [sender |-> c, dest |-> job[c].dest]

LEMMA RequestInit == Init => RequestInv
BY DEF Init, RequestInv

(* A step that stores nothing and leaves who is posting to go on. *)
LEMMA RequestQuiet ==
    ASSUME RequestInv, UNCHANGED stored,
           \A c \in Conns : \/ pc'[c] = pc[c] /\ job'[c] = job[c]
                            \/ pc'[c] \notin Posting
    PROVE  RequestInv'
BY DEF RequestInv, Posting

LEMMA RequestReceive ==
    ASSUME TypeInv, RequestInv, NEW c \in Conns, NEW dest \in Targets,
           NEW kind \in Kinds \ {"bad_join", "read"}, Receive(c, kind, dest)
    PROVE  RequestInv'
<1>1. kind \in {"join_room", "leave_room", "message", "typing"}
  BY HubAssumption
<1>2. /\ UNCHANGED stored
      /\ job'[c].kind = kind
      /\ pc'[c] \in {"check", "store"} => kind = "message"
      /\ pc'[c] = "publish" => kind = "typing"
      /\ pc'[c] # "echo"
      /\ \A d \in Conns \ {c} : pc'[d] = pc[d] /\ job'[d] = job[d]
  BY <1>1 DEF Receive, Goto, TypeInv, TypeOK, tableVars
<1> QED BY <1>2 DEF RequestInv

LEMMA RequestCreate ==
    ASSUME TypeInv, RequestInv, NEW c \in Conns, CreateMessage(c)
    PROVE  RequestInv'
<1> DEFINE m == [sender |-> c, dest |-> job[c].dest]
           n == Len(stored) + 1
<1>1. job[c] \in PostJobs /\ pc[c] = "store" /\ job[c].kind = "message"
  BY DEF TypeInv, JobOK, RequestInv, CreateMessage, Goto
<1>2. /\ stored' = Append(stored, m) /\ stored \in Seq([sender : Conns, dest : Dests])
      /\ m \in [sender : Conns, dest : Dests]
  BY <1>1, PostJobShape DEF CreateMessage, TypeInv, TypeOK
<1>3. /\ Len(stored') = n /\ n \in Nat \ {0} /\ stored'[n] = m
      /\ \A i \in 1 .. Len(stored) : i \in 1 .. Len(stored') /\ stored'[i] = stored[i]
  BY <1>2
<1>4. /\ pc'[c] = "publish"
      /\ job'[c] = [job[c] EXCEPT !.id = n]
      /\ \A d \in Conns \ {c} : pc'[d] = pc[d] /\ job'[d] = job[d]
  BY DEF CreateMessage, Goto, TypeInv, TypeOK
<1>5. job'[c].id = n /\ job'[c].dest = job[c].dest
  BY <1>1, <1>4 DEF PostJobs
<1> HIDE DEF n
<1>6. /\ n \in 1 .. Len(stored') /\ stored'[n] = [sender |-> c, dest |-> job'[c].dest]
      /\ pc'[c] = "publish" /\ job'[c].id = n
  BY <1>3, <1>4, <1>5 DEF n
<1>7. \A d \in Conns \ {c}, i \in 1 .. Len(stored) :
          stored[i] = [sender |-> d, dest |-> job[d].dest]
          => i \in 1 .. Len(stored') /\ stored'[i] = [sender |-> d, dest |-> job'[d].dest]
  BY <1>3, <1>4
<1>8. ASSUME NEW d \in Conns \ {c}
      PROVE  /\ pc'[d] \in {"check", "store", "echo"} => job'[d].kind = "message"
             /\ pc'[d] = "echo" => job'[d].dest[1] = "user"
             /\ pc'[d] \in {"publish", "echo"} /\ job'[d].kind = "message" =>
                   /\ job'[d].id \in 1 .. Len(stored')
                   /\ stored'[job'[d].id] = [sender |-> d, dest |-> job'[d].dest]
  <2>1. pc'[d] = pc[d] /\ job'[d] = job[d]
    BY <1>4
  <2> QED BY <2>1, <1>7 DEF RequestInv
<1> QED BY <1>6, <1>8 DEF RequestInv

LEMMA RequestServe ==
    ASSUME TypeInv, RequestInv, NEW c \in Conns, Serve(c)
    PROVE  RequestInv'
<1>1. \A d \in Conns \ {c} : pc'[d] = pc[d] /\ job'[d] = job[d]
  BY DEF Serve, JoinStore, SubscribeRoom, ConfirmJoin, LeaveStore, UnsubscribeRoom, CheckMember,
     CreateMessage, CreateFails, Publish, Echo, CloseSocket, Finish, Goto, TypeInv, TypeOK
<1>2. CASE CheckMember(c) \/ Publish(c)
  <2>1. /\ UNCHANGED stored
        /\ \/ pc[c] = "check" /\ pc'[c] = "store" /\ job'[c] = job[c]
           \/ /\ pc[c] = "publish" /\ pc'[c] = "echo" /\ job'[c] = job[c]
              /\ job[c].kind = "message" /\ job[c].dest[1] = "user"
           \/ pc'[c] = "reading"
    BY <1>2 DEF CheckMember, Publish, Finish, Goto, TypeInv, TypeOK, tableVars
  <2> QED BY <1>1, <2>1 DEF RequestInv
<1>3. CASE \/ JoinStore(c) \/ SubscribeRoom(c) \/ ConfirmJoin(c) \/ LeaveStore(c)
           \/ UnsubscribeRoom(c) \/ CreateFails(c) \/ Echo(c) \/ CloseSocket(c)
  <2>1. UNCHANGED stored /\ pc'[c] \notin Posting
    BY <1>3 DEF JoinStore, SubscribeRoom, ConfirmJoin, LeaveStore, UnsubscribeRoom, CreateFails,
       Echo, CloseSocket, Finish, Goto, Posting, TypeInv, TypeOK, tableVars
  <2> QED BY <1>1, <2>1, RequestQuiet
<1> QED BY <1>2, <1>3, RequestCreate DEF Serve

LEMMA RequestOther ==
    ASSUME TypeInv, RequestInv, NEW c \in Conns, Connect(c) \/ Disconnect(c) \/ Write(c)
    PROVE  RequestInv'
<1>1. /\ UNCHANGED stored
      /\ \A d \in Conns : \/ pc'[d] = pc[d] /\ job'[d] = job[d]
                          \/ pc'[d] \notin Posting
  BY DEF Connect, Disconnect, Write, WriteEvent, WriteFails, Goto, Posting, TypeInv, TypeOK,
     connVars, tableVars
<1> QED BY <1>1, RequestQuiet

LEMMA RequestHub == ASSUME TypeInv, RequestInv, HubStep PROVE RequestInv'
<1>1. /\ UNCHANGED stored
      /\ \A d \in Conns : \/ pc'[d] = pc[d] /\ job'[d] = job[d]
                          \/ pc'[d] \notin Posting
  <2>1. ASSUME NEW c \in Conns, HubRegister(c) \/ HubUnregister(c)
        PROVE  /\ UNCHANGED <<stored, job>>
               /\ \E to \in {"reading", "unregistered"} : pc' = [pc EXCEPT ![c] = to]
    BY <2>1 DEF HubRegister, HubUnregister, Goto, tableVars
  <2>2. CASE HubAdd \/ HubRemove \/ HubTake \/ HubSend
    BY <2>2 DEF HubAdd, HubRemove, HubTake, HubSend, connVars, tableVars
  <2>3. CASE \E c \in Conns : HubRegister(c) \/ HubUnregister(c)
    BY <2>1, <2>3 DEF Posting, TypeInv, TypeOK
  <2> QED BY <2>2, <2>3 DEF HubStep
<1> QED BY <1>1, RequestQuiet

LEMMA RequestStep == TypeInv /\ RequestInv /\ [Next]_vars => RequestInv'
<1> SUFFICES ASSUME TypeInv, RequestInv, [Next]_vars PROVE RequestInv'
  OBVIOUS
<1>1. CASE HTTPStep \/ UNCHANGED vars
  BY <1>1, RequestQuiet DEF HTTPStep, HTTPJoin, HTTPLeave, vars, connVars
<1>2. ASSUME NEW c \in Conns, Request(c)
      PROVE  RequestInv'
  BY <1>2, RequestReceive, RequestQuiet DEF Request, RejectJoin, MarkRead, connVars, tableVars
<1> QED BY <1>1, <1>2, RequestServe, RequestOther, RequestHub DEF Next

(* All that is known of the gateway's control in every reachable state. *)
HubInv == TypeInv /\ GhostInv /\ RoomsInv /\ RequestInv

LEMMA OutboundType ==
    ASSUME HubInv, NEW c \in Conns, pc[c] \in {"publish", "echo"}
    PROVE  /\ job[c] \in PostJobs /\ job[c].dest \in Dests
           /\ <<"user", UserOf[c]>> \in Dests
           /\ \A d \in Dests : OutboundFor(c, d) \in Outbound
<1>1. /\ job[c] \in PostJobs /\ job[c].dest \in Dests /\ job[c].id \in Nat
      /\ UserOf[c] \in Users
  BY HubAssumption, PostJobShape DEF HubInv, TypeInv, JobOK
<1>2. \A d \in Dests : OutboundFor(c, d).event \in Events
  BY <1>1, EventTypes DEF OutboundFor
<1>3. \A d \in Dests : OutboundFor(c, d) \in Outbound
  BY <1>2 DEF OutboundFor, Outbound
<1> QED BY <1>1, <1>3 DEF Dests

LEMMA HubCorrect == Spec => []HubInv
<1>1. Init => HubInv
  BY TypeInit, GhostInit, RoomsInit, RequestInit DEF HubInv
<1>2. HubInv /\ [Next]_vars => HubInv'
  BY TypeStep, GhostStep, RoomsStep, RequestStep DEF HubInv, TypeInv
<1> QED BY <1>1, <1>2, PTL DEF Spec

-----------------------------------------------------------------------------
(* What the steps do to the log of a connection. *)

(* Sequences in two parts, as a log is: what was written, what is buffered. *)
LEMMA ConcatAppend ==
    ASSUME NEW S, NEW s \in Seq(S), NEW t \in Seq(S), NEW e \in S
    PROVE  /\ s \o Append(t, e) = Append(s \o t, e)
           /\ s \o t \in Seq(S)
<1>1. /\ Append(t, e) = t \o <<e>> /\ s \o t \in Seq(S) /\ <<e>> \in Seq(S)
      /\ Append(s \o t, e) = (s \o t) \o <<e>>
  <2>1. s \o t \in Seq(S)
    BY ConcatProperties
  <2>2. Append(s \o t, e) = (s \o t) \o <<e>>
    BY <2>1, AppendIsConcat
  <2>3. Append(t, e) = t \o <<e>>
    BY AppendIsConcat
  <2> QED BY <2>1, <2>2, <2>3
<1>2. (s \o t) \o <<e>> = s \o (t \o <<e>>)
  BY <1>1, ConcatAssociative
<1> QED BY <1>1, <1>2

LEMMA ConsParts ==
    ASSUME NEW S, NEW x \in S, NEW t \in Seq(S)
    PROVE  /\ <<x>> \o t \in Seq(S) /\ <<x>> \o t # <<>>
           /\ Head(<<x>> \o t) = x /\ Tail(<<x>> \o t) = t
<1>1. /\ <<x>> \in Seq(S) /\ Len(<<x>>) = 1 /\ <<x>>[1] = x /\ Len(t) \in Nat
  OBVIOUS
<1>2. /\ <<x>> \o t \in Seq(S)
      /\ Len(<<x>> \o t) = Len(<<x>>) + Len(t)
      /\ \A i \in 1 .. Len(<<x>>) + Len(t) :
            (<<x>> \o t)[i] = IF i <= Len(<<x>>) THEN <<x>>[i] ELSE t[i - Len(<<x>>)]
  BY <1>1, ConcatProperties
<1> DEFINE u == <<x>> \o t
<1>3. /\ u \in Seq(S) /\ Len(u) = Len(t) + 1 /\ u[1] = x
      /\ \A i \in 1 .. Len(t) : u[i + 1] = t[i]
  BY <1>1, <1>2
<1> HIDE DEF u
<1>4. u # <<>> /\ Head(u) = x
  BY <1>1, <1>3
<1>5. /\ Tail(u) \in Seq(S) /\ Len(Tail(u)) = Len(t)
      /\ \A i \in 1 .. Len(t) : Tail(u)[i] = t[i]
  BY <1>1, <1>3, <1>4
<1>6. Tail(u) = t
  BY <1>5, SeqEqual
<1> QED BY <1>3, <1>4, <1>6 DEF u

LEMMA ConsHeadTail ==
    ASSUME NEW S, NEW s \in Seq(S), s # <<>>
    PROVE  <<Head(s)>> \o Tail(s) = s
<1>1. /\ Head(s) \in S /\ Tail(s) \in Seq(S) /\ Len(Tail(s)) = Len(s) - 1
      /\ Len(s) \in Nat \ {0} /\ Head(s) = s[1]
      /\ \A i \in 1 .. Len(s) - 1 : Tail(s)[i] = s[i + 1]
  OBVIOUS
<1>2. /\ <<Head(s)>> \in Seq(S) /\ Len(<<Head(s)>>) = 1 /\ <<Head(s)>>[1] = Head(s)
  BY <1>1
<1> DEFINE h == <<Head(s)>>
<1> HIDE DEF h
<1>3. /\ h \o Tail(s) \in Seq(S) /\ Len(h \o Tail(s)) = Len(h) + Len(Tail(s))
      /\ \A i \in 1 .. Len(h) + Len(Tail(s)) :
            (h \o Tail(s))[i] = IF i <= Len(h) THEN h[i] ELSE Tail(s)[i - Len(h)]
  BY <1>1, <1>2, ConcatProperties DEF h
<1>4. \A i \in 1 .. Len(s) : (h \o Tail(s))[i] = s[i]
  <2> TAKE i \in 1 .. Len(s)
  <2>1. CASE i = 1
    BY <1>1, <1>2, <1>3, <2>1 DEF h
  <2>2. CASE i # 1
    <3>1. i - 1 \in 1 .. Len(s) - 1 /\ (i - 1) + 1 = i
      BY <1>1, <2>2
    <3>2. Tail(s)[i - 1] = s[i]
      BY <1>1, <3>1
    <3> QED BY <1>1, <1>2, <1>3, <2>2, <3>2 DEF h
  <2> QED BY <2>1, <2>2
<1>5. Len(h \o Tail(s)) = Len(s)
  BY <1>1, <1>2, <1>3 DEF h
<1> QED BY <1>3, <1>4, <1>5, SeqEqual DEF h

(* An event written is no longer buffered, and the log is what it was. *)
LEMMA ConcatMove ==
    ASSUME NEW S, NEW s \in Seq(S), NEW t \in Seq(S), t # <<>>
    PROVE  Append(s, Head(t)) \o Tail(t) = s \o t
<1>1. /\ Head(t) \in S /\ Tail(t) \in Seq(S) /\ <<Head(t)>> \in Seq(S)
  OBVIOUS
<1>2. Append(s, Head(t)) = s \o <<Head(t)>>
  BY <1>1, AppendIsConcat
<1>3. (s \o <<Head(t)>>) \o Tail(t) = s \o (<<Head(t)>> \o Tail(t))
  BY <1>1, ConcatAssociative
<1>4. <<Head(t)>> \o Tail(t) = t
  BY ConsHeadTail
<1> QED BY <1>2, <1>3, <1>4

(* Conn.enqueue, for the connections that have space and for those that do not. *)
LEMMA OfferLog ==
    ASSUME TypeOK, NEW cs, NEW e \in Events, Offer(cs, e), UNCHANGED wire, NEW c \in Conns
    PROVE  /\ Log(c) \in Seq(Events)
           /\ c \in cs /\ HasSpace(c)  => Log(c)' = Append(Log(c), e) /\ lost'[c] = lost[c]
           /\ c \in cs /\ ~HasSpace(c) => Log(c)' = Log(c) /\ lost'[c] = lost[c] \cup {e}
           /\ c \notin cs => Log(c)' = Log(c) /\ lost'[c] = lost[c]
<1>1. wire[c] \in Seq(Events) /\ sendq[c] \in Seq(Events)
  BY DEF TypeOK
<1>2. /\ wire[c] \o Append(sendq[c], e) = Append(wire[c] \o sendq[c], e)
      /\ wire[c] \o sendq[c] \in Seq(Events)
  <2>1. \A p, q \in Seq(Events) : /\ p \o Append(q, e) = Append(p \o q, e)
                                  /\ p \o q \in Seq(Events)
    BY ConcatAppend
  <2> QED BY <1>1, <2>1
<1>3. /\ sendq'[c] = IF c \in cs /\ HasSpace(c) THEN Append(sendq[c], e) ELSE sendq[c]
      /\ lost'[c] = IF c \in cs /\ ~HasSpace(c) THEN lost[c] \cup {e} ELSE lost[c]
  BY DEF Offer
<1> QED BY <1>2, <1>3 DEF Log

LEMMA LogType == ASSUME TypeOK, NEW c \in Conns PROVE Log(c) \in Seq(Events)
<1>1. wire[c] \in Seq(Events) /\ sendq[c] \in Seq(Events)
  BY DEF TypeOK
<1>2. wire[c] \o sendq[c] \in Seq(Events)
  BY <1>1, ConcatProperties
<1> QED BY <1>2 DEF Log

LEMMA LogKept ==
    ASSUME UNCHANGED <<wire, sendq>>, NEW c \in Conns
    PROVE  Log(c)' = Log(c)
BY DEF Log

(* Writing an event moves it from the buffer to the socket. *)
LEMMA WriteLog ==
    ASSUME TypeOK, NEW c \in Conns, WriteEvent(c), NEW d \in Conns
    PROVE  Log(d)' = Log(d)
<1>1. wire[c] \in Seq(Events) /\ sendq[c] \in Seq(Events) /\ sendq[c] # <<>>
  BY DEF TypeOK, WriteEvent
<1>2. Append(wire[c], Head(sendq[c])) \o Tail(sendq[c]) = wire[c] \o sendq[c]
  BY <1>1, ConcatMove
<1>3. /\ sendq' = [sendq EXCEPT ![c] = Tail(@)]
      /\ wire' = [wire EXCEPT ![c] = Append(@, Head(sendq[c]))]
  BY DEF WriteEvent
<1> QED BY <1>2, <1>3 DEF Log, TypeOK

(* A failed write takes one event from the log, and it counts as lost. *)
LEMMA DropLog ==
    ASSUME TypeOK, NEW c \in Conns, WriteFails(c)
    PROVE  /\ \A d \in Conns \ {c} : Log(d)' = Log(d) /\ lost'[d] = lost[d]
           /\ \E n \in 1 .. Len(Log(c)) :
                 /\ lost'[c] = lost[c] \cup {Log(c)[n]}
                 /\ Log(c)' \in Seq(Events) /\ Len(Log(c)') = Len(Log(c)) - 1
                 /\ \A k \in 1 .. Len(Log(c)) - 1 :
                       Log(c)'[k] = IF k < n THEN Log(c)[k] ELSE Log(c)[k + 1]
<1> DEFINE w == wire[c]
           q == sendq[c]
           n == Len(w) + 1
<1>1. /\ w \in Seq(Events) /\ q \in Seq(Events) /\ q # <<>>
      /\ sendq' = [sendq EXCEPT ![c] = Tail(@)]
      /\ UNCHANGED wire
      /\ lost' = [lost EXCEPT ![c] = @ \cup {Head(q)}]
  BY DEF TypeOK, WriteFails
<1>2. \A d \in Conns \ {c} : Log(d)' = Log(d) /\ lost'[d] = lost[d]
  BY <1>1 DEF Log, TypeOK
<1>3. /\ Log(c) = w \o q /\ Log(c)' = w \o Tail(q)
      /\ lost'[c] = lost[c] \cup {Head(q)}
  BY <1>1 DEF Log, TypeOK
<1> HIDE DEF w, q
<1>4. /\ Len(q) \in Nat \ {0} /\ Len(w) \in Nat /\ Tail(q) \in Seq(Events)
      /\ Len(Tail(q)) = Len(q) - 1 /\ Head(q) = q[1]
      /\ \A i \in 1 .. Len(q) - 1 : Tail(q)[i] = q[i + 1]
  BY <1>1
<1>5. /\ Len(w \o q) = Len(w) + Len(q)
      /\ \A i \in 1 .. Len(w) + Len(q) :
            (w \o q)[i] = IF i <= Len(w) THEN w[i] ELSE q[i - Len(w)]
  BY <1>1, ConcatProperties
<1>6. /\ w \o Tail(q) \in Seq(Events) /\ Len(w \o Tail(q)) = Len(w) + Len(Tail(q))
      /\ \A i \in 1 .. Len(w) + Len(Tail(q)) :
            (w \o Tail(q))[i] = IF i <= Len(w) THEN w[i] ELSE Tail(q)[i - Len(w)]
  BY <1>1, <1>4, ConcatProperties
<1>7. n \in 1 .. Len(w \o q) /\ (w \o q)[n] = Head(q)
  BY <1>4, <1>5
<1>8. \A k \in 1 .. Len(w) + Len(q) - 1 :
         (w \o Tail(q))[k] = IF k < n THEN (w \o q)[k] ELSE (w \o q)[k + 1]
  <2> TAKE k \in 1 .. Len(w) + Len(q) - 1
  <2>1. CASE k < n
    BY <1>4, <1>5, <1>6, <2>1
  <2>2. CASE ~(k < n)
    <3>1. /\ k - Len(w) \in 1 .. Len(q) - 1 /\ (k + 1) - Len(w) = (k - Len(w)) + 1
          /\ ~(k <= Len(w)) /\ ~(k + 1 <= Len(w))
          /\ k \in 1 .. Len(w) + Len(Tail(q)) /\ k + 1 \in 1 .. Len(w) + Len(q)
      BY <1>4, <2>2
    <3>2. (w \o Tail(q))[k] = Tail(q)[k - Len(w)]
      BY <1>6, <3>1
    <3>3. (w \o q)[k + 1] = q[(k - Len(w)) + 1]
      BY <1>5, <3>1
    <3> QED BY <1>4, <2>2, <3>1, <3>2, <3>3
  <2> QED BY <2>1, <2>2
<1> HIDE DEF n
<1>9. Len(w \o Tail(q)) = Len(w \o q) - 1
  BY <1>4, <1>5, <1>6
<1>10. \E m \in 1 .. Len(Log(c)) :
          /\ lost'[c] = lost[c] \cup {Log(c)[m]}
          /\ Log(c)' \in Seq(Events) /\ Len(Log(c)') = Len(Log(c)) - 1
          /\ \A k \in 1 .. Len(Log(c)) - 1 :
                Log(c)'[k] = IF k < m THEN Log(c)[k] ELSE Log(c)[k + 1]
  <2>1. /\ n \in 1 .. Len(Log(c)) /\ Log(c)[n] = Head(q)
        /\ Log(c)' \in Seq(Events) /\ Len(Log(c)') = Len(Log(c)) - 1
        /\ \A k \in 1 .. Len(Log(c)) - 1 :
              Log(c)'[k] = IF k < n THEN Log(c)[k] ELSE Log(c)[k + 1]
    BY <1>3, <1>5, <1>6, <1>7, <1>8, <1>9
  <2> QED BY <1>3, <2>1
<1> QED BY <1>2, <1>10
=============================================================================
