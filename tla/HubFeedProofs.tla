--------------------------- MODULE HubFeedProofs ---------------------------
(***************************************************************************)
(* The gateway implements the feed, step by step, and therefore has what    *)
(* the feed promises: HubFeed says what the feed's variables are.           *)
(***************************************************************************)
EXTENDS HubFeed, HubProofs

(* An event that is dropped from the buffer is removed from the log. *)
LEMMA ConcatDrop ==
    ASSUME NEW S, NEW s \in Seq(S), NEW t \in Seq(S), t # <<>>
    PROVE  /\ Len(s) + 1 \in 1 .. Len(s \o t)
           /\ s \o Tail(t) = Abstract!RemoveAt(s \o t, Len(s) + 1)
<1> DEFINE u == s \o t
           v == SubSeq(u, 1, (Len(s) + 1) - 1)
           w == SubSeq(u, (Len(s) + 1) + 1, Len(u))
<1>1. /\ Len(t) \in Nat \ {0} /\ Len(s) \in Nat /\ Tail(t) \in Seq(S)
      /\ Len(Tail(t)) = Len(t) - 1 /\ \A i \in 1 .. Len(t) - 1 : Tail(t)[i] = t[i + 1]
  OBVIOUS
<1>2. /\ u \in Seq(S) /\ Len(u) = Len(s) + Len(t)
      /\ \A i \in 1 .. Len(s) + Len(t) : u[i] = IF i <= Len(s) THEN s[i] ELSE t[i - Len(s)]
  BY ConcatProperties
<1> HIDE DEF u
<1>3. /\ v \in Seq(S) /\ Len(v) = Len(s) /\ \A i \in 1 .. Len(s) : v[i] = s[i]
  BY <1>1, <1>2
<1>4. v = s
  BY <1>3, SeqEqual
<1>5. /\ w \in Seq(S) /\ Len(w) = Len(t) - 1
      /\ \A i \in 1 .. Len(t) - 1 : w[i] = u[Len(s) + 1 + i]
  BY <1>1, <1>2
<1>6. \A i \in 1 .. Len(t) - 1 : w[i] = Tail(t)[i]
  <2> TAKE i \in 1 .. Len(t) - 1
  <2>1. /\ Len(s) + 1 + i \in 1 .. Len(s) + Len(t) /\ ~(Len(s) + 1 + i <= Len(s))
        /\ Len(s) + 1 + i - Len(s) = i + 1
    BY <1>1
  <2>2. u[Len(s) + 1 + i] = t[i + 1]
    BY <1>2, <2>1
  <2> QED BY <1>1, <1>5, <2>2
<1>7. w = Tail(t)
  BY <1>1, <1>5, <1>6, SeqEqual
<1>8. Abstract!RemoveAt(u, Len(s) + 1) = v \o w
  BY DEF Abstract!RemoveAt
<1> HIDE DEF v, w
<1> QED BY <1>1, <1>2, <1>4, <1>7, <1>8 DEF u

-----------------------------------------------------------------------------
(* What a step of the gateway changes of the feed's variables. *)

(* The goroutine has no stored message to publish. *)
Idle(c) == pc[c] # "echo" /\ (pc[c] = "publish" => job[c].kind # "message")

LEMMA IdleOutbox ==
    ASSUME NEW c \in Conns
    PROVE  (Idle(c) => OutboxOf(c) = <<>>) /\ (Idle(c)' => OutboxOf(c)' = <<>>)
BY DEF Idle, OutboxOf

LEMMA OutboxSame ==
    ASSUME NEW c \in Conns, pc'[c] = pc[c], job'[c] = job[c]
    PROVE  OutboxOf(c)' = OutboxOf(c)
BY DEF OutboxOf, OutboundFor

LEMMA OutboxesSame ==
    ASSUME \A c \in Conns : \/ pc'[c] = pc[c] /\ job'[c] = job[c]
                            \/ Idle(c) /\ Idle(c)'
    PROVE  Outboxes' = Outboxes
<1>1. \A c \in Conns : OutboxOf(c)' = OutboxOf(c)
  BY OutboxSame, IdleOutbox
<1> QED BY <1>1 DEF Outboxes

LEMMA QueueSame ==
    ASSUME UNCHANGED bcast, UNCHANGED hub \/ (hub.at # "send" /\ hub'.at # "send")
    PROVE  QueueOf' = QueueOf
BY DEF QueueOf

LEMMA QueueGains ==
    ASSUME TypeOK, UNCHANGED hub, NEW m \in Outbound, bcast' = Append(bcast, m)
    PROVE  QueueOf' = Append(QueueOf, m)
<1>1. CASE hub.at = "send"
  <2>1. hub.msg \in Outbound /\ <<hub.msg>> \in Seq(Outbound)
    BY <1>1, HubShape DEF TypeOK
  <2>2. <<hub.msg>> \o Append(bcast, m) = Append(<<hub.msg>> \o bcast, m)
    BY <2>1, ConcatAppend DEF TypeOK
  <2> QED BY <1>1, <2>2 DEF QueueOf
<1>2. CASE hub.at # "send"
  BY <1>2 DEF QueueOf
<1> QED BY <1>1, <1>2

LEMMA ListenersAt ==
    /\ \A u \in Users : /\ <<"user", u>> \in Dests
                        /\ Listeners[<<"user", u>>] = users[u]
                        /\ Listeners'[<<"user", u>>] = users'[u]
    /\ \A r \in Rooms : /\ <<"room", r>> \in Dests
                        /\ Listeners[<<"room", r>>] = rooms[r]
                        /\ Listeners'[<<"room", r>>] = rooms'[r]
    /\ \A d \in Dests : Listeners[d] = Audience(d)
BY DEF Listeners, Audience, Dests

LEMMA ListenersSame == ASSUME UNCHANGED <<users, rooms>> PROVE Listeners' = Listeners
BY DEF Listeners, Audience

LEMMA ListenersType == TypeOK => Listeners \in [Dests -> SUBSET Conns]
BY AudienceType DEF Listeners

LEMMA LogsSame == ASSUME UNCHANGED <<wire, sendq>> PROVE Logs' = Logs
BY DEF Logs, Log

(* A step nobody can tell: no copy moves, nobody comes or goes. *)
LEMMA QuietStep ==
    ASSUME UNCHANGED <<stored, wire, sendq, users, rooms, bcast>>,
           UNCHANGED hub \/ (hub.at # "send" /\ hub'.at # "send"),
           \A c \in Conns : \/ pc'[c] = pc[c] /\ job'[c] = job[c]
                            \/ Idle(c) /\ Idle(c)'
    PROVE  UNCHANGED Abstract!vars
BY OutboxesSame, QueueSame, ListenersSame, LogsSame DEF Abstract!vars

(* Conn.enqueue gives the event to those whose buffer has space. *)
LEMMA OfferGives ==
    ASSUME TypeOK, NEW cs \in SUBSET Conns, NEW e \in Events, Offer(cs, e), UNCHANGED wire
    PROVE  Abstract!Give({c \in cs : HasSpace(c)}, e)
<1> DEFINE to == {c \in cs : HasSpace(c)}
<1> HIDE DEF to
<1>1. \A c \in Conns : Log(c)' = IF c \in to THEN Append(Log(c), e) ELSE Log(c)
  BY OfferLog DEF to
<1>2. Logs' = [c \in Conns |-> IF c \in to THEN Append(Logs[c], e) ELSE Logs[c]]
  BY <1>1 DEF Logs
<1>3. Abstract!Give(to, e)
  BY <1>2 DEF Abstract!Give
<1> QED BY <1>3 DEF to

LEMMA GiveNobody ==
    ASSUME UNCHANGED <<wire, sendq>>, NEW e
    PROVE  Abstract!Give({}, e)
<1>1. Logs' = Logs /\ Logs = [c \in Conns |-> Logs[c]]
  BY LogsSame DEF Logs
<1> QED BY <1>1 DEF Abstract!Give

LEMMA NoticeTypes ==
    /\ Refusal \in Abstract!Notices
    /\ \A r \in Rooms : RoomJoined(r) \in Abstract!Notices
    /\ \A u \in Users, b \in BOOLEAN : Presence(u, b) \in Abstract!Notices
BY DEF Abstract!Notices, Refusal, RoomJoined, Presence

(* Connections come, go, join or leave, and some are told something true. *)
LEMMA TuneStep ==
    ASSUME HubInv', UNCHANGED stored, Outboxes' = Outboxes, QueueOf' = QueueOf,
           NEW e \in Abstract!Notices, NEW to \in SUBSET Conns,
           Abstract!Give(to, e), Abstract!Holds(e, to)
    PROVE  Abstract!Tune
<1>1. (Listeners \in [Dests -> SUBSET Conns])'
  <2>1. TypeOK'
    BY DEF HubInv, TypeInv
  <2> QED BY <2>1, ListenersType, PTL
<1>2. \A u \in Users : \A c \in Listeners'[<<"user", u>>] : UserOf[c] = u
  <2>1. \A u \in Users : \A c \in users'[u] : UserOf[c] = u
    BY DEF HubInv, GhostInv, NoGhostConn, TypeInv, TypeOK
  <2> QED BY <2>1, ListenersAt
<1> QED BY <1>1, <1>2 DEF Abstract!Tune, Abstract!Dests, Dests

LEMMA HoldsNotice ==
    ASSUME NEW to
    PROVE  /\ Abstract!Holds(Refusal, to)
           /\ \A u \in Users, b \in BOOLEAN :
                 b = (users'[u] # {}) => Abstract!Holds(Presence(u, b), to)
           /\ \A r \in Rooms : to \subseteq rooms'[r] => Abstract!Holds(RoomJoined(r), to)
BY ListenersAt DEF Abstract!Holds, Refusal, Presence, RoomJoined

-----------------------------------------------------------------------------
(* Every step of the gateway is a step of the feed, or none. *)

LEMMA FeedConnect ==
    ASSUME HubInv, NEW c \in Conns,
           Connect(c) \/ MarkRead(c) \/ Disconnect(c) \/ HubRegister(c) \/ HubUnregister(c)
    PROVE  UNCHANGED Abstract!vars
<1>1. /\ UNCHANGED <<stored, wire, sendq, users, rooms, bcast>>
      /\ UNCHANGED hub \/ (hub.at # "send" /\ hub'.at # "send")
  BY DEF Connect, MarkRead, Disconnect, HubRegister, HubUnregister, Select, hubVars, tableVars
<1>2. \A d \in Conns : \/ pc'[d] = pc[d] /\ job'[d] = job[d]
                       \/ Idle(d) /\ Idle(d)'
  BY DEF Connect, MarkRead, Disconnect, HubRegister, HubUnregister, Goto, Idle, connVars,
     HubInv, TypeInv, TypeOK
<1> QED BY <1>1, <1>2, QuietStep

LEMMA FeedReceive ==
    ASSUME HubInv, NEW c \in Conns, NEW kind, NEW dest, Receive(c, kind, dest)
    PROVE  UNCHANGED Abstract!vars
<1>1. UNCHANGED <<stored, wire, sendq, users, rooms, bcast, hub>>
  BY DEF Receive, hubVars, tableVars
<1>2. /\ \A d \in Conns \ {c} : pc'[d] = pc[d] /\ job'[d] = job[d]
      /\ pc[c] = "reading" /\ pc'[c] # "echo"
      /\ pc'[c] = "publish" => job'[c].kind = "typing"
  BY DEF Receive, Goto, HubInv, TypeInv, TypeOK
<1>3. Idle(c) /\ Idle(c)'
  BY <1>2 DEF Idle
<1> QED BY <1>1, <1>2, <1>3, QuietStep

LEMMA FeedServeQuiet ==
    ASSUME HubInv, NEW c \in Conns,
           \/ JoinStore(c) \/ LeaveStore(c) \/ CreateFails(c) \/ CloseSocket(c)
           \/ CheckMember(c) /\ UNCHANGED sendq
    PROVE  UNCHANGED Abstract!vars
<1>1. UNCHANGED <<stored, wire, sendq, users, rooms, bcast, hub>>
  BY DEF JoinStore, LeaveStore, CreateFails, CloseSocket, CheckMember, hubVars, tableVars
<1>2. \A d \in Conns : \/ pc'[d] = pc[d] /\ job'[d] = job[d]
                       \/ Idle(d) /\ Idle(d)'
  BY DEF JoinStore, LeaveStore, CreateFails, CloseSocket, CheckMember, Finish, Goto, Idle,
     HubInv, TypeInv, TypeOK
<1> QED BY <1>1, <1>2, QuietStep

LEMMA FeedHTTP == ASSUME HTTPStep \/ UNCHANGED vars PROVE UNCHANGED Abstract!vars
<1>1. UNCHANGED <<stored, wire, sendq, users, rooms, bcast, hub, pc, job>>
  BY DEF HTTPStep, HTTPJoin, HTTPLeave, vars, connVars, hubVars
<1> QED BY <1>1, QuietStep

LEMMA FeedRefusal ==
    ASSUME HubInv, HubInv', NEW c \in Conns,
           RejectJoin(c) \/ (CheckMember(c) /\ Offer({c}, Refusal))
    PROVE  Abstract!Tune
<1>1. /\ UNCHANGED <<stored, wire, users, rooms, bcast, hub>>
      /\ Offer({c}, Refusal)
  BY DEF RejectJoin, CheckMember, hubVars, tableVars
<1>2. \A d \in Conns : \/ pc'[d] = pc[d] /\ job'[d] = job[d]
                       \/ Idle(d) /\ Idle(d)'
  <2>1. CASE RejectJoin(c)
    BY <2>1 DEF RejectJoin, connVars
  <2>2. CASE CheckMember(c)
    <3>1. /\ pc[c] = "check" /\ \E to \in {"store", "reading"} : pc' = [pc EXCEPT ![c] = to]
          /\ UNCHANGED job \/ job' = [job EXCEPT ![c] = NoJob]
      BY <2>2 DEF CheckMember, Finish, Goto
    <3>2. /\ pc'[c] \in {"store", "reading"}
          /\ \A d \in Conns \ {c} : pc'[d] = pc[d] /\ job'[d] = job[d]
      BY <3>1 DEF HubInv, TypeInv, TypeOK
    <3> QED BY <3>1, <3>2 DEF Idle
  <2> QED BY <2>1, <2>2
<1>3. Outboxes' = Outboxes /\ QueueOf' = QueueOf
  BY <1>1, <1>2, OutboxesSame, QueueSame
<1> DEFINE to == {d \in {c} : HasSpace(d)}
<1>4. Abstract!Give(to, Refusal)
  BY <1>1, OfferGives, EventTypes DEF HubInv, TypeInv
<1> HIDE DEF to
<1>5. Abstract!Holds(Refusal, to)
  BY HoldsNotice
<1>6. to \in SUBSET Conns /\ Refusal \in Abstract!Notices
  BY NoticeTypes DEF to
<1> QED BY <1>1, <1>3, <1>4, <1>5, <1>6, TuneStep

LEMMA FeedConfirmJoin ==
    ASSUME HubInv, HubInv', NEW c \in Conns, ConfirmJoin(c)
    PROVE  Abstract!Tune
<1> DEFINE r == job[c].dest[2]
           to == {d \in {c} : HasSpace(d)}
<1>1. r \in Rooms
  BY RoomJobShape DEF HubInv, TypeInv, JobOK, ConfirmJoin, Finish, Goto
<1>2. c \in rooms'[r]
  BY <1>1 DEF HubInv, RoomsInv, Subscribed, ConfirmJoin, Finish, Goto, hubVars
<1>3. /\ UNCHANGED <<stored, wire, users, rooms, bcast, hub>>
      /\ Offer({c}, RoomJoined(r))
  BY DEF ConfirmJoin, hubVars, tableVars
<1>4. \A d \in Conns : \/ pc'[d] = pc[d] /\ job'[d] = job[d]
                       \/ Idle(d) /\ Idle(d)'
  BY DEF ConfirmJoin, Finish, Goto, Idle, HubInv, TypeInv, TypeOK
<1>5. Outboxes' = Outboxes /\ QueueOf' = QueueOf
  BY <1>3, <1>4, OutboxesSame, QueueSame
<1> HIDE DEF r
<1>6. Abstract!Give(to, RoomJoined(r))
  BY <1>1, <1>3, OfferGives, EventTypes DEF HubInv, TypeInv
<1> HIDE DEF to
<1>7. Abstract!Holds(RoomJoined(r), to)
  <2>1. to \subseteq rooms'[r]
    BY <1>2 DEF to
  <2> QED BY <1>1, <2>1, HoldsNotice
<1>8. to \in SUBSET Conns /\ RoomJoined(r) \in Abstract!Notices
  BY <1>1, NoticeTypes DEF to
<1> QED BY <1>3, <1>5, <1>6, <1>7, <1>8, TuneStep

LEMMA FeedSubscribe ==
    ASSUME HubInv, HubInv', NEW c \in Conns, SubscribeRoom(c) \/ UnsubscribeRoom(c)
    PROVE  Abstract!Tune
<1>1. UNCHANGED <<stored, wire, sendq, bcast, hub>>
  BY DEF SubscribeRoom, UnsubscribeRoom, tableVars
<1>2. \A d \in Conns : \/ pc'[d] = pc[d] /\ job'[d] = job[d]
                       \/ Idle(d) /\ Idle(d)'
  BY DEF SubscribeRoom, UnsubscribeRoom, Finish, Goto, Idle, HubInv, TypeInv, TypeOK
<1>3. Outboxes' = Outboxes /\ QueueOf' = QueueOf
  BY <1>1, <1>2, OutboxesSame, QueueSame
<1>4. /\ Abstract!Give({}, Refusal) /\ Abstract!Holds(Refusal, {})
      /\ Refusal \in Abstract!Notices /\ {} \in SUBSET Conns
  BY <1>1, GiveNobody, HoldsNotice, NoticeTypes
<1> QED BY <1>1, <1>3, <1>4, TuneStep

LEMMA FeedHubAdd == ASSUME HubInv, HubInv', HubAdd PROVE Abstract!Tune
<1> DEFINE u == UserOf[hub.conn]
           cs == UNION {users'[v] : v \in Users}
           to == {d \in cs : HasSpace(d)}
<1>1. hub.conn \in Conns /\ u \in Users
  BY HubAssumption, HubShape DEF HubInv, TypeInv, TypeOK, HubAdd
<1>2. users'[u] # {}
  BY <1>1 DEF HubInv, TypeInv, TypeOK, HubAdd
<1>3. cs \in SUBSET Conns
  BY DEF HubInv, TypeInv, TypeOK
<1>4. /\ UNCHANGED <<stored, wire, pc, job, bcast>>
      /\ hub.at # "send" /\ hub'.at # "send"
      /\ Offer(cs, Presence(u, TRUE))
  BY DEF HubAdd, connVars, tableVars, Select
<1>5. Outboxes' = Outboxes /\ QueueOf' = QueueOf
  BY <1>4, OutboxesSame, QueueSame
<1> HIDE DEF u, cs
<1>6. Abstract!Give(to, Presence(u, TRUE))
  BY <1>1, <1>3, <1>4, OfferGives, EventTypes DEF HubInv, TypeInv
<1>7. Abstract!Holds(Presence(u, TRUE), to)
  BY <1>1, <1>2, HoldsNotice
<1>8. to \in SUBSET Conns /\ Presence(u, TRUE) \in Abstract!Notices
  BY <1>1, <1>3, NoticeTypes
<1> QED BY <1>4, <1>5, <1>6, <1>7, <1>8, TuneStep

LEMMA FeedHubRemove == ASSUME HubInv, HubInv', HubRemove PROVE Abstract!Tune
<1> DEFINE u == UserOf[hub.conn]
           cs == UNION {users'[v] : v \in Users}
           to == {d \in cs : HasSpace(d)}
<1>1. hub.conn \in Conns /\ u \in Users
  BY HubAssumption, HubShape DEF HubInv, TypeInv, TypeOK, HubRemove
<1>2. cs \in SUBSET Conns
  BY DEF HubInv, TypeInv, TypeOK
<1>3. /\ UNCHANGED <<stored, wire, pc, job, bcast>>
      /\ hub.at # "send" /\ hub'.at # "send"
      /\ \/ users'[u] = {} /\ Offer(cs, Presence(u, FALSE))
         \/ UNCHANGED sendq
  BY DEF HubRemove, connVars, tableVars, Select
<1>4. Outboxes' = Outboxes /\ QueueOf' = QueueOf
  BY <1>3, OutboxesSame, QueueSame
<1> HIDE DEF u, cs
<1>5. CASE users'[u] = {} /\ Offer(cs, Presence(u, FALSE))
  <2>1. Abstract!Give(to, Presence(u, FALSE))
    BY <1>1, <1>2, <1>3, <1>5, OfferGives, EventTypes DEF HubInv, TypeInv
  <2>2. Abstract!Holds(Presence(u, FALSE), to)
    BY <1>1, <1>5, HoldsNotice
  <2>3. to \in SUBSET Conns /\ Presence(u, FALSE) \in Abstract!Notices
    BY <1>1, <1>2, NoticeTypes
  <2> QED BY <1>3, <1>4, <2>1, <2>2, <2>3, TuneStep
<1>6. CASE UNCHANGED sendq
  <2>1. /\ Abstract!Give({}, Refusal) /\ Abstract!Holds(Refusal, {})
        /\ Refusal \in Abstract!Notices /\ {} \in SUBSET Conns
    BY <1>3, <1>6, GiveNobody, HoldsNotice, NoticeTypes
  <2> QED BY <1>3, <1>4, <2>1, TuneStep
<1> QED BY <1>3, <1>5, <1>6

(* The copies of a post go to the destination and, if direct, to its sender. *)
LEMMA FeedCreateMessage ==
    ASSUME HubInv, HubInv', NEW c \in Conns, CreateMessage(c)
    PROVE  job[c].dest \in Dests /\ Abstract!Post(c, job[c].dest)
<1> DEFINE dest == job[c].dest
           n == Len(stored) + 1
<1>1. /\ job[c] \in PostJobs /\ dest \in Dests /\ job[c].kind = "message"
      /\ pc[c] = "store" /\ pc'[c] = "publish"
      /\ \A d \in Conns \ {c} : pc'[d] = pc[d] /\ job'[d] = job[d]
      /\ job'[c] = [job[c] EXCEPT !.id = n]
  BY PostJobShape DEF CreateMessage, Goto, HubInv, TypeInv, TypeOK, JobOK, RequestInv
<1>2. /\ UNCHANGED <<wire, sendq, users, rooms, bcast, hub>>
      /\ stored' = Append(stored, [sender |-> c, dest |-> dest])
  BY DEF CreateMessage, hubVars
<1>3. job'[c].dest = dest /\ job'[c].id = n /\ job'[c].kind = "message"
  BY <1>1 DEF PostJobs
<1> HIDE DEF dest, n
<1>4. OutboxOf(c) = <<>>
  BY <1>1, IdleOutbox DEF Idle
<1>5. OutboxOf(c)' = Abstract!Copies(c, dest, n)
  BY <1>1, <1>3 DEF OutboxOf, OutboundFor, Message, Abstract!Copies, Abstract!Copy,
     Abstract!Message
<1>6. Outboxes' = [Outboxes EXCEPT ![c] = Abstract!Copies(c, dest, n)]
  <2>1. \A d \in Conns \ {c} : OutboxOf(d)' = OutboxOf(d)
    BY <1>1, OutboxSame
  <2> QED BY <1>5, <2>1 DEF Outboxes
<1>7. Outboxes[c] = <<>>
  BY <1>4 DEF Outboxes
<1>8. QueueOf' = QueueOf /\ Listeners' = Listeners /\ Logs' = Logs
  BY <1>2, QueueSame, ListenersSame, LogsSame
<1>9. Abstract!Post(c, dest)
  BY <1>2, <1>6, <1>7, <1>8 DEF Abstract!Post, n
<1> QED BY <1>1, <1>9 DEF dest

LEMMA FeedPublishMessage ==
    ASSUME HubInv, NEW c \in Conns, Publish(c), job[c].kind = "message"
    PROVE  Abstract!Publish(c)
<1> DEFINE first == OutboundFor(c, job[c].dest)
           own   == OutboundFor(c, <<"user", UserOf[c]>>)
<1>1. pc[c] = "publish"
  BY DEF Publish
<1>2. first \in Outbound /\ own \in Outbound
  BY <1>1, OutboundType
<1>3. /\ UNCHANGED <<wire, sendq, users, rooms, hub, stored>>
      /\ bcast' = Append(bcast, first)
      /\ \A d \in Conns \ {c} : pc'[d] = pc[d] /\ job'[d] = job[d]
  BY DEF Publish, Broadcast, Finish, Goto, hubVars, tableVars, HubInv, TypeInv, TypeOK
<1>4. OutboxOf(c) = IF job[c].dest[1] = "user" THEN <<first, own>> ELSE <<first>>
  BY <1>1 DEF OutboxOf
<1>5. OutboxOf(c)' = IF job[c].dest[1] = "user" THEN <<own>> ELSE <<>>
  <2>1. CASE job[c].dest[1] = "user"
    <3>1. pc'[c] = "echo" /\ job'[c] = job[c]
      BY <2>1 DEF Publish, Goto, HubInv, TypeInv, TypeOK
    <3> QED BY <2>1, <3>1 DEF OutboxOf, OutboundFor
  <2>2. CASE job[c].dest[1] # "user"
    <3>1. pc'[c] = "reading"
      BY <2>2 DEF Publish, Finish, Goto, HubInv, TypeInv, TypeOK
    <3> QED BY <2>2, <3>1 DEF OutboxOf
  <2> QED BY <2>1, <2>2
<1> HIDE DEF first, own
<1>6. /\ Outboxes[c] # <<>> /\ Head(Outboxes[c]) = first
      /\ Tail(Outboxes[c]) = OutboxOf(c)'
  <2>1. OutboxOf(c) # <<>> /\ Head(OutboxOf(c)) = first /\ Tail(OutboxOf(c)) = OutboxOf(c)'
    BY <1>4, <1>5
  <2> QED BY <2>1 DEF Outboxes
<1>7. Outboxes' = [Outboxes EXCEPT ![c] = Tail(@)]
  <2>1. \A d \in Conns \ {c} : OutboxOf(d)' = OutboxOf(d)
    BY <1>3, OutboxSame
  <2> QED BY <1>6, <2>1 DEF Outboxes
<1>8. QueueOf' = Append(QueueOf, first)
  BY <1>2, <1>3, QueueGains DEF HubInv, TypeInv
<1>9. Listeners' = Listeners /\ Logs' = Logs
  BY <1>3, ListenersSame, LogsSame
<1> QED BY <1>3, <1>6, <1>7, <1>8, <1>9 DEF Abstract!Publish

LEMMA FeedEcho ==
    ASSUME HubInv, NEW c \in Conns, Echo(c)
    PROVE  Abstract!Publish(c)
<1> DEFINE own == OutboundFor(c, <<"user", UserOf[c]>>)
<1>1. pc[c] = "echo" /\ pc'[c] = "reading"
  BY DEF Echo, Finish, Goto, HubInv, TypeInv, TypeOK
<1>2. own \in Outbound
  BY <1>1, OutboundType
<1>3. /\ UNCHANGED <<wire, sendq, users, rooms, hub, stored>>
      /\ bcast' = Append(bcast, own)
      /\ \A d \in Conns \ {c} : pc'[d] = pc[d] /\ job'[d] = job[d]
  BY DEF Echo, Broadcast, Finish, Goto, hubVars, tableVars, HubInv, TypeInv, TypeOK
<1>4. OutboxOf(c) = <<own>> /\ OutboxOf(c)' = <<>>
  BY <1>1 DEF OutboxOf
<1> HIDE DEF own
<1>5. /\ Outboxes[c] # <<>> /\ Head(Outboxes[c]) = own
      /\ Tail(Outboxes[c]) = OutboxOf(c)'
  <2>1. OutboxOf(c) # <<>> /\ Head(OutboxOf(c)) = own /\ Tail(OutboxOf(c)) = OutboxOf(c)'
    BY <1>4
  <2> QED BY <2>1 DEF Outboxes
<1>6. Outboxes' = [Outboxes EXCEPT ![c] = Tail(@)]
  <2>1. \A d \in Conns \ {c} : OutboxOf(d)' = OutboxOf(d)
    BY <1>3, OutboxSame
  <2> QED BY <1>5, <2>1 DEF Outboxes
<1>7. QueueOf' = Append(QueueOf, own)
  BY <1>2, <1>3, QueueGains DEF HubInv, TypeInv
<1>8. Listeners' = Listeners /\ Logs' = Logs
  BY <1>3, ListenersSame, LogsSame
<1> QED BY <1>3, <1>5, <1>6, <1>7, <1>8 DEF Abstract!Publish

LEMMA FeedPublishTyping ==
    ASSUME HubInv, NEW c \in Conns, Publish(c), job[c].kind # "message"
    PROVE  job[c].dest \in Dests /\ Abstract!Whisper(c, job[c].dest)
<1> DEFINE out == OutboundFor(c, job[c].dest)
<1>1. pc[c] = "publish" /\ pc'[c] = "reading"
  BY DEF Publish, Finish, Goto, HubInv, TypeInv, TypeOK
<1>2. /\ out \in Outbound /\ job[c].dest \in Dests /\ job[c].kind = "typing"
  BY <1>1, OutboundType DEF PostJobs
<1>3. /\ UNCHANGED <<wire, sendq, users, rooms, hub, stored>>
      /\ bcast' = Append(bcast, out)
      /\ \A d \in Conns \ {c} : pc'[d] = pc[d] /\ job'[d] = job[d]
  BY DEF Publish, Broadcast, Finish, Goto, hubVars, tableVars, HubInv, TypeInv, TypeOK
<1>4. out = Abstract!Copy(Abstract!Typing(UserOf[c]), job[c].dest, c)
  BY <1>2 DEF OutboundFor, Typing, Abstract!Copy, Abstract!Typing
<1> HIDE DEF out
<1>5. Idle(c) /\ Idle(c)'
  BY <1>1, <1>2 DEF Idle
<1>6. Outboxes' = Outboxes /\ Outboxes[c] = <<>>
  <2>1. Outboxes' = Outboxes
    BY <1>3, <1>5, OutboxesSame
  <2> QED BY <1>5, <2>1, IdleOutbox DEF Outboxes
<1>7. QueueOf' = Append(QueueOf, out)
  BY <1>2, <1>3, QueueGains DEF HubInv, TypeInv
<1>8. Listeners' = Listeners /\ Logs' = Logs
  BY <1>3, ListenersSame, LogsSame
<1> QED BY <1>2, <1>3, <1>4, <1>6, <1>7, <1>8 DEF Abstract!Whisper

LEMMA FeedHubTake == ASSUME HubInv, HubTake PROVE UNCHANGED Abstract!vars
<1>1. /\ UNCHANGED <<stored, wire, sendq, users, rooms, pc, job>>
      /\ hub = Select /\ hub' = [at |-> "send", msg |-> Head(bcast)]
      /\ bcast # <<>> /\ bcast' = Tail(bcast)
  BY DEF HubTake, connVars, tableVars
<1>2. QueueOf' = QueueOf
  <2>1. bcast \in Seq(Outbound)
    BY DEF HubInv, TypeInv, TypeOK
  <2>2. <<Head(bcast)>> \o Tail(bcast) = bcast
    BY <1>1, <2>1, ConsHeadTail
  <2>3. QueueOf = bcast /\ QueueOf' = <<Head(bcast)>> \o Tail(bcast)
    BY <1>1 DEF QueueOf, Select
  <2> QED BY <2>2, <2>3
<1> QED
  BY <1>1, <1>2, OutboxesSame, ListenersSame, LogsSame DEF Abstract!vars

LEMMA FeedHubSend == ASSUME HubInv, HubSend PROVE Abstract!Relay
<1> DEFINE cs == Audience(hub.msg.dest) \ {hub.msg.exclude}
           to == {c \in cs : HasSpace(c)}
<1>1. /\ UNCHANGED <<stored, wire, users, rooms, pc, job, bcast>>
      /\ hub.at = "send" /\ hub' = Select
      /\ Offer(cs, hub.msg.event)
  BY DEF HubSend, connVars, tableVars
<1>2. hub.msg \in Outbound /\ hub.msg.dest \in Dests /\ hub.msg.event \in Events
  BY <1>1, HubShape, OutboundShape DEF HubInv, TypeInv, TypeOK
<1>3. QueueOf # <<>> /\ Head(QueueOf) = hub.msg /\ QueueOf' = Tail(QueueOf)
  <2>1. bcast \in Seq(Outbound)
    BY DEF HubInv, TypeInv, TypeOK
  <2>2. /\ <<hub.msg>> \o bcast # <<>> /\ Head(<<hub.msg>> \o bcast) = hub.msg
        /\ Tail(<<hub.msg>> \o bcast) = bcast
    BY <1>2, <2>1, ConsParts
  <2>3. QueueOf = <<hub.msg>> \o bcast /\ QueueOf' = bcast
    BY <1>1 DEF QueueOf, Select
  <2> QED BY <2>2, <2>3
<1>4. cs \in SUBSET Conns /\ cs = Listeners[hub.msg.dest] \ {hub.msg.exclude}
  BY <1>2, AudienceType, ListenersAt DEF HubInv, TypeInv
<1> HIDE DEF cs
<1>5. Abstract!Give(to, hub.msg.event)
  BY <1>1, <1>2, <1>4, OfferGives DEF HubInv, TypeInv
<1>6. to \in SUBSET (Listeners[Head(QueueOf).dest] \ {Head(QueueOf).exclude})
  BY <1>3, <1>4
<1> HIDE DEF to
<1>7. \E t \in SUBSET (Listeners[Head(QueueOf).dest] \ {Head(QueueOf).exclude}) :
         Abstract!Give(t, Head(QueueOf).event)
  BY <1>3, <1>5, <1>6
<1>8. Outboxes' = Outboxes /\ Listeners' = Listeners
  BY <1>1, OutboxesSame, ListenersSame
<1> QED BY <1>1, <1>3, <1>7, <1>8 DEF Abstract!Relay

LEMMA FeedWriteEvent ==
    ASSUME HubInv, NEW c \in Conns, WriteEvent(c)
    PROVE  UNCHANGED Abstract!vars
<1>1. UNCHANGED <<stored, users, rooms, pc, job, bcast, hub>>
  BY DEF WriteEvent, connVars, hubVars, tableVars
<1>2. Logs' = Logs
  BY WriteLog DEF Logs, HubInv, TypeInv
<1> QED BY <1>1, <1>2, OutboxesSame, QueueSame, ListenersSame DEF Abstract!vars

LEMMA FeedWriteFails ==
    ASSUME HubInv, NEW c \in Conns, WriteFails(c)
    PROVE  Abstract!Lose(c)
<1> DEFINE i == Len(wire[c]) + 1
<1>1. /\ UNCHANGED <<stored, users, rooms, pc, job, bcast, hub, wire>>
      /\ sendq[c] # <<>> /\ sendq' = [sendq EXCEPT ![c] = Tail(@)]
  BY DEF WriteFails, hubVars, tableVars
<1>2. wire[c] \in Seq(Events) /\ sendq[c] \in Seq(Events)
  BY DEF HubInv, TypeInv, TypeOK
<1>3. /\ i \in 1 .. Len(Log(c))
      /\ wire[c] \o Tail(sendq[c]) = Abstract!RemoveAt(Log(c), i)
  BY <1>1, <1>2, ConcatDrop DEF Log
<1> HIDE DEF i
<1>4. \A d \in Conns : Log(d)' = IF d = c THEN Abstract!RemoveAt(Log(c), i) ELSE Log(d)
  BY <1>1, <1>3 DEF Log, HubInv, TypeInv, TypeOK
<1>5. Logs' = [Logs EXCEPT ![c] = Abstract!RemoveAt(@, i)]
  BY <1>4 DEF Logs
<1>6. i \in 1 .. Len(Logs[c])
  BY <1>3 DEF Logs
<1>7. Outboxes' = Outboxes /\ QueueOf' = QueueOf /\ Listeners' = Listeners
  BY <1>1, OutboxesSame, QueueSame, ListenersSame
<1> QED BY <1>1, <1>5, <1>6, <1>7 DEF Abstract!Lose

LEMMA FeedInitially == Init => Abstract!Init
<1> SUFFICES ASSUME Init PROVE Abstract!Init
  OBVIOUS
<1>1. Outboxes = [c \in Conns |-> <<>>]
  BY DEF Init, Outboxes, OutboxOf
<1>2. QueueOf = <<>>
  BY DEF Init, QueueOf, Select
<1>3. Listeners = [d \in Abstract!Dests |-> {}]
  BY DEF Init, Listeners, Audience, Abstract!Dests, Dests
<1>4. Logs = [c \in Conns |-> <<>>]
  BY DEF Init, Logs, Log
<1> QED BY <1>1, <1>2, <1>3, <1>4 DEF Abstract!Init, Init

LEMMA FeedConn ==
    ASSUME HubInv, HubInv', NEW c \in Conns,
           \/ Connect(c) \/ Request(c) \/ Serve(c) \/ Disconnect(c) \/ Write(c)
           \/ HubRegister(c) \/ HubUnregister(c)
    PROVE  [Abstract!Next]_(Abstract!vars)
<1>1. CASE Connect(c) \/ Disconnect(c) \/ HubRegister(c) \/ HubUnregister(c)
  BY <1>1, FeedConnect
<1>2. CASE Request(c)
  <2>1. CASE RejectJoin(c)
    <3>1. Abstract!Tune
      BY <2>1, FeedRefusal
    <3> QED BY <3>1 DEF Abstract!Next
  <2>2. CASE ~RejectJoin(c)
    BY <1>2, <2>2, FeedReceive, FeedConnect DEF Request
  <2> QED BY <2>1, <2>2
<1>3. CASE Write(c)
  <2>1. CASE WriteEvent(c)
    BY <2>1, FeedWriteEvent
  <2>2. CASE WriteFails(c)
    <3>1. Abstract!Lose(c)
      BY <2>2, FeedWriteFails
    <3> QED BY <3>1 DEF Abstract!Next
  <2> QED BY <1>3, <2>1, <2>2 DEF Write
<1>4. CASE Serve(c)
  <2>1. CASE JoinStore(c) \/ LeaveStore(c) \/ CreateFails(c) \/ CloseSocket(c)
    BY <2>1, FeedServeQuiet
  <2>2. CASE CheckMember(c)
    <3>1. CASE UNCHANGED sendq
      BY <2>2, <3>1, FeedServeQuiet
    <3>2. CASE Offer({c}, Refusal)
      <4>1. Abstract!Tune
        BY <2>2, <3>2, FeedRefusal
      <4> QED BY <4>1 DEF Abstract!Next
    <3> QED BY <2>2, <3>1, <3>2 DEF CheckMember
  <2>3. CASE SubscribeRoom(c) \/ UnsubscribeRoom(c) \/ ConfirmJoin(c)
    <3>1. Abstract!Tune
      BY <2>3, FeedSubscribe, FeedConfirmJoin
    <3> QED BY <3>1 DEF Abstract!Next
  <2>4. CASE CreateMessage(c)
    <3>1. job[c].dest \in Abstract!Dests /\ Abstract!Post(c, job[c].dest)
      BY <2>4, FeedCreateMessage DEF Dests, Abstract!Dests
    <3> QED BY <3>1 DEF Abstract!Next
  <2>5. CASE Publish(c)
    <3>1. CASE job[c].kind = "message"
      <4>1. Abstract!Publish(c)
        BY <2>5, <3>1, FeedPublishMessage
      <4> QED BY <4>1 DEF Abstract!Next
    <3>2. CASE job[c].kind # "message"
      <4>1. job[c].dest \in Abstract!Dests /\ Abstract!Whisper(c, job[c].dest)
        BY <2>5, <3>2, FeedPublishTyping DEF Dests, Abstract!Dests
      <4> QED BY <4>1 DEF Abstract!Next
    <3> QED BY <3>1, <3>2
  <2>6. CASE Echo(c)
    <3>1. Abstract!Publish(c)
      BY <2>6, FeedEcho
    <3> QED BY <3>1 DEF Abstract!Next
  <2> QED BY <1>4, <2>1, <2>2, <2>3, <2>4, <2>5, <2>6 DEF Serve
<1> QED BY <1>1, <1>2, <1>3, <1>4

LEMMA FeedMapping ==
    HubInv /\ HubInv' /\ [Next]_vars => [Abstract!Next]_(Abstract!vars)
<1> SUFFICES ASSUME HubInv, HubInv', [Next]_vars
             PROVE  [Abstract!Next]_(Abstract!vars)
  OBVIOUS
<1>1. CASE HTTPStep \/ UNCHANGED vars
  BY <1>1, FeedHTTP
<1>2. CASE HubStep
  <2>1. CASE HubAdd \/ HubRemove
    <3>1. Abstract!Tune
      BY <2>1, FeedHubAdd, FeedHubRemove
    <3> QED BY <3>1 DEF Abstract!Next
  <2>2. CASE HubSend
    <3>1. Abstract!Relay
      BY <2>2, FeedHubSend
    <3> QED BY <3>1 DEF Abstract!Next
  <2>3. CASE HubTake
    BY <2>3, FeedHubTake
  <2> QED BY <1>2, <2>1, <2>2, <2>3, FeedConn DEF HubStep
<1> QED BY <1>1, <1>2, FeedConn DEF Next

(* Through all its goroutines, locks and bounded channels the gateway gives  *)
(* connections nothing but the feed.                                         *)
THEOREM HubImplementsFeed == Spec => ImplementsFeed
BY FeedInitially, FeedMapping, HubCorrect, PTL DEF Spec, ImplementsFeed, Abstract!Spec

-----------------------------------------------------------------------------
(* What is proved of the feed holds of the gateway. *)

Promise == INSTANCE FeedProofs WITH
    outbox    <- Outboxes,
    queue     <- QueueOf,
    listeners <- Listeners,
    log       <- Logs

LEMMA SameInit == Abstract!Init => Promise!Init
BY DEF Abstract!Init, Promise!Init, Abstract!Dests, Promise!Dests

LEMMA SameNext == Abstract!Next => Promise!Next
BY DEF Abstract!Next, Promise!Next, Abstract!Post, Promise!Post, Abstract!Publish,
   Promise!Publish, Abstract!Whisper, Promise!Whisper, Abstract!Relay, Promise!Relay,
   Abstract!Tune, Promise!Tune, Abstract!Lose, Promise!Lose, Abstract!Dests, Promise!Dests,
   Abstract!Give, Promise!Give, Abstract!Holds, Promise!Holds, Abstract!Notices,
   Promise!Notices, Abstract!Copies, Promise!Copies, Abstract!Copy, Promise!Copy,
   Abstract!Message, Promise!Message, Abstract!Typing, Promise!Typing, Abstract!RemoveAt,
   Promise!RemoveAt

LEMMA HubKeepsPromise == Spec => Promise!Spec
<1>1. [Abstract!Next]_(Abstract!vars) => [Promise!Next]_(Promise!vars)
  BY SameNext DEF Abstract!vars, Promise!vars
<1> QED
  BY <1>1, SameInit, FeedInitially, FeedMapping, HubCorrect, PTL DEF Spec, Promise!Spec

LEMMA UsersKnown == UserOf \in [Conns -> Users]
BY HubAssumption

LEMMA LogsAt == \A c \in Conns : Logs[c] = Log(c)
BY DEF Logs

(* Any two connections see the room messages both were given in one order,  *)
(* whatever full buffers and failed writes took from either.                *)
THEOREM HubSameOrder == Spec => []SameOrder
<1>1. Promise!Spec => []Promise!SameOrder
  BY UsersKnown, Promise!FeedSameOrder
<1>2. Promise!SameOrder => SameOrder
  <2> SUFFICES ASSUME Promise!SameOrder, NEW c \in Conns, NEW d \in Conns,
                      NEW i \in 1 .. Len(Log(c)), NEW j \in 1 .. Len(Log(c)),
                      NEW k \in 1 .. Len(Log(d)), NEW m \in 1 .. Len(Log(d)),
                      i < j, Log(c)[i] # Log(c)[j],
                      RoomMessage(Log(c)[i]), RoomMessage(Log(c)[j]),
                      Log(c)[i] = Log(d)[k], Log(c)[j] = Log(d)[m]
               PROVE  k < m
    BY DEF SameOrder
  <2>1. Logs[c] = Log(c) /\ Logs[d] = Log(d)
    BY LogsAt
  <2>2. /\ i \in 1 .. Len(Logs[c]) /\ j \in 1 .. Len(Logs[c])
        /\ k \in 1 .. Len(Logs[d]) /\ m \in 1 .. Len(Logs[d])
        /\ Promise!RoomMessage(Logs[c][i]) /\ Promise!RoomMessage(Logs[c][j])
        /\ Logs[c][i] # Logs[c][j] /\ Logs[c][i] = Logs[d][k] /\ Logs[c][j] = Logs[d][m]
    BY <2>1 DEF Promise!RoomMessage, RoomMessage
  <2> QED BY <2>2 DEF Promise!SameOrder
<1> QED BY <1>1, <1>2, HubKeepsPromise, PTL

(* The room messages of a connection reach everyone in the order it sent     *)
(* them, because one goroutine stores and publishes them in turn.            *)
THEOREM HubSenderOrder == Spec => []SenderOrder
<1>1. Promise!Spec => []Promise!SenderOrder
  BY UsersKnown, Promise!FeedSenderOrder
<1>2. Promise!SenderOrder => SenderOrder
  BY LogsAt DEF Promise!SenderOrder, SenderOrder, Promise!InOrder, Promise!RoomMessage,
     RoomMessage
<1> QED BY <1>1, <1>2, HubKeepsPromise, PTL

(* The two broadcasts of a direct message never give one connection two      *)
(* copies, but for a message to oneself.                                     *)
THEOREM HubAtMostOnce == Spec => []AtMostOnce
<1>1. Promise!Spec => []Promise!AtMostOnce
  BY UsersKnown, Promise!FeedAtMostOnce
<1>2. Promise!AtMostOnce => AtMostOnce
  BY LogsAt DEF Promise!AtMostOnce, AtMostOnce, Promise!ToSelf
<1> QED BY <1>1, <1>2, HubKeepsPromise, PTL

(* No connection of a third user is given a direct message.                  *)
THEOREM HubDirectIsPrivate == Spec => []DirectIsPrivate
<1>1. Promise!Spec => []Promise!DirectIsPrivate
  BY UsersKnown, Promise!FeedDirectIsPrivate
<1>2. Promise!DirectIsPrivate => DirectIsPrivate
  BY LogsAt DEF Promise!DirectIsPrivate, DirectIsPrivate
<1> QED BY <1>1, <1>2, HubKeepsPromise, PTL
=============================================================================
