------------------------- MODULE HubDeliveryProofs -------------------------
(***************************************************************************)
(* What clients of the gateway may rely on: the presence they see is true,   *)
(* and no message for them is lost, unless a full buffer refused the event   *)
(* or a failed write took it.                                                *)
(***************************************************************************)
EXTENDS HubProofs

(* The last that a log says of a user, if it says anything, is b. *)
Tells(s, u, b) ==
    \A i \in 1 .. Len(s) :
        (/\ About(s[i], u)
         /\ \A j \in i + 1 .. Len(s) : ~About(s[j], u)) => s[i].online = b

NoPresence(s) == \A i \in 1 .. Len(s) : s[i].type # "presence"

(* A connection the hub has still to add, or to hear of. *)
Outside(c) == c \notin users[UserOf[c]] /\ pc[c] \notin Late

(* One that is not in the hub's tables yet has heard of nobody. *)
PresenceInv ==
    /\ PresenceView
    /\ \A c \in Conns : Outside(c) => NoPresence(Log(c))

(* Something about the user was not delivered. *)
Missed(c, u) == Presence(u, TRUE) \in lost[c] \/ Presence(u, FALSE) \in lost[c]

LEMMA PresenceViewIs ==
    PresenceView <=>
        \A c \in Conns, u \in Users :
            c \in users[UserOf[c]] /\ ~Missed(c, u) => Tells(Log(c), u, users[u] # {})
BY DEF PresenceView, Missed, Tells

LEMMA TellsNothing ==
    ASSUME NEW s, NEW u, NEW b, NoPresence(s)
    PROVE  Tells(s, u, b)
BY DEF NoPresence, Tells, About

LEMMA TellsOther ==
    ASSUME NEW s \in Seq(Events), NEW e \in Events, NEW u, NEW b, Tells(s, u, b), ~About(e, u)
    PROVE  Tells(Append(s, e), u, b)
<1> DEFINE t == Append(s, e)
<1>1. /\ Len(s) \in Nat /\ Len(t) = Len(s) + 1 /\ t[Len(s) + 1] = e
      /\ \A i \in 1 .. Len(s) : t[i] = s[i]
  OBVIOUS
<1> HIDE DEF t
<1>2. ASSUME NEW i \in 1 .. Len(t), About(t[i], u),
             \A j \in i + 1 .. Len(t) : ~About(t[j], u)
      PROVE  t[i].online = b
  <2>1. i \in 1 .. Len(s) /\ t[i] = s[i]
    BY <1>1, <1>2
  <2>2. \A j \in i + 1 .. Len(s) : ~About(s[j], u)
    BY <1>1, <1>2, <2>1
  <2> QED BY <1>2, <2>1, <2>2 DEF Tells
<1>3. Tells(t, u, b)
  BY <1>2 DEF Tells
<1> QED BY <1>3 DEF t

LEMMA TellsNews ==
    ASSUME NEW s \in Seq(Events), NEW u \in Users, NEW b \in BOOLEAN
    PROVE  Tells(Append(s, Presence(u, b)), u, b)
<1> DEFINE e == Presence(u, b)
           t == Append(s, e)
<1>1. e \in Events /\ About(e, u) /\ e.online = b
  BY EventTypes DEF About, Presence
<1> HIDE DEF e
<1>2. Len(s) \in Nat /\ Len(t) = Len(s) + 1 /\ t[Len(s) + 1] = e
  BY <1>1
<1> HIDE DEF t
<1>3. ASSUME NEW i \in 1 .. Len(t), About(t[i], u),
             \A j \in i + 1 .. Len(t) : ~About(t[j], u)
      PROVE  t[i].online = b
  <2>1. i = Len(s) + 1
    <3>1. CASE i # Len(s) + 1
      <4>1. Len(s) + 1 \in i + 1 .. Len(t)
        BY <1>2, <3>1
      <4> QED BY <1>1, <1>2, <1>3, <4>1
    <3> QED BY <3>1
  <2> QED BY <1>1, <1>2, <2>1
<1>4. Tells(t, u, b)
  BY <1>3 DEF Tells
<1> QED BY <1>4 DEF t, e

(* Dropping an event about someone else does not change what is told. *)
LEMMA TellsDropped ==
    ASSUME NEW s \in Seq(Events), NEW t \in Seq(Events), NEW u, NEW b, Tells(s, u, b),
           NEW n \in 1 .. Len(s), ~About(s[n], u), Len(t) = Len(s) - 1,
           \A k \in 1 .. Len(s) - 1 : t[k] = IF k < n THEN s[k] ELSE s[k + 1]
    PROVE  Tells(t, u, b)
<1>1. ASSUME NEW i \in 1 .. Len(t), About(t[i], u),
             \A j \in i + 1 .. Len(t) : ~About(t[j], u)
      PROVE  t[i].online = b
  <2> DEFINE m == IF i < n THEN i ELSE i + 1
  <2>1. m \in 1 .. Len(s) /\ t[i] = s[m] /\ i \in 1 .. Len(s) - 1 /\ Len(s) \in Nat
    OBVIOUS
  <2>2. ASSUME NEW j \in m + 1 .. Len(s)
        PROVE  ~About(s[j], u)
    <3>1. CASE j = n
      BY <3>1
    <3>2. CASE j < n
      <4>1. j \in i + 1 .. Len(t) /\ j \in 1 .. Len(s) - 1 /\ t[j] = s[j]
        BY <2>1, <3>2
      <4> QED BY <1>1, <4>1
    <3>3. CASE j > n
      <4>1. j - 1 \in i + 1 .. Len(t) /\ j - 1 \in 1 .. Len(s) - 1 /\ (j - 1) + 1 = j
            /\ ~(j - 1 < n)
        BY <2>1, <3>3
      <4>2. t[j - 1] = s[j]
        BY <4>1
      <4> QED BY <1>1, <4>1, <4>2
    <3> QED BY <2>1, <3>1, <3>2, <3>3
  <2> HIDE DEF m
  <2> QED BY <1>1, <2>1, <2>2 DEF Tells
<1> QED BY <1>1 DEF Tells

LEMMA NoPresenceGrows ==
    ASSUME NEW s \in Seq(Events), NEW e \in Events, NoPresence(s), e.type # "presence"
    PROVE  NoPresence(Append(s, e))
<1>1. /\ Len(s) \in Nat /\ Len(Append(s, e)) = Len(s) + 1 /\ Append(s, e)[Len(s) + 1] = e
      /\ \A i \in 1 .. Len(s) : Append(s, e)[i] = s[i]
  OBVIOUS
<1> QED BY <1>1 DEF NoPresence

-----------------------------------------------------------------------------
(* What is on its way through the hub: typing events, and stored messages on *)
(* the way to where they belong; never a notice.                             *)
Traced(m) ==
    \/ m.event.type = "typing"
    \/ /\ m.event.type = "message" /\ m.event.id \in 1 .. Len(stored)
       /\ m.dest[1] = "room" => stored[m.event.id].dest = m.dest

CopiesInv ==
    /\ \A i \in 1 .. Len(bcast) : Traced(bcast[i])
    /\ hub.at = "send" => Traced(hub.msg)

LEMMA CopiesInit == Init => CopiesInv
BY DEF Init, CopiesInv, Select

LEMMA CopiesQuiet ==
    ASSUME CopiesInv, UNCHANGED <<stored, bcast>>, UNCHANGED hub \/ hub'.at # "send"
    PROVE  CopiesInv'
BY DEF CopiesInv, Traced

LEMMA CopiesCreate ==
    ASSUME TypeInv, CopiesInv, NEW c \in Conns, CreateMessage(c)
    PROVE  CopiesInv'
<1> DEFINE m == [sender |-> c, dest |-> job[c].dest]
<1>1. /\ UNCHANGED <<bcast, hub>> /\ stored' = Append(stored, m)
      /\ stored \in Seq([sender : Conns, dest : Dests])
  BY DEF CreateMessage, hubVars, TypeInv, TypeOK
<1>2. \A i \in 1 .. Len(stored) : i \in 1 .. Len(stored') /\ stored'[i] = stored[i]
  BY <1>1
<1>3. \A x : Traced(x) => Traced(x)'
  BY <1>2 DEF Traced
<1> QED BY <1>1, <1>3 DEF CopiesInv

LEMMA OutboundTraced ==
    ASSUME HubInv, NEW c \in Conns, NEW d, pc[c] \in {"publish", "echo"},
           d = job[c].dest \/ d = <<"user", UserOf[c]>>
    PROVE  Traced(OutboundFor(c, d))
<1>1. job[c] \in PostJobs
  BY DEF HubInv, TypeInv, JobOK
<1>2. CASE job[c].kind = "typing"
  BY <1>2 DEF OutboundFor, Traced, Typing
<1>3. CASE job[c].kind # "typing"
  <2>1. /\ job[c].kind = "message" /\ job[c].id \in 1 .. Len(stored)
        /\ stored[job[c].id].dest = job[c].dest
    <3>1. job[c].kind = "message"
      BY <1>1, <1>3 DEF PostJobs
    <3>2. /\ job[c].id \in 1 .. Len(stored)
          /\ stored[job[c].id] = [sender |-> c, dest |-> job[c].dest]
      BY <3>1 DEF HubInv, RequestInv
    <3> QED BY <3>1, <3>2
  <2>2. OutboundFor(c, d).event = Message(job[c].id) /\ OutboundFor(c, d).dest = d
    BY <1>3 DEF OutboundFor
  <2> QED BY <2>1, <2>2 DEF Traced, Message
<1> QED BY <1>2, <1>3

LEMMA CopiesBroadcast ==
    ASSUME HubInv, CopiesInv, NEW c \in Conns, Publish(c) \/ Echo(c)
    PROVE  CopiesInv'
<1>1. /\ pc[c] \in {"publish", "echo"} /\ UNCHANGED <<stored, hub>>
      /\ bcast \in Seq(Outbound)
  BY DEF Publish, Echo, Finish, Goto, hubVars, tableVars, HubInv, TypeInv, TypeOK
<1>2. \E o : Traced(o) /\ bcast' = Append(bcast, o)
  <2>1. PICK d : /\ d = job[c].dest \/ d = <<"user", UserOf[c]>>
                 /\ bcast' = Append(bcast, OutboundFor(c, d))
    BY DEF Publish, Echo, Broadcast
  <2>2. Traced(OutboundFor(c, d))
    BY <1>1, <2>1, OutboundTraced
  <2> QED BY <2>1, <2>2
<1>3. PICK o : Traced(o) /\ bcast' = Append(bcast, o)
  BY <1>2
<1>4. \A x : Traced(x) => Traced(x)'
  BY <1>1 DEF Traced
<1>5. \A i \in 1 .. Len(bcast') : bcast'[i] = o \/ (i \in 1 .. Len(bcast) /\ bcast'[i] = bcast[i])
  BY <1>1, <1>3
<1> QED BY <1>1, <1>3, <1>4, <1>5 DEF CopiesInv

LEMMA CopiesTake == ASSUME TypeInv, CopiesInv, HubTake PROVE CopiesInv'
<1>1. /\ UNCHANGED stored /\ hub'.msg = Head(bcast) /\ bcast' = Tail(bcast)
      /\ bcast # <<>> /\ bcast \in Seq(Outbound)
  BY DEF HubTake, tableVars, TypeInv, TypeOK
<1>2. /\ Head(bcast) = bcast[1] /\ 1 \in 1 .. Len(bcast)
      /\ \A i \in 1 .. Len(bcast') : i + 1 \in 1 .. Len(bcast) /\ bcast'[i] = bcast[i + 1]
  BY <1>1
<1>3. \A x : Traced(x) => Traced(x)'
  BY <1>1 DEF Traced
<1> QED BY <1>1, <1>2, <1>3 DEF CopiesInv

LEMMA CopiesStep == HubInv /\ CopiesInv /\ [Next]_vars => CopiesInv'
<1> SUFFICES ASSUME HubInv, CopiesInv, [Next]_vars PROVE CopiesInv'
  OBVIOUS
<1>1. CASE HTTPStep \/ UNCHANGED vars
  BY <1>1, CopiesQuiet DEF HTTPStep, HTTPJoin, HTTPLeave, vars, hubVars
<1>2. ASSUME NEW c \in Conns, Connect(c) \/ Request(c) \/ Disconnect(c) \/ Write(c)
      PROVE  CopiesInv'
  BY <1>2, CopiesQuiet DEF Connect, Request, Receive, RejectJoin, MarkRead, Disconnect, Write,
     WriteEvent, WriteFails, hubVars, tableVars
<1>3. ASSUME NEW c \in Conns, Serve(c)
      PROVE  CopiesInv'
  <2>1. CASE CreateMessage(c) \/ Publish(c) \/ Echo(c)
    BY <2>1, CopiesCreate, CopiesBroadcast DEF HubInv
  <2>2. CASE ~(CreateMessage(c) \/ Publish(c) \/ Echo(c))
    BY <1>3, <2>2, CopiesQuiet DEF Serve, JoinStore, SubscribeRoom, ConfirmJoin, LeaveStore,
       UnsubscribeRoom, CheckMember, CreateFails, CloseSocket, hubVars, tableVars
  <2> QED BY <2>1, <2>2
<1>4. CASE HubStep
  <2>1. CASE HubTake
    BY <2>1, CopiesTake DEF HubInv
  <2>2. CASE ~HubTake
    <3>1. ASSUME NEW c \in Conns, HubRegister(c) \/ HubUnregister(c)
          PROVE  UNCHANGED <<stored, bcast>> /\ hub'.at # "send"
      BY <3>1 DEF HubRegister, HubUnregister, tableVars
    <3>2. ASSUME HubAdd \/ HubRemove \/ HubSend
          PROVE  UNCHANGED <<stored, bcast>> /\ hub'.at # "send"
      <4>1. UNCHANGED bcast /\ hub' = Select
        BY <3>2 DEF HubAdd, HubRemove, HubSend
      <4>2. UNCHANGED stored
        BY <3>2 DEF HubAdd, HubRemove, HubSend, tableVars
      <4> QED BY <4>1, <4>2 DEF Select
    <3> QED BY <1>4, <2>2, <3>1, <3>2, CopiesQuiet DEF HubStep
  <2> QED BY <2>1, <2>2
<1> QED BY <1>1, <1>2, <1>3, <1>4 DEF Next

-----------------------------------------------------------------------------
(* Presence. *)

LEMMA PresenceEvents ==
    ASSUME NEW x \in Events, NEW u, x.type = "presence", x.user = u
    PROVE  x = Presence(u, TRUE) \/ x = Presence(u, FALSE)
<1>1. x \in [type : {"presence"}, user : Users, online : BOOLEAN]
  BY DEF Events, Refusal
<1>2. x = [type |-> "presence", user |-> x.user, online |-> x.online] /\ x.online \in BOOLEAN
  BY <1>1
<1> QED BY <1>2 DEF Presence

LEMMA PresenceInit == Init => PresenceInv
BY DEF Init, PresenceInv, PresenceView, NoPresence, Log

(* A connection that is leaving, or has left, does not come back. *)
LEMMA LateStays ==
    ASSUME TypeOK, [Next]_vars, NEW c \in Conns, pc[c] \in Late
    PROVE  pc'[c] \in Late
<1>1. CASE HTTPStep \/ UNCHANGED vars
  BY <1>1 DEF HTTPStep, HTTPJoin, HTTPLeave, vars, connVars
<1>2. ASSUME NEW d \in Conns, Connect(d) \/ Request(d) \/ Disconnect(d) \/ Write(d)
      PROVE  pc'[c] \in Late
  BY <1>2 DEF Connect, Request, Receive, RejectJoin, MarkRead, Disconnect, Write, WriteEvent,
     WriteFails, Goto, connVars, TypeOK, Late
<1>3. ASSUME NEW d \in Conns, Serve(d)
      PROVE  pc'[c] \in Late
  BY <1>3 DEF Serve, JoinStore, SubscribeRoom, ConfirmJoin, LeaveStore, UnsubscribeRoom,
     CheckMember, CreateMessage, CreateFails, Publish, Echo, CloseSocket, Finish, Goto,
     TypeOK, Late
<1>4. CASE HubStep
  BY <1>4 DEF HubStep, HubRegister, HubUnregister, HubAdd, HubRemove, HubTake, HubSend,
     connVars, Goto, TypeOK, Late
<1> QED BY <1>1, <1>2, <1>3, <1>4 DEF Next

(* Nobody comes or goes, and nothing is given. *)
LEMMA PresenceQuiet ==
    ASSUME TypeOK, PresenceInv, [Next]_vars, UNCHANGED <<users, lost>>,
           \A c \in Conns : Log(c)' = Log(c)
    PROVE  PresenceInv'
<1>1. \A c \in Conns : Outside(c)' => Outside(c)
  BY LateStays DEF Outside
<1>2. \A c \in Conns, u \in Users : Missed(c, u)' <=> Missed(c, u)
  BY DEF Missed
<1>3. PresenceView'
  <2>1. ASSUME NEW c \in Conns, NEW u \in Users, c \in users'[UserOf[c]], ~Missed(c, u)'
        PROVE  Tells(Log(c)', u, users'[u] # {})
    BY <1>2, <2>1, PresenceViewIs DEF PresenceInv
  <2> QED BY <2>1 DEF PresenceView, Tells, Missed
<1> QED BY <1>1, <1>3 DEF PresenceInv

(* Nobody comes or goes, and what is given is no presence event. *)
LEMMA PresenceOffer ==
    ASSUME TypeOK, PresenceInv, [Next]_vars, UNCHANGED <<users, wire>>, NEW cs,
           NEW e \in Events, e.type # "presence", Offer(cs, e)
    PROVE  PresenceInv'
<1>1. \A c \in Conns : Outside(c)' => Outside(c)
  BY LateStays DEF Outside
<1>2. ASSUME NEW c \in Conns
      PROVE  /\ lost[c] \subseteq lost'[c]
             /\ Log(c) \in Seq(Events)
             /\ Log(c)' = Append(Log(c), e) \/ Log(c)' = Log(c)
  BY OfferLog
<1>3. ASSUME NEW c \in Conns, NEW u \in Users, c \in users'[UserOf[c]], ~Missed(c, u)'
      PROVE  Tells(Log(c)', u, users'[u] # {})
  <2>1. Tells(Log(c), u, users[u] # {})
    BY <1>2, <1>3, PresenceViewIs DEF PresenceInv, Missed
  <2>2. ~About(e, u)
    BY DEF About
  <2> QED BY <1>2, <2>1, <2>2, TellsOther
<1>4. PresenceView'
  BY <1>3 DEF PresenceView, Tells, Missed
<1>5. \A c \in Conns : Outside(c)' => NoPresence(Log(c)')
  BY <1>1, <1>2, NoPresenceGrows DEF PresenceInv
<1> QED BY <1>4, <1>5 DEF PresenceInv, NoPresence

(* The newcomer has heard of nobody, and everybody hears of the newcomer. *)
LEMMA PresenceHubAdd ==
    ASSUME HubInv, HubInv', PresenceInv, HubAdd
    PROVE  PresenceInv'
<1> DEFINE n == hub.conn
           v == UserOf[n]
           e == Presence(v, TRUE)
           cs == UNION {users'[u] : u \in Users}
<1>1. /\ n \in Conns /\ v \in Users /\ e \in Events
  BY HubAssumption, HubShape, EventTypes DEF HubInv, TypeInv, TypeOK, HubAdd
<1>2. /\ UNCHANGED <<pc, wire>> /\ Offer(cs, e)
      /\ users' = [users EXCEPT ![v] = @ \cup {n}]
  BY DEF HubAdd, connVars
<1>3. Outside(n)
  <2>1. Being(n, "add") /\ n \notin users[v] /\ pc[n] \notin Late
    BY <1>1 DEF HubAdd, Being, HubInv, GhostInv, LifeOK, NoGhostConn
  <2> QED BY <2>1 DEF Outside
<1>4. \A c \in Conns : c \in cs <=> c \in users'[UserOf[c]]
  <2>1. \A c \in Conns, u \in Users : c \in users'[u] => u = UserOf[c]
    BY DEF HubInv, GhostInv, NoGhostConn
  <2> QED BY <2>1, HubAssumption
<1>5. \A c \in Conns : c \in users'[UserOf[c]] <=> c \in users[UserOf[c]] \/ c = n
  BY <1>1, <1>2, HubAssumption DEF HubInv, TypeInv, TypeOK
<1>6. /\ \A u \in Users \ {v} : users'[u] = users[u]
      /\ users'[v] # {}
  BY <1>1, <1>2 DEF HubInv, TypeInv, TypeOK
<1> HIDE DEF n, v, cs
<1>7. ASSUME NEW c \in Conns
      PROVE  /\ Log(c) \in Seq(Events)
             /\ c \in cs /\ HasSpace(c)  => Log(c)' = Append(Log(c), e) /\ lost'[c] = lost[c]
             /\ c \in cs /\ ~HasSpace(c) => Log(c)' = Log(c) /\ lost'[c] = lost[c] \cup {e}
             /\ c \notin cs => Log(c)' = Log(c) /\ lost'[c] = lost[c]
  BY <1>1, <1>2, OfferLog DEF HubInv, TypeInv
<1>8. ASSUME NEW c \in Conns, NEW u \in Users, c \in users'[UserOf[c]], ~Missed(c, u)'
      PROVE  Tells(Log(c)', u, users'[u] # {})
  <2>1. CASE u = v
    <3>1. HasSpace(c)
      BY <1>4, <1>7, <1>8, <2>1 DEF Missed
    <3>2. Log(c)' = Append(Log(c), Presence(u, TRUE))
      BY <1>4, <1>7, <1>8, <2>1, <3>1
    <3>3. Tells(Append(Log(c), Presence(u, TRUE)), u, TRUE)
      BY <1>7, TellsNews
    <3>4. (users'[u] # {}) = TRUE
      BY <1>6, <2>1
    <3> QED BY <3>2, <3>3, <3>4
  <2>2. CASE u # v
    <3>1. ~Missed(c, u)
      BY <1>7, <1>8, <1>4 DEF Missed
    <3>2. Tells(Log(c), u, users[u] # {})
      <4>1. CASE c = n
        <5>1. NoPresence(Log(c))
          BY <1>3, <4>1, <1>1 DEF PresenceInv
        <5> QED BY <5>1, TellsNothing
      <4>2. CASE c # n
        BY <1>5, <1>8, <3>1, <4>2, PresenceViewIs DEF PresenceInv
      <4> QED BY <4>1, <4>2
    <3>3. ~About(e, u)
      BY <2>2 DEF About, Presence
    <3>4. Tells(Append(Log(c), e), u, users[u] # {})
      <4> HIDE DEF e
      <4> QED BY <1>1, <1>7, <3>2, <3>3, TellsOther
    <3>5. Tells(Log(c)', u, users[u] # {})
      BY <1>4, <1>7, <1>8, <3>2, <3>4
    <3> QED BY <1>6, <2>2, <3>5
  <2> QED BY <2>1, <2>2
<1>9. PresenceView'
  BY <1>8 DEF PresenceView, Tells, Missed
<1>10. \A c \in Conns : Outside(c)' => NoPresence(Log(c)')
  BY <1>2, <1>4, <1>5, <1>7 DEF PresenceInv, Outside
<1> QED BY <1>9, <1>10 DEF PresenceInv, NoPresence

(* With its last connection a user goes offline, and who is left hears of it. *)
LEMMA PresenceHubRemove ==
    ASSUME HubInv, HubInv', PresenceInv, HubRemove
    PROVE  PresenceInv'
<1> DEFINE n == hub.conn
           v == UserOf[n]
           e == Presence(v, FALSE)
           cs == UNION {users'[u] : u \in Users}
<1>1. /\ n \in Conns /\ v \in Users /\ e \in Events
  BY HubAssumption, HubShape, EventTypes DEF HubInv, TypeInv, TypeOK, HubRemove
<1>2. /\ UNCHANGED <<pc, wire>>
      /\ users' = [users EXCEPT ![v] = @ \ {n}]
      /\ \/ users'[v] = {} /\ Offer(cs, e)
         \/ (users[v] = {} \/ users'[v] # {}) /\ UNCHANGED <<sendq, lost>>
  BY DEF HubRemove, connVars
<1>3. pc[n] \in Late
  BY <1>1 DEF HubRemove, Being, HubInv, GhostInv, LifeOK
<1>4. \A c \in Conns : c \in cs <=> c \in users'[UserOf[c]]
  <2>1. \A c \in Conns, u \in Users : c \in users'[u] => u = UserOf[c]
    BY DEF HubInv, GhostInv, NoGhostConn
  <2> QED BY <2>1, HubAssumption
<1>5. \A c \in Conns : c \in users'[UserOf[c]] <=> c \in users[UserOf[c]] /\ c # n
  <2>1. \A c \in Conns : UserOf[c] \in Users
    BY HubAssumption
  <2>2. \A c \in Conns : c = n => UserOf[c] = v
    OBVIOUS
  <2> HIDE DEF v, n
  <2>3. users \in [Users -> SUBSET Conns]
    BY DEF HubInv, TypeInv, TypeOK
  <2> QED BY <1>1, <1>2, <2>1, <2>2, <2>3
<1>6. /\ \A u \in Users \ {v} : users'[u] = users[u]
      /\ users'[v] \subseteq users[v]
  BY <1>1, <1>2 DEF HubInv, TypeInv, TypeOK
<1> HIDE DEF n, v, cs
<1>7. \A c \in Conns : Outside(c)' => Outside(c) /\ c \notin cs
  BY <1>2, <1>3, <1>4, <1>5 DEF Outside
<1>8. CASE users'[v] = {} /\ Offer(cs, e)
  <2>1. ASSUME NEW c \in Conns
        PROVE  /\ Log(c) \in Seq(Events)
               /\ c \in cs /\ HasSpace(c)  => Log(c)' = Append(Log(c), e) /\ lost'[c] = lost[c]
               /\ c \in cs /\ ~HasSpace(c) => Log(c)' = Log(c) /\ lost'[c] = lost[c] \cup {e}
               /\ c \notin cs => Log(c)' = Log(c) /\ lost'[c] = lost[c]
    BY <1>1, <1>2, <1>8, OfferLog DEF HubInv, TypeInv
  <2>2. ASSUME NEW c \in Conns, NEW u \in Users, c \in users'[UserOf[c]], ~Missed(c, u)'
        PROVE  Tells(Log(c)', u, users'[u] # {})
    <3>1. CASE u = v
      <4>1. HasSpace(c)
        BY <1>4, <2>1, <2>2, <3>1 DEF Missed
      <4>2. Log(c)' = Append(Log(c), Presence(u, FALSE))
        BY <1>4, <2>1, <2>2, <3>1, <4>1
      <4>3. Tells(Append(Log(c), Presence(u, FALSE)), u, FALSE)
        BY <2>1, TellsNews
      <4>4. (users'[u] # {}) = FALSE
        BY <1>8, <3>1
      <4> QED BY <4>2, <4>3, <4>4
    <3>2. CASE u # v
      <4>1. ~Missed(c, u)
        BY <1>4, <2>1, <2>2 DEF Missed
      <4>2. Tells(Log(c), u, users[u] # {})
        BY <1>5, <2>2, <4>1, PresenceViewIs DEF PresenceInv
      <4>3. ~About(e, u)
        BY <3>2 DEF About, Presence
      <4>4. Tells(Append(Log(c), e), u, users[u] # {})
        <5> HIDE DEF e
        <5> QED BY <1>1, <2>1, <4>2, <4>3, TellsOther
      <4>5. Tells(Log(c)', u, users[u] # {})
        BY <1>4, <2>1, <2>2, <4>2, <4>4
      <4> QED BY <1>6, <3>2, <4>5
    <3> QED BY <3>1, <3>2
  <2>3. PresenceView'
    BY <2>2 DEF PresenceView, Tells, Missed
  <2>4. \A c \in Conns : Outside(c)' => NoPresence(Log(c)')
    BY <1>7, <2>1 DEF PresenceInv
  <2> QED BY <2>3, <2>4 DEF PresenceInv, NoPresence
<1>9. CASE (users[v] = {} \/ users'[v] # {}) /\ UNCHANGED <<sendq, lost>>
  <2>1. \A u \in Users : (users'[u] # {}) = (users[u] # {})
    BY <1>6, <1>9
  <2>2. \A c \in Conns : Log(c)' = Log(c)
    BY <1>2, <1>9, LogKept
  <2>3. ASSUME NEW c \in Conns, NEW u \in Users, c \in users'[UserOf[c]], ~Missed(c, u)'
        PROVE  Tells(Log(c)', u, users'[u] # {})
    <3>1. ~Missed(c, u)
      BY <1>9, <2>3 DEF Missed
    <3>2. Tells(Log(c), u, users[u] # {})
      BY <1>5, <2>3, <3>1, PresenceViewIs DEF PresenceInv
    <3> QED BY <2>1, <2>2, <3>2
  <2>4. PresenceView'
    BY <2>3 DEF PresenceView, Tells, Missed
  <2>5. \A c \in Conns : Outside(c)' => NoPresence(Log(c)')
    BY <1>7, <2>2 DEF PresenceInv
  <2> QED BY <2>4, <2>5 DEF PresenceInv, NoPresence
<1> QED BY <1>2, <1>8, <1>9

(* A failed write costs the connection what it was about to hear. *)
LEMMA PresenceWriteFails ==
    ASSUME HubInv, PresenceInv, [Next]_vars, NEW d \in Conns, WriteFails(d)
    PROVE  PresenceInv'
<1>1. UNCHANGED <<users, pc>>
  BY DEF WriteFails, hubVars
<1>2. \A c \in Conns : Outside(c)' => Outside(c)
  BY <1>1 DEF Outside
<1>3. /\ \A c \in Conns \ {d} : Log(c)' = Log(c) /\ lost'[c] = lost[c]
      /\ \E n \in 1 .. Len(Log(d)) :
            /\ lost'[d] = lost[d] \cup {Log(d)[n]}
            /\ Log(d)' \in Seq(Events) /\ Len(Log(d)') = Len(Log(d)) - 1
            /\ \A k \in 1 .. Len(Log(d)) - 1 :
                  Log(d)'[k] = IF k < n THEN Log(d)[k] ELSE Log(d)[k + 1]
  BY DropLog DEF HubInv, TypeInv
<1>4. PICK n \in 1 .. Len(Log(d)) :
            /\ lost'[d] = lost[d] \cup {Log(d)[n]}
            /\ Log(d)' \in Seq(Events) /\ Len(Log(d)') = Len(Log(d)) - 1
            /\ \A k \in 1 .. Len(Log(d)) - 1 :
                  Log(d)'[k] = IF k < n THEN Log(d)[k] ELSE Log(d)[k + 1]
  BY <1>3
<1>5. Log(d) \in Seq(Events)
  BY LogType DEF HubInv, TypeInv
<1>6. ASSUME NEW c \in Conns, NEW u \in Users, c \in users'[UserOf[c]], ~Missed(c, u)'
      PROVE  Tells(Log(c)', u, users'[u] # {})
  <2>1. ~Missed(c, u)
    BY <1>3, <1>4, <1>6 DEF Missed
  <2>2. Tells(Log(c), u, users[u] # {})
    BY <1>1, <1>6, <2>1, PresenceViewIs DEF PresenceInv
  <2>3. CASE c = d
    <3>1. ~About(Log(d)[n], u)
      <4> SUFFICES ASSUME About(Log(d)[n], u) PROVE FALSE
        OBVIOUS
      <4>1. Log(d)[n] \in Events /\ Log(d)[n].type = "presence" /\ Log(d)[n].user = u
        BY <1>5 DEF About
      <4>2. Log(d)[n] = Presence(u, TRUE) \/ Log(d)[n] = Presence(u, FALSE)
        BY <4>1, PresenceEvents
      <4> QED BY <1>4, <1>6, <2>3, <4>2 DEF Missed
    <3>2. Tells(Log(d)', u, users[u] # {})
      BY <1>4, <1>5, <2>2, <2>3, <3>1, TellsDropped
    <3> QED BY <1>1, <2>3, <3>2
  <2>4. CASE c # d
    BY <1>1, <1>3, <2>2, <2>4
  <2> QED BY <2>3, <2>4
<1>7. PresenceView'
  BY <1>6 DEF PresenceView, Tells, Missed
<1>8. ASSUME NEW c \in Conns, Outside(c)'
      PROVE  NoPresence(Log(c)')
  <2>1. NoPresence(Log(c))
    BY <1>2, <1>8 DEF PresenceInv
  <2>2. CASE c = d
    BY <1>4, <1>5, <2>1, <2>2 DEF NoPresence
  <2>3. CASE c # d
    BY <1>3, <2>1, <2>3
  <2> QED BY <2>2, <2>3
<1> QED BY <1>7, <1>8 DEF PresenceInv, NoPresence

LEMMA PresenceConn ==
    ASSUME HubInv, PresenceInv, [Next]_vars, NEW c \in Conns,
           \/ Connect(c) \/ Request(c) \/ Serve(c) \/ Disconnect(c) \/ Write(c)
           \/ HubRegister(c) \/ HubUnregister(c)
    PROVE  PresenceInv'
<1>1. TypeOK
  BY DEF HubInv, TypeInv
<1>2. CASE WriteFails(c)
  BY <1>2, PresenceWriteFails
<1>3. CASE WriteEvent(c)
  <2>1. UNCHANGED <<users, lost>>
    BY <1>3 DEF WriteEvent, hubVars
  <2>2. \A d \in Conns : Log(d)' = Log(d)
    BY <1>1, <1>3, WriteLog
  <2> QED BY <1>1, <2>1, <2>2, PresenceQuiet
<1>4. CASE RejectJoin(c) \/ ConfirmJoin(c) \/ (CheckMember(c) /\ Offer({c}, Refusal))
  <2>1. UNCHANGED <<users, wire>>
    BY <1>4 DEF RejectJoin, ConfirmJoin, CheckMember, hubVars
  <2>2. PICK e \in Events : e.type # "presence" /\ Offer({c}, e)
    <3>1. CASE ConfirmJoin(c)
      <4>1. job[c].dest[2] \in Rooms
        BY <3>1, RoomJobShape DEF HubInv, TypeInv, JobOK, ConfirmJoin, Finish, Goto
      <4>2. RoomJoined(job[c].dest[2]) \in Events
        BY <4>1, EventTypes
      <4> QED BY <3>1, <4>2 DEF ConfirmJoin, RoomJoined
    <3>2. CASE ~ConfirmJoin(c)
      <4>1. Refusal \in Events /\ Refusal.type # "presence"
        BY EventTypes DEF Refusal
      <4> QED BY <1>4, <3>2, <4>1 DEF RejectJoin
    <3> QED BY <3>1, <3>2
  <2> QED BY <1>1, <2>1, <2>2, PresenceOffer
<1>5. CASE UNCHANGED <<users, lost, wire, sendq>>
  BY <1>1, <1>5, PresenceQuiet, LogKept
<1>6. CASE Connect(c) \/ Disconnect(c) \/ HubRegister(c) \/ HubUnregister(c)
  <2>1. UNCHANGED <<users, lost, wire, sendq>>
    BY <1>6 DEF Connect, Disconnect, HubRegister, HubUnregister, hubVars
  <2> QED BY <2>1, <1>5
<1>7. CASE Request(c) /\ ~RejectJoin(c)
  <2>1. UNCHANGED <<users, lost, wire, sendq>>
    BY <1>7 DEF Request, Receive, MarkRead, hubVars
  <2> QED BY <2>1, <1>5
<1>8. CASE Serve(c) /\ ~ConfirmJoin(c) /\ ~(CheckMember(c) /\ Offer({c}, Refusal))
  <2>1. UNCHANGED <<users, lost, wire, sendq>>
    BY <1>8 DEF Serve, JoinStore, SubscribeRoom, LeaveStore, UnsubscribeRoom, CheckMember,
       CreateMessage, CreateFails, Publish, Echo, CloseSocket, hubVars
  <2> QED BY <2>1, <1>5
<1> QED BY <1>2, <1>3, <1>4, <1>6, <1>7, <1>8 DEF Write, Request

LEMMA PresenceHub ==
    ASSUME HubInv, HubInv', CopiesInv, PresenceInv, [Next]_vars, HubStep
    PROVE  PresenceInv'
<1>1. TypeOK
  BY DEF HubInv, TypeInv
<1>2. CASE HubTake
  <2>1. UNCHANGED <<users, lost, wire, sendq>>
    BY <1>2 DEF HubTake
  <2> QED BY <1>1, <2>1, PresenceQuiet, LogKept
<1>3. CASE HubSend
  <2>1. UNCHANGED <<users, wire>> /\ hub.at = "send"
    BY <1>3 DEF HubSend
  <2>2. hub.msg.event \in Events /\ hub.msg.event.type # "presence"
    BY <1>1, <2>1, HubShape, OutboundShape DEF TypeOK, CopiesInv, Traced
  <2>3. Offer(Audience(hub.msg.dest) \ {hub.msg.exclude}, hub.msg.event)
    BY <1>3 DEF HubSend
  <2> QED BY <1>1, <2>1, <2>2, <2>3, PresenceOffer
<1> QED BY <1>2, <1>3, PresenceHubAdd, PresenceHubRemove, PresenceConn DEF HubStep

LEMMA PresenceStep ==
    HubInv /\ HubInv' /\ CopiesInv /\ PresenceInv /\ [Next]_vars => PresenceInv'
<1> SUFFICES ASSUME HubInv, HubInv', CopiesInv, PresenceInv, [Next]_vars
             PROVE  PresenceInv'
  OBVIOUS
<1>1. CASE HTTPStep \/ UNCHANGED vars
  <2>1. UNCHANGED <<users, lost, wire, sendq>>
    BY <1>1 DEF HTTPStep, HTTPJoin, HTTPLeave, vars, hubVars
  <2>2. TypeOK
    BY DEF HubInv, TypeInv
  <2> QED BY <2>1, <2>2, PresenceQuiet, LogKept
<1> QED BY <1>1, PresenceConn, PresenceHub DEF Next

LEMMA CopiesCorrect == Spec => []CopiesInv
BY HubCorrect, CopiesInit, CopiesStep, PTL DEF Spec

(* What a connected client last heard of a user is true, although users come *)
(* and go with several connections and the newcomer hears of itself: only a  *)
(* presence event that a full buffer refused can leave it mistaken.          *)
THEOREM HubPresenceView == Spec => []PresenceView
<1>1. PresenceInv => PresenceView
  BY DEF PresenceInv
<1> QED
  BY <1>1, HubCorrect, CopiesCorrect, PresenceInit, PresenceStep, PTL DEF Spec

-----------------------------------------------------------------------------
(* Messages: each is settled for those it is owed to, or on its way. *)

Given(id, c) == \E i \in 1 .. Len(Log(c)) : Log(c)[i] = Message(id)

Settled(id, c) == Given(id, c) \/ Message(id) \in lost[c]

(* The goroutine has still to broadcast the message to c. *)
Promises(d, id, c) ==
    /\ pc[d] \in {"publish", "echo"} /\ job[d].kind = "message" /\ job[d].id = id
    /\ \/ pc[d] = "publish" /\ c \in Audience(job[d].dest)
       \/ job[d].dest[1] = "user" /\ UserOf[c] = UserOf[d]

Carries(m, id, c) == m.event = Message(id) /\ m.exclude # c /\ c \in Audience(m.dest)

LEMMA PendingIs ==
    ASSUME NEW id, NEW c
    PROVE  Pending(id, c) <=> \/ \E d \in Conns : Promises(d, id, c)
                              \/ \E i \in 1 .. Len(bcast) : Carries(bcast[i], id, c)
                              \/ hub.at = "send" /\ Carries(hub.msg, id, c)
BY DEF Pending, Promises, Carries

(* A direct message is owed to connected clients only. *)
OwedInv ==
    \A c \in Conns : \A id \in owed[c] :
        stored[id].dest[1] = "user" => c \in users[UserOf[c]]

DeliveryInv == NoMissedMessage /\ OwedInv

LEMMA NoMissedIs ==
    NoMissedMessage <=>
        \A c \in Conns : \A id \in owed[c] : Settled(id, c) \/ Pending(id, c)
BY DEF NoMissedMessage, Settled, Given

LEMMA DeliveryInit == Init => DeliveryInv
BY DEF Init, DeliveryInv, NoMissedMessage, OwedInv

(* A step gives an event, writes one, loses one, or leaves the logs alone. *)
LEMMA LogSteps ==
    ASSUME HubInv, HubInv', [Next]_vars
    PROVE  \/ UNCHANGED <<lost, wire, sendq>>
           \/ UNCHANGED wire /\ \E cs, e : e \in Events /\ Offer(cs, e)
           \/ \E c \in Conns : WriteEvent(c) \/ WriteFails(c)
<1>1. CASE HTTPStep \/ UNCHANGED vars
  BY <1>1 DEF HTTPStep, HTTPJoin, HTTPLeave, vars
<1>2. ASSUME NEW c \in Conns,
             \/ Connect(c) \/ Request(c) \/ Disconnect(c) \/ HubRegister(c) \/ HubUnregister(c)
      PROVE  \/ UNCHANGED <<lost, wire, sendq>>
             \/ UNCHANGED wire /\ \E cs, e : e \in Events /\ Offer(cs, e)
  <2>1. CASE RejectJoin(c)
    BY <2>1, EventTypes DEF RejectJoin
  <2>2. CASE ~RejectJoin(c)
    BY <1>2, <2>2 DEF Connect, Request, Receive, MarkRead, Disconnect, HubRegister,
       HubUnregister
  <2> QED BY <2>1, <2>2
<1>3. ASSUME NEW c \in Conns, Serve(c)
      PROVE  \/ UNCHANGED <<lost, wire, sendq>>
             \/ UNCHANGED wire /\ \E cs, e : e \in Events /\ Offer(cs, e)
  <2>1. CASE ConfirmJoin(c)
    <3>1. RoomJoined(job[c].dest[2]) \in Events
      BY <2>1, RoomJobShape, EventTypes DEF HubInv, TypeInv, JobOK, ConfirmJoin, Finish, Goto
    <3> QED BY <2>1, <3>1 DEF ConfirmJoin
  <2>2. CASE CheckMember(c)
    BY <2>2, EventTypes DEF CheckMember
  <2>3. CASE ~ConfirmJoin(c) /\ ~CheckMember(c)
    BY <1>3, <2>3 DEF Serve, JoinStore, SubscribeRoom, LeaveStore, UnsubscribeRoom,
       CreateMessage, CreateFails, Publish, Echo, CloseSocket
  <2> QED BY <2>1, <2>2, <2>3
<1>4. CASE HubAdd \/ HubRemove \/ HubTake \/ HubSend
  <2>1. CASE HubTake
    BY <2>1 DEF HubTake
  <2>2. CASE HubSend
    <3>1. hub.msg.event \in Events
      BY <2>2, HubShape, OutboundShape DEF HubInv, TypeInv, TypeOK, HubSend
    <3> QED BY <2>2, <3>1 DEF HubSend
  <2>3. CASE HubAdd
    <3>1. Presence(UserOf[hub.conn], TRUE) \in Events
      BY <2>3, HubShape, EventTypes, HubAssumption DEF HubInv, TypeInv, TypeOK, HubAdd
    <3> QED BY <2>3, <3>1 DEF HubAdd
  <2>4. CASE HubRemove
    <3>1. Presence(UserOf[hub.conn], FALSE) \in Events
      BY <2>4, HubShape, EventTypes, HubAssumption DEF HubInv, TypeInv, TypeOK, HubRemove
    <3> QED BY <2>4, <3>1 DEF HubRemove
  <2> QED BY <1>4, <2>1, <2>2, <2>3, <2>4
<1> QED BY <1>1, <1>2, <1>3, <1>4 DEF Next, HubStep, Write

LEMMA GrownLog ==
    ASSUME NEW s \in Seq(Events), NEW e \in Events
    PROVE  /\ Len(Append(s, e)) = Len(s) + 1 /\ Len(s) \in Nat
           /\ \A i \in 1 .. Len(s) : i \in 1 .. Len(Append(s, e)) /\ Append(s, e)[i] = s[i]
           /\ Len(s) + 1 \in 1 .. Len(Append(s, e)) /\ Append(s, e)[Len(s) + 1] = e
OBVIOUS

LEMMA SettledStays ==
    ASSUME HubInv, HubInv', [Next]_vars, NEW c \in Conns, NEW id, Settled(id, c)
    PROVE  Settled(id, c)'
<1>1. TypeOK /\ Log(c) \in Seq(Events)
  BY LogType DEF HubInv, TypeInv
<1>2. CASE UNCHANGED <<lost, wire, sendq>>
  BY <1>2, LogKept DEF Settled, Given
<1>3. ASSUME NEW cs, NEW e \in Events, Offer(cs, e), UNCHANGED wire
      PROVE  Settled(id, c)'
  <2>1. /\ lost[c] \subseteq lost'[c]
        /\ Log(c)' = Append(Log(c), e) \/ Log(c)' = Log(c)
    BY <1>1, <1>3, OfferLog
  <2>2. Given(id, c) => Given(id, c)'
    BY <1>1, <2>1, GrownLog DEF Given, Message
  <2> QED BY <2>1, <2>2 DEF Settled, Message
<1>4. ASSUME NEW d \in Conns, WriteEvent(d)
      PROVE  Settled(id, c)'
  <2>1. UNCHANGED lost /\ Log(c)' = Log(c)
    BY <1>1, <1>4, WriteLog DEF WriteEvent
  <2> QED BY <2>1 DEF Settled, Given
<1>5. ASSUME NEW d \in Conns, WriteFails(d)
      PROVE  Settled(id, c)'
  <2>1. CASE c # d
    <3>1. Log(c)' = Log(c) /\ lost'[c] = lost[c]
      BY <1>1, <1>5, <2>1, DropLog
    <3> QED BY <3>1 DEF Settled, Given
  <2>2. CASE c = d
    <3>1. \E n \in 1 .. Len(Log(c)) :
            /\ lost'[c] = lost[c] \cup {Log(c)[n]}
            /\ Log(c)' \in Seq(Events) /\ Len(Log(c)') = Len(Log(c)) - 1
            /\ \A k \in 1 .. Len(Log(c)) - 1 :
                  Log(c)'[k] = IF k < n THEN Log(c)[k] ELSE Log(c)[k + 1]
      BY <1>1, <1>5, <2>2, DropLog
    <3>2. PICK n \in 1 .. Len(Log(c)) :
            /\ lost'[c] = lost[c] \cup {Log(c)[n]}
            /\ Log(c)' \in Seq(Events) /\ Len(Log(c)') = Len(Log(c)) - 1
            /\ \A k \in 1 .. Len(Log(c)) - 1 :
                  Log(c)'[k] = IF k < n THEN Log(c)[k] ELSE Log(c)[k + 1]
      BY <3>1
    <3>3. ASSUME NEW i \in 1 .. Len(Log(c)), Log(c)[i] = Message(id)
          PROVE  Settled(id, c)'
      <4>1. Len(Log(c)) \in Nat
        BY <1>1
      <4>2. CASE i = n
        BY <3>2, <3>3, <4>2 DEF Settled, Message
      <4>3. CASE i < n
        <5>1. i \in 1 .. Len(Log(c)') /\ Log(c)'[i] = Message(id)
          BY <3>2, <3>3, <4>1, <4>3
        <5> QED BY <5>1 DEF Settled, Given, Message
      <4>4. CASE i > n
        <5>1. /\ i - 1 \in 1 .. Len(Log(c)') /\ i - 1 \in 1 .. Len(Log(c)) - 1
              /\ ~(i - 1 < n) /\ (i - 1) + 1 = i
          BY <3>2, <4>1, <4>4
        <5>2. Log(c)'[i - 1] = Message(id)
          BY <3>2, <3>3, <5>1
        <5> QED BY <5>1, <5>2 DEF Settled, Given, Message
      <4> QED BY <4>1, <4>2, <4>3, <4>4
    <3>4. Message(id) \in lost[c] => Settled(id, c)'
      BY <3>2 DEF Settled, Message
    <3> QED BY <3>3, <3>4 DEF Settled, Given
  <2> QED BY <2>1, <2>2
<1> QED BY <1>2, <1>3, <1>4, <1>5, LogSteps

(* The message may go to this destination. *)
Fits(dest, id) == dest[1] = "room" => stored[id].dest = dest

LEMMA PromisesFit ==
    ASSUME HubInv, NEW d \in Conns, NEW id, NEW c, Promises(d, id, c)
    PROVE  /\ job[d].dest \in Dests /\ Fits(job[d].dest, id)
           /\ stored[id].dest = job[d].dest
<1>1. job[d].dest \in Dests
  BY OutboundType DEF Promises
<1>2. stored[job[d].id] = [sender |-> d, dest |-> job[d].dest]
  BY DEF HubInv, RequestInv, Promises
<1> QED BY <1>1, <1>2 DEF Promises, Fits

LEMMA CarriesFit ==
    ASSUME NEW m \in Outbound, NEW id, NEW c, Carries(m, id, c), Traced(m)
    PROVE  m.dest \in Dests /\ Fits(m.dest, id)
BY OutboundShape DEF Carries, Traced, Fits, Message

LEMMA InHub ==
    ASSUME HubInv, CopiesInv
    PROVE  /\ \A i \in 1 .. Len(bcast) : bcast[i] \in Outbound /\ Traced(bcast[i])
           /\ hub.at = "send" => hub.msg \in Outbound /\ Traced(hub.msg)
BY HubShape DEF HubInv, TypeInv, TypeOK, CopiesInv

(* c still listens to every destination it may be sent the message for. *)
StaysTuned(id, c) ==
    \A dest \in Dests : (c \in Audience(dest) /\ Fits(dest, id)) => (c \in Audience(dest))'

(* A step that publishes nothing, takes nothing and sends nothing. *)
LEMMA PendingQuiet ==
    ASSUME HubInv, CopiesInv, NEW c \in Conns, NEW id, Pending(id, c), StaysTuned(id, c),
           UNCHANGED bcast, UNCHANGED hub \/ hub.at # "send",
           \A d \in Conns : pc[d] \in {"publish", "echo"} => pc'[d] = pc[d] /\ job'[d] = job[d]
    PROVE  Pending(id, c)'
<1>1. ASSUME NEW d \in Conns, Promises(d, id, c)
      PROVE  Promises(d, id, c)'
  <2>1. pc'[d] = pc[d] /\ job'[d] = job[d]
    BY <1>1 DEF Promises
  <2>2. job[d].dest \in Dests /\ Fits(job[d].dest, id)
    BY <1>1, PromisesFit
  <2> QED BY <1>1, <2>1, <2>2 DEF Promises, StaysTuned, Audience
<1>2. ASSUME NEW i \in 1 .. Len(bcast), Carries(bcast[i], id, c)
      PROVE  Carries(bcast[i], id, c)'
  <2>1. bcast[i].dest \in Dests /\ Fits(bcast[i].dest, id)
    BY <1>2, InHub, CarriesFit
  <2> QED BY <1>2, <2>1 DEF Carries, StaysTuned, Audience, Message
<1>3. ASSUME hub.at = "send", Carries(hub.msg, id, c)
      PROVE  hub'.at = "send" /\ Carries(hub.msg, id, c)'
  <2>1. hub.msg.dest \in Dests /\ Fits(hub.msg.dest, id)
    BY <1>3, InHub, CarriesFit
  <2> QED BY <1>3, <2>1 DEF Carries, StaysTuned, Audience, Message
<1>4. \/ \E d \in Conns : Promises(d, id, c)'
      \/ \E i \in 1 .. Len(bcast) : Carries(bcast[i], id, c)'
      \/ hub'.at = "send" /\ Carries(hub.msg, id, c)'
  BY <1>1, <1>2, <1>3, PendingIs
<1> QED BY <1>4 DEF Pending, Promises, Carries

(* ... and that owes nobody anything new. *)
LEMMA DeliveryQuiet ==
    ASSUME HubInv, HubInv', CopiesInv, DeliveryInv, [Next]_vars,
           UNCHANGED <<stored, bcast>>, UNCHANGED hub \/ hub.at # "send",
           \A d \in Conns : pc[d] \in {"publish", "echo"} => pc'[d] = pc[d] /\ job'[d] = job[d],
           \A c \in Conns : owed'[c] \subseteq owed[c],
           \A c \in Conns : \A id \in owed'[c] : StaysTuned(id, c)
    PROVE  DeliveryInv'
<1>1. ASSUME NEW c \in Conns, NEW id \in owed'[c]
      PROVE  Settled(id, c)' \/ Pending(id, c)'
  <2>1. Settled(id, c) \/ Pending(id, c)
    BY NoMissedIs DEF DeliveryInv
  <2>2. StaysTuned(id, c)
    OBVIOUS
  <2> QED BY <2>1, <2>2, SettledStays, PendingQuiet
<1>2. NoMissedMessage'
  BY <1>1 DEF NoMissedMessage, Settled, Given
<1>3. ASSUME NEW c \in Conns, NEW id \in owed'[c], stored'[id].dest[1] = "user"
      PROVE  c \in users'[UserOf[c]]
  <2> DEFINE own == <<"user", UserOf[c]>>
  <2>1. c \in users[UserOf[c]]
    BY <1>3 DEF DeliveryInv, OwedInv
  <2>2. own \in Dests /\ own[1] = "user" /\ own[2] = UserOf[c]
    BY HubAssumption DEF Dests
  <2> HIDE DEF own
  <2>3. c \in Audience(own) /\ Fits(own, id)
    BY <2>1, <2>2 DEF Audience, Fits
  <2>4. (c \in Audience(own))'
    <3>1. StaysTuned(id, c)
      BY <1>3
    <3> QED BY <2>2, <2>3, <3>1 DEF StaysTuned, Audience
  <2> QED BY <2>2, <2>4 DEF Audience, own
<1>4. OwedInv'
  BY <1>3 DEF OwedInv
<1> QED BY <1>2, <1>4 DEF DeliveryInv

LEMMA TunedAlike ==
    ASSUME UNCHANGED <<users, rooms>>, NEW id, NEW c
    PROVE  StaysTuned(id, c)
BY DEF StaysTuned, Audience

LEMMA DeliveryConn ==
    ASSUME HubInv, HubInv', CopiesInv, DeliveryInv, [Next]_vars, NEW c \in Conns,
           \/ Connect(c) \/ Request(c) \/ Disconnect(c) \/ Write(c)
           \/ HubRegister(c) \/ HubUnregister(c)
           \/ JoinStore(c) \/ ConfirmJoin(c) \/ LeaveStore(c) \/ CheckMember(c)
           \/ CreateFails(c) \/ CloseSocket(c)
    PROVE  DeliveryInv'
<1>1. CASE Connect(c) \/ Disconnect(c) \/ Write(c) \/ HubRegister(c) \/ HubUnregister(c)
  <2>1. /\ UNCHANGED <<stored, bcast, users, rooms, owed>>
        /\ UNCHANGED hub \/ hub.at # "send"
    BY <1>1 DEF Connect, Disconnect, Write, WriteEvent, WriteFails, HubRegister, HubUnregister,
       Select, hubVars, tableVars
  <2>2. \A d \in Conns : pc[d] \in {"publish", "echo"} => pc'[d] = pc[d] /\ job'[d] = job[d]
    BY <1>1 DEF Connect, Disconnect, Write, WriteEvent, WriteFails, HubRegister, HubUnregister,
       Goto, connVars, HubInv, TypeInv, TypeOK
  <2> QED BY <2>1, <2>2, TunedAlike, DeliveryQuiet
<1>2. CASE Request(c)
  <2>1. UNCHANGED <<stored, bcast, users, rooms, owed, hub>>
    BY <1>2 DEF Request, Receive, RejectJoin, MarkRead, hubVars, tableVars
  <2>2. \A d \in Conns : pc[d] \in {"publish", "echo"} => pc'[d] = pc[d] /\ job'[d] = job[d]
    BY <1>2 DEF Request, Receive, RejectJoin, MarkRead, Goto, connVars, HubInv, TypeInv, TypeOK
  <2> QED BY <2>1, <2>2, TunedAlike, DeliveryQuiet
<1>3. CASE \/ JoinStore(c) \/ ConfirmJoin(c) \/ LeaveStore(c) \/ CheckMember(c)
           \/ CreateFails(c) \/ CloseSocket(c)
  <2>1. UNCHANGED <<stored, bcast, users, rooms, owed, hub>>
    BY <1>3 DEF JoinStore, ConfirmJoin, LeaveStore, CheckMember, CreateFails, CloseSocket,
       hubVars, tableVars
  <2>2. \A d \in Conns : pc[d] \in {"publish", "echo"} => pc'[d] = pc[d] /\ job'[d] = job[d]
    BY <1>3 DEF JoinStore, ConfirmJoin, LeaveStore, CheckMember, CreateFails, CloseSocket,
       Finish, Goto, HubInv, TypeInv, TypeOK
  <2> QED BY <2>1, <2>2, TunedAlike, DeliveryQuiet
<1> QED BY <1>1, <1>2, <1>3

(* Who joins a room loses nothing; who leaves one is owed nothing from it. *)
LEMMA DeliverySubscribe ==
    ASSUME HubInv, HubInv', CopiesInv, DeliveryInv, [Next]_vars, NEW c \in Conns,
           SubscribeRoom(c) \/ UnsubscribeRoom(c)
    PROVE  DeliveryInv'
<1>1. UNCHANGED <<stored, bcast, users, hub>>
  BY DEF SubscribeRoom, UnsubscribeRoom, tableVars
<1>2. \A d \in Conns : pc[d] \in {"publish", "echo"} => pc'[d] = pc[d] /\ job'[d] = job[d]
  BY DEF SubscribeRoom, UnsubscribeRoom, Finish, Goto, HubInv, TypeInv, TypeOK
<1>3. \A d \in Conns : owed'[d] \subseteq owed[d]
  <2>1. owed \in [Conns -> SUBSET (1 .. Len(stored))]
    BY DEF HubInv, TypeInv, TypeOK
  <2>2. \/ owed' = owed
        \/ owed' = [owed EXCEPT ![c] = {id \in owed[c] : stored[id].dest # job[c].dest}]
    BY DEF SubscribeRoom, UnsubscribeRoom
  <2> QED BY <2>1, <2>2
<1>4. /\ job[c].dest \in Dests /\ job[c].dest[2] \in Rooms
      /\ job[c].dest = <<"room", job[c].dest[2]>>
  <2>1. job[c] \in RoomJobs
    BY DEF SubscribeRoom, UnsubscribeRoom, Finish, Goto, HubInv, TypeInv, JobOK
  <2> QED BY <2>1, RoomJobShape DEF RoomJobs
<1>5. ASSUME NEW d \in Conns, NEW id \in owed'[d]
      PROVE  StaysTuned(id, d)
  <2> SUFFICES ASSUME NEW dest \in Dests, d \in Audience(dest), Fits(dest, id)
               PROVE  (d \in Audience(dest))'
    BY DEF StaysTuned
  <2>1. CASE SubscribeRoom(c)
    <3>1. \A r \in Rooms : rooms[r] \subseteq rooms'[r]
      BY <2>1 DEF SubscribeRoom, HubInv, TypeInv, TypeOK
    <3> QED BY <1>1, <3>1, DestShape DEF Audience
  <2>2. CASE UnsubscribeRoom(c)
    <3>1. \A r \in Rooms : rooms'[r] = IF r = job[c].dest[2] THEN rooms[r] \ {c} ELSE rooms[r]
      BY <2>2 DEF UnsubscribeRoom, HubInv, TypeInv, TypeOK
    <3>2. d = c => stored[id].dest # job[c].dest
      BY <2>2 DEF UnsubscribeRoom, HubInv, TypeInv, TypeOK
    <3>3. dest[1] = "room" => dest = <<"room", dest[2]>> /\ dest[2] \in Rooms
      BY DestShape DEF Dests
    <3>4. dest[1] = "room" /\ d = c => dest[2] # job[c].dest[2]
      BY <1>4, <3>2, <3>3 DEF Fits
    <3> QED BY <1>1, <3>1, <3>3, <3>4, DestShape DEF Audience
  <2> QED BY <2>1, <2>2
<1> QED BY <1>1, <1>2, <1>3, <1>5, DeliveryQuiet

LEMMA DeliveryHubAdd ==
    ASSUME HubInv, HubInv', CopiesInv, DeliveryInv, [Next]_vars, HubAdd
    PROVE  DeliveryInv'
<1>1. UNCHANGED <<stored, bcast, rooms, pc, job, owed>> /\ hub.at # "send"
  BY DEF HubAdd, connVars, tableVars
<1>2. \A u \in Users : users[u] \subseteq users'[u]
  BY DEF HubAdd, HubInv, TypeInv, TypeOK
<1>3. ASSUME NEW c \in Conns, NEW id \in owed'[c]
      PROVE  StaysTuned(id, c)
  BY <1>1, <1>2, DestShape DEF StaysTuned, Audience
<1> QED BY <1>1, <1>3, DeliveryQuiet

LEMMA DeliveryHubRemove ==
    ASSUME HubInv, HubInv', CopiesInv, DeliveryInv, [Next]_vars, HubRemove
    PROVE  DeliveryInv'
<1>1. UNCHANGED <<stored, bcast, pc, job>> /\ hub.at # "send"
  BY DEF HubRemove, connVars, tableVars
<1>2. /\ users' = [users EXCEPT ![UserOf[hub.conn]] = @ \ {hub.conn}]
      /\ rooms' = [r \in Rooms |-> rooms[r] \ {hub.conn}]
      /\ owed' = [owed EXCEPT ![hub.conn] = {}]
      /\ hub.conn \in Conns
  BY HubShape DEF HubRemove, HubInv, TypeInv, TypeOK
<1>3. \A c \in Conns : owed'[c] \subseteq owed[c] /\ (c = hub.conn => owed'[c] = {})
  BY <1>2 DEF HubInv, TypeInv, TypeOK
<1>4. \A c \in Conns : c # hub.conn =>
         /\ \A u \in Users : c \in users[u] => c \in users'[u]
         /\ \A r \in Rooms : c \in rooms[r] => c \in rooms'[r]
  BY <1>2 DEF HubInv, TypeInv, TypeOK
<1>5. ASSUME NEW c \in Conns, NEW id \in owed'[c]
      PROVE  StaysTuned(id, c)
  <2>1. c # hub.conn
    BY <1>3, <1>5
  <2> QED BY <1>4, <2>1, DestShape DEF StaysTuned, Audience
<1> QED BY <1>1, <1>3, <1>5, DeliveryQuiet

(* The hub has sent the event: all who listen have it, or had no space. *)
LEMMA DeliveryHubSend ==
    ASSUME HubInv, HubInv', CopiesInv, DeliveryInv, [Next]_vars, HubSend
    PROVE  DeliveryInv'
<1>1. /\ UNCHANGED <<stored, bcast, pc, job, owed, users, rooms, wire>>
      /\ hub.at = "send" /\ hub' = Select
      /\ Offer(Audience(hub.msg.dest) \ {hub.msg.exclude}, hub.msg.event)
  BY DEF HubSend, connVars, tableVars
<1>2. hub.msg.event \in Events /\ hub.msg \in Outbound
  BY <1>1, HubShape, OutboundShape DEF HubInv, TypeInv, TypeOK
<1>3. ASSUME NEW c \in Conns, NEW id, Carries(hub.msg, id, c)
      PROVE  Settled(id, c)'
  <2>1. c \in Audience(hub.msg.dest) \ {hub.msg.exclude} /\ hub.msg.event = Message(id)
    BY <1>3 DEF Carries
  <2>2. /\ Log(c) \in Seq(Events)
        /\ HasSpace(c) => Log(c)' = Append(Log(c), hub.msg.event)
        /\ ~HasSpace(c) => lost'[c] = lost[c] \cup {hub.msg.event}
    BY <1>1, <1>2, <2>1, OfferLog DEF HubInv, TypeInv
  <2>3. CASE HasSpace(c)
    <3>1. /\ Len(Log(c)) + 1 \in 1 .. Len(Log(c)')
          /\ Log(c)'[Len(Log(c)) + 1] = Message(id)
      BY <1>2, <2>1, <2>2, <2>3, GrownLog
    <3> QED BY <3>1 DEF Settled, Given, Message
  <2>4. CASE ~HasSpace(c)
    BY <2>1, <2>2, <2>4 DEF Settled, Message
  <2> QED BY <2>3, <2>4
<1>4. ASSUME NEW c \in Conns, NEW id \in owed'[c]
      PROVE  Settled(id, c)' \/ Pending(id, c)'
  <2>1. Settled(id, c) \/ Pending(id, c)
    BY <1>1, NoMissedIs DEF DeliveryInv
  <2>2. ASSUME NEW d \in Conns, Promises(d, id, c)
        PROVE  Promises(d, id, c)'
    BY <1>1, <2>2 DEF Promises, Audience
  <2>3. ASSUME NEW i \in 1 .. Len(bcast), Carries(bcast[i], id, c)
        PROVE  Carries(bcast[i], id, c)'
    BY <1>1, <2>3 DEF Carries, Audience, Message
  <2>4. ASSUME Pending(id, c), ~Carries(hub.msg, id, c)
        PROVE  Pending(id, c)'
    <3>1. \/ \E d \in Conns : Promises(d, id, c)'
          \/ \E i \in 1 .. Len(bcast) : Carries(bcast[i], id, c)'
      BY <2>2, <2>3, <2>4, PendingIs
    <3> QED BY <1>1, <3>1 DEF Pending, Promises, Carries
  <2> QED BY <1>3, <2>1, <2>4, SettledStays
<1>5. NoMissedMessage'
  BY <1>4 DEF NoMissedMessage, Settled, Given
<1>6. OwedInv'
  BY <1>1 DEF DeliveryInv, OwedInv
<1> QED BY <1>5, <1>6 DEF DeliveryInv

LEMMA DeliveryHubTake ==
    ASSUME HubInv, HubInv', CopiesInv, DeliveryInv, [Next]_vars, HubTake
    PROVE  DeliveryInv'
<1>1. /\ UNCHANGED <<stored, pc, job, owed, users, rooms>>
      /\ hub.at # "send" /\ hub'.at = "send" /\ hub'.msg = Head(bcast)
      /\ bcast # <<>> /\ bcast' = Tail(bcast) /\ bcast \in Seq(Outbound)
  BY DEF HubTake, Select, connVars, tableVars, HubInv, TypeInv, TypeOK
<1>2. /\ Len(bcast) \in Nat /\ hub'.msg = bcast[1] /\ Len(bcast') = Len(bcast) - 1
      /\ \A i \in 1 .. Len(bcast) - 1 : bcast'[i] = bcast[i + 1]
  BY <1>1
<1>3. ASSUME NEW c \in Conns, NEW id \in owed'[c], Pending(id, c)
      PROVE  Pending(id, c)'
  <2>1. ASSUME NEW d \in Conns, Promises(d, id, c)
        PROVE  Promises(d, id, c)'
    BY <1>1, <2>1 DEF Promises, Audience
  <2>2. ASSUME NEW i \in 1 .. Len(bcast), Carries(bcast[i], id, c)
        PROVE  \/ Carries(hub.msg, id, c)'
               \/ \E k \in 1 .. Len(bcast') : Carries(bcast[k], id, c)'
    <3>1. CASE i = 1
      BY <1>1, <1>2, <2>2, <3>1 DEF Carries, Audience, Message
    <3>2. CASE i # 1
      <4>1. /\ i - 1 \in 1 .. Len(bcast') /\ i - 1 \in 1 .. Len(bcast) - 1
            /\ (i - 1) + 1 = i
        BY <1>2, <3>2
      <4>2. bcast'[i - 1] = bcast[i]
        BY <1>2, <4>1
      <4>3. Carries(bcast[i - 1], id, c)'
        BY <1>1, <2>2, <4>2 DEF Carries, Audience, Message
      <4> QED BY <4>1, <4>3
    <3> QED BY <3>1, <3>2
  <2>3. \/ \E d \in Conns : Promises(d, id, c)'
        \/ \E k \in 1 .. Len(bcast') : Carries(bcast[k], id, c)'
        \/ hub'.at = "send" /\ Carries(hub.msg, id, c)'
    BY <1>1, <1>3, <2>1, <2>2, PendingIs
  <2> QED BY <2>3 DEF Pending, Promises, Carries
<1>4. ASSUME NEW c \in Conns, NEW id \in owed'[c]
      PROVE  Settled(id, c)' \/ Pending(id, c)'
  BY <1>1, <1>3, NoMissedIs, SettledStays DEF DeliveryInv
<1>5. NoMissedMessage'
  BY <1>4 DEF NoMissedMessage, Settled, Given
<1>6. OwedInv'
  BY <1>1 DEF DeliveryInv, OwedInv
<1> QED BY <1>5, <1>6 DEF DeliveryInv

(* The copy a goroutine owes somebody is now in the channel. *)
LEMMA DeliveryPublish ==
    ASSUME HubInv, HubInv', CopiesInv, DeliveryInv, [Next]_vars, NEW d \in Conns,
           Publish(d) \/ Echo(d)
    PROVE  DeliveryInv'
<1>1. /\ UNCHANGED <<stored, owed, users, rooms, hub>>
      /\ pc[d] \in {"publish", "echo"}
      /\ bcast \in Seq(Outbound)
      /\ \A x \in Conns \ {d} : pc'[x] = pc[x] /\ job'[x] = job[x]
  BY DEF Publish, Echo, Finish, Goto, hubVars, tableVars, HubInv, TypeInv, TypeOK
<1>2. PICK o : /\ bcast' = Append(bcast, o)
               /\ o = IF pc[d] = "publish" THEN OutboundFor(d, job[d].dest)
                      ELSE OutboundFor(d, <<"user", UserOf[d]>>)
  BY DEF Publish, Echo, Broadcast, Finish, Goto
<1>3. /\ Len(bcast) \in Nat /\ Len(bcast') = Len(bcast) + 1 /\ bcast'[Len(bcast) + 1] = o
      /\ \A i \in 1 .. Len(bcast) : i \in 1 .. Len(bcast') /\ bcast'[i] = bcast[i]
  BY <1>1, <1>2
<1>4. ASSUME NEW c \in Conns, NEW id \in owed[c], Promises(d, id, c)
      PROVE  Promises(d, id, c)' \/ Carries(o, id, c)
  <2>1. job[d].kind = "message" /\ job[d].id = id
    BY <1>4 DEF Promises
  <2>2. /\ pc[d] = "publish" => o.dest = job[d].dest
        /\ pc[d] = "echo" => o.dest = <<"user", UserOf[d]>>
        /\ o.event = Message(id) /\ o.exclude # c
    BY <1>1, <1>2, <2>1, HubAssumption DEF OutboundFor
  <2>3. CASE pc[d] = "publish" /\ c \in Audience(job[d].dest)
    BY <2>2, <2>3 DEF Carries
  <2>4. CASE pc[d] = "publish" /\ job[d].dest[1] = "user" /\ UserOf[c] = UserOf[d]
    <3>1. pc'[d] = "echo" /\ job'[d] = job[d]
      BY <2>1, <2>4 DEF Publish, Echo, Finish, Goto, HubInv, TypeInv, TypeOK
    <3> QED BY <2>1, <2>4, <3>1 DEF Promises
  <2>5. CASE pc[d] = "echo"
    <3>1. job[d].dest[1] = "user" /\ UserOf[c] = UserOf[d]
      BY <1>4, <2>5 DEF Promises
    <3>2. stored[id].dest = job[d].dest
      BY <1>4, PromisesFit
    <3>3. c \in users[UserOf[d]]
      BY <3>1, <3>2 DEF DeliveryInv, OwedInv
    <3>4. c \in Audience(<<"user", UserOf[d]>>)
      BY <3>3 DEF Audience
    <3> QED BY <2>2, <2>5, <3>4 DEF Carries
  <2> QED BY <1>4, <2>3, <2>4, <2>5 DEF Promises
<1>5. ASSUME NEW c \in Conns, NEW id \in owed[c], Pending(id, c)
      PROVE  Pending(id, c)'
  <2>1. ASSUME NEW x \in Conns, Promises(x, id, c)
        PROVE  \/ Promises(x, id, c)'
               \/ \E i \in 1 .. Len(bcast') : Carries(bcast[i], id, c)'
    <3>1. CASE x # d
      BY <1>1, <2>1, <3>1 DEF Promises, Audience
    <3>2. CASE x = d /\ Carries(o, id, c)
      <4>1. Len(bcast) + 1 \in 1 .. Len(bcast')
        BY <1>3
      <4>3. o.event = Message(id) /\ o.exclude # c /\ c \in Audience(o.dest)
        BY <3>2 DEF Carries
      <4>4. PICK n \in 1 .. Len(bcast') : bcast'[n] = o
        BY <1>3, <4>1
      <4>5. Carries(bcast[n], id, c)'
        BY <1>1, <4>3, <4>4 DEF Carries, Audience, Message
      <4> QED BY <4>4, <4>5
    <3> QED BY <1>4, <2>1, <3>1, <3>2
  <2>2. ASSUME NEW i \in 1 .. Len(bcast), Carries(bcast[i], id, c)
        PROVE  i \in 1 .. Len(bcast') /\ Carries(bcast[i], id, c)'
    BY <1>1, <1>3, <2>2 DEF Carries, Audience, Message
  <2>3. ASSUME hub.at = "send", Carries(hub.msg, id, c)
        PROVE  hub'.at = "send" /\ Carries(hub.msg, id, c)'
    BY <1>1, <2>3 DEF Carries, Audience, Message
  <2>4. \/ \E x \in Conns : Promises(x, id, c)'
        \/ \E i \in 1 .. Len(bcast') : Carries(bcast[i], id, c)'
        \/ hub'.at = "send" /\ Carries(hub.msg, id, c)'
    BY <1>5, <2>1, <2>2, <2>3, PendingIs
  <2> QED BY <2>4 DEF Pending, Promises, Carries
<1>6. ASSUME NEW c \in Conns, NEW id \in owed'[c]
      PROVE  Settled(id, c)' \/ Pending(id, c)'
  BY <1>1, <1>5, NoMissedIs, SettledStays DEF DeliveryInv
<1>7. NoMissedMessage'
  BY <1>6 DEF NoMissedMessage, Settled, Given
<1>8. OwedInv'
  BY <1>1 DEF DeliveryInv, OwedInv
<1> QED BY <1>7, <1>8 DEF DeliveryInv

(* A message is owed to those who listen when it is stored, and its copies *)
(* are for them.                                                           *)
LEMMA DeliveryCreate ==
    ASSUME HubInv, HubInv', CopiesInv, DeliveryInv, [Next]_vars, NEW d \in Conns,
           CreateMessage(d)
    PROVE  DeliveryInv'
<1> DEFINE dest == job[d].dest
           due  == Audience(dest) \cup (IF dest[1] = "user" THEN users[UserOf[d]] ELSE {})
<1>0. Len(stored) + 1 \in Nat
  BY DEF HubInv, TypeInv, TypeOK
<1>n. PICK n \in Nat : n = Len(stored) + 1
  BY <1>0
<1>1. /\ UNCHANGED <<users, rooms, hub, bcast>>
      /\ stored' = Append(stored, [sender |-> d, dest |-> dest])
      /\ owed' = [c \in Conns |-> IF c \in due THEN owed[c] \cup {n} ELSE owed[c]]
      /\ stored \in Seq([sender : Conns, dest : Dests])
  BY <1>n DEF CreateMessage, hubVars, HubInv, TypeInv, TypeOK
<1>2. /\ job[d] \in PostJobs /\ dest \in Dests /\ job[d].kind = "message"
      /\ pc[d] = "store" /\ pc'[d] = "publish"
      /\ \A x \in Conns \ {d} : pc'[x] = pc[x] /\ job'[x] = job[x]
      /\ job'[d] = [job[d] EXCEPT !.id = n]
  <2>1. /\ job[d] \in PostJobs /\ dest \in Dests /\ job[d].kind = "message"
        /\ pc[d] = "store"
    BY <1>n, PostJobShape DEF CreateMessage, Goto, HubInv, TypeInv, JobOK, RequestInv
  <2>2. pc \in [Conns -> ReaderStates] /\ DOMAIN job = Conns
    BY DEF HubInv, TypeInv, TypeOK
  <2>3. pc' = [pc EXCEPT ![d] = "publish"] /\ job' = [job EXCEPT ![d].id = n]
    BY <1>n DEF CreateMessage, Goto
  <2> QED BY <2>1, <2>2, <2>3
<1>3. job'[d].dest = dest /\ job'[d].id = n /\ job'[d].kind = "message"
  BY <1>2 DEF PostJobs
<1>4. /\ Len(stored) \in Nat /\ stored'[n] = [sender |-> d, dest |-> dest]
      /\ \A i \in 1 .. Len(stored) : stored'[i] = stored[i]
  BY <1>n, <1>1, <1>2
<1>5. \A c \in Conns : \A id \in owed'[c] :
         \/ id \in owed[c] /\ id \in 1 .. Len(stored)
         \/ id = n /\ c \in due
  BY <1>1 DEF HubInv, TypeInv, TypeOK
<1>6. \A c \in Conns : \A id : StaysTuned(id, c)
  BY <1>1, TunedAlike
<1>7. \A x \in Conns : pc[x] \in {"publish", "echo"} => pc'[x] = pc[x] /\ job'[x] = job[x]
  BY <1>2
<1>8. \A c \in Conns, u \in Users : c \in users[u] => u = UserOf[c]
  BY DEF HubInv, GhostInv, NoGhostConn
<1>a. UserOf[d] \in Users
  BY HubAssumption
<1>b. \A c \in Conns : c \in due =>
         c \in Audience(dest) \/ (dest[1] = "user" /\ UserOf[c] = UserOf[d])
  BY <1>8, <1>a
<1> HIDE DEF dest, due
<1>9. ASSUME NEW c \in Conns, c \in due
      PROVE  Pending(n, c)'
  <2>1. c \in Audience(dest) \/ (dest[1] = "user" /\ UserOf[c] = UserOf[d])
    BY <1>b, <1>9
  <2>2. Promises(d, n, c)'
    BY <1>1, <1>2, <1>3, <2>1 DEF Promises, Audience
  <2> QED BY <2>2 DEF Pending, Promises
<1>10. ASSUME NEW c \in Conns, NEW id \in owed[c]
       PROVE  Settled(id, c)' \/ Pending(id, c)'
  <2>1. Settled(id, c) \/ Pending(id, c)
    BY <1>10, NoMissedIs DEF DeliveryInv
  <2> QED BY <1>1, <1>6, <1>7, <2>1, SettledStays, PendingQuiet
<1>11. ASSUME NEW c \in Conns, NEW id \in owed'[c]
       PROVE  Settled(id, c)' \/ Pending(id, c)'
  <2>1. CASE id \in owed[c]
    BY <1>10, <2>1
  <2>2. CASE id = n /\ c \in due
    <3>1. Pending(n, c)'
      BY <1>9, <2>2
    <3> QED BY <2>2, <3>1
  <2> QED BY <1>5, <1>11, <2>1, <2>2
<1>12. NoMissedMessage'
  BY <1>11 DEF NoMissedMessage, Settled, Given
<1>13. ASSUME NEW c \in Conns, NEW id \in owed'[c], stored'[id].dest[1] = "user"
       PROVE  c \in users'[UserOf[c]]
  <2>1. CASE id \in owed[c] /\ id \in 1 .. Len(stored)
    BY <1>1, <1>4, <1>13, <2>1 DEF DeliveryInv, OwedInv
  <2>2. CASE id = n /\ c \in due
    <3>1. dest[1] = "user" /\ dest[2] \in Users
      BY <1>2, <1>4, <1>13, <2>2, DestShape
    <3>2. c \in users[dest[2]] \/ c \in users[UserOf[d]]
      BY <2>2, <3>1 DEF Audience, due
    <3> QED BY <1>1, <1>8, <1>a, <3>1, <3>2
  <2> QED BY <1>5, <2>1, <2>2
<1>14. OwedInv'
  BY <1>13 DEF OwedInv
<1> QED BY <1>12, <1>14 DEF DeliveryInv

LEMMA DeliveryStep ==
    HubInv /\ HubInv' /\ CopiesInv /\ DeliveryInv /\ [Next]_vars => DeliveryInv'
<1> SUFFICES ASSUME HubInv, HubInv', CopiesInv, DeliveryInv, [Next]_vars
             PROVE  DeliveryInv'
  OBVIOUS
<1>1. CASE HTTPStep \/ UNCHANGED vars
  <2>1. UNCHANGED <<stored, bcast, users, rooms, owed, hub, pc, job>>
    BY <1>1 DEF HTTPStep, HTTPJoin, HTTPLeave, vars, connVars, hubVars
  <2> QED BY <2>1, TunedAlike, DeliveryQuiet
<1>2. ASSUME NEW c \in Conns, Serve(c)
      PROVE  DeliveryInv'
  BY <1>2, DeliveryConn, DeliverySubscribe, DeliveryPublish, DeliveryCreate DEF Serve
<1>3. CASE HubStep
  BY <1>3, DeliveryConn, DeliveryHubAdd, DeliveryHubRemove, DeliveryHubTake, DeliveryHubSend
     DEF HubStep
<1> QED BY <1>1, <1>2, <1>3, DeliveryConn DEF Next

(* A message reaches everyone who was subscribed when it was stored and still *)
(* is, but for full buffers and failed writes: no interleaving of posts,      *)
(* joins, leaves and disconnects loses one.                                   *)
THEOREM HubNoMissedMessage == Spec => []NoMissedMessage
<1>1. DeliveryInv => NoMissedMessage
  BY DEF DeliveryInv
<1> QED
  BY <1>1, HubCorrect, CopiesCorrect, DeliveryInit, DeliveryStep, PTL DEF Spec
=============================================================================
