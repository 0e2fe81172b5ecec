------------------------- MODULE ChatDeliveryProofs -------------------------
(***************************************************************************)
(* The chat core with its messages implements the registry alone, so that   *)
(* what is proved of the registry holds while clients talk.                 *)
(***************************************************************************)
EXTENDS ChatDelivery, ChatServerProofs

(* Every step of a client is one of the registry, or leaves it alone. *)
LEMMA TalkIsStutter ==
    ASSUME NEW c \in Clients, NEW g \in Goroutines, Talk(c, g)
    PROVE  UNCHANGED vars
BY DEF Talk, ShowTopic, ShowHistory, Store, Snapshot, Deliver

LEMMA ActIsStep ==
    ASSUME NEW c \in Clients, Act(c)
    PROVE  Next
<1>1. CASE \E k \in Keys : Enter(c, k)
  <2>1. PICK k \in Keys : Enter(c, k)
    BY <1>1
  <2>2. JoinLobby(c) \/ JoinRoom(c, k)
    BY <2>1 DEF Enter
  <2> QED BY <2>2 DEF Next, Reader, Input
<1>2. CASE Quietly(c)
  BY <1>2 DEF Quietly, Next, Reader, Input
<1>3. CASE FailQuietly(c)
  BY <1>3 DEF FailQuietly, Next
<1>4. CASE RemoveAndTell(c)
  BY <1>4 DEF RemoveAndTell, Next
<1>5. CASE Post(c) \/ SetTopic(c)
  <2>1. OtherCommand(c)
    BY <1>5 DEF Post, SetTopic, Say
  <2> QED BY <2>1 DEF Next, Input
<1> QED BY <1>1, <1>2, <1>3, <1>4, <1>5 DEF Act

(* Talking adds nothing to the registry: whatever is said meanwhile, rooms,  *)
(* members and names go through the states ChatServer describes.             *)
THEOREM DeliveryImplementsServer == DeliverySpec => Spec
<1>1. DeliveryInit => Init
  BY DEF DeliveryInit
<1>2. [DeliveryNext]_deliveryVars => [Next]_vars
  <2>1. ASSUME UNCHANGED deliveryVars PROVE UNCHANGED vars
    BY <2>1 DEF deliveryVars
  <2>2. ASSUME DeliveryNext PROVE [Next]_vars
    BY <2>2, TalkIsStutter, ActIsStep DEF DeliveryNext
  <2> QED BY <2>1, <2>2
<1> QED BY <1>1, <1>2, PTL DEF DeliverySpec, Spec

(* So nobody hears of two rooms at once: also while a join announces itself, *)
(* a client is a member of no listed room but the one of its own room key.   *)
THEOREM DeliveryOneRoom == DeliverySpec => []OneRoom
BY DeliveryImplementsServer, ChatOneRoom, PTL

-----------------------------------------------------------------------------
(* Types. *)

(* DeliveryTypeOK, and what is behind the tasks: a text is stored by a task  *)
(* right before the one that broadcasts it, announcements have no text, and  *)
(* the goroutine in shutdown only announces.                                 *)
StoresBroadcast(s) ==
    \A i \in 1 .. Len(s) : s[i].do = "store" =>
        /\ i < Len(s)
        /\ s[i].kind \in {"line", "topic"} /\ s[i].text # 0
        /\ s[i + 1] = Broadcast(s[i].kind, s[i].room, s[i].text)

TaskOK(task, g) ==
    /\ task.kind \in {"in", "out"} => task.text = 0
    /\ task.do \in {"snapshot", "send"} => task.kind \in {"in", "out"} \/ task.text # 0
    /\ g = "closer" => task.do \in {"snapshot", "send"} /\ task.text = 0

TalkOK(s, g) ==
    /\ s \in Seq(Tasked)
    /\ StoresBroadcast(s)
    /\ \A i \in 1 .. Len(s) : TaskOK(s[i], g)

TalkInv ==
    /\ TypeInv
    /\ DeliveryTypeOK
    /\ \A c \in Clients, g \in Goroutines : TalkOK(talk[c][g], g)

LEMMA ThenSeq ==
    ASSUME NEW S, NEW s \in Seq(S), s # <<>>, NEW x \in S
    PROVE  /\ Head(s) = s[1] /\ s[1] \in S /\ Len(s) \in Nat \ {0}
           /\ <<>> \o Tail(s) \in Seq(S) /\ Len(<<>> \o Tail(s)) = Len(s) - 1
           /\ \A i \in 1 .. Len(s) - 1 : (<<>> \o Tail(s))[i] = s[i + 1]
           /\ <<x>> \o Tail(s) \in Seq(S) /\ Len(<<x>> \o Tail(s)) = Len(s)
           /\ (<<x>> \o Tail(s))[1] = x
           /\ \A i \in 2 .. Len(s) : (<<x>> \o Tail(s))[i] = s[i]
OBVIOUS

LEMMA SeqGrows ==
    ASSUME NEW S, NEW T, S \subseteq T
    PROVE  Seq(S) \subseteq Seq(T)
OBVIOUS

LEMMA Concat ==
    ASSUME NEW S, NEW a \in S, NEW b \in S, NEW c \in S
    PROVE  /\ <<a, b, c>> \o <<>> \in Seq(S)
           /\ <<a, b, c>> \o <<>> = <<a, b, c>>
OBVIOUS

LEMMA ConcatOne ==
    ASSUME NEW S, NEW a \in S, NEW b \in S, NEW c \in S, NEW d \in S
    PROVE  LET s == <<a, b, c>> \o <<d>>
           IN  s \in Seq(S) /\ Len(s) = 4 /\ s[1] = a /\ s[2] = b /\ s[3] = c /\ s[4] = d
OBVIOUS

LEMMA TaskedGrows ==
    ASSUME TalkInv, Len(made') \in Nat, Len(made) <= Len(made'), texts' \in Nat, texts <= texts'
    PROVE  Tasked \subseteq Tasked' /\ Seq(Tasked) \subseteq Seq(Tasked')
<1>1. Len(made) \in Nat
  <2>1. made \in Seq(Keys)
    BY DEF TalkInv, TypeInv, TypeOK
  <2> QED BY <2>1
<1>2. texts \in Nat
  BY DEF TalkInv, DeliveryTypeOK
<1>3. 1 .. Len(made) \subseteq 1 .. Len(made') /\ 0 .. texts \subseteq 0 .. texts'
  BY <1>1, <1>2
<1>4. Tasked \subseteq Tasked'
  BY <1>3 DEF Tasked
<1> QED BY <1>4, SeqGrows

(* A goroutine goes on from its first task. *)
LEMMA ThenTalk ==
    ASSUME NEW s, NEW g, TalkOK(s, g), s # <<>>, NEW x \in Tasked, TaskOK(x, g), x.do # "store"
    PROVE  TalkOK(<<>> \o Tail(s), g) /\ TalkOK(<<x>> \o Tail(s), g)
<1> DEFINE u == <<>> \o Tail(s)
           v == <<x>> \o Tail(s)
<1>1. /\ s \in Seq(Tasked) /\ Len(s) \in Nat \ {0}
      /\ u \in Seq(Tasked) /\ Len(u) = Len(s) - 1
      /\ \A i \in 1 .. Len(s) - 1 : u[i] = s[i + 1]
      /\ v \in Seq(Tasked) /\ Len(v) = Len(s) /\ v[1] = x
      /\ \A i \in 2 .. Len(s) : v[i] = s[i]
  BY ThenSeq DEF TalkOK
<1> HIDE DEF u, v
<1>2. \A i \in 1 .. Len(u) : u[i] = s[i + 1] /\ i + 1 \in 1 .. Len(s)
  BY <1>1
<1>3. \A i \in 1 .. Len(v) : v[i] = x \/ (v[i] = s[i] /\ i \in 2 .. Len(s))
  BY <1>1
<1>4. StoresBroadcast(u)
  <2> SUFFICES ASSUME NEW i \in 1 .. Len(u), u[i].do = "store"
               PROVE  /\ i < Len(u)
                      /\ u[i].kind \in {"line", "topic"} /\ u[i].text # 0
                      /\ u[i + 1] = Broadcast(u[i].kind, u[i].room, u[i].text)
    BY DEF StoresBroadcast
  <2>1. /\ i + 1 < Len(s)
        /\ s[i + 1].kind \in {"line", "topic"} /\ s[i + 1].text # 0
        /\ s[i + 1 + 1] = Broadcast(s[i + 1].kind, s[i + 1].room, s[i + 1].text)
    BY <1>2 DEF TalkOK, StoresBroadcast
  <2>2. i < Len(u) /\ i + 1 \in 1 .. Len(u)
    BY <1>1, <2>1
  <2> QED BY <1>2, <2>1, <2>2
<1>5. StoresBroadcast(v)
  <2> SUFFICES ASSUME NEW i \in 1 .. Len(v), v[i].do = "store"
               PROVE  /\ i < Len(v)
                      /\ v[i].kind \in {"line", "topic"} /\ v[i].text # 0
                      /\ v[i + 1] = Broadcast(v[i].kind, v[i].room, v[i].text)
    BY DEF StoresBroadcast
  <2>1. v[i] = s[i] /\ i \in 2 .. Len(s)
    BY <1>3
  <2>2. /\ i < Len(s)
        /\ s[i].kind \in {"line", "topic"} /\ s[i].text # 0
        /\ s[i + 1] = Broadcast(s[i].kind, s[i].room, s[i].text)
    BY <2>1 DEF TalkOK, StoresBroadcast
  <2>3. v[i + 1] = s[i + 1]
    BY <1>1, <2>1, <2>2
  <2> QED BY <1>1, <2>1, <2>2, <2>3
<1>6. \A i \in 1 .. Len(u) : TaskOK(u[i], g)
  BY <1>2 DEF TalkOK
<1>7. \A i \in 1 .. Len(v) : TaskOK(v[i], g)
  BY <1>3 DEF TalkOK
<1> QED BY <1>1, <1>4, <1>5, <1>6, <1>7 DEF TalkOK, u, v

LEMMA HeadTask ==
    ASSUME TalkInv, NEW c \in Clients, NEW g \in Goroutines, talk[c][g] # <<>>
    PROVE  /\ talk[c][g] \in Seq(Tasked) /\ TalkOK(talk[c][g], g)
           /\ Len(talk[c][g]) \in Nat \ {0} /\ Head(talk[c][g]) = talk[c][g][1]
           /\ Head(talk[c][g]) \in Tasked /\ TaskOK(Head(talk[c][g]), g)
<1>1. TalkOK(talk[c][g], g)
  BY DEF TalkInv
<1>2. talk[c][g] \in Seq(Tasked) /\ Len(talk[c][g]) \in Nat \ {0}
  BY <1>1 DEF TalkOK
<1>3. Head(talk[c][g]) = talk[c][g][1] /\ Head(talk[c][g]) \in Tasked
  BY <1>2
<1>4. 1 \in 1 .. Len(talk[c][g])
  BY <1>2
<1> QED BY <1>1, <1>2, <1>3, <1>4 DEF TalkOK

LEMMA ThenType ==
    ASSUME TalkInv, UNCHANGED <<made, texts>>, NEW c \in Clients, NEW g \in Goroutines,
           talk[c][g] # <<>>,
           \/ Then(c, g, <<>>)
           \/ \E x \in Tasked : TaskOK(x, g) /\ x.do # "store" /\ Then(c, g, <<x>>)
    PROVE  /\ talk' \in [Clients -> [Goroutines -> Seq(Tasked)]]
           /\ (\A d \in Clients, h \in Goroutines : TalkOK(talk[d][h], h))'
<1>1. PICK q : talk' = [talk EXCEPT ![c][g] = q] /\ TalkOK(q, g)
  <2>1. TalkOK(talk[c][g], g)
    BY DEF TalkInv
  <2>2. CASE Then(c, g, <<>>)
    <3>1. /\ Head(talk[c][g]) \in Tasked /\ Len(talk[c][g]) \in Nat \ {0}
      BY HeadTask
    <3> DEFINE x == [do |-> "send", kind |-> "in", room |-> Head(talk[c][g]).room,
                     text |-> 0, to |-> {}]
    <3>2. x \in Tasked /\ TaskOK(x, g) /\ x.do # "store"
      <4>1. Head(talk[c][g]).room \in 1 .. Len(made) /\ 0 \in 0 .. texts
        <5>1. texts \in Nat
          BY DEF TalkInv, DeliveryTypeOK
        <5>2. Head(talk[c][g]).room \in 1 .. Len(made)
          BY <3>1 DEF Tasked
        <5> QED BY <5>1, <5>2
      <4> QED BY <4>1 DEF Tasked, TaskOK
    <3>3. TalkOK(<<>> \o Tail(talk[c][g]), g)
      BY <2>1, <3>2, ThenTalk
    <3> QED BY <2>2, <3>3 DEF Then, TalkInv, DeliveryTypeOK
  <2>3. CASE \E x \in Tasked : TaskOK(x, g) /\ x.do # "store" /\ Then(c, g, <<x>>)
    <3>1. PICK x \in Tasked : TaskOK(x, g) /\ x.do # "store" /\ Then(c, g, <<x>>)
      BY <2>3
    <3>2. TalkOK(<<x>> \o Tail(talk[c][g]), g)
      BY <2>1, <3>1, ThenTalk
    <3> QED BY <3>1, <3>2 DEF Then, TalkInv, DeliveryTypeOK
  <2> QED BY <2>2, <2>3
<1>2. q \in Seq(Tasked)
  BY <1>1 DEF TalkOK
<1>3. talk' \in [Clients -> [Goroutines -> Seq(Tasked)]]
  BY <1>1, <1>2 DEF TalkInv, DeliveryTypeOK
<1>4. \A d \in Clients, h \in Goroutines : (talk'[d][h] = q /\ h = g) \/ talk'[d][h] = talk[d][h]
  BY <1>1 DEF TalkInv, DeliveryTypeOK
<1>5. \A d \in Clients, h \in Goroutines : TalkOK(talk'[d][h], h)
  BY <1>1, <1>4 DEF TalkInv
<1>6. Tasked' = Tasked
  BY DEF Tasked
<1>7. (\A d \in Clients, h \in Goroutines : TalkOK(talk[d][h], h))'
  <2> SUFFICES ASSUME NEW d \in Clients, NEW h \in Goroutines
               PROVE  TalkOK(talk[d][h], h)'
    BY Zenon
  <2>1. talk'[d][h] \in Seq(Tasked')
    BY <1>5, <1>6 DEF TalkOK
  <2>2. StoresBroadcast(talk[d][h])'
    BY <1>5 DEF TalkOK, StoresBroadcast
  <2>3. (\A i \in 1 .. Len(talk[d][h]) : TaskOK(talk[d][h][i], h))'
    BY <1>5 DEF TalkOK, TaskOK
  <2> QED BY <2>1, <2>2, <2>3 DEF TalkOK
<1> QED BY <1>3, <1>7

LEMMA TalkStepType ==
    ASSUME TalkInv, NEW c \in Clients, NEW g \in Goroutines, Talk(c, g)
    PROVE  TalkInv'
<1>1. UNCHANGED vars
  BY TalkIsStutter
<1>2. TypeInv'
  BY <1>1 DEF TalkInv, TypeInv, TypeOK, vars
<1>3. UNCHANGED <<made, members, texts>> /\ talk[c][g] # <<>>
  BY <1>1 DEF vars, Talk, ShowTopic, ShowHistory, Store, Snapshot, Deliver, Doing
<1> DEFINE t == Head(talk[c][g])
<1>4. t \in Tasked /\ TaskOK(t, g)
  BY <1>3, HeadTask
<1>5. t.room \in 1 .. Len(made) /\ t.room \in Objects /\ t.text \in 0 .. texts /\ t.to \in SUBSET Clients
  <2>1. Len(made) \in 0 .. MaxRooms /\ MaxRooms \in Nat /\ made \in Seq(Keys)
    BY ChatAssumption DEF TalkInv, TypeInv, TypeOK
  <2>2. t.room \in 1 .. Len(made) /\ t.text \in 0 .. texts /\ t.to \in SUBSET Clients
    BY <1>4 DEF Tasked
  <2> QED BY <2>1, <2>2 DEF Objects
<1>6. talk' \in [Clients -> [Goroutines -> Seq(Tasked)]] /\ (\A d \in Clients, h \in Goroutines : TalkOK(talk[d][h], h))'
  <2>1. CASE ShowTopic(c, g) \/ ShowHistory(c, g) \/ Store(c, g)
    BY <1>3, <2>1, ThenType DEF ShowTopic, ShowHistory, Store
  <2>2. CASE Snapshot(c, g)
    <3> DEFINE to == members[t.room] \ (IF t.kind \in {"in", "out"} THEN {c} ELSE {})
               x  == [t EXCEPT !.do = "send", !.to = to]
    <3>1. Then(c, g, <<>>) \/ Then(c, g, <<x>>)
      BY <2>2 DEF Snapshot
    <3>2. to \in SUBSET Clients
      BY <1>5 DEF TalkInv, TypeInv, TypeOK
    <3>3. t.do = "snapshot"
      BY <2>2 DEF Snapshot, Doing
    <3>4. x \in Tasked /\ TaskOK(x, g) /\ x.do # "store"
      BY <1>4, <3>2, <3>3 DEF Tasked, TaskOK
    <3> QED BY <1>3, <3>1, <3>4, ThenType
  <2>3. CASE Deliver(c, g)
    <3>1. PICK m \in t.to : Then(c, g, IF t.to = {m} THEN <<>> ELSE <<[t EXCEPT !.to = @ \ {m}]>>)
      BY <2>3 DEF Deliver
    <3> DEFINE x == [t EXCEPT !.to = @ \ {m}]
    <3>2. t.do = "send"
      BY <2>3 DEF Deliver, Doing
    <3>3. x \in Tasked /\ TaskOK(x, g) /\ x.do # "store"
      BY <1>4, <3>2 DEF Tasked, TaskOK
    <3> QED BY <1>3, <3>1, <3>3, ThenType
  <2> QED BY <2>1, <2>2, <2>3 DEF Talk
<1>7. Tasked' = Tasked
  BY <1>3 DEF Tasked
<1>8. log' \in [Objects -> Seq(1 .. texts)] /\ topic' \in [Objects -> 0 .. texts]
  <2>1. log \in [Objects -> Seq(1 .. texts)] /\ topic \in [Objects -> 0 .. texts] /\ texts \in Nat
    BY DEF TalkInv, DeliveryTypeOK
  <2>2. CASE Store(c, g)
    <3>1. t.do = "store" /\ t = talk[c][g][1] /\ 1 \in 1 .. Len(talk[c][g])
      BY <1>3, <2>2, HeadTask DEF Store, Doing
    <3>2. t.text \in 1 .. texts
      <4>1. t.text # 0
        BY <3>1 DEF TalkInv, TalkOK, StoresBroadcast
      <4> QED BY <1>5, <2>1, <4>1
    <3>3. Append(log[t.room], t.text) \in Seq(1 .. texts)
      BY <1>5, <2>1, <3>2
    <3>4. \/ log' = [log EXCEPT ![t.room] = Append(log[t.room], t.text)] /\ UNCHANGED topic
          \/ topic' = [topic EXCEPT ![t.room] = t.text] /\ UNCHANGED log
      BY <2>2 DEF Store
    <3> QED BY <1>5, <2>1, <3>3, <3>4
  <2>3. CASE ~Store(c, g)
    <3>1. UNCHANGED <<log, topic>>
      BY <2>3 DEF Talk, ShowTopic, ShowHistory, Snapshot, Deliver
    <3> QED BY <2>1, <3>1
  <2> QED BY <2>2, <2>3
<1>9. offered' \in [Clients -> SUBSET (1 .. texts)]
  <2> SUFFICES ASSUME NEW m \in Clients, NEW heard \in SUBSET (1 .. texts), Hear(m, heard)
               PROVE  offered' \in [Clients -> SUBSET (1 .. texts)]
    <3>1. CASE ShowTopic(c, g)
      <4>1. {topic[t.room]} \ {0} \in SUBSET (1 .. texts)
        BY <1>5 DEF TalkInv, DeliveryTypeOK
      <4> QED BY <3>1, <4>1 DEF ShowTopic
    <3>2. CASE ShowHistory(c, g)
      <4>1. History(t.room) \in SUBSET (1 .. texts)
        <5>1. log[t.room] \in Seq(1 .. texts)
          BY <1>5 DEF TalkInv, DeliveryTypeOK
        <5>2. \A i \in 1 .. Len(log[t.room]) : log[t.room][i] \in 1 .. texts
          <6> DEFINE line == log[t.room]
                     S    == 1 .. texts
          <6>1. line \in Seq(S)
            BY <5>1
          <6> HIDE DEF line, S
          <6>2. \A i \in 1 .. Len(line) : line[i] \in S
            BY <6>1
          <6> QED BY <6>2 DEF line, S
        <5> QED BY <5>2 DEF History
      <4> QED BY <3>2, <4>1 DEF ShowHistory
    <3>3. CASE Deliver(c, g)
      <4>1. PICK m \in t.to : UNCHANGED offered \/ (Hear(m, {t.text}) /\ t.kind \notin {"in", "out"})
        BY <3>3 DEF Deliver
      <4>2. UNCHANGED offered => offered' \in [Clients -> SUBSET (1 .. texts)]
        BY DEF TalkInv, DeliveryTypeOK
      <4>3. t.do = "send" /\ texts \in Nat
        BY <3>3 DEF Deliver, Doing, TalkInv, DeliveryTypeOK
      <4>4. t.kind \notin {"in", "out"} => {t.text} \in SUBSET (1 .. texts)
        BY <1>4, <1>5, <4>3 DEF TaskOK
      <4>5. m \in Clients
        BY <1>5
      <4> QED BY <4>1, <4>2, <4>4, <4>5
    <3>4. CASE Store(c, g) \/ Snapshot(c, g)
      BY <3>4 DEF Store, Snapshot, TalkInv, DeliveryTypeOK
    <3> QED BY <3>1, <3>2, <3>3, <3>4 DEF Talk
  <2> QED BY DEF Hear, TalkInv, DeliveryTypeOK
<1>10. told' \in [Clients -> [Clients -> {"nothing", "in", "out"}]] /\ UNCHANGED cut
  <2>1. told \in [Clients -> [Clients -> {"nothing", "in", "out"}]]
    BY DEF TalkInv, DeliveryTypeOK
  <2>2. UNCHANGED cut
    BY DEF Talk, ShowTopic, ShowHistory, Store, Snapshot, Deliver
  <2>3. CASE Deliver(c, g)
    <3>1. PICK m \in t.to :
            \/ UNCHANGED told
            \/ /\ t.kind \in {"in", "out"}
               /\ \E what \in {"nothing", t.kind} : told' = [told EXCEPT ![m][c] = what]
      BY <2>3 DEF Deliver
    <3> QED BY <2>1, <2>2, <3>1
  <2>4. CASE ~Deliver(c, g)
    <3>1. UNCHANGED told
      BY <2>4 DEF Talk, ShowTopic, ShowHistory, Store, Snapshot
    <3> QED BY <2>1, <2>2, <3>1
  <2> QED BY <2>3, <2>4
<1> QED
  BY <1>2, <1>3, <1>6, <1>7, <1>8, <1>9, <1>10 DEF TalkInv, DeliveryTypeOK

(* A command gives a goroutine something to say. *)
Speech(c, g, q) ==
    /\ talk' = [talk EXCEPT ![c][g] = q]
    /\ q \in Seq(Tasked') /\ StoresBroadcast(q)
    /\ \A i \in 1 .. Len(q) : TaskOK(q[i], g)

LEMMA NewTalkType ==
    ASSUME TalkInv, TypeInv', NEW c \in Clients, NEW g \in Goroutines, NEW q,
           Len(made) <= Len(made'), texts' \in Nat, texts <= texts',
           Speech(c, g, q),
           UNCHANGED <<log, topic, offered>>,
           told' \in [Clients -> [Clients -> {"nothing", "in", "out"}]],
           cut' \in SUBSET Clients
    PROVE  TalkInv'
<1>1. Seq(Tasked) \subseteq Seq(Tasked')
  <2>1. Len(made') \in Nat
    <3>1. made' \in Seq(Keys)
      BY DEF TypeInv, TypeOK
    <3> QED BY <3>1
  <2> QED BY <2>1, TaskedGrows
<1>2. talk \in [Clients -> [Goroutines -> Seq(Tasked)]]
  BY DEF TalkInv, DeliveryTypeOK
<1>3. \A d \in Clients, h \in Goroutines :
        /\ talk[d][h] \in Seq(Tasked') /\ StoresBroadcast(talk[d][h])
        /\ \A i \in 1 .. Len(talk[d][h]) : TaskOK(talk[d][h][i], h)
  BY <1>1 DEF TalkInv, TalkOK
<1>4. talk \in [Clients -> [Goroutines -> Seq(Tasked')]]
  BY <1>1, <1>2
<1>5. /\ talk' \in [Clients -> [Goroutines -> Seq(Tasked')]]
      /\ \A d \in Clients, h \in Goroutines :
           talk'[d][h] = talk[d][h] \/ (talk'[d][h] = q /\ h = g)
  BY <1>4 DEF Speech
<1>6. \A d \in Clients, h \in Goroutines :
        /\ talk'[d][h] \in Seq(Tasked') /\ StoresBroadcast(talk'[d][h])
        /\ \A i \in 1 .. Len(talk'[d][h]) : TaskOK(talk'[d][h][i], h)
  BY <1>3, <1>5 DEF Speech
<1>7. (\A d \in Clients, h \in Goroutines : TalkOK(talk[d][h], h))'
  <2> SUFFICES ASSUME NEW d \in Clients, NEW h \in Goroutines
               PROVE  TalkOK(talk[d][h], h)'
    OBVIOUS
  <2>1. StoresBroadcast(talk[d][h])'
    BY <1>6 DEF StoresBroadcast
  <2>2. (\A i \in 1 .. Len(talk[d][h]) : TaskOK(talk[d][h][i], h))'
    BY <1>6 DEF TaskOK
  <2> QED BY <1>6, <2>1, <2>2 DEF TalkOK
<1>8. DeliveryTypeOK'
  <2>1. /\ texts \in Nat /\ log \in [Objects -> Seq(1 .. texts)]
        /\ topic \in [Objects -> 0 .. texts] /\ offered \in [Clients -> SUBSET (1 .. texts)]
    BY DEF TalkInv, DeliveryTypeOK
  <2>2. 1 .. texts \subseteq 1 .. texts' /\ 0 .. texts \subseteq 0 .. texts'
    BY <2>1
  <2>3. Seq(1 .. texts) \subseteq Seq(1 .. texts')
    BY <2>2, SeqGrows
  <2>4. log' \in [Objects -> Seq(1 .. texts')]
    BY <2>1, <2>3
  <2>5. topic' \in [Objects -> 0 .. texts'] /\ offered' \in [Clients -> SUBSET (1 .. texts')]
    BY <2>1, <2>2
  <2> QED BY <1>5, <2>4, <2>5 DEF DeliveryTypeOK
<1> QED BY <1>7, <1>8 DEF TalkInv

(* What RoomFor gives, and what a move gives. *)
LEMMA RoomForType ==
    ASSUME TalkInv, NEW c \in Clients
    PROVE  RoomFor(c) \in 0 .. Len(made) /\ Len(made) \in Nat
<1>1. Len(made) \in Nat
  <2>1. made \in Seq(Keys)
    BY DEF TalkInv, TypeInv, TypeOK
  <2> QED BY <2>1
<1>2. attached \in [Keys -> 0 .. Len(made)] /\ roomKey[c] \in Keys \cup {NoKey}
  BY DEF TalkInv, TypeInv, TypeOK
<1> QED BY <1>1, <1>2 DEF RoomFor

LEMMA MoveRooms ==
    ASSUME TalkInv, NEW c \in Clients, NEW k \in Keys, MoveClientRoom(c, k)
    PROVE  /\ Len(made') \in Nat /\ Len(made) <= Len(made')
           /\ attached'[k] \in 1 .. Len(made')
           /\ left'[c] \in 0 .. Len(made')
<1>1. Len(made) \in Nat
  BY RoomForType
<1>2. /\ Len(made') \in Len(made) .. MaxRooms
      /\ attached' \in [Keys -> 0 .. Len(made')]
      /\ left' \in [Clients -> 0 .. Len(made')]
  BY MoveType DEF TalkInv
<1>3. attached'[k] # 0
  <2>1. attached \in [Keys -> 0 .. Len(made)]
    BY DEF TalkInv, TypeInv, TypeOK
  <2> QED BY <1>1, <2>1 DEF MoveClientRoom
<1> QED BY <1>1, <1>2, <1>3

LEMMA EnterType == ASSUME TalkInv, TypeInv', NEW c \in Clients, NEW k \in Keys, Enter(c, k) PROVE TalkInv'
<1>1. MoveClientRoom(c, k)
  BY DEF Enter, JoinLobby, JoinRoom
<1>2. /\ Len(made') \in Nat /\ Len(made) <= Len(made')
      /\ attached'[k] \in 1 .. Len(made') /\ left'[c] \in 0 .. Len(made')
  BY <1>1, MoveRooms
<1>3. texts \in Nat /\ texts' = texts
  BY DEF Enter, TalkInv, DeliveryTypeOK
<1> DEFINE q == EnterTasks(c, k)
<1>4. talk' = [talk EXCEPT ![c]["reader"] = q]
  BY DEF Enter
<1> DEFINE a == Task("topic", "", attached'[k], 0)
           b == Task("history", "", attached'[k], 0)
           i == Broadcast("in", attached'[k], 0)
           o == Broadcast("out", left'[c], 0)
<1>5. a \in Tasked' /\ b \in Tasked' /\ i \in Tasked' /\ (left'[c] # 0 => o \in Tasked')
  <2>1. left'[c] # 0 => left'[c] \in 1 .. Len(made')
    BY <1>2
  <2>2. 0 \in 0 .. texts'
    BY <1>3
  <2> QED BY <1>2, <2>1, <2>2 DEF Task, Broadcast, Tasked
<1>6. /\ a.do # "store" /\ TaskOK(a, "reader") /\ b.do # "store" /\ TaskOK(b, "reader")
      /\ i.do # "store" /\ TaskOK(i, "reader") /\ o.do # "store" /\ TaskOK(o, "reader")
  BY DEF Task, Broadcast, TaskOK
<1>7. q = <<>> \/ q = <<a, b, i>> \o <<>> \/ (left'[c] # 0 /\ q = <<a, b, i>> \o <<o>>)
  BY DEF EnterTasks
<1> HIDE DEF a, b, i, o, q
<1>8. q \in Seq(Tasked') /\ \A n \in 1 .. Len(q) : q[n].do # "store" /\ TaskOK(q[n], "reader")
  <2>1. CASE q = <<>>
    BY <2>1
  <2>2. CASE q = <<a, b, i>> \o <<>>
    <3>1. q = <<a, b, i>> /\ q \in Seq(Tasked')
      BY <1>5, <2>2, Concat
    <3> QED BY <1>6, <3>1
  <2>3. CASE left'[c] # 0 /\ q = <<a, b, i>> \o <<o>>
    <3>1. /\ q \in Seq(Tasked') /\ Len(q) = 4
          /\ q[1] = a /\ q[2] = b /\ q[3] = i /\ q[4] = o
      BY <1>5, <2>3, ConcatOne
    <3> QED BY <1>6, <3>1
  <2> QED BY <1>7, <2>1, <2>2, <2>3
<1>9. StoresBroadcast(q)
  BY <1>8 DEF StoresBroadcast
<1>10. told' \in [Clients -> [Clients -> {"nothing", "in", "out"}]]
  BY DEF Enter, TalkInv, DeliveryTypeOK
<1>11. UNCHANGED <<log, topic, offered>> /\ cut' \in SUBSET Clients
  BY DEF Enter, TalkInv, DeliveryTypeOK
<1>12. PICK speech : Speech(c, "reader", speech)
  BY <1>4, <1>8, <1>9 DEF Speech
<1> QED
  BY <1>2, <1>3, <1>10, <1>11, <1>12, NewTalkType DEF Goroutines

LEMMA SayType ==
    ASSUME TalkInv, TypeInv', NEW c \in Clients, Post(c) \/ SetTopic(c)
    PROVE  TalkInv'
<1> DEFINE r == RoomFor(c)
<1>1. r \in 1 .. Len(made) /\ Len(made) \in Nat /\ made' = made
  <2>1. r # 0 /\ made' = made
    BY DEF Post, SetTopic, Say, OtherCommand, roomVars
  <2>2. r \in 0 .. Len(made) /\ Len(made) \in Nat
    BY RoomForType
  <2> QED BY <2>1, <2>2
<1>2. texts \in Nat /\ texts' \in Nat /\ texts <= texts'
  <2>1. texts \in Nat
    BY DEF TalkInv, DeliveryTypeOK
  <2>2. texts' = texts \/ texts' = texts + 1
    BY DEF Post, SetTopic
  <2> QED BY <2>1, <2>2
<1>3. \E q : Speech(c, "reader", q)
  <2>1. ASSUME NEW kind \in {"line", "topic"}, texts' = texts + 1,
               Say(c, <<Task("store", kind, r, texts + 1), Broadcast(kind, r, texts + 1)>>)
        PROVE  \E q : Speech(c, "reader", q)
    <3> DEFINE a == Task("store", kind, r, texts + 1)
               b == Broadcast(kind, r, texts + 1)
               q == <<a, b>>
    <3>1. a \in Tasked' /\ b \in Tasked'
      <4>1. texts + 1 \in 0 .. texts' /\ r \in 1 .. Len(made')
        BY <1>1, <1>2, <2>1
      <4> QED BY <4>1 DEF Task, Broadcast, Tasked
    <3>2. TaskOK(a, "reader") /\ TaskOK(b, "reader")
      BY <1>2 DEF Task, Broadcast, TaskOK
    <3>3. /\ a.do = "store" /\ a.kind = kind /\ a.room = r /\ a.text = texts + 1
          /\ b.do # "store" /\ a.text # 0
      BY <1>2 DEF Task, Broadcast
    <3>4. q \in Seq(Tasked') /\ Len(q) = 2 /\ q[1] = a /\ q[2] = b
      BY <3>1
    <3> HIDE DEF a, q
    <3>5. StoresBroadcast(q)
      <4> SUFFICES ASSUME NEW i \in 1 .. Len(q), q[i].do = "store"
                   PROVE  /\ i < Len(q)
                          /\ q[i].kind \in {"line", "topic"} /\ q[i].text # 0
                          /\ q[i + 1] = Broadcast(q[i].kind, q[i].room, q[i].text)
        BY DEF StoresBroadcast
      <4>1. i = 1
        BY <3>3, <3>4
      <4> QED BY <3>3, <3>4, <4>1
    <3>6. \A i \in 1 .. Len(q) : TaskOK(q[i], "reader")
      BY <3>2, <3>4
    <3>7. talk' = [talk EXCEPT ![c]["reader"] = q]
      BY <2>1 DEF Say, a, q
    <3> QED BY <3>4, <3>5, <3>6, <3>7 DEF Speech
  <2> QED BY <2>1 DEF Post, SetTopic
<1>4. UNCHANGED <<log, topic, offered>> /\ cut' \in SUBSET Clients
      /\ told' \in [Clients -> [Clients -> {"nothing", "in", "out"}]]
  BY DEF Post, SetTopic, Say, TalkInv, DeliveryTypeOK
<1>5. PICK q : Speech(c, "reader", q)
  BY <1>3
<1> QED BY <1>1, <1>2, <1>4, <1>5, NewTalkType DEF Goroutines

LEMMA RemoveAndTellType ==
    ASSUME TalkInv, TypeInv', NEW c \in Clients, RemoveAndTell(c)
    PROVE  TalkInv'
<1> DEFINE a == Broadcast("out", RoomFor(c), 0)
<1>1. UNCHANGED <<made, texts, log, topic, offered, told>> /\ cut' \in SUBSET Clients
  BY DEF RemoveAndTell, RemoveClient, TalkInv, DeliveryTypeOK
<1>2. RoomFor(c) \in 0 .. Len(made) /\ Len(made) \in Nat /\ texts \in Nat
  BY RoomForType DEF TalkInv, DeliveryTypeOK
<1>3. IF RoomFor(c) = 0 THEN UNCHANGED talk
      ELSE talk' = [talk EXCEPT ![c]["closer"] = <<a>>]
  BY DEF RemoveAndTell
<1>4. told' \in [Clients -> [Clients -> {"nothing", "in", "out"}]]
  BY <1>1 DEF TalkInv, DeliveryTypeOK
<1>5. CASE RoomFor(c) = 0
  <2>1. UNCHANGED talk
    BY <1>3, <1>5
  <2>2. Tasked' = Tasked
    BY <1>1 DEF Tasked
  <2>3. DeliveryTypeOK'
    BY <1>1, <2>1, <2>2 DEF TalkInv, DeliveryTypeOK
  <2>4. (\A d \in Clients, h \in Goroutines : TalkOK(talk[d][h], h))'
    BY <2>1, <2>2 DEF TalkInv, TalkOK, StoresBroadcast, TaskOK
  <2> QED BY <2>3, <2>4 DEF TalkInv
<1>6. CASE RoomFor(c) # 0
  <2>1. a \in Tasked' /\ TaskOK(a, "closer") /\ a.do # "store"
    <3>1. RoomFor(c) \in 1 .. Len(made') /\ 0 \in 0 .. texts'
      BY <1>1, <1>2, <1>6
    <3> QED BY <3>1 DEF Broadcast, Task, Tasked, TaskOK
  <2> HIDE DEF a
  <2>2. PICK q : q = <<a>>
    OBVIOUS
  <2>3. q \in Seq(Tasked') /\ Len(q) = 1 /\ \A i \in 1 .. 1 : q[i] = a
    BY <2>1, <2>2
  <2>4. StoresBroadcast(q) /\ \A i \in 1 .. Len(q) : TaskOK(q[i], "closer")
    BY <2>1, <2>3 DEF StoresBroadcast
  <2>5. Len(made) <= Len(made') /\ texts' \in Nat /\ texts <= texts'
    BY <1>1, <1>2
  <2>6. talk' = [talk EXCEPT ![c]["closer"] = q]
    BY <1>3, <1>6, <2>2
  <2>7. Speech(c, "closer", q)
    BY <2>3, <2>4, <2>6 DEF Speech
  <2> QED BY <1>1, <1>4, <2>5, <2>7, NewTalkType DEF Goroutines
<1> QED BY <1>5, <1>6

LEMMA QuietType ==
    ASSUME TalkInv, TypeInv', NEW c \in Clients, Quietly(c) \/ FailQuietly(c)
    PROVE  TalkInv'
<1>1. UNCHANGED <<made, talkVars>>
  BY DEF Quietly, FailQuietly, Connect, CleanupCheck, CleanupRoom, SetName, Nick, Quit,
     EndOfInput, QuitDone, Ended, Fail, roomVars
<1>2. Tasked' = Tasked
  BY <1>1 DEF Tasked, talkVars
<1>3. DeliveryTypeOK'
  BY <1>1, <1>2 DEF talkVars, TalkInv, DeliveryTypeOK
<1>4. (\A d \in Clients, h \in Goroutines : TalkOK(talk[d][h], h))'
  BY <1>1, <1>2 DEF talkVars, TalkInv, TalkOK, StoresBroadcast, TaskOK
<1> QED BY <1>3, <1>4 DEF TalkInv

LEMMA TalkInvStep == TalkInv /\ [DeliveryNext]_deliveryVars => TalkInv'
<1> SUFFICES ASSUME TalkInv, [DeliveryNext]_deliveryVars PROVE TalkInv'
  OBVIOUS
<1>1. CASE UNCHANGED deliveryVars
  <2>1. UNCHANGED <<vars, talkVars>>
    BY <1>1 DEF deliveryVars
  <2>2. Tasked' = Tasked /\ TypeInv'
    BY <2>1 DEF Tasked, vars, talkVars, TalkInv, TypeInv, TypeOK
  <2>3. DeliveryTypeOK'
    BY <2>1, <2>2 DEF talkVars, TalkInv, DeliveryTypeOK
  <2>4. (\A d \in Clients, h \in Goroutines : TalkOK(talk[d][h], h))'
    BY <2>1, <2>2 DEF talkVars, TalkInv, TalkOK, StoresBroadcast, TaskOK
  <2> QED BY <2>2, <2>3, <2>4 DEF TalkInv
<1>2. ASSUME NEW c \in Clients, Act(c) PROVE TalkInv'
  <2>1. TypeInv'
    BY <1>2, ActIsStep, TypeStep DEF TalkInv
  <2> QED
    BY <1>2, <2>1, EnterType, SayType, RemoveAndTellType, QuietType DEF Act
<1> QED BY <1>1, <1>2, TalkStepType DEF DeliveryNext

LEMMA TalkInvInit == DeliveryInit => TalkInv
<1> SUFFICES ASSUME DeliveryInit PROVE TalkInv
  OBVIOUS
<1>1. TypeInv
  BY TypeInit DEF DeliveryInit
<1>2. <<>> \in Seq(Tasked) /\ Len(<<>>) = 0 /\ <<>> \in Seq(1 .. 0) /\ texts = 0
  BY DEF DeliveryInit
<1>3. DeliveryTypeOK
  BY <1>2 DEF DeliveryInit, DeliveryTypeOK
<1>4. \A c \in Clients, g \in Goroutines : TalkOK(talk[c][g], g)
  BY <1>2 DEF DeliveryInit, TalkOK, StoresBroadcast
<1> QED BY <1>1, <1>3, <1>4 DEF TalkInv

LEMMA TalkInvCorrect == DeliverySpec => []TalkInv
BY TalkInvInit, TalkInvStep, PTL DEF DeliverySpec

(* Every text anybody stores, sends or is offered is one that was said, and  *)
(* every broadcast is about a room that was made.                            *)
THEOREM DeliveryTypes == DeliverySpec => []DeliveryTypeOK
<1>1. TalkInv => DeliveryTypeOK
  BY DEF TalkInv
<1> QED BY <1>1, TalkInvCorrect, PTL

-----------------------------------------------------------------------------
(* Nothing is missed. *)

(* A goroutine that goes on keeps all its tasks but the first one. *)
LEMMA TasksKept ==
    ASSUME TalkInv, NEW c \in Clients, NEW g \in Goroutines, talk[c][g] # <<>>,
           NEW new, new = <<>> \/ \E x \in Tasked : new = <<x>>, Then(c, g, new)
    PROVE  /\ \A d \in Clients, h \in Goroutines : \A task \in Tasks(d, h) :
                task \in Tasks(d, h)' \/ (d = c /\ h = g /\ task = Head(talk[c][g]))
           /\ \A x \in Tasked : new = <<x>> => x \in Tasks(c, g)'
           /\ \A i \in 2 .. Len(talk[c][g]) : talk[c][g][i] \in Tasks(c, g)'
<1> DEFINE s == talk[c][g]
           u == new \o Tail(s)
<1>1. s \in Seq(Tasked) /\ Len(s) \in Nat \ {0} /\ Head(s) = s[1] /\ Head(s) \in Tasked
  BY HeadTask
<1>2. talk' = [talk EXCEPT ![c][g] = u] /\ talk \in [Clients -> [Goroutines -> Seq(Tasked)]]
  BY DEF Then, TalkInv, DeliveryTypeOK
<1>3. talk'[c][g] = u /\ \A d \in Clients, h \in Goroutines : d # c \/ h # g => talk'[d][h] = talk[d][h]
  BY <1>2
<1> HIDE DEF s
<1>4. \A i \in 2 .. Len(s) : \E j \in DOMAIN u : u[j] = s[i]
  <2>1. CASE new = <<>>
    <3>1. /\ u \in Seq(Tasked) /\ Len(u) = Len(s) - 1
          /\ \A i \in 1 .. Len(s) - 1 : u[i] = s[i + 1]
      BY <1>1, <2>1, ThenSeq
    <3> HIDE DEF u
    <3>2. \A i \in 2 .. Len(s) : i - 1 \in 1 .. Len(u) /\ u[i - 1] = s[i]
      BY <1>1, <3>1
    <3>3. DOMAIN u = 1 .. Len(u)
      BY <3>1
    <3> QED BY <3>2, <3>3
  <2>2. CASE \E x \in Tasked : new = <<x>>
    <3>1. PICK x \in Tasked : new = <<x>>
      BY <2>2
    <3>2. u \in Seq(Tasked) /\ Len(u) = Len(s) /\ \A i \in 2 .. Len(s) : u[i] = s[i]
      BY <1>1, <3>1, ThenSeq
    <3> HIDE DEF u
    <3>3. DOMAIN u = 1 .. Len(s)
      BY <3>2
    <3> QED BY <1>1, <3>2, <3>3
  <2> QED BY <2>1, <2>2
<1>5. \A x \in Tasked : new = <<x>> => 1 \in DOMAIN u /\ u[1] = x
  <2> SUFFICES ASSUME NEW x \in Tasked, new = <<x>> PROVE 1 \in DOMAIN u /\ u[1] = x
    OBVIOUS
  <2>1. u \in Seq(Tasked) /\ Len(u) = Len(s) /\ u[1] = x
    BY <1>1, ThenSeq
  <2> QED BY <1>1, <2>1
<1> HIDE DEF u
<1>6. Tasks(c, g)' = {u[i] : i \in DOMAIN u}
  BY <1>3 DEF Tasks
<1>7. \A task \in Tasks(c, g) : task \in Tasks(c, g)' \/ task = Head(s)
  <2> SUFFICES ASSUME NEW i \in DOMAIN s, s[i] # s[1] PROVE s[i] \in Tasks(c, g)'
    BY <1>1 DEF Tasks, s
  <2>1. i \in 2 .. Len(s)
    BY <1>1
  <2> QED BY <1>4, <1>6, <2>1
<1>8. \A d \in Clients, h \in Goroutines : d # c \/ h # g => Tasks(d, h)' = Tasks(d, h)
  BY <1>3 DEF Tasks
<1> QED BY <1>4, <1>5, <1>6, <1>7, <1>8 DEF s

LEMMA HistoryTexts ==
    ASSUME TalkInv, NEW o \in Objects
    PROVE  0 \notin History(o)
<1> DEFINE line == log[o]
           S    == 1 .. texts
<1>1. line \in Seq(S) /\ 0 \notin S
  BY DEF TalkInv, DeliveryTypeOK
<1> HIDE DEF S, line
<1>2. \A i \in 1 .. Len(line) : line[i] \in S
  BY <1>1
<1> QED BY <1>1, <1>2 DEF History, line

(* What is coming to a member stays so or arrives, whoever talks. *)
LEMMA ComingKept ==
    ASSUME TalkInv, NEW c \in Clients, NEW g \in Goroutines, Talk(c, g),
           NEW o, NEW m \in members[o], m \in Clients, session[m] = "open",
           NEW look \in {"history", "topic"}, NEW text, text # 0, Coming(m, o, look, text),
           (m = c /\ Head(talk[c][g]).do = look /\ Head(talk[c][g]).room = o)
             => text \in offered'[m]
    PROVE  text \in offered'[m] \/ Coming(m, o, look, text)'
<1> DEFINE t == Head(talk[c][g])
<1>1. talk[c][g] # <<>>
  BY DEF Talk, ShowTopic, ShowHistory, Store, Snapshot, Deliver, Doing
<1>2. t \in Tasked /\ TaskOK(t, g)
  BY <1>1, HeadTask
<1>3. "reader" \in Goroutines
  BY DEF Goroutines
<1>4. CASE ShowTopic(c, g) \/ ShowHistory(c, g) \/ Store(c, g)
  <2>1. Then(c, g, <<>>) /\ t.do \notin {"snapshot", "send"}
    BY <1>4 DEF ShowTopic, ShowHistory, Store, Doing
  <2>2. \A d \in Clients, h \in Goroutines : \A task \in Tasks(d, h) :
          task \in Tasks(d, h)' \/ (d = c /\ h = g /\ task = t)
    BY <1>1, <2>1, TasksKept
  <2> QED BY <1>3, <2>1, <2>2 DEF Coming
<1>5. CASE Snapshot(c, g)
  <2> DEFINE to == members[t.room] \ (IF t.kind \in {"in", "out"} THEN {c} ELSE {})
             x  == [t EXCEPT !.do = "send", !.to = to]
  <2>1. /\ t.do = "snapshot"
        /\ Then(c, g, IF to = {} THEN <<>> ELSE <<x>>)
    BY <1>5 DEF Snapshot, Doing
  <2>2. x \in Tasked /\ x.do = "send" /\ x.to = to /\ x.room = t.room /\ x.text = t.text
    <3>1. t.room \in Objects
      <4>1. made \in Seq(Keys) /\ Len(made) \in 0 .. MaxRooms /\ MaxRooms \in Nat
        BY ChatAssumption DEF TalkInv, TypeInv, TypeOK
      <4>2. t.room \in 1 .. Len(made)
        BY <1>2 DEF Tasked
      <4> QED BY <4>1, <4>2 DEF Objects
    <3>2. to \in SUBSET Clients
      BY <3>1 DEF TalkInv, TypeInv, TypeOK
    <3> QED BY <1>2, <3>2 DEF Tasked
  <2> HIDE DEF x
  <2>3. /\ \A d \in Clients, h \in Goroutines : \A task \in Tasks(d, h) :
             task \in Tasks(d, h)' \/ (d = c /\ h = g /\ task = t)
        /\ to # {} => x \in Tasks(c, g)'
    <3>1. CASE to = {}
      BY <1>1, <2>1, <3>1, TasksKept
    <3>2. CASE to # {}
      <4>1. Then(c, g, <<x>>)
        BY <2>1, <3>2
      <4> QED BY <1>1, <2>2, <4>1, TasksKept
    <3> QED BY <3>1, <3>2
  <2>4. CASE g = "reader" /\ t.room = o /\ t.text = text
    <3>1. t.kind \notin {"in", "out"}
      BY <1>2, <2>4 DEF TaskOK
    <3>2. m \in to
      BY <2>4, <3>1
    <3>3. x \in Tasks(c, "reader")'
      BY <2>3, <2>4, <3>2
    <3> QED BY <2>2, <2>4, <3>2, <3>3 DEF Coming
  <2>5. CASE ~(g = "reader" /\ t.room = o /\ t.text = text)
    BY <1>3, <2>1, <2>3, <2>5 DEF Coming
  <2> QED BY <2>4, <2>5
<1>6. CASE Deliver(c, g)
  <2>1. PICK n \in t.to :
          /\ Then(c, g, IF t.to = {n} THEN <<>> ELSE <<[t EXCEPT !.to = @ \ {n}]>>)
          /\ t.kind \notin {"in", "out"} => Hear(n, {t.text})
          /\ t.kind \in {"in", "out"} => UNCHANGED offered
    BY <1>6 DEF Deliver
  <2> DEFINE x == [t EXCEPT !.to = @ \ {n}]
  <2>2. t.do = "send"
    BY <1>6 DEF Deliver, Doing
  <2>3. /\ x \in Tasked /\ x.do = "send" /\ x.to = t.to \ {n} /\ x.room = t.room
        /\ x.text = t.text
    BY <1>2, <2>2 DEF Tasked
  <2> HIDE DEF x
  <2>4. /\ \A d \in Clients, h \in Goroutines : \A task \in Tasks(d, h) :
             task \in Tasks(d, h)' \/ (d = c /\ h = g /\ task = t)
        /\ t.to # {n} => x \in Tasks(c, g)'
    <3>1. CASE t.to = {n}
      BY <1>1, <2>1, <3>1, TasksKept
    <3>2. CASE t.to # {n}
      <4>1. Then(c, g, <<x>>)
        BY <2>1, <3>2 DEF x
      <4> QED BY <1>1, <2>3, <4>1, TasksKept
    <3> QED BY <3>1, <3>2
  <2>5. CASE g = "reader" /\ t.room = o /\ t.text = text /\ m \in t.to
    <3>1. t.kind \notin {"in", "out"}
      BY <1>2, <2>5 DEF TaskOK
    <3>2. CASE n = m
      <4>1. offered \in [Clients -> SUBSET (1 .. texts)]
        BY DEF TalkInv, DeliveryTypeOK
      <4>2. offered' = [offered EXCEPT ![m] = @ \cup {text}]
        BY <2>1, <2>5, <3>1, <3>2 DEF Hear
      <4> QED BY <4>1, <4>2
    <3>3. CASE n # m
      <4>1. m \in x.to /\ x \in Tasks(c, "reader")'
        BY <2>3, <2>4, <2>5, <3>3
      <4> QED BY <2>3, <2>5, <4>1 DEF Coming
    <3> QED BY <3>2, <3>3
  <2>6. CASE ~(g = "reader" /\ t.room = o /\ t.text = text /\ m \in t.to)
    BY <1>3, <2>2, <2>4, <2>6 DEF Coming
  <2> QED BY <2>5, <2>6
<1> QED BY <1>4, <1>5, <1>6 DEF Talk

(* The lines a room shows: storing a line adds it and at most drops others. *)
LEMMA HistoryStored ==
    ASSUME TalkInv, NEW c \in Clients, NEW g \in Goroutines, Store(c, g), NEW o \in Objects
    PROVE  LET t == Head(talk[c][g])
           IN  /\ \A text \in History(o)' :
                    text \in History(o) \/ (text = t.text /\ t.room = o)
               /\ topic'[o] = topic[o] \/ (topic'[o] = t.text /\ t.room = o)
<1> DEFINE t == Head(talk[c][g])
           line == log[o]
           S    == 1 .. texts
<1>1. /\ line \in Seq(S) /\ log \in [Objects -> Seq(S)]
      /\ topic \in [Objects -> 0 .. texts]
  BY DEF TalkInv, DeliveryTypeOK
<1>2. \/ log' = [log EXCEPT ![t.room] = Append(@, t.text)] /\ UNCHANGED topic
      \/ topic' = [topic EXCEPT ![t.room] = t.text] /\ UNCHANGED log
  BY DEF Store
<1>3. topic'[o] = topic[o] \/ (topic'[o] = t.text /\ t.room = o)
  BY <1>1, <1>2
<1>4. log'[o] = line \/ (log'[o] = Append(line, t.text) /\ t.room = o)
  BY <1>1, <1>2
<1>5. CASE log'[o] = line
  BY <1>3, <1>5 DEF History
<1>6. CASE log'[o] = Append(line, t.text) /\ t.room = o
  <2> HIDE DEF t, line, S
  <2> SUFFICES ASSUME NEW i \in 1 .. Len(log'[o]), i + HistoryLimit > Len(log'[o])
               PROVE  log'[o][i] \in History(o) \cup {t.text}
    BY <1>3, <1>6 DEF History, t
  <2>1. Len(line) \in Nat /\ Len(log'[o]) = Len(line) + 1 /\ HistoryLimit \in Nat
    BY <1>1, <1>6, DeliveryAssumption
  <2>2. CASE i = Len(line) + 1
    BY <1>1, <1>6, <2>2
  <2>3. CASE i \in 1 .. Len(line)
    <3>1. log'[o][i] = line[i] /\ i + HistoryLimit > Len(line)
      BY <1>1, <1>6, <2>1, <2>3
    <3> QED BY <2>3, <3>1 DEF History, line
  <2> QED BY <2>1, <2>2, <2>3
<1> QED BY <1>4, <1>5, <1>6

LEMMA MissedTalk ==
    ASSUME TalkInv, NothingMissed, NEW c \in Clients, NEW g \in Goroutines, Talk(c, g)
    PROVE  NothingMissed'
<1> DEFINE t == Head(talk[c][g])
<1>1. /\ UNCHANGED <<made, members, session>> /\ talk[c][g] # <<>>
      /\ made \in Seq(Keys) /\ Len(made) \in 0 .. MaxRooms /\ MaxRooms \in Nat
      /\ members \in [Objects -> SUBSET Clients]
  BY TalkIsStutter, ChatAssumption
     DEF vars, Talk, ShowTopic, ShowHistory, Store, Snapshot, Deliver, Doing, TalkInv,
         TypeInv, TypeOK
<1> SUFFICES ASSUME NEW o \in 1 .. Len(made), NEW m \in members[o], session[m] = "open"
             PROVE  /\ \A text \in History(o)' :
                         text \in offered'[m] \/ Coming(m, o, "history", text)'
                    /\ topic'[o] # 0 =>
                         topic'[o] \in offered'[m] \/ Coming(m, o, "topic", topic[o])'
  BY <1>1 DEF NothingMissed
<1>2. o \in Objects /\ m \in Clients
  BY <1>1 DEF Objects
<1>3. /\ \A text \in History(o) : text \in offered[m] \/ Coming(m, o, "history", text)
      /\ topic[o] # 0 => topic[o] \in offered[m] \/ Coming(m, o, "topic", topic[o])
  BY DEF NothingMissed
<1>4. offered[m] \subseteq offered'[m]
  <2>1. offered \in [Clients -> SUBSET (1 .. texts)]
    BY DEF TalkInv, DeliveryTypeOK
  <2>2. CASE UNCHANGED offered
    BY <2>2
  <2>3. CASE \E v \in Clients : \E heard : Hear(v, heard)
    <3>1. PICK v \in Clients : \E heard : Hear(v, heard)
      BY <2>3
    <3> QED BY <1>2, <2>1, <3>1 DEF Hear
  <2>4. CASE ShowTopic(c, g)
    BY <2>3, <2>4 DEF ShowTopic
  <2>5. CASE ShowHistory(c, g)
    BY <2>3, <2>5 DEF ShowHistory
  <2>6. CASE Store(c, g) \/ Snapshot(c, g)
    BY <2>2, <2>6 DEF Store, Snapshot
  <2>7. CASE Deliver(c, g)
    <3>1. \E v \in t.to : UNCHANGED offered \/ Hear(v, {t.text})
      BY <2>7 DEF Deliver
    <3>2. t.to \subseteq Clients
      <4>1. t \in Tasked
        BY <1>1, HeadTask
      <4> QED BY <4>1 DEF Tasked
    <3> QED BY <2>2, <2>3, <3>1, <3>2
  <2> QED BY <2>4, <2>5, <2>6, <2>7 DEF Talk
<1>5. \A text \in History(o) : text \in offered'[m] \/ Coming(m, o, "history", text)'
  <2> SUFFICES ASSUME NEW text \in History(o), Coming(m, o, "history", text)
               PROVE  text \in offered'[m] \/ Coming(m, o, "history", text)'
    BY <1>3, <1>4
  <2>1. text # 0
    BY <1>2, HistoryTexts
  <2>2. ASSUME m = c, t.do = "history", t.room = o
        PROVE  text \in offered'[m]
    <3>1. ShowHistory(c, g)
      BY <2>2 DEF Talk, ShowTopic, ShowHistory, Store, Snapshot, Deliver, Doing
    <3>2. offered' = [offered EXCEPT ![m] = @ \cup History(o)]
      BY <2>2, <3>1 DEF ShowHistory, Hear
    <3> QED BY <1>2, <3>2 DEF TalkInv, DeliveryTypeOK
  <2> QED BY <1>2, <2>1, <2>2, ComingKept
<1>6. \A text : text = topic[o] /\ text # 0 =>
        text \in offered'[m] \/ Coming(m, o, "topic", text)'
  <2> SUFFICES ASSUME NEW text, text = topic[o], text # 0, Coming(m, o, "topic", text)
               PROVE  text \in offered'[m] \/ Coming(m, o, "topic", text)'
    BY <1>3, <1>4
  <2>1. ASSUME m = c, t.do = "topic", t.room = o
        PROVE  text \in offered'[m]
    <3>1. ShowTopic(c, g)
      BY <2>1 DEF Talk, ShowTopic, ShowHistory, Store, Snapshot, Deliver, Doing
    <3>2. offered' = [offered EXCEPT ![m] = @ \cup ({text} \ {0})]
      BY <2>1, <3>1 DEF ShowTopic, Hear
    <3> QED BY <1>2, <3>2 DEF TalkInv, DeliveryTypeOK
  <2> QED BY <1>2, <2>1, ComingKept
<1>7. CASE Store(c, g)
  <2>1. /\ \A text \in History(o)' : text \in History(o) \/ (text = t.text /\ t.room = o)
        /\ topic'[o] = topic[o] \/ (topic'[o] = t.text /\ t.room = o)
    BY <1>2, <1>7, HistoryStored
  <2>2. ASSUME t.room = o, NEW look, NEW said, said = t.text
        PROVE  Coming(m, o, look, said)'
    <3>1. /\ t.do = "store" /\ Then(c, g, <<>>) /\ t = talk[c][g][1]
          /\ Len(talk[c][g]) \in Nat \ {0} /\ TalkOK(talk[c][g], g) /\ TaskOK(t, g)
      BY <1>1, <1>7, HeadTask DEF Store, Doing
    <3>2. g = "reader"
      BY <3>1 DEF TaskOK, Goroutines
    <3> DEFINE b == talk[c][g][2]
    <3>3. /\ 2 \in 2 .. Len(talk[c][g])
          /\ b = Broadcast(t.kind, t.room, t.text)
      <4>1. 1 \in 1 .. Len(talk[c][g])
        BY <3>1
      <4> QED BY <3>1, <4>1 DEF TalkOK, StoresBroadcast
    <3>4. b \in Tasks(c, "reader")'
      BY <1>1, <3>1, <3>2, <3>3, TasksKept
    <3>5. b.do = "snapshot" /\ b.room = o /\ b.text = said
      BY <2>2, <3>3 DEF Broadcast, Task
    <3>6. \E d \in Clients : \E task \in Tasks(d, "reader")' :
            task.do = "snapshot" /\ task.room = o /\ task.text = said
      BY <3>4, <3>5
    <3> QED BY <3>6 DEF Coming
  <2>3. \A text \in History(o)' : text \in offered'[m] \/ Coming(m, o, "history", text)'
    BY <1>5, <2>1, <2>2
  <2>4. PICK new : new = topic'[o]
    OBVIOUS
  <2>5. new # 0 => new \in offered'[m] \/ Coming(m, o, "topic", new)'
    BY <1>6, <2>1, <2>2, <2>4
  <2>6. Coming(m, o, "topic", new)' => Coming(m, o, "topic", topic[o])'
    BY <2>4 DEF Coming
  <2> QED BY <2>3, <2>4, <2>5, <2>6
<1>8. CASE ~Store(c, g)
  <2>1. UNCHANGED <<log, topic>>
    BY <1>8 DEF Talk, ShowTopic, ShowHistory, Snapshot, Deliver
  <2>2. History(o)' = History(o)
    BY <2>1 DEF History
  <2>3. PICK old : old = topic[o]
    OBVIOUS
  <2>4. old # 0 => old \in offered'[m] \/ Coming(m, o, "topic", old)'
    BY <1>6, <2>3
  <2>5. Coming(m, o, "topic", old)' => Coming(m, o, "topic", topic[o])'
    BY <2>1, <2>3 DEF Coming
  <2> QED BY <1>5, <2>1, <2>2, <2>3, <2>4, <2>5
<1> QED BY <1>7, <1>8

(* Commands add tasks and no text; members and sessions at most go. *)
LEMMA MissedQuiet ==
    ASSUME TalkInv, NothingMissed,
           UNCHANGED <<made, log, topic, offered>>,
           \A o \in Objects : members'[o] \subseteq members[o],
           \A m \in Clients : session'[m] = "open" => session[m] = "open",
           \A d \in Clients : Tasks(d, "reader") \subseteq Tasks(d, "reader")'
    PROVE  NothingMissed'
<1>1. /\ made \in Seq(Keys) /\ Len(made) \in 0 .. MaxRooms /\ MaxRooms \in Nat
      /\ members \in [Objects -> SUBSET Clients]
  BY ChatAssumption DEF TalkInv, TypeInv, TypeOK
<1>2. \A m, o, look, text : Coming(m, o, look, text) /\ m \in Clients => Coming(m, o, look, text)'
  BY DEF Coming
<1> SUFFICES ASSUME NEW o \in 1 .. Len(made), NEW m \in members'[o], session'[m] = "open"
             PROVE  /\ \A text \in History(o)' :
                         text \in offered'[m] \/ Coming(m, o, "history", text)'
                    /\ topic'[o] # 0 =>
                         topic'[o] \in offered'[m] \/ Coming(m, o, "topic", topic[o])'
  BY DEF NothingMissed
<1>3. o \in Objects /\ m \in members[o] /\ m \in Clients /\ session[m] = "open"
  <2>1. o \in Objects
    BY <1>1 DEF Objects
  <2> QED BY <1>1, <2>1
<1>4. /\ \A text \in History(o) : text \in offered[m] \/ Coming(m, o, "history", text)
      /\ topic[o] # 0 => topic[o] \in offered[m] \/ Coming(m, o, "topic", topic[o])
  BY <1>3 DEF NothingMissed
<1>5. History(o)' = History(o)
  BY DEF History
<1>6. PICK old : old = topic[o]
  OBVIOUS
<1>7. Coming(m, o, "topic", old)' => Coming(m, o, "topic", topic[o])'
  BY <1>6 DEF Coming
<1> QED BY <1>2, <1>3, <1>4, <1>5, <1>6, <1>7

(* The newcomer is still to look at everything that was said. *)
LEMMA MissedEnter ==
    ASSUME TalkInv, RoomInv, NothingMissed, NEW c \in Clients, NEW k \in Keys, Enter(c, k)
    PROVE  NothingMissed'
<1> DEFINE room == attached'[k]
<1>1. MoveClientRoom(c, k) /\ UNCHANGED <<session, log, topic, offered>>
  BY DEF Enter, JoinLobby, JoinRoom
<1>2. /\ made \in Seq(Keys) /\ Len(made) \in 0 .. MaxRooms /\ MaxRooms \in Nat
      /\ attached \in [Keys -> 0 .. Len(made)]
      /\ members \in [Objects -> SUBSET Clients]
      /\ talk \in [Clients -> [Goroutines -> Seq(Tasked)]]
  BY ChatAssumption DEF TalkInv, TypeInv, TypeOK, DeliveryTypeOK
<1>3. /\ Len(made') \in Len(made) .. MaxRooms
      /\ members' \in [Objects -> SUBSET Clients]
  BY <1>1, MoveType DEF TalkInv
<1>4. \A o \in Objects : \A m \in members'[o] :
        m \in members[o] \/ (m = c /\ o = room /\ roomKey[c] # k)
  <2>1. CASE roomKey[c] = k
    BY <1>1, <2>1 DEF MoveClientRoom
  <2>2. CASE roomKey[c] # k
    <3>1. PICK prev : members' = [o \in Objects |-> IF o = room THEN members[o] \cup {c}
                                                   ELSE IF o = prev THEN members[o] \ {c}
                                                   ELSE members[o]]
      <4> DEFINE r == IF attached[k] = 0 THEN Len(made) + 1 ELSE attached[k]
                 p == IF roomKey[c] = NoKey THEN 0 ELSE attached[roomKey[c]]
      <4>1. attached' = [attached EXCEPT ![k] = r]
        BY <1>1 DEF MoveClientRoom
      <4>2. room = r
        BY <1>2, <4>1
      <4>3. members' = [o \in Objects |-> IF o = r THEN members[o] \cup {c}
                                         ELSE IF o = p THEN members[o] \ {c}
                                         ELSE members[o]]
        BY <1>1, <2>2 DEF MoveClientRoom
      <4> HIDE DEF r, p
      <4> QED BY <4>2, <4>3
    <3> QED BY <2>2, <3>1
  <2> QED BY <2>1, <2>2
<1>5. talk' = [talk EXCEPT ![c]["reader"] = EnterTasks(c, k)] /\ talk[c]["reader"] = <<>>
  BY DEF Enter, Idle
<1>6. \A d \in Clients : Tasks(d, "reader") \subseteq Tasks(d, "reader")'
  <2>1. Tasks(c, "reader") = {}
    BY <1>5 DEF Tasks
  <2>2. \A d \in Clients : d # c => talk'[d]["reader"] = talk[d]["reader"]
    BY <1>2, <1>5
  <2> QED BY <2>1, <2>2 DEF Tasks
<1>7. ASSUME roomKey[c] # k
      PROVE  /\ Task("topic", "", room, 0) \in Tasks(c, "reader")'
             /\ Task("history", "", room, 0) \in Tasks(c, "reader")'
  <2> DEFINE a == Task("topic", "", room, 0)
             b == Task("history", "", room, 0)
             i == Broadcast("in", room, 0)
             q == EnterTasks(c, k)
  <2>1. q = <<a, b, i>> \o <<>> \/ q = <<a, b, i>> \o <<Broadcast("out", left'[c], 0)>>
    BY <1>7 DEF EnterTasks
  <2> HIDE DEF a, b, i, q
  <2>2. 1 \in DOMAIN q /\ 2 \in DOMAIN q /\ q[1] = a /\ q[2] = b
    <3>1. CASE q = <<a, b, i>> \o <<>>
      <4>1. q = <<a, b, i>>
        BY <3>1, Concat
      <4> QED BY <4>1
    <3>2. CASE q = <<a, b, i>> \o <<Broadcast("out", left'[c], 0)>>
      <4> DEFINE o == Broadcast("out", left'[c], 0)
                 S == {a, b, i, o}
      <4>1. q \in Seq(S) /\ Len(q) = 4 /\ q[1] = a /\ q[2] = b
        BY <3>2, ConcatOne
      <4> QED BY <4>1
    <3> QED BY <2>1, <3>1, <3>2
  <2>3. talk'[c]["reader"] = q
    BY <1>2, <1>5 DEF q, Goroutines
  <2> QED BY <2>2, <2>3 DEF Tasks, a, b
<1> SUFFICES ASSUME NEW o \in 1 .. Len(made'), NEW m \in members'[o], session'[m] = "open"
             PROVE  /\ \A text \in History(o)' :
                         text \in offered'[m] \/ Coming(m, o, "history", text)'
                    /\ topic'[o] # 0 =>
                         topic'[o] \in offered'[m] \/ Coming(m, o, "topic", topic[o])'
  BY DEF NothingMissed
<1>8. o \in Objects /\ m \in Clients
  BY <1>2, <1>3 DEF Objects
<1>9. CASE m = c /\ o = room /\ roomKey[c] # k
  <2>1. /\ Task("topic", "", o, 0) \in Tasks(m, "reader")'
        /\ Task("history", "", o, 0) \in Tasks(m, "reader")'
    BY <1>7, <1>9
  <2>2. \A text : Coming(m, o, "history", text)' /\ Coming(m, o, "topic", text)'
    BY <2>1 DEF Coming, Task
  <2>3. PICK new : new = topic'[o]
    OBVIOUS
  <2>4. Coming(m, o, "topic", new)' => Coming(m, o, "topic", topic[o])'
    BY <2>3 DEF Coming
  <2> QED BY <2>2, <2>4
<1>10. CASE ~(m = c /\ o = room /\ roomKey[c] # k)
  <2>1. m \in members[o]
    BY <1>4, <1>8, <1>10
  <2>2. o \in 1 .. Len(made)
    <3>1. o > Len(made) => members[o] = {}
      BY <1>8 DEF RoomInv
    <3> QED BY <1>2, <1>3, <2>1, <3>1
  <2>3. /\ \A text \in History(o) : text \in offered[m] \/ Coming(m, o, "history", text)
        /\ topic[o] # 0 => topic[o] \in offered[m] \/ Coming(m, o, "topic", topic[o])
    BY <1>1, <2>1, <2>2 DEF NothingMissed
  <2>4. \A look, text : Coming(m, o, look, text) => Coming(m, o, look, text)'
    BY <1>6, <1>8 DEF Coming
  <2>5. History(o)' = History(o)
    BY <1>1 DEF History
  <2>6. PICK old : old = topic[o]
    OBVIOUS
  <2>7. Coming(m, o, "topic", old)' => Coming(m, o, "topic", topic[o])'
    BY <1>1, <2>6 DEF Coming
  <2> QED BY <1>1, <2>3, <2>4, <2>5, <2>6, <2>7
<1> QED BY <1>9, <1>10

LEMMA MissedAct ==
    ASSUME TalkInv, RoomInv, NothingMissed, NEW c \in Clients, Act(c)
    PROVE  NothingMissed'
<1>1. CASE \E k \in Keys : Enter(c, k)
  BY <1>1, MissedEnter
<1>2. CASE ~\E k \in Keys : Enter(c, k)
  <2>1. UNCHANGED <<made, log, topic, offered>>
    BY <1>2 DEF Act, Quietly, FailQuietly, RemoveAndTell, Post, SetTopic, Say,
       OtherCommand, Connect, CleanupCheck, CleanupRoom, SetName, Nick, Quit, EndOfInput,
       QuitDone, Ended, Fail, RemoveClient, roomVars, talkVars
  <2>2. \A o \in Objects : members'[o] \subseteq members[o]
    <3>1. UNCHANGED members \/ RemoveClient(c)
      BY <1>2 DEF Act, Quietly, FailQuietly, RemoveAndTell, Post, SetTopic, Say,
         OtherCommand, Connect, CleanupCheck, CleanupRoom, SetName, Nick, Quit, EndOfInput,
         QuitDone, Ended, Fail, roomVars
    <3> QED BY <3>1 DEF RemoveClient
  <2>3. \A m \in Clients : session'[m] = "open" => session[m] = "open"
    <3>1. UNCHANGED session \/ \E to \in {"closing", "closed"} :
            session' = [session EXCEPT ![c] = to] \/ Shutdown(c)
      BY <1>2 DEF Act, Quietly, FailQuietly, RemoveAndTell, Post, SetTopic, Say,
         OtherCommand, Connect, CleanupCheck, CleanupRoom, SetName, Nick, Quit, EndOfInput,
         QuitDone, Ended, Fail, RemoveClient
    <3> QED BY <3>1 DEF Shutdown, TalkInv, TypeInv, TypeOK
  <2>4. \A d \in Clients : Tasks(d, "reader") \subseteq Tasks(d, "reader")'
    <3>1. talk \in [Clients -> [Goroutines -> Seq(Tasked)]]
      BY DEF TalkInv, DeliveryTypeOK
    <3>2. CASE Post(c) \/ SetTopic(c)
      <4>1. talk[c]["reader"] = <<>> /\ \E q : talk' = [talk EXCEPT ![c]["reader"] = q]
        BY <3>2 DEF Post, SetTopic, Say, Idle
      <4>2. \A d \in Clients : d # c => talk'[d]["reader"] = talk[d]["reader"]
        BY <3>1, <4>1
      <4> QED BY <4>1, <4>2 DEF Tasks
    <3>3. CASE RemoveAndTell(c)
      <4>1. UNCHANGED talk \/ \E q : talk' = [talk EXCEPT ![c]["closer"] = q]
        BY <3>3 DEF RemoveAndTell
      <4>2. \A d \in Clients : talk'[d]["reader"] = talk[d]["reader"]
        <5>1. CASE UNCHANGED talk
          BY <5>1
        <5>2. ASSUME NEW q, talk' = [talk EXCEPT ![c]["closer"] = q]
              PROVE  \A d \in Clients : talk'[d]["reader"] = talk[d]["reader"]
          BY <3>1, <5>2 DEF Goroutines
        <5> QED BY <4>1, <5>1, <5>2
      <4> QED BY <4>2 DEF Tasks
    <3>4. CASE Quietly(c) \/ FailQuietly(c)
      BY <3>4 DEF Quietly, FailQuietly, talkVars, Tasks
    <3> QED BY <1>2, <3>2, <3>3, <3>4 DEF Act
  <2> QED BY <2>1, <2>2, <2>3, <2>4, MissedQuiet
<1> QED BY <1>1, <1>2

(* However many clients talk, join and leave at once, a member that is still *)
(* connected has been offered the latest lines of its room and the topic, or *)
(* they are on their way: the order of entering and looking back, and that   *)
(* of storing and sending, close the gap between the two.                    *)
THEOREM DeliveryNothingMissed == DeliverySpec => []NothingMissed
<1>1. DeliveryInit => NothingMissed
  BY DEF DeliveryInit, Init, NothingMissed
<1>2. TalkInv /\ RoomInv /\ NothingMissed /\ [DeliveryNext]_deliveryVars => NothingMissed'
  <2> SUFFICES ASSUME TalkInv, RoomInv, NothingMissed, [DeliveryNext]_deliveryVars
               PROVE  NothingMissed'
    OBVIOUS
  <2>1. CASE UNCHANGED deliveryVars
    <3>1. UNCHANGED <<made, members, session, log, topic, offered, talk>>
      BY <2>1 DEF deliveryVars, vars, talkVars
    <3> QED BY <3>1, MissedQuiet DEF Tasks
  <2> QED BY <2>1, MissedTalk, MissedAct DEF DeliveryNext
<1> QED BY <1>1, <1>2, TalkInvCorrect, DeliveryImplementsServer, RoomCorrect, PTL DEF DeliverySpec

-----------------------------------------------------------------------------
(* What is announced is right. *)

(* What a client has still to announce of its comings and goings. *)
Announcements(c) ==
    {task \in UNION {Tasks(c, g) : g \in Goroutines} :
        task.kind \in {"in", "out"} /\ task.do \in {"snapshot", "send"}}

There(v, c) == c \in clients /\ roomKey[c] = roomKey[v]

Listens(v) == session[v] = "open" /\ RoomFor(v) # 0 /\ v \in members[RoomFor(v)]

(* The announcement will change what v was told last. *)
Brings(v, task) ==
    /\ made[task.room] = roomKey[v]
    /\ \/ task.do = "snapshot" /\ v \in members[task.room]
       \/ task.do = "send" /\ v \in task.to

(* It is not for the client itself, and true by now. *)
SaysSo(c, task) ==
    /\ c \notin task.to
    /\ task.kind = "in" <=> c \in clients /\ roomKey[c] = made[task.room]

Awaits(v, c, kind) == \E task \in Announcements(c) : task.kind = kind /\ Brings(v, task)

(* While c is talking, who was told something that is no longer so is still  *)
(* to hear better.                                                           *)
ToldOf(c) ==
    /\ told[c][c] = "nothing"
    /\ \A task \in Announcements(c) : SaysSo(c, task)
    /\ \A v \in Clients \ {c} : Listens(v) =>
         /\ told[v][c] = "in"  => There(v, c) \/ Awaits(v, c, "out")
         /\ told[v][c] = "out" => ~There(v, c) \/ Awaits(v, c, "in")

CloserInv ==
    \A c \in Clients :
        /\ talk[c]["closer"] # <<>> => session[c] = "closed"
        /\ pc[c] = "absent" => roomKey[c] = NoKey

ToldInv == CloserInv /\ \A c \in Clients \ (torn \cup cut) : ToldOf(c)

LEMMA AnnouncedRooms ==
    ASSUME TalkInv, NEW c \in Clients, NEW task \in Announcements(c)
    PROVE  task.room \in 1 .. Len(made) /\ task.room \in Objects /\ task \in Tasked
<1>1. PICK g \in Goroutines : task \in Tasks(c, g)
  BY DEF Announcements
<1>2. talk[c][g] \in Seq(Tasked)
  BY DEF TalkInv, DeliveryTypeOK
<1>3. task \in Tasked
  BY <1>1, <1>2 DEF Tasks
<1>4. Len(made) \in 0 .. MaxRooms /\ MaxRooms \in Nat
  BY ChatAssumption DEF TalkInv, TypeInv, TypeOK
<1>5. task.room \in 1 .. Len(made)
  BY <1>3 DEF Tasked
<1> QED BY <1>3, <1>4, <1>5 DEF Objects

(* What another client does: it may come in anew, or drop out. *)
LEMMA ToldKept ==
    ASSUME TalkInv, NEW c \in Clients, ToldOf(c),
           Announcements(c)' = Announcements(c),
           c \in clients' <=> c \in clients, roomKey'[c] = roomKey[c],
           \A i \in 1 .. Len(made) : made'[i] = made[i],
           told'[c][c] \in {told[c][c], "nothing"},
           \A v \in Clients \ {c} : Listens(v)' =>
               \/ told'[v][c] = "nothing"
               \/ /\ Listens(v) /\ told'[v][c] = told[v][c] /\ roomKey'[v] = roomKey[v]
                  /\ \A o \in Objects : v \in members[o] => v \in members'[o]
    PROVE  ToldOf(c)'
<1>1. \A task \in Announcements(c) :
         task.room \in Objects /\ made'[task.room] = made[task.room]
  BY AnnouncedRooms
<1>2. ASSUME NEW task \in Announcements(c)'
      PROVE  SaysSo(c, task)'
  BY <1>1, <1>2 DEF ToldOf, SaysSo
<1>3. ASSUME NEW v \in Clients \ {c}, Listens(v)', told'[v][c] # "nothing"
      PROVE  /\ told'[v][c] = "in"  => There(v, c)' \/ Awaits(v, c, "out")'
             /\ told'[v][c] = "out" => ~There(v, c)' \/ Awaits(v, c, "in")'
  <2>1. /\ Listens(v) /\ told'[v][c] = told[v][c] /\ roomKey'[v] = roomKey[v]
        /\ \A o \in Objects : v \in members[o] => v \in members'[o]
    BY <1>3
  <2>2. There(v, c)' <=> There(v, c)
    BY <2>1 DEF There
  <2>3. \A task \in Announcements(c) : Brings(v, task) => Brings(v, task)'
    BY <1>1, <2>1 DEF Brings
  <2>4. \A kind : Awaits(v, c, kind) => Awaits(v, c, kind)'
    BY <2>3 DEF Awaits
  <2> QED BY <2>1, <2>2, <2>4 DEF ToldOf
<1> QED BY <1>2, <1>3 DEF ToldOf

(* What the client itself does while it talks. *)
LEMMA ToldTalks ==
    ASSUME TalkInv, NEW c \in Clients, ToldOf(c), UNCHANGED vars,
           told'[c][c] = told[c][c],
           \A task \in Announcements(c)' : SaysSo(c, task),
           \A v \in Clients \ {c} : Listens(v) =>
               \/ told'[v][c] = "nothing"
               \/ told'[v][c] = "in" /\ There(v, c)
               \/ told'[v][c] = "out" /\ ~There(v, c)
               \/ /\ told'[v][c] = told[v][c]
                  /\ \A task \in Announcements(c) : Brings(v, task) =>
                        \E t \in Announcements(c)' : t.kind = task.kind /\ Brings(v, t)
    PROVE  ToldOf(c)'
<1>1. \A task : SaysSo(c, task)' <=> SaysSo(c, task)
  BY DEF vars, clientVars, roomVars, SaysSo
<1>2. \A v : /\ Listens(v)' <=> Listens(v)
             /\ There(v, c)' <=> There(v, c)
             /\ \A task : Brings(v, task)' <=> Brings(v, task)
  BY DEF vars, clientVars, roomVars, Listens, RoomFor, There, Brings
<1>3. ASSUME NEW v \in Clients \ {c}, Listens(v),
             told'[v][c] = told[v][c],
             \A task \in Announcements(c) : Brings(v, task) =>
                 \E t \in Announcements(c)' : t.kind = task.kind /\ Brings(v, t)
      PROVE  \A kind : Awaits(v, c, kind) => Awaits(v, c, kind)'
  BY <1>2, <1>3 DEF Awaits
<1>4. ASSUME NEW v \in Clients \ {c}, Listens(v)'
      PROVE  /\ told'[v][c] = "in"  => There(v, c)' \/ Awaits(v, c, "out")'
             /\ told'[v][c] = "out" => ~There(v, c)' \/ Awaits(v, c, "in")'
  <2>1. Listens(v)
    BY <1>2, <1>4
  <2>2. CASE \/ told'[v][c] = "nothing"
             \/ told'[v][c] = "in" /\ There(v, c)
             \/ told'[v][c] = "out" /\ ~There(v, c)
    BY <1>2, <2>2
  <2>3. CASE /\ told'[v][c] = told[v][c]
             /\ \A task \in Announcements(c) : Brings(v, task) =>
                    \E t \in Announcements(c)' : t.kind = task.kind /\ Brings(v, t)
    BY <1>2, <1>3, <2>1, <2>3 DEF ToldOf
  <2> QED BY <2>1, <2>2, <2>3
<1> QED BY <1>1, <1>4 DEF ToldOf

(* A goroutine goes on with no task but those it had and the one put first. *)
LEMMA TasksFrom ==
    ASSUME TalkInv, NEW c \in Clients, NEW g \in Goroutines, talk[c][g] # <<>>,
           NEW new, new = <<>> \/ \E x \in Tasked : new = <<x>>, Then(c, g, new)
    PROVE  /\ \A d \in Clients, h \in Goroutines :
                d # c \/ h # g => talk'[d][h] = talk[d][h] /\ Tasks(d, h)' = Tasks(d, h)
           /\ \A task \in Tasks(c, g)' : task \in Tasks(c, g) \/ new = <<task>>
<1> DEFINE s == talk[c][g]
           u == new \o Tail(s)
<1>1. s \in Seq(Tasked) /\ Len(s) \in Nat \ {0}
  BY HeadTask
<1>2. talk' = [talk EXCEPT ![c][g] = u] /\ talk \in [Clients -> [Goroutines -> Seq(Tasked)]]
  BY DEF Then, TalkInv, DeliveryTypeOK
<1>3. talk'[c][g] = u /\ \A d \in Clients, h \in Goroutines : d # c \/ h # g => talk'[d][h] = talk[d][h]
  BY <1>2
<1> HIDE DEF s
<1>4. \A j \in DOMAIN u : new = <<u[j]>> \/ \E i \in DOMAIN s : u[j] = s[i]
  <2>1. CASE new = <<>>
    <3>1. /\ u \in Seq(Tasked) /\ Len(u) = Len(s) - 1
          /\ \A i \in 1 .. Len(s) - 1 : u[i] = s[i + 1]
      BY <1>1, <2>1, ThenSeq
    <3> HIDE DEF u
    <3>2. DOMAIN u = 1 .. Len(s) - 1 /\ DOMAIN s = 1 .. Len(s)
      BY <1>1, <3>1
    <3> QED BY <1>1, <3>1, <3>2
  <2>2. CASE \E x \in Tasked : new = <<x>>
    <3>1. PICK x \in Tasked : new = <<x>>
      BY <2>2
    <3>2. /\ u \in Seq(Tasked) /\ Len(u) = Len(s) /\ u[1] = x
          /\ \A i \in 2 .. Len(s) : u[i] = s[i]
      BY <1>1, <3>1, ThenSeq
    <3> HIDE DEF u
    <3>3. DOMAIN u = 1 .. Len(s) /\ DOMAIN s = 1 .. Len(s)
      BY <1>1, <3>2
    <3>4. \A j \in 1 .. Len(s) : j = 1 \/ j \in 2 .. Len(s)
      BY <1>1
    <3> QED BY <3>1, <3>2, <3>3, <3>4
  <2> QED BY <2>1, <2>2
<1> HIDE DEF u
<1>5. Tasks(c, g)' = {u[i] : i \in DOMAIN u} /\ Tasks(c, g) = {s[i] : i \in DOMAIN s}
  BY <1>3 DEF Tasks, s
<1>6. \A task \in Tasks(c, g)' : task \in Tasks(c, g) \/ new = <<task>>
  BY <1>4, <1>5
<1> QED BY <1>3, <1>6 DEF Tasks

IsNews(task) == task.kind \in {"in", "out"} /\ task.do \in {"snapshot", "send"}

LEMMA AnnouncementsFrom ==
    ASSUME TalkInv, NEW c \in Clients, NEW g \in Goroutines, talk[c][g] # <<>>,
           NEW new, new = <<>> \/ \E x \in Tasked : new = <<x>>, Then(c, g, new)
    PROVE  /\ \A task \in Announcements(c)' : task \in Announcements(c) \/ new = <<task>>
           /\ \A task \in Announcements(c) : task \in Announcements(c)' \/ task = Head(talk[c][g])
           /\ \A x \in Tasked : new = <<x>> /\ IsNews(x) => x \in Announcements(c)'
           /\ \A d \in Clients \ {c} : Announcements(d)' = Announcements(d)
           /\ IsNews(Head(talk[c][g])) => Head(talk[c][g]) \in Announcements(c)
           /\ \A task \in Announcements(c)' : IsNews(task)
<1>1. /\ \A d \in Clients, h \in Goroutines : d # c \/ h # g => Tasks(d, h)' = Tasks(d, h)
      /\ \A task \in Tasks(c, g)' : task \in Tasks(c, g) \/ new = <<task>>
  BY TasksFrom
<1>2. /\ \A h \in Goroutines : \A task \in Tasks(c, h) :
            task \in Tasks(c, h)' \/ task = Head(talk[c][g])
      /\ \A x \in Tasked : new = <<x>> => x \in Tasks(c, g)'
  BY TasksKept
<1>3. Head(talk[c][g]) \in Tasks(c, g)
  BY HeadTask DEF Tasks
<1>4. \A task \in Announcements(c)' : task \in Announcements(c) \/ new = <<task>>
  BY <1>1 DEF Announcements
<1>5. \A task \in Announcements(c) : task \in Announcements(c)' \/ task = Head(talk[c][g])
  BY <1>2 DEF Announcements
<1>6. \A d \in Clients \ {c} : Announcements(d)' = Announcements(d)
  BY <1>1 DEF Announcements
<1> QED BY <1>2, <1>3, <1>4, <1>5, <1>6 DEF Announcements, IsNews

(* Tasks that announce nothing. *)
LEMMA ToldMeanwhile ==
    ASSUME TalkInv, NEW c \in Clients, NEW g \in Goroutines, ToldOf(c), UNCHANGED <<vars, told>>,
           talk[c][g] # <<>>, ~IsNews(Head(talk[c][g])),
           NEW new, new = <<>> \/ \E x \in Tasked : new = <<x>> /\ ~IsNews(x), Then(c, g, new)
    PROVE  ToldOf(c)'
<1>1. \A task \in Announcements(c)' : task \in Announcements(c)
  <2>1. \A x, y : <<x>> = <<y>> => x = y
    OBVIOUS
  <2>2. \A x : <<x>> # <<>>
    OBVIOUS
  <2>3. \A task \in Announcements(c)' : (task \in Announcements(c) \/ new = <<task>>) /\ IsNews(task)
    BY AnnouncementsFrom
  <2> QED BY <2>1, <2>2, <2>3
<1>2. \A task \in Announcements(c) : task \in Announcements(c)'
  <2>1. \A task \in Announcements(c) : task \in Announcements(c)' \/ task = Head(talk[c][g])
    BY AnnouncementsFrom
  <2>2. \A task \in Announcements(c) : IsNews(task)
    BY DEF Announcements, IsNews
  <2> QED BY <2>1, <2>2
<1>3. \A task \in Announcements(c)' : SaysSo(c, task)
  BY <1>1 DEF ToldOf
<1> QED BY <1>2, <1>3, ToldTalks

(* The snapshot has everyone the announcement is for. *)
LEMMA ToldSnapshot ==
    ASSUME TalkInv, NEW c \in Clients, NEW g \in Goroutines, ToldOf(c), Snapshot(c, g)
    PROVE  ToldOf(c)'
<1> DEFINE task == Head(talk[c][g])
           to   == members[task.room] \ (IF task.kind \in {"in", "out"} THEN {c} ELSE {})
           x    == [task EXCEPT !.do = "send", !.to = to]
           new  == IF to = {} THEN <<>> ELSE <<x>>
<1>1. /\ talk[c][g] # <<>> /\ task.do = "snapshot" /\ Then(c, g, new)
      /\ UNCHANGED <<vars, told>>
  BY DEF Snapshot, Doing
<1>2. task \in Tasked
  BY <1>1, HeadTask
<1>3. task.room \in Objects
  <2>1. Len(made) \in 0 .. MaxRooms /\ MaxRooms \in Nat
    BY ChatAssumption DEF TalkInv, TypeInv, TypeOK
  <2>2. task.room \in 1 .. Len(made)
    BY <1>2 DEF Tasked
  <2> HIDE DEF task
  <2> QED BY <2>1, <2>2 DEF Objects
<1>4. to \subseteq Clients
  BY <1>3 DEF TalkInv, TypeInv, TypeOK
<1> HIDE DEF to
<1>5. x \in Tasked /\ x.kind = task.kind /\ x.room = task.room /\ x.do = "send" /\ x.to = to
  BY <1>2, <1>4 DEF Tasked
<1>6. new = <<>> \/ \E y \in Tasked : new = <<y>>
  BY <1>5
<1> HIDE DEF task, x
<1>7. CASE ~IsNews(task)
  <2>1. ~IsNews(x)
    BY <1>1, <1>5, <1>7 DEF IsNews
  <2> QED BY <1>1, <1>5, <1>7, <2>1, ToldMeanwhile DEF task
<1>8. CASE IsNews(task)
  <2>1. /\ \A t \in Announcements(c)' : t \in Announcements(c) \/ new = <<t>>
        /\ \A t \in Announcements(c) : t \in Announcements(c)' \/ t = task
        /\ new = <<x>> => x \in Announcements(c)'
        /\ task \in Announcements(c)
    BY <1>1, <1>5, <1>6, <1>8, AnnouncementsFrom DEF task, IsNews
  <2>2. SaysSo(c, task)
    BY <2>1 DEF ToldOf
  <2>3. c \notin to
    BY <1>8 DEF to, IsNews
  <2>4. SaysSo(c, x)
    BY <1>5, <2>2, <2>3 DEF SaysSo
  <2>5. \A t \in Announcements(c)' : SaysSo(c, t)
    <3>1. \A t : new = <<t>> => t = x
      OBVIOUS
    <3> QED BY <2>1, <2>4, <3>1 DEF ToldOf
  <2>6. ASSUME NEW v \in Clients \ {c}, NEW t \in Announcements(c), Brings(v, t)
        PROVE  \E t2 \in Announcements(c)' : t2.kind = t.kind /\ Brings(v, t2)
    <3>1. CASE t = task
      <4>1. v \in members[task.room] /\ made[task.room] = roomKey[v]
        BY <1>1, <2>6, <3>1 DEF Brings
      <4>2. v \in to
        BY <4>1 DEF to
      <4>3. new = <<x>> /\ Brings(v, x)
        BY <1>5, <4>1, <4>2 DEF Brings
      <4> QED BY <1>5, <2>1, <3>1, <4>3
    <3>2. CASE t # task
      BY <2>1, <2>6, <3>2
    <3> QED BY <3>1, <3>2
  <2> QED BY <1>1, <2>5, <2>6, ToldTalks
<1> QED BY <1>7, <1>8

(* One more member has heard. *)
LEMMA ToldDeliver ==
    ASSUME TalkInv, NEW c \in Clients, NEW g \in Goroutines, ToldOf(c), Deliver(c, g)
    PROVE  ToldOf(c)'
<1> DEFINE task == Head(talk[c][g])
<1>1. /\ talk[c][g] # <<>> /\ task.do = "send" /\ UNCHANGED vars
      /\ task \in Tasked
  BY HeadTask DEF Deliver, Doing
<1>2. PICK m \in task.to :
         /\ Then(c, g, IF task.to = {m} THEN <<>> ELSE <<[task EXCEPT !.to = @ \ {m}]>>)
         /\ IF task.kind \in {"in", "out"}
            THEN IF session[m] = "open" /\ roomKey[m] = made[task.room]
                 THEN \E full \in {FALSE} \cup {s \in {TRUE} : m \in Slow} :
                        told' = [told EXCEPT ![m][c] = IF full THEN "nothing" ELSE task.kind]
                 ELSE UNCHANGED told
            ELSE UNCHANGED told
  BY DEF Deliver
<1> DEFINE x   == [task EXCEPT !.to = @ \ {m}]
           new == IF task.to = {m} THEN <<>> ELSE <<x>>
<1>3. /\ x \in Tasked /\ x.kind = task.kind /\ x.room = task.room /\ x.do = "send"
      /\ x.to = task.to \ {m} /\ m \in Clients
  BY <1>1, <1>2 DEF Tasked
<1>4. new = <<>> \/ \E y \in Tasked : new = <<y>>
  BY <1>3
<1>5. Then(c, g, new) /\ told \in [Clients -> [Clients -> {"nothing", "in", "out"}]]
  BY <1>2 DEF TalkInv, DeliveryTypeOK
<1> HIDE DEF task, x
<1>6. CASE ~IsNews(task)
  <2>1. ~IsNews(x) /\ UNCHANGED told
    BY <1>1, <1>2, <1>3, <1>6 DEF IsNews
  <2> QED BY <1>1, <1>3, <1>5, <1>6, <2>1, ToldMeanwhile DEF task
<1>7. CASE IsNews(task)
  <2>1. /\ \A t \in Announcements(c)' : t \in Announcements(c) \/ new = <<t>>
        /\ \A t \in Announcements(c) : t \in Announcements(c)' \/ t = task
        /\ new = <<x>> => x \in Announcements(c)'
        /\ task \in Announcements(c)
    <3>1. talk[c][g] # <<>> /\ task = Head(talk[c][g]) /\ IsNews(x)
      BY <1>1, <1>3, <1>7 DEF task, IsNews
    <3> HIDE DEF new
    <3>2. /\ \A t \in Announcements(c)' : t \in Announcements(c) \/ new = <<t>>
          /\ \A t \in Announcements(c) : t \in Announcements(c)' \/ t = Head(talk[c][g])
          /\ \A y \in Tasked : new = <<y>> /\ IsNews(y) => y \in Announcements(c)'
          /\ IsNews(Head(talk[c][g])) => Head(talk[c][g]) \in Announcements(c)
      BY <1>4, <1>5, <3>1, AnnouncementsFrom
    <3> QED BY <1>3, <1>7, <3>1, <3>2
  <2>2. SaysSo(c, task) /\ m # c
    BY <1>2, <2>1 DEF ToldOf, SaysSo
  <2>3. SaysSo(c, x)
    BY <1>3, <2>2 DEF SaysSo
  <2>4. \A t \in Announcements(c)' : SaysSo(c, t)
    <3>1. \A t : new = <<t>> => t = x
      OBVIOUS
    <3> QED BY <2>1, <2>3, <3>1 DEF ToldOf
  <2>5. /\ \A v \in Clients \ {m} : told'[v][c] = told[v][c]
        /\ \/ told'[m][c] = told[m][c] /\ (session[m] = "open" => roomKey[m] # made[task.room])
           \/ told'[m][c] = "nothing"
           \/ told'[m][c] = task.kind /\ roomKey[m] = made[task.room]
    <3>1. CASE session[m] = "open" /\ roomKey[m] = made[task.room]
      <4>1. PICK said \in {"nothing", task.kind} : told' = [told EXCEPT ![m][c] = said]
        BY <1>2, <1>7, <3>1 DEF IsNews
      <4> QED BY <1>3, <1>5, <3>1, <4>1
    <3>2. CASE ~(session[m] = "open" /\ roomKey[m] = made[task.room])
      BY <1>2, <1>7, <3>2 DEF IsNews
    <3> QED BY <3>1, <3>2
  <2>6. ASSUME NEW v \in Clients \ {c}, Listens(v)
        PROVE  \/ told'[v][c] = "nothing"
               \/ told'[v][c] = "in" /\ There(v, c)
               \/ told'[v][c] = "out" /\ ~There(v, c)
               \/ /\ told'[v][c] = told[v][c]
                  /\ \A t \in Announcements(c) : Brings(v, t) =>
                        \E t2 \in Announcements(c)' : t2.kind = t.kind /\ Brings(v, t2)
    <3>1. CASE v = m /\ told'[m][c] = task.kind /\ roomKey[m] = made[task.room]
      BY <1>7, <2>2, <3>1 DEF SaysSo, There, IsNews
    <3>2. CASE v # m \/ roomKey[m] # made[task.room]
      <4>1. ASSUME NEW t \in Announcements(c), Brings(v, t)
            PROVE  \E t2 \in Announcements(c)' : t2.kind = t.kind /\ Brings(v, t2)
        <5>1. CASE t = task
          <6>1. v # m /\ v \in task.to /\ made[task.room] = roomKey[v]
            BY <1>1, <3>2, <4>1, <5>1 DEF Brings
          <6>2. new = <<x>> /\ Brings(v, x)
            BY <1>3, <6>1 DEF Brings
          <6> QED BY <1>3, <2>1, <5>1, <6>2
        <5>2. CASE t # task
          BY <2>1, <4>1, <5>2
        <5> QED BY <5>1, <5>2
      <4>2. CASE v # m
        BY <2>5, <4>1, <4>2
      <4>3. CASE v = m
        BY <2>5, <3>2, <4>1, <4>3
      <4> QED BY <4>2, <4>3
    <3>3. CASE v = m /\ told'[m][c] = "nothing"
      BY <3>3
    <3> QED BY <2>5, <2>6, <3>1, <3>2, <3>3 DEF Listens
  <2>7. told'[c][c] = told[c][c]
    BY <2>2, <2>5
  <2> QED BY <1>1, <2>4, <2>6, <2>7, ToldTalks
<1> QED BY <1>6, <1>7

LEMMA ToldTalk ==
    ASSUME TalkInv, NEW d \in Clients, NEW g \in Goroutines, Talk(d, g),
           NEW c \in Clients, ToldOf(c)
    PROVE  ToldOf(c)'
<1>1. UNCHANGED vars
  BY TalkIsStutter
<1>2. CASE c = d /\ (ShowTopic(d, g) \/ ShowHistory(d, g) \/ Store(d, g))
  <2>1. /\ talk[d][g] # <<>> /\ Then(d, g, <<>>) /\ UNCHANGED <<vars, told>>
        /\ Head(talk[d][g]).do \in {"topic", "history", "store"}
    BY <1>2 DEF ShowTopic, ShowHistory, Store, Doing
  <2>2. ~IsNews(Head(talk[d][g]))
    BY <2>1 DEF IsNews
  <2> QED BY <1>2, <2>1, <2>2, ToldMeanwhile
<1>3. CASE c = d /\ (Snapshot(d, g) \/ Deliver(d, g))
  BY <1>3, ToldSnapshot, ToldDeliver
<1>4. CASE c # d
  <2>1. /\ \A h \in Goroutines : talk'[c][h] = talk[c][h]
        /\ \A v \in Clients : told'[v][c] = told[v][c]
    <3>1. talk \in [Clients -> [Goroutines -> Seq(Tasked)]]
          /\ told \in [Clients -> [Clients -> {"nothing", "in", "out"}]]
      BY DEF TalkInv, DeliveryTypeOK
    <3>2. \E q : talk' = [talk EXCEPT ![d][g] = q]
      BY DEF Talk, ShowTopic, ShowHistory, Store, Snapshot, Deliver, Then
    <3>3. UNCHANGED told \/ \E m, said : told' = [told EXCEPT ![m][d] = said]
      BY DEF Talk, ShowTopic, ShowHistory, Store, Snapshot, Deliver
    <3>4. \A h \in Goroutines : talk'[c][h] = talk[c][h]
      BY <1>4, <3>1, <3>2
    <3>5. ASSUME NEW m, NEW said, told' = [told EXCEPT ![m][d] = said], NEW v \in Clients
          PROVE  told'[v][c] = told[v][c]
      <4>1. told[v] \in [Clients -> {"nothing", "in", "out"}]
        BY <3>1
      <4>2. told'[v] = told[v] \/ told'[v] = [told[v] EXCEPT ![d] = said]
        BY <3>1, <3>5
      <4> QED BY <1>4, <4>1, <4>2
    <3> QED BY <3>3, <3>4, <3>5
  <2>2. Announcements(c)' = Announcements(c)
    BY <2>1 DEF Announcements, Tasks
  <2>3. \A v \in Clients : Listens(v)' <=> Listens(v)
    BY <1>1 DEF vars, clientVars, roomVars, Listens, RoomFor
  <2>4. UNCHANGED <<clients, roomKey, made, members>>
    BY <1>1 DEF vars, clientVars, roomVars
  <2> QED BY <2>1, <2>2, <2>3, <2>4, ToldKept
<1> QED BY <1>2, <1>3, <1>4 DEF Talk

LEMMA ClosedStays ==
    ASSUME TypeInv, [Next]_vars, NEW c \in Clients
    PROVE  /\ session[c] = "closed" => session'[c] = "closed"
           /\ session'[c] = "open" => session[c] = "open"
           /\ pc'[c] = "absent" => pc[c] = "absent" /\ roomKey'[c] = roomKey[c]
<1>1. CASE UNCHANGED vars
  BY <1>1 DEF vars, clientVars
<1>2. ASSUME NEW d \in Clients, JoinLobby(d) \/ \E k \in Keys : JoinRoom(d, k)
      PROVE  /\ UNCHANGED session
             /\ pc'[c] = "absent" => pc[c] = "absent" /\ roomKey'[c] = roomKey[c]
  <2>1. PICK k \in Keys : MoveClientRoom(d, k)
    BY <1>2, ChatAssumption DEF JoinLobby, JoinRoom
  <2>2. /\ \E to \in {"reading", "leaving"} : pc' = [pc EXCEPT ![d] = to]
        /\ UNCHANGED roomKey \/ roomKey' = [roomKey EXCEPT ![d] = k]
    BY <2>1 DEF MoveClientRoom
  <2>3. UNCHANGED session
    BY <1>2 DEF JoinLobby, JoinRoom
  <2> QED BY <2>2, <2>3 DEF TypeInv, TypeOK
<1>3. ASSUME NEW d \in Clients,
             \/ Connect(d) \/ CleanupCheck(d) \/ CleanupRoom(d) \/ SetName(d) \/ QuitDone(d)
             \/ Ended(d) \/ OtherCommand(d) \/ \E n \in Names : Nick(d, n)
      PROVE  /\ UNCHANGED <<session, roomKey>>
             /\ pc'[c] = "absent" => pc[c] = "absent"
  <2>1. UNCHANGED <<session, roomKey>>
    BY <1>3 DEF Connect, CleanupCheck, CleanupRoom, SetName, QuitDone, Ended, OtherCommand,
       Nick, clientVars
  <2>2. pc' = pc \/ \E to \in PCs \ {"absent"} : pc' = [pc EXCEPT ![d] = to]
    BY <1>3 DEF Connect, CleanupCheck, CleanupRoom, SetName, QuitDone, Ended, OtherCommand,
       Nick, Goto, PCs
  <2> QED BY <2>1, <2>2 DEF TypeInv, TypeOK
<1>4. ASSUME NEW d \in Clients, Quit(d) \/ EndOfInput(d) \/ Fail(d) \/ RemoveClient(d)
      PROVE  /\ UNCHANGED roomKey
             /\ pc'[c] = "absent" => pc[c] = "absent"
             /\ session[c] = "closed" => session'[c] = "closed"
             /\ session'[c] = "open" => session[c] = "open"
  <2>1. UNCHANGED roomKey
    BY <1>4 DEF Quit, EndOfInput, Fail, RemoveClient, clientVars
  <2>2. pc' = pc \/ \E to \in PCs \ {"absent"} : pc' = [pc EXCEPT ![d] = to]
    BY <1>4 DEF Quit, EndOfInput, Fail, RemoveClient, Goto, PCs
  <2>3. \/ session' = session
        \/ session' = [session EXCEPT ![d] = "closing"] /\ session[d] = "open"
        \/ session' = [session EXCEPT ![d] = "closed"]
    BY <1>4 DEF Quit, EndOfInput, Fail, RemoveClient, Shutdown, TypeInv, TypeOK
  <2> QED BY <2>1, <2>2, <2>3 DEF TypeInv, TypeOK
<1> QED BY <1>1, <1>2, <1>3, <1>4 DEF Next, Reader, Input

LEMMA CloserStep ==
    ASSUME TalkInv, CloserInv, [Next]_vars, [DeliveryNext]_deliveryVars
    PROVE  CloserInv'
<1>1. talk \in [Clients -> [Goroutines -> Seq(Tasked)]]
  BY DEF TalkInv, DeliveryTypeOK
<1>2. ASSUME NEW c \in Clients
      PROVE  \/ talk'[c]["closer"] = talk[c]["closer"]
             \/ talk[c]["closer"] # <<>>
             \/ session'[c] = "closed"
  <2>1. ASSUME NEW d \in Clients, NEW g \in Goroutines, Talk(d, g)
        PROVE  talk'[c]["closer"] = talk[c]["closer"] \/ talk[c]["closer"] # <<>>
    <3>1. talk[d][g] # <<>> /\ \E q : talk' = [talk EXCEPT ![d][g] = q]
      BY <2>1 DEF Talk, ShowTopic, ShowHistory, Store, Snapshot, Deliver, Then, Doing
    <3> QED BY <1>1, <3>1 DEF Goroutines
  <2>2. ASSUME NEW d \in Clients, RemoveAndTell(d)
        PROVE  talk'[c]["closer"] = talk[c]["closer"] \/ session'[c] = "closed"
    <3>1. UNCHANGED talk \/ \E q : talk' = [talk EXCEPT ![d]["closer"] = q]
      BY <2>2 DEF RemoveAndTell
    <3>2. session'[d] = "closed"
      BY <2>2 DEF RemoveAndTell, RemoveClient, TalkInv, TypeInv, TypeOK
    <3> QED BY <1>1, <3>1, <3>2 DEF Goroutines
  <2>3. ASSUME NEW d \in Clients, (\E k \in Keys : Enter(d, k)) \/ Post(d) \/ SetTopic(d)
        PROVE  talk'[c]["closer"] = talk[c]["closer"]
    <3>1. \E q : talk' = [talk EXCEPT ![d]["reader"] = q]
      BY <2>3 DEF Enter, Post, SetTopic, Say
    <3> QED BY <1>1, <3>1 DEF Goroutines
  <2>4. ASSUME NEW d \in Clients, Quietly(d) \/ FailQuietly(d)
        PROVE  talk'[c]["closer"] = talk[c]["closer"]
    BY <2>4 DEF Quietly, FailQuietly, talkVars
  <2>5. CASE UNCHANGED deliveryVars
    BY <2>5 DEF deliveryVars, talkVars
  <2> QED BY <2>1, <2>2, <2>3, <2>4, <2>5 DEF DeliveryNext, Act
<1> QED BY <1>2, ClosedStays DEF CloserInv, TalkInv

(* Who listens to the room of its key after somebody moved did so before, or *)
(* is the one who moved.                                                     *)
LEMMA MoveListens ==
    ASSUME TypeInv, RoomInv, NEW d \in Clients, NEW k \in Keys, MoveClientRoom(d, k),
           UNCHANGED session, NEW v \in Clients, v # d \/ roomKey[d] = k, Listens(v)'
    PROVE  /\ Listens(v) /\ roomKey'[v] = roomKey[v] /\ RoomFor(v)' = RoomFor(v)
           /\ \A o \in Objects : v \in members[o] => v \in members'[o]
<1> DEFINE fresh == attached[k] = 0
           room  == IF fresh THEN Len(made) + 1 ELSE attached[k]
           prev  == IF roomKey[d] = NoKey THEN 0 ELSE attached[roomKey[d]]
<1>1. /\ made \in Seq(Keys) /\ Len(made) \in 0 .. MaxRooms /\ MaxRooms \in Nat
      /\ attached \in [Keys -> 0 .. Len(made)]
      /\ members \in [Objects -> SUBSET Clients]
      /\ roomKey \in [Clients -> Keys \cup {NoKey}]
  BY ChatAssumption DEF TypeInv, TypeOK
<1>2. /\ fresh => Len(made) < MaxRooms
      /\ attached' = [attached EXCEPT ![k] = room]
      /\ IF roomKey[d] = k THEN UNCHANGED <<members, roomKey>>
         ELSE /\ roomKey' = [roomKey EXCEPT ![d] = k]
              /\ members' = [o \in Objects |-> IF o = room THEN members[o] \cup {d}
                                              ELSE IF o = prev THEN members[o] \ {d}
                                              ELSE members[o]]
  BY DEF MoveClientRoom
<1>3. room \in Objects
  BY <1>1, <1>2 DEF Objects
<1> HIDE DEF prev
<1>4. roomKey'[v] = roomKey[v]
  BY <1>1, <1>2
<1>5. \A o \in Objects : (v \in members'[o] <=> v \in members[o])
  BY <1>1, <1>2
<1>6. roomKey[v] \in Keys /\ attached'[roomKey[v]] # 0 /\ v \in members'[attached'[roomKey[v]]]
  BY <1>1, <1>4 DEF Listens, RoomFor
<1>7. attached'[roomKey[v]] \in Objects
  BY <1>1, <1>2, <1>3, <1>6 DEF Objects
<1>8. v \in members[attached'[roomKey[v]]]
  BY <1>5, <1>6, <1>7
<1>9. fresh => members[room] = {}
  BY <1>1, <1>3 DEF RoomInv
<1>10. attached'[roomKey[v]] = attached[roomKey[v]]
  BY <1>1, <1>2, <1>6, <1>8, <1>9
<1> QED
  BY <1>1, <1>4, <1>5, <1>6, <1>8, <1>10, ChatAssumption DEF Listens, RoomFor

(* A client that acts and is not torn down has nothing else to announce. *)
LEMMA SilentActor ==
    ASSUME TalkInv, CloserInv, NEW c \in Clients, Idle(c), session[c] # "closed"
    PROVE  Announcements(c) = {} /\ \A g \in Goroutines : talk[c][g] = <<>>
<1>1. \A g \in Goroutines : talk[c][g] = <<>>
  BY DEF CloserInv, Idle, Goroutines
<1> QED BY <1>1 DEF Announcements, Tasks

(* Moving to another room is announced to both. *)
LEMMA ToldMover ==
    ASSUME TalkInv, RoomInv, LifeInv, CloserInv, [Next]_vars, NEW c \in Clients, NEW k \in Keys,
           Enter(c, k), roomKey[c] # k, ToldOf(c), c \notin torn'
    PROVE  ToldOf(c)'
<1> DEFINE r == attached'[k]
           a == Task("topic", "", r, 0)
           b == Task("history", "", r, 0)
           i == Broadcast("in", r, 0)
           o == Broadcast("out", left'[c], 0)
           q == EnterTasks(c, k)
<1>1. /\ Idle(c) /\ (JoinLobby(c) \/ JoinRoom(c, k)) /\ MoveClientRoom(c, k)
      /\ talk' = [talk EXCEPT ![c]["reader"] = q]
      /\ told' = [told EXCEPT ![c] = [d \in Clients |-> "nothing"]]
      /\ UNCHANGED <<session, clients>>
  BY DEF Enter, JoinLobby, JoinRoom
<1>2. /\ made \in Seq(Keys) /\ Len(made) \in 0 .. MaxRooms /\ MaxRooms \in Nat
      /\ attached \in [Keys -> 0 .. Len(made)]
      /\ members \in [Objects -> SUBSET Clients]
      /\ roomKey \in [Clients -> Keys \cup {NoKey}]
      /\ talk \in [Clients -> [Goroutines -> Seq(Tasked)]]
      /\ told \in [Clients -> [Clients -> {"nothing", "in", "out"}]]
      /\ left \in [Clients -> 0 .. Len(made)]
  BY ChatAssumption DEF TalkInv, TypeInv, TypeOK, DeliveryTypeOK
<1>3. session[c] # "closed" /\ pc[c] \in {"lobby", "reading"}
  BY <1>1, TornGrows DEF JoinLobby, JoinRoom, Command
<1>4. c \in clients
  BY <1>3 DEF LifeInv
<1>5. Announcements(c) = {} /\ \A g \in Goroutines : talk[c][g] = <<>>
  BY <1>1, <1>3, SilentActor
<1>6. \A v \in Clients \ {c} : Listens(v) =>
        /\ told[v][c] = "in"  => There(v, c)
        /\ told[v][c] = "out" => ~There(v, c)
  BY <1>5 DEF ToldOf, Awaits
<1>7. /\ roomKey' = [roomKey EXCEPT ![c] = k]
      /\ left'[c] = RoomFor(c)
      /\ made' = IF attached[k] = 0 THEN Append(made, k) ELSE made
      /\ attached'[k] = IF attached[k] = 0 THEN Len(made) + 1 ELSE attached[k]
  BY <1>1, <1>2 DEF MoveClientRoom, RoomFor
<1>8. \A n \in 1 .. Len(made) : made'[n] = made[n]
  BY <1>2, <1>7
<1>9. made'[r] = k
  BY <1>2, <1>7 DEF RoomInv, OneRoom
<1>10. left'[c] # 0 => left'[c] \in 1 .. Len(made) /\ made'[left'[c]] = roomKey[c]
  <2>1. ASSUME left'[c] # 0
        PROVE  /\ roomKey[c] \in Keys /\ left'[c] = attached[roomKey[c]]
               /\ attached[roomKey[c]] \in 1 .. Len(made)
    BY <1>2, <1>7, <2>1 DEF RoomFor
  <2> QED BY <1>8, <2>1 DEF RoomInv, OneRoom
<1>11. talk'[c]["reader"] = q /\ talk'[c]["closer"] = <<>>
  BY <1>1, <1>2, <1>5 DEF Goroutines
<1>12. q = <<a, b, i>> \o (IF left'[c] = 0 THEN <<>> ELSE <<o>>)
  BY DEF EnterTasks
<1> HIDE DEF q
<1>13. Announcements(c)' = IF left'[c] = 0 THEN {i} ELSE {i, o}
  <2>0. /\ ~IsNews(a) /\ ~IsNews(b) /\ IsNews(i) /\ IsNews(o)
    BY DEF IsNews, Task, Broadcast
  <2> HIDE DEF a, b, i, o
  <2>1. {q[n] : n \in DOMAIN q} = IF left'[c] = 0 THEN {a, b, i} ELSE {a, b, i, o}
    <3>1. CASE left'[c] = 0
      <4>1. q = <<a, b, i>>
        BY <1>12, <3>1, Concat
      <4>2. DOMAIN q = 1 .. 3 /\ q[1] = a /\ q[2] = b /\ q[3] = i
        BY <4>1
      <4>3. 1 .. 3 = {1, 2, 3}
        OBVIOUS
      <4> QED BY <3>1, <4>2, <4>3
    <3>2. CASE left'[c] # 0
      <4> DEFINE S == {a, b, i, o}
      <4>1. q = <<a, b, i>> \o <<o>>
        BY <1>12, <3>2
      <4>2. q \in Seq(S) /\ Len(q) = 4 /\ q[1] = a /\ q[2] = b /\ q[3] = i /\ q[4] = o
        BY <4>1, ConcatOne
      <4>3. DOMAIN q = 1 .. 4 /\ 1 .. 4 = {1, 2, 3, 4}
        BY <4>2
      <4> QED BY <3>2, <4>2, <4>3
    <3> QED BY <3>1, <3>2
  <2>2. Tasks(c, "reader")' = {q[n] : n \in DOMAIN q} /\ Tasks(c, "closer")' = {}
    BY <1>11 DEF Tasks
  <2>3. (UNION {Tasks(c, g) : g \in Goroutines})' = {q[n] : n \in DOMAIN q}
    BY <2>2 DEF Goroutines
  <2>4. Announcements(c)' = {task \in {q[n] : n \in DOMAIN q} : IsNews(task)}
    BY <2>3 DEF Announcements, IsNews
  <2> QED BY <2>0, <2>1, <2>4
<1>14. /\ i.kind = "in" /\ i.do = "snapshot" /\ i.room = r /\ i.to = {}
       /\ o.kind = "out" /\ o.do = "snapshot" /\ o.room = left'[c] /\ o.to = {}
  BY DEF Broadcast, Task
<1> HIDE DEF a, b, i, o
<1>15. ASSUME NEW task \in Announcements(c)'
       PROVE  SaysSo(c, task)'
  BY <1>1, <1>2, <1>4, <1>7, <1>9, <1>10, <1>13, <1>14, <1>15 DEF SaysSo
<1>16. told'[c][c] = "nothing" /\ \A v \in Clients \ {c} : told'[v][c] = told[v][c]
  BY <1>1, <1>2
<1>17. ASSUME NEW v \in Clients \ {c}, Listens(v)'
       PROVE  /\ told'[v][c] = "in"  => There(v, c)' \/ Awaits(v, c, "out")'
              /\ told'[v][c] = "out" => ~There(v, c)' \/ Awaits(v, c, "in")'
  <2>1. /\ Listens(v) /\ roomKey'[v] = roomKey[v] /\ RoomFor(v)' = RoomFor(v)
        /\ \A x \in Objects : v \in members[x] => v \in members'[x]
    BY <1>1, <1>17, MoveListens DEF TalkInv
  <2>2. ASSUME told'[v][c] = "in"
        PROVE  Awaits(v, c, "out")'
    <3>1. There(v, c)
      BY <1>6, <1>16, <2>1, <2>2
    <3>2. RoomFor(v) = left'[c] /\ left'[c] # 0
      BY <1>7, <2>1, <3>1 DEF There, RoomFor, Listens
    <3>3. v \in members'[left'[c]]
      <4>1. left'[c] \in Objects
        BY <1>2, <1>10, <3>2 DEF Objects
      <4> QED BY <2>1, <3>2, <4>1 DEF Listens
    <3>4. made'[left'[c]] = roomKey'[v]
      BY <1>10, <2>1, <3>1, <3>2 DEF There
    <3>5. o \in Announcements(c)'
      BY <1>13, <3>2
    <3>6. PICK t \in Announcements(c)' : t.kind = "out" /\ t.do = "snapshot" /\ t.room = left'[c]
      BY <1>14, <3>5
    <3> QED BY <3>3, <3>4, <3>6 DEF Awaits, Brings
  <2>3. ASSUME told'[v][c] = "out", There(v, c)'
        PROVE  Awaits(v, c, "in")'
    <3>1. roomKey[v] = k
      BY <1>2, <1>7, <2>1, <2>3 DEF There
    <3>2. r = RoomFor(v)' /\ r = RoomFor(v)
      BY <2>1, <3>1, ChatAssumption DEF RoomFor
    <3>3. v \in members'[r] /\ made'[r] = roomKey'[v]
      <4>1. r \in Objects
        BY <1>2, <1>17, <3>2 DEF Listens, RoomFor, Objects, TalkInv, TypeInv, TypeOK
      <4> QED BY <1>9, <2>1, <3>1, <3>2, <4>1 DEF Listens
    <3>4. i \in Announcements(c)'
      BY <1>13
    <3>5. PICK t \in Announcements(c)' : t.kind = "in" /\ t.do = "snapshot" /\ t.room = r
      BY <1>14, <3>4
    <3> QED BY <3>3, <3>5 DEF Awaits, Brings
  <2> QED BY <2>2, <2>3
<1> QED BY <1>15, <1>16, <1>17 DEF ToldOf

(* Somebody moves, or is in the room already: the others hear nothing yet. *)
LEMMA ToldEnter ==
    ASSUME TalkInv, RoomInv, NEW d \in Clients, NEW k \in Keys, Enter(d, k),
           NEW c \in Clients, ToldOf(c), c # d
    PROVE  ToldOf(c)'
<1>1. /\ MoveClientRoom(d, k) /\ UNCHANGED <<session, clients>>
      /\ talk' = [talk EXCEPT ![d]["reader"] = EnterTasks(d, k)]
      /\ told' = IF roomKey[d] = k THEN told
                 ELSE [told EXCEPT ![d] = [x \in Clients |-> "nothing"]]
  BY DEF Enter, JoinLobby, JoinRoom
<1>2. /\ made \in Seq(Keys) /\ roomKey \in [Clients -> Keys \cup {NoKey}]
      /\ talk \in [Clients -> [Goroutines -> Seq(Tasked)]]
      /\ told \in [Clients -> [Clients -> {"nothing", "in", "out"}]]
  BY DEF TalkInv, TypeInv, TypeOK, DeliveryTypeOK
<1>3. /\ made' = made \/ made' = Append(made, k)
      /\ roomKey' = roomKey \/ roomKey' = [roomKey EXCEPT ![d] = k]
  BY <1>1 DEF MoveClientRoom
<1>4. (\A n \in 1 .. Len(made) : made'[n] = made[n]) /\ roomKey'[c] = roomKey[c]
  <2>1. \A n \in 1 .. Len(made) : made'[n] = made[n]
    <3>1. made \in Seq(Keys) /\ (made' = made \/ made' = Append(made, k))
      BY <1>2, <1>3
    <3> QED BY <3>1
  <2>2. roomKey'[c] = roomKey[c]
    BY <1>2, <1>3
  <2> QED BY <2>1, <2>2
<1>5. talk'[c] = talk[c]
  BY <1>1, <1>2
<1>6. Announcements(c)' = Announcements(c)
  BY <1>5 DEF Announcements, Tasks
<1>7. ASSUME NEW v \in Clients \ {c}, Listens(v)', told'[v][c] # "nothing"
      PROVE  /\ Listens(v) /\ told'[v][c] = told[v][c] /\ roomKey'[v] = roomKey[v]
             /\ \A o \in Objects : v \in members[o] => v \in members'[o]
  <2>1. v # d \/ roomKey[d] = k
    BY <1>1, <1>2, <1>7
  <2>2. told'[v][c] = told[v][c]
    BY <1>1, <1>2, <2>1
  <2> QED BY <1>1, <1>7, <2>1, <2>2, MoveListens DEF TalkInv
<1>8. told'[c][c] = told[c][c]
  BY <1>1, <1>2
<1> QED BY <1>1, <1>4, <1>6, <1>7, <1>8, ToldKept

(* A client that is in the room already says nothing. *)
LEMMA ToldStays ==
    ASSUME TalkInv, RoomInv, CloserInv, [Next]_vars, NEW c \in Clients, NEW k \in Keys,
           Enter(c, k), roomKey[c] = k, ToldOf(c), c \notin torn'
    PROVE  ToldOf(c)'
<1>1. /\ Idle(c) /\ (JoinLobby(c) \/ JoinRoom(c, k)) /\ MoveClientRoom(c, k)
      /\ talk' = [talk EXCEPT ![c]["reader"] = <<>>] /\ UNCHANGED <<told, session, clients>>
  BY DEF Enter, JoinLobby, JoinRoom, EnterTasks
<1>2. UNCHANGED roomKey /\ made \in Seq(Keys) /\ (made' = made \/ made' = Append(made, k))
  BY <1>1 DEF MoveClientRoom, TalkInv, TypeInv, TypeOK
<1>3. \A n \in 1 .. Len(made) : made'[n] = made[n]
  BY <1>2
<1>4. talk \in [Clients -> [Goroutines -> Seq(Tasked)]]
  BY DEF TalkInv, DeliveryTypeOK
<1>5. \A g \in Goroutines : talk'[c][g] = talk[c][g]
  BY <1>1, <1>4 DEF Idle, Goroutines
<1>6. Announcements(c)' = Announcements(c)
  BY <1>5 DEF Announcements, Tasks
<1>7. \A v \in Clients : Listens(v)' =>
          Listens(v) /\ \A o \in Objects : v \in members[o] => v \in members'[o]
  BY <1>1, MoveListens DEF TalkInv
<1> QED BY <1>1, <1>2, <1>3, <1>6, <1>7, ToldKept

(* A client that is removed tells its room last of all. *)
LEMMA ToldRemoved ==
    ASSUME TalkInv, RoomInv, LifeInv, CloserInv, [Next]_vars, NEW c \in Clients,
           RemoveAndTell(c), ToldOf(c), c \notin torn', c \notin cut'
    PROVE  ToldOf(c)'
<1> DEFINE r == RoomFor(c)
           o == Broadcast("out", r, 0)
<1>1. /\ RemoveClient(c) /\ Idle(c) /\ UNCHANGED told
      /\ talk' = IF r = 0 THEN talk ELSE [talk EXCEPT ![c]["closer"] = <<o>>]
  BY DEF RemoveAndTell
<1>2. /\ session[c] = "closing" /\ clients' = clients \ {c} /\ UNCHANGED <<made, roomKey>>
      /\ session' = [session EXCEPT ![c] = "closed"]
      /\ members' = [x \in Objects |-> IF x = r THEN members[x] \ {c} ELSE members[x]]
      /\ attached' = attached \/ attached' = [attached EXCEPT ![roomKey[c]] = 0]
  BY <1>1 DEF RemoveClient, clientVars, RoomFor
<1>3. /\ talk \in [Clients -> [Goroutines -> Seq(Tasked)]]
      /\ attached \in [Keys -> 0 .. Len(made)] /\ Len(made) \in 0 .. MaxRooms /\ MaxRooms \in Nat
      /\ roomKey \in [Clients -> Keys \cup {NoKey}]
      /\ session \in [Clients -> {"open", "closing", "closed"}]
  BY ChatAssumption DEF TalkInv, DeliveryTypeOK, TypeInv, TypeOK
<1>4. Announcements(c) = {} /\ \A g \in Goroutines : talk[c][g] = <<>>
  BY <1>1, <1>2, SilentActor
<1>5. Announcements(c)' = IF r = 0 THEN {} ELSE {o}
  <2>0. IsNews(o)
    BY DEF IsNews, Broadcast, Task
  <2> HIDE DEF o
  <2>1. CASE r = 0
    BY <1>1, <1>4, <2>1 DEF Announcements, Tasks
  <2>2. CASE r # 0
    <3>1. talk'[c]["reader"] = <<>> /\ talk'[c]["closer"] = <<o>>
      BY <1>1, <1>3, <1>4, <2>2 DEF Goroutines
    <3>2. Tasks(c, "reader")' = {} /\ Tasks(c, "closer")' = {o}
      BY <3>1 DEF Tasks
    <3>3. (UNION {Tasks(c, g) : g \in Goroutines})' = {o}
      BY <3>2 DEF Goroutines
    <3> QED BY <2>0, <2>2, <3>3 DEF Announcements, IsNews
  <2> QED BY <2>1, <2>2
<1>6. o.kind = "out" /\ o.do = "snapshot" /\ o.room = r /\ o.to = {}
  BY DEF Broadcast, Task
<1> HIDE DEF o
<1>7. \A task \in Announcements(c)' : SaysSo(c, task)'
  BY <1>2, <1>5, <1>6 DEF SaysSo
<1>8. ASSUME NEW v \in Clients \ {c}, Listens(v)', told'[v][c] = "in"
      PROVE  Awaits(v, c, "out")'
  <2>1. RoomFor(v)' = RoomFor(v) /\ RoomFor(v) # 0 /\ RoomFor(v) \in Objects
    BY <1>2, <1>3, <1>8 DEF Listens, RoomFor, Objects
  <2>2. v \in members'[RoomFor(v)] /\ v \in members[RoomFor(v)]
    BY <1>2, <1>8, <2>1 DEF Listens
  <2>3. Listens(v)
    BY <1>2, <1>3, <1>8, <2>1, <2>2 DEF Listens
  <2>4. There(v, c)
    BY <1>1, <1>4, <1>8, <2>3 DEF ToldOf, Awaits
  <2>5. r = RoomFor(v)
    BY <2>4 DEF There, RoomFor
  <2>6. made[r] = roomKey[v]
    BY <1>3, <2>1, <2>5 DEF RoomInv, OneRoom, RoomFor
  <2>7. o \in Announcements(c)'
    BY <1>5, <2>1, <2>5
  <2>8. PICK t \in Announcements(c)' : t.kind = "out" /\ t.do = "snapshot" /\ t.room = r
    BY <1>6, <2>7
  <2>9. v \in members'[t.room] /\ made'[t.room] = roomKey'[v]
    BY <1>2, <2>2, <2>5, <2>6, <2>8
  <2> QED BY <2>8, <2>9 DEF Awaits, Brings
<1>9. ~(\E v : There(v, c)')
  BY <1>2 DEF There
<1> QED BY <1>1, <1>7, <1>8, <1>9 DEF ToldOf

(* What the others are told by a client does not change while it sees to     *)
(* something else, fails, connects or speaks.                                *)
LEMMA ToldAct ==
    ASSUME TalkInv, RoomInv, LifeInv, CloserInv, [Next]_vars, NEW d \in Clients,
           \/ Quietly(d) \/ FailQuietly(d) \/ RemoveAndTell(d) \/ Post(d) \/ SetTopic(d),
           NEW c \in Clients, ToldOf(c), c \notin torn', RemoveAndTell(d) => c # d
    PROVE  ToldOf(c)'
<1>1. /\ UNCHANGED <<told, made, roomKey>>
      /\ UNCHANGED members \/ (RemoveClient(d) /\ c # d)
  BY DEF Quietly, FailQuietly, RemoveAndTell, Post, SetTopic, Say, OtherCommand, Connect,
     CleanupCheck, CleanupRoom, SetName, Nick, Quit, EndOfInput, QuitDone, Ended, Fail,
     RemoveClient, roomVars, clientVars, talkVars
<1>2. /\ talk \in [Clients -> [Goroutines -> Seq(Tasked)]]
      /\ attached \in [Keys -> 0 .. Len(made)] /\ Len(made) \in 0 .. MaxRooms /\ MaxRooms \in Nat
      /\ members \in [Objects -> SUBSET Clients]
      /\ roomKey \in [Clients -> Keys \cup {NoKey}]
      /\ session \in [Clients -> {"open", "closing", "closed"}]
  BY ChatAssumption DEF TalkInv, DeliveryTypeOK, TypeInv, TypeOK
<1>3. \A k \in Keys : attached'[k] = attached[k] \/ attached'[k] = 0
  <2>1. attached' = attached \/ \E k : attached' = [attached EXCEPT ![k] = 0]
    BY DEF Quietly, FailQuietly, RemoveAndTell, Post, SetTopic, Say, OtherCommand, Connect,
       CleanupCheck, CleanupRoom, SetName, Nick, Quit, EndOfInput, QuitDone, Ended, Fail,
       RemoveClient, roomVars
  <2> QED BY <1>2, <2>1
<1>4. \A v \in Clients : session'[v] = "open" => session[v] = "open"
  BY ClosedStays DEF TalkInv
<1>5. \A v \in Clients, x \in Objects :
         /\ v \in members'[x] => v \in members[x]
         /\ v \in members[x] /\ session'[v] = "open" => v \in members'[x]
  <2>1. CASE UNCHANGED members
    BY <2>1
  <2>2. CASE RemoveClient(d)
    <3>1. session'[d] = "closed"
      BY <1>2, <2>2 DEF RemoveClient
    <3> QED BY <2>2, <3>1 DEF RemoveClient
  <2> QED BY <1>1, <2>1, <2>2
<1>6. ASSUME NEW v \in Clients \ {c}, Listens(v)'
      PROVE  Listens(v) /\ \A x \in Objects : v \in members[x] => v \in members'[x]
  <2>1. RoomFor(v)' = RoomFor(v) /\ RoomFor(v) \in Objects
    BY <1>1, <1>2, <1>3, <1>6 DEF Listens, RoomFor, Objects
  <2> QED BY <1>4, <1>5, <1>6, <2>1 DEF Listens
<1>7. Announcements(c)' = Announcements(c)
  <2>1. CASE c # d \/ UNCHANGED talk
    <3>1. UNCHANGED talk \/ \E g, q : talk' = [talk EXCEPT ![d][g] = q]
      BY DEF Quietly, FailQuietly, RemoveAndTell, Post, SetTopic, Say, talkVars
    <3>2. talk'[c] = talk[c]
      BY <1>2, <2>1, <3>1
    <3> QED BY <3>2 DEF Announcements, Tasks
  <2>2. CASE c = d /\ (Post(c) \/ SetTopic(c))
    <3>1. Idle(c) /\ session[c] # "closed"
      BY <2>2, TornGrows DEF Post, SetTopic, Say, OtherCommand
    <3>2. Announcements(c) = {} /\ \A g \in Goroutines : talk[c][g] = <<>>
      BY <3>1, SilentActor
    <3>3. \E kind \in {"line", "topic"} :
            talk' = [talk EXCEPT ![c]["reader"] =
                        <<Task("store", kind, RoomFor(c), texts + 1),
                          Broadcast(kind, RoomFor(c), texts + 1)>>]
      BY <2>2 DEF Post, SetTopic, Say
    <3>4. PICK kind \in {"line", "topic"} :
            talk' = [talk EXCEPT ![c]["reader"] =
                        <<Task("store", kind, RoomFor(c), texts + 1),
                          Broadcast(kind, RoomFor(c), texts + 1)>>]
      BY <3>3
    <3> DEFINE a == Task("store", kind, RoomFor(c), texts + 1)
               b == Broadcast(kind, RoomFor(c), texts + 1)
    <3>5. ~IsNews(a) /\ ~IsNews(b)
      BY DEF IsNews, Task, Broadcast
    <3> HIDE DEF a, b
    <3>6. talk'[c]["reader"] = <<a, b>> /\ talk'[c]["closer"] = <<>>
      BY <1>2, <3>2, <3>4 DEF a, b, Goroutines
    <3>7. Tasks(c, "reader")' = {a, b} /\ Tasks(c, "closer")' = {}
      BY <3>6 DEF Tasks
    <3>8. Announcements(c)' = {}
      BY <3>5, <3>7 DEF Announcements, IsNews, Goroutines
    <3> QED BY <3>2, <3>8
  <2> QED BY <2>1, <2>2 DEF Quietly, FailQuietly, talkVars
<1>8. CASE c \in clients' <=> c \in clients
  BY <1>1, <1>6, <1>7, <1>8, ToldKept
<1>9. CASE ~(c \in clients' <=> c \in clients)
  <2>1. Connect(d) /\ c = d
    BY <1>9 DEF Quietly, FailQuietly, RemoveAndTell, Post, SetTopic, Say, OtherCommand, Connect,
       CleanupCheck, CleanupRoom, SetName, Nick, Quit, EndOfInput, QuitDone, Ended, Fail,
       RemoveClient
  <2>2. roomKey[c] = NoKey /\ session[c] = "open" /\ Idle(c)
    <3>1. pc[c] = "absent"
      BY <2>1 DEF Connect, Goto
    <3>2. Idle(c)
      BY <2>1, <3>1 DEF Quietly, FailQuietly, RemoveAndTell, Post, SetTopic, Say, OtherCommand,
         Command, Connect, Fail, RemoveClient, LifeInv
    <3> QED BY <3>1, <3>2 DEF CloserInv, LifeInv
  <2>3. Announcements(c) = {}
    BY <2>2, SilentActor
  <2>4. ASSUME NEW v \in Clients \ {c}, Listens(v)'
        PROVE  ~There(v, c) /\ ~There(v, c)' /\ Listens(v)
    <3>1. roomKey[v] # NoKey
      BY <1>1, <1>4, <1>6, <2>4 DEF Listens, RoomFor
    <3> QED BY <1>1, <1>6, <2>2, <2>4, <3>1 DEF There
  <2> QED BY <1>1, <1>7, <2>3, <2>4 DEF ToldOf, Awaits
<1> QED BY <1>8, <1>9

LEMMA ToldStep ==
    ASSUME TalkInv, RoomInv, LifeInv, ToldInv, [Next]_vars, [DeliveryNext]_deliveryVars
    PROVE  ToldInv'
<1>1. CloserInv'
  BY CloserStep DEF ToldInv
<1>2. torn \subseteq torn' /\ cut \subseteq cut'
  <2>1. cut \subseteq cut'
    <3>1. CASE UNCHANGED deliveryVars
      BY <3>1 DEF deliveryVars, talkVars
    <3>2. ASSUME NEW c \in Clients, Act(c)
          PROVE  cut \subseteq cut'
      <4>1. UNCHANGED cut \/ RemoveAndTell(c)
        BY <3>2 DEF Act, Enter, Quietly, FailQuietly, Post, SetTopic, Say, talkVars
      <4>2. RemoveAndTell(c) => cut \subseteq cut'
        BY DEF RemoveAndTell
      <4> QED BY <4>1, <4>2
    <3>3. ASSUME NEW c \in Clients, NEW g \in Goroutines, Talk(c, g)
          PROVE  cut \subseteq cut'
      <4>1. UNCHANGED cut
        BY <3>3 DEF Talk, ShowTopic, ShowHistory, Store, Snapshot, Deliver
      <4> QED BY <4>1
    <3> QED BY <3>1, <3>2, <3>3 DEF DeliveryNext
  <2> QED BY <2>1, TornGrows
<1>3. ASSUME NEW c \in Clients \ (torn' \cup cut')
      PROVE  ToldOf(c)'
  <2>1. ToldOf(c) /\ CloserInv
    BY <1>2 DEF ToldInv
  <2>2. CASE UNCHANGED deliveryVars
    <3>1. UNCHANGED <<vars, talkVars>>
      BY <2>2 DEF deliveryVars
    <3>2. \A v, k : Awaits(v, c, k)' <=> Awaits(v, c, k)
      BY <3>1 DEF vars, talkVars, clientVars, roomVars, Awaits, Announcements, Tasks, Brings
    <3> QED
      BY <2>1, <3>1, <3>2 DEF vars, talkVars, clientVars, roomVars, ToldOf, Listens, RoomFor,
         There, Announcements, Tasks, SaysSo
  <2>3. ASSUME NEW d \in Clients, NEW k \in Keys, Enter(d, k)
        PROVE  ToldOf(c)'
    <3>1. CASE c # d
      BY <2>1, <2>3, <3>1, ToldEnter
    <3>2. CASE c = d /\ roomKey[c] # k
      BY <1>2, <2>1, <2>3, <3>2, ToldMover
    <3>3. CASE c = d /\ roomKey[c] = k
      BY <1>2, <2>1, <2>3, <3>3, ToldStays
    <3> QED BY <3>1, <3>2, <3>3
  <2>4. ASSUME NEW d \in Clients, NEW g \in Goroutines, Talk(d, g)
        PROVE  ToldOf(c)'
    BY <2>1, <2>4, ToldTalk
  <2>5. ASSUME NEW d \in Clients,
               Quietly(d) \/ FailQuietly(d) \/ RemoveAndTell(d) \/ Post(d) \/ SetTopic(d)
        PROVE  ToldOf(c)'
    <3>1. CASE RemoveAndTell(d) /\ c = d
      BY <2>1, <3>1, ToldRemoved
    <3>2. CASE ~(RemoveAndTell(d) /\ c = d)
      BY <2>1, <2>5, <3>2, ToldAct
    <3> QED BY <3>1, <3>2
  <2> QED BY <2>2, <2>3, <2>4, <2>5 DEF DeliveryNext, Act
<1> QED BY <1>1, <1>3 DEF ToldInv

(* Whoever is quiet has told everyone in its room where it is: what a member  *)
(* heard last of another, that it came in or that it left, is so, however the *)
(* two announcements of a move and those of others interleave.                *)
THEOREM DeliveryAnnouncedIsSo == DeliverySpec => []AnnouncedIsSo
<1>1. DeliveryInit => ToldInv
  <2> SUFFICES ASSUME DeliveryInit PROVE ToldInv
    OBVIOUS
  <2>1. \A c \in Clients : Announcements(c) = {}
    BY DEF DeliveryInit, Announcements, Tasks
  <2> QED BY <2>1 DEF DeliveryInit, Init, ToldInv, CloserInv, ToldOf, Goroutines
<1>2. TalkInv /\ RoomInv /\ LifeInv /\ ToldInv /\ [Next]_vars /\ [DeliveryNext]_deliveryVars
        => ToldInv'
  BY ToldStep
<1>3. ToldInv => AnnouncedIsSo
  <2> SUFFICES ASSUME ToldInv, NEW v \in Clients, NEW c \in Clients, Listens(v),
                      talk[c] = [g \in Goroutines |-> <<>>], c \notin torn \cup cut
               PROVE  /\ told[v][c] = "in"  => There(v, c)
                      /\ told[v][c] = "out" => ~There(v, c)
    BY DEF AnnouncedIsSo, Listens, There
  <2>1. Announcements(c) = {}
    BY DEF Announcements, Tasks
  <2>2. ToldOf(c)
    BY DEF ToldInv
  <2> QED BY <2>1, <2>2 DEF ToldOf, Awaits
<1>4. Spec => [][Next]_vars
  BY PTL DEF Spec
<1> QED
  BY <1>1, <1>2, <1>3, <1>4, TalkInvCorrect, DeliveryImplementsServer, RoomCorrect, LifeCorrect,
     PTL DEF DeliverySpec
=============================================================================
