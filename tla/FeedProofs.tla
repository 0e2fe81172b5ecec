----------------------------- MODULE FeedProofs -----------------------------
(***************************************************************************)
(* What the feed gives its readers: every message at most once, room        *)
(* messages in one order for all and in each sender's own order, a direct    *)
(* message to its two users only. All of it rests on one fact: of a message  *)
(* and a destination there is one copy, and it is in one place.              *)
(***************************************************************************)
EXTENDS Feed, SequenceTheorems, TLAPS

Events == [type : {"message"}, id : Nat] \cup [type : {"typing"}, user : Users] \cup Notices

Pieces == [dest : Dests, event : Events, exclude : Conns \cup {NoConn}]

TypeOK ==
    /\ stored    \in Seq([sender : Conns, dest : Dests])
    /\ outbox    \in [Conns -> Seq(Pieces)]
    /\ queue     \in Seq(Pieces)
    /\ listeners \in [Dests -> SUBSET Conns]
    /\ log       \in [Conns -> Seq(Events)]

(* Where the copies of a stored message go. *)
GoesTo(id, dest) ==
    \/ dest = stored[id].dest
    \/ stored[id].dest[1] = "user" /\ dest = <<"user", UserOf[stored[id].sender]>>

(* The connection may be among those who listen to the destination. *)
Reaches(dest, c) == dest[1] = "room" \/ dest = <<"user", UserOf[c]>>

(* What is under way is a stored message on its way to where it belongs. *)
Traced(q) == q.event.type = "message" =>
    /\ q.event.id \in 1 .. Len(stored)
    /\ GoesTo(q.event.id, q.dest)

Newest(c, id) == \A n \in 1 .. Len(stored) : stored[n].sender = c => n <= id

OwnListeners == \A u \in Users : \A c \in listeners[<<"user", u>>] : UserOf[c] = u

Routing ==
    /\ OwnListeners
    /\ \A k \in 1 .. Len(queue) : Traced(queue[k])
    /\ \A c \in Conns : \A i \in 1 .. Len(outbox[c]) :
          LET q == outbox[c][i]
          IN /\ q.event.type = "message" /\ Traced(q)
             /\ stored[q.event.id].sender = c /\ Newest(c, q.event.id)
    /\ \A c \in Conns : \A i \in 1 .. Len(log[c]) : log[c][i].type = "message" =>
          /\ log[c][i].id \in 1 .. Len(stored)
          /\ \E dest \in Dests : GoesTo(log[c][i].id, dest) /\ Reaches(dest, c)

(* Two copies of one message to one destination. *)
Twin(q, r) ==
    /\ q.event.type = "message" /\ q.event = r.event /\ q.dest = r.dest
    /\ ~ToSelf(q.event.id)

(* The copy is of an event the connection has been given already. *)
Again(e, q, c) ==
    /\ q.event.type = "message" /\ q.event = e /\ Reaches(q.dest, c)
    /\ ~ToSelf(q.event.id)

Single ==
    /\ \A i, j \in 1 .. Len(queue) : i # j => ~Twin(queue[i], queue[j])
    /\ \A c \in Conns :
        /\ \A i, j \in 1 .. Len(outbox[c]) : i # j => ~Twin(outbox[c][i], outbox[c][j])
        /\ \A i \in 1 .. Len(outbox[c]), j \in 1 .. Len(queue) : ~Twin(outbox[c][i], queue[j])
        /\ \A i \in 1 .. Len(log[c]), j \in 1 .. Len(queue) : ~Again(log[c][i], queue[j], c)
        /\ \A d \in Conns : \A i \in 1 .. Len(log[c]), j \in 1 .. Len(outbox[d]) :
              ~Again(log[c][i], outbox[d][j], c)
    /\ AtMostOnce

(* Room messages of one sender are sorted all the way to the reader. *)
Sorted ==
    /\ \A i, j \in 1 .. Len(queue) : i < j => InOrder(queue[i].event, queue[j].event)
    /\ \A c \in Conns : \A i \in 1 .. Len(log[c]), j \in 1 .. Len(queue) :
          InOrder(log[c][i], queue[j].event)
    /\ SenderOrder

FeedInv == TypeOK /\ Routing /\ Single /\ Sorted /\ SameOrder

-----------------------------------------------------------------------------
(* Steps in terms of what they do to the sequences. *)

LEMMA DestPair ==
    ASSUME NEW d \in Dests
    PROVE  /\ d[1] \in {"room", "user"}
           /\ d[1] = "user" => d = <<"user", d[2]>> /\ d[2] \in Users
BY DEF Dests

LEMMA AppendAt ==
    ASSUME NEW S, NEW s \in Seq(S), NEW e \in S
    PROVE  /\ Append(s, e) \in Seq(S)
           /\ Len(Append(s, e)) = Len(s) + 1
           /\ Len(s) \in Nat
           /\ \A i \in 1 .. Len(s) + 1 :
                 Append(s, e)[i] = IF i = Len(s) + 1 THEN e ELSE s[i]
OBVIOUS

LEMMA TailAt ==
    ASSUME NEW S, NEW s \in Seq(S), s # <<>>
    PROVE  /\ Tail(s) \in Seq(S)
           /\ Len(s) \in Nat \ {0}
           /\ Len(Tail(s)) = Len(s) - 1
           /\ \A i \in 1 .. Len(s) - 1 : Tail(s)[i] = s[i + 1]
           /\ Head(s) = s[1] /\ Head(s) \in S
OBVIOUS

LEMMA RemoveAtAt ==
    ASSUME NEW S, NEW s \in Seq(S), NEW i \in 1 .. Len(s)
    PROVE  /\ RemoveAt(s, i) \in Seq(S)
           /\ Len(RemoveAt(s, i)) = Len(s) - 1
           /\ \A k \in 1 .. Len(s) - 1 :
                 RemoveAt(s, i)[k] = IF k < i THEN s[k] ELSE s[k + 1]
<1> DEFINE u == SubSeq(s, 1, i - 1)
           v == SubSeq(s, i + 1, Len(s))
<1>1. /\ Len(s) \in Nat
      /\ \A k \in 1 .. Len(s) : s[k] \in S
  OBVIOUS
<1>2. /\ u \in Seq(S) /\ Len(u) = i - 1
      /\ \A k \in 1 .. i - 1 : u[k] = s[k]
  BY <1>1
<1>3. /\ v \in Seq(S) /\ Len(v) = Len(s) - i
      /\ \A k \in 1 .. Len(s) - i : v[k] = s[k + i]
  BY <1>1
<1> HIDE DEF u, v
<1>4. /\ u \o v \in Seq(S) /\ Len(u \o v) = Len(s) - 1
      /\ \A k \in 1 .. Len(s) - 1 : (u \o v)[k] = IF k < i THEN u[k] ELSE v[k - (i - 1)]
  <2>1. /\ u \o v \in Seq(S) /\ Len(u \o v) = Len(u) + Len(v)
        /\ \A k \in 1 .. Len(u) + Len(v) :
              (u \o v)[k] = IF k <= Len(u) THEN u[k] ELSE v[k - Len(u)]
    BY <1>2, <1>3, ConcatProperties
  <2> QED BY <1>1, <1>2, <1>3, <2>1
<1>5. \A k \in 1 .. Len(s) - 1 : (u \o v)[k] = IF k < i THEN s[k] ELSE s[k + 1]
  <2> TAKE k \in 1 .. Len(s) - 1
  <2>1. CASE k < i
    BY <1>1, <1>2, <1>4, <2>1
  <2>2. CASE ~(k < i)
    <3>1. k - (i - 1) \in 1 .. Len(s) - i
      BY <1>1, <2>2
    <3>2. v[k - (i - 1)] = s[k + 1]
      BY <1>1, <1>3, <3>1
    <3>3. (u \o v)[k] = v[k - (i - 1)]
      BY <1>4, <2>2
    <3> QED BY <2>2, <3>2, <3>3
  <2> QED BY <2>1, <2>2
<1>6. RemoveAt(s, i) = u \o v
  BY DEF RemoveAt, u, v
<1> QED BY <1>4, <1>5, <1>6

(* Giving an event makes it the last one of those who get it. *)
LEMMA GiveAt ==
    ASSUME TypeOK, NEW to \in SUBSET Conns, NEW e \in Events, Give(to, e)
    PROVE  /\ log' \in [Conns -> Seq(Events)]
           /\ \A c \in Conns :
                 /\ Len(log[c]) \in Nat
                 /\ c \in to => Len(log'[c]) = Len(log[c]) + 1 /\ log'[c][Len(log[c]) + 1] = e
                 /\ c \notin to => log'[c] = log[c]
                 /\ \A i \in 1 .. Len(log[c]) : log'[c][i] = log[c][i]
<1>1. ASSUME NEW c \in Conns
      PROVE  /\ log[c] \in Seq(Events)
             /\ log'[c] = IF c \in to THEN Append(log[c], e) ELSE log[c]
  BY DEF TypeOK, Give
<1> QED BY <1>1, AppendAt DEF Give

-----------------------------------------------------------------------------
(* Types. *)

LEMMA CopyTypes ==
    ASSUME UserOf \in [Conns -> Users]
    PROVE  /\ \A n \in Nat : Message(n) \in Events
           /\ \A u \in Users : Typing(u) \in Events
           /\ \A c \in Conns : <<"user", UserOf[c]>> \in Dests
           /\ \A e \in Events, dest \in Dests, c \in Conns \cup {NoConn} : Copy(e, dest, c) \in Pieces
BY DEF Message, Typing, Events, Dests, Copy, Pieces

LEMMA CopiesAt ==
    ASSUME UserOf \in [Conns -> Users], NEW c \in Conns, NEW dest \in Dests, NEW n \in Nat
    PROVE  /\ Copies(c, dest, n) \in Seq(Pieces)
           /\ Len(Copies(c, dest, n)) = IF dest[1] = "user" THEN 2 ELSE 1
           /\ Copies(c, dest, n)[1] = Copy(Message(n), dest, NoConn)
           /\ dest[1] = "user" =>
                 Copies(c, dest, n)[2] = Copy(Message(n), <<"user", UserOf[c]>>, NoConn)
<1> DEFINE first == Copy(Message(n), dest, NoConn)
           second == Copy(Message(n), <<"user", UserOf[c]>>, NoConn)
<1>1. first \in Pieces /\ second \in Pieces
  BY CopyTypes
<1>2. Copies(c, dest, n) = IF dest[1] = "user" THEN <<first, second>> ELSE <<first>>
  BY DEF Copies
<1> HIDE DEF first, second
<1>3. <<first>> \in Seq(Pieces) /\ <<first, second>> \in Seq(Pieces)
  BY <1>1
<1>4. /\ Copies(c, dest, n) \in Seq(Pieces)
      /\ Len(Copies(c, dest, n)) = IF dest[1] = "user" THEN 2 ELSE 1
      /\ Copies(c, dest, n)[1] = first
      /\ dest[1] = "user" => Copies(c, dest, n)[2] = second
  BY <1>2, <1>3
<1> QED BY <1>4 DEF first, second

LEMMA TypeInit == Init => TypeOK
BY DEF Init, TypeOK

LEMMA TypeStep ==
    ASSUME UserOf \in [Conns -> Users], TypeOK, [Next]_vars
    PROVE  TypeOK'
<1>1. ASSUME NEW c \in Conns, NEW dest \in Dests, Post(c, dest)
      PROVE  TypeOK'
  <2>1. Len(stored) + 1 \in Nat
    BY DEF TypeOK
  <2>2. Copies(c, dest, Len(stored) + 1) \in Seq(Pieces)
    BY <2>1, CopiesAt
  <2> QED BY <1>1, <2>2 DEF Post, TypeOK
<1>2. ASSUME NEW c \in Conns, NEW dest \in Dests, Whisper(c, dest)
      PROVE  TypeOK'
  <2>1. Copy(Typing(UserOf[c]), dest, c) \in Pieces
    BY CopyTypes
  <2> QED BY <1>2, <2>1 DEF Whisper, TypeOK
<1>3. ASSUME NEW c \in Conns, Publish(c)
      PROVE  TypeOK'
  <2>1. Head(outbox[c]) \in Pieces /\ Tail(outbox[c]) \in Seq(Pieces)
    BY <1>3, TailAt DEF Publish, TypeOK
  <2> QED BY <1>3, <2>1 DEF Publish, TypeOK
<1>4. ASSUME NEW c \in Conns, Lose(c)
      PROVE  TypeOK'
  <2>1. PICK i \in 1 .. Len(log[c]) : log' = [log EXCEPT ![c] = RemoveAt(@, i)]
    BY <1>4 DEF Lose
  <2>2. log[c] \in Seq(Events)
    BY DEF TypeOK
  <2>3. RemoveAt(log[c], i) \in Seq(Events)
    BY <2>2, RemoveAtAt
  <2> QED BY <1>4, <2>1, <2>3 DEF Lose, TypeOK
<1>5. CASE Relay
  <2>1. Head(queue) \in Pieces /\ Tail(queue) \in Seq(Pieces)
    BY <1>5, TailAt DEF Relay, TypeOK
  <2>2. Head(queue).event \in Events /\ listeners[Head(queue).dest] \in SUBSET Conns
    BY <2>1 DEF Pieces, TypeOK
  <2>3. log' \in [Conns -> Seq(Events)]
    BY <1>5, <2>2, GiveAt DEF Relay
  <2> QED BY <1>5, <2>1, <2>3 DEF Relay, TypeOK
<1>6. CASE Tune
  <2>1. log' \in [Conns -> Seq(Events)]
    BY <1>6, GiveAt DEF Tune, Events
  <2> QED BY <1>6, <2>1 DEF Tune, TypeOK
<1>7. CASE UNCHANGED vars
  BY <1>7 DEF vars, TypeOK
<1> QED BY <1>1, <1>2, <1>3, <1>4, <1>5, <1>6, <1>7 DEF Next

-----------------------------------------------------------------------------
(* Steps that give or take nothing but notices and what is given already.   *)

(* Every message in log' was in log, in the same order. *)
Thinned(f) ==
    \A c \in Conns :
        /\ \A k \in 1 .. Len(log'[c]) : f[c][k] \in Nat
        /\ \A k \in 1 .. Len(log'[c]) : log'[c][k].type = "message" =>
              f[c][k] \in 1 .. Len(log[c]) /\ log'[c][k] = log[c][f[c][k]]
        /\ \A k, m \in 1 .. Len(log'[c]) : k < m => f[c][k] < f[c][m]

Lengths ==
    /\ Len(stored) \in Nat /\ Len(queue) \in Nat
    /\ \A c \in Conns : Len(log[c]) \in Nat /\ Len(outbox[c]) \in Nat

LEMMA LengthsOK == (TypeOK => Lengths) /\ (TypeOK' => Lengths')
<1>1. TypeOK => Lengths
  BY DEF TypeOK, Lengths
<1>2. TypeOK' => Lengths'
  BY DEF TypeOK, Lengths
<1> QED BY <1>1, <1>2

LEMMA ThinnedRouting ==
    ASSUME Routing, UNCHANGED <<stored, outbox, queue>>, NEW f, Thinned(f), OwnListeners'
    PROVE  Routing'
<1>1. (\A k \in 1 .. Len(queue) : Traced(queue[k]))'
  BY DEF Routing, Traced, GoesTo
<1>2. (\A c \in Conns : \A i \in 1 .. Len(outbox[c]) :
        LET q == outbox[c][i]
        IN /\ q.event.type = "message" /\ Traced(q)
           /\ stored[q.event.id].sender = c /\ Newest(c, q.event.id))'
  <2>1. \A q : Traced(q) => Traced(q)'
    BY DEF Traced, GoesTo
  <2>2. \A c, id : Newest(c, id) => Newest(c, id)'
    BY DEF Newest
  <2>3. \A c \in Conns : \A i \in 1 .. Len(outbox[c]) :
           /\ outbox[c][i].event.type = "message" /\ Traced(outbox[c][i])
           /\ stored[outbox[c][i].event.id].sender = c /\ Newest(c, outbox[c][i].event.id)
    BY DEF Routing
  <2> QED BY <2>1, <2>2, <2>3
<1>3. (\A c \in Conns : \A i \in 1 .. Len(log[c]) : log[c][i].type = "message" =>
        /\ log[c][i].id \in 1 .. Len(stored)
        /\ \E dest \in Dests : GoesTo(log[c][i].id, dest) /\ Reaches(dest, c))'
  <2> SUFFICES ASSUME NEW c \in Conns, NEW i \in 1 .. Len(log'[c]),
                      log'[c][i].type = "message"
               PROVE  /\ log'[c][i].id \in 1 .. Len(stored)
                      /\ \E dest \in Dests : GoesTo(log'[c][i].id, dest) /\ Reaches(dest, c)
    BY DEF GoesTo, Reaches
  <2>1. f[c][i] \in 1 .. Len(log[c]) /\ log'[c][i] = log[c][f[c][i]]
    BY DEF Thinned
  <2> QED BY <2>1 DEF Routing
<1> QED BY <1>1, <1>2, <1>3 DEF Routing

LEMMA ThinnedSingle ==
    ASSUME Single, UNCHANGED <<stored, outbox, queue>>, NEW f, Thinned(f), Lengths'
    PROVE  Single'
<1>1. AtMostOnce'
  <2> SUFFICES ASSUME NEW c \in Conns,
                      NEW i \in 1 .. Len(log'[c]), NEW j \in 1 .. Len(log'[c]),
                      i # j, log'[c][i] = log'[c][j], log'[c][i].type = "message"
               PROVE  ToSelf(log'[c][i].id)
    BY DEF AtMostOnce, ToSelf
  <2>1. i < j \/ j < i
    BY DEF Lengths
  <2>2. f[c][i] # f[c][j]
    BY <2>1 DEF Thinned
  <2>3. /\ f[c][i] \in 1 .. Len(log[c]) /\ log'[c][i] = log[c][f[c][i]]
        /\ f[c][j] \in 1 .. Len(log[c]) /\ log'[c][j] = log[c][f[c][j]]
    BY DEF Thinned
  <2> QED BY <2>2, <2>3 DEF Single, AtMostOnce
<1>2. \A c \in Conns : \A i \in 1 .. Len(log'[c]), j \in 1 .. Len(queue) :
         ~Again(log'[c][i], queue[j], c)
  <2> SUFFICES ASSUME NEW c \in Conns, NEW i \in 1 .. Len(log'[c]), NEW j \in 1 .. Len(queue),
                      Again(log'[c][i], queue[j], c)
               PROVE  FALSE
    OBVIOUS
  <2>1. f[c][i] \in 1 .. Len(log[c]) /\ log'[c][i] = log[c][f[c][i]]
    BY DEF Thinned, Again
  <2> QED BY <2>1 DEF Single
<1>3. \A c, d \in Conns : \A i \in 1 .. Len(log'[c]), j \in 1 .. Len(outbox[d]) :
         ~Again(log'[c][i], outbox[d][j], c)
  <2> SUFFICES ASSUME NEW c \in Conns, NEW d \in Conns, NEW i \in 1 .. Len(log'[c]),
                      NEW j \in 1 .. Len(outbox[d]), Again(log'[c][i], outbox[d][j], c)
               PROVE  FALSE
    OBVIOUS
  <2>1. f[c][i] \in 1 .. Len(log[c]) /\ log'[c][i] = log[c][f[c][i]]
    BY DEF Thinned, Again
  <2> QED BY <2>1 DEF Single
<1>4. /\ \A q, r : Twin(q, r)' <=> Twin(q, r)
      /\ \A e, q, c : Again(e, q, c)' <=> Again(e, q, c)
  BY DEF Twin, Again, Reaches, ToSelf
<1> QED BY <1>1, <1>2, <1>3, <1>4 DEF Single

LEMMA ThinnedSorted ==
    ASSUME Sorted, UNCHANGED <<stored, outbox, queue>>, NEW f, Thinned(f)
    PROVE  Sorted'
<1>1. \A c \in Conns : \A i \in 1 .. Len(log'[c]), j \in 1 .. Len(queue) :
         InOrder(log'[c][i], queue[j].event)
  <2> SUFFICES ASSUME NEW c \in Conns, NEW i \in 1 .. Len(log'[c]), NEW j \in 1 .. Len(queue),
                      RoomMessage(log'[c][i])
               PROVE  InOrder(log'[c][i], queue[j].event)
    BY DEF InOrder
  <2>1. f[c][i] \in 1 .. Len(log[c]) /\ log'[c][i] = log[c][f[c][i]]
    BY DEF Thinned, RoomMessage
  <2> QED BY <2>1 DEF Sorted
<1>2. \A c \in Conns : \A i, j \in 1 .. Len(log'[c]) :
         i < j => InOrder(log'[c][i], log'[c][j])
  <2> SUFFICES ASSUME NEW c \in Conns, NEW i \in 1 .. Len(log'[c]), NEW j \in 1 .. Len(log'[c]),
                      i < j, RoomMessage(log'[c][i]), RoomMessage(log'[c][j])
               PROVE  InOrder(log'[c][i], log'[c][j])
    BY DEF InOrder
  <2>1. /\ f[c][i] \in 1 .. Len(log[c]) /\ log'[c][i] = log[c][f[c][i]]
        /\ f[c][j] \in 1 .. Len(log[c]) /\ log'[c][j] = log[c][f[c][j]]
        /\ f[c][i] < f[c][j]
    BY DEF Thinned, RoomMessage
  <2> QED BY <2>1 DEF Sorted, SenderOrder
<1> QED BY <1>1, <1>2 DEF Sorted, SenderOrder, InOrder, RoomMessage

(* SameOrder after a step that stores nothing: no pair is seen both ways. *)
LEMMA SameOrderIfNoneSwap ==
    ASSUME \A e : RoomMessage(e)' <=> RoomMessage(e),
           ASSUME NEW c \in Conns, NEW d \in Conns,
                  NEW i \in 1 .. Len(log'[c]), NEW j \in 1 .. Len(log'[c]),
                  NEW k \in 1 .. Len(log'[d]), NEW m \in 1 .. Len(log'[d]),
                  i < j, log'[c][i] # log'[c][j],
                  RoomMessage(log'[c][i]), RoomMessage(log'[c][j]),
                  log'[c][i] = log'[d][k], log'[c][j] = log'[d][m]
           PROVE  k < m
    PROVE  SameOrder'
<1> SUFFICES ASSUME NEW c \in Conns, NEW d \in Conns,
                    NEW i \in 1 .. Len(log'[c]), NEW j \in 1 .. Len(log'[c]),
                    NEW k \in 1 .. Len(log'[d]), NEW m \in 1 .. Len(log'[d]),
                    (/\ i < j /\ log[c][i] # log[c][j]
                     /\ RoomMessage(log[c][i]) /\ RoomMessage(log[c][j])
                     /\ log[c][i] = log[d][k] /\ log[c][j] = log[d][m])'
             PROVE  k < m
  BY Zenon DEF SameOrder
<1>1. /\ i < j /\ log'[c][i] # log'[c][j]
      /\ RoomMessage(log'[c][i]) /\ RoomMessage(log'[c][j])
      /\ log'[c][i] = log'[d][k] /\ log'[c][j] = log'[d][m]
  OBVIOUS
<1> QED BY <1>1

LEMMA ThinnedSameOrder ==
    ASSUME SameOrder, UNCHANGED <<stored, outbox, queue>>, NEW f, Thinned(f), Lengths'
    PROVE  SameOrder'
<1>1. ASSUME NEW c \in Conns, NEW d \in Conns,
             NEW i \in 1 .. Len(log'[c]), NEW j \in 1 .. Len(log'[c]),
             NEW k \in 1 .. Len(log'[d]), NEW m \in 1 .. Len(log'[d]),
             i < j, log'[c][i] # log'[c][j],
             RoomMessage(log'[c][i]), RoomMessage(log'[c][j]),
             log'[c][i] = log'[d][k], log'[c][j] = log'[d][m]
      PROVE  k < m
  <2>1. /\ log'[c][i].type = "message" /\ log'[c][j].type = "message"
        /\ log'[d][k].type = "message" /\ log'[d][m].type = "message"
    BY <1>1 DEF RoomMessage
  <2>2. /\ f[c][i] \in 1 .. Len(log[c]) /\ log'[c][i] = log[c][f[c][i]]
        /\ f[c][j] \in 1 .. Len(log[c]) /\ log'[c][j] = log[c][f[c][j]]
        /\ f[d][k] \in 1 .. Len(log[d]) /\ log'[d][k] = log[d][f[d][k]]
        /\ f[d][m] \in 1 .. Len(log[d]) /\ log'[d][m] = log[d][f[d][m]]
    BY <2>1 DEF Thinned
  <2>3. f[c][i] < f[c][j] /\ (m < k => f[d][m] < f[d][k])
    BY <1>1 DEF Thinned
  <2>4. f[d][k] < f[d][m]
    <3> DEFINE a == f[c][i]
               b == f[c][j]
               p == f[d][k]
               q == f[d][m]
    <3>1. /\ a \in 1 .. Len(log[c]) /\ b \in 1 .. Len(log[c]) /\ a < b
          /\ p \in 1 .. Len(log[d]) /\ q \in 1 .. Len(log[d])
      BY <2>2, <2>3
    <3>2. /\ RoomMessage(log[c][a]) /\ RoomMessage(log[c][b]) /\ log[c][a] # log[c][b]
          /\ log[c][a] = log[d][p] /\ log[c][b] = log[d][q]
      BY <1>1, <2>2
    <3> HIDE DEF a, b, p, q
    <3>3. p < q
      BY <3>1, <3>2 DEF SameOrder
    <3> QED BY <3>3 DEF p, q
  <2>5. k \in Nat /\ m \in Nat
    BY DEF Lengths
  <2>6. f[d][k] \in Nat /\ f[d][m] \in Nat
    BY DEF Thinned
  <2> QED BY <2>3, <2>4, <2>5, <2>6
<1>2. \A e : RoomMessage(e)' <=> RoomMessage(e)
  BY DEF RoomMessage
<1> QED BY <1>1, <1>2, SameOrderIfNoneSwap

LEMMA ThinnedStep ==
    ASSUME FeedInv, TypeOK', UNCHANGED <<stored, outbox, queue>>, NEW f, Thinned(f), OwnListeners'
    PROVE  FeedInv'
BY LengthsOK, ThinnedRouting, ThinnedSingle, ThinnedSorted, ThinnedSameOrder DEF FeedInv

LEMMA InvTune == ASSUME FeedInv, TypeOK', Tune PROVE FeedInv'
<1> DEFINE f == [c \in Conns |-> [k \in Nat |-> k]]
<1>1. PICK e \in Notices, to \in SUBSET Conns : Give(to, e)
  BY DEF Tune
<1>2. e \in Events /\ e.type # "message"
  BY DEF Events, Notices
<1>3. TypeOK
  BY DEF FeedInv
<1>4. \A c \in Conns :
         /\ Len(log[c]) \in Nat
         /\ c \in to => Len(log'[c]) = Len(log[c]) + 1 /\ log'[c][Len(log[c]) + 1] = e
         /\ c \notin to => log'[c] = log[c]
         /\ \A i \in 1 .. Len(log[c]) : log'[c][i] = log[c][i]
  BY <1>1, <1>2, <1>3, GiveAt
<1>5. ASSUME NEW c \in Conns, NEW k \in 1 .. Len(log'[c])
      PROVE  /\ f[c][k] = k /\ k \in Nat
             /\ log'[c][k].type = "message" =>
                   k \in 1 .. Len(log[c]) /\ log'[c][k] = log[c][k]
  <2>1. k \in Nat
    BY LengthsOK DEF Lengths
  <2>2. k \notin 1 .. Len(log[c]) => log'[c][k] = e
    BY <1>4, <2>1
  <2> QED BY <1>2, <1>4, <2>1, <2>2
<1> HIDE DEF f
<1>6. Thinned(f)
  BY <1>5 DEF Thinned
<1>7. UNCHANGED <<stored, outbox, queue>> /\ OwnListeners'
  BY DEF Tune, OwnListeners
<1> QED BY <1>6, <1>7, ThinnedStep

LEMMA InvLose == ASSUME FeedInv, TypeOK', NEW d \in Conns, Lose(d) PROVE FeedInv'
<1>1. log[d] \in Seq(Events) /\ log \in [Conns -> Seq(Events)]
  BY DEF FeedInv, TypeOK
<1>2. PICK i \in 1 .. Len(log[d]) : log' = [log EXCEPT ![d] = RemoveAt(@, i)]
  BY <1>1 DEF Lose
<1> DEFINE f == [c \in Conns |-> [k \in Nat |-> IF c # d \/ k < i THEN k ELSE k + 1]]
<1>3. log'[d] = RemoveAt(log[d], i) /\ \A c \in Conns : c # d => log'[c] = log[c]
  BY <1>1, <1>2
<1>4. /\ Len(RemoveAt(log[d], i)) = Len(log[d]) - 1
      /\ \A k \in 1 .. Len(log[d]) - 1 :
            RemoveAt(log[d], i)[k] = IF k < i THEN log[d][k] ELSE log[d][k + 1]
  BY <1>1, RemoveAtAt
<1>5. Lengths /\ Lengths'
  BY LengthsOK DEF FeedInv
<1>6. \A c \in Conns : \A k \in Nat : f[c][k] = IF c # d \/ k < i THEN k ELSE k + 1
  OBVIOUS
<1> HIDE DEF f
<1>7. ASSUME NEW c \in Conns, NEW k \in 1 .. Len(log'[c])
      PROVE  /\ k \in Nat /\ f[c][k] \in 1 .. Len(log[c])
             /\ f[c][k] = (IF c # d \/ k < i THEN k ELSE k + 1)
             /\ log'[c][k] = log[c][f[c][k]]
  <2>1. k \in Nat /\ Len(log[c]) \in Nat /\ Len(log'[c]) \in Nat
    BY <1>5 DEF Lengths
  <2>2. f[c][k] = IF c # d \/ k < i THEN k ELSE k + 1
    BY <1>6, <2>1
  <2>3. CASE c # d
    BY <1>3, <2>1, <2>2, <2>3
  <2>4. CASE c = d
    <3>1. k \in 1 .. Len(log[d]) - 1
      BY <1>3, <1>4, <2>1, <2>4
    <3>2. log'[d][k] = IF k < i THEN log[d][k] ELSE log[d][k + 1]
      BY <1>3, <1>4, <3>1
    <3>3. f[c][k] \in 1 .. Len(log[d])
      BY <2>1, <2>2, <2>4, <3>1
    <3> QED BY <2>1, <2>2, <2>4, <3>2, <3>3
  <2> QED BY <2>3, <2>4
<1>8. ASSUME NEW c \in Conns, NEW k \in 1 .. Len(log'[c]), NEW m \in 1 .. Len(log'[c]), k < m
      PROVE  f[c][k] < f[c][m]
  <2>1. /\ k \in Nat /\ m \in Nat
        /\ f[c][k] = (IF c # d \/ k < i THEN k ELSE k + 1)
        /\ f[c][m] = (IF c # d \/ m < i THEN m ELSE m + 1)
    BY <1>7
  <2>2. i \in Nat
    BY <1>5 DEF Lengths
  <2> QED BY <1>8, <2>1, <2>2
<1>9. Thinned(f)
  <2>1. \A c \in Conns : \A k \in 1 .. Len(log[c]) : k \in Nat
    BY <1>5 DEF Lengths
  <2> QED BY <1>7, <1>8, <2>1 DEF Thinned
<1>10. UNCHANGED <<stored, outbox, queue>> /\ OwnListeners'
  BY DEF Lose, OwnListeners, FeedInv, Routing
<1> QED BY <1>9, <1>10, ThinnedStep

-----------------------------------------------------------------------------
(* A message is stored. *)

LEMMA StoredGrows ==
    ASSUME TypeOK, NEW c \in Conns, NEW dest \in Dests, Post(c, dest)
    PROVE  /\ Len(stored) \in Nat /\ Len(stored') = Len(stored) + 1
           /\ \A n \in 1 .. Len(stored) : stored'[n] = stored[n]
           /\ stored'[Len(stored) + 1] = [sender |-> c, dest |-> dest]
<1>1. stored \in Seq([sender : Conns, dest : Dests])
  BY DEF TypeOK
<1> QED BY <1>1, AppendAt DEF Post

(* What is said of a message does not change when another is stored. *)
LEMMA SameOfOld ==
    ASSUME TypeOK, NEW c \in Conns, NEW dest \in Dests, Post(c, dest)
    PROVE  /\ \A n \in 1 .. Len(stored) : ToSelf(n)' <=> ToSelf(n)
           /\ \A to : \A n \in 1 .. Len(stored) : GoesTo(n, to)' <=> GoesTo(n, to)
           /\ \A e : e.type = "message" /\ e.id \in 1 .. Len(stored) =>
                 (RoomMessage(e)' <=> RoomMessage(e))
           /\ \A e, g : (/\ e.type = "message" => e.id \in 1 .. Len(stored)
                         /\ g.type = "message" => g.id \in 1 .. Len(stored)) =>
                 (InOrder(e, g)' <=> InOrder(e, g))
BY StoredGrows DEF ToSelf, GoesTo, RoomMessage, InOrder

(* The connection's outbox is the copies of the new message, the others' are *)
(* as they were.                                                            *)
LEMMA PostedOutbox ==
    ASSUME UserOf \in [Conns -> Users], TypeOK,
           NEW c \in Conns, NEW dest \in Dests, Post(c, dest)
    PROVE  LET n == Len(stored) + 1
           IN /\ \A d \in Conns : d # c => outbox'[d] = outbox[d]
              /\ Len(outbox'[c]) = IF dest[1] = "user" THEN 2 ELSE 1
              /\ \A i \in 1 .. Len(outbox'[c]) :
                    /\ outbox'[c][i].event = Message(n)
                    /\ outbox'[c][i].dest = IF i = 1 THEN dest ELSE <<"user", UserOf[c]>>
<1> DEFINE n == Len(stored) + 1
<1>1. n \in Nat
  BY DEF TypeOK
<1>2. outbox'[c] = Copies(c, dest, n) /\ \A d \in Conns : d # c => outbox'[d] = outbox[d]
  BY DEF Post, TypeOK
<1>3. \A e, d, x : Copy(e, d, x).event = e /\ Copy(e, d, x).dest = d
  BY DEF Copy
<1>4. /\ Len(Copies(c, dest, n)) = IF dest[1] = "user" THEN 2 ELSE 1
      /\ Copies(c, dest, n)[1] = Copy(Message(n), dest, NoConn)
      /\ dest[1] = "user" =>
            Copies(c, dest, n)[2] = Copy(Message(n), <<"user", UserOf[c]>>, NoConn)
  BY <1>1, CopiesAt
<1>5. ASSUME NEW i \in 1 .. Len(outbox'[c])
      PROVE  /\ outbox'[c][i].event = Message(n)
             /\ outbox'[c][i].dest = IF i = 1 THEN dest ELSE <<"user", UserOf[c]>>
  <2>1. i \in 1 .. (IF dest[1] = "user" THEN 2 ELSE 1)
    BY <1>2, <1>4
  <2>2. i = 1 \/ (i = 2 /\ dest[1] = "user")
    BY <2>1
  <2> QED BY <1>2, <1>3, <1>4, <2>2
<1> QED BY <1>2, <1>4, <1>5

LEMMA PostRouting ==
    ASSUME UserOf \in [Conns -> Users], TypeOK, Routing,
           NEW c \in Conns, NEW dest \in Dests, Post(c, dest)
    PROVE  Routing'
<1> DEFINE n == Len(stored) + 1
<1>1. /\ n \in Nat /\ Len(stored') = n
      /\ stored'[n].sender = c /\ stored'[n].dest = dest
      /\ \A m \in 1 .. Len(stored) : stored'[m] = stored[m] /\ m \in 1 .. Len(stored') /\ m < n
  <2>1. /\ Len(stored) \in Nat /\ Len(stored') = Len(stored) + 1
        /\ \A m \in 1 .. Len(stored) : stored'[m] = stored[m]
        /\ stored'[Len(stored) + 1] = [sender |-> c, dest |-> dest]
    BY StoredGrows
  <2> QED BY <2>1
<1>2. UNCHANGED <<queue, listeners, log>>
  BY DEF Post
<1>3. \A q : q.event.type = "message" /\ Traced(q) => Traced(q)' /\ q.event.id \in 1 .. Len(stored)
  BY <1>1, SameOfOld DEF Traced
<1>4. (\A k \in 1 .. Len(queue) : Traced(queue[k]))'
  BY <1>2, <1>3 DEF Routing, Traced
<1>5. (\A d \in Conns : \A i \in 1 .. Len(log[d]) : log[d][i].type = "message" =>
        /\ log[d][i].id \in 1 .. Len(stored)
        /\ \E to \in Dests : GoesTo(log[d][i].id, to) /\ Reaches(to, d))'
  <2> SUFFICES ASSUME NEW d \in Conns, NEW i \in 1 .. Len(log[d]), log[d][i].type = "message"
               PROVE  /\ log[d][i].id \in 1 .. Len(stored')
                      /\ (\E to \in Dests : GoesTo(log[d][i].id, to) /\ Reaches(to, d))'
    BY <1>2
  <2>1. PICK to \in Dests : GoesTo(log[d][i].id, to) /\ Reaches(to, d)
    BY DEF Routing
  <2>2. log[d][i].id \in 1 .. Len(stored)
    BY DEF Routing
  <2>3. GoesTo(log[d][i].id, to)'
    BY <1>2, <2>1, <2>2, SameOfOld
  <2> QED BY <1>1, <2>1, <2>2, <2>3 DEF Reaches
<1> DEFINE Fits(q, d) ==
             /\ q.event.type = "message" /\ q.event.id \in 1 .. Len(stored')
             /\ \/ q.dest = stored'[q.event.id].dest
                \/ /\ stored'[q.event.id].dest[1] = "user"
                   /\ q.dest = <<"user", UserOf[stored'[q.event.id].sender]>>
             /\ stored'[q.event.id].sender = d
             /\ \A m \in 1 .. Len(stored') : stored'[m].sender = d => m <= q.event.id
<1>6. ASSUME NEW d \in Conns, NEW i \in 1 .. Len(outbox'[d]), NEW q, q = outbox'[d][i]
      PROVE  Fits(q, d)
  <2>1. CASE d = c
    <3>1. /\ q.event = Message(n)
          /\ q.dest = IF i = 1 THEN dest ELSE <<"user", UserOf[c]>>
          /\ i = 1 \/ dest[1] = "user"
      BY <1>6, <2>1, PostedOutbox
    <3>2. Message(n).type = "message" /\ Message(n).id = n
      BY DEF Message
    <3>3. \A m \in 1 .. n : m <= n
      BY <1>1
    <3>4. n \in 1 .. Len(stored')
      BY <1>1
    <3> HIDE DEF n
    <3>5. q.event.type = "message" /\ q.event.id = n
      BY <3>1, <3>2
    <3> QED BY <1>1, <2>1, <3>1, <3>3, <3>4, <3>5
  <2>2. CASE d # c
    <3>1. i \in 1 .. Len(outbox[d]) /\ q = outbox[d][i]
      BY <1>6, <2>2, PostedOutbox
    <3>2. /\ q.event.type = "message" /\ q.event.id \in 1 .. Len(stored)
          /\ GoesTo(q.event.id, q.dest)
          /\ stored[q.event.id].sender = d /\ Newest(d, q.event.id)
      BY <3>1 DEF Routing, Traced
    <3>3. \A m \in 1 .. Len(stored') : m \in 1 .. Len(stored) \/ m = n
      BY <1>1
    <3> HIDE DEF n
    <3>4. /\ stored'[q.event.id] = stored[q.event.id] /\ q.event.id \in 1 .. Len(stored')
          /\ q.event.id < n
      BY <1>1, <3>2
    <3>5. \A m \in 1 .. Len(stored') : stored'[m].sender = d => m <= q.event.id
      BY <1>1, <2>2, <3>2, <3>3 DEF Newest
    <3> QED BY <3>2, <3>4, <3>5 DEF GoesTo
  <2> QED BY <2>1, <2>2
<1>7. (\A d \in Conns : \A i \in 1 .. Len(outbox[d]) :
        LET q == outbox[d][i]
        IN /\ q.event.type = "message" /\ Traced(q)
           /\ stored[q.event.id].sender = d /\ Newest(d, q.event.id))'
  <2> SUFFICES ASSUME NEW d \in Conns, NEW i \in 1 .. Len(outbox'[d])
               PROVE  (LET q == outbox[d][i]
                       IN /\ q.event.type = "message" /\ Traced(q)
                          /\ stored[q.event.id].sender = d /\ Newest(d, q.event.id))'
    BY Zenon
  <2>1. PICK q : q = outbox'[d][i]
    OBVIOUS
  <2> HIDE DEF n
  <2>2. Fits(q, d)
    <3> HIDE DEF Fits
    <3> QED BY <1>6, <2>1, Zenon
  <2> QED BY <2>1, <2>2, Zenon DEF Traced, GoesTo, Newest
<1>8. OwnListeners'
  BY <1>2 DEF Routing, OwnListeners
<1> QED BY <1>4, <1>5, <1>7, <1>8 DEF Routing

LEMMA PostSingle ==
    ASSUME UserOf \in [Conns -> Users], TypeOK, Routing, Single,
           NEW c \in Conns, NEW dest \in Dests, Post(c, dest)
    PROVE  Single'
<1> DEFINE n == Len(stored) + 1
<1>1. UNCHANGED <<queue, listeners, log>>
  BY DEF Post
<1>2. /\ n \in Nat /\ n \notin 1 .. Len(stored)
      /\ stored'[n].sender = c /\ stored'[n].dest = dest
  <2>1. /\ Len(stored) \in Nat
        /\ stored'[Len(stored) + 1] = [sender |-> c, dest |-> dest]
    BY StoredGrows
  <2> QED BY <2>1
<1>3. Message(n).type = "message" /\ Message(n).id = n
  BY DEF Message
<1>4. /\ \A k \in 1 .. Len(queue) : queue[k].event # Message(n) /\ Traced(queue[k])
      /\ \A d \in Conns : \A i \in 1 .. Len(log[d]) : log[d][i] # Message(n) /\
            (log[d][i].type = "message" => log[d][i].id \in 1 .. Len(stored))
      /\ \A d \in Conns : \A i \in 1 .. Len(outbox[d]) :
            outbox[d][i].event # Message(n) /\ Traced(outbox[d][i])
  BY <1>2, <1>3 DEF Routing, Traced
<1>5. /\ \A q, r : Traced(q) /\ Twin(q, r)' => Twin(q, r)
      /\ \A e, q, d : Traced(q) /\ Again(e, q, d)' => Again(e, q, d)
  BY SameOfOld DEF Twin, Again, Traced, Reaches
<1>6. \A q, r : Twin(q, r)' => q.event = r.event /\ q.dest = r.dest
  BY DEF Twin
<1>7. \A e, q, d : Again(e, q, d)' => q.event = e
  BY DEF Again
<1>8. /\ \A d \in Conns : d # c => outbox'[d] = outbox[d]
      /\ \A i \in 1 .. Len(outbox'[c]) :
            /\ outbox'[c][i].event = Message(n)
            /\ outbox'[c][i].dest = IF i = 1 THEN dest ELSE <<"user", UserOf[c]>>
            /\ i = 1 \/ i = 2
  BY PostedOutbox
<1>9. ASSUME NEW i \in 1 .. Len(outbox'[c]), NEW j \in 1 .. Len(outbox'[c]), i # j
      PROVE  ~Twin(outbox[c][i], outbox[c][j])'
  <2>1. CASE outbox'[c][i].dest # outbox'[c][j].dest
    BY <2>1 DEF Twin
  <2>2. CASE outbox'[c][i].dest = outbox'[c][j].dest
    <3>1. dest = <<"user", UserOf[c]>>
      BY <1>8, <1>9, <2>2
    <3>2. outbox'[c][i].event.id = n
      BY <1>3, <1>8
    <3> HIDE DEF n
    <3>3. stored'[n].dest = <<"user", UserOf[stored'[n].sender]>>
      BY <1>2, <3>1
    <3>4. ToSelf(outbox[c][i].event.id)'
      BY <3>2, <3>3 DEF ToSelf
    <3> QED BY <3>4 DEF Twin
  <2> QED BY <2>1, <2>2
<1>10. AtMostOnce'
  <2>1. \A d \in Conns : \A i \in 1 .. Len(log[d]) :
           log[d][i].type = "message" => (ToSelf(log[d][i].id)' <=> ToSelf(log[d][i].id))
    BY <1>1, <1>4, SameOfOld
  <2> QED BY <1>1, <2>1 DEF Single, AtMostOnce, ToSelf
<1> HIDE DEF n
<1>11. (\A i, j \in 1 .. Len(queue) : i # j => ~Twin(queue[i], queue[j]))'
  BY <1>1, <1>4, <1>5 DEF Single
<1>12. (\A d \in Conns : \A i \in 1 .. Len(outbox[d]), j \in 1 .. Len(queue) :
           ~Twin(outbox[d][i], queue[j]))'
  BY <1>1, <1>4, <1>5, <1>6, <1>8 DEF Single
<1>13. (\A d \in Conns : \A i \in 1 .. Len(log[d]), j \in 1 .. Len(queue) :
           ~Again(log[d][i], queue[j], d))'
  BY <1>1, <1>4, <1>5 DEF Single
<1>14. (\A d, e \in Conns : \A i \in 1 .. Len(log[d]), j \in 1 .. Len(outbox[e]) :
           ~Again(log[d][i], outbox[e][j], d))'
  BY <1>1, <1>4, <1>5, <1>7, <1>8 DEF Single
<1>15. (\A d \in Conns : \A i, j \in 1 .. Len(outbox[d]) :
           i # j => ~Twin(outbox[d][i], outbox[d][j]))'
  BY <1>4, <1>5, <1>8, <1>9 DEF Single
<1> QED BY <1>10, <1>11, <1>12, <1>13, <1>14, <1>15 DEF Single

LEMMA PostOrder ==
    ASSUME TypeOK, Routing, Sorted, SameOrder,
           NEW c \in Conns, NEW dest \in Dests, Post(c, dest)
    PROVE  Sorted' /\ SameOrder'
<1>1. UNCHANGED <<queue, log>>
  BY DEF Post
<1>2. /\ \A k \in 1 .. Len(queue) : queue[k].event.type = "message" =>
            queue[k].event.id \in 1 .. Len(stored)
      /\ \A d \in Conns : \A i \in 1 .. Len(log[d]) : log[d][i].type = "message" =>
            log[d][i].id \in 1 .. Len(stored)
  BY DEF Routing, Traced
<1>3. (\A i, j \in 1 .. Len(queue) : i < j => InOrder(queue[i].event, queue[j].event))'
  BY <1>1, <1>2, SameOfOld DEF Sorted
<1>4. (\A d \in Conns : \A i \in 1 .. Len(log[d]), j \in 1 .. Len(queue) :
          InOrder(log[d][i], queue[j].event))'
  BY <1>1, <1>2, SameOfOld DEF Sorted
<1>5. SenderOrder'
  BY <1>1, <1>2, SameOfOld DEF Sorted, SenderOrder
<1>6. SameOrder'
  <2>1. \A d \in Conns : \A i \in 1 .. Len(log[d]) : RoomMessage(log[d][i])' => RoomMessage(log[d][i])
    <3> SUFFICES ASSUME NEW d \in Conns, NEW i \in 1 .. Len(log[d]), RoomMessage(log[d][i])'
                 PROVE  RoomMessage(log[d][i])
      OBVIOUS
    <3>1. log[d][i].type = "message"
      BY <1>1 DEF RoomMessage
    <3>2. log[d][i].id \in 1 .. Len(stored)
      BY <1>2, <3>1
    <3>3. stored'[log[d][i].id] = stored[log[d][i].id]
      BY <3>2, StoredGrows
    <3> QED BY <1>1, <3>1, <3>3 DEF RoomMessage
  <2>2. SUFFICES ASSUME NEW d \in Conns, NEW e \in Conns,
                        NEW i \in 1 .. Len(log[d]), NEW j \in 1 .. Len(log[d]),
                        NEW k \in 1 .. Len(log[e]), NEW m \in 1 .. Len(log[e]),
                        i < j, log[d][i] # log[d][j],
                        RoomMessage(log[d][i])', RoomMessage(log[d][j])',
                        log[d][i] = log[e][k], log[d][j] = log[e][m]
                 PROVE  k < m
    BY <1>1 DEF SameOrder
  <2>3. RoomMessage(log[d][i]) /\ RoomMessage(log[d][j])
    BY <2>1, <2>2
  <2> QED BY <2>2, <2>3 DEF SameOrder
<1> QED BY <1>3, <1>4, <1>5, <1>6 DEF Sorted

LEMMA InvPost ==
    ASSUME UserOf \in [Conns -> Users], FeedInv, TypeOK',
           NEW c \in Conns, NEW dest \in Dests, Post(c, dest)
    PROVE  FeedInv'
BY PostRouting, PostSingle, PostOrder DEF FeedInv

-----------------------------------------------------------------------------
(* A copy joins the queue. *)

(* q is the copy of no message that is elsewhere, and of none that it should *)
(* have come before.                                                        *)
Joins(q) ==
    /\ Traced(q)
    /\ \A j \in 1 .. Len(queue) : ~Twin(q, queue[j]) /\ InOrder(queue[j].event, q.event)
    /\ \A d \in Conns : \A i \in 1 .. Len(log[d]) :
          ~Again(log[d][i], q, d) /\ InOrder(log[d][i], q.event)

LEMMA SameOrderKept == ASSUME SameOrder, UNCHANGED <<stored, log>> PROVE SameOrder'
<1>1. \A e : RoomMessage(e)' <=> RoomMessage(e)
  BY DEF RoomMessage
<1> SUFFICES ASSUME NEW c \in Conns, NEW d \in Conns,
                    NEW i \in 1 .. Len(log'[c]), NEW j \in 1 .. Len(log'[c]),
                    NEW k \in 1 .. Len(log'[d]), NEW m \in 1 .. Len(log'[d]),
                    i < j, log'[c][i] # log'[c][j],
                    RoomMessage(log'[c][i]), RoomMessage(log'[c][j]),
                    log'[c][i] = log'[d][k], log'[c][j] = log'[d][m]
             PROVE  k < m
  BY <1>1, SameOrderIfNoneSwap
<1>2. /\ i \in 1 .. Len(log[c]) /\ j \in 1 .. Len(log[c])
      /\ k \in 1 .. Len(log[d]) /\ m \in 1 .. Len(log[d])
      /\ log[c][i] # log[c][j] /\ RoomMessage(log[c][i]) /\ RoomMessage(log[c][j])
      /\ log[c][i] = log[d][k] /\ log[c][j] = log[d][m]
  OBVIOUS
<1> QED BY <1>2 DEF SameOrder

LEMMA QueueGrows ==
    ASSUME TypeOK, NEW q \in Pieces, queue' = Append(queue, q)
    PROVE  /\ Len(queue) \in Nat /\ Len(queue') = Len(queue) + 1
           /\ \A j \in 1 .. Len(queue') :
                 \/ j \in 1 .. Len(queue) /\ queue'[j] = queue[j]
                 \/ j = Len(queue) + 1 /\ queue'[j] = q
<1>1. queue \in Seq(Pieces)
  BY DEF TypeOK
<1>2. /\ Len(Append(queue, q)) = Len(queue) + 1 /\ Len(queue) \in Nat
      /\ \A j \in 1 .. Len(queue) + 1 :
            Append(queue, q)[j] = IF j = Len(queue) + 1 THEN q ELSE queue[j]
  BY <1>1, AppendAt
<1> QED BY <1>2

(* What is left of the outboxes has no copy of q, and nothing new. *)
Leaves(q) ==
    \A d \in Conns :
        /\ \A i \in 1 .. Len(outbox'[d]) :
              /\ \E k \in 1 .. Len(outbox[d]) : outbox'[d][i] = outbox[d][k]
              /\ ~Twin(outbox'[d][i], q)
        /\ \A i, j \in 1 .. Len(outbox'[d]) : i # j => ~Twin(outbox'[d][i], outbox'[d][j])

LEMMA JoinStep ==
    ASSUME FeedInv, TypeOK', NEW q \in Pieces, queue' = Append(queue, q),
           Joins(q), Leaves(q), UNCHANGED <<stored, listeners, log>>
    PROVE  FeedInv'
<1>1. /\ Len(queue) \in Nat /\ Len(queue') = Len(queue) + 1
      /\ \A j \in 1 .. Len(queue') :
            \/ j \in 1 .. Len(queue) /\ queue'[j] = queue[j]
            \/ j = Len(queue) + 1 /\ queue'[j] = q
  BY QueueGrows DEF FeedInv
<1>2. /\ \A r, t : (Twin(r, t)' <=> Twin(r, t)) /\ (Twin(r, t) <=> Twin(t, r))
      /\ \A e, r, d : Again(e, r, d)' <=> Again(e, r, d)
      /\ \A e, g : InOrder(e, g)' <=> InOrder(e, g)
      /\ \A r : Traced(r)' <=> Traced(r)
  BY DEF Twin, Again, InOrder, Traced, Reaches, ToSelf, RoomMessage, GoesTo
<1>3. Routing'
  <2>1. (\A k \in 1 .. Len(queue) : Traced(queue[k]))'
    BY <1>1, <1>2 DEF FeedInv, Routing, Joins
  <2>2. (\A d \in Conns : \A i \in 1 .. Len(outbox[d]) :
          LET r == outbox[d][i]
          IN /\ r.event.type = "message" /\ Traced(r)
             /\ stored[r.event.id].sender = d /\ Newest(d, r.event.id))'
    <3> SUFFICES ASSUME NEW d \in Conns, NEW i \in 1 .. Len(outbox'[d])
                 PROVE  (LET r == outbox[d][i]
                         IN /\ r.event.type = "message" /\ Traced(r)
                            /\ stored[r.event.id].sender = d /\ Newest(d, r.event.id))'
      OBVIOUS
    <3>1. PICK k \in 1 .. Len(outbox[d]) : outbox'[d][i] = outbox[d][k]
      BY DEF Leaves
    <3>2. /\ outbox[d][k].event.type = "message" /\ Traced(outbox[d][k])
          /\ stored[outbox[d][k].event.id].sender = d /\ Newest(d, outbox[d][k].event.id)
      BY DEF FeedInv, Routing
    <3>3. \A id : Newest(d, id) => Newest(d, id)'
      BY DEF Newest
    <3> QED BY <1>2, <3>1, <3>2, <3>3
  <2>3. OwnListeners'
    BY DEF FeedInv, Routing, OwnListeners
  <2>4. (\A d \in Conns : \A i \in 1 .. Len(log[d]) : log[d][i].type = "message" =>
          /\ log[d][i].id \in 1 .. Len(stored)
          /\ \E to \in Dests : GoesTo(log[d][i].id, to) /\ Reaches(to, d))'
    <3>1. \A id, to : GoesTo(id, to) => GoesTo(id, to)'
      BY DEF GoesTo
    <3>2. \A to, d : Reaches(to, d)' <=> Reaches(to, d)
      BY DEF Reaches
    <3> SUFFICES ASSUME NEW d \in Conns, NEW i \in 1 .. Len(log[d]), log[d][i].type = "message"
                 PROVE  /\ log[d][i].id \in 1 .. Len(stored)
                        /\ \E to \in Dests : GoesTo(log[d][i].id, to)' /\ Reaches(to, d)
      BY <3>2
    <3>3. /\ log[d][i].id \in 1 .. Len(stored)
          /\ \E to \in Dests : GoesTo(log[d][i].id, to) /\ Reaches(to, d)
      BY DEF FeedInv, Routing
    <3> QED BY <3>1, <3>3
  <2> QED BY <2>1, <2>2, <2>3, <2>4 DEF Routing
<1>4. Single'
  <2>1. (\A i, j \in 1 .. Len(queue) : i # j => ~Twin(queue[i], queue[j]))'
    BY <1>1, <1>2 DEF FeedInv, Single, Joins
  <2>2. (\A d \in Conns : \A i \in 1 .. Len(outbox[d]), j \in 1 .. Len(queue) :
            ~Twin(outbox[d][i], queue[j]))'
    BY <1>1, <1>2 DEF FeedInv, Single, Leaves
  <2>3. (\A d \in Conns : \A i \in 1 .. Len(log[d]), j \in 1 .. Len(queue) :
            ~Again(log[d][i], queue[j], d))'
    BY <1>1, <1>2 DEF FeedInv, Single, Joins
  <2>4. (\A d, e \in Conns : \A i \in 1 .. Len(log[d]), j \in 1 .. Len(outbox[e]) :
            ~Again(log[d][i], outbox[e][j], d))'
    <3> SUFFICES ASSUME NEW d \in Conns, NEW e \in Conns,
                        NEW i \in 1 .. Len(log[d]), NEW j \in 1 .. Len(outbox'[e])
                 PROVE  ~Again(log[d][i], outbox'[e][j], d)
      BY <1>2
    <3>1. PICK k \in 1 .. Len(outbox[e]) : outbox'[e][j] = outbox[e][k]
      BY DEF Leaves
    <3> QED BY <3>1 DEF FeedInv, Single
  <2>5. (\A d \in Conns : \A i, j \in 1 .. Len(outbox[d]) :
            i # j => ~Twin(outbox[d][i], outbox[d][j]))'
    BY <1>2 DEF Leaves
  <2>6. AtMostOnce'
    BY DEF FeedInv, Single, AtMostOnce, ToSelf
  <2> QED BY <2>1, <2>2, <2>3, <2>4, <2>5, <2>6 DEF Single
<1>5. Sorted'
  <2>1. (\A i, j \in 1 .. Len(queue) : i < j => InOrder(queue[i].event, queue[j].event))'
    <3> SUFFICES ASSUME NEW i \in 1 .. Len(queue'), NEW j \in 1 .. Len(queue'), i < j
                 PROVE  InOrder(queue'[i].event, queue'[j].event)
      BY DEF InOrder, RoomMessage
    <3>1. i \in 1 .. Len(queue) /\ queue'[i] = queue[i]
      BY <1>1
    <3> QED BY <1>1, <3>1 DEF FeedInv, Sorted, Joins
  <2>2. (\A d \in Conns : \A i \in 1 .. Len(log[d]), j \in 1 .. Len(queue) :
            InOrder(log[d][i], queue[j].event))'
    BY <1>1, <1>2 DEF FeedInv, Sorted, Joins
  <2>3. SenderOrder'
    BY <1>2 DEF FeedInv, Sorted, SenderOrder
  <2> QED BY <2>1, <2>2, <2>3 DEF Sorted
<1>6. SameOrder'
  <2>1. SameOrder
    BY DEF FeedInv
  <2> QED BY <2>1, SameOrderKept
<1> QED BY <1>3, <1>4, <1>5, <1>6 DEF FeedInv

LEMMA InvWhisper ==
    ASSUME UserOf \in [Conns -> Users], FeedInv, TypeOK',
           NEW c \in Conns, NEW dest \in Dests, Whisper(c, dest)
    PROVE  FeedInv'
<1> DEFINE q == Copy(Typing(UserOf[c]), dest, c)
<1>1. q \in Pieces
  BY CopyTypes
<1>2. q.event.type = "typing"
  BY DEF Copy, Typing
<1>3. queue' = Append(queue, q) /\ UNCHANGED <<stored, outbox, listeners, log>>
  BY DEF Whisper
<1> HIDE DEF q
<1>4. Joins(q)
  BY <1>2 DEF Joins, Traced, Twin, InOrder, RoomMessage, Again
<1>5. \A r : ~Twin(r, q)
  BY <1>2 DEF Twin
<1>6. Leaves(q)
  BY <1>3, <1>5 DEF Leaves, FeedInv, Single
<1> QED BY <1>1, <1>3, <1>4, <1>6, JoinStep

LEMMA InvPublish ==
    ASSUME UserOf \in [Conns -> Users], FeedInv, TypeOK', NEW c \in Conns, Publish(c)
    PROVE  FeedInv'
<1> DEFINE q == Head(outbox[c])
<1>1. outbox[c] \in Seq(Pieces) /\ outbox[c] # <<>>
  BY DEF Publish, FeedInv, TypeOK
<1>2. /\ q \in Pieces /\ q = outbox[c][1] /\ Len(outbox[c]) \in Nat \ {0}
      /\ Len(Tail(outbox[c])) = Len(outbox[c]) - 1
      /\ \A i \in 1 .. Len(outbox[c]) - 1 : Tail(outbox[c])[i] = outbox[c][i + 1]
  BY <1>1, TailAt
<1>3. /\ queue' = Append(queue, q) /\ UNCHANGED <<stored, listeners, log>>
      /\ outbox'[c] = Tail(outbox[c])
      /\ \A d \in Conns : d # c => outbox'[d] = outbox[d]
  BY DEF Publish, FeedInv, TypeOK
<1> HIDE DEF q
<1>4. /\ q.event.type = "message" /\ Traced(q)
      /\ stored[q.event.id].sender = c /\ Newest(c, q.event.id)
  BY <1>2 DEF FeedInv, Routing
<1>5. Joins(q)
  <2>1. \A j \in 1 .. Len(queue) : ~Twin(q, queue[j])
    BY <1>2 DEF FeedInv, Single
  <2>2. \A d \in Conns : \A i \in 1 .. Len(log[d]) : ~Again(log[d][i], q, d)
    BY <1>2 DEF FeedInv, Single
  <2>3. \A j \in 1 .. Len(queue) : InOrder(queue[j].event, q.event)
    BY <1>4 DEF FeedInv, Routing, Traced, Newest, InOrder, RoomMessage
  <2>4. \A d \in Conns : \A i \in 1 .. Len(log[d]) : InOrder(log[d][i], q.event)
    BY <1>4 DEF FeedInv, Routing, Newest, InOrder, RoomMessage
  <2> QED BY <1>4, <2>1, <2>2, <2>3, <2>4 DEF Joins
<1>6. Leaves(q)
  <2>1. ASSUME NEW d \in Conns, d # c, NEW i \in 1 .. Len(outbox[d])
        PROVE  ~Twin(outbox[d][i], q)
    BY <1>4, <2>1 DEF FeedInv, Routing, Twin
  <2>2. ASSUME NEW i \in 1 .. Len(outbox'[c])
        PROVE  /\ i + 1 \in 1 .. Len(outbox[c]) /\ outbox'[c][i] = outbox[c][i + 1]
               /\ i + 1 # 1 /\ i \in Nat
    BY <1>2, <1>3
  <2>3. \A i, j \in 1 .. Len(outbox[c]) : i # j => ~Twin(outbox[c][i], outbox[c][j])
    BY DEF FeedInv, Single
  <2>4. 1 \in 1 .. Len(outbox[c])
    BY <1>2
  <2>5. \A i \in 1 .. Len(outbox'[c]) :
           /\ \E k \in 1 .. Len(outbox[c]) : outbox'[c][i] = outbox[c][k]
           /\ ~Twin(outbox'[c][i], q)
    BY <1>2, <2>2, <2>3, <2>4
  <2>6. \A i, j \in 1 .. Len(outbox'[c]) : i # j => ~Twin(outbox'[c][i], outbox'[c][j])
    <3> SUFFICES ASSUME NEW i \in 1 .. Len(outbox'[c]), NEW j \in 1 .. Len(outbox'[c]), i # j
                 PROVE  ~Twin(outbox'[c][i], outbox'[c][j])
      OBVIOUS
    <3>1. i + 1 # j + 1
      BY <2>2
    <3> QED BY <2>2, <2>3, <3>1
  <2>7. \A d \in Conns : d # c =>
           /\ \A i \in 1 .. Len(outbox'[d]) :
                 /\ \E k \in 1 .. Len(outbox[d]) : outbox'[d][i] = outbox[d][k]
                 /\ ~Twin(outbox'[d][i], q)
           /\ \A i, j \in 1 .. Len(outbox'[d]) : i # j => ~Twin(outbox'[d][i], outbox'[d][j])
    BY <1>3, <2>1 DEF FeedInv, Single
  <2>8. ASSUME NEW d \in Conns
        PROVE  /\ \A i \in 1 .. Len(outbox'[d]) :
                     /\ \E k \in 1 .. Len(outbox[d]) : outbox'[d][i] = outbox[d][k]
                     /\ ~Twin(outbox'[d][i], q)
               /\ \A i, j \in 1 .. Len(outbox'[d]) : i # j => ~Twin(outbox'[d][i], outbox'[d][j])
    <3>1. CASE d = c
      BY <2>5, <2>6, <3>1, Zenon
    <3>2. CASE d # c
      BY <2>7, <3>2, Zenon
    <3> QED BY <3>1, <3>2
  <2> QED BY <2>8, Zenon DEF Leaves
<1> QED BY <1>2, <1>3, <1>5, <1>6, JoinStep

-----------------------------------------------------------------------------
(* The head of the queue is given out. *)

(* q leaves the queue and becomes the last event of the connections of to. *)
Relays(q, to) ==
    /\ q = queue[1] /\ 1 \in 1 .. Len(queue)
    /\ \A c \in to : Reaches(q.dest, c)
    /\ UNCHANGED <<stored, outbox, listeners>>
    /\ Len(queue) \in Nat /\ Len(queue') = Len(queue) - 1
    /\ \A i \in 1 .. Len(queue') : queue'[i] = queue[i + 1]
    /\ \A c \in Conns :
          /\ Len(log[c]) \in Nat
          /\ \A i \in 1 .. Len(log'[c]) :
                \/ i \in 1 .. Len(log[c]) /\ log'[c][i] = log[c][i]
                \/ c \in to /\ i = Len(log[c]) + 1 /\ log'[c][i] = q.event

LEMMA RelayShape ==
    ASSUME FeedInv, Relay
    PROVE  \E q \in Pieces, to \in SUBSET Conns : Relays(q, to)
<1>1. queue \in Seq(Pieces) /\ queue # <<>> /\ TypeOK
  BY DEF Relay, FeedInv, TypeOK
<1>2. /\ Head(queue) = queue[1] /\ Head(queue) \in Pieces /\ Len(queue) \in Nat \ {0}
      /\ Len(Tail(queue)) = Len(queue) - 1
      /\ \A i \in 1 .. Len(queue) - 1 : Tail(queue)[i] = queue[i + 1]
  BY <1>1, TailAt
<1> DEFINE q == Head(queue)
<1>3. q.dest \in Dests /\ q.event \in Events
  BY <1>2 DEF Pieces
<1>4. PICK to \in SUBSET (listeners[q.dest] \ {q.exclude}) : Give(to, q.event)
  BY DEF Relay
<1>5. to \in SUBSET Conns
  BY <1>1, <1>3, <1>4 DEF TypeOK
<1>6. \A c \in to : Reaches(q.dest, c)
  <2>1. q.dest[1] = "room" \/ (q.dest = <<"user", q.dest[2]>> /\ q.dest[2] \in Users)
    BY <1>3, DestPair
  <2>2. ASSUME NEW c \in to, q.dest[1] # "room"
        PROVE  q.dest = <<"user", UserOf[c]>>
    <3>1. c \in listeners[<<"user", q.dest[2]>>] /\ q.dest[2] \in Users
      BY <1>4, <2>1, <2>2
    <3>2. UserOf[c] = q.dest[2]
      BY <3>1 DEF FeedInv, Routing, OwnListeners
    <3> QED BY <2>1, <2>2, <3>2
  <2> QED BY <2>2 DEF Reaches
<1>7. \A c \in Conns :
         /\ Len(log[c]) \in Nat
         /\ c \in to => Len(log'[c]) = Len(log[c]) + 1 /\ log'[c][Len(log[c]) + 1] = q.event
         /\ c \notin to => log'[c] = log[c]
         /\ \A i \in 1 .. Len(log[c]) : log'[c][i] = log[c][i]
  BY <1>1, <1>3, <1>4, <1>5, GiveAt
<1> HIDE DEF q
<1>8. ASSUME NEW c \in Conns, NEW i \in 1 .. Len(log'[c])
      PROVE  \/ i \in 1 .. Len(log[c]) /\ log'[c][i] = log[c][i]
             \/ c \in to /\ i = Len(log[c]) + 1 /\ log'[c][i] = q.event
  BY <1>7
<1>9. queue' = Tail(queue) /\ UNCHANGED <<stored, outbox, listeners>>
  BY DEF Relay
<1>10. 1 \in 1 .. Len(queue)
  BY <1>2
<1>11. q = queue[1] /\ q \in Pieces
  BY <1>2 DEF q
<1>12. Len(queue) \in Nat /\ Len(queue') = Len(queue) - 1
  BY <1>2, <1>9
<1>13. \A i \in 1 .. Len(queue') : queue'[i] = queue[i + 1]
  BY <1>2, <1>9
<1>14. Relays(q, to)
  BY <1>6, <1>7, <1>8, <1>9, <1>10, <1>11, <1>12, <1>13 DEF Relays
<1> QED BY <1>5, <1>11, <1>14

LEMMA RelaySingle ==
    ASSUME FeedInv, NEW q \in Pieces, NEW to \in SUBSET Conns, Relays(q, to)
    PROVE  Single'
<1> USE DEF Relays
<1>1. /\ \A r, t : Twin(r, t)' <=> Twin(r, t)
      /\ \A e, r, d : Again(e, r, d)' <=> Again(e, r, d)
      /\ \A n : ToSelf(n)' <=> ToSelf(n)
  BY DEF Twin, Again, Reaches, ToSelf
<1>2. \A j \in 1 .. Len(queue') : j + 1 \in 1 .. Len(queue) /\ j + 1 # 1 /\ queue'[j] = queue[j + 1]
  OBVIOUS
(* What is left of a message just given goes to other connections. *)
<1>3. ASSUME NEW r, NEW c \in to, Traced(r), Again(q.event, r, c)
      PROVE  Twin(r, q)
  <2>1. Traced(q) /\ Reaches(q.dest, c)
    BY DEF FeedInv, Routing
  <2>2. /\ r.event.type = "message" /\ r.event = q.event /\ Reaches(r.dest, c)
        /\ ~ToSelf(r.event.id)
    BY <1>3 DEF Again
  <2>3. GoesTo(q.event.id, q.dest) /\ GoesTo(q.event.id, r.dest)
    BY <1>3, <2>1, <2>2 DEF Traced
  <2>4. q.dest = r.dest
    <3>1. \A u : <<"user", u>>[1] = "user"
      OBVIOUS
    <3>2. CASE stored[q.event.id].dest[1] = "user"
      <4>1. q.dest[1] = "user" /\ r.dest[1] = "user"
        BY <2>3, <3>1, <3>2 DEF GoesTo
      <4> QED BY <2>1, <2>2, <4>1 DEF Reaches
    <3>3. CASE stored[q.event.id].dest[1] # "user"
      BY <2>3, <3>3 DEF GoesTo
    <3> QED BY <3>2, <3>3
  <2> QED BY <2>2, <2>4 DEF Twin
<1>4. (\A i, j \in 1 .. Len(queue) : i # j => ~Twin(queue[i], queue[j]))'
  <2> SUFFICES ASSUME NEW i \in 1 .. Len(queue'), NEW j \in 1 .. Len(queue'), i # j
               PROVE  ~Twin(queue'[i], queue'[j])
    BY <1>1
  <2>1. i + 1 # j + 1
    OBVIOUS
  <2> QED BY <1>2, <2>1 DEF FeedInv, Single
<1>5. (\A d \in Conns : \A i \in 1 .. Len(outbox[d]), j \in 1 .. Len(queue) :
          ~Twin(outbox[d][i], queue[j]))'
  BY <1>1, <1>2 DEF FeedInv, Single
<1>6. \A c \in Conns : \A i \in 1 .. Len(log'[c]), j \in 1 .. Len(queue') :
          ~Again(log'[c][i], queue'[j], c)
  <2> SUFFICES ASSUME NEW c \in Conns, NEW i \in 1 .. Len(log'[c]), NEW j \in 1 .. Len(queue'),
                      Again(log'[c][i], queue'[j], c)
               PROVE  FALSE
    OBVIOUS
  <2>1. c \in to /\ log'[c][i] = q.event
    BY <1>2 DEF FeedInv, Single
  <2>2. Twin(queue'[j], q)
    BY <1>2, <1>3, <2>1 DEF FeedInv, Routing
  <2> QED BY <1>2, <2>2 DEF FeedInv, Single
<1>7. \A c, d \in Conns : \A i \in 1 .. Len(log'[c]), j \in 1 .. Len(outbox[d]) :
          ~Again(log'[c][i], outbox[d][j], c)
  <2> SUFFICES ASSUME NEW c \in Conns, NEW d \in Conns, NEW i \in 1 .. Len(log'[c]),
                      NEW j \in 1 .. Len(outbox[d]), Again(log'[c][i], outbox[d][j], c)
               PROVE  FALSE
    OBVIOUS
  <2>1. c \in to /\ log'[c][i] = q.event
    BY DEF FeedInv, Single
  <2>2. Twin(outbox[d][j], q)
    BY <1>3, <2>1 DEF FeedInv, Routing
  <2> QED BY <2>2 DEF FeedInv, Single
<1>8. AtMostOnce'
  <2> SUFFICES ASSUME NEW c \in Conns, NEW i \in 1 .. Len(log'[c]), NEW j \in 1 .. Len(log'[c]),
                      i # j, log'[c][i] = log'[c][j], log'[c][i].type = "message",
                      ~ToSelf(log'[c][i].id)
               PROVE  FALSE
    BY <1>1 DEF AtMostOnce
  <2>1. \/ i \in 1 .. Len(log[c]) /\ log'[c][i] = log[c][i] /\ c \in to /\ log'[c][j] = q.event
        \/ j \in 1 .. Len(log[c]) /\ log'[c][j] = log[c][j] /\ c \in to /\ log'[c][i] = q.event
    BY DEF FeedInv, Single, AtMostOnce
  <2>2. \A k \in 1 .. Len(log[c]) : ~Again(log[c][k], q, c)
    BY DEF FeedInv, Single
  <2> QED BY <2>1, <2>2 DEF Again
<1>9. \A d \in Conns : \A i, j \in 1 .. Len(outbox[d]) :
          i # j => ~Twin(outbox[d][i], outbox[d][j])
  BY DEF FeedInv, Single
<1>10. (\A c \in Conns : \A i \in 1 .. Len(log[c]), j \in 1 .. Len(queue) :
           ~Again(log[c][i], queue[j], c))'
  BY <1>1, <1>6
<1>11. (\A c, d \in Conns : \A i \in 1 .. Len(log[c]), j \in 1 .. Len(outbox[d]) :
           ~Again(log[c][i], outbox[d][j], c))'
  BY <1>1, <1>7
<1>12. (\A d \in Conns : \A i, j \in 1 .. Len(outbox[d]) :
           i # j => ~Twin(outbox[d][i], outbox[d][j]))'
  BY <1>1, <1>9
<1> QED BY <1>4, <1>5, <1>8, <1>10, <1>11, <1>12 DEF Single

LEMMA RelayRouting ==
    ASSUME FeedInv, NEW q \in Pieces, NEW to \in SUBSET Conns, Relays(q, to)
    PROVE  Routing'
<1>1. UNCHANGED <<stored, outbox, listeners>>
  BY DEF Relays
<1>2. /\ \A n, dest : GoesTo(n, dest)' <=> GoesTo(n, dest)
      /\ \A dest, c : Reaches(dest, c)' <=> Reaches(dest, c)
      /\ \A r : Traced(r)' <=> Traced(r)
      /\ \A c, n : Newest(c, n)' <=> Newest(c, n)
  BY <1>1 DEF GoesTo, Reaches, Traced, Newest
<1>3. Traced(q)
  BY DEF FeedInv, Routing, Relays
<1>4. \A j \in 1 .. Len(queue') : j + 1 \in 1 .. Len(queue) /\ queue'[j] = queue[j + 1]
  BY DEF Relays
<1>5. (\A k \in 1 .. Len(queue) : Traced(queue[k]))'
  BY <1>2, <1>4 DEF FeedInv, Routing
<1>6. (\A c \in Conns : \A i \in 1 .. Len(log[c]) : log[c][i].type = "message" =>
          /\ log[c][i].id \in 1 .. Len(stored)
          /\ \E dest \in Dests : GoesTo(log[c][i].id, dest) /\ Reaches(dest, c))'
  <2> SUFFICES ASSUME NEW c \in Conns, NEW i \in 1 .. Len(log'[c]), log'[c][i].type = "message"
               PROVE  /\ log'[c][i].id \in 1 .. Len(stored)
                      /\ \E dest \in Dests : GoesTo(log'[c][i].id, dest) /\ Reaches(dest, c)
    BY <1>1, <1>2
  <2>1. CASE i \in 1 .. Len(log[c]) /\ log'[c][i] = log[c][i]
    BY <2>1 DEF FeedInv, Routing
  <2>2. CASE c \in to /\ log'[c][i] = q.event
    <3>1. q.dest \in Dests
      BY DEF Pieces
    <3> QED BY <1>3, <2>2, <3>1 DEF Traced, Relays
  <2> QED BY <2>1, <2>2 DEF Relays
<1> QED BY <1>1, <1>2, <1>5, <1>6 DEF FeedInv, Routing, OwnListeners

LEMMA RelaySorted ==
    ASSUME FeedInv, NEW q \in Pieces, NEW to \in SUBSET Conns, Relays(q, to)
    PROVE  Sorted'
<1>1. UNCHANGED stored
  BY DEF Relays
<1>2. \A e, g : InOrder(e, g)' <=> InOrder(e, g)
  BY <1>1 DEF InOrder, RoomMessage
<1>3. \A j \in 1 .. Len(queue') :
         j \in Nat /\ j + 1 \in 1 .. Len(queue) /\ 1 < j + 1 /\ queue'[j] = queue[j + 1]
  BY DEF Relays
<1>4. 1 \in 1 .. Len(queue) /\ q = queue[1]
  BY DEF Relays
<1>5. (\A i, j \in 1 .. Len(queue) : i < j => InOrder(queue[i].event, queue[j].event))'
  <2> SUFFICES ASSUME NEW i \in 1 .. Len(queue'), NEW j \in 1 .. Len(queue'), i < j
               PROVE  InOrder(queue'[i].event, queue'[j].event)
    BY <1>2
  <2>1. i + 1 < j + 1
    BY <1>3
  <2> QED BY <1>3, <2>1 DEF FeedInv, Sorted
<1>6. \A j \in 1 .. Len(queue') : InOrder(q.event, queue'[j].event)
  BY <1>3, <1>4 DEF FeedInv, Sorted
<1>7. (\A c \in Conns : \A i \in 1 .. Len(log[c]), j \in 1 .. Len(queue) :
          InOrder(log[c][i], queue[j].event))'
  <2> SUFFICES ASSUME NEW c \in Conns, NEW i \in 1 .. Len(log'[c]), NEW j \in 1 .. Len(queue')
               PROVE  InOrder(log'[c][i], queue'[j].event)
    BY <1>2
  <2>1. (i \in 1 .. Len(log[c]) /\ log'[c][i] = log[c][i]) \/ log'[c][i] = q.event
    BY DEF Relays
  <2> QED BY <1>3, <1>6, <2>1 DEF FeedInv, Sorted
<1>8. SenderOrder'
  <2> SUFFICES ASSUME NEW c \in Conns, NEW i \in 1 .. Len(log'[c]), NEW j \in 1 .. Len(log'[c]),
                      i < j
               PROVE  InOrder(log'[c][i], log'[c][j])
    BY <1>2 DEF SenderOrder
  <2>1. i \in 1 .. Len(log[c]) /\ log'[c][i] = log[c][i]
    BY DEF Relays
  <2>2. (j \in 1 .. Len(log[c]) /\ log'[c][j] = log[c][j]) \/ log'[c][j] = q.event
    BY DEF Relays
  <2> QED BY <1>4, <2>1, <2>2 DEF FeedInv, Sorted, SenderOrder
<1> QED BY <1>5, <1>7, <1>8 DEF Sorted

(* A room message is new to all who get it, so it is the last for all. *)
LEMMA RelaySameOrder ==
    ASSUME FeedInv, NEW q \in Pieces, NEW to \in SUBSET Conns, Relays(q, to)
    PROVE  SameOrder'
<1>1. UNCHANGED stored
  BY DEF Relays
<1>2. \A e : RoomMessage(e)' <=> RoomMessage(e)
  BY <1>1 DEF RoomMessage
<1>3. ASSUME RoomMessage(q.event), NEW c \in Conns, NEW i \in 1 .. Len(log[c])
      PROVE  log[c][i] # q.event
  <2>1. ~Again(log[c][i], q, c) /\ Traced(q)
    BY DEF FeedInv, Single, Routing, Relays
  <2>2. stored[q.event.id].dest[1] = "room" /\ q.event.type = "message"
    BY <1>3 DEF RoomMessage
  <2>3. q.dest[1] = "room" /\ ~ToSelf(q.event.id)
    BY <2>1, <2>2 DEF Traced, GoesTo, ToSelf
  <2> QED BY <2>1, <2>2, <2>3 DEF Again, Reaches
<1> SUFFICES ASSUME NEW c \in Conns, NEW d \in Conns,
                    NEW i \in 1 .. Len(log'[c]), NEW j \in 1 .. Len(log'[c]),
                    NEW k \in 1 .. Len(log'[d]), NEW m \in 1 .. Len(log'[d]),
                    i < j, log'[c][i] # log'[c][j],
                    RoomMessage(log'[c][i]), RoomMessage(log'[c][j]),
                    log'[c][i] = log'[d][k], log'[c][j] = log'[d][m]
             PROVE  k < m
  BY <1>2, SameOrderIfNoneSwap
<1>4. Len(log[c]) \in Nat /\ Len(log[d]) \in Nat
  BY DEF Relays
<1>5. i \in 1 .. Len(log[c]) /\ log'[c][i] = log[c][i]
  BY DEF Relays
<1>6. \/ k \in 1 .. Len(log[d]) /\ log'[d][k] = log[d][k]
      \/ k = Len(log[d]) + 1 /\ log'[d][k] = q.event
  BY DEF Relays
<1>7. k \in 1 .. Len(log[d]) /\ log'[d][k] = log[d][k]
  BY <1>3, <1>5, <1>6
<1>8. CASE log'[c][j] = q.event
  <2>1. RoomMessage(q.event) /\ log'[d][m] = q.event
    BY <1>8
  <2>2. m = Len(log[d]) + 1
    <3>1. \/ m \in 1 .. Len(log[d]) /\ log'[d][m] = log[d][m]
          \/ m = Len(log[d]) + 1
      BY DEF Relays
    <3> QED BY <1>3, <2>1, <3>1
  <2> QED BY <1>4, <1>7, <2>2
<1>9. CASE log'[c][j] # q.event
  <2>1. /\ j \in 1 .. Len(log[c]) /\ log'[c][j] = log[c][j]
        /\ m \in 1 .. Len(log[d]) /\ log'[d][m] = log[d][m]
    BY <1>9 DEF Relays
  <2> QED BY <1>5, <1>7, <2>1 DEF FeedInv, SameOrder
<1> QED BY <1>8, <1>9

LEMMA InvRelay == ASSUME FeedInv, TypeOK', Relay PROVE FeedInv'
BY RelayShape, RelayRouting, RelaySingle, RelaySorted, RelaySameOrder DEF FeedInv

-----------------------------------------------------------------------------

LEMMA FeedInit == Init => FeedInv
<1> SUFFICES ASSUME Init PROVE FeedInv
  OBVIOUS
<1>1. Len(queue) = 0 /\ \A c \in Conns : Len(log[c]) = 0 /\ Len(outbox[c]) = 0
  BY DEF Init
<1>2. OwnListeners
  BY DEF Init, OwnListeners, Dests
<1>3. 1 .. 0 = {}
  OBVIOUS
<1> QED
  BY <1>1, <1>2, <1>3, TypeInit
     DEF FeedInv, Routing, Single, AtMostOnce, Sorted, SenderOrder, SameOrder

LEMMA FeedStep ==
    ASSUME UserOf \in [Conns -> Users], FeedInv, [Next]_vars
    PROVE  FeedInv'
<1>1. TypeOK'
  BY TypeStep DEF FeedInv
<1>2. CASE UNCHANGED vars
  <2> DEFINE f == [c \in Conns |-> [k \in Nat |-> k]]
  <2>1. UNCHANGED <<stored, outbox, queue>> /\ OwnListeners' /\ log' = log
    BY <1>2 DEF vars, FeedInv, Routing, OwnListeners
  <2>2. \A c \in Conns : \A k \in 1 .. Len(log'[c]) : k \in Nat /\ f[c][k] = k
    BY <1>1, LengthsOK DEF Lengths
  <2> HIDE DEF f
  <2>3. Thinned(f)
    BY <2>1, <2>2 DEF Thinned
  <2> QED BY <1>1, <2>1, <2>3, ThinnedStep
<1> QED
  BY <1>1, <1>2, InvPost, InvWhisper, InvPublish, InvLose, InvRelay, InvTune DEF Next

LEMMA FeedCorrect == ASSUME UserOf \in [Conns -> Users] PROVE Spec => []FeedInv
<1>1. FeedInv /\ [Next]_vars => FeedInv'
  BY FeedStep
<1> QED BY <1>1, FeedInit, PTL DEF Spec

(* Whatever the feed drops, readers see room messages in one order.         *)
THEOREM FeedSameOrder == ASSUME UserOf \in [Conns -> Users] PROVE Spec => []SameOrder
<1>1. FeedInv => SameOrder
  BY DEF FeedInv
<1> QED BY <1>1, FeedCorrect, PTL

(* ... and those of one sender in the order it sent them.                   *)
THEOREM FeedSenderOrder == ASSUME UserOf \in [Conns -> Users] PROVE Spec => []SenderOrder
<1>1. FeedInv => SenderOrder
  BY DEF FeedInv, Sorted
<1> QED BY <1>1, FeedCorrect, PTL

(* The two copies of a direct message reach different connections, unless   *)
(* its two users are one.                                                   *)
THEOREM FeedAtMostOnce == ASSUME UserOf \in [Conns -> Users] PROVE Spec => []AtMostOnce
<1>1. FeedInv => AtMostOnce
  BY DEF FeedInv, Single
<1> QED BY <1>1, FeedCorrect, PTL

(* No third user's connection is given a direct message.                    *)
THEOREM FeedDirectIsPrivate ==
    ASSUME UserOf \in [Conns -> Users] PROVE Spec => []DirectIsPrivate
<1>1. FeedInv => DirectIsPrivate
  <2> SUFFICES ASSUME FeedInv, NEW c \in Conns, NEW i \in 1 .. Len(log[c]),
                      log[c][i].type = "message",
                      stored[log[c][i].id].dest[1] = "user"
               PROVE  LET m == stored[log[c][i].id]
                      IN UserOf[c] \in {m.dest[2], UserOf[m.sender]}
    BY DEF DirectIsPrivate
  <2>1. PICK dest \in Dests : GoesTo(log[c][i].id, dest) /\ Reaches(dest, c)
    BY DEF FeedInv, Routing
  <2> QED BY <2>1 DEF GoesTo, Reaches
<1> QED BY <1>1, FeedCorrect, PTL
=============================================================================
