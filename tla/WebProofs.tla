------------------------------ MODULE WebProofs ------------------------------
(***************************************************************************)
(* What a page of the web client shows: messages of its own user only, none *)
(* missing that came through, none more often than it came, and what is     *)
(* typed goes out under the user that is shown.                             *)
(***************************************************************************)
EXTENDS Web, SequenceTheorems, FiniteSetTheorems, FunctionTheorems, TLAPS

(* A browser sends direct messages only. *)
Rows == [sender : Conns, dest : {"user"} \X Users]

Events == [type : {"message"}, id : Nat]
Pieces == [dest : {"user"} \X Users, event : Events, exclude : {NoConn}]

Concerns(id, u) == id \in DOMAIN stored /\ u \in Parties(id)

TablesInv ==
    /\ stored \in Seq(Rows)
    /\ Len(stored) <= MaxPosts
    /\ {made, turns} \subseteq Nat
    /\ made <= MaxLoads /\ turns <= MaxTurns

(* What is published goes to a user of the message, and what a socket has   *)
(* been given is its user's; there are two copies of a message at most.     *)
GatewayInv ==
    /\ listeners \in [Dests -> SUBSET Conns]
    /\ \A u \in Users : \A c \in listeners[<<"user", u>>] : UserOf[c] = u
    /\ queue \in Seq(Pieces)
    /\ \A i \in 1 .. Len(queue) : Concerns(queue[i].event.id, queue[i].dest[2])
    /\ log \in [Conns -> Seq(Events)]
    /\ \A c \in Conns : \A i \in 1 .. Len(log[c]) : Concerns(log[c][i].id, UserOf[c])
    /\ \A c \in Conns : Len(queue) + Len(log[c]) <= 2 * Len(stored)

(* A socket in use belongs to a browser, and its handlers speak of a user   *)
(* this page was logged in as, which is the socket's own.                   *)
SocketInv ==
    /\ link \in [Conns -> {"unused", "opening", "open", "lost", "closed"}]
    /\ self \in [Conns -> Users \cup {Nobody}]
    /\ seen \in [Conns -> Nat]
    /\ socket \in [Browsers -> Conns \cup {Nobody}]
    /\ mixed \subseteq Browsers
    /\ been \in [Browsers -> SUBSET Users]
    /\ \A b \in Browsers : socket[b] \in SocketsOf(b) \cup {Nobody}
    /\ \A c \in Conns :
          /\ seen[c] <= Len(log[c])
          /\ link[c] = "unused" => seen[c] = 0
          /\ link[c] \in {"opening", "open", "lost"} => self[c] # Nobody
          /\ self[c] # Nobody =>
                /\ BrowserOf[c] \in Browsers
                /\ self[c] \in been[BrowserOf[c]]
                /\ BrowserOf[c] \notin mixed => self[c] = UserOf[c]

PageInv ==
    /\ accounts \subseteq Users
    /\ server \in {"up", "down"}
    /\ auth \in [Browsers -> [token : Users \cup {Nobody}, user : Users \cup {Nobody}]]
    /\ activeDM \in [Browsers -> Users \cup {Nobody}]
    /\ \A b \in Browsers : OnPage(b) => auth[b].token \in been[b]

Requests == [call   : [what : {"me", "history"}, as : Users, peer : Users \cup {Nobody}],
             n      : 0 .. MaxLoads + MaxTurns,
             answer : {Pending} \cup (Seq(Nat) \X Nat)]

(* ids is what ListDMs returned to u when the n-th message was the last. *)
IsAnswer(u, k, ids, n) ==
    /\ n \in 0 .. Len(stored)
    /\ ids \in Seq(Between(u, k))
    /\ \A i, j \in DOMAIN ids : ids[i] = ids[j] => i = j
    /\ \A id \in Between(u, k) : id <= n =>
          \/ \E i \in DOMAIN ids : ids[i] = id
          \/ Len(ids) = HistoryLimit /\ id < ids[1]

(* Whom a call is made for was logged in on the page. *)
CallOK(b, k) ==
    /\ k.call.as \in been[b]
    /\ k.call.what = "history" => k.call.peer \in Users
    /\ k.answer # Pending => IsAnswer(k.call.as, k.call.peer, k.answer[1], k.answer[2])

CallsInv ==
    /\ calls \in [Browsers -> SUBSET Requests]
    /\ \A b \in Browsers : \A k \in calls[b] : CallOK(b, k)

ThreadInv ==
    /\ thread \in [Browsers -> [Users -> Seq(1 .. Len(stored))]]
    /\ applied \in [Browsers -> [Users -> {Pending} \cup (Users \X Seq(Nat) \X Nat)]]

BaseInv == TablesInv /\ GatewayInv /\ SocketInv /\ PageInv /\ CallsInv

WebInv ==
    /\ BaseInv /\ ThreadInv
    /\ ThreadsAreOwn /\ NothingHidden /\ CopiesAreBrought /\ SpeaksAsSelf

----------------------------------------------------------------------------
(* The answers of ListDMs.                                                  *)

(* A set of numbers can be put in order. *)
LEMMA OrderExists ==
    ASSUME NEW S, S \subseteq Nat, IsFiniteSet(S)
    PROVE  \E s \in [1 .. Cardinality(S) -> S] : \A i, j \in DOMAIN s : i < j => s[i] < s[j]
<1> DEFINE N == Cardinality(S)
           Below(x) == {y \in S : y < x}
           rank == [x \in S |-> Cardinality(Below(x)) + 1]
<1>1. N \in Nat
  BY FS_CardinalityType
<1>2. ASSUME NEW x \in S
      PROVE  IsFiniteSet(Below(x)) /\ Cardinality(Below(x)) \in Nat /\ Cardinality(Below(x)) < N
  <2>1. IsFiniteSet(Below(x)) /\ Cardinality(Below(x)) <= N
        /\ (Cardinality(S) = Cardinality(Below(x)) => S = Below(x))
    BY FS_Subset, Below(x) \in SUBSET S
  <2>2. Cardinality(Below(x)) \in Nat
    BY <2>1, FS_CardinalityType
  <2>3. S # Below(x)
    <3>1. x \notin Below(x)
      OBVIOUS
    <3> QED BY <3>1
  <2> QED BY <2>1, <2>2, <2>3, <1>1
<1>3. ASSUME NEW x \in S, NEW y \in S, x < y
      PROVE  Cardinality(Below(x)) < Cardinality(Below(y))
  <2>1. Below(x) \in SUBSET Below(y)
    <3>1. ASSUME NEW z \in S, z < x
          PROVE  z < y
      <4>1. x \in Nat /\ y \in Nat /\ z \in Nat
        OBVIOUS
      <4> QED BY <4>1, <3>1, <1>3
    <3> QED BY <3>1
  <2>2. x \in Below(y) /\ x \notin Below(x)
    BY <1>3
  <2>3. Cardinality(Below(x)) <= Cardinality(Below(y))
        /\ (Cardinality(Below(y)) = Cardinality(Below(x)) => Below(y) = Below(x))
    BY <2>1, <1>2, FS_Subset
  <2> QED BY <2>2, <2>3, <1>2
<1>4. rank \in Injection(S, 1 .. N)
  <2>1. rank \in [S -> 1 .. N]
    BY <1>1, <1>2
  <2>2. ASSUME NEW x \in S, NEW y \in S, rank[x] = rank[y]
        PROVE  x = y
    <3>1. Cardinality(Below(x)) = Cardinality(Below(y))
      BY <2>2, <1>2
    <3>2. ~(x < y) /\ ~(y < x)
      BY <3>1, <1>2, <1>3
    <3> QED BY <3>2
  <2> QED BY <2>1, <2>2 DEF Injection, IsInjective
<1>5. rank \in Surjection(S, 1 .. N)
  <2>1. IsFiniteSet(1 .. N) /\ Cardinality(1 .. N) = N
    BY <1>1, FS_Interval
  <2> QED BY <1>4, <2>1, FS_Injection
<1> HIDE DEF rank
<1>6. \A i \in 1 .. N : \E x \in S : rank[x] = i
  BY <1>5 DEF Surjection
<1> DEFINE w == [i \in 1 .. N |-> CHOOSE x \in S : rank[x] = i]
<1>7. w \in [1 .. N -> S] /\ \A i \in 1 .. N : rank[w[i]] = i
  BY <1>6
<1> HIDE DEF w
<1>8. ASSUME NEW i \in DOMAIN w, NEW j \in DOMAIN w, i < j
      PROVE  w[i] < w[j]
  <2>0. i \in 1 .. N /\ j \in 1 .. N
    BY <1>7
  <2>1. w[i] \in S /\ w[j] \in S /\ w[i] # w[j]
    BY <1>7, <1>8, <2>0, <1>1
  <2>2. CASE w[j] < w[i]
    <3>1. rank[w[j]] < rank[w[i]]
      <4>1. Cardinality(Below(w[j])) < Cardinality(Below(w[i]))
        BY <2>2, <2>1, <1>3
      <4>2. /\ rank[w[j]] = Cardinality(Below(w[j])) + 1
            /\ rank[w[i]] = Cardinality(Below(w[i])) + 1
        BY <2>1 DEF rank
      <4>3. Cardinality(Below(w[j])) \in Nat /\ Cardinality(Below(w[i])) \in Nat
        BY <2>1, <1>2
      <4> QED BY <4>1, <4>2, <4>3
    <3>2. rank[w[j]] = j /\ rank[w[i]] = i
      BY <2>0, <1>7
    <3> QED BY <3>1, <3>2, <2>0, <1>1, <1>8
  <2>3. w[i] \in Nat /\ w[j] \in Nat
    BY <2>1
  <2> QED BY <2>1, <2>2, <2>3
<1> QED BY <1>7, <1>8

(* Ascending lists every element of the set, once, in order. *)
LEMMA AscendingWorks ==
    ASSUME NEW S, S \subseteq Nat, IsFiniteSet(S)
    PROVE  /\ Cardinality(S) \in Nat
           /\ Ascending(S) \in [1 .. Cardinality(S) -> S]
           /\ \A i, j \in 1 .. Cardinality(S) : i < j => Ascending(S)[i] < Ascending(S)[j]
           /\ \A x \in S : \E i \in 1 .. Cardinality(S) : Ascending(S)[i] = x
<1> DEFINE N == Cardinality(S)
           s == Ascending(S)
<1>1. N \in Nat
  BY FS_CardinalityType
<1>2. s \in [1 .. N -> S] /\ \A i, j \in DOMAIN s : i < j => s[i] < s[j]
  BY OrderExists DEF Ascending
<1> HIDE DEF s
<1>3. s \in Injection(1 .. N, S)
  <2>1. ASSUME NEW i \in 1 .. N, NEW j \in 1 .. N, s[i] = s[j]
        PROVE  i = j
    <3>1. s[i] \in Nat /\ s[j] \in Nat
      BY <1>2
    <3> QED BY <1>2, <2>1, <3>1
  <2> QED BY <2>1, <1>2 DEF Injection, IsInjective
<1>4. s \in Surjection(1 .. N, S)
  <2>1. Cardinality(1 .. N) = N
    BY <1>1, FS_Interval
  <2> QED BY <1>3, <2>1, FS_Injection
<1> QED BY <1>1, <1>2, <1>4 DEF s, Surjection

(* What ListDMs returns is an answer. *)
LEMMA ListDMsAnswers ==
    ASSUME stored \in Seq(Rows), NEW u \in Users, NEW k \in Users
    PROVE  IsAnswer(u, k, ListDMs(u, k), Len(stored)) /\ ListDMs(u, k) \in Seq(Nat)
<1> DEFINE B == Between(u, k)
           N == Cardinality(B)
           ids == Ascending(B)
           m == IF N > HistoryLimit THEN N - HistoryLimit + 1 ELSE 1
           ans == SubSeq(ids, m, N)
<1>1. Len(stored) \in Nat /\ DOMAIN stored = 1 .. Len(stored)
  OBVIOUS
<1>2. B \subseteq Nat /\ IsFiniteSet(B) /\ B \subseteq 1 .. Len(stored)
  <2>1. B \in SUBSET (1 .. Len(stored))
    BY <1>1 DEF Between
  <2>2. IsFiniteSet(1 .. Len(stored))
    BY <1>1, FS_Interval
  <2> QED BY <2>1, <2>2, <1>1, FS_Subset
<1> HIDE DEF B
<1>3. /\ N \in Nat
      /\ ids \in [1 .. N -> B]
      /\ \A i, j \in 1 .. N : i < j => ids[i] < ids[j]
      /\ \A x \in B : \E i \in 1 .. N : ids[i] = x
  BY <1>2, AscendingWorks
<1> HIDE DEF ids, N
<1>4. ids \in Seq(B) /\ Len(ids) = N
  BY <1>3
<1>5. HistoryLimit \in Nat /\ HistoryLimit > 0
  BY WebAssumption
<1>6. m \in 1 .. N + 1 /\ (N > HistoryLimit => N - m + 1 = HistoryLimit) /\ (N <= HistoryLimit => m = 1)
  BY <1>3, <1>5
<1>7. ListDMs(u, k) = ans
  BY <1>4 DEF ListDMs, ids, B
<1> HIDE DEF m
<1>8. /\ ans \in Seq(B)
      /\ Len(ans) = N - m + 1
      /\ \A i \in 1 .. N - m + 1 : ans[i] = ids[m + i - 1]
  <2>1. \A i \in m .. N : ids[i] \in B
    BY <1>3, <1>6
  <2>2. m \in Int /\ N \in Int
    BY <1>3, <1>6
  <2>3. /\ SubSeq(ids, m, N) \in Seq(B)
        /\ Len(SubSeq(ids, m, N)) = IF m <= N THEN N - m + 1 ELSE 0
        /\ \A i \in 1 .. N - m + 1 : SubSeq(ids, m, N)[i] = ids[m + i - 1]
    BY <2>1, <2>2, SubSeqProperties
  <2> QED BY <2>3, <1>3, <1>6
<1> HIDE DEF ans
<1>9. ASSUME NEW i \in DOMAIN ans, NEW j \in DOMAIN ans, ans[i] = ans[j]
      PROVE  i = j
  <2>1. i \in 1 .. N - m + 1 /\ j \in 1 .. N - m + 1
    <3>1. N - m + 1 \in Nat
      BY <1>3, <1>6
    <3>2. DOMAIN ans = 1 .. N - m + 1
      BY <1>8
    <3> QED BY <3>2
  <2>2. m + i - 1 \in 1 .. N /\ m + j - 1 \in 1 .. N
    <3>1. \A x \in 1 .. N - m + 1 : m + x - 1 \in 1 .. N
      BY <1>3, <1>6
    <3> QED BY <2>1, <3>1
  <2>3. ids[m + i - 1] = ids[m + j - 1]
    BY <2>1, <1>8, <1>9
  <2>4. ids[m + i - 1] \in Nat /\ ids[m + j - 1] \in Nat
    BY <2>2, <1>2, <1>3
  <2>5. ~(m + i - 1 < m + j - 1) /\ ~(m + j - 1 < m + i - 1)
    BY <2>2, <2>3, <2>4, <1>3
  <2> QED BY <2>1, <2>5, <1>3, <1>6
<1>10. ASSUME NEW id \in B
       PROVE  \/ \E i \in DOMAIN ans : ans[i] = id
              \/ Len(ans) = HistoryLimit /\ id < ans[1]
  <2>1. PICK p \in 1 .. N : ids[p] = id
    BY <1>3
  <2>2. CASE p >= m
    <3>1. p - m + 1 \in 1 .. N - m + 1 /\ m + (p - m + 1) - 1 = p
      BY <2>2, <1>3, <1>6
    <3>2. ans[p - m + 1] = ids[p]
      BY <3>1, <1>8
    <3>3. p - m + 1 \in DOMAIN ans
      BY <3>1, <1>8
    <3> QED BY <2>1, <3>2, <3>3
  <2>3. CASE p < m
    <3>1. N > HistoryLimit /\ m \in 1 .. N
      BY <2>3, <1>3, <1>5, <1>6
    <3>2. Len(ans) = HistoryLimit
      BY <3>1, <1>6, <1>8
    <3>3. 1 \in 1 .. N - m + 1 /\ m + 1 - 1 = m
      BY <3>1, <1>3
    <3>4. ans[1] = ids[m]
      BY <3>3, <1>8
    <3>5. id < ids[m]
      BY <2>1, <2>3, <3>1, <1>3
    <3> QED BY <3>2, <3>4, <3>5
  <2> QED BY <2>2, <2>3, <1>3, <1>6
<1>11. Len(stored) \in 0 .. Len(stored)
  BY <1>1
<1>12. ans \in Seq(Nat)
  <2>1. Len(ans) \in Nat /\ ans \in [1 .. Len(ans) -> B]
    BY <1>8
  <2>2. ans \in [1 .. Len(ans) -> Nat]
    BY <2>1, <1>2
  <2> QED BY <2>1, <2>2
<1> QED BY <1>7, <1>8, <1>9, <1>10, <1>11, <1>12 DEF IsAnswer, B

----------------------------------------------------------------------------
(* The steps, as far as the invariants tell them apart.                     *)

Enters(b, u) == Login(b, u) \/ Register(b, u)

Settles(b, k) == Answer(b, k) \/ HydrateFails(b, k) \/ ShowHistory(b, k) \/ HistoryFails(b, k)

Sends == (\E b \in Browsers : SendMessage(b)) \/ (\E c \in Conns, u \in Users : SendElsewhere(c, u))

(* A step of the page, of a socket or of the server. *)
LEMMA StepIsOneOf ==
    ASSUME [WebNext]_webVars
    PROVE  \/ \E b \in Browsers, u \in Users : Enters(b, u)
           \/ \E b \in Browsers, u \in Users : SelectDM(b, u)
           \/ \E b \in Browsers : \E k \in calls[b] : Settles(b, k)
           \/ \E b \in Browsers : \E k \in calls[b] : Hydrate(b, k)
           \/ \E b \in Browsers : Logout(b)
           \/ \E b \in Browsers : Reload(b)
           \/ \E c \in Conns : Open(c) \/ Break(c)
           \/ \E c \in Conns : OnClose(c)
           \/ \E c \in Conns : OnMessage(c)
           \/ Sends \/ Gateway \/ Stop \/ Restart
           \/ UNCHANGED webVars
BY DEF WebNext, Enters, Settles, Sends

LEMMA EntersIsSignIn ==
    ASSUME NEW b \in Browsers, NEW u \in Users, Enters(b, u)
    PROVE  SignIn(b, u) /\ (accounts' = accounts \/ accounts' = accounts \cup {u})
BY DEF Enters, Login, Register, GetUserByEmail, CreateUser

(* Calls are counted. *)
LEMMA MakeCounts ==
    ASSUME made \in Nat, NEW b, NEW new, IsFiniteSet(new), NEW others, Make(b, new, others)
    PROVE  made' \in Nat /\ made' <= MaxLoads
<1> DEFINE loads == {q \in new : q.what = "history"}
<1>1. IsFiniteSet(loads)
  BY FS_Subset, loads \in SUBSET new
<1>2. Cardinality(loads) \in Nat
  BY <1>1, FS_CardinalityType
<1> QED BY <1>2 DEF Make

LEMMA SomeFinite == \A x, y : IsFiniteSet({}) /\ IsFiniteSet({x}) /\ IsFiniteSet({x, y})
<1> TAKE x, y
<1>1. IsFiniteSet({}) /\ IsFiniteSet({x})
  BY FS_EmptySet, FS_Singleton
<1>2. IsFiniteSet({x} \cup {y})
  BY <1>1, FS_AddElement
<1> QED BY <1>1, <1>2, {x} \cup {y} = {x, y}

(* Turns are few, and so are failures. *)
LEMMA FailureTurns ==
    ASSUME TablesInv, Failure \/ Turn
    PROVE  turns' \in Nat /\ turns' <= MaxTurns
BY WebAssumption DEF TablesInv, Failure, Turn

(* What Send does to the table. *)
LEMMA SendStores ==
    ASSUME TablesInv, NEW c \in Conns, NEW u \in Users, Send(c, <<"user", u>>)
    PROVE  /\ stored' \in Seq(Rows)
           /\ Len(stored') = Len(stored) + 1 /\ Len(stored') <= MaxPosts
           /\ \A id \in 1 .. Len(stored) : stored'[id] = stored[id]
           /\ stored'[Len(stored) + 1] = [sender |-> c, dest |-> <<"user", u>>]
<1>1. [sender |-> c, dest |-> <<"user", u>>] \in Rows
  BY DEF Rows
<1>2. Len(stored) < MaxPosts /\ MaxPosts \in Nat /\ Len(stored) \in Nat
  BY WebAssumption DEF Send, TablesInv
<1>3. /\ stored' \in Seq(Rows) /\ Len(stored') = Len(stored) + 1
      /\ \A id \in 1 .. Len(stored) : stored'[id] = stored[id]
      /\ stored'[Len(stored) + 1] = [sender |-> c, dest |-> <<"user", u>>]
  BY <1>1, AppendProperties DEF Send, TablesInv
<1> QED BY <1>2, <1>3

(* Who sends: a socket, to a user. *)
LEMMA SendsIsSend ==
    ASSUME SocketInv, PageInv, Sends
    PROVE  /\ \E c \in Conns, u \in Users : Send(c, <<"user", u>>)
           /\ UNCHANGED <<server, turns, authVars, calls, made, mixed, socketVars, pageVars>>
           /\ UNCHANGED <<outbox, listeners, log>>
<1>1. ASSUME NEW b \in Browsers, SendMessage(b)
      PROVE  /\ socket[b] \in Conns /\ activeDM[b] \in Users
             /\ Send(socket[b], <<"user", activeDM[b]>>)
  BY <1>1 DEF SendMessage, SocketInv, PageInv
<1>2. ASSUME NEW c \in Conns, NEW u \in Users, SendElsewhere(c, u)
      PROVE  Send(c, <<"user", u>>)
  BY <1>2 DEF SendElsewhere
<1>3. \E c \in Conns, u \in Users : Send(c, <<"user", u>>)
  BY <1>1, <1>2 DEF Sends
<1>4. UNCHANGED <<server, turns, authVars, calls, made, mixed, socketVars, pageVars>>
  BY DEF Sends, SendMessage, SendElsewhere
<1>5. UNCHANGED <<outbox, listeners, log>>
  BY <1>3 DEF Send
<1> QED BY <1>3, <1>4, <1>5

----------------------------------------------------------------------------
(* The tables.                                                              *)

(* Only a sent message changes the table of messages. *)
LEMMA StoredSame ==
    ASSUME [WebNext]_webVars, ~Sends
    PROVE  UNCHANGED stored
<1>1. ASSUME NEW b \in Browsers, NEW u \in Users, Enters(b, u) \/ SelectDM(b, u)
      PROVE  UNCHANGED stored
  BY <1>1, EntersIsSignIn DEF SignIn, SelectDM, vars
<1>2. ASSUME NEW b \in Browsers, NEW k \in calls[b], Settles(b, k) \/ Hydrate(b, k)
      PROVE  UNCHANGED stored
  BY <1>2 DEF Settles, Answer, HydrateFails, ShowHistory, HistoryFails, Hydrate, vars
<1>3. ASSUME NEW b \in Browsers, Logout(b) \/ Reload(b)
      PROVE  UNCHANGED stored
  BY <1>3 DEF Logout, Reload, vars
<1>4. ASSUME NEW c \in Conns, Open(c) \/ Break(c) \/ OnClose(c) \/ OnMessage(c)
      PROVE  UNCHANGED stored
  BY <1>4 DEF Open, Break, OnClose, OnMessage, vars
<1>5. ASSUME Gateway \/ Stop \/ Restart \/ UNCHANGED webVars
      PROVE  UNCHANGED stored
  BY <1>5 DEF Gateway, Relay, Stop, Restart, webVars, vars
<1> QED BY <1>1, <1>2, <1>3, <1>4, <1>5, StepIsOneOf

LEMMA StoredGrows ==
    ASSUME BaseInv, [WebNext]_webVars
    PROVE  /\ stored' \in Seq(Rows)
           /\ Len(stored) \in Nat /\ Len(stored') \in Nat
           /\ Len(stored) <= Len(stored') /\ Len(stored') <= MaxPosts
           /\ \A id \in 1 .. Len(stored) : stored'[id] = stored[id] /\ Parties(id)' = Parties(id)
<1>0. stored \in Seq(Rows) /\ Len(stored) \in Nat /\ Len(stored) <= MaxPosts
  BY DEF BaseInv, TablesInv
<1>1. CASE Sends
  <2>1. PICK c \in Conns, u \in Users : Send(c, <<"user", u>>)
    BY <1>1, SendsIsSend DEF BaseInv
  <2>2. /\ stored' \in Seq(Rows)
        /\ Len(stored') = Len(stored) + 1 /\ Len(stored') <= MaxPosts
        /\ \A id \in 1 .. Len(stored) : stored'[id] = stored[id]
    BY <2>1, SendStores DEF BaseInv
  <2> QED BY <1>0, <2>2 DEF Parties
<1>2. CASE ~Sends
  <2>1. stored' = stored
    BY <1>2, StoredSame
  <2> QED BY <1>0, <2>1 DEF Parties
<1> QED BY <1>1, <1>2

LEMMA TablesStep ==
    ASSUME BaseInv, [WebNext]_webVars
    PROVE  TablesInv'
<1>0. made \in Nat /\ turns \in Nat /\ made <= MaxLoads /\ turns <= MaxTurns
  BY DEF BaseInv, TablesInv
<1> DEFINE Counts == made' \in Nat /\ turns' \in Nat /\ made' <= MaxLoads /\ turns' <= MaxTurns
<1>1. ASSUME NEW b \in Browsers, NEW u \in Users, Enters(b, u)
      PROVE  Counts
  <2> DEFINE new == {Me(u)} \cup (IF activeDM[b] = Nobody THEN {} ELSE {LoadHistory(u, activeDM[b])})
  <2>1. Turn /\ Make(b, new, calls[b])
    BY <1>1, EntersIsSignIn DEF SignIn
  <2>2. new = {Me(u)} \/ new = {Me(u), LoadHistory(u, activeDM[b])}
    OBVIOUS
  <2>3. IsFiniteSet(new)
    BY <2>2, SomeFinite
  <2> QED BY <1>0, <2>1, <2>3, MakeCounts, FailureTurns DEF BaseInv
<1>2. ASSUME NEW b \in Browsers, NEW u \in Users, SelectDM(b, u)
      PROVE  Counts
  <2>1. Make(b, {LoadHistory(auth[b].token, u)}, calls[b]) /\ turns' = turns
    BY <1>2 DEF SelectDM
  <2> QED BY <1>0, <2>1, SomeFinite, MakeCounts
<1>3. ASSUME NEW b \in Browsers, NEW k \in calls[b], Settles(b, k) \/ Hydrate(b, k)
      PROVE  Counts
  <2>1. made' = made /\ (turns' = turns \/ Failure)
    BY <1>3 DEF Settles, Answer, HydrateFails, ShowHistory, HistoryFails, Hydrate
  <2> QED BY <1>0, <2>1, FailureTurns DEF BaseInv
<1>4. ASSUME NEW b \in Browsers, Reload(b)
      PROVE  Counts
  <2> DEFINE new == IF OnPage(b) THEN {Me(auth[b].token)} ELSE {}
  <2>1. Turn /\ Make(b, new, {})
    BY <1>4 DEF Reload
  <2>2. new = {} \/ new = {Me(auth[b].token)}
    OBVIOUS
  <2>3. IsFiniteSet(new)
    BY <2>2, SomeFinite
  <2> QED BY <1>0, <2>1, <2>3, MakeCounts, FailureTurns DEF BaseInv
<1>5. ASSUME NEW c \in Conns, Open(c) \/ Break(c) \/ OnClose(c) \/ OnMessage(c)
      PROVE  Counts
  <2>1. made' = made /\ (turns' = turns \/ Turn)
    BY <1>5 DEF Open, Break, OnClose, OnMessage
  <2> QED BY <1>0, <2>1, FailureTurns DEF BaseInv
<1>6. ASSUME \/ \E b \in Browsers : Logout(b)
             \/ Sends \/ Gateway \/ Stop \/ Restart \/ UNCHANGED webVars
      PROVE  Counts
  <2>1. made' = made /\ (turns' = turns \/ Turn)
    BY <1>6 DEF Logout, Sends, SendMessage, SendElsewhere, Gateway, Stop, Restart, webVars
  <2> QED BY <1>0, <2>1, FailureTurns DEF BaseInv
<1>7. Counts
  BY <1>1, <1>2, <1>3, <1>4, <1>5, <1>6, StepIsOneOf
<1> QED BY <1>7, StoredGrows DEF TablesInv

----------------------------------------------------------------------------
(* The gateway.                                                             *)

(* A message concerns the same users for ever. *)
LEMMA ConcernsLasts ==
    ASSUME BaseInv, [WebNext]_webVars
    PROVE  \A id, u : Concerns(id, u) => Concerns(id, u)'
<1>1. DOMAIN stored = 1 .. Len(stored) /\ DOMAIN stored' = 1 .. Len(stored')
  BY StoredGrows DEF BaseInv, TablesInv
<1>2. ASSUME NEW id, NEW u, Concerns(id, u)
      PROVE  Concerns(id, u)'
  <2>1. id \in 1 .. Len(stored) /\ u \in Parties(id)
    BY <1>1, <1>2 DEF Concerns
  <2>2. id \in DOMAIN stored' /\ Parties(id)' = Parties(id)
    BY <1>1, <2>1, StoredGrows
  <2> QED BY <2>1, <2>2 DEF Concerns
<1> QED BY <1>2

LEMMA GatewayQuiet ==
    ASSUME BaseInv, UNCHANGED <<stored, queue, listeners, log>>
    PROVE  GatewayInv'
<1>1. \A id, u : Concerns(id, u)' = Concerns(id, u)
  BY DEF Concerns, Parties
<1> QED BY <1>1 DEF BaseInv, GatewayInv

(* Two copies are published, for the two users of the message. *)
LEMMA GatewaySends ==
    ASSUME BaseInv, [WebNext]_webVars, Sends
    PROVE  GatewayInv'
<1> USE DEF BaseInv
<1>1. PICK c \in Conns, u \in Users : Send(c, <<"user", u>>)
  BY SendsIsSend
<1>2. UNCHANGED <<listeners, log>>
  BY SendsIsSend
<1>3. PICK n \in Nat : n = Len(stored) + 1
  BY DEF TablesInv
<1>4. UserOf[c] \in Users
  BY WebAssumption
<1>5. PICK p : p = [dest |-> <<"user", u>>, event |-> Message(n), exclude |-> NoConn]
  OBVIOUS
<1>6. PICK q : q = [dest |-> <<"user", UserOf[c]>>, event |-> Message(n), exclude |-> NoConn]
  OBVIOUS
<1>7. p \in Pieces /\ q \in Pieces
  BY <1>4, <1>5, <1>6, <1>3 DEF Pieces, Events, Message
<1>8. queue' = queue \o <<p, q>>
  <2>1. <<"user", u>>[1] = "user"
    OBVIOUS
  <2>2. Copies(c, <<"user", u>>, n) = <<p, q>>
    BY <2>1, <1>5, <1>6 DEF Copies, Copy
  <2> QED BY <2>2, <1>1, <1>3 DEF Send
<1>9. <<p, q>> \in Seq(Pieces) /\ Len(<<p, q>>) = 2
  BY <1>7
<1>10. /\ queue' \in Seq(Pieces) /\ Len(queue') = Len(queue) + 2
       /\ \A i \in 1 .. Len(queue) : queue'[i] = queue[i]
       /\ queue'[Len(queue) + 1] = p /\ queue'[Len(queue) + 2] = q
  <2>1. queue \in Seq(Pieces) /\ Len(queue) \in Nat
    BY DEF GatewayInv
  <2>2. /\ queue' \in Seq(Pieces) /\ Len(queue') = Len(queue) + 2
        /\ \A i \in 1 .. Len(queue) + 2 : queue'[i] =
                IF i <= Len(queue) THEN queue[i] ELSE <<p, q>>[i - Len(queue)]
    BY <2>1, <1>8, <1>9, ConcatProperties
  <2>3. (Len(queue) + 1) - Len(queue) = 1 /\ (Len(queue) + 2) - Len(queue) = 2
    BY <2>1
  <2>4. <<p, q>>[1] = p /\ <<p, q>>[2] = q
    OBVIOUS
  <2> QED BY <2>1, <2>2, <2>3, <2>4
<1>11. Concerns(n, u)' /\ Concerns(n, UserOf[c])'
  <2>1. /\ stored' \in Seq(Rows) /\ Len(stored') = n
        /\ stored'[n] = [sender |-> c, dest |-> <<"user", u>>]
    BY <1>1, <1>3, SendStores
  <2>2. Parties(n)' = {UserOf[c], u}
    BY <2>1 DEF Parties
  <2>3. n \in DOMAIN stored'
    BY <2>1, <1>3
  <2> QED BY <2>2, <2>3 DEF Concerns
<1>12. ASSUME NEW i \in 1 .. Len(queue')
       PROVE  Concerns(queue[i].event.id, queue[i].dest[2])'
  <2>0. Len(queue) \in Nat
    BY DEF GatewayInv
  <2>1. CASE i \in 1 .. Len(queue)
    <3>1. queue'[i] = queue[i] /\ Concerns(queue[i].event.id, queue[i].dest[2])
      BY <2>1, <1>10 DEF GatewayInv
    <3>2. PICK id, v : id = queue[i].event.id /\ v = queue[i].dest[2]
      OBVIOUS
    <3>3. Concerns(id, v)'
      BY <3>1, <3>2, ConcernsLasts
    <3> QED BY <3>1, <3>2, <3>3 DEF Concerns, Parties
  <2>2. CASE i = Len(queue) + 1
    <3>1. queue'[i].event.id = n /\ queue'[i].dest[2] = u
      BY <2>2, <1>10, <1>5 DEF Message
    <3> QED BY <3>1, <1>11 DEF Concerns, Parties
  <2>3. CASE i = Len(queue) + 2
    <3>1. queue'[i].event.id = n /\ queue'[i].dest[2] = UserOf[c]
      BY <2>3, <1>10, <1>6 DEF Message
    <3> QED BY <3>1, <1>11 DEF Concerns, Parties
  <2> QED BY <2>0, <2>1, <2>2, <2>3, <1>10
<1>13. ASSUME NEW d \in Conns, NEW i \in 1 .. Len(log'[d])
       PROVE  Concerns(log[d][i].id, UserOf[d])'
  <2>1. Concerns(log[d][i].id, UserOf[d]) /\ log' = log
    BY <1>2 DEF GatewayInv
  <2>2. PICK id : id = log[d][i].id
    OBVIOUS
  <2>3. Concerns(id, UserOf[d])'
    BY <2>1, <2>2, ConcernsLasts
  <2> QED BY <2>1, <2>2, <2>3 DEF Concerns, Parties
<1>14. ASSUME NEW d \in Conns
       PROVE  Len(queue') + Len(log'[d]) <= 2 * Len(stored')
  <2>1. Len(stored') = Len(stored) + 1
    BY <1>1, SendStores
  <2>2. Len(stored) \in Nat
    BY StoredGrows
  <2>3. Len(log[d]) \in Nat /\ Len(queue) \in Nat /\ Len(queue) + Len(log[d]) <= 2 * Len(stored)
    BY DEF GatewayInv
  <2>4. Len(queue') = Len(queue) + 2 /\ log'[d] = log[d]
    BY <1>10, <1>2
  <2>5. \A x, y, z \in Nat : x + y <= 2 * z => (x + 2) + y <= 2 * (z + 1)
    OBVIOUS
  <2>6. (Len(queue) + 2) + Len(log[d]) <= 2 * (Len(stored) + 1)
    BY <2>2, <2>3, <2>5
  <2> QED BY <2>1, <2>4, <2>6
<1> QED BY <1>2, <1>10, <1>12, <1>13, <1>14 DEF GatewayInv

LEMMA ConcernsSame ==
    ASSUME UNCHANGED stored
    PROVE  \A id, u : Concerns(id, u)' = Concerns(id, u)
BY DEF Concerns, Parties

(* The head of the queue is given to connections of the user it is for. *)
LEMMA GatewayRelays ==
    ASSUME BaseInv, Gateway
    PROVE  GatewayInv'
<1>0. GatewayInv
  BY DEF BaseInv
<1>1. PICK q : q = Head(queue)
  OBVIOUS
<1>2. /\ queue # <<>> /\ queue' = Tail(queue)
      /\ UNCHANGED <<stored, listeners>>
  BY DEF Gateway, Relay
<1>3. PICK to \in SUBSET listeners[q.dest] :
          log' = [c \in Conns |-> IF c \in to THEN Append(log[c], q.event) ELSE log[c]]
  BY <1>1 DEF Gateway, Relay, Give
<1>4. /\ q \in Pieces /\ q = queue[1]
      /\ queue' \in Seq(Pieces) /\ Len(queue') = Len(queue) - 1
      /\ \A i \in 1 .. Len(queue') : queue'[i] = queue[i + 1]
  BY <1>0, <1>1, <1>2, HeadTailProperties DEF GatewayInv
<1>5. Len(queue) \in Nat /\ Len(queue) >= 1
  BY <1>0, <1>2 DEF GatewayInv
<1>6. q.event \in Events /\ Concerns(q.event.id, q.dest[2])
  BY <1>0, <1>4, <1>5 DEF GatewayInv, Pieces
<1>7. ASSUME NEW c \in to
      PROVE  c \in Conns /\ UserOf[c] = q.dest[2]
  <2>1. PICK u \in Users : q.dest = <<"user", u>>
    BY <1>4 DEF Pieces
  <2>2. q.dest \in Dests
    BY <2>1 DEF Dests
  <2> QED BY <2>1, <2>2, <1>0, <1>3 DEF GatewayInv
<1>8. ASSUME NEW i \in 1 .. Len(queue')
      PROVE  Concerns(queue[i].event.id, queue[i].dest[2])'
  <2>1. i + 1 \in 1 .. Len(queue)
    BY <1>4, <1>5
  <2>2. Concerns(queue[i + 1].event.id, queue[i + 1].dest[2])
    BY <2>1, <1>0 DEF GatewayInv
  <2>3. queue'[i] = queue[i + 1]
    BY <1>4
  <2> QED BY <2>2, <2>3, <1>2 DEF Concerns, Parties
<1>9. ASSUME NEW c \in Conns
      PROVE  /\ log'[c] \in Seq(Events)
             /\ Len(log'[c]) <= Len(log[c]) + 1
             /\ \A i \in 1 .. Len(log'[c]) : Concerns(log[c][i].id, UserOf[c])'
  <2>0. log[c] \in Seq(Events) /\ Len(log[c]) \in Nat
    BY <1>0 DEF GatewayInv
  <2>1. CASE c \in to
    <3>1. log'[c] = Append(log[c], q.event)
      BY <2>1, <1>3
    <3>2. /\ log'[c] \in Seq(Events) /\ Len(log'[c]) = Len(log[c]) + 1
          /\ \A i \in 1 .. Len(log[c]) : log'[c][i] = log[c][i]
          /\ log'[c][Len(log[c]) + 1] = q.event
      BY <3>1, <2>0, <1>6, AppendProperties
    <3>3. ASSUME NEW i \in 1 .. Len(log'[c])
          PROVE  Concerns(log[c][i].id, UserOf[c])'
      <4>1. CASE i \in 1 .. Len(log[c])
        <5>1. Concerns(log[c][i].id, UserOf[c]) /\ log'[c][i] = log[c][i]
          BY <4>1, <3>2, <1>0 DEF GatewayInv
        <5> QED BY <5>1, <1>2 DEF Concerns, Parties
      <4>2. CASE i = Len(log[c]) + 1
        <5>1. Concerns(q.event.id, UserOf[c]) /\ log'[c][i] = q.event
          BY <4>2, <3>2, <2>1, <1>6, <1>7
        <5> QED BY <5>1, <1>2 DEF Concerns, Parties
      <4> QED BY <4>1, <4>2, <3>2, <2>0
    <3> QED BY <3>2, <3>3, <2>0
  <2>2. CASE c \notin to
    <3>1. log'[c] = log[c]
      BY <2>2, <1>3
    <3>2. \A i \in 1 .. Len(log[c]) : Concerns(log[c][i].id, UserOf[c])
      BY <1>0 DEF GatewayInv
    <3>3. \A i \in 1 .. Len(log'[c]) : Concerns(log[c][i].id, UserOf[c])'
      BY <3>1, <3>2, <1>2 DEF Concerns, Parties
    <3> QED BY <3>1, <3>3, <2>0
  <2> QED BY <2>1, <2>2
<1>10. log' \in [Conns -> Seq(Events)]
  BY <1>3, <1>9
<1>11. ASSUME NEW c \in Conns
       PROVE  Len(queue') + Len(log'[c]) <= 2 * Len(stored')
  <2>1. Len(queue) + Len(log[c]) <= 2 * Len(stored) /\ Len(log[c]) \in Nat
    BY <1>0 DEF GatewayInv
  <2>2. Len(stored) \in Nat
    BY DEF BaseInv, TablesInv
  <2>3. Len(log'[c]) \in Nat /\ Len(log'[c]) <= Len(log[c]) + 1
    BY <1>9
  <2>4. \A w, x, y, z \in Nat : x + y <= 2 * z /\ x >= 1 /\ w <= y + 1 => (x - 1) + w <= 2 * z
    OBVIOUS
  <2>5. (Len(queue) - 1) + Len(log'[c]) <= 2 * Len(stored)
    BY <1>5, <2>1, <2>2, <2>3, <2>4
  <2> QED BY <2>5, <1>4, <1>2
<1> QED BY <1>0, <1>2, <1>4, <1>8, <1>9, <1>10, <1>11 DEF GatewayInv

(* Connections come and go. *)
LEMMA GatewayTunes ==
    ASSUME BaseInv, NEW c \in Conns, Open(c) \/ Break(c)
    PROVE  GatewayInv'
<1>0. GatewayInv
  BY DEF BaseInv
<1>1. UNCHANGED <<stored, queue, log>>
  BY DEF Open, Break
<1>2. <<"user", UserOf[c]>> \in Dests /\ UserOf[c] \in Users
  BY WebAssumption DEF Dests
<1>3. PICK join \in BOOLEAN : Listen(c, join)
  BY DEF Open, Break
<1>4. /\ listeners' \in [Dests -> SUBSET Conns]
      /\ \A d \in Dests : d # <<"user", UserOf[c]>> => listeners'[d] = listeners[d]
      /\ listeners'[<<"user", UserOf[c]>>] \subseteq listeners[<<"user", UserOf[c]>>] \cup {c}
  BY <1>0, <1>2, <1>3 DEF GatewayInv, Listen
<1>5. ASSUME NEW u \in Users, NEW d \in listeners'[<<"user", u>>]
      PROVE  UserOf[d] = u
  <2>1. <<"user", u>> \in Dests
    BY DEF Dests
  <2>2. CASE u = UserOf[c]
    BY <2>2, <1>4, <1>5, <1>0 DEF GatewayInv
  <2>3. CASE u # UserOf[c]
    <3>1. <<"user", u>> # <<"user", UserOf[c]>>
      BY <2>3
    <3> QED BY <3>1, <2>1, <1>4, <1>5, <1>0 DEF GatewayInv
  <2> QED BY <2>2, <2>3
<1> QED BY <1>0, <1>1, <1>4, <1>5, ConcernsSame DEF GatewayInv

LEMMA GatewayStops ==
    ASSUME BaseInv, Stop
    PROVE  GatewayInv'
<1>0. GatewayInv
  BY DEF BaseInv
<1>1. UNCHANGED <<stored, log>> /\ queue' = <<>> /\ listeners' = [d \in Dests |-> {}]
  BY DEF Stop
<1>2. \A u \in Users : <<"user", u>> \in Dests
  BY DEF Dests
<1>3. ASSUME NEW c \in Conns
      PROVE  Len(queue') + Len(log'[c]) <= 2 * Len(stored')
  <2>1. Len(queue) + Len(log[c]) <= 2 * Len(stored) /\ Len(log[c]) \in Nat /\ Len(queue) \in Nat
    BY <1>0 DEF GatewayInv
  <2>2. Len(stored) \in Nat /\ Len(queue') = 0
    BY <1>1 DEF BaseInv, TablesInv
  <2>3. \A x, y, z \in Nat : x + y <= 2 * z => 0 + y <= 2 * z
    OBVIOUS
  <2> QED BY <1>1, <2>1, <2>2, <2>3
<1>4. queue' \in Seq(Pieces) /\ \A i \in 1 .. Len(queue') : FALSE
  BY <1>1
<1> QED BY <1>0, <1>1, <1>2, <1>3, <1>4, ConcernsSame DEF GatewayInv

LEMMA Prefix ==
    ASSUME NEW S, NEW s \in Seq(S), NEW n \in Nat, n <= Len(s)
    PROVE  /\ SubSeq(s, 1, n) \in Seq(S) /\ Len(SubSeq(s, 1, n)) = n
           /\ \A i \in 1 .. n : SubSeq(s, 1, n)[i] = s[i]
<1>1. \A i \in 1 .. n : s[i] \in S
  OBVIOUS
<1>2. 1 \in Int /\ n \in Int
  OBVIOUS
<1>3. /\ SubSeq(s, 1, n) \in Seq(S)
      /\ Len(SubSeq(s, 1, n)) = IF 1 <= n THEN n - 1 + 1 ELSE 0
      /\ \A i \in 1 .. n - 1 + 1 : SubSeq(s, 1, n)[i] = s[1 + i - 1]
  BY <1>1, <1>2, SubSeqProperties
<1>4. n - 1 + 1 = n /\ \A i \in 1 .. n : 1 + i - 1 = i
  OBVIOUS
<1> QED BY <1>3, <1>4

(* A socket that goes, or a page that is loaded anew, forgets events. *)
LEMMA GatewayForgets ==
    ASSUME BaseInv, UNCHANGED <<stored, queue>>,
           log' \in [Conns -> Seq(Events)],
           listeners' \in [Dests -> SUBSET Conns],
           \A d \in Dests : listeners'[d] \subseteq listeners[d],
           \A c \in Conns : /\ Len(log'[c]) <= Len(log[c])
                            /\ \A i \in 1 .. Len(log'[c]) : log'[c][i] = log[c][i]
    PROVE  GatewayInv'
<1>0. GatewayInv
  BY DEF BaseInv
<1>1. \A u \in Users : <<"user", u>> \in Dests
  BY DEF Dests
<1>2. ASSUME NEW c \in Conns
      PROVE  Len(queue') + Len(log'[c]) <= 2 * Len(stored')
  <2>1. Len(queue) + Len(log[c]) <= 2 * Len(stored) /\ Len(log[c]) \in Nat /\ Len(queue) \in Nat
    BY <1>0 DEF GatewayInv
  <2>2. Len(stored) \in Nat /\ Len(log'[c]) \in Nat /\ Len(log'[c]) <= Len(log[c])
    BY DEF BaseInv, TablesInv
  <2>3. \A w, x, y, z \in Nat : x + y <= 2 * z /\ w <= y => x + w <= 2 * z
    OBVIOUS
  <2>4. Len(queue) + Len(log'[c]) <= 2 * Len(stored)
    BY <2>1, <2>2, <2>3
  <2> QED BY <2>4
<1>3. ASSUME NEW c \in Conns, NEW i \in 1 .. Len(log'[c])
      PROVE  Concerns(log[c][i].id, UserOf[c])'
  <2>1. log[c] \in Seq(Events) /\ log'[c] \in Seq(Events) /\ Len(log'[c]) <= Len(log[c])
    BY <1>0 DEF GatewayInv
  <2>2. i \in 1 .. Len(log[c]) /\ log'[c][i] = log[c][i]
    BY <2>1
  <2>3. Concerns(log[c][i].id, UserOf[c])
    BY <2>2, <1>0 DEF GatewayInv
  <2> QED BY <2>2, <2>3 DEF Concerns, Parties
<1>4. \A u \in Users : \A c \in listeners'[<<"user", u>>] : UserOf[c] = u
  BY <1>0, <1>1 DEF GatewayInv
<1> QED BY <1>0, <1>2, <1>3, <1>4, ConcernsSame DEF GatewayInv

(* What OnClose leaves of a log. *)
LEMMA OnCloseLog ==
    ASSUME BaseInv, NEW c \in Conns, OnClose(c)
    PROVE  /\ log' \in [Conns -> Seq(Events)]
           /\ \A d \in Conns : d # c => log'[d] = log[d]
           /\ Len(log'[c]) = seen[c] /\ seen[c] <= Len(log[c])
           /\ \A i \in 1 .. seen[c] : log'[c][i] = log[c][i]
<1>1. log \in [Conns -> Seq(Events)] /\ seen[c] \in Nat /\ seen[c] <= Len(log[c])
  BY DEF BaseInv, GatewayInv, SocketInv
<1>2. log' = [log EXCEPT ![c] = SubSeq(log[c], 1, seen[c])]
  BY DEF OnClose
<1>3. /\ SubSeq(log[c], 1, seen[c]) \in Seq(Events) /\ Len(SubSeq(log[c], 1, seen[c])) = seen[c]
      /\ \A i \in 1 .. seen[c] : SubSeq(log[c], 1, seen[c])[i] = log[c][i]
  BY <1>1, Prefix
<1> QED BY <1>1, <1>2, <1>3

LEMMA GatewayStep ==
    ASSUME BaseInv, [WebNext]_webVars
    PROVE  GatewayInv'
<1>1. CASE \/ \E b \in Browsers, u \in Users : Enters(b, u) \/ SelectDM(b, u)
           \/ \E b \in Browsers : \E k \in calls[b] : Settles(b, k) \/ Hydrate(b, k)
           \/ \E b \in Browsers : Logout(b)
           \/ \E c \in Conns : OnMessage(c)
           \/ Restart \/ UNCHANGED webVars
  <2>1. ASSUME NEW b \in Browsers, NEW u \in Users, Enters(b, u) \/ SelectDM(b, u)
        PROVE  UNCHANGED vars
    BY <2>1, EntersIsSignIn DEF SignIn, SelectDM, vars
  <2>2. ASSUME NEW b \in Browsers, NEW k \in calls[b], Settles(b, k) \/ Hydrate(b, k)
        PROVE  UNCHANGED vars
    BY <2>2 DEF Settles, Answer, HydrateFails, ShowHistory, HistoryFails, Hydrate
  <2>3. ASSUME NEW b \in Browsers, Logout(b)
        PROVE  UNCHANGED vars
    BY <2>3 DEF Logout
  <2>4. ASSUME NEW c \in Conns, OnMessage(c)
        PROVE  UNCHANGED vars
    BY <2>4 DEF OnMessage
  <2>5. ASSUME Restart \/ UNCHANGED webVars
        PROVE  UNCHANGED vars
    BY <2>5 DEF Restart, webVars
  <2>6. UNCHANGED vars
    BY <1>1, <2>1, <2>2, <2>3, <2>4, <2>5
  <2> QED BY <2>6, GatewayQuiet DEF vars
<1>2. ASSUME NEW c \in Conns, OnClose(c)
      PROVE  GatewayInv'
  <2>1. UNCHANGED <<stored, queue, listeners>>
    BY <1>2 DEF OnClose
  <2>2. /\ listeners' \in [Dests -> SUBSET Conns]
        /\ \A d \in Dests : listeners'[d] \subseteq listeners[d]
    BY <2>1 DEF BaseInv, GatewayInv
  <2>3. \A d \in Conns : /\ Len(log'[d]) <= Len(log[d])
                         /\ \A i \in 1 .. Len(log'[d]) : log'[d][i] = log[d][i]
    <3>1. \A d \in Conns : Len(log[d]) \in Nat
      BY DEF BaseInv, GatewayInv
    <3> QED BY <1>2, <3>1, OnCloseLog
  <2> QED BY <1>2, <2>1, <2>2, <2>3, OnCloseLog, GatewayForgets
<1>3. ASSUME NEW b \in Browsers, Reload(b)
      PROVE  GatewayInv'
  <2>1. UNCHANGED <<stored, queue>>
    BY <1>3 DEF Reload
  <2>2. /\ log' = [c \in Conns |-> IF c \in SocketsOf(b) THEN <<>> ELSE log[c]]
        /\ listeners' = [d \in Dests |-> listeners[d] \ SocketsOf(b)]
    BY <1>3 DEF Reload
  <2>3. log \in [Conns -> Seq(Events)] /\ listeners \in [Dests -> SUBSET Conns]
    BY DEF BaseInv, GatewayInv
  <2>4. /\ listeners' \in [Dests -> SUBSET Conns]
        /\ \A d \in Dests : listeners'[d] \subseteq listeners[d]
    BY <2>2, <2>3
  <2>5. log' \in [Conns -> Seq(Events)]
    BY <2>2, <2>3
  <2>6. ASSUME NEW c \in Conns
        PROVE  /\ Len(log'[c]) <= Len(log[c])
               /\ \A i \in 1 .. Len(log'[c]) : log'[c][i] = log[c][i]
    <3>1. log'[c] = <<>> \/ log'[c] = log[c]
      BY <2>2
    <3>2. Len(log[c]) \in Nat
      BY <2>3
    <3> QED BY <3>1, <3>2
  <2> QED BY <2>1, <2>4, <2>5, <2>6, GatewayForgets
<1> QED BY <1>1, <1>2, <1>3, GatewaySends, GatewayRelays, GatewayTunes, GatewayStops, StepIsOneOf

----------------------------------------------------------------------------
(* Sockets.                                                                 *)

(* The new socket of a page. *)
LEMMA ConnectMakes ==
    ASSUME BaseInv, NEW b \in Browsers, NEW token, NEW user \in Users, Connect(b, token, user)
    PROVE  \E c \in SocketsOf(b) :
              /\ c \in Conns /\ BrowserOf[c] = b /\ UserOf[c] = token
              /\ link[c] = "unused" /\ seen[c] = 0
              /\ link'   = [link EXCEPT ![c] = "opening"]
              /\ self'   = [self EXCEPT ![c] = user]
              /\ socket' = [socket EXCEPT ![b] = c]
              /\ mixed'  = IF token = user THEN mixed ELSE mixed \cup {b}
              /\ UNCHANGED seen
<1> DEFINE fresh == {c \in SocketsOf(b) : link[c] = "unused" /\ UserOf[c] = token}
<1>1. PICK c : c = CHOOSE x \in fresh : TRUE
  OBVIOUS
<1>2. fresh # {}
  BY DEF Connect
<1>3. c \in fresh
  BY <1>1, <1>2
<1>4. /\ link'   = [link EXCEPT ![c] = "opening"]
      /\ self'   = [self EXCEPT ![c] = user]
      /\ socket' = [socket EXCEPT ![b] = c]
      /\ mixed'  = IF token = user THEN mixed ELSE mixed \cup {b}
      /\ UNCHANGED seen
  BY <1>1 DEF Connect
<1>5. c \in SocketsOf(b) /\ link[c] = "unused" /\ UserOf[c] = token
  BY <1>3
<1>6. c \in Conns /\ BrowserOf[c] = b
  BY <1>5 DEF SocketsOf
<1>7. seen[c] = 0
  BY <1>5, <1>6 DEF BaseInv, SocketInv
<1> QED BY <1>4, <1>5, <1>6, <1>7

LEMMA SocketConnects ==
    ASSUME BaseInv, NEW b \in Browsers, NEW token, NEW user \in Users, Connect(b, token, user),
           UNCHANGED log,
           been' \in [Browsers -> SUBSET Users],
           \A d \in Browsers : been[d] \subseteq been'[d],
           user \in been'[b]
    PROVE  SocketInv'
<1>0. SocketInv
  BY DEF BaseInv
<1>1. PICK c \in SocketsOf(b) :
              /\ c \in Conns /\ BrowserOf[c] = b /\ UserOf[c] = token
              /\ link[c] = "unused" /\ seen[c] = 0
              /\ link'   = [link EXCEPT ![c] = "opening"]
              /\ self'   = [self EXCEPT ![c] = user]
              /\ socket' = [socket EXCEPT ![b] = c]
              /\ mixed'  = IF token = user THEN mixed ELSE mixed \cup {b}
              /\ UNCHANGED seen
  BY ConnectMakes
<1>2. /\ link' \in [Conns -> {"unused", "opening", "open", "lost", "closed"}]
      /\ self' \in [Conns -> Users \cup {Nobody}]
      /\ seen' \in [Conns -> Nat]
      /\ socket' \in [Browsers -> Conns \cup {Nobody}]
      /\ mixed' \subseteq Browsers
  BY <1>0, <1>1 DEF SocketInv
<1>3. \A d \in Browsers : socket'[d] \in SocketsOf(d) \cup {Nobody}
  BY <1>0, <1>1 DEF SocketInv
<1>4. ASSUME NEW d \in Conns
      PROVE  /\ seen'[d] <= Len(log'[d])
             /\ link'[d] = "unused" => seen'[d] = 0
             /\ link'[d] \in {"opening", "open", "lost"} => self'[d] # Nobody
             /\ self'[d] # Nobody =>
                   /\ BrowserOf[d] \in Browsers
                   /\ self'[d] \in been'[BrowserOf[d]]
                   /\ BrowserOf[d] \notin mixed' => self'[d] = UserOf[d]
  <2>1. CASE d = c
    <3>1. link'[d] = "opening" /\ self'[d] = user /\ seen'[d] = seen[d]
      BY <1>0, <1>1, <2>1 DEF SocketInv
    <3>2. user # Nobody
      BY WebAssumption
    <3>3. b \notin mixed' => token = user
      BY <1>1
    <3>4. seen[d] <= Len(log[d])
      BY <1>0 DEF SocketInv
    <3> QED BY <1>1, <2>1, <3>1, <3>2, <3>3, <3>4
  <2>2. CASE d # c
    <3>1. link'[d] = link[d] /\ self'[d] = self[d] /\ seen'[d] = seen[d]
      BY <1>0, <1>1, <2>2 DEF SocketInv
    <3>2. mixed \subseteq mixed'
      BY <1>1
    <3> QED BY <1>0, <3>1, <3>2 DEF SocketInv
  <2> QED BY <2>1, <2>2
<1> QED BY <1>2, <1>3, <1>4 DEF SocketInv, SocketsOf

LEMMA SocketQuiet ==
    ASSUME BaseInv, UNCHANGED <<socketVars, been, mixed>>,
           \A c \in Conns : Len(log[c]) <= Len(log'[c]) /\ Len(log[c]) \in Nat /\ Len(log'[c]) \in Nat
    PROVE  SocketInv'
<1>1. \A c \in Conns : seen[c] <= Len(log'[c])
  BY DEF BaseInv, SocketInv
<1> QED BY <1>1 DEF BaseInv, SocketInv, socketVars, SocketsOf

LEMMA SocketLinks ==
    ASSUME BaseInv, \/ \E c \in Conns : Open(c) \/ Break(c)
                    \/ Stop
    PROVE  SocketInv'
<1>0. SocketInv
  BY DEF BaseInv
<1>1. UNCHANGED <<self, seen, socket, mixed, been, log>>
  BY DEF Open, Break, Stop, authVars
<1>2. /\ link' \in [Conns -> {"unused", "opening", "open", "lost", "closed"}]
      /\ \A c \in Conns : \/ link'[c] = link[c]
                          \/ link[c] \in {"opening", "open"} /\ link'[c] \in {"open", "lost"}
  BY <1>0 DEF Open, Break, Stop, SocketInv
<1>3. ASSUME NEW c \in Conns
      PROVE  /\ link'[c] = "unused" => seen[c] = 0
             /\ link'[c] \in {"opening", "open", "lost"} => self[c] # Nobody
  BY <1>0, <1>2 DEF SocketInv
<1> QED BY <1>0, <1>1, <1>2, <1>3 DEF SocketInv, SocketsOf

LEMMA SocketCloses ==
    ASSUME BaseInv, NEW c \in Conns, OnClose(c)
    PROVE  SocketInv'
<1>0. SocketInv
  BY DEF BaseInv
<1>1. /\ link[c] = "lost"
      /\ link' = [link EXCEPT ![c] = "closed"]
      /\ socket' = [socket EXCEPT ![BrowserOf[c]] = Nobody]
      /\ UNCHANGED <<mixed, self, seen, been>>
  BY DEF OnClose, authVars
<1>2. /\ link' \in [Conns -> {"unused", "opening", "open", "lost", "closed"}]
      /\ socket' \in [Browsers -> Conns \cup {Nobody}]
      /\ \A b \in Browsers : socket'[b] \in SocketsOf(b) \cup {Nobody}
  BY <1>0, <1>1 DEF SocketInv
<1>3. ASSUME NEW d \in Conns
      PROVE  /\ seen[d] <= Len(log'[d])
             /\ link'[d] = "unused" => seen[d] = 0
             /\ link'[d] \in {"opening", "open", "lost"} => self[d] # Nobody
  <2>1. CASE d = c
    <3>1. Len(log'[d]) = seen[d] /\ seen[d] \in Nat
      BY <2>1, <1>0, OnCloseLog DEF SocketInv
    <3>2. link'[d] = "closed"
      BY <2>1, <1>0, <1>1 DEF SocketInv
    <3> QED BY <3>1, <3>2
  <2>2. CASE d # c
    <3>1. log'[d] = log[d] /\ link'[d] = link[d]
      BY <2>2, <1>0, <1>1, OnCloseLog DEF SocketInv
    <3> QED BY <3>1, <1>0 DEF SocketInv
  <2> QED BY <2>1, <2>2
<1> QED BY <1>0, <1>1, <1>2, <1>3 DEF SocketInv, SocketsOf

LEMMA SocketReloads ==
    ASSUME BaseInv, NEW b \in Browsers, Reload(b)
    PROVE  SocketInv'
<1>0. SocketInv
  BY DEF BaseInv
<1>1. /\ link' = [c \in Conns |-> IF c \in SocketsOf(b) /\ link[c] # "unused" THEN "closed"
                                  ELSE link[c]]
      /\ self' = [c \in Conns |-> IF c \in SocketsOf(b) THEN Nobody ELSE self[c]]
      /\ seen' = [c \in Conns |-> IF c \in SocketsOf(b) THEN 0 ELSE seen[c]]
      /\ log'  = [c \in Conns |-> IF c \in SocketsOf(b) THEN <<>> ELSE log[c]]
      /\ socket' = [socket EXCEPT ![b] = Nobody]
      /\ been'   = [been EXCEPT ![b] = {auth[b].token} \ {Nobody}]
      /\ mixed'  = mixed \ {b}
  BY DEF Reload
<1>2. auth[b].token \in Users \cup {Nobody}
  BY DEF BaseInv, PageInv
<1>3. /\ link' \in [Conns -> {"unused", "opening", "open", "lost", "closed"}]
      /\ self' \in [Conns -> Users \cup {Nobody}]
      /\ seen' \in [Conns -> Nat]
      /\ mixed' \subseteq Browsers
  BY <1>0, <1>1 DEF SocketInv
<1>4. /\ socket' \in [Browsers -> Conns \cup {Nobody}]
      /\ been' \in [Browsers -> SUBSET Users]
      /\ \A d \in Browsers : socket'[d] \in SocketsOf(d) \cup {Nobody}
  BY <1>0, <1>1, <1>2 DEF SocketInv
<1>5. ASSUME NEW d \in Conns
      PROVE  /\ seen'[d] <= Len(log'[d])
             /\ link'[d] = "unused" => seen'[d] = 0
             /\ link'[d] \in {"opening", "open", "lost"} => self'[d] # Nobody
             /\ self'[d] # Nobody =>
                   /\ BrowserOf[d] \in Browsers
                   /\ self'[d] \in been'[BrowserOf[d]]
                   /\ BrowserOf[d] \notin mixed' => self'[d] = UserOf[d]
  <2>1. CASE d \in SocketsOf(b)
    <3>1. self'[d] = Nobody /\ seen'[d] = 0 /\ log'[d] = <<>>
      BY <2>1, <1>1
    <3>2. link'[d] \in {"unused", "closed"}
      BY <2>1, <1>1
    <3> QED BY <3>1, <3>2
  <2>2. CASE d \notin SocketsOf(b)
    <3>1. link'[d] = link[d] /\ self'[d] = self[d] /\ seen'[d] = seen[d] /\ log'[d] = log[d]
      BY <2>2, <1>1
    <3>2. BrowserOf[d] # b
      BY <2>2 DEF SocketsOf
    <3>3. BrowserOf[d] \in Browsers => been'[BrowserOf[d]] = been[BrowserOf[d]]
      BY <3>2, <1>0, <1>1 DEF SocketInv
    <3>4. BrowserOf[d] \notin mixed' => BrowserOf[d] \notin mixed
      BY <3>2, <1>1
    <3> QED BY <3>1, <3>3, <3>4, <1>0 DEF SocketInv
  <2> QED BY <2>1, <2>2
<1> QED BY <1>3, <1>4, <1>5 DEF SocketInv, SocketsOf

LEMMA SocketReads ==
    ASSUME BaseInv, NEW c \in Conns, OnMessage(c)
    PROVE  SocketInv'
<1>0. SocketInv /\ Len(log[c]) \in Nat
  BY DEF BaseInv, GatewayInv
<1>1. /\ link[c] \in {"open", "lost"} /\ seen[c] < Len(log[c])
      /\ seen' = [seen EXCEPT ![c] = @ + 1]
      /\ UNCHANGED <<mixed, link, self, socket, been, log>>
  BY DEF OnMessage, authVars, vars
<1>2. /\ seen' \in [Conns -> Nat]
      /\ \A d \in Conns : seen'[d] <= Len(log[d]) /\ (link[d] = "unused" => seen'[d] = 0)
  BY <1>0, <1>1 DEF SocketInv
<1> QED BY <1>0, <1>1, <1>2 DEF SocketInv, SocketsOf

LEMMA SocketStep ==
    ASSUME BaseInv, [WebNext]_webVars
    PROVE  SocketInv'
<1>0. /\ SocketInv
      /\ \A c \in Conns : Len(log[c]) \in Nat
  BY DEF BaseInv, GatewayInv
<1>00. \A c \in Conns : Len(log'[c]) \in Nat
  BY GatewayStep DEF GatewayInv
<1>1. ASSUME NEW b \in Browsers, NEW u \in Users, Enters(b, u)
      PROVE  SocketInv'
  <2>1. /\ Connect(b, u, u) /\ UNCHANGED log
        /\ been' = [been EXCEPT ![b] = @ \cup {u}]
    BY <1>1, EntersIsSignIn DEF SignIn, SetUser, vars
  <2>2. /\ been' \in [Browsers -> SUBSET Users]
        /\ \A d \in Browsers : been[d] \subseteq been'[d]
        /\ u \in been'[b]
    BY <2>1, <1>0 DEF SocketInv
  <2> QED BY <2>1, <2>2, SocketConnects
<1>2. ASSUME NEW b \in Browsers, NEW k \in calls[b], Hydrate(b, k)
      PROVE  SocketInv'
  <2>1. k \in Requests /\ k.call.as \in been[b]
    BY DEF BaseInv, CallsInv, CallOK
  <2>2. k.call.as \in Users
    BY <2>1 DEF Requests
  <2>3. UNCHANGED <<log, been>>
    BY <1>2 DEF Hydrate, vars
  <2>4. been' \in [Browsers -> SUBSET Users]
    BY <2>3, <1>0 DEF SocketInv
  <2>5. CASE Connect(b, auth[b].token, k.call.as)
    BY <2>1, <2>2, <2>3, <2>4, <2>5, SocketConnects
  <2>6. CASE UNCHANGED <<socketVars, mixed>>
    BY <2>3, <2>6, <1>0, SocketQuiet
  <2> QED BY <2>5, <2>6, <1>2 DEF Hydrate
<1>3. CASE \/ \E b \in Browsers, u \in Users : SelectDM(b, u)
           \/ \E b \in Browsers : \E k \in calls[b] : Settles(b, k)
           \/ \E b \in Browsers : Logout(b)
           \/ Sends \/ Restart \/ UNCHANGED webVars
  <2>1. ASSUME NEW b \in Browsers, NEW u \in Users, SelectDM(b, u)
        PROVE  UNCHANGED <<socketVars, been, mixed, log>>
    BY <2>1 DEF SelectDM, vars, authVars
  <2>2. ASSUME NEW b \in Browsers, NEW k \in calls[b], Settles(b, k)
        PROVE  UNCHANGED <<socketVars, been, mixed, log>>
    BY <2>2 DEF Settles, Answer, HydrateFails, ShowHistory, HistoryFails, vars, authVars
  <2>3. ASSUME NEW b \in Browsers, Logout(b)
        PROVE  UNCHANGED <<socketVars, been, mixed, log>>
    BY <2>3 DEF Logout, vars
  <2>4. ASSUME Sends
        PROVE  UNCHANGED <<socketVars, been, mixed, log>>
    BY <2>4, SendsIsSend DEF BaseInv, authVars
  <2>5. ASSUME Restart \/ UNCHANGED webVars
        PROVE  UNCHANGED <<socketVars, been, mixed, log>>
    BY <2>5 DEF Restart, webVars, vars, authVars
  <2>6. UNCHANGED <<socketVars, been, mixed, log>>
    BY <1>3, <2>1, <2>2, <2>3, <2>4, <2>5
  <2> QED BY <2>6, <1>0, SocketQuiet
<1>4. ASSUME Gateway
      PROVE  SocketInv'
  <2>1. UNCHANGED <<socketVars, been, mixed>>
    BY <1>4 DEF Gateway, authVars
  <2>2. PICK to, e : log' = [c \in Conns |-> IF c \in to THEN Append(log[c], e) ELSE log[c]]
    <3>1. PICK to : Give(to, Head(queue).event)
      BY <1>4 DEF Gateway, Relay
    <3> QED BY <3>1 DEF Give
  <2>3. \A c \in Conns : log[c] \in Seq(Events)
    BY DEF BaseInv, GatewayInv
  <2>4. \A c \in Conns : Len(log[c]) <= Len(log'[c])
    <3>1. ASSUME NEW c \in Conns
          PROVE  Len(log[c]) <= Len(log'[c])
      <4>1. CASE log'[c] = log[c]
        BY <4>1, <1>0
      <4>2. CASE log'[c] = Append(log[c], e)
        BY <4>2, <2>3, <1>0
      <4> QED BY <2>2, <4>1, <4>2
    <3> QED BY <3>1
  <2> QED BY <2>1, <2>4, <1>0, <1>00, SocketQuiet
<1> QED BY <1>1, <1>2, <1>3, <1>4, SocketLinks, SocketCloses, SocketReloads, SocketReads, StepIsOneOf

----------------------------------------------------------------------------
(* The page, and who speaks through its socket.                             *)

LEMMA PageStep ==
    ASSUME BaseInv, [WebNext]_webVars
    PROVE  PageInv'
<1>0. /\ PageInv
      /\ been \in [Browsers -> SUBSET Users]
  BY DEF BaseInv, SocketInv
<1>1. ASSUME NEW b \in Browsers, NEW u \in Users, Enters(b, u)
      PROVE  PageInv'
  <2>1. /\ auth' = [auth EXCEPT ![b] = [token |-> u, user |-> u]]
        /\ been' = [been EXCEPT ![b] = @ \cup {u}]
        /\ UNCHANGED <<server, activeDM>>
        /\ accounts' \subseteq Users
    BY <1>0, <1>1, EntersIsSignIn DEF SignIn, SetUser, pageVars, PageInv
  <2> QED BY <1>0, <2>1 DEF PageInv, OnPage
<1>2. ASSUME NEW b \in Browsers, NEW u \in Users, SelectDM(b, u)
      PROVE  PageInv'
  <2>1. UNCHANGED <<accounts, server, auth, been>> /\ activeDM' = [activeDM EXCEPT ![b] = u]
    BY <1>2 DEF SelectDM, authVars
  <2> QED BY <1>0, <2>1 DEF PageInv, OnPage
<1>3. ASSUME NEW b \in Browsers, NEW k \in calls[b], Hydrate(b, k)
      PROVE  PageInv'
  <2>1. UNCHANGED <<accounts, server, been, activeDM>> /\ auth' = [auth EXCEPT ![b].user = k.call.as]
    BY <1>3 DEF Hydrate, pageVars
  <2>2. k.call.as \in Users
    BY DEF BaseInv, CallsInv, Requests
  <2>3. /\ auth' \in [Browsers -> [token : Users \cup {Nobody}, user : Users \cup {Nobody}]]
        /\ \A d \in Browsers : auth'[d].token = auth[d].token
    BY <1>0, <2>1, <2>2 DEF PageInv
  <2> QED BY <1>0, <2>1, <2>3 DEF PageInv, OnPage
<1>4. ASSUME NEW b \in Browsers,
             Logout(b) \/ \E k \in calls[b] : HydrateFails(b, k)
      PROVE  PageInv'
  <2>1. UNCHANGED <<accounts, server, been, activeDM>> /\ auth' = [auth EXCEPT ![b] = NoAuth]
    BY <1>4 DEF Logout, HydrateFails, pageVars
  <2> QED BY <1>0, <2>1 DEF PageInv, OnPage, NoAuth
<1>5. ASSUME NEW b \in Browsers, Reload(b)
      PROVE  PageInv'
  <2>1. /\ UNCHANGED <<accounts, server>>
        /\ auth' = [auth EXCEPT ![b].user = Nobody]
        /\ been' = [been EXCEPT ![b] = {auth[b].token} \ {Nobody}]
        /\ activeDM' = [activeDM EXCEPT ![b] = Nobody]
    BY <1>5 DEF Reload
  <2>2. /\ auth' \in [Browsers -> [token : Users \cup {Nobody}, user : Users \cup {Nobody}]]
        /\ \A d \in Browsers : auth'[d].token = auth[d].token
        /\ activeDM' \in [Browsers -> Users \cup {Nobody}]
    BY <1>0, <2>1 DEF PageInv
  <2>3. \A d \in Browsers : auth[d].token # Nobody => auth[d].token \in been'[d]
    BY <1>0, <2>1 DEF PageInv, OnPage
  <2> QED BY <1>0, <2>1, <2>2, <2>3 DEF PageInv, OnPage
<1>6. ASSUME \/ \E b \in Browsers : \E k \in calls[b] : Settles(b, k) /\ ~HydrateFails(b, k)
             \/ \E c \in Conns : Open(c) \/ Break(c) \/ OnClose(c) \/ OnMessage(c)
             \/ Sends \/ Gateway \/ Stop \/ Restart \/ UNCHANGED webVars
      PROVE  PageInv'
  <2>1. ASSUME NEW b \in Browsers, NEW k \in calls[b], Settles(b, k), ~HydrateFails(b, k)
        PROVE  UNCHANGED <<accounts, auth, been, activeDM>> /\ server' = server
    BY <2>1 DEF Settles, Answer, ShowHistory, HistoryFails, pageVars, authVars
  <2>2. ASSUME NEW c \in Conns, Open(c) \/ Break(c) \/ OnClose(c) \/ OnMessage(c)
        PROVE  UNCHANGED <<accounts, auth, been, activeDM>> /\ server' = server
    BY <2>2 DEF Open, Break, OnClose, OnMessage, pageVars, authVars
  <2>3. ASSUME Sends
        PROVE  UNCHANGED <<accounts, auth, been, activeDM>> /\ server' = server
    BY <2>3, SendsIsSend DEF BaseInv, pageVars, authVars
  <2>4. ASSUME Gateway \/ Stop \/ Restart \/ UNCHANGED webVars
        PROVE  UNCHANGED <<accounts, auth, been, activeDM>> /\ server' \in {"up", "down"}
    BY <2>4, <1>0 DEF Gateway, Stop, Restart, webVars, pageVars, authVars, PageInv
  <2>5. UNCHANGED <<accounts, auth, been, activeDM>> /\ server' \in {"up", "down"}
    BY <1>6, <1>0, <2>1, <2>2, <2>3, <2>4 DEF PageInv
  <2> QED BY <1>0, <2>5 DEF PageInv, OnPage
<1> QED BY <1>1, <1>2, <1>3, <1>4, <1>5, <1>6, StepIsOneOf DEF Settles

(* A page speaks through the socket of the user it shows: each new socket is *)
(* of the user whose token the page has, and the page is mixed if it shows   *)
(* another.                                                                  *)
LEMMA SpeaksStep ==
    ASSUME BaseInv, SpeaksAsSelf, [WebNext]_webVars
    PROVE  SpeaksAsSelf'
<1>0. /\ auth \in [Browsers -> [token : Users \cup {Nobody}, user : Users \cup {Nobody}]]
      /\ socket \in [Browsers -> Conns \cup {Nobody}]
  BY DEF BaseInv, PageInv, SocketInv
<1>1. ASSUME NEW b \in Browsers, NEW token, NEW user \in Users, Connect(b, token, user),
             \A d \in Browsers : d # b => auth'[d] = auth[d],
             auth'[b].token = token /\ auth'[b].user = user
      PROVE  SpeaksAsSelf'
  <2>1. PICK c \in SocketsOf(b) :
              /\ UserOf[c] = token
              /\ socket' = [socket EXCEPT ![b] = c]
              /\ mixed'  = IF token = user THEN mixed ELSE mixed \cup {b}
    BY <1>1, ConnectMakes
  <2>2. ASSUME NEW d \in Browsers, d \notin mixed', OnPage(d)', auth'[d].user # Nobody, socket'[d] # Nobody
        PROVE  UserOf[socket'[d]] = auth'[d].user
    <3>1. CASE d = b
      <4>1. token = user /\ socket'[d] = c
        BY <3>1, <2>1, <2>2, <1>0
      <4> QED BY <3>1, <4>1, <2>1, <1>1
    <3>2. CASE d # b
      <4>1. auth'[d] = auth[d] /\ socket'[d] = socket[d] /\ d \notin mixed
        BY <3>2, <2>1, <2>2, <1>0, <1>1
      <4>2. OnPage(d)
        BY <4>1, <2>2 DEF OnPage
      <4> QED BY <4>1, <4>2, <2>2 DEF SpeaksAsSelf
    <3> QED BY <3>1, <3>2
  <2> QED BY <2>2 DEF SpeaksAsSelf
<1>2. ASSUME NEW b \in Browsers, NEW u \in Users, Enters(b, u)
      PROVE  SpeaksAsSelf'
  <2>1. Connect(b, u, u) /\ auth' = [auth EXCEPT ![b] = [token |-> u, user |-> u]]
    BY <1>2, EntersIsSignIn DEF SignIn, SetUser
  <2>2. /\ \A d \in Browsers : d # b => auth'[d] = auth[d]
        /\ auth'[b].token = u /\ auth'[b].user = u
    BY <2>1, <1>0
  <2> QED BY <2>1, <2>2, <1>1
<1>3. ASSUME NEW b \in Browsers, NEW k \in calls[b], Hydrate(b, k)
      PROVE  SpeaksAsSelf'
  <2>1. /\ auth' = [auth EXCEPT ![b].user = k.call.as]
        /\ IF auth[b].token = Nobody THEN UNCHANGED <<socketVars, mixed>>
           ELSE Connect(b, auth[b].token, k.call.as)
    BY <1>3 DEF Hydrate
  <2>2. k.call.as \in Users
    BY DEF BaseInv, CallsInv, Requests
  <2>3. /\ \A d \in Browsers : d # b => auth'[d] = auth[d]
        /\ auth'[b].token = auth[b].token /\ auth'[b].user = k.call.as
    BY <2>1, <1>0
  <2>4. CASE auth[b].token = Nobody
    <3>1. UNCHANGED <<socket, mixed>>
      BY <2>1, <2>4 DEF socketVars
    <3> QED BY <2>3, <2>4, <3>1 DEF SpeaksAsSelf, OnPage
  <2>5. CASE auth[b].token # Nobody
    BY <2>1, <2>2, <2>3, <2>5, <1>1
  <2> QED BY <2>4, <2>5
<1>4. ASSUME NEW b \in Browsers,
             Logout(b) \/ \E k \in calls[b] : HydrateFails(b, k)
      PROVE  SpeaksAsSelf'
  <2>1. UNCHANGED <<socket, mixed>> /\ auth' = [auth EXCEPT ![b] = NoAuth]
    BY <1>4 DEF Logout, HydrateFails, socketVars
  <2> QED BY <1>0, <2>1 DEF SpeaksAsSelf, OnPage, NoAuth
<1>5. ASSUME NEW b \in Browsers, Reload(b)
      PROVE  SpeaksAsSelf'
  <2>1. /\ auth' = [auth EXCEPT ![b].user = Nobody]
        /\ socket' = [socket EXCEPT ![b] = Nobody]
        /\ mixed' = mixed \ {b}
    BY <1>5 DEF Reload
  <2>2. /\ \A d \in Browsers : d # b => auth'[d] = auth[d] /\ socket'[d] = socket[d]
        /\ socket'[b] = Nobody
    BY <2>1, <1>0
  <2> QED BY <2>1, <2>2 DEF SpeaksAsSelf, OnPage
<1>6. ASSUME NEW c \in Conns, OnClose(c)
      PROVE  SpeaksAsSelf'
  <2>1. UNCHANGED <<auth, mixed>> /\ socket' = [socket EXCEPT ![BrowserOf[c]] = Nobody]
    BY <1>6 DEF OnClose, authVars
  <2>2. \A d \in Browsers : socket'[d] = socket[d] \/ socket'[d] = Nobody
    BY <2>1, <1>0
  <2> QED BY <2>1, <2>2 DEF SpeaksAsSelf, OnPage
<1>7. ASSUME \/ \E b \in Browsers, u \in Users : SelectDM(b, u)
             \/ \E b \in Browsers : \E k \in calls[b] : Settles(b, k) /\ ~HydrateFails(b, k)
             \/ \E c \in Conns : Open(c) \/ Break(c) \/ OnMessage(c)
             \/ Sends \/ Gateway \/ Stop \/ Restart \/ UNCHANGED webVars
      PROVE  SpeaksAsSelf'
  <2>1. ASSUME NEW b \in Browsers, NEW k \in calls[b], Settles(b, k), ~HydrateFails(b, k)
        PROVE  UNCHANGED <<auth, socket, mixed>>
    BY <2>1 DEF Settles, Answer, ShowHistory, HistoryFails, socketVars, authVars
  <2>2. ASSUME NEW c \in Conns, Open(c) \/ Break(c) \/ OnMessage(c)
        PROVE  UNCHANGED <<auth, socket, mixed>>
    BY <2>2 DEF Open, Break, OnMessage, authVars
  <2>3. ASSUME Sends
        PROVE  UNCHANGED <<auth, socket, mixed>>
    BY <2>3, SendsIsSend DEF BaseInv, socketVars, authVars
  <2>4. ASSUME Gateway \/ Stop \/ Restart \/ UNCHANGED webVars
        PROVE  UNCHANGED <<auth, socket, mixed>>
    BY <2>4 DEF Gateway, Stop, Restart, webVars, socketVars, authVars
  <2>5. ASSUME NEW b \in Browsers, NEW u \in Users, SelectDM(b, u)
        PROVE  UNCHANGED <<auth, socket, mixed>>
    BY <2>5 DEF SelectDM, socketVars, authVars
  <2>6. UNCHANGED <<auth, socket, mixed>>
    BY <1>7, <2>1, <2>2, <2>3, <2>4, <2>5
  <2> QED BY <2>6 DEF SpeaksAsSelf, OnPage
<1> QED BY <1>2, <1>3, <1>4, <1>5, <1>6, <1>7, StepIsOneOf DEF Settles

----------------------------------------------------------------------------
(* Calls.                                                                   *)

LEMMA BetweenGrows ==
    ASSUME BaseInv, [WebNext]_webVars, NEW u, NEW k
    PROVE  /\ Between(u, k) \subseteq Between(u, k)'
           /\ \A id \in Between(u, k)' : id <= Len(stored) => id \in Between(u, k)
<1>1. /\ DOMAIN stored = 1 .. Len(stored) /\ DOMAIN stored' = 1 .. Len(stored')
      /\ Len(stored) \in Nat /\ Len(stored') \in Nat /\ Len(stored) <= Len(stored')
      /\ \A id \in 1 .. Len(stored) : Parties(id)' = Parties(id)
  BY StoredGrows DEF BaseInv, TablesInv
<1>2. ASSUME NEW id \in Between(u, k)
      PROVE  id \in Between(u, k)'
  <2>1. id \in 1 .. Len(stored) /\ Parties(id) = {u, k}
    BY <1>1 DEF Between
  <2>2. id \in 1 .. Len(stored') /\ Parties(id)' = {u, k}
    BY <1>1, <2>1
  <2> QED BY <1>1, <2>2 DEF Between
<1>3. ASSUME NEW id \in Between(u, k)', id <= Len(stored)
      PROVE  id \in Between(u, k)
  <2>1. id \in 1 .. Len(stored') /\ Parties(id)' = {u, k}
    BY <1>1 DEF Between
  <2>2. id \in 1 .. Len(stored)
    BY <1>1, <1>3, <2>1
  <2> QED BY <1>1, <2>1, <2>2 DEF Between
<1> QED BY <1>2, <1>3

(* An answer stays what it was, whatever is stored later. *)
LEMMA AnswerLasts ==
    ASSUME BaseInv, [WebNext]_webVars, NEW u, NEW k, NEW ids, NEW n, IsAnswer(u, k, ids, n)
    PROVE  IsAnswer(u, k, ids, n)'
<1>1. n \in 0 .. Len(stored') /\ n <= Len(stored)
  BY StoredGrows DEF IsAnswer
<1>2. ids \in Seq(Between(u, k)')
  <2>1. /\ Len(ids) \in Nat
        /\ ids \in [1 .. Len(ids) -> Between(u, k)]
    BY DEF IsAnswer
  <2>2. ids \in [1 .. Len(ids) -> Between(u, k)']
    BY <2>1, BetweenGrows
  <2> QED BY <2>1, <2>2
<1>3. ASSUME NEW id \in Between(u, k)', id <= n
      PROVE  id \in Between(u, k)
  <2>1. id \in Nat /\ Len(stored) \in Nat /\ n \in Nat
    BY <1>1, StoredGrows DEF Between
  <2>2. id <= Len(stored)
    BY <1>1, <1>3, <2>1
  <2> QED BY <2>2, BetweenGrows
<1> QED BY <1>1, <1>2, <1>3 DEF IsAnswer

LEMMA CallLasts ==
    ASSUME BaseInv, [WebNext]_webVars, NEW b, NEW k, CallOK(b, k), been[b] \subseteq been'[b]
    PROVE  CallOK(b, k)'
<1>1. CASE k.answer # Pending
  <2>1. PICK u, p, ids, n : u = k.call.as /\ p = k.call.peer /\ ids = k.answer[1] /\ n = k.answer[2]
    OBVIOUS
  <2>2. IsAnswer(u, p, ids, n)
    BY <1>1, <2>1 DEF CallOK
  <2>3. IsAnswer(u, p, ids, n)'
    BY <2>2, AnswerLasts
  <2>4. IsAnswer(k.call.as, k.call.peer, k.answer[1], k.answer[2])'
    BY <2>1, <2>3
  <2> QED BY <2>4 DEF CallOK
<1>2. CASE k.answer = Pending
  BY <1>2 DEF CallOK, Pending
<1> QED BY <1>1, <1>2

(* Calls made now. *)
LEMMA MakeCalls ==
    ASSUME BaseInv, [WebNext]_webVars, NEW b \in Browsers, NEW new, NEW others, Make(b, new, others),
           others \subseteq calls[b],
           others # {} => been[b] \subseteq been'[b],
           \A q \in new : \/ \E u \in Users : q = Me(u) /\ u \in been'[b]
                          \/ \E u, k \in Users : q = LoadHistory(u, k) /\ u \in been'[b],
           \A d \in Browsers : d # b => been'[d] = been[d]
    PROVE  CallsInv'
<1>0. CallsInv
  BY DEF BaseInv
<1>1. calls' = [calls EXCEPT ![b] = others \cup Numbered(new)]
  BY DEF Make
<1>2. made + turns \in 0 .. MaxLoads + MaxTurns
  <2>1. made \in Nat /\ turns \in Nat /\ made <= MaxLoads /\ turns <= MaxTurns
    BY DEF BaseInv, TablesInv
  <2> QED BY <2>1, WebAssumption
<1>3. ASSUME NEW k \in Numbered(new)
      PROVE  k \in Requests /\ CallOK(b, k)'
  <2>1. PICK q \in new : k = [call |-> q, n |-> made + turns, answer |-> Pending]
    BY DEF Numbered
  <2>2. k.call = q /\ k.answer = Pending
    BY <2>1
  <2>3. CASE \E u \in Users : q = Me(u) /\ u \in been'[b]
    <3>1. PICK u \in Users : q = Me(u) /\ u \in been'[b]
      BY <2>3
    <3>2. q = [what |-> "me", as |-> u, peer |-> Nobody]
      BY <3>1 DEF Me
    <3>3. k \in Requests
      BY <2>1, <3>2, <1>2 DEF Requests
    <3> QED BY <2>2, <3>1, <3>2, <3>3 DEF CallOK, Pending
  <2>4. CASE \E u, p \in Users : q = LoadHistory(u, p) /\ u \in been'[b]
    <3>1. PICK u \in Users, p \in Users : q = LoadHistory(u, p) /\ u \in been'[b]
      BY <2>4
    <3>2. q = [what |-> "history", as |-> u, peer |-> p]
      BY <3>1 DEF LoadHistory
    <3>3. k \in Requests
      BY <2>1, <3>2, <1>2 DEF Requests
    <3> QED BY <2>2, <3>1, <3>2, <3>3 DEF CallOK, Pending
  <2> QED BY <2>3, <2>4
<1>4. ASSUME NEW k \in others
      PROVE  k \in Requests /\ CallOK(b, k)'
  <2>1. k \in Requests /\ CallOK(b, k)
    BY <1>0 DEF CallsInv
  <2> QED BY <2>1, CallLasts
<1>5. calls' \in [Browsers -> SUBSET Requests]
  BY <1>0, <1>1, <1>3, <1>4 DEF CallsInv
<1>6. ASSUME NEW d \in Browsers, NEW k \in calls'[d]
      PROVE  CallOK(d, k)'
  <2>1. CASE d = b
    <3>1. k \in others \cup Numbered(new)
      BY <2>1, <1>0, <1>1 DEF CallsInv
    <3> QED BY <2>1, <3>1, <1>3, <1>4
  <2>2. CASE d # b
    <3>1. k \in calls[d] /\ been'[d] = been[d]
      BY <2>2, <1>0, <1>1 DEF CallsInv
    <3>2. CallOK(d, k)
      BY <3>1, <1>0 DEF CallsInv
    <3> QED BY <3>1, <3>2, CallLasts
  <2> QED BY <2>1, <2>2
<1>7. Requests' = Requests
  BY DEF Requests, Pending
<1> QED BY <1>5, <1>6, <1>7 DEF CallsInv

(* No call but those under way. *)
LEMMA CallsFewer ==
    ASSUME BaseInv, [WebNext]_webVars, UNCHANGED been,
           calls' \in [Browsers -> SUBSET Requests],
           \A b \in Browsers : \A k \in calls'[b] : k \in calls[b] \/ CallOK(b, k)'
    PROVE  CallsInv'
<1>1. ASSUME NEW b \in Browsers, NEW k \in calls'[b]
      PROVE  CallOK(b, k)'
  <2>1. CASE k \in calls[b]
    <3>1. CallOK(b, k)
      BY <2>1 DEF BaseInv, CallsInv
    <3> QED BY <3>1, CallLasts
  <2> QED BY <2>1
<1>2. Requests' = Requests
  BY DEF Requests, Pending
<1> QED BY <1>1, <1>2 DEF CallsInv

LEMMA CallsStep ==
    ASSUME BaseInv, [WebNext]_webVars
    PROVE  CallsInv'
<1>0. /\ calls \in [Browsers -> SUBSET Requests]
      /\ been \in [Browsers -> SUBSET Users]
  BY DEF BaseInv, CallsInv, SocketInv
<1>1. ASSUME NEW b \in Browsers, NEW u \in Users, Enters(b, u)
      PROVE  CallsInv'
  <2> DEFINE new == {Me(u)} \cup (IF activeDM[b] = Nobody THEN {} ELSE {LoadHistory(u, activeDM[b])})
  <2>1. Make(b, new, calls[b]) /\ been' = [been EXCEPT ![b] = @ \cup {u}]
    BY <1>1, EntersIsSignIn DEF SignIn, SetUser
  <2>2. /\ u \in been'[b] /\ been[b] \subseteq been'[b]
        /\ \A d \in Browsers : d # b => been'[d] = been[d]
    BY <2>1, <1>0
  <2>3. activeDM[b] # Nobody => activeDM[b] \in Users
    BY DEF BaseInv, PageInv
  <2>4. \A q \in new : \/ \E v \in Users : q = Me(v) /\ v \in been'[b]
                       \/ \E v, k \in Users : q = LoadHistory(v, k) /\ v \in been'[b]
    BY <2>2, <2>3
  <2> HIDE DEF new
  <2> QED BY <2>1, <2>2, <2>4, MakeCalls
<1>2. ASSUME NEW b \in Browsers, NEW u \in Users, SelectDM(b, u)
      PROVE  CallsInv'
  <2> DEFINE new == {LoadHistory(auth[b].token, u)}
  <2>1. Make(b, new, calls[b]) /\ been' = been /\ OnPage(b)
    BY <1>2 DEF SelectDM, authVars
  <2>2. auth[b].token \in Users /\ auth[b].token \in been'[b]
    BY <2>1, <1>0 DEF BaseInv, PageInv
  <2>3. \A q \in new : \/ \E v \in Users : q = Me(v) /\ v \in been'[b]
                       \/ \E v, k \in Users : q = LoadHistory(v, k) /\ v \in been'[b]
    BY <2>2
  <2> HIDE DEF new
  <2> QED BY <2>1, <2>3, MakeCalls
<1>3. ASSUME NEW b \in Browsers, Reload(b)
      PROVE  CallsInv'
  <2> DEFINE new == IF OnPage(b) THEN {Me(auth[b].token)} ELSE {}
  <2>1. Make(b, new, {}) /\ been' = [been EXCEPT ![b] = {auth[b].token} \ {Nobody}]
    BY <1>3 DEF Reload
  <2>2. OnPage(b) => auth[b].token \in Users /\ auth[b].token \in been'[b]
    BY <2>1, <1>0 DEF BaseInv, PageInv, OnPage
  <2>3. \A q \in new : \/ \E v \in Users : q = Me(v) /\ v \in been'[b]
                       \/ \E v, k \in Users : q = LoadHistory(v, k) /\ v \in been'[b]
    BY <2>2
  <2>4. \A d \in Browsers : d # b => been'[d] = been[d]
    BY <2>1, <1>0
  <2> HIDE DEF new
  <2> QED BY <2>1, <2>3, <2>4, MakeCalls
<1>4. ASSUME NEW b \in Browsers, NEW k \in calls[b], Answer(b, k)
      PROVE  CallsInv'
  <2>1. PICK u, p, ids, n : u = k.call.as /\ p = k.call.peer /\ ids = ListDMs(u, p) /\ n = Len(stored)
    OBVIOUS
  <2>2. PICK r : r = [k EXCEPT !.answer = <<ids, n>>]
    OBVIOUS
  <2>3. /\ calls' = [calls EXCEPT ![b] = (@ \ {k}) \cup {r}]
        /\ been' = been /\ stored' = stored /\ k.call.what = "history"
    BY <1>4, <2>1, <2>2 DEF Answer, authVars, vars
  <2>4. k \in Requests /\ CallOK(b, k)
    BY DEF BaseInv, CallsInv
  <2>5. u \in Users /\ p \in Users /\ u \in been[b]
    BY <2>1, <2>3, <2>4 DEF Requests, CallOK
  <2>6. IsAnswer(u, p, ids, n) /\ ids \in Seq(Nat)
    BY <2>1, <2>5, ListDMsAnswers DEF BaseInv, TablesInv
  <2>7. IsAnswer(u, p, ids, n)'
    BY <2>6, AnswerLasts
  <2>8. n \in Nat
    BY <2>1 DEF BaseInv, TablesInv
  <2>9. r \in Requests /\ r.call = k.call /\ r.answer = <<ids, n>>
    BY <2>2, <2>4, <2>6, <2>8 DEF Requests
  <2>10. CallOK(b, r)'
    <3>1. r.answer[1] = ids /\ r.answer[2] = n /\ r.call.as = u /\ r.call.peer = p
      BY <2>1, <2>9
    <3>2. IsAnswer(r.call.as, r.call.peer, r.answer[1], r.answer[2])'
      BY <3>1, <2>7
    <3> QED BY <3>1, <3>2, <2>3, <2>5 DEF CallOK
  <2>11. calls' \in [Browsers -> SUBSET Requests]
    BY <1>0, <2>3, <2>9
  <2>12. \A d \in Browsers : \A q \in calls'[d] : q \in calls[d] \/ (d = b /\ q = r)
    BY <1>0, <2>3
  <2> QED BY <2>3, <2>10, <2>11, <2>12, CallsFewer
<1>5. ASSUME NEW b \in Browsers, NEW k \in calls[b],
             HydrateFails(b, k) \/ ShowHistory(b, k) \/ HistoryFails(b, k) \/ Hydrate(b, k)
      PROVE  CallsInv'
  <2>1. calls' = [calls EXCEPT ![b] = @ \ {k}] /\ been' = been
    BY <1>5 DEF HydrateFails, ShowHistory, HistoryFails, Hydrate, authVars
  <2> QED BY <1>0, <2>1, CallsFewer
<1>6. CASE \/ \E b \in Browsers : Logout(b)
           \/ \E c \in Conns : Open(c) \/ Break(c) \/ OnClose(c) \/ OnMessage(c)
           \/ Sends \/ Gateway \/ Stop \/ Restart \/ UNCHANGED webVars
  <2>1. ASSUME NEW b \in Browsers, Logout(b)
        PROVE  UNCHANGED <<calls, been>>
    BY <2>1 DEF Logout
  <2>2. ASSUME NEW c \in Conns, Open(c) \/ Break(c) \/ OnClose(c) \/ OnMessage(c)
        PROVE  UNCHANGED <<calls, been>>
    BY <2>2 DEF Open, Break, OnClose, OnMessage, authVars
  <2>3. ASSUME Sends
        PROVE  UNCHANGED <<calls, been>>
    BY <2>3, SendsIsSend DEF BaseInv, authVars
  <2>4. ASSUME Gateway \/ Stop \/ Restart \/ UNCHANGED webVars
        PROVE  UNCHANGED <<calls, been>>
    BY <2>4 DEF Gateway, Stop, Restart, webVars, authVars
  <2>5. UNCHANGED <<calls, been>>
    BY <1>6, <2>1, <2>2, <2>3, <2>4
  <2> QED BY <1>0, <2>5, CallsFewer
<1> QED BY <1>1, <1>2, <1>3, <1>4, <1>5, <1>6, StepIsOneOf DEF Settles

LEMMA BaseStep ==
    ASSUME BaseInv, [WebNext]_webVars
    PROVE  BaseInv'
BY TablesStep, GatewayStep, SocketStep, PageStep, CallsStep DEF BaseInv

----------------------------------------------------------------------------
(* Threads. The three properties, for one thread of one page.               *)

OwnAt(b, k) ==
    \A i \in DOMAIN thread[b][k] : \E u \in been[b] : Parties(thread[b][k][i]) = {u, k}

(* The answer that replaced the thread accounts for the message not shown. *)
Excused(a, k, id) ==
    /\ a # Pending
    /\ \/ {a[1], k} # Parties(id)
       \/ id > a[3]
       \/ Len(a[2]) = HistoryLimit /\ id < a[2][1]

KeptAt(b, k, id) == Brought(b, k, id) # {} => Shown(b, k, id) \/ Excused(applied[b][k], k, id)

Places(s, id) == {i \in DOMAIN s : s[i] = id}

Loaded(a, id) == IF a # Pending /\ \E i \in DOMAIN a[2] : a[2][i] = id THEN 1 ELSE 0

CountAt(b, k, id) ==
    Cardinality(Places(thread[b][k], id)) <= Cardinality(Brought(b, k, id)) + Loaded(applied[b][k], id)

PageGood(b) ==
    /\ b \notin mixed => \A k \in Users : OwnAt(b, k)
    /\ \A k \in Users : \A id \in DOMAIN stored : KeptAt(b, k, id) /\ CountAt(b, k, id)

LEMMA PagesGood ==
    (ThreadsAreOwn /\ NothingHidden /\ CopiesAreBrought) <=> \A b \in Browsers : PageGood(b)
<1>1. ThreadsAreOwn <=> \A b \in Browsers : b \notin mixed => \A k \in Users : OwnAt(b, k)
  BY DEF ThreadsAreOwn, OwnAt
<1>2. NothingHidden <=> \A b \in Browsers, k \in Users, id \in DOMAIN stored : KeptAt(b, k, id)
  BY DEF NothingHidden, KeptAt, Excused
<1>3. CopiesAreBrought <=> \A b \in Browsers, k \in Users, id \in DOMAIN stored : CountAt(b, k, id)
  BY DEF CopiesAreBrought, CountAt, Places, Loaded
<1> QED BY <1>1, <1>2, <1>3 DEF PageGood

(* Events are brought by finitely many sockets. *)
LEMMA BroughtFinite ==
    ASSUME NEW b, NEW k, NEW id
    PROVE  IsFiniteSet(Brought(b, k, id)) /\ Cardinality(Brought(b, k, id)) \in Nat
<1>1. IsFiniteSet(SocketsOf(b))
  BY WebAssumption, FS_Subset, SocketsOf(b) \in SUBSET Conns DEF SocketsOf
<1>2. MaxPosts * 2 \in Int
  BY WebAssumption
<1>3. IsFiniteSet(1 .. MaxPosts * 2)
  BY <1>2, FS_Interval
<1>4. IsFiniteSet(SocketsOf(b) \X (1 .. MaxPosts * 2))
  BY <1>1, <1>3, FS_Product
<1>5. Brought(b, k, id) \in SUBSET (SocketsOf(b) \X (1 .. MaxPosts * 2))
  BY DEF Brought
<1>6. IsFiniteSet(Brought(b, k, id))
  BY <1>4, <1>5, FS_Subset
<1> QED BY <1>6, FS_CardinalityType

(* What the sockets of a page have brought does not change. *)
ViewSame(b) ==
    \A c \in SocketsOf(b) :
        /\ seen'[c] = seen[c]
        /\ \A i \in 1 .. seen[c] : self'[c] = self[c] /\ log'[c][i] = log[c][i]

LEMMA OtherThanLasts ==
    ASSUME BaseInv, [WebNext]_webVars, NEW u, NEW id \in 1 .. Len(stored)
    PROVE  OtherThan(u, id)' = OtherThan(u, id)
BY StoredGrows DEF OtherThan

LEMMA BroughtSame ==
    ASSUME BaseInv, [WebNext]_webVars, NEW b, NEW k, ViewSame(b)
    PROVE  /\ \A id \in 1 .. Len(stored) : Brought(b, k, id)' = Brought(b, k, id)
           /\ \A id \in Nat : id \notin 1 .. Len(stored) => Brought(b, k, id)' = {}
<1>0. seen \in [Conns -> Nat] /\ \A c \in SocketsOf(b) : c \in Conns
  BY DEF BaseInv, SocketInv, SocketsOf
<1>1. ASSUME NEW id \in 1 .. Len(stored)
      PROVE  Brought(b, k, id)' = Brought(b, k, id)
  <2>1. ASSUME NEW e \in SocketsOf(b) \X (1 .. MaxPosts * 2)
        PROVE  (e \in Brought(b, k, id)') <=> (e \in Brought(b, k, id))
    <3>1. PICK c \in SocketsOf(b), i \in 1 .. MaxPosts * 2 : e[1] = c /\ e[2] = i
      OBVIOUS
    <3>2. seen'[c] = seen[c] /\ seen[c] \in Nat
      BY <1>0 DEF ViewSame
    <3>3. OtherThan(self[c], id)' = OtherThan(self'[c], id)
      BY StoredGrows DEF OtherThan
    <3>4. CASE i <= seen[c]
      <4>1. self'[c] = self[c] /\ log'[c][i] = log[c][i]
        BY <3>2, <3>4 DEF ViewSame
      <4>2. OtherThan(self[c], id)' = OtherThan(self[c], id)
        BY <3>3, <4>1
      <4> QED BY <3>1, <3>2, <3>4, <4>1, <4>2 DEF Brought, SocketsOf, Message
    <3>5. CASE ~(i <= seen[c])
      BY <3>1, <3>2, <3>5 DEF Brought, SocketsOf
    <3> QED BY <3>4, <3>5
  <2> QED BY <2>1 DEF Brought, SocketsOf
<1>2. ASSUME NEW id \in Nat, NEW e \in Brought(b, k, id)'
      PROVE  id \in 1 .. Len(stored)
  <2>1. PICK c \in SocketsOf(b), i \in 1 .. MaxPosts * 2 :
            i <= seen'[c] /\ log'[c][i] = Message(id)
    BY DEF Brought, SocketsOf, Message
  <2>2. seen'[c] = seen[c] /\ seen[c] \in Nat /\ c \in Conns
    BY <1>0 DEF ViewSame
  <2>3. i \in 1 .. seen[c]
    BY <2>1, <2>2
  <2>4. log[c][i] = Message(id) /\ seen[c] <= Len(log[c]) /\ Len(log[c]) \in Nat
    BY <2>1, <2>2, <2>3 DEF ViewSame, BaseInv, SocketInv, GatewayInv
  <2>5. i \in 1 .. Len(log[c])
    BY <2>2, <2>3, <2>4
  <2>6. Concerns(log[c][i].id, UserOf[c])
    BY <2>2, <2>5 DEF BaseInv, GatewayInv
  <2>7. log[c][i].id = id
    BY <2>4 DEF Message
  <2> QED BY <2>6, <2>7 DEF Concerns, BaseInv, TablesInv
<1> QED BY <1>1, <1>2

(* A page whose threads and sockets stay as they are stays good. *)
LEMMA PageQuiet ==
    ASSUME BaseInv, ThreadInv, [WebNext]_webVars, NEW b \in Browsers, PageGood(b),
           thread'[b] = thread[b], applied'[b] = applied[b],
           b \in mixed => b \in mixed', been[b] \subseteq been'[b], ViewSame(b)
    PROVE  PageGood(b)'
<1>0. /\ DOMAIN stored' = 1 .. Len(stored') /\ Len(stored) \in Nat /\ Len(stored') \in Nat
      /\ DOMAIN stored = 1 .. Len(stored)
      /\ \A id \in 1 .. Len(stored) : Parties(id)' = Parties(id)
  BY StoredGrows DEF BaseInv, TablesInv
<1>1. \A k \in Users : thread[b][k] \in Seq(1 .. Len(stored))
  BY DEF ThreadInv
<1>2. ASSUME b \notin mixed', NEW k \in Users
      PROVE  OwnAt(b, k)'
  <2>1. OwnAt(b, k)
    BY <1>2 DEF PageGood
  <2>2. \A i \in DOMAIN thread[b][k] : thread[b][k][i] \in 1 .. Len(stored)
    BY <1>1
  <2>3. ASSUME NEW i \in DOMAIN thread[b][k]
        PROVE  \E u \in been'[b] : Parties(thread[b][k][i])' = {u, k}
    <3>1. PICK u \in been[b] : Parties(thread[b][k][i]) = {u, k}
      BY <2>1 DEF OwnAt
    <3>2. PICK id : id = thread[b][k][i]
      OBVIOUS
    <3>3. Parties(id)' = Parties(id)
      BY <3>2, <2>2, <1>0
    <3>4. Parties(thread[b][k][i])' = {u, k}
      <4>1. thread'[b][k][i] = id
        BY <3>2
      <4>2. Parties(thread[b][k][i])' = Parties(id)'
        BY <4>1 DEF Parties
      <4> QED BY <4>2, <3>1, <3>2, <3>3
    <3> QED BY <3>1, <3>4
  <2> QED BY <2>3 DEF OwnAt
<1>3. ASSUME NEW k \in Users, NEW id \in 1 .. Len(stored')
      PROVE  KeptAt(b, k, id)'
  <2>1. CASE id \in 1 .. Len(stored)
    <3>1. KeptAt(b, k, id) /\ Brought(b, k, id)' = Brought(b, k, id) /\ Parties(id)' = Parties(id)
      BY <2>1, <1>0, BroughtSame DEF PageGood
    <3>2. Shown(b, k, id)' = Shown(b, k, id)
      BY DEF Shown
    <3>3. Excused(applied[b][k], k, id) => Excused(applied[b][k], k, id)'
      BY <3>1 DEF Excused, Pending
    <3> QED BY <3>1, <3>2, <3>3 DEF KeptAt
  <2>2. CASE id \notin 1 .. Len(stored)
    BY <2>2, <1>0, BroughtSame DEF KeptAt
  <2> QED BY <2>1, <2>2
<1>4. ASSUME NEW k \in Users, NEW id \in 1 .. Len(stored')
      PROVE  CountAt(b, k, id)'
  <2>1. CASE id \in 1 .. Len(stored)
    <3>1. CountAt(b, k, id) /\ Brought(b, k, id)' = Brought(b, k, id)
      BY <2>1, <1>0, BroughtSame DEF PageGood
    <3> QED BY <3>1 DEF CountAt, Places, Loaded, Pending
  <2>2. CASE id \notin 1 .. Len(stored)
    <3>1. Brought(b, k, id)' = {}
      BY <2>2, <1>0, BroughtSame
    <3>2. Places(thread[b][k], id) = {}
      BY <2>2, <1>1 DEF Places
    <3>3. Places(thread[b][k], id)' = {}
      BY <3>2 DEF Places
    <3>4. Loaded(applied[b][k], id)' \in {0, 1}
      BY DEF Loaded
    <3> QED BY <3>1, <3>3, <3>4, FS_EmptySet DEF CountAt
  <2> QED BY <2>1, <2>2
<1> QED BY <1>0, <1>2, <1>3, <1>4 DEF PageGood

(* A page that was loaded anew shows nothing. *)
LEMMA PageReloads ==
    ASSUME BaseInv, ThreadInv, NEW b \in Browsers, Reload(b)
    PROVE  PageGood(b)'
<1>1. /\ thread'  = [thread EXCEPT ![b] = [u \in Users |-> <<>>]]
      /\ applied' = [applied EXCEPT ![b] = [u \in Users |-> Pending]]
      /\ self' = [c \in Conns |-> IF c \in SocketsOf(b) THEN Nobody ELSE self[c]]
  BY DEF Reload
<1>2. \A k \in Users : thread'[b][k] = <<>>
  BY <1>1 DEF ThreadInv
<1>3. ASSUME NEW k, NEW id
      PROVE  Brought(b, k, id)' = {}
  <2>1. ASSUME NEW e \in Brought(b, k, id)'
        PROVE  FALSE
    <3>1. e[1] \in SocketsOf(b) /\ self'[e[1]] # Nobody
      BY DEF Brought, SocketsOf
    <3> QED BY <3>1, <1>1 DEF SocketsOf
  <2> QED BY <2>1
<1>4. ASSUME NEW k \in Users, NEW id
      PROVE  CountAt(b, k, id)'
  <2>1. Places(thread[b][k], id)' = {}
    BY <1>2 DEF Places
  <2>2. Loaded(applied[b][k], id)' \in {0, 1}
    BY DEF Loaded
  <2> QED BY <2>1, <2>2, <1>3, FS_EmptySet DEF CountAt
<1>5. \A k \in Users : OwnAt(b, k)'
  BY <1>2 DEF OwnAt
<1>6. \A k \in Users : \A id : KeptAt(b, k, id)'
  BY <1>3 DEF KeptAt
<1> QED BY <1>4, <1>5, <1>6 DEF PageGood

LEMMA TupleConcat ==
    ASSUME NEW x, NEW y, NEW z
    PROVE  <<x>> \o <<y, z>> = <<x, y, z>>
<1> DEFINE S == {x, y, z}
           s == <<x>> \o <<y, z>>
           t == <<x, y, z>>
<1>1. <<x>> \in Seq(S) /\ <<y, z>> \in Seq(S) /\ t \in Seq(S)
  OBVIOUS
<1>2. /\ s \in Seq(S) /\ Len(s) = 3
      /\ \A i \in 1 .. 3 : s[i] = IF i <= 1 THEN <<x>>[i] ELSE <<y, z>>[i - 1]
  <2>1. Len(<<x>>) = 1 /\ Len(<<y, z>>) = 2
    OBVIOUS
  <2>2. /\ s \in Seq(S) /\ Len(s) = Len(<<x>>) + Len(<<y, z>>)
        /\ \A i \in 1 .. Len(<<x>>) + Len(<<y, z>>) :
              s[i] = IF i <= Len(<<x>>) THEN <<x>>[i] ELSE <<y, z>>[i - Len(<<x>>)]
    BY <1>1, ConcatProperties
  <2> QED BY <2>1, <2>2
<1>3. s[1] = x /\ s[2] = y /\ s[3] = z
  BY <1>2
<1>4. t[1] = x /\ t[2] = y /\ t[3] = z /\ Len(t) = 3
  OBVIOUS
<1> HIDE DEF s, t
<1>5. \A i \in 1 .. 3 : s[i] = t[i]
  <2>1. \A i \in 1 .. 3 : i = 1 \/ i = 2 \/ i = 3
    OBVIOUS
  <2> QED BY <2>1, <1>3, <1>4
<1>6. s = t
  BY <1>1, <1>2, <1>4, <1>5, SeqEqual
<1> QED BY <1>6 DEF s, t

(* What the answer of a call does to its thread. *)
Replaces(b, u, p, ids, n) ==
    /\ ids # <<>> /\ IsAnswer(u, p, ids, n)
    /\ thread'  = [thread EXCEPT ![b][p] = ids]
    /\ applied' = [applied EXCEPT ![b][p] = <<u, ids, n>>]

LEMMA ShowHistoryShows ==
    ASSUME BaseInv, ThreadInv, NEW b \in Browsers, NEW q \in calls[b], ShowHistory(b, q)
    PROVE  \/ UNCHANGED <<thread, applied>>
           \/ \E u \in been[b] \cap Users, p \in Users, ids \in Seq(Nat), n \in Nat :
                 Replaces(b, u, p, ids, n)
<1>1. q \in Requests /\ CallOK(b, q)
  BY DEF BaseInv, CallsInv
<1>2. q.call.what = "history" /\ q.answer # Pending
  BY DEF ShowHistory
<1>3. q.answer \in Seq(Nat) \X Nat /\ q.call.as \in Users
  BY <1>1, <1>2 DEF Requests
<1>4. PICK ids \in Seq(Nat), n \in Nat : q.answer = <<ids, n>>
  BY <1>3
<1>5. PICK u, p : u = q.call.as /\ p = q.call.peer
  OBVIOUS
<1>6. u \in been[b] /\ u \in Users /\ p \in Users /\ IsAnswer(u, p, ids, n)
  BY <1>1, <1>2, <1>3, <1>4, <1>5 DEF CallOK
<1>7. <<u>> \o q.answer = <<u, ids, n>>
  BY <1>4, TupleConcat
<1>8. \/ UNCHANGED <<thread, applied>>
      \/ /\ ids # <<>>
         /\ thread'  = [thread EXCEPT ![b][p] = ids]
         /\ applied' = [applied EXCEPT ![b][p] = <<u>> \o q.answer]
  <2>1. q.answer[1] = ids
    BY <1>4
  <2>2. LET peer == q.call.peer
            rows == q.answer[1]
        IN  IF rows = <<>> THEN UNCHANGED <<thread, applied>>
            ELSE /\ thread'  = [thread EXCEPT ![b][peer] = rows]
                 /\ applied' = [applied EXCEPT ![b][peer] = <<q.call.as>> \o q.answer]
    BY DEF ShowHistory
  <2> QED BY <2>1, <2>2, <1>5
<1>9. CASE UNCHANGED <<thread, applied>>
  BY <1>9
<1>10. CASE /\ ids # <<>>
            /\ thread'  = [thread EXCEPT ![b][p] = ids]
            /\ applied' = [applied EXCEPT ![b][p] = <<u>> \o q.answer]
  <2>1. applied' = [applied EXCEPT ![b][p] = <<u, ids, n>>]
    BY <1>7, <1>10
  <2>2. Replaces(b, u, p, ids, n)
    BY <1>6, <1>10, <2>1 DEF Replaces
  <2> QED BY <1>6, <2>2
<1> QED BY <1>8, <1>9, <1>10

(* A thread replaced by an answer is good: the answer accounts for what it   *)
(* does not have.                                                            *)
LEMMA PageShows ==
    ASSUME BaseInv, ThreadInv, NEW b \in Browsers, PageGood(b), NEW q \in calls[b], ShowHistory(b, q),
           [WebNext]_webVars
    PROVE  PageGood(b)'
<1>0. /\ UNCHANGED <<stored, been, mixed, self, seen, log>>
      /\ DOMAIN stored = 1 .. Len(stored) /\ Len(stored) \in Nat
  BY DEF ShowHistory, vars, authVars, socketVars, BaseInv, TablesInv
<1>1. ViewSame(b)
  BY <1>0 DEF ViewSame
<1>2. CASE UNCHANGED <<thread, applied>>
  BY <1>0, <1>1, <1>2, PageQuiet
<1>3. ASSUME NEW u \in been[b] \cap Users, NEW p \in Users, NEW ids \in Seq(Nat), NEW n \in Nat,
             Replaces(b, u, p, ids, n)
      PROVE  PageGood(b)'
  <2>a. IsAnswer(u, p, ids, n)
    BY <1>3 DEF Replaces
  <2>0. /\ thread'[b][p] = ids /\ applied'[b][p] = <<u, ids, n>>
        /\ \A k \in Users : k # p => thread'[b][k] = thread[b][k] /\ applied'[b][k] = applied[b][k]
    BY <1>3 DEF ThreadInv, Replaces
  <2>1. ASSUME NEW k \in Users, b \notin mixed
        PROVE  OwnAt(b, k)'
    <3>1. CASE k = p
      <4>1. ASSUME NEW i \in DOMAIN ids
            PROVE  Parties(ids[i]) = {u, p}
        <5>1. ids[i] \in Between(u, p)
          BY <2>a DEF IsAnswer
        <5> QED BY <5>1 DEF Between
      <4>2. ASSUME NEW i \in DOMAIN thread'[b][p]
            PROVE  Parties(thread[b][p][i])' = {u, p}
        <5>1. Parties(ids[i]) = {u, p}
          BY <4>1, <2>0
        <5> QED BY <5>1, <2>0, <1>0 DEF Parties
      <4> QED BY <3>1, <4>2, <1>0 DEF OwnAt
    <3>2. CASE k # p
      <4>1. OwnAt(b, k) /\ thread'[b][k] = thread[b][k]
        BY <2>0, <2>1, <3>2 DEF PageGood
      <4> QED BY <4>1, <1>0 DEF OwnAt, Parties
    <3> QED BY <3>1, <3>2
  <2>2. ASSUME NEW k \in Users, NEW id \in 1 .. Len(stored)
        PROVE  KeptAt(b, k, id)' /\ CountAt(b, k, id)'
    <3>0. /\ KeptAt(b, k, id) /\ CountAt(b, k, id)
          /\ Brought(b, k, id)' = Brought(b, k, id) /\ Parties(id)' = Parties(id)
      BY <1>0, <1>1, BroughtSame DEF PageGood, Parties
    <3>1. CASE k = p
      <4>1. id \in Between(u, p) => Parties(id) = {u, p}
        BY DEF Between
      <4>2. <<u, ids, n>>[1] = u /\ <<u, ids, n>>[2] = ids /\ <<u, ids, n>>[3] = n /\ <<u, ids, n>> # <<>>
        OBVIOUS
      <4>3. KeptAt(b, p, id)'
        <5>1. CASE {u, p} # Parties(id)
          <6>1. Excused(applied[b][p], p, id)'
            BY <5>1, <4>2, <2>0, <3>0 DEF Excused, Pending
          <6> QED BY <6>1 DEF KeptAt
        <5>2. CASE ~(id <= n)
          <6>1. id > n
            BY <5>2
          <6>2. Excused(applied[b][p], p, id)'
            BY <6>1, <4>2, <2>0 DEF Excused, Pending
          <6> QED BY <6>2 DEF KeptAt
        <5>3. CASE {u, p} = Parties(id) /\ id <= n
          <6>1. id \in Between(u, p)
            BY <5>3, <1>0 DEF Between
          <6>2. \/ \E i \in DOMAIN ids : ids[i] = id
                \/ Len(ids) = HistoryLimit /\ id < ids[1]
            BY <6>1, <5>3, <2>a DEF IsAnswer
          <6>3. CASE \E i \in DOMAIN ids : ids[i] = id
            BY <6>3, <2>0 DEF KeptAt, Shown
          <6>4. CASE Len(ids) = HistoryLimit /\ id < ids[1]
            <7>1. Excused(applied[b][p], p, id)'
              BY <6>4, <4>2, <2>0 DEF Excused, Pending
            <7> QED BY <7>1 DEF KeptAt
          <6> QED BY <6>2, <6>3, <6>4
        <5> QED BY <5>1, <5>2, <5>3
      <4>4. CountAt(b, p, id)'
        <5>1. Cardinality(Brought(b, p, id)) \in Nat
          BY BroughtFinite
        <5>2. CASE \E i \in DOMAIN ids : ids[i] = id
          <6>1. PICK i \in DOMAIN ids : ids[i] = id
            BY <5>2
          <6>2. Places(ids, id) = {i}
            BY <6>1, <2>a DEF Places, IsAnswer
          <6>3. Cardinality(Places(ids, id)) = 1
            BY <6>2, FS_Singleton
          <6>4. Loaded(applied[b][p], id)' = 1
            BY <6>1, <4>2, <2>0 DEF Loaded, Pending
          <6>5. Places(thread[b][p], id)' = Places(ids, id)
            BY <2>0 DEF Places
          <6> QED BY <3>0, <3>1, <5>1, <6>3, <6>4, <6>5 DEF CountAt
        <5>3. CASE ~ \E i \in DOMAIN ids : ids[i] = id
          <6>1. Places(thread[b][p], id)' = {}
            BY <5>3, <2>0 DEF Places
          <6>2. Loaded(applied[b][p], id)' \in {0, 1}
            BY DEF Loaded
          <6> QED BY <3>0, <3>1, <5>1, <6>1, <6>2, FS_EmptySet DEF CountAt
        <5> QED BY <5>2, <5>3
      <4> QED BY <3>1, <4>3, <4>4
    <3>2. CASE k # p
      <4>1. thread'[b][k] = thread[b][k] /\ applied'[b][k] = applied[b][k]
        BY <2>0, <3>2
      <4>2. Shown(b, k, id)' = Shown(b, k, id)
        BY <4>1 DEF Shown
      <4>3. Excused(applied[b][k], k, id)' = Excused(applied[b][k], k, id)
        BY <4>1, <3>0 DEF Excused, Pending
      <4>4. KeptAt(b, k, id)'
        BY <3>0, <4>2, <4>3 DEF KeptAt
      <4>5. CountAt(b, k, id)'
        BY <3>0, <4>1 DEF CountAt, Places, Loaded, Pending
      <4> QED BY <4>4, <4>5
    <3> QED BY <3>1, <3>2
  <2> QED BY <1>0, <2>1, <2>2 DEF PageGood
<1> QED BY <1>2, <1>3, ShowHistoryShows

(* One event more was brought by one socket, to one thread. *)
BringsTo(c, t, b, k, id) ==
    \A d \in Browsers, p \in Users, n \in 1 .. Len(stored) :
       /\ Brought(d, p, n)' = Brought(d, p, n) \cup
             (IF d = b /\ p = k /\ n = id THEN {<<c, t>>} ELSE {})
       /\ <<c, t>> \notin Brought(d, p, n)

Brings(c, b, k, id) ==
    /\ b = BrowserOf[c] /\ self[c] \in been[b]
    /\ b \notin mixed => Parties(id) = {self[c], k}
    /\ thread' = [thread EXCEPT ![b][k] = Append(@, id)]
    /\ BringsTo(c, seen[c] + 1, b, k, id)

LEMMA OnMessageBrings ==
    ASSUME BaseInv, ThreadInv, NEW c \in Conns, OnMessage(c)
    PROVE  \E b \in Browsers, k \in Users, id \in 1 .. Len(stored) : Brings(c, b, k, id)
<1>1. /\ link[c] \in {"open", "lost"} /\ seen[c] < Len(log[c])
      /\ seen' = [seen EXCEPT ![c] = @ + 1]
      /\ UNCHANGED <<stored, self, log>>
  BY DEF OnMessage, vars
<1>2. /\ seen \in [Conns -> Nat] /\ Len(log[c]) \in Nat /\ log[c] \in Seq(Events)
      /\ self[c] # Nobody /\ self[c] \in Users
      /\ BrowserOf[c] \in Browsers /\ self[c] \in been[BrowserOf[c]]
      /\ BrowserOf[c] \notin mixed => self[c] = UserOf[c]
  BY <1>1 DEF BaseInv, SocketInv, GatewayInv
<1>3. PICK b \in Browsers : b = BrowserOf[c]
  BY <1>2
<1>4. PICK t \in Nat : t = seen[c] + 1
  BY <1>2
<1>5. t \in 1 .. Len(log[c])
  BY <1>1, <1>2, <1>4
<1>6. PICK id : id = log[c][t].id
  OBVIOUS
<1>7. id \in 1 .. Len(stored) /\ UserOf[c] \in Parties(id)
  <2>1. Concerns(id, UserOf[c])
    BY <1>5, <1>6 DEF BaseInv, GatewayInv
  <2> QED BY <2>1 DEF Concerns, BaseInv, TablesInv
<1>8. stored[id] \in Rows
  BY <1>7 DEF BaseInv, TablesInv
<1>9. PICK k : k = OtherThan(self[c], id)
  OBVIOUS
<1>10. /\ k \in Users
       /\ self[c] \in Parties(id) => Parties(id) = {self[c], k}
  <2>1. stored[id].dest[2] \in Users /\ UserOf[stored[id].sender] \in Users
    BY <1>8, WebAssumption DEF Rows
  <2> QED BY <2>1, <1>9 DEF OtherThan, Parties
<1>11. thread' = [thread EXCEPT ![b][k] = Append(@, id)]
  BY <1>3, <1>4, <1>6, <1>9 DEF OnMessage
<1>12. log[c][t] = Message(id)
  <2>1. log[c][t] \in Events
    BY <1>2, <1>5
  <2> QED BY <2>1, <1>6 DEF Events, Message
<1>13. c \in SocketsOf(b) /\ t \in 1 .. MaxPosts * 2
  <2>1. /\ Len(queue) + Len(log[c]) <= 2 * Len(stored) /\ Len(queue) \in Nat
        /\ Len(stored) \in Nat /\ Len(stored) <= MaxPosts /\ MaxPosts \in Nat
    BY WebAssumption DEF BaseInv, GatewayInv, TablesInv
  <2>2. \A w, x, y, z \in Nat : w + x <= 2 * y /\ y <= z => x <= z * 2
    OBVIOUS
  <2>3. Len(log[c]) <= MaxPosts * 2
    BY <2>1, <2>2, <1>2
  <2>4. MaxPosts * 2 \in Nat
    BY <2>1
  <2> QED BY <2>3, <2>4, <1>2, <1>3, <1>5 DEF SocketsOf
<1>14. ASSUME NEW d \in Browsers, NEW p \in Users, NEW n \in 1 .. Len(stored)
       PROVE  /\ Brought(d, p, n)' = Brought(d, p, n) \cup
                     (IF d = b /\ p = k /\ n = id THEN {<<c, t>>} ELSE {})
              /\ <<c, t>> \notin Brought(d, p, n)
  <2>1. ASSUME NEW e \in SocketsOf(d) \X (1 .. MaxPosts * 2)
        PROVE  /\ e \in Brought(d, p, n)' <=>
                     (e \in Brought(d, p, n) \/ (d = b /\ p = k /\ n = id /\ e = <<c, t>>))
               /\ e = <<c, t>> => e \notin Brought(d, p, n)
    <3>1. PICK s \in SocketsOf(d), i \in 1 .. MaxPosts * 2 : e = <<s, i>>
      OBVIOUS
    <3>2. s \in Conns /\ BrowserOf[s] = d /\ e[1] = s /\ e[2] = i
      BY <3>1 DEF SocketsOf
    <3>3. (e \in Brought(d, p, n)) <=> /\ self[s] # Nobody /\ i <= seen[s]
                                       /\ log[s][i] = Message(n) /\ OtherThan(self[s], n) = p
      BY <3>2 DEF Brought
    <3>4. (e \in Brought(d, p, n)') <=> /\ self[s] # Nobody /\ i <= seen'[s]
                                        /\ log[s][i] = Message(n) /\ OtherThan(self[s], n) = p
      BY <3>2, <1>1 DEF Brought, SocketsOf, Message, OtherThan
    <3>5. seen[s] \in Nat /\ i \in Nat
      BY <3>2, <1>2 
    <3>6. CASE s # c
      <4>1. seen'[s] = seen[s] /\ e # <<c, t>>
        BY <3>1, <3>2, <3>6, <1>1, <1>2
      <4> QED BY <3>3, <3>4, <4>1
    <3>7. CASE s = c /\ i # t
      <4>1. i <= seen'[s] <=> i <= seen[s]
        BY <3>5, <3>7, <1>1, <1>2, <1>4
      <4>2. e # <<c, t>>
        BY <3>1, <3>7
      <4> QED BY <3>3, <3>4, <4>1, <4>2
    <3>8. CASE s = c /\ i = t
      <4>1. ~(i <= seen[s]) /\ i <= seen'[s]
        BY <3>5, <3>8, <1>1, <1>2, <1>4
      <4>2. e = <<c, t>> /\ d = b
        BY <3>1, <3>2, <3>8, <1>3
      <4>3. log[s][i] = Message(n) <=> n = id
        BY <3>8, <1>12 DEF Message
      <4>4. self[s] # Nobody
        BY <3>8, <1>2
      <4>5. n = id => (OtherThan(self[s], n) = p <=> p = k)
        BY <3>8, <1>9
      <4> QED BY <3>3, <3>4, <4>1, <4>2, <4>3, <4>4, <4>5
    <3> QED BY <3>6, <3>7, <3>8
  <2>2. \A e \in Brought(d, p, n) \cup Brought(d, p, n)' : e \in SocketsOf(d) \X (1 .. MaxPosts * 2)
    BY DEF Brought, SocketsOf
  <2>3. d = b => <<c, t>> \in SocketsOf(d) \X (1 .. MaxPosts * 2)
    BY <1>13
  <2>4. <<c, t>> \notin Brought(d, p, n)
    BY <2>1, <2>2
  <2>5. \A e : e \in Brought(d, p, n)' <=>
               (e \in Brought(d, p, n) \/ (d = b /\ p = k /\ n = id /\ e = <<c, t>>))
    BY <2>1, <2>2, <2>3
  <2> QED BY <2>4, <2>5
<1>15. b \notin mixed => Parties(id) = {self[c], k}
  BY <1>2, <1>3, <1>7, <1>10
<1>16. BringsTo(c, t, b, k, id)
  BY <1>14 DEF BringsTo
<1>17. Brings(c, b, k, id)
  BY <1>2, <1>3, <1>4, <1>11, <1>15, <1>16 DEF Brings
<1> QED BY <1>7, <1>10, <1>17

(* The thread an event came to has it, under a user of the page. *)
LEMMA PageReads ==
    ASSUME BaseInv, ThreadInv, NEW c \in Conns, OnMessage(c),
           NEW b \in Browsers, NEW kk \in Users, NEW new \in 1 .. Len(stored),
           Brings(c, b, kk, new), PageGood(b)
    PROVE  PageGood(b)'
<1>0. /\ UNCHANGED <<stored, been, mixed, applied>>
      /\ DOMAIN stored = 1 .. Len(stored) /\ Len(stored) \in Nat
  <2>1. UNCHANGED <<stored, been, mixed, applied>>
    BY DEF OnMessage, authVars, vars
  <2>2. stored \in Seq(Rows)
    BY DEF BaseInv, TablesInv
  <2> QED BY <2>1, <2>2
<1>1. thread' = [thread EXCEPT ![b][kk] = Append(@, new)]
  BY DEF Brings
<1>2. PICK s \in Seq(1 .. Len(stored)) : s = thread[b][kk]
  BY DEF ThreadInv
<1>3. PICK z \in Nat : z = Len(s) + 1
  BY <1>2
<1>4. /\ thread'[b][kk] = Append(s, new)
      /\ \A k \in Users : k # kk => thread'[b][k] = thread[b][k]
  BY <1>1, <1>2 DEF ThreadInv
<1>5. /\ Append(s, new) \in Seq(1 .. Len(stored)) /\ DOMAIN Append(s, new) = 1 .. z
      /\ DOMAIN s = 1 .. z - 1
      /\ \A i \in 1 .. z - 1 : Append(s, new)[i] = s[i]
      /\ Append(s, new)[z] = new
  <2>1. /\ Append(s, new) \in Seq(1 .. Len(stored)) /\ Len(Append(s, new)) = Len(s) + 1
        /\ \A i \in 1 .. Len(s) : Append(s, new)[i] = s[i]
        /\ Append(s, new)[Len(s) + 1] = new
    BY <1>2, AppendProperties
  <2>2. Len(s) \in Nat /\ z - 1 = Len(s)
    BY <1>3
  <2> QED BY <2>1, <2>2, <1>3
<1>6. ASSUME NEW i \in 1 .. z
      PROVE  i \in 1 .. z - 1 \/ i = z
  BY <1>3
<1>7. ASSUME NEW k \in Users, b \notin mixed
      PROVE  OwnAt(b, k)'
  <2>1. OwnAt(b, k)
    BY <1>7 DEF PageGood
  <2>2. CASE k # kk
    BY <2>1, <2>2, <1>4, <1>0 DEF OwnAt, Parties
  <2>3. CASE k = kk
    <3>1. ASSUME NEW i \in 1 .. z
          PROVE  \E u \in been[b] : Parties(Append(s, new)[i]) = {u, kk}
      <4>1. CASE i \in 1 .. z - 1
        <5>1. \E u \in been[b] : Parties(thread[b][kk][i]) = {u, kk}
          BY <2>1, <2>3, <4>1, <1>2, <1>5 DEF OwnAt
        <5>2. Append(s, new)[i] = thread[b][kk][i]
          BY <4>1, <1>2, <1>5
        <5> QED BY <5>1, <5>2
      <4>2. CASE i = z
        BY <4>2, <1>5, <1>7 DEF Brings
      <4> QED BY <4>1, <4>2, <1>6
    <3>2. ASSUME NEW i \in DOMAIN thread'[b][kk]
          PROVE  \E u \in been'[b] : Parties(thread[b][kk][i])' = {u, kk}
      <4>1. i \in 1 .. z
        BY <1>4, <1>5
      <4>2. Parties(thread[b][kk][i])' = Parties(Append(s, new)[i])
        BY <1>4, <1>0 DEF Parties
      <4> QED BY <4>1, <4>2, <3>1, <1>0
    <3> QED BY <2>3, <3>2 DEF OwnAt
  <2> QED BY <2>2, <2>3
<1>8. ASSUME NEW k \in Users, NEW id \in 1 .. Len(stored)
      PROVE  KeptAt(b, k, id)' /\ CountAt(b, k, id)'
  <2>0. KeptAt(b, k, id) /\ CountAt(b, k, id)
    BY <1>0 DEF PageGood
  <2>1. /\ Brought(b, k, id)' = Brought(b, k, id) \cup
              (IF k = kk /\ id = new THEN {<<c, seen[c] + 1>>} ELSE {})
        /\ <<c, seen[c] + 1>> \notin Brought(b, k, id)
    BY DEF Brings, BringsTo
  <2>2. /\ IsFiniteSet(Brought(b, k, id)) /\ Cardinality(Brought(b, k, id)) \in Nat
    BY BroughtFinite
  <2>3. Excused(applied[b][k], k, id)' = Excused(applied[b][k], k, id)
        /\ Loaded(applied[b][k], id)' = Loaded(applied[b][k], id)
    BY <1>0 DEF Excused, Parties, Loaded, Pending
  <2>4. Loaded(applied[b][k], id) \in {0, 1}
    BY DEF Loaded
  <2>5. Shown(b, k, id) => Shown(b, k, id)'
    <3>1. CASE k # kk
      BY <3>1, <1>4 DEF Shown
    <3>2. CASE k = kk
      <4>1. ASSUME NEW i \in DOMAIN s, s[i] = id
            PROVE  i \in DOMAIN Append(s, new) /\ Append(s, new)[i] = id
        BY <4>1, <1>3, <1>5
      <4> QED BY <3>2, <4>1, <1>2, <1>4 DEF Shown
    <3> QED BY <3>1, <3>2
  <2>6. CASE k # kk
    <3>1. Brought(b, k, id)' = Brought(b, k, id) /\ thread'[b][k] = thread[b][k]
      BY <2>1, <2>6, <1>4
    <3> QED BY <3>1, <2>0, <2>3, <2>5 DEF KeptAt, CountAt, Places
  <2>7. CASE k = kk /\ id # new
    <3>1. Brought(b, k, id)' = Brought(b, k, id)
      BY <2>1, <2>7
    <3>2. Places(Append(s, new), id) = Places(s, id)
      <4>1. ASSUME NEW i
            PROVE  i \in Places(Append(s, new), id) <=> i \in Places(s, id)
        <5>1. CASE i \in 1 .. z - 1
          BY <5>1, <1>3, <1>5 DEF Places
        <5>2. CASE i \notin 1 .. z - 1
          <6>1. i \notin Places(s, id)
            BY <5>2, <1>5 DEF Places
          <6>2. i \in 1 .. z => Append(s, new)[i] = new
            BY <5>2, <1>5, <1>6
          <6> QED BY <6>1, <6>2, <2>7, <1>5 DEF Places
        <5> QED BY <5>1, <5>2
      <4> QED BY <4>1
    <3>3. Places(thread[b][k], id)' = Places(thread[b][k], id)
      BY <3>2, <2>7, <1>2, <1>4 DEF Places
    <3> QED BY <3>1, <3>3, <2>0, <2>3, <2>5 DEF KeptAt, CountAt
  <2>8. CASE k = kk /\ id = new
    <3>1. Shown(b, k, id)'
      <4>1. z \in DOMAIN Append(s, new) /\ Append(s, new)[z] = id
        BY <2>8, <1>3, <1>5
      <4> QED BY <4>1, <2>8, <1>4 DEF Shown
    <3>2. Brought(b, k, id)' = Brought(b, k, id) \cup {<<c, seen[c] + 1>>}
      BY <2>1, <2>8
    <3>3. Cardinality(Brought(b, k, id)') = Cardinality(Brought(b, k, id)) + 1
      BY <3>2, <2>1, <2>2, FS_AddElement
    <3>4. Places(Append(s, new), id) = Places(s, id) \cup {z}
      <4>1. ASSUME NEW i
            PROVE  i \in Places(Append(s, new), id) <=> i \in Places(s, id) \cup {z}
        <5>1. CASE i \in 1 .. z - 1
          <6>1. i # z /\ i \in 1 .. z
            BY <5>1, <1>3
          <6> QED BY <5>1, <6>1, <1>5 DEF Places
        <5>2. CASE i \notin 1 .. z - 1
          <6>1. i \notin Places(s, id)
            BY <5>2, <1>5 DEF Places
          <6>2. i \in 1 .. z => i = z
            BY <5>2, <1>6
          <6>3. z \in 1 .. z
            BY <1>3
          <6> QED BY <6>1, <6>2, <6>3, <2>8, <1>5 DEF Places
        <5> QED BY <5>1, <5>2
      <4> QED BY <4>1
    <3>5. IsFiniteSet(Places(s, id)) /\ Cardinality(Places(s, id)) \in Nat /\ z \notin Places(s, id)
      <4>1. Places(s, id) \in SUBSET (1 .. z - 1) /\ IsFiniteSet(1 .. z - 1)
        BY <1>3, <1>5, FS_Interval DEF Places
      <4>2. IsFiniteSet(Places(s, id))
        BY <4>1, FS_Subset
      <4>3. z \notin 1 .. z - 1
        BY <1>3
      <4> QED BY <4>1, <4>2, <4>3, FS_CardinalityType
    <3>6. Cardinality(Places(Append(s, new), id)) = Cardinality(Places(s, id)) + 1
      BY <3>4, <3>5, FS_AddElement
    <3>7. Cardinality(Places(s, id)) <= Cardinality(Brought(b, k, id)) + Loaded(applied[b][k], id)
      BY <2>0, <2>8, <1>2 DEF CountAt
    <3>8. \A w, x, y \in Nat : w <= x + y => w + 1 <= (x + 1) + y
      OBVIOUS
    <3>9. Cardinality(Places(Append(s, new), id))
          <= (Cardinality(Brought(b, k, id)) + 1) + Loaded(applied[b][k], id)
      BY <3>5, <3>6, <3>7, <3>8, <2>2, <2>4
    <3>10. Places(thread[b][k], id)' = Places(Append(s, new), id)
      BY <2>8, <1>4 DEF Places
    <3>11. CountAt(b, k, id)'
      BY <3>3, <3>9, <3>10, <2>3 DEF CountAt
    <3> QED BY <3>1, <3>11 DEF KeptAt
  <2> QED BY <2>6, <2>7, <2>8
<1> QED BY <1>0, <1>7, <1>8 DEF PageGood

(* Only three actions touch the threads of a page. *)
LEMMA ThreadsSame ==
    ASSUME [WebNext]_webVars,
           ~ \E c \in Conns : OnMessage(c),
           ~ \E b \in Browsers : Reload(b),
           ~ \E b \in Browsers : \E k \in calls[b] : ShowHistory(b, k)
    PROVE  UNCHANGED <<thread, applied>>
<1>1. ASSUME NEW b \in Browsers, NEW u \in Users, Enters(b, u) \/ SelectDM(b, u)
      PROVE  UNCHANGED <<thread, applied>>
  BY <1>1, EntersIsSignIn DEF SignIn, SelectDM, pageVars
<1>2. ASSUME NEW b \in Browsers, NEW k \in calls[b], Settles(b, k) \/ Hydrate(b, k), ~ShowHistory(b, k)
      PROVE  UNCHANGED <<thread, applied>>
  BY <1>2 DEF Settles, Answer, HydrateFails, HistoryFails, Hydrate, pageVars
<1>3. ASSUME NEW b \in Browsers, Logout(b)
      PROVE  UNCHANGED <<thread, applied>>
  BY <1>3 DEF Logout, pageVars
<1>4. ASSUME NEW c \in Conns, Open(c) \/ Break(c) \/ OnClose(c)
      PROVE  UNCHANGED <<thread, applied>>
  BY <1>4 DEF Open, Break, OnClose, pageVars
<1>5. ASSUME Sends \/ Gateway \/ Stop \/ Restart \/ UNCHANGED webVars
      PROVE  UNCHANGED <<thread, applied>>
  BY <1>5 DEF Sends, SendMessage, SendElsewhere, Gateway, Stop, Restart, webVars, pageVars
<1> QED BY <1>1, <1>2, <1>3, <1>4, <1>5, StepIsOneOf

LEMMA ThreadStep ==
    ASSUME BaseInv, ThreadInv, [WebNext]_webVars
    PROVE  ThreadInv'
<1> DEFINE Ids == 1 .. Len(stored)
           Answers == {Pending} \cup (Users \X Seq(Nat) \X Nat)
<1>1. ASSUME thread' \in [Browsers -> [Users -> Seq(Ids)]],
             applied' \in [Browsers -> [Users -> Answers]]
      PROVE  ThreadInv'
  <2>1. Ids \subseteq 1 .. Len(stored')
    BY StoredGrows
  <2>2. \A s \in Seq(Ids) : s \in Seq(1 .. Len(stored'))
    <3>1. ASSUME NEW s \in Seq(Ids)
          PROVE  s \in Seq(1 .. Len(stored'))
      <4>1. Len(s) \in Nat /\ s \in [1 .. Len(s) -> Ids]
        OBVIOUS
      <4>2. s \in [1 .. Len(s) -> 1 .. Len(stored')]
        BY <2>1, <4>1
      <4> QED BY <4>1, <4>2
    <3> QED BY <3>1
  <2>3. thread' \in [Browsers -> [Users -> Seq(1 .. Len(stored'))]]
    <3>1. ASSUME NEW b \in Browsers
          PROVE  thread'[b] \in [Users -> Seq(1 .. Len(stored'))]
      BY <1>1, <2>2
    <3> QED BY <1>1, <3>1
  <2> QED BY <1>1, <2>3 DEF ThreadInv, Pending
<1>0. thread \in [Browsers -> [Users -> Seq(Ids)]] /\ applied \in [Browsers -> [Users -> Answers]]
  BY DEF ThreadInv
<1> HIDE DEF Ids, Answers
<1>2. ASSUME NEW c \in Conns, OnMessage(c)
      PROVE  ThreadInv'
  <2>1. PICK b \in Browsers, k \in Users, id \in 1 .. Len(stored) : Brings(c, b, k, id)
    BY <1>2, OnMessageBrings
  <2>2. thread' = [thread EXCEPT ![b][k] = Append(@, id)] /\ applied' = applied
    BY <1>2, <2>1 DEF Brings, OnMessage
  <2>3. Append(thread[b][k], id) \in Seq(Ids)
    BY <1>0, <2>1, AppendProperties DEF Ids
  <2>4. thread' \in [Browsers -> [Users -> Seq(Ids)]]
    BY <1>0, <2>2, <2>3
  <2> QED BY <1>0, <1>1, <2>2, <2>4
<1>3. ASSUME NEW b \in Browsers, NEW q \in calls[b], ShowHistory(b, q)
      PROVE  ThreadInv'
  <2>1. CASE UNCHANGED <<thread, applied>>
    BY <1>0, <1>1, <2>1
  <2>2. ASSUME NEW u \in been[b] \cap Users, NEW p \in Users, NEW ids \in Seq(Nat), NEW n \in Nat,
               Replaces(b, u, p, ids, n)
        PROVE  ThreadInv'
    <3>1. ids \in Seq(Ids)
      <4>1. Len(ids) \in Nat /\ ids \in [1 .. Len(ids) -> Between(u, p)]
        BY <2>2 DEF Replaces, IsAnswer
      <4>2. Between(u, p) \subseteq Ids
        BY DEF Between, Ids, BaseInv, TablesInv
      <4>3. ids \in [1 .. Len(ids) -> Ids]
        BY <4>1, <4>2
      <4> QED BY <4>1, <4>3
    <3>2. <<u, ids, n>> \in Answers
      BY DEF Answers
    <3>3. thread' \in [Browsers -> [Users -> Seq(Ids)]]
      BY <1>0, <2>2, <3>1 DEF Replaces
    <3>4. PICK a \in Answers : a = <<u, ids, n>>
      BY <3>2
    <3>5. applied' \in [Browsers -> [Users -> Answers]]
      BY <1>0, <2>2, <3>4 DEF Replaces
    <3> QED BY <1>1, <3>3, <3>5
  <2> QED BY <1>3, <2>1, <2>2, ShowHistoryShows
<1>4. ASSUME NEW b \in Browsers, Reload(b)
      PROVE  ThreadInv'
  <2>1. /\ thread'  = [thread EXCEPT ![b] = [u \in Users |-> <<>>]]
        /\ applied' = [applied EXCEPT ![b] = [u \in Users |-> Pending]]
    BY <1>4 DEF Reload
  <2>2. <<>> \in Seq(Ids) /\ Pending \in Answers
    BY DEF Answers
  <2>3. thread' \in [Browsers -> [Users -> Seq(Ids)]]
    BY <1>0, <2>1, <2>2
  <2>4. applied' \in [Browsers -> [Users -> Answers]]
    BY <1>0, <2>1, <2>2
  <2> QED BY <1>1, <2>3, <2>4
<1>5. CASE UNCHANGED <<thread, applied>>
  BY <1>0, <1>1, <1>5
<1> QED BY <1>2, <1>3, <1>4, <1>5, ThreadsSame

(* What a page has read stays read, unless it is loaded anew. *)
LEMMA ViewKept ==
    ASSUME BaseInv, [WebNext]_webVars, NEW b \in Browsers,
           ~Reload(b), ~ \E c \in SocketsOf(b) : OnMessage(c)
    PROVE  ViewSame(b) /\ (b \in mixed => b \in mixed') /\ been[b] \subseteq been'[b]
<1> DEFINE Kept == ViewSame(b) /\ (b \in mixed => b \in mixed') /\ been[b] \subseteq been'[b]
<1>0. /\ SocketInv
      /\ \A c \in Conns : Len(log[c]) \in Nat /\ log[c] \in Seq(Events)
      /\ \A c \in SocketsOf(b) : c \in Conns /\ BrowserOf[c] = b
  BY DEF BaseInv, GatewayInv, SocketsOf
<1>1. ASSUME NEW d \in Browsers, NEW token, NEW user \in Users, Connect(d, token, user), UNCHANGED log,
             \A e \in Browsers : been[e] \subseteq been'[e]
      PROVE  Kept
  <2>1. PICK c \in SocketsOf(d) :
              /\ c \in Conns /\ seen[c] = 0
              /\ self'   = [self EXCEPT ![c] = user]
              /\ mixed'  = IF token = user THEN mixed ELSE mixed \cup {d}
              /\ UNCHANGED seen
    BY <1>1, ConnectMakes
  <2>2. ASSUME NEW s \in SocketsOf(b), NEW i \in 1 .. seen[s]
        PROVE  self'[s] = self[s]
    <3>1. s # c
      BY <2>1, <2>2
    <3> QED BY <3>1, <2>1, <1>0 DEF SocketInv
  <2> QED BY <1>1, <2>1, <2>2 DEF ViewSame
<1>2. ASSUME NEW d \in Browsers, NEW u \in Users, Enters(d, u)
      PROVE  Kept
  <2>1. Connect(d, u, u) /\ UNCHANGED log /\ been' = [been EXCEPT ![d] = @ \cup {u}]
    BY <1>2, EntersIsSignIn DEF SignIn, SetUser, vars
  <2>2. \A e \in Browsers : been[e] \subseteq been'[e]
    BY <2>1, <1>0 DEF SocketInv
  <2> QED BY <2>1, <2>2, <1>1
<1>3. ASSUME NEW d \in Browsers, NEW k \in calls[d], Hydrate(d, k)
      PROVE  Kept
  <2>1. UNCHANGED <<log, been>> /\ k.call.as \in Users
    BY <1>3 DEF Hydrate, vars, BaseInv, CallsInv, Requests
  <2>2. CASE Connect(d, auth[d].token, k.call.as)
    BY <2>1, <2>2, <1>1
  <2>3. CASE UNCHANGED <<socketVars, mixed>>
    BY <2>1, <2>3 DEF ViewSame, socketVars
  <2> QED BY <1>3, <2>2, <2>3 DEF Hydrate
<1>4. ASSUME NEW d \in Browsers, Reload(d)
      PROVE  Kept
  <2>1. d # b
    BY <1>4
  <2>2. /\ self' = [c \in Conns |-> IF c \in SocketsOf(d) THEN Nobody ELSE self[c]]
        /\ seen' = [c \in Conns |-> IF c \in SocketsOf(d) THEN 0 ELSE seen[c]]
        /\ log'  = [c \in Conns |-> IF c \in SocketsOf(d) THEN <<>> ELSE log[c]]
        /\ been' = [been EXCEPT ![d] = {auth[d].token} \ {Nobody}]
        /\ mixed' = mixed \ {d}
    BY <1>4 DEF Reload
  <2>3. \A s \in SocketsOf(b) : s \notin SocketsOf(d)
    BY <2>1 DEF SocketsOf
  <2>4. ViewSame(b)
    BY <2>2, <2>3, <1>0 DEF ViewSame
  <2>5. been'[b] = been[b]
    BY <2>1, <2>2, <1>0 DEF SocketInv
  <2> QED BY <2>1, <2>2, <2>4, <2>5
<1>5. ASSUME NEW c \in Conns, OnMessage(c)
      PROVE  Kept
  <2>1. seen' = [seen EXCEPT ![c] = @ + 1] /\ UNCHANGED <<self, log, mixed, been>>
    BY <1>5 DEF OnMessage, vars, authVars
  <2>2. \A s \in SocketsOf(b) : s # c
    BY <1>5
  <2>3. \A s \in SocketsOf(b) : seen'[s] = seen[s]
    BY <2>1, <2>2, <1>0 DEF SocketInv
  <2> QED BY <2>1, <2>3 DEF ViewSame
<1>6. ASSUME NEW c \in Conns, OnClose(c)
      PROVE  Kept
  <2>1. UNCHANGED <<self, seen, mixed, been>>
    BY <1>6 DEF OnClose, authVars
  <2>2. \A s \in SocketsOf(b) : \A i \in 1 .. seen[s] : log'[s][i] = log[s][i]
    BY <1>6, <1>0, OnCloseLog
  <2> QED BY <2>1, <2>2 DEF ViewSame
<1>7. ASSUME Gateway
      PROVE  Kept
  <2>1. UNCHANGED <<self, seen, mixed, been>>
    BY <1>7 DEF Gateway, authVars, socketVars
  <2>2. PICK to, e : log' = [c \in Conns |-> IF c \in to THEN Append(log[c], e) ELSE log[c]]
    <3>1. PICK to : Give(to, Head(queue).event)
      BY <1>7 DEF Gateway, Relay
    <3> QED BY <3>1 DEF Give
  <2>3. ASSUME NEW s \in SocketsOf(b), NEW i \in 1 .. seen[s]
        PROVE  log'[s][i] = log[s][i]
    <3>1. seen[s] \in Nat /\ seen[s] <= Len(log[s]) /\ s \in Conns
      BY <1>0 DEF SocketInv
    <3>2. i \in 1 .. Len(log[s])
      BY <3>1, <1>0
    <3>3. Append(log[s], e)[i] = log[s][i]
      BY <3>1, <3>2, <1>0
    <3> QED BY <2>2, <3>1, <3>3
  <2> QED BY <2>1, <2>3 DEF ViewSame
<1>8. CASE \/ \E d \in Browsers, u \in Users : SelectDM(d, u)
           \/ \E d \in Browsers : \E k \in calls[d] : Settles(d, k)
           \/ \E d \in Browsers : Logout(d)
           \/ \E c \in Conns : Open(c) \/ Break(c)
           \/ Sends \/ Stop \/ Restart \/ UNCHANGED webVars
  <2>1. ASSUME NEW d \in Browsers, NEW u \in Users, SelectDM(d, u)
        PROVE  UNCHANGED <<self, seen, log, mixed, been>>
    BY <2>1 DEF SelectDM, vars, authVars, socketVars
  <2>2. ASSUME NEW d \in Browsers, NEW k \in calls[d], Settles(d, k)
        PROVE  UNCHANGED <<self, seen, log, mixed, been>>
    BY <2>2 DEF Settles, Answer, HydrateFails, ShowHistory, HistoryFails, vars, authVars, socketVars
  <2>3. ASSUME NEW d \in Browsers, Logout(d)
        PROVE  UNCHANGED <<self, seen, log, mixed, been>>
    BY <2>3 DEF Logout, vars, socketVars
  <2>4. ASSUME NEW c \in Conns, Open(c) \/ Break(c)
        PROVE  UNCHANGED <<self, seen, log, mixed, been>>
    BY <2>4 DEF Open, Break, authVars
  <2>5. ASSUME Sends
        PROVE  UNCHANGED <<self, seen, log, mixed, been>>
    BY <2>5, SendsIsSend DEF BaseInv, authVars, socketVars
  <2>6. ASSUME Stop \/ Restart \/ UNCHANGED webVars
        PROVE  UNCHANGED <<self, seen, log, mixed, been>>
    BY <2>6 DEF Stop, Restart, webVars, vars, authVars, socketVars
  <2>7. UNCHANGED <<self, seen, log, mixed, been>>
    BY <1>8, <2>1, <2>2, <2>3, <2>4, <2>5, <2>6
  <2> QED BY <2>7 DEF ViewSame
<1> QED BY <1>2, <1>3, <1>4, <1>5, <1>6, <1>7, <1>8, StepIsOneOf

LEMMA PagesStep ==
    ASSUME BaseInv, ThreadInv, [WebNext]_webVars, NEW b \in Browsers, PageGood(b)
    PROVE  PageGood(b)'
<1>1. CASE Reload(b)
  BY <1>1, PageReloads
<1>2. ASSUME NEW c \in Conns, OnMessage(c)
      PROVE  PageGood(b)'
  <2>1. PICK d \in Browsers, k \in Users, id \in 1 .. Len(stored) : Brings(c, d, k, id)
    BY <1>2, OnMessageBrings
  <2>2. CASE d = b
    BY <1>2, <2>1, <2>2, PageReads
  <2>3. CASE d # b
    <3>1. thread'[b] = thread[b] /\ applied'[b] = applied[b]
      BY <1>2, <2>1, <2>3 DEF Brings, OnMessage, ThreadInv
    <3>2. BrowserOf[c] # b
      BY <2>1, <2>3 DEF Brings
    <3>3. ViewSame(b) /\ UNCHANGED <<mixed, been>>
      <4>1. seen' = [seen EXCEPT ![c] = @ + 1] /\ UNCHANGED <<self, log, mixed, been>>
        BY <1>2 DEF OnMessage, vars, authVars
      <4>2. \A s \in SocketsOf(b) : s \in Conns /\ s # c
        BY <3>2 DEF SocketsOf
      <4>3. \A s \in SocketsOf(b) : seen'[s] = seen[s]
        BY <4>1, <4>2 DEF BaseInv, SocketInv
      <4> QED BY <4>1, <4>3 DEF ViewSame
    <3> QED BY <3>1, <3>3, PageQuiet
  <2> QED BY <2>2, <2>3
<1>3. ASSUME NEW d \in Browsers, NEW q \in calls[d], ShowHistory(d, q)
      PROVE  PageGood(b)'
  <2>1. CASE d = b
    BY <1>3, <2>1, PageShows
  <2>2. CASE d # b
    <3>1. thread'[b] = thread[b] /\ applied'[b] = applied[b]
      <4>1. CASE UNCHANGED <<thread, applied>>
        BY <4>1
      <4>2. ASSUME NEW u \in been[d] \cap Users, NEW p \in Users, NEW ids \in Seq(Nat), NEW n \in Nat,
                   Replaces(d, u, p, ids, n)
            PROVE  thread'[b] = thread[b] /\ applied'[b] = applied[b]
        BY <2>2, <4>2 DEF Replaces, ThreadInv
      <4> QED BY <1>3, <4>1, <4>2, ShowHistoryShows
    <3>2. UNCHANGED <<self, seen, log, mixed, been>>
      BY <1>3 DEF ShowHistory, vars, authVars, socketVars
    <3>3. ViewSame(b)
      BY <3>2 DEF ViewSame
    <3> QED BY <3>1, <3>2, <3>3, PageQuiet
  <2> QED BY <2>1, <2>2
<1>4. ASSUME NEW d \in Browsers, Reload(d), d # b
      PROVE  PageGood(b)'
  <2>1. CASE Reload(b)
    BY <2>1, <1>1
  <2>2. CASE ~Reload(b)
    <3>1. thread'[b] = thread[b] /\ applied'[b] = applied[b]
      BY <1>4 DEF Reload, ThreadInv
    <3>2. CASE \E c \in SocketsOf(b) : OnMessage(c)
      BY <3>2, <1>2 DEF SocketsOf
    <3>3. CASE ~ \E c \in SocketsOf(b) : OnMessage(c)
      BY <2>2, <3>1, <3>3, ViewKept, PageQuiet
    <3> QED BY <3>2, <3>3
  <2> QED BY <2>1, <2>2
<1>5. CASE /\ ~ \E c \in Conns : OnMessage(c)
           /\ ~ \E d \in Browsers : Reload(d)
           /\ ~ \E d \in Browsers : \E k \in calls[d] : ShowHistory(d, k)
  <2>1. thread'[b] = thread[b] /\ applied'[b] = applied[b]
    BY <1>5, ThreadsSame
  <2>2. ~ \E c \in SocketsOf(b) : OnMessage(c)
    BY <1>5 DEF SocketsOf
  <2> QED BY <1>5, <2>1, <2>2, ViewKept, PageQuiet
<1> QED BY <1>1, <1>2, <1>3, <1>4, <1>5

----------------------------------------------------------------------------
(* The theorems.                                                            *)

LEMMA WebInitially == WebInit => WebInv
<1> SUFFICES ASSUME WebInit
             PROVE  WebInv
  OBVIOUS
<1> USE DEF WebInit
<1>1. stored = <<>> /\ queue = <<>> /\ log = [c \in Conns |-> <<>>] /\ listeners = [d \in Dests |-> {}]
  BY DEF Init
<1>2. TablesInv
  BY <1>1, WebAssumption DEF TablesInv
<1>3. GatewayInv
  <2>1. \A u \in Users : <<"user", u>> \in Dests
    BY DEF Dests
  <2>2. queue \in Seq(Pieces) /\ \A i \in 1 .. Len(queue) : FALSE
    BY <1>1
  <2>3. /\ log \in [Conns -> Seq(Events)]
        /\ \A c \in Conns : Len(log[c]) = 0 /\ \A i \in 1 .. Len(log[c]) : FALSE
    BY <1>1
  <2>4. \A c \in Conns : Len(queue) + Len(log[c]) <= 2 * Len(stored)
    BY <1>1, <2>3
  <2> QED BY <1>1, <2>1, <2>2, <2>3, <2>4 DEF GatewayInv
<1>4. SocketInv
  BY <1>1 DEF SocketInv
<1>5. PageInv
  BY WebAssumption DEF PageInv, OnPage, NoAuth
<1>6. CallsInv
  BY DEF CallsInv
<1>7. ThreadInv
  BY DEF ThreadInv
<1>8. SpeaksAsSelf
  BY DEF SpeaksAsSelf
<1>9. ASSUME NEW b \in Browsers
      PROVE  PageGood(b)
  <2>1. DOMAIN stored = {}
    BY <1>1
  <2>2. \A k \in Users : OwnAt(b, k)
    BY DEF OwnAt
  <2> QED BY <2>1, <2>2 DEF PageGood
<1> QED BY <1>2, <1>3, <1>4, <1>5, <1>6, <1>7, <1>8, <1>9, PagesGood DEF WebInv, BaseInv

LEMMA WebInvSteps == WebInv /\ [WebNext]_webVars => WebInv'
<1> SUFFICES ASSUME WebInv, [WebNext]_webVars
             PROVE  WebInv'
  OBVIOUS
<1>1. BaseInv /\ ThreadInv /\ SpeaksAsSelf
  BY DEF WebInv
<1>2. BaseInv' /\ ThreadInv' /\ SpeaksAsSelf'
  BY <1>1, BaseStep, ThreadStep, SpeaksStep
<1>3. \A b \in Browsers : PageGood(b)
  BY PagesGood DEF WebInv
<1>4. \A b \in Browsers : PageGood(b)'
  BY <1>1, <1>3, PagesStep
<1>5. (\A b \in Browsers : PageGood(b))'
  BY <1>4
<1>6. ((ThreadsAreOwn /\ NothingHidden /\ CopiesAreBrought) <=> \A b \in Browsers : PageGood(b))'
  BY PagesGood, PTL
<1>7. (ThreadsAreOwn /\ NothingHidden /\ CopiesAreBrought)'
  BY <1>5, <1>6
<1> QED BY <1>2, <1>7 DEF WebInv

LEMMA WebInvHolds == WebSpec => []WebInv
BY WebInitially, WebInvSteps, PTL DEF WebSpec

(* Every variable of the page and of the server behind it keeps its type,    *)
(* and the calls are numbered within their bounds.                           *)
THEOREM WebTypes == WebSpec => []WebTypeOK
<1>1. ASSUME WebInv
      PROVE  WebTypeOK
  <2>1. TablesInv /\ GatewayInv /\ SocketInv /\ PageInv /\ CallsInv /\ ThreadInv
    BY <1>1 DEF WebInv, BaseInv
  <2>2. ASSUME NEW b \in Browsers, NEW k \in calls[b]
        PROVE  /\ k.call.what \in {"me", "history"} /\ k.call.as \in Users
               /\ k.n \in 0 .. MaxLoads + MaxTurns
    <3>1. k \in Requests
      BY <2>1 DEF CallsInv
    <3> QED BY <3>1 DEF Requests
  <2>3. \A c \in Conns : seen[c] \in 0 .. Len(log[c])
    BY <2>1 DEF SocketInv, GatewayInv
  <2>4. /\ accounts \subseteq Users /\ server \in {"up", "down"}
        /\ auth \in [Browsers -> [token : Users \cup {Nobody}, user : Users \cup {Nobody}]]
        /\ activeDM \in [Browsers -> Users \cup {Nobody}]
    BY <2>1 DEF PageInv
  <2>5. /\ link \in [Conns -> {"unused", "opening", "open", "lost", "closed"}]
        /\ self \in [Conns -> Users \cup {Nobody}]
        /\ \A b \in Browsers : socket[b] \in SocketsOf(b) \cup {Nobody}
        /\ been \in [Browsers -> SUBSET Users] /\ mixed \subseteq Browsers
    BY <2>1 DEF SocketInv
  <2>6. {made, turns} \subseteq Nat /\ thread \in [Browsers -> [Users -> Seq(1 .. Len(stored))]]
    BY <2>1 DEF TablesInv, ThreadInv
  <2> QED BY <2>2, <2>3, <2>4, <2>5, <2>6 DEF WebTypeOK
<1> QED BY <1>1, WebInvHolds, PTL

(* A thread holds only messages between its other user and somebody who was  *)
(* logged in on this page, in whatever order sockets and answers come in.    *)
THEOREM WebThreadsAreOwn == WebSpec => []ThreadsAreOwn
<1>1. WebInv => ThreadsAreOwn
  BY DEF WebInv
<1> QED BY <1>1, WebInvHolds, PTL

(* What a socket brought is shown, unless the thread was replaced by an      *)
(* answer of DMHistory that accounts for its absence.                        *)
THEOREM WebNothingHidden == WebSpec => []NothingHidden
<1>1. WebInv => NothingHidden
  BY DEF WebInv
<1> QED BY <1>1, WebInvHolds, PTL

(* No message is shown more often than it was brought by the sockets and by  *)
(* the answer that replaced the thread last.                                 *)
THEOREM WebCopiesAreBrought == WebSpec => []CopiesAreBrought
<1>1. WebInv => CopiesAreBrought
  BY DEF WebInv
<1> QED BY <1>1, WebInvHolds, PTL

(* What is typed on a page goes out under the user it shows, whatever logins *)
(* and answers of hydrate came before.                                       *)
THEOREM WebSpeaksAsSelf == WebSpec => []SpeaksAsSelf
<1>1. WebInv => SpeaksAsSelf
  BY DEF WebInv
<1> QED BY <1>1, WebInvHolds, PTL

=============================================================================
