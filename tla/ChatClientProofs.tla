-------------------------- MODULE ChatClientProofs --------------------------
(***************************************************************************)
(* Theorems about one TCP session, for any number of other clients sending *)
(* to it, any size of its buffer and any number of lines and messages.     *)
(***************************************************************************)
EXTENDS ChatClient, SequenceTheorems, TLAPS

(* What is left of a command or a Send, of a call of shutdown once this     *)
(* goroutine is the one that runs it, and of a Send or a log followed by a  *)
(* shutdown.                                                                *)
InSend     == {<<>>, <<"put">>, <<"check", "put">>, <<"lock">>, <<"lock", "check", "put">>}
InShutdown == {<<"closeDone", "closeSend", "closeConn", "remove">>,
               <<"closeSend", "closeConn", "remove">>,
               <<"closeConn", "remove">>,
               <<"remove">>}
Farewells  == {<<"put", "once", "closeDone", "closeSend", "closeConn", "remove">>,
               <<"check", "put", "once", "closeDone", "closeSend", "closeConn", "remove">>,
               <<"lock", "once", "closeDone", "closeSend", "closeConn", "remove">>}
Plans      == InSend \cup InShutdown \cup {Shutdown} \cup Farewells

(* Every goroutine runs Send, shutdown or one after the other; other        *)
(* clients' goroutines only Send. The reader that has left its loop has its *)
(* shutdown before it or has come back from it.                             *)
PlanOK ==
    /\ \A p \in Procs : todo[p] \in Plans
    /\ \A o \in Others : todo[o] \in InSend
    /\ "reader" \notin running =>
          \/ todo["reader"] \in InShutdown \cup {Shutdown, LogShutdown}
          \/ todo["reader"] = <<>> /\ once = "done"

(* How far the goroutine p is in shutdown is how far the session is closed. *)
ClosedSoFar(p) ==
    /\ done       <=> Head(todo[p]) \in {"closeSend", "closeConn", "remove"}
    /\ sendClosed <=> Head(todo[p]) \in {"closeConn", "remove"}
    /\ conn = (IF Head(todo[p]) = "remove" THEN "closed" ELSE "open")

(* One goroutine at most is inside once.Do, and only while it is running.   *)
OnceOK ==
    /\ \A p, q \in Procs : todo[p] \in InShutdown /\ todo[q] \in InShutdown => p = q
    /\ \A p \in Procs : todo[p] \in InShutdown => once = "running" /\ ClosedSoFar(p)
    /\ once = "free" => ~done /\ ~sendClosed /\ conn = "open"
    /\ once # "done" => removed = 0
    /\ once = "done" => done /\ sendClosed /\ conn = "closed" /\ removed = 1
    /\ panicked # "close"

SessionInv == TypeOK /\ PlanOK /\ OnceOK

-----------------------------------------------------------------------------
(* Sequences: what a plan leaves after its first step. *)

LEMMA ConcatTwoFive ==
    ASSUME NEW a, NEW b, NEW c, NEW d, NEW e, NEW f, NEW g
    PROVE  <<a, b>> \o <<c, d, e, f, g>> = <<a, b, c, d, e, f, g>>
<1> DEFINE S == {a, b, c, d, e, f, g}
           s == <<a, b>>
           t == <<c, d, e, f, g>>
           u == <<a, b, c, d, e, f, g>>
<1>1. s \in Seq(S) /\ t \in Seq(S) /\ u \in Seq(S)
  OBVIOUS
<1>2. Len(s) = 2 /\ Len(t) = 5 /\ Len(u) = 7
  OBVIOUS
<1>3. /\ u[1] = s[1] /\ u[2] = s[2] /\ u[3] = t[1] /\ u[4] = t[2]
      /\ u[5] = t[3] /\ u[6] = t[4] /\ u[7] = t[5]
  OBVIOUS
<1> HIDE DEF s, t, u, S
<1>4. /\ s \o t \in Seq(S) /\ Len(s \o t) = Len(s) + Len(t)
      /\ \A i \in 1 .. Len(s) + Len(t) :
            (s \o t)[i] = IF i <= Len(s) THEN s[i] ELSE t[i - Len(s)]
  BY <1>1, ConcatProperties, Zenon
<1> DEFINE v == s \o t
<1>5. v \in Seq(S) /\ Len(v) = Len(u) /\ \A i \in 1 .. Len(v) : v[i] = u[i]
  BY <1>2, <1>3, <1>4
<1> HIDE DEF v
<1>6. v = u
  BY <1>1, <1>5, SeqEqual, Zenon
<1> QED BY <1>6 DEF v, s, t, u

LEMMA ConcatOne ==
    ASSUME NEW S, NEW a \in S, NEW t \in Seq(S), NEW u \in Seq(S),
           Len(u) = Len(t) + 1, u[1] = a, \A i \in 1 .. Len(t) : u[i + 1] = t[i]
    PROVE  <<a>> \o t = u
<1> DEFINE s == <<a>>
           v == s \o t
<1>1. s \in Seq(S) /\ Len(s) = 1 /\ s[1] = a /\ Len(t) \in Nat
  OBVIOUS
<1> HIDE DEF s
<1>2. /\ v \in Seq(S) /\ Len(v) = Len(s) + Len(t)
      /\ \A i \in 1 .. Len(s) + Len(t) : v[i] = IF i <= Len(s) THEN s[i] ELSE t[i - Len(s)]
  BY <1>1, ConcatProperties, Zenon
<1> HIDE DEF v
<1>3. ASSUME NEW i \in 1 .. Len(v) PROVE v[i] = u[i]
  <2>1. CASE i = 1
    BY <1>1, <1>2, <2>1
  <2>2. CASE i # 1
    <3>1. i - 1 \in 1 .. Len(t) /\ (i - 1) + 1 = i
      BY <1>1, <1>2, <2>2
    <3>2. v[i] = t[i - 1]
      BY <1>1, <1>2, <2>2
    <3> QED BY <3>1, <3>2
  <2> QED BY <2>1, <2>2
<1>4. Len(v) = Len(u)
  BY <1>1, <1>2
<1>5. v = u
  BY <1>2, <1>3, <1>4, SeqEqual, Zenon
<1> QED BY <1>5 DEF v, s

(* What goes through a lock first, written out. *)
LEMMA Locked ==
    /\ <<"lock">> \o <<>> = <<"lock">>
    /\ Command = <<"lock", "check", "put">>
    /\ LogShutdown = <<"lock", "once", "closeDone", "closeSend", "closeConn", "remove">>
<1>1. "lock" \in Steps /\ "put" \in Steps /\ "check" \in Steps
  BY DEF Steps
<1>2. <<"lock">> \o <<>> = <<"lock">>
  <2> DEFINE t == <<>>
             u == <<"lock">>
  <2>1. t \in Seq(Steps) /\ u \in Seq(Steps) /\ Len(u) = Len(t) + 1 /\ u[1] = "lock"
        /\ \A i \in 1 .. Len(t) : u[i + 1] = t[i]
    BY <1>1
  <2> HIDE DEF t, u
  <2>2. <<"lock">> \o t = u
    BY <1>1, <2>1, ConcatOne
  <2> QED BY <2>2 DEF t, u
<1>3. Command = <<"lock", "check", "put">>
  <2> DEFINE t == <<"check", "put">>
             u == <<"lock", "check", "put">>
  <2>1. t \in Seq(Steps) /\ u \in Seq(Steps) /\ Len(t) = 2 /\ Len(u) = 3
    BY <1>1
  <2>2. u[1] = "lock" /\ u[1 + 1] = t[1] /\ u[2 + 1] = t[2]
    OBVIOUS
  <2> HIDE DEF t, u
  <2>3. Len(u) = Len(t) + 1 /\ \A i \in 1 .. Len(t) : u[i + 1] = t[i]
    BY <2>1, <2>2
  <2>4. <<"lock">> \o t = u
    BY <1>1, <2>1, <2>2, <2>3, ConcatOne, Zenon
  <2>5. Command = <<"lock">> \o t
    BY Zenon DEF t, Command, Send
  <2>6. Command = u
    BY <2>4, <2>5, Zenon
  <2> QED BY <2>6, Zenon DEF u
<1>4. LogShutdown = <<"lock", "once", "closeDone", "closeSend", "closeConn", "remove">>
  <2> DEFINE u == <<"lock", "once", "closeDone", "closeSend", "closeConn", "remove">>
  <2>1. Shutdown \in Seq(Steps) /\ u \in Seq(Steps) /\ Len(Shutdown) = 5 /\ Len(u) = 6
    BY DEF Shutdown, Steps
  <2>2. /\ u[1] = "lock" /\ u[1 + 1] = Shutdown[1] /\ u[2 + 1] = Shutdown[2]
        /\ u[3 + 1] = Shutdown[3] /\ u[4 + 1] = Shutdown[4] /\ u[5 + 1] = Shutdown[5]
    BY DEF Shutdown
  <2> HIDE DEF u
  <2>3. Len(u) = Len(Shutdown) + 1 /\ \A i \in 1 .. Len(Shutdown) : u[i + 1] = Shutdown[i]
    BY <2>1, <2>2
  <2>4. <<"lock">> \o Shutdown = u
    BY <1>1, <2>1, <2>2, <2>3, ConcatOne, Zenon
  <2>5. LogShutdown = u
    BY <2>4, Zenon DEF LogShutdown
  <2> QED BY <2>5, Zenon DEF u
<1> QED BY <1>2, <1>3, <1>4

LEMMA Calls ==
    /\ Send \in InSend /\ Command \in InSend
    /\ Send \o Shutdown \in Farewells /\ LogShutdown \in Farewells
    /\ Shutdown \notin InShutdown \cup InSend
    /\ InSend \cap InShutdown = {} /\ Farewells \cap InShutdown = {}
<1>1. Send \o Shutdown \in Farewells
  BY ConcatTwoFive DEF Send, Shutdown, Farewells
<1>2. Shutdown \notin InShutdown \cup InSend
  BY DEF Shutdown, InSend, InShutdown
<1>3. InSend \cap InShutdown = {} /\ Farewells \cap InShutdown = {}
  BY DEF InSend, InShutdown, Farewells
<1>4. Command \in InSend /\ LogShutdown \in Farewells
  BY Locked DEF InSend, Farewells
<1> QED BY <1>1, <1>2, <1>3, <1>4 DEF Send, InSend

LEMMA Tails ==
    /\ Tail(Shutdown) = <<"closeDone", "closeSend", "closeConn", "remove">>
    /\ Tail(<<"closeDone", "closeSend", "closeConn", "remove">>)
          = <<"closeSend", "closeConn", "remove">>
    /\ Tail(<<"closeSend", "closeConn", "remove">>) = <<"closeConn", "remove">>
    /\ Tail(<<"closeConn", "remove">>) = <<"remove">>
    /\ Tail(<<"remove">>) = <<>>
BY DEF Shutdown

LEMMA SendSteps ==
    ASSUME NEW s \in InSend, s # <<>>
    PROVE  /\ Head(s) \in {"check", "put", "lock"}
           /\ Head(s) = "check" => Tail(s) = <<"put">> /\ Tail(Tail(s)) = <<>>
           /\ Head(s) = "put" => Tail(s) = <<>>
           /\ Head(s) = "lock" => Tail(s) \in {<<>>, Send}
<1>1. CASE s = <<"put">>
  <2>1. Head(s) = "put" /\ Tail(s) = <<>>
    BY <1>1
  <2> QED BY <2>1
<1>2. CASE s = <<"check", "put">>
  <2>1. Head(s) = "check" /\ Tail(s) = <<"put">>
    BY <1>2
  <2>2. Tail(<<"put">>) = <<>>
    OBVIOUS
  <2> QED BY <2>1, <2>2
<1>3. CASE s = <<"lock">>
  <2>1. Head(s) = "lock" /\ Tail(s) = <<>>
    BY <1>3
  <2> QED BY <2>1
<1>4. CASE s = <<"lock", "check", "put">>
  <2>1. Head(s) = "lock" /\ Tail(s) = <<"check", "put">>
    BY <1>4
  <2> QED BY <2>1 DEF Send
<1> QED BY <1>1, <1>2, <1>3, <1>4 DEF InSend

LEMMA FarewellSteps ==
    ASSUME NEW s \in Farewells
    PROVE  /\ Head(s) \in {"check", "put", "lock"}
           /\ Head(s) = "check" => Tail(s) \in Farewells /\ Tail(Tail(s)) = Shutdown
           /\ Head(s) = "put" => Tail(s) = Shutdown
           /\ Head(s) = "lock" => Tail(s) = Shutdown
           /\ s = LogShutdown => Head(s) = "lock"
<1> DEFINE t == <<"put", "once", "closeDone", "closeSend", "closeConn", "remove">>
           l == <<"lock", "once", "closeDone", "closeSend", "closeConn", "remove">>
<1>1. Head(t) = "put" /\ Tail(t) = Shutdown /\ t \in Farewells
  BY DEF Shutdown, Farewells
<1>4. Head(l) = "lock" /\ Tail(l) = Shutdown /\ LogShutdown = l
  BY Locked DEF Shutdown
<1>2. CASE s = <<"check", "put", "once", "closeDone", "closeSend", "closeConn", "remove">>
  <2>1. Head(s) = "check" /\ Tail(s) = t
    BY <1>2
  <2> HIDE DEF t, l
  <2> QED BY <1>1, <1>4, <2>1
<1>3. CASE s = t
  <2> HIDE DEF t, l
  <2> QED BY <1>1, <1>3, <1>4
<1>5. CASE s = l
  <2> HIDE DEF t, l
  <2> QED BY <1>4, <1>5
<1> QED BY <1>2, <1>3, <1>5 DEF Farewells

LEMMA ShutdownSteps ==
    ASSUME NEW s \in InShutdown
    PROVE  /\ Head(s) \in {"closeDone", "closeSend", "closeConn", "remove"}
           /\ Head(s) = "closeDone" => s = <<"closeDone", "closeSend", "closeConn", "remove">>
           /\ Head(s) = "closeSend" => s = <<"closeSend", "closeConn", "remove">>
           /\ Head(s) = "closeConn" => s = <<"closeConn", "remove">>
           /\ Head(s) = "remove" => s = <<"remove">>
BY DEF InShutdown

LEMMA PlanTypes == Plans \subseteq Seq(Steps)
BY DEF Plans, InSend, InShutdown, Farewells, Shutdown, Steps

(* What a Send leaves to do when the buffer is full. *)
LEMMA FullSteps ==
    /\ <<"lock">> \o <<>> \in InSend
    /\ <<"lock">> \o Shutdown = LogShutdown
BY Locked DEF InSend, LogShutdown

(* The first step of a plan tells which plan it is, up to what follows. *)
LEMMA PlanSteps ==
    ASSUME NEW s \in Plans, s # <<>>
    PROVE  /\ Head(s) = "check" =>
                 /\ s \in InSend \cup Farewells
                 /\ Tail(s) \in InSend \cup Farewells
                 /\ Tail(Tail(s)) \in {<<>>, Shutdown}
           /\ Head(s) = "put" => /\ s \in InSend \cup Farewells
                                 /\ Tail(s) \in {<<>>, Shutdown}
           /\ Head(s) = "lock" => /\ s \in InSend \cup Farewells
                                  /\ Tail(s) \in {<<>>, Send, Shutdown}
           /\ Head(s) = "once" => s = Shutdown
           /\ Head(s) \in {"closeDone", "closeSend", "closeConn", "remove"} => s \in InShutdown
<1>1. CASE s \in InSend
  BY <1>1, SendSteps DEF InSend
<1>2. CASE s \in Farewells
  BY <1>2, FarewellSteps
<1>3. CASE s = Shutdown
  <2>1. Head(s) = "once"
    BY <1>3 DEF Shutdown
  <2> QED BY <1>3, <2>1
<1>4. CASE s \in InShutdown
  BY <1>4, ShutdownSteps
<1> QED BY <1>1, <1>2, <1>3, <1>4 DEF Plans

-----------------------------------------------------------------------------
LEMMA SessionInit == Init => SessionInv
<1> SUFFICES ASSUME Init PROVE SessionInv
  OBVIOUS
<1>1. \A p \in Procs : todo[p] \in InSend
  BY Calls DEF Init, Procs, InSend
<1>2. TypeOK
  <2>1. todo \in [Procs -> Seq(Steps)]
    <3>1. \A p \in Procs : todo[p] \in Seq(Steps)
      BY <1>1, PlanTypes DEF Plans
    <3>2. todo = [p \in Procs |-> todo[p]]
      BY DEF Init
    <3> QED BY <3>1, <3>2
  <2>2. <<>> \in Seq(Procs) /\ Len(<<>>) = 0
    OBVIOUS
  <2>3. 0 \in 0 .. SendCap /\ 0 \in 0 .. MaxLines /\ 0 \in 0 .. MaxSends
    BY ClientAssumption
  <2> QED
    BY <2>1, <2>2, <2>3 DEF Init, TypeOK
<1>3. PlanOK
  BY <1>1 DEF Init, PlanOK, Plans, Loops, Procs
<1>4. OnceOK
  BY <1>1, Calls DEF Init, OnceOK
<1> QED BY <1>2, <1>3, <1>4 DEF SessionInv

(* A step of one goroutine's call: which plans it may leave behind. *)
LEMMA PlanStep ==
    ASSUME SessionInv, NEW p \in Procs, NEW s \in Plans, todo[p] # <<>>,
           todo' = [todo EXCEPT ![p] = s], UNCHANGED running,
           p \in Others => s \in InSend,
           s = <<>> /\ todo[p] \notin InSend => once' = "done",
           once = "done" => once' = "done",
           todo[p] \in InShutdown \cup {Shutdown} => s \in InShutdown \cup {<<>>},
           todo[p] = LogShutdown => s = Shutdown
    PROVE  PlanOK'
<1>1. /\ todo \in [Procs -> Seq(Steps)] /\ \A q \in Procs : todo'[q] = IF q = p THEN s ELSE todo[q]
      /\ "reader" \in Procs /\ Others \subseteq Procs
  BY DEF SessionInv, TypeOK, Procs, Loops
<1>2. \A q \in Procs : todo'[q] \in Plans
  BY <1>1 DEF SessionInv, PlanOK
<1>3. \A o \in Others : todo'[o] \in InSend
  BY <1>1 DEF SessionInv, PlanOK
<1>4. ASSUME "reader" \notin running'
      PROVE  \/ todo'["reader"] \in InShutdown \cup {Shutdown, LogShutdown}
             \/ todo'["reader"] = <<>> /\ once' = "done"
  <2>1. \/ todo["reader"] \in InShutdown \cup {Shutdown, LogShutdown}
        \/ todo["reader"] = <<>> /\ once = "done"
    BY <1>4 DEF SessionInv, PlanOK
  <2>2. CASE p # "reader"
    BY <1>1, <2>1, <2>2
  <2>3. CASE p = "reader" /\ todo["reader"] \in InShutdown \cup {Shutdown}
    BY <1>1, <2>3, Calls
  <2>4. CASE p = "reader" /\ todo["reader"] = <<>>
    BY <1>1, <2>1, <2>4
  <2>5. CASE p = "reader" /\ todo["reader"] = LogShutdown
    BY <1>1, <2>5
  <2> QED BY <2>1, <2>2, <2>3, <2>4, <2>5
<1> QED BY <1>2, <1>3, <1>4 DEF PlanOK

(* Which plans are no shutdown yet. *)
LEMMA Beginnings ==
    ASSUME NEW s \in InSend \cup Farewells
    PROVE  s \notin InShutdown \cup {Shutdown}
BY Calls DEF Farewells, Shutdown

(* A step of a goroutine that is not inside once.Do, nor enters it. *)
LEMMA OnceQuiet ==
    ASSUME SessionInv, NEW p \in Procs, NEW s,
           todo' = [todo EXCEPT ![p] = s], s \notin InShutdown, todo[p] \notin InShutdown,
           UNCHANGED <<done, sendClosed, conn, once, removed>>, panicked' # "close"
    PROVE  OnceOK'
<1>1. \A q \in Procs : todo'[q] \in InShutdown =>
         todo[q] \in InShutdown /\ todo'[q] = todo[q]
  BY DEF SessionInv, TypeOK
<1> QED BY <1>1 DEF SessionInv, OnceOK, ClosedSoFar

(* A step of the goroutine inside once.Do that has not reached its end. *)
LEMMA OnceWithin ==
    ASSUME SessionInv, NEW p \in Procs, NEW s \in InShutdown,
           todo[p] \in InShutdown \/ once = "free",
           todo' = [todo EXCEPT ![p] = s], once' = "running", ClosedSoFar(p)',
           UNCHANGED removed, panicked' # "close"
    PROVE  OnceOK'
<1>1. \A q \in Procs : todo'[q] = IF q = p THEN s ELSE todo[q]
  BY DEF SessionInv, TypeOK
<1>2. \A q \in Procs \ {p} : todo[q] \notin InShutdown
  BY DEF SessionInv, OnceOK
<1>3. removed = 0
  BY DEF SessionInv, OnceOK
<1> QED BY <1>1, <1>2, <1>3 DEF OnceOK

LEMMA TypeCall ==
    ASSUME TypeOK, NEW p \in Procs, NEW s \in Plans, todo' = [todo EXCEPT ![p] = s]
    PROVE  todo' \in [Procs -> Seq(Steps)]
BY PlanTypes DEF TypeOK

-----------------------------------------------------------------------------
LEMMA SessionCheckDone ==
    ASSUME SessionInv, NEW p \in Procs, CheckDone(p) PROVE SessionInv'
<1> DEFINE s == IF done THEN Tail(Tail(todo[p])) ELSE Tail(todo[p])
<1>1. /\ todo[p] # <<>> /\ Head(todo[p]) = "check" /\ todo[p] \in Plans
      /\ todo' = [todo EXCEPT ![p] = s]
      /\ UNCHANGED <<running, queue, sendClosed, done, conn, once, inflight, timer, reset,
                     removed, panicked, lines, sends>>
  BY DEF CheckDone, At, SessionInv, PlanOK
<1>2. /\ todo[p] \in InSend \cup Farewells
      /\ s \in InSend \cup Farewells \cup {Shutdown}
      /\ todo[p] \in InSend => s \in InSend
      /\ todo[p] \in Farewells => s \in Farewells \cup {Shutdown}
  BY <1>1, PlanSteps, SendSteps, FarewellSteps DEF InSend
<1> HIDE DEF s
<1>3. <<>> \notin Farewells /\ Shutdown # <<>> /\ Shutdown \notin Farewells
  BY DEF Farewells, Shutdown
<1>4. PlanOK'
  <2>1. s \in Plans
    BY <1>2 DEF Plans
  <2>2. p \in Others => s \in InSend
    BY <1>2 DEF SessionInv, PlanOK
  <2>3. todo[p] \notin InShutdown \cup {Shutdown}
    BY <1>2, Beginnings
  <2>4. todo[p] # LogShutdown
    BY <1>1, FarewellSteps, Calls
  <2>5. s = <<>> => todo[p] \in InSend
    BY <1>2, <1>3
  <2> QED BY <1>1, <2>1, <2>2, <2>3, <2>4, <2>5, PlanStep
<1>5. OnceOK'
  BY <1>1, <1>2, Calls, OnceQuiet DEF SessionInv, OnceOK
<1>6. TypeOK'
  BY <1>1, <1>2, TypeCall DEF Plans, SessionInv, TypeOK
<1> QED BY <1>4, <1>5, <1>6 DEF SessionInv

LEMMA SessionPut ==
    ASSUME SessionInv, NEW p \in Procs, Put(p) PROVE SessionInv'
<1> DEFINE s == IF ~sendClosed /\ Len(queue) = SendCap
                THEN <<"lock">> \o Tail(todo[p]) ELSE Tail(todo[p])
<1>1. /\ todo[p] # <<>> /\ Head(todo[p]) = "put" /\ todo[p] \in Plans
      /\ todo' = [todo EXCEPT ![p] = s]
      /\ UNCHANGED <<running, sendClosed, done, conn, once, inflight, timer, reset, removed,
                     lines, sends>>
      /\ panicked' \in {panicked, "send"}
  BY DEF Put, At, Step, Call, SessionInv, PlanOK
<1>2. /\ todo[p] \in InSend \cup Farewells
      /\ s \in InSend \cup {Shutdown, LogShutdown}
      /\ todo[p] \in InSend => s \in InSend
      /\ todo[p] \in Farewells => s \in {Shutdown, LogShutdown}
  <2>1. todo[p] \in InSend \cup Farewells /\ <<>> \in InSend
    BY <1>1, PlanSteps DEF InSend
  <2>2. todo[p] \in InSend => Tail(todo[p]) = <<>>
    BY <1>1, SendSteps
  <2>3. todo[p] \in Farewells => Tail(todo[p]) = Shutdown
    BY <1>1, FarewellSteps
  <2> QED BY <2>1, <2>2, <2>3, FullSteps
<1> HIDE DEF s
<1>3. Shutdown # <<>> /\ LogShutdown # <<>>
  BY Locked DEF Shutdown
<1>4. s \in Plans /\ s \notin InShutdown
  BY <1>2, Calls DEF Plans
<1>5. PlanOK'
  <2>1. p \in Others => s \in InSend
    BY <1>2 DEF SessionInv, PlanOK
  <2>2. todo[p] \notin InShutdown \cup {Shutdown}
    BY <1>2, Beginnings
  <2>3. todo[p] # LogShutdown
    BY <1>1, FarewellSteps, Calls
  <2>4. s = <<>> => todo[p] \in InSend
    BY <1>2, <1>3
  <2> QED BY <1>1, <1>4, <2>1, <2>2, <2>3, <2>4, PlanStep
<1>6. OnceOK'
  BY <1>1, <1>2, <1>4, Calls, OnceQuiet DEF SessionInv, OnceOK
<1>7. queue' \in Seq(Procs) /\ Len(queue') \in 0 .. SendCap
  <2>1. \/ queue' = queue
        \/ Len(queue) # SendCap /\ queue' = Append(queue, p)
    BY DEF Put
  <2>2. queue \in Seq(Procs) /\ Len(queue) \in 0 .. SendCap /\ SendCap \in Nat
    BY ClientAssumption DEF SessionInv, TypeOK
  <2>3. Append(queue, p) \in Seq(Procs) /\ Len(Append(queue, p)) = Len(queue) + 1
    BY <2>2
  <2> QED BY <2>1, <2>2, <2>3
<1>8. TypeOK'
  BY <1>1, <1>4, <1>7, TypeCall DEF SessionInv, TypeOK
<1> QED BY <1>5, <1>6, <1>8 DEF SessionInv

LEMMA SessionTakeLock ==
    ASSUME SessionInv, NEW p \in Procs, TakeLock(p) PROVE SessionInv'
<1> DEFINE s == Tail(todo[p])
<1>1. /\ todo[p] # <<>> /\ Head(todo[p]) = "lock" /\ todo[p] \in Plans
      /\ todo' = [todo EXCEPT ![p] = s]
      /\ UNCHANGED <<running, queue, sendClosed, done, conn, once, inflight, timer, reset,
                     removed, panicked, lines, sends>>
  BY DEF TakeLock, At, Step, SessionInv, PlanOK
<1>2. /\ todo[p] \in InSend \cup Farewells
      /\ todo[p] \in InSend => s \in InSend
      /\ todo[p] \in Farewells => s = Shutdown
  <2>1. todo[p] \in InSend => s \in {<<>>, Send}
    BY <1>1, SendSteps
  <2>2. todo[p] \in Farewells => s = Shutdown
    BY <1>1, FarewellSteps
  <2>3. <<>> \in InSend
    BY DEF InSend
  <2> QED BY <1>1, <2>1, <2>2, <2>3, PlanSteps, Calls
<1> HIDE DEF s
<1>3. s \in Plans /\ s \notin InShutdown
  BY <1>2, Calls DEF Plans
<1>4. PlanOK'
  <2>1. p \in Others => s \in InSend
    BY <1>2 DEF SessionInv, PlanOK
  <2>2. todo[p] \notin InShutdown \cup {Shutdown}
    BY <1>2, Beginnings
  <2>3. todo[p] = LogShutdown => s = Shutdown
    BY <1>2, Calls
  <2>4. s = <<>> => todo[p] \in InSend
    BY <1>2 DEF Shutdown
  <2> QED BY <1>1, <1>3, <2>1, <2>2, <2>3, <2>4, PlanStep
<1>5. OnceOK'
  <2>1. todo[p] \notin InShutdown
    BY <1>2, Calls
  <2> QED BY <1>1, <1>3, <2>1, OnceQuiet DEF SessionInv, OnceOK
<1>6. TypeOK'
  BY <1>1, <1>3, TypeCall DEF SessionInv, TypeOK
<1> QED BY <1>4, <1>5, <1>6 DEF SessionInv

LEMMA SessionEnterOnce ==
    ASSUME SessionInv, NEW p \in Procs, EnterOnce(p) PROVE SessionInv'
<1>1. /\ todo[p] = Shutdown
      /\ UNCHANGED <<running, queue, sendClosed, done, conn, inflight, timer, reset, removed,
                     panicked, lines, sends>>
  BY PlanSteps DEF EnterOnce, At, SessionInv, PlanOK
<1>2. p \notin Others /\ Shutdown # <<>> /\ Shutdown # LogShutdown
  BY <1>1, Calls, Beginnings DEF SessionInv, PlanOK, Shutdown
<1>3. CASE once = "free"
  <2> DEFINE s == <<"closeDone", "closeSend", "closeConn", "remove">>
  <2>1. todo' = [todo EXCEPT ![p] = s] /\ once' = "running"
    BY <1>1, <1>3, Tails DEF EnterOnce, Step
  <2>2. s \in InShutdown /\ s \in Plans /\ Head(s) = "closeDone" /\ s # <<>>
    BY DEF InShutdown, Plans
  <2> HIDE DEF s
  <2>3. PlanOK'
    BY <1>1, <1>2, <1>3, <2>1, <2>2, PlanStep
  <2>4. todo'[p] = s
    BY <2>1 DEF SessionInv, TypeOK
  <2>5. ClosedSoFar(p)'
    BY <1>1, <1>3, <2>2, <2>4 DEF SessionInv, OnceOK, ClosedSoFar
  <2>6. panicked' # "close"
    BY <1>1 DEF SessionInv, OnceOK
  <2>7. OnceOK'
    BY <1>1, <1>3, <2>1, <2>2, <2>5, <2>6, OnceWithin
  <2>8. TypeOK'
    BY <1>1, <2>1, <2>2, TypeCall DEF SessionInv, TypeOK
  <2> QED BY <2>3, <2>7, <2>8 DEF SessionInv
<1>4. CASE once = "done"
  <2>1. todo' = [todo EXCEPT ![p] = <<>>] /\ once' = "done" /\ UNCHANGED once
    BY <1>1, <1>4 DEF EnterOnce, Call
  <2>2. <<>> \in Plans /\ <<>> \notin InShutdown
    BY Calls DEF Plans, InSend
  <2>3. PlanOK'
    BY <1>1, <1>2, <2>1, <2>2, PlanStep
  <2>4. OnceOK'
    BY <1>1, <2>1, <2>2, Calls, OnceQuiet DEF SessionInv, OnceOK
  <2>5. TypeOK'
    BY <1>1, <2>1, <2>2, TypeCall DEF SessionInv, TypeOK
  <2> QED BY <2>3, <2>4, <2>5 DEF SessionInv
<1> QED BY <1>3, <1>4 DEF EnterOnce

(* The three closes of shutdown, each at its own point. *)
LEMMA SessionClose ==
    ASSUME SessionInv, NEW p \in Procs, CloseDone(p) \/ CloseSend(p) \/ CloseConn(p)
    PROVE  SessionInv'
<1> DEFINE s == Tail(todo[p])
<1>1. /\ todo[p] \in InShutdown /\ todo' = [todo EXCEPT ![p] = s] /\ todo[p] # <<>>
      /\ UNCHANGED <<running, queue, once, inflight, timer, reset, removed, lines, sends>>
  BY PlanSteps DEF CloseDone, CloseSend, CloseConn, At, Step, SessionInv, PlanOK
<1>2. once = "running" /\ ClosedSoFar(p) /\ panicked # "close"
  BY <1>1 DEF SessionInv, OnceOK
<1>3. p \notin Others /\ todo[p] # LogShutdown
  BY <1>1, Calls DEF SessionInv, PlanOK
<1>4. todo'[p] = s
  BY <1>1 DEF SessionInv, TypeOK
<1>5. /\ s \in InShutdown /\ s # <<>>
      /\ ClosedSoFar(p)' /\ panicked' # "close"
      /\ done' \in BOOLEAN /\ sendClosed' \in BOOLEAN /\ conn' \in {"open", "closed"}
      /\ panicked' \in {"no", "send", "close"}
  <2>1. CASE CloseDone(p)
    <3>1. /\ todo[p] = <<"closeDone", "closeSend", "closeConn", "remove">>
          /\ Head(todo[p]) = "closeDone"
      BY <1>1, <2>1, ShutdownSteps DEF CloseDone, At
    <3>2. s = <<"closeSend", "closeConn", "remove">> /\ Head(s) = "closeSend"
      BY <3>1, Tails
    <3>3. ~done /\ ~sendClosed /\ conn = "open"
      BY <1>2, <3>1 DEF ClosedSoFar
    <3>4. done' = TRUE /\ sendClosed' = sendClosed /\ conn' = conn /\ panicked' = panicked
      BY <2>1, <3>3 DEF CloseDone
    <3>5. s \in InShutdown /\ s # <<>>
      BY <3>2 DEF InShutdown
    <3> HIDE DEF s
    <3>6. ClosedSoFar(p)'
      BY <1>4, <3>2, <3>3, <3>4 DEF ClosedSoFar
    <3> QED BY <1>2, <3>3, <3>4, <3>5, <3>6 DEF SessionInv, TypeOK
  <2>2. CASE CloseSend(p)
    <3>1. /\ todo[p] = <<"closeSend", "closeConn", "remove">>
          /\ Head(todo[p]) = "closeSend"
      BY <1>1, <2>2, ShutdownSteps DEF CloseSend, At
    <3>2. s = <<"closeConn", "remove">> /\ Head(s) = "closeConn"
      BY <3>1, Tails
    <3>3. done /\ ~sendClosed /\ conn = "open"
      BY <1>2, <3>1 DEF ClosedSoFar
    <3>4. sendClosed' = TRUE /\ done' = done /\ conn' = conn /\ panicked' = panicked
      BY <2>2, <3>3 DEF CloseSend
    <3>5. s \in InShutdown /\ s # <<>>
      BY <3>2 DEF InShutdown
    <3> HIDE DEF s
    <3>6. ClosedSoFar(p)'
      BY <1>4, <3>2, <3>3, <3>4 DEF ClosedSoFar
    <3> QED BY <1>2, <3>3, <3>4, <3>5, <3>6 DEF SessionInv, TypeOK
  <2>3. CASE CloseConn(p)
    <3>1. todo[p] = <<"closeConn", "remove">> /\ Head(todo[p]) = "closeConn"
      BY <1>1, <2>3, ShutdownSteps DEF CloseConn, At
    <3>2. s = <<"remove">> /\ Head(s) = "remove"
      BY <3>1, Tails
    <3>3. done /\ sendClosed
      BY <1>2, <3>1 DEF ClosedSoFar
    <3>4. conn' = "closed" /\ done' = done /\ sendClosed' = sendClosed /\ panicked' = panicked
      BY <2>3 DEF CloseConn
    <3>5. s \in InShutdown /\ s # <<>>
      BY <3>2 DEF InShutdown
    <3> HIDE DEF s
    <3>6. ClosedSoFar(p)'
      BY <1>4, <3>2, <3>3, <3>4 DEF ClosedSoFar
    <3> QED BY <1>2, <3>4, <3>5, <3>6 DEF SessionInv, TypeOK
  <2> QED BY <2>1, <2>2, <2>3
<1> HIDE DEF s
<1>6. s \in Plans
  BY <1>5 DEF Plans
<1>7. PlanOK'
  BY <1>1, <1>3, <1>5, <1>6, PlanStep
<1>8. OnceOK'
  BY <1>1, <1>2, <1>5, OnceWithin
<1>9. TypeOK'
  BY <1>1, <1>5, <1>6, TypeCall DEF SessionInv, TypeOK
<1> QED BY <1>7, <1>8, <1>9 DEF SessionInv

LEMMA SessionRemove ==
    ASSUME SessionInv, NEW p \in Procs, RemoveClient(p) PROVE SessionInv'
<1>1. /\ todo[p] \in InShutdown /\ todo[p] # <<>> /\ Head(todo[p]) = "remove"
      /\ UNCHANGED <<running, queue, sendClosed, done, conn, inflight, timer, reset, panicked,
                     lines, sends>>
      /\ once' = "done" /\ removed' = removed + 1
  BY PlanSteps DEF RemoveClient, At, SessionInv, PlanOK
<1>2. todo' = [todo EXCEPT ![p] = <<>>]
  <2>1. Tail(todo[p]) = <<>>
    BY <1>1, ShutdownSteps, Tails
  <2> QED BY <2>1 DEF RemoveClient, Step
<1>3. /\ once = "running" /\ removed = 0 /\ panicked # "close"
      /\ done /\ sendClosed /\ conn = "closed"
      /\ \A q \in Procs \ {p} : todo[q] \notin InShutdown
  BY <1>1 DEF SessionInv, OnceOK, ClosedSoFar
<1>4. <<>> \in Plans /\ <<>> \notin InShutdown /\ p \notin Others /\ todo[p] # LogShutdown
  BY <1>1, Calls DEF Plans, InSend, SessionInv, PlanOK
<1>5. PlanOK'
  BY <1>1, <1>2, <1>3, <1>4, PlanStep
<1>6. OnceOK'
  <2>1. \A q \in Procs : todo'[q] \notin InShutdown
    BY <1>2, <1>3, <1>4 DEF SessionInv, TypeOK
  <2> QED BY <1>1, <1>3, <2>1 DEF OnceOK
<1>7. TypeOK'
  BY <1>1, <1>2, <1>3, <1>4, TypeCall DEF SessionInv, TypeOK
<1> QED BY <1>5, <1>6, <1>7 DEF SessionInv

(* A goroutine in its own loop, or a sender of another client, makes a call;*)
(* leaving the loop is the reader's last act but for its shutdown.          *)
LEMMA SessionCall ==
    ASSUME SessionInv, NEW p \in Procs, NEW s \in Plans \ InShutdown, todo[p] = <<>>,
           todo' = [todo EXCEPT ![p] = s], running' \in {running, running \ {p}},
           p \in Others => s \in InSend,
           p = "reader" => IF running' = running THEN p \in running
                           ELSE s \in {Shutdown, LogShutdown},
           UNCHANGED <<done, sendClosed, conn, once, removed, panicked>>
    PROVE  PlanOK' /\ OnceOK' /\ todo' \in [Procs -> Seq(Steps)] /\ running' \in SUBSET Loops
<1>1. \A q \in Procs : todo'[q] = IF q = p THEN s ELSE todo[q]
  BY DEF SessionInv, TypeOK
<1>2. "reader" \in Procs /\ Others \subseteq Procs
  BY DEF Procs, Loops
<1>3. PlanOK'
  <2>1. \A q \in Procs : todo'[q] \in Plans
    BY <1>1 DEF SessionInv, PlanOK
  <2>2. \A o \in Others : todo'[o] \in InSend
    BY <1>1, <1>2 DEF SessionInv, PlanOK
  <2>3. ASSUME "reader" \notin running'
        PROVE  \/ todo'["reader"] \in InShutdown \cup {Shutdown, LogShutdown}
               \/ todo'["reader"] = <<>> /\ once' = "done"
    BY <1>1, <1>2, <2>3 DEF SessionInv, PlanOK
  <2> QED BY <2>1, <2>2, <2>3 DEF PlanOK
<1>4. OnceOK'
  <2>1. <<>> \notin InShutdown
    BY Calls DEF InSend
  <2> QED BY <2>1, OnceQuiet DEF SessionInv, OnceOK
<1>5. todo' \in [Procs -> Seq(Steps)]
  BY TypeCall DEF SessionInv
<1> QED BY <1>3, <1>4, <1>5 DEF SessionInv, TypeOK

LEMMA SessionCalls ==
    ASSUME SessionInv,
           \/ Line(Command) \/ Line(Send \o Shutdown) \/ IdleTimeout
           \/ \E s \in {Shutdown, LogShutdown} : EndOfInput(s) \/ WriteFails(s)
           \/ \E o \in Others : SendFrom(o)
    PROVE  SessionInv'
<1>1. /\ {"reader", "writer", "idle"} \subseteq Procs
      /\ "reader" \notin Others /\ "writer" \notin Others /\ "idle" \notin Others
      /\ \A o \in Others : o \in Procs
  BY ClientAssumption DEF Procs, Loops
<1>2. /\ Send \in Plans \ InShutdown /\ Command \in Plans \ InShutdown
      /\ Shutdown \in Plans \ InShutdown /\ LogShutdown \in Plans \ InShutdown
      /\ Send \o Shutdown \in Plans \ InShutdown
  BY Calls DEF Plans
<1>3. CASE Line(Command) \/ Line(Send \o Shutdown)
  <2>1. PICK s \in {Command, Send \o Shutdown} : Line(s)
    BY <1>3
  <2>2. PlanOK' /\ OnceOK' /\ todo' \in [Procs -> Seq(Steps)]
    BY <1>1, <1>2, <2>1, SessionCall DEF Line, Free, Call
  <2>3. lines' \in 0 .. MaxLines
    BY <2>1, ClientAssumption DEF Line, SessionInv, TypeOK
  <2>4. TypeOK'
    BY <2>1, <2>2, <2>3 DEF Line, SessionInv, TypeOK
  <2> QED BY <2>2, <2>4 DEF SessionInv
<1>4. ASSUME NEW s \in {Shutdown, LogShutdown}, EndOfInput(s) PROVE SessionInv'
  <2>1. PlanOK' /\ OnceOK' /\ todo' \in [Procs -> Seq(Steps)] /\ running' \in SUBSET Loops
    <3>1. running' = running \ {"reader"} /\ running' # running
      BY <1>4 DEF EndOfInput, Free
    <3> QED BY <1>1, <1>2, <1>4, <3>1, SessionCall DEF EndOfInput, Free, Call
  <2>2. TypeOK'
    BY <1>4, <2>1 DEF EndOfInput, SessionInv, TypeOK
  <2> QED BY <2>1, <2>2 DEF SessionInv
<1>5. ASSUME NEW s \in {Shutdown, LogShutdown}, WriteFails(s) PROVE SessionInv'
  <2>1. PlanOK' /\ OnceOK' /\ todo' \in [Procs -> Seq(Steps)] /\ running' \in SUBSET Loops
    BY <1>1, <1>2, <1>5, SessionCall DEF WriteFails, Free, Call
  <2>2. inflight' \in Seq(Procs)
    BY <1>5 DEF WriteFails
  <2>3. TypeOK'
    BY <1>5, <2>1, <2>2 DEF WriteFails, SessionInv, TypeOK
  <2> QED BY <2>1, <2>3 DEF SessionInv
<1>6. CASE IdleTimeout
  <2>1. PlanOK' /\ OnceOK' /\ todo' \in [Procs -> Seq(Steps)] /\ running' \in SUBSET Loops
    BY <1>1, <1>2, <1>6, SessionCall DEF IdleTimeout, Free, Call
  <2>2. TypeOK'
    BY <1>6, <2>1 DEF IdleTimeout, SessionInv, TypeOK
  <2> QED BY <2>1, <2>2 DEF SessionInv
<1>7. ASSUME NEW o \in Others, SendFrom(o) PROVE SessionInv'
  <2>1. PlanOK' /\ OnceOK' /\ todo' \in [Procs -> Seq(Steps)]
    BY <1>1, <1>2, <1>7, Calls, SessionCall DEF SendFrom, Call
  <2>2. sends' \in 0 .. MaxSends
    BY <1>7, ClientAssumption DEF SendFrom, SessionInv, TypeOK
  <2>3. TypeOK'
    BY <1>7, <2>1, <2>2 DEF SendFrom, SessionInv, TypeOK
  <2> QED BY <2>1, <2>3 DEF SessionInv
<1> QED BY <1>3, <1>4, <1>5, <1>6, <1>7

(* Writer, watcher and timer steps that call nothing. *)
LEMMA SessionQuiet ==
    ASSUME SessionInv,
           \/ WriterTake \/ WriterReturn \/ WriteOk \/ TimerFires \/ IdleReset \/ IdleReturn
    PROVE  SessionInv'
<1>1. /\ UNCHANGED <<todo, sendClosed, done, conn, once, removed, panicked, lines, sends>>
      /\ running' \in {running, running \ {"writer"}, running \ {"idle"}}
  BY DEF WriterTake, WriterReturn, WriteOk, TimerFires, IdleReset, IdleReturn
<1>2. PlanOK' /\ OnceOK'
  BY <1>1 DEF SessionInv, PlanOK, OnceOK, ClosedSoFar
<1>3. CASE WriterTake
  <2>1. /\ queue \in Seq(Procs) /\ queue # <<>> /\ Len(queue) \in 0 .. SendCap
        /\ SendCap \in Nat
    BY <1>3, ClientAssumption DEF WriterTake, SessionInv, TypeOK
  <2>2. Tail(queue) \in Seq(Procs) /\ Len(Tail(queue)) \in 0 .. SendCap
    BY <2>1
  <2>3. Head(queue) \in Procs
    BY <2>1
  <2>4. <<Head(queue)>> \in Seq(Procs)
    BY <2>3
  <2>5. TypeOK'
    BY <1>3, <2>2, <2>4 DEF WriterTake, SessionInv, TypeOK
  <2> QED BY <1>2, <2>5 DEF SessionInv
<1>4. CASE WriteOk
  <2>1. inflight' \in Seq(Procs)
    BY <1>4 DEF WriteOk
  <2>2. TypeOK'
    BY <1>4, <2>1 DEF WriteOk, SessionInv, TypeOK
  <2> QED BY <1>2, <2>2 DEF SessionInv
<1>5. CASE WriterReturn \/ TimerFires \/ IdleReset \/ IdleReturn
  <2>1. TypeOK'
    BY <1>1, <1>5
    DEF WriterReturn, TimerFires, IdleReset, IdleReturn, SessionInv, TypeOK
  <2> QED BY <1>2, <2>1 DEF SessionInv
<1> QED BY <1>3, <1>4, <1>5

LEMMA SessionStep == SessionInv /\ [Next]_vars => SessionInv'
<1> SUFFICES ASSUME SessionInv, [Next]_vars PROVE SessionInv'
  OBVIOUS
<1>1. CASE UNCHANGED vars
  BY <1>1 DEF vars, SessionInv, TypeOK, PlanOK, OnceOK, ClosedSoFar
<1>2. ASSUME NEW p \in Procs, Continue(p) PROVE SessionInv'
  BY <1>2, SessionCheckDone, SessionPut, SessionTakeLock, SessionEnterOnce, SessionClose,
     SessionRemove
  DEF Continue, GoOn
<1>3. CASE \/ Line(Command) \/ Line(Send \o Shutdown) \/ IdleTimeout
           \/ \E s \in {Shutdown, LogShutdown} : EndOfInput(s) \/ WriteFails(s)
           \/ \E o \in Others : SendFrom(o)
  BY <1>3, SessionCalls
<1>4. CASE \/ WriterTake \/ WriterReturn \/ WriteOk \/ TimerFires \/ IdleReset \/ IdleReturn
  BY <1>4, SessionQuiet
<1> QED BY <1>1, <1>2, <1>3, <1>4 DEF Next, Writer, Idle

LEMMA SessionCorrect == Spec => []SessionInv
BY SessionInit, SessionStep, PTL DEF Spec

-----------------------------------------------------------------------------
(* The session's channels, flags and plans keep their types; the buffer is  *)
(* never longer than its capacity.                                          *)
THEOREM ClientTypeOK == Spec => []TypeOK
<1>1. SessionInv => TypeOK
  BY DEF SessionInv
<1> QED BY <1>1, SessionCorrect, PTL

(* However many goroutines shut a session down at once, its channels are    *)
(* closed once, removeClient is called once, and all is closed when its     *)
(* goroutines have ended.                                                   *)
THEOREM ClientShutdownOnce == Spec => []ShutdownOnce
<1>1. SessionInv => ShutdownOnce
  <2> SUFFICES ASSUME SessionInv PROVE ShutdownOnce
    OBVIOUS
  <2>1. panicked # "close" /\ once \in {"free", "running", "done"}
    BY DEF SessionInv, OnceOK, TypeOK
  <2>2. removed <= 1
    BY DEF SessionInv, OnceOK, TypeOK
  <2>3. ASSUME running = {}, \A p \in Loops : todo[p] = <<>>
        PROVE  removed = 1 /\ conn = "closed" /\ done /\ sendClosed
    <3>1. "reader" \in Loops /\ <<>> \notin InShutdown \cup {Shutdown, LogShutdown}
      BY Calls, Locked DEF Loops, InSend, Shutdown
    <3>2. once = "done"
      BY <2>3, <3>1 DEF SessionInv, PlanOK
    <3> QED BY <3>2 DEF SessionInv, OnceOK
  <2> QED BY <2>1, <2>2, <2>3 DEF ShutdownOnce
<1> QED BY <1>1, SessionCorrect, PTL

-----------------------------------------------------------------------------
(* The session as the server sees it: what the reader's plan, the sync.Once  *)
(* and the loops that are running tell of it.                                *)
Within(plan, o) == plan \in InShutdown \/ (plan = Shutdown /\ o # "free")

Seen(plan, o, loops) ==
    IF Within(plan, o) THEN (IF "reader" \in loops THEN "quitting" ELSE "ending")
    ELSE IF "reader" \notin loops /\ plan = <<>> THEN "ended" ELSE "reading"

PhaseAt(o) == IF o = "free" THEN "open" ELSE IF o = "running" THEN "closing" ELSE "closed"

LEMMA WithinPlan ==
    ASSUME NEW s \in Plans, NEW o
    PROVE  /\ s # <<>>
           /\ \/ Head(s) = "once" /\ o # "free"
              \/ Head(s) \in {"closeDone", "closeSend", "closeConn", "remove"}
           <=> Within(s, o)
<1>1. Shutdown # <<>> /\ Head(Shutdown) = "once"
  BY DEF Shutdown
<1>2. ASSUME s \in InShutdown
      PROVE  s # <<>> /\ Head(s) \in {"closeDone", "closeSend", "closeConn", "remove"}
  <2>1. s # <<>>
    BY <1>2 DEF InShutdown
  <2> QED BY <1>2, <2>1, ShutdownSteps
<1> QED BY <1>1, <1>2, PlanSteps DEF Within

LEMMA ViewNow ==
    ASSUME SessionInv
    PROVE  /\ PhaseOf = PhaseAt(once)
           /\ ReaderOf = Seen(todo["reader"], once, running)
           /\ todo["reader"] \in Plans /\ "reader" \in Procs
           /\ once \in {"free", "running", "done"}
           /\ "reader" \notin running =>
                 \/ todo["reader"] \in InShutdown \cup {Shutdown, LogShutdown}
                 \/ todo["reader"] = <<>> /\ once = "done"
           /\ todo["reader"] \in InShutdown => once = "running"
<1>1. "reader" \in Procs
  BY DEF Procs, Loops
<1>2. todo["reader"] \in Plans /\ (todo["reader"] \in InShutdown => once = "running")
  BY <1>1 DEF SessionInv, PlanOK, OnceOK
<1>3. /\ once \in {"free", "running", "done"}
      /\ once # "done" => removed = 0
      /\ once = "done" => removed = 1
  BY DEF SessionInv, TypeOK, OnceOK
<1>4. PhaseOf = PhaseAt(once)
  BY <1>3 DEF PhaseOf, PhaseAt
<1>5. InShutdownCall <=> Within(todo["reader"], once)
  BY <1>2, WithinPlan DEF InShutdownCall
<1>6. ReaderOf = Seen(todo["reader"], once, running)
  BY <1>5 DEF ReaderOf, Seen
<1> QED BY <1>1, <1>2, <1>3, <1>4, <1>6 DEF SessionInv, PlanOK

LEMMA ViewNext ==
    ASSUME SessionInv'
    PROVE  /\ PhaseOf' = PhaseAt(once')
           /\ ReaderOf' = Seen(todo'["reader"], once', running')
<1>1. "reader" \in Procs
  BY DEF Procs, Loops
<1>2. todo'["reader"] \in Plans
  BY <1>1 DEF SessionInv, PlanOK
<1>3. /\ once' \in {"free", "running", "done"}
      /\ once' # "done" => removed' = 0
      /\ once' = "done" => removed' = 1
  BY DEF SessionInv, TypeOK, OnceOK
<1>4. PhaseOf' = PhaseAt(once')
  BY <1>3 DEF PhaseOf, PhaseAt
<1>5. InShutdownCall' <=> Within(todo'["reader"], once')
  BY <1>2, WithinPlan DEF InShutdownCall
<1>6. ReaderOf' = Seen(todo'["reader"], once', running')
  BY <1>5 DEF ReaderOf, Seen
<1> QED BY <1>4, <1>6

(* Six ways in which a step can show: not at all, or as a step of Session.   *)
LEMMA ViewStep ==
    ASSUME SessionInv, SessionInv',
           NEW x, x = Seen(todo["reader"], once, running),
           NEW y, y = Seen(todo'["reader"], once', running'),
           \/ UNCHANGED once /\ y = x
           \/ once = "free" /\ once' = "running" /\ y = x
           \/ once' = (IF once = "free" THEN "running" ELSE once)
              /\ x = "reading" /\ y \in {"quitting", "ending"}
           \/ once = "running" /\ once' = "done" /\ y = x
           \/ /\ once = "running" \/ once = "done"
              /\ once' = "done"
              /\ \/ x = "quitting" /\ y = "reading"
                 \/ x = "ending" /\ y = "ended"
    PROVE  [Abstract!Next]_(Abstract!vars)
<1>1. /\ PhaseOf = PhaseAt(once) /\ PhaseOf' = PhaseAt(once')
      /\ ReaderOf = x /\ ReaderOf' = y
      /\ once \in {"free", "running", "done"}
  BY ViewNow, ViewNext
<1>2. CASE UNCHANGED once /\ y = x
  BY <1>1, <1>2 DEF Abstract!vars
<1>3. CASE once = "free" /\ once' = "running" /\ y = x
  <2>1. Abstract!Fail
    BY <1>1, <1>3 DEF Abstract!Fail, Abstract!Shut, PhaseAt
  <2> QED BY <2>1 DEF Abstract!Next
<1>4. CASE once' = (IF once = "free" THEN "running" ELSE once)
           /\ x = "reading" /\ y \in {"quitting", "ending"}
  <2>1. Abstract!Shut
    BY <1>1, <1>4 DEF Abstract!Shut, PhaseAt
  <2>2. Abstract!Quit \/ Abstract!EndOfInput
    BY <1>1, <1>4, <2>1 DEF Abstract!Quit, Abstract!EndOfInput
  <2> QED BY <2>2 DEF Abstract!Next
<1>5. CASE once = "running" /\ once' = "done" /\ y = x
  <2>1. Abstract!Remove
    BY <1>1, <1>5 DEF Abstract!Remove, PhaseAt
  <2> QED BY <2>1 DEF Abstract!Next
<1>6. CASE /\ once = "running" \/ once = "done"
           /\ once' = "done"
           /\ \/ x = "quitting" /\ y = "reading"
              \/ x = "ending" /\ y = "ended"
  <2>1. Abstract!ComeBack
    BY <1>1, <1>6 DEF Abstract!ComeBack
  <2>2. Abstract!Remove \/ Abstract!Return
    BY <1>1, <1>6, <2>1 DEF Abstract!Remove, Abstract!Return, PhaseAt
  <2> QED BY <2>2 DEF Abstract!Next
<1> QED BY <1>2, <1>3, <1>4, <1>5, <1>6

(* Send and waiting for a lock do not show, unless they end where the        *)
(* reader's shutdown begins and another goroutine is in it.                  *)
LEMMA ViewSend ==
    ASSUME SessionInv, SessionInv', NEW p \in Procs, CheckDone(p) \/ Put(p) \/ TakeLock(p)
    PROVE  [Abstract!Next]_(Abstract!vars)
<1> DEFINE t  == todo["reader"]
           t2 == todo'["reader"]
           x  == Seen(t, once, running)
           y  == Seen(t2, once', running')
<1>1. UNCHANGED <<once, running>>
  BY DEF CheckDone, Put, TakeLock
<1>2. CASE t2 = t
  BY <1>1, <1>2, ViewStep
<1>3. CASE p = "reader"
  <2>1. /\ t # <<>> /\ t \in Plans /\ Head(t) \in {"check", "put", "lock"}
        /\ Head(t) = "check" => t2 \in {Tail(t), Tail(Tail(t))}
        /\ Head(t) = "put" => t2 \in {Tail(t), <<"lock">> \o Tail(t)}
        /\ Head(t) = "lock" => t2 = Tail(t)
    BY <1>3, ViewNow DEF CheckDone, Put, TakeLock, At, Step, Call, SessionInv, TypeOK
  <2>2. /\ t \in InSend \cup Farewells
        /\ t2 \in InSend \cup Farewells \cup {Shutdown}
        /\ t = LogShutdown => t2 = Shutdown
    <3> HIDE DEF t, t2
    <3>1. t \in InSend \cup Farewells
      BY <2>1, PlanSteps
    <3>2. CASE t \in InSend
      <4>1. t2 \in {<<>>, <<"put">>, <<"lock">> \o <<>>, Send}
        BY <2>1, <3>2, SendSteps
      <4>2. <<>> \in InSend /\ <<"put">> \in InSend
        BY DEF InSend
      <4>3. t2 \in InSend
        BY <4>1, <4>2, FullSteps, Calls
      <4>4. t # LogShutdown
        BY <3>2, Locked DEF InSend
      <4> QED BY <3>1, <4>3, <4>4
    <3>3. CASE t \in Farewells
      <4>1. /\ Head(t) = "check" => Tail(t) \in Farewells /\ Tail(Tail(t)) = Shutdown
            /\ Head(t) = "put" => Tail(t) = Shutdown
            /\ Head(t) = "lock" => Tail(t) = Shutdown
            /\ t = LogShutdown => Head(t) = "lock"
        BY <3>3, FarewellSteps
      <4>2. t2 \in Farewells \cup {Shutdown}
        BY <2>1, <4>1, FullSteps, Calls
      <4> QED BY <2>1, <3>1, <4>1, <4>2
    <3> QED BY <3>1, <3>2, <3>3
  <2>3. /\ t \notin InShutdown \cup {Shutdown}
        /\ "reader" \in running \/ t = LogShutdown
    BY <2>1, <2>2, ViewNow, Beginnings
  <2>4. x = "reading"
    BY <2>1, <2>3 DEF Seen, Within
  <2>5. \/ y = "reading"
        \/ t2 = Shutdown /\ once # "free" /\ y \in {"quitting", "ending"}
    <3>1. CASE t2 = Shutdown
      <4>1. Shutdown # <<>> /\ Shutdown \notin InShutdown
        BY Calls DEF Shutdown
      <4> QED BY <1>1, <3>1, <4>1 DEF Seen, Within
    <3>2. CASE t2 # Shutdown
      <4>1. t2 \notin InShutdown \cup {Shutdown} /\ "reader" \in running
        BY <2>2, <2>3, <3>2, Beginnings
      <4> QED BY <1>1, <4>1 DEF Seen, Within
    <3> QED BY <3>1, <3>2
  <2> HIDE DEF x, y
  <2>6. CASE y = x
    BY <1>1, <2>6, ViewStep DEF x, y
  <2>7. CASE y # x
    BY <1>1, <2>4, <2>5, <2>7, ViewStep DEF x, y
  <2> QED BY <2>6, <2>7
<1>4. CASE p # "reader"
  <2>1. t2 = t
    BY <1>4, ViewNow DEF CheckDone, Put, TakeLock, Step, Call, SessionInv, TypeOK
  <2> QED BY <1>2, <2>1
<1> QED BY <1>3, <1>4

(* Into once.Do and out of it. *)
LEMMA ViewEnter ==
    ASSUME SessionInv, SessionInv', NEW p \in Procs, EnterOnce(p)
    PROVE  [Abstract!Next]_(Abstract!vars)
<1> DEFINE t  == todo["reader"]
           t2 == todo'["reader"]
           x  == Seen(t, once, running)
           y  == Seen(t2, once', running')
<1>1. todo[p] = Shutdown /\ UNCHANGED running
  BY PlanSteps DEF EnterOnce, At, SessionInv, PlanOK
<1>2. Shutdown # <<>> /\ <<>> \notin InShutdown
  BY Calls DEF Shutdown, InSend
<1>3. t \notin InShutdown \/ once = "running"
  BY ViewNow
<1>4. CASE once = "free"
  <2>1. once' = "running" /\ todo' = [todo EXCEPT ![p] = Tail(Shutdown)]
    BY <1>1, <1>4 DEF EnterOnce, Step
  <2>2. Tail(Shutdown) \in InShutdown
    BY Tails DEF InShutdown
  <2>3. t2 = t \/ (t = Shutdown /\ t2 \in InShutdown)
    BY <1>1, <2>1, <2>2, ViewNow DEF SessionInv, TypeOK
  <2>4. ~Within(t, once)
    BY <1>3, <1>4 DEF Within
  <2>5. CASE t = Shutdown
    <3>1. x = "reading" /\ y \in {"quitting", "ending"}
      BY <1>1, <1>2, <2>1, <2>3, <2>4, <2>5 DEF Seen, Within
    <3> HIDE DEF x, y
    <3> QED BY <1>4, <2>1, <3>1, ViewStep DEF x, y
  <2>6. CASE t # Shutdown
    <3>1. t2 = t /\ ~Within(t2, once')
      BY <1>3, <1>4, <2>3, <2>6 DEF Within
    <3>2. y = x
      BY <1>1, <2>4, <3>1 DEF Seen
    <3> HIDE DEF x, y
    <3> QED BY <1>4, <2>1, <3>2, ViewStep DEF x, y
  <2> QED BY <2>5, <2>6
<1>5. CASE once = "done"
  <2>1. once' = "done" /\ todo' = [todo EXCEPT ![p] = <<>>]
    BY <1>1, <1>5 DEF EnterOnce, Call
  <2>2. CASE p = "reader"
    <3>1. t = Shutdown /\ t2 = <<>>
      BY <1>1, <2>1, <2>2, ViewNow DEF SessionInv, TypeOK
    <3>2. \/ x = "quitting" /\ y = "reading"
          \/ x = "ending" /\ y = "ended"
      BY <1>1, <1>2, <1>5, <2>1, <3>1 DEF Seen, Within
    <3> HIDE DEF x, y
    <3> QED BY <1>5, <2>1, <3>2, ViewStep DEF x, y
  <2>3. CASE p # "reader"
    <3>1. t2 = t
      BY <2>1, <2>3, ViewNow DEF SessionInv, TypeOK
    <3> QED BY <1>1, <1>5, <2>1, <3>1, ViewStep
  <2> QED BY <2>2, <2>3
<1> QED BY <1>4, <1>5 DEF EnterOnce

(* Inside once.Do: only its last step shows, and may let the reader go on. *)
LEMMA ViewShutdown ==
    ASSUME SessionInv, SessionInv', NEW p \in Procs,
           CloseDone(p) \/ CloseSend(p) \/ CloseConn(p) \/ RemoveClient(p)
    PROVE  [Abstract!Next]_(Abstract!vars)
<1> DEFINE t  == todo["reader"]
           t2 == todo'["reader"]
           x  == Seen(t, once, running)
           y  == Seen(t2, once', running')
<1>1. todo[p] \in InShutdown /\ UNCHANGED running /\ todo' = [todo EXCEPT ![p] = Tail(todo[p])]
  BY PlanSteps DEF CloseDone, CloseSend, CloseConn, RemoveClient, At, Step, SessionInv, PlanOK
<1>2. once = "running" /\ (t \in InShutdown => p = "reader")
  BY <1>1, ViewNow DEF SessionInv, OnceOK
<1>3. IF p = "reader" THEN t2 = Tail(t) /\ t \in InShutdown ELSE t2 = t
  BY <1>1, ViewNow DEF SessionInv, TypeOK
<1>4. CASE CloseDone(p) \/ CloseSend(p) \/ CloseConn(p)
  <2>1. UNCHANGED once
    BY <1>4 DEF CloseDone, CloseSend, CloseConn
  <2>2. t2 = t \/ (t \in InShutdown /\ t2 \in InShutdown)
    <3>1. Head(todo[p]) \in {"closeDone", "closeSend", "closeConn"}
      BY <1>4 DEF CloseDone, CloseSend, CloseConn, At
    <3>2. Tail(todo[p]) \in InShutdown
      BY <1>1, <3>1, ShutdownSteps, Tails DEF InShutdown
    <3> QED BY <1>3, <3>2
  <2>3. y = x
    BY <1>1, <2>1, <2>2 DEF Seen, Within
  <2> HIDE DEF x, y
  <2> QED BY <2>1, <2>3, ViewStep DEF x, y
<1>5. CASE RemoveClient(p)
  <2>1. once' = "done" /\ Tail(todo[p]) = <<>>
    BY <1>1, <1>5, ShutdownSteps, Tails DEF RemoveClient, At
  <2>2. Shutdown # <<>> /\ <<>> \notin InShutdown
    BY Calls DEF Shutdown, InSend
  <2>3. CASE p = "reader"
    <3>1. t \in InShutdown /\ t2 = <<>>
      BY <1>1, <1>3, <2>1, <2>3
    <3>2. \/ x = "quitting" /\ y = "reading"
          \/ x = "ending" /\ y = "ended"
      BY <1>1, <2>2, <3>1 DEF Seen, Within
    <3> HIDE DEF x, y
    <3> QED BY <1>2, <2>1, <3>2, ViewStep DEF x, y
  <2>4. CASE p # "reader"
    <3>1. y = x
      BY <1>1, <1>2, <1>3, <2>1, <2>4 DEF Seen, Within
    <3> HIDE DEF x, y
    <3> QED BY <1>2, <2>1, <3>1, ViewStep DEF x, y
  <2> QED BY <2>3, <2>4
<1> QED BY <1>4, <1>5

(* Of the calls and the other steps only the end of the reader's loop can    *)
(* show, when another goroutine has begun to shut the session down.          *)
LEMMA ViewLoops ==
    ASSUME SessionInv, SessionInv', UNCHANGED <<once, removed>>,
           "reader" \in running' <=> "reader" \in running, UNCHANGED todo["reader"]
    PROVE  [Abstract!Next]_(Abstract!vars)
<1>1. Seen(todo'["reader"], once', running') = Seen(todo["reader"], once, running)
  BY DEF Seen
<1> QED BY <1>1, ViewStep

LEMMA ViewReader ==
    ASSUME SessionInv, SessionInv',
           \/ Line(Command) \/ Line(Send \o Shutdown)
           \/ EndOfInput(Shutdown) \/ EndOfInput(LogShutdown)
    PROVE  [Abstract!Next]_(Abstract!vars)
<1> DEFINE t  == todo["reader"]
           t2 == todo'["reader"]
           x  == Seen(t, once, running)
           y  == Seen(t2, once', running')
<1>1. t = <<>> /\ "reader" \in running /\ UNCHANGED once
  BY DEF Line, EndOfInput, Free
<1>2. <<>> \notin InShutdown /\ Shutdown # <<>>
  BY Calls DEF Shutdown, InSend
<1>3. x = "reading"
  BY <1>1, <1>2 DEF Seen, Within
<1>4. CASE Line(Command) \/ Line(Send \o Shutdown)
  <2>1. t2 \in InSend \cup Farewells /\ "reader" \in running'
    BY <1>1, <1>4, ViewNow, Calls DEF Line, Call, SessionInv, TypeOK
  <2>2. t2 \notin InShutdown \cup {Shutdown}
    BY <2>1, Beginnings
  <2>3. y = "reading"
    BY <2>1, <2>2 DEF Seen, Within
  <2> HIDE DEF x, y
  <2> QED BY <1>1, <1>3, <2>3, ViewStep DEF x, y
<1>6. CASE EndOfInput(LogShutdown)
  <2>1. t2 = LogShutdown /\ "reader" \notin running'
    BY <1>1, <1>6, ViewNow DEF EndOfInput, Call, SessionInv, TypeOK
  <2>2. t2 \notin InShutdown \cup {Shutdown} /\ t2 # <<>>
    BY <2>1, Calls, Beginnings, Locked
  <2>3. y = "reading"
    BY <2>2 DEF Seen, Within
  <2> HIDE DEF x, y
  <2> QED BY <1>1, <1>3, <2>3, ViewStep DEF x, y
<1>5. CASE EndOfInput(Shutdown)
  <2>1. t2 = Shutdown /\ "reader" \notin running'
    BY <1>1, <1>5, ViewNow DEF EndOfInput, Call, SessionInv, TypeOK
  <2>2. y = IF once = "free" THEN "reading" ELSE "ending"
    BY <1>1, <1>2, <2>1, Calls DEF Seen, Within
  <2> HIDE DEF x, y
  <2>3. CASE once = "free"
    BY <1>1, <1>3, <2>2, <2>3, ViewStep DEF x, y
  <2>4. CASE once # "free"
    BY <1>1, <1>3, <2>2, <2>4, ViewStep DEF x, y
  <2> QED BY <2>3, <2>4
<1> QED BY <1>4, <1>5, <1>6

LEMMA SessionShows ==
    ASSUME SessionInv, SessionInv', [Next]_vars PROVE [Abstract!Next]_(Abstract!vars)
<1>1. /\ "reader" \in Procs /\ "reader" \notin Others
      /\ todo \in [Procs -> Seq(Steps)]
  BY ClientAssumption, ViewNow DEF SessionInv, TypeOK
<1>2. CASE UNCHANGED vars
  BY <1>2, ViewLoops DEF vars
<1>3. ASSUME NEW p \in Procs, Continue(p) PROVE [Abstract!Next]_(Abstract!vars)
  BY <1>3, ViewSend, ViewEnter, ViewShutdown DEF Continue, GoOn
<1>4. CASE \/ Line(Command) \/ Line(Send \o Shutdown)
           \/ EndOfInput(Shutdown) \/ EndOfInput(LogShutdown)
  BY <1>4, ViewReader
<1>5. CASE WriteFails(Shutdown) \/ WriteFails(LogShutdown) \/ IdleTimeout
  <2>1. /\ UNCHANGED <<once, removed>> /\ UNCHANGED todo["reader"]
        /\ "reader" \in running' <=> "reader" \in running
    BY <1>1, <1>5 DEF WriteFails, IdleTimeout, Call
  <2> QED BY <2>1, ViewLoops
<1>6. ASSUME NEW o \in Others, SendFrom(o) PROVE [Abstract!Next]_(Abstract!vars)
  <2>1. UNCHANGED <<once, removed, running>> /\ UNCHANGED todo["reader"]
    BY <1>1, <1>6 DEF SendFrom, Call
  <2> QED BY <2>1, ViewLoops
<1>7. CASE \/ WriterTake \/ WriterReturn \/ WriteOk \/ TimerFires \/ IdleReset \/ IdleReturn
  <2>1. /\ UNCHANGED <<once, removed, todo>>
        /\ "reader" \in running' <=> "reader" \in running
    BY <1>7 DEF WriterTake, WriterReturn, WriteOk, TimerFires, IdleReset, IdleReturn
  <2> QED BY <2>1, ViewLoops
<1> QED BY <1>2, <1>3, <1>4, <1>5, <1>6, <1>7 DEF Next, Writer, Idle

(* The server may take a session for what Session says: through all its      *)
(* goroutines and channels it closes once, is removed while it closes, and   *)
(* gives its reader back only when it is removed.                            *)
THEOREM ClientImplementsSession == Spec => ImplementsSession
<1>1. Init => Abstract!Init
  <2> SUFFICES ASSUME Init PROVE Abstract!Init
    OBVIOUS
  <2>1. SessionInv /\ "reader" \in Procs
    BY SessionInit, ViewNow
  <2>2. once = "free" /\ todo["reader"] = Command /\ "reader" \in running
    BY <2>1 DEF Init, Loops
  <2>3. PhaseOf = "open"
    BY <2>2 DEF PhaseOf
  <2>4. Seen(todo["reader"], once, running) = "reading"
    BY <2>2, Calls DEF Seen, Within
  <2> QED BY <2>1, <2>3, <2>4, ViewNow DEF Abstract!Init
<1>2. SessionInv /\ SessionInv' /\ [Next]_vars => [Abstract!Next]_(Abstract!vars)
  BY SessionShows
<1> QED BY <1>1, <1>2, SessionCorrect, PTL DEF Spec, ImplementsSession, Abstract!Spec
=============================================================================
