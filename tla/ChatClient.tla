----------------------------- MODULE ChatClient -----------------------------
(***************************************************************************)
(* One TCP session (internal/chat/client.go): the channels send, done and   *)
(* idleReset of a Client, its reader, writer and idle watcher goroutines,   *)
(* and the goroutines of other clients that Send to it.                     *)
(*                                                                         *)
(* What a goroutine still has to do in the function it has called is the    *)
(* sequence todo of its remaining steps; an empty one means it is back in   *)
(* its own loop.                                                            *)
(***************************************************************************)
EXTENDS Naturals, Sequences, FiniteSets

CONSTANTS
    Others,      \* goroutines of other clients that Send to this one
    SendCap,     \* Config.SendBufferSize
    MaxLines,    \* bound: lines the client sends
    MaxSends     \* bound: messages others send

ASSUME ClientAssumption ==
    /\ {"reader", "writer", "idle"} \cap Others = {}
    /\ SendCap \in Nat \ {0}
    /\ MaxLines \in Nat
    /\ MaxSends \in Nat

VARIABLES
    running,    \* those of reader, writer and idle whose loop has not ended
    todo,       \* steps left of each goroutine's call
    queue,      \* Client.send: the senders of the buffered messages
    sendClosed, \* close(c.send) has run
    done,       \* close(c.done) has run
    conn,       \* "open" or "closed"
    once,       \* sync.Once: "free", "running" or "done"
    inflight,   \* the message the writer took and is writing, if any
    timer,      \* the idle timer: "running", or "fired" with its value unread
    reset,      \* idleReset holds its one element
    removed,    \* calls of Server.removeClient
    panicked,   \* why the process died: "no", "send" or "close"
    lines,
    sends

vars == <<running, todo, queue, sendClosed, done, conn, once, inflight, timer, reset,
          removed, panicked, lines, sends>>

Loops == {"reader", "writer", "idle"}
Procs == Loops \cup Others

Send    == <<"check", "put">>

(* Fault: the client is removed from the server before its connection goes. *)
ShutdownRemovesFirst == <<"once", "closeDone", "closeSend", "remove", "closeConn">>

Shutdown == <<"once", "closeDone", "closeSend", "closeConn", "remove">>

(* What goes through the locks of the server, its rooms or a client: a      *)
(* command, whose texts are one Send here, and a log of the client's name.  *)
Command == <<"lock">> \o Send
LogShutdown == <<"lock">> \o Shutdown

Steps == {"lock", "check", "put", "once", "closeDone", "closeSend", "closeConn", "remove"}

(* Client.start: the writer and the watcher are running, and the reader is  *)
(* about to greet the client and to enter the lobby, which is as a command. *)
Init ==
    /\ running    = Loops
    /\ todo       = [p \in Procs |-> IF p = "reader" THEN Command ELSE <<>>]
    /\ queue      = <<>>
    /\ sendClosed = FALSE
    /\ done       = FALSE
    /\ conn       = "open"
    /\ once       = "free"
    /\ inflight   = <<>>
    /\ timer      = "running"
    /\ reset      = FALSE
    /\ removed    = 0
    /\ panicked   = "no"
    /\ lines      = 0
    /\ sends      = 0

At(p, step) == panicked = "no" /\ todo[p] # <<>> /\ Head(todo[p]) = step
Step(p)     == todo' = [todo EXCEPT ![p] = Tail(@)]
Free(p)     == panicked = "no" /\ p \in running /\ todo[p] = <<>>
Call(p, steps) == todo' = [todo EXCEPT ![p] = steps]

----------------------------------------------------------------------------
(* A lock another goroutine may hold, taken and given back. *)
TakeLock(p) ==
    /\ At(p, "lock")
    /\ Step(p)
    /\ UNCHANGED <<running, queue, sendClosed, done, conn, once, inflight, timer, reset,
                   removed, panicked, lines, sends>>

(* Client.Send: a look at done, then a send that never waits: on a full     *)
(* channel the message is dropped and the name logged, on a closed one the  *)
(* send panics.                                                             *)
CheckDone(p) ==
    /\ At(p, "check")
    /\ todo' = [todo EXCEPT ![p] = IF done THEN Tail(Tail(@)) ELSE Tail(@)]
    /\ UNCHANGED <<running, queue, sendClosed, done, conn, once, inflight, timer, reset,
                   removed, panicked, lines, sends>>

(* Fault: the buffer grows without bound. *)
PutUnbounded(p) ==
    /\ At(p, "put")
    /\ Step(p)
    /\ panicked' = IF sendClosed THEN "send" ELSE panicked
    /\ queue' = IF sendClosed THEN queue ELSE Append(queue, p)
    /\ UNCHANGED <<running, sendClosed, done, conn, once, inflight, timer, reset, removed,
                   lines, sends>>

Put(p) ==
    /\ At(p, "put")
    /\ panicked' = IF sendClosed THEN "send" ELSE panicked
    /\ IF ~sendClosed /\ Len(queue) = SendCap
       THEN Call(p, <<"lock">> \o Tail(todo[p])) /\ UNCHANGED queue
       ELSE Step(p) /\ queue' = IF sendClosed THEN queue ELSE Append(queue, p)
    /\ UNCHANGED <<running, sendClosed, done, conn, once, inflight, timer, reset, removed,
                   lines, sends>>

(* Fault: shutdown looks at done instead of using a sync.Once. *)
EnterUnlessDone(p) ==
    /\ At(p, "once")
    /\ IF done THEN UNCHANGED once /\ Call(p, <<>>)
               ELSE once' = "running" /\ Step(p)
    /\ UNCHANGED <<running, queue, sendClosed, done, conn, inflight, timer, reset, removed,
                   panicked, lines, sends>>

(* Fault: shutdown swaps a flag, and a second caller goes on at once. *)
EnterFlag(p) ==
    /\ At(p, "once")
    /\ \/ once = "free" /\ once' = "running" /\ Step(p)
       \/ once # "free" /\ UNCHANGED once /\ Call(p, <<>>)
    /\ UNCHANGED <<running, queue, sendClosed, done, conn, inflight, timer, reset, removed,
                   panicked, lines, sends>>

(* Client.shutdown: a second caller of once.Do waits until the first is done,*)
(* and then has nothing left to do: shutdown is the last call of its caller. *)
EnterOnce(p) ==
    /\ At(p, "once")
    /\ \/ once = "free" /\ once' = "running" /\ Step(p)
       \/ once = "done" /\ UNCHANGED once /\ Call(p, <<>>)
    /\ UNCHANGED <<running, queue, sendClosed, done, conn, inflight, timer, reset, removed,
                   panicked, lines, sends>>

CloseDone(p) ==
    /\ At(p, "closeDone")
    /\ Step(p)
    /\ done' = TRUE
    /\ panicked' = IF done THEN "close" ELSE panicked
    /\ UNCHANGED <<running, queue, sendClosed, conn, once, inflight, timer, reset, removed,
                   lines, sends>>

CloseSend(p) ==
    /\ At(p, "closeSend")
    /\ Step(p)
    /\ sendClosed' = TRUE
    /\ panicked' = IF sendClosed THEN "close" ELSE panicked
    /\ UNCHANGED <<running, queue, done, conn, once, inflight, timer, reset, removed, lines,
                   sends>>

CloseConn(p) ==
    /\ At(p, "closeConn")
    /\ Step(p)
    /\ conn' = "closed"
    /\ UNCHANGED <<running, queue, sendClosed, done, once, inflight, timer, reset, removed,
                   panicked, lines, sends>>

(* removeClient takes the locks of the server and of the client's room. *)
RemoveClient(p) ==
    /\ At(p, "remove")
    /\ Step(p)
    /\ removed' = removed + 1
    /\ once' = "done"
    /\ UNCHANGED <<running, queue, sendClosed, done, conn, inflight, timer, reset, panicked,
                   lines, sends>>

GoOn(p) == CheckDone(p) \/ Put(p) \/ EnterOnce(p) \/ CloseDone(p) \/ CloseSend(p)
           \/ CloseConn(p)

Continue(p) == GoOn(p) \/ TakeLock(p) \/ RemoveClient(p)

----------------------------------------------------------------------------
(* readLoop. A line resets the idle timer and is a command; /quit is answered*)
(* and shuts down, and the loop goes on to read what is still buffered.      *)
Line(answer) ==
    /\ Free("reader")
    /\ lines < MaxLines
    /\ lines' = lines + 1
    /\ reset' = TRUE
    /\ Call("reader", answer)
    /\ UNCHANGED <<running, queue, sendClosed, done, conn, once, inflight, timer, removed,
                   panicked, sends>>

(* An error other than that of a closed connection is logged. *)
EndOfInput(ending) ==
    /\ Free("reader")
    /\ running' = running \ {"reader"}
    /\ Call("reader", ending)
    /\ UNCHANGED <<queue, sendClosed, done, conn, once, inflight, timer, reset, removed,
                   panicked, lines, sends>>

(* writeLoop: a select between done and send; a closed channel still gives   *)
(* what it has buffered.                                                     *)
WriterTake ==
    /\ Free("writer") /\ inflight = <<>>
    /\ queue # <<>>
    /\ inflight' = <<Head(queue)>>
    /\ queue' = Tail(queue)
    /\ UNCHANGED <<running, todo, sendClosed, done, conn, once, timer, reset, removed,
                   panicked, lines, sends>>

WriterReturn ==
    /\ Free("writer") /\ inflight = <<>>
    /\ done \/ (sendClosed /\ queue = <<>>)
    /\ running' = running \ {"writer"}
    /\ UNCHANGED <<todo, queue, sendClosed, done, conn, once, inflight, timer, reset,
                   removed, panicked, lines, sends>>

WriteOk ==
    /\ Free("writer") /\ inflight # <<>> /\ conn = "open"
    /\ inflight' = <<>>
    /\ UNCHANGED <<running, todo, queue, sendClosed, done, conn, once, timer, reset, removed,
                   panicked, lines, sends>>

(* The connection is closed or broken, or the deadline of 15 s has passed. *)
WriteFails(ending) ==
    /\ Free("writer") /\ inflight # <<>>
    /\ inflight' = <<>>
    /\ running' = running \ {"writer"}
    /\ Call("writer", ending)
    /\ UNCHANGED <<queue, sendClosed, done, conn, once, timer, reset, removed, panicked,
                   lines, sends>>

(* idleWatcher: a select between done, the timer and idleReset; a reset of a *)
(* timer that has fired takes its value out first.                           *)
TimerFires ==
    /\ panicked = "no" /\ timer = "running" /\ "idle" \in running
    /\ timer' = "fired"
    /\ UNCHANGED <<running, todo, queue, sendClosed, done, conn, once, inflight, reset,
                   removed, panicked, lines, sends>>

IdleReset ==
    /\ Free("idle") /\ reset
    /\ reset' = FALSE
    /\ timer' = "running"
    /\ UNCHANGED <<running, todo, queue, sendClosed, done, conn, once, inflight, removed,
                   panicked, lines, sends>>

(* Fault: the watcher of a session that has ended waits for its timer. *)
IdleReturnLater ==
    /\ Free("idle") /\ done /\ timer = "fired"
    /\ running' = running \ {"idle"}
    /\ UNCHANGED <<todo, queue, sendClosed, done, conn, once, inflight, timer, reset,
                   removed, panicked, lines, sends>>

IdleReturn ==
    /\ Free("idle") /\ done
    /\ running' = running \ {"idle"}
    /\ UNCHANGED <<todo, queue, sendClosed, done, conn, once, inflight, timer, reset,
                   removed, panicked, lines, sends>>

(* Fault: the watcher warns the client and goes. *)
IdleTimeoutWarns ==
    /\ Free("idle") /\ timer = "fired"
    /\ running' = running \ {"idle"}
    /\ Call("idle", Send)
    /\ UNCHANGED <<queue, sendClosed, done, conn, once, inflight, timer, reset, removed,
                   panicked, lines, sends>>

IdleTimeout ==
    /\ Free("idle") /\ timer = "fired"
    /\ running' = running \ {"idle"}
    /\ Call("idle", Send \o Shutdown)
    /\ UNCHANGED <<queue, sendClosed, done, conn, once, inflight, timer, reset, removed,
                   panicked, lines, sends>>

(* A broadcast or a private message of another client, who found this one in *)
(* a room or in s.names, perhaps some time ago.                              *)
SendFrom(o) ==
    /\ panicked = "no" /\ todo[o] = <<>>
    /\ sends < MaxSends
    /\ sends' = sends + 1
    /\ Call(o, Send)
    /\ UNCHANGED <<running, queue, sendClosed, done, conn, once, inflight, timer, reset,
                   removed, panicked, lines>>

----------------------------------------------------------------------------
Writer == WriterTake \/ WriterReturn \/ WriteOk
          \/ WriteFails(Shutdown) \/ WriteFails(LogShutdown)
Idle   == IdleReset \/ IdleReturn \/ IdleTimeout

Next ==
    \/ \E p \in Procs : Continue(p)
    \/ Line(Command) \/ Line(Send \o Shutdown)
    \/ EndOfInput(Shutdown) \/ EndOfInput(LogShutdown)
    \/ Writer \/ Idle \/ TimerFires
    \/ \E o \in Others : SendFrom(o)

Spec == Init /\ [][Next]_vars

(* Goroutines run; a write ends within its deadline; reading from a closed   *)
(* connection ends. Neither input nor the idle timeout has to come, and no   *)
(* lock has to be had.                                                       *)
FairSpec ==
    /\ Spec
    /\ \A p \in Procs : WF_vars(GoOn(p))
    /\ WF_vars(Writer) /\ WF_vars(Idle)
    /\ WF_vars(conn = "closed" /\ (EndOfInput(Shutdown) \/ EndOfInput(LogShutdown)))

----------------------------------------------------------------------------
(* Properties *)

TypeOK ==
    /\ running    \in SUBSET Loops
    /\ todo       \in [Procs -> Seq(Steps)]
    /\ queue      \in Seq(Procs)
    /\ Len(queue) \in 0 .. SendCap
    /\ sendClosed \in BOOLEAN
    /\ done       \in BOOLEAN
    /\ conn       \in {"open", "closed"}
    /\ once       \in {"free", "running", "done"}
    /\ inflight   \in Seq(Procs)
    /\ timer      \in {"running", "fired"}
    /\ reset      \in BOOLEAN
    /\ removed    \in Nat
    /\ panicked   \in {"no", "send", "close"}
    /\ lines      \in 0 .. MaxLines
    /\ sends      \in 0 .. MaxSends

(* client.go:137: whoever shuts the session down, and however many do at     *)
(* once, nothing is closed twice and removeClient runs once; a goroutine     *)
(* that has returned from shutdown finds it finished.                        *)
ShutdownOnce ==
    /\ panicked # "close"
    /\ removed <= 1
    /\ (running = {} /\ \A p \in Loops : todo[p] = <<>>)
          => removed = 1 /\ conn = "closed" /\ done /\ sendClosed

(* The reader is inside shutdown, or waits for who is. *)
InShutdownCall ==
    /\ todo["reader"] # <<>>
    /\ \/ Head(todo["reader"]) = "once" /\ once # "free"
       \/ Head(todo["reader"]) \in {"closeDone", "closeSend", "closeConn", "remove"}

PhaseOf == IF once = "free" THEN "open" ELSE IF removed = 0 THEN "closing" ELSE "closed"

ReaderOf ==
    IF InShutdownCall THEN (IF "reader" \in running THEN "quitting" ELSE "ending")
    ELSE IF "reader" \notin running /\ todo["reader"] = <<>> THEN "ended" ELSE "reading"

Abstract == INSTANCE Session WITH phase <- PhaseOf, reader <- ReaderOf

(* Of its goroutines, its channels and its sync.Once a session shows the     *)
(* server what Session says: it closes once, is removed then, and no reader  *)
(* goes on from a shutdown, its own or another's, before that.               *)
ImplementsSession == Abstract!Spec

(* Once a session is being shut down its client is cut off, even if the      *)
(* locks of the server are never free again; unless the process dies first.  *)
ClientCutOff == once # "free" ~> conn = "closed" \/ panicked # "no"

(* No goroutine of the session waits for a lock for ever. ChatLocks shows    *)
(* that the code does not ensure it.                                         *)
WaitsForLock(p) == At(p, "lock") \/ At(p, "remove")
LocksAreHad == \A p \in Loops : []<>~WaitsForLock(p)

(* Once a session is being shut down all three goroutines end, if locks can  *)
(* be had and the process does not die first.                                *)
GoroutinesEnd ==
    LocksAreHad =>
        (once # "free" ~> (running = {} /\ \A p \in Loops : todo[p] = <<>>) \/ panicked # "no")

(* An idle timer that has fired ends the session, or is set again because    *)
(* the client has sent a line; if locks can be had.                          *)
IdleSessionEnds ==
    LocksAreHad =>
        (timer = "fired" ~> timer = "running" \/ once = "done" \/ panicked # "no")

(* client.go:117 "Send 将文本写入发送缓冲，若缓冲已满则自动丢弃并记录日志": a Send     *)
(* buffers its text or drops it; it does not take the process down.          *)
SendBuffersOrDrops == panicked # "send"
=============================================================================
