---------------------------- MODULE DartLspClient ----------------------------
(***************************************************************************)
(* The JSON-RPC client of the Dart analyzer (analyzers/dart/lsp.py): user  *)
(* threads make calls, one thread writes frames to the language server,    *)
(* one reads frames from it, and one dispatches them to the waiting calls  *)
(* and answers the server's own requests.  The threads share a bounded     *)
(* write queue, a bounded inbound queue, the table of pending requests and *)
(* one sticky failure.                                                     *)
(*                                                                         *)
(* A step of a thread ends where another thread can make a difference: at  *)
(* a locked region, a queue or a wait.  Deadlines are not counted, a wait  *)
(* may time out at any moment.  Frames have no content but their kind and  *)
(* the call they belong to, and pipes hold a number of frames.             *)
(***************************************************************************)
EXTENDS Naturals, Sequences

CONSTANTS
    Callers,      \* user threads, besides the one that opened the client
    CallKinds,    \* what they call: "request", "notify"
    MaxCalls,     \* bound: calls of each of them
    MaxAsks,      \* bound: requests and malformed frames of the server
    WriteLimit,   \* _WRITE_QUEUE_LIMIT
    StdinLimit,   \* frames that the pipe to the server holds
    InboundLimit, \* frames between the server and the dispatcher
    Owner,        \* the thread that leaves the `with` block
    Dispatcher, Writer,
    None

Users   == Callers \cup {Owner}
Senders == Users \cup {Dispatcher}
Threads == Senders \cup {Writer}

\* A call is known by its thread and its number there: it stands for the JSON-RPC
\* id, the _WriteJob and the two queues on which its thread waits.
Limit(s) == IF s = Owner THEN 2 ELSE IF s = Dispatcher THEN MaxAsks ELSE MaxCalls
Ops == UNION {{s} \X (1..Limit(s)) : s \in Senders}

Kinds == {"request", "notify", "exit", "reply", "cancel"}
Job == [kind : Kinds, op : Ops]

\* What the server sends: responses, and requests and malformed frames of its own.
Response == [type : {"answer"}, op : Ops]
Request  == [type : {"ask", "malformed"}, op : {Dispatcher} \X (1..MaxAsks)]
Message  == Response \cup Request

ASSUME ClientAssumption ==
    /\ Owner \notin Callers /\ Dispatcher \notin Users /\ Writer \notin Senders
    /\ None \notin Job /\ None \notin {"ok", "error", "answer", "timeout", "exited", "fault", "closed"}
    /\ CallKinds \subseteq {"request", "notify"}
    /\ MaxCalls \in Nat /\ MaxAsks \in Nat
    /\ WriteLimit \in Nat \ {0} /\ StdinLimit \in Nat \ {0} /\ InboundLimit \in Nat \ {0}

VARIABLES
    at,         \* at[t]: where thread t is
    n,          \* n[s]: calls that sender s has begun
    kind,       \* kind[s]: what its current call sends
    done,       \* done[s]: completion of its frame: None, "ok", "error"
    box,        \* box[s]: its response queue: None, "answer", "error"
    waiters,    \* _write_waiters: calls that wait for their frame
    pending,    \* _pending: requests that wait for a response
    writes,     \* _writes, the queue of frames
    hand,       \* the frame that the writer took, or None
    failure,    \* _failure: None, "timeout", "exited", "fault", "closed"
    victims,    \* the waiters that the failing thread found
    stop,       \* _stop is set
    expecting,  \* _expecting_exit
    leaving,    \* how far the owner is with leaving the client
    process,    \* "running", "exited"
    stdin,      \* frames in the pipe to the server
    inbound,    \* frames in the pipe from the server, in the reader and in _inbound
    known,      \* requests that the server has not answered
    asks,       \* how many of the MaxAsks frames the server has sent
    call,       \* history: "unused", "open", "returned", "raised"
    served      \* history: requests answered and other frames written

thread == <<at, n, kind, hand, call>>
table  == <<waiters, pending, done, box>>
fail   == <<failure, victims>>
ends   == <<stop, expecting, leaving>>
server == <<process, stdin, inbound, known, asks>>
vars   == <<thread, writes, table, fail, ends, server, served>>

Cur(s) == <<s, n[s]>>

\* _ensure_started
Started == failure = None /\ process = "running"

\* The process ends, and what was on its way to it is lost.
Exits == process' = "exited" /\ stdin' = <<>> /\ known' = {}

Goto(t, where) == at' = [at EXCEPT ![t] = where]

Init ==
    /\ at = [t \in Threads |-> IF t \in Users THEN "idle" ELSE "get"]
    /\ n = [s \in Senders |-> 0] /\ kind = [s \in Senders |-> "notify"]
    /\ done = [s \in Senders |-> None] /\ box = [s \in Senders |-> None]
    /\ waiters = {} /\ pending = {} /\ writes = <<>> /\ hand = None
    /\ failure = None /\ victims = {}
    /\ stop = FALSE /\ expecting = FALSE /\ leaving = "no"
    /\ process = "running" /\ stdin = <<>> /\ inbound = <<>> /\ known = {} /\ asks = 0
    /\ call = [o \in Ops |-> "unused"] /\ served = {}

\* What thread t does after it reported error e.
After(t, e) == IF t = Writer THEN "complete"
               ELSE IF e \in {"timeout", "closed"} THEN "kill" ELSE "returned"

\* Variant: only queued frames are looked at.
QueuedCalls == {writes[i].op : i \in 1..Len(writes)}
\* The calls that _set_failure has to wake.
Waiting == waiters

\* Thread t runs the locked region of _set_failure: the first failure stays, the
\* queued frames are dropped and the waiters are noted.
Fail(t, e) ==
    \/ /\ failure # None
       /\ Goto(t, After(t, e))
       /\ UNCHANGED <<fail, writes>>
    \/ /\ failure = None
       /\ failure' = e
       /\ victims' = Waiting
       /\ writes' = <<>>
       /\ Goto(t, "wake")

-----------------------------------------------------------------------------
(* Calls: `request`, `notify` and the dispatcher's replies.                *)

Following(s) == <<s, n[s] + 1>>

\* Call o begins.
Begin(o, k) ==
    /\ n' = [n EXCEPT ![o[1]] = o[2]]
    /\ kind' = [kind EXCEPT ![o[1]] = k]
    /\ call' = [call EXCEPT ![o] = "open"]
    /\ Goto(o[1], IF k = "request" THEN "register" ELSE "send")

\* The call of s is over.  A dispatcher whose reply raised is over, too.
End(s, outcome) ==
    /\ call' = [call EXCEPT ![Cur(s)] = outcome]
    /\ Goto(s, IF s \in Users THEN "idle" ELSE IF outcome = "returned" THEN "get" ELSE "returned")
    /\ done' = [done EXCEPT ![s] = None] /\ box' = [box EXCEPT ![s] = None]
    /\ waiters' = waiters \ {Cur(s)}
    /\ UNCHANGED <<n, kind, hand>>

Raise(s) == End(s, "raised") /\ pending' = pending \ {Cur(s)}

Call(c) ==
    /\ at[c] = "idle" /\ n[c] < MaxCalls
    /\ Started
    /\ \E k \in CallKinds : Begin(Following(c), k)
    /\ UNCHANGED <<hand, writes, table, fail, ends, server, served>>

Register(s) ==
    /\ at[s] = "register"
    /\ \/ failure # None /\ Raise(s)
       \/ /\ failure = None
          /\ pending' = pending \cup {Cur(s)}
          /\ Goto(s, "send")
          /\ UNCHANGED <<n, kind, hand, call, waiters, done, box>>
    /\ UNCHANGED <<writes, fail, ends, server, served>>

Send(s) ==
    /\ at[s] = "send"
    /\ \/ failure # None /\ Raise(s)
       \/ /\ failure = None
          /\ waiters' = waiters \cup {Cur(s)}
          /\ Goto(s, "enqueue")
          /\ UNCHANGED <<n, kind, hand, call, pending, done, box>>
    /\ UNCHANGED <<writes, fail, ends, server, served>>

WritesFull == Len(writes) >= WriteLimit

\* With a full queue the thread comes back every 10 ms.
Enqueue(s) ==
    /\ at[s] = "enqueue"
    /\ \/ failure # None /\ Raise(s) /\ UNCHANGED writes
       \/ /\ failure = None /\ ~WritesFull
          /\ writes' = Append(writes, [kind |-> kind[s], op |-> Cur(s)])
          /\ Goto(s, "written")
          /\ UNCHANGED <<n, kind, hand, call, table>>
    /\ UNCHANGED <<fail, ends, server, served>>

AwaitWrite(s) ==
    /\ at[s] = "written" /\ done[s] # None
    /\ \/ done[s] = "error" /\ Raise(s)
       \/ done[s] = "ok" /\ kind[s] # "request" /\ End(s, "returned") /\ UNCHANGED pending
       \/ /\ done[s] = "ok" /\ kind[s] = "request"
          /\ waiters' = waiters \ {Cur(s)}
          /\ Goto(s, "answer")
          /\ UNCHANGED <<n, kind, hand, call, pending, done, box>>
    /\ UNCHANGED <<writes, fail, ends, server, served>>

AwaitAnswer(s) ==
    /\ at[s] = "answer" /\ box[s] # None
    /\ \/ box[s] = "error" /\ Raise(s)
       \/ box[s] = "answer" /\ End(s, "returned") /\ UNCHANGED pending
    /\ UNCHANGED <<writes, fail, ends, server, served>>

\* The deadline passes before the frame is queued ...
ExpireSend(s) ==
    /\ at[s] = "send"
    /\ IF s = Dispatcher
       THEN /\ call' = [call EXCEPT ![Cur(s)] = "raised"]
            /\ Fail(s, "fault")
            /\ UNCHANGED table
       ELSE Raise(s) /\ UNCHANGED <<fail, writes>>
    /\ UNCHANGED <<n, kind, hand, ends, server, served>>

\* Variant: a full queue is waited for without end.
ExpireWritten(s) ==
    /\ at[s] = "written" /\ done[s] = None
    /\ Fail(s, "timeout")
    /\ UNCHANGED <<n, kind, hand, call, table, ends, server, served>>

\* ... while it is queued or written, so that the stream is not to be trusted ...
ExpireWrite(s) ==
    /\ \/ at[s] = "enqueue" /\ WritesFull
       \/ at[s] = "written" /\ done[s] = None
    /\ Fail(s, "timeout")
    /\ UNCHANGED <<n, kind, hand, call, table, ends, server, served>>

CancelQueued == failure = None /\ ~stop /\ ~WritesFull

\* Variant: the request stays in the table.
ExpireAnswerOnly(s) ==
    /\ at[s] = "answer"
    /\ writes' = IF CancelQueued THEN Append(writes, [kind |-> "cancel", op |-> Cur(s)]) ELSE writes
    /\ End(s, "raised")
    /\ UNCHANGED <<pending, fail, ends, server, served>>

\* ... or while the response is awaited: the request is cancelled if there is room.
ExpireAnswer(s) ==
    /\ at[s] = "answer"
    /\ writes' = IF CancelQueued THEN Append(writes, [kind |-> "cancel", op |-> Cur(s)]) ELSE writes
    /\ Raise(s)
    /\ UNCHANGED <<fail, ends, server, served>>

Expire(s) == ExpireSend(s) \/ ExpireWrite(s) \/ ExpireAnswer(s)

-----------------------------------------------------------------------------
(* The rest of _set_failure, for whichever thread ran it first.            *)

\* _complete_write: the first completion of a frame counts.
Completed(os, outcome) ==
    [s \in Senders |-> IF Cur(s) \in os /\ call[Cur(s)] = "open" /\ done[s] = None
                       THEN outcome ELSE done[s]]

\* Variant: the waiters go on as if their frames were written.
NoError == "ok"
Woken == "error"

\* The waiters found in the locked region get their error, then those in the
\* table of pending requests.
WakeAll(t) ==
    /\ at[t] = "wake"
    /\ done' = Completed(victims, Woken)
    /\ box' = [s \in Senders |-> IF Cur(s) \in pending THEN "error" ELSE box[s]]
    /\ victims' = {} /\ pending' = {}
    /\ Goto(t, After(t, failure))
    /\ UNCHANGED <<n, kind, hand, call, writes, waiters, failure, ends, server, served>>

\* _terminate_process_group; then a call that timed out raises, and close()
\* stops the threads.
Kill(t) ==
    /\ at[t] = "kill"
    /\ Exits
    /\ IF t = Owner /\ leaving = "closing"
       THEN /\ leaving' = "gone" /\ stop' = TRUE
            /\ Goto(t, "idle")
            /\ UNCHANGED <<n, kind, hand, call, table>>
       ELSE Raise(t) /\ UNCHANGED <<leaving, stop>>
    /\ UNCHANGED <<writes, fail, expecting, inbound, asks, served>>

-----------------------------------------------------------------------------
(* The threads of the client.                                              *)

TakeJob ==
    /\ at[Writer] = "get" /\ ~stop /\ writes # <<>>
    /\ hand' = Head(writes) /\ writes' = Tail(writes)
    /\ Goto(Writer, "check")
    /\ UNCHANGED <<n, kind, call, table, fail, ends, server, served>>

WriteNow ==
    /\ stdin' = Append(stdin, hand)
    /\ served' = IF hand.kind \in {"request", "cancel"} THEN served ELSE served \cup {hand.op}
    /\ Goto(Writer, "wrote")
    /\ UNCHANGED <<fail, writes>>

\* The failure is checked once; then the write blocks while the pipe is full.
Write ==
    /\ \/ /\ at[Writer] = "check" /\ failure # None
          /\ Goto(Writer, "complete")
          /\ UNCHANGED <<fail, writes, stdin, served>>
       \/ /\ at[Writer] = "check" /\ failure = None
          /\ process = "running" /\ Len(stdin) >= StdinLimit
          /\ Goto(Writer, "blocked")
          /\ UNCHANGED <<fail, writes, stdin, served>>
       \/ /\ at[Writer] = "blocked" \/ (at[Writer] = "check" /\ failure = None)
          /\ \/ process = "running" /\ Len(stdin) < StdinLimit /\ WriteNow
             \/ process = "exited" /\ Fail(Writer, "exited") /\ UNCHANGED <<stdin, served>>
    /\ UNCHANGED <<n, kind, hand, call, table, ends, process, inbound, known, asks>>

\* A cancel frame completes nobody.
CompleteWrite ==
    /\ at[Writer] \in {"wrote", "complete"}
    /\ done' = IF hand.kind = "cancel" THEN done
               ELSE Completed({hand.op}, IF at[Writer] = "wrote" THEN "ok" ELSE "error")
    /\ hand' = None
    /\ Goto(Writer, IF at[Writer] = "wrote" THEN "get" ELSE "returned")
    /\ UNCHANGED <<n, kind, call, writes, waiters, pending, box, fail, ends, server, served>>

\* A response nobody waits for any more is dropped.
Dispatch ==
    /\ at[Dispatcher] = "get" /\ ~stop /\ inbound # <<>>
    /\ inbound' = Tail(inbound)
    /\ LET m == Head(inbound) IN
       \/ /\ m.type = "answer"
          /\ box' = IF m.op \in pending THEN [box EXCEPT ![m.op[1]] = "answer"] ELSE box
          /\ pending' = pending \ {m.op}
          /\ UNCHANGED <<thread, waiters, done, writes, fail>>
       \/ /\ m.type = "ask"
          /\ Begin(m.op, "reply")
          /\ UNCHANGED <<hand, table, writes, fail>>
       \/ /\ m.type = "malformed"
          /\ Fail(Dispatcher, "fault")
          /\ UNCHANGED <<n, kind, hand, call, table>>
    /\ UNCHANGED <<ends, process, stdin, known, asks, served>>

\* The end of the stream: expected after the exit notification, else a failure.
EndOfStream == IF expecting THEN Goto(Dispatcher, "returned") /\ UNCHANGED <<fail, writes>>
               ELSE Fail(Dispatcher, "exited")

DispatchEnd ==
    /\ at[Dispatcher] = "get" /\ ~stop /\ inbound = <<>> /\ process = "exited"
    /\ EndOfStream
    /\ UNCHANGED <<n, kind, hand, call, table, ends, server, served>>

Stops(t) ==
    /\ stop
    /\ at[t] = "get"
    /\ Goto(t, "returned")
    /\ UNCHANGED <<n, kind, hand, call, writes, table, fail, ends, server, served>>

-----------------------------------------------------------------------------
(* Leaving the client: __exit__, shutdown and close.                       *)

Leave ==
    /\ at[Owner] = "idle" /\ leaving = "no"
    /\ \/ leaving' = "closing" /\ Fail(Owner, "closed")
       \/ Started /\ leaving' = "shutdown" /\ UNCHANGED <<at, fail, writes>>
    /\ UNCHANGED <<n, kind, hand, call, table, stop, expecting, server, served>>

\* The shutdown request, unless the server is gone by now.
Shutdown ==
    /\ at[Owner] = "idle" /\ leaving = "shutdown" /\ n[Owner] = 0
    /\ \/ Started /\ Begin(Following(Owner), "request") /\ UNCHANGED leaving
       \/ ~Started /\ leaving' = "finish" /\ UNCHANGED <<at, n, kind, call>>
    /\ UNCHANGED <<hand, writes, table, fail, stop, expecting, server, served>>

ShutdownAnswered ==
    /\ at[Owner] = "idle" /\ leaving = "shutdown" /\ n[Owner] = 1
    /\ IF call[Cur(Owner)] = "returned"
       THEN leaving' = "exit" /\ expecting' = TRUE
       ELSE leaving' = "abort" /\ UNCHANGED expecting
    /\ UNCHANGED <<thread, writes, table, fail, stop, server, served>>

NotifyExit ==
    /\ at[Owner] = "idle" /\ leaving = "exit" /\ n[Owner] = 1
    /\ \/ Started /\ Begin(Following(Owner), "exit") /\ UNCHANGED leaving
       \/ ~Started /\ leaving' = "abort" /\ UNCHANGED <<at, n, kind, call>>
    /\ UNCHANGED <<hand, writes, table, fail, stop, expecting, server, served>>

ExitNotified ==
    /\ at[Owner] = "idle" /\ leaving = "exit" /\ n[Owner] = 2
    /\ leaving' = IF call[Cur(Owner)] = "returned" THEN "finish" ELSE "abort"
    /\ UNCHANGED <<thread, writes, table, fail, stop, expecting, server, served>>

\* Variant: the threads are not told to stop.
FinishUnstopped ==
    /\ leaving = "finish"
    /\ Exits /\ leaving' = "gone"
    /\ UNCHANGED <<thread, writes, table, fail, stop, expecting, inbound, asks, served>>

\* The process exited, or it is terminated after a grace period.
Finish ==
    /\ leaving = "finish"
    /\ Exits /\ leaving' = "gone" /\ stop' = TRUE
    /\ UNCHANGED <<thread, writes, table, fail, expecting, inbound, asks, served>>

\* A shutdown that raised still ends the process and the threads; then close().
Abort ==
    /\ leaving = "abort"
    /\ Exits /\ leaving' = "closing" /\ stop' = TRUE
    /\ Fail(Owner, "closed")
    /\ UNCHANGED <<n, kind, hand, call, table, expecting, inbound, asks, served>>

-----------------------------------------------------------------------------
(* The language server: any program that speaks the protocol.              *)

Receive ==
    /\ process = "running" /\ stdin # <<>>
    /\ LET j == Head(stdin) IN
       \/ /\ j.kind = "exit"
          /\ Exits
       \/ /\ j.kind # "exit"
          /\ stdin' = Tail(stdin)
          /\ known' \in IF j.kind = "request" THEN {known \cup {j.op}}
                        ELSE IF j.kind = "cancel" THEN {known, known \ {j.op}} ELSE {known}
          /\ UNCHANGED process
    /\ UNCHANGED <<thread, writes, table, fail, ends, inbound, asks, served>>

Respond(o) ==
    /\ process = "running" /\ o \in known /\ Len(inbound) < InboundLimit
    /\ inbound' = Append(inbound, [type |-> "answer", op |-> o])
    /\ known' = known \ {o}
    /\ served' = served \cup {o}
    /\ UNCHANGED <<thread, writes, table, fail, ends, process, stdin, asks>>

Ask ==
    /\ process = "running" /\ asks < MaxAsks /\ Len(inbound) < InboundLimit
    /\ \E t \in {"ask", "malformed"} :
          inbound' = Append(inbound, [type |-> t, op |-> <<Dispatcher, asks + 1>>])
    /\ asks' = asks + 1
    /\ UNCHANGED <<thread, writes, table, fail, ends, process, stdin, known, served>>

Die ==
    /\ process = "running"
    /\ Exits
    /\ UNCHANGED <<thread, writes, table, fail, ends, inbound, asks, served>>

-----------------------------------------------------------------------------
CallStep(s) == \/ Register(s) \/ Send(s) \/ Enqueue(s) \/ AwaitWrite(s) \/ AwaitAnswer(s)
               \/ Kill(s)

OwnerStep == Shutdown \/ ShutdownAnswered \/ NotifyExit \/ ExitNotified \/ Finish \/ Abort

\* What the threads do once they are started, deadlines aside.
Client ==
    \/ \E s \in Senders : CallStep(s)
    \/ \E t \in Threads : WakeAll(t)
    \/ TakeJob \/ Write \/ CompleteWrite \/ Dispatch \/ DispatchEnd
    \/ \E t \in {Writer, Dispatcher} : Stops(t)
    \/ OwnerStep

Deadlines == \E s \in Senders : Expire(s)

Server == Receive \/ (\E o \in Ops : Respond(o)) \/ Ask \/ Die

Next == Client \/ Deadlines \/ Server \/ Leave \/ \E c \in Callers : Call(c)

Spec == Init /\ [][Next]_vars

\* The threads are scheduled; the server and the users owe nothing.
FairSpec == Spec /\ WF_vars(Client)

-----------------------------------------------------------------------------
(* Properties.                                                             *)

SendSteps == {"send", "enqueue", "written"}
FailSteps == {"wake", "kill"}
UserSteps == SendSteps \cup FailSteps \cup {"idle", "register", "answer"}
DispatcherSteps == SendSteps \cup FailSteps \cup {"get", "returned"}
WriterSteps == {"get", "check", "blocked", "wrote", "wake", "complete", "returned"}

TypeOK ==
    /\ at \in [Threads -> UserSteps \cup DispatcherSteps \cup WriterSteps]
    /\ \A c \in Users : at[c] \in UserSteps
    /\ at[Dispatcher] \in DispatcherSteps /\ at[Writer] \in WriterSteps
    /\ n \in [Senders -> Nat] /\ \A s \in Senders : n[s] <= Limit(s)
    /\ kind \in [Senders -> Kinds] /\ kind[Dispatcher] # "request"
    /\ done \in [Senders -> {None, "ok", "error"}]
    /\ box \in [Senders -> {None, "answer", "error"}]
    /\ waiters \subseteq Ops /\ pending \subseteq Ops /\ victims \subseteq Ops
    /\ writes \in Seq(Job) /\ Len(writes) <= WriteLimit
    /\ hand \in Job \cup {None}
    /\ failure \in {None, "timeout", "exited", "fault", "closed"}
    /\ inbound \in Seq(Message) /\ Len(inbound) <= InboundLimit
    /\ stop \in BOOLEAN /\ expecting \in BOOLEAN
    /\ leaving \in {"no", "shutdown", "exit", "finish", "abort", "closing", "gone"}
    /\ process \in {"running", "exited"}
    /\ stdin \in Seq(Job)
    /\ known \subseteq Ops /\ asks \in 0..MaxAsks
    /\ call \in [Ops -> {"unused", "open", "returned", "raised"}]
    /\ served \subseteq Ops

\* The threads keep what the contract of the client's calls promises.
UserOps == {o \in Ops : o[1] \in Users}
Contract == INSTANCE CallContract WITH
                Ops <- UserOps, call <- [o \in UserOps |-> call[o]],
                served <- served \cap UserOps, broken <- (failure # None)
KeepsContract == Contract!Spec

\* No call sleeps through a failure: once the failing thread has told the others,
\* each thread that waits for its frame or its response has an outcome to find,
\* no matter how its registration and the failure interleaved, and no frame is
\* queued for a writer that will not write it.
Spread == failure # None /\ \A t \in Threads : at[t] # "wake"
FailureReachesAll ==
    Spread => /\ writes = <<>>
              /\ \A s \in Senders : /\ at[s] = "written" => done[s] # None
                                    /\ at[s] = "answer" => box[s] # None

\* No entry of the table of pending requests outlives its request.
PendingIsLive ==
    \A o \in pending : o = Cur(o[1]) /\ at[o[1]] \in SendSteps \cup FailSteps \cup {"answer"}

\* Whatever the server does or leaves undone, with all queues and pipes full,
\* every call ends by its deadline.
EveryCallEnds ==
    WF_vars(Deadlines) => \A o \in Ops : (call[o] = "open") ~> (call[o] # "open")

\* A client that was left has no thread running.
ThreadsEnd ==
    WF_vars(Deadlines) =>
        ((leaving = "gone") ~> \A t \in {Writer, Dispatcher} : at[t] = "returned")
=============================================================================
