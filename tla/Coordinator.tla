---------------------------- MODULE Coordinator ----------------------------
(***************************************************************************)
(* The threads of the coordinator service of server.cpp: the acceptor, a   *)
(* reader and a worker for each session, the reaper that tears everything  *)
(* down, and the thread that calls stop().                                 *)
(*                                                                         *)
(* A step is what a thread does between two points where another thread    *)
(* can get in: a critical section under Session::mutex, a system call, one *)
(* access of the atomic `stopping`, one notify.  A condition variable wait *)
(* is three steps: the predicate is tested under the mutex, the thread     *)
(* parks and releases the mutex, a notify makes it test again.  A notify   *)
(* that finds nobody parked is lost, which is what the C++ semantics say.  *)
(*                                                                         *)
(* What handle_frame does with a frame is abstracted to its effect on the  *)
(* threads: it answers, its answer cannot be written, or it asks for       *)
(* shutdown.                                                               *)
(***************************************************************************)
EXTENDS Naturals, Sequences, FiniteSets

CONSTANTS
    Clients,      \* connections that may arrive
    MaxSessions,  \* ServerConfig::max_sessions
    QueueDepth,   \* ServerConfig::max_queue_depth
    MaxFrames,    \* bound: frames one client sends
    SendTypes,    \* the kinds of frame clients send
    Main,         \* the thread that calls start() and stop()
    Nobody

\* req is answered, stop is an accepted kShutdownRequest, bad fails to decode,
\* part is the beginning of a frame that never gets its end.
FrameTypes == {"req", "stop", "bad", "part"}

ASSUME CoordinatorAssumption ==
    /\ IsFiniteSet(Clients)
    /\ MaxSessions \in Nat
    /\ QueueDepth \in Nat \ {0}
    /\ MaxFrames \in Nat
    /\ SendTypes \subseteq FrameTypes
    /\ Main \notin Clients
    /\ Nobody \notin Clients \cup {Main}

VARIABLES
    \* the network, as the clients drive it
    conn,        \* idle, pending, served, refused, dropped
    sent,        \* how many frames the client has sent
    wire,        \* frames sent and not read yet
    closed,      \* the client closed its end
    down,        \* the coordinator shut the socket down
    \* Coordinator::Impl
    stopping,
    stopCaller,  \* who won stopping.exchange(true)
    stopStep,    \* how far request_stop has got
    acceptor,
    acceptorWake,
    sessions,    \* Impl::sessions
    reaper,
    main,
    storeOpen,
    \* Session
    mutex,
    inbox,
    readerDone,
    wakeup,
    reader,
    worker,
    inHand,      \* the frame the reader has read / the worker is handling
    handled      \* ghost: how many frames the worker has finished with

network == <<conn, sent, wire, closed, down>>
stopVars == <<stopping, stopCaller, stopStep>>
service == <<acceptor, acceptorWake, sessions, reaper, main, storeOpen>>
session == <<mutex, inbox, readerDone, wakeup, reader, worker, inHand, handled>>
vars == <<network, stopVars, service, session>>

Frame == [n : 1 .. MaxFrames, type : FrameTypes]
NoFrame == [n |-> 0, type |-> "req"]

ReaderPCs == {"none", "top", "select", "read", "lock", "park", "parked",
              "notify", "reject", "leave", "notify_all", "release", "done"}
WorkerPCs == {"none", "lock", "park", "parked", "notify", "handle", "settle",
              "failed", "shutdown", "check", "request", "stopping", "leave", "done"}

NetworkOK ==
    /\ conn \in [Clients -> {"idle", "pending", "served", "refused", "dropped"}]
    /\ sent \in [Clients -> 0 .. MaxFrames]
    /\ wire \in [Clients -> Seq(Frame)]
    /\ closed \in [Clients -> BOOLEAN]
    /\ down \in [Clients -> BOOLEAN]

StopOK ==
    /\ stopping \in BOOLEAN
    /\ stopCaller \in Clients \cup {Main, Nobody}
    /\ stopStep \in {"none", "signal", "notify", "done"}

ServiceOK ==
    /\ acceptor \in {"none", "top", "select", "accept", "done"}
    /\ acceptorWake \in BOOLEAN
    /\ sessions \in SUBSET Clients
    /\ reaper \in {"none", "check", "park", "parked", "join_acceptor", "retire",
                   "join_readers", "notify", "join_workers", "close", "done"}
    /\ main \in {"new", "running", "request", "join", "returned"}
    /\ storeOpen \in BOOLEAN

SessionOK ==
    /\ mutex \in [Clients -> {"free", "reader", "worker"}]
    /\ inbox \in [Clients -> Seq(Frame)]
    /\ readerDone \in [Clients -> BOOLEAN]
    /\ wakeup \in [Clients -> BOOLEAN]
    /\ reader \in [Clients -> ReaderPCs]
    /\ worker \in [Clients -> WorkerPCs]
    /\ inHand \in [Clients -> [reader : Frame \cup {NoFrame},
                               worker : Frame \cup {NoFrame}]]
    /\ handled \in [Clients -> 0 .. MaxFrames]

TypeOK == NetworkOK /\ StopOK /\ ServiceOK /\ SessionOK

Init ==
    /\ conn = [c \in Clients |-> "idle"]
    /\ sent = [c \in Clients |-> 0]
    /\ wire = [c \in Clients |-> <<>>]
    /\ closed = [c \in Clients |-> FALSE]
    /\ down = [c \in Clients |-> FALSE]
    /\ stopping = FALSE
    /\ stopCaller = Nobody
    /\ stopStep = "none"
    /\ acceptor = "none"
    /\ acceptorWake = FALSE
    /\ sessions = {}
    /\ reaper = "none"
    /\ main = "new"
    /\ storeOpen = FALSE
    /\ mutex = [c \in Clients |-> "free"]
    /\ inbox = [c \in Clients |-> <<>>]
    /\ readerDone = [c \in Clients |-> FALSE]
    /\ wakeup = [c \in Clients |-> FALSE]
    /\ reader = [c \in Clients |-> "none"]
    /\ worker = [c \in Clients |-> "none"]
    /\ inHand = [c \in Clients |-> [reader |-> NoFrame, worker |-> NoFrame]]
    /\ handled = [c \in Clients |-> 0]

-----------------------------------------------------------------------------
(* External: the clients, which connect, send and close as they please.    *)
(* Nothing looks at a connection before it is accepted, so what a client   *)
(* does before that is taken to happen just after.                         *)


Connect(c) ==
    /\ conn[c] = "idle"
    /\ acceptor # "none"
    /\ conn' = [conn EXCEPT ![c] = "pending"]
    /\ UNCHANGED <<sent, wire, closed, down, stopVars, service, session>>

Send(c, type) ==
    /\ conn[c] = "served"
    /\ ~closed[c] /\ ~down[c]
    /\ sent[c] < MaxFrames
    /\ wire[c] # <<>> => wire[c][Len(wire[c])].type \notin {"bad", "part"}
    /\ sent' = [sent EXCEPT ![c] = @ + 1]
    /\ wire' = [wire EXCEPT ![c] = Append(@, [n |-> sent'[c], type |-> type])]
    /\ UNCHANGED <<conn, closed, down, stopVars, service, session>>

ClientClose(c) ==
    /\ conn[c] = "served"
    /\ ~closed[c]
    /\ closed' = [closed EXCEPT ![c] = TRUE]
    /\ UNCHANGED <<conn, sent, wire, down, stopVars, service, session>>

-----------------------------------------------------------------------------
(* start(), stop() and request_stop() *)

Start ==
    /\ main = "new"
    /\ main' = "running"
    /\ storeOpen' = TRUE
    /\ acceptor' = "top"
    /\ reaper' = "check"
    /\ UNCHANGED <<acceptorWake, sessions, network, stopVars, session>>

\* stopping.exchange(true): only the caller that flips it goes on to signal.
Exchange(who) ==
    IF stopping
    THEN UNCHANGED stopVars
    ELSE /\ stopping' = TRUE
         /\ stopCaller' = who
         /\ stopStep' = "signal"

StopCall ==
    /\ main = "running"
    /\ Exchange(Main)
    /\ main' = "request"
    /\ UNCHANGED <<acceptor, acceptorWake, sessions, reaper, storeOpen, network, session>>

StopSignal ==
    /\ stopStep = "signal"
    /\ stopStep' = "notify"
    /\ acceptorWake' = TRUE
    /\ UNCHANGED <<stopping, stopCaller, acceptor, sessions, reaper, main, storeOpen,
                   network, session>>

\* state_changed.notify_all(), without state_mutex.
StopNotify ==
    /\ stopStep = "notify"
    /\ stopStep' = "done"
    /\ reaper' = IF reaper = "parked" THEN "check" ELSE reaper
    /\ UNCHANGED <<stopping, stopCaller, acceptor, acceptorWake, sessions, main,
                   storeOpen, network, session>>

\* Main is back from request_stop and joins the reaper.
StopJoin ==
    /\ \/ main = "request" /\ (stopCaller = Main => stopStep = "done") /\ main' = "join"
       \/ main = "join" /\ reaper = "done" /\ main' = "returned"
    /\ UNCHANGED <<acceptor, acceptorWake, sessions, reaper, storeOpen, network,
                   stopVars, session>>

-----------------------------------------------------------------------------
(* accept_loop() *)

AcceptTop ==
    /\ acceptor = "top"
    /\ acceptor' = IF stopping THEN "done" ELSE "select"
    /\ UNCHANGED <<acceptorWake, sessions, reaper, main, storeOpen, network, stopVars, session>>

\* wait_readable prefers the wake-up socket, which is drained.
AcceptSelect ==
    /\ acceptor = "select"
    /\ \/ acceptorWake /\ acceptorWake' = FALSE /\ acceptor' = "top"
       \/ /\ ~acceptorWake
          /\ \E c \in Clients : conn[c] = "pending"
          /\ acceptor' = "accept"
          /\ UNCHANGED acceptorWake
    /\ UNCHANGED <<sessions, reaper, main, storeOpen, network, stopVars, session>>

Admits == Cardinality(sessions) < MaxSessions /\ ~stopping

Accept(c) ==
    /\ acceptor = "accept"
    /\ conn[c] = "pending"
    /\ acceptor' = "top"
    /\ \/ /\ Admits
          /\ sessions' = sessions \cup {c}
          /\ conn' = [conn EXCEPT ![c] = "served"]
          /\ reader' = [reader EXCEPT ![c] = "top"]
          /\ worker' = [worker EXCEPT ![c] = "lock"]
          /\ UNCHANGED down
       \/ /\ ~Admits
          /\ conn' = [conn EXCEPT ![c] = "refused"]
          /\ down' = [down EXCEPT ![c] = TRUE]
          /\ UNCHANGED <<sessions, reader, worker>>
       \/ \* accept() or the wake-up pair fails
          /\ conn' = [conn EXCEPT ![c] = "dropped"]
          /\ down' = [down EXCEPT ![c] = TRUE]
          /\ UNCHANGED <<sessions, reader, worker>>
    /\ UNCHANGED <<acceptorWake, reaper, main, storeOpen, sent, wire, closed, stopVars,
                   mutex, inbox, readerDone, wakeup, inHand, handled>>

-----------------------------------------------------------------------------
(* Condition variables of a session: only its reader ever waits on         *)
(* not_full, and only its worker on not_empty.                             *)

WakeReader(c) == IF reader[c] = "parked" THEN "lock" ELSE reader[c]
WakeWorker(c) == IF worker[c] = "parked" THEN "lock" ELSE worker[c]

-----------------------------------------------------------------------------
(* reader_loop() *)

ReaderTop(c) ==
    /\ reader[c] = "top"
    /\ reader' = [reader EXCEPT ![c] = IF stopping THEN "leave" ELSE "select"]
    /\ UNCHANGED <<mutex, inbox, readerDone, wakeup, worker, inHand, handled,
                   network, stopVars, service>>

ReaderSelect(c) ==
    /\ reader[c] = "select"
    /\ \/ /\ wakeup[c]
          /\ wakeup' = [wakeup EXCEPT ![c] = FALSE]
          /\ reader' = [reader EXCEPT ![c] = "top"]
       \/ /\ ~wakeup[c]
          /\ wire[c] # <<>> \/ closed[c] \/ down[c]
          /\ reader' = [reader EXCEPT ![c] = "read"]
          /\ UNCHANGED wakeup
    /\ UNCHANGED <<mutex, inbox, readerDone, worker, inHand, handled,
                   network, stopVars, service>>

\* read_frame(): it blocks until the frame is whole or the stream has ended.
\* After a reset the frames that were still unread are gone.
ReaderRead(c) ==
    /\ reader[c] = "read"
    /\ \/ /\ wire[c] # <<>>
          /\ Head(wire[c]).type # "part"
          /\ wire' = [wire EXCEPT ![c] = Tail(@)]
          /\ inHand' = [inHand EXCEPT ![c].reader = Head(wire[c])]
          /\ reader' = [reader EXCEPT ![c] =
                            IF Head(wire[c]).type = "bad" THEN "reject" ELSE "lock"]
       \/ /\ \/ closed[c]
             \/ down[c] /\ (wire[c] # <<>> => Head(wire[c]).type = "part")
          /\ reader' = [reader EXCEPT ![c] = "leave"]
          /\ UNCHANGED <<wire, inHand>>
    /\ UNCHANGED <<mutex, inbox, readerDone, wakeup, worker, handled,
                   conn, sent, closed, down, stopVars, service>>

\* A frame that fails to decode is answered by the reader itself.
ReaderReject(c) ==
    /\ reader[c] = "reject"
    /\ reader' = [reader EXCEPT ![c] = "leave"]
    /\ inHand' = [inHand EXCEPT ![c].reader = NoFrame]
    /\ UNCHANGED <<mutex, inbox, readerDone, wakeup, worker, handled,
                   network, stopVars, service>>

\* Mutated form: the predicate lets one frame too many in.
HasRoomForOneMore(c) == Len(inbox[c]) <= QueueDepth

HasRoom(c) == Len(inbox[c]) < QueueDepth

\* Mutated form: what is pushed is the frame the moved-from object is left with.
EnqueueMovedFrom(c) == Append(inbox[c], NoFrame)

Enqueue(c) == Append(inbox[c], inHand[c].reader)

\* The critical section that waits on not_full and pushes the frame.
ReaderLock(c) ==
    /\ reader[c] = "lock"
    /\ mutex[c] = "free"
    /\ \/ /\ ~HasRoom(c) /\ ~stopping
          /\ mutex' = [mutex EXCEPT ![c] = "reader"]
          /\ reader' = [reader EXCEPT ![c] = "park"]
          /\ UNCHANGED <<inbox, inHand>>
       \/ /\ stopping
          /\ reader' = [reader EXCEPT ![c] = "leave"]
          /\ inHand' = [inHand EXCEPT ![c].reader = NoFrame]
          /\ UNCHANGED <<inbox, mutex>>
       \/ /\ HasRoom(c) /\ ~stopping
          /\ inbox' = [inbox EXCEPT ![c] = Enqueue(c)]
          /\ inHand' = [inHand EXCEPT ![c].reader = NoFrame]
          /\ reader' = [reader EXCEPT ![c] = "notify"]
          /\ UNCHANGED mutex
    /\ UNCHANGED <<readerDone, wakeup, worker, handled, network, stopVars, service>>

ReaderPark(c) ==
    /\ reader[c] = "park"
    /\ mutex' = [mutex EXCEPT ![c] = "free"]
    /\ reader' = [reader EXCEPT ![c] = "parked"]
    /\ UNCHANGED <<inbox, readerDone, wakeup, worker, inHand, handled,
                   network, stopVars, service>>

ReaderNotify(c) ==
    /\ reader[c] = "notify"
    /\ worker' = [worker EXCEPT ![c] = WakeWorker(c)]
    /\ reader' = [reader EXCEPT ![c] = "top"]
    /\ UNCHANGED <<mutex, inbox, readerDone, wakeup, inHand, handled,
                   network, stopVars, service>>

ReaderLeave(c) ==
    /\ reader[c] = "leave"
    /\ mutex[c] = "free"
    /\ readerDone' = [readerDone EXCEPT ![c] = TRUE]
    /\ reader' = [reader EXCEPT ![c] = "notify_all"]
    /\ UNCHANGED <<mutex, inbox, wakeup, worker, inHand, handled,
                   network, stopVars, service>>

\* Mutated form: the worker is not told that the reader is gone.
ReaderNotifyAllNobody(c) ==
    /\ reader[c] = "notify_all"
    /\ reader' = [reader EXCEPT ![c] = "release"]
    /\ UNCHANGED <<mutex, inbox, readerDone, wakeup, worker, inHand, handled,
                   network, stopVars, service>>

ReaderNotifyAll(c) ==
    /\ reader[c] = "notify_all"
    /\ worker' = [worker EXCEPT ![c] = WakeWorker(c)]
    /\ reader' = [reader EXCEPT ![c] = "release"]
    /\ UNCHANGED <<mutex, inbox, readerDone, wakeup, inHand, handled,
                   network, stopVars, service>>

\* Unless the service is stopping, the peer is released at once.
ReaderRelease(c) ==
    /\ reader[c] = "release"
    /\ down' = [down EXCEPT ![c] = @ \/ ~stopping]
    /\ reader' = [reader EXCEPT ![c] = "done"]
    /\ UNCHANGED <<mutex, inbox, readerDone, wakeup, worker, inHand, handled,
                   conn, sent, wire, closed, stopVars, service>>

Reader(c) ==
    \/ ReaderTop(c) \/ ReaderSelect(c) \/ ReaderRead(c) \/ ReaderReject(c)
    \/ ReaderLock(c) \/ ReaderPark(c) \/ ReaderNotify(c)
    \/ ReaderLeave(c) \/ ReaderNotifyAll(c) \/ ReaderRelease(c)

-----------------------------------------------------------------------------
(* worker_loop() *)

\* Mutated form: the frame is read and stays at the head of the queue.
DequeueNothing(c) == inbox[c]

Dequeue(c) == Tail(inbox[c])

\* The critical section that waits on not_empty and pops a frame.
WorkerLock(c) ==
    /\ worker[c] = "lock"
    /\ mutex[c] = "free"
    /\ \/ /\ inbox[c] = <<>> /\ ~readerDone[c] /\ ~stopping
          /\ mutex' = [mutex EXCEPT ![c] = "worker"]
          /\ worker' = [worker EXCEPT ![c] = "park"]
          /\ UNCHANGED <<inbox, inHand>>
       \/ /\ inbox[c] = <<>> /\ (readerDone[c] \/ stopping)
          /\ worker' = [worker EXCEPT ![c] = "leave"]
          /\ UNCHANGED <<inbox, inHand, mutex>>
       \/ /\ inbox[c] # <<>>
          /\ inbox' = [inbox EXCEPT ![c] = Dequeue(c)]
          /\ inHand' = [inHand EXCEPT ![c].worker = Head(inbox[c])]
          /\ worker' = [worker EXCEPT ![c] = "notify"]
          /\ UNCHANGED mutex
    /\ UNCHANGED <<readerDone, wakeup, reader, handled, network, stopVars, service>>

WorkerPark(c) ==
    /\ worker[c] = "park"
    /\ mutex' = [mutex EXCEPT ![c] = "free"]
    /\ worker' = [worker EXCEPT ![c] = "parked"]
    /\ UNCHANGED <<inbox, readerDone, wakeup, reader, inHand, handled,
                   network, stopVars, service>>

\* Mutated form: the reader that waits for room is not told.
WorkerNotifyNobody(c) ==
    /\ worker[c] = "notify"
    /\ worker' = [worker EXCEPT ![c] = "handle"]
    /\ UNCHANGED <<mutex, inbox, readerDone, wakeup, reader, inHand, handled,
                   network, stopVars, service>>

WorkerNotify(c) ==
    /\ worker[c] = "notify"
    /\ reader' = [reader EXCEPT ![c] = WakeReader(c)]
    /\ worker' = [worker EXCEPT ![c] = "handle"]
    /\ UNCHANGED <<mutex, inbox, readerDone, wakeup, inHand, handled,
                   network, stopVars, service>>

\* handle_frame(): its answer is written unless the socket is shut down or the
\* client has gone; a shutdown is only requested once its answer is written.
WorkerHandle(c) ==
    /\ worker[c] = "handle"
    /\ \/ /\ ~down[c]
          /\ worker' = [worker EXCEPT ![c] =
                IF inHand[c].worker.type = "stop" THEN "shutdown" ELSE "settle"]
       \/ /\ down[c] \/ closed[c]
          /\ worker' = [worker EXCEPT ![c] = "failed"]
    /\ handled' = [handled EXCEPT ![c] = inHand[c].worker.n]
    /\ UNCHANGED <<mutex, inbox, readerDone, wakeup, reader, inHand,
                   network, stopVars, service>>

\* in_flight is decremented under the mutex.
WorkerSettle(c) ==
    /\ worker[c] \in {"settle", "failed", "shutdown"}
    /\ mutex[c] = "free"
    /\ inHand' = [inHand EXCEPT ![c].worker = NoFrame]
    /\ worker' = [worker EXCEPT ![c] = CASE @ = "shutdown" -> "request"
                                         [] @ = "failed" -> "leave"
                                         [] OTHER -> "check"]
    /\ UNCHANGED <<mutex, inbox, readerDone, wakeup, reader, handled,
                   network, stopVars, service>>

WorkerCheck(c) ==
    /\ \/ /\ worker[c] = "check"
          /\ worker' = [worker EXCEPT ![c] = IF stopping THEN "leave" ELSE "lock"]
          /\ UNCHANGED stopVars
       \/ /\ worker[c] = "request"
          /\ worker' = [worker EXCEPT ![c] = "stopping"]
          /\ Exchange(c)
    /\ UNCHANGED <<mutex, inbox, readerDone, wakeup, reader, inHand, handled,
                   network, service>>

\* request_stop() returns to the worker that asked for shutdown.
WorkerStopped(c) ==
    /\ worker[c] = "stopping"
    /\ stopCaller = c => stopStep = "done"
    /\ worker' = [worker EXCEPT ![c] = "leave"]
    /\ UNCHANGED <<mutex, inbox, readerDone, wakeup, reader, inHand, handled,
                   network, stopVars, service>>

WorkerLeave(c) ==
    /\ worker[c] = "leave"
    /\ reader' = [reader EXCEPT ![c] = WakeReader(c)]
    /\ worker' = [worker EXCEPT ![c] = "done"]
    /\ UNCHANGED <<mutex, inbox, readerDone, wakeup, inHand, handled,
                   network, stopVars, service>>

Worker(c) ==
    \/ WorkerLock(c) \/ WorkerPark(c) \/ WorkerNotify(c)
    \/ WorkerHandle(c) \/ WorkerSettle(c) \/ WorkerCheck(c)
    \/ WorkerStopped(c) \/ WorkerLeave(c)

-----------------------------------------------------------------------------
(* run_reaper() and teardown() *)

ReaperWait ==
    /\ \/ reaper = "check" /\ reaper' = IF stopping THEN "join_acceptor" ELSE "park"
       \/ reaper = "park" /\ reaper' = "parked"
    /\ UNCHANGED <<acceptor, acceptorWake, sessions, main, storeOpen,
                   network, stopVars, session>>

JoinAcceptor ==
    /\ reaper = "join_acceptor"
    /\ acceptor = "done"
    /\ reaper' = "retire"
    /\ UNCHANGED <<acceptor, acceptorWake, sessions, main, storeOpen,
                   network, stopVars, session>>

\* Mutated form: the sockets are not shut down.
RetireWithoutShutdown ==
    /\ reaper = "retire"
    /\ reaper' = "join_readers"
    /\ wakeup' = [c \in Clients |-> wakeup[c] \/ c \in sessions]
    /\ UNCHANGED <<acceptor, acceptorWake, sessions, main, storeOpen, network, stopVars,
                   mutex, inbox, readerDone, reader, worker, inHand, handled>>

Retire ==
    /\ reaper = "retire"
    /\ reaper' = "join_readers"
    /\ wakeup' = [c \in Clients |-> wakeup[c] \/ c \in sessions]
    /\ down' = [c \in Clients |-> down[c] \/ c \in sessions]
    /\ UNCHANGED <<acceptor, acceptorWake, sessions, main, storeOpen,
                   conn, sent, wire, closed, stopVars,
                   mutex, inbox, readerDone, reader, worker, inHand, handled>>

JoinReaders ==
    /\ reaper = "join_readers"
    /\ \A c \in sessions : reader[c] = "done"
    /\ reaper' = "notify"
    /\ UNCHANGED <<acceptor, acceptorWake, sessions, main, storeOpen,
                   network, stopVars, session>>

NotifySessions ==
    /\ reaper = "notify"
    /\ reaper' = "join_workers"
    /\ worker' = [c \in Clients |-> IF c \in sessions THEN WakeWorker(c) ELSE worker[c]]
    /\ reader' = [c \in Clients |-> IF c \in sessions THEN WakeReader(c) ELSE reader[c]]
    /\ UNCHANGED <<acceptor, acceptorWake, sessions, main, storeOpen,
                   network, stopVars,
                   mutex, inbox, readerDone, wakeup, inHand, handled>>

\* Mutated form: the workers are not joined.
JoinNoWorkers ==
    /\ reaper = "join_workers"
    /\ reaper' = "close"
    /\ UNCHANGED <<acceptor, acceptorWake, sessions, main, storeOpen,
                   network, stopVars, session>>

JoinWorkers ==
    /\ reaper = "join_workers"
    /\ \A c \in sessions : worker[c] = "done"
    /\ reaper' = "close"
    /\ UNCHANGED <<acceptor, acceptorWake, sessions, main, storeOpen,
                   network, stopVars, session>>

\* The sessions, the store and the listener go; pending clients are reset.
CloseDown ==
    /\ reaper = "close"
    /\ reaper' = "done"
    /\ sessions' = {}
    /\ storeOpen' = FALSE
    /\ acceptorWake' = FALSE
    /\ conn' = [c \in Clients |-> IF conn[c] = "pending" THEN "dropped" ELSE conn[c]]
    /\ UNCHANGED <<acceptor, main, sent, wire, closed, down, stopVars, session>>

Teardown ==
    JoinAcceptor \/ Retire \/ JoinReaders \/ NotifySessions \/ JoinWorkers \/ CloseDown

-----------------------------------------------------------------------------
Next ==
    \/ \E c \in Clients : Connect(c) \/ ClientClose(c)
    \/ \E c \in Clients, t \in SendTypes : Send(c, t)
    \/ Start \/ StopCall \/ StopSignal \/ StopNotify \/ StopJoin
    \/ AcceptTop \/ AcceptSelect \/ \E c \in Clients : Accept(c)
    \/ \E c \in Clients : Reader(c) \/ Worker(c)
    \/ ReaperWait \/ Teardown

Spec == Init /\ [][Next]_vars

(***************************************************************************)
(* Threads that can run do run.  Nothing is assumed of clients: they need  *)
(* not send, read or close, so a worker may block in send() until its      *)
(* client closes or the socket is shut down.  Nobody has to call stop().   *)
(***************************************************************************)
Fairness ==
    /\ WF_vars(StopSignal \/ StopNotify) /\ WF_vars(StopJoin)
    /\ WF_vars(AcceptTop \/ AcceptSelect \/ \E c \in Clients : Accept(c))
    /\ WF_vars(ReaperWait) /\ WF_vars(Teardown)
    /\ \A c \in Clients :
         /\ WF_vars(Reader(c))
         /\ WF_vars(Worker(c) /\ (worker[c] # "handle" \/ closed[c] \/ down[c]))

FairSpec == Spec /\ Fairness

-----------------------------------------------------------------------------
(* Properties *)

(***************************************************************************)
(* Object lifetime: as long as a session's reader or worker runs, the      *)
(* Session it refers to still exists and the store it reads without a lock *)
(* is still open (the SESSION THREAD LIFETIME comment of server.cpp).      *)
(***************************************************************************)
Running(c) == reader[c] \notin {"none", "done"} \/ worker[c] \notin {"none", "done"}

SessionOutlivesThreads ==
    \A c \in Clients : Running(c) => c \in sessions /\ storeOpen

(***************************************************************************)
(* A session's frames reach handle_frame in the order they were sent, none *)
(* twice and none skipped: what the worker, the inbox and the reader hold  *)
(* continues, without a gap, what has been handled.                        *)
(***************************************************************************)
Held(c, who) == IF inHand[c][who] = NoFrame THEN <<>> ELSE <<inHand[c][who]>>

Pipeline(c) ==
    (IF worker[c] \in {"notify", "handle"} THEN Held(c, "worker") ELSE <<>>)
        \o inbox[c] \o Held(c, "reader")

FramesInOrder ==
    \A c \in Clients :
        \A i \in DOMAIN Pipeline(c) : Pipeline(c)[i].n = handled[c] + i

\* The inbox of a session never exceeds max_queue_depth, so that a client that
\* sends faster than it is served is held back by its reader.
InboxWithinDepth == \A c \in Clients : Len(inbox[c]) <= QueueDepth

(***************************************************************************)
(* No wake-up is lost between a session's two threads while they exchange  *)
(* frames: a worker parked although there is a frame, or although the      *)
(* reader has left, is about to be notified; so is a reader parked         *)
(* although there is room.                                                 *)
(***************************************************************************)
NoStrandedWaiter ==
    \A c \in Clients :
        /\ worker[c] = "parked" /\ (inbox[c] # <<>> \/ readerDone[c])
             => reader[c] \in {"notify", "notify_all"}
        /\ reader[c] = "parked" /\ Len(inbox[c]) < QueueDepth
             => worker[c] = "notify"

\* The one way teardown() can hang: a reader parked on a full inbox whose worker
\* has already gone, so that nobody is left to make room or to notify it.
Orphaned(c) == reader[c] = "parked" /\ worker[c] = "done"

(***************************************************************************)
(* Once the reaper has seen `stopping`, teardown() joins every thread and  *)
(* finishes, whatever the clients do or fail to do, unless some reader is  *)
(* orphaned.                                                               *)
(***************************************************************************)
TeardownCompletes ==
    reaper = "join_acceptor" ~> (reaper = "done" \/ \E c \in Clients : Orphaned(c))

\* A client that closes its connection sets its worker thread free: what is
\* queued is drained, then worker_loop() returns.
ClosedClientFreesWorker ==
    \A c \in Clients :
        closed[c] /\ worker[c] # "none" ~> worker[c] = "done"

(***************************************************************************)
(* "stop() joins the acceptor, the reaper and every session thread"        *)
(* (tests/concurrency_main.cpp): a call of stop() returns.                 *)
(***************************************************************************)
StopReturns == main = "request" ~> main = "returned"

(***************************************************************************)
(* "both exit before teardown() returns" (server.cpp): a teardown that has *)
(* begun joins all the session threads.                                    *)
(***************************************************************************)
TeardownJoinsSessions == reaper = "join_readers" ~> reaper = "join_workers"
=============================================================================
