------------------------- MODULE CoordinatorProofs -------------------------
(***************************************************************************)
(* Proofs about the coordinator's threads, for any number of clients,      *)
(* sessions and frames and every depth of the inbox.                       *)
(***************************************************************************)
EXTENDS Coordinator, TLAPS

-----------------------------------------------------------------------------
(* Type correctness *)

\* The reader and the worker have a frame in hand exactly while they pass it on.
HandsOK ==
    \A c \in Clients :
        /\ reader[c] \in {"reject", "lock", "park", "parked"} <=> inHand[c].reader # NoFrame
        /\ worker[c] \in {"notify", "handle", "settle", "failed", "shutdown"}
             <=> inHand[c].worker # NoFrame

\* Only a connection that was admitted has threads.
ServedOK ==
    \A c \in Clients : conn[c] # "served" => reader[c] = "none" /\ worker[c] = "none"

TypeInv == TypeOK /\ HandsOK /\ ServedOK

\* A part of the state that a step leaves alone stays well typed.
LEMMA Untouched ==
    /\ NetworkOK /\ UNCHANGED network => NetworkOK'
    /\ StopOK /\ UNCHANGED stopVars => StopOK'
    /\ ServiceOK /\ UNCHANGED service => ServiceOK'
    /\ SessionOK /\ UNCHANGED session => SessionOK'
    /\ HandsOK /\ UNCHANGED session => HandsOK'
    /\ ServedOK /\ UNCHANGED <<conn, reader, worker>> => ServedOK'
BY DEF NetworkOK, network, StopOK, stopVars, ServiceOK, service, SessionOK, HandsOK, ServedOK,
       session

\* A coordinator that has not been started is well typed.
LEMMA TypeInit == Init => TypeInv
<1> SUFFICES ASSUME Init PROVE TypeInv
    OBVIOUS
<1> USE CoordinatorAssumption DEF Init
<1>1. NetworkOK
    BY DEF NetworkOK
<1>2. StopOK /\ ServiceOK
    BY DEF StopOK, ServiceOK
<1>3. SessionOK
    BY DEF SessionOK, ReaderPCs, WorkerPCs, Frame, NoFrame
<1>4. HandsOK /\ ServedOK
    BY DEF HandsOK, ServedOK, Frame, NoFrame
<1>5. QED
    BY <1>1, <1>2, <1>3, <1>4 DEF TypeInv, TypeOK

\* What clients do leaves the coordinator well typed.
LEMMA ClientType ==
    ASSUME TypeInv, NEW c \in Clients,
           Connect(c) \/ ClientClose(c) \/ \E t \in SendTypes : Send(c, t)
    PROVE  TypeInv'
<1>1. UNCHANGED <<stopVars, service, session>>
    BY DEF Connect, ClientClose, Send
<1>2. CASE Connect(c) \/ ClientClose(c)
    <2>1. NetworkOK'
        BY <1>2 DEF TypeInv, TypeOK, NetworkOK, Connect, ClientClose
    <2>2. ServedOK'
        BY <1>1, <1>2 DEF TypeInv, TypeOK, NetworkOK, ServedOK, Connect, ClientClose, session
    <2>3. QED
        BY <1>1, <2>1, <2>2, Untouched DEF TypeInv, TypeOK
<1>3. ASSUME NEW t \in SendTypes, Send(c, t)
      PROVE  TypeInv'
    <2> USE <1>3, CoordinatorAssumption DEF TypeInv, TypeOK, NetworkOK
    <2>1. sent' \in [Clients -> 0 .. MaxFrames] /\ UNCHANGED <<conn, closed, down>>
        BY DEF Send
    <2>2. [n |-> sent'[c], type |-> t] \in Frame
        BY DEF Send, Frame
    <2>3. wire' \in [Clients -> Seq(Frame)]
        BY <2>2 DEF Send
    <2>4. UNCHANGED <<conn, reader, worker>>
        BY <1>1, <2>1 DEF session
    <2>5. QED
        BY <1>1, <2>1, <2>3, <2>4, Untouched
<1>4. QED
    BY <1>2, <1>3

\* start(), stop() and request_stop() leave the coordinator well typed.
LEMMA StopType ==
    ASSUME TypeInv, Start \/ StopCall \/ StopSignal \/ StopNotify \/ StopJoin
    PROVE  TypeInv'
<1>1. UNCHANGED <<network, session>>
    BY DEF Start, StopCall, StopSignal, StopNotify, StopJoin
<1>2. StopOK'
    BY DEF TypeInv, TypeOK, StopOK, stopVars,
           Start, StopCall, Exchange, StopSignal, StopNotify, StopJoin
<1>3. ServiceOK'
    BY DEF TypeInv, TypeOK, ServiceOK, Start, StopCall, StopSignal, StopNotify, StopJoin
<1>4. UNCHANGED <<conn, reader, worker>>
    BY <1>1 DEF network, session
<1>5. QED
    BY <1>1, <1>2, <1>3, <1>4, Untouched DEF TypeInv, TypeOK

\* accept_loop() leaves the coordinator well typed.
LEMMA AcceptType ==
    ASSUME TypeInv, AcceptTop \/ AcceptSelect \/ \E c \in Clients : Accept(c)
    PROVE  TypeInv'
<1>1. UNCHANGED stopVars
    BY DEF AcceptTop, AcceptSelect, Accept
<1>2. ServiceOK'
    BY DEF TypeInv, TypeOK, ServiceOK, AcceptTop, AcceptSelect, Accept
<1>3. CASE AcceptTop \/ AcceptSelect
    <2>1. UNCHANGED <<network, session>>
        BY <1>3 DEF AcceptTop, AcceptSelect
    <2>2. UNCHANGED <<conn, reader, worker>>
        BY <2>1 DEF network, session
    <2>3. QED
        BY <1>1, <1>2, <2>1, <2>2, Untouched DEF TypeInv, TypeOK
<1>4. ASSUME NEW c \in Clients, Accept(c)
      PROVE  TypeInv'
    <2>1. NetworkOK'
        BY <1>4 DEF TypeInv, TypeOK, NetworkOK, Accept
    <2>2. reader[c] = "none" /\ worker[c] = "none"
        BY <1>4 DEF TypeInv, ServedOK, Accept
    <2>3. CASE UNCHANGED <<reader, worker>>
        <3>1. UNCHANGED session
            BY <1>4, <2>3 DEF Accept, session
        <3>2. ServedOK'
            BY <1>4, <2>3, <2>2 DEF TypeInv, TypeOK, NetworkOK, ServedOK, Accept
        <3>3. QED
            BY <1>1, <1>2, <2>1, <3>1, <3>2, Untouched DEF TypeInv, TypeOK
    <2>4. CASE /\ reader' = [reader EXCEPT ![c] = "top"]
               /\ worker' = [worker EXCEPT ![c] = "lock"]
               /\ conn' = [conn EXCEPT ![c] = "served"]
        <3>1. UNCHANGED <<mutex, inbox, readerDone, wakeup, inHand, handled>>
            BY <1>4 DEF Accept
        <3>2. SessionOK'
            BY <2>4, <3>1 DEF TypeInv, TypeOK, SessionOK, ReaderPCs, WorkerPCs
        <3>3. HandsOK'
            BY <2>4, <2>2, <3>1 DEF TypeInv, TypeOK, SessionOK, HandsOK
        <3>4. ServedOK'
            BY <2>4 DEF TypeInv, TypeOK, NetworkOK, SessionOK, ServedOK
        <3>5. QED
            BY <1>1, <1>2, <2>1, <3>2, <3>3, <3>4, Untouched DEF TypeInv, TypeOK
    <2>5. QED
        BY <1>4, <2>3, <2>4 DEF Accept
<1>5. QED
    BY <1>3, <1>4

\* reader_loop() leaves the coordinator well typed.
LEMMA ReaderNetworkType ==
    ASSUME TypeInv, NEW c \in Clients, Reader(c)
    PROVE  NetworkOK'
<1> USE DEF TypeInv, TypeOK, NetworkOK
<1>1. CASE ReaderRead(c)
    <2>1. wire' \in [Clients -> Seq(Frame)]
        <3>1. wire' = wire \/ (wire[c] # <<>> /\ wire' = [wire EXCEPT ![c] = Tail(wire[c])])
            BY <1>1 DEF ReaderRead
        <3>2. wire[c] # <<>> => Tail(wire[c]) \in Seq(Frame)
            OBVIOUS
        <3>3. QED
            BY <3>1, <3>2
    <2>2. QED
        BY <1>1, <2>1 DEF ReaderRead
<1>2. CASE ReaderRelease(c)
    BY <1>2 DEF ReaderRelease
<1>3. CASE ReaderTop(c) \/ ReaderSelect(c) \/ ReaderReject(c) \/ ReaderLock(c) \/ ReaderPark(c)
              \/ ReaderNotify(c) \/ ReaderLeave(c) \/ ReaderNotifyAll(c)
    <2>1. UNCHANGED network
        BY <1>3 DEF ReaderTop, ReaderSelect, ReaderReject, ReaderLock, ReaderPark,
                    ReaderNotify, ReaderLeave, ReaderNotifyAll
    <2>2. QED
        BY <2>1, Untouched
<1>4. QED
    BY <1>1, <1>2, <1>3 DEF Reader

\* A frame that was received is told from no frame by its number.
LEMMA FrameIsNotNoFrame == NoFrame \notin Frame
BY CoordinatorAssumption DEF NoFrame, Frame

\* read_frame() puts the oldest unread frame into the reader's hand.
LEMMA ReaderReadType ==
    ASSUME TypeInv, NEW c \in Clients, ReaderRead(c)
    PROVE  SessionOK' /\ HandsOK'
<1> USE DEF TypeInv, TypeOK
<1>1. UNCHANGED <<mutex, inbox, readerDone, wakeup, worker, handled>>
    BY DEF ReaderRead
<1>2. CASE reader' = [reader EXCEPT ![c] = "leave"] /\ UNCHANGED inHand
    <2>1. SessionOK'
        BY <1>1, <1>2 DEF SessionOK, ReaderPCs
    <2>2. HandsOK'
        BY <1>1, <1>2 DEF SessionOK, HandsOK, ReaderRead
    <2>3. QED
        BY <2>1, <2>2
<1>3. CASE /\ wire[c] # <<>>
           /\ inHand' = [inHand EXCEPT ![c].reader = Head(wire[c])]
           /\ reader' = [reader EXCEPT ![c] =
                            IF Head(wire[c]).type = "bad" THEN "reject" ELSE "lock"]
    <2>1. Head(wire[c]) \in Frame /\ Head(wire[c]) # NoFrame
        BY <1>3, FrameIsNotNoFrame DEF NetworkOK
    <2>2. SessionOK'
        BY <1>1, <1>3, <2>1 DEF SessionOK, ReaderPCs
    <2>3. HandsOK'
        BY <1>1, <1>3, <2>1 DEF HandsOK, SessionOK
    <2>4. QED
        BY <2>2, <2>3
<1>4. QED
    BY <1>2, <1>3 DEF ReaderRead

\* The push of reader_loop() moves the frame from the reader's hand to the inbox.
LEMMA ReaderLockType ==
    ASSUME TypeInv, NEW c \in Clients, ReaderLock(c)
    PROVE  SessionOK' /\ HandsOK'
<1> USE DEF TypeInv, TypeOK
<1>1. inHand[c].reader \in Frame /\ UNCHANGED <<readerDone, wakeup, worker, handled>>
    BY DEF SessionOK, HandsOK, ReaderLock
<1>2. mutex' \in [Clients -> {"free", "reader", "worker"}]
    BY DEF SessionOK, ReaderLock
<1>3. inbox' \in [Clients -> Seq(Frame)]
    <2>1. inbox \in [Clients -> Seq(Frame)] /\ inbox[c] \in Seq(Frame)
        BY DEF SessionOK
    <2>2. Append(inbox[c], inHand[c].reader) \in Seq(Frame)
        BY <1>1, <2>1
    <2>3. inbox' = [inbox EXCEPT ![c] = Append(inbox[c], inHand[c].reader)] \/ inbox' = inbox
        BY DEF ReaderLock, Enqueue
    <2>4. QED
        BY <2>1, <2>2, <2>3
<1>4. reader' \in [Clients -> ReaderPCs]
    BY DEF SessionOK, ReaderLock, ReaderPCs
<1>5. \/ reader'[c] = "park" /\ inHand' = inHand
      \/ reader'[c] \in {"leave", "notify"} /\ inHand' = [inHand EXCEPT ![c].reader = NoFrame]
    BY DEF ReaderLock, SessionOK
<1>6. inHand' \in [Clients -> [reader : Frame \cup {NoFrame}, worker : Frame \cup {NoFrame}]]
    <2>1. inHand \in [Clients -> [reader : Frame \cup {NoFrame}, worker : Frame \cup {NoFrame}]]
        BY DEF SessionOK
    <2> HIDE DEF TypeInv
    <2>2. [inHand[c] EXCEPT !.reader = NoFrame]
              \in [reader : Frame \cup {NoFrame}, worker : Frame \cup {NoFrame}]
        BY <2>1
    <2>3. QED
        BY <1>5, <2>1, <2>2
<1>7. SessionOK'
    BY <1>1, <1>2, <1>3, <1>4, <1>6 DEF SessionOK
<1>8. \A d \in Clients \ {c} : reader'[d] = reader[d]
    BY DEF ReaderLock, SessionOK
<1>9. HandsOK'
    BY <1>1, <1>5, <1>8 DEF SessionOK, HandsOK, ReaderLock
<1>10. QED
    BY <1>7, <1>9

\* The other steps of reader_loop() leave the session well typed.
LEMMA ReaderSessionType ==
    ASSUME TypeInv, NEW c \in Clients, Reader(c)
    PROVE  SessionOK' /\ HandsOK'
<1> USE DEF TypeInv, TypeOK
<1>1. CASE ReaderTop(c)
    <2>1. SessionOK'
        BY <1>1 DEF SessionOK, ReaderTop, ReaderPCs
    <2>2. HandsOK'
        BY <1>1 DEF SessionOK, HandsOK, ReaderTop
    <2>3. QED
        BY <2>1, <2>2
<1>2. CASE ReaderSelect(c)
    <2>1. SessionOK'
        BY <1>2 DEF SessionOK, ReaderSelect, ReaderPCs
    <2>2. HandsOK'
        BY <1>2 DEF SessionOK, HandsOK, ReaderSelect
    <2>3. QED
        BY <2>1, <2>2
<1>3. CASE ReaderReject(c)
    <2>1. SessionOK'
        BY <1>3 DEF SessionOK, ReaderReject, ReaderPCs
    <2>2. HandsOK'
        BY <1>3 DEF SessionOK, HandsOK, ReaderReject
    <2>3. QED
        BY <2>1, <2>2
<1>4. CASE ReaderPark(c)
    <2>1. SessionOK'
        BY <1>4 DEF SessionOK, ReaderPark, ReaderPCs
    <2>2. HandsOK'
        BY <1>4 DEF SessionOK, HandsOK, ReaderPark
    <2>3. QED
        BY <2>1, <2>2
<1>5. CASE ReaderNotify(c)
    <2>1. SessionOK'
        BY <1>5 DEF SessionOK, ReaderNotify, ReaderPCs, WorkerPCs, WakeWorker
    <2>2. HandsOK'
        BY <1>5 DEF SessionOK, HandsOK, ReaderNotify, WakeWorker
    <2>3. QED
        BY <2>1, <2>2
<1>6. CASE ReaderLeave(c)
    <2>1. SessionOK'
        BY <1>6 DEF SessionOK, ReaderLeave, ReaderPCs
    <2>2. HandsOK'
        BY <1>6 DEF SessionOK, HandsOK, ReaderLeave
    <2>3. QED
        BY <2>1, <2>2
<1>7. CASE ReaderNotifyAll(c)
    <2>1. SessionOK'
        BY <1>7 DEF SessionOK, ReaderNotifyAll, ReaderPCs, WorkerPCs, WakeWorker
    <2>2. HandsOK'
        BY <1>7 DEF SessionOK, HandsOK, ReaderNotifyAll, WakeWorker
    <2>3. QED
        BY <2>1, <2>2
<1>8. CASE ReaderRelease(c)
    <2>1. SessionOK'
        BY <1>8 DEF SessionOK, ReaderRelease, ReaderPCs
    <2>2. HandsOK'
        BY <1>8 DEF SessionOK, HandsOK, ReaderRelease
    <2>3. QED
        BY <2>1, <2>2
<1>9. QED
    BY <1>1, <1>2, <1>3, <1>4, <1>5, <1>6, <1>7, <1>8, ReaderReadType, ReaderLockType DEF Reader

\* reader_loop() leaves the coordinator well typed.
LEMMA ReaderType ==
    ASSUME TypeInv, NEW c \in Clients, Reader(c)
    PROVE  TypeInv'
<1> USE DEF Reader, ReaderTop, ReaderSelect, ReaderRead, ReaderReject, ReaderLock, ReaderPark,
            ReaderNotify, ReaderLeave, ReaderNotifyAll, ReaderRelease
<1>1. UNCHANGED <<stopVars, service>>
    OBVIOUS
<1>2. UNCHANGED conn
    BY DEF network
<1>3. reader[c] # "none"
    OBVIOUS
<1>4. \A d \in Clients \ {c} : reader'[d] = reader[d] /\ worker'[d] = worker[d]
    BY DEF TypeInv, TypeOK, SessionOK
<1> HIDE DEF Reader, ReaderTop, ReaderSelect, ReaderRead, ReaderReject, ReaderLock, ReaderPark,
            ReaderNotify, ReaderLeave, ReaderNotifyAll, ReaderRelease
<1>5. ServedOK'
    BY <1>2, <1>3, <1>4 DEF TypeInv, ServedOK
<1>6. QED
    BY <1>1, <1>5, ReaderNetworkType, ReaderSessionType, Untouched DEF TypeInv, TypeOK

\* The pop of worker_loop() moves the oldest frame from the inbox to the worker's hand.
LEMMA WorkerLockType ==
    ASSUME TypeInv, NEW c \in Clients, WorkerLock(c)
    PROVE  SessionOK' /\ HandsOK'
<1> USE DEF TypeInv, TypeOK
<1>1. UNCHANGED <<readerDone, wakeup, reader, handled>>
    BY DEF WorkerLock, Dequeue
<1>2. CASE /\ UNCHANGED <<inbox, inHand>>
           /\ mutex' \in {mutex, [mutex EXCEPT ![c] = "worker"]}
           /\ worker' \in {[worker EXCEPT ![c] = "park"], [worker EXCEPT ![c] = "leave"]}
    <2>1. SessionOK'
        BY <1>1, <1>2 DEF SessionOK, WorkerPCs
    <2>2. HandsOK'
        BY <1>1, <1>2 DEF SessionOK, HandsOK, WorkerLock, Dequeue
    <2>3. QED
        BY <2>1, <2>2
<1>3. CASE /\ inbox[c] # <<>>
           /\ inbox' = [inbox EXCEPT ![c] = Tail(@)]
           /\ inHand' = [inHand EXCEPT ![c].worker = Head(inbox[c])]
           /\ worker' = [worker EXCEPT ![c] = "notify"]
           /\ UNCHANGED mutex
    <2>1. Head(inbox[c]) \in Frame /\ Head(inbox[c]) # NoFrame /\ Tail(inbox[c]) \in Seq(Frame)
        BY <1>3, FrameIsNotNoFrame DEF SessionOK
    <2>2. SessionOK'
        BY <1>1, <1>3, <2>1 DEF SessionOK, WorkerPCs
    <2>3. HandsOK'
        BY <1>1, <1>3, <2>1 DEF HandsOK, SessionOK
    <2>4. QED
        BY <2>2, <2>3
<1>4. QED
    BY <1>2, <1>3 DEF WorkerLock, Dequeue

\* The other steps of worker_loop() leave the session well typed.
LEMMA WorkerSessionType ==
    ASSUME TypeInv, NEW c \in Clients, Worker(c)
    PROVE  SessionOK' /\ HandsOK'
<1> USE DEF TypeInv, TypeOK
<1>1. CASE WorkerPark(c)
    <2>1. SessionOK'
        BY <1>1 DEF SessionOK, WorkerPark, WorkerPCs
    <2>2. HandsOK'
        BY <1>1 DEF SessionOK, HandsOK, WorkerPark
    <2>3. QED
        BY <2>1, <2>2
<1>2. CASE WorkerNotify(c)
    <2>1. SessionOK'
        BY <1>2 DEF SessionOK, WorkerNotify, WorkerPCs, ReaderPCs, WakeReader
    <2>2. HandsOK'
        BY <1>2 DEF SessionOK, HandsOK, WorkerNotify, WakeReader
    <2>3. QED
        BY <2>1, <2>2
<1>3. CASE WorkerSettle(c)
    <2>1. SessionOK'
        BY <1>3 DEF SessionOK, WorkerSettle, WorkerPCs
    <2>2. HandsOK'
        BY <1>3 DEF SessionOK, HandsOK, WorkerSettle
    <2>3. QED
        BY <2>1, <2>2
<1>4. CASE WorkerCheck(c)
    <2>1. SessionOK'
        BY <1>4 DEF SessionOK, WorkerCheck, WorkerPCs
    <2>2. HandsOK'
        BY <1>4 DEF SessionOK, HandsOK, WorkerCheck
    <2>3. QED
        BY <2>1, <2>2
<1>5. CASE WorkerStopped(c)
    <2>1. SessionOK'
        BY <1>5 DEF SessionOK, WorkerStopped, WorkerPCs
    <2>2. HandsOK'
        BY <1>5 DEF SessionOK, HandsOK, WorkerStopped
    <2>3. QED
        BY <2>1, <2>2
<1>6. CASE WorkerLeave(c)
    <2>1. SessionOK'
        BY <1>6 DEF SessionOK, WorkerLeave, WorkerPCs, ReaderPCs, WakeReader
    <2>2. HandsOK'
        BY <1>6 DEF SessionOK, HandsOK, WorkerLeave, WakeReader
    <2>3. QED
        BY <2>1, <2>2
<1>7. CASE WorkerHandle(c)
    <2>1. inHand[c].worker.n \in 0 .. MaxFrames
        BY CoordinatorAssumption DEF SessionOK, Frame, NoFrame
    <2>2. SessionOK'
        BY <1>7, <2>1 DEF SessionOK, WorkerHandle, WorkerPCs
    <2>3. HandsOK'
        BY <1>7 DEF SessionOK, HandsOK, WorkerHandle
    <2>4. QED
        BY <2>2, <2>3
<1>8. QED
    BY <1>1, <1>2, <1>3, <1>4, <1>5, <1>6, <1>7, WorkerLockType DEF Worker

\* worker_loop() leaves the coordinator well typed.
LEMMA WorkerType ==
    ASSUME TypeInv, NEW c \in Clients, Worker(c)
    PROVE  TypeInv'
<1> USE DEF Worker, WorkerLock, Dequeue, WorkerPark, WorkerNotify, WorkerHandle, WorkerSettle,
            WorkerCheck, WorkerStopped, WorkerLeave
<1>1. UNCHANGED <<network, service>>
    OBVIOUS
<1>2. StopOK'
    BY DEF TypeInv, TypeOK, StopOK, stopVars, Exchange
<1>3. worker[c] # "none"
    OBVIOUS
<1>4. \A d \in Clients \ {c} : reader'[d] = reader[d] /\ worker'[d] = worker[d]
    BY DEF TypeInv, TypeOK, SessionOK
<1> HIDE DEF Worker, WorkerLock, Dequeue, WorkerPark, WorkerNotify, WorkerHandle, WorkerSettle,
             WorkerCheck, WorkerStopped, WorkerLeave
<1>5. ServedOK'
    BY <1>1, <1>3, <1>4 DEF TypeInv, ServedOK, network
<1>6. QED
    BY <1>1, <1>2, <1>5, WorkerSessionType, Untouched DEF TypeInv, TypeOK

\* run_reaper() and teardown() leave the coordinator well typed.
LEMMA ReaperType ==
    ASSUME TypeInv, ReaperWait \/ Teardown
    PROVE  TypeInv'
<1> USE DEF TypeInv, TypeOK
<1>1. UNCHANGED stopVars
    BY DEF ReaperWait, Teardown, JoinAcceptor, Retire, JoinReaders, NotifySessions,
           JoinWorkers, CloseDown
<1>2. ServiceOK'
    BY DEF ServiceOK, ReaperWait, Teardown, JoinAcceptor, Retire, JoinReaders, NotifySessions,
           JoinWorkers, CloseDown
<1>3. CASE ReaperWait \/ JoinAcceptor \/ JoinReaders \/ JoinWorkers
    <2>1. UNCHANGED <<network, session>>
        BY <1>3 DEF ReaperWait, JoinAcceptor, JoinReaders, JoinWorkers
    <2>2. UNCHANGED <<conn, reader, worker>>
        BY <2>1 DEF network, session
    <2>3. QED
        BY <1>1, <1>2, <2>1, <2>2, Untouched
<1>4. CASE Retire \/ CloseDown
    <2>1. NetworkOK'
        BY <1>4 DEF NetworkOK, Retire, CloseDown
    <2>2. SessionOK' /\ HandsOK'
        BY <1>4 DEF SessionOK, HandsOK, session, Retire, CloseDown
    <2>3. ServedOK'
        BY <1>4 DEF NetworkOK, ServedOK, session, Retire, CloseDown
    <2>4. QED
        BY <1>1, <1>2, <2>1, <2>2, <2>3, Untouched
<1>5. CASE NotifySessions
    <2>1. UNCHANGED network
        BY <1>5 DEF NotifySessions
    <2>2. SessionOK'
        BY <1>5 DEF SessionOK, NotifySessions, WakeWorker, WakeReader, ReaderPCs, WorkerPCs
    <2>3. HandsOK'
        BY <1>5 DEF SessionOK, HandsOK, NotifySessions, WakeWorker, WakeReader
    <2>4. ServedOK'
        BY <1>5, <2>1 DEF ServedOK, NotifySessions, WakeWorker, WakeReader, network
    <2>5. QED
        BY <1>1, <1>2, <2>1, <2>2, <2>3, <2>4, Untouched
<1>6. QED
    BY <1>3, <1>4, <1>5 DEF Teardown

\* Every action keeps the types and what the threads have in hand.
LEMMA TypeStep == TypeInv /\ [Next]_vars => TypeInv'
<1> SUFFICES ASSUME TypeInv, [Next]_vars PROVE TypeInv'
    OBVIOUS
<1>1. CASE UNCHANGED vars
    BY <1>1, Untouched DEF TypeInv, TypeOK, vars, network, session
<1>2. QED
    BY <1>1, ClientType, StopType, AcceptType, ReaderType, WorkerType, ReaperType DEF Next

\* The coordinator's state keeps its types, whatever clients send and whenever they
\* close; in particular no moved-from frame enters an inbox.
THEOREM CoordinatorTypeCorrect == Spec => []TypeOK
<1>1. TypeInv => TypeOK
    BY DEF TypeInv
<1>2. QED
    BY <1>1, TypeInit, TypeStep, PTL DEF Spec

-----------------------------------------------------------------------------
(* One session at a time *)

\* A step of a session's threads changes nothing of another session.
LEMMA ThreadsAreLocal ==
    ASSUME TypeInv, NEW c \in Clients, Reader(c) \/ Worker(c), NEW d \in Clients, d # c
    PROVE  /\ mutex'[d] = mutex[d] /\ inbox'[d] = inbox[d] /\ readerDone'[d] = readerDone[d]
           /\ reader'[d] = reader[d] /\ worker'[d] = worker[d] /\ inHand'[d] = inHand[d]
           /\ handled'[d] = handled[d] /\ wire'[d] = wire[d] /\ sent'[d] = sent[d]
<1> USE DEF TypeInv, TypeOK, SessionOK, NetworkOK
<1>1. CASE Reader(c)
    BY <1>1 DEF Reader, ReaderTop, ReaderSelect, ReaderRead, ReaderReject, ReaderLock, ReaderPark,
                ReaderNotify, ReaderLeave, ReaderNotifyAll, ReaderRelease, network
<1>2. CASE Worker(c)
    BY <1>2 DEF Worker, WorkerLock, Dequeue, WorkerPark, WorkerNotify, WorkerHandle, WorkerSettle,
                WorkerCheck, WorkerStopped, WorkerLeave, network
<1>3. QED
    BY <1>1, <1>2

-----------------------------------------------------------------------------
(* Waiting *)

\* Who is between the test of its predicate and its wait holds the mutex, and what it
\* has tested still holds; reader_done says where the reader is.
LocksOf(c) ==
    /\ reader[c] = "park" <=> mutex[c] = "reader"
    /\ worker[c] = "park" <=> mutex[c] = "worker"
    /\ reader[c] = "park" => ~HasRoom(c)
    /\ worker[c] = "park" => inbox[c] = <<>> /\ ~readerDone[c]
    /\ readerDone[c] <=> reader[c] \in {"notify_all", "release", "done"}

\* NoStrandedWaiter and InboxWithinDepth for one session.
WaitersOf(c) ==
    /\ worker[c] = "parked" /\ (inbox[c] # <<>> \/ readerDone[c])
         => reader[c] \in {"notify", "notify_all"}
    /\ reader[c] = "parked" /\ HasRoom(c) => worker[c] = "notify"
    /\ Len(inbox[c]) <= QueueDepth

WaitInv == \A c \in Clients : LocksOf(c) /\ WaitersOf(c)

\* A step that leaves a session alone leaves its waiters as they are.
LEMMA WaitUntouched ==
    ASSUME NEW c \in Clients, LocksOf(c), WaitersOf(c),
           mutex'[c] = mutex[c], inbox'[c] = inbox[c], readerDone'[c] = readerDone[c],
           reader'[c] = reader[c], worker'[c] = worker[c]
    PROVE  LocksOf(c)' /\ WaitersOf(c)'
BY DEF LocksOf, WaitersOf, HasRoom

\* Every step of reader_loop() keeps the waiters of its session.
LEMMA ReaderWaits ==
    ASSUME TypeInv, NEW c \in Clients, LocksOf(c), WaitersOf(c), Reader(c)
    PROVE  LocksOf(c)' /\ WaitersOf(c)'
<1> USE CoordinatorAssumption DEF TypeInv, TypeOK, SessionOK, LocksOf, WaitersOf, HasRoom
<1>1. CASE ReaderTop(c) \/ ReaderSelect(c) \/ ReaderRead(c) \/ ReaderReject(c)
    BY <1>1 DEF ReaderTop, ReaderSelect, ReaderRead, ReaderReject
<1>2. CASE ReaderLock(c)
    <2>1. /\ mutex[c] = "free" /\ reader[c] = "lock" /\ Len(inbox[c]) \in Nat
          /\ readerDone'[c] = readerDone[c] /\ worker'[c] = worker[c]
        BY <1>2 DEF ReaderLock
    <2>2. CASE ~HasRoom(c) /\ reader'[c] = "park" /\ mutex'[c] = "reader" /\ inbox'[c] = inbox[c]
        BY <2>1, <2>2
    <2>3. CASE reader'[c] = "leave" /\ inbox'[c] = inbox[c] /\ mutex'[c] = mutex[c]
        BY <2>1, <2>3
    <2>4. CASE /\ HasRoom(c) /\ reader'[c] = "notify" /\ mutex'[c] = mutex[c]
               /\ inbox'[c] = Append(inbox[c], inHand[c].reader)
        <3>1. Len(inbox'[c]) = Len(inbox[c]) + 1
            BY <2>4
        <3>2. QED
            BY <2>1, <2>4, <3>1
    <2>5. QED
        BY <1>2, <2>2, <2>3, <2>4 DEF ReaderLock, Enqueue
<1>3. CASE ReaderPark(c) \/ ReaderLeave(c) \/ ReaderRelease(c)
    BY <1>3 DEF ReaderPark, ReaderLeave, ReaderRelease
<1>4. CASE ReaderNotify(c) \/ ReaderNotifyAll(c)
    BY <1>4 DEF ReaderNotify, ReaderNotifyAll, WakeWorker
<1>5. QED
    BY <1>1, <1>2, <1>3, <1>4 DEF Reader

\* Every step of worker_loop() keeps the waiters of its session.
LEMMA WorkerWaits ==
    ASSUME TypeInv, NEW c \in Clients, LocksOf(c), WaitersOf(c), Worker(c)
    PROVE  LocksOf(c)' /\ WaitersOf(c)'
<1> USE CoordinatorAssumption DEF TypeInv, TypeOK, SessionOK, LocksOf, WaitersOf, HasRoom
<1>1. CASE WorkerLock(c)
    <2>1. /\ mutex[c] = "free" /\ worker[c] = "lock" /\ Len(inbox[c]) \in Nat
          /\ readerDone'[c] = readerDone[c] /\ reader'[c] = reader[c]
        BY <1>1 DEF WorkerLock, Dequeue
    <2>2. CASE /\ inbox[c] = <<>> /\ ~readerDone[c] /\ worker'[c] = "park"
               /\ mutex'[c] = "worker" /\ inbox'[c] = inbox[c]
        BY <2>1, <2>2
    <2>3. CASE worker'[c] = "leave" /\ inbox'[c] = inbox[c] /\ mutex'[c] = mutex[c]
        BY <2>1, <2>3
    <2>4. CASE /\ inbox[c] # <<>> /\ worker'[c] = "notify" /\ mutex'[c] = mutex[c]
               /\ inbox'[c] = Tail(inbox[c])
        <3>1. Len(inbox'[c]) = Len(inbox[c]) - 1
            BY <2>4
        <3>2. QED
            BY <2>1, <2>4, <3>1
    <2>5. QED
        BY <1>1, <2>2, <2>3, <2>4 DEF WorkerLock, Dequeue
<1>2. CASE WorkerPark(c) \/ WorkerHandle(c) \/ WorkerSettle(c) \/ WorkerCheck(c) \/ WorkerStopped(c)
    BY <1>2 DEF WorkerPark, WorkerHandle, WorkerSettle, WorkerCheck, WorkerStopped
<1>3. CASE WorkerNotify(c) \/ WorkerLeave(c)
    BY <1>3 DEF WorkerNotify, WorkerLeave, WakeReader
<1>4. QED
    BY <1>1, <1>2, <1>3 DEF Worker

\* The steps of the other threads change nothing that a session's threads wait for; a
\* new session starts with nobody waiting, and teardown() only wakes.
LEMMA OtherWaits ==
    ASSUME TypeInv, WaitInv,
           \/ \E c \in Clients : Connect(c) \/ ClientClose(c) \/ Accept(c)
           \/ \E c \in Clients, t \in SendTypes : Send(c, t)
           \/ Start \/ StopCall \/ StopSignal \/ StopNotify \/ StopJoin
           \/ AcceptTop \/ AcceptSelect \/ ReaperWait \/ Teardown
    PROVE  WaitInv'
<1>1. CASE UNCHANGED <<mutex, inbox, readerDone, reader, worker>>
    BY <1>1 DEF WaitInv, LocksOf, WaitersOf, HasRoom
<1>2. ASSUME NEW c \in Clients, Accept(c)
      PROVE  WaitInv'
    <2> USE DEF TypeInv, TypeOK, SessionOK
    <2>1. reader[c] = "none" /\ worker[c] = "none"
        BY <1>2 DEF ServedOK, Accept
    <2>2. UNCHANGED <<mutex, inbox, readerDone>>
        BY <1>2 DEF Accept
    <2>3. \A d \in Clients : d # c => reader'[d] = reader[d] /\ worker'[d] = worker[d]
        BY <1>2 DEF Accept
    <2>4. reader'[c] \in {"none", "top"} /\ worker'[c] \in {"none", "lock"}
        BY <1>2, <2>1 DEF Accept
    <2>5. QED
        BY <2>1, <2>2, <2>3, <2>4 DEF WaitInv, LocksOf, WaitersOf, HasRoom
<1>3. CASE NotifySessions
    <2>1. UNCHANGED <<mutex, inbox, readerDone>>
        BY <1>3 DEF NotifySessions
    <2>2. \A c \in Clients : /\ reader'[c] \in {reader[c], WakeReader(c)}
                             /\ worker'[c] \in {worker[c], WakeWorker(c)}
        BY <1>3 DEF NotifySessions
    <2>3. QED
        BY <2>1, <2>2 DEF WaitInv, LocksOf, WaitersOf, HasRoom, WakeReader, WakeWorker
<1>4. QED
    BY <1>1, <1>2, <1>3
       DEF Connect, ClientClose, Send, Start, StopCall, StopSignal, StopNotify, StopJoin,
           AcceptTop, AcceptSelect, ReaperWait, Teardown, JoinAcceptor, Retire, JoinReaders,
           JoinWorkers, CloseDown, session

\* The invariant of the waiters holds from the start and is kept.
LEMMA WaitInit == Init => WaitInv
BY CoordinatorAssumption DEF Init, WaitInv, LocksOf, WaitersOf, HasRoom

\* Every step keeps it.
LEMMA WaitStep == TypeInv /\ WaitInv /\ [Next]_vars => WaitInv'
<1> SUFFICES ASSUME TypeInv, WaitInv, [Next]_vars PROVE WaitInv'
    OBVIOUS
<1>1. CASE UNCHANGED vars
    BY <1>1 DEF vars, session, WaitInv, LocksOf, WaitersOf, HasRoom
<1>2. ASSUME NEW c \in Clients, Reader(c) \/ Worker(c)
      PROVE  WaitInv'
    <2>1. LocksOf(c)' /\ WaitersOf(c)'
        BY <1>2, ReaderWaits, WorkerWaits DEF WaitInv
    <2>2. ASSUME NEW d \in Clients, d # c
          PROVE  LocksOf(d)' /\ WaitersOf(d)'
        <3>1. LocksOf(d) /\ WaitersOf(d)
            BY DEF WaitInv
        <3>2. QED
            BY <1>2, <2>2, <3>1, ThreadsAreLocal, WaitUntouched
    <2>3. QED
        BY <2>1, <2>2 DEF WaitInv
<1>3. QED
    BY <1>1, <1>2, OtherWaits DEF Next

\* The inbox of a session never holds more than max_queue_depth frames.
THEOREM InboxBounded == Spec => []InboxWithinDepth
<1>1. WaitInv => InboxWithinDepth
    BY DEF WaitInv, WaitersOf, InboxWithinDepth
<1>2. QED
    BY <1>1, TypeInit, TypeStep, WaitInit, WaitStep, PTL DEF Spec

\* Neither the reader nor the worker of a session misses a notify of the other.
THEOREM NoLostWakeup == Spec => []NoStrandedWaiter
<1>1. WaitInv => NoStrandedWaiter
    BY DEF WaitInv, WaitersOf, HasRoom, NoStrandedWaiter
<1>2. QED
    BY <1>1, TypeInit, TypeStep, WaitInit, WaitStep, PTL DEF Spec

-----------------------------------------------------------------------------
(* Lifetime *)

\* What the reaper has joined stays gone: the acceptor first, so that no session is
\* added any more, then the readers, then the workers.
LifeOK ==
    /\ main = "new" => acceptor = "none" /\ reaper = "none"
    /\ acceptor \in {"top", "select", "accept"} => storeOpen
    /\ reaper \in {"retire", "join_readers", "notify", "join_workers", "close", "done"}
         => acceptor = "done"
    /\ reaper \in {"notify", "join_workers", "close", "done"}
         => \A c \in Clients : reader[c] \in {"none", "done"}
    /\ reaper \in {"close", "done"} => \A c \in Clients : worker[c] \in {"none", "done"}

LifeInv == LifeOK /\ SessionOutlivesThreads

\* A step of a session's own threads is a step of a session that exists.
LEMMA ThreadsLife ==
    ASSUME TypeInv, LifeInv, NEW c \in Clients, Reader(c) \/ Worker(c)
    PROVE  LifeInv'
<1> USE DEF TypeInv, TypeOK, SessionOK
<1>1. UNCHANGED service
    BY DEF Reader, ReaderTop, ReaderSelect, ReaderRead, ReaderReject, ReaderLock, ReaderPark,
           ReaderNotify, ReaderLeave, ReaderNotifyAll, ReaderRelease,
           Worker, WorkerLock, Dequeue, WorkerPark, WorkerNotify, WorkerHandle, WorkerSettle,
           WorkerCheck, WorkerStopped, WorkerLeave
<1>2. Running(c)
    BY DEF Running, Reader, ReaderTop, ReaderSelect, ReaderRead, ReaderReject, ReaderLock,
           ReaderPark, ReaderNotify, ReaderLeave, ReaderNotifyAll, ReaderRelease,
           Worker, WorkerLock, Dequeue, WorkerPark, WorkerNotify, WorkerHandle, WorkerSettle,
           WorkerCheck, WorkerStopped, WorkerLeave
<1>3. c \in sessions /\ storeOpen
    BY <1>2 DEF LifeInv, SessionOutlivesThreads
<1>4. reader[c] \in {"none", "done"} => reader'[c] = reader[c]
    BY DEF Reader, ReaderTop, ReaderSelect, ReaderRead, ReaderReject, ReaderLock,
           ReaderPark, ReaderNotify, ReaderLeave, ReaderNotifyAll, ReaderRelease,
           Worker, WorkerLock, Dequeue, WorkerPark, WorkerNotify, WorkerHandle, WorkerSettle,
           WorkerCheck, WorkerStopped, WorkerLeave, WakeReader
<1>5. worker[c] \in {"none", "done"} => worker'[c] = worker[c]
    BY DEF Reader, ReaderTop, ReaderSelect, ReaderRead, ReaderReject, ReaderLock,
           ReaderPark, ReaderNotify, ReaderLeave, ReaderNotifyAll, ReaderRelease,
           Worker, WorkerLock, Dequeue, WorkerPark, WorkerNotify, WorkerHandle, WorkerSettle,
           WorkerCheck, WorkerStopped, WorkerLeave, WakeWorker
<1>6. \A d \in Clients : d # c => reader'[d] = reader[d] /\ worker'[d] = worker[d]
    BY ThreadsAreLocal
<1>7. QED
    BY <1>1, <1>3, <1>4, <1>5, <1>6
       DEF LifeInv, LifeOK, SessionOutlivesThreads, Running, service

\* accept_loop() starts threads only while the reaper has not joined it.
LEMMA AcceptLife ==
    ASSUME TypeInv, LifeInv, NEW c \in Clients, Accept(c)
    PROVE  LifeInv'
<1> USE DEF TypeInv, TypeOK, SessionOK
<1>1. acceptor = "accept" /\ acceptor' = "top" /\ UNCHANGED <<reaper, main, storeOpen>>
    BY DEF Accept
<1>2. storeOpen /\ main # "new"
    BY <1>1 DEF LifeInv, LifeOK
<1>3. reaper \notin {"retire", "join_readers", "notify", "join_workers", "close", "done"}
    BY <1>1 DEF LifeInv, LifeOK
<1>4. sessions \subseteq sessions'
    BY DEF Accept
<1>5. \A d \in Clients : d # c => reader'[d] = reader[d] /\ worker'[d] = worker[d]
    BY DEF Accept
<1>6. c \in sessions' \/ UNCHANGED <<reader, worker>>
    BY DEF Accept
<1>7. SessionOutlivesThreads'
    BY <1>1, <1>2, <1>4, <1>5, <1>6 DEF LifeInv, SessionOutlivesThreads, Running
<1>8. QED
    BY <1>1, <1>2, <1>3, <1>7 DEF LifeInv, LifeOK

\* start(), stop() and the acceptor's waits start and end no session.
LEMMA ServiceLife ==
    ASSUME TypeInv, LifeInv,
           \/ Start \/ StopCall \/ StopSignal \/ StopNotify \/ StopJoin
           \/ AcceptTop \/ AcceptSelect \/ ReaperWait
    PROVE  LifeInv'
<1> USE DEF TypeInv, TypeOK, ServiceOK
<1>1. UNCHANGED <<sessions, reader, worker>> /\ (UNCHANGED storeOpen \/ storeOpen')
    BY DEF Start, StopCall, StopSignal, StopNotify, StopJoin, AcceptTop, AcceptSelect,
           ReaperWait, session
<1>2. SessionOutlivesThreads'
    BY <1>1 DEF LifeInv, SessionOutlivesThreads, Running
<1>3. LifeOK'
    BY <1>1 DEF LifeInv, LifeOK, Start, StopCall, StopSignal, StopNotify, StopJoin, AcceptTop,
                AcceptSelect, ReaperWait
<1>4. QED
    BY <1>2, <1>3 DEF LifeInv

\* teardown() destroys a session only when it has joined its two threads.
LEMMA TeardownLife ==
    ASSUME TypeInv, LifeInv, Teardown
    PROVE  LifeInv'
<1> USE DEF TypeInv, TypeOK, SessionOK, LifeInv, LifeOK, SessionOutlivesThreads, Running
<1>1. CASE JoinAcceptor \/ Retire
    BY <1>1 DEF JoinAcceptor, Retire, session
<1>2. CASE JoinReaders
    <2>1. \A c \in Clients : reader[c] \in {"none", "done"}
        BY <1>2 DEF JoinReaders
    <2>2. QED
        BY <1>2, <2>1 DEF JoinReaders, session
<1>3. CASE NotifySessions
    <2>1. \A c \in Clients : /\ reader'[c] \in {reader[c], WakeReader(c)}
                             /\ worker'[c] \in {worker[c], WakeWorker(c)}
        BY <1>3 DEF NotifySessions
    <2>2. QED
        BY <1>3, <2>1 DEF NotifySessions, WakeReader, WakeWorker
<1>4. CASE JoinWorkers
    <2>1. \A c \in Clients : worker[c] \in {"none", "done"}
        BY <1>4 DEF JoinWorkers
    <2>2. QED
        BY <1>4, <2>1 DEF JoinWorkers, session
<1>5. CASE CloseDown
    BY <1>5 DEF CloseDown, session
<1>6. QED
    BY <1>1, <1>2, <1>3, <1>4, <1>5 DEF Teardown

\* The order of teardown is kept by every step.
LEMMA LifeStep == TypeInv /\ LifeInv /\ [Next]_vars => LifeInv'
<1> SUFFICES ASSUME TypeInv, LifeInv, [Next]_vars PROVE LifeInv'
    OBVIOUS
<1>1. CASE UNCHANGED vars
    BY <1>1 DEF vars, service, session, LifeInv, LifeOK, SessionOutlivesThreads, Running
<1>2. CASE \/ \E c \in Clients : Connect(c) \/ ClientClose(c)
           \/ \E c \in Clients, t \in SendTypes : Send(c, t)
    <2>1. UNCHANGED <<service, session>>
        BY <1>2 DEF Connect, ClientClose, Send
    <2>2. QED
        BY <2>1 DEF service, session, LifeInv, LifeOK, SessionOutlivesThreads, Running
<1>3. QED
    BY <1>1, <1>2, ThreadsLife, AcceptLife, ServiceLife, TeardownLife DEF Next

\* While a reader or a worker runs, its Session has not been destroyed and the store is
\* open: teardown() frees nothing that a thread still refers to.
THEOREM LifetimeHolds == Spec => []SessionOutlivesThreads
<1>1. Init => LifeInv
    BY DEF Init, LifeInv, LifeOK, SessionOutlivesThreads, Running
<1>2. LifeInv => SessionOutlivesThreads
    BY DEF LifeInv
<1>3. QED
    BY <1>1, <1>2, TypeInit, TypeStep, LifeStep, PTL DEF Spec

-----------------------------------------------------------------------------
(* Frames in order *)

InWorker(c) == IF worker[c] \in {"notify", "handle"} THEN 1 ELSE 0

\* The number of the last frame that has reached the inbox.
LastQueued(c) == handled[c] + InWorker(c) + Len(inbox[c])

\* The number of the last frame the reader has taken from the wire.
LastRead(c) == LastQueued(c) + (IF inHand[c].reader # NoFrame THEN 1 ELSE 0)

\* The reader has neither dropped a frame nor left its loop.
Reading(c) ==
    reader[c] \in {"none", "top", "select", "read", "reject", "lock", "park", "parked", "notify"}

\* Frames are numbered without a gap from the last one handled to the last one sent.
NumbersOf(c) ==
    /\ worker[c] \in {"notify", "handle"} => inHand[c].worker.n = handled[c] + 1
    /\ \A i \in 1 .. Len(inbox[c]) : inbox[c][i].n = handled[c] + InWorker(c) + i
    /\ inHand[c].reader # NoFrame => inHand[c].reader.n = LastQueued(c) + 1
    /\ Reading(c) =>
          /\ \A i \in 1 .. Len(wire[c]) : wire[c][i].n = LastRead(c) + i
          /\ sent[c] = LastRead(c) + Len(wire[c])

NumbersInv == \A c \in Clients : NumbersOf(c)

\* A step that leaves a session's frames alone, and does not take its reader back into
\* the loop, keeps their numbers.
LEMMA NumbersUntouched ==
    ASSUME NEW c \in Clients, NumbersOf(c),
           inbox'[c] = inbox[c], inHand'[c] = inHand[c], handled'[c] = handled[c],
           wire'[c] = wire[c], sent'[c] = sent[c],
           worker'[c] \in {"notify", "handle"} <=> worker[c] \in {"notify", "handle"},
           Reading(c)' => Reading(c)
    PROVE  NumbersOf(c)'
BY DEF NumbersOf, LastRead, LastQueued, InWorker

\* A client numbers its frames in the order it sends them.
LEMMA SendNumbers ==
    ASSUME TypeInv, NEW c \in Clients, NumbersOf(c), NEW t \in SendTypes, Send(c, t)
    PROVE  NumbersOf(c)'
<1> USE DEF TypeInv, TypeOK, NetworkOK, SessionOK
<1>1. UNCHANGED <<inbox, inHand, handled, worker, reader>>
    BY DEF Send, session
<1>2. /\ sent'[c] = sent[c] + 1
      /\ wire'[c] = Append(wire[c], [n |-> sent[c] + 1, type |-> t])
    BY DEF Send
<1>3. /\ Len(wire'[c]) = Len(wire[c]) + 1 /\ Len(wire[c]) \in Nat /\ sent[c] \in Nat
      /\ \A i \in 1 .. Len(wire[c]) : wire'[c][i] = wire[c][i]
      /\ wire'[c][Len(wire[c]) + 1].n = sent[c] + 1
    BY <1>2
<1>4. LastRead(c)' = LastRead(c) /\ LastQueued(c)' = LastQueued(c) /\ InWorker(c)' = InWorker(c)
    BY <1>1 DEF LastRead, LastQueued, InWorker
<1>5. LastRead(c) \in Nat
    BY DEF LastRead, LastQueued, InWorker
<1>6. CASE Reading(c)
    <2>1. sent'[c] = LastRead(c) + Len(wire'[c])
        BY <1>2, <1>3, <1>5, <1>6 DEF NumbersOf
    <2>2. ASSUME NEW i \in 1 .. Len(wire'[c])
          PROVE  wire'[c][i].n = LastRead(c) + i
        <3>1. CASE i \in 1 .. Len(wire[c])
            BY <1>3, <1>6, <3>1 DEF NumbersOf
        <3>2. CASE i = Len(wire[c]) + 1
            <4>1. sent[c] = LastRead(c) + Len(wire[c])
                BY <1>6 DEF NumbersOf
            <4>2. QED
                BY <1>3, <1>5, <3>2, <4>1
        <3>3. QED
            BY <1>3, <3>1, <3>2
    <2>3. QED
        BY <1>1, <1>4, <2>1, <2>2 DEF NumbersOf
<1>7. CASE ~Reading(c)
    BY <1>1, <1>4, <1>7 DEF NumbersOf, Reading
<1>8. QED
    BY <1>6, <1>7

\* The reader takes the oldest frame off the wire.
LEMMA ReadNumbers ==
    ASSUME TypeInv, NEW c \in Clients, NumbersOf(c), ReaderRead(c)
    PROVE  NumbersOf(c)'
<1> USE DEF TypeInv, TypeOK, NetworkOK, SessionOK
<1>1. UNCHANGED <<inbox, handled, worker, sent>>
    BY DEF ReaderRead
<1>2. CASE reader'[c] = "leave" /\ UNCHANGED <<wire, inHand>>
    BY <1>1, <1>2 DEF NumbersOf, LastRead, LastQueued, InWorker, Reading
<1>3. CASE /\ wire[c] # <<>>
           /\ wire'[c] = Tail(wire[c])
           /\ inHand'[c] = [inHand[c] EXCEPT !.reader = Head(wire[c])]
    <2>1. Reading(c) /\ inHand[c].reader = NoFrame
        BY DEF ReaderRead, HandsOK, Reading
    <2>2. Head(wire[c]) = wire[c][1] /\ Head(wire[c]) # NoFrame /\ Len(wire[c]) \in Nat \ {0}
        BY <1>3, FrameIsNotNoFrame
    <2>3. /\ Len(wire'[c]) = Len(wire[c]) - 1
          /\ \A i \in 1 .. Len(wire'[c]) : wire'[c][i] = wire[c][i + 1]
        BY <1>3
    <2>4. inHand'[c].reader = Head(wire[c]) /\ inHand'[c].worker = inHand[c].worker
        BY <1>3
    <2>5. LastQueued(c)' = LastQueued(c) /\ InWorker(c)' = InWorker(c) /\ LastQueued(c) \in Nat
        BY <1>1 DEF LastQueued, InWorker
    <2>6. LastRead(c) = LastQueued(c) /\ LastRead(c)' = LastQueued(c) + 1
        BY <2>1, <2>2, <2>4, <2>5 DEF LastRead
    <2>7. inHand'[c].reader.n = LastQueued(c) + 1
        BY <2>1, <2>2, <2>4, <2>6 DEF NumbersOf
    <2>8. ASSUME NEW i \in 1 .. Len(wire'[c])
          PROVE  wire'[c][i].n = LastQueued(c) + 1 + i
        <3>1. i + 1 \in 1 .. Len(wire[c])
            BY <2>2, <2>3
        <3>2. wire[c][i + 1].n = LastQueued(c) + (i + 1)
            BY <2>1, <2>6, <3>1 DEF NumbersOf
        <3>3. wire'[c][i] = wire[c][i + 1]
            BY <2>3
        <3> HIDE DEF TypeInv
        <3>4. QED
            BY <2>5, <3>2, <3>3
    <2>9. sent'[c] = LastQueued(c) + 1 + Len(wire'[c])
        BY <1>1, <2>1, <2>2, <2>3, <2>5, <2>6 DEF NumbersOf
    <2>10. QED
        BY <1>1, <2>4, <2>5, <2>6, <2>7, <2>8, <2>9 DEF NumbersOf
<1>4. QED
    BY <1>2, <1>3 DEF ReaderRead

\* The push puts the next number behind the ones that are queued.
LEMMA PushNumbers ==
    ASSUME TypeInv, NEW c \in Clients, NumbersOf(c), ReaderLock(c)
    PROVE  NumbersOf(c)'
<1> USE DEF TypeInv, TypeOK, NetworkOK, SessionOK
<1>1. UNCHANGED <<handled, worker, sent, wire>>
    BY DEF ReaderLock, network
<1>2. CASE UNCHANGED <<inbox, inHand>> /\ reader'[c] = "park"
    BY <1>1, <1>2, NumbersUntouched DEF Reading, ReaderLock
<1>3. CASE /\ UNCHANGED inbox /\ reader'[c] = "leave"
           /\ inHand'[c] = [inHand[c] EXCEPT !.reader = NoFrame]
    BY <1>1, <1>3 DEF NumbersOf, LastRead, LastQueued, InWorker, Reading
<1>4. CASE /\ inbox'[c] = Append(inbox[c], inHand[c].reader)
           /\ inHand'[c] = [inHand[c] EXCEPT !.reader = NoFrame]
    <2>1. inHand[c].reader # NoFrame /\ Reading(c)
        BY DEF ReaderLock, HandsOK, Reading
    <2>2. inHand'[c].reader = NoFrame /\ inHand'[c].worker = inHand[c].worker
        BY <1>4
    <2>3. /\ Len(inbox[c]) \in Nat /\ Len(inbox'[c]) = Len(inbox[c]) + 1
          /\ \A i \in 1 .. Len(inbox[c]) : inbox'[c][i] = inbox[c][i]
          /\ inbox'[c][Len(inbox[c]) + 1] = inHand[c].reader
        BY <1>4
    <2>4. InWorker(c)' = InWorker(c) /\ InWorker(c) \in Nat /\ handled[c] \in Nat
        BY <1>1 DEF InWorker
    <2>5. LastQueued(c)' = LastQueued(c) + 1 /\ LastRead(c) = LastQueued(c) + 1
        BY <1>1, <2>1, <2>3, <2>4 DEF LastQueued, LastRead
    <2>6. LastRead(c)' = LastRead(c)
        BY <2>2, <2>4, <2>5 DEF LastQueued, LastRead
    <2>7. ASSUME NEW i \in 1 .. Len(inbox'[c])
          PROVE  inbox'[c][i].n = handled[c] + InWorker(c) + i
        <3>1. CASE i \in 1 .. Len(inbox[c])
            BY <2>3, <3>1 DEF NumbersOf
        <3>2. CASE i = Len(inbox[c]) + 1
            <4>1. inHand[c].reader.n = handled[c] + InWorker(c) + Len(inbox[c]) + 1
                BY <2>1 DEF NumbersOf, LastQueued
            <4>2. QED
                BY <2>3, <2>4, <3>2, <4>1
        <3>3. QED
            BY <2>3, <3>1, <3>2
    <2>8. QED
        BY <1>1, <2>1, <2>2, <2>4, <2>6, <2>7 DEF NumbersOf
<1>5. QED
    BY <1>2, <1>3, <1>4 DEF ReaderLock, Enqueue

\* The pop takes the lowest number.
LEMMA PopNumbers ==
    ASSUME TypeInv, NEW c \in Clients, NumbersOf(c), WorkerLock(c)
    PROVE  NumbersOf(c)'
<1> USE DEF TypeInv, TypeOK, NetworkOK, SessionOK
<1>1. UNCHANGED <<handled, reader, sent, wire>>
    BY DEF WorkerLock, Dequeue, network
<1>2. CASE UNCHANGED <<inbox, inHand>> /\ worker'[c] \in {"park", "leave"}
    BY <1>1, <1>2, NumbersUntouched DEF Reading, WorkerLock, Dequeue
<1>3. CASE /\ inbox[c] # <<>>
           /\ inbox'[c] = Tail(inbox[c])
           /\ inHand'[c] = [inHand[c] EXCEPT !.worker = Head(inbox[c])]
           /\ worker'[c] = "notify"
    <2>1. inHand'[c].worker = inbox[c][1] /\ inHand'[c].reader = inHand[c].reader
        BY <1>3
    <2>2. /\ Len(inbox[c]) \in Nat \ {0} /\ Len(inbox'[c]) = Len(inbox[c]) - 1
          /\ \A i \in 1 .. Len(inbox'[c]) : inbox'[c][i] = inbox[c][i + 1]
        BY <1>3
    <2>3. InWorker(c) = 0 /\ InWorker(c)' = 1 /\ handled[c] \in Nat
        BY <1>3 DEF InWorker, WorkerLock, Dequeue
    <2>4. LastQueued(c)' = LastQueued(c)
        BY <1>1, <2>2, <2>3 DEF LastQueued
    <2>5. LastRead(c)' = LastRead(c)
        BY <2>1, <2>4 DEF LastRead
    <2>6. inHand'[c].worker.n = handled[c] + 1
        <3>1. 1 \in 1 .. Len(inbox[c])
            BY <2>2
        <3>2. inbox[c][1].n = handled[c] + 0 + 1
            BY <2>3, <3>1 DEF NumbersOf
        <3>3. QED
            BY <2>1, <2>3, <3>2
    <2>7. ASSUME NEW i \in 1 .. Len(inbox'[c])
          PROVE  inbox'[c][i].n = handled[c] + 1 + i
        <3>1. i + 1 \in 1 .. Len(inbox[c])
            BY <2>2
        <3>2. inbox[c][i + 1].n = handled[c] + 0 + (i + 1)
            BY <2>3, <3>1 DEF NumbersOf
        <3>3. inbox'[c][i] = inbox[c][i + 1]
            BY <2>2
        <3> HIDE DEF TypeInv
        <3>4. QED
            BY <2>3, <3>2, <3>3
    <2>8. QED
        BY <1>1, <2>1, <2>3, <2>4, <2>5, <2>6, <2>7 DEF NumbersOf, Reading
<1>4. QED
    BY <1>2, <1>3 DEF WorkerLock, Dequeue

\* The frame that handle_frame() answers counts as handled.
LEMMA HandleNumbers ==
    ASSUME TypeInv, NEW c \in Clients, NumbersOf(c), WorkerHandle(c)
    PROVE  NumbersOf(c)'
<1> USE DEF TypeInv, TypeOK, NetworkOK, SessionOK
<1>1. UNCHANGED <<inbox, inHand, reader, sent, wire>>
    BY DEF WorkerHandle, network
<1>2. handled'[c] = handled[c] + 1 /\ handled[c] \in Nat /\ Len(inbox[c]) \in Nat
    BY DEF WorkerHandle, NumbersOf
<1>3. InWorker(c) = 1 /\ InWorker(c)' = 0 /\ worker'[c] \notin {"notify", "handle"}
    BY DEF WorkerHandle, InWorker
<1>4. handled'[c] + InWorker(c)' = handled[c] + InWorker(c)
    BY <1>2, <1>3
<1>5. LastQueued(c)' = LastQueued(c) /\ LastRead(c)' = LastRead(c)
    BY <1>1, <1>4 DEF LastQueued, LastRead
<1>6. QED
    BY <1>1, <1>3, <1>4, <1>5 DEF NumbersOf, Reading

\* Every step of a session's threads keeps the numbers of its frames.
LEMMA ThreadsNumbers ==
    ASSUME TypeInv, NEW c \in Clients, NumbersOf(c), Reader(c) \/ Worker(c)
    PROVE  NumbersOf(c)'
<1> USE DEF TypeInv, TypeOK, SessionOK
<1>1. CASE ReaderTop(c) \/ ReaderSelect(c) \/ ReaderPark(c) \/ ReaderLeave(c) \/ ReaderRelease(c)
           \/ ReaderNotify(c) \/ ReaderNotifyAll(c)
    <2>1. UNCHANGED <<inbox, inHand, handled, wire, sent>>
        BY <1>1 DEF ReaderTop, ReaderSelect, ReaderPark, ReaderLeave, ReaderRelease,
                    ReaderNotify, ReaderNotifyAll, network
    <2>2. worker'[c] \in {"notify", "handle"} <=> worker[c] \in {"notify", "handle"}
        BY <1>1 DEF ReaderTop, ReaderSelect, ReaderPark, ReaderLeave, ReaderRelease,
                    ReaderNotify, ReaderNotifyAll, WakeWorker
    <2>3. Reading(c)' => Reading(c)
        BY <1>1 DEF ReaderTop, ReaderSelect, ReaderPark, ReaderLeave, ReaderRelease,
                    ReaderNotify, ReaderNotifyAll, Reading
    <2>4. QED
        BY <2>1, <2>2, <2>3, NumbersUntouched
<1>2. CASE ReaderReject(c)
    <2>1. UNCHANGED <<inbox, handled, worker>> /\ reader'[c] = "leave"
        BY <1>2 DEF ReaderReject
    <2>2. inHand'[c].reader = NoFrame /\ inHand'[c].worker = inHand[c].worker
        BY <1>2 DEF ReaderReject
    <2>3. QED
        BY <2>1, <2>2 DEF NumbersOf, LastQueued, InWorker, Reading
<1>3. CASE WorkerPark(c) \/ WorkerNotify(c) \/ WorkerCheck(c) \/ WorkerStopped(c) \/ WorkerLeave(c)
    <2>1. UNCHANGED <<inbox, inHand, handled, wire, sent>>
        BY <1>3 DEF WorkerPark, WorkerNotify, WorkerCheck, WorkerStopped, WorkerLeave, network
    <2>2. worker'[c] \in {"notify", "handle"} <=> worker[c] \in {"notify", "handle"}
        BY <1>3 DEF WorkerPark, WorkerNotify, WorkerCheck, WorkerStopped, WorkerLeave
    <2>3. Reading(c)' => Reading(c)
        BY <1>3 DEF WorkerPark, WorkerNotify, WorkerCheck, WorkerStopped, WorkerLeave,
                    WakeReader, Reading
    <2>4. QED
        BY <2>1, <2>2, <2>3, NumbersUntouched
<1>4. CASE WorkerSettle(c)
    <2>1. UNCHANGED <<inbox, handled, reader, wire, sent>>
        BY <1>4 DEF WorkerSettle, network
    <2>2. /\ worker[c] \notin {"notify", "handle"} /\ worker'[c] \notin {"notify", "handle"}
          /\ inHand'[c].reader = inHand[c].reader
        BY <1>4 DEF WorkerSettle
    <2>3. QED
        BY <2>1, <2>2 DEF NumbersOf, LastRead, LastQueued, InWorker, Reading
<1>5. QED
    BY <1>1, <1>2, <1>3, <1>4, ReadNumbers, PushNumbers, PopNumbers, HandleNumbers
       DEF Reader, Worker

\* Every step keeps the numbers.
LEMMA NumbersStep == TypeInv /\ NumbersInv /\ [Next]_vars => NumbersInv'
<1> SUFFICES ASSUME TypeInv, NumbersInv, [Next]_vars, NEW d \in Clients
             PROVE  NumbersOf(d)'
    BY DEF NumbersInv
<1> USE DEF TypeInv, TypeOK, SessionOK, NetworkOK
<1>0. NumbersOf(d)
    BY DEF NumbersInv
<1>1. CASE UNCHANGED <<inbox, inHand, handled, wire, sent, reader, worker>>
    BY <1>0, <1>1, NumbersUntouched DEF Reading
<1>2. ASSUME NEW c \in Clients, Reader(c) \/ Worker(c)
      PROVE  NumbersOf(d)'
    <2>1. CASE d = c
        BY <1>0, <1>2, <2>1, ThreadsNumbers
    <2>2. CASE d # c
        <3>1. /\ inbox'[d] = inbox[d] /\ reader'[d] = reader[d] /\ worker'[d] = worker[d]
              /\ inHand'[d] = inHand[d] /\ handled'[d] = handled[d]
              /\ wire'[d] = wire[d] /\ sent'[d] = sent[d]
            BY <1>2, <2>2, ThreadsAreLocal
        <3>2. QED
            BY <1>0, <3>1, NumbersUntouched DEF Reading
    <2>3. QED
        BY <2>1, <2>2
<1>3. ASSUME NEW c \in Clients, NEW t \in SendTypes, Send(c, t)
      PROVE  NumbersOf(d)'
    <2>1. CASE d = c
        BY <1>0, <1>3, <2>1, SendNumbers
    <2>2. CASE d # c
        <3>1. UNCHANGED <<inbox, inHand, handled, reader, worker>>
            BY <1>3 DEF Send, session
        <3>2. wire'[d] = wire[d] /\ sent'[d] = sent[d]
            BY <1>3, <2>2 DEF Send
        <3>3. QED
            BY <1>0, <3>1, <3>2, NumbersUntouched DEF Reading
    <2>3. QED
        BY <2>1, <2>2
<1>4. ASSUME NEW c \in Clients, Accept(c)
      PROVE  NumbersOf(d)'
    <2>1. UNCHANGED <<inbox, inHand, handled, wire, sent>>
        BY <1>4 DEF Accept
    <2>2. reader[c] = "none" /\ worker[c] = "none"
        BY <1>4 DEF ServedOK, Accept
    <2>3. worker'[d] \in {"notify", "handle"} <=> worker[d] \in {"notify", "handle"}
        BY <1>4, <2>2 DEF Accept
    <2>4. Reading(d)' => Reading(d)
        BY <1>4, <2>2 DEF Accept, Reading
    <2>5. QED
        BY <1>0, <2>1, <2>3, <2>4, NumbersUntouched
<1>5. CASE NotifySessions
    <2>1. UNCHANGED <<inbox, inHand, handled, wire, sent>>
        BY <1>5 DEF NotifySessions, network
    <2>2. worker'[d] \in {"notify", "handle"} <=> worker[d] \in {"notify", "handle"}
        BY <1>5 DEF NotifySessions, WakeWorker
    <2>3. Reading(d)' => Reading(d)
        BY <1>5 DEF NotifySessions, WakeReader, Reading
    <2>4. QED
        BY <1>0, <2>1, <2>2, <2>3, NumbersUntouched
<1>6. QED
    BY <1>1, <1>2, <1>3, <1>4, <1>5
       DEF Next, vars, Connect, ClientClose, Start, StopCall, StopSignal, StopNotify, StopJoin,
           AcceptTop, AcceptSelect, ReaperWait, Teardown, JoinAcceptor, Retire, JoinReaders,
           JoinWorkers, CloseDown, session, network

\* The length of a concatenation.
LEMMA ConcatLength ==
    ASSUME NEW S, NEW s \in Seq(S), NEW t \in Seq(S)
    PROVE  Len(s \o t) = Len(s) + Len(t)
OBVIOUS

\* What the numbers say of the sequence of frames between handle_frame() and the wire.
LEMMA PipelineInOrder ==
    ASSUME TypeInv, NEW c \in Clients, NumbersOf(c), NEW i \in DOMAIN Pipeline(c)
    PROVE  Pipeline(c)[i].n = handled[c] + i
<1> USE DEF TypeInv, TypeOK, SessionOK
<1> DEFINE W == IF worker[c] \in {"notify", "handle"} THEN <<inHand[c].worker>> ELSE <<>>
           R == IF inHand[c].reader # NoFrame THEN <<inHand[c].reader>> ELSE <<>>
           All == Frame \cup {NoFrame}
<1>1. Pipeline(c) = W \o inbox[c] \o R
    <2>1. worker[c] \in {"notify", "handle"} => inHand[c].worker # NoFrame
        BY DEF HandsOK
    <2>2. inHand[c]["worker"] = inHand[c].worker /\ inHand[c]["reader"] = inHand[c].reader
        OBVIOUS
    <2>3. QED
        BY <2>1, <2>2 DEF Pipeline, Held
<1>2. W \in Seq(All) /\ R \in Seq(All) /\ inbox[c] \in Seq(All)
    <2>1. inHand[c].worker \in All /\ inHand[c].reader \in All
        OBVIOUS
    <2>2. inbox[c] \in Seq(Frame) /\ Frame \subseteq All
        OBVIOUS
    <2>3. inbox[c] \in Seq(All)
        <3> HIDE DEF All
        <3> QED
            BY <2>2
    <2>4. W \in Seq(All)
        <3> HIDE DEF All
        <3>1. <<inHand[c].worker>> \in Seq(All) /\ <<>> \in Seq(All)
            BY <2>1
        <3>2. QED
            BY <3>1
    <2>5. R \in Seq(All)
        <3> HIDE DEF All
        <3>1. <<inHand[c].reader>> \in Seq(All) /\ <<>> \in Seq(All)
            BY <2>1
        <3>2. QED
            BY <3>1
    <2>6. QED
        BY <2>3, <2>4, <2>5
<1>3. Len(W) = InWorker(c) /\ Len(R) \in 0 .. 1 /\ Len(inbox[c]) \in Nat /\ handled[c] \in Nat
    BY DEF InWorker
<1>4. W \o inbox[c] \in Seq(All) /\ Len(W \o inbox[c]) = InWorker(c) + Len(inbox[c])
    BY <1>2, <1>3
<1>5. i \in 1 .. InWorker(c) + Len(inbox[c]) + Len(R)
    <2>1. DOMAIN Pipeline(c) = 1 .. Len(W \o inbox[c] \o R)
        BY <1>1, <1>2, <1>4
    <2>2. Len(W \o inbox[c] \o R) = InWorker(c) + Len(inbox[c]) + Len(R)
        <3> DEFINE WI == W \o inbox[c]
        <3>1. WI \in Seq(All) /\ Len(WI) = InWorker(c) + Len(inbox[c]) /\ R \in Seq(All)
            BY <1>2, <1>4
        <3> HIDE DEF WI, R, All
        <3>2. Len(WI \o R) = Len(WI) + Len(R)
            BY <3>1, ConcatLength
        <3>3. QED
            BY <3>1, <3>2 DEF WI
    <2>3. QED
        BY <2>1, <2>2
<1>6. CASE i <= InWorker(c)
    <2>1. Pipeline(c)[i] = W[i]
        BY <1>1, <1>2, <1>3, <1>4, <1>5, <1>6
    <2>2. i = 1 /\ W[i] = inHand[c].worker /\ worker[c] \in {"notify", "handle"}
        BY <1>5, <1>6 DEF InWorker
    <2>3. QED
        BY <2>1, <2>2 DEF NumbersOf
<1>7. CASE i > InWorker(c) /\ i <= InWorker(c) + Len(inbox[c])
    <2>1. Pipeline(c)[i] = inbox[c][i - InWorker(c)]
        BY <1>1, <1>2, <1>3, <1>4, <1>5, <1>7
    <2>2. i - InWorker(c) \in 1 .. Len(inbox[c])
        BY <1>3, <1>5, <1>7
    <2>3. inbox[c][i - InWorker(c)].n = handled[c] + InWorker(c) + (i - InWorker(c))
        BY <2>2 DEF NumbersOf
    <2>4. QED
        BY <1>3, <1>5, <2>1, <2>3 DEF InWorker
<1>8. CASE i > InWorker(c) + Len(inbox[c])
    <2>1. i = InWorker(c) + Len(inbox[c]) + 1 /\ Len(R) = 1
        BY <1>3, <1>5, <1>8
    <2>2. Pipeline(c)[i] = R[1]
        BY <1>1, <1>2, <1>3, <1>4, <2>1
    <2>3. inHand[c].reader # NoFrame /\ R[1] = inHand[c].reader
        BY <2>1
    <2>4. QED
        BY <1>3, <2>1, <2>2, <2>3 DEF NumbersOf, LastQueued, InWorker
<1>9. QED
    BY <1>3, <1>5, <1>6, <1>7, <1>8 DEF InWorker

\* A session's frames are handled in the order they were sent, none twice, none skipped.
THEOREM FramesStayInOrder == Spec => []FramesInOrder
<1>1. Init => NumbersInv
    BY CoordinatorAssumption
       DEF Init, NumbersInv, NumbersOf, LastRead, LastQueued, InWorker, NoFrame
<1>2. TypeInv /\ NumbersInv => FramesInOrder
    BY PipelineInOrder DEF NumbersInv, FramesInOrder
<1>3. QED
    BY <1>1, <1>2, TypeInit, TypeStep, NumbersStep, PTL DEF Spec

=============================================================================
