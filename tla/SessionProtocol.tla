--------------------------- MODULE SessionProtocol ---------------------------
(***************************************************************************)
(* The session protocol of the coordinator (server.cpp: handle_frame,      *)
(* read_frame, write_frame) together with the blocking client that speaks  *)
(* it (ServiceClient) and the plan store behind it.                        *)
(*                                                                         *)
(* A connection is one accepted socket.  Bytes towards the coordinator are *)
(* whole frames; bytes towards the client are pieces of frames, because    *)
(* the reader's error frame and the worker's answer are written by two     *)
(* threads that share the socket and no lock, and send_all may need more   *)
(* than one send() for a frame.  A client that stops using a connection    *)
(* may open another one while the old session still works on what it had   *)
(* queued.  Threads, queues and their wake-ups are the subject of module   *)
(* Coordinator.  The store is its index: at most one record per digest,    *)
(* replaced and evicted by put().  The steps of one commit on the disk,    *)
(* and a crash between them, are the subject of PlanStore: here a commit   *)
(* either happened or did not when the process is killed, reads succeed,   *)
(* and only the number the next record gets may be lost.                   *)
(***************************************************************************)
EXTENDS Integers, Sequences, FiniteSets

CONSTANTS
    Clients,        \* the ServiceClient objects
    Texts,          \* request texts a client may submit
    Parses,         \* the texts parse_request_text accepts
    Plannable,      \* the texts plan_collective finds a plan for
    Digest,         \* the canonical input digest of a text's request
    Gens,           \* the generations a text's request binds
    Oversized,      \* the texts whose plan response exceeds kMaxFramePayloadBytes
    Unframed,       \* the plans whose record alone exceeds it
    Room,           \* the sets of plans whose records fit the store's bounds together
    Earlier,        \* the plans earlier coordinators left in the store, oldest first
    LongDetail,     \* the texts whose error or denial detail exceeds kMaxDetailBytes
    Stored,         \* whether the coordinator was given a store_root
    PutFails,       \* whether PlanStore::put may fail
    Submits,        \* the texts clients ask a plan for
    AskDigests,     \* the plan ids clients ask the store about
    AskTexts,       \* the texts they revalidate them against
    RawFrames,      \* the kinds of bytes a client sends with send_raw
    Defects,        \* what may be wrong with bytes that are no frame
    MaxConnects,    \* bound: connections opened over all clients
    MaxSends,       \* bound: frames sent by one client
    MaxStarts,      \* bound: starts of the coordinator
    Nil             \* no value

ASSUME TextAssumption ==
    /\ Plannable \subseteq Parses /\ Parses \subseteq Texts
    /\ AskTexts \subseteq Texts /\ Submits \subseteq Texts
    /\ Digest \in [Texts -> Nat] /\ AskDigests \subseteq Nat
    /\ Oversized \subseteq Plannable /\ LongDetail \subseteq Texts \ Plannable

ASSUME BoundAssumption ==
    /\ MaxConnects \in Nat /\ MaxSends \in Nat /\ MaxStarts \in Nat
    /\ Stored \in BOOLEAN /\ PutFails \in BOOLEAN
    /\ RawFrames \subseteq {"malformed", "replay", "badhello", "badpayload", "bye"}
    /\ Defects \subseteq {"magic", "version", "type", "reserved", "crc", "length", "digest"}

VARIABLES
    server,     \* the coordinator process: up, epoch, number of starts, stop request
    store,      \* the store: its records, the sequence number of the last record
                \* and the one store.meta holds; it outlives the process
    commits,    \* history: every commit to the store, oldest first
    conn,       \* every connection accepted so far
    client      \* the state of every ServiceClient

vars == <<server, store, commits, conn, client>>

-----------------------------------------------------------------------------
(* Data.                                                                   *)

Conns == 1 .. Len(conn)

\* A plan as far as the store looks at it.  Its id is the digest of the inputs it was
\* computed from, which covers the generations bound into it except the plan's own.
PlanOf(t) == [digest |-> Digest[t], gens |-> Gens[t]]

Plans == {PlanOf(t) : t \in Plannable}

\* What fits the bounds still fits when a record is taken away, a plan too large for a
\* frame makes a response too large for one, and the store was opened within its bounds.
ASSUME StoreAssumption ==
    /\ Room \subseteq SUBSET Plans
    /\ \A R \in Room : SUBSET R \subseteq Room
    /\ Unframed \subseteq Plans
    /\ \A t \in Plannable : PlanOf(t) \in Unframed => t \in Oversized
    /\ Earlier \in Seq(Plans)
    /\ \A i, j \in 1 .. Len(Earlier) : Earlier[i].digest = Earlier[j].digest => i = j

ASSUME GenerationAssumption ==
    \A t, u \in Texts : Digest[t] = Digest[u] =>
        Gens[t] = [Gens[u] EXCEPT !.plan = Gens[t].plan]

\* The frame types a client may put on the wire with the typed calls.
Calls == {"hello", "ping", "plan", "list", "get", "revalidate", "shutdown"}

\* The reply type each typed call insists on.
ReplyTo(call) ==
    CASE call = "hello"      -> "hello_ack"
      [] call = "ping"       -> "pong"
      [] call = "plan"       -> "plan_response"
      [] call = "list"       -> "list_response"
      [] call = "get"        -> "get_response"
      [] call = "revalidate" -> "revalidate_response"
      [] call = "shutdown"   -> "shutdown_ack"

\* A frame as the client builds it; arg is the payload.  Not on the wire are id, the
\* connection and the number of the frame on it, which names the submission, and
\* since, the number of commits made before it.
Request(type, k, seq, arg, ok) ==
    [type |-> type, seq |-> seq, arg |-> arg, ok |-> ok,
     id |-> <<k, Len(conn[k].sent) + 1>>, since |-> Len(commits)]

\* A reply frame; id names the request it was made for, whole says whether its
\* payload is one the client's decoder accepts.
Reply(type, f, value, whole) ==
    [type |-> type, seq |-> f.seq, value |-> value, id |-> f.id, whole |-> whole]

Refusal(f, code) == Reply("error", f, code, TRUE)

\* The header and the body of an encoded frame, as send_all hands them to send().
Pieces(r) == <<[of |-> r, part |-> "header"], [of |-> r, part |-> "body"]>>

\* decode_frame: the first test that fails names the code.
DecodeError(defects) ==
    LET order == <<"magic", "version", "type", "reserved", "crc", "length", "digest">>
    IN  order[CHOOSE i \in DOMAIN order :
                /\ order[i] \in defects
                /\ \A j \in 1 .. i - 1 : order[j] \notin defects]

-----------------------------------------------------------------------------
(* The store.                                                              *)

\* A record as the index lists it.
Record(p, n) == [plan |-> p, seq |-> n]

\* The order in which put() gives records up: by stored sequence, then by digest.
Before(e, f) ==
    e.seq < f.seq \/ (e.seq = f.seq /\ e.plan.digest < f.plan.digest)

\* The records of other plans that a put of p competes with.
Others(p) == {e \in store.records : e.plan.digest # p.digest}

\* Mutated form: the youngest records are given up first.
KeptOldest(p) ==
    {e \in Others(p) : {p} \cup {g.plan : g \in {f \in Others(p) : ~Before(e, f)}} \in Room}

\* put() gives up the oldest of them until p and the rest fit the bounds, so it keeps
\* each that fits beside p together with all that are not older.
Kept(p) ==
    {e \in Others(p) : {p} \cup {g.plan : g \in {f \in Others(p) : ~Before(f, e)}} \in Room}

\* put() once the record of p is on the disk: it replaces the record of the same
\* digest; saved is the sequence number in store.meta afterwards.
Commit(p, id, saved) ==
    /\ commits' = Append(commits, [plan |-> p, id |-> id, seq |-> store.seq + 1])
    /\ store' = [records |-> Kept(p) \cup {Record(p, store.seq + 1)},
                 seq |-> store.seq + 1, saved |-> saved]

\* The lookup by plan id.
Held(d) == {e \in store.records : e.plan.digest = d}

Found(d) == Stored /\ Held(d) # {}

PlanAt(d) == (CHOOSE e \in Held(d) : TRUE).plan

-----------------------------------------------------------------------------
(* The coordinator's answer to one frame of a handshaken session.          *)

\* assess_freshness: the generation that changed first, in a fixed order.
Freshness(plan, gens) ==
    IF plan.gens = gens THEN "current"
    ELSE IF plan.gens.topology # gens.topology THEN "stale_topology"
    ELSE IF plan.gens.domains # gens.domains THEN "stale_failure_domains"
    ELSE IF plan.gens.capacity # gens.capacity THEN "stale_capacity_evidence"
    ELSE IF plan.gens.policy # gens.policy THEN "stale_policy"
    ELSE "stale_plan_generation"

\* PlanStore::get behind kGetPlanRequest.
GetResponse(f) ==
    Reply("get_response", f,
          [code |-> IF ~Stored THEN "store_not_open"
                    ELSE IF Found(f.arg) THEN "ok" ELSE "not_found",
           plan |-> IF Found(f.arg) THEN PlanAt(f.arg) ELSE Nil,
           freshness |-> IF Found(f.arg) THEN "unverified" ELSE "current"], TRUE)

\* PlanStore::list behind kListPlansRequest.
ListResponse(f) ==
    Reply("list_response", f,
          [code |-> IF Stored THEN "ok" ELSE "store_not_open",
           plans |-> IF Stored THEN {e.plan : e \in store.records} ELSE {}], TRUE)

\* Mutated form: equal inputs are enough, whatever their generations.
StillValidByDigest(plan, text) == plan.digest = Digest[text]

\* What PlanStore::revalidate asks of the plan it found.
StillValid(plan, text) == plan.digest = Digest[text] /\ plan.gens = Gens[text]

\* PlanStore::revalidate behind kRevalidateRequest.  The detail of a parse error, or
\* of the replanning a stale plan sets off, may be too long for the client's decoder.
RevalidateResponse(f) ==
    LET plan == PlanAt(f.arg.digest)
        text == f.arg.text
        stale == Found(f.arg.digest) /\ ~StillValid(plan, text)
    IN  Reply("revalidate_response", f,
              IF text \notin Parses THEN [code |-> "syntax", valid |-> FALSE, freshness |-> "current"]
              ELSE IF ~Stored THEN [code |-> "store_not_open", valid |-> FALSE, freshness |-> "current"]
              ELSE IF ~Found(f.arg.digest)
                   THEN [code |-> "not_found", valid |-> FALSE, freshness |-> "current"]
              ELSE [code |-> Freshness(plan, Gens[text]), valid |-> StillValid(plan, text),
                    freshness |-> Freshness(plan, Gens[text])],
              text \in LongDetail => text \in Parses /\ ~stale)

\* kPlanRequest: the response, given whether put() stored the plan.
PlanResponse(f, stored) ==
    Reply("plan_response", f,
          [code |-> CASE f.arg \in Plannable -> "ok"
                      [] f.arg \in Parses \ Plannable -> "denied"
                      [] OTHER -> "syntax",
           plan |-> IF f.arg \in Plannable THEN PlanOf(f.arg) ELSE Nil,
           stored |-> stored],
          f.arg \notin LongDetail)

-----------------------------------------------------------------------------
(* The life of the coordinator.                                            *)

Init ==
    /\ server = [up |-> FALSE, epoch |-> 0, starts |-> 0, stop |-> Nil]
    /\ store = [records |-> {Record(Earlier[i], i) : i \in 1 .. Len(Earlier)},
                seq |-> Len(Earlier), saved |-> Len(Earlier)]
    /\ commits = [i \in 1 .. Len(Earlier) |-> [plan |-> Earlier[i], id |-> Nil, seq |-> i]]
    /\ conn = <<>>
    /\ client = [c \in Clients |->
                    [conn |-> 0, next |-> 1, sends |-> 0, told |-> {}, kept |-> {},
                     wait |-> Nil, result |-> Nil]]

\* start(): opening the store draws a fresh epoch; without a store it is always 1.
Start ==
    /\ ~server.up
    /\ server.starts < MaxStarts
    /\ server' = [up |-> TRUE, starts |-> server.starts + 1, stop |-> Nil,
                  epoch |-> IF Stored THEN server.starts + 1 ELSE 1]
    /\ UNCHANGED <<store, commits, conn, client>>

\* A session as accept_loop creates it.
NewSession ==
    [sent |-> <<>>, taken |-> 0, inbox |-> <<>>, answer |-> <<>>, complaint |-> <<>>,
     out |-> <<>>, reader |-> "run", worker |-> "idle", down |-> FALSE, closed |-> FALSE,
     handshaken |-> FALSE, last |-> -1, acked |-> Nil, served |-> <<>>, mute |-> Nil]

\* What the end of the process leaves of a connection: the session is gone, and the
\* client can still read what had been sent to it, or a part of that.
Severed(k, keep) ==
    [NewSession EXCEPT !.reader = "done", !.worker = "done", !.down = TRUE,
                       !.out = IF keep THEN conn[k].out ELSE <<>>]

\* A session both of whose threads have ended is of no more consequence.
Settled(s) ==
    IF s.reader = "done" /\ s.worker = "done"
    THEN [NewSession EXCEPT !.reader = "done", !.worker = "done", !.down = s.down, !.out = s.out]
    ELSE s

\* The end of the process, by whatever cause: the next one takes the sequence number
\* n from store.meta.
End(n) ==
    /\ server.up
    /\ server' = [server EXCEPT !.up = FALSE]
    /\ \E keep \in BOOLEAN : conn' = [k \in Conns |-> Severed(k, keep)]
    /\ store' = [store EXCEPT !.seq = n, !.saved = n]
    /\ UNCHANGED <<commits, client>>

\* teardown() after a shutdown request closes the store; a failure to write
\* store.meta there is ignored.
Teardown == server.stop # Nil /\ \E n \in {store.saved, store.seq} : End(n)

\* The process is killed; the bound is that the last life is not.
Kill == server.stop = Nil /\ server.starts < MaxStarts /\ End(store.saved)

-----------------------------------------------------------------------------
(* The client.                                                             *)

Connected(c) == client[c].conn # 0

Idle(c) == Connected(c) /\ client[c].wait = Nil

\* connect(): a new session; sequence numbers restart, what the client was told by
\* earlier handshakes is kept.
Connect(c) ==
    /\ ~Connected(c)
    /\ server.up
    /\ server.stop = Nil
    /\ Len(conn) < MaxConnects
    /\ conn' = Append(conn, NewSession)
    /\ client' = [client EXCEPT ![c] =
            [@ EXCEPT !.conn = Len(conn) + 1, !.next = 1, !.result = Nil]]
    /\ UNCHANGED <<server, store, commits>>

\* Mutated form: close() does not wait for the exchange under way.
CloseMidway(c) ==
    /\ Connected(c)
    /\ conn' = [conn EXCEPT ![client[c].conn].closed = TRUE]
    /\ client' = [client EXCEPT ![c].conn = 0]
    /\ UNCHANGED <<server, store, commits>>

\* close(): it takes the client's mutex, so never during an exchange.
Close(c) ==
    /\ Idle(c)
    /\ LET k == client[c].conn
       IN  conn' = [conn EXCEPT ![k] =
                [@ EXCEPT !.closed = TRUE, !.out = <<>>, !.taken = 0,
                          !.sent = SubSeq(conn[k].sent, conn[k].taken + 1, Len(conn[k].sent))]]
    /\ client' = [client EXCEPT ![c] = [@ EXCEPT !.conn = 0]]
    /\ UNCHANGED <<server, store, commits>>

\* Puts a frame on connection k unless the socket was shut down.
Transmit(k, f) ==
    conn' = [conn EXCEPT ![k] =
                [@ EXCEPT !.sent = IF conn[k].down THEN conn[k].sent ELSE Append(conn[k].sent, f)]]

\* The first half of exchange() and of handshake(): number the frame and send it.
Call(c, type, arg) ==
    /\ Idle(c)
    /\ client[c].sends < MaxSends
    /\ LET k == client[c].conn
           f == Request(type, k, client[c].next, arg, TRUE)
       IN  /\ Transmit(k, f)
           /\ client' = [client EXCEPT ![c] =
                    [@ EXCEPT !.next = client[c].next + 1, !.sends = client[c].sends + 1,
                              !.wait = f, !.result = Nil]]
    /\ UNCHANGED <<server, store, commits>>

CallHello(c) == Call(c, "hello", Nil)

CallPing(c) == Call(c, "ping", Nil)

CallPlan(c) == \E t \in Submits : Call(c, "plan", t)

CallList(c) == Call(c, "list", Nil)

CallGet(c) == \E d \in AskDigests : Call(c, "get", d)

CallRevalidate(c) ==
    \E d \in AskDigests, t \in AskTexts : Call(c, "revalidate", [digest |-> d, text |-> t])

\* shutdown(expected_epoch): the caller names an epoch some coordinator told it.
CallShutdown(c) == \E e \in client[c].told : Call(c, "shutdown", e)

\* send_raw(): bytes that are no frame, a frame sent before, a hello of another
\* version or one that does not decode, and a type no session accepts.  The next
\* call will use the same sequence number.
SendRaw(c, kind) ==
    /\ Idle(c)
    /\ client[c].sends < MaxSends
    /\ LET k == client[c].conn
           Raw(type, arg, ok) == Request(type, k, client[c].next, arg, ok)
       IN  CASE kind = "malformed"  -> \E d \in SUBSET Defects :
                                            /\ d # {}
                                            /\ Transmit(k, Raw("malformed", d, FALSE))
             [] kind = "replay"     -> \E i \in DOMAIN conn[k].sent : Transmit(k, conn[k].sent[i])
             [] kind = "badhello"   -> Transmit(k, Raw("hello", Nil, FALSE))
             [] kind = "badpayload" -> Transmit(k, Raw("plan", Nil, FALSE))
             [] kind = "bye"        -> Transmit(k, Raw("bye", Nil, TRUE))
    /\ client' = [client EXCEPT ![c] = [@ EXCEPT !.sends = client[c].sends + 1]]
    /\ UNCHANGED <<server, store, commits>>

\* read_frame on the client: a header, then the body its header announces.
\* decode_frame accepts only the two parts of one frame.
Decodes(out) ==
    /\ out[1].part = "header"
    /\ out[2].part = "body"
    /\ out[1].of = out[2].of

\* Mutated form: a reply of any type is taken for the answer.
AcceptsAnyType(f, r) == r.seq = f.seq /\ r.whole

\* The tests exchange() and the typed call around it apply to a decoded reply.
Accepts(f, r) ==
    /\ r.seq = f.seq
    /\ r.type = ReplyTo(f.type)
    /\ r.whole

\* The second half of exchange(): a reply arrived.  kept is no state of the client: it
\* remembers every plan it was told is stored, and the request that brought the plan.
Receive(c) ==
    LET k == client[c].conn
        f == client[c].wait
        out == conn[k].out
    IN  /\ Connected(c) /\ f # Nil
        /\ Len(out) >= 2
        /\ Decodes(out)
        /\ conn' = [conn EXCEPT ![k] = [@ EXCEPT !.out = SubSeq(out, 3, Len(out))]]
        /\ LET r == [out[1].of EXCEPT !.value = out[2].of.value, !.id = out[2].of.id]
               ok == Accepts(f, r)
               hail == ok /\ r.type = "hello_ack"
               keeps == ok /\ r.type = "plan_response" /\ r.value.stored
           IN  client' = [client EXCEPT ![c] =
                    [@ EXCEPT !.wait = Nil,
                              !.result = IF ok THEN [call |-> f, reply |-> r] ELSE Nil,
                              !.told = IF hail THEN client[c].told \cup {r.value}
                                               ELSE client[c].told,
                              !.kept = IF keeps
                                       THEN client[c].kept \cup {[plan |-> r.value.plan, id |-> f.id]}
                                       ELSE client[c].kept]]
        /\ UNCHANGED <<server, store, commits>>

\* The bytes at the head of the stream are not one frame.  The call fails and the
\* connection stays open; how much of the stream was consumed depends on lengths
\* the pieces do not have, so any amount may be.
ReceiveGarbage(c) ==
    LET k == client[c].conn
        out == conn[k].out
    IN  /\ Connected(c) /\ client[c].wait # Nil
        /\ IF Len(out) >= 2 THEN ~Decodes(out) ELSE out # <<>> /\ out[1].part = "body"
        /\ \E n \in 1 .. Len(out) :
              conn' = [conn EXCEPT ![k] = [@ EXCEPT !.out = SubSeq(out, n + 1, Len(out))]]
        /\ client' = [client EXCEPT ![c] = [@ EXCEPT !.wait = Nil, !.result = Nil]]
        /\ UNCHANGED <<server, store, commits>>

\* The stream ended before a frame was complete.
ReceiveEof(c) ==
    LET k == client[c].conn
    IN  /\ Connected(c) /\ client[c].wait # Nil
        /\ conn[k].down
        /\ Len(conn[k].out) < 2
        /\ client' = [client EXCEPT ![c] = [@ EXCEPT !.wait = Nil, !.result = Nil]]
        /\ UNCHANGED <<server, store, commits, conn>>

-----------------------------------------------------------------------------
(* The session: its reader.                                                *)

Unread(k) == conn[k].taken < Len(conn[k].sent)

\* A frame that decodes is queued; one that does not makes the reader complain
\* with a frame of sequence 0 and leave.
ReaderTake(k) ==
    /\ conn[k].reader = "run" /\ server.stop = Nil
    /\ Unread(k)
    /\ LET f == conn[k].sent[conn[k].taken + 1]
       IN  IF f.type = "malformed"
           THEN conn' = [conn EXCEPT ![k] =
                    [@ EXCEPT !.taken = conn[k].taken + 1, !.reader = "leaving",
                              !.complaint = Pieces(Refusal([f EXCEPT !.seq = 0], DecodeError(f.arg)))]]
           ELSE conn' = [conn EXCEPT ![k] =
                    [@ EXCEPT !.taken = conn[k].taken + 1, !.inbox = Append(conn[k].inbox, f)]]
    /\ UNCHANGED <<server, store, commits, client>>

\* One send() of the complaint; its failure is ignored.
ReaderComplain(k) ==
    /\ conn[k].reader = "leaving"
    /\ conn[k].complaint # <<>>
    /\ conn' = [conn EXCEPT ![k] =
            IF conn[k].closed
            THEN [@ EXCEPT !.complaint = <<>>]
            ELSE [@ EXCEPT !.complaint = Tail(conn[k].complaint),
                           !.out = Append(conn[k].out, Head(conn[k].complaint))]]
    /\ UNCHANGED <<server, store, commits, client>>

\* Mutated form: the reader leaves without shutting the socket down.
ReaderLeaveQuietly(k) ==
    /\ \/ conn[k].reader = "leaving" /\ conn[k].complaint = <<>>
       \/ conn[k].reader = "run" /\ (server.stop # Nil \/ (conn[k].closed /\ ~Unread(k)))
    /\ conn' = [conn EXCEPT ![k] = Settled([@ EXCEPT !.reader = "done"])]
    /\ UNCHANGED <<server, store, commits, client>>

\* The reader leaves: after its complaint, at the client's close, or because the
\* coordinator is stopping.  Otherwise it shuts the socket down.
ReaderLeave(k) ==
    /\ \/ conn[k].reader = "leaving" /\ conn[k].complaint = <<>>
       \/ conn[k].reader = "run" /\ (server.stop # Nil \/ (conn[k].closed /\ ~Unread(k)))
    /\ conn' = [conn EXCEPT ![k] =
            Settled([@ EXCEPT !.reader = "done", !.down = conn[k].down \/ server.stop = Nil])]
    /\ UNCHANGED <<server, store, commits, client>>

-----------------------------------------------------------------------------
(* The session: its worker.                                                *)

\* The queue's head is answered with r; a frame that does not fit is encoded as
\* nothing at all, and nothing is sent.  mute remembers the request it was for.
Answer(k, r, fits) ==
    [conn[k] EXCEPT !.inbox = Tail(conn[k].inbox), !.worker = "writing",
                    !.answer = IF fits THEN Pieces(r) ELSE <<>>,
                    !.mute = IF fits THEN conn[k].mute ELSE r.id]

\* The frame at the head of the queue, and the tests every frame passes first.
Due(k) == conn[k].worker = "idle" /\ conn[k].inbox # <<>>

\* Mutated form: the sequence number may stay where it is.
FreshOrSame(k) == Head(conn[k].inbox).seq >= conn[k].last

Fresh(k) == Head(conn[k].inbox).seq > conn[k].last

\* Sequence numbers advance strictly inside a session; a frame that does not
\* advance is refused and leaves the session as it was.
HandleReplay(k) ==
    /\ Due(k)
    /\ ~Fresh(k)
    /\ conn' = [conn EXCEPT ![k] = Answer(k, Refusal(Head(conn[k].inbox), "sequence_mismatch"), TRUE)]
    /\ UNCHANGED <<server, store, commits, client>>

\* The session after a frame was taken up: its sequence number is remembered.
Advanced(k, r, fits) == [Answer(k, r, fits) EXCEPT !.last = Head(conn[k].inbox).seq]

\* kHello: a payload that does not decode or names another version is refused, a
\* second handshake too.
HandleHello(k) ==
    LET f == Head(conn[k].inbox)
        ack == [epoch |-> server.epoch, start |-> server.starts]
    IN  /\ Due(k)
        /\ Fresh(k)
        /\ f.type = "hello"
        /\ conn' = [conn EXCEPT ![k] =
                [Advanced(k, IF ~f.ok THEN Refusal(f, "bad_hello")
                             ELSE IF conn[k].handshaken THEN Refusal(f, "sequence_mismatch")
                             ELSE Reply("hello_ack", f, ack, TRUE), TRUE)
                 EXCEPT !.handshaken = @ \/ f.ok]]
        /\ UNCHANGED <<server, store, commits, client>>

\* kPing is answered before the handshake as well.
HandlePing(k) ==
    /\ Due(k)
    /\ Fresh(k)
    /\ Head(conn[k].inbox).type = "ping"
    /\ conn' = [conn EXCEPT ![k] = Advanced(k, Reply("pong", Head(conn[k].inbox), Nil, TRUE), TRUE)]
    /\ UNCHANGED <<server, store, commits, client>>

\* Mutated form: a shutdown request is taken for any epoch.
RefusedIgnoringEpoch(k) ==
    ~conn[k].handshaken \/ Head(conn[k].inbox).type = "bye" \/ ~Head(conn[k].inbox).ok

\* Every other frame needs the handshake, a payload that decodes, and a type that
\* a session accepts.
Refused(k) ==
    LET f == Head(conn[k].inbox)
    IN  \/ ~conn[k].handshaken
        \/ f.type = "bye"
        \/ ~f.ok
        \/ f.type = "shutdown" /\ f.arg.epoch # server.epoch

HandleRefused(k) ==
    LET f == Head(conn[k].inbox)
    IN  /\ Due(k)
        /\ Fresh(k)
        /\ f.type \notin {"hello", "ping"}
        /\ Refused(k)
        /\ conn' = [conn EXCEPT ![k] =
                Advanced(k, Refusal(f, IF ~conn[k].handshaken THEN "handshake_required"
                                       ELSE IF f.type = "bye" THEN "unexpected_type"
                                       ELSE IF ~f.ok THEN "bad_payload"
                                       ELSE "stale_epoch"), TRUE)]
        /\ UNCHANGED <<server, store, commits, client>>

Admitted(k, type) ==
    /\ Due(k)
    /\ Fresh(k)
    /\ Head(conn[k].inbox).type = type
    /\ ~Refused(k)

\* kPlanRequest is answered with whether put() returned success.
Planned(k, stored) ==
    LET f == Head(conn[k].inbox)
    IN  conn' = [conn EXCEPT ![k] =
            [Advanced(k, PlanResponse(f, stored), f.arg \notin Oversized)
             EXCEPT !.served = Append(conn[k].served, f.id)]]

\* A request that has no plan, a coordinator without a store, a record that does not
\* fit the bounds even alone, or a write that failed: nothing is committed.
PlanUnstored(k) ==
    LET t == Head(conn[k].inbox).arg
    IN  /\ t \notin Plannable \/ ~Stored \/ {PlanOf(t)} \notin Room \/ PutFails
        /\ Planned(k, FALSE)
        /\ UNCHANGED <<store, commits>>

\* A plan is committed before it is answered.  When store.meta cannot be written
\* afterwards, put() returns a failure although the record is there.
PlanStored(k) ==
    LET f == Head(conn[k].inbox)
    IN  /\ f.arg \in Plannable /\ Stored /\ {PlanOf(f.arg)} \in Room
        /\ \E ok \in BOOLEAN, saved \in {store.saved, store.seq + 1} :
              /\ IF ok THEN saved = store.seq + 1 ELSE PutFails
              /\ Commit(PlanOf(f.arg), f.id, saved)
              /\ Planned(k, ok)

HandlePlan(k) ==
    /\ Admitted(k, "plan")
    /\ PlanUnstored(k) \/ PlanStored(k)
    /\ UNCHANGED <<server, client>>

\* kGetPlanRequest, kListPlansRequest and kRevalidateRequest only read the store.  The
\* record of a plan too large for a frame is not delivered by get() either; a list of
\* kMaxStoreRecords summaries and the detail of a revalidation fit one.
HandleGet(k) ==
    LET f == Head(conn[k].inbox)
    IN  /\ Admitted(k, "get")
        /\ conn' = [conn EXCEPT ![k] =
                Advanced(k, GetResponse(f), ~(Found(f.arg) /\ PlanAt(f.arg) \in Unframed))]
        /\ UNCHANGED <<server, store, commits, client>>

HandleList(k) ==
    /\ Admitted(k, "list")
    /\ conn' = [conn EXCEPT ![k] = Advanced(k, ListResponse(Head(conn[k].inbox)), TRUE)]
    /\ UNCHANGED <<server, store, commits, client>>

HandleRevalidate(k) ==
    /\ Admitted(k, "revalidate")
    /\ conn' = [conn EXCEPT ![k] = Advanced(k, RevalidateResponse(Head(conn[k].inbox)), TRUE)]
    /\ UNCHANGED <<server, store, commits, client>>

\* kShutdownRequest for the epoch this coordinator holds is acknowledged; the stop
\* is requested once the acknowledgement has been written.
HandleShutdown(k) ==
    /\ Admitted(k, "shutdown")
    /\ LET f == Head(conn[k].inbox)
       IN  conn' = [conn EXCEPT ![k] =
                [Advanced(k, Reply("shutdown_ack", f, f.arg, TRUE), TRUE) EXCEPT !.acked = f.arg]]
    /\ UNCHANGED <<server, store, commits, client>>

\* One send() of the answer.  When the socket is gone the write fails and the
\* worker leaves.
WorkerWrite(k) ==
    /\ conn[k].worker = "writing"
    /\ conn[k].answer # <<>>
    /\ conn' = [conn EXCEPT ![k] =
            IF conn[k].down \/ conn[k].closed
            THEN Settled([@ EXCEPT !.answer = <<>>, !.worker = "done"])
            ELSE [@ EXCEPT !.answer = Tail(conn[k].answer),
                           !.out = Append(conn[k].out, Head(conn[k].answer))]]
    /\ UNCHANGED <<server, store, commits, client>>

\* The worker has nothing left to write: after a shutdown acknowledgement it
\* requests the stop and leaves, and it leaves when the coordinator is stopping.
WorkerFinish(k) ==
    /\ conn[k].worker = "writing"
    /\ conn[k].answer = <<>>
    /\ conn' = [conn EXCEPT ![k] = Settled([@ EXCEPT !.worker =
            IF conn[k].acked # Nil \/ server.stop # Nil THEN "done" ELSE "idle"])]
    /\ server' = [server EXCEPT !.stop = IF @ = Nil THEN conn[k].acked ELSE @]
    /\ UNCHANGED <<store, commits, client>>

\* The worker leaves when the queue is empty and nothing more can enter it.
WorkerLeave(k) ==
    /\ conn[k].worker = "idle"
    /\ conn[k].inbox = <<>>
    /\ conn[k].reader = "done" \/ server.stop # Nil
    /\ conn' = [conn EXCEPT ![k] = Settled([@ EXCEPT !.worker = "done"])]
    /\ UNCHANGED <<server, store, commits, client>>

-----------------------------------------------------------------------------
(* The whole system.                                                       *)

ReaderStep(k) == ReaderTake(k) \/ ReaderComplain(k) \/ ReaderLeave(k)

WorkerStep(k) ==
    \/ HandleReplay(k) \/ HandleHello(k) \/ HandlePing(k) \/ HandleRefused(k)
    \/ HandlePlan(k) \/ HandleGet(k) \/ HandleList(k) \/ HandleRevalidate(k)
    \/ HandleShutdown(k)
    \/ WorkerWrite(k) \/ WorkerFinish(k) \/ WorkerLeave(k)

ClientCall(c) ==
    \/ CallHello(c) \/ CallPing(c) \/ CallPlan(c) \/ CallList(c)
    \/ CallGet(c) \/ CallRevalidate(c) \/ CallShutdown(c)
    \/ \E kind \in RawFrames : SendRaw(c, kind)

ClientRead(c) == Receive(c) \/ ReceiveGarbage(c) \/ ReceiveEof(c)

Next ==
    \/ Start \/ Teardown \/ Kill
    \/ \E c \in Clients : Connect(c) \/ Close(c) \/ ClientCall(c) \/ ClientRead(c)
    \/ \E k \in Conns : ReaderStep(k) \/ WorkerStep(k)

Spec == Init /\ [][Next]_vars

\* The threads of a session and a blocked read are scheduled in the end; nobody has to
\* connect, call, close or be killed, and a stop that was requested may never be
\* carried out (module Coordinator, StopReturns).
Fairness ==
    /\ \A c \in Clients : WF_vars(ClientRead(c))
    /\ \A k \in 1 .. MaxConnects :
          /\ WF_vars(k \in Conns /\ ReaderStep(k))
          /\ WF_vars(k \in Conns /\ WorkerStep(k))

FairSpec == Spec /\ Fairness

-----------------------------------------------------------------------------
(* Properties.                                                             *)

\* Every variable keeps its shape: the coordinator's counters stay within their
\* bounds, the store holds plans, and a client waits only on a connection it has.
TypeOK ==
    /\ server.up \in BOOLEAN /\ server.starts \in 0 .. MaxStarts
    /\ server.epoch \in 0 .. MaxStarts
    /\ store.records \subseteq [plan : Plans, seq : 1 .. Len(commits)]
    /\ store.saved \in 0 .. Len(commits) /\ store.seq \in 0 .. Len(commits)
    /\ Len(conn) <= MaxConnects
    /\ \A k \in Conns :
          /\ conn[k].reader \in {"run", "leaving", "done"}
          /\ conn[k].worker \in {"idle", "writing", "done"}
          /\ conn[k].last \in -1 .. MaxSends /\ conn[k].taken \in 0 .. Len(conn[k].sent)
    /\ \A c \in Clients :
          /\ client[c].conn \in 0 .. Len(conn)
          /\ client[c].next \in 1 .. MaxSends + 1
          /\ client[c].wait # Nil => Connected(c)

\* A typed call of ServiceClient only ever returns the reply the coordinator made
\* for that very call: not the late answer to an earlier call that failed, not the
\* refusal of a replayed frame, not two interleaved frames of reader and worker.
ResultIsOwn ==
    \A c \in Clients :
        client[c].result # Nil =>
            client[c].result.reply.id = client[c].result.call.id

\* A frame sent once or replayed many times is planned and committed at most once
\* in its session (handle_frame's sequence test).
ServedOnce ==
    \A k \in Conns : \A i, j \in DOMAIN conn[k].served :
        conn[k].served[i] = conn[k].served[j] => i = j

\* Commit n is the last one of its digest among the first i.
Newest(n, i) == \A m \in n + 1 .. i : commits[m].plan.digest # commits[n].plan.digest

\* The commits among the first i that put() prefers to n when it makes room: those of
\* plans not replaced by then whose records are not older.
Rivals(n, i) == {m \in 1 .. i : m # n /\ commits[m].seq >= commits[n].seq /\ Newest(m, i)}

\* When commit i was made there was no room for n beside it and what put() prefers.
Crowded(n, i) ==
    {commits[n].plan, commits[i].plan} \cup {commits[m].plan : m \in Rivals(n, i)} \notin Room

\* The record of commit n is there, was replaced by a later commit of the same digest,
\* or had to go because of the bounds.
Accounted(n) ==
    \/ Record(commits[n].plan, commits[n].seq) \in store.records
    \/ ~Newest(n, Len(commits))
    \/ \E i \in n + 1 .. Len(commits) : Crowded(n, i)

\* A client that was ever told its plan is stored can rely on it: that very plan was
\* committed for that very request, and whatever happened to the session and the process
\* since, its record is still in the store unless a later commit of the same digest
\* replaced it or later commits left no room for it within max_records and
\* max_total_bytes.  A plan whose commit failed is not passed off as stored.
AnsweredPlanIsStored ==
    \A c \in Clients : \A p \in client[c].kept :
        \E n \in DOMAIN commits :
            commits[n].id = p.id /\ commits[n].plan = p.plan /\ Accounted(n)

\* A coordinator stops on request only for a client that learned the epoch from
\* this very process: an epoch held since before a restart is no authority.
StopIsForThisProcess ==
    server.stop # Nil => server.stop.start = server.starts

\* A revalidation that answers "valid" is right about the store as it was at some moment
\* of the call: the newest commit under the digest asked about was then a plan made from
\* exactly the inputs and generations of the text it was given, not one that a commit
\* known to the caller, or any before the call, had replaced.
ValidMeansSameInputs ==
    \A c \in Clients :
        LET r == client[c].result
        IN  r # Nil /\ r.call.type = "revalidate" /\ r.reply.value.valid =>
                /\ r.call.arg.text \in Parses
                /\ r.call.arg.digest = Digest[r.call.arg.text]
                /\ \E i \in r.call.since .. Len(commits) : \E n \in 1 .. i :
                      commits[n].plan = PlanOf(r.call.arg.text) /\ Newest(n, i)

\* The call a client waits on was answered with a frame that does not fit, which
\* encode_frame turns into no bytes at all.
Swallowed(c) ==
    client[c].wait # Nil /\ conn[client[c].conn].mute = client[c].wait.id

\* The coordinator was asked to stop and has not ended.
Stopping == server.up /\ server.stop # Nil

\* Every exchange ends, with an answer or a failure, unless its answer was too large
\* for a frame or the coordinator hangs in a stop that never completes: replays,
\* malformed frames, a reader that leaves early, a shutdown that is carried out and a
\* killed process never leave a client blocked in read_frame.
ExchangeEnds ==
    \A c \in Clients :
        client[c].wait # Nil ~> (client[c].wait = Nil \/ Swallowed(c) \/ []Stopping)

\* A blocking call of ServiceClient returns.
EveryCallReturns ==
    \A c \in Clients : client[c].wait # Nil ~> client[c].wait = Nil
=============================================================================
