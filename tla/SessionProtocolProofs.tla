----------------------- MODULE SessionProtocolProofs -----------------------
(***************************************************************************)
(* Proofs about the session protocol, for any clients, texts and stored    *)
(* plans, any number of connections and of starts of the coordinator.      *)
(***************************************************************************)
EXTENDS SessionProtocol, TLAPS

-----------------------------------------------------------------------------
(* Types *)

\* What a hello_ack carries: a coordinator with a store draws the epoch of its n-th
\* start from the store, and that is n.
Issued == {a \in [epoch : Nat, start : Nat] : Stored => a.epoch = a.start}

Args ==
    {Nil} \cup Texts \cup AskDigests \cup [digest : AskDigests, text : AskTexts] \cup Issued
          \cup SUBSET Defects

\* The frames clients put on the wire.  A shutdown request names an epoch some
\* coordinator told, and no raw frame passes for a ping.
Frames ==
    {f \in [type : Calls \cup {"malformed", "bye"}, seq : 1 .. MaxSends, arg : Args,
            ok : BOOLEAN, id : Nat \X Nat, since : Nat] :
        /\ f.type = "shutdown" => f.arg \in Issued
        /\ f.type = "ping" => f.ok}

ReplyTypes ==
    {"error", "hello_ack", "pong", "plan_response", "list_response", "get_response",
     "revalidate_response", "shutdown_ack"}

Refusals ==
    {"sequence_mismatch", "bad_hello", "handshake_required", "unexpected_type", "bad_payload",
     "stale_epoch"} \cup {DecodeError(d) : d \in Args}

States ==
    {"current", "unverified", "stale_topology", "stale_failure_domains",
     "stale_capacity_evidence", "stale_policy", "stale_plan_generation"}

Codes == {"ok", "denied", "syntax", "store_not_open", "not_found"} \cup States

Values ==
    {Nil} \cup Refusals \cup Args
    \cup [code : Codes, plan : Plans \cup {Nil}, freshness : States]
    \cup [code : Codes, plans : SUBSET Plans]
    \cup [code : Codes, valid : BOOLEAN, freshness : States]
    \cup [code : Codes, plan : Plans \cup {Nil}, stored : BOOLEAN]

\* The frames the coordinator puts on the wire.
Replies ==
    {r \in [type : ReplyTypes, seq : 0 .. MaxSends, value : Values, id : Nat \X Nat,
            whole : BOOLEAN] :
        r.type = "hello_ack" => r.value \in Issued}

PieceSet == [of : Replies, part : {"header", "body"}]

Sessions ==
    [sent : Seq(Frames), taken : Nat, inbox : Seq(Frames),
     answer : Seq(PieceSet), complaint : Seq(PieceSet), out : Seq(PieceSet),
     reader : {"run", "leaving", "done"}, worker : {"idle", "writing", "done"},
     down : BOOLEAN, closed : BOOLEAN, handshaken : BOOLEAN,
     last : -1 .. MaxSends, acked : Issued \cup {Nil}, served : Seq(Nat \X Nat),
     mute : (Nat \X Nat) \cup {Nil}]

ClientStates ==
    [conn : Nat, next : 1 .. MaxSends + 1, sends : 0 .. MaxSends, told : SUBSET Issued,
     kept : SUBSET [plan : Plans \cup {Nil}, id : Nat \X Nat],
     wait : Frames \cup {Nil}, result : [call : Frames, reply : Replies] \cup {Nil}]

Servers ==
    [up : BOOLEAN, epoch : 0 .. MaxStarts, starts : 0 .. MaxStarts, stop : Issued \cup {Nil}]

Stores == [records : SUBSET [plan : Plans, seq : Nat], seq : Nat, saved : Nat]

Commits == [plan : Plans, id : (Nat \X Nat) \cup {Nil}, seq : Nat]

Typed ==
    /\ server \in Servers
    /\ conn \in Seq(Sessions)
    /\ client \in [Clients -> ClientStates]

-----------------------------------------------------------------------------
(* The inductive invariant *)

Elems(s) == {s[i] : i \in DOMAIN s}

\* The frames of a session that are or may come to be in its inbox.
Queued(s) == Elems(s.sent) \cup Elems(s.inbox)

\* The replies on their way to the client.
Spoken(s) == {p.of : p \in Elems(s.answer) \cup Elems(s.out)}

\* A frame of one of the typed calls.
Genuine(f) == f.ok /\ f.type # "bye"

\* The record of commit n.
RecordOf(n) == Record(commits[n].plan, commits[n].seq)

\* The store holds the newest commits of their digests, and every commit is accounted
\* for; numbers do not run ahead of the commits.
StoreOK ==
    /\ store \in Stores /\ commits \in Seq(Commits)
    /\ store.seq <= Len(commits) /\ store.saved <= Len(commits)
    /\ \A n \in 1 .. Len(commits) : commits[n].seq \in 1 .. Len(commits)
    /\ \A e \in store.records :
          \E n \in 1 .. Len(commits) : e = RecordOf(n) /\ Newest(n, Len(commits))
    /\ \A n \in 1 .. Len(commits) : Accounted(n)

\* A plan was committed for the request with this id.
Committed(plan, id) ==
    \E n \in 1 .. Len(commits) : commits[n].id = id /\ commits[n].plan = plan

\* At some moment after the first j commits the plan was the newest of its digest.
WasNewest(plan, j) ==
    \E i \in j .. Len(commits) : \E n \in 1 .. i : commits[n].plan = plan /\ Newest(n, i)

\* What a client that gets the reply r for its frame f may conclude.
Answers(r, f) ==
    /\ r.seq = f.seq /\ r.id = f.id
    /\ r.type = "plan_response" /\ r.value.stored => Committed(r.value.plan, r.id)
    /\ r.type = "revalidate_response" /\ r.value.valid =>
          /\ f.arg.text \in Parses
          /\ f.arg.digest = Digest[f.arg.text]
          /\ WasNewest(PlanOf(f.arg.text), f.since)

\* A frame keeps its sequence number when it is replayed, frames that differ have
\* different names, and what was served is not above the last number taken up.
NumbersOK(s) ==
    /\ \A f, g \in Queued(s) : f.id = g.id => f.seq = g.seq
    /\ \A f \in Queued(s) : \A i \in DOMAIN s.served : f.id = s.served[i] => f.seq <= s.last
    /\ ~s.closed =>
          /\ \A f \in Queued(s) : f.id[2] <= Len(s.sent)
          /\ \A i \in DOMAIN s.served : s.served[i][2] <= Len(s.sent)
    /\ \A i, j \in DOMAIN s.served : s.served[i] = s.served[j] => i = j

\* A session of a process that has ended does nothing more, a shutdown that was
\* acknowledged is for this process, and the reader's own frames are refusals.
LifeOK(s) ==
    /\ s.taken <= Len(s.sent)
    /\ ~server.up => s.reader = "done" /\ s.worker = "done"
    /\ s.reader = "done" /\ s.worker = "done" => s.acked = Nil
    /\ Stored /\ s.acked # Nil => s.acked.start = server.starts
    /\ \A p \in Elems(s.complaint) : p.of.type = "error"

\* No frame was built after commits yet to come.
NewsOK(s) == \A f \in Queued(s) : f.since <= Len(commits)

\* What is under way for a client on its connection s.
ExchangeOK(m, s) ==
    /\ ~s.closed
    /\ \A f \in Queued(s) : Genuine(f) =>
          f.seq < m.next /\ (m.wait # Nil /\ f.seq = m.wait.seq => f = m.wait)
    /\ \A r \in Spoken(s) : r.type # "error" =>
          r.seq < m.next /\ (m.wait # Nil /\ r.seq = m.wait.seq => Answers(r, m.wait))

ClientOK(c) ==
    LET m == client[c]
    IN  /\ m.conn \in 0 .. Len(conn)
        /\ m.conn # 0 => ExchangeOK(m, conn[m.conn])
        /\ \A d \in Clients \ {c} : m.conn # 0 => client[d].conn # m.conn
        /\ m.next <= m.sends + 1
        /\ \A p \in m.kept : Committed(p.plan, p.id)
        /\ m.wait # Nil => m.conn # 0 /\ m.wait.type \in Calls /\ m.wait.seq < m.next
        /\ m.result # Nil =>
              /\ Answers(m.result.reply, m.result.call)
              /\ m.result.reply.type = ReplyTo(m.result.call.type)

ServerOK ==
    /\ Stored => server.epoch = server.starts
    /\ Stored => StopIsForThisProcess

Inv ==
    /\ Typed
    /\ Len(conn) <= MaxConnects
    /\ ServerOK
    /\ StoreOK
    /\ \A k \in Conns : NumbersOK(conn[k]) /\ LifeOK(conn[k]) /\ NewsOK(conn[k])
    /\ \A c \in Clients : ClientOK(c)

-----------------------------------------------------------------------------
(* Sequences *)

\* Replacing one element of a sequence.
LEMMA Replaced ==
    ASSUME NEW S, NEW q \in Seq(S), NEW k \in 1 .. Len(q), NEW x \in S,
           NEW r, r = [q EXCEPT ![k] = x]
    PROVE  /\ r \in Seq(S) /\ Len(r) = Len(q)
           /\ r[k] = x
           /\ \A j \in 1 .. Len(q) : j # k => r[j] = q[j]
OBVIOUS

\* The elements of the sequences that the operations on queues return.
LEMMA ElemsType ==
    ASSUME NEW S, NEW q \in Seq(S)
    PROVE  Elems(q) \subseteq S
BY DEF Elems

\* The empty queue has none.
LEMMA ElemsEmpty == Elems(<<>>) = {}
BY DEF Elems

\* Append adds one.
LEMMA ElemsAppend ==
    ASSUME NEW S, NEW q \in Seq(S), NEW x \in S
    PROVE  Append(q, x) \in Seq(S) /\ Elems(Append(q, x)) = Elems(q) \cup {x}
<1>1. DOMAIN Append(q, x) = 1 .. Len(q) + 1 /\ DOMAIN q = 1 .. Len(q) /\ Len(q) \in Nat
    OBVIOUS
<1>2. Append(q, x)[Len(q) + 1] = x /\ \A i \in 1 .. Len(q) : Append(q, x)[i] = q[i]
    OBVIOUS
<1>3. Len(q) + 1 \in 1 .. Len(q) + 1 /\ 1 .. Len(q) + 1 = (1 .. Len(q)) \cup {Len(q) + 1}
    BY <1>1
<1>4. QED
    BY <1>1, <1>2, <1>3 DEF Elems

\* Tail takes none that was not there.
LEMMA ElemsTail ==
    ASSUME NEW S, NEW q \in Seq(S), q # <<>>
    PROVE  /\ Tail(q) \in Seq(S) /\ Head(q) \in S /\ Head(q) \in Elems(q)
           /\ Elems(Tail(q)) \subseteq Elems(q)
<1>1. Len(q) \in Nat \ {0} /\ DOMAIN q = 1 .. Len(q) /\ Head(q) = q[1]
    OBVIOUS
<1>2. Tail(q) \in Seq(S) /\ DOMAIN Tail(q) = 1 .. Len(q) - 1
    OBVIOUS
<1>3. \A i \in 1 .. Len(q) - 1 : Tail(q)[i] = q[i + 1] /\ i + 1 \in 1 .. Len(q)
    BY <1>1
<1>4. 1 \in 1 .. Len(q)
    BY <1>1, SMTT(30)
<1>5. QED
    BY <1>1, <1>2, <1>3, <1>4 DEF Elems

\* Neither does the rest of a queue.
LEMMA ElemsSubSeq ==
    ASSUME NEW S, NEW q \in Seq(S), NEW n \in Nat
    PROVE  /\ SubSeq(q, n + 1, Len(q)) \in Seq(S)
           /\ Elems(SubSeq(q, n + 1, Len(q))) \subseteq Elems(q)
<1> DEFINE r == SubSeq(q, n + 1, Len(q))
<1>1. Len(q) \in Nat /\ DOMAIN q = 1 .. Len(q)
    OBVIOUS
<1>2. r \in Seq(S)
    BY <1>1
<1>3. \A i \in 1 .. Len(r) : i + n \in 1 .. Len(q) /\ r[i] = q[i + n]
    BY <1>1
<1>4. DOMAIN r = 1 .. Len(r)
    BY <1>2
<1>5. QED
    BY <1>1, <1>2, <1>3, <1>4 DEF Elems

\* Both pieces of an encoded frame are pieces of that frame.
LEMMA PiecesType ==
    ASSUME NEW r \in Replies
    PROVE  Pieces(r) \in Seq(PieceSet) /\ \A p \in Elems(Pieces(r)) : p.of = r
<1>1. [of |-> r, part |-> "header"] \in PieceSet /\ [of |-> r, part |-> "body"] \in PieceSet
    BY DEF PieceSet
<1>2. QED
    BY <1>1 DEF Pieces, Elems

-----------------------------------------------------------------------------
(* Sessions *)

\* Commits are only added.
Longer ==
    /\ commits' \in Seq(Commits)
    /\ Len(commits) <= Len(commits')
    /\ \A n \in 1 .. Len(commits) : commits'[n] = commits[n]

\* What a step does to the store.
Growing == StoreOK' /\ Longer

\* Whether a commit is the newest of its digest among the first i is not changed by more.
LEMMA NewestKept ==
    ASSUME Inv, Longer, NEW i \in Nat, i <= Len(commits), NEW n \in 1 .. i
    PROVE  Newest(n, i)' <=> Newest(n, i)
<1>1. Len(commits) \in Nat
    BY DEF Inv, StoreOK
<1>2. n \in 1 .. Len(commits) /\ \A m \in n + 1 .. i : m \in 1 .. Len(commits)
    BY <1>1
<1>3. QED
    BY <1>2 DEF Newest, Longer

\* What was committed stays committed.
LEMMA CommittedKept ==
    ASSUME Inv, Longer, NEW plan, NEW id, Committed(plan, id)
    PROVE  Committed(plan, id)'
<1>1. PICK n \in 1 .. Len(commits) : commits[n].id = id /\ commits[n].plan = plan
    BY DEF Committed
<1>2. Len(commits) \in Nat /\ Len(commits') \in Nat
    BY DEF Inv, Longer, StoreOK
<1>3. n \in 1 .. Len(commits')
    BY <1>2 DEF Longer
<1>4. QED
    BY <1>1, <1>3 DEF Committed, Longer

\* What was the newest at some moment was so for good.
LEMMA WasNewestKept ==
    ASSUME Inv, Longer, NEW plan, NEW j \in Nat, WasNewest(plan, j)
    PROVE  WasNewest(plan, j)'
<1>1. PICK i \in j .. Len(commits) : \E n \in 1 .. i : commits[n].plan = plan /\ Newest(n, i)
    BY DEF WasNewest
<1>2. PICK n \in 1 .. i : commits[n].plan = plan /\ Newest(n, i)
    BY <1>1
<1>3. Len(commits) \in Nat /\ Len(commits') \in Nat
    BY DEF Inv, Longer, StoreOK
<1>4. i \in Nat /\ i <= Len(commits) /\ i \in j .. Len(commits') /\ n \in 1 .. Len(commits)
    BY <1>3 DEF Longer
<1>5. Newest(n, i)'
    BY <1>2, <1>4, NewestKept
<1>6. commits'[n].plan = plan
    BY <1>2, <1>4 DEF Longer
<1>7. QED
    BY <1>4, <1>5, <1>6 DEF WasNewest

\* An answer stays right when the store grows.
LEMMA AnswersKept ==
    ASSUME Inv, Longer, NEW r, NEW f, f.since \in Nat, Answers(r, f)
    PROVE  Answers(r, f)'
<1>1. r.type = "plan_response" /\ r.value.stored => Committed(r.value.plan, r.id)'
    BY CommittedKept DEF Answers
<1>2. r.type = "revalidate_response" /\ r.value.valid => WasNewest(PlanOf(f.arg.text), f.since)'
    BY WasNewestKept DEF Answers
<1>3. QED
    BY <1>1, <1>2 DEF Answers, PlanOf

\* The requests a client waits on or has the result of are frames.
LEMMA CallType ==
    ASSUME Inv, NEW c \in Clients
    PROVE  /\ client[c].wait # Nil => client[c].wait.since \in Nat
           /\ client[c].result # Nil => client[c].result.call.since \in Nat
BY DEF Inv, Typed, ClientStates, Frames

\* What a client was told stays right when the store grows.
LEMMA ToldKept ==
    ASSUME Inv, Longer, NEW c \in Clients, NEW m, m = client[c]
    PROVE  /\ \A p \in m.kept : Committed(p.plan, p.id)'
           /\ m.result # Nil => Answers(m.result.reply, m.result.call)'
<1>1. ASSUME NEW p \in m.kept
      PROVE  Committed(p.plan, p.id)'
    <2>1. Committed(p.plan, p.id)
        BY <1>1 DEF Inv, ClientOK
    <2>2. QED
        BY <2>1, CommittedKept
<1>2. ASSUME m.result # Nil
      PROVE  Answers(m.result.reply, m.result.call)'
    <2>1. Answers(m.result.reply, m.result.call)
        BY <1>2 DEF Inv, ClientOK
    <2>2. QED
        BY <1>2, <2>1, CallType, AnswersKept
<1>3. QED
    BY <1>1, <1>2

\* So does an answer to the call a client waits on.
LEMMA WaitKept ==
    ASSUME Inv, Longer, NEW c \in Clients, NEW m, m = client[c], m.wait # Nil,
           NEW r, Answers(r, m.wait)
    PROVE  Answers(r, m.wait)'
BY CallType, AnswersKept

\* A commit stays accounted for while the records and the commits stay.
LEMMA AccountedKept ==
    ASSUME UNCHANGED commits, store'.records = store.records,
           NEW n, Accounted(n)
    PROVE  Accounted(n)'
<1>0. \A m, i : Newest(m, i)' <=> Newest(m, i)
    BY DEF Newest
<1>1. ASSUME NEW i \in n + 1 .. Len(commits), Crowded(n, i)
      PROVE  Crowded(n, i)'
    <2>1. Rivals(n, i)' = Rivals(n, i)
        BY <1>0 DEF Rivals
    <2>2. {commits'[m].plan : m \in Rivals(n, i)'} = {commits[m].plan : m \in Rivals(n, i)}
        BY <2>1
    <2>3. QED
        BY <1>1, <2>2 DEF Crowded
<1>2. CASE Record(commits[n].plan, commits[n].seq) \in store.records
    BY <1>2 DEF Accounted, Record
<1>3. CASE ~Newest(n, Len(commits))
    BY <1>0, <1>3 DEF Accounted
<1>4. CASE \E i \in n + 1 .. Len(commits) : Crowded(n, i)
    BY <1>1, <1>4 DEF Accounted
<1>5. QED
    BY <1>2, <1>3, <1>4 DEF Accounted

\* A step that leaves the store alone.
LEMMA Steady ==
    ASSUME Inv, UNCHANGED <<store, commits>>
    PROVE  Growing
<1>3. \A n, i : Newest(n, i)' <=> Newest(n, i)
    BY DEF Newest
<1>4. ASSUME NEW n \in 1 .. Len(commits), Accounted(n)
      PROVE  Accounted(n)'
    BY <1>4, AccountedKept
<1>1. StoreOK'
    <2>1. \A n \in 1 .. Len(commits) : Accounted(n)'
        BY <1>4 DEF Inv, StoreOK
    <2>2. \A n : RecordOf(n)' = RecordOf(n)
        BY DEF RecordOf, Record
    <2>3. ASSUME NEW e \in store.records
          PROVE  \E n \in 1 .. Len(commits) : e = RecordOf(n)' /\ Newest(n, Len(commits))'
        <3>1. PICK n \in 1 .. Len(commits) : e = RecordOf(n) /\ Newest(n, Len(commits))
            BY <2>3 DEF Inv, StoreOK
        <3>2. QED
            BY <1>3, <2>2, <3>1
    <2>4. QED
        BY <2>1, <2>3 DEF Inv, StoreOK
<1>2. Len(commits) \in Nat /\ commits \in Seq(Commits)
    BY DEF Inv, StoreOK
<1>5. QED
    BY <1>1, <1>2 DEF Growing, Longer

\* A step of a session's threads keeps what its client relies on when it queues no new
\* frame and says nothing new but refusals and right answers to queued frames.
LEMMA SessionKeepsClients ==
    ASSUME Inv, NEW k \in Conns, NEW s \in Sessions, conn' = [conn EXCEPT ![k] = s],
           UNCHANGED client, Longer,
           Queued(s) \subseteq Queued(conn[k]), s.closed => conn[k].closed,
           \A r \in Spoken(s) :
              \/ r \in Spoken(conn[k])
              \/ r.type = "error"
              \/ \E f \in Queued(conn[k]) : Genuine(f) /\ Answers(r, f)',
           NEW c \in Clients
    PROVE  ClientOK(c)'
<1>0. PICK m : m = client[c]
    OBVIOUS
<1>1. conn \in Seq(Sessions) /\ ClientOK(c)
    BY DEF Inv, Typed
<1>2. conn' \in Seq(Sessions) /\ Len(conn') = Len(conn) /\ conn'[k] = s
      /\ \A j \in 1 .. Len(conn) : j # k => conn'[j] = conn[j]
    BY <1>1, Replaced DEF Conns
<1>3. ASSUME m.conn # 0
      PROVE  ExchangeOK(client[c], conn[client[c].conn])'
    <2>1. m.conn \in Conns /\ ExchangeOK(m, conn[m.conn])
        BY <1>0, <1>1, <1>3 DEF ClientOK, Conns
    <2>2. CASE m.conn = k
        <3>1. ~s.closed
            BY <2>1, <2>2 DEF ExchangeOK
        <3>2. \A f \in Queued(s) : Genuine(f) =>
                  f.seq < m.next /\ (m.wait # Nil /\ f.seq = m.wait.seq => f = m.wait)
            BY <2>1, <2>2 DEF ExchangeOK
        <3>3. ASSUME NEW r \in Spoken(s), r.type # "error"
              PROVE  r.seq < m.next /\ (m.wait # Nil /\ r.seq = m.wait.seq => Answers(r, m.wait)')
            <4>1. CASE r \in Spoken(conn[k])
                <5>1. r.seq < m.next /\ (m.wait # Nil /\ r.seq = m.wait.seq => Answers(r, m.wait))
                    BY <2>1, <2>2, <3>3, <4>1 DEF ExchangeOK
                <5>2. QED
                    BY <1>0, <5>1, WaitKept
            <4>2. ASSUME NEW f \in Queued(conn[k]), Genuine(f), Answers(r, f)'
                  PROVE  r.seq < m.next
                         /\ (m.wait # Nil /\ r.seq = m.wait.seq => Answers(r, m.wait)')
                <5>1. f.seq < m.next /\ (m.wait # Nil /\ f.seq = m.wait.seq => f = m.wait)
                    BY <2>1, <2>2, <4>2 DEF ExchangeOK
                <5>2. r.seq = f.seq
                    BY <4>2 DEF Answers
                <5>3. QED
                    BY <4>2, <5>1, <5>2
            <4>3. QED
                BY <3>3, <4>1, <4>2
        <3>4. conn'[client'[c].conn] = s /\ client'[c] = m
            BY <1>0, <1>2, <2>2
        <3>5. QED
            BY <3>1, <3>2, <3>3, <3>4 DEF ExchangeOK
    <2>3. CASE m.conn # k
        <3>1. conn'[client'[c].conn] = conn[m.conn] /\ client'[c] = m
            BY <1>0, <1>2, <2>1, <2>3 DEF Conns
        <3>2. \A r \in Spoken(conn[m.conn]) : r.type # "error" =>
                  r.seq < m.next /\ (m.wait # Nil /\ r.seq = m.wait.seq => Answers(r, m.wait)')
            BY <1>0, <2>1, WaitKept DEF ExchangeOK
        <3>3. QED
            BY <2>1, <3>1, <3>2 DEF ExchangeOK
    <2>4. QED
        BY <2>2, <2>3
<1>4. /\ \A p \in m.kept : Committed(p.plan, p.id)'
      /\ m.result # Nil => Answers(m.result.reply, m.result.call)'
    BY <1>0, ToldKept
<1>5. QED
    BY <1>0, <1>1, <1>2, <1>3, <1>4 DEF ClientOK

\* What a queued frame says of the commits before it.
LEMMA QueuedSince ==
    ASSUME Inv, NEW k \in Conns, NEW f \in Queued(conn[k])
    PROVE  f \in Frames /\ f.since \in Nat
<1>1. conn[k] \in Sessions
    BY DEF Inv, Typed, Conns
<1>2. conn[k].sent \in Seq(Frames) /\ conn[k].inbox \in Seq(Frames)
    BY <1>1 DEF Sessions
<1>3. f \in Frames
    BY <1>2, ElemsType DEF Queued
<1>4. QED
    BY <1>3 DEF Frames

\* The invariant after a step that replaces one session and at most sets the stop
\* request of the coordinator.
LEMMA SessionStep ==
    ASSUME Inv, NEW k \in Conns, NEW s \in Sessions, conn' = [conn EXCEPT ![k] = s],
           UNCHANGED client, Growing,
           server' \in Servers, ServerOK',
           server'.up = server.up, server'.starts = server.starts,
           NumbersOK(s), LifeOK(s),
           Queued(s) \subseteq Queued(conn[k]), s.closed => conn[k].closed,
           \A r \in Spoken(s) :
              \/ r \in Spoken(conn[k])
              \/ r.type = "error"
              \/ \E f \in Queued(conn[k]) : Genuine(f) /\ Answers(r, f)'
    PROVE  Inv'
<1>1. conn \in Seq(Sessions)
    BY DEF Inv, Typed
<1>2. conn' \in Seq(Sessions) /\ Len(conn') = Len(conn) /\ conn'[k] = s
      /\ \A j \in 1 .. Len(conn) : j # k => conn'[j] = conn[j]
    BY <1>1, Replaced DEF Conns
<1>3. \A c \in Clients : ClientOK(c)'
    BY SessionKeepsClients DEF Growing
<1>4. \A j \in Conns : NumbersOK(conn'[j]) /\ LifeOK(conn'[j])
    BY <1>2 DEF Inv, Conns
<1>5. \A j \in Conns' : (NumbersOK(conn[j]) /\ LifeOK(conn[j]))'
    BY <1>2, <1>4 DEF Conns, NumbersOK, LifeOK
<1>6. \A j \in Conns' : NewsOK(conn[j])'
    <2> SUFFICES ASSUME NEW j \in Conns', NEW f \in Queued(conn'[j])
                 PROVE  f.since <= Len(commits')
        BY DEF NewsOK
    <2>1. j \in Conns /\ f \in Queued(conn[j])
        BY <1>2 DEF Conns
    <2>2. f.since <= Len(commits)
        BY <2>1 DEF Inv, NewsOK
    <2>3. f.since \in Nat /\ Len(commits) \in Nat /\ Len(commits') \in Nat
        BY <2>1, QueuedSince DEF Inv, Growing, Longer, StoreOK
    <2>4. QED
        BY <2>2, <2>3 DEF Growing, Longer
<1>7. StoreOK'
    BY DEF Growing
<1>8. QED
    BY <1>2, <1>3, <1>5, <1>6, <1>7 DEF Inv, Typed

-----------------------------------------------------------------------------
(* Numbers and life of one session *)

\* The names and numbers of a session are kept when it only loses frames.
LEMMA NumbersQuiet ==
    ASSUME NEW s, NEW t, NumbersOK(s), Queued(t) \subseteq Queued(s),
           t.served = s.served, t.last = s.last, t.sent = s.sent, t.closed = s.closed
    PROVE  NumbersOK(t)
BY DEF NumbersOK

\* A session without frames that has served none has nothing to mix up.
LEMMA NumbersEmpty ==
    ASSUME NEW t, t.sent = <<>>, t.inbox = <<>>, t.served = <<>>
    PROVE  NumbersOK(t)
<1>1. Queued(t) = {}
    BY ElemsEmpty DEF Queued
<1>2. DOMAIN t.served = {}
    OBVIOUS
<1>3. QED
    BY <1>1, <1>2 DEF NumbersOK

\* They are kept when the head of the queue is taken up, and served for the first time.
LEMMA NumbersAdvance ==
    ASSUME NEW s \in Sessions, NumbersOK(s), NEW f \in Queued(s), f.seq > s.last,
           NEW t \in Sessions, Queued(t) \subseteq Queued(s), t.sent = s.sent, t.closed = s.closed,
           t.last = f.seq, t.served \in {s.served, Append(s.served, f.id)}
    PROVE  NumbersOK(t)
<1>1. /\ s.served \in Seq(Nat \X Nat) /\ s.last \in Int /\ t.last \in Int
      /\ s.sent \in Seq(Frames) /\ s.inbox \in Seq(Frames)
    BY SMTT(30) DEF Sessions
<1>2. \A g \in Queued(s) : g.seq \in Int /\ g.id \in Nat \X Nat
    <2>1. Queued(s) \subseteq Frames
        BY <1>1, ElemsType DEF Queued
    <2>2. QED
        BY <2>1 DEF Frames
<1>3. CASE t.served = s.served
    BY <1>1, <1>2, <1>3, SMTT(30) DEF NumbersOK
<1>4. CASE t.served = Append(s.served, f.id)
    <2> DEFINE n == Len(s.served)
    <2>1. n \in Nat /\ DOMAIN s.served = 1 .. n /\ DOMAIN t.served = 1 .. n + 1
        BY <1>1, <1>2, <1>4
    <2>2. t.served[n + 1] = f.id /\ \A i \in 1 .. n : t.served[i] = s.served[i]
        BY <1>1, <1>2, <1>4
    <2>3. \A i \in 1 .. n : f.id # s.served[i]
        <3>1. ~(f.seq <= s.last)
            BY <1>1, <1>2
        <3>2. QED
            BY <2>1, <3>1 DEF NumbersOK
    <2>4. \A i \in 1 .. n + 1 : i \in 1 .. n \/ i = n + 1
        BY <2>1
    <2> HIDE DEF n
    <2>5. \A i, j \in DOMAIN t.served : t.served[i] = t.served[j] => i = j
        BY <2>1, <2>2, <2>3, <2>4 DEF NumbersOK
    <2>6. \A g \in Queued(t) : \A i \in DOMAIN t.served : g.id = t.served[i] => g.seq <= t.last
        <3>1. ASSUME NEW g \in Queued(t), NEW i \in DOMAIN t.served, g.id = t.served[i]
              PROVE  g.seq <= t.last
            <4>1. CASE i \in 1 .. n
                <5>1. g.seq <= s.last
                    BY <2>1, <2>2, <3>1, <4>1 DEF NumbersOK
                <5>2. QED
                    BY <1>1, <1>2, <5>1
            <4>2. CASE i = n + 1
                <5>1. g.seq = f.seq
                    BY <2>2, <3>1, <4>2 DEF NumbersOK
                <5>2. QED
                    BY <1>1, <5>1
            <4>3. QED
                BY <2>1, <2>4, <4>1, <4>2
        <3>2. QED
            BY <3>1
    <2>7. ~t.closed => \A i \in DOMAIN t.served : t.served[i][2] <= Len(t.sent)
        BY <2>1, <2>2, <2>4 DEF NumbersOK
    <2>8. QED
        BY <2>5, <2>6, <2>7 DEF NumbersOK
<1>5. QED
    BY <1>3, <1>4

\* A session whose threads have both ended is reset to one that says what it has said.
LEMMA SettledKeeps ==
    ASSUME NEW s \in Sessions, NumbersOK(s), s.taken <= Len(s.sent), server.up,
           Stored /\ s.acked # Nil => s.acked.start = server.starts,
           \A p \in Elems(s.complaint) : p.of.type = "error"
    PROVE  /\ Settled(s) \in Sessions
           /\ NumbersOK(Settled(s)) /\ LifeOK(Settled(s))
           /\ Queued(Settled(s)) \subseteq Queued(s) /\ Spoken(Settled(s)) \subseteq Spoken(s)
           /\ Settled(s).closed => s.closed
<1> DEFINE t == Settled(s)
<1>1. CASE s.reader = "done" /\ s.worker = "done"
    <2> DEFINE e == <<>>
    <2>1. e \in Seq(Frames) /\ e \in Seq(PieceSet) /\ e \in Seq(Nat \X Nat) /\ Len(e) = 0
        OBVIOUS
    <2>3. t = [sent |-> e, taken |-> 0, inbox |-> e, answer |-> e, complaint |-> e,
               out |-> s.out, reader |-> "done", worker |-> "done", down |-> s.down,
               closed |-> FALSE, handshaken |-> FALSE, last |-> -1, acked |-> Nil, served |-> e,
               mute |-> Nil]
        BY <1>1 DEF Settled, NewSession
    <2>2. /\ t.sent = e /\ t.inbox = e /\ t.served = e /\ t.answer = e /\ t.complaint = e
          /\ t.out = s.out /\ t.taken = 0 /\ t.acked = Nil /\ t.reader = "done"
          /\ t.worker = "done" /\ ~t.closed
        BY <2>3
    <2>4. Elems(e) = {}
        BY ElemsEmpty
    <2> HIDE DEF e, t
    <2>5. -1 \in -1 .. MaxSends
        BY BoundAssumption
    <2>6. t \in Sessions
        BY <2>1, <2>3, <2>5 DEF Sessions
    <2>7. NumbersOK(t)
        BY <2>2, NumbersEmpty DEF e
    <2>8. LifeOK(t)
        BY <2>1, <2>2, <2>4 DEF LifeOK
    <2>9. Queued(t) \subseteq Queued(s) /\ Spoken(t) \subseteq Spoken(s)
        BY <2>2, <2>4 DEF Queued, Spoken
    <2>10. QED
        BY <2>2, <2>6, <2>7, <2>8, <2>9 DEF t
<1>2. CASE ~(s.reader = "done" /\ s.worker = "done")
    <2>1. t = s
        BY <1>2 DEF Settled
    <2>2. QED
        BY <1>2, <2>1 DEF LifeOK
<1>3. QED
    BY <1>1, <1>2

-----------------------------------------------------------------------------
(* The worker *)

\* The parts of a typed session.
LEMMA SessionParts ==
    ASSUME Inv, NEW k \in Conns
    PROVE  /\ conn[k] \in Sessions
           /\ NumbersOK(conn[k]) /\ LifeOK(conn[k])
           /\ conn[k].sent \in Seq(Frames) /\ conn[k].inbox \in Seq(Frames)
           /\ conn[k].answer \in Seq(PieceSet) /\ conn[k].complaint \in Seq(PieceSet)
           /\ conn[k].out \in Seq(PieceSet)
<1>1. conn[k] \in Sessions
    BY DEF Inv, Typed, Conns
<1>2. QED
    BY <1>1 DEF Inv, Sessions

\* The frame at the head of the queue.
LEMMA HeadType ==
    ASSUME Inv, NEW k \in Conns, Due(k)
    PROVE  /\ Head(conn[k].inbox) \in Frames /\ Head(conn[k].inbox) \in Queued(conn[k])
           /\ Tail(conn[k].inbox) \in Seq(Frames)
           /\ Elems(Tail(conn[k].inbox)) \subseteq Elems(conn[k].inbox)
BY SessionParts, ElemsTail DEF Due, Queued

\* A session that has answered the head of its queue with r.
Handled(k, s, r) ==
    /\ s \in Sessions
    /\ s.sent = conn[k].sent /\ s.taken = conn[k].taken /\ s.inbox = Tail(conn[k].inbox)
    /\ s.out = conn[k].out /\ s.complaint = conn[k].complaint
    /\ \A p \in Elems(s.answer) : p.of = r
    /\ s.reader = conn[k].reader /\ s.worker = "writing"
    /\ s.closed = conn[k].closed

\* A frame is handled by a refusal or by a right answer.
LEMMA HandledStep ==
    ASSUME Inv, NEW k \in Conns, Due(k), NEW f, f = Head(conn[k].inbox),
           NEW s, NEW r, Handled(k, s, r),
           conn' = [conn EXCEPT ![k] = s], UNCHANGED <<server, client>>,
           Growing,
           r.type = "error" \/ (Genuine(f) /\ Answers(r, f)'),
           NumbersOK(s),
           Stored /\ s.acked # Nil => s.acked.start = server.starts
    PROVE  Inv'
<1>1. f \in Queued(conn[k]) /\ Elems(Tail(conn[k].inbox)) \subseteq Elems(conn[k].inbox)
    BY HeadType
<1>2. Queued(s) \subseteq Queued(conn[k])
    BY <1>1 DEF Queued, Handled
<1>3. \A q \in Spoken(s) :
          \/ q \in Spoken(conn[k])
          \/ q.type = "error"
          \/ \E g \in Queued(conn[k]) : Genuine(g) /\ Answers(q, g)'
    <2> SUFFICES ASSUME NEW q \in Spoken(s)
                 PROVE  \/ q \in Spoken(conn[k])
                        \/ q.type = "error"
                        \/ \E g \in Queued(conn[k]) : Genuine(g) /\ Answers(q, g)'
        OBVIOUS
    <2>1. PICK p \in Elems(s.answer) \cup Elems(s.out) : q = p.of
        BY DEF Spoken
    <2>2. CASE p \in Elems(s.answer)
        <3>1. q = r
            BY <2>1, <2>2 DEF Handled
        <3>2. QED
            BY <1>1, <3>1
    <2>3. CASE p \in Elems(s.out)
        BY <2>1, <2>3 DEF Spoken, Handled
    <2>4. QED
        BY <2>1, <2>2, <2>3
<1>4. LifeOK(s)
    BY SessionParts DEF LifeOK, Handled, Due
<1>5. server' \in Servers /\ ServerOK'
    BY DEF Inv, Typed, ServerOK, StopIsForThisProcess
<1>6. QED
    BY <1>2, <1>3, <1>4, <1>5, SessionStep DEF Handled

\* What Answer and Advanced make of a session.
LEMMA AnswerShape ==
    ASSUME Inv, NEW k \in Conns, Due(k), NEW r \in Replies, NEW fits \in BOOLEAN
    PROVE  LET s == Answer(k, r, fits)
           IN  /\ Handled(k, s, r)
               /\ s.last = conn[k].last /\ s.acked = conn[k].acked
               /\ s.served = conn[k].served /\ s.handshaken = conn[k].handshaken
<1> DEFINE s == Answer(k, r, fits)
           a == IF fits THEN Pieces(r) ELSE <<>>
           u == IF fits THEN conn[k].mute ELSE r.id
<1>1. conn[k] \in Sessions /\ Tail(conn[k].inbox) \in Seq(Frames)
    BY SessionParts, HeadType
<1>2. a \in Seq(PieceSet) /\ \A p \in Elems(a) : p.of = r
    <2>1. <<>> \in Seq(PieceSet) /\ Elems(<<>>) = {}
        BY ElemsEmpty
    <2>2. QED
        BY <2>1, PiecesType
<1>3. s = [conn[k] EXCEPT !.inbox = Tail(conn[k].inbox), !.worker = "writing", !.answer = a,
                          !.mute = u]
    BY DEF Answer
<1>8. u \in (Nat \X Nat) \cup {Nil}
    <2>1. conn[k].mute \in (Nat \X Nat) \cup {Nil} /\ r.id \in Nat \X Nat
        BY <1>1, SMTT(30) DEF Sessions, Replies
    <2>2. QED
        BY <2>1
<1> HIDE DEF s, a, u
<1>4. s \in Sessions
    BY <1>1, <1>2, <1>3, <1>8 DEF Sessions
<1>5. /\ s.sent = conn[k].sent /\ s.taken = conn[k].taken /\ s.inbox = Tail(conn[k].inbox)
      /\ s.out = conn[k].out /\ s.complaint = conn[k].complaint /\ s.answer = a
      /\ s.reader = conn[k].reader /\ s.worker = "writing" /\ s.closed = conn[k].closed
      /\ s.last = conn[k].last /\ s.acked = conn[k].acked
      /\ s.served = conn[k].served /\ s.handshaken = conn[k].handshaken
    BY <1>1, <1>3 DEF Sessions
<1>6. Handled(k, s, r)
    BY <1>2, <1>4, <1>5 DEF Handled
<1>7. QED
    BY <1>5, <1>6 DEF s

\* Advanced also remembers the number of the frame, which is fresh.
LEMMA AdvancedShape ==
    ASSUME Inv, NEW k \in Conns, Due(k), Fresh(k), NEW r \in Replies, NEW fits \in BOOLEAN
    PROVE  LET s == Advanced(k, r, fits)
           IN  /\ Handled(k, s, r)
               /\ s.last = Head(conn[k].inbox).seq /\ s.acked = conn[k].acked
               /\ s.served = conn[k].served /\ s.handshaken = conn[k].handshaken
               /\ NumbersOK(s)
<1> DEFINE b == Answer(k, r, fits)
           s == Advanced(k, r, fits)
           n == Head(conn[k].inbox).seq
<1>1. /\ Handled(k, b, r)
      /\ b.last = conn[k].last /\ b.acked = conn[k].acked
      /\ b.served = conn[k].served /\ b.handshaken = conn[k].handshaken
    BY AnswerShape
<1>2. n \in -1 .. MaxSends
    <2>1. n \in 1 .. MaxSends
        BY HeadType DEF Frames
    <2>2. QED
        BY <2>1, BoundAssumption
<1>3. s = [b EXCEPT !.last = n]
    BY DEF Advanced
<1> HIDE DEF s, b, n
<1>4. b \in Sessions
    BY <1>1 DEF Handled
<1>5. s \in Sessions
    BY <1>2, <1>3, <1>4 DEF Sessions
<1>6. /\ s.sent = b.sent /\ s.taken = b.taken /\ s.inbox = b.inbox /\ s.answer = b.answer
      /\ s.out = b.out /\ s.complaint = b.complaint
      /\ s.reader = b.reader /\ s.worker = b.worker /\ s.closed = b.closed
      /\ s.last = n /\ s.acked = b.acked
      /\ s.served = b.served /\ s.handshaken = b.handshaken
    BY <1>3, <1>4 DEF Sessions
<1>7. Handled(k, s, r)
    BY <1>1, <1>5, <1>6 DEF Handled
<1>8. Queued(s) \subseteq Queued(conn[k])
    BY <1>7, HeadType DEF Queued, Handled
<1>9. Head(conn[k].inbox).seq > conn[k].last
    BY DEF Fresh
<1>10. NumbersOK(s)
    BY <1>1, <1>5, <1>6, <1>7, <1>8, <1>9, SessionParts, HeadType, NumbersAdvance, ZenonT(40)
       DEF Handled, n
<1>11. QED
    BY <1>1, <1>6, <1>7, <1>10 DEF s, n

\* A reply takes the number and the name of the frame it is for.
LEMMA ReplyType ==
    ASSUME NEW type \in ReplyTypes, NEW f \in Frames, NEW v \in Values, NEW whole \in BOOLEAN,
           type = "hello_ack" => v \in Issued
    PROVE  /\ Reply(type, f, v, whole) \in Replies
           /\ Reply(type, f, v, whole).type = type /\ Reply(type, f, v, whole).value = v
           /\ Reply(type, f, v, whole).seq = f.seq /\ Reply(type, f, v, whole).id = f.id
<1>1. f.seq \in 0 .. MaxSends /\ f.id \in Nat \X Nat
    <2>1. f.seq \in 1 .. MaxSends /\ f.id \in Nat \X Nat
        BY DEF Frames
    <2>2. QED
        BY <2>1, BoundAssumption
<1>2. QED
    BY <1>1 DEF Reply, Replies

\* A refusal is an error frame.
LEMMA RefusalType ==
    ASSUME NEW f \in Frames, NEW code \in Refusals
    PROVE  Refusal(f, code) \in Replies /\ Refusal(f, code).type = "error"
<1>1. code \in Values /\ "error" \in ReplyTypes
    BY DEF Values, ReplyTypes
<1>2. Reply("error", f, code, TRUE) \in Replies /\ Reply("error", f, code, TRUE).type = "error"
    BY <1>1, ReplyType
<1>3. QED
    BY <1>2 DEF Refusal

\* A replayed frame is refused.
LEMMA HandleReplayStep ==
    ASSUME Inv, NEW k \in Conns, HandleReplay(k)
    PROVE  Inv'
<1>1. Due(k) /\ UNCHANGED <<server, store, commits, client>>
    BY DEF HandleReplay
<1>2. PICK f : f = Head(conn[k].inbox)
    OBVIOUS
<1>3. PICK r : r = Refusal(f, "sequence_mismatch")
    OBVIOUS
<1>4. r \in Replies /\ r.type = "error"
    <2>1. f \in Frames
        BY <1>1, <1>2, HeadType
    <2>2. "sequence_mismatch" \in Refusals
        BY DEF Refusals
    <2>3. QED
        BY <1>3, <2>1, <2>2, RefusalType
<1>5. PICK s : s = Answer(k, r, TRUE)
    OBVIOUS
<1>6. conn' = [conn EXCEPT ![k] = s]
    BY <1>2, <1>3, <1>5 DEF HandleReplay
<1>7. /\ Handled(k, s, r)
      /\ s.last = conn[k].last /\ s.acked = conn[k].acked /\ s.served = conn[k].served
    BY <1>1, <1>4, <1>5, AnswerShape
<1>8. Queued(s) \subseteq Queued(conn[k])
    BY <1>1, <1>7, HeadType DEF Queued, Handled
<1>9. NumbersOK(s)
    BY <1>7, <1>8, SessionParts, NumbersQuiet DEF Handled
<1>10. Stored /\ s.acked # Nil => s.acked.start = server.starts
    BY <1>7, SessionParts DEF LifeOK
<1>11. Growing
    BY <1>1, Steady
<1>12. QED
    BY <1>1, <1>2, <1>4, <1>6, <1>7, <1>9, <1>10, <1>11, HandledStep

\* A frame that is taken up and changes neither the store nor what the session remembers.
LEMMA AdvancedStep ==
    ASSUME Inv, NEW k \in Conns, Due(k), Fresh(k), NEW f, f = Head(conn[k].inbox),
           NEW fits \in BOOLEAN, NEW r \in Replies, r.type = "error" \/ (Genuine(f) /\ Answers(r, f)),
           conn' = [conn EXCEPT ![k] = Advanced(k, r, fits)],
           UNCHANGED <<server, store, commits, client>>
    PROVE  Inv'
<1>1. PICK s : s = Advanced(k, r, fits)
    OBVIOUS
<1>2. Handled(k, s, r) /\ s.acked = conn[k].acked /\ NumbersOK(s)
    BY <1>1, AdvancedShape
<1>3. Stored /\ s.acked # Nil => s.acked.start = server.starts
    BY <1>2, SessionParts DEF LifeOK
<1>4. Growing
    BY Steady
<1>5. Answers(r, f) => Answers(r, f)'
    BY <1>4, HeadType, QueuedSince, AnswersKept DEF Growing
<1>6. QED
    BY <1>1, <1>2, <1>3, <1>4, <1>5, HandledStep

\* kHello
LEMMA HandleHelloStep ==
    ASSUME Inv, NEW k \in Conns, HandleHello(k)
    PROVE  Inv'
<1>1. Due(k) /\ Fresh(k) /\ UNCHANGED <<server, store, commits, client>>
    BY DEF HandleHello
<1>2. PICK f : f = Head(conn[k].inbox)
    OBVIOUS
<1>3. f \in Frames /\ f.type = "hello" /\ f.ok \in BOOLEAN
    BY <1>1, <1>2, HeadType DEF HandleHello, Frames
<1>4. PICK v : v = [epoch |-> server.epoch, start |-> server.starts]
    OBVIOUS
<1>5. v \in Issued
    <2>1. server.epoch \in Nat /\ server.starts \in Nat /\ (Stored => server.epoch = server.starts)
        BY BoundAssumption DEF Inv, Typed, Servers, ServerOK
    <2>2. QED
        BY <1>4, <2>1 DEF Issued
<1>6. PICK r : r = IF ~f.ok THEN Refusal(f, "bad_hello")
                   ELSE IF conn[k].handshaken THEN Refusal(f, "sequence_mismatch")
                   ELSE Reply("hello_ack", f, v, TRUE)
    OBVIOUS
<1>7. r \in Replies /\ (r.type = "error" \/ (Genuine(f) /\ Answers(r, f)))
    <2>1. CASE ~f.ok \/ conn[k].handshaken
        <3>1. "bad_hello" \in Refusals /\ "sequence_mismatch" \in Refusals
            BY DEF Refusals
        <3>2. QED
            BY <1>3, <1>6, <2>1, <3>1, RefusalType
    <2>2. CASE f.ok /\ ~conn[k].handshaken
        <3>1. v \in Values /\ "hello_ack" \in ReplyTypes
            BY <1>5 DEF Values, Args, ReplyTypes
        <3>2. r = Reply("hello_ack", f, v, TRUE)
            BY <1>6, <2>2
        <3>3. r \in Replies /\ r.type = "hello_ack" /\ r.seq = f.seq /\ r.id = f.id
            <4>1. f \in Frames
                BY <1>3
            <4>2. QED
                BY <1>5, <3>1, <3>2, <4>1, ReplyType, ZenonT(40)
        <3>4. QED
            BY <1>3, <2>2, <3>3 DEF Genuine, Answers
    <2>3. QED
        BY <1>3, <2>1, <2>2
<1>8. PICK b : b = Advanced(k, r, TRUE)
    OBVIOUS
<1>9. /\ Handled(k, b, r)
      /\ b.last = f.seq /\ b.acked = conn[k].acked /\ b.served = conn[k].served
      /\ b.handshaken = conn[k].handshaken
      /\ NumbersOK(b)
    BY <1>1, <1>2, <1>7, <1>8, AdvancedShape
<1>10. PICK s : s = [b EXCEPT !.handshaken = b.handshaken \/ f.ok]
    OBVIOUS
<1>11. conn' = [conn EXCEPT ![k] = s]
    BY <1>2, <1>4, <1>6, <1>8, <1>10 DEF HandleHello
<1>12. b \in Sessions
    BY <1>9 DEF Handled
<1>13. s \in Sessions
    BY <1>3, <1>10, <1>12 DEF Sessions
<1>14. /\ s.sent = b.sent /\ s.taken = b.taken /\ s.inbox = b.inbox /\ s.answer = b.answer
       /\ s.out = b.out /\ s.complaint = b.complaint
       /\ s.reader = b.reader /\ s.worker = b.worker /\ s.closed = b.closed
       /\ s.last = b.last /\ s.acked = b.acked /\ s.served = b.served
    BY <1>10, <1>12 DEF Sessions
<1>15. Handled(k, s, r)
    BY <1>9, <1>13, <1>14 DEF Handled
<1>16. NumbersOK(s)
    BY <1>9, <1>14, NumbersQuiet DEF Queued
<1>17. Stored /\ s.acked # Nil => s.acked.start = server.starts
    BY <1>9, <1>14, SessionParts DEF LifeOK
<1>18. Growing
    BY <1>1, Steady
<1>19. Answers(r, f) => Answers(r, f)'
    BY <1>1, <1>2, <1>18, HeadType, QueuedSince, AnswersKept DEF Growing
<1>20. QED
    BY <1>1, <1>2, <1>7, <1>11, <1>15, <1>16, <1>17, <1>18, <1>19, HandledStep

\* kPing, and every frame that is refused
LEMMA HandlePingStep ==
    ASSUME Inv, NEW k \in Conns, HandlePing(k)
    PROVE  Inv'
<1>1. Due(k) /\ Fresh(k) /\ UNCHANGED <<server, store, commits, client>>
    BY DEF HandlePing
<1>2. PICK f : f = Head(conn[k].inbox)
    OBVIOUS
<1>3. f \in Frames /\ Genuine(f)
    BY <1>1, <1>2, HeadType DEF HandlePing, Frames, Genuine
<1>4. PICK r : r = Reply("pong", f, Nil, TRUE)
    OBVIOUS
<1>5. r \in Replies /\ r.type = "pong" /\ r.seq = f.seq /\ r.id = f.id
    <2>1. Nil \in Values /\ "pong" \in ReplyTypes
        BY DEF Values, ReplyTypes
    <2>2. QED
        BY <1>3, <1>4, <2>1, ReplyType, ZenonT(40)
<1>6. Answers(r, f)
    BY <1>5 DEF Answers
<1>7. conn' = [conn EXCEPT ![k] = Advanced(k, r, TRUE)]
    BY <1>2, <1>4 DEF HandlePing
<1>8. QED
    BY <1>1, <1>2, <1>3, <1>5, <1>6, <1>7, AdvancedStep

\* A frame that is not admitted is refused.
LEMMA HandleRefusedStep ==
    ASSUME Inv, NEW k \in Conns, HandleRefused(k)
    PROVE  Inv'
<1>1. Due(k) /\ Fresh(k) /\ UNCHANGED <<server, store, commits, client>>
    BY DEF HandleRefused
<1>2. PICK f : f = Head(conn[k].inbox)
    OBVIOUS
<1>3. PICK e : e = IF ~conn[k].handshaken THEN "handshake_required"
                   ELSE IF f.type = "bye" THEN "unexpected_type"
                   ELSE IF ~f.ok THEN "bad_payload"
                   ELSE "stale_epoch"
    OBVIOUS
<1>4. f \in Frames /\ e \in Refusals
    BY <1>1, <1>2, <1>3, HeadType DEF Refusals
<1>5. PICK r : r = Refusal(f, e)
    OBVIOUS
<1>6. r \in Replies /\ r.type = "error"
    BY <1>4, <1>5, RefusalType
<1>7. conn' = [conn EXCEPT ![k] = Advanced(k, r, TRUE)]
    BY <1>2, <1>3, <1>5 DEF HandleRefused
<1>8. QED
    BY <1>1, <1>2, <1>6, <1>7, AdvancedStep

\* The frame of an admitted request is genuine.
LEMMA AdmittedFrame ==
    ASSUME Inv, NEW k \in Conns, NEW type, type \notin {"bye"}, Admitted(k, type),
           NEW f, f = Head(conn[k].inbox)
    PROVE  f \in Frames /\ f.type = type /\ Genuine(f) /\ Due(k) /\ Fresh(k)
BY HeadType DEF Admitted, Refused, Genuine

\* kPlanRequest
LEMMA PlanResponseRight ==
    ASSUME NEW f \in Frames, NEW stored \in BOOLEAN, stored => f.arg \in Plannable
    PROVE  /\ PlanResponse(f, stored) \in Replies
           /\ PlanResponse(f, stored).type = "plan_response"
           /\ PlanResponse(f, stored).seq = f.seq /\ PlanResponse(f, stored).id = f.id
           /\ PlanResponse(f, stored).value.stored = stored
           /\ stored => PlanResponse(f, stored).value.plan = PlanOf(f.arg)
<1>1. PICK v : v = [code |-> CASE f.arg \in Plannable -> "ok"
                               [] f.arg \in Parses \ Plannable -> "denied"
                               [] OTHER -> "syntax",
                    plan |-> IF f.arg \in Plannable THEN PlanOf(f.arg) ELSE Nil,
                    stored |-> stored]
    OBVIOUS
<1>2. v.code \in Codes
    BY <1>1 DEF Codes
<1>3. v.plan \in Plans \cup {Nil}
    BY <1>1 DEF Plans
<1>4. v \in Values
    <2>1. v \in [code : Codes, plan : Plans \cup {Nil}, stored : BOOLEAN]
        BY <1>1, <1>2, <1>3
    <2>2. QED
        BY <2>1 DEF Values
<1>5. "plan_response" \in ReplyTypes
    BY DEF ReplyTypes
<1>6. PlanResponse(f, stored) = Reply("plan_response", f, v, f.arg \notin LongDetail)
    BY <1>1 DEF PlanResponse
<1>7. v.stored = stored /\ (stored => v.plan = PlanOf(f.arg))
    BY <1>1
<1>8. PICK whole \in BOOLEAN : whole = (f.arg \notin LongDetail)
    OBVIOUS
<1>9. LET r == Reply("plan_response", f, v, whole)
      IN  /\ r \in Replies /\ r.type = "plan_response" /\ r.value = v
          /\ r.seq = f.seq /\ r.id = f.id
    BY <1>4, <1>5, ReplyType
<1>10. QED
    BY <1>6, <1>7, <1>8, <1>9

\* A plan request is answered, with "stored" only after its commit.
LEMMA PlannedStep ==
    ASSUME Inv, NEW k \in Conns, Admitted(k, "plan"), NEW f, f = Head(conn[k].inbox),
           NEW stored \in BOOLEAN, Planned(k, stored),
           UNCHANGED <<server, client>>, Growing,
           stored => f.arg \in Plannable /\ Committed(PlanOf(f.arg), f.id)'
    PROVE  Inv'
<1>3. f \in Frames /\ Genuine(f) /\ Due(k) /\ Fresh(k)
    BY AdmittedFrame, SMTT(30)
<1>4. conn' = [conn EXCEPT ![k] =
                    [Advanced(k, PlanResponse(f, stored), f.arg \notin Oversized)
                     EXCEPT !.served = Append(conn[k].served, f.id)]]
    BY DEF Planned
<1>5. PICK r : r = PlanResponse(f, stored)
    OBVIOUS
<1>6. /\ r \in Replies /\ r.type = "plan_response" /\ r.seq = f.seq /\ r.id = f.id
      /\ r.value.stored = stored /\ (stored => r.value.plan = PlanOf(f.arg))
    BY <1>3, <1>5, PlanResponseRight
<1>8. Answers(r, f)'
    BY <1>6 DEF Answers
<1>9. PICK fits \in BOOLEAN : fits = (f.arg \notin Oversized)
    OBVIOUS
<1>10. PICK b : b = Advanced(k, r, fits)
    OBVIOUS
<1>11. /\ Handled(k, b, r)
       /\ b.last = f.seq /\ b.acked = conn[k].acked /\ b.served = conn[k].served
    BY <1>3, <1>6, <1>10, AdvancedShape
<1>12. PICK s : s = [b EXCEPT !.served = Append(b.served, f.id)]
    OBVIOUS
<1>13. conn' = [conn EXCEPT ![k] = s]
    BY <1>4, <1>5, <1>9, <1>10, <1>11, <1>12
<1>14. b \in Sessions /\ b.served \in Seq(Nat \X Nat) /\ f.id \in Nat \X Nat
    BY <1>3, <1>11 DEF Handled, Sessions, Frames
<1>15. Append(b.served, f.id) \in Seq(Nat \X Nat)
    BY <1>14
<1>16. s \in Sessions
    BY <1>12, <1>14, <1>15 DEF Sessions
<1>17. /\ s.sent = b.sent /\ s.taken = b.taken /\ s.inbox = b.inbox /\ s.answer = b.answer
       /\ s.out = b.out /\ s.complaint = b.complaint
       /\ s.reader = b.reader /\ s.worker = b.worker /\ s.closed = b.closed
       /\ s.last = b.last /\ s.acked = b.acked /\ s.served = Append(conn[k].served, f.id)
    BY <1>11, <1>12, <1>14 DEF Sessions
<1>18. Handled(k, s, r)
    BY <1>11, <1>16, <1>17 DEF Handled
<1>19. Queued(s) \subseteq Queued(conn[k])
    BY <1>3, <1>18, HeadType DEF Queued, Handled
<1>20. f \in Queued(conn[k]) /\ f.seq > conn[k].last
    BY <1>3, HeadType DEF Fresh
<1>21. NumbersOK(s)
    BY <1>11, <1>16, <1>17, <1>18, <1>19, <1>20, SessionParts, NumbersAdvance DEF Handled
<1>22. Stored /\ s.acked # Nil => s.acked.start = server.starts
    BY <1>11, <1>17, SessionParts DEF LifeOK
<1>23. QED
    BY <1>3, <1>8, <1>13, <1>18, <1>21, <1>22, HandledStep

\* A record that put() gives up had no room beside the new one and those it prefers.
LEMMA LeftForRoom ==
    ASSUME Inv, NEW p \in Plans, NEW N, N = Len(commits), NEW n \in 1 .. N,
           RecordOf(n) \in store.records, commits[n].plan.digest # p.digest,
           RecordOf(n) \notin Kept(p),
           NEW q, NEW id, commits' = Append(commits, [plan |-> p, id |-> id, seq |-> q]),
           commits' \in Seq(Commits)
    PROVE  Accounted(n)'
<1>1. commits \in Seq(Commits) /\ N \in Nat
    BY DEF Inv, StoreOK
<1>2. /\ Len(commits') = N + 1 /\ \A m \in 1 .. N : commits'[m] = commits[m]
      /\ commits'[N + 1].plan = p
    BY <1>1
<1>3. PICK e : e = RecordOf(n)
    OBVIOUS
<1>4. e.plan = commits[n].plan /\ e.seq = commits[n].seq /\ e \in Others(p)
    BY <1>3 DEF RecordOf, Record, Others
<1>5. PICK Y : Y = {p} \cup {g.plan : g \in {f \in Others(p) : ~Before(f, e)}}
    OBVIOUS
<1>6. Y \notin Room
    BY <1>3, <1>4, <1>5 DEF Kept
<1>7. PICK X : X = {commits'[n].plan, commits'[N + 1].plan}
                   \cup {commits'[m].plan : m \in Rivals(n, N + 1)'}
    OBVIOUS
<1>8. ASSUME NEW g \in Others(p), ~Before(g, e)
      PROVE  g.plan \in X
    <2>1. g \in store.records /\ g.plan.digest # p.digest
        BY <1>8 DEF Others
    <2>2. PICK m \in 1 .. N : g = RecordOf(m) /\ Newest(m, N)
        BY <2>1 DEF Inv, StoreOK
    <2>3. g.plan = commits[m].plan /\ g.seq = commits[m].seq
        BY <2>2 DEF RecordOf, Record
    <2>4. CASE m = n
        BY <1>2, <1>7, <2>3, <2>4
    <2>5. CASE m # n
        <3>1. commits[m].seq >= commits[n].seq
            <4>1. g.seq \in Nat /\ e.seq \in Nat
                BY <1>4, <2>1 DEF Inv, StoreOK, Stores, Others
            <4>2. ~(g.seq < e.seq)
                BY <1>8 DEF Before
            <4>3. QED
                BY <1>4, <2>3, <4>1, <4>2
        <3>2. Newest(m, N + 1)'
            <4>1. \A j \in m + 1 .. N + 1 : j = N + 1 \/ (j \in m + 1 .. N /\ j \in 1 .. N)
                BY <1>1
            <4>2. QED
                BY <1>2, <2>1, <2>2, <2>3, <4>1 DEF Newest
        <3>3. m \in 1 .. N + 1
            BY <1>1
        <3>4. m \in Rivals(n, N + 1)'
            BY <1>2, <2>5, <3>1, <3>2, <3>3 DEF Rivals
        <3>5. QED
            BY <1>2, <1>7, <2>3, <3>4
    <2>6. QED
        BY <2>4, <2>5
<1>9. Y \subseteq X
    <2>1. \A y \in Y : y = p \/ \E g \in Others(p) : ~Before(g, e) /\ y = g.plan
        BY <1>5
    <2>2. p \in X
        BY <1>2, <1>7
    <2>3. QED
        BY <1>8, <2>1, <2>2
<1>10. X \notin Room
    BY <1>6, <1>9, StoreAssumption
<1>11. Crowded(n, N + 1)'
    BY <1>7, <1>10 DEF Crowded
<1>12. N + 1 \in n + 1 .. Len(commits')
    BY <1>1, <1>2
<1>13. QED
    BY <1>11, <1>12 DEF Accounted

\* put() keeps the store right: what it replaces or gives up is accounted for.
LEMMA CommitGrows ==
    ASSUME Inv, NEW p \in Plans, NEW id \in Nat \X Nat,
           NEW saved \in {store.saved, store.seq + 1}, Commit(p, id, saved)
    PROVE  Growing /\ Committed(p, id)'
<1>1. PICK q : q = store.seq + 1
    OBVIOUS
<1>2. PICK N : N = Len(commits)
    OBVIOUS
<1>3. /\ commits' = Append(commits, [plan |-> p, id |-> id, seq |-> q])
      /\ store'.records = Kept(p) \cup {Record(p, q)} /\ store'.seq = q /\ store'.saved = saved
      /\ store' = [records |-> Kept(p) \cup {Record(p, q)}, seq |-> q, saved |-> saved]
    BY <1>1 DEF Commit
<1>4. /\ store \in Stores /\ commits \in Seq(Commits) /\ N \in Nat
      /\ store.seq \in Nat /\ store.saved \in Nat /\ store.seq <= N /\ store.saved <= N
    BY <1>2 DEF Inv, StoreOK, Stores
<1>5. q \in Nat /\ 1 <= q /\ q <= N + 1 /\ saved \in Nat /\ saved <= N + 1
    BY <1>1, <1>4
<1>6. [plan |-> p, id |-> id, seq |-> q] \in Commits
    BY <1>5 DEF Commits
<1>7. commits' \in Seq(Commits) /\ Len(commits') = N + 1
    BY <1>2, <1>3, <1>4, <1>6
<1>8. commits'[N + 1] = [plan |-> p, id |-> id, seq |-> q]
      /\ \A n \in 1 .. N : commits'[n] = commits[n]
    BY <1>2, <1>3, <1>4, <1>6
<1>9. /\ commits'[N + 1].plan = p /\ commits'[N + 1].id = id /\ commits'[N + 1].seq = q
      /\ N + 1 \in 1 .. N + 1
      /\ \A n \in 1 .. N : n \in 1 .. N + 1
      /\ \A n \in 1 .. N + 1 : n \in 1 .. N \/ n = N + 1
    BY <1>4, <1>8
<1>10. Longer
    BY <1>2, <1>4, <1>7, <1>8 DEF Longer
<1>11. Committed(p, id)'
    BY <1>7, <1>9 DEF Committed
<1>12. Kept(p) \subseteq store.records
    BY DEF Kept, Others
<1>13. store' \in Stores
    <2>1. Record(p, q) \in [plan : Plans, seq : Nat]
        BY <1>5 DEF Record
    <2>2. store.records \in SUBSET [plan : Plans, seq : Nat]
        BY <1>4 DEF Stores
    <2>3. Kept(p) \cup {Record(p, q)} \in SUBSET [plan : Plans, seq : Nat]
        BY <1>12, <2>1, <2>2
    <2>4. QED
        BY <1>3, <1>5, <2>3 DEF Stores
<1>14. \A n \in 1 .. Len(commits') : commits'[n].seq \in 1 .. Len(commits')
    <2>1. \A n \in 1 .. N : commits[n].seq \in 1 .. N
        BY <1>2 DEF Inv, StoreOK
    <2>2. q \in 1 .. N + 1 /\ \A k \in 1 .. N : k \in 1 .. N + 1
        BY <1>4, <1>5
    <2>3. ASSUME NEW n \in 1 .. N + 1 PROVE commits'[n].seq \in 1 .. N + 1
        <3>1. CASE n = N + 1
            BY <1>9, <2>2, <3>1
        <3>2. CASE n \in 1 .. N
            <4>1. commits'[n] = commits[n] /\ commits[n].seq \in 1 .. N
                BY <1>8, <2>1, <3>2
            <4>2. QED
                BY <2>2, <4>1
        <3>3. QED
            BY <1>9, <3>1, <3>2
    <2>4. QED
        BY <1>7, <2>3
<1>15. ASSUME NEW n \in 1 .. N, Newest(n, N), commits[n].plan.digest # p.digest
       PROVE  Newest(n, N + 1)'
    <2>1. \A m \in n + 1 .. N + 1 : m = N + 1 \/ (m \in n + 1 .. N /\ m \in 1 .. N)
        BY <1>4
    <2>2. QED
        BY <1>8, <1>9, <1>15, <2>1 DEF Newest
<1>16. ASSUME NEW n \in 1 .. N, commits[n].plan.digest = p.digest
       PROVE  ~Newest(n, N + 1)'
    <2>1. N + 1 \in n + 1 .. N + 1
        BY <1>4
    <2>2. QED
        BY <1>8, <1>9, <1>16, <2>1 DEF Newest
<1>17. ASSUME NEW e \in store'.records
       PROVE  \E n \in 1 .. Len(commits') : e = RecordOf(n)' /\ Newest(n, Len(commits))'
    <2>1. CASE e = Record(p, q)
        <3>1. e = RecordOf(N + 1)'
            BY <1>9, <2>1 DEF RecordOf, Record
        <3>2. Newest(N + 1, N + 1)'
            BY <1>4 DEF Newest
        <3>3. QED
            BY <1>7, <1>9, <3>1, <3>2
    <2>2. CASE e \in Kept(p)
        <3>1. e \in store.records /\ e.plan.digest # p.digest
            BY <2>2 DEF Kept, Others
        <3>2. PICK n \in 1 .. N : e = RecordOf(n) /\ Newest(n, N)
            BY <1>2, <3>1 DEF Inv, StoreOK
        <3>3. e = RecordOf(n)' /\ commits[n].plan.digest # p.digest
            BY <1>8, <3>1, <3>2 DEF RecordOf, Record
        <3>4. Newest(n, N + 1)'
            BY <1>15, <3>2, <3>3
        <3>5. QED
            BY <1>7, <1>9, <3>3, <3>4
    <2>3. QED
        BY <1>3, <1>17, <2>1, <2>2
<1>18. ASSUME NEW n \in 1 .. Len(commits')
       PROVE  Accounted(n)'
    <2>1. CASE n = N + 1
        <3>1. Record(commits'[n].plan, commits'[n].seq) \in store'.records
            BY <1>3, <1>9, <2>1
        <3>2. QED
            BY <3>1 DEF Accounted
    <2>2. CASE n \in 1 .. N
        <3>1. Accounted(n)
            BY <1>2, <2>2 DEF Inv, StoreOK
        <3>2. CASE ~Newest(n, N)
            <4>1. PICK m \in n + 1 .. N : commits[m].plan.digest = commits[n].plan.digest
                BY <3>2 DEF Newest
            <4>2. m \in 1 .. N /\ m \in n + 1 .. N + 1
                BY <1>4, <2>2
            <4>3. ~Newest(n, N + 1)'
                BY <1>8, <2>2, <4>1, <4>2 DEF Newest
            <4>4. QED
                BY <1>7, <4>3 DEF Accounted
        <3>3. ASSUME NEW i \in n + 1 .. N, Crowded(n, i)
              PROVE  Accounted(n)'
            <4>1. i \in 1 .. N /\ i \in n + 1 .. N + 1 /\ i <= Len(commits) /\ i \in Nat
                BY <1>2, <1>4, <2>2
            <4>2. \A m \in 1 .. i : m \in 1 .. N /\ (Newest(m, i)' <=> Newest(m, i))
                BY <1>4, <1>10, <4>1, NewestKept
            <4>3. Rivals(n, i)' = Rivals(n, i)
                BY <1>8, <2>2, <4>2 DEF Rivals
            <4>4. /\ commits'[n] = commits[n] /\ commits'[i] = commits[i]
                  /\ \A m \in Rivals(n, i) : commits'[m] = commits[m]
                BY <1>8, <2>2, <4>1, <4>2 DEF Rivals
            <4>5. {commits'[m].plan : m \in Rivals(n, i)'} = {commits[m].plan : m \in Rivals(n, i)}
                BY <4>3, <4>4
            <4>6. Crowded(n, i)'
                BY <3>3, <4>4, <4>5 DEF Crowded
            <4>7. QED
                BY <1>7, <4>1, <4>6 DEF Accounted
        <3>4. CASE RecordOf(n) \in store.records
            <4>1. CASE commits[n].plan.digest = p.digest
                <5>1. ~Newest(n, Len(commits))'
                    BY <1>7, <1>16, <2>2, <4>1
                <5>2. QED
                    BY <5>1 DEF Accounted
            <4>2. CASE RecordOf(n) \in Kept(p)
                BY <1>3, <1>8, <2>2, <4>2 DEF Accounted, RecordOf
            <4>3. CASE commits[n].plan.digest # p.digest /\ RecordOf(n) \notin Kept(p)
                BY <1>1, <1>2, <1>3, <2>2, <3>4, <4>3, <1>7, <1>9, LeftForRoom
            <4>4. QED
                BY <4>1, <4>2, <4>3
        <3>5. QED
            BY <1>2, <3>1, <3>2, <3>3, <3>4 DEF Accounted, RecordOf
    <2>3. QED
        BY <1>7, <1>9, <2>1, <2>2
<1>19. StoreOK'
    BY <1>3, <1>5, <1>7, <1>13, <1>14, <1>17, <1>18 DEF StoreOK
<1>20. QED
    BY <1>10, <1>11, <1>19 DEF Growing

\* A plan request ends with its plan committed, or not answered as stored.
LEMMA HandlePlanStep ==
    ASSUME Inv, NEW k \in Conns, HandlePlan(k)
    PROVE  Inv'
<1>1. UNCHANGED <<server, client>> /\ Admitted(k, "plan")
    BY DEF HandlePlan
<1>2. PICK f : f = Head(conn[k].inbox)
    OBVIOUS
<1>3. CASE PlanUnstored(k)
    <2>1. Planned(k, FALSE) /\ UNCHANGED <<store, commits>>
        BY <1>3 DEF PlanUnstored
    <2>2. QED
        BY <1>1, <1>2, <2>1, Steady, PlannedStep
<1>4. CASE PlanStored(k)
    <2>1. f.arg \in Plannable
        BY <1>2, <1>4 DEF PlanStored
    <2>2. \E ok \in BOOLEAN, saved \in {store.saved, store.seq + 1} :
              Commit(PlanOf(f.arg), f.id, saved) /\ Planned(k, ok)
        BY <1>2, <1>4 DEF PlanStored
    <2>3. PICK ok \in BOOLEAN, saved \in {store.saved, store.seq + 1} :
              Commit(PlanOf(f.arg), f.id, saved) /\ Planned(k, ok)
        BY <2>2
    <2>4. PlanOf(f.arg) \in Plans
        BY <2>1 DEF Plans
    <2>5. f.id \in Nat \X Nat
        BY <1>1, <1>2, AdmittedFrame DEF Frames
    <2>6. Growing /\ Committed(PlanOf(f.arg), f.id)'
        BY <2>3, <2>4, <2>5, CommitGrows
    <2>7. QED
        BY <1>1, <1>2, <2>1, <2>3, <2>6, PlannedStep
<1>5. QED
    BY <1>3, <1>4 DEF HandlePlan

\* A lookup finds the newest commit under its digest.
LEMMA PlanAtNewest ==
    ASSUME Inv, NEW d, Found(d)
    PROVE  /\ PlanAt(d) \in Plans /\ PlanAt(d).digest = d
           /\ \E n \in 1 .. Len(commits) :
                 commits[n].plan = PlanAt(d) /\ Newest(n, Len(commits))
<1>1. PICK e : e = CHOOSE x \in Held(d) : TRUE
    OBVIOUS
<1>2. e \in Held(d)
    BY <1>1 DEF Found
<1>3. e \in store.records /\ e.plan.digest = d /\ PlanAt(d) = e.plan
    BY <1>1, <1>2 DEF Held, PlanAt
<1>4. e.plan \in Plans
    BY <1>3 DEF Inv, StoreOK, Stores
<1>5. PICK n \in 1 .. Len(commits) : e = RecordOf(n) /\ Newest(n, Len(commits))
    BY <1>3 DEF Inv, StoreOK
<1>6. commits[n].plan = e.plan
    BY <1>5 DEF RecordOf, Record
<1>7. QED
    BY <1>3, <1>4, <1>5, <1>6

\* kGetPlanRequest and kListPlansRequest
LEMMA HandleGetStep ==
    ASSUME Inv, NEW k \in Conns, HandleGet(k)
    PROVE  Inv'
<1>1. UNCHANGED <<server, store, commits, client>> /\ Admitted(k, "get")
    BY DEF HandleGet
<1>2. PICK f : f = Head(conn[k].inbox)
    OBVIOUS
<1>3. f \in Frames /\ Genuine(f) /\ Due(k) /\ Fresh(k)
    BY <1>1, <1>2, AdmittedFrame
<1>4. PICK v : v = [code |-> IF ~Stored THEN "store_not_open"
                             ELSE IF Found(f.arg) THEN "ok" ELSE "not_found",
                    plan |-> IF Found(f.arg) THEN PlanAt(f.arg) ELSE Nil,
                    freshness |-> IF Found(f.arg) THEN "unverified" ELSE "current"]
    OBVIOUS
<1>5. v \in Values /\ "get_response" \in ReplyTypes
    <2>1. v.code \in Codes /\ v.freshness \in States
        BY <1>4 DEF Codes, States
    <2>2. v.plan \in Plans \cup {Nil}
        BY <1>4, PlanAtNewest
    <2>3. v \in [code : Codes, plan : Plans \cup {Nil}, freshness : States]
        BY <1>4, <2>1, <2>2
    <2>4. QED
        BY <2>3 DEF Values, ReplyTypes
<1>6. PICK r : r = Reply("get_response", f, v, TRUE)
    OBVIOUS
<1>7. r \in Replies /\ r.type = "get_response" /\ r.seq = f.seq /\ r.id = f.id
    BY <1>3, <1>5, <1>6, ReplyType, ZenonT(40)
<1>8. Answers(r, f)
    BY <1>7 DEF Answers
<1>11. PICK fits \in BOOLEAN : fits = ~(Found(f.arg) /\ PlanAt(f.arg) \in Unframed)
    OBVIOUS
<1>9. conn' = [conn EXCEPT ![k] = Advanced(k, r, fits)]
    BY <1>2, <1>4, <1>6, <1>11 DEF HandleGet, GetResponse
<1>10. QED
    BY <1>1, <1>2, <1>3, <1>7, <1>8, <1>9, AdvancedStep

\* A list of the store is a right answer.
LEMMA HandleListStep ==
    ASSUME Inv, NEW k \in Conns, HandleList(k)
    PROVE  Inv'
<1>1. UNCHANGED <<server, store, commits, client>> /\ Admitted(k, "list")
    BY DEF HandleList
<1>2. PICK f : f = Head(conn[k].inbox)
    OBVIOUS
<1>3. f \in Frames /\ Genuine(f) /\ Due(k) /\ Fresh(k)
    BY <1>1, <1>2, AdmittedFrame
<1>4. PICK v : v = [code |-> IF Stored THEN "ok" ELSE "store_not_open",
                    plans |-> IF Stored THEN {e.plan : e \in store.records} ELSE {}]
    OBVIOUS
<1>5. v \in Values /\ "list_response" \in ReplyTypes
    <2>1. v.code \in Codes
        BY <1>4 DEF Codes
    <2>2. v.plans \in SUBSET Plans
        BY <1>4 DEF Inv, StoreOK, Stores
    <2>3. v \in [code : Codes, plans : SUBSET Plans]
        BY <1>4, <2>1, <2>2
    <2>4. QED
        BY <2>3 DEF Values, ReplyTypes
<1>6. PICK r : r = Reply("list_response", f, v, TRUE)
    OBVIOUS
<1>7. r \in Replies /\ r.type = "list_response" /\ r.seq = f.seq /\ r.id = f.id
    BY <1>3, <1>5, <1>6, ReplyType, ZenonT(40)
<1>8. Answers(r, f)
    BY <1>7 DEF Answers
<1>9. conn' = [conn EXCEPT ![k] = Advanced(k, r, TRUE)]
    BY <1>2, <1>4, <1>6 DEF HandleList, ListResponse
<1>10. QED
    BY <1>1, <1>2, <1>3, <1>7, <1>8, <1>9, AdvancedStep

\* kRevalidateRequest: "valid" is said only of a stored plan of the same inputs.
LEMMA HandleRevalidateStep ==
    ASSUME Inv, NEW k \in Conns, HandleRevalidate(k)
    PROVE  Inv'
<1>1. UNCHANGED <<server, store, commits, client>> /\ Admitted(k, "revalidate")
    BY DEF HandleRevalidate
<1>2. PICK f : f = Head(conn[k].inbox)
    OBVIOUS
<1>3. f \in Frames /\ Genuine(f) /\ Due(k) /\ Fresh(k)
    BY <1>1, <1>2, AdmittedFrame
<1>4. PICK d, text : d = f.arg.digest /\ text = f.arg.text
    OBVIOUS
<1>16. PICK plan : plan = PlanAt(d)
    OBVIOUS
<1>5. PICK v : v =
        IF text \notin Parses THEN [code |-> "syntax", valid |-> FALSE, freshness |-> "current"]
        ELSE IF ~Stored THEN [code |-> "store_not_open", valid |-> FALSE, freshness |-> "current"]
        ELSE IF ~Found(d)
             THEN [code |-> "not_found", valid |-> FALSE, freshness |-> "current"]
        ELSE [code |-> Freshness(plan, Gens[text]), valid |-> StillValid(plan, text),
              freshness |-> Freshness(plan, Gens[text])]
    OBVIOUS
<1>6. v \in [code : Codes, valid : BOOLEAN, freshness : States]
    <2>1. Freshness(plan, Gens[text]) \in States
        BY DEF Freshness, States
    <2>2. {"syntax", "store_not_open", "not_found"} \subseteq Codes /\ States \subseteq Codes
          /\ "current" \in States
        BY DEF Codes, States
    <2>3. StillValid(plan, text) \in BOOLEAN
        BY DEF StillValid
    <2>4. QED
        BY <1>5, <2>1, <2>2, <2>3
<1>7. v.valid => /\ text \in Parses /\ Found(d)
                 /\ plan.digest = Digest[text] /\ plan.gens = Gens[text]
    BY <1>5 DEF StillValid
<1>8. v.valid => plan = PlanOf(text)
    <2>1. plan \in Plans => \E x, g : plan = [digest |-> x, gens |-> g]
        BY DEF Plans, PlanOf
    <2>2. QED
        BY <1>7, <1>16, <2>1, PlanAtNewest DEF PlanOf
<1>9. PICK whole \in BOOLEAN : whole = (text \in LongDetail => text \in Parses
                                  /\ ~(Found(d) /\ ~StillValid(plan, text)))
    OBVIOUS
<1>10. PICK r : r = Reply("revalidate_response", f, v, whole)
    OBVIOUS
<1>11. /\ r \in Replies /\ r.type = "revalidate_response" /\ r.seq = f.seq /\ r.id = f.id
       /\ r.value = v
    <2>1. v \in Values /\ "revalidate_response" \in ReplyTypes
        BY <1>6 DEF Values, ReplyTypes
    <2>2. QED
        BY <1>3, <1>10, <2>1, ReplyType
<1>17. v.valid => WasNewest(PlanOf(text), f.since)
    <2>1. f.since \in Nat /\ f.since <= Len(commits) /\ Len(commits) \in Nat
        BY <1>2, <1>3, HeadType, QueuedSince DEF Inv, NewsOK, StoreOK
    <2>2. Len(commits) \in f.since .. Len(commits)
        BY <2>1
    <2>3. QED
        BY <1>7, <1>8, <1>16, <2>2, PlanAtNewest DEF WasNewest
<1>18. v.valid => d = Digest[text]
    BY <1>7, <1>16, PlanAtNewest
<1>12. Answers(r, f)
    BY <1>4, <1>7, <1>11, <1>17, <1>18 DEF Answers
<1>13. conn' = [conn EXCEPT ![k] = Advanced(k, r, TRUE)]
    BY <1>2, <1>4, <1>5, <1>9, <1>10, <1>16 DEF HandleRevalidate, RevalidateResponse
<1>14. QED
    BY <1>1, <1>2, <1>3, <1>11, <1>12, <1>13, AdvancedStep

\* kShutdownRequest: only the epoch of this very start is acknowledged.
LEMMA HandleShutdownStep ==
    ASSUME Inv, NEW k \in Conns, HandleShutdown(k)
    PROVE  Inv'
<1>1. UNCHANGED <<server, store, commits, client>> /\ Admitted(k, "shutdown")
    BY DEF HandleShutdown
<1>2. PICK f : f = Head(conn[k].inbox)
    OBVIOUS
<1>3. f \in Frames /\ f.type = "shutdown" /\ Genuine(f) /\ Due(k) /\ Fresh(k)
    BY <1>1, <1>2, AdmittedFrame
<1>4. f.arg \in Issued /\ f.arg.epoch = server.epoch
    BY <1>1, <1>2, <1>3 DEF Frames, Admitted, Refused
<1>5. Stored => f.arg.start = server.starts
    BY <1>4 DEF Issued, Inv, ServerOK
<1>6. PICK r : r = Reply("shutdown_ack", f, f.arg, TRUE)
    OBVIOUS
<1>7. r \in Replies /\ r.type = "shutdown_ack" /\ r.seq = f.seq /\ r.id = f.id
    <2>1. f.arg \in Values /\ "shutdown_ack" \in ReplyTypes
        BY <1>4 DEF Values, Args, ReplyTypes
    <2>2. QED
        BY <1>3, <1>6, <2>1, ReplyType, ZenonT(40)
<1>8. Answers(r, f)'
    BY <1>7 DEF Answers
<1>9. PICK b : b = Advanced(k, r, TRUE)
    OBVIOUS
<1>10. Handled(k, b, r) /\ NumbersOK(b)
    BY <1>3, <1>7, <1>9, AdvancedShape
<1>11. PICK s : s = [b EXCEPT !.acked = f.arg]
    OBVIOUS
<1>12. conn' = [conn EXCEPT ![k] = s]
    BY <1>2, <1>6, <1>9, <1>11 DEF HandleShutdown
<1>13. b \in Sessions
    BY <1>10 DEF Handled
<1>14. s \in Sessions
    BY <1>4, <1>11, <1>13 DEF Sessions
<1>15. /\ s.sent = b.sent /\ s.taken = b.taken /\ s.inbox = b.inbox /\ s.answer = b.answer
       /\ s.out = b.out /\ s.complaint = b.complaint
       /\ s.reader = b.reader /\ s.worker = b.worker /\ s.closed = b.closed
       /\ s.last = b.last /\ s.acked = f.arg /\ s.served = b.served
    BY <1>11, <1>13 DEF Sessions
<1>16. Handled(k, s, r)
    BY <1>10, <1>14, <1>15 DEF Handled
<1>17. NumbersOK(s)
    BY <1>10, <1>15, NumbersQuiet DEF Queued
<1>18. Growing
    BY <1>1, Steady
<1>19. QED
    BY <1>1, <1>2, <1>3, <1>5, <1>8, <1>12, <1>15, <1>16, <1>17, <1>18, HandledStep

\* The end of a thread: the session is settled.
LEMMA SettleStep ==
    ASSUME Inv, NEW k \in Conns, NEW s \in Sessions, server.up,
           s.sent = conn[k].sent, s.inbox = conn[k].inbox, s.taken = conn[k].taken,
           s.served = conn[k].served, s.last = conn[k].last, s.closed = conn[k].closed,
           s.acked = conn[k].acked, s.complaint = conn[k].complaint, s.out = conn[k].out,
           Elems(s.answer) \subseteq Elems(conn[k].answer),
           conn' = [conn EXCEPT ![k] = Settled(s)], UNCHANGED <<store, commits, client>>,
           server' \in Servers, ServerOK',
           server'.up = server.up, server'.starts = server.starts
    PROVE  Inv'
<1>1. Queued(s) = Queued(conn[k]) /\ Spoken(s) \subseteq Spoken(conn[k])
    BY DEF Queued, Spoken
<1>2. NumbersOK(s)
    BY <1>1, SessionParts, NumbersQuiet
<1>3. /\ s.taken <= Len(s.sent) /\ (Stored /\ s.acked # Nil => s.acked.start = server.starts)
      /\ \A p \in Elems(s.complaint) : p.of.type = "error"
    BY SessionParts DEF LifeOK
<1>4. PICK t : t = Settled(s)
    OBVIOUS
<1>5. /\ t \in Sessions /\ NumbersOK(t) /\ LifeOK(t)
      /\ Queued(t) \subseteq Queued(s) /\ Spoken(t) \subseteq Spoken(s) /\ (t.closed => s.closed)
    BY <1>2, <1>3, <1>4, SettledKeeps
<1>6. Growing
    BY Steady
<1>7. conn' = [conn EXCEPT ![k] = t]
    BY <1>4
<1>8. QED
    BY <1>1, <1>5, <1>6, <1>7, SessionStep

\* A thread that runs is a thread of a process that is up.
LEMMA RunningIsUp ==
    ASSUME Inv, NEW k \in Conns, conn[k].reader # "done" \/ conn[k].worker # "done"
    PROVE  server.up
<1>1. server.up \in BOOLEAN
    BY DEF Inv, Typed, Servers
<1>2. QED
    BY <1>1, SessionParts DEF LifeOK

\* What is known of the coordinator is kept while nothing happens to it.
LEMMA ServerKept == ASSUME Inv, UNCHANGED server PROVE server' \in Servers /\ ServerOK'
BY DEF Inv, Typed, ServerOK, StopIsForThisProcess

\* A piece of an answer is moved to the socket, or lost with it.
LEMMA WorkerWriteStep ==
    ASSUME Inv, NEW k \in Conns, WorkerWrite(k)
    PROVE  Inv'
<1>1. conn[k].worker = "writing" /\ conn[k].answer # <<>> /\ UNCHANGED <<server, store, commits, client>>
    BY DEF WorkerWrite
<1>2. server.up /\ conn[k] \in Sessions /\ server' \in Servers /\ ServerOK'
    BY <1>1, RunningIsUp, SessionParts, ServerKept
<1>3. CASE conn[k].down \/ conn[k].closed
    <2>1. PICK e : e = <<>> /\ e \in Seq(PieceSet)
        <3>1. <<>> \in Seq(PieceSet)
            OBVIOUS
        <3>2. QED
            BY <3>1
    <2>2. PICK s : s = [conn[k] EXCEPT !.answer = e, !.worker = "done"]
        OBVIOUS
    <2>3. s \in Sessions
        BY <1>2, <2>1, <2>2 DEF Sessions
    <2>4. /\ s.sent = conn[k].sent /\ s.inbox = conn[k].inbox /\ s.taken = conn[k].taken
          /\ s.served = conn[k].served /\ s.last = conn[k].last /\ s.closed = conn[k].closed
          /\ s.acked = conn[k].acked /\ s.complaint = conn[k].complaint
          /\ s.out = conn[k].out /\ s.answer = e
        BY <1>2, <2>2 DEF Sessions
    <2>5. conn' = [conn EXCEPT ![k] = Settled(s)]
        BY <1>3, <2>1, <2>2 DEF WorkerWrite
    <2>6. Elems(e) = {}
        BY <2>1, ElemsEmpty
    <2>7. QED
        BY <1>1, <1>2, <2>3, <2>4, <2>5, <2>6, SettleStep
<1>4. CASE ~(conn[k].down \/ conn[k].closed)
    <2>1. PICK s : s = [conn[k] EXCEPT !.answer = Tail(conn[k].answer),
                                       !.out = Append(conn[k].out, Head(conn[k].answer))]
        OBVIOUS
    <2>2. /\ Tail(conn[k].answer) \in Seq(PieceSet)
          /\ Head(conn[k].answer) \in Elems(conn[k].answer)
          /\ Elems(Tail(conn[k].answer)) \subseteq Elems(conn[k].answer)
          /\ Append(conn[k].out, Head(conn[k].answer)) \in Seq(PieceSet)
          /\ Elems(Append(conn[k].out, Head(conn[k].answer)))
                = Elems(conn[k].out) \cup {Head(conn[k].answer)}
        BY <1>1, SessionParts, ElemsTail, ElemsAppend
    <2>3. s \in Sessions
        BY <1>2, <2>1, <2>2 DEF Sessions
    <2>4. /\ s.sent = conn[k].sent /\ s.inbox = conn[k].inbox /\ s.taken = conn[k].taken
          /\ s.served = conn[k].served /\ s.last = conn[k].last /\ s.closed = conn[k].closed
          /\ s.acked = conn[k].acked /\ s.complaint = conn[k].complaint
          /\ s.reader = conn[k].reader /\ s.worker = conn[k].worker
          /\ s.answer = Tail(conn[k].answer)
          /\ s.out = Append(conn[k].out, Head(conn[k].answer))
        BY <1>2, <2>1 DEF Sessions
    <2>5. Queued(s) = Queued(conn[k]) /\ Spoken(s) \subseteq Spoken(conn[k])
        BY <2>2, <2>4 DEF Queued, Spoken
    <2>6. NumbersOK(s)
        BY <2>4, <2>5, SessionParts, NumbersQuiet
    <2>7. LifeOK(s)
        BY <2>4, SessionParts DEF LifeOK
    <2>8. conn' = [conn EXCEPT ![k] = s]
        <3> DEFINE gone == Settled([conn[k] EXCEPT !.answer = <<>>, !.worker = "done"])
        <3>1. conn' = [conn EXCEPT ![k] = IF conn[k].down \/ conn[k].closed THEN gone ELSE s]
            BY <2>1 DEF WorkerWrite
        <3> HIDE DEF gone
        <3>2. QED
            BY <1>4, <3>1
    <2>9. Growing
        BY <1>1, Steady
    <2>10. QED
        BY <1>1, <1>2, <2>3, <2>4, <2>5, <2>6, <2>7, <2>8, <2>9, SessionStep
<1>5. QED
    BY <1>3, <1>4

\* The stop that is requested is the one that was acknowledged.
LEMMA WorkerFinishStep ==
    ASSUME Inv, NEW k \in Conns, WorkerFinish(k)
    PROVE  Inv'
<1>1. conn[k].worker = "writing" /\ UNCHANGED <<store, commits, client>>
    BY DEF WorkerFinish
<1>2. server.up /\ conn[k] \in Sessions /\ server \in Servers
    BY <1>1, RunningIsUp, SessionParts DEF Inv, Typed
<1>3. server' = [server EXCEPT !.stop = IF server.stop = Nil THEN conn[k].acked ELSE server.stop]
    BY DEF WorkerFinish
<1>4. conn[k].acked \in Issued \cup {Nil}
    BY <1>2 DEF Sessions
<1>5. /\ server' \in Servers /\ server'.up = server.up /\ server'.starts = server.starts
      /\ server'.epoch = server.epoch
      /\ server'.stop \in {server.stop, conn[k].acked}
    BY <1>2, <1>3, <1>4 DEF Servers
<1>6. ServerOK'
    BY <1>5, SessionParts DEF Inv, ServerOK, StopIsForThisProcess, LifeOK
<1>7. PICK w \in {"done", "idle"} :
          w = IF conn[k].acked # Nil \/ server.stop # Nil THEN "done" ELSE "idle"
    OBVIOUS
<1>8. PICK s : s = [conn[k] EXCEPT !.worker = w]
    OBVIOUS
<1>9. s \in Sessions
    <2>1. CASE w = "done"
        <3>1. s = [conn[k] EXCEPT !.worker = "done"]
            BY <1>8, <2>1
        <3>2. QED
            BY <1>2, <3>1 DEF Sessions
    <2>2. CASE w = "idle"
        <3>1. s = [conn[k] EXCEPT !.worker = "idle"]
            BY <1>8, <2>2
        <3>2. QED
            BY <1>2, <3>1 DEF Sessions
    <2>3. QED
        BY <1>7, <2>1, <2>2
<1>10. /\ s.sent = conn[k].sent /\ s.inbox = conn[k].inbox /\ s.taken = conn[k].taken
       /\ s.served = conn[k].served /\ s.last = conn[k].last /\ s.closed = conn[k].closed
       /\ s.acked = conn[k].acked /\ s.complaint = conn[k].complaint
       /\ s.out = conn[k].out /\ s.answer = conn[k].answer
    BY <1>2, <1>8 DEF Sessions
<1>11. conn' = [conn EXCEPT ![k] = Settled(s)]
    BY <1>7, <1>8 DEF WorkerFinish
<1>12. QED
    BY <1>1, <1>2, <1>5, <1>6, <1>9, <1>10, <1>11, SettleStep

\* The worker of a session that gets no more frames ends.
LEMMA WorkerLeaveStep ==
    ASSUME Inv, NEW k \in Conns, WorkerLeave(k)
    PROVE  Inv'
<1>1. conn[k].worker = "idle" /\ UNCHANGED <<server, store, commits, client>>
    BY DEF WorkerLeave
<1>2. server.up /\ conn[k] \in Sessions /\ server' \in Servers /\ ServerOK'
    BY <1>1, RunningIsUp, SessionParts, ServerKept
<1>3. PICK s : s = [conn[k] EXCEPT !.worker = "done"]
    OBVIOUS
<1>4. s \in Sessions
    BY <1>2, <1>3 DEF Sessions
<1>5. /\ s.sent = conn[k].sent /\ s.inbox = conn[k].inbox /\ s.taken = conn[k].taken
      /\ s.served = conn[k].served /\ s.last = conn[k].last /\ s.closed = conn[k].closed
      /\ s.acked = conn[k].acked /\ s.complaint = conn[k].complaint
      /\ s.out = conn[k].out /\ s.answer = conn[k].answer
    BY <1>2, <1>3 DEF Sessions
<1>6. conn' = [conn EXCEPT ![k] = Settled(s)]
    BY <1>3 DEF WorkerLeave
<1>7. QED
    BY <1>1, <1>2, <1>4, <1>5, <1>6, SettleStep

-----------------------------------------------------------------------------
(* The reader *)

\* A frame the reader takes was sent; a complaint is a refusal.
LEMMA ReaderTakeStep ==
    ASSUME Inv, NEW k \in Conns, ReaderTake(k)
    PROVE  Inv'
<1>1. conn[k].reader = "run" /\ Unread(k) /\ UNCHANGED <<server, store, commits, client>>
    BY DEF ReaderTake
<1>2. /\ server.up /\ conn[k] \in Sessions /\ server' \in Servers /\ ServerOK'
      /\ Growing
    BY <1>1, RunningIsUp, SessionParts, ServerKept, Steady DEF Inv, Typed
<1>3. PICK n : n = conn[k].taken + 1
    OBVIOUS
<1>4. n \in 1 .. Len(conn[k].sent) /\ n \in Nat /\ DOMAIN conn[k].sent = 1 .. Len(conn[k].sent)
    BY <1>1, <1>2, <1>3, SMTT(30) DEF Unread, Sessions
<1>5. PICK f : f = conn[k].sent[n]
    OBVIOUS
<1>6. f \in Elems(conn[k].sent) /\ f \in Frames
    BY <1>4, <1>5, SessionParts DEF Elems
<1>7. CASE f.type = "malformed"
    <2>1. PICK r : r = Refusal([f EXCEPT !.seq = 0], DecodeError(f.arg))
        OBVIOUS
    <2>2. r \in Replies /\ r.type = "error"
        <3>1. [f EXCEPT !.seq = 0].seq = 0 /\ [f EXCEPT !.seq = 0].id = f.id /\ f.id \in Nat \X Nat
              /\ f.arg \in Args
            BY <1>6 DEF Frames
        <3>2. DecodeError(f.arg) \in Refusals
            BY <3>1 DEF Refusals
        <3>3. DecodeError(f.arg) \in Values
            BY <3>2 DEF Values
        <3>4. r = [type |-> "error", seq |-> 0, value |-> DecodeError(f.arg), id |-> f.id,
                   whole |-> TRUE]
            BY <2>1, <3>1 DEF Refusal, Reply
        <3>5. "error" \in ReplyTypes /\ 0 \in 0 .. MaxSends
            BY BoundAssumption DEF ReplyTypes
        <3>6. QED
            BY <3>1, <3>3, <3>4, <3>5 DEF Replies
    <2>3. PICK q : q = Pieces(r)
        OBVIOUS
    <2>4. q \in Seq(PieceSet) /\ \A p \in Elems(q) : p.of = r
        BY <2>2, <2>3, PiecesType
    <2>5. PICK s : s = [conn[k] EXCEPT !.taken = n, !.reader = "leaving", !.complaint = q]
        OBVIOUS
    <2>6. s \in Sessions
        BY <1>2, <1>4, <2>4, <2>5 DEF Sessions
    <2>7. /\ s.sent = conn[k].sent /\ s.inbox = conn[k].inbox /\ s.taken = n
          /\ s.served = conn[k].served /\ s.last = conn[k].last /\ s.closed = conn[k].closed
          /\ s.acked = conn[k].acked /\ s.complaint = q /\ s.reader = "leaving"
          /\ s.out = conn[k].out /\ s.answer = conn[k].answer /\ s.worker = conn[k].worker
        BY <1>2, <2>5 DEF Sessions
    <2>8. Queued(s) = Queued(conn[k]) /\ Spoken(s) = Spoken(conn[k])
        BY <2>7 DEF Queued, Spoken
    <2>9. NumbersOK(s)
        BY <2>7, <2>8, SessionParts, NumbersQuiet
    <2>10. LifeOK(s)
        BY <1>2, <1>4, <2>2, <2>4, <2>7, SessionParts, SMTT(30) DEF LifeOK
    <2>11. conn' = [conn EXCEPT ![k] = s]
        BY <1>3, <1>5, <1>7, <2>1, <2>3, <2>5 DEF ReaderTake
    <2>12. QED
        BY <1>1, <1>2, <2>6, <2>7, <2>8, <2>9, <2>10, <2>11, SessionStep
<1>8. CASE f.type # "malformed"
    <2>1. PICK q : q = Append(conn[k].inbox, f)
        OBVIOUS
    <2>2. q \in Seq(Frames) /\ Elems(q) = Elems(conn[k].inbox) \cup {f}
        BY <1>6, <2>1, SessionParts, ElemsAppend
    <2>3. PICK s : s = [conn[k] EXCEPT !.taken = n, !.inbox = q]
        OBVIOUS
    <2>4. s \in Sessions
        BY <1>2, <1>4, <2>2, <2>3 DEF Sessions
    <2>5. /\ s.sent = conn[k].sent /\ s.inbox = q /\ s.taken = n
          /\ s.served = conn[k].served /\ s.last = conn[k].last /\ s.closed = conn[k].closed
          /\ s.acked = conn[k].acked /\ s.complaint = conn[k].complaint
          /\ s.reader = conn[k].reader /\ s.worker = conn[k].worker
          /\ s.out = conn[k].out /\ s.answer = conn[k].answer
        BY <1>2, <2>3 DEF Sessions
    <2>6. Queued(s) = Queued(conn[k]) /\ Spoken(s) = Spoken(conn[k])
        BY <1>6, <2>2, <2>5 DEF Queued, Spoken
    <2>7. NumbersOK(s)
        BY <2>5, <2>6, SessionParts, NumbersQuiet
    <2>8. LifeOK(s)
        BY <1>2, <1>4, <2>5, SessionParts DEF LifeOK
    <2>9. conn' = [conn EXCEPT ![k] = s]
        BY <1>3, <1>5, <1>8, <2>1, <2>3 DEF ReaderTake
    <2>10. QED
        BY <1>1, <1>2, <2>4, <2>5, <2>6, <2>7, <2>8, <2>9, SessionStep
<1>9. QED
    BY <1>7, <1>8

\* A piece of the complaint is moved to the socket.
LEMMA ReaderComplainStep ==
    ASSUME Inv, NEW k \in Conns, ReaderComplain(k)
    PROVE  Inv'
<1>1. /\ conn[k].reader = "leaving" /\ conn[k].complaint # <<>>
      /\ UNCHANGED <<server, store, commits, client>>
    BY DEF ReaderComplain
<1>2. /\ server.up /\ conn[k] \in Sessions /\ server' \in Servers /\ ServerOK'
      /\ Growing
    BY <1>1, RunningIsUp, SessionParts, ServerKept, Steady DEF Inv, Typed
<1>3. PICK q, o :
          /\ q = IF conn[k].closed THEN <<>> ELSE Tail(conn[k].complaint)
          /\ o = IF conn[k].closed THEN conn[k].out
                                   ELSE Append(conn[k].out, Head(conn[k].complaint))
    OBVIOUS
<1>4. /\ q \in Seq(PieceSet) /\ Elems(q) \subseteq Elems(conn[k].complaint)
      /\ o \in Seq(PieceSet) /\ Elems(o) \subseteq Elems(conn[k].out) \cup Elems(conn[k].complaint)
    <2>1. <<>> \in Seq(PieceSet) /\ Elems(<<>>) = {}
        BY ElemsEmpty
    <2>2. CASE conn[k].closed
        BY <1>3, <2>1, <2>2, SessionParts
    <2>3. CASE ~conn[k].closed
        BY <1>1, <1>3, <2>3, SessionParts, ElemsTail, ElemsAppend
    <2>4. QED
        BY <2>2, <2>3
<1>5. PICK s : s = [conn[k] EXCEPT !.complaint = q, !.out = o]
    OBVIOUS
<1>6. s \in Sessions
    BY <1>2, <1>4, <1>5 DEF Sessions
<1>7. /\ s.sent = conn[k].sent /\ s.inbox = conn[k].inbox /\ s.taken = conn[k].taken
      /\ s.served = conn[k].served /\ s.last = conn[k].last /\ s.closed = conn[k].closed
      /\ s.acked = conn[k].acked /\ s.complaint = q /\ s.reader = conn[k].reader
      /\ s.out = o /\ s.answer = conn[k].answer /\ s.worker = conn[k].worker
    BY <1>2, <1>5 DEF Sessions
<1>8. Queued(s) = Queued(conn[k])
    BY <1>7 DEF Queued
<1>9. \A p \in Elems(conn[k].complaint) : p.of.type = "error"
    BY SessionParts DEF LifeOK
<1>10. \A r \in Spoken(s) : r \in Spoken(conn[k]) \/ r.type = "error"
    <2>1. ASSUME NEW p \in Elems(s.answer) \cup Elems(s.out)
          PROVE  p.of \in Spoken(conn[k]) \/ p.of.type = "error"
        BY <1>4, <1>7, <1>9, <2>1 DEF Spoken
    <2>2. QED
        BY <2>1 DEF Spoken
<1>11. NumbersOK(s)
    BY <1>7, <1>8, SessionParts, NumbersQuiet
<1>12. LifeOK(s)
    BY <1>4, <1>7, <1>9, SessionParts DEF LifeOK
<1>13. conn' = [conn EXCEPT ![k] = s]
    <2>1. CASE conn[k].closed
        <3>1. conn' = [conn EXCEPT ![k] = [conn[k] EXCEPT !.complaint = q]]
            BY <1>3, <2>1 DEF ReaderComplain
        <3>2. s = [conn[k] EXCEPT !.complaint = q]
            BY <1>2, <1>3, <1>5, <2>1 DEF Sessions
        <3>3. QED
            BY <3>1, <3>2
    <2>2. CASE ~conn[k].closed
        BY <1>3, <1>5, <2>2 DEF ReaderComplain
    <2>3. QED
        BY <2>1, <2>2
<1>14. QED
    BY <1>1, <1>2, <1>6, <1>7, <1>8, <1>10, <1>11, <1>12, <1>13, SessionStep

\* The reader ends.
LEMMA ReaderLeaveStep ==
    ASSUME Inv, NEW k \in Conns, ReaderLeave(k)
    PROVE  Inv'
<1>1. conn[k].reader # "done" /\ UNCHANGED <<server, store, commits, client>>
    BY DEF ReaderLeave
<1>2. server.up /\ conn[k] \in Sessions /\ server' \in Servers /\ ServerOK'
    BY <1>1, RunningIsUp, SessionParts, ServerKept
<1>3. PICK d \in BOOLEAN : d = (conn[k].down \/ server.stop = Nil)
    OBVIOUS
<1>4. PICK s : s = [conn[k] EXCEPT !.reader = "done", !.down = d]
    OBVIOUS
<1>5. s \in Sessions
    BY <1>2, <1>3, <1>4 DEF Sessions
<1>6. /\ s.sent = conn[k].sent /\ s.inbox = conn[k].inbox /\ s.taken = conn[k].taken
      /\ s.served = conn[k].served /\ s.last = conn[k].last /\ s.closed = conn[k].closed
      /\ s.acked = conn[k].acked /\ s.complaint = conn[k].complaint
      /\ s.out = conn[k].out /\ s.answer = conn[k].answer
    BY <1>2, <1>4 DEF Sessions
<1>7. conn' = [conn EXCEPT ![k] = Settled(s)]
    BY <1>3, <1>4 DEF ReaderLeave
<1>8. QED
    BY <1>1, <1>2, <1>5, <1>6, <1>7, SettleStep

\* Every step of a session's threads keeps the invariant.
LEMMA ThreadStep ==
    ASSUME Inv, NEW k \in Conns, ReaderStep(k) \/ WorkerStep(k)
    PROVE  Inv'
BY ReaderTakeStep, ReaderComplainStep, ReaderLeaveStep, HandleReplayStep, HandleHelloStep,
   HandlePingStep, HandleRefusedStep, HandlePlanStep, HandleGetStep, HandleListStep,
   HandleRevalidateStep, HandleShutdownStep, WorkerWriteStep, WorkerFinishStep, WorkerLeaveStep
   DEF ReaderStep, WorkerStep

-----------------------------------------------------------------------------
(* The client *)

\* Different clients have different connections.
LEMMA ConnIsOwn ==
    ASSUME Inv, NEW c \in Clients, NEW d \in Clients, c # d, client[c].conn # 0
    PROVE  client[d].conn # client[c].conn
BY DEF Inv, ClientOK

\* The parts of a typed client and of the session on the other side of its connection.
LEMMA ClientParts ==
    ASSUME Inv, NEW c \in Clients, Connected(c)
    PROVE  /\ client[c] \in ClientStates /\ ClientOK(c)
           /\ client[c].conn \in Conns /\ client[c].conn # 0
           /\ ExchangeOK(client[c], conn[client[c].conn])
<1>1. client[c] \in ClientStates /\ ClientOK(c) /\ conn \in Seq(Sessions)
    BY DEF Inv, Typed
<1>2. client[c].conn \in 0 .. Len(conn) /\ client[c].conn # 0 /\ Len(conn) \in Nat
    BY <1>1 DEF ClientOK, Connected
<1>3. client[c].conn \in Conns
    BY <1>2 DEF Conns
<1>4. QED
    BY <1>1, <1>2, <1>3 DEF ClientOK

\* What a client's own state has to satisfy besides its connection.
OwnOK(m) ==
    /\ m.next <= m.sends + 1
    /\ \A p \in m.kept : Committed(p.plan, p.id)
    /\ m.wait # Nil => m.conn # 0 /\ m.wait.type \in Calls /\ m.wait.seq < m.next
    /\ m.result # Nil =>
          /\ Answers(m.result.reply, m.result.call)
          /\ m.result.reply.type = ReplyTo(m.result.call.type)

\* Without a commit, what was committed is what was committed.
LEMMA CommitsSame ==
    ASSUME UNCHANGED commits
    PROVE  \A plan, id : Committed(plan, id)' <=> Committed(plan, id)
BY DEF Committed

\* What an answer says of the commits then stays as true as it was.
LEMMA AnswersSame ==
    ASSUME UNCHANGED commits
    PROVE  \A r, f : Answers(r, f)' <=> Answers(r, f)
<1>1. \A n, i : Newest(n, i)' <=> Newest(n, i)
    BY DEF Newest
<1>2. \A plan, j : WasNewest(plan, j)' <=> WasNewest(plan, j)
    BY <1>1 DEF WasNewest
<1>3. QED
    BY <1>2, CommitsSame DEF Answers

\* Nor does anything change for a client that nothing happens to.
LEMMA ClientSteady ==
    ASSUME NEW d \in Clients, ClientOK(d), UNCHANGED commits, client'[d] = client[d],
           client[d].conn # 0 => conn'[client[d].conn] = conn[client[d].conn]
    PROVE  /\ client[d].conn # 0 => ExchangeOK(client[d], conn[client[d].conn])'
           /\ OwnOK(client[d])'
<1>1. PICK m : m = client[d]
    OBVIOUS
<1>2. OwnOK(client[d])'
    <2>1. OwnOK(m)
        BY <1>1 DEF ClientOK, OwnOK
    <2>2. OwnOK(m)'
        BY <2>1, AnswersSame, CommitsSame DEF OwnOK
    <2>3. QED
        BY <1>1, <2>2 DEF OwnOK
<1>3. ASSUME m.conn # 0
      PROVE  ExchangeOK(client[d], conn[client[d].conn])'
    <2>1. PICK s : s = conn[m.conn]
        OBVIOUS
    <2>2. ExchangeOK(m, s)
        BY <1>1, <1>3, <2>1 DEF ClientOK
    <2>3. ExchangeOK(m, s)'
        BY <2>2, AnswersSame DEF ExchangeOK
    <2>4. client'[d] = m /\ conn'[client'[d].conn] = s
        BY <1>1, <1>3, <2>1
    <2>5. QED
        BY <2>3, <2>4 DEF ExchangeOK
<1>4. QED
    BY <1>1, <1>2, <1>3

\* A step of a client on its own connection, which it keeps or gives up.
LEMMA OwnStep ==
    ASSUME Inv, NEW c \in Clients, NEW k \in Conns, client[c].conn = k, k # 0,
           NEW s \in Sessions, conn' = [conn EXCEPT ![k] = s],
           NEW m \in ClientStates, client' = [client EXCEPT ![c] = m],
           UNCHANGED <<server, store, commits>>,
           NumbersOK(s), LifeOK(s), NewsOK(s), OwnOK(m),
           m.conn \in {k, 0}, m.conn = k => ExchangeOK(m, s)
    PROVE  Inv'
<1>1. conn \in Seq(Sessions) /\ client \in [Clients -> ClientStates] /\ Len(conn) \in Nat
    BY DEF Inv, Typed
<1>2. conn' \in Seq(Sessions) /\ Len(conn') = Len(conn) /\ conn'[k] = s
      /\ \A j \in 1 .. Len(conn) : j # k => conn'[j] = conn[j]
    BY <1>1, Replaced DEF Conns
<1>3. /\ client' \in [Clients -> ClientStates] /\ client'[c] = m
      /\ \A d \in Clients : d # c => client'[d] = client[d]
    BY <1>1
<1>4. ClientOK(c)'
    <2>1. m.conn \in 0 .. Len(conn')
        BY <1>1, <1>2 DEF Conns
    <2>2. m.conn # 0 => ExchangeOK(m, conn[m.conn])'
        BY <1>2, AnswersSame DEF ExchangeOK
    <2>3. \A d \in Clients \ {c} : m.conn # 0 => client'[d].conn # m.conn
        BY <1>3, ConnIsOwn
    <2>4. OwnOK(m)'
        BY AnswersSame, CommitsSame DEF OwnOK
    <2>5. QED
        BY <1>3, <2>1, <2>2, <2>3, <2>4 DEF ClientOK, OwnOK
<1>5. ASSUME NEW d \in Clients, d # c
      PROVE  ClientOK(d)'
    <2>1. ClientOK(d) /\ client'[d] = client[d] /\ client[d].conn # k
        BY <1>3, <1>5, ConnIsOwn DEF Inv
    <2>2. client[d].conn \in 0 .. Len(conn')
        BY <1>2, <2>1 DEF ClientOK
    <2>3. client[d].conn # 0 => conn'[client[d].conn] = conn[client[d].conn]
        BY <1>1, <1>2, <2>1, <2>2
    <2>4. client[d].conn # 0 => ExchangeOK(client[d], conn[client[d].conn])'
        BY <2>1, <2>3, ClientSteady
    <2>5. \A e \in Clients \ {d} : client[d].conn # 0 => client'[e].conn # client[d].conn
        <3>1. \A e \in Clients : client'[e].conn \in {client[e].conn, 0}
            BY <1>3
        <3>2. QED
            BY <2>1, <3>1, ConnIsOwn
    <2>6. OwnOK(client[d])'
        BY <2>1, <2>3, ClientSteady
    <2>7. QED
        BY <2>1, <2>2, <2>4, <2>5, <2>6 DEF ClientOK, OwnOK
<1>6. \A j \in Conns' : (NumbersOK(conn[j]) /\ LifeOK(conn[j]) /\ NewsOK(conn[j]))'
    <2>1. \A j \in Conns : NumbersOK(conn'[j]) /\ LifeOK(conn'[j]) /\ NewsOK(conn'[j])
        BY <1>2 DEF Inv, Conns
    <2>2. QED
        BY <1>2, <2>1 DEF Conns, NumbersOK, LifeOK, NewsOK
<1>7. server' \in Servers /\ ServerOK' /\ StoreOK'
    BY ServerKept, Steady DEF Growing
<1>8. QED
    BY <1>2, <1>3, <1>4, <1>5, <1>6, <1>7 DEF Inv, Typed

\* A session whose socket takes one more frame: a new one, or one it took before.
LEMMA Transmitted ==
    ASSUME NEW s \in Sessions, NumbersOK(s), LifeOK(s), NewsOK(s), ~s.closed, NEW f \in Frames,
           f.since <= Len(commits),
           f \in Elems(s.sent) \/ f.id[2] = Len(s.sent) + 1,
           NEW t \in Sessions, t.sent \in {s.sent, Append(s.sent, f)},
           t.inbox = s.inbox, t.taken = s.taken, t.served = s.served, t.last = s.last,
           t.closed = s.closed, t.acked = s.acked, t.complaint = s.complaint,
           t.reader = s.reader, t.worker = s.worker, t.out = s.out, t.answer = s.answer
    PROVE  /\ NumbersOK(t) /\ LifeOK(t) /\ NewsOK(t) /\ ~t.closed
           /\ Queued(t) \subseteq Queued(s) \cup {f} /\ Spoken(t) = Spoken(s)
<1>1. PICK q : q = t.sent
    OBVIOUS
<1>2. s.sent \in Seq(Frames) /\ s.inbox \in Seq(Frames) /\ s.served \in Seq(Nat \X Nat)
    BY DEF Sessions
<1>3. /\ q \in Seq(Frames) /\ Elems(q) \subseteq Elems(s.sent) \cup {f}
      /\ Len(s.sent) \in Nat /\ Len(q) \in {Len(s.sent), Len(s.sent) + 1}
      /\ f \in Elems(q) => f \in Elems(s.sent) \/ Len(q) = Len(s.sent) + 1
    <2>1. Append(s.sent, f) \in Seq(Frames) /\ Elems(Append(s.sent, f)) = Elems(s.sent) \cup {f}
        BY <1>2, ElemsAppend
    <2>2. Len(s.sent) \in Nat /\ Len(Append(s.sent, f)) = Len(s.sent) + 1
        BY <1>2
    <2>3. QED
        BY <1>1, <1>2, <2>1, <2>2
<1>5. /\ t.sent = q /\ t.inbox = s.inbox /\ t.taken = s.taken /\ t.served = s.served
      /\ t.last = s.last /\ t.closed = s.closed /\ t.acked = s.acked
      /\ t.complaint = s.complaint /\ t.reader = s.reader /\ t.worker = s.worker
      /\ t.out = s.out /\ t.answer = s.answer
    BY <1>1
<1>6. Queued(t) \subseteq Queued(s) \cup {f} /\ Spoken(t) = Spoken(s)
    BY <1>3, <1>5 DEF Queued, Spoken
<1>7. s.taken \in Nat /\ s.closed \in BOOLEAN
    BY DEF Sessions
<1>8. LifeOK(t)
    BY <1>3, <1>5, <1>7 DEF LifeOK
<1>9. NumbersOK(t)
    <2>1. CASE f \in Queued(s) \/ f \notin Queued(t)
        <3>1. Queued(t) \subseteq Queued(s)
            BY <1>6, <2>1
        <3>2. \A g \in Queued(s) : g.id[2] \in Nat
            <4>1. Queued(s) \subseteq Frames
                BY <1>2, ElemsType DEF Queued
            <4>2. QED
                BY <4>1 DEF Frames
        <3>3. \A i \in DOMAIN s.served : s.served[i][2] \in Nat
            BY <1>2
        <3>4. \A g \in Queued(t) : g.id[2] <= Len(t.sent)
            BY <1>3, <1>5, <3>1, <3>2 DEF NumbersOK
        <3>5. \A i \in DOMAIN t.served : t.served[i][2] <= Len(t.sent)
            BY <1>3, <1>5, <3>3 DEF NumbersOK
        <3>6. \A g, h \in Queued(t) : g.id = h.id => g.seq = h.seq
            BY <3>1 DEF NumbersOK
        <3>7. \A g \in Queued(t) : \A i \in DOMAIN t.served : g.id = t.served[i] => g.seq <= t.last
            BY <1>5, <3>1 DEF NumbersOK
        <3>8. \A i, j \in DOMAIN t.served : t.served[i] = t.served[j] => i = j
            BY <1>5 DEF NumbersOK
        <3>9. QED
            BY <3>4, <3>5, <3>6, <3>7, <3>8 DEF NumbersOK
    <2>2. CASE f \notin Queued(s) /\ f \in Queued(t)
        <3>1. f.id[2] = Len(s.sent) + 1 /\ Len(q) = Len(s.sent) + 1
            BY <1>3, <1>5, <2>2 DEF Queued
        <3>2. \A g \in Queued(s) : g.id[2] \in Nat /\ g.id[2] <= Len(s.sent)
            <4>1. Queued(s) \subseteq Frames
                BY <1>2, ElemsType DEF Queued
            <4>2. QED
                BY <4>1 DEF Frames, NumbersOK
        <3>3. \A i \in DOMAIN s.served : s.served[i][2] \in Nat /\ s.served[i][2] <= Len(s.sent)
            BY <1>2 DEF NumbersOK
        <3>4. \A g \in Queued(s) : g.id # f.id
            BY <1>3, <3>1, <3>2
        <3>5. \A i \in DOMAIN s.served : s.served[i] # f.id
            BY <1>3, <3>1, <3>3
        <3>6. \A g, h \in Queued(t) : g.id = h.id => g.seq = h.seq
            BY <1>6, <3>4 DEF NumbersOK
        <3>7. \A g \in Queued(t) : \A i \in DOMAIN t.served : g.id = t.served[i] => g.seq <= t.last
            BY <1>5, <1>6, <3>5 DEF NumbersOK
        <3>8. \A g \in Queued(t) : g.id[2] <= Len(t.sent)
            <4>1. \A g \in Queued(s) : g.id[2] <= Len(s.sent) + 1
                BY <1>3, <3>2
            <4>2. Len(t.sent) = Len(s.sent) + 1 /\ f.id[2] <= Len(s.sent) + 1
                BY <1>3, <1>5, <3>1
            <4>3. QED
                BY <1>6, <4>1, <4>2
        <3>9. \A i \in DOMAIN t.served : t.served[i][2] <= Len(t.sent)
            BY <1>3, <1>5, <3>1, <3>3
        <3>10. \A i, j \in DOMAIN t.served : t.served[i] = t.served[j] => i = j
            BY <1>5 DEF NumbersOK
        <3>11. QED
            BY <3>6, <3>7, <3>8, <3>9, <3>10 DEF NumbersOK
    <2>3. QED
        BY <2>1, <2>2
<1>11. NewsOK(t)
    BY <1>6 DEF NewsOK
<1>10. QED
    BY <1>5, <1>6, <1>8, <1>9, <1>11

\* What Transmit makes of the session.
LEMMA TransmitMakes ==
    ASSUME Inv, NEW k \in Conns, ~conn[k].closed, NEW f \in Frames, f.since <= Len(commits),
           f \in Elems(conn[k].sent) \/ f.id[2] = Len(conn[k].sent) + 1, Transmit(k, f)
    PROVE  \E s \in Sessions :
              /\ conn' = [conn EXCEPT ![k] = s]
              /\ NumbersOK(s) /\ LifeOK(s) /\ NewsOK(s) /\ ~s.closed
              /\ Queued(s) \subseteq Queued(conn[k]) \cup {f} /\ Spoken(s) = Spoken(conn[k])
<1>1. PICK q, s : /\ q = IF conn[k].down THEN conn[k].sent ELSE Append(conn[k].sent, f)
                  /\ s = [conn[k] EXCEPT !.sent = q]
    OBVIOUS
<1>2. conn' = [conn EXCEPT ![k] = s]
    BY <1>1 DEF Transmit
<1>3. conn[k] \in Sessions /\ NumbersOK(conn[k]) /\ LifeOK(conn[k]) /\ NewsOK(conn[k])
    BY SessionParts DEF Inv
<1>4. q \in {conn[k].sent, Append(conn[k].sent, f)} /\ q \in Seq(Frames)
    BY <1>1, SessionParts, ElemsAppend
<1>5. s \in Sessions
    BY <1>1, <1>3, <1>4 DEF Sessions
<1>6. /\ s.sent = q /\ s.inbox = conn[k].inbox /\ s.taken = conn[k].taken
      /\ s.served = conn[k].served /\ s.last = conn[k].last /\ s.closed = conn[k].closed
      /\ s.acked = conn[k].acked /\ s.complaint = conn[k].complaint
      /\ s.reader = conn[k].reader /\ s.worker = conn[k].worker
      /\ s.out = conn[k].out /\ s.answer = conn[k].answer
    BY <1>1, <1>3 DEF Sessions
<1>7. /\ NumbersOK(s) /\ LifeOK(s) /\ NewsOK(s) /\ ~s.closed
      /\ Queued(s) \subseteq Queued(conn[k]) \cup {f} /\ Spoken(s) = Spoken(conn[k])
    BY <1>3, <1>4, <1>5, <1>6, Transmitted
<1>8. QED
    BY <1>2, <1>5, <1>7

\* The number a client gives its next frame, and the frame's name.
LEMMA RequestType ==
    ASSUME Inv, NEW c \in Clients, Connected(c), client[c].sends < MaxSends,
           NEW type \in Calls \cup {"malformed", "bye"}, NEW arg \in Args, NEW ok \in BOOLEAN,
           type = "shutdown" => arg \in Issued, type = "ping" => ok,
           NEW f, f = Request(type, client[c].conn, client[c].next, arg, ok)
    PROVE  /\ f \in Frames
           /\ f.type = type /\ f.seq = client[c].next /\ f.ok = ok /\ f.since = Len(commits)
           /\ f.id[2] = Len(conn[client[c].conn].sent) + 1
<1>1. PICK k : k = client[c].conn
    OBVIOUS
<1>2. k \in Nat /\ Len(conn[k].sent) \in Nat
    <2>1. k \in Conns
        BY <1>1, ClientParts
    <2>2. conn[k].sent \in Seq(Frames)
        BY <2>1, SessionParts
    <2>3. k \in Nat
        BY <2>1 DEF Conns
    <2>4. QED
        BY <2>2, <2>3
<1>3. client[c].next \in 1 .. MaxSends
    <2>1. /\ client[c].next \in 1 .. MaxSends + 1 /\ client[c].sends \in 0 .. MaxSends
          /\ client[c].next <= client[c].sends + 1
        BY ClientParts DEF ClientStates, ClientOK
    <2>2. QED
        BY <2>1, BoundAssumption
<1>4. f = [type |-> type, seq |-> client[c].next, arg |-> arg, ok |-> ok,
           id |-> <<k, Len(conn[k].sent) + 1>>, since |-> Len(commits)]
    BY <1>1 DEF Request
<1>5. <<k, Len(conn[k].sent) + 1>> \in Nat \X Nat /\ Len(commits) \in Nat
    BY <1>2 DEF Inv, StoreOK
<1>6. QED
    BY <1>1, <1>3, <1>4, <1>5 DEF Frames

\* A typed call: its frame takes a number above those of all the frames the session
\* has queued and all the answers under way.
LEMMA CallStep ==
    ASSUME Inv, NEW c \in Clients, NEW type \in Calls, NEW arg \in Args,
           type = "shutdown" => arg \in Issued, Call(c, type, arg)
    PROVE  Inv'
<1>1. Connected(c) /\ client[c].sends < MaxSends /\ UNCHANGED <<server, store, commits>>
    BY DEF Call, Idle
<1>2. PICK k : k = client[c].conn
    OBVIOUS
<1>3. PICK f : f = Request(type, client[c].conn, client[c].next, arg, TRUE)
    OBVIOUS
<1>4. /\ f \in Frames /\ f.type = type /\ f.seq = client[c].next /\ f.ok /\ f.since <= Len(commits)
      /\ f.id[2] = Len(conn[k].sent) + 1
    <2>1. type \in Calls \cup {"malformed", "bye"} /\ TRUE \in BOOLEAN
        OBVIOUS
    <2>2. PICK ok \in BOOLEAN : ok = TRUE
        OBVIOUS
    <2>3. f = Request(type, client[c].conn, client[c].next, arg, ok)
        BY <1>3, <2>2
    <2>4. type = "ping" => ok
        BY <2>2
    <2>5. f \in Frames /\ f.type = type /\ f.seq = client[c].next /\ f.ok = ok
          /\ f.since = Len(commits) /\ Len(commits) \in Nat
          /\ f.id[2] = Len(conn[client[c].conn].sent) + 1
        BY <1>1, <2>1, <2>3, <2>4, RequestType DEF Inv, StoreOK
    <2>6. QED
        BY <1>2, <2>2, <2>5
<1>5. /\ client[c] \in ClientStates /\ ClientOK(c) /\ k \in Conns /\ k # 0
      /\ ExchangeOK(client[c], conn[k])
    BY <1>1, <1>2, ClientParts
<1>6. ~conn[k].closed /\ Transmit(k, f)
    BY <1>2, <1>3, <1>5 DEF Call, ExchangeOK
<1>7. PICK s \in Sessions :
          /\ conn' = [conn EXCEPT ![k] = s]
          /\ NumbersOK(s) /\ LifeOK(s) /\ NewsOK(s) /\ ~s.closed
          /\ Queued(s) \subseteq Queued(conn[k]) \cup {f} /\ Spoken(s) = Spoken(conn[k])
    BY <1>4, <1>5, <1>6, TransmitMakes
<1>9. PICK m : m = [client[c] EXCEPT !.next = client[c].next + 1, !.sends = client[c].sends + 1,
                                     !.wait = f, !.result = Nil]
    OBVIOUS
<1>10. client' = [client EXCEPT ![c] = m]
    BY <1>3, <1>9 DEF Call
<1>11. /\ client[c].next \in 1 .. MaxSends + 1 /\ client[c].sends \in 0 .. MaxSends
       /\ client[c].next <= client[c].sends + 1 /\ MaxSends \in Nat
    BY <1>5, BoundAssumption DEF ClientStates, ClientOK
<1>12. client[c].next + 1 \in 1 .. MaxSends + 1 /\ client[c].sends + 1 \in 0 .. MaxSends
    BY <1>1, <1>11
<1>13. m \in ClientStates
    BY <1>4, <1>5, <1>9, <1>12 DEF ClientStates
<1>14. m.conn = k /\ m.next = client[c].next + 1 /\ m.sends = client[c].sends + 1
       /\ m.wait = f /\ m.result = Nil /\ m.kept = client[c].kept
    BY <1>2, <1>5, <1>9 DEF ClientStates
<1>15. \A g \in Queued(s) : Genuine(g) =>
           g.seq < m.next /\ (m.wait # Nil /\ g.seq = m.wait.seq => g = m.wait)
    <2>1. ASSUME NEW g \in Queued(conn[k]), Genuine(g)
          PROVE  g.seq < m.next /\ g.seq # f.seq
        <3>1. g.seq < client[c].next
            BY <1>5, <2>1 DEF ExchangeOK
        <3>2. g \in Frames
            BY <1>5, SessionParts, ElemsType DEF Queued
        <3>3. g.seq \in Int
            BY <3>2 DEF Frames
        <3>4. QED
            BY <1>4, <1>11, <1>14, <3>1, <3>3
    <2>2. f.seq < m.next
        BY <1>4, <1>11, <1>14
    <2>3. QED
        BY <1>7, <1>14, <2>1, <2>2
<1>16. \A r \in Spoken(s) : r.type # "error" =>
           r.seq < m.next /\ (m.wait # Nil /\ r.seq = m.wait.seq => Answers(r, m.wait))
    <2>1. ASSUME NEW r \in Spoken(conn[k]), r.type # "error"
          PROVE  r.seq < m.next /\ r.seq # f.seq
        <3>1. r.seq < client[c].next
            BY <1>5, <2>1 DEF ExchangeOK
        <3>2. r \in Replies
            <4>1. PICK p \in PieceSet : r = p.of
                BY <1>5, SessionParts, ElemsType DEF Spoken
            <4>2. QED
                BY <4>1 DEF PieceSet
        <3>3. r.seq \in Int
            BY <3>2 DEF Replies
        <3>4. QED
            BY <1>4, <1>11, <1>14, <3>1, <3>3
    <2>2. QED
        BY <1>7, <1>14, <2>1
<1>17. ExchangeOK(m, s)
    BY <1>7, <1>15, <1>16 DEF ExchangeOK
<1>20. \A p \in m.kept : Committed(p.plan, p.id)
    BY <1>5, <1>14 DEF ClientOK
<1>18. OwnOK(m)
    BY <1>4, <1>5, <1>11, <1>14, <1>20, SMTT(30) DEF OwnOK
<1>19. QED
    BY <1>1, <1>2, <1>5, <1>7, <1>10, <1>13, <1>14, <1>17, <1>18, OwnStep

\* The arguments of the typed calls.
LEMMA ClientCallStep ==
    ASSUME Inv, NEW c \in Clients,
           \/ CallHello(c) \/ CallPing(c) \/ CallPlan(c) \/ CallList(c)
           \/ CallGet(c) \/ CallRevalidate(c) \/ CallShutdown(c)
    PROVE  Inv'
<1>1. /\ {"hello", "ping", "plan", "list", "get", "revalidate", "shutdown"} \subseteq Calls
      /\ Nil \in Args /\ Texts \subseteq Args /\ AskDigests \subseteq Args /\ Issued \subseteq Args
      /\ [digest : AskDigests, text : AskTexts] \subseteq Args
    BY DEF Calls, Args
<1>2. CASE CallHello(c) \/ CallPing(c) \/ CallList(c)
    BY <1>1, <1>2, CallStep DEF CallHello, CallPing, CallList
<1>3. CASE CallPlan(c)
    <2>1. PICK t \in Submits : Call(c, "plan", t)
        BY <1>3 DEF CallPlan
    <2>2. t \in Args
        BY <1>1, TextAssumption
    <2>3. QED
        BY <1>1, <2>1, <2>2, CallStep
<1>4. CASE CallGet(c)
    BY <1>1, <1>4, CallStep DEF CallGet
<1>5. CASE CallRevalidate(c)
    <2>1. PICK p \in AskDigests, x \in AskTexts : Call(c, "revalidate", [digest |-> p, text |-> x])
        BY <1>5 DEF CallRevalidate
    <2>2. PICK a : a = [digest |-> p, text |-> x]
        OBVIOUS
    <2>3. a \in Args
        BY <1>1, <2>2
    <2>4. QED
        BY <1>1, <2>1, <2>2, <2>3, CallStep
<1>6. CASE CallShutdown(c)
    <2>1. PICK e \in client[c].told : Call(c, "shutdown", e)
        BY <1>6 DEF CallShutdown
    <2>2. e \in Issued
        BY <2>1 DEF Inv, Typed, ClientStates
    <2>3. QED
        BY <1>1, <2>1, <2>2, CallStep
<1>7. QED
    BY <1>2, <1>3, <1>4, <1>5, <1>6

\* A raw frame is one the session has had, or none that a session would answer with
\* anything but a refusal.
LEMMA RawFrame ==
    ASSUME Inv, NEW c \in Clients, NEW kind \in RawFrames, SendRaw(c, kind), NEW k,
           k = client[c].conn
    PROVE  \E f \in Frames :
              /\ Transmit(k, f) /\ f.since <= Len(commits)
              /\ \/ f \in Elems(conn[k].sent)
                 \/ f.id[2] = Len(conn[k].sent) + 1 /\ ~Genuine(f)
<1>1. Connected(c) /\ client[c].sends < MaxSends
    BY DEF SendRaw, Idle
<1>2. k \in Conns
    BY <1>1, ClientParts
<1>3. kind \in {"malformed", "replay", "badhello", "badpayload", "bye"}
    BY BoundAssumption
<1>4. /\ {"malformed", "hello", "plan", "bye"} \subseteq Calls \cup {"malformed", "bye"}
      /\ SUBSET Defects \subseteq Args /\ Nil \in Args
    BY DEF Calls, Args
<1>6. CASE kind = "replay"
    <2>1. PICK i \in DOMAIN conn[k].sent : Transmit(k, conn[k].sent[i])
        BY <1>6 DEF SendRaw
    <2>2. conn[k].sent[i] \in Elems(conn[k].sent) /\ conn[k].sent \in Seq(Frames)
        BY <1>2, SessionParts DEF Elems
    <2>4. conn[k].sent[i].since <= Len(commits)
        BY <1>2, <2>2 DEF Inv, NewsOK, Queued
    <2>3. QED
        BY <2>1, <2>2, <2>4, ElemsType
<1>7. ASSUME NEW type \in {"malformed", "hello", "plan", "bye"}, NEW arg \in Args,
             NEW ok \in BOOLEAN, type # "bye" => ~ok,
             NEW f, f = Request(type, client[c].conn, client[c].next, arg, ok), Transmit(k, f)
      PROVE  \E g \in Frames :
                /\ Transmit(k, g) /\ g.since <= Len(commits)
                /\ \/ g \in Elems(conn[k].sent)
                   \/ g.id[2] = Len(conn[k].sent) + 1 /\ ~Genuine(g)
    <2>1. /\ f \in Frames /\ f.type = type /\ f.ok = ok /\ f.id[2] = Len(conn[k].sent) + 1
          /\ f.since = Len(commits)
        <3>1. type \in Calls \cup {"malformed", "bye"} /\ type # "shutdown" /\ type # "ping"
            BY <1>4, <1>7
        <3>2. Connected(c) /\ client[c].sends < MaxSends
            BY <1>1
        <3>3. type = "shutdown" => arg \in Issued
            BY <3>1
        <3>4. /\ f \in Frames /\ f.type = type /\ f.ok = ok
              /\ f.id[2] = Len(conn[client[c].conn].sent) + 1 /\ f.since = Len(commits)
            BY <1>7, <3>1, <3>2, <3>3, RequestType
        <3>5. QED
            BY <1>1, <3>4
    <2>4. Len(commits) \in Nat
        BY DEF Inv, StoreOK
    <2>2. ~Genuine(f)
        BY <1>7, <2>1 DEF Genuine
    <2>3. QED
        BY <1>7, <2>1, <2>2, <2>4
<1>8. CASE kind = "malformed"
    <2>1. PICK d \in SUBSET Defects :
              Transmit(k, Request("malformed", k, client[c].next, d, FALSE))
        BY <1>8 DEF SendRaw
    <2>2. d \in Args
        BY <1>4
    <2>3. QED
        BY <1>7, <2>1, <2>2
<1>9. CASE kind = "badhello"
    BY <1>4, <1>7, <1>9 DEF SendRaw
<1>10. CASE kind = "badpayload"
    BY <1>4, <1>7, <1>10 DEF SendRaw
<1>11. CASE kind = "bye"
    BY <1>4, <1>7, <1>11 DEF SendRaw
<1>12. QED
    BY <1>3, <1>6, <1>8, <1>9, <1>10, <1>11

\* What the client says of the queue of its session is kept by a frame that is replayed
\* or that no session takes for a request.
LEMMA SendRawStep ==
    ASSUME Inv, NEW c \in Clients, NEW kind \in RawFrames, SendRaw(c, kind)
    PROVE  Inv'
<1>1. Connected(c) /\ client[c].sends < MaxSends /\ UNCHANGED <<server, store, commits>>
    BY DEF SendRaw, Idle
<1>2. PICK k : k = client[c].conn
    OBVIOUS
<1>3. PICK f \in Frames :
          /\ Transmit(k, f) /\ f.since <= Len(commits)
          /\ \/ f \in Elems(conn[k].sent)
             \/ f.id[2] = Len(conn[k].sent) + 1 /\ ~Genuine(f)
    BY <1>2, RawFrame
<1>4. /\ client[c] \in ClientStates /\ ClientOK(c) /\ k \in Conns /\ k # 0
      /\ ExchangeOK(client[c], conn[k])
    BY <1>1, <1>2, ClientParts
<1>5. ~conn[k].closed
    BY <1>4 DEF ExchangeOK
<1>6. PICK s \in Sessions :
          /\ conn' = [conn EXCEPT ![k] = s]
          /\ NumbersOK(s) /\ LifeOK(s) /\ NewsOK(s) /\ ~s.closed
          /\ Queued(s) \subseteq Queued(conn[k]) \cup {f} /\ Spoken(s) = Spoken(conn[k])
    BY <1>3, <1>4, <1>5, TransmitMakes
<1>7. PICK m : m = [client[c] EXCEPT !.sends = client[c].sends + 1]
    OBVIOUS
<1>8. client' = [client EXCEPT ![c] = m]
    BY <1>7 DEF SendRaw
<1>9. /\ client[c].next \in 1 .. MaxSends + 1 /\ client[c].sends \in 0 .. MaxSends
      /\ client[c].next <= client[c].sends + 1 /\ MaxSends \in Nat
    BY <1>4, BoundAssumption DEF ClientStates, ClientOK
<1>10. client[c].sends + 1 \in 0 .. MaxSends
    BY <1>1, <1>9
<1>11. m \in ClientStates
    BY <1>4, <1>7, <1>10 DEF ClientStates
<1>12. /\ m.conn = k /\ m.next = client[c].next /\ m.sends = client[c].sends + 1
       /\ m.wait = client[c].wait /\ m.result = client[c].result /\ m.kept = client[c].kept
    BY <1>2, <1>4, <1>7 DEF ClientStates
<1>13. \A g \in Queued(s) : Genuine(g) => g \in Queued(conn[k])
    BY <1>3, <1>6 DEF Queued
<1>14. ExchangeOK(m, s)
    BY <1>4, <1>6, <1>12, <1>13 DEF ExchangeOK
<1>15. OwnOK(m)
    <2>1. m.next <= m.sends + 1
        BY <1>9, <1>12
    <2>2. QED
        BY <1>4, <1>12, <2>1 DEF OwnOK, ClientOK
<1>16. QED
    BY <1>1, <1>2, <1>4, <1>6, <1>8, <1>11, <1>12, <1>14, <1>15, OwnStep

\* A client that closes its connection leaves the session what it has sent.
LEMMA CloseStep ==
    ASSUME Inv, NEW c \in Clients, Close(c)
    PROVE  Inv'
<1>1. Connected(c) /\ client[c].wait = Nil /\ UNCHANGED <<server, store, commits>>
    BY DEF Close, Idle
<1>2. PICK k : k = client[c].conn
    OBVIOUS
<1>3. /\ client[c] \in ClientStates /\ ClientOK(c) /\ k \in Conns /\ k # 0
      /\ ExchangeOK(client[c], conn[k])
    BY <1>1, <1>2, ClientParts
<1>4. conn[k] \in Sessions /\ NumbersOK(conn[k]) /\ LifeOK(conn[k])
    BY <1>3, SessionParts
<1>5. PICK q, e : e = <<>>
                  /\ q = SubSeq(conn[k].sent, conn[k].taken + 1, Len(conn[k].sent))
    OBVIOUS
<1>6. /\ q \in Seq(Frames) /\ Elems(q) \subseteq Elems(conn[k].sent)
      /\ e \in Seq(PieceSet) /\ Elems(e) = {} /\ Len(q) \in Nat
    <2>1. conn[k].taken \in Nat
        BY <1>4 DEF Sessions
    <2>2. q \in Seq(Frames) /\ Elems(q) \subseteq Elems(conn[k].sent)
        BY <1>3, <1>5, <2>1, SessionParts, ElemsSubSeq
    <2>3. <<>> \in Seq(PieceSet) /\ Elems(<<>>) = {}
        BY ElemsEmpty
    <2>4. QED
        BY <1>5, <2>2, <2>3
<1>7. PICK s : s = [conn[k] EXCEPT !.closed = TRUE, !.out = e, !.taken = 0, !.sent = q]
    OBVIOUS
<1>8. conn' = [conn EXCEPT ![k] = s]
    BY <1>2, <1>5, <1>7 DEF Close
<1>9. s \in Sessions
    BY <1>4, <1>6, <1>7 DEF Sessions
<1>10. /\ s.sent = q /\ s.inbox = conn[k].inbox /\ s.taken = 0 /\ s.closed
       /\ s.served = conn[k].served /\ s.last = conn[k].last
       /\ s.acked = conn[k].acked /\ s.complaint = conn[k].complaint
       /\ s.reader = conn[k].reader /\ s.worker = conn[k].worker
    BY <1>4, <1>7 DEF Sessions
<1>11. Queued(s) \subseteq Queued(conn[k])
    BY <1>6, <1>10 DEF Queued
<1>12. NumbersOK(s)
    BY <1>4, <1>10, <1>11 DEF NumbersOK
<1>13. LifeOK(s)
    BY <1>4, <1>6, <1>10 DEF LifeOK
<1>20. NewsOK(s)
    BY <1>3, <1>11 DEF Inv, NewsOK
<1>14. PICK m : m = [client[c] EXCEPT !.conn = 0]
    OBVIOUS
<1>15. client' = [client EXCEPT ![c] = m]
    BY <1>14 DEF Close
<1>16. m \in ClientStates
    BY <1>3, <1>14 DEF ClientStates
<1>17. /\ m.conn = 0 /\ m.next = client[c].next /\ m.sends = client[c].sends
       /\ m.wait = client[c].wait /\ m.result = client[c].result /\ m.kept = client[c].kept
    BY <1>3, <1>14 DEF ClientStates
<1>18. OwnOK(m)
    BY <1>1, <1>3, <1>17 DEF OwnOK, ClientOK
<1>19. QED
    BY <1>1, <1>2, <1>3, <1>8, <1>9, <1>12, <1>13, <1>15, <1>16, <1>17, <1>18, <1>20, OwnStep

\* A session after its client has read a part of what it said.
LEMMA OutRead ==
    ASSUME Inv, NEW k \in Conns, NEW o \in Seq(PieceSet), Elems(o) \subseteq Elems(conn[k].out)
    PROVE  /\ [conn[k] EXCEPT !.out = o] \in Sessions
           /\ NumbersOK([conn[k] EXCEPT !.out = o]) /\ LifeOK([conn[k] EXCEPT !.out = o])
           /\ NewsOK([conn[k] EXCEPT !.out = o])
           /\ [conn[k] EXCEPT !.out = o].closed = conn[k].closed
           /\ Queued([conn[k] EXCEPT !.out = o]) = Queued(conn[k])
           /\ Spoken([conn[k] EXCEPT !.out = o]) \subseteq Spoken(conn[k])
<1>1. PICK s : s = [conn[k] EXCEPT !.out = o]
    OBVIOUS
<1>2. conn[k] \in Sessions
    BY SessionParts
<1>3. s \in Sessions
    BY <1>1, <1>2 DEF Sessions
<1>4. /\ s.sent = conn[k].sent /\ s.inbox = conn[k].inbox /\ s.taken = conn[k].taken
      /\ s.served = conn[k].served /\ s.last = conn[k].last /\ s.closed = conn[k].closed
      /\ s.acked = conn[k].acked /\ s.complaint = conn[k].complaint
      /\ s.reader = conn[k].reader /\ s.worker = conn[k].worker
      /\ s.out = o /\ s.answer = conn[k].answer
    BY <1>1, <1>2 DEF Sessions
<1>5. Queued(s) = Queued(conn[k]) /\ Spoken(s) \subseteq Spoken(conn[k])
    BY <1>4 DEF Queued, Spoken
<1>6. NumbersOK(s)
    BY <1>4, <1>5, SessionParts, NumbersQuiet
<1>7. LifeOK(s)
    BY <1>4, SessionParts DEF LifeOK
<1>9. NewsOK(s)
    BY <1>5 DEF Inv, NewsOK
<1>8. QED
    BY <1>1, <1>3, <1>4, <1>5, <1>6, <1>7, <1>9

\* The end of an exchange, with or without a result.
LEMMA ReadStep ==
    ASSUME Inv, NEW c \in Clients, Connected(c), NEW k, k = client[c].conn,
           NEW o \in Seq(PieceSet), Elems(o) \subseteq Elems(conn[k].out),
           conn' = [conn EXCEPT ![k] = [conn[k] EXCEPT !.out = o]],
           NEW m \in ClientStates, client' = [client EXCEPT ![c] = m],
           m.conn = k, m.next = client[c].next, m.sends = client[c].sends, m.wait = Nil,
           m.result # Nil =>
              /\ Answers(m.result.reply, m.result.call)
              /\ m.result.reply.type = ReplyTo(m.result.call.type),
           \A p \in m.kept : Committed(p.plan, p.id),
           UNCHANGED <<server, store, commits>>
    PROVE  Inv'
<1>1. /\ client[c] \in ClientStates /\ ClientOK(c) /\ k \in Conns /\ k # 0
      /\ ExchangeOK(client[c], conn[k])
    BY ClientParts
<1>2. PICK s : s = [conn[k] EXCEPT !.out = o]
    OBVIOUS
<1>3. /\ s \in Sessions /\ NumbersOK(s) /\ LifeOK(s) /\ NewsOK(s) /\ s.closed = conn[k].closed
      /\ Queued(s) = Queued(conn[k]) /\ Spoken(s) \subseteq Spoken(conn[k])
    BY <1>1, <1>2, OutRead
<1>4. ExchangeOK(m, s)
    BY <1>1, <1>3 DEF ExchangeOK
<1>5. OwnOK(m)
    BY <1>1 DEF OwnOK, ClientOK
<1>6. conn' = [conn EXCEPT ![k] = s]
    BY <1>2
<1>7. QED
    BY <1>1, <1>3, <1>4, <1>5, <1>6, OwnStep

\* The call gets no result: what arrived is no frame.
LEMMA ReceiveGarbageStep ==
    ASSUME Inv, NEW c \in Clients, ReceiveGarbage(c)
    PROVE  Inv'
<1>1. PICK k : k = client[c].conn
    OBVIOUS
<1>2. /\ Connected(c) /\ UNCHANGED <<server, store, commits>>
      /\ client' = [client EXCEPT ![c] = [client[c] EXCEPT !.wait = Nil, !.result = Nil]]
    BY DEF ReceiveGarbage
<1>3. PICK n \in 1 .. Len(conn[k].out) :
          conn' = [conn EXCEPT ![k] =
                      [conn[k] EXCEPT !.out = SubSeq(conn[k].out, n + 1, Len(conn[k].out))]]
    BY <1>1 DEF ReceiveGarbage
<1>4. client[c] \in ClientStates /\ k \in Conns
    BY <1>1, <1>2, ClientParts
<1>5. PICK o : o = SubSeq(conn[k].out, n + 1, Len(conn[k].out))
    OBVIOUS
<1>6. o \in Seq(PieceSet) /\ Elems(o) \subseteq Elems(conn[k].out)
    BY <1>4, <1>5, SessionParts, ElemsSubSeq
<1>7. PICK m : m = [client[c] EXCEPT !.wait = Nil, !.result = Nil]
    OBVIOUS
<1>8. m \in ClientStates
    BY <1>4, <1>7 DEF ClientStates
<1>9. /\ m.conn = client[c].conn /\ m.next = client[c].next /\ m.sends = client[c].sends
      /\ m.wait = Nil /\ m.result = Nil /\ m.kept = client[c].kept
    BY <1>4, <1>7 DEF ClientStates
<1>10. client' = [client EXCEPT ![c] = m]
    BY <1>2, <1>7
<1>11. conn' = [conn EXCEPT ![k] = [conn[k] EXCEPT !.out = o]]
    BY <1>3, <1>5
<1>13. \A p \in m.kept : Committed(p.plan, p.id)
    BY <1>9 DEF Inv, ClientOK
<1>12. QED
    BY <1>13, <1>1, <1>2, <1>6, <1>8, <1>9, <1>10, <1>11, ReadStep

\* The call gets no result: the stream has ended.
LEMMA ReceiveEofStep ==
    ASSUME Inv, NEW c \in Clients, ReceiveEof(c)
    PROVE  Inv'
<1>1. PICK k : k = client[c].conn
    OBVIOUS
<1>2. /\ Connected(c) /\ UNCHANGED <<server, store, commits>>
      /\ client' = [client EXCEPT ![c] = [client[c] EXCEPT !.wait = Nil, !.result = Nil]]
    BY DEF ReceiveEof
<1>3. client[c] \in ClientStates /\ k \in Conns
    BY <1>1, <1>2, ClientParts
<1>4. PICK m : m = [client[c] EXCEPT !.wait = Nil, !.result = Nil]
    OBVIOUS
<1>5. m \in ClientStates
    BY <1>3, <1>4 DEF ClientStates
<1>6. /\ m.conn = client[c].conn /\ m.next = client[c].next /\ m.sends = client[c].sends
      /\ m.wait = Nil /\ m.result = Nil /\ m.kept = client[c].kept
    BY <1>3, <1>4 DEF ClientStates
<1>7. client' = [client EXCEPT ![c] = m]
    BY <1>2, <1>4
<1>8. PICK o : o = conn[k].out
    OBVIOUS
<1>9. conn' = [conn EXCEPT ![k] = [conn[k] EXCEPT !.out = o]]
    <2>1. [conn[k] EXCEPT !.out = o] = conn[k]
        BY <1>3, <1>8, SessionParts DEF Sessions
    <2>2. [conn EXCEPT ![k] = conn[k]] = conn
        BY <1>3 DEF Inv, Typed, Conns
    <2>3. conn' = conn
        BY DEF ReceiveEof
    <2>4. QED
        BY <2>1, <2>2, <2>3
<1>10. o \in Seq(PieceSet) /\ Elems(o) \subseteq Elems(conn[k].out)
    BY <1>3, <1>8, SessionParts
<1>12. \A p \in m.kept : Committed(p.plan, p.id)
    BY <1>6 DEF Inv, ClientOK
<1>11. QED
    BY <1>12, <1>1, <1>2, <1>5, <1>6, <1>7, <1>9, <1>10, ReadStep

\* A reply to a typed call is never an error frame.
LEMMA ReplyToCall ==
    ASSUME NEW type \in Calls
    PROVE  ReplyTo(type) # "error"
BY SMTT(30) DEF Calls, ReplyTo

\* A result is an answer to the call: no reply under way has the number of the call the
\* client waits on, unless it was made for that call.
LEMMA ReceiveStep ==
    ASSUME Inv, NEW c \in Clients, Receive(c)
    PROVE  Inv'
<1>1. PICK k, f, out : k = client[c].conn /\ f = client[c].wait /\ out = conn[k].out
    OBVIOUS
<1>2. /\ Connected(c) /\ f # Nil /\ Len(out) >= 2 /\ Decodes(out)
      /\ conn' = [conn EXCEPT ![k] = [conn[k] EXCEPT !.out = SubSeq(out, 3, Len(out))]]
      /\ UNCHANGED <<server, store, commits>>
    BY <1>1 DEF Receive
<1>3. /\ client[c] \in ClientStates /\ ClientOK(c) /\ k \in Conns
      /\ ExchangeOK(client[c], conn[k])
    BY <1>1, <1>2, ClientParts
<1>4. out \in Seq(PieceSet)
    BY <1>1, <1>3, SessionParts
<1>5. PICK r : r = out[1].of
    OBVIOUS
<1>6. r \in Replies /\ r \in Spoken(conn[k])
    <2>1. out[1] \in PieceSet /\ out[1] \in Elems(out)
        BY <1>2, <1>4 DEF Elems
    <2>2. QED
        BY <1>1, <1>5, <2>1 DEF PieceSet, Spoken
<1>7. r = [out[1].of EXCEPT !.value = out[2].of.value, !.id = out[2].of.id]
    <2>1. out[2].of = r
        BY <1>2, <1>5 DEF Decodes
    <2>2. r = [r EXCEPT !.value = r.value, !.id = r.id]
        BY <1>6 DEF Replies
    <2>3. QED
        BY <1>5, <2>1, <2>2
<1>8. PICK x : x = IF Accepts(f, r) THEN [call |-> f, reply |-> r] ELSE Nil
    OBVIOUS
<1>9. PICK y : y = IF Accepts(f, r) /\ r.type = "hello_ack" THEN client[c].told \cup {r.value}
                                                            ELSE client[c].told
    OBVIOUS
<1>23. PICK z : z = IF Accepts(f, r) /\ r.type = "plan_response" /\ r.value.stored
                     THEN client[c].kept \cup {[plan |-> r.value.plan, id |-> f.id]}
                     ELSE client[c].kept
    OBVIOUS
<1>10. client' = [client EXCEPT ![c] = [client[c] EXCEPT !.wait = Nil, !.result = x, !.told = y,
                                                         !.kept = z]]
    <2>1. client' = [client EXCEPT ![c] =
            [client[c] EXCEPT
                !.wait = Nil,
                !.result = IF Accepts(f, r) THEN [call |-> f, reply |-> r] ELSE Nil,
                !.told = IF Accepts(f, r) /\ r.type = "hello_ack"
                         THEN client[c].told \cup {r.value} ELSE client[c].told,
                !.kept = IF Accepts(f, r) /\ r.type = "plan_response" /\ r.value.stored
                         THEN client[c].kept \cup {[plan |-> r.value.plan, id |-> f.id]}
                         ELSE client[c].kept]]
        BY <1>1, <1>7 DEF Receive
    <2>2. QED
        BY <1>8, <1>9, <1>23, <2>1
<1>11. f \in Frames /\ f.type \in Calls /\ f.seq < client[c].next
    BY <1>1, <1>2, <1>3 DEF ClientStates, ClientOK
<1>12. x \in [call : Frames, reply : Replies] \cup {Nil}
    BY <1>6, <1>8, <1>11
<1>13. y \in SUBSET Issued
    <2>1. client[c].told \in SUBSET Issued
        BY <1>3 DEF ClientStates
    <2>2. r.type = "hello_ack" => r.value \in Issued
        BY <1>6 DEF Replies
    <2>3. QED
        BY <1>9, <2>1, <2>2
<1>24. ASSUME Accepts(f, r)
       PROVE  Answers(r, f)
    <2>1. r.seq = f.seq /\ r.type = ReplyTo(f.type)
        BY <1>24 DEF Accepts
    <2>2. r.type # "error"
        BY <1>11, <2>1, ReplyToCall
    <2>3. QED
        BY <1>1, <1>2, <1>3, <1>6, <2>1, <2>2 DEF ExchangeOK
<1>25. ASSUME Accepts(f, r), r.type = "plan_response", r.value.stored
       PROVE  /\ Committed(r.value.plan, f.id)
              /\ [plan |-> r.value.plan, id |-> f.id] \in [plan : Plans \cup {Nil}, id : Nat \X Nat]
    <2>1. Committed(r.value.plan, f.id)
        BY <1>24, <1>25 DEF Answers
    <2>2. r.value.plan \in Plans
        <3>1. PICK n \in 1 .. Len(commits) : commits[n].plan = r.value.plan
            BY <2>1 DEF Committed
        <3>2. commits \in Seq(Commits)
            BY DEF Inv, StoreOK
        <3>3. commits[n] \in Commits
            BY <3>2
        <3>4. QED
            BY <3>1, <3>3 DEF Commits
    <2>3. f.id \in Nat \X Nat
        BY <1>11 DEF Frames
    <2>4. QED
        BY <2>1, <2>2, <2>3
<1>26. /\ z \in SUBSET [plan : Plans \cup {Nil}, id : Nat \X Nat]
       /\ \A p \in z : Committed(p.plan, p.id)
    <2>1. /\ client[c].kept \in SUBSET [plan : Plans \cup {Nil}, id : Nat \X Nat]
          /\ \A p \in client[c].kept : Committed(p.plan, p.id)
        BY <1>3 DEF ClientStates, ClientOK
    <2>2. CASE Accepts(f, r) /\ r.type = "plan_response" /\ r.value.stored
        <3>1. PICK b : b = [plan |-> r.value.plan, id |-> f.id]
            OBVIOUS
        <3>2. b.plan = r.value.plan /\ b.id = f.id /\ z = client[c].kept \cup {b}
            BY <1>23, <2>2, <3>1
        <3>3. b \in [plan : Plans \cup {Nil}, id : Nat \X Nat] /\ Committed(b.plan, b.id)
            BY <1>25, <2>2, <3>1, <3>2
        <3>4. QED
            BY <2>1, <3>2, <3>3
    <2>3. CASE ~(Accepts(f, r) /\ r.type = "plan_response" /\ r.value.stored)
        BY <1>23, <2>1, <2>3
    <2>4. QED
        BY <2>2, <2>3
<1>14. PICK m : m = [client[c] EXCEPT !.wait = Nil, !.result = x, !.told = y, !.kept = z]
    OBVIOUS
<1>15. m \in ClientStates
    BY <1>3, <1>12, <1>13, <1>14, <1>26 DEF ClientStates
<1>16. /\ m.conn = client[c].conn /\ m.next = client[c].next /\ m.sends = client[c].sends
       /\ m.wait = Nil /\ m.result = x /\ m.kept = z
    BY <1>3, <1>14 DEF ClientStates
<1>17. x # Nil => /\ Answers(x.reply, x.call)
                  /\ x.reply.type = ReplyTo(x.call.type)
    <2> SUFFICES ASSUME x # Nil
                 PROVE  Answers(x.reply, x.call) /\ x.reply.type = ReplyTo(x.call.type)
        OBVIOUS
    <2>1. Accepts(f, r) /\ x.call = f /\ x.reply = r
        BY <1>8
    <2>2. r.seq = f.seq /\ r.type = ReplyTo(f.type)
        BY <2>1 DEF Accepts
    <2>4. Answers(r, f)
        BY <1>24, <2>1
    <2>5. QED
        BY <2>1, <2>2, <2>4
<1>18. PICK o : o = SubSeq(out, 2 + 1, Len(out))
    OBVIOUS
<1>19. o \in Seq(PieceSet) /\ Elems(o) \subseteq Elems(conn[k].out)
    BY <1>1, <1>4, <1>18, ElemsSubSeq
<1>20. conn' = [conn EXCEPT ![k] = [conn[k] EXCEPT !.out = o]]
    BY <1>2, <1>18
<1>21. client' = [client EXCEPT ![c] = m]
    BY <1>10, <1>14
<1>22. QED
    BY <1>1, <1>2, <1>15, <1>16, <1>17, <1>19, <1>20, <1>21, <1>26, ReadStep, ZenonT(40)

-----------------------------------------------------------------------------
(* Connections and processes *)

\* A session as it is accepted.
LEMMA NewSessionOK ==
    ASSUME server.up
    PROVE  /\ NewSession \in Sessions /\ NumbersOK(NewSession) /\ LifeOK(NewSession)
           /\ NewsOK(NewSession)
           /\ Queued(NewSession) = {} /\ Spoken(NewSession) = {} /\ ~NewSession.closed
<1>1. PICK e : e = <<>>
    OBVIOUS
<1>2. /\ e \in Seq(Frames) /\ e \in Seq(PieceSet) /\ e \in Seq(Nat \X Nat) /\ Len(e) = 0
      /\ Elems(e) = {}
    <2>1. <<>> \in Seq(Frames) /\ <<>> \in Seq(PieceSet) /\ <<>> \in Seq(Nat \X Nat)
        OBVIOUS
    <2>2. QED
        BY <1>1, <2>1, ElemsEmpty
<1>3. PICK s : s = NewSession
    OBVIOUS
<1>4. s = [sent |-> e, taken |-> 0, inbox |-> e, answer |-> e, complaint |-> e,
           out |-> e, reader |-> "run", worker |-> "idle", down |-> FALSE,
           closed |-> FALSE, handshaken |-> FALSE, last |-> -1, acked |-> Nil, served |-> e,
           mute |-> Nil]
    BY <1>1, <1>3 DEF NewSession
<1>5. -1 \in -1 .. MaxSends
    BY BoundAssumption
<1>6. s \in Sessions
    BY <1>2, <1>4, <1>5 DEF Sessions
<1>7. /\ s.sent = e /\ s.inbox = e /\ s.served = e /\ s.answer = e /\ s.out = e
      /\ s.complaint = e /\ s.taken = 0 /\ s.reader = "run" /\ s.acked = Nil /\ ~s.closed
    BY <1>4
<1>8. NumbersOK(s)
    BY <1>1, <1>7, NumbersEmpty
<1>9. LifeOK(s)
    BY <1>2, <1>7 DEF LifeOK
<1>10. Queued(s) = {} /\ Spoken(s) = {}
    BY <1>2, <1>7 DEF Queued, Spoken
<1>12. NewsOK(s)
    BY <1>10 DEF NewsOK
<1>11. QED
    BY <1>12, <1>3, <1>6, <1>7, <1>8, <1>9, <1>10

\* A new connection belongs to nobody else.
LEMMA ConnectStep ==
    ASSUME Inv, NEW c \in Clients, Connect(c)
    PROVE  Inv'
<1>1. /\ client[c].conn = 0 /\ server.up /\ Len(conn) < MaxConnects
      /\ conn' = Append(conn, NewSession) /\ UNCHANGED <<server, store, commits>>
    BY DEF Connect, Connected
<1>2. conn \in Seq(Sessions) /\ client \in [Clients -> ClientStates] /\ Len(conn) \in Nat
    BY DEF Inv, Typed
<1>3. PICK s : s = NewSession
    OBVIOUS
<1>4. /\ s \in Sessions /\ NumbersOK(s) /\ LifeOK(s) /\ NewsOK(s)
      /\ Queued(s) = {} /\ Spoken(s) = {} /\ ~s.closed
    BY <1>1, <1>3, NewSessionOK
<1>5. PICK n : n = Len(conn) + 1
    OBVIOUS
<1>6. /\ conn' \in Seq(Sessions) /\ Len(conn') = n /\ conn'[n] = s
      /\ \A j \in 1 .. Len(conn) : conn'[j] = conn[j]
    BY <1>1, <1>2, <1>3, <1>4, <1>5
<1>7. n \in Nat /\ n # 0 /\ n <= MaxConnects /\ 1 .. n = 1 .. Len(conn) \cup {n} /\ n > Len(conn)
    BY <1>1, <1>2, <1>5, BoundAssumption
<1>8. PICK m : m = [client[c] EXCEPT !.conn = n, !.next = 1, !.result = Nil]
    OBVIOUS
<1>9. client' = [client EXCEPT ![c] = m]
    BY <1>5, <1>8 DEF Connect
<1>10. client[c] \in ClientStates /\ ClientOK(c)
    BY DEF Inv, Typed
<1>11. 1 \in 1 .. MaxSends + 1
    BY BoundAssumption
<1>12. m \in ClientStates
    BY <1>7, <1>8, <1>10, <1>11 DEF ClientStates
<1>13. /\ m.conn = n /\ m.next = 1 /\ m.sends = client[c].sends /\ m.result = Nil
       /\ m.wait = client[c].wait /\ m.kept = client[c].kept
    BY <1>8, <1>10 DEF ClientStates
<1>14. /\ client' \in [Clients -> ClientStates] /\ client'[c] = m
       /\ \A d \in Clients : d # c => client'[d] = client[d]
    BY <1>2, <1>9, <1>12
<1>15. \A d \in Clients : client[d].conn \in 0 .. Len(conn)
    BY DEF Inv, ClientOK
<1>16. \A d \in Clients : client[d].conn # n
    BY <1>2, <1>7, <1>15
<1>17. ClientOK(c)'
    <2>1. m.conn \in 0 .. Len(conn')
        BY <1>6, <1>7, <1>13
    <2>2. ExchangeOK(m, conn[m.conn])'
        BY <1>4, <1>6, <1>13 DEF ExchangeOK
    <2>3. \A d \in Clients \ {c} : client'[d].conn # m.conn
        BY <1>13, <1>14, <1>16
    <2>4. m.next <= m.sends + 1 /\ m.wait = Nil
        <3>1. client[c].sends \in Nat
            BY <1>10, BoundAssumption DEF ClientStates
        <3>2. QED
            BY <1>1, <1>10, <1>13, <3>1 DEF ClientOK
    <2>6. (\A p \in m.kept : Committed(p.plan, p.id))'
        BY <1>1, <1>10, <1>13 DEF ClientOK, Committed
    <2>5. QED
        BY <1>13, <1>14, <2>1, <2>2, <2>3, <2>4, <2>6 DEF ClientOK
<1>18. ASSUME NEW d \in Clients, d # c
       PROVE  ClientOK(d)'
    <2>1. ClientOK(d) /\ client'[d] = client[d] /\ client[d].conn \in 0 .. Len(conn)
        BY <1>14, <1>15, <1>18 DEF Inv
    <2>2. client[d].conn \in 0 .. Len(conn')
        BY <1>5, <1>6, <1>7, <2>1
    <2>3. client[d].conn # 0 => conn'[client[d].conn] = conn[client[d].conn]
        BY <1>6, <2>1
    <2>4. client[d].conn # 0 => ExchangeOK(client[d], conn[client[d].conn])'
        BY <1>1, <2>1, <2>3, ClientSteady
    <2>5. \A e \in Clients \ {d} : client[d].conn # 0 => client'[e].conn # client[d].conn
        <3>1. \A e \in Clients : client'[e].conn \in {client[e].conn, n}
            BY <1>13, <1>14
        <3>2. QED
            BY <1>16, <3>1, ConnIsOwn
    <2>6. OwnOK(client[d])'
        BY <1>1, <2>1, <2>3, ClientSteady
    <2>7. QED
        BY <2>1, <2>2, <2>4, <2>5, <2>6 DEF ClientOK, OwnOK
<1>19. \A j \in Conns' : (NumbersOK(conn[j]) /\ LifeOK(conn[j]) /\ NewsOK(conn[j]))'
    <2>1. \A j \in 1 .. n : NumbersOK(conn'[j]) /\ LifeOK(conn'[j]) /\ NewsOK(conn'[j])
        BY <1>4, <1>6, <1>7 DEF Inv, Conns
    <2>2. ASSUME NEW j \in 1 .. n
          PROVE  (NumbersOK(conn[j]) /\ LifeOK(conn[j]) /\ NewsOK(conn[j]))'
        <3>1. PICK t : t = conn'[j]
            OBVIOUS
        <3>2. NumbersOK(t) /\ LifeOK(t) /\ NewsOK(t)
            BY <2>1, <3>1
        <3>3. LifeOK(t)' /\ NewsOK(t)'
            BY <1>1, <3>2 DEF LifeOK, NewsOK
        <3>4. QED
            BY <3>1, <3>2, <3>3 DEF NumbersOK, LifeOK, NewsOK
    <2>3. Conns' = 1 .. n
        BY <1>6 DEF Conns
    <2>4. QED
        BY <2>2, <2>3
<1>20. server' \in Servers /\ ServerOK' /\ StoreOK'
    BY <1>1, ServerKept, Steady DEF Growing
<1>21. QED
    BY <1>1, <1>6, <1>7, <1>14, <1>17, <1>18, <1>19, <1>20 DEF Inv, Typed

\* A process starts when no thread of an earlier one is left.
LEMMA StartStep ==
    ASSUME Inv, Start
    PROVE  Inv'
<1>1. ~server.up /\ server.starts < MaxStarts /\ UNCHANGED <<store, commits, conn, client>>
    BY DEF Start
<1>2. server \in Servers /\ conn \in Seq(Sessions)
    BY DEF Inv, Typed
<1>3. PICK e : e = IF Stored THEN server.starts + 1 ELSE 1
    OBVIOUS
<1>4. server' = [up |-> TRUE, starts |-> server.starts + 1, stop |-> Nil, epoch |-> e]
    BY <1>3 DEF Start
<1>5. server.starts \in 0 .. MaxStarts
    BY <1>2 DEF Servers
<1>6. server.starts + 1 \in 0 .. MaxStarts /\ e \in 0 .. MaxStarts
    BY <1>1, <1>3, <1>5, BoundAssumption
<1>7. server' \in Servers
    BY <1>4, <1>6 DEF Servers
<1>8. server'.up /\ server'.starts = server.starts + 1 /\ server'.stop = Nil /\ server'.epoch = e
    BY <1>4
<1>9. ServerOK'
    BY <1>3, <1>8 DEF ServerOK, StopIsForThisProcess
<1>10. \A k \in Conns' : (NumbersOK(conn[k]) /\ LifeOK(conn[k]) /\ NewsOK(conn[k]))'
    <2>1. \A k \in Conns : NumbersOK(conn[k]) /\ LifeOK(conn[k]) /\ NewsOK(conn[k])
        BY DEF Inv
    <2>2. QED
        BY <1>1, <1>8, <2>1 DEF Conns, NumbersOK, LifeOK, NewsOK
<1>11. ASSUME NEW c \in Clients
       PROVE  ClientOK(c)'
    <2>1. ClientOK(c)
        BY DEF Inv
    <2>2. /\ client[c].conn # 0 => ExchangeOK(client[c], conn[client[c].conn])'
          /\ OwnOK(client[c])'
        BY <1>1, <2>1, ClientSteady
    <2>3. QED
        BY <1>1, <2>1, <2>2 DEF ClientOK, OwnOK
<1>13. StoreOK'
    BY <1>1, Steady DEF Growing
<1>12. QED
    BY <1>1, <1>7, <1>9, <1>10, <1>11, <1>13 DEF Inv, Typed

\* What the end of the process leaves of a session.
LEMMA SeveredOK ==
    ASSUME Inv, NEW k \in Conns, NEW keep \in BOOLEAN, NEW s, s = Severed(k, keep)
    PROVE  /\ s \in Sessions /\ NumbersOK(s) /\ NewsOK(s) /\ s.taken = 0 /\ Len(s.sent) = 0
           /\ s.reader = "done" /\ s.worker = "done" /\ s.acked = Nil /\ Elems(s.complaint) = {}
           /\ Queued(s) = {} /\ Spoken(s) \subseteq Spoken(conn[k]) /\ ~s.closed
<1>1. PICK e : e = <<>>
    OBVIOUS
<1>2. /\ e \in Seq(Frames) /\ e \in Seq(PieceSet) /\ e \in Seq(Nat \X Nat) /\ Len(e) = 0
      /\ Elems(e) = {}
    <2>1. <<>> \in Seq(Frames) /\ <<>> \in Seq(PieceSet) /\ <<>> \in Seq(Nat \X Nat)
        OBVIOUS
    <2>2. QED
        BY <1>1, <2>1, ElemsEmpty
<1>3. PICK o : o = IF keep THEN conn[k].out ELSE e
    OBVIOUS
<1>4. o \in Seq(PieceSet) /\ Elems(o) \subseteq Elems(conn[k].out)
    BY <1>2, <1>3, SessionParts
<1>5. s = [sent |-> e, taken |-> 0, inbox |-> e, answer |-> e, complaint |-> e,
           out |-> o, reader |-> "done", worker |-> "done", down |-> TRUE,
           closed |-> FALSE, handshaken |-> FALSE, last |-> -1, acked |-> Nil, served |-> e,
           mute |-> Nil]
    BY <1>1, <1>3 DEF Severed, NewSession
<1>6. -1 \in -1 .. MaxSends
    BY BoundAssumption
<1>7. s \in Sessions
    BY <1>2, <1>4, <1>5, <1>6 DEF Sessions
<1>8. /\ s.sent = e /\ s.inbox = e /\ s.served = e /\ s.answer = e /\ s.out = o
      /\ s.complaint = e /\ s.taken = 0 /\ s.reader = "done" /\ s.worker = "done"
      /\ s.acked = Nil /\ ~s.closed
    BY <1>5
<1>9. NumbersOK(s)
    BY <1>1, <1>8, NumbersEmpty
<1>10. Queued(s) = {} /\ Spoken(s) \subseteq Spoken(conn[k])
    BY <1>2, <1>4, <1>8 DEF Queued, Spoken
<1>12. NewsOK(s)
    BY <1>10 DEF NewsOK
<1>11. QED
    BY <1>12, <1>2, <1>7, <1>8, <1>9, <1>10

\* The end of the process, requested or not.
LEMMA EndStep ==
    ASSUME Inv, NEW n \in {store.saved, store.seq}, End(n)
    PROVE  Inv'
<1>1. /\ server' = [server EXCEPT !.up = FALSE] /\ UNCHANGED <<commits, client>>
      /\ store' = [store EXCEPT !.seq = n, !.saved = n]
    BY DEF End
<1>2. PICK keep \in BOOLEAN : conn' = [k \in Conns |-> Severed(k, keep)]
    BY DEF End
<1>3. server \in Servers /\ conn \in Seq(Sessions) /\ Len(conn) \in Nat /\ Conns = 1 .. Len(conn)
    BY DEF Inv, Typed, Conns
<1>4. /\ server' \in Servers /\ ~server'.up /\ server'.starts = server.starts
      /\ server'.stop = server.stop /\ server'.epoch = server.epoch
    BY <1>1, <1>3 DEF Servers
<1>5. ServerOK'
    BY <1>4 DEF Inv, ServerOK, StopIsForThisProcess
<1>6. \A k \in Conns : conn'[k] = Severed(k, keep)
    BY <1>2
<1>7. \A k \in Conns : conn'[k] \in Sessions
    BY <1>6, SeveredOK
<1>8. conn' \in Seq(Sessions) /\ Len(conn') = Len(conn) /\ Conns' = Conns
    <2>1. DOMAIN conn' = 1 .. Len(conn)
        BY <1>2, <1>3
    <2>2. conn' \in [1 .. Len(conn) -> Sessions]
        BY <1>2, <1>3, <1>6, <1>7
    <2>3. conn' \in Seq(Sessions) /\ Len(conn') = Len(conn)
        BY <1>3, <2>1, <2>2
    <2>4. QED
        BY <1>3, <2>3 DEF Conns
<1>9. ASSUME NEW k \in Conns
      PROVE  (NumbersOK(conn[k]) /\ LifeOK(conn[k]) /\ NewsOK(conn[k]))'
    <2>1. PICK s : s = conn'[k]
        OBVIOUS
    <2>2. /\ s \in Sessions /\ NumbersOK(s) /\ Queued(s) = {} /\ s.taken = 0 /\ Len(s.sent) = 0
          /\ s.reader = "done" /\ s.worker = "done" /\ s.acked = Nil /\ Elems(s.complaint) = {}
        BY <1>6, <2>1, SeveredOK
    <2>3. NumbersOK(s)' /\ LifeOK(s)' /\ NewsOK(s)'
        BY <2>2 DEF NumbersOK, LifeOK, NewsOK
    <2>4. QED
        BY <2>1, <2>3 DEF NumbersOK, LifeOK, NewsOK
<1>10. ASSUME NEW c \in Clients
       PROVE  ClientOK(c)'
    <2>1. ClientOK(c) /\ client' = client
        BY <1>1 DEF Inv
    <2>2. ASSUME client[c].conn # 0
          PROVE  ExchangeOK(client[c], conn[client[c].conn])'
        <3>1. PICK k : k = client[c].conn
            OBVIOUS
        <3>2. k \in Conns /\ ExchangeOK(client[c], conn[k])
            BY <1>3, <2>1, <2>2, <3>1 DEF ClientOK
        <3>3. PICK s : s = conn'[k]
            OBVIOUS
        <3>4. Queued(s) = {} /\ Spoken(s) \subseteq Spoken(conn[k]) /\ ~s.closed
            BY <1>6, <3>2, <3>3, SeveredOK
        <3>5. ExchangeOK(client[c], s)
            BY <3>2, <3>4 DEF ExchangeOK
        <3>6. QED
            BY <1>1, <3>1, <3>3, <3>5, AnswersSame DEF ExchangeOK
    <2>3. OwnOK(client[c])'
        BY <1>1, <2>1, AnswersSame, CommitsSame DEF ClientOK, OwnOK
    <2>4. QED
        BY <1>8, <2>1, <2>2, <2>3 DEF ClientOK, OwnOK
<1>11. client' \in [Clients -> ClientStates]
    BY <1>1 DEF Inv, Typed
<1>14. StoreOK'
    <2>1. store \in Stores /\ n \in Nat /\ n <= Len(commits)
        BY DEF Inv, StoreOK, Stores
    <2>2. store' \in Stores /\ store'.records = store.records /\ store'.seq = n /\ store'.saved = n
        BY <1>1, <2>1 DEF Stores
    <2>3. \A j \in 1 .. Len(commits) : Accounted(j)'
        <3>1. ASSUME NEW j \in 1 .. Len(commits), Accounted(j)
              PROVE  Accounted(j)'
            BY <1>1, <2>2, <3>1, AccountedKept
        <3>2. QED
            BY <3>1 DEF Inv, StoreOK
    <2>4. \A j : RecordOf(j)' = RecordOf(j)
        BY <1>1 DEF RecordOf, Record
    <2>5. \A j, i : Newest(j, i)' <=> Newest(j, i)
        BY <1>1 DEF Newest
    <2>6. ASSUME NEW e \in store.records
          PROVE  \E j \in 1 .. Len(commits) : e = RecordOf(j)' /\ Newest(j, Len(commits))'
        <3>1. PICK j \in 1 .. Len(commits) : e = RecordOf(j) /\ Newest(j, Len(commits))
            BY <2>6 DEF Inv, StoreOK
        <3>2. QED
            BY <1>1, <2>4, <2>5, <3>1
    <2>7. QED
        BY <1>1, <2>1, <2>2, <2>3, <2>6 DEF Inv, StoreOK
<1>12. Len(conn') <= MaxConnects
    BY <1>8 DEF Inv
<1>13. QED
    BY <1>4, <1>5, <1>8, <1>9, <1>10, <1>11, <1>12, <1>14 DEF Inv, Typed

-----------------------------------------------------------------------------
(* The theorems *)

\* Every step keeps the invariant.
LEMMA NextStep ==
    ASSUME Inv, [Next]_vars
    PROVE  Inv'
<1>1. CASE UNCHANGED vars
    <2>1. StoreOK'
        BY <1>1, Steady DEF vars, Growing
    <2>2. ASSUME NEW c \in Clients
          PROVE  ClientOK(c)'
        <3>1. ClientOK(c) /\ UNCHANGED <<commits, conn, client>>
            BY <1>1 DEF vars, Inv
        <3>2. /\ client[c].conn # 0 => ExchangeOK(client[c], conn[client[c].conn])'
              /\ OwnOK(client[c])'
            BY <3>1, ClientSteady
        <3>3. QED
            BY <3>1, <3>2 DEF ClientOK, OwnOK
    <2>3. QED
        BY <1>1, <2>1, <2>2 DEF vars, Inv, Typed, ServerOK, StopIsForThisProcess, Conns,
                                NumbersOK, LifeOK, NewsOK
<1>2. CASE Start \/ Teardown \/ Kill
    <2>1. CASE \E n \in {store.saved, store.seq} : End(n)
        BY <2>1, EndStep
    <2>2. QED
        BY <1>2, <2>1, StartStep DEF Teardown, Kill
<1>3. CASE \E c \in Clients : Connect(c) \/ Close(c) \/ ClientCall(c) \/ ClientRead(c)
    BY <1>3, ConnectStep, CloseStep, ClientCallStep, SendRawStep, ReceiveStep,
       ReceiveGarbageStep, ReceiveEofStep DEF ClientCall, ClientRead
<1>4. CASE \E k \in Conns : ReaderStep(k) \/ WorkerStep(k)
    BY <1>4, ThreadStep
<1>5. QED
    BY <1>1, <1>2, <1>3, <1>4, SMTT(30) DEF Next

\* The initial states satisfy it.
LEMMA InitOK == Init => Inv
<1> SUFFICES ASSUME Init
             PROVE  Inv
    OBVIOUS
<1>1. server = [up |-> FALSE, epoch |-> 0, starts |-> 0, stop |-> Nil]
    BY DEF Init
<1>2. 0 \in 0 .. MaxStarts /\ 0 <= MaxConnects /\ 0 \in 0 .. MaxSends /\ 1 \in 1 .. MaxSends + 1
    BY BoundAssumption
<1>3. server \in Servers
    BY <1>1, <1>2 DEF Servers
<1>4. ServerOK
    BY <1>1 DEF ServerOK, StopIsForThisProcess
<1>5. conn = <<>> /\ Len(conn) = 0 /\ conn \in Seq(Sessions) /\ Conns = {}
    <2>1. <<>> \in Seq(Sessions) /\ Len(<<>>) = 0
        OBVIOUS
    <2>2. QED
        BY <2>1 DEF Init, Conns
<1>6. PICK m : m = [conn |-> 0, next |-> 1, sends |-> 0, told |-> {}, kept |-> {},
                 wait |-> Nil, result |-> Nil]
    OBVIOUS
<1>7. m \in ClientStates
    BY <1>2, <1>6 DEF ClientStates
<1>8. m.conn = 0 /\ m.next = 1 /\ m.sends = 0 /\ m.wait = Nil /\ m.result = Nil /\ m.kept = {}
    BY <1>6
<1>9. client \in [Clients -> ClientStates] /\ \A c \in Clients : client[c] = m
    BY <1>6, <1>7 DEF Init
<1>10. \A c \in Clients : ClientOK(c)
    BY <1>5, <1>8, <1>9 DEF ClientOK
<1>12. StoreOK
    <2>1. PICK N : N = Len(Earlier)
        OBVIOUS
    <2>2. Earlier \in Seq(Plans) /\ N \in Nat
        BY <2>1, StoreAssumption
    <2>3. /\ commits = [i \in 1 .. N |-> [plan |-> Earlier[i], id |-> Nil, seq |-> i]]
          /\ store = [records |-> {Record(Earlier[i], i) : i \in 1 .. N}, seq |-> N, saved |-> N]
        BY <2>1 DEF Init
    <2>4. \A i \in 1 .. N : [plan |-> Earlier[i], id |-> Nil, seq |-> i] \in Commits
        BY <2>1, <2>2 DEF Commits
    <2>5. commits \in [1 .. N -> Commits]
        BY <2>3, <2>4
    <2>6. commits \in Seq(Commits) /\ Len(commits) = N
        BY <2>2, <2>5
    <2>7. \A i \in 1 .. N : commits[i].plan = Earlier[i] /\ commits[i].seq = i
        BY <2>3
    <2>8. \A i \in 1 .. N : Newest(i, N)
        BY <2>1, <2>2, <2>7, StoreAssumption DEF Newest
    <2>9. \A i \in 1 .. N : RecordOf(i) = Record(Earlier[i], i)
        BY <2>7 DEF RecordOf
    <2>10. \A i \in 1 .. N : Record(Earlier[i], i) \in [plan : Plans, seq : Nat]
        BY <2>1, <2>2 DEF Record
    <2>11. /\ store.records = {Record(Earlier[i], i) : i \in 1 .. N}
           /\ store.seq = N /\ store.saved = N
        BY <2>3
    <2>12. store \in Stores
        BY <2>2, <2>3, <2>10 DEF Stores
    <2>13. \A i \in 1 .. N : Accounted(i)
        BY <2>7, <2>11 DEF Accounted
    <2>14. QED
        BY <2>2, <2>6, <2>7, <2>8, <2>9, <2>11, <2>12, <2>13 DEF StoreOK
<1>11. QED
    BY <1>12, <1>1, <1>2, <1>3, <1>4, <1>5, <1>9, <1>10 DEF Inv, Typed

\* The invariant of the session protocol holds in every reachable state.
THEOREM SessionInvariant == Spec => []Inv
BY InitOK, NextStep, PTL DEF Spec

\* Type correctness: the coordinator's counters keep their bounds, sessions and clients
\* their shape, and a client waits only on a connection it has.
THEOREM SessionTypeCorrect == Spec => []TypeOK
<1>1. Inv => TypeOK
    <2> SUFFICES ASSUME Inv
                 PROVE  TypeOK
        OBVIOUS
    <2>1. /\ server.up \in BOOLEAN /\ server.starts \in 0 .. MaxStarts
          /\ server.epoch \in 0 .. MaxStarts
        BY DEF Inv, Typed, Servers
    <2>2. Len(conn) <= MaxConnects
        BY DEF Inv
    <2>6. /\ store.records \subseteq [plan : Plans, seq : 1 .. Len(commits)]
          /\ store.saved \in 0 .. Len(commits) /\ store.seq \in 0 .. Len(commits)
        <3>1. /\ store \in Stores /\ store.seq <= Len(commits) /\ store.saved <= Len(commits)
              /\ Len(commits) \in Nat
            BY DEF Inv, StoreOK
        <3>2. ASSUME NEW e \in store.records
              PROVE  e \in [plan : Plans, seq : 1 .. Len(commits)]
            <4>1. PICK n \in 1 .. Len(commits) : e = RecordOf(n)
                BY <3>2 DEF Inv, StoreOK
            <4>2. e.seq \in 1 .. Len(commits)
                BY <4>1 DEF Inv, StoreOK, RecordOf, Record
            <4>3. e \in [plan : Plans, seq : Nat]
                BY <3>1, <3>2 DEF Stores
            <4>4. QED
                BY <4>2, <4>3
        <3>3. QED
            BY <3>1, <3>2 DEF Stores
    <2>3. ASSUME NEW k \in Conns
          PROVE  /\ conn[k].reader \in {"run", "leaving", "done"}
                 /\ conn[k].worker \in {"idle", "writing", "done"}
                 /\ conn[k].last \in -1 .. MaxSends
                 /\ conn[k].taken \in 0 .. Len(conn[k].sent)
        <3>1. conn[k].taken \in Nat /\ Len(conn[k].sent) \in Nat
              /\ conn[k].taken <= Len(conn[k].sent)
            BY SessionParts DEF Sessions, LifeOK
        <3>2. conn[k].taken \in 0 .. Len(conn[k].sent)
            BY <3>1
        <3>3. QED
            BY <3>2, SessionParts DEF Sessions
    <2>4. ASSUME NEW c \in Clients
          PROVE  /\ client[c].conn \in 0 .. Len(conn)
                 /\ client[c].next \in 1 .. MaxSends + 1
                 /\ client[c].wait # Nil => Connected(c)
        BY DEF Inv, Typed, ClientStates, ClientOK, Connected
    <2>5. QED
        BY <2>1, <2>2, <2>3, <2>4, <2>6 DEF TypeOK
<1>2. QED
    BY <1>1, SessionInvariant, PTL

\* A typed call only ever returns the reply the coordinator made for that very call,
\* whatever frames were replayed, refused, cut short or interleaved on its connection.
THEOREM ResultsAreOwn == Spec => []ResultIsOwn
<1>1. Inv => ResultIsOwn
    BY DEF Inv, ClientOK, Answers, ResultIsOwn
<1>2. QED
    BY <1>1, SessionInvariant, PTL

\* A plan request is planned and committed at most once in its session, however often
\* its frame arrives: the sequence test of handle_frame.
THEOREM FramesServedOnce == Spec => []ServedOnce
<1>1. Inv => ServedOnce
    BY DEF Inv, NumbersOK, ServedOnce
<1>2. QED
    BY <1>1, SessionInvariant, PTL

\* A client that was told its plan is stored, however long ago, can rely on it: the plan
\* was committed for that very request, and its record is in the store unless a later
\* commit of the same digest replaced it or a later commit left no room for it beside
\* the records put() prefers.
THEOREM StoredAnswersHold == Spec => []AnsweredPlanIsStored
<1>1. Inv => AnsweredPlanIsStored
    <2> SUFFICES ASSUME Inv, NEW c \in Clients, NEW p \in client[c].kept
                 PROVE  \E n \in DOMAIN commits :
                           commits[n].id = p.id /\ commits[n].plan = p.plan /\ Accounted(n)
        BY DEF AnsweredPlanIsStored
    <2>1. Committed(p.plan, p.id)
        BY DEF Inv, ClientOK
    <2>2. PICK n \in 1 .. Len(commits) : commits[n].id = p.id /\ commits[n].plan = p.plan
        BY <2>1 DEF Committed
    <2>3. Accounted(n) /\ commits \in Seq(Commits)
        BY <2>2 DEF Inv, StoreOK
    <2>4. DOMAIN commits = 1 .. Len(commits)
        BY <2>3
    <2>5. QED
        BY <2>2, <2>3, <2>4
<1>2. QED
    BY <1>1, SessionInvariant, PTL

\* A revalidation that answers "valid" was right at some moment of the call: the newest
\* commit under the digest asked about was then made from exactly the inputs and the
\* generations of the text it was given.
THEOREM ValidAnswersHold == Spec => []ValidMeansSameInputs
<1>1. Inv => ValidMeansSameInputs
    <2> SUFFICES ASSUME Inv, NEW c \in Clients, client[c].result # Nil,
                        client[c].result.call.type = "revalidate",
                        client[c].result.reply.value.valid,
                        NEW a, a = client[c].result.call.arg,
                        NEW j, j = client[c].result.call.since
                 PROVE  /\ a.text \in Parses /\ a.digest = Digest[a.text]
                        /\ \E i \in j .. Len(commits) : \E n \in 1 .. i :
                              commits[n].plan = PlanOf(a.text) /\ Newest(n, i)
        BY DEF ValidMeansSameInputs
    <2>1. /\ Answers(client[c].result.reply, client[c].result.call)
          /\ client[c].result.reply.type = "revalidate_response"
        BY DEF Inv, ClientOK, ReplyTo
    <2>2. a.text \in Parses /\ a.digest = Digest[a.text] /\ WasNewest(PlanOf(a.text), j)
        BY <2>1 DEF Answers
    <2>3. QED
        BY <2>2 DEF WasNewest
<1>2. QED
    BY <1>1, SessionInvariant, PTL

\* A coordinator that has a store stops on request only for a client that learned the
\* epoch from this very process.  Without a store every process has the epoch 1, and an
\* epoch held since before a restart is as good as a new one.
THEOREM StopsForThisProcess == Stored => (Spec => []StopIsForThisProcess)
<1> SUFFICES ASSUME Stored
             PROVE  Spec => []StopIsForThisProcess
    OBVIOUS
<1>1. Inv => StopIsForThisProcess
    BY DEF Inv, ServerOK
<1>2. QED
    BY <1>1, SessionInvariant, PTL

=============================================================================
