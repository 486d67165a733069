# Collective Path Planner: a TLA+ verification project

The planner maps a collective (ring, tree, all-to-all ...) onto a fabric of
nodes and links: every logical edge gets a set of physical paths, all of them
together stay within verified spare capacity, and the caller is told whether a
result is optimal and whether a denial is proven. A coordinator service runs
the planner for remote clients and keeps accepted plans in a crash-safe store.

All paths below are relative to the repository (`src/persistence.cpp` and so
on); `PROJECT.json` prefixes them with the directory the repository is kept in
and gives, for every definition, the lines it stands for.

## 1. Inventory

| Component | State | Operations | Hard behaviour | What makes it correct |
|---|---|---|---|---|
| Plan store (`persistence.cpp`) | directory of record files, `store.meta` (epoch, incarnation, sequence), in-memory index | open, close, put, get, erase, verify_all, enforce_bounds, revalidate | crash or power loss between two system calls; failed I/O in the middle of an operation; eviction at the bounds | acknowledged commits survive; erased stays erased; no incarnation is reused; the index describes real files; bounds are restored |
| Coordinator threads (`server.cpp`) | session table, `stopping`, two condition variables per session, sockets and wake-up pairs | start, stop, request_stop, accept_loop, reader_loop, worker_loop, run_reaper, teardown | lost wake-ups, joins in a fixed order, clients that neither read nor close, shutdown asked for from inside a session | objects outlive their threads; frames in order; teardown ends; stop() returns |
| Session protocol (`Coordinator::Impl::handle_frame`) | handshake done, last sequence, session id | one handler per message type | replay, frames before the handshake, stale epoch, a store call that fails after planning | nothing reaches planner or store out of protocol |
| Service client (`ServiceClient`) | socket, next sequence, epoch it learned | connect, handshake, exchange, close | a late answer to a call that failed; a coordinator restarted behind its back | an answer is only accepted for its own request; every call returns |
| Path search (`planner.cpp`: label search, `enumerate_paths`, `build_pool`, `enumerate_sets`, `max_disjoint_paths`) | heap, labels, pool, counters | pure | budgets shared by all logical edges that stop a search half-way; a pool cut at its cap; a max-flow as proof | every path is compliant; exhaustive means all; infeasible is true |
| Global assignment (`planner.cpp`: `offer_set`, `solve_global`, verdict of `plan_collective`) | alternatives per logical edge, remaining capacity, search stack, best | pure | hand-written backtracking over unsigned counters; bounds that truncate the input of a later claim | plans fit; "infeasible" and "optimal" are true |
| Plan validation and freshness (`plan.cpp`) | none | validate_plan, assess_freshness, digests | a second implementation of the planner's rules; a plan checked against inputs that have moved on | it accepts every plan of the planner and no unsound plan; a plan is only reusable for what it was made for |
| Fabric, collective, policy, request | immutable values | build, validate, derive logical edges | canonical order under every order of declaration | the same declarations give the same request, and a ring stays the declared ring |
| Request language, wire codecs, explanation, applications | none | parse, print | malformed text or bytes | a rejected input changes nothing |
| Sockets, digests, identifiers, status | thin layers | | partial sends, saturation | |

Interactions: the acceptor hands a connection to a reader and a worker thread;
the reader passes frames through a bounded inbox; the worker calls
`handle_frame`, which calls `plan_collective` (pure) and the store (one mutex
for every operation). A shutdown request makes the worker call `request_stop`,
which wakes the acceptor (socket pair) and the reaper (condition variable); the
reaper runs `teardown`, which joins all others and closes the store; `stop()`
joins the reaper.

The hazards, each at its line and with the property that would catch it, are in
`PROJECT.json`.

## 2. Modules

| Module | Models | Extends |
|---|---|---|
| `PlanStore` | the store, split at every system call, with the file system it writes to | |
| `MCPlanStore` | constants for TLC | `PlanStore` |
| `PlanStoreProofs` | theorems: the store and its bounds, it implements the registry, durability | `PlanStore`, `SetSums` |
| `SetSums` | lemmas: minimal counterexamples, sums over finite sets | `TLAPS` |
| `PlanRegistry` | abstract store: a map that changes atomically, with its promises | |
| `Coordinator` | the service's threads | |
| `MCCoordinator` | the instance for TLC | `Coordinator` |
| `CoordinatorProofs` | theorems about threads, inboxes, lifetimes and the order of frames | `Coordinator`, `TLAPS` |
| `GlobalAssignment` | offering of path sets, `solve_global`, the verdict | |
| `MCGlobalAssignment` | small problem families for TLC | `GlobalAssignment` |
| `GlobalAssignmentProofs` | theorems about the search and its verdicts | `GlobalAssignment`, `SetSums` |
| `SessionProtocol` | `handle_frame`, `ServiceClient`, frames on the socket, restart of the coordinator | |
| `MCSessionProtocol` | request texts for TLC | `SessionProtocol` |
| `SessionProtocolProofs` | theorems about answers, replays, storage and stops | `SessionProtocol`, `TLAPS` |
| `PlanningRequest` | acceptance and canonical form of collective, fabric, policy, bindings | |
| `PathSearch` | the routes of one logical edge after the other | `PlanningRequest` |
| `PlanValidation` | `validate_plan` | `PlanningRequest` |
| `Planning` | `plan_collective` from declarations to validated plan | `PathSearch`, `PlanValidation` |
| `MCPlanning` | fabrics, policies, collectives and limits for TLC | `Planning` |
| `PlanningLemmas` | what the operators of the planner return for every accepted request | `Planning`, `SetSums` |
| `PlanningProofs` | theorems about the planner and the plans that are accepted, its own among them | `PlanningLemmas` |
| `PlanningSearchProofs` | theorems about the routes the planner finds | `PlanningProofs` |

### PlanStore

`isOpen`, `incarnation`, `sequence` and `index` are the members of
`PlanStore::Impl`; the epoch is advanced by the same statements as the
incarnation, so one number stands for both. `meta` and `files` are the
directory as processes see it; `stableMeta` and `stable` hold, for each name,
everything it may turn out to contain after a power loss. A rename adds a
possibility; `fsync` of the directory leaves only the current content. Without
`durable_commit` the content itself may also be `Torn`, a file that does not
decode. `pc` and `op` say where the operation that holds the store's mutex has
got to; between two of its system calls the process may be killed or the
machine may lose power.

| Code | Actions |
|---|---|
| `open` | `OpenBegin`, `PersistMeta`, `SyncMeta`, `OpenRebuild` |
| `close` | `Close`, `PersistMeta`, `SyncMeta` |
| `put` | `PutBegin`, `PutRename`, `PutCommit`, `PutEvict`, `PersistMeta`, `SyncMeta`; `Refuse` |
| `erase` | `EraseBegin`, `PersistMeta`, `SyncMeta` |
| `enforce_bounds` | `EnforceBegin`, `EnforceDrop`, `PersistMeta`, `SyncMeta` |
| `verify_all` | `VerifyAll` |
| environment | `ProcessKilled`, `PowerLoss`, and the failures named by `Faults` |

`get`, `summary`, `list` and `revalidate` change nothing and are not actions
here; `SessionProtocol` models what they answer.
The loops that evict oldest first are given as a set (`Victims`): a record is
evicted exactly if evicting every older candidate is not enough. The ghosts are
`opening` (which call of `open()` really wrote a record) and `acked` (what the
caller was last told about a digest).

### PlanRegistry

What a caller may rely on, without files: `may[d]` is the set of values that a
failure could now leave under a digest and `promise[d]` what the caller was last
told. A change is atomic (`Put`, `Discard`), a flush or a failure only removes
possibilities (`Settle`), and a promise is given only where one possibility is
left. `PlanStore` instantiates it with `may` as the content its files and their
unflushed renames can turn out to have (`MayHold`) and `promise` as `acked`, and
states the refinement as `ImplementsRegistry`.

### Coordinator

One step is what a thread does between two points where another can get in. A
wait on a condition variable is test, park, re-test, and a notify that finds
nobody parked is lost. Each session has its mutex, inbox, `reader_done`,
wake-up socket and two threads; the service has the session table, the
acceptor, the reaper, the `stopping` flag with the three statements of
`request_stop` as separate steps (`Exchange`, `StopSignal`, `StopNotify`), and
the thread that calls `stop()`. A frame is its position in the client's stream
and a kind: `req` is answered, `stop` is an accepted shutdown request, `bad`
does not decode, `part` is a frame whose end never comes. `handle_frame` is
reduced to what it does to the threads.

### GlobalAssignment

A path set is an integer in signature order with a cost, conflicts, dearest
path and demand per physical edge. The compatible sets of each logical edge are
the input; `Consider` offers them in any order and `EndEdge` may end the
enumeration early, as its bounds do, or with the certificate of
`max_disjoint_paths`. `FastPath`, `BeginSearch`, `Descend`, `Backtrack`, `Leaf`
and `Limit` are `solve_global`, with its `level`, `choice`, `started`,
`remaining` and `nodes`; `Conclude` and `EndAnalysis` give the caller's verdict.
The reference is `FeasibleAssignments`, the brute-force set of all assignments
within capacity.

### SessionProtocol

A connection has the frames on their way to the coordinator, the inbox, the
worker's state (handshake done, `last` sequence, the answer being written), the
reader's, and the bytes on their way to the client. Those are pieces of frames:
reader and worker write to one socket without a common lock and `send_all` may
take several sends, so two frames can mix; a mixture does not decode.

| Code | Actions |
|---|---|
| `Coordinator::start`, teardown, end of the process | `Start`, `Teardown`, `Kill` |
| `ServiceClient::connect`, `close`, `send_raw` | `Connect`, `Close`, `SendRaw` |
| `handshake`, `ping`, `plan`, `list_plans`, `get_plan`, `revalidate`, `shutdown` | `CallHello` ... `CallShutdown`, then `Receive`, `ReceiveGarbage` or `ReceiveEof` |
| `reader_loop` | `ReaderTake`, `ReaderComplain`, `ReaderLeave` |
| `handle_frame` | `HandleReplay`, `HandleHello`, `HandlePing`, `HandleRefused`, `HandlePlan`, `HandleGet`, `HandleList`, `HandleRevalidate`, `HandleShutdown` |
| `worker_loop` around it | `WorkerWrite`, `WorkerFinish`, `WorkerLeave` |

A request text stands for what the service distinguishes about it: whether it
parses, whether it can be planned, its input digest and generations, whether its
answer fits a frame and whether its error text fits the decoder's limit. Two
texts may share a digest and differ in the plan generation, which the digest
leaves out.

The store is its index, one record per digest with the sequence number it was
given: `Commit` replaces the record of the same digest and evicts the oldest of
the others until the rest fit (`Kept`; `Room` says which records fit
`max_records` and `max_total_bytes` together). `get` and `revalidate` look up the
digest alone and answer with whatever record they find. A put fails before its
commit or, when `store.meta` cannot be written, after it. A commit is one step
here: the system calls it consists of, and the failures between them, are the
subject of `PlanStore`. When the process is killed the commit has happened or it
has not, and the next process counts on from `store.meta`, so that sequence
numbers may repeat. The store may hold plans of earlier coordinators (`Earlier`).

Every frame and every reply carries a ghost identity, `commits` is the history of
the store, and `served`, `acked` and `stop` record which frame did what.

### PlanningRequest, PathSearch, PlanValidation, Planning

`PlanningRequest` gives the acceptance rules and canonical forms as operators on
what was declared: groups, domains, nodes, edges, policy, bindings. The digest
of a request is its canonical form itself, which takes the hash to be free of
collisions.

`PathSearch` runs the planner's loops one iteration at a time, with its budgets:

| Code | Actions |
|---|---|
| `analyse_logical_edge` up to the enumeration, `bfs_min_hops`, `diagnose_unreachable` | `Analyse` |
| `enumerate_paths`, `enumerate_depth` | `Sweep`, `Walk`, `SweepEnd` |
| `shortest_path` | `Pop`, `Exhausted` |
| `build_pool` | `Pool` (first route, diversity chain, probes, filling up) |
| `enumerate_sets`, `offer_set` | `Choose` |
| `max_disjoint_paths` | `Augment`, one augmenting path per step, any one |
| end of `analyse_logical_edge` | `EmptyPool`, `Certify`, `Conclude` |

The recursion of `enumerate_depth` and `enumerate_sets` is a stack. The priority
queue of `shortest_path` is a set from which the least label is taken.

`PlanValidation` is `validate_plan`, one operator for each group of early
returns. `Planning` composes them: `Build` accepts or refuses the declarations,
`Search` runs `PathSearch` over the logical edges, `Assign` picks any assignment
within capacity (what `solve_global` picks is the subject of
`GlobalAssignment`) and materialises the plan, and `Validate` checks it.
`Submit` instead lets a caller bring a plan, as `PlanStore::put` and the service
do, with any routes of up to `SubmittedHops` hops. The reference is stated on
the request alone: `FeasibleRoutes`, all simple routes over permitted edges, and
`AdmissibleSets`, all choices among them that meet the requirements.

## 3. What the runs check

| Run | Properties | Shows |
|---|---|---|
| `store_power` | `AckedSurvives`, `ErasedStaysErased`, `FenceIsFresh`, `ImplementsRegistry` | with durable commits, kill, power loss and failing writes, reads, removals and enumerations at any point, the store implements the registry: acknowledged records are kept, erased ones stay away, incarnations are fresh |
| `store_faults` | `TypeOK`, `IndexMatchesDisk`, `PutRestoresBounds` | without durable commits, with torn files and an unanswered `stat`, the index still describes real files and a put restores the bounds |
| `coordinator` | `TypeOK`, `NoStrandedWaiter`, `SessionOutlivesThreads`, `InboxWithinDepth`, `FramesInOrder`, `TeardownCompletes`, `ClosedClientFreesWorker` | well-formed, undecodable and unfinished frames and shutdown requests on an inbox of one, `stop()` racing a shutdown from inside the session |
| `coordinator_stop` | `StopReturns` (violated) | finding 1 |
| `coordinator_teardown` | `TeardownJoinsSessions` (violated) | finding 2 |
| `assignment` | `TypeOK`, `KeepsBest`, `RemainingAccounts`, `PlanFits`, `DenialIsProof`, `OptimalIsCheapest` | every input of the family, every discovery order, every early end |
| `assignment_denial` | `InfeasibleOnlyIfProven` (violated) | finding 3 |
| `session` | `TypeOK`, `ResultIsOwn`, `ServedOnce`, `AnsweredPlanIsStored`, `StopIsForThisProcess`, `ValidMeansSameInputs`, `ExchangeEnds` | reconnects, replays, malformed bytes, failing commits, mixed frames, stop, kill and restart, and a store that replaces and evicts: answers belong to their calls, a plan frame is served once, a plan answered as stored was committed for that request and only gives way to later commits, a revalidation answered as valid was right at some moment of the call, and every exchange ends unless its reply was too large or a stop hangs |
| `session_silence` | `EveryCallReturns` (violated) | finding 4 |
| `planning` | `TypeOK`, `CanonicalForm`, `PoolIsFeasible`, `SearchIsExact`, `ChainIsKept`, `ProducedPlanIsValid`, `AcceptedPlanIsSound`, `EdgeDenialIsProof`, `OfferIsBest`, `PlanningEnds` | the searches against the set of all routes, under every kind of budget; denials of one logical edge are proofs; planner and validator agree |
| `zero_hop` | `InfeasibleIsProven` (violated) | finding 5 |
| `diversity` | `SiblingsAreDiverse` (violated) | finding 6 |

### Findings

1. `request_stop` notifies the reaper without `state_mutex`. The notification
   can fall between the reaper's test of its predicate and its wait; nobody
   notifies again and `stop()` never returns.
2. A worker that leaves because it could not write an answer, while its reader
   waits on a full inbox, notifies `not_full` once. The predicate is still
   false, the reader waits again, and `teardown()` joins readers before it
   notifies them.
3. `offer_set` discards sets beyond `max_set_alternatives` without clearing
   `sets_exhaustive`, so a request that a discarded set makes mappable is denied
   as proven infeasible.
4. `encode_frame` answers an oversized payload with an empty vector, "so callers
   cannot mistake it" for a frame. `write_frame` sends the empty vector, which
   succeeds; the client waits for a reply that nobody will send.
5. `enumerate_paths` never yields the route without hops. Two participants on one
   node are therefore denied as proven infeasible when the enumeration is
   complete, while a truncated enumeration leads to the label search, which finds
   that route, and to a plan that `validate_plan` accepts.
6. Under a required diversity `validate_plan` refuses an edge without a declared
   domain from the second path of a logical edge on (plan.cpp:570 tests how many
   paths it has seen so far, not how many there are). A first path over such an
   edge is accepted, and its signature leaves that edge out, while DESIGN.md
   (4.4 and 9.6) says such a path is refused. The planner itself never makes one.

`DenialIsProof`, `EdgeDenialIsProof`, `TeardownCompletes`, `ExchangeEnds` and
`AcceptedPlanIsSound` state what does hold around these: denials are proofs as
long as nothing was discarded and the ends are on different nodes; an orphaned
reader is the only way a teardown that has begun can hang; an exchange can hang
on an oversized reply (of a plan request or of a get of its record; a list and a
revalidation always fit) or in a coordinator that was asked to stop and, by
finding 1 or 2, never gets through it, since readers that see `stopping` leave
without shutting their socket down; and the siblings of an accepted plan share no
declared domain between their ends, all but the first declaring one on every edge.

### Observations

Behaviour met while modelling for which the project has no run of its own:

- `put()` makes a record visible before `store.meta`, and `open()` takes the
  sequence from `store.meta` alone: after a kill in between, two records share a
  `stored_sequence` and the eviction order falls back on the digest.
- `open()` does not enforce the bounds, so interrupted evictions can leave one
  surplus file per opening until the next put.
- The session limit counts sessions that ended long ago: only `teardown()`
  empties the table.
- The fast path of `solve_global` takes every logical edge's own best set. Its
  cost is the least, its smallest joint headroom need not be the largest.
- Error and denial details are not bounded when a reply is encoded, but the
  client's decoder refuses more than 512 bytes; such a reply fails the call.
- A coordinator without a store has epoch 1 in every process, so the epoch test
  of a shutdown request cannot tell its incarnations apart.
- A commit replaces the record of the same digest, and the digest leaves out the
  plan generation: a plan that was answered as stored is gone once a client puts
  the same inputs under another plan generation, even an older one. `Accounted`
  says so in `AnsweredPlanIsStored`.
- A put whose `store.meta` cannot be written reports a failure although its record
  is committed, and may have replaced or evicted others.
- `verify_all` on an open store clears the index before it enumerates the
  directory; when that fails, the store has forgotten its records until it is
  opened again.
- `revalidate` can report a plan as current and not valid: the digest is not part
  of the freshness verdict.
- A client stays connected after a failed exchange and `send_raw` does not
  advance its sequence; the sequence test of `exchange` is what keeps late
  replies out (`ResultIsOwn`).
- `idle_timeout_ms`, `max_pending_requests` and `PlannerLimits::max_search_expansions`
  are declared and not used.
- With `max_set_alternatives` at zero `offer_set` (planner.cpp:739) keeps no set
  for any logical edge, and an exhaustive choice then denies the edge as proven
  infeasible: the cause and the comment (planner.hpp:92) are those of the finding
  of `assignment_denial`. `EdgeDenialIsProof` is checked with one alternative or
  more.
- Two groups with one id at different levels pass `Collective::build`, which
  compares neighbours in an order that sorts by level first.
- `validate_plan` does not look at eligibility of nodes and edges or at the tiers
  of nodes, nor at whether sibling paths differ where no disjointness is asked;
  `AcceptedPlanIsSound` states what it does guarantee.

### Bounds

- Store: two digests and two generations, one or two record slots, up to four
  sequence numbers and three openings. Replacement, eviction with and without
  replacement, a refused put, a record of a previous opening meeting one of the
  current, and two failures in a row all happen.
- Coordinator: one client, whose two frames of any kind can queue one behind the
  other on an inbox of one, so that the reader finds it full while the worker has
  the first in hand; the last of them may be a shutdown request that races
  `stop()`. The orphaned reader of finding 2 needs three frames and is the subject
  of `coordinator_teardown`. Sessions share only `stopping`, the table and the
  joins; that the safety properties hold for any number of clients, slots and
  frames and any depth is proved (section 4), the liveness properties are checked
  for one session.
- Assignment: three logical edges, five sets, at most three of them for an edge
  and six in all, two retained alternatives, eight search nodes, a cost ceiling
  of seven. The sets are chosen so that they tie, conflict, exceed capacity
  alone or only together; the search needs backtracking over two levels, and
  the cap, the node budget and the ceiling are each reached (two sets of cost 3 and
  one of cost 2 fit together and saturate).

- Session: one client, two connections, three frames, two starts of the
  coordinator, and five texts: one that is planned, one with the same inputs
  under another plan generation whose answer does not fit a frame, two more with
  digests of their own, one of which an earlier coordinator left in the store, and
  one that does not parse and has a long error text. The store has room for two
  records, and the oversized one takes it alone, so that replacement, eviction and
  both at once happen, also before an answer or a call to revalidate. Sessions share only the store and the
  stop request, and a second connection of the same client reaches both while
  the first is still being served. Raw frames replay an earlier sequence, carry
  a bad checksum or open with a handshake that is refused. Three frames are a
  handshake, a call and one more against a session that has just failed.
- Planning: fabrics of up to seven edges on four to six nodes, among them one
  whose cheapest route crosses both routes of its disjoint pair, one with a cycle
  that costs nothing, parallel edges and every subset of the largest fabric;
  one to three paths per logical edge with each kind of disjointness, two hop
  limits, and eight settings of the limits that cut every loop short in turn,
  one of which leaves no room in the pool at all.
  Each rule of the policy is exercised alone, several logical edges share a
  budget, and each acceptance rule has a declaration that breaks it. Submitted
  plans have any routes of up to three hops, the least that has an edge between
  its ends, over fabrics with three or four edges; five of these inputs require
  diversity at one of two levels, two of them with an edge that declares no domain.

`CHECK_DEADLOCK FALSE` is used where the system ends: the coordinator stops for
good after `stop()` and clients may simply fall silent, a session ends, and an
assignment is decided. The store never has to stop, except at the bounds, where `Refuse`
stays possible.

### Fairness

Each thread of the coordinator gets weak fairness over its own steps: the
operating system schedules a thread that can run. A worker inside
`handle_frame` is treated as fair only once its client has closed or the socket
is shut down, because `send` may block on a client that does not read. Nothing
is assumed of clients, and nobody is obliged to call `stop()`. In the session
protocol the threads of a running process and a client blocked in a read are
scheduled; nobody has to connect, call, close or be killed, and a stop that was
requested need not be carried out, because of finding 1. `plan_collective`
runs in its caller's thread and waits for nothing, so it goes on stepping until
it returns. The store and the assignment are checked for safety only.

## 4. What is proved

`PlanStoreProofs` holds for every set of digests and generations, every
configuration and every set of faults, under `StoreAssumption` and
`DistinctAssumption` of `PlanStore` (constants have their types; the markers for
absent, torn and erased are not records).

- `TypeCorrect`: `Spec => []TypeOK`. The inductive invariant is `TypeInv`,
  `TypeOK` with `ControlOK`: which operation is under way at each `pc`. Without
  the latter the types of `op.digest` and `op.rec` are not kept by the steps of
  `put()`.
- `FenceHolds`: `Spec => []FenceIsFresh`, assuming `HonestDisk` (stat answers,
  and power is only lost by a durable store whose directory flush works; with an
  unanswered `stat` the code really does start again at incarnation 1). The
  strengthening `FenceInv` says that every value `store.meta` may have after the
  next failure is at least the incarnation of every record that may then exist
  (`MetaCoversRecords`), pins the running opening's fence to what is in
  `store.meta` (`FencePinned`), puts an opening that has not yet written its
  fence ahead of every record (`OpeningIsAhead`), and says what the record in
  flight carries (`PutCarriesFence`).
- `IndexMatches`: `Spec => []IndexMatchesDisk`, under any faults. The
  strengthening `IndexInv` follows an operation through its steps: the index
  agrees with the files except for the record being committed
  (`IndexAgrees`, `CommitPending`), and what is still to be removed is no longer
  indexed (`VictimsUnindexed`).
- `PutsFit`, under any faults: `Spec => []PutRestoresBounds`. `RoomMade` says that from admission to
  commit the records that stay and the new one fit, and that the new one is not
  among those to be evicted; the store's mutex keeps every other operation off the
  index meanwhile. The sizes are added up record by record (`CommitFits`).

The refinement, in the same module, assumes `HonestDisk` as well.

- `StoreImplementsRegistry`: `Spec => ImplementsRegistry`, every step of the store
  is a step of `PlanRegistry` or leaves it alone. It needs `VisibleInv`: a record
  that `put()` has renamed is what processes see under its digest (`OpVisible`),
  and nothing is promised any more about the records it is about to remove
  (`VictimsReleased`). Without them the acknowledgement at the end of `put()`
  could be one of a record that is not there.
- `AckedIsDurable`: `Spec => []AckedSurvives`. A record may be replaced by a newer
  one only, so `AckedInv` adds that neither `sequence` nor any value `store.meta`
  may have after a failure falls behind an acknowledged record
  (`SequenceCovers`), and that the record in flight carries the number that
  becomes the store's (`PutCarriesSequence`). Numbers are handed out twice after
  a crash, but only such as nobody was told of.
- `ErasedIsDurable`: `Spec => []ErasedStaysErased`, a property of the registry
  alone, carried over by the refinement.

`CoordinatorProofs` holds for any finite set of clients, any number of slots and
frames, any inbox depth of at least one and any timing of `stop()`.

- `CoordinatorTypeCorrect`: the invariant `TypeInv` adds what each thread may have
  in its hand at each of its steps (`HandsOK`) and what `served` may hold.
- `NoLostWakeup` and `InboxBounded`, from `WaitInv`: for every session, who may hold
  its mutex and where (`LocksOf`), and why each parked thread is not stranded
  (`WaitersOf`). The two properties need each other: that the reader adds to the
  inbox only below its depth is what makes the worker's single notify enough.
- `LifetimeHolds`, from `LifeInv`: which thread states each step of the teardown and
  each state of a session allow.
- `FramesStayInOrder`, from `NumbersInv`: what was served, is in the worker's hand,
  in the inbox, in the reader's hand and on the wire is one ascending run of
  numbers without gaps.

`SessionProtocolProofs` holds for any set of clients and texts and any number of
connections, frames, starts and kills. One invariant, `Inv`, carries its theorems:

- `Typed`: the shape of every connection, frame, reply and client;
- `ServerOK`: with a store, the epoch is the number of starts;
- `NumbersOK`: a replayed frame keeps its sequence, different frames have different
  names, and no served frame has a sequence above the last one taken up. That is
  why a frame is never served twice (`FramesServedOnce`);
- `LifeOK`: an ended process answers nothing more, an acknowledged shutdown is of
  this process (`StopsForThisProcess`), a reader's own replies are errors;
- `ClientOK`: every frame and every reply under way on a client's connection is
  below its next sequence, and one with the sequence it waits for is of the call it
  waits for (`ExchangeOK`). What such a reply says of the commits holds (`Answers`): a
  plan response is of a plan committed for that request, and a found or valid plan was
  the newest of its digest at some moment since the call;
- `StoreOK`: every record of the store is that of the newest commit of its digest, and
  every commit is accounted for: its record is there, was replaced, or was crowded out
  by later ones (`Accounted`);
- `NewsOK`: no frame was built after commits that are yet to come.

`ResultsAreOwn`, `StoredAnswersHold` and `ValidAnswersHold` follow. None of the three is
inductive, since they say nothing of replies that have not arrived.
`StopsForThisProcess` has the hypothesis `Stored`: a coordinator without a store has
epoch 1 in every process, and then the property is false (see the observations).

`GlobalAssignmentProofs` holds for any finite sets of path sets and physical edges,
any number of logical edges, any costs, demands and bounds, under
`AssignmentAssumption` (types, and that "no assignment yet" is not an assignment).

- `AssignmentTypeCorrect`: `remaining` is unsigned in the code. That it never goes
  below zero is part of `TypeOK`.
- `RemainingIsAccountedFor`: inductive on its own, with the typing. The sums it
  speaks of are taken apart with `SetSums`.
- `PlansFit`: the best assignment found so far is always one within capacity
  (`BestOK`).
- `DenialsAreProofs` and `OptimaAreCheapest`: `Covered` says what the search has
  behind it. Every assignment within capacity that is lexicographically before the
  current position has been compared with the best one, `Passed` assignments are
  `Beaten`; a `Backtrack` or `Leaf` moves a whole subtree behind, and the ones that
  were skipped because they do not fit are not within capacity, since loads only
  grow (`TotalMonotone`). For the fast path it is the minimum of every level
  (`Lists`, `HeadIsLeast`).
- `BestAreKept`: insertion into a list that is the head of the sorted offers leaves
  the head of the sorted offers (`Kept`). `KeepsBest` says "sorted" by counting:
  before the i-th retained set come exactly i - 1 of the offered ones.

The proof system's induction rules take an operator as a parameter, which its
backends cannot instantiate. `SetSums` therefore goes through minimal
counterexamples: the set of the counterexamples is a set, and a non-empty set of
numbers, or of subsets of a finite set, has a least or minimal element
(`NatMin`, `MinimalSubset`). That is enough for sums over finite sets.

`PlanningLemmas`, `PlanningProofs` and `PlanningSearchProofs` hold for every set of
inputs, declared well or badly, and for any settings of the limits, under three
assumptions. `RequestAssumption` gives the bounds of `limits.hpp` their types and says
that the greatest capacity an edge may declare is below the cost ceiling, as
`kMaxCapacityMbps` is below `kCostCeiling`: without it the load of an edge would
saturate below what is spare. `InputAssumption` gives the inputs their types;
identifiers are any integers and sequences of any length. `SearchAssumption` says that
no route is not a route, which `std::optional` gives.

`PlanningLemmas` is about operators: a row in the order of a relation lists every
member of a finite set once (`Ranks`, `NumbersInOrder`, `RoutesAreOrdered`), a stable
sort is a permutation (`PlacesExist`, `EdgesAreSorted`), a flattened sequence of
sequences has its parts one behind the other (`FlattenIs`), the fold that computes
a route's cost is the saturated sum of its edges' costs, whichever edge it begins
with (`RouteCostIsSum`), and
what `build_request` makes of an accepted declaration (`Built`, `CollectiveBuilt`).
`ValidIsSound`, in `PlanningProofs`, is the heart of `AcceptedPlanIsSound`: from the conjuncts of
`validate_plan`, on any plan of the right shape, to simple routes over declared edges
that are disjoint, within capacity, and diverse as far as `validate_plan` looks
(`DomainsOfAccepted`: the domains a route crosses are those of the signature the
validator recomputes from its edges).

The planner has one inductive invariant from end to end, `IInv`:

- `SetupOk`: the request is a canonical one, `planner` is what `PlannerState` computes
  of it, the budgets are not overdrawn, and every set offered for a logical edge so far
  is one of `Wanted` different good routes, apart from each other (`OfferOk`).
- A route is `Good` when it joins the bound nodes over edges that pass
  (`PassableOn`), visits no node twice and is within the limits on hops and cost. A
  route that is still being extended is a `Track`.
- `Walks`: every entry of the depth-first stack is the end of a prefix of the route,
  with the cost of that prefix. This is what makes a route that is recorded a track.
- `Searches`: every label but the source's has a predecessor one hop nearer to the
  source and no dearer (`LeadsBack`). This is what makes the trace of a label end at
  the source, have as many edges as the label has hops, and cost no more than it
  (`TraceIs`).
- `Samples` and `TaskOk`: what the sample still has to add to the pool is good and not
  in it, and the pool has room where the diversity chain will add a route. Otherwise
  the pool would outgrow `max_candidate_paths`.
- `Chooses`: a choice is an ascending row of positions in the pool, any two of them
  compatible.
- `Answer`: the plan under validation has the shape of one, and one that was accepted
  passed `validate_plan`.

From it:

- `PlanningTypes`: `Spec => []TypeOK`.
- `AcceptedPlansAreSound`: `Spec => []AcceptedPlanIsSound`, for the planner's plans and
  for any plan a caller brings.

`PlanningProofs` also proves that the internal error of `plan_collective` never happens:
`ProducedPlansAreValid`, `Spec => []ProducedPlanIsValid`, for any choice of sets within
the spare capacity. The planner and the validator compute the same things in different
ways, and the proof shows where they meet. `Mapped` is what the search promises of the
sets that are assigned; `MappedIsValid` takes `validate_plan` apart group by group:

- each path alone (`PathIsAccepted`): a hop that passes the planner's filters passes
  the validator's (`HopPasses`), and the two ways to leave the first and the last
  domain out of a signature leave out the same ones (`SignaturesAgree`);
- siblings and stages: where the routes of each logical edge lie in the plan
  (`Layout`), so that the validator finds as many siblings as were assigned, and no
  route twice (`SiblingsLie`, `StagesAreAccepted`);
- the allocation table: the validator counts hops, the planner routes, and no route
  crosses an edge twice (`CrossingsAre`); the load `solve_global` checked logical edge
  by logical edge, each saturated, bounds the load of the routes together because what
  is spare lies below the cost ceiling (`UsersAddUp`, `UsersFit`).

`Agrees`, that such a plan is valid from the moment it is made, is inductive with
`IInv`: no other step touches it.

`PlanningSearchProofs` is about what is found. The reference definition of the
feasible routes is recursive in their length; `FeasibleAre` takes it apart, level by
level, and finds the good routes of the invariant (`GoodRoutes`), so that everything
below speaks of routes and not of the recursion.

- `PoolsAreFeasible`: `Covers` says what the enumeration has behind it. As long as it
  met no bound, every feasible route shorter than the sweep's limit is recorded
  (`Swept`), and every one of that length is recorded or still ahead: some entry of
  the stack has its edge not yet tried, and the route agrees with the current one up
  to there (`Awaited`, `Pending`). An edge that is refused can be the next of no
  feasible route (`RefusedAwaits`), one that is entered takes the routes through it
  down with it (`DeeperAwaits`). This is where the proof needs that a part of a route
  costs no more than the route (`PartCostsLess`), saturated or not.
- `SearchesAreExact`: `Spreads` says that every label that left the frontier has been
  expanded, to labels no dearer than its own cost and the edge's. A route that avoids
  what is blocked therefore meets the frontier somewhere, at a label no dearer and no
  longer than the route's part up to there (`SearchReaches`): the first of its nodes
  whose label still waits. The label taken is the least of the frontier, so the first
  one at the target belongs to a cheapest route, the shortest of those
  (`FoundIsCheapest`), and such a route visits no node twice (`CheapestIsSimple`).
- `ChainsAreKept`: the routes of the diversity chain share nothing (`Linked`) because
  the next search blocks all they went through (`Covered`), and what is added to the
  pool after them replaces none of them (`FinishedHolds`). It rests on
  `SearchesAreExact`: were the route that comes back not simple, it would not be added
  and the chain would count a step without it.

Only model-checked are, of the planner, `EdgeDenialIsProof`, whose certificate is the
equality of a greatest flow and a smallest cut, `OfferIsBest`, and `CanonicalForm`,
which compares the results of sorting two permutations; and liveness under fairness
(`TeardownCompletes`, `ClosedClientFreesWorker`, `ExchangeEnds`, `PlanningEnds`), which
the proof system cannot state.

## 5. Not modelled

- Byte layouts, hashes and text: a record or frame decodes or it does not, two
  requests have one digest exactly when they have one canonical form, and the
  wording of errors and the choice among error codes is left out but for its
  length.
- The request language, `explain.cpp` and the applications: parsing and printing
  without state of their own.
- `find_path`, which runs the label search of `PathSearch` for one pair of nodes
  without bindings and demand, and `ServiceClient::receive_frame`, which reads a
  frame outside an exchange.
- Size limits of declarations (`limits.hpp`), but for those that bound a loop and
  the greatest capacity.
- Staging files: they are never read and a failed write removes its own. A
  store reopened with a smaller `max_record_bytes`.
- A second `start()` of the same object after `stop()`, a failure of `select()`
  itself, statistics.
- Integer overflow of 64-bit epochs, incarnations and sequences: not reachable
  in a deployment's life. Costs saturate, and the ceiling is in the model.

## 6. Plan

What is left, most important first:

1. `OfferIsBest` for every request: the choice of sets misses none that is admissible.
2. `SessionProtocol` over `PlanStore` itself, with a process killed between the
   system calls of a commit whose answer is under way.
