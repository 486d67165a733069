----------------------------- MODULE PlanStore -----------------------------
(***************************************************************************)
(* The durable plan store of persistence.cpp.                              *)
(*                                                                         *)
(* Every public operation runs under one mutex, so operations never        *)
(* interleave with each other.  What interleaves with them is failure: a   *)
(* killed process, a power loss, or an I/O error at any system call.  Each *)
(* operation is therefore split exactly at the system calls that change    *)
(* the directory, and `pc` says which call the running operation makes     *)
(* next.                                                                   *)
(*                                                                         *)
(* A plan is keyed by the digest of its canonical request.  Two plans of   *)
(* one digest differ in their plan generation, which the digest leaves     *)
(* out.  The epoch and the incarnation of store.meta start at 1 and are    *)
(* advanced by the same statements, so one number stands for the pair.     *)
(***************************************************************************)
EXTENDS Integers, FiniteSets, FiniteSetsExt

CONSTANTS
    Digests,        \* keys: a set of integers, ordered as Digest::operator<
    Gens,           \* plan generations: what two plans of one digest differ in
    Size,           \* encoded record size of each generation
    MaxRecords,     \* StoreConfig::max_records
    MaxRecordBytes, \* StoreConfig::max_record_bytes
    MaxTotalBytes,  \* StoreConfig::max_total_bytes
    Durable,        \* StoreConfig::durable_commit
    Faults,         \* the failures the environment may inject
    MaxSeq,         \* bound: sequence numbers handed out
    MaxOpens,       \* bound: calls of open() over the store's life
    NoRec,          \* "there is no such file"
    Torn,           \* a file whose bytes fail decode_plan_record or decode_meta
    Erased          \* ghost: erase() was acknowledged

FaultKinds == {"write", "sync_dir", "remove", "enumerate", "read", "stat",
               "kill", "power"}

(***************************************************************************)
(* A record file.  `opening` is a ghost: it numbers the call of open()     *)
(* under which the record was really written, whereas `inc` is the         *)
(* incarnation the record carries.                                         *)
(***************************************************************************)
Rec == [gen : Gens, seq : Nat, inc : Nat, opening : Nat]
Meta == [inc : Nat, seq : Nat]

ASSUME StoreAssumption ==
    /\ Digests \subseteq Int
    /\ IsFiniteSet(Digests)
    /\ Size \in [Gens -> Nat]
    /\ MaxRecords \in Nat
    /\ MaxRecordBytes \in Nat
    /\ MaxTotalBytes \in Nat
    /\ Durable \in BOOLEAN
    /\ Faults \subseteq FaultKinds
    /\ MaxSeq \in Nat
    /\ MaxOpens \in Nat

ASSUME DistinctAssumption ==
    /\ NoRec \notin Rec /\ Torn \notin Rec /\ Erased \notin Rec
    /\ NoRec \notin Meta /\ Torn \notin Meta
    /\ NoRec # Torn /\ NoRec # Erased /\ Torn # Erased

VARIABLES
    \* the directory as any running process sees it
    meta,        \* store.meta
    files,       \* plan-<digest>.rec
    \* what each name may hold after a power loss
    stableMeta,
    stable,
    \* the members of PlanStore::Impl
    isOpen,
    incarnation,
    sequence,
    index,
    \* the operation that holds the mutex
    pc,
    op,
    reply,       \* how the last operation ended
    \* ghosts
    opening,     \* calls of open() that got as far as reading store.meta
    acked        \* what the store last acknowledged about each digest

disk == <<meta, files, stableMeta, stable>>
memory == <<isOpen, incarnation, sequence, index>>
vars == <<disk, memory, pc, op, reply, opening, acked>>

FileValue == Rec \cup {NoRec, Torn}
MetaValue == Meta \cup {NoRec, Torn}
OpKinds == {"none", "open", "close", "put", "erase", "enforce"}
PCs == {"idle", "rename_record", "sync_record", "evict", "drop",
        "rename_meta", "sync_meta", "rebuild"}

NoOp == [kind |-> "none", digest |-> NoRec, rec |-> NoRec, victims |-> {}]

TypeOK ==
    /\ meta \in MetaValue
    /\ files \in [Digests -> FileValue]
    /\ stableMeta \in SUBSET MetaValue
    /\ stable \in [Digests -> SUBSET FileValue]
    /\ isOpen \in BOOLEAN
    /\ incarnation \in Nat
    /\ sequence \in Nat
    /\ index \in [Digests -> Rec \cup {NoRec}]
    /\ pc \in PCs
    /\ op \in [kind : OpKinds, digest : Digests \cup {NoRec},
               rec : Rec \cup {NoRec}, victims : SUBSET Digests]
    /\ reply \in {"none", "ok", "refused", "io"}
    /\ opening \in Nat
    /\ acked \in [Digests -> Rec \cup {NoRec, Erased}]

Init ==
    /\ meta = NoRec
    /\ files = [d \in Digests |-> NoRec]
    /\ stableMeta = {NoRec}
    /\ stable = [d \in Digests |-> {NoRec}]
    /\ isOpen = FALSE
    /\ incarnation = 0
    /\ sequence = 0
    /\ index = [d \in Digests |-> NoRec]
    /\ pc = "idle"
    /\ op = NoOp
    /\ reply = "none"
    /\ opening = 0
    /\ acked = [d \in Digests |-> NoRec]

-----------------------------------------------------------------------------
(* Bounds and eviction order *)

Present(idx) == {d \in Digests : idx[d] # NoRec}

\* total_bytes(): the sizes of the records of S added up.
Bytes(idx, S) == MapThenSumSet(LAMBDA d : Size[idx[d].gen], S)

\* The comparison of std::pair<stored_sequence, digest>.
Older(idx, d, e) ==
    \/ idx[d].seq < idx[e].seq
    \/ idx[d].seq = idx[e].seq /\ d < e

\* The records of S, and newcomers of the given number and size, are within bounds.
Fits(idx, S, count, bytes) ==
    /\ Cardinality(S) + count <= MaxRecords
    /\ Bytes(idx, S) + bytes <= MaxTotalBytes

(***************************************************************************)
(* The loop that walks the candidates oldest first and stops as soon as    *)
(* the projection fits: e is dropped if and only if dropping every older   *)
(* candidate is not enough.                                                *)
(***************************************************************************)
Victims(idx, S, count, bytes) ==
    {e \in S : ~Fits(idx, S \ {d \in S : Older(idx, d, e)}, count, bytes)}

IsOldest(idx, e, S) == \A d \in S \ {e} : Older(idx, e, d)

-----------------------------------------------------------------------------
(* External: the directory of a POSIX file system                          *)

\* What a freshly renamed file may turn out to hold if power is lost before
\* its directory entry is flushed: without fsync the bytes may be missing too.
Unflushed(v) == IF Durable THEN {v} ELSE {v, Torn}

RenameRecord(d, v) ==
    /\ files' = [files EXCEPT ![d] = v]
    /\ stable' = [stable EXCEPT ![d] = @ \cup Unflushed(v)]
    /\ UNCHANGED <<meta, stableMeta>>

RenameMeta(m) ==
    /\ meta' = m
    /\ stableMeta' = stableMeta \cup Unflushed(m)
    /\ UNCHANGED <<files, stable>>

RemoveRecord(d) ==
    /\ files' = [files EXCEPT ![d] = NoRec]
    /\ stable' = [stable EXCEPT ![d] = @ \cup {NoRec}]
    /\ UNCHANGED <<meta, stableMeta>>

\* fsync of the directory makes every entry it holds stable.
FlushDirectory ==
    /\ stable' = [d \in Digests |-> {files[d]}]
    /\ stableMeta' = {meta}
    /\ UNCHANGED <<meta, files>>

\* Mutated form: the directory is never flushed.
SyncDirectoryNever == UNCHANGED disk

\* The tail of write_file_atomic: the outcome of the directory fsync is ignored.
SyncDirectory ==
    \/ Durable /\ FlushDirectory
    \/ (~Durable \/ "sync_dir" \in Faults) /\ UNCHANGED disk

-----------------------------------------------------------------------------
(* Steps shared by the operations *)

Return(r) ==
    /\ pc' = "idle"
    /\ op' = NoOp
    /\ reply' = r

Goto(label) ==
    /\ pc' = label
    /\ UNCHANGED <<op, reply>>

Start(kind, d, rec, victims, label) ==
    /\ pc' = label
    /\ op' = [kind |-> kind, digest |-> d, rec |-> rec, victims |-> victims]
    /\ reply' = "none"

EmptyIndex == [d \in Digests |-> NoRec]

\* Mutated form: records are indexed without being decoded.
IndexOfFilesUnverified(unreadable) ==
    [d \in Digests |-> IF d \notin unreadable THEN files[d] ELSE NoRec]

\* rebuild_index: a record that cannot be read or decoded is left out.
IndexOfFiles(unreadable) ==
    [d \in Digests |-> IF files[d] \in Rec /\ d \notin unreadable
                       THEN files[d] ELSE NoRec]

Unreadable == IF "read" \in Faults THEN SUBSET Digests ELSE {{}}

-----------------------------------------------------------------------------
(* open() *)

\* Mutated form: the fence of the previous open() is taken over.
SameFence(m) == m.inc

NextFence(m) == m.inc + 1

OpenBegin ==
    /\ pc = "idle" /\ ~isOpen
    /\ opening < MaxOpens
    /\ opening' = opening + 1
    /\ \/ /\ meta \in Meta
          /\ incarnation' = NextFence(meta)
          /\ sequence' = meta.seq
          /\ Start("open", NoRec, NoRec, {}, "rename_meta")
       \/ /\ meta = NoRec \/ "stat" \in Faults
          /\ incarnation' = 1
          /\ sequence' = 0
          /\ Start("open", NoRec, NoRec, {}, "rename_meta")
       \/ /\ \/ meta = Torn
             \/ meta \in Meta /\ "read" \in Faults
             \/ "enumerate" \in Faults  \* while staging files are swept
          /\ Return("io")
          /\ UNCHANGED <<incarnation, sequence>>
    /\ UNCHANGED <<disk, isOpen, index, acked>>

OpenRebuild ==
    /\ pc = "rebuild"
    /\ \/ /\ \E u \in Unreadable : index' = IndexOfFiles(u)
          /\ isOpen' = TRUE
          /\ Return("ok")
       \/ /\ "enumerate" \in Faults
          /\ index' = EmptyIndex
          /\ UNCHANGED isOpen
          /\ Return("io")
    /\ UNCHANGED <<disk, incarnation, sequence, opening, acked>>

-----------------------------------------------------------------------------
(* close() *)

Close ==
    /\ pc = "idle" /\ isOpen
    /\ Start("close", NoRec, NoRec, {}, "rename_meta")
    /\ UNCHANGED <<disk, memory, opening, acked>>

-----------------------------------------------------------------------------
(* put() *)

NewRecord(g) ==
    [gen |-> g, seq |-> sequence + 1, inc |-> incarnation, opening |-> opening]

\* Mutated form: the record about to be replaced is a candidate too.
EvictableWithReplaced(d) == Present(index)

\* The records that may be evicted to make room for d.
Evictable(d) == Present(index) \ {d}

PutBegin(d, g) ==
    LET others == Evictable(d)
        victims == Victims(index, others, 1, Size[g])
        admitted == Size[g] <= MaxRecordBytes
                    /\ Fits(index, others \ victims, 1, Size[g])
    IN
    /\ pc = "idle" /\ isOpen
    /\ sequence < MaxSeq
    /\ \/ /\ admitted
          /\ Start("put", d, NewRecord(g), victims, "rename_record")
       \/ ~admitted /\ Return("refused")
    /\ UNCHANGED <<disk, memory, opening, acked>>

\* A plan that is not of this request, or that validate_plan rejects, and any
\* operation on a closed store, are refused before anything is touched.
Refuse ==
    /\ pc = "idle"
    /\ Return("refused")
    /\ UNCHANGED <<disk, memory, opening, acked>>

\* Mutated form: the record is written in place, without a staging file.
PutRenameInPlace ==
    /\ pc = "rename_record"
    /\ files' = [files EXCEPT ![op.digest] = op.rec]
    /\ stable' = [stable EXCEPT ![op.digest] = @ \cup {op.rec, Torn}]
    /\ acked' = [acked EXCEPT ![op.digest] = IF @ = Erased THEN NoRec ELSE @]
    /\ Goto("sync_record")
    /\ UNCHANGED <<meta, stableMeta, memory, opening>>

PutRename ==
    /\ pc = "rename_record"
    /\ \/ /\ RenameRecord(op.digest, op.rec)
          /\ acked' = [acked EXCEPT ![op.digest] = IF @ = Erased THEN NoRec ELSE @]
          /\ Goto("sync_record")
       \/ /\ "write" \in Faults
          /\ Return("io")
          /\ UNCHANGED <<disk, acked>>
    /\ UNCHANGED <<memory, opening>>

\* Mutated form: the evicted records stay in the index.
CommittedKeepingVictims(d, rec, victims) == [index EXCEPT ![d] = rec]

Committed(d, rec, victims) ==
    [e \in Digests |-> IF e \in victims THEN NoRec
                       ELSE IF e = d THEN rec ELSE index[e]]

\* The directory flush, then the in-memory commit.
PutCommit ==
    /\ pc = "sync_record"
    /\ SyncDirectory
    /\ sequence' = op.rec.seq
    /\ index' = Committed(op.digest, op.rec, op.victims)
    /\ acked' = [d \in Digests |-> IF d \in op.victims THEN NoRec ELSE acked[d]]
    /\ Goto(IF op.victims = {} THEN "rename_meta" ELSE "evict")
    /\ UNCHANGED <<isOpen, incarnation, opening>>

\* One eviction file is removed; the outcome is ignored.
PutEvict ==
    /\ pc = "evict"
    /\ \E e \in op.victims :
         /\ IsOldest(files, e, op.victims)
         /\ \/ RemoveRecord(e)
            \/ "remove" \in Faults /\ UNCHANGED disk
         /\ op' = [op EXCEPT !.victims = @ \ {e}]
    /\ pc' = IF op'.victims = {} THEN "rename_meta" ELSE "evict"
    /\ UNCHANGED <<memory, reply, opening, acked>>

-----------------------------------------------------------------------------
(* erase(), enforce_bounds() and verify_all() *)

\* Mutated form: erase() returns without persist_meta.
EraseUnflushed(d) ==
    /\ pc = "idle" /\ isOpen
    /\ index[d] # NoRec
    /\ RemoveRecord(d)
    /\ index' = [index EXCEPT ![d] = NoRec]
    /\ acked' = [acked EXCEPT ![d] = Erased]
    /\ Return("ok")
    /\ UNCHANGED <<isOpen, incarnation, sequence, opening>>

EraseBegin(d) ==
    /\ pc = "idle" /\ isOpen
    /\ index[d] # NoRec
    /\ \/ /\ RemoveRecord(d)
          /\ index' = [index EXCEPT ![d] = NoRec]
          /\ acked' = [acked EXCEPT ![d] = NoRec]
          /\ Start("erase", d, NoRec, {}, "rename_meta")
       \/ /\ "remove" \in Faults
          /\ Return("io")
          /\ UNCHANGED <<disk, index, acked>>
    /\ UNCHANGED <<isOpen, incarnation, sequence, opening>>

EnforceBegin ==
    LET victims == Victims(index, Present(index), 0, 0) IN
    /\ pc = "idle" /\ isOpen
    /\ Start("enforce", NoRec, NoRec, victims,
             IF victims = {} THEN "rename_meta" ELSE "drop")
    /\ UNCHANGED <<disk, memory, opening, acked>>

EnforceDrop ==
    /\ pc = "drop"
    /\ \/ /\ \E e \in op.victims :
               /\ IsOldest(index, e, op.victims)
               /\ RemoveRecord(e)
               /\ index' = [index EXCEPT ![e] = NoRec]
               /\ acked' = [acked EXCEPT ![e] = NoRec]
               /\ op' = [op EXCEPT !.victims = @ \ {e}]
          /\ pc' = IF op'.victims = {} THEN "rename_meta" ELSE "drop"
          /\ UNCHANGED reply
       \/ /\ "remove" \in Faults
          /\ Return("io")
          /\ UNCHANGED <<disk, index, acked>>
    /\ UNCHANGED <<isOpen, incarnation, sequence, opening>>

VerifyAll ==
    /\ pc = "idle" /\ isOpen
    /\ \/ \E u \in Unreadable : index' = IndexOfFiles(u) /\ Return("ok")
       \/ /\ "enumerate" \in Faults
          /\ index' = EmptyIndex
          /\ Return("io")
    /\ UNCHANGED <<disk, isOpen, incarnation, sequence, opening, acked>>

-----------------------------------------------------------------------------
(* persist_meta(), and the return of the operation that called it *)

\* close() forgets the index and closes whatever persist_meta reported.
AfterClose ==
    IF op.kind = "close"
    THEN isOpen' = FALSE /\ index' = EmptyIndex
    ELSE UNCHANGED <<isOpen, index>>

PersistMeta ==
    /\ pc = "rename_meta"
    /\ \/ /\ RenameMeta([inc |-> incarnation, seq |-> sequence])
          /\ Goto("sync_meta")
          /\ UNCHANGED <<isOpen, index>>
       \/ /\ "write" \in Faults
          /\ AfterClose
          /\ Return("io")
          /\ UNCHANGED disk
    /\ UNCHANGED <<incarnation, sequence, opening, acked>>

\* Ghost: what the caller has just been told.
Acknowledge ==
    acked' = CASE op.kind = "put" -> [acked EXCEPT ![op.digest] = op.rec]
               [] op.kind = "erase" -> [acked EXCEPT ![op.digest] = Erased]
               [] OTHER -> acked

SyncMeta ==
    /\ pc = "sync_meta"
    /\ SyncDirectory
    /\ AfterClose
    /\ IF op.kind = "open" THEN Goto("rebuild") ELSE Return("ok")
    /\ Acknowledge
    /\ UNCHANGED <<incarnation, sequence, opening>>

-----------------------------------------------------------------------------
(* The process ends: by its destructor, by a signal, or with the machine *)

MemoryLost ==
    /\ isOpen' = FALSE
    /\ incarnation' = 0
    /\ sequence' = 0
    /\ index' = EmptyIndex
    /\ pc' = "idle"
    /\ op' = NoOp
    /\ reply' = "none"
    /\ UNCHANGED <<opening, acked>>

ProcessKilled ==
    /\ "kill" \in Faults
    /\ MemoryLost
    /\ UNCHANGED disk

PowerLoss ==
    /\ "power" \in Faults
    /\ MemoryLost
    /\ files' \in {f \in [Digests -> UNION {stable[d] : d \in Digests}] :
                     \A d \in Digests : f[d] \in stable[d]}
    /\ meta' \in stableMeta
    /\ stable' = [d \in Digests |-> {files'[d]}]
    /\ stableMeta' = {meta'}

-----------------------------------------------------------------------------
Next ==
    \/ OpenBegin \/ OpenRebuild
    \/ Close
    \/ \E d \in Digests, g \in Gens : PutBegin(d, g)
    \/ Refuse
    \/ PutRename \/ PutCommit \/ PutEvict
    \/ \E d \in Digests : EraseBegin(d)
    \/ EnforceBegin \/ EnforceDrop
    \/ VerifyAll
    \/ PersistMeta \/ SyncMeta
    \/ ProcessKilled \/ PowerLoss

Spec == Init /\ [][Next]_vars

-----------------------------------------------------------------------------
(* Properties *)

\* The faults under which the file system keeps its word about store.meta and
\* the directory: the directory fsync really flushes, stat really answers, and
\* power is only lost by a store configured to be durable.
HonestDisk ==
    /\ "stat" \notin Faults
    /\ "power" \in Faults => Durable /\ "sync_dir" \notin Faults

\* Every value the name of d holds now or may hold after the next failure.
MayHold(d) == {files[d]} \cup (IF "power" \in Faults THEN stable[d] ELSE {})

(***************************************************************************)
(* A record that put() acknowledged is never lost, torn or rolled back to  *)
(* an older commit, whatever fails next, until the store itself evicts or  *)
(* erases it.  This is "a commit is durable before put() returns"          *)
(* (persistence.hpp) across the rename, the directory flush, the removals  *)
(* and the write of store.meta.                                            *)
(***************************************************************************)
AckedSurvives ==
    \A d \in Digests : acked[d] \in Rec =>
        \A v \in MayHold(d) : v \in Rec /\ v.seq >= acked[d].seq

(***************************************************************************)
(* erase() removes the file without flushing the directory itself; once it *)
(* is acknowledged the record still cannot come back, because the write of *)
(* store.meta that follows flushes the removal too.                        *)
(***************************************************************************)
ErasedStaysErased ==
    \A d \in Digests : acked[d] = Erased => MayHold(d) = {NoRec}

(***************************************************************************)
(* The fence: while the store is open, a record carries the current        *)
(* incarnation exactly when this very call of open() wrote it, and none    *)
(* carries a later one.  A restart that reused an incarnation would        *)
(* resurrect the authority of the previous process (PlanStore::open).      *)
(***************************************************************************)
FenceIsFresh ==
    isOpen =>
        \A d \in Digests : \A v \in MayHold(d) \cap Rec :
            /\ v.inc <= incarnation
            /\ v.inc = incarnation <=> v.opening = opening

(***************************************************************************)
(* Between operations of an open store, the index describes the file that  *)
(* get() and revalidate() will read, and never a file that is gone.        *)
(***************************************************************************)
IndexMatchesDisk ==
    isOpen /\ pc = "idle" =>
        \A d \in Digests : index[d] # NoRec => files[d] = index[d]

(***************************************************************************)
(* A put() that is acknowledged leaves the index within both bounds, even  *)
(* when the store was opened over its bounds, and keeps the new record.    *)
(***************************************************************************)
PutRestoresBounds ==
    op.kind = "put" /\ pc \in {"evict", "rename_meta", "sync_meta"} =>
        /\ Fits(index, Present(index), 0, 0)
        /\ index[op.digest] = op.rec

-----------------------------------------------------------------------------
(* Refinement *)

Registry ==
    INSTANCE PlanRegistry WITH
        Records <- Rec,
        may <- [d \in Digests |-> MayHold(d)],
        promise <- acked

(***************************************************************************)
(* The store, file by file and call by call, implements the registry: what *)
(* may be found under a digest changes only by a put, an eviction or an    *)
(* erasure of that digest, a failure at any system call never makes up a   *)
(* value or tears one, and put() and erase() return only once the outcome  *)
(* can no longer change.                                                   *)
(***************************************************************************)
ImplementsRegistry == Registry!Spec
=============================================================================
