-------------------------- MODULE PlanStoreProofs --------------------------
(***************************************************************************)
(* Proofs about the plan store, for every set of digests and generations,  *)
(* every bound of the configuration and every set of faults: its types,    *)
(* its safety and its bounds, and that it implements the plan registry     *)
(* under every set of faults that leaves the disk honest.                  *)
(***************************************************************************)
EXTENDS PlanStore, SetSums, TLAPS

-----------------------------------------------------------------------------
(* Type correctness *)

\* The record put() builds is a record.
LEMMA NewRecordType ==
    ASSUME TypeOK, NEW g \in Gens
    PROVE  NewRecord(g) \in Rec
BY DEF TypeOK, NewRecord, Rec

\* rebuild_index only ever indexes records that decode.
LEMMA IndexOfFilesType ==
    ASSUME TypeOK, NEW u
    PROVE  IndexOfFiles(u) \in [Digests -> Rec \cup {NoRec}]
BY DEF TypeOK, IndexOfFiles

\* What an operation's working state may be.
Ops == [kind : OpKinds, digest : Digests \cup {NoRec},
        rec : Rec \cup {NoRec}, victims : SUBSET Digests]

\* Every operation starts, continues and returns with a well-typed state.
LEMMA ReturnType ==
    ASSUME TypeOK, NEW r \in {"none", "ok", "refused", "io"}, Return(r)
    PROVE  pc' \in PCs /\ op' \in Ops /\ reply' \in {"none", "ok", "refused", "io"}
BY DEF TypeOK, Return, NoOp, PCs, OpKinds, Ops

\* An operation that goes on to its next system call stays well typed.
LEMMA GotoType ==
    ASSUME TypeOK, NEW label \in PCs, Goto(label)
    PROVE  pc' \in PCs /\ op' \in Ops /\ reply' \in {"none", "ok", "refused", "io"}
BY DEF TypeOK, Goto, Ops

\* An operation starts with a well-typed working state.
LEMMA StartType ==
    ASSUME TypeOK, NEW kind \in OpKinds, NEW d \in Digests \cup {NoRec},
           NEW rec \in Rec \cup {NoRec}, NEW victims \in SUBSET Digests,
           NEW label \in PCs, Start(kind, d, rec, victims, label)
    PROVE  pc' \in PCs /\ op' \in Ops /\ reply' \in {"none", "ok", "refused", "io"}
BY DEF TypeOK, Start, Ops

\* What the directory may hold, now and after the failure of the machine.
DiskOK ==
    /\ meta \in MetaValue
    /\ files \in [Digests -> FileValue]
    /\ stableMeta \in SUBSET MetaValue
    /\ stable \in [Digests -> SUBSET FileValue]

\* The system calls of the store leave a well-typed directory.
LEMMA RenameRecordType ==
    ASSUME TypeOK, NEW d, NEW v \in FileValue, RenameRecord(d, v)
    PROVE  DiskOK'
BY DEF TypeOK, RenameRecord, DiskOK, Unflushed, FileValue

\* Removing a record file leaves a well-typed directory.
LEMMA RemoveRecordType ==
    ASSUME TypeOK, NEW d \in Digests, RemoveRecord(d)
    PROVE  DiskOK'
BY DEF TypeOK, RemoveRecord, DiskOK, FileValue

\* Replacing store.meta leaves a well-typed directory.
LEMMA RenameMetaType ==
    ASSUME TypeOK, NEW m \in Meta, RenameMeta(m)
    PROVE  DiskOK'
BY DEF TypeOK, RenameMeta, DiskOK, Unflushed, MetaValue

\* The directory flush of write_file_atomic leaves a well-typed directory.
LEMMA SyncDirectoryType ==
    ASSUME TypeOK, SyncDirectory
    PROVE  DiskOK'
BY DEF TypeOK, SyncDirectory, FlushDirectory, DiskOK, disk

\* A step that makes no system call leaves a well-typed directory.
LEMMA DiskUnchangedType ==
    ASSUME TypeOK, UNCHANGED disk
    PROVE  DiskOK'
BY DEF TypeOK, disk, DiskOK

(***************************************************************************)
(* Which operation is under way at each step, and that the store is open   *)
(* exactly for the operations that need it to be.                          *)
(***************************************************************************)
ControlOK ==
    /\ pc = "idle" <=> op.kind = "none"
    /\ pc \in {"rename_record", "sync_record", "evict"} => op.kind = "put"
    /\ pc = "rebuild" => op.kind = "open"
    /\ op.kind = "put" => op.digest \in Digests /\ op.rec \in Rec
    /\ op.kind \in {"close", "put", "erase", "enforce"} => isOpen
    /\ op.kind = "open" => ~isOpen
    /\ pc = "drop" => op.kind = "enforce"

TypeInv == TypeOK /\ ControlOK

\* A store that was never opened is well typed.
LEMMA TypeInit == Init => TypeInv
<1> SUFFICES ASSUME Init PROVE TypeInv
    OBVIOUS
<1>1. isOpen \in BOOLEAN /\ ~isOpen
    BY Zenon DEF Init
<1>2. op \in Ops /\ op.kind = "none" /\ pc \in PCs
    BY DEF Init, NoOp, Ops, OpKinds, PCs
<1>3. DiskOK
    BY DEF Init, DiskOK, FileValue, MetaValue
<1>4. TypeOK
    BY <1>1, <1>2, <1>3 DEF Init, TypeOK, Ops, DiskOK
<1>5. ControlOK
    BY <1>1, <1>2 DEF Init, ControlOK
<1>6. QED
    BY <1>4, <1>5 DEF TypeInv

\* Every action of the store preserves its types and its control.
LEMMA TypeStep == TypeInv /\ [Next]_vars => TypeInv'
<1> SUFFICES ASSUME TypeInv, [Next]_vars PROVE TypeInv'
    OBVIOUS
<1> USE DEF TypeInv
<1> USE DEF Ops, DiskOK
<1>1. CASE OpenBegin
    BY <1>1 DEF OpenBegin, TypeOK, ControlOK, disk, Start, Return, NoOp, NextFence,
       Meta, MetaValue, PCs, OpKinds
<1>2. CASE OpenRebuild
    <2>1. isOpen' \in BOOLEAN
        BY <1>2, Zenon DEF OpenRebuild, TypeOK
    <2>2. pc' = "idle" /\ op' \in Ops /\ op'.kind = "none" /\ reply' \in {"ok", "io"}
        BY <1>2 DEF OpenRebuild, Return, NoOp, OpKinds
    <2>3. index' \in [Digests -> Rec \cup {NoRec}]
        BY <1>2, IndexOfFilesType DEF OpenRebuild, EmptyIndex
    <2>4. TypeOK'
        BY <1>2, <2>1, <2>2, <2>3, DiskUnchangedType DEF OpenRebuild, TypeOK, PCs
    <2>5. ControlOK'
        BY <2>2 DEF ControlOK
    <2>6. QED
        BY <2>4, <2>5
<1>3. CASE Close
    BY <1>3 DEF Close, TypeOK, ControlOK, disk, memory, Start, PCs, OpKinds
<1>4. CASE \E d \in Digests, g \in Gens : PutBegin(d, g)
    <2> PICK d \in Digests, g \in Gens : PutBegin(d, g)
        BY <1>4
    <2> DEFINE victims == Victims(index, Evictable(d), 1, Size[g])
    <2>1. victims \in SUBSET Digests
        BY DEF Victims, Evictable, Present
    <2>2. \/ Start("put", d, NewRecord(g), victims, "rename_record")
          \/ Return("refused")
        BY DEF PutBegin
    <2>3. pc' \in PCs /\ op' \in Ops /\ reply' \in {"none", "ok", "refused", "io"}
        BY <2>1, <2>2, NewRecordType, StartType, ReturnType DEF PCs, OpKinds
    <2>4. TypeOK'
        BY <2>3, DiskUnchangedType DEF PutBegin, TypeOK, memory
    <2>5. ControlOK'
        <3> HIDE DEF victims
        <3> QED BY <2>2, NewRecordType DEF PutBegin, ControlOK, TypeOK, memory, Start, Return, NoOp
    <2>6. QED
        BY <2>4, <2>5
<1>5. CASE Refuse
    BY <1>5 DEF Refuse, TypeOK, ControlOK, disk, memory, Return, NoOp, PCs, OpKinds
<1>6. CASE PutRename
    BY <1>6, RenameRecordType
       DEF PutRename, TypeOK, ControlOK, disk, memory, Return, Goto, NoOp, FileValue, PCs, OpKinds
<1>7. CASE PutCommit
    BY <1>7, SyncDirectoryType
       DEF PutCommit, TypeOK, ControlOK, Goto, Committed, Rec, PCs
<1>8. CASE PutEvict
    BY <1>8, RemoveRecordType
       DEF PutEvict, TypeOK, ControlOK, memory, disk, PCs
<1>9. CASE \E d \in Digests : EraseBegin(d)
    BY <1>9, RemoveRecordType
       DEF EraseBegin, TypeOK, ControlOK, disk, Start, Return, NoOp, PCs, OpKinds
<1>10. CASE EnforceBegin
    BY <1>10
       DEF EnforceBegin, TypeOK, ControlOK, disk, memory, Start, Victims, Present, PCs, OpKinds
<1>11. CASE EnforceDrop
    BY <1>11, RemoveRecordType
       DEF EnforceDrop, TypeOK, ControlOK, disk, Return, NoOp, PCs, OpKinds
<1>12. CASE VerifyAll
    BY <1>12, IndexOfFilesType
       DEF VerifyAll, TypeOK, ControlOK, disk, Return, NoOp, EmptyIndex, PCs, OpKinds
<1>13. CASE PersistMeta
    <2>1. isOpen' \in BOOLEAN /\ (op'.kind # "none" => UNCHANGED isOpen)
        <3>1. CASE Goto("sync_meta") /\ UNCHANGED <<isOpen, index>>
            BY <3>1 DEF TypeOK
        <3>2. CASE AfterClose /\ Return("io")
            <4>1. isOpen' \in BOOLEAN
                BY <3>2, Zenon DEF AfterClose, TypeOK
            <4>2. op'.kind = "none"
                BY <3>2 DEF Return, NoOp
            <4>3. QED BY <4>1, <4>2
        <3>3. QED BY <1>13, <3>1, <3>2 DEF PersistMeta
    <2>2. index' \in [Digests -> Rec \cup {NoRec}]
        BY <1>13 DEF PersistMeta, AfterClose, EmptyIndex, TypeOK
    <2>3. pc' \in PCs /\ op' \in Ops /\ reply' \in {"none", "ok", "refused", "io"}
        BY <1>13, GotoType, ReturnType DEF PersistMeta, PCs
    <2>4. DiskOK'
        <3>1. [inc |-> incarnation, seq |-> sequence] \in Meta
            BY DEF TypeOK, Meta
        <3>2. QED BY <1>13, <3>1, RenameMetaType, DiskUnchangedType DEF PersistMeta
    <2>5. TypeOK'
        BY <1>13, <2>1, <2>2, <2>3, <2>4 DEF PersistMeta, TypeOK
    <2>6. ControlOK'
        BY <1>13, <2>1 DEF PersistMeta, ControlOK, Goto, Return, NoOp
    <2>7. QED
        BY <2>5, <2>6
<1>14. CASE SyncMeta
    <2>1. isOpen' \in BOOLEAN
        BY <1>14, Zenon DEF SyncMeta, AfterClose, TypeOK
    <2>2. index' \in [Digests -> Rec \cup {NoRec}]
        BY <1>14 DEF SyncMeta, AfterClose, EmptyIndex, TypeOK
    <2>3. pc' \in PCs /\ op' \in Ops /\ reply' \in {"none", "ok", "refused", "io"}
        BY <1>14, GotoType, ReturnType DEF SyncMeta, PCs
    <2>4. acked' \in [Digests -> Rec \cup {NoRec, Erased}]
        BY <1>14 DEF SyncMeta, Acknowledge, TypeOK
    <2>5. TypeOK'
        BY <1>14, <2>1, <2>2, <2>3, <2>4, SyncDirectoryType DEF SyncMeta, TypeOK
    <2>6. ControlOK'
        <3>1. CASE op.kind = "open"
            BY <1>14, <3>1 DEF SyncMeta, ControlOK, AfterClose, Goto
        <3>2. CASE op.kind # "open"
            <4>1. pc' = "idle" /\ op'.kind = "none"
                BY <1>14, <3>2 DEF SyncMeta, Return, NoOp
            <4>2. QED BY <4>1 DEF ControlOK
        <3>3. QED BY <3>1, <3>2
    <2>7. QED
        BY <2>5, <2>6
<1>15. CASE ProcessKilled
    BY <1>15 DEF ProcessKilled, MemoryLost, TypeOK, ControlOK, disk, NoOp, EmptyIndex, PCs, OpKinds
<1>16. CASE PowerLoss
    BY <1>16 DEF PowerLoss, MemoryLost, TypeOK, ControlOK, NoOp, EmptyIndex, PCs, OpKinds
<1>17. CASE UNCHANGED vars
    BY <1>17 DEF vars, disk, memory, TypeOK, ControlOK
<1>18. QED
    BY <1>1, <1>2, <1>3, <1>4, <1>5, <1>6, <1>7, <1>8, <1>9, <1>10, <1>11, <1>12,
       <1>13, <1>14, <1>15, <1>16, <1>17 DEF Next

(***************************************************************************)
(* The store never leaves its types: in particular a file that does not    *)
(* decode never enters the index, whatever the faults and the bounds.      *)
(***************************************************************************)
THEOREM TypeCorrect == Spec => []TypeOK
<1>1. Spec => []TypeInv
    BY TypeInit, TypeStep, PTL DEF Spec
<1>2. TypeInv => TypeOK
    BY DEF TypeInv
<1>3. QED
    BY <1>1, <1>2, PTL

-----------------------------------------------------------------------------
(* The fence *)

\* Every record d's name holds now or may hold after the next failure, and
\* every value store.meta does.
RecordsOf(d) == MayHold(d) \cap Rec
MetaMayHold == {meta} \cup (IF "power" \in Faults THEN stableMeta ELSE {})

(***************************************************************************)
(* The facts the fence rests on.  FenceIsFresh alone is not inductive: it  *)
(* says nothing while the store is closed, which is when open() reads      *)
(* store.meta to choose the next incarnation.                              *)
(***************************************************************************)
\* store.meta is never behind a record, in any version a failure may leave.
MetaCoversRecords ==
    \A d \in Digests : \A v \in RecordsOf(d) :
        /\ v.opening <= opening
        /\ \A m \in MetaMayHold : m \in Meta /\ v.inc <= m.inc

\* From the flush of store.meta on, no failure can bring an older fence back.
FencePinned ==
    isOpen \/ pc = "rebuild" => \A m \in MetaMayHold : m \in Meta /\ m.inc = incarnation

\* While open() is under way, its incarnation is above every record's.
OpeningIsAhead ==
    op.kind = "open" =>
        /\ \A d \in Digests : \A v \in RecordsOf(d) :
               v.inc < incarnation /\ v.opening < opening
        /\ pc = "sync_meta" => meta \in Meta /\ meta.inc = incarnation

\* put() stamps its record with the fence of this open().
PutCarriesFence ==
    op.kind = "put" => op.rec.inc = incarnation /\ op.rec.opening = opening

FenceInv ==
    /\ TypeInv
    /\ MetaCoversRecords
    /\ FencePinned
    /\ OpeningIsAhead
    /\ PutCarriesFence
    /\ FenceIsFresh

\* A step after which the directory may hold nothing it could not hold before.
Shrinks ==
    /\ \A d \in Digests : RecordsOf(d)' \subseteq RecordsOf(d)
    /\ MetaMayHold' \subseteq MetaMayHold

\* A flush, a removal and the failures themselves bring nothing back.
LEMMA UnchangedShrinks ==
    ASSUME UNCHANGED disk
    PROVE  Shrinks
BY DEF disk, Shrinks, RecordsOf, MayHold, MetaMayHold

\* The directory flush only forgets what a power loss could have brought back.
LEMMA SyncShrinks ==
    ASSUME TypeOK, SyncDirectory
    PROVE  Shrinks
BY UnchangedShrinks
   DEF TypeOK, SyncDirectory, FlushDirectory, Shrinks, RecordsOf, MayHold, MetaMayHold

\* A removal makes no record possible that was not.
LEMMA RemoveShrinks ==
    ASSUME TypeOK, NEW d \in Digests, RemoveRecord(d)
    PROVE  Shrinks
BY DistinctAssumption
   DEF TypeOK, RemoveRecord, Shrinks, RecordsOf, MayHold, MetaMayHold

\* A power loss leaves one of the values each name could hold.
LEMMA PowerLossShrinks ==
    ASSUME TypeOK, PowerLoss
    PROVE  Shrinks
<1>1. "power" \in Faults
    BY DEF PowerLoss
<1>2. \A d \in Digests : files'[d] \in stable[d] /\ stable'[d] = {files'[d]}
    BY DEF PowerLoss
<1>3. meta' \in stableMeta /\ stableMeta' = {meta'}
    BY DEF PowerLoss
<1>4. QED
    BY <1>1, <1>2, <1>3 DEF Shrinks, RecordsOf, MayHold, MetaMayHold

\* A rename adds the one value it writes; with an honest disk it is never torn.
LEMMA RenameRecordAdds ==
    ASSUME TypeOK, NEW d \in Digests, NEW v \in Rec, RenameRecord(d, v)
    PROVE  /\ MetaMayHold' = MetaMayHold
           /\ \A e \in Digests : RecordsOf(e)' \subseteq RecordsOf(e) \cup {v}
BY DistinctAssumption
   DEF TypeOK, RenameRecord, Unflushed, RecordsOf, MayHold, MetaMayHold

\* With an honest disk, replacing store.meta adds its new value and nothing else.
LEMMA RenameMetaAdds ==
    ASSUME TypeOK, HonestDisk, NEW m, RenameMeta(m)
    PROVE  /\ meta' = m
           /\ MetaMayHold' \subseteq MetaMayHold \cup {m}
           /\ \A e \in Digests : RecordsOf(e)' = RecordsOf(e)
BY DEF TypeOK, HonestDisk, RenameMeta, Unflushed, RecordsOf, MayHold, MetaMayHold

\* A step that writes nothing new and does not open the store keeps the fence.
LEMMA QuietStep ==
    ASSUME FenceInv, TypeInv', Shrinks, opening' = opening,
           isOpen' => isOpen /\ incarnation' = incarnation,
           pc' # "rebuild", op'.kind # "open", PutCarriesFence'
    PROVE  FenceInv'
<1>1. MetaCoversRecords'
    BY DEF FenceInv, MetaCoversRecords, Shrinks
<1>2. FencePinned'
    BY DEF FenceInv, FencePinned, Shrinks
<1>3. OpeningIsAhead'
    BY DEF OpeningIsAhead
<1>4. FenceIsFresh'
    BY DEF FenceInv, FenceIsFresh, Shrinks, RecordsOf
<1>5. QED
    BY <1>1, <1>2, <1>3, <1>4 DEF FenceInv

\* The fence holds of a store that was never opened.
LEMMA FenceInit == Init => FenceInv
<1> SUFFICES ASSUME Init PROVE FenceInv
    OBVIOUS
<1>1. \A d \in Digests : RecordsOf(d) = {}
    BY DistinctAssumption DEF Init, RecordsOf, MayHold
<1>2. ~isOpen
    BY Zenon DEF Init
<1>3. pc = "idle" /\ op.kind = "none"
    BY DEF Init, NoOp
<1>4. QED
    BY <1>1, <1>2, <1>3, TypeInit
       DEF FenceInv, MetaCoversRecords, FencePinned, OpeningIsAhead, PutCarriesFence,
           FenceIsFresh, RecordsOf

\* open() reads store.meta, which covers every record, and goes one above it.
LEMMA OpenBeginKeepsFence ==
    ASSUME HonestDisk, FenceInv, TypeInv', OpenBegin
    PROVE  FenceInv'
<1> USE DEF FenceInv
<1>1. Shrinks /\ opening' = opening + 1 /\ ~isOpen' /\ pc' # "rebuild"
    <2>1. ~isOpen'
        BY Zenon DEF OpenBegin
    <2>2. QED
        BY <2>1, UnchangedShrinks DEF OpenBegin, Start, Return
<1>2. op'.kind # "put" /\ pc' # "sync_meta"
    BY DEF OpenBegin, Start, Return, NoOp
<1>3. \A d \in Digests : \A v \in RecordsOf(d)' :
          /\ v \in RecordsOf(d) /\ v.inc \in Nat /\ v.opening \in Nat
          /\ v.opening <= opening
          /\ meta \in Meta /\ v.inc <= meta.inc
          /\ \A m \in MetaMayHold : m \in Meta /\ v.inc <= m.inc
    <2>1. meta \in MetaMayHold
        BY DEF MetaMayHold
    <2>2. \A v \in Rec : v.inc \in Nat /\ v.opening \in Nat
        BY DEF Rec
    <2>3. QED
        BY <1>1, <2>1, <2>2 DEF MetaCoversRecords, Shrinks, RecordsOf
<1>4. opening \in Nat
    BY DEF TypeInv, TypeOK
<1>5. MetaCoversRecords'
    BY <1>1, <1>3, <1>4 DEF MetaCoversRecords, Shrinks
<1>6. OpeningIsAhead'
    <2> SUFFICES ASSUME op'.kind = "open", NEW d \in Digests, NEW v \in RecordsOf(d)'
                 PROVE  v.inc < incarnation' /\ v.opening < opening'
        BY <1>2 DEF OpeningIsAhead
    <2>1. meta \in Meta /\ v.inc <= meta.inc /\ v.inc \in Nat
        BY <1>3
    <2>2. meta # NoRec
        BY <2>1, DistinctAssumption
    <2>3. incarnation' = meta.inc + 1
        BY <2>2 DEF OpenBegin, HonestDisk, Return, NoOp, NextFence
    <2>4. meta.inc \in Nat
        BY <2>1 DEF Meta
    <2>5. QED
        BY <1>1, <1>3, <1>4, <2>1, <2>3, <2>4
<1>7. QED
    BY <1>1, <1>2, <1>5, <1>6 DEF FencePinned, PutCarriesFence, FenceIsFresh

\* The opened store starts above every record; from here on it is the fence.
LEMMA OpenRebuildKeepsFence ==
    ASSUME FenceInv, TypeInv', OpenRebuild
    PROVE  FenceInv'
<1> USE DEF FenceInv
<1>1. Shrinks /\ opening' = opening /\ incarnation' = incarnation
    BY UnchangedShrinks DEF OpenRebuild
<1>2. op.kind = "open" /\ pc = "rebuild"
    BY DEF OpenRebuild, TypeInv, ControlOK
<1>3. op'.kind = "none" /\ pc' = "idle"
    BY DEF OpenRebuild, Return, NoOp
<1>4. MetaCoversRecords'
    BY <1>1 DEF MetaCoversRecords, Shrinks
<1>5. FencePinned'
    BY <1>1, <1>2 DEF FencePinned, Shrinks
<1>6. FenceIsFresh'
    <2>1. \A v \in Rec : v.inc \in Nat /\ v.opening \in Nat
        BY DEF Rec
    <2>2. incarnation \in Nat /\ opening \in Nat
        BY DEF TypeInv, TypeOK
    <2>3. \A d \in Digests : \A v \in RecordsOf(d) : v \in Rec
        BY DEF RecordsOf
    <2>4. \A d \in Digests : \A v \in RecordsOf(d)' : v.inc < incarnation /\ v.opening < opening
        BY <1>1, <1>2 DEF OpeningIsAhead, Shrinks
    <2>5. QED
        BY <1>1, <2>1, <2>2, <2>3, <2>4 DEF FenceIsFresh, Shrinks, RecordsOf
<1>7. QED
    BY <1>3, <1>4, <1>5, <1>6 DEF OpeningIsAhead, PutCarriesFence

\* The record put() makes visible carries the pinned fence.
LEMMA PutRenameKeepsFence ==
    ASSUME FenceInv, TypeInv', PutRename
    PROVE  FenceInv'
<1> USE DEF FenceInv
<1>1. op.kind = "put" /\ op.digest \in Digests /\ op.rec \in Rec /\ isOpen
    BY DEF PutRename, TypeInv, ControlOK
<1>2. opening' = opening /\ incarnation' = incarnation /\ isOpen'
    BY <1>1 DEF PutRename, memory
<1>3. op.rec.inc = incarnation /\ op.rec.opening = opening
    BY <1>1 DEF PutCarriesFence
<1>4. CASE RenameRecord(op.digest, op.rec) /\ Goto("sync_record")
    <2>1. MetaMayHold' = MetaMayHold
        BY <1>1, <1>4, RenameRecordAdds DEF TypeInv
    <2>2. \A e \in Digests : RecordsOf(e)' \subseteq RecordsOf(e) \cup {op.rec}
        BY <1>1, <1>4, RenameRecordAdds DEF TypeInv
    <2>3. op' = op /\ pc' = "sync_record"
        BY <1>4 DEF Goto
    <2>4. incarnation \in Nat /\ opening \in Nat
        BY DEF TypeInv, TypeOK
    <2>5. FencePinned'
        BY <1>1, <1>2, <2>1, <2>3 DEF FencePinned
    <2>6. MetaCoversRecords'
        BY <1>1, <1>2, <1>3, <2>1, <2>2, <2>4 DEF MetaCoversRecords, FencePinned
    <2>7. FenceIsFresh'
        BY <1>1, <1>2, <1>3, <2>2, <2>4 DEF FenceIsFresh, RecordsOf
    <2>8. QED
        BY <1>1, <1>2, <1>3, <2>3, <2>5, <2>6, <2>7 DEF OpeningIsAhead, PutCarriesFence
<1>5. CASE Return("io") /\ UNCHANGED disk
    BY <1>1, <1>2, <1>5, UnchangedShrinks, QuietStep DEF Return, NoOp, PutCarriesFence
<1>6. QED
    BY <1>4, <1>5 DEF PutRename

\* persist_meta writes the incarnation in memory, which no record exceeds.
LEMMA PersistMetaKeepsFence ==
    ASSUME HonestDisk, FenceInv, TypeInv', PersistMeta
    PROVE  FenceInv'
<1> USE DEF FenceInv
<1> DEFINE m == [inc |-> incarnation, seq |-> sequence]
<1>1. opening' = opening /\ incarnation' = incarnation
    BY DEF PersistMeta
<1>2. CASE RenameMeta(m) /\ Goto("sync_meta") /\ UNCHANGED <<isOpen, index>>
    <2>1. meta' = m /\ MetaMayHold' \subseteq MetaMayHold \cup {m}
        BY <1>2, RenameMetaAdds DEF TypeInv
    <2>2. \A e \in Digests : RecordsOf(e)' = RecordsOf(e)
        BY <1>2, RenameMetaAdds DEF TypeInv
    <2>3. m \in Meta /\ m.inc = incarnation
        BY DEF Meta, TypeInv, TypeOK
    <2>4. op' = op /\ pc' = "sync_meta" /\ isOpen' = isOpen
        BY <1>2 DEF Goto
    <2>5. op.kind # "none" /\ (isOpen \/ op.kind = "open")
        BY DEF PersistMeta, TypeInv, TypeOK, ControlOK, OpKinds
    <2>6. \A d \in Digests : \A v \in RecordsOf(d) : v.inc <= incarnation
        <3>1. CASE isOpen
            BY <3>1 DEF FenceIsFresh, RecordsOf
        <3>2. CASE op.kind = "open"
            <4>1. \A v \in Rec : v.inc \in Nat
                BY DEF Rec
            <4>2. \A d \in Digests : \A v \in RecordsOf(d) : v.inc \in Nat
                BY <4>1 DEF RecordsOf
            <4>3. QED
                BY <3>2, <4>2 DEF OpeningIsAhead, TypeInv, TypeOK
        <3>3. QED
            BY <2>5, <3>1, <3>2
    <2> HIDE DEF m
    <2>7. MetaCoversRecords'
        BY <1>1, <2>1, <2>2, <2>3, <2>6 DEF MetaCoversRecords
    <2>8. FencePinned'
        BY <1>1, <2>1, <2>3, <2>4 DEF FencePinned
    <2>9. OpeningIsAhead'
        BY <1>1, <2>1, <2>2, <2>3, <2>4 DEF OpeningIsAhead
    <2>10. FenceIsFresh'
        BY <1>1, <2>2, <2>4 DEF FenceIsFresh, RecordsOf
    <2>11. QED
        BY <1>1, <2>4, <2>7, <2>8, <2>9, <2>10 DEF PutCarriesFence
<1>3. CASE AfterClose /\ Return("io") /\ UNCHANGED disk
    <2>1. isOpen' => isOpen
        BY <1>3, Zenon DEF AfterClose
    <2>2. QED
        BY <1>1, <1>3, <2>1, UnchangedShrinks, QuietStep DEF Return, NoOp, PutCarriesFence
<1>4. QED
    BY <1>2, <1>3 DEF PersistMeta

\* The flush that ends persist_meta pins the fence before open() goes on.
LEMMA SyncMetaKeepsFence ==
    ASSUME HonestDisk, FenceInv, TypeInv', SyncMeta
    PROVE  FenceInv'
<1> USE DEF FenceInv
<1>1. Shrinks /\ opening' = opening /\ incarnation' = incarnation
    BY SyncShrinks DEF SyncMeta, TypeInv
<1>2. CASE op.kind = "open"
    <2>1. op' = op /\ pc' = "rebuild" /\ isOpen' = isOpen
        BY <1>2 DEF SyncMeta, Goto, AfterClose
    <2>2. ~isOpen
        BY <1>2 DEF TypeInv, ControlOK
    <2>3. meta \in Meta /\ meta.inc = incarnation
        BY <1>2 DEF OpeningIsAhead, SyncMeta
    <2>4. MetaMayHold' = {meta}
        BY DEF SyncMeta, SyncDirectory, FlushDirectory, HonestDisk, MetaMayHold, disk
    <2>5. FencePinned'
        BY <1>1, <2>3, <2>4 DEF FencePinned
    <2>6. MetaCoversRecords'
        BY <1>1 DEF MetaCoversRecords, Shrinks
    <2>7. OpeningIsAhead'
        BY <1>1, <1>2, <2>1 DEF OpeningIsAhead, Shrinks
    <2>8. QED
        BY <1>2, <2>1, <2>2, <2>5, <2>6, <2>7 DEF FenceIsFresh, PutCarriesFence
<1>3. CASE op.kind # "open"
    <2>1. op'.kind = "none" /\ pc' = "idle"
        BY <1>3 DEF SyncMeta, Return, NoOp
    <2>2. isOpen' => isOpen
        BY Zenon DEF SyncMeta, AfterClose
    <2>3. QED
        BY <1>1, <2>1, <2>2, QuietStep DEF PutCarriesFence
<1>4. QED
    BY <1>2, <1>3

\* put() stamps the record it is about to write with the fence in memory.
LEMMA PutBeginKeepsFence ==
    ASSUME FenceInv, TypeInv', NEW d \in Digests, NEW g \in Gens, PutBegin(d, g)
    PROVE  FenceInv'
<1>1. Shrinks /\ opening' = opening /\ incarnation' = incarnation /\ isOpen' = isOpen
    BY UnchangedShrinks DEF PutBegin, memory
<1>2. pc' # "rebuild" /\ op'.kind # "open" /\ PutCarriesFence'
    BY <1>1 DEF PutBegin, Start, Return, NoOp, NewRecord, PutCarriesFence
<1>3. QED
    BY <1>1, <1>2, QuietStep

\* Every action of the store preserves the fence invariant on an honest disk.
LEMMA FenceStep ==
    ASSUME HonestDisk
    PROVE  FenceInv /\ [Next]_vars => FenceInv'
<1> SUFFICES ASSUME FenceInv, [Next]_vars PROVE FenceInv'
    OBVIOUS
<1>0. TypeInv' /\ TypeOK
    BY TypeStep DEF FenceInv, TypeInv
<1>1. CASE OpenBegin
    BY <1>0, <1>1, OpenBeginKeepsFence
<1>2. CASE OpenRebuild
    BY <1>0, <1>2, OpenRebuildKeepsFence
<1>3. CASE Close
    BY <1>0, <1>3, QuietStep, UnchangedShrinks DEF Close, memory, Start, PutCarriesFence
<1>4. CASE \E d \in Digests, g \in Gens : PutBegin(d, g)
    BY <1>0, <1>4, PutBeginKeepsFence
<1>5. CASE Refuse
    BY <1>0, <1>5, QuietStep, UnchangedShrinks DEF Refuse, memory, Return, NoOp, PutCarriesFence
<1>6. CASE PutRename
    BY <1>0, <1>6, PutRenameKeepsFence
<1>7. CASE PutCommit
    <2>1. op' = op /\ pc' # "rebuild" /\ op.kind = "put"
        BY <1>7 DEF PutCommit, Goto, FenceInv, TypeInv, ControlOK
    <2>2. Shrinks /\ opening' = opening /\ incarnation' = incarnation /\ isOpen' = isOpen
        BY <1>0, <1>7, SyncShrinks DEF PutCommit
    <2>3. QED
        BY <1>0, <2>1, <2>2, QuietStep DEF FenceInv, PutCarriesFence
<1>8. CASE PutEvict
    <2>1. op'.kind = op.kind /\ op'.rec = op.rec /\ pc' # "rebuild" /\ op.kind = "put"
        BY <1>0, <1>8 DEF PutEvict, FenceInv, TypeInv, TypeOK, ControlOK
    <2>2. Shrinks /\ opening' = opening /\ incarnation' = incarnation /\ isOpen' = isOpen
        BY <1>0, <1>8, RemoveShrinks, UnchangedShrinks DEF PutEvict, memory, TypeOK
    <2>3. QED
        BY <1>0, <2>1, <2>2, QuietStep DEF FenceInv, PutCarriesFence
<1>9. CASE \E d \in Digests : EraseBegin(d)
    BY <1>0, <1>9, QuietStep, RemoveShrinks, UnchangedShrinks
       DEF EraseBegin, Start, Return, NoOp, PutCarriesFence
<1>10. CASE EnforceBegin
    BY <1>0, <1>10, QuietStep, UnchangedShrinks DEF EnforceBegin, memory, Start, PutCarriesFence
<1>11. CASE EnforceDrop
    <2>1. op.kind = "enforce"
        BY <1>11 DEF EnforceDrop, FenceInv, TypeInv, ControlOK
    <2>2. op'.kind \in {"enforce", "none"} /\ pc' # "rebuild"
        BY <1>0, <1>11, <2>1 DEF EnforceDrop, TypeOK, Return, NoOp
    <2>3. Shrinks /\ opening' = opening /\ incarnation' = incarnation /\ isOpen' = isOpen
        BY <1>0, <1>11, RemoveShrinks, UnchangedShrinks DEF EnforceDrop, TypeOK
    <2>4. QED
        BY <1>0, <2>2, <2>3, QuietStep DEF PutCarriesFence
<1>12. CASE VerifyAll
    BY <1>0, <1>12, QuietStep, UnchangedShrinks DEF VerifyAll, Return, NoOp, PutCarriesFence
<1>13. CASE PersistMeta
    BY <1>0, <1>13, PersistMetaKeepsFence
<1>14. CASE SyncMeta
    BY <1>0, <1>14, SyncMetaKeepsFence
<1>15. CASE ProcessKilled \/ PowerLoss
    <2>1. Shrinks
        BY <1>0, <1>15, UnchangedShrinks, PowerLossShrinks DEF ProcessKilled
    <2>2. ~isOpen'
        BY <1>15, Zenon DEF ProcessKilled, PowerLoss, MemoryLost
    <2>3. opening' = opening /\ pc' = "idle" /\ op'.kind = "none"
        BY <1>15 DEF ProcessKilled, PowerLoss, MemoryLost, NoOp
    <2>4. QED
        BY <1>0, <2>1, <2>2, <2>3, QuietStep DEF PutCarriesFence
<1>16. CASE UNCHANGED vars
    BY <1>0, <1>16
       DEF vars, disk, memory, FenceInv, MetaCoversRecords, FencePinned, OpeningIsAhead,
           PutCarriesFence, FenceIsFresh, RecordsOf, MayHold, MetaMayHold
<1>17. QED
    BY <1>1, <1>2, <1>3, <1>4, <1>5, <1>6, <1>7, <1>8, <1>9, <1>10, <1>11, <1>12,
       <1>13, <1>14, <1>15, <1>16 DEF Next

(***************************************************************************)
(* On a disk that keeps its word, no restart ever reuses an incarnation,   *)
(* whatever is killed, lost to a power cut or failed in between: a record  *)
(* carries the incarnation of an open store exactly when this call of      *)
(* PlanStore::open wrote it.                                               *)
(***************************************************************************)
THEOREM FenceHolds ==
    ASSUME HonestDisk
    PROVE  Spec => []FenceIsFresh
<1>1. Spec => []FenceInv
    BY FenceInit, FenceStep, PTL DEF Spec
<1>2. FenceInv => FenceIsFresh
    BY DEF FenceInv
<1>3. QED
    BY <1>1, <1>2, PTL

-----------------------------------------------------------------------------
(* The index and the files *)

(***************************************************************************)
(* Within an operation the index may lag behind the files in one place     *)
(* only: between the rename that makes a record visible and the in-memory  *)
(* commit.  Evicted records leave the index before their files go.         *)
(***************************************************************************)
IndexAgrees ==
    isOpen => \A d \in Digests :
        index[d] # NoRec =>
            files[d] = index[d] \/ (pc = "sync_record" /\ d = op.digest)

CommitPending == pc = "sync_record" => files[op.digest] = op.rec

VictimsUnindexed ==
    pc = "evict" => \A e \in op.victims : index[e] = NoRec

IndexInv == TypeInv /\ IndexAgrees /\ CommitPending /\ VictimsUnindexed

\* A store that was never opened has an empty index.
LEMMA IndexInit == Init => IndexInv
<1> SUFFICES ASSUME Init PROVE IndexInv
    OBVIOUS
<1>1. ~isOpen
    BY Zenon DEF Init
<1>2. QED
    BY <1>1, TypeInit DEF Init, IndexInv, IndexAgrees, CommitPending, VictimsUnindexed

\* Every action of the store preserves the agreement of index and files.
LEMMA IndexStep == IndexInv /\ [Next]_vars => IndexInv'
<1> SUFFICES ASSUME IndexInv, [Next]_vars PROVE IndexInv'
    OBVIOUS
<1>0. TypeInv' /\ TypeOK /\ ControlOK
    BY TypeStep DEF IndexInv, TypeInv
<1> USE DEF IndexInv, IndexAgrees, CommitPending, VictimsUnindexed
<1>1. CASE OpenBegin
    <2>1. ~isOpen'
        BY <1>1, Zenon DEF OpenBegin
    <2>2. QED
        BY <1>0, <1>1, <2>1 DEF OpenBegin, Start, Return
<1>2. CASE OpenRebuild \/ VerifyAll
    BY <1>0, <1>2
       DEF OpenRebuild, VerifyAll, disk, Return, IndexOfFiles, EmptyIndex, TypeOK
<1>3. CASE Close \/ Refuse \/ EnforceBegin
    BY <1>0, <1>3
       DEF Close, Refuse, EnforceBegin, disk, memory, Start, Return, ControlOK
<1>4. CASE \E d \in Digests, g \in Gens : PutBegin(d, g)
    BY <1>0, <1>4 DEF PutBegin, disk, memory, Start, Return
<1>5. CASE PutRename
    BY <1>0, <1>5
       DEF PutRename, RenameRecord, disk, memory, Goto, Return, ControlOK, TypeOK
<1>6. CASE PutCommit
    <2>1. UNCHANGED <<files, isOpen, op>> /\ pc' # "sync_record"
        BY <1>6 DEF PutCommit, SyncDirectory, FlushDirectory, disk, Goto
    <2>2. index' = Committed(op.digest, op.rec, op.victims)
        BY <1>6 DEF PutCommit
    <2>3. pc = "sync_record"
        BY <1>6 DEF PutCommit
    <2>4. QED
        BY <1>0, <2>1, <2>2, <2>3 DEF Committed, TypeOK
<1>7. CASE PutEvict
    BY <1>0, <1>7 DEF PutEvict, RemoveRecord, disk, memory, TypeOK
<1>8. CASE \E d \in Digests : EraseBegin(d)
    BY <1>0, <1>8 DEF EraseBegin, RemoveRecord, disk, Start, Return, TypeOK
<1>9. CASE EnforceDrop
    BY <1>0, <1>9 DEF EnforceDrop, RemoveRecord, disk, Return, TypeOK
<1>10. CASE PersistMeta \/ SyncMeta
    <2>1. UNCHANGED files /\ pc' \notin {"sync_record", "evict"} /\ pc # "sync_record"
        BY <1>10
           DEF PersistMeta, SyncMeta, RenameMeta, SyncDirectory, FlushDirectory, disk,
               Goto, Return
    <2>2. AfterClose \/ UNCHANGED <<isOpen, index>>
        BY <1>10 DEF PersistMeta, SyncMeta
    <2>3. isOpen' => isOpen /\ UNCHANGED index
        BY <2>2, Zenon DEF AfterClose
    <2>4. QED
        BY <1>0, <2>1, <2>3
<1>11. CASE ProcessKilled \/ PowerLoss
    <2>1. ~isOpen'
        BY <1>11, Zenon DEF ProcessKilled, PowerLoss, MemoryLost
    <2>2. pc' = "idle"
        BY <1>11 DEF ProcessKilled, PowerLoss, MemoryLost
    <2>3. QED
        BY <1>0, <2>1, <2>2
<1>12. CASE UNCHANGED vars
    BY <1>0, <1>12 DEF vars, disk, memory
<1>13. QED
    BY <1>1, <1>2, <1>3, <1>4, <1>5, <1>6, <1>7, <1>8, <1>9, <1>10, <1>11, <1>12 DEF Next

(***************************************************************************)
(* Between operations of an open store the index never describes a file    *)
(* that is gone or was replaced, whatever the faults: removals that fail,  *)
(* a failed write of store.meta, and failed enumerations included.         *)
(***************************************************************************)
THEOREM IndexMatches == Spec => []IndexMatchesDisk
<1>1. Spec => []IndexInv
    BY IndexInit, IndexStep, PTL DEF Spec
<1>2. IndexInv => IndexMatchesDisk
    BY DEF IndexInv, IndexAgrees, IndexMatchesDisk
<1>3. QED
    BY <1>1, <1>2, PTL


-----------------------------------------------------------------------------
(* The size of a set of records *)

\* What MapThenSumSet computes in Bytes.
ByteSums(f, idx, S) ==
    f = [s \in SUBSET S |->
            IF s = {} THEN 0
            ELSE Size[idx[Pick(s)].gen] + f[s \ {Pick(s)}]]

\* The sums of Bytes are those of a function.
LEMMA ByteSumsAgree ==
    ASSUME NEW idx, NEW S, NEW f, NEW size, \A d \in S : size[d] = Size[idx[d].gen]
    PROVE  ByteSums(f, idx, S) <=> Sums(f, size, S)
<1>1. ASSUME NEW s \in SUBSET S, s # {}
      PROVE  size[Pick(s)] = Size[idx[Pick(s)].gen]
    BY <1>1, PickIn
<1>2. [s \in SUBSET S |-> IF s = {} THEN 0 ELSE Size[idx[Pick(s)].gen] + f[s \ {Pick(s)}]]
      = [s \in SUBSET S |-> IF s = {} THEN 0 ELSE size[Pick(s)] + f[s \ {Pick(s)}]]
    BY <1>1
<1>3. QED
    BY <1>2 DEF ByteSums, Sums

\* The size of a set of records is the total of their sizes.
LEMMA BytesIsTotal ==
    ASSUME NEW idx, NEW S, IsFiniteSet(S), NEW size, \A d \in S : size[d] = Size[idx[d].gen]
    PROVE  Bytes(idx, S) = Total(size, S)
<1>1. PICK f : f = CHOOSE g : ByteSums(g, idx, S)
    OBVIOUS
<1>2. ByteSums(f, idx, S)
    <2>1. PICK h : Sums(h, size, S)
        BY SumsExist
    <2>2. ByteSums(h, idx, S)
        BY <2>1, ByteSumsAgree
    <2>3. QED
        BY <1>1, <2>2
<1>3. Sums(f, size, S)
    BY <1>2, ByteSumsAgree
<1>4. Total(size, S) = f[S]
    BY <1>3, TotalOf
<1>5. Bytes(idx, S) = f[S]
    BY <1>1 DEF Bytes, MapThenSumSet, MapThenFoldSet, ByteSums, Pick
<1>6. QED
    BY <1>4, <1>5

(***************************************************************************)
(* A record more: the commit of put() replaces the old records of some     *)
(* digests by nothing and that of d by rec, and what is left of the index  *)
(* is what admission compared with the bounds.                             *)
(***************************************************************************)
LEMMA CommitFits ==
    ASSUME NEW idx \in [Digests -> Rec \cup {NoRec}], NEW new \in [Digests -> Rec \cup {NoRec}],
           NEW d \in Digests, NEW rec \in Rec, NEW S, S \subseteq Present(idx), d \notin S,
           \A e \in S : new[e] = idx[e],
           new[d] = rec, Present(new) = S \cup {d},
           Fits(idx, S, 1, Size[rec.gen])
    PROVE  Fits(new, Present(new), 0, 0)
<1>1. IsFiniteSet(S) /\ IsFiniteSet(S \cup {d}) /\ Cardinality(S) \in Nat
    <2>1. IsFiniteSet(S)
        BY StoreAssumption, FS_Subset DEF Present
    <2>2. QED
        BY <2>1, FS_AddElement, FS_CardinalityType
<1>2. Cardinality(S \cup {d}) = Cardinality(S) + 1
    BY <1>1, FS_AddElement
<1>3. PICK size : size = [e \in S \cup {d} |-> Size[new[e].gen]]
    OBVIOUS
<1>4. \A e \in S \cup {d} : new[e] \in Rec /\ size[e] = Size[new[e].gen] /\ size[e] \in Nat
    <2>1. \A e \in S \cup {d} : new[e] \in Rec
        BY DEF Present
    <2>2. QED
        BY <1>3, <2>1, StoreAssumption DEF Rec
<1>5. Bytes(new, S \cup {d}) = Total(size, S \cup {d})
    BY <1>1, <1>4, BytesIsTotal
<1>6. Bytes(idx, S) = Total(size, S)
    BY <1>1, <1>4, BytesIsTotal
<1>7. Total(size, S \cup {d}) = size[d] + Total(size, (S \cup {d}) \ {d})
    BY <1>1, <1>4, TotalRemove
<1>8. (S \cup {d}) \ {d} = S /\ size[d] = Size[rec.gen]
    BY <1>4
<1>9. Total(size, S) \in Nat /\ Size[rec.gen] \in Nat
    BY <1>1, <1>4, TotalType, StoreAssumption DEF Rec
<1>10. Bytes(new, S \cup {d}) = Bytes(idx, S) + Size[rec.gen] /\ Bytes(idx, S) \in Nat
    <2>1. Total(size, (S \cup {d}) \ {d}) = Total(size, S)
        BY <1>8
    <2>2. QED
        BY <1>5, <1>6, <1>7, <1>8, <1>9, <2>1
<1>11. MaxRecords \in Nat /\ MaxTotalBytes \in Nat
    BY StoreAssumption
<1>12. QED
    BY <1>1, <1>2, <1>9, <1>10, <1>11 DEF Fits

-----------------------------------------------------------------------------
(* Acknowledged puts *)

(***************************************************************************)
(* From admission to commit the records that are to stay, and the new one, *)
(* fit the bounds, and the new one is not among those to be evicted.  No   *)
(* other operation can touch the index in between.                         *)
(***************************************************************************)
RoomMade ==
    op.kind = "put" /\ pc \in {"rename_record", "sync_record"} =>
        /\ op.digest \notin op.victims
        /\ Fits(index, Evictable(op.digest) \ op.victims, 1, Size[op.rec.gen])

BoundsInv == TypeInv /\ RoomMade /\ PutRestoresBounds

\* A new store has nothing under way.
LEMMA BoundsInit == Init => BoundsInv
BY TypeInit DEF Init, BoundsInv, RoomMade, PutRestoresBounds, NoOp

\* The commit leaves what admission had made room for.
LEMMA BoundsCommit ==
    ASSUME BoundsInv, TypeInv', PutCommit
    PROVE  PutRestoresBounds'
<1> DEFINE stay == Evictable(op.digest) \ op.victims
<1>1. op.kind = "put" /\ pc = "sync_record" /\ op.digest \in Digests /\ op.rec \in Rec
    BY DEF BoundsInv, TypeInv, ControlOK, PutCommit
<1>2. op.digest \notin op.victims /\ Fits(index, stay, 1, Size[op.rec.gen])
    BY <1>1 DEF BoundsInv, RoomMade
<1>3. index' = Committed(op.digest, op.rec, op.victims) /\ op' = op
    BY DEF PutCommit, Goto
<1>4. index'[op.digest] = op.rec
    BY <1>1, <1>2, <1>3 DEF Committed
<1>5. \A e \in stay : index'[e] = index[e]
    BY <1>3 DEF Committed, Evictable, Present
<1>6. Present(index') = stay \cup {op.digest}
    <2>1. op.rec # NoRec
        BY <1>1, DistinctAssumption
    <2>2. QED
        BY <1>1, <1>2, <1>3, <2>1 DEF Committed, Evictable, Present
<1>7. index \in [Digests -> Rec \cup {NoRec}] /\ index' \in [Digests -> Rec \cup {NoRec}]
    BY DEF BoundsInv, TypeInv, TypeOK
<1>8. stay \subseteq Present(index) /\ op.digest \notin stay
    BY DEF Evictable
<1> HIDE DEF stay
<1>9. Fits(index', Present(index'), 0, 0)
    BY <1>1, <1>2, <1>4, <1>5, <1>6, <1>7, <1>8, CommitFits
<1>10. QED
    BY <1>3, <1>4, <1>9 DEF PutRestoresBounds

\* Every action of the store preserves the room made by a put under way.
LEMMA BoundsStep == BoundsInv /\ [Next]_vars => BoundsInv'
<1> SUFFICES ASSUME BoundsInv, [Next]_vars PROVE RoomMade' /\ PutRestoresBounds'
    BY TypeStep DEF BoundsInv
<1>1. TypeInv /\ TypeInv'
    BY TypeStep DEF BoundsInv
<1>2. ASSUME op'.kind # "put" PROVE RoomMade' /\ PutRestoresBounds'
    BY <1>2 DEF RoomMade, PutRestoresBounds
<1>3. ASSUME UNCHANGED <<index, op>>, pc' = pc PROVE RoomMade' /\ PutRestoresBounds'
    BY <1>3 DEF BoundsInv, RoomMade, PutRestoresBounds, Evictable
<1>4. CASE \E d \in Digests, g \in Gens : PutBegin(d, g)
    <2> PICK d \in Digests, g \in Gens : PutBegin(d, g)
        BY <1>4
    <2> DEFINE victims == Victims(index, Evictable(d), 1, Size[g])
    <2>1. CASE /\ Fits(index, Evictable(d) \ victims, 1, Size[g])
               /\ Start("put", d, NewRecord(g), victims, "rename_record")
        <3>1. d \notin victims
            BY DEF Victims, Evictable
        <3>2. index' = index
            BY DEF PutBegin, memory
        <3> HIDE DEF victims
        <3>3. op'.digest = d /\ op'.rec = NewRecord(g) /\ op'.victims = victims
              /\ pc' = "rename_record"
            BY <2>1 DEF Start
        <3>4. NewRecord(g).gen = g
            BY DEF NewRecord
        <3>5. Evictable(d)' = Evictable(d)
            BY <3>2 DEF Evictable
        <3>6. Fits(index', Evictable(d)' \ victims, 1, Size[op'.rec.gen])
            BY <2>1, <3>2, <3>3, <3>4, <3>5
        <3>7. Evictable(op.digest)' = Evictable(d)'
            BY <3>3 DEF Evictable
        <3>8. QED
            BY <3>1, <3>3, <3>6, <3>7 DEF RoomMade, PutRestoresBounds
    <2>2. CASE Return("refused")
        BY <1>2, <2>2 DEF Return, NoOp
    <2>3. QED
        BY <2>1, <2>2 DEF PutBegin
<1>5. CASE PutRename
    <2>1. CASE Goto("sync_record")
        <3>1. UNCHANGED <<index, op>> /\ pc = "rename_record" /\ pc' = "sync_record"
            BY <1>5, <2>1 DEF PutRename, Goto, memory
        <3>2. QED
            BY <3>1 DEF BoundsInv, RoomMade, PutRestoresBounds, Evictable
    <2>2. CASE Return("io")
        BY <1>2, <2>2 DEF Return, NoOp
    <2>3. QED
        BY <1>5, <2>1, <2>2 DEF PutRename
<1>6. CASE PutCommit
    <2>1. pc' \in {"rename_meta", "evict"}
        BY <1>6 DEF PutCommit, Goto
    <2>2. QED
        BY <1>1, <1>6, <2>1, BoundsCommit DEF RoomMade
<1>7. CASE PutEvict
    <2>1. /\ index' = index /\ pc = "evict" /\ pc' \in {"rename_meta", "evict"}
          /\ op'.kind = op.kind /\ op'.digest = op.digest /\ op'.rec = op.rec
        BY <1>1, <1>7 DEF PutEvict, memory, TypeInv, TypeOK
    <2>2. QED
        BY <2>1 DEF BoundsInv, RoomMade, PutRestoresBounds
<1>8. CASE PersistMeta
    <2>1. CASE Goto("sync_meta") /\ UNCHANGED <<isOpen, index>>
        <3>1. UNCHANGED <<index, op>> /\ pc = "rename_meta" /\ pc' = "sync_meta"
            BY <1>8, <2>1 DEF PersistMeta, Goto
        <3>2. QED
            BY <3>1 DEF BoundsInv, RoomMade, PutRestoresBounds
    <2>2. CASE Return("io")
        BY <1>2, <2>2 DEF Return, NoOp
    <2>3. QED
        BY <1>8, <2>1, <2>2 DEF PersistMeta
<1>9. CASE SyncMeta
    BY <1>2, <1>9 DEF SyncMeta, Goto, Return, NoOp
<1>10. CASE EnforceDrop
    BY <1>1, <1>2, <1>10 DEF EnforceDrop, Return, NoOp, TypeInv, TypeOK, ControlOK
<1>11. CASE OpenBegin \/ OpenRebuild \/ Close \/ Refuse \/ (\E d \in Digests : EraseBegin(d))
            \/ EnforceBegin \/ VerifyAll \/ ProcessKilled \/ PowerLoss
    BY <1>2, <1>11
       DEF OpenBegin, OpenRebuild, Close, Refuse, EraseBegin, EnforceBegin, VerifyAll,
           ProcessKilled, PowerLoss, MemoryLost, Start, Return, NoOp
<1>12. CASE UNCHANGED vars
    BY <1>3, <1>12 DEF vars, memory
<1>13. QED
    BY <1>4, <1>5, <1>6, <1>7, <1>8, <1>9, <1>10, <1>11, <1>12 DEF Next

(***************************************************************************)
(* Whatever the store held when it was opened, and whatever fails on the   *)
(* way, a put() that gets as far as its commit leaves the index within     *)
(* both bounds and holding the new record.                                 *)
(***************************************************************************)
THEOREM PutsFit == Spec => []PutRestoresBounds
<1>1. Spec => []BoundsInv
    BY BoundsInit, BoundsStep, PTL DEF Spec
<1>2. BoundsInv => PutRestoresBounds
    BY DEF BoundsInv
<1>3. QED
    BY <1>1, <1>2, PTL

-----------------------------------------------------------------------------
(* The refinement of the plan registry *)

\* What put() and erase() have done stays in place until they return.
OpVisible ==
    /\ op.kind = "put" /\ pc # "rename_record" => files[op.digest] = op.rec
    /\ op.kind = "erase" => op.digest \in Digests /\ files[op.digest] = NoRec

\* A record is only evicted once nothing is promised about it, and never in
\* favour of itself.
VictimsReleased ==
    /\ op.kind = "put" => op.digest \notin op.victims
    /\ pc = "evict" => \A e \in op.victims : acked[e] = NoRec

VisibleInv == TypeInv /\ OpVisible /\ VictimsReleased

\* A store that was never opened has no operation under way.
LEMMA VisibleInit == Init => VisibleInv
BY TypeInit DEF Init, NoOp, VisibleInv, OpVisible, VictimsReleased

\* An operation that has returned leaves nothing to keep.
LEMMA IdleIsVisible ==
    ASSUME TypeInv', pc' = "idle"
    PROVE  VisibleInv'
BY DEF TypeInv, ControlOK, VisibleInv, OpVisible, VictimsReleased

\* Every step keeps the work of the operation under way in place.
LEMMA VisibleStep == VisibleInv /\ [Next]_vars => VisibleInv'
<1> SUFFICES ASSUME VisibleInv, [Next]_vars PROVE VisibleInv'
    OBVIOUS
<1>0. TypeInv /\ TypeInv'
    BY TypeStep DEF VisibleInv
<1>1. CASE OpenBegin
    BY <1>0, <1>1, IdleIsVisible
       DEF OpenBegin, Start, Return, VisibleInv, OpVisible, VictimsReleased
<1>2. CASE OpenRebuild
    BY <1>0, <1>2, IdleIsVisible DEF OpenRebuild, Return
<1>3. CASE Close
    BY <1>0, <1>3 DEF Close, Start, VisibleInv, OpVisible, VictimsReleased
<1>4. CASE \E d \in Digests, g \in Gens : PutBegin(d, g)
    <2> PICK d \in Digests, g \in Gens : PutBegin(d, g)
        BY <1>4
    <2> DEFINE victims == Victims(index, Evictable(d), 1, Size[g])
    <2>1. d \notin victims
        BY DEF Victims, Evictable
    <2>2. CASE Return("refused")
        BY <1>0, <2>2, IdleIsVisible DEF Return
    <2>3. CASE Start("put", d, NewRecord(g), victims, "rename_record")
        <3> HIDE DEF victims
        <3> QED BY <1>0, <2>1, <2>3 DEF Start, VisibleInv, OpVisible, VictimsReleased
    <2>4. QED
        BY <2>2, <2>3 DEF PutBegin
<1>5. CASE Refuse
    BY <1>0, <1>5, IdleIsVisible DEF Refuse, Return
<1>6. CASE PutRename
    BY <1>0, <1>6, IdleIsVisible
       DEF PutRename, RenameRecord, Goto, Return, TypeInv, TypeOK, ControlOK,
           VisibleInv, OpVisible, VictimsReleased
<1>7. CASE PutCommit
    <2>1. op' = op /\ op.kind = "put" /\ op.digest \in Digests
        BY <1>0, <1>7 DEF PutCommit, Goto, TypeInv, ControlOK
    <2>2. files' = files /\ pc = "sync_record"
        BY <1>7 DEF PutCommit, SyncDirectory, FlushDirectory, disk
    <2>3. \A e \in op.victims : acked'[e] = NoRec
        BY <1>0, <1>7 DEF PutCommit, TypeInv, TypeOK
    <2>4. QED
        BY <1>0, <2>1, <2>2, <2>3 DEF VisibleInv, OpVisible, VictimsReleased
<1>8. CASE PutEvict
    <2>1. op.kind = "put" /\ op.digest \in Digests /\ op \in Ops
        BY <1>0, <1>8 DEF PutEvict, TypeInv, TypeOK, ControlOK, Ops
    <2> PICK e \in op.victims :
            /\ RemoveRecord(e) \/ UNCHANGED disk
            /\ op' = [op EXCEPT !.victims = @ \ {e}]
        BY <1>8 DEF PutEvict
    <2>2. /\ op'.kind = op.kind /\ op'.digest = op.digest /\ op'.rec = op.rec
          /\ op'.victims = op.victims \ {e}
        BY <2>1 DEF Ops
    <2>3. files'[op.digest] = files[op.digest]
        BY <1>0, <2>1 DEF RemoveRecord, disk, VisibleInv, VictimsReleased, TypeInv, TypeOK
    <2>4. pc = "evict" /\ pc' # "rename_record" /\ acked' = acked
        BY <1>8 DEF PutEvict
    <2>5. QED
        BY <1>0, <2>1, <2>2, <2>3, <2>4 DEF VisibleInv, OpVisible, VictimsReleased
<1>9. CASE \E d \in Digests : EraseBegin(d)
    BY <1>0, <1>9, IdleIsVisible
       DEF EraseBegin, RemoveRecord, Start, Return, TypeInv, TypeOK,
           VisibleInv, OpVisible, VictimsReleased
<1>10. CASE EnforceBegin
    BY <1>0, <1>10 DEF EnforceBegin, Start, VisibleInv, OpVisible, VictimsReleased
<1>11. CASE EnforceDrop
    <2>1. op.kind = "enforce" /\ op \in Ops
        BY <1>0, <1>11 DEF EnforceDrop, TypeInv, TypeOK, ControlOK, Ops
    <2>2. CASE Return("io")
        BY <1>0, <2>2, IdleIsVisible DEF Return
    <2>3. CASE op'.kind = op.kind /\ pc' # "evict"
        BY <1>0, <2>1, <2>3 DEF VisibleInv, OpVisible, VictimsReleased
    <2>4. QED
        BY <1>11, <2>1, <2>2, <2>3 DEF EnforceDrop, Ops
<1>12. CASE VerifyAll
    BY <1>0, <1>12, IdleIsVisible DEF VerifyAll, Return
<1>13. CASE PersistMeta
    BY <1>0, <1>13, IdleIsVisible
       DEF PersistMeta, RenameMeta, Goto, Return, VisibleInv, OpVisible, VictimsReleased
<1>14. CASE SyncMeta
    <2>1. CASE op.kind = "open"
        BY <1>0, <1>14, <2>1
           DEF SyncMeta, Goto, VisibleInv, OpVisible, VictimsReleased
    <2>2. CASE op.kind # "open"
        BY <1>0, <1>14, <2>2, IdleIsVisible DEF SyncMeta, Return
    <2>3. QED
        BY <2>1, <2>2
<1>15. CASE ProcessKilled
    BY <1>0, <1>15, IdleIsVisible DEF ProcessKilled, MemoryLost
<1>16. CASE PowerLoss
    BY <1>0, <1>16, IdleIsVisible DEF PowerLoss, MemoryLost
<1>17. CASE UNCHANGED vars
    BY <1>17 DEF vars, disk, memory, VisibleInv, TypeInv, TypeOK, ControlOK, OpVisible, VictimsReleased
<1>18. QED
    BY <1>1, <1>2, <1>3, <1>4, <1>5, <1>6, <1>7, <1>8, <1>9, <1>10, <1>11, <1>12,
       <1>13, <1>14, <1>15, <1>16, <1>17 DEF Next

-----------------------------------------------------------------------------
(* The steps of the store as steps of the registry *)

\* The names and what they may hold are as they were.
SameRecords == files' = files /\ stable' = stable

\* A step that neither touches a record file nor promises anything is no step of
\* the registry.
LEMMA QuietIsStutter ==
    ASSUME SameRecords, acked' = acked
    PROVE  UNCHANGED Registry!registryVars
BY DEF SameRecords, MayHold, Registry!registryVars

\* A directory flush only decides what was open, and with an honest disk it
\* decides everything that a power loss could leave open.
LEMMA FlushSettles ==
    ASSUME TypeOK, SyncDirectory
    PROVE  /\ files' = files
           /\ \A d \in Digests : MayHold(d)' # {} /\ MayHold(d)' \subseteq MayHold(d)
           /\ HonestDisk => \A d \in Digests : MayHold(d)' = {files[d]}
BY DEF TypeOK, SyncDirectory, FlushDirectory, MayHold, HonestDisk, disk

\* Removing a record file is an eviction or an erasure of the registry, once
\* nothing is promised about it.
LEMMA RemovalDiscards ==
    ASSUME TypeOK, NEW d \in Digests, RemoveRecord(d),
           acked' = [acked EXCEPT ![d] = NoRec]
    PROVE  Registry!Discard(d)
<1>1. MayHold(d)' \subseteq MayHold(d) \cup {NoRec} /\ MayHold(d)' # {}
    BY DEF TypeOK, RemoveRecord, MayHold
<1>2. \A e \in Digests \ {d} : MayHold(e)' = MayHold(e)
    BY DEF TypeOK, RemoveRecord, MayHold
<1>3. acked'[d] = NoRec /\ \A e \in Digests \ {d} : acked'[e] = acked[e]
    BY DEF TypeOK
<1>4. QED
    BY <1>1, <1>2, <1>3 DEF Registry!Discard, Registry!Only

\* Making a record visible is a put of the registry.
LEMMA RenamePuts ==
    ASSUME HonestDisk, TypeOK, NEW d \in Digests, NEW v \in Rec, RenameRecord(d, v),
           acked' = [acked EXCEPT ![d] = IF @ = Erased THEN NoRec ELSE @]
    PROVE  Registry!Put(d)
<1>1. v \in MayHold(d)' /\ MayHold(d)' \subseteq MayHold(d) \cup {v}
    BY DEF TypeOK, RenameRecord, Unflushed, MayHold, HonestDisk
<1>2. \A e \in Digests \ {d} : MayHold(e)' = MayHold(e)
    BY DEF TypeOK, RenameRecord, MayHold
<1>3. /\ acked'[d] = IF acked[d] = Erased THEN NoRec ELSE acked[d]
      /\ \A e \in Digests \ {d} : acked'[e] = acked[e]
    BY DEF TypeOK
<1>4. QED
    BY <1>1, <1>2, <1>3 DEF Registry!Put, Registry!Only

\* Every step of the store is a step of the registry or leaves it alone.
LEMMA StepRefines ==
    ASSUME HonestDisk, VisibleInv, [Next]_vars
    PROVE  [Registry!Next]_(Registry!registryVars)
<1>0. TypeOK /\ ControlOK
    BY DEF VisibleInv, TypeInv
<1>1. CASE \/ OpenBegin \/ OpenRebuild \/ Close \/ Refuse \/ EnforceBegin \/ VerifyAll
           \/ PersistMeta \/ ProcessKilled \/ UNCHANGED vars
    <2>1. SameRecords /\ acked' = acked
        BY <1>1 DEF OpenBegin, OpenRebuild, Close, Refuse, EnforceBegin, VerifyAll, PersistMeta,
           RenameMeta, ProcessKilled, MemoryLost, SameRecords, disk, vars
    <2>2. QED
        BY <2>1, QuietIsStutter
<1>2. CASE \E d \in Digests, g \in Gens : PutBegin(d, g)
    <2>1. SameRecords /\ acked' = acked
        BY <1>2 DEF PutBegin, SameRecords, disk
    <2>2. QED
        BY <2>1, QuietIsStutter
<1>3. CASE PutRename
    <2>1. op.digest \in Digests /\ op.rec \in Rec
        BY <1>0, <1>3 DEF PutRename, ControlOK
    <2>2. CASE UNCHANGED <<disk, acked>>
        BY <2>2, QuietIsStutter DEF SameRecords, disk
    <2>3. CASE ~UNCHANGED <<disk, acked>>
        BY <1>0, <1>3, <2>1, <2>3, RenamePuts DEF PutRename, Registry!Next
    <2>4. QED
        BY <2>2, <2>3
<1>4. CASE PutCommit
    <2>1. \A d \in Digests : MayHold(d)' # {} /\ MayHold(d)' \subseteq MayHold(d)
        BY <1>0, <1>4, FlushSettles DEF PutCommit
    <2>2. \A d \in Digests : acked'[d] \in {acked[d], NoRec}
        BY <1>0, <1>4 DEF PutCommit, TypeOK
    <2>3. QED
        BY <2>1, <2>2 DEF Registry!Next, Registry!Settle
<1>5. CASE PutEvict
    <2> PICK e \in op.victims : RemoveRecord(e) \/ UNCHANGED disk
        BY <1>5 DEF PutEvict
    <2>1. e \in Digests
        BY <1>0 DEF TypeOK
    <2>2. acked' = acked /\ acked[e] = NoRec
        BY <1>5 DEF PutEvict, VisibleInv, VictimsReleased
    <2>3. acked' = [acked EXCEPT ![e] = NoRec]
        BY <1>0, <2>1, <2>2 DEF TypeOK
    <2>4. CASE RemoveRecord(e)
        BY <1>0, <2>1, <2>3, <2>4, RemovalDiscards DEF Registry!Next
    <2>5. CASE UNCHANGED disk
        BY <2>2, <2>5, QuietIsStutter DEF SameRecords, disk
    <2>6. QED
        BY <2>4, <2>5
<1>6. CASE \E d \in Digests : EraseBegin(d)
    <2> PICK d \in Digests : EraseBegin(d)
        BY <1>6
    <2>1. CASE RemoveRecord(d) /\ acked' = [acked EXCEPT ![d] = NoRec]
        BY <1>0, <2>1, RemovalDiscards DEF Registry!Next
    <2>2. CASE UNCHANGED <<disk, acked>>
        BY <2>2, QuietIsStutter DEF SameRecords, disk
    <2>3. QED
        BY <2>1, <2>2 DEF EraseBegin
<1>7. CASE EnforceDrop
    <2>1. CASE \E e \in op.victims : RemoveRecord(e) /\ acked' = [acked EXCEPT ![e] = NoRec]
        BY <1>0, <2>1, RemovalDiscards DEF Registry!Next, TypeOK
    <2>2. CASE UNCHANGED <<disk, acked>>
        BY <2>2, QuietIsStutter DEF SameRecords, disk
    <2>3. QED
        BY <1>7, <2>1, <2>2 DEF EnforceDrop
<1>8. CASE SyncMeta
    <2>1. \A d \in Digests : /\ MayHold(d)' # {} /\ MayHold(d)' \subseteq MayHold(d)
                             /\ MayHold(d)' = {files[d]}
        BY <1>0, <1>8, FlushSettles DEF SyncMeta
    <2>2. \A d \in Digests : \/ acked'[d] = acked[d]
                             \/ acked'[d] \in Rec /\ files[d] = acked'[d]
                             \/ acked'[d] = Erased /\ files[d] = NoRec
        <3>1. CASE op.kind = "put"
            <4>1. op.digest \in Digests /\ op.rec \in Rec /\ files[op.digest] = op.rec
                BY <1>0, <1>8, <3>1 DEF SyncMeta, ControlOK, VisibleInv, OpVisible
            <4>2. acked' = [acked EXCEPT ![op.digest] = op.rec]
                BY <1>8, <3>1 DEF SyncMeta, Acknowledge
            <4>3. QED
                BY <1>0, <4>1, <4>2 DEF TypeOK
        <3>2. CASE op.kind = "erase"
            <4>1. op.digest \in Digests /\ files[op.digest] = NoRec
                BY <3>2 DEF VisibleInv, OpVisible
            <4>2. acked' = [acked EXCEPT ![op.digest] = Erased]
                BY <1>8, <3>2 DEF SyncMeta, Acknowledge
            <4>3. QED
                BY <1>0, <4>1, <4>2 DEF TypeOK
        <3>3. CASE op.kind \notin {"put", "erase"}
            BY <1>8, <3>3 DEF SyncMeta, Acknowledge
        <3>4. QED
            BY <3>1, <3>2, <3>3
    <2>3. QED
        BY <2>1, <2>2 DEF Registry!Next, Registry!Settle
<1>9. CASE PowerLoss
    <2>1. acked' = acked /\ "power" \in Faults
        BY <1>9 DEF PowerLoss, MemoryLost
    <2>2. \A d \in Digests : files'[d] \in stable[d] /\ stable'[d] = {files'[d]}
        BY <1>9 DEF PowerLoss
    <2>3. \A d \in Digests : MayHold(d)' # {} /\ MayHold(d)' \subseteq MayHold(d)
        BY <2>1, <2>2 DEF MayHold
    <2>4. QED
        BY <2>1, <2>3 DEF Registry!Next, Registry!Settle
<1>10. QED
    BY <1>1, <1>2, <1>3, <1>4, <1>5, <1>6, <1>7, <1>8, <1>9 DEF Next

(***************************************************************************)
(* With an honest disk, the store implements the registry: whatever system *)
(* call of put(), erase() or enforce_bounds() a process or the machine     *)
(* fails at, what may be found under a digest changes as the registry      *)
(* allows, and put() and erase() promise only what is already decided.     *)
(***************************************************************************)
THEOREM StoreImplementsRegistry ==
    ASSUME HonestDisk
    PROVE  Spec => ImplementsRegistry
<1>1. Init => Registry!Init
    BY DEF Init, Registry!Init, MayHold
<1>2. VisibleInv /\ [Next]_vars => [Registry!Next]_(Registry!registryVars)
    BY StepRefines
<1>3. QED
    BY <1>1, <1>2, VisibleInit, VisibleStep, PTL DEF Spec, ImplementsRegistry, Registry!Spec

-----------------------------------------------------------------------------
(* What follows for the callers of put() and erase() *)

\* A step of the registry never revives what was erased.
LEMMA RegistryKeepsErased ==
    ASSUME ErasedStaysErased, [Registry!Next]_(Registry!registryVars)
    PROVE  ErasedStaysErased'
<1> SUFFICES ASSUME NEW d \in Digests, acked'[d] = Erased
             PROVE  MayHold(d)' = {NoRec}
    BY DEF ErasedStaysErased
<1>1. CASE \E e \in Digests : Registry!Put(e) \/ Registry!Discard(e)
    BY <1>1, DistinctAssumption
       DEF ErasedStaysErased, Registry!Put, Registry!Discard, Registry!Only
<1>2. CASE Registry!Settle
    BY <1>2, DistinctAssumption DEF ErasedStaysErased, Registry!Settle
<1>3. CASE UNCHANGED Registry!registryVars
    BY <1>3 DEF ErasedStaysErased, Registry!registryVars
<1>4. QED
    BY <1>1, <1>2, <1>3 DEF Registry!Next

\* A step of the registry that brings no record up keeps what was acknowledged.
LEMMA RegistryKeepsAcked ==
    ASSUME TypeOK, TypeOK', AckedSurvives, [Registry!Next]_(Registry!registryVars),
           \A d \in Digests : RecordsOf(d)' \subseteq RecordsOf(d)
    PROVE  AckedSurvives'
<1> SUFFICES ASSUME NEW d \in Digests, acked'[d] \in Rec, NEW v \in MayHold(d)'
             PROVE  v \in Rec /\ v.seq >= acked'[d].seq
    BY DEF AckedSurvives
<1>1. acked'[d].seq >= acked'[d].seq
    BY DEF Rec
<1>2. CASE \E e \in Digests : Registry!Put(e)
    BY <1>2, DistinctAssumption
       DEF AckedSurvives, RecordsOf, Registry!Put, Registry!Only
<1>3. CASE \E e \in Digests : Registry!Discard(e)
    BY <1>3, DistinctAssumption DEF AckedSurvives, Registry!Discard, Registry!Only
<1>4. CASE Registry!Settle
    BY <1>1, <1>4, DistinctAssumption DEF AckedSurvives, Registry!Settle
<1>5. CASE UNCHANGED Registry!registryVars
    BY <1>5 DEF AckedSurvives, Registry!registryVars
<1>6. QED
    BY <1>2, <1>3, <1>4, <1>5 DEF Registry!Next

(***************************************************************************)
(* A record is only newer than the one it replaces if sequence numbers     *)
(* never fall behind an acknowledged one.  They may be handed out twice    *)
(* after a crash, but store.meta is flushed before put() returns, so only  *)
(* numbers nobody was told of are repeated.                                *)
(***************************************************************************)
Behind(n) == \A d \in Digests : acked[d] \in Rec => acked[d].seq <= n

SequenceCovers ==
    /\ \A m \in MetaMayHold : m \in Meta => Behind(m.seq)
    /\ \A m \in MetaMayHold : m \notin Meta => \A d \in Digests : acked[d] \notin Rec
    /\ isOpen \/ op.kind = "open" => Behind(sequence)

\* The record of put() carries the number that becomes the store's.
PutCarriesSequence ==
    /\ op.kind = "put" =>
          op.rec.seq = IF pc \in {"rename_record", "sync_record"} THEN sequence + 1
                       ELSE sequence
    /\ pc = "sync_meta" => meta \in Meta /\ meta.seq = sequence

AckedInv ==
    /\ VisibleInv
    /\ SequenceCovers
    /\ PutCarriesSequence
    /\ AckedSurvives

\* Nothing is acknowledged by a store that was never opened.
LEMMA AckedInit == Init => AckedInv
<1> SUFFICES ASSUME Init PROVE AckedInv
    OBVIOUS
<1>1. \A d \in Digests : acked[d] \notin Rec
    BY DistinctAssumption DEF Init
<1>2. pc = "idle" /\ op.kind = "none"
    BY DEF Init, NoOp
<1>3. QED
    BY <1>1, <1>2, VisibleInit
       DEF AckedInv, SequenceCovers, Behind, PutCarriesSequence, AckedSurvives

\* A step that writes no file, acknowledges nothing and leaves the sequence alone.
LEMMA QuietKeepsSequence ==
    ASSUME SequenceCovers, MetaMayHold' \subseteq MetaMayHold,
           \A d \in Digests : acked'[d] \in Rec => acked'[d] = acked[d],
           isOpen' \/ op'.kind = "open" => sequence' = sequence /\ (isOpen \/ op.kind = "open")
    PROVE  SequenceCovers'
BY DEF SequenceCovers, Behind

\* The sequence of the store covers every number that was acknowledged.
LEMMA SequenceStep ==
    ASSUME HonestDisk, AckedInv, VisibleInv', [Next]_vars
    PROVE  SequenceCovers' /\ PutCarriesSequence'
<1>0. TypeOK /\ ControlOK /\ TypeOK' /\ ControlOK'
    BY DEF AckedInv, VisibleInv, TypeInv
<1> USE DEF AckedInv
<1> DEFINE Quiet == /\ \A d \in Digests : acked'[d] \in Rec => acked'[d] = acked[d]
                    /\ MetaMayHold' \subseteq MetaMayHold
<1>i. ASSUME pc' = "idle" PROVE PutCarriesSequence'
    BY <1>0, <1>i DEF ControlOK, PutCarriesSequence
<1>1. CASE OpenBegin
    <2>1. Quiet /\ ~isOpen' /\ pc' # "sync_meta" /\ op'.kind # "put"
        <3>1. ~isOpen'
            BY <1>1, Zenon DEF OpenBegin
        <3>2. QED
            BY <1>1, <3>1, UnchangedShrinks DEF OpenBegin, Shrinks, Start, Return, NoOp
    <2>2. op'.kind = "open" => Behind(sequence)'
        <3> SUFFICES ASSUME op'.kind = "open", NEW d \in Digests, acked[d] \in Rec
                     PROVE  acked[d].seq <= sequence'
            BY <1>1 DEF OpenBegin, Behind
        <3>1. meta \in MetaMayHold
            BY DEF MetaMayHold
        <3>2. meta \in Meta /\ acked[d].seq <= meta.seq
            BY <3>1 DEF SequenceCovers, Behind
        <3>3. sequence' = meta.seq
            BY <1>1, <3>2, DistinctAssumption DEF OpenBegin, HonestDisk, Return, NoOp
        <3>4. QED
            BY <3>2, <3>3
    <2>3. SequenceCovers'
        BY <2>1, <2>2 DEF SequenceCovers, Behind
    <2>4. QED
        BY <2>1, <2>3 DEF PutCarriesSequence
<1>2. CASE OpenRebuild
    <2>1. op.kind = "open" /\ sequence' = sequence /\ pc' = "idle" /\ Quiet
        BY <1>0, <1>2, UnchangedShrinks DEF OpenRebuild, Shrinks, ControlOK, Return
    <2>2. QED
        BY <1>i, <2>1, QuietKeepsSequence
<1>3. CASE Close \/ EnforceBegin
    <2>1. Quiet /\ sequence' = sequence /\ isOpen /\ op'.kind # "put" /\ pc' # "sync_meta"
        BY <1>3, UnchangedShrinks DEF Close, EnforceBegin, Shrinks, Start, memory
    <2>2. QED
        BY <2>1, QuietKeepsSequence DEF PutCarriesSequence
<1>4. CASE \E d \in Digests, g \in Gens : PutBegin(d, g)
    <2> PICK d \in Digests, g \in Gens : PutBegin(d, g)
        BY <1>4
    <2> DEFINE victims == Victims(index, Evictable(d), 1, Size[g])
    <2>1. Quiet /\ sequence' = sequence /\ isOpen
        BY UnchangedShrinks DEF PutBegin, Shrinks, memory
    <2>2. SequenceCovers'
        BY <2>1, QuietKeepsSequence
    <2>3. \/ Start("put", d, NewRecord(g), victims, "rename_record")
          \/ Return("refused")
        BY DEF PutBegin
    <2>4. PutCarriesSequence'
        <3> HIDE DEF victims
        <3> QED BY <1>i, <2>1, <2>3 DEF Start, Return, NewRecord, PutCarriesSequence
    <2>5. QED
        BY <2>2, <2>4
<1>5. CASE Refuse
    <2>1. Quiet /\ sequence' = sequence /\ isOpen' = isOpen /\ op'.kind # "open" /\ pc' = "idle"
        BY <1>5, UnchangedShrinks DEF Refuse, Shrinks, Return, NoOp, memory
    <2>2. QED
        BY <1>i, <2>1, QuietKeepsSequence
<1>6. CASE PutRename
    <2>1. op.kind = "put" /\ op.digest \in Digests /\ op.rec \in Rec /\ isOpen
        BY <1>0, <1>6 DEF PutRename, ControlOK
    <2>2. sequence' = sequence /\ isOpen' = isOpen
        BY <1>6 DEF PutRename, memory
    <2>3. Quiet
        <3>1. \A d \in Digests : acked'[d] \in Rec => acked'[d] = acked[d]
            BY <1>0, <1>6, <2>1, DistinctAssumption DEF PutRename, TypeOK
        <3>2. MetaMayHold' \subseteq MetaMayHold
            BY <1>6 DEF PutRename, RenameRecord, MetaMayHold, disk
        <3>3. QED
            BY <3>1, <3>2
    <2>4. SequenceCovers'
        BY <2>1, <2>2, <2>3, QuietKeepsSequence
    <2>5. PutCarriesSequence'
        <3>1. CASE Goto("sync_record")
            BY <1>6, <2>2, <3>1 DEF PutRename, Goto, PutCarriesSequence
        <3>2. CASE Return("io")
            BY <1>i, <3>2 DEF Return
        <3>3. QED
            BY <1>6, <3>1, <3>2 DEF PutRename
    <2>6. QED
        BY <2>4, <2>5
<1>7. CASE PutCommit
    <2>1. op.kind = "put" /\ isOpen /\ op' = op /\ pc' \in {"rename_meta", "evict"}
        BY <1>0, <1>7 DEF PutCommit, ControlOK, Goto
    <2>2. sequence' = sequence + 1 /\ sequence' = op.rec.seq /\ sequence \in Nat
        BY <1>0, <1>7, <2>1 DEF PutCommit, PutCarriesSequence, TypeOK
    <2>3. Quiet
        <3>1. \A d \in Digests : acked'[d] \in Rec => acked'[d] = acked[d]
            BY <1>0, <1>7, DistinctAssumption DEF PutCommit
        <3>2. QED
            BY <1>0, <1>7, <3>1, SyncShrinks DEF PutCommit, Shrinks
    <2>4. Behind(sequence)'
        <3>1. \A r \in Rec : r.seq \in Nat
            BY DEF Rec
        <3>2. QED
            BY <2>1, <2>2, <2>3, <3>1 DEF SequenceCovers, Behind
    <2>5. SequenceCovers'
        BY <2>3, <2>4 DEF SequenceCovers, Behind
    <2>6. QED
        BY <2>1, <2>2, <2>5 DEF PutCarriesSequence
<1>8. CASE PutEvict
    <2>1. op.kind = "put" /\ isOpen /\ op \in Ops
        BY <1>0, <1>8 DEF PutEvict, ControlOK, TypeOK, Ops
    <2>2. op'.kind = op.kind /\ op'.rec = op.rec /\ pc = "evict"
        BY <1>8, <2>1 DEF PutEvict, Ops
    <2>3. sequence' = sequence /\ pc' \in {"rename_meta", "evict"} /\ acked' = acked
        BY <1>8 DEF PutEvict, memory
    <2>4. MetaMayHold' = MetaMayHold
        BY <1>8 DEF PutEvict, RemoveRecord, MetaMayHold, disk
    <2>5. SequenceCovers'
        BY <2>1, <2>3, <2>4, QuietKeepsSequence
    <2>6. QED
        BY <2>1, <2>2, <2>3, <2>5 DEF PutCarriesSequence
<1>9. CASE (\E d \in Digests : EraseBegin(d)) \/ EnforceDrop
    <2>1. isOpen /\ isOpen' = isOpen /\ sequence' = sequence
        BY <1>0, <1>9 DEF EraseBegin, EnforceDrop, ControlOK
    <2>2. MetaMayHold' = MetaMayHold
        BY <1>9 DEF EraseBegin, EnforceDrop, RemoveRecord, MetaMayHold, disk
    <2>3. \A d \in Digests : acked'[d] \in Rec => acked'[d] = acked[d]
        BY <1>0, <1>9, DistinctAssumption DEF EraseBegin, EnforceDrop, TypeOK
    <2>4. op'.kind # "put" /\ pc' # "sync_meta"
        <3>1. CASE \E d \in Digests : EraseBegin(d)
            BY <3>1 DEF EraseBegin, Start, Return, NoOp
        <3>2. CASE EnforceDrop
            <4>1. op.kind = "enforce" /\ op \in Ops
                BY <1>0, <3>2 DEF EnforceDrop, ControlOK, TypeOK, Ops
            <4>2. QED
                BY <3>2, <4>1 DEF EnforceDrop, Return, NoOp, Ops
        <3>3. QED
            BY <1>9, <3>1, <3>2
    <2>5. QED
        BY <2>1, <2>2, <2>3, <2>4, QuietKeepsSequence DEF PutCarriesSequence
<1>10. CASE VerifyAll
    <2>1. Quiet /\ sequence' = sequence /\ isOpen /\ pc' = "idle"
        BY <1>10, UnchangedShrinks DEF VerifyAll, Shrinks, Return
    <2>2. QED
        BY <1>i, <2>1, QuietKeepsSequence
<1>11. CASE PersistMeta
    <2>1. sequence' = sequence /\ acked' = acked /\ Behind(sequence)
        <3>1. isOpen \/ op.kind = "open"
            BY <1>0, <1>11 DEF PersistMeta, ControlOK, TypeOK, OpKinds
        <3>2. QED
            BY <1>11, <3>1 DEF PersistMeta, SequenceCovers
    <2>2. CASE RenameMeta([inc |-> incarnation, seq |-> sequence]) /\ Goto("sync_meta")
        <3> DEFINE m == [inc |-> incarnation, seq |-> sequence]
        <3>1. m \in Meta /\ m.seq = sequence
            BY <1>0 DEF TypeOK, Meta
        <3>2. meta' = m /\ MetaMayHold' \subseteq MetaMayHold \cup {m}
            BY <1>0, <2>2, RenameMetaAdds
        <3> HIDE DEF m
        <3>3. SequenceCovers'
            BY <2>1, <3>1, <3>2 DEF SequenceCovers, Behind
        <3>4. PutCarriesSequence'
            BY <1>11, <2>1, <2>2, <3>1, <3>2 DEF PersistMeta, Goto, PutCarriesSequence
        <3>5. QED
            BY <3>3, <3>4
    <2>3. CASE Return("io") /\ UNCHANGED disk
        <3>1. Quiet
            BY <2>1, <2>3, UnchangedShrinks DEF Shrinks
        <3>2. SequenceCovers'
            BY <2>1, <3>1 DEF SequenceCovers, Behind
        <3>3. QED
            BY <1>i, <2>3, <3>2 DEF Return
    <2>4. QED
        BY <1>11, <2>2, <2>3 DEF PersistMeta
<1>12. CASE SyncMeta
    <2>1. sequence' = sequence /\ meta' = meta /\ meta \in Meta /\ meta.seq = sequence
        BY <1>12 DEF SyncMeta, SyncDirectory, FlushDirectory, disk, PutCarriesSequence
    <2>2. MetaMayHold' = {meta}
        BY <1>12, <2>1 DEF SyncMeta, SyncDirectory, FlushDirectory, disk, MetaMayHold, HonestDisk
    <2>3. Behind(sequence)'
        <3>1. Behind(sequence)
            <4>1. isOpen \/ op.kind = "open"
                BY <1>0, <1>12 DEF SyncMeta, ControlOK, TypeOK, OpKinds
            <4>2. QED
                BY <4>1 DEF SequenceCovers
        <3>2. CASE op.kind = "put"
            <4>1. op.rec.seq = sequence /\ sequence <= sequence /\ op.digest \in Digests
                BY <1>0, <1>12, <3>2 DEF SyncMeta, PutCarriesSequence, TypeOK, ControlOK
            <4>2. acked' = [acked EXCEPT ![op.digest] = op.rec]
                BY <1>12, <3>2 DEF SyncMeta, Acknowledge
            <4>3. QED
                BY <1>0, <2>1, <3>1, <4>1, <4>2 DEF Behind, TypeOK
        <3>3. CASE op.kind # "put"
            <4>1. \A d \in Digests : acked'[d] \in Rec => acked'[d] = acked[d]
                BY <1>0, <1>12, <3>3, DistinctAssumption DEF SyncMeta, Acknowledge, TypeOK
            <4>2. QED
                BY <2>1, <3>1, <4>1 DEF Behind
        <3>4. QED
            BY <3>2, <3>3
    <2>4. SequenceCovers'
        BY <2>1, <2>2, <2>3 DEF SequenceCovers
    <2>5. PutCarriesSequence'
        <3>1. CASE op.kind = "open"
            BY <1>12, <3>1 DEF SyncMeta, Goto, PutCarriesSequence
        <3>2. CASE op.kind # "open"
            BY <1>i, <1>12, <3>2 DEF SyncMeta, Return
        <3>3. QED
            BY <3>1, <3>2
    <2>6. QED
        BY <2>4, <2>5
<1>13. CASE ProcessKilled \/ PowerLoss
    <2>1. acked' = acked /\ ~isOpen' /\ op'.kind # "open" /\ pc' = "idle"
        <3>1. ~isOpen'
            BY <1>13, Zenon DEF ProcessKilled, PowerLoss, MemoryLost
        <3>2. QED
            BY <1>13, <3>1 DEF ProcessKilled, PowerLoss, MemoryLost, NoOp
    <2>2. MetaMayHold' \subseteq MetaMayHold
        BY <1>0, <1>13, UnchangedShrinks, PowerLossShrinks DEF ProcessKilled, Shrinks
    <2>3. QED
        BY <1>i, <2>1, <2>2, QuietKeepsSequence
<1>14. CASE UNCHANGED vars
    BY <1>14 DEF vars, disk, memory, SequenceCovers, Behind, PutCarriesSequence, MetaMayHold
<1>15. QED
    BY <1>1, <1>2, <1>3, <1>4, <1>5, <1>6, <1>7, <1>8, <1>9, <1>10, <1>11, <1>12,
       <1>13, <1>14 DEF Next

\* Every step keeps what was acknowledged; only put() makes a record possible that
\* was not, and its number is above all that were acknowledged.
LEMMA AckedStep ==
    ASSUME HonestDisk, AckedInv, [Next]_vars
    PROVE  AckedInv'
<1>1. VisibleInv'
    BY VisibleStep DEF AckedInv
<1>2. TypeOK /\ ControlOK /\ TypeOK'
    BY <1>1 DEF AckedInv, VisibleInv, TypeInv
<1>3. SequenceCovers' /\ PutCarriesSequence'
    BY <1>1, SequenceStep
<1>4. [Registry!Next]_(Registry!registryVars)
    BY StepRefines DEF AckedInv
<1>5. AckedSurvives'
    <2>1. CASE PutRename
        <3>1. /\ op.kind = "put" /\ op.digest \in Digests /\ op.rec \in Rec /\ isOpen
              /\ op.rec.seq = sequence + 1 /\ sequence \in Nat
            BY <1>2, <2>1 DEF PutRename, ControlOK, AckedInv, PutCarriesSequence, TypeOK
        <3>2. \A e \in Digests : acked[e] \in Rec => op.rec.seq >= acked[e].seq
            <4>1. \A r \in Rec : r.seq \in Nat
                BY DEF Rec
            <4>2. QED
                BY <3>1, <4>1 DEF AckedInv, SequenceCovers, Behind
        <3>3. CASE UNCHANGED <<disk, acked>>
            BY <3>3 DEF disk, AckedInv, AckedSurvives, MayHold
        <3>4. CASE RenameRecord(op.digest, op.rec)
            <4>1. \A e \in Digests : MayHold(e)' \subseteq MayHold(e) \cup {op.rec}
                BY <1>2, <3>1, <3>4 DEF TypeOK, RenameRecord, Unflushed, MayHold, HonestDisk
            <4>2. \A e \in Digests : acked'[e] \in Rec => acked'[e] = acked[e]
                BY <1>2, <2>1, <3>1, DistinctAssumption DEF PutRename, TypeOK
            <4>3. QED
                BY <3>1, <3>2, <4>1, <4>2 DEF AckedInv, AckedSurvives
        <3>5. QED
            BY <2>1, <3>3, <3>4 DEF PutRename
    <2>2. CASE ~PutRename
        <3>1. \A d \in Digests : RecordsOf(d)' \subseteq RecordsOf(d)
            <4>1. CASE \/ OpenBegin \/ OpenRebuild \/ Close \/ Refuse \/ EnforceBegin \/ VerifyAll
                       \/ ProcessKilled \/ UNCHANGED vars
                <5>1. UNCHANGED disk
                    BY <4>1 DEF OpenBegin, OpenRebuild, Close, Refuse, EnforceBegin, VerifyAll,
                       ProcessKilled, vars
                <5>2. QED
                    BY <5>1, UnchangedShrinks DEF Shrinks
            <4>2. CASE \E d \in Digests, g \in Gens : PutBegin(d, g)
                BY <4>2, UnchangedShrinks DEF PutBegin, Shrinks
            <4>3. CASE PutCommit \/ SyncMeta
                BY <1>2, <4>3, SyncShrinks DEF PutCommit, SyncMeta, Shrinks
            <4>4. CASE PutEvict
                BY <1>2, <4>4, UnchangedShrinks, RemoveShrinks DEF PutEvict, Shrinks, TypeOK
            <4>5. CASE \E d \in Digests : EraseBegin(d)
                BY <1>2, <4>5, UnchangedShrinks, RemoveShrinks DEF EraseBegin, Shrinks
            <4>6. CASE EnforceDrop
                BY <1>2, <4>6, UnchangedShrinks, RemoveShrinks DEF EnforceDrop, Shrinks, TypeOK
            <4>7. CASE PersistMeta
                BY <4>7 DEF PersistMeta, RenameMeta, RecordsOf, MayHold, disk
            <4>8. CASE PowerLoss
                BY <1>2, <4>8, PowerLossShrinks DEF Shrinks
            <4>9. QED
                BY <2>2, <4>1, <4>2, <4>3, <4>4, <4>5, <4>6, <4>7, <4>8 DEF Next
        <3>2. QED
            BY <1>2, <1>4, <3>1, RegistryKeepsAcked DEF AckedInv
    <2>3. QED
        BY <2>1, <2>2
<1>6. QED
    BY <1>1, <1>3, <1>5 DEF AckedInv

(***************************************************************************)
(* With an honest disk, a record that put() acknowledged is neither lost   *)
(* nor torn nor rolled back by a killed process or a power loss, however   *)
(* many records, bounds and failures there are.                            *)
(***************************************************************************)
THEOREM AckedIsDurable ==
    ASSUME HonestDisk
    PROVE  Spec => []AckedSurvives
<1>1. AckedInv /\ [Next]_vars => AckedInv'
    BY AckedStep
<1>2. AckedInv => AckedSurvives
    BY DEF AckedInv
<1>3. QED
    BY <1>1, <1>2, AckedInit, PTL DEF Spec

(***************************************************************************)
(* With an honest disk, a record whose erasure was acknowledged does not   *)
(* come back: a consequence of the refinement alone.                       *)
(***************************************************************************)
THEOREM ErasedIsDurable ==
    ASSUME HonestDisk
    PROVE  Spec => []ErasedStaysErased
<1>1. Init => ErasedStaysErased
    BY DistinctAssumption DEF Init, ErasedStaysErased
<1>2. ErasedStaysErased /\ [Registry!Next]_(Registry!registryVars) => ErasedStaysErased'
    BY RegistryKeepsErased
<1>3. Spec => [][Registry!Next]_(Registry!registryVars)
    BY StoreImplementsRegistry, PTL DEF ImplementsRegistry, Registry!Spec
<1>4. Spec => Init
    BY DEF Spec
<1>5. QED
    BY <1>1, <1>2, <1>3, <1>4, PTL
=============================================================================
