------------------------ MODULE SnapshotStoreProofs ------------------------
(***************************************************************************)
(* Proofs about SnapshotStore, for any writers, instances and snapshots,   *)
(* with or without overlap and with any number of faults.                  *)
(***************************************************************************)
EXTENDS SnapshotStore, TLAPS

-----------------------------------------------------------------------------
(* The inductive invariant. *)

(* The registry's past: documents are ordered by generation, epochs never go
   back, and a snapshot is committed by one document only. *)
Ordered ==
    /\ registry \in hist
    /\ Absent \in hist
    /\ \A d \in hist :
         /\ d.generation <= registry.generation
         /\ d.writer_epoch <= registry.writer_epoch
         /\ d.generation = registry.generation => d = registry
         /\ d.latest.id = NoSnapshot => d.latest = NoEntry
         /\ d.writer_instance_id \in Instances => d.writer_epoch > 0

(* Every committed snapshot was captured and uploaded. *)
Durable ==
    \A d \in hist : d.latest.id \in Snapshots =>
        blobs[d.latest.id] # NoTag /\ content[d.latest.id] # {}

(* What a writer's local variables say about the domain. *)
Local(w) ==
    /\ cur[w] \in hist /\ base[w] \in hist /\ receipt[w] \in hist
    /\ lease[w] <= registry.writer_epoch
    /\ pc[w] \in {"off", "acquire", "acquireCas"} => snap[w] = NoSnapshot
    /\ snap[w] \in Snapshots => content[snap[w]] # {}
    /\ pc[w] \in PersistPhases => snap[w] \in Snapshots
    /\ pc[w] \in PersistPhases \ {"read"} =>
         base[w].generation <= cur[w].generation /\ LeaseCurrent(cur[w], w)
    /\ pc[w] \in {"upload", "cas"} => cur[w].latest.id # snap[w]
    /\ pc[w] = "cas" => blobs[snap[w]] # NoTag
    /\ pc[w] = "record" => receipt[w].latest.id = snap[w]

(* An epoch is one writer's. *)
OneWriter ==
    \A v, w \in Writers : lease[v] = lease[w] /\ lease[v] # 0 => v = w

(* If the close of the present owner is committed, it still is the latest. *)
Settled ==
    \A w \in Writers : \A d \in hist :
        /\ snap[w] \in Snapshots
        /\ d.latest.id = snap[w]
        /\ lease[w] = registry.writer_epoch
        => registry.latest.id = snap[w]

(* A document that may follow the present registry. *)
NewWriterDoc(doc) == \E i \in Instances : doc = with_new_writer(registry, i)

NewCommitDoc(doc) ==
    \E s \in Snapshots :
        /\ registry.writer_instance_id \in Instances
        /\ doc = with_committed_snapshot(registry, registry.writer_epoch,
                     registry.writer_instance_id,
                     [id |-> s, version |-> registry.latest.version + 1])
        /\ blobs[s] # NoTag
        /\ content[s] # {}
        /\ \A d \in hist : d.latest.id # s
        /\ \A v \in Writers :
             lease[v] = registry.writer_epoch /\ snap[v] \in Snapshots
                => snap[v] # registry.latest.id

MayFollow(doc) == NewWriterDoc(doc) \/ NewCommitDoc(doc)

(* A put that was thought lost is harmless: stale, or still right. *)
LateIsSafe ==
    \A put \in inflight :
        put.expected \in hist /\ (put.expected = registry => MayFollow(put.doc))

Acknowledged == \A s \in acked : \E d \in hist : d.latest.id = s

IndInv ==
    /\ TypeOK
    /\ Ordered
    /\ CommittedOnce
    /\ Durable
    /\ \A w \in Writers : Local(w)
    /\ OneWriter
    /\ Settled
    /\ LateIsSafe
    /\ RecordsAreTrue
    /\ Acknowledged

-----------------------------------------------------------------------------
(* The documents the writers put. *)

LEMMA AbsentType == Absent \in RegistryDoc /\ NoTag \in Tag
  BY DEF Absent, RegistryDoc, NoEntry, Entry, NoTag, Tag

(* The documents that acquire_writer and persist write are registry documents. *)
LEMMA DocTypes ==
  ASSUME TypeOK, NEW w \in Writers
  PROVE  /\ AcquireDoc(w) \in RegistryDoc
         /\ snap[w] \in Snapshots => CommitDoc(w) \in RegistryDoc
         /\ CasBase(w) \in RegistryDoc
         /\ OwnerTag(w) \in Tag
  BY InstanceOfAssumption
     DEF TypeOK, AcquireDoc, CommitDoc, CasBase, OwnerTag, Tag, RegistryDoc, Entry,
         with_new_writer, with_committed_snapshot

(* acquire_writer puts a document that may follow the one it read. *)
LEMMA AcquireIsSafe ==
  ASSUME IndInv, NEW w \in Writers, registry = cur[w]
  PROVE  MayFollow(AcquireDoc(w))
  BY InstanceOfAssumption DEF AcquireDoc, MayFollow, NewWriterDoc

(* persist's If-Match on its base is enough: when it holds, nothing was written
   since persist read the registry, the lease is current and the snapshot was
   never committed. *)
LEMMA CommitIsSafe ==
  ASSUME IndInv, NEW w \in Writers, pc[w] = "cas", registry = CasBase(w)
  PROVE  MayFollow(CommitDoc(w))
<1> USE DEF IndInv
<1>1. Local(w) /\ snap[w] \in Snapshots
  BY DEF Local, PersistPhases
<1>2. /\ cur[w] \in hist /\ base[w].generation <= cur[w].generation
      /\ LeaseCurrent(cur[w], w) /\ cur[w].latest.id # snap[w]
      /\ blobs[snap[w]] # NoTag /\ content[snap[w]] # {}
  BY <1>1 DEF Local, PersistPhases
<1>3. cur[w] = registry
  <2>1. CASE base[w] = Absent
    BY <2>1 DEF CasBase
  <2>2. CASE base[w] # Absent
    <3>1. base[w] = registry
      BY <2>2 DEF CasBase
    <3>2. cur[w].generation <= registry.generation
      BY <1>2 DEF Ordered
    <3>3. cur[w].generation \in Nat /\ registry.generation \in Nat
      BY DEF TypeOK, RegistryDoc
    <3>4. cur[w].generation = registry.generation
      BY <1>2, <3>1, <3>2, <3>3
    <3> QED
      BY <1>2, <3>4 DEF Ordered
  <2> QED
    BY <2>1, <2>2
<1>4. /\ registry.writer_epoch = lease[w]
      /\ registry.writer_instance_id = InstanceOf[w]
      /\ InstanceOf[w] \in Instances
  BY <1>2, <1>3, InstanceOfAssumption DEF LeaseCurrent
<1>5. lease[w] # 0
  BY <1>4 DEF Ordered, TypeOK, RegistryDoc
<1>6. \A d \in hist : d.latest.id # snap[w]
  BY <1>1, <1>2, <1>3, <1>4 DEF Settled
<1>7. ASSUME NEW v \in Writers, lease[v] = registry.writer_epoch, snap[v] \in Snapshots
      PROVE  snap[v] # registry.latest.id
  BY <1>2, <1>3, <1>4, <1>5, <1>7 DEF OneWriter
<1>8. CommitDoc(w) =
        with_committed_snapshot(registry, registry.writer_epoch,
            registry.writer_instance_id,
            [id |-> snap[w], version |-> registry.latest.version + 1])
  BY <1>3, <1>4 DEF CommitDoc
<1> QED
  BY <1>1, <1>2, <1>4, <1>6, <1>7, <1>8 DEF MayFollow, NewCommitDoc

-----------------------------------------------------------------------------
(* Type correctness. *)

LEMMA PutTypes ==
  ASSUME NEW e \in RegistryDoc, NEW d \in RegistryDoc, TypeOK
  PROVE  /\ PutRegistry(e, d) => registry' \in RegistryDoc /\ hist' \in SUBSET RegistryDoc
         /\ PutUnanswered(e, d) => /\ registry' \in RegistryDoc
                                   /\ hist' \in SUBSET RegistryDoc
                                   /\ inflight' \in SUBSET Put
  BY DEF PutRegistry, PutUnanswered, TypeOK, Put

LEMMA GotoType ==
  ASSUME TypeOK, NEW w \in Writers, NEW phase \in Phases, Goto(w, phase)
  PROVE  pc' \in [Writers -> Phases]
  BY DEF TypeOK, Goto

LEMMA FaultType == TypeOK /\ Fault => faults' \in 0 .. MaxFaults
  BY MaxFaultsAssumption DEF TypeOK, Fault

(* A validated receipt is a base of the right type, and acknowledges a snapshot. *)
LEMMA ReceiptTypes ==
  ASSUME TypeOK, NEW w \in Writers, snap[w] \in Snapshots,
         NEW etag \in RegistryDoc, ReturnReceipt(w, etag)
  PROVE  /\ pc' \in [Writers -> Phases]
         /\ base' \in [Writers -> RegistryDoc]
         /\ acked' \in SUBSET Snapshots
  BY DEF TypeOK, ReturnReceipt, Goto, Phases

(* A step of any writer, or a late put, keeps the types. *)
LEMMA TypeStep == IndInv /\ [Next]_vars => TypeOK'
<1> SUFFICES ASSUME IndInv, [Next]_vars PROVE TypeOK'
  OBVIOUS
<1> TypeOK
  BY DEF IndInv
<1> USE DEF Phases, PersistPhases
<1>1. CASE UNCHANGED vars
  BY <1>1 DEF TypeOK, vars, bucket
<1>2. CASE Land
  <2>1. PICK put \in inflight :
           /\ PutRegistry(put.expected, put.doc)
           /\ inflight' = inflight \ {put}
           /\ UNCHANGED <<blobs, records, pc, restored, lease, base, cur, snap,
                          receipt, files, content, acked, faults>>
    BY <1>2 DEF Land
  <2>2. put.expected \in RegistryDoc /\ put.doc \in RegistryDoc
    BY DEF TypeOK, Put
  <2>3. registry' \in RegistryDoc /\ hist' \in SUBSET RegistryDoc
    BY <2>1, <2>2, PutTypes
  <2> QED
    BY <2>1, <2>3 DEF TypeOK
<1>3. ASSUME NEW w \in Writers, Step(w) PROVE TypeOK'
  <2> USE InstanceOfAssumption
  <2>0. pc[w] \in PersistPhases => snap[w] \in Snapshots
    BY DEF IndInv, Local
  <2>1. CASE Start(w)
    <3>1. registry.latest # NoEntry => content[registry.latest.id] \in SUBSET Snapshots
      BY DEF IndInv, Ordered, TypeOK, RegistryDoc, Entry
    <3>2. files' \in [Instances -> SUBSET Snapshots]
      BY <2>1, <3>1 DEF Start, TypeOK
    <3>3. restored' \in [Writers -> BOOLEAN]
      BY <2>1 DEF Start, TypeOK
    <3> QED
      BY <2>1, <3>2, <3>3, GotoType DEF Start, TypeOK, bucket
  <2>2. CASE AcquireRead(w)
    BY <2>2, GotoType DEF AcquireRead, TypeOK, bucket
  <2>3. CASE Acquire(w)
    <3>1. registry' \in RegistryDoc /\ hist' \in SUBSET RegistryDoc
      BY <2>3, PutTypes, DocTypes DEF Acquire, TypeOK
    <3>2. /\ lease' \in [Writers -> Nat]
          /\ base' \in [Writers -> RegistryDoc]
      BY <2>3, DocTypes, AbsentType DEF Acquire, TypeOK, RegistryDoc
    <3> QED
      BY <2>3, <3>1, <3>2, GotoType DEF Acquire, TypeOK
  <2>4. CASE AcquireRejected(w)
    BY <2>4, GotoType DEF AcquireRejected, AcquireErrorPhase, TypeOK, bucket
  <2>5. CASE AcquireUnanswered(w)
    <3>1. /\ registry' \in RegistryDoc /\ hist' \in SUBSET RegistryDoc
          /\ inflight' \in SUBSET Put
      BY <2>5, PutTypes, DocTypes DEF AcquireUnanswered, TypeOK
    <3> QED
      BY <2>5, <3>1, FaultType, GotoType DEF AcquireUnanswered, AcquireErrorPhase, TypeOK
  <2>6. CASE AcquireRepeated(w)
    <3>1. registry' \in RegistryDoc /\ hist' \in SUBSET RegistryDoc
      BY <2>6, PutTypes, DocTypes DEF AcquireRepeated, TypeOK
    <3> QED
      BY <2>6, <3>1, FaultType, GotoType DEF AcquireRepeated, TypeOK
  <2>7. CASE BeginClose(w)
    BY <2>7, GotoType DEF BeginClose, TypeOK, bucket
  <2>8. CASE PersistRead(w)
    BY <2>8, GotoType DEF PersistRead, TypeOK, bucket
  <2>9. CASE PersistCheck(w)
    <3>1. snap[w] \in Snapshots
      BY <2>0, <2>9 DEF PersistCheck
    <3>2. records[snap[w]] \in RegistryDoc /\ cur[w] \in RegistryDoc
      BY <3>1 DEF TypeOK
    <3>3. /\ pc' \in [Writers -> Phases] /\ base' \in [Writers -> RegistryDoc]
          /\ acked' \in SUBSET Snapshots /\ receipt' \in [Writers -> RegistryDoc]
      <4>1. CASE ReturnReceipt(w, records[snap[w]]) /\ UNCHANGED receipt
        BY <3>1, <3>2, <4>1, ReceiptTypes DEF TypeOK
      <4>2. CASE ~(ReturnReceipt(w, records[snap[w]]) /\ UNCHANGED receipt)
        BY <2>9, <3>2, <4>2, GotoType DEF PersistCheck, TypeOK
      <4> QED
        BY <4>1, <4>2
    <3> QED
      BY <2>9, <3>3 DEF PersistCheck, TypeOK, bucket
  <2>10. CASE Upload(w)
    <3>1. blobs' \in [Snapshots -> Tag]
      BY <2>0, <2>10, DocTypes DEF Upload, TypeOK
    <3> QED
      BY <2>10, <3>1, GotoType DEF Upload, TypeOK
  <2>11. CASE UploadUnanswered(w)
    <3>1. blobs' \in [Snapshots -> Tag]
      BY <2>0, <2>11, DocTypes DEF UploadUnanswered, TypeOK
    <3> QED
      BY <2>11, <3>1, FaultType, GotoType DEF UploadUnanswered, TypeOK
  <2>12. CASE Commit(w)
    <3>1. CommitDoc(w) \in RegistryDoc /\ CasBase(w) \in RegistryDoc
      BY <2>0, <2>12, DocTypes DEF Commit
    <3>2. registry' \in RegistryDoc /\ hist' \in SUBSET RegistryDoc
      BY <2>12, <3>1, PutTypes DEF Commit
    <3> QED
      BY <2>12, <3>1, <3>2, GotoType DEF Commit, TypeOK
  <2>13. CASE CommitRejected(w)
    BY <2>13, GotoType DEF CommitRejected, TypeOK, bucket
  <2>14. CASE CommitUnanswered(w)
    <3>1. CommitDoc(w) \in RegistryDoc /\ CasBase(w) \in RegistryDoc
      BY <2>0, <2>14, DocTypes DEF CommitUnanswered
    <3>2. /\ registry' \in RegistryDoc /\ hist' \in SUBSET RegistryDoc
          /\ inflight' \in SUBSET Put
      BY <2>14, <3>1, PutTypes DEF CommitUnanswered
    <3> QED
      BY <2>14, <3>2, FaultType, GotoType DEF CommitUnanswered, TypeOK
  <2>15. CASE CommitRepeated(w)
    <3>1. CommitDoc(w) \in RegistryDoc /\ CasBase(w) \in RegistryDoc
      BY <2>0, <2>15, DocTypes DEF CommitRepeated
    <3>2. registry' \in RegistryDoc /\ hist' \in SUBSET RegistryDoc
      BY <2>15, <3>1, PutTypes DEF CommitRepeated
    <3> QED
      BY <2>15, <3>2, FaultType, GotoType DEF CommitRepeated, TypeOK
  <2>16. CASE Reconcile(w)
    BY <2>16, GotoType DEF Reconcile, TypeOK, bucket
  <2>17. CASE WriteRecord(w)
    <3>1. snap[w] \in Snapshots /\ receipt[w] \in RegistryDoc
      BY <2>0, <2>17 DEF WriteRecord, TypeOK
    <3>2. /\ pc' \in [Writers -> Phases] /\ base' \in [Writers -> RegistryDoc]
          /\ acked' \in SUBSET Snapshots
      <4>1. CASE ReturnReceipt(w, receipt[w])
        BY <3>1, <4>1, ReceiptTypes
      <4>2. CASE ~ReturnReceipt(w, receipt[w])
        BY <2>17, <4>2, GotoType DEF WriteRecord, TypeOK
      <4> QED
        BY <4>1, <4>2
    <3>3. records' \in [Snapshots -> RegistryDoc]
      BY <2>17, <3>1 DEF WriteRecord, TypeOK
    <3> QED
      BY <2>17, <3>2, <3>3 DEF WriteRecord, TypeOK
  <2>18. CASE WriteRecordUnanswered(w)
    <3>1. records' \in [Snapshots -> RegistryDoc]
      BY <2>0, <2>18 DEF WriteRecordUnanswered, TypeOK
    <3> QED
      BY <2>18, <3>1, FaultType, GotoType DEF WriteRecordUnanswered, TypeOK
  <2>19. CASE GiveUp(w)
    BY <2>19, GotoType DEF GiveUp, TypeOK, bucket
  <2>20. CASE Stop(w)
    BY <2>20, GotoType DEF Stop, TypeOK, bucket
  <2> QED
    BY <1>3, <2>1, <2>2, <2>3, <2>4, <2>5, <2>6, <2>7, <2>8, <2>9, <2>10, <2>11, <2>12,
       <2>13, <2>14, <2>15, <2>16, <2>17, <2>18, <2>19, <2>20 DEF Step
<1> QED
  BY <1>1, <1>2, <1>3 DEF Next

-----------------------------------------------------------------------------
(* How a step may change the registry. *)

Advance(doc) == MayFollow(doc) /\ registry' = doc /\ hist' = hist \cup {doc}

(* Every change of the registry, a late put's included, puts a document that may
   follow the present one. *)
LEMMA RegistryStep ==
  ASSUME IndInv, Next
  PROVE  \/ UNCHANGED <<registry, hist>>
         \/ \E doc \in RegistryDoc : Advance(doc)
<1> TypeOK
  BY DEF IndInv
<1>1. CASE Land
  <2>1. PICK put \in inflight : PutRegistry(put.expected, put.doc)
    BY <1>1 DEF Land
  <2>2. MayFollow(put.doc) /\ put.doc \in RegistryDoc
    BY <2>1 DEF PutRegistry, IndInv, LateIsSafe, TypeOK, Put
  <2> QED
    BY <2>1, <2>2 DEF PutRegistry, Advance
<1>2. ASSUME NEW w \in Writers, Step(w)
      PROVE  \/ UNCHANGED <<registry, hist>>
             \/ \E doc \in RegistryDoc : Advance(doc)
  <2>1. CASE PutRegistry(cur[w], AcquireDoc(w))
    BY <2>1, AcquireIsSafe, DocTypes DEF PutRegistry, Advance
  <2>2. CASE pc[w] = "cas" /\ PutRegistry(CasBase(w), CommitDoc(w))
    <3>1. snap[w] \in Snapshots
      BY <2>2 DEF IndInv, Local, PersistPhases
    <3> QED
      BY <2>2, <3>1, CommitIsSafe, DocTypes DEF PutRegistry, Advance
  <2>3. CASE /\ ~PutRegistry(cur[w], AcquireDoc(w))
             /\ ~(pc[w] = "cas" /\ PutRegistry(CasBase(w), CommitDoc(w)))
    BY <1>2, <2>3
       DEF Step, Start, AcquireRead, Acquire, AcquireRejected, AcquireUnanswered,
           AcquireRepeated, BeginClose, PersistRead, PersistCheck, Upload,
           UploadUnanswered, Commit, CommitRejected, CommitUnanswered, CommitRepeated,
           Reconcile, WriteRecord, WriteRecordUnanswered, GiveUp, Stop, PutUnanswered,
           bucket
  <2> QED
    BY <2>1, <2>2, <2>3
<1> QED
  BY <1>1, <1>2 DEF Next

(* The document that follows is newer than every one before it. *)
LEMMA AdvanceIsNewer ==
  ASSUME IndInv, NEW doc \in RegistryDoc, Advance(doc)
  PROVE  /\ doc.generation = registry.generation + 1
         /\ registry.writer_epoch <= doc.writer_epoch
         /\ \A d \in hist : d # doc /\ d.generation < doc.generation
         /\ doc.writer_epoch > 0
         /\ doc.latest.id = NoSnapshot => doc.latest = NoEntry
<1> USE DEF IndInv
<1>1. registry \in RegistryDoc /\ registry \in hist /\ hist \subseteq RegistryDoc
  BY DEF TypeOK, Ordered
<1>2. CASE NewWriterDoc(doc)
  BY <1>1, <1>2 DEF NewWriterDoc, with_new_writer, Ordered, RegistryDoc
<1>3. CASE NewCommitDoc(doc)
  BY <1>1, <1>3, NoneAssumption
     DEF NewCommitDoc, with_committed_snapshot, Ordered, RegistryDoc
<1> QED
  BY <1>2, <1>3 DEF Advance, MayFollow

LEMMA OrderedStep == IndInv /\ Next => Ordered' /\ CommittedOnce'
<1> SUFFICES ASSUME IndInv, Next PROVE Ordered' /\ CommittedOnce'
  OBVIOUS
<1> USE DEF IndInv
<1>1. CASE UNCHANGED <<registry, hist>>
  BY <1>1 DEF Ordered, CommittedOnce
<1>2. ASSUME NEW doc \in RegistryDoc, Advance(doc) PROVE Ordered' /\ CommittedOnce'
  <2>1. registry' = doc /\ hist' = hist \cup {doc} /\ registry \in hist
    BY <1>2 DEF Advance, Ordered
  <2>2. registry \in RegistryDoc /\ hist \subseteq RegistryDoc
    BY DEF TypeOK
  <2>3. Ordered'
    <3>1. \A d \in hist : d.writer_epoch <= doc.writer_epoch
      BY <1>2, <2>2, AdvanceIsNewer DEF Ordered, RegistryDoc
    <3>2. \A d \in hist : d.generation <= doc.generation /\ d.generation # doc.generation
      BY <1>2, <2>2, AdvanceIsNewer DEF RegistryDoc
    <3> QED
      BY <1>2, <2>1, <2>2, <3>1, <3>2, AdvanceIsNewer DEF Ordered, RegistryDoc
  <2>4. CommittedOnce'
    <3>1. CASE NewWriterDoc(doc)
      <4>1. doc.latest = registry.latest
        BY <3>1 DEF NewWriterDoc, with_new_writer
      <4> QED
        BY <2>1, <4>1 DEF CommittedOnce
    <3>2. CASE NewCommitDoc(doc)
      <4>1. \A d \in hist : d.latest.id # doc.latest.id
        BY <3>2 DEF NewCommitDoc, with_committed_snapshot
      <4> QED
        BY <2>1, <4>1 DEF CommittedOnce
    <3> QED
      BY <1>2, <3>1, <3>2 DEF Advance, MayFollow
  <2> QED
    BY <2>3, <2>4
<1> QED
  BY <1>1, <1>2, RegistryStep

(* Fencing, as a fact about one step. *)
FencedStep ==
    registry' # registry =>
      /\ registry'.generation = registry.generation + 1
      /\ \/ /\ registry'.latest = registry.latest
            /\ registry'.writer_epoch = registry.writer_epoch + 1
         \/ /\ registry'.latest.version = registry.latest.version + 1
            /\ registry'.writer_epoch = registry.writer_epoch
            /\ registry'.writer_instance_id = registry.writer_instance_id

LEMMA FencedByStep == IndInv /\ Next => FencedStep
<1> SUFFICES ASSUME IndInv, Next, NEW doc \in RegistryDoc, Advance(doc) PROVE FencedStep
  BY RegistryStep DEF FencedStep
<1> QED
  BY DEF Advance, MayFollow, NewWriterDoc, NewCommitDoc, with_new_writer,
         with_committed_snapshot, FencedStep

(* Nothing a writer relies on is taken away. *)
Grows ==
    /\ hist \subseteq hist'
    /\ registry.writer_epoch <= registry'.writer_epoch
    /\ \A s \in Snapshots : blobs[s] # NoTag => blobs'[s] # NoTag
    /\ \A s \in Snapshots : content[s] # {} => content'[s] # {}

LEMMA OwnerTagIsATag ==
  ASSUME NEW w \in Writers PROVE OwnerTag(w) # NoTag
  BY InstanceOfAssumption, NoneAssumption DEF OwnerTag, NoTag

LEMMA GrowsStep == IndInv /\ Next => Grows
<1> SUFFICES ASSUME IndInv, Next PROVE Grows
  OBVIOUS
<1> USE DEF IndInv
<1>1. hist \subseteq hist' /\ registry.writer_epoch <= registry'.writer_epoch
  <2>1. registry.writer_epoch \in Nat
    BY DEF TypeOK, RegistryDoc
  <2> QED
    BY <2>1, RegistryStep, AdvanceIsNewer DEF Advance
<1>2. CASE Land
  BY <1>1, <1>2 DEF Land, Grows
<1>3. ASSUME NEW w \in Writers, Step(w) PROVE Grows
  <2>1. CASE Upload(w)
    BY <1>1, <2>1, OwnerTagIsATag DEF Upload, Grows, TypeOK
  <2>2. CASE UploadUnanswered(w)
    BY <1>1, <2>2, OwnerTagIsATag DEF UploadUnanswered, Grows, TypeOK
  <2>3. CASE BeginClose(w)
    BY <1>1, <2>3 DEF BeginClose, Grows, TypeOK, bucket
  <2>4. CASE UNCHANGED <<blobs, content>>
    BY <1>1, <2>4 DEF Grows
  <2> QED
    BY <1>3, <2>1, <2>2, <2>3, <2>4
       DEF Step, Start, AcquireRead, Acquire, AcquireRejected, AcquireUnanswered,
           AcquireRepeated, PersistRead, PersistCheck, Commit, CommitRejected,
           CommitUnanswered, CommitRepeated, Reconcile, WriteRecord,
           WriteRecordUnanswered, GiveUp, Stop, bucket
<1> QED
  BY <1>2, <1>3 DEF Next

LEMMA DurableStep == IndInv /\ Next => Durable'
<1> SUFFICES ASSUME IndInv, Next PROVE Durable'
  OBVIOUS
<1> USE DEF IndInv
<1>0. Grows
  BY GrowsStep
<1>1. CASE UNCHANGED <<registry, hist>>
  BY <1>0, <1>1 DEF Durable, Grows
<1>2. ASSUME NEW doc \in RegistryDoc, Advance(doc) PROVE Durable'
  <2>1. hist' = hist \cup {doc} /\ registry \in hist
    BY <1>2 DEF Advance, Ordered
  <2>2. doc.latest.id \in Snapshots => blobs[doc.latest.id] # NoTag /\ content[doc.latest.id] # {}
    BY <1>2, <2>1
       DEF Advance, MayFollow, NewWriterDoc, NewCommitDoc, with_new_writer,
           with_committed_snapshot, Durable
  <2> QED
    BY <1>0, <2>1, <2>2 DEF Durable, Grows
<1> QED
  BY <1>1, <1>2, RegistryStep

-----------------------------------------------------------------------------
(* The writers' local variables. *)

(* The step of another writer leaves what this one knows in place. *)
LEMMA LocalFrame ==
  ASSUME IndInv, Grows, TypeOK', NEW v \in Writers,
         pc'[v] = pc[v], lease'[v] = lease[v], base'[v] = base[v], cur'[v] = cur[v],
         snap'[v] = snap[v], receipt'[v] = receipt[v]
  PROVE  Local(v)'
<1>1. Local(v)
  BY DEF IndInv
<1>2. lease[v] \in Nat /\ registry.writer_epoch \in Nat /\ registry'.writer_epoch \in Nat
  BY DEF IndInv, TypeOK, RegistryDoc
<1>3. lease'[v] <= registry'.writer_epoch
  BY <1>1, <1>2 DEF Local, Grows
<1> QED
  BY <1>1, <1>3 DEF Local, Grows, LeaseCurrent, PersistPhases

(* Actions that only move the program counter to a phase that promises nothing. *)
LEMMA LocalRest ==
  ASSUME IndInv, Grows, TypeOK', NEW w \in Writers,
         pc'[w] \in {"ready", "failed", "dead"},
         lease' = lease, cur' = cur, snap' = snap, receipt' = receipt,
         base'[w] \in hist
  PROVE  Local(w)'
<1>1. Local(w)
  BY DEF IndInv
<1>2. lease[w] \in Nat /\ registry.writer_epoch \in Nat /\ registry'.writer_epoch \in Nat
  BY DEF IndInv, TypeOK, RegistryDoc
<1>3. lease'[w] <= registry'.writer_epoch
  BY <1>1, <1>2 DEF Local, Grows
<1> QED
  BY <1>1, <1>3 DEF Local, Grows, PersistPhases

LEMMA LocalStep ==
  ASSUME IndInv, Grows, TypeOK', NEW w \in Writers, Step(w)
  PROVE  Local(w)'
<1> USE DEF IndInv, Goto
<1>1. TypeOK /\ Local(w) /\ pc \in [Writers -> Phases]
  BY DEF TypeOK
<1>2. lease[w] \in Nat /\ registry.writer_epoch \in Nat /\ registry'.writer_epoch \in Nat
  BY DEF TypeOK, RegistryDoc
<1>3. lease[w] <= registry'.writer_epoch
  BY <1>1, <1>2 DEF Local, Grows
<1>4. registry \in hist /\ hist \subseteq hist'
  BY DEF Ordered, Grows
<1>5. snap[w] \in Snapshots => content'[snap[w]] # {}
  BY <1>1 DEF Local, Grows
<1> USE DEF PersistPhases
<1>a. CASE Start(w)
  BY <1>a, <1>1, <1>3, <1>4, <1>5 DEF Start, Local
<1>b. CASE AcquireRead(w)
  BY <1>b, <1>1, <1>3, <1>4, <1>5 DEF AcquireRead, Local, TypeOK
<1>c. CASE Acquire(w)
  <2>1. AcquireDoc(w) \in hist' /\ registry' = AcquireDoc(w) /\ Absent \in hist'
    BY <1>c, <1>4 DEF Acquire, PutRegistry, Ordered
  <2>2. base'[w] \in hist' /\ lease'[w] = registry'.writer_epoch /\ pc'[w] = "ready"
    BY <1>c, <1>1, <2>1 DEF Acquire, TypeOK
  <2> QED
    BY <1>c, <1>1, <1>2, <1>4, <1>5, <2>2 DEF Acquire, Local
<1>d. CASE AcquireRejected(w) \/ AcquireUnanswered(w) \/ AcquireRepeated(w)
  <2>1. /\ pc'[w] \in {"acquire", "dead"} /\ pc[w] = "acquireCas"
        /\ UNCHANGED <<lease, base, cur, snap, receipt>>
    BY <1>d, <1>1
       DEF AcquireRejected, AcquireUnanswered, AcquireRepeated, AcquireErrorPhase
  <2> QED
    BY <1>1, <1>3, <1>4, <1>5, <2>1 DEF Local
<1>e. CASE BeginClose(w)
  <2>1. PICK s \in Snapshots :
          /\ snap' = [snap EXCEPT ![w] = s]
          /\ content' = [content EXCEPT ![s] = files[InstanceOf[w]] \cup {s}]
    BY <1>e DEF BeginClose
  <2>2. snap'[w] = s /\ content'[s] # {} /\ pc'[w] = "read"
    BY <1>e, <1>1, <2>1 DEF BeginClose, TypeOK
  <2> QED
    BY <1>e, <1>1, <1>3, <1>4, <2>2 DEF BeginClose, Local
<1>f. CASE PersistRead(w)
  <2>1. /\ pc'[w] \in {"check", "failed"}
        /\ pc'[w] = "check" => LeaseCurrent(registry, w)
        /\ cur'[w] = registry
        /\ UNCHANGED <<lease, base, snap, receipt, content, blobs>>
    BY <1>f, <1>1 DEF PersistRead, TypeOK, bucket
  <2>2. base[w].generation <= registry.generation /\ snap[w] \in Snapshots
    BY <1>f, <1>1 DEF Local, Ordered, PersistRead
  <2> QED
    BY <1>1, <1>3, <1>4, <1>5, <2>1, <2>2 DEF Local, LeaseCurrent
<1>g. CASE PersistCheck(w)
  <2>1. snap[w] \in Snapshots /\ pc[w] = "check"
    BY <1>g, <1>1 DEF PersistCheck, Local
  <2>2. CASE ReturnReceipt(w, records[snap[w]]) /\ UNCHANGED receipt
    <3>1. records[snap[w]] \in hist
      BY <2>1, <1>4 DEF RecordsAreTrue, Ordered
    <3>2. pc'[w] \in {"ready", "failed"} /\ base'[w] \in hist
      BY <2>2, <3>1, <1>1 DEF ReturnReceipt, Local, TypeOK
    <3> QED
      BY <1>g, <2>2, <3>2, LocalRest DEF PersistCheck
  <2>3. CASE pc' = [pc EXCEPT ![w] = "record"] /\ cur[w].latest.id = snap[w]
             /\ receipt' = [receipt EXCEPT ![w] = cur[w]] /\ UNCHANGED base
    BY <1>g, <1>1, <1>3, <1>4, <1>5, <2>1, <2>3 DEF PersistCheck, Local, LeaseCurrent, TypeOK
  <2>4. CASE pc' = [pc EXCEPT ![w] = "upload"] /\ cur[w].latest.id # snap[w]
             /\ UNCHANGED <<receipt, base>>
    BY <1>g, <1>1, <1>3, <1>4, <1>5, <2>1, <2>4 DEF PersistCheck, Local, LeaseCurrent
  <2> QED
    BY <1>g, <2>2, <2>3, <2>4 DEF PersistCheck
<1>h. CASE Upload(w)
  <2>1. snap[w] \in Snapshots /\ pc[w] = "upload" /\ pc'[w] \in {"cas", "failed"}
    BY <1>h, <1>1 DEF Upload, Local
  <2>2. pc'[w] = "cas" => blobs'[snap[w]] # NoTag
    BY <1>h, <1>1, OwnerTagIsATag DEF Upload
  <2> QED
    BY <1>h, <1>1, <1>3, <1>4, <1>5, <2>1, <2>2 DEF Upload, Local, LeaseCurrent
<1>i. CASE UploadUnanswered(w) \/ WriteRecordUnanswered(w)
  <2>1. /\ pc[w] \in PersistPhases /\ pc'[w] = "read"
        /\ UNCHANGED <<lease, base, cur, snap, receipt>>
    BY <1>i, <1>1 DEF UploadUnanswered, WriteRecordUnanswered
  <2> QED
    BY <1>1, <1>3, <1>4, <1>5, <2>1 DEF Local
<1>j. CASE Commit(w)
  <2>1. CommitDoc(w) \in hist' /\ CommitDoc(w).latest.id = snap[w]
    BY <1>j DEF Commit, PutRegistry, CommitDoc, with_committed_snapshot
  <2>2. /\ pc[w] = "cas" /\ pc'[w] = "record" /\ receipt'[w] = CommitDoc(w)
        /\ UNCHANGED <<lease, base, cur, snap>>
    BY <1>j, <1>1 DEF Commit, TypeOK
  <2> QED
    BY <1>1, <1>3, <1>4, <1>5, <2>1, <2>2 DEF Local, LeaseCurrent
<1>k. CASE CommitRejected(w) \/ CommitUnanswered(w) \/ CommitRepeated(w)
  <2>1. /\ pc[w] = "cas" /\ pc'[w] \in {"rejected", "ambiguous", "ready"}
        /\ UNCHANGED <<lease, base, cur, snap, receipt>>
    BY <1>k, <1>1 DEF CommitRejected, CommitUnanswered, CommitRepeated
  <2> QED
    BY <1>1, <1>3, <1>4, <1>5, <2>1 DEF Local, LeaseCurrent
<1>l. CASE Reconcile(w)
  <2>1. /\ pc[w] \in {"ambiguous", "rejected"} /\ pc'[w] \in {"record", "read", "failed"}
        /\ UNCHANGED <<lease, base, cur, snap>>
        /\ receipt'[w] \in {registry, receipt[w]}
        /\ pc'[w] = "record" => receipt'[w] = registry /\ registry.latest.id = snap[w]
    BY <1>l, <1>1 DEF Reconcile, TypeOK
  <2> QED
    BY <1>1, <1>3, <1>4, <1>5, <2>1 DEF Local, LeaseCurrent
<1>m. CASE WriteRecord(w)
  <2>1. pc'[w] \in {"ready", "failed"} /\ base'[w] \in hist
    BY <1>m, <1>1 DEF WriteRecord, ReturnReceipt, Local, TypeOK
  <2> QED
    BY <1>m, <2>1, LocalRest DEF WriteRecord
<1>n. CASE GiveUp(w) \/ Stop(w)
  <2>1. pc'[w] \in {"ready", "dead"} /\ base'[w] \in hist
    BY <1>n, <1>1 DEF GiveUp, Stop, Local
  <2> QED
    BY <1>n, <2>1, LocalRest DEF GiveUp, Stop
<1> QED
  BY <1>a, <1>b, <1>c, <1>d, <1>e, <1>f, <1>g, <1>h, <1>i, <1>j, <1>k, <1>l, <1>m, <1>n
     DEF Step

(* A step of one writer leaves the variables of the others alone. *)
LEMMA OthersUnchanged ==
  ASSUME IndInv, NEW w \in Writers, Step(w), NEW v \in Writers, v # w
  PROVE  /\ pc'[v] = pc[v] /\ lease'[v] = lease[v] /\ base'[v] = base[v]
         /\ cur'[v] = cur[v] /\ snap'[v] = snap[v] /\ receipt'[v] = receipt[v]
<1> TypeOK
  BY DEF IndInv
<1> USE DEF Goto, TypeOK
<1>1. CASE BeginClose(w)
  BY <1>1 DEF BeginClose
<1>2. CASE PersistCheck(w)
  BY <1>2 DEF PersistCheck, ReturnReceipt
<1>3. CASE WriteRecord(w)
  BY <1>3 DEF WriteRecord, ReturnReceipt
<1>4. CASE Reconcile(w) \/ Commit(w) \/ Acquire(w)
  BY <1>4 DEF Reconcile, Commit, Acquire
<1>5. CASE AcquireRead(w) \/ PersistRead(w) \/ Start(w) \/ Upload(w)
  BY <1>5 DEF AcquireRead, PersistRead, Start, Upload
<1>6. CASE AcquireRejected(w) \/ AcquireUnanswered(w) \/ AcquireRepeated(w)
  BY <1>6 DEF AcquireRejected, AcquireUnanswered, AcquireRepeated
<1>7. CASE CommitRejected(w) \/ CommitUnanswered(w) \/ CommitRepeated(w)
  BY <1>7 DEF CommitRejected, CommitUnanswered, CommitRepeated
<1>8. CASE UploadUnanswered(w) \/ WriteRecordUnanswered(w) \/ GiveUp(w) \/ Stop(w)
  BY <1>8 DEF UploadUnanswered, WriteRecordUnanswered, GiveUp, Stop
<1> QED
  BY <1>1, <1>2, <1>3, <1>4, <1>5, <1>6, <1>7, <1>8 DEF Step

LEMMA LocalsStep == IndInv /\ Next => \A v \in Writers : Local(v)'
<1> SUFFICES ASSUME IndInv, Next, NEW v \in Writers PROVE Local(v)'
  OBVIOUS
<1>1. Grows /\ TypeOK'
  BY GrowsStep, TypeStep
<1>2. CASE Land
  BY <1>1, <1>2, LocalFrame DEF Land
<1>3. ASSUME NEW w \in Writers, Step(w) PROVE Local(v)'
  <2>1. CASE v = w
    BY <1>1, <1>3, <2>1, LocalStep
  <2>2. CASE v # w
    BY <1>1, <1>3, <2>2, OthersUnchanged, LocalFrame
  <2> QED
    BY <2>1, <2>2
<1> QED
  BY <1>2, <1>3 DEF Next

-----------------------------------------------------------------------------
(* Leases, late puts, records and receipts. *)

(* The only action that gives out a lease is Acquire, with the epoch it wrote. *)
LEMMA LeaseStep ==
  ASSUME IndInv, Next
  PROVE  \/ UNCHANGED lease
         \/ \E w \in Writers :
              /\ Acquire(w)
              /\ lease' = [lease EXCEPT ![w] = registry'.writer_epoch]
              /\ registry'.writer_epoch = registry.writer_epoch + 1
<1>1. CASE Land
  BY <1>1 DEF Land
<1>2. ASSUME NEW w \in Writers, Acquire(w)
      PROVE  /\ lease' = [lease EXCEPT ![w] = registry'.writer_epoch]
             /\ registry'.writer_epoch = registry.writer_epoch + 1
  BY <1>2 DEF Acquire, PutRegistry, AcquireDoc, with_new_writer
<1>3. ASSUME NEW w \in Writers, Step(w), ~Acquire(w) PROVE UNCHANGED lease
  BY <1>3
     DEF Step, Start, AcquireRead, AcquireRejected, AcquireUnanswered,
         AcquireRepeated, BeginClose, PersistRead, PersistCheck, Upload,
         UploadUnanswered, Commit, CommitRejected, CommitUnanswered, CommitRepeated,
         Reconcile, WriteRecord, WriteRecordUnanswered, GiveUp, Stop
<1> QED
  BY <1>1, <1>2, <1>3 DEF Next

LEMMA OneWriterStep == IndInv /\ Next => OneWriter'
<1> SUFFICES ASSUME IndInv, Next PROVE OneWriter'
  OBVIOUS
<1> USE DEF IndInv
<1>1. CASE UNCHANGED lease
  BY <1>1 DEF OneWriter
<1>2. ASSUME NEW w \in Writers,
             lease' = [lease EXCEPT ![w] = registry'.writer_epoch],
             registry'.writer_epoch = registry.writer_epoch + 1
      PROVE  OneWriter'
  <2>1. \A v \in Writers : lease[v] \in Nat /\ lease[v] <= registry.writer_epoch
    BY DEF Local, TypeOK
  <2>2. registry.writer_epoch \in Nat /\ lease \in [Writers -> Nat]
    BY DEF TypeOK, RegistryDoc
  <2>3. \A v \in Writers : lease[v] # registry'.writer_epoch
    BY <1>2, <2>1, <2>2
  <2> QED
    BY <1>2, <2>2, <2>3 DEF OneWriter
<1> QED
  BY <1>1, <1>2, LeaseStep

(* The only action that names a snapshot is BeginClose, with a new one. *)
LEMMA SnapStep ==
  ASSUME IndInv, Next
  PROVE  \/ UNCHANGED snap
         \/ /\ UNCHANGED <<registry, hist, lease, inflight>>
            /\ \E w \in Writers, s \in Snapshots :
                 content[s] = {} /\ snap' = [snap EXCEPT ![w] = s]
<1>1. CASE Land
  BY <1>1 DEF Land
<1>2. ASSUME NEW w \in Writers, BeginClose(w)
      PROVE  /\ UNCHANGED <<registry, hist, lease, inflight>>
             /\ \E s \in Snapshots : content[s] = {} /\ snap' = [snap EXCEPT ![w] = s]
  BY <1>2 DEF BeginClose, bucket
<1>3. ASSUME NEW w \in Writers, Step(w), ~BeginClose(w) PROVE UNCHANGED snap
  BY <1>3
     DEF Step, Start, AcquireRead, Acquire, AcquireRejected, AcquireUnanswered,
         AcquireRepeated, PersistRead, PersistCheck, Upload,
         UploadUnanswered, Commit, CommitRejected, CommitUnanswered, CommitRepeated,
         Reconcile, WriteRecord, WriteRecordUnanswered, GiveUp, Stop
<1> QED
  BY <1>1, <1>2, <1>3 DEF Next

LEMMA SettledStep == IndInv /\ Next => Settled'
<1> SUFFICES ASSUME IndInv, Next, NEW w \in Writers, NEW d \in hist',
                    snap'[w] \in Snapshots, d.latest.id = snap'[w],
                    lease'[w] = registry'.writer_epoch
             PROVE  registry'.latest.id = snap'[w]
  BY DEF Settled
<1> USE DEF IndInv
<1>1. CASE UNCHANGED <<registry, hist, lease, snap>>
  BY <1>1 DEF Settled
<1>2. ASSUME UNCHANGED <<registry, hist, lease>>, NEW v \in Writers, NEW s \in Snapshots,
             content[s] = {}, snap' = [snap EXCEPT ![v] = s]
      PROVE  registry'.latest.id = snap'[w]
  <2>1. w # v
    BY <1>2 DEF TypeOK, Durable
  <2> QED
    BY <1>2, <2>1 DEF Settled, TypeOK
<1>3. ASSUME NEW doc \in RegistryDoc, Advance(doc), UNCHANGED <<lease, snap>>
      PROVE  registry'.latest.id = snap'[w]
  <2>1. CASE NewWriterDoc(doc)
    <3>1. registry'.writer_epoch = registry.writer_epoch + 1
      BY <1>3, <2>1 DEF Advance, NewWriterDoc, with_new_writer
    <3>2. lease[w] \in Nat /\ registry.writer_epoch \in Nat /\ lease[w] <= registry.writer_epoch
      BY DEF TypeOK, RegistryDoc, Local
    <3> QED
      BY <1>3, <3>1, <3>2
  <2>2. CASE NewCommitDoc(doc)
    <3>1. registry'.writer_epoch = registry.writer_epoch /\ registry' = doc
      BY <1>3, <2>2 DEF Advance, NewCommitDoc, with_committed_snapshot
    <3>2. snap[w] # registry.latest.id
      BY <1>3, <2>2, <3>1 DEF NewCommitDoc
    <3>3. d \notin hist
      BY <1>3, <3>1, <3>2 DEF Settled
    <3> QED
      BY <1>3, <3>1, <3>3 DEF Advance
  <2> QED
    BY <1>3, <2>1, <2>2 DEF Advance, MayFollow
<1>4. ASSUME NEW v \in Writers, Acquire(v),
             lease' = [lease EXCEPT ![v] = registry'.writer_epoch],
             registry'.writer_epoch = registry.writer_epoch + 1
      PROVE  FALSE
  <2>1. snap' = snap /\ snap[v] = NoSnapshot
    BY <1>4 DEF Acquire, Local
  <2>2. w # v
    BY <2>1, NoneAssumption
  <2>3. lease[w] \in Nat /\ registry.writer_epoch \in Nat /\ lease[w] <= registry.writer_epoch
    BY DEF TypeOK, RegistryDoc, Local
  <2> QED
    BY <1>4, <2>2, <2>3 DEF TypeOK
<1> QED
  BY <1>1, <1>2, <1>3, <1>4, RegistryStep, LeaseStep, SnapStep

(* As long as the registry does not move, a document that may follow it still may. *)
LEMMA MayFollowIsStable ==
  ASSUME IndInv, Next, UNCHANGED <<registry, hist>>, NEW doc, MayFollow(doc)
  PROVE  MayFollow(doc)'
<1> USE DEF IndInv
<1>1. CASE NewWriterDoc(doc)
  BY <1>1 DEF NewWriterDoc, MayFollow
<1>2. CASE NewCommitDoc(doc)
  <2>1. UNCHANGED lease
    <3>1. registry.writer_epoch \in Nat
      BY DEF TypeOK, RegistryDoc
    <3> QED
      BY <3>1, LeaseStep
  <2>2. Grows
    BY GrowsStep
  <2>3. PICK s \in Snapshots :
          /\ registry.writer_instance_id \in Instances
          /\ doc = with_committed_snapshot(registry, registry.writer_epoch,
                       registry.writer_instance_id,
                       [id |-> s, version |-> registry.latest.version + 1])
          /\ blobs[s] # NoTag
          /\ content[s] # {}
          /\ \A d \in hist : d.latest.id # s
          /\ \A v \in Writers :
               lease[v] = registry.writer_epoch /\ snap[v] \in Snapshots
                  => snap[v] # registry.latest.id
    BY <1>2 DEF NewCommitDoc
  <2>4. blobs'[s] # NoTag /\ content'[s] # {}
    BY <2>2, <2>3 DEF Grows
  <2>5. ASSUME NEW v \in Writers, lease'[v] = registry'.writer_epoch, snap'[v] \in Snapshots
        PROVE  snap'[v] # registry'.latest.id
    <3>1. CASE UNCHANGED snap
      BY <2>1, <2>3, <2>5, <3>1
    <3>2. ASSUME NEW w \in Writers, NEW t \in Snapshots,
                 content[t] = {}, snap' = [snap EXCEPT ![w] = t]
          PROVE  snap'[v] # registry'.latest.id
      <4>1. CASE v = w
        BY <3>2, <4>1 DEF Durable, Ordered, TypeOK
      <4>2. CASE v # w
        BY <2>1, <2>3, <2>5, <3>2, <4>2 DEF TypeOK
      <4> QED
        BY <4>1, <4>2
    <3> QED
      BY <3>1, <3>2, SnapStep
  <2>6. with_committed_snapshot(registry, registry.writer_epoch,
           registry.writer_instance_id,
           [id |-> s, version |-> registry.latest.version + 1])'
         = doc
    BY <2>3 DEF with_committed_snapshot
  <2> QED
    BY <2>3, <2>4, <2>5, <2>6 DEF MayFollow, NewCommitDoc
<1> QED
  BY <1>1, <1>2 DEF MayFollow

(* The puts that are left in flight. *)
LEMMA InflightStep ==
  ASSUME IndInv, Next, NEW put \in inflight', put \notin inflight
  PROVE  /\ UNCHANGED <<registry, hist, blobs, content, lease, snap>>
         /\ put.expected \in hist
         /\ put.expected = registry => MayFollow(put.doc)
<1> USE DEF IndInv
<1>1. CASE Land
  BY <1>1 DEF Land
<1>2. ASSUME NEW w \in Writers, AcquireUnanswered(w)
      PROVE  /\ UNCHANGED <<registry, hist, blobs, content, lease, snap>>
             /\ put.expected \in hist
             /\ put.expected = registry => MayFollow(put.doc)
  <2>1. /\ UNCHANGED <<registry, hist, blobs, content, lease, snap>>
        /\ put = [expected |-> cur[w], doc |-> AcquireDoc(w)]
    BY <1>2 DEF AcquireUnanswered, PutUnanswered
  <2> QED
    BY <2>1, AcquireIsSafe DEF Local
<1>3. ASSUME NEW w \in Writers, CommitUnanswered(w)
      PROVE  /\ UNCHANGED <<registry, hist, blobs, content, lease, snap>>
             /\ put.expected \in hist
             /\ put.expected = registry => MayFollow(put.doc)
  <2>1. /\ UNCHANGED <<registry, hist, blobs, content, lease, snap>>
        /\ put = [expected |-> CasBase(w), doc |-> CommitDoc(w)]
        /\ pc[w] = "cas"
    BY <1>3 DEF CommitUnanswered, PutUnanswered
  <2>2. CasBase(w) \in hist
    BY DEF CasBase, Local
  <2> QED
    BY <2>1, <2>2, CommitIsSafe
<1>4. ASSUME NEW w \in Writers, Step(w), ~AcquireUnanswered(w), ~CommitUnanswered(w)
      PROVE  UNCHANGED inflight
  BY <1>4
     DEF Step, Start, AcquireRead, Acquire, AcquireRejected, AcquireRepeated, BeginClose,
         PersistRead, PersistCheck, Upload, UploadUnanswered, Commit, CommitRejected,
         CommitRepeated, Reconcile, WriteRecord, WriteRecordUnanswered, GiveUp, Stop,
         bucket
<1> QED
  BY <1>1, <1>2, <1>3, <1>4 DEF Next

LEMMA LateIsSafeStep == IndInv /\ Next => LateIsSafe'
<1> SUFFICES ASSUME IndInv, Next, NEW put \in inflight'
             PROVE  put.expected \in hist' /\ (put.expected = registry' => MayFollow(put.doc)')
  BY DEF LateIsSafe
<1> USE DEF IndInv
<1>1. CASE put \in inflight
  <2>1. put.expected \in hist /\ (put.expected = registry => MayFollow(put.doc))
    BY <1>1 DEF LateIsSafe
  <2>2. CASE UNCHANGED <<registry, hist>>
    BY <2>1, <2>2, MayFollowIsStable
  <2>3. ASSUME NEW doc \in RegistryDoc, Advance(doc)
        PROVE  put.expected \in hist' /\ put.expected # registry'
    BY <2>1, <2>3, AdvanceIsNewer DEF Advance
  <2> QED
    BY <2>2, <2>3, RegistryStep
<1>2. CASE put \notin inflight
  <2>1. /\ UNCHANGED <<registry, hist>>
        /\ put.expected \in hist
        /\ put.expected = registry => MayFollow(put.doc)
    BY <1>2, InflightStep
  <2> QED
    BY <2>1, MayFollowIsStable
<1> QED
  BY <1>1, <1>2

LEMMA RecordsStep == IndInv /\ Next => RecordsAreTrue'
<1> SUFFICES ASSUME IndInv, Next PROVE RecordsAreTrue'
  OBVIOUS
<1> USE DEF IndInv
<1>0. hist \subseteq hist'
  BY GrowsStep DEF Grows
<1>1. CASE UNCHANGED records
  BY <1>0, <1>1 DEF RecordsAreTrue
<1>2. ASSUME NEW w \in Writers, WriteRecord(w) \/ WriteRecordUnanswered(w)
      PROVE  RecordsAreTrue'
  <2>1. /\ receipt[w] \in hist /\ receipt[w].latest.id = snap[w]
        /\ snap[w] \in Snapshots /\ records \in [Snapshots -> RegistryDoc]
    BY <1>2 DEF WriteRecord, WriteRecordUnanswered, Local, PersistPhases, TypeOK
  <2>2. \A s \in Snapshots : \/ records'[s] = records[s]
                             \/ s = snap[w] /\ records'[s] = receipt[w]
    BY <1>2, <2>1 DEF WriteRecord, WriteRecordUnanswered
  <2> QED
    BY <1>0, <2>1, <2>2 DEF RecordsAreTrue
<1>3. CASE Land
  BY <1>1, <1>3 DEF Land
<1>4. ASSUME NEW w \in Writers, Step(w), ~WriteRecord(w), ~WriteRecordUnanswered(w)
      PROVE  UNCHANGED records
  BY <1>4
     DEF Step, Start, AcquireRead, Acquire, AcquireRejected, AcquireUnanswered,
         AcquireRepeated, BeginClose, PersistRead, PersistCheck, Upload,
         UploadUnanswered, Commit, CommitRejected, CommitUnanswered, CommitRepeated,
         Reconcile, GiveUp, Stop, bucket
<1> QED
  BY <1>1, <1>2, <1>3, <1>4 DEF Next

(* A step acknowledges at most one snapshot, which the registry has held. *)
LEMMA AckStep ==
  ASSUME IndInv, Next
  PROVE  \/ UNCHANGED acked
         \/ /\ UNCHANGED <<registry, hist>>
            /\ \E s \in Snapshots :
                 acked' = acked \cup {s} /\ \E d \in hist : d.latest.id = s
<1> USE DEF IndInv
<1>1. ASSUME NEW w \in Writers, NEW etag \in hist, ReturnReceipt(w, etag),
             snap[w] \in Snapshots
      PROVE  \/ UNCHANGED acked
             \/ \E s \in Snapshots :
                  acked' = acked \cup {s} /\ \E d \in hist : d.latest.id = s
  BY <1>1 DEF ReturnReceipt
<1>2. CASE Land
  BY <1>2 DEF Land
<1>3. ASSUME NEW w \in Writers, PersistCheck(w) \/ WriteRecord(w)
      PROVE  \/ UNCHANGED acked
             \/ /\ UNCHANGED <<registry, hist>>
                /\ \E s \in Snapshots :
                     acked' = acked \cup {s} /\ \E d \in hist : d.latest.id = s
  <2>1. snap[w] \in Snapshots /\ receipt[w] \in hist /\ UNCHANGED <<registry, hist>>
    BY <1>3 DEF PersistCheck, WriteRecord, Local, PersistPhases, bucket
  <2>2. records[snap[w]] \in hist
    BY <2>1 DEF RecordsAreTrue, Ordered
  <2>3. \/ UNCHANGED acked
        \/ ReturnReceipt(w, records[snap[w]])
        \/ ReturnReceipt(w, receipt[w])
    BY <1>3 DEF PersistCheck, WriteRecord
  <2> QED
    BY <1>1, <2>1, <2>2, <2>3
<1>4. ASSUME NEW w \in Writers, Step(w), ~PersistCheck(w), ~WriteRecord(w)
      PROVE  UNCHANGED acked
  BY <1>4
     DEF Step, Start, AcquireRead, Acquire, AcquireRejected, AcquireUnanswered,
         AcquireRepeated, BeginClose, PersistRead, Upload, UploadUnanswered, Commit,
         CommitRejected, CommitUnanswered, CommitRepeated, Reconcile,
         WriteRecordUnanswered, GiveUp, Stop
<1> QED
  BY <1>2, <1>3, <1>4 DEF Next

LEMMA AcknowledgedStep == IndInv /\ Next => Acknowledged'
<1> SUFFICES ASSUME IndInv, Next PROVE Acknowledged'
  OBVIOUS
<1> hist \subseteq hist'
  BY GrowsStep DEF Grows
<1> QED
  BY AckStep DEF IndInv, Acknowledged

-----------------------------------------------------------------------------
(* The theorems. *)

LEMMA InitIndInv == Init => IndInv
<1> SUFFICES ASSUME Init PROVE IndInv
  OBVIOUS
<1> USE DEF Init
<1>1. TypeOK
  BY AbsentType, MaxFaultsAssumption DEF TypeOK, Phases, PersistPhases
<1>2. Ordered /\ CommittedOnce /\ Durable
  BY NoneAssumption DEF Ordered, CommittedOnce, Durable, Absent, NoEntry
<1>3. \A w \in Writers : Local(w)
  BY NoneAssumption DEF Local, PersistPhases, Absent
<1>4. OneWriter /\ Settled /\ LateIsSafe /\ RecordsAreTrue /\ Acknowledged
  BY NoneAssumption DEF OneWriter, Settled, LateIsSafe, RecordsAreTrue, Acknowledged
<1> QED
  BY <1>1, <1>2, <1>3, <1>4 DEF IndInv

LEMMA IndInvStep == IndInv /\ [Next]_vars => IndInv'
<1> SUFFICES ASSUME IndInv, [Next]_vars PROVE IndInv'
  OBVIOUS
<1>1. CASE Next
  BY <1>1, TypeStep, OrderedStep, DurableStep, LocalsStep, OneWriterStep, SettledStep,
     LateIsSafeStep, RecordsStep, AcknowledgedStep DEF IndInv
<1>2. CASE UNCHANGED vars
  <2>1. /\ UNCHANGED <<registry, blobs, records, inflight, pc, restored, lease, base, cur>>
        /\ UNCHANGED <<snap, receipt, files, content, acked, faults, hist>>
    BY <1>2 DEF vars, bucket
  <2>2. TypeOK'
    BY <1>2, TypeStep
  <2>3. Ordered' /\ CommittedOnce' /\ Durable' /\ OneWriter' /\ Settled'
    BY <2>1 DEF IndInv, Ordered, CommittedOnce, Durable, OneWriter, Settled
  <2>4. \A w \in Writers : Local(w)'
    BY <2>1 DEF IndInv, Local, LeaseCurrent
  <2>5. LateIsSafe'
    BY <2>1 DEF IndInv, LateIsSafe, MayFollow, NewWriterDoc, NewCommitDoc
  <2>6. RecordsAreTrue' /\ Acknowledged'
    BY <2>1 DEF IndInv, RecordsAreTrue, Acknowledged
  <2> QED
    BY <2>2, <2>3, <2>4, <2>5, <2>6 DEF IndInv
<1> QED
  BY <1>1, <1>2

LEMMA Invariance == Spec => []IndInv
  BY InitIndInv, IndInvStep, PTL DEF Spec

(* Every variable keeps its type: in particular no retry or late put leaves a
   document that is not a registry document. *)
THEOREM TypeCorrect == Spec => []TypeOK
<1>1. IndInv => TypeOK
  BY DEF IndInv
<1> QED
  BY <1>1, Invariance, PTL

(* persist uploads before it moves the pointer, and no order of crashes, retries
   and late puts can make the pointer overtake the upload. *)
THEOREM PointerIsDurable == Spec => []LatestIsDurable
<1>1. IndInv => LatestIsDurable
  BY DEF IndInv, Durable, Ordered, LatestIsDurable, TypeOK, RegistryDoc, Entry
<1> QED
  BY <1>1, Invariance, PTL

(* A close is committed at most once, however its puts are retried. *)
THEOREM CommitsAreUnique == Spec => []CommittedOnce
<1>1. IndInv => CommittedOnce
  BY DEF IndInv
<1> QED
  BY <1>1, Invariance, PTL

(* A commit record names the document that committed its snapshot. *)
THEOREM RecordsNameCommits == Spec => []RecordsAreTrue
<1>1. IndInv => RecordsAreTrue
  BY DEF IndInv
<1> QED
  BY <1>1, Invariance, PTL

(* Only the owner of the current epoch moves latest, also with overlapping
   controls and with puts that arrive after their writer was replaced. *)
THEOREM Fencing == Spec => Fenced
<1>1. IndInv /\ [Next]_vars => [FencedStep]_vars
  BY FencedByStep
<1> QED
  BY <1>1, Invariance, PTL DEF Spec, Fenced, FencedStep

-----------------------------------------------------------------------------
(* Refinement: the bucket and its writers implement FencedRegister. *)

Committed == {d.latest.id : d \in hist} \ {NoSnapshot}

LEMMA RegisterInit == Init => Register!Init
  BY DEF Init, Register!Init, Absent, NoEntry

LEMMA RegisterStep == IndInv /\ [Next]_vars => [Register!Next]_(Register!avars)
<1> SUFFICES ASSUME IndInv, Next PROVE [Register!Next]_(Register!avars)
  BY DEF vars, bucket, Register!avars
<1> USE DEF IndInv
<1>1. CASE UNCHANGED <<registry, hist>>
  <2>1. CASE UNCHANGED acked
    BY <1>1, <2>1 DEF Register!avars
  <2>2. ASSUME NEW s \in Snapshots, acked' = acked \cup {s}, NEW d \in hist, d.latest.id = s
        PROVE  Register!Next
    <3>1. s \in Committed
      BY <2>2, NoneAssumption DEF Committed
    <3>2. Register!Acknowledge(s)
      BY <1>1, <2>2, <3>1 DEF Register!Acknowledge, Committed
    <3> QED
      BY <3>2 DEF Register!Next
  <2> QED
    BY <2>1, <2>2, AckStep
<1>2. ASSUME NEW doc \in RegistryDoc, Advance(doc) PROVE Register!Next
  <2>0. /\ registry' = doc /\ hist' = hist \cup {doc} /\ registry \in hist
        /\ registry' # registry
    BY <1>2, AdvanceIsNewer DEF Advance, Ordered
  <2>1. UNCHANGED acked
    BY <2>0, AckStep
  <2>2. CASE NewWriterDoc(doc)
    <3>1. PICK i \in Instances : doc = with_new_writer(registry, i)
      BY <2>2 DEF NewWriterDoc
    <3>2. doc.latest = registry.latest
      BY <3>1 DEF with_new_writer
    <3>3. Committed' = Committed
      BY <2>0, <3>2 DEF Committed
    <3>4. Register!NewWriter(i)
      BY <2>0, <2>1, <3>1, <3>3 DEF Register!NewWriter, with_new_writer, Committed
    <3> QED
      BY <3>4 DEF Register!Next
  <2>3. CASE NewCommitDoc(doc)
    <3>1. PICK s \in Snapshots :
            /\ registry.writer_instance_id \in Instances
            /\ doc.latest.id = s
            /\ doc.writer_epoch = registry.writer_epoch
            /\ doc.writer_instance_id = registry.writer_instance_id
            /\ \A d \in hist : d.latest.id # s
      BY <2>3 DEF NewCommitDoc, with_committed_snapshot
    <3>2. registry.writer_epoch > 0
      BY <3>1, <2>0 DEF Ordered
    <3>3. Committed' = Committed \cup {s} /\ s \notin Committed
      BY <2>0, <3>1, NoneAssumption DEF Committed
    <3>4. Register!Commit(s)
      BY <2>0, <2>1, <3>1, <3>2, <3>3 DEF Register!Commit, Committed
    <3> QED
      BY <3>4 DEF Register!Next
  <2> QED
    BY <1>2, <2>2, <2>3 DEF Advance, MayFollow
<1> QED
  BY <1>1, <1>2, RegistryStep

(* Seen from outside, the domain is a register owned by one writer at a time,
   whose commits are acknowledged only after they happened. *)
THEOREM Refinement == Spec => ImplementsRegister
  BY RegisterInit, RegisterStep, Invariance, PTL
     DEF Spec, ImplementsRegister, Register!Spec
=============================================================================
