---------------------------- MODULE SnapshotStore ----------------------------
(***************************************************************************)
(* The persisted state of one domain (a Workspace or a session) in S3, and *)
(* the control processes that write it: storage/s3.py (acquire_writer,     *)
(* persist, restore), storage/fencing.py (the registry document) and the   *)
(* part of harness/lifecycle.py that calls them (_restore_workspace_archive,*)
(* _ensure_workspace_writer, _persist_close).                              *)
(*                                                                         *)
(* A writer is one control process holding one execution instance.  Two    *)
(* writers of the same instance are a control and the control that adopted *)
(* the instance after a restart.  Every await of the code is a point where *)
(* another writer, or a put that was thought lost, may run.                *)
(*                                                                         *)
(* An ETag is a hash of the object, so it is modelled by the object: two   *)
(* registry documents have the same ETag exactly when they are equal.  The *)
(* absent registry is the document with epoch and generation 0; then the   *)
(* conditions If-None-Match: * and If-Match: etag are both `the registry   *)
(* still is the document I expect'.                                        *)
(***************************************************************************)
EXTENDS Naturals, FiniteSets

CONSTANTS
    Writers,      \* control processes, each with the instance it drives
    Instances,    \* execution instance ids (writer_instance_id)
    InstanceOf,   \* the instance a writer drives
    Snapshots,    \* snapshot ids, one uuid per close
    NoInstance,   \* writer_instance_id of the absent registry
    NoSnapshot,   \* latest = None
    Overlap,      \* TRUE: a control may run beside another one
    MaxFaults     \* bound: S3 calls whose answer is lost, late or an error

ASSUME InstanceOfAssumption == InstanceOf \in [Writers -> Instances]
ASSUME NoneAssumption == NoInstance \notin Instances /\ NoSnapshot \notin Snapshots
ASSUME MaxFaultsAssumption == MaxFaults \in Nat
ASSUME OverlapAssumption == Overlap \in BOOLEAN

VARIABLES
    registry,     \* the CAS registry object of the domain
    blobs,        \* snapshot id |-> owner tag of the immutable object, or NoTag
    records,      \* snapshot id |-> its commit record, or Absent
    inflight,     \* registry puts whose caller stopped waiting for the answer
    pc,           \* what each writer is doing
    restored,     \* did the writer restore (TRUE) or adopt a running instance
    lease,        \* writer |-> epoch of its WriterLease, 0 before it has one
    base,         \* writer |-> Lifecycle._bases: expected ETag, Absent for None
    cur,          \* writer |-> registry document of its last read
    snap,         \* writer |-> snapshot id of the close under way
    receipt,      \* writer |-> ETag of the receipt it is about to record
    files,        \* instance |-> the snapshots whose work its files contain
    content,      \* snapshot id |-> the snapshots whose work its bytes contain
    acked,        \* snapshots whose persist returned a receipt to the caller
    faults,       \* faults so far
    hist          \* history variable: every document the registry has held

bucket == <<registry, blobs, records, inflight>>
vars == <<bucket, pc, restored, lease, base, cur, snap, receipt,
          files, content, acked, faults, hist>>

-----------------------------------------------------------------------------
(* The registry document, fencing.py. *)

Entry == [id : Snapshots \cup {NoSnapshot}, version : Nat]
NoEntry == [id |-> NoSnapshot, version |-> 0]

RegistryDoc ==
    [writer_epoch : Nat, writer_instance_id : Instances \cup {NoInstance},
     generation : Nat, latest : Entry]

Absent ==
    [writer_epoch |-> 0, writer_instance_id |-> NoInstance,
     generation |-> 0, latest |-> NoEntry]

(* Mutant: epochs count down. *)
EpochCountsDown(doc, i) ==
    [writer_epoch |-> doc.writer_epoch - 1, writer_instance_id |-> i,
     generation |-> doc.generation + 1, latest |-> doc.latest]

(* RegistryDoc.with_new_writer; of the absent document it is RegistryDoc.empty. *)
with_new_writer(doc, i) ==
    [writer_epoch |-> doc.writer_epoch + 1, writer_instance_id |-> i,
     generation |-> doc.generation + 1, latest |-> doc.latest]

with_committed_snapshot(doc, epoch, i, entry) ==
    [writer_epoch |-> epoch, writer_instance_id |-> i,
     generation |-> doc.generation + 1, latest |-> entry]

(* assert_lease_current: the document was written by this epoch and instance. *)
LeaseCurrent(doc, w) ==
    /\ doc.writer_epoch = lease[w]
    /\ doc.writer_instance_id = InstanceOf[w]

(* The owner metadata of a snapshot object: who uploaded it against what. *)
Tag == [epoch : Nat, instance : Instances \cup {NoInstance}, generation : Nat]
NoTag == [epoch |-> 0, instance |-> NoInstance, generation |-> 0]
OwnerTag(w) ==
    [epoch |-> lease[w], instance |-> InstanceOf[w], generation |-> cur[w].generation]

(* The ETag persist puts in If-Match, and the document it writes. *)
CasBase(w) == IF base[w] = Absent THEN cur[w] ELSE base[w]
CommitDoc(w) ==
    with_committed_snapshot(cur[w], lease[w], InstanceOf[w],
        [id |-> snap[w], version |-> cur[w].latest.version + 1])
AcquireDoc(w) == with_new_writer(cur[w], InstanceOf[w])

Put == [expected : RegistryDoc, doc : RegistryDoc]

PersistPhases ==
    {"read", "check", "upload", "cas", "rejected", "ambiguous", "record"}
Phases ==
    {"off", "acquire", "acquireCas", "ready", "failed", "dead"} \cup PersistPhases

TypeOK ==
    /\ registry \in RegistryDoc
    /\ blobs \in [Snapshots -> Tag]
    /\ records \in [Snapshots -> RegistryDoc]
    /\ inflight \in SUBSET Put
    /\ pc \in [Writers -> Phases]
    /\ restored \in [Writers -> BOOLEAN]
    /\ lease \in [Writers -> Nat]
    /\ base \in [Writers -> RegistryDoc]
    /\ cur \in [Writers -> RegistryDoc]
    /\ snap \in [Writers -> Snapshots \cup {NoSnapshot}]
    /\ receipt \in [Writers -> RegistryDoc]
    /\ files \in [Instances -> SUBSET Snapshots]
    /\ content \in [Snapshots -> SUBSET Snapshots]
    /\ acked \in SUBSET Snapshots
    /\ faults \in 0 .. MaxFaults
    /\ hist \in SUBSET RegistryDoc

Init ==
    /\ registry = Absent
    /\ blobs = [s \in Snapshots |-> NoTag]
    /\ records = [s \in Snapshots |-> Absent]
    /\ inflight = {}
    /\ pc = [w \in Writers |-> "off"]
    /\ restored = [w \in Writers |-> FALSE]
    /\ lease = [w \in Writers |-> 0]
    /\ base = [w \in Writers |-> Absent]
    /\ cur = [w \in Writers |-> Absent]
    /\ snap = [w \in Writers |-> NoSnapshot]
    /\ receipt = [w \in Writers |-> Absent]
    /\ files = [i \in Instances |-> {}]
    /\ content = [s \in Snapshots |-> {}]
    /\ acked = {}
    /\ faults = 0
    /\ hist = {Absent}

-----------------------------------------------------------------------------
(* S3 as the code uses it: conditional puts, and puts whose fate is unknown. *)

Goto(w, phase) == pc' = [pc EXCEPT ![w] = phase]

(* Mutant: the put carries no If-Match. *)
PutUnconditional(expected, doc) ==
    /\ registry' = doc
    /\ hist' = hist \cup {doc}

(* A conditional put of the registry that S3 accepts. *)
PutRegistry(expected, doc) ==
    /\ registry = expected
    /\ registry' = doc
    /\ hist' = hist \cup {doc}

Fault == faults < MaxFaults /\ faults' = faults + 1

(* The caller of this put stops waiting, or sees an error, and does not know
   whether it was applied: it was, or it still may be, later or never. *)
PutUnanswered(expected, doc) ==
    \/ PutRegistry(expected, doc) /\ UNCHANGED inflight
    \/ /\ inflight' = inflight \cup {[expected |-> expected, doc |-> doc]}
       /\ UNCHANGED <<registry, hist>>

(* A put nobody waits for any more reaches S3, where its condition is tested. *)
Land ==
    \E put \in inflight :
        /\ PutRegistry(put.expected, put.doc)
        /\ inflight' = inflight \ {put}
        /\ UNCHANGED <<blobs, records, pc, restored, lease, base, cur, snap,
                       receipt, files, content, acked, faults>>

-----------------------------------------------------------------------------
(* Becoming the writer: restore, then acquire_writer. *)

(* Without overlap a control starts, or replaces an instance, only when no
   other writer of the domain is running. *)
MayStart(w) == Overlap \/ \A v \in Writers \ {w} : pc[v] \in {"off", "dead"}

Running(i) == \E v \in Writers : InstanceOf[v] = i /\ pc[v] # "off"

(* Mutant: a running instance is adopted whoever the registry names. *)
AdoptsAnyRunning(w) == Running(InstanceOf[w])

(* A running instance is adopted and keeps its files when the registry names it,
   or no registry exists; any other one gets the latest committed snapshot. *)
Adopts(w) ==
    /\ Running(InstanceOf[w])
    /\ registry.writer_instance_id \in {InstanceOf[w], NoInstance}

Start(w) ==
    /\ pc[w] = "off"
    /\ MayStart(w)
    /\ Goto(w, "acquire")
    /\ restored' = [restored EXCEPT ![w] = ~Adopts(w)]
    /\ files' = IF Adopts(w) THEN files
                ELSE [files EXCEPT ![InstanceOf[w]] =
                         IF registry.latest = NoEntry THEN {}
                         ELSE content[registry.latest.id]]
    /\ UNCHANGED <<bucket, lease, base, cur, snap, receipt, content, acked, faults, hist>>

AcquireRead(w) ==
    /\ pc[w] = "acquire"
    /\ cur' = [cur EXCEPT ![w] = registry]
    /\ Goto(w, "acquireCas")
    /\ UNCHANGED <<bucket, restored, lease, base, snap, receipt, files, content, acked,
                   faults, hist>>

(* The lease, and the predecessor the first commit of this writer will name. *)
Acquire(w) ==
    /\ pc[w] = "acquireCas"
    /\ PutRegistry(cur[w], AcquireDoc(w))
    /\ lease' = [lease EXCEPT ![w] = AcquireDoc(w).writer_epoch]
    /\ base' = [base EXCEPT ![w] =
                   IF cur[w].latest = NoEntry THEN Absent ELSE AcquireDoc(w)]
    /\ Goto(w, "ready")
    /\ UNCHANGED <<blobs, records, inflight, restored, cur, snap, receipt, files, content,
                   acked, faults>>

(* A failed acquisition ends the activation of a restored instance; for an
   adopted one the next lifecycle tick tries again. *)
AcquireErrorPhase(w) == IF restored[w] THEN "dead" ELSE "acquire"

(* The put was refused: read again, until the retry limit. *)
AcquireRejected(w) ==
    /\ pc[w] = "acquireCas"
    /\ registry # cur[w]
    /\ \E phase \in {"acquire", AcquireErrorPhase(w)} : Goto(w, phase)
    /\ UNCHANGED <<bucket, restored, lease, base, cur, snap, receipt, files, content,
                   acked, faults, hist>>

(* A transient error: the epoch may have been taken without a lease. *)
AcquireUnanswered(w) ==
    /\ pc[w] = "acquireCas"
    /\ Fault
    /\ PutUnanswered(cur[w], AcquireDoc(w))
    /\ Goto(w, AcquireErrorPhase(w))
    /\ UNCHANGED <<blobs, records, restored, lease, base, cur, snap, receipt, files,
                   content, acked>>

(* The put is applied and refused when the SDK sends it again: a second epoch
   will be taken. *)
AcquireRepeated(w) ==
    /\ pc[w] = "acquireCas"
    /\ Fault
    /\ PutRegistry(cur[w], AcquireDoc(w))
    /\ Goto(w, "acquire")
    /\ UNCHANGED <<blobs, records, inflight, restored, lease, base, cur, snap, receipt,
                   files, content, acked>>

-----------------------------------------------------------------------------
(* One close: capture an archive under a new snapshot id and persist it, with
   retries under the same id until the retry window is over. *)

BeginClose(w) ==
    /\ pc[w] = "ready"
    /\ \E s \in Snapshots :
        /\ content[s] = {}
        /\ snap' = [snap EXCEPT ![w] = s]
        /\ content' = [content EXCEPT ![s] = files[InstanceOf[w]] \cup {s}]
        /\ files' = [files EXCEPT ![InstanceOf[w]] = @ \cup {s}]
    /\ Goto(w, "read")
    /\ UNCHANGED <<bucket, restored, lease, base, cur, receipt, acked, faults, hist>>

PersistRead(w) ==
    /\ pc[w] = "read"
    /\ cur' = [cur EXCEPT ![w] = registry]
    /\ Goto(w, IF LeaseCurrent(registry, w) THEN "check" ELSE "failed")
    /\ UNCHANGED <<bucket, restored, lease, base, snap, receipt, files, content, acked,
                   faults, hist>>

(* Returning a receipt: the caller validates it and it is the next predecessor. *)
ReturnReceipt(w, etag) ==
    IF etag.writer_epoch = lease[w] /\ etag.latest.id = snap[w]
    THEN /\ Goto(w, "ready")
         /\ base' = [base EXCEPT ![w] = etag]
         /\ acked' = acked \cup {snap[w]}
    ELSE Goto(w, "failed") /\ UNCHANGED <<base, acked>>

(* Mutant: the upload is left for later and the CAS comes first. *)
CommitBeforeUpload(w) ==
    /\ pc[w] = "check"
    /\ Goto(w, "cas")
    /\ UNCHANGED <<bucket, restored, lease, base, cur, snap, receipt, files, content,
                   acked, faults, hist>>

(* The commit record answers a retry; a matching latest only lacks its record. *)
PersistCheck(w) ==
    /\ pc[w] = "check"
    /\ \/ /\ records[snap[w]] # Absent
          /\ ReturnReceipt(w, records[snap[w]])
          /\ UNCHANGED receipt
       \/ /\ records[snap[w]] = Absent
          /\ cur[w].latest.id = snap[w]
          /\ receipt' = [receipt EXCEPT ![w] = cur[w]]
          /\ Goto(w, "record")
          /\ UNCHANGED <<base, acked>>
       \/ /\ records[snap[w]] = Absent
          /\ cur[w].latest.id # snap[w]
          /\ Goto(w, "upload")
          /\ UNCHANGED <<base, acked, receipt>>
    /\ UNCHANGED <<bucket, restored, lease, cur, snap, files, content, faults, hist>>

(* expected_base=None is refused once a snapshot is committed. *)
BaseAllowed(w) == base[w] = Absent => cur[w].latest = NoEntry

(* Create the immutable object, or find the one this attempt left behind. *)
Upload(w) ==
    /\ pc[w] = "upload"
    /\ blobs' = [blobs EXCEPT ![snap[w]] = IF @ = NoTag THEN OwnerTag(w) ELSE @]
    /\ Goto(w, IF blobs'[snap[w]] = OwnerTag(w) /\ BaseAllowed(w) THEN "cas" ELSE "failed")
    /\ UNCHANGED <<registry, records, inflight, restored, lease, base, cur, snap, receipt,
                   files, content, acked, faults, hist>>

UploadUnanswered(w) ==
    /\ pc[w] = "upload"
    /\ Fault
    /\ \/ blobs[snap[w]] = NoTag /\ blobs' = [blobs EXCEPT ![snap[w]] = OwnerTag(w)]
       \/ UNCHANGED blobs
    /\ Goto(w, "read")
    /\ UNCHANGED <<registry, records, inflight, restored, lease, base, cur, snap, receipt,
                   files, content, acked, hist>>

Commit(w) ==
    /\ pc[w] = "cas"
    /\ PutRegistry(CasBase(w), CommitDoc(w))
    /\ receipt' = [receipt EXCEPT ![w] = CommitDoc(w)]
    /\ Goto(w, "record")
    /\ UNCHANGED <<blobs, records, inflight, restored, lease, base, cur, snap, files,
                   content, acked, faults>>

CommitRejected(w) ==
    /\ pc[w] = "cas"
    /\ registry # CasBase(w)
    /\ Goto(w, "rejected")
    /\ UNCHANGED <<bucket, restored, lease, base, cur, snap, receipt, files, content,
                   acked, faults, hist>>

(* An error instead of an answer ("ambiguous"), or the retry window ending while
   a worker thread still runs the put ("ready": the close fails as transient). *)
CommitUnanswered(w) ==
    /\ pc[w] = "cas"
    /\ Fault
    /\ PutUnanswered(CasBase(w), CommitDoc(w))
    /\ \E phase \in {"ambiguous", "ready"} : Goto(w, phase)
    /\ UNCHANGED <<blobs, records, restored, lease, base, cur, snap, receipt, files,
                   content, acked>>

(* The put is applied and refused when the SDK sends it again. *)
CommitRepeated(w) ==
    /\ pc[w] = "cas"
    /\ Fault
    /\ PutRegistry(CasBase(w), CommitDoc(w))
    /\ Goto(w, "rejected")
    /\ UNCHANGED <<blobs, records, inflight, restored, lease, base, cur, snap, receipt,
                   files, content, acked>>

(* Mutant: the receipt is built from the document read before the put. *)
ReconcileWithStaleRead(w) ==
    /\ pc[w] \in {"ambiguous", "rejected"}
    /\ LeaseCurrent(registry, w)
    /\ registry.latest.id = snap[w]
    /\ receipt' = [receipt EXCEPT ![w] = cur[w]]
    /\ Goto(w, "record")
    /\ UNCHANGED <<bucket, restored, lease, base, cur, snap, files, content, acked,
                   faults, hist>>

(* _reconciled_receipt_if_applied: one read decides whether the put was applied. *)
Reconcile(w) ==
    /\ pc[w] \in {"ambiguous", "rejected"}
    /\ \/ /\ LeaseCurrent(registry, w)
          /\ registry.latest.id = snap[w]
          /\ receipt' = [receipt EXCEPT ![w] = registry]
          /\ Goto(w, "record")
       \/ /\ ~(LeaseCurrent(registry, w) /\ registry.latest.id = snap[w])
          /\ Goto(w, IF pc[w] = "ambiguous" /\ LeaseCurrent(registry, w)
                        /\ registry.latest = cur[w].latest
                     THEN "read" ELSE "failed")
          /\ UNCHANGED receipt
    /\ UNCHANGED <<bucket, restored, lease, base, cur, snap, files, content, acked,
                   faults, hist>>

(* _write_commit_record: create it; an existing one must say the same. *)
WriteRecord(w) ==
    /\ pc[w] = "record"
    /\ records' = [records EXCEPT ![snap[w]] = IF @ = Absent THEN receipt[w] ELSE @]
    /\ IF records'[snap[w]] = receipt[w]
       THEN ReturnReceipt(w, receipt[w])
       ELSE Goto(w, "failed") /\ UNCHANGED <<base, acked>>
    /\ UNCHANGED <<registry, blobs, inflight, restored, lease, cur, snap, receipt, files,
                   content, faults, hist>>

WriteRecordUnanswered(w) ==
    /\ pc[w] = "record"
    /\ Fault
    /\ \/ /\ records[snap[w]] = Absent
          /\ records' = [records EXCEPT ![snap[w]] = receipt[w]]
       \/ UNCHANGED records
    /\ Goto(w, "read")
    /\ UNCHANGED <<registry, blobs, inflight, restored, lease, base, cur, snap, receipt,
                   files, content, acked, hist>>

(* The retry window of the close is over: SnapshotTransientFailure.  The
   instance keeps serving and a later close starts again, with a new id. *)
GiveUp(w) ==
    /\ pc[w] \in PersistPhases
    /\ Goto(w, "ready")
    /\ UNCHANGED <<bucket, restored, lease, base, cur, snap, receipt, files, content,
                   acked, faults, hist>>

(* The control process stops or dies, or its instance is retired. *)
Stop(w) ==
    /\ pc[w] \notin {"off", "dead"}
    /\ Goto(w, "dead")
    /\ UNCHANGED <<bucket, restored, lease, base, cur, snap, receipt, files, content,
                   acked, faults, hist>>

-----------------------------------------------------------------------------
Step(w) ==
    \/ Start(w) \/ AcquireRead(w) \/ Acquire(w) \/ AcquireRejected(w)
    \/ AcquireUnanswered(w) \/ AcquireRepeated(w)
    \/ BeginClose(w) \/ PersistRead(w) \/ PersistCheck(w)
    \/ Upload(w) \/ UploadUnanswered(w) \/ Commit(w) \/ CommitRejected(w)
    \/ CommitUnanswered(w) \/ CommitRepeated(w) \/ Reconcile(w)
    \/ WriteRecord(w) \/ WriteRecordUnanswered(w)
    \/ GiveUp(w) \/ Stop(w)

Next == Land \/ \E w \in Writers : Step(w)

Spec == Init /\ [][Next]_vars

-----------------------------------------------------------------------------
(* Properties. *)

(* The snapshot the registry points at has been uploaded: restore never finds a
   pointer without bytes, whatever crashed between the upload and the CAS. *)
LatestIsDurable == registry.latest # NoEntry => blobs[registry.latest.id] # NoTag

(* However often a close is retried, and however late its puts arrive, a
   snapshot is committed at most once: no two registry documents carry the same
   snapshot as different versions. *)
CommittedOnce ==
    \A d, e \in hist : d.latest.id = e.latest.id => d.latest = e.latest

(* A commit record, which answers later retries in place of the registry, names
   the document that committed that very snapshot. *)
RecordsAreTrue ==
    \A s \in Snapshots :
        records[s] # Absent => records[s] \in hist /\ records[s].latest.id = s

(* A snapshot whose persist returned a receipt stays part of what a restore
   would return: later snapshots contain its work. *)
AckedIsKept ==
    \A s \in acked :
        registry.latest # NoEntry /\ s \in content[registry.latest.id]

(* Fencing: only the writer the registry names moves latest, by one version,
   without touching the epoch; and a new epoch keeps latest. *)
Fenced ==
    [][ registry' # registry =>
          /\ registry'.generation = registry.generation + 1
          /\ \/ /\ registry'.latest = registry.latest
                /\ registry'.writer_epoch = registry.writer_epoch + 1
             \/ /\ registry'.latest.version = registry.latest.version + 1
                /\ registry'.writer_epoch = registry.writer_epoch
                /\ registry'.writer_instance_id = registry.writer_instance_id ]_vars

(* The domain behaves as the register the contract describes. *)
Register == INSTANCE FencedRegister WITH
    epoch <- registry.writer_epoch,
    owner <- registry.writer_instance_id,
    latest <- registry.latest.id,
    committed <- {d.latest.id : d \in hist} \ {NoSnapshot}

(* Every step of the bucket and its writers is a step of that register. *)
ImplementsRegister == Register!Spec

(* A control keeps taking the steps of the operation it is in. *)
Progress(w) ==
    \/ AcquireRead(w) \/ Acquire(w) \/ AcquireRejected(w) \/ BeginClose(w)
    \/ PersistRead(w) \/ PersistCheck(w) \/ Upload(w) \/ Commit(w)
    \/ CommitRejected(w) \/ Reconcile(w) \/ WriteRecord(w)

FairSpec == Spec /\ \A w \in Writers : WF_vars(Progress(w))

(* Section 11 of the contract: PersistenceFailed keeps retrying in the
   background.  A writer that still owns the domain and whose close failed
   tries again, or stops. *)
FailedCloseIsRetried ==
    \A w \in Writers :
        (pc[w] = "failed" /\ LeaseCurrent(registry, w)) ~> (pc[w] # "failed")
=============================================================================
