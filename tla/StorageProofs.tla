---------------------------- MODULE StorageProofs ----------------------------
(***************************************************************************)
(* Proofs about the whole bucket, for any callers, publications, retention *)
(* and number of mishaps.                                                  *)
(***************************************************************************)
EXTENDS Storage, SnapshotStoreProofs, SequenceTheorems

-----------------------------------------------------------------------------
(* Acknowledged work, when controls of a domain do not overlap.            *)

Live(w) == pc[w] \notin {"off", "dead"}
Leased(w) == Live(w) /\ pc[w] \notin {"acquire", "acquireCas"}

OneLive == \A v, w \in Writers : Live(v) /\ Live(w) => v = w

(* A control that has its lease is the one the registry names. *)
LeasesAreCurrent == \A w \in Writers : Leased(w) => LeaseCurrent(registry, w)

(* The files of the live control, and the archive it captured, hold all the
   acknowledged work. *)
LiveHasWork ==
    \A w \in Writers : Live(w) =>
        /\ acked \subseteq files[InstanceOf[w]]
        /\ snap[w] \in Snapshots =>
             /\ snap[w] \in files[InstanceOf[w]] \cap content[snap[w]]
             /\ acked \subseteq content[snap[w]]

(* So do the files of the instance a restart would adopt. *)
OwnerHasWork ==
    /\ registry.writer_instance_id \in Instances =>
          acked \subseteq files[registry.writer_instance_id]
    /\ registry.writer_instance_id = NoInstance => registry.latest = NoEntry

(* A put that may still be applied takes no acknowledged work away: a commit
   captured all of it; a new epoch is for an instance that has it, and is from
   before the present control got its lease. *)
LateKeepsWork ==
    \A put \in inflight : put.expected = registry =>
        IF put.doc.writer_epoch = registry.writer_epoch
        THEN acked \subseteq content[put.doc.latest.id]
        ELSE /\ acked \subseteq files[put.doc.writer_instance_id]
             /\ \A w \in Writers : ~Leased(w)

KeptInv ==
    OneLive /\ LeasesAreCurrent /\ LiveHasWork /\ OwnerHasWork /\ LateKeepsWork /\ AckedIsKept

(* What tells the two documents that may follow the registry apart. *)
LEMMA FollowingDoc ==
  ASSUME IndInv, NEW doc, MayFollow(doc)
  PROVE  /\ doc.writer_instance_id \in Instances
         /\ doc.writer_epoch # registry.writer_epoch =>
              NewWriterDoc(doc) /\ doc.latest = registry.latest
         /\ doc.writer_epoch = registry.writer_epoch =>
              /\ NewCommitDoc(doc)
              /\ doc.writer_instance_id = registry.writer_instance_id
              /\ doc.latest.id \in Snapshots
<1>1. registry.writer_epoch \in Nat
  BY DEF IndInv, TypeOK, RegistryDoc
<1> QED
  BY <1>1
     DEF MayFollow, NewWriterDoc, NewCommitDoc, with_new_writer, with_committed_snapshot

(* The registry moves on, by a put of the live control or by a late one. *)
LEMMA AdvanceKeeps ==
  ASSUME IndInv, KeptInv, NEW doc \in RegistryDoc, Advance(doc),
         UNCHANGED <<files, content, acked, snap>>,
         inflight' \subseteq inflight,
         doc.writer_epoch = registry.writer_epoch => acked \subseteq content[doc.latest.id],
         doc.writer_epoch # registry.writer_epoch => acked \subseteq files[doc.writer_instance_id],
         \A v \in Writers : Live(v)' => Live(v),
         LeasesAreCurrent'
  PROVE  KeptInv'
<1> USE DEF KeptInv
<1>1. registry' = doc /\ MayFollow(doc)
  BY DEF Advance
<1>2. \A put \in inflight' : put.expected # registry'
  BY <1>1, AdvanceIsNewer DEF IndInv, LateIsSafe
<1>3. OneLive' /\ LiveHasWork'
  BY DEF OneLive, LiveHasWork
<1>4. AckedIsKept' /\ OwnerHasWork'
  BY <1>1, FollowingDoc, NoneAssumption DEF AckedIsKept, OwnerHasWork, NoEntry
<1>5. LateKeepsWork'
  BY <1>2 DEF LateKeepsWork
<1> QED
  BY <1>3, <1>4, <1>5

(* The registry does not move and no work is captured or acknowledged. *)
LEMMA QuietKeeps ==
  ASSUME KeptInv,
         UNCHANGED <<registry, files, content, acked, snap, lease>>,
         \A put \in inflight' \ inflight : put.expected = registry =>
             IF put.doc.writer_epoch = registry.writer_epoch
             THEN acked \subseteq content[put.doc.latest.id]
             ELSE /\ acked \subseteq files[put.doc.writer_instance_id]
                  /\ \A w \in Writers : ~Leased(w)',
         \A v \in Writers : (Live(v)' => Live(v)) /\ (Leased(v)' => Leased(v))
  PROVE  KeptInv'
<1> USE DEF KeptInv
<1>1. OneLive' /\ LiveHasWork'
  BY DEF OneLive, LiveHasWork
<1>2. LeasesAreCurrent'
  BY DEF LeasesAreCurrent, LeaseCurrent
<1>3. AckedIsKept' /\ OwnerHasWork'
  BY DEF AckedIsKept, OwnerHasWork
<1>4. LateKeepsWork'
  BY DEF LateKeepsWork
<1> QED
  BY <1>1, <1>2, <1>3, <1>4

(* A step of a live control leaves the others where they are. *)
LEMMA LiveFrame ==
  ASSUME IndInv, KeptInv, NEW w \in Writers, Step(w), Live(w), NEW v \in Writers
  PROVE  /\ Live(v)' => Live(v)
         /\ v # w => ~Leased(v)' /\ ~Leased(v)
<1>1. CASE v = w
  BY <1>1
<1>2. CASE v # w
  BY <1>2, OthersUnchanged DEF Live, Leased, KeptInv, OneLive
<1> QED
  BY <1>1, <1>2

(* A control that starts finds the acknowledged work: in the files of the
   instance it adopts, or in the snapshot it restores. *)
LEMMA StartKeeps ==
  ASSUME Overlap = FALSE, IndInv, KeptInv, NEW w \in Writers, Start(w)
  PROVE  KeptInv'
<1> USE DEF KeptInv, IndInv
<1>1. /\ UNCHANGED <<registry, inflight, lease, snap, content, acked>>
      /\ pc' = [pc EXCEPT ![w] = "acquire"]
      /\ pc \in [Writers -> Phases] /\ files \in [Instances -> SUBSET Snapshots]
      /\ \A v \in Writers : v # w => ~Live(v)
      /\ InstanceOf[w] \in Instances
      /\ snap[w] \notin Snapshots
  BY InstanceOfAssumption, NoneAssumption
     DEF Start, Goto, MayStart, bucket, TypeOK, Live, Local
<1>2. \A v \in Writers : (Live(v)' => v = w) /\ ~Leased(v)'
  BY <1>1 DEF Live, Leased
<1>3. /\ \A i \in Instances : acked \subseteq files[i] => acked \subseteq files'[i]
      /\ acked \subseteq files'[InstanceOf[w]]
  <2>1. CASE Adopts(w)
    <3>1. acked \subseteq files[InstanceOf[w]]
      BY <2>1, <1>1 DEF Adopts, OwnerHasWork, AckedIsKept
    <3> QED
      BY <2>1, <3>1 DEF Start
  <2>2. CASE ~Adopts(w)
    BY <1>1, <2>2 DEF Start, AckedIsKept
  <2> QED
    BY <2>1, <2>2
<1>4. OneLive' /\ LeasesAreCurrent' /\ LiveHasWork'
  BY <1>1, <1>2, <1>3 DEF OneLive, LeasesAreCurrent, LiveHasWork
<1>5. AckedIsKept' /\ OwnerHasWork'
  BY <1>1, <1>3 DEF AckedIsKept, OwnerHasWork
<1>6. LateKeepsWork'
  <2>1. \A put \in inflight : put.expected = registry =>
            put.doc.writer_instance_id \in Instances
    BY FollowingDoc DEF LateIsSafe
  <2> QED
    BY <1>1, <1>2, <1>3, <2>1 DEF LateKeepsWork
<1> QED
  BY <1>4, <1>5, <1>6

(* The steps up to the lease. *)
LEMMA AcquireKeeps ==
  ASSUME IndInv, KeptInv, NEW w \in Writers,
         \/ AcquireRead(w) \/ Acquire(w) \/ AcquireRejected(w)
         \/ AcquireUnanswered(w) \/ AcquireRepeated(w)
  PROVE  KeptInv'
<1> USE DEF KeptInv, IndInv
<1>1. /\ Step(w) /\ pc[w] \in {"acquire", "acquireCas"} /\ pc \in [Writers -> Phases]
      /\ UNCHANGED <<files, content, acked, snap>>
      /\ AcquireDoc(w) \in RegistryDoc
      /\ AcquireDoc(w).writer_instance_id = InstanceOf[w]
  BY DocTypes
     DEF Step, AcquireRead, Acquire, AcquireRejected, AcquireUnanswered, AcquireRepeated, TypeOK,
         AcquireDoc, with_new_writer
<1>2. /\ Live(w) /\ ~Leased(w) /\ acked \subseteq files[InstanceOf[w]]
      /\ \A v \in Writers : (Live(v)' => Live(v)) /\ ~Leased(v) /\ (v # w => ~Leased(v)')
  <2>1. Live(w) /\ ~Leased(w)
    BY <1>1 DEF Live, Leased
  <2> QED
    BY <1>1, <2>1, LiveFrame DEF LiveHasWork
<1>3. CASE Acquire(w)
  <2>1. Advance(AcquireDoc(w)) /\ UNCHANGED inflight
    BY <1>3, AcquireIsSafe DEF Acquire, PutRegistry, Advance
  <2>2. LeasesAreCurrent'
    <3>1. LeaseCurrent(registry, w)'
      BY <1>1, <1>3 DEF Acquire, PutRegistry, LeaseCurrent, TypeOK
    <3> QED
      BY <1>2, <3>1 DEF LeasesAreCurrent
  <2>3. AcquireDoc(w).writer_epoch # registry.writer_epoch
    BY <1>3 DEF Acquire, PutRegistry, AcquireDoc, with_new_writer, TypeOK, RegistryDoc
  <2> QED
    BY <1>1, <1>2, <2>1, <2>2, <2>3, AdvanceKeeps
<1>4. CASE ~Acquire(w)
  <2>1. UNCHANGED lease /\ \A v \in Writers : ~Leased(v)'
    BY <1>1, <1>2, <1>4
       DEF AcquireRead, AcquireRejected, AcquireUnanswered, AcquireRepeated, AcquireErrorPhase,
           Goto, Live, Leased
  <2>2. CASE PutRegistry(cur[w], AcquireDoc(w)) /\ UNCHANGED inflight
    <3>1. Advance(AcquireDoc(w))
      BY <2>2, AcquireIsSafe DEF PutRegistry, Advance
    <3>2. AcquireDoc(w).writer_epoch # registry.writer_epoch
      BY <2>2 DEF PutRegistry, AcquireDoc, with_new_writer, TypeOK, RegistryDoc
    <3> QED
      BY <1>1, <1>2, <2>1, <2>2, <3>1, <3>2, AdvanceKeeps DEF LeasesAreCurrent
  <2>3. CASE UNCHANGED registry
    <3>1. \A put \in inflight' \ inflight : put = [expected |-> cur[w], doc |-> AcquireDoc(w)]
      BY <1>4, <1>1
         DEF AcquireRead, AcquireRejected, AcquireUnanswered, AcquireRepeated, PutUnanswered,
             bucket
    <3>2. \A put \in inflight' \ inflight : put.expected = registry =>
             put.doc.writer_epoch # registry.writer_epoch
      BY <3>1 DEF AcquireDoc, with_new_writer, TypeOK, RegistryDoc
    <3> QED
      BY <1>1, <1>2, <2>1, <2>3, <3>1, <3>2, QuietKeeps
  <2> QED
    BY <1>4, <2>2, <2>3
       DEF AcquireRead, AcquireRejected, AcquireUnanswered, AcquireRepeated, PutUnanswered, bucket
<1> QED
  BY <1>3, <1>4

(* A close captures the files of its instance, which hold all the work. *)
LEMMA CaptureKeeps ==
  ASSUME IndInv, KeptInv, NEW w \in Writers, BeginClose(w)
  PROVE  KeptInv'
<1> USE DEF KeptInv, IndInv
<1>1. PICK s \in Snapshots :
        /\ content[s] = {}
        /\ snap' = [snap EXCEPT ![w] = s]
        /\ content' = [content EXCEPT ![s] = files[InstanceOf[w]] \cup {s}]
        /\ files' = [files EXCEPT ![InstanceOf[w]] = @ \cup {s}]
  BY DEF BeginClose
<1>2. /\ UNCHANGED <<registry, inflight, lease, acked>>
      /\ pc[w] = "ready" /\ pc' = [pc EXCEPT ![w] = "read"]
      /\ pc \in [Writers -> Phases] /\ files \in [Instances -> SUBSET Snapshots]
      /\ content \in [Snapshots -> SUBSET Snapshots]
      /\ snap \in [Writers -> Snapshots \cup {NoSnapshot}]
      /\ InstanceOf[w] \in Instances
  BY InstanceOfAssumption DEF BeginClose, Goto, bucket, TypeOK
<1>3. \A v \in Writers : (Live(v)' <=> Live(v)) /\ (Leased(v)' <=> Leased(v))
  BY <1>2 DEF Live, Leased
<1>4. Live(w) /\ \A v \in Writers : Live(v) => v = w
  BY <1>2 DEF Live, OneLive
<1>5. /\ \A i \in Instances : files[i] \subseteq files'[i]
      /\ \A t \in Snapshots : content[t] \subseteq content'[t]
      /\ snap'[w] = s /\ s \in files'[InstanceOf[w]] /\ content'[s] = files[InstanceOf[w]] \cup {s}
  BY <1>1, <1>2
<1>6. OneLive' /\ LeasesAreCurrent'
  BY <1>2, <1>3 DEF OneLive, LeasesAreCurrent, LeaseCurrent
<1>7. LiveHasWork'
  BY <1>2, <1>3, <1>4, <1>5 DEF LiveHasWork
<1>8. AckedIsKept' /\ OwnerHasWork'
  <2>1. registry.latest # NoEntry => registry.latest.id \in Snapshots
    BY DEF Ordered, TypeOK, RegistryDoc, Entry
  <2> QED
    BY <1>2, <1>5, <2>1 DEF AckedIsKept, OwnerHasWork
<1>9. LateKeepsWork'
  <2>1. \A put \in inflight : put.expected = registry =>
            /\ put.doc.writer_instance_id \in Instances
            /\ put.doc.writer_epoch = registry.writer_epoch => put.doc.latest.id \in Snapshots
    BY FollowingDoc DEF LateIsSafe
  <2> QED
    BY <1>2, <1>3, <1>5, <2>1 DEF LateKeepsWork
<1> QED
  BY <1>6, <1>7, <1>8, <1>9

(* The archive a close commits was captured by the live control. *)
LEMMA CommitKeeps ==
  ASSUME IndInv, KeptInv, NEW w \in Writers,
         Commit(w) \/ CommitUnanswered(w) \/ CommitRepeated(w)
  PROVE  KeptInv'
<1> USE DEF KeptInv, IndInv
<1>1. /\ Step(w) /\ pc[w] = "cas" /\ pc \in [Writers -> Phases]
      /\ UNCHANGED <<files, content, acked, snap, lease>>
      /\ Leased(w) /\ Live(w)
  BY DEF Step, Commit, CommitUnanswered, CommitRepeated, TypeOK, Live, Leased
<1>2. /\ snap[w] \in Snapshots /\ acked \subseteq content[snap[w]]
      /\ CommitDoc(w).latest.id = snap[w] /\ CommitDoc(w) \in RegistryDoc
      /\ CommitDoc(w).writer_epoch = registry.writer_epoch
      /\ CommitDoc(w).writer_instance_id = registry.writer_instance_id
      /\ LeaseCurrent(registry, w)
  <2>1. snap[w] \in Snapshots
    BY <1>1 DEF Local, PersistPhases
  <2>2. LeaseCurrent(registry, w)
    BY <1>1 DEF LeasesAreCurrent
  <2> QED
    BY <1>1, <2>1, <2>2, DocTypes
       DEF LiveHasWork, CommitDoc, with_committed_snapshot, LeaseCurrent
<1>3. \A v \in Writers : (Live(v)' => Live(v)) /\ (Leased(v)' => Leased(v))
  BY <1>1, LiveFrame
<1>4. CASE PutRegistry(CasBase(w), CommitDoc(w)) /\ UNCHANGED inflight
  <2>1. Advance(CommitDoc(w))
    BY <1>1, <1>4, CommitIsSafe DEF PutRegistry, Advance
  <2>2. LeasesAreCurrent'
    BY <1>1, <1>2, <1>3, <1>4 DEF LeasesAreCurrent, LeaseCurrent, PutRegistry
  <2> QED
    BY <1>1, <1>2, <1>3, <1>4, <2>1, <2>2, AdvanceKeeps
<1>5. CASE /\ UNCHANGED registry
           /\ inflight' = inflight \cup {[expected |-> CasBase(w), doc |-> CommitDoc(w)]}
  BY <1>1, <1>2, <1>3, <1>5, QuietKeeps
<1> QED
  BY <1>4, <1>5 DEF Commit, CommitUnanswered, CommitRepeated, PutUnanswered

(* What is acknowledged is the latest snapshot of the one control that is live. *)
LEMMA AckKeeps ==
  ASSUME IndInv, KeptInv, NEW w \in Writers, PersistCheck(w) \/ WriteRecord(w)
  PROVE  KeptInv'
<1> USE DEF KeptInv, IndInv
<1>1. /\ Step(w) /\ pc[w] \in {"check", "record"} /\ pc \in [Writers -> Phases]
      /\ UNCHANGED <<registry, inflight, files, content, snap, lease, hist>>
      /\ Leased(w) /\ Live(w)
      /\ snap[w] \in Snapshots
  BY DEF Step, PersistCheck, WriteRecord, TypeOK, Live, Leased, bucket, Local, PersistPhases
<1>2. \A v \in Writers : (Live(v)' => Live(v)) /\ (Leased(v)' => Leased(v))
  BY <1>1, LiveFrame
<1>3. CASE UNCHANGED acked
  BY <1>1, <1>2, <1>3, QuietKeeps
<1>4. CASE acked' # acked
  <2>1. acked' = acked \cup {snap[w]}
    BY <1>4 DEF PersistCheck, WriteRecord, ReturnReceipt
  <2>2. \E d \in hist : d.latest.id = snap[w]
    <3>1. records[snap[w]] # Absent =>
             records[snap[w]] \in hist /\ records[snap[w]].latest.id = snap[w]
      BY <1>1 DEF RecordsAreTrue
    <3>2. pc[w] = "record" => receipt[w] \in hist /\ receipt[w].latest.id = snap[w]
      BY DEF Local
    <3> QED
      BY <1>4, <3>1, <3>2 DEF PersistCheck, WriteRecord
  <2>3. LeaseCurrent(registry, w) /\ registry.latest.id = snap[w]
    BY <1>1, <2>2 DEF LeasesAreCurrent, LeaseCurrent, Settled
  <2>4. OneLive' /\ LeasesAreCurrent'
    BY <1>1, <1>2 DEF OneLive, LeasesAreCurrent, LeaseCurrent
  <2>5. LiveHasWork'
    BY <1>1, <1>2, <2>1 DEF LiveHasWork, OneLive
  <2>6. AckedIsKept' /\ OwnerHasWork'
    BY <1>1, <2>1, <2>3, NoneAssumption
       DEF AckedIsKept, OwnerHasWork, LiveHasWork, LeaseCurrent, NoEntry
  <2>7. \A put \in inflight : put.expected # registry
    <3> SUFFICES ASSUME NEW put \in inflight, put.expected = registry PROVE FALSE
      OBVIOUS
    <3>1. put.doc.writer_epoch = registry.writer_epoch
      BY <1>1 DEF LateKeepsWork
    <3>2. NewCommitDoc(put.doc)
      BY <3>1, FollowingDoc DEF LateIsSafe
    <3> QED
      BY <1>1, <2>3, <3>2 DEF NewCommitDoc, LeaseCurrent
  <2>8. LateKeepsWork'
    BY <1>1, <2>7 DEF LateKeepsWork
  <2> QED
    BY <2>4, <2>5, <2>6, <2>8
<1> QED
  BY <1>3, <1>4

LEMMA KeptStep == Overlap = FALSE /\ IndInv /\ KeptInv /\ [Next]_vars => KeptInv'
<1> SUFFICES ASSUME Overlap = FALSE, IndInv, KeptInv, [Next]_vars PROVE KeptInv'
  OBVIOUS
<1>1. CASE Land
  <2>1. PICK put \in inflight : /\ PutRegistry(put.expected, put.doc)
                                /\ inflight' = inflight \ {put}
    BY <1>1 DEF Land
  <2>2. /\ UNCHANGED <<pc, files, content, acked, snap, lease>>
        /\ put.expected = registry /\ put.doc \in RegistryDoc
        /\ MayFollow(put.doc) /\ Advance(put.doc)
    BY <1>1, <2>1 DEF Land, PutRegistry, Advance, IndInv, LateIsSafe, TypeOK, Put
  <2>3. LeasesAreCurrent'
    BY <2>1, <2>2, FollowingDoc
       DEF LeasesAreCurrent, LeaseCurrent, Leased, Live, KeptInv, LateKeepsWork, PutRegistry
  <2>4. /\ put.doc.writer_epoch = registry.writer_epoch => acked \subseteq content[put.doc.latest.id]
        /\ put.doc.writer_epoch # registry.writer_epoch =>
             acked \subseteq files[put.doc.writer_instance_id]
    BY <2>2 DEF KeptInv, LateKeepsWork
  <2> QED
    BY <2>1, <2>2, <2>3, <2>4, AdvanceKeeps DEF Live
<1>2. ASSUME NEW w \in Writers,
             \/ PersistRead(w) \/ Upload(w) \/ UploadUnanswered(w) \/ CommitRejected(w)
             \/ Reconcile(w) \/ WriteRecordUnanswered(w) \/ GiveUp(w) \/ Stop(w)
      PROVE  KeptInv'
  <2>1. /\ Step(w) /\ Live(w) /\ (Leased(w)' => Leased(w))
        /\ UNCHANGED <<registry, inflight, files, content, acked, snap, lease>>
    BY <1>2
       DEF Step, PersistRead, Upload, UploadUnanswered, CommitRejected, Reconcile,
           WriteRecordUnanswered, GiveUp, Stop, bucket, Live, Leased, Goto, PersistPhases,
           IndInv, TypeOK
  <2>2. \A v \in Writers : (Live(v)' => Live(v)) /\ (Leased(v)' => Leased(v))
    BY <2>1, LiveFrame
  <2> QED
    BY <2>1, <2>2, QuietKeeps
<1>3. CASE UNCHANGED vars
  <2>1. UNCHANGED <<registry, inflight, pc, files, content, acked, snap, lease>>
    BY <1>3 DEF vars, bucket
  <2> QED
    BY <2>1, QuietKeeps DEF Live, Leased
<1> QED
  BY <1>1, <1>2, <1>3, StartKeeps, AcquireKeeps, CaptureKeeps, CommitKeeps, AckKeeps
     DEF Next, Step

(* Without overlapping controls a snapshot whose persist returned a receipt stays
   part of what a restore returns, through any crashes, restarts that adopt the
   instance, replacements and late puts. *)
THEOREM AcknowledgedIsKept == Overlap = FALSE /\ Spec => []AckedIsKept
<1> SUFFICES ASSUME Overlap = FALSE PROVE Spec => []AckedIsKept
  OBVIOUS
<1>1. Init => KeptInv
  BY NoneAssumption
     DEF Init, KeptInv, OneLive, LeasesAreCurrent, LiveHasWork, OwnerHasWork, LateKeepsWork,
         AckedIsKept, Live, Leased, Absent
<1>2. KeptInv => AckedIsKept
  BY DEF KeptInv
<1>3. IndInv /\ KeptInv /\ [Next]_vars => KeptInv'
  BY KeptStep
<1> QED
  BY <1>1, <1>2, <1>3, Invariance, PTL DEF Spec

-----------------------------------------------------------------------------
(* Restores beside the writers.                                            *)

(* One entry per version. *)
Unique(entries) ==
    \A i, j \in DOMAIN entries : entries[i].version = entries[j].version => i = j

(* A restore under way holds a committed document whose snapshot has all the
   work that was acknowledged when it began; bytes it holds are that archive. *)
RestoresAreTrue ==
    \A r \in Restorers :
        /\ restore[r].at # "idle" =>
             /\ restore[r].doc \in hist
             /\ Latest(r).id \in Snapshots
             /\ restore[r].known \subseteq content[Latest(r).id]
        /\ restore[r].at \in {"head", "open"} => restore[r].bytes \in {NoSnapshot, Latest(r).id}
        /\ restore[r].at \in {"keep", "served"} => restore[r].bytes = Latest(r).id

RestoreInv == RestoreTypeOK /\ RestoresAreTrue

(* Taking one entry out of a sequence of entries. *)
LEMMA Without ==
  ASSUME NEW entries \in Seq(CacheEntry), Unique(entries), NEW k \in 1 .. Len(entries)
  PROVE  LET rest == SubSeq(entries, 1, k - 1) \o SubSeq(entries, k + 1, Len(entries)) IN
         /\ rest \in Seq(CacheEntry) /\ Len(rest) = Len(entries) - 1 /\ Unique(rest)
         /\ \A i \in 1 .. Len(rest) : rest[i].version # entries[k].version
<1> DEFINE front == SubSeq(entries, 1, k - 1)
           back == SubSeq(entries, k + 1, Len(entries))
           rest == front \o back
           at(i) == IF i < k THEN i ELSE i + 1
<1>1. /\ front \in Seq(CacheEntry) /\ Len(front) = k - 1
      /\ \A i \in 1 .. Len(front) : front[i] = entries[i]
  OBVIOUS
<1>2. /\ back \in Seq(CacheEntry) /\ Len(back) = Len(entries) - k
      /\ \A i \in 1 .. Len(back) : back[i] = entries[k + i]
  OBVIOUS
<1> HIDE DEF front, back
<1>3. /\ rest \in Seq(CacheEntry) /\ Len(rest) = Len(front) + Len(back)
      /\ \A i \in 1 .. Len(front) + Len(back) :
            rest[i] = IF i <= Len(front) THEN front[i] ELSE back[i - Len(front)]
  BY <1>1, <1>2, ConcatProperties
<1> HIDE DEF rest
<1>4. Len(entries) \in Nat /\ DOMAIN entries = 1 .. Len(entries)
  OBVIOUS
<1>5. Len(rest) = Len(entries) - 1 /\ DOMAIN rest = 1 .. Len(entries) - 1
  BY <1>1, <1>2, <1>3, <1>4
<1>6. \A i \in 1 .. Len(entries) - 1 :
         rest[i] = entries[at(i)] /\ at(i) \in DOMAIN entries \ {k}
  <2> TAKE i \in 1 .. Len(entries) - 1
  <2>1. i \in 1 .. Len(front) + Len(back) /\ k \in Nat /\ i \in Nat
    BY <1>1, <1>2, <1>4
  <2>2. CASE i < k
    <3>1. i \in 1 .. Len(front) /\ i <= Len(front)
      BY <1>1, <1>4, <2>1, <2>2
    <3> QED
      BY <1>1, <1>3, <1>4, <2>1, <2>2, <3>1
  <2>3. CASE ~(i < k)
    <3>1. i - Len(front) \in 1 .. Len(back) /\ ~(i <= Len(front)) /\ k + (i - Len(front)) = i + 1
      BY <1>1, <1>2, <1>4, <2>1, <2>3
    <3>2. rest[i] = back[i - Len(front)]
      BY <1>3, <2>1, <3>1
    <3>3. back[i - Len(front)] = entries[i + 1]
      BY <1>2, <3>1
    <3>4. i + 1 \in DOMAIN entries \ {k} /\ at(i) = i + 1
      BY <1>4, <2>1, <2>3
    <3> QED
      BY <3>2, <3>3, <3>4
  <2> QED
    BY <2>2, <2>3
<1>7. \A i, j \in 1 .. Len(entries) - 1 : at(i) = at(j) => i = j
  OBVIOUS
<1> HIDE DEF at
<1>8. ASSUME NEW i \in 1 .. Len(entries) - 1, NEW j \in 1 .. Len(entries) - 1,
             rest[i].version = rest[j].version
      PROVE  i = j
  BY <1>6, <1>7, <1>8 DEF Unique
<1>9. Unique(rest)
  BY <1>5, <1>8 DEF Unique
<1>10. \A i \in 1 .. Len(entries) - 1 : rest[i].version # entries[k].version
  BY <1>4, <1>6 DEF Unique
<1> QED
  BY <1>3, <1>5, <1>9, <1>10 DEF rest, front, back

LEMMA OthersProperties ==
  ASSUME RestoreTypeOK, NEW version
  PROVE  /\ Others(version) \in Seq(CacheEntry) /\ Unique(Others(version))
         /\ Len(Others(version)) <= Len(cache)
         /\ Slots(version) # {} =>
              /\ Slot(version) \in 1 .. Len(cache)
              /\ cache[Slot(version)].version = version
              /\ Len(Others(version)) = Len(cache) - 1
         /\ \A i \in 1 .. Len(Others(version)) : Others(version)[i].version # version
<1>1. cache \in Seq(CacheEntry) /\ Unique(cache)
  BY DEF RestoreTypeOK, Unique
<1>2. CASE Slots(version) = {}
  BY <1>1, <1>2 DEF Others, Slots
<1>3. CASE Slots(version) # {}
  <2>1. Slot(version) \in 1 .. Len(cache) /\ cache[Slot(version)].version = version
    BY <1>1, <1>3 DEF Slot, Slots
  <2>2. Others(version) = SubSeq(cache, 1, Slot(version) - 1)
                           \o SubSeq(cache, Slot(version) + 1, Len(cache))
    BY <1>3 DEF Others
  <2>3. /\ Others(version) \in Seq(CacheEntry) /\ Len(Others(version)) = Len(cache) - 1
        /\ Unique(Others(version))
        /\ \A i \in 1 .. Len(Others(version)) : Others(version)[i].version # version
    BY <1>1, <2>1, <2>2, Without, ZenonT(40)
  <2> QED
    BY <1>1, <1>3, <2>1, <2>3
<1> QED
  BY <1>2, <1>3

(* get and put keep the cache within its budget, one entry per version. *)
LEMMA CacheStep ==
  ASSUME RestoreTypeOK, NEW version \in Nat, NEW bytes \in Bytes, NEW checksum,
         cache' \in {CacheAfterGet(version, checksum), CacheAfterPut(version, bytes)}
  PROVE  cache' \in Seq(CacheEntry) /\ Len(cache') <= CacheRoom /\ Unique(cache')
<1> USE CacheRoomAssumption
<1>1. cache \in Seq(CacheEntry) /\ Unique(cache) /\ Len(cache) <= CacheRoom
  BY DEF RestoreTypeOK, Unique
<1>2. ASSUME NEW old \in Seq(CacheEntry), Unique(old), Len(old) < CacheRoom,
             NEW entry \in CacheEntry, \A i \in 1 .. Len(old) : old[i].version # entry.version
      PROVE  /\ Append(old, entry) \in Seq(CacheEntry) /\ Len(Append(old, entry)) <= CacheRoom
             /\ Unique(Append(old, entry))
  BY <1>2 DEF Unique
<1>3. CASE cache' = CacheAfterGet(version, checksum)
  <2>1. CASE CacheGet(version, checksum) = NoSnapshot
    BY <1>1, <1>3, <2>1, OthersProperties DEF CacheAfterGet
  <2>2. CASE CacheGet(version, checksum) # NoSnapshot
    <3>1. Slots(version) # {}
      BY <2>2 DEF CacheGet
    <3> QED
      BY <1>1, <1>2, <1>3, <2>2, <3>1, OthersProperties DEF CacheAfterGet
  <2> QED
    BY <2>1, <2>2
<1>4. CASE cache' = CacheAfterPut(version, bytes) /\ CacheRoom # 0
  <2> DEFINE old == Others(version)
             kept == SubSeq(old, Len(old) + 2 - CacheRoom, Len(old))
             entry == [version |-> version, bytes |-> bytes]
  <2>1. /\ old \in Seq(CacheEntry) /\ Unique(old) /\ Len(old) <= CacheRoom
        /\ \A i \in 1 .. Len(old) : old[i].version # version
    BY <1>1, OthersProperties
  <2>2. entry \in CacheEntry
    BY DEF CacheEntry
  <2> HIDE DEF old, entry
  <2>3. CASE Len(old) < CacheRoom
    BY <1>2, <1>4, <2>1, <2>2, <2>3 DEF CacheAfterPut, old, entry
  <2>4. CASE ~(Len(old) < CacheRoom)
    <3>1. /\ kept \in Seq(CacheEntry) /\ Len(kept) = CacheRoom - 1
          /\ \A i \in 1 .. Len(kept) : kept[i] = old[i + 1]
      BY <1>4, <2>1, <2>4
    <3> HIDE DEF kept
    <3>2. DOMAIN kept = 1 .. Len(kept) /\ DOMAIN old = 1 .. Len(old) /\ Len(old) = CacheRoom
      BY <2>1, <2>4, <3>1
    <3>3. \A i \in 1 .. Len(kept) : i \in Nat /\ i + 1 \in DOMAIN old /\ kept[i] = old[i + 1]
      BY <3>1, <3>2
    <3>4. ASSUME NEW i \in 1 .. Len(kept), NEW j \in 1 .. Len(kept),
                 kept[i].version = kept[j].version
          PROVE  i = j
      <4>1. i + 1 \in DOMAIN old /\ j + 1 \in DOMAIN old
        BY <3>3
      <4>2. old[i + 1].version = old[j + 1].version
        BY <3>3, <3>4
      <4>3. i + 1 = j + 1
        BY <2>1, <4>1, <4>2, Zenon DEF Unique
      <4> QED
        BY <3>3, <4>3
    <3>5. Unique(kept)
      BY <3>2, <3>4 DEF Unique
    <3>6. \A i \in 1 .. Len(kept) : kept[i].version # entry.version
      BY <2>1, <3>2, <3>3 DEF entry
    <3>7. cache' = Append(kept, entry)
      BY <1>4, <2>4 DEF CacheAfterPut, old, kept, entry
    <3> QED
      BY <1>2, <2>2, <3>1, <3>5, <3>6, <3>7
  <2> QED
    BY <2>1, <2>3, <2>4
<1>5. CASE cache' = CacheAfterPut(version, bytes) /\ CacheRoom = 0
  BY <1>1, <1>5 DEF CacheAfterPut
<1> QED
  BY <1>3, <1>4, <1>5

(* The bytes of a committed snapshot are never captured again. *)
LEMMA ContentStep ==
  ASSUME IndInv, [Next]_vars, NEW s \in Snapshots, content[s] # {}
  PROVE  content'[s] = content[s]
<1>1. CASE UNCHANGED content
  BY <1>1
<1>2. ASSUME NEW w \in Writers, BeginClose(w) PROVE content'[s] = content[s]
  BY <1>2 DEF BeginClose, IndInv, TypeOK
<1> QED
  BY <1>1, <1>2
     DEF Next, vars, Land, Step, Start, AcquireRead, Acquire, AcquireRejected,
         AcquireUnanswered, AcquireRepeated, PersistRead, PersistCheck, Upload,
         UploadUnanswered, Commit, CommitRejected, CommitUnanswered, CommitRepeated,
         Reconcile, WriteRecord, WriteRecordUnanswered, GiveUp, Stop

(* Whatever the writers do, a restore under way keeps what it has. *)
LEMMA RestoresBesideWriters ==
  ASSUME IndInv, RestoreInv, [Next]_vars, UNCHANGED restoreVars
  PROVE  RestoreInv'
<1>1. UNCHANGED <<restore, cache, spoiled, expired, damage>>
  BY DEF restoreVars
<1>2. RestoreTypeOK'
  BY <1>1 DEF RestoreInv, RestoreTypeOK
<1>3. hist \subseteq hist'
  BY GrowsStep DEF Grows, vars
<1>4. \A d \in hist : d.latest.id \in Snapshots => content'[d.latest.id] = content[d.latest.id]
  BY ContentStep DEF IndInv, Durable
<1>5. RestoresAreTrue'
  BY <1>1, <1>3, <1>4 DEF RestoreInv, RestoresAreTrue, Latest
<1> QED
  BY <1>2, <1>5 DEF RestoreInv

RestoreState ==
    [at : {"idle", "cache", "head", "open", "download", "keep", "served"},
     doc : RegistryDoc, bytes : Bytes, known : SUBSET Snapshots]

(* A step of one restore changes no other and ends in a state of a restore. *)
LEMMA BecomesKeeps ==
  ASSUME RestoreInv, UNCHANGED <<hist, content>>, NEW r \in Restorers, NEW state \in RestoreState,
         Becomes(r, state),
         state.at # "idle" =>
             /\ state.doc \in hist
             /\ state.doc.latest.id \in Snapshots
             /\ state.known \subseteq content[state.doc.latest.id],
         state.at \in {"head", "open"} => state.bytes \in {NoSnapshot, state.doc.latest.id},
         state.at \in {"keep", "served"} => state.bytes = state.doc.latest.id
  PROVE  restore' \in [Restorers -> RestoreState] /\ RestoresAreTrue'
<1>1. restore \in [Restorers -> RestoreState]
  BY DEF RestoreInv, RestoreTypeOK, RestoreState
<1>2. restore' \in [Restorers -> RestoreState]
  BY <1>1 DEF Becomes
<1>3. \A q \in Restorers : restore'[q] = IF q = r THEN state ELSE restore[q]
  BY <1>1 DEF Becomes
<1>4. RestoresAreTrue'
  BY <1>3 DEF RestoreInv, RestoresAreTrue, Latest
<1> QED
  BY <1>2, <1>4

LEMMA OverKeeps ==
  ASSUME RestoreInv, UNCHANGED <<hist, content>>, NEW r \in Restorers, Over(r)
  PROVE  restore' \in [Restorers -> RestoreState] /\ RestoresAreTrue'
<1>1. NoRestore \in RestoreState
  BY AbsentType DEF NoRestore, RestoreState, Bytes
<1> QED
  BY <1>1, BecomesKeeps DEF Over, NoRestore

(* A step of restore(), of its iterator or of the cache. *)
LEMMA RestorerStep ==
  ASSUME IndInv, AckedIsKept, RestoreInv, UNCHANGED vars, NEW r \in Restorers,
         \/ RestoreBegins(r) \/ RestoreAsksCache(r) \/ RestoreHeads(r)
         \/ RestoreOpens(r) \/ RestoreDownloads(r) \/ RestoreKeeps(r) \/ RestoreFails(r)
  PROVE  restore' \in [Restorers -> RestoreState] /\ RestoresAreTrue'
<1>1. UNCHANGED <<hist, content>>
  BY DEF vars
<1>2. CASE Over(r)
  BY <1>1, <1>2, OverKeeps
<1>3. CASE RestoreBegins(r) /\ ~Over(r)
  <2> DEFINE state == [at |-> "cache", doc |-> registry, bytes |-> NoSnapshot, known |-> acked]
  <2>1. Becomes(r, state) /\ registry.latest # NoEntry
    BY <1>3 DEF RestoreBegins
  <2>2. state \in RestoreState
    BY DEF RestoreState, Bytes, IndInv, TypeOK
  <2>3. registry \in hist /\ registry.latest.id \in Snapshots
    BY <2>1 DEF IndInv, Ordered, TypeOK, RegistryDoc, Entry
  <2>4. acked \subseteq content[registry.latest.id]
    BY DEF AckedIsKept
  <2> QED
    BY <1>1, <2>1, <2>2, <2>3, <2>4, BecomesKeeps
<1>4. CASE ~RestoreBegins(r) /\ ~Over(r)
  <2>1. /\ restore[r] \in RestoreState /\ restore[r].at # "idle"
        /\ restore[r].doc \in hist /\ Latest(r).id \in Snapshots
        /\ restore[r].known \subseteq content[Latest(r).id]
        /\ restore[r].at \in {"head", "open"} =>
             restore[r].bytes \in {NoSnapshot, Latest(r).id}
        /\ restore[r].at = "keep" => restore[r].bytes = Latest(r).id
    BY <1>4
       DEF RestoreInv, RestoreTypeOK, RestoresAreTrue, RestoreState, RestoreAsksCache,
           RestoreHeads, RestoreOpens, RestoreDownloads, RestoreKeeps, RestoreFails
  \* The restore goes on, with the bytes it has or gets.
  <2>2. \E at \in {"head", "open", "download", "keep", "served"}, bytes \in Bytes :
          /\ Becomes(r, [restore[r] EXCEPT !.at = at, !.bytes = bytes])
          /\ at \in {"head", "open"} => bytes \in {NoSnapshot, Latest(r).id}
          /\ at \in {"keep", "served"} => bytes = Latest(r).id
    <3>1. CASE RestoreAsksCache(r)
      <4> DEFINE got == CacheGet(Latest(r).version, Latest(r).id)
                 at == IF got = NoSnapshot THEN "head" ELSE "open"
      <4>1. got \in {NoSnapshot, Latest(r).id} /\ got \in Bytes
        BY <2>1 DEF CacheGet, Bytes
      <4>2. Becomes(r, [restore[r] EXCEPT !.at = at, !.bytes = got])
        BY <3>1 DEF RestoreAsksCache
      <4>3. at \in {"head", "open"}
        OBVIOUS
      <4> HIDE DEF got, at
      <4> QED
        BY <4>1, <4>2, <4>3
    <3>2. CASE RestoreHeads(r) \/ RestoreOpens(r) \/ RestoreKeeps(r)
      <4> DEFINE same(at) == [restore[r] EXCEPT !.at = at]
      <4>1. PICK at \in {"open", "download", "served"} :
              Becomes(r, same(at)) /\ (at = "open" => restore[r].at = "head")
              /\ (at = "served" => restore[r].bytes = Latest(r).id)
        BY <1>4, <2>1, <3>2 DEF RestoreHeads, RestoreOpens, RestoreKeeps
      <4>2. same(at) = [restore[r] EXCEPT !.at = at, !.bytes = restore[r].bytes]
        BY <2>1 DEF RestoreState
      <4>3. restore[r].bytes \in Bytes
        BY <2>1 DEF RestoreState
      <4>4. Becomes(r, [restore[r] EXCEPT !.at = at, !.bytes = restore[r].bytes])
        BY <4>1, <4>2
      <4>5. /\ at = "open" => restore[r].bytes \in {NoSnapshot, Latest(r).id}
            /\ at = "served" => restore[r].bytes = Latest(r).id
        BY <2>1, <4>1
      <4>6. at \in {"open", "download", "served"}
        BY <4>1
      <4> QED
        BY <4>3, <4>4, <4>5, <4>6, Zenon
    <3>3. CASE RestoreDownloads(r)
      BY <1>4, <2>1, <3>3 DEF RestoreDownloads, Bytes
    <3> QED
      BY <1>4, <3>1, <3>2, <3>3 DEF RestoreFails
  <2>3. PICK at \in {"head", "open", "download", "keep", "served"}, bytes \in Bytes :
          /\ Becomes(r, [restore[r] EXCEPT !.at = at, !.bytes = bytes])
          /\ at \in {"head", "open"} => bytes \in {NoSnapshot, Latest(r).id}
          /\ at \in {"keep", "served"} => bytes = Latest(r).id
    BY <2>2
  <2> DEFINE state == [restore[r] EXCEPT !.at = at, !.bytes = bytes]
  <2>4. /\ state \in RestoreState /\ state.doc = restore[r].doc
        /\ state.known = restore[r].known /\ state.at = at /\ state.bytes = bytes
    BY <2>1 DEF RestoreState
  <2>5. Becomes(r, state)
    BY <2>3
  <2> HIDE DEF state
  <2> QED
    BY <1>1, <2>1, <2>3, <2>4, <2>5, BecomesKeeps DEF Latest
<1> QED
  BY <1>2, <1>3, <1>4

LEMMA RestoreStep ==
  ASSUME IndInv, AckedIsKept, RestoreInv, RestoreNext, UNCHANGED vars
  PROVE  RestoreInv'
<1>0. UNCHANGED <<hist, content>> /\ RestoreTypeOK /\ RestoresAreTrue
  BY DEF vars, RestoreInv
<1>1. ASSUME NEW r \in Restorers,
             \/ RestoreBegins(r) \/ RestoreAsksCache(r) \/ RestoreHeads(r)
             \/ RestoreOpens(r) \/ RestoreDownloads(r) \/ RestoreKeeps(r) \/ RestoreFails(r)
      PROVE  RestoreInv'
  <2>1. restore' \in [Restorers -> RestoreState] /\ RestoresAreTrue'
    BY <1>1, RestorerStep
  <2>2. UNCHANGED <<spoiled, expired, damage>>
    BY <1>1
       DEF RestoreBegins, RestoreAsksCache, RestoreHeads, RestoreOpens, RestoreDownloads,
           RestoreKeeps, RestoreFails
  <2>3. restore[r].bytes \in Bytes /\ Latest(r).version \in Nat
    BY <1>0 DEF RestoreTypeOK, RegistryDoc, Entry, Latest
  <2>4. \/ UNCHANGED cache
        \/ cache' = CacheAfterGet(Latest(r).version, Latest(r).id)
        \/ cache' = CacheAfterPut(Latest(r).version, restore[r].bytes)
    BY <1>1
       DEF RestoreBegins, RestoreAsksCache, RestoreHeads, RestoreOpens, RestoreDownloads,
           RestoreKeeps, RestoreFails
  <2>5. cache' \in Seq(CacheEntry) /\ Len(cache') <= CacheRoom /\ Unique(cache')
    <3>1. CASE UNCHANGED cache
      BY <1>0, <3>1 DEF RestoreTypeOK, Unique
    <3>2. CASE cache' \in {CacheAfterGet(Latest(r).version, Latest(r).id),
                           CacheAfterPut(Latest(r).version, restore[r].bytes)}
      BY <1>0, <2>3, <3>2, CacheStep
    <3> QED
      BY <2>4, <3>1, <3>2
  <2> QED
    BY <1>0, <2>1, <2>2, <2>5 DEF RestoreInv, RestoreTypeOK, RestoreState, Unique
<1>2. ASSUME NEW s \in Snapshots, SnapshotExpires(s) \/ ObjectSpoils(s)
      PROVE  RestoreInv'
  <2>1. UNCHANGED <<restore, cache>> /\ damage' \in 0 .. MaxDamage
        /\ spoiled' \subseteq Snapshots /\ expired' \subseteq Snapshots
    BY <1>0, <1>2, MaxDamageAssumption DEF SnapshotExpires, ObjectSpoils, RestoreTypeOK
  <2> QED
    BY <1>0, <2>1 DEF RestoreInv, RestoreTypeOK, RestoresAreTrue, Latest
<1>3. CASE CacheSpoils
  <2>1. UNCHANGED <<restore, spoiled, expired>> /\ damage' \in 0 .. MaxDamage
    BY <1>0, <1>3, MaxDamageAssumption DEF CacheSpoils, RestoreTypeOK
  <2>2. cache' \in Seq(CacheEntry) /\ Len(cache') <= CacheRoom /\ Unique(cache')
    <3>1. PICK i \in DOMAIN cache : cache' = [cache EXCEPT ![i].bytes = Damaged]
      BY <1>3 DEF CacheSpoils
    <3>2. cache \in Seq(CacheEntry) /\ DOMAIN cache = 1 .. Len(cache) /\ cache[i] \in CacheEntry
      BY <1>0, <3>1 DEF RestoreTypeOK
    <3> DEFINE bad == [cache[i] EXCEPT !.bytes = Damaged]
    <3>3. bad \in CacheEntry /\ bad.version = cache[i].version
      BY <3>2 DEF CacheEntry, Bytes
    <3>4. cache' = [cache EXCEPT ![i] = bad]
      BY <3>1
    <3> HIDE DEF bad
    <3>5. /\ cache' \in Seq(CacheEntry) /\ Len(cache') = Len(cache)
          /\ \A j \in 1 .. Len(cache) : cache'[j] = IF j = i THEN bad ELSE cache[j]
      BY <3>1, <3>2, <3>3, <3>4, ExceptSeq
    <3>6. \A j \in DOMAIN cache : cache'[j].version = cache[j].version
      BY <3>2, <3>3, <3>5
    <3>7. DOMAIN cache' = DOMAIN cache
      BY <3>2, <3>4
    <3> QED
      BY <1>0, <3>5, <3>6, <3>7 DEF RestoreTypeOK, Unique
  <2> QED
    BY <1>0, <2>1, <2>2 DEF RestoreInv, RestoreTypeOK, RestoresAreTrue, Latest, Unique
<1> QED
  BY <1>1, <1>2, <1>3 DEF RestoreNext

(* restore() gives out a committed archive, undamaged, with all the work that had
   been acknowledged when it began, from S3 or from a cache of any size. *)
THEOREM RestoresReturnAcked == Overlap = FALSE /\ StorageSpec => []RestoredIsAcked
<1> SUFFICES ASSUME Overlap = FALSE PROVE StorageSpec => []RestoredIsAcked
  OBVIOUS
<1>1. StorageInit => Init
  BY DEF StorageInit
<1>2. [StorageNext]_storageVars => [Next]_vars
  BY DEF StorageNext, storageVars, WritersBesideRestores
<1>3. StorageSpec => []IndInv /\ []AckedIsKept
  BY <1>1, <1>2, Invariance, AcknowledgedIsKept, PTL DEF StorageSpec, Spec
<1>4. StorageInit => RestoreInv
  <2>1. <<>> \in Seq(CacheEntry) /\ Len(<<>>) <= CacheRoom
    BY CacheRoomAssumption
  <2> QED
    BY <2>1, AbsentType, MaxDamageAssumption
       DEF StorageInit, RestoreInit, RestoreInv, RestoreTypeOK, RestoresAreTrue, NoRestore, Bytes
<1>5. IndInv /\ AckedIsKept /\ RestoreInv /\ [StorageNext]_storageVars => RestoreInv'
  <2> SUFFICES ASSUME IndInv, AckedIsKept, RestoreInv, [StorageNext]_storageVars
               PROVE  RestoreInv'
    OBVIOUS
  <2>1. CASE UNCHANGED restoreVars
    BY <1>2, <2>1, RestoresBesideWriters
  <2>2. CASE RestoreNext /\ UNCHANGED vars
    BY <2>2, RestoreStep
  <2> QED
    BY <2>1, <2>2 DEF StorageNext, storageVars
<1>6. RestoreInv => RestoredIsAcked
  BY DEF RestoreInv, RestoredIsAcked, RestoresAreTrue, Latest
<1> QED
  BY <1>3, <1>4, <1>5, <1>6, PTL DEF StorageSpec

-----------------------------------------------------------------------------
(* Artifacts: the inductive invariant.                                     *)

(* A publisher that has passed its body carries the metadata of the body it
   put or found. *)
Registering(p) == pub[p].at \in {"register", "confirm"}

(* What calls and puts under way say is a publication of theirs. *)
CallsAreTrue ==
    /\ \A p \in Publishers :
          pub[p].at \in {"put", "recover", "register", "confirm"} =>
              pub[p].meta.what = PublicationOf[p]
    /\ \A put \in stray : put.meta.what \in Publications

(* The manifest is written once, and what was said of it stays true. *)
ManifestIsFinal ==
    /\ manifest = NoMeta => receipts = {}
    /\ manifest # NoMeta => manifest.what \in Publications
    /\ \A r \in Readers : read[r].at # "new" => manifest # NoMeta /\ read[r].meta = manifest
    /\ \A r \in Readers : read[r].at = "served" => read[r].bytes = read[r].meta.what

(* Until S3 loses or alters it, there is one body and every manifest that was
   put, or still may arrive, has its metadata. *)
OneBody ==
    ~spoilt =>
      /\ body.meta.what = Nothing => body = NoBody
      /\ body = StoredAs(body.meta)
      /\ \A p \in Publishers : Registering(p) => body.meta = pub[p].meta
      /\ \A put \in stray : put.kind = "manifest" => body.meta = put.meta
      /\ manifest # NoMeta => body.meta = manifest

ArtifactInv == ArtifactIsWhole /\ CallsAreTrue /\ ManifestIsFinal /\ OneBody

(* Metadata of a new call, and what is stored under it. *)
LEMMA MetaTypes ==
  /\ NoMeta \in Meta /\ NoBody \in Body
  /\ \A meta \in Meta : StoredAs(meta) \in Body
  BY TimeAssumption DEF NoMeta, Meta, NoBody, Body, StoredAs

LEMMA FreshType == ASSUME ArtifactTypeOK, NEW p \in Publishers PROVE Fresh(p) \in Meta
  BY DEF Meta, Fresh, ArtifactTypeOK, Publications

(* A call goes on with metadata. *)
LEMMA GoesType ==
  ASSUME ArtifactTypeOK, NEW p \in Publishers, NEW meta \in Meta,
         NEW step \in {"new", "head", "put", "recover", "register", "confirm", "over"},
         Goes(p, step, meta)
  PROVE  pub' \in [Publishers -> [at : {"new", "head", "put", "recover", "register", "confirm",
                                        "over"}, meta : Meta]]
  BY DEF Goes, ArtifactTypeOK

LEMMA ArtifactInitInv == ArtifactInit => ArtifactInv
<1> SUFFICES ASSUME ArtifactInit PROVE ArtifactInv
  OBVIOUS
<1> USE DEF ArtifactInit
<1>1. ArtifactTypeOK
  <2>1. /\ body \in Body /\ manifest \in Meta /\ receipts \subseteq Meta
        /\ stray \subseteq [kind : {"body", "manifest"}, meta : Meta]
        /\ now \in 0 .. MaxTime /\ mishaps \in 0 .. MaxMishaps
    BY MetaTypes, TimeAssumption
  <2>2. spoilt \in BOOLEAN
    OBVIOUS
  <2> QED
    BY <2>1, <2>2, MetaTypes DEF ArtifactTypeOK
<1>2. ArtifactIsWhole
  BY <1>1 DEF ArtifactIsWhole
<1>3. CallsAreTrue /\ ManifestIsFinal /\ OneBody
  BY DEF CallsAreTrue, ManifestIsFinal, OneBody, NoMeta, NoBody, StoredAs, Registering
<1> QED
  BY <1>2, <1>3 DEF ArtifactInv

(* Every step of a call keeps the shape of the two objects and of the calls. *)
LEMMA ArtifactTypeStep == ArtifactInv /\ ArtifactNext => ArtifactTypeOK'
<1> SUFFICES ASSUME ArtifactInv, ArtifactNext PROVE ArtifactTypeOK'
  OBVIOUS
<1> ArtifactTypeOK
  BY DEF ArtifactInv, ArtifactIsWhole
<1> USE MetaTypes, TimeAssumption
<1>1. ASSUME NEW p \in Publishers,
             Receive(p) \/ FindBody(p) \/ RecoverBody(p) \/ PublishFails(p)
      PROVE  ArtifactTypeOK'
  <2>1. body.meta \in Meta /\ Fresh(p) \in Meta
    BY FreshType DEF ArtifactTypeOK, Body
  <2>2. pub' \in [Publishers -> [at : {"new", "head", "put", "recover", "register", "confirm",
                                       "over"}, meta : Meta]]
    BY <1>1, <2>1, GoesType DEF Receive, FindBody, RecoverBody, PublishFails, Raises
  <2> QED
    BY <1>1, <2>2
       DEF Receive, FindBody, RecoverBody, PublishFails, ArtifactTypeOK, Mishap
<1>2. ASSUME NEW p \in Publishers,
             \/ PutBody(p) \/ PutBodyUnanswered(p)
             \/ PutManifest(p) \/ PutManifestUnanswered(p) \/ ConfirmManifest(p)
      PROVE  ArtifactTypeOK'
  <2>1. pub[p].meta \in Meta /\ manifest \in Meta
    BY <1>2 DEF ArtifactTypeOK
  <2>2. pub' \in [Publishers -> [at : {"new", "head", "put", "recover", "register", "confirm",
                                       "over"}, meta : Meta]]
    BY <1>2, <2>1, GoesType
       DEF PutBody, PutBodyUnanswered, PutManifest, PutManifestUnanswered, ConfirmManifest,
           Raises, Returns
  <2>3. CASE PutBody(p) \/ PutBodyUnanswered(p)
    BY <2>1, <2>2, <2>3 DEF PutBody, PutBodyUnanswered, ArtifactTypeOK, Mishap
  <2>4. CASE PutManifest(p) \/ PutManifestUnanswered(p) \/ ConfirmManifest(p)
    BY <2>1, <2>2, <2>4
       DEF PutManifest, PutManifestUnanswered, ConfirmManifest, Returns, ArtifactTypeOK, Mishap
  <2> QED
    BY <1>2, <2>3, <2>4
<1>3. CASE StrayLands
  BY <1>3 DEF StrayLands, ArtifactTypeOK
<1>4. ASSUME NEW r \in Readers, ReadManifest(r) \/ OpenBody(r) \/ ReadBody(r)
      PROVE  ArtifactTypeOK'
  <2>1. body.bytes \in Publications \cup {Nothing}
    BY DEF ArtifactTypeOK, Body
  <2> QED
    BY <1>4, <2>1
       DEF ReadManifest, OpenBody, ReadBody, ReadRaises, Reads, ArtifactTypeOK
<1>5. CASE BodySpoils \/ TimePasses
  <2>1. CASE BodySpoils
    <3>1. body' \in Body
      BY <2>1 DEF BodySpoils, ArtifactTypeOK, Body
    <3> QED
      BY <2>1, <3>1 DEF BodySpoils, ArtifactTypeOK, Mishap
  <2>2. CASE TimePasses
    BY <2>2, TimeAssumption DEF TimePasses, ArtifactTypeOK
  <2> QED
    BY <1>5, <2>1, <2>2
<1> QED
  BY <1>1, <1>2, <1>3, <1>4, <1>5 DEF ArtifactNext

(* The body comes from a put of its own publication, so a call or a put never
   carries another one. *)
LEMMA CallsStep == ArtifactInv /\ ArtifactNext => CallsAreTrue'
<1> SUFFICES ASSUME ArtifactInv, ArtifactNext PROVE CallsAreTrue'
  OBVIOUS
<1>0. ArtifactTypeOK /\ CallsAreTrue
  BY DEF ArtifactInv, ArtifactIsWhole
<1> USE <1>0 DEF Goes, At
<1>1. ASSUME NEW p \in Publishers,
             Receive(p) \/ FindBody(p) \/ RecoverBody(p) \/ PublishFails(p) \/ ConfirmManifest(p)
      PROVE  CallsAreTrue'
  BY <1>1
     DEF Receive, FindBody, RecoverBody, PublishFails, ConfirmManifest, Raises, Returns, Fresh,
         CallsAreTrue, ArtifactTypeOK
<1>2. ASSUME NEW p \in Publishers, PutBody(p) \/ PutManifest(p)
      PROVE  CallsAreTrue'
  BY <1>2 DEF PutBody, PutManifest, Raises, Returns, CallsAreTrue, ArtifactTypeOK
<1>3. ASSUME NEW p \in Publishers, PutBodyUnanswered(p) \/ PutManifestUnanswered(p)
      PROVE  CallsAreTrue'
  BY <1>3
     DEF PutBodyUnanswered, PutManifestUnanswered, Raises, CallsAreTrue, ArtifactTypeOK,
         Publications
<1>4. CASE StrayLands
  BY <1>4 DEF StrayLands, CallsAreTrue
<1>5. CASE (\E r \in Readers : ReadManifest(r) \/ OpenBody(r) \/ ReadBody(r))
           \/ BodySpoils \/ TimePasses
  BY <1>5 DEF ReadManifest, OpenBody, ReadBody, BodySpoils, TimePasses, CallsAreTrue
<1> QED
  BY <1>1, <1>2, <1>3, <1>4, <1>5 DEF ArtifactNext

(* The conditional put creates the manifest and never replaces it. *)
LEMMA ManifestStep ==
  ArtifactInv /\ ArtifactNext => ManifestIsFinal' /\ (receipts \subseteq {manifest})'
<1> SUFFICES ASSUME ArtifactInv, ArtifactNext
             PROVE  ManifestIsFinal' /\ (receipts \subseteq {manifest})'
  OBVIOUS
<1>0. ArtifactTypeOK /\ CallsAreTrue /\ ManifestIsFinal /\ receipts \subseteq {manifest}
  BY DEF ArtifactInv, ArtifactIsWhole
<1> USE <1>0 DEF At
<1>1. ASSUME NEW p \in Publishers,
             \/ Receive(p) \/ FindBody(p) \/ PutBody(p) \/ PutBodyUnanswered(p) \/ RecoverBody(p)
             \/ PublishFails(p)
      PROVE  UNCHANGED <<manifest, receipts, read>>
  BY <1>1 DEF Receive, FindBody, PutBody, PutBodyUnanswered, RecoverBody, PublishFails
<1>2. ASSUME NEW p \in Publishers, PutManifest(p) \/ PutManifestUnanswered(p)
      PROVE  ManifestIsFinal' /\ (receipts \subseteq {manifest})'
  <2>1. pub[p].meta.what \in Publications /\ pub[p].meta # NoMeta
    BY <1>2, PublisherAssumption
       DEF PutManifest, PutManifestUnanswered, CallsAreTrue, Publications, NoMeta
  <2> QED
    BY <1>2, <2>1 DEF PutManifest, PutManifestUnanswered, Returns, ManifestIsFinal
<1>3. ASSUME NEW p \in Publishers, ConfirmManifest(p)
      PROVE  ManifestIsFinal' /\ (receipts \subseteq {manifest})'
  <2>1. manifest.what = PublicationOf[p] => manifest # NoMeta
    BY PublisherAssumption DEF Publications, NoMeta
  <2> QED
    BY <1>3, <2>1 DEF ConfirmManifest, Returns, ManifestIsFinal
<1>4. CASE StrayLands
  <2>1. \A put \in stray : put.meta.what \in Publications /\ put.meta # NoMeta
    BY PublisherAssumption DEF CallsAreTrue, NoMeta
  <2> QED
    BY <1>4, <2>1 DEF StrayLands, ManifestIsFinal
<1>5. ASSUME NEW r \in Readers, ReadManifest(r) \/ OpenBody(r) \/ ReadBody(r)
      PROVE  ManifestIsFinal' /\ (receipts \subseteq {manifest})'
  BY <1>5
     DEF ReadManifest, OpenBody, ReadBody, ReadRaises, Reads, ManifestIsFinal, ArtifactTypeOK
<1>6. CASE BodySpoils \/ TimePasses
  BY <1>6 DEF BodySpoils, TimePasses, ManifestIsFinal
<1> QED
  BY <1>1, <1>2, <1>3, <1>4, <1>5, <1>6 DEF ArtifactNext, ManifestIsFinal

(* A body is created once; every manifest is put for the body its call has. *)
LEMMA BodyStep == ArtifactInv /\ ArtifactNext => OneBody'
<1> SUFFICES ASSUME ArtifactInv, ArtifactNext, ~spoilt' PROVE OneBody'
  BY DEF OneBody
<1>0. ArtifactTypeOK /\ CallsAreTrue /\ ManifestIsFinal /\ OneBody
  BY DEF ArtifactInv, ArtifactIsWhole
<1>a. ~spoilt
  BY DEF ArtifactNext, Receive, FindBody, PutBody, PutBodyUnanswered, RecoverBody, PutManifest,
         PutManifestUnanswered, ConfirmManifest, PublishFails, StrayLands, ReadManifest,
         OpenBody, ReadBody, BodySpoils, TimePasses
<1> USE <1>0, <1>a DEF At, Registering
<1>b. \A meta : meta.what \in Publications => meta # NoMeta
  BY PublisherAssumption DEF NoMeta
<1>c. \A p \in Publishers : PublicationOf[p] \in Publications
  BY DEF Publications
\* While there is no body nobody has passed it.
<1>d. body.meta = NoMeta =>
        /\ \A p \in Publishers : ~Registering(p)
        /\ \A put \in stray : put.kind # "manifest"
        /\ manifest = NoMeta
  BY <1>b, <1>c DEF OneBody, CallsAreTrue, ManifestIsFinal
<1>1. ASSUME NEW p \in Publishers, Receive(p) \/ FindBody(p) \/ RecoverBody(p) \/ PublishFails(p)
      PROVE  OneBody'
  BY <1>1
     DEF Receive, FindBody, RecoverBody, PublishFails, Raises, Goes, OneBody, ArtifactTypeOK
<1>2. ASSUME NEW p \in Publishers, PutBody(p)
      PROVE  OneBody'
  <2>1. pub[p].meta.what \in Publications
    BY <1>2, <1>c DEF PutBody, CallsAreTrue
  <2> QED
    BY <1>2, <1>d, <2>1, PublisherAssumption
       DEF PutBody, Goes, OneBody, StoredAs, ArtifactTypeOK
<1>3. ASSUME NEW p \in Publishers, PutBodyUnanswered(p)
      PROVE  OneBody'
  <2>1. pub[p].meta.what \in Publications
    BY <1>3, <1>c DEF PutBodyUnanswered, CallsAreTrue
  <2> QED
    BY <1>3, <1>d, <2>1, PublisherAssumption
       DEF PutBodyUnanswered, Goes, Raises, OneBody, StoredAs, ArtifactTypeOK
<1>4. ASSUME NEW p \in Publishers,
             PutManifest(p) \/ PutManifestUnanswered(p) \/ ConfirmManifest(p)
      PROVE  OneBody'
  BY <1>4
     DEF PutManifest, PutManifestUnanswered, ConfirmManifest, Returns, Raises, Goes, OneBody,
         ArtifactTypeOK
<1>5. CASE StrayLands
  <2>1. PICK put \in stray :
          /\ stray' = stray \ {put}
          /\ \/ /\ put.kind = "body" /\ body.meta = NoMeta
                /\ body' = StoredAs(put.meta) /\ UNCHANGED manifest
             \/ /\ put.kind = "manifest" /\ manifest = NoMeta
                /\ manifest' = put.meta /\ UNCHANGED body
    BY <1>5 DEF StrayLands
  <2>2. put.meta.what \in Publications /\ UNCHANGED pub
    BY <1>5 DEF StrayLands, CallsAreTrue
  <2> QED
    BY <1>d, <2>1, <2>2, PublisherAssumption DEF OneBody, StoredAs
<1>6. CASE (\E r \in Readers : ReadManifest(r) \/ OpenBody(r) \/ ReadBody(r)) \/ TimePasses
  BY <1>6 DEF ReadManifest, OpenBody, ReadBody, TimePasses, OneBody
<1>7. CASE BodySpoils
  BY <1>7 DEF BodySpoils
<1> QED
  BY <1>1, <1>2, <1>3, <1>4, <1>5, <1>6, <1>7 DEF ArtifactNext

LEMMA ArtifactInvStep == ArtifactInv /\ [StorageNext]_storageVars => ArtifactInv'
<1> SUFFICES ASSUME ArtifactInv, [StorageNext]_storageVars PROVE ArtifactInv'
  OBVIOUS
<1>1. CASE UNCHANGED artifactVars
  <2>1. ArtifactTypeOK'
    BY <1>1 DEF artifactVars, ArtifactInv, ArtifactIsWhole, ArtifactTypeOK
  <2> QED
    BY <1>1, <2>1
       DEF artifactVars, ArtifactInv, ArtifactIsWhole, CallsAreTrue, ManifestIsFinal, OneBody,
           Registering
<1>2. CASE ArtifactNext
  <2>1. ArtifactTypeOK' /\ CallsAreTrue' /\ ManifestIsFinal' /\ OneBody'
        /\ (receipts \subseteq {manifest})'
    BY <1>2, ArtifactTypeStep, CallsStep, ManifestStep, BodyStep
  <2>2. ArtifactIsWhole'
    BY <2>1 DEF ArtifactIsWhole, ManifestIsFinal, OneBody
  <2> QED
    BY <2>1, <2>2 DEF ArtifactInv
<1> QED
  BY <1>1, <1>2 DEF StorageNext, storageVars

(* An artifact is one thing to every caller: for any number of racing, repeated
   and cancelled calls and any late put, receipts, manifest and body agree, and
   read_artifact gives out the registered content or raises. *)
THEOREM ArtifactsAreWhole == StorageSpec => []ArtifactIsWhole
<1>1. StorageInit => ArtifactInv
  BY ArtifactInitInv DEF StorageInit
<1>2. ArtifactInv => ArtifactIsWhole
  BY DEF ArtifactInv
<1> QED
  BY <1>1, <1>2, ArtifactInvStep, PTL DEF StorageSpec
=============================================================================
