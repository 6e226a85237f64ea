------------------------------ MODULE Restores ------------------------------
(***************************************************************************)
(* Reading a domain back: S3Storage.restore and the iterator it returns    *)
(* (storage/s3.py), with the bounded local cache of storage/cache.py, over *)
(* the bucket and the writers of SnapshotStore.                            *)
(*                                                                         *)
(* Every call to S3 or to a worker thread is a step of its own; between    *)
(* two of them writers commit, snapshots expire and stored bytes may be    *)
(* damaged.  Bytes are modelled by the snapshot they are the archive of; a *)
(* damaged copy is one whose size or checksum no longer is the registered  *)
(* one.                                                                    *)
(***************************************************************************)
EXTENDS SnapshotStore, Sequences

CONSTANTS
    Restorers,   \* callers of restore
    CacheRoom,   \* entries the cache may keep
    MaxDamage,   \* bound: stored copies that are damaged
    Damaged      \* bytes that are no archive

ASSUME CacheRoomAssumption == CacheRoom \in Nat
ASSUME MaxDamageAssumption == MaxDamage \in Nat
ASSUME DamagedAssumption == Damaged \notin Snapshots \cup {NoSnapshot}

VARIABLES
    restore,     \* restorer |-> where it is, the document it read, its bytes
    cache,       \* published entries of the cache, least recently used first
    spoiled,     \* snapshots whose object in S3 is missing or damaged
    expired,     \* snapshots whose expires_at has passed
    damage       \* damaged copies so far

restoreVars == <<restore, cache, spoiled, expired, damage>>

Bytes == Snapshots \cup {NoSnapshot, Damaged}
CacheEntry == [version : Nat, bytes : Bytes]
NoRestore == [at |-> "idle", doc |-> Absent, bytes |-> NoSnapshot, known |-> {}]

RestoreTypeOK ==
    /\ restore \in [Restorers ->
           [at : {"idle", "cache", "head", "open", "download", "keep", "served"},
            doc : RegistryDoc, bytes : Bytes, known : SUBSET Snapshots]]
    /\ cache \in Seq(CacheEntry) /\ Len(cache) <= CacheRoom
    /\ \A i, j \in DOMAIN cache : cache[i].version = cache[j].version => i = j
    /\ spoiled \subseteq Snapshots
    /\ expired \subseteq Snapshots
    /\ damage \in 0 .. MaxDamage

RestoreInit ==
    /\ restore = [r \in Restorers |-> NoRestore]
    /\ cache = <<>>
    /\ spoiled = {}
    /\ expired = {}
    /\ damage = 0

Latest(r) == restore[r].doc.latest
Becomes(r, state) == restore' = [restore EXCEPT ![r] = state]

(* restore returns None, or it or the iterator raises: the call is over. *)
Over(r) == Becomes(r, NoRestore)

-----------------------------------------------------------------------------
(* BoundedCache: every get and put, with its eviction, is under one lock. *)

Slots(version) == {i \in DOMAIN cache : cache[i].version = version}
Slot(version) == CHOOSE i \in Slots(version) : TRUE
Others(version) ==
    IF Slots(version) = {} THEN cache
    ELSE SubSeq(cache, 1, Slot(version) - 1) \o SubSeq(cache, Slot(version) + 1, Len(cache))

(* Mutant: an entry is trusted because of its name. *)
GetUnverified(version, checksum) ==
    IF Slots(version) = {} THEN NoSnapshot ELSE cache[Slot(version)].bytes

(* get: the bytes, when they have the expected checksum. *)
CacheGet(version, checksum) ==
    IF Slots(version) # {} /\ cache[Slot(version)].bytes = checksum
    THEN checksum ELSE NoSnapshot

(* ... a hit becomes the most recent entry, a bad one is removed. *)
CacheAfterGet(version, checksum) ==
    IF CacheGet(version, checksum) = NoSnapshot THEN Others(version)
    ELSE Append(Others(version), cache[Slot(version)])

(* put: the entry is published by a rename, then the oldest others go until
   the budget is kept; bytes larger than the budget are not kept at all. *)
CacheAfterPut(version, bytes) ==
    LET old == Others(version)
        kept == SubSeq(old, Len(old) + 2 - CacheRoom, Len(old))
    IN  IF CacheRoom = 0 THEN cache
        ELSE Append(IF Len(old) < CacheRoom THEN old ELSE kept,
                    [version |-> version, bytes |-> bytes])

-----------------------------------------------------------------------------
(* restore(). *)

(* The registry is read and validated.  Without a snapshot there is nothing to
   restore; an expired one is refused. *)
RestoreBegins(r) ==
    /\ restore[r].at \in {"idle", "served"}
    /\ IF registry.latest = NoEntry \/ registry.latest.id \in expired THEN Over(r)
       ELSE Becomes(r, [at |-> "cache", doc |-> registry, bytes |-> NoSnapshot, known |-> acked])
    /\ UNCHANGED <<cache, spoiled, expired, damage>>

RestoreAsksCache(r) ==
    /\ restore[r].at = "cache"
    /\ LET got == CacheGet(Latest(r).version, Latest(r).id) IN
       Becomes(r, [restore[r] EXCEPT !.at = IF got = NoSnapshot THEN "head" ELSE "open",
                                     !.bytes = got])
    /\ cache' = CacheAfterGet(Latest(r).version, Latest(r).id)
    /\ UNCHANGED <<spoiled, expired, damage>>

(* The object exists and has the registered size. *)
RestoreHeads(r) ==
    /\ restore[r].at = "head"
    /\ IF Latest(r).id \in spoiled THEN Over(r)
       ELSE Becomes(r, [restore[r] EXCEPT !.at = "open"])
    /\ UNCHANGED <<cache, spoiled, expired, damage>>

(* The iterator is started, possibly much later. *)
RestoreOpens(r) ==
    /\ restore[r].at = "open"
    /\ IF Latest(r).id \in expired THEN Over(r)
       ELSE Becomes(r, [restore[r] EXCEPT
                           !.at = IF restore[r].bytes = NoSnapshot THEN "download" ELSE "served"])
    /\ UNCHANGED <<cache, spoiled, expired, damage>>

(* Download into private staging, verify size and checksum, remove the staging
   file, and look at the clock again. *)
RestoreDownloads(r) ==
    /\ restore[r].at = "download"
    /\ IF Latest(r).id \in spoiled \cup expired THEN Over(r)
       ELSE Becomes(r, [restore[r] EXCEPT !.at = "keep", !.bytes = Latest(r).id])
    /\ UNCHANGED <<cache, spoiled, expired, damage>>

(* Keep a copy; the clock is read once more before the bytes are given out. *)
RestoreKeeps(r) ==
    /\ restore[r].at = "keep"
    /\ cache' = CacheAfterPut(Latest(r).version, restore[r].bytes)
    /\ IF Latest(r).id \in expired THEN Over(r)
       ELSE Becomes(r, [restore[r] EXCEPT !.at = "served"])
    /\ UNCHANGED <<spoiled, expired, damage>>

(* A call fails, or the caller is cancelled: the owned worker is waited for and
   the staging file removed. *)
RestoreFails(r) ==
    /\ restore[r].at \in {"cache", "head", "open", "download", "keep"}
    /\ Over(r)
    /\ UNCHANGED <<cache, spoiled, expired, damage>>

-----------------------------------------------------------------------------
(* The surroundings: time passes, stored copies go bad. *)

SnapshotExpires(s) ==
    /\ s \in {d.latest.id : d \in hist} \ expired
    /\ expired' = expired \cup {s}
    /\ UNCHANGED <<restore, cache, spoiled, damage>>

ObjectSpoils(s) ==
    /\ damage < MaxDamage /\ damage' = damage + 1
    /\ blobs[s] # NoTag
    /\ spoiled' = spoiled \cup {s}
    /\ UNCHANGED <<restore, cache, expired>>

CacheSpoils ==
    /\ damage < MaxDamage /\ damage' = damage + 1
    /\ \E i \in DOMAIN cache : cache' = [cache EXCEPT ![i].bytes = Damaged]
    /\ UNCHANGED <<restore, spoiled, expired>>

RestoreNext ==
    \/ \E r \in Restorers :
          \/ RestoreBegins(r) \/ RestoreAsksCache(r) \/ RestoreHeads(r)
          \/ RestoreOpens(r) \/ RestoreDownloads(r) \/ RestoreKeeps(r) \/ RestoreFails(r)
    \/ \E s \in Snapshots : SnapshotExpires(s) \/ ObjectSpoils(s)
    \/ CacheSpoils

-----------------------------------------------------------------------------
(* Properties. *)

(* What restore gives out, from S3 or from the cache, is the archive of a
   snapshot that was committed, undamaged, and holds all the work that had
   been acknowledged to anybody when the restore began, whoever committed,
   took over or damaged a copy meanwhile; and the cache keeps to its budget,
   one entry per version. *)
RestoredIsAcked ==
    /\ RestoreTypeOK
    /\ \A r \in Restorers : restore[r].at = "served" =>
          /\ restore[r].bytes = Latest(r).id
          /\ restore[r].doc \in hist
          /\ restore[r].known \subseteq content[restore[r].bytes]
=============================================================================
