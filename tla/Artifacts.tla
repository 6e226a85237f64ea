----------------------------- MODULE Artifacts -----------------------------
(***************************************************************************)
(* Publishing and reading one artifact, storage/artifacts.py: the body and *)
(* the manifest are two objects that are created once, by conditional puts *)
(* of any number of calls with the same owner and idempotency key.  The    *)
(* calls come from runs of the Workspace through facades/artifacts.py, and *)
(* a run repeats a call whose answer it did not get.                       *)
(*                                                                         *)
(* What a call publishes (descriptor, checksum and size) is one value; two *)
(* calls agree on it or not.  Time only matters for created_at, taken by   *)
(* the first call that finds no body, and for the expiry computed from it. *)
(***************************************************************************)
EXTENDS Naturals

CONSTANTS
    Publishers,     \* calls of create_artifact for this artifact id
    PublicationOf,  \* publisher |-> what it publishes
    Readers,        \* calls of read_artifact
    Retention,      \* retention_days, 0 for ever
    MaxTime,        \* bound on the clock
    MaxMishaps,     \* bound: lost answers, failed calls, damaged bodies
    Nothing         \* no object, no bytes

Publications == {PublicationOf[p] : p \in Publishers}

ASSUME PublisherAssumption == Nothing \notin Publications
ASSUME TimeAssumption == Retention \in Nat /\ MaxTime \in Nat /\ MaxMishaps \in Nat

VARIABLES
    body,       \* the body object with its metadata, and its bytes
    manifest,   \* the manifest object
    stray,      \* puts that nobody waits for and that may still arrive
    pub,        \* publisher |-> where its call is, and its metadata
    read,       \* reader |-> where its call is, its manifest and its bytes
    receipts,   \* the metadata of every receipt that was returned
    now,        \* the clock
    mishaps,    \* mishaps so far
    spoilt      \* has S3 lost or altered the body

artifactVars == <<body, manifest, stray, pub, read, receipts, now, mishaps, spoilt>>

Meta == [what : Publications \cup {Nothing}, created : 0 .. MaxTime]
NoMeta == [what |-> Nothing, created |-> 0]
Body == [meta : Meta, bytes : Publications \cup {Nothing}]
NoBody == [meta |-> NoMeta, bytes |-> Nothing]
StoredAs(meta) == [meta |-> meta, bytes |-> meta.what]

Expired(meta) == Retention > 0 /\ now >= meta.created + Retention

ArtifactTypeOK ==
    /\ body \in Body
    /\ manifest \in Meta
    /\ stray \subseteq [kind : {"body", "manifest"}, meta : Meta]
    /\ pub \in [Publishers -> [at : {"new", "head", "put", "recover", "register", "confirm",
                                     "over"}, meta : Meta]]
    /\ read \in [Readers -> [at : {"new", "open", "download", "served"}, meta : Meta,
                             bytes : Publications \cup {Nothing}]]
    /\ receipts \subseteq Meta
    /\ now \in 0 .. MaxTime
    /\ mishaps \in 0 .. MaxMishaps
    /\ spoilt \in BOOLEAN

ArtifactInit ==
    /\ body = NoBody
    /\ manifest = NoMeta
    /\ stray = {}
    /\ pub = [p \in Publishers |-> [at |-> "new", meta |-> NoMeta]]
    /\ read = [r \in Readers |-> [at |-> "new", meta |-> NoMeta, bytes |-> Nothing]]
    /\ receipts = {}
    /\ now = 0
    /\ mishaps = 0
    /\ spoilt = FALSE

Mishap == mishaps < MaxMishaps /\ mishaps' = mishaps + 1
At(p, step) == pub[p].at = step
Goes(p, step, meta) == pub' = [pub EXCEPT ![p] = [at |-> step, meta |-> meta]]
Raises(p) == Goes(p, "over", NoMeta)
Returns(p, meta) == Raises(p) /\ receipts' = receipts \cup {meta}
Fresh(p) == [what |-> PublicationOf[p], created |-> now]

-----------------------------------------------------------------------------
(* create_artifact_s3. *)

(* The content is received into staging, within its limit.  A call that is
   over may be made again. *)
Receive(p) ==
    /\ pub[p].at \in {"new", "over"}
    /\ Goes(p, "head", NoMeta)
    /\ UNCHANGED <<body, manifest, stray, read, receipts, now, mishaps, spoilt>>

(* A body that is there must be the same publication; its dates are adopted. *)
FindBody(p) ==
    /\ At(p, "head")
    /\ \/ body.meta = NoMeta /\ Goes(p, "put", Fresh(p))
       \/ body.meta.what = PublicationOf[p] /\ Goes(p, "register", body.meta)
       \/ body.meta.what \notin {Nothing, PublicationOf[p]} /\ Raises(p)
    /\ UNCHANGED <<body, manifest, stray, read, receipts, now, mishaps, spoilt>>

PutBody(p) ==
    /\ At(p, "put")
    /\ \/ body.meta = NoMeta /\ body' = StoredAs(pub[p].meta) /\ Goes(p, "register", pub[p].meta)
       \/ body.meta # NoMeta /\ Goes(p, "recover", pub[p].meta) /\ UNCHANGED body
    /\ UNCHANGED <<manifest, stray, read, receipts, now, mishaps, spoilt>>

(* No answer: the put was applied, or may be later.  The call asks what is there,
   or was cancelled. *)
PutBodyUnanswered(p) ==
    /\ At(p, "put") /\ Mishap
    /\ Goes(p, "recover", pub[p].meta) \/ Raises(p)
    /\ \/ body.meta = NoMeta /\ body' = StoredAs(pub[p].meta) /\ UNCHANGED stray
       \/ stray' = stray \cup {[kind |-> "body", meta |-> pub[p].meta]} /\ UNCHANGED body
    /\ UNCHANGED <<manifest, read, receipts, now, spoilt>>

(* Mutant: the dates of this call are kept. *)
RecoverOwnDates(p) ==
    /\ At(p, "recover")
    /\ IF body.meta.what = PublicationOf[p] THEN Goes(p, "register", pub[p].meta) ELSE Raises(p)
    /\ UNCHANGED <<body, manifest, stray, read, receipts, now, mishaps, spoilt>>

(* After a failed put: the body of the same publication, whoever put it, gives
   the dates; no body is the error of the put, another one a conflict. *)
RecoverBody(p) ==
    /\ At(p, "recover")
    /\ IF body.meta.what = PublicationOf[p] THEN Goes(p, "register", body.meta) ELSE Raises(p)
    /\ UNCHANGED <<body, manifest, stray, read, receipts, now, mishaps, spoilt>>

PutManifest(p) ==
    /\ At(p, "register")
    /\ \/ manifest = NoMeta /\ manifest' = pub[p].meta /\ Returns(p, pub[p].meta)
       \/ /\ manifest # NoMeta
          /\ Goes(p, "confirm", pub[p].meta)
          /\ UNCHANGED <<manifest, receipts>>
    /\ UNCHANGED <<body, stray, read, now, mishaps, spoilt>>

PutManifestUnanswered(p) ==
    /\ At(p, "register") /\ Mishap
    /\ Goes(p, "confirm", pub[p].meta) \/ Raises(p)
    /\ \/ manifest = NoMeta /\ manifest' = pub[p].meta /\ UNCHANGED stray
       \/ stray' = stray \cup {[kind |-> "manifest", meta |-> pub[p].meta]} /\ UNCHANGED manifest
    /\ UNCHANGED <<body, read, receipts, now, spoilt>>

(* The manifest that is there answers, if it is of the same publication. *)
ConfirmManifest(p) ==
    /\ At(p, "confirm")
    /\ IF manifest.what = PublicationOf[p] THEN Returns(p, manifest)
       ELSE Raises(p) /\ UNCHANGED receipts
    /\ UNCHANGED <<body, manifest, stray, read, now, mishaps, spoilt>>

(* A read fails, the call is cancelled or its process dies between two calls. *)
PublishFails(p) ==
    /\ pub[p].at \notin {"new", "over"} /\ Mishap
    /\ Raises(p)
    /\ UNCHANGED <<body, manifest, stray, read, receipts, now, spoilt>>

(* A put nobody waits for arrives; its condition is tested there. *)
StrayLands ==
    /\ \E put \in stray :
          /\ stray' = stray \ {put}
          /\ \/ /\ put.kind = "body" /\ body.meta = NoMeta
                /\ body' = StoredAs(put.meta) /\ UNCHANGED manifest
             \/ /\ put.kind = "manifest" /\ manifest = NoMeta
                /\ manifest' = put.meta /\ UNCHANGED body
    /\ UNCHANGED <<pub, read, receipts, now, mishaps, spoilt>>

-----------------------------------------------------------------------------
(* read_artifact_s3. *)

Reads(r, step, meta, bytes) ==
    read' = [read EXCEPT ![r] = [at |-> step, meta |-> meta, bytes |-> bytes]]
ReadRaises(r) == Reads(r, "new", NoMeta, Nothing)

(* Without a manifest there is no artifact; an expired one is refused. *)
ReadManifest(r) ==
    /\ read[r].at \in {"new", "served"}
    /\ IF manifest = NoMeta \/ Expired(manifest) THEN ReadRaises(r)
       ELSE Reads(r, "open", manifest, Nothing)
    /\ UNCHANGED <<body, manifest, stray, pub, receipts, now, mishaps, spoilt>>

OpenBody(r) ==
    /\ read[r].at = "open"
    /\ IF Expired(read[r].meta) THEN ReadRaises(r) ELSE Reads(r, "download", read[r].meta, Nothing)
    /\ UNCHANGED <<body, manifest, stray, pub, receipts, now, mishaps, spoilt>>

(* The whole body is staged and verified before the first byte is given out. *)
ReadBody(r) ==
    /\ read[r].at = "download"
    /\ IF body.bytes = read[r].meta.what THEN Reads(r, "served", read[r].meta, body.bytes)
       ELSE ReadRaises(r)
    /\ UNCHANGED <<body, manifest, stray, pub, receipts, now, mishaps, spoilt>>

-----------------------------------------------------------------------------
(* The surroundings: the body is lost or altered in S3, and time passes. *)

BodySpoils ==
    /\ Mishap /\ body # NoBody
    /\ body' \in {NoBody, [body EXCEPT !.bytes = Nothing]}
    /\ spoilt' = TRUE
    /\ UNCHANGED <<manifest, stray, pub, read, receipts, now>>

TimePasses ==
    /\ now < MaxTime /\ now' = now + 1
    /\ UNCHANGED <<body, manifest, stray, pub, read, receipts, mishaps, spoilt>>

ArtifactNext ==
    \/ \E p \in Publishers :
          \/ Receive(p) \/ FindBody(p) \/ PutBody(p) \/ PutBodyUnanswered(p) \/ RecoverBody(p)
          \/ PutManifest(p) \/ PutManifestUnanswered(p) \/ ConfirmManifest(p) \/ PublishFails(p)
    \/ StrayLands
    \/ \E r \in Readers : ReadManifest(r) \/ OpenBody(r) \/ ReadBody(r)
    \/ BodySpoils \/ TimePasses

-----------------------------------------------------------------------------
(* Properties. *)

(* An artifact is one thing to everybody.  All receipts, of the first call, of a
   repeated one or of one that raced with it, say what the manifest says, dates
   included; no call with other content got one.  The body was put before its
   manifest and has the same dates.  Whatever became of the body since, a read
   gives out the registered content or nothing. *)
ArtifactIsWhole ==
    /\ ArtifactTypeOK
    /\ receipts \subseteq {manifest}
    /\ manifest # NoMeta /\ ~spoilt => body = StoredAs(manifest)
    /\ \A r \in Readers : read[r].at = "served" => read[r].bytes = manifest.what
=============================================================================
