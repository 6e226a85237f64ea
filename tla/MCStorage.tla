------------------------------ MODULE MCStorage ------------------------------
(* Two controls of one instance (a restart that adopts it) and a control with a
   new instance; one restorer; two calls that publish the same and a third one
   that reuses their key. *)
EXTENDS Storage, TLC

CONSTANTS w1, w2, w3, i1, i2, p1, p2, p3

MCInstanceOf == [w \in Writers |-> IF w = w3 THEN i2 ELSE i1]
MCPublicationOf == [p \in Publishers |-> IF p = p3 THEN "other" ELSE "same"]
StorageSymmetry == Permutations(Snapshots) \cup Permutations({p1, p2})
=============================================================================
