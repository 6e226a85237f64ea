--------------------------- MODULE MCSnapshotStore ---------------------------
(* Two controls of one instance (a restart that adopts it) and a control with a
   new instance. *)
EXTENDS SnapshotStore, TLC

CONSTANTS w1, w2, w3, i1, i2

MCInstanceOf == [w \in Writers |-> IF w = w3 THEN i2 ELSE i1]
SnapshotSymmetry == Permutations(Snapshots)
=============================================================================
