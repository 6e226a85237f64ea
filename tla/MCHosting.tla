------------------------------ MODULE MCHosting ------------------------------
(* One Workspace with several faults, or two that compete for one slot. *)
EXTENDS Hosting, TLC

RefSymmetry == Permutations(Refs)
=============================================================================
