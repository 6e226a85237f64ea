------------------------------- MODULE Storage -------------------------------
(***************************************************************************)
(* The bucket with everybody who uses it: the writers of a domain, the     *)
(* restores that read it, and the calls that publish and read an artifact. *)
(* The objects of an artifact and of a domain have different keys and no   *)
(* code path touches both, so a behaviour uses one of the two; restores    *)
(* interleave with every step of the writers.                              *)
(***************************************************************************)
EXTENDS Restores, Artifacts

CONSTANTS
    RestoreWriters,  \* bound: the writers that run beside restores
    RestoreFaults    \* bound: ... and their faults

ASSUME RestoreBoundsAssumption ==
    RestoreWriters \subseteq Writers /\ RestoreFaults \in 0 .. MaxFaults

VARIABLES use    \* what this behaviour is about

storageVars == <<vars, restoreVars, artifactVars, use>>

StorageInit ==
    /\ Init /\ RestoreInit /\ ArtifactInit
    /\ use \in {"write", "restore", "artifact"}

(* A step of the writers within those bounds. *)
WritersBesideRestores ==
    /\ Next
    /\ faults' <= RestoreFaults
    /\ \A w \in Writers \ RestoreWriters : pc'[w] = "off"

StorageNext ==
    /\ UNCHANGED use
    /\ \/ use = "write" /\ Next /\ UNCHANGED <<restoreVars, artifactVars>>
       \/ use = "restore" /\ WritersBesideRestores /\ UNCHANGED <<restoreVars, artifactVars>>
       \/ use = "restore" /\ RestoreNext /\ UNCHANGED <<vars, artifactVars>>
       \/ use = "artifact" /\ ArtifactNext /\ UNCHANGED <<vars, restoreVars>>

StorageSpec == StorageInit /\ [][StorageNext]_storageVars
=============================================================================
