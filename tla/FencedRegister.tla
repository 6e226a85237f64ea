--------------------------- MODULE FencedRegister ---------------------------
(***************************************************************************)
(* What the storage promises for one domain, as the contract states it     *)
(* (ach-workspace-contract-v1.md sections 7 and 11): a register that       *)
(* belongs to one writer at a time.  Taking it over keeps the committed    *)
(* snapshot; only the present owner's commits change it; a snapshot is     *)
(* committed once and acknowledged only after that.                        *)
(***************************************************************************)
EXTENDS Naturals

CONSTANTS Instances, Snapshots, NoInstance, NoSnapshot

VARIABLES epoch, owner, latest, committed, acked

avars == <<epoch, owner, latest, committed, acked>>

Init ==
    /\ epoch = 0
    /\ owner = NoInstance
    /\ latest = NoSnapshot
    /\ committed = {}
    /\ acked = {}

NewWriter(i) ==
    /\ epoch' = epoch + 1
    /\ owner' = i
    /\ UNCHANGED <<latest, committed, acked>>

Commit(s) ==
    /\ epoch > 0
    /\ s \notin committed
    /\ latest' = s
    /\ committed' = committed \cup {s}
    /\ UNCHANGED <<epoch, owner, acked>>

Acknowledge(s) ==
    /\ s \in committed
    /\ acked' = acked \cup {s}
    /\ UNCHANGED <<epoch, owner, latest, committed>>

Next ==
    \/ \E i \in Instances : NewWriter(i)
    \/ \E s \in Snapshots : Commit(s) \/ Acknowledge(s)

Spec == Init /\ [][Next]_avars
=============================================================================
