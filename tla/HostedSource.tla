---------------------------- MODULE HostedSource ----------------------------
(***************************************************************************)
(* harness/hosted.py: the desired state the runtime publishes to the host, *)
(* one entry per Workspace, and the registrations the host makes.  Every   *)
(* method here runs without an await, so it is one operator, used by the   *)
(* actions of Workspaces (the manager) and Hosting (the host).             *)
(*                                                                         *)
(* An entry is told from a later one of the same Workspace by its id: the  *)
(* code compares object identity, and Placement.registration.  An entry is *)
(* registered at most once and a unit's URL follows from its name, so one  *)
(* id stands for both.                                                     *)
(***************************************************************************)
EXTENDS Naturals, Sequences, FiniteSets, FiniteSetsExt, SequencesExt

CONSTANT Refs            \* Workspaces of the agent

ASSUME RefsAssumption == IsFiniteSet(Refs)      \* digests of one fixed length

VARIABLES
    adopting,    \* waiting for the host's inventory
    entries,     \* _entries: Workspace |-> its Hosted entry, or NoHosted
    gateway,     \* _gateway: the host reports its gateway as reachable
    losses       \* _lost callbacks not yet run: <<Workspace, instance>>

source == <<adopting, entries, gateway, losses>>

(* Instance and entry ids; 0 is None. *)
None == 0
NoHosted ==
    [id |-> None, desired |-> "none", registered |-> FALSE, observed |-> None]
Hosted ==
    [id : Nat \ {None}, desired : {"running", "released"}, registered : BOOLEAN,
     observed : Nat]

SourceTypeOK ==
    /\ adopting \in BOOLEAN
    /\ entries \in [Refs -> Hosted \cup {NoHosted}]
    /\ gateway \in BOOLEAN
    /\ losses \in SUBSET (Refs \X Nat)

SourceInit ==
    /\ adopting = TRUE
    /\ entries = [ws \in Refs |-> NoHosted]
    /\ gateway = TRUE
    /\ losses = {}

-----------------------------------------------------------------------------
(* WorkspaceSource, called by the manager. *)

(* place: publish a new entry, which must not exist yet. *)
place(ws, id) ==
    /\ entries[ws] = NoHosted
    /\ entries' = [entries EXCEPT ![ws] =
          [NoHosted EXCEPT !.id = id, !.desired = "running"]]

(* place's loop ends: the entry has its registration, also when the host has
   unregistered it since. *)
Placed(ws, id) == entries[ws].id = id => entries[ws].registered

(* place's deadline: an entry nobody registered is withdrawn. *)
Withdraw(ws) == entries' = [entries EXCEPT ![ws] = NoHosted]

(* Mutant: retire also `releases' a Workspace that has no entry. *)
RetireUnchecked(ws) == entries' = [entries EXCEPT ![ws].desired = "released"]

(* retire: ask the host to stop the unit; confirmed once that entry is gone. *)
retire(ws) ==
    entries' = [entries EXCEPT ![ws].desired = IF @ = "none" THEN @ ELSE "released"]
Confirmed(ws, id) == entries[ws].id # id \/ id = None

(* _current, and observed and serving, which need it. *)
Current(ws, id) == entries[ws].id = id /\ entries[ws].desired = "running"
observed(ws, instance) == entries' = [entries EXCEPT ![ws].observed = instance]

-----------------------------------------------------------------------------
(* The host API. *)

register(ws) ==
    entries' = [entries EXCEPT ![ws].registered =
                   @ \/ entries[ws].desired = "running"]

(* unregister: ignored before the registration, and for another instance than
   the one observed.  A unit that was to run is reported as lost. *)
unregister(ws, instance) ==
    LET e == entries[ws]
        accepted == e.registered /\ e.observed \in {None, instance}
    IN  /\ entries' = [entries EXCEPT ![ws] = IF accepted THEN NoHosted ELSE @]
        /\ losses' = IF accepted /\ e.desired = "running"
                     THEN losses \cup {<<ws, e.observed>>} ELSE losses

(* accept_inventory: once; every unit becomes a registered entry. *)
accept_inventory(units, id) ==
    /\ adopting
    /\ adopting' = FALSE
    /\ entries' = [ws \in Refs |->
          IF ws \in units
          THEN [NoHosted EXCEPT !.id = id, !.desired = "running", !.registered = TRUE]
          ELSE entries[ws]]
=============================================================================
