------------------------------- MODULE Hosting -------------------------------
(***************************************************************************)
(* The manager (Workspaces), its source (HostedSource) and the host that   *)
(* runs the units: operator/internal/host/host.go over a Backend           *)
(* (backend.go).  The host lists the desired state, then acts on that      *)
(* listing one Workspace after the other while the runtime goes on, so     *)
(* every call it makes may be based on a stale listing.  The control       *)
(* process may restart (new epoch, empty memory, adoption); units may be   *)
(* lost or restart; calls may time out and arrive late.                    *)
(***************************************************************************)
EXTENDS Workspaces

VARIABLES
    unit,      \* Workspace |-> UnitState of its unit
    proc,      \* Workspace |-> instance id its process reports
    host,      \* what the host does: "list", "inventory" or "pass"
    stale,     \* the control has restarted since the host's listing
    listing,   \* Workspace |-> what the host's listing says of it
    todo,      \* Workspaces the pass has not come to yet
    wire       \* DELETE calls that timed out and may still arrive

backend == <<unit, proc>>
hostVars == <<host, stale, listing, todo, wire>>
vars == <<source, manager, faults, backend, hostVars>>

UnitStates == {"absent", "starting", "started", "lost", "terminating"}
Listed(e) == [desired |-> e.desired, registered |-> e.registered, observed |-> e.observed]

TypeOK ==
    /\ SourceTypeOK
    /\ ManagerTypeOK
    /\ faults \in 0 .. MaxFaults
    /\ unit \in [Refs -> UnitStates]
    /\ proc \in [Refs -> Nat]
    /\ host \in {"list", "inventory", "pass"}
    /\ stale \in BOOLEAN
    /\ listing \in [Refs -> [desired : {"none", "running", "released"},
                            registered : BOOLEAN, observed : Nat]]
    /\ todo \in SUBSET Refs
    /\ wire \in SUBSET (Refs \X Nat)

(* The control starts; units of an earlier one may be running. *)
Init ==
    /\ SourceInit
    /\ ManagerInit
    /\ faults = 0
    /\ unit \in [Refs -> {"absent", "started"}]
    /\ proc = [ws \in Refs |-> IF unit[ws] = "started" THEN 1 ELSE None]
    /\ used = [ws \in Refs |-> {proc[ws]} \ {None}]
    /\ host = "list"
    /\ stale = FALSE
    /\ listing = [ws \in Refs |-> Listed(NoHosted)]
    /\ todo = {}
    /\ wire = {}

-----------------------------------------------------------------------------
(* Units. *)

InstancesInUse(ws) ==
    {None, proc[ws], active[ws], op[ws].inst, tick[ws], closing[ws], losing[ws],
     entries[ws].observed, listing[ws].observed}
      \cup {call[2] : call \in {c \in losses \cup wire : c[1] = ws}}

(* A process starts under a new uuid. *)
NewProcess(ws) ==
    LET i == Fresh(InstancesInUse(ws))
    IN  /\ proc' = [proc EXCEPT ![ws] = i]
        /\ used' = [used EXCEPT ![ws] = @ \ {i}]

UnitStarts(ws) ==
    /\ unit[ws] = "starting"
    /\ unit' = [unit EXCEPT ![ws] = "started"]
    /\ NewProcess(ws)
    /\ UNCHANGED <<source, occupied, active, error, late, begun, inventory, deferred, tasks,
                   op, closing, losing, caller, tick, faults, hostVars>>

(* The process restarts in place, outside the runtime's control. *)
UnitRestarts(ws) ==
    /\ unit[ws] = "started"
    /\ Fault
    /\ NewProcess(ws)
    /\ UNCHANGED <<source, occupied, active, error, late, begun, inventory, deferred, tasks,
                   op, closing, losing, caller, tick, unit, hostVars>>

(* The process is gone, with or without a record of the unit. *)
UnitDies(ws) ==
    /\ unit[ws] = "started"
    /\ Fault
    /\ \E state \in {"lost", "absent"} : unit' = [unit EXCEPT ![ws] = state]
    /\ UNCHANGED <<source, manager, proc, hostVars>>

UnitGone(ws) ==
    /\ unit[ws] = "terminating"
    /\ unit' = [unit EXCEPT ![ws] = "absent"]
    /\ UNCHANGED <<source, manager, faults, proc, hostVars>>

(* A terminating unit may still answer. *)
Answers(ws) == unit[ws] \in {"started", "terminating"}
Healthy(ws, i) == Answers(ws) /\ proc[ws] = i

-----------------------------------------------------------------------------
(* The host's loop: Sync, Inventory and Pass. *)

HostLists ==
    /\ host = "list"
    /\ host' = IF adopting THEN "inventory" ELSE "pass"
    /\ stale' = FALSE
    /\ listing' = [ws \in Refs |-> Listed(entries[ws])]
    /\ todo' = IF adopting THEN {} ELSE Refs
    /\ UNCHANGED <<source, manager, faults, backend, wire>>

(* PUT inventory: refused with 409 for another epoch than the control's, and not
   sent while the gateway cannot be seen. *)
HostInventory ==
    LET live == {ws \in Refs : unit[ws] = "started"}
    IN  /\ host = "inventory"
        /\ host' = "list"
        /\ \/ /\ ~stale /\ gateway
              /\ accept_inventory(live, 1)
              /\ inventory' = [ws \in Refs |-> IF ws \in live THEN 1 ELSE None]
           \/ /\ stale \/ ~gateway
              /\ UNCHANGED <<adopting, entries, inventory>>
        /\ UNCHANGED <<gateway, losses, occupied, active, error, late, begun, deferred,
                       tasks, op, closing, losing, caller, tick, used, faults, backend,
                       stale, listing, todo, wire>>

(* The pass goes on with another Workspace, or the host lists again. *)
Handled(ws) ==
    /\ host = "pass"
    /\ ws \in todo
    /\ todo' = todo \ {ws}
    /\ host' = IF todo' = {} THEN "list" ELSE "pass"

(* DELETE instance: answered, or timed out and still under way. *)
Delete(ws, instance) ==
    \/ unregister(ws, instance) /\ UNCHANGED <<wire, faults>>
    \/ /\ Fault
       /\ wire' = wire \cup {<<ws, instance>>}
       /\ UNCHANGED <<entries, losses>>

(* Backend.Remove: ask for the end of the unit; whether something remains. *)
RemoveUnit(ws) == unit' = [unit EXCEPT ![ws] = IF @ = "absent" THEN @ ELSE "terminating"]

(* ensureRunning, by the state of the unit and what the listing says. *)
HostCreates(ws) ==
    /\ Handled(ws)
    /\ gateway
    /\ listing[ws].desired = "running" /\ ~listing[ws].registered
    /\ unit[ws] = "absent"
    /\ unit' = [unit EXCEPT ![ws] = "starting"]
    /\ UNCHANGED <<source, manager, faults, proc, stale, listing, wire>>

HostRegisters(ws) ==
    /\ Handled(ws)
    /\ gateway
    /\ listing[ws].desired = "running" /\ ~listing[ws].registered
    /\ unit[ws] = "started"
    /\ register(ws)
    /\ UNCHANGED <<adopting, gateway, losses, manager, faults, backend, stale, listing, wire>>

HostReportsLost(ws) ==
    /\ Handled(ws)
    /\ gateway
    /\ listing[ws].desired = "running"
    /\ unit[ws] = "lost"
    /\ \/ /\ ~listing[ws].registered
          /\ RemoveUnit(ws)
          /\ UNCHANGED <<entries, losses, wire, faults>>
       \/ /\ listing[ws].registered /\ listing[ws].observed # None
          /\ Delete(ws, listing[ws].observed)
          /\ UNCHANGED unit
    /\ UNCHANGED <<adopting, gateway, manager, proc, stale, listing>>

(* Mutant: the stop is confirmed without a stop. *)
HostConfirmsAtOnce(ws) ==
    /\ Handled(ws)
    /\ gateway
    /\ listing[ws].desired = "released"
    /\ Delete(ws, listing[ws].observed)
    /\ UNCHANGED <<adopting, gateway, manager, backend, stale, listing>>

(* retire: confirm with a DELETE only when nothing of the unit remains. *)
HostRetires(ws) ==
    /\ Handled(ws)
    /\ gateway
    /\ listing[ws].desired = "released"
    /\ \/ unit[ws] # "absent" /\ RemoveUnit(ws) /\ UNCHANGED <<entries, losses, wire, faults>>
       \/ unit[ws] = "absent" /\ Delete(ws, listing[ws].observed) /\ UNCHANGED unit
    /\ UNCHANGED <<adopting, gateway, manager, proc, stale, listing>>

(* Mutant: unlisted units are left alone. *)
HostKeepsUnlisted(ws) ==
    /\ Handled(ws)
    /\ gateway
    /\ listing[ws].desired = "none"
    /\ UNCHANGED <<source, manager, faults, backend, stale, listing, wire>>

(* A unit of a Workspace that is not listed is removed. *)
HostRemovesUnlisted(ws) ==
    /\ Handled(ws)
    /\ gateway
    /\ listing[ws].desired = "none"
    /\ RemoveUnit(ws)
    /\ UNCHANGED <<source, manager, faults, proc, stale, listing, wire>>

(* Nothing to do for this Workspace in this pass: its unit is on its way, or
   serves, or vanished behind a registration, or the gateway cannot be seen. *)
HostPasses(ws) ==
    /\ Handled(ws)
    /\ \/ ~gateway
       \/ /\ listing[ws].desired = "running"
          /\ \/ unit[ws] \in {"starting", "terminating"}
             \/ listing[ws].registered /\ unit[ws] \in {"absent", "started"}
             \/ /\ unit[ws] = "lost"
                /\ listing[ws].registered /\ listing[ws].observed = None
    /\ UNCHANGED <<source, manager, faults, backend, stale, listing, wire>>

(* A call of the host, or of its backend, fails without effect. *)
HostCallFails(ws) ==
    /\ Handled(ws)
    /\ Fault
    /\ UNCHANGED <<source, manager, backend, stale, listing, wire>>

DeleteArrives ==
    \E call \in wire :
        /\ wire' = wire \ {call}
        /\ unregister(call[1], call[2])
        /\ UNCHANGED <<adopting, gateway, manager, faults, backend, host, stale, listing,
                       todo>>

GatewayChanges ==
    /\ gateway' = ~gateway
    /\ IF gateway THEN Fault ELSE UNCHANGED faults
    /\ UNCHANGED <<adopting, entries, losses, manager, backend, hostVars>>

(* The control process dies, and the calls on its connections with it; a new one
   starts with an empty memory. *)
ControlRestarts ==
    /\ Fault
    /\ adopting' = TRUE
    /\ entries' = [ws \in Refs |-> NoHosted]
    /\ gateway' = TRUE
    /\ losses' = {}
    /\ occupied' = {}
    /\ active' = [ws \in Refs |-> None]
    /\ error' = [ws \in Refs |-> NoError]
    /\ late' = [ws \in Refs |-> {}]
    /\ begun' = FALSE
    /\ inventory' = [ws \in Refs |-> None]
    /\ deferred' = {}
    /\ tasks' = [ws \in Refs |-> <<>>]
    /\ op' = [ws \in Refs |-> Idle]
    /\ closing' = [ws \in Refs |-> None]
    /\ losing' = [ws \in Refs |-> None]
    /\ caller' = [ws \in Refs |-> "idle"]
    /\ tick' = [ws \in Refs |-> None]
    /\ stale' = TRUE
    /\ wire' = {}
    /\ UNCHANGED <<used, backend, host, listing, todo>>

-----------------------------------------------------------------------------
(* The manager's calls to the unit, with the answer this unit gives. *)

UnitCalls(ws) ==
    \/ Answers(ws) /\ ProbeAnswers(ws, proc[ws])
    \/ Healthy(ws, op[ws].inst) /\ PrepareSucceeds(ws)
    \/ Answers(ws) /\ CommitEnds(ws)
    \/ Answers(ws) /\ \E i \in {active[ws], tick[ws]} \ {proc[ws]} : MismatchSeen(ws, i)

Unanswered(ws) ==
    \/ StartFails(ws)
          /\ IF Answers(ws) /\ (Holds(ws, "prepare") => Healthy(ws, op[ws].inst))
             THEN Fault ELSE UNCHANGED faults
    \/ CommitTransient(ws) /\ (IF Answers(ws) THEN Fault ELSE UNCHANGED faults)

TickSteps(ws) ==
    \/ TickBegins(ws)
    \/ (Healthy(ws, tick[ws]) \/ ~gateway) /\ TickEnds(ws)
    \/ TickRecovers(ws) /\ (IF Healthy(ws, tick[ws]) THEN Fault ELSE UNCHANGED faults)

ManagerSteps(ws) ==
    \/ Activates(ws) \/ PlaceBegins(ws) \/ PlaceReturns(ws)
    \/ RetireAsks(ws) \/ RetireConfirmed(ws) \/ RetiredLate(ws) \/ Retires(ws)
    \/ Closes(ws) \/ Recovers(ws) \/ Adopts(ws) \/ GatewayReturned(ws)

ManagerEvents(ws) ==
    \/ EnsureCalled(ws) \/ EnsureLoops(ws) \/ EnsureFails(ws) \/ PlaceTimesOut(ws) \/ RetireTimesOut(ws)
    \/ TickCloses(ws) \/ CommitFails(ws)

HostSteps(ws) ==
    \/ HostCreates(ws) \/ HostRegisters(ws) \/ HostReportsLost(ws) \/ HostRetires(ws)
    \/ HostRemovesUnlisted(ws) \/ HostPasses(ws)

Next ==
    \/ \E ws \in Refs :
          \/ (UnitCalls(ws) \/ Unanswered(ws) \/ TickSteps(ws)
                \/ ManagerSteps(ws) \/ ManagerEvents(ws))
                /\ UNCHANGED <<backend, hostVars>>
          \/ HostSteps(ws) \/ HostCallFails(ws)
          \/ UnitStarts(ws) \/ UnitRestarts(ws) \/ UnitDies(ws) \/ UnitGone(ws)
    \/ (SourceLost \/ AdoptionBegins) /\ UNCHANGED <<backend, hostVars>>
    \/ HostLists \/ HostInventory \/ DeleteArrives \/ GatewayChanges \/ ControlRestarts

Spec == Init /\ [][Next]_vars

-----------------------------------------------------------------------------
(* Properties. *)

(* A Workspace the runtime publishes to the host, running or being retired,
   holds a slot: none is given away while its unit may still exist. *)
HostedHoldsSlot ==
    begun => \A ws \in Refs : entries[ws] # NoHosted => ws \in occupied

(* Contract v3: termination is confirmed before a new writer is used.  Once a
   slot is free, no process that was given the Workspace's files still runs. *)
FreeSlotHasNoWriter ==
    begun => \A ws \in Refs \ occupied : unit[ws] = "started" => proc[ws] \notin used[ws]

(* A slot stands for a Workspace's unit from before it may exist until it is
   confirmed gone. *)
SlotIsHeld == HostedHoldsSlot /\ FreeSlotHasNoWriter

(* A published endpoint holds its slot, has no retained error, and nothing is
   placing, closing or retiring the Workspace. *)
PublishedIsSettled ==
    \A ws \in Refs : active[ws] # None =>
        /\ ws \in occupied
        /\ error[ws] = NoError
        /\ op[ws] = Idle

(* A delivery that waits for a slot is woken by whatever frees one. *)
SlotWaitersAreWoken == \A ws \in Refs : caller[ws] = "slot" => ~HasSlot(ws)

(* An instance is restored at most once by activations: the files of a failed
   activation are never built upon. *)
RestoredOnce ==
    [][\A ws \in Refs :
          (Holds(ws, "probe") /\ op'[ws].phase = "prepare" /\ ~Adopting(ws))
              => op'[ws].inst \notin used[ws]]_vars

-----------------------------------------------------------------------------
(* Every task of the event loop runs when it can, the lifecycle ticks, the host
   loops, a unit that was created starts and one that was removed ends, an
   unanswered call times out, and the gateway comes back.  Deliveries, closes
   and faults are not fair. *)
Serve(ws) == ManagerSteps(ws) /\ UNCHANGED <<backend, hostVars>>
Call(ws) ==
    /\ \/ Answers(ws) /\ ProbeAnswers(ws, proc[ws])
       \/ Healthy(ws, op[ws].inst) /\ PrepareSucceeds(ws)
       \/ Answers(ws) /\ CommitEnds(ws)
       \/ Unanswered(ws) /\ UNCHANGED faults
    /\ UNCHANGED <<backend, hostVars>>
LifecycleTick(ws) == TickSteps(ws) /\ UNCHANGED <<faults, backend, hostVars>>
Callbacks == (SourceLost \/ AdoptionBegins) /\ UNCHANGED <<backend, hostVars>>
HostLoop == HostLists \/ HostInventory \/ \E ws \in Refs : HostSteps(ws)

Fairness ==
    /\ \A ws \in Refs :
          /\ WF_vars(Serve(ws))
          /\ WF_vars(Call(ws))
          /\ WF_vars(LifecycleTick(ws))
          /\ WF_vars(UnitStarts(ws))
          /\ WF_vars(UnitGone(ws))
    /\ WF_vars(Callbacks)
    /\ WF_vars(HostLoop)
    /\ WF_vars(~gateway /\ GatewayChanges)

FairSpec == Spec /\ Fairness

(* A retire that timed out is settled by the host's late confirmation: the slot
   is not held for ever. *)
TimeoutIsSettled ==
    \A ws \in Refs : (error[ws].kind = "timeout") ~> (error[ws].kind # "timeout")

(* A published endpoint whose process is gone or replaced is noticed, also when
   nobody reports it. *)
LossIsNoticed ==
    \A ws \in Refs :
        (active[ws] # None /\ ~Healthy(ws, active[ws]))
            ~> (active[ws] = None \/ Healthy(ws, active[ws]))

(* Adoption ends, whatever the units and the gateway do, and deliveries go on. *)
AdoptionEnds == ~AdoptionDone ~> AdoptionDone

(* No unit is leaked: one whose Workspace holds no slot is removed. *)
OrphanIsRemoved ==
    \A ws \in Refs :
        (AdoptionDone /\ ws \notin occupied /\ unit[ws] = "started")
            ~> (ws \in occupied \/ unit[ws] # "started")

(* What the runtime knows of the units and what runs come together again. *)
UnitsAreSettled == LossIsNoticed /\ OrphanIsRemoved

(* Nothing waits for ever for the host or the gateway. *)
WaitsEnd == TimeoutIsSettled /\ AdoptionEnds
=============================================================================
