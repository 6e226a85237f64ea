----------------------------- MODULE Workspaces -----------------------------
(***************************************************************************)
(* harness/workspaces.py: the manager of the agent's Workspaces.  It holds *)
(* one slot per Workspace that has, or may have, an execution unit, runs   *)
(* one operation per Workspace at a time (the per-ref lock, FIFO; an       *)
(* operation of a kind that already waits is joined, not repeated), and    *)
(* publishes the endpoint that deliveries use.                             *)
(*                                                                         *)
(* An action is what runs between two awaits.  The answers of the unit and *)
(* of the host are parameters or nondeterministic; Hosting supplies them.  *)
(* Ids that nothing refers to any more are used again (Fresh), so the      *)
(* number of activations needs no bound.                                   *)
(***************************************************************************)
EXTENDS HostedSource

CONSTANTS
    Capacity,      \* limits.maxActiveWorkspaces
    MaxFaults      \* bound: failed calls, timeouts, losses, restarts

ASSUME CapacityAssumption == Capacity \in Nat \ {0}
ASSUME MaxFaultsAssumption == MaxFaults \in Nat

VARIABLES
    occupied,    \* _occupied
    active,      \* _active: Workspace |-> instance of its endpoint, or None
    error,       \* _errors: Workspace |-> the retained error
    late,        \* Workspace |-> entries whose retire timed out and still runs
    begun,       \* _run_adoption has the inventory
    inventory,   \* Workspace |-> entry of its inventory placement
    deferred,    \* Workspaces whose adoption waits for the gateway
    tasks,       \* Workspace |-> kinds of its operations, lock holder first
    op,          \* Workspace |-> the operation that holds the lock
    closing,     \* Workspace |-> `unpublished' of the close that waits
    losing,      \* Workspace |-> lost_instance_id of the recover that waits
    caller,      \* Workspace |-> a delivery in ensure()
    tick,        \* Workspace |-> instance the lifecycle tick looks at
    used,        \* history: instances a control has restored or reconnected
    faults       \* faults so far

manager == <<occupied, active, error, late, begun, inventory, deferred, tasks, op,
             closing, losing, caller, tick, used>>

Kinds == {"activate", "close", "recover", "retire", "adopt"}
Phases == {"idle", "place", "placing", "probe", "prepare", "commit", "gateway",
           "retireOld", "retiringOld", "retire", "retiring"}
Idle == [phase |-> "idle", entry |-> None, inst |-> None]
NoError == [kind |-> "none", entry |-> None]

ManagerTypeOK ==
    /\ occupied \in SUBSET Refs
    /\ active \in [Refs -> Nat]
    /\ error \in [Refs -> [kind : {"none", "commit", "timeout"}, entry : Nat]]
    /\ late \in [Refs -> SUBSET Nat]
    /\ begun \in BOOLEAN
    /\ inventory \in [Refs -> Nat]
    /\ deferred \in SUBSET Refs
    /\ tasks \in [Refs -> Seq(Kinds)]
    /\ op \in [Refs -> [phase : Phases, entry : Nat, inst : Nat]]
    /\ closing \in [Refs -> Nat]
    /\ losing \in [Refs -> Nat]
    /\ caller \in [Refs -> {"idle", "loop", "slot"}]
    /\ tick \in [Refs -> Nat]
    /\ used \in [Refs -> SUBSET Nat]

ManagerInit ==
    /\ occupied = {}
    /\ active = [ws \in Refs |-> None]
    /\ error = [ws \in Refs |-> NoError]
    /\ late = [ws \in Refs |-> {}]
    /\ begun = FALSE
    /\ inventory = [ws \in Refs |-> None]
    /\ deferred = {}
    /\ tasks = [ws \in Refs |-> <<>>]
    /\ op = [ws \in Refs |-> Idle]
    /\ closing = [ws \in Refs |-> None]
    /\ losing = [ws \in Refs |-> None]
    /\ caller = [ws \in Refs |-> "idle"]
    /\ tick = [ws \in Refs |-> None]

Fault == faults < MaxFaults /\ faults' = faults + 1

(* A number that is not in use: the next uuid, or the next entry object. *)
Fresh(inUse) == Min((1 .. Cardinality(inUse) + 1) \ inUse)
EntriesInUse(ws) ==
    {entries[ws].id, op[ws].entry, inventory[ws], error[ws].entry} \cup late[ws]

-----------------------------------------------------------------------------
(* Slots, and the per-ref task queue. *)

HasSlot(ws) == ws \in occupied \/ Cardinality(occupied) < Capacity

(* Mutant: the waiters of a slot are not woken. *)
ReleaseSilently(ws, again) ==
    /\ occupied' = (occupied \ {ws}) \cup again
    /\ error' = [error EXCEPT ![ws] = NoError]
    /\ UNCHANGED caller

(* _release: free the slot, drop the error and wake every slot waiter.  A
   recovery reserves the slot again before any of them runs. *)
ReleaseAnd(ws, again) ==
    /\ occupied' = (occupied \ {ws}) \cup again
    /\ error' = [error EXCEPT ![ws] = NoError]
    /\ caller' = [r \in Refs |-> IF caller[r] = "slot" THEN "loop" ELSE caller[r]]
Release(ws) == ReleaseAnd(ws, {})
KeepSlot == UNCHANGED <<occupied, error, caller>>

(* _run: join the task of this kind that waits or runs, or queue a new one. *)
Pending(ws, kind) == kind \in ToSet(tasks[ws])
Enqueue(ws, kind) ==
    tasks' = [tasks EXCEPT ![ws] = IF Pending(ws, kind) THEN @ ELSE Append(@, kind)]

Goto(ws, phase) == op' = [op EXCEPT ![ws].phase = phase]
EndTask(ws) ==
    /\ tasks' = [tasks EXCEPT ![ws] = Tail(@)]
    /\ op' = [op EXCEPT ![ws] = Idle]

(* The lock is free and the first of the waiting tasks takes it. *)
Takes(ws, kind) == tasks[ws] # <<>> /\ op[ws] = Idle /\ Head(tasks[ws]) = kind
Holds(ws, phase) == op[ws].phase = phase

-----------------------------------------------------------------------------
(* ensure *)

LifecyclePending(ws) ==
    \E kind \in {"close", "recover", "retire", "adopt"} : Pending(ws, kind)
AdoptionDone ==
    begun /\ \A ws \in Refs : Pending(ws, "adopt") => ws \in deferred

EnsureCalled(ws) ==
    /\ caller[ws] = "idle"
    /\ caller' = [caller EXCEPT ![ws] = "loop"]
    /\ UNCHANGED <<source, occupied, active, error, late, begun, inventory, deferred, tasks,
                   op, closing, losing, tick, used, faults>>

(* The loop of ensure after the lifecycle tasks: raise, return, wait or reserve. *)
EnsureLoops(ws) ==
    /\ caller[ws] = "loop"
    /\ ~LifecyclePending(ws)
    /\ error[ws] = NoError => AdoptionDone
    /\ \/ /\ error[ws] # NoError \/ active[ws] # None
          /\ caller' = [caller EXCEPT ![ws] = "idle"]
          /\ UNCHANGED <<occupied, tasks>>
       \/ /\ error[ws] = NoError /\ active[ws] = None
          /\ ~HasSlot(ws)
          /\ caller' = [caller EXCEPT ![ws] = "slot"]
          /\ UNCHANGED <<occupied, tasks>>
       \/ /\ error[ws] = NoError /\ active[ws] = None
          /\ HasSlot(ws)
          /\ ~Pending(ws, "activate")
          /\ occupied' = occupied \cup {ws}
          /\ Enqueue(ws, "activate")
          /\ UNCHANGED caller
    /\ UNCHANGED <<source, active, error, late, begun, inventory, deferred, op, closing,
                   losing, tick, used, faults>>

(* The deadline of the delivery passes, or a task it waits for raises. *)
EnsureFails(ws) ==
    /\ caller[ws] # "idle"
    /\ caller' = [caller EXCEPT ![ws] = "idle"]
    /\ UNCHANGED <<source, occupied, active, error, late, begun, inventory, deferred, tasks,
                   op, closing, losing, tick, used, faults>>

-----------------------------------------------------------------------------
(* _activate and _start: place, probe, observed, restore and reconnect, serving,
   publish. *)

Activates(ws) ==
    /\ Takes(ws, "activate")
    /\ IF error[ws] # NoError \/ active[ws] # None
       THEN EndTask(ws) /\ UNCHANGED occupied
       ELSE /\ occupied' = occupied \cup {ws}
            /\ Goto(ws, "place")
            /\ UNCHANGED tasks
    /\ UNCHANGED <<source, active, error, late, begun, inventory, deferred, closing, losing,
                   caller, tick, used, faults>>

PlaceBegins(ws) ==
    LET id == Fresh(EntriesInUse(ws) \cup {None})
    IN  /\ Holds(ws, "place")
        /\ place(ws, id)
        /\ op' = [op EXCEPT ![ws].phase = "placing", ![ws].entry = id]
        /\ UNCHANGED <<adopting, gateway, losses, occupied, active, error, late, begun,
                       inventory, deferred, tasks, closing, losing, caller, tick, used,
                       faults>>

PlaceReturns(ws) ==
    /\ Holds(ws, "placing")
    /\ Placed(ws, op[ws].entry)
    /\ Goto(ws, "probe")
    /\ UNCHANGED <<source, occupied, active, error, late, begun, inventory, deferred, tasks,
                   closing, losing, caller, tick, used, faults>>

(* WorkspaceUnhosted: the source holds nothing, so the slot is free. *)
PlaceTimesOut(ws) ==
    /\ Holds(ws, "placing")
    /\ ~Placed(ws, op[ws].entry)
    /\ Fault
    /\ Withdraw(ws)
    /\ Release(ws)
    /\ EndTask(ws)
    /\ UNCHANGED <<adopting, gateway, losses, active, late, begun, inventory, deferred,
                   closing, losing, tick, used>>

(* Mutant: a failed adoption is tried again for ever. *)
FailsAdoptsAgain(ws) ==
    IF Head(tasks[ws]) # "adopt"
    THEN Goto(ws, "retire") /\ UNCHANGED <<tasks, deferred, inventory>>
    ELSE /\ op' = [op EXCEPT ![ws] = Idle]
         /\ tasks' = [tasks EXCEPT ![ws] = Append(Tail(@), "adopt")]
         /\ UNCHANGED <<deferred, inventory>>

(* What a failure does: _start retires the unit; _adopt_one retires it as a task
   of its own, or tries again when the gateway is back. *)
Adopting(ws) == Head(tasks[ws]) = "adopt"
Fails(ws) ==
    IF ~Adopting(ws)
    THEN Goto(ws, "retire") /\ UNCHANGED <<tasks, deferred, inventory>>
    ELSE /\ op' = [op EXCEPT ![ws] = Idle]
         /\ tasks' = [tasks EXCEPT ![ws] =
               Append(Tail(@), IF gateway THEN "retire" ELSE "adopt")]
         /\ deferred' = IF gateway THEN deferred \ {ws} ELSE deferred \cup {ws}
         /\ inventory' = [inventory EXCEPT ![ws] = IF gateway THEN None ELSE @]

(* The unit answers the probe as instance i; observed() may refuse it. *)
ProbeAnswers(ws, i) ==
    /\ Holds(ws, "probe")
    /\ \/ /\ Current(ws, op[ws].entry)
          /\ observed(ws, i)
          /\ op' = [op EXCEPT ![ws].phase = "prepare", ![ws].inst = i]
          /\ used' = [used EXCEPT ![ws] = @ \cup {i}]
          /\ UNCHANGED <<tasks, deferred, inventory>>
       \/ /\ ~Current(ws, op[ws].entry)
          /\ Fails(ws)
          /\ UNCHANGED <<entries, used>>
    /\ UNCHANGED <<adopting, gateway, losses, occupied, active, error, late, begun, closing,
                   losing, caller, tick, faults>>

(* Restore and reconnect succeeded; serving() may refuse; then publish. *)
PrepareSucceeds(ws) ==
    /\ Holds(ws, "prepare")
    /\ \/ /\ Current(ws, op[ws].entry)
          /\ active' = [active EXCEPT ![ws] = op[ws].inst]
          /\ EndTask(ws)
          /\ deferred' = deferred \ {ws}
          /\ inventory' = [inventory EXCEPT ![ws] = None]
       \/ /\ ~Current(ws, op[ws].entry)
          /\ Fails(ws)
          /\ UNCHANGED active
    /\ UNCHANGED <<source, occupied, error, late, begun, closing, losing, caller, tick, used,
                   faults>>

(* The unit does not answer until the deadline, or restore or reconnect fails. *)
StartFails(ws) ==
    /\ Holds(ws, "probe") \/ Holds(ws, "prepare")
    /\ Fails(ws)
    /\ UNCHANGED <<source, occupied, active, error, late, begun, closing, losing, caller,
                   tick, used>>

-----------------------------------------------------------------------------
(* _retire *)

RetireAsks(ws) ==
    /\ Holds(ws, "retire") \/ Holds(ws, "retireOld")
    /\ retire(ws)
    /\ op' = [op EXCEPT ![ws].entry = entries[ws].id,
                        ![ws].phase = IF @ = "retire" THEN "retiring" ELSE "retiringOld"]
    /\ UNCHANGED <<adopting, gateway, losses, occupied, active, error, late, begun,
                   inventory, deferred, tasks, closing, losing, caller, tick, used, faults>>

(* The host confirmed: the slot is free.  A recovery takes one again at once, if
   adopted units have not filled it, and starts the next instance. *)
RetireConfirmed(ws) ==
    /\ Confirmed(ws, op[ws].entry)
    /\ \/ /\ Holds(ws, "retiring")
          /\ Release(ws)
          /\ EndTask(ws)
       \/ /\ Holds(ws, "retiringOld")
          /\ Cardinality(occupied \ {ws}) < Capacity
          /\ ReleaseAnd(ws, {ws})
          /\ op' = [op EXCEPT ![ws] = [Idle EXCEPT !.phase = "place"]]
          /\ UNCHANGED tasks
       \/ /\ Holds(ws, "retiringOld")
          /\ Cardinality(occupied \ {ws}) >= Capacity
          /\ Release(ws)
          /\ EndTask(ws)
    /\ UNCHANGED <<source, active, late, begun, inventory, deferred, closing, losing, tick,
                   used, faults>>

(* Mutant: the timeout gives the slot away. *)
RetireTimeoutReleases(ws) ==
    /\ Holds(ws, "retiring") \/ Holds(ws, "retiringOld")
    /\ ~Confirmed(ws, op[ws].entry)
    /\ Fault
    /\ Release(ws)
    /\ EndTask(ws)
    /\ UNCHANGED <<source, active, late, begun, inventory, deferred, closing, losing, tick,
                   used>>

(* shutdownTimeoutSeconds: the slot stays held, the retire keeps running. *)
RetireTimesOut(ws) ==
    /\ Holds(ws, "retiring") \/ Holds(ws, "retiringOld")
    /\ ~Confirmed(ws, op[ws].entry)
    /\ Fault
    /\ error' = [error EXCEPT ![ws] = [kind |-> "timeout", entry |-> op[ws].entry]]
    /\ late' = [late EXCEPT ![ws] = @ \cup {op[ws].entry}]
    /\ EndTask(ws)
    /\ UNCHANGED <<source, occupied, active, begun, inventory, deferred, closing, losing,
                   caller, tick, used>>

(* _retired_late: only if its own error is still the retained one. *)
RetiredLate(ws) ==
    \E id \in late[ws] :
        /\ Confirmed(ws, id)
        /\ late' = [late EXCEPT ![ws] = @ \ {id}]
        /\ IF error[ws] = [kind |-> "timeout", entry |-> id] THEN Release(ws) ELSE KeepSlot
        /\ UNCHANGED <<source, active, begun, inventory, deferred, tasks, op, closing,
                       losing, tick, used, faults>>

(* The task the failed adoption left: retire the unit. *)
Retires(ws) ==
    /\ Takes(ws, "retire")
    /\ Goto(ws, "retire")
    /\ UNCHANGED <<source, occupied, active, error, late, begun, inventory, deferred, tasks,
                   closing, losing, caller, tick, used, faults>>

-----------------------------------------------------------------------------
(* close, called by the lifecycle tick of an idle Workspace. *)

TickBegins(ws) ==
    /\ tick[ws] = None
    /\ active[ws] # None
    /\ ~Pending(ws, "close")
    /\ tick' = [tick EXCEPT ![ws] = active[ws]]
    /\ UNCHANGED <<source, occupied, active, error, late, begun, inventory, deferred, tasks,
                   op, closing, losing, caller, used, faults>>

TickEnds(ws) ==
    /\ tick[ws] # None
    /\ tick' = [tick EXCEPT ![ws] = None]
    /\ UNCHANGED <<source, occupied, active, error, late, begun, inventory, deferred, tasks,
                   op, closing, losing, caller, used, faults>>

TickCloses(ws) ==
    /\ tick[ws] # None
    /\ ws \in occupied
    /\ tick' = [tick EXCEPT ![ws] = None]
    /\ closing' = [closing EXCEPT ![ws] = active[ws]]
    /\ active' = [active EXCEPT ![ws] = None]
    /\ Enqueue(ws, "close")
    /\ UNCHANGED <<source, occupied, error, late, begun, inventory, deferred, op, losing,
                   caller, used, faults>>

(* _do_close takes what was published since, or what close() unpublished. *)
Closes(ws) ==
    LET endpoint == IF active[ws] # None THEN active[ws] ELSE closing[ws]
    IN  /\ Takes(ws, "close")
        /\ active' = [active EXCEPT ![ws] = None]
        /\ closing' = [closing EXCEPT ![ws] = None]
        /\ IF endpoint = None \/ ws \notin occupied
           THEN EndTask(ws)
           ELSE /\ op' = [op EXCEPT ![ws].phase = "commit", ![ws].inst = endpoint]
                /\ UNCHANGED tasks
        /\ UNCHANGED <<source, occupied, error, late, begun, inventory, deferred, losing,
                       caller, tick, used, faults>>

(* Committed, or the unit turned out to be another instance: retire it. *)
CommitEnds(ws) ==
    /\ Holds(ws, "commit")
    /\ Goto(ws, "retire")
    /\ UNCHANGED <<source, occupied, active, error, late, begun, inventory, deferred, tasks,
                   closing, losing, caller, tick, used, faults>>

(* SnapshotTransientFailure: it still serves. *)
CommitTransient(ws) ==
    /\ Holds(ws, "commit")
    /\ active' = [active EXCEPT ![ws] = op[ws].inst]
    /\ EndTask(ws)
    /\ UNCHANGED <<source, occupied, error, late, begun, inventory, deferred, closing,
                   losing, caller, tick, used>>

(* Mutant: after such a failure the endpoint is published again as well. *)
CommitFailsServing(ws) ==
    /\ Holds(ws, "commit")
    /\ Fault
    /\ error' = [error EXCEPT ![ws] = [kind |-> "commit", entry |-> None]]
    /\ active' = [active EXCEPT ![ws] = op[ws].inst]
    /\ EndTask(ws)
    /\ UNCHANGED <<source, occupied, late, begun, inventory, deferred, closing, losing,
                   caller, tick, used>>

(* Any other failure is retained: the unit and its slot stay. *)
CommitFails(ws) ==
    /\ Holds(ws, "commit")
    /\ Fault
    /\ error' = [error EXCEPT ![ws] = [kind |-> "commit", entry |-> None]]
    /\ EndTask(ws)
    /\ UNCHANGED <<source, occupied, active, late, begun, inventory, deferred, closing,
                   losing, caller, tick, used>>

-----------------------------------------------------------------------------
(* Loss and recovery. *)

(* report_lost: recover, unless a recovery of this Workspace waits already. *)
Recover(ws, i) ==
    /\ Enqueue(ws, "recover")
    /\ losing' = [losing EXCEPT ![ws] = IF Pending(ws, "recover") THEN @ ELSE i]

(* _source_lost *)
SourceLost ==
    \E loss \in losses :
        /\ losses' = losses \ {loss}
        /\ IF active[loss[1]] # None /\ active[loss[1]] = loss[2]
           THEN Recover(loss[1], loss[2]) ELSE UNCHANGED <<tasks, losing>>
        /\ UNCHANGED <<adopting, entries, gateway, occupied, active, error, late, begun,
                       inventory, deferred, op, closing, caller, tick, used, faults>>

(* A response to a holder of the endpoint names another instance. *)
MismatchSeen(ws, i) ==
    /\ i # None
    /\ ~Pending(ws, "recover")
    /\ Recover(ws, i)
    /\ UNCHANGED <<source, occupied, active, error, late, begun, inventory, deferred, op,
                   closing, caller, tick, used, faults>>

(* The tick's health check fails while the gateway is up. *)
TickRecovers(ws) ==
    /\ tick[ws] # None
    /\ gateway
    /\ tick' = [tick EXCEPT ![ws] = None]
    /\ Recover(ws, tick[ws])
    /\ UNCHANGED <<source, occupied, active, error, late, begun, inventory, deferred, op,
                   closing, caller, used>>

(* _do_recover: nothing, unless that instance is still the published one. *)
Recovers(ws) ==
    /\ Takes(ws, "recover")
    /\ losing' = [losing EXCEPT ![ws] = None]
    /\ IF active[ws] = None \/ active[ws] # losing[ws]
       THEN EndTask(ws) /\ UNCHANGED active
       ELSE /\ active' = [active EXCEPT ![ws] = None]
            /\ Goto(ws, "retireOld")
            /\ UNCHANGED tasks
    /\ UNCHANGED <<source, occupied, error, late, begun, inventory, deferred, closing,
                   caller, tick, used, faults>>

-----------------------------------------------------------------------------
(* Adoption of the units the host already runs. *)

(* _run_adoption: their slots are taken whatever the capacity. *)
AdoptionBegins ==
    LET units == {ws \in Refs : inventory[ws] # None}
    IN  /\ ~begun
        /\ ~adopting
        /\ begun' = TRUE
        /\ occupied' = occupied \cup units
        /\ tasks' = [ws \in Refs |->
              IF ws \in units THEN Append(tasks[ws], "adopt") ELSE tasks[ws]]
        /\ UNCHANGED <<source, active, error, late, inventory, deferred, op, closing, losing,
                       caller, tick, used, faults>>

Adopts(ws) ==
    /\ Takes(ws, "adopt")
    /\ op' = [op EXCEPT ![ws].phase = IF ws \in deferred THEN "gateway" ELSE "probe",
                        ![ws].entry = inventory[ws]]
    /\ UNCHANGED <<source, occupied, active, error, late, begun, inventory, deferred, tasks,
                   closing, losing, caller, tick, used, faults>>

(* A deferred adoption waits, with the lock, for the gateway. *)
GatewayReturned(ws) ==
    /\ Holds(ws, "gateway")
    /\ gateway
    /\ Goto(ws, "probe")
    /\ UNCHANGED <<source, occupied, active, error, late, begun, inventory, deferred, tasks,
                   closing, losing, caller, tick, used, faults>>
=============================================================================
