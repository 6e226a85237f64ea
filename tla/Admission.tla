------------------------------ MODULE Admission ------------------------------
(***************************************************************************)
(* harness/admission.py: deduplication, the bounded queue, one FIFO lane   *)
(* per session, the deadline monitors, the concurrency permits, the runs   *)
(* recovered after a restart, and close().                                 *)
(*                                                                         *)
(* A ticket is <<key, generation>>: the digest of a delivery and how often *)
(* it has been admitted afresh.  All code here runs on one event loop, so  *)
(* an action is what runs between two awaits.  Time is abstract: a ticket's *)
(* deadline, and the idempotency window of a released key, may pass at any *)
(* moment (overdue, windowOver).                                           *)
(***************************************************************************)
EXTENDS Naturals, Sequences, FiniteSets, SequencesExt

CONSTANTS
    Keys,            \* delivery digests (_dedup_key)
    Lanes,           \* session refs, and the serialization keys of scripts
    WorkspaceOf,     \* the workspace of a lane
    ChannelOf,       \* the channel of a key
    MaxConcurrent,   \* limits.maxConcurrentInvocations
    MaxScripts,      \* limits.maxConcurrentScripts, 0 for None (shared pool)
    ChannelCap,      \* channels[].maxConcurrent, one value for every channel
    WorkspaceCap,    \* workspace.maxConcurrentSessions
    MaxQueued,       \* limits.maxQueuedTotal
    MaxGen,          \* bound: generations of one key
    Plans            \* the deliveries there may be: the lane of each key, the keys
                     \* admitted by admit_script, and (a bound) the generations

ASSUME PlansAssumption ==
    Plans \subseteq [lane : [Keys -> Lanes], scripts : SUBSET Keys, gens : [Keys -> 1 .. MaxGen]]
ASSUME LimitsAssumption ==
    /\ {MaxScripts} \subseteq Nat
    /\ {MaxConcurrent, ChannelCap, WorkspaceCap, MaxQueued, MaxGen} \subseteq Nat \ {0}
ASSUME KeysAssumption == IsFiniteSet(Keys)      \* digests of one fixed length

VARIABLES
    plan,         \* the deliveries of this behaviour
    tickets,      \* _tickets: key |-> generation it holds, 0 for none
    lastGen,      \* generations of the key created so far
    recovered,    \* _recovered: keys of runs found after a restart
    observer,     \* key |-> task of _observe_recovered: "none", "live" or "done"
    recCompleted, \* key |-> completed future of the RecoveredRun
    queuedTotal,  \* _queued_total
    released,     \* _released
    expired,      \* _monitor_expired
    monitors,     \* _monitors: key |-> generation whose task is registered
    monitorTask,  \* ticket |-> "none", "live", "cancelling", "fired", "done"
    started,      \* ticket |-> started future: "none", "pending" or "done"
    completed,    \* ticket |-> completed future
    queue,        \* lane |-> its queue of tickets
    stage,        \* lane |-> where its consumer is
    current,      \* lane |-> the ticket its consumer is handling
    closing,      \* how far close() is: "open", "recoveries", "lanes", "closed"
    overdue,      \* tickets whose deadline_at has passed
    windowOver    \* released keys whose idempotency window is over

futures == <<started, completed>>
watch == <<expired, monitors, monitorTask>>
lanes == <<queue, stage, current>>
recoveries == <<recovered, observer, recCompleted>>
vars == <<plan, tickets, lastGen, recoveries, queuedTotal, released, watch, futures,
          lanes, closing, overdue, windowOver>>

Tickets == Keys \X (1 .. MaxGen)
NoTicket == <<>>
FutureStates == {"none", "pending", "done"}
Stages == {"none", "new", "next", "permits", "running"}

TypeOK ==
    /\ plan \in Plans
    /\ tickets \in [Keys -> 0 .. MaxGen]
    /\ lastGen \in [Keys -> 0 .. MaxGen]
    /\ recovered \in SUBSET Keys
    /\ observer \in [Keys -> {"none", "live", "done"}]
    /\ recCompleted \in [Keys -> FutureStates]
    /\ queuedTotal \in Nat
    /\ released \in SUBSET Keys
    /\ expired \in SUBSET Keys
    /\ monitors \in [Keys -> 0 .. MaxGen]
    /\ monitorTask \in [Tickets -> {"none", "live", "cancelling", "fired", "done"}]
    /\ started \in [Tickets -> FutureStates]
    /\ completed \in [Tickets -> FutureStates]
    /\ queue \in [Lanes -> Seq(Tickets)]
    /\ stage \in [Lanes -> Stages]
    /\ current \in [Lanes -> Tickets \cup {NoTicket}]
    /\ closing \in {"open", "recoveries", "lanes", "closed"}
    /\ overdue \in SUBSET Tickets
    /\ windowOver \in SUBSET Keys

Init ==
    /\ plan \in Plans
    /\ tickets = [k \in Keys |-> 0]
    /\ lastGen = [k \in Keys |-> 0]
    /\ recovered = {}
    /\ observer = [k \in Keys |-> "none"]
    /\ recCompleted = [k \in Keys |-> "none"]
    /\ queuedTotal = 0
    /\ released = {}
    /\ expired = {}
    /\ monitors = [k \in Keys |-> 0]
    /\ monitorTask = [t \in Tickets |-> "none"]
    /\ started = [t \in Tickets |-> "none"]
    /\ completed = [t \in Tickets |-> "none"]
    /\ queue = [l \in Lanes |-> <<>>]
    /\ stage = [l \in Lanes |-> "none"]
    /\ current = [l \in Lanes |-> NoTicket]
    /\ closing = "open"
    /\ overdue = {}
    /\ windowOver = {}

-----------------------------------------------------------------------------
(* Helpers of the handlers. *)

Key(t) == t[1]
Gen(t) == t[2]

(* A ticket waits in a lane's queue, or the lane's consumer handles it. *)
Queued(t) == \E l \in Lanes : t \in ToSet(queue[l])
Held(t) == Queued(t) \/ \E l \in Lanes : current[l] = t

(* _fail, or set_result: resolve whichever futures are still pending. *)
Resolve(ts) ==
    /\ started' = [t \in Tickets |->
          IF t \in ts /\ started[t] = "pending" THEN "done" ELSE started[t]]
    /\ completed' = [t \in Tickets |->
          IF t \in ts /\ completed[t] = "pending" THEN "done" ELSE completed[t]]

(* _cancel_monitor: only while the ticket still occupies its key. *)
Owned(ts) == {t \in ts : tickets[Key(t)] = Gen(t)}
CancelMonitors(ts) ==
    LET keys == {Key(t) : t \in Owned(ts)}
    IN  /\ expired' = expired \ keys
        /\ monitors' = [k \in Keys |-> IF k \in keys THEN 0 ELSE monitors[k]]
        /\ monitorTask' = [t \in Tickets |->
              IF Key(t) \in keys /\ monitors[Key(t)] = Gen(t) /\ monitorTask[t] = "live"
              THEN "cancelling" ELSE monitorTask[t]]

(* Mutant: the release is not once per key. *)
ReleaseAgain(keys) ==
    /\ released' = released \cup keys
    /\ queuedTotal' = queuedTotal - Cardinality(keys)

(* _release_capacity_once *)
Release(keys) ==
    /\ released' = released \cup keys
    /\ queuedTotal' = queuedTotal - Cardinality(keys \ released)

(* _retire: the one way a FIFO entry leaves Admission. *)
Retire(ts) ==
    /\ CancelMonitors(ts)
    /\ Release({Key(t) : t \in ts})

(* The permits: what the running tickets hold, and what recovered runs block. *)
RunningLanes == {l \in Lanes : stage[l] = "running"}
UnreleasedRecovered == recovered \ released
IsScript(t) == Key(t) \in plan.scripts
SharesPool(t) == ~IsScript(t) \/ MaxScripts = 0

GlobalFree ==
    Cardinality({l \in RunningLanes : SharesPool(current[l])})
        + Cardinality(UnreleasedRecovered) < MaxConcurrent
ScriptFree ==
    Cardinality({l \in RunningLanes : IsScript(current[l])}) < MaxScripts
ChannelFree(c) ==
    Cardinality({l \in RunningLanes : ChannelOf[Key(current[l])] = c})
        + Cardinality({k \in UnreleasedRecovered : ChannelOf[k] = c}) < ChannelCap
WorkspaceFree(ws) ==
    Cardinality({l \in RunningLanes :
                    ~IsScript(current[l]) /\ WorkspaceOf[l] = ws})
        + Cardinality({k \in UnreleasedRecovered : WorkspaceOf[plan.lane[k]] = ws})
      < WorkspaceCap
RecoveredOwnsSession(l) == \E k \in UnreleasedRecovered : plan.lane[k] = l

(* _acquire_all and _acquire_script: all permits or none. *)
CanAcquire(l) ==
    LET t == current[l]
    IN  /\ IF SharesPool(t) THEN GlobalFree ELSE ScriptFree
        /\ ChannelFree(ChannelOf[Key(t)])
        /\ ~IsScript(t) => WorkspaceFree(WorkspaceOf[l]) /\ ~RecoveredOwnsSession(l)

-----------------------------------------------------------------------------
(* admit, admit_script and recover: sweep first, then deduplicate. *)

(* Mutant: a released record is forgotten before its window is over. *)
SweptAtOnce == released

(* _sweep_expired: the keys whose released record has outlived its window. *)
Swept == released \cap windowOver
Known(k) == k \notin Swept /\ (tickets[k] # 0 \/ k \in recovered)

(* _forget for every swept key, then `add' on top of what is left. *)
SweepAnd(newTickets, newRecovered, newMonitors) ==
    /\ tickets' = [k \in Keys |->
          IF k \in DOMAIN newTickets THEN newTickets[k]
          ELSE IF k \in Swept THEN 0 ELSE tickets[k]]
    /\ recovered' = (recovered \ Swept) \cup newRecovered
    /\ released' = released \ Swept
    /\ windowOver' = windowOver \ Swept
    /\ expired' = expired \ Swept
    /\ monitors' = [k \in Keys |->
          IF k \in DOMAIN newMonitors THEN newMonitors[k]
          ELSE IF k \in Swept THEN 0 ELSE monitors[k]]
    /\ monitorTask' = [t \in Tickets |->
          IF Key(t) \in DOMAIN newMonitors /\ newMonitors[Key(t)] = Gen(t) THEN "live"
          ELSE IF Key(t) \in Swept /\ monitors[Key(t)] = Gen(t) /\ monitorTask[t] = "live"
          THEN "cancelling" ELSE monitorTask[t]]

(* A duplicate, a full queue, or a recovery that conflicts: only the sweep. *)
AdmitRefused(k) ==
    /\ closing = "open"
    /\ Swept # {}
    /\ Known(k) \/ queuedTotal >= MaxQueued
    /\ SweepAnd(<<>>, {}, <<>>)
    /\ UNCHANGED <<plan, lastGen, observer, recCompleted, queuedTotal, futures, lanes, closing,
                   overdue>>

(* A new ticket: recorded before it is queued, watched from the start, and
   appended to its session's lane, which is created when there is none. *)
AdmitNew(k) ==
    LET t == <<k, lastGen[k] + 1>>
        l == plan.lane[k]
    IN  /\ closing = "open"
        /\ ~Known(k)
        /\ queuedTotal < MaxQueued
        /\ lastGen[k] < plan.gens[k]
        /\ SweepAnd([x \in {k} |-> Gen(t)], {}, [x \in {k} |-> Gen(t)])
        /\ lastGen' = [lastGen EXCEPT ![k] = Gen(t)]
        /\ queuedTotal' = queuedTotal + 1
        /\ started' = [started EXCEPT ![t] = "pending"]
        /\ completed' = [completed EXCEPT ![t] = "pending"]
        /\ queue' = [queue EXCEPT ![l] = Append(@, t)]
        /\ stage' = [stage EXCEPT ![l] = IF @ = "none" THEN "new" ELSE @]
        /\ UNCHANGED <<plan, observer, recCompleted, current, closing, overdue>>

(* A run found on an adopted instance takes capacity without asking for it. *)
Recover(k) ==
    /\ closing = "open"
    /\ k \notin plan.scripts
    /\ ~Known(k)
    /\ lastGen[k] < plan.gens[k]
    /\ SweepAnd(<<>>, {k}, <<>>)
    /\ lastGen' = [lastGen EXCEPT ![k] = @ + 1]
    /\ queuedTotal' = queuedTotal + 1
    /\ observer' = [observer EXCEPT ![k] = "live"]
    /\ recCompleted' = [recCompleted EXCEPT ![k] = "pending"]
    /\ UNCHANGED <<plan, futures, lanes, closing, overdue>>

(* The observer saw a terminal status, or the loss of the instance. *)
ObserverEnds(k) ==
    /\ observer[k] = "live"
    /\ observer' = [observer EXCEPT ![k] = "done"]
    /\ recCompleted' = [recCompleted EXCEPT ![k] = "done"]
    /\ Release({k})
    /\ UNCHANGED <<plan, tickets, lastGen, recovered, watch, futures, lanes, closing, overdue,
                   windowOver>>

(* Any other failure of the observer proves nothing: the capacity stays held. *)
ObserverFails(k) ==
    /\ observer[k] = "live"
    /\ observer' = [observer EXCEPT ![k] = "done"]
    /\ UNCHANGED <<plan, tickets, lastGen, recovered, recCompleted, queuedTotal, released, watch,
                   futures, lanes, closing, overdue, windowOver>>

-----------------------------------------------------------------------------
(* Time, callers and the deadline monitors. *)

DeadlinePasses(t) ==
    /\ Held(t)
    /\ t \notin overdue
    /\ overdue' = overdue \cup {t}
    /\ UNCHANGED <<plan, tickets, lastGen, recoveries, queuedTotal, released, watch, futures,
                   lanes, closing, windowOver>>

WindowPasses(k) ==
    /\ k \in released \ windowOver
    /\ windowOver' = windowOver \cup {k}
    /\ UNCHANGED <<plan, tickets, lastGen, recoveries, queuedTotal, released, watch, futures,
                   lanes, closing, overdue>>

(* The caller cancels a future Admission handed out. *)
CallerCancels(t) ==
    /\ started[t] = "pending"
    /\ completed[t] = "pending"
    /\ completed' = [completed EXCEPT ![t] = "done"]
    /\ UNCHANGED <<plan, tickets, lastGen, recoveries, queuedTotal, released, watch, started,
                   lanes, closing, overdue, windowOver>>

(* Mutant: the monitor also gives the capacity back (N3). *)
MonitorReleases(t) ==
    /\ monitorTask[t] = "live"
    /\ t \in overdue
    /\ monitorTask' = [monitorTask EXCEPT ![t] = "fired"]
    /\ monitors' = [monitors EXCEPT ![Key(t)] = IF @ = Gen(t) THEN 0 ELSE @]
    /\ expired' = expired \cup {Key(t)}
    /\ Resolve({t})
    /\ Release({Key(t)})
    /\ UNCHANGED <<plan, tickets, lastGen, recoveries, lanes, closing, overdue, windowOver>>

(* Mutant: a cancelled completed future stops the monitor (N4). *)
MonitorGivesUp(t) ==
    /\ completed[t] = "pending"
    /\ monitorTask[t] = "live"
    /\ t \in overdue
    /\ monitorTask' = [monitorTask EXCEPT ![t] = "fired"]
    /\ monitors' = [monitors EXCEPT ![Key(t)] = IF @ = Gen(t) THEN 0 ELSE @]
    /\ expired' = expired \cup {Key(t)}
    /\ Resolve({t})
    /\ UNCHANGED <<plan, tickets, lastGen, recoveries, queuedTotal, released, lanes, closing,
                   overdue, windowOver>>

(* _monitor_deadline: fail the futures and leave the marker; no release. *)
MonitorFires(t) ==
    /\ monitorTask[t] = "live"
    /\ t \in overdue
    /\ monitorTask' = [monitorTask EXCEPT ![t] = "fired"]
    /\ monitors' = [monitors EXCEPT ![Key(t)] = IF @ = Gen(t) THEN 0 ELSE @]
    /\ expired' = expired \cup {Key(t)}
    /\ Resolve({t})
    /\ UNCHANGED <<plan, tickets, lastGen, recoveries, queuedTotal, released, lanes, closing,
                   overdue, windowOver>>

(* The `finally' of a cancelled monitor: pop its own registration only. *)
MonitorEnds(t) ==
    /\ monitorTask[t] = "cancelling"
    /\ monitorTask' = [monitorTask EXCEPT ![t] = "done"]
    /\ monitors' = [monitors EXCEPT ![Key(t)] = IF @ = Gen(t) THEN 0 ELSE @]
    /\ UNCHANGED <<plan, tickets, lastGen, recoveries, queuedTotal, released, expired, futures,
                   lanes, closing, overdue, windowOver>>

-----------------------------------------------------------------------------
(* The consumer of a lane: _Lane._consume and _run_ticket. *)

(* The consumer goes on with its queue, or ends and deregisters the lane. *)
AfterTicket(l, rest) ==
    /\ stage' = [stage EXCEPT ![l] = IF rest = <<>> THEN "none" ELSE "next"]
    /\ current' = [current EXCEPT ![l] = NoTicket]

(* Dequeue and take the ticket over from its monitor.  One the monitor has
   failed, or whose deadline is over, is only retired. *)
Dequeue(l) ==
    LET t == Head(queue[l])
    IN  /\ stage[l] \in {"new", "next"}
        /\ queue' = [queue EXCEPT ![l] = Tail(@)]
        /\ \/ /\ Key(t) \in expired \/ t \in overdue
              /\ IF Key(t) \in expired THEN UNCHANGED futures ELSE Resolve({t})
              /\ Retire({t})
              /\ AfterTicket(l, Tail(queue[l]))
           \/ /\ Key(t) \notin expired /\ t \notin overdue
              /\ CancelMonitors({t})
              /\ stage' = [stage EXCEPT ![l] = "permits"]
              /\ current' = [current EXCEPT ![l] = t]
              /\ UNCHANGED <<futures, queuedTotal, released>>
        /\ UNCHANGED <<plan, tickets, lastGen, recoveries, closing, overdue, windowOver>>

(* The ticket is over: permits back, retired, and the lane goes on. *)
EndTicket(l) ==
    /\ Retire({current[l]})
    /\ AfterTicket(l, queue[l])
    /\ UNCHANGED <<plan, tickets, lastGen, recoveries, queue, closing, overdue, windowOver>>

(* The deadline passes before the permits, or before the delivery. *)
ExpireWaiting(l) ==
    /\ stage[l] = "permits"
    /\ current[l] \in overdue
    /\ Resolve({current[l]})
    /\ EndTicket(l)

AcquirePermits(l) ==
    /\ stage[l] = "permits"
    /\ current[l] \notin overdue
    /\ CanAcquire(l)
    /\ stage' = [stage EXCEPT ![l] = "running"]
    /\ UNCHANGED <<plan, tickets, lastGen, recoveries, queuedTotal, released, watch, futures,
                   queue, current, closing, overdue, windowOver>>

(* The runner's mark_started. *)
RunnerStarts(l) ==
    /\ stage[l] = "running"
    /\ started[current[l]] = "pending"
    /\ started' = [started EXCEPT ![current[l]] = "done"]
    /\ UNCHANGED <<plan, tickets, lastGen, recoveries, queuedTotal, released, watch, completed,
                   lanes, closing, overdue, windowOver>>

(* The runner returns or raises; either way both futures are resolved, a
   started one that the runner never signalled with an exception. *)
RunnerEnds(l) ==
    /\ stage[l] = "running"
    /\ Resolve({current[l]})
    /\ EndTicket(l)

-----------------------------------------------------------------------------
(* close(): recoveries, then lanes, then monitors and whatever is left. *)

CloseBegins ==
    LET live == {k \in Keys : observer[k] = "live"}
    IN  /\ closing = "open"
        /\ closing' = "recoveries"
        /\ observer' = [k \in Keys |-> IF k \in live THEN "done" ELSE observer[k]]
        /\ recCompleted' = [k \in Keys |-> IF k \in live THEN "done" ELSE recCompleted[k]]
        /\ Release(live)
        /\ UNCHANGED <<plan, tickets, lastGen, recovered, watch, futures, lanes, overdue,
                       windowOver>>

CloseCancelsLanes ==
    /\ closing = "recoveries"
    /\ closing' = "lanes"
    /\ UNCHANGED <<plan, tickets, lastGen, recoveries, queuedTotal, released, watch, futures,
                   lanes, overdue, windowOver>>

(* Mutant: close() waits for the run under way instead of cancelling it. *)
LaneCancelledUnlessRunning(l) ==
    /\ closing = "lanes"
    /\ stage[l] \in {"new", "permits"}
    /\ stage' = [stage EXCEPT ![l] = "none"]
    /\ current' = [current EXCEPT ![l] = NoTicket]
    /\ queue' = [queue EXCEPT ![l] = <<>>]
    /\ IF stage[l] = "new"
       THEN UNCHANGED <<futures, watch, queuedTotal, released>>
       ELSE LET ts == ToSet(queue[l]) \cup {current[l]}
            IN Resolve(ts) /\ Retire(ts)
    /\ UNCHANGED <<plan, tickets, lastGen, recoveries, closing, overdue, windowOver>>

(* The cancelled consumer fails the ticket it handles and drains its queue; one
   that never ran its first step just disappears, and its queue with it. *)
LaneCancelled(l) ==
    /\ closing = "lanes"
    /\ stage[l] \in {"new", "permits", "running"}
    /\ stage' = [stage EXCEPT ![l] = "none"]
    /\ current' = [current EXCEPT ![l] = NoTicket]
    /\ queue' = [queue EXCEPT ![l] = <<>>]
    /\ IF stage[l] = "new"
       THEN UNCHANGED <<futures, watch, queuedTotal, released>>
       ELSE LET ts == ToSet(queue[l]) \cup {current[l]}
            IN Resolve(ts) /\ Retire(ts)
    /\ UNCHANGED <<plan, tickets, lastGen, recoveries, closing, overdue, windowOver>>

(* Mutant: close() sweeps only the monitors. *)
CloseEndsUnswept ==
    /\ closing = "lanes"
    /\ \A l \in Lanes : stage[l] = "none"
    /\ closing' = "closed"
    /\ monitors' = [k \in Keys |-> 0]
    /\ UNCHANGED <<plan, tickets, lastGen, recoveries, queuedTotal, released, expired,
                   monitorTask, futures, lanes, overdue, windowOver>>

(* The last sweep of close(): every remaining ticket and recovered run. *)
CloseEnds ==
    LET left == {<<k, tickets[k]>> : k \in {x \in Keys : tickets[x] # 0}}
    IN  /\ closing = "lanes"
        /\ \A l \in Lanes : stage[l] = "none"
        /\ closing' = "closed"
        /\ Resolve(left)
        /\ recCompleted' = [k \in Keys |->
              IF k \in UnreleasedRecovered /\ recCompleted[k] = "pending" THEN "done"
              ELSE recCompleted[k]]
        /\ Release({Key(t) : t \in left} \cup recovered)
        /\ expired' = expired \ {Key(t) : t \in left}
        /\ monitors' = [k \in Keys |-> 0]
        /\ monitorTask' = [t \in Tickets |->
              IF monitors[Key(t)] = Gen(t) /\ monitorTask[t] = "live" THEN "done"
              ELSE monitorTask[t]]
        /\ UNCHANGED <<plan, tickets, lastGen, recovered, observer, lanes, overdue, windowOver>>

-----------------------------------------------------------------------------
LaneStep(l) ==
    \/ Dequeue(l) \/ ExpireWaiting(l) \/ AcquirePermits(l) \/ RunnerStarts(l)
    \/ RunnerEnds(l) \/ LaneCancelled(l)
KeyStep(k) ==
    \/ AdmitRefused(k) \/ AdmitNew(k) \/ Recover(k) \/ ObserverEnds(k)
    \/ ObserverFails(k) \/ WindowPasses(k)
TicketStep(t) ==
    DeadlinePasses(t) \/ CallerCancels(t) \/ MonitorFires(t) \/ MonitorEnds(t)

Next ==
    \/ \E l \in Lanes : LaneStep(l)
    \/ \E k \in Keys : KeyStep(k)
    \/ \E t \in Tickets : TicketStep(t)
    \/ CloseBegins \/ CloseCancelsLanes \/ CloseEnds

Spec == Init /\ [][Next]_vars

-----------------------------------------------------------------------------
(* Properties. *)

(* The capacity counter equals the records not yet released, whichever of the
   dequeue, the monitor, a drain, an observer or close() ended them. *)
CapacityCounted ==
    /\ TypeOK
    /\ queuedTotal =
          Cardinality({k \in Keys : tickets[k] # 0 /\ k \notin released})
            + Cardinality({k \in recovered : k \notin released})

(* N3: no second generation of a delivery is admitted while an earlier one is
   still in a lane, so it never runs twice at the same time. *)
OneGeneration ==
    \A t, u \in Tickets : Held(t) /\ Held(u) /\ Key(t) = Key(u) => t = u

(* N5: a ticket that has left its lane has answered both futures; none is left
   pending by a stale marker or a lost monitor.  (A lane cancelled before its
   first step leaves its tickets to the last sweep of close().) *)
GoneIsAnswered ==
    \A t \in Tickets :
        ~Held(t) /\ closing # "lanes" =>
            started[t] # "pending" /\ completed[t] # "pending"

(* After close() nothing waits: no pending future, no capacity, no monitor. *)
ClosedIsDrained ==
    closing = "closed" =>
        /\ queuedTotal = 0
        /\ \A t \in Tickets : started[t] # "pending" /\ monitorTask[t] # "live"
        /\ \A k \in Keys : recCompleted[k] # "pending"

(* Nobody is left waiting for the answer of a ticket that is over. *)
OverIsAnswered == GoneIsAnswered /\ ClosedIsDrained

(* Deduplication: the deliveries behave as the ledger of the contract. *)
Status(k) ==
    IF tickets[k] = 0 /\ k \notin recovered THEN "absent"
    ELSE IF k \in released THEN "over"
    ELSE IF k \in recovered \/ \E l \in RunningLanes : Key(current[l]) = k
    THEN "running" ELSE "waiting"

Ledger == INSTANCE DeliveryLedger WITH
    status <- [k \in Keys |-> Status(k)], elapsed <- windowOver

(* Every step of Admission is a step of that ledger. *)
ImplementsLedger == Ledger!Spec

-----------------------------------------------------------------------------
(* Time passes and the event loop runs whatever is ready.  The runner is not
   fair: a run may hang, and a recovered run may never be seen to end. *)
Fairness ==
    /\ \A l \in Lanes :
          /\ WF_vars(Dequeue(l))
          /\ WF_vars(ExpireWaiting(l))
          /\ WF_vars(LaneCancelled(l))
    /\ \A t \in Tickets :
          /\ WF_vars(DeadlinePasses(t))
          /\ WF_vars(MonitorFires(t))
    /\ WF_vars(CloseCancelsLanes)
    /\ WF_vars(CloseEnds)

FairSpec == Spec /\ Fairness

(* A queued delivery is answered, whoever hangs before it in its lane or holds
   the permits it needs: its started future is resolved, unless it runs itself. *)
QueuedIsAnswered ==
    \A t \in Tickets :
        Queued(t) ~> (started[t] # "pending"
                      \/ \E l \in RunningLanes : current[l] = t)

(* close() returns. *)
CloseReturns == (closing # "open") ~> (closing = "closed")
=============================================================================
