------------------------------ MODULE Channels ------------------------------
(***************************************************************************)
(* The channels in front of Dispatch: the Redis stream consumer            *)
(* (channels/queue.py), the cron scheduler (channels/cron.py), the A2A     *)
(* bridge (channels/a2a.py) and the webhooks (harness/app.py) with their   *)
(* scripts (harness/scripts.py), over a control that boots, adopts, stops  *)
(* and crashes (harness/boot.py).                                          *)
(*                                                                         *)
(* Every delivery is one event of one channel; the ids of stream entries   *)
(* and the times of ticks are ordered like the keys.                       *)
(***************************************************************************)
EXTENDS Dispatch, FiniteSetsExt

CONSTANT Waiters    \* executes of one A2A task

ASSUME WaitersAssumption == Waiters \subseteq Nat \ {0} /\ IsFiniteSet(Waiters)

vars == <<dvars, cvars>>

Of(c) == {k \in Keys : mix.kind[k] = c}

Events == {"none", "new", "pending", "trimmed", "acked", "gone",      \* stream entries
           "due", "firing", "fired", "dropped", "missed",       \* ticks
           "accepted", "refused"}                               \* webhooks

NoExec   == [at |-> "out", ev |-> 0]
NoBridge == [event |-> 0, count |-> 0, set |-> {}, emitters |-> {}]
ConOff   == [at |-> "off", from |-> "sweep", cursor |-> 0, batch |-> {}]
ConStart == [ConOff EXCEPT !.at = "fetch"]

TypeOK ==
    /\ DispatchTypeOK
    /\ event \in [Keys -> Events]
    /\ con \in [at : {"off", "fetch", "admit", "wait"}, from : {"sweep", "read"},
                cursor : Keys \cup {0}, batch : SUBSET [key : Keys, stale : BOOLEAN]]
    /\ firing \in Keys \cup {0}
    /\ exec \in [Keys -> [Waiters -> [at : {"out", "started", "working", "answered",
                                            "silent", "lost"},
                                      ev : Waiters \cup {0}]]]
    /\ bridge \in [Keys -> [event : Waiters \cup {0}, count : 0..Cardinality(Waiters),
                            set : SUBSET Waiters, emitters : SUBSET Waiters]]
    /\ procs \subseteq Keys

Init ==
    /\ DInit
    /\ event = [k \in Keys |-> "none"]
    /\ con = ConOff
    /\ firing = 0
    /\ exec = [k \in Keys |-> [w \in Waiters |-> NoExec]]
    /\ bridge = [k \in Keys |-> NoBridge]
    /\ procs = {}

(* A channel is answered by a ticket that exists already, or by a new one. *)
Admit(k) == IF MayAdmit(k) THEN AdmitNew(k) ELSE control = "serving" /\ UNCHANGED dvars

(* Admission refuses: its queue is full, a rate limit is exceeded, or (as far
   as the model goes) every admission of the delivery is used up. *)
AdmitRefused(k) ==
    /\ control = "serving" /\ ~Known(k)
    /\ \/ gens[k] = mix.gens[k] /\ UNCHANGED faults
       \/ Fault("admit")
    /\ UNCHANGED <<mix, ctlVars, stray, unitVars, gateway, auxVars>>

-----------------------------------------------------------------------------
(* Redis stream: entries of the group, and its one consumer c1. *)

Produce(k) ==
    /\ mix.kind[k] = "queue" /\ event[k] = "none"
    /\ \A j \in Of("queue") : j < k => event[j] # "none"
    /\ event' = [event EXCEPT ![k] = "new"]
    /\ UNCHANGED <<dvars, con, firing, exec, bridge, procs>>

(* The stream is trimmed: a pending entry loses its fields. *)
Trim(k) ==
    /\ event[k] = "pending" /\ Fault("trim")
    /\ event' = [event EXCEPT ![k] = "trimmed"]
    /\ UNCHANGED <<mix, ctlVars, stray, unitVars, gateway, auxVars,
                   con, firing, exec, bridge, procs>>

Entries(S) == {[key |-> k, stale |-> event[k] = "trimmed"] : k \in S}
InHand == CHOOSE e \in con.batch : \A f \in con.batch : e.key <= f.key

(* _consume_pending_once: the pending entries behind the cursor.  At the end of
   them the server answers with the stream and no entry, which is not the empty
   reply that starts the sweep anew: the cursor stays where it is. *)
FetchPending ==
    LET found == {k \in Of("queue") : event[k] \in {"pending", "trimmed"} /\ k > con.cursor}
    IN /\ con.at = "fetch" /\ con.from = "sweep"
       /\ con' = IF found = {} THEN [con EXCEPT !.from = "read"]
                 ELSE [con EXCEPT !.at = "admit", !.batch = Entries(found)]
       /\ UNCHANGED <<dvars, event, firing, exec, bridge, procs>>

(* Mutant: a read whose reply is lost is repeated before the pending entries are
   looked at. *)
FetchNewAgain ==
    LET found == {k \in Of("queue") : event[k] = "new"}
    IN /\ con.at = "fetch" /\ con.from = "read"
       /\ event' = [k \in Keys |-> IF k \in found THEN "pending" ELSE event[k]]
       /\ \/ /\ con' = IF found = {} THEN con
                       ELSE [con EXCEPT !.at = "admit", !.batch = Entries(found)]
             /\ UNCHANGED faults
          \/ /\ Fault("reply")
             /\ UNCHANGED con
       /\ UNCHANGED <<mix, ctlVars, stray, unitVars, gateway, auxVars,
                      firing, exec, bridge, procs>>

(* xreadgroup ">": new entries become pending on the server, even if the reply
   is lost; a blocked read that finds none returns. *)
FetchNew ==
    LET found == {k \in Of("queue") : event[k] = "new"}
    IN /\ con.at = "fetch" /\ con.from = "read"
       /\ event' = [k \in Keys |-> IF k \in found THEN "pending" ELSE event[k]]
       /\ \/ /\ con' = IF found = {} THEN [con EXCEPT !.from = "sweep"]
                       ELSE [con EXCEPT !.at = "admit", !.batch = Entries(found)]
             /\ UNCHANGED faults
          \/ /\ Fault("reply")
             /\ con' = [con EXCEPT !.from = "sweep"]
       /\ UNCHANGED <<mix, ctlVars, stray, unitVars, gateway, auxVars,
                      firing, exec, bridge, procs>>

(* The consumer is done with the entry in hand. *)
NextEntry(c) ==
    LET rest == c.batch \ {InHand}
    IN [c EXCEPT !.batch = rest,
                 !.at = IF rest = {} THEN "fetch" ELSE "admit",
                 !.from = IF rest # {} THEN @ ELSE IF @ = "sweep" THEN "read" ELSE "sweep"]

Seen == IF con.from = "sweep" THEN [con EXCEPT !.cursor = InHand.key] ELSE con

(* xack, which may fail: the entry then stays pending. *)
Xack(k, how) ==
    \/ event' = [event EXCEPT ![k] = how] /\ UNCHANGED faults
    \/ Fault("xack") /\ UNCHANGED event

HandleStale ==
    /\ con.at = "admit" /\ InHand.stale
    /\ Xack(InHand.key, "gone")
    /\ con' = NextEntry(Seen)
    /\ UNCHANGED <<mix, ctlVars, stray, unitVars, gateway, auxVars,
                   firing, exec, bridge, procs>>

Handle ==
    /\ con.at = "admit" /\ ~InHand.stale
    /\ \/ Admit(InHand.key) /\ con' = [Seen EXCEPT !.at = "wait"]
       \/ AdmitRefused(InHand.key) /\ con' = NextEntry(Seen)
    /\ UNCHANGED <<event, firing, exec, bridge, procs>>

(* Mutant: the consumer acknowledges whatever Started says. *)
HandledAnyway ==
    /\ con.at = "wait"
    /\ ticket[InHand.key].started # "pending"
    /\ Xack(InHand.key, "acked")
    /\ con' = NextEntry(con)
    /\ UNCHANGED <<mix, ctlVars, stray, unitVars, gateway, auxVars,
                   firing, exec, bridge, procs>>

(* Started decides: acknowledged, or left pending. *)
Handled ==
    /\ con.at = "wait"
    /\ \/ ticket[InHand.key].started = "yes" /\ Xack(InHand.key, "acked")
       \/ ticket[InHand.key].started = "failed" /\ UNCHANGED <<event, faults>>
    /\ con' = NextEntry(con)
    /\ UNCHANGED <<mix, ctlVars, stray, unitVars, gateway, auxVars,
                   firing, exec, bridge, procs>>

QueueStep == FetchPending \/ FetchNew \/ HandleStale \/ Handle \/ Handled

-----------------------------------------------------------------------------
(* Cron: one scheduler for all ticks, in their order. *)

(* The time of a tick comes.  Nobody replays one that no scheduler waits for. *)
TickComes(k) ==
    /\ mix.kind[k] = "cron" /\ event[k] = "none"
    /\ event' = [event EXCEPT ![k] = IF control = "serving" THEN "due" ELSE "missed"]
    /\ UNCHANGED <<dvars, con, firing, exec, bridge, procs>>

Fire(k) ==
    /\ firing = 0 /\ event[k] = "due"
    /\ \A j \in Of("cron") : event[j] = "due" => k <= j
    /\ \/ /\ Admit(k) /\ firing' = k
          /\ event' = [event EXCEPT ![k] = "firing"]
       \/ /\ AdmitRefused(k) /\ UNCHANGED firing
          /\ event' = [event EXCEPT ![k] = "dropped"]
    /\ UNCHANGED <<con, exec, bridge, procs>>

Fired ==
    /\ firing # 0 /\ ticket[firing].started # "pending"
    /\ event' = [event EXCEPT ![firing] =
                    IF ticket[firing].started = "yes" THEN "fired" ELSE "dropped"]
    /\ firing' = 0
    /\ UNCHANGED <<dvars, con, exec, bridge, procs>>

-----------------------------------------------------------------------------
(* Webhooks: 202 once admitted; nothing waits, and only the sender repeats. *)

Post(k) ==
    /\ mix.kind[k] \in {"webhook", "script", "handoff"}
    /\ \/ /\ MayAdmit(k) /\ AdmitNew(k)
          /\ event' = [event EXCEPT ![k] = "accepted"]
       \/ /\ event[k] = "none"
          /\ \/ AdmitRefused(k)
             \/ control # "serving" /\ UNCHANGED dvars
          /\ event' = [event EXCEPT ![k] = "refused"]
    /\ UNCHANGED <<con, firing, exec, bridge, procs>>

(* run_webhook_script: a process group of its own in a temporary directory,
   Started as soon as it runs. *)
ScriptSpawns(k) ==
    /\ phase[k] = "spawn" /\ ~ticket[k].late
    /\ ticket' = [ticket EXCEPT ![k].started = "yes"]
    /\ phase' = [phase EXCEPT ![k] = "script"]
    /\ procs' = procs \cup {k}
    /\ UNCHANGED <<mix, control, gens, pin, post, prepared, active, lost, stray, unitVars,
                   gateway, faults, auxVars, event, con, firing, exec, bridge>>

(* No process, or one that was spawned too late and is killed. *)
ScriptSpawnFails(k) ==
    /\ phase[k] = "spawn"
    /\ \/ ticket[k].late /\ UNCHANGED faults
       \/ Fault("spawn")
    /\ Finish(k, "failed")
    /\ UNCHANGED <<mix, stray, unitVars, gateway, auxVars, cvars>>

ScriptExits(k) ==
    /\ phase[k] = "script"
    /\ \E how \in {"ok", "failed"} : Finish(k, how)
    /\ procs' = procs \ {k}
    /\ UNCHANGED <<mix, stray, unitVars, gateway, faults, auxVars,
                   event, con, firing, exec, bridge>>

(* The configured time, or what is left of the deadline, is over: the process
   group is killed and its directory removed before the ticket ends. *)
ScriptTimesOut(k) ==
    /\ phase[k] = "script"
    /\ Finish(k, "failed")
    /\ procs' = procs \ {k}
    /\ UNCHANGED <<mix, stray, unitVars, gateway, faults, auxVars,
                   event, con, firing, exec, bridge>>

-----------------------------------------------------------------------------
(* A2A: the executes of a task share its ticket and its cancel event. *)

Inside(k, w) == exec[k][w].at \in {"started", "working"}

(* Mutant: an execute is not counted. *)
RegisterUncounted(k, w) ==
    [bridge[k] EXCEPT !.event = IF @ = 0 THEN w ELSE @, !.emitters = @ \cup {w}]

Register(k, w) ==
    LET b == bridge[k]
    IN [b EXCEPT !.event = IF @ = 0 THEN w ELSE @, !.count = @ + 1,
                 !.emitters = @ \cup {w}]

Execute(k, w) ==
    /\ mix.kind[k] = "task" /\ exec[k][w].at = "out"
    /\ Admit(k) /\ (Known(k) \/ MayAdmit(k))
    /\ bridge' = [bridge EXCEPT ![k] = Register(k, w)]
    /\ exec' = [exec EXCEPT ![k][w] = [at |-> "started", ev |-> Register(k, w).event]]
    /\ UNCHANGED <<event, con, firing, procs>>

(* Not ready, or refused by Admission: answered at once, and what was
   registered is undone. *)
ExecuteRefused(k, w) ==
    /\ mix.kind[k] = "task" /\ exec[k][w].at = "out"
    /\ \/ AdmitRefused(k)
       \/ control \in {"adopting", "stopping"} /\ UNCHANGED dvars
    /\ exec' = [exec EXCEPT ![k][w].at = "answered"]
    /\ UNCHANGED <<event, con, firing, bridge, procs>>

(* Mutant: whoever leaves forgets the cancel event. *)
LeaveForgets(k, w) ==
    [bridge[k] EXCEPT !.event = 0, !.count = @ - 1, !.emitters = @ \ {w}]

(* The finally clause: the last one to leave forgets the cancel event. *)
Leave(k, w) ==
    LET b == bridge[k]
    IN IF b.count = 1 THEN NoBridge
       ELSE [b EXCEPT !.count = @ - 1, !.emitters = @ \ {w}]

(* What an execute that wakes up does: return without a word if its task was
   cancelled; report "working"; answer. *)
Wakes(k, w) ==
    /\ Inside(k, w)
    /\ LET cancelled == exec[k][w].ev \in bridge[k].set
           ready == exec[k][w].at = "started" /\ ticket[k].started = "yes"
           over  == IF exec[k][w].at = "started" THEN ticket[k].started = "failed" ELSE Over(k)
       IN \/ /\ cancelled
             /\ exec' = [exec EXCEPT ![k][w].at = "silent"]
             /\ bridge' = [bridge EXCEPT ![k] = Leave(k, w)]
          \/ /\ ~cancelled /\ over
             /\ exec' = [exec EXCEPT ![k][w].at = "answered"]
             /\ bridge' = [bridge EXCEPT ![k] = Leave(k, w)]
          \/ /\ ~cancelled /\ ready
             /\ exec' = [exec EXCEPT ![k][w].at = "working"]
             /\ UNCHANGED bridge
    /\ UNCHANGED <<dvars, event, con, firing, procs>>

(* cancel() ends the waits, not the run. *)
CancelTask(k) ==
    /\ mix.kind[k] = "task" /\ control = "serving"
    /\ bridge[k].event # 0
    /\ bridge' = [bridge EXCEPT ![k].set = @ \cup {bridge[k].event}]
    /\ UNCHANGED <<dvars, event, con, firing, exec, procs>>

-----------------------------------------------------------------------------
(* Calls of a run to the control, through the facades of its unit. *)

(* _owned_now, for the claim of the Workspace. *)
OwnedNow == active # 0 /\ active \notin lost

(* artifact_operations: the run is in _prepared, or recovered and not released, at
   the very instance that is published, and its deadline has not passed. *)
ArtifactOwner(k) ==
    /\ OwnedNow /\ pin[k] = active /\ ~ticket[k].late
    /\ k \in prepared \/ (ticket[k].owner = "recovered" /\ ~Over(k))

(* inform_user: the executes that hear a progress message of the run. *)
InformUser(k) == IF OwnedNow /\ k \in prepared THEN bridge[k].emitters ELSE {}

-----------------------------------------------------------------------------
(* Time, and the control process with its sources. *)

(* The idempotency window is long: an execute that waits for the ticket has been
   woken before it passes. *)
WindowPasses(k) ==
    /\ \A w \in Waiters : ~Inside(k, w)
    /\ WindowElapses(k)
    /\ UNCHANGED cvars

(* The sources start once adoption is over. *)
Serve ==
    /\ Adopt
    /\ con' = ConStart
    /\ UNCHANGED <<event, firing, exec, bridge, procs>>

Lost(k) == IF event[k] \in {"due", "firing"} THEN "missed" ELSE event[k]

SourcesEnd ==
    /\ con' = ConOff /\ firing' = 0
    /\ event' = [k \in Keys |-> Lost(k)]

(* _stop_channel_sources: the consumer and the scheduler are cancelled, every
   cancel event is set. *)
Shutdown ==
    /\ StopControl
    /\ SourcesEnd
    /\ bridge' = [k \in Keys |-> [bridge[k] EXCEPT !.set = @ \cup ({bridge[k].event} \ {0})]]
    /\ UNCHANGED <<exec, procs>>

Crash ==
    /\ CrashControl
    /\ SourcesEnd
    /\ exec' = [k \in Keys |-> [w \in Waiters |->
                  IF Inside(k, w) THEN [NoExec EXCEPT !.at = "lost"] ELSE exec[k][w]]]
    /\ bridge' = [k \in Keys |-> NoBridge]
    /\ procs' = {}

-----------------------------------------------------------------------------
ChannelStep ==
    \/ QueueStep \/ Fired \/ Serve \/ Shutdown \/ Crash
    \/ \E k \in Keys :
          \/ Produce(k) \/ Trim(k) \/ TickComes(k) \/ Fire(k) \/ Post(k)
          \/ ScriptSpawns(k) \/ ScriptSpawnFails(k) \/ ScriptExits(k) \/ ScriptTimesOut(k)
          \/ CancelTask(k) \/ WindowPasses(k)
          \/ \E w \in Waiters : Execute(k, w) \/ ExecuteRefused(k, w) \/ Wakes(k, w)

Next ==
    \/ ChannelStep
    \/ SystemStep
    \/ \E k \in Keys : DeliveryStep(k)

Spec == Init /\ [][Next]_vars

(* Tasks that can go on do, requests arrive, runs end, deadlines and windows pass,
   a gateway comes back and a control is started again.  No fault, and nothing that
   a source or a client may do, is assumed to happen.  None of these steps can be
   taken for ever, so one weak fairness condition (weaker than one for each) serves
   all of them; the consumer's loop needs its own. *)
Work(k) ==
    \/ RunnerStep(k) \/ Arrive(k) \/ DeadlinePasses(k) \/ WindowPasses(k)
    \/ RunStarts(k) \/ RunEndsEarly(k) \/ RunEnds(k)
    \/ Fire(k) \/ ScriptSpawns(k) \/ ScriptSpawnFails(k) \/ ScriptTimesOut(k)
    \/ \E w \in Waiters : Wakes(k, w)
HostWork ==
    \/ Recover \/ Activate \/ \E m \in stray : StrayArrives(m)
    \/ GatewayReturns
    \/ control = "stopping" /\ Crash
    \/ BootControl \/ Serve \/ Fired
Fairness ==
    /\ WF_vars(HostWork \/ \E k \in Keys : Work(k))
    /\ WF_vars(QueueStep)
FairSpec == Spec /\ Fairness

-----------------------------------------------------------------------------
(* Properties. *)

(* Whatever is lost, late or replayed, the Start of one admission reaches the
   engine of at most one instance (Delivery.start). *)
OneInstancePerStart ==
    \A k \in Keys : \A p, q \in prompts[k] : p[2] = q[2] => p[1] = q[1]

(* A stream entry that was acknowledged belongs to a run that a unit has really
   started, whatever crashed between its admission and its xack. *)
AckedWasStarted == \A k \in Keys : event[k] = "acked" => k \in begun

Busy(k) == unit # 0 /\ unit = active /\ rec[k].st \in {"accepted", "running"}

(* Work that goes on is held by a ticket that is not over, so that its permits
   are counted: a run in the published unit, also after a restart of the
   control and a lost answer, and the process of a script or a handoff.  Until
   its deadline such a run may publish artifacts. *)
WorkIsHeld ==
    control = "serving" =>
        \A k \in Keys :
            /\ Busy(k) \/ k \in procs => ticket[k].owner # "none" /\ ~Over(k)
            /\ Busy(k) => ticket[k].late \/ ArtifactOwner(k)

(* The same for a run whose native send is ambiguous: control.py says "never
   replay a possibly-sent prompt or release uncertain active work". *)
UncertainIsHeld ==
    control = "serving" /\ unit = active /\ unit # 0 =>
        \A k \in Keys : rec[k].st = "unknown" => ticket[k].owner # "none" /\ ~Over(k)

(* A cancel of a task reaches exactly the executes that wait for it, whichever of
   them came first or left first, and what its run tells the user reaches every
   execute that has reported "working". *)
WaitersAreReached ==
    \A k \in Keys : \A w \in Waiters :
        /\ Inside(k, w) => exec[k][w].ev = bridge[k].event
        /\ Inside(k, w) <=> w \in bridge[k].emitters
        /\ exec[k][w].at = "working" /\ Busy(k) => w \in InformUser(k)

(* The published unit answers, and has no end of the run to report: the ticket
   is held for as long as that unit lives. *)
Unresolvable(k) ==
    /\ phase[k] = "observe" /\ unit = pin[k] /\ active = pin[k]
    /\ rec[k].gen # ticket[k].gen \/ rec[k].st = "unknown"

Blocked == \E k \in Keys : Unresolvable(k)

(* Deliveries, faults and clients are finite in number here, so "always
   eventually settled" can be said at the end of a behaviour. *)

(* Every delivery ends, whichever instance or answer is lost, and every execute
   of a task returns (answered, cancelled or cut off), unless the unit has no
   end of the run to report. *)
DeliveriesEnd ==
    <>[](\A k \in Keys : Unresolvable(k) \/
            /\ ticket[k].owner # "none" => Over(k)
            /\ \A w \in Waiters : ~Inside(k, w))

(* Every pending entry is delivered again by the sweep of the control that
   serves in the end: also one whose first reply was lost, that an earlier
   control had left, whose xack failed or that was trimmed; unless the one
   consumer is blocked by a delivery that does not end. *)
PendingIsSwept ==
    <>[](\A k \in Keys : event[k] \in {"pending", "trimmed"} => con.cursor >= k \/ Blocked)

(* An entry that was left pending is started again for as long as Admission lets
   it, or acknowledged after all ("stays pending and is retried later", contract
   v1:59).  The code does not keep to this: its sweep passes an entry once. *)
PendingIsRetried ==
    <>[](\A k \in Keys : event[k] = "pending" => gens[k] = mix.gens[k] \/ Blocked)

=============================================================================
