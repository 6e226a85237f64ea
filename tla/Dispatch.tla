------------------------------ MODULE Dispatch ------------------------------
(***************************************************************************)
(* Delivery of admitted events to the mini-harness of one Workspace:       *)
(* harness/delivery.py (Start, its ambiguous answers, status, cancel) and  *)
(* Control.run / _observe_run / reconnect_workspace in harness/control.py, *)
(* with the record that execution/service.py keeps of every run.           *)
(*                                                                         *)
(* A delivery is named by its key, which is also its invocation id: it is  *)
(* derived from the channel and the event id, so a redelivered event has   *)
(* the same one.  What tells two admissions of one event apart is the      *)
(* deadline of the ticket, here its generation.                            *)
(***************************************************************************)
EXTENDS Naturals, FiniteSets

CONSTANTS
    Keys,           \* deliveries
    Kinds,          \* types of channel
    Mixes,          \* what may happen: the channel and (a bound) the admissions
                    \* of each delivery, and (a bound) the number of faults
    Faults,         \* kinds of fault that may happen
    MaxFaults,      \* bound: faults of any mix
    MaxGen,         \* bound: admissions of any delivery
    MaxInst         \* bound: instances of the execution unit

ASSUME DispatchAssumption ==
    /\ Keys \subseteq Nat \ {0}
    /\ Mixes \subseteq [kind : [Keys -> Kinds], gens : [Keys -> 1..MaxGen], faults : 0..MaxFaults]
    /\ MaxFaults \in Nat /\ MaxGen \in Nat \ {0} /\ MaxInst \in Nat \ {0}

VARIABLES
    mix,            \* what happens in this behaviour
    control,        \* the control process
    ticket,         \* Admission's record of each delivery
    gens,           \* admissions of each delivery so far, over all controls
    phase,          \* where Control.run is for each delivery
    pin,            \* endpoint.instance_id that run holds
    post,           \* the Start request run waits for
    stray,          \* Start requests nobody waits for any more
    prepared,       \* Control._prepared
    unit,           \* instance that runs, 0 if none
    made,           \* instances so far
    active,         \* instance the manager has published, 0 if none
    lost,           \* WorkspaceManager._lost_instances
    rec,            \* ExecutionService._invocations of the running unit
    archive,        \* run records in the session archives
    gateway,        \* the host reports its gateway available
    faults,         \* faults left
    prompts,        \* engine sends: <<instance, generation>> of each delivery
    begun,          \* deliveries whose Started a unit has published
    outcome         \* outcomes _record_run has reported of each delivery

(* The channels, whose steps module Channels describes. *)
VARIABLES
    event,          \* what the source of each delivery knows of it
    con,            \* QueueConsumer: where it is, its cursor and the entries in hand
    firing,         \* tick that CronScheduler._fire waits for, 0 if none
    exec,           \* A2AAgentExecutorBridge.execute calls of each task
    bridge,         \* cancel event, waiter count, set events and emitters of each task
    procs           \* deliveries whose script or handoff hook runs, with its directory

ctlVars  == <<control, ticket, gens, phase, pin, post, prepared, active, lost>>
unitVars == <<unit, made, rec, archive>>
auxVars  == <<prompts, begun, outcome>>
cvars    == <<event, con, firing, exec, bridge, procs>>
dvars    == <<mix, ctlVars, stray, unitVars, gateway, faults, auxVars>>

Insts    == 1..MaxInst
Gens     == 1..MaxGen
Finals   == {"completed", "failed", "cancelled", "skipped"}

Phases ==
    {"idle", "queued", "ensure", "prepare", "hook", "hooking", "import", "send", "sent", "resolve", "check",
     "recheck", "resend", "resent", "observe", "spawn", "script"}
Posts == {"none", "wire", "held", "refused", "conflict", "mismatch"}

NoTicket == [owner |-> "none", gen |-> 0, started |-> "pending", completed |-> "pending",
             late |-> FALSE, cancelled |-> FALSE, elapsed |-> FALSE]
NoRec == [st |-> "none", gen |-> 0, started |-> "pending"]

DispatchTypeOK ==
    /\ mix \in Mixes
    /\ control \in {"down", "adopting", "serving", "stopping"}
    /\ ticket \in [Keys -> [owner : {"none", "own", "recovered"}, gen : 0..MaxGen,
                            started : {"pending", "yes", "failed"},
                            completed : {"pending", "ok", "failed"},
                            late : BOOLEAN, cancelled : BOOLEAN, elapsed : BOOLEAN]]
    /\ gens \in [Keys -> 0..MaxGen]
    /\ phase \in [Keys -> Phases] /\ pin \in [Keys -> 0..MaxInst]
    /\ post \in [Keys -> Posts]
    /\ stray \subseteq [key : Keys, inst : Insts, gen : Gens]
    /\ prepared \subseteq Keys
    /\ unit \in 0..MaxInst /\ made \in 0..MaxInst /\ active \in 0..MaxInst
    /\ lost \subseteq Insts
    /\ \A r \in {rec, archive} :
          r \in [Keys -> [st : {"none", "accepted", "running", "unknown"} \cup Finals,
                          gen : 0..MaxGen, started : {"pending", "yes", "failed"}]]
    /\ gateway \in BOOLEAN /\ faults \in 0..MaxFaults
    /\ prompts \in [Keys -> SUBSET (Insts \X Gens)]
    /\ begun \subseteq Keys
    /\ outcome \in [Keys -> SUBSET {"known", "unknown"}]

DInit ==
    /\ mix \in Mixes
    /\ control = "adopting"
    /\ ticket = [k \in Keys |-> NoTicket]
    /\ gens = [k \in Keys |-> 0]
    /\ phase = [k \in Keys |-> "idle"]
    /\ pin = [k \in Keys |-> 0]
    /\ post = [k \in Keys |-> "none"]
    /\ stray = {}
    /\ prepared = {}
    /\ unit = 0 /\ made = 0 /\ active = 0 /\ lost = {}
    /\ rec = [k \in Keys |-> NoRec]
    /\ archive = [k \in Keys |-> NoRec]
    /\ gateway = TRUE
    /\ faults = mix.faults
    /\ prompts = [k \in Keys |-> {}]
    /\ begun = {}
    /\ outcome = [k \in Keys |-> {}]

Fault(f) ==
    /\ f \in Faults /\ faults > 0
    /\ faults' = faults - 1

-----------------------------------------------------------------------------
(* Admission, as far as the runner sees it (module Admission has the rest). *)

Over(k) == ticket[k].completed # "pending"

(* admit() finds the delivery: in flight, or inside its idempotency window. *)
Known(k) == ticket[k].owner # "none" /\ ~(Over(k) /\ ticket[k].elapsed)

MayAdmit(k) == ~Known(k) /\ gens[k] < mix.gens[k]

(* A new ticket: its deadline counts from now, so it is a new generation. *)
AdmitNew(k) ==
    /\ control = "serving" /\ MayAdmit(k)
    /\ ticket' = [ticket EXCEPT ![k] = [NoTicket EXCEPT !.owner = "own", !.gen = gens[k] + 1]]
    /\ gens' = [gens EXCEPT ![k] = @ + 1]
    /\ phase' = [phase EXCEPT ![k] = "queued"]
    /\ UNCHANGED <<mix, control, pin, post, prepared, active, lost, stray,
                   unitVars, gateway, faults, auxVars>>

WindowElapses(k) ==
    /\ Over(k) /\ ~ticket[k].elapsed
    /\ gens[k] < mix.gens[k]
    /\ ticket' = [ticket EXCEPT ![k].elapsed = TRUE]
    /\ UNCHANGED <<mix, control, gens, phase, pin, post, prepared, active, lost,
                   stray, unitVars, gateway, faults, auxVars>>

DeadlinePasses(k) ==
    /\ ticket[k].owner # "none" /\ ~Over(k) /\ ~ticket[k].late
    /\ ticket' = [ticket EXCEPT ![k].late = TRUE]
    /\ UNCHANGED <<mix, cvars, control, gens, phase, pin, post, prepared, active, lost,
                   stray, unitVars, gateway, faults, auxVars>>

(* The runner returns or raises: futures that are still open are answered,
   the ticket is retired, and the delivery leaves _prepared. *)
Finish(k, how) ==
    /\ ticket' = [ticket EXCEPT ![k].completed = how,
                    ![k].started = IF @ = "pending" THEN "failed" ELSE @]
    /\ phase' = [phase EXCEPT ![k] = "idle"]
    /\ pin' = [pin EXCEPT ![k] = 0]
    /\ post' = [post EXCEPT ![k] = "none"]
    /\ prepared' = prepared \ {k}
    /\ UNCHANGED <<control, gens, active, lost>>

Move(k, p) ==
    /\ phase' = [phase EXCEPT ![k] = p]
    /\ UNCHANGED <<control, ticket, gens, pin, post, prepared, active, lost>>

(* The lane dequeues the ticket; one that is late is expired instead. *)
Begin(k) ==
    /\ phase[k] = "queued" /\ ~ticket[k].late
    /\ Move(k, IF mix.kind[k] = "script" THEN "spawn" ELSE "ensure")
    /\ UNCHANGED <<mix, cvars, stray, unitVars, gateway, faults, auxVars>>

Expire(k) ==
    /\ phase[k] = "queued" /\ ticket[k].late
    /\ Finish(k, "failed")
    /\ UNCHANGED <<mix, cvars, stray, unitVars, gateway, faults, auxVars>>

-----------------------------------------------------------------------------
(* Delivery.start up to the first send. *)

(* Wait for the gateway, then for the published endpoint. *)
Ensure(k) ==
    /\ phase[k] = "ensure" /\ gateway /\ active # 0
    /\ phase' = [phase EXCEPT ![k] = "prepare"]
    /\ pin' = [pin EXCEPT ![k] = active]
    /\ UNCHANGED <<mix, cvars, control, ticket, gens, post, prepared, active, lost,
                   stray, unitVars, gateway, faults, auxVars>>

(* Mutant: the wait for an endpoint has no time-out. *)
StartWaitsForEndpoint(k) ==
    /\ \/ phase[k] \in {"prepare", "import"}
       \/ phase[k] = "send" /\ ~gateway
    /\ ticket[k].late
    /\ Finish(k, "failed")
    /\ UNCHANGED <<mix, cvars, stray, unitVars, gateway, faults, auxVars>>

(* No endpoint, or no gateway, before the deadline: nothing has been sent.  *)
StartTimesOut(k) ==
    /\ \/ phase[k] \in {"ensure", "prepare", "import"}
       \/ phase[k] = "send" /\ ~gateway
    /\ ticket[k].late
    /\ Finish(k, "failed")
    /\ UNCHANGED <<mix, cvars, stray, unitVars, gateway, faults, auxVars>>

(* _adopt_restored_run: a run of the archive that the unit does not know; all of
   them are over. *)
Restored(k) == rec[k] = NoRec /\ archive[k].st \in Finals

(* Control._prepare, first: the session is restored from its archive, with the
   runs the archive knows of, and the unit is configured. *)
RestoreSession(k) ==
    /\ phase[k] = "prepare" /\ unit = pin[k]
    /\ \/ UNCHANGED rec
       \/ /\ Restored(k)
          /\ rec' = [rec EXCEPT ![k] = archive[k]]
    /\ phase' = [phase EXCEPT ![k] = IF mix.kind[k] = "handoff" THEN "hook" ELSE "import"]
    /\ UNCHANGED <<mix, cvars, control, ticket, gens, pin, post, prepared, active, lost,
                   stray, unit, made, archive, gateway, faults, auxVars>>

(* A channel with a handoff: its hook runs in the control, in a process group and
   a directory of its own. *)
HookStarts(k) ==
    /\ phase[k] = "hook" /\ ~ticket[k].late
    /\ procs' = procs \cup {k}
    /\ Move(k, "hooking")
    /\ UNCHANGED <<mix, event, con, firing, exec, bridge, stray, unitVars, gateway, faults, auxVars>>

(* It cannot be started, or exits with an error, or its time is over and it is
   killed: in every case before the ticket ends. *)
HookFails(k) ==
    /\ phase[k] \in {"hook", "hooking"}
    /\ procs' = procs \ {k}
    /\ Finish(k, "failed")
    /\ UNCHANGED <<mix, event, con, firing, exec, bridge, stray, unitVars, gateway, faults, auxVars>>

HookExits(k) ==
    /\ phase[k] = "hooking"
    /\ procs' = procs \ {k}
    /\ Move(k, "import")
    /\ UNCHANGED <<mix, event, con, firing, exec, bridge, stray, unitVars, gateway, faults, auxVars>>

(* The archives of context and hook are imported by the unit, and the request is
   retained in _prepared. *)
Import(k) ==
    /\ phase[k] = "import" /\ unit = pin[k]
    /\ prepared' = prepared \cup {k}
    /\ phase' = [phase EXCEPT ![k] = "send"]
    /\ UNCHANGED <<mix, cvars, control, ticket, gens, pin, post, active, lost, stray,
                   unitVars, gateway, faults, auxVars>>

(* Another unit answers, or none, or it refuses. *)
RequestFails(k) ==
    /\ \/ unit # pin[k] /\ UNCHANGED faults
       \/ Fault("prepare")
    /\ Finish(k, "failed")
    /\ UNCHANGED <<mix, cvars, stray, unitVars, gateway, auxVars>>

PrepareFails(k) == phase[k] = "prepare" /\ RequestFails(k)

(* put_archive: too large or too slow, not confirmed, or by another instance. *)
ImportFails(k) == phase[k] = "import" /\ RequestFails(k)

-----------------------------------------------------------------------------
(* The Start request and its answer. *)

Send(k) ==
    /\ phase[k] \in {"send", "resend"} /\ ~ticket[k].late
    /\ gateway /\ unit # 0
    /\ phase' = [phase EXCEPT ![k] = IF @ = "send" THEN "sent" ELSE "resent"]
    /\ post' = [post EXCEPT ![k] = "wire"]
    /\ UNCHANGED <<mix, cvars, control, ticket, gens, pin, prepared, active, lost,
                   stray, unitVars, gateway, faults, auxVars>>

(* Run stops waiting for its request and goes on at p.  A request that has not
   arrived yet may still do so. *)
Abandon(k, p) ==
    /\ phase' = [phase EXCEPT ![k] = p]
    /\ post' = [post EXCEPT ![k] = "none"]
    /\ stray' = stray \cup {m \in {[key |-> k, inst |-> pin[k], gen |-> ticket[k].gen]} :
                              post[k] = "wire"}
    /\ UNCHANGED <<control, ticket, gens, pin, prepared, active, lost>>

(* StartOutcomeUnknown: the ticket keeps its permits and the pinned instance is
   observed; the prompt is not sent again. *)
OutcomeUnknown(k) == Abandon(k, "observe")

(* Where an ambiguous error leads: only the first send is resolved further. *)
Ambiguous(k) ==
    IF phase[k] \in {"send", "sent"} THEN Abandon(k, "resolve") ELSE OutcomeUnknown(k)

(* Nobody listens.  With the gateway down the first send is tried again. *)
ConnectFails(k) ==
    /\ \/ phase[k] = "send" /\ gateway /\ unit = 0
       \/ phase[k] = "resend" /\ (~gateway \/ unit = 0)
    /\ Ambiguous(k)
    /\ UNCHANGED <<mix, cvars, unitVars, gateway, faults, auxVars>>

(* ExecutionService.start behind _WorkspaceAuth: what becomes of a request of
   generation g for instance i at the running unit. *)
Taken(k, i, g) ==
    IF unit = i /\ rec[k] = NoRec
    THEN [rec EXCEPT ![k] = [st |-> "accepted", gen |-> g, started |-> "pending"]]
    ELSE rec

Verdict(k, i, g) ==
    IF unit # i THEN "mismatch"
    ELSE IF rec[k] = NoRec \/ rec[k].gen = g THEN "held" ELSE "conflict"

Arrive(k) ==
    /\ post[k] = "wire" /\ unit # 0
    /\ \/ /\ post' = [post EXCEPT ![k] = Verdict(k, pin[k], ticket[k].gen)]
          /\ rec' = Taken(k, pin[k], ticket[k].gen)
          /\ UNCHANGED faults
       \/ /\ unit = pin[k] /\ rec[k] = NoRec
          /\ Fault("refuse")
          /\ post' = [post EXCEPT ![k] = "refused"]
          /\ UNCHANGED rec
    /\ UNCHANGED <<mix, cvars, control, ticket, gens, phase, pin, prepared, active,
                   lost, stray, unit, made, archive, gateway, auxVars>>

StrayArrives(m) ==
    /\ m \in stray /\ unit # 0
    /\ stray' = stray \ {m}
    /\ rec' = Taken(m.key, m.inst, m.gen)
    /\ UNCHANGED <<mix, cvars, ctlVars, unit, made, archive, gateway, faults, auxVars>>

(* 202 with the receipt of exactly this Start. *)
StartedAnswer(k) ==
    /\ post[k] = "held" /\ unit = pin[k] /\ rec[k].started = "yes"
    /\ ticket' = [ticket EXCEPT ![k].started = "yes"]
    /\ phase' = [phase EXCEPT ![k] = "observe"]
    /\ post' = [post EXCEPT ![k] = "none"]
    /\ UNCHANGED <<mix, cvars, control, gens, pin, prepared, active, lost, stray,
                   unitVars, gateway, faults, auxVars>>

(* Any other status: the first send fails the delivery, the replay proves
   nothing about the first. *)
RejectedAnswer(k) ==
    /\ \/ post[k] \in {"refused", "conflict"}
       \/ post[k] = "held" /\ unit = pin[k] /\ rec[k].started = "failed"
    /\ IF phase[k] = "sent"
       THEN Finish(k, "failed") /\ UNCHANGED stray
       ELSE OutcomeUnknown(k)
    /\ UNCHANGED <<mix, cvars, unitVars, gateway, faults, auxVars>>

(* Another instance answered: it is reported lost (see Recover). *)
MismatchAnswer(k) ==
    /\ post[k] = "mismatch"
    /\ OutcomeUnknown(k)
    /\ UNCHANGED <<mix, cvars, unitVars, gateway, faults, auxVars>>

(* The connection breaks: by a fault, or because the unit is gone. *)
LoseAnswer(k) ==
    /\ post[k] # "none"
    /\ \/ unit # pin[k] /\ UNCHANGED faults
       \/ Fault("answer")
    /\ Ambiguous(k)
    /\ UNCHANGED <<mix, cvars, unitVars, gateway, auxVars>>

(* The request itself is lost. *)
LoseRequest(k) ==
    /\ post[k] = "wire" /\ Fault("request")
    /\ phase' = [phase EXCEPT ![k] = IF @ = "sent" THEN "resolve" ELSE "observe"]
    /\ post' = [post EXCEPT ![k] = "none"]
    /\ UNCHANGED <<mix, cvars, control, ticket, gens, pin, prepared, active, lost,
                   stray, unitVars, gateway, auxVars>>

(* status() of the pinned instance answers for exactly this request: everything
   that identifies it is compared, the deadline too. *)
Reported(k) == gateway /\ unit = pin[k] /\ rec[k].gen = ticket[k].gen

(* An ambiguous Start is resolved against the same instance: its endpoint must
   still be the published one, its record must be of this request, and the
   endpoint must not have changed before the one replay. *)
Resolve(k) ==
    /\ phase[k] = "resolve" /\ active # 0
    /\ IF active = pin[k] THEN Move(k, "check") /\ UNCHANGED stray ELSE OutcomeUnknown(k)
    /\ UNCHANGED <<mix, cvars, unitVars, gateway, faults, auxVars>>

Check(k) ==
    /\ phase[k] = "check"
    /\ IF Reported(k)
       THEN Move(k, "recheck") /\ UNCHANGED stray
       ELSE OutcomeUnknown(k)
    /\ UNCHANGED <<mix, cvars, unitVars, gateway, faults, auxVars>>

(* Mutant: the replay goes to whichever instance is published. *)
RecheckAnyInstance(k) ==
    /\ phase[k] = "recheck" /\ active # 0
    /\ phase' = [phase EXCEPT ![k] = "resend"]
    /\ pin' = [pin EXCEPT ![k] = active]
    /\ UNCHANGED <<mix, cvars, control, ticket, gens, post, prepared, active, lost, stray,
                   unitVars, gateway, faults, auxVars>>

Recheck(k) ==
    /\ phase[k] = "recheck" /\ active # 0
    /\ IF active = pin[k] THEN Move(k, "resend") /\ UNCHANGED stray ELSE OutcomeUnknown(k)
    /\ UNCHANGED <<mix, cvars, unitVars, gateway, faults, auxVars>>

(* The deadline ends every wait once a Start is due.  The request computes its
   time-out itself, so one that is due too late counts as ambiguous although
   nothing was sent. *)
SendTimesOut(k) ==
    /\ phase[k] \in {"send", "sent", "resolve", "check", "recheck", "resend", "resent"}
    /\ ticket[k].late
    /\ OutcomeUnknown(k)
    /\ UNCHANGED <<mix, cvars, unitVars, gateway, faults, auxVars>>

-----------------------------------------------------------------------------
(* _observe_run, for deliveries of this control and for recovered ones. *)

(* _record_run, with the outcome that is known by then. *)
Record(k, how) == outcome' = [outcome EXCEPT ![k] = @ \cup {how}]

(* The pinned instance, still published, reports the end of exactly this run. *)
PollFinal(k) ==
    /\ phase[k] = "observe" /\ active = pin[k]
    /\ Reported(k) /\ rec[k].st \in Finals
    /\ Finish(k, "ok")
    /\ Record(k, "known")
    /\ UNCHANGED <<mix, cvars, stray, unitVars, gateway, faults, prompts, begun>>

(* check_published_owner *)
OwnerLost(k) ==
    /\ phase[k] = "observe"
    /\ pin[k] \in lost \/ (active # 0 /\ active # pin[k])
    /\ Finish(k, "failed")
    /\ Record(k, "unknown")
    /\ UNCHANGED <<mix, cvars, stray, unitVars, gateway, faults, prompts, begun>>

(* The unit cancels a run that is not over. *)
Cancelled(r) ==
    IF r.st \in {"accepted", "running"}
    THEN [r EXCEPT !.st = "cancelled", !.started = IF @ = "pending" THEN "failed" ELSE @]
    ELSE r

(* One cancel at the deadline; nobody cares whether it arrives. *)
SendCancel(k) ==
    /\ phase[k] = "observe" /\ ticket[k].late /\ ~ticket[k].cancelled
    /\ ticket' = [ticket EXCEPT ![k].cancelled = TRUE]
    /\ \/ UNCHANGED rec
       \/ /\ unit = pin[k]
          /\ rec' = [rec EXCEPT ![k] = Cancelled(@)]
    /\ UNCHANGED <<mix, cvars, control, gens, phase, pin, post, prepared, active, lost,
                   stray, unit, made, archive, gateway, faults, auxVars>>

-----------------------------------------------------------------------------
(* The unit (module Execution has the run itself). *)

RunStarts(k) ==
    /\ rec[k].st = "accepted"
    /\ rec' = [rec EXCEPT ![k].st = "running", ![k].started = "yes"]
    /\ prompts' = [prompts EXCEPT ![k] = @ \cup {<<unit, rec[k].gen>>}]
    /\ begun' = begun \cup {k}
    /\ UNCHANGED <<mix, cvars, ctlVars, stray, unit, made, archive, gateway, faults, outcome>>

(* The gate publishes Started and skips the run, or preparation fails. *)
RunEndsEarly(k) ==
    /\ rec[k].st = "accepted"
    /\ \E how \in {<<"skipped", "yes">>, <<"failed", "failed">>} :
          /\ rec' = [rec EXCEPT ![k].st = how[1], ![k].started = how[2]]
          /\ begun' = IF how[2] = "yes" THEN begun \cup {k} ELSE begun
    /\ UNCHANGED <<mix, cvars, ctlVars, stray, unit, made, archive, gateway, faults, prompts, outcome>>

(* The native send is ambiguous: Started fails, although the prompt may have been
   taken; or the settlement of a run is lost.  Its record stays unknown. *)
RunUncertain(k) ==
    /\ rec[k].st \in {"accepted", "running"} /\ Fault("uncertain")
    /\ rec' = [rec EXCEPT ![k].st = "unknown",
                   ![k].started = IF @ = "pending" THEN "failed" ELSE @]
    /\ prompts' = [prompts EXCEPT ![k] = @ \cup {<<unit, rec[k].gen>>}]
    /\ UNCHANGED <<mix, cvars, ctlVars, stray, unit, made, archive, gateway, begun, outcome>>

RunEnds(k) ==
    /\ rec[k].st = "running"
    /\ rec' = [rec EXCEPT ![k].st = "completed"]
    /\ UNCHANGED <<mix, cvars, ctlVars, stray, unit, made, archive, gateway, faults, auxVars>>

-----------------------------------------------------------------------------
(* The Workspace manager and the host, as modules Workspaces and Hosting
   describe them: one unit at a time, published while it is known. *)

Gone(k) == IF rec[k].st \in Finals THEN rec[k] ELSE archive[k]

UnitStops ==
    /\ rec' = [k \in Keys |-> NoRec]
    /\ archive' = [k \in Keys |-> Gone(k)]

UnitDies ==
    /\ unit # 0 /\ Fault("die")
    /\ unit' = 0 /\ UnitStops
    /\ UNCHANGED <<mix, cvars, ctlVars, stray, made, gateway, auxVars>>

(* Restarted behind its endpoint, with a new instance id. *)
UnitRestarts ==
    /\ unit # 0 /\ made < MaxInst /\ Fault("restart")
    /\ unit' = made + 1 /\ made' = made + 1 /\ UnitStops
    /\ UNCHANGED <<mix, cvars, ctlVars, stray, gateway, auxVars>>

(* report_lost and recover: what runs instead is retired first. *)
Recover ==
    /\ active # 0 /\ unit # active
    /\ lost' = lost \cup {active}
    /\ active' = 0 /\ unit' = 0 /\ UnitStops
    /\ UNCHANGED <<mix, cvars, control, ticket, gens, phase, pin, post, prepared, stray,
                   made, gateway, faults, auxVars>>

Activate ==
    /\ control = "serving" /\ active = 0 /\ unit = 0 /\ made < MaxInst
    /\ \E k \in Keys : phase[k] \in {"ensure", "resolve", "recheck"}
    /\ unit' = made + 1 /\ made' = made + 1 /\ active' = made + 1
    /\ UNCHANGED <<mix, cvars, control, ticket, gens, phase, pin, post, prepared, lost,
                   stray, rec, archive, gateway, faults, auxVars>>

(* The lifecycle closes a Workspace without work. *)
CloseIdle ==
    /\ control = "serving" /\ active # 0 /\ unit = active
    /\ \A k \in Keys : phase[k] = "idle" /\ rec[k].st \in Finals \cup {"none"}
    /\ active' = 0 /\ unit' = 0 /\ UnitStops
    /\ UNCHANGED <<mix, cvars, control, ticket, gens, phase, pin, post, prepared, lost,
                   stray, made, gateway, faults, auxVars>>

(* The host reports its gateway down, and later up again: every Start that
   waits for it goes on. *)
GatewayFails ==
    /\ gateway /\ Fault("gateway")
    /\ gateway' = FALSE
    /\ UNCHANGED <<mix, cvars, ctlVars, stray, unitVars, auxVars>>

GatewayReturns ==
    /\ ~gateway
    /\ gateway' = TRUE
    /\ UNCHANGED <<mix, cvars, ctlVars, stray, unitVars, faults, auxVars>>

-----------------------------------------------------------------------------
(* The control process. *)

(* Everything in memory is gone: the process crashes, or it ends after a shutdown.
   Assumed here: a request on one of its connections does not outlive them until
   the next control has adopted the unit. *)
CrashControl ==
    /\ \/ control # "down" /\ Fault("crash")
       \/ control = "stopping" /\ UNCHANGED faults
    /\ control' = "down"
    /\ ticket' = [k \in Keys |-> NoTicket]
    /\ phase' = [k \in Keys |-> "idle"]
    /\ pin' = [k \in Keys |-> 0]
    /\ post' = [k \in Keys |-> "none"]
    /\ stray' = {}
    /\ prepared' = {} /\ active' = 0 /\ lost' = {}
    /\ UNCHANGED <<mix, gens, unitVars, gateway, auxVars>>

(* run_control on SIGTERM: ingress stops first, admitted work goes on. *)
StopControl ==
    /\ control = "serving" /\ Fault("stop")
    /\ control' = "stopping"
    /\ UNCHANGED <<mix, ticket, gens, phase, pin, post, prepared, active, lost,
                   stray, unitVars, gateway, auxVars>>

BootControl ==
    /\ control = "down"
    /\ control' = "adopting"
    /\ UNCHANGED <<mix, cvars, ticket, gens, phase, pin, post, prepared, active, lost,
                   stray, unitVars, gateway, faults, auxVars>>

(* Mutant: only a run that has started is recovered. *)
RecoveredIfRunning(k) == rec[k].st = "running"

Recovered(k) == rec[k].st \in {"accepted", "running", "unknown"}

(* adopt() and reconnect_workspace: a unit that runs is published, and every run
   it has not finished is recovered and observed; its Started stays unknown. *)
Adopt ==
    /\ control = "adopting"
    /\ control' = "serving"
    /\ active' = unit
    /\ ticket' = [k \in Keys |->
          IF Recovered(k)
          THEN [NoTicket EXCEPT !.owner = "recovered", !.gen = rec[k].gen, !.started = "failed"]
          ELSE NoTicket]
    /\ phase' = [k \in Keys |-> IF Recovered(k) THEN "observe" ELSE "idle"]
    /\ pin' = [k \in Keys |-> IF Recovered(k) THEN unit ELSE 0]
    /\ UNCHANGED <<mix, gens, post, prepared, lost, stray, unitVars, gateway,
                   faults, auxVars>>

-----------------------------------------------------------------------------
(* What the runner of a delivery does by itself. *)
RunnerStep(k) ==
    \/ Begin(k) \/ Expire(k) \/ Ensure(k) \/ StartTimesOut(k)
    \/ RestoreSession(k) \/ HookStarts(k) \/ HookFails(k) \/ HookExits(k) \/ Import(k)
    \/ PrepareFails(k) \/ ImportFails(k) \/ Send(k) \/ ConnectFails(k) \/ StartedAnswer(k)
    \/ RejectedAnswer(k) \/ MismatchAnswer(k) \/ Resolve(k) \/ Check(k)
    \/ Recheck(k) \/ SendTimesOut(k) \/ PollFinal(k) \/ OwnerLost(k) \/ SendCancel(k)

UnitStep(k) == RunStarts(k) \/ RunEndsEarly(k) \/ RunUncertain(k) \/ RunEnds(k)

DeliveryStep(k) ==
    \/ DeadlinePasses(k) \/ RunnerStep(k) \/ Arrive(k)
    \/ LoseAnswer(k) \/ LoseRequest(k) \/ UnitStep(k)

SystemStep ==
    \/ \E m \in stray : StrayArrives(m)
    \/ UnitDies \/ UnitRestarts \/ Recover \/ Activate \/ CloseIdle
    \/ GatewayFails \/ GatewayReturns \/ BootControl

=============================================================================
