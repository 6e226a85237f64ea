------------------------------ MODULE Execution ------------------------------
(***************************************************************************)
(* execution/service.py with sessions.py, the session and archive          *)
(* operations of snapshots.py and app.py, and the part of                  *)
(* engine/opencode.py the service relies on.                               *)
(*                                                                         *)
(* One event loop runs, for every invocation, an owner task (_run_start),  *)
(* a deadline watch, a settle task and a retained cleanup with two tasks   *)
(* of its own.  They race for one session lock; an action is what runs     *)
(* between two awaits.  A deadline may pass, and a bounded wait may run    *)
(* out, at any moment.  The native opencode process answers, ends, dies    *)
(* or ignores us on its own account.                                       *)
(***************************************************************************)
EXTENDS Naturals, Sequences, FiniteSets, SequencesExt

CONSTANTS
    Runs,         \* invocation ids
    Sessions,     \* session refs of this Workspace
    SessionOf,    \* the session of a run
    Setups,       \* deployments: MAX_RETAINED_RUNS, whether hooks.sessionStart is
                  \* configured, runs and session operations the harness may ask for
    Op, NoOne     \* holders of a session lock that are not runs

ASSUME SessionOfAssumption == SessionOf \in [Runs -> Sessions]
ASSUME SetupsAssumption ==
    \A c \in Setups : /\ c.retained \in Nat \ {0} /\ c.gate \in BOOLEAN /\ c.runs \subseteq Runs
                      /\ c.ops \subseteq {"export", "suspend", "retire", "resume", "hydrate"}
ASSUME HoldersAssumption == Op # NoOne /\ Op \notin Runs /\ NoOne \notin Runs

VARIABLES
    config,   \* the deployment, which does not change
    inv,      \* _invocations: run |-> its _Invocation, NotRetained when absent
    lock,     \* session |-> holder of its asyncio.Lock
    queue,    \* session |-> waiters of that lock, first in first out
    files,    \* session |-> known to SessionRegistry, start marker in its HOME
    native,   \* session |-> state of its _NativeSession
    work,     \* run |-> what the native side does with its prompt
    op,       \* session |-> the operation under way and where it is
    frozen,   \* what set _workspace_frozen: "no", "export" or "handoff"
    closing   \* how far close() is: "open", "joining", "failed", "closed"

tasks == <<inv, lock, queue>>
vars == <<config, tasks, files, native, work, op, frozen, closing>>

Owners == {"none", "fresh", "lock", "hook", "probe", "refresh", "setup", "posting", "done"}
RunStates == {"preparing", "sending", "running", "completed", "failed", "cancelled",
              "skipped", "unknown"}
InvocationType ==
    [owner : Owners,              \* where the owner task is
     cancelling : BOOLEAN,        \* owner.cancel() was called and not yet delivered
     expired : BOOLEAN,           \* deadline_at has passed
     terminal : BOOLEAN,
     reported : BOOLEAN,          \* terminal_at is set
     state : RunStates,
     started : {"pending", "ok", "error", "cancelled"},
     watch : {"armed", "off"},
     settle : {"none", "waiting", "done"},
     cleanup : {"none", "claimed", "observing", "done"},
     target : RunStates,          \* the state a confirmed cleanup reports
     engineCancel : {"none", "halting", "ok", "failed"},
     ownerStop : {"none", "joining", "ok", "failed"},
     registered : BOOLEAN,        \* the engine has an _InvocationState for it
     input : BOOLEAN,             \* ... with the input_id of a receipt
     reservation : BOOLEAN]

NewInvocation ==
    [owner |-> "fresh", cancelling |-> FALSE, expired |-> FALSE, terminal |-> FALSE,
     reported |-> FALSE, state |-> "preparing", started |-> "pending", watch |-> "armed",
     settle |-> "none", cleanup |-> "none", target |-> "unknown", engineCancel |-> "none",
     ownerStop |-> "none", registered |-> FALSE, input |-> FALSE, reservation |-> FALSE]
NotRetained == [NewInvocation EXCEPT !.owner = "none", !.watch = "off"]

Idle == [kind |-> "none", pc |-> "idle"]
OpType == [kind : config.ops \union {"none"},
           pc : {"idle", "queued", "stopping", "packing", "deleting", "launching"}]

(* One type invariant: the shape of every task record and of the locks. *)
TypeOK ==
    /\ config \in Setups
    /\ inv \in [Runs -> InvocationType]
    /\ lock \in [Sessions -> Runs \union {Op, NoOne}]
    /\ queue \in [Sessions -> Seq(Runs \union {Op})]
    /\ files \in [Sessions -> [known : BOOLEAN, marked : BOOLEAN]]
    /\ native \in [Sessions -> [alive : BOOLEAN, clean : BOOLEAN, halted : BOOLEAN]]
    /\ work \in [Runs -> {"none", "posted", "running", "ended"}]
    /\ op \in [Sessions -> OpType]
    /\ frozen \in {"no", "export", "handoff"}
    /\ closing \in {"open", "joining", "failed", "closed"}

Init ==
    /\ config \in Setups
    /\ inv = [r \in Runs |-> NotRetained]
    /\ lock = [s \in Sessions |-> NoOne]
    /\ queue = [s \in Sessions |-> <<>>]
    /\ files = [s \in Sessions |-> [known |-> FALSE, marked |-> FALSE]]
    \* A session the engine has never seen suspends and retires without proof.
    /\ native = [s \in Sessions |-> [alive |-> FALSE, clean |-> TRUE, halted |-> TRUE]]
    /\ work = [r \in Runs |-> "none"]
    /\ op = [s \in Sessions |-> Idle]
    /\ frozen = "no"
    /\ closing = "open"

Retained == {r \in Runs : inv[r].owner # "none"}
Killed == [alive |-> FALSE, clean |-> FALSE, halted |-> TRUE]
(* stop_cleanly() on a live process proves a clean exit, or kills it with or
   without confirmation; a dead one keeps the proof it left. *)
StopOutcomes(n) ==
    IF n.alive THEN {[Killed EXCEPT !.clean = TRUE], Killed, [n EXCEPT !.clean = FALSE]} ELSE {n}
RunsOf(s) == {r \in Retained : SessionOf[r] = s}
AtWork(r) == work[r] \in {"posted", "running"}

------------------------------------------------------------------------------
(* What the helpers do to one invocation.                                  *)

Answer(v, how) == IF v.started = "pending" THEN how ELSE v.started

FailBeforeStarted(v) ==
    [v EXCEPT !.terminal = TRUE, !.reported = TRUE, !.state = "failed", !.watch = "off",
              !.started = Answer(v, "error")]

(* Mutant: a run without engine keeps a state of its own. *)
FinishUnlisted(v, state) ==
    [v EXCEPT !.terminal = TRUE, !.reported = TRUE, !.state = "gated", !.watch = "off",
              !.started = Answer(v, "ok")]

FinishWithoutEngine(v, state) ==
    [v EXCEPT !.terminal = TRUE, !.reported = TRUE, !.state = state, !.watch = "off",
              !.started = Answer(v, "ok")]

EnsureCleanup(v, state) ==
    IF v.cleanup # "none" THEN v
    ELSE [v EXCEPT !.terminal = TRUE, !.watch = "off", !.cleanup = "claimed", !.target = state]

ClaimExplicitCancel(v) ==
    EnsureCleanup([v EXCEPT !.started = Answer(v, "cancelled")], "cancelled")

TimeoutCancel(v) ==
    IF v.terminal THEN [v EXCEPT !.watch = "off"]
    ELSE EnsureCleanup([v EXCEPT !.started = Answer(v, "error")], "failed")

(* Incomplete proof that a run is over: session_info's "uncertain". *)
Uncertain(v) ==
    \/ v.state = "unknown"
    \/ v.cleanup \in {"claimed", "observing"}
    \/ v.engineCancel = "halting"
    \/ v.ownerStop = "joining"

Busy(v) == ~v.terminal \/ v.reservation \/ Uncertain(v)

(* Mutant: any reported run makes room. *)
EvictableOnceReported(v) == v.terminal /\ v.reported

(* _reserve_capacity: the window of a retained record may be over or not. *)
Evictable(v) == v.terminal /\ v.reported /\ ~v.reservation /\ ~Uncertain(v)

SetInv(r, v) == inv' = [inv EXCEPT ![r] = v]

(* _release_session_lock: a run gives back the lock it recorded, once. *)
Release(r, v) ==
    /\ SetInv(r, [v EXCEPT !.reservation = FALSE])
    /\ lock' = IF v.reservation THEN [lock EXCEPT ![SessionOf[r]] = NoOne] ELSE lock

(* The owner gives up with outcome v; once a cleanup has claimed the run,
   outcome and release are the cleanup's. *)
OwnerEnds(r, v) ==
    IF inv[r].terminal
    THEN SetInv(r, [inv[r] EXCEPT !.owner = "done"]) /\ UNCHANGED lock
    ELSE Release(r, [v EXCEPT !.owner = "done"])

Owner(r, at) == inv[r].owner = at /\ ~inv[r].cancelling

------------------------------------------------------------------------------
(* start() and the owner task, up to the native send.                      *)

(* A start of a retained run only joins its future.  At capacity one record
   whose window is over makes room, or the start is refused. *)
Start(r) ==
    /\ frozen = "no" /\ closing = "open"
    /\ r \in config.runs \ Retained
    /\ \/ /\ Cardinality(Retained) < config.retained
          /\ SetInv(r, NewInvocation)
       \/ /\ Cardinality(Retained) >= config.retained
          /\ \E e \in Retained :
                /\ Evictable(inv[e])
                /\ inv' = [inv EXCEPT ![e] = NotRetained, ![r] = NewInvocation]
    /\ UNCHANGED <<config, lock, queue, files, native, work, op, frozen, closing>>

(* Nothing reads the deadline of a run that is over. *)
DeadlinePasses(r) ==
    /\ r \in Retained /\ ~inv[r].expired
    /\ ~inv[r].terminal \/ inv[r].owner # "done"
    /\ inv' = [inv EXCEPT ![r].expired = TRUE]
    /\ UNCHANGED <<config, lock, queue, files, native, work, op, frozen, closing>>

(* Mutant: an owner that finds its run claimed forgets that it has the lock. *)
ReservedUnrecorded(r) ==
    /\ SetInv(r, [inv[r] EXCEPT !.owner = IF inv[r].terminal THEN "done" ELSE "hook",
                                !.reservation = ~inv[r].terminal])
    /\ lock' = [lock EXCEPT ![SessionOf[r]] = r]
    /\ UNCHANGED files

(* What the owner does with the lock, until it next waits.  Building the
   native invocation may fail; nothing has been sent then. *)
Reserved(r) ==
    LET s == SessionOf[r]
        v == [inv[r] EXCEPT !.reservation = TRUE] IN
    \/ /\ v.terminal
       /\ SetInv(r, [v EXCEPT !.owner = "done"])
       /\ lock' = [lock EXCEPT ![s] = r]
       /\ UNCHANGED files
    \/ /\ ~v.terminal /\ v.expired
       /\ SetInv(r, [FailBeforeStarted(inv[r]) EXCEPT !.owner = "done"])
       /\ UNCHANGED <<lock, files>>
    \/ /\ ~v.terminal /\ ~v.expired
       /\ files' = [files EXCEPT ![s].known = TRUE]
       /\ \/ /\ config.gate /\ ~files[s].marked
             /\ SetInv(r, [v EXCEPT !.owner = "hook"])
             /\ lock' = [lock EXCEPT ![s] = r]
          \/ /\ config.gate => files[s].marked
             /\ SetInv(r, [v EXCEPT !.owner = "probe", !.state = "sending"])
             /\ lock' = [lock EXCEPT ![s] = r]
          \/ /\ config.gate => files[s].marked
             /\ SetInv(r, [FailBeforeStarted(inv[r]) EXCEPT !.owner = "done"])
             /\ UNCHANGED lock

OwnerBegins(r) ==
    LET s == SessionOf[r] IN
    /\ Owner(r, "fresh")
    /\ \/ /\ inv[r].expired
          /\ OwnerEnds(r, FailBeforeStarted(inv[r]))
          /\ UNCHANGED <<queue, files>>
       \/ /\ ~inv[r].expired /\ lock[s] = NoOne /\ queue[s] = <<>>
          /\ Reserved(r)
          /\ UNCHANGED queue
       \/ /\ ~inv[r].expired /\ ~(lock[s] = NoOne /\ queue[s] = <<>>)
          /\ queue' = [queue EXCEPT ![s] = Append(@, r)]
          /\ SetInv(r, [inv[r] EXCEPT !.owner = "lock"])
          /\ UNCHANGED <<lock, files>>
    /\ UNCHANGED <<config, native, work, op, frozen, closing>>

OwnerAcquires(r) ==
    LET s == SessionOf[r] IN
    /\ Owner(r, "lock")
    /\ lock[s] = NoOne /\ queue[s] # <<>> /\ Head(queue[s]) = r
    /\ queue' = [queue EXCEPT ![s] = Tail(@)]
    /\ Reserved(r)
    /\ UNCHANGED <<config, native, work, op, frozen, closing>>

OwnerLockTimesOut(r) ==
    /\ Owner(r, "lock") /\ inv[r].expired
    /\ queue' = [queue EXCEPT ![SessionOf[r]] = RemoveFirst(@, r)]
    /\ OwnerEnds(r, FailBeforeStarted(inv[r]))
    /\ UNCHANGED <<config, files, native, work, op, frozen, closing>>

(* sessionStart is the gate of a session that has had no receipt yet. *)
OwnerGate(r) ==
    /\ Owner(r, "hook")
    /\ \/ /\ ~inv[r].terminal
          /\ SetInv(r, [inv[r] EXCEPT !.owner = "probe", !.state = "sending"])
          /\ UNCHANGED lock
       \/ \E state \in {"skipped", "failed"} : OwnerEnds(r, FinishWithoutEngine(inv[r], state))
       \/ OwnerEnds(r, FailBeforeStarted(inv[r]))
    /\ UNCHANGED <<config, queue, files, native, work, op, frozen, closing>>

(* The MCP probe, and engine.start() up to its first await: it registers the
   run before it waits for anything.  A dead process is launched, a live one
   with another configuration is stopped first. *)
OwnerProbed(r) ==
    LET s == SessionOf[r] IN
    /\ Owner(r, "probe")
    /\ \/ /\ OwnerEnds(r, FinishWithoutEngine(inv[r], "failed"))
          /\ UNCHANGED native
       \/ /\ inv[r].expired
          /\ OwnerEnds(r, FailBeforeStarted(inv[r]))
          /\ UNCHANGED native
       \/ /\ ~inv[r].expired
          /\ \E at \in IF native[s].alive THEN {"refresh", "setup"} ELSE {"setup"} :
                SetInv(r, [inv[r] EXCEPT !.owner = at, !.registered = TRUE, !.input = FALSE])
          /\ native' = IF native[s].alive THEN native
                       ELSE [native EXCEPT ![s] = [@ EXCEPT !.clean = FALSE, !.halted = FALSE]]
          /\ UNCHANGED lock
    /\ UNCHANGED <<config, queue, files, work, op, frozen, closing>>

(* A cancelled owner.  The hook turns the cancellation into a failure that
   finds the run claimed, a launch kills what it launched; everywhere else it
   just ends the task. *)
OwnerCancelled(r) ==
    LET s == SessionOf[r] IN
    /\ inv[r].cancelling
    /\ inv[r].owner \notin {"none", "done"}
    /\ SetInv(r, [inv[r] EXCEPT !.owner = "done", !.cancelling = FALSE])
    /\ queue' = [queue EXCEPT ![s] = RemoveFirst(@, r)]
    /\ native' \in {native} \union
          IF inv[r].owner = "setup" THEN {[native EXCEPT ![s] = Killed]} ELSE {}
    /\ UNCHANGED <<config, lock, files, work, op, frozen, closing>>

------------------------------------------------------------------------------
(* engine.start() after its first await, and what its end means.           *)

EngineRefreshes(r) ==
    LET s == SessionOf[r] IN
    /\ Owner(r, "refresh")
    /\ native' = [native EXCEPT ![s] = [alive |-> FALSE, clean |-> FALSE, halted |-> FALSE]]
    /\ SetInv(r, [inv[r] EXCEPT !.owner = "setup"])
    /\ UNCHANGED <<config, lock, queue, files, work, op, frozen, closing>>

EngineLaunches(r) ==
    LET s == SessionOf[r] IN
    /\ Owner(r, "setup") /\ ~native[s].alive
    /\ native' = [native EXCEPT ![s].alive = TRUE]
    /\ UNCHANGED <<config, tasks, files, work, op, frozen, closing>>

EnginePosts(r) ==
    /\ Owner(r, "setup") /\ native[SessionOf[r]].alive
    /\ SetInv(r, [inv[r] EXCEPT !.owner = "posting"])
    /\ work' = [work EXCEPT ![r] = "posted"]
    /\ UNCHANGED <<config, lock, queue, files, native, op, frozen, closing>>

(* _await_native_readiness kills a process that is not ready in time; other
   failures leave it as it is. *)
SetupFailures(n) == {n, Killed}

(* A launch or a setup request failed: nothing was sent, and the process may
   have been killed, with or without proof. *)
EngineSetupFails(r) ==
    LET s == SessionOf[r] IN
    /\ inv[r].owner \in {"refresh", "setup"} /\ ~inv[r].cancelling
    /\ OwnerEnds(r, FailBeforeStarted(inv[r]))
    /\ \E n \in SetupFailures(native[s]) : native' = [native EXCEPT ![s] = n]
    /\ UNCHANGED <<config, queue, files, work, op, frozen, closing>>

(* A status other than 200 means the prompt was not taken. *)
EngineRejects(r) ==
    /\ Owner(r, "posting") /\ work[r] = "posted"
    /\ work' = [work EXCEPT ![r] = "none"]
    /\ OwnerEnds(r, FailBeforeStarted(inv[r]))
    /\ UNCHANGED <<config, queue, files, native, op, frozen, closing>>

(* Mutant: a lost answer counts as a rejection. *)
SendPresumedLost(r) ==
    /\ inv[r].owner \in {"refresh", "setup", "posting"} /\ ~inv[r].cancelling
    /\ OwnerEnds(r, FailBeforeStarted(inv[r]))
    /\ UNCHANGED <<config, queue, files, native, work, op, frozen, closing>>

(* _fail_after_possible_send when the answer was lost or unreadable, or the
   deadline or the launch timed out inside engine.start(): cleanup decides. *)
SendUnconfirmed(r) ==
    /\ inv[r].owner \in {"refresh", "setup", "posting"} /\ ~inv[r].cancelling
    /\ \E state \in {"unknown", "failed"} :
          /\ state = "unknown" => inv[r].owner = "posting"
          /\ state = "failed" => inv[r].expired \/ inv[r].owner = "setup"
          /\ IF inv[r].terminal THEN SetInv(r, [inv[r] EXCEPT !.owner = "done"])
             ELSE SetInv(r, [EnsureCleanup(inv[r], state) EXCEPT
                                !.owner = "done", !.started = Answer(inv[r], "error")])
    /\ UNCHANGED <<config, lock, queue, files, native, work, op, frozen, closing>>

(* The receipt: the marker and the input id are kept even when a cleanup
   already claimed the run, Started is not published then. *)
EngineReceipt(r) ==
    /\ Owner(r, "posting") /\ work[r] \in {"running", "ended"}
    /\ files' = [files EXCEPT ![SessionOf[r]].marked = TRUE]
    /\ IF inv[r].terminal
       THEN SetInv(r, [inv[r] EXCEPT !.owner = "done", !.input = TRUE])
       ELSE SetInv(r, [inv[r] EXCEPT !.owner = "done", !.input = TRUE, !.state = "running",
                                     !.started = Answer(inv[r], "ok"), !.settle = "waiting"])
    /\ UNCHANGED <<config, lock, queue, native, work, op, frozen, closing>>

------------------------------------------------------------------------------
(* The native process.  A prompt in flight may be taken after its sender    *)
(* gave up; tools of a dead leader may run on until they are killed.       *)

NativeTakes(r) ==
    /\ work[r] = "posted" /\ native[SessionOf[r]].alive
    /\ work' = [work EXCEPT ![r] = "running"]
    /\ UNCHANGED <<config, tasks, files, native, op, frozen, closing>>

NativeEnds(r) ==
    /\ work[r] = "running"
    /\ work' = [work EXCEPT ![r] = "ended"]
    /\ UNCHANGED <<config, tasks, files, native, op, frozen, closing>>

NativeDies(s) ==
    /\ native[s].alive
    /\ native' = [native EXCEPT ![s].alive = FALSE]
    /\ work' = [r \in Runs |-> IF SessionOf[r] = s /\ work[r] = "posted" THEN "none" ELSE work[r]]
    /\ UNCHANGED <<config, tasks, files, op, frozen, closing>>

(* Mutant: a late settlement does not look whether the run was claimed. *)
SettlesAnyway(r) ==
    /\ inv[r].settle = "waiting" /\ work[r] = "ended"
    /\ native[SessionOf[r]].alive \/ native[SessionOf[r]].halted
    /\ Release(r, [inv[r] EXCEPT !.settle = "done", !.terminal = TRUE, !.reported = TRUE,
                                 !.state = "completed", !.watch = "off"])
    /\ UNCHANGED <<config, queue, files, native, work, op, frozen, closing>>

(* wait_settled returned: the terminal event of this input was seen and the
   inbox, or a confirmed halt, proves it is over. *)
Settles(r) ==
    /\ inv[r].settle = "waiting" /\ work[r] = "ended"
    /\ native[SessionOf[r]].alive \/ native[SessionOf[r]].halted
    /\ IF inv[r].terminal
       THEN SetInv(r, [inv[r] EXCEPT !.settle = "done"]) /\ UNCHANGED lock
       ELSE \E outcome \in {"completed", "failed", "cancelled"} :
               Release(r, [inv[r] EXCEPT !.settle = "done", !.terminal = TRUE, !.reported = TRUE,
                                         !.state = outcome, !.watch = "off"])
    /\ UNCHANGED <<config, queue, files, native, work, op, frozen, closing>>

(* wait_settled raised: the event stream was lost, or settlement could not be
   confirmed. *)
SettlementLost(r) ==
    /\ inv[r].settle = "waiting"
    /\ IF inv[r].terminal
       THEN SetInv(r, [inv[r] EXCEPT !.settle = "done"])
       ELSE SetInv(r, [EnsureCleanup(inv[r], "unknown") EXCEPT !.settle = "done"])
    /\ UNCHANGED <<config, lock, queue, files, native, work, op, frozen, closing>>

------------------------------------------------------------------------------
(* The deadline watch, cancel(), and the one retained cleanup.             *)

(* Mutant: only a run that has started is watched. *)
WatchOnlyRunning(r) ==
    /\ inv[r].watch = "armed" /\ inv[r].state = "running"
    /\ SetInv(r, TimeoutCancel(inv[r]))
    /\ UNCHANGED <<config, lock, queue, files, native, work, op, frozen, closing>>

(* Fires at the deadline, or earlier when a running engine makes no progress. *)
WatchFires(r) ==
    /\ inv[r].watch = "armed"
    /\ inv[r].expired \/ inv[r].state = "running"
    /\ SetInv(r, TimeoutCancel(inv[r]))
    /\ UNCHANGED <<config, lock, queue, files, native, work, op, frozen, closing>>

Cancel(r) ==
    /\ r \in Retained
    /\ inv[r].cleanup = "none" /\ ~inv[r].terminal
    /\ SetInv(r, IF inv[r].expired THEN TimeoutCancel(inv[r]) ELSE ClaimExplicitCancel(inv[r]))
    /\ UNCHANGED <<config, lock, queue, files, native, work, op, frozen, closing>>

(* _confirm_halt_and_release makes its two tasks in one step, so they run one
   after the other: engine.cancel() finds the run or has nothing to do, then
   _stop_owner cancels an owner that is not done. *)
CleanupEnters(r) ==
    LET v == inv[r]
        live == v.owner # "done" IN
    /\ v.cleanup = "claimed"
    /\ SetInv(r, [v EXCEPT !.cleanup = "observing",
                           !.engineCancel = IF v.registered THEN "halting" ELSE "ok",
                           !.ownerStop = IF live THEN "joining" ELSE "ok",
                           !.cancelling = live])
    /\ UNCHANGED <<config, lock, queue, files, native, work, op, frozen, closing>>

(* Interrupt, delete and wait were acknowledged and the inbox is empty; or
   the run never got an input id and its session is known to be halted. *)
EngineCancelGraceful(r) ==
    LET n == native[SessionOf[r]] IN
    /\ inv[r].engineCancel = "halting"
    /\ n.halted \/ (inv[r].input /\ n.alive)
    /\ SetInv(r, [inv[r] EXCEPT !.engineCancel = "ok"])
    /\ work' = IF AtWork(r) /\ inv[r].input THEN [work EXCEPT ![r] = "ended"] ELSE work
    /\ UNCHANGED <<config, lock, queue, files, native, op, frozen, closing>>

(* The armed force: the whole process group of the session is killed and
   seen to be gone. *)
EngineCancelForced(r) ==
    LET s == SessionOf[r] IN
    /\ inv[r].engineCancel = "halting"
    /\ SetInv(r, [inv[r] EXCEPT !.engineCancel = "ok"])
    /\ native' = [native EXCEPT ![s] = Killed]
    /\ work' = [q \in Runs |-> IF SessionOf[q] = s /\ AtWork(q) THEN "ended" ELSE work[q]]
    /\ UNCHANGED <<config, lock, queue, files, op, frozen, closing>>

EngineCancelFails(r) ==
    /\ inv[r].engineCancel = "halting"
    /\ SetInv(r, [inv[r] EXCEPT !.engineCancel = "failed"])
    /\ native' = [native EXCEPT ![SessionOf[r]] = [@ EXCEPT !.clean = FALSE, !.halted = FALSE]]
    /\ UNCHANGED <<config, lock, queue, files, work, op, frozen, closing>>

(* The owner ended within the budget, or it did not. *)
OwnerStops(r) ==
    /\ inv[r].ownerStop = "joining"
    /\ \/ inv[r].owner = "done" /\ SetInv(r, [inv[r] EXCEPT !.ownerStop = "ok"])
       \/ inv[r].owner # "done" /\ SetInv(r, [inv[r] EXCEPT !.ownerStop = "failed"])
    /\ UNCHANGED <<config, lock, queue, files, native, work, op, frozen, closing>>

CleanupConfirms(r) ==
    /\ inv[r].cleanup = "observing"
    /\ inv[r].engineCancel = "ok" /\ inv[r].ownerStop = "ok"
    /\ Release(r, [inv[r] EXCEPT !.cleanup = "done", !.state = inv[r].target, !.reported = TRUE])
    /\ UNCHANGED <<config, queue, files, native, work, op, frozen, closing>>

(* A task failed, or the observation expired with one unresolved: the run is
   unknown and keeps its reservation. *)
CleanupUncertain(r) ==
    /\ inv[r].cleanup = "observing"
    /\ ~(inv[r].engineCancel = "ok" /\ inv[r].ownerStop = "ok")
    /\ SetInv(r, [inv[r] EXCEPT !.cleanup = "done", !.state = "unknown", !.reported = TRUE])
    /\ UNCHANGED <<config, lock, queue, files, native, work, op, frozen, closing>>

------------------------------------------------------------------------------
(* Operations on a session that hold its lock.                             *)

OpAt(s, pc) == op' = [op EXCEPT ![s].pc = pc]
OpEnds(s) ==
    /\ op' = [op EXCEPT ![s] = Idle]
    /\ lock' = [lock EXCEPT ![s] = NoOne]

OpAsked(s, kind) ==
    /\ op[s] = Idle /\ kind \in config.ops
    /\ kind \in {"retire", "resume", "hydrate"} => lock[s] = NoOne
    /\ kind = "retire" => files[s].known
    /\ kind = "resume" => ~native[s].alive
    /\ op' = [op EXCEPT ![s] = [kind |-> kind, pc |-> "queued"]]
    /\ queue' = [queue EXCEPT ![s] = Append(@, Op)]
    /\ files' = IF kind \in {"resume", "hydrate"} THEN [files EXCEPT ![s].known = TRUE] ELSE files
    /\ UNCHANGED <<config, inv, lock, native, work, frozen, closing>>

(* engine.retire_session wants proof that the process has stopped. *)
Retirable(n) == ~n.alive /\ n.halted

(* What each operation refuses once it holds the lock. *)
OpRefused(s, kind) ==
    \/ kind \in {"export", "suspend", "retire"} /\ ~files[s].known
    \/ kind \in {"export", "suspend", "retire"} /\ \E r \in RunsOf(s) : ~inv[r].terminal
    \/ kind = "retire" /\ (~Retirable(native[s]) \/ \E r \in RunsOf(s) : Uncertain(inv[r]))
    \/ kind = "hydrate" /\ \E r \in RunsOf(s) : Busy(inv[r])

OpAcquires(s) ==
    LET kind == op[s].kind IN
    /\ op[s].pc = "queued"
    /\ lock[s] = NoOne /\ queue[s] # <<>> /\ Head(queue[s]) = Op
    /\ queue' = [queue EXCEPT ![s] = Tail(@)]
    /\ IF OpRefused(s, kind) THEN op' = [op EXCEPT ![s] = Idle] /\ UNCHANGED lock
       ELSE /\ lock' = [lock EXCEPT ![s] = Op]
            /\ OpAt(s, CASE kind = "retire" -> "deleting"
                         [] kind = "resume" -> "launching"
                         [] OTHER -> "stopping")
    /\ UNCHANGED <<config, inv, files, native, work, frozen, closing>>

(* engine.suspend(), after the suspend hook.  A copy needs a clean exit, a
   HOME that stays on its volume does not. *)
OpStops(s) ==
    /\ op[s].pc = "stopping"
    /\ \E n \in StopOutcomes(native[s]) :
          /\ native' = [native EXCEPT ![s] = n]
          /\ \/ /\ n.clean \/ op[s].kind = "suspend" \/ (op[s].kind = "hydrate" /\ ~native[s].alive)
                /\ OpAt(s, "packing")
                /\ UNCHANGED lock
             \/ /\ ~n.clean /\ (op[s].kind = "export" \/ (op[s].kind = "hydrate" /\ native[s].alive))
                /\ OpEnds(s)
    /\ UNCHANGED <<config, inv, queue, files, work, frozen, closing>>

OpPacks(s) ==
    /\ op[s].pc = "packing"
    /\ OpEnds(s)
    /\ UNCHANGED <<config, inv, queue, files, native, work, frozen, closing>>

(* The HOME is deleted, or the deletion fails half way. *)
OpDeletes(s) ==
    /\ op[s].pc = "deleting"
    /\ files' \in {files, [files EXCEPT ![s] = [known |-> FALSE, marked |-> FALSE]]}
    /\ OpEnds(s)
    /\ UNCHANGED <<config, inv, queue, native, work, frozen, closing>>

(* engine.restore(): refused over a live process, else a launch that may fail
   and then kills what it launched, with or without proof. *)
RestoreOutcomes(n) ==
    IF n.alive THEN {n}
    ELSE {Killed} \cup [alive : BOOLEAN, clean : {FALSE}, halted : {FALSE}]

OpRestores(s) ==
    /\ op[s].pc = "launching"
    /\ \E n \in RestoreOutcomes(native[s]) : native' = [native EXCEPT ![s] = n]
    /\ OpEnds(s)
    /\ UNCHANGED <<config, inv, queue, files, work, frozen, closing>>

------------------------------------------------------------------------------
(* Operations on the whole Workspace, and close().                         *)

(* Mutant: runs that are being cleaned up are not waited for. *)
ExportWhenTerminal ==
    /\ frozen = "no"
    /\ \A r \in Retained : inv[r].terminal
    /\ frozen' = "export"
    /\ UNCHANGED <<config, tasks, files, native, work, op, closing>>

ExportWorkspace ==
    /\ frozen = "no"
    /\ \A r \in Retained : inv[r].terminal
    /\ \A s \in Sessions : lock[s] = NoOne
    /\ frozen' = "export"
    /\ UNCHANGED <<config, tasks, files, native, work, op, closing>>

Handoff ==
    /\ frozen = "no"
    /\ \A r \in Retained : ~Busy(inv[r])
    /\ frozen' = "handoff"
    /\ UNCHANGED <<config, tasks, files, native, work, op, closing>>

(* A handoff suspends every live session before it writes; it gives up when
   one does not stop cleanly. *)
HandoffSuspends(s) ==
    /\ frozen = "handoff" /\ native[s].alive
    /\ \E n \in StopOutcomes(native[s]) :
          /\ native' = [native EXCEPT ![s] = n]
          /\ frozen' = IF n.clean THEN frozen ELSE "no"
    /\ UNCHANGED <<config, tasks, files, work, op, closing>>

Thaw ==
    /\ frozen # "no"
    /\ frozen' = "no"
    /\ UNCHANGED <<config, tasks, files, native, work, op, closing>>

Close ==
    /\ closing = "open"
    /\ closing' = "joining"
    /\ inv' = [r \in Runs |-> IF r \in Retained /\ ~inv[r].terminal
                              THEN ClaimExplicitCancel(inv[r]) ELSE inv[r]]
    /\ UNCHANGED <<config, lock, queue, files, native, work, op, frozen>>

(* Joined in time and certain: the engine stops every session it started. *)
CloseJoins ==
    /\ closing = "joining"
    /\ \/ closing' = "failed" /\ UNCHANGED native
       \/ /\ \A r \in Retained : ~Uncertain(inv[r])
          /\ \A s \in Sessions : native[s].alive \/ native[s].halted
          /\ closing' = "closed"
          /\ native' = [s \in Sessions |-> IF native[s].alive
                            THEN [alive |-> FALSE, clean |-> TRUE, halted |-> TRUE] ELSE native[s]]
    /\ UNCHANGED <<config, tasks, files, work, op, frozen>>

OwnerNext(r) ==
    \/ OwnerBegins(r) \/ OwnerAcquires(r) \/ OwnerLockTimesOut(r) \/ OwnerGate(r)
    \/ OwnerProbed(r) \/ OwnerCancelled(r)
SendNext(r) ==
    \/ EngineRefreshes(r) \/ EngineLaunches(r) \/ EnginePosts(r) \/ EngineSetupFails(r)
    \/ EngineRejects(r) \/ SendUnconfirmed(r) \/ EngineReceipt(r)
CleanupNext(r) ==
    \/ CleanupEnters(r) \/ EngineCancelGraceful(r) \/ EngineCancelForced(r)
    \/ EngineCancelFails(r) \/ OwnerStops(r) \/ CleanupConfirms(r) \/ CleanupUncertain(r)
RunNext(r) ==
    \/ Start(r) \/ DeadlinePasses(r) \/ OwnerNext(r) \/ SendNext(r)
    \/ NativeTakes(r) \/ NativeEnds(r) \/ Settles(r) \/ SettlementLost(r)
    \/ WatchFires(r) \/ Cancel(r) \/ CleanupNext(r)
SessionNext(s) ==
    \/ NativeDies(s) \/ \E kind \in config.ops : OpAsked(s, kind)
    \/ OpAcquires(s) \/ OpStops(s) \/ OpPacks(s) \/ OpDeletes(s) \/ OpRestores(s)
    \/ HandoffSuspends(s)

Next ==
    \/ \E r \in Runs : RunNext(r)
    \/ \E s \in Sessions : SessionNext(s)
    \/ ExportWorkspace \/ Handoff \/ Thaw \/ Close \/ CloseJoins

Spec == Init /\ [][Next]_vars

(* The deadline passes, its watch runs and a claimed cleanup ends whatever the
   owner, the engine and the process do: none of those is assumed to move. *)
RunFairness(r) ==
    /\ WF_vars(DeadlinePasses(r))
    /\ WF_vars(WatchFires(r))
    /\ WF_vars(CleanupEnters(r))
    /\ WF_vars(CleanupConfirms(r) \/ CleanupUncertain(r))
FairSpec == Spec /\ \A r \in Runs : RunFairness(r)

------------------------------------------------------------------------------
(* Properties.                                                             *)

(* A prompt that native may still take, or works on, belongs to the run that
   holds its session's lock: no trigger releases it on a guess, and no second
   run of the session is sent before the first is known to have stopped. *)
NativeWorkIsOwned == \A r \in Runs : AtWork(r) => lock[SessionOf[r]] = r

(* A lock held by a run is recorded as its reservation, and either the run is
   going on, or its cleanup is, or the run is reported unknown: a lock is
   never left behind by a run that ended well. *)
NoStrandedLock ==
    \A s \in Sessions : lock[s] \in Runs =>
        LET v == inv[lock[s]] IN
        /\ v.reservation /\ SessionOf[lock[s]] = s
        /\ ~v.terminal \/ v.cleanup \in {"claimed", "observing"} \/ v.state = "unknown"

(* While a session is copied, hydrated or deleted nothing works in it, and
   but for a suspend in place its process is stopped. *)
SessionOpsAreQuiet ==
    \A s \in Sessions : op[s].pc \in {"packing", "deleting"} =>
        /\ \A r \in Runs : SessionOf[r] = s => ~AtWork(r)
        /\ op[s].kind # "suspend" => ~native[s].alive

(* While the Workspace is exported or receives a handoff, no run works in it
   and no gate hook runs: not even one that was reported terminal already. *)
FrozenIsQuiet ==
    frozen # "no" =>
        \A r \in Runs : ~AtWork(r) /\ inv[r].owner \notin {"hook", "refresh", "setup", "posting"}

(* close() reports success only when no run works and no owner task is left,
   whatever was in the hook, in the send or in a cleanup when it was called. *)
ClosedIsQuiet ==
    closing = "closed" => \A r \in Runs : ~AtWork(r) /\ inv[r].owner \in {"none", "done"}

(* Whoever is given a session or the Workspace for itself, and whoever is told
   that the unit is closed, finds no run at work there. *)
ExclusiveIsQuiet == SessionOpsAreQuiet /\ FrozenIsQuiet /\ ClosedIsQuiet

(* What was decided about a run stands, whatever races for its end: its start is
   answered once, never with Started after a cleanup has claimed the run, and a
   trigger that comes late does not change the outcome that was reported. *)
DecidedOnce ==
    [][\A r \in Runs : inv[r].owner # "none" /\ inv'[r].owner \notin {"none", "fresh"} =>
          /\ inv[r].started # "pending" => inv'[r].started = inv[r].started
          /\ inv[r].terminal /\ inv[r].started = "pending" => inv'[r].started # "ok"
          /\ inv[r].reported => inv'[r].state = inv[r].state]_vars

(* A record that makes room for a new run has no task, no lock and no native
   work left. *)
EvictedIsOver ==
    [][\A r \in Runs : inv[r].owner # "none" /\ inv'[r].owner = "none" =>
          /\ inv[r].owner = "done" /\ ~AtWork(r)
          /\ lock[SessionOf[r]] # r
          /\ ~Uncertain(inv[r])]_vars

(* A start is answered and its run reported, even if the owner hangs in a hook
   or in the send and the engine never answers. *)
RunIsReported ==
    \A r \in Runs : r \in Retained ~> inv[r].started # "pending" /\ inv[r].reported
=============================================================================
