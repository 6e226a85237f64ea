---------------------------- MODULE SessionSaves ----------------------------
(***************************************************************************)
(* harness/lifecycle.py: how the tick of one Workspace with S3 persistence *)
(* saves and retires its sessions and closes the Workspace, against        *)
(* deliveries that restore and use the same sessions.                      *)
(*                                                                         *)
(* The tick and the preparation of a delivery hold the Workspace's         *)
(* operation lock; everything else interleaves at every call.  Clocks are  *)
(* abstract: an idle timeout or a retry time may be over or not.  The unit *)
(* side is what the Execution module says of export, retire and restore;   *)
(* a commit is one step here, the SnapshotStore module is about its parts. *)
(***************************************************************************)
EXTENDS Naturals, FiniteSets

CONSTANTS
    Sessions,   \* session refs of the Workspace
    Works,      \* what runs leave behind in a session's HOME
    Faults,     \* kinds of fault that may happen
    MaxFaults,  \* ... and how often
    NoSession   \* no session is being saved

FaultKinds == {"call", "save", "conflict", "retire", "late", "halt", "uncertain",
               "restart"}

ASSUME FaultsAssumption == Faults \subseteq FaultKinds
ASSUME MaxFaultsAssumption == MaxFaults \in Nat
ASSUME NoSessionAssumption == NoSession \notin Sessions

VARIABLES
    unit,     \* session |-> its HOME and process in the unit
    stored,   \* session |-> contents of its latest snapshot
    ticket,   \* session |-> how far its delivery is; "none" is ~has_work
    fresh,    \* work no run has done yet
    saves,    \* the sets of Lifecycle: failed, retry, pending, confirmed
    tick,     \* where the tick is and what it has seen
    wsIdle,   \* _last_workspace is set
    late,     \* session |-> whether a retire outlived its caller, and is over
    faults    \* faults so far

harness == <<saves, tick, wsIdle>>
vars == <<unit, stored, ticket, fresh, harness, late, faults>>

NoHome == [listed |-> FALSE, marked |-> FALSE, home |-> {}, native |-> "stopped"]
NoSaves == [failed |-> {}, retry |-> {}, pending |-> {}, confirmed |-> {}]
NoTick == [at |-> "idle", todo |-> {}, runs |-> {}, new |-> {}, active |-> FALSE,
           cur |-> NoSession, copy |-> {}]

(* One type invariant; only a failed save has a retry time. *)
TypeOK ==
    /\ unit \in [Sessions -> [listed : BOOLEAN, marked : BOOLEAN, home : SUBSET Works,
                              native : {"stopped", "alive", "killed", "unknown"}]]
    /\ stored \in [Sessions -> SUBSET Works]
    /\ ticket \in [Sessions -> {"none", "waiting", "restoring", "prepared", "running"}]
    /\ fresh \subseteq Works
    /\ saves \in [failed : SUBSET Sessions, retry : SUBSET Sessions,
                  pending : SUBSET Sessions, confirmed : SUBSET Sessions]
    /\ saves.retry \subseteq saves.failed
    /\ tick \in [at : {"idle", "scan", "export", "commit", "retire", "close"},
                 todo : SUBSET Sessions, runs : SUBSET Sessions, new : SUBSET Sessions,
                 active : BOOLEAN, cur : Sessions \union {NoSession}, copy : SUBSET Works]
    /\ wsIdle \in BOOLEAN
    /\ late \in [Sessions -> {"none", "pending", "over"}]
    /\ faults \in 0..MaxFaults

Init ==
    /\ unit = [s \in Sessions |-> NoHome]
    /\ stored = [s \in Sessions |-> {}]
    /\ ticket = [s \in Sessions |-> "none"]
    /\ fresh = Works
    /\ saves = NoSaves
    /\ tick = NoTick
    /\ wsIdle = FALSE
    /\ late = [s \in Sessions |-> "none"]
    /\ faults = 0

Fault(kind) == kind \in Faults /\ faults < MaxFaults /\ faults' = faults + 1
NoFault == UNCHANGED faults

(* lifecycle.operation(): one holder at a time. *)
OperationFree == tick.at = "idle" /\ \A s \in Sessions : ticket[s] # "restoring"

------------------------------------------------------------------------------
(* Deliveries.  The session's lane of Admission has one at a time.         *)

Admit(s) ==
    /\ ticket[s] = "none" /\ fresh # {}
    /\ ticket' = [ticket EXCEPT ![s] = "waiting"]
    /\ UNCHANGED <<unit, stored, fresh, harness, late, faults>>

(* Mutant: a session the unit does not know is taken for a new one. *)
LocalUnlessLost(s) == unit[s].native = "alive" \/ unit[s].marked \/ ~unit[s].listed

(* restore_session: a live or initialized local session wins. *)
LocalWins(s) == unit[s].native = "alive" \/ unit[s].marked

PrepareBegins(s) ==
    /\ ticket[s] = "waiting" /\ OperationFree
    /\ ticket' = [ticket EXCEPT ![s] = IF LocalWins(s) \/ stored[s] = {} THEN "prepared"
                                       ELSE "restoring"]
    /\ UNCHANGED <<unit, stored, fresh, harness, late, faults>>

(* The archive is imported and its process launched. *)
PrepareRestores(s) ==
    /\ ticket[s] = "restoring"
    /\ unit' = [unit EXCEPT ![s] = [listed |-> TRUE, marked |-> TRUE, home |-> stored[s],
                                    native |-> "alive"]]
    /\ ticket' = [ticket EXCEPT ![s] = "prepared"]
    /\ UNCHANGED <<stored, fresh, harness, late, faults>>

(* A delivery fails before its prompt is taken: expired, not restored, or
   refused by the unit, which may know the session by then. *)
DeliveryFails(s) ==
    /\ ticket[s] \in {"waiting", "restoring", "prepared"}
    /\ ticket' = [ticket EXCEPT ![s] = "none"]
    /\ unit' = IF ticket[s] = "prepared" THEN [unit EXCEPT ![s].listed = TRUE] ELSE unit
    /\ UNCHANGED <<stored, fresh, harness, late, faults>>

(* What a tick under way does not know: its inventory was read before. *)
RunStarts(s) ==
    /\ ticket[s] = "prepared" /\ unit[s].native # "unknown"
    /\ \E w \in fresh :
          /\ fresh' = fresh \ {w}
          /\ unit' = [unit EXCEPT ![s] = [listed |-> TRUE, marked |-> TRUE, native |-> "alive",
                                          home |-> @.home \union {w}]]
    /\ ticket' = [ticket EXCEPT ![s] = "running"]
    /\ tick' = IF tick.at = "idle" THEN tick ELSE [tick EXCEPT !.new = @ \union {s}]
    /\ UNCHANGED <<stored, saves, wsIdle, late, faults>>

(* The process goes on idling, was killed by the cleanup of the run with its
   halt confirmed, or nobody knows. *)
RunEnds(s) ==
    /\ ticket[s] = "running"
    /\ ticket' = [ticket EXCEPT ![s] = "none"]
    /\ \/ UNCHANGED unit /\ NoFault
       \/ Fault("halt") /\ unit' = [unit EXCEPT ![s].native = "killed"]
       \/ Fault("uncertain") /\ unit' = [unit EXCEPT ![s].native = "unknown"]
    /\ UNCHANGED <<stored, fresh, harness, late>>

------------------------------------------------------------------------------
(* _tick_workspace.                                                        *)

HasWork(s) == ticket[s] # "none" \/ s \in tick.runs
Discard(set, s) == [saves EXCEPT ![set] = @ \ {s}]

(* The inventory of sessions and of runs is read once. *)
TickBegins ==
    /\ OperationFree
    /\ tick' = [NoTick EXCEPT !.at = "scan", !.todo = {s \in Sessions : unit[s].listed},
                              !.runs = {s \in Sessions : ticket[s] = "running"}]
    /\ UNCHANGED <<unit, stored, ticket, fresh, saves, wsIdle, late, faults>>

Scans(s) == tick.at = "scan" /\ s \in tick.todo /\ unit[s].listed
Passes(s, active) ==
    tick' = [tick EXCEPT !.at = "scan", !.todo = @ \ {s}, !.active = @ \/ active,
                         !.cur = NoSession, !.copy = {}]

TickSkipsBusy(s) ==
    /\ Scans(s)
    /\ unit[s].native = "unknown" \/ HasWork(s)
    /\ saves' = Discard("confirmed", s)
    /\ Passes(s, TRUE)
    /\ UNCHANGED <<unit, stored, ticket, fresh, wsIdle, late, faults>>

Settled(s) == Scans(s) /\ unit[s].native # "unknown" /\ ~HasWork(s)

(* A failed save waits for its retry time, or for ever. *)
TickSkipsFailed(s) ==
    /\ Settled(s) /\ s \in saves.failed
    /\ Passes(s, TRUE)
    /\ UNCHANGED <<unit, stored, ticket, fresh, saves, wsIdle, late, faults>>

(* The retry time of a failed save is over, or there was none. *)
Considered(s) == Settled(s) /\ (s \in saves.failed => s \in saves.retry)
AfterRetry(s) == [saves EXCEPT !.failed = @ \ {s}, !.retry = @ \ {s}]

(* Mutant: only a session whose process runs is looked at. *)
NeverDue(s) == FALSE

(* A stopped session is saved once. *)
Due(s) == unit[s].marked /\ s \notin saves.confirmed

TickSkipsLive(s) ==
    /\ Considered(s) /\ unit[s].native = "alive"
    /\ saves' = [AfterRetry(s) EXCEPT !.confirmed = @ \ {s}]
    /\ Passes(s, TRUE)
    /\ UNCHANGED <<unit, stored, ticket, fresh, wsIdle, late, faults>>

TickSkipsStopped(s) ==
    /\ Considered(s) /\ unit[s].native # "alive" /\ ~Due(s)
    /\ saves' = AfterRetry(s)
    /\ Passes(s, FALSE)
    /\ UNCHANGED <<unit, stored, ticket, fresh, wsIdle, late, faults>>

(* _attempt_session_save: a session that was committed is only retired. *)
TickSaves(s) ==
    /\ Considered(s)
    /\ unit[s].native = "alive" \/ Due(s)
    /\ saves' = [AfterRetry(s) EXCEPT !.confirmed = @ \ {s}]
    /\ tick' = [tick EXCEPT !.at = IF s \in saves.pending THEN "retire" ELSE "export", !.cur = s,
                            !.active = @ \/ unit[s].native = "alive"]
    /\ UNCHANGED <<unit, stored, ticket, fresh, wsIdle, late, faults>>

(* A call of the tick fails: the tick is over, its findings are dropped. *)
TickAborts ==
    /\ tick.at = "scan" /\ Fault("call")
    /\ tick' = NoTick
    /\ UNCHANGED <<unit, stored, ticket, fresh, saves, wsIdle, late>>

(* A session of the inventory is gone when its info is asked for. *)
TickMissesSession ==
    /\ tick.at = "scan" /\ \E s \in tick.todo : ~unit[s].listed
    /\ tick' = NoTick
    /\ UNCHANGED <<unit, stored, ticket, fresh, saves, wsIdle, late, faults>>

------------------------------------------------------------------------------
(* _save_session and _retire_session.                                      *)

SaveFails(s, transient) ==
    /\ saves' = [saves EXCEPT !.failed = @ \union {s},
                              !.retry = IF transient THEN @ \union {s} ELSE @]
    /\ Passes(s, TRUE)

(* The unit stops the process and packs the HOME.  The exit of a killed one
   was not clean: the export is refused until the window is over. *)
Export ==
    LET s == tick.cur IN
    /\ tick.at = "export"
    /\ \/ /\ unit[s].native \in {"alive", "stopped"}
          /\ unit' = [unit EXCEPT ![s].native = "stopped"]
          /\ tick' = [tick EXCEPT !.at = "commit", !.copy = unit[s].home]
          /\ UNCHANGED saves
          /\ NoFault
       \/ /\ unit[s].native = "killed"
          /\ SaveFails(s, TRUE)
          /\ UNCHANGED unit
          /\ NoFault
       \/ /\ Fault("save")
          /\ unit' \in {unit, [unit EXCEPT ![s].native = IF @ = "alive" THEN "stopped" ELSE @]}
          /\ SaveFails(s, TRUE)
    /\ UNCHANGED <<stored, ticket, fresh, wsIdle, late>>

Commit ==
    LET s == tick.cur IN
    /\ tick.at = "commit"
    /\ stored' = [stored EXCEPT ![s] = tick.copy]
    /\ tick' = [tick EXCEPT !.at = "retire"]
    /\ UNCHANGED <<unit, ticket, fresh, saves, wsIdle, late, faults>>

(* The retry window ended, whether or not the snapshot was committed; or the
   store refused the writer, and nothing will retry. *)
CommitFails ==
    LET s == tick.cur IN
    /\ tick.at = "commit"
    /\ \/ /\ Fault("save")
          /\ stored' \in {stored, [stored EXCEPT ![s] = tick.copy]}
          /\ SaveFails(s, TRUE)
       \/ /\ Fault("conflict")
          /\ UNCHANGED stored
          /\ SaveFails(s, FALSE)
    /\ UNCHANGED <<unit, ticket, fresh, wsIdle, late>>

(* Mutant: the unit does not ask for a stopped process. *)
RefusedOnlyIfRunning(s) == unit[s].listed /\ ticket[s] = "running"

(* service.retire_session: what makes the unit refuse. *)
RetireRefused(s) ==
    unit[s].listed /\ (ticket[s] = "running" \/ unit[s].native \in {"alive", "unknown"})

Retired(s) == [unit EXCEPT ![s] = [NoHome EXCEPT !.native = unit[s].native]]

RetireFails(s) ==
    /\ saves' = [saves EXCEPT !.failed = @ \union {s}, !.retry = @ \union {s},
                              !.pending = @ \union {s}]
    /\ Passes(s, TRUE)

(* Mutant: a save that succeeds leaves its retry time behind. *)
SavedKeepsRetry(s) == [saves EXCEPT !.pending = @ \ {s}, !.retry = @ \union {s},
                                    !.confirmed = @ \union {s}]

Saved(s) == [saves EXCEPT !.pending = @ \ {s}, !.failed = @ \ {s}, !.retry = @ \ {s},
                          !.confirmed = @ \union {s}]

Retire ==
    LET s == tick.cur IN
    /\ tick.at = "retire"
    /\ \/ /\ ~RetireRefused(s)
          /\ unit' = Retired(s)
          /\ saves' = Saved(s)
          /\ Passes(s, FALSE)
       \/ /\ RetireRefused(s)
          /\ RetireFails(s)
          /\ UNCHANGED unit
    /\ UNCHANGED <<stored, ticket, fresh, wsIdle, late, faults>>

(* No answer within 10 s: the unit never saw the call, did what it asked for,
   or still has it before it. *)
RetireUnanswered ==
    LET s == tick.cur IN
    /\ tick.at = "retire"
    /\ RetireFails(s)
    /\ \/ Fault("retire") /\ UNCHANGED <<unit, late>>
       \/ Fault("retire") /\ ~RetireRefused(s) /\ unit' = Retired(s) /\ UNCHANGED late
       \/ Fault("late") /\ late' = [late EXCEPT ![s] = "pending"] /\ UNCHANGED unit
    /\ UNCHANGED <<stored, ticket, fresh, wsIdle>>

LateRetire(s) ==
    /\ late[s] = "pending"
    /\ late' = [late EXCEPT ![s] = "over"]
    /\ unit' = IF RetireRefused(s) THEN unit ELSE Retired(s)
    /\ UNCHANGED <<stored, ticket, fresh, harness, faults>>

------------------------------------------------------------------------------
(* The end of a tick, the close of the Workspace, and a new control.       *)

(* Mutant: deliveries that are queued or being started are not asked for. *)
QuietTick == ~tick.active

Quiet == ~tick.active /\ \A s \in Sessions : ticket[s] = "none"

TickEnds ==
    /\ tick.at = "scan" /\ tick.todo = {}
    /\ \/ ~Quiet /\ wsIdle' = FALSE /\ tick' = NoTick
       \/ Quiet /\ wsIdle' = TRUE /\ tick' = NoTick
       \/ Quiet /\ wsIdle /\ tick' = [tick EXCEPT !.at = "close"] /\ UNCHANGED wsIdle
    /\ UNCHANGED <<unit, stored, ticket, fresh, saves, late, faults>>

(* manager.close(): the unit is removed with every HOME; the next one is
   another instance, which no key of Lifecycle names yet. *)
CloseWorkspace ==
    /\ tick.at = "close"
    /\ tick' = NoTick
    /\ \/ /\ unit' = [s \in Sessions |-> NoHome]
          /\ saves' = NoSaves
          /\ late' = [s \in Sessions |-> "none"]
          /\ wsIdle' = FALSE
          /\ NoFault
       \/ Fault("save") /\ UNCHANGED <<unit, saves, late, wsIdle>>
    /\ UNCHANGED <<stored, ticket, fresh>>

(* The unit goes on with its runs, the new control adopts it and them. *)
ControlRestarts ==
    /\ Fault("restart")
    /\ ticket' = [s \in Sessions |-> IF ticket[s] = "running" THEN "running" ELSE "none"]
    /\ saves' = NoSaves
    /\ tick' = NoTick
    /\ wsIdle' = FALSE
    /\ late' = IF tick.at = "retire" /\ "late" \in Faults
               THEN [late EXCEPT ![tick.cur] = "pending"] ELSE late
    /\ UNCHANGED <<unit, stored, fresh>>

DeliveryNext(s) ==
    \/ Admit(s) \/ PrepareBegins(s) \/ PrepareRestores(s) \/ DeliveryFails(s)
    \/ RunStarts(s) \/ RunEnds(s)
TickNext(s) ==
    \/ TickSkipsBusy(s) \/ TickSkipsFailed(s) \/ TickSkipsLive(s) \/ TickSkipsStopped(s)
    \/ TickSaves(s)
SaveNext == Export \/ Commit \/ CommitFails \/ Retire \/ RetireUnanswered

Next ==
    \/ \E s \in Sessions : DeliveryNext(s) \/ TickNext(s) \/ LateRetire(s)
    \/ TickBegins \/ TickAborts \/ TickMissesSession \/ SaveNext \/ TickEnds
    \/ CloseWorkspace \/ ControlRestarts

Spec == Init /\ [][Next]_vars

(* The tick gets the operation lock, which is a FIFO, and goes on with whatever is
   next; a preparation that has the lock ends; a session is not found too young
   to be saved for ever.  Deliveries, runs and faults need not happen, nor end. *)
TickGoesOn ==
    TickMissesSession \/ SaveNext \/ TickEnds \/ CloseWorkspace \/ \E s \in Sessions : TickNext(s)
Fairness ==
    /\ SF_vars(TickBegins) /\ WF_vars(TickGoesOn)
    /\ \A s \in Sessions :
          /\ SF_vars(TickSaves(s))
          /\ WF_vars(ticket[s] = "restoring" /\ (PrepareRestores(s) \/ DeliveryFails(s)))
FairSpec == Spec /\ Fairness

------------------------------------------------------------------------------
(* Properties.                                                             *)

(* What goes of the HOME of session s is in its snapshot.  Only a forced stop of
   its process, or a retire that nobody waits for any more, may lose work. *)
KeepsOnlyCopy(s) ==
    unit[s].native # "killed" /\ late[s] # "pending" =>
        unit[s].home \ unit'[s].home \subseteq stored'[s]

(* Contract 7: the only copy of a session's work is not deleted, by a retire or
   with its Workspace.  The code does not keep to this: see Overlooked. *)
OnlyCopyIsKept == [][\A s \in Sessions : KeepsOnlyCopy(s)]_vars

(* _tick_workspace closes a Workspace in which the session ran after the
   inventory was read: the tick took it for absent. *)
Overlooked(s) == tick.at = "close" /\ s \in tick.new

(* What the code does keep to: but for a close that overlooks the session, no
   retire, no close and no restart deletes the only copy of its work. *)
SeenCopyIsKept == [][\A s \in Sessions : Overlooked(s) \/ KeepsOnlyCopy(s)]_vars

(* Contract 7: a run of an archived session continues it: its HOME has what
   the latest snapshot has, no matter what was saved, retired or restarted
   since the delivery was admitted, in a unit where every retire of the session
   was waited for. *)
SessionContinues ==
    [][\A s \in Sessions :
          ticket[s] = "prepared" /\ ticket'[s] = "running" /\ late[s] = "none" =>
              stored[s] \subseteq unit'[s].home]_vars

(* No run loses files under it: a retire, also one nobody waits for any more,
   and the close of the Workspace find its sessions without a run. *)
RunKeepsItsHome ==
    [][\A s \in Sessions : ticket[s] = "running" => unit[s].home \subseteq unit'[s].home]_vars

(* Contract 7: what a session holds is saved once deliveries leave it alone (that
   it does not go unsaved before is OnlyCopyIsKept).  A retire that fails is
   enough for the code not to keep to this. *)
IdleIsSaved ==
    \A s \in Sessions : <>[](ticket[s] = "none") => <>[](unit[s].home \subseteq stored[s])

(* What the code gives up on: a process that was killed or that nobody knows to be
   stopped, a writer the store refused, and a session whose retire failed. *)
GivenUp(s) ==
    \/ unit[s].native \in {"killed", "unknown"}
    \/ s \in saves.failed \ saves.retry
    \/ s \in saves.pending

(* What the code does keep to: whatever calls, saves and retires fail and however
   often the control restarts, an idle session is saved or given up. *)
IdleIsSavedOrGivenUp ==
    \A s \in Sessions :
        <>[](ticket[s] = "none") => <>[](unit[s].home \subseteq stored[s] \/ GivenUp(s))
=============================================================================
