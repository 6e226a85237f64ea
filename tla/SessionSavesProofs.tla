------------------------- MODULE SessionSavesProofs -------------------------
(***************************************************************************)
(* Proofs about SessionSaves, for any sessions, any work and any number of *)
(* faults.                                                                 *)
(*                                                                         *)
(* The invariant has three parts: what the HOME, the snapshot, the ticket  *)
(* and the sets of Lifecycle say of one session (SessionOK); what the tick *)
(* knows of the session it saves (SavingOK); and what it knows of the      *)
(* sessions it has passed (SweepOK), which is what the close relies on.    *)
(***************************************************************************)
EXTENDS SessionSaves, TLAPS

-----------------------------------------------------------------------------
(* One session.  A HOME without the marker is empty and has no process; a run
   has a live one; a restore is under way only where nothing is local; what a
   delivery finds continues the snapshot; and a session that is pending or
   confirmed has nothing new, unless a process has run since. *)
SessionOf(s) ==
    /\ ~unit[s].marked => unit[s].home = {} /\ unit[s].native \in {"stopped", "killed"}
    /\ ~unit[s].listed => ~unit[s].marked
    /\ ticket[s] = "running" => unit[s].listed /\ unit[s].native = "alive"
    /\ ticket[s] = "restoring" => ~unit[s].marked /\ tick.at = "idle"
    /\ late[s] = "none" /\ (unit[s].marked \/ ticket[s] = "prepared") => stored[s] \subseteq unit[s].home
    /\ s \in saves.pending \union saves.confirmed /\ unit[s].native = "stopped" =>
          unit[s].home \subseteq stored[s]

SessionOK == \A s \in Sessions : SessionOf(s)

(* The session that is being saved has no delivery past the operation lock;
   its process was stopped, and the copy has all of its HOME. *)
SavingOK ==
    LET s == tick.cur IN
    /\ tick.at \in {"export", "commit", "retire"} =>
          s \in Sessions /\ s \in tick.todo /\ ticket[s] \in {"none", "waiting"}
    /\ tick.at \in {"export", "commit"} => s \notin saves.pending \union saves.confirmed
    /\ tick.at = "commit" =>
          /\ unit[s].native = "stopped" /\ unit[s].home \subseteq tick.copy
          /\ late[s] = "none" => tick.copy \subseteq unit[s].home
    /\ tick.at = "retire" /\ unit[s].native = "stopped" => unit[s].home \subseteq stored[s]
    /\ tick.at = "close" => \A r \in Sessions : ticket[r] \in {"none", "waiting"}

(* Nothing is lost with the HOME of session s, but what a forced stop left. *)
Safe(s) ==
    /\ unit[s].native \in {"stopped", "killed"}
    /\ unit[s].native = "stopped" => unit[s].home \subseteq stored[s]

(* A tick that may close the Workspace has sessions before it, sessions whose
   run began behind its back, and others, with which nothing is lost. *)
SweepOK ==
    tick.at # "idle" =>
        /\ ~tick.active => \A s \in Sessions : s \in tick.todo \/ s \in tick.new \/ Safe(s)
        /\ tick.at = "close" => tick.todo = {} /\ ~tick.active

IInv == TypeOK /\ SessionOK /\ SavingOK /\ SweepOK

-----------------------------------------------------------------------------
(* The types of TypeOK by name, so that a step can be typed part by part. *)
HomeType == [listed : BOOLEAN, marked : BOOLEAN, home : SUBSET Works,
             native : {"stopped", "alive", "killed", "unknown"}]

SavesType ==
    {v \in [failed : SUBSET Sessions, retry : SUBSET Sessions,
            pending : SUBSET Sessions, confirmed : SUBSET Sessions] : v.retry \subseteq v.failed}

TickType == [at : {"idle", "scan", "export", "commit", "retire", "close"},
             todo : SUBSET Sessions, runs : SUBSET Sessions, new : SUBSET Sessions,
             active : BOOLEAN, cur : Sessions \union {NoSession}, copy : SUBSET Works]

(* A HOME keeps its type when it is listed or its process changes. *)
LEMMA HomeUpdates ==
    ASSUME NEW u \in [Sessions -> HomeType], NEW s \in Sessions
    PROVE  /\ [u EXCEPT ![s].listed = TRUE] \in [Sessions -> HomeType]
           /\ \A x \in {"stopped", "alive", "killed", "unknown"} :
                 [u EXCEPT ![s].native = x] \in [Sessions -> HomeType]
<1>1. [u[s] EXCEPT !.listed = TRUE] \in HomeType
    BY DEF HomeType
<1>2. ASSUME NEW x \in {"stopped", "alive", "killed", "unknown"}
      PROVE  [u[s] EXCEPT !.native = x] \in HomeType
    BY DEF HomeType
<1> QED
    BY <1>1, <1>2

-----------------------------------------------------------------------------
(* Deliveries. *)

(* A delivery is admitted at any time: it is not past the operation lock yet. *)
LEMMA AdmitStep ==
    ASSUME IInv, NEW s \in Sessions, Admit(s)
    PROVE  IInv'
<1> USE DEF IInv, Admit, harness
<1>1. TypeOK'
    BY DEF TypeOK
<1>2. SessionOK'
  <2>1. SUFFICES ASSUME NEW r \in Sessions PROVE SessionOf(r)'
    BY DEF SessionOK
  <2> QED
    BY DEF TypeOK, SessionOK, SessionOf, SavingOK
<1>3. SavingOK'
    BY DEF TypeOK, SessionOK, SessionOf, SavingOK
<1>4. SweepOK'
    BY DEF TypeOK, SessionOK, SessionOf, SavingOK, SweepOK, Safe
<1> QED
    BY <1>1, <1>2, <1>3, <1>4

(* A local session wins and has all of the snapshot; without one the snapshot is
   restored, if there is any. *)
LEMMA PrepareBeginsStep ==
    ASSUME IInv, NEW s \in Sessions, PrepareBegins(s)
    PROVE  IInv'
<1> USE DEF IInv, PrepareBegins, LocalWins, OperationFree, harness
<1>1. TypeOK'
    BY DEF TypeOK
<1>2. SessionOK'
  <2>1. SUFFICES ASSUME NEW r \in Sessions PROVE SessionOf(r)'
    BY DEF SessionOK
  <2> QED
    BY DEF TypeOK, SessionOK, SessionOf, SavingOK
<1>3. SavingOK'
    BY DEF TypeOK, SessionOK, SessionOf, SavingOK
<1>4. SweepOK'
    BY DEF TypeOK, SessionOK, SessionOf, SavingOK, SweepOK, Safe
<1> QED
    BY <1>1, <1>2, <1>3, <1>4

(* The restore finds no HOME, so it replaces nothing. *)
LEMMA PrepareRestoresStep ==
    ASSUME IInv, NEW s \in Sessions, PrepareRestores(s)
    PROVE  IInv'
<1> USE DEF IInv, PrepareRestores, harness
<1>1. TypeOK'
    BY DEF TypeOK
<1>2. SessionOK'
  <2>1. SUFFICES ASSUME NEW r \in Sessions PROVE SessionOf(r)'
    BY DEF SessionOK
  <2> QED
    BY DEF TypeOK, SessionOK, SessionOf, SavingOK
<1>3. SavingOK'
    BY DEF TypeOK, SessionOK, SessionOf, SavingOK
<1>4. SweepOK'
    BY DEF TypeOK, SessionOK, SessionOf, SavingOK, SweepOK, Safe
<1> QED
    BY <1>1, <1>2, <1>3, <1>4

(* The HOME and the snapshot are left alone. *)
LEMMA DeliveryFailsStep ==
    ASSUME IInv, NEW s \in Sessions, DeliveryFails(s)
    PROVE  IInv'
<1> USE DEF IInv, DeliveryFails, harness
<1>1. TypeOK'
  <2>1. unit' \in [Sessions -> HomeType]
    BY HomeUpdates DEF TypeOK, HomeType
  <2> QED
    BY <2>1 DEF TypeOK, HomeType
<1>2. SessionOK'
  <2>1. SUFFICES ASSUME NEW r \in Sessions PROVE SessionOf(r)'
    BY DEF SessionOK
  <2> QED
    BY DEF TypeOK, SessionOK, SessionOf, SavingOK
<1>3. SavingOK'
    BY DEF TypeOK, SessionOK, SessionOf, SavingOK
<1>4. SweepOK'
    BY DEF TypeOK, SessionOK, SessionOf, SavingOK, SweepOK, Safe
<1> QED
    BY <1>1, <1>2, <1>3, <1>4

(* A run only adds to its HOME, and a tick that is under way remembers it. *)
LEMMA RunStartsStep ==
    ASSUME IInv, NEW s \in Sessions, RunStarts(s)
    PROVE  IInv'
<1> USE DEF IInv, RunStarts
<1>1. TypeOK'
  <2>1. unit' \in [Sessions -> HomeType] /\ fresh' \subseteq Works
    BY DEF TypeOK, HomeType
  <2>2. tick' \in TickType
    BY DEF TypeOK, TickType
  <2> QED
    BY <2>1, <2>2 DEF TypeOK, HomeType, TickType
<1>2. SessionOK'
  <2>1. SUFFICES ASSUME NEW r \in Sessions PROVE SessionOf(r)'
    BY DEF SessionOK
  <2> QED
    BY DEF TypeOK, SessionOK, SessionOf, SavingOK
<1>3. SavingOK'
    BY DEF TypeOK, SessionOK, SessionOf, SavingOK
<1>4. SweepOK'
    BY DEF TypeOK, SessionOK, SessionOf, SavingOK, SweepOK, Safe
<1> QED
    BY <1>1, <1>2, <1>3, <1>4

(* A run that began before the tick ends; its process is not a stopped one. *)
LEMMA RunEndsStep ==
    ASSUME IInv, NEW s \in Sessions, RunEnds(s)
    PROVE  IInv'
<1> USE DEF IInv, RunEnds, harness
<1>1. TypeOK'
  <2>1. unit' \in [Sessions -> HomeType]
    <3>1. \/ unit' = unit
          \/ unit' = [unit EXCEPT ![s].native = "killed"]
          \/ unit' = [unit EXCEPT ![s].native = "unknown"]
      OBVIOUS
    <3>2. unit \in [Sessions -> HomeType]
      BY DEF TypeOK, HomeType
    <3>3. CASE unit' = [unit EXCEPT ![s].native = "killed"]
      BY <3>2, <3>3, HomeUpdates
    <3>4. CASE unit' = [unit EXCEPT ![s].native = "unknown"]
      BY <3>2, <3>4, HomeUpdates
    <3> QED
      BY <3>1, <3>2, <3>3, <3>4
  <2>2. faults' \in 0..MaxFaults
    BY MaxFaultsAssumption DEF TypeOK, Fault, NoFault
  <2> QED
    BY <2>1, <2>2 DEF TypeOK, HomeType
<1>2. SessionOK'
  <2>1. SUFFICES ASSUME NEW r \in Sessions PROVE SessionOf(r)'
    BY DEF SessionOK
  <2> QED
    BY DEF TypeOK, SessionOK, SessionOf, SavingOK, Fault, NoFault
<1>3. SavingOK'
    BY DEF TypeOK, SessionOK, SessionOf, SavingOK, Fault, NoFault
<1>4. SweepOK'
    BY DEF TypeOK, SessionOK, SessionOf, SavingOK, SweepOK, Safe, Fault, NoFault
<1> QED
    BY <1>1, <1>2, <1>3, <1>4

-----------------------------------------------------------------------------
(* The tick looks at the sessions. *)

(* Sessions the unit does not list have no HOME: they count as passed. *)
LEMMA TickBeginsStep ==
    ASSUME IInv, TickBegins
    PROVE  IInv'
<1> USE DEF IInv, TickBegins, OperationFree, NoTick
<1>1. TypeOK'
    BY DEF TypeOK, SavingOK
<1>2. SessionOK'
  <2>1. SUFFICES ASSUME NEW r \in Sessions PROVE SessionOf(r)'
    BY DEF SessionOK
  <2> QED
    BY DEF TypeOK, SessionOK, SessionOf, SavingOK
<1>3. SavingOK'
    BY DEF TypeOK, SessionOK, SessionOf, SavingOK
<1>4. SweepOK'
    BY DEF TypeOK, SessionOK, SessionOf, SavingOK, SweepOK, Safe
<1> QED
    BY <1>1, <1>2, <1>3, <1>4

(* A busy session keeps the Workspace from closing. *)
LEMMA TickSkipsBusyStep ==
    ASSUME IInv, NEW s \in Sessions, TickSkipsBusy(s)
    PROVE  IInv'
<1> USE DEF IInv, TickSkipsBusy, Scans, Passes, Discard
<1>1. TypeOK'
    BY DEF TypeOK
<1>2. SessionOK'
  <2>1. SUFFICES ASSUME NEW r \in Sessions PROVE SessionOf(r)'
    BY DEF SessionOK
  <2> QED
    BY DEF TypeOK, SessionOK, SessionOf, SavingOK
<1>3. SavingOK'
    BY DEF TypeOK, SessionOK, SessionOf, SavingOK
<1>4. SweepOK'
    BY DEF TypeOK, SessionOK, SessionOf, SavingOK, SweepOK, Safe
<1> QED
    BY <1>1, <1>2, <1>3, <1>4

(* So does one whose save waits for its retry. *)
LEMMA TickSkipsFailedStep ==
    ASSUME IInv, NEW s \in Sessions, TickSkipsFailed(s)
    PROVE  IInv'
<1> USE DEF IInv, TickSkipsFailed, Settled, Scans, Passes
<1>1. TypeOK'
    BY DEF TypeOK
<1>2. SessionOK'
  <2>1. SUFFICES ASSUME NEW r \in Sessions PROVE SessionOf(r)'
    BY DEF SessionOK
  <2> QED
    BY DEF TypeOK, SessionOK, SessionOf, SavingOK
<1>3. SavingOK'
    BY DEF TypeOK, SessionOK, SessionOf, SavingOK
<1>4. SweepOK'
    BY DEF TypeOK, SessionOK, SessionOf, SavingOK, SweepOK, Safe
<1> QED
    BY <1>1, <1>2, <1>3, <1>4

(* So does one with a live process. *)
LEMMA TickSkipsLiveStep ==
    ASSUME IInv, NEW s \in Sessions, TickSkipsLive(s)
    PROVE  IInv'
<1> USE DEF IInv, TickSkipsLive, Considered, Settled, Scans, AfterRetry, Passes
<1>1. TypeOK'
    BY DEF TypeOK
<1>2. SessionOK'
  <2>1. SUFFICES ASSUME NEW r \in Sessions PROVE SessionOf(r)'
    BY DEF SessionOK
  <2> QED
    BY DEF TypeOK, SessionOK, SessionOf, SavingOK
<1>3. SavingOK'
    BY DEF TypeOK, SessionOK, SessionOf, SavingOK
<1>4. SweepOK'
    BY DEF TypeOK, SessionOK, SessionOf, SavingOK, SweepOK, Safe
<1> QED
    BY <1>1, <1>2, <1>3, <1>4

(* A stopped session that need not be saved is safe to close. *)
LEMMA TickSkipsStoppedStep ==
    ASSUME IInv, NEW s \in Sessions, TickSkipsStopped(s)
    PROVE  IInv'
<1> USE DEF IInv, TickSkipsStopped, Considered, Settled, Scans, AfterRetry, Passes, Due
<1>1. TypeOK'
    BY DEF TypeOK
<1>2. SessionOK'
  <2>1. SUFFICES ASSUME NEW r \in Sessions PROVE SessionOf(r)'
    BY DEF SessionOK
  <2> QED
    BY DEF TypeOK, SessionOK, SessionOf, SavingOK
<1>3. SavingOK'
    BY DEF TypeOK, SessionOK, SessionOf, SavingOK
<1>4. SweepOK'
    BY DEF TypeOK, SessionOK, SessionOf, SavingOK, SweepOK, Safe
<1> QED
    BY <1>1, <1>2, <1>3, <1>4

(* The tick turns to a session without delivery; it exports only what is neither
   pending nor confirmed. *)
LEMMA TickSavesStep ==
    ASSUME IInv, NEW s \in Sessions, TickSaves(s)
    PROVE  IInv'
<1> USE DEF IInv, TickSaves, Considered, Settled, Scans, AfterRetry, Due, HasWork
<1>1. TypeOK'
    BY DEF TypeOK
<1>2. SessionOK'
  <2>1. SUFFICES ASSUME NEW r \in Sessions PROVE SessionOf(r)'
    BY DEF SessionOK
  <2> QED
    BY DEF TypeOK, SessionOK, SessionOf, SavingOK
<1>3. SavingOK'
    BY DEF TypeOK, SessionOK, SessionOf, SavingOK
<1>4. SweepOK'
    BY DEF TypeOK, SessionOK, SessionOf, SavingOK, SweepOK, Safe
<1> QED
    BY <1>1, <1>2, <1>3, <1>4

(* The tick ends early; nothing was decided. *)
LEMMA TickAbortsStep ==
    ASSUME IInv, TickAborts
    PROVE  IInv'
<1> USE MaxFaultsAssumption DEF IInv, TickAborts, Fault, NoTick
<1>1. TypeOK'
    BY DEF TypeOK, SavingOK
<1>2. SessionOK'
  <2>1. SUFFICES ASSUME NEW r \in Sessions PROVE SessionOf(r)'
    BY DEF SessionOK
  <2> QED
    BY DEF TypeOK, SessionOK, SessionOf, SavingOK
<1>3. SavingOK'
    BY DEF TypeOK, SessionOK, SessionOf, SavingOK
<1>4. SweepOK'
    BY DEF TypeOK, SessionOK, SessionOf, SavingOK, SweepOK, Safe
<1> QED
    BY <1>1, <1>2, <1>3, <1>4

(* The same when a session has gone. *)
LEMMA TickMissesSessionStep ==
    ASSUME IInv, TickMissesSession
    PROVE  IInv'
<1> USE DEF IInv, TickMissesSession, NoTick
<1>1. TypeOK'
    BY DEF TypeOK, SavingOK
<1>2. SessionOK'
  <2>1. SUFFICES ASSUME NEW r \in Sessions PROVE SessionOf(r)'
    BY DEF SessionOK
  <2> QED
    BY DEF TypeOK, SessionOK, SessionOf, SavingOK
<1>3. SavingOK'
    BY DEF TypeOK, SessionOK, SessionOf, SavingOK
<1>4. SweepOK'
    BY DEF TypeOK, SessionOK, SessionOf, SavingOK, SweepOK, Safe
<1> QED
    BY <1>1, <1>2, <1>3, <1>4

-----------------------------------------------------------------------------
(* A session is saved and retired. *)

(* A save is given up: before the commit, with or without the process stopped,
   or around it, with or without a new snapshot. *)
LEMMA SaveGivenUp ==
    ASSUME IInv, NEW b \in BOOLEAN, SaveFails(tick.cur, b),
           \/ /\ tick.at = "export" /\ UNCHANGED stored
              /\ \/ UNCHANGED unit
                 \/ unit' = [unit EXCEPT ![tick.cur].native = IF @ = "alive" THEN "stopped" ELSE @]
           \/ /\ tick.at = "commit" /\ UNCHANGED unit
              /\ \/ UNCHANGED stored
                 \/ stored' = [stored EXCEPT ![tick.cur] = tick.copy],
           UNCHANGED <<ticket, fresh, wsIdle, late>>, faults' \in 0..MaxFaults
    PROVE  IInv'
<1>1. tick.cur \in Sessions
    BY DEF IInv, SavingOK
<1>2. tick' \in TickType
    BY <1>1 DEF IInv, TypeOK, SaveFails, Passes, TickType
<1>3. saves' \in SavesType
    BY <1>1 DEF IInv, TypeOK, SaveFails, SavesType
<1>4. unit' \in [Sessions -> HomeType]
  <2>1. \/ unit' = unit
        \/ unit' = [unit EXCEPT ![tick.cur].native = "stopped"]
        \/ unit' = [unit EXCEPT ![tick.cur].native = unit[tick.cur].native]
    OBVIOUS
  <2>2. unit \in [Sessions -> HomeType] /\ unit[tick.cur].native \in {"stopped", "alive", "killed", "unknown"}
    BY <1>1 DEF IInv, TypeOK, HomeType
  <2>3. CASE unit' = [unit EXCEPT ![tick.cur].native = "stopped"]
    BY <1>1, <2>2, <2>3, HomeUpdates
  <2>4. CASE unit' = [unit EXCEPT ![tick.cur].native = unit[tick.cur].native]
    BY <1>1, <2>2, <2>4, HomeUpdates
  <2> QED
    BY <2>1, <2>2, <2>3, <2>4
<1>5. TypeOK'
    BY <1>1, <1>2, <1>3, <1>4 DEF IInv, TypeOK, TickType, HomeType, SavesType
<1>6. SessionOK'
  <2>1. SUFFICES ASSUME NEW r \in Sessions PROVE SessionOf(r)'
    BY DEF SessionOK
  <2> QED
    BY <1>1 DEF IInv, TypeOK, SessionOK, SessionOf, SavingOK, SaveFails, Passes
<1>7. SavingOK'
    BY <1>1 DEF IInv, TypeOK, SavingOK, SaveFails, Passes
<1>8. SweepOK'
    BY <1>1 DEF IInv, TypeOK, SweepOK, SaveFails, Passes
<1> QED
    BY <1>5, <1>6, <1>7, <1>8 DEF IInv

(* The copy has all of the HOME of a stopped process. *)
LEMMA ExportStep ==
    ASSUME IInv, Export
    PROVE  IInv'
<1>1. tick.cur \in Sessions /\ tick.cur \in tick.todo
    BY DEF IInv, SavingOK, Export
<1>2. CASE /\ unit[tick.cur].native \in {"alive", "stopped"}
           /\ unit' = [unit EXCEPT ![tick.cur].native = "stopped"]
           /\ tick' = [tick EXCEPT !.at = "commit", !.copy = unit[tick.cur].home]
           /\ UNCHANGED saves /\ NoFault
  <2> USE <1>1, <1>2 DEF IInv, Export, NoFault
  <2>1. TypeOK'
    <3>1. unit \in [Sessions -> HomeType]
      BY DEF TypeOK, HomeType
    <3>2. unit' \in [Sessions -> HomeType]
      BY <3>1, HomeUpdates
    <3>3. tick' \in TickType
      BY DEF TypeOK, TickType
    <3> QED
      BY <3>2, <3>3 DEF TypeOK, HomeType, TickType
  <2>2. SessionOK'
    <3>1. SUFFICES ASSUME NEW r \in Sessions PROVE SessionOf(r)'
      BY DEF SessionOK
    <3> QED
      BY DEF TypeOK, SessionOK, SessionOf, SavingOK
  <2>3. SavingOK'
    BY DEF TypeOK, SessionOK, SessionOf, SavingOK
  <2>4. SweepOK'
    BY DEF TypeOK, SweepOK, Safe
  <2> QED
    BY <2>1, <2>2, <2>3, <2>4
<1>3. CASE /\ unit[tick.cur].native = "killed" /\ SaveFails(tick.cur, TRUE)
           /\ UNCHANGED unit /\ NoFault
    BY <1>3, SaveGivenUp DEF IInv, TypeOK, Export, NoFault
<1>4. CASE /\ Fault("save") /\ SaveFails(tick.cur, TRUE)
           /\ unit' \in {unit, [unit EXCEPT ![tick.cur].native = IF @ = "alive" THEN "stopped" ELSE @]}
  <2>1. faults' \in 0..MaxFaults
    BY <1>4, MaxFaultsAssumption DEF IInv, TypeOK, Fault
  <2> QED
    BY <1>4, <2>1, SaveGivenUp DEF Export
<1> QED
    BY <1>2, <1>3, <1>4 DEF Export

(* The snapshot has all of the copy, hence of the HOME. *)
LEMMA CommitStep ==
    ASSUME IInv, Commit
    PROVE  IInv'
<1> USE DEF IInv, Commit
<1>1. TypeOK'
    BY DEF TypeOK, SavingOK
<1>2. SessionOK'
  <2>1. SUFFICES ASSUME NEW r \in Sessions PROVE SessionOf(r)'
    BY DEF SessionOK
  <2> QED
    BY DEF TypeOK, SessionOK, SessionOf, SavingOK
<1>3. SavingOK'
    BY DEF TypeOK, SessionOK, SessionOf, SavingOK
<1>4. SweepOK'
    BY DEF TypeOK, SessionOK, SessionOf, SavingOK, SweepOK, Safe
<1> QED
    BY <1>1, <1>2, <1>3, <1>4

(* The store did not answer, or refused. *)
LEMMA CommitFailsStep ==
    ASSUME IInv, CommitFails
    PROVE  IInv'
<1>1. faults' \in 0..MaxFaults
  <2>1. \E k \in {"save", "conflict"} : Fault(k)
    BY DEF CommitFails
  <2> QED
    BY <2>1, MaxFaultsAssumption DEF IInv, TypeOK, Fault
<1>2. CASE SaveFails(tick.cur, TRUE) /\ stored' \in {stored, [stored EXCEPT ![tick.cur] = tick.copy]}
    BY <1>1, <1>2, SaveGivenUp DEF CommitFails
<1>3. CASE SaveFails(tick.cur, FALSE) /\ UNCHANGED stored
    BY <1>1, <1>3, SaveGivenUp DEF CommitFails
<1> QED
    BY <1>2, <1>3 DEF CommitFails

(* A retire that removes the HOME of the session that is being saved. *)
LEMMA RetireFound ==
    ASSUME IInv, tick.at = "retire", ~RetireRefused(tick.cur), unit' = Retired(tick.cur)
    PROVE  /\ unit[tick.cur].native \in {"stopped", "killed"}
           /\ unit' \in [Sessions -> HomeType]
           /\ \A r \in Sessions : r # tick.cur => unit'[r] = unit[r]
           /\ ~unit'[tick.cur].listed /\ ~unit'[tick.cur].marked /\ unit'[tick.cur].home = {}
           /\ unit'[tick.cur].native = unit[tick.cur].native
<1>1. tick.cur \in Sessions
    BY DEF IInv, SavingOK
<1>2. unit[tick.cur].native \in {"stopped", "killed"}
    BY <1>1 DEF IInv, TypeOK, SessionOK, SessionOf, RetireRefused
<1> QED
    BY <1>1, <1>2 DEF IInv, TypeOK, Retired, NoHome, HomeType

(* Only a stopped or killed process lets a HOME be retired. *)
LEMMA RetireStep ==
    ASSUME IInv, Retire
    PROVE  IInv'
<1>1. tick.cur \in Sessions /\ tick.cur \in tick.todo /\ tick.at = "retire"
    BY DEF IInv, SavingOK, Retire
<1>2. CASE /\ ~RetireRefused(tick.cur) /\ unit' = Retired(tick.cur)
           /\ saves' = Saved(tick.cur) /\ Passes(tick.cur, FALSE)
  <2>1. /\ unit[tick.cur].native \in {"stopped", "killed"}
        /\ unit' \in [Sessions -> HomeType]
        /\ \A r \in Sessions : r # tick.cur => unit'[r] = unit[r]
        /\ ~unit'[tick.cur].listed /\ ~unit'[tick.cur].marked /\ unit'[tick.cur].home = {}
        /\ unit'[tick.cur].native = unit[tick.cur].native
    BY <1>1, <1>2, RetireFound
  <2>2. /\ tick' = [tick EXCEPT !.at = "scan", !.todo = @ \ {tick.cur}, !.active = @ \/ FALSE,
                                !.cur = NoSession, !.copy = {}]
        /\ saves' = Saved(tick.cur)
        /\ UNCHANGED <<stored, ticket, fresh, wsIdle, late, faults>>
    BY <1>2 DEF Retire, Passes
  <2>3. TypeOK'
    <3>1. tick' \in TickType
      BY <1>1, <2>2 DEF IInv, TypeOK, TickType
    <3>2. saves' \in SavesType
      BY <1>1, <2>2 DEF IInv, TypeOK, Saved, SavesType
    <3> QED
      BY <2>1, <2>2, <3>1, <3>2 DEF IInv, TypeOK, HomeType, TickType, SavesType
  <2>4. SessionOK'
    <3>1. SUFFICES ASSUME NEW r \in Sessions PROVE SessionOf(r)'
      BY DEF SessionOK
    <3> QED
      BY <1>1, <2>1, <2>2 DEF IInv, TypeOK, SessionOK, SessionOf, SavingOK, Saved
  <2>5. SavingOK'
    BY <2>2 DEF IInv, TypeOK, SavingOK
  <2>6. SweepOK'
    BY <1>1, <2>1, <2>2 DEF IInv, TypeOK, SweepOK, Safe
  <2> QED
    BY <2>3, <2>4, <2>5, <2>6 DEF IInv
<1>3. CASE RetireRefused(tick.cur) /\ RetireFails(tick.cur) /\ UNCHANGED unit
  <2> USE <1>1, <1>3 DEF IInv, Retire, RetireFails, Passes
  <2>1. TypeOK'
    BY DEF TypeOK
  <2>2. SessionOK'
    <3>1. SUFFICES ASSUME NEW r \in Sessions PROVE SessionOf(r)'
      BY DEF SessionOK
    <3> QED
      BY DEF TypeOK, SessionOK, SessionOf, SavingOK
  <2>3. SavingOK'
    BY DEF TypeOK, SavingOK
  <2>4. SweepOK'
    BY DEF TypeOK, SweepOK
  <2> QED
    BY <2>1, <2>2, <2>3, <2>4
<1> QED
    BY <1>2, <1>3 DEF Retire

(* The session stays pending, whatever the unit did. *)
LEMMA RetireUnansweredStep ==
    ASSUME IInv, RetireUnanswered
    PROVE  IInv'
<1> USE DEF IInv, RetireUnanswered, RetireFails, Passes
<1>1. tick.cur \in Sessions /\ tick.at = "retire"
    BY DEF SavingOK
<1>2. \/ UNCHANGED unit
      \/ /\ unit[tick.cur].native \in {"stopped", "killed"}
         /\ unit' \in [Sessions -> HomeType]
         /\ \A r \in Sessions : r # tick.cur => unit'[r] = unit[r]
         /\ ~unit'[tick.cur].listed /\ ~unit'[tick.cur].marked /\ unit'[tick.cur].home = {}
         /\ unit'[tick.cur].native = unit[tick.cur].native
         /\ UNCHANGED late
    BY <1>1, RetireFound
<1>3. TypeOK'
  <2>1. unit' \in [Sessions -> HomeType] /\ faults' \in 0..MaxFaults
    BY <1>2, MaxFaultsAssumption DEF TypeOK, HomeType, Fault
  <2> QED
    BY <1>1, <2>1 DEF TypeOK, HomeType
<1>4. SessionOK'
  <2>1. SUFFICES ASSUME NEW r \in Sessions PROVE SessionOf(r)'
    BY DEF SessionOK
  <2> QED
    BY <1>1, <1>2 DEF TypeOK, SessionOK, SessionOf, SavingOK
<1>5. SavingOK'
    BY DEF TypeOK, SavingOK
<1>6. SweepOK'
    BY DEF TypeOK, SweepOK
<1> QED
    BY <1>3, <1>4, <1>5, <1>6

(* A late retire is refused while the session is in use. *)
LEMMA LateRetireStep ==
    ASSUME IInv, NEW s \in Sessions, LateRetire(s)
    PROVE  IInv'
<1> USE DEF IInv, LateRetire, RetireRefused, Retired, NoHome, harness
<1>1. TypeOK'
    BY DEF TypeOK
<1>2. SessionOK'
  <2>1. SUFFICES ASSUME NEW r \in Sessions PROVE SessionOf(r)'
    BY DEF SessionOK
  <2> QED
    BY DEF TypeOK, SessionOK, SessionOf, SavingOK
<1>3. SavingOK'
    BY DEF TypeOK, SessionOK, SessionOf, SavingOK
<1>4. SweepOK'
    BY DEF TypeOK, SessionOK, SessionOf, SavingOK, SweepOK, Safe
<1> QED
    BY <1>1, <1>2, <1>3, <1>4

-----------------------------------------------------------------------------
(* The end of a tick, the close and a new control. *)

(* The Workspace is closed when no session has a delivery; all are safe then. *)
LEMMA TickEndsStep ==
    ASSUME IInv, TickEnds
    PROVE  IInv'
<1> USE DEF IInv, TickEnds, NoTick
<1>1. TypeOK'
  <2>1. tick' \in TickType /\ wsIdle' \in BOOLEAN
    <3>1. NoTick \in TickType /\ [tick EXCEPT !.at = "close"] \in TickType
      BY DEF TypeOK, TickType
    <3> QED
      BY <3>1 DEF TypeOK
  <2> QED
    BY <2>1 DEF TypeOK, TickType
<1>2. SessionOK'
  <2>1. SUFFICES ASSUME NEW r \in Sessions PROVE SessionOf(r)'
    BY DEF SessionOK
  <2> QED
    BY DEF TypeOK, SessionOK, SessionOf, SavingOK, Quiet
<1>3. SavingOK'
    BY DEF TypeOK, SessionOK, SessionOf, SavingOK, Quiet
<1>4. SweepOK'
    BY DEF TypeOK, SessionOK, SessionOf, SavingOK, SweepOK, Safe, Quiet
<1> QED
    BY <1>1, <1>2, <1>3, <1>4

(* The next instance begins with nothing, and no delivery is past the lock. *)
LEMMA CloseWorkspaceStep ==
    ASSUME IInv, CloseWorkspace
    PROVE  IInv'
<1> USE DEF IInv, CloseWorkspace, NoTick
<1>1. TypeOK'
  <2>1. NoHome \in HomeType
    BY DEF NoHome, HomeType
  <2>2. unit' \in [Sessions -> HomeType]
    BY <2>1 DEF TypeOK, HomeType
  <2>3. faults' \in 0..MaxFaults
    BY MaxFaultsAssumption DEF TypeOK, Fault, NoFault
  <2>4. tick' \in TickType
    BY DEF TypeOK, TickType
  <2>5. saves' \in SavesType
    BY DEF TypeOK, NoSaves, SavesType
  <2>6. late' \in [Sessions -> {"none", "pending", "over"}] /\ wsIdle' \in BOOLEAN
    BY DEF TypeOK
  <2> QED
    BY <2>2, <2>3, <2>4, <2>5, <2>6 DEF TypeOK, HomeType, TickType, SavesType
<1>2. SessionOK'
  <2>1. SUFFICES ASSUME NEW r \in Sessions PROVE SessionOf(r)'
    BY DEF SessionOK
  <2> QED
    BY DEF TypeOK, SessionOK, SessionOf, SavingOK, NoHome, NoSaves, Fault, NoFault
<1>3. SavingOK'
    BY DEF TypeOK, SessionOK, SessionOf, SavingOK, NoHome, NoSaves, Fault, NoFault
<1>4. SweepOK'
    BY DEF TypeOK, SessionOK, SessionOf, SavingOK, SweepOK, Safe, NoHome, NoSaves, Fault, NoFault
<1> QED
    BY <1>1, <1>2, <1>3, <1>4

(* A new control has no pending or confirmed session and no tick. *)
LEMMA ControlRestartsStep ==
    ASSUME IInv, ControlRestarts
    PROVE  IInv'
<1> USE DEF IInv, ControlRestarts, NoTick, NoSaves
<1>1. TypeOK'
  <2>1. tick' \in TickType
    BY DEF TypeOK, TickType
  <2>2. saves' \in SavesType
    BY DEF TypeOK, SavesType
  <2>3. /\ ticket' \in [Sessions -> {"none", "waiting", "restoring", "prepared", "running"}]
        /\ late' \in [Sessions -> {"none", "pending", "over"}]
    BY DEF TypeOK, SavingOK
  <2>4. faults' \in 0..MaxFaults
    BY MaxFaultsAssumption DEF TypeOK, Fault
  <2> QED
    BY <2>1, <2>2, <2>3, <2>4 DEF TypeOK, TickType, SavesType
<1>2. SessionOK'
  <2>1. SUFFICES ASSUME NEW r \in Sessions PROVE SessionOf(r)'
    BY DEF SessionOK
  <2> QED
    BY DEF TypeOK, SessionOK, SessionOf, SavingOK
<1>3. SavingOK'
    BY DEF TypeOK, SessionOK, SessionOf, SavingOK
<1>4. SweepOK'
    BY DEF TypeOK, SessionOK, SessionOf, SavingOK, SweepOK, Safe
<1> QED
    BY <1>1, <1>2, <1>3, <1>4

-----------------------------------------------------------------------------
(* The invariant and the theorems. *)

(* An empty unit, an empty store and a new control. *)
LEMMA InitInv == Init => IInv
<1> SUFFICES ASSUME Init PROVE IInv
    OBVIOUS
<1>1. TypeOK
  <2>1. NoHome \in HomeType /\ NoSaves \in SavesType /\ NoTick \in TickType
    BY DEF HomeType, SavesType, TickType, NoHome, NoSaves, NoTick
  <2>2. unit \in [Sessions -> HomeType] /\ saves \in SavesType /\ tick \in TickType
    BY <2>1 DEF Init
  <2>3. stored \in [Sessions -> SUBSET Works] /\ fresh \subseteq Works
    BY DEF Init
  <2>4. /\ ticket \in [Sessions -> {"none", "waiting", "restoring", "prepared", "running"}]
        /\ late \in [Sessions -> {"none", "pending", "over"}]
    BY DEF Init
  <2>5. wsIdle \in BOOLEAN
    BY DEF Init
  <2>6. faults \in 0..MaxFaults
    <3>1. faults = 0
      BY DEF Init
    <3> QED
      BY <3>1, MaxFaultsAssumption
  <2> QED
    BY <2>2, <2>3, <2>4, <2>5, <2>6 DEF TypeOK, HomeType, SavesType, TickType
<1>2. SessionOK
    BY DEF SessionOK, SessionOf, Init, NoHome, NoSaves
<1>3. SavingOK /\ SweepOK
    BY DEF SavingOK, SweepOK, Init, NoTick
<1> QED
    BY <1>1, <1>2, <1>3 DEF IInv

(* Every step keeps the invariant. *)
LEMMA StepInv ==
    ASSUME IInv, [Next]_vars
    PROVE  IInv'
<1>1. ASSUME NEW s \in Sessions, DeliveryNext(s) PROVE IInv'
    BY <1>1, AdmitStep, PrepareBeginsStep, PrepareRestoresStep, DeliveryFailsStep,
       RunStartsStep, RunEndsStep DEF DeliveryNext
<1>2. ASSUME NEW s \in Sessions, TickNext(s) PROVE IInv'
    BY <1>2, TickSkipsBusyStep, TickSkipsFailedStep, TickSkipsLiveStep, TickSkipsStoppedStep,
       TickSavesStep DEF TickNext
<1>3. CASE SaveNext
    BY <1>3, ExportStep, CommitStep, CommitFailsStep, RetireStep, RetireUnansweredStep DEF SaveNext
<1>4. CASE UNCHANGED vars
    BY <1>4 DEF vars, harness, IInv, TypeOK, SessionOK, SessionOf, SavingOK, SweepOK, Safe
<1> QED
    BY <1>1, <1>2, <1>3, <1>4, LateRetireStep, TickBeginsStep, TickAbortsStep,
       TickMissesSessionStep, TickEndsStep, CloseWorkspaceStep, ControlRestartsStep DEF Next

(* The invariant holds always. *)
LEMMA Inductive == Spec => []IInv
    BY InitInv, StepInv, PTL DEF Spec

(* When a HOME may lose something: no run uses it, and what it has is in the
   snapshot, unless its process was killed, a retire outlived its caller or the
   close overlooks the session. *)
LEMMA HomeGoes ==
    ASSUME IInv, Next, NEW r \in Sessions
    PROVE  \/ unit[r].home \subseteq unit'[r].home
           \/ /\ ticket[r] # "running"
              /\ \/ unit[r].native = "killed" \/ late[r] = "pending" \/ Overlooked(r)
                 \/ unit[r].home \subseteq stored'[r]
<1>1. ASSUME NEW s \in Sessions, PrepareRestores(s)
      PROVE  unit[r].home \subseteq unit'[r].home
    BY <1>1 DEF IInv, TypeOK, SessionOK, SessionOf, PrepareRestores
<1>2. ASSUME NEW s \in Sessions, DeliveryNext(s), ~PrepareRestores(s)
      PROVE  unit[r].home \subseteq unit'[r].home
    BY <1>2 DEF IInv, TypeOK, DeliveryNext, Admit, PrepareBegins, DeliveryFails, RunStarts, RunEnds
<1>3. ASSUME NEW s \in Sessions, TickNext(s)
      PROVE  unit' = unit
    BY <1>3 DEF TickNext, TickSkipsBusy, TickSkipsFailed, TickSkipsLive, TickSkipsStopped, TickSaves
<1>4. ASSUME NEW s \in Sessions, LateRetire(s)
      PROVE  unit'[r] = unit[r] \/ (ticket[r] # "running" /\ late[r] = "pending")
    BY <1>4 DEF IInv, TypeOK, SessionOK, SessionOf, LateRetire, Retired, RetireRefused
<1>5. CASE Export
  <2>1. \/ unit' = unit
        \/ unit' = [unit EXCEPT ![tick.cur].native = "stopped"]
        \/ unit' = [unit EXCEPT ![tick.cur].native = IF @ = "alive" THEN "stopped" ELSE @]
    BY <1>5 DEF Export
  <2> QED
    BY <2>1 DEF IInv, TypeOK
<1>6. CASE Commit \/ CommitFails
    BY <1>6 DEF Commit, CommitFails
<1>7. CASE Retire \/ RetireUnanswered
  <2>1. CASE unit' = unit
    BY <2>1
  <2>2. CASE ~RetireRefused(tick.cur) /\ unit' = Retired(tick.cur)
    <3>1. /\ unit[tick.cur].native \in {"stopped", "killed"}
          /\ r # tick.cur => unit'[r] = unit[r]
      BY <1>7, <2>2, RetireFound DEF Retire, RetireUnanswered
    <3> QED
      BY <1>7, <3>1 DEF IInv, SavingOK, Retire, RetireUnanswered
  <2> QED
    BY <1>7, <2>1, <2>2 DEF Retire, RetireUnanswered
<1>8. CASE CloseWorkspace
  <2>1. tick.at = "close" /\ stored' = stored
    BY <1>8 DEF CloseWorkspace
  <2>2. ticket[r] # "running"
    BY <2>1 DEF IInv, SavingOK
  <2>3. Overlooked(r) \/ Safe(r)
    BY <2>1 DEF IInv, SweepOK, Overlooked
  <2> QED
    BY <2>1, <2>2, <2>3 DEF Safe
<1>9. CASE TickBegins \/ TickAborts \/ TickMissesSession \/ TickEnds \/ ControlRestarts
    BY <1>9 DEF TickBegins, TickAborts, TickMissesSession, TickEnds, ControlRestarts
<1> QED
    BY <1>1, <1>2, <1>3, <1>4, <1>5, <1>6, <1>7, <1>8, <1>9 DEF Next, SaveNext

(* Only RunStarts takes a prepared delivery to its run. *)
LEMMA PreparedRuns ==
    ASSUME IInv, Next, NEW r \in Sessions, ticket[r] = "prepared", ticket'[r] = "running"
    PROVE  unit[r].home \subseteq unit'[r].home
<1>1. ASSUME NEW s \in Sessions, DeliveryNext(s)
      PROVE  unit[r].home \subseteq unit'[r].home
    BY <1>1 DEF IInv, TypeOK, DeliveryNext, Admit, PrepareBegins, PrepareRestores, DeliveryFails,
       RunStarts, RunEnds
<1>2. ASSUME NEW s \in Sessions, TickNext(s) \/ LateRetire(s)
      PROVE  ticket' = ticket
    BY <1>2 DEF TickNext, TickSkipsBusy, TickSkipsFailed, TickSkipsLive, TickSkipsStopped, TickSaves,
       LateRetire
<1>3. CASE SaveNext
    BY <1>3 DEF SaveNext, Export, Commit, CommitFails, Retire, RetireUnanswered
<1>4. CASE TickBegins \/ TickAborts \/ TickMissesSession \/ TickEnds \/ CloseWorkspace
    BY <1>4 DEF TickBegins, TickAborts, TickMissesSession, TickEnds, CloseWorkspace
<1>5. CASE ControlRestarts
    BY <1>5 DEF IInv, TypeOK, ControlRestarts
<1> QED
    BY <1>1, <1>2, <1>3, <1>4, <1>5 DEF Next

(* Every variable keeps its type, and only a failed save has a retry time, over
   any number of ticks, restarts and faults. *)
THEOREM SessionTypes == Spec => []TypeOK
<1>1. IInv => TypeOK
    BY DEF IInv
<1> QED
    BY <1>1, Inductive, PTL

(* Contract 7: no retire, no close and no restart deletes the only copy of a
   session's work, but for the close of a Workspace in which the session ran
   after the tick had read its inventory.  There is no hypothesis: how long a
   run takes, and when in the tick it ends, does not matter. *)
THEOREM SeenCopyStays == Spec => SeenCopyIsKept
<1>1. ASSUME IInv, [Next]_vars
      PROVE  [\A s \in Sessions : Overlooked(s) \/ KeepsOnlyCopy(s)]_vars
    BY <1>1, HomeGoes DEF KeepsOnlyCopy
<1> QED
    BY <1>1, Inductive, PTL DEF Spec, SeenCopyIsKept

(* Contract 7: a run of an archived session continues what was saved. *)
THEOREM ArchivedSessionsContinue == Spec => SessionContinues
<1>1. ASSUME IInv, [Next]_vars
      PROVE  [\A s \in Sessions :
                 ticket[s] = "prepared" /\ ticket'[s] = "running" /\ late[s] = "none" =>
                     stored[s] \subseteq unit'[s].home]_vars
  <2>1. SUFFICES ASSUME Next, NEW s \in Sessions, ticket[s] = "prepared", ticket'[s] = "running",
                        late[s] = "none"
                 PROVE  stored[s] \subseteq unit'[s].home
    BY <1>1
  <2>2. unit[s].home \subseteq unit'[s].home
    BY <1>1, <2>1, PreparedRuns
  <2> QED
    BY <1>1, <2>1, <2>2 DEF IInv, SessionOK, SessionOf
<1> QED
    BY <1>1, Inductive, PTL DEF Spec, SessionContinues

(* No retire, also a late one, and no close takes files away from a run. *)
THEOREM RunsKeepTheirHomes == Spec => RunKeepsItsHome
<1>1. ASSUME IInv, [Next]_vars
      PROVE  [\A s \in Sessions :
                 ticket[s] = "running" => unit[s].home \subseteq unit'[s].home]_vars
    BY <1>1, HomeGoes
<1> QED
    BY <1>1, Inductive, PTL DEF Spec, RunKeepsItsHome
=============================================================================
