--------------------------- MODULE ExecutionProofs ---------------------------
(***************************************************************************)
(* Execution, for every set of runs and sessions and every deployment: the *)
(* types, that native work is owned by the holder of the session lock,     *)
(* that no lock is stranded, that exclusive access finds no work, that a   *)
(* decision stands and that an evicted record is over.                     *)
(*                                                                         *)
(* The argument is one inductive invariant.  Its record part RunOK says    *)
(* how the owner task, the reservation, the cleanup and its two tasks of   *)
(* one invocation go together; the others tie the reservation to the lock, *)
(* native work to the reservation, a launch to its session's process, and  *)
(* a frozen or closing unit to runs that are all terminal.                 *)
(***************************************************************************)
EXTENDS Execution, ProofFacts

(* The owner is past the lock and not done. *)
Inside == {"hook", "probe", "refresh", "setup", "posting"}

(* The parts of one _Invocation: before the lock a run has neither reservation
   nor native state, and the reservation goes only with the owner task or with
   a confirmed cleanup. *)
RunOK(v) ==
    /\ v.owner = "none" => v = NotRetained
    /\ v.owner \in {"none", "fresh", "lock"} => ~v.reservation /\ ~v.registered
    /\ v.owner \in Inside => v.reservation
    /\ v.owner \in {"refresh", "setup", "posting"} => v.registered
    /\ v.terminal /\ v.cleanup = "none" => v.owner \in {"none", "done"} /\ ~v.reservation
    /\ v.cleanup # "none" => v.terminal
    /\ v.cleanup = "done" => v.state = "unknown" \/ (v.owner = "done" /\ ~v.reservation)
    /\ v.reported => v.terminal /\ v.cleanup \in {"none", "done"}
    /\ v.engineCancel # "none" =>
          (v.owner = "done" \/ v.cancelling) /\ v.cleanup \in {"observing", "done"}
    /\ v.engineCancel = "halting" => v.registered /\ v.reservation
    /\ v.ownerStop = "ok" => v.owner = "done"
    /\ v.settle # "none" => v.owner = "done"
    /\ v.registered /\ (~v.terminal \/ v.cleanup \in {"claimed", "observing"}) => v.reservation
RunsOK == \A r \in Runs : RunOK(inv[r])

(* Reservation and operation are the lock, seen from the holder's side. *)
ReservationIsLock == \A r \in Runs : inv[r].reservation <=> lock[SessionOf[r]] = r
LockIsOfSession == \A s \in Sessions : lock[s] \in Runs => SessionOf[lock[s]] = s
OpIsLock == \A s \in Sessions : op[s].pc \notin {"idle", "queued"} <=> lock[s] = Op

(* Native work is that of a registered run which no cancellation has confirmed,
   in a process that was not seen to halt. *)
WorkOK ==
    \A r \in Runs : AtWork(r) =>
        /\ inv[r].registered /\ inv[r].reservation
        /\ inv[r].owner \in {"posting", "done"}
        /\ inv[r].engineCancel # "ok"
        /\ ~native[SessionOf[r]].halted

(* A live process, and one that is being launched, has not been proved halted. *)
NativeOK ==
    /\ \A s \in Sessions : native[s].alive => ~native[s].halted
    /\ \A r \in Runs : Owner(r, "setup") => ~native[SessionOf[r]].halted

(* A copy other than a suspend in place, and a deletion, are of a stopped process. *)
OpOK ==
    \A s \in Sessions :
        op[s].pc \in {"packing", "deleting"} /\ op[s].kind # "suspend" => ~native[s].alive

FrozenOK ==
    frozen # "no" => \A r \in Runs : /\ inv[r].owner # "none" => inv[r].terminal
                                    /\ inv[r].owner \notin Inside /\ ~AtWork(r)

ClosingOK ==
    /\ closing # "open" => \A r \in Runs : inv[r].owner # "none" => inv[r].terminal
    /\ ClosedIsQuiet

IInv ==
    /\ TypeOK /\ RunsOK
    /\ ReservationIsLock /\ LockIsOfSession /\ OpIsLock
    /\ WorkOK /\ NativeOK /\ OpOK /\ FrozenOK /\ ClosingOK

-----------------------------------------------------------------------------
(* Steps of one invocation record. *)

(* What every step of a retained run keeps: the end of the owner task and of
   the run is final, and only a run that is not terminal goes past the lock. *)
Advance(v, w) ==
    /\ w \in InvocationType /\ RunOK(w)
    /\ v.owner # "none" /\ w.owner # "none"
    /\ v.terminal => w.terminal
    /\ v.owner = "done" => w.owner = "done"
    /\ v.owner = "posting" => w.owner \in {"posting", "done"}
    /\ w.owner \in Inside => v.owner \in Inside \/ ~v.terminal
    /\ v.registered => w.registered

(* A record stays typed when one field is given a value of its type. *)
LEMMA UpdateType ==
    ASSUME NEW v \in InvocationType
    PROVE  /\ \A x \in Owners : [v EXCEPT !.owner = x] \in InvocationType
           /\ \A x \in BOOLEAN : [v EXCEPT !.cancelling = x] \in InvocationType
           /\ \A x \in BOOLEAN : [v EXCEPT !.expired = x] \in InvocationType
           /\ \A x \in BOOLEAN : [v EXCEPT !.terminal = x] \in InvocationType
           /\ \A x \in BOOLEAN : [v EXCEPT !.reported = x] \in InvocationType
           /\ \A x \in RunStates : [v EXCEPT !.state = x] \in InvocationType
           /\ \A x \in {"pending", "ok", "error", "cancelled"} : [v EXCEPT !.started = x] \in InvocationType
           /\ \A x \in {"armed", "off"} : [v EXCEPT !.watch = x] \in InvocationType
           /\ \A x \in {"none", "waiting", "done"} : [v EXCEPT !.settle = x] \in InvocationType
           /\ \A x \in {"none", "claimed", "observing", "done"} : [v EXCEPT !.cleanup = x] \in InvocationType
           /\ \A x \in RunStates : [v EXCEPT !.target = x] \in InvocationType
           /\ \A x \in {"none", "halting", "ok", "failed"} : [v EXCEPT !.engineCancel = x] \in InvocationType
           /\ \A x \in {"none", "joining", "ok", "failed"} : [v EXCEPT !.ownerStop = x] \in InvocationType
           /\ \A x \in BOOLEAN : [v EXCEPT !.registered = x] \in InvocationType
           /\ \A x \in BOOLEAN : [v EXCEPT !.input = x] \in InvocationType
           /\ \A x \in BOOLEAN : [v EXCEPT !.reservation = x] \in InvocationType
<1>1. \A x \in Owners : [v EXCEPT !.owner = x] \in InvocationType
  BY DEF InvocationType
<1>2. \A x \in BOOLEAN : [v EXCEPT !.cancelling = x] \in InvocationType
  BY DEF InvocationType
<1>3. \A x \in BOOLEAN : [v EXCEPT !.expired = x] \in InvocationType
  BY DEF InvocationType
<1>4. \A x \in BOOLEAN : [v EXCEPT !.terminal = x] \in InvocationType
  BY DEF InvocationType
<1>5. \A x \in BOOLEAN : [v EXCEPT !.reported = x] \in InvocationType
  BY DEF InvocationType
<1>6. \A x \in RunStates : [v EXCEPT !.state = x] \in InvocationType
  BY DEF InvocationType
<1>7. \A x \in {"pending", "ok", "error", "cancelled"} : [v EXCEPT !.started = x] \in InvocationType
  BY DEF InvocationType
<1>8. \A x \in {"armed", "off"} : [v EXCEPT !.watch = x] \in InvocationType
  BY DEF InvocationType
<1>9. \A x \in {"none", "waiting", "done"} : [v EXCEPT !.settle = x] \in InvocationType
  BY DEF InvocationType
<1>10. \A x \in {"none", "claimed", "observing", "done"} : [v EXCEPT !.cleanup = x] \in InvocationType
  BY DEF InvocationType
<1>11. \A x \in RunStates : [v EXCEPT !.target = x] \in InvocationType
  BY DEF InvocationType
<1>12. \A x \in {"none", "halting", "ok", "failed"} : [v EXCEPT !.engineCancel = x] \in InvocationType
  BY DEF InvocationType
<1>13. \A x \in {"none", "joining", "ok", "failed"} : [v EXCEPT !.ownerStop = x] \in InvocationType
  BY DEF InvocationType
<1>14. \A x \in BOOLEAN : [v EXCEPT !.registered = x] \in InvocationType
  BY DEF InvocationType
<1>15. \A x \in BOOLEAN : [v EXCEPT !.input = x] \in InvocationType
  BY DEF InvocationType
<1>16. \A x \in BOOLEAN : [v EXCEPT !.reservation = x] \in InvocationType
  BY DEF InvocationType
<1> QED
  BY <1>1, <1>2, <1>3, <1>4, <1>5, <1>6, <1>7, <1>8, <1>9, <1>10, <1>11, <1>12, <1>13, <1>14, <1>15, <1>16

-----------------------------------------------------------------------------
(* A step of one run: the record moves, and with it the lock, the prompt and
   the process of its session. *)

(* The lock stays with the reservation, is taken with it or is given back. *)
LockMoves(r, w) ==
    \/ /\ lock' = lock
       /\ w.reservation = inv[r].reservation
    \/ /\ lock[SessionOf[r]] = NoOne /\ w.reservation
       /\ lock' = [lock EXCEPT ![SessionOf[r]] = r]
    \/ /\ ~w.reservation
       /\ lock' = IF inv[r].reservation THEN [lock EXCEPT ![SessionOf[r]] = NoOne] ELSE lock

RunMoves(r, w) == SetInv(r, w) /\ Advance(inv[r], w) /\ LockMoves(r, w)

(* Nothing is sent, and work that goes on is that of a run with the lock. *)
WorkMoves(r, w) ==
    /\ work' \in [Runs -> {"none", "posted", "running", "ended"}]
    /\ \A q \in Runs : work'[q] \in {"posted", "running"} => AtWork(q)
    /\ work'[r] \in {"posted", "running"} => w.reservation /\ w.engineCancel # "ok"

(* The process of the session is not launched, and is proved halted only when
   nothing works in it and nothing launches it. *)
NativeMoves(s, n) ==
    /\ native' = [native EXCEPT ![s] = n]
    /\ n \in [alive : BOOLEAN, clean : BOOLEAN, halted : BOOLEAN]
    /\ n.alive => native[s].alive /\ ~n.halted
    /\ n.halted => \A q \in Runs : SessionOf[q] = s =>
            /\ work'[q] \notin {"posted", "running"}
            /\ ~(inv'[q].owner = "setup" /\ ~inv'[q].cancelling)

Others == config' = config /\ op' = op /\ frozen' = frozen /\ closing' = closing
QueueTyped == queue' \in [Sessions -> Seq(Runs \union {Op})]
FilesTyped == files' \in [Sessions -> [known : BOOLEAN, marked : BOOLEAN]]

LEMMA RunStep ==
    ASSUME IInv, NEW r \in Runs, NEW w, NEW n, RunMoves(r, w), WorkMoves(r, w),
           NativeMoves(SessionOf[r], n), Others, QueueTyped, FilesTyped
    PROVE  IInv'
<1> DEFINE s == SessionOf[r]
<1>1. s \in Sessions /\ \A q \in Runs : SessionOf[q] \in Sessions
  BY SessionOfAssumption
<1>2. inv' = [inv EXCEPT ![r] = w] /\ w \in InvocationType /\ RunOK(w)
  BY DEF RunMoves, SetInv, Advance
<1>3. inv \in [Runs -> InvocationType] /\ inv' \in [Runs -> InvocationType]
  BY <1>2 DEF IInv, TypeOK
<1>4. inv'[r] = w /\ \A q \in Runs \ {r} : inv'[q] = inv[q]
  BY <1>2, <1>3
<1>5. RunsOK'
  BY <1>2, <1>4 DEF IInv, RunsOK
<1>6. lock \in [Sessions -> Runs \union {Op, NoOne}] /\ lock' \in [Sessions -> Runs \union {Op, NoOne}]
  BY <1>1 DEF RunMoves, LockMoves, IInv, TypeOK
<1>7. /\ native \in [Sessions -> [alive : BOOLEAN, clean : BOOLEAN, halted : BOOLEAN]]
      /\ native' \in [Sessions -> [alive : BOOLEAN, clean : BOOLEAN, halted : BOOLEAN]]
      /\ native'[s] = n /\ \A z \in Sessions \ {s} : native'[z] = native[z]
  BY <1>1 DEF NativeMoves, IInv, TypeOK
<1>8. TypeOK'
  BY <1>3, <1>6, <1>7 DEF IInv, TypeOK, WorkMoves, Others, QueueTyped, FilesTyped, OpType
<1>9. w.reservation \in BOOLEAN /\ \A q \in Runs : inv[q].reservation \in BOOLEAN
  BY <1>2, <1>3 DEF InvocationType
<1>10. ReservationIsLock' /\ LockIsOfSession' /\ OpIsLock'
  <2>1. CASE lock' = lock /\ w.reservation = inv[r].reservation
    BY <2>1, <1>4 DEF IInv, ReservationIsLock, LockIsOfSession, OpIsLock, Others
  <2>2. CASE lock[s] = NoOne /\ w.reservation /\ lock' = [lock EXCEPT ![s] = r]
    BY <2>2, <1>1, <1>4, <1>6, HoldersAssumption
       DEF IInv, ReservationIsLock, LockIsOfSession, OpIsLock, Others
  <2>3. CASE ~w.reservation /\ inv[r].reservation /\ lock' = [lock EXCEPT ![s] = NoOne]
    BY <2>3, <1>1, <1>4, <1>6, HoldersAssumption
       DEF IInv, ReservationIsLock, LockIsOfSession, OpIsLock, Others
  <2>4. CASE ~w.reservation /\ ~inv[r].reservation /\ lock' = lock
    BY <2>4, <1>4 DEF IInv, ReservationIsLock, LockIsOfSession, OpIsLock, Others
  <2> QED BY <2>1, <2>2, <2>3, <2>4 DEF RunMoves, LockMoves
<1>11. WorkOK'
  <2> SUFFICES ASSUME NEW q \in Runs, work'[q] \in {"posted", "running"}
               PROVE  /\ inv'[q].registered /\ inv'[q].reservation
                      /\ inv'[q].owner \in {"posting", "done"}
                      /\ inv'[q].engineCancel # "ok"
                      /\ ~native'[SessionOf[q]].halted
    BY DEF WorkOK, AtWork
  <2>1. /\ inv[q].registered /\ inv[q].reservation
        /\ inv[q].owner \in {"posting", "done"} /\ inv[q].engineCancel # "ok"
        /\ ~native[SessionOf[q]].halted
    BY DEF WorkMoves, IInv, WorkOK
  <2>2. ~native'[SessionOf[q]].halted
    BY <2>1, <1>1, <1>7 DEF NativeMoves
  <2>3. CASE q = r
    BY <2>1, <2>2, <2>3, <1>4 DEF WorkMoves, RunMoves, Advance
  <2> QED BY <2>1, <2>2, <2>3, <1>4
<1>12. NativeOK'
  <2>1. ASSUME NEW z \in Sessions, native'[z].alive PROVE ~native'[z].halted
    BY <2>1, <1>7 DEF NativeMoves, IInv, NativeOK
  <2>2. ASSUME NEW q \in Runs, inv'[q].owner = "setup", ~inv'[q].cancelling
        PROVE  ~native'[SessionOf[q]].halted
    BY <2>2, <1>1, <1>4, <1>7 DEF NativeMoves, IInv, NativeOK, Owner
  <2> QED BY <2>1, <2>2 DEF NativeOK, Owner
<1>13. OpOK'
  BY <1>7 DEF IInv, OpOK, Others, NativeMoves
<1>14. FrozenOK'
  BY <1>4 DEF IInv, FrozenOK, Others, WorkMoves, AtWork, RunMoves, Advance
<1>15. ClosingOK'
  BY <1>4 DEF IInv, ClosingOK, ClosedIsQuiet, Others, WorkMoves, AtWork, RunMoves, Advance
<1> QED BY <1>5, <1>8, <1>10, <1>11, <1>12, <1>13, <1>14, <1>15 DEF IInv

(* The same when the process is left alone and no launch begins. *)
QuietMoves(r, w) ==
    /\ RunMoves(r, w) /\ WorkMoves(r, w)
    /\ w.owner = "setup" /\ ~w.cancelling => Owner(r, "setup")

LEMMA QuietStep ==
    ASSUME IInv, NEW r \in Runs, NEW w, QuietMoves(r, w), native' = native,
           Others, QueueTyped, FilesTyped
    PROVE  IInv'
<1> DEFINE s == SessionOf[r]
           n == native[s]
<1>1. s \in Sessions /\ native \in [Sessions -> [alive : BOOLEAN, clean : BOOLEAN, halted : BOOLEAN]]
  BY SessionOfAssumption DEF IInv, TypeOK
<1>2. inv'[r] = w /\ \A q \in Runs \ {r} : inv'[q] = inv[q]
  BY DEF QuietMoves, RunMoves, SetInv, IInv, TypeOK
<1>3. ASSUME NEW q \in Runs, SessionOf[q] = s, n.halted
      PROVE  /\ work'[q] \notin {"posted", "running"}
             /\ ~(inv'[q].owner = "setup" /\ ~inv'[q].cancelling)
  BY <1>3, <1>2 DEF QuietMoves, WorkMoves, IInv, WorkOK, NativeOK, Owner
<1>4. native' = [native EXCEPT ![s] = n] /\ n \in [alive : BOOLEAN, clean : BOOLEAN, halted : BOOLEAN]
  BY <1>1
<1>5. n.alive => native[s].alive /\ ~n.halted
  BY <1>1 DEF IInv, NativeOK
<1>6. NativeMoves(s, n)
  BY <1>3, <1>4, <1>5 DEF NativeMoves
<1> QED BY <1>6, RunStep DEF QuietMoves

-----------------------------------------------------------------------------
(* Ends and claims of one record. *)

(* A run that ends before it is terminal gives back what it reserved. *)
Over(v, w) == Advance(v, w) /\ w.owner = "done" /\ ~w.reservation

LEMMA FailBeforeStep ==
    ASSUME NEW v \in InvocationType, RunOK(v), ~v.terminal, v.owner # "none",
           NEW w, w = [[FailBeforeStarted(v) EXCEPT !.owner = "done"] EXCEPT !.reservation = FALSE]
    PROVE  Over(v, w)
<1>1. Answer(v, "error") \in {"pending", "ok", "error", "cancelled"}
  BY DEF Answer, InvocationType
<1>2. w \in InvocationType
  BY <1>1, UpdateType DEF FailBeforeStarted, RunStates, Owners
<1>3. /\ w.owner = "done" /\ w.terminal = TRUE /\ w.reported = TRUE /\ w.reservation = FALSE
      /\ w.cleanup = v.cleanup /\ w.engineCancel = v.engineCancel /\ w.registered = v.registered
  BY DEF FailBeforeStarted, InvocationType
<1>4. v.cleanup = "none" /\ v.engineCancel = "none"
  BY DEF RunOK, InvocationType
<1>5. RunOK(w)
  BY <1>2, <1>3, <1>4 DEF RunOK, Inside
<1> QED
  BY <1>2, <1>3, <1>5 DEF Over, Advance, Inside

LEMMA FailUnreservedStep ==
    ASSUME NEW v \in InvocationType, RunOK(v), ~v.terminal, v.owner # "none", v.reservation = FALSE,
           NEW w, w = [FailBeforeStarted(v) EXCEPT !.owner = "done"]
    PROVE  Over(v, w)
<1>1. Answer(v, "error") \in {"pending", "ok", "error", "cancelled"}
  BY DEF Answer, InvocationType
<1>2. w \in InvocationType
  BY <1>1, UpdateType DEF FailBeforeStarted, RunStates, Owners
<1>3. /\ w.owner = "done" /\ w.terminal = TRUE /\ w.reported = TRUE /\ w.reservation = FALSE
      /\ w.cleanup = v.cleanup /\ w.engineCancel = v.engineCancel /\ w.registered = v.registered
  BY DEF FailBeforeStarted, InvocationType
<1>4. v.cleanup = "none" /\ v.engineCancel = "none"
  BY DEF RunOK, InvocationType
<1>5. RunOK(w)
  BY <1>2, <1>3, <1>4 DEF RunOK, Inside
<1> QED
  BY <1>2, <1>3, <1>5 DEF Over, Advance, Inside

LEMMA FinishStep ==
    ASSUME NEW v \in InvocationType, RunOK(v), ~v.terminal, v.owner # "none", NEW state \in RunStates,
           NEW w, w = [[FinishWithoutEngine(v, state) EXCEPT !.owner = "done"] EXCEPT !.reservation = FALSE]
    PROVE  Over(v, w)
<1>1. Answer(v, "ok") \in {"pending", "ok", "error", "cancelled"}
  BY DEF Answer, InvocationType
<1>2. w \in InvocationType
  BY <1>1, UpdateType DEF FinishWithoutEngine, Owners
<1>3. /\ w.owner = "done" /\ w.terminal = TRUE /\ w.reported = TRUE /\ w.reservation = FALSE
      /\ w.cleanup = v.cleanup /\ w.engineCancel = v.engineCancel /\ w.registered = v.registered
  BY DEF FinishWithoutEngine, InvocationType
<1>4. v.cleanup = "none" /\ v.engineCancel = "none"
  BY DEF RunOK, InvocationType
<1>5. RunOK(w)
  BY <1>2, <1>3, <1>4 DEF RunOK, Inside
<1> QED
  BY <1>2, <1>3, <1>5 DEF Over, Advance, Inside

(* An owner that finds its run claimed only ends. *)
LEMMA OwnerDoneStep ==
    ASSUME NEW v \in InvocationType, RunOK(v), v.terminal, v.owner # "none",
           NEW w, w = [v EXCEPT !.owner = "done"]
    PROVE  Advance(v, w) /\ w.owner = "done" /\ w.reservation = v.reservation
           /\ w.engineCancel = v.engineCancel
<1>1. w \in InvocationType
  BY UpdateType DEF Owners
<1>2. /\ w.owner = "done" /\ w.terminal = v.terminal /\ w.reported = v.reported
      /\ w.reservation = v.reservation /\ w.cleanup = v.cleanup /\ w.state = v.state
      /\ w.engineCancel = v.engineCancel /\ w.registered = v.registered
  BY DEF InvocationType
<1>3. RunOK(w)
  BY <1>1, <1>2 DEF RunOK, Inside
<1> QED
  BY <1>1, <1>2, <1>3 DEF Advance, Inside

(* EnsureCleanup claims a run that is not terminal and leaves its tasks alone. *)
Claimed(v, w) ==
    /\ w \in InvocationType /\ RunOK(w) /\ w.terminal = TRUE /\ w.cleanup = "claimed"
    /\ w.owner = v.owner /\ w.cancelling = v.cancelling /\ w.reservation = v.reservation
    /\ w.registered = v.registered /\ w.engineCancel = "none" /\ w.reported = FALSE
    /\ w.settle = v.settle /\ w.ownerStop = v.ownerStop /\ w.started = v.started
    /\ w.state = v.state

LEMMA ClaimStep ==
    ASSUME NEW v \in InvocationType, RunOK(v), ~v.terminal, v.owner # "none", NEW state \in RunStates
    PROVE  Claimed(v, EnsureCleanup(v, state))
<1> DEFINE w == EnsureCleanup(v, state)
<1>1. v.cleanup = "none" /\ v.engineCancel = "none" /\ v.reported = FALSE
  BY DEF RunOK, InvocationType
<1>2. w = [v EXCEPT !.terminal = TRUE, !.watch = "off", !.cleanup = "claimed", !.target = state]
  BY <1>1 DEF EnsureCleanup
<1>3. w \in InvocationType
  <2> DEFINE u == [v EXCEPT !.terminal = TRUE, !.watch = "off", !.cleanup = "claimed"]
  <2>1. u \in InvocationType
    BY UpdateType
  <2>2. w = [u EXCEPT !.target = state]
    BY <1>2
  <2> HIDE DEF u
  <2>3. \A x \in RunStates : [u EXCEPT !.target = x] \in InvocationType
    BY <2>1, UpdateType
  <2> QED BY <2>2, <2>3
<1>4. /\ w.terminal = TRUE /\ w.cleanup = "claimed"
      /\ w.owner = v.owner /\ w.cancelling = v.cancelling /\ w.reservation = v.reservation
      /\ w.registered = v.registered /\ w.engineCancel = v.engineCancel /\ w.reported = v.reported
      /\ w.settle = v.settle /\ w.ownerStop = v.ownerStop /\ w.started = v.started
      /\ w.state = v.state
  BY <1>2 DEF InvocationType
<1>5. RunOK(w)
  BY <1>1, <1>3, <1>4 DEF RunOK, Inside
<1> QED
  BY <1>1, <1>3, <1>4, <1>5 DEF Claimed

LEMMA AnswerStep ==
    ASSUME NEW v \in InvocationType, RunOK(v), v.owner # "none", NEW how \in {"error", "cancelled"},
           NEW w, w = [v EXCEPT !.started = Answer(v, how)]
    PROVE  /\ w \in InvocationType /\ RunOK(w) /\ w.terminal = v.terminal /\ w.owner = v.owner
           /\ w.cancelling = v.cancelling /\ w.reservation = v.reservation
           /\ w.registered = v.registered /\ w.engineCancel = v.engineCancel
           /\ w.state = v.state /\ w.started = Answer(v, how)
<1>1. Answer(v, how) \in {"pending", "ok", "error", "cancelled"}
  BY DEF Answer, InvocationType
<1>2. w \in InvocationType
  BY <1>1, UpdateType
<1>3. /\ w.terminal = v.terminal /\ w.cleanup = v.cleanup
      /\ w.owner = v.owner /\ w.cancelling = v.cancelling /\ w.reservation = v.reservation
      /\ w.registered = v.registered /\ w.engineCancel = v.engineCancel /\ w.reported = v.reported
      /\ w.settle = v.settle /\ w.ownerStop = v.ownerStop /\ w.state = v.state
      /\ w.started = Answer(v, how)
  BY DEF InvocationType
<1>4. RunOK(w)
  BY <1>2, <1>3 DEF RunOK, Inside
<1> QED
  BY <1>2, <1>3, <1>4

-----------------------------------------------------------------------------
(* The owner task. *)

LEMMA Typed ==
    ASSUME IInv, NEW r \in Runs
    PROVE  /\ inv \in [Runs -> InvocationType] /\ inv[r] \in InvocationType /\ RunOK(inv[r])
           /\ SessionOf[r] \in Sessions
           /\ lock \in [Sessions -> Runs \union {Op, NoOne}]
           /\ queue \in [Sessions -> Seq(Runs \union {Op})]
           /\ files \in [Sessions -> [known : BOOLEAN, marked : BOOLEAN]]
           /\ native \in [Sessions -> [alive : BOOLEAN, clean : BOOLEAN, halted : BOOLEAN]]
           /\ work \in [Runs -> {"none", "posted", "running", "ended"}]
  BY SessionOfAssumption DEF IInv, TypeOK, RunsOK

LEMMA FilesUpdate ==
    ASSUME files \in [Sessions -> [known : BOOLEAN, marked : BOOLEAN]], NEW s \in Sessions
    PROVE  /\ [files EXCEPT ![s].known = TRUE] \in [Sessions -> [known : BOOLEAN, marked : BOOLEAN]]
           /\ [files EXCEPT ![s].marked = TRUE] \in [Sessions -> [known : BOOLEAN, marked : BOOLEAN]]
<1>1. files[s] \in [known : BOOLEAN, marked : BOOLEAN]
  OBVIOUS
<1>2. /\ [files[s] EXCEPT !.known = TRUE] \in [known : BOOLEAN, marked : BOOLEAN]
      /\ [files[s] EXCEPT !.marked = TRUE] \in [known : BOOLEAN, marked : BOOLEAN]
  BY <1>1
<1> QED BY <1>2

(* A step that leaves prompts alone, of a run that is not at work or keeps its
   reservation and its cancellation. *)
LEMMA WorkUnchanged ==
    ASSUME IInv, NEW r \in Runs, NEW w, work' = work,
           AtWork(r) => w.reservation = inv[r].reservation /\ w.engineCancel = inv[r].engineCancel
    PROVE  WorkMoves(r, w)
  BY Typed DEF WorkMoves, AtWork, IInv, WorkOK

LEMMA OwnerEndsMoves ==
    ASSUME IInv, NEW r \in Runs, NEW v, OwnerEnds(r, v), inv[r].owner # "none",
           ~inv[r].terminal =>
              /\ Over(inv[r], [[v EXCEPT !.owner = "done"] EXCEPT !.reservation = FALSE])
              /\ [v EXCEPT !.owner = "done"].reservation = inv[r].reservation,
           work' \in [Runs -> {"none", "posted", "running", "ended"}],
           \A q \in Runs : work'[q] \in {"posted", "running"} => AtWork(q),
           inv[r].terminal \/ work'[r] \notin {"posted", "running"}
    PROVE  \E w : QuietMoves(r, w) /\ w.owner = "done"
<1>1. CASE inv[r].terminal
  <2> DEFINE w == [inv[r] EXCEPT !.owner = "done"]
  <2>1. SetInv(r, w) /\ lock' = lock
    BY <1>1 DEF OwnerEnds
  <2>2. Advance(inv[r], w) /\ w.owner = "done" /\ w.reservation = inv[r].reservation
        /\ w.engineCancel = inv[r].engineCancel
    BY <1>1, Typed, OwnerDoneStep
  <2> HIDE DEF w
  <2>3. WorkMoves(r, w)
    BY <2>2 DEF WorkMoves, IInv, WorkOK
  <2> QED BY <2>1, <2>2, <2>3 DEF QuietMoves, RunMoves, LockMoves
<1>2. CASE ~inv[r].terminal
  <2> DEFINE w == [[v EXCEPT !.owner = "done"] EXCEPT !.reservation = FALSE]
  <2>1. /\ SetInv(r, w)
        /\ lock' = IF inv[r].reservation THEN [lock EXCEPT ![SessionOf[r]] = NoOne] ELSE lock
    BY <1>2 DEF OwnerEnds, Release
  <2>2. Advance(inv[r], w) /\ w.owner = "done" /\ ~w.reservation
    BY <1>2 DEF Over
  <2> HIDE DEF w
  <2>3. WorkMoves(r, w)
    BY <1>2 DEF WorkMoves
  <2> QED BY <2>1, <2>2, <2>3 DEF QuietMoves, RunMoves, LockMoves
<1> QED BY <1>1, <1>2

LEMMA FailBeforeEnds ==
    ASSUME IInv, NEW r \in Runs, inv[r].owner # "none",
           OwnerEnds(r, FailBeforeStarted(inv[r])),
           work' \in [Runs -> {"none", "posted", "running", "ended"}],
           \A q \in Runs : work'[q] \in {"posted", "running"} => AtWork(q),
           inv[r].terminal \/ work'[r] \notin {"posted", "running"}
    PROVE  \E w : QuietMoves(r, w) /\ w.owner = "done"
<1> DEFINE v == FailBeforeStarted(inv[r])
<1>1. [v EXCEPT !.owner = "done"].reservation = inv[r].reservation
  BY Typed DEF FailBeforeStarted, InvocationType
<1>2. ~inv[r].terminal => Over(inv[r], [[v EXCEPT !.owner = "done"] EXCEPT !.reservation = FALSE])
  BY Typed, FailBeforeStep
<1> HIDE DEF v
<1> QED BY <1>1, <1>2, OwnerEndsMoves DEF v

LEMMA FinishEnds ==
    ASSUME IInv, NEW r \in Runs, inv[r].owner # "none", NEW state \in RunStates,
           OwnerEnds(r, FinishWithoutEngine(inv[r], state)),
           work' \in [Runs -> {"none", "posted", "running", "ended"}],
           \A q \in Runs : work'[q] \in {"posted", "running"} => AtWork(q),
           inv[r].terminal \/ work'[r] \notin {"posted", "running"}
    PROVE  \E w : QuietMoves(r, w) /\ w.owner = "done"
<1> DEFINE v == FinishWithoutEngine(inv[r], state)
<1>1. [v EXCEPT !.owner = "done"].reservation = inv[r].reservation
  BY Typed DEF FinishWithoutEngine, InvocationType
<1>2. ~inv[r].terminal => Over(inv[r], [[v EXCEPT !.owner = "done"] EXCEPT !.reservation = FALSE])
  BY Typed, FinishStep
<1> HIDE DEF v
<1> QED BY <1>1, <1>2, OwnerEndsMoves DEF v

(* A step that takes the lock: the owner goes on, or finds its run claimed. *)
LEMMA ReserveStep ==
    ASSUME NEW v \in InvocationType, RunOK(v), v.owner \in {"fresh", "lock"}, ~v.cancelling,
           NEW at \in {"hook", "probe", "done"}, NEW w, w \in InvocationType,
           v.terminal <=> at = "done",
           w.owner = at, w.reservation = TRUE, w.cancelling = v.cancelling,
           w.terminal = v.terminal, w.reported = v.reported, w.registered = v.registered,
           w.cleanup = v.cleanup, w.engineCancel = v.engineCancel, w.ownerStop = v.ownerStop,
           w.settle = v.settle, v.terminal => w.state = v.state
    PROVE  Advance(v, w)
<1>1. v.terminal \in BOOLEAN /\ v.registered = FALSE /\ v.settle = "none" /\ v.ownerStop # "ok"
  BY DEF RunOK, InvocationType
<1>2. v.terminal => v.cleanup # "none"
  BY DEF RunOK
<1>3. v.engineCancel = "none"
  BY DEF RunOK, InvocationType
<1>4. v.cleanup = "done" => v.state = "unknown"
  BY DEF RunOK
<1>5. RunOK(w)
  BY <1>1, <1>2, <1>3, <1>4 DEF RunOK, Inside
<1> QED BY <1>1, <1>5 DEF Advance, Inside

LEMMA ReservedMoves ==
    ASSUME IInv, NEW r \in Runs, Reserved(r), inv[r].owner \in {"fresh", "lock"},
           ~inv[r].cancelling, lock[SessionOf[r]] = NoOne, work' = work
    PROVE  FilesTyped /\ \E w : QuietMoves(r, w)
<1> DEFINE s == SessionOf[r]
           v == [inv[r] EXCEPT !.reservation = TRUE]
           failed == [FailBeforeStarted(inv[r]) EXCEPT !.owner = "done"]
<1>1. ~AtWork(r) /\ inv[r].owner # "none" /\ inv[r].reservation = FALSE
  BY Typed DEF IInv, WorkOK, RunOK, InvocationType
<1>2. v.terminal = inv[r].terminal /\ v.expired = inv[r].expired
  BY Typed DEF InvocationType
<1>3. FilesTyped
  <2>1. files' = files \/ files' = [files EXCEPT ![s].known = TRUE]
    BY DEF Reserved
  <2>2. files \in [Sessions -> [known : BOOLEAN, marked : BOOLEAN]] /\ s \in Sessions
    BY Typed
  <2>3. [files EXCEPT ![s].known = TRUE] \in [Sessions -> [known : BOOLEAN, marked : BOOLEAN]]
    BY <2>2, FilesUpdate
  <2> QED BY <2>1, <2>2, <2>3 DEF FilesTyped
<1>4. ASSUME NEW at \in {"hook", "probe", "done"}, NEW w, w \in InvocationType,
             inv[r].terminal <=> at = "done",
             w.owner = at, w.reservation = TRUE, w.cancelling = inv[r].cancelling,
             w.terminal = inv[r].terminal, w.reported = inv[r].reported,
             w.registered = inv[r].registered, w.cleanup = inv[r].cleanup,
             w.engineCancel = inv[r].engineCancel, w.ownerStop = inv[r].ownerStop,
             w.settle = inv[r].settle, inv[r].terminal => w.state = inv[r].state,
             SetInv(r, w), lock' = [lock EXCEPT ![s] = r]
      PROVE  QuietMoves(r, w)
  <2>1. Advance(inv[r], w)
    BY <1>4, Typed, ReserveStep
  <2>2. WorkMoves(r, w)
    BY <1>1, WorkUnchanged
  <2> QED BY <1>4, <2>1, <2>2 DEF QuietMoves, RunMoves, LockMoves
<1>5. CASE ~inv[r].terminal /\ SetInv(r, failed) /\ lock' = lock
  <2>1. failed.owner = "done" /\ failed.reservation = FALSE
    BY <1>1, Typed DEF FailBeforeStarted, InvocationType
  <2>2. Over(inv[r], failed)
    BY <1>1, <1>5, Typed, FailUnreservedStep
  <2> HIDE DEF failed
  <2>3. WorkMoves(r, failed)
    BY <1>1, WorkUnchanged
  <2>4. QuietMoves(r, failed)
    BY <1>1, <1>5, <2>1, <2>2, <2>3 DEF QuietMoves, RunMoves, LockMoves, Over
  <2> QED BY <1>3, <2>4
<1>6. CASE v.terminal /\ SetInv(r, [v EXCEPT !.owner = "done"]) /\ lock' = [lock EXCEPT ![s] = r]
  <2> DEFINE w == [v EXCEPT !.owner = "done"]
  <2>1. w \in InvocationType
    BY Typed, UpdateType DEF Owners
  <2>2. /\ w.owner = "done" /\ w.reservation = TRUE /\ w.cancelling = inv[r].cancelling
        /\ w.terminal = inv[r].terminal /\ w.reported = inv[r].reported
        /\ w.registered = inv[r].registered /\ w.cleanup = inv[r].cleanup
        /\ w.engineCancel = inv[r].engineCancel /\ w.ownerStop = inv[r].ownerStop
        /\ w.settle = inv[r].settle /\ w.state = inv[r].state
    BY Typed DEF InvocationType
  <2>3. SetInv(r, w)
    BY <1>6
  <2> HIDE DEF w
  <2>4. QuietMoves(r, w)
    BY <1>2, <1>4, <1>6, <2>1, <2>2, <2>3
  <2> QED BY <1>3, <2>4
<1>7. CASE ~v.terminal /\ SetInv(r, [v EXCEPT !.owner = "hook"]) /\ lock' = [lock EXCEPT ![s] = r]
  <2> DEFINE w == [v EXCEPT !.owner = "hook"]
  <2>1. w \in InvocationType
    BY Typed, UpdateType DEF Owners
  <2>2. /\ w.owner = "hook" /\ w.reservation = TRUE /\ w.cancelling = inv[r].cancelling
        /\ w.terminal = inv[r].terminal /\ w.reported = inv[r].reported
        /\ w.registered = inv[r].registered /\ w.cleanup = inv[r].cleanup
        /\ w.engineCancel = inv[r].engineCancel /\ w.ownerStop = inv[r].ownerStop
        /\ w.settle = inv[r].settle /\ w.state = inv[r].state
    BY Typed DEF InvocationType
  <2>3. SetInv(r, w)
    BY <1>7
  <2> HIDE DEF w
  <2>4. QuietMoves(r, w)
    BY <1>2, <1>4, <1>7, <2>1, <2>2, <2>3
  <2> QED BY <1>3, <2>4
<1>8. CASE /\ ~v.terminal /\ SetInv(r, [v EXCEPT !.owner = "probe", !.state = "sending"])
           /\ lock' = [lock EXCEPT ![s] = r]
  <2> DEFINE w == [v EXCEPT !.owner = "probe", !.state = "sending"]
  <2>1. w \in InvocationType
    BY Typed, UpdateType DEF Owners, RunStates
  <2>2. /\ w.owner = "probe" /\ w.reservation = TRUE /\ w.cancelling = inv[r].cancelling
        /\ w.terminal = inv[r].terminal /\ w.reported = inv[r].reported
        /\ w.registered = inv[r].registered /\ w.cleanup = inv[r].cleanup
        /\ w.engineCancel = inv[r].engineCancel /\ w.ownerStop = inv[r].ownerStop
        /\ w.settle = inv[r].settle
    BY Typed DEF InvocationType
  <2>3. SetInv(r, w)
    BY <1>8
  <2> HIDE DEF w
  <2>4. QuietMoves(r, w)
    BY <1>2, <1>4, <1>8, <2>1, <2>2, <2>3
  <2> QED BY <1>3, <2>4
<1> QED BY <1>2, <1>3, <1>5, <1>6, <1>7, <1>8 DEF Reserved

LEMMA NotSent ==
    ASSUME IInv, NEW r \in Runs, inv[r].owner \notin {"posting", "done"}
    PROVE  ~AtWork(r)
  BY DEF IInv, WorkOK

(* One run at a time has the reservation of a session. *)
LEMMA Alone ==
    ASSUME IInv, NEW r \in Runs, NEW q \in Runs, SessionOf[q] = SessionOf[r],
           inv[r].reservation, inv[q].reservation
    PROVE  q = r
  BY DEF IInv, ReservationIsLock

(* The holder of the lock may kill the process: no other run is in it. *)
LEMMA KillMoves ==
    ASSUME IInv, NEW r \in Runs, NEW w, inv[r].reservation, RunMoves(r, w), WorkMoves(r, w),
           work'[r] \notin {"posted", "running"}, ~(w.owner = "setup" /\ ~w.cancelling),
           native' = [native EXCEPT ![SessionOf[r]] = Killed]
    PROVE  NativeMoves(SessionOf[r], Killed)
<1>1. inv'[r] = w /\ \A q \in Runs \ {r} : inv'[q] = inv[q]
  BY DEF RunMoves, SetInv, IInv, TypeOK
<1>2. ASSUME NEW q \in Runs, SessionOf[q] = SessionOf[r]
      PROVE  /\ work'[q] \notin {"posted", "running"}
             /\ ~(inv'[q].owner = "setup" /\ ~inv'[q].cancelling)
  <2>1. CASE q = r
    BY <2>1, <1>1
  <2>2. CASE q # r
    <3>1. ~inv[q].reservation
      BY <1>2, <2>2, Alone
    <3>2. ~AtWork(q) /\ inv[q].owner # "setup"
      BY <3>1, Typed DEF IInv, WorkOK, RunOK, Inside
    <3> QED BY <3>2, <2>2, <1>1 DEF WorkMoves
  <2> QED BY <2>1, <2>2
<1>3. Killed \in [alive : BOOLEAN, clean : BOOLEAN, halted : BOOLEAN] /\ Killed.alive = FALSE
  BY DEF Killed
<1> QED BY <1>2, <1>3 DEF NativeMoves

LEMMA QueueUnchanged ==
    ASSUME IInv, queue' = queue
    PROVE  QueueTyped
  BY DEF IInv, TypeOK, QueueTyped

LEMMA FilesUnchanged ==
    ASSUME IInv, files' = files
    PROVE  FilesTyped
  BY DEF IInv, TypeOK, FilesTyped

LEMMA OwnerBeginsStep ==
    ASSUME IInv, NEW r \in Runs, OwnerBegins(r)
    PROVE  IInv'
<1> DEFINE s == SessionOf[r]
<1>1. inv[r].owner = "fresh" /\ ~inv[r].cancelling /\ ~AtWork(r)
  BY NotSent DEF OwnerBegins, Owner
<1>2. native' = native /\ work' = work /\ Others
  BY DEF OwnerBegins, Others
<1>3. CASE OwnerEnds(r, FailBeforeStarted(inv[r])) /\ UNCHANGED <<queue, files>>
  <2>1. \E w : QuietMoves(r, w)
    BY <1>1, <1>2, <1>3, Typed, FailBeforeEnds DEF AtWork
  <2> QED BY <1>2, <1>3, <2>1, QuietStep, QueueUnchanged, FilesUnchanged
<1>4. CASE lock[s] = NoOne /\ Reserved(r) /\ UNCHANGED queue
  <2>1. FilesTyped /\ \E w : QuietMoves(r, w)
    BY <1>1, <1>2, <1>4, ReservedMoves
  <2> QED BY <1>2, <1>4, <2>1, QuietStep, QueueUnchanged
<1>5. CASE /\ queue' = [queue EXCEPT ![s] = Append(@, r)]
           /\ SetInv(r, [inv[r] EXCEPT !.owner = "lock"])
           /\ UNCHANGED <<lock, files>>
  <2> DEFINE w == [inv[r] EXCEPT !.owner = "lock"]
  <2>1. w \in InvocationType
    BY Typed, UpdateType DEF Owners
  <2>2. /\ w.owner = "lock" /\ w.reservation = inv[r].reservation /\ w.cancelling = inv[r].cancelling
        /\ w.terminal = inv[r].terminal /\ w.reported = inv[r].reported
        /\ w.registered = inv[r].registered /\ w.cleanup = inv[r].cleanup
        /\ w.engineCancel = inv[r].engineCancel /\ w.ownerStop = inv[r].ownerStop
        /\ w.settle = inv[r].settle /\ w.state = inv[r].state
    BY Typed DEF InvocationType
  <2>3. SetInv(r, w)
    BY <1>5
  <2> HIDE DEF w
  <2>4. RunOK(w)
    BY <1>1, <2>2, Typed DEF RunOK, Inside
  <2>5. Advance(inv[r], w)
    BY <1>1, <2>1, <2>2, <2>4 DEF Advance, Inside
  <2>6. QuietMoves(r, w)
    BY <1>1, <1>2, <1>5, <2>2, <2>3, <2>5, WorkUnchanged DEF QuietMoves, RunMoves, LockMoves
  <2>7. QueueTyped
    <3>1. Append(queue[s], r) \in Seq(Runs \union {Op})
      BY Typed
    <3> QED BY <3>1, <1>5, Typed DEF QueueTyped
  <2> QED BY <1>2, <1>5, <2>6, <2>7, QuietStep, FilesUnchanged
<1> QED BY <1>3, <1>4, <1>5 DEF OwnerBegins

LEMMA OwnerAcquiresStep ==
    ASSUME IInv, NEW r \in Runs, OwnerAcquires(r)
    PROVE  IInv'
<1> DEFINE s == SessionOf[r]
<1>1. /\ inv[r].owner = "lock" /\ ~inv[r].cancelling /\ lock[s] = NoOne
      /\ queue[s] # <<>> /\ queue' = [queue EXCEPT ![s] = Tail(@)] /\ Reserved(r)
  BY DEF OwnerAcquires, Owner
<1>2. native' = native /\ work' = work /\ Others
  BY DEF OwnerAcquires, Others
<1>3. FilesTyped /\ \E w : QuietMoves(r, w)
  BY <1>1, <1>2, ReservedMoves
<1>4. Tail(queue[s]) \in Seq(Runs \union {Op})
  BY <1>1, Typed
<1>5. QueueTyped
  BY <1>1, <1>4, Typed DEF QueueTyped
<1> QED BY <1>2, <1>3, <1>5, QuietStep

LEMMA OwnerLockTimesOutStep ==
    ASSUME IInv, NEW r \in Runs, OwnerLockTimesOut(r)
    PROVE  IInv'
<1> DEFINE s == SessionOf[r]
<1>1. /\ inv[r].owner = "lock" /\ ~AtWork(r) /\ OwnerEnds(r, FailBeforeStarted(inv[r]))
      /\ queue' = [queue EXCEPT ![s] = RemoveFirst(@, r)]
  BY NotSent DEF OwnerLockTimesOut, Owner
<1>2. native' = native /\ work' = work /\ files' = files /\ Others
  BY DEF OwnerLockTimesOut, Others
<1>3. \E w : QuietMoves(r, w)
  BY <1>1, <1>2, Typed, FailBeforeEnds DEF AtWork
<1>4. RemoveFirst(queue[s], r) \in Seq(Runs \union {Op})
  BY Typed, RemoveFirstType
<1>5. QueueTyped
  BY <1>1, <1>4, Typed DEF QueueTyped
<1> QED BY <1>2, <1>3, <1>5, QuietStep, FilesUnchanged

LEMMA OwnerGateStep ==
    ASSUME IInv, NEW r \in Runs, OwnerGate(r)
    PROVE  IInv'
<1>1. inv[r].owner = "hook" /\ ~inv[r].cancelling /\ ~AtWork(r)
  BY NotSent DEF OwnerGate, Owner
<1>2. native' = native /\ work' = work /\ queue' = queue /\ files' = files /\ Others
  BY DEF OwnerGate, Others
<1>3. ASSUME ~inv[r].terminal, UNCHANGED lock,
             SetInv(r, [inv[r] EXCEPT !.owner = "probe", !.state = "sending"])
      PROVE  \E w : QuietMoves(r, w)
  <2> DEFINE w == [inv[r] EXCEPT !.owner = "probe", !.state = "sending"]
  <2>1. w \in InvocationType
    BY Typed, UpdateType DEF Owners, RunStates
  <2>2. /\ w.owner = "probe" /\ w.reservation = inv[r].reservation /\ w.cancelling = inv[r].cancelling
        /\ w.terminal = inv[r].terminal /\ w.reported = inv[r].reported
        /\ w.registered = inv[r].registered /\ w.cleanup = inv[r].cleanup
        /\ w.engineCancel = inv[r].engineCancel /\ w.ownerStop = inv[r].ownerStop
        /\ w.settle = inv[r].settle
    BY Typed DEF InvocationType
  <2>3. SetInv(r, w)
    BY <1>3
  <2> HIDE DEF w
  <2>4. RunOK(w)
    BY <1>1, <1>3, <2>2, Typed DEF RunOK, Inside
  <2>5. Advance(inv[r], w)
    BY <1>1, <2>1, <2>2, <2>4 DEF Advance, Inside
  <2>6. QuietMoves(r, w)
    BY <1>1, <1>2, <1>3, <2>2, <2>3, <2>5, WorkUnchanged DEF QuietMoves, RunMoves, LockMoves
  <2> QED BY <2>6
<1>4. ASSUME NEW state \in {"skipped", "failed"}, OwnerEnds(r, FinishWithoutEngine(inv[r], state))
      PROVE  \E w : QuietMoves(r, w)
  <2>1. state \in RunStates
    BY DEF RunStates
  <2> QED BY <1>1, <1>2, <1>4, <2>1, Typed, FinishEnds DEF AtWork
<1>5. ASSUME OwnerEnds(r, FailBeforeStarted(inv[r]))
      PROVE  \E w : QuietMoves(r, w)
  BY <1>1, <1>2, <1>5, Typed, FailBeforeEnds DEF AtWork
<1>6. \E w : QuietMoves(r, w)
  BY <1>3, <1>4, <1>5 DEF OwnerGate
<1> QED BY <1>2, <1>6, QuietStep, QueueUnchanged, FilesUnchanged

LEMMA OwnerProbedStep ==
    ASSUME IInv, NEW r \in Runs, OwnerProbed(r)
    PROVE  IInv'
<1> DEFINE s == SessionOf[r]
<1>1. inv[r].owner = "probe" /\ ~inv[r].cancelling /\ ~AtWork(r)
  BY NotSent DEF OwnerProbed, Owner
<1>2. work' = work /\ QueueTyped /\ FilesTyped /\ Others
  BY QueueUnchanged, FilesUnchanged DEF OwnerProbed, Others
<1>3. CASE OwnerEnds(r, FinishWithoutEngine(inv[r], "failed")) /\ UNCHANGED native
  <2>1. "failed" \in RunStates
    BY DEF RunStates
  <2>2. \E w : QuietMoves(r, w)
    BY <1>1, <1>2, <1>3, <2>1, Typed, FinishEnds DEF AtWork
  <2> QED BY <1>2, <1>3, <2>2, QuietStep
<1>4. CASE OwnerEnds(r, FailBeforeStarted(inv[r])) /\ UNCHANGED native
  <2>1. \E w : QuietMoves(r, w)
    BY <1>1, <1>2, <1>4, Typed, FailBeforeEnds DEF AtWork
  <2> QED BY <1>2, <1>4, <2>1, QuietStep
<1>5. ASSUME NEW at \in {"refresh", "setup"}, UNCHANGED lock,
             SetInv(r, [inv[r] EXCEPT !.owner = at, !.registered = TRUE, !.input = FALSE]),
             native' = IF native[s].alive THEN native
                       ELSE [native EXCEPT ![s] = [@ EXCEPT !.clean = FALSE, !.halted = FALSE]]
      PROVE  IInv'
  <2> DEFINE w == [inv[r] EXCEPT !.owner = at, !.registered = TRUE, !.input = FALSE]
             n == IF native[s].alive THEN native[s]
                  ELSE [native[s] EXCEPT !.clean = FALSE, !.halted = FALSE]
  <2>1. w \in InvocationType
    BY Typed, UpdateType DEF Owners
  <2>2. /\ w.owner = at /\ w.reservation = inv[r].reservation /\ w.cancelling = inv[r].cancelling
        /\ w.terminal = inv[r].terminal /\ w.reported = inv[r].reported
        /\ w.registered = TRUE /\ w.cleanup = inv[r].cleanup
        /\ w.engineCancel = inv[r].engineCancel /\ w.ownerStop = inv[r].ownerStop
        /\ w.settle = inv[r].settle /\ w.state = inv[r].state
    BY Typed DEF InvocationType
  <2>3. SetInv(r, w)
    BY <1>5
  <2> HIDE DEF w
  <2>4. RunOK(w)
    BY <1>1, <2>2, Typed DEF RunOK, Inside
  <2>5. Advance(inv[r], w)
    BY <1>1, <2>1, <2>2, <2>4 DEF Advance, Inside
  <2>6. RunMoves(r, w) /\ WorkMoves(r, w)
    BY <1>1, <1>2, <1>5, <2>2, <2>3, <2>5, WorkUnchanged DEF RunMoves, LockMoves
  <2>7. NativeMoves(s, n)
    <3>1. native' = [native EXCEPT ![s] = n]
      BY <1>5, Typed
    <3>2. n \in [alive : BOOLEAN, clean : BOOLEAN, halted : BOOLEAN]
      BY Typed, ZenonT(40)
    <3>3. ~n.halted /\ (n.alive => native[s].alive)
      BY Typed DEF IInv, NativeOK
    <3> HIDE DEF n
    <3> QED BY <3>1, <3>2, <3>3 DEF NativeMoves
  <2> HIDE DEF n
  <2> QED BY <1>2, <2>6, <2>7, RunStep
<1> QED BY <1>3, <1>4, <1>5 DEF OwnerProbed

LEMMA OwnerCancelledStep ==
    ASSUME IInv, NEW r \in Runs, OwnerCancelled(r)
    PROVE  IInv'
<1> DEFINE s == SessionOf[r]
           w == [inv[r] EXCEPT !.owner = "done", !.cancelling = FALSE]
<1>1. /\ inv[r].cancelling /\ inv[r].owner \notin {"none", "done"} /\ SetInv(r, w)
      /\ queue' = [queue EXCEPT ![s] = RemoveFirst(@, r)]
  BY DEF OwnerCancelled
<1>2. work' = work /\ lock' = lock /\ FilesTyped /\ Others
  BY FilesUnchanged DEF OwnerCancelled, Others
<1>3. QueueTyped
  <2>1. RemoveFirst(queue[s], r) \in Seq(Runs \union {Op})
    BY Typed, RemoveFirstType
  <2> QED BY <1>1, <2>1, Typed DEF QueueTyped
<1>4. w \in InvocationType
  BY Typed, UpdateType DEF Owners
<1>5. /\ w.owner = "done" /\ w.reservation = inv[r].reservation /\ w.cancelling = FALSE
      /\ w.terminal = inv[r].terminal /\ w.reported = inv[r].reported
      /\ w.registered = inv[r].registered /\ w.cleanup = inv[r].cleanup
      /\ w.engineCancel = inv[r].engineCancel /\ w.ownerStop = inv[r].ownerStop
      /\ w.settle = inv[r].settle /\ w.state = inv[r].state
  BY Typed DEF InvocationType
<1> HIDE DEF w
<1>6. RunOK(w)
  BY <1>1, <1>5, Typed DEF RunOK, Inside
<1>7. Advance(inv[r], w)
  BY <1>1, <1>4, <1>5, <1>6 DEF Advance, Inside
<1>8. QuietMoves(r, w)
  BY <1>1, <1>2, <1>5, <1>7, WorkUnchanged DEF QuietMoves, RunMoves, LockMoves
<1>9. CASE native' = native
  BY <1>2, <1>3, <1>8, <1>9, QuietStep
<1>10. CASE inv[r].owner = "setup" /\ native' = [native EXCEPT ![s] = Killed]
  <2>1. inv[r].reservation /\ ~AtWork(r)
    BY <1>10, Typed, NotSent DEF RunOK, Inside
  <2>2. NativeMoves(s, Killed)
    BY <1>2, <1>5, <1>8, <1>10, <2>1, KillMoves DEF QuietMoves, AtWork
  <2> QED BY <1>2, <1>3, <1>8, <2>2, RunStep DEF QuietMoves
<1> QED BY <1>9, <1>10 DEF OwnerCancelled

-----------------------------------------------------------------------------
(* The send. *)

LEMMA EngineRefreshesStep ==
    ASSUME IInv, NEW r \in Runs, EngineRefreshes(r)
    PROVE  IInv'
<1> DEFINE s == SessionOf[r]
           n == [alive |-> FALSE, clean |-> FALSE, halted |-> FALSE]
           w == [inv[r] EXCEPT !.owner = "setup"]
<1>1. /\ inv[r].owner = "refresh" /\ ~inv[r].cancelling /\ ~AtWork(r)
      /\ SetInv(r, w) /\ native' = [native EXCEPT ![s] = n]
  BY NotSent DEF EngineRefreshes, Owner
<1>2. work' = work /\ lock' = lock /\ QueueTyped /\ FilesTyped /\ Others
  BY QueueUnchanged, FilesUnchanged DEF EngineRefreshes, Others
<1>3. w \in InvocationType
  BY Typed, UpdateType DEF Owners
<1>4. /\ w.owner = "setup" /\ w.reservation = inv[r].reservation /\ w.cancelling = inv[r].cancelling
      /\ w.terminal = inv[r].terminal /\ w.reported = inv[r].reported
      /\ w.registered = inv[r].registered /\ w.cleanup = inv[r].cleanup
      /\ w.engineCancel = inv[r].engineCancel /\ w.ownerStop = inv[r].ownerStop
      /\ w.settle = inv[r].settle /\ w.state = inv[r].state
  BY Typed DEF InvocationType
<1> HIDE DEF w
<1>5. RunOK(w)
  BY <1>1, <1>4, Typed DEF RunOK, Inside
<1>6. Advance(inv[r], w)
  BY <1>1, <1>3, <1>4, <1>5 DEF Advance, Inside
<1>7. RunMoves(r, w) /\ WorkMoves(r, w)
  BY <1>1, <1>2, <1>4, <1>6, WorkUnchanged DEF RunMoves, LockMoves
<1>8. n \in [alive : BOOLEAN, clean : BOOLEAN, halted : BOOLEAN] /\ n.alive = FALSE /\ n.halted = FALSE
  OBVIOUS
<1> HIDE DEF n
<1>9. NativeMoves(s, n)
  BY <1>1, <1>8 DEF NativeMoves
<1> QED BY <1>2, <1>7, <1>9, RunStep

(* The one step that starts a process for a run: the run has the lock, so no
   operation packs or deletes the session. *)
LEMMA EngineLaunchesStep ==
    ASSUME IInv, NEW r \in Runs, EngineLaunches(r)
    PROVE  IInv'
<1> DEFINE s == SessionOf[r]
<1>1. Owner(r, "setup") /\ native' = [native EXCEPT ![s].alive = TRUE]
  BY DEF EngineLaunches
<1>2. /\ inv' = inv /\ lock' = lock /\ queue' = queue /\ config' = config /\ files' = files
      /\ work' = work /\ op' = op /\ frozen' = frozen /\ closing' = closing
  BY DEF EngineLaunches, tasks
<1>3. s \in Sessions /\ ~native[s].halted
  BY <1>1, Typed DEF IInv, NativeOK
<1>4. native[s] \in [alive : BOOLEAN, clean : BOOLEAN, halted : BOOLEAN]
  BY <1>3, Typed
<1>5. /\ [native[s] EXCEPT !.alive = TRUE] \in [alive : BOOLEAN, clean : BOOLEAN, halted : BOOLEAN]
      /\ [native[s] EXCEPT !.alive = TRUE].halted = native[s].halted
  BY <1>4
<1>6. /\ native' \in [Sessions -> [alive : BOOLEAN, clean : BOOLEAN, halted : BOOLEAN]]
      /\ native'[s].halted = native[s].halted
      /\ \A z \in Sessions \ {s} : native'[z] = native[z]
  BY <1>1, <1>3, <1>5, Typed
<1>7. TypeOK'
  BY <1>2, <1>6 DEF IInv, TypeOK, OpType
<1>8. lock[s] = r
  BY <1>1, Typed DEF IInv, ReservationIsLock, RunOK, Inside, Owner
<1>9. op[s].pc \notin {"packing", "deleting"}
  BY <1>3, <1>8, HoldersAssumption DEF IInv, OpIsLock
<1>10. OpOK'
  BY <1>2, <1>6, <1>9 DEF IInv, OpOK
<1>11. WorkOK' /\ NativeOK'
  BY <1>2, <1>3, <1>6, SessionOfAssumption DEF IInv, WorkOK, NativeOK, AtWork, Owner
<1>12. RunsOK' /\ ReservationIsLock' /\ LockIsOfSession' /\ OpIsLock' /\ FrozenOK' /\ ClosingOK'
  BY <1>2 DEF IInv, RunsOK, ReservationIsLock, LockIsOfSession, OpIsLock, FrozenOK, ClosingOK,
              ClosedIsQuiet, AtWork
<1> QED BY <1>7, <1>10, <1>11, <1>12 DEF IInv

(* The one step that sends a prompt: the process it goes to is not halted. *)
LEMMA EnginePostsStep ==
    ASSUME IInv, NEW r \in Runs, EnginePosts(r)
    PROVE  IInv'
<1> DEFINE w == [inv[r] EXCEPT !.owner = "posting"]
<1>1. /\ inv[r].owner = "setup" /\ ~inv[r].cancelling /\ SetInv(r, w)
      /\ work' = [work EXCEPT ![r] = "posted"]
  BY DEF EnginePosts, Owner
<1>2. /\ lock' = lock /\ queue' = queue /\ config' = config /\ files' = files
      /\ native' = native /\ op' = op /\ frozen' = frozen /\ closing' = closing
  BY DEF EnginePosts
<1>3. w \in InvocationType
  BY Typed, UpdateType DEF Owners
<1>4. /\ w.owner = "posting" /\ w.reservation = inv[r].reservation /\ w.cancelling = inv[r].cancelling
      /\ w.terminal = inv[r].terminal /\ w.reported = inv[r].reported
      /\ w.registered = inv[r].registered /\ w.cleanup = inv[r].cleanup
      /\ w.engineCancel = inv[r].engineCancel /\ w.ownerStop = inv[r].ownerStop
      /\ w.settle = inv[r].settle /\ w.state = inv[r].state
  BY Typed DEF InvocationType
<1> HIDE DEF w
<1>5. RunOK(w) /\ w.registered /\ w.reservation /\ w.engineCancel = "none"
  BY <1>1, <1>4, Typed DEF RunOK, Inside
<1>6. inv' \in [Runs -> InvocationType] /\ inv'[r] = w /\ \A q \in Runs \ {r} : inv'[q] = inv[q]
  BY <1>1, <1>3, Typed DEF SetInv
<1>7. /\ work' \in [Runs -> {"none", "posted", "running", "ended"}]
      /\ \A q \in Runs \ {r} : work'[q] = work[q]
  BY <1>1, Typed
<1>8. TypeOK' /\ RunsOK'
  BY <1>2, <1>5, <1>6, <1>7 DEF IInv, TypeOK, OpType, RunsOK
<1>9. ReservationIsLock' /\ LockIsOfSession' /\ OpIsLock' /\ OpOK'
  BY <1>2, <1>4, <1>6 DEF IInv, ReservationIsLock, LockIsOfSession, OpIsLock, OpOK
<1>10. WorkOK'
  <2>1. ~native[SessionOf[r]].halted
    BY <1>1 DEF IInv, NativeOK, Owner
  <2> QED BY <2>1, <1>2, <1>4, <1>5, <1>6, <1>7 DEF IInv, WorkOK, AtWork
<1>11. NativeOK'
  BY <1>2, <1>4, <1>6 DEF IInv, NativeOK, Owner
<1>12. frozen = "no" /\ closing # "closed"
  BY <1>1 DEF IInv, FrozenOK, ClosingOK, ClosedIsQuiet, Inside
<1>13. FrozenOK' /\ ClosingOK'
  BY <1>1, <1>2, <1>4, <1>6, <1>12 DEF IInv, FrozenOK, ClosingOK, ClosedIsQuiet
<1> QED BY <1>8, <1>9, <1>10, <1>11, <1>13 DEF IInv

LEMMA EngineSetupFailsStep ==
    ASSUME IInv, NEW r \in Runs, EngineSetupFails(r)
    PROVE  IInv'
<1> DEFINE s == SessionOf[r]
<1>1. /\ inv[r].owner \in {"refresh", "setup"} /\ ~AtWork(r)
      /\ OwnerEnds(r, FailBeforeStarted(inv[r]))
  BY NotSent DEF EngineSetupFails
<1>2. work' = work /\ QueueTyped /\ FilesTyped /\ Others
  BY QueueUnchanged, FilesUnchanged DEF EngineSetupFails, Others
<1>3. native' = native \/ native' = [native EXCEPT ![s] = Killed]
  <2>1. PICK n \in {native[s], Killed} : native' = [native EXCEPT ![s] = n]
    BY DEF EngineSetupFails, SetupFailures
  <2>2. [native EXCEPT ![s] = native[s]] = native
    BY Typed
  <2> QED BY <2>1, <2>2
<1>4. PICK w : QuietMoves(r, w) /\ w.owner = "done"
  BY <1>1, <1>2, Typed, FailBeforeEnds DEF AtWork
<1>5. CASE native' = native
  BY <1>2, <1>4, <1>5, QuietStep
<1>6. CASE native' = [native EXCEPT ![s] = Killed]
  <2>1. inv[r].reservation
    BY <1>1, Typed DEF RunOK, Inside
  <2>2. NativeMoves(s, Killed)
    BY <1>1, <1>2, <1>4, <1>6, <2>1, KillMoves DEF QuietMoves, AtWork
  <2> QED BY <1>2, <1>4, <2>2, RunStep DEF QuietMoves
<1> QED BY <1>3, <1>5, <1>6

LEMMA EngineRejectsStep ==
    ASSUME IInv, NEW r \in Runs, EngineRejects(r)
    PROVE  IInv'
<1>1. /\ inv[r].owner = "posting" /\ OwnerEnds(r, FailBeforeStarted(inv[r]))
      /\ work' = [work EXCEPT ![r] = "none"]
  BY DEF EngineRejects, Owner
<1>2. native' = native /\ QueueTyped /\ FilesTyped /\ Others
  BY QueueUnchanged, FilesUnchanged DEF EngineRejects, Others
<1>3. /\ work' \in [Runs -> {"none", "posted", "running", "ended"}] /\ work'[r] = "none"
      /\ \A q \in Runs : work'[q] \in {"posted", "running"} => AtWork(q)
  BY <1>1, Typed DEF AtWork
<1>4. \E w : QuietMoves(r, w)
  BY <1>1, <1>3, FailBeforeEnds
<1> QED BY <1>2, <1>4, QuietStep

LEMMA SendUnconfirmedStep ==
    ASSUME IInv, NEW r \in Runs, SendUnconfirmed(r)
    PROVE  IInv'
<1>1. inv[r].owner \in {"refresh", "setup", "posting"} /\ ~inv[r].cancelling
  BY DEF SendUnconfirmed
<1>2. /\ native' = native /\ work' = work /\ lock' = lock
      /\ QueueTyped /\ FilesTyped /\ Others
  BY QueueUnchanged, FilesUnchanged DEF SendUnconfirmed, Others
<1>3. ASSUME inv[r].terminal, SetInv(r, [inv[r] EXCEPT !.owner = "done"])
      PROVE  \E w : QuietMoves(r, w)
  <2> DEFINE w == [inv[r] EXCEPT !.owner = "done"]
  <2>1. Advance(inv[r], w) /\ w.owner = "done" /\ w.reservation = inv[r].reservation
        /\ w.engineCancel = inv[r].engineCancel
    BY <1>1, <1>3, Typed, OwnerDoneStep
  <2>2. SetInv(r, w)
    BY <1>3
  <2> HIDE DEF w
  <2>3. QuietMoves(r, w)
    BY <1>2, <2>1, <2>2, WorkUnchanged DEF QuietMoves, RunMoves, LockMoves
  <2> QED BY <2>3
<1>4. ASSUME NEW state \in {"unknown", "failed"}, ~inv[r].terminal,
             SetInv(r, [EnsureCleanup(inv[r], state) EXCEPT
                           !.owner = "done", !.started = Answer(inv[r], "error")])
      PROVE  \E w : QuietMoves(r, w)
  <2> DEFINE u == EnsureCleanup(inv[r], state)
             w == [u EXCEPT !.owner = "done", !.started = Answer(inv[r], "error")]
  <2>1. state \in RunStates /\ Answer(inv[r], "error") \in {"pending", "ok", "error", "cancelled"}
    BY Typed DEF RunStates, Answer, InvocationType
  <2>2. /\ u \in InvocationType /\ RunOK(u) /\ u.terminal = TRUE /\ u.cleanup = "claimed"
        /\ u.owner = inv[r].owner /\ u.reservation = inv[r].reservation
        /\ u.registered = inv[r].registered /\ u.engineCancel = "none" /\ u.reported = FALSE
    <3>1. inv[r] \in InvocationType /\ RunOK(inv[r]) /\ ~inv[r].terminal /\ inv[r].owner # "none"
      BY <1>1, <1>4, Typed
    <3>2. state \in RunStates
      BY <2>1
    <3> QED BY <3>1, <3>2, ClaimStep DEF Claimed
  <2>3. SetInv(r, w) /\ inv[r].engineCancel = "none"
    BY <1>1, <1>4, Typed DEF RunOK
  <2> HIDE DEF u
  <2>4. w \in InvocationType
    BY <2>1, <2>2, UpdateType DEF Owners
  <2>5. /\ w.owner = "done" /\ w.reservation = inv[r].reservation
        /\ w.terminal = TRUE /\ w.reported = FALSE
        /\ w.registered = inv[r].registered /\ w.cleanup = "claimed" /\ w.engineCancel = "none"
    BY <2>2 DEF InvocationType
  <2> HIDE DEF w
  <2>6. RunOK(w)
    BY <1>1, <2>5, Typed DEF RunOK, Inside
  <2>7. Advance(inv[r], w)
    BY <1>1, <2>4, <2>5, <2>6 DEF Advance, Inside
  <2>8. QuietMoves(r, w)
    BY <1>2, <2>3, <2>5, <2>7, WorkUnchanged DEF QuietMoves, RunMoves, LockMoves
  <2> QED BY <2>8
<1>5. \E w : QuietMoves(r, w)
  BY <1>3, <1>4 DEF SendUnconfirmed
<1> QED BY <1>2, <1>5, QuietStep

LEMMA EngineReceiptStep ==
    ASSUME IInv, NEW r \in Runs, EngineReceipt(r)
    PROVE  IInv'
<1>1. inv[r].owner = "posting" /\ ~inv[r].cancelling
  BY DEF EngineReceipt, Owner
<1>2. native' = native /\ work' = work /\ lock' = lock /\ QueueTyped /\ Others
  BY QueueUnchanged DEF EngineReceipt, Others
<1>3. FilesTyped
  <2>1. files' = [files EXCEPT ![SessionOf[r]].marked = TRUE]
    BY DEF EngineReceipt
  <2>2. files \in [Sessions -> [known : BOOLEAN, marked : BOOLEAN]] /\ SessionOf[r] \in Sessions
    BY Typed
  <2>3. [files EXCEPT ![SessionOf[r]].marked = TRUE] \in [Sessions -> [known : BOOLEAN, marked : BOOLEAN]]
    BY <2>2, FilesUpdate
  <2> QED BY <2>1, <2>3 DEF FilesTyped
<1>4. ASSUME NEW w, w \in InvocationType, SetInv(r, w), w.owner = "done",
             w.reservation = inv[r].reservation, w.terminal = inv[r].terminal,
             w.reported = inv[r].reported, w.registered = inv[r].registered,
             w.cleanup = inv[r].cleanup, w.engineCancel = inv[r].engineCancel,
             inv[r].terminal => w.state = inv[r].state
      PROVE  QuietMoves(r, w)
  <2>1. RunOK(w)
    BY <1>1, <1>4, Typed DEF RunOK, Inside
  <2>2. Advance(inv[r], w)
    BY <1>1, <1>4, <2>1 DEF Advance, Inside
  <2> QED BY <1>2, <1>4, <2>2, WorkUnchanged DEF QuietMoves, RunMoves, LockMoves
<1>5. ASSUME inv[r].terminal, SetInv(r, [inv[r] EXCEPT !.owner = "done", !.input = TRUE])
      PROVE  \E w : QuietMoves(r, w)
  <2> DEFINE w == [inv[r] EXCEPT !.owner = "done", !.input = TRUE]
  <2>1. w \in InvocationType
    BY Typed, UpdateType DEF Owners
  <2>2. /\ w.owner = "done" /\ w.reservation = inv[r].reservation
        /\ w.terminal = inv[r].terminal /\ w.reported = inv[r].reported
        /\ w.registered = inv[r].registered /\ w.cleanup = inv[r].cleanup
        /\ w.engineCancel = inv[r].engineCancel /\ w.state = inv[r].state
    BY Typed DEF InvocationType
  <2>3. SetInv(r, w)
    BY <1>5
  <2> HIDE DEF w
  <2> QED BY <1>4, <2>1, <2>2, <2>3
<1>6. ASSUME ~inv[r].terminal,
             SetInv(r, [inv[r] EXCEPT !.owner = "done", !.input = TRUE, !.state = "running",
                                      !.started = Answer(inv[r], "ok"), !.settle = "waiting"])
      PROVE  \E w : QuietMoves(r, w)
  <2> DEFINE u == [inv[r] EXCEPT !.owner = "done", !.input = TRUE, !.state = "running"]
             w == [inv[r] EXCEPT !.owner = "done", !.input = TRUE, !.state = "running",
                                 !.started = Answer(inv[r], "ok"), !.settle = "waiting"]
  <2>1. w \in InvocationType
    <3>1. u \in InvocationType
      BY Typed, UpdateType DEF Owners, RunStates
    <3>2. Answer(inv[r], "ok") \in {"pending", "ok", "error", "cancelled"}
      BY Typed DEF Answer, InvocationType
    <3>3. w = [u EXCEPT !.started = Answer(inv[r], "ok"), !.settle = "waiting"]
      OBVIOUS
    <3> HIDE DEF u, w
    <3> QED BY <3>1, <3>2, <3>3, UpdateType
  <2>2. /\ w.owner = "done" /\ w.reservation = inv[r].reservation
        /\ w.terminal = inv[r].terminal /\ w.reported = inv[r].reported
        /\ w.registered = inv[r].registered /\ w.cleanup = inv[r].cleanup
        /\ w.engineCancel = inv[r].engineCancel
    BY Typed DEF InvocationType
  <2>3. SetInv(r, w)
    BY <1>6
  <2> HIDE DEF w
  <2> QED BY <1>4, <1>6, <2>1, <2>2, <2>3
<1>7. \E w : QuietMoves(r, w)
  BY <1>5, <1>6 DEF EngineReceipt
<1> QED BY <1>2, <1>3, <1>7, QuietStep

-----------------------------------------------------------------------------
(* Claims, the deadline and the settlement. *)

(* A claim by a trigger: the tasks, the lock and native are left to the cleanup. *)
ClaimedBy(v, w) ==
    /\ Advance(v, w) /\ w.terminal
    /\ w.owner = v.owner /\ w.cancelling = v.cancelling
    /\ w.reservation = v.reservation /\ w.engineCancel = v.engineCancel

LEMMA TriggerStep ==
    ASSUME NEW v \in InvocationType, RunOK(v), ~v.terminal, v.owner # "none",
           NEW state \in RunStates, NEW how \in {"error", "cancelled"}
    PROVE  ClaimedBy(v, EnsureCleanup([v EXCEPT !.started = Answer(v, how)], state))
<1> DEFINE u == [v EXCEPT !.started = Answer(v, how)]
           w == EnsureCleanup(u, state)
<1>1. /\ u \in InvocationType /\ RunOK(u) /\ u.terminal = v.terminal /\ u.owner = v.owner
      /\ u.cancelling = v.cancelling /\ u.reservation = v.reservation
      /\ u.registered = v.registered /\ u.engineCancel = v.engineCancel
  BY AnswerStep
<1> HIDE DEF u
<1>2. Claimed(u, w)
  BY <1>1, ClaimStep
<1> HIDE DEF w
<1>3. v.engineCancel = "none"
  BY DEF RunOK
<1>4. Advance(v, w)
  BY <1>1, <1>2 DEF Advance, Claimed
<1>5. ClaimedBy(v, w)
  BY <1>1, <1>2, <1>3, <1>4 DEF ClaimedBy, Claimed
<1> QED BY <1>5 DEF u, w

LEMMA ClaimedMoves ==
    ASSUME IInv, NEW r \in Runs, NEW w, ClaimedBy(inv[r], w), SetInv(r, w),
           lock' = lock, work' = work
    PROVE  QuietMoves(r, w)
  BY WorkUnchanged DEF QuietMoves, RunMoves, LockMoves, ClaimedBy, Owner

(* TimeoutCancel of a run that is over only takes the watch off. *)
LEMMA TimeoutStep ==
    ASSUME NEW v \in InvocationType, RunOK(v), v.owner # "none"
    PROVE  /\ Advance(v, TimeoutCancel(v))
           /\ TimeoutCancel(v).owner = v.owner /\ TimeoutCancel(v).cancelling = v.cancelling
           /\ TimeoutCancel(v).reservation = v.reservation
           /\ TimeoutCancel(v).engineCancel = v.engineCancel
<1>1. CASE v.terminal
  <2> DEFINE w == [v EXCEPT !.watch = "off"]
  <2>1. TimeoutCancel(v) = w
    BY <1>1 DEF TimeoutCancel
  <2>2. w \in InvocationType
    BY UpdateType
  <2>3. /\ w.owner = v.owner /\ w.reservation = v.reservation /\ w.cancelling = v.cancelling
        /\ w.terminal = v.terminal /\ w.reported = v.reported
        /\ w.registered = v.registered /\ w.cleanup = v.cleanup
        /\ w.engineCancel = v.engineCancel /\ w.ownerStop = v.ownerStop
        /\ w.settle = v.settle /\ w.state = v.state
    BY DEF InvocationType
  <2> HIDE DEF w
  <2>4. RunOK(w)
    BY <2>3 DEF RunOK
  <2> QED BY <2>1, <2>2, <2>3, <2>4 DEF Advance
<1>2. CASE ~v.terminal
  <2>1. TimeoutCancel(v) = EnsureCleanup([v EXCEPT !.started = Answer(v, "error")], "failed")
    BY <1>2 DEF TimeoutCancel
  <2>2. "failed" \in RunStates
    BY DEF RunStates
  <2>3. ClaimedBy(v, TimeoutCancel(v))
    BY <1>2, <2>1, <2>2, TriggerStep
  <2> QED BY <2>3 DEF ClaimedBy
<1> QED BY <1>1, <1>2

LEMMA WatchFiresStep ==
    ASSUME IInv, NEW r \in Runs, WatchFires(r)
    PROVE  IInv'
<1> DEFINE w == TimeoutCancel(inv[r])
<1>1. SetInv(r, w) /\ inv[r].watch = "armed"
  BY DEF WatchFires
<1>2. /\ native' = native /\ work' = work /\ lock' = lock
      /\ QueueTyped /\ FilesTyped /\ Others
  BY QueueUnchanged, FilesUnchanged DEF WatchFires, Others
<1>3. inv[r].owner # "none"
  <2>1. NotRetained.watch = "off"
    BY DEF NotRetained, NewInvocation
  <2> QED BY <1>1, <2>1, Typed DEF RunOK
<1>4. /\ Advance(inv[r], w) /\ w.owner = inv[r].owner /\ w.cancelling = inv[r].cancelling
      /\ w.reservation = inv[r].reservation /\ w.engineCancel = inv[r].engineCancel
  BY <1>3, Typed, TimeoutStep
<1> HIDE DEF w
<1>5. QuietMoves(r, w)
  BY <1>1, <1>2, <1>4, WorkUnchanged DEF QuietMoves, RunMoves, LockMoves, Owner
<1> QED BY <1>2, <1>5, QuietStep

LEMMA CancelStep ==
    ASSUME IInv, NEW r \in Runs, Cancel(r)
    PROVE  IInv'
<1>1. inv[r].owner # "none" /\ ~inv[r].terminal
  BY DEF Cancel, Retained
<1>2. /\ native' = native /\ work' = work /\ lock' = lock
      /\ QueueTyped /\ FilesTyped /\ Others
  BY QueueUnchanged, FilesUnchanged DEF Cancel, Others
<1>3. "failed" \in RunStates /\ "cancelled" \in RunStates
  BY DEF RunStates
<1>4. PICK w : SetInv(r, w) /\ ClaimedBy(inv[r], w)
  <2>1. \/ SetInv(r, EnsureCleanup([inv[r] EXCEPT !.started = Answer(inv[r], "error")], "failed"))
        \/ SetInv(r, EnsureCleanup([inv[r] EXCEPT !.started = Answer(inv[r], "cancelled")], "cancelled"))
    BY <1>1 DEF Cancel, TimeoutCancel, ClaimExplicitCancel
  <2>2. /\ ClaimedBy(inv[r], EnsureCleanup([inv[r] EXCEPT !.started = Answer(inv[r], "error")], "failed"))
        /\ ClaimedBy(inv[r], EnsureCleanup([inv[r] EXCEPT !.started = Answer(inv[r], "cancelled")], "cancelled"))
    BY <1>1, <1>3, Typed, TriggerStep
  <2> QED BY <2>1, <2>2
<1> QED BY <1>2, <1>4, ClaimedMoves, QuietStep

LEMMA DeadlinePassesStep ==
    ASSUME IInv, NEW r \in Runs, DeadlinePasses(r)
    PROVE  IInv'
<1> DEFINE w == [inv[r] EXCEPT !.expired = TRUE]
<1>1. inv[r].owner # "none" /\ inv' = [inv EXCEPT ![r].expired = TRUE]
  BY DEF DeadlinePasses, Retained
<1>2. /\ native' = native /\ work' = work /\ lock' = lock
      /\ QueueTyped /\ FilesTyped /\ Others
  BY QueueUnchanged, FilesUnchanged DEF DeadlinePasses, Others
<1>3. w \in InvocationType
  BY Typed, UpdateType
<1>4. /\ w.owner = inv[r].owner /\ w.reservation = inv[r].reservation
      /\ w.cancelling = inv[r].cancelling
      /\ w.terminal = inv[r].terminal /\ w.reported = inv[r].reported
      /\ w.registered = inv[r].registered /\ w.cleanup = inv[r].cleanup
      /\ w.engineCancel = inv[r].engineCancel /\ w.ownerStop = inv[r].ownerStop
      /\ w.settle = inv[r].settle /\ w.state = inv[r].state
  BY Typed DEF InvocationType
<1>5. SetInv(r, w)
  BY <1>1, Typed DEF SetInv
<1> HIDE DEF w
<1>6. RunOK(w)
  BY <1>1, <1>4, Typed DEF RunOK
<1>7. Advance(inv[r], w)
  BY <1>1, <1>3, <1>4, <1>6 DEF Advance
<1>8. QuietMoves(r, w)
  BY <1>2, <1>4, <1>5, <1>7, WorkUnchanged DEF QuietMoves, RunMoves, LockMoves, Owner
<1> QED BY <1>2, <1>8, QuietStep

LEMMA SettledOnce ==
    ASSUME IInv, NEW r \in Runs, inv[r].settle = "waiting"
    PROVE  inv[r].owner = "done"
  BY Typed DEF RunOK

(* A settlement that comes after a claim changes nothing but its own task. *)
LEMMA SettleDoneMoves ==
    ASSUME IInv, NEW r \in Runs, inv[r].owner = "done",
           SetInv(r, [inv[r] EXCEPT !.settle = "done"]), lock' = lock, work' = work
    PROVE  \E w : QuietMoves(r, w)
<1> DEFINE w == [inv[r] EXCEPT !.settle = "done"]
<1>1. w \in InvocationType
  BY Typed, UpdateType
<1>2. /\ w.owner = inv[r].owner /\ w.reservation = inv[r].reservation
      /\ w.cancelling = inv[r].cancelling
      /\ w.terminal = inv[r].terminal /\ w.reported = inv[r].reported
      /\ w.registered = inv[r].registered /\ w.cleanup = inv[r].cleanup
      /\ w.engineCancel = inv[r].engineCancel /\ w.ownerStop = inv[r].ownerStop
      /\ w.state = inv[r].state
  BY Typed DEF InvocationType
<1> HIDE DEF w
<1>3. RunOK(w)
  BY <1>2, Typed DEF RunOK
<1>4. Advance(inv[r], w)
  BY <1>1, <1>2, <1>3 DEF Advance
<1>5. QuietMoves(r, w)
  BY <1>2, <1>4, WorkUnchanged DEF QuietMoves, RunMoves, LockMoves, Owner, w
<1> QED BY <1>5

LEMMA SettlesStep ==
    ASSUME IInv, NEW r \in Runs, Settles(r)
    PROVE  IInv'
<1>1. inv[r].owner = "done" /\ ~AtWork(r)
  BY SettledOnce DEF Settles, AtWork
<1>2. native' = native /\ work' = work /\ QueueTyped /\ FilesTyped /\ Others
  BY QueueUnchanged, FilesUnchanged DEF Settles, Others
<1>3. ASSUME SetInv(r, [inv[r] EXCEPT !.settle = "done"]), lock' = lock
      PROVE  \E w : QuietMoves(r, w)
  BY <1>1, <1>2, <1>3, SettleDoneMoves
<1>4. ASSUME ~inv[r].terminal, NEW outcome \in {"completed", "failed", "cancelled"},
             Release(r, [inv[r] EXCEPT !.settle = "done", !.terminal = TRUE, !.reported = TRUE,
                                       !.state = outcome, !.watch = "off"])
      PROVE  \E w : QuietMoves(r, w)
  <2> DEFINE u == [inv[r] EXCEPT !.settle = "done", !.terminal = TRUE, !.reported = TRUE,
                                 !.state = outcome, !.watch = "off"]
             w == [u EXCEPT !.reservation = FALSE]
  <2>1. outcome \in RunStates
    BY DEF RunStates
  <2>2. u \in InvocationType
    <3> DEFINE x == [inv[r] EXCEPT !.settle = "done", !.terminal = TRUE, !.reported = TRUE]
    <3>1. x \in InvocationType
      BY Typed, UpdateType
    <3>2. u = [x EXCEPT !.state = outcome, !.watch = "off"]
      OBVIOUS
    <3> HIDE DEF u, x
    <3>3. \A y \in RunStates : [x EXCEPT !.state = y] \in InvocationType
      BY <3>1, UpdateType
    <3> QED BY <2>1, <3>2, <3>3, UpdateType
  <2>3. /\ u.owner = "done" /\ u.reservation = inv[r].reservation
        /\ u.terminal = TRUE /\ u.reported = TRUE
        /\ u.registered = inv[r].registered /\ u.cleanup = inv[r].cleanup
        /\ u.engineCancel = inv[r].engineCancel
    BY <1>1, Typed DEF InvocationType
  <2>4. SetInv(r, w) /\ lock' = IF u.reservation THEN [lock EXCEPT ![SessionOf[r]] = NoOne] ELSE lock
    BY <1>4 DEF Release
  <2> HIDE DEF u
  <2>5. w \in InvocationType
    BY <2>2, UpdateType
  <2>6. /\ w.owner = "done" /\ w.reservation = FALSE
        /\ w.terminal = TRUE /\ w.reported = TRUE
        /\ w.registered = inv[r].registered /\ w.cleanup = inv[r].cleanup
        /\ w.engineCancel = inv[r].engineCancel
    BY <2>2, <2>3 DEF InvocationType
  <2>7. inv[r].cleanup = "none" /\ inv[r].engineCancel = "none"
    BY <1>4, Typed DEF RunOK
  <2> HIDE DEF w
  <2>8. RunOK(w)
    BY <2>6, <2>7 DEF RunOK, Inside
  <2>9. Advance(inv[r], w)
    BY <1>1, <2>5, <2>6, <2>8 DEF Advance, Inside
  <2>10. QuietMoves(r, w)
    BY <1>1, <1>2, <2>3, <2>4, <2>6, <2>9, WorkUnchanged DEF QuietMoves, RunMoves, LockMoves
  <2> QED BY <2>10
<1>5. \E w : QuietMoves(r, w)
  BY <1>3, <1>4 DEF Settles
<1> QED BY <1>2, <1>5, QuietStep

LEMMA SettlementLostStep ==
    ASSUME IInv, NEW r \in Runs, SettlementLost(r)
    PROVE  IInv'
<1>1. inv[r].owner = "done"
  BY SettledOnce DEF SettlementLost
<1>2. native' = native /\ work' = work /\ lock' = lock /\ QueueTyped /\ FilesTyped /\ Others
  BY QueueUnchanged, FilesUnchanged DEF SettlementLost, Others
<1>3. ASSUME SetInv(r, [inv[r] EXCEPT !.settle = "done"])
      PROVE  \E w : QuietMoves(r, w)
  BY <1>1, <1>2, <1>3, SettleDoneMoves
<1>4. ASSUME ~inv[r].terminal, SetInv(r, [EnsureCleanup(inv[r], "unknown") EXCEPT !.settle = "done"])
      PROVE  \E w : QuietMoves(r, w)
  <2> DEFINE u == EnsureCleanup(inv[r], "unknown")
             w == [u EXCEPT !.settle = "done"]
  <2>1. "unknown" \in RunStates /\ inv[r].engineCancel = "none"
    BY <1>4, Typed DEF RunStates, RunOK
  <2>2. Claimed(inv[r], u)
    BY <1>1, <1>4, <2>1, Typed, ClaimStep
  <2>3. SetInv(r, w)
    BY <1>4
  <2> HIDE DEF u
  <2>4. w \in InvocationType
    BY <2>2, UpdateType DEF Claimed
  <2>5. /\ w.owner = "done" /\ w.reservation = inv[r].reservation
        /\ w.terminal = TRUE /\ w.reported = FALSE
        /\ w.registered = inv[r].registered /\ w.cleanup = "claimed" /\ w.engineCancel = "none"
    BY <1>1, <2>2 DEF Claimed, InvocationType
  <2> HIDE DEF w
  <2>6. RunOK(w)
    BY <1>4, <2>5, Typed DEF RunOK, Inside
  <2>7. Advance(inv[r], w)
    BY <1>1, <2>4, <2>5, <2>6 DEF Advance, Inside
  <2>8. QuietMoves(r, w)
    BY <1>2, <2>1, <2>3, <2>5, <2>7, WorkUnchanged DEF QuietMoves, RunMoves, LockMoves
  <2> QED BY <2>8
<1>5. \E w : QuietMoves(r, w)
  BY <1>3, <1>4 DEF SettlementLost
<1> QED BY <1>2, <1>5, QuietStep

-----------------------------------------------------------------------------
(* The cleanup. *)

LEMMA CleanupEntersStep ==
    ASSUME IInv, NEW r \in Runs, CleanupEnters(r)
    PROVE  IInv'
<1> DEFINE v == inv[r]
           live == v.owner # "done"
           w == [v EXCEPT !.cleanup = "observing",
                          !.engineCancel = IF v.registered THEN "halting" ELSE "ok",
                          !.ownerStop = IF live THEN "joining" ELSE "ok",
                          !.cancelling = live]
<1>1. v.cleanup = "claimed" /\ SetInv(r, w)
  BY DEF CleanupEnters
<1>2. native' = native /\ work' = work /\ lock' = lock /\ QueueTyped /\ FilesTyped /\ Others
  BY QueueUnchanged, FilesUnchanged DEF CleanupEnters, Others
<1>3. v.owner # "none"
  <2>1. NotRetained.cleanup = "none"
    BY DEF NotRetained, NewInvocation
  <2> QED BY <1>1, <2>1, Typed DEF RunOK
<1>4. w \in InvocationType
  <2> DEFINE a == IF v.registered THEN "halting" ELSE "ok"
             b == IF live THEN "joining" ELSE "ok"
             x == [v EXCEPT !.cleanup = "observing"]
  <2>1. x \in InvocationType
    BY Typed, UpdateType
  <2>2. a \in {"none", "halting", "ok", "failed"} /\ b \in {"none", "joining", "ok", "failed"}
    OBVIOUS
  <2>3. live \in BOOLEAN
    OBVIOUS
  <2>4. w = [x EXCEPT !.engineCancel = a, !.ownerStop = b, !.cancelling = live]
    OBVIOUS
  <2> HIDE DEF a, b, x, live, w
  <2>5. [x EXCEPT !.engineCancel = a] \in InvocationType
    BY <2>1, <2>2, UpdateType
  <2>6. [x EXCEPT !.engineCancel = a, !.ownerStop = b] \in InvocationType
    BY <2>2, <2>5, UpdateType
  <2> QED BY <2>3, <2>4, <2>6, UpdateType
<1>5. /\ w.owner = v.owner /\ w.reservation = v.reservation
      /\ w.terminal = v.terminal /\ w.reported = v.reported
      /\ w.registered = v.registered /\ w.cleanup = "observing"
      /\ w.engineCancel = (IF v.registered THEN "halting" ELSE "ok")
      /\ w.ownerStop = (IF v.owner # "done" THEN "joining" ELSE "ok")
      /\ w.cancelling = (v.owner # "done")
      /\ w.settle = v.settle /\ w.state = v.state
  BY Typed DEF InvocationType
<1> HIDE DEF w
<1>6. RunOK(w)
  BY <1>1, <1>3, <1>5, Typed DEF RunOK, Inside
<1>7. Advance(v, w)
  BY <1>3, <1>4, <1>5, <1>6 DEF Advance
<1>8. WorkMoves(r, w)
  <2>1. AtWork(r) => v.registered /\ v.reservation
    BY DEF IInv, WorkOK
  <2> QED BY <1>2, <1>5, <2>1, Typed DEF WorkMoves, AtWork
<1>9. QuietMoves(r, w)
  BY <1>1, <1>2, <1>5, <1>7, <1>8 DEF QuietMoves, RunMoves, LockMoves
<1> QED BY <1>2, <1>9, QuietStep

LEMMA EngineCancelEnds ==
    ASSUME NEW v \in InvocationType, RunOK(v), v.engineCancel = "halting",
           NEW how \in {"ok", "failed"}, NEW w, w = [v EXCEPT !.engineCancel = how]
    PROVE  /\ Advance(v, w) /\ w.owner = v.owner /\ w.cancelling = v.cancelling
           /\ w.reservation = v.reservation /\ w.engineCancel = how
           /\ v.reservation /\ ~(v.owner = "setup" /\ ~v.cancelling)
<1>1. v.owner # "none" /\ v.reservation /\ ~(v.owner = "setup" /\ ~v.cancelling)
  BY DEF RunOK
<1>2. w \in InvocationType
  BY UpdateType
<1>3. /\ w.owner = v.owner /\ w.reservation = v.reservation /\ w.cancelling = v.cancelling
      /\ w.terminal = v.terminal /\ w.reported = v.reported
      /\ w.registered = v.registered /\ w.cleanup = v.cleanup
      /\ w.engineCancel = how /\ w.ownerStop = v.ownerStop
      /\ w.settle = v.settle /\ w.state = v.state
  BY DEF InvocationType
<1>4. RunOK(w)
  BY <1>1, <1>3 DEF RunOK
<1> QED BY <1>1, <1>2, <1>3, <1>4 DEF Advance

LEMMA EngineCancelGracefulStep ==
    ASSUME IInv, NEW r \in Runs, EngineCancelGraceful(r)
    PROVE  IInv'
<1> DEFINE w == [inv[r] EXCEPT !.engineCancel = "ok"]
<1>1. inv[r].engineCancel = "halting" /\ SetInv(r, w)
  BY DEF EngineCancelGraceful
<1>2. native' = native /\ lock' = lock /\ QueueTyped /\ FilesTyped /\ Others
  BY QueueUnchanged, FilesUnchanged DEF EngineCancelGraceful, Others
<1>3. /\ Advance(inv[r], w) /\ w.owner = inv[r].owner /\ w.cancelling = inv[r].cancelling
      /\ w.reservation = inv[r].reservation
  BY <1>1, Typed, EngineCancelEnds
<1> HIDE DEF w
<1>4. AtWork(r) => inv[r].input
  BY DEF EngineCancelGraceful, IInv, WorkOK
<1>5. work' = IF AtWork(r) /\ inv[r].input THEN [work EXCEPT ![r] = "ended"] ELSE work
  BY DEF EngineCancelGraceful
<1>6. WorkMoves(r, w)
  BY <1>4, <1>5, Typed DEF WorkMoves, AtWork
<1>7. QuietMoves(r, w)
  BY <1>1, <1>2, <1>3, <1>6 DEF QuietMoves, RunMoves, LockMoves, Owner
<1> QED BY <1>2, <1>7, QuietStep

LEMMA EngineCancelForcedStep ==
    ASSUME IInv, NEW r \in Runs, EngineCancelForced(r)
    PROVE  IInv'
<1> DEFINE w == [inv[r] EXCEPT !.engineCancel = "ok"]
           s == SessionOf[r]
<1>1. /\ inv[r].engineCancel = "halting" /\ SetInv(r, w)
      /\ native' = [native EXCEPT ![s] = Killed]
      /\ work' = [q \in Runs |-> IF SessionOf[q] = s /\ AtWork(q) THEN "ended" ELSE work[q]]
  BY DEF EngineCancelForced
<1>2. lock' = lock /\ QueueTyped /\ FilesTyped /\ Others
  BY QueueUnchanged, FilesUnchanged DEF EngineCancelForced, Others
<1>3. /\ Advance(inv[r], w) /\ w.owner = inv[r].owner /\ w.cancelling = inv[r].cancelling
      /\ w.reservation = inv[r].reservation
      /\ inv[r].reservation /\ ~(inv[r].owner = "setup" /\ ~inv[r].cancelling)
  BY <1>1, Typed, EngineCancelEnds
<1> HIDE DEF w
<1>4. WorkMoves(r, w) /\ work'[r] \notin {"posted", "running"}
  BY <1>1, Typed DEF WorkMoves, AtWork
<1>5. RunMoves(r, w)
  BY <1>1, <1>2, <1>3 DEF RunMoves, LockMoves
<1>6. NativeMoves(s, Killed)
  BY <1>1, <1>3, <1>4, <1>5, KillMoves
<1> QED BY <1>2, <1>4, <1>5, <1>6, RunStep

LEMMA EngineCancelFailsStep ==
    ASSUME IInv, NEW r \in Runs, EngineCancelFails(r)
    PROVE  IInv'
<1> DEFINE w == [inv[r] EXCEPT !.engineCancel = "failed"]
           s == SessionOf[r]
           n == [native[s] EXCEPT !.clean = FALSE, !.halted = FALSE]
<1>1. inv[r].engineCancel = "halting" /\ SetInv(r, w) /\ native' = [native EXCEPT ![s] = n]
  BY DEF EngineCancelFails
<1>2. work' = work /\ lock' = lock /\ QueueTyped /\ FilesTyped /\ Others
  BY QueueUnchanged, FilesUnchanged DEF EngineCancelFails, Others
<1>3. /\ Advance(inv[r], w) /\ w.reservation = inv[r].reservation /\ w.engineCancel = "failed"
  BY <1>1, Typed, EngineCancelEnds
<1> HIDE DEF w
<1>4. WorkMoves(r, w)
  BY <1>2, <1>3, Typed DEF WorkMoves, AtWork, IInv, WorkOK
<1>5. RunMoves(r, w)
  BY <1>1, <1>2, <1>3 DEF RunMoves, LockMoves
<1>6. native[s] \in [alive : BOOLEAN, clean : BOOLEAN, halted : BOOLEAN]
  BY Typed
<1>7. /\ n \in [alive : BOOLEAN, clean : BOOLEAN, halted : BOOLEAN]
      /\ n.halted = FALSE /\ n.alive = native[s].alive
  BY <1>6
<1> HIDE DEF n
<1>8. NativeMoves(s, n)
  BY <1>1, <1>7 DEF NativeMoves
<1> QED BY <1>2, <1>4, <1>5, <1>8, RunStep

LEMMA OwnerStopsStep ==
    ASSUME IInv, NEW r \in Runs, OwnerStops(r)
    PROVE  IInv'
<1>1. inv[r].ownerStop = "joining"
  BY DEF OwnerStops
<1>2. native' = native /\ work' = work /\ lock' = lock /\ QueueTyped /\ FilesTyped /\ Others
  BY QueueUnchanged, FilesUnchanged DEF OwnerStops, Others
<1>3. inv[r].owner # "none"
  <2>1. NotRetained.ownerStop = "none"
    BY DEF NotRetained, NewInvocation
  <2> QED BY <1>1, <2>1, Typed DEF RunOK
<1>4. ASSUME NEW how \in {"ok", "failed"}, how = "ok" => inv[r].owner = "done",
             SetInv(r, [inv[r] EXCEPT !.ownerStop = how])
      PROVE  \E w : QuietMoves(r, w)
  <2> DEFINE w == [inv[r] EXCEPT !.ownerStop = how]
  <2>1. w \in InvocationType
    BY Typed, UpdateType
  <2>2. /\ w.owner = inv[r].owner /\ w.reservation = inv[r].reservation
        /\ w.cancelling = inv[r].cancelling
        /\ w.terminal = inv[r].terminal /\ w.reported = inv[r].reported
        /\ w.registered = inv[r].registered /\ w.cleanup = inv[r].cleanup
        /\ w.engineCancel = inv[r].engineCancel /\ w.ownerStop = how
        /\ w.settle = inv[r].settle /\ w.state = inv[r].state
    BY Typed DEF InvocationType
  <2>3. SetInv(r, w)
    BY <1>4
  <2> HIDE DEF w
  <2>4. RunOK(w)
    BY <1>3, <1>4, <2>2, Typed DEF RunOK
  <2>5. Advance(inv[r], w)
    BY <1>3, <2>1, <2>2, <2>4 DEF Advance
  <2>6. QuietMoves(r, w)
    BY <1>2, <2>2, <2>3, <2>5, WorkUnchanged DEF QuietMoves, RunMoves, LockMoves, Owner
  <2> QED BY <2>6
<1>5. \E w : QuietMoves(r, w)
  BY <1>4 DEF OwnerStops
<1> QED BY <1>2, <1>5, QuietStep

LEMMA ObservingIsRetained ==
    ASSUME IInv, NEW r \in Runs, inv[r].cleanup = "observing"
    PROVE  inv[r].owner # "none" /\ inv[r].terminal
<1>1. NotRetained.cleanup = "none"
  BY DEF NotRetained, NewInvocation
<1> QED BY <1>1, Typed DEF RunOK

(* The lock is given back on proof that the owner and native are gone. *)
LEMMA CleanupConfirmsStep ==
    ASSUME IInv, NEW r \in Runs, CleanupConfirms(r)
    PROVE  IInv'
<1> DEFINE u == [inv[r] EXCEPT !.cleanup = "done", !.state = inv[r].target, !.reported = TRUE]
           w == [u EXCEPT !.reservation = FALSE]
<1>1. /\ inv[r].cleanup = "observing" /\ inv[r].engineCancel = "ok" /\ inv[r].ownerStop = "ok"
      /\ Release(r, u)
  BY DEF CleanupConfirms
<1>2. native' = native /\ work' = work /\ QueueTyped /\ FilesTyped /\ Others
  BY QueueUnchanged, FilesUnchanged DEF CleanupConfirms, Others
<1>3. inv[r].owner = "done" /\ inv[r].terminal /\ ~AtWork(r)
  BY <1>1, ObservingIsRetained, Typed DEF RunOK, IInv, WorkOK
<1>4. u \in InvocationType
  <2>1. inv[r].target \in RunStates
    BY Typed DEF InvocationType
  <2> QED BY <2>1, Typed, UpdateType
<1>5. /\ u.owner = inv[r].owner /\ u.reservation = inv[r].reservation
      /\ u.terminal = inv[r].terminal /\ u.reported = TRUE
      /\ u.registered = inv[r].registered /\ u.cleanup = "done" /\ u.engineCancel = "ok"
  BY <1>1, Typed DEF InvocationType
<1>6. SetInv(r, w) /\ lock' = IF u.reservation THEN [lock EXCEPT ![SessionOf[r]] = NoOne] ELSE lock
  BY <1>1 DEF Release
<1> HIDE DEF u
<1>7. w \in InvocationType
  BY <1>4, UpdateType
<1>8. /\ w.owner = inv[r].owner /\ w.reservation = FALSE
      /\ w.terminal = inv[r].terminal /\ w.reported = TRUE
      /\ w.registered = inv[r].registered /\ w.cleanup = "done" /\ w.engineCancel = "ok"
  BY <1>4, <1>5 DEF InvocationType
<1> HIDE DEF w
<1>9. RunOK(w)
  BY <1>3, <1>8 DEF RunOK, Inside
<1>10. Advance(inv[r], w)
  BY <1>3, <1>7, <1>8, <1>9 DEF Advance, Inside
<1>11. QuietMoves(r, w)
  BY <1>2, <1>3, <1>5, <1>6, <1>8, <1>10, WorkUnchanged DEF QuietMoves, RunMoves, LockMoves
<1> QED BY <1>2, <1>11, QuietStep

LEMMA CleanupUncertainStep ==
    ASSUME IInv, NEW r \in Runs, CleanupUncertain(r)
    PROVE  IInv'
<1> DEFINE w == [inv[r] EXCEPT !.cleanup = "done", !.state = "unknown", !.reported = TRUE]
<1>1. inv[r].cleanup = "observing" /\ SetInv(r, w)
  BY DEF CleanupUncertain
<1>2. native' = native /\ work' = work /\ lock' = lock /\ QueueTyped /\ FilesTyped /\ Others
  BY QueueUnchanged, FilesUnchanged DEF CleanupUncertain, Others
<1>3. inv[r].owner # "none" /\ inv[r].terminal
  BY <1>1, ObservingIsRetained
<1>4. w \in InvocationType
  BY Typed, UpdateType DEF RunStates
<1>5. /\ w.owner = inv[r].owner /\ w.reservation = inv[r].reservation
      /\ w.cancelling = inv[r].cancelling
      /\ w.terminal = inv[r].terminal /\ w.reported = TRUE /\ w.state = "unknown"
      /\ w.registered = inv[r].registered /\ w.cleanup = "done"
      /\ w.engineCancel = inv[r].engineCancel /\ w.ownerStop = inv[r].ownerStop
      /\ w.settle = inv[r].settle
  BY Typed DEF InvocationType
<1> HIDE DEF w
<1>6. RunOK(w)
  BY <1>1, <1>3, <1>5, Typed DEF RunOK
<1>7. Advance(inv[r], w)
  BY <1>3, <1>4, <1>5, <1>6 DEF Advance
<1>8. QuietMoves(r, w)
  BY <1>1, <1>2, <1>5, <1>7, WorkUnchanged DEF QuietMoves, RunMoves, LockMoves, Owner
<1> QED BY <1>2, <1>8, QuietStep

-----------------------------------------------------------------------------
(* A start, with or without an eviction. *)

LEMMA NewIsOK ==
    /\ NewInvocation \in InvocationType /\ RunOK(NewInvocation)
    /\ NotRetained \in InvocationType /\ RunOK(NotRetained)
    /\ NewInvocation.owner = "fresh" /\ NotRetained.owner = "none"
    /\ NewInvocation.reservation = FALSE /\ NotRetained.reservation = FALSE
<1>1. NewInvocation \in InvocationType
  BY DEF NewInvocation, InvocationType, Owners, RunStates
<1>2. NotRetained \in InvocationType
  BY <1>1, UpdateType DEF NotRetained, Owners
<1>3. RunOK(NewInvocation)
  BY DEF NewInvocation, RunOK, Inside
<1>4. /\ NotRetained.owner = "none" /\ NotRetained.reservation = FALSE /\ NotRetained.registered = FALSE
      /\ NotRetained.terminal = FALSE /\ NotRetained.cleanup = "none" /\ NotRetained.reported = FALSE
      /\ NotRetained.engineCancel = "none" /\ NotRetained.ownerStop = "none"
      /\ NotRetained.settle = "none"
  BY DEF NotRetained, NewInvocation
<1>5. RunOK(NotRetained)
  BY <1>4 DEF RunOK, Inside
<1> QED BY <1>1, <1>2, <1>3, <1>4, <1>5 DEF NewInvocation

LEMMA StartStep ==
    ASSUME IInv, NEW r \in Runs, Start(r)
    PROVE  IInv'
<1>1. /\ frozen = "no" /\ closing = "open" /\ inv[r].owner = "none"
      /\ lock' = lock /\ queue' = queue /\ config' = config /\ files' = files /\ native' = native
      /\ work' = work /\ op' = op /\ frozen' = frozen /\ closing' = closing
  BY DEF Start, Retained
<1>2. ~inv[r].reservation
  BY <1>1, Typed DEF RunOK
<1> DEFINE Kept(q) == \/ inv'[q] = inv[q]
                      \/ inv'[q] \in {NewInvocation, NotRetained} /\ ~inv[q].reservation
<1>3. inv' \in [Runs -> InvocationType] /\ \A q \in Runs : Kept(q)
  <2>1. CASE SetInv(r, NewInvocation)
    BY <2>1, <1>2, NewIsOK, Typed DEF SetInv
  <2>2. ASSUME NEW e \in Retained, Evictable(inv[e]),
               inv' = [inv EXCEPT ![e] = NotRetained, ![r] = NewInvocation]
        PROVE  inv' \in [Runs -> InvocationType] /\ \A q \in Runs : Kept(q)
    <3>1. e \in Runs /\ ~inv[e].reservation
      BY <2>2 DEF Retained, Evictable
    <3>2. [inv EXCEPT ![e] = NotRetained] \in [Runs -> InvocationType]
      BY <3>1, NewIsOK, Typed
    <3> QED BY <2>2, <3>1, <3>2, <1>2, NewIsOK, Typed
  <2> QED BY <2>1, <2>2 DEF Start
<1>4. TypeOK'
  BY <1>1, <1>3 DEF IInv, TypeOK, OpType
<1>5. RunsOK'
  BY <1>3, NewIsOK DEF IInv, RunsOK
<1>6. ReservationIsLock' /\ LockIsOfSession' /\ OpIsLock' /\ OpOK'
  BY <1>1, <1>3, NewIsOK DEF IInv, ReservationIsLock, LockIsOfSession, OpIsLock, OpOK
<1>7. WorkOK'
  BY <1>1, <1>3 DEF IInv, WorkOK, AtWork
<1>8. NativeOK'
  BY <1>1, <1>3, NewIsOK DEF IInv, NativeOK, Owner
<1>9. FrozenOK' /\ ClosingOK'
  BY <1>1 DEF FrozenOK, ClosingOK, ClosedIsQuiet
<1> QED BY <1>4, <1>5, <1>6, <1>7, <1>8, <1>9 DEF IInv

-----------------------------------------------------------------------------
(* Steps of a session that leave every invocation alone. *)

(* The lock changes hands only between nobody and the operation, whose place in
   its protocol says which; packing and deleting are of a stopped process. *)
OpMoves(s, o, h, n) ==
    /\ op' = [op EXCEPT ![s] = o] /\ o \in OpType
    /\ lock' = [lock EXCEPT ![s] = h]
    /\ h = lock[s] \/ (lock[s] \notin Runs /\ h \in {Op, NoOne})
    /\ o.pc \notin {"idle", "queued"} <=> h = Op
    /\ o.pc \in {"packing", "deleting"} /\ o.kind # "suspend" => ~n.alive

ProcessMoves(s, n) ==
    /\ native' = [native EXCEPT ![s] = n]
    /\ n \in [alive : BOOLEAN, clean : BOOLEAN, halted : BOOLEAN]
    /\ n.alive => ~n.halted
    /\ n.halted /\ ~native[s].halted =>
          \A q \in Runs : SessionOf[q] = s => ~AtWork(q) /\ ~Owner(q, "setup")

LEMMA SessionStep ==
    ASSUME IInv, NEW s \in Sessions, NEW o, NEW h, NEW n,
           OpMoves(s, o, h, n), ProcessMoves(s, n),
           inv' = inv, config' = config, closing' = closing, frozen' \in {frozen, "no"},
           work' \in [Runs -> {"none", "posted", "running", "ended"}],
           \A q \in Runs : work'[q] \in {"posted", "running"} => AtWork(q),
           QueueTyped, FilesTyped
    PROVE  IInv'
<1>1. /\ native' \in [Sessions -> [alive : BOOLEAN, clean : BOOLEAN, halted : BOOLEAN]]
      /\ native'[s] = n /\ \A z \in Sessions \ {s} : native'[z] = native[z]
  BY DEF ProcessMoves, IInv, TypeOK
<1>2. /\ op' \in [Sessions -> OpType] /\ op'[s] = o /\ \A z \in Sessions \ {s} : op'[z] = op[z]
  BY DEF OpMoves, IInv, TypeOK
<1>3. /\ lock' \in [Sessions -> Runs \union {Op, NoOne}]
      /\ lock'[s] = h /\ \A z \in Sessions \ {s} : lock'[z] = lock[z]
  BY DEF OpMoves, IInv, TypeOK
<1>4. OpType' = OpType /\ frozen' \in {"no", "export", "handoff"}
  BY DEF OpType, IInv, TypeOK
<1>5. TypeOK'
  BY <1>1, <1>2, <1>3, <1>4 DEF IInv, TypeOK, QueueTyped, FilesTyped
<1>6. RunsOK'
  BY DEF IInv, RunsOK
<1>7. ReservationIsLock' /\ LockIsOfSession' /\ OpIsLock'
  <2>1. CASE h = lock[s]
    BY <2>1, <1>2, <1>3, SessionOfAssumption
       DEF OpMoves, IInv, ReservationIsLock, LockIsOfSession, OpIsLock
  <2>2. CASE lock[s] \notin Runs /\ h \in {Op, NoOne}
    BY <2>2, <1>2, <1>3, SessionOfAssumption, HoldersAssumption
       DEF OpMoves, IInv, ReservationIsLock, LockIsOfSession, OpIsLock
  <2> QED BY <2>1, <2>2 DEF OpMoves
<1>8. WorkOK'
  BY <1>1, SessionOfAssumption DEF IInv, WorkOK, AtWork, ProcessMoves
<1>9. NativeOK'
  BY <1>1, SessionOfAssumption DEF IInv, NativeOK, Owner, ProcessMoves
<1>10. OpOK'
  BY <1>1, <1>2 DEF IInv, OpOK, OpMoves
<1>11. FrozenOK' /\ ClosingOK'
  BY DEF IInv, FrozenOK, ClosingOK, ClosedIsQuiet, AtWork
<1> QED BY <1>5, <1>6, <1>7, <1>8, <1>9, <1>10, <1>11 DEF IInv

LEMMA SessionTyped ==
    ASSUME IInv, NEW s \in Sessions
    PROVE  /\ op \in [Sessions -> OpType] /\ op[s] \in OpType
           /\ op[s].pc \in {"idle", "queued", "stopping", "packing", "deleting", "launching"}
           /\ op[s].kind \in config.ops \union {"none"}
           /\ lock \in [Sessions -> Runs \union {Op, NoOne}]
           /\ native \in [Sessions -> [alive : BOOLEAN, clean : BOOLEAN, halted : BOOLEAN]]
           /\ native[s] \in [alive : BOOLEAN, clean : BOOLEAN, halted : BOOLEAN]
           /\ native[s].alive => ~native[s].halted
           /\ queue \in [Sessions -> Seq(Runs \union {Op})] /\ queue[s] \in Seq(Runs \union {Op})
           /\ files \in [Sessions -> [known : BOOLEAN, marked : BOOLEAN]]
           /\ work \in [Runs -> {"none", "posted", "running", "ended"}]
<1>1. op \in [Sessions -> OpType] /\ op[s] \in OpType
  BY DEF IInv, TypeOK
<1>2. /\ op[s].pc \in {"idle", "queued", "stopping", "packing", "deleting", "launching"}
      /\ op[s].kind \in config.ops \union {"none"}
  BY <1>1 DEF OpType
<1> QED BY <1>1, <1>2 DEF IInv, TypeOK, NativeOK

(* What a step keeps when it leaves the operation and the lock, or the process. *)
LEMMA OpStays ==
    ASSUME IInv, NEW s \in Sessions, NEW n, op' = op, lock' = lock, n.alive => native[s].alive
    PROVE  OpMoves(s, op[s], lock[s], n)
  BY SessionTyped DEF OpMoves, IInv, OpIsLock, OpOK

LEMMA ProcessStays ==
    ASSUME IInv, NEW s \in Sessions, native' = native
    PROVE  ProcessMoves(s, native[s])
  BY SessionTyped DEF ProcessMoves

LEMMA NativeTakesStep ==
    ASSUME IInv, NEW r \in Runs, NativeTakes(r) \/ NativeEnds(r)
    PROVE  IInv'
<1> DEFINE s == SessionOf[r]
<1>1. /\ inv' = inv /\ lock' = lock /\ QueueTyped /\ FilesTyped /\ native' = native /\ op' = op
      /\ config' = config /\ closing' = closing /\ frozen' = frozen
  BY QueueUnchanged, FilesUnchanged DEF NativeTakes, NativeEnds, tasks
<1>2. /\ work' \in [Runs -> {"none", "posted", "running", "ended"}]
      /\ \A q \in Runs : work'[q] \in {"posted", "running"} => AtWork(q)
  BY Typed DEF NativeTakes, NativeEnds, AtWork
<1>3. s \in Sessions
  BY Typed
<1>4. OpMoves(s, op[s], lock[s], native[s]) /\ ProcessMoves(s, native[s])
  BY <1>1, <1>3, OpStays, ProcessStays
<1> QED BY <1>1, <1>2, <1>3, <1>4, SessionStep

LEMMA NativeDiesStep ==
    ASSUME IInv, NEW s \in Sessions, NativeDies(s)
    PROVE  IInv'
<1> DEFINE n == [native[s] EXCEPT !.alive = FALSE]
<1>1. /\ inv' = inv /\ lock' = lock /\ QueueTyped /\ FilesTyped /\ op' = op
      /\ config' = config /\ closing' = closing /\ frozen' = frozen
      /\ native[s].alive /\ native' = [native EXCEPT ![s].alive = FALSE]
      /\ work' = [r \in Runs |-> IF SessionOf[r] = s /\ work[r] = "posted" THEN "none" ELSE work[r]]
  BY QueueUnchanged, FilesUnchanged DEF NativeDies, tasks
<1>2. /\ work' \in [Runs -> {"none", "posted", "running", "ended"}]
      /\ \A q \in Runs : work'[q] \in {"posted", "running"} => AtWork(q)
  BY <1>1, SessionTyped DEF AtWork
<1>3. native' = [native EXCEPT ![s] = n]
  BY <1>1
<1>4. /\ n \in [alive : BOOLEAN, clean : BOOLEAN, halted : BOOLEAN]
      /\ n.alive = FALSE /\ n.halted = native[s].halted
  BY SessionTyped
<1> HIDE DEF n
<1>5. ProcessMoves(s, n)
  BY <1>1, <1>3, <1>4, SessionTyped DEF ProcessMoves
<1>6. OpMoves(s, op[s], lock[s], n)
  BY <1>1, <1>4, OpStays
<1> QED BY <1>1, <1>2, <1>5, <1>6, SessionStep

LEMMA WorkStays ==
    ASSUME IInv, work' = work
    PROVE  /\ work' \in [Runs -> {"none", "posted", "running", "ended"}]
           /\ \A q \in Runs : work'[q] \in {"posted", "running"} => AtWork(q)
  BY DEF AtWork, IInv, TypeOK

LEMMA OpAskedStep ==
    ASSUME IInv, NEW s \in Sessions, NEW kind \in config.ops, OpAsked(s, kind)
    PROVE  IInv'
<1> DEFINE o == [kind |-> kind, pc |-> "queued"]
<1>1. /\ inv' = inv /\ lock' = lock /\ native' = native /\ work' = work
      /\ config' = config /\ closing' = closing /\ frozen' = frozen
      /\ op[s] = Idle /\ op' = [op EXCEPT ![s] = o]
      /\ queue' = [queue EXCEPT ![s] = Append(@, Op)]
      /\ files' = files \/ files' = [files EXCEPT ![s].known = TRUE]
  BY DEF OpAsked
<1>2. FilesTyped
  <2>1. files \in [Sessions -> [known : BOOLEAN, marked : BOOLEAN]]
    BY SessionTyped
  <2>2. [files EXCEPT ![s].known = TRUE] \in [Sessions -> [known : BOOLEAN, marked : BOOLEAN]]
    BY <2>1, FilesUpdate
  <2> QED BY <1>1, <2>1, <2>2 DEF FilesTyped
<1>3. QueueTyped
  <2>1. Append(queue[s], Op) \in Seq(Runs \union {Op})
    BY SessionTyped
  <2> QED BY <1>1, <2>1, SessionTyped DEF QueueTyped
<1>4. o \in OpType /\ o.pc = "queued"
  BY DEF OpType
<1> HIDE DEF o
<1>5. lock[s] # Op
  BY <1>1 DEF IInv, OpIsLock, Idle
<1>6. lock' = [lock EXCEPT ![s] = lock[s]]
  BY <1>1, SessionTyped
<1>7. OpMoves(s, o, lock[s], native[s])
  BY <1>1, <1>4, <1>5, <1>6 DEF OpMoves
<1>8. ProcessMoves(s, native[s])
  BY <1>1, ProcessStays
<1> QED BY <1>1, <1>2, <1>3, <1>7, <1>8, WorkStays, SessionStep

LEMMA IdleIsTyped == Idle \in OpType /\ Idle.pc = "idle"
  BY DEF Idle, OpType

LEMMA OpAtIs ==
    ASSUME IInv, NEW s \in Sessions, NEW at \in {"stopping", "packing", "deleting", "launching"},
           OpAt(s, at)
    PROVE  \E o \in OpType : op' = [op EXCEPT ![s] = o] /\ o.pc = at /\ o.kind = op[s].kind
<1> DEFINE o == [op[s] EXCEPT !.pc = at]
<1>1. op[s] \in OpType
  BY SessionTyped
<1>2. o \in OpType /\ o.pc = at /\ o.kind = op[s].kind
  BY <1>1 DEF OpType
<1>3. op' = [op EXCEPT ![s] = o]
  BY DEF OpAt
<1> HIDE DEF o
<1> QED BY <1>2, <1>3

LEMMA OpAcquiresStep ==
    ASSUME IInv, NEW s \in Sessions, OpAcquires(s)
    PROVE  IInv'
<1>1. /\ inv' = inv /\ native' = native /\ work' = work /\ FilesTyped
      /\ config' = config /\ closing' = closing /\ frozen' = frozen
      /\ lock[s] = NoOne /\ queue[s] # <<>> /\ queue' = [queue EXCEPT ![s] = Tail(@)]
  BY FilesUnchanged DEF OpAcquires
<1>2. QueueTyped
  <2>1. Tail(queue[s]) \in Seq(Runs \union {Op})
    BY <1>1, SessionTyped
  <2> QED BY <1>1, <2>1, SessionTyped DEF QueueTyped
<1>3. ProcessMoves(s, native[s])
  BY <1>1, ProcessStays
<1>4. CASE op' = [op EXCEPT ![s] = Idle] /\ lock' = lock
  <2>1. lock' = [lock EXCEPT ![s] = lock[s]]
    BY <1>4, SessionTyped
  <2>2. OpMoves(s, Idle, lock[s], native[s])
    BY <1>1, <1>4, <2>1, IdleIsTyped, HoldersAssumption DEF OpMoves
  <2> QED BY <1>1, <1>2, <1>3, <2>2, WorkStays, SessionStep
<1>5. ASSUME NEW at \in {"stopping", "deleting", "launching"}, OpAt(s, at),
             at = "deleting" => ~native[s].alive, lock' = [lock EXCEPT ![s] = Op]
      PROVE  IInv'
  <2>1. PICK o \in OpType : op' = [op EXCEPT ![s] = o] /\ o.pc = at
    BY <1>5, OpAtIs
  <2>2. OpMoves(s, o, Op, native[s])
    BY <1>1, <1>5, <2>1, HoldersAssumption DEF OpMoves
  <2> QED BY <1>1, <1>2, <1>3, <2>2, WorkStays, SessionStep
<1>6. CASE ~OpRefused(s, op[s].kind) /\ lock' = [lock EXCEPT ![s] = Op]
  <2>1. op[s].kind = "retire" => ~native[s].alive
    BY <1>6 DEF OpRefused, Retirable
  <2>2. \/ OpAt(s, "deleting") /\ op[s].kind = "retire"
        \/ OpAt(s, "launching")
        \/ OpAt(s, "stopping")
    BY <1>6 DEF OpAcquires
  <2> QED BY <1>5, <1>6, <2>1, <2>2
<1> QED BY <1>4, <1>6 DEF OpAcquires

LEMMA OpEndsMoves ==
    ASSUME IInv, NEW s \in Sessions, op[s].pc \notin {"idle", "queued"}, OpEnds(s), NEW n
    PROVE  OpMoves(s, Idle, NoOne, n) /\ lock[s] = Op
  BY IdleIsTyped, HoldersAssumption DEF OpEnds, OpMoves, IInv, OpIsLock

(* While an operation holds the lock, no run works or launches in its session. *)
LEMMA OpIsAlone ==
    ASSUME IInv, NEW s \in Sessions, op[s].pc \notin {"idle", "queued"},
           NEW q \in Runs, SessionOf[q] = s
    PROVE  ~AtWork(q) /\ ~Owner(q, "setup")
<1>1. lock[s] = Op
  BY DEF IInv, OpIsLock
<1>2. ~inv[q].reservation
  BY <1>1, HoldersAssumption DEF IInv, ReservationIsLock
<1> QED BY <1>2, Typed DEF IInv, WorkOK, RunOK, Inside, Owner

LEMMA StopTyped ==
    ASSUME NEW m \in [alive : BOOLEAN, clean : BOOLEAN, halted : BOOLEAN],
           m.alive => ~m.halted, NEW n \in StopOutcomes(m)
    PROVE  /\ n \in [alive : BOOLEAN, clean : BOOLEAN, halted : BOOLEAN]
           /\ n.alive => ~n.halted /\ m.alive
           /\ n.clean => ~n.alive
           /\ ~m.alive => n = m
<1>1. CASE ~m.alive
  <2>1. n = m
    BY <1>1 DEF StopOutcomes
  <2> QED BY <1>1, <2>1
<1>2. CASE m.alive
  <2>1. n \in {[Killed EXCEPT !.clean = TRUE], Killed, [m EXCEPT !.clean = FALSE]}
    BY <1>2 DEF StopOutcomes
  <2>2. CASE n = [Killed EXCEPT !.clean = TRUE]
    BY <1>2, <2>2 DEF Killed
  <2>3. CASE n = Killed
    BY <1>2, <2>3 DEF Killed
  <2>4. CASE n = [m EXCEPT !.clean = FALSE]
    BY <1>2, <2>4
  <2> QED BY <2>1, <2>2, <2>3, <2>4
<1> QED BY <1>1, <1>2

LEMMA OpStopsStep ==
    ASSUME IInv, NEW s \in Sessions, OpStops(s)
    PROVE  IInv'
<1>1. /\ inv' = inv /\ work' = work /\ QueueTyped /\ FilesTyped
      /\ config' = config /\ closing' = closing /\ frozen' = frozen /\ op[s].pc = "stopping"
  BY QueueUnchanged, FilesUnchanged DEF OpStops
<1>2. PICK n \in StopOutcomes(native[s]) :
        /\ native' = [native EXCEPT ![s] = n]
        /\ \/ /\ n.clean \/ op[s].kind = "suspend" \/ (op[s].kind = "hydrate" /\ ~native[s].alive)
              /\ OpAt(s, "packing")
              /\ UNCHANGED lock
           \/ OpEnds(s)
  BY DEF OpStops
<1>3. /\ n \in [alive : BOOLEAN, clean : BOOLEAN, halted : BOOLEAN]
      /\ n.alive => ~n.halted /\ native[s].alive
      /\ n.clean => ~n.alive
      /\ ~native[s].alive => n = native[s]
  BY SessionTyped, StopTyped
<1>4. ProcessMoves(s, n)
  BY <1>1, <1>2, <1>3, OpIsAlone DEF ProcessMoves
<1>5. CASE OpEnds(s)
  <2>1. OpMoves(s, Idle, NoOne, n)
    BY <1>1, <1>5, OpEndsMoves
  <2> QED BY <1>1, <1>4, <2>1, WorkStays, SessionStep
<1>6. CASE /\ n.clean \/ op[s].kind = "suspend" \/ (op[s].kind = "hydrate" /\ ~native[s].alive)
           /\ OpAt(s, "packing") /\ lock' = lock
  <2>1. PICK o \in OpType : op' = [op EXCEPT ![s] = o] /\ o.pc = "packing" /\ o.kind = op[s].kind
    BY <1>6, OpAtIs
  <2>2. o.kind # "suspend" => ~n.alive
    BY <1>3, <1>6, <2>1
  <2>3. lock[s] = Op /\ lock' = [lock EXCEPT ![s] = Op]
    BY <1>1, <1>6, SessionTyped DEF IInv, OpIsLock
  <2>4. OpMoves(s, o, Op, n)
    BY <2>1, <2>2, <2>3 DEF OpMoves
  <2> QED BY <1>1, <1>4, <2>4, WorkStays, SessionStep
<1> QED BY <1>2, <1>5, <1>6

LEMMA OpPacksStep ==
    ASSUME IInv, NEW s \in Sessions, OpPacks(s) \/ OpDeletes(s)
    PROVE  IInv'
<1>1. /\ inv' = inv /\ work' = work /\ native' = native /\ queue' = queue
      /\ config' = config /\ closing' = closing /\ frozen' = frozen
      /\ op[s].pc \in {"packing", "deleting"} /\ OpEnds(s)
      /\ files' \in {files, [files EXCEPT ![s] = [known |-> FALSE, marked |-> FALSE]]}
  BY DEF OpPacks, OpDeletes
<1>2. FilesTyped
  <2>1. [known |-> FALSE, marked |-> FALSE] \in [known : BOOLEAN, marked : BOOLEAN]
    OBVIOUS
  <2> QED BY <1>1, <2>1, SessionTyped, ZenonT(40) DEF FilesTyped
<1>3. OpMoves(s, Idle, NoOne, native[s]) /\ ProcessMoves(s, native[s])
  BY <1>1, OpEndsMoves, ProcessStays
<1> QED BY <1>1, <1>2, <1>3, QueueUnchanged, WorkStays, SessionStep

LEMMA OpRestoresStep ==
    ASSUME IInv, NEW s \in Sessions, OpRestores(s)
    PROVE  IInv'
<1>1. /\ inv' = inv /\ work' = work /\ QueueTyped /\ FilesTyped
      /\ config' = config /\ closing' = closing /\ frozen' = frozen
      /\ op[s].pc = "launching" /\ OpEnds(s)
  BY QueueUnchanged, FilesUnchanged DEF OpRestores
<1>2. PICK n \in RestoreOutcomes(native[s]) : native' = [native EXCEPT ![s] = n]
  BY DEF OpRestores
<1>3. n \in [alive : BOOLEAN, clean : BOOLEAN, halted : BOOLEAN] /\ (n.alive => ~n.halted)
  <2>1. CASE n = native[s]
    BY <2>1, SessionTyped
  <2>2. CASE n = Killed
    BY <2>2 DEF Killed
  <2>3. CASE n \in [alive : BOOLEAN, clean : {FALSE}, halted : {FALSE}]
    BY <2>3
  <2> QED BY <1>2, <2>1, <2>2, <2>3 DEF RestoreOutcomes
<1>4. ProcessMoves(s, n)
  BY <1>1, <1>2, <1>3, OpIsAlone DEF ProcessMoves
<1>5. OpMoves(s, Idle, NoOne, n)
  BY <1>1, OpEndsMoves
<1> QED BY <1>1, <1>4, <1>5, WorkStays, SessionStep

LEMMA HandoffSuspendsStep ==
    ASSUME IInv, NEW s \in Sessions, HandoffSuspends(s)
    PROVE  IInv'
<1>1. /\ inv' = inv /\ work' = work /\ QueueTyped /\ FilesTyped /\ op' = op /\ lock' = lock
      /\ config' = config /\ closing' = closing /\ frozen = "handoff" /\ native[s].alive
  BY QueueUnchanged, FilesUnchanged DEF HandoffSuspends, tasks
<1>2. PICK n \in StopOutcomes(native[s]) :
        native' = [native EXCEPT ![s] = n] /\ frozen' = IF n.clean THEN frozen ELSE "no"
  BY DEF HandoffSuspends
<1>3. n \in [alive : BOOLEAN, clean : BOOLEAN, halted : BOOLEAN] /\ (n.alive => ~n.halted)
  BY SessionTyped, StopTyped
<1>4. \A q \in Runs : ~AtWork(q) /\ ~Owner(q, "setup")
  BY <1>1 DEF IInv, FrozenOK, Inside, Owner
<1>5. ProcessMoves(s, n)
  BY <1>2, <1>3, <1>4 DEF ProcessMoves
<1>6. OpMoves(s, op[s], lock[s], n)
  BY <1>1, OpStays
<1> QED BY <1>1, <1>2, <1>5, <1>6, WorkStays, SessionStep

-----------------------------------------------------------------------------
(* Operations on the whole Workspace. *)

LEMMA FreezeStep ==
    ASSUME IInv, ExportWorkspace \/ Handoff \/ Thaw
    PROVE  IInv'
<1>1. /\ inv' = inv /\ work' = work /\ queue' = queue /\ files' = files /\ op' = op /\ lock' = lock
      /\ config' = config /\ closing' = closing /\ native' = native
      /\ frozen' \in {"no", "export", "handoff"}
  BY DEF ExportWorkspace, Handoff, Thaw, tasks
<1>2. frozen' # "no" => \A r \in Runs : ~inv[r].reservation /\ (inv[r].owner # "none" => inv[r].terminal)
  <2>1. CASE ExportWorkspace
    BY <2>1, HoldersAssumption, SessionOfAssumption DEF ExportWorkspace, Retained, IInv, ReservationIsLock
  <2>2. CASE Handoff
    <3>1. \A r \in Runs : inv[r].owner = "none" => ~inv[r].reservation
      BY DEF IInv, RunsOK, RunOK
    <3>2. \A r \in Runs : inv[r].owner # "none" => inv[r].terminal /\ ~inv[r].reservation
      BY <2>2 DEF Handoff, Retained, Busy
    <3> QED BY <3>1, <3>2
  <2>3. CASE Thaw
    BY <2>3 DEF Thaw
  <2> QED BY <2>1, <2>2, <2>3
<1>3. FrozenOK'
  <2>1. ASSUME NEW r \in Runs, ~inv[r].reservation PROVE inv[r].owner \notin Inside /\ ~AtWork(r)
    BY <2>1, Typed DEF RunOK, IInv, WorkOK
  <2> QED BY <1>1, <1>2, <2>1 DEF FrozenOK, AtWork
<1>4. TypeOK'
  BY <1>1 DEF IInv, TypeOK, OpType
<1> QED BY <1>1, <1>3, <1>4 DEF IInv, RunsOK, ReservationIsLock, LockIsOfSession, OpIsLock,
              WorkOK, NativeOK, OpOK, ClosingOK, ClosedIsQuiet, AtWork, Owner

LEMMA CloseStep ==
    ASSUME IInv, Close
    PROVE  IInv'
<1>1. /\ work' = work /\ queue' = queue /\ files' = files /\ op' = op /\ lock' = lock
      /\ config' = config /\ frozen' = frozen /\ native' = native /\ closing' = "joining"
      /\ inv' = [r \in Runs |-> IF r \in Retained /\ ~inv[r].terminal
                                THEN ClaimExplicitCancel(inv[r]) ELSE inv[r]]
  BY DEF Close
<1>2. ASSUME NEW r \in Runs
      PROVE  \/ inv'[r] = inv[r] /\ (inv[r].owner = "none" \/ inv[r].terminal)
             \/ ClaimedBy(inv[r], inv'[r])
  <2>1. CASE r \in Retained /\ ~inv[r].terminal
    <3>1. inv'[r] = EnsureCleanup([inv[r] EXCEPT !.started = Answer(inv[r], "cancelled")], "cancelled")
      BY <1>1, <2>1 DEF ClaimExplicitCancel
    <3>2. "cancelled" \in RunStates /\ inv[r].owner # "none"
      BY <2>1 DEF RunStates, Retained
    <3>3. ClaimedBy(inv[r], inv'[r])
      BY <2>1, <3>1, <3>2, Typed, TriggerStep, ZenonT(40)
    <3> QED BY <3>3
  <2>2. CASE ~(r \in Retained /\ ~inv[r].terminal)
    BY <1>1, <2>2 DEF Retained
  <2> QED BY <2>1, <2>2
<1>3. ASSUME NEW r \in Runs
      PROVE  /\ inv'[r] \in InvocationType /\ RunOK(inv'[r])
             /\ inv'[r].reservation = inv[r].reservation /\ inv'[r].owner = inv[r].owner
             /\ inv'[r].cancelling = inv[r].cancelling
             /\ inv'[r].engineCancel = inv[r].engineCancel
             /\ inv[r].registered => inv'[r].registered
             /\ inv'[r].owner # "none" => inv'[r].terminal
  BY <1>2, Typed DEF ClaimedBy, Advance
<1>4. inv' \in [Runs -> InvocationType]
  BY <1>1, <1>3
<1>5. TypeOK' /\ RunsOK'
  BY <1>1, <1>3, <1>4 DEF IInv, TypeOK, OpType, RunsOK
<1>6. ReservationIsLock' /\ LockIsOfSession' /\ OpIsLock' /\ OpOK'
  BY <1>1, <1>3 DEF IInv, ReservationIsLock, LockIsOfSession, OpIsLock, OpOK
<1>7. WorkOK' /\ NativeOK'
  BY <1>1, <1>3 DEF IInv, WorkOK, NativeOK, AtWork, Owner
<1>8. FrozenOK' /\ ClosingOK'
  BY <1>1, <1>3 DEF IInv, FrozenOK, ClosingOK, ClosedIsQuiet, AtWork
<1> QED BY <1>5, <1>6, <1>7, <1>8 DEF IInv

LEMMA CloseJoinsStep ==
    ASSUME IInv, CloseJoins
    PROVE  IInv'
<1>1. /\ work' = work /\ queue' = queue /\ files' = files /\ op' = op /\ lock' = lock /\ inv' = inv
      /\ config' = config /\ frozen' = frozen /\ closing = "joining" /\ closing' \in {"failed", "closed"}
  BY DEF CloseJoins, tasks
<1>2. \A r \in Runs : inv[r].owner # "none" => inv[r].terminal
  BY <1>1 DEF IInv, ClosingOK
<1>3. ASSUME closing' = "closed", NEW r \in Runs
      PROVE  ~AtWork(r) /\ inv[r].owner \in {"none", "done"}
  <2>1. r \in Retained => ~Uncertain(inv[r])
    BY <1>3 DEF CloseJoins
  <2>2. CASE inv[r].owner = "none"
    BY <2>2, NotSent
  <2>3. CASE inv[r].owner # "none"
    <3>1. inv[r].terminal /\ inv[r].cleanup \in {"none", "done"} /\ inv[r].state # "unknown"
      BY <1>2, <2>1, <2>3, Typed DEF Retained, Uncertain, InvocationType
    <3>2. inv[r].owner = "done" /\ ~inv[r].reservation
      BY <2>3, <3>1, Typed DEF RunOK
    <3> QED BY <3>2 DEF IInv, WorkOK
  <2> QED BY <2>2, <2>3
<1>4. /\ native' \in [Sessions -> [alive : BOOLEAN, clean : BOOLEAN, halted : BOOLEAN]]
      /\ \A s \in Sessions : \/ native'[s] = native[s]
                             \/ closing' = "closed" /\ native'[s].alive = FALSE
  <2>1. CASE native' = native
    BY <2>1 DEF IInv, TypeOK
  <2>2. CASE /\ closing' = "closed"
             /\ native' = [s \in Sessions |-> IF native[s].alive
                              THEN [alive |-> FALSE, clean |-> TRUE, halted |-> TRUE] ELSE native[s]]
    BY <2>2 DEF IInv, TypeOK
  <2> QED BY <2>1, <2>2 DEF CloseJoins
<1>5. TypeOK'
  BY <1>1, <1>4 DEF IInv, TypeOK, OpType
<1>6. RunsOK' /\ ReservationIsLock' /\ LockIsOfSession' /\ OpIsLock'
  BY <1>1 DEF IInv, RunsOK, ReservationIsLock, LockIsOfSession, OpIsLock
<1>7. WorkOK' /\ NativeOK' /\ OpOK'
  BY <1>1, <1>3, <1>4, SessionOfAssumption DEF IInv, WorkOK, NativeOK, OpOK, AtWork, Owner
<1>8. FrozenOK' /\ ClosingOK'
  BY <1>1, <1>2, <1>3 DEF IInv, FrozenOK, ClosingOK, ClosedIsQuiet, AtWork
<1> QED BY <1>5, <1>6, <1>7, <1>8 DEF IInv

-----------------------------------------------------------------------------
(* The theorems. *)

LEMMA Initially == Init => IInv
<1> SUFFICES ASSUME Init PROVE IInv
  OBVIOUS
<1>1. \A r \in Runs : inv[r] = NotRetained /\ ~AtWork(r)
  BY DEF Init, AtWork
<1>2. Idle \in OpType /\ Idle.pc = "idle"
  BY IdleIsTyped
<1>3. queue \in [Sessions -> Seq(Runs \union {Op})]
  BY DEF Init
<1>4. /\ native \in [Sessions -> [alive : BOOLEAN, clean : BOOLEAN, halted : BOOLEAN]]
      /\ files \in [Sessions -> [known : BOOLEAN, marked : BOOLEAN]]
      /\ \A s \in Sessions : native[s].alive = FALSE
  BY DEF Init
<1>5. TypeOK
  BY <1>2, <1>3, <1>4, NewIsOK DEF Init, TypeOK
<1>6. RunsOK /\ ReservationIsLock /\ LockIsOfSession /\ OpIsLock
  BY <1>1, <1>2, NewIsOK, HoldersAssumption, SessionOfAssumption
     DEF Init, RunsOK, ReservationIsLock, LockIsOfSession, OpIsLock
<1>7. WorkOK /\ NativeOK /\ OpOK
  BY <1>1, <1>4, NewIsOK DEF WorkOK, NativeOK, OpOK, Owner
<1>8. FrozenOK /\ ClosingOK
  BY DEF Init, FrozenOK, ClosingOK, ClosedIsQuiet
<1> QED BY <1>5, <1>6, <1>7, <1>8 DEF IInv

LEMMA RunNextStep ==
    ASSUME IInv, NEW r \in Runs, RunNext(r)
    PROVE  IInv'
<1>1. CASE OwnerNext(r)
  BY <1>1, OwnerBeginsStep, OwnerAcquiresStep, OwnerLockTimesOutStep, OwnerGateStep,
     OwnerProbedStep, OwnerCancelledStep DEF OwnerNext
<1>2. CASE SendNext(r)
  BY <1>2, EngineRefreshesStep, EngineLaunchesStep, EnginePostsStep, EngineSetupFailsStep,
     EngineRejectsStep, SendUnconfirmedStep, EngineReceiptStep DEF SendNext
<1>3. CASE CleanupNext(r)
  BY <1>3, CleanupEntersStep, EngineCancelGracefulStep, EngineCancelForcedStep,
     EngineCancelFailsStep, OwnerStopsStep, CleanupConfirmsStep, CleanupUncertainStep DEF CleanupNext
<1> QED BY <1>1, <1>2, <1>3, StartStep, DeadlinePassesStep, NativeTakesStep, SettlesStep,
           SettlementLostStep, WatchFiresStep, CancelStep DEF RunNext

LEMMA SessionNextStep ==
    ASSUME IInv, NEW s \in Sessions, SessionNext(s)
    PROVE  IInv'
  BY NativeDiesStep, OpAskedStep, OpAcquiresStep, OpStopsStep, OpPacksStep, OpRestoresStep,
     HandoffSuspendsStep DEF SessionNext

LEMMA IInvUnchanged ==
    ASSUME IInv, UNCHANGED vars
    PROVE  IInv'
  BY DEF IInv, vars, tasks, TypeOK, OpType, RunsOK, ReservationIsLock, LockIsOfSession, OpIsLock,
         WorkOK, NativeOK, OpOK, FrozenOK, ClosingOK, ClosedIsQuiet, AtWork, Owner

LEMMA Inductive == IInv /\ [Next]_vars => IInv'
<1> SUFFICES ASSUME IInv, [Next]_vars PROVE IInv'
  OBVIOUS
<1>1. CASE \E r \in Runs : RunNext(r)
  BY <1>1, RunNextStep
<1>2. CASE \E s \in Sessions : SessionNext(s)
  BY <1>2, SessionNextStep
<1>3. CASE ExportWorkspace \/ Handoff \/ Thaw \/ Close \/ CloseJoins
  BY <1>3, FreezeStep, CloseStep, CloseJoinsStep
<1>4. CASE UNCHANGED vars
  BY <1>4, IInvUnchanged
<1> QED BY <1>1, <1>2, <1>3, <1>4 DEF Next

LEMMA Invariance == Spec => []IInv
  BY Initially, Inductive, PTL DEF Spec

(* Every task record, lock, queue and operation keeps its shape, whatever the
   runs, the sessions and the deployment. *)
THEOREM ExecutionTypes == Spec => []TypeOK
<1>1. IInv => TypeOK
  BY DEF IInv
<1> QED BY <1>1, Invariance, PTL

(* service.py: a prompt that native may take or works on is that of the run
   which holds its session's lock. *)
THEOREM WorkIsOwned == Spec => []NativeWorkIsOwned
<1>1. IInv => NativeWorkIsOwned
  BY DEF IInv, WorkOK, ReservationIsLock, NativeWorkIsOwned
<1> QED BY <1>1, Invariance, PTL

(* service.py: a held lock is a recorded reservation of a run that goes on, is
   being cleaned up, or is reported unknown. *)
THEOREM LocksAreNotStranded == Spec => []NoStrandedLock
<1>1. IInv => NoStrandedLock
  <2> SUFFICES ASSUME IInv, NEW s \in Sessions, lock[s] \in Runs
               PROVE  /\ inv[lock[s]].reservation /\ SessionOf[lock[s]] = s
                      /\ \/ ~inv[lock[s]].terminal
                         \/ inv[lock[s]].cleanup \in {"claimed", "observing"}
                         \/ inv[lock[s]].state = "unknown"
    BY DEF NoStrandedLock
  <2>1. SessionOf[lock[s]] = s
    BY DEF IInv, LockIsOfSession
  <2>2. inv[lock[s]].reservation
    BY <2>1 DEF IInv, ReservationIsLock
  <2> DEFINE v == inv[lock[s]]
  <2>3. v.cleanup \in {"none", "claimed", "observing", "done"} /\ RunOK(v)
    BY Typed DEF InvocationType
  <2> QED BY <2>1, <2>2, <2>3 DEF RunOK
<1> QED BY <1>1, Invariance, PTL

(* snapshots.py, app.py and close(): who is given a session or the Workspace,
   or is told that the unit is closed, finds no run at work. *)
THEOREM ExclusiveAccessIsQuiet == Spec => []ExclusiveIsQuiet
<1>1. IInv => SessionOpsAreQuiet
  <2> SUFFICES ASSUME IInv, NEW s \in Sessions, op[s].pc \in {"packing", "deleting"}
               PROVE  /\ \A r \in Runs : SessionOf[r] = s => ~AtWork(r)
                      /\ op[s].kind # "suspend" => ~native[s].alive
    BY DEF SessionOpsAreQuiet
  <2>1. \A r \in Runs : SessionOf[r] = s => ~AtWork(r)
    BY OpIsAlone
  <2> QED BY <2>1 DEF IInv, OpOK
<1>2. IInv => FrozenIsQuiet /\ ClosedIsQuiet
  BY DEF IInv, FrozenOK, FrozenIsQuiet, Inside, ClosingOK
<1>3. IInv => ExclusiveIsQuiet
  BY <1>1, <1>2 DEF ExclusiveIsQuiet
<1> QED BY <1>3, Invariance, PTL

-----------------------------------------------------------------------------
(* Decisions stand. *)

(* A retained record stays; its answer, and the outcome it reported, too. *)
Stands(v, w) ==
    v.owner # "none" =>
        /\ w.owner # "none"
        /\ v.started # "pending" => w.started = v.started
        /\ v.terminal /\ v.started = "pending" => w.started # "ok"
        /\ v.reported => w.state = v.state

AllStand == \A r \in Runs : Stands(inv[r], inv'[r])

LEMMA OneStands ==
    ASSUME IInv, NEW r \in Runs, NEW w, SetInv(r, w), Stands(inv[r], w)
    PROVE  AllStand
  BY Typed DEF SetInv, AllStand, Stands

LEMMA UnchangedStands ==
    ASSUME IInv, inv' = inv
    PROVE  AllStand
  BY DEF AllStand, Stands

(* The steps of a record that are not terminal yet are free to decide. *)
LEMMA UndecidedStands ==
    ASSUME NEW v \in InvocationType, RunOK(v), ~v.terminal, NEW w, w.owner # "none",
           v.started # "pending" => w.started = v.started
    PROVE  Stands(v, w)
  BY DEF Stands, RunOK

(* A record keeps what it decided when answer and state are left alone. *)
LEMMA SameStands ==
    ASSUME NEW v, NEW w, w.owner # "none", w.started = v.started, w.state = v.state
    PROVE  Stands(v, w)
  BY DEF Stands

LEMMA OwnerEndsStands ==
    ASSUME IInv, NEW r \in Runs, NEW state,
           \/ OwnerEnds(r, FailBeforeStarted(inv[r]))
           \/ OwnerEnds(r, FinishWithoutEngine(inv[r], state))
    PROVE  AllStand
<1>1. CASE inv[r].terminal
  <2> DEFINE w == [inv[r] EXCEPT !.owner = "done"]
  <2>1. SetInv(r, w)
    BY <1>1 DEF OwnerEnds
  <2>2. w.owner = "done" /\ w.started = inv[r].started /\ w.state = inv[r].state
    BY Typed DEF InvocationType
  <2> HIDE DEF w
  <2> QED BY <2>1, <2>2, SameStands, OneStands
<1>2. ASSUME NEW how, NEW v, ~inv[r].terminal, OwnerEnds(r, v),
             [[v EXCEPT !.owner = "done"] EXCEPT !.reservation = FALSE].owner = "done",
             [[v EXCEPT !.owner = "done"] EXCEPT !.reservation = FALSE].started = Answer(inv[r], how)
      PROVE  AllStand
  <2> DEFINE w == [[v EXCEPT !.owner = "done"] EXCEPT !.reservation = FALSE]
  <2>1. SetInv(r, w)
    BY <1>2 DEF OwnerEnds, Release
  <2>2. w.owner = "done" /\ w.started = Answer(inv[r], how)
    BY <1>2
  <2> HIDE DEF w
  <2>3. Stands(inv[r], w)
    BY <1>2, <2>2, Typed, UndecidedStands DEF Answer
  <2> QED BY <2>1, <2>3, OneStands
<1>3. CASE ~inv[r].terminal /\ OwnerEnds(r, FailBeforeStarted(inv[r]))
  <2> DEFINE v == FailBeforeStarted(inv[r])
             w == [[v EXCEPT !.owner = "done"] EXCEPT !.reservation = FALSE]
  <2>1. w.owner = "done" /\ w.started = Answer(inv[r], "error")
    BY Typed DEF FailBeforeStarted, InvocationType
  <2> HIDE DEF v
  <2> QED BY <1>2, <1>3, <2>1 DEF v
<1>4. CASE ~inv[r].terminal /\ OwnerEnds(r, FinishWithoutEngine(inv[r], state))
  <2> DEFINE v == FinishWithoutEngine(inv[r], state)
             w == [[v EXCEPT !.owner = "done"] EXCEPT !.reservation = FALSE]
  <2>1. w.owner = "done" /\ w.started = Answer(inv[r], "ok")
    BY Typed DEF FinishWithoutEngine, InvocationType
  <2> HIDE DEF v
  <2> QED BY <1>2, <1>4, <2>1 DEF v
<1> QED BY <1>1, <1>3, <1>4

LEMMA ReservedStands ==
    ASSUME IInv, NEW r \in Runs, Reserved(r), inv[r].owner \in {"fresh", "lock"}
    PROVE  AllStand
<1> DEFINE v == [inv[r] EXCEPT !.reservation = TRUE]
           a == [v EXCEPT !.owner = "done"]
           b == [FailBeforeStarted(inv[r]) EXCEPT !.owner = "done"]
           c == [v EXCEPT !.owner = "hook"]
           d == [v EXCEPT !.owner = "probe", !.state = "sending"]
<1>1. v.terminal = inv[r].terminal
  BY Typed DEF InvocationType
<1>2. /\ a.owner = "done" /\ a.started = inv[r].started /\ a.state = inv[r].state
      /\ c.owner = "hook" /\ c.started = inv[r].started
      /\ d.owner = "probe" /\ d.started = inv[r].started
  BY Typed DEF InvocationType
<1>3. b.owner = "done" /\ b.started = Answer(inv[r], "error")
  BY Typed DEF FailBeforeStarted, InvocationType
<1>4. \/ SetInv(r, a)
      \/ ~inv[r].terminal /\ (SetInv(r, b) \/ SetInv(r, c) \/ SetInv(r, d))
  BY <1>1 DEF Reserved
<1> HIDE DEF a, b, c, d
<1>5. Stands(inv[r], a)
  BY <1>2, SameStands
<1>6. ~inv[r].terminal => Stands(inv[r], b) /\ Stands(inv[r], c) /\ Stands(inv[r], d)
  BY <1>2, <1>3, Typed, UndecidedStands DEF Answer
<1> QED BY <1>4, <1>5, <1>6, OneStands

LEMMA OwnerNextStands ==
    ASSUME IInv, NEW r \in Runs, OwnerNext(r)
    PROVE  AllStand
<1>1. CASE OwnerBegins(r)
  <2> DEFINE w == [inv[r] EXCEPT !.owner = "lock"]
  <2>1. inv[r].owner = "fresh"
    BY <1>1 DEF OwnerBegins, Owner
  <2>2. \/ OwnerEnds(r, FailBeforeStarted(inv[r])) \/ Reserved(r) \/ SetInv(r, w)
    BY <1>1 DEF OwnerBegins
  <2>3. w.owner = "lock" /\ w.started = inv[r].started /\ w.state = inv[r].state
    BY Typed DEF InvocationType
  <2> HIDE DEF w
  <2>4. Stands(inv[r], w)
    BY <2>3, SameStands
  <2> QED BY <2>1, <2>2, <2>4, OneStands, OwnerEndsStands, ReservedStands
<1>2. CASE OwnerAcquires(r)
  BY <1>2, ReservedStands DEF OwnerAcquires, Owner
<1>3. CASE OwnerLockTimesOut(r)
  BY <1>3, OwnerEndsStands DEF OwnerLockTimesOut
<1>4. CASE OwnerGate(r)
  <2> DEFINE w == [inv[r] EXCEPT !.owner = "probe", !.state = "sending"]
  <2>1. \/ ~inv[r].terminal /\ SetInv(r, w)
        \/ \E state \in {"skipped", "failed"} : OwnerEnds(r, FinishWithoutEngine(inv[r], state))
        \/ OwnerEnds(r, FailBeforeStarted(inv[r]))
    BY <1>4 DEF OwnerGate
  <2>2. w.owner = "probe" /\ w.started = inv[r].started
    BY Typed DEF InvocationType
  <2> HIDE DEF w
  <2>3. ~inv[r].terminal => Stands(inv[r], w)
    BY <2>2, Typed, UndecidedStands
  <2> QED BY <2>1, <2>3, OneStands, OwnerEndsStands
<1>5. CASE OwnerProbed(r)
  <2>1. ASSUME NEW at \in {"refresh", "setup"},
               SetInv(r, [inv[r] EXCEPT !.owner = at, !.registered = TRUE, !.input = FALSE])
        PROVE  AllStand
    <3> DEFINE w == [inv[r] EXCEPT !.owner = at, !.registered = TRUE, !.input = FALSE]
    <3>1. w.owner = at /\ w.started = inv[r].started /\ w.state = inv[r].state
      BY Typed DEF InvocationType
    <3>2. SetInv(r, w)
      BY <2>1
    <3> HIDE DEF w
    <3> QED BY <3>1, <3>2, SameStands, OneStands
  <2> QED BY <1>5, <2>1, OwnerEndsStands DEF OwnerProbed
<1>6. CASE OwnerCancelled(r)
  <2> DEFINE w == [inv[r] EXCEPT !.owner = "done", !.cancelling = FALSE]
  <2>1. SetInv(r, w)
    BY <1>6 DEF OwnerCancelled
  <2>2. w.owner = "done" /\ w.started = inv[r].started /\ w.state = inv[r].state
    BY Typed DEF InvocationType
  <2> HIDE DEF w
  <2> QED BY <2>1, <2>2, SameStands, OneStands
<1> QED BY <1>1, <1>2, <1>3, <1>4, <1>5, <1>6 DEF OwnerNext

LEMMA SendNextStands ==
    ASSUME IInv, NEW r \in Runs, SendNext(r)
    PROVE  AllStand
<1>1. CASE EngineRefreshes(r) \/ EnginePosts(r)
  <2>1. ASSUME NEW at \in {"setup", "posting"}, SetInv(r, [inv[r] EXCEPT !.owner = at])
        PROVE  AllStand
    <3> DEFINE w == [inv[r] EXCEPT !.owner = at]
    <3>1. w.owner = at /\ w.started = inv[r].started /\ w.state = inv[r].state
      BY Typed DEF InvocationType
    <3>2. SetInv(r, w)
      BY <2>1
    <3> HIDE DEF w
    <3> QED BY <3>1, <3>2, SameStands, OneStands
  <2> QED BY <1>1, <2>1 DEF EngineRefreshes, EnginePosts
<1>2. CASE EngineLaunches(r)
  BY <1>2, UnchangedStands DEF EngineLaunches, tasks
<1>3. CASE EngineSetupFails(r) \/ EngineRejects(r)
  BY <1>3, OwnerEndsStands DEF EngineSetupFails, EngineRejects
<1>4. CASE SendUnconfirmed(r)
  <2> DEFINE w == [inv[r] EXCEPT !.owner = "done"]
  <2>1. w.owner = "done" /\ w.started = inv[r].started /\ w.state = inv[r].state
    BY Typed DEF InvocationType
  <2>2. ASSUME NEW state \in {"unknown", "failed"}, ~inv[r].terminal,
               SetInv(r, [EnsureCleanup(inv[r], state) EXCEPT
                             !.owner = "done", !.started = Answer(inv[r], "error")])
        PROVE  AllStand
    <3> DEFINE u == EnsureCleanup(inv[r], state)
               x == [u EXCEPT !.owner = "done", !.started = Answer(inv[r], "error")]
    <3>1. state \in RunStates /\ inv[r].owner # "none"
      BY <1>4 DEF RunStates, SendUnconfirmed
    <3>2. u \in InvocationType
      BY <2>2, <3>1, Typed, ClaimStep DEF Claimed
    <3>3. SetInv(r, x)
      BY <2>2
    <3> HIDE DEF u
    <3>4. x.owner = "done" /\ x.started = Answer(inv[r], "error")
      BY <3>2 DEF InvocationType
    <3> HIDE DEF x
    <3>5. Stands(inv[r], x)
      BY <2>2, <3>4, Typed, UndecidedStands DEF Answer
    <3> QED BY <3>3, <3>5, OneStands
  <2>3. SetInv(r, w) => AllStand
    <3> HIDE DEF w
    <3> QED BY <2>1, SameStands, OneStands
  <2> QED BY <1>4, <2>2, <2>3 DEF SendUnconfirmed
<1>5. CASE EngineReceipt(r)
  <2> DEFINE w == [inv[r] EXCEPT !.owner = "done", !.input = TRUE]
             x == [inv[r] EXCEPT !.owner = "done", !.input = TRUE, !.state = "running",
                                 !.started = Answer(inv[r], "ok"), !.settle = "waiting"]
  <2>1. \/ SetInv(r, w)
        \/ ~inv[r].terminal /\ SetInv(r, x)
    BY <1>5 DEF EngineReceipt
  <2>2. /\ w.owner = "done" /\ w.started = inv[r].started /\ w.state = inv[r].state
        /\ x.owner = "done" /\ x.started = Answer(inv[r], "ok")
    BY Typed DEF InvocationType
  <2> HIDE DEF w, x
  <2>3. Stands(inv[r], w) /\ (~inv[r].terminal => Stands(inv[r], x))
    BY <2>2, Typed, SameStands, UndecidedStands DEF Answer
  <2> QED BY <2>1, <2>3, OneStands
<1> QED BY <1>1, <1>2, <1>3, <1>4, <1>5 DEF SendNext

(* A claim answers a start that is pending, never with Started. *)
LEMMA TriggerStands ==
    ASSUME NEW v \in InvocationType, RunOK(v), ~v.terminal, v.owner # "none",
           NEW state \in RunStates, NEW how \in {"error", "cancelled"}
    PROVE  Stands(v, EnsureCleanup([v EXCEPT !.started = Answer(v, how)], state))
<1> DEFINE u == [v EXCEPT !.started = Answer(v, how)]
           w == EnsureCleanup(u, state)
<1>1. /\ u \in InvocationType /\ RunOK(u) /\ u.terminal = v.terminal /\ u.owner = v.owner
      /\ u.started = Answer(v, how)
  BY AnswerStep
<1> HIDE DEF u
<1>2. Claimed(u, w)
  BY <1>1, ClaimStep
<1> HIDE DEF w
<1>3. Stands(v, w)
  BY <1>1, <1>2, UndecidedStands DEF Claimed, Answer
<1> QED BY <1>3 DEF u, w

LEMMA CleanupNextStands ==
    ASSUME IInv, NEW r \in Runs, CleanupNext(r)
    PROVE  AllStand
<1>1. CASE CleanupEnters(r)
  <2> DEFINE w == [inv[r] EXCEPT !.cleanup = "observing",
                      !.engineCancel = IF inv[r].registered THEN "halting" ELSE "ok",
                      !.ownerStop = IF inv[r].owner # "done" THEN "joining" ELSE "ok",
                      !.cancelling = inv[r].owner # "done"]
  <2>1. SetInv(r, w)
    BY <1>1 DEF CleanupEnters
  <2>2. w.owner = inv[r].owner /\ w.started = inv[r].started /\ w.state = inv[r].state
    BY Typed DEF InvocationType
  <2> HIDE DEF w
  <2> QED BY <2>1, <2>2, OneStands DEF Stands
<1>2. ASSUME NEW how, SetInv(r, [inv[r] EXCEPT !.engineCancel = how])
                      \/ SetInv(r, [inv[r] EXCEPT !.ownerStop = how])
      PROVE  AllStand
  <2> DEFINE w == [inv[r] EXCEPT !.engineCancel = how]
             x == [inv[r] EXCEPT !.ownerStop = how]
  <2>1. /\ w.owner = inv[r].owner /\ w.started = inv[r].started /\ w.state = inv[r].state
        /\ x.owner = inv[r].owner /\ x.started = inv[r].started /\ x.state = inv[r].state
    BY Typed DEF InvocationType
  <2>2. SetInv(r, w) \/ SetInv(r, x)
    BY <1>2
  <2> HIDE DEF w, x
  <2> QED BY <2>1, <2>2, OneStands DEF Stands
<1>3. CASE EngineCancelGraceful(r) \/ EngineCancelForced(r) \/ EngineCancelFails(r) \/ OwnerStops(r)
  BY <1>2, <1>3 DEF EngineCancelGraceful, EngineCancelForced, EngineCancelFails, OwnerStops
<1>4. CASE CleanupConfirms(r)
  <2> DEFINE u == [inv[r] EXCEPT !.cleanup = "done", !.state = inv[r].target, !.reported = TRUE]
             w == [u EXCEPT !.reservation = FALSE]
  <2>1. SetInv(r, w) /\ ~inv[r].reported
    BY <1>4, Typed DEF CleanupConfirms, Release, RunOK
  <2>2. w.owner = inv[r].owner /\ w.started = inv[r].started
    BY Typed DEF InvocationType
  <2> HIDE DEF w
  <2> QED BY <2>1, <2>2, OneStands DEF Stands
<1>5. CASE CleanupUncertain(r)
  <2> DEFINE w == [inv[r] EXCEPT !.cleanup = "done", !.state = "unknown", !.reported = TRUE]
  <2>1. SetInv(r, w) /\ ~inv[r].reported
    BY <1>5, Typed DEF CleanupUncertain, RunOK
  <2>2. w.owner = inv[r].owner /\ w.started = inv[r].started
    BY Typed DEF InvocationType
  <2> HIDE DEF w
  <2> QED BY <2>1, <2>2, OneStands DEF Stands
<1> QED BY <1>1, <1>3, <1>4, <1>5 DEF CleanupNext

LEMMA TimeoutStands ==
    ASSUME NEW v \in InvocationType, RunOK(v), v.owner # "none"
    PROVE  Stands(v, TimeoutCancel(v))
<1>1. CASE v.terminal
  <2> DEFINE w == [v EXCEPT !.watch = "off"]
  <2>1. TimeoutCancel(v) = w
    BY <1>1 DEF TimeoutCancel
  <2>2. w.owner = v.owner /\ w.started = v.started /\ w.state = v.state
    BY DEF InvocationType
  <2> HIDE DEF w
  <2> QED BY <2>1, <2>2, SameStands
<1>2. CASE ~v.terminal
  <2>1. TimeoutCancel(v) = EnsureCleanup([v EXCEPT !.started = Answer(v, "error")], "failed")
    BY <1>2 DEF TimeoutCancel
  <2>2. "failed" \in RunStates
    BY DEF RunStates
  <2> QED BY <1>2, <2>1, <2>2, TriggerStands
<1> QED BY <1>1, <1>2

LEMMA SettleStands ==
    ASSUME IInv, NEW r \in Runs, Settles(r) \/ SettlementLost(r)
    PROVE  AllStand
<1> DEFINE a == [inv[r] EXCEPT !.settle = "done"]
<1>1. inv[r].owner = "done"
  BY SettledOnce DEF Settles, SettlementLost
<1>2. ASSUME SetInv(r, a) PROVE AllStand
  <2>1. a.owner = "done" /\ a.started = inv[r].started /\ a.state = inv[r].state
    BY <1>1, Typed DEF InvocationType
  <2> HIDE DEF a
  <2> QED BY <1>2, <2>1, SameStands, OneStands
<1>3. ASSUME ~inv[r].terminal, NEW outcome,
             Release(r, [inv[r] EXCEPT !.settle = "done", !.terminal = TRUE, !.reported = TRUE,
                                       !.state = outcome, !.watch = "off"])
      PROVE  AllStand
  <2> DEFINE w == [[inv[r] EXCEPT !.settle = "done", !.terminal = TRUE, !.reported = TRUE,
                                  !.state = outcome, !.watch = "off"] EXCEPT !.reservation = FALSE]
  <2>1. SetInv(r, w)
    BY <1>3 DEF Release
  <2>2. w.owner = "done" /\ w.started = inv[r].started
    BY <1>1, Typed DEF InvocationType
  <2> HIDE DEF w
  <2> QED BY <1>3, <2>1, <2>2, Typed, UndecidedStands, OneStands
<1>4. ASSUME ~inv[r].terminal, SetInv(r, [EnsureCleanup(inv[r], "unknown") EXCEPT !.settle = "done"])
      PROVE  AllStand
  <2> DEFINE u == EnsureCleanup(inv[r], "unknown")
             w == [u EXCEPT !.settle = "done"]
  <2>1. "unknown" \in RunStates
    BY DEF RunStates
  <2>2. Claimed(inv[r], u)
    BY <1>1, <1>4, <2>1, Typed, ClaimStep
  <2>3. SetInv(r, w)
    BY <1>4
  <2> HIDE DEF u
  <2>4. w.owner = "done" /\ w.started = inv[r].started
    BY <1>1, <2>2 DEF Claimed, InvocationType
  <2> HIDE DEF w
  <2> QED BY <1>4, <2>3, <2>4, Typed, UndecidedStands, OneStands
<1> QED BY <1>2, <1>3, <1>4 DEF Settles, SettlementLost

LEMMA TriggersStand ==
    ASSUME IInv, NEW r \in Runs, DeadlinePasses(r) \/ WatchFires(r) \/ Cancel(r)
    PROVE  AllStand
<1>1. CASE DeadlinePasses(r)
  <2> DEFINE w == [inv[r] EXCEPT !.expired = TRUE]
  <2>1. SetInv(r, w)
    BY <1>1, Typed DEF DeadlinePasses, SetInv
  <2>2. w.owner = inv[r].owner /\ w.started = inv[r].started /\ w.state = inv[r].state
    BY Typed DEF InvocationType
  <2> HIDE DEF w
  <2> QED BY <2>1, <2>2, OneStands DEF Stands
<1>2. CASE WatchFires(r)
  <2>1. SetInv(r, TimeoutCancel(inv[r]))
    BY <1>2 DEF WatchFires
  <2>2. Stands(inv[r], TimeoutCancel(inv[r]))
    BY Typed, TimeoutStands DEF Stands
  <2> QED BY <2>1, <2>2, OneStands
<1>3. CASE Cancel(r)
  <2>1. inv[r].owner # "none" /\ ~inv[r].terminal /\ "cancelled" \in RunStates
    BY <1>3 DEF Cancel, Retained, RunStates
  <2>2. Stands(inv[r], TimeoutCancel(inv[r])) /\ Stands(inv[r], ClaimExplicitCancel(inv[r]))
    BY <2>1, Typed, TimeoutStands, TriggerStands DEF ClaimExplicitCancel
  <2>3. SetInv(r, TimeoutCancel(inv[r])) \/ SetInv(r, ClaimExplicitCancel(inv[r]))
    BY <1>3 DEF Cancel
  <2> QED BY <2>2, <2>3, OneStands
<1> QED BY <1>1, <1>2, <1>3

LEMMA CloseStands ==
    ASSUME IInv, Close
    PROVE  AllStand
<1> SUFFICES ASSUME NEW r \in Runs PROVE Stands(inv[r], inv'[r])
  BY DEF AllStand
<1>1. CASE r \in Retained /\ ~inv[r].terminal
  <2>1. inv'[r] = EnsureCleanup([inv[r] EXCEPT !.started = Answer(inv[r], "cancelled")], "cancelled")
    BY <1>1 DEF Close, ClaimExplicitCancel
  <2>2. "cancelled" \in RunStates /\ inv[r].owner # "none"
    BY <1>1 DEF RunStates, Retained
  <2> QED BY <1>1, <2>1, <2>2, Typed, TriggerStands, ZenonT(40)
<1>2. CASE ~(r \in Retained /\ ~inv[r].terminal)
  <2>1. inv'[r] = inv[r]
    BY <1>2 DEF Close
  <2> QED BY <2>1 DEF Stands
<1> QED BY <1>1, <1>2

(* Every step but a start leaves all decisions standing. *)
LEMMA NextStands ==
    ASSUME IInv, [Next]_vars
    PROVE  AllStand \/ \E r \in Runs : Start(r)
<1>1. ASSUME NEW r \in Runs, RunNext(r) PROVE AllStand \/ Start(r)
  <2>1. CASE NativeTakes(r) \/ NativeEnds(r)
    BY <2>1, UnchangedStands DEF NativeTakes, NativeEnds, tasks
  <2> QED BY <1>1, <2>1, OwnerNextStands, SendNextStands, CleanupNextStands, SettleStands,
             TriggersStand DEF RunNext
<1>2. ASSUME NEW s \in Sessions, SessionNext(s) PROVE AllStand
  <2>1. inv' = inv
    BY <1>2 DEF SessionNext, NativeDies, OpAsked, OpAcquires, OpStops, OpPacks, OpDeletes,
                OpRestores, HandoffSuspends, tasks
  <2> QED BY <2>1, UnchangedStands
<1>3. CASE ExportWorkspace \/ Handoff \/ Thaw \/ CloseJoins
  BY <1>3, UnchangedStands DEF ExportWorkspace, Handoff, Thaw, CloseJoins, tasks
<1>4. CASE UNCHANGED vars
  BY <1>4, UnchangedStands DEF vars, tasks
<1> QED BY <1>1, <1>2, <1>3, <1>4, CloseStands DEF Next

(* A start touches its own record and at most one other, which is over. *)
LEMMA StartTouches ==
    ASSUME IInv, NEW r \in Runs, Start(r), NEW q \in Runs, inv[q].owner # "none"
    PROVE  inv'[q] = inv[q] \/ (inv'[q].owner = "none" /\ Evictable(inv[q]))
<1>1. inv[r].owner = "none" /\ q # r
  BY DEF Start, Retained
<1>2. CASE SetInv(r, NewInvocation)
  BY <1>1, <1>2, Typed DEF SetInv
<1>3. ASSUME NEW e \in Retained, Evictable(inv[e]),
             inv' = [inv EXCEPT ![e] = NotRetained, ![r] = NewInvocation]
      PROVE  inv'[q] = inv[q] \/ (inv'[q].owner = "none" /\ Evictable(inv[q]))
  BY <1>1, <1>3, NewIsOK, Typed
<1> QED BY <1>2, <1>3 DEF Start

(* service.py: whatever races for the end of a run, its start is answered once,
   not with Started after a claim, and the outcome it reported stays. *)
THEOREM DecisionsStand == Spec => DecidedOnce
<1> DEFINE Once == \A r \in Runs : inv[r].owner # "none" /\ inv'[r].owner \notin {"none", "fresh"} =>
              /\ inv[r].started # "pending" => inv'[r].started = inv[r].started
              /\ inv[r].terminal /\ inv[r].started = "pending" => inv'[r].started # "ok"
              /\ inv[r].reported => inv'[r].state = inv[r].state
<1>1. ASSUME IInv, [Next]_vars PROVE Once
  <2>1. CASE AllStand
    BY <2>1 DEF AllStand, Stands
  <2>2. CASE \E r \in Runs : Start(r)
    BY <1>1, <2>2, StartTouches
  <2> QED BY <1>1, <2>1, <2>2, NextStands
<1>2. IInv /\ [Next]_vars => [Once]_vars
  BY <1>1
<1> QED BY <1>2, Invariance, PTL DEF Spec, DecidedOnce

(* service.py, _reserve_capacity: a record that makes room has no owner task,
   no lock, no native work and no uncertain cleanup left. *)
THEOREM EvictionIsSafe == Spec => EvictedIsOver
<1> DEFINE Gone == \A r \in Runs : inv[r].owner # "none" /\ inv'[r].owner = "none" =>
              /\ inv[r].owner = "done" /\ ~AtWork(r)
              /\ lock[SessionOf[r]] # r
              /\ ~Uncertain(inv[r])
<1>1. ASSUME IInv, [Next]_vars PROVE Gone
  <2> SUFFICES ASSUME NEW q \in Runs, inv[q].owner # "none", inv'[q].owner = "none"
               PROVE  /\ inv[q].owner = "done" /\ ~AtWork(q)
                      /\ lock[SessionOf[q]] # q
                      /\ ~Uncertain(inv[q])
    OBVIOUS
  <2>1. Evictable(inv[q])
    <3>1. ~AllStand
      BY DEF AllStand, Stands
    <3>2. PICK r \in Runs : Start(r)
      BY <1>1, <3>1, NextStands
    <3> QED BY <1>1, <3>2, StartTouches
  <2>2. ~inv[q].reservation /\ ~Uncertain(inv[q]) /\ inv[q].terminal
    BY <2>1 DEF Evictable
  <2>3. ~AtWork(q) /\ lock[SessionOf[q]] # q
    BY <1>1, <2>2 DEF IInv, WorkOK, ReservationIsLock
  <2>4. inv[q].cleanup \in {"none", "done"} /\ inv[q].state # "unknown"
    BY <1>1, <2>2, Typed DEF Uncertain, InvocationType
  <2>5. inv[q].owner = "done"
    BY <1>1, <2>2, <2>4, Typed DEF RunOK
  <2> QED BY <2>2, <2>3, <2>5
<1>2. IInv /\ [Next]_vars => [Gone]_vars
  BY <1>1
<1> QED BY <1>2, Invariance, PTL DEF Spec, EvictedIsOver

=============================================================================
