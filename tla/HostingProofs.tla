---------------------------- MODULE HostingProofs ----------------------------
(***************************************************************************)
(* Proofs about Hosting, for any number of Workspaces, any capacity and    *)
(* any number of faults.                                                   *)
(*                                                                         *)
(* The invariant is about one Workspace at a time: what its task queue and *)
(* its lock holder exclude (TasksOK), what is known before adoption        *)
(* (StartOK), what the entry of the source means to the operation under    *)
(* way (EntryOK), and which processes the host's late DELETEs may still    *)
(* hit (WriterOK).  Only the slot waiters look at all Workspaces at once.  *)
(***************************************************************************)
EXTENDS Hosting, ProofFacts

-----------------------------------------------------------------------------
(* The inductive invariant. *)

(* Tasks that bring a unit up or take an adopted one down: at most one of them
   is in the queue, and nothing is published or retained meanwhile. *)
Setup == {"activate", "adopt", "retire"}
Waiting(ws) == ToSet(tasks[ws])
Quiet(ws) ==
    active[ws] = None /\ closing[ws] = None /\ error[ws] = NoError /\ ws \in occupied

TasksOK(ws) ==
    /\ Distinct(tasks[ws])
    /\ op[ws].phase = "idle" => op[ws] = Idle
    /\ \A a, b \in Setup \cap Waiting(ws) : a = b
    /\ Setup \cap Waiting(ws) # {} => Quiet(ws)
    /\ op[ws] # Idle =>
          /\ Quiet(ws)
          /\ tasks[ws] # <<>>
          /\ Setup \cap Waiting(ws) \subseteq {Head(tasks[ws])}
    /\ op[ws].phase = "gateway" => Head(tasks[ws]) = "adopt"
    /\ active[ws] # None => error[ws] = NoError /\ ws \in occupied /\ closing[ws] = None
    /\ closing[ws] # None => error[ws] = NoError /\ ws \in occupied /\ "close" \in Waiting(ws)
    /\ error[ws] # NoError => ws \in occupied

StartOK(ws) ==
    /\ adopting => ~begun /\ entries[ws] = NoHosted /\ inventory[ws] = None
    /\ ~begun =>
          /\ tasks[ws] = <<>> /\ op[ws] = Idle /\ active[ws] = None /\ closing[ws] = None
          /\ error[ws] = NoError /\ tick[ws] = None /\ caller[ws] # "slot" /\ ws \notin occupied
          /\ entries[ws] # NoHosted => inventory[ws] # None

EntryOK(ws) ==
    /\ begun /\ entries[ws] # NoHosted => ws \in occupied
    /\ op[ws].phase \in {"probe", "gateway"} /\ Current(ws, op[ws].entry) => entries[ws].registered
    /\ Current(ws, inventory[ws]) => entries[ws].registered
    /\ op[ws].phase \in {"retiring", "retiringOld"} => entries[ws].id \in {None, op[ws].entry}
    /\ error[ws].kind = "timeout" =>
          error[ws].entry # None /\ entries[ws].id \in {None, error[ws].entry}

(* A process that was given the Workspace's files runs. *)
Writer(ws) == unit[ws] = "started" /\ proc[ws] \in used[ws]

WriterOK(ws) ==
    /\ Writer(ws) /\ ~adopting => entries[ws].registered
    /\ \A c \in wire : Writer(ws) /\ c[1] = ws =>
          ~adopting /\ entries[ws].observed \notin {None, c[2]}
    /\ unit[ws] = "started" => proc[ws] # None /\ <<ws, proc[ws]>> \notin wire
    /\ op[ws].phase \in {"placing", "probe"} /\ Head(tasks[ws]) # "adopt"
         /\ entries[ws].id = op[ws].entry /\ entries[ws].registered =>
          proc[ws] \notin used[ws]

WsOK(ws) == TasksOK(ws) /\ StartOK(ws) /\ EntryOK(ws) /\ WriterOK(ws)

Finite == IsFiniteSet(losses) /\ IsFiniteSet(wire) /\ \A ws \in Refs : IsFiniteSet(late[ws])

IInv == TypeOK /\ Finite /\ SlotWaitersAreWoken /\ \A ws \in Refs : WsOK(ws)

-----------------------------------------------------------------------------
(* Framing: a step that leaves a Workspace alone keeps what is true of it. *)

(* Nothing the invariant says about Workspace r is disturbed. *)
Same(r) ==
    /\ tasks'[r] = tasks[r] /\ op'[r] = op[r] /\ active'[r] = active[r]
    /\ closing'[r] = closing[r] /\ error'[r] = error[r]
    /\ tick'[r] = tick[r] \/ begun
    /\ caller'[r] = "slot" => caller[r] = "slot" \/ begun
    /\ r \in occupied' <=> r \in occupied
    /\ entries'[r] = entries[r] /\ inventory'[r] = inventory[r]
    /\ unit'[r] = "started" => unit[r] = "started"
    /\ proc'[r] = proc[r] /\ used'[r] = used[r]
    /\ \A c \in wire' : c[1] = r => c \in wire
Others(ws) == \A r \in Refs \ {ws} : Same(r)

LEMMA Frame ==
    ASSUME NEW r \in Refs, WsOK(r), Same(r), adopting' = adopting, begun' = begun
    PROVE  WsOK(r)'
  <1> USE DEF WsOK, Same
  <1>1. TasksOK(r)'
    BY DEF TasksOK, Waiting, Quiet
  <1>2. StartOK(r)'
    BY DEF StartOK
  <1>3. EntryOK(r)'
    BY DEF EntryOK, Current
  <1>4. WriterOK(r)'
    <2>1. <<r, proc[r]>> \notin wire => <<r, proc[r]>> \notin wire'
      OBVIOUS
    <2>2. QED
      BY <2>1 DEF WriterOK, Writer
  <1>5. QED
    BY <1>1, <1>2, <1>3, <1>4

LEMMA WsStep ==
    ASSUME IInv, TypeOK', Finite', SlotWaitersAreWoken', NEW ws \in Refs, WsOK(ws)', Others(ws),
           adopting' = adopting, begun' = begun
    PROVE  IInv'
  <1>1. \A r \in Refs \ {ws} : WsOK(r)'
    BY Frame DEF IInv, Others
  <1>2. QED
    BY <1>1 DEF IInv

(* The slot waiters: no step makes a free slot without waking them. *)
LEMMA OccupiedFinite ==
    ASSUME TypeOK
    PROVE  /\ IsFiniteSet(occupied) /\ Cardinality(occupied) \in Nat
           /\ \A r : IsFiniteSet(occupied \cup {r})
                /\ Cardinality(occupied \cup {r}) \in Nat
                /\ Cardinality(occupied \cup {r}) >= Cardinality(occupied)
  <1>1. IsFiniteSet(occupied)
    BY RefsAssumption, FS_Subset DEF TypeOK, ManagerTypeOK
  <1>2. Cardinality(occupied) \in Nat
    BY <1>1, FS_CardinalityType
  <1>3. ASSUME NEW r
        PROVE  /\ IsFiniteSet(occupied \cup {r})
               /\ Cardinality(occupied \cup {r}) \in Nat
               /\ Cardinality(occupied \cup {r}) >= Cardinality(occupied)
    <2>1. IsFiniteSet(occupied \cup {r})
      BY <1>1, FS_AddElement
    <2>2. Cardinality(occupied \cup {r}) =
             IF r \in occupied THEN Cardinality(occupied) ELSE Cardinality(occupied) + 1
      BY <1>1, FS_AddElement
    <2>3. QED
      BY <1>2, <2>1, <2>2
  <1>4. QED
    BY <1>1, <1>2, <1>3

LEMMA SlotsKept ==
    ASSUME SlotWaitersAreWoken, occupied' = occupied,
           \A r \in Refs : caller'[r] = "slot" => caller[r] = "slot"
    PROVE  SlotWaitersAreWoken'
  BY DEF SlotWaitersAreWoken, HasSlot

LEMMA SlotTaken ==
    ASSUME TypeOK, SlotWaitersAreWoken, NEW ws \in Refs, occupied' = occupied \cup {ws},
           \A r \in Refs : caller'[r] = "slot" => caller[r] = "slot" /\ r # ws
    PROVE  SlotWaitersAreWoken'
  <1>1. /\ Cardinality(occupied) \in Nat /\ Cardinality(occupied') \in Nat
        /\ Cardinality(occupied') >= Cardinality(occupied) /\ Capacity \in Nat
    BY OccupiedFinite, CapacityAssumption
  <1>2. ASSUME NEW r \in Refs, caller'[r] = "slot" PROVE ~HasSlot(r)'
    <2>1. r \notin occupied /\ ~(Cardinality(occupied) < Capacity) /\ r # ws
      BY <1>2 DEF SlotWaitersAreWoken, HasSlot
    <2>2. ~(Cardinality(occupied') < Capacity)
      BY <1>1, <2>1
    <2>3. QED
      BY <2>1, <2>2 DEF HasSlot
  <1>3. QED
    BY <1>2 DEF SlotWaitersAreWoken

LEMMA SlotsWoken ==
    ASSUME \A r \in Refs : caller'[r] # "slot"
    PROVE  SlotWaitersAreWoken'
  BY DEF SlotWaitersAreWoken

-----------------------------------------------------------------------------
(* The task queue and the lock. *)

OpType == [phase : Phases, entry : Nat, inst : Nat]
ErrorType == [kind : {"none", "commit", "timeout"}, entry : Nat]
EntryType == Hosted \cup {NoHosted}

LEMMA WsTyped ==
    ASSUME TypeOK, NEW ws \in Refs
    PROVE  /\ tasks[ws] \in Seq(Kinds) /\ op[ws] \in OpType /\ active[ws] \in Nat
           /\ closing[ws] \in Nat /\ losing[ws] \in Nat /\ tick[ws] \in Nat /\ used[ws] \in SUBSET Nat
           /\ late[ws] \in SUBSET Nat /\ inventory[ws] \in Nat
           /\ error[ws] \in ErrorType /\ entries[ws] \in EntryType
           /\ caller[ws] \in {"idle", "loop", "slot"}
           /\ unit[ws] \in UnitStates /\ proc[ws] \in Nat
  BY DEF TypeOK, SourceTypeOK, ManagerTypeOK, OpType, ErrorType, EntryType

LEMMA IdleFacts ==
    Idle \in OpType /\ Idle.phase = "idle" /\ Idle.entry = None /\ Idle.inst = None /\ None \in Nat
  BY DEF Idle, OpType, None, Phases

LEMMA ErrorFacts ==
    NoError \in ErrorType /\ NoError.kind = "none"
  BY DEF NoError, ErrorType, None

LEMMA NoHostedFacts ==
    /\ NoHosted.id = None /\ NoHosted.registered = FALSE
    /\ NoHosted.desired = "none" /\ NoHosted.observed = None /\ NoHosted \in EntryType
  BY DEF NoHosted, None, EntryType

LEMMA HostedFacts ==
    ASSUME NEW e \in EntryType
    PROVE  /\ e.id \in Nat /\ e.registered \in BOOLEAN /\ e.observed \in Nat
           /\ e.id = None <=> e = NoHosted
           /\ e.desired = "none" <=> e = NoHosted
           /\ e # NoHosted => e \in Hosted
  <1>1. CASE e = NoHosted
    BY <1>1, NoHostedFacts, IdleFacts
  <1>2. CASE e \in Hosted
    <2>1. e.id \in Nat \ {None} /\ e.desired \in {"running", "released"}
          /\ e.registered \in BOOLEAN /\ e.observed \in Nat
      BY <1>2 DEF Hosted
    <2>2. QED
      BY <1>2, <2>1, NoHostedFacts
  <1>3. QED
    BY <1>1, <1>2 DEF EntryType

LEMMA GotoFacts ==
    ASSUME TypeOK, NEW ws \in Refs, NEW phase \in Phases, phase # "idle", Goto(ws, phase)
    PROVE  /\ op' \in [Refs -> OpType]
           /\ op'[ws].phase = phase /\ op'[ws].entry = op[ws].entry /\ op'[ws].inst = op[ws].inst
           /\ op'[ws] # Idle
           /\ \A r \in Refs \ {ws} : op'[r] = op[r]
  <1>1. op \in [Refs -> OpType] /\ op' = [op EXCEPT ![ws].phase = phase]
    BY DEF TypeOK, ManagerTypeOK, OpType, Goto
  <1>2. op'[ws] = [op[ws] EXCEPT !.phase = phase]
    BY <1>1
  <1>3. op'[ws] \in OpType /\ op'[ws].phase = phase /\ op'[ws].entry = op[ws].entry
        /\ op'[ws].inst = op[ws].inst
    BY <1>1, <1>2 DEF OpType
  <1>4. op' \in [Refs -> OpType] /\ \A r \in Refs \ {ws} : op'[r] = op[r]
    BY <1>1, <1>3
  <1>5. QED
    BY <1>3, <1>4, IdleFacts

LEMMA EndTaskFacts ==
    ASSUME TypeOK, NEW ws \in Refs, tasks[ws] # <<>>, Distinct(tasks[ws]), EndTask(ws)
    PROVE  /\ op' \in [Refs -> OpType] /\ tasks' \in [Refs -> Seq(Kinds)]
           /\ op'[ws] = Idle /\ Distinct(tasks'[ws])
           /\ Waiting(ws)' = Waiting(ws) \ {Head(tasks[ws])}
           /\ \A r \in Refs \ {ws} : op'[r] = op[r] /\ tasks'[r] = tasks[r]
  <1>1. /\ op \in [Refs -> OpType] /\ tasks \in [Refs -> Seq(Kinds)]
        /\ op' = [op EXCEPT ![ws] = Idle] /\ tasks' = [tasks EXCEPT ![ws] = Tail(tasks[ws])]
    BY DEF TypeOK, ManagerTypeOK, OpType, EndTask
  <1>2. /\ Tail(tasks[ws]) \in Seq(Kinds) /\ Distinct(Tail(tasks[ws]))
        /\ ToSet(Tail(tasks[ws])) = ToSet(tasks[ws]) \ {Head(tasks[ws])}
    BY TakeHead, WsTyped
  <1>3. op' \in [Refs -> OpType] /\ tasks' \in [Refs -> Seq(Kinds)]
    BY <1>1, <1>2, IdleFacts
  <1>4. op'[ws] = Idle /\ tasks'[ws] = Tail(tasks[ws])
    BY <1>1
  <1>5. QED
    BY <1>1, <1>2, <1>3, <1>4 DEF Waiting

LEMMA EnqueueFacts ==
    ASSUME TypeOK, NEW ws \in Refs, NEW kind \in Kinds, Distinct(tasks[ws]), Enqueue(ws, kind)
    PROVE  /\ tasks' \in [Refs -> Seq(Kinds)] /\ Distinct(tasks'[ws]) /\ tasks'[ws] # <<>>
           /\ Waiting(ws)' = Waiting(ws) \cup {kind}
           /\ tasks[ws] # <<>> => Head(tasks'[ws]) = Head(tasks[ws])
           /\ \A r \in Refs \ {ws} : tasks'[r] = tasks[r]
  <1>1. tasks \in [Refs -> Seq(Kinds)] /\ tasks[ws] \in Seq(Kinds)
    BY DEF TypeOK, ManagerTypeOK
  <1> DEFINE q == tasks[ws]
             n == IF Pending(ws, kind) THEN q ELSE Append(q, kind)
  <1>2. tasks' = [tasks EXCEPT ![ws] = n]
    BY <1>1 DEF Enqueue
  <1>3. CASE kind \in ToSet(q)
    <2>1. tasks' = tasks
      BY <1>1, <1>2, <1>3 DEF Pending
    <2>2. q # <<>>
      BY <1>1, <1>3, EntriesTyped
    <2>3. QED
      BY <1>1, <1>3, <2>1, <2>2 DEF Waiting
  <1>4. CASE kind \notin ToSet(q)
    <2>1. n = Append(q, kind)
      BY <1>4 DEF Pending
    <2>2. /\ Append(q, kind) \in Seq(Kinds) /\ Append(q, kind) # <<>> /\ Distinct(Append(q, kind))
          /\ ToSet(Append(q, kind)) = ToSet(q) \cup {kind}
      BY <1>1, <1>4, PutLast
    <2>3. q # <<>> => Head(Append(q, kind)) = Head(q)
      BY <1>1
    <2>4. tasks'[ws] = Append(q, kind) /\ tasks' \in [Refs -> Seq(Kinds)]
      BY <1>1, <1>2, <2>1, <2>2
    <2>5. QED
      BY <1>1, <1>2, <2>2, <2>3, <2>4 DEF Waiting
  <1>5. QED
    BY <1>3, <1>4

LEMMA AllSame ==
    ASSUME IInv, TypeOK', Finite', SlotWaitersAreWoken', \A r \in Refs : Same(r),
           adopting' = adopting, begun' = begun
    PROVE  IInv'
  BY Frame DEF IInv

(* Whatever is under way, adoption has begun. *)
LEMMA BegunFacts ==
    ASSUME IInv, NEW ws \in Refs,
           \/ tasks[ws] # <<>> \/ op[ws].phase # "idle" \/ active[ws] # None
           \/ tick[ws] # None \/ error[ws] # NoError
    PROVE  begun /\ ~adopting
  BY IdleFacts DEF IInv, WsOK, StartOK

LEMMA BegunStart ==
    ASSUME NEW ws \in Refs, begun', ~adopting'
    PROVE  StartOK(ws)'
  BY DEF StartOK

-----------------------------------------------------------------------------
(* ensure, and the lifecycle tick. *)

LEMMA EnsureCalledStep ==
    ASSUME IInv, NEW ws \in Refs, EnsureCalled(ws), UNCHANGED <<backend, hostVars>>
    PROVE  IInv'
  <1> USE DEF source, backend, hostVars
  <1>1. TypeOK'
    BY DEF IInv, TypeOK, SourceTypeOK, ManagerTypeOK, EnsureCalled
  <1>2. \A r \in Refs : Same(r) /\ (caller'[r] = "slot" => caller[r] = "slot")
    BY DEF Same, EnsureCalled, IInv, TypeOK, ManagerTypeOK
  <1>3. SlotWaitersAreWoken'
    BY <1>2, SlotsKept DEF IInv, EnsureCalled
  <1>4. QED
    BY <1>1, <1>2, <1>3, AllSame DEF IInv, Finite, EnsureCalled

LEMMA EnsureFailsStep ==
    ASSUME IInv, NEW ws \in Refs, EnsureFails(ws), UNCHANGED <<backend, hostVars>>
    PROVE  IInv'
  <1> USE DEF source, backend, hostVars
  <1>1. TypeOK'
    BY DEF IInv, TypeOK, SourceTypeOK, ManagerTypeOK, EnsureFails
  <1>2. \A r \in Refs : Same(r) /\ (caller'[r] = "slot" => caller[r] = "slot")
    BY DEF Same, EnsureFails, IInv, TypeOK, ManagerTypeOK
  <1>3. SlotWaitersAreWoken'
    BY <1>2, SlotsKept DEF IInv, EnsureFails
  <1>4. QED
    BY <1>1, <1>2, <1>3, AllSame DEF IInv, Finite, EnsureFails

LEMMA TickBeginsStep ==
    ASSUME IInv, NEW ws \in Refs, TickBegins(ws), UNCHANGED <<backend, hostVars>>
    PROVE  IInv'
  <1> USE DEF source, backend, hostVars
  <1>1. TypeOK'
    BY DEF IInv, TypeOK, SourceTypeOK, ManagerTypeOK, TickBegins
  <1>2. begun
    BY BegunFacts DEF TickBegins
  <1>3. \A r \in Refs : Same(r)
    BY <1>2 DEF Same, TickBegins
  <1>4. SlotWaitersAreWoken'
    BY SlotsKept DEF IInv, TickBegins
  <1>5. QED
    BY <1>1, <1>3, <1>4, AllSame DEF IInv, Finite, TickBegins

LEMMA TickEndsStep ==
    ASSUME IInv, NEW ws \in Refs, TickEnds(ws), UNCHANGED <<backend, hostVars>>
    PROVE  IInv'
  <1> USE DEF source, backend, hostVars
  <1>1. TypeOK'
    BY IdleFacts DEF IInv, TypeOK, SourceTypeOK, ManagerTypeOK, TickEnds
  <1>2. begun
    BY BegunFacts DEF TickEnds
  <1>3. \A r \in Refs : Same(r)
    BY <1>2 DEF Same, TickEnds
  <1>4. SlotWaitersAreWoken'
    BY SlotsKept DEF IInv, TickEnds
  <1>5. QED
    BY <1>1, <1>3, <1>4, AllSame DEF IInv, Finite, TickEnds

LEMMA EnsureLoopsStep ==
    ASSUME IInv, NEW ws \in Refs, EnsureLoops(ws), UNCHANGED <<backend, hostVars>>
    PROVE  IInv'
  <1> USE DEF source, backend, hostVars
  <1>1. begun /\ ~adopting /\ TypeOK /\ WsOK(ws)
    BY BegunFacts DEF EnsureLoops, AdoptionDone, IInv, WsOK, StartOK
  <1>2. Finite' /\ adopting' = adopting /\ begun' = begun
    BY DEF EnsureLoops, IInv, Finite
  <1>3. CASE /\ caller' = [caller EXCEPT ![ws] = "idle"]
             /\ UNCHANGED <<occupied, tasks>>
    <2>1. TypeOK'
      BY <1>1, <1>3 DEF TypeOK, SourceTypeOK, ManagerTypeOK, EnsureLoops
    <2>2. \A r \in Refs : Same(r) /\ (caller'[r] = "slot" => caller[r] = "slot")
      BY <1>1, <1>3 DEF Same, EnsureLoops, TypeOK, ManagerTypeOK
    <2>3. SlotWaitersAreWoken'
      BY <1>3, <2>2, SlotsKept DEF IInv
    <2>4. QED
      BY <1>2, <2>1, <2>2, <2>3, AllSame
  <1>4. CASE /\ ~HasSlot(ws)
             /\ caller' = [caller EXCEPT ![ws] = "slot"]
             /\ UNCHANGED <<occupied, tasks>>
    <2>1. TypeOK'
      BY <1>1, <1>4 DEF TypeOK, SourceTypeOK, ManagerTypeOK, EnsureLoops
    <2>2. \A r \in Refs : Same(r)
      BY <1>1, <1>4 DEF Same, EnsureLoops, TypeOK, ManagerTypeOK
    <2>3. SlotWaitersAreWoken'
      BY <1>1, <1>4 DEF IInv, SlotWaitersAreWoken, HasSlot, TypeOK, ManagerTypeOK
    <2>4. QED
      BY <1>2, <2>1, <2>2, <2>3, AllSame
  <1>5. CASE /\ error[ws] = NoError /\ active[ws] = None
             /\ ~Pending(ws, "activate")
             /\ occupied' = occupied \cup {ws}
             /\ Enqueue(ws, "activate")
             /\ UNCHANGED caller
    <2>1. TasksOK(ws) /\ EntryOK(ws) /\ WriterOK(ws)
      BY <1>1 DEF WsOK
    <2>2. ToSet(tasks[ws]) \subseteq Kinds /\ (tasks[ws] = <<>> <=> ToSet(tasks[ws]) = {})
      BY <1>1, WsTyped, EntriesTyped
    <2>3. tasks[ws] = <<>> /\ Waiting(ws) = {}
      BY <1>5, <2>2 DEF EnsureLoops, LifecyclePending, Pending, Kinds, Waiting
    <2>4. op[ws] = Idle /\ closing[ws] = None
      BY <2>1, <2>3 DEF TasksOK
    <2>5. /\ tasks' \in [Refs -> Seq(Kinds)] /\ Distinct(tasks'[ws])
          /\ Waiting(ws)' = {"activate"}
          /\ \A r \in Refs \ {ws} : tasks'[r] = tasks[r]
      <3>1. "activate" \in Kinds
        BY DEF Kinds
      <3>2. QED
        BY <1>1, <1>5, <2>1, <2>3, <3>1, EnqueueFacts DEF TasksOK
    <2>6. TypeOK'
      BY <1>1, <1>5, <2>5 DEF TypeOK, SourceTypeOK, ManagerTypeOK, EnsureLoops
    <2>7. UNCHANGED <<active, closing, error, op, entries, inventory, unit, proc, used, wire, tick>>
      BY DEF EnsureLoops
    <2>8. TasksOK(ws)'
      BY <1>5, <2>1, <2>4, <2>5, <2>7, IdleFacts DEF TasksOK, Quiet
    <2>9. StartOK(ws)'
      BY <1>1, <1>2, BegunStart
    <2>10. EntryOK(ws)'
      BY <1>1, <1>2, <1>5, <2>1, <2>7 DEF EntryOK, Current
    <2>11. WriterOK(ws)'
      BY <1>2, <2>1, <2>4, <2>7, IdleFacts DEF WriterOK, Writer
    <2>12. Others(ws)
      BY <1>5, <2>5, <2>7 DEF Others, Same
    <2>13. SlotWaitersAreWoken'
      <3>1. caller[ws] = "loop"
        BY DEF EnsureLoops
      <3>2. QED
        BY <1>1, <1>5, <3>1, SlotTaken DEF IInv
    <2>14. WsOK(ws)'
      BY <2>8, <2>9, <2>10, <2>11 DEF WsOK
    <2>15. QED
      BY <1>2, <2>6, <2>12, <2>13, <2>14, WsStep
  <1>6. QED
    BY <1>3, <1>4, <1>5 DEF EnsureLoops

-----------------------------------------------------------------------------
(* _activate and _start. *)

(* The lock holder goes on to another phase, with another entry or instance. *)
LEMMA GotoEntry ==
    ASSUME TypeOK, NEW ws \in Refs, NEW phase \in Phases, phase # "idle", NEW e \in Nat,
           \/ op' = [op EXCEPT ![ws].phase = phase, ![ws].entry = e]
           \/ op' = [op EXCEPT ![ws].entry = e, ![ws].phase = phase]
    PROVE  /\ op' \in [Refs -> OpType] /\ op'[ws].phase = phase /\ op'[ws].entry = e
           /\ op'[ws] # Idle
           /\ \A r \in Refs \ {ws} : op'[r] = op[r]
  <1>1. op \in [Refs -> OpType]
    BY DEF TypeOK, ManagerTypeOK, OpType
  <1>2. op[ws] \in OpType
    BY <1>1
  <1>3. op'[ws] = [phase |-> phase, entry |-> e, inst |-> op[ws].inst]
    BY <1>1, <1>2 DEF OpType
  <1>4. op'[ws] \in OpType /\ op'[ws].phase = phase /\ op'[ws].entry = e
    BY <1>2, <1>3 DEF OpType
  <1>5. op' \in [Refs -> OpType] /\ \A r \in Refs \ {ws} : op'[r] = op[r]
    BY <1>1, <1>4
  <1>6. QED
    BY <1>4, <1>5, IdleFacts

LEMMA GotoInst ==
    ASSUME TypeOK, NEW ws \in Refs, NEW phase \in Phases, phase # "idle", NEW i \in Nat,
           op' = [op EXCEPT ![ws].phase = phase, ![ws].inst = i]
    PROVE  /\ op' \in [Refs -> OpType] /\ op'[ws].phase = phase /\ op'[ws].inst = i
           /\ op'[ws] # Idle
           /\ \A r \in Refs \ {ws} : op'[r] = op[r]
  <1>1. op \in [Refs -> OpType]
    BY DEF TypeOK, ManagerTypeOK, OpType
  <1>2. op[ws] \in OpType
    BY <1>1
  <1>3. op'[ws] = [phase |-> phase, entry |-> op[ws].entry, inst |-> i]
    BY <1>1, <1>2 DEF OpType
  <1>4. op'[ws] \in OpType /\ op'[ws].phase = phase /\ op'[ws].inst = i
    BY <1>2, <1>3 DEF OpType
  <1>5. op' \in [Refs -> OpType] /\ \A r \in Refs \ {ws} : op'[r] = op[r]
    BY <1>1, <1>4
  <1>6. QED
    BY <1>4, <1>5, IdleFacts

(* The lock is held: what the invariant says of the Workspace then. *)
LEMMA HeldFacts ==
    ASSUME IInv, NEW ws \in Refs, op[ws].phase # "idle"
    PROVE  /\ TypeOK /\ TasksOK(ws) /\ EntryOK(ws) /\ WriterOK(ws) /\ begun /\ ~adopting
           /\ Quiet(ws) /\ tasks[ws] # <<>> /\ Distinct(tasks[ws]) /\ op[ws] # Idle
           /\ Setup \cap Waiting(ws) \subseteq {Head(tasks[ws])}
  <1>1. TypeOK /\ TasksOK(ws) /\ EntryOK(ws) /\ WriterOK(ws)
    BY DEF IInv, WsOK
  <1>2. op[ws] # Idle
    BY IdleFacts
  <1>3. QED
    BY <1>1, <1>2, BegunFacts DEF TasksOK

LEMMA TakesFacts ==
    ASSUME IInv, NEW ws \in Refs, NEW kind, Takes(ws, kind)
    PROVE  /\ TypeOK /\ TasksOK(ws) /\ EntryOK(ws) /\ WriterOK(ws) /\ begun /\ ~adopting
           /\ tasks[ws] # <<>> /\ Distinct(tasks[ws]) /\ Head(tasks[ws]) = kind
           /\ kind \in Waiting(ws) /\ op[ws] = Idle /\ op[ws].phase = "idle"
           /\ kind \in Setup => Quiet(ws) /\ Setup \cap Waiting(ws) \subseteq {kind}
  <1>1. TypeOK /\ TasksOK(ws) /\ EntryOK(ws) /\ WriterOK(ws)
    BY DEF IInv, WsOK
  <1>2. tasks[ws] # <<>> /\ op[ws] = Idle /\ Head(tasks[ws]) = kind
    BY DEF Takes
  <1>3. Distinct(tasks[ws])
    BY <1>1 DEF TasksOK
  <1>4. kind \in Waiting(ws)
    BY <1>1, <1>2, <1>3, WsTyped, TakeHead DEF Waiting
  <1>5. QED
    BY <1>1, <1>2, <1>3, <1>4, BegunFacts, IdleFacts DEF TasksOK

(* The lock stays with the head of the queue: only the phase, the entry and the
   registration it waits for are to be looked at. *)
LEMMA LockKept ==
    ASSUME IInv, NEW ws \in Refs, TypeOK', Finite', SlotWaitersAreWoken', Others(ws),
           begun, ~adopting, UNCHANGED <<adopting, begun, tasks, unit, proc, wire>>,
           TasksOK(ws), op'[ws] # Idle, op'[ws].phase # "idle", tasks[ws] # <<>>, Quiet(ws)',
           Setup \cap Waiting(ws) \subseteq {Head(tasks[ws])},
           op'[ws].phase = "gateway" => Head(tasks[ws]) = "adopt",
           EntryOK(ws)', WriterOK(ws)'
    PROVE  IInv'
  <1>1. TasksOK(ws)'
    BY ErrorFacts DEF TasksOK, Quiet, Waiting
  <1>2. StartOK(ws)'
    BY BegunStart
  <1>3. WsOK(ws)'
    BY <1>1, <1>2 DEF WsOK
  <1>4. QED
    BY <1>3, WsStep

LEMMA ActivatesStep ==
    ASSUME IInv, NEW ws \in Refs, Activates(ws), UNCHANGED <<backend, hostVars>>
    PROVE  IInv'
  <1> USE DEF source, backend, hostVars
  <1>1. /\ TypeOK /\ TasksOK(ws) /\ EntryOK(ws) /\ WriterOK(ws) /\ begun /\ ~adopting
        /\ tasks[ws] # <<>> /\ Head(tasks[ws]) = "activate"
        /\ Quiet(ws) /\ Setup \cap Waiting(ws) \subseteq {"activate"}
    BY TakesFacts DEF Activates, Setup
  <1>2. /\ occupied' = occupied /\ Goto(ws, "place")
        /\ UNCHANGED <<adopting, begun, tasks, unit, proc, wire, active, closing, error, entries,
                       inventory, used, tick, caller>>
    BY <1>1 DEF Activates, Quiet
  <1>3. /\ op' \in [Refs -> OpType] /\ op'[ws].phase = "place" /\ op'[ws] # Idle
        /\ \A r \in Refs \ {ws} : op'[r] = op[r]
    BY <1>1, <1>2, GotoFacts DEF Phases
  <1>4. TypeOK'
    BY <1>1, <1>2, <1>3 DEF TypeOK, SourceTypeOK, ManagerTypeOK, OpType, Activates
  <1>5. Others(ws)
    BY <1>2, <1>3 DEF Others, Same
  <1>6. SlotWaitersAreWoken' /\ Finite' /\ Quiet(ws)'
    BY <1>1, <1>2, SlotsKept DEF IInv, Finite, Activates, Quiet
  <1>7. EntryOK(ws)'
    BY <1>1, <1>2, <1>3 DEF EntryOK, Current
  <1>8. WriterOK(ws)'
    BY <1>1, <1>2, <1>3 DEF WriterOK, Writer
  <1>9. QED
    BY <1>1, <1>2, <1>3, <1>4, <1>5, <1>6, <1>7, <1>8, LockKept

LEMMA EntriesInUseFacts ==
    ASSUME IInv, NEW ws \in Refs
    PROVE  LET id == Fresh(EntriesInUse(ws) \cup {None})
           IN  id \in Nat \ {0} /\ id \notin EntriesInUse(ws)
  <1> DEFINE S == EntriesInUse(ws) \cup {None}
             e == entries[ws].id
  <1>1. /\ late[ws] \in SUBSET Nat /\ IsFiniteSet(late[ws])
        /\ {entries[ws].id, op[ws].entry, inventory[ws], error[ws].entry, None} \subseteq Nat
    <2>1. TypeOK /\ IsFiniteSet(late[ws])
      BY DEF IInv, Finite
    <2>2. entries[ws].id \in Nat
      BY <2>1, WsTyped, HostedFacts
    <2>3. op[ws].entry \in Nat /\ inventory[ws] \in Nat /\ error[ws].entry \in Nat /\ late[ws] \in SUBSET Nat
      BY <2>1, WsTyped DEF OpType, ErrorType
    <2>4. QED
      BY <2>1, <2>2, <2>3, IdleFacts
  <1>2. S = ((((late[ws] \cup {entries[ws].id}) \cup {op[ws].entry}) \cup {inventory[ws]})
                \cup {error[ws].entry}) \cup {None}
    BY DEF EntriesInUse
  <1>3. IsFiniteSet(S) /\ S \in SUBSET Nat
    <2>1. IsFiniteSet(late[ws] \cup {entries[ws].id})
      BY <1>1, FS_AddElement
    <2>2. IsFiniteSet((late[ws] \cup {entries[ws].id}) \cup {op[ws].entry})
      BY <2>1, FS_AddElement
    <2>3. IsFiniteSet(((late[ws] \cup {entries[ws].id}) \cup {op[ws].entry}) \cup {inventory[ws]})
      BY <2>2, FS_AddElement
    <2>4. IsFiniteSet((((late[ws] \cup {entries[ws].id}) \cup {op[ws].entry}) \cup {inventory[ws]})
                          \cup {error[ws].entry})
      BY <2>3, FS_AddElement
    <2>5. IsFiniteSet(S)
      BY <1>2, <2>4, FS_AddElement
    <2>6. S \in SUBSET Nat
      BY <1>1, <1>2
    <2>7. QED
      BY <2>5, <2>6
  <1>4. Fresh(S) \in Nat \ {0} /\ Fresh(S) \notin S
    <2> HIDE DEF S
    <2>1. QED
      BY <1>3, LeastUnused DEF Fresh
  <1>5. QED
    BY <1>4

LEMMA PlaceBeginsStep ==
    ASSUME IInv, NEW ws \in Refs, PlaceBegins(ws), UNCHANGED <<backend, hostVars>>
    PROVE  IInv'
  <1> USE DEF source, backend, hostVars
  <1> DEFINE id == Fresh(EntriesInUse(ws) \cup {None})
             new == [NoHosted EXCEPT !.id = id, !.desired = "running"]
  <1>1. id \in Nat \ {None} /\ id # inventory[ws]
    BY EntriesInUseFacts DEF EntriesInUse, None
  <1>2. /\ TypeOK /\ TasksOK(ws) /\ EntryOK(ws) /\ WriterOK(ws) /\ begun /\ ~adopting
        /\ Quiet(ws) /\ tasks[ws] # <<>>
        /\ Setup \cap Waiting(ws) \subseteq {Head(tasks[ws])}
    BY HeldFacts DEF PlaceBegins, Holds
  <1>3. /\ entries[ws] = NoHosted
        /\ entries' = [entries EXCEPT ![ws] = new]
        /\ op' = [op EXCEPT ![ws].phase = "placing", ![ws].entry = id]
        /\ UNCHANGED <<adopting, begun, tasks, unit, proc, wire, active, closing, error, occupied,
                       inventory, used, tick, caller>>
    BY DEF PlaceBegins, place
  <1>4. new \in Hosted /\ new.id = id /\ new.registered = FALSE
    BY <1>1 DEF NoHosted, Hosted, None
  <1> HIDE DEF id, new
  <1>5. /\ op' \in [Refs -> OpType] /\ op'[ws].phase = "placing" /\ op'[ws] # Idle
        /\ \A r \in Refs \ {ws} : op'[r] = op[r]
    <2>1. id \in Nat /\ "placing" \in Phases
      BY <1>1 DEF Phases
    <2>2. QED
      BY <1>2, <1>3, <2>1, GotoEntry
  <1>6. entries \in [Refs -> EntryType] /\ entries' \in [Refs -> EntryType] /\ entries'[ws] = new
    BY <1>2, <1>3, <1>4 DEF TypeOK, SourceTypeOK, EntryType
  <1>7. TypeOK'
    BY <1>2, <1>3, <1>5, <1>6 DEF TypeOK, SourceTypeOK, ManagerTypeOK, OpType, EntryType, PlaceBegins
  <1>8. Others(ws)
    BY <1>3, <1>5, <1>6 DEF Others, Same
  <1>9. SlotWaitersAreWoken' /\ Finite' /\ Quiet(ws)'
    BY <1>2, <1>3, SlotsKept DEF IInv, Finite, PlaceBegins, Quiet
  <1>10. EntryOK(ws)'
    BY <1>1, <1>2, <1>3, <1>4, <1>5, <1>6, ErrorFacts DEF EntryOK, Current, Quiet
  <1>11. WriterOK(ws)'
    <2>1. ~Writer(ws)
      BY <1>2, <1>3, NoHostedFacts DEF WriterOK
    <2>2. QED
      BY <1>2, <1>3, <1>4, <1>6, <2>1 DEF WriterOK, Writer
  <1>12. QED
    BY <1>2, <1>3, <1>5, <1>7, <1>8, <1>9, <1>10, <1>11, LockKept

LEMMA PlaceReturnsStep ==
    ASSUME IInv, NEW ws \in Refs, PlaceReturns(ws), UNCHANGED <<backend, hostVars>>
    PROVE  IInv'
  <1> USE DEF source, backend, hostVars
  <1>1. /\ TypeOK /\ TasksOK(ws) /\ EntryOK(ws) /\ WriterOK(ws) /\ begun /\ ~adopting
        /\ Quiet(ws) /\ tasks[ws] # <<>>
        /\ Setup \cap Waiting(ws) \subseteq {Head(tasks[ws])}
    BY HeldFacts DEF PlaceReturns, Holds
  <1>2. /\ op[ws].phase = "placing" /\ Goto(ws, "probe")
        /\ entries[ws].id = op[ws].entry => entries[ws].registered
        /\ UNCHANGED <<adopting, begun, tasks, unit, proc, wire, active, closing, error, entries,
                       inventory, used, tick, caller, occupied>>
    BY DEF PlaceReturns, Placed, Holds
  <1>3. /\ op' \in [Refs -> OpType] /\ op'[ws].phase = "probe" /\ op'[ws] # Idle
        /\ op'[ws].entry = op[ws].entry
        /\ \A r \in Refs \ {ws} : op'[r] = op[r]
    BY <1>1, <1>2, GotoFacts DEF Phases
  <1>4. TypeOK'
    BY <1>1, <1>2, <1>3 DEF TypeOK, SourceTypeOK, ManagerTypeOK, OpType, PlaceReturns
  <1>5. Others(ws)
    BY <1>2, <1>3 DEF Others, Same
  <1>6. SlotWaitersAreWoken' /\ Finite' /\ Quiet(ws)'
    BY <1>1, <1>2, SlotsKept DEF IInv, Finite, PlaceReturns, Quiet
  <1>7. EntryOK(ws)'
    BY <1>1, <1>2, <1>3 DEF EntryOK, Current
  <1>8. WriterOK(ws)'
    BY <1>1, <1>2, <1>3 DEF WriterOK, Writer
  <1>9. QED
    BY <1>1, <1>2, <1>3, <1>4, <1>5, <1>6, <1>7, <1>8, LockKept

(* The operation that holds the lock ends.  Nothing of it stays in the queue. *)
LEMMA TaskEnds ==
    ASSUME IInv, NEW ws \in Refs, op[ws].phase # "idle", EndTask(ws), TypeOK', Finite',
           SlotWaitersAreWoken', Others(ws), UNCHANGED <<adopting, begun, unit, proc, wire, used>>,
           closing'[ws] = None, active'[ws] # None => error'[ws] = NoError /\ ws \in occupied',
           error'[ws] # NoError => ws \in occupied',
           EntryOK(ws)', ~Writer(ws) \/ entries'[ws] = entries[ws]
    PROVE  IInv'
  <1>1. /\ TypeOK /\ TasksOK(ws) /\ EntryOK(ws) /\ WriterOK(ws) /\ begun /\ ~adopting
        /\ Quiet(ws) /\ tasks[ws] # <<>> /\ Distinct(tasks[ws])
        /\ Setup \cap Waiting(ws) \subseteq {Head(tasks[ws])}
    BY HeldFacts
  <1>2. /\ op'[ws] = Idle /\ Distinct(tasks'[ws])
        /\ Waiting(ws)' = Waiting(ws) \ {Head(tasks[ws])}
    BY <1>1, EndTaskFacts
  <1>3. Setup \cap Waiting(ws)' = {}
    BY <1>1, <1>2
  <1>4. TasksOK(ws)'
    BY <1>2, <1>3, IdleFacts DEF TasksOK
  <1>5. WriterOK(ws)'
    BY <1>1, <1>2, IdleFacts DEF WriterOK, Writer
  <1>6. StartOK(ws)'
    BY <1>1, BegunStart
  <1>7. WsOK(ws)'
    BY <1>4, <1>5, <1>6 DEF WsOK
  <1>8. QED
    BY <1>7, WsStep

(* _release leaves the other Workspaces alone, and no delivery waits for a slot. *)
LEMMA ReleaseFacts ==
    ASSUME TypeOK, NEW ws \in Refs, NEW again \in SUBSET {ws}, ReleaseAnd(ws, again)
    PROVE  /\ occupied' \in SUBSET Refs /\ error' \in [Refs -> ErrorType]
           /\ caller' \in [Refs -> {"idle", "loop", "slot"}]
           /\ error'[ws] = NoError /\ (ws \in occupied' <=> ws \in again)
           /\ \A r \in Refs : caller'[r] # "slot"
           /\ \A r \in Refs \ {ws} : error'[r] = error[r] /\ (r \in occupied' <=> r \in occupied)
           /\ SlotWaitersAreWoken'
  <1>1. error \in [Refs -> ErrorType] /\ occupied \in SUBSET Refs
        /\ caller \in [Refs -> {"idle", "loop", "slot"}]
    BY DEF TypeOK, ManagerTypeOK, ErrorType
  <1>2. /\ occupied' = (occupied \ {ws}) \cup again
        /\ error' = [error EXCEPT ![ws] = NoError]
        /\ caller' = [r \in Refs |-> IF caller[r] = "slot" THEN "loop" ELSE caller[r]]
    BY DEF ReleaseAnd
  <1>3. \A r \in Refs : caller'[r] # "slot"
    BY <1>1, <1>2
  <1>4. SlotWaitersAreWoken'
    BY <1>3, SlotsWoken
  <1>5. error' \in [Refs -> ErrorType] /\ error'[ws] = NoError
    BY <1>1, <1>2, ErrorFacts
  <1>6. QED
    BY <1>1, <1>2, <1>3, <1>4, <1>5

LEMMA PlaceTimesOutStep ==
    ASSUME IInv, NEW ws \in Refs, PlaceTimesOut(ws), UNCHANGED <<backend, hostVars>>
    PROVE  IInv'
  <1> USE DEF source, backend, hostVars
  <1>1. /\ TypeOK /\ TasksOK(ws) /\ EntryOK(ws) /\ WriterOK(ws) /\ begun /\ ~adopting
        /\ Quiet(ws) /\ tasks[ws] # <<>> /\ Distinct(tasks[ws]) /\ op[ws].phase # "idle"
    BY HeldFacts DEF PlaceTimesOut, Holds
  <1>2. /\ ~entries[ws].registered /\ Release(ws) /\ EndTask(ws)
        /\ entries' = [entries EXCEPT ![ws] = NoHosted] /\ Fault
        /\ UNCHANGED <<adopting, begun, unit, proc, wire, used, active, closing, inventory, tick>>
    BY DEF PlaceTimesOut, Placed, Withdraw
  <1>3. /\ occupied' \in SUBSET Refs /\ error' \in [Refs -> ErrorType]
        /\ caller' \in [Refs -> {"idle", "loop", "slot"}]
        /\ error'[ws] = NoError
        /\ \A r \in Refs : caller'[r] # "slot"
        /\ \A r \in Refs \ {ws} : error'[r] = error[r] /\ (r \in occupied' <=> r \in occupied)
        /\ SlotWaitersAreWoken'
    BY <1>1, <1>2, ReleaseFacts DEF Release
  <1>4. /\ op' \in [Refs -> OpType] /\ tasks' \in [Refs -> Seq(Kinds)] /\ op'[ws] = Idle
        /\ \A r \in Refs \ {ws} : op'[r] = op[r] /\ tasks'[r] = tasks[r]
    BY <1>1, <1>2, EndTaskFacts
  <1>5. entries' \in [Refs -> EntryType] /\ entries'[ws] = NoHosted
    BY <1>1, <1>2, NoHostedFacts DEF TypeOK, SourceTypeOK, EntryType
  <1>6. faults' \in 0 .. MaxFaults
    BY <1>1, <1>2, MaxFaultsAssumption DEF Fault, TypeOK
  <1>7. TypeOK'
    BY <1>1, <1>2, <1>3, <1>4, <1>5, <1>6
      DEF TypeOK, SourceTypeOK, ManagerTypeOK, OpType, ErrorType, EntryType, PlaceTimesOut
  <1>8. Finite'
    BY DEF IInv, Finite, PlaceTimesOut
  <1>9. Others(ws)
    BY <1>2, <1>3, <1>4 DEF Others, Same
  <1>10. EntryOK(ws)'
    BY <1>3, <1>4, <1>5, NoHostedFacts, ErrorFacts, IdleFacts DEF EntryOK, Current
  <1>11. ~Writer(ws)
    BY <1>1, <1>2 DEF WriterOK
  <1>12. QED
    BY <1>1, <1>2, <1>3, <1>7, <1>8, <1>9, <1>10, <1>11, TaskEnds DEF Quiet

(* A start fails: the unit is retired, or adopted again later. *)
LEMMA FailsStep ==
    ASSUME IInv, NEW ws \in Refs, op[ws].phase \in {"probe", "prepare"}, Fails(ws),
           UNCHANGED <<source, occupied, active, error, late, begun, closing, losing, caller, tick,
                       used, backend, hostVars>>,
           faults' \in 0 .. MaxFaults
    PROVE  IInv'
  <1> USE DEF source, backend, hostVars
  <1>1. /\ TypeOK /\ TasksOK(ws) /\ EntryOK(ws) /\ WriterOK(ws) /\ begun /\ ~adopting
        /\ Quiet(ws) /\ tasks[ws] # <<>> /\ Distinct(tasks[ws]) /\ op[ws].phase # "idle"
        /\ Setup \cap Waiting(ws) \subseteq {Head(tasks[ws])}
    BY HeldFacts
  <1>2. SlotWaitersAreWoken' /\ Finite' /\ Quiet(ws)'
    BY <1>1, SlotsKept DEF IInv, Finite, Quiet
  <1>3. CASE ~Adopting(ws)
    <2>1. Goto(ws, "retire") /\ UNCHANGED <<tasks, deferred, inventory>>
      BY <1>3 DEF Fails
    <2>2. /\ op' \in [Refs -> OpType] /\ op'[ws].phase = "retire" /\ op'[ws] # Idle
          /\ \A r \in Refs \ {ws} : op'[r] = op[r]
      BY <1>1, <2>1, GotoFacts DEF Phases
    <2>3. TypeOK'
      BY <1>1, <2>1, <2>2 DEF TypeOK, SourceTypeOK, ManagerTypeOK, OpType
    <2>4. Others(ws)
      BY <2>1, <2>2 DEF Others, Same
    <2>5. EntryOK(ws)'
      BY <1>1, <2>1, <2>2 DEF EntryOK, Current
    <2>6. WriterOK(ws)'
      BY <1>1, <2>1, <2>2 DEF WriterOK, Writer
    <2>7. QED
      BY <1>1, <1>2, <2>1, <2>2, <2>3, <2>4, <2>5, <2>6, LockKept
  <1>4. CASE Adopting(ws)
    <2> DEFINE again == IF gateway THEN "retire" ELSE "adopt"
               rest == Tail(tasks[ws])
    <2>1. /\ op' = [op EXCEPT ![ws] = Idle]
          /\ tasks' = [tasks EXCEPT ![ws] = Append(rest, again)]
          /\ deferred' = IF gateway THEN deferred \ {ws} ELSE deferred \cup {ws}
          /\ inventory' = [inventory EXCEPT ![ws] = IF gateway THEN None ELSE inventory[ws]]
      <3>1. tasks' = [tasks EXCEPT ![ws] = Append(Tail(tasks[ws]), IF gateway THEN "retire" ELSE "adopt")]
        BY <1>1, <1>4 DEF Fails, TypeOK, ManagerTypeOK
      <3>2. inventory' = [inventory EXCEPT ![ws] = IF gateway THEN None ELSE inventory[ws]]
        BY <1>1, <1>4 DEF Fails, TypeOK, ManagerTypeOK
      <3>3. QED
        BY <1>4, <3>1, <3>2 DEF Fails
    <2>2. again \in Setup /\ again \in Kinds
      BY DEF Setup, Kinds
    <2> HIDE DEF again
    <2>3. /\ rest \in Seq(Kinds) /\ Distinct(rest)
          /\ ToSet(rest) = Waiting(ws) \ {Head(tasks[ws])}
      BY <1>1, WsTyped, TakeHead DEF Waiting
    <2>4. Setup \cap ToSet(rest) = {}
      BY <1>1, <2>3
    <2>5. /\ Append(rest, again) \in Seq(Kinds) /\ Distinct(Append(rest, again))
          /\ ToSet(Append(rest, again)) = ToSet(rest) \cup {again}
      <3> HIDE DEF rest
      <3>1. again \notin ToSet(rest)
        BY <2>2, <2>4
      <3>2. QED
        BY <2>2, <2>3, <3>1, PutLast
    <2>6. /\ tasks' \in [Refs -> Seq(Kinds)] /\ tasks'[ws] = Append(rest, again)
          /\ \A r \in Refs \ {ws} : tasks'[r] = tasks[r]
      BY <1>1, <2>1, <2>5 DEF TypeOK, ManagerTypeOK
    <2>7. Setup \cap Waiting(ws)' = {again} /\ Distinct(tasks'[ws])
      BY <2>2, <2>4, <2>5, <2>6 DEF Waiting
    <2>8. /\ op' \in [Refs -> OpType] /\ op'[ws] = Idle /\ \A r \in Refs \ {ws} : op'[r] = op[r]
      BY <1>1, <2>1, IdleFacts DEF TypeOK, ManagerTypeOK, OpType
    <2>9. /\ inventory' \in [Refs -> Nat] /\ inventory'[ws] \in {None, inventory[ws]}
          /\ \A r \in Refs \ {ws} : inventory'[r] = inventory[r]
      BY <1>1, <2>1, IdleFacts DEF TypeOK, ManagerTypeOK
    <2>10. deferred' \in SUBSET Refs
      BY <1>1, <2>1 DEF TypeOK, ManagerTypeOK
    <2>11. TypeOK'
      BY <1>1, <2>6, <2>8, <2>9, <2>10 DEF TypeOK, SourceTypeOK, ManagerTypeOK, OpType
    <2>12. Others(ws)
      BY <2>6, <2>8, <2>9 DEF Others, Same
    <2>13. TasksOK(ws)'
      BY <1>2, <2>7, <2>8, IdleFacts DEF TasksOK, Quiet
    <2>14. EntryOK(ws)'
      <3>1. ~Current(ws, None)
        BY <1>1, WsTyped, HostedFacts DEF Current
      <3>2. Current(ws, inventory[ws])' => entries[ws].registered
        BY <1>1, <2>9, <3>1 DEF EntryOK, Current
      <3>3. QED
        BY <1>1, <2>8, <2>9, <3>1, <3>2, IdleFacts DEF EntryOK, Current
    <2>15. WriterOK(ws)'
      BY <1>1, <2>8, IdleFacts DEF WriterOK, Writer
    <2>16. WsOK(ws)'
      BY <1>1, <2>13, <2>14, <2>15, BegunStart DEF WsOK
    <2>17. QED
      BY <1>2, <2>11, <2>12, <2>16, WsStep
  <1>5. QED
    BY <1>3, <1>4

LEMMA ProbeAnswersStep ==
    ASSUME IInv, NEW ws \in Refs, ProbeAnswers(ws, proc[ws]), UNCHANGED <<backend, hostVars>>
    PROVE  IInv'
  <1> USE DEF source, backend, hostVars
  <1>1. /\ TypeOK /\ TasksOK(ws) /\ EntryOK(ws) /\ WriterOK(ws) /\ begun /\ ~adopting
        /\ Quiet(ws) /\ tasks[ws] # <<>> /\ op[ws].phase = "probe"
        /\ Setup \cap Waiting(ws) \subseteq {Head(tasks[ws])}
    BY HeldFacts DEF ProbeAnswers, Holds
  <1>2. CASE Current(ws, op[ws].entry)
    <2>1. /\ entries' = [entries EXCEPT ![ws].observed = proc[ws]]
          /\ op' = [op EXCEPT ![ws].phase = "prepare", ![ws].inst = proc[ws]]
          /\ used' = [used EXCEPT ![ws] = used[ws] \cup {proc[ws]}]
          /\ UNCHANGED <<adopting, begun, tasks, unit, proc, wire, active, closing, error, occupied,
                         inventory, tick, caller>>
      BY <1>1, <1>2 DEF ProbeAnswers, observed, TypeOK, ManagerTypeOK
    <2>2. proc[ws] \in Nat /\ entries[ws] \in Hosted /\ entries[ws].registered
      <3>1. entries[ws] # NoHosted
        BY <1>2, NoHostedFacts DEF Current
      <3>2. QED
        BY <1>1, <1>2, <3>1, WsTyped DEF EntryOK, EntryType
    <2>3. /\ op' \in [Refs -> OpType] /\ op'[ws].phase = "prepare" /\ op'[ws] # Idle
          /\ \A r \in Refs \ {ws} : op'[r] = op[r]
      <3>1. "prepare" \in Phases
        BY DEF Phases
      <3>2. QED
        BY <1>1, <2>1, <2>2, <3>1, GotoInst
    <2>4. /\ entries' \in [Refs -> EntryType] /\ entries'[ws] \in Hosted
          /\ entries'[ws].observed = proc[ws] /\ entries'[ws].registered = entries[ws].registered
          /\ entries'[ws].id = entries[ws].id /\ entries'[ws].desired = entries[ws].desired
          /\ \A r \in Refs \ {ws} : entries'[r] = entries[r]
      <3>1. entries'[ws] = [entries[ws] EXCEPT !.observed = proc[ws]]
        BY <1>1, <2>1 DEF TypeOK, SourceTypeOK
      <3>2. entries'[ws] \in Hosted
        BY <2>2, <3>1 DEF Hosted
      <3>3. QED
        BY <1>1, <2>1, <2>2, <3>1, <3>2 DEF TypeOK, SourceTypeOK, EntryType, Hosted
    <2>5. /\ used' \in [Refs -> SUBSET Nat] /\ used'[ws] = used[ws] \cup {proc[ws]}
          /\ \A r \in Refs \ {ws} : used'[r] = used[r]
      BY <1>1, <2>1, <2>2 DEF TypeOK, ManagerTypeOK
    <2>6. TypeOK'
      BY <1>1, <2>1, <2>3, <2>4, <2>5, <1>2, ZenonT(40)
        DEF TypeOK, SourceTypeOK, ManagerTypeOK, OpType, EntryType, ProbeAnswers
    <2>7. Others(ws)
      BY <2>1, <2>3, <2>4, <2>5 DEF Others, Same
    <2>8. SlotWaitersAreWoken' /\ Finite' /\ Quiet(ws)'
      BY <1>1, <2>1, SlotsKept DEF IInv, Finite, ProbeAnswers, Quiet
    <2>9. EntryOK(ws)'
      BY <1>1, <2>1, <2>2, <2>3, <2>4, ErrorFacts DEF EntryOK, Current, Quiet
    <2>10. WriterOK(ws)'
      <3>1. ASSUME NEW c \in wire, c[1] = ws, unit[ws] = "started"
            PROVE  proc[ws] \notin {None, c[2]}
        <4>1. c = <<c[1], c[2]>>
          BY <1>1 DEF TypeOK
        <4>2. QED
          BY <1>1, <3>1, <4>1 DEF WriterOK
      <3>2. QED
        BY <1>1, <2>1, <2>2, <2>3, <2>4, <3>1 DEF WriterOK, Writer
    <2>11. QED
      BY <1>1, <2>1, <2>3, <2>6, <2>7, <2>8, <2>9, <2>10, LockKept
  <1>3. CASE ~Current(ws, op[ws].entry)
    <2>1. Fails(ws) /\ UNCHANGED <<entries, used>>
      BY <1>3 DEF ProbeAnswers
    <2>2. faults' \in 0 .. MaxFaults
      BY <1>1 DEF TypeOK, ProbeAnswers
    <2>3. UNCHANGED <<source, occupied, active, error, late, begun, closing, losing, caller, tick,
                      used, backend, hostVars>>
      BY <2>1 DEF ProbeAnswers
    <2>4. QED
      BY <1>1, <2>1, <2>2, <2>3, FailsStep
  <1>4. QED
    BY <1>2, <1>3

(* The endpoint is published, at first or again. *)
LEMMA PublishStep ==
    ASSUME IInv, NEW ws \in Refs, op[ws].phase # "idle",
           active' = [active EXCEPT ![ws] = op[ws].inst], EndTask(ws),
           deferred' \in SUBSET Refs,
           inventory' = inventory \/ inventory' = [inventory EXCEPT ![ws] = None],
           UNCHANGED <<source, occupied, error, late, begun, closing, losing, caller, tick, used,
                       backend, hostVars>>,
           faults' \in 0 .. MaxFaults
    PROVE  IInv'
  <1> USE DEF source, backend, hostVars
  <1>1. /\ TypeOK /\ TasksOK(ws) /\ EntryOK(ws) /\ WriterOK(ws) /\ begun /\ ~adopting
        /\ Quiet(ws) /\ tasks[ws] # <<>> /\ Distinct(tasks[ws])
    BY HeldFacts
  <1>2. /\ op' \in [Refs -> OpType] /\ tasks' \in [Refs -> Seq(Kinds)] /\ op'[ws] = Idle
        /\ \A r \in Refs \ {ws} : op'[r] = op[r] /\ tasks'[r] = tasks[r]
    BY <1>1, EndTaskFacts
  <1>3. /\ active' \in [Refs -> Nat] /\ \A r \in Refs \ {ws} : active'[r] = active[r]
    <2>1. op[ws].inst \in Nat
      BY <1>1, WsTyped DEF OpType
    <2>2. QED
      BY <1>1, <2>1 DEF TypeOK, ManagerTypeOK
  <1>4. /\ inventory' \in [Refs -> Nat] /\ inventory'[ws] \in {None, inventory[ws]}
        /\ \A r \in Refs \ {ws} : inventory'[r] = inventory[r]
    <2>1. inventory \in [Refs -> Nat]
      BY <1>1 DEF TypeOK, ManagerTypeOK
    <2>2. CASE inventory' = inventory
      BY <2>1, <2>2
    <2>3. CASE inventory' = [inventory EXCEPT ![ws] = None]
      BY <2>1, <2>3, IdleFacts
    <2>4. QED
      BY <2>2, <2>3
  <1>5. TypeOK'
    BY <1>1, <1>2, <1>3, <1>4 DEF TypeOK, SourceTypeOK, ManagerTypeOK, OpType
  <1>6. Others(ws)
    BY <1>2, <1>3, <1>4 DEF Others, Same
  <1>7. SlotWaitersAreWoken' /\ Finite' /\ closing'[ws] = None
    BY <1>1, SlotsKept DEF IInv, Finite, Quiet
  <1>8. EntryOK(ws)'
    <2>1. ~Current(ws, None)
      BY <1>1, WsTyped, HostedFacts DEF Current
    <2>2. Current(ws, inventory[ws])' => entries[ws].registered
      BY <1>1, <1>4, <2>1 DEF EntryOK, Current
    <2>3. QED
      BY <1>1, <1>2, <1>4, <2>1, <2>2, IdleFacts DEF EntryOK, Current
  <1>9. error'[ws] = NoError /\ ws \in occupied' /\ entries'[ws] = entries[ws]
    BY <1>1 DEF Quiet
  <1>10. QED
    BY <1>1, <1>5, <1>6, <1>7, <1>8, <1>9, TaskEnds

LEMMA PrepareSucceedsStep ==
    ASSUME IInv, NEW ws \in Refs, PrepareSucceeds(ws), UNCHANGED <<backend, hostVars>>
    PROVE  IInv'
  <1>1. /\ TypeOK /\ op[ws].phase = "prepare"
        /\ UNCHANGED <<source, occupied, error, late, begun, closing, losing, caller, tick, used, faults>>
    BY DEF IInv, PrepareSucceeds, Holds
  <1>2. faults' \in 0 .. MaxFaults
    BY <1>1 DEF TypeOK
  <1>3. CASE /\ active' = [active EXCEPT ![ws] = op[ws].inst]
             /\ EndTask(ws)
             /\ deferred' = deferred \ {ws}
             /\ inventory' = [inventory EXCEPT ![ws] = None]
    <2>1. deferred' \in SUBSET Refs
      BY <1>1, <1>3 DEF TypeOK, ManagerTypeOK
    <2>2. QED
      BY <1>1, <1>2, <1>3, <2>1, PublishStep
  <1>4. CASE Fails(ws) /\ UNCHANGED active
    BY <1>1, <1>2, <1>4, FailsStep
  <1>5. QED
    BY <1>3, <1>4 DEF PrepareSucceeds

LEMMA StartFailsStep ==
    ASSUME IInv, NEW ws \in Refs, StartFails(ws), faults' \in 0 .. MaxFaults,
           UNCHANGED <<backend, hostVars>>
    PROVE  IInv'
  <1>1. /\ op[ws].phase \in {"probe", "prepare"} /\ Fails(ws)
        /\ UNCHANGED <<source, occupied, active, error, late, begun, closing, losing, caller, tick, used>>
    BY DEF StartFails, Holds
  <1>2. QED
    BY <1>1, FailsStep

LEMMA CommitTransientStep ==
    ASSUME IInv, NEW ws \in Refs, CommitTransient(ws), faults' \in 0 .. MaxFaults,
           UNCHANGED <<backend, hostVars>>
    PROVE  IInv'
  <1>1. /\ op[ws].phase = "commit" /\ active' = [active EXCEPT ![ws] = op[ws].inst] /\ EndTask(ws)
        /\ UNCHANGED <<source, occupied, error, late, begun, closing, losing, caller, tick, used,
                       inventory, deferred>>
    BY DEF CommitTransient, Holds
  <1>2. deferred' \in SUBSET Refs
    BY <1>1 DEF IInv, TypeOK, ManagerTypeOK
  <1>3. QED
    BY <1>1, <1>2, PublishStep

-----------------------------------------------------------------------------
(* _retire and close. *)

LEMMA RetireAsksStep ==
    ASSUME IInv, NEW ws \in Refs, RetireAsks(ws), UNCHANGED <<backend, hostVars>>
    PROVE  IInv'
  <1> USE DEF source, backend, hostVars
  <1>1. /\ TypeOK /\ TasksOK(ws) /\ EntryOK(ws) /\ WriterOK(ws) /\ begun /\ ~adopting
        /\ Quiet(ws) /\ tasks[ws] # <<>>
        /\ Setup \cap Waiting(ws) \subseteq {Head(tasks[ws])}
    BY HeldFacts DEF RetireAsks, Holds
  <1> DEFINE phase == IF op[ws].phase = "retire" THEN "retiring" ELSE "retiringOld"
             asked == IF entries[ws].desired = "none" THEN entries[ws].desired ELSE "released"
  <1>2. /\ entries' = [entries EXCEPT ![ws].desired = asked]
        /\ op' = [op EXCEPT ![ws].entry = entries[ws].id, ![ws].phase = phase]
        /\ UNCHANGED <<adopting, begun, tasks, unit, proc, wire, active, closing, error, occupied,
                       inventory, used, tick, caller>>
    BY <1>1 DEF RetireAsks, retire, TypeOK, SourceTypeOK, ManagerTypeOK
  <1>3. phase \in Phases /\ phase \in {"retiring", "retiringOld"}
    BY DEF Phases
  <1>4. entries[ws] \in EntryType /\ entries[ws].id \in Nat
    BY <1>1, WsTyped, HostedFacts
  <1>5. /\ entries'[ws] \in EntryType
        /\ entries'[ws].id = entries[ws].id /\ entries'[ws].registered = entries[ws].registered
        /\ entries'[ws].observed = entries[ws].observed /\ entries'[ws].desired # "running"
        /\ entries'[ws] # NoHosted => entries[ws] # NoHosted
    <2>1. entries'[ws] = [entries[ws] EXCEPT !.desired = asked]
      BY <1>1, <1>2 DEF TypeOK, SourceTypeOK
    <2>2. CASE entries[ws] = NoHosted
      <3>1. asked = "none"
        BY <2>2, NoHostedFacts
      <3>2. entries'[ws] = NoHosted
        BY <2>1, <2>2, <3>1 DEF NoHosted
      <3>3. QED
        BY <2>2, <3>2, NoHostedFacts
    <2>3. CASE entries[ws] # NoHosted
      <3>1. entries[ws] \in Hosted
        BY <1>4, <2>3 DEF EntryType
      <3>2. asked = "released"
        BY <3>1 DEF Hosted
      <3>3. QED
        BY <2>1, <2>3, <3>1, <3>2 DEF Hosted, EntryType
    <2>4. QED
      BY <2>2, <2>3
  <1>6. /\ entries' \in [Refs -> EntryType] /\ \A r \in Refs \ {ws} : entries'[r] = entries[r]
    BY <1>1, <1>2, <1>5 DEF TypeOK, SourceTypeOK, EntryType
  <1> HIDE DEF phase, asked
  <1>7. /\ op' \in [Refs -> OpType] /\ op'[ws].phase = phase /\ op'[ws].entry = entries[ws].id
        /\ op'[ws] # Idle
        /\ \A r \in Refs \ {ws} : op'[r] = op[r]
    <2>1. phase # "idle"
      BY <1>3
    <2>2. QED
      BY <1>1, <1>2, <1>3, <1>4, <2>1, GotoEntry
  <1>8. TypeOK'
    BY <1>1, <1>2, <1>6, <1>7 DEF TypeOK, SourceTypeOK, ManagerTypeOK, OpType, EntryType, RetireAsks
  <1>9. Others(ws)
    BY <1>2, <1>6, <1>7 DEF Others, Same
  <1>10. SlotWaitersAreWoken' /\ Finite' /\ Quiet(ws)'
    BY <1>1, <1>2, SlotsKept DEF IInv, Finite, RetireAsks, Quiet
  <1>11. EntryOK(ws)'
    BY <1>1, <1>2, <1>3, <1>5, <1>7, ErrorFacts DEF EntryOK, Current, Quiet
  <1>12. WriterOK(ws)'
    BY <1>1, <1>2, <1>3, <1>5, <1>7 DEF WriterOK, Writer
  <1>13. QED
    BY <1>1, <1>2, <1>3, <1>7, <1>8, <1>9, <1>10, <1>11, <1>12, LockKept

LEMMA RetireConfirmedStep ==
    ASSUME IInv, NEW ws \in Refs, RetireConfirmed(ws), UNCHANGED <<backend, hostVars>>
    PROVE  IInv'
  <1> USE DEF source, backend, hostVars
  <1>1. /\ TypeOK /\ TasksOK(ws) /\ EntryOK(ws) /\ WriterOK(ws) /\ begun /\ ~adopting
        /\ Quiet(ws) /\ tasks[ws] # <<>> /\ Distinct(tasks[ws]) /\ op[ws].phase # "idle"
        /\ Setup \cap Waiting(ws) \subseteq {Head(tasks[ws])}
    BY HeldFacts DEF RetireConfirmed, Holds
  <1>2. /\ op[ws].phase \in {"retiring", "retiringOld"}
        /\ entries[ws].id # op[ws].entry \/ op[ws].entry = None
        /\ UNCHANGED <<adopting, begun, unit, proc, wire, used, entries, active, closing, inventory, tick>>
    BY DEF RetireConfirmed, Confirmed, Holds
  <1>3. entries[ws] = NoHosted
    <2>1. entries[ws].id = None
      BY <1>1, <1>2 DEF EntryOK
    <2>2. QED
      BY <1>1, <2>1, WsTyped, HostedFacts
  <1>4. ~Writer(ws)
    BY <1>1, <1>3, NoHostedFacts DEF WriterOK
  <1>5. CASE Release(ws) /\ EndTask(ws)
    <2>1. /\ occupied' \in SUBSET Refs /\ error' \in [Refs -> ErrorType]
          /\ caller' \in [Refs -> {"idle", "loop", "slot"}]
          /\ error'[ws] = NoError
          /\ \A r \in Refs : caller'[r] # "slot"
          /\ \A r \in Refs \ {ws} : error'[r] = error[r] /\ (r \in occupied' <=> r \in occupied)
          /\ SlotWaitersAreWoken'
      BY <1>1, <1>5, ReleaseFacts DEF Release
    <2>2. /\ op' \in [Refs -> OpType] /\ tasks' \in [Refs -> Seq(Kinds)] /\ op'[ws] = Idle
          /\ \A r \in Refs \ {ws} : op'[r] = op[r] /\ tasks'[r] = tasks[r]
      BY <1>1, <1>5, EndTaskFacts
    <2>3. TypeOK'
      BY <1>1, <1>2, <2>1, <2>2
        DEF TypeOK, SourceTypeOK, ManagerTypeOK, OpType, ErrorType, RetireConfirmed
    <2>4. Finite'
      BY DEF IInv, Finite, RetireConfirmed
    <2>5. Others(ws)
      BY <1>2, <2>1, <2>2 DEF Others, Same
    <2>6. EntryOK(ws)'
      BY <1>2, <1>3, <2>1, <2>2, NoHostedFacts, ErrorFacts, IdleFacts DEF EntryOK, Current
    <2>7. QED
      BY <1>1, <1>2, <1>4, <1>5, <2>1, <2>3, <2>4, <2>5, <2>6, TaskEnds DEF Quiet
  <1>6. CASE /\ ReleaseAnd(ws, {ws})
             /\ op' = [op EXCEPT ![ws] = [Idle EXCEPT !.phase = "place"]]
             /\ UNCHANGED tasks
    <2>1. /\ occupied' \in SUBSET Refs /\ error' \in [Refs -> ErrorType]
          /\ caller' \in [Refs -> {"idle", "loop", "slot"}]
          /\ error'[ws] = NoError /\ ws \in occupied'
          /\ \A r \in Refs : caller'[r] # "slot"
          /\ \A r \in Refs \ {ws} : error'[r] = error[r] /\ (r \in occupied' <=> r \in occupied)
          /\ SlotWaitersAreWoken'
      <3>1. {ws} \in SUBSET {ws} /\ ws \in {ws}
        OBVIOUS
      <3>2. QED
        BY <1>1, <1>6, <3>1, ReleaseFacts
    <2>2. /\ op' \in [Refs -> OpType] /\ op'[ws].phase = "place" /\ op'[ws] # Idle
          /\ \A r \in Refs \ {ws} : op'[r] = op[r]
      <3>1. [Idle EXCEPT !.phase = "place"] \in OpType /\ [Idle EXCEPT !.phase = "place"].phase = "place"
        BY DEF Idle, OpType, Phases, None
      <3>2. QED
        BY <1>1, <1>6, <3>1, IdleFacts DEF TypeOK, ManagerTypeOK, OpType
    <2>3. TypeOK'
      BY <1>1, <1>2, <1>6, <2>1, <2>2
        DEF TypeOK, SourceTypeOK, ManagerTypeOK, OpType, ErrorType, RetireConfirmed
    <2>4. Finite'
      BY DEF IInv, Finite, RetireConfirmed
    <2>5. Others(ws)
      BY <1>2, <1>6, <2>1, <2>2 DEF Others, Same
    <2>6. EntryOK(ws)'
      BY <1>1, <1>2, <1>3, <2>1, <2>2, NoHostedFacts, ErrorFacts DEF EntryOK, Current
    <2>7. WriterOK(ws)'
      BY <1>1, <1>2, <2>2 DEF WriterOK, Writer
    <2>8. Quiet(ws)'
      BY <1>1, <1>2, <2>1 DEF Quiet
    <2>9. QED
      BY <1>1, <1>2, <1>6, <2>1, <2>2, <2>3, <2>4, <2>5, <2>6, <2>7, <2>8, LockKept
  <1>7. QED
    BY <1>5, <1>6 DEF RetireConfirmed

(* The operation ends with a retained error: the slot stays. *)
LEMMA RetainStep ==
    ASSUME IInv, NEW ws \in Refs, op[ws].phase # "idle", NEW e \in ErrorType,
           error' = [error EXCEPT ![ws] = e], EndTask(ws), Fault,
           e.kind = "timeout" => e.entry # None /\ entries[ws].id \in {None, e.entry},
           late' \in [Refs -> SUBSET Nat], \A r \in Refs : IsFiniteSet(late'[r]),
           UNCHANGED <<source, occupied, active, begun, inventory, deferred, closing, losing, caller,
                       tick, used, backend, hostVars>>
    PROVE  IInv'
  <1> USE DEF source, backend, hostVars
  <1>1. /\ TypeOK /\ TasksOK(ws) /\ EntryOK(ws) /\ WriterOK(ws) /\ begun /\ ~adopting
        /\ Quiet(ws) /\ tasks[ws] # <<>> /\ Distinct(tasks[ws])
    BY HeldFacts
  <1>2. /\ op' \in [Refs -> OpType] /\ tasks' \in [Refs -> Seq(Kinds)] /\ op'[ws] = Idle
        /\ \A r \in Refs \ {ws} : op'[r] = op[r] /\ tasks'[r] = tasks[r]
    BY <1>1, EndTaskFacts
  <1>3. /\ error' \in [Refs -> ErrorType] /\ error'[ws] = e
        /\ \A r \in Refs \ {ws} : error'[r] = error[r]
    BY <1>1 DEF TypeOK, ManagerTypeOK, ErrorType
  <1>4. faults' \in 0 .. MaxFaults
    BY <1>1, MaxFaultsAssumption DEF Fault, TypeOK
  <1>5. TypeOK'
    BY <1>1, <1>2, <1>3, <1>4 DEF TypeOK, SourceTypeOK, ManagerTypeOK, OpType, ErrorType
  <1>6. Others(ws)
    BY <1>2, <1>3 DEF Others, Same
  <1>7. SlotWaitersAreWoken' /\ Finite' /\ closing'[ws] = None /\ active'[ws] = None /\ ws \in occupied'
    BY <1>1, SlotsKept DEF IInv, Finite, Quiet
  <1>8. EntryOK(ws)'
    BY <1>1, <1>2, <1>3, IdleFacts DEF EntryOK, Current
  <1>9. QED
    BY <1>1, <1>5, <1>6, <1>7, <1>8, TaskEnds

LEMMA RetireTimesOutStep ==
    ASSUME IInv, NEW ws \in Refs, RetireTimesOut(ws), UNCHANGED <<backend, hostVars>>
    PROVE  IInv'
  <1> DEFINE e == [kind |-> "timeout", entry |-> op[ws].entry]
  <1>1. TypeOK /\ op[ws].entry \in Nat /\ late \in [Refs -> SUBSET Nat] /\ \A r \in Refs : IsFiniteSet(late[r])
    BY WsTyped DEF IInv, Finite, OpType, TypeOK, ManagerTypeOK
  <1>2. /\ e \in ErrorType /\ e.entry = op[ws].entry
    BY <1>1 DEF ErrorType
  <1>3. /\ op[ws].phase # "idle" /\ entries[ws].id = op[ws].entry /\ op[ws].entry # None
        /\ error' = [error EXCEPT ![ws] = e] /\ EndTask(ws) /\ Fault
        /\ late' = [late EXCEPT ![ws] = late[ws] \cup {op[ws].entry}]
        /\ UNCHANGED <<source, occupied, active, begun, inventory, deferred, closing, losing, caller,
                       tick, used>>
    BY <1>1 DEF RetireTimesOut, Holds, Confirmed
  <1>4. late' \in [Refs -> SUBSET Nat] /\ \A r \in Refs : IsFiniteSet(late'[r])
    <2>1. IsFiniteSet(late[ws] \cup {op[ws].entry})
      BY <1>1, FS_AddElement
    <2>2. QED
      BY <1>1, <1>3, <2>1
  <1> HIDE DEF e
  <1>5. QED
    BY <1>2, <1>3, <1>4, RetainStep

LEMMA CommitFailsStep ==
    ASSUME IInv, NEW ws \in Refs, CommitFails(ws), UNCHANGED <<backend, hostVars>>
    PROVE  IInv'
  <1> DEFINE e == [kind |-> "commit", entry |-> None]
  <1>1. e \in ErrorType /\ e.kind # "timeout"
    BY IdleFacts DEF ErrorType
  <1>2. /\ op[ws].phase # "idle"
        /\ error' = [error EXCEPT ![ws] = e] /\ EndTask(ws) /\ Fault /\ late' = late
        /\ UNCHANGED <<source, occupied, active, begun, inventory, deferred, closing, losing, caller,
                       tick, used>>
    BY DEF CommitFails, Holds
  <1>3. late' \in [Refs -> SUBSET Nat] /\ \A r \in Refs : IsFiniteSet(late'[r])
    BY <1>2 DEF IInv, Finite, TypeOK, ManagerTypeOK
  <1> HIDE DEF e
  <1>4. QED
    BY <1>1, <1>2, <1>3, RetainStep

LEMMA RetiredLateStep ==
    ASSUME IInv, NEW ws \in Refs, RetiredLate(ws), UNCHANGED <<backend, hostVars>>
    PROVE  IInv'
  <1> USE DEF source, backend, hostVars
  <1>1. PICK id \in late[ws] :
        /\ Confirmed(ws, id)
        /\ late' = [late EXCEPT ![ws] = late[ws] \ {id}]
        /\ IF error[ws] = [kind |-> "timeout", entry |-> id] THEN Release(ws) ELSE KeepSlot
        /\ UNCHANGED <<source, active, begun, inventory, deferred, tasks, op, closing,
                       losing, tick, used, faults>>
    BY DEF RetiredLate, IInv, TypeOK, ManagerTypeOK
  <1>2. TypeOK /\ Finite /\ WsOK(ws)
    BY DEF IInv
  <1>3. late' \in [Refs -> SUBSET Nat] /\ Finite'
    <2>1. IsFiniteSet(late[ws] \ {id})
      BY <1>2, FS_Subset DEF Finite
    <2>2. late \in [Refs -> SUBSET Nat]
      BY <1>2 DEF TypeOK, ManagerTypeOK
    <2>3. late' \in [Refs -> SUBSET Nat] /\ \A r \in Refs : IsFiniteSet(late'[r])
      BY <1>1, <1>2, <2>1, <2>2 DEF Finite
    <2>4. QED
      BY <1>1, <1>2, <2>3 DEF Finite
  <1>4. CASE KeepSlot
    <2>1. TypeOK'
      BY <1>1, <1>2, <1>3, <1>4 DEF TypeOK, SourceTypeOK, ManagerTypeOK, KeepSlot
    <2>2. \A r \in Refs : Same(r)
      BY <1>1, <1>4 DEF Same, KeepSlot
    <2>3. SlotWaitersAreWoken'
      BY <1>4, SlotsKept DEF IInv, KeepSlot
    <2>4. QED
      BY <1>1, <1>3, <2>1, <2>2, <2>3, AllSame
  <1>5. CASE error[ws] = [kind |-> "timeout", entry |-> id] /\ Release(ws)
    <2>1. /\ occupied' \in SUBSET Refs /\ error' \in [Refs -> ErrorType]
          /\ caller' \in [Refs -> {"idle", "loop", "slot"}]
          /\ error'[ws] = NoError
          /\ \A r \in Refs : caller'[r] # "slot"
          /\ \A r \in Refs \ {ws} : error'[r] = error[r] /\ (r \in occupied' <=> r \in occupied)
          /\ SlotWaitersAreWoken'
      BY <1>2, <1>5, ReleaseFacts DEF Release
    <2>2. error[ws].kind = "timeout" /\ error[ws].entry = id /\ error[ws] # NoError
      BY <1>5, ErrorFacts
    <2>3. /\ TasksOK(ws) /\ EntryOK(ws) /\ WriterOK(ws) /\ begun /\ ~adopting
      BY <1>2, <2>2, BegunFacts DEF WsOK
    <2>4. entries[ws] = NoHosted
      <3>1. entries[ws].id = None
        BY <1>1, <2>2, <2>3 DEF EntryOK, Confirmed
      <3>2. QED
        BY <1>2, <3>1, WsTyped, HostedFacts
    <2>5. op[ws] = Idle /\ active[ws] = None /\ closing[ws] = None /\ Setup \cap Waiting(ws) = {}
      BY <2>2, <2>3 DEF TasksOK, Quiet
    <2>6. TypeOK'
      BY <1>1, <1>2, <1>3, <2>1 DEF TypeOK, SourceTypeOK, ManagerTypeOK, ErrorType
    <2>7. Others(ws)
      BY <1>1, <2>1 DEF Others, Same
    <2>8. TasksOK(ws)'
      BY <1>1, <2>1, <2>3, <2>5, IdleFacts DEF TasksOK, Waiting
    <2>9. EntryOK(ws)'
      BY <1>1, <2>1, <2>4, <2>5, NoHostedFacts, ErrorFacts, IdleFacts DEF EntryOK, Current
    <2>10. WriterOK(ws)'
      BY <1>1, <2>3 DEF WriterOK, Writer
    <2>11. WsOK(ws)'
      BY <1>1, <2>3, <2>8, <2>9, <2>10, BegunStart DEF WsOK
    <2>12. QED
      BY <1>1, <1>3, <2>1, <2>6, <2>7, <2>11, WsStep
  <1>6. QED
    BY <1>1, <1>4, <1>5

(* The lock holder goes on to a phase that waits for nothing the invariant names. *)
LEMMA PlainGoto ==
    ASSUME IInv, NEW ws \in Refs, NEW phase \in Phases \ {"idle", "placing", "probe", "gateway",
                                                        "retiring", "retiringOld"},
           Goto(ws, phase), active' \in [Refs -> Nat], losing' \in [Refs -> Nat],
           active'[ws] = None, \A r \in Refs \ {ws} : active'[r] = active[r],
           begun, ~adopting, closing[ws] = None, error[ws] = NoError, ws \in occupied,
           tasks[ws] # <<>>, Setup \cap Waiting(ws) \subseteq {Head(tasks[ws])},
           UNCHANGED <<source, occupied, error, late, begun, inventory, deferred, tasks, closing,
                       caller, tick, used, faults, backend, hostVars>>
    PROVE  IInv'
  <1> USE DEF source, backend, hostVars
  <1>1. TypeOK /\ TasksOK(ws) /\ EntryOK(ws) /\ WriterOK(ws)
    BY DEF IInv, WsOK
  <1>2. /\ op' \in [Refs -> OpType] /\ op'[ws].phase = phase /\ op'[ws] # Idle
        /\ \A r \in Refs \ {ws} : op'[r] = op[r]
    BY <1>1, GotoFacts
  <1>3. TypeOK'
    BY <1>1, <1>2 DEF TypeOK, SourceTypeOK, ManagerTypeOK, OpType
  <1>4. Others(ws)
    BY <1>2 DEF Others, Same
  <1>5. SlotWaitersAreWoken' /\ Finite' /\ Quiet(ws)'
    BY SlotsKept DEF IInv, Finite, Quiet
  <1>6. EntryOK(ws)'
    BY <1>1, <1>2 DEF EntryOK, Current
  <1>7. WriterOK(ws)'
    BY <1>1, <1>2 DEF WriterOK, Writer
  <1>8. QED
    BY <1>1, <1>2, <1>3, <1>4, <1>5, <1>6, <1>7, LockKept

LEMMA RetiresStep ==
    ASSUME IInv, NEW ws \in Refs, Retires(ws), UNCHANGED <<backend, hostVars>>
    PROVE  IInv'
  <1>1. /\ TypeOK /\ begun /\ ~adopting /\ tasks[ws] # <<>> /\ Head(tasks[ws]) = "retire"
        /\ Quiet(ws) /\ Setup \cap Waiting(ws) \subseteq {"retire"}
    BY TakesFacts DEF Retires, Setup
  <1>2. /\ Goto(ws, "retire")
        /\ UNCHANGED <<source, occupied, active, error, late, begun, inventory, deferred, tasks, closing,
                       losing, caller, tick, used, faults>>
    BY DEF Retires
  <1>3. active \in [Refs -> Nat] /\ losing \in [Refs -> Nat]
    BY <1>1 DEF TypeOK, ManagerTypeOK
  <1>4. "retire" \in Phases \ {"idle", "placing", "probe", "gateway", "retiring", "retiringOld"}
    BY DEF Phases
  <1>5. QED
    BY <1>1, <1>2, <1>3, <1>4, PlainGoto DEF Quiet

LEMMA CommitEndsStep ==
    ASSUME IInv, NEW ws \in Refs, CommitEnds(ws), UNCHANGED <<backend, hostVars>>
    PROVE  IInv'
  <1>1. /\ TypeOK /\ begun /\ ~adopting /\ tasks[ws] # <<>>
        /\ Quiet(ws) /\ Setup \cap Waiting(ws) \subseteq {Head(tasks[ws])}
    BY HeldFacts DEF CommitEnds, Holds
  <1>2. /\ Goto(ws, "retire")
        /\ UNCHANGED <<source, occupied, active, error, late, begun, inventory, deferred, tasks, closing,
                       losing, caller, tick, used, faults>>
    BY DEF CommitEnds
  <1>3. active \in [Refs -> Nat] /\ losing \in [Refs -> Nat]
    BY <1>1 DEF TypeOK, ManagerTypeOK
  <1>4. "retire" \in Phases \ {"idle", "placing", "probe", "gateway", "retiring", "retiringOld"}
    BY DEF Phases
  <1>5. QED
    BY <1>1, <1>2, <1>3, <1>4, PlainGoto DEF Quiet

(* A task that finds nothing to do ends at once. *)
LEMMA NothingToDo ==
    ASSUME IInv, NEW ws \in Refs, NEW kind \in {"close", "recover"}, Takes(ws, kind), EndTask(ws),
           active' \in [Refs -> Nat], active'[ws] \in {None, active[ws]},
           \A r \in Refs \ {ws} : active'[r] = active[r],
           closing' \in [Refs -> Nat], closing'[ws] \in {None, closing[ws]},
           kind = "close" => closing'[ws] = None,
           \A r \in Refs \ {ws} : closing'[r] = closing[r], losing' \in [Refs -> Nat],
           UNCHANGED <<source, occupied, error, late, begun, inventory, deferred, caller, tick, used,
                       faults, backend, hostVars>>
    PROVE  IInv'
  <1> USE DEF source, backend, hostVars
  <1>1. /\ TypeOK /\ TasksOK(ws) /\ EntryOK(ws) /\ WriterOK(ws) /\ begun /\ ~adopting
        /\ tasks[ws] # <<>> /\ Distinct(tasks[ws]) /\ Head(tasks[ws]) = kind
        /\ op[ws] = Idle /\ op[ws].phase = "idle"
    BY TakesFacts
  <1>2. /\ op' \in [Refs -> OpType] /\ tasks' \in [Refs -> Seq(Kinds)]
        /\ op'[ws] = Idle /\ Distinct(tasks'[ws])
        /\ Waiting(ws)' = Waiting(ws) \ {kind}
        /\ \A r \in Refs \ {ws} : op'[r] = op[r] /\ tasks'[r] = tasks[r]
    BY <1>1, EndTaskFacts
  <1>3. Setup \cap Waiting(ws)' = Setup \cap Waiting(ws)
    BY <1>2 DEF Setup
  <1>4. TypeOK'
    BY <1>1, <1>2 DEF TypeOK, SourceTypeOK, ManagerTypeOK, OpType
  <1>5. Others(ws)
    BY <1>2 DEF Others, Same
  <1>6. SlotWaitersAreWoken' /\ Finite'
    BY SlotsKept DEF IInv, Finite
  <1>7. TasksOK(ws)'
    <2>1. Setup \cap Waiting(ws)' # {} => Quiet(ws)'
      BY <1>1, <1>3 DEF TasksOK, Quiet
    <2>2. closing'[ws] # None => error[ws] = NoError /\ ws \in occupied /\ "close" \in Waiting(ws)'
      BY <1>1, <1>2 DEF TasksOK
    <2>3. active'[ws] # None => error[ws] = NoError /\ ws \in occupied /\ closing'[ws] = None
      BY <1>1 DEF TasksOK
    <2>4. \A a, b \in Setup \cap Waiting(ws)' : a = b
      BY <1>1, <1>3 DEF TasksOK
    <2>5. QED
      BY <1>1, <1>2, <2>1, <2>2, <2>3, <2>4, IdleFacts DEF TasksOK
  <1>8. EntryOK(ws)'
    BY <1>1, <1>2, IdleFacts DEF EntryOK, Current
  <1>9. WriterOK(ws)'
    BY <1>1, <1>2, IdleFacts DEF WriterOK, Writer
  <1>10. WsOK(ws)'
    BY <1>1, <1>7, <1>8, <1>9, BegunStart DEF WsOK
  <1>11. QED
    BY <1>4, <1>5, <1>6, <1>10, WsStep

LEMMA ClosesStep ==
    ASSUME IInv, NEW ws \in Refs, Closes(ws), UNCHANGED <<backend, hostVars>>
    PROVE  IInv'
  <1> USE DEF source, backend, hostVars
  <1> DEFINE endpoint == IF active[ws] # None THEN active[ws] ELSE closing[ws]
  <1>1. /\ TypeOK /\ TasksOK(ws) /\ EntryOK(ws) /\ WriterOK(ws) /\ begun /\ ~adopting
        /\ tasks[ws] # <<>> /\ op[ws] = Idle /\ Takes(ws, "close")
    BY TakesFacts DEF Closes
  <1>2. /\ active' \in [Refs -> Nat] /\ active'[ws] = None
        /\ \A r \in Refs \ {ws} : active'[r] = active[r]
        /\ closing' \in [Refs -> Nat] /\ closing'[ws] = None
        /\ \A r \in Refs \ {ws} : closing'[r] = closing[r]
        /\ losing' = losing /\ losing' \in [Refs -> Nat]
    BY <1>1, IdleFacts DEF Closes, TypeOK, ManagerTypeOK
  <1>3. UNCHANGED <<source, occupied, error, late, begun, inventory, deferred, losing, caller, tick, used, faults>>
    BY DEF Closes
  <1>4. CASE EndTask(ws)
    BY <1>1, <1>2, <1>3, <1>4, NothingToDo
  <1>5. CASE /\ ~(endpoint = None \/ ws \notin occupied)
             /\ op' = [op EXCEPT ![ws].phase = "commit", ![ws].inst = endpoint]
             /\ UNCHANGED tasks
    <2>1. endpoint \in Nat /\ "commit" \in Phases
      BY <1>1, WsTyped DEF Phases
    <2>2. endpoint # None /\ ws \in occupied
      BY <1>5
    <2>3. error[ws] = NoError /\ Setup \cap Waiting(ws) = {}
      BY <1>1, <2>2 DEF TasksOK, Quiet
    <2> HIDE DEF endpoint
    <2>4. /\ op' \in [Refs -> OpType] /\ op'[ws].phase = "commit" /\ op'[ws] # Idle
          /\ \A r \in Refs \ {ws} : op'[r] = op[r]
      BY <1>1, <1>5, <2>1, GotoInst
    <2>5. TypeOK'
      BY <1>1, <1>2, <1>3, <1>5, <2>4 DEF TypeOK, SourceTypeOK, ManagerTypeOK, OpType
    <2>6. Others(ws)
      BY <1>2, <1>3, <1>5, <2>4 DEF Others, Same
    <2>7. SlotWaitersAreWoken' /\ Finite' /\ Quiet(ws)'
      BY <1>2, <1>3, <2>2, <2>3, SlotsKept DEF IInv, Finite, Quiet
    <2>8. EntryOK(ws)'
      BY <1>1, <1>3, <2>4 DEF EntryOK, Current
    <2>9. WriterOK(ws)'
      BY <1>1, <1>3, <2>4 DEF WriterOK, Writer
    <2>10. QED
      BY <1>1, <1>3, <1>5, <2>3, <2>4, <2>5, <2>6, <2>7, <2>8, <2>9, LockKept
  <1>6. QED
    BY <1>4, <1>5 DEF Closes

LEMMA TickClosesStep ==
    ASSUME IInv, NEW ws \in Refs, TickCloses(ws), UNCHANGED <<backend, hostVars>>
    PROVE  IInv'
  <1> USE DEF source, backend, hostVars
  <1>1. /\ TypeOK /\ TasksOK(ws) /\ EntryOK(ws) /\ WriterOK(ws) /\ begun /\ ~adopting /\ ws \in occupied
    BY BegunFacts DEF IInv, WsOK, TickCloses
  <1>2. /\ active' \in [Refs -> Nat] /\ active'[ws] = None
        /\ \A r \in Refs \ {ws} : active'[r] = active[r]
        /\ closing' \in [Refs -> Nat] /\ closing'[ws] = active[ws]
        /\ \A r \in Refs \ {ws} : closing'[r] = closing[r]
        /\ tick' \in [Refs -> Nat]
    BY <1>1, IdleFacts DEF TickCloses, TypeOK, ManagerTypeOK
  <1>3. /\ UNCHANGED <<source, occupied, error, late, begun, inventory, deferred, op, losing, caller,
                       used, faults>>
        /\ Enqueue(ws, "close")
    BY DEF TickCloses
  <1>4. /\ tasks' \in [Refs -> Seq(Kinds)] /\ Distinct(tasks'[ws]) /\ tasks'[ws] # <<>>
        /\ Waiting(ws)' = Waiting(ws) \cup {"close"}
        /\ tasks[ws] # <<>> => Head(tasks'[ws]) = Head(tasks[ws])
        /\ \A r \in Refs \ {ws} : tasks'[r] = tasks[r]
    <2>1. "close" \in Kinds /\ Distinct(tasks[ws])
      BY <1>1 DEF Kinds, TasksOK
    <2>2. QED
      BY <1>1, <1>3, <2>1, EnqueueFacts
  <1>5. Setup \cap Waiting(ws)' = Setup \cap Waiting(ws)
    BY <1>4 DEF Setup
  <1>6. TypeOK'
    BY <1>1, <1>2, <1>3, <1>4 DEF TypeOK, SourceTypeOK, ManagerTypeOK
  <1>7. Others(ws)
    BY <1>1, <1>2, <1>3, <1>4 DEF Others, Same
  <1>8. SlotWaitersAreWoken' /\ Finite'
    BY <1>3, SlotsKept DEF IInv, Finite
  <1>9. TasksOK(ws)'
    <2>1. Setup \cap Waiting(ws)' # {} => Quiet(ws)'
      BY <1>1, <1>2, <1>3, <1>5 DEF TasksOK, Quiet
    <2>2. op'[ws] # Idle => /\ Quiet(ws)' /\ tasks'[ws] # <<>>
                            /\ Setup \cap Waiting(ws)' \subseteq {Head(tasks'[ws])}
      BY <1>1, <1>2, <1>3, <1>4, <1>5 DEF TasksOK, Quiet
    <2>3. closing'[ws] # None => error'[ws] = NoError /\ ws \in occupied' /\ "close" \in Waiting(ws)'
      BY <1>1, <1>2, <1>3, <1>4 DEF TasksOK
    <2>4. \A a, b \in Setup \cap Waiting(ws)' : a = b
      BY <1>1, <1>5 DEF TasksOK
    <2>5. op'[ws].phase = "gateway" => Head(tasks'[ws]) = "adopt"
      BY <1>1, <1>3, <1>4, IdleFacts DEF TasksOK
    <2>6. QED
      BY <1>1, <1>2, <1>3, <1>4, <2>1, <2>2, <2>3, <2>4, <2>5 DEF TasksOK
  <1>10. EntryOK(ws)'
    BY <1>1, <1>3 DEF EntryOK, Current
  <1>11. WriterOK(ws)'
    <2>1. op[ws].phase \in {"placing", "probe"} => tasks[ws] # <<>>
      BY <1>1, IdleFacts DEF TasksOK
    <2>2. QED
      BY <1>1, <1>3, <1>4, <2>1 DEF WriterOK, Writer
  <1>12. WsOK(ws)'
    BY <1>1, <1>3, <1>9, <1>10, <1>11, BegunStart DEF WsOK
  <1>13. QED
    BY <1>3, <1>6, <1>7, <1>8, <1>12, WsStep

-----------------------------------------------------------------------------
(* Loss and recovery. *)

LEMMA RecoverStep ==
    ASSUME IInv, NEW ws \in Refs, NEW i \in Nat, Recover(ws, i), begun,
           tick' \in [Refs -> Nat], faults' \in 0 .. MaxFaults,
           losses' \in SUBSET (Refs \X Nat), IsFiniteSet(losses'),
           UNCHANGED <<adopting, entries, gateway, occupied, active, error, late, begun, inventory,
                       deferred, op, closing, caller, used, backend, hostVars>>
    PROVE  IInv'
  <1> USE DEF backend, hostVars
  <1>1. /\ TypeOK /\ TasksOK(ws) /\ EntryOK(ws) /\ WriterOK(ws) /\ ~adopting
    BY DEF IInv, WsOK, StartOK
  <1>2. losing' \in [Refs -> Nat]
    BY <1>1 DEF Recover, TypeOK, ManagerTypeOK
  <1>3. /\ tasks' \in [Refs -> Seq(Kinds)] /\ Distinct(tasks'[ws]) /\ tasks'[ws] # <<>>
        /\ Waiting(ws)' = Waiting(ws) \cup {"recover"}
        /\ tasks[ws] # <<>> => Head(tasks'[ws]) = Head(tasks[ws])
        /\ \A r \in Refs \ {ws} : tasks'[r] = tasks[r]
    <2>1. "recover" \in Kinds /\ Distinct(tasks[ws])
      BY <1>1 DEF Kinds, TasksOK
    <2>2. QED
      BY <1>1, <2>1, EnqueueFacts DEF Recover
  <1>4. Setup \cap Waiting(ws)' = Setup \cap Waiting(ws)
    BY <1>3 DEF Setup
  <1>5. TypeOK'
    BY <1>1, <1>2, <1>3 DEF TypeOK, SourceTypeOK, ManagerTypeOK
  <1>6. Others(ws)
    BY <1>3 DEF Others, Same
  <1>7. SlotWaitersAreWoken' /\ Finite'
    BY SlotsKept DEF IInv, Finite
  <1>8. TasksOK(ws)'
    <2>1. Setup \cap Waiting(ws)' # {} => Quiet(ws)'
      BY <1>1, <1>4 DEF TasksOK, Quiet
    <2>2. op'[ws] # Idle => /\ Quiet(ws)' /\ tasks'[ws] # <<>>
                            /\ Setup \cap Waiting(ws)' \subseteq {Head(tasks'[ws])}
      BY <1>1, <1>3, <1>4 DEF TasksOK, Quiet
    <2>3. \A a, b \in Setup \cap Waiting(ws)' : a = b
      BY <1>1, <1>4 DEF TasksOK
    <2>4. op'[ws].phase = "gateway" => Head(tasks'[ws]) = "adopt"
      BY <1>1, <1>3, IdleFacts DEF TasksOK
    <2>5. QED
      BY <1>1, <1>3, <2>1, <2>2, <2>3, <2>4 DEF TasksOK
  <1>9. EntryOK(ws)'
    BY <1>1 DEF EntryOK, Current
  <1>10. WriterOK(ws)'
    <2>1. op[ws].phase \in {"placing", "probe"} => tasks[ws] # <<>>
      BY <1>1, IdleFacts DEF TasksOK
    <2>2. QED
      BY <1>1, <1>3, <2>1 DEF WriterOK, Writer
  <1>11. WsOK(ws)'
    BY <1>1, <1>8, <1>9, <1>10, BegunStart DEF WsOK
  <1>12. QED
    BY <1>5, <1>6, <1>7, <1>11, WsStep

LEMMA SourceLostStep ==
    ASSUME IInv, SourceLost, UNCHANGED <<backend, hostVars>>
    PROVE  IInv'
  <1>1. PICK loss \in losses :
        /\ losses' = losses \ {loss}
        /\ IF active[loss[1]] # None /\ active[loss[1]] = loss[2]
           THEN Recover(loss[1], loss[2]) ELSE UNCHANGED <<tasks, losing>>
        /\ UNCHANGED <<adopting, entries, gateway, occupied, active, error, late, begun,
                       inventory, deferred, op, closing, caller, tick, used, faults>>
    BY DEF SourceLost
  <1>2. TypeOK /\ Finite
    BY DEF IInv
  <1>3. loss[1] \in Refs /\ loss[2] \in Nat /\ losses' \in SUBSET (Refs \X Nat) /\ IsFiniteSet(losses')
    <2>1. IsFiniteSet(losses \ {loss})
      BY <1>2, FS_Subset DEF Finite
    <2>2. QED
      BY <1>1, <1>2, <2>1 DEF TypeOK, SourceTypeOK
  <1>4. CASE active[loss[1]] # None /\ Recover(loss[1], loss[2])
    <2>1. begun
      BY <1>3, <1>4, BegunFacts
    <2>2. tick' \in [Refs -> Nat] /\ faults' \in 0 .. MaxFaults
      BY <1>1, <1>2 DEF TypeOK, ManagerTypeOK
    <2>3. QED
      BY <1>1, <1>3, <1>4, <2>1, <2>2, RecoverStep
  <1>5. CASE UNCHANGED <<tasks, losing>>
    <2>1. TypeOK'
      BY <1>1, <1>2, <1>3, <1>5 DEF TypeOK, SourceTypeOK, ManagerTypeOK, backend, hostVars
    <2>2. \A r \in Refs : Same(r)
      BY <1>1, <1>5 DEF Same, backend, hostVars
    <2>3. SlotWaitersAreWoken' /\ Finite'
      BY <1>1, <1>3, SlotsKept DEF IInv, Finite, hostVars
    <2>4. QED
      BY <1>1, <2>1, <2>2, <2>3, AllSame
  <1>6. QED
    BY <1>1, <1>4, <1>5

LEMMA MismatchSeenStep ==
    ASSUME IInv, NEW ws \in Refs, NEW i \in {active[ws], tick[ws]}, MismatchSeen(ws, i),
           UNCHANGED <<backend, hostVars>>
    PROVE  IInv'
  <1>1. TypeOK /\ i \in Nat /\ i # None
    BY WsTyped DEF IInv, MismatchSeen
  <1>2. begun
    BY <1>1, BegunFacts
  <1>3. /\ Recover(ws, i)
        /\ UNCHANGED <<source, occupied, active, error, late, begun, inventory, deferred, op,
                   closing, caller, tick, used, faults>>
    BY DEF MismatchSeen
  <1>4. /\ tick' \in [Refs -> Nat] /\ faults' \in 0 .. MaxFaults
        /\ losses' \in SUBSET (Refs \X Nat) /\ IsFiniteSet(losses')
    BY <1>1, <1>3 DEF IInv, Finite, TypeOK, SourceTypeOK, ManagerTypeOK, source
  <1>5. QED
    BY <1>1, <1>2, <1>3, <1>4, RecoverStep DEF source

LEMMA TickRecoversStep ==
    ASSUME IInv, NEW ws \in Refs, TickRecovers(ws), faults' \in 0 .. MaxFaults,
           UNCHANGED <<backend, hostVars>>
    PROVE  IInv'
  <1>1. TypeOK /\ tick[ws] \in Nat /\ begun
    BY WsTyped, BegunFacts DEF IInv, TickRecovers
  <1>2. /\ Recover(ws, tick[ws]) /\ tick' = [tick EXCEPT ![ws] = None]
        /\ UNCHANGED <<source, occupied, active, error, late, begun, inventory, deferred, op,
                   closing, caller, used>>
    BY DEF TickRecovers
  <1>3. /\ tick' \in [Refs -> Nat]
        /\ losses' \in SUBSET (Refs \X Nat) /\ IsFiniteSet(losses')
    BY <1>1, <1>2, IdleFacts DEF IInv, Finite, TypeOK, SourceTypeOK, ManagerTypeOK, source
  <1>4. QED
    BY <1>1, <1>2, <1>3, RecoverStep DEF source

LEMMA RecoversStep ==
    ASSUME IInv, NEW ws \in Refs, Recovers(ws), UNCHANGED <<backend, hostVars>>
    PROVE  IInv'
  <1>1. /\ TypeOK /\ TasksOK(ws) /\ begun /\ ~adopting
        /\ tasks[ws] # <<>> /\ Takes(ws, "recover")
    BY TakesFacts DEF Recovers
  <1>2. /\ losing' \in [Refs -> Nat] /\ closing' = closing /\ closing \in [Refs -> Nat]
        /\ active \in [Refs -> Nat]
        /\ UNCHANGED <<source, occupied, error, late, begun, inventory, deferred, closing, caller,
                       tick, used, faults>>
    BY <1>1, IdleFacts DEF Recovers, TypeOK, ManagerTypeOK
  <1>3. CASE EndTask(ws) /\ UNCHANGED active
    BY <1>1, <1>2, <1>3, NothingToDo
  <1>4. CASE /\ active[ws] # None
             /\ active' = [active EXCEPT ![ws] = None]
             /\ Goto(ws, "retireOld")
             /\ UNCHANGED tasks
    <2>1. /\ closing[ws] = None /\ error[ws] = NoError /\ ws \in occupied
          /\ Setup \cap Waiting(ws) = {}
      BY <1>1, <1>4 DEF TasksOK, Quiet
    <2>2. /\ active' \in [Refs -> Nat] /\ active'[ws] = None
          /\ \A r \in Refs \ {ws} : active'[r] = active[r]
      BY <1>2, <1>4, IdleFacts
    <2>3. "retireOld" \in Phases \ {"idle", "placing", "probe", "gateway", "retiring", "retiringOld"}
      BY DEF Phases
    <2>4. Setup \cap Waiting(ws) \subseteq {Head(tasks[ws])}
      BY <2>1
    <2>5. QED
      BY <1>1, <1>2, <1>4, <2>1, <2>2, <2>3, <2>4, PlainGoto
  <1>5. QED
    BY <1>3, <1>4 DEF Recovers

-----------------------------------------------------------------------------
(* Adoption. *)

LEMMA AdoptionBeginsStep ==
    ASSUME IInv, AdoptionBegins, UNCHANGED <<backend, hostVars>>
    PROVE  IInv'
  <1> USE DEF source, backend, hostVars
  <1> DEFINE units == {ws \in Refs : inventory[ws] # None}
  <1>1. /\ TypeOK /\ ~begun /\ ~adopting /\ begun' = TRUE
        /\ occupied' = occupied \cup units
        /\ UNCHANGED <<source, active, error, late, inventory, deferred, op, closing, losing,
                       caller, tick, used, faults>>
    BY DEF IInv, AdoptionBegins
  <1>2. \A r \in Refs : /\ tasks[r] = <<>> /\ op[r] = Idle /\ active[r] = None /\ closing[r] = None
                        /\ error[r] = NoError /\ caller[r] # "slot" /\ r \notin occupied
                        /\ (entries[r] # NoHosted => inventory[r] # None)
                        /\ EntryOK(r) /\ WriterOK(r)
    BY <1>1 DEF IInv, WsOK, StartOK
  <1>3. "adopt" \in Kinds /\ "adopt" \in Setup
    BY DEF Kinds, Setup
  <1>4. \A r \in Refs : tasks[r] \in Seq(Kinds) /\ ToSet(tasks[r]) = {} /\ Distinct(tasks[r])
    BY <1>1, <1>2, WsTyped, EmptyQueue
  <1>5. \A r \in Refs : LET q == Append(tasks[r], "adopt")
                       IN  q \in Seq(Kinds) /\ Distinct(q) /\ ToSet(q) = {"adopt"}
    <2>1. SUFFICES ASSUME NEW r \in Refs
                   PROVE  LET q == Append(tasks[r], "adopt")
                          IN  q \in Seq(Kinds) /\ Distinct(q) /\ ToSet(q) = {"adopt"}
      OBVIOUS
    <2>2. "adopt" \notin ToSet(tasks[r]) /\ ToSet(tasks[r]) \cup {"adopt"} = {"adopt"}
      BY <1>4
    <2>3. QED
      BY <1>3, <1>4, <2>2, PutLast
  <1>6. /\ tasks' = [r \in Refs |-> IF r \in units THEN Append(tasks[r], "adopt") ELSE tasks[r]]
        /\ tasks' \in [Refs -> Seq(Kinds)]
    BY <1>4, <1>5 DEF AdoptionBegins
  <1>7. TypeOK'
    BY <1>1, <1>6 DEF TypeOK, SourceTypeOK, ManagerTypeOK
  <1>8. Finite' /\ SlotWaitersAreWoken'
    BY <1>1, <1>2, SlotsWoken DEF IInv, Finite
  <1>9. ASSUME NEW r \in Refs PROVE WsOK(r)'
    <2>1. r \in occupied' <=> inventory[r] # None
      BY <1>1, <1>2
    <2>2. TasksOK(r)'
      <3>1. CASE r \in units
        <4>1. tasks'[r] = Append(tasks[r], "adopt")
          BY <1>6, <3>1
        <4>2. Waiting(r)' = {"adopt"} /\ Distinct(tasks'[r]) /\ r \in occupied'
          BY <1>5, <2>1, <3>1, <4>1 DEF Waiting
        <4>3. QED
          BY <1>1, <1>2, <4>2, IdleFacts DEF TasksOK, Quiet
      <3>2. CASE r \notin units
        <4>1. tasks'[r] = tasks[r]
          BY <1>6, <3>2
        <4>2. Waiting(r)' = {} /\ Distinct(tasks'[r])
          BY <1>4, <4>1 DEF Waiting
        <4>3. QED
          BY <1>1, <1>2, <4>2, IdleFacts DEF TasksOK, Quiet
      <3>3. QED
        BY <3>1, <3>2
    <2>3. StartOK(r)'
      BY <1>1, BegunStart
    <2>4. EntryOK(r)'
      BY <1>1, <1>2, <2>1, IdleFacts DEF EntryOK, Current
    <2>5. WriterOK(r)'
      BY <1>1, <1>2, IdleFacts DEF WriterOK, Writer
    <2>6. QED
      BY <2>2, <2>3, <2>4, <2>5 DEF WsOK
  <1>10. QED
    BY <1>7, <1>8, <1>9 DEF IInv

LEMMA AdoptsStep ==
    ASSUME IInv, NEW ws \in Refs, Adopts(ws), UNCHANGED <<backend, hostVars>>
    PROVE  IInv'
  <1> USE DEF source, backend, hostVars
  <1>1. /\ TypeOK /\ TasksOK(ws) /\ EntryOK(ws) /\ WriterOK(ws) /\ begun /\ ~adopting
        /\ tasks[ws] # <<>> /\ Head(tasks[ws]) = "adopt" /\ op[ws] = Idle
        /\ Quiet(ws) /\ Setup \cap Waiting(ws) \subseteq {"adopt"}
    BY TakesFacts DEF Adopts, Setup
  <1> DEFINE phase == IF ws \in deferred THEN "gateway" ELSE "probe"
  <1>2. /\ op' = [op EXCEPT ![ws].phase = phase, ![ws].entry = inventory[ws]]
        /\ UNCHANGED <<adopting, begun, tasks, unit, proc, wire, active, closing, error, entries,
                       inventory, used, tick, caller, occupied>>
    BY DEF Adopts
  <1>3. phase \in Phases /\ phase \in {"gateway", "probe"} /\ phase # "idle" /\ inventory[ws] \in Nat
    BY <1>1, WsTyped DEF Phases
  <1> HIDE DEF phase
  <1>4. /\ op' \in [Refs -> OpType] /\ op'[ws].phase = phase /\ op'[ws].entry = inventory[ws]
        /\ op'[ws] # Idle
        /\ \A r \in Refs \ {ws} : op'[r] = op[r]
    BY <1>1, <1>2, <1>3, GotoEntry
  <1>5. TypeOK'
    BY <1>1, <1>2, <1>4 DEF TypeOK, SourceTypeOK, ManagerTypeOK, OpType, Adopts
  <1>6. Others(ws)
    BY <1>2, <1>4 DEF Others, Same
  <1>7. SlotWaitersAreWoken' /\ Finite' /\ Quiet(ws)'
    BY <1>1, <1>2, SlotsKept DEF IInv, Finite, Adopts, Quiet
  <1>8. EntryOK(ws)'
    BY <1>1, <1>2, <1>3, <1>4 DEF EntryOK, Current
  <1>9. WriterOK(ws)'
    BY <1>1, <1>2 DEF WriterOK, Writer
  <1>10. QED
    BY <1>1, <1>2, <1>3, <1>4, <1>5, <1>6, <1>7, <1>8, <1>9, LockKept

LEMMA GatewayReturnedStep ==
    ASSUME IInv, NEW ws \in Refs, GatewayReturned(ws), UNCHANGED <<backend, hostVars>>
    PROVE  IInv'
  <1> USE DEF source, backend, hostVars
  <1>1. /\ TypeOK /\ TasksOK(ws) /\ EntryOK(ws) /\ WriterOK(ws) /\ begun /\ ~adopting
        /\ Quiet(ws) /\ tasks[ws] # <<>> /\ op[ws].phase = "gateway" /\ Head(tasks[ws]) = "adopt"
        /\ Setup \cap Waiting(ws) \subseteq {Head(tasks[ws])}
    BY HeldFacts DEF GatewayReturned, Holds, TasksOK
  <1>2. /\ Goto(ws, "probe")
        /\ UNCHANGED <<adopting, begun, tasks, unit, proc, wire, active, closing, error, entries,
                       inventory, used, tick, caller, occupied>>
    BY DEF GatewayReturned
  <1>3. /\ op' \in [Refs -> OpType] /\ op'[ws].phase = "probe" /\ op'[ws] # Idle
        /\ op'[ws].entry = op[ws].entry
        /\ \A r \in Refs \ {ws} : op'[r] = op[r]
    BY <1>1, <1>2, GotoFacts DEF Phases
  <1>4. TypeOK'
    BY <1>1, <1>2, <1>3 DEF TypeOK, SourceTypeOK, ManagerTypeOK, OpType, GatewayReturned
  <1>5. Others(ws)
    BY <1>2, <1>3 DEF Others, Same
  <1>6. SlotWaitersAreWoken' /\ Finite' /\ Quiet(ws)'
    BY <1>1, <1>2, SlotsKept DEF IInv, Finite, GatewayReturned, Quiet
  <1>7. EntryOK(ws)'
    BY <1>1, <1>2, <1>3 DEF EntryOK, Current
  <1>8. WriterOK(ws)'
    BY <1>1, <1>2, <1>3 DEF WriterOK, Writer
  <1>9. QED
    BY <1>1, <1>2, <1>3, <1>4, <1>5, <1>6, <1>7, <1>8, LockKept

-----------------------------------------------------------------------------
(* Units. *)

(* The second components of a finite set of pairs are finitely many. *)
LEMMA SecondsFinite ==
    ASSUME NEW S, IsFiniteSet(S)
    PROVE  IsFiniteSet({c[2] : c \in S})
  <1> DEFINE T == {c[2] : c \in S}
             f == [c \in S |-> c[2]]
  <1>1. f \in [S -> T] /\ \A t \in T : \E c \in S : f[c] = t
    OBVIOUS
  <1>2. f \in Surjection(S, T)
    BY <1>1 DEF Surjection
  <1> HIDE DEF T, f
  <1>3. IsFiniteSet(T)
    BY <1>2, FS_Surjection
  <1>4. QED
    BY <1>3 DEF T

LEMMA InstancesFacts ==
    ASSUME IInv, NEW ws \in Refs
    PROVE  LET i == Fresh(InstancesInUse(ws))
           IN  i \in Nat /\ i # None /\ <<ws, i>> \notin wire
  <1> DEFINE C == {c \in losses \cup wire : c[1] = ws}
             D == {c[2] : c \in C}
             S == InstancesInUse(ws)
  <1>1. TypeOK /\ Finite
    BY DEF IInv
  <1>2. C \subseteq Refs \X Nat /\ IsFiniteSet(C)
    <2>1. IsFiniteSet(losses \cup wire)
      BY <1>1, FS_Union DEF Finite
    <2>2. QED
      BY <1>1, <2>1, FS_Subset DEF TypeOK, SourceTypeOK
  <1>3. D \subseteq Nat /\ IsFiniteSet(D)
    <2>1. D \subseteq Nat
      BY <1>2
    <2>2. QED
      BY <1>2, <2>1, SecondsFinite
  <1>4. /\ None \in Nat /\ proc[ws] \in Nat /\ active[ws] \in Nat /\ op[ws].inst \in Nat
        /\ tick[ws] \in Nat /\ closing[ws] \in Nat /\ losing[ws] \in Nat
        /\ entries[ws].observed \in Nat /\ listing[ws].observed \in Nat
    <2>1. op[ws].inst \in Nat /\ listing[ws].observed \in Nat
      BY <1>1, WsTyped DEF OpType, TypeOK
    <2>2. entries[ws].observed \in Nat
      BY <1>1, WsTyped, HostedFacts
    <2>3. QED
      BY <1>1, <2>1, <2>2, WsTyped, IdleFacts
  <1>5. S = ((((((((D \cup {None}) \cup {proc[ws]}) \cup {active[ws]}) \cup {op[ws].inst})
                \cup {tick[ws]}) \cup {closing[ws]}) \cup {losing[ws]})
                \cup {entries[ws].observed}) \cup {listing[ws].observed}
    BY DEF InstancesInUse
  <1>6. IsFiniteSet(S)
    <2> HIDE DEF D, S
    <2>1. IsFiniteSet((D \cup {None}) \cup {proc[ws]})
      BY <1>3, FS_AddElement
    <2>2. IsFiniteSet((((D \cup {None}) \cup {proc[ws]}) \cup {active[ws]}) \cup {op[ws].inst})
      BY <2>1, FS_AddElement
    <2>3. IsFiniteSet((((((D \cup {None}) \cup {proc[ws]}) \cup {active[ws]}) \cup {op[ws].inst})
                \cup {tick[ws]}) \cup {closing[ws]})
      BY <2>2, FS_AddElement
    <2>4. IsFiniteSet(((((((D \cup {None}) \cup {proc[ws]}) \cup {active[ws]}) \cup {op[ws].inst})
                \cup {tick[ws]}) \cup {closing[ws]}) \cup {losing[ws]})
      BY <2>3, FS_AddElement
    <2>5. IsFiniteSet((((((((D \cup {None}) \cup {proc[ws]}) \cup {active[ws]}) \cup {op[ws].inst})
                \cup {tick[ws]}) \cup {closing[ws]}) \cup {losing[ws]}) \cup {entries[ws].observed})
      BY <2>4, FS_AddElement
    <2>6. QED
      BY <1>5, <2>5, FS_AddElement
  <1>7. S \in SUBSET Nat
    BY <1>3, <1>4, <1>5
  <1>8. Fresh(S) \in Nat \ {0} /\ Fresh(S) \notin S
    <2> HIDE DEF S
    <2>1. QED
      BY <1>6, <1>7, LeastUnused DEF Fresh
  <1>9. ASSUME NEW i, <<ws, i>> \in wire PROVE i \in S
    <2>1. <<ws, i>> \in C
      BY <1>9
    <2>2. i \in D
      BY <2>1
    <2>3. QED
      BY <1>5, <2>2
  <1>10. QED
    BY <1>8, <1>9 DEF None

(* A process under a new uuid has been given nothing yet. *)
LEMMA NewProcessStep ==
    ASSUME IInv, NEW ws \in Refs, NewProcess(ws), unit' \in [Refs -> UnitStates],
           \A r \in Refs \ {ws} : unit'[r] = unit[r], faults' \in 0 .. MaxFaults,
           UNCHANGED <<source, occupied, active, error, late, begun, inventory, deferred, tasks,
                       op, closing, losing, caller, tick, hostVars>>
    PROVE  IInv'
  <1> USE DEF source, hostVars
  <1> DEFINE i == Fresh(InstancesInUse(ws))
  <1>1. i \in Nat /\ i # None /\ <<ws, i>> \notin wire
    BY InstancesFacts
  <1>2. proc' = [proc EXCEPT ![ws] = i] /\ used' = [used EXCEPT ![ws] = used[ws] \ {i}]
    BY DEF NewProcess, IInv, TypeOK, ManagerTypeOK
  <1> HIDE DEF i
  <1>3. TypeOK /\ TasksOK(ws) /\ StartOK(ws) /\ EntryOK(ws) /\ WriterOK(ws)
    BY DEF IInv, WsOK
  <1>4. /\ proc' \in [Refs -> Nat] /\ used' \in [Refs -> SUBSET Nat]
        /\ proc'[ws] = i /\ used'[ws] = used[ws] \ {i}
        /\ \A r \in Refs \ {ws} : proc'[r] = proc[r] /\ used'[r] = used[r]
    BY <1>1, <1>2, <1>3 DEF TypeOK, ManagerTypeOK
  <1>5. TypeOK'
    BY <1>3, <1>4 DEF TypeOK, SourceTypeOK, ManagerTypeOK
  <1>6. Others(ws)
    BY <1>4 DEF Others, Same
  <1>7. SlotWaitersAreWoken' /\ Finite'
    BY SlotsKept DEF IInv, Finite
  <1>8. TasksOK(ws)'
    BY <1>3 DEF TasksOK, Waiting, Quiet
  <1>9. StartOK(ws)'
    BY <1>3 DEF StartOK
  <1>10. EntryOK(ws)'
    BY <1>3 DEF EntryOK, Current
  <1>11. WriterOK(ws)'
    BY <1>1, <1>3, <1>4 DEF WriterOK, Writer
  <1>12. WsOK(ws)'
    BY <1>8, <1>9, <1>10, <1>11 DEF WsOK
  <1>13. QED
    BY <1>5, <1>6, <1>7, <1>12, WsStep

LEMMA UnitStartsStep ==
    ASSUME IInv, NEW ws \in Refs, UnitStarts(ws)
    PROVE  IInv'
  <1>1. /\ unit' \in [Refs -> UnitStates] /\ \A r \in Refs \ {ws} : unit'[r] = unit[r]
        /\ faults' \in 0 .. MaxFaults
    BY DEF IInv, TypeOK, UnitStarts, UnitStates
  <1>2. QED
    BY <1>1, NewProcessStep DEF UnitStarts

LEMMA UnitRestartsStep ==
    ASSUME IInv, NEW ws \in Refs, UnitRestarts(ws)
    PROVE  IInv'
  <1>1. /\ unit' \in [Refs -> UnitStates] /\ \A r \in Refs \ {ws} : unit'[r] = unit[r]
        /\ faults' \in 0 .. MaxFaults
    BY MaxFaultsAssumption DEF IInv, TypeOK, UnitRestarts, Fault
  <1>2. QED
    BY <1>1, NewProcessStep DEF UnitRestarts

(* A step of the host or of a unit that starts no process and answers nothing. *)
LEMMA BackendStep ==
    ASSUME IInv, unit' \in [Refs -> UnitStates],
           \A r \in Refs : unit'[r] = "started" => unit[r] = "started",
           faults' \in 0 .. MaxFaults, host' \in {"list", "inventory", "pass"}, stale' \in BOOLEAN,
           listing' \in [Refs -> [desired : {"none", "running", "released"},
                                  registered : BOOLEAN, observed : Nat]],
           todo' \in SUBSET Refs, gateway' \in BOOLEAN,
           UNCHANGED <<adopting, entries, losses, manager, proc, wire>>
    PROVE  IInv'
  <1> USE DEF manager
  <1>1. TypeOK'
    BY DEF IInv, TypeOK, SourceTypeOK, ManagerTypeOK
  <1>2. \A r \in Refs : Same(r)
    BY DEF Same
  <1>3. SlotWaitersAreWoken' /\ Finite'
    BY SlotsKept DEF IInv, Finite
  <1>4. QED
    BY <1>1, <1>2, <1>3, AllSame

LEMMA UnitDiesStep ==
    ASSUME IInv, NEW ws \in Refs, UnitDies(ws)
    PROVE  IInv'
  <1>1. PICK state \in {"lost", "absent"} : unit' = [unit EXCEPT ![ws] = state]
    BY DEF UnitDies
  <1>2. /\ unit' \in [Refs -> UnitStates]
        /\ \A r \in Refs : unit'[r] = "started" => unit[r] = "started"
    BY <1>1 DEF IInv, TypeOK, UnitStates
  <1>3. faults' \in 0 .. MaxFaults
    BY MaxFaultsAssumption DEF UnitDies, Fault, IInv, TypeOK
  <1>4. QED
    BY <1>2, <1>3, BackendStep DEF UnitDies, IInv, TypeOK, SourceTypeOK, source, hostVars

LEMMA UnitGoneStep ==
    ASSUME IInv, NEW ws \in Refs, UnitGone(ws)
    PROVE  IInv'
  <1>1. /\ unit' \in [Refs -> UnitStates]
        /\ \A r \in Refs : unit'[r] = "started" => unit[r] = "started"
    BY DEF IInv, TypeOK, UnitStates, UnitGone
  <1>2. QED
    BY <1>1, BackendStep DEF UnitGone, IInv, TypeOK, SourceTypeOK, source, hostVars

-----------------------------------------------------------------------------
(* The host's loop. *)

LEMMA HandledFacts ==
    ASSUME IInv, NEW ws \in Refs, Handled(ws), UNCHANGED <<stale, listing>>
    PROVE  /\ host' \in {"list", "inventory", "pass"} /\ todo' \in SUBSET Refs /\ stale' \in BOOLEAN
           /\ listing' \in [Refs -> [desired : {"none", "running", "released"},
                                     registered : BOOLEAN, observed : Nat]]
  BY DEF Handled, IInv, TypeOK

LEMMA RemoveUnitFacts ==
    ASSUME TypeOK, NEW ws \in Refs, RemoveUnit(ws)
    PROVE  /\ unit' \in [Refs -> UnitStates]
           /\ \A r \in Refs : unit'[r] = "started" => unit[r] = "started"
  BY DEF TypeOK, UnitStates, RemoveUnit

LEMMA HostCreatesStep ==
    ASSUME IInv, NEW ws \in Refs, HostCreates(ws)
    PROVE  IInv'
  <1>1. /\ unit' \in [Refs -> UnitStates]
        /\ \A r \in Refs : unit'[r] = "started" => unit[r] = "started"
    BY DEF HostCreates, IInv, TypeOK, UnitStates
  <1>2. /\ Handled(ws) /\ UNCHANGED <<adopting, entries, losses, gateway, manager, proc, wire,
                                      faults, stale, listing>>
    BY DEF HostCreates, source
  <1>3. faults' \in 0 .. MaxFaults /\ gateway' \in BOOLEAN
    BY <1>2 DEF IInv, TypeOK, SourceTypeOK
  <1>4. QED
    BY <1>1, <1>2, <1>3, HandledFacts, BackendStep

LEMMA HostRemovesUnlistedStep ==
    ASSUME IInv, NEW ws \in Refs, HostRemovesUnlisted(ws)
    PROVE  IInv'
  <1>1. /\ unit' \in [Refs -> UnitStates]
        /\ \A r \in Refs : unit'[r] = "started" => unit[r] = "started"
    BY RemoveUnitFacts DEF HostRemovesUnlisted, IInv
  <1>2. /\ Handled(ws) /\ UNCHANGED <<adopting, entries, losses, gateway, manager, proc, wire,
                                      faults, stale, listing>>
    BY DEF HostRemovesUnlisted, source
  <1>3. faults' \in 0 .. MaxFaults /\ gateway' \in BOOLEAN
    BY <1>2 DEF IInv, TypeOK, SourceTypeOK
  <1>4. QED
    BY <1>1, <1>2, <1>3, HandledFacts, BackendStep

LEMMA HostPassesStep ==
    ASSUME IInv, NEW ws \in Refs, HostPasses(ws) \/ HostCallFails(ws)
    PROVE  IInv'
  <1>1. /\ Handled(ws) /\ UNCHANGED <<adopting, entries, losses, gateway, manager, unit, proc, wire,
                                      stale, listing>>
    BY DEF HostPasses, HostCallFails, source, backend
  <1>2. faults' \in 0 .. MaxFaults
    BY MaxFaultsAssumption DEF HostPasses, HostCallFails, Fault, IInv, TypeOK
  <1>3. gateway' \in BOOLEAN /\ unit' \in [Refs -> UnitStates]
    BY <1>1 DEF IInv, TypeOK, SourceTypeOK
  <1>4. QED
    BY <1>1, <1>2, <1>3, HandledFacts, BackendStep

LEMMA HostListsStep ==
    ASSUME IInv, HostLists
    PROVE  IInv'
  <1>1. \A e \in EntryType : Listed(e) \in [desired : {"none", "running", "released"},
                                            registered : BOOLEAN, observed : Nat]
    <2>1. \A e \in Hosted : Listed(e) \in [desired : {"none", "running", "released"},
                                            registered : BOOLEAN, observed : Nat]
      BY DEF Hosted, Listed
    <2>2. Listed(NoHosted) \in [desired : {"none", "running", "released"},
                                registered : BOOLEAN, observed : Nat]
      BY DEF NoHosted, Listed, None
    <2>3. QED
      BY <2>1, <2>2 DEF EntryType
  <1>2. \A r \in Refs : entries[r] \in EntryType
    BY WsTyped DEF IInv
  <1>3. listing' \in [Refs -> [desired : {"none", "running", "released"},
                               registered : BOOLEAN, observed : Nat]]
    <2>1. listing' = [ws \in Refs |-> Listed(entries[ws])]
      BY DEF HostLists
    <2>2. QED
      BY <1>1, <1>2, <2>1
  <1>4. /\ UNCHANGED <<adopting, entries, losses, gateway, manager, unit, proc, wire, faults>>
        /\ host' \in {"list", "inventory", "pass"} /\ todo' \in SUBSET Refs /\ stale' \in BOOLEAN
    BY DEF HostLists, source, backend
  <1>5. faults' \in 0 .. MaxFaults /\ gateway' \in BOOLEAN /\ unit' \in [Refs -> UnitStates]
    BY <1>4 DEF IInv, TypeOK, SourceTypeOK
  <1>6. QED
    BY <1>3, <1>4, <1>5, BackendStep

LEMMA GatewayChangesStep ==
    ASSUME IInv, GatewayChanges
    PROVE  IInv'
  <1>1. /\ UNCHANGED <<adopting, entries, losses, manager, unit, proc, host, stale, listing, todo, wire>>
    BY DEF GatewayChanges, backend, hostVars
  <1>2. faults' \in 0 .. MaxFaults
    BY MaxFaultsAssumption DEF GatewayChanges, Fault, IInv, TypeOK
  <1>3. gateway' \in BOOLEAN
    BY DEF GatewayChanges, IInv, TypeOK, SourceTypeOK
  <1>4. /\ unit' \in [Refs -> UnitStates] /\ host' \in {"list", "inventory", "pass"}
        /\ stale' \in BOOLEAN /\ todo' \in SUBSET Refs
        /\ listing' \in [Refs -> [desired : {"none", "running", "released"},
                                  registered : BOOLEAN, observed : Nat]]
    BY <1>1 DEF IInv, TypeOK
  <1>5. QED
    BY <1>1, <1>2, <1>3, <1>4, BackendStep

(* A DELETE of the host is answered: it must not hit the entry of a writer. *)
LEMMA UnregisterStep ==
    ASSUME IInv, NEW ws \in Refs, NEW i \in Nat, unregister(ws, i),
           Writer(ws) => ~(entries[ws].registered /\ entries[ws].observed \in {None, i}),
           wire' \in SUBSET wire,
           host' \in {"list", "inventory", "pass"}, todo' \in SUBSET Refs, stale' \in BOOLEAN,
           listing' \in [Refs -> [desired : {"none", "running", "released"},
                                  registered : BOOLEAN, observed : Nat]],
           UNCHANGED <<adopting, gateway, manager, faults, backend>>
    PROVE  IInv'
  <1> USE DEF manager, backend
  <1> DEFINE e == entries[ws]
             accepted == e.registered /\ e.observed \in {None, i}
  <1>1. TypeOK /\ Finite /\ TasksOK(ws) /\ StartOK(ws) /\ EntryOK(ws) /\ WriterOK(ws)
    BY DEF IInv, WsOK
  <1>2. e \in EntryType /\ e.observed \in Nat
    BY <1>1, WsTyped, HostedFacts
  <1>3. /\ entries' = [entries EXCEPT ![ws] = IF accepted THEN NoHosted ELSE e]
        /\ losses' = losses \/ losses' = losses \cup {<<ws, e.observed>>}
    BY <1>1 DEF unregister, TypeOK, SourceTypeOK
  <1>4. /\ entries' \in [Refs -> EntryType]
        /\ entries'[ws] = IF accepted THEN NoHosted ELSE e
        /\ \A r \in Refs \ {ws} : entries'[r] = entries[r]
    BY <1>1, <1>2, <1>3, NoHostedFacts DEF TypeOK, SourceTypeOK, EntryType
  <1>5. losses' \in SUBSET (Refs \X Nat) /\ IsFiniteSet(losses')
    <2>1. losses \in SUBSET (Refs \X Nat) /\ IsFiniteSet(losses)
      BY <1>1 DEF TypeOK, SourceTypeOK, Finite
    <2>2. IsFiniteSet(losses \cup {<<ws, e.observed>>})
      BY <2>1, FS_AddElement
    <2>3. losses \cup {<<ws, e.observed>>} \in SUBSET (Refs \X Nat)
      BY <1>2, <2>1
    <2>4. QED
      BY <1>3, <2>1, <2>2, <2>3
  <1>6. wire' \in SUBSET (Refs \X Nat) /\ IsFiniteSet(wire')
    BY <1>1, FS_Subset DEF TypeOK, Finite
  <1> HIDE DEF e
  <1>7. TypeOK'
    BY <1>1, <1>4, <1>5, <1>6 DEF TypeOK, SourceTypeOK, ManagerTypeOK, EntryType
  <1>8. SlotWaitersAreWoken' /\ Finite'
    BY <1>5, <1>6, SlotsKept DEF IInv, Finite
  <1>9. CASE ~accepted
    <2>1. \A r \in Refs : Same(r)
      BY <1>4, <1>9 DEF Same, e
    <2>2. QED
      BY <1>7, <1>8, <2>1, AllSame
  <1>10. CASE accepted
    <2>1. entries'[ws] = NoHosted /\ ~Writer(ws)
      BY <1>4, <1>10 DEF e
    <2>2. Others(ws)
      BY <1>4 DEF Others, Same
    <2>3. TasksOK(ws)'
      BY <1>1 DEF TasksOK, Quiet, Waiting
    <2>4. StartOK(ws)'
      BY <1>1, <2>1 DEF StartOK
    <2>5. EntryOK(ws)'
      BY <1>1, <2>1, NoHostedFacts DEF EntryOK, Current
    <2>6. WriterOK(ws)'
      <3>1. <<ws, proc[ws]>> \in wire' => <<ws, proc[ws]>> \in wire
        OBVIOUS
      <3>2. QED
        BY <1>1, <2>1, <3>1, NoHostedFacts DEF WriterOK, Writer
    <2>7. WsOK(ws)'
      BY <2>3, <2>4, <2>5, <2>6 DEF WsOK
    <2>8. QED
      BY <1>7, <1>8, <2>2, <2>7, WsStep
  <1>11. QED
    BY <1>9, <1>10

(* A DELETE times out and may still arrive: only of a unit that has stopped. *)
LEMMA DelayedStep ==
    ASSUME IInv, NEW ws \in Refs, NEW i \in Nat, wire' = wire \cup {<<ws, i>>}, unit[ws] # "started",
           faults' \in 0 .. MaxFaults,
           host' \in {"list", "inventory", "pass"}, todo' \in SUBSET Refs, stale' \in BOOLEAN,
           listing' \in [Refs -> [desired : {"none", "running", "released"},
                                  registered : BOOLEAN, observed : Nat]],
           UNCHANGED <<adopting, gateway, entries, losses, manager, backend>>
    PROVE  IInv'
  <1> USE DEF manager, backend
  <1>1. TypeOK /\ Finite /\ TasksOK(ws) /\ StartOK(ws) /\ EntryOK(ws) /\ WriterOK(ws)
    BY DEF IInv, WsOK
  <1>2. wire' \in SUBSET (Refs \X Nat) /\ IsFiniteSet(wire')
    <2>1. wire \in SUBSET (Refs \X Nat) /\ IsFiniteSet(wire)
      BY <1>1 DEF TypeOK, Finite
    <2>2. IsFiniteSet(wire')
      BY <2>1, FS_AddElement
    <2>3. QED
      BY <2>1, <2>2
  <1>3. TypeOK'
    BY <1>1, <1>2 DEF TypeOK, SourceTypeOK, ManagerTypeOK
  <1>4. SlotWaitersAreWoken' /\ Finite'
    BY <1>2, SlotsKept DEF IInv, Finite
  <1>5. Others(ws)
    <2>1. ASSUME NEW r \in Refs \ {ws}, NEW c \in wire', c[1] = r PROVE c \in wire
      BY <2>1
    <2>2. QED
      BY <2>1 DEF Others, Same
  <1>6. TasksOK(ws)'
    BY <1>1 DEF TasksOK, Quiet, Waiting
  <1>7. StartOK(ws)'
    BY <1>1 DEF StartOK
  <1>8. EntryOK(ws)'
    BY <1>1 DEF EntryOK, Current
  <1>9. WriterOK(ws)'
    BY <1>1 DEF WriterOK, Writer
  <1>10. WsOK(ws)'
    BY <1>6, <1>7, <1>8, <1>9 DEF WsOK
  <1>11. QED
    BY <1>3, <1>4, <1>5, <1>10, WsStep

LEMMA DeleteStep ==
    ASSUME IInv, NEW ws \in Refs, NEW i \in Nat, Delete(ws, i), Handled(ws), unit[ws] # "started",
           UNCHANGED <<adopting, gateway, manager, backend, stale, listing>>
    PROVE  IInv'
  <1>1. /\ host' \in {"list", "inventory", "pass"} /\ todo' \in SUBSET Refs /\ stale' \in BOOLEAN
        /\ listing' \in [Refs -> [desired : {"none", "running", "released"},
                                  registered : BOOLEAN, observed : Nat]]
    BY HandledFacts
  <1>2. CASE unregister(ws, i) /\ UNCHANGED <<wire, faults>>
    <2>1. ~Writer(ws) /\ wire' \in SUBSET wire
      BY <1>2 DEF Writer
    <2>2. QED
      BY <1>1, <1>2, <2>1, UnregisterStep
  <1>3. CASE /\ Fault
             /\ wire' = wire \cup {<<ws, i>>}
             /\ UNCHANGED <<entries, losses>>
    <2>1. faults' \in 0 .. MaxFaults
      BY <1>3, MaxFaultsAssumption DEF Fault, IInv, TypeOK
    <2>2. QED
      BY <1>1, <1>3, <2>1, DelayedStep
  <1>4. QED
    BY <1>2, <1>3 DEF Delete

LEMMA HostReportsLostStep ==
    ASSUME IInv, NEW ws \in Refs, HostReportsLost(ws)
    PROVE  IInv'
  <1>1. /\ Handled(ws) /\ unit[ws] = "lost"
        /\ UNCHANGED <<adopting, gateway, manager, proc, stale, listing>>
    BY DEF HostReportsLost
  <1>2. CASE RemoveUnit(ws) /\ UNCHANGED <<entries, losses, wire, faults>>
    <2>1. /\ unit' \in [Refs -> UnitStates]
          /\ \A r \in Refs : unit'[r] = "started" => unit[r] = "started"
      BY <1>2, RemoveUnitFacts DEF IInv
    <2>2. faults' \in 0 .. MaxFaults /\ gateway' \in BOOLEAN
      BY <1>1, <1>2 DEF IInv, TypeOK, SourceTypeOK
    <2>3. QED
      BY <1>1, <1>2, <2>1, <2>2, HandledFacts, BackendStep
  <1>3. CASE Delete(ws, listing[ws].observed) /\ UNCHANGED unit
    <2>1. listing[ws].observed \in Nat
      BY DEF IInv, TypeOK
    <2>2. QED
      BY <1>1, <1>3, <2>1, DeleteStep DEF backend
  <1>4. QED
    BY <1>2, <1>3 DEF HostReportsLost

LEMMA HostRetiresStep ==
    ASSUME IInv, NEW ws \in Refs, HostRetires(ws)
    PROVE  IInv'
  <1>1. Handled(ws) /\ UNCHANGED <<adopting, gateway, manager, proc, stale, listing>>
    BY DEF HostRetires
  <1>2. CASE RemoveUnit(ws) /\ UNCHANGED <<entries, losses, wire, faults>>
    <2>1. /\ unit' \in [Refs -> UnitStates]
          /\ \A r \in Refs : unit'[r] = "started" => unit[r] = "started"
      BY <1>2, RemoveUnitFacts DEF IInv
    <2>2. faults' \in 0 .. MaxFaults /\ gateway' \in BOOLEAN
      BY <1>1, <1>2 DEF IInv, TypeOK, SourceTypeOK
    <2>3. QED
      BY <1>1, <1>2, <2>1, <2>2, HandledFacts, BackendStep
  <1>3. CASE unit[ws] = "absent" /\ Delete(ws, listing[ws].observed) /\ UNCHANGED unit
    <2>1. listing[ws].observed \in Nat
      BY DEF IInv, TypeOK
    <2>2. QED
      BY <1>1, <1>3, <2>1, DeleteStep DEF backend
  <1>4. QED
    BY <1>2, <1>3 DEF HostRetires

LEMMA DeleteArrivesStep ==
    ASSUME IInv, DeleteArrives
    PROVE  IInv'
  <1>1. PICK call \in wire :
        /\ wire' = wire \ {call}
        /\ unregister(call[1], call[2])
        /\ UNCHANGED <<adopting, gateway, manager, faults, backend, host, stale, listing, todo>>
    BY DEF DeleteArrives
  <1>2. call[1] \in Refs /\ call[2] \in Nat
    BY <1>1 DEF IInv, TypeOK
  <1>3. WriterOK(call[1])
    BY <1>2 DEF IInv, WsOK
  <1>4. Writer(call[1]) => ~(entries[call[1]].registered /\ entries[call[1]].observed \in {None, call[2]})
    BY <1>1, <1>3 DEF WriterOK
  <1>5. /\ host' \in {"list", "inventory", "pass"} /\ todo' \in SUBSET Refs /\ stale' \in BOOLEAN
        /\ listing' \in [Refs -> [desired : {"none", "running", "released"},
                                  registered : BOOLEAN, observed : Nat]]
    BY <1>1 DEF IInv, TypeOK
  <1>6. wire' \in SUBSET wire
    BY <1>1
  <1>7. QED
    BY <1>1, <1>2, <1>4, <1>5, <1>6, UnregisterStep

LEMMA HostRegistersStep ==
    ASSUME IInv, NEW ws \in Refs, HostRegisters(ws)
    PROVE  IInv'
  <1> USE DEF manager, backend
  <1> DEFINE e == entries[ws]
             reg == e.registered \/ e.desired = "running"
  <1>1. TypeOK /\ TasksOK(ws) /\ StartOK(ws) /\ EntryOK(ws) /\ WriterOK(ws)
    BY DEF IInv, WsOK
  <1>2. /\ Handled(ws) /\ unit[ws] = "started" /\ entries' = [entries EXCEPT ![ws].registered = reg]
        /\ UNCHANGED <<adopting, gateway, losses, manager, faults, backend, stale, listing, wire>>
    BY <1>1 DEF HostRegisters, register, TypeOK, SourceTypeOK
  <1>3. e \in EntryType
    BY <1>1, WsTyped
  <1>4. /\ entries'[ws] \in EntryType
        /\ entries'[ws].id = e.id /\ entries'[ws].registered = reg
        /\ entries'[ws].observed = e.observed /\ entries'[ws].desired = e.desired
        /\ entries'[ws] = NoHosted <=> e = NoHosted
    <2>1. entries'[ws] = [e EXCEPT !.registered = reg]
      BY <1>1, <1>2 DEF TypeOK, SourceTypeOK
    <2>2. CASE e = NoHosted
      <3>1. reg = FALSE
        BY <2>2, NoHostedFacts
      <3>2. [NoHosted EXCEPT !.registered = NoHosted.registered] = NoHosted
        BY DEF NoHosted
      <3>3. entries'[ws] = NoHosted
        <4> HIDE DEF reg
        <4>1. QED
          BY <2>1, <2>2, <3>1, <3>2, NoHostedFacts
      <3>4. QED
        BY <1>3, <2>2, <3>1, <3>3, NoHostedFacts
    <2>3. CASE e # NoHosted
      <3>1. e \in Hosted
        BY <1>3, <2>3 DEF EntryType
      <3>2. reg \in BOOLEAN
        BY <3>1 DEF Hosted
      <3>3. /\ entries'[ws] \in Hosted
            /\ entries'[ws].id = e.id /\ entries'[ws].registered = reg
            /\ entries'[ws].observed = e.observed /\ entries'[ws].desired = e.desired
        <4> HIDE DEF e, reg
        <4>1. QED
          BY <2>1, <3>1, <3>2 DEF Hosted
      <3>4. entries'[ws] # NoHosted
        BY <3>3, NoHostedFacts DEF Hosted
      <3>5. QED
        BY <2>3, <3>3, <3>4 DEF EntryType
    <2>4. QED
      BY <2>2, <2>3
  <1>5. /\ entries' \in [Refs -> EntryType] /\ \A r \in Refs \ {ws} : entries'[r] = entries[r]
    BY <1>1, <1>2, <1>4 DEF TypeOK, SourceTypeOK, EntryType
  <1>6. /\ host' \in {"list", "inventory", "pass"} /\ todo' \in SUBSET Refs
    BY <1>2, HandledFacts
  <1>7. TypeOK'
    BY <1>1, <1>2, <1>5, <1>6 DEF TypeOK, SourceTypeOK, ManagerTypeOK, EntryType
  <1>8. SlotWaitersAreWoken' /\ Finite'
    BY <1>2, SlotsKept DEF IInv, Finite
  <1>9. Others(ws)
    BY <1>2, <1>5 DEF Others, Same
  <1>10. TasksOK(ws)'
    BY <1>1, <1>2 DEF TasksOK, Quiet, Waiting
  <1>11. StartOK(ws)'
    BY <1>1, <1>2, <1>4 DEF StartOK
  <1>12. EntryOK(ws)'
    BY <1>1, <1>2, <1>4 DEF EntryOK, Current
  <1>13. WriterOK(ws)'
    <2>1. CASE e.registered
      BY <1>1, <1>2, <1>4, <2>1 DEF WriterOK, Writer
    <2>2. CASE ~e.registered /\ ~adopting
      <3>1. proc[ws] \notin used[ws]
        BY <1>1, <1>2, <2>2 DEF WriterOK, Writer
      <3>2. QED
        BY <1>1, <1>2, <3>1 DEF WriterOK, Writer
    <2>3. CASE adopting
      <3>1. op[ws] = Idle
        BY <1>1, <2>3 DEF StartOK
      <3>2. QED
        BY <1>1, <1>2, <1>4, <2>3, <3>1, IdleFacts DEF WriterOK, Writer
    <2>4. QED
      BY <2>1, <2>2, <2>3
  <1>14. WsOK(ws)'
    BY <1>10, <1>11, <1>12, <1>13 DEF WsOK
  <1>15. QED
    BY <1>2, <1>7, <1>8, <1>9, <1>14, WsStep

(* A unit of the inventory becomes a registered entry. *)
LEMMA FoundFacts ==
    ASSUME NEW n \in Nat, n # None
    PROVE  LET found == [NoHosted EXCEPT !.id = n, !.desired = "running", !.registered = TRUE]
           IN  found \in Hosted /\ found.id = n /\ found.registered /\ found # NoHosted
  <1> DEFINE found == [NoHosted EXCEPT !.id = n, !.desired = "running", !.registered = TRUE]
  <1>1. found \in Hosted
    BY DEF NoHosted, Hosted, None
  <1>2. found.id = n /\ found.registered = TRUE
    BY DEF NoHosted
  <1> HIDE DEF found
  <1>3. found # NoHosted
    BY <1>2, NoHostedFacts
  <1>4. QED
    BY <1>1, <1>2, <1>3 DEF found

LEMMA HostInventoryStep ==
    ASSUME IInv, HostInventory
    PROVE  IInv'
  <1> USE DEF source, backend
  <1> DEFINE live == {ws \in Refs : unit[ws] = "started"}
             found == [NoHosted EXCEPT !.id = 1, !.desired = "running", !.registered = TRUE]
  <1>1. TypeOK
    BY DEF IInv
  <1>2. /\ host' \in {"list", "inventory", "pass"}
        /\ UNCHANGED <<gateway, losses, occupied, active, error, late, begun, deferred,
                       tasks, op, closing, losing, caller, tick, used, faults, unit, proc,
                       stale, listing, todo, wire>>
    BY DEF HostInventory
  <1>3. SlotWaitersAreWoken' /\ Finite'
    BY <1>2, SlotsKept DEF IInv, Finite
  <1>4. CASE UNCHANGED <<adopting, entries, inventory>>
    <2>1. TypeOK'
      BY <1>1, <1>2, <1>4 DEF TypeOK, SourceTypeOK, ManagerTypeOK
    <2>2. \A r \in Refs : Same(r)
      BY <1>2, <1>4 DEF Same
    <2>3. QED
      BY <1>2, <1>3, <1>4, <2>1, <2>2, AllSame
  <1>5. CASE /\ accept_inventory(live, 1)
             /\ inventory' = [ws \in Refs |-> IF ws \in live THEN 1 ELSE None]
    <2>1. /\ adopting /\ adopting' = FALSE
          /\ entries' = [ws \in Refs |-> IF ws \in live THEN found ELSE entries[ws]]
      BY <1>5 DEF accept_inventory
    <2>2. found \in Hosted /\ found.id = 1 /\ found.registered /\ found # NoHosted
      <3>1. 1 \in Nat /\ 1 # None
        BY DEF None
      <3>2. QED
        BY <3>1, FoundFacts
    <2> HIDE DEF found
    <2>3. \A r \in Refs : /\ TasksOK(r) /\ WriterOK(r) /\ entries[r] = NoHosted /\ ~begun
                          /\ op[r] = Idle /\ error[r] = NoError /\ tasks[r] = <<>>
                          /\ active[r] = None /\ closing[r] = None /\ tick[r] = None
                          /\ caller[r] # "slot" /\ r \notin occupied
      BY <2>1 DEF IInv, WsOK, StartOK
    <2>4. entries' \in [Refs -> EntryType] /\ inventory' \in [Refs -> Nat]
      <3>1. entries' \in [Refs -> EntryType]
        BY <2>1, <2>2, <2>3, NoHostedFacts DEF EntryType
      <3>2. QED
        BY <1>5, <3>1 DEF None
    <2>5. TypeOK'
      BY <1>1, <1>2, <2>1, <2>4 DEF TypeOK, SourceTypeOK, ManagerTypeOK, EntryType
    <2>6. ASSUME NEW r \in Refs PROVE WsOK(r)'
      <3>1. TasksOK(r)'
        BY <1>2, <2>3 DEF TasksOK, Quiet, Waiting
      <3>2. entries'[r] # NoHosted => inventory'[r] # None /\ entries'[r].registered
        BY <1>5, <2>1, <2>2, <2>3 DEF None
      <3>3. StartOK(r)'
        BY <1>2, <2>1, <2>3, <3>2 DEF StartOK
      <3>4. EntryOK(r)'
        BY <1>2, <2>3, <3>2, NoHostedFacts, IdleFacts, ErrorFacts DEF EntryOK, Current
      <3>5. unit[r] = "started" => entries'[r].registered
        BY <2>1, <2>2
      <3>6. WriterOK(r)'
        BY <1>2, <2>1, <2>3, <3>5, IdleFacts DEF WriterOK, Writer
      <3>7. QED
        BY <3>1, <3>3, <3>4, <3>6 DEF WsOK
    <2>7. QED
      BY <1>3, <2>5, <2>6 DEF IInv
  <1>6. QED
    BY <1>4, <1>5 DEF HostInventory

(* The new control knows nothing; no call of the old one is under way. *)
LEMMA ControlRestartsStep ==
    ASSUME IInv, ControlRestarts
    PROVE  IInv'
  <1> USE DEF backend
  <1>1. TypeOK /\ \A r \in Refs : WriterOK(r)
    BY DEF IInv, WsOK
  <1>2. faults' \in 0 .. MaxFaults
    BY <1>1, MaxFaultsAssumption DEF ControlRestarts, Fault, TypeOK
  <1>3. /\ adopting' = TRUE /\ begun' = FALSE /\ losses' = {} /\ wire' = {} /\ occupied' = {}
        /\ gateway' = TRUE /\ stale' = TRUE /\ deferred' = {}
        /\ UNCHANGED <<used, unit, proc, host, listing, todo>>
    BY DEF ControlRestarts
  <1>4. \A r \in Refs :
        /\ entries'[r] = NoHosted /\ active'[r] = None /\ error'[r] = NoError /\ late'[r] = {}
        /\ inventory'[r] = None /\ tasks'[r] = <<>> /\ op'[r] = Idle /\ closing'[r] = None
        /\ caller'[r] = "idle" /\ tick'[r] = None
    BY DEF ControlRestarts
  <1>5. TypeOK'
    <2>1. SourceTypeOK'
      BY NoHostedFacts DEF ControlRestarts, SourceTypeOK, EntryType
    <2>2. /\ error' \in [Refs -> ErrorType] /\ op' \in [Refs -> OpType] /\ tasks' \in [Refs -> Seq(Kinds)]
      BY IdleFacts, ErrorFacts DEF ControlRestarts
    <2>3. /\ active' \in [Refs -> Nat] /\ late' \in [Refs -> SUBSET Nat] /\ inventory' \in [Refs -> Nat]
          /\ closing' \in [Refs -> Nat] /\ losing' \in [Refs -> Nat] /\ tick' \in [Refs -> Nat]
          /\ caller' \in [Refs -> {"idle", "loop", "slot"}]
      BY IdleFacts DEF ControlRestarts
    <2>4. ManagerTypeOK'
      BY <1>1, <1>3, <2>2, <2>3 DEF ManagerTypeOK, TypeOK, ErrorType, OpType
    <2>5. QED
      BY <1>1, <1>2, <1>3, <2>1, <2>4 DEF TypeOK
  <1>6. Finite' /\ SlotWaitersAreWoken'
    BY <1>3, <1>4, FS_EmptySet, SlotsWoken DEF Finite
  <1>7. ASSUME NEW r \in Refs PROVE WsOK(r)'
    <2>1. Waiting(r)' = {} /\ Distinct(tasks'[r])
      BY <1>4, EmptyQueue DEF Waiting
    <2>2. TasksOK(r)'
      BY <1>4, <2>1, IdleFacts DEF TasksOK
    <2>3. StartOK(r)'
      BY <1>3, <1>4 DEF StartOK
    <2>4. EntryOK(r)'
      BY <1>3, <1>4, NoHostedFacts, IdleFacts, ErrorFacts DEF EntryOK, Current
    <2>5. WriterOK(r)'
      BY <1>1, <1>3, <1>4, IdleFacts DEF WriterOK, Writer
    <2>6. QED
      BY <2>2, <2>3, <2>4, <2>5 DEF WsOK
  <1>8. QED
    BY <1>5, <1>6, <1>7 DEF IInv

-----------------------------------------------------------------------------
(* The invariant. *)

LEMMA InitHolds == Init => IInv
  <1> SUFFICES ASSUME Init PROVE IInv
    OBVIOUS
  <1> USE DEF Init, SourceInit, ManagerInit
  <1>1. TypeOK
    <2>1. SourceTypeOK
      BY NoHostedFacts DEF SourceTypeOK, EntryType
    <2>2. proc \in [Refs -> Nat] /\ used \in [Refs -> SUBSET Nat]
      BY IdleFacts
    <2>3. error \in [Refs -> ErrorType] /\ op \in [Refs -> OpType] /\ tasks \in [Refs -> Seq(Kinds)]
      BY IdleFacts, ErrorFacts
    <2>4. ManagerTypeOK
      BY <2>2, <2>3, IdleFacts DEF ManagerTypeOK, ErrorType, OpType
    <2>5. listing \in [Refs -> [desired : {"none", "running", "released"},
                                registered : BOOLEAN, observed : Nat]]
      <3>1. Listed(NoHosted) \in [desired : {"none", "running", "released"},
                                  registered : BOOLEAN, observed : Nat]
        BY DEF NoHosted, Listed, None
      <3>2. QED
        BY <3>1
    <2>6. faults \in 0 .. MaxFaults /\ unit \in [Refs -> UnitStates]
      BY MaxFaultsAssumption DEF UnitStates
    <2>7. QED
      BY <2>1, <2>2, <2>4, <2>5, <2>6 DEF TypeOK
  <1>2. Finite
    BY FS_EmptySet DEF Finite
  <1>3. SlotWaitersAreWoken
    BY DEF SlotWaitersAreWoken
  <1>4. ASSUME NEW r \in Refs PROVE WsOK(r)
    <2>1. Waiting(r) = {} /\ Distinct(tasks[r])
      BY EmptyQueue DEF Waiting
    <2>2. TasksOK(r)
      BY <2>1, IdleFacts DEF TasksOK
    <2>3. StartOK(r)
      BY DEF StartOK
    <2>4. EntryOK(r)
      BY NoHostedFacts, IdleFacts, ErrorFacts DEF EntryOK, Current
    <2>5. WriterOK(r)
      BY IdleFacts DEF WriterOK, Writer, None
    <2>6. QED
      BY <2>2, <2>3, <2>4, <2>5 DEF WsOK
  <1>5. QED
    BY <1>1, <1>2, <1>3, <1>4 DEF IInv

LEMMA FaultFacts ==
    ASSUME TypeOK, Fault \/ UNCHANGED faults
    PROVE  faults' \in 0 .. MaxFaults
  BY MaxFaultsAssumption DEF TypeOK, Fault

(* The manager's steps, and those of the calls and ticks it makes. *)
LEMMA ManagerHolds ==
    ASSUME IInv, NEW ws \in Refs, UNCHANGED <<backend, hostVars>>,
           UnitCalls(ws) \/ Unanswered(ws) \/ TickSteps(ws) \/ ManagerSteps(ws) \/ ManagerEvents(ws)
    PROVE  IInv'
  <1>1. TypeOK
    BY DEF IInv
  <1>2. CASE UnitCalls(ws)
    BY <1>2, ProbeAnswersStep, PrepareSucceedsStep, CommitEndsStep, MismatchSeenStep DEF UnitCalls
  <1>3. CASE Unanswered(ws)
    <2>1. CASE StartFails(ws) /\ (Fault \/ UNCHANGED faults)
      BY <1>1, <2>1, FaultFacts, StartFailsStep
    <2>2. CASE CommitTransient(ws) /\ (Fault \/ UNCHANGED faults)
      BY <1>1, <2>2, FaultFacts, CommitTransientStep
    <2>3. QED
      BY <1>3, <2>1, <2>2 DEF Unanswered
  <1>4. CASE TickSteps(ws)
    <2>1. CASE TickRecovers(ws) /\ (Fault \/ UNCHANGED faults)
      BY <1>1, <2>1, FaultFacts, TickRecoversStep
    <2>2. QED
      BY <1>4, <2>1, TickBeginsStep, TickEndsStep DEF TickSteps
  <1>5. CASE ManagerSteps(ws)
    BY <1>5, ActivatesStep, PlaceBeginsStep, PlaceReturnsStep, RetireAsksStep, RetireConfirmedStep,
       RetiredLateStep, RetiresStep, ClosesStep, RecoversStep, AdoptsStep, GatewayReturnedStep
       DEF ManagerSteps
  <1>6. CASE ManagerEvents(ws)
    BY <1>6, EnsureCalledStep, EnsureLoopsStep, EnsureFailsStep, PlaceTimesOutStep, RetireTimesOutStep,
       TickClosesStep, CommitFailsStep DEF ManagerEvents
  <1>7. QED
    BY <1>2, <1>3, <1>4, <1>5, <1>6

LEMMA NextHolds ==
    ASSUME IInv, [Next]_vars
    PROVE  IInv'
  <1>1. CASE UNCHANGED vars
    <2>1. TypeOK'
      BY <1>1 DEF IInv, TypeOK, SourceTypeOK, ManagerTypeOK, vars, source, manager, backend, hostVars
    <2>2. /\ \A r \in Refs : Same(r)
          /\ adopting' = adopting /\ begun' = begun
      BY <1>1 DEF Same, vars, source, manager, backend, hostVars
    <2>3. SlotWaitersAreWoken' /\ Finite'
      BY <1>1, SlotsKept DEF IInv, Finite, vars, source, manager, hostVars
    <2>4. QED
      BY <2>1, <2>2, <2>3, AllSame
  <1>2. ASSUME NEW ws \in Refs,
               HostSteps(ws) \/ HostCallFails(ws)
                 \/ UnitStarts(ws) \/ UnitRestarts(ws) \/ UnitDies(ws) \/ UnitGone(ws)
        PROVE  IInv'
    BY <1>2, HostCreatesStep, HostRegistersStep, HostReportsLostStep, HostRetiresStep,
       HostRemovesUnlistedStep, HostPassesStep, UnitStartsStep, UnitRestartsStep, UnitDiesStep,
       UnitGoneStep DEF HostSteps
  <1>3. CASE (SourceLost \/ AdoptionBegins) /\ UNCHANGED <<backend, hostVars>>
    BY <1>3, SourceLostStep, AdoptionBeginsStep
  <1>4. CASE HostLists \/ HostInventory \/ DeleteArrives \/ GatewayChanges \/ ControlRestarts
    BY <1>4, HostListsStep, HostInventoryStep, DeleteArrivesStep, GatewayChangesStep, ControlRestartsStep
  <1>5. QED
    BY <1>1, <1>2, <1>3, <1>4, ManagerHolds DEF Next

LEMMA Inductive == Spec => []IInv
  <1>1. Init => IInv
    BY InitHolds
  <1>2. IInv /\ [Next]_vars => IInv'
    BY NextHolds
  <1>3. QED
    BY <1>1, <1>2, PTL DEF Spec

-----------------------------------------------------------------------------
(* Theorems. *)

(* Every variable of the manager, the source and the host keeps its type. *)
THEOREM HostingTypes == Spec => []TypeOK
  <1>1. IInv => TypeOK
    BY DEF IInv
  <1>2. QED
    BY <1>1, Inductive, PTL

(* A slot stands for the unit of its Workspace (_occupied in workspaces.py): what
   the runtime publishes to the host holds one, and once the slot is free no
   process that was given the Workspace's files still runs, whatever DELETEs are
   late, listings stale or controls restarted. *)
THEOREM SlotsAreHeld == Spec => []SlotIsHeld
  <1>1. IInv => SlotIsHeld
    <2> SUFFICES ASSUME IInv PROVE SlotIsHeld
      OBVIOUS
    <2>1. HostedHoldsSlot
      BY DEF HostedHoldsSlot, IInv, WsOK, EntryOK
    <2>2. ASSUME begun, NEW ws \in Refs \ occupied, unit[ws] = "started" PROVE proc[ws] \notin used[ws]
      <3>1. entries[ws] = NoHosted /\ ~adopting
        BY <2>2 DEF IInv, WsOK, EntryOK, StartOK
      <3>2. ~Writer(ws)
        BY <3>1, NoHostedFacts DEF IInv, WsOK, WriterOK
      <3>3. QED
        BY <2>2, <3>2 DEF Writer
    <2>3. QED
      BY <2>1, <2>2 DEF SlotIsHeld, FreeSlotHasNoWriter
  <1>2. QED
    BY <1>1, Inductive, PTL

(* An endpoint deliveries may use (_active) holds its slot, has no retained error,
   and nothing is placing, closing or retiring its Workspace. *)
THEOREM PublishedAreSettled == Spec => []PublishedIsSettled
  <1>1. IInv => PublishedIsSettled
    BY DEF IInv, WsOK, TasksOK, Quiet, PublishedIsSettled
  <1>2. QED
    BY <1>1, Inductive, PTL

(* A delivery that waits in ensure() for a slot never waits while one is free:
   _release wakes every waiter, for any number of Workspaces and any capacity. *)
THEOREM WaitersAreWoken == Spec => []SlotWaitersAreWoken
  <1>1. IInv => SlotWaitersAreWoken
    BY DEF IInv
  <1>2. QED
    BY <1>1, Inductive, PTL

-----------------------------------------------------------------------------
(* An action property: only ProbeAnswers goes on to a restore. *)

(* The operation of r is left alone or goes elsewhere than to a restore. *)
Spared(r) == op'[r] = op[r] \/ op'[r].phase # "prepare"

LEMMA OpSpared ==
    ASSUME TypeOK, NEW ws \in Refs,
           \/ UNCHANGED op
           \/ EndTask(ws)
           \/ \E phase \in Phases \ {"idle", "prepare"} : Goto(ws, phase)
           \/ \E o \in OpType : o.phase # "prepare" /\ op' = [op EXCEPT ![ws] = o]
    PROVE  \A r \in Refs : Spared(r)
  <1>1. op \in [Refs -> OpType]
    BY DEF TypeOK, ManagerTypeOK, OpType
  <1>2. CASE UNCHANGED op
    BY <1>2 DEF Spared
  <1>3. CASE EndTask(ws)
    BY <1>1, <1>3, IdleFacts DEF Spared, EndTask
  <1>4. CASE \E phase \in Phases \ {"idle", "prepare"} : Goto(ws, phase)
    <2>1. PICK phase \in Phases \ {"idle", "prepare"} : Goto(ws, phase)
      BY <1>4
    <2>2. op'[ws].phase = phase /\ \A r \in Refs \ {ws} : op'[r] = op[r]
      BY <2>1, GotoFacts
    <2>3. QED
      BY <2>1, <2>2 DEF Spared
  <1>5. CASE \E o \in OpType : o.phase # "prepare" /\ op' = [op EXCEPT ![ws] = o]
    BY <1>1, <1>5 DEF Spared
  <1>6. QED
    BY <1>2, <1>3, <1>4, <1>5

LEMMA FailsSpared ==
    ASSUME TypeOK, NEW ws \in Refs, Fails(ws)
    PROVE  \A r \in Refs : Spared(r)
  <1>1. "retire" \in Phases \ {"idle", "prepare"}
    BY DEF Phases
  <1>2. CASE Goto(ws, "retire")
    BY <1>1, <1>2, OpSpared
  <1>3. CASE op' = [op EXCEPT ![ws] = Idle]
    BY <1>3, IdleFacts, OpSpared
  <1>4. QED
    BY <1>2, <1>3 DEF Fails

LEMMA EntrySpared ==
    ASSUME TypeOK, NEW ws \in Refs, NEW phase \in Phases \ {"idle", "prepare"}, NEW e \in Nat,
           \/ op' = [op EXCEPT ![ws].phase = phase, ![ws].entry = e]
           \/ op' = [op EXCEPT ![ws].entry = e, ![ws].phase = phase]
    PROVE  \A r \in Refs : Spared(r)
  <1>1. op'[ws].phase = phase /\ \A r \in Refs \ {ws} : op'[r] = op[r]
    BY GotoEntry
  <1>2. QED
    BY <1>1 DEF Spared

LEMMA ManagerSpares ==
    ASSUME IInv, NEW ws \in Refs, ManagerSteps(ws)
    PROVE  \A r \in Refs : Spared(r)
  <1>1. TypeOK /\ {"place", "placing", "probe", "retire", "retireOld", "gateway", "retiring", "retiringOld"}
          \subseteq Phases \ {"idle", "prepare"}
    BY DEF IInv, Phases
  <1>2. CASE Activates(ws)
    BY <1>1, <1>2, OpSpared DEF Activates
  <1>3. CASE PlaceBegins(ws)
    <2> DEFINE id == Fresh(EntriesInUse(ws) \cup {None})
    <2>1. id \in Nat /\ op' = [op EXCEPT ![ws].phase = "placing", ![ws].entry = id]
      BY <1>3, EntriesInUseFacts DEF PlaceBegins
    <2> HIDE DEF id
    <2>2. QED
      BY <1>1, <2>1, EntrySpared
  <1>4. CASE PlaceReturns(ws)
    BY <1>1, <1>4, OpSpared DEF PlaceReturns
  <1>5. CASE RetireAsks(ws)
    <2> DEFINE phase == IF op[ws].phase = "retire" THEN "retiring" ELSE "retiringOld"
    <2>1. op' = [op EXCEPT ![ws].entry = entries[ws].id, ![ws].phase = phase]
      BY <1>1, <1>5 DEF RetireAsks, TypeOK, ManagerTypeOK
    <2>2. phase \in Phases \ {"idle", "prepare"} /\ entries[ws].id \in Nat
      BY <1>1, WsTyped, HostedFacts
    <2> HIDE DEF phase
    <2>3. QED
      BY <1>1, <2>1, <2>2, EntrySpared
  <1>6. CASE RetireConfirmed(ws)
    <2>1. [Idle EXCEPT !.phase = "place"] \in OpType /\ [Idle EXCEPT !.phase = "place"].phase = "place"
      BY DEF Idle, OpType, Phases, None
    <2>2. CASE op' = [op EXCEPT ![ws] = [Idle EXCEPT !.phase = "place"]]
      BY <1>1, <2>1, <2>2, OpSpared
    <2>3. QED
      BY <1>1, <1>6, <2>2, OpSpared DEF RetireConfirmed
  <1>7. CASE RetiredLate(ws)
    BY <1>1, <1>7, OpSpared DEF RetiredLate
  <1>8. CASE Retires(ws)
    BY <1>1, <1>8, OpSpared DEF Retires
  <1>9. CASE Closes(ws)
    <2> DEFINE endpoint == IF active[ws] # None THEN active[ws] ELSE closing[ws]
    <2>1. CASE EndTask(ws)
      BY <1>1, <2>1, OpSpared
    <2>2. CASE op' = [op EXCEPT ![ws].phase = "commit", ![ws].inst = endpoint]
      <3>1. endpoint \in Nat /\ "commit" \in Phases
        BY <1>1, WsTyped DEF Phases
      <3> HIDE DEF endpoint
      <3>2. op'[ws].phase = "commit" /\ \A r \in Refs \ {ws} : op'[r] = op[r]
        BY <1>1, <2>2, <3>1, GotoInst
      <3>3. QED
        BY <3>2 DEF Spared
    <2>3. QED
      BY <1>9, <2>1, <2>2 DEF Closes
  <1>10. CASE Recovers(ws)
    BY <1>1, <1>10, OpSpared DEF Recovers
  <1>11. CASE Adopts(ws)
    <2> DEFINE phase == IF ws \in deferred THEN "gateway" ELSE "probe"
    <2>1. op' = [op EXCEPT ![ws].phase = phase, ![ws].entry = inventory[ws]]
      BY <1>11 DEF Adopts
    <2>2. phase \in Phases \ {"idle", "prepare"} /\ inventory[ws] \in Nat
      BY <1>1, WsTyped
    <2> HIDE DEF phase
    <2>3. QED
      BY <1>1, <2>1, <2>2, EntrySpared
  <1>12. CASE GatewayReturned(ws)
    BY <1>1, <1>12, OpSpared DEF GatewayReturned
  <1>13. QED
    BY <1>2, <1>3, <1>4, <1>5, <1>6, <1>7, <1>8, <1>9, <1>10, <1>11, <1>12 DEF ManagerSteps

(* Every step but the answer to a probe spares every operation. *)
LEMMA StepSpares ==
    ASSUME IInv, [Next]_vars
    PROVE  \/ \A r \in Refs : Spared(r)
           \/ \E ws \in Refs : ProbeAnswers(ws, proc[ws])
  <1>1. TypeOK /\ "retire" \in Phases \ {"idle", "prepare"}
    BY DEF IInv, Phases
  <1>2. CASE UNCHANGED op
    BY <1>2 DEF Spared
  <1>3. ASSUME NEW ws \in Refs, UnitCalls(ws)
        PROVE  ProbeAnswers(ws, proc[ws]) \/ \A r \in Refs : Spared(r)
    <2>1. CASE PrepareSucceeds(ws)
      BY <1>1, <2>1, OpSpared, FailsSpared DEF PrepareSucceeds
    <2>2. CASE CommitEnds(ws)
      BY <1>1, <2>2, OpSpared DEF CommitEnds
    <2>3. CASE UNCHANGED op
      BY <2>3 DEF Spared
    <2>4. QED
      BY <1>3, <2>1, <2>2, <2>3 DEF UnitCalls, MismatchSeen
  <1>4. ASSUME NEW ws \in Refs, Unanswered(ws) PROVE \A r \in Refs : Spared(r)
    BY <1>1, <1>4, OpSpared, FailsSpared DEF Unanswered, StartFails, CommitTransient
  <1>5. ASSUME NEW ws \in Refs, ManagerEvents(ws) PROVE \A r \in Refs : Spared(r)
    BY <1>1, <1>5, OpSpared DEF ManagerEvents, EnsureCalled, EnsureLoops, EnsureFails, PlaceTimesOut,
       RetireTimesOut, TickCloses, CommitFails
  <1>6. ASSUME NEW ws \in Refs, TickSteps(ws) PROVE UNCHANGED op
    BY <1>6 DEF TickSteps, TickBegins, TickEnds, TickRecovers
  <1>7. ASSUME NEW ws \in Refs,
               HostSteps(ws) \/ HostCallFails(ws)
                 \/ UnitStarts(ws) \/ UnitRestarts(ws) \/ UnitDies(ws) \/ UnitGone(ws)
        PROVE  UNCHANGED op
    BY <1>7 DEF HostSteps, HostCallFails, UnitStarts, UnitRestarts, UnitDies, UnitGone, HostCreates,
       HostRegisters, HostReportsLost, HostRetires, HostRemovesUnlisted, HostPasses, manager
  <1>8. CASE SourceLost \/ AdoptionBegins
    BY <1>2, <1>8 DEF SourceLost, AdoptionBegins
  <1>9. CASE HostLists \/ HostInventory \/ DeleteArrives \/ GatewayChanges
    BY <1>2, <1>9 DEF HostLists, HostInventory, DeleteArrives, GatewayChanges, manager
  <1>10. CASE ControlRestarts
    BY <1>10, IdleFacts DEF ControlRestarts, Spared
  <1>11. CASE UNCHANGED vars
    BY <1>2, <1>11 DEF vars, manager
  <1>12. QED
    BY <1>2, <1>3, <1>4, <1>5, <1>6, <1>7, <1>8, <1>9, <1>10, <1>11, ManagerSpares DEF Next

LEMMA ProbedFacts ==
    ASSUME TypeOK, NEW r \in Refs, op' = [op EXCEPT ![r].phase = "prepare", ![r].inst = proc[r]]
    PROVE  op'[r].inst = proc[r] /\ \A s \in Refs \ {r} : op'[s] = op[s]
  <1>1. op \in [Refs -> OpType]
    BY DEF TypeOK, ManagerTypeOK, OpType
  <1>2. op[r] \in OpType
    BY <1>1
  <1>3. QED
    BY <1>1, <1>2 DEF OpType

(* The instance that answers the probe of an activation has not been restored
   before: _start never builds on the files of a failed activation. *)
LEMMA RestoredFresh ==
    ASSUME IInv, [Next]_vars, NEW ws \in Refs, Holds(ws, "probe"), op'[ws].phase = "prepare", ~Adopting(ws)
    PROVE  op'[ws].inst \notin used[ws]
  <1>1. TypeOK /\ TasksOK(ws) /\ EntryOK(ws) /\ WriterOK(ws) /\ op[ws].phase = "probe"
    BY DEF IInv, WsOK, Holds
  <1>2. PICK r \in Refs : ProbeAnswers(r, proc[r])
    BY <1>1, StepSpares DEF Spared
  <1>3. CASE /\ Current(r, op[r].entry)
             /\ op' = [op EXCEPT ![r].phase = "prepare", ![r].inst = proc[r]]
    <2>1. op'[r].inst = proc[r] /\ \A s \in Refs \ {r} : op'[s] = op[s]
      BY <1>1, <1>3, ProbedFacts
    <2>2. r = ws
      BY <1>1, <2>1
    <2>3. entries[ws].id = op[ws].entry /\ entries[ws].registered
      BY <1>1, <1>3, <2>2 DEF EntryOK, Current
    <2>4. QED
      BY <1>1, <2>1, <2>2, <2>3 DEF WriterOK, Adopting
  <1>4. CASE Fails(r)
    BY <1>1, <1>4, FailsSpared DEF Spared
  <1>5. QED
    BY <1>2, <1>3, <1>4 DEF ProbeAnswers

(* An instance is restored at most once by activations: a unit that failed to
   start, or whose retire is still unconfirmed, is never given the Workspace's
   files again under the same process. *)
THEOREM RestoredAtMostOnce == Spec => RestoredOnce
  <1>1. IInv /\ [Next]_vars =>
          [\A ws \in Refs :
              (Holds(ws, "probe") /\ op'[ws].phase = "prepare" /\ ~Adopting(ws))
                  => op'[ws].inst \notin used[ws]]_vars
    BY RestoredFresh
  <1>2. QED
    BY <1>1, Inductive, PTL DEF Spec, RestoredOnce

=============================================================================
