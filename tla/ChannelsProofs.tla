--------------------------- MODULE ChannelsProofs ---------------------------
(***************************************************************************)
(* Proofs about Channels, for any deliveries, mixes, faults, instances and *)
(* executes.                                                               *)
(*                                                                         *)
(* The invariant grows in layers, each of which may use the ones before:   *)
(* the types; the books of the control (BookOK), that is how a ticket, the *)
(* phase of its runner, its request and its process go together; which     *)
(* units may know an admission (GenerationsOK); who holds a run of the     *)
(* published unit (HoldingOK); what Started means (StartedOK); and who     *)
(* waits for a task (BridgeOK).                                            *)
(***************************************************************************)
EXTENDS Channels, ProofFacts

-----------------------------------------------------------------------------
(* The books of the control. *)

(* Phases before the Start is sent, while a Start may have been sent, and with
   a pinned instance. *)
Early   == {"queued", "ensure", "prepare", "hook", "hooking", "import", "send"}
Sending == {"sent", "resolve", "check", "recheck", "resend", "resent"}
Pinned  == Sending \cup {"prepare", "hook", "hooking", "import", "send", "observe"}

(* The ticket of a delivery, the phase of its runner and its request. *)
BookOf(k) ==
    /\ phase[k] # "idle" <=> ticket[k].owner # "none" /\ ~Over(k)
    /\ ticket[k].owner = "none" => ticket[k] = NoTicket
    /\ ticket[k].owner = "own" => ticket[k].gen = gens[k] /\ gens[k] # 0
    /\ ticket[k].owner = "recovered" =>
          /\ ticket[k].started = "failed" /\ phase[k] \in {"idle", "observe"}
          /\ ticket[k].gen <= gens[k]
    /\ ticket[k].elapsed => Over(k)
    /\ post[k] # "none" => phase[k] \in {"sent", "resent"}
    /\ phase[k] \in Pinned => pin[k] # 0
    /\ phase[k] \in {"send", "observe"} \cup Sending /\ ticket[k].owner = "own" => k \in prepared
    /\ k \in procs <=> phase[k] \in {"hooking", "script"}
    /\ phase[k] \in {"spawn", "script"} => mix.kind[k] = "script"

(* A control that is down, or has not adopted yet, knows of nothing. *)
BlankOK ==
    control \in {"down", "adopting"} =>
        /\ \A k \in Keys : ticket[k] = NoTicket /\ phase[k] = "idle"
        /\ stray = {} /\ active = 0 /\ lost = {}

BookOK == BlankOK /\ \A k \in Keys : BookOf(k)

-----------------------------------------------------------------------------
(* Which instance an admission may reach. *)

Live == {"accepted", "running"}

(* Nothing of generation g of delivery k has left the control. *)
Unsent(k, g) ==
    /\ \A p \in prompts[k] : p[2] # g
    /\ \A m \in stray : m.key = k => m.gen # g
    /\ rec[k].gen # g /\ archive[k].gen # g

(* All of it that has, or may still run, is at instance i. *)
OnlyAt(k, g, i) ==
    /\ \A p \in prompts[k] : p[2] = g => p[1] = i
    /\ \A m \in stray : m.key = k /\ m.gen = g => m.inst = i
    /\ rec[k].st \in Live /\ rec[k].gen = g => unit = i

GenerationsOf(k) ==
    /\ rec[k].gen <= gens[k] /\ archive[k].gen <= gens[k]
    /\ rec[k].st \in Live => rec[k].gen # 0
    /\ unit = 0 => rec[k] = NoRec
    /\ \A p \in prompts[k] : p[2] <= gens[k] /\ OnlyAt(k, p[2], p[1])
    /\ \A m \in stray : m.key = k => m.gen <= gens[k] /\ OnlyAt(k, m.gen, m.inst)
    /\ phase[k] \in Early => Unsent(k, ticket[k].gen)
    /\ phase[k] = "sent" /\ post[k] # "held" => Unsent(k, ticket[k].gen)
    /\ phase[k] \in Sending => OnlyAt(k, ticket[k].gen, pin[k])

(* Instances are numbered in order, and none is published twice. *)
InstancesOK ==
    /\ unit <= made /\ active <= made /\ active \notin lost
    /\ \A k \in Keys : pin[k] <= made
    /\ \A i \in lost : i <= made
    /\ \A m \in stray : m.inst <= made

GenerationsOK == InstancesOK /\ \A k \in Keys : GenerationsOf(k)

-----------------------------------------------------------------------------
(* Who holds the work of the published unit. *)

(* The runner of delivery k holds generation g at instance i. *)
Holds(k, g, i) ==
    /\ phase[k] \in Sending \cup {"observe"}
    /\ pin[k] = i /\ ticket[k].gen = g

HoldingOf(k) ==
    /\ rec[k].st = "accepted" => rec[k].started = "pending"
    /\ rec[k].st = "running" => rec[k].started = "yes"
    /\ archive[k].st \in Finals \cup {"none"}
    /\ active # 0 /\ unit = active =>
          /\ rec[k].st \in Live => Holds(k, rec[k].gen, unit)
          /\ \A m \in stray : m.key = k /\ m.inst = unit =>
                rec[k] # NoRec \/ Holds(k, m.gen, unit)

HoldingOK == \A k \in Keys : HoldingOf(k)

-----------------------------------------------------------------------------
(* What Started means, and what the consumer has in its hands. *)

StartedOf(k) ==
    /\ rec[k].started = "yes" \/ archive[k].started = "yes" => k \in begun
    /\ ticket[k].started = "yes" => k \in begun \/ mix.kind[k] = "script"

ConsumerOK ==
    /\ con.at \in {"admit", "wait"} => con.batch # {}
    /\ \A e \in con.batch : mix.kind[e.key] = "queue"

StartedOK == ConsumerOK /\ AckedWasStarted /\ \A k \in Keys : StartedOf(k)

-----------------------------------------------------------------------------
(* Who waits for a task. *)

BridgeOf(k) ==
    /\ bridge[k].count = Cardinality(bridge[k].emitters)
    /\ bridge[k].event = 0 => bridge[k].emitters = {}
    /\ \A w \in Waiters :
          /\ Inside(k, w) => exec[k][w].ev = bridge[k].event /\ Known(k)
          /\ Inside(k, w) <=> w \in bridge[k].emitters
          /\ exec[k][w].at = "working" => ticket[k].started = "yes"

BridgeOK == \A k \in Keys : BridgeOf(k)

IInv == TypeOK /\ BookOK /\ GenerationsOK /\ HoldingOK /\ StartedOK /\ BridgeOK

-----------------------------------------------------------------------------
(* Types. *)

TicketType ==
    [owner : {"none", "own", "recovered"}, gen : 0..MaxGen,
     started : {"pending", "yes", "failed"}, completed : {"pending", "ok", "failed"},
     late : BOOLEAN, cancelled : BOOLEAN, elapsed : BOOLEAN]
RecType ==
    [st : {"none", "accepted", "running", "unknown"} \cup Finals,
     gen : 0..MaxGen, started : {"pending", "yes", "failed"}]
ExecType ==
    [at : {"out", "started", "working", "answered", "silent", "lost"}, ev : Waiters \cup {0}]
BridgeType ==
    [event : Waiters \cup {0}, count : 0..Cardinality(Waiters),
     set : SUBSET Waiters, emitters : SUBSET Waiters]
EntryType == [key : Keys, stale : BOOLEAN]
ConType ==
    [at : {"off", "fetch", "admit", "wait"}, from : {"sweep", "read"},
     cursor : Keys \cup {0}, batch : SUBSET EntryType]

(* The types of the control's books, of the units and of the channels. *)
BookTypes ==
    /\ mix \in Mixes
    /\ control \in {"down", "adopting", "serving", "stopping"}
    /\ ticket \in [Keys -> TicketType]
    /\ gens \in [Keys -> 0..MaxGen]
    /\ phase \in [Keys -> Phases] /\ pin \in [Keys -> 0..MaxInst]
    /\ post \in [Keys -> Posts]
    /\ stray \subseteq [key : Keys, inst : Insts, gen : Gens]
    /\ prepared \subseteq Keys
    /\ active \in 0..MaxInst /\ lost \subseteq Insts
    /\ procs \subseteq Keys
UnitTypes ==
    /\ unit \in 0..MaxInst /\ made \in 0..MaxInst
    /\ rec \in [Keys -> RecType] /\ archive \in [Keys -> RecType]
    /\ gateway \in BOOLEAN /\ faults \in 0..MaxFaults
    /\ prompts \in [Keys -> SUBSET (Insts \X Gens)]
    /\ begun \subseteq Keys
    /\ outcome \in [Keys -> SUBSET {"known", "unknown"}]
SourceTypes ==
    /\ event \in [Keys -> Events]
    /\ con \in ConType
    /\ firing \in Keys \cup {0}
BridgeTypes ==
    /\ exec \in [Keys -> [Waiters -> ExecType]]
    /\ bridge \in [Keys -> BridgeType]

LEMMA TypeParts ==
    /\ TypeOK <=> BookTypes /\ UnitTypes /\ SourceTypes /\ BridgeTypes
    /\ TypeOK' <=> BookTypes' /\ UnitTypes' /\ SourceTypes' /\ BridgeTypes'
  <1> USE DEF TypeOK, DispatchTypeOK, BookTypes, UnitTypes, SourceTypes, BridgeTypes,
              TicketType, RecType, ExecType, BridgeType, EntryType, ConType
  <1>1. TypeOK <=> BookTypes /\ UnitTypes /\ SourceTypes /\ BridgeTypes
    OBVIOUS
  <1>2. TypeOK' <=> BookTypes' /\ UnitTypes' /\ SourceTypes' /\ BridgeTypes'
    OBVIOUS
  <1>3. QED
    BY <1>1, <1>2

(* The mix says how often a delivery is admitted at most. *)
LEMMA MixParts ==
    ASSUME BookTypes, NEW k \in Keys
    PROVE  mix.gens[k] \in 1..MaxGen /\ mix.faults \in 0..MaxFaults
  BY DispatchAssumption DEF BookTypes

LEMMA FaultType ==
    ASSUME UnitTypes, NEW f, Fault(f)
    PROVE  faults' \in 0..MaxFaults
  BY DispatchAssumption DEF UnitTypes, Fault

-----------------------------------------------------------------------------
(* The consumer. *)

(* The entry in hand is one of the batch. *)
LEMMA InHandInBatch ==
    ASSUME SourceTypes, con.batch # {}
    PROVE  InHand \in con.batch /\ InHand \in EntryType /\ InHand.key \in Keys
  <1>1. con.batch \subseteq EntryType /\ \A e \in con.batch : e.key \in Keys
    BY DEF SourceTypes, ConType, EntryType
  <1> DEFINE I == {e.key : e \in con.batch}
  <1>2. I \in SUBSET Nat /\ I # {}
    BY <1>1, DispatchAssumption
  <1>3. Min(I) \in I /\ \A i \in I : Min(I) <= i
    BY <1>2, MinOfNats
  <1>4. QED
    BY <1>1, <1>3 DEF InHand

-----------------------------------------------------------------------------
(* Steps of one runner, by what they do to the books of the control. *)

Kept(j) ==
    /\ ticket'[j] = ticket[j] /\ phase'[j] = phase[j] /\ pin'[j] = pin[j] /\ post'[j] = post[j]
    /\ j \in prepared' <=> j \in prepared
    /\ j \in procs' <=> j \in procs

(* Only the books of delivery k change: its runner goes to phase p with pin i and
   request r. *)
Runs(k, p, i, r) ==
    /\ BookTypes'
    /\ phase'[k] = p /\ pin'[k] = i /\ post'[k] = r
    /\ \A j \in Keys \ {k} : Kept(j)
    /\ UNCHANGED <<mix, gens, control, active, lost>>

(* The runner goes on with the ticket it has. *)
Advances(k, p, i, r) ==
    /\ Runs(k, p, i, r)
    /\ ticket' = ticket /\ stray' = stray
    /\ prepared' \in {prepared, prepared \cup {k}}

(* It stops waiting for its request, if it has one. *)
Abandons(k, p) ==
    /\ Runs(k, p, pin[k], "none")
    /\ ticket' = ticket /\ prepared' = prepared /\ procs' = procs
    /\ stray \subseteq stray'
    /\ \A m \in stray' \ stray :
          post[k] = "wire" /\ m = [key |-> k, inst |-> pin[k], gen |-> ticket[k].gen]

(* It is over. *)
Ends(k) ==
    /\ Runs(k, "idle", 0, "none")
    /\ stray' = stray /\ k \notin prepared' /\ k \notin procs'
    /\ ticket'[k].completed # "pending" /\ ticket'[k].started # "pending"
    /\ ticket[k].started # "pending" => ticket'[k].started = ticket[k].started
    /\ ticket[k].started = "pending" => ticket'[k].started = "failed"
    /\ ticket'[k].owner = ticket[k].owner /\ ticket'[k].gen = ticket[k].gen
    /\ ticket'[k].elapsed = ticket[k].elapsed

LEMMA FinishEnds ==
    ASSUME BookTypes, NEW k \in Keys, NEW how \in {"ok", "failed"}, Finish(k, how),
           stray' = stray, procs' = procs \ {k}, mix' = mix
    PROVE  Ends(k)
  <1> DEFINE tk == [ticket[k] EXCEPT !.completed = how,
                      !.started = IF @ = "pending" THEN "failed" ELSE @]
  <1>1. ticket[k] \in TicketType
    BY DEF BookTypes
  <1>2. /\ tk \in TicketType /\ tk.completed = how /\ tk.owner = ticket[k].owner
        /\ tk.gen = ticket[k].gen /\ tk.elapsed = ticket[k].elapsed
        /\ tk.started = IF ticket[k].started = "pending" THEN "failed" ELSE ticket[k].started
    BY <1>1 DEF TicketType
  <1>3. ticket' = [ticket EXCEPT ![k] = tk]
    BY <1>1 DEF Finish, BookTypes, TicketType
  <1> HIDE DEF tk
  <1>4. ticket' \in [Keys -> TicketType] /\ ticket'[k] = tk
        /\ \A j \in Keys \ {k} : ticket'[j] = ticket[j]
    BY <1>2, <1>3 DEF BookTypes
  <1>5. /\ phase' \in [Keys -> Phases] /\ pin' \in [Keys -> 0..MaxInst] /\ post' \in [Keys -> Posts]
        /\ phase'[k] = "idle" /\ pin'[k] = 0 /\ post'[k] = "none"
        /\ \A j \in Keys \ {k} : phase'[j] = phase[j] /\ pin'[j] = pin[j] /\ post'[j] = post[j]
    BY DispatchAssumption DEF Finish, BookTypes, Phases, Posts
  <1>6. prepared' = prepared \ {k} /\ UNCHANGED <<control, gens, active, lost>>
    BY DEF Finish
  <1>7. BookTypes'
    BY <1>4, <1>5, <1>6 DEF BookTypes
  <1>8. Runs(k, "idle", 0, "none")
    BY <1>4, <1>5, <1>6, <1>7 DEF Runs, Kept
  <1>9. QED
    BY <1>2, <1>4, <1>6, <1>8 DEF Ends

LEMMA AbandonAbandons ==
    ASSUME BookTypes, NEW k \in Keys, NEW p \in Phases, Abandon(k, p),
           post[k] = "wire" => pin[k] # 0 /\ ticket[k].gen # 0,
           procs' = procs, mix' = mix
    PROVE  Abandons(k, p)
  <1> DEFINE req == [key |-> k, inst |-> pin[k], gen |-> ticket[k].gen]
  <1>1. /\ phase' \in [Keys -> Phases] /\ post' \in [Keys -> Posts]
        /\ phase'[k] = p /\ post'[k] = "none"
        /\ \A j \in Keys \ {k} : phase'[j] = phase[j] /\ post'[j] = post[j]
    BY DEF Abandon, BookTypes, Posts
  <1>2. UNCHANGED <<control, ticket, gens, pin, prepared, active, lost>>
    BY DEF Abandon
  <1>3. stray' = stray \cup {m \in {req} : post[k] = "wire"}
    BY DEF Abandon
  <1>4. ticket[k].gen \in 0..MaxGen /\ pin[k] \in 0..MaxInst
    BY DEF BookTypes, TicketType
  <1>5. post[k] = "wire" => req \in [key : Keys, inst : Insts, gen : Gens]
    BY <1>4, DispatchAssumption DEF Insts, Gens
  <1> HIDE DEF req
  <1>6. BookTypes'
    BY <1>1, <1>2, <1>3, <1>5 DEF BookTypes
  <1>7. Runs(k, p, pin[k], "none")
    BY <1>1, <1>2, <1>6 DEF Runs, Kept
  <1>8. QED
    BY <1>2, <1>3, <1>7 DEF Abandons, req

LEMMA MoveAdvances ==
    ASSUME BookTypes, NEW k \in Keys, NEW p \in Phases, Move(k, p),
           stray' = stray, procs' \subseteq Keys,
           \A j \in Keys \ {k} : j \in procs' <=> j \in procs, mix' = mix
    PROVE  Advances(k, p, pin[k], post[k]) /\ prepared' = prepared
  <1>1. /\ phase' \in [Keys -> Phases] /\ phase'[k] = p
        /\ \A j \in Keys \ {k} : phase'[j] = phase[j]
    BY DEF Move, BookTypes
  <1>2. UNCHANGED <<control, ticket, gens, pin, post, prepared, active, lost>>
    BY DEF Move
  <1>3. BookTypes'
    BY <1>1, <1>2 DEF BookTypes
  <1>4. QED
    BY <1>1, <1>2, <1>3 DEF Advances, Runs, Kept

-----------------------------------------------------------------------------
(* The books after such a step. *)

LEMMA KeptBook ==
    ASSUME BookTypes, NEW j \in Keys, BookOf(j), Kept(j), mix' = mix, gens' = gens
    PROVE  BookOf(j)'
  BY DEF BookOf, Kept, Over

LEMMA BookFrame ==
    ASSUME BookTypes, BookOK, NEW k \in Keys, NEW p, NEW i, NEW r, Runs(k, p, i, r),
           control \notin {"down", "adopting"}, BookOf(k)'
    PROVE  BookOK'
  <1>1. \A j \in Keys \ {k} : BookOf(j)'
    BY KeptBook DEF BookOK, Runs
  <1>2. BlankOK'
    BY DEF BlankOK, Runs
  <1>3. QED
    BY <1>1, <1>2 DEF BookOK

(* A control with work has adopted. *)
LEMMA WorkIsServed ==
    ASSUME BookOK, NEW k \in Keys, phase[k] # "idle" \/ ticket[k] # NoTicket
    PROVE  control \notin {"down", "adopting"}
  BY DEF BookOK, BlankOK

LEMMA EndsBook ==
    ASSUME BookTypes, BookOK, NEW k \in Keys, phase[k] # "idle", Ends(k)
    PROVE  BookOK'
  <1>1. BookOf(k) /\ ticket[k].owner # "none" /\ gens' = gens
    BY DEF BookOK, BookOf, Ends, Runs
  <1>2. BookOf(k)'
    BY <1>1 DEF BookOf, Ends, Runs, Over, Pinned, Sending
  <1>3. QED
    BY <1>2, BookFrame, WorkIsServed DEF Ends

LEMMA AbandonsBook ==
    ASSUME BookTypes, BookOK, NEW k \in Keys, phase[k] \in {"send"} \cup Sending,
           NEW p \in {"observe"} \cup Sending, Abandons(k, p)
    PROVE  BookOK'
  <1>1. BookOf(k) /\ phase[k] # "idle" /\ phase[k] \in Pinned
    BY DEF BookOK, Sending, Pinned
  <1>2. /\ ticket' = ticket /\ phase'[k] = p /\ pin'[k] = pin[k] /\ post'[k] = "none"
        /\ prepared' = prepared /\ procs' = procs /\ gens' = gens /\ mix' = mix
    BY DEF Abandons, Runs
  <1>3. BookOf(k)'
    BY <1>1, <1>2 DEF BookOf, Over, Pinned, Sending
  <1>4. QED
    BY <1>1, <1>3, BookFrame, WorkIsServed DEF Abandons

LEMMA AdvancesBook ==
    ASSUME BookTypes, BookOK, NEW k \in Keys, NEW p \in Phases \ {"idle"}, NEW i, NEW r,
           Advances(k, p, i, r), phase[k] # "idle",
           ticket[k].owner = "own" \/ p = "observe",
           r # "none" => p \in {"sent", "resent"},
           p \in Pinned => i # 0,
           p \in {"send", "observe"} \cup Sending /\ ticket[k].owner = "own" => k \in prepared',
           k \in procs' <=> p \in {"hooking", "script"},
           p \in {"spawn", "script"} => mix.kind[k] = "script"
    PROVE  BookOK'
  <1>1. BookOf(k)
    BY DEF BookOK
  <1>2. /\ ticket' = ticket /\ phase'[k] = p /\ pin'[k] = i /\ post'[k] = r
        /\ gens' = gens /\ mix' = mix
    BY DEF Advances, Runs
  <1>3. BookOf(k)'
    BY <1>1, <1>2 DEF BookOf, Over
  <1>4. QED
    BY <1>3, BookFrame, WorkIsServed DEF Advances

-----------------------------------------------------------------------------
(* Generations after such a step. *)

(* The requests of delivery j that may still arrive are the same. *)
SameStrays(j) == \A m \in stray \cup stray' : m.key = j => m \in stray /\ m \in stray'

(* What the units know of delivery j is the same. *)
SameRuns(j) ==
    rec'[j] = rec[j] /\ archive'[j] = archive[j] /\ prompts'[j] = prompts[j]

LEMMA KeptGenerations ==
    ASSUME NEW j \in Keys, GenerationsOf(j), gens'[j] = gens[j], unit' = unit,
           phase'[j] = phase[j], pin'[j] = pin[j], post'[j] = post[j], ticket'[j].gen = ticket[j].gen,
           SameStrays(j), SameRuns(j)
    PROVE  GenerationsOf(j)'
  BY DEF GenerationsOf, OnlyAt, Unsent, SameStrays, SameRuns

(* A runner moves and nothing is sent or taken. *)
LEMMA QuietGenerations ==
    ASSUME NEW k \in Keys, GenerationsOf(k), gens'[k] = gens[k], unit' = unit,
           ticket'[k].gen = ticket[k].gen, SameStrays(k), SameRuns(k),
           phase'[k] \in Early => phase[k] \in Early,
           phase'[k] = "sent" =>
               \/ phase[k] \in Early
               \/ phase[k] = "sent" /\ (post'[k] = post[k] \/ post[k] # "held"),
           phase'[k] \in Sending => phase[k] \in Early \/ (phase[k] \in Sending /\ pin'[k] = pin[k])
    PROVE  GenerationsOf(k)'
  <1>1. UNCHANGED <<unit>> /\ \A g : Unsent(k, g) => Unsent(k, g)'
    BY DEF Unsent, SameStrays, SameRuns
  <1>2. \A g, i : OnlyAt(k, g, i) => OnlyAt(k, g, i)'
    BY DEF OnlyAt, SameStrays, SameRuns
  <1>3. \A g, i : Unsent(k, g) => OnlyAt(k, g, i)
    BY DEF OnlyAt, Unsent
  <1>4. /\ phase'[k] \in Early => Unsent(k, ticket[k].gen)'
        /\ phase'[k] = "sent" /\ post'[k] # "held" => Unsent(k, ticket[k].gen)'
    BY <1>1 DEF GenerationsOf
  <1>5. phase'[k] \in Sending => OnlyAt(k, ticket[k].gen, pin[k])'
    <2>1. CASE phase[k] \in Early
      BY <1>2, <1>3, <2>1 DEF GenerationsOf
    <2>2. CASE phase[k] \in Sending /\ pin'[k] = pin[k]
      BY <1>2, <2>2 DEF GenerationsOf
    <2>3. QED
      BY <2>1, <2>2
  <1>6. /\ rec'[k].gen <= gens'[k] /\ archive'[k].gen <= gens'[k]
        /\ rec'[k].st \in Live => rec'[k].gen # 0
        /\ unit' = 0 => rec'[k] = NoRec
    BY DEF GenerationsOf, SameRuns
  <1>7. /\ \A p \in prompts'[k] : p[2] <= gens'[k] /\ OnlyAt(k, p[2], p[1])'
        /\ \A m \in stray' : m.key = k => m.gen <= gens'[k] /\ OnlyAt(k, m.gen, m.inst)'
    BY <1>2 DEF GenerationsOf, SameRuns, SameStrays
  <1>8. QED
    BY <1>4, <1>5, <1>6, <1>7 DEF GenerationsOf

(* A request of generation g to instance i is left alone. *)
LEMMA StrayGenerations ==
    ASSUME NEW k \in Keys, GenerationsOf(k), gens'[k] = gens[k], unit' = unit, SameRuns(k),
           ticket'[k].gen = ticket[k].gen, NEW g, NEW i, OnlyAt(k, g, i), g <= gens[k],
           stray \subseteq stray', \A m \in stray' \ stray : m.key = k => m.gen = g /\ m.inst = i,
           phase'[k] \in {"resolve", "observe"},
           phase'[k] = "resolve" => pin'[k] = i /\ ticket[k].gen = g
    PROVE  GenerationsOf(k)'
  <1>1. ASSUME NEW h, NEW l, OnlyAt(k, h, l), h = g => l = i
        PROVE  OnlyAt(k, h, l)'
    BY <1>1 DEF OnlyAt, SameRuns
  <1>2. \A p \in prompts[k] : p[2] = g => p[1] = i
    BY DEF OnlyAt
  <1>3. \A m \in stray' : m.key = k => (m.gen = g => m.inst = i) /\ m.gen <= gens[k]
    BY DEF OnlyAt, GenerationsOf
  <1>4. \A p \in prompts'[k] : p[2] <= gens'[k] /\ OnlyAt(k, p[2], p[1])'
    BY <1>1, <1>2 DEF GenerationsOf, SameRuns
  <1>5. ASSUME NEW m \in stray', m.key = k
        PROVE  m.gen <= gens'[k] /\ OnlyAt(k, m.gen, m.inst)'
    <2>1. CASE m \in stray
      BY <1>1, <1>3, <1>5, <2>1 DEF GenerationsOf
    <2>2. CASE m \notin stray
      BY <1>1, <1>3, <1>5, <2>2
    <2>3. QED
      BY <2>1, <2>2
  <1>6. OnlyAt(k, g, i)'
    BY <1>1
  <1>7. QED
    BY <1>4, <1>5, <1>6 DEF GenerationsOf, SameRuns, Early, Sending

(* The unit goes on with a run that it knows. *)
LEMMA RunGenerations ==
    ASSUME UnitTypes, NEW k \in Keys, GenerationsOf(k), gens'[k] = gens[k], unit' = unit,
           phase'[k] = phase[k], pin'[k] = pin[k], post'[k] = post[k], ticket'[k].gen = ticket[k].gen,
           stray' = stray, archive'[k] = archive[k],
           rec[k] # NoRec, rec'[k].gen = rec[k].gen, rec'[k].st \in Live => rec[k].st \in Live,
           \/ prompts'[k] = prompts[k]
           \/ prompts'[k] = prompts[k] \cup {<<unit, rec[k].gen>>} /\ rec[k].st \in Live
    PROVE  GenerationsOf(k)'
  <1> DEFINE sent == <<unit, rec[k].gen>>
  <1>1. sent[1] = unit /\ sent[2] = rec[k].gen
    OBVIOUS
  <1> HIDE DEF sent
  <1>2. \A p \in prompts'[k] : p \in prompts[k] \/ (p = sent /\ rec[k].st \in Live)
    BY DEF sent
  <1>3. ASSUME NEW h, NEW l, OnlyAt(k, h, l)
        PROVE  OnlyAt(k, h, l)'
    BY <1>1, <1>2, <1>3 DEF OnlyAt
  <1>4. rec[k].st \in Live => OnlyAt(k, rec[k].gen, unit)
    BY DEF OnlyAt, GenerationsOf
  <1>5. ASSUME NEW p \in prompts'[k]
        PROVE  p[2] <= gens'[k] /\ OnlyAt(k, p[2], p[1])'
    BY <1>1, <1>2, <1>3, <1>4 DEF GenerationsOf
  <1>6. \A m \in stray' : m.key = k => m.gen <= gens'[k] /\ OnlyAt(k, m.gen, m.inst)'
    BY <1>3 DEF GenerationsOf
  <1>7. \A g : Unsent(k, g) => Unsent(k, g)'
    BY <1>1, <1>2 DEF Unsent
  <1>8. /\ rec'[k].gen <= gens'[k] /\ archive'[k].gen <= gens'[k]
        /\ rec'[k].st \in Live => rec'[k].gen # 0
        /\ unit' # 0
    BY DEF GenerationsOf
  <1>9. /\ phase'[k] \in Early => Unsent(k, ticket[k].gen)'
        /\ phase'[k] = "sent" /\ post'[k] # "held" => Unsent(k, ticket[k].gen)'
        /\ phase'[k] \in Sending => OnlyAt(k, ticket[k].gen, pin[k])'
    BY <1>3, <1>7 DEF GenerationsOf
  <1>10. QED
    BY <1>5, <1>6, <1>8, <1>9 DEF GenerationsOf

(* The unit i takes a request of generation g. *)
LEMMA TakenGenerations ==
    ASSUME NEW k \in Keys, GenerationsOf(k), gens'[k] = gens[k], unit' = unit, unit # 0,
           phase'[k] = phase[k], pin'[k] = pin[k], ticket'[k].gen = ticket[k].gen,
           stray' \subseteq stray, archive'[k] = archive[k], prompts'[k] = prompts[k],
           NEW g, g # 0, g <= gens[k], OnlyAt(k, g, unit), rec'[k].gen = g,
           \/ phase[k] \in Sending /\ ticket[k].gen = g /\ pin[k] = unit
                /\ (phase[k] = "sent" => post'[k] = "held")
           \/ post'[k] = post[k] /\ (phase[k] \in Early => ticket[k].gen # g)
                /\ (phase[k] = "sent" /\ post[k] # "held" => ticket[k].gen # g)
                /\ (phase[k] \in Sending /\ ticket[k].gen = g => pin[k] = unit)
    PROVE  GenerationsOf(k)'
  <1>1. ASSUME NEW h, NEW l, OnlyAt(k, h, l), h = g => l = unit
        PROVE  OnlyAt(k, h, l)'
    BY <1>1 DEF OnlyAt
  <1>2. ASSUME NEW h, Unsent(k, h), h # g
        PROVE  Unsent(k, h)'
    BY <1>2 DEF Unsent
  <1>3. \A p \in prompts'[k] : p[2] <= gens'[k] /\ OnlyAt(k, p[2], p[1])'
    <2>1. \A p \in prompts[k] : p[2] = g => p[1] = unit
      BY DEF OnlyAt
    <2>2. QED
      BY <1>1, <2>1 DEF GenerationsOf
  <1>4. \A m \in stray' : m.key = k => m.gen <= gens'[k] /\ OnlyAt(k, m.gen, m.inst)'
    <2>1. \A m \in stray : m.key = k /\ m.gen = g => m.inst = unit
      BY DEF OnlyAt
    <2>2. QED
      BY <1>1, <2>1 DEF GenerationsOf
  <1>5. /\ phase'[k] \in Early => Unsent(k, ticket[k].gen)'
        /\ phase'[k] = "sent" /\ post'[k] # "held" => Unsent(k, ticket[k].gen)'
    BY <1>2 DEF GenerationsOf, Early, Sending
  <1>6. phase'[k] \in Sending => OnlyAt(k, ticket[k].gen, pin[k])'
    BY <1>1 DEF GenerationsOf
  <1>7. QED
    BY <1>3, <1>4, <1>5, <1>6 DEF GenerationsOf

-----------------------------------------------------------------------------
(* Holders after such a step. *)

Holding == Sending \cup {"observe"}

(* Nothing in the published unit needs the runner of delivery k. *)
Releasable(k) ==
    active # 0 /\ unit = active =>
        /\ rec[k].st \notin Live
        /\ \A m \in stray : m.key = k /\ m.inst = unit => rec[k] # NoRec

LEMMA QuietHolding ==
    ASSUME NEW k \in Keys, HoldingOf(k), unit' = unit, active' = active,
           ticket'[k].gen = ticket[k].gen, SameStrays(k), SameRuns(k),
           \/ phase[k] \notin Holding
           \/ phase'[k] \in Holding /\ pin'[k] = pin[k]
           \/ Releasable(k)
    PROVE  HoldingOf(k)'
  BY DEF HoldingOf, Holds, Holding, Releasable, SameStrays, SameRuns

LEMMA StrayHolding ==
    ASSUME NEW k \in Keys, HoldingOf(k), unit' = unit, active' = active,
           ticket'[k].gen = ticket[k].gen, SameRuns(k),
           stray \subseteq stray',
           \A m \in stray' \ stray : m.key = k => m.gen = ticket[k].gen /\ m.inst = pin[k],
           phase'[k] \in Holding, pin'[k] = pin[k]
    PROVE  HoldingOf(k)'
  BY DEF HoldingOf, Holds, Holding, SameRuns

LEMMA RunHolding ==
    ASSUME NEW k \in Keys, HoldingOf(k), unit' = unit, active' = active, stray' = stray,
           phase'[k] = phase[k], pin'[k] = pin[k], ticket'[k].gen = ticket[k].gen,
           archive'[k] = archive[k], rec[k] # NoRec, rec'[k] # NoRec,
           rec'[k].gen = rec[k].gen, rec'[k].st \in Live => rec[k].st \in Live,
           rec'[k].st = "accepted" => rec'[k].started = "pending",
           rec'[k].st = "running" => rec'[k].started = "yes"
    PROVE  HoldingOf(k)'
  BY DEF HoldingOf, Holds

LEMMA TakenHolding ==
    ASSUME NEW k \in Keys, HoldingOf(k), unit' = unit, active' = active, stray' \subseteq stray,
           phase'[k] = phase[k], pin'[k] = pin[k], ticket'[k].gen = ticket[k].gen,
           archive'[k] = archive[k], NEW g,
           rec'[k] = [st |-> "accepted", gen |-> g, started |-> "pending"],
           active # 0 /\ unit = active => Holds(k, g, unit)
    PROVE  HoldingOf(k)'
  <1>1. rec'[k] # NoRec /\ rec'[k].st = "accepted" /\ rec'[k].gen = g /\ rec'[k].started = "pending"
    BY DEF NoRec
  <1>2. QED
    BY <1>1 DEF HoldingOf, Holds

-----------------------------------------------------------------------------
(* Started after such a step. *)

LEMMA QuietStarted ==
    ASSUME NEW k \in Keys, StartedOf(k), begun \subseteq begun', mix' = mix,
           rec'[k].started = "yes" \/ archive'[k].started = "yes" =>
               rec[k].started = "yes" \/ archive[k].started = "yes" \/ k \in begun',
           ticket'[k].started = "yes" => ticket[k].started = "yes" \/ k \in begun' \/ mix.kind[k] = "script"
    PROVE  StartedOf(k)'
  BY DEF StartedOf

(* Who waits for a task hears of it for as long as its ticket is known. *)
LEMMA QuietBridge ==
    ASSUME NEW k \in Keys, BridgeOf(k), bridge'[k] = bridge[k], exec'[k] = exec[k],
           \/ /\ ticket[k].started = "yes" => ticket'[k].started = "yes"
              /\ Known(k) => Known(k)'
           \/ \A w \in Waiters : ~Inside(k, w)
    PROVE  BridgeOf(k)'
  <1>1. \A w \in Waiters : Inside(k, w)' <=> Inside(k, w)
    BY DEF Inside
  <1>2. \A w \in Waiters : exec'[k][w].at = "working" => Inside(k, w)
    BY DEF Inside
  <1>3. QED
    BY <1>1, <1>2 DEF BridgeOf

-----------------------------------------------------------------------------
(* Steps of one delivery. *)

(* The control and the units; the sources and the bridge come on top. *)
Core ==
    /\ BookTypes /\ UnitTypes
    /\ BookOK /\ GenerationsOK /\ HoldingOK
    /\ \A k \in Keys : StartedOf(k)

SourcesOK == SourceTypes /\ ConsumerOK /\ AckedWasStarted
WaitersOK == BridgeTypes /\ BridgeOK

LEMMA InvParts ==
    /\ IInv <=> Core /\ SourcesOK /\ WaitersOK
    /\ IInv' <=> Core' /\ SourcesOK' /\ WaitersOK'
  <1>1. IInv <=> Core /\ SourcesOK /\ WaitersOK
    BY TypeParts DEF IInv, Core, SourcesOK, WaitersOK, StartedOK
  <1>2. IInv' <=> Core' /\ SourcesOK' /\ WaitersOK'
    BY TypeParts DEF IInv, Core, SourcesOK, WaitersOK, StartedOK
  <1>3. QED
    BY <1>1, <1>2

LEMMA KeptCore ==
    ASSUME Core, NEW j \in Keys, Kept(j), gens'[j] = gens[j], mix' = mix, unit' = unit, active' = active,
           SameStrays(j), SameRuns(j), begun \subseteq begun'
    PROVE  GenerationsOf(j)' /\ HoldingOf(j)' /\ StartedOf(j)'
  <1>1. GenerationsOf(j) /\ HoldingOf(j) /\ StartedOf(j)
    BY DEF Core, GenerationsOK, HoldingOK
  <1>2. /\ ticket'[j] = ticket[j] /\ phase'[j] = phase[j] /\ pin'[j] = pin[j] /\ post'[j] = post[j]
        /\ rec'[j] = rec[j] /\ archive'[j] = archive[j]
    BY DEF Kept, SameRuns
  <1>3. GenerationsOf(j)'
    BY <1>1, <1>2, KeptGenerations
  <1>4. HoldingOf(j)'
    BY <1>1, <1>2, QuietHolding
  <1>5. StartedOf(j)'
    BY <1>1, <1>2, QuietStarted
  <1>6. QED
    BY <1>3, <1>4, <1>5

LEMMA CoreStep ==
    ASSUME Core, NEW k \in Keys, NEW p, NEW i \in Nat, NEW r, Runs(k, p, i, r),
           control \notin {"down", "adopting"}, i <= made,
           UnitTypes', BookOf(k)', GenerationsOf(k)', HoldingOf(k)', StartedOf(k)',
           \A j \in Keys \ {k} : SameStrays(j) /\ SameRuns(j),
           unit' = unit, made' = made, begun \subseteq begun',
           \A m \in stray' \ stray : m.inst <= made
    PROVE  Core'
  <1>1. BookTypes' /\ gens' = gens /\ mix' = mix /\ active' = active /\ lost' = lost
    BY DEF Runs
  <1>2. BookOK'
    BY BookFrame DEF Core
  <1>3. \A j \in Keys : GenerationsOf(j)' /\ HoldingOf(j)' /\ StartedOf(j)'
    <2>1. ASSUME NEW j \in Keys \ {k}
          PROVE  GenerationsOf(j)' /\ HoldingOf(j)' /\ StartedOf(j)'
      <3>1. Kept(j) /\ SameStrays(j) /\ SameRuns(j)
        BY DEF Runs
      <3>2. QED
        BY <1>1, <3>1, KeptCore
    <2>2. QED
      BY <2>1
  <1>4. InstancesOK'
    <2>1. \A j \in Keys : pin'[j] <= made'
      BY DEF Runs, Kept, Core, GenerationsOK, InstancesOK
    <2>2. \A m \in stray' : m.inst <= made'
      BY DEF Core, GenerationsOK, InstancesOK
    <2>3. QED
      BY <1>1, <2>1, <2>2 DEF Core, GenerationsOK, InstancesOK
  <1>5. QED
    BY <1>1, <1>2, <1>3, <1>4 DEF Core, GenerationsOK, HoldingOK

LEMMA SourcesRest ==
    ASSUME SourcesOK, UNCHANGED <<event, con, firing, mix>>, begun \subseteq begun'
    PROVE  SourcesOK'
  BY DEF SourcesOK, SourceTypes, ConsumerOK, AckedWasStarted

LEMMA WaitersRest ==
    ASSUME WaitersOK, UNCHANGED <<exec, bridge>>,
           \A k \in Keys :
              \/ /\ ticket[k].started = "yes" => ticket'[k].started = "yes"
                 /\ Known(k) => Known(k)'
              \/ \A w \in Waiters : ~Inside(k, w)
    PROVE  WaitersOK'
  <1>1. \A k \in Keys : bridge'[k] = bridge[k] /\ exec'[k] = exec[k]
    OBVIOUS
  <1>2. \A k \in Keys : BridgeOf(k)'
    BY <1>1, QuietBridge DEF WaitersOK, BridgeOK
  <1>3. QED
    BY <1>2 DEF WaitersOK, BridgeOK, BridgeTypes

(* What the units and the channels have is left alone. *)
UnitsRest == UNCHANGED <<unit, made, rec, archive, prompts, begun>> /\ UnitTypes'
ChannelsRest == UNCHANGED <<event, con, firing, exec, bridge>>

LEMMA RestRuns ==
    ASSUME UnitsRest, NEW j
    PROVE  SameRuns(j) /\ unit' = unit /\ made' = made /\ begun' = begun /\ UnitTypes'
  BY DEF UnitsRest, SameRuns

LEMMA PinIsMade ==
    ASSUME Core, NEW k \in Keys
    PROVE  /\ pin[k] \in Nat /\ pin[k] <= made /\ active \in Nat /\ active <= made
           /\ unit \in Nat /\ made \in Nat /\ 0 <= made
           /\ BookOf(k) /\ GenerationsOf(k) /\ HoldingOf(k) /\ StartedOf(k)
           /\ ticket[k] \in TicketType /\ rec[k] \in RecType /\ archive[k] \in RecType
  BY DispatchAssumption
     DEF Core, BookTypes, UnitTypes, BookOK, GenerationsOK, InstancesOK, HoldingOK

(* A delivery is over. *)
LEMMA EndsKeeps ==
    ASSUME IInv, NEW k \in Keys, Ends(k), phase[k] # "idle", Releasable(k),
           UnitsRest, ChannelsRest
    PROVE  IInv'
  <1>1. Core /\ SourcesOK /\ WaitersOK
    BY InvParts
  <1>2. /\ Runs(k, "idle", 0, "none") /\ stray' = stray /\ ticket'[k].gen = ticket[k].gen
        /\ ticket'[k].owner = ticket[k].owner /\ ticket'[k].elapsed = ticket[k].elapsed
        /\ ticket'[k].started = "yes" <=> ticket[k].started = "yes"
        /\ phase'[k] = "idle" /\ gens' = gens /\ mix' = mix /\ active' = active
        /\ \A j \in Keys \ {k} : ticket'[j] = ticket[j]
    BY DEF Ends, Runs, Kept
  <1>3. BookOf(k)'
    BY <1>1, EndsBook DEF Core, BookOK
  <1>4. SameStrays(k) /\ \A j \in Keys \ {k} : SameStrays(j) /\ SameRuns(j)
    BY <1>2, RestRuns DEF SameStrays
  <1>5. GenerationsOf(k)'
    BY <1>1, <1>2, <1>4, PinIsMade, RestRuns, QuietGenerations DEF Early, Sending
  <1>6. HoldingOf(k)'
    BY <1>1, <1>2, <1>4, PinIsMade, RestRuns, QuietHolding
  <1>7. StartedOf(k)'
    BY <1>1, <1>2, PinIsMade, RestRuns, QuietStarted DEF SameRuns
  <1>8. Core'
    <2>1. control \notin {"down", "adopting"} /\ 0 \in Nat /\ 0 <= made /\ begun \subseteq begun'
      BY <1>1, WorkIsServed, PinIsMade, RestRuns DEF Core
    <2>2. \A m \in stray' \ stray : m.inst <= made
      BY <1>2
    <2>3. QED
      BY <1>1, <1>2, <1>3, <1>4, <1>5, <1>6, <1>7, <2>1, <2>2, RestRuns, CoreStep
  <1>9. SourcesOK'
    BY <1>1, <1>2, RestRuns, SourcesRest DEF ChannelsRest
  <1>10. WaitersOK'
    <2>1. ~ticket[k].elapsed
      BY <1>1, PinIsMade DEF BookOf
    <2>2. Known(k) => Known(k)'
      BY <1>2, <2>1 DEF Known
    <2>3. \A j \in Keys \ {k} : Known(j) => Known(j)'
      BY <1>2 DEF Known, Over
    <2>4. QED
      BY <1>1, <1>2, <2>2, <2>3, WaitersRest DEF ChannelsRest
  <1>11. QED
    BY <1>8, <1>9, <1>10, InvParts

(* A step of one delivery that keeps its ticket. *)
LEMMA OneDelivery ==
    ASSUME IInv, NEW k \in Keys, NEW p, NEW i \in Nat, NEW r, Runs(k, p, i, r),
           phase[k] # "idle" \/ ticket[k] # NoTicket, i <= made,
           \/ /\ ticket[k].started = "yes" => ticket'[k].started = "yes"
              /\ Known(k) => Known(k)'
           \/ \A w \in Waiters : ~Inside(k, w),
           UnitTypes', BookOf(k)', GenerationsOf(k)', HoldingOf(k)', StartedOf(k)',
           \A j \in Keys \ {k} : SameStrays(j) /\ SameRuns(j),
           unit' = unit, made' = made, begun \subseteq begun',
           \A m \in stray' \ stray : m.inst <= made,
           ChannelsRest
    PROVE  IInv'
  <1>1. Core /\ SourcesOK /\ WaitersOK
    BY InvParts
  <1>2. /\ mix' = mix
        /\ \A j \in Keys \ {k} : ticket'[j] = ticket[j]
    BY DEF Runs, Kept
  <1>3. Core'
    <2>1. control \notin {"down", "adopting"}
      BY <1>1, WorkIsServed DEF Core
    <2>2. QED
      BY <1>1, <2>1, CoreStep
  <1>4. SourcesOK'
    BY <1>1, <1>2, SourcesRest DEF ChannelsRest
  <1>5. WaitersOK'
    <2>1. \A j \in Keys \ {k} : Known(j) => Known(j)'
      BY <1>2 DEF Known, Over
    <2>2. QED
      BY <1>1, <1>2, <2>1, WaitersRest DEF ChannelsRest
  <1>6. QED
    BY <1>3, <1>4, <1>5, InvParts

(* A runner goes on, and nothing is left on the wire or taken by a unit. *)
LEMMA AdvancesKeeps ==
    ASSUME IInv, NEW k \in Keys, NEW p \in Phases \ {"idle"}, NEW i \in Nat, NEW r,
           Advances(k, p, i, r), phase[k] # "idle", i <= made, BookOK',
           p \in Early => phase[k] \in Early,
           p = "sent" => phase[k] \in Early \/ (phase[k] = "sent" /\ r = post[k]),
           p \in Sending => phase[k] \in Early \/ (phase[k] \in Sending /\ i = pin[k]),
           phase[k] \notin Holding \/ (p \in Holding /\ i = pin[k]),
           UnitsRest, ChannelsRest
    PROVE  IInv'
  <1>1. Core
    BY InvParts
  <1>2. /\ Runs(k, p, i, r) /\ stray' = stray /\ ticket' = ticket
        /\ phase'[k] = p /\ pin'[k] = i /\ post'[k] = r
        /\ gens' = gens /\ mix' = mix /\ active' = active
    BY DEF Advances, Runs
  <1>3. SameStrays(k) /\ SameRuns(k) /\ \A j \in Keys \ {k} : SameStrays(j) /\ SameRuns(j)
    BY <1>2, RestRuns DEF SameStrays
  <1>4. GenerationsOf(k)'
    BY <1>1, <1>2, <1>3, PinIsMade, RestRuns, QuietGenerations
  <1>5. HoldingOf(k)'
    BY <1>1, <1>2, <1>3, PinIsMade, RestRuns, QuietHolding
  <1>6. StartedOf(k)'
    BY <1>1, <1>2, PinIsMade, RestRuns, QuietStarted DEF SameRuns
  <1>7. BookOf(k)' /\ (Known(k) => Known(k)')
    BY <1>2 DEF BookOK, Known, Over
  <1>8. begun \subseteq begun' /\ unit' = unit /\ made' = made /\ UnitTypes'
    BY RestRuns
  <1>9. \A m \in stray' \ stray : m.inst <= made
    BY <1>2
  <1>10. QED
    BY <1>2, <1>3, <1>4, <1>5, <1>6, <1>7, <1>8, <1>9, OneDelivery

(* A runner stops waiting for its request. *)
LEMMA AbandonsKeeps ==
    ASSUME IInv, NEW k \in Keys, NEW p \in ({"observe"} \cup Sending) \ {"sent", "resent"},
           phase[k] \in {"send"} \cup Sending, Abandons(k, p),
           p \in {"observe", "resolve"} \/ (post[k] = "none" /\ phase[k] \in Sending),
           UnitsRest, ChannelsRest
    PROVE  IInv'
  <1>1. Core
    BY InvParts
  <1>2. /\ Runs(k, p, pin[k], "none") /\ ticket' = ticket /\ stray \subseteq stray'
        /\ phase'[k] = p /\ pin'[k] = pin[k] /\ post'[k] = "none"
        /\ gens' = gens /\ mix' = mix /\ active' = active
        /\ \A m \in stray' \ stray : post[k] = "wire" /\ m.key = k /\ m.inst = pin[k] /\ m.gen = ticket[k].gen
    BY DEF Abandons, Runs
  <1>3. \A j \in Keys \ {k} : SameStrays(j) /\ SameRuns(j)
    BY <1>2, RestRuns DEF SameStrays
  <1>4. /\ BookOf(k) /\ GenerationsOf(k) /\ HoldingOf(k) /\ StartedOf(k)
        /\ pin[k] \in Nat /\ pin[k] <= made
    BY <1>1, PinIsMade
  <1>5. phase[k] # "idle" /\ ticket[k].owner = "own" /\ ticket[k].gen = gens[k] /\ gens[k] \in Nat
    BY <1>1, <1>4, PinIsMade, DispatchAssumption DEF BookOf, Sending, TicketType, Core, BookTypes
  <1>6. OnlyAt(k, ticket[k].gen, pin[k])
    BY <1>4 DEF GenerationsOf, OnlyAt, Unsent, Early
  <1>7. GenerationsOf(k)'
    <2>1. CASE p \in {"observe", "resolve"}
      <3>1. ticket[k].gen <= gens[k]
        BY <1>5
      <3>2. QED
        BY <1>2, <1>4, <1>6, <2>1, <3>1, RestRuns, StrayGenerations
    <2>2. CASE p \notin {"observe", "resolve"}
      <3>1. SameStrays(k)
        BY <1>2, <2>2 DEF SameStrays
      <3>2. p \notin Early /\ p # "sent" /\ phase[k] \in Sending
        BY <2>2 DEF Early, Sending
      <3>3. QED
        BY <1>2, <1>4, <3>1, <3>2, RestRuns, QuietGenerations
    <2>3. QED
      BY <2>1, <2>2
  <1>8. HoldingOf(k)'
    <2>1. p \in Holding
      BY DEF Holding
    <2>2. QED
      BY <1>2, <1>4, <2>1, RestRuns, StrayHolding
  <1>9. StartedOf(k)'
    BY <1>2, <1>4, RestRuns, QuietStarted DEF SameRuns
  <1>10. BookOf(k)' /\ (Known(k) => Known(k)')
    <2>1. BookOK'
      BY <1>1, AbandonsBook DEF Core
    <2>2. QED
      BY <1>2, <2>1 DEF BookOK, Known, Over
  <1>11. begun \subseteq begun' /\ unit' = unit /\ made' = made /\ UnitTypes'
    BY RestRuns
  <1>12. \A m \in stray' \ stray : m.inst <= made
    BY <1>2, <1>4
  <1>13. QED
    BY <1>2, <1>3, <1>4, <1>5, <1>7, <1>8, <1>9, <1>10, <1>11, <1>12, OneDelivery

-----------------------------------------------------------------------------
(* The steps of a runner. *)

LEMMA UnitsRestBy ==
    ASSUME Core, UNCHANGED <<unitVars, gateway, prompts, begun>>,
           faults' = faults \/ (\E f \in Faults : Fault(f)),
           outcome' = outcome \/ (\E k \in Keys : \E how \in {"known", "unknown"} : Record(k, how))
    PROVE  UnitsRest
  <1>1. UnitTypes
    BY DEF Core
  <1>2. faults' \in 0..MaxFaults
    BY <1>1, FaultType DEF UnitTypes
  <1>3. outcome' \in [Keys -> SUBSET {"known", "unknown"}]
    BY <1>1 DEF UnitTypes, Record
  <1>4. QED
    BY <1>1, <1>2, <1>3 DEF UnitsRest, UnitTypes, unitVars

LEMMA FinishKeeps ==
    ASSUME IInv, NEW k \in Keys, NEW how \in {"ok", "failed"}, Finish(k, how), phase[k] # "idle",
           Releasable(k), stray' = stray, mix' = mix, procs' \in {procs, procs \ {k}},
           phase[k] \in {"hooking", "script"} => procs' = procs \ {k},
           UnitsRest, ChannelsRest
    PROVE  IInv'
  <1>1. Core /\ BookOf(k) /\ BookTypes
    BY InvParts, PinIsMade DEF Core
  <1>2. procs' = procs \ {k}
    BY <1>1 DEF BookOf
  <1>3. QED
    BY <1>1, <1>2, FinishEnds, EndsKeeps

(* Before the first send nothing needs the runner. *)
LEMMA EarlyReleasable ==
    ASSUME IInv, NEW k \in Keys, phase[k] \notin Holding
    PROVE  Releasable(k)
  <1>1. HoldingOf(k)
    BY InvParts, PinIsMade
  <1>2. QED
    BY <1>1 DEF HoldingOf, Holds, Holding, Releasable

LEMMA EarlyEnds ==
    ASSUME IInv, NEW k \in Keys,
           \/ Expire(k) \/ StartTimesOut(k) \/ HookFails(k) \/ PrepareFails(k) \/ ImportFails(k)
           \/ ScriptSpawnFails(k) \/ ScriptExits(k) \/ ScriptTimesOut(k)
    PROVE  IInv'
  <1>1. Core
    BY InvParts
  <1>2. CASE Expire(k) \/ StartTimesOut(k) \/ HookFails(k)
    <2>1. /\ phase[k] \in Early /\ Finish(k, "failed") /\ stray' = stray /\ mix' = mix
          /\ procs' \in {procs, procs \ {k}} /\ (phase[k] = "hooking" => procs' = procs \ {k})
          /\ ChannelsRest /\ UNCHANGED <<unitVars, gateway, faults, auxVars>>
      BY <1>2 DEF Expire, StartTimesOut, HookFails, Early, ChannelsRest, cvars
    <2>2. UnitsRest
      BY <1>1, <2>1, UnitsRestBy DEF auxVars
    <2>3. phase[k] # "idle" /\ phase[k] \notin Holding /\ phase[k] # "script"
      BY <2>1 DEF Early, Holding, Sending
    <2>4. QED
      BY <2>1, <2>2, <2>3, EarlyReleasable, FinishKeeps
  <1>3. CASE PrepareFails(k) \/ ImportFails(k)
    <2>1. /\ phase[k] \in {"prepare", "import"} /\ Finish(k, "failed") /\ stray' = stray /\ mix' = mix
          /\ procs' = procs /\ (faults' = faults \/ Fault("prepare"))
          /\ ChannelsRest /\ UNCHANGED <<unitVars, gateway, auxVars>>
      BY <1>3 DEF PrepareFails, ImportFails, RequestFails, ChannelsRest, cvars
    <2>2. UnitsRest
      BY <1>1, <2>1, UnitsRestBy DEF auxVars, Fault
    <2>3. phase[k] # "idle" /\ phase[k] \notin Holding /\ phase[k] \notin {"hooking", "script"}
      BY <2>1 DEF Holding, Sending
    <2>4. QED
      BY <2>1, <2>2, <2>3, EarlyReleasable, FinishKeeps
  <1>4. CASE ScriptSpawnFails(k) \/ ScriptExits(k) \/ ScriptTimesOut(k)
    <2>1. /\ phase[k] \in {"spawn", "script"} /\ stray' = stray /\ mix' = mix
          /\ procs' \in {procs, procs \ {k}} /\ (phase[k] = "script" => procs' = procs \ {k})
          /\ faults' = faults \/ Fault("spawn")
          /\ ChannelsRest /\ UNCHANGED <<unitVars, gateway, auxVars>>
      BY <1>4 DEF ScriptSpawnFails, ScriptExits, ScriptTimesOut, ChannelsRest, cvars
    <2>2. UnitsRest
      BY <1>1, <2>1, UnitsRestBy DEF auxVars, Fault
    <2>3. phase[k] # "idle" /\ phase[k] \notin Holding /\ phase[k] # "hooking"
      BY <2>1 DEF Holding, Sending
    <2>4. \E how \in {"ok", "failed"} : Finish(k, how)
      BY <1>4 DEF ScriptSpawnFails, ScriptExits, ScriptTimesOut
    <2>5. QED
      BY <2>1, <2>2, <2>3, <2>4, EarlyReleasable, FinishKeeps
  <1>5. QED
    BY <1>2, <1>3, <1>4

(* The end of a run was reported, or its instance is lost. *)
LEMMA ObservedEnds ==
    ASSUME IInv, NEW k \in Keys, PollFinal(k) \/ OwnerLost(k)
    PROVE  IInv'
  <1>1. Core /\ HoldingOf(k)
    BY InvParts, PinIsMade
  <1>2. /\ phase[k] = "observe" /\ (Finish(k, "ok") \/ Finish(k, "failed"))
        /\ stray' = stray /\ mix' = mix /\ procs' = procs
        /\ ChannelsRest /\ UNCHANGED <<unitVars, gateway, faults, prompts, begun>>
        /\ Record(k, "known") \/ Record(k, "unknown")
    BY DEF PollFinal, OwnerLost, ChannelsRest, cvars
  <1>3. UnitsRest
    BY <1>1, <1>2, UnitsRestBy
  <1>4. Releasable(k)
    <2>1. CASE PollFinal(k)
      <3>1. rec[k].st \in Finals
        BY <2>1 DEF PollFinal
      <3>2. rec[k].st \notin Live /\ rec[k] # NoRec
        BY <3>1 DEF Finals, Live, NoRec
      <3>3. QED
        BY <3>2 DEF Releasable
    <2>2. CASE OwnerLost(k)
      <3>1. active # 0 => active # pin[k]
        BY <1>1, <2>2 DEF OwnerLost, Core, GenerationsOK, InstancesOK
      <3>2. QED
        BY <1>1, <3>1 DEF HoldingOf, Holds, Releasable
    <2>3. QED
      BY <2>1, <2>2
  <1>5. QED
    BY <1>2, <1>3, <1>4, FinishKeeps

LEMMA AbandonKeeps ==
    ASSUME IInv, NEW k \in Keys, NEW p \in ({"observe"} \cup Sending) \ {"sent", "resent"},
           phase[k] \in {"send"} \cup Sending, Abandon(k, p),
           p \in {"observe", "resolve"} \/ (post[k] = "none" /\ phase[k] \in Sending),
           mix' = mix, procs' = procs, UnitsRest, ChannelsRest
    PROVE  IInv'
  <1>1. Core /\ BookOf(k) /\ BookTypes
    BY InvParts, PinIsMade DEF Core
  <1>2. phase[k] \in Pinned /\ phase[k] # "observe" /\ phase[k] # "idle"
    BY DEF Pinned, Sending
  <1>3. pin[k] # 0 /\ ticket[k].gen # 0
    BY <1>1, <1>2, PinIsMade DEF BookOf, TicketType
  <1>4. p \in Phases
    BY DEF Phases, Sending
  <1>5. Abandons(k, p)
    BY <1>1, <1>3, <1>4, AbandonAbandons
  <1>6. QED
    BY <1>5, AbandonsKeeps

LEMMA MoveKeeps ==
    ASSUME IInv, NEW k \in Keys, NEW p \in {"check", "recheck", "resend"}, Move(k, p),
           phase[k] \in {"resolve", "check", "recheck"}, stray' = stray,
           mix' = mix, procs' = procs, UnitsRest, ChannelsRest
    PROVE  IInv'
  <1>1. Core /\ BookOf(k) /\ BookTypes
    BY InvParts, PinIsMade DEF Core
  <1>2. post[k] = "none"
    BY <1>1 DEF BookOf
  <1>3. Advances(k, p, pin[k], "none") /\ prepared' = prepared
    BY <1>1, <1>2, MoveAdvances DEF Phases, BookTypes
  <1>4. Abandons(k, p)
    BY <1>2, <1>3 DEF Advances, Abandons
  <1>5. p \in Sending \ {"sent", "resent"} /\ phase[k] \in Sending
    BY DEF Sending
  <1>6. QED
    BY <1>2, <1>4, <1>5, AbandonsKeeps

(* The request of a runner fails, is answered in vain, or is given up. *)
LEMMA RequestSteps ==
    ASSUME IInv, NEW k \in Keys,
           ConnectFails(k) \/ MismatchAnswer(k) \/ LoseAnswer(k) \/ SendTimesOut(k)
    PROVE  IInv'
  <1>1. Core /\ BookOf(k)
    BY InvParts, PinIsMade
  <1>2. phase[k] \in {"send"} \cup Sending
    BY <1>1 DEF ConnectFails, MismatchAnswer, LoseAnswer, SendTimesOut, BookOf, Sending
  <1>3. Abandon(k, "observe") \/ Abandon(k, "resolve")
    BY DEF ConnectFails, MismatchAnswer, LoseAnswer, SendTimesOut, Ambiguous, OutcomeUnknown
  <1>4. /\ mix' = mix /\ procs' = procs /\ ChannelsRest
        /\ UNCHANGED <<unitVars, gateway, auxVars>>
        /\ faults' = faults \/ Fault("answer")
    BY DEF ConnectFails, MismatchAnswer, LoseAnswer, SendTimesOut, ChannelsRest, cvars
  <1>5. UnitsRest
    BY <1>1, <1>4, UnitsRestBy DEF auxVars, Fault
  <1>6. "observe" \in ({"observe"} \cup Sending) \ {"sent", "resent"}
        /\ "resolve" \in ({"observe"} \cup Sending) \ {"sent", "resent"}
    BY DEF Sending
  <1>7. QED
    BY <1>2, <1>3, <1>4, <1>5, <1>6, AbandonKeeps

LEMMA LoseRequestStep ==
    ASSUME IInv, NEW k \in Keys, LoseRequest(k)
    PROVE  IInv'
  <1>1. Core /\ BookOf(k) /\ BookTypes
    BY InvParts, PinIsMade DEF Core
  <1>2. phase[k] \in {"sent", "resent"}
    BY <1>1 DEF LoseRequest, BookOf
  <1> DEFINE p == IF phase[k] = "sent" THEN "resolve" ELSE "observe"
  <1>3. /\ phase' = [phase EXCEPT ![k] = p] /\ post' = [post EXCEPT ![k] = "none"]
        /\ UNCHANGED <<mix, procs, control, ticket, gens, pin, prepared, active, lost, stray>>
        /\ UNCHANGED <<unitVars, gateway, auxVars>> /\ Fault("request") /\ ChannelsRest
    BY <1>1 DEF LoseRequest, ChannelsRest, cvars, BookTypes
  <1>4. p \in {"observe", "resolve"} /\ p \in ({"observe"} \cup Sending) \ {"sent", "resent"}
    BY DEF Sending
  <1> HIDE DEF p
  <1>5. /\ phase' \in [Keys -> Phases] /\ post' \in [Keys -> Posts]
        /\ phase'[k] = p /\ post'[k] = "none"
        /\ \A j \in Keys \ {k} : phase'[j] = phase[j] /\ post'[j] = post[j]
    BY <1>1, <1>3, <1>4 DEF BookTypes, Phases, Posts
  <1>6. BookTypes'
    BY <1>1, <1>3, <1>5 DEF BookTypes
  <1>7. Abandons(k, p)
    BY <1>3, <1>5, <1>6 DEF Abandons, Runs, Kept
  <1>8. UnitsRest
    BY <1>1, <1>3, UnitsRestBy DEF auxVars, Fault
  <1>9. phase[k] \in {"send"} \cup Sending
    BY <1>2 DEF Sending
  <1>10. QED
    BY <1>3, <1>4, <1>7, <1>8, <1>9, AbandonsKeeps

(* An ambiguous Start is resolved step by step. *)
LEMMA ResolveSteps ==
    ASSUME IInv, NEW k \in Keys, Resolve(k) \/ Check(k) \/ Recheck(k)
    PROVE  IInv'
  <1>1. Core
    BY InvParts
  <1>2. /\ phase[k] \in {"resolve", "check", "recheck"}
        /\ mix' = mix /\ procs' = procs /\ ChannelsRest
        /\ UNCHANGED <<unitVars, gateway, faults, auxVars>>
    BY DEF Resolve, Check, Recheck, ChannelsRest, cvars
  <1>3. \/ Abandon(k, "observe")
        \/ stray' = stray /\ \E p \in {"check", "recheck", "resend"} : Move(k, p)
    BY DEF Resolve, Check, Recheck, OutcomeUnknown
  <1>4. UnitsRest
    BY <1>1, <1>2, UnitsRestBy DEF auxVars
  <1>5. phase[k] \in {"send"} \cup Sending
    BY <1>2 DEF Sending
  <1>6. CASE Abandon(k, "observe")
    BY <1>2, <1>4, <1>5, <1>6, AbandonKeeps
  <1>7. CASE stray' = stray /\ \E p \in {"check", "recheck", "resend"} : Move(k, p)
    BY <1>2, <1>4, <1>7, MoveKeeps
  <1>8. QED
    BY <1>3, <1>6, <1>7

(* A first send that was not accepted leaves nothing behind. *)
LEMMA RejectedStep ==
    ASSUME IInv, NEW k \in Keys, RejectedAnswer(k)
    PROVE  IInv'
  <1>1. Core /\ BookOf(k) /\ GenerationsOf(k) /\ HoldingOf(k)
    BY InvParts, PinIsMade
  <1>2. /\ mix' = mix /\ procs' = procs /\ ChannelsRest
        /\ UNCHANGED <<unitVars, gateway, faults, auxVars>>
        /\ post[k] \in {"refused", "conflict"} \/ (post[k] = "held" /\ rec[k].started = "failed")
    BY DEF RejectedAnswer, ChannelsRest, cvars
  <1>3. UnitsRest
    BY <1>1, <1>2, UnitsRestBy DEF auxVars
  <1>4. phase[k] \in {"sent", "resent"} /\ phase[k] \in {"send"} \cup Sending
    BY <1>1, <1>2 DEF BookOf, Sending
  <1>5. CASE phase[k] = "sent"
    <2>1. Finish(k, "failed") /\ stray' = stray
      BY <1>5 DEF RejectedAnswer
    <2>2. Releasable(k)
      <3>1. CASE post[k] = "held" /\ rec[k].started = "failed"
        <4>1. rec[k].st \notin Live /\ rec[k] # NoRec
          BY <1>1, <3>1 DEF HoldingOf, Live, NoRec
        <4>2. QED
          BY <4>1 DEF Releasable
      <3>2. CASE post[k] # "held"
        <4>1. Unsent(k, ticket[k].gen)
          BY <1>1, <1>5, <3>2 DEF GenerationsOf
        <4>2. QED
          BY <1>1, <4>1 DEF Unsent, HoldingOf, Holds, Releasable
      <3>3. QED
        BY <1>2, <3>1, <3>2
    <2>3. QED
      BY <1>2, <1>3, <1>5, <2>1, <2>2, FinishKeeps
  <1>6. CASE phase[k] # "sent"
    <2>1. Abandon(k, "observe")
      BY <1>6 DEF RejectedAnswer, OutcomeUnknown
    <2>2. QED
      BY <1>2, <1>3, <1>4, <2>1, AbandonKeeps
  <1>7. QED
    BY <1>5, <1>6

LEMMA OwnTicket ==
    ASSUME Core, NEW k \in Keys, phase[k] \notin {"idle", "observe"}
    PROVE  ticket[k].owner = "own" /\ ticket[k] # NoTicket /\ ~Over(k) /\ ~ticket[k].elapsed
  <1>1. BookOf(k) /\ ticket[k].owner \in {"none", "own", "recovered"}
    BY PinIsMade DEF TicketType
  <1>2. QED
    BY <1>1 DEF BookOf, NoTicket

(* On the way to the first send. *)
LEMMA EarlySteps ==
    ASSUME IInv, NEW k \in Keys,
           \/ Begin(k) \/ Ensure(k) \/ HookStarts(k) \/ HookExits(k) \/ Import(k)
    PROVE  IInv'
  <1>1. Core /\ BookOf(k) /\ BookTypes /\ BookOK
    BY InvParts, PinIsMade DEF Core
  <1>2. /\ mix' = mix /\ stray' = stray /\ ChannelsRest
        /\ UNCHANGED <<control, ticket, gens, post, active, lost>>
        /\ UNCHANGED <<unitVars, gateway, faults, auxVars>>
    BY DEF Begin, Ensure, HookStarts, HookExits, Import, Move, ChannelsRest, cvars
  <1>3. UnitsRest
    BY <1>1, <1>2, UnitsRestBy DEF auxVars
  <1>4. phase[k] \in {"queued", "ensure", "hook", "hooking", "import"}
    BY DEF Begin, Ensure, HookStarts, HookExits, Import
  <1>5. ticket[k].owner = "own" /\ post[k] = "none"
    BY <1>1, <1>4, OwnTicket DEF BookOf
  <1> DEFINE Goes(p, i) ==
                /\ Advances(k, p, i, "none")
                /\ p \in Early \cup {"spawn"} /\ i \in Nat /\ i <= made
                /\ p \in Pinned => i # 0
                /\ p = "send" => k \in prepared'
                /\ k \in procs' <=> p = "hooking"
                /\ p = "spawn" => mix.kind[k] = "script"
  <1>6. \E p, i : Goes(p, i)
    <2>1. CASE Begin(k)
      <3> DEFINE p == IF mix.kind[k] = "script" THEN "spawn" ELSE "ensure"
      <3>1. Move(k, p) /\ procs' = procs /\ p \in Phases
        BY <2>1 DEF Begin, cvars, Phases
      <3>2. Advances(k, p, pin[k], "none")
        BY <1>1, <1>2, <1>5, <3>1, MoveAdvances DEF BookTypes
      <3>3. phase[k] = "queued"
        BY <2>1 DEF Begin
      <3>4. k \notin procs'
        BY <1>1, <3>1, <3>3 DEF BookOf
      <3>5. Goes(p, pin[k])
        BY <1>1, <3>2, <3>4, PinIsMade DEF Early, Pinned, Sending
      <3>6. QED
        BY <3>5
    <2>2. CASE Ensure(k)
      <3>1. /\ phase' = [phase EXCEPT ![k] = "prepare"] /\ pin' = [pin EXCEPT ![k] = active]
            /\ prepared' = prepared /\ procs' = procs /\ active # 0 /\ phase[k] = "ensure"
        BY <2>2 DEF Ensure, cvars
      <3>2. /\ phase' \in [Keys -> Phases] /\ pin' \in [Keys -> 0..MaxInst]
            /\ phase'[k] = "prepare" /\ pin'[k] = active
            /\ \A j \in Keys \ {k} : phase'[j] = phase[j] /\ pin'[j] = pin[j]
        BY <1>1, <3>1 DEF BookTypes, Phases
      <3>3. BookTypes'
        BY <1>1, <1>2, <3>1, <3>2 DEF BookTypes
      <3>4. Advances(k, "prepare", active, "none")
        BY <1>2, <1>5, <3>1, <3>2, <3>3 DEF Advances, Runs, Kept
      <3>5. k \notin procs'
        BY <1>1, <3>1 DEF BookOf
      <3>6. Goes("prepare", active)
        BY <1>1, <3>1, <3>4, <3>5, PinIsMade DEF Early, Pinned, Sending
      <3>7. QED
        BY <3>6
    <2>3. CASE HookStarts(k) \/ HookExits(k)
      <3> DEFINE p == IF phase[k] = "hook" THEN "hooking" ELSE "import"
      <3>1. /\ Move(k, p) /\ p \in Phases /\ phase[k] \in {"hook", "hooking"}
            /\ procs' = IF phase[k] = "hook" THEN procs \cup {k} ELSE procs \ {k}
        BY <2>3 DEF HookStarts, HookExits, Phases
      <3>2. procs' \subseteq Keys /\ \A j \in Keys \ {k} : j \in procs' <=> j \in procs
        BY <1>1, <3>1 DEF BookTypes
      <3>3. Advances(k, p, pin[k], "none")
        BY <1>1, <1>2, <1>5, <3>1, <3>2, MoveAdvances
      <3>4. pin[k] # 0 /\ (k \in procs' <=> p = "hooking")
        BY <1>1, <3>1 DEF BookOf, Pinned
      <3>5. Goes(p, pin[k])
        BY <1>1, <3>1, <3>3, <3>4, PinIsMade DEF Early
      <3>6. QED
        BY <3>5
    <2>4. CASE Import(k)
      <3>1. /\ phase' = [phase EXCEPT ![k] = "send"] /\ pin' = pin
            /\ prepared' = prepared \cup {k} /\ procs' = procs /\ phase[k] = "import"
        BY <2>4 DEF Import, cvars
      <3>2. /\ phase' \in [Keys -> Phases] /\ phase'[k] = "send"
            /\ \A j \in Keys \ {k} : phase'[j] = phase[j]
        BY <1>1, <3>1 DEF BookTypes, Phases
      <3>3. BookTypes'
        BY <1>1, <1>2, <3>1, <3>2 DEF BookTypes
      <3>4. Advances(k, "send", pin[k], "none")
        BY <1>2, <1>5, <3>1, <3>2, <3>3 DEF Advances, Runs, Kept
      <3>5. k \notin procs' /\ pin[k] # 0
        BY <1>1, <3>1 DEF BookOf, Pinned
      <3>6. Goes("send", pin[k])
        BY <1>1, <3>1, <3>4, <3>5, PinIsMade DEF Early
      <3>7. QED
        BY <3>6
    <2>5. QED
      BY <2>1, <2>2, <2>3, <2>4
  <1>7. PICK p, i : Goes(p, i)
    BY <1>6
  <1>8. p \in Phases \ {"idle"} /\ p \notin Sending /\ p \notin {"observe", "sent", "resent", "script"}
    BY <1>7 DEF Early, Phases, Sending
  <1>9. BookOK'
    BY <1>1, <1>4, <1>5, <1>7, <1>8, AdvancesBook
  <1>10. phase[k] \in Early /\ phase[k] \notin Holding /\ phase[k] # "idle"
    BY <1>4 DEF Early, Holding, Sending
  <1>11. QED
    BY <1>2, <1>3, <1>7, <1>8, <1>9, <1>10, AdvancesKeeps

(* A Start is sent, for the first or the second time. *)
LEMMA SendStep ==
    ASSUME IInv, NEW k \in Keys, Send(k)
    PROVE  IInv'
  <1>1. Core /\ BookOf(k) /\ BookTypes /\ BookOK
    BY InvParts, PinIsMade DEF Core
  <1> DEFINE p == IF phase[k] = "send" THEN "sent" ELSE "resent"
  <1>2. /\ mix' = mix /\ stray' = stray /\ ChannelsRest /\ procs' = procs
        /\ UNCHANGED <<control, ticket, gens, pin, prepared, active, lost>>
        /\ UNCHANGED <<unitVars, gateway, faults, auxVars>>
        /\ phase[k] \in {"send", "resend"}
        /\ phase' = [phase EXCEPT ![k] = p] /\ post' = [post EXCEPT ![k] = "wire"]
    BY <1>1 DEF Send, ChannelsRest, cvars, BookTypes
  <1>3. UnitsRest
    BY <1>1, <1>2, UnitsRestBy DEF auxVars
  <1>4. p \in Phases \ {"idle"} /\ p \in {"sent", "resent"} /\ (p = "sent" <=> phase[k] = "send")
    BY <1>2 DEF Phases
  <1> HIDE DEF p
  <1>5. /\ phase' \in [Keys -> Phases] /\ post' \in [Keys -> Posts]
        /\ phase'[k] = p /\ post'[k] = "wire"
        /\ \A j \in Keys \ {k} : phase'[j] = phase[j] /\ post'[j] = post[j]
    BY <1>1, <1>2, <1>4 DEF BookTypes, Posts
  <1>6. BookTypes'
    BY <1>1, <1>2, <1>5 DEF BookTypes
  <1>7. Advances(k, p, pin[k], "wire")
    BY <1>2, <1>5, <1>6 DEF Advances, Runs, Kept
  <1>8. ticket[k].owner = "own" /\ pin[k] # 0 /\ k \in prepared' /\ k \notin procs'
    BY <1>1, <1>2, OwnTicket DEF BookOf, Pinned, Sending
  <1>9. BookOK'
    BY <1>1, <1>2, <1>4, <1>7, <1>8, AdvancesBook
  <1>10. /\ p \notin Early /\ (phase[k] \in Early \/ phase[k] \in Sending)
         /\ (p = "sent" => phase[k] \in Early) /\ p \in Holding /\ phase[k] # "idle"
         /\ pin[k] \in Nat /\ pin[k] <= made
    BY <1>1, <1>2, <1>4, PinIsMade DEF Early, Sending, Holding
  <1>11. QED
    BY <1>2, <1>3, <1>4, <1>7, <1>9, <1>10, AdvancesKeeps

(* Marks on a ticket: the deadline, the cancel, the window. *)
Marked(k, tk) ==
    /\ ticket' = [ticket EXCEPT ![k] = tk] /\ tk \in TicketType
    /\ tk.owner = ticket[k].owner /\ tk.gen = ticket[k].gen
    /\ tk.started = ticket[k].started /\ tk.completed = ticket[k].completed
    /\ tk.elapsed => Over(k)
    /\ UNCHANGED <<mix, control, gens, phase, pin, post, prepared, active, lost, stray, procs>>

LEMMA MarkedBook ==
    ASSUME Core, NEW k \in Keys, NEW tk, Marked(k, tk), ticket[k].owner # "none"
    PROVE  /\ Runs(k, phase[k], pin[k], post[k]) /\ BookOf(k)'
           /\ ticket'[k].gen = ticket[k].gen /\ ticket'[k].started = ticket[k].started
           /\ ticket[k] # NoTicket
           /\ ~tk.elapsed => (Known(k) => Known(k)')
  <1>1. BookOf(k) /\ BookTypes
    BY PinIsMade DEF Core
  <1>2. ticket' \in [Keys -> TicketType] /\ ticket'[k] = tk
        /\ \A j \in Keys \ {k} : ticket'[j] = ticket[j]
    BY <1>1 DEF Marked, BookTypes
  <1>3. BookTypes'
    BY <1>1, <1>2 DEF Marked, BookTypes
  <1>4. Runs(k, phase[k], pin[k], post[k])
    BY <1>2, <1>3 DEF Marked, Runs, Kept
  <1>5. BookOf(k)'
    BY <1>1, <1>2 DEF Marked, BookOf, Over
  <1>6. ~tk.elapsed => (Known(k) => Known(k)')
    BY <1>2 DEF Marked, Known, Over
  <1>7. QED
    BY <1>2, <1>4, <1>5, <1>6 DEF Marked, NoTicket

LEMMA MarkedKeeps ==
    ASSUME IInv, NEW k \in Keys, NEW tk, Marked(k, tk), ticket[k].owner # "none",
           tk.elapsed => \A w \in Waiters : ~Inside(k, w),
           UnitTypes', GenerationsOf(k)', HoldingOf(k)', StartedOf(k)',
           \A j \in Keys \ {k} : SameRuns(j),
           unit' = unit, made' = made, begun' = begun, ChannelsRest
    PROVE  IInv'
  <1>1. Core
    BY InvParts
  <1>2. /\ Runs(k, phase[k], pin[k], post[k]) /\ BookOf(k)' /\ ticket[k] # NoTicket
        /\ ticket'[k].started = ticket[k].started /\ (~tk.elapsed => (Known(k) => Known(k)'))
    BY <1>1, MarkedBook
  <1>3. stray' = stray
    BY DEF Marked
  <1>4. \A j \in Keys \ {k} : SameStrays(j)
    BY <1>3 DEF SameStrays
  <1>5. pin[k] \in Nat /\ pin[k] <= made
    BY <1>1, PinIsMade
  <1>6. QED
    BY <1>2, <1>3, <1>4, <1>5, OneDelivery

LEMMA MarkSteps ==
    ASSUME IInv, NEW k \in Keys, DeadlinePasses(k) \/ WindowPasses(k)
    PROVE  IInv'
  <1>1. Core /\ ticket[k] \in TicketType /\ BookOf(k) /\ BookTypes
    BY InvParts, PinIsMade DEF Core
  <1> DEFINE tk == IF DeadlinePasses(k) THEN [ticket[k] EXCEPT !.late = TRUE]
                   ELSE [ticket[k] EXCEPT !.elapsed = TRUE]
  <1>2. /\ tk \in TicketType /\ tk.owner = ticket[k].owner /\ tk.gen = ticket[k].gen
        /\ tk.started = ticket[k].started /\ tk.completed = ticket[k].completed
        /\ tk.elapsed => ticket[k].elapsed \/ WindowPasses(k)
    BY <1>1 DEF TicketType
  <1>3. ticket' = [ticket EXCEPT ![k] = tk]
    BY <1>1 DEF DeadlinePasses, WindowPasses, WindowElapses, BookTypes, TicketType
  <1>4. /\ UNCHANGED <<mix, control, gens, phase, pin, post, prepared, active, lost, stray, procs>>
        /\ UNCHANGED <<unitVars, gateway, faults, auxVars>> /\ ChannelsRest
    BY DEF DeadlinePasses, WindowPasses, WindowElapses, cvars, ChannelsRest
  <1>5. WindowPasses(k) => Over(k) /\ \A w \in Waiters : ~Inside(k, w)
    BY DEF WindowPasses, WindowElapses
  <1>6. ticket[k].elapsed => Over(k) /\ ~DeadlinePasses(k)
    BY <1>1 DEF BookOf, DeadlinePasses
  <1> HIDE DEF tk
  <1>7. Marked(k, tk)
    BY <1>2, <1>3, <1>4, <1>5, <1>6 DEF Marked
  <1>8. ticket[k].owner # "none"
    <2>1. NoTicket.completed = "pending"
      BY DEF NoTicket
    <2>2. Over(k) => ticket[k] # NoTicket
      BY <2>1 DEF Over
    <2>3. QED
      BY <1>1, <1>5, <2>2 DEF DeadlinePasses, BookOf
  <1>9. UnitsRest
    BY <1>1, <1>4, UnitsRestBy DEF auxVars
  <1>10. tk.elapsed => \A w \in Waiters : ~Inside(k, w)
    BY <1>2, <1>5, <1>6
  <1>11. /\ ticket'[k].gen = ticket[k].gen /\ ticket'[k].started = ticket[k].started
    BY <1>1, <1>7, <1>8, MarkedBook
  <1>12. GenerationsOf(k)' /\ HoldingOf(k)' /\ StartedOf(k)'
    <2>1. GenerationsOf(k) /\ HoldingOf(k) /\ StartedOf(k) /\ SameRuns(k) /\ SameStrays(k)
      BY <1>1, <1>4, <1>9, PinIsMade, RestRuns DEF SameStrays
    <2>2. GenerationsOf(k)'
      BY <1>4, <1>9, <1>11, <2>1, RestRuns, KeptGenerations
    <2>3. HoldingOf(k)'
      BY <1>4, <1>9, <1>11, <2>1, RestRuns, QuietHolding
    <2>4. StartedOf(k)'
      BY <1>4, <1>9, <1>11, <2>1, RestRuns, QuietStarted DEF SameRuns
    <2>5. QED
      BY <2>2, <2>3, <2>4
  <1>13. QED
    BY <1>4, <1>7, <1>8, <1>9, <1>10, <1>12, RestRuns, MarkedKeeps

-----------------------------------------------------------------------------
(* The steps of a unit. *)

LEMMA OneRun ==
    ASSUME IInv, NEW k \in Keys, UNCHANGED <<mix, ctlVars, procs>>, stray' \subseteq stray,
           UnitTypes', GenerationsOf(k)', HoldingOf(k)', StartedOf(k)',
           \A j \in Keys \ {k} : SameStrays(j) /\ SameRuns(j),
           unit' = unit, made' = made, begun \subseteq begun', ChannelsRest
    PROVE  IInv'
  <1>1. Core /\ SourcesOK /\ WaitersOK
    BY InvParts
  <1>2. UNCHANGED <<control, ticket, gens, phase, pin, post, prepared, active, lost>>
    BY DEF ctlVars
  <1>3. BookTypes' /\ BookOK'
    BY <1>1, <1>2 DEF Core, BookTypes, BookOK, BookOf, BlankOK, Over
  <1>4. InstancesOK'
    BY <1>1, <1>2 DEF Core, GenerationsOK, InstancesOK
  <1>5. \A j \in Keys \ {k} : GenerationsOf(j)' /\ HoldingOf(j)' /\ StartedOf(j)'
    BY <1>1, <1>2, KeptCore DEF Kept
  <1>6. Core'
    BY <1>3, <1>4, <1>5 DEF Core, GenerationsOK, HoldingOK
  <1>7. SourcesOK'
    BY <1>1, SourcesRest DEF ChannelsRest
  <1>8. WaitersOK'
    <2>1. \A j \in Keys : Known(j) => Known(j)'
      BY <1>2 DEF Known, Over
    <2>2. QED
      BY <1>1, <1>2, <2>1, WaitersRest DEF ChannelsRest
  <1>9. QED
    BY <1>6, <1>7, <1>8, InvParts

(* The record of a run goes on to v. *)
Progress(k, v) ==
    /\ rec' = [rec EXCEPT ![k] = v] /\ v \in RecType
    /\ rec[k] # NoRec /\ v # NoRec /\ v.gen = rec[k].gen
    /\ v.st \in Live => rec[k].st \in Live
    /\ v.st = "accepted" => v.started = "pending"
    /\ v.st = "running" => v.started = "yes"
    /\ v.started = "yes" => rec[k].started = "yes" \/ k \in begun'

LEMMA ProgressKeeps ==
    ASSUME Core, NEW k \in Keys, NEW v, Progress(k, v),
           \/ prompts' = prompts
           \/ prompts' = [prompts EXCEPT ![k] = @ \cup {<<unit, rec[k].gen>>}] /\ rec[k].st \in Live,
           begun' \in {begun, begun \cup {k}}, faults' = faults \/ (\E f \in Faults : Fault(f)),
           UNCHANGED <<mix, unit, made, archive, gateway, outcome>>,
           gens'[k] = gens[k], phase'[k] = phase[k], pin'[k] = pin[k], post'[k] = post[k],
           ticket'[k].gen = ticket[k].gen, ticket'[k].started = ticket[k].started, stray' = stray,
           active' = active
    PROVE  /\ UnitTypes' /\ GenerationsOf(k)' /\ HoldingOf(k)' /\ StartedOf(k)'
           /\ \A j \in Keys \ {k} : SameRuns(j)
  <1>1. UnitTypes /\ GenerationsOf(k) /\ HoldingOf(k) /\ StartedOf(k) /\ unit \in Nat
        /\ rec[k] \in RecType
    BY PinIsMade DEF Core
  <1>2. rec' \in [Keys -> RecType] /\ rec'[k] = v /\ \A j \in Keys \ {k} : rec'[j] = rec[j]
    BY <1>1 DEF Progress, UnitTypes
  <1>3. rec[k].st \in Live => <<unit, rec[k].gen>> \in Insts \X Gens
    BY <1>1, DispatchAssumption DEF GenerationsOf, UnitTypes, RecType, Insts, Gens, Progress
  <1> DEFINE sent == <<unit, rec[k].gen>>
  <1> HIDE DEF sent
  <1>4. /\ prompts' \in [Keys -> SUBSET (Insts \X Gens)]
        /\ \A j \in Keys \ {k} : prompts'[j] = prompts[j]
        /\ \/ prompts'[k] = prompts[k]
           \/ prompts'[k] = prompts[k] \cup {sent} /\ rec[k].st \in Live
    <2>1. rec[k].st \in Live => sent \in Insts \X Gens
      BY <1>3 DEF sent
    <2>2. prompts' = prompts \/ (prompts' = [prompts EXCEPT ![k] = @ \cup {sent}] /\ rec[k].st \in Live)
      BY DEF sent
    <2>3. QED
      BY <1>1, <2>1, <2>2 DEF UnitTypes
  <1>5. UnitTypes'
    <2>1. faults' \in 0..MaxFaults /\ begun' \subseteq Keys
      BY <1>1, FaultType DEF UnitTypes
    <2>2. QED
      BY <1>1, <1>2, <1>4, <2>1 DEF UnitTypes
  <1>6. GenerationsOf(k)'
    <2>1. \/ prompts'[k] = prompts[k]
          \/ prompts'[k] = prompts[k] \cup {<<unit, rec[k].gen>>} /\ rec[k].st \in Live
      BY <1>4 DEF sent
    <2>2. rec[k] # NoRec /\ rec'[k].gen = rec[k].gen /\ (rec'[k].st \in Live => rec[k].st \in Live)
          /\ archive'[k] = archive[k]
      BY <1>2 DEF Progress
    <2>3. QED
      BY <1>1, <2>1, <2>2, RunGenerations
  <1>7. HoldingOf(k)'
    BY <1>1, <1>2, RunHolding DEF Progress
  <1>8. StartedOf(k)'
    <2>1. /\ rec'[k].started = "yes" \/ archive'[k].started = "yes" =>
               rec[k].started = "yes" \/ archive[k].started = "yes" \/ k \in begun'
          /\ begun \subseteq begun'
      BY <1>2 DEF Progress
    <2>2. QED
      BY <1>1, <2>1, QuietStarted
  <1>9. QED
    BY <1>2, <1>4, <1>5, <1>6, <1>7, <1>8 DEF SameRuns

LEMMA UnitSteps ==
    ASSUME IInv, NEW k \in Keys, UnitStep(k)
    PROVE  IInv'
  <1>1. Core /\ rec[k] \in RecType /\ UnitTypes /\ HoldingOf(k)
    BY InvParts, PinIsMade DEF Core
  <1>2. /\ UNCHANGED <<mix, ctlVars, stray, procs, unit, made, archive, gateway, outcome>>
        /\ ChannelsRest /\ rec[k].st \in Live
        /\ faults' = faults \/ Fault("uncertain")
        /\ begun' \in {begun, begun \cup {k}}
        /\ \/ prompts' = prompts
           \/ prompts' = [prompts EXCEPT ![k] = @ \cup {<<unit, rec[k].gen>>}]
    BY DEF UnitStep, RunStarts, RunEndsEarly, RunUncertain, RunEnds, ChannelsRest, cvars, auxVars, Live
  <1> DEFINE Becomes(v, s, t) ==
                /\ rec' = [rec EXCEPT ![k] = v] /\ v = [rec[k] EXCEPT !.st = s, !.started = t]
                /\ s \in {"running", "unknown"} \cup Finals /\ t \in {"pending", "yes", "failed"}
                /\ s = "running" => t = "yes"
                /\ t = "yes" => rec[k].started = "yes" \/ k \in begun'
  <1>3. \E v, s, t : Becomes(v, s, t)
    <2>1. CASE RunStarts(k)
      <3> DEFINE v == [rec[k] EXCEPT !.st = "running", !.started = "yes"]
      <3>1. rec' = [rec EXCEPT ![k] = v] /\ k \in begun'
        BY <1>1, <2>1 DEF RunStarts, UnitTypes, RecType
      <3>2. Becomes(v, "running", "yes")
        BY <3>1
      <3>3. QED
        BY <3>2
    <2>2. CASE RunEndsEarly(k)
      <3>1. PICK how \in {<<"skipped", "yes">>, <<"failed", "failed">>} :
               /\ rec' = [rec EXCEPT ![k] = [rec[k] EXCEPT !.st = how[1], !.started = how[2]]]
               /\ how[2] = "yes" => k \in begun'
        BY <1>1, <2>2 DEF RunEndsEarly, UnitTypes, RecType
      <3> DEFINE v == [rec[k] EXCEPT !.st = how[1], !.started = how[2]]
      <3>2. how[1] \in Finals /\ how[2] \in {"yes", "failed"} /\ how[1] # "running"
        BY DEF Finals
      <3>3. Becomes(v, how[1], how[2])
        BY <3>1, <3>2
      <3>4. QED
        BY <3>3
    <2>3. CASE RunUncertain(k)
      <3> DEFINE t == IF rec[k].started = "pending" THEN "failed" ELSE rec[k].started
                 v == [rec[k] EXCEPT !.st = "unknown", !.started = t]
      <3>1. rec' = [rec EXCEPT ![k] = v]
        BY <1>1, <2>3 DEF RunUncertain, UnitTypes, RecType
      <3>2. t \in {"pending", "yes", "failed"} /\ (t = "yes" => rec[k].started = "yes")
        BY <1>1 DEF RecType
      <3> HIDE DEF t
      <3>3. Becomes(v, "unknown", t)
        BY <3>1, <3>2
      <3>4. QED
        BY <3>3
    <2>4. CASE RunEnds(k)
      <3> DEFINE v == [rec[k] EXCEPT !.st = "completed", !.started = rec[k].started]
      <3>1. rec' = [rec EXCEPT ![k] = v] /\ rec[k].started \in {"pending", "yes", "failed"}
        BY <1>1, <2>4 DEF RunEnds, UnitTypes, RecType
      <3>2. Becomes(v, "completed", rec[k].started)
        BY <3>1 DEF Finals
      <3>3. QED
        BY <3>2
    <2>5. QED
      BY <2>1, <2>2, <2>3, <2>4 DEF UnitStep
  <1>4. PICK v, s, t : Becomes(v, s, t)
    BY <1>3
  <1>5. v \in RecType /\ v.st = s /\ v.started = t /\ v.gen = rec[k].gen /\ v # NoRec
    <2>1. v = [rec[k] EXCEPT !.st = s, !.started = t]
      BY <1>4
    <2>2. s \in {"running", "unknown"} \cup Finals /\ t \in {"pending", "yes", "failed"}
      BY <1>4
    <2>3. QED
      <3>1. v \in RecType /\ v.st = s /\ v.started = t /\ v.gen = rec[k].gen
        BY <1>1, <2>1, <2>2 DEF RecType
      <3>2. v # NoRec
        BY <2>2, <3>1 DEF NoRec, Finals
      <3>3. QED
        BY <3>1, <3>2
  <1>6. rec' = [rec EXCEPT ![k] = v] /\ rec[k] # NoRec /\ s # "accepted"
    BY <1>2, <1>4 DEF NoRec, Live, Finals
  <1>7. Progress(k, v)
    BY <1>2, <1>4, <1>5, <1>6 DEF Progress
  <1>8. /\ UNCHANGED <<gens, phase, pin, post, ticket, active>>
        /\ ((\E f \in Faults : Fault(f)) \/ faults' = faults)
    BY <1>2 DEF ctlVars, Fault
  <1>9. /\ UnitTypes' /\ GenerationsOf(k)' /\ HoldingOf(k)' /\ StartedOf(k)'
        /\ \A j \in Keys \ {k} : SameRuns(j)
    <2>1. UNCHANGED <<gens, phase, pin, post, ticket, active>>
      BY <1>2 DEF ctlVars
    <2>2. QED
      BY <1>1, <1>2, <1>7, <1>8, <2>1, ProgressKeeps
  <1>10. \A j \in Keys \ {k} : SameStrays(j)
    BY <1>2 DEF SameStrays
  <1>11. stray' \subseteq stray /\ begun \subseteq begun'
    BY <1>2
  <1>12. QED
    BY <1>2, <1>9, <1>10, <1>11, OneRun

(* The cancel at the deadline. *)
LEMMA SendCancelStep ==
    ASSUME IInv, NEW k \in Keys, SendCancel(k)
    PROVE  IInv'
  <1>1. Core /\ rec[k] \in RecType /\ UnitTypes /\ HoldingOf(k) /\ ticket[k] \in TicketType
        /\ BookOf(k) /\ BookTypes /\ GenerationsOf(k) /\ StartedOf(k)
    BY InvParts, PinIsMade DEF Core
  <1>2. /\ UNCHANGED <<mix, control, gens, phase, pin, post, prepared, active, lost, stray, procs>>
        /\ UNCHANGED <<unit, made, archive, gateway, faults, auxVars>> /\ ChannelsRest
        /\ phase[k] = "observe" /\ ticket' = [ticket EXCEPT ![k].cancelled = TRUE]
        /\ rec' = rec \/ (unit = pin[k] /\ rec' = [rec EXCEPT ![k] = Cancelled(@)])
    BY DEF SendCancel, ChannelsRest, cvars
  <1> DEFINE tk == [ticket[k] EXCEPT !.cancelled = TRUE]
  <1>3. /\ tk \in TicketType /\ tk.owner = ticket[k].owner /\ tk.gen = ticket[k].gen
        /\ tk.started = ticket[k].started /\ tk.completed = ticket[k].completed
        /\ tk.elapsed = ticket[k].elapsed
    BY <1>1 DEF TicketType
  <1>4. ticket' = [ticket EXCEPT ![k] = tk]
    BY <1>1, <1>2 DEF BookTypes, TicketType
  <1> HIDE DEF tk
  <1>5. Marked(k, tk) /\ ticket[k].owner # "none" /\ ~tk.elapsed
    BY <1>1, <1>2, <1>3, <1>4 DEF Marked, BookOf
  <1>6. ticket'[k].gen = ticket[k].gen /\ ticket'[k].started = ticket[k].started
    BY <1>1, <1>5, MarkedBook
  <1>7. /\ UnitTypes' /\ GenerationsOf(k)' /\ HoldingOf(k)' /\ StartedOf(k)'
        /\ \A j \in Keys \ {k} : SameRuns(j)
    <2>1. CASE rec' = rec
      <3>1. UnitsRest
        BY <1>1, <1>2, <2>1, UnitsRestBy DEF auxVars, unitVars
      <3>2. SameStrays(k) /\ \A j : SameRuns(j)
        BY <1>2, <3>1, RestRuns DEF SameStrays
      <3>3. GenerationsOf(k)'
        BY <1>1, <1>2, <1>6, <3>2, KeptGenerations
      <3>4. HoldingOf(k)'
        BY <1>1, <1>2, <1>6, <3>2, QuietHolding
      <3>5. StartedOf(k)'
        BY <1>1, <1>2, <1>6, <3>2, QuietStarted DEF SameRuns, auxVars
      <3>6. QED
        BY <3>1, <3>2, <3>3, <3>4, <3>5, RestRuns
    <2>2. CASE rec[k].st \in Live /\ rec' = [rec EXCEPT ![k] = Cancelled(@)]
      <3> DEFINE t == IF rec[k].started = "pending" THEN "failed" ELSE rec[k].started
                 v == [rec[k] EXCEPT !.st = "cancelled", !.started = t]
      <3>1. t \in {"pending", "yes", "failed"} /\ (t = "yes" => rec[k].started = "yes")
        BY <1>1 DEF RecType
      <3>2. rec' = [rec EXCEPT ![k] = v]
        BY <1>1, <2>2 DEF Cancelled, Live, UnitTypes, RecType
      <3> HIDE DEF t
      <3>3. v \in RecType /\ v.st = "cancelled" /\ v.started = t /\ v.gen = rec[k].gen /\ v # NoRec
        <4>1. v \in RecType /\ v.st = "cancelled" /\ v.started = t /\ v.gen = rec[k].gen
          BY <1>1, <3>1 DEF RecType, Finals
        <4>2. NoRec.st = "none"
          BY DEF NoRec
        <4> HIDE DEF v
        <4>3. QED
          BY <4>1, <4>2
      <3>4. rec[k] # NoRec
        BY <2>2 DEF NoRec, Live
      <3> HIDE DEF v
      <3>5. Progress(k, v)
        BY <3>1, <3>2, <3>3, <3>4 DEF Progress, Live
      <3>6. UNCHANGED <<prompts, begun, outcome>>
        BY <1>2 DEF auxVars
      <3>7. QED
        BY <1>1, <1>2, <1>6, <3>5, <3>6, ProgressKeeps
    <2>3. CASE rec[k].st \notin Live /\ rec' = [rec EXCEPT ![k] = Cancelled(@)]
      <3>1. rec' = rec
        BY <1>1, <2>3 DEF Cancelled, Live, UnitTypes
      <3>2. QED
        BY <2>1, <3>1
    <2>4. QED
      BY <1>2, <2>1, <2>2, <2>3
  <1>8. unit' = unit /\ made' = made /\ begun' = begun
    BY <1>2 DEF auxVars
  <1>9. QED
    BY <1>2, <1>5, <1>7, <1>8, MarkedKeeps

(* A session is restored with the runs of its archive, which are all over. *)
LEMMA RestoreStep ==
    ASSUME IInv, NEW k \in Keys, RestoreSession(k)
    PROVE  IInv'
  <1>1. /\ Core /\ BookOf(k) /\ BookTypes /\ BookOK /\ UnitTypes /\ GenerationsOf(k) /\ HoldingOf(k)
        /\ StartedOf(k)
    BY InvParts, PinIsMade DEF Core
  <1> DEFINE p == IF mix.kind[k] = "handoff" THEN "hook" ELSE "import"
  <1>2. /\ mix' = mix /\ stray' = stray /\ ChannelsRest /\ procs' = procs
        /\ UNCHANGED <<control, ticket, gens, pin, post, prepared, active, lost>>
        /\ UNCHANGED <<unit, made, archive, gateway, faults, auxVars>>
        /\ phase[k] = "prepare" /\ phase' = [phase EXCEPT ![k] = p]
        /\ rec' = rec \/ (Restored(k) /\ rec' = [rec EXCEPT ![k] = archive[k]])
    BY DEF RestoreSession, ChannelsRest, cvars
  <1>3. p \in Phases \ {"idle"} /\ p \in {"hook", "import"}
    BY DEF Phases
  <1> HIDE DEF p
  <1>4. /\ phase' \in [Keys -> Phases] /\ phase'[k] = p
        /\ \A j \in Keys \ {k} : phase'[j] = phase[j]
    BY <1>1, <1>2, <1>3 DEF BookTypes
  <1>5. BookTypes'
    BY <1>1, <1>2, <1>4 DEF BookTypes
  <1>6. ticket[k].owner = "own" /\ pin[k] # 0 /\ post[k] = "none" /\ k \notin procs
        /\ pin[k] \in Nat /\ pin[k] <= made /\ phase[k] \in Early /\ phase[k] \notin Holding
    BY <1>1, <1>2, OwnTicket, PinIsMade DEF BookOf, Pinned, Early, Holding, Sending
  <1>7. Advances(k, p, pin[k], "none")
    BY <1>2, <1>4, <1>5, <1>6 DEF Advances, Runs, Kept
  <1>8. p \notin Sending \cup {"observe", "send", "sent", "resent", "spawn", "script", "hooking"}
    BY <1>3 DEF Sending
  <1>9. BookOK'
    BY <1>1, <1>2, <1>3, <1>6, <1>7, <1>8, AdvancesBook
  <1>10. CASE rec' = rec
    <2>1. UnitsRest
      BY <1>1, <1>2, <1>10, UnitsRestBy DEF auxVars, unitVars
    <2>2. QED
      BY <1>2, <1>3, <1>6, <1>7, <1>8, <1>9, <2>1, AdvancesKeeps
  <1>11. CASE Restored(k) /\ rec' = [rec EXCEPT ![k] = archive[k]]
    <2>1. archive[k] \in RecType /\ archive[k].st \in Finals
      BY <1>1, <1>11 DEF UnitTypes, Restored
    <2>2. rec' \in [Keys -> RecType] /\ rec'[k] = archive[k] /\ \A j \in Keys \ {k} : rec'[j] = rec[j]
      BY <1>1, <1>11, <2>1 DEF UnitTypes
    <2>3. UnitTypes' /\ prompts' = prompts /\ begun' = begun
      BY <1>1, <1>2, <2>2 DEF UnitTypes, auxVars
    <2>4. rec'[k].st \notin Live /\ rec'[k] # NoRec
      BY <2>1, <2>2 DEF Live, Finals, NoRec
    <2>5. \A j \in Keys \ {k} : SameStrays(j) /\ SameRuns(j)
      BY <1>2, <2>2, <2>3 DEF SameStrays, SameRuns
    <2>6. GenerationsOf(k)'
      <3>1. \A g, i : OnlyAt(k, g, i) => OnlyAt(k, g, i)'
        BY <1>2, <2>3, <2>4 DEF OnlyAt
      <3>2. Unsent(k, ticket[k].gen)'
        BY <1>1, <1>2, <1>6, <2>2, <2>3 DEF Unsent, GenerationsOf
      <3>3. unit # 0
        BY <1>6 DEF RestoreSession
      <3>4. /\ \A q \in prompts'[k] : q[2] <= gens'[k] /\ OnlyAt(k, q[2], q[1])'
            /\ \A m \in stray' : m.key = k => m.gen <= gens'[k] /\ OnlyAt(k, m.gen, m.inst)'
        BY <1>1, <1>2, <2>3, <3>1 DEF GenerationsOf
      <3>5. QED
        BY <1>1, <1>2, <1>4, <1>8, <2>2, <2>4, <3>2, <3>3, <3>4 DEF GenerationsOf
    <2>7. HoldingOf(k)'
      <3>1. rec'[k].st # "accepted" /\ rec'[k].st # "running"
        BY <2>4 DEF Live
      <3>2. QED
        BY <1>1, <1>2, <2>4, <3>1 DEF HoldingOf
    <2>8. StartedOf(k)'
      BY <1>1, <1>2, <2>2, <2>3, QuietStarted
    <2>9. BookOf(k)' /\ (Known(k) => Known(k)') /\ Runs(k, p, pin[k], "none")
      BY <1>2, <1>7, <1>9 DEF BookOK, Known, Over, Advances
    <2>10. QED
      BY <1>2, <1>6, <2>3, <2>5, <2>6, <2>7, <2>8, <2>9, OneDelivery
  <1>12. QED
    BY <1>2, <1>10, <1>11

(* Started reaches the ticket: 202 of the unit, or the process of a script. *)
LEMMA StartedSteps ==
    ASSUME IInv, NEW k \in Keys, StartedAnswer(k) \/ ScriptSpawns(k)
    PROVE  IInv'
  <1>1. /\ Core /\ BookOf(k) /\ BookTypes /\ UnitTypes /\ GenerationsOf(k) /\ HoldingOf(k)
        /\ StartedOf(k) /\ ticket[k] \in TicketType
    BY InvParts, PinIsMade DEF Core
  <1> DEFINE tk == [ticket[k] EXCEPT !.started = "yes"]
             p == IF phase[k] = "spawn" THEN "script" ELSE "observe"
  <1>2. /\ mix' = mix /\ stray' = stray /\ ChannelsRest
        /\ UNCHANGED <<control, gens, pin, prepared, active, lost>>
        /\ UNCHANGED <<unitVars, gateway, faults, auxVars>>
    BY DEF StartedAnswer, ScriptSpawns, ChannelsRest, cvars
  <1>3. /\ phase[k] \in {"sent", "resent", "spawn"} /\ post[k] \in {"none", "held"}
        /\ phase[k] = "spawn" => post[k] = "none"
    BY <1>1 DEF StartedAnswer, ScriptSpawns, BookOf
  <1>4. /\ tk \in TicketType /\ tk.owner = ticket[k].owner /\ tk.gen = ticket[k].gen
        /\ tk.started = "yes" /\ tk.completed = ticket[k].completed /\ tk.elapsed = ticket[k].elapsed
    BY <1>1 DEF TicketType
  <1>5. /\ ticket' = [ticket EXCEPT ![k] = tk] /\ phase' = [phase EXCEPT ![k] = p]
        /\ post' = [post EXCEPT ![k] = "none"]
        /\ procs' = IF phase[k] = "spawn" THEN procs \cup {k} ELSE procs
    <2>1. CASE StartedAnswer(k)
      <3>1. phase[k] # "spawn"
        BY <1>1, <2>1 DEF StartedAnswer, BookOf
      <3>2. QED
        BY <1>1, <2>1, <3>1 DEF StartedAnswer, BookTypes, TicketType, cvars
    <2>2. CASE ScriptSpawns(k)
      <3>1. phase[k] = "spawn"
        BY <2>2 DEF ScriptSpawns
      <3>2. post' = [post EXCEPT ![k] = "none"]
        BY <1>1, <1>3, <2>2, <3>1 DEF ScriptSpawns, BookTypes
      <3>3. QED
        BY <1>1, <2>2, <3>1, <3>2 DEF ScriptSpawns, BookTypes, TicketType
    <2>3. QED
      BY <2>1, <2>2
  <1>6. p \in Phases /\ p \in {"script", "observe"} /\ (p = "script" <=> phase[k] = "spawn")
    BY DEF Phases
  <1> HIDE DEF p, tk
  <1>7. /\ ticket' \in [Keys -> TicketType] /\ phase' \in [Keys -> Phases] /\ post' \in [Keys -> Posts]
        /\ ticket'[k] = tk /\ phase'[k] = p /\ post'[k] = "none"
        /\ \A j \in Keys \ {k} : ticket'[j] = ticket[j] /\ phase'[j] = phase[j] /\ post'[j] = post[j]
    BY <1>1, <1>4, <1>5, <1>6 DEF BookTypes, Posts
  <1>8. BookTypes' /\ Runs(k, p, pin[k], "none")
    BY <1>1, <1>2, <1>5, <1>7 DEF BookTypes, Runs, Kept
  <1>9. ticket[k].owner = "own" /\ ticket[k] # NoTicket /\ ~Over(k) /\ phase[k] # "idle"
    BY <1>1, <1>3, OwnTicket
  <1>10. BookOf(k)'
    <2>1. p = "observe" => k \in prepared /\ pin[k] # 0
      BY <1>1, <1>3, <1>6, <1>9 DEF BookOf, Sending, Pinned
    <2>2. k \in procs' <=> p = "script"
      BY <1>1, <1>3, <1>5, <1>6 DEF BookOf
    <2>3. p = "script" => mix.kind[k] = "script"
      BY <1>1, <1>6 DEF BookOf
    <2>4. QED
      BY <1>1, <1>2, <1>4, <1>6, <1>7, <1>9, <2>1, <2>2, <2>3 DEF BookOf, Over, Pinned, Sending
  <1>11. UnitsRest
    BY <1>1, <1>2, UnitsRestBy DEF auxVars
  <1>12. (\A j \in Keys : SameStrays(j) /\ SameRuns(j)) /\ unit' = unit
    BY <1>2, <1>11, RestRuns DEF SameStrays
  <1>13. GenerationsOf(k)'
    <2>1. p \notin Early /\ p # "sent" /\ p \notin Sending
      BY <1>6 DEF Early, Sending
    <2>2. QED
      BY <1>1, <1>2, <1>4, <1>7, <1>12, <2>1, QuietGenerations
  <1>14. HoldingOf(k)'
    <2>1. phase[k] \notin Holding \/ p \in Holding
      BY <1>3, <1>6 DEF Holding, Sending
    <2>2. QED
      BY <1>1, <1>2, <1>4, <1>7, <1>12, <2>1, QuietHolding
  <1>15. StartedOf(k)'
    <2>1. k \in begun \/ mix.kind[k] = "script"
      BY <1>1 DEF StartedAnswer, ScriptSpawns, StartedOf, BookOf
    <2>2. QED
      BY <1>1, <1>2, <1>11, <1>12, <2>1, RestRuns, QuietStarted DEF SameRuns
  <1>16. (Known(k) => Known(k)') /\ ticket'[k].started = "yes"
    BY <1>4, <1>7 DEF Known, Over
  <1>17. pin[k] \in Nat /\ pin[k] <= made /\ stray' \ stray = {}
    BY <1>1, <1>2, PinIsMade
  <1>18. QED
    BY <1>2, <1>8, <1>9, <1>10, <1>11, <1>12, <1>13, <1>14, <1>15, <1>16, <1>17, RestRuns, OneDelivery

-----------------------------------------------------------------------------
(* A request arrives at the unit. *)

(* A record that is made for a request of generation g. *)
LEMMA TakenTypes ==
    ASSUME UnitTypes, NEW k \in Keys, NEW g \in 0..MaxGen,
           rec' = [rec EXCEPT ![k] = [st |-> "accepted", gen |-> g, started |-> "pending"]],
           faults' = faults, UNCHANGED <<unit, made, archive, gateway, auxVars>>
    PROVE  /\ UnitTypes'
           /\ rec'[k] = [st |-> "accepted", gen |-> g, started |-> "pending"]
           /\ rec'[k].gen = g /\ rec'[k].started = "pending"
           /\ \A j \in Keys \ {k} : SameRuns(j)
  <1> DEFINE v == [st |-> "accepted", gen |-> g, started |-> "pending"]
  <1>1. v \in RecType /\ v.gen = g /\ v.started = "pending"
    BY DEF RecType
  <1> HIDE DEF v
  <1>2. rec' \in [Keys -> RecType] /\ rec'[k] = v /\ \A j \in Keys \ {k} : rec'[j] = rec[j]
    BY <1>1 DEF UnitTypes, v
  <1>3. UnitTypes'
    BY <1>2 DEF UnitTypes, auxVars
  <1>4. QED
    BY <1>1, <1>2, <1>3 DEF SameRuns, auxVars, v

LEMMA ArriveStep ==
    ASSUME IInv, NEW k \in Keys, Arrive(k)
    PROVE  IInv'
  <1>1. /\ Core /\ BookOf(k) /\ BookTypes /\ UnitTypes /\ GenerationsOf(k) /\ HoldingOf(k)
        /\ StartedOf(k) /\ ticket[k] \in TicketType /\ gens[k] \in Nat
        /\ pin[k] \in Nat /\ pin[k] <= made
    BY InvParts, PinIsMade, DispatchAssumption DEF Core, BookTypes
  <1> DEFINE g == ticket[k].gen
  <1>2. /\ mix' = mix /\ stray' = stray /\ ChannelsRest /\ procs' = procs
        /\ UNCHANGED <<control, ticket, gens, phase, pin, prepared, active, lost>>
        /\ UNCHANGED <<unit, made, archive, gateway, auxVars>> /\ post[k] = "wire" /\ unit # 0
    BY DEF Arrive, ChannelsRest, cvars
  <1>3. phase[k] \in {"sent", "resent"} /\ phase[k] \in Sending /\ phase[k] \notin Early
    BY <1>1, <1>2 DEF BookOf, Sending, Early
  <1>4. ticket[k].owner = "own" /\ ticket[k] # NoTicket /\ g = gens[k] /\ g # 0 /\ g \in 0..MaxGen
        /\ g <= gens[k]
    BY <1>1, <1>3, OwnTicket DEF BookOf, TicketType
  <1>5. PICK r \in Posts \ {"none", "wire"} :
            /\ post' = [post EXCEPT ![k] = r]
            /\ \/ /\ unit = pin[k] /\ r = "held" /\ faults' = faults
                  /\ rec' = [rec EXCEPT ![k] = [st |-> "accepted", gen |-> g, started |-> "pending"]]
               \/ rec' = rec /\ (faults' = faults \/ Fault("refuse"))
    BY DEF Arrive, Verdict, Taken, Posts
  <1> HIDE DEF g
  <1>6. /\ post' \in [Keys -> Posts] /\ post'[k] = r
        /\ \A j \in Keys \ {k} : post'[j] = post[j]
    BY <1>1, <1>5 DEF BookTypes
  <1>7. BookTypes' /\ Runs(k, phase[k], pin[k], r)
    BY <1>1, <1>2, <1>6 DEF BookTypes, Runs, Kept
  <1>8. BookOf(k)' /\ (Known(k) => Known(k)')
    BY <1>1, <1>2, <1>3, <1>6 DEF BookOf, Over, Known
  <1>9. OnlyAt(k, g, pin[k])
    BY <1>1, <1>3 DEF GenerationsOf, g
  <1>10. /\ UnitTypes' /\ GenerationsOf(k)' /\ HoldingOf(k)' /\ StartedOf(k)'
         /\ \A j \in Keys \ {k} : SameRuns(j)
    <2>1. CASE rec' = rec /\ (faults' = faults \/ Fault("refuse"))
      <3>1. UnitsRest
        BY <1>1, <1>2, <2>1, UnitsRestBy DEF auxVars, unitVars, Fault
      <3>2. SameStrays(k) /\ \A j : SameRuns(j)
        BY <1>2, <3>1, RestRuns DEF SameStrays
      <3>3. GenerationsOf(k)'
        BY <1>1, <1>2, <1>3, <3>2, QuietGenerations
      <3>4. HoldingOf(k)'
        <4>1. phase'[k] \in Holding /\ pin'[k] = pin[k]
          BY <1>2, <1>3 DEF Holding
        <4>2. QED
          BY <1>1, <1>2, <3>2, <4>1, QuietHolding
      <3>5. StartedOf(k)'
        BY <1>1, <1>2, <3>2, QuietStarted DEF SameRuns, auxVars
      <3>6. QED
        BY <3>1, <3>2, <3>3, <3>4, <3>5, RestRuns
    <2>2. CASE /\ unit = pin[k] /\ r = "held" /\ faults' = faults
               /\ rec' = [rec EXCEPT ![k] = [st |-> "accepted", gen |-> g, started |-> "pending"]]
      <3>1. /\ UnitTypes' /\ rec'[k] = [st |-> "accepted", gen |-> g, started |-> "pending"]
            /\ rec'[k].gen = g /\ rec'[k].started = "pending"
            /\ \A j \in Keys \ {k} : SameRuns(j)
        BY <1>1, <1>2, <1>4, <2>2, TakenTypes
      <3>2. prompts' = prompts /\ begun' = begun /\ stray' \subseteq stray
        BY <1>2 DEF auxVars
      <3>3. GenerationsOf(k)'
        <4>1. ticket[k].gen = g /\ ticket'[k].gen = ticket[k].gen
          BY <1>2 DEF g
        <4>2. QED
          BY <1>1, <1>2, <1>3, <1>4, <1>6, <1>9, <2>2, <3>1, <3>2, <4>1, TakenGenerations
      <3>4. HoldingOf(k)'
        <4>1. Holds(k, g, unit)
          BY <1>3, <2>2 DEF Holds, g
        <4>2. QED
          BY <1>1, <1>2, <3>1, <3>2, <4>1, TakenHolding
      <3>5. StartedOf(k)'
        BY <1>1, <1>2, <3>1, <3>2, QuietStarted
      <3>6. QED
        BY <3>1, <3>3, <3>4, <3>5
    <2>3. QED
      BY <1>5, <2>1, <2>2
  <1>11. (\A j \in Keys \ {k} : SameStrays(j)) /\ begun' = begun /\ stray' \ stray = {}
    BY <1>2 DEF SameStrays, auxVars
  <1>12. QED
    BY <1>1, <1>2, <1>4, <1>7, <1>8, <1>10, <1>11, OneDelivery

(* Fewer requests are on their way. *)
LEMMA FewerStrays ==
    ASSUME NEW k \in Keys, GenerationsOf(k), HoldingOf(k), StartedOf(k), stray' \subseteq stray,
           UNCHANGED <<mix, gens, unit, active, ticket, phase, pin, post, begun>>, SameRuns(k)
    PROVE  GenerationsOf(k)' /\ HoldingOf(k)' /\ StartedOf(k)'
  <1>1. \A g, i : OnlyAt(k, g, i) => OnlyAt(k, g, i)'
    BY DEF OnlyAt, SameRuns
  <1>2. \A g : Unsent(k, g) => Unsent(k, g)'
    BY DEF Unsent, SameRuns
  <1>3. GenerationsOf(k)'
    BY <1>1, <1>2 DEF GenerationsOf, SameRuns
  <1>4. HoldingOf(k)'
    BY DEF HoldingOf, Holds, SameRuns
  <1>5. StartedOf(k)'
    BY DEF StartedOf, SameRuns
  <1>6. QED
    BY <1>3, <1>4, <1>5

LEMMA StrayStep ==
    ASSUME IInv, NEW m \in stray, StrayArrives(m)
    PROVE  IInv'
  <1> DEFINE k == m.key
             g == m.gen
  <1>1. k \in Keys /\ g \in 0..MaxGen /\ g # 0 /\ Core
    BY InvParts, DispatchAssumption DEF Core, BookTypes, Gens
  <1>2. /\ BookTypes /\ UnitTypes /\ GenerationsOf(k) /\ HoldingOf(k) /\ StartedOf(k)
    BY <1>1, PinIsMade DEF Core
  <1>3. /\ UNCHANGED <<mix, ctlVars, procs>> /\ ChannelsRest /\ stray' = stray \ {m}
        /\ UNCHANGED <<control, ticket, gens, phase, pin, post, prepared, active, lost>>
        /\ UNCHANGED <<unit, made, archive, gateway, faults, auxVars>> /\ unit # 0
        /\ UNCHANGED <<prompts, begun>>
        /\ \/ rec' = rec
           \/ /\ unit = m.inst /\ rec[k] = NoRec
              /\ rec' = [rec EXCEPT ![k] = [st |-> "accepted", gen |-> g, started |-> "pending"]]
    BY DEF StrayArrives, Taken, ChannelsRest, cvars, ctlVars, auxVars
  <1>4. m.key = k /\ m.gen = g /\ stray' \subseteq stray
        /\ \A j \in Keys \ {k} : SameStrays(j)
    BY <1>3 DEF SameStrays
  <1> HIDE DEF k, g
  <1>5. OnlyAt(k, g, m.inst) /\ g <= gens[k]
    BY <1>2, <1>4 DEF GenerationsOf
  <1>6. /\ UnitTypes' /\ GenerationsOf(k)' /\ HoldingOf(k)' /\ StartedOf(k)'
        /\ \A j \in Keys \ {k} : SameRuns(j)
    <2>1. CASE rec' = rec
      <3>1. UnitTypes' /\ \A j : SameRuns(j)
        BY <1>2, <1>3, <2>1 DEF UnitTypes, SameRuns, auxVars
      <3>2. QED
        BY <1>1, <1>2, <1>3, <1>4, <3>1, FewerStrays
    <2>2. CASE /\ unit = m.inst /\ rec[k] = NoRec
               /\ rec' = [rec EXCEPT ![k] = [st |-> "accepted", gen |-> g, started |-> "pending"]]
      <3>1. /\ UnitTypes' /\ rec'[k] = [st |-> "accepted", gen |-> g, started |-> "pending"]
            /\ rec'[k].gen = g /\ rec'[k].started = "pending"
            /\ \A j \in Keys \ {k} : SameRuns(j)
        BY <1>1, <1>2, <1>3, <2>2, TakenTypes
      <3>2. /\ phase[k] \in Early => ticket[k].gen # g
            /\ phase[k] = "sent" /\ post[k] # "held" => ticket[k].gen # g
            /\ phase[k] \in Sending /\ ticket[k].gen = g => pin[k] = unit
        BY <1>2, <1>4, <2>2 DEF GenerationsOf, Unsent, OnlyAt
      <3>3. GenerationsOf(k)'
        BY <1>1, <1>2, <1>3, <1>4, <1>5, <2>2, <3>1, <3>2, TakenGenerations
      <3>4. HoldingOf(k)'
        <4>1. active # 0 /\ unit = active => Holds(k, g, unit)
          BY <1>2, <1>4, <2>2 DEF HoldingOf
        <4>2. QED
          BY <1>1, <1>2, <1>3, <1>4, <3>1, <4>1, TakenHolding
      <3>5. StartedOf(k)'
        BY <1>1, <1>2, <1>3, <3>1, QuietStarted
      <3>6. QED
        BY <3>1, <3>3, <3>4, <3>5
    <2>3. QED
      BY <1>3, <2>1, <2>2
  <1>7. QED
    BY <1>1, <1>3, <1>4, <1>6, OneRun

-----------------------------------------------------------------------------
(* The units, the gateway and the start of the control. *)

(* The books and the units are left alone, the state of the control aside. *)
LEMMA CoreRest ==
    ASSUME Core, UNCHANGED <<mix, ticket, gens, phase, pin, post, prepared, active, lost, stray, procs>>,
           control' \in {"down", "adopting", "serving", "stopping"}, BlankOK', UnitsRest
    PROVE  Core'
  <1>1. BookTypes' /\ UnitTypes'
    BY RestRuns DEF Core, BookTypes
  <1>2. \A k \in Keys : BookOf(k)'
    BY DEF Core, BookOK, BookOf, Over
  <1>3. ASSUME NEW k \in Keys
        PROVE  GenerationsOf(k)' /\ HoldingOf(k)' /\ StartedOf(k)'
    <2>1. SameStrays(k) /\ SameRuns(k) /\ unit' = unit /\ begun \subseteq begun' /\ Kept(k)
      BY RestRuns DEF SameStrays, Kept
    <2>2. QED
      BY <2>1, KeptCore
  <1>4. InstancesOK'
    BY RestRuns DEF Core, GenerationsOK, InstancesOK
  <1>5. QED
    BY <1>1, <1>2, <1>3, <1>4 DEF Core, BookOK, GenerationsOK, HoldingOK

LEMMA KnownRest ==
    ASSUME ticket' = ticket
    PROVE  \A k \in Keys : Known(k) => Known(k)'
  BY DEF Known, Over

(* A unit ends, and whatever runs then is not published. *)
LEMMA StoppedKeeps ==
    ASSUME IInv, UnitStops, UNCHANGED <<mix, control, ticket, gens, phase, pin, post, prepared, stray, procs>>,
           UNCHANGED <<prompts, begun, outcome>>, gateway' \in BOOLEAN, faults' \in 0..MaxFaults,
           unit' \in 0..MaxInst, made' \in 0..MaxInst, made <= made', unit' <= made',
           active' \in 0..MaxInst, lost' \subseteq Insts,
           active' \in {0, active}, active' = 0 \/ unit' # active',
           \A i \in lost' : i \in lost \/ (i = active /\ active' = 0 /\ active # 0),
           active' = active => lost' = lost, ChannelsRest
    PROVE  IInv'
  <1>1. Core /\ SourcesOK /\ WaitersOK
    BY InvParts
  <1>2. BookTypes /\ UnitTypes /\ made \in Nat /\ made' \in Nat
    BY <1>1, DispatchAssumption DEF Core, UnitTypes
  <1>3. NoRec \in RecType /\ NoRec.gen = 0 /\ NoRec.started = "pending" /\ NoRec.st = "none"
        /\ NoRec.st \notin Live
    BY DispatchAssumption DEF NoRec, RecType, Live
  <1>4. /\ rec' = [k \in Keys |-> NoRec] /\ archive' = [k \in Keys |-> Gone(k)]
    BY DEF UnitStops
  <1>5. ASSUME NEW k \in Keys
        PROVE  /\ rec'[k] = NoRec /\ archive'[k] \in RecType
               /\ archive'[k] = archive[k] \/ (archive'[k] = rec[k] /\ rec[k].st \in Finals)
    BY <1>2, <1>4 DEF Gone, UnitTypes
  <1>6. UnitTypes'
    <2>1. rec' \in [Keys -> RecType] /\ archive' \in [Keys -> RecType]
      BY <1>3, <1>4, <1>5
    <2>2. QED
      BY <1>2, <2>1 DEF UnitTypes
  <1>7. BookTypes'
    BY <1>2 DEF BookTypes
  <1>8. BookOK'
    <2>1. \A k \in Keys : BookOf(k)'
      BY <1>1 DEF Core, BookOK, BookOf, Over
    <2>2. BlankOK'
      BY <1>1 DEF Core, BookOK, BlankOK
    <2>3. QED
      BY <2>1, <2>2 DEF BookOK
  <1>9. InstancesOK'
    <2>1. InstancesOK /\ active \in Nat /\ unit' \in Nat
      BY <1>1, DispatchAssumption DEF Core, GenerationsOK, BookTypes
    <2>2. active' <= made' /\ active' \notin lost'
      BY <1>2, <2>1, DispatchAssumption DEF InstancesOK, Insts
    <2>3. \A k \in Keys : pin'[k] <= made'
      BY <1>2, <2>1, DispatchAssumption DEF InstancesOK, BookTypes
    <2>4. \A i \in lost' : i <= made'
      BY <1>2, <2>1, DispatchAssumption DEF InstancesOK, Insts
    <2>5. \A m \in stray' : m.inst <= made'
      BY <1>2, <2>1, DispatchAssumption DEF InstancesOK, BookTypes, Insts
    <2>6. QED
      BY <2>2, <2>3, <2>4, <2>5 DEF InstancesOK
  <1>10. ASSUME NEW k \in Keys
         PROVE  GenerationsOf(k)' /\ HoldingOf(k)' /\ StartedOf(k)'
    <2>1. BookOf(k) /\ GenerationsOf(k) /\ HoldingOf(k) /\ StartedOf(k) /\ gens[k] \in Nat
          /\ ticket[k] \in TicketType
      BY <1>1, <1>2, PinIsMade, DispatchAssumption DEF BookTypes
    <2>2. \A g, i : OnlyAt(k, g, i) => OnlyAt(k, g, i)'
      BY <1>3, <1>5 DEF OnlyAt
    <2>3. \A g : g # 0 /\ Unsent(k, g) => Unsent(k, g)'
      BY <1>3, <1>5 DEF Unsent
    <2>4. phase[k] \in Early \cup {"sent"} => ticket[k].gen # 0
      BY <1>1, <2>1, OwnTicket DEF BookOf, Early
    <2>5. /\ rec'[k].gen <= gens'[k] /\ archive'[k].gen <= gens'[k]
      BY <1>3, <1>5, <2>1 DEF GenerationsOf
    <2>6. /\ phase'[k] \in Early => Unsent(k, ticket[k].gen)'
          /\ phase'[k] = "sent" /\ post'[k] # "held" => Unsent(k, ticket[k].gen)'
          /\ phase'[k] \in Sending => OnlyAt(k, ticket[k].gen, pin[k])'
      BY <2>1, <2>2, <2>3, <2>4 DEF GenerationsOf
    <2>7. /\ \A p \in prompts'[k] : p[2] <= gens'[k] /\ OnlyAt(k, p[2], p[1])'
          /\ \A m \in stray' : m.key = k => m.gen <= gens'[k] /\ OnlyAt(k, m.gen, m.inst)'
      BY <2>1, <2>2 DEF GenerationsOf
    <2>8. GenerationsOf(k)'
      BY <1>3, <1>5, <2>5, <2>6, <2>7 DEF GenerationsOf
    <2>9. HoldingOf(k)'
      BY <1>3, <1>5, <2>1 DEF HoldingOf
    <2>10. StartedOf(k)'
      BY <1>3, <1>5, <2>1 DEF StartedOf
    <2>11. QED
      BY <2>8, <2>9, <2>10
  <1>11. Core'
    BY <1>6, <1>7, <1>8, <1>9, <1>10 DEF Core, GenerationsOK, HoldingOK
  <1>12. SourcesOK'
    BY <1>1, SourcesRest DEF ChannelsRest
  <1>13. WaitersOK'
    BY <1>1, KnownRest, WaitersRest DEF ChannelsRest
  <1>14. QED
    BY <1>11, <1>12, <1>13, InvParts

LEMMA StopSteps ==
    ASSUME IInv, UnitDies \/ UnitRestarts \/ Recover \/ CloseIdle
    PROVE  IInv'
  <1>1. Core /\ BookTypes /\ UnitTypes /\ InstancesOK
    BY InvParts DEF Core, GenerationsOK
  <1>2. /\ UnitStops /\ ChannelsRest /\ gateway' = gateway
        /\ UNCHANGED <<mix, control, ticket, gens, phase, pin, post, prepared, stray, procs>>
        /\ UNCHANGED <<prompts, begun, outcome>>
        /\ faults' = faults \/ Fault("die") \/ Fault("restart")
    BY DEF UnitDies, UnitRestarts, Recover, CloseIdle, ctlVars, cvars, auxVars, ChannelsRest
  <1>3. gateway' \in BOOLEAN /\ faults' \in 0..MaxFaults
    BY <1>1, <1>2, FaultType DEF UnitTypes
  <1>4. made \in Nat /\ active \in Nat /\ 0 \in 0..MaxInst
        /\ (active # 0 => active \in Insts) /\ active <= made
    BY <1>1, DispatchAssumption DEF UnitTypes, BookTypes, Insts, InstancesOK
  <1>5. /\ unit' \in 0..MaxInst /\ made' \in 0..MaxInst /\ made <= made' /\ unit' <= made'
        /\ active' \in {0, active} /\ lost' \subseteq Insts
        /\ \A i \in lost' : i \in lost \/ (i = active /\ active' = 0 /\ active # 0)
        /\ active' = 0 \/ unit' # active'
    <2>1. CASE UnitDies
      BY <1>1, <1>4, <2>1 DEF UnitDies, UnitTypes, BookTypes, ctlVars
    <2>2. CASE UnitRestarts
      BY <1>1, <1>4, <2>2, DispatchAssumption DEF UnitRestarts, UnitTypes, BookTypes, ctlVars
    <2>3. CASE Recover \/ CloseIdle
      BY <1>1, <1>4, <2>3 DEF Recover, CloseIdle, UnitTypes, BookTypes
    <2>4. QED
      BY <2>1, <2>2, <2>3
  <1>6. active' = active => lost' = lost
    BY DEF UnitDies, UnitRestarts, Recover, CloseIdle, ctlVars
  <1>7. active' \in 0..MaxInst
    BY <1>1, <1>4, <1>5 DEF BookTypes
  <1>8. QED
    BY <1>2, <1>3, <1>5, <1>6, <1>7, StoppedKeeps

(* A new unit is published: nothing that is on its way is for it. *)
LEMMA ActivateStep ==
    ASSUME IInv, Activate
    PROVE  IInv'
  <1>1. Core /\ SourcesOK /\ WaitersOK
    BY InvParts
  <1>2. BookTypes /\ UnitTypes /\ InstancesOK /\ made \in Nat
    BY <1>1, DispatchAssumption DEF Core, UnitTypes, GenerationsOK
  <1>3. /\ UNCHANGED <<mix, control, ticket, gens, phase, pin, post, prepared, lost, stray, procs>>
        /\ UNCHANGED <<rec, archive, gateway, faults, prompts, begun, outcome>> /\ ChannelsRest
        /\ control = "serving" /\ active = 0 /\ unit = 0 /\ made < MaxInst
        /\ unit' = made + 1 /\ made' = made + 1 /\ active' = made + 1
    BY DEF Activate, cvars, auxVars, ChannelsRest
  <1>4. made' \in 0..MaxInst /\ unit' \in 0..MaxInst /\ active' \in 0..MaxInst
    BY <1>2, <1>3, DispatchAssumption
  <1>5. BookTypes' /\ UnitTypes'
    BY <1>2, <1>3, <1>4 DEF BookTypes, UnitTypes
  <1>6. BookOK'
    BY <1>1, <1>3 DEF Core, BookOK, BlankOK, BookOf, Over
  <1>7. InstancesOK'
    <2>1. \A k \in Keys : pin'[k] <= made'
      BY <1>2, <1>3, DispatchAssumption DEF InstancesOK, BookTypes
    <2>2. (\A i \in lost' : i <= made') /\ active' \notin lost'
      BY <1>2, <1>3, DispatchAssumption DEF InstancesOK, BookTypes, Insts
    <2>3. \A m \in stray' : m.inst <= made'
      BY <1>2, <1>3, DispatchAssumption DEF InstancesOK, BookTypes, Insts
    <2>4. QED
      BY <1>2, <1>3, <2>1, <2>2, <2>3 DEF InstancesOK
  <1>8. ASSUME NEW k \in Keys
        PROVE  GenerationsOf(k)' /\ HoldingOf(k)' /\ StartedOf(k)'
    <2>1. GenerationsOf(k) /\ HoldingOf(k) /\ StartedOf(k)
      BY <1>1, PinIsMade
    <2>2. rec[k] = NoRec /\ rec[k].st \notin Live
      BY <1>3, <2>1 DEF GenerationsOf, NoRec, Live
    <2>3. \A g, i : OnlyAt(k, g, i) => OnlyAt(k, g, i)'
      BY <1>3, <2>2 DEF OnlyAt
    <2>4. \A g : Unsent(k, g) => Unsent(k, g)'
      BY <1>3 DEF Unsent
    <2>5. unit' # 0
      BY <1>2, <1>3
    <2>6. GenerationsOf(k)'
      BY <1>3, <2>1, <2>3, <2>4, <2>5 DEF GenerationsOf
    <2>7. HoldingOf(k)'
      <3>1. \A m \in stray' : m.inst # unit'
        BY <1>2, <1>3, DispatchAssumption DEF InstancesOK, BookTypes, Insts
      <3>2. QED
        BY <1>3, <2>1, <2>2, <3>1 DEF HoldingOf
    <2>8. StartedOf(k)'
      BY <1>3, <2>1 DEF StartedOf
    <2>9. QED
      BY <2>6, <2>7, <2>8
  <1>9. Core'
    BY <1>5, <1>6, <1>7, <1>8 DEF Core, GenerationsOK, HoldingOK
  <1>10. SourcesOK'
    BY <1>1, <1>3, SourcesRest DEF ChannelsRest
  <1>11. WaitersOK'
    BY <1>1, <1>3, KnownRest, WaitersRest DEF ChannelsRest
  <1>12. QED
    BY <1>9, <1>10, <1>11, InvParts

LEMMA GatewaySteps ==
    ASSUME IInv, GatewayFails \/ GatewayReturns \/ BootControl
    PROVE  IInv'
  <1>1. Core /\ SourcesOK /\ WaitersOK /\ UnitTypes
    BY InvParts DEF Core
  <1>2. /\ UNCHANGED <<mix, ticket, gens, phase, pin, post, prepared, active, lost, stray, procs>>
        /\ UNCHANGED <<unit, made, rec, archive, prompts, begun, outcome>> /\ ChannelsRest
        /\ gateway' \in {gateway, TRUE, FALSE} /\ (faults' = faults \/ Fault("gateway"))
        /\ control' = control \/ (control = "down" /\ control' = "adopting")
    BY DEF GatewayFails, GatewayReturns, BootControl, ctlVars, unitVars, auxVars, cvars, ChannelsRest
  <1>3. faults' \in 0..MaxFaults
    BY <1>1, <1>2, FaultType DEF UnitTypes
  <1>4. UnitsRest
    BY <1>1, <1>2, <1>3 DEF UnitsRest, UnitTypes
  <1>5. BlankOK' /\ control' \in {"down", "adopting", "serving", "stopping"}
    BY <1>1, <1>2 DEF Core, BookOK, BlankOK, BookTypes
  <1>6. Core'
    BY <1>1, <1>2, <1>4, <1>5, CoreRest
  <1>7. SourcesOK'
    BY <1>1, <1>2, SourcesRest DEF ChannelsRest
  <1>8. WaitersOK'
    BY <1>1, <1>2, KnownRest, WaitersRest DEF ChannelsRest
  <1>9. QED
    BY <1>6, <1>7, <1>8, InvParts

-----------------------------------------------------------------------------
(* Admission. *)

(* A new ticket has a generation that nothing knows of. *)
LEMMA AdmitNewCore ==
    ASSUME Core, NEW k \in Keys, AdmitNew(k), procs' = procs
    PROVE  Core'
  <1>1. /\ BookTypes /\ UnitTypes /\ BookOf(k) /\ GenerationsOf(k) /\ HoldingOf(k) /\ StartedOf(k)
        /\ gens[k] \in Nat /\ rec[k] \in RecType /\ archive[k] \in RecType
    BY PinIsMade, DispatchAssumption DEF Core, BookTypes
  <1> DEFINE g == gens[k] + 1
             tk == [NoTicket EXCEPT !.owner = "own", !.gen = g]
  <1>2. /\ UNCHANGED <<mix, control, pin, post, prepared, active, lost, stray>>
        /\ UNCHANGED <<unitVars, gateway, faults, auxVars>>
        /\ control = "serving" /\ ~Known(k) /\ gens[k] < mix.gens[k]
        /\ ticket' = [ticket EXCEPT ![k] = tk] /\ gens' = [gens EXCEPT ![k] = g]
        /\ phase' = [phase EXCEPT ![k] = "queued"]
    BY DEF AdmitNew, MayAdmit
  <1>3. g \in 0..MaxGen /\ g # 0 /\ g > gens[k]
    BY <1>1, <1>2, MixParts, DispatchAssumption
  <1>4. /\ tk \in TicketType /\ tk.owner = "own" /\ tk.gen = g /\ tk.completed = "pending"
        /\ tk.elapsed = FALSE /\ tk.started = "pending"
    BY <1>3 DEF TicketType, NoTicket
  <1> HIDE DEF g, tk
  <1>5. /\ ticket' \in [Keys -> TicketType] /\ gens' \in [Keys -> 0..MaxGen] /\ phase' \in [Keys -> Phases]
        /\ ticket'[k] = tk /\ gens'[k] = g /\ phase'[k] = "queued"
        /\ \A j \in Keys \ {k} : ticket'[j] = ticket[j] /\ gens'[j] = gens[j] /\ phase'[j] = phase[j]
    BY <1>1, <1>2, <1>3, <1>4 DEF BookTypes, Phases
  <1>6. BookTypes'
    BY <1>1, <1>2, <1>5 DEF BookTypes
  <1>7. UnitsRest
    BY <1>2, UnitsRestBy DEF auxVars
  <1>8. phase[k] = "idle" /\ post[k] = "none" /\ k \notin procs
    BY <1>1, <1>2 DEF BookOf, Known
  <1>9. BookOK'
    <2>1. BookOf(k)'
      BY <1>2, <1>3, <1>4, <1>5, <1>8 DEF BookOf, Over, Pinned, Sending
    <2>2. ASSUME NEW j \in Keys \ {k}
          PROVE  BookOf(j)'
      BY <1>2, <1>5 DEF Core, BookOK, BookOf, Over
    <2>3. BlankOK'
      BY <1>2 DEF BlankOK
    <2>4. QED
      BY <2>1, <2>2, <2>3 DEF BookOK
  <1>10. ASSUME NEW j \in Keys \ {k}
         PROVE  GenerationsOf(j)' /\ HoldingOf(j)' /\ StartedOf(j)'
    <2>1. SameStrays(j) /\ SameRuns(j) /\ unit' = unit /\ begun \subseteq begun' /\ Kept(j)
      BY <1>2, <1>5, <1>7, RestRuns DEF SameStrays, Kept
    <2>2. QED
      BY <1>2, <1>5, <2>1, KeptCore
  <1>11. UNCHANGED <<rec, archive, prompts, begun, unit, made, stray>>
    BY <1>2 DEF unitVars, auxVars
  <1>12. GenerationsOf(k)'
    <2>1. \A m \in stray : m.gen \in Nat
      BY <1>1, DispatchAssumption DEF BookTypes, Gens
    <2>2. \A p \in prompts[k] : p[2] \in Nat
      BY <1>1, DispatchAssumption DEF UnitTypes, Gens
    <2>3. rec[k].gen \in Nat /\ archive[k].gen \in Nat
      BY <1>1, DispatchAssumption DEF RecType
    <2>4. g \in Nat
      BY <1>3, DispatchAssumption
    <2>5. Unsent(k, g)
      BY <1>1, <1>3, <2>1, <2>2, <2>3, <2>4 DEF GenerationsOf, Unsent
    <2>6. Unsent(k, ticket[k].gen)'
      BY <1>4, <1>5, <1>11, <2>5 DEF Unsent
    <2>7. \A h, i : OnlyAt(k, h, i) => OnlyAt(k, h, i)'
      BY <1>11 DEF OnlyAt
    <2>8. /\ \A p \in prompts'[k] : p[2] <= gens'[k] /\ OnlyAt(k, p[2], p[1])'
          /\ \A m \in stray' : m.key = k => m.gen <= gens'[k] /\ OnlyAt(k, m.gen, m.inst)'
      BY <1>1, <1>3, <1>5, <1>11, <2>1, <2>2, <2>4, <2>7 DEF GenerationsOf
    <2>9. rec'[k].gen <= gens'[k] /\ archive'[k].gen <= gens'[k]
      BY <1>1, <1>3, <1>5, <1>11, <2>3, <2>4 DEF GenerationsOf
    <2>10. QED
      BY <1>1, <1>5, <1>11, <2>6, <2>8, <2>9 DEF GenerationsOf, Sending
  <1>13. HoldingOf(k)'
    BY <1>1, <1>2, <1>5, <1>8, <1>11 DEF HoldingOf, Holds, Sending
  <1>14. StartedOf(k)'
    BY <1>1, <1>4, <1>5, <1>11 DEF StartedOf
  <1>15. InstancesOK'
    BY <1>2, <1>11 DEF Core, GenerationsOK, InstancesOK
  <1>16. QED
    BY <1>6, <1>7, <1>9, <1>10, <1>12, <1>13, <1>14, <1>15, RestRuns DEF Core, GenerationsOK, HoldingOK

(* Who waits for a task may go on waiting. *)
Heard ==
    \A k \in Keys :
       \/ /\ ticket[k].started = "yes" => ticket'[k].started = "yes"
          /\ Known(k) => Known(k)'
       \/ \A w \in Waiters : ~Inside(k, w)

(* What a step of a channel leaves of the control and the units. *)
Apart == Core' /\ mix' = mix /\ begun' = begun /\ Heard

LEMMA NothingMoves ==
    ASSUME IInv, UNCHANGED <<mix, ctlVars, stray, unitVars, gateway, auxVars, procs>>,
           faults' = faults \/ (\E f \in Faults : Fault(f))
    PROVE  Apart
  <1>1. Core
    BY InvParts
  <1>2. UNCHANGED <<ticket, gens, phase, pin, post, prepared, active, lost, control>>
    BY DEF ctlVars
  <1>3. UnitsRest /\ begun' = begun
    BY <1>1, UnitsRestBy DEF auxVars
  <1>4. BlankOK' /\ control' \in {"down", "adopting", "serving", "stopping"}
    BY <1>1, <1>2 DEF Core, BookOK, BlankOK, BookTypes
  <1>5. Core'
    BY <1>1, <1>2, <1>3, <1>4, CoreRest
  <1>6. QED
    BY <1>2, <1>3, <1>5, KnownRest DEF Apart, Heard

LEMMA AdmitMoves ==
    ASSUME IInv, NEW k \in Keys, Admit(k) \/ AdmitNew(k) \/ AdmitRefused(k), procs' = procs
    PROVE  Apart
  <1>1. Core /\ WaitersOK
    BY InvParts
  <1>2. CASE AdmitNew(k)
    <2>1. Core'
      BY <1>1, <1>2, AdmitNewCore
    <2>2. mix' = mix /\ begun' = begun /\ ~Known(k)
      BY <1>2 DEF AdmitNew, auxVars, MayAdmit
    <2>3. \A w \in Waiters : ~Inside(k, w)
      BY <1>1, <2>2 DEF WaitersOK, BridgeOK, BridgeOf
    <2>4. ASSUME NEW j \in Keys \ {k}
          PROVE  ticket'[j] = ticket[j] /\ (Known(j) => Known(j)')
      BY <1>1, <1>2 DEF AdmitNew, Known, Over, Core, BookTypes
    <2>5. QED
      BY <2>1, <2>2, <2>3, <2>4 DEF Apart, Heard
  <1>3. CASE UNCHANGED dvars
    BY <1>3, NothingMoves DEF dvars
  <1>4. CASE AdmitRefused(k)
    BY <1>4, NothingMoves DEF AdmitRefused, Fault
  <1>5. QED
    BY <1>2, <1>3, <1>4 DEF Admit

LEMMA WaitersApart ==
    ASSUME IInv, Apart, UNCHANGED <<exec, bridge>>
    PROVE  WaitersOK'
  BY InvParts, WaitersRest DEF Apart, Heard

-----------------------------------------------------------------------------
(* The sources. *)

LEMMA SourcesBy ==
    ASSUME SourcesOK, mix' = mix, begun' = begun,
           event' \in [Keys -> Events], con' \in ConType, firing' \in Keys \cup {0},
           con'.at \in {"admit", "wait"} => con'.batch # {},
           \A e \in con'.batch : mix.kind[e.key] = "queue",
           \A k \in Keys : event'[k] = "acked" => event[k] = "acked" \/ k \in begun
    PROVE  SourcesOK'
  BY DEF SourcesOK, SourceTypes, ConsumerOK, AckedWasStarted

(* One event changes. *)
LEMMA EventSet ==
    ASSUME SourcesOK, NEW k \in Keys, NEW v \in Events, event' = [event EXCEPT ![k] = v],
           v = "acked" => k \in begun
    PROVE  /\ event' \in [Keys -> Events]
           /\ \A j \in Keys : event'[j] = "acked" => event[j] = "acked" \/ j \in begun
  BY DEF SourcesOK, SourceTypes

(* The consumer does not move. *)
LEMMA ConsumerKept ==
    ASSUME SourcesOK, UNCHANGED con
    PROVE  /\ con' \in ConType /\ (con'.at \in {"admit", "wait"} => con'.batch # {})
           /\ \A e \in con'.batch : mix.kind[e.key] = "queue"
  BY DEF SourcesOK, SourceTypes, ConsumerOK

(* The entries that the consumer fetches. *)
LEMMA EntriesOf ==
    ASSUME NEW S \in SUBSET Keys
    PROVE  /\ Entries(S) \subseteq EntryType
           /\ \A e \in Entries(S) : e.key \in S
           /\ S # {} => Entries(S) # {}
  <1>1. ASSUME NEW k \in S
        PROVE  [key |-> k, stale |-> event[k] = "trimmed"] \in EntryType
    BY DEF EntryType
  <1>2. Entries(S) \subseteq EntryType /\ \A e \in Entries(S) : e.key \in S
    BY <1>1 DEF Entries
  <1>3. ASSUME NEW k \in S
        PROVE  [key |-> k, stale |-> event[k] = "trimmed"] \in Entries(S)
    BY DEF Entries
  <1>4. QED
    BY <1>2, <1>3

(* The consumer goes on after the entry in hand. *)
LEMMA NextEntryOK ==
    ASSUME SourcesOK, con.batch # {}, NEW c \in {con, Seen}
    PROVE  /\ NextEntry(c) \in ConType /\ NextEntry(c).batch \subseteq con.batch
           /\ NextEntry(c).at \in {"admit", "wait"} => NextEntry(c).batch # {}
  <1>1. con \in ConType /\ InHand.key \in Keys
    BY InHandInBatch DEF SourcesOK, SourceTypes
  <1>2. Seen \in ConType /\ Seen.batch = con.batch
    BY <1>1 DEF Seen, ConType
  <1>3. c \in ConType /\ c.batch = con.batch
    BY <1>1, <1>2
  <1> DEFINE rest == con.batch \ {InHand}
  <1>4. rest \subseteq EntryType /\ rest \subseteq con.batch
    BY <1>1 DEF ConType
  <1>5. NextEntry(c) = [c EXCEPT !.batch = rest,
                          !.at = IF rest = {} THEN "fetch" ELSE "admit",
                          !.from = IF rest # {} THEN @ ELSE IF @ = "sweep" THEN "read" ELSE "sweep"]
    BY <1>3 DEF NextEntry
  <1> HIDE DEF rest
  <1>6. NextEntry(c) \in ConType /\ NextEntry(c).batch = rest
        /\ NextEntry(c).at = IF rest = {} THEN "fetch" ELSE "admit"
    BY <1>3, <1>4, <1>5 DEF ConType
  <1>7. QED
    BY <1>4, <1>6

LEMMA FetchSteps ==
    ASSUME IInv, FetchPending \/ FetchNew
    PROVE  IInv'
  <1>1. SourcesOK /\ con \in ConType /\ event \in [Keys -> Events] /\ firing \in Keys \cup {0}
    BY InvParts DEF SourcesOK, SourceTypes
  <1>2. /\ UNCHANGED <<mix, ctlVars, stray, unitVars, gateway, auxVars, procs, exec, bridge, firing>>
        /\ faults' = faults \/ Fault("reply")
    BY DEF FetchPending, FetchNew, dvars
  <1>3. Apart
    BY <1>2, NothingMoves DEF Fault
  <1>4. PICK S \in SUBSET Of("queue") :
          \/ /\ S # {} /\ con' = [con EXCEPT !.at = "admit", !.batch = Entries(S)]
          \/ /\ con.at = "fetch"
             /\ con' \in {[con EXCEPT !.from = "read"], [con EXCEPT !.from = "sweep"]}
    <2>1. CASE FetchPending
      <3> DEFINE S == {k \in Of("queue") : event[k] \in {"pending", "trimmed"} /\ k > con.cursor}
      <3>1. S \in SUBSET Of("queue") /\ con.at = "fetch"
        BY <2>1 DEF FetchPending
      <3>2. \/ con' = [con EXCEPT !.from = "read"]
            \/ S # {} /\ con' = [con EXCEPT !.at = "admit", !.batch = Entries(S)]
        BY <2>1 DEF FetchPending
      <3> HIDE DEF S
      <3>3. QED
        BY <3>1, <3>2
    <2>2. CASE FetchNew
      <3> DEFINE S == {k \in Of("queue") : event[k] = "new"}
      <3>1. S \in SUBSET Of("queue") /\ con.at = "fetch"
        BY <2>2 DEF FetchNew
      <3>2. \/ con' = [con EXCEPT !.from = "sweep"]
            \/ S # {} /\ con' = [con EXCEPT !.at = "admit", !.batch = Entries(S)]
        BY <2>2 DEF FetchNew
      <3> HIDE DEF S
      <3>3. QED
        BY <3>1, <3>2
    <2>3. QED
      BY <2>1, <2>2
  <1>5. S \subseteq Keys /\ \A k \in S : mix.kind[k] = "queue"
    BY DEF Of
  <1>6. Entries(S) \subseteq EntryType /\ (\A e \in Entries(S) : e.key \in S) /\ (S # {} => Entries(S) # {})
    BY <1>5, EntriesOf
  <1>7. /\ con' \in ConType /\ (con'.at \in {"admit", "wait"} => con'.batch # {})
        /\ \A e \in con'.batch : mix.kind[e.key] = "queue"
    <2>1. CASE S # {} /\ con' = [con EXCEPT !.at = "admit", !.batch = Entries(S)]
      <3>1. con' \in ConType /\ con'.batch = Entries(S)
        BY <1>1, <1>6, <2>1 DEF ConType
      <3>2. QED
        BY <1>5, <1>6, <2>1, <3>1
    <2>2. CASE /\ con.at = "fetch"
               /\ con' \in {[con EXCEPT !.from = "read"], [con EXCEPT !.from = "sweep"]}
      <3>1. con' \in ConType /\ con'.batch = con.batch /\ con'.at = "fetch"
        BY <1>1, <2>2 DEF ConType
      <3>2. QED
        BY <1>1, <3>1 DEF SourcesOK, ConsumerOK
    <2>3. QED
      BY <1>4, <2>1, <2>2
  <1>8. /\ event' \in [Keys -> Events]
        /\ \A k \in Keys : event'[k] = "acked" => event[k] = "acked"
    <2>1. CASE event' = event
      BY <1>1, <2>1
    <2>2. CASE FetchNew
      <3> DEFINE T == {k \in Of("queue") : event[k] = "new"}
      <3>1. event' = [k \in Keys |-> IF k \in T THEN "pending" ELSE event[k]]
        BY <2>2 DEF FetchNew
      <3> HIDE DEF T
      <3>2. \A k \in Keys : event'[k] = "pending" \/ event'[k] = event[k]
        BY <3>1
      <3>3. QED
        BY <1>1, <3>1, <3>2 DEF Events
    <2>3. QED
      BY <2>1, <2>2 DEF FetchPending
  <1>9. SourcesOK'
    BY <1>1, <1>2, <1>3, <1>7, <1>8, SourcesBy DEF Apart
  <1>10. QED
    BY <1>2, <1>3, <1>9, WaitersApart, InvParts DEF Apart

(* The consumer handles the entry in hand. *)
LEMMA HandleSteps ==
    ASSUME IInv, HandleStale \/ Handle \/ Handled
    PROVE  IInv'
  <1>1. /\ Core /\ SourcesOK /\ con \in ConType /\ event \in [Keys -> Events] /\ firing \in Keys \cup {0}
        /\ \A e \in con.batch : mix.kind[e.key] = "queue"
    BY InvParts DEF SourcesOK, SourceTypes, ConsumerOK
  <1>2. con.at \in {"admit", "wait"} /\ con.batch # {}
    BY <1>1 DEF HandleStale, Handle, Handled, SourcesOK, ConsumerOK
  <1>3. InHand \in con.batch /\ InHand.key \in Keys
    BY <1>1, <1>2, InHandInBatch DEF SourcesOK
  <1>4. UNCHANGED <<firing, exec, bridge, procs>>
    BY DEF HandleStale, Handle, Handled
  <1>5. Apart
    <2>1. CASE HandleStale \/ Handled
      <3>1. /\ UNCHANGED <<mix, ctlVars, stray, unitVars, gateway, auxVars>>
            /\ faults' = faults \/ Fault("xack")
        BY <2>1 DEF HandleStale, Handled, Xack
      <3>2. QED
        BY <1>4, <3>1, NothingMoves DEF Fault
    <2>2. CASE Handle
      BY <1>3, <1>4, <2>2, AdmitMoves DEF Handle
    <2>3. QED
      BY <2>1, <2>2
  <1>6. con' \in {NextEntry(con), NextEntry(Seen), [Seen EXCEPT !.at = "wait"]}
    BY DEF HandleStale, Handle, Handled
  <1>7. /\ con' \in ConType /\ con'.batch \subseteq con.batch
        /\ con'.at \in {"admit", "wait"} => con'.batch # {}
    <2>1. CASE con' \in {NextEntry(con), NextEntry(Seen)}
      BY <1>1, <1>2, <2>1, NextEntryOK
    <2>2. CASE con' = [Seen EXCEPT !.at = "wait"]
      <3>1. Seen \in ConType /\ Seen.batch = con.batch
        BY <1>1, <1>3 DEF Seen, ConType
      <3>2. con' \in ConType /\ con'.batch = con.batch
        BY <2>2, <3>1 DEF ConType
      <3>3. QED
        BY <1>2, <3>2
    <2>3. QED
      BY <1>6, <2>1, <2>2
  <1>8. /\ event' \in [Keys -> Events]
        /\ \A k \in Keys : event'[k] = "acked" => event[k] = "acked" \/ k \in begun
    <2>1. CASE event' = event
      BY <1>1, <2>1
    <2>2. CASE event' = [event EXCEPT ![InHand.key] = "gone"]
      BY <1>1, <1>3, <2>2, EventSet DEF Events
    <2>3. CASE ticket[InHand.key].started = "yes" /\ event' = [event EXCEPT ![InHand.key] = "acked"]
      <3>1. StartedOf(InHand.key) /\ mix.kind[InHand.key] = "queue"
        BY <1>1, <1>3, PinIsMade
      <3>2. InHand.key \in begun
        BY <2>3, <3>1 DEF StartedOf
      <3>3. QED
        BY <1>1, <1>3, <2>3, <3>2, EventSet DEF Events
    <2>4. QED
      BY <2>1, <2>2, <2>3 DEF HandleStale, Handle, Handled, Xack
  <1>9. SourcesOK'
    <2>1. \A e \in con'.batch : mix.kind[e.key] = "queue"
      BY <1>1, <1>7
    <2>2. QED
      BY <1>1, <1>4, <1>5, <1>7, <1>8, <2>1, SourcesBy DEF Apart
  <1>10. QED
    BY <1>4, <1>5, <1>9, WaitersApart, InvParts DEF Apart

(* Stream entries, ticks and webhooks come and go. *)
LEMMA EventSteps ==
    ASSUME IInv, NEW k \in Keys,
           Produce(k) \/ Trim(k) \/ TickComes(k) \/ Fire(k) \/ Post(k)
    PROVE  IInv'
  <1>1. SourcesOK /\ firing \in Keys \cup {0}
    BY InvParts DEF SourcesOK, SourceTypes
  <1>2. UNCHANGED <<con, exec, bridge, procs>> /\ firing' \in {firing, k}
    BY DEF Produce, Trim, TickComes, Fire, Post
  <1>3. PICK v \in Events \ {"acked"} : event' = [event EXCEPT ![k] = v]
    BY DEF Produce, Trim, TickComes, Fire, Post, Events
  <1>4. Apart
    <2>1. CASE Produce(k) \/ TickComes(k) \/ Trim(k)
      <3>1. /\ UNCHANGED <<mix, ctlVars, stray, unitVars, gateway, auxVars>>
            /\ faults' = faults \/ Fault("trim")
        BY <2>1 DEF Produce, TickComes, Trim, dvars
      <3>2. QED
        BY <1>2, <3>1, NothingMoves DEF Fault
    <2>2. CASE Fire(k) \/ Post(k)
      <3>1. Admit(k) \/ AdmitNew(k) \/ AdmitRefused(k) \/ UNCHANGED dvars
        BY <2>2 DEF Fire, Post
      <3>2. CASE UNCHANGED dvars
        BY <1>2, <3>2, NothingMoves DEF dvars
      <3>3. QED
        BY <1>2, <3>1, <3>2, AdmitMoves
    <2>3. QED
      BY <2>1, <2>2
  <1>5. SourcesOK'
    <2>1. /\ event' \in [Keys -> Events]
          /\ \A j \in Keys : event'[j] = "acked" => event[j] = "acked" \/ j \in begun
      BY <1>1, <1>3, EventSet
    <2>2. firing' \in Keys \cup {0}
      BY <1>1, <1>2
    <2>3. QED
      BY <1>1, <1>2, <1>4, <2>1, <2>2, ConsumerKept, SourcesBy DEF Apart
  <1>6. QED
    BY <1>2, <1>4, <1>5, WaitersApart, InvParts DEF Apart

LEMMA FiredStep ==
    ASSUME IInv, Fired
    PROVE  IInv'
  <1>1. SourcesOK /\ firing \in Keys
    BY InvParts DEF SourcesOK, SourceTypes, Fired
  <1>2. UNCHANGED <<dvars, con, exec, bridge, procs>> /\ firing' = 0
    BY DEF Fired
  <1>3. PICK v \in {"fired", "dropped"} : event' = [event EXCEPT ![firing] = v]
    BY DEF Fired
  <1>4. Apart
    BY <1>2, NothingMoves DEF dvars
  <1>5. SourcesOK'
    <2>1. /\ event' \in [Keys -> Events]
          /\ \A j \in Keys : event'[j] = "acked" => event[j] = "acked" \/ j \in begun
      BY <1>1, <1>3, EventSet DEF Events
    <2>2. QED
      BY <1>1, <1>2, <1>4, <2>1, ConsumerKept, SourcesBy DEF Apart
  <1>6. QED
    BY <1>2, <1>4, <1>5, WaitersApart, InvParts DEF Apart

-----------------------------------------------------------------------------
(* The executes of a task. *)

(* One execute of task k changes to x, and its bridge to b. *)
LEMMA TaskStep ==
    ASSUME IInv, Apart, NEW k \in Keys, NEW w \in Waiters, NEW x \in ExecType, NEW b \in BridgeType,
           exec' = [exec EXCEPT ![k] = [exec[k] EXCEPT ![w] = x]], bridge' = [bridge EXCEPT ![k] = b],
           b.count = Cardinality(b.emitters), b.event = 0 => b.emitters = {},
           x.at \in {"started", "working"} => x.ev = b.event /\ Known(k)',
           x.at \in {"started", "working"} <=> w \in b.emitters,
           x.at = "working" => ticket'[k].started = "yes",
           \A v \in Waiters \ {w} :
              /\ v \in b.emitters <=> v \in bridge[k].emitters
              /\ v \in b.emitters => b.event = bridge[k].event
    PROVE  WaitersOK'
  <1>1. WaitersOK /\ BridgeOf(k)
    BY InvParts DEF WaitersOK, BridgeOK
  <1>2. /\ bridge' \in [Keys -> BridgeType] /\ bridge'[k] = b
        /\ \A j \in Keys \ {k} : bridge'[j] = bridge[j]
    BY <1>1 DEF WaitersOK, BridgeTypes
  <1>3. /\ exec' \in [Keys -> [Waiters -> ExecType]] /\ exec'[k][w] = x
        /\ \A v \in Waiters \ {w} : exec'[k][v] = exec[k][v]
        /\ \A j \in Keys \ {k} : exec'[j] = exec[j]
    BY <1>1 DEF WaitersOK, BridgeTypes
  <1>4. ASSUME NEW j \in Keys \ {k}
        PROVE  BridgeOf(j)'
    <2>1. BridgeOf(j)
      BY <1>1 DEF WaitersOK, BridgeOK
    <2>2. QED
      BY <1>2, <1>3, <2>1, QuietBridge DEF Apart, Heard
  <1>5. ASSUME NEW v \in Waiters \ {w}
        PROVE  /\ Inside(k, v)' => exec'[k][v].ev = bridge'[k].event /\ Known(k)'
               /\ Inside(k, v)' <=> v \in bridge'[k].emitters
               /\ exec'[k][v].at = "working" => ticket'[k].started = "yes"
    <2>1. Inside(k, v)' <=> Inside(k, v)
      BY <1>3 DEF Inside
    <2>2. exec[k][v].at = "working" => Inside(k, v)
      BY DEF Inside
    <2>3. /\ Inside(k, v) => exec[k][v].ev = bridge[k].event /\ Known(k)
          /\ Inside(k, v) <=> v \in bridge[k].emitters
          /\ exec[k][v].at = "working" => ticket[k].started = "yes"
      BY <1>1 DEF BridgeOf
    <2>4. Inside(k, v) => Known(k)' /\ (ticket[k].started = "yes" => ticket'[k].started = "yes")
      BY <2>3 DEF Apart, Heard
    <2>5. QED
      BY <1>2, <1>3, <2>1, <2>2, <2>3, <2>4
  <1>6. /\ Inside(k, w)' => exec'[k][w].ev = bridge'[k].event /\ Known(k)'
        /\ Inside(k, w)' <=> w \in bridge'[k].emitters
        /\ exec'[k][w].at = "working" => ticket'[k].started = "yes"
    BY <1>2, <1>3 DEF Inside
  <1>7. BridgeOf(k)'
    BY <1>2, <1>5, <1>6 DEF BridgeOf
  <1>8. QED
    BY <1>2, <1>3, <1>4, <1>7 DEF WaitersOK, BridgeOK, BridgeTypes

(* Who waits for a task, and how many. *)
LEMMA BridgeFacts ==
    ASSUME IInv, NEW k \in Keys, NEW w \in Waiters
    PROVE  /\ bridge[k] \in BridgeType /\ exec[k][w] \in ExecType /\ exec[k] \in [Waiters -> ExecType]
           /\ IsFiniteSet(bridge[k].emitters) /\ Cardinality(bridge[k].emitters) \in Nat
           /\ bridge[k].count = Cardinality(bridge[k].emitters)
           /\ Cardinality(Waiters) \in Nat /\ bridge[k].emitters \subseteq Waiters
           /\ Inside(k, w) <=> w \in bridge[k].emitters
           /\ Inside(k, w) => exec[k][w].ev = bridge[k].event /\ Known(k)
           /\ bridge[k].event = 0 => bridge[k].emitters = {}
           /\ WaitersOK
  <1>1. WaitersOK /\ BridgeOf(k)
    BY InvParts DEF WaitersOK, BridgeOK
  <1>2. bridge[k] \in BridgeType /\ exec[k] \in [Waiters -> ExecType]
    BY <1>1 DEF WaitersOK, BridgeTypes
  <1>3. bridge[k].emitters \in SUBSET Waiters
    BY <1>2 DEF BridgeType
  <1>4. IsFiniteSet(bridge[k].emitters) /\ Cardinality(Waiters) \in Nat
    BY <1>3, WaitersAssumption, FS_Subset, FS_CardinalityType
  <1>5. Cardinality(bridge[k].emitters) \in Nat
    BY <1>4, FS_CardinalityType
  <1>6. QED
    BY <1>1, <1>2, <1>3, <1>4, <1>5 DEF BridgeOf

LEMMA ExecuteStep ==
    ASSUME IInv, NEW k \in Keys, NEW w \in Waiters, Execute(k, w)
    PROVE  IInv'
  <1>1. Core /\ SourcesOK
    BY InvParts
  <1>2. UNCHANGED <<event, con, firing, procs>> /\ Admit(k) /\ (Known(k) \/ MayAdmit(k))
        /\ exec[k][w].at = "out"
    BY DEF Execute
  <1>3. Apart
    BY <1>2, AdmitMoves
  <1>4. Known(k)'
    <2>1. CASE MayAdmit(k)
      <3>1. ticket' = [ticket EXCEPT ![k] = [NoTicket EXCEPT !.owner = "own", !.gen = gens[k] + 1]]
        BY <1>2, <2>1 DEF Admit, AdmitNew
      <3>2. ticket'[k].owner = "own" /\ ticket'[k].completed = "pending"
        BY <1>1, <3>1 DEF NoTicket, Core, BookTypes
      <3>3. QED
        BY <3>2 DEF Known, Over
    <2>2. CASE ~MayAdmit(k)
      <3>1. ticket' = ticket /\ Known(k)
        BY <1>2, <2>2 DEF Admit, dvars, ctlVars
      <3>2. QED
        BY <3>1, KnownRest
    <2>3. QED
      BY <2>1, <2>2
  <1> DEFINE b == bridge[k]
             n == Register(k, w)
             x == [at |-> "started", ev |-> n.event]
  <1>5. b \in BridgeType /\ w \notin b.emitters /\ b.count = Cardinality(b.emitters)
        /\ (b.event = 0 => b.emitters = {})
    BY <1>2, BridgeFacts DEF Inside
  <1>6. /\ Cardinality(b.emitters \cup {w}) = b.count + 1
        /\ b.count + 1 \in 0..Cardinality(Waiters)
    <2>1. IsFiniteSet(b.emitters) /\ b.emitters \cup {w} \in SUBSET Waiters /\ b.count \in Nat
      BY BridgeFacts
    <2>2. Cardinality(b.emitters \cup {w}) = b.count + 1
      BY <1>5, <2>1, FS_AddElement
    <2>3. Cardinality(b.emitters \cup {w}) <= Cardinality(Waiters) /\ Cardinality(Waiters) \in Nat
      BY <2>1, WaitersAssumption, FS_Subset, BridgeFacts
    <2>4. QED
      BY <2>1, <2>2, <2>3
  <1>7. /\ n \in BridgeType /\ n.count = b.count + 1 /\ n.emitters = b.emitters \cup {w}
        /\ n.event = IF b.event = 0 THEN w ELSE b.event
    BY <1>5, <1>6 DEF Register, BridgeType
  <1>8. n.event # 0
    BY <1>7, WaitersAssumption
  <1> HIDE DEF n, b
  <1>9. x \in ExecType /\ x.at = "started" /\ x.ev = n.event
    BY <1>7 DEF ExecType, BridgeType
  <1>10. exec' = [exec EXCEPT ![k] = [exec[k] EXCEPT ![w] = x]] /\ bridge' = [bridge EXCEPT ![k] = n]
    <2>1. exec \in [Keys -> [Waiters -> ExecType]]
      BY BridgeFacts DEF WaitersOK, BridgeTypes
    <2>2. QED
      BY <2>1 DEF Execute, n
  <1> HIDE DEF x
  <1>11. \A v \in Waiters \ {w} :
              /\ v \in n.emitters <=> v \in bridge[k].emitters
              /\ v \in n.emitters => n.event = bridge[k].event
    BY <1>5, <1>7 DEF b
  <1>12. WaitersOK'
    <2>1. /\ n.count = Cardinality(n.emitters) /\ (n.event = 0 => n.emitters = {})
          /\ w \in n.emitters /\ x.at # "working" /\ x.at \in {"started", "working"}
      BY <1>6, <1>7, <1>8, <1>9
    <2>2. QED
      BY <1>3, <1>4, <1>7, <1>9, <1>10, <1>11, <2>1, TaskStep
  <1>13. SourcesOK'
    BY <1>1, <1>2, <1>3, SourcesRest DEF Apart
  <1>14. QED
    BY <1>3, <1>12, <1>13, InvParts DEF Apart

LEMMA ExecuteRefusedStep ==
    ASSUME IInv, NEW k \in Keys, NEW w \in Waiters, ExecuteRefused(k, w)
    PROVE  IInv'
  <1>1. SourcesOK
    BY InvParts
  <1>2. /\ UNCHANGED <<event, con, firing, bridge, procs>> /\ (AdmitRefused(k) \/ UNCHANGED dvars)
        /\ exec[k][w].at = "out" /\ exec' = [exec EXCEPT ![k][w].at = "answered"]
    BY DEF ExecuteRefused
  <1>3. Apart
    <2>1. CASE UNCHANGED dvars
      BY <1>2, <2>1, NothingMoves DEF dvars
    <2>2. QED
      BY <1>2, <2>1, AdmitMoves
  <1> DEFINE b == bridge[k]
             x == [exec[k][w] EXCEPT !.at = "answered"]
  <1>4. b \in BridgeType /\ w \notin b.emitters /\ b.count = Cardinality(b.emitters)
        /\ (b.event = 0 => b.emitters = {})
    BY <1>2, BridgeFacts DEF Inside
  <1>5. x \in ExecType /\ x.at = "answered"
    BY BridgeFacts DEF ExecType
  <1>6. exec' = [exec EXCEPT ![k] = [exec[k] EXCEPT ![w] = x]] /\ bridge' = [bridge EXCEPT ![k] = b]
    <2>1. exec \in [Keys -> [Waiters -> ExecType]] /\ bridge \in [Keys -> BridgeType]
      BY BridgeFacts DEF WaitersOK, BridgeTypes
    <2>2. QED
      BY <1>2, <2>1 DEF ExecType
  <1> HIDE DEF x
  <1>7. WaitersOK'
    <2>1. \A v \in Waiters \ {w} :
              /\ v \in b.emitters <=> v \in bridge[k].emitters
              /\ v \in b.emitters => b.event = bridge[k].event
      OBVIOUS
    <2> HIDE DEF b
    <2>2. x.at \notin {"started", "working"} /\ x.at # "working"
      BY <1>5
    <2>3. QED
      BY <1>3, <1>4, <1>5, <1>6, <2>1, <2>2, TaskStep
  <1>8. SourcesOK'
    BY <1>1, <1>2, <1>3, SourcesRest DEF Apart
  <1>9. QED
    BY <1>3, <1>7, <1>8, InvParts DEF Apart

(* Who leaves a task leaves the others as they are. *)
LEMMA LeaveFacts ==
    ASSUME IInv, NEW k \in Keys, NEW w \in Waiters, Inside(k, w), NEW b, b = Leave(k, w)
    PROVE  /\ b \in BridgeType /\ b.count = Cardinality(b.emitters) /\ w \notin b.emitters
           /\ b.event = 0 => b.emitters = {}
           /\ \A v \in Waiters \ {w} :
                 /\ v \in b.emitters <=> v \in bridge[k].emitters
                 /\ v \in b.emitters => b.event = bridge[k].event
  <1> DEFINE E == bridge[k].emitters
  <1>1. /\ bridge[k] \in BridgeType /\ IsFiniteSet(E) /\ E \subseteq Waiters /\ w \in E
        /\ bridge[k].count = Cardinality(E) /\ Cardinality(E) \in Nat /\ Cardinality(Waiters) \in Nat
        /\ bridge[k].event = 0 => E = {}
    BY BridgeFacts
  <1>2. IsFiniteSet(E \ {w}) /\ Cardinality(E \ {w}) = bridge[k].count - 1
        /\ Cardinality(E \ {w}) \in Nat
    BY <1>1, FS_RemoveElement, FS_CardinalityType
  <1>3. CASE bridge[k].count = 1
    <2>1. E \ {w} = {}
      BY <1>2, <1>3, FS_EmptySet
    <2>2. b = NoBridge
      BY <1>3 DEF Leave
    <2>3. b \in BridgeType /\ b.event = 0 /\ b.count = 0 /\ b.emitters = {}
      BY <1>1, <2>2 DEF NoBridge, BridgeType
    <2>4. QED
      BY <2>1, <2>3, FS_EmptySet
  <1>4. CASE bridge[k].count # 1
    <2>1. b = [bridge[k] EXCEPT !.count = @ - 1, !.emitters = @ \ {w}]
      BY <1>4 DEF Leave
    <2>2. bridge[k].count - 1 \in 0..Cardinality(Waiters)
      BY <1>1, <1>2 DEF BridgeType
    <2>3. b \in BridgeType /\ b.event = bridge[k].event /\ b.count = bridge[k].count - 1
          /\ b.emitters = E \ {w}
      BY <1>1, <2>1, <2>2 DEF BridgeType
    <2>4. QED
      BY <1>1, <1>2, <2>3
  <1>5. QED
    BY <1>3, <1>4

LEMMA WakesStep ==
    ASSUME IInv, NEW k \in Keys, NEW w \in Waiters, Wakes(k, w)
    PROVE  IInv'
  <1>1. SourcesOK
    BY InvParts
  <1>2. UNCHANGED <<dvars, event, con, firing, procs>> /\ Inside(k, w)
    BY DEF Wakes
  <1>3. Apart /\ ticket' = ticket
    BY <1>2, NothingMoves DEF dvars, ctlVars
  <1>4. exec \in [Keys -> [Waiters -> ExecType]] /\ bridge \in [Keys -> BridgeType]
        /\ exec[k][w] \in ExecType
    BY BridgeFacts DEF WaitersOK, BridgeTypes
  <1>5. WaitersOK'
    <2>1. ASSUME NEW s \in {"silent", "answered"}, exec' = [exec EXCEPT ![k][w].at = s],
                 bridge' = [bridge EXCEPT ![k] = Leave(k, w)]
          PROVE  WaitersOK'
      <3> DEFINE x == [exec[k][w] EXCEPT !.at = s]
                 b == Leave(k, w)
      <3>1. x \in ExecType /\ x.at = s
        BY <1>4 DEF ExecType
      <3>2. exec' = [exec EXCEPT ![k] = [exec[k] EXCEPT ![w] = x]]
        BY <1>4, <2>1 DEF ExecType
      <3>3. /\ b \in BridgeType /\ b.count = Cardinality(b.emitters) /\ w \notin b.emitters
            /\ b.event = 0 => b.emitters = {}
            /\ \A v \in Waiters \ {w} :
                 /\ v \in b.emitters <=> v \in bridge[k].emitters
                 /\ v \in b.emitters => b.event = bridge[k].event
        BY <1>2, LeaveFacts
      <3> HIDE DEF x, b
      <3>4. bridge' = [bridge EXCEPT ![k] = b] /\ x.at \notin {"started", "working"} /\ x.at # "working"
        BY <2>1, <3>1 DEF b
      <3>5. QED
        BY <1>3, <3>1, <3>2, <3>3, <3>4, TaskStep
    <2>2. ASSUME exec' = [exec EXCEPT ![k][w].at = "working"], bridge' = bridge,
                 ticket[k].started = "yes"
          PROVE  WaitersOK'
      <3> DEFINE x == [exec[k][w] EXCEPT !.at = "working"]
                 b == bridge[k]
      <3>1. x \in ExecType /\ x.at = "working" /\ x.ev = exec[k][w].ev
        BY <1>4 DEF ExecType
      <3>2. exec' = [exec EXCEPT ![k] = [exec[k] EXCEPT ![w] = x]] /\ bridge' = [bridge EXCEPT ![k] = b]
        BY <1>4, <2>2 DEF ExecType
      <3>3. /\ b \in BridgeType /\ b.count = Cardinality(b.emitters) /\ w \in b.emitters
            /\ b.event = 0 => b.emitters = {}
            /\ exec[k][w].ev = b.event /\ Known(k)
            /\ \A v \in Waiters \ {w} :
                 /\ v \in b.emitters <=> v \in bridge[k].emitters
                 /\ v \in b.emitters => b.event = bridge[k].event
        BY <1>2, BridgeFacts
      <3> HIDE DEF x, b
      <3>4. Known(k)' /\ ticket'[k].started = "yes"
        BY <1>3, <2>2, <3>3, KnownRest
      <3>5. QED
        BY <1>3, <3>1, <3>2, <3>3, <3>4, TaskStep
    <2>3. QED
      BY <2>1, <2>2 DEF Wakes
  <1>6. SourcesOK'
    BY <1>1, <1>2, <1>3, SourcesRest DEF Apart
  <1>7. QED
    BY <1>3, <1>5, <1>6, InvParts DEF Apart

(* The cancel events of a task are set. *)
LEMMA EventsSet ==
    ASSUME IInv, ticket' = ticket, exec' = exec, bridge' \in [Keys -> BridgeType],
           \A k \in Keys : /\ bridge'[k].event = bridge[k].event
                           /\ bridge'[k].count = bridge[k].count
                           /\ bridge'[k].emitters = bridge[k].emitters
    PROVE  WaitersOK'
  <1>1. WaitersOK
    BY InvParts
  <1>2. \A k \in Keys : \A w \in Waiters : Inside(k, w)' <=> Inside(k, w)
    BY DEF Inside
  <1>3. \A k \in Keys : BridgeOf(k)'
    BY <1>1, <1>2, KnownRest DEF WaitersOK, BridgeOK, BridgeOf
  <1>4. QED
    BY <1>1, <1>3 DEF WaitersOK, BridgeOK, BridgeTypes


LEMMA CancelTaskStep ==
    ASSUME IInv, NEW k \in Keys, CancelTask(k)
    PROVE  IInv'
  <1>1. SourcesOK /\ bridge \in [Keys -> BridgeType] /\ bridge[k] \in BridgeType
    BY InvParts DEF WaitersOK, BridgeTypes
  <1>2. UNCHANGED <<dvars, event, con, firing, exec, procs>> /\ bridge[k].event # 0
    BY DEF CancelTask
  <1>3. Apart /\ ticket' = ticket
    BY <1>2, NothingMoves DEF dvars, ctlVars
  <1> DEFINE n == [bridge[k] EXCEPT !.set = @ \cup {bridge[k].event}]
  <1>4. bridge[k].event \in Waiters
    BY <1>1, <1>2 DEF BridgeType
  <1>5. n \in BridgeType /\ n.event = bridge[k].event /\ n.count = bridge[k].count
        /\ n.emitters = bridge[k].emitters
    BY <1>1, <1>4 DEF BridgeType
  <1>6. bridge' = [bridge EXCEPT ![k] = n]
    BY <1>1 DEF CancelTask, BridgeType
  <1> HIDE DEF n
  <1>7. /\ bridge' \in [Keys -> BridgeType]
        /\ \A j \in Keys : /\ bridge'[j].event = bridge[j].event
                           /\ bridge'[j].count = bridge[j].count
                           /\ bridge'[j].emitters = bridge[j].emitters
    BY <1>1, <1>5, <1>6
  <1>8. WaitersOK'
    BY <1>2, <1>3, <1>7, EventsSet
  <1>9. SourcesOK'
    BY <1>1, <1>2, <1>3, SourcesRest DEF Apart
  <1>10. QED
    BY <1>3, <1>8, <1>9, InvParts DEF Apart

-----------------------------------------------------------------------------
(* The control starts, stops and crashes. *)

LEMMA Idle ==
    /\ ConOff \in ConType /\ ConOff.batch = {} /\ ConOff.at = "off"
    /\ ConStart \in ConType /\ ConStart.batch = {} /\ ConStart.at = "fetch"
    /\ NoBridge \in BridgeType /\ NoBridge.count = 0 /\ NoBridge.event = 0 /\ NoBridge.emitters = {}
    /\ NoTicket \in TicketType /\ NoTicket.owner = "none" /\ NoTicket.started = "pending"
    /\ NoTicket.completed = "pending" /\ NoTicket.elapsed = FALSE /\ NoTicket.gen = 0
    /\ NoRec \in RecType /\ NoRec.st = "none" /\ NoRec.gen = 0 /\ NoRec.started = "pending"
    /\ Cardinality({}) = 0
  <1>1. /\ ConOff \in ConType /\ ConOff.batch = {} /\ ConOff.at = "off"
        /\ ConStart \in ConType /\ ConStart.batch = {} /\ ConStart.at = "fetch"
    BY DEF ConOff, ConStart, ConType
  <1>2. NoBridge \in BridgeType /\ NoBridge.count = 0 /\ NoBridge.event = 0 /\ NoBridge.emitters = {}
    BY WaitersAssumption, FS_CardinalityType DEF NoBridge, BridgeType
  <1>3. /\ NoTicket \in TicketType /\ NoTicket.owner = "none" /\ NoTicket.started = "pending"
        /\ NoTicket.completed = "pending" /\ NoTicket.elapsed = FALSE /\ NoTicket.gen = 0
    BY DispatchAssumption DEF NoTicket, TicketType
  <1>4. NoRec \in RecType /\ NoRec.st = "none" /\ NoRec.gen = 0 /\ NoRec.started = "pending"
    BY DispatchAssumption DEF NoRec, RecType
  <1>5. QED
    BY <1>1, <1>2, <1>3, <1>4, FS_EmptySet

(* A consumer without entries. *)
LEMMA SourcesReset ==
    ASSUME SourcesOK, mix' = mix, begun' = begun,
           \/ con' = ConStart /\ UNCHANGED <<event, firing>>
           \/ SourcesEnd
    PROVE  SourcesOK'
  <1>1. /\ con' \in ConType /\ con'.batch = {} /\ con'.at \notin {"admit", "wait"}
    BY Idle DEF SourcesEnd
  <1>2. firing' \in Keys \cup {0}
    BY DEF SourcesOK, SourceTypes, SourcesEnd
  <1>3. /\ event' \in [Keys -> Events]
        /\ \A k \in Keys : event'[k] = "acked" => event[k] = "acked"
    <2>1. CASE event' = event
      BY <2>1 DEF SourcesOK, SourceTypes
    <2>2. CASE event' = [k \in Keys |-> Lost(k)]
      <3>1. \A k \in Keys : Lost(k) = event[k] \/ Lost(k) = "missed"
        BY DEF Lost
      <3>2. \A k \in Keys : Lost(k) \in Events
        BY <3>1 DEF SourcesOK, SourceTypes, Events
      <3>3. QED
        BY <2>2, <3>1, <3>2
    <2>3. QED
      BY <2>1, <2>2 DEF SourcesEnd
  <1>4. QED
    BY <1>1, <1>2, <1>3, SourcesBy

(* Every run that the unit has not finished is recovered by a ticket of its own. *)
LEMMA ServeStep ==
    ASSUME IInv, Serve
    PROVE  IInv'
  <1>1. Core /\ SourcesOK /\ WaitersOK /\ BookTypes /\ UnitTypes /\ BookOK /\ InstancesOK
    BY InvParts DEF Core, GenerationsOK
  <1>2. /\ UNCHANGED <<mix, gens, post, prepared, lost, stray, procs, unit, made, rec, archive>>
        /\ UNCHANGED <<gateway, faults, prompts, begun, outcome, event, firing, exec, bridge>>
        /\ control = "adopting" /\ control' = "serving" /\ active' = unit /\ con' = ConStart
        /\ phase' = [k \in Keys |-> IF Recovered(k) THEN "observe" ELSE "idle"]
        /\ pin' = [k \in Keys |-> IF Recovered(k) THEN unit ELSE 0]
    BY DEF Serve, Adopt, unitVars, auxVars
  <1>3. /\ \A k \in Keys : ticket[k] = NoTicket /\ phase[k] = "idle"
        /\ stray = {} /\ lost = {}
    BY <1>1, <1>2 DEF BookOK, BlankOK
  <1>4. ASSUME NEW k \in Keys
        PROVE  /\ ticket'[k] \in TicketType /\ ~ticket'[k].elapsed /\ ticket'[k].completed = "pending"
               /\ ~Recovered(k) => ticket'[k] = NoTicket
               /\ Recovered(k) => ticket'[k].owner = "recovered" /\ ticket'[k].gen = rec[k].gen
                                  /\ ticket'[k].started = "failed"
    <2>1. ticket'[k] = IF Recovered(k)
                       THEN [NoTicket EXCEPT !.owner = "recovered", !.gen = rec[k].gen, !.started = "failed"]
                       ELSE NoTicket
      BY DEF Serve, Adopt
    <2>2. rec[k].gen \in 0..MaxGen
      BY <1>1 DEF UnitTypes, RecType
    <2>3. QED
      BY <2>1, <2>2, Idle DEF TicketType
  <1>5. ticket' \in [Keys -> TicketType]
    <2>1. DOMAIN ticket' = Keys /\ ticket' = [k \in Keys |-> ticket'[k]]
      BY DEF Serve, Adopt
    <2>2. QED
      BY <1>4, <2>1
  <1>6. BookTypes' /\ UnitTypes'
    <2>1. phase' \in [Keys -> Phases] /\ pin' \in [Keys -> 0..MaxInst]
      BY <1>1, <1>2, DispatchAssumption DEF Phases, UnitTypes
    <2>2. active' \in 0..MaxInst
      BY <1>1, <1>2 DEF UnitTypes
    <2>3. QED
      BY <1>1, <1>2, <1>5, <2>1, <2>2 DEF BookTypes, UnitTypes
  <1>7. ASSUME NEW k \in Keys
        PROVE  BookOf(k)' /\ GenerationsOf(k)' /\ HoldingOf(k)' /\ StartedOf(k)'
    <2>1. BookOf(k) /\ GenerationsOf(k) /\ HoldingOf(k) /\ StartedOf(k) /\ unit \in Nat
      BY <1>1, PinIsMade
    <2>2. Recovered(k) => unit # 0 /\ rec[k].gen <= gens[k]
      BY <2>1, Idle DEF GenerationsOf, Recovered
    <2>3. /\ phase'[k] = IF Recovered(k) THEN "observe" ELSE "idle"
          /\ pin'[k] = IF Recovered(k) THEN unit ELSE 0
      BY <1>2
    <2>4. post[k] = "none" /\ k \notin procs
      BY <1>3, <2>1 DEF BookOf
    <2>5. BookOf(k)'
      BY <1>2, <1>4, <2>2, <2>3, <2>4, Idle DEF BookOf, Over, Pinned, Sending
    <2>6. \A g, i : OnlyAt(k, g, i) => OnlyAt(k, g, i)'
      BY <1>2 DEF OnlyAt
    <2>7. GenerationsOf(k)'
      BY <1>2, <2>1, <2>3, <2>6 DEF GenerationsOf, Early, Sending
    <2>8. HoldingOf(k)'
      <3>1. rec[k].st \in Live => Holds(k, rec[k].gen, unit)'
        BY <1>2, <1>4, <2>3 DEF Live, Recovered, Holds
      <3>2. QED
        BY <1>2, <1>3, <2>1, <3>1 DEF HoldingOf
    <2>9. StartedOf(k)'
      BY <1>2, <1>4, <2>1, Idle DEF StartedOf
    <2>10. QED
      BY <2>5, <2>7, <2>8, <2>9
  <1>8. InstancesOK'
    BY <1>1, <1>2, <1>3, DispatchAssumption DEF InstancesOK, UnitTypes
  <1>9. Core'
    BY <1>2, <1>6, <1>7, <1>8 DEF Core, BookOK, BlankOK, GenerationsOK, HoldingOK
  <1>10. SourcesOK'
    BY <1>1, <1>2, SourcesReset
  <1>11. WaitersOK'
    <2>1. \A k \in Keys : ~Known(k)
      BY <1>3, Idle DEF Known
    <2>2. \A k \in Keys : \A w \in Waiters : ~Inside(k, w)
      BY <1>1, <2>1 DEF WaitersOK, BridgeOK, BridgeOf
    <2>3. QED
      BY <1>1, <1>2, <2>2, WaitersRest
  <1>12. QED
    BY <1>9, <1>10, <1>11, InvParts

LEMMA ShutdownStep ==
    ASSUME IInv, Shutdown
    PROVE  IInv'
  <1>1. Core /\ SourcesOK /\ UnitTypes /\ bridge \in [Keys -> BridgeType]
    BY InvParts DEF Core, WaitersOK, BridgeTypes
  <1>2. /\ UNCHANGED <<mix, ticket, gens, phase, pin, post, prepared, active, lost, stray, procs>>
        /\ UNCHANGED <<unitVars, gateway, auxVars, exec>> /\ Fault("stop")
        /\ control' = "stopping" /\ SourcesEnd
    BY DEF Shutdown, StopControl
  <1>3. UnitsRest /\ begun' = begun
    BY <1>1, <1>2, UnitsRestBy DEF auxVars, Fault
  <1>4. BlankOK'
    BY <1>2 DEF BlankOK
  <1>5. Core'
    BY <1>1, <1>2, <1>3, <1>4, CoreRest
  <1>6. SourcesOK'
    BY <1>1, <1>2, <1>3, SourcesReset
  <1>7. WaitersOK'
    <2>1. bridge' = [k \in Keys |-> [bridge[k] EXCEPT !.set = @ \cup ({bridge[k].event} \ {0})]]
      BY DEF Shutdown
    <2>2. ASSUME NEW k \in Keys
          PROVE  /\ bridge'[k] \in BridgeType /\ bridge'[k].event = bridge[k].event
                 /\ bridge'[k].count = bridge[k].count /\ bridge'[k].emitters = bridge[k].emitters
      <3>1. bridge[k] \in BridgeType
        BY <1>1
      <3>2. {bridge[k].event} \ {0} \subseteq Waiters
        BY <3>1 DEF BridgeType
      <3>3. bridge'[k] = [bridge[k] EXCEPT !.set = @ \cup ({bridge[k].event} \ {0})]
        BY <2>1
      <3>4. QED
        BY <3>1, <3>2, <3>3 DEF BridgeType
    <2>3. bridge' \in [Keys -> BridgeType]
      <3>1. bridge' = [k \in Keys |-> bridge'[k]]
        BY <2>1
      <3>2. QED
        BY <2>2, <3>1
    <2>4. QED
      BY <1>2, <2>2, <2>3, EventsSet
  <1>8. QED
    BY <1>5, <1>6, <1>7, InvParts

LEMMA CrashStep ==
    ASSUME IInv, Crash
    PROVE  IInv'
  <1>1. Core /\ SourcesOK /\ WaitersOK /\ BookTypes /\ UnitTypes /\ InstancesOK
    BY InvParts DEF Core, GenerationsOK
  <1>2. /\ UNCHANGED <<mix, gens, unit, made, rec, archive, gateway, prompts, begun, outcome>>
        /\ control' = "down" /\ stray' = {} /\ prepared' = {} /\ active' = 0 /\ lost' = {} /\ procs' = {}
        /\ ticket' = [k \in Keys |-> NoTicket] /\ phase' = [k \in Keys |-> "idle"]
        /\ pin' = [k \in Keys |-> 0] /\ post' = [k \in Keys |-> "none"]
        /\ faults' = faults \/ Fault("crash")
        /\ SourcesEnd
    BY DEF Crash, CrashControl, unitVars, auxVars
  <1>3. faults' \in 0..MaxFaults
    BY <1>1, <1>2, FaultType DEF UnitTypes
  <1>4. BookTypes' /\ UnitTypes'
    BY <1>1, <1>2, <1>3, Idle, DispatchAssumption DEF BookTypes, UnitTypes, Phases, Posts
  <1>5. ASSUME NEW k \in Keys
        PROVE  BookOf(k)' /\ GenerationsOf(k)' /\ HoldingOf(k)' /\ StartedOf(k)'
    <2>1. GenerationsOf(k) /\ HoldingOf(k) /\ StartedOf(k)
      BY <1>1, PinIsMade
    <2>2. ticket'[k] = NoTicket /\ phase'[k] = "idle" /\ pin'[k] = 0 /\ post'[k] = "none"
      BY <1>2
    <2>3. BookOf(k)'
      BY <1>2, <2>2, Idle DEF BookOf, Over, Pinned, Sending
    <2>4. \A g, i : OnlyAt(k, g, i) => OnlyAt(k, g, i)'
      BY <1>2 DEF OnlyAt
    <2>5. GenerationsOf(k)'
      BY <1>2, <2>1, <2>2, <2>4 DEF GenerationsOf, Early, Sending
    <2>6. HoldingOf(k)'
      BY <1>2, <2>1 DEF HoldingOf
    <2>7. StartedOf(k)'
      BY <1>2, <2>1, <2>2, Idle DEF StartedOf
    <2>8. QED
      BY <2>3, <2>5, <2>6, <2>7
  <1>6. InstancesOK'
    BY <1>1, <1>2, DispatchAssumption DEF InstancesOK, UnitTypes
  <1>7. BlankOK'
    BY <1>2 DEF BlankOK
  <1>8. Core'
    BY <1>4, <1>5, <1>6, <1>7 DEF Core, BookOK, GenerationsOK, HoldingOK
  <1>9. SourcesOK'
    BY <1>1, <1>2, SourcesReset
  <1>10. WaitersOK'
    <2>1. exec \in [Keys -> [Waiters -> ExecType]]
      BY <1>1 DEF WaitersOK, BridgeTypes
    <2> DEFINE cut == [NoExec EXCEPT !.at = "lost"]
    <2>2. cut \in ExecType /\ cut.at = "lost"
      BY DEF NoExec, ExecType
    <2>3. exec' = [k \in Keys |-> [w \in Waiters |-> IF Inside(k, w) THEN cut ELSE exec[k][w]]]
          /\ bridge' = [k \in Keys |-> NoBridge]
      BY DEF Crash
    <2> HIDE DEF cut
    <2>4. exec' \in [Keys -> [Waiters -> ExecType]] /\ bridge' \in [Keys -> BridgeType]
      BY <2>1, <2>2, <2>3, Idle
    <2>5. ASSUME NEW k \in Keys, NEW w \in Waiters
          PROVE  exec'[k][w].at \notin {"started", "working"}
      <3>1. exec'[k][w] = IF Inside(k, w) THEN cut ELSE exec[k][w]
        BY <2>3
      <3>2. QED
        BY <2>2, <3>1 DEF Inside
    <2>6. \A k \in Keys : BridgeOf(k)'
      <3>1. \A k \in Keys : bridge'[k] = NoBridge
        BY <2>3
      <3>2. QED
        BY <2>5, <3>1, Idle DEF BridgeOf, Inside
    <2>7. QED
      BY <2>4, <2>6 DEF WaitersOK, BridgeTypes, BridgeOK
  <1>11. QED
    BY <1>8, <1>9, <1>10, InvParts

-----------------------------------------------------------------------------
(* The invariant is inductive. *)

LEMMA InitInv == Init => IInv
  <1> SUFFICES ASSUME Init
               PROVE  IInv
    OBVIOUS
  <1>1. /\ mix \in Mixes /\ control = "adopting" /\ stray = {} /\ prepared = {}
        /\ unit = 0 /\ made = 0 /\ active = 0 /\ lost = {} /\ gateway = TRUE /\ faults = mix.faults
        /\ begun = {} /\ procs = {} /\ con = ConOff /\ firing = 0
        /\ ticket = [k \in Keys |-> NoTicket] /\ gens = [k \in Keys |-> 0]
        /\ phase = [k \in Keys |-> "idle"] /\ pin = [k \in Keys |-> 0]
        /\ post = [k \in Keys |-> "none"] /\ rec = [k \in Keys |-> NoRec]
        /\ archive = [k \in Keys |-> NoRec] /\ prompts = [k \in Keys |-> {}]
        /\ outcome = [k \in Keys |-> {}] /\ event = [k \in Keys |-> "none"]
        /\ exec = [k \in Keys |-> [w \in Waiters |-> NoExec]] /\ bridge = [k \in Keys |-> NoBridge]
    BY DEF Init, DInit
  <1>2. BookTypes
    BY <1>1, Idle, DispatchAssumption DEF BookTypes, Phases, Posts
  <1>3. UnitTypes
    <2>1. mix.faults \in 0..MaxFaults
      BY <1>1, DispatchAssumption
    <2>2. QED
      BY <1>1, <2>1, Idle, DispatchAssumption DEF UnitTypes
  <1>4. ASSUME NEW k \in Keys
        PROVE  BookOf(k) /\ GenerationsOf(k) /\ HoldingOf(k) /\ StartedOf(k)
    <2>1. /\ ticket[k] = NoTicket /\ phase[k] = "idle" /\ pin[k] = 0 /\ post[k] = "none"
          /\ rec[k] = NoRec /\ archive[k] = NoRec /\ prompts[k] = {} /\ gens[k] = 0
      BY <1>1
    <2>2. BookOf(k)
      BY <1>1, <2>1, Idle DEF BookOf, Over, Pinned, Sending
    <2>3. GenerationsOf(k)
      BY <1>1, <2>1, Idle DEF GenerationsOf, Early, Sending, Live
    <2>4. HoldingOf(k) /\ StartedOf(k)
      BY <1>1, <2>1, Idle DEF HoldingOf, StartedOf
    <2>5. QED
      BY <2>2, <2>3, <2>4
  <1>5. BlankOK /\ InstancesOK
    BY <1>1 DEF BlankOK, InstancesOK
  <1>6. Core
    BY <1>2, <1>3, <1>4, <1>5 DEF Core, BookOK, GenerationsOK, HoldingOK
  <1>7. SourcesOK
    BY <1>1, Idle DEF SourcesOK, SourceTypes, ConsumerOK, AckedWasStarted, Events
  <1>8. WaitersOK
    <2>1. NoExec \in ExecType /\ NoExec.at = "out"
      BY DEF NoExec, ExecType
    <2>2. exec \in [Keys -> [Waiters -> ExecType]] /\ bridge \in [Keys -> BridgeType]
      BY <1>1, <2>1, Idle
    <2>3. ASSUME NEW k \in Keys
          PROVE  BridgeOf(k)
      <3>1. bridge[k] = NoBridge /\ \A w \in Waiters : exec[k][w] = NoExec
        BY <1>1
      <3>2. QED
        BY <2>1, <3>1, Idle DEF BridgeOf, Inside
    <2>4. QED
      BY <2>2, <2>3 DEF WaitersOK, BridgeTypes, BridgeOK
  <1>9. QED
    BY <1>6, <1>7, <1>8, InvParts

LEMMA StutterInv ==
    ASSUME IInv, UNCHANGED vars
    PROVE  IInv'
  <1>1. UNCHANGED <<dvars, event, con, firing, exec, bridge, procs>>
    BY DEF vars, cvars
  <1>2. Apart
    BY <1>1, NothingMoves DEF dvars
  <1>3. WaitersOK' /\ SourcesOK'
    BY <1>1, <1>2, WaitersApart, SourcesRest, InvParts DEF Apart
  <1>4. QED
    BY <1>2, <1>3, InvParts DEF Apart

LEMMA NextInv ==
    ASSUME IInv, Next
    PROVE  IInv'
  <1>1. ASSUME NEW k \in Keys, DeliveryStep(k)
        PROVE  IInv'
    <2>1. CASE RunnerStep(k)
      BY <2>1, EarlySteps, EarlyEnds, RestoreStep, SendStep, RequestSteps, StartedSteps, RejectedStep,
         ResolveSteps, ObservedEnds, SendCancelStep DEF RunnerStep
    <2>2. CASE DeadlinePasses(k) \/ Arrive(k) \/ LoseAnswer(k) \/ LoseRequest(k) \/ UnitStep(k)
      BY <2>2, MarkSteps, ArriveStep, RequestSteps, LoseRequestStep, UnitSteps
    <2>3. QED
      BY <1>1, <2>1, <2>2 DEF DeliveryStep
  <1>2. CASE SystemStep
    BY <1>2, StrayStep, StopSteps, ActivateStep, GatewaySteps DEF SystemStep
  <1>3. CASE ChannelStep
    <2>1. CASE QueueStep \/ Fired \/ Serve \/ Shutdown \/ Crash
      BY <2>1, FetchSteps, HandleSteps, FiredStep, ServeStep, ShutdownStep, CrashStep DEF QueueStep
    <2>2. ASSUME NEW k \in Keys,
                 \/ Produce(k) \/ Trim(k) \/ TickComes(k) \/ Fire(k) \/ Post(k)
                 \/ ScriptSpawns(k) \/ ScriptSpawnFails(k) \/ ScriptExits(k) \/ ScriptTimesOut(k)
                 \/ CancelTask(k) \/ WindowPasses(k)
          PROVE  IInv'
      BY <2>2, EventSteps, StartedSteps, EarlyEnds, CancelTaskStep, MarkSteps
    <2>3. ASSUME NEW k \in Keys, NEW w \in Waiters, Execute(k, w) \/ ExecuteRefused(k, w) \/ Wakes(k, w)
          PROVE  IInv'
      BY <2>3, ExecuteStep, ExecuteRefusedStep, WakesStep
    <2>4. QED
      BY <1>3, <2>1, <2>2, <2>3 DEF ChannelStep
  <1>4. QED
    BY <1>1, <1>2, <1>3 DEF Next

LEMMA Inductive == Spec => []IInv
  <1>1. IInv /\ [Next]_vars => IInv'
    BY NextInv, StutterInv
  <1>2. QED
    BY <1>1, InitInv, PTL DEF Spec

-----------------------------------------------------------------------------
(* What the invariant is for. *)

(* The books of the channels, the runners and the units keep their shape whatever
   is lost, late, crashed or restarted: tickets and phases of Control.run, the
   consumer's batch and cursor, and the counts of the A2A bridge. *)
THEOREM ChannelTypes == Spec => []TypeOK
  <1>1. IInv => TypeOK
    BY DEF IInv
  <1>2. QED
    BY <1>1, Inductive, PTL

(* Delivery.start sends an admission again only to the instance it was sent to: of
   one generation no two instances ever get the prompt, for any number of instances,
   requests left on the wire, and restarts of the unit and of the control. *)
THEOREM StartsReachOneInstance == Spec => []OneInstancePerStart
  <1>1. IInv => OneInstancePerStart
    BY DEF IInv, GenerationsOK, GenerationsOf, OnlyAt, OneInstancePerStart
  <1>2. QED
    BY <1>1, Inductive, PTL

(* QueueConsumer acknowledges an entry only after a unit has published Started for
   its delivery, whatever crashed, timed out or was redelivered in between. *)
THEOREM AckedAreStarted == Spec => []AckedWasStarted
  <1>1. IInv => AckedWasStarted
    BY DEF IInv, StartedOK
  <1>2. QED
    BY <1>1, Inductive, PTL

(* A run of the published unit, and the process of a script or a hook, are held by
   a ticket that is not over: permits are never given back under running work, and
   until its deadline the run is the owner of its artifacts. *)
THEOREM RunningWorkIsHeld == Spec => []WorkIsHeld
  <1>1. ASSUME IInv
        PROVE  WorkIsHeld
    <2>1. Core /\ InstancesOK
      BY <1>1, InvParts DEF Core, GenerationsOK
    <2>2. ASSUME NEW k \in Keys, Busy(k)
          PROVE  /\ phase[k] \in Sending \cup {"observe"} /\ pin[k] = active
                 /\ active # 0 /\ active \notin lost
      <3>1. HoldingOf(k)
        BY <2>1, PinIsMade
      <3>2. QED
        BY <2>1, <2>2, <3>1 DEF Busy, HoldingOf, Holds, Live, InstancesOK
    <2>3. ASSUME NEW k \in Keys, Busy(k) \/ k \in procs
          PROVE  ticket[k].owner # "none" /\ ~Over(k)
      <3>1. BookOf(k)
        BY <2>1, PinIsMade
      <3>2. phase[k] # "idle"
        BY <2>2, <2>3, <3>1 DEF BookOf, Sending
      <3>3. QED
        BY <3>1, <3>2 DEF BookOf
    <2>4. ASSUME NEW k \in Keys, Busy(k)
          PROVE  ticket[k].late \/ ArtifactOwner(k)
      <3>1. BookOf(k) /\ ticket[k] \in TicketType
        BY <2>1, PinIsMade
      <3>2. ticket[k].owner \in {"own", "recovered"} /\ ~Over(k)
        BY <2>3, <2>4, <3>1 DEF TicketType
      <3>3. ticket[k].owner = "own" => k \in prepared
        BY <2>2, <2>4, <3>1 DEF BookOf
      <3>4. QED
        BY <2>2, <2>4, <3>2, <3>3 DEF ArtifactOwner, OwnedNow
    <2>5. QED
      BY <2>3, <2>4 DEF WorkIsHeld
  <1>2. QED
    BY <1>1, Inductive, PTL

(* A2AAgentExecutorBridge: the executes of a task share one cancel event for as long
   as one of them waits, each is counted until it leaves, and what the run tells
   its user reaches every execute that reported "working". *)
THEOREM TaskWaitersAreReached == Spec => []WaitersAreReached
  <1>1. ASSUME IInv
        PROVE  WaitersAreReached
    <2>1. Core /\ InstancesOK /\ BridgeOK
      BY <1>1, InvParts DEF Core, GenerationsOK, WaitersOK
    <2>2. ASSUME NEW k \in Keys, NEW w \in Waiters
          PROVE  /\ Inside(k, w) => exec[k][w].ev = bridge[k].event
                 /\ Inside(k, w) <=> w \in bridge[k].emitters
                 /\ exec[k][w].at = "working" => w \in bridge[k].emitters /\ ticket[k].started = "yes"
      BY <2>1 DEF BridgeOK, BridgeOf, Inside
    <2>3. ASSUME NEW k \in Keys, Busy(k), ticket[k].started = "yes"
          PROVE  OwnedNow /\ k \in prepared
      <3>1. BookOf(k) /\ HoldingOf(k) /\ ticket[k] \in TicketType
        BY <2>1, PinIsMade
      <3>2. phase[k] \in Sending \cup {"observe"} /\ active # 0 /\ active \notin lost
        BY <2>1, <2>3, <3>1 DEF Busy, HoldingOf, Holds, Live, InstancesOK
      <3>3. ticket[k].owner = "own"
        BY <2>3, <3>1, <3>2 DEF BookOf, TicketType, Sending
      <3>4. QED
        BY <3>1, <3>2, <3>3 DEF BookOf, OwnedNow
    <2>4. QED
      BY <2>2, <2>3 DEF WaitersAreReached, InformUser
  <1>2. QED
    BY <1>1, Inductive, PTL

=============================================================================
