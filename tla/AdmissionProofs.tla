--------------------------- MODULE AdmissionProofs ---------------------------
(***************************************************************************)
(* Proofs about Admission, for any number of deliveries, sessions and      *)
(* generations, and every plan of who sends what.                          *)
(*                                                                         *)
(* The invariant says who answers for a record.  A ticket in a lane owns   *)
(* its key and holds capacity (HeldOK); a pending future belongs to such a *)
(* ticket, or to one that close() is about to sweep (PendingOK); a live    *)
(* monitor is the registered one of the generation that owns the key       *)
(* (MonitorsOK); the counter is the number of unreleased records (CountOK).*)
(***************************************************************************)
EXTENDS Admission, ProofFacts

-----------------------------------------------------------------------------
(* The inductive invariant. *)

(* The tickets in a lane: those in its queue and the one being handled. *)
Entries(l) == ToSet(queue[l]) \cup ({current[l]} \ {NoTicket})

(* The ticket is the generation its key holds, and its capacity is not back. *)
Owns(t) == tickets[Key(t)] = Gen(t) /\ Key(t) \notin released

LaneOK(l) ==
    /\ stage[l] = "none" => queue[l] = <<>>
    /\ stage[l] \in {"new", "next"} => queue[l] # <<>>
    /\ current[l] # NoTicket <=> stage[l] \in {"permits", "running"}
    /\ Distinct(queue[l])
    /\ current[l] \notin ToSet(queue[l])
LanesOK == \A l \in Lanes : LaneOK(l)

HeldOK == \A l \in Lanes : \A t \in Entries(l) : plan.lane[Key(t)] = l /\ Owns(t)

Pending(t) == started[t] = "pending" \/ completed[t] = "pending"
PendingOK ==
    \A t \in Tickets : Pending(t) =>
        /\ Owns(t)
        /\ Key(t) \notin expired
        /\ closing = "lanes" \/ Held(t)

MonitorsOK ==
    \A t \in Tickets : monitorTask[t] = "live" =>
        /\ monitors[Key(t)] = Gen(t)
        /\ Owns(t)
        /\ closing # "closed"

RecordsOK ==
    /\ \A k \in Keys : tickets[k] # 0 => k \notin recovered
    /\ \A k \in released : tickets[k] # 0 \/ k \in recovered
    /\ \A k \in expired : tickets[k] # 0
    /\ windowOver \subseteq released

RecoveriesOK ==
    \A k \in Keys :
        /\ recCompleted[k] = "pending" => k \in recovered \ released
        /\ observer[k] = "live" => k \in recovered \ released /\ closing = "open"

Active == {k \in Keys : (tickets[k] # 0 \/ k \in recovered) /\ k \notin released}
CountOK == queuedTotal = Cardinality(Active)

ClosedOK ==
    closing = "closed" => (\A l \in Lanes : stage[l] = "none") /\ Active = {}

IInv ==
    /\ TypeOK /\ LanesOK /\ HeldOK /\ PendingOK /\ MonitorsOK
    /\ RecordsOK /\ RecoveriesOK /\ CountOK /\ ClosedOK

-----------------------------------------------------------------------------
(* Tickets. *)

LEMMA TicketParts ==
    /\ NoTicket \notin Tickets
    /\ \A t \in Tickets : Key(t) \in Keys /\ Gen(t) \in 1 .. MaxGen /\ t = <<Key(t), Gen(t)>>
    /\ \A k \in Keys, g \in 1 .. MaxGen :
          <<k, g>> \in Tickets /\ Key(<<k, g>>) = k /\ Gen(<<k, g>>) = g
    /\ \A t, u \in Tickets : Key(t) = Key(u) /\ Gen(t) = Gen(u) => t = u
  <1>1. \A t \in Tickets : t # NoTicket
    BY DEF Tickets, NoTicket
  <1>2. QED
    BY <1>1 DEF Tickets, Key, Gen

-----------------------------------------------------------------------------
(* What the helpers of the handlers do. *)

KeysOf(ts) == {Key(t) : t \in ts}

LEMMA HeldEntries ==
    ASSUME NEW t \in Tickets
    PROVE  /\ Held(t) <=> \E l \in Lanes : t \in Entries(l)
           /\ Held(t)' <=> \E l \in Lanes : t \in Entries(l)'
  BY TicketParts DEF Held, Queued, Entries

LEMMA EntriesAreTickets ==
    ASSUME TypeOK
    PROVE  \A l \in Lanes : Entries(l) \subseteq Tickets
  <1>1. \A l \in Lanes : queue[l] \in Seq(Tickets) /\ current[l] \in Tickets \cup {NoTicket}
    BY DEF TypeOK
  <1>2. QED
    BY <1>1, EntriesTyped DEF Entries

LEMMA ResolveFacts ==
    ASSUME TypeOK, NEW ts, Resolve(ts)
    PROVE  /\ started' \in [Tickets -> FutureStates]
           /\ completed' \in [Tickets -> FutureStates]
           /\ \A t \in Tickets : Pending(t)' => Pending(t) /\ t \notin ts
  BY DEF TypeOK, Resolve, Pending, FutureStates

LEMMA CancelFacts ==
    ASSUME TypeOK, MonitorsOK, NEW ts \in SUBSET Tickets,
           \A t \in ts : tickets[Key(t)] = Gen(t), CancelMonitors(ts)
    PROVE  /\ expired' = expired \ KeysOf(ts)
           /\ monitors' \in [Keys -> 0 .. MaxGen]
           /\ monitorTask' \in [Tickets -> {"none", "live", "cancelling", "fired", "done"}]
           /\ \A t \in Tickets : monitorTask'[t] = "live" =>
                 /\ monitorTask[t] = "live"
                 /\ Key(t) \notin KeysOf(ts)
                 /\ monitors'[Key(t)] = monitors[Key(t)]
  <1>1. Owned(ts) = ts
    BY DEF Owned
  <1>2. /\ expired' = expired \ KeysOf(ts)
        /\ monitors' = [k \in Keys |-> IF k \in KeysOf(ts) THEN 0 ELSE monitors[k]]
        /\ monitorTask' = [t \in Tickets |->
              IF Key(t) \in KeysOf(ts) /\ monitors[Key(t)] = Gen(t) /\ monitorTask[t] = "live"
              THEN "cancelling" ELSE monitorTask[t]]
    BY <1>1 DEF CancelMonitors, KeysOf
  <1>3. 0 \in 0 .. MaxGen
    BY LimitsAssumption
  <1>4. monitors' \in [Keys -> 0 .. MaxGen]
    BY <1>2, <1>3 DEF TypeOK
  <1>5. monitorTask' \in [Tickets -> {"none", "live", "cancelling", "fired", "done"}]
    BY <1>2 DEF TypeOK
  <1>6. ASSUME NEW t \in Tickets, monitorTask'[t] = "live"
        PROVE  /\ monitorTask[t] = "live"
               /\ Key(t) \notin KeysOf(ts)
               /\ monitors'[Key(t)] = monitors[Key(t)]
    <2>1. monitorTask[t] = "live" /\ ~(Key(t) \in KeysOf(ts) /\ monitors[Key(t)] = Gen(t))
      BY <1>2, <1>6
    <2>2. monitors[Key(t)] = Gen(t)
      BY <2>1 DEF MonitorsOK
    <2>3. QED
      BY <1>2, <2>1, <2>2, TicketParts
  <1>7. QED
    BY <1>2, <1>4, <1>5, <1>6

LEMMA ActiveFinite ==
    IsFiniteSet(Active) /\ IsFiniteSet(Active') /\ Cardinality(Active) \in Nat
  <1>1. Active \in SUBSET Keys /\ Active' \in SUBSET Keys
    BY DEF Active
  <1>2. QED
    BY <1>1, KeysAssumption, FS_Subset, FS_CardinalityType

(* Giving capacity back once per record keeps the counter exact. *)
LEMMA ReleaseCounts ==
    ASSUME TypeOK, CountOK, NEW ks \in SUBSET Keys, ks \ released \subseteq Active,
           Release(ks), UNCHANGED <<tickets, recovered>>
    PROVE  /\ CountOK' /\ queuedTotal' \in Nat
           /\ released' = released \cup ks /\ released' \in SUBSET Keys
           /\ Active' = Active \ ks
  <1>1. released' = released \cup ks /\ queuedTotal' = queuedTotal - Cardinality(ks \ released)
    BY DEF Release
  <1>2. Active' = Active \ ks /\ Active \ ks = Active \ (ks \ released)
    BY <1>1 DEF Active
  <1>3. ks \ released \in SUBSET Active
    OBVIOUS
  <1>4. /\ Cardinality(Active \ (ks \ released)) = Cardinality(Active) - Cardinality(ks \ released)
        /\ Cardinality(Active \ (ks \ released)) \in Nat
    BY <1>3, ActiveFinite, CardRemoved
  <1>5. queuedTotal' = Cardinality(Active') /\ queuedTotal' \in Nat
    BY <1>1, <1>2, <1>4 DEF CountOK
  <1>6. QED
    BY <1>1, <1>2, <1>5 DEF CountOK, TypeOK

-----------------------------------------------------------------------------
(* The steps of the invariant that several actions share. *)

OtherLanes(l) ==
    \A m \in Lanes \ {l} :
        queue'[m] = queue[m] /\ stage'[m] = stage[m] /\ current'[m] = current[m]
LanesTyped ==
    /\ queue \in [Lanes -> Seq(Tickets)]
    /\ stage \in [Lanes -> Stages]
    /\ current \in [Lanes -> Tickets \cup {NoTicket}]

LEMMA OtherLanesOK ==
    ASSUME LanesOK, NEW l \in Lanes, OtherLanes(l), LaneOK(l)'
    PROVE  LanesOK' /\ \A m \in Lanes \ {l} : Entries(m)' = Entries(m)
  BY DEF LanesOK, LaneOK, OtherLanes, Entries

(* Tickets that leave a lane are retired and answered: a dequeue of one that is
   too late, the end of a run, the drain of a cancelled lane. *)
LEMMA Retired ==
    ASSUME IInv, closing # "closed", NEW l \in Lanes, NEW ts \in SUBSET Entries(l),
           Retire(ts),
           Resolve(ts) \/ (KeysOf(ts) \subseteq expired /\ UNCHANGED futures),
           LanesTyped', OtherLanes(l), LaneOK(l)', Entries(l)' = Entries(l) \ ts,
           UNCHANGED <<plan, tickets, lastGen, recoveries, closing, overdue, windowOver>>
    PROVE  IInv'
  <1> USE DEF IInv
  <1>1. ts \in SUBSET Tickets /\ \A t \in ts : Key(t) \in Keys /\ Owns(t) /\ plan.lane[Key(t)] = l
    BY EntriesAreTickets, TicketParts DEF HeldOK
  <1>2. KeysOf(ts) \in SUBSET Keys
    BY <1>1 DEF KeysOf
  <1>3. KeysOf(ts) \ released \subseteq Active
    <2>1. ASSUME NEW t \in ts PROVE Key(t) \in Active
      <3>1. tickets[Key(t)] = Gen(t) /\ Gen(t) # 0 /\ Key(t) \notin released
        BY <1>1, TicketParts DEF Owns
      <3>2. QED
        BY <1>1, <3>1 DEF Active
    <2>2. QED
      BY <2>1 DEF KeysOf
  <1>4. UNCHANGED <<plan, tickets, lastGen, recovered, observer, recCompleted, closing, overdue,
                    windowOver>>
    BY DEF recoveries
  <1>5. Release(KeysOf(ts)) /\ CancelMonitors(ts)
    BY DEF Retire, KeysOf
  <1>6. /\ CountOK' /\ queuedTotal' \in Nat /\ released' \in SUBSET Keys
        /\ released' = released \cup KeysOf(ts) /\ Active' = Active \ KeysOf(ts)
    BY <1>2, <1>3, <1>4, <1>5, ReleaseCounts
  <1>7. /\ expired' = expired \ KeysOf(ts)
        /\ monitors' \in [Keys -> 0 .. MaxGen]
        /\ monitorTask' \in [Tickets -> {"none", "live", "cancelling", "fired", "done"}]
        /\ \A t \in Tickets : monitorTask'[t] = "live" =>
              /\ monitorTask[t] = "live"
              /\ Key(t) \notin KeysOf(ts)
              /\ monitors'[Key(t)] = monitors[Key(t)]
    BY <1>1, <1>5, CancelFacts DEF Owns
  <1>8. /\ started' \in [Tickets -> FutureStates] /\ completed' \in [Tickets -> FutureStates]
        /\ \A t \in Tickets : Pending(t)' => Pending(t) /\ t \notin ts
    <2>1. CASE Resolve(ts)
      BY <2>1, ResolveFacts
    <2>2. CASE KeysOf(ts) \subseteq expired /\ UNCHANGED futures
      <3>1. started' = started /\ completed' = completed
        BY <2>2 DEF futures
      <3>2. \A t \in ts : Key(t) \in expired
        BY <2>2 DEF KeysOf
      <3>3. \A t \in Tickets : Pending(t) => t \notin ts
        BY <3>2 DEF PendingOK
      <3>4. QED
        BY <3>1, <3>3 DEF TypeOK, Pending
    <2>3. QED
      BY <2>1, <2>2
  <1>9. TypeOK'
    BY <1>4, <1>6, <1>7, <1>8 DEF TypeOK, LanesTyped
  <1>10. LanesOK' /\ \A m \in Lanes \ {l} : Entries(m)' = Entries(m)
    BY OtherLanesOK
  <1>11. \A m \in Lanes : \A t \in Entries(m)' : t \in Entries(m) /\ t \in Tickets /\ t \notin ts
    <2>1. ASSUME NEW m \in Lanes, NEW t \in Entries(m)'
          PROVE  t \in Entries(m) /\ t \in Tickets /\ t \notin ts
      <3>1. t \in Entries(m) /\ t \in Tickets
        BY <1>10, EntriesAreTickets
      <3>2. t \notin ts
        BY <1>1, <1>10, <3>1 DEF HeldOK
      <3>3. QED
        BY <3>1, <3>2
    <2>2. QED
      BY <2>1
  <1>12. \A t \in Tickets : Owns(t) /\ t \notin ts => Owns(t)'
    <2>1. ASSUME NEW t \in Tickets, Owns(t), t \notin ts PROVE Owns(t)'
      <3>1. \A u \in ts : Key(u) # Key(t)
        BY <1>1, <2>1, TicketParts DEF Owns
      <3>2. QED
        BY <1>4, <1>6, <2>1, <3>1 DEF Owns, KeysOf
    <2>2. QED
      BY <2>1
  <1>13. HeldOK'
    BY <1>4, <1>11, <1>12 DEF HeldOK
  <1>14. PendingOK'
    <2>1. ASSUME NEW t \in Tickets, Pending(t)'
          PROVE  Owns(t)' /\ Key(t) \notin expired' /\ (closing' = "lanes" \/ Held(t)')
      <3>1. Pending(t) /\ t \notin ts
        BY <1>8, <2>1
      <3>2. Owns(t) /\ Key(t) \notin expired /\ (closing = "lanes" \/ Held(t))
        BY <3>1 DEF PendingOK
      <3>3. Held(t) => Held(t)'
        BY <1>10, <3>1, HeldEntries
      <3>4. QED
        BY <1>4, <1>7, <1>12, <3>1, <3>2, <3>3
    <2>2. QED
      BY <2>1 DEF PendingOK
  <1>15. MonitorsOK'
    <2>1. ASSUME NEW t \in Tickets, monitorTask'[t] = "live"
          PROVE  monitors'[Key(t)] = Gen(t) /\ Owns(t)' /\ closing' # "closed"
      <3>1. monitorTask[t] = "live" /\ t \notin ts /\ monitors'[Key(t)] = monitors[Key(t)]
        BY <1>7, <2>1 DEF KeysOf
      <3>2. QED
        BY <1>4, <1>12, <3>1 DEF MonitorsOK
    <2>2. QED
      BY <2>1 DEF MonitorsOK
  <1>16. RecordsOK'
    <2>1. \A t \in ts : tickets[Key(t)] # 0
      BY <1>1, TicketParts DEF Owns
    <2>2. \A k \in KeysOf(ts) : tickets[k] # 0
      BY <2>1 DEF KeysOf
    <2>3. QED
      BY <1>4, <1>6, <1>7, <2>2 DEF RecordsOK
  <1>17. RecoveriesOK'
    <2>1. \A k \in recovered : k \notin KeysOf(ts)
      <3>1. \A t \in ts : tickets[Key(t)] # 0
        BY <1>1, TicketParts DEF Owns
      <3>2. QED
        BY <1>1, <3>1 DEF KeysOf, RecordsOK
    <2>2. QED
      BY <1>4, <1>6, <2>1 DEF RecoveriesOK
  <1>18. ClosedOK'
    BY <1>4 DEF ClosedOK
  <1>19. QED
    BY <1>6, <1>9, <1>10, <1>13, <1>14, <1>15, <1>16, <1>17, <1>18

(* A step that leaves the records, the futures and the monitors alone. *)
LEMMA LaneOnly ==
    ASSUME IInv, NEW l \in Lanes, LanesTyped', OtherLanes(l), LaneOK(l)',
           Entries(l)' = Entries(l), closing # "closed",
           UNCHANGED <<plan, tickets, lastGen, recoveries, queuedTotal, released, watch, futures,
                       closing, overdue, windowOver>>
    PROVE  IInv'
  <1> USE DEF IInv
  <1>1. UNCHANGED <<plan, tickets, lastGen, recovered, observer, recCompleted, queuedTotal,
                    released, expired, monitors, monitorTask, started, completed, closing,
                    overdue, windowOver>>
    BY DEF recoveries, watch, futures
  <1>2. LanesOK' /\ \A m \in Lanes : Entries(m)' = Entries(m)
    BY OtherLanesOK
  <1>3. TypeOK'
    BY <1>1 DEF TypeOK, LanesTyped
  <1>4. HeldOK'
    BY <1>1, <1>2 DEF HeldOK, Owns
  <1>5. \A t \in Tickets : Held(t)' <=> Held(t)
    BY <1>2, HeldEntries
  <1>6. PendingOK'
    BY <1>1, <1>5 DEF PendingOK, Pending, Owns
  <1>7. MonitorsOK' /\ RecordsOK' /\ RecoveriesOK'
    BY <1>1 DEF MonitorsOK, RecordsOK, RecoveriesOK, Owns
  <1>8. CountOK' /\ ClosedOK'
    BY <1>1 DEF CountOK, ClosedOK, Active
  <1>9. QED
    BY <1>2, <1>3, <1>4, <1>6, <1>7, <1>8

-----------------------------------------------------------------------------
(* The consumer of a lane. *)

(* What a lane is at each stage. *)
LEMMA LaneFacts ==
    ASSUME IInv, NEW l \in Lanes
    PROVE  /\ queue[l] \in Seq(Tickets) /\ Distinct(queue[l])
           /\ stage[l] \in {"new", "next"} =>
                 queue[l] # <<>> /\ current[l] = NoTicket /\ Entries(l) = ToSet(queue[l])
           /\ stage[l] \in {"permits", "running"} =>
                 /\ current[l] \in Tickets /\ current[l] \notin ToSet(queue[l])
                 /\ Entries(l) = ToSet(queue[l]) \cup {current[l]}
           /\ stage[l] # "none" => closing # "closed"
  <1>1. /\ queue[l] \in Seq(Tickets)
        /\ stage[l] \in Stages
        /\ current[l] \in Tickets \cup {NoTicket}
        /\ LaneOK(l)
    BY DEF IInv, TypeOK, LanesOK
  <1>2. stage[l] # "none" => closing # "closed"
    BY DEF IInv, ClosedOK
  <1>3. stage[l] \in {"new", "next"} => stage[l] \notin {"permits", "running"}
    OBVIOUS
  <1>4. QED
    BY <1>1, <1>2, <1>3 DEF LaneOK, Entries

LEMMA AfterFacts ==
    ASSUME IInv, NEW l \in Lanes, NEW rest \in Seq(Tickets), Distinct(rest),
           AfterTicket(l, rest), queue' = [queue EXCEPT ![l] = rest]
    PROVE  LanesTyped' /\ OtherLanes(l) /\ LaneOK(l)' /\ Entries(l)' = ToSet(rest)
  <1>1. LanesTyped
    BY DEF IInv, TypeOK, LanesTyped
  <1>2. (IF rest = <<>> THEN "none" ELSE "next") \in Stages
    BY DEF Stages
  <1>3. LanesTyped'
    BY <1>1, <1>2 DEF LanesTyped, AfterTicket
  <1>4. /\ queue'[l] = rest /\ current'[l] = NoTicket
        /\ stage'[l] = IF rest = <<>> THEN "none" ELSE "next"
    BY <1>1 DEF LanesTyped, AfterTicket
  <1>5. OtherLanes(l)
    BY <1>1 DEF LanesTyped, AfterTicket, OtherLanes
  <1>6. NoTicket \notin ToSet(rest)
    BY EntriesTyped, TicketParts
  <1>7. LaneOK(l)'
    BY <1>4, <1>6 DEF LaneOK
  <1>8. Entries(l)' = ToSet(rest)
    BY <1>4 DEF Entries
  <1>9. QED
    BY <1>3, <1>5, <1>7, <1>8

LEMMA DequeueKeeps ==
    ASSUME IInv, NEW l \in Lanes, Dequeue(l)
    PROVE  IInv'
  <1> DEFINE t == Head(queue[l])
  <1>1. stage[l] \in {"new", "next"} /\ closing # "closed"
    BY LaneFacts DEF Dequeue
  <1>2. /\ queue[l] \in Seq(Tickets) /\ Distinct(queue[l]) /\ queue[l] # <<>>
        /\ current[l] = NoTicket /\ Entries(l) = ToSet(queue[l])
    BY <1>1, LaneFacts
  <1>3. /\ t \in Entries(l) /\ t \in Tickets
        /\ Tail(queue[l]) \in Seq(Tickets) /\ Distinct(Tail(queue[l]))
        /\ ToSet(Tail(queue[l])) = Entries(l) \ {t}
    BY <1>2, TakeHead
  <1>4. queue' = [queue EXCEPT ![l] = Tail(queue[l])]
    BY DEF Dequeue, IInv, TypeOK
  <1>5. UNCHANGED <<plan, tickets, lastGen, recoveries, closing, overdue, windowOver>>
    BY DEF Dequeue
  <1>6. CASE /\ IF Key(t) \in expired THEN UNCHANGED futures ELSE Resolve({t})
             /\ Retire({t})
             /\ AfterTicket(l, Tail(queue[l]))
    <2>1. {t} \in SUBSET Entries(l)
      BY <1>3
    <2>2. Resolve({t}) \/ (KeysOf({t}) \subseteq expired /\ UNCHANGED futures)
      BY <1>6 DEF KeysOf
    <2>3. LanesTyped' /\ OtherLanes(l) /\ LaneOK(l)' /\ Entries(l)' = Entries(l) \ {t}
      BY <1>3, <1>4, <1>6, AfterFacts
    <2> HIDE DEF t
    <2>4. QED
      BY <1>1, <1>5, <1>6, <2>1, <2>2, <2>3, Retired
  <1>7. CASE /\ Key(t) \notin expired
             /\ CancelMonitors({t})
             /\ stage' = [stage EXCEPT ![l] = "permits"]
             /\ current' = [current EXCEPT ![l] = t]
             /\ UNCHANGED <<futures, queuedTotal, released>>
    <2> HIDE DEF t
    <2> USE DEF IInv
    <2>1. LanesTyped' /\ OtherLanes(l)
      BY <1>3, <1>4, <1>7 DEF TypeOK, LanesTyped, OtherLanes, Stages
    <2>2. queue'[l] = Tail(queue[l]) /\ stage'[l] = "permits" /\ current'[l] = t
      BY <1>4, <1>7 DEF TypeOK
    <2>3. LaneOK(l)' /\ Entries(l)' = Entries(l)
      BY <1>3, <2>2, TicketParts DEF LaneOK, Entries
    <2>4. LanesOK' /\ \A m \in Lanes : Entries(m)' = Entries(m)
      BY <2>1, <2>3, OtherLanesOK
    <2>5. \A u \in {t} : tickets[Key(u)] = Gen(u)
      BY <1>3 DEF HeldOK, Owns
    <2>6. /\ expired' = expired \ KeysOf({t})
          /\ monitors' \in [Keys -> 0 .. MaxGen]
          /\ monitorTask' \in [Tickets -> {"none", "live", "cancelling", "fired", "done"}]
          /\ \A u \in Tickets : monitorTask'[u] = "live" =>
                monitorTask[u] = "live" /\ monitors'[Key(u)] = monitors[Key(u)]
      BY <1>3, <1>7, <2>5, CancelFacts
    <2>7. UNCHANGED <<plan, tickets, lastGen, recovered, observer, recCompleted, queuedTotal,
                      released, started, completed, closing, overdue, windowOver>>
      BY <1>5, <1>7 DEF recoveries, futures
    <2>8. TypeOK'
      BY <2>1, <2>6, <2>7 DEF TypeOK, LanesTyped
    <2>9. HeldOK'
      BY <2>4, <2>7 DEF HeldOK, Owns
    <2>10. \A u \in Tickets : Held(u)' <=> Held(u)
      BY <2>4, HeldEntries
    <2>11. PendingOK'
      BY <2>6, <2>7, <2>10 DEF PendingOK, Pending, Owns
    <2>12. MonitorsOK'
      BY <2>6, <2>7 DEF MonitorsOK, Owns
    <2>13. RecordsOK' /\ RecoveriesOK'
      BY <2>6, <2>7 DEF RecordsOK, RecoveriesOK
    <2>14. CountOK' /\ ClosedOK'
      BY <1>1, <2>7 DEF CountOK, ClosedOK, Active
    <2>15. QED
      BY <2>4, <2>8, <2>9, <2>11, <2>12, <2>13, <2>14
  <1>8. QED
    BY <1>6, <1>7 DEF Dequeue

LEMMA EndTicketKeeps ==
    ASSUME IInv, NEW l \in Lanes, stage[l] \in {"permits", "running"},
           Resolve({current[l]}), EndTicket(l)
    PROVE  IInv'
  <1>1. /\ queue[l] \in Seq(Tickets) /\ Distinct(queue[l]) /\ closing # "closed"
        /\ current[l] \in Tickets /\ current[l] \notin ToSet(queue[l])
        /\ Entries(l) = ToSet(queue[l]) \cup {current[l]}
    BY LaneFacts
  <1>2. queue' = [queue EXCEPT ![l] = queue[l]] /\ AfterTicket(l, queue[l])
    BY DEF EndTicket, IInv, TypeOK
  <1>3. LanesTyped' /\ OtherLanes(l) /\ LaneOK(l)' /\ Entries(l)' = ToSet(queue[l])
    BY <1>1, <1>2, AfterFacts
  <1>4. Entries(l)' = Entries(l) \ {current[l]} /\ {current[l]} \in SUBSET Entries(l)
    BY <1>1, <1>3
  <1>5. /\ Retire({current[l]})
        /\ UNCHANGED <<plan, tickets, lastGen, recoveries, closing, overdue, windowOver>>
    BY DEF EndTicket
  <1>6. QED
    BY <1>1, <1>3, <1>4, <1>5, Retired

LEMMA AcquireKeeps ==
    ASSUME IInv, NEW l \in Lanes, AcquirePermits(l)
    PROVE  IInv'
  <1>1. stage[l] = "permits" /\ closing # "closed"
    BY LaneFacts DEF AcquirePermits
  <1>2. queue' = queue /\ current' = current /\ stage' = [stage EXCEPT ![l] = "running"]
    BY DEF AcquirePermits
  <1>3. LanesTyped' /\ OtherLanes(l) /\ Entries(l)' = Entries(l)
    BY <1>2 DEF IInv, TypeOK, LanesTyped, OtherLanes, Entries, Stages
  <1>4. LaneOK(l)'
    BY <1>1, <1>2 DEF IInv, TypeOK, LanesOK, LaneOK
  <1>5. QED
    BY <1>1, <1>3, <1>4, LaneOnly DEF AcquirePermits

LEMMA LaneCancelledKeeps ==
    ASSUME IInv, NEW l \in Lanes, LaneCancelled(l)
    PROVE  IInv'
  <1> DEFINE ts == ToSet(queue[l]) \cup {current[l]}
  <1>1. closing = "lanes" /\ stage[l] \in {"new", "permits", "running"}
    BY DEF LaneCancelled
  <1>2. /\ queue' = [queue EXCEPT ![l] = <<>>] /\ stage' = [stage EXCEPT ![l] = "none"]
        /\ current' = [current EXCEPT ![l] = NoTicket]
        /\ UNCHANGED <<plan, tickets, lastGen, recoveries, closing, overdue, windowOver>>
    BY DEF LaneCancelled
  <1>3. <<>> \in Seq(Tickets)
    OBVIOUS
  <1>4. LanesTyped' /\ OtherLanes(l)
    BY <1>2, <1>3 DEF IInv, TypeOK, LanesTyped, OtherLanes, Stages
  <1>5. queue'[l] = <<>> /\ stage'[l] = "none" /\ current'[l] = NoTicket
    BY <1>2 DEF IInv, TypeOK
  <1>6. LaneOK(l)' /\ Entries(l)' = {}
    BY <1>5, EmptyQueue DEF LaneOK, Entries
  <1>7. CASE stage[l] = "new"
    <2> USE DEF IInv
    <2>1. UNCHANGED <<plan, tickets, lastGen, recovered, observer, recCompleted, queuedTotal,
                      released, expired, monitors, monitorTask, started, completed, closing,
                      overdue, windowOver>>
      BY <1>2, <1>7 DEF LaneCancelled, recoveries, watch, futures
    <2>2. LanesOK' /\ \A m \in Lanes \ {l} : Entries(m)' = Entries(m)
      BY <1>4, <1>6, OtherLanesOK
    <2>3. TypeOK'
      BY <1>4, <2>1 DEF TypeOK, LanesTyped
    <2>4. HeldOK'
      BY <1>6, <2>1, <2>2 DEF HeldOK, Owns
    <2>5. PendingOK'
      BY <1>1, <2>1 DEF PendingOK, Pending, Owns
    <2>6. MonitorsOK' /\ RecordsOK' /\ RecoveriesOK'
      BY <2>1 DEF MonitorsOK, RecordsOK, RecoveriesOK, Owns
    <2>7. CountOK' /\ ClosedOK'
      BY <1>1, <2>1 DEF CountOK, ClosedOK, Active
    <2>8. QED
      BY <2>2, <2>3, <2>4, <2>5, <2>6, <2>7
  <1>8. CASE stage[l] # "new"
    <2>1. Entries(l) = ts
      BY <1>1, <1>8, LaneFacts
    <2>2. Resolve(ts) /\ Retire(ts)
      BY <1>8 DEF LaneCancelled
    <2>3. ts \in SUBSET Entries(l) /\ Entries(l)' = Entries(l) \ ts
      BY <1>6, <2>1
    <2> HIDE DEF ts
    <2>4. QED
      BY <1>1, <1>2, <1>4, <1>6, <2>2, <2>3, Retired
  <1>9. QED
    BY <1>7, <1>8

-----------------------------------------------------------------------------
(* Futures, time and monitors: steps that leave lanes and records alone. *)

LEMMA WatchOnly ==
    ASSUME IInv, TypeOK',
           \A t \in Tickets : Pending(t)' => Pending(t),
           \A t \in Tickets : Pending(t)' => Key(t) \notin expired',
           \A t \in Tickets : monitorTask'[t] = "live" =>
              monitorTask[t] = "live" /\ monitors'[Key(t)] = monitors[Key(t)],
           \A k \in expired' : tickets[k] # 0,
           windowOver' \subseteq released,
           UNCHANGED <<plan, tickets, recoveries, queuedTotal, released, lanes, closing>>
    PROVE  IInv'
  <1> USE DEF IInv
  <1>1. UNCHANGED <<plan, tickets, recovered, observer, recCompleted, queuedTotal, released,
                    queue, stage, current, closing>>
    BY DEF recoveries, lanes
  <1>2. LanesOK' /\ HeldOK'
    BY <1>1 DEF LanesOK, LaneOK, HeldOK, Entries, Owns
  <1>3. PendingOK'
    BY <1>1 DEF PendingOK, Owns, Held, Queued
  <1>4. MonitorsOK'
    BY <1>1 DEF MonitorsOK, Owns
  <1>5. RecordsOK' /\ RecoveriesOK'
    BY <1>1 DEF RecordsOK, RecoveriesOK
  <1>6. CountOK' /\ ClosedOK'
    BY <1>1 DEF CountOK, ClosedOK, Active
  <1>7. QED
    BY <1>2, <1>3, <1>4, <1>5, <1>6

LEMMA RunnerStartsKeeps ==
    ASSUME IInv, NEW l \in Lanes, RunnerStarts(l)
    PROVE  IInv'
  <1> DEFINE c == current[l]
  <1>1. c \in Tickets
    BY LaneFacts DEF RunnerStarts
  <1>2. /\ started' = [started EXCEPT ![c] = "done"] /\ completed' = completed
        /\ UNCHANGED <<plan, tickets, lastGen, recoveries, queuedTotal, released, watch,
                       lanes, closing, overdue, windowOver>>
    BY DEF RunnerStarts
  <1> HIDE DEF c
  <1>3. UNCHANGED <<expired, monitors, monitorTask>>
    BY <1>2 DEF watch
  <1>4. TypeOK'
    BY <1>1, <1>2, <1>3 DEF IInv, TypeOK, FutureStates, recoveries, lanes
  <1>5. \A t \in Tickets : Pending(t)' => Pending(t)
    BY <1>1, <1>2 DEF IInv, TypeOK, Pending
  <1>6. \A t \in Tickets : Pending(t)' => Key(t) \notin expired'
    BY <1>3, <1>5 DEF IInv, PendingOK
  <1>7. (\A k \in expired' : tickets[k] # 0) /\ windowOver' \subseteq released
    BY <1>2, <1>3 DEF IInv, RecordsOK
  <1>8. QED
    BY <1>2, <1>3, <1>4, <1>5, <1>6, <1>7, WatchOnly

LEMMA CallerCancelsKeeps ==
    ASSUME IInv, NEW c \in Tickets, CallerCancels(c)
    PROVE  IInv'
  <1>2. /\ completed' = [completed EXCEPT ![c] = "done"] /\ started' = started
        /\ UNCHANGED <<plan, tickets, lastGen, recoveries, queuedTotal, released, watch,
                       lanes, closing, overdue, windowOver>>
    BY DEF CallerCancels
  <1>3. UNCHANGED <<expired, monitors, monitorTask>>
    BY <1>2 DEF watch
  <1>4. TypeOK'
    BY <1>2, <1>3 DEF IInv, TypeOK, FutureStates, recoveries, lanes
  <1>5. \A t \in Tickets : Pending(t)' => Pending(t)
    BY <1>2 DEF IInv, TypeOK, Pending
  <1>6. \A t \in Tickets : Pending(t)' => Key(t) \notin expired'
    BY <1>3, <1>5 DEF IInv, PendingOK
  <1>7. (\A k \in expired' : tickets[k] # 0) /\ windowOver' \subseteq released
    BY <1>2, <1>3 DEF IInv, RecordsOK
  <1>8. QED
    BY <1>2, <1>3, <1>4, <1>5, <1>6, <1>7, WatchOnly

LEMMA DeadlinePassesKeeps ==
    ASSUME IInv, NEW t \in Tickets, DeadlinePasses(t)
    PROVE  IInv'
  <1>1. /\ overdue' = overdue \cup {t}
        /\ UNCHANGED <<plan, tickets, lastGen, recoveries, queuedTotal, released, watch, futures,
                       lanes, closing, windowOver>>
    BY DEF DeadlinePasses
  <1>2. UNCHANGED <<expired, monitors, monitorTask, started, completed>>
    BY <1>1 DEF watch, futures
  <1>3. TypeOK'
    BY <1>1, <1>2 DEF IInv, TypeOK, recoveries, lanes
  <1>4. \A u \in Tickets : Pending(u)' => Pending(u) /\ Key(u) \notin expired'
    BY <1>2 DEF Pending, IInv, PendingOK
  <1>5. (\A k \in expired' : tickets[k] # 0) /\ windowOver' \subseteq released
    BY <1>1, <1>2 DEF IInv, RecordsOK
  <1>6. QED
    BY <1>1, <1>2, <1>3, <1>4, <1>5, WatchOnly

LEMMA WindowPassesKeeps ==
    ASSUME IInv, NEW k \in Keys, WindowPasses(k)
    PROVE  IInv'
  <1>1. /\ windowOver' = windowOver \cup {k} /\ k \in released
        /\ UNCHANGED <<plan, tickets, lastGen, recoveries, queuedTotal, released, watch, futures,
                       lanes, closing, overdue>>
    BY DEF WindowPasses
  <1>2. UNCHANGED <<expired, monitors, monitorTask, started, completed>>
    BY <1>1 DEF watch, futures
  <1>3. TypeOK'
    BY <1>1, <1>2 DEF IInv, TypeOK, recoveries, lanes
  <1>4. \A u \in Tickets : Pending(u)' => Pending(u) /\ Key(u) \notin expired'
    BY <1>2 DEF Pending, IInv, PendingOK
  <1>5. (\A x \in expired' : tickets[x] # 0) /\ windowOver' \subseteq released
    BY <1>1, <1>2 DEF IInv, RecordsOK
  <1>6. QED
    BY <1>1, <1>2, <1>3, <1>4, <1>5, WatchOnly

(* The monitor's marker is for the generation that owns the key, so that the
   dequeue finds the futures of exactly that one answered. *)
LEMMA MonitorFiresKeeps ==
    ASSUME IInv, NEW t \in Tickets, MonitorFires(t)
    PROVE  IInv'
  <1>1. /\ monitorTask[t] = "live" /\ monitorTask' = [monitorTask EXCEPT ![t] = "fired"]
        /\ monitors' = [monitors EXCEPT ![Key(t)] = IF @ = Gen(t) THEN 0 ELSE @]
        /\ expired' = expired \cup {Key(t)} /\ Resolve({t})
        /\ UNCHANGED <<plan, tickets, lastGen, recoveries, queuedTotal, released, lanes, closing,
                       overdue, windowOver>>
    BY DEF MonitorFires
  <1>2. Owns(t) /\ Key(t) \in Keys /\ tickets[Key(t)] # 0
    BY <1>1, TicketParts DEF IInv, MonitorsOK, Owns
  <1>3. /\ started' \in [Tickets -> FutureStates] /\ completed' \in [Tickets -> FutureStates]
        /\ \A u \in Tickets : Pending(u)' => Pending(u) /\ u # t
    BY <1>1, ResolveFacts DEF IInv
  <1>4. 0 \in 0 .. MaxGen
    BY LimitsAssumption
  <1>5. monitors' \in [Keys -> 0 .. MaxGen]
    BY <1>1, <1>4 DEF IInv, TypeOK
  <1>6. monitorTask' \in [Tickets -> {"none", "live", "cancelling", "fired", "done"}]
    BY <1>1 DEF IInv, TypeOK
  <1>7. TypeOK'
    BY <1>1, <1>2, <1>3, <1>5, <1>6 DEF IInv, TypeOK, recoveries, lanes
  <1>8. ASSUME NEW u \in Tickets, Pending(u)' PROVE Key(u) \notin expired'
    <2>1. Pending(u) /\ u # t
      BY <1>3, <1>8
    <2>2. Key(u) \notin expired /\ Owns(u)
      BY <2>1 DEF IInv, PendingOK
    <2>3. Key(u) # Key(t)
      BY <1>2, <2>1, <2>2, TicketParts DEF Owns
    <2>4. QED
      BY <1>1, <2>2, <2>3
  <1>9. ASSUME NEW u \in Tickets, monitorTask'[u] = "live"
        PROVE  monitorTask[u] = "live" /\ monitors'[Key(u)] = monitors[Key(u)]
    <2>1. monitorTask[u] = "live" /\ u # t
      BY <1>1, <1>9 DEF IInv, TypeOK
    <2>2. Owns(u) /\ Key(u) \in Keys
      BY <2>1, TicketParts DEF IInv, MonitorsOK
    <2>3. Key(u) # Key(t)
      BY <1>2, <2>1, <2>2, TicketParts DEF Owns
    <2>4. QED
      BY <1>1, <2>1, <2>2, <2>3 DEF IInv, TypeOK
  <1>10. (\A k \in expired' : tickets[k] # 0) /\ windowOver' \subseteq released
    BY <1>1, <1>2 DEF IInv, RecordsOK
  <1>11. QED
    BY <1>1, <1>3, <1>7, <1>8, <1>9, <1>10, WatchOnly

LEMMA MonitorEndsKeeps ==
    ASSUME IInv, NEW t \in Tickets, MonitorEnds(t)
    PROVE  IInv'
  <1>1. /\ monitorTask[t] = "cancelling" /\ monitorTask' = [monitorTask EXCEPT ![t] = "done"]
        /\ monitors' = [monitors EXCEPT ![Key(t)] = IF @ = Gen(t) THEN 0 ELSE @]
        /\ UNCHANGED <<plan, tickets, lastGen, recoveries, queuedTotal, released, expired,
                       started, completed, lanes, closing, overdue, windowOver>>
    BY DEF MonitorEnds, futures
  <1>2. Key(t) \in Keys /\ 0 \in 0 .. MaxGen
    BY TicketParts, LimitsAssumption
  <1>3. monitors' \in [Keys -> 0 .. MaxGen]
    BY <1>1, <1>2 DEF IInv, TypeOK
  <1>4. monitorTask' \in [Tickets -> {"none", "live", "cancelling", "fired", "done"}]
    BY <1>1 DEF IInv, TypeOK
  <1>5. TypeOK'
    BY <1>1, <1>3, <1>4 DEF IInv, TypeOK, recoveries, lanes
  <1>6. ASSUME NEW u \in Tickets, monitorTask'[u] = "live"
        PROVE  monitorTask[u] = "live" /\ monitors'[Key(u)] = monitors[Key(u)]
    <2>1. monitorTask[u] = "live" /\ u # t
      BY <1>1, <1>6 DEF IInv, TypeOK
    <2>2. monitors[Key(u)] = Gen(u) /\ Key(u) \in Keys
      BY <2>1, TicketParts DEF IInv, MonitorsOK
    <2>3. Key(u) = Key(t) => monitors[Key(t)] # Gen(t)
      BY <2>1, <2>2, TicketParts
    <2>4. QED
      BY <1>1, <2>1, <2>2, <2>3 DEF IInv, TypeOK
  <1>7. \A u \in Tickets : Pending(u)' => Pending(u) /\ Key(u) \notin expired'
    BY <1>1 DEF Pending, IInv, PendingOK
  <1>8. (\A k \in expired' : tickets[k] # 0) /\ windowOver' \subseteq released
    BY <1>1 DEF IInv, RecordsOK
  <1>9. QED
    BY <1>1, <1>5, <1>6, <1>7, <1>8, WatchOnly

-----------------------------------------------------------------------------
(* Recovered runs, and close(). *)

LEMMA RecoveredReleased ==
    ASSUME IInv, closing = "open", closing' \in {"open", "recoveries"},
           NEW ks \in SUBSET (recovered \ released), Release(ks),
           observer' \in [Keys -> {"none", "live", "done"}],
           recCompleted' \in [Keys -> FutureStates],
           \A k \in Keys : observer'[k] = "live" =>
              observer[k] = "live" /\ k \notin ks /\ closing' = "open",
           \A k \in Keys : recCompleted'[k] = "pending" => recCompleted[k] = "pending" /\ k \notin ks,
           UNCHANGED <<plan, tickets, lastGen, recovered, watch, futures, lanes, overdue, windowOver>>
    PROVE  IInv'
  <1> USE DEF IInv
  <1>1. UNCHANGED <<plan, tickets, lastGen, recovered, expired, monitors, monitorTask, started,
                    completed, queue, stage, current, overdue, windowOver>>
    BY DEF watch, futures, lanes
  <1>2. ks \in SUBSET Keys /\ ks \ released \subseteq Active
    BY DEF TypeOK, Active
  <1>3. /\ CountOK' /\ queuedTotal' \in Nat /\ released' \in SUBSET Keys
        /\ released' = released \cup ks
    BY <1>1, <1>2, ReleaseCounts
  <1>4. TypeOK'
    BY <1>1, <1>3 DEF TypeOK
  <1>5. ASSUME NEW t \in Tickets, Owns(t) PROVE Owns(t)'
    <2>1. tickets[Key(t)] # 0 /\ Key(t) \in Keys
      BY <1>5, TicketParts DEF Owns
    <2>2. Key(t) \notin ks
      BY <2>1 DEF RecordsOK
    <2>3. QED
      BY <1>1, <1>3, <1>5, <2>2 DEF Owns
  <1>6. LanesOK'
    BY <1>1 DEF LanesOK, LaneOK
  <1>7. HeldOK'
    BY <1>1, <1>5, EntriesAreTickets DEF HeldOK, Entries
  <1>8. PendingOK'
    BY <1>1, <1>5 DEF PendingOK, Pending, Held, Queued
  <1>9. MonitorsOK'
    BY <1>1, <1>5 DEF MonitorsOK
  <1>10. RecordsOK'
    BY <1>1, <1>3 DEF RecordsOK
  <1>11. RecoveriesOK'
    BY <1>1, <1>3 DEF RecoveriesOK
  <1>12. ClosedOK'
    BY DEF ClosedOK
  <1>13. QED
    BY <1>3, <1>4, <1>6, <1>7, <1>8, <1>9, <1>10, <1>11, <1>12

LEMMA ObserverEndsKeeps ==
    ASSUME IInv, NEW k \in Keys, ObserverEnds(k)
    PROVE  IInv'
  <1>1. /\ observer[k] = "live" /\ observer' = [observer EXCEPT ![k] = "done"]
        /\ recCompleted' = [recCompleted EXCEPT ![k] = "done"] /\ Release({k})
        /\ UNCHANGED <<plan, tickets, lastGen, recovered, watch, futures, lanes, closing, overdue,
                       windowOver>>
    BY DEF ObserverEnds
  <1>2. k \in recovered \ released /\ closing = "open"
    BY <1>1 DEF IInv, RecoveriesOK
  <1>3. /\ observer' \in [Keys -> {"none", "live", "done"}]
        /\ recCompleted' \in [Keys -> FutureStates]
        /\ \A x \in Keys : observer'[x] = "live" => observer[x] = "live" /\ x \notin {k}
        /\ \A x \in Keys : recCompleted'[x] = "pending" =>
              recCompleted[x] = "pending" /\ x \notin {k}
    BY <1>1 DEF IInv, TypeOK, FutureStates
  <1>4. {k} \in SUBSET (recovered \ released)
    BY <1>2
  <1>5. QED
    BY <1>1, <1>2, <1>3, <1>4, RecoveredReleased

LEMMA ObserverFailsKeeps ==
    ASSUME IInv, NEW k \in Keys, ObserverFails(k)
    PROVE  IInv'
  <1> USE DEF IInv
  <1>1. UNCHANGED <<plan, tickets, lastGen, recovered, recCompleted, queuedTotal, released,
                    expired, monitors, monitorTask, started, completed, queue, stage, current,
                    closing, overdue, windowOver>>
    BY DEF ObserverFails, watch, futures, lanes
  <1>2. observer' = [observer EXCEPT ![k] = "done"]
    BY DEF ObserverFails
  <1>3. TypeOK' /\ RecoveriesOK'
    BY <1>1, <1>2 DEF TypeOK, RecoveriesOK
  <1>4. LanesOK' /\ HeldOK'
    BY <1>1 DEF LanesOK, LaneOK, HeldOK, Entries, Owns
  <1>5. PendingOK' /\ MonitorsOK'
    BY <1>1 DEF PendingOK, Pending, Held, Queued, Owns, MonitorsOK
  <1>6. RecordsOK' /\ CountOK' /\ ClosedOK'
    BY <1>1 DEF RecordsOK, CountOK, ClosedOK, Active
  <1>7. QED
    BY <1>3, <1>4, <1>5, <1>6

LEMMA CloseBeginsKeeps ==
    ASSUME IInv, CloseBegins
    PROVE  IInv'
  <1> DEFINE live == {k \in Keys : observer[k] = "live"}
  <1>1. /\ closing = "open" /\ closing' = "recoveries" /\ Release(live)
        /\ observer' = [k \in Keys |-> IF k \in live THEN "done" ELSE observer[k]]
        /\ recCompleted' = [k \in Keys |-> IF k \in live THEN "done" ELSE recCompleted[k]]
        /\ UNCHANGED <<plan, tickets, lastGen, recovered, watch, futures, lanes, overdue,
                       windowOver>>
    BY DEF CloseBegins
  <1>2. live \in SUBSET (recovered \ released)
    BY DEF IInv, RecoveriesOK
  <1>3. /\ observer' \in [Keys -> {"none", "live", "done"}]
        /\ recCompleted' \in [Keys -> FutureStates]
        /\ \A k \in Keys : observer'[k] # "live"
        /\ \A k \in Keys : recCompleted'[k] = "pending" =>
              recCompleted[k] = "pending" /\ k \notin live
    BY <1>1 DEF IInv, TypeOK, FutureStates
  <1> HIDE DEF live
  <1>4. QED
    BY <1>1, <1>2, <1>3, RecoveredReleased

LEMMA CloseCancelsLanesKeeps ==
    ASSUME IInv, CloseCancelsLanes
    PROVE  IInv'
  <1> USE DEF IInv
  <1>1. /\ closing = "recoveries" /\ closing' = "lanes"
        /\ UNCHANGED <<plan, tickets, lastGen, recovered, observer, recCompleted, queuedTotal,
                       released, expired, monitors, monitorTask, started, completed, queue,
                       stage, current, overdue, windowOver>>
    BY DEF CloseCancelsLanes, recoveries, watch, futures, lanes
  <1>2. TypeOK' /\ RecoveriesOK'
    BY <1>1 DEF TypeOK, RecoveriesOK
  <1>3. LanesOK' /\ HeldOK'
    BY <1>1 DEF LanesOK, LaneOK, HeldOK, Entries, Owns
  <1>4. PendingOK' /\ MonitorsOK'
    BY <1>1 DEF PendingOK, Pending, Owns, MonitorsOK
  <1>5. RecordsOK' /\ CountOK' /\ ClosedOK'
    BY <1>1 DEF RecordsOK, CountOK, ClosedOK, Active
  <1>6. QED
    BY <1>2, <1>3, <1>4, <1>5

(* The last sweep: no lane holds a ticket any more, and whatever a cancelled
   lane left behind is still the generation its key holds. *)
LEMMA CloseEndsKeeps ==
    ASSUME IInv, CloseEnds
    PROVE  IInv'
  <1> USE DEF IInv
  <1> DEFINE left == {<<k, tickets[k]>> : k \in {x \in Keys : tickets[x] # 0}}
             ks == {Key(t) : t \in left} \cup recovered
  <1>1. /\ closing = "lanes" /\ closing' = "closed" /\ \A l \in Lanes : stage[l] = "none"
        /\ Resolve(left) /\ Release(ks) /\ expired' = expired \ {Key(t) : t \in left}
        /\ recCompleted' = [k \in Keys |->
              IF k \in UnreleasedRecovered /\ recCompleted[k] = "pending" THEN "done"
              ELSE recCompleted[k]]
        /\ monitors' = [k \in Keys |-> 0]
        /\ monitorTask' = [t \in Tickets |->
              IF monitors[Key(t)] = Gen(t) /\ monitorTask[t] = "live" THEN "done"
              ELSE monitorTask[t]]
        /\ UNCHANGED <<plan, tickets, lastGen, recovered, observer, queue, stage, current, overdue,
                       windowOver>>
    BY DEF CloseEnds, lanes
  <1>2. {Key(t) : t \in left} = {x \in Keys : tickets[x] # 0}
    <2>1. \A x : Key(<<x, tickets[x]>>) = x
      BY DEF Key
    <2>2. \A t \in left : Key(t) \in Keys /\ tickets[Key(t)] # 0
      BY <2>1
    <2>3. ASSUME NEW x \in Keys, tickets[x] # 0 PROVE x \in {Key(t) : t \in left}
      <3>1. <<x, tickets[x]>> \in left
        BY <2>3
      <3>2. QED
        BY <2>1, <3>1
    <2>4. QED
      BY <2>2, <2>3
  <1>3. ks = {k \in Keys : tickets[k] # 0 \/ k \in recovered}
    BY <1>2 DEF TypeOK
  <1>4. ks \in SUBSET Keys /\ ks \ released \subseteq Active /\ Active \subseteq ks
    BY <1>3 DEF Active
  <1>5. \A t \in Tickets : Owns(t) => t \in left
    <2>1. ASSUME NEW t \in Tickets, Owns(t) PROVE t \in left
      <3>1. Key(t) \in Keys /\ tickets[Key(t)] = Gen(t) /\ Gen(t) # 0 /\ t = <<Key(t), Gen(t)>>
        BY <2>1, TicketParts DEF Owns
      <3>2. QED
        BY <3>1
    <2>2. QED
      BY <2>1
  <1> HIDE DEF ks, left
  <1>6. /\ CountOK' /\ queuedTotal' \in Nat /\ released' \in SUBSET Keys
        /\ released' = released \cup ks /\ Active' = {}
    BY <1>1, <1>4, ReleaseCounts
  <1>7. /\ started' \in [Tickets -> FutureStates] /\ completed' \in [Tickets -> FutureStates]
        /\ \A t \in Tickets : Pending(t)' => Pending(t) /\ t \notin left
    BY <1>1, ResolveFacts
  <1>8. \A t \in Tickets : ~Pending(t)'
    BY <1>5, <1>7 DEF PendingOK
  <1>9. \A t \in Tickets : monitorTask'[t] # "live"
    BY <1>1 DEF MonitorsOK
  <1>10. 0 \in 0 .. MaxGen
    BY LimitsAssumption
  <1>11. monitors' \in [Keys -> 0 .. MaxGen]
    BY <1>1, <1>10
  <1>12. recCompleted' \in [Keys -> FutureStates]
    BY <1>1 DEF TypeOK, FutureStates
  <1>13. monitorTask' \in [Tickets -> {"none", "live", "cancelling", "fired", "done"}]
    BY <1>1 DEF TypeOK
  <1>14. TypeOK'
    BY <1>1, <1>6, <1>7, <1>11, <1>12, <1>13 DEF TypeOK
  <1>15. LanesOK'
    BY <1>1 DEF LanesOK, LaneOK
  <1>16. HeldOK'
    <2>1. \A l \in Lanes : Entries(l)' = {}
      BY <1>1, EmptyQueue DEF LanesOK, LaneOK, Entries
    <2>2. QED
      BY <2>1 DEF HeldOK
  <1>17. PendingOK' /\ MonitorsOK'
    BY <1>8, <1>9 DEF PendingOK, MonitorsOK
  <1>18. RecordsOK'
    BY <1>1, <1>3, <1>6 DEF RecordsOK
  <1>19. RecoveriesOK'
    <2>1. \A k \in Keys : recCompleted'[k] # "pending"
      BY <1>1 DEF RecoveriesOK, UnreleasedRecovered
    <2>2. \A k \in Keys : observer'[k] # "live"
      BY <1>1 DEF RecoveriesOK
    <2>3. QED
      BY <2>1, <2>2 DEF RecoveriesOK
  <1>20. ClosedOK'
    BY <1>1, <1>6 DEF ClosedOK
  <1>21. QED
    BY <1>6, <1>14, <1>15, <1>16, <1>17, <1>18, <1>19, <1>20

-----------------------------------------------------------------------------
(* Admission: the sweep, and what is added on top of it. *)

(* The sweep forgets released records only; a key that is accepted was not
   known, so no ticket, pending future or live monitor of it is left. *)
LEMMA SweepFacts ==
    ASSUME IInv, closing = "open", closing' = "open",
           NEW nt, NEW nr \in SUBSET Keys, NEW D \in SUBSET Keys, DOMAIN nt = D,
           \A k \in D : nt[k] \in 1 .. MaxGen, D \cap nr = {},
           \A k \in D \cup nr : ~Known(k), SweepAnd(nt, nr, nt)
    PROVE  /\ tickets' \in [Keys -> 0 .. MaxGen] /\ recovered' \in SUBSET Keys
           /\ released' \in SUBSET Keys /\ windowOver' \in SUBSET Keys
           /\ expired' \in SUBSET Keys /\ monitors' \in [Keys -> 0 .. MaxGen]
           /\ monitorTask' \in [Tickets -> {"none", "live", "cancelling", "fired", "done"}]
           /\ Active' = Active \cup D \cup nr /\ (D \cup nr) \cap Active = {}
           /\ \A t \in Tickets : Owns(t) => Owns(t)' /\ Key(t) \notin D \cup nr
           /\ \A k \in D : Owns(<<k, nt[k]>>)' /\ k \notin expired'
           /\ expired' \subseteq expired
           /\ \A k \in Keys : k \in recovered \ released => k \in recovered' \ released'
           /\ \A k \in nr : k \in recovered' \ released'
           /\ RecordsOK' /\ MonitorsOK'
  <1> USE DEF IInv
  <1>1. /\ tickets' = [k \in Keys |->
              IF k \in D THEN nt[k] ELSE IF k \in Swept THEN 0 ELSE tickets[k]]
        /\ recovered' = (recovered \ Swept) \cup nr
        /\ released' = released \ Swept
        /\ windowOver' = windowOver \ Swept
        /\ expired' = expired \ Swept
        /\ monitors' = [k \in Keys |->
              IF k \in D THEN nt[k] ELSE IF k \in Swept THEN 0 ELSE monitors[k]]
        /\ monitorTask' = [t \in Tickets |->
              IF Key(t) \in D /\ nt[Key(t)] = Gen(t) THEN "live"
              ELSE IF Key(t) \in Swept /\ monitors[Key(t)] = Gen(t) /\ monitorTask[t] = "live"
              THEN "cancelling" ELSE monitorTask[t]]
    BY DEF SweepAnd
  <1>2. 0 \in 0 .. MaxGen /\ \A k \in D : nt[k] \in 0 .. MaxGen /\ nt[k] # 0
    BY LimitsAssumption
  <1>3. tickets' \in [Keys -> 0 .. MaxGen]
    BY <1>1, <1>2 DEF TypeOK
  <1>4. monitors' \in [Keys -> 0 .. MaxGen]
    BY <1>1, <1>2 DEF TypeOK
  <1>5. monitorTask' \in [Tickets -> {"none", "live", "cancelling", "fired", "done"}]
    BY <1>1 DEF TypeOK
  <1>6. /\ recovered' \in SUBSET Keys /\ released' \in SUBSET Keys
        /\ windowOver' \in SUBSET Keys /\ expired' \in SUBSET Keys
    BY <1>1 DEF TypeOK
  <1>7. Swept \subseteq released
    BY DEF Swept
  <1>8. \A k \in D \cup nr : k \in Keys /\ (k \in Swept \/ (tickets[k] = 0 /\ k \notin recovered))
    BY DEF Known
  <1>9. \A k \in D \cup nr : k \notin Active /\ k \notin released' /\ k \notin expired'
    BY <1>1, <1>7, <1>8 DEF Active, RecordsOK
  <1>10. \A k \in Keys : k \in Active' <=> k \in Active \/ k \in D \cup nr
    BY <1>1, <1>2, <1>7, <1>9 DEF Active
  <1>11. Active' = Active \cup D \cup nr
    BY <1>10 DEF Active
  <1>12. ASSUME NEW t \in Tickets, Owns(t) PROVE Owns(t)' /\ Key(t) \notin D \cup nr
    <2>1. Key(t) \in Keys /\ tickets[Key(t)] = Gen(t) /\ Gen(t) # 0 /\ Key(t) \notin released
      BY <1>12, TicketParts DEF Owns
    <2>2. Key(t) \in Active
      BY <2>1 DEF Active
    <2>3. Key(t) \notin D \cup nr
      BY <1>9, <2>2
    <2>4. QED
      BY <1>1, <1>7, <2>1, <2>3 DEF Owns
  <1>13. ASSUME NEW k \in D PROVE Owns(<<k, nt[k]>>)'
    <2>1. Key(<<k, nt[k]>>) = k /\ Gen(<<k, nt[k]>>) = nt[k]
      BY DEF Key, Gen
    <2>2. tickets'[k] = nt[k] /\ k \notin released'
      BY <1>1, <1>9
    <2>3. QED
      BY <2>1, <2>2 DEF Owns
  <1>14. RecordsOK'
    <2>1. \A k \in Keys : tickets'[k] # 0 => k \notin recovered'
      BY <1>1, <1>8 DEF RecordsOK, TypeOK
    <2>2. \A k \in released' : tickets'[k] # 0 \/ k \in recovered'
      BY <1>1, <1>9 DEF RecordsOK, TypeOK
    <2>3. \A k \in expired' : tickets'[k] # 0
      BY <1>1, <1>9 DEF RecordsOK, TypeOK
    <2>4. QED
      BY <1>1, <2>1, <2>2, <2>3 DEF RecordsOK
  <1>15. MonitorsOK'
    <2>1. ASSUME NEW t \in Tickets, monitorTask'[t] = "live"
          PROVE  monitors'[Key(t)] = Gen(t) /\ Owns(t)'
      <3>1. Key(t) \in Keys /\ t = <<Key(t), Gen(t)>>
        BY TicketParts
      <3>2. CASE Key(t) \in D /\ nt[Key(t)] = Gen(t)
        BY <1>1, <1>13, <3>1, <3>2
      <3>3. CASE ~(Key(t) \in D /\ nt[Key(t)] = Gen(t))
        <4>1. monitorTask[t] = "live" /\ ~(Key(t) \in Swept /\ monitors[Key(t)] = Gen(t))
          BY <1>1, <2>1, <3>3
        <4>2. monitors[Key(t)] = Gen(t) /\ Owns(t) /\ Key(t) \notin Swept
          BY <4>1 DEF MonitorsOK
        <4>3. QED
          BY <1>1, <1>12, <3>1, <4>2
      <3>4. QED
        BY <3>2, <3>3
    <2>2. QED
      BY <2>1 DEF MonitorsOK
  <1>16. \A k \in Keys : k \in recovered \ released => k \in recovered' \ released'
    BY <1>1, <1>7
  <1>17. QED
    BY <1>1, <1>3, <1>4, <1>5, <1>6, <1>9, <1>11, <1>12, <1>13, <1>14, <1>15, <1>16

LEMMA AdmitRefusedKeeps ==
    ASSUME IInv, NEW k \in Keys, AdmitRefused(k)
    PROVE  IInv'
  <1> USE DEF IInv
  <1>1. /\ closing = "open" /\ SweepAnd(<<>>, {}, <<>>)
        /\ UNCHANGED <<plan, lastGen, observer, recCompleted, queuedTotal, started, completed,
                       queue, stage, current, closing, overdue>>
    BY DEF AdmitRefused, futures, lanes
  <1> DEFINE none == <<>>
  <1>2. DOMAIN none = {} /\ SweepAnd(none, {}, none) /\ closing' = "open"
    BY <1>1, EmptyDomain
  <1> HIDE DEF none
  <1>3. /\ tickets' \in [Keys -> 0 .. MaxGen] /\ recovered' \in SUBSET Keys
        /\ released' \in SUBSET Keys /\ windowOver' \in SUBSET Keys
        /\ expired' \in SUBSET Keys /\ monitors' \in [Keys -> 0 .. MaxGen]
        /\ monitorTask' \in [Tickets -> {"none", "live", "cancelling", "fired", "done"}]
        /\ Active' = Active \cup {} \cup {}
        /\ \A t \in Tickets : Owns(t) => Owns(t)'
        /\ expired' \subseteq expired
        /\ \A x \in Keys : x \in recovered \ released => x \in recovered' \ released'
        /\ RecordsOK' /\ MonitorsOK'
    BY <1>1, <1>2, SweepFacts, ZenonT(40)
  <1>4. TypeOK'
    BY <1>1, <1>3 DEF TypeOK
  <1>5. LanesOK' /\ CountOK' /\ ClosedOK' /\ RecoveriesOK'
    BY <1>1, <1>3 DEF LanesOK, LaneOK, CountOK, ClosedOK, RecoveriesOK
  <1>6. HeldOK'
    BY <1>1, <1>3, EntriesAreTickets DEF HeldOK, Entries
  <1>7. PendingOK'
    BY <1>1, <1>3 DEF PendingOK, Pending, Held, Queued
  <1>8. QED
    BY <1>3, <1>4, <1>5, <1>6, <1>7

LEMMA RecoverKeeps ==
    ASSUME IInv, NEW k \in Keys, Recover(k)
    PROVE  IInv'
  <1> USE DEF IInv
  <1>1. /\ closing = "open" /\ ~Known(k) /\ SweepAnd(<<>>, {k}, <<>>)
        /\ lastGen[k] < plan.gens[k] /\ lastGen' = [lastGen EXCEPT ![k] = @ + 1]
        /\ queuedTotal' = queuedTotal + 1
        /\ observer' = [observer EXCEPT ![k] = "live"]
        /\ recCompleted' = [recCompleted EXCEPT ![k] = "pending"]
        /\ UNCHANGED <<plan, started, completed, queue, stage, current, closing, overdue>>
    BY DEF Recover, futures, lanes
  <1> DEFINE none == <<>>
  <1>2. DOMAIN none = {} /\ SweepAnd(none, {k}, none) /\ closing' = "open"
    BY <1>1, EmptyDomain
  <1> HIDE DEF none
  <1>3. /\ tickets' \in [Keys -> 0 .. MaxGen] /\ recovered' \in SUBSET Keys
        /\ released' \in SUBSET Keys /\ windowOver' \in SUBSET Keys
        /\ expired' \in SUBSET Keys /\ monitors' \in [Keys -> 0 .. MaxGen]
        /\ monitorTask' \in [Tickets -> {"none", "live", "cancelling", "fired", "done"}]
        /\ Active' = Active \cup {} \cup {k} /\ ({} \cup {k}) \cap Active = {}
        /\ \A t \in Tickets : Owns(t) => Owns(t)'
        /\ expired' \subseteq expired
        /\ \A x \in Keys : x \in recovered \ released => x \in recovered' \ released'
        /\ k \in recovered' \ released'
        /\ RecordsOK' /\ MonitorsOK'
    BY <1>1, <1>2, SweepFacts
  <1>4. plan.gens[k] \in 1 .. MaxGen
    BY PlansAssumption DEF TypeOK
  <1>5. lastGen' \in [Keys -> 0 .. MaxGen]
    <2>1. lastGen[k] \in 0 .. MaxGen /\ MaxGen \in Nat
      BY LimitsAssumption DEF TypeOK
    <2>2. lastGen[k] + 1 \in 0 .. MaxGen
      BY <1>1, <1>4, <2>1
    <2>3. QED
      BY <1>1, <2>2 DEF TypeOK
  <1>6. CountOK' /\ queuedTotal' \in Nat
    <2>1. Active' = Active \cup {k} /\ k \notin Active
      BY <1>3
    <2>2. Cardinality(Active') = Cardinality(Active) + 1
      BY <2>1, ActiveFinite, FS_AddElement
    <2>3. QED
      BY <1>1, <2>2 DEF CountOK, TypeOK
  <1>7. /\ observer' \in [Keys -> {"none", "live", "done"}]
        /\ recCompleted' \in [Keys -> FutureStates]
    BY <1>1 DEF TypeOK, FutureStates
  <1>8. TypeOK'
    BY <1>1, <1>3, <1>5, <1>6, <1>7 DEF TypeOK
  <1>9. LanesOK' /\ ClosedOK'
    BY <1>1 DEF LanesOK, LaneOK, ClosedOK
  <1>10. RecoveriesOK'
    BY <1>1, <1>3 DEF RecoveriesOK, TypeOK
  <1>11. HeldOK'
    BY <1>1, <1>3, EntriesAreTickets DEF HeldOK, Entries
  <1>12. PendingOK'
    BY <1>1, <1>3 DEF PendingOK, Pending, Held, Queued
  <1>13. QED
    BY <1>3, <1>6, <1>8, <1>9, <1>10, <1>11, <1>12

LEMMA AdmitSweep ==
    ASSUME IInv, closing = "open", closing' = "open", NEW k \in Keys, ~Known(k),
           NEW nt, DOMAIN nt = {k}, nt[k] \in 1 .. MaxGen, SweepAnd(nt, {}, nt)
    PROVE  /\ tickets' \in [Keys -> 0 .. MaxGen] /\ recovered' \in SUBSET Keys
           /\ released' \in SUBSET Keys /\ windowOver' \in SUBSET Keys
           /\ expired' \in SUBSET Keys /\ monitors' \in [Keys -> 0 .. MaxGen]
           /\ monitorTask' \in [Tickets -> {"none", "live", "cancelling", "fired", "done"}]
           /\ Active' = Active \cup {k} \cup {} /\ ({k} \cup {}) \cap Active = {}
           /\ \A u \in Tickets : Owns(u) => Owns(u)' /\ Key(u) \notin {k} \cup {}
           /\ \A x \in {k} : Owns(<<x, nt[x]>>)' /\ x \notin expired'
           /\ expired' \subseteq expired
           /\ \A x \in Keys : x \in recovered \ released => x \in recovered' \ released'
           /\ RecordsOK' /\ MonitorsOK'
  <1>1. /\ {} \in SUBSET Keys /\ {k} \in SUBSET Keys /\ {k} \cap {} = {}
        /\ \A x \in {k} : nt[x] \in 1 .. MaxGen
        /\ \A x \in {k} \cup {} : ~Known(x)
    OBVIOUS
  <1>2. QED
    BY <1>1, SweepFacts

LEMMA QueueGrows ==
    ASSUME NEW q \in Seq(Tickets), NEW t \in Tickets, Distinct(q), t \notin ToSet(q)
    PROVE  /\ Append(q, t) \in Seq(Tickets) /\ Append(q, t) # <<>>
           /\ Distinct(Append(q, t))
           /\ ToSet(Append(q, t)) = ToSet(q) \cup {t}
  BY PutLast

LEMMA AdmitNewIn ==
    ASSUME IInv, NEW k \in Keys, NEW l \in Lanes, NEW g \in 1 .. MaxGen, NEW t \in Tickets, NEW nt,
           plan.lane[k] = l, Key(t) = k, Gen(t) = g, DOMAIN nt = {k}, nt[k] = g,
           closing = "open", ~Known(k), SweepAnd(nt, {}, nt),
           lastGen' = [lastGen EXCEPT ![k] = g],
           queuedTotal' = queuedTotal + 1,
           started' = [started EXCEPT ![t] = "pending"],
           completed' = [completed EXCEPT ![t] = "pending"],
           queue' = [queue EXCEPT ![l] = Append(queue[l], t)],
           stage' = [stage EXCEPT ![l] = IF stage[l] = "none" THEN "new" ELSE stage[l]],
           UNCHANGED <<plan, observer, recCompleted, current, closing, overdue>>
    PROVE  IInv'
  <1>5. closing' = "open"
    OBVIOUS
  <1>6. /\ tickets' \in [Keys -> 0 .. MaxGen] /\ recovered' \in SUBSET Keys
        /\ released' \in SUBSET Keys /\ windowOver' \in SUBSET Keys
        /\ expired' \in SUBSET Keys /\ monitors' \in [Keys -> 0 .. MaxGen]
        /\ monitorTask' \in [Tickets -> {"none", "live", "cancelling", "fired", "done"}]
        /\ Active' = Active \cup {k} \cup {} /\ ({k} \cup {}) \cap Active = {}
        /\ \A u \in Tickets : Owns(u) => Owns(u)' /\ Key(u) \notin {k} \cup {}
        /\ \A x \in {k} : Owns(<<x, nt[x]>>)' /\ x \notin expired'
        /\ expired' \subseteq expired
        /\ \A x \in Keys : x \in recovered \ released => x \in recovered' \ released'
        /\ RecordsOK' /\ MonitorsOK'
    BY AdmitSweep
  <1> USE DEF IInv
  <1>7. Owns(t)' /\ k \notin expired'
    BY <1>6, TicketParts
  <1>8. \A u \in Tickets : Owns(u) => Key(u) # k /\ u # t
    BY <1>6
  <1>9. CountOK' /\ queuedTotal' \in Nat
    <2>1. Active' = Active \cup {k} /\ k \notin Active
      BY <1>6
    <2>2. Cardinality(Active') = Cardinality(Active) + 1
      BY <2>1, ActiveFinite, FS_AddElement
    <2>3. QED
      BY <2>2 DEF CountOK, TypeOK
  <1>10. queue[l] \in Seq(Tickets) /\ Distinct(queue[l]) /\ LaneOK(l) /\ Entries(l) \subseteq Tickets
    BY LaneFacts, EntriesAreTickets DEF LanesOK
  <1>11. t \notin Entries(l)
    BY <1>8, <1>10 DEF HeldOK
  <1>12. t \notin ToSet(queue[l]) /\ current[l] # t
    BY <1>5, <1>11, TicketParts DEF Entries
  <1>13. /\ Append(queue[l], t) \in Seq(Tickets) /\ Append(queue[l], t) # <<>>
         /\ Distinct(Append(queue[l], t))
         /\ ToSet(Append(queue[l], t)) = ToSet(queue[l]) \cup {t}
    BY <1>10, <1>12, QueueGrows
  <1>14. LanesTyped' /\ OtherLanes(l)
    BY <1>13 DEF TypeOK, LanesTyped, OtherLanes, Stages
  <1>15. /\ queue'[l] = Append(queue[l], t) /\ current'[l] = current[l]
         /\ stage'[l] = IF stage[l] = "none" THEN "new" ELSE stage[l]
    BY DEF TypeOK
  <1>16. LaneOK(l)'
    BY <1>10, <1>12, <1>13, <1>15 DEF LaneOK
  <1>17. Entries(l)' = Entries(l) \cup {t}
    BY <1>5, <1>13, <1>15, TicketParts DEF Entries
  <1>18. LanesOK' /\ \A m \in Lanes \ {l} : Entries(m)' = Entries(m)
    BY <1>14, <1>16, OtherLanesOK
  <1>19. /\ started' \in [Tickets -> FutureStates] /\ completed' \in [Tickets -> FutureStates]
         /\ \A u \in Tickets : Pending(u)' => u = t \/ Pending(u)
    BY <1>5 DEF TypeOK, FutureStates, Pending
  <1>20. lastGen' \in [Keys -> 0 .. MaxGen]
    <2>1. g \in 0 .. MaxGen
      BY LimitsAssumption
    <2>2. QED
      BY <2>1 DEF TypeOK
  <1>21. TypeOK'
    BY <1>6, <1>9, <1>14, <1>19, <1>20 DEF TypeOK, LanesTyped
  <1>22. HeldOK'
    <2>1. ASSUME NEW m \in Lanes, NEW u \in Entries(m)' PROVE plan'.lane[Key(u)] = m /\ Owns(u)'
      <3>1. CASE u = t /\ m = l
        BY <1>7, <3>1
      <3>2. CASE u \in Entries(m)
        BY <1>6, <3>2, EntriesAreTickets DEF HeldOK
      <3>3. QED
        BY <1>17, <1>18, <3>1, <3>2
    <2>2. QED
      BY <2>1 DEF HeldOK
  <1>23. PendingOK'
    <2>1. ASSUME NEW u \in Tickets, Pending(u)'
          PROVE  Owns(u)' /\ Key(u) \notin expired' /\ Held(u)'
      <3>1. CASE u = t
        BY <1>7, <1>17, <2>1, <3>1, HeldEntries
      <3>2. CASE u # t
        <4>1. Pending(u)
          BY <1>19, <2>1, <3>2
        <4>2. Owns(u) /\ Key(u) \notin expired /\ Held(u)
          BY <4>1 DEF PendingOK
        <4>3. Held(u)'
          BY <1>17, <1>18, <4>2, HeldEntries
        <4>4. QED
          BY <1>6, <4>2, <4>3
      <3>3. QED
        BY <3>1, <3>2
    <2>2. QED
      BY <2>1 DEF PendingOK
  <1>24. RecoveriesOK' /\ ClosedOK'
    BY <1>6 DEF RecoveriesOK, ClosedOK
  <1>25. QED
    BY <1>6, <1>9, <1>18, <1>21, <1>22, <1>23, <1>24

LEMMA AdmitNewKeeps ==
    ASSUME IInv, NEW k \in Keys, AdmitNew(k)
    PROVE  IInv'
  <1> DEFINE g == lastGen[k] + 1
             t == <<k, g>>
             l == plan.lane[k]
             nt == [x \in {k} |-> g]
  <1>1. Key(t) = k /\ Gen(t) = g
    BY DEF Key, Gen
  <1>2. /\ closing = "open" /\ ~Known(k) /\ lastGen[k] < plan.gens[k] /\ SweepAnd(nt, {}, nt)
        /\ lastGen' = [lastGen EXCEPT ![k] = g]
        /\ queuedTotal' = queuedTotal + 1
        /\ started' = [started EXCEPT ![t] = "pending"]
        /\ completed' = [completed EXCEPT ![t] = "pending"]
        /\ queue' = [queue EXCEPT ![l] = Append(queue[l], t)]
        /\ stage' = [stage EXCEPT ![l] = IF stage[l] = "none" THEN "new" ELSE stage[l]]
        /\ UNCHANGED <<plan, observer, recCompleted, current, closing, overdue>>
    BY <1>1 DEF AdmitNew, IInv, TypeOK
  <1>3. l \in Lanes /\ plan.gens[k] \in 1 .. MaxGen
    BY PlansAssumption DEF IInv, TypeOK
  <1>4. g \in 1 .. MaxGen
    <2>1. lastGen[k] \in 0 .. MaxGen /\ MaxGen \in Nat
      BY LimitsAssumption DEF IInv, TypeOK
    <2>2. QED
      BY <1>2, <1>3, <2>1
  <1>5. t \in Tickets /\ DOMAIN nt = {k} /\ nt[k] = g
    BY <1>4 DEF Tickets
  <1>6. plan.lane[k] = l
    OBVIOUS
  <1> HIDE DEF g, t, l, nt
  <1>7. QED
    BY <1>1, <1>2, <1>3, <1>4, <1>5, <1>6, AdmitNewIn

-----------------------------------------------------------------------------
(* The theorems about one state. *)

LEMMA InitInv == Init => IInv
  <1> SUFFICES ASSUME Init PROVE IInv
    OBVIOUS
  <1> USE DEF Init
  <1>1. 0 \in 0 .. MaxGen
    BY LimitsAssumption
  <1>2. <<>> \in Seq(Tickets)
    OBVIOUS
  <1>3. TypeOK
    BY <1>1, <1>2 DEF TypeOK, FutureStates, Stages
  <1>4. LanesOK /\ HeldOK
    BY EmptyQueue DEF LanesOK, LaneOK, HeldOK, Entries
  <1>5. PendingOK /\ MonitorsOK /\ RecordsOK /\ RecoveriesOK /\ ClosedOK
    BY DEF PendingOK, Pending, MonitorsOK, RecordsOK, RecoveriesOK, ClosedOK
  <1>6. CountOK
    <2>1. Active = {}
      BY DEF Active
    <2>2. QED
      BY <2>1, FS_EmptySet DEF CountOK
  <1>7. QED
    BY <1>3, <1>4, <1>5, <1>6 DEF IInv

LEMMA StepInv ==
    ASSUME IInv, [Next]_vars
    PROVE  IInv'
  <1>1. ASSUME NEW l \in Lanes, LaneStep(l) PROVE IInv'
    <2>1. CASE Dequeue(l)          BY <2>1, DequeueKeeps
    <2>2. CASE ExpireWaiting(l)    BY <2>2, EndTicketKeeps DEF ExpireWaiting
    <2>3. CASE AcquirePermits(l)   BY <2>3, AcquireKeeps
    <2>4. CASE RunnerStarts(l)     BY <2>4, RunnerStartsKeeps
    <2>5. CASE RunnerEnds(l)       BY <2>5, EndTicketKeeps DEF RunnerEnds
    <2>6. CASE LaneCancelled(l)    BY <2>6, LaneCancelledKeeps
    <2>7. QED
      BY <1>1, <2>1, <2>2, <2>3, <2>4, <2>5, <2>6 DEF LaneStep
  <1>2. ASSUME NEW k \in Keys, KeyStep(k) PROVE IInv'
    BY <1>2, AdmitRefusedKeeps, AdmitNewKeeps, RecoverKeeps, ObserverEndsKeeps,
       ObserverFailsKeeps, WindowPassesKeeps DEF KeyStep
  <1>3. ASSUME NEW t \in Tickets, TicketStep(t) PROVE IInv'
    BY <1>3, DeadlinePassesKeeps, CallerCancelsKeeps, MonitorFiresKeeps, MonitorEndsKeeps
       DEF TicketStep
  <1>4. ASSUME UNCHANGED vars PROVE IInv'
    <2>1. UNCHANGED <<plan, tickets, lastGen, recovered, observer, recCompleted, queuedTotal,
                      released, expired, monitors, monitorTask, started, completed, queue,
                      stage, current, closing, overdue, windowOver>>
      BY <1>4 DEF vars, recoveries, watch, futures, lanes
    <2> USE DEF IInv
    <2>2. TypeOK' /\ LanesOK' /\ HeldOK'
      BY <2>1 DEF TypeOK, LanesOK, LaneOK, HeldOK, Entries, Owns
    <2>3. PendingOK' /\ MonitorsOK'
      BY <2>1 DEF PendingOK, Pending, Held, Queued, Owns, MonitorsOK
    <2>4. RecordsOK' /\ RecoveriesOK' /\ CountOK' /\ ClosedOK'
      BY <2>1 DEF RecordsOK, RecoveriesOK, CountOK, ClosedOK, Active
    <2>5. QED
      BY <2>2, <2>3, <2>4
  <1>5. QED
    BY <1>1, <1>2, <1>3, <1>4, CloseBeginsKeeps, CloseCancelsLanesKeeps, CloseEndsKeeps DEF Next

LEMMA Invariance == Spec => []IInv
  <1>1. IInv /\ [Next]_vars => IInv'
    BY StepInv
  <1>2. QED
    BY <1>1, InitInv, PTL DEF Spec

LEMMA CountInv == IInv => CapacityCounted
  <1> SUFFICES ASSUME IInv PROVE CapacityCounted
    OBVIOUS
  <1> DEFINE T == {k \in Keys : tickets[k] # 0 /\ k \notin released}
             R == {k \in recovered : k \notin released}
  <1>1. Active = T \cup R /\ T \cap R = {} /\ T \in SUBSET Keys /\ R \in SUBSET Keys
    BY DEF IInv, TypeOK, RecordsOK, Active
  <1> HIDE DEF T, R
  <1>2. IsFiniteSet(T) /\ IsFiniteSet(R)
    BY <1>1, KeysAssumption, FS_Subset
  <1>3. Cardinality(T) \in Nat /\ Cardinality(R) \in Nat
    BY <1>2, FS_CardinalityType
  <1>4. Cardinality(T \cup R) = Cardinality(T) + Cardinality(R) - Cardinality(T \cap R)
    BY <1>2, FS_Union
  <1>5. queuedTotal = Cardinality(T) + Cardinality(R)
    BY <1>1, <1>3, <1>4, FS_EmptySet DEF IInv, CountOK
  <1>6. QED
    BY <1>5 DEF CapacityCounted, IInv, T, R

LEMMA OneInv == IInv => OneGeneration
  <1> SUFFICES ASSUME IInv, NEW t \in Tickets, NEW u \in Tickets, Held(t), Held(u), Key(t) = Key(u)
               PROVE  t = u
    BY DEF OneGeneration
  <1>1. Owns(t) /\ Owns(u)
    BY HeldEntries DEF IInv, HeldOK
  <1>2. QED
    BY <1>1, TicketParts DEF Owns

LEMMA AnsweredInv == IInv => OverIsAnswered
  <1> SUFFICES ASSUME IInv PROVE OverIsAnswered
    OBVIOUS
  <1>1. GoneIsAnswered
    BY DEF IInv, PendingOK, Pending, GoneIsAnswered
  <1>2. ClosedIsDrained
    <2> SUFFICES ASSUME closing = "closed"
                 PROVE  /\ queuedTotal = 0
                        /\ \A t \in Tickets : started[t] # "pending" /\ monitorTask[t] # "live"
                        /\ \A k \in Keys : recCompleted[k] # "pending"
      BY DEF ClosedIsDrained
    <2>1. Active = {} /\ \A l \in Lanes : stage[l] = "none"
      BY DEF IInv, ClosedOK
    <2>2. queuedTotal = 0
      BY <2>1, FS_EmptySet DEF IInv, CountOK
    <2>3. \A l \in Lanes : Entries(l) = {}
      BY <2>1, EmptyQueue DEF IInv, LanesOK, LaneOK, Entries
    <2>4. \A t \in Tickets : started[t] # "pending"
      BY <2>3, HeldEntries DEF IInv, PendingOK, Pending
    <2>5. \A t \in Tickets : monitorTask[t] # "live"
      BY DEF IInv, MonitorsOK
    <2>6. \A k \in Keys : recCompleted[k] # "pending"
      BY <2>1 DEF IInv, RecoveriesOK, Active
    <2>7. QED
      BY <2>2, <2>4, <2>5, <2>6
  <1>3. QED
    BY <1>1, <1>2 DEF OverIsAnswered

(* The capacity counter of Admission is exact in every state: each record gives
   its capacity back once, whichever path ends it. *)
THEOREM CapacityIsExact == Spec => []CapacityCounted
  BY Invariance, CountInv, PTL

(* No two generations of a delivery are ever in the lanes together. *)
THEOREM GenerationsAreExclusive == Spec => []OneGeneration
  BY Invariance, OneInv, PTL

(* A ticket that left its lane has been answered, and close() leaves nothing. *)
THEOREM TicketsAreAnswered == Spec => []OverIsAnswered
  BY Invariance, AnsweredInv, PTL

-----------------------------------------------------------------------------
(* Refinement: every step of Admission is a step of the delivery ledger. *)

Running(k) == \E l \in Lanes : stage[l] = "running" /\ Key(current[l]) = k

LEMMA StatusOf ==
    ASSUME NEW k
    PROVE  /\ Status(k) = IF tickets[k] = 0 /\ k \notin recovered THEN "absent"
                          ELSE IF k \in released THEN "over"
                          ELSE IF k \in recovered \/ Running(k) THEN "running" ELSE "waiting"
           /\ Status(k)' = IF tickets'[k] = 0 /\ k \notin recovered' THEN "absent"
                           ELSE IF k \in released' THEN "over"
                           ELSE IF k \in recovered' \/ Running(k)' THEN "running" ELSE "waiting"
  BY DEF Status, RunningLanes, Running

(* Steps that only end deliveries, or change nothing the ledger sees. *)
LEMMA EndStep ==
    ASSUME IInv, UNCHANGED <<tickets, recovered, windowOver>>,
           released \subseteq released', released' \ released \subseteq Active,
           \A k \in Keys \ released' : Running(k)' <=> Running(k)
    PROVE  Ledger!Next
  <1> DEFINE ks == released' \ released
  <1>1. ks \in SUBSET Keys
    BY DEF Active
  <1>2. \A k \in ks : Status(k) \in {"waiting", "running"} /\ Status(k)' = "over"
    BY StatusOf DEF Active
  <1>3. \A k \in Keys \ ks : Status(k)' = Status(k)
    <2>1. ASSUME NEW k \in Keys, k \notin ks PROVE Status(k)' = Status(k)
      <3>1. k \in released' <=> k \in released
        BY <2>1
      <3>2. k \notin released' => (Running(k)' <=> Running(k))
        OBVIOUS
      <3>3. QED
        BY <3>1, <3>2, StatusOf
    <2>2. QED
      BY <2>1
  <1> HIDE DEF ks
  <1>4. Ledger!End(ks)
    BY <1>1, <1>2, <1>3 DEF Ledger!End
  <1>5. QED
    BY <1>1, <1>4 DEF Ledger!Next

(* Only lane l changes, and it runs nothing before and after, or it ended it. *)
LEMMA LaneRuns ==
    ASSUME NEW l \in Lanes, OtherLanes(l), stage'[l] # "running",
           stage[l] = "running" => Key(current[l]) \in released'
    PROVE  \A k \in Keys \ released' : Running(k)' <=> Running(k)
  <1>1. \A m \in Lanes \ {l} : stage'[m] = stage[m] /\ current'[m] = current[m]
    BY DEF OtherLanes
  <1>2. QED
    BY <1>1 DEF Running

LEMMA RetireReleases ==
    ASSUME IInv, NEW l \in Lanes, NEW ts \in SUBSET Entries(l), Retire(ts)
    PROVE  released' = released \cup KeysOf(ts) /\ KeysOf(ts) \subseteq Active
  <1>1. released' = released \cup KeysOf(ts)
    BY DEF Retire, Release, KeysOf
  <1>2. ASSUME NEW t \in ts PROVE Key(t) \in Active
    <2>1. t \in Tickets /\ Owns(t)
      BY EntriesAreTickets DEF IInv, HeldOK
    <2>2. Key(t) \in Keys /\ tickets[Key(t)] = Gen(t) /\ Gen(t) # 0 /\ Key(t) \notin released
      BY <2>1, TicketParts DEF Owns
    <2>3. QED
      BY <2>2 DEF Active
  <1>3. QED
    BY <1>1, <1>2 DEF KeysOf

LEMMA DequeueEnds ==
    ASSUME IInv, NEW l \in Lanes, Dequeue(l)
    PROVE  Ledger!Next
  <1> DEFINE t == Head(queue[l])
  <1>1. /\ stage[l] \in {"new", "next"} /\ queue[l] \in Seq(Tickets) /\ queue[l] # <<>>
        /\ Distinct(queue[l]) /\ Entries(l) = ToSet(queue[l])
    BY LaneFacts DEF Dequeue
  <1>2. t \in Entries(l)
    BY <1>1, TakeHead
  <1>3. released' = released \/ (released' = released \cup KeysOf({t}) /\ KeysOf({t}) \subseteq Active)
    <2>1. {t} \in SUBSET Entries(l)
      BY <1>2
    <2> HIDE DEF t
    <2>2. Retire({t}) \/ released' = released
      BY DEF Dequeue, t
    <2>3. QED
      BY <2>1, <2>2, RetireReleases
  <1>4. stage'[l] # "running" /\ OtherLanes(l)
    BY DEF Dequeue, AfterTicket, IInv, TypeOK, OtherLanes
  <1>5. \A k \in Keys \ released' : Running(k)' <=> Running(k)
    BY <1>1, <1>4, LaneRuns
  <1>6. UNCHANGED <<tickets, recovered, windowOver>>
    BY DEF Dequeue, recoveries
  <1>7. QED
    BY <1>3, <1>5, <1>6, EndStep

LEMMA EndTicketEnds ==
    ASSUME IInv, NEW l \in Lanes, stage[l] \in {"permits", "running"}, EndTicket(l)
    PROVE  Ledger!Next
  <1>1. {current[l]} \in SUBSET Entries(l)
    BY LaneFacts
  <1>2. released' = released \cup KeysOf({current[l]}) /\ KeysOf({current[l]}) \subseteq Active
    BY <1>1, RetireReleases DEF EndTicket
  <1>3. Key(current[l]) \in released'
    BY <1>2 DEF KeysOf
  <1>4. stage'[l] # "running" /\ OtherLanes(l)
    BY DEF EndTicket, AfterTicket, IInv, TypeOK, OtherLanes
  <1>5. \A k \in Keys \ released' : Running(k)' <=> Running(k)
    BY <1>3, <1>4, LaneRuns
  <1>6. UNCHANGED <<tickets, recovered, windowOver>>
    BY DEF EndTicket, recoveries
  <1>7. QED
    BY <1>2, <1>5, <1>6, EndStep

LEMMA LaneCancelledEnds ==
    ASSUME IInv, NEW l \in Lanes, LaneCancelled(l)
    PROVE  Ledger!Next
  <1> DEFINE ts == ToSet(queue[l]) \cup {current[l]}
  <1>1. stage'[l] # "running" /\ OtherLanes(l) /\ UNCHANGED <<tickets, recovered, windowOver>>
    BY DEF LaneCancelled, IInv, TypeOK, OtherLanes, recoveries
  <1>2. CASE stage[l] = "new"
    <2>1. released' = released
      BY <1>2 DEF LaneCancelled
    <2>2. \A k \in Keys \ released' : Running(k)' <=> Running(k)
      BY <1>1, <1>2, LaneRuns
    <2>3. QED
      BY <1>1, <2>1, <2>2, EndStep
  <1>3. CASE stage[l] # "new"
    <2>1. ts \in SUBSET Entries(l)
      BY <1>3, LaneFacts DEF LaneCancelled
    <2>2. Retire(ts)
      BY <1>3 DEF LaneCancelled
    <2>3. current[l] \in ts
      OBVIOUS
    <2> HIDE DEF ts
    <2>4. released' = released \cup KeysOf(ts) /\ KeysOf(ts) \subseteq Active
      BY <2>1, <2>2, RetireReleases
    <2>5. Key(current[l]) \in released'
      BY <2>3, <2>4 DEF KeysOf
    <2>6. \A k \in Keys \ released' : Running(k)' <=> Running(k)
      BY <1>1, <2>5, LaneRuns
    <2>7. QED
      BY <1>1, <2>4, <2>6, EndStep
  <1>4. QED
    BY <1>2, <1>3

(* The permits are granted to a delivery that waits: the ledger's Run. *)
LEMMA AcquireRunsKey ==
    ASSUME IInv, NEW l \in Lanes, AcquirePermits(l), NEW c, c = Key(current[l])
    PROVE  Ledger!Next
  <1>1. stage[l] = "permits" /\ current[l] \in Tickets /\ current[l] \in Entries(l)
    BY LaneFacts DEF AcquirePermits
  <1>2. Owns(current[l]) /\ plan.lane[c] = l
    BY <1>1 DEF IInv, HeldOK
  <1>3. c \in Keys /\ tickets[c] # 0 /\ c \notin released /\ c \notin recovered
    BY <1>1, <1>2, TicketParts DEF Owns, IInv, RecordsOK
  <1>4. /\ stage' = [stage EXCEPT ![l] = "running"]
        /\ UNCHANGED <<tickets, recovered, released, windowOver, current>>
    BY DEF AcquirePermits, recoveries
  <1>5. ~Running(c)
    <2>1. ASSUME NEW m \in Lanes, stage[m] = "running" PROVE Key(current[m]) # c
      <3>1. current[m] \in Entries(m)
        BY <2>1, LaneFacts
      <3>2. plan.lane[Key(current[m])] = m
        BY <3>1 DEF IInv, HeldOK
      <3>3. QED
        BY <1>1, <1>2, <2>1, <3>2
    <2>2. QED
      BY <2>1 DEF Running
  <1>6. Running(c)'
    BY <1>4 DEF Running, IInv, TypeOK
  <1>7. \A k \in Keys \ {c} : Running(k)' <=> Running(k)
    BY <1>1, <1>4 DEF Running, IInv, TypeOK
  <1>8. Status(c) = "waiting" /\ Status(c)' = "running"
    BY <1>3, <1>4, <1>5, <1>6, StatusOf
  <1>9. \A k \in Keys \ {c} : Status(k)' = Status(k)
    BY <1>4, <1>7, StatusOf
  <1>10. Ledger!Run(c)
    BY <1>3, <1>4, <1>8, <1>9 DEF Ledger!Run
  <1>11. QED
    BY <1>3, <1>10 DEF Ledger!Next

LEMMA AcquireRuns ==
    ASSUME IInv, NEW l \in Lanes, AcquirePermits(l)
    PROVE  Ledger!Next
  BY AcquireRunsKey

LEMMA WindowElapses ==
    ASSUME IInv, NEW k \in Keys, WindowPasses(k)
    PROVE  Ledger!Next
  <1>1. /\ k \in released /\ windowOver' = windowOver \cup {k}
        /\ UNCHANGED <<tickets, recovered, released, stage, current>>
    BY DEF WindowPasses, recoveries, lanes
  <1>2. Status(k) = "over"
    BY <1>1, StatusOf DEF IInv, RecordsOK
  <1>3. \A x \in Keys : Status(x)' = Status(x)
    BY <1>1, StatusOf DEF Running
  <1>4. Ledger!Elapse(k)
    BY <1>1, <1>2, <1>3 DEF Ledger!Elapse
  <1>5. QED
    BY <1>4 DEF Ledger!Next

(* A sweep and what is accepted on top of it: the ledger's Accept. *)
LEMMA SweepAccepts ==
    ASSUME IInv, NEW nt, NEW nr \in SUBSET Keys, NEW D \in SUBSET Keys, DOMAIN nt = D,
           \A k \in D : nt[k] # 0, D \cap nr = {},
           \A k \in D \cup nr : ~Known(k), SweepAnd(nt, nr, nt),
           D \cup nr = {} \/ \E k \in Keys : D \cup nr = {k},
           NEW s \in {"waiting", "running"}, s = IF nr = {} THEN "waiting" ELSE "running",
           \A k \in Keys : Running(k)' <=> Running(k)
    PROVE  Ledger!Next
  <1>1. /\ tickets' = [k \in Keys |->
              IF k \in D THEN nt[k] ELSE IF k \in Swept THEN 0 ELSE tickets[k]]
        /\ recovered' = (recovered \ Swept) \cup nr
        /\ released' = released \ Swept
        /\ windowOver' = windowOver \ Swept
    BY DEF SweepAnd
  <1>2. \A k \in D \cup nr : k \in Keys /\ (k \in Swept \/ (tickets[k] = 0 /\ k \notin recovered))
    BY DEF Known
  <1>3. \A k \in Swept : k \in Keys /\ Status(k) = "over" /\ k \in windowOver
    BY StatusOf DEF IInv, TypeOK, RecordsOK, Swept
  <1>4. \A k \in D \cup nr : Status(k) = "absent" \/ k \in Swept
    BY <1>2, StatusOf
  <1>5. \A k \in D \cup nr : k \notin released' /\ ~Running(k)
    <2>1. ASSUME NEW k \in D \cup nr PROVE k \notin released'
      BY <1>1, <1>2 DEF IInv, RecordsOK
    <2>2. ASSUME NEW k \in D \cup nr, NEW l \in Lanes, stage[l] = "running", Key(current[l]) = k
          PROVE  FALSE
      <3>1. current[l] \in Entries(l) /\ current[l] \in Tickets
        BY <2>2, LaneFacts
      <3>2. tickets[k] # 0 /\ k \notin released
        BY <2>2, <3>1, TicketParts DEF IInv, HeldOK, Owns
      <3>3. QED
        BY <1>2, <3>2 DEF Swept
    <2>3. QED
      BY <2>1, <2>2 DEF Running
  <1>6. \A k \in D \cup nr : Status(k)' = s
    <2>1. ASSUME NEW k \in D PROVE Status(k)' = s
      <3>1. k \in Keys /\ tickets'[k] # 0 /\ k \notin released' /\ ~Running(k)'
        BY <1>1, <1>5
      <3>2. k \notin recovered'
        BY <1>1, <1>2
      <3>3. nr = {}
        BY <2>1
      <3>4. QED
        BY <3>1, <3>2, <3>3, StatusOf
    <2>2. ASSUME NEW k \in nr PROVE Status(k)' = s
      <3>1. k \in recovered' /\ k \notin released' /\ nr # {}
        BY <1>1, <1>5
      <3>2. QED
        BY <3>1, StatusOf
    <2>3. QED
      BY <2>1, <2>2
  <1>7. \A k \in Keys \ (D \cup nr) : Status(k)' = IF k \in Swept THEN "absent" ELSE Status(k)
    <2>1. ASSUME NEW k \in Keys, k \notin D \cup nr
          PROVE  Status(k)' = IF k \in Swept THEN "absent" ELSE Status(k)
      <3>1. /\ tickets'[k] = IF k \in Swept THEN 0 ELSE tickets[k]
            /\ k \in recovered' <=> k \in recovered /\ k \notin Swept
            /\ k \in released' <=> k \in released /\ k \notin Swept
            /\ Running(k)' <=> Running(k)
        BY <1>1, <2>1
      <3>2. QED
        BY <3>1, StatusOf
    <2>2. QED
      BY <2>1
  <1>8. Ledger!Accept(Swept, D \cup nr, s)
    BY <1>1, <1>3, <1>4, <1>6, <1>7 DEF Ledger!Accept
  <1>9. Swept \in SUBSET Ledger!Forgettable
    BY <1>3 DEF Ledger!Forgettable
  <1>10. D \cup nr \in {{}} \cup {{k} : k \in Keys}
    OBVIOUS
  <1>11. QED
    BY <1>8, <1>9, <1>10 DEF Ledger!Next

LEMMA AdmitNewAccepts ==
    ASSUME IInv, NEW k \in Keys, AdmitNew(k)
    PROVE  Ledger!Next
  <1> DEFINE g == lastGen[k] + 1
             t == <<k, g>>
             l == plan.lane[k]
             nt == [x \in {k} |-> g]
  <1>1. Gen(t) = g
    BY DEF Gen
  <1>2. /\ ~Known(k) /\ SweepAnd(nt, {}, nt) /\ current' = current
        /\ stage' = [stage EXCEPT ![l] = IF stage[l] = "none" THEN "new" ELSE stage[l]]
    BY <1>1 DEF AdmitNew, IInv, TypeOK
  <1>3. lastGen[k] \in Nat
    BY LimitsAssumption DEF IInv, TypeOK
  <1>4. DOMAIN nt = {k} /\ nt[k] # 0
    BY <1>3
  <1>5. \A m \in Lanes : stage'[m] = "running" <=> stage[m] = "running"
    BY <1>2 DEF IInv, TypeOK
  <1> HIDE DEF g, t, l, nt
  <1>6. \A x \in Keys : Running(x)' <=> Running(x)
    BY <1>2, <1>5 DEF Running
  <1>7. /\ {} \in SUBSET Keys /\ {k} \in SUBSET Keys /\ {k} \cap {} = {}
        /\ \A x \in {k} : nt[x] # 0
        /\ \A x \in {k} \cup {} : ~Known(x)
        /\ \E x \in Keys : {k} \cup {} = {x}
        /\ "waiting" \in {"waiting", "running"}
        /\ "waiting" = IF {} = {} THEN "waiting" ELSE "running"
    BY <1>2, <1>4
  <1>8. QED
    BY <1>2, <1>4, <1>6, <1>7, SweepAccepts

LEMMA RecoverAccepts ==
    ASSUME IInv, NEW k \in Keys, Recover(k)
    PROVE  Ledger!Next
  <1> DEFINE none == <<>>
  <1>1. /\ ~Known(k) /\ SweepAnd(none, {k}, none) /\ DOMAIN none = {}
        /\ current' = current /\ stage' = stage
    BY EmptyDomain DEF Recover, lanes
  <1> HIDE DEF none
  <1>2. \A x \in Keys : Running(x)' <=> Running(x)
    BY <1>1 DEF Running
  <1>3. /\ {} \in SUBSET Keys /\ {k} \in SUBSET Keys /\ {} \cap {k} = {}
        /\ \A x \in {} : none[x] # 0
        /\ \A x \in {} \cup {k} : ~Known(x)
        /\ \E x \in Keys : {} \cup {k} = {x}
        /\ "running" \in {"waiting", "running"}
        /\ "running" = IF {k} = {} THEN "waiting" ELSE "running"
    BY <1>1
  <1>4. QED
    BY <1>1, <1>2, <1>3, SweepAccepts

LEMMA AdmitRefusedForgets ==
    ASSUME IInv, NEW k \in Keys, AdmitRefused(k)
    PROVE  Ledger!Next
  <1> DEFINE none == <<>>
  <1>1. /\ SweepAnd(none, {}, none) /\ DOMAIN none = {} /\ current' = current /\ stage' = stage
    BY EmptyDomain DEF AdmitRefused, lanes
  <1> HIDE DEF none
  <1>2. \A x \in Keys : Running(x)' <=> Running(x)
    BY <1>1 DEF Running
  <1>3. /\ {} \in SUBSET Keys /\ {} \cap {} = {} /\ {} \cup {} = {}
        /\ \A x \in {} : none[x] # 0
        /\ \A x \in {} \cup {} : ~Known(x)
        /\ "waiting" \in {"waiting", "running"}
        /\ "waiting" = IF {} = {} THEN "waiting" ELSE "running"
    BY <1>1
  <1>4. QED
    BY <1>1, <1>2, <1>3, SweepAccepts

LEMMA RefinesInit == Init => Ledger!Init
  <1> SUFFICES ASSUME Init PROVE Ledger!Init
    OBVIOUS
  <1>1. \A k \in Keys : Status(k) = "absent"
    BY StatusOf DEF Init
  <1>2. QED
    BY <1>1 DEF Init, Ledger!Init

LEMMA RefinesStep ==
    ASSUME IInv, [Next]_vars
    PROVE  [Ledger!Next]_(Ledger!lvars)
  <1>1. ASSUME NEW l \in Lanes, LaneStep(l) PROVE Ledger!Next
    <2>1. CASE Dequeue(l)          BY <2>1, DequeueEnds
    <2>2. CASE ExpireWaiting(l)    BY <2>2, EndTicketEnds DEF ExpireWaiting
    <2>3. CASE AcquirePermits(l)   BY <2>3, AcquireRuns
    <2>4. CASE RunnerStarts(l)
      BY <2>4, EndStep DEF RunnerStarts, recoveries, lanes, Running
    <2>5. CASE RunnerEnds(l)       BY <2>5, EndTicketEnds DEF RunnerEnds
    <2>6. CASE LaneCancelled(l)    BY <2>6, LaneCancelledEnds
    <2>7. QED
      BY <1>1, <2>1, <2>2, <2>3, <2>4, <2>5, <2>6 DEF LaneStep
  <1>2. ASSUME NEW k \in Keys, KeyStep(k) PROVE Ledger!Next
    <2>1. CASE AdmitRefused(k)     BY <2>1, AdmitRefusedForgets
    <2>2. CASE AdmitNew(k)         BY <2>2, AdmitNewAccepts
    <2>3. CASE Recover(k)          BY <2>3, RecoverAccepts
    <2>4. CASE ObserverEnds(k)
      <3>1. released' = released \cup {k} /\ UNCHANGED <<tickets, recovered, windowOver, stage, current>>
        BY <2>4 DEF ObserverEnds, Release, lanes
      <3>2. k \in Active
        BY <2>4 DEF ObserverEnds, IInv, RecoveriesOK, Active
      <3>3. QED
        BY <3>1, <3>2, EndStep DEF Running
    <2>5. CASE ObserverFails(k)
      BY <2>5, EndStep DEF ObserverFails, lanes, Running
    <2>6. CASE WindowPasses(k)     BY <2>6, WindowElapses
    <2>7. QED
      BY <1>2, <2>1, <2>2, <2>3, <2>4, <2>5, <2>6 DEF KeyStep
  <1>3. ASSUME NEW t \in Tickets, TicketStep(t) PROVE Ledger!Next
    <2>1. UNCHANGED <<tickets, recovered, windowOver, released, stage, current>>
      BY <1>3 DEF TicketStep, DeadlinePasses, CallerCancels, MonitorFires, MonitorEnds, lanes,
                  recoveries
    <2>2. QED
      BY <2>1, EndStep DEF Running
  <1>4. CASE CloseBegins
    <2> DEFINE live == {k \in Keys : observer[k] = "live"}
    <2>1. released' = released \cup live /\ UNCHANGED <<tickets, recovered, windowOver, stage, current>>
      BY <1>4 DEF CloseBegins, Release, lanes
    <2>2. live \subseteq Active
      BY DEF IInv, RecoveriesOK, Active
    <2>3. QED
      BY <2>1, <2>2, EndStep DEF Running
  <1>5. CASE CloseCancelsLanes
    BY <1>5, EndStep DEF CloseCancelsLanes, recoveries, lanes, Running
  <1>6. CASE CloseEnds
    <2> DEFINE left == {<<k, tickets[k]>> : k \in {x \in Keys : tickets[x] # 0}}
               ks == {Key(t) : t \in left} \cup recovered
    <2>1. /\ released' = released \cup ks
          /\ UNCHANGED <<tickets, recovered, windowOver, stage, current>>
      BY <1>6 DEF CloseEnds, Release, lanes
    <2>2. \A x : Key(<<x, tickets[x]>>) = x
      BY DEF Key
    <2>3. \A t \in left : Key(t) \in Keys /\ tickets[Key(t)] # 0
      BY <2>2
    <2>4. ks \ released \subseteq Active
      BY <2>3 DEF Active, IInv, TypeOK
    <2> HIDE DEF ks
    <2>5. QED
      BY <2>1, <2>4, EndStep DEF Running
  <1>7. CASE UNCHANGED vars
    <2>1. UNCHANGED <<tickets, recovered, released, windowOver, stage, current>>
      BY <1>7 DEF vars, recoveries, lanes
    <2>2. \A k \in Keys : Status(k)' = Status(k)
      BY <2>1, StatusOf DEF Running
    <2>3. QED
      BY <2>1, <2>2 DEF Ledger!lvars
  <1>8. QED
    BY <1>1, <1>2, <1>3, <1>4, <1>5, <1>6, <1>7 DEF Next

(* Admission implements the ledger of the contract: a delivery that waits or runs
   is not accepted again, and one that is over only after its window. *)
THEOREM LedgerRefinement == Spec => ImplementsLedger
  <1>1. IInv /\ [Next]_vars => [Ledger!Next]_(Ledger!lvars)
    BY RefinesStep
  <1>2. QED
    BY <1>1, RefinesInit, Invariance, PTL DEF Spec, ImplementsLedger, Ledger!Spec

=============================================================================
