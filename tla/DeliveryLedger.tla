--------------------------- MODULE DeliveryLedger ---------------------------
(***************************************************************************)
(* What Admission promises for the deliveries it is given (contract        *)
(* section 3): a delivery that is waiting or running is not accepted again,*)
(* and one that is over is accepted again only after its idempotency       *)
(* window.  One step may forget several deliveries, or end several.        *)
(***************************************************************************)
CONSTANT Keys

VARIABLES status, elapsed

lvars == <<status, elapsed>>

Init ==
    /\ status = [k \in Keys |-> "absent"]
    /\ elapsed = {}

Forgettable == {k \in Keys : status[k] = "over" /\ k \in elapsed}

(* Forget the deliveries in `gone', and accept those in `new' with status s. *)
Accept(gone, new, s) ==
    /\ \A k \in new : status[k] = "absent" \/ k \in gone
    /\ status' = [k \in Keys |->
          IF k \in new THEN s ELSE IF k \in gone THEN "absent" ELSE status[k]]
    /\ elapsed' = elapsed \ gone

Run(k) ==
    /\ status[k] = "waiting"
    /\ status' = [status EXCEPT ![k] = "running"]
    /\ UNCHANGED elapsed

End(ks) ==
    /\ \A k \in ks : status[k] \in {"waiting", "running"}
    /\ status' = [k \in Keys |-> IF k \in ks THEN "over" ELSE status[k]]
    /\ UNCHANGED elapsed

Elapse(k) ==
    /\ status[k] = "over"
    /\ elapsed' = elapsed \cup {k}
    /\ UNCHANGED status

Next ==
    \/ \E gone \in SUBSET Forgettable, new \in {{}} \cup {{k} : k \in Keys} :
          \E s \in {"waiting", "running"} : Accept(gone, new, s)
    \/ \E k \in Keys : Run(k) \/ Elapse(k)
    \/ \E ks \in SUBSET Keys : End(ks)

Spec == Init /\ [][Next]_lvars
=============================================================================
