----------------------------- MODULE MCAdmission -----------------------------
(* Two deliveries of one session; of two sessions of one workspace; and one of a
   session beside a script. *)
EXTENDS Admission

CONSTANTS a, b, l1, l2

OneLane == [k \in Keys |-> l1]
TwoLanes == [k \in Keys |-> IF k = b THEN l2 ELSE l1]
TwiceOnce == [k \in Keys |-> IF k = a THEN 2 ELSE 1]
AllPlans ==
    {[lane |-> OneLane, scripts |-> {}, gens |-> TwiceOnce],
     [lane |-> TwoLanes, scripts |-> {}, gens |-> TwiceOnce],
     [lane |-> TwoLanes, scripts |-> {b}, gens |-> TwiceOnce]}
MCWorkspaceOf == [l \in Lanes |-> "ws"]
MCChannelOf == [k \in Keys |-> "ch"]
=============================================================================
