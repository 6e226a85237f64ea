---------------------------- MODULE MCExecution ----------------------------
(* Two runs that share a session, and one among all the session operations. *)
EXTENDS Execution, TLC

CONSTANTS r1, r2, s1

OneSession == [r \in Runs |-> s1]

(* Both runs are retained; the second evicts the first; one is interrupted. *)
Contending == [runs |-> Runs, retained |-> 2, gate |-> TRUE, ops |-> {}]
Evicting == [runs |-> Runs, retained |-> 1, gate |-> FALSE, ops |-> {"export"}]
Operated == [runs |-> {r1}, retained |-> 1, gate |-> TRUE,
             ops |-> {"export", "retire", "suspend", "resume", "hydrate"}]
ThreeSetups == {Contending, Evicting, Operated}
=============================================================================
