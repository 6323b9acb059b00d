------------------------------ MODULE FaultPlan ------------------------------
(***************************************************************************)
(* What fault injection promises a test (include/laststate/                *)
(* fault_injection.h): an armed point fails exactly once, at the hit it    *)
(* was armed for, and every other hit succeeds.                            *)
(***************************************************************************)
EXTENDS Integers

CONSTANTS Name, Trigger

VARIABLES
    left,               \* left[n]: hits until n fails; 0 when it has; -1 when not armed
    outcome             \* of the last call: [name, failed]

planVars == <<left, outcome>>

Unarmed == -1
Quiet == [name |-> "", failed |-> FALSE]

PlanInit == left = [n \in Name |-> Unarmed] /\ outcome = Quiet

Arm(n, k) == left' = [left EXCEPT ![n] = k] /\ outcome' = Quiet
Disarm(n) == left' = [left EXCEPT ![n] = Unarmed] /\ outcome' = Quiet
Clear == left' = [n \in Name |-> Unarmed] /\ outcome' = Quiet
Refuse == UNCHANGED left /\ outcome' = Quiet
Hit(n) == /\ left' = [left EXCEPT ![n] = IF @ > 0 THEN @ - 1 ELSE @]
          /\ outcome' = [name |-> n, failed |-> left[n] = 1]

PlanNext == \/ \E n \in Name : Disarm(n) \/ Hit(n) \/ \E k \in Trigger : Arm(n, k)
            \/ Clear \/ Refuse

Plan == PlanInit /\ [][PlanNext]_planVars
=============================================================================
