--------------------------- MODULE FaultInjection ---------------------------
(***************************************************************************)
(* The table of armed fault points (src/core/fault_injection.c). A name    *)
(* stands for its hash.                                                    *)
(***************************************************************************)
EXTENDS Integers, Sequences, FiniteSets

CONSTANTS
    Name,               \* names of fault points
    Trigger,            \* values of trigger_hit
    Capacity,           \* LS_FAULT_INJECTION_CAPACITY
    MaxHits             \* UINT32_MAX, where the hits stop counting

FaultInjectionAssumption ==
    /\ Trigger \subseteq 1..(MaxHits - 1)
    /\ {Capacity, MaxHits} \subseteq Nat \ {0}

VARIABLES
    fault_injections,   \* the table
    fault_injection_active,
    outcome             \* of the last call, as in FaultPlan

vars == <<fault_injections, fault_injection_active, outcome>>

Slot == 1..Capacity
Zeroed == [name |-> "", hits |-> 0, trigger_hit |-> 0, armed |-> FALSE]
Quiet == [name |-> "", failed |-> FALSE]

Init == /\ fault_injections = [i \in Slot |-> Zeroed]
        /\ fault_injection_active = FALSE
        /\ outcome = Quiet

(* The first armed slot of a name; 0 when there is none. *)
find_state(n) ==
    LET slots == {i \in Slot : fault_injections[i].armed /\ fault_injections[i].name = n}
    IN  IF slots = {} THEN 0 ELSE CHOOSE i \in slots : \A j \in slots : i <= j

SlotFor(n) ==
    LET free == {i \in Slot : ~fault_injections[i].armed}
    IN  IF find_state(n) # 0 THEN find_state(n)
        ELSE IF free = {} THEN 0 ELSE CHOOSE i \in free : \A j \in free : i <= j

ls_fault_injection_arm(n, k) ==
    /\ IF SlotFor(n) = 0 THEN UNCHANGED <<fault_injections, fault_injection_active>>
       ELSE /\ fault_injections' = [fault_injections EXCEPT ![SlotFor(n)] =
                                      [name |-> n, hits |-> 0, trigger_hit |-> k, armed |-> TRUE]]
            /\ fault_injection_active' = TRUE
    /\ outcome' = Quiet

(* Fault: the flag goes down with the first point that is disarmed. *)
ls_fault_injection_disarm_Inactive(n) ==
    /\ fault_injections' = [i \in Slot |-> IF i = find_state(n) THEN Zeroed ELSE fault_injections[i]]
    /\ fault_injection_active' = FALSE
    /\ outcome' = Quiet

ls_fault_injection_disarm(n) ==
    /\ fault_injections' = [i \in Slot |-> IF i = find_state(n) THEN Zeroed ELSE fault_injections[i]]
    /\ fault_injection_active' = \E i \in Slot : fault_injections'[i].armed
    /\ outcome' = Quiet

ls_fault_injection_clear ==
    /\ fault_injections' = [i \in Slot |-> Zeroed]
    /\ fault_injection_active' = FALSE
    /\ outcome' = Quiet

ls_fault_injection_hit(n) ==
    LET i == find_state(n)
        hits == fault_injections[i].hits
        counted == IF hits # MaxHits THEN hits + 1 ELSE hits
    IN  /\ IF ~fault_injection_active \/ i = 0
           THEN outcome' = [name |-> n, failed |-> FALSE] /\ UNCHANGED fault_injections
           ELSE /\ fault_injections' = [fault_injections EXCEPT ![i].hits = counted]
                /\ outcome' = [name |-> n, failed |-> counted = fault_injections[i].trigger_hit]
        /\ UNCHANGED fault_injection_active

Next == \/ \E n \in Name : \/ \E k \in Trigger : ls_fault_injection_arm(n, k)
                           \/ ls_fault_injection_disarm(n)
                           \/ ls_fault_injection_hit(n)
        \/ ls_fault_injection_clear

Spec == Init /\ [][Next]_vars

-----------------------------------------------------------------------------
(* Types; a name has at most one slot. *)
TypeOK ==
    /\ \A i \in Slot : fault_injections[i].hits \in 0..MaxHits
    /\ \A i, j \in Slot : fault_injections[i].armed /\ fault_injections[j].armed
                             /\ fault_injections[i].name = fault_injections[j].name => i = j
    /\ fault_injection_active \in BOOLEAN

(* How many hits there are until a point fails, for FaultPlan. *)
Left(n) == LET i == find_state(n)
               f == fault_injections[i]
           IN  IF i = 0 THEN -1 ELSE IF f.hits >= f.trigger_hit THEN 0 ELSE f.trigger_hit - f.hits

=============================================================================
