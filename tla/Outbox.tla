------------------------------- MODULE Outbox -------------------------------
(***************************************************************************)
(* What the spool promises the rest of Latch: an at-least-once outbox.     *)
(* An event that was promised to its caller stays stored until a transport *)
(* has taken it or its stored form has become unreadable, and an event     *)
(* that has left the outbox does not come back.                            *)
(***************************************************************************)
CONSTANT Event

VARIABLES
    stored,     \* events a flush may find, now or after a power loss
    promised,   \* events whose append has returned LS_OK
    delivered,  \* events a transport has accepted
    given       \* events given up because they could not be read

vars == <<stored, promised, delivered, given>>

Init == stored = {} /\ promised = {} /\ delivered = {} /\ given = {}

(* A capture stores the event, and may or may not report success. *)
Append(e) ==
    /\ e \notin stored \cup promised \cup delivered \cup given
    /\ stored' = stored \cup {e}
    /\ promised' \in {promised, promised \cup {e}}
    /\ UNCHANGED <<delivered, given>>

Deliver(e) ==
    /\ e \in stored
    /\ delivered' = delivered \cup {e}
    /\ UNCHANGED <<stored, promised, given>>

GiveUp(e) ==
    /\ e \in stored
    /\ given' = given \cup {e}
    /\ UNCHANGED <<stored, promised, delivered>>

(* Events leave together when a spool is erased or power is lost. *)
Retire(S) ==
    /\ S \cap promised \subseteq delivered \cup given
    /\ stored' = stored \ S
    /\ UNCHANGED <<promised, delivered, given>>

Next == \/ \E e \in Event : Append(e) \/ Deliver(e) \/ GiveUp(e)
        \/ \E S \in SUBSET stored : Retire(S)

Spec == Init /\ [][Next]_vars
=============================================================================
