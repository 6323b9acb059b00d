--------------------------- MODULE Provisioning ---------------------------
(***************************************************************************)
(* The provisioning lifecycle (src/core/provisioning.c): activation, key   *)
(* rotation, revocation and decommissioning, each a change of the boot     *)
(* record and a save, and the secure decommissioning that destroys a key   *)
(* in a secure element between two saves.                                  *)
(***************************************************************************)
EXTENDS BootRecord, FiniteSets

CONSTANTS
    Key, NoKey,         \* key ids; NoKey is 0
    MaxCounter,         \* bound on the monotonic counters the application uses
    MaxGeneration       \* where the generation saturates (UINT32_MAX)

VARIABLES
    step,               \* of ls_provisioning_decommission_secure, or "idle"
    element,            \* secure element: keys it still holds
    loaded              \* a session key is set (ls_security_set_key)

vars == <<persistent, medium, up, step, element, loaded>>

State == [state : {"unprovisioned", "active", "rotating", "revoked", "decommissioning",
                   "decommissioned"},
          key : Key \cup {NoKey}, pending : Key \cup {NoKey},
          generation : 0..MaxGeneration, counter : 0..MaxCounter]

ProvisioningAssumption ==
    /\ NoKey \notin Key /\ MaxCounter \in Nat /\ MaxGeneration \in Nat
    /\ Torn \notin Records(State)

Blank == [state |-> "unprovisioned", key |-> NoKey, pending |-> NoKey, generation |-> 0,
          counter |-> 0]

Init == /\ persistent = Blank
        /\ medium \in {OnMedium(v, Blank) : v \in 1..3}
        /\ up = FALSE
        /\ step = "idle"
        /\ element = Key
        /\ loaded = FALSE

-----------------------------------------------------------------------------
Reset ==
    /\ up' = FALSE
    /\ persistent' = Blank
    /\ step' = "idle"
    /\ loaded' = FALSE
    /\ UNCHANGED element

PowerLoss == up /\ Reset /\ UNCHANGED medium

Boot ==
    /\ ~up
    /\ persistent' = ls_boot_state_load(Blank)
    /\ medium' = OnMedium(LS_BOOT_VERSION, persistent')
    /\ up' = TRUE
    /\ UNCHANGED <<step, element, loaded>>

(* The application sets the session key of an identity in use. *)
UseKey ==
    /\ up /\ step = "idle"
    /\ persistent.state \in {"active", "rotating"}
    /\ ~loaded
    /\ loaded' = TRUE
    /\ UNCHANGED <<persistent, medium, up, step, element>>

(* A call that changes the record, saves it and returns. *)
Save(r, o, key) ==
    /\ ls_boot_state_save(r, o, Blank)
    /\ IF o = "cut" THEN Reset
       ELSE loaded' = key /\ UNCHANGED <<up, step, element>>

Later(g) == IF g < MaxGeneration THEN g + 1 ELSE g

monotonic_allowed(c) == c > persistent.counter

Activatable == persistent.state \in {"unprovisioned", "revoked"}

ls_provisioning_activate(k, c, o) ==
    /\ up /\ step = "idle"
    /\ monotonic_allowed(c)
    /\ Activatable
    /\ Save([state |-> "active", key |-> k, pending |-> NoKey, counter |-> c,
             generation |-> Later(persistent.generation)], o, loaded)

ls_provisioning_begin_rotation(k, c, o) ==
    /\ up /\ step = "idle"
    /\ persistent.state = "active"
    /\ k # persistent.key
    /\ monotonic_allowed(c)
    /\ Save([persistent EXCEPT !.state = "rotating", !.pending = k, !.counter = c], o, loaded)

(* Fault: the pending key stays. *)
ls_provisioning_commit_rotation_Keeps(o) ==
    /\ up /\ step = "idle"
    /\ persistent.state = "rotating"
    /\ Save([persistent EXCEPT !.state = "active", !.key = persistent.pending,
                               !.generation = Later(@)], o, loaded)

ls_provisioning_commit_rotation(o) ==
    /\ up /\ step = "idle"
    /\ persistent.state = "rotating"
    /\ Save([persistent EXCEPT !.state = "active", !.key = persistent.pending, !.pending = NoKey,
                               !.generation = Later(@)], o, loaded)

ls_provisioning_revoke(o) ==
    /\ up /\ step = "idle"
    /\ persistent.state \in {"active", "rotating"}
    /\ Save([persistent EXCEPT !.state = "revoked", !.pending = NoKey], o, FALSE)

-----------------------------------------------------------------------------
Decommissioned == [persistent EXCEPT !.state = "decommissioned", !.key = NoKey, !.pending = NoKey,
                                     !.generation = Later(@)]

(* ls_provisioning_decommission, from any state; LS_OK at once when the RAM *)
(* copy already says so.                                                    *)
ls_provisioning_decommission(o) ==
    /\ up
    /\ IF persistent.state = "decommissioned"
       THEN /\ o = "ok"
            /\ step' = "idle"
            /\ UNCHANGED <<persistent, medium, up, element, loaded>>
       ELSE /\ ls_boot_state_save(Decommissioned, o, Blank)
            /\ IF o = "cut" THEN Reset
               ELSE /\ step' = "idle"
                    /\ loaded' = FALSE
                    /\ UNCHANGED <<up, element>>

Decommission(o) == step = "idle" /\ ls_provisioning_decommission(o)

(* Fault: the key is destroyed before the intent is saved. *)
Intend_Unsaved(o) ==
    /\ up /\ step = "idle"
    /\ persistent.key # NoKey
    /\ persistent.state \in {"active", "revoked", "decommissioning"}
    /\ o = "ok"
    /\ persistent' = [persistent EXCEPT !.state = "decommissioning"]
    /\ step' = "destroy"
    /\ UNCHANGED <<medium, up, element, loaded>>

(* ls_provisioning_decommission_secure up to the save of the intent, which  *)
(* is taken back in RAM when the save fails.                                *)
Intend(o) ==
    /\ up /\ step = "idle"
    /\ persistent.key # NoKey
    /\ \/ /\ persistent.state = "decommissioning"
          /\ o = "ok"
          /\ step' = "destroy"
          /\ UNCHANGED <<persistent, medium, up, element, loaded>>
       \/ /\ persistent.state \in {"active", "revoked"}
          /\ LET r == [persistent EXCEPT !.state = "decommissioning"]
             IN  CASE o = "ok" -> /\ ls_boot_state_save(r, o, Blank)
                                  /\ step' = "destroy"
                                  /\ UNCHANGED <<up, element, loaded>>
                   [] o = "fails" -> /\ medium' \in Left(r)
                                     /\ UNCHANGED <<persistent, up, step, element, loaded>>
                   [] o = "cut" -> ls_boot_state_save(r, o, Blank) /\ Reset

(* ls_secure_element_destroy_key; on an error the session key is cleared    *)
(* and the state stays as it was saved.                                     *)
Destroy(ok) ==
    /\ step = "destroy"
    /\ IF ok THEN /\ element' = element \ {persistent.key}
                  /\ step' = "decommission"
                  /\ UNCHANGED loaded
             ELSE /\ loaded' = FALSE
                  /\ step' = "idle"
                  /\ UNCHANGED element
    /\ UNCHANGED <<persistent, medium, up>>

(* LS_OK at once when the RAM copy says decommissioned. *)
AlreadyDone ==
    /\ up /\ step = "idle"
    /\ persistent.state = "decommissioned"
    /\ UNCHANGED vars

Finish(o) == step = "decommission" /\ ls_provisioning_decommission(o)

-----------------------------------------------------------------------------
(* The lifecycle of a product that decommissions through the secure element. *)
SecureNext ==
    \/ Boot \/ PowerLoss \/ UseKey \/ AlreadyDone
    \/ \E ok \in BOOLEAN : Destroy(ok)
    \/ \E o \in Outcome :
          \/ ls_provisioning_commit_rotation(o) \/ ls_provisioning_revoke(o)
          \/ Intend(o) \/ Finish(o)
          \/ \E k \in Key, c \in 1..MaxCounter :
                ls_provisioning_activate(k, c, o) \/ ls_provisioning_begin_rotation(k, c, o)

Next == SecureNext \/ \E o \in Outcome : Decommission(o)

Spec == Init /\ [][Next]_vars

-----------------------------------------------------------------------------
(* Types; a key is pending exactly during a rotation, in RAM and stored. *)
TypeOK ==
    /\ persistent \in State
    /\ persistent.state = "rotating" <=> persistent.pending # NoKey
    /\ medium = Torn \/ medium.fields \in State
    /\ step \in {"idle", "destroy", "decommission"}
    /\ element \subseteq Key
    /\ {up, loaded} \subseteq BOOLEAN

Stored == IF medium = Torn THEN Blank ELSE medium.fields

(* The monotonic counter that authorises an identity never goes back and    *)
(* never authorises twice, across failed saves, resets and power losses; a  *)
(* decommissioned identity stays so.                                        *)
LifecycleIsMonotonic ==
    /\ Stored'.counter >= Stored.counter
    /\ Stored.state = "decommissioned" => Stored'.state = "decommissioned"
    /\ Stored'.key \notin {Stored.key, NoKey} /\ Stored.pending = NoKey
          => Stored'.counter > Stored.counter

(* Secure decommissioning destroys a key only when the intent to do so is   *)
(* durable, so no reset brings an identity back whose key is gone.          *)
DestroyedMeansIntended ==
    element # Key => Stored.state \in {"decommissioning", "decommissioned"}

(* The metadata is only marked decommissioned once the destruction of the   *)
(* key succeeded.                                                           *)
DecommissionedMeansDestroyed == Stored.state = "decommissioned" => element # Key

(* No session key stays in RAM once the identity is revoked or              *)
(* decommissioned.                                                          *)
NoKeyAfterRevocation == persistent.state \in {"revoked", "decommissioned"} => ~loaded
=============================================================================
