-------------------------------- MODULE Ota --------------------------------
(***************************************************************************)
(* Update state (src/core/boot.c) and its orchestration with a             *)
(* bootloader (src/core/ota.c).  A call is cut into its backend callback   *)
(* and its saves; power may fail at each.  The bootloader is external: it  *)
(* tries a requested version at the next reset and falls back to the last  *)
(* one it confirmed when the trial ends without a confirmation; it stages  *)
(* no image during a trial, staging withdraws an earlier request, and it   *)
(* confirms no version it is to roll back.                                 *)
(***************************************************************************)
EXTENDS BootRecord

CONSTANTS
    MaxVersion,         \* versions are 1..MaxVersion
    MaxRollbacks,       \* where update_rollback_count saturates (UINT32_MAX)
    ConfirmsFirst       \* whether the application finishes a confirmation before it stages

VARIABLES
    call,               \* what the call in progress does next, or "idle"
    version,            \* its version
    slot,               \* bootloader: the image in the inactive slot
    requested,          \* bootloader: the version to try at the next reset
    running,            \* bootloader: the version that runs
    confirmed           \* bootloader: the version it falls back to

backend == <<slot, requested, running, confirmed>>
vars == <<persistent, medium, up, call, version, backend>>

Version == 1..MaxVersion

State == [floor : 0..MaxVersion, pending : 0..MaxVersion, rollbacks : 0..MaxRollbacks,
          state : {"none", "pending", "confirmed", "rolled_back"},
          release : {"none", "pending", "confirmed", "rolled_back"}]

OtaAssumption ==
    /\ MaxVersion \in Nat \ {0} /\ MaxRollbacks \in Nat /\ ConfirmsFirst \in BOOLEAN
    /\ Torn \notin Records(State)

Blank == [floor |-> 0, pending |-> 0, state |-> "none", rollbacks |-> 0, release |-> "none"]

Init == /\ persistent = Blank
        /\ medium \in {OnMedium(v, Blank) : v \in 1..3}
        /\ up = FALSE
        /\ call = "idle"
        /\ version = 0
        /\ slot = 0 /\ requested = 0 /\ running = 0 /\ confirmed = 0

-----------------------------------------------------------------------------
(* The boot that restarts the firmware. *)
Boot ==
    /\ ~up
    /\ persistent' = ls_boot_state_load(Blank)
    /\ medium' = OnMedium(LS_BOOT_VERSION, persistent')
    /\ up' = TRUE
    /\ UNCHANGED <<call, version, backend>>

(* Any reset.  An unconfirmed trial falls back. *)
Reset ==
    /\ up' = FALSE
    /\ persistent' = Blank
    /\ call' = "idle"
    /\ version' = 0
    /\ running' = IF requested # 0 THEN requested ELSE confirmed
    /\ requested' = 0
    /\ UNCHANGED <<slot, confirmed>>

PowerLoss == up /\ Reset /\ UNCHANGED medium

(* A save in a call, which goes on with next or ends. *)
Save(r, o, next) ==
    /\ ls_boot_state_save(r, o, Blank)
    /\ IF o = "cut" THEN Reset
       ELSE /\ call' = IF o = "ok" THEN next ELSE "idle"
            /\ UNCHANGED <<up, version, backend>>

(* Saves whose result is ignored. *)
SaveAnyway(r, o, next) ==
    /\ ls_boot_state_save(r, o, Blank)
    /\ IF o = "cut" THEN Reset ELSE call' = next /\ UNCHANGED <<up, version, backend>>

-----------------------------------------------------------------------------
ls_update_version_allowed(v) == v # 0 /\ v >= persistent.floor

(* ls_ota_stage_candidate: authenticate and stage succeed. *)
ls_ota_stage_candidate(v) ==
    /\ up /\ call = "idle"
    /\ ls_update_version_allowed(v)
    /\ running = confirmed
    /\ ConfirmsFirst => ~(persistent.state = "pending" /\ running = persistent.pending)
    /\ slot' = v
    /\ requested' = 0
    /\ version' = v
    /\ call' = "stage"
    /\ UNCHANGED <<persistent, medium, up, running, confirmed>>

ls_update_stage(o) ==
    /\ call = "stage"
    /\ Save([persistent EXCEPT !.pending = version, !.state = "pending"], o, "request_boot")

request_boot(ok) ==
    /\ call = "request_boot"
    /\ requested' = IF ok THEN version ELSE requested
    /\ call' = IF ok THEN "mark_pending" ELSE "abort"
    /\ UNCHANGED <<persistent, medium, up, version, slot, running, confirmed>>

(* ls_update_abort_stage; its guard holds, and its result is ignored. *)
ls_update_abort_stage(o) ==
    /\ call = "abort"
    /\ SaveAnyway([persistent EXCEPT !.pending = 0, !.state = "none"], o, "idle")

(* ls_release_mark_pending, with ls_reset_mark_expected(true). *)
ls_release_mark_pending(o) ==
    /\ call = "mark_pending"
    /\ SaveAnyway([persistent EXCEPT !.release = "pending"], o, "idle")

-----------------------------------------------------------------------------
(* ls_ota_confirm_running: the backend accepts what runs, and again when    *)
(* asked again; the update state follows.                                   *)
ls_ota_confirm_running ==
    /\ up /\ call = "idle"
    /\ running # 0
    /\ running \in {slot, confirmed}
    /\ confirmed' = running
    /\ version' = running
    /\ call' = "confirm"
    /\ UNCHANGED <<persistent, medium, up, slot, requested, running>>

Pending == persistent.state = "pending" /\ version = persistent.pending


Raised(v) == IF v > persistent.floor THEN v ELSE persistent.floor

ls_update_confirm_version(o) ==
    /\ call = "confirm"
    /\ IF Pending
       THEN Save([persistent EXCEPT !.floor = Raised(version), !.pending = 0, !.state = "confirmed"],
                 o, "release_confirm")
       ELSE /\ o = "ok"
            /\ call' = "idle"
            /\ UNCHANGED <<persistent, medium, up, version, backend>>

ls_release_confirm(o) ==
    /\ call = "release_confirm"
    /\ SaveAnyway([persistent EXCEPT !.release = "confirmed"], o, "idle")

-----------------------------------------------------------------------------
(* ls_ota_request_rollback: the bootloader returns to the confirmed image. *)
ls_ota_request_rollback ==
    /\ up /\ call = "idle"
    /\ running # 0 /\ running # confirmed
    /\ slot' = 0
    /\ version' = running
    /\ call' = "rollback"
    /\ UNCHANGED <<persistent, medium, up, requested, running, confirmed>>

ls_update_mark_version_rollback(o) ==
    /\ call = "rollback"
    /\ IF Pending
       THEN Save([persistent EXCEPT !.rollbacks = IF @ < MaxRollbacks THEN @ + 1 ELSE @,
                                    !.pending = 0, !.state = "rolled_back"], o, "release_rollback")
       ELSE /\ o = "ok"
            /\ call' = "idle"
            /\ UNCHANGED <<persistent, medium, up, version, backend>>

ls_release_mark_rollback(o) ==
    /\ call = "release_rollback"
    /\ SaveAnyway([persistent EXCEPT !.release = "rolled_back"], o, "idle")

-----------------------------------------------------------------------------
Next == \/ Boot \/ PowerLoss \/ ls_ota_confirm_running \/ ls_ota_request_rollback
        \/ \E v \in Version : ls_ota_stage_candidate(v)
        \/ \E ok \in BOOLEAN : request_boot(ok)
        \/ \E o \in Outcome : \/ ls_update_stage(o) \/ ls_update_abort_stage(o)
                              \/ ls_release_mark_pending(o)
                              \/ ls_update_confirm_version(o) \/ ls_release_confirm(o)
                              \/ ls_update_mark_version_rollback(o)
                              \/ ls_release_mark_rollback(o)

Spec == Init /\ [][Next]_vars

-----------------------------------------------------------------------------
(* Types; a pending version is recorded exactly while the state says so. *)
TypeOK ==
    /\ persistent \in State
    /\ persistent.state = "pending" <=> persistent.pending # 0
    /\ medium = Torn \/ medium.fields \in State
    /\ up \in BOOLEAN
    /\ version \in 0..MaxVersion
    /\ {slot, requested, running, confirmed} \subseteq 0..MaxVersion

Floor == IF medium = Torn THEN 0 ELSE medium.fields.floor

(* The confirmed-version floor is persistent and monotonic: no call,        *)
(* failure, reset or power loss lowers the floor the next boot will load.   *)
FloorIsMonotonic == Floor' >= Floor

(* The orchestration enforces the floor: the bootloader is never asked to   *)
(* try a version older than the one it has confirmed, whatever failed or    *)
(* lost power between the bootloader's confirmation and the save of it.     *)
NeverBelowConfirmed == requested' \notin {0, requested} => requested' >= confirmed
=============================================================================
