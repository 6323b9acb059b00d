----------------------------- MODULE BootLoop -----------------------------
(***************************************************************************)
(* Crash accounting across resets (src/core/runtime.c, ls_boot, and        *)
(* src/core/boot.c): which resets count as failures, when a run of them    *)
(* becomes a boot loop, and what clears it.  Uptime is only told apart by  *)
(* LS_BOOT_LOOP_WINDOW_MS.                                                 *)
(***************************************************************************)
EXTENDS BootRecord

CONSTANTS
    Threshold,          \* LS_BOOT_LOOP_THRESHOLD
    PromotionMayFail,   \* whether the retained snapshot may stay unpromoted
    MaxFailures         \* bound on the failures a behaviour has

Fields == [crash_pending : BOOLEAN, expected_reset : BOOLEAN, boot_successful : BOOLEAN,
           consecutive_failures : Nat, previous_uptime_ms : {"short", "long"}]

BootLoopAssumption ==
    /\ Threshold \in Nat \ {0}
    /\ PromotionMayFail \in BOOLEAN
    /\ MaxFailures \in Nat
    /\ Torn \notin Records(Fields)

VARIABLES
    retained,           \* a valid minimal snapshot is in retained RAM
    reason,             \* what reset_info() says at the next boot
    uptime,             \* of this boot: within the window, or past it
    safe_mode,
    previous_uptime,    \* reset_info.previous_uptime_ms, as reported
    failures,           \* history: failures since the last durable success mark
    early,              \* history: failures in a row within the window, saves intact
    stale,              \* history: boots that found a snapshot they could not promote before
    left_over,          \* history: the snapshot was there when this boot ended well
    ended               \* history: uptime when the last boot ended

history == <<failures, early, stale, left_over, ended>>
vars == <<persistent, medium, up, retained, reason, uptime, safe_mode, previous_uptime, history>>

Blank == [crash_pending |-> FALSE, expected_reset |-> FALSE, boot_successful |-> FALSE,
          consecutive_failures |-> 0, previous_uptime_ms |-> "short"]

Init == /\ persistent = Blank
        /\ medium \in {Torn} \cup {OnMedium(v, Blank) : v \in 1..3}
        /\ up = FALSE
        /\ retained = FALSE
        /\ reason = "power"
        /\ uptime = "short"
        /\ safe_mode = FALSE
        /\ previous_uptime = "short"
        /\ failures = 0
        /\ early = 0
        /\ stale = 0
        /\ left_over = FALSE
        /\ ended = "short"

-----------------------------------------------------------------------------
(* A save of the running firmware; a power loss takes retained RAM along. *)
Save(r, o) ==
    /\ ls_boot_state_save([r EXCEPT !.previous_uptime_ms = uptime], o, Blank)
    /\ up' = (o # "cut")
    /\ IF o = "cut" THEN /\ retained' = FALSE
                         /\ left_over' = FALSE
                         /\ reason' = "power"
                         /\ ended' = uptime
                    ELSE UNCHANGED <<retained, left_over, reason, ended>>

ls_boot_mark_successful(o) ==
    /\ up
    /\ Save([persistent EXCEPT !.boot_successful = TRUE, !.crash_pending = FALSE,
                               !.consecutive_failures = 0], o)
    /\ failures' = IF o = "ok" THEN 0 ELSE failures
    /\ early' = 0
    /\ stale' = IF o = "ok" THEN 0 ELSE stale
    /\ UNCHANGED <<uptime, safe_mode, previous_uptime>>

ls_reset_mark_expected(b, o) ==
    /\ up
    /\ persistent.expected_reset # b
    /\ Save([persistent EXCEPT !.expected_reset = b], o)
    /\ early' = IF o = "ok" THEN early ELSE 0
    /\ UNCHANGED <<uptime, safe_mode, previous_uptime, failures, stale>>

TimePasses ==
    /\ up
    /\ uptime = "short"
    /\ uptime' = "long"
    /\ UNCHANGED <<persistent, medium, up, retained, reason, safe_mode, previous_uptime, history>>

-----------------------------------------------------------------------------
(* How a boot ends.  A failure is charged once. *)
Failed(intact) ==
    /\ failures < MaxFailures
    /\ failures' = failures + 1
    /\ early' = IF ~intact THEN 0 ELSE IF uptime = "short" THEN early + 1 ELSE 1

EndedWell ==
    /\ early' = IF uptime = "long" THEN 0 ELSE early
    /\ UNCHANGED failures

Reset(why) ==
    /\ up' = FALSE
    /\ persistent' = Blank
    /\ reason' = why
    /\ ended' = uptime
    /\ UNCHANGED <<uptime, safe_mode, previous_uptime>>

(* ls_capture_cpu_context: the crash mark is saved, the event appended or,  *)
(* when that fails, kept as a minimal snapshot; then config.reset().        *)
ls_boot_state_mark_crash(o) ==
    LET marked == [persistent EXCEPT !.crash_pending = TRUE, !.boot_successful = FALSE]
    IN  /\ up
        /\ Failed(o = "ok")
        /\ o # "cut"
        /\ medium' \in IF o = "ok"
                       THEN {OnMedium(LS_BOOT_VERSION, [marked EXCEPT !.previous_uptime_ms = uptime])}
                       ELSE Left([marked EXCEPT !.previous_uptime_ms = uptime])
        /\ retained' \in {retained, TRUE}
        /\ left_over' = FALSE
        /\ Reset("software")
        /\ UNCHANGED stale

(* The handler that only writes retained RAM: nothing is saved. *)
MinimalFault ==
    /\ up
    /\ Failed(TRUE)
    /\ retained' = TRUE
    /\ left_over' = FALSE
    /\ Reset("software")
    /\ UNCHANGED <<medium, stale>>

(* A watchdog or lockup reset is a failure unless it is marked as expected. *)
Watchdog ==
    /\ up
    /\ IF medium # Torn /\ medium.fields.expected_reset THEN EndedWell
                                                      ELSE Failed(TRUE)
    /\ left_over' = retained
    /\ Reset("watchdog")
    /\ UNCHANGED <<medium, retained, stale>>

SoftwareReset ==
    /\ up
    /\ left_over' = retained
    /\ EndedWell
    /\ Reset("software")
    /\ UNCHANGED <<medium, retained, stale>>

(* Power loss, at any time: retained RAM and the reset reason are gone. *)
PowerLoss ==
    /\ retained' = FALSE
    /\ left_over' = FALSE
    /\ IF up THEN EndedWell /\ Reset("power")
             ELSE /\ early' = 0
                  /\ reason' = "power"
                  /\ UNCHANGED <<persistent, up, uptime, safe_mode, previous_uptime, failures, ended>>
    /\ UNCHANGED <<medium, stale>>

-----------------------------------------------------------------------------
(* A crash, or a watchdog reset nobody announced. *)
Charged(p) == p.crash_pending \/ retained \/ (reason = "watchdog" /\ ~p.expected_reset)

(* Fault: every failure starts a new run. *)
Counted_Restarts(p) == IF Charged(p) THEN 1 ELSE p.consecutive_failures

Counted(p) ==
    IF Charged(p)
    THEN IF p.previous_uptime_ms = "short" THEN p.consecutive_failures + 1 ELSE 1
    ELSE IF p.boot_successful THEN 0 ELSE p.consecutive_failures

(* ls_boot.  The snapshot is promoted last and its result is ignored; the   *)
(* uptime that goes with the save is that of the boot that starts.          *)
ls_boot(o) ==
    LET p == ls_boot_state_load(Blank)
    IN  /\ ~up
        /\ stale + (IF left_over THEN 1 ELSE 0) <= MaxFailures
        /\ stale' = stale + (IF left_over THEN 1 ELSE 0)
        /\ ls_boot_state_save([Blank EXCEPT !.consecutive_failures = Counted(p)], o, Blank)
        /\ previous_uptime' = p.previous_uptime_ms
        /\ safe_mode' = (o # "cut" /\ Counted(p) >= Threshold)
        /\ uptime' = "short"
        /\ up' = (o # "cut")
        /\ left_over' = FALSE
        /\ IF o = "cut"
           THEN retained' = FALSE /\ reason' = "power" /\ ended' = "short"
           ELSE /\ retained' \in IF o = "ok" /\ ~PromotionMayFail THEN {FALSE}
                                 ELSE IF o = "ok" THEN {FALSE, retained} ELSE {retained}
                /\ UNCHANGED <<reason, ended>>
        /\ early' = IF o = "ok" THEN early ELSE 0
        /\ UNCHANGED failures

-----------------------------------------------------------------------------
Next == \/ TimePasses \/ MinimalFault \/ Watchdog \/ SoftwareReset \/ PowerLoss
        \/ \E o \in Outcome : \/ ls_boot(o)
                              \/ ls_boot_mark_successful(o)
                              \/ ls_boot_state_mark_crash(o)
                              \/ \E b \in BOOLEAN : ls_reset_mark_expected(b, o)

Spec == Init /\ [][Next]_vars

-----------------------------------------------------------------------------
(* Types; a success mark goes with a counter of zero. *)
TypeOK ==
    /\ persistent \in Fields /\ persistent.consecutive_failures <= 2 * MaxFailures
    /\ persistent.boot_successful => persistent.consecutive_failures = 0
    /\ medium = Torn \/ medium \in Records(Fields)
    /\ {up, retained, safe_mode, left_over} \subseteq BOOLEAN
    /\ reason \in {"power", "software", "watchdog"}
    /\ {uptime, previous_uptime, ended} \subseteq {"short", "long"}
    /\ failures \in 0..MaxFailures /\ early \in 0..MaxFailures /\ stale \in Nat

(* ls_safe_mode_requested after a run of early crashes: when the firmware   *)
(* failed Threshold times within the window, with no success mark between,  *)
(* it boots into safe mode, whatever kind of failure each one was.          *)
LoopDetected == up /\ early >= Threshold => safe_mode

(* No reset is charged twice and no clean one is charged: the counter never *)
(* exceeds the failures since the last success mark, plus the boots that    *)
(* met a snapshot an earlier boot had failed to promote.                    *)
FailuresAccounted ==
    medium # Torn => medium.fields.consecutive_failures <= failures + stale
=============================================================================
