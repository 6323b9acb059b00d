------------------------------ MODULE Telemetry ------------------------------
(***************************************************************************)
(* The bounded histories a crash report draws on: breadcrumbs with their   *)
(* three policies (src/metrics/breadcrumbs.c), power samples and what is   *)
(* concluded from them (src/core/health.c), the environment summary        *)
(* (src/core/environment.c), the boot times of the device fingerprint      *)
(* (src/capture/dna.c) and the anchored wall clock (src/core/time_sync.c). *)
(***************************************************************************)
EXTENDS Integers, Sequences, SequencesExt, FiniteSets, FiniteSetsExt

CONSTANTS
    Level,              \* severities of breadcrumbs, as numbers
    Error,              \* LS_SEVERITY_ERROR
    Policy,             \* the values of ls_breadcrumb_policy_t that are set
    Crumbs,             \* LS_BREADCRUMB_CAPACITY
    Vdd,                \* supply voltages that are sampled; 0 is not measured
    Threshold,          \* thresholds asked of ls_power_brownout_suspected
    Within,             \* ages asked of it; 0 is any age
    Samples,            \* LS_POWER_SAMPLE_CAPACITY
    Depth, Leak,        \* depths, and values of the leak flag, that are sampled
    BootTimes,          \* how often dna_capture may be called
    BootSamples,        \* boot_sample_count
    Utc,                \* times given to ls_time_sync_set
    Wrap,               \* 2^32
    MaxTime, MaxCrumbs, MaxSamples      \* bounds

TelemetryAssumption ==
    /\ Level \cup Vdd \cup Threshold \cup Within \cup Utc \subseteq Nat
    /\ {Crumbs, Samples, BootSamples, Wrap} \subseteq Nat \ {0}
    /\ Leak \subseteq BOOLEAN

VARIABLES
    time,               \* true time; ls_uptime_ms shows it modulo Wrap
    breadcrumbs, breadcrumb_next, breadcrumb_count, breadcrumb_policy, breadcrumb_min_level,
    power_samples, power_next, power_count,
    environment,        \* ls_runtime.environment, and mission.depth_cm
    dna,                \* dna_config
    time_sync,          \* ls_runtime.time_sync
    given               \* history of what was recorded, by kind

crumbVars == <<breadcrumbs, breadcrumb_next, breadcrumb_count>>
settings == <<breadcrumb_policy, breadcrumb_min_level>>
powerVars == <<power_samples, power_next, power_count>>
vars == <<time, crumbVars, settings, powerVars, environment, dna, time_sync, given>>

Nothing == [level |-> 0, no |-> 0, passed |-> FALSE]
Clock == time % Wrap
Minus(a, b) == (a - b + Wrap) % Wrap

Init == /\ time = 1
        /\ breadcrumbs = [i \in 0..(Crumbs - 1) |-> Nothing]
        /\ breadcrumb_next = 0 /\ breadcrumb_count = 0
        /\ breadcrumb_policy = "DROP_OLDEST" /\ breadcrumb_min_level = 0
        /\ power_samples = [i \in 0..(Samples - 1) |-> [vdd |-> 0, at |-> 0]]
        /\ power_next = 0 /\ power_count = 0
        /\ environment = [samples |-> 0, depth |-> 0, leak |-> FALSE, maximum |-> 0, leaks |-> 0]
        /\ dna = [index |-> 0, count |-> 0, captured |-> FALSE]
        /\ time_sync = [set |-> FALSE, utc |-> 0, at |-> 0, generation |-> 0]
        /\ given = [crumbs |-> <<>>, switched |-> FALSE, power |-> <<>>, environment |-> <<>>, synced |-> 0]

Tick == /\ time < MaxTime /\ time' = time + 1
        /\ UNCHANGED <<crumbVars, settings, powerVars, environment, dna, time_sync, given>>

-----------------------------------------------------------------------------
MayRecord(level) ==
    /\ level >= breadcrumb_min_level
    /\ breadcrumb_count = Crumbs =>
          /\ breadcrumb_policy # "DROP_NEWEST"
          /\ breadcrumb_policy = "KEEP_ERRORS" => level >= Error

(* Fault: the ring is one longer than its array. *)
NextCrumb_OneMore(i) == (i + 1) % (Crumbs + 1)

NextCrumb(i) == (i + 1) % Crumbs

ls_breadcrumb_event(level) ==
    LET crumb == [level |-> level, no |-> Len(given.crumbs) + 1,
                  passed |-> level >= breadcrumb_min_level]
    IN  /\ Len(given.crumbs) < MaxCrumbs
        /\ IF MayRecord(level)
           THEN /\ breadcrumbs' = [breadcrumbs EXCEPT ![breadcrumb_next] = crumb]
                /\ breadcrumb_next' = NextCrumb(breadcrumb_next)
                /\ breadcrumb_count' = IF breadcrumb_count < Crumbs THEN breadcrumb_count + 1
                                       ELSE breadcrumb_count
           ELSE UNCHANGED crumbVars
        /\ given' = [given EXCEPT !.crumbs = Append(@, crumb)]
        /\ UNCHANGED <<time, settings, powerVars, environment, dna, time_sync>>

ls_breadcrumb_set_policy(policy) ==
    /\ breadcrumb_policy' = policy
    /\ given' = [given EXCEPT !.switched = @ \/ given.crumbs # <<>>]
    /\ UNCHANGED <<time, crumbVars, breadcrumb_min_level, powerVars, environment, dna, time_sync>>

ls_breadcrumb_set_min_level(level) ==
    /\ breadcrumb_min_level' = level
    /\ UNCHANGED <<time, crumbVars, breadcrumb_policy, powerVars, environment, dna, time_sync, given>>

(* What the envelope reads: from the oldest to the newest. *)
CrumbsInOrder ==
    [k \in 1..breadcrumb_count |->
        breadcrumbs[(breadcrumb_next + Crumbs - breadcrumb_count + k - 1) % Crumbs]]

-----------------------------------------------------------------------------
ls_power_sample(vdd) ==
    LET sample == [vdd |-> vdd, at |-> Clock]
    IN  /\ Len(given.power) < MaxSamples
        /\ power_samples' = [power_samples EXCEPT ![power_next] = sample]
        /\ power_next' = (power_next + 1) % Samples
        /\ power_count' = IF power_count < Samples THEN power_count + 1 ELSE power_count
        /\ given' = [given EXCEPT !.power = Append(@, [vdd |-> vdd, at |-> time])]
        /\ UNCHANGED <<time, crumbVars, settings, environment, dna, time_sync>>

(* The k-th newest sample. *)
Newest(k) == power_samples[(power_next + Samples - k) % Samples]

(* minimum_vdd_mv and last of ls_power_get_summary. *)
ls_power_get_summary ==
    LET index(k) == (power_next + Samples - power_count + k) % Samples
    IN  [minimum |-> Min({power_samples[index(k)].vdd : k \in 0..(power_count - 1)}),
         last |-> power_samples[index(power_count - 1)].vdd]

(* The loop runs from the newest sample and stops at one that is too old. *)
ls_power_brownout_suspected(threshold, within) ==
    \E k \in 1..power_count :
        /\ \A j \in 1..k : within # 0 => Minus(Clock, Newest(j).at) <= within
        /\ Newest(k).vdd # 0 /\ Newest(k).vdd < threshold

-----------------------------------------------------------------------------
Deepest(old, new) == IF new > old THEN new ELSE old

ls_environment_sample(depth, leak) ==
    /\ Len(given.environment) < MaxSamples
    /\ environment' = [samples |-> environment.samples + 1, depth |-> depth, leak |-> leak,
                       maximum |-> Deepest(environment.maximum, depth),
                       leaks |-> environment.leaks + IF leak THEN 1 ELSE 0]
    /\ given' = [given EXCEPT !.environment = Append(@, [depth |-> depth, leak |-> leak])]
    /\ UNCHANGED <<time, crumbVars, settings, powerVars, dna, time_sync>>

(* dna_capture with dna_record_boot_time. *)
dna_record_boot_time == IF dna.index + 1 >= BootSamples THEN 0 ELSE dna.index + 1

dna_capture ==
    /\ dna.count < BootTimes
    /\ dna' = [index |-> dna_record_boot_time, count |-> dna.count + 1,
               captured |-> dna.captured \/ dna_record_boot_time >= BootSamples]
    /\ UNCHANGED <<time, crumbVars, settings, powerVars, environment, time_sync, given>>

-----------------------------------------------------------------------------
ls_time_sync_set(utc) ==
    /\ time_sync' = [set |-> TRUE, utc |-> utc, at |-> Clock, generation |-> time_sync.generation + 1]
    /\ time_sync.generation < MaxSamples
    /\ given' = [given EXCEPT !.synced = time]
    /\ UNCHANGED <<time, crumbVars, settings, powerVars, environment, dna>>

ls_time_sync_clear ==
    /\ time_sync.set
    /\ time_sync' = [set |-> FALSE, utc |-> 0, at |-> 0, generation |-> time_sync.generation]
    /\ UNCHANGED <<time, crumbVars, settings, powerVars, environment, dna, given>>

Elapsed(since) == Minus(Clock, since)

ls_time_utc_ms == time_sync.utc + Elapsed(time_sync.at)

Next == \/ Tick
        \/ \E l \in Level : ls_breadcrumb_event(l) \/ ls_breadcrumb_set_min_level(l)
        \/ \E p \in Policy : ls_breadcrumb_set_policy(p)
        \/ \E v \in Vdd : ls_power_sample(v)
        \/ \E d \in Depth, l \in Leak : ls_environment_sample(d, l)
        \/ dna_capture
        \/ ls_time_sync_clear \/ \E u \in Utc : ls_time_sync_set(u)

Spec == Init /\ [][Next]_vars

-----------------------------------------------------------------------------
(* Types; the rings stay within their arrays. *)
TypeOK ==
    /\ DOMAIN breadcrumbs = 0..(Crumbs - 1) /\ breadcrumb_next \in 0..(Crumbs - 1)
    /\ breadcrumb_count \in 0..Crumbs
    /\ power_next \in 0..(Samples - 1) /\ power_count \in 0..Samples
    /\ dna.index \in 0..(BootSamples - 1)

Latest(s, n) == SubSeq(s, Len(s) - n + 1, Len(s))
AtMost(n) == IF n < Crumbs THEN n ELSE Crumbs

(* What each policy is to keep of the breadcrumbs that passed the level. *)
Expected ==
    LET all == SelectSeq(given.crumbs, LAMBDA c : c.passed)
        first == SubSeq(all, 1, AtMost(Len(all)))
        errors == SelectSeq(SubSeq(all, Crumbs + 1, Len(all)), LAMBDA c : c.level >= Error)
    IN  CASE breadcrumb_policy = "DROP_OLDEST" -> Latest(all, AtMost(Len(all)))
          [] breadcrumb_policy = "DROP_NEWEST" -> first
          [] breadcrumb_policy = "KEEP_ERRORS" -> Latest(first \o errors, Len(first))

(* The breadcrumbs in a report are in the order they were left, also when   *)
(* the policy was changed in between; with one policy they are the latest,  *)
(* the earliest, or the earliest with only errors pushing them out.         *)
CrumbsFollowPolicy ==
    /\ \A i, j \in 1..breadcrumb_count : i < j => CrumbsInOrder[i].no < CrumbsInOrder[j].no
    /\ ~given.switched => CrumbsInOrder = Expected

(* The summary is that of the latest samples, as many as the ring holds. *)
SummaryIsOfLatest ==
    power_count > 0 =>
        LET latest == Latest(given.power, power_count)
        IN  ls_power_get_summary = [minimum |-> Min({s.vdd : s \in ToSet(latest)}), last |-> Last(latest).vdd]

(* A brownout is suspected exactly when a sample the ring still holds, and  *)
(* that is not too old, was below the threshold, also across a wrap of the  *)
(* clock.                                                                   *)
BrownoutExact ==
    \A th \in Threshold, w \in Within :
        ls_power_brownout_suspected(th, w) <=>
            \E s \in ToSet(Latest(given.power, power_count)) :
                s.vdd # 0 /\ s.vdd < th /\ (w = 0 \/ time - s.at <= w)

(* The greatest depth (never less than the surface) and the number of leaks *)
(* are those of all samples, not only of the last.                          *)
EnvironmentExact ==
    LET all == ToSet(given.environment)
    IN  /\ environment.maximum = Max({0} \cup {s.depth : s \in all})
        /\ environment.leaks = Len(SelectSeq(given.environment, LAMBDA s : s.leak))

(* The wall clock is the time of the last anchor and what passed since, for *)
(* anchors younger than one turn of the clock.                              *)
UtcExact ==
    time_sync.set /\ time - given.synced < Wrap
        => ls_time_utc_ms = time_sync.utc + (time - given.synced)
=============================================================================
