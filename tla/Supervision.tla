----------------------------- MODULE Supervision -----------------------------
(***************************************************************************)
(* Task deadlines and the supervisor (src/core/health.c,                   *)
(* src/core/supervisor.c). The supervisor is polled from a low-priority    *)
(* task; the tasks it watches run in between its steps when Preemptive.    *)
(* ls_uptime_ms is a clock that wraps; time is the same without wrapping.  *)
(***************************************************************************)
EXTENDS Integers, Sequences, SequencesExt, FiniteSets

CONSTANTS
    Task,               \* names given to ls_health_register
    Deadlines,          \* the deadlines they are registered with
    Capacity,           \* LS_HEALTH_CAPACITY
    Stale,              \* values of watchdog_max_stale_ms; 0 is off
    Early, Late,        \* alarms read off the power sample, heap and boot state,
                        \* and those read off the environment sample and the spool
    Wrap,               \* 2^32
    Start, MaxTime,     \* bounds on time
    MaxPolls,           \* bound on the polls
    Preemptive          \* may the watched tasks run during a poll?

SupervisionAssumption ==
    /\ Deadlines \subseteq Nat \ {0} /\ Stale \subseteq Nat
    /\ {Capacity, Wrap, Start, MaxTime, MaxPolls} \subseteq Nat
    /\ Preemptive \in BOOLEAN /\ MaxTime - Start < Wrap

Never == -1
Level == Early \cup Late

VARIABLES
    time,               \* true time, of which the clock shows the low bits
    health,             \* ls_runtime.health: the registered tasks
    watchdog_last_feed,
    level,              \* the level alarms whose condition holds now
    config,             \* supervisor_config, as far as it matters: the staleness
    status,             \* supervisor_status
    poll,               \* local variables of a poll in progress
    touched, reports, fed, polls  \* history

vars == <<time, health, watchdog_last_feed, level, config, status, poll,
          touched, reports, fed, polls>>

Clock == time % Wrap
Minus(a, b) == (a - b + Wrap) % Wrap     \* unsigned subtraction

Idle == [pc |-> "idle", now |-> 0, at |-> 0, i |-> 0, alarms |-> {}]

Init == /\ time = Start
        /\ health = <<>>
        /\ watchdog_last_feed = 0
        /\ level = {}
        /\ config = Never
        /\ status = [active |-> {}, previous |-> {}, transitions |-> 0]
        /\ poll = Idle
        /\ touched = [t \in Task |-> Never] /\ reports = [t \in Task |-> 0]
        /\ fed = Never /\ polls = 0

-----------------------------------------------------------------------------
(* What the watched tasks do. *)
MayRun == poll.pc = "idle" \/ Preemptive

Entries(t) == {i \in DOMAIN health : health[i].name = t}

ls_health_register(t, d) ==
    /\ poll.pc = "idle"
    /\ IF Entries(t) # {}
       THEN /\ health' = [i \in DOMAIN health |->
                            IF i \in Entries(t) THEN [health[i] EXCEPT !.deadline = d] ELSE health[i]]
            /\ UNCHANGED touched
       ELSE /\ Len(health) < Capacity
            /\ health' = Append(health, [name |-> t, deadline |-> d, last_touch |-> Clock,
                                         misses |-> 0, max_lateness |-> 0, expired |-> FALSE])
            /\ touched' = [touched EXCEPT ![t] = time]
    /\ UNCHANGED <<time, watchdog_last_feed, level, config, status, poll, reports, fed, polls>>


ls_health_touch(t) ==
    /\ MayRun /\ Entries(t) # {}
    /\ health' = [i \in DOMAIN health |->
                    IF i \in Entries(t)
                    THEN [health[i] EXCEPT !.last_touch = Clock, !.expired = FALSE]
                    ELSE health[i]]
    /\ touched' = [touched EXCEPT ![t] = time]
    /\ reports' = [reports EXCEPT ![t] = 0]
    /\ UNCHANGED <<time, watchdog_last_feed, level, config, status, poll, fed, polls>>

ls_watchdog_fed ==
    /\ MayRun
    /\ watchdog_last_feed' = Clock /\ fed' = time
    /\ UNCHANGED <<time, health, level, config, status, poll, touched, reports, polls>>

(* A sample, the heap, the spool or the boot state changes. *)
LevelChanges(l) ==
    /\ MayRun /\ level' = l /\ level' # level
    /\ UNCHANGED <<time, health, watchdog_last_feed, config, status, poll, touched, reports, fed, polls>>

Tick ==
    /\ time < MaxTime /\ time' = time + 1
    /\ UNCHANGED <<health, watchdog_last_feed, level, config, status, poll, touched, reports, fed, polls>>

-----------------------------------------------------------------------------
ls_supervisor_configure(stale) ==
    /\ poll.pc = "idle" /\ config' = stale
    /\ UNCHANGED <<time, health, watchdog_last_feed, level, status, poll, touched, reports, fed, polls>>

(* The alarms on the last power sample, the heap and the boot loop, and the *)
(* ones on the last environment sample and the spool.                       *)
power_alarms == level \cap Early
LateAlarms == level \cap Late

(* The poll of the supervisor begins; LS_ENOTSUP before it is configured. *)
ls_supervisor_poll ==
    /\ poll.pc = "idle" /\ config # Never
    /\ polls < MaxPolls /\ polls' = polls + 1
    /\ poll' = [pc |-> "watchdog", now |-> Clock, at |-> time, i |-> 1, alarms |-> power_alarms]
    /\ UNCHANGED <<time, health, watchdog_last_feed, level, config, status, touched, reports, fed>>

WatchdogStale ==
    config # 0 /\ watchdog_last_feed # 0 /\ Minus(poll.now, watchdog_last_feed) > config

Watchdog ==
    /\ poll.pc = "watchdog"
    /\ poll' = [poll EXCEPT !.pc = "health",
                            !.alarms = @ \cup IF WatchdogStale THEN {"WATCHDOG_STALE"} ELSE {}]
    /\ UNCHANGED <<time, health, watchdog_last_feed, level, config, status, touched, reports, fed, polls>>

(* ls_health_poll reads the clock once, before its loop over the tasks. *)
ls_health_poll ==
    /\ poll.pc = "health"
    /\ poll' = [poll EXCEPT !.pc = "judge", !.now = Clock, !.at = time]
    /\ UNCHANGED <<time, health, watchdog_last_feed, level, config, status, touched, reports, fed, polls>>

(* What becomes of a record whose last touch is that old. *)
Judged(r, age) ==
    IF age <= r.deadline THEN r
    ELSE [r EXCEPT !.expired = TRUE,
                   !.misses = IF r.expired THEN @ ELSE @ + 1,
                   !.max_lateness = IF age - r.deadline > @ THEN age - r.deadline ELSE @]

(* One round of the loop; a new miss is captured, which may take long. *)
JudgeNext ==
    LET r == health[poll.i]
        new == Judged(r, Minus(poll.now, r.last_touch))
    IN  /\ poll.pc = "judge" /\ poll.i <= Len(health)
        /\ health' = [health EXCEPT ![poll.i] = new]
        /\ reports' = [reports EXCEPT ![r.name] = @ + (new.misses - r.misses)]
        /\ poll' = [poll EXCEPT !.i = @ + 1]
        /\ UNCHANGED <<time, watchdog_last_feed, level, config, status, touched, fed, polls>>

(* The rest of the poll: what changed is recorded, what is new is captured. *)
Publish ==
    LET expired == \E i \in DOMAIN health : health[i].expired
        alarms == poll.alarms \cup LateAlarms \cup IF expired THEN {"HEALTH_DEADLINE"} ELSE {}
    IN  /\ poll.pc = "judge" /\ poll.i > Len(health)
        /\ status' = [active |-> alarms, previous |-> status.active,
                      transitions |-> status.transitions + IF alarms = status.active THEN 0 ELSE 1]
        /\ poll' = Idle
        /\ UNCHANGED <<time, health, watchdog_last_feed, level, config, touched, reports, fed, polls>>

Next == \/ Tick
        \/ \E t \in Task : ls_health_touch(t) \/ \E d \in Deadlines : ls_health_register(t, d)
        \/ ls_watchdog_fed
        \/ \E l \in SUBSET Level : LevelChanges(l)
        \/ \E s \in Stale : ls_supervisor_configure(s)
        \/ ls_supervisor_poll \/ Watchdog \/ ls_health_poll \/ JudgeNext \/ Publish

Spec == Init /\ [][Next]_vars

-----------------------------------------------------------------------------
(* Types; the supervisor counts no more changes than polls. *)
TypeOK ==
    /\ Len(health) <= Capacity
    /\ \A i, j \in DOMAIN health : health[i].name = health[j].name => i = j
    /\ watchdog_last_feed \in 0..(Wrap - 1)
    /\ status.active \subseteq Level \cup {"WATCHDOG_STALE", "HEALTH_DEADLINE"}
    /\ status.transitions \in 0..MaxPolls
    /\ poll.pc \in {"idle", "watchdog", "health", "judge"}

(* A miss is counted and captured only for a task that was not heard of for *)
(* longer than its deadline, and its greatest lateness is one that was real. *)
MissIsReal ==
    \A i \in DOMAIN health : i \in DOMAIN health' =>
        LET late == time - touched[health[i].name] - health[i].deadline
        IN  /\ health'[i].misses > health[i].misses => late > 0
            /\ health'[i].max_lateness > health[i].max_lateness
                  => health'[i].max_lateness <= late

(* Between two signs of life of a task at most one miss is captured. *)
OneReportPerLapse == \A t \in Task : reports[t] <= 1

Ends == poll.pc = "judge" /\ poll'.pc = "idle"

(* When a poll ends, every task that was late when it looked is reported as *)
(* expired, and the alarm stands; it does not stand when none is.           *)
LateIsNoticed ==
    Ends => LET late == {i \in DOMAIN health :
                           poll.at - touched[health[i].name] > health[i].deadline}
            IN  /\ \A i \in late : health'[i].expired /\ reports[health[i].name] = 1
                /\ late # {} => "HEALTH_DEADLINE" \in status'.active

(* The alarm for the watchdog stands after a poll exactly when its last     *)
(* feed was too long ago as the poll began, apart from a feed at the moment *)
(* the clock shows 0, which the code reads as "never fed".                  *)
WatchdogExact ==
    poll.pc = "watchdog" /\ poll'.pc = "health" /\ fed # Never /\ config # 0 /\ fed % Wrap # 0
        => ("WATCHDOG_STALE" \in poll'.alarms <=> poll.at - fed > config)
=============================================================================
