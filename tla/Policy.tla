------------------------------- MODULE Policy -------------------------------
(***************************************************************************)
(* The capture policy (src/core/policy.c): the table of fingerprints seen, *)
(* in which a repeated failure is counted and thinned out, and the limits  *)
(* and sampling rates of domains.  Times are uptimes modulo 2^32, taken by *)
(* the caller before ls_capture_event admits it, so an event may arrive    *)
(* with a time before that of an earlier one.                              *)
(***************************************************************************)
EXTENDS Integers, Sequences, SequencesExt, FiniteSets

CONSTANTS
    Fingerprint,        \* fingerprints of events
    Domain,             \* domains of events
    DomainOf,           \* DomainOf[f], the domain of the events with fingerprint f
    Limits,             \* limits the application sets: pairs of maximum and period
    DedupCapacity,      \* LS_DEDUP_CAPACITY
    PolicyCapacity,     \* LS_POLICY_CAPACITY
    Window,             \* LS_DEDUP_WINDOW_MS
    Modulus,            \* 2^32
    Start, MaxTime,     \* bounds on the clock
    Skew,               \* how late an event may reach the policy
    MaxEvents           \* bound on the events of a behaviour

PolicyAssumption ==
    /\ DomainOf \in [Fingerprint -> Domain]
    /\ Limits \subseteq (Nat \ {0}) \X (Nat \ {0})
    /\ {DedupCapacity, PolicyCapacity, Modulus} \subseteq Nat \ {0}
    /\ {Window, Start, MaxTime, Skew, MaxEvents} \subseteq Nat
    /\ MaxTime - Start < Modulus

VARIABLES
    dedup, dedup_next,  \* the table of fingerprints
    policies,           \* the domains that have a policy, with it
    clock,              \* the uptime, not reduced
    events,             \* how many there were
    passed,             \* history: times of the limited events that passed, by domain
    seen,               \* history: time of the last event, by fingerprint; -1 for none
    repeat,             \* history: repeat_count of the last one that passed, zero
                        \* when it came under a policy
    silent,             \* history: events since then that were not let through
    last                \* history: the last event, and whether it passed

table == <<dedup, dedup_next>>
history == <<passed, seen, repeat, silent, last>>
vars == <<table, policies, clock, events, history>>

Ago(t, since) == (t - since) % Modulus

NoEvent == [fingerprint |-> "none", passed |-> FALSE, new |-> FALSE]

Init == /\ dedup = <<>> /\ dedup_next = 0
        /\ policies = <<>>
        /\ clock = Start /\ events = 0
        /\ passed = [d \in Domain |-> <<>>]
        /\ seen = [f \in Fingerprint |-> -1]
        /\ repeat = [f \in Fingerprint |-> 0]
        /\ silent = [f \in Fingerprint |-> 0]
        /\ last = NoEvent

-----------------------------------------------------------------------------
(* The table of policies with the one of a domain replaced. *)
Put(d, p) == [e \in DOMAIN policies \cup {d} |-> IF e = d THEN p ELSE policies[e]]

NewPolicy == [sampled |-> FALSE, seen |-> FALSE, maximum |-> 0, period |-> 0,
              count |-> 0, started |-> 0]

(* find_policy: the policy of a domain, or a new one where there is room. *)
find_policy(d) == IF d \in DOMAIN policies THEN policies[d] ELSE NewPolicy

HasRoom(d) == d \in DOMAIN policies \/ Cardinality(DOMAIN policies) < PolicyCapacity

(* ls_sampling_set: all events of the domain, or some. *)
ls_sampling_set(d, sampled) ==
    /\ HasRoom(d)
    /\ policies' = Put(d, [find_policy(d) EXCEPT !.sampled = sampled])
    /\ UNCHANGED <<table, clock, events, history>>

ls_rate_limit_set(d, limit) ==
    /\ HasRoom(d)
    /\ policies' = Put(d, [find_policy(d) EXCEPT !.maximum = limit[1], !.period = limit[2],
                                              !.count = 0, !.started = clock % Modulus])
    /\ passed' = [passed EXCEPT ![d] = <<>>]
    /\ UNCHANGED <<table, clock, events, seen, repeat, silent, last>>

ls_policy_reset ==
    /\ policies' = <<>>
    /\ dedup' = <<>> /\ dedup_next' = 0
    /\ passed' = [d \in Domain |-> <<>>]
    /\ seen' = [f \in Fingerprint |-> -1]
    /\ repeat' = [f \in Fingerprint |-> 0]
    /\ silent' = [f \in Fingerprint |-> 0]
    /\ last' = NoEvent
    /\ UNCHANGED <<clock, events>>

-----------------------------------------------------------------------------
(* Where the record of a fingerprint is, or goes: the table is filled and   *)
(* then reused from the start.                                              *)
dedup_record(f) ==
    LET known == SelectInSeq(dedup, LAMBDA r : r.fingerprint = f)
    IN  CASE known > 0 -> [index |-> known, next |-> dedup_next]
          [] known = 0 /\ Len(dedup) < DedupCapacity -> [index |-> Len(dedup) + 1, next |-> dedup_next]
          [] OTHER -> [index |-> dedup_next + 1, next |-> (dedup_next + 1) % DedupCapacity]

(* The record of an event: a window that is over starts again. *)
Counted(f, index, t) ==
    LET old == IF index <= Len(dedup) /\ dedup[index].fingerprint = f THEN dedup[index]
               ELSE [fingerprint |-> f, count |-> 0, first |-> t, last |-> t]
        over == Ago(t, old.last) > Window
    IN  [old EXCEPT !.count = IF over THEN 1 ELSE @ + 1,
                    !.first = IF over THEN t ELSE @,
                    !.last = t]


is_power_of_two(n) == \E k \in 0..n : n = 2^k

UnderLimit(p) == p.maximum = 0 \/ p.count < p.maximum

(* The policy of a domain after an event at time t: a period that is over   *)
(* starts again; an event under the limit is counted.                       *)
Charged(p, t) ==
    LET over == p.maximum # 0 /\ Ago(t, p.started) >= p.period
        now == [p EXCEPT !.seen = TRUE,
                         !.started = IF over THEN t ELSE @,
                         !.count = IF over THEN 0 ELSE @]
    IN  IF p.maximum # 0 /\ UnderLimit(now) THEN [now EXCEPT !.count = @ + 1] ELSE now

(* Whether the limit and the sampling let an event of a domain through; the *)
(* first event is never sampled away.                                       *)
Admits(p, t, drawn) ==
    LET over == p.maximum # 0 /\ Ago(t, p.started) >= p.period
    IN  /\ over \/ UnderLimit(p)
        /\ p.seen /\ p.sampled => drawn

(* One event at time t; drawn is the outcome of sampling it. *)
ls_policy_apply(f, critical, late, drawn) ==
    LET at == clock - late
        t == at % Modulus
        d == DomainOf[f]
        place == dedup_record(f)
        record == Counted(f, place.index, t)
        governed == ~critical /\ d \in DOMAIN policies
        admitted == governed => Admits(policies[d], t, drawn)
        pass == critical \/ (admitted /\ is_power_of_two(record.count))
    IN  /\ events < MaxEvents /\ events' = events + 1
        /\ late <= Skew /\ at >= Start
        /\ dedup' = IF place.index > Len(dedup) THEN Append(dedup, record)
                    ELSE [dedup EXCEPT ![place.index] = record]
        /\ dedup_next' = place.next
        /\ policies' = IF governed THEN [policies EXCEPT ![d] = Charged(@, t)] ELSE policies
        /\ passed' = IF pass /\ governed THEN [passed EXCEPT ![d] = Append(@, at)] ELSE passed
        /\ last' = [fingerprint |-> f, passed |-> pass, new |-> seen[f] < 0 \/ at - seen[f] > Window]
        /\ seen' = [seen EXCEPT ![f] = at]
        /\ repeat' = [repeat EXCEPT ![f] = CASE governed -> 0
                                              [] ~governed /\ pass -> record.count
                                              [] OTHER -> @]
        /\ silent' = [silent EXCEPT ![f] = IF pass \/ governed THEN 0 ELSE @ + 1]
        /\ UNCHANGED clock

Tick == /\ clock < MaxTime
        /\ clock' = clock + 1
        /\ UNCHANGED <<table, policies, events, history>>

-----------------------------------------------------------------------------
Next == \/ \E d \in Domain : \/ \E b \in BOOLEAN : ls_sampling_set(d, b)
                             \/ \E l \in Limits : ls_rate_limit_set(d, l)
        \/ ls_policy_reset
        \/ \E f \in Fingerprint, critical \in BOOLEAN, late \in 0..Skew, drawn \in BOOLEAN :
              ls_policy_apply(f, critical, late, drawn)
        \/ Tick

Spec == Init /\ [][Next]_vars

-----------------------------------------------------------------------------
(* Types, with the bounds of the two tables. *)
TypeOK ==
    /\ Len(dedup) <= DedupCapacity /\ dedup_next \in 0..(DedupCapacity - 1)
    /\ \A i \in DOMAIN dedup : {dedup[i].first, dedup[i].last} \subseteq 0..(Modulus - 1)
    /\ Cardinality(DOMAIN policies) <= PolicyCapacity

(* A rate limit holds however events fall around the ends of its periods:   *)
(* no stretch of one period has more than twice the maximum of events that  *)
(* are not critical.                                                        *)
RateHolds ==
    \A d \in DOMAIN policies : policies[d].maximum # 0 =>
        \A i \in DOMAIN passed[d] :
            LET Within(t) == t \in passed[d][i]..(passed[d][i] + policies[d].period - 1)
            IN  Len(SelectSeq(passed[d], Within)) <= 2 * policies[d].maximum

(* A failure that is new, or comes again after the window, is let through   *)
(* when its domain has no policy, whatever the table has forgotten.         *)
NewFailurePasses ==
    last.new /\ DomainOf[last.fingerprint] \notin DOMAIN policies => last.passed

(* A failure that keeps repeating, in a domain without a policy, is not     *)
(* silenced: fewer of its repetitions are held back than the last report    *)
(* said there were.                                                         *)
StormIsReported == \A f \in Fingerprint : repeat[f] > 0 => silent[f] < repeat[f]
=============================================================================
