---------------------------- MODULE MCDiagnostics ----------------------------
(***************************************************************************)
(* What is observed, let through and encoded, for TLC, one component at a  *)
(* time: part names the component that a behaviour runs, and the variables *)
(* that it does not have keep the value Absent.                            *)
(***************************************************************************)
EXTENDS Integers, Sequences

CONSTANTS f1, f2, d1, d2, Absent

VARIABLES part,
    dedup, dedup_next, policies, clock, events, passed, seen, repeat, silent, last,
    health, watchdog_last_feed, level, config, status, poll, touched, reports, fed, polls,
    metrics, found, history, sinceReset, increments, updates,
    fault_injections, fault_injection_active, outcome,
    breadcrumbs, breadcrumb_next, breadcrumb_count, breadcrumb_policy, breadcrumb_min_level,
    power_samples, power_next, power_count, environment, dna, time_sync, given,
    content, security, capacity, at, tlvs, used, truncated, result, header,
    input,
    time                                            \* of Supervision and Telemetry

policy == <<dedup, dedup_next, policies, clock, events, passed, seen, repeat, silent, last>>
supervision == <<health, watchdog_last_feed, level, config, status, poll, touched, reports, fed, polls>>
metric == <<metrics, found, history, sinceReset, increments, updates>>
injection == <<fault_injections, fault_injection_active, outcome>>
telemetry == <<breadcrumbs, breadcrumb_next, breadcrumb_count, breadcrumb_policy,
               breadcrumb_min_level, power_samples, power_next, power_count, environment, dna,
               time_sync, given>>
encoder == <<content, security, capacity, at, tlvs, used, truncated, result, header>>
vars == <<part, policy, supervision, metric, injection, telemetry, encoder, input, time>>

Owner == [f \in {f1, f2} |-> IF f = f2 THEN d2 ELSE d1]

Limited == INSTANCE Policy WITH Fingerprint <- {f1, f2}, Domain <- {d1, d2}, DomainOf <- Owner,
              Limits <- {<<1, 2>>}, DedupCapacity <- 1, PolicyCapacity <- 1, Window <- 2,
              Modulus <- 8, Start <- 6, MaxTime <- 9, Skew <- 0, MaxEvents <- 4
Repeats == INSTANCE Policy WITH Fingerprint <- {f1, f2}, Domain <- {d1, d2}, DomainOf <- Owner,
              Limits <- {}, DedupCapacity <- 1, PolicyCapacity <- 1, Window <- 2,
              Modulus <- 8, Start <- 6, MaxTime <- 10, Skew <- 1, MaxEvents <- 4

Tasks == INSTANCE Supervision WITH Task <- {"a", "b"}, Deadlines <- {1, 2}, Capacity <- 2,
              Stale <- {0}, Early <- {}, Late <- {}, Wrap <- 8, Start <- 6, MaxTime <- 10,
              MaxPolls <- 2, Preemptive <- FALSE
Watchdog == INSTANCE Supervision WITH Task <- {"a"}, Deadlines <- {1}, Capacity <- 1,
              Stale <- {0, 1, 2}, Early <- {"VDD_LOW"}, Late <- {"SPOOL_HIGH"}, Wrap <- 8,
              Start <- 6, MaxTime <- 9, MaxPolls <- 1, Preemptive <- FALSE

Windows == INSTANCE Metrics WITH Thread <- {1}, Name <- {"a", "b"}, Value <- {-3, 2},
              Unsigned <- {9}, Amount <- {1}, Capacity <- 1, Window <- 2, Half <- 8, MaxUpdates <- 4
Counter == INSTANCE Metrics WITH Thread <- {1}, Name <- {"a", "b"}, Value <- {}, Unsigned <- {},
              Amount <- {1, 2}, Capacity <- 2, Window <- 2, Half <- 8, MaxUpdates <- 5

Injection == INSTANCE FaultInjection WITH Name <- {"read", "write", "sync"}, Trigger <- {1, 2, 3},
              Capacity <- 2, MaxHits <- 4

Trail == INSTANCE Telemetry WITH Level <- {1, 2}, Error <- 2,
              Policy <- {"DROP_OLDEST", "DROP_NEWEST", "KEEP_ERRORS"}, Crumbs <- 2, Vdd <- {},
              Threshold <- {}, Within <- {}, Samples <- 2, Depth <- {}, Leak <- {}, BootTimes <- 0,
              BootSamples <- 2, Utc <- {}, Wrap <- 4, MaxTime <- 1, MaxCrumbs <- 5, MaxSamples <- 1
Power == INSTANCE Telemetry WITH Level <- {}, Error <- 2, Policy <- {}, Crumbs <- 1,
              Vdd <- {0, 1, 2}, Threshold <- {2, 3}, Within <- {0, 1, 2}, Samples <- 2,
              Depth <- {}, Leak <- {}, BootTimes <- 0, BootSamples <- 2, Utc <- {}, Wrap <- 4,
              MaxTime <- 4, MaxCrumbs <- 0, MaxSamples <- 4
Surroundings == INSTANCE Telemetry WITH Level <- {}, Error <- 2, Policy <- {}, Crumbs <- 1,
              Vdd <- {}, Threshold <- {}, Within <- {}, Samples <- 2, Depth <- {-2, 3},
              Leak <- BOOLEAN, BootTimes <- 3, BootSamples <- 2, Utc <- {1, 5}, Wrap <- 4,
              MaxTime <- 6, MaxCrumbs <- 0, MaxSamples <- 3

(* The smallest sizes with every limit in it: three digits to a word of 32. *)
Runs == INSTANCE Compression WITH Half <- 4, MaxDigits <- 3, LastDigit <- 2, Symbol <- 0..1,
              MaxInput <- 10, MaxCapacity <- 12
Words == INSTANCE Compression WITH Half <- 4, MaxDigits <- 3, LastDigit <- 2, Symbol <- 0..31,
              MaxInput <- 2, MaxCapacity <- 7
Bytes == INSTANCE Compression WITH Half <- 4, MaxDigits <- 3, LastDigit <- 2, Symbol <- 0..7,
              MaxInput <- 4, MaxCapacity <- 9

-----------------------------------------------------------------------------
(* Contents of an envelope: nothing but the mandatory TLVs, the health and  *)
(* the heap; a vehicle in the middle of a mission; crashes of four kinds of *)
(* processor; regions of memory with redactions; and assertions.            *)
Names(n) == [i \in 1..15 |-> n]

Empty ==
    [identity |-> Names(8), cpu |-> "none", crumbs |-> <<>>, metrics |-> <<>>, power |-> 0,
     blackbox |-> <<>>, mission |-> <<>>, synchronized |-> FALSE, provisioned |-> FALSE,
     supervised |-> FALSE, sampled |-> FALSE, sealed |-> FALSE, assertion |-> <<>>,
     peripheral |-> FALSE, log |-> <<>>, regions |-> <<>>, redactions |-> <<>>, stack |-> 0]

Crumb(n) == [category |-> 4, message |-> n, values |-> 1]

Busy ==
    [Empty EXCEPT !.crumbs = <<Crumb(47), Crumb(6)>>, !.metrics = <<[name |-> 9, window |-> 8]>>,
                  !.power = 2, !.blackbox = <<"plain", "plain", "sensitive", "plain", "torn", "plain">>,
                  !.mission = <<31, 23, 23, 19>>, !.synchronized = TRUE, !.provisioned = TRUE,
                  !.supervised = TRUE, !.sampled = TRUE, !.sealed = TRUE]

Crash(c, cpu) ==
    [c EXCEPT !.cpu = cpu, !.stack = 40, !.regions = <<[start |-> 0, length |-> 20]>>]

Redacted(modes) ==
    [Empty EXCEPT !.regions = <<[start |-> 0, length |-> 40], [start |-> 60, length |-> 10]>>,
                  !.redactions = [i \in DOMAIN modes |->
                                    [start |-> 20 * i, length |-> 30, mode |-> modes[i]]]]

Asserting(n) == [Empty EXCEPT !.assertion = <<n, 20, 5>>, !.log = <<4>>, !.peripheral = TRUE]

Contents ==
    {Empty, Busy, [Empty EXCEPT !.identity = Names(0)], [Busy EXCEPT !.identity = Names(60)],
     [Busy EXCEPT !.identity[3] = 260], Asserting(20), Asserting(300)}
    \cup {Crash(c, cpu) : c \in {Empty, Busy}, cpu \in {"plain", "fpu", "rv64", "rv64_wide"}}
    \cup {Redacted(m) : m \in [1..2 -> {"zero", "hash", "exclude"}]}
    \cup {[Crash(Empty, "rv64_wide") EXCEPT !.stack = 400, !.identity = Names(n)] : n \in {0, 50}}

(* Buffers too small for anything up to one with room for everything, and   *)
(* every size around that of the mandatory TLVs.                            *)
Capacities == {20 + (26 * i) : i \in 0..50} \cup {118 + i : i \in 20..36} \cup {4096}

Lep == INSTANCE LepEncoder WITH Content <- Contents, Capacity <- Capacities, EnvelopeMax <- 4,
              RegionMax <- 32, StackMax <- 256

ASSUME Limited!PolicyAssumption /\ Repeats!PolicyAssumption
ASSUME Tasks!SupervisionAssumption /\ Watchdog!SupervisionAssumption
ASSUME Windows!MetricsAssumption /\ Counter!MetricsAssumption
ASSUME Injection!FaultInjectionAssumption
ASSUME Trail!TelemetryAssumption /\ Power!TelemetryAssumption /\ Surroundings!TelemetryAssumption
ASSUME Runs!CompressionAssumption /\ Words!CompressionAssumption /\ Bytes!CompressionAssumption
ASSUME Lep!LepAssumption

-----------------------------------------------------------------------------
NoPolicy == /\ dedup = Absent /\ dedup_next = Absent /\ policies = Absent /\ clock = Absent
            /\ events = Absent /\ passed = Absent /\ seen = Absent /\ repeat = Absent
            /\ silent = Absent /\ last = Absent
NoSupervision == /\ health = Absent /\ watchdog_last_feed = Absent /\ level = Absent
                 /\ config = Absent /\ status = Absent /\ poll = Absent /\ touched = Absent
                 /\ reports = Absent /\ fed = Absent /\ polls = Absent
NoMetric == /\ metrics = Absent /\ found = Absent /\ history = Absent /\ sinceReset = Absent
            /\ increments = Absent /\ updates = Absent
NoInjection == /\ fault_injections = Absent /\ fault_injection_active = Absent /\ outcome = Absent
NoTelemetry == /\ breadcrumbs = Absent /\ breadcrumb_next = Absent /\ breadcrumb_count = Absent
               /\ breadcrumb_policy = Absent /\ breadcrumb_min_level = Absent
               /\ power_samples = Absent /\ power_next = Absent /\ power_count = Absent
               /\ environment = Absent /\ dna = Absent /\ time_sync = Absent /\ given = Absent
NoEncoder == /\ content = Absent /\ security = Absent /\ capacity = Absent /\ at = Absent
             /\ tlvs = Absent /\ used = Absent /\ truncated = Absent /\ result = Absent
             /\ header = Absent

Init ==
    \/ part \in {"limits", "repeats"} /\ Limited!Init /\ NoSupervision /\ NoMetric /\ NoInjection
       /\ NoTelemetry /\ NoEncoder /\ input = Absent /\ time = Absent
    \/ part = "deadlines" /\ Tasks!Init /\ NoPolicy /\ NoMetric /\ NoInjection /\ NoTelemetry
       /\ NoEncoder /\ input = Absent
    \/ part = "watchdog" /\ Watchdog!Init /\ NoPolicy /\ NoMetric /\ NoInjection /\ NoTelemetry
       /\ NoEncoder /\ input = Absent
    \/ part \in {"windows", "counter"} /\ Windows!Init /\ NoPolicy /\ NoSupervision /\ NoInjection
       /\ NoTelemetry /\ NoEncoder /\ input = Absent /\ time = Absent
    \/ part = "injection" /\ Injection!Init /\ NoPolicy /\ NoSupervision /\ NoMetric /\ NoTelemetry
       /\ NoEncoder /\ input = Absent /\ time = Absent
    \/ part = "crumbs" /\ Trail!Init /\ NoPolicy /\ NoSupervision /\ NoMetric /\ NoInjection
       /\ NoEncoder /\ input = Absent
    \/ part \in {"power", "surroundings"} /\ Power!Init /\ NoPolicy /\ NoSupervision /\ NoMetric
       /\ NoInjection /\ NoEncoder /\ input = Absent
    \/ part = "lep" /\ Lep!Init /\ NoPolicy /\ NoSupervision /\ NoMetric /\ NoInjection
       /\ NoTelemetry /\ input = Absent /\ time = Absent
    \/ part \in {"runs", "words", "bytes"} /\ Runs!Init /\ NoPolicy /\ NoSupervision /\ NoMetric
       /\ NoInjection /\ NoTelemetry /\ NoEncoder /\ time = Absent

PolicyFrame == UNCHANGED <<part, supervision, metric, injection, telemetry, encoder, input, time>>
SupervisionFrame == UNCHANGED <<part, policy, metric, injection, telemetry, encoder, input>>
MetricFrame == UNCHANGED <<part, policy, supervision, injection, telemetry, encoder, input, time>>
TelemetryFrame == UNCHANGED <<part, policy, supervision, metric, injection, encoder, input>>
InputFrame == UNCHANGED <<part, policy, supervision, metric, injection, telemetry, encoder, time>>

Next ==
    \/ part = "limits" /\ Limited!Next /\ PolicyFrame
    \/ part = "repeats" /\ Repeats!Next /\ PolicyFrame
    \/ part = "deadlines" /\ Tasks!Next /\ SupervisionFrame
    \/ part = "watchdog" /\ Watchdog!Next /\ SupervisionFrame
    \/ part = "windows" /\ Windows!Next /\ MetricFrame
    \/ part = "counter" /\ Counter!Next /\ MetricFrame
    \/ part = "injection" /\ Injection!Next
       /\ UNCHANGED <<part, policy, supervision, metric, telemetry, encoder, input, time>>
    \/ part = "crumbs" /\ Trail!Next /\ TelemetryFrame
    \/ part = "power" /\ Power!Next /\ TelemetryFrame
    \/ part = "surroundings" /\ Surroundings!Next /\ TelemetryFrame
    \/ part = "lep" /\ Lep!Next
       /\ UNCHANGED <<part, policy, supervision, metric, injection, telemetry, input, time>>
    \/ part = "runs" /\ Runs!Next /\ InputFrame
    \/ part = "words" /\ Words!Next /\ InputFrame
    \/ part = "bytes" /\ Bytes!Next /\ InputFrame

Spec == Init /\ [][Next]_vars

-----------------------------------------------------------------------------
(* Every component keeps to its types and its tables and rings within their *)
(* arrays; what a codec writes or returns stays within its width and the    *)
(* room it was given.                                                       *)
TypeOK == /\ part = "limits" => Limited!TypeOK
          /\ part = "repeats" => Repeats!TypeOK
          /\ part = "deadlines" => Tasks!TypeOK
          /\ part = "watchdog" => Watchdog!TypeOK
          /\ part = "windows" => Windows!TypeOK
          /\ part = "counter" => Counter!TypeOK
          /\ part = "injection" => Injection!TypeOK
          /\ part = "crumbs" => Trail!TypeOK
          /\ part = "power" => Power!TypeOK
          /\ part = "surroundings" => Surroundings!TypeOK
          /\ part = "lep" => Lep!TypeOK
          /\ part = "bytes" => Bytes!TypeOK



Plan == INSTANCE FaultPlan WITH Name <- {"read", "write", "sync"}, Trigger <- {1, 2, 3},
            left <- [n \in {"read", "write", "sync"} |->
                        IF part = "injection" THEN Injection!Left(n) ELSE -1],
            outcome <- IF part = "injection" THEN outcome ELSE [name |-> "", failed |-> FALSE]

(* The table of fault points, with its slots, its shared flag and its       *)
(* counters that stop at their limit, does what FaultPlan promises: each    *)
(* point armed fails at exactly the hit it was armed for, whatever is done  *)
(* to the others.                                                           *)
ImplementsPlan == Plan!Plan



(* The codecs undo each other: runs and literals of every length around the *)
(* limits of a control byte, differences of words that wrap around; a       *)
(* prefix of an integer asks for more bytes and what follows it does not    *)
(* matter; and bytes are decoded alike with every capacity that is enough   *)
(* and refused with every other one.                                        *)
CodecsRoundTrip == /\ part = "runs" => Runs!RleRoundTrip
                   /\ part = "words" => Words!DeltaRoundTrip
                   /\ part = "bytes" => Bytes!VarintIncremental /\ Bytes!DecodersAgree
=============================================================================
