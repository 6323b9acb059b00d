------------------------------- MODULE Metrics -------------------------------
(***************************************************************************)
(* The metric table (src/metrics/metrics.c), updated by several threads.   *)
(* set_metric works inside a critical section and is one step;             *)
(* ls_metric_increment looks the old value up before that section.         *)
(***************************************************************************)
EXTENDS Integers, Sequences, SequencesExt, FiniteSets, FiniteSetsExt

CONSTANTS
    Thread,
    Name,               \* metric names
    Value,              \* values given to ls_metric_i32
    Unsigned,           \* values given to ls_metric_u32
    Amount,             \* amounts given to ls_metric_increment
    Capacity,           \* LS_METRIC_CAPACITY
    Window,             \* LS_METRIC_WINDOW_SIZE
    Half,               \* 2^31: half the values an int32_t has
    MaxUpdates          \* bound on the updates

MetricsAssumption ==
    /\ Value \subseteq -Half..(Half - 1) /\ Unsigned \subseteq 0..(2 * Half - 1)
    /\ {Capacity, Window, Half, MaxUpdates} \subseteq Nat \ {0}

VARIABLES
    metrics,            \* ls_runtime.metrics
    found,              \* what a thread inside ls_metric_increment read
    history,            \* history[n]: the values the metric n was given
    sinceReset,         \* of those, how many since its window was reset
    increments,         \* history: the sum of the increments that returned
    updates

vars == <<metrics, found, history, sinceReset, increments, updates>>

None == [amount |-> -1]

(* The conversion of an unsigned number to int32_t. *)
AsInt32(v) == ((v + Half) % (2 * Half)) - Half

Init == /\ metrics = <<>>
        /\ found = [t \in Thread |-> None]
        /\ history = [n \in Name |-> <<>>]
        /\ sinceReset = [n \in Name |-> 0]
        /\ increments = [n \in Name |-> 0]
        /\ updates = 0

find_metric(n) == {i \in DOMAIN metrics : metrics[i].name = n}

Fresh(n, v) == [name |-> n, type |-> "none", value |-> 0, previous |-> 0, minimum |-> v,
                maximum |-> v, sum |-> 0, count |-> 0, window |-> [j \in 0..(Window - 1) |-> 0],
                window_next |-> 0, window_count |-> 0]

Updated(m, v, type) ==
    [m EXCEPT !.previous = m.value, !.value = v, !.type = type,
              !.minimum = IF m.count = 0 \/ v < @ THEN v ELSE @,
              !.maximum = IF m.count = 0 \/ v > @ THEN v ELSE @,
              !.sum = @ + v, !.count = @ + 1,
              !.window[m.window_next] = v,
              !.window_next = (@ + 1) % Window,
              !.window_count = IF m.window_count < Window THEN @ + 1 ELSE @]

MayAdd(n) == Len(metrics) < Capacity

(* A name that is not in the table and finds it full is dropped. *)
set_metric(n, v, type) ==
    LET taken == find_metric(n) # {} \/ MayAdd(n)
    IN  /\ updates < MaxUpdates /\ updates' = updates + 1
        /\ metrics' = IF find_metric(n) # {}
                      THEN [i \in DOMAIN metrics |-> IF i \in find_metric(n)
                                THEN Updated(metrics[i], v, type) ELSE metrics[i]]
                      ELSE IF MayAdd(n) THEN Append(metrics, Updated(Fresh(n, v), v, type))
                      ELSE metrics
        /\ history' = IF taken THEN [history EXCEPT ![n] = Append(@, v)] ELSE history
        /\ sinceReset' = IF taken THEN [sinceReset EXCEPT ![n] = @ + 1] ELSE sinceReset

ls_metric_i32(n, v) == set_metric(n, v, "i32") /\ UNCHANGED <<found, increments>>
ls_metric_u32(n, v) == set_metric(n, AsInt32(v), "u32") /\ UNCHANGED <<found, increments>>

(* ls_metric_increment: the look-up, and then the update. *)
LookUp(t, n, a) ==
    /\ found[t] = None
    /\ found' = [found EXCEPT ![t] =
                    [name |-> n, amount |-> a,
                     value |-> IF find_metric(n) = {} THEN 0
                               ELSE metrics[CHOOSE i \in find_metric(n) : TRUE].value]]
    /\ UNCHANGED <<metrics, history, sinceReset, increments, updates>>

ls_metric_increment(t) ==
    LET f == found[t]
    IN  /\ f # None
        /\ set_metric(f.name, f.value + f.amount, "counter")
        /\ found' = [found EXCEPT ![t] = None]
        /\ increments' = IF history' = history THEN increments
                         ELSE [increments EXCEPT ![f.name] = @ + f.amount]


ls_metrics_reset_window(n) ==
    /\ find_metric(n) # {}
    /\ metrics' = [i \in DOMAIN metrics |-> IF i \in find_metric(n)
                        THEN [metrics[i] EXCEPT !.window_count = 0, !.window_next = 0]
                        ELSE metrics[i]]
    /\ sinceReset' = [sinceReset EXCEPT ![n] = 0]
    /\ UNCHANGED <<found, history, increments, updates>>

Next == \E n \in Name :
            \/ \E v \in Value : ls_metric_i32(n, v)
            \/ \E v \in Unsigned : ls_metric_u32(n, v)
            \/ \E t \in Thread, a \in Amount : LookUp(t, n, a)
            \/ \E t \in Thread : ls_metric_increment(t)
            \/ ls_metrics_reset_window(n)

Spec == Init /\ [][Next]_vars

-----------------------------------------------------------------------------
(* ls_metric_get averages the window. *)
WindowSum(m) == FoldFunctionOnSet(+, 0, m.window, 0..(m.window_count - 1))

SumOf(s) == FoldSeq(+, 0, s)

(* Types; the table and the windows stay within their arrays. *)
TypeOK ==
    /\ Len(metrics) <= Capacity
    /\ \A i \in DOMAIN metrics : /\ metrics[i].window_next \in 0..(Window - 1)
                                 /\ metrics[i].window_count \in 0..Window
                                 /\ Cardinality(find_metric(metrics[i].name)) = 1

(* A snapshot is about the values the metric was given since it was created. *)
SnapshotExact ==
    \A i \in DOMAIN metrics :
        LET m == metrics[i]
            h == history[m.name]
        IN  /\ m.count = Len(h) /\ m.value = Last(h) /\ m.sum = SumOf(h)
            /\ m.previous = IF Len(h) > 1 THEN h[Len(h) - 1] ELSE 0
            /\ m.minimum = Min(ToSet(h)) /\ m.maximum = Max(ToSet(h))

(* The average is that of the last values, as many as the window holds and  *)
(* none from before the window was reset, however often it went round.      *)
WindowIsTheLatest ==
    \A i \in DOMAIN metrics :
        LET m == metrics[i]
            h == history[m.name]
            n == IF sinceReset[m.name] < Window THEN sinceReset[m.name] ELSE Window
        IN  m.window_count = n /\ WindowSum(m) = SumOf(SubSeq(h, Len(h) - n + 1, Len(h)))

(* A counter is the sum of what it was incremented by: no increment that    *)
(* has returned is undone by another thread.                                *)
NoIncrementLost ==
    \A i \in DOMAIN metrics : metrics[i].type = "counter" => metrics[i].value = increments[metrics[i].name]
=============================================================================
