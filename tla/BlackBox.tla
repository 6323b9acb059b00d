------------------------------ MODULE BlackBox ------------------------------
(***************************************************************************)
(* The retained black box (src/core/blackbox.c): a ring of records in      *)
(* .noinit RAM, each under its CRC, with counters kept as a value and its  *)
(* inverse.  A CPU reset may come between any two stores of a write; what  *)
(* ls_blackbox_init then makes of the ring is part of the reset.  A record *)
(* is the number of the call that made it.  Writers run in a critical      *)
(* section, so one write is in progress at a time.                         *)
(***************************************************************************)
EXTENDS Integers, Sequences, SequencesExt, FiniteSets, FiniteSetsExt

CONSTANTS
    Capacity,           \* LS_BLACKBOX_CAPACITY
    Modulus,            \* 2^32
    First,              \* LS_BLACKBOX_TEST_INITIAL_SEQUENCE
    MaxRecords,         \* bound on the records of a behaviour
    MaxResets,          \* bound on its resets
    MaxTime,            \* bound on the uptime
    MaxChanges          \* bound on the changes of profile

BlackBoxAssumption ==
    /\ {Capacity, First} \subseteq Nat \ {0}
    /\ First < Modulus /\ 2 * (Capacity + 1) < Modulus
    /\ {MaxRecords, MaxResets, MaxTime, MaxChanges} \subseteq Nat

Slot == 0..(Capacity - 1)
TornRecord == [seq |-> 0, id |-> 0]       \* a record whose CRC does not match

VARIABLES
    records,            \* retained_blackbox.records
    next, total, overwritten,       \* counters: the value, whether its inverse matches
    frozen, profile, until,         \* the other retained fields
    previous_profile,
    uptime,
    pc,                 \* the next store of the write in progress
    current,            \* its record
    made, resets, changes,
    acked,              \* history: records whose call returned LS_OK, in order
    chosen              \* history: the profile last asked for

counters == <<next, total, overwritten>>
mode == <<frozen, profile, until, previous_profile, chosen>>
bounds == <<made, resets, changes>>
vars == <<records, counters, mode, uptime, pc, current, bounds, acked>>

Counter(v) == [value |-> v, valid |-> TRUE]

Init == /\ records = [s \in Slot |-> TornRecord]
        /\ next = Counter(First) /\ total = Counter(0) /\ overwritten = Counter(0)
        /\ frozen = FALSE /\ profile = "normal" /\ until = 0
        /\ previous_profile = "normal" /\ chosen = "normal"
        /\ uptime = 0
        /\ pc = "idle" /\ current = 0
        /\ made = 0 /\ resets = 0 /\ changes = 0
        /\ acked = <<>>

-----------------------------------------------------------------------------
(* Sequence numbers, by serial order; zero is never one of them. *)
sequence_is_newer(a, b) == (a - b) % Modulus \in 1..(Modulus \div 2 - 1)

sequence_before(seq, n) == ((seq - 1 - n) % (Modulus - 1)) + 1

record_valid(r) == r.seq # 0

Valid == {s \in Slot : record_valid(records[s])}

(* The newest of the valid records, zero when there is none. *)
Newest ==
    LET seqs == {records[s].seq : s \in Valid}
    IN  IF seqs = {} THEN 0
        ELSE CHOOSE q \in seqs : \A other \in seqs : ~sequence_is_newer(other, q)

(* The record of an age, zero for LS_EAGAIN. *)
ls_blackbox_get_recent(age) ==
    LET found == {s \in Valid : records[s].seq = sequence_before(Newest, age)}
    IN  IF age >= Cardinality(Valid) \/ found = {} THEN 0
        ELSE records[CHOOSE s \in found : TRUE].id

(* The last records, oldest first. *)
ls_blackbox_copy(capacity) ==
    LET wanted == Min({Cardinality(Valid), capacity})
        Found(q) == {s \in Valid : records[s].seq = q}
        seqs == [i \in 1..wanted |-> sequence_before(Newest, wanted - i)]
        present == SelectSeq(seqs, LAMBDA q : Found(q) # {})
    IN  [i \in DOMAIN present |-> records[CHOOSE s \in Found(present[i]) : TRUE].id]

-----------------------------------------------------------------------------
(* A store of a value, or of its inverse. *)
Store(counter, v) == IF counter.valid /\ counter.value # v
                     THEN [value |-> v, valid |-> FALSE] ELSE Counter(v)

profile_accepts(important) == profile # "quiet" \/ important

(* The checks at the start of ls_blackbox_record. *)
ls_blackbox_record(important) ==
    /\ pc = "idle" /\ ~frozen
    /\ profile_accepts(important)
    /\ made < MaxRecords
    /\ made' = made + 1 /\ current' = made'
    /\ pc' = "record"
    /\ UNCHANGED <<records, counters, mode, uptime, resets, changes, acked>>

RecordSlot == (next.value - 1) % Capacity

(* The copy into the ring. *)
StoreRecord ==
    /\ pc = "record"
    /\ \/ /\ records[RecordSlot] # TornRecord
          /\ records' = [records EXCEPT ![RecordSlot] = TornRecord]
          /\ UNCHANGED pc
       \/ /\ records' = [records EXCEPT ![RecordSlot] = [seq |-> next.value, id |-> current]]
          /\ pc' = "total"
    /\ UNCHANGED <<counters, mode, uptime, current, bounds, acked>>

(* The counters saturate. *)
StoreTotal ==
    /\ pc \in {"total", "total_inverse"}
    /\ LET more == IF pc = "total" THEN Min({total.value + 1, Modulus - 1}) ELSE total.value
       IN  /\ total' = Store(total, more)
           /\ pc' = CASE ~total'.valid -> "total_inverse"
                      [] total'.valid /\ more > Capacity -> "overwritten"
                      [] OTHER -> "next"
    /\ UNCHANGED <<records, next, overwritten, mode, uptime, current, bounds, acked>>

StoreOverwritten ==
    /\ pc \in {"overwritten", "overwritten_inverse"}
    /\ LET more == IF pc = "overwritten" THEN Min({overwritten.value + 1, Modulus - 1})
                   ELSE overwritten.value
       IN  overwritten' = Store(overwritten, more)
    /\ pc' = IF overwritten'.valid THEN "next" ELSE "overwritten_inverse"
    /\ UNCHANGED <<records, next, total, mode, uptime, current, bounds, acked>>

StoreNext ==
    /\ pc \in {"next", "next_inverse"}
    /\ LET more == IF pc = "next_inverse" THEN next.value
                   ELSE IF next.value = Modulus - 1 THEN 1 ELSE next.value + 1
       IN  next' = Store(next, more)
    /\ IF next'.valid THEN pc' = "idle" /\ current' = 0 /\ acked' = Append(acked, current)
       ELSE pc' = "next_inverse" /\ UNCHANGED <<current, acked>>
    /\ UNCHANGED <<records, total, overwritten, mode, uptime, bounds>>

-----------------------------------------------------------------------------
ls_blackbox_freeze ==
    /\ pc = "idle" /\ ~frozen
    /\ frozen' = TRUE
    /\ UNCHANGED <<records, counters, profile, until, previous_profile, chosen, uptime, pc,
                   current, bounds, acked>>

ls_blackbox_thaw ==
    /\ pc = "idle" /\ frozen
    /\ frozen' = FALSE
    /\ UNCHANGED <<records, counters, profile, until, previous_profile, chosen, uptime, pc,
                   current, bounds, acked>>

(* ls_blackbox_clear, or a loss of power, after which the magic is wrong:   *)
(* blackbox_reset.                                                          *)
blackbox_reset ==
    /\ pc = "idle" \/ resets < MaxResets
    /\ made > 0
    /\ records' = [s \in Slot |-> TornRecord]
    /\ next' = Counter(First) /\ total' = Counter(0) /\ overwritten' = Counter(0)
    /\ frozen' = FALSE /\ profile' = "normal" /\ until' = 0
    /\ previous_profile' = "normal" /\ chosen' = "normal"
    /\ pc' = "idle" /\ current' = 0
    /\ resets' = IF pc = "idle" THEN resets ELSE resets + 1
    /\ acked' = <<>>
    /\ UNCHANGED <<uptime, made, changes>>

ls_blackbox_set_profile(p) ==
    /\ pc = "idle" /\ changes < MaxChanges
    /\ profile' = p /\ previous_profile' = p /\ chosen' = p
    /\ until' = IF p = "anomaly" THEN until ELSE 0
    /\ changes' = changes + 1
    /\ UNCHANGED <<records, counters, frozen, uptime, pc, current, made, resets, acked>>

ls_blackbox_anomaly_begin(duration) ==
    /\ pc = "idle" /\ changes < MaxChanges
    /\ previous_profile' = IF profile = "anomaly" THEN previous_profile ELSE profile
    /\ profile' = "anomaly"
    /\ until' = uptime + duration
    /\ changes' = changes + 1
    /\ UNCHANGED <<records, counters, frozen, chosen, uptime, pc, current, made, resets, acked>>

ls_blackbox_poll ==
    /\ pc = "idle"
    /\ profile = "anomaly" /\ until # 0 /\ uptime >= until
    /\ profile' = previous_profile /\ until' = 0
    /\ UNCHANGED <<records, counters, frozen, previous_profile, chosen, uptime, pc, current,
                   bounds, acked>>

Tick == /\ uptime < MaxTime
        /\ uptime' = uptime + 1
        /\ UNCHANGED <<records, counters, mode, pc, current, bounds, acked>>

-----------------------------------------------------------------------------

Repaired(counter, v) == IF counter.valid THEN counter ELSE Counter(v)

(* A CPU reset, at any store, and ls_blackbox_init over what is retained;   *)
(* after a CPU fault the recorder is frozen.                                *)
ls_blackbox_init(fault) ==
    LET valid == Cardinality(Valid)
        highest == Newest
    IN  /\ resets < MaxResets
        /\ next' = Repaired(next, IF highest = Modulus - 1 THEN 1 ELSE highest + 1)
        /\ total' = Repaired(total, Max({highest, valid}))
        /\ overwritten' = Repaired(overwritten, Max({total'.value - Capacity, 0}))
        /\ frozen' = (frozen \/ fault)
        /\ previous_profile' = profile
        /\ uptime' = 0
        /\ pc' = "idle" /\ current' = 0
        /\ resets' = resets + 1
        /\ UNCHANGED <<records, profile, until, chosen, made, changes, acked>>

-----------------------------------------------------------------------------
Write == StoreRecord \/ StoreTotal \/ StoreOverwritten \/ StoreNext

Next == \/ \E b \in BOOLEAN : ls_blackbox_record(b) \/ ls_blackbox_init(b)
        \/ Write
        \/ ls_blackbox_freeze \/ ls_blackbox_thaw \/ blackbox_reset
        \/ \E p \in {"quiet", "normal", "anomaly"} : ls_blackbox_set_profile(p)
        \/ \E d \in 1..MaxTime : ls_blackbox_anomaly_begin(d)
        \/ ls_blackbox_poll \/ Tick

Spec == Init /\ [][Next]_vars

-----------------------------------------------------------------------------
(* Types; between writes every counter has its inverse. *)
TypeOK ==
    /\ \A s \in Slot : records[s].seq \in 0..(Modulus - 1) /\ records[s].id \in 0..made
    /\ next.value \in 1..(Modulus - 1)
    /\ {total.value, overwritten.value} \subseteq 0..(Modulus - 1)
    /\ profile \in {"quiet", "normal", "anomaly"} /\ until \in 0..(2 * MaxTime)
    /\ pc = "idle" => next.valid /\ total.valid /\ overwritten.valid

IsAcked(id) == \E i \in DOMAIN acked : acked[i] = id

(* What ls_blackbox_copy returns, with torn writes, resets and the wrap of  *)
(* the sequence in between: the last records, of which those whose calls    *)
(* succeeded are in order, none missing and none twice; beside them only    *)
(* records of calls a reset interrupted.  A torn write costs the oldest     *)
(* record and the wrap another one.                                         *)
CopyIsTheTail ==
    LET out == ls_blackbox_copy(Capacity)
    IN  pc = "idle" =>
          /\ IsSuffix(SelectSeq(out, IsAcked), acked)
          /\ Len(out) >= Min({Len(acked), Capacity - 2})

(* ls_blackbox_get_recent, which LEP uses to export the tail, and           *)
(* ls_blackbox_copy agree on it.                                            *)
RecentAgrees ==
    LET out == ls_blackbox_copy(Capacity)
    IN  pc = "idle" => \A age \in 0..(Len(out) - 1) :
                             ls_blackbox_get_recent(age) = out[Len(out) - age]

(* A CPU fault freezes the history: what the recorder shows stays the same  *)
(* over the reset and until it is thawed or cleared.                        *)
FrozenHistory ==
    frozen' => ls_blackbox_copy(Capacity)' = ls_blackbox_copy(Capacity)

(* Supervisory faults raise the recording detail temporarily: a raised      *)
(* profile that was not asked for has an end, and then the profile asked    *)
(* for is back.                                                             *)
AnomalyIsTemporary ==
    /\ profile = "anomaly" /\ until = 0 => chosen = "anomaly"
    /\ profile # "anomaly" => profile = chosen
=============================================================================
