-------------------------------- MODULE Spool --------------------------------
(***************************************************************************)
(* The persistent event spool of Latch (src/spool/spool.c), driven by      *)
(* ls_boot, ls_capture_event and ls_flush (src/core/runtime.c), over a     *)
(* storage backend that writes back: what a program or an erase changed    *)
(* is read back at once, and is certain to survive a power loss only after *)
(* the next successful sync.                                               *)
(*                                                                         *)
(* Capture and flush are serialised (docs/concurrency.md), so one program  *)
(* counter says where the running operation is.  Power may be lost between *)
(* any two steps, and every storage operation may fail after part of it    *)
(* has reached the medium.                                                 *)
(***************************************************************************)
EXTENDS Integers, FiniteSets

CONSTANTS
    Event,              \* the events the application captures
    None,               \* no event
    Blank, Garbage,     \* an erased payload area, a partly written one
    Priority,           \* the priorities in use; 0 is EMERGENCY, 1 CRITICAL
    MaxRecords,         \* LS_SPOOL_MAX_RECORDS
    ReservedCritical,   \* LS_SPOOL_RESERVED_CRITICAL
    ReservedEmergency,  \* LS_SPOOL_RESERVED_EMERGENCY
    RetryBits,          \* the bits of retry_bits, 8 in the code
    SeqMod,             \* the sequence counter wraps here, 2^32 in the code
    InitSeq,            \* last_sequence in the boot state of the first boot
    MaxFaults,          \* bound: storage errors in a behaviour
    MaxCrashes          \* bound: power losses in a behaviour

ASSUME EventAssumption ==
    /\ IsFiniteSet(Event)
    /\ None \notin Event /\ Blank \notin Event /\ Garbage \notin Event
    /\ Blank # Garbage

(* The #if checks of include/laststate/config.h on the spool's sizes. *)
ASSUME SizeAssumption ==
    /\ MaxRecords \in Nat \ {0}
    /\ ReservedCritical \in 0..MaxRecords
    /\ ReservedEmergency \in 0..ReservedCritical
    /\ RetryBits \in Nat

ASSUME NumberAssumption ==
    /\ Priority \subseteq 0..4
    /\ SeqMod \in Nat \ {0}
    /\ InitSeq \in 0..(SeqMod - 1)
    /\ MaxFaults \in Nat /\ MaxCrashes \in Nat

VARIABLES
    slots, header,      \* the spool region, as a read returns it
    dslots, dheader,    \* the part of it that a power loss cannot undo
    bootSeq,            \* last_sequence in the stored boot state
    seq,                \* ls_runtime.sequence
    pc,                 \* where the running operation is
    ev,                 \* the event that is being appended or flushed
    slot,               \* the slot that is being written, flushed or scanned
    pass,               \* the pass of the flush loop
    cand,               \* the newest sequence the boot scan has met
    info,               \* priority, sequence and capture order of an event
    fate,               \* history: what ls_spool_append has returned
    delivered,          \* history: events a transport has accepted
    unread,             \* history: acknowledged because a read failed
    corrupt,            \* history: acknowledged because the CRC was wrong
    released,           \* history: the acknowledgement has been synced
    floor,              \* history: has a power loss cut a reclaim short?
    faults, crashes     \* the bounded adversities so far

media   == <<slots, header, dslots, dheader>>
history == <<info, fate, delivered, unread, corrupt, released, floor>>
locals  == <<ev, slot, pass, cand>>
vars    == <<media, bootSeq, seq, pc, locals, history, faults, crashes>>

(* The operation's local variables go out of scope. *)
EndOfScope == ev' = None /\ slot' = 0 /\ pass' = 0 /\ cand' = 0

Slots == 0..(MaxRecords - 1)
Seqs  == 0..(SeqMod - 1)

-----------------------------------------------------------------------------
(* The stored structures.                                                  *)

(* A slot holds a spool_record_t and a payload.  "torn" is a header that    *)
(* is neither erased nor valid: its CRC does not match.                     *)
SlotType == [tag   : {"erased", "torn", "record"},
             ev    : Event \cup {None},
             st    : {"open", "committed", "acked"},
             retry : 0..RetryBits,
             body  : Event \cup {Blank, Garbage}]

ErasedSlot == [tag |-> "erased", ev |-> None, st |-> "open", retry |-> 0, body |-> Blank]

(* The spool header; "open" is written but has no commit marker yet. *)
HeaderType == [tag : {"erased", "torn", "open", "valid"}, floor : Seqs]

ErasedHeader == [tag |-> "erased", floor |-> 0]

PcType == {"off", "scan", "init_erase", "init_header", "init_commit", "load", "save",
           "idle", "append_header", "append_payload", "append_commit",
           "select", "send", "retry", "ack", "reclaim", "reclaim_header", "reclaim_commit"}

InfoType == [prio : 0..4, seq : Seqs, order : Nat]

HeaderValid(h) == h.tag = "valid"
RecordValid(r) == r.tag = "record"
IsCommitted(r) == RecordValid(r) /\ r.st = "committed"
Committed == {s \in Slots : IsCommitted(slots[s])}

(* generation_is_newer: a serial-number comparison of 32-bit counters. *)
GenerationIsNewer(a, b) == LET d == (a - b) % SeqMod IN 0 < d /\ 2 * d < SeqMod

(* The same comparison the other way, (int32_t)(a - b) < 0. *)
IsOlder(a, b) == 2 * ((a - b) % SeqMod) >= SeqMod

(* Fault for the reserve: the two reserves are exchanged. *)
SlotLimitForPriority_Exchanged(p) ==
    CASE p = 0 -> MaxRecords
      [] p = 1 -> MaxRecords - ReservedCritical
      [] OTHER -> MaxRecords - ReservedEmergency

SlotLimitForPriority(p) ==
    CASE p = 0 -> MaxRecords
      [] p = 1 -> MaxRecords - ReservedEmergency
      [] OTHER -> MaxRecords - ReservedCritical

EmptySlots(p) == {s \in 0..(SlotLimitForPriority(p) - 1) : slots[s].tag = "erased"}

-----------------------------------------------------------------------------
(* The storage backend.                                                    *)

NoSync == UNCHANGED <<dslots, dheader>>

(* A successful sync: everything programmed so far is durable. *)
Sync == dslots' = slots' /\ dheader' = header'

StorageError == faults < MaxFaults /\ faults' = faults + 1

(* What an interrupted change from d to c can leave: either one, or, where  *)
(* the header bytes under the CRC differ, a torn header; state and retry    *)
(* are single bytes and are never torn.                                     *)
TornHeader(d, c) == IF d = c THEN {d} ELSE {d, c, [tag |-> "torn", floor |-> 0]}

TornRecords(d, c) ==
    IF d.tag = c.tag /\ d.ev = c.ev
    THEN {[d EXCEPT !.st = x.st, !.retry = y.retry] : x \in {d, c}, y \in {d, c}}
    ELSE {d, c, [ErasedSlot EXCEPT !.tag = "torn"]}

TornBodies(d, c) == IF d.body = c.body THEN {d.body} ELSE {d.body, c.body, Garbage}

TornSlot(d, c) == {[r EXCEPT !.body = b] : r \in TornRecords(d, c), b \in TornBodies(d, c)}

TornSlots(d, c) == {f \in [Slots -> UNION {TornSlot(d[s], c[s]) : s \in Slots}] :
                        \A s \in Slots : f[s] \in TornSlot(d[s], c[s])}
AllErased == [s \in Slots |-> ErasedSlot]

(* erase_spool, up to and including its sync, and the same cut short. *)
EraseSpool   == header' = ErasedHeader /\ slots' = AllErased /\ Sync
PartialErase == /\ header' \in TornHeader(header, ErasedHeader)
                /\ slots' \in TornSlots(slots, AllErased)
                /\ NoSync

-----------------------------------------------------------------------------
(* Boot: ls_init, then ls_boot with ls_spool_init and the boot state.      *)

Init == /\ slots = AllErased /\ dslots = AllErased
        /\ header = ErasedHeader /\ dheader = ErasedHeader
        /\ bootSeq = InitSeq /\ seq = 0 /\ pc = "off"
        /\ ev = None /\ slot = 0 /\ pass = 0 /\ cand = 0
        /\ info = [e \in Event |-> [prio |-> 0, seq |-> 0, order |-> 0]]
        /\ fate = [e \in Event |-> "new"]
        /\ delivered = {} /\ unread = {} /\ corrupt = {} /\ released = {}
        /\ floor = "held" /\ faults = 0 /\ crashes = 0

(* ls_init clears the runtime; ls_spool_init reads the spool header. *)
BootStart ==
    /\ pc = "off"
    /\ seq' = 0 /\ ev' = None /\ pass' = 0 /\ slot' = 0
    /\ cand' = IF HeaderValid(header) THEN header.floor ELSE 0
    /\ pc' = "scan"
    /\ UNCHANGED <<media, bootSeq, history, faults, crashes>>

(* One iteration of scan_records. *)
ScanRecord ==
    /\ pc = "scan" /\ slot < MaxRecords
    /\ cand' = IF RecordValid(slots[slot]) /\ GenerationIsNewer(info[slots[slot].ev].seq, cand)
               THEN info[slots[slot].ev].seq ELSE cand
    /\ slot' = slot + 1
    /\ UNCHANGED <<media, bootSeq, seq, pc, ev, pass, history, faults, crashes>>

(* The rest of ls_spool_init: keep what is there, or start afresh. *)
ScanDone ==
    /\ pc = "scan" /\ slot = MaxRecords
    /\ slot' = 0
    /\ IF HeaderValid(header) \/ \E s \in Slots : RecordValid(slots[s])
       THEN /\ seq' = IF GenerationIsNewer(cand, seq) THEN cand ELSE seq
            /\ pc' = "load"
       ELSE /\ pc' = IF header = ErasedHeader /\ slots = AllErased
                     THEN "init_header" ELSE "init_erase"
            /\ UNCHANGED seq
    /\ UNCHANGED <<media, bootSeq, ev, pass, cand, history, faults, crashes>>

InitErase ==
    /\ pc = "init_erase"
    /\ EraseSpool
    /\ pc' = "init_header"
    /\ UNCHANGED <<bootSeq, seq, locals, history, faults, crashes>>

(* Fault: the new header does not carry the sequence. *)
NewHeader_NoFloor == [tag |-> "open", floor |-> 0]

NewHeader == [tag |-> "open", floor |-> seq]

(* write_header: the header with sequence_floor, a sync, the commit marker, *)
(* a sync; used by ls_spool_init and by reclaim_if_drained.                 *)
WriteHeader ==
    /\ pc \in {"init_header", "reclaim_header"}
    /\ header' = NewHeader
    /\ UNCHANGED slots
    /\ Sync
    /\ pc' = IF pc = "init_header" THEN "init_commit" ELSE "reclaim_commit"
    /\ UNCHANGED <<bootSeq, seq, locals, history, faults, crashes>>

CommitHeader ==
    /\ pc \in {"init_commit", "reclaim_commit"}
    /\ header' = [header EXCEPT !.tag = "valid"]
    /\ UNCHANGED slots
    /\ Sync
    /\ pc' = IF pc = "init_commit" THEN "load" ELSE "idle"
    /\ floor' = IF floor = "open" THEN "held" ELSE floor
    /\ UNCHANGED <<bootSeq, seq, locals, faults, crashes>>
    /\ UNCHANGED <<info, fate, delivered, unread, corrupt, released>>

(* Fault: the stored boot state always wins over the spool. *)
BootSequence_IgnoresSpool == bootSeq

(* ls_boot takes the larger of the two, as unsigned numbers. *)
BootSequence == IF bootSeq > seq THEN bootSeq ELSE seq

(* ls_boot_state_load and the choice of the sequence in ls_boot. *)
LoadBootState ==
    /\ pc = "load"
    /\ seq' = BootSequence
    /\ pc' = "save"
    /\ EndOfScope
    /\ UNCHANGED <<media, bootSeq, history, faults, crashes>>

(* ls_boot_state_save: at the end of ls_boot, and whenever the application  *)
(* marks the boot, a reset or a release.  It syncs the whole backend.       *)
SaveBootState ==
    /\ pc \in {"save", "idle"}
    /\ bootSeq' = seq
    /\ UNCHANGED <<slots, header>>
    /\ Sync
    /\ pc' = "idle"
    /\ UNCHANGED <<seq, locals, history, faults, crashes>>

(* The save rewrites the stored boot state in place: cut short it leaves    *)
(* the old one, the new one, or one whose CRC fails and which loads as 0.   *)
(* ls_boot gives up; the other callers ignore the result.                   *)
SaveBootStateFails ==
    /\ pc \in {"save", "idle"}
    /\ StorageError
    /\ bootSeq' \in {bootSeq, seq, 0}
    /\ pc' = IF pc = "save" THEN "off" ELSE "idle"
    /\ UNCHANGED <<media, seq, locals, history, crashes>>

(* A storage error while the spool is being initialised ends ls_boot. *)
BootFails ==
    /\ StorageError
    /\ \/ pc \in {"scan", "load"} /\ UNCHANGED media
       \/ pc = "init_erase" /\ PartialErase
       \/ /\ pc = "init_header"
          /\ header' \in TornHeader(header, NewHeader)
          /\ UNCHANGED slots /\ NoSync
       \/ /\ pc = "init_commit"
          /\ header' \in {header, [header EXCEPT !.tag = "valid"]}
          /\ UNCHANGED slots /\ NoSync
    /\ pc' = "off"
    /\ EndOfScope
    /\ UNCHANGED <<bootSeq, seq, history, crashes>>

-----------------------------------------------------------------------------
(* Capture: ls_capture_event and ls_spool_append.                          *)

NextSeq == (seq + 1) % SeqMod

Captured == Cardinality({e \in Event : fate[e] # "new"})

(* The sequence is taken before the policy, the encoder or the spool is asked. *)
Capture(e, p, outcome) ==
    /\ pc = "idle"
    /\ fate[e] = "new"
    /\ seq' = NextSeq
    /\ info' = [info EXCEPT ![e] = [prio |-> p, seq |-> NextSeq, order |-> Captured + 1]]
    /\ fate' = [fate EXCEPT ![e] = outcome]
    /\ UNCHANGED <<media, bootSeq, pass, cand, faults, crashes>>
    /\ UNCHANGED <<delivered, unread, corrupt, released, floor>>

(* find_empty_slot takes the first erased slot below the priority's limit. *)
CaptureEvent(e, p) ==
    /\ Capture(e, p, "pending")
    /\ \E s \in EmptySlots(p) :
          /\ \A t \in EmptySlots(p) : s <= t
          /\ slot' = s
    /\ ev' = e
    /\ pc' = "append_header"

(* LS_ENOSPACE: spool_dropped_records counts it, and nothing is evicted. *)
CaptureDropped(e, p) ==
    /\ EmptySlots(p) = {}
    /\ Capture(e, p, "dropped")
    /\ UNCHANGED <<pc, ev, slot>>

(* The policy filters the event (ls_capture_event still returns LS_OK), it   *)
(* cannot be encoded, or a read fails; its priority no longer matters.      *)
CaptureRefused(e) ==
    /\ Capture(e, 0, "refused")
    /\ UNCHANGED <<pc, ev, slot>>

NewRecord == [tag |-> "record", ev |-> ev, st |-> "open", retry |-> 0, body |-> slots[slot].body]

AppendHeader ==
    /\ pc = "append_header"
    /\ slots' = [slots EXCEPT ![slot] = NewRecord]
    /\ UNCHANGED <<header, dslots, dheader>>
    /\ pc' = "append_payload"
    /\ UNCHANGED <<bootSeq, seq, locals, history, faults, crashes>>

(* Fault: no sync between the payload and the commit marker. *)
AppendPayload_NoSync ==
    /\ pc = "append_payload"
    /\ slots' = [slots EXCEPT ![slot].body = ev]
    /\ UNCHANGED header
    /\ NoSync
    /\ pc' = "append_commit"
    /\ UNCHANGED <<bootSeq, seq, locals, history, faults, crashes>>

(* The payload, then the sync that must come before the commit marker. *)
AppendPayload ==
    /\ pc = "append_payload"
    /\ slots' = [slots EXCEPT ![slot].body = ev]
    /\ UNCHANGED header
    /\ Sync
    /\ pc' = "append_commit"
    /\ UNCHANGED <<bootSeq, seq, locals, history, faults, crashes>>

AppendCommit ==
    /\ pc = "append_commit"
    /\ slots' = [slots EXCEPT ![slot].st = "committed"]
    /\ UNCHANGED header
    /\ Sync
    /\ pc' = "idle"
    /\ EndOfScope
    /\ fate' = [fate EXCEPT ![ev] = "accepted"]
    /\ UNCHANGED <<bootSeq, seq, faults, crashes>>
    /\ UNCHANGED <<info, delivered, unread, corrupt, released, floor>>

(* ls_spool_append returns an error, with any part of the step done. *)
AppendFails ==
    /\ StorageError
    /\ \/ /\ pc = "append_header"
          /\ \E r \in TornSlot(slots[slot], NewRecord) : slots' = [slots EXCEPT ![slot] = r]
       \/ /\ pc = "append_payload"
          /\ \E b \in {slots[slot].body, Garbage, ev} :
                slots' = [slots EXCEPT ![slot].body = b]
       \/ /\ pc = "append_commit"
          /\ \E x \in {"open", "committed"} : slots' = [slots EXCEPT ![slot].st = x]
    /\ UNCHANGED <<header, dslots, dheader>>
    /\ pc' = "idle"
    /\ EndOfScope
    /\ fate' = [fate EXCEPT ![ev] = "refused"]
    /\ UNCHANGED <<bootSeq, seq, crashes>>
    /\ UNCHANGED <<info, delivered, unread, corrupt, released, floor>>

-----------------------------------------------------------------------------
(* Flush: ls_spool_flush and reclaim_if_drained.                           *)

FlushStart ==
    /\ pc = "idle"
    /\ pc' = "select" /\ pass' = 0
    /\ UNCHANGED <<media, bootSeq, seq, ev, slot, cand, history, faults, crashes>>

(* When flush prefers slot s to slot t: by priority, then by sequence. *)
GoesBefore(s, t) ==
    LET a == info[slots[s].ev]
        b == info[slots[t].ev]
    IN  a.prio < b.prio \/ (a.prio = b.prio /\ IsOlder(a.seq, b.seq))

(* The scan of a pass: the slot selected among the first n, if one was found. *)
SelectedAmong[n \in 0..MaxRecords] ==
    IF n = 0 THEN -1
    ELSE LET best == SelectedAmong[n - 1]
         IN  IF n - 1 \in Committed /\ (best = -1 \/ GoesBefore(n - 1, best)) THEN n - 1 ELSE best

(* The record a pass selects. *)
Selected(s) == s \in Committed /\ s = SelectedAmong[MaxRecords]

Select(s) ==
    /\ pc = "select" /\ pass < MaxRecords
    /\ Selected(s)
    /\ UNCHANGED <<media, bootSeq, seq, crashes>>
    /\ UNCHANGED <<info, fate, delivered, released, floor>>

GoOnWith(s, next) ==
    /\ slot' = s /\ ev' = slots[s].ev
    /\ pass' = pass + 1
    /\ pc' = next
    /\ UNCHANGED cand

(* Fault: a record whose retry bits are used up is not sent any more. *)
SelectRecord_GivesUp(s) ==
    /\ slots[s].body = slots[s].ev
    /\ slots[s].retry < RetryBits
    /\ Select(s)
    /\ GoOnWith(s, "send")
    /\ UNCHANGED <<unread, corrupt, faults>>

(* The payload is read back, its CRC matches and a transport is available. *)
SelectRecord(s) ==
    /\ slots[s].body = slots[s].ev
    /\ Select(s)
    /\ GoOnWith(s, "send")
    /\ UNCHANGED <<unread, corrupt, faults>>

(* No transport: flush returns LS_EAGAIN. *)
SelectNoTransport(s) ==
    /\ slots[s].body = slots[s].ev
    /\ Select(s)
    /\ pc' = "idle" /\ EndOfScope
    /\ UNCHANGED <<unread, corrupt, faults>>

(* The payload does not match its CRC: acknowledged without being sent. *)
SelectCorrupt(s) ==
    /\ slots[s].body # slots[s].ev
    /\ Select(s)
    /\ GoOnWith(s, "ack")
    /\ corrupt' = corrupt \cup {slots[s].ev}
    /\ UNCHANGED <<unread, faults>>

(* The read of the payload fails: treated like a payload with a bad CRC. *)
SelectUnreadable(s) ==
    /\ StorageError
    /\ Select(s)
    /\ GoOnWith(s, "ack")
    /\ unread' = unread \cup {slots[s].ev}
    /\ UNCHANGED corrupt

(* Nothing is left to send, or the loop has made its last pass. *)
SelectDone ==
    /\ pc = "select"
    /\ Committed = {} \/ pass = MaxRecords
    /\ pc' = "reclaim"
    /\ EndOfScope
    /\ UNCHANGED <<media, bootSeq, seq, history, faults, crashes>>

Send ==
    /\ pc = "send"
    /\ delivered' = delivered \cup {ev}
    /\ pc' = "ack"
    /\ UNCHANGED <<media, bootSeq, seq, locals, faults, crashes>>
    /\ UNCHANGED <<info, fate, unread, corrupt, released, floor>>

(* Fault: the result of the send is not looked at. *)
SendFails_Acks ==
    /\ pc = "send"
    /\ pc' = "ack"
    /\ UNCHANGED <<media, bootSeq, seq, locals, history, faults, crashes>>

(* The transport reports an error; the peer may have the event all the same. *)
SendFails ==
    /\ pc = "send"
    /\ pc' = "retry"
    /\ UNCHANGED <<media, bootSeq, seq, locals, history, faults, crashes>>

(* Fault: the retry count does not saturate. *)
RetryBitLeft_Always == TRUE

RetryBitLeft == slots[slot].retry < RetryBits

(* increment_retries: one more bit of retry_bits, none once all are used. *)
Retry ==
    /\ pc = "retry"
    /\ IF RetryBitLeft
       THEN /\ slots' = [slots EXCEPT ![slot].retry = @ + 1]
            /\ UNCHANGED header
            /\ Sync
       ELSE UNCHANGED media
    /\ pc' = "idle"
    /\ EndOfScope
    /\ UNCHANGED <<bootSeq, seq, history, faults, crashes>>

(* acknowledge_record. *)
Ack ==
    /\ pc = "ack"
    /\ slots' = [slots EXCEPT ![slot].st = "acked"]
    /\ UNCHANGED header
    /\ Sync
    /\ released' = released \cup {ev}
    /\ pc' = "select"
    /\ UNCHANGED <<bootSeq, seq, locals, faults, crashes>>
    /\ UNCHANGED <<info, fate, delivered, unread, corrupt, floor>>

(* Fault: slots with a torn header do not count as used. *)
NothingToReclaim_ForgetsTorn == Committed # {} \/ \A s \in Slots : slots[s].tag # "record"

(* reclaim_if_drained erases only when nothing committed is left and some   *)
(* slot is in use.                                                          *)
NothingToReclaim == Committed # {} \/ \A s \in Slots : slots[s].tag = "erased"

ReclaimNothing ==
    /\ pc = "reclaim" /\ NothingToReclaim
    /\ pc' = "idle"
    /\ UNCHANGED <<media, bootSeq, seq, locals, history, faults, crashes>>

OpenFloor == IF floor = "held" THEN "open" ELSE floor

Reclaim ==
    /\ pc = "reclaim" /\ ~NothingToReclaim
    /\ EraseSpool
    /\ floor' = OpenFloor
    /\ pc' = "reclaim_header"
    /\ UNCHANGED <<bootSeq, seq, locals, faults, crashes>>
    /\ UNCHANGED <<info, fate, delivered, unread, corrupt, released>>

(* A storage error ends the flush, with any part of the step done. *)
FlushFails ==
    /\ StorageError
    /\ \/ pc \in {"select", "reclaim"} /\ UNCHANGED <<media, floor>>
       \/ /\ pc = "retry" /\ RetryBitLeft
          /\ \E n \in {0, 1} : slots' = [slots EXCEPT ![slot].retry = @ + n]
          /\ UNCHANGED <<header, floor>> /\ NoSync
       \/ /\ pc = "ack"
          /\ \E x \in {"committed", "acked"} : slots' = [slots EXCEPT ![slot].st = x]
          /\ UNCHANGED <<header, floor>> /\ NoSync
       \/ /\ pc = "reclaim" /\ ~NothingToReclaim
          /\ PartialErase
          /\ floor' = OpenFloor
       \/ /\ pc = "reclaim_header"
          /\ header' \in TornHeader(header, NewHeader)
          /\ UNCHANGED <<slots, floor>> /\ NoSync
       \/ /\ pc = "reclaim_commit"
          /\ header' \in {header, [header EXCEPT !.tag = "valid"]}
          /\ UNCHANGED <<slots, floor>> /\ NoSync
    /\ pc' = "idle"
    /\ EndOfScope
    /\ UNCHANGED <<bootSeq, seq, crashes>>
    /\ UNCHANGED <<info, fate, delivered, unread, corrupt, released>>

-----------------------------------------------------------------------------
(* Power loss: what was not synced survives in whole, in part or not at all. *)
Crash ==
    /\ crashes < MaxCrashes /\ crashes' = crashes + 1
    /\ pc # "off"
    /\ slots' \in TornSlots(dslots, slots) /\ dslots' = slots'
    /\ header' \in TornHeader(dheader, header) /\ dheader' = header'
    /\ seq' = 0
    /\ EndOfScope
    /\ fate' = [e \in Event |-> IF fate[e] = "pending" THEN "refused" ELSE fate[e]]
    /\ floor' = IF floor = "open" THEN "lost" ELSE floor
    /\ pc' = "off"
    /\ UNCHANGED <<bootSeq, info, delivered, unread, corrupt, released, faults>>

BootStep == BootStart \/ ScanRecord \/ ScanDone \/ InitErase \/ LoadBootState \/ BootFails
HeaderStep == WriteHeader \/ CommitHeader
SaveStep == SaveBootState \/ SaveBootStateFails
CaptureStep == \E e \in Event : \/ CaptureRefused(e)
                               \/ \E p \in Priority : CaptureEvent(e, p) \/ CaptureDropped(e, p)
AppendStep == AppendHeader \/ AppendPayload \/ AppendCommit \/ AppendFails
SelectStep == \/ SelectDone
              \/ \E s \in Slots : \/ SelectRecord(s) \/ SelectNoTransport(s)
                                  \/ SelectCorrupt(s) \/ SelectUnreadable(s)
SendStep == Send \/ SendFails \/ Retry \/ Ack
ReclaimStep == ReclaimNothing \/ Reclaim
FlushStep == FlushStart \/ SelectStep \/ SendStep \/ ReclaimStep \/ FlushFails

Next == BootStep \/ HeaderStep \/ SaveStep \/ CaptureStep \/ AppendStep \/ FlushStep \/ Crash

Spec == Init /\ [][Next]_vars
-----------------------------------------------------------------------------
(* Properties.                                                             *)

(* Types of the stored and the volatile state. *)
TypeOK ==
    /\ slots \in [Slots -> SlotType] /\ dslots \in [Slots -> SlotType]
    /\ header \in HeaderType /\ dheader \in HeaderType
    /\ bootSeq \in Seqs /\ seq \in Seqs /\ cand \in Seqs
    /\ pc \in PcType
    /\ ev \in Event \cup {None}
    /\ slot \in 0..MaxRecords /\ pass \in 0..MaxRecords
    /\ info \in [Event -> InfoType]
    /\ fate \in [Event -> {"new", "pending", "accepted", "refused", "dropped"}]
    /\ delivered \subseteq Event /\ unread \subseteq Event
    /\ corrupt \subseteq Event /\ released \subseteq Event
    /\ floor \in {"held", "open", "lost"}
    /\ faults \in 0..MaxFaults /\ crashes \in 0..MaxCrashes

(* The record of e is committed and complete in slot s, now and after any  *)
(* power loss.                                                             *)
Safe(s, e) == \A r \in {slots[s], dslots[s]} : IsCommitted(r) /\ r.ev = e /\ r.body = e

(* An event for which ls_spool_append has returned LS_OK is never lost: it  *)
(* stays committed and complete on the medium, whatever power losses,       *)
(* storage errors and reclaims follow, until a transport has taken it.  The *)
(* one exception is in ls_spool_flush: a record whose payload cannot be     *)
(* read is acknowledged as if it were corrupt.                              *)
NoAcceptedLoss ==
    \A e \in Event : fate[e] = "accepted" =>
        e \in delivered \/ e \in unread \/ \E s \in Slots : Safe(s, e)

(* Once acknowledge_record has returned LS_OK the record is spent for good: *)
(* no power loss, failed erase or reboot brings a committed copy back, so   *)
(* no later flush can send the event again.                                 *)
ReleasedNeverResent ==
    \A e \in released, s \in Slots :
        \A r \in {slots[s], dslots[s]} : ~(IsCommitted(r) /\ r.ev = e)

(* The commit marker is on the medium only over a complete payload: an      *)
(* append cut short before it is ignored on recovery, never delivered, and  *)
(* flush finds no bad CRC except in records that an erase has cut up after  *)
(* they were sent.                                                          *)
CommittedIsComplete ==
    \A e \in Event, s \in Slots :
        (\E r \in {slots[s], dslots[s]} : IsCommitted(r) /\ r.ev = e)
            => e \in delivered \cup unread \/ (slots[s].body = e /\ dslots[s].body = e)

(* Routine events never occupy the slots kept for CRITICAL and EMERGENCY    *)
(* evidence, also not after recovery from a power loss.                     *)
ReserveHeld ==
    \A s \in Slots : \A r \in {slots[s], dslots[s]} : RecordValid(r) =>
        /\ s >= MaxRecords - ReservedCritical => info[r.ev].prio <= 1
        /\ s >= MaxRecords - ReservedEmergency => info[r.ev].prio = 0

(* Among the records waiting to be sent, the serial order of the sequence   *)
(* numbers is the order of capture, across reboots: flush drains records of *)
(* one priority oldest first.                                               *)
DrainedInCaptureOrder ==
    \A s, t \in Committed :
        info[slots[s].ev].order < info[slots[t].ev].order
            => GenerationIsNewer(info[slots[t].ev].seq, info[slots[s].ev].seq)

(* When there is no room for an event of priority ERROR or above, the spool *)
(* holds no less important record that could have made room for it.         *)
DropsHealthyFirst ==
    [][\A e \in Event : fate[e] = "new" /\ fate'[e] = "dropped" /\ info'[e].prio <= 2
          => \A s \in Committed : info[slots[s].ev].prio <= 2]_vars

(* Two delivered events never share a sequence number, unless a power loss  *)
(* fell between the erase of a drained spool and the commit of the new      *)
(* header that carries its sequence_floor.                                  *)
DeliveredSequencesDistinct ==
    floor # "lost" =>
        \A e, f \in delivered : e # f => info[e].seq # info[f].seq

-----------------------------------------------------------------------------
(* The abstract outbox, and progress.                                      *)

(* An event is stored if some slot holds it committed, synced or not. *)
Stored == {e \in Event : \E s \in Slots : \E r \in {slots[s], dslots[s]} :
                             IsCommitted(r) /\ r.ev = e}

Out == INSTANCE Outbox WITH stored <- Stored,
                            promised <- {e \in Event : fate[e] = "accepted"},
                            given <- unread

(* The spool implements the at-least-once outbox: every step of boot,       *)
(* capture, flush and power loss is one of its steps or changes nothing.    *)
ImplementsOutbox == Out!Spec

(* The steps of an operation that has been started. *)
RunStep == \/ BootStep \/ HeaderStep \/ AppendStep
           \/ pc = "save" /\ SaveStep
           \/ SelectStep \/ SendStep \/ ReclaimStep \/ FlushFails

(* A started operation runs on; the application boots the device and keeps  *)
(* calling ls_flush; a transport is available, and accepts an event, again  *)
(* and again.                                                               *)
Fairness == /\ WF_vars(RunStep) /\ WF_vars(FlushStart)
            /\ SF_vars(\E s \in Slots : SelectRecord(s))
            /\ SF_vars(Send)

FairSpec == Spec /\ Fairness

(* Every accepted event is delivered in the end, or was given up because it *)
(* could not be read: retries, power losses and errors only delay it.       *)
AcceptedIsDelivered ==
    \A e \in Event : fate[e] = "accepted" ~> e \in delivered \cup unread

(* A spool with no room for routine events has room again later: flush      *)
(* drains it and reclaim_if_drained erases it, torn slots included.         *)
RoomReturns == EmptySlots(2) = {} ~> EmptySlots(2) # {}
=============================================================================
