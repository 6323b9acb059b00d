---------------------------- MODULE Spool_proofs ----------------------------
(***************************************************************************)
(* Proofs about Spool, for every number of events, slots, storage errors   *)
(* and power losses: nothing accepted is lost, the priority reserve, and   *)
(* the refinement of Outbox.                                               *)
(***************************************************************************)
EXTENDS SpoolMedium_proofs

(* The send, the retry bits and the acknowledgement of ls_spool_flush, and   *)
(* the failures of the last two.                                             *)
LEMMA SendKeepsIInv ==
    ASSUME IInv, TypeOK', SendStep \/ (FlushFails /\ pc \in {"retry", "ack"})
    PROVE  IInv'
<1> USE DEF IInv
<1>0. /\ slot \in Slots /\ slots[slot] \in SlotType /\ IsCommitted(slots[slot]) /\ slots[slot].ev = ev
      /\ slots[slot].tag = "record"
  BY DEF SendStep, Send, SendFails, Retry, Ack, PInv, Flushing, TypeOK, IsCommitted, RecordValid
<1>1. CASE Send \/ SendFails
  <2>1. /\ slots' = slots /\ dslots' = dslots /\ UNCHANGED <<unread, fate, released, slot, ev>>
        /\ delivered \subseteq delivered' /\ pc' \in {"ack", "retry"}
        /\ pc' = "ack" => ev \in delivered'
    BY <1>1 DEF Send, SendFails, media, history, locals
  <2>2. MInv'
    BY <2>1, MediumKept
  <2>3. Appending' /\ Flushing' /\ Erasing'
    BY <1>0, <2>1 DEF Appending, Flushing, Erasing, Settled
  <2>4. Fresh'
    BY <2>1 DEF PInv, Fresh, Copies
  <2>5. QED
    BY <2>2, <2>3, <2>4 DEF PInv
<1>2. CASE pc = "retry"
  <2>1. /\ UNCHANGED <<delivered, unread, fate, released>> /\ pc' \notin Busy
        /\ (dslots' = dslots \/ dslots' = slots')
        /\ \/ slots' = slots
           \/ RetryBitLeft /\ \E n \in {0, 1} : slots' = [slots EXCEPT ![slot].retry = @ + n]
    BY <1>2 DEF SendStep, Send, SendFails, Retry, Ack, FlushFails, Sync, NoSync, media, history, Busy
  <2>2. CASE slots' = slots
    BY <2>1, <2>2, MediumKept, OperationEndedKept
  <2>3. CASE RetryBitLeft /\ \E n \in {0, 1} : slots' = [slots EXCEPT ![slot].retry = @ + n]
    <3>1. PICK n \in {0, 1} : slots' = [slots EXCEPT ![slot].retry = @ + n]
      BY <2>3, Zenon
    <3> DEFINE r == [slots[slot] EXCEPT !.retry = @ + n]
    <3>2. slots' = [slots EXCEPT ![slot] = r]
      BY <1>0, <3>1 DEF TypeOK
    <3>3. r.tag = slots[slot].tag /\ r.ev = slots[slot].ev /\ r.st = slots[slot].st /\ r.body = slots[slot].body
      BY <1>0 DEF SlotType
    <3>4. r \in SlotType
      <4>1. slots[slot].retry + n \in 0..RetryBits
        BY <1>0, <2>3, SizeAssumption DEF RetryBitLeft, SlotType
      <4>2. QED
        BY <1>0, <4>1 DEF SlotType
    <3> HIDE DEF r
    <3>5. MInv'
      BY <1>0, <2>1, <3>2, <3>3, <3>4, MediumRetried, Zenon DEF IsCommitted, RecordValid
    <3>6. \A s \in Slots : \A y \in Copies(s)' : \E z \in Copies(s) : y.ev = z.ev
      BY <1>0, <2>1, <3>2, <3>3 DEF Copies, TypeOK
    <3>7. QED
      BY <2>1, <3>5, <3>6, OperationEnded
  <2>4. QED
    BY <2>1, <2>2, <2>3
<1>3. CASE pc = "ack"
  <2>1. PICK x \in {"committed", "acked"} :
           /\ slots' = [slots EXCEPT ![slot].st = x]
           /\ \/ x = "acked" /\ dslots' = slots' /\ released' = released \cup {ev}
              \/ dslots' = dslots /\ released' = released
           /\ UNCHANGED <<delivered, unread, fate>> /\ pc' \notin Busy
    BY <1>3 DEF SendStep, Send, SendFails, Retry, Ack, FlushFails, Sync, NoSync, history, Busy
  <2> DEFINE r == [slots[slot] EXCEPT !.st = x]
  <2>2. slots' = [slots EXCEPT ![slot] = r]
    BY <1>0, <2>1 DEF TypeOK
  <2>3. /\ r \in SlotType /\ r.tag = "record" /\ r.ev = slots[slot].ev /\ r.st = x
        /\ r.body = slots[slot].body
    BY <1>0 DEF SlotType
  <2> HIDE DEF r
  <2>4. ev \in Settled
    BY <1>3 DEF PInv, Flushing
  <2>5. MInv'
    <3>1. CASE x = "acked"
      BY <1>0, <2>1, <2>2, <2>3, <2>4, <3>1, MediumAcked, Zenon DEF IsCommitted
    <3>2. CASE x = "committed"
      BY <1>0, <2>1, <2>2, <2>3, <3>2, MediumRetried, Zenon DEF IsCommitted, RecordValid
    <3>3. QED
      BY <3>1, <3>2
  <2>6. \A s \in Slots : \A y \in Copies(s)' : \E z \in Copies(s) : y.ev = z.ev
    BY <1>0, <2>1, <2>2, <2>3 DEF Copies, TypeOK
  <2>7. QED
    BY <2>1, <2>5, <2>6, OperationEnded
<1>4. QED
  BY <1>1, <1>2, <1>3 DEF SendStep, Retry, Ack

(* reclaim_if_drained erases only when nothing committed is left; neither    *)
(* the erase nor any other failure of a flush disturbs the invariant.        *)
LEMMA ReclaimKeepsIInv ==
    ASSUME IInv, TypeOK', ReclaimStep \/ (FlushFails /\ pc \notin {"retry", "ack"})
    PROVE  IInv'
<1> USE DEF IInv
<1>1. UNCHANGED <<delivered, unread, fate, released>> /\ pc' \notin Busy
  BY DEF ReclaimStep, ReclaimNothing, Reclaim, FlushFails, history, Busy
<1>2. CASE slots' = slots /\ dslots' = dslots
  BY <1>1, <1>2, MediumKept, OperationEndedKept
<1>3. CASE Reclaim
  <2>1. Committed = {} /\ slots' = AllErased /\ dslots' = AllErased
    BY <1>3 DEF Reclaim, NothingToReclaim, EraseSpool, Sync
  <2>2. \A s \in Slots : \A r \in Copies(s)' : r.ev = None
    BY <2>1 DEF Copies, AllErased, ErasedSlot
  <2>3. QED
    BY <1>1, <2>1, <2>2, MediumErased, OperationEnded
<1>4. CASE ~NothingToReclaim /\ PartialErase
  <2>1. Committed = {}
    BY <1>4 DEF NothingToReclaim
  <2>2. \A s \in Slots : \A r \in Copies(s)' : r.ev = None \/ \E x \in Copies(s) : r.ev = x.ev
    BY <1>4, PartialEraseNames DEF MInv
  <2>3. QED
    BY <1>1, <1>4, <2>1, <2>2, MediumPartlyErased, OperationEnded
<1>5. QED
  BY <1>2, <1>3, <1>4 DEF ReclaimStep, ReclaimNothing, FlushFails, media, NoSync

(* A power loss at any point. *)
LEMMA CrashKeepsIInv ==
    ASSUME IInv, TypeOK', Crash
    PROVE  IInv'
<1> USE DEF IInv
<1>1. MInv'
  BY MediumCrashed
<1>2. pc' \notin Busy /\ \A e \in Event : fate'[e] = "new" => fate[e] = "new"
  BY DEF Crash, Busy, TypeOK
<1>3. \A s \in Slots : \A r \in Copies(s)' : r.ev = None \/ \E x \in Copies(s) : r.ev = x.ev
  <2> TAKE s \in Slots
  <2>1. slots'[s] \in TornSlot(dslots[s], slots[s]) /\ dslots' = slots'
    BY TornSlotsType DEF Crash, TypeOK
  <2>2. /\ dslots[s] \in SlotType /\ slots[s] \in SlotType
        /\ RecordValid(dslots[s]) <=> dslots[s].ev # None
        /\ RecordValid(slots[s]) <=> slots[s].ev # None
    BY SMTT(20) DEF TypeOK, MInv, RecordsNameEvents, Copies
  <2>3. slots'[s].ev \in {None, dslots[s].ev, slots[s].ev}
    BY <2>1, <2>2, TornSlotFacts
  <2>4. QED
    BY <2>1, <2>3 DEF Copies
<1>4. QED
  BY <1>1, <1>2, <1>3, OperationEnded

-----------------------------------------------------------------------------
(* The theorems.                                                           *)

(* Every step of boot, capture, flush and power loss preserves IInv. *)
LEMMA NextKeepsIInv == IInv /\ [Next]_vars => IInv'
<1> SUFFICES ASSUME IInv, [Next]_vars PROVE IInv'
  OBVIOUS
<1>1. CASE Next
  <2>1. TypeOK'
    BY <1>1, NextType DEF IInv, MInv, PInv
  <2>2. CASE FlushStep
    BY <2>1, <2>2, SelectKeepsIInv, SendKeepsIInv, ReclaimKeepsIInv DEF FlushStep
  <2>3. QED
    BY <1>1, <2>1, <2>2, BootKeepsIInv, CaptureKeepsIInv, AppendKeepsIInv, CrashKeepsIInv DEF Next
<1>2. CASE UNCHANGED vars
  <2>1. UNCHANGED <<slots, header, dslots, dheader, bootSeq, seq, pc, ev, slot, pass, cand,
                    info, fate, delivered, unread, corrupt, released, floor, faults, crashes>>
    BY <1>2 DEF vars, media, history, locals
  <2>2. TypeOK'
    BY <2>1 DEF IInv, TypeOK
  <2>3. MInv'
    BY <2>1, MediumKept, SMTT(20) DEF IInv
  <2>4. Appending' /\ Flushing' /\ Erasing'
    BY <2>1, SMTT(20) DEF IInv, PInv, Appending, Flushing, Erasing, Settled
  <2>5. Fresh'
    BY <2>1, Zenon DEF IInv, PInv, Fresh, Copies
  <2>6. QED
    BY <2>2, <2>3, <2>4, <2>5 DEF IInv, PInv
<1>3. QED
  BY <1>1, <1>2

(* IInv holds in every reachable state. *)
THEOREM SpoolInvariant == Spec => []IInv
<1>1. Init => IInv
  BY InitIInv
<1>2. IInv /\ [Next]_vars => IInv'
  BY NextKeepsIInv
<1>3. QED
  BY <1>1, <1>2, PTL DEF Spec

(* The stored and the volatile state of the spool keep their types: in     *)
(* particular no sequence number leaves its width and no index its array.   *)
THEOREM SpoolTypes == Spec => []TypeOK
<1>1. IInv => TypeOK
  BY DEF IInv
<1>2. QED
  BY <1>1, SpoolInvariant, PTL

(* An event whose append returned LS_OK is never lost, for any number of    *)
(* slots, events, storage errors and power losses: ls_spool_append,         *)
(* ls_spool_flush and reclaim_if_drained keep it committed and complete     *)
(* until a transport takes it or its payload cannot be read.                *)
THEOREM SpoolNoAcceptedLoss == Spec => []NoAcceptedLoss
<1>1. IInv => NoAcceptedLoss
  BY DEF IInv, MInv
<1>2. QED
  BY <1>1, SpoolInvariant, PTL

(* A commit marker never stands over an incomplete payload that has yet to  *)
(* be sent: an interrupted ls_spool_append is ignored on recovery.          *)
THEOREM SpoolCommittedIsComplete == Spec => []CommittedIsComplete
<1>1. IInv => CommittedIsComplete
  BY DEF IInv, MInv
<1>2. QED
  BY <1>1, SpoolInvariant, PTL

(* After acknowledge_record has returned LS_OK no copy of the record is     *)
(* ever committed again.                                                    *)
THEOREM SpoolReleasedNeverResent == Spec => []ReleasedNeverResent
<1>1. IInv => ReleasedNeverResent
  BY DEF IInv, MInv
<1>2. QED
  BY <1>1, SpoolInvariant, PTL
-----------------------------------------------------------------------------
(* Where a record r of slot s can come from: what is there names its event, *)
(* and is committed if r is, or the running append has written it.          *)
Origin(s, r) ==
    /\ r.ev = None \/ (\E x \in Copies(s) : x.ev = r.ev)
                   \/ (pc = "append_header" /\ s = slot /\ r.ev = ev)
    /\ IsCommitted(r) => \/ \E x \in Copies(s) : IsCommitted(x) /\ x.ev = r.ev
                         \/ AppendStep /\ pc = "append_commit" /\ s = slot /\ r.ev = ev

(* What TornSlot leaves of two contents that are there already. *)
LEMMA TornOrigin ==
    ASSUME IInv, NEW s \in Slots, NEW d, NEW c, NEW r \in TornSlot(d, c),
           d \in Copies(s) \cup {ErasedSlot}, c \in Copies(s) \cup {ErasedSlot}
    PROVE  Origin(s, r)
<1>1. \A x \in Copies(s) \cup {ErasedSlot} : x \in SlotType /\ (RecordValid(x) <=> x.ev # None)
  BY ErasedType DEF IInv, TypeOK, MInv, RecordsNameEvents, Copies, ErasedSlot, RecordValid
<1>2. ErasedSlot.ev = None /\ ~IsCommitted(ErasedSlot)
  BY DEF ErasedSlot, IsCommitted, RecordValid
<1>3. /\ r.ev \in {None, d.ev, c.ev}
      /\ IsCommitted(r) => \E x \in {d, c} : IsCommitted(x) /\ x.ev = r.ev
  BY <1>1, TornSlotFacts
<1>4. QED
  BY <1>2, <1>3 DEF Origin

(* A step of ls_spool_append changes its own slot only. *)
LEMMA AppendOrigin ==
    ASSUME IInv, AppendStep, NEW s \in Slots
    PROVE  Origin(s, slots'[s])
<1>0. /\ slot \in Slots /\ ev \in Event /\ slots[slot] \in SlotType
      /\ pc # "append_header" => slots[slot].ev = ev
      /\ pc = "append_header" => slots[slot].tag = "erased"
  BY DEF AppendStep, AppendHeader, AppendPayload, AppendCommit, AppendFails, IInv, PInv, Appending, TypeOK
<1>1. CASE slots'[s] = slots[s]
  BY <1>1 DEF Origin, Copies
<1>2. CASE pc = "append_header" /\ s = slot
  <2>1. NewRecord \in SlotType /\ NewRecord.ev = ev /\ RecordValid(NewRecord) /\ ~IsCommitted(NewRecord)
    BY <1>0, SizeAssumption DEF NewRecord, SlotType, RecordValid, IsCommitted
  <2>2. ~IsCommitted(slots[s]) /\ (RecordValid(slots[s]) <=> slots[s].ev # None)
    BY <1>0, <1>2 DEF IsCommitted, RecordValid, IInv, MInv, RecordsNameEvents, Copies
  <2>3. slots'[s] = NewRecord \/ slots'[s] \in TornSlot(slots[s], NewRecord)
    BY <1>0, <1>2 DEF AppendStep, AppendHeader, AppendPayload, AppendCommit, AppendFails, IInv, TypeOK
  <2>4. slots'[s].ev \in {None, slots[s].ev, ev} /\ ~IsCommitted(slots'[s])
    BY <1>0, <1>2, <2>1, <2>2, <2>3, EventAssumption, TornSlotFacts
  <2>5. QED
    BY <1>2, <2>4 DEF Origin, Copies
<1>3. CASE pc # "append_header" /\ s = slot
  <2>1. /\ slots'[s].ev = slots[s].ev
        /\ IsCommitted(slots'[s]) => IsCommitted(slots[s]) \/ pc = "append_commit"
    BY <1>0, <1>3 DEF AppendStep, AppendHeader, AppendPayload, AppendCommit, AppendFails, IInv, TypeOK,
                      SlotType, IsCommitted, RecordValid
  <2>2. QED
    BY <1>0, <1>3, <2>1 DEF Origin, Copies
<1>4. QED
  <2>1. s # slot => slots'[s] = slots[s]
    BY <1>0 DEF AppendStep, AppendHeader, AppendPayload, AppendCommit, AppendFails, IInv, TypeOK
  <2>2. QED
    BY <1>1, <1>2, <1>3, <2>1

(* A step of ls_spool_flush changes state or retry bits of its slot, or     *)
(* erases.                                                                  *)
LEMMA FlushOrigin ==
    ASSUME IInv, FlushStep, NEW s \in Slots
    PROVE  Origin(s, slots'[s])
<1>1. CASE slots' = slots
  BY <1>1 DEF Origin, Copies
<1>2. CASE slots' = AllErased
  BY <1>2 DEF Origin, AllErased, ErasedSlot, IsCommitted, RecordValid
<1>3. CASE PartialErase
  <2>1. slots'[s] \in TornSlot(slots[s], ErasedSlot)
    BY <1>3, ErasedType, TornSlotsType DEF PartialErase, IInv, TypeOK, AllErased
  <2>2. QED
    BY <2>1, TornOrigin DEF Copies
<1>4. CASE /\ pc \in {"retry", "ack"}
           /\ \/ \E n \in {0, 1} : slots' = [slots EXCEPT ![slot].retry = @ + n]
              \/ \E x \in {"committed", "acked"} : slots' = [slots EXCEPT ![slot].st = x]
  <2>1. slot \in Slots /\ IsCommitted(slots[slot]) /\ slots[slot] \in SlotType
    BY <1>4 DEF IInv, PInv, Flushing, TypeOK
  <2>2. slots'[s].ev = slots[s].ev /\ (IsCommitted(slots'[s]) => IsCommitted(slots[s]))
    BY <1>4, <2>1 DEF IInv, TypeOK, SlotType, IsCommitted, RecordValid
  <2>3. QED
    BY <2>2 DEF Origin, Copies
<1>5. QED
  <2>1. FlushFails => \/ slots' = slots \/ PartialErase
                      \/ pc = "retry" /\ \E n \in {0, 1} : slots' = [slots EXCEPT ![slot].retry = @ + n]
                      \/ pc = "ack" /\ \E x \in {"committed", "acked"} : slots' = [slots EXCEPT ![slot].st = x]
    BY DEF FlushFails, media
  <2>2. SendStep => \/ slots' = slots
                    \/ pc = "retry" /\ slots' = [slots EXCEPT ![slot].retry = @ + 1]
                    \/ pc = "ack" /\ slots' = [slots EXCEPT ![slot].st = "acked"]
    BY DEF SendStep, Send, SendFails, Retry, Ack, media
  <2>3. FlushStart \/ SelectStep \/ ReclaimStep => slots' = slots \/ slots' = AllErased
    BY DEF FlushStart, SelectStep, SelectDone, SelectRecord, SelectNoTransport, SelectCorrupt,
           SelectUnreadable, Select, ReclaimStep, ReclaimNothing, Reclaim, EraseSpool, media
  <2>4. QED
    BY <1>1, <1>2, <1>3, <1>4, <2>1, <2>2, <2>3 DEF FlushStep

(* No step makes up a record. *)
LEMMA NextOrigin ==
    ASSUME IInv, Next, NEW s \in Slots, NEW r \in Copies(s)'
    PROVE  Origin(s, r)
<1>1. Origin(s, slots'[s])
  <2>1. CASE slots' = slots
    BY <2>1 DEF Origin, Copies
  <2>2. CASE InitErase
    BY <2>2 DEF InitErase, EraseSpool, Origin, AllErased, ErasedSlot, IsCommitted, RecordValid
  <2>3. CASE PartialErase
    <3>1. slots'[s] \in TornSlot(slots[s], ErasedSlot)
      BY <2>3, ErasedType, TornSlotsType DEF PartialErase, IInv, TypeOK, AllErased
    <3>2. QED
      BY <3>1, TornOrigin DEF Copies
  <2>4. CASE Crash
    <3>1. slots'[s] \in TornSlot(dslots[s], slots[s])
      BY <2>4, TornSlotsType DEF Crash, IInv, TypeOK
    <3>2. QED
      BY <3>1, TornOrigin DEF Copies
  <2>5. BootStep \/ HeaderStep \/ SaveStep \/ CaptureStep => slots' = slots \/ InitErase \/ PartialErase
    BY DEF BootStep, BootStart, ScanRecord, ScanDone, LoadBootState, BootFails, HeaderStep, WriteHeader,
           CommitHeader, SaveStep, SaveBootState, SaveBootStateFails, CaptureStep, CaptureEvent,
           CaptureDropped, CaptureRefused, Capture, media
  <2>6. QED
    BY <2>1, <2>2, <2>3, <2>4, <2>5, AppendOrigin, FlushOrigin DEF Next
<1>2. dslots' = dslots \/ dslots' = slots'
  <2>1. BootStep \/ HeaderStep \/ SaveStep \/ CaptureStep \/ Crash => dslots' = dslots \/ dslots' = slots'
    BY DEF BootStep, BootStart, ScanRecord, ScanDone, InitErase, LoadBootState, BootFails, HeaderStep,
           WriteHeader, CommitHeader, SaveStep, SaveBootState, SaveBootStateFails, CaptureStep,
           CaptureEvent, CaptureDropped, CaptureRefused, Capture, Crash, PartialErase, EraseSpool,
           Sync, NoSync, media
  <2>2. AppendStep \/ FlushStep => dslots' = dslots \/ dslots' = slots'
    BY DEF AppendStep, AppendHeader, AppendPayload, AppendCommit, AppendFails, FlushStep, FlushStart,
           SelectStep, SelectDone, SelectRecord, SelectNoTransport, SelectCorrupt, SelectUnreadable,
           Select, SendStep, Send, SendFails, Retry, Ack, ReclaimStep, ReclaimNothing, Reclaim,
           FlushFails, EraseSpool, PartialErase, Sync, NoSync, media
  <2>3. QED
    BY <2>1, <2>2 DEF Next
<1>3. Origin(s, dslots[s])
  BY DEF Origin, Copies
<1>4. QED
  BY <1>1, <1>2, <1>3 DEF Copies
-----------------------------------------------------------------------------
(* The priority reserve.                                                   *)

(* Every step keeps the reserve: find_empty_slot stays below the limit of   *)
(* the priority, and no other step brings a record to a slot.               *)
LEMMA NextKeepsRInv == RInv /\ [Next]_vars => RInv'
<1> SUFFICES ASSUME RInv, [Next]_vars PROVE RInv'
  OBVIOUS
<1>1. IInv'
  BY NextKeepsIInv DEF RInv
<1>2. CASE Next
  <2>1. ReserveHeld'
    <3> SUFFICES ASSUME NEW s \in Slots, NEW r \in Copies(s)', RecordValid(r)
                 PROVE  /\ s >= MaxRecords - ReservedCritical => info'[r.ev].prio <= 1
                        /\ s >= MaxRecords - ReservedEmergency => info'[r.ev].prio = 0
      BY DEF ReserveHeld, Copies
    <3>1. r.ev \in Event
      <4>1. r \in SlotType /\ r.ev # None
        BY <1>1 DEF IInv, TypeOK, MInv, RecordsNameEvents, Copies
      <4>2. QED
        BY <4>1 DEF SlotType
    <3>2. CASE \E x \in Copies(s) : x.ev = r.ev
      <4>1. PICK x \in Copies(s) : x.ev = r.ev
        BY <3>2
      <4>2. RecordValid(x) /\ fate[r.ev] # "new"
        BY <3>1, <4>1, EventAssumption DEF RInv, IInv, MInv, RecordsNameEvents, PInv, Fresh
      <4>3. info'[r.ev] = info[r.ev]
        BY <1>2, <3>1, <4>2, InfoFixed DEF RInv
      <4>4. QED
        BY <4>1, <4>2, <4>3 DEF RInv, ReserveHeld, Copies
    <3>3. CASE pc = "append_header" /\ s = slot /\ r.ev = ev
      <4>1. fate[ev] # "new" /\ slot < SlotLimitForPriority(info[ev].prio) /\ info[ev].prio \in 0..4
        BY <3>1, <3>3 DEF RInv, Placing, IInv, PInv, Appending, TypeOK, InfoType
      <4>2. info'[ev] = info[ev]
        BY <1>2, <3>1, <3>3, <4>1, InfoFixed DEF RInv
      <4>3. QED
        BY <3>3, <4>1, <4>2, SizeAssumption DEF SlotLimitForPriority, Slots
    <3>4. QED
      BY <1>2, <3>1, <3>2, <3>3, NextOrigin, EventAssumption DEF Origin, RInv
  <2>2. Placing'
    <3> SUFFICES ASSUME pc' = "append_header"
                 PROVE  slot' < SlotLimitForPriority(info'[ev'].prio)
      BY DEF Placing
    <3>1. PICK e \in Event, p \in Priority : CaptureEvent(e, p)
      BY <1>2, AppendStarts
    <3>2. ev' = e /\ info'[e].prio = p /\ slot' \in EmptySlots(p)
      BY <3>1 DEF CaptureEvent, Capture, RInv, IInv, TypeOK
    <3>3. SlotLimitForPriority(p) \in Int
      BY SizeAssumption DEF SlotLimitForPriority
    <3>4. QED
      BY <3>2, <3>3 DEF EmptySlots
  <2>3. QED
    BY <1>1, <2>1, <2>2 DEF RInv
<1>3. CASE UNCHANGED vars
  <2>1. UNCHANGED <<slots, dslots, pc, slot, ev, info>>
    BY <1>3 DEF vars, media, locals, history
  <2>2. QED
    BY <1>1, <2>1, Zenon DEF RInv, ReserveHeld, Placing
<1>4. QED
  BY <1>2, <1>3

(* The slots kept for CRITICAL and EMERGENCY evidence never hold a routine  *)
(* event, for any sizes of the two reserves and after any power loss:       *)
(* slot_limit_for_priority is respected by every way a record gets into a   *)
(* slot.                                                                    *)
THEOREM SpoolReserveHeld == Spec => []ReserveHeld
<1>1. Init => RInv
  <2>1. Init => ReserveHeld /\ Placing
    BY DEF Init, ReserveHeld, Placing, AllErased, ErasedSlot, RecordValid
  <2>2. QED
    BY <2>1, InitIInv DEF RInv
<1>2. RInv /\ [Next]_vars => RInv'
  BY NextKeepsRInv
<1>3. RInv => ReserveHeld
  BY DEF RInv
<1>4. QED
  BY <1>1, <1>2, <1>3, PTL DEF Spec
-----------------------------------------------------------------------------
(* The refinement of Outbox.                                               *)

(* Only the transport's LS_OK and a failed read settle an event, and it is  *)
(* one that is committed.                                                   *)
LEMMA SettledStep ==
    ASSUME IInv, Next
    PROVE  \/ UNCHANGED <<delivered, unread>>
           \/ Send /\ unread' = unread
           \/ \E s \in Slots : SelectUnreadable(s) /\ delivered' = delivered
<1>1. BootStep \/ HeaderStep \/ SaveStep \/ AppendStep \/ Crash => UNCHANGED <<delivered, unread>>
  BY DEF BootStep, BootStart, ScanRecord, ScanDone, InitErase, LoadBootState, BootFails, HeaderStep,
         WriteHeader, CommitHeader, SaveStep, SaveBootState, SaveBootStateFails, AppendStep,
         AppendHeader, AppendPayload, AppendCommit, AppendFails, Crash, history
<1>2. CaptureStep => UNCHANGED <<delivered, unread>>
  BY DEF CaptureStep, CaptureEvent, CaptureDropped, CaptureRefused, Capture
<1>3. FlushStart \/ SendFails \/ Retry \/ Ack \/ ReclaimStep \/ FlushFails \/ SelectDone
         => UNCHANGED <<delivered, unread>>
  BY DEF FlushStart, SendFails, Retry, Ack, ReclaimStep, ReclaimNothing, Reclaim, FlushFails,
         SelectDone, history
<1>4. \A s \in Slots : /\ SelectRecord(s) \/ SelectNoTransport(s) \/ SelectCorrupt(s)
                             => UNCHANGED <<delivered, unread>>
                       /\ SelectUnreadable(s) => delivered' = delivered
  BY DEF SelectRecord, SelectNoTransport, SelectCorrupt, SelectUnreadable, Select
<1>5. Send => unread' = unread
  BY DEF Send
<1>6. QED
  BY <1>1, <1>2, <1>3, <1>4, <1>5, Zenon DEF Next, FlushStep, SelectStep, SendStep

(* The record a flush works on. *)
LEMMA FlushedIsStored ==
    ASSUME IInv, NEW s \in Slots, IsCommitted(slots[s])
    PROVE  slots[s].ev \in Stored /\ fate[slots[s].ev] \notin {"new", "pending"}
<1>1. slots[s] \in SlotType /\ slots[s].ev # None
  BY DEF IInv, TypeOK, MInv, RecordsNameEvents, IsCommitted, Copies
<1>2. QED
  BY <1>1 DEF Stored, SlotType, IInv, MInv, CommittedEnded, Copies

(* Every step keeps the two facts the refinement needs beside IInv. *)
LEMMA NextKeepsOInv == OInv /\ [Next]_vars => OInv'
<1> SUFFICES ASSUME OInv, [Next]_vars PROVE OInv'
  OBVIOUS
<1>1. IInv'
  BY NextKeepsIInv DEF OInv
<1>2. CASE Next
  <2>1. Synced'
    <3>1. AppendPayload => dslots' = slots'
      BY DEF AppendPayload, Sync
    <3>2. BootStep \/ HeaderStep \/ SaveStep \/ Crash => pc' # "append_commit"
      BY DEF BootStep, BootStart, ScanRecord, ScanDone, InitErase, LoadBootState, BootFails, HeaderStep,
             WriteHeader, CommitHeader, SaveStep, SaveBootState, SaveBootStateFails, Crash
    <3>3. AppendHeader \/ AppendCommit \/ AppendFails \/ FlushStep => pc' # "append_commit"
      BY DEF AppendHeader, AppendCommit, AppendFails, FlushStep, FlushStart, SelectStep, SelectDone,
             SelectRecord, SelectNoTransport, SelectCorrupt, SelectUnreadable, GoOnWith, SendStep,
             Send, SendFails, Retry, Ack, ReclaimStep, ReclaimNothing, Reclaim, FlushFails
    <3>4. CaptureStep => pc' # "append_commit"
      BY DEF CaptureStep, CaptureEvent, CaptureDropped, CaptureRefused, Capture
    <3>5. QED
      BY <1>2, <3>1, <3>2, <3>3, <3>4 DEF Next, AppendStep, Synced
  <2>2. SettledEnded'
    <3> SUFFICES ASSUME NEW e \in Settled' PROVE fate'[e] \notin {"new", "pending"}
      BY DEF SettledEnded
    <3>1. e \in Event /\ fate[e] \notin {"new", "pending"}
      <4>1. e \in Event
        BY <1>1 DEF IInv, TypeOK, Settled
      <4>2. CASE e \in Settled
        BY <4>1, <4>2 DEF OInv, SettledEnded
      <4>3. CASE Send /\ e = ev
        BY <4>1, <4>3, FlushedIsStored DEF Send, OInv, IInv, PInv, Flushing
      <4>4. ASSUME NEW s \in Slots, SelectUnreadable(s), e = slots[s].ev
            PROVE  fate[e] \notin {"new", "pending"}
        BY <4>4, FlushedIsStored DEF SelectUnreadable, Select, Selected, Committed, OInv
      <4>5. QED
        <5>1. Send => delivered' = delivered \cup {ev}
          BY DEF Send
        <5>2. \A s \in Slots : SelectUnreadable(s) => unread' = unread \cup {slots[s].ev}
          BY DEF SelectUnreadable
        <5>3. QED
          BY <1>2, <4>1, <4>2, <4>3, <4>4, <5>1, <5>2, SettledStep DEF Settled, OInv
    <3>2. QED
      BY <1>2, <3>1, FateFixed DEF OInv
  <2>3. QED
    BY <1>1, <2>1, <2>2 DEF OInv
<1>3. CASE UNCHANGED vars
  <2>1. UNCHANGED <<slots, dslots, pc, delivered, unread, fate>>
    BY <1>3 DEF vars, media, locals, history
  <2>2. QED
    BY <1>1, <2>1, Zenon DEF OInv, Synced, SettledEnded, Settled
<1>4. QED
  BY <1>2, <1>3
(* Events leave the outbox only when they may. *)
LEMMA RetireStep ==
    ASSUME IInv', Stored' \subseteq Stored, \A e \in Event : fate'[e] = "accepted" <=> fate[e] = "accepted",
           UNCHANGED <<delivered, unread>>
    PROVE  Out!Next
<1> DEFINE S == Stored \ Stored'
<1>1. S \in SUBSET Stored
  OBVIOUS
<1>2. \A e \in Event : fate'[e] = "accepted" => e \in delivered \cup unread \cup Stored'
  <2>1. \A s \in Slots, e \in Event : Safe(s, e)' => e \in Stored'
    BY DEF Safe, Stored
  <2>2. QED
    BY <2>1 DEF IInv, MInv, NoAcceptedLoss
<1>3. Out!Retire(S)
  BY <1>2 DEF Out!Retire, Stored
<1>4. QED
  BY <1>1, <1>3 DEF Out!Next

(* The commit marker of ls_spool_append is the moment an event enters the   *)
(* outbox, whether or not the append reports success.                       *)
LEMMA CommitStep ==
    ASSUME OInv, AppendStep, pc = "append_commit"
    PROVE  Out!Append(ev) \/ UNCHANGED Out!vars
<1>0. /\ slot \in Slots /\ ev \in Event /\ fate[ev] = "pending" /\ dslots = slots
      /\ slots[slot] \in SlotType /\ slots[slot].tag = "record" /\ slots[slot].ev = ev
      /\ slots[slot].st = "open"
  BY DEF OInv, Synced, IInv, PInv, Appending, TypeOK
<1>1. PICK x \in {"open", "committed"} :
         /\ slots' = [slots EXCEPT ![slot].st = x]
         /\ \/ x = "committed" /\ dslots' = slots' /\ fate' = [fate EXCEPT ![ev] = "accepted"]
            \/ dslots' = dslots /\ fate' = [fate EXCEPT ![ev] = "refused"]
         /\ UNCHANGED <<delivered, unread>>
  BY DEF AppendStep, AppendHeader, AppendPayload, AppendCommit, AppendFails, Sync
<1>2. /\ \A s \in Slots : s # slot => slots'[s] = slots[s]
      /\ slots'[slot].tag = "record" /\ slots'[slot].ev = ev /\ slots'[slot].st = x
  BY <1>0, <1>1 DEF OInv, IInv, TypeOK, SlotType
<1>3. ev \notin Stored \cup delivered \cup unread /\ fate[ev] # "accepted"
  BY <1>0 DEF Stored, OInv, SettledEnded, Settled, IInv, MInv, CommittedEnded, Copies
<1>4. Stored' = IF x = "committed" THEN Stored \cup {ev} ELSE Stored
  <2>1. \A s \in Slots : IsCommitted(slots'[s]) <=> IsCommitted(slots[s]) \/ (s = slot /\ x = "committed")
    BY <1>0, <1>2 DEF IsCommitted, RecordValid
  <2>2. \A s \in Slots : slots'[s].ev = slots[s].ev
    BY <1>0, <1>2
  <2>3. \A e : e \in Stored <=> e \in Event /\ \E s \in Slots : IsCommitted(slots[s]) /\ slots[s].ev = e
    BY <1>0 DEF Stored
  <2>4. \A e : e \in Stored' <=> e \in Event /\ \E s \in Slots : IsCommitted(slots'[s]) /\ slots'[s].ev = e
    <3>1. \A s \in Slots : dslots'[s] = slots'[s] \/ dslots'[s] = slots[s]
      BY <1>0, <1>1
    <3>2. \A s \in Slots : \A r \in {slots'[s], dslots'[s]} :
             IsCommitted(r) => IsCommitted(slots'[s]) /\ slots'[s].ev = r.ev
      BY <2>1, <2>2, <3>1
    <3>3. QED
      BY <3>2 DEF Stored
  <2>5. \A e : e \in Stored' <=> e \in Stored \/ (x = "committed" /\ e = ev)
    BY <1>0, <2>1, <2>2, <2>3, <2>4
  <2>6. QED
    BY <2>5
<1>5. /\ \A e \in Event : e # ev => fate'[e] = fate[e]
      /\ fate'[ev] \in {"accepted", "refused"} /\ (fate'[ev] = "accepted" => x = "committed")
  BY <1>0, <1>1 DEF OInv, IInv, TypeOK
<1>6. {e \in Event : fate'[e] = "accepted"} \in
         {{e \in Event : fate[e] = "accepted"}, {e \in Event : fate[e] = "accepted"} \cup {ev}}
  BY <1>0, <1>3, <1>5
<1>7. x # "committed" => {e \in Event : fate'[e] = "accepted"} = {e \in Event : fate[e] = "accepted"}
  BY <1>0, <1>3, <1>5
<1>8. QED
  BY <1>0, <1>1, <1>3, <1>4, <1>6, <1>7 DEF Out!Append, Out!vars

(* Every step of the spool is a step of the outbox, or changes nothing.     *)
LEMMA OutboxStep == OInv /\ OInv' /\ [Next]_vars => [Out!Next]_Out!vars
<1> SUFFICES ASSUME OInv, OInv', [Next]_vars PROVE [Out!Next]_Out!vars
  OBVIOUS
<1>1. CASE UNCHANGED vars
  <2>1. UNCHANGED <<slots, dslots, delivered, unread, fate>>
    BY <1>1 DEF vars, media, history
  <2>2. QED
    BY <2>1, Zenon DEF Out!vars, Stored
<1>2. CASE AppendStep /\ pc = "append_commit"
  <2>1. ev \in Event
    BY <1>2 DEF OInv, IInv, PInv, Appending
  <2>2. Out!Append(ev) \/ UNCHANGED Out!vars
    BY <1>2, CommitStep
  <2>3. QED
    BY <2>1, <2>2 DEF Out!Next, Out!Append
<1>3. CASE Send
  <2>1. ev \in Stored /\ UNCHANGED <<slots, dslots, fate, unread>> /\ delivered' = delivered \cup {ev}
    BY <1>3, FlushedIsStored DEF Send, media, OInv, IInv, PInv, Flushing
  <2>2. Out!Deliver(ev) /\ ev \in Event
    BY <2>1 DEF Out!Deliver, Stored
  <2>3. QED
    BY <2>2 DEF Out!Next
<1>4. ASSUME NEW s \in Slots, SelectUnreadable(s)
      PROVE  Out!Next
  <2>1. /\ slots[s].ev \in Stored /\ UNCHANGED <<slots, dslots, fate, delivered>>
        /\ unread' = unread \cup {slots[s].ev}
    BY <1>4, FlushedIsStored DEF SelectUnreadable, Select, Selected, Committed, media, OInv
  <2>2. Out!GiveUp(slots[s].ev) /\ slots[s].ev \in Event
    BY <2>1 DEF Out!GiveUp, Stored
  <2>3. QED
    BY <2>2 DEF Out!Next
<1>5. CASE Next /\ ~(AppendStep /\ pc = "append_commit") /\ UNCHANGED <<delivered, unread>>
  <2>1. Stored' \subseteq Stored
    <3>1. \A s \in Slots : \A r \in Copies(s)' : IsCommitted(r) =>
             \E x \in Copies(s) : IsCommitted(x) /\ x.ev = r.ev
      BY <1>5, NextOrigin DEF Origin, OInv
    <3>2. QED
      BY <3>1 DEF Stored, Copies
  <2>2. \A e \in Event : fate'[e] = "accepted" <=> fate[e] = "accepted"
    <3> SUFFICES ASSUME NEW e \in Event, fate[e] \in {"new", "pending"} PROVE fate'[e] # "accepted"
      BY <1>5, FateFixed DEF OInv, IInv, TypeOK
    <3>1. CASE CaptureStep
      <4>1. PICK c \in Event, o \in {"pending", "dropped", "refused"} : fate' = [fate EXCEPT ![c] = o]
        BY <3>1 DEF CaptureStep, CaptureEvent, CaptureDropped, CaptureRefused, Capture
      <4>2. QED
        BY <4>1 DEF OInv, IInv, TypeOK
    <3>2. CASE AppendStep
      BY <1>5, <3>2 DEF AppendStep, AppendHeader, AppendPayload, AppendCommit, AppendFails, OInv, IInv,
                        TypeOK, history
    <3>3. CASE Crash
      BY <3>3 DEF Crash, OInv, IInv, TypeOK
    <3>4. BootStep \/ HeaderStep \/ SaveStep => fate' = fate
      BY DEF BootStep, BootStart, ScanRecord, ScanDone, InitErase, LoadBootState, BootFails, HeaderStep,
             WriteHeader, CommitHeader, SaveStep, SaveBootState, SaveBootStateFails, history
    <3>5. FlushStep => fate' = fate
      BY DEF FlushStep, FlushStart, SelectStep, SelectDone, SelectRecord, SelectNoTransport,
             SelectCorrupt, SelectUnreadable, Select, SendStep, Send, SendFails, Retry, Ack,
             ReclaimStep, ReclaimNothing, Reclaim, FlushFails, history
    <3>6. QED
      BY <1>5, <3>1, <3>2, <3>3, <3>4, <3>5 DEF Next
  <2>3. QED
    BY <1>5, <2>1, <2>2, RetireStep DEF OInv
<1>6. QED
  BY <1>1, <1>2, <1>3, <1>4, <1>5, SettledStep DEF OInv, AppendStep

(* The spool is an at-least-once outbox, for any number of events, slots,   *)
(* storage errors and power losses: a promised event leaves it only after   *)
(* delivery or a failed read, and nothing that has left comes back.         *)
THEOREM SpoolImplementsOutbox == Spec => ImplementsOutbox
<1>1. Init => OInv
  <2>1. Init => Synced /\ SettledEnded
    BY DEF Init, Synced, SettledEnded, Settled
  <2>2. QED
    BY <2>1, InitIInv DEF OInv
<1>2. OInv /\ [Next]_vars => OInv'
  BY NextKeepsOInv
<1>3. Init => Out!Init
  BY DEF Init, Out!Init, Stored, AllErased, ErasedSlot, IsCommitted, RecordValid
<1>4. OInv /\ OInv' /\ [Next]_vars => [Out!Next]_Out!vars
  BY OutboxStep
<1>5. QED
  BY <1>1, <1>2, <1>3, <1>4, PTL DEF Spec, ImplementsOutbox, Out!Spec
-----------------------------------------------------------------------------
(* A sequence_floor that has been lost stays lost. *)
LEMMA FloorStep ==
    ASSUME Next
    PROVE  floor = "lost" => floor' = "lost"
<1>1. BootStep \/ HeaderStep \/ SaveStep \/ AppendStep \/ Crash => (floor = "lost" => floor' = "lost")
  BY DEF BootStep, BootStart, ScanRecord, ScanDone, InitErase, LoadBootState, BootFails, HeaderStep,
         WriteHeader, CommitHeader, SaveStep, SaveBootState, SaveBootStateFails, AppendStep,
         AppendHeader, AppendPayload, AppendCommit, AppendFails, Crash, history
<1>2. FlushStep => (floor = "lost" => floor' = "lost")
  BY DEF FlushStep, FlushStart, SelectStep, SelectDone, SelectRecord, SelectNoTransport, SelectCorrupt,
         SelectUnreadable, Select, SendStep, Send, SendFails, Retry, Ack, ReclaimStep, ReclaimNothing,
         Reclaim, FlushFails, OpenFloor, history
<1>3. CaptureStep => (floor = "lost" => floor' = "lost")
  BY DEF CaptureStep, CaptureEvent, CaptureDropped, CaptureRefused, Capture
<1>4. QED
  BY <1>1, <1>2, <1>3 DEF Next

(* The commit of a new header is what closes the gap. *)
LEMMA FloorCommitted ==
    ASSUME Next, floor # "held", floor' = "held"
    PROVE  CommitHeader /\ floor = "open"
<1>1. BootStep \/ HeaderStep \/ SaveStep \/ AppendStep \/ Crash => CommitHeader /\ floor = "open"
  BY DEF BootStep, BootStart, ScanRecord, ScanDone, InitErase, LoadBootState, BootFails, HeaderStep,
         WriteHeader, CommitHeader, SaveStep, SaveBootState, SaveBootStateFails, AppendStep,
         AppendHeader, AppendPayload, AppendCommit, AppendFails, Crash, history
<1>2. ~FlushStep
  BY DEF FlushStep, FlushStart, SelectStep, SelectDone, SelectRecord, SelectNoTransport, SelectCorrupt,
         SelectUnreadable, Select, SendStep, Send, SendFails, Retry, Ack, ReclaimStep, ReclaimNothing,
         Reclaim, FlushFails, OpenFloor, history
<1>3. ~CaptureStep
  BY DEF CaptureStep, CaptureEvent, CaptureDropped, CaptureRefused, Capture
<1>4. QED
  BY <1>1, <1>2, <1>3 DEF Next

(* Only the end of the scan leads out of it. *)
LEMMA LeavesScan ==
    ASSUME Next, pc \in {"off", "scan"}, pc' \notin {"off", "scan"}
    PROVE  ScanDone
<1>1. BootStep \/ HeaderStep \/ SaveStep \/ AppendStep \/ Crash => ScanDone
  BY DEF BootStep, BootStart, ScanRecord, InitErase, LoadBootState, BootFails, HeaderStep,
         WriteHeader, CommitHeader, SaveStep, SaveBootState, SaveBootStateFails, AppendStep,
         AppendHeader, AppendPayload, AppendCommit, AppendFails, Crash
<1>2. ~FlushStep
  BY DEF FlushStep, FlushStart, SelectStep, SelectDone, SelectRecord, SelectNoTransport, SelectCorrupt,
         SelectUnreadable, Select, SendStep, Send, SendFails, Retry, Ack, ReclaimStep, ReclaimNothing,
         Reclaim, FlushFails
<1>3. ~CaptureStep
  BY DEF CaptureStep, CaptureEvent, CaptureDropped, CaptureRefused, Capture
<1>4. QED
  BY <1>1, <1>2, <1>3 DEF Next

(* How the boot goes on. *)
LEMMA BootSteps ==
    ASSUME Next, pc' \in BootPc
    PROVE  \/ BootStart \/ ScanRecord \/ ScanDone \/ Crash
           \/ pc \in {"init_erase", "init_header", "init_commit"}
           \/ /\ pc \in {"scan", "load", "save"} /\ pc' \in {"off", "save"}
              /\ UNCHANGED <<floor, slots, dslots>>
<1> USE DEF BootPc
<1>1. CASE BootStep
  BY <1>1 DEF BootStep, InitErase, LoadBootState, BootFails, media, history
<1>2. CASE HeaderStep \/ SaveStep
  BY <1>2 DEF HeaderStep, WriteHeader, CommitHeader, SaveStep, SaveBootState, SaveBootStateFails,
              media, history
<1>3. ~CaptureStep /\ ~AppendStep
  BY DEF CaptureStep, CaptureEvent, CaptureDropped, CaptureRefused, Capture, AppendStep,
         AppendHeader, AppendPayload, AppendCommit, AppendFails
<1>4. ~FlushStep
  BY DEF FlushStep, FlushStart, SelectStep, SelectDone, SelectRecord, SelectNoTransport, SelectCorrupt,
         SelectUnreadable, GoOnWith, SendStep, Send, SendFails, Retry, Ack, ReclaimStep, ReclaimNothing,
         Reclaim, FlushFails
<1>5. QED
  BY <1>1, <1>2, <1>3, <1>4 DEF Next

(* What the initialisation of an empty spool leaves alone. *)
LEMMA InitSteps ==
    ASSUME Next, pc \in {"init_erase", "init_header", "init_commit"}
    PROVE  /\ pc' # "scan" /\ (floor' = floor \/ floor' # "open")
           /\ pc' \in {"init_erase", "init_header", "init_commit"} => seq' = seq
<1>1. CASE BootStep
  BY <1>1 DEF BootStep, BootStart, ScanRecord, ScanDone, InitErase, LoadBootState, BootFails, history
<1>2. CASE HeaderStep \/ Crash
  BY <1>2 DEF HeaderStep, WriteHeader, CommitHeader, Crash, history
<1>3. ~CaptureStep /\ ~AppendStep /\ ~SaveStep
  BY DEF CaptureStep, CaptureEvent, CaptureDropped, CaptureRefused, Capture, AppendStep,
         AppendHeader, AppendPayload, AppendCommit, AppendFails, SaveStep, SaveBootState, SaveBootStateFails
<1>4. ~FlushStep
  BY DEF FlushStep, FlushStart, SelectStep, SelectDone, SelectRecord, SelectNoTransport, SelectCorrupt,
         SelectUnreadable, Select, SendStep, Send, SendFails, Retry, Ack, ReclaimStep, ReclaimNothing,
         Reclaim, FlushFails
<1>5. QED
  BY <1>1, <1>2, <1>3, <1>4 DEF Next

(* A power loss does not change the name of a record that is there twice. *)
LEMMA TornName ==
    ASSUME NEW d \in SlotType, NEW c \in SlotType, d.tag = c.tag, d.ev = c.ev,
           NEW r \in TornSlot(d, c)
    PROVE  r.ev = d.ev
<1>1. PICK h \in TornRecords(d, c), b \in TornBodies(d, c) : r = [h EXCEPT !.body = b]
  BY DEF TornSlot
<1>2. PICK x \in {d, c}, y \in {d, c} : h = [d EXCEPT !.st = x.st, !.retry = y.retry]
  BY DEF TornRecords
<1>3. QED
  BY <1>1, <1>2 DEF SlotType
=============================================================================
