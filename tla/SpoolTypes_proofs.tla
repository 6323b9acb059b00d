------------------------- MODULE SpoolTypes_proofs --------------------------
(***************************************************************************)
(* The inductive invariants of Spool; every step keeps the types; which    *)
(* steps change the outcomes and the captured events; what an erase and a  *)
(* torn write make of the medium.                                          *)
(***************************************************************************)
EXTENDS Spool, FiniteSetTheorems, TLAPS

Copies(s) == {slots[s], dslots[s]}
Settled == delivered \cup unread

(* Only a valid header names an event. *)
RecordsNameEvents ==
    \A s \in Slots : \A r \in Copies(s) : RecordValid(r) <=> r.ev # None

(* What the program counter says about the slot that is worked on. *)
Appending ==
    /\ pc \in {"append_header", "append_payload", "append_commit"} =>
          slot \in Slots /\ ev \in Event /\ fate[ev] = "pending"
    /\ pc = "append_header" => slots[slot].tag = "erased"
    /\ pc \in {"append_payload", "append_commit"} =>
          slots[slot].tag = "record" /\ slots[slot].ev = ev /\ slots[slot].st = "open"
    /\ pc = "append_commit" => slots[slot].body = ev /\ dslots[slot] = slots[slot]

Flushing ==
    /\ pc \in {"send", "retry", "ack"} =>
          slot \in Slots /\ IsCommitted(slots[slot]) /\ slots[slot].ev = ev
    /\ pc = "ack" => ev \in Settled

Erasing == pc = "init_erase" => \A s \in Slots : ~RecordValid(slots[s])

(* The header under a commit marker is synced, and a record that only a     *)
(* power loss could bring back has been settled.                            *)
CopiesAgree ==
    \A s \in Slots :
        /\ IsCommitted(slots[s]) => dslots[s].ev = slots[s].ev
        /\ IsCommitted(dslots[s]) /\ ~IsCommitted(slots[s]) => dslots[s].ev \in Settled

(* An event has one slot, also between the two copies of the medium. *)
OneSlotPerEvent ==
    \A s, t \in Slots : \A x \in Copies(s), y \in Copies(t) : x.ev = y.ev /\ x.ev # None => s = t

(* An event that is not being written yet is nowhere on the medium. *)
Fresh ==
    \A e \in Event : fate[e] = "new" \/ (pc = "append_header" /\ e = ev)
        => \A s \in Slots : \A r \in Copies(s) : r.ev # e

(* Only an append that has ended leaves a commit marker. *)
CommittedEnded ==
    /\ \A s \in Slots : \A r \in Copies(s) : IsCommitted(r) => fate[r.ev] \notin {"new", "pending"}
    /\ \A e \in released : fate[e] \notin {"new", "pending"}

(* The invariant of the medium, the one of the running operation, and both. *)
MInv == /\ RecordsNameEvents /\ CopiesAgree /\ OneSlotPerEvent /\ CommittedEnded
        /\ NoAcceptedLoss /\ CommittedIsComplete /\ ReleasedNeverResent

PInv == Appending /\ Flushing /\ Erasing /\ Fresh

IInv == TypeOK /\ MInv /\ PInv

(* ls_spool_append writes below the limit of the event's priority. *)
Placing == pc = "append_header" => slot < SlotLimitForPriority(info[ev].prio)

(* At the commit marker nothing on the medium waits for a sync. *)
Synced == pc = "append_commit" => dslots = slots

(* Only an event whose append has ended is sent or given up. *)
SettledEnded == \A e \in Settled : fate[e] \notin {"new", "pending"}

(* The invariants of the priority reserve and of the refinement. *)
RInv == IInv /\ ReserveHeld /\ Placing
OInv == IInv /\ Synced /\ SettledEnded

(* The points of an operation about which PInv says something. *)
Busy == {"append_header", "append_payload", "append_commit", "send", "retry", "ack", "init_erase"}
-----------------------------------------------------------------------------
(* The sequence numbers, while the counter does not come half way round.   *)

NoWrap == 2 * (InitSeq + Cardinality(Event)) < SeqMod

(* The events with a record on either copy of the medium, and those whose   *)
(* sequence the spool must remember.                                        *)
OnMedium == {e \in Event : \E s \in Slots : \E r \in Copies(s) : r.ev = e}
Known == OnMedium \cup (IF floor = "lost" THEN {} ELSE delivered)

BootPc == {"off", "scan", "init_erase", "init_header", "init_commit", "load", "save"}

(* Every number is one that a capture has handed out. *)
Bounded ==
    /\ \A n \in {seq, bootSeq, cand, header.floor, dheader.floor} : n <= InitSeq + Captured
    /\ \A e \in Event : fate[e] # "new" =>
          info[e].seq <= InitSeq + Captured /\ info[e].order <= Captured

(* The counter is ahead of the known events once the scan is over, and an   *)
(* append is ahead of all of them.                                          *)
Ahead ==
    /\ pc \notin {"off", "scan"} => \A e \in Known : info[e].seq <= seq
    /\ pc = "append_header" =>
          \A e \in Known : info[e].seq < info[ev].seq /\ info[e].order < info[ev].order
    /\ pc = "append_header" => info[ev].seq = seq

Before(e, f) == info[e].seq < info[f].seq /\ info[e].order < info[f].order

(* Sequence numbers follow the order of capture. *)
Ordered == \A e, f \in Known : e = f \/ Before(e, f) \/ Before(f, e)

(* Until ls_boot has ended, no record waits to be brought back by a power   *)
(* loss, and the scan has seen the records it has passed.                   *)
Booting ==
    /\ pc \in BootPc => floor # "open" /\ \A s \in Slots : dslots[s].ev \in {None, slots[s].ev}
    /\ pc \in {"scan", "init_erase", "init_header", "init_commit"} => seq = 0
    /\ pc = "scan" =>
          /\ HeaderValid(header) => header.floor <= cand
          /\ \A s \in Slots : s < slot /\ RecordValid(slots[s]) => info[slots[s].ev].seq <= cand
    /\ pc \in {"init_erase", "init_header", "init_commit"} => Known = {}

(* A power loss leaves the record of a delivered event, or a spool header   *)
(* that is past it.                                                         *)
Covered(e) ==
    \/ header = dheader /\ HeaderValid(header) /\ info[e].seq <= header.floor
    \/ \E s \in Slots : slots[s].ev = e /\ dslots[s].ev = e

FloorHeld ==
    /\ floor = "held" => \A e \in delivered : Covered(e)
    /\ pc \in {"reclaim_header", "reclaim_commit"} => floor # "held"
    /\ pc = "reclaim_commit" => header.floor = seq

QInv == OInv /\ Bounded /\ Ahead /\ Ordered /\ Booting /\ FloorHeld
-----------------------------------------------------------------------------
(* A sequence number stays within the width of the counter. *)
LEMMA NextSeqType ==
    ASSUME seq \in Seqs
    PROVE  NextSeq \in Seqs
BY NumberAssumption DEF NextSeq, Seqs

(* What a power loss leaves of a slot is a slot. *)
LEMMA TornSlotType ==
    ASSUME NEW d \in SlotType, NEW c \in SlotType
    PROVE  TornSlot(d, c) \subseteq SlotType
<1>1. ASSUME NEW r \in TornRecords(d, c) PROVE r \in SlotType
  <2>1. CASE d.tag = c.tag /\ d.ev = c.ev
    <3>1. PICK x \in {d, c}, y \in {d, c} : r = [d EXCEPT !.st = x.st, !.retry = y.retry]
      BY <2>1 DEF TornRecords
    <3>2. x \in SlotType /\ y \in SlotType
      OBVIOUS
    <3>3. QED
      BY <3>1, <3>2, Zenon DEF SlotType
  <2>2. CASE ~(d.tag = c.tag /\ d.ev = c.ev)
    BY <2>2, SizeAssumption DEF TornRecords, ErasedSlot, SlotType
  <2>3. QED
    BY <2>1, <2>2
<1>2. TornBodies(d, c) \subseteq Event \cup {Blank, Garbage}
  BY DEF TornBodies, SlotType
<1>3. QED
  BY <1>1, <1>2 DEF TornSlot, SlotType

(* Slot by slot, the same of the whole spool. *)
LEMMA TornSlotsType ==
    ASSUME NEW d \in [Slots -> SlotType], NEW c \in [Slots -> SlotType],
           NEW f \in TornSlots(d, c)
    PROVE  /\ f \in [Slots -> SlotType]
           /\ \A s \in Slots : f[s] \in TornSlot(d[s], c[s])
BY TornSlotType DEF TornSlots

(* The erased spool is well-typed. *)
LEMMA ErasedType ==
    ErasedSlot \in SlotType /\ AllErased \in [Slots -> SlotType] /\ ErasedHeader \in HeaderType
BY SizeAssumption, NumberAssumption
DEF ErasedSlot, AllErased, ErasedHeader, SlotType, HeaderType, Seqs

(* What a power loss leaves of the spool header is a header. *)
LEMMA TornHeaderType ==
    ASSUME NEW d \in HeaderType, NEW c \in HeaderType
    PROVE  TornHeader(d, c) \subseteq HeaderType
BY NumberAssumption DEF TornHeader, HeaderType, Seqs

(* The capture order is a number. *)
LEMMA CapturedType == Captured \in Nat
<1>1. IsFiniteSet({e \in Event : fate[e] # "new"})
  BY EventAssumption, FS_Subset
<1>2. QED
  BY <1>1, FS_CardinalityType DEF Captured

(* Programming one field of one slot. *)
LEMMA ProgramType ==
    ASSUME NEW f \in [Slots -> SlotType], NEW s \in Slots
    PROVE  /\ \A x \in {"open", "committed", "acked"} :
                 [f EXCEPT ![s].st = x] \in [Slots -> SlotType]
           /\ \A b \in Event \cup {Blank, Garbage} : [f EXCEPT ![s].body = b] \in [Slots -> SlotType]
           /\ \A n \in 0..RetryBits : [f EXCEPT ![s].retry = n] \in [Slots -> SlotType]
           /\ \A r \in SlotType : [f EXCEPT ![s] = r] \in [Slots -> SlotType]
BY DEF SlotType

(* Init establishes the type invariant. *)
LEMMA InitType == Init => TypeOK
BY ErasedType, EventAssumption, SizeAssumption, NumberAssumption
DEF Init, TypeOK, InfoType, PcType, Seqs

(* Every step preserves the type invariant; the parts of IInv that say     *)
(* which slot and which event an operation works on are needed for it.     *)
LEMMA NextType ==
    ASSUME TypeOK, RecordsNameEvents, Appending, Flushing, Next
    PROVE  TypeOK'
<1> USE SizeAssumption, NumberAssumption
<1>0. None \notin Event /\ 0 \in Seqs /\ 0 \in 0..MaxRecords
  BY EventAssumption DEF Seqs
<1>a. EndOfScope => ev' = None /\ slot' \in 0..MaxRecords /\ pass' \in 0..MaxRecords /\ cand' \in Seqs
  BY <1>0 DEF EndOfScope
<1>b. StorageError => faults' \in 0..MaxFaults
  BY DEF StorageError, TypeOK
<1>c. PartialErase => /\ slots' \in [Slots -> SlotType] /\ header' \in HeaderType
                      /\ UNCHANGED <<dslots, dheader>>
  BY ErasedType, TornSlotsType, TornHeaderType DEF PartialErase, NoSync, TypeOK
<1>d. EraseSpool => /\ slots' \in [Slots -> SlotType] /\ header' \in HeaderType
                    /\ dslots' = slots' /\ dheader' = header'
  BY ErasedType DEF EraseSpool, Sync
<1>e. NewHeader \in HeaderType
  BY DEF NewHeader, HeaderType, TypeOK
<1>f. \A h \in HeaderType : [h EXCEPT !.tag = "valid"] \in HeaderType
  BY DEF HeaderType
<1>1. CASE BootStart
  BY <1>1, <1>0 DEF BootStart, TypeOK, media, history, PcType, HeaderType
<1>2. CASE ScanRecord
  <2>1. slot \in Slots
    BY <1>2 DEF ScanRecord, TypeOK, Slots
  <2>2. RecordValid(slots[slot]) => info[slots[slot].ev].seq \in Seqs
    BY <2>1 DEF RecordsNameEvents, Copies, TypeOK, SlotType, InfoType
  <2>3. cand' \in Seqs /\ slot' \in 0..MaxRecords
    BY <1>2, <2>1, <2>2 DEF ScanRecord, TypeOK, Slots
  <2>4. QED
    BY <1>2, <2>3 DEF ScanRecord, TypeOK, media, history
<1>3. CASE ScanDone
  BY <1>3, <1>0 DEF ScanDone, TypeOK, media, history, PcType
<1>4. CASE InitErase
  BY <1>4, <1>d DEF InitErase, TypeOK, locals, history, PcType
<1>5. CASE LoadBootState
  BY <1>5, <1>a DEF LoadBootState, BootSequence, TypeOK, media, history, PcType
<1>6. CASE BootFails
  <2>1. /\ slots' \in [Slots -> SlotType] /\ header' \in HeaderType
        /\ dslots' \in [Slots -> SlotType] /\ dheader' \in HeaderType
    BY <1>6, <1>c, <1>e, <1>f, TornHeaderType DEF BootFails, TypeOK, media, NoSync
  <2>2. QED
    BY <1>6, <2>1, <1>a, <1>b DEF BootFails, TypeOK, history, PcType
<1>7. CASE WriteHeader
  BY <1>7, <1>e DEF WriteHeader, Sync, TypeOK, locals, history, PcType
<1>8. CASE CommitHeader
  BY <1>8, <1>f DEF CommitHeader, Sync, TypeOK, locals, PcType
<1>9. CASE SaveStep
  BY <1>9, <1>0, <1>b
  DEF SaveStep, SaveBootState, SaveBootStateFails, Sync, TypeOK, media, locals, history, PcType
<1>10. CASE CaptureStep
  <2>1. PICK e \in Event, p \in 0..4, o \in {"pending", "dropped", "refused"} :
           /\ Capture(e, p, o)
           /\ ev' \in Event \cup {None} /\ slot' \in 0..MaxRecords /\ pc' \in PcType
    <3>1. \A p \in 0..4 : EmptySlots(p) \subseteq 0..MaxRecords
      BY DEF EmptySlots, SlotLimitForPriority
    <3>2. QED
      BY <1>10, <3>1 DEF CaptureStep, CaptureEvent, CaptureDropped, CaptureRefused, TypeOK, PcType
  <2>2. [prio |-> p, seq |-> NextSeq, order |-> Captured + 1] \in InfoType
    BY NextSeqType, CapturedType DEF InfoType, TypeOK
  <2>3. QED
    BY <2>1, <2>2, NextSeqType DEF Capture, TypeOK, media
<1>11. CASE AppendHeader
  BY <1>11 DEF AppendHeader, NewRecord, Appending, TypeOK, SlotType, locals, history, PcType
<1>12. CASE AppendPayload
  BY <1>12 DEF AppendPayload, Sync, Appending, TypeOK, SlotType, locals, history, PcType
<1>13. CASE AppendCommit
  <2>1. slots' \in [Slots -> SlotType]
    BY <1>13, ProgramType, Zenon DEF AppendCommit, Appending, TypeOK
  <2>2. QED
    BY <1>13, <2>1, <1>a, Zenon DEF AppendCommit, Sync, TypeOK, PcType
<1>14. CASE AppendFails
  <2>1. slot \in Slots /\ ev \in Event
    BY <1>14 DEF AppendFails, Appending
  <2>2. NewRecord \in SlotType
    BY <2>1 DEF NewRecord, TypeOK, SlotType
  <2>3. slots' \in [Slots -> SlotType]
    <3>1. slots[slot] \in SlotType /\ slots[slot].body \in Event \cup {Blank, Garbage}
      BY <2>1 DEF TypeOK, SlotType
    <3>2. TornSlot(slots[slot], NewRecord) \subseteq SlotType
      BY <2>2, <3>1, TornSlotType
    <3>3. CASE \E r \in SlotType : slots' = [slots EXCEPT ![slot] = r]
      BY <2>1, <3>3, ProgramType DEF TypeOK
    <3>4. CASE \E b \in Event \cup {Blank, Garbage} : slots' = [slots EXCEPT ![slot].body = b]
      <4>1. PICK b \in Event \cup {Blank, Garbage} : slots' = [slots EXCEPT ![slot].body = b]
        BY <3>4, Zenon
      <4>2. [slots EXCEPT ![slot].body = b] \in [Slots -> SlotType]
        BY <2>1, ProgramType, Zenon DEF TypeOK
      <4>3. QED
        BY <4>1, <4>2
    <3>5. CASE \E x \in {"open", "committed"} : slots' = [slots EXCEPT ![slot].st = x]
      <4>1. PICK x \in {"open", "committed"} : slots' = [slots EXCEPT ![slot].st = x]
        BY <3>5, Zenon
      <4>2. [slots EXCEPT ![slot].st = x] \in [Slots -> SlotType]
        BY <2>1, ProgramType, Zenon DEF TypeOK
      <4>3. QED
        BY <4>1, <4>2
    <3>6. QED
      BY <1>14, <2>1, <3>1, <3>2, <3>3, <3>4, <3>5 DEF AppendFails
  <2>4. QED
    BY <1>14, <2>3, <1>a, <1>b, Zenon DEF AppendFails, TypeOK, PcType
<1>15. CASE FlushStart
  BY <1>15, <1>0 DEF FlushStart, TypeOK, media, history, PcType
<1>16. CASE SelectStep
  <2>1. CASE SelectDone
    BY <2>1, <1>a DEF SelectDone, TypeOK, media, history, PcType
  <2>2. ASSUME NEW s \in Slots,
               SelectRecord(s) \/ SelectNoTransport(s) \/ SelectCorrupt(s) \/ SelectUnreadable(s)
        PROVE  TypeOK'
    <3>1. slots[s].ev \in Event
      BY <2>2 DEF SelectRecord, SelectNoTransport, SelectCorrupt, SelectUnreadable, Select, Selected,
                  Committed, IsCommitted, RecordsNameEvents, Copies, TypeOK, SlotType
    <3>2. /\ ev' \in Event \cup {None} /\ slot' \in 0..MaxRecords /\ pass' \in 0..MaxRecords
          /\ cand' \in Seqs /\ pc' \in PcType
      BY <2>2, <3>1, <1>a
      DEF SelectRecord, SelectNoTransport, SelectCorrupt, SelectUnreadable, Select, GoOnWith,
          TypeOK, PcType, Slots
    <3>3. QED
      BY <2>2, <3>1, <3>2, <1>b
      DEF SelectRecord, SelectNoTransport, SelectCorrupt, SelectUnreadable, Select, TypeOK, media
  <2>3. QED
    BY <1>16, <2>1, <2>2 DEF SelectStep
<1>17. CASE SendStep
  <2>1. slot \in Slots /\ ev \in Event
    BY <1>17 DEF SendStep, Send, SendFails, Retry, Ack, Flushing, IsCommitted, RecordsNameEvents,
                 Copies, TypeOK, SlotType
  <2>2. CASE Send \/ SendFails
    BY <2>1, <2>2 DEF Send, SendFails, TypeOK, media, locals, history, PcType
  <2>3. CASE Retry
    <3>1. RetryBitLeft => slots[slot].retry + 1 \in 0..RetryBits
      BY <2>1 DEF RetryBitLeft, TypeOK, SlotType
    <3>2. slots' \in [Slots -> SlotType]
      <4>1. CASE RetryBitLeft
        <5>1. slots' = [slots EXCEPT ![slot].retry = slots[slot].retry + 1]
          BY <2>3, <4>1 DEF Retry
        <5>2. QED
          BY <2>1, <3>1, <4>1, <5>1, ProgramType, Zenon DEF TypeOK
      <4>2. CASE ~RetryBitLeft
        BY <2>3, <4>2 DEF Retry, TypeOK, media
      <4>3. QED
        BY <4>1, <4>2
    <3>3. QED
      BY <2>3, <3>2, <1>a DEF Retry, Sync, TypeOK, media, history, PcType
  <2>4. CASE Ack
    <3>1. slots' \in [Slots -> SlotType]
      BY <2>1, <2>4, ProgramType, Zenon DEF Ack, TypeOK
    <3>2. QED
      BY <2>1, <2>4, <3>1 DEF Ack, Sync, TypeOK, locals, PcType
  <2>5. QED
    BY <1>17, <2>2, <2>3, <2>4 DEF SendStep
<1>18. CASE ReclaimStep
  BY <1>18, <1>d DEF ReclaimStep, ReclaimNothing, Reclaim, OpenFloor, TypeOK, media, locals, history, PcType
<1>19. CASE FlushFails
  <2>1. pc \in {"retry", "ack"} => slot \in Slots
    BY DEF Flushing
  <2>2. /\ slots' \in [Slots -> SlotType] /\ header' \in HeaderType
        /\ dslots' \in [Slots -> SlotType] /\ dheader' \in HeaderType
    BY <1>19, <2>1, <1>c, <1>e, <1>f, TornHeaderType, SMTT(20)
    DEF FlushFails, RetryBitLeft, NoSync, TypeOK, SlotType, media
  <2>3. floor' \in {"held", "open", "lost"}
    BY <1>19 DEF FlushFails, OpenFloor, TypeOK
  <2>4. QED
    BY <1>19, <2>2, <2>3, <1>a, <1>b DEF FlushFails, TypeOK, PcType
<1>20. CASE Crash
  <2>1. slots' \in [Slots -> SlotType] /\ header' \in HeaderType
    BY <1>20, TornSlotsType, TornHeaderType DEF Crash, TypeOK
  <2>2. QED
    BY <1>20, <2>1, <1>0, <1>a DEF Crash, TypeOK, PcType
<1>21. QED
  BY <1>1, <1>2, <1>3, <1>4, <1>5, <1>6, <1>7, <1>8, <1>9, <1>10, <1>11, <1>12, <1>13, <1>14,
     <1>15, <1>16, <1>17, <1>18, <1>19, <1>20
  DEF Next, BootStep, HeaderStep, AppendStep, FlushStep
-----------------------------------------------------------------------------
(* What a step changes, and what it leaves alone.                          *)

(* Priority and sequence of an event are fixed when it is captured. *)
LEMMA InfoFixed ==
    ASSUME IInv, Next, NEW e \in Event, fate[e] # "new"
    PROVE  info'[e] = info[e]
<1>1. CASE CaptureStep
  BY <1>1 DEF CaptureStep, CaptureEvent, CaptureDropped, CaptureRefused, Capture, IInv, TypeOK
<1>2. BootStep \/ HeaderStep \/ SaveStep \/ AppendStep \/ Crash => info' = info
  BY DEF BootStep, BootStart, ScanRecord, ScanDone, InitErase, LoadBootState, BootFails, HeaderStep,
         WriteHeader, CommitHeader, SaveStep, SaveBootState, SaveBootStateFails, AppendStep,
         AppendHeader, AppendPayload, AppendCommit, AppendFails, Crash, history
<1>3. FlushStep => info' = info
  BY DEF FlushStep, FlushStart, SelectStep, SelectDone, SelectRecord, SelectNoTransport, SelectCorrupt,
         SelectUnreadable, Select, SendStep, Send, SendFails, Retry, Ack, ReclaimStep, ReclaimNothing,
         Reclaim, FlushFails, history
<1>4. QED
  BY <1>1, <1>2, <1>3 DEF Next

(* The outcome of an append does not change any more. *)
LEMMA FateFixed ==
    ASSUME IInv, Next, NEW e \in Event, fate[e] \notin {"new", "pending"}
    PROVE  fate'[e] = fate[e]
<1>1. CASE CaptureStep
  BY <1>1 DEF CaptureStep, CaptureEvent, CaptureDropped, CaptureRefused, Capture, IInv, TypeOK
<1>2. CASE AppendStep
  <2>1. fate[ev] = "pending" /\ (fate' = fate \/ \E x : fate' = [fate EXCEPT ![ev] = x])
    BY <1>2 DEF AppendStep, AppendHeader, AppendPayload, AppendCommit, AppendFails, IInv, PInv,
                Appending, history
  <2>2. QED
    BY <2>1 DEF IInv, TypeOK
<1>3. CASE Crash
  BY <1>3 DEF Crash, IInv, TypeOK
<1>4. BootStep \/ HeaderStep \/ SaveStep => fate' = fate
  BY DEF BootStep, BootStart, ScanRecord, ScanDone, InitErase, LoadBootState, BootFails, HeaderStep,
         WriteHeader, CommitHeader, SaveStep, SaveBootState, SaveBootStateFails, history
<1>5. FlushStep => fate' = fate
  BY DEF FlushStep, FlushStart, SelectStep, SelectDone, SelectRecord, SelectNoTransport, SelectCorrupt,
         SelectUnreadable, Select, SendStep, Send, SendFails, Retry, Ack, ReclaimStep, ReclaimNothing,
         Reclaim, FlushFails, history
<1>6. QED
  BY <1>1, <1>2, <1>3, <1>4, <1>5 DEF Next

(* An append starts in ls_capture_event and nowhere else. *)
LEMMA AppendStarts ==
    ASSUME Next, pc' = "append_header"
    PROVE  \E e \in Event, p \in Priority : CaptureEvent(e, p)
<1>1. BootStep \/ HeaderStep \/ SaveStep \/ AppendStep \/ Crash => pc' # "append_header"
  BY DEF BootStep, BootStart, ScanRecord, ScanDone, InitErase, LoadBootState, BootFails, HeaderStep,
         WriteHeader, CommitHeader, SaveStep, SaveBootState, SaveBootStateFails, AppendStep,
         AppendHeader, AppendPayload, AppendCommit, AppendFails, Crash
<1>2. FlushStep => pc' # "append_header"
  BY DEF FlushStep, FlushStart, SelectStep, SelectDone, SelectRecord, SelectNoTransport, SelectCorrupt,
         SelectUnreadable, GoOnWith, SendStep, Send, SendFails, Retry, Ack, ReclaimStep,
         ReclaimNothing, Reclaim, FlushFails
<1>3. CaptureStep => \/ \E e \in Event, p \in Priority : CaptureEvent(e, p)
                     \/ pc = "idle" /\ pc' = pc
  <2>1. \A e, p : CaptureDropped(e, p) => pc = "idle" /\ pc' = pc
    BY DEF CaptureDropped, Capture
  <2>2. \A e : CaptureRefused(e) => pc = "idle" /\ pc' = pc
    BY DEF CaptureRefused, Capture
  <2>3. QED
    BY <2>1, <2>2, Zenon DEF CaptureStep
<1>4. QED
  BY <1>1, <1>2, <1>3 DEF Next

(* The captured events are some of the events. *)
LEMMA CapturedBound ==
    /\ Cardinality(Event) \in Nat
    /\ Captured \in Nat /\ Captured <= Cardinality(Event)
    /\ Captured' \in Nat /\ Captured' <= Cardinality(Event)
<1>1. {e \in Event : fate[e] # "new"} \subseteq Event /\ {e \in Event : fate'[e] # "new"} \subseteq Event
  OBVIOUS
<1>2. QED
  BY <1>1, EventAssumption, FS_Subset, FS_CardinalityType DEF Captured

(* The largest number that can be handed out. *)
Top == InitSeq + Cardinality(Event)

(* Below the modulus, the remainder is the number itself. *)
LEMMA SmallRemainder ==
    ASSUME NEW m \in Nat, NEW x \in Int, 0 <= x, x < m
    PROVE  x % m = x
BY SMT

(* Below zero it comes from the other end. *)
LEMMA NegativeRemainder ==
    ASSUME NEW m \in Nat, NEW x \in Int, x < 0, 0 < x + m
    PROVE  x % m = x + m
BY SMT

(* Without a wrap, generation_is_newer compares the numbers themselves. *)
LEMMA SerialOrder ==
    ASSUME NoWrap, NEW a \in Nat, NEW b \in Nat, a <= Top, b <= Top
    PROVE  GenerationIsNewer(a, b) <=> b < a
<1>1. Top \in Nat /\ 2 * Top < SeqMod /\ SeqMod \in Nat
  BY CapturedBound, NumberAssumption DEF NoWrap, Top
<1>2. CASE b <= a
  <2>1. (a - b) % SeqMod = a - b
    BY <1>1, <1>2, SmallRemainder
  <2>2. QED
    BY <1>1, <1>2, <2>1 DEF GenerationIsNewer
<1>3. CASE a < b
  <2>1. (a - b) % SeqMod = a - b + SeqMod
    BY <1>1, <1>3, NegativeRemainder
  <2>2. QED
    BY <1>1, <1>3, <2>1 DEF GenerationIsNewer
<1>4. QED
  BY <1>2, <1>3

(* Only a capture takes an event from the new ones. *)
LEMMA NewKept ==
    ASSUME IInv, Next, ~CaptureStep, NEW e \in Event
    PROVE  fate'[e] = "new" <=> fate[e] = "new"
<1>1. CASE AppendStep
  <2>1. /\ fate[ev] = "pending"
        /\ fate' = fate \/ \E x \in {"accepted", "refused"} : fate' = [fate EXCEPT ![ev] = x]
    BY <1>1 DEF AppendStep, AppendHeader, AppendPayload, AppendCommit, AppendFails, IInv, PInv,
                Appending, history
  <2>2. QED
    BY <2>1 DEF IInv, TypeOK
<1>2. CASE Crash
  BY <1>2 DEF Crash, IInv, TypeOK
<1>3. BootStep \/ HeaderStep \/ SaveStep => fate' = fate
  BY DEF BootStep, BootStart, ScanRecord, ScanDone, InitErase, LoadBootState, BootFails, HeaderStep,
         WriteHeader, CommitHeader, SaveStep, SaveBootState, SaveBootStateFails, history
<1>4. FlushStep => fate' = fate
  BY DEF FlushStep, FlushStart, SelectStep, SelectDone, SelectRecord, SelectNoTransport, SelectCorrupt,
         SelectUnreadable, Select, SendStep, Send, SendFails, Retry, Ack, ReclaimStep, ReclaimNothing,
         Reclaim, FlushFails, history
<1>5. QED
  BY <1>1, <1>2, <1>3, <1>4 DEF Next

(* So a capture, and nothing else, raises their number. *)
LEMMA CapturedStep ==
    ASSUME IInv, Next
    PROVE  /\ Captured' \in Nat /\ Captured <= Captured'
           /\ ~CaptureStep => Captured' = Captured
           /\ CaptureStep => Captured' = Captured + 1
<1> DEFINE Old == {e \in Event : fate[e] # "new"}
           New == {e \in Event : fate'[e] # "new"}
<1>1. CASE ~CaptureStep
  <2>1. \A e \in Event : fate'[e] = "new" <=> fate[e] = "new"
    BY <1>1, NewKept
  <2>2. New = Old
    BY <2>1
  <2>3. QED
    BY <1>1, <2>2, CapturedBound DEF Captured
<1>2. CASE CaptureStep
  <2>1. PICK e \in Event, o \in {"pending", "dropped", "refused"} :
           fate[e] = "new" /\ fate' = [fate EXCEPT ![e] = o]
    BY <1>2 DEF CaptureStep, CaptureEvent, CaptureDropped, CaptureRefused, Capture
  <2>2. e \notin Old /\ New = Old \cup {e}
    BY <2>1 DEF IInv, TypeOK
  <2>3. IsFiniteSet(Old)
    BY EventAssumption, FS_Subset
  <2>4. Cardinality(New) = Cardinality(Old) + 1
    BY <2>2, <2>3, FS_AddElement
  <2>5. QED
    BY <1>2, <2>4, CapturedBound DEF Captured
<1>3. QED
  BY <1>1, <1>2
-----------------------------------------------------------------------------
(* What a power loss can make of a slot: it names no other event than       *)
(* before, carries a commit marker only if one copy did, and keeps what     *)
(* both copies agree on.                                                    *)
LEMMA TornSlotFacts ==
    ASSUME NEW d \in SlotType, NEW c \in SlotType, NEW r \in TornSlot(d, c),
           RecordValid(d) <=> d.ev # None, RecordValid(c) <=> c.ev # None
    PROVE  /\ RecordValid(r) <=> r.ev # None
           /\ r.ev \in {None, d.ev, c.ev}
           /\ IsCommitted(r) => \E x \in {d, c} : IsCommitted(x) /\ x.ev = r.ev
           /\ d.body = c.body => r.body = d.body
           /\ IsCommitted(d) /\ IsCommitted(c) /\ d.ev = c.ev => IsCommitted(r) /\ r.ev = d.ev
<1>1. PICK h \in TornRecords(d, c), b \in TornBodies(d, c) : r = [h EXCEPT !.body = b]
  BY DEF TornSlot
<1>2. h \in SlotType
  <2>1. CASE d.tag = c.tag /\ d.ev = c.ev
    <3>1. PICK x \in {d, c}, y \in {d, c} : h = [d EXCEPT !.st = x.st, !.retry = y.retry]
      BY <2>1 DEF TornRecords
    <3>2. QED
      BY <3>1, Zenon DEF SlotType
  <2>2. CASE ~(d.tag = c.tag /\ d.ev = c.ev)
    BY <2>2, SizeAssumption DEF TornRecords, ErasedSlot, SlotType
  <2>3. QED
    BY <2>1, <2>2
<1>3. r.tag = h.tag /\ r.ev = h.ev /\ r.st = h.st /\ r.body = b
  BY <1>1, <1>2 DEF SlotType
<1>4. d.body = c.body => r.body = d.body
  BY <1>1, <1>3 DEF TornBodies
<1>5. CASE d.tag = c.tag /\ d.ev = c.ev
  <2>1. PICK x \in {d, c}, y \in {d, c} : h = [d EXCEPT !.st = x.st, !.retry = y.retry]
    BY <1>5 DEF TornRecords
  <2>2. h.tag = d.tag /\ h.ev = d.ev /\ h.st = x.st
    BY <2>1 DEF SlotType
  <2>3. QED
    BY <1>3, <1>4, <1>5, <2>1, <2>2 DEF IsCommitted, RecordValid
<1>6. CASE ~(d.tag = c.tag /\ d.ev = c.ev)
  <2>1. CASE h \in {d, c}
    BY <1>3, <1>4, <1>6, <2>1 DEF IsCommitted, RecordValid
  <2>2. CASE h = [ErasedSlot EXCEPT !.tag = "torn"]
    <3>1. h.tag = "torn" /\ h.ev = None
      BY <2>2 DEF ErasedSlot
    <3>2. QED
      BY <1>3, <1>4, <1>6, <3>1 DEF IsCommitted, RecordValid
  <2>3. QED
    BY <1>1, <1>6, <2>1, <2>2 DEF TornRecords
<1>7. QED
  BY <1>5, <1>6

(* A step that programs no slot, whether it syncs or not. *)
LEMMA MediumKept ==
    ASSUME TypeOK, MInv, slots' = slots, dslots' = dslots \/ dslots' = slots,
           delivered \subseteq delivered', unread \subseteq unread',
           fate' = fate, released' = released
    PROVE  MInv'
<1> USE DEF MInv, Copies
<1>1. RecordsNameEvents'
  BY DEF RecordsNameEvents
<1>2. CopiesAgree'
  BY DEF CopiesAgree, Settled
<1>3. OneSlotPerEvent'
  BY DEF OneSlotPerEvent
<1>4. CommittedEnded'
  BY DEF CommittedEnded
<1>5. NoAcceptedLoss'
  BY DEF NoAcceptedLoss, Safe
<1>6. CommittedIsComplete'
  BY DEF CommittedIsComplete
<1>7. ReleasedNeverResent'
  BY DEF ReleasedNeverResent
<1>8. QED
  BY <1>1, <1>2, <1>3, <1>4, <1>5, <1>6, <1>7

(* An erase of a spool with nothing committed loses nothing. *)
LEMMA MediumErased ==
    ASSUME TypeOK, MInv, Committed = {}, slots' = AllErased, dslots' = AllErased,
           UNCHANGED <<delivered, unread, fate, released>>
    PROVE  MInv'
<1> USE DEF MInv, Copies
<1>0. \A s \in Slots : /\ slots'[s].tag = "erased" /\ dslots'[s].tag = "erased"
                       /\ slots'[s].ev = None /\ dslots'[s].ev = None
                       /\ ~IsCommitted(slots[s])
  BY DEF AllErased, ErasedSlot, Committed
<1>1. RecordsNameEvents'
  BY <1>0 DEF RecordsNameEvents, RecordValid
<1>2. CopiesAgree'
  BY <1>0 DEF CopiesAgree, IsCommitted, RecordValid
<1>3. OneSlotPerEvent'
  BY <1>0 DEF OneSlotPerEvent
<1>4. CommittedEnded'
  BY <1>0 DEF CommittedEnded, IsCommitted, RecordValid
<1>5. NoAcceptedLoss'
  BY <1>0 DEF NoAcceptedLoss, Safe
<1>6. CommittedIsComplete'
  BY <1>0 DEF CommittedIsComplete, IsCommitted, RecordValid
<1>7. ReleasedNeverResent'
  BY <1>0 DEF ReleasedNeverResent, IsCommitted, RecordValid
<1>8. QED
  BY <1>1, <1>2, <1>3, <1>4, <1>5, <1>6, <1>7

(* Neither does one that is cut short. *)
LEMMA MediumPartlyErased ==
    ASSUME TypeOK, MInv, Committed = {}, PartialErase,
           UNCHANGED <<delivered, unread, fate, released>>
    PROVE  MInv'
<1> USE DEF MInv, Copies
<1>0. \A s \in Slots : /\ RecordValid(slots'[s]) <=> slots'[s].ev # None
                       /\ slots'[s].ev \in {None, slots[s].ev}
                       /\ ~IsCommitted(slots'[s]) /\ ~IsCommitted(slots[s])
                       /\ dslots'[s] = dslots[s]
  <2> TAKE s \in Slots
  <2>1. slots'[s] \in TornSlot(slots[s], ErasedSlot) /\ dslots' = dslots
    BY ErasedType, TornSlotsType DEF PartialErase, NoSync, TypeOK, AllErased
  <2>2. RecordValid(ErasedSlot) <=> ErasedSlot.ev # None
    BY DEF ErasedSlot, RecordValid
  <2>3. ErasedSlot.ev = None /\ ~IsCommitted(ErasedSlot) /\ ~IsCommitted(slots[s])
    BY DEF ErasedSlot, IsCommitted, RecordValid, Committed
  <2>4. slots[s] \in SlotType /\ (RecordValid(slots[s]) <=> slots[s].ev # None)
    BY DEF TypeOK, RecordsNameEvents
  <2>5. QED
    BY <2>1, <2>2, <2>3, <2>4, ErasedType, TornSlotFacts
<1>1. RecordsNameEvents'
  BY <1>0 DEF RecordsNameEvents
<1>2. CopiesAgree'
  BY <1>0 DEF CopiesAgree, Settled
<1>3. OneSlotPerEvent'
  BY <1>0 DEF OneSlotPerEvent
<1>4. CommittedEnded'
  BY <1>0 DEF CommittedEnded
<1>5. NoAcceptedLoss'
  BY <1>0 DEF NoAcceptedLoss, Safe
<1>6. CommittedIsComplete'
  BY <1>0 DEF CommittedIsComplete, CopiesAgree, Settled
<1>7. ReleasedNeverResent'
  BY <1>0 DEF ReleasedNeverResent
<1>8. QED
  BY <1>1, <1>2, <1>3, <1>4, <1>5, <1>6, <1>7

(* An erase that is cut short names no new event. *)
LEMMA PartialEraseNames ==
    ASSUME TypeOK, RecordsNameEvents, PartialErase
    PROVE  \A s \in Slots : \A r \in Copies(s)' : r.ev = None \/ \E x \in Copies(s) : r.ev = x.ev
<1> TAKE s \in Slots
<1>1. slots'[s] \in TornSlot(slots[s], ErasedSlot) /\ dslots' = dslots
  BY ErasedType, TornSlotsType DEF PartialErase, NoSync, TypeOK, AllErased
<1>2. ErasedSlot.ev = None /\ ~RecordValid(ErasedSlot)
  BY DEF ErasedSlot, RecordValid
<1>3. slots[s] \in SlotType /\ (RecordValid(slots[s]) <=> slots[s].ev # None)
  BY DEF TypeOK, RecordsNameEvents, Copies
<1>4. slots'[s].ev \in {None, slots[s].ev}
  BY <1>1, <1>2, <1>3, ErasedType, TornSlotFacts
<1>5. QED
  BY <1>1, <1>4 DEF Copies
=============================================================================
