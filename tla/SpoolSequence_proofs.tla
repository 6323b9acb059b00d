------------------------ MODULE SpoolSequence_proofs ------------------------
(***************************************************************************)
(* Proofs about the sequence numbers of Spool, for a device whose counter  *)
(* does not come half way round in its life (NoWrap).                      *)
(***************************************************************************)
EXTENDS Spool_proofs

-----------------------------------------------------------------------------
(* The known events.                                                       *)

(* A known event has been captured, and is not the one being appended.      *)
LEMMA KnownCaptured ==
    ASSUME OInv, NEW e \in Known
    PROVE  e \in Event /\ fate[e] # "new" /\ ~(pc = "append_header" /\ e = ev)
<1>1. CASE e \in OnMedium
  BY <1>1 DEF OnMedium, OInv, IInv, PInv, Fresh
<1>2. CASE e \in delivered
  BY <1>2 DEF OInv, SettledEnded, Settled, IInv, TypeOK, PInv, Appending
<1>3. QED
  BY <1>1, <1>2 DEF Known

(* Only the running append makes another event known. *)
LEMMA KnownStep ==
    ASSUME OInv, OInv', Next, NEW e \in Known'
    PROVE  e \in Known \/ (pc = "append_header" /\ e = ev)
<1>1. CASE e \in OnMedium'
  <2>0. PICK s \in Slots : \E r \in Copies(s)' : r.ev = e
    BY <1>1 DEF OnMedium
  <2>1. PICK r \in Copies(s)' : r.ev = e
    BY <2>0
  <2>2. e \in Event /\ e # None
    BY <1>1, EventAssumption DEF OnMedium
  <2>3. Origin(s, r)
    BY <2>1, NextOrigin DEF OInv
  <2>4. (\E x \in Copies(s) : x.ev = e) \/ (pc = "append_header" /\ e = ev)
    BY <2>1, <2>2, <2>3 DEF Origin
  <2>5. QED
    BY <2>2, <2>4 DEF Known, OnMedium
<1>2. CASE e \in delivered' /\ floor' # "lost"
  <2>1. floor # "lost"
    BY <1>2, FloorStep
  <2>2. CASE e \in delivered
    BY <2>1, <2>2 DEF Known
  <2>3. CASE Send /\ e = ev
    <3>1. slot \in Slots /\ slots[slot].ev = e /\ e \in Event
      BY <1>2, <2>3 DEF Send, OInv, IInv, PInv, Flushing, TypeOK
    <3>2. QED
      BY <3>1 DEF Known, OnMedium, Copies
  <2>4. delivered' = delivered \/ (Send /\ delivered' = delivered \cup {ev})
    BY SettledStep DEF OInv, Send
  <2>5. QED
    BY <1>2, <2>2, <2>3, <2>4
<1>3. QED
  BY <1>1, <1>2 DEF Known

(* The sequence of a captured event is a number within bounds. *)
LEMMA InfoBound ==
    ASSUME IInv, Bounded, NEW e \in Event, fate[e] # "new"
    PROVE  info[e].seq \in Nat /\ info[e].order \in Nat /\ info[e].seq <= Top
<1>1. info[e].seq \in Seqs /\ info[e].order \in Nat
  BY DEF IInv, TypeOK, InfoType
<1>2. QED
  BY <1>1, CapturedBound, NumberAssumption DEF Bounded, Top, Seqs

(* The numbers in use stay within bounds, and the counter does not wrap. *)
LEMMA NextSeqNoWrap ==
    ASSUME NoWrap, IInv, Bounded, CaptureStep
    PROVE  NextSeq = seq + 1 /\ seq \in Nat /\ NextSeq <= InitSeq + Captured'
<1>1. Captured' = Captured + 1 /\ Captured' <= Cardinality(Event) /\ Captured \in Nat
  BY CapturedStep, CapturedBound DEF Next
<1>2. seq \in Nat /\ seq <= InitSeq + Captured
  BY DEF Bounded, IInv, TypeOK, Seqs
<1>3. seq + 1 < SeqMod
  BY <1>1, <1>2, CapturedBound, NumberAssumption DEF NoWrap
<1>4. QED
  BY <1>1, <1>2, <1>3, SmallRemainder, NumberAssumption DEF NextSeq
-----------------------------------------------------------------------------
(* The conjuncts of QInv, one after the other.                             *)

(* The numbers that are kept, in RAM or on the medium. *)
Kept == {seq, bootSeq, cand, header.floor, dheader.floor}

(* No step makes up a number: it is one that was there, zero, the one a     *)
(* capture takes, or one the scan finds in a record.                        *)
LEMMA KeptStep ==
    ASSUME IInv, Next, NEW n \in Kept'
    PROVE  \/ n \in Kept \cup {0}
           \/ CaptureStep /\ n = NextSeq
           \/ \E e \in Event : fate[e] # "new" /\ n = info[e].seq
<1>0. header \in HeaderType /\ dheader \in HeaderType /\ ErasedHeader.floor = 0 /\ NewHeader.floor = seq
  BY DEF IInv, TypeOK, ErasedHeader, NewHeader
<1>a. /\ \A d, c : \A h \in TornHeader(d, c) : h.floor \in {0, d.floor, c.floor}
      /\ [header EXCEPT !.tag = "valid"].floor = header.floor
  BY <1>0 DEF TornHeader, HeaderType
<1>1. CASE ScanRecord
  <2>1. CASE cand' = cand
    BY <1>1, <2>1 DEF ScanRecord, Kept, media
  <2>2. CASE cand' = info[slots[slot].ev].seq /\ RecordValid(slots[slot])
    <3>1. slot \in Slots
      BY <1>1, SizeAssumption DEF ScanRecord, IInv, TypeOK, Slots
    <3>2. slots[slot].ev \in Event
      BY <2>2, <3>1 DEF IInv, TypeOK, SlotType, MInv, RecordsNameEvents, Copies
    <3>3. fate[slots[slot].ev] # "new"
      BY <3>1, <3>2 DEF IInv, PInv, Fresh, Copies
    <3>4. QED
      BY <1>1, <2>2, <3>2, <3>3 DEF ScanRecord, Kept, media
  <2>3. QED
    BY <1>1, <2>1, <2>2 DEF ScanRecord
<1>2. CASE BootStart \/ ScanDone \/ InitErase \/ LoadBootState
  BY <1>2, <1>0 DEF BootStart, ScanDone, InitErase, LoadBootState, BootSequence, EndOfScope,
                    EraseSpool, Sync, Kept, media, locals
<1>3. CASE BootFails \/ FlushFails
  <2>1. UNCHANGED <<dheader, bootSeq, seq>> /\ cand' = 0
    BY <1>3 DEF BootFails, FlushFails, PartialErase, NoSync, EndOfScope, media
  <2>2. \/ header' \in {header, [header EXCEPT !.tag = "valid"]}
        \/ header' \in TornHeader(header, ErasedHeader) \/ header' \in TornHeader(header, NewHeader)
    BY <1>3 DEF BootFails, FlushFails, PartialErase, media
  <2>3. header'.floor \in {0, header.floor, seq}
    BY <1>0, <1>a, <2>2
  <2>4. QED
    BY <2>1, <2>3 DEF Kept
<1>4. CASE HeaderStep \/ SaveStep
  BY <1>4, <1>0, <1>a DEF HeaderStep, WriteHeader, CommitHeader, SaveStep, SaveBootState,
                          SaveBootStateFails, Sync, Kept, media, locals
<1>5. CASE CaptureStep
  BY <1>5 DEF CaptureStep, CaptureEvent, CaptureDropped, CaptureRefused, Capture, Kept, media
<1>6. CASE AppendStep
  BY <1>6 DEF AppendStep, AppendHeader, AppendPayload, AppendCommit, AppendFails, EndOfScope, Sync,
              Kept, locals
<1>7. CASE FlushStart \/ SelectStep
  BY <1>7 DEF FlushStart, SelectStep, SelectDone, SelectRecord, SelectNoTransport, SelectCorrupt,
              SelectUnreadable, Select, GoOnWith, EndOfScope, Kept, media
<1>8. CASE SendStep \/ ReclaimStep
  BY <1>8, <1>0 DEF SendStep, Send, SendFails, Retry, Ack, ReclaimStep, ReclaimNothing, Reclaim,
                    EraseSpool, EndOfScope, Sync, Kept, media, locals
<1>9. CASE Crash
  BY <1>9, <1>a DEF Crash, EndOfScope, Kept
<1>10. QED
  BY <1>1, <1>2, <1>3, <1>4, <1>5, <1>6, <1>7, <1>8, <1>9 DEF Next, BootStep, FlushStep

(* No number is past InitSeq plus the captures so far, which NoWrap keeps  *)
(* below half of the counter.                                              *)
LEMMA NextBounded ==
    ASSUME NoWrap, IInv, Bounded, Next
    PROVE  Bounded'
<1>0. InitSeq \in Nat /\ Captured \in Nat /\ Captured' \in Nat /\ Captured <= Captured'
  BY CapturedBound, CapturedStep, NumberAssumption
<1>a. \A n \in Nat : n <= InitSeq + Captured => n <= InitSeq + Captured'
  <2>1. \A i, c, d, n \in Nat : c <= d /\ n <= i + c => n <= i + d
    OBVIOUS
  <2>2. QED
    BY <1>0, <2>1, Zenon
<1>1. ASSUME NEW n \in Kept' PROVE n <= InitSeq + Captured'
  <2>1. CASE n \in Kept \cup {0}
    <3>1. n \in Nat /\ n <= InitSeq + Captured
      BY <1>0, <2>1 DEF Kept, Bounded, IInv, TypeOK, Seqs, HeaderType
    <3>2. QED
      BY <1>a, <3>1, Zenon
  <2>2. CASE CaptureStep /\ n = NextSeq
    BY <2>2, NextSeqNoWrap
  <2>3. ASSUME NEW e \in Event, fate[e] # "new", n = info[e].seq
        PROVE  n <= InitSeq + Captured'
    <3>1. n \in Nat /\ n <= InitSeq + Captured
      BY <2>3, InfoBound DEF Bounded
    <3>2. QED
      BY <1>a, <3>1, Zenon
  <2>4. QED
    BY <2>1, <2>2, <2>3, KeptStep
<1>2. ASSUME NEW e \in Event, fate'[e] # "new"
      PROVE  info'[e].seq <= InitSeq + Captured' /\ info'[e].order <= Captured'
  <2>1. CASE fate[e] # "new"
    <3>1. /\ info[e].seq \in Nat /\ info[e].order \in Nat /\ info'[e] = info[e]
          /\ info[e].seq <= InitSeq + Captured /\ info[e].order <= Captured
      BY <2>1, InfoBound, InfoFixed DEF Bounded
    <3>2. QED
      BY <1>0, <3>1
  <2>2. CASE fate[e] = "new"
    <3>1. CaptureStep
      <4>1. ~CaptureStep => fate'[e] = "new"
        BY <2>2, NewKept
      <4>2. QED
        BY <1>2, <4>1
    <3>2. info'[e].seq = NextSeq /\ info'[e].order = Captured + 1
      BY <1>2, <2>2, <3>1 DEF CaptureStep, CaptureEvent, CaptureDropped, CaptureRefused, Capture, IInv, TypeOK
    <3>3. QED
      BY <3>1, <3>2, NextSeqNoWrap, CapturedStep
  <2>3. QED
    BY <2>1, <2>2
<1>3. QED
  BY <1>1, <1>2 DEF Bounded, Kept

(* Sequence and capture order of a known event do not change, and are       *)
(* numbers.                                                                 *)
LEMMA KnownInfo ==
    ASSUME OInv, Bounded, Next, NEW e \in Event,
           e \in Known \/ (pc = "append_header" /\ e = ev)
    PROVE  /\ info'[e] = info[e] /\ fate[e] # "new"
           /\ info[e].seq \in Nat /\ info[e].order \in Nat
           /\ info[e].seq <= Top /\ info[e].order <= Captured
<1>1. fate[e] # "new"
  BY KnownCaptured DEF OInv, IInv, PInv, Appending
<1>2. QED
  BY <1>1, InfoFixed, InfoBound DEF OInv, Bounded

(* Of two records known to the spool, the one captured earlier has the     *)
(* smaller number: append order is capture order.                          *)
LEMMA NextOrdered ==
    ASSUME OInv, OInv', Bounded, Ahead, Ordered, Next
    PROVE  Ordered'
<1> SUFFICES ASSUME NEW e \in Known', NEW f \in Known', e # f
             PROVE  Before(e, f)' \/ Before(f, e)'
  BY DEF Ordered
<1>1. /\ e \in Event /\ f \in Event
      /\ e \in Known \/ (pc = "append_header" /\ e = ev)
      /\ f \in Known \/ (pc = "append_header" /\ f = ev)
  <2>1. e \in Event /\ f \in Event
    BY DEF OInv, IInv, TypeOK, Known, OnMedium
  <2>2. QED
    BY <2>1, KnownStep
<1>2. Before(e, f) \/ Before(f, e)
  BY <1>1 DEF Ordered, Ahead, Before
<1>3. info'[e] = info[e] /\ info'[f] = info[f]
  BY <1>1, KnownInfo
<1>4. QED
  BY <1>2, <1>3 DEF Before

(* After the boot scan the counter is not behind any known event. *)
LEMMA ScanDoneAhead ==
    ASSUME NoWrap, QInv, ScanDone, NEW e \in Known
    PROVE  info[e].seq <= seq' /\ pc' = "load"
<1>0. /\ cand \in Nat /\ cand <= Top /\ seq = 0 /\ 0 <= Top /\ slot = MaxRecords
      /\ floor # "open" /\ \A s \in Slots : dslots[s].ev \in {None, slots[s].ev}
  <2>1. cand \in Nat /\ cand <= InitSeq + Captured /\ slot = MaxRecords
    BY DEF QInv, OInv, IInv, TypeOK, Seqs, Bounded, ScanDone
  <2>2. seq = 0 /\ floor # "open" /\ \A s \in Slots : dslots[s].ev \in {None, slots[s].ev}
    BY DEF QInv, Booting, BootPc, ScanDone
  <2>3. QED
    BY <2>1, <2>2, CapturedBound, NumberAssumption DEF Top
<1>1. e \in Event /\ e # None
  BY KnownCaptured, EventAssumption DEF QInv
<1>2. info[e].seq <= cand /\ (HeaderValid(header) \/ \E s \in Slots : RecordValid(slots[s]))
  <2>1. ASSUME NEW s \in Slots, slots[s].ev = e
        PROVE  info[e].seq <= cand /\ RecordValid(slots[s])
    <3>1. RecordValid(slots[s])
      BY <1>1, <2>1 DEF QInv, OInv, IInv, MInv, RecordsNameEvents, Copies
    <3>2. s < slot
      BY <1>0, SizeAssumption DEF Slots
    <3>3. QED
      BY <2>1, <3>1, <3>2 DEF QInv, Booting, ScanDone
  <2>2. CASE e \in OnMedium
    <3>1. \E s \in Slots : slots[s].ev = e
      BY <1>0, <1>1, <2>2 DEF OnMedium, Copies
    <3>2. QED
      BY <2>1, <3>1
  <2>3. CASE e \in delivered /\ floor # "lost"
    <3>1. floor = "held"
      BY <1>0, <2>3 DEF QInv, OInv, IInv, TypeOK
    <3>2. Covered(e)
      BY <2>3, <3>1 DEF QInv, FloorHeld
    <3>3. CASE \E s \in Slots : slots[s].ev = e
      BY <2>1, <3>3
    <3>4. CASE HeaderValid(header) /\ info[e].seq <= header.floor
      <4>1. header.floor <= cand /\ header.floor \in Nat /\ info[e].seq \in Nat
        BY <1>1, <3>4 DEF QInv, Booting, ScanDone, OInv, IInv, TypeOK, HeaderType, InfoType, Seqs
      <4>2. QED
        BY <1>0, <3>4, <4>1
    <3>5. QED
      BY <3>2, <3>3, <3>4 DEF Covered
  <2>4. QED
    BY <2>2, <2>3 DEF Known
<1>3. seq' = cand
  BY <1>0, <1>2, SerialOrder DEF ScanDone
<1>4. QED
  BY <1>2, <1>3 DEF ScanDone

(* While the device runs, the counter only grows. *)
LEMMA SeqGrows ==
    ASSUME NoWrap, IInv, Bounded, Next, pc \notin {"off", "scan"}, pc' \notin {"off", "scan"}
    PROVE  seq \in Nat /\ seq' \in Nat /\ seq <= seq'
<1>0. seq \in Nat
  BY DEF IInv, TypeOK, Seqs
<1>1. CASE CaptureStep
  <2>1. seq' = NextSeq
    BY <1>1 DEF CaptureStep, CaptureEvent, CaptureDropped, CaptureRefused, Capture
  <2>2. QED
    BY <1>1, <2>1, NextSeqNoWrap
<1>2. CASE LoadBootState
  <2>1. bootSeq \in Nat
    BY DEF IInv, TypeOK, Seqs
  <2>2. QED
    BY <1>0, <1>2, <2>1 DEF LoadBootState, BootSequence
<1>3. BootStep \/ HeaderStep \/ SaveStep \/ AppendStep \/ Crash => LoadBootState \/ seq' = seq
  BY DEF BootStep, BootStart, ScanRecord, ScanDone, InitErase, BootFails, HeaderStep,
         WriteHeader, CommitHeader, SaveStep, SaveBootState, SaveBootStateFails, AppendStep,
         AppendHeader, AppendPayload, AppendCommit, AppendFails, Crash, history
<1>4. FlushStep => seq' = seq
  BY DEF FlushStep, FlushStart, SelectStep, SelectDone, SelectRecord, SelectNoTransport, SelectCorrupt,
         SelectUnreadable, Select, SendStep, Send, SendFails, Retry, Ack, ReclaimStep, ReclaimNothing,
         Reclaim, FlushFails, history
<1>5. QED
  BY <1>0, <1>1, <1>2, <1>3, <1>4 DEF Next

(* The counter stays ahead of every number in use, also when a boot        *)
(* rebuilds it from the records and the floor of the spool header.         *)
LEMMA NextAhead ==
    ASSUME NoWrap, QInv, OInv', Next
    PROVE  Ahead'
<1> USE DEF QInv
<1>0. IInv
  BY DEF OInv
<1>1. ASSUME pc' \notin {"off", "scan"}, NEW e \in Known'
      PROVE  info'[e].seq <= seq'
  <2>0. e \in Event
    BY DEF OInv, IInv, TypeOK, Known, OnMedium
  <2>1. e \in Known \/ (pc = "append_header" /\ e = ev)
    BY KnownStep
  <2>2. info'[e] = info[e] /\ info[e].seq \in Nat
    BY <2>0, <2>1, KnownInfo
  <2>3. CASE pc \in {"off", "scan"}
    BY <1>1, <2>1, <2>2, <2>3, LeavesScan, ScanDoneAhead
  <2>4. CASE pc \notin {"off", "scan"}
    <3>1. seq \in Nat /\ seq' \in Nat /\ seq <= seq'
      BY <1>0, <1>1, <2>4, SeqGrows
    <3>2. info[e].seq <= seq
      BY <2>1, <2>2, <2>4, <3>1 DEF Ahead
    <3>3. QED
      BY <2>2, <3>1, <3>2
  <2>5. QED
    BY <2>3, <2>4
<1>2. ASSUME pc' = "append_header"
      PROVE  /\ info'[ev'].seq = seq'
             /\ \A e \in Known' : info'[e].seq < info'[ev'].seq /\ info'[e].order < info'[ev'].order
  <2>1. PICK f \in Event, p \in Priority : CaptureEvent(f, p)
    BY <1>2, AppendStarts
  <2>2. CaptureStep
    BY <2>1 DEF CaptureStep
  <2>3. pc = "idle" /\ ev' = f /\ info'[f].seq = NextSeq /\ info'[f].order = Captured + 1 /\ seq' = NextSeq
    BY <1>0, <2>1 DEF CaptureEvent, Capture, IInv, TypeOK
  <2>4. NextSeq = seq + 1 /\ seq \in Nat /\ Captured \in Nat
    BY <1>0, <2>2, NextSeqNoWrap, CapturedBound
  <2>5. ASSUME NEW e \in Known'
        PROVE  info'[e].seq < info'[f].seq /\ info'[e].order < info'[f].order
    <3>1. e \in Known /\ e \in Event
      BY <2>3, KnownStep DEF OInv, IInv, TypeOK, Known, OnMedium
    <3>2. /\ info'[e] = info[e] /\ info[e].seq \in Nat /\ info[e].order \in Nat
          /\ info[e].order <= Captured /\ info[e].seq <= seq
      BY <2>3, <3>1, KnownInfo DEF Ahead
    <3>3. QED
      BY <2>3, <2>4, <3>2
  <2>6. QED
    BY <2>3, <2>5
<1>3. QED
  BY <1>1, <1>2 DEF Ahead

(* What the boot knows of the medium until it has ended. *)
LEMMA NextBooting ==
    ASSUME NoWrap, QInv, OInv', Next
    PROVE  Booting'
<1> USE DEF QInv
<1>0. IInv /\ TypeOK
  BY DEF OInv, IInv
<1>1. CASE BootStart
  <2>1. slot' = 0 /\ (HeaderValid(header) => cand' = header.floor) /\ header.floor \in Nat /\ seq' = 0
    BY <1>0, <1>1 DEF BootStart, TypeOK, HeaderType, Seqs
  <2>2. \A s \in Slots : ~(s < slot')
    BY <2>1, SizeAssumption DEF Slots
  <2>3. floor # "open" /\ \A s \in Slots : dslots[s].ev \in {None, slots[s].ev}
    BY <1>1 DEF BootStart, Booting, BootPc
  <2>4. pc' = "scan" /\ UNCHANGED <<slots, dslots, header, info, floor>>
    BY <1>1 DEF BootStart, media, history
  <2>5. HeaderValid(header)' <=> HeaderValid(header)
    BY <2>4 DEF HeaderValid
  <2>6. HeaderValid(header)' => header'.floor <= cand'
    BY <2>1, <2>4, <2>5
  <2>7. QED
    BY <2>1, <2>2, <2>3, <2>4, <2>6 DEF Booting
<1>2. CASE ScanRecord
  <2>0. /\ slot \in Slots /\ slot' = slot + 1 /\ cand \in Nat /\ cand <= Top /\ header.floor \in Nat
        /\ UNCHANGED <<slots, header, dslots, info, floor, pc, seq>> /\ pc = "scan"
    <3>1. cand \in Nat /\ cand <= Top /\ header.floor \in Nat
      BY <1>0, CapturedBound, NumberAssumption DEF Bounded, Top, TypeOK, HeaderType, Seqs
    <3>2. slot \in Slots
      BY <1>0, <1>2, SizeAssumption DEF ScanRecord, Slots, TypeOK
    <3>3. QED
      BY <1>2, <3>1, <3>2 DEF ScanRecord, media, history
  <2>a. \A s \in Slots : RecordValid(slots[s]) =>
           info[slots[s].ev].seq \in Nat /\ info[slots[s].ev].seq <= Top
    <3> SUFFICES ASSUME NEW s \in Slots, RecordValid(slots[s])
                 PROVE  info[slots[s].ev].seq \in Nat /\ info[slots[s].ev].seq <= Top
      OBVIOUS
    <3>1. slots[s].ev \in Event /\ fate[slots[s].ev] # "new"
      BY <1>0 DEF IInv, TypeOK, SlotType, MInv, RecordsNameEvents, Copies, PInv, Fresh
    <3>2. QED
      BY <1>0, <3>1, InfoBound
  <2>1. /\ cand' \in Nat /\ cand <= cand'
        /\ RecordValid(slots[slot]) => info[slots[slot].ev].seq <= cand'
    BY <1>2, <2>0, <2>a, SerialOrder DEF ScanRecord
  <2>2. ASSUME NEW s \in Slots, s < slot', RecordValid(slots[s])
        PROVE  info[slots[s].ev].seq <= cand'
    <3>1. CASE s = slot
      BY <2>1, <2>2, <3>1
    <3>2. CASE s < slot
      <4>1. info[slots[s].ev].seq <= cand /\ info[slots[s].ev].seq \in Nat
        BY <2>0, <2>2, <2>a, <3>2 DEF Booting
      <4>2. QED
        BY <2>0, <2>1, <4>1
    <3>3. QED
      BY <2>0, <2>2, <3>1, <3>2, SizeAssumption DEF Slots
  <2>3. HeaderValid(header) => header.floor <= cand'
    BY <2>0, <2>1 DEF Booting
  <2>4. QED
    BY <2>0, <2>2, <2>3 DEF Booting, BootPc
<1>3. CASE ScanDone
  <2>1. /\ UNCHANGED <<slots, dslots, floor, delivered>> /\ pc' \in {"load", "init_erase", "init_header"}
        /\ pc' # "load" => seq' = 0
        /\ floor # "open" /\ \A s \in Slots : dslots[s].ev \in {None, slots[s].ev}
    BY <1>3 DEF ScanDone, media, history, Booting, BootPc
  <2>2. Known' = Known
    BY <2>1 DEF Known, OnMedium, Copies
  <2>3. pc' # "load" => Known = {}
    BY <1>3, ScanDoneAhead
  <2>4. QED
    BY <2>1, <2>2, <2>3 DEF Booting, BootPc
<1>4. CASE pc \in {"init_erase", "init_header", "init_commit"} /\ pc' \in BootPc
  <2>1. Known' = {} /\ OnMedium' = {}
    <3>1. Known = {}
      BY <1>4 DEF Booting
    <3>2. \A e \in Known' : FALSE
      BY <1>4, <3>1, KnownStep
    <3>3. QED
      BY <3>2 DEF Known
  <2>2. \A s \in Slots : dslots'[s].ev = None
    <3>1. \A s \in Slots : dslots'[s].ev \in Event \cup {None}
      BY DEF OInv, IInv, TypeOK, SlotType
    <3>2. QED
      BY <2>1, <3>1 DEF OnMedium, Copies
  <2>3. pc' # "scan" /\ floor # "open" /\ seq = 0 /\ (floor' = floor \/ floor' # "open")
    <3>1. pc' # "scan" /\ (floor' = floor \/ floor' # "open")
      BY <1>4, InitSteps
    <3>2. QED
      BY <1>4, <3>1 DEF Booting, BootPc
  <2>4. pc' \in {"init_erase", "init_header", "init_commit"} => seq' = 0
    BY <1>4, <2>3, InitSteps
  <2>5. QED
    BY <2>1, <2>2, <2>3, <2>4 DEF Booting
<1>5. CASE /\ pc \in {"scan", "load", "save"} /\ pc' \in {"off", "save"}
           /\ UNCHANGED <<floor, slots, dslots>>
  <2>1. floor # "open" /\ \A s \in Slots : dslots[s].ev \in {None, slots[s].ev}
    BY <1>5 DEF Booting, BootPc
  <2>2. QED
    BY <1>5, <2>1 DEF Booting
<1>6. CASE Crash
  BY <1>6 DEF Crash, Booting
<1>7. CASE pc' \notin BootPc
  BY <1>7 DEF Booting, BootPc
<1>8. QED
  BY <1>1, <1>2, <1>3, <1>4, <1>5, <1>6, <1>7, BootSteps DEF BootPc
-----------------------------------------------------------------------------
(* The sequence floor.                                                     *)

(* Outside the initialisation and the reclaim, a step leaves the spool      *)
(* header alone and takes no event's name off the medium.                   *)
NamesKept ==
    /\ header' = header /\ dheader' \in {dheader, header'} /\ dslots' \in {dslots, slots'}
    /\ \A s \in Slots : slots[s].ev # None => slots'[s].ev = slots[s].ev

(* The steps that write no header and erase nothing satisfy NamesKept.     *)
LEMMA NextNamesKept ==
    ASSUME IInv, Next, ~Crash, floor = "held", floor' = "held",
           pc \notin {"init_erase", "init_header", "init_commit", "reclaim_header", "reclaim_commit"}
    PROVE  NamesKept
<1>1. CASE BootStep \/ HeaderStep \/ SaveStep
  BY <1>1 DEF BootStep, BootStart, ScanRecord, ScanDone, InitErase, LoadBootState, BootFails, HeaderStep,
              WriteHeader, CommitHeader, SaveStep, SaveBootState, SaveBootStateFails, Sync, media, NamesKept
<1>2. CASE CaptureStep \/ FlushStart \/ SelectStep
  BY <1>2 DEF CaptureStep, CaptureEvent, CaptureDropped, CaptureRefused, Capture, FlushStart, SelectStep,
              SelectDone, SelectRecord, SelectNoTransport, SelectCorrupt, SelectUnreadable, Select,
              media, NamesKept
<1>3. CASE AppendStep
  <2>1. header' = header /\ dheader' \in {dheader, header'} /\ dslots' \in {dslots, slots'}
    BY <1>3 DEF AppendStep, AppendHeader, AppendPayload, AppendCommit, AppendFails, Sync
  <2>2. slot \in Slots /\ slots[slot] \in SlotType
    BY <1>3 DEF AppendStep, AppendHeader, AppendPayload, AppendCommit, AppendFails, IInv, PInv,
                Appending, TypeOK
  <2>3. pc = "append_header" => slots[slot].ev = None
    BY <2>2 DEF IInv, PInv, Appending, MInv, RecordsNameEvents, RecordValid, Copies
  <2>4. \A s \in Slots : s # slot => slots'[s] = slots[s]
    BY <1>3, <2>2 DEF AppendStep, AppendHeader, AppendPayload, AppendCommit, AppendFails, IInv, TypeOK
  <2>5. pc # "append_header" => slots'[slot].ev = slots[slot].ev
    BY <1>3, <2>2 DEF AppendStep, AppendHeader, AppendPayload, AppendCommit, AppendFails, IInv, TypeOK,
                      SlotType
  <2>6. QED
    BY <2>1, <2>3, <2>4, <2>5 DEF NamesKept
<1>4. CASE SendStep \/ ReclaimStep \/ FlushFails
  <2>1. /\ header' = header /\ dheader' \in {dheader, header'} /\ dslots' \in {dslots, slots'}
        /\ \/ slots' = slots
           \/ pc = "retry" /\ \E n \in {0, 1} : slots' = [slots EXCEPT ![slot].retry = @ + n]
           \/ pc = "ack" /\ \E x \in {"committed", "acked"} : slots' = [slots EXCEPT ![slot].st = x]
    <3>1. CASE SendStep
      BY <3>1 DEF SendStep, Send, SendFails, Retry, Ack, Sync, media
    <3>2. CASE ReclaimStep
      BY <3>2 DEF ReclaimStep, ReclaimNothing, Reclaim, OpenFloor, media
    <3>3. CASE FlushFails
      BY <3>3 DEF FlushFails, OpenFloor, NoSync, media
    <3>4. QED
      BY <1>4, <3>1, <3>2, <3>3
  <2>2. pc \in {"retry", "ack"} => slot \in Slots /\ slots[slot] \in SlotType
    BY DEF IInv, PInv, Flushing, TypeOK
  <2>3. \A s \in Slots : slots'[s].ev = slots[s].ev
    <3>1. CASE slots' = slots
      BY <3>1
    <3>2. CASE /\ pc \in {"retry", "ack"}
               /\ \/ \E n \in {0, 1} : slots' = [slots EXCEPT ![slot].retry = @ + n]
                  \/ \E x \in {"committed", "acked"} : slots' = [slots EXCEPT ![slot].st = x]
      <4>1. slot \in Slots /\ slots[slot] \in SlotType
        BY <2>2, <3>2
      <4>2. QED
        <5>1. CASE \E n \in {0, 1} : slots' = [slots EXCEPT ![slot].retry = @ + n]
          BY <4>1, <5>1 DEF IInv, TypeOK, SlotType
        <5>2. CASE \E x \in {"committed", "acked"} : slots' = [slots EXCEPT ![slot].st = x]
          BY <4>1, <5>2 DEF IInv, TypeOK, SlotType
        <5>3. QED
          BY <3>2, <5>1, <5>2
    <3>3. QED
      BY <2>1, <3>1, <3>2
  <2>4. QED
    BY <2>1, <2>3 DEF NamesKept
<1>5. QED
  BY <1>1, <1>2, <1>3, <1>4 DEF Next, FlushStep

(* What is covered stays covered, also over a power loss. *)
LEMMA CoveredKept ==
    ASSUME IInv, Next, floor = "held", floor' = "held", NEW e \in Event, Covered(e), info'[e] = info[e],
           pc \notin {"init_erase", "init_header", "init_commit", "reclaim_header", "reclaim_commit"}
    PROVE  Covered(e)'
<1>0. e # None
  BY EventAssumption
<1>1. CASE ~Crash
  BY <1>0, <1>1, NextNamesKept DEF NamesKept, Covered
<1>2. CASE Crash
  <2>1. CASE header = dheader /\ HeaderValid(header) /\ info[e].seq <= header.floor
    <3>1. header' = header /\ dheader' = header
      BY <1>2, <2>1 DEF Crash, TornHeader
    <3>2. QED
      BY <2>1, <3>1 DEF Covered
  <2>2. ASSUME NEW s \in Slots, slots[s].ev = e, dslots[s].ev = e
        PROVE  Covered(e)'
    <3>1. slots'[s] \in TornSlot(dslots[s], slots[s]) /\ dslots' = slots'
      BY <1>2, TornSlotsType DEF Crash, IInv, TypeOK
    <3>2. /\ slots[s] \in SlotType /\ dslots[s] \in SlotType
          /\ slots[s].tag = "record" /\ dslots[s].tag = "record"
      BY <1>0, <2>2 DEF IInv, TypeOK, MInv, RecordsNameEvents, RecordValid, Copies
    <3>4. slots'[s].ev = e
      BY <2>2, <3>1, <3>2, TornName
    <3>5. QED
      BY <3>1, <3>4 DEF Covered
  <2>3. QED
    BY <2>1, <2>2 DEF Covered
<1>3. QED
  BY <1>1, <1>2

(* An event that is delivered now or in this step has been appended. *)
LEMMA DeliveredEnded ==
    ASSUME OInv, Next, NEW e \in delivered'
    PROVE  fate[e] \notin {"new", "pending"}
<1>1. CASE e \in delivered
  BY <1>1 DEF OInv, SettledEnded, Settled
<1>2. CASE Send /\ e = ev
  BY <1>2, FlushedIsStored DEF Send, OInv, IInv, PInv, Flushing
<1>3. delivered' = delivered \/ (Send /\ delivered' = delivered \cup {ev})
  BY SettledStep DEF OInv, Send
<1>4. QED
  BY <1>1, <1>2, <1>3

(* While the floor holds, the number of a delivered event is at most the   *)
(* floor of the durable header, or its record is still on the medium.      *)
LEMMA NextFloorHeld ==
    ASSUME NoWrap, QInv, OInv', Next
    PROVE  FloorHeld'
<1> USE DEF QInv
<1>0. IInv /\ TypeOK
  BY DEF OInv, IInv
<1>1. ASSUME pc' \in {"reclaim_header", "reclaim_commit"}
      PROVE  floor' # "held" /\ (pc' = "reclaim_commit" => header'.floor = seq')
  <2>1. Reclaim \/ (WriteHeader /\ pc = "reclaim_header")
    <3>1. BootStep \/ HeaderStep \/ SaveStep \/ AppendStep \/ Crash => WriteHeader /\ pc = "reclaim_header"
      BY <1>1 DEF BootStep, BootStart, ScanRecord, ScanDone, InitErase, LoadBootState, BootFails,
             HeaderStep, WriteHeader, CommitHeader, SaveStep, SaveBootState, SaveBootStateFails,
             AppendStep, AppendHeader, AppendPayload, AppendCommit, AppendFails, Crash
    <3>2. FlushStep => Reclaim
      BY <1>1 DEF FlushStep, FlushStart, SelectStep, SelectDone, SelectRecord, SelectNoTransport,
             SelectCorrupt, SelectUnreadable, GoOnWith, SendStep, Send, SendFails, Retry, Ack,
             ReclaimStep, ReclaimNothing, FlushFails
    <3>3. ~CaptureStep
      BY <1>1 DEF CaptureStep, CaptureEvent, CaptureDropped, CaptureRefused, Capture
    <3>4. QED
      BY <3>1, <3>2, <3>3 DEF Next
  <2>2. CASE Reclaim
    BY <2>2 DEF Reclaim, OpenFloor
  <2>3. CASE WriteHeader /\ pc = "reclaim_header"
    BY <2>3 DEF WriteHeader, NewHeader, FloorHeld, history
  <2>4. QED
    BY <2>1, <2>2, <2>3
<1>2. ASSUME floor' = "held", NEW e \in delivered'
      PROVE  Covered(e)'
  <2>0. e \in Event /\ e \in Known' /\ e \in Known
    <3>1. e \in Event /\ e \in Known'
      BY <1>2 DEF Known, OInv, IInv, TypeOK
    <3>2. fate[e] \notin {"new", "pending"}
      BY <3>1, DeliveredEnded
    <3>3. QED
      BY <3>1, <3>2, KnownStep DEF OInv, IInv, PInv, Appending
  <2>1. CASE floor # "held"
    <3>1. CommitHeader /\ floor = "open"
      BY <1>2, <2>1, FloorCommitted
    <3>2. pc = "reclaim_commit"
      BY <3>1 DEF CommitHeader, Booting, BootPc
    <3>3. header' = dheader' /\ HeaderValid(header') /\ header'.floor = seq
      BY <1>0, <3>1, <3>2 DEF CommitHeader, Sync, FloorHeld, HeaderValid, TypeOK, HeaderType
    <3>4. info'[e].seq <= seq
      BY <2>0, <3>1, <3>2 DEF CommitHeader, Ahead
    <3>5. QED
      BY <3>3, <3>4 DEF Covered
  <2>2. CASE floor = "held"
    <3>1. pc \notin {"init_erase", "init_header", "init_commit", "reclaim_header", "reclaim_commit"}
      BY <2>0, <2>2 DEF Booting, FloorHeld
    <3>2. CASE e \in delivered
      <4>1. Covered(e) /\ info'[e] = info[e]
        BY <2>0, <2>2, <3>2, KnownInfo DEF FloorHeld
      <4>2. QED
        BY <1>0, <1>2, <2>0, <2>2, <3>1, <4>1, CoveredKept
    <3>3. CASE e \notin delivered
      <4>1. Send /\ e = ev
        BY <1>0, <1>2, <3>3, SettledStep DEF Send
      <4>2. slot \in Slots /\ slots[slot].ev = e /\ dslots[slot].ev = e
        BY <1>0, <4>1 DEF Send, IInv, PInv, Flushing, MInv, CopiesAgree
      <4>3. UNCHANGED <<slots, dslots>>
        BY <4>1 DEF Send, media
      <4>4. QED
        BY <4>2, <4>3 DEF Covered
    <3>4. QED
      BY <3>2, <3>3
  <2>3. QED
    BY <2>1, <2>2
<1>3. QED
  BY <1>1, <1>2 DEF FloorHeld
-----------------------------------------------------------------------------
(* The theorems.                                                           *)

(* An empty spool and no captures satisfy QInv.                            *)
LEMMA InitQInv == Init => QInv
<1> SUFFICES ASSUME Init PROVE QInv
  OBVIOUS
<1>1. OInv
  BY InitIInv DEF Init, OInv, Synced, SettledEnded, Settled
<1>2. \A s \in Slots : slots[s].ev = None /\ dslots[s].ev = None
  BY DEF Init, AllErased, ErasedSlot
<1>3. OnMedium = {} /\ Known = {}
  <2>1. OnMedium = {}
    BY <1>2, EventAssumption DEF OnMedium, Copies
  <2>2. QED
    BY <2>1 DEF Known, Init
<1>4. Bounded
  BY CapturedBound, NumberAssumption DEF Init, Bounded, ErasedHeader
<1>5. Booting
  BY <1>2 DEF Init, Booting, BootPc
<1>6. QED
  BY <1>1, <1>3, <1>4, <1>5 DEF Init, QInv, Ahead, Ordered, FloorHeld

(* Every step keeps the invariant of the sequence numbers. *)
LEMMA NextKeepsQInv == NoWrap /\ QInv /\ [Next]_vars => QInv'
<1> SUFFICES ASSUME NoWrap, QInv, [Next]_vars PROVE QInv'
  OBVIOUS
<1>1. OInv'
  BY NextKeepsOInv DEF QInv
<1>2. CASE Next
  <2>1. Bounded'
    BY <1>2, NextBounded DEF QInv, OInv
  <2>2. Ordered'
    BY <1>1, <1>2, NextOrdered DEF QInv
  <2>3. QED
    BY <1>1, <1>2, <2>1, <2>2, NextAhead, NextBooting, NextFloorHeld DEF QInv
<1>3. CASE UNCHANGED vars
  <2>1. UNCHANGED <<slots, header, dslots, dheader, bootSeq, seq, pc, ev, slot, cand, info, fate,
                    delivered, floor>>
    BY <1>3 DEF vars, media, locals, history
  <2>2. Known' = Known /\ Captured' = Captured
    BY <2>1 DEF Known, OnMedium, Copies, Captured
  <2>3. Bounded' /\ Ahead' /\ Ordered'
    BY <2>1, <2>2, Zenon DEF QInv, Bounded, Ahead, Ordered, Before
  <2>4. Booting' /\ FloorHeld'
    BY <2>1, <2>2, Zenon DEF QInv, Booting, FloorHeld, Covered
  <2>5. QED
    BY <1>1, <2>3, <2>4 DEF QInv
<1>4. QED
  BY <1>2, <1>3

(* The invariant of the sequence numbers holds throughout. *)
THEOREM SpoolSequences == ASSUME NoWrap PROVE Spec => []QInv
<1>1. Init => QInv
  BY InitQInv
<1>2. QInv /\ [Next]_vars => QInv'
  BY NextKeepsQInv
<1>3. QED
  BY <1>1, <1>2, PTL DEF Spec

(* For any number of events, slots, errors and power losses, as long as     *)
(* fewer than half of the counter's values are used: the records that wait  *)
(* to be sent are ordered by generation_is_newer as they were captured,     *)
(* also when ls_spool_init has recovered the counter from the records.      *)
THEOREM SpoolDrainedInCaptureOrder == ASSUME NoWrap PROVE Spec => []DrainedInCaptureOrder
<1>1. QInv => DrainedInCaptureOrder
  <2> SUFFICES ASSUME QInv, NEW s \in Committed, NEW t \in Committed,
                      info[slots[s].ev].order < info[slots[t].ev].order
               PROVE  GenerationIsNewer(info[slots[t].ev].seq, info[slots[s].ev].seq)
    BY DEF DrainedInCaptureOrder
  <2>1. ASSUME NEW u \in Committed PROVE slots[u].ev \in Known
    <3>1. u \in Slots /\ slots[u].ev \in Event
      BY DEF Committed, IsCommitted, QInv, OInv, IInv, TypeOK, SlotType, MInv, RecordsNameEvents, Copies
    <3>2. QED
      BY <3>1 DEF Known, OnMedium, Copies
  <2>2. ASSUME NEW e \in Known
        PROVE  info[e].seq \in Nat /\ info[e].order \in Nat /\ info[e].seq <= Top
    BY KnownCaptured, InfoBound DEF QInv, OInv
  <2>3. info[slots[s].ev].seq < info[slots[t].ev].seq
    BY <2>1, <2>2 DEF QInv, Ordered, Before
  <2>4. QED
    BY <2>1, <2>2, <2>3, SerialOrder
<1>2. QED
  BY <1>1, SpoolSequences, PTL

(* Under the same condition no two delivered events share a sequence        *)
(* number, unless a power loss fell between the erase of a drained spool    *)
(* and the commit of the header with its sequence_floor.                    *)
THEOREM SpoolDeliveredSequencesDistinct == ASSUME NoWrap PROVE Spec => []DeliveredSequencesDistinct
<1>1. QInv => DeliveredSequencesDistinct
  <2> SUFFICES ASSUME QInv, floor # "lost", NEW e \in delivered, NEW f \in delivered, e # f
               PROVE  info[e].seq # info[f].seq
    BY DEF DeliveredSequencesDistinct
  <2>1. e \in Known /\ f \in Known
    BY DEF Known
  <2>2. info[e].seq \in Nat /\ info[f].seq \in Nat
    BY <2>1, KnownCaptured, InfoBound DEF QInv, OInv
  <2>3. QED
    BY <2>1, <2>2 DEF QInv, Ordered, Before
<1>2. QED
  BY <1>1, SpoolSequences, PTL
=============================================================================
