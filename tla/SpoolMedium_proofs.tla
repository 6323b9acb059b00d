------------------------- MODULE SpoolMedium_proofs -------------------------
(***************************************************************************)
(* What each kind of write to the medium of Spool preserves, and the steps *)
(* of boot, capture, append and of the choice of a record.                 *)
(***************************************************************************)
EXTENDS SpoolTypes_proofs

(* Programming a slot that has no commit marker and gets none. *)
LEMMA MediumProgrammed ==
    ASSUME TypeOK, MInv, NEW s0 \in Slots, NEW r \in SlotType,
           slots' = [slots EXCEPT ![s0] = r], dslots' = dslots \/ dslots' = slots',
           ~IsCommitted(slots[s0]), ~IsCommitted(r), RecordValid(r) <=> r.ev # None,
           r.ev \in {None, slots[s0].ev} \/ \A s \in Slots : \A x \in Copies(s) : x.ev # r.ev,
           UNCHANGED <<delivered, unread, released>>,
           \A e \in Event : fate'[e] = fate[e] \/ fate'[e] = "refused"
    PROVE  MInv'
<1> USE DEF MInv
<1>0. \A s \in Slots : slots'[s] = IF s = s0 THEN r ELSE slots[s]
  BY DEF TypeOK
<1>a. \A s \in Slots : \A x \in Copies(s)' : x \in Copies(s) \/ (s = s0 /\ x = r)
  BY <1>0, Zenon DEF Copies
<1>b. \A s \in Slots : \A x \in Copies(s) : RecordValid(x) => x.ev \in Event
  BY DEF TypeOK, SlotType, RecordsNameEvents, Copies
<1>c. \A s \in Slots : slots[s] \in Copies(s) /\ dslots[s] \in Copies(s)
  BY DEF Copies
<1>d. \A s \in Slots : s # s0 => slots'[s] = slots[s] /\ dslots'[s] \in {slots[s], dslots[s]}
  BY <1>0, Zenon
<1>1. RecordsNameEvents'
  BY <1>a DEF RecordsNameEvents
<1>2. CopiesAgree'
  BY <1>0, Zenon DEF CopiesAgree, Settled
<1>3. OneSlotPerEvent'
  <2> SUFFICES ASSUME NEW s \in Slots, NEW u \in Slots, NEW x \in Copies(s)', NEW y \in Copies(u)',
                      x.ev = y.ev, x.ev # None
               PROVE  s = u
    BY DEF OneSlotPerEvent
  <2>1. CASE x \in Copies(s) /\ y \in Copies(u)
    BY <2>1 DEF OneSlotPerEvent
  <2>2. CASE s = s0 /\ x = r /\ u # s0
    BY <2>2, <1>a, <1>c DEF OneSlotPerEvent
  <2>3. CASE u = s0 /\ y = r /\ s # s0
    BY <2>3, <1>a, <1>c DEF OneSlotPerEvent
  <2>4. QED
    BY <2>1, <2>2, <2>3, <1>a
<1>4. CommittedEnded'
  BY <1>a, <1>b DEF CommittedEnded, IsCommitted, TypeOK
<1>5. NoAcceptedLoss'
  <2> SUFFICES ASSUME NEW e \in Event, fate'[e] = "accepted", e \notin delivered, e \notin unread
               PROVE  \E s \in Slots : Safe(s, e)'
    BY DEF NoAcceptedLoss
  <2>1. PICK s \in Slots : Safe(s, e)
    BY DEF NoAcceptedLoss
  <2>2. s # s0
    BY <2>1 DEF Safe
  <2>3. QED
    BY <1>d, <2>1, <2>2 DEF Safe
<1>6. CommittedIsComplete'
  <2> SUFFICES ASSUME NEW e \in Event, NEW s \in Slots, NEW x \in Copies(s)',
                      IsCommitted(x), x.ev = e, e \notin Settled
               PROVE  slots'[s].body = e /\ dslots'[s].body = e
    BY DEF CommittedIsComplete, Settled, Copies
  <2>1. x \in Copies(s)
    BY <1>a
  <2>2. slots[s].body = e /\ dslots[s].body = e
    BY <2>1 DEF CommittedIsComplete, Settled, Copies
  <2>3. s # s0
    BY <2>1 DEF CopiesAgree, Copies
  <2>4. QED
    BY <1>d, <2>2, <2>3
<1>7. ReleasedNeverResent'
  <2> SUFFICES ASSUME NEW e \in released, NEW s \in Slots, NEW x \in Copies(s)'
               PROVE  ~(IsCommitted(x) /\ x.ev = e)
    BY DEF ReleasedNeverResent, Copies
  <2>1. QED
    BY <1>a DEF ReleasedNeverResent, Copies
<1>8. QED
  BY <1>1, <1>2, <1>3, <1>4, <1>5, <1>6, <1>7

(* The commit marker over a record whose header and payload are synced. *)
LEMMA MediumCommitted ==
    ASSUME TypeOK, MInv, NEW s0 \in Slots, NEW e0 \in Event, NEW r \in SlotType,
           slots[s0].tag = "record", slots[s0].ev = e0, slots[s0].body = e0, dslots[s0] = slots[s0],
           r.tag = "record", r.ev = e0, r.body = e0, r.st = "committed",
           slots' = [slots EXCEPT ![s0] = r],
           \/ dslots' = slots' /\ fate' = [fate EXCEPT ![e0] = "accepted"]
           \/ dslots' = dslots /\ fate' = [fate EXCEPT ![e0] = "refused"],
           fate[e0] = "pending", slots[s0].st = "open",
           UNCHANGED <<delivered, unread, released>>
    PROVE  MInv'
<1> USE DEF MInv
<1>0. \A s \in Slots : slots'[s] = IF s = s0 THEN r ELSE slots[s]
  BY DEF TypeOK
<1>a. \A s \in Slots : \A x \in Copies(s)' : x \in Copies(s) \/ (s = s0 /\ x = r)
  BY <1>0, Zenon DEF Copies
<1>b. \A s \in Slots : \A x \in Copies(s) : RecordValid(x) => x.ev \in Event
  BY DEF TypeOK, SlotType, RecordsNameEvents, Copies
<1>c. \A s \in Slots : slots[s] \in Copies(s) /\ dslots[s] \in Copies(s)
  BY DEF Copies
<1>d. \A s \in Slots : s # s0 => slots'[s] = slots[s] /\ dslots'[s] \in {slots[s], dslots[s]}
  BY <1>0, Zenon
<1>e. dslots'[s0] = IF dslots' = slots' THEN r ELSE dslots[s0]
  BY <1>0
<1>1. RecordsNameEvents'
  BY <1>a, <1>c DEF RecordsNameEvents, RecordValid
<1>3. OneSlotPerEvent'
  BY <1>a, <1>c DEF OneSlotPerEvent
<1>2. CopiesAgree'
  BY <1>0, <1>d, <1>e DEF CopiesAgree, Settled, IsCommitted
<1>4. CommittedEnded'
  BY <1>a, <1>b DEF CommittedEnded, IsCommitted, TypeOK
<1>5. NoAcceptedLoss'
  <2> SUFFICES ASSUME NEW e \in Event, fate'[e] = "accepted", e \notin delivered, e \notin unread
               PROVE  \E s \in Slots : Safe(s, e)'
    BY DEF NoAcceptedLoss
  <2>1. CASE e = e0
    <3>1. dslots' = slots'
      BY <2>1 DEF TypeOK
    <3>2. Safe(s0, e)'
      BY <2>1, <3>1, <1>0 DEF Safe, IsCommitted, RecordValid
    <3>3. QED
      BY <3>2
  <2>2. CASE e # e0
    <3>1. PICK s \in Slots : Safe(s, e)
      BY <2>2 DEF NoAcceptedLoss, TypeOK
    <3>2. s # s0
      BY <3>1, <2>2 DEF Safe
    <3>3. QED
      BY <1>d, <3>1, <3>2 DEF Safe
  <2>3. QED
    BY <2>1, <2>2
<1>6. CommittedIsComplete'
  <2> SUFFICES ASSUME NEW e \in Event, NEW s \in Slots, NEW x \in Copies(s)',
                      IsCommitted(x), x.ev = e, e \notin Settled
               PROVE  slots'[s].body = e /\ dslots'[s].body = e
    BY DEF CommittedIsComplete, Settled, Copies
  <2>1. CASE s = s0
    BY <2>1, <1>0, <1>e, <1>a DEF Copies
  <2>2. CASE s # s0
    BY <2>2, <1>a, <1>d DEF CommittedIsComplete, Settled, Copies
  <2>3. QED
    BY <2>1, <2>2
<1>7. ReleasedNeverResent'
  <2> SUFFICES ASSUME NEW e \in released, NEW s \in Slots, NEW x \in Copies(s)'
               PROVE  ~(IsCommitted(x) /\ x.ev = e)
    BY DEF ReleasedNeverResent, Copies
  <2>1. e # e0
    BY DEF CommittedEnded
  <2>2. QED
    BY <1>a, <2>1 DEF ReleasedNeverResent, Copies
<1>8. QED
  BY <1>1, <1>2, <1>3, <1>4, <1>5, <1>6, <1>7

(* One more retry bit of a committed record. *)
LEMMA MediumRetried ==
    ASSUME TypeOK, MInv, NEW s0 \in Slots, NEW r \in SlotType, IsCommitted(slots[s0]),
           IsCommitted(r), r.ev = slots[s0].ev, r.body = slots[s0].body,
           slots' = [slots EXCEPT ![s0] = r], dslots' = dslots \/ dslots' = slots',
           UNCHANGED <<delivered, unread, fate, released>>
    PROVE  MInv'
<1> USE DEF MInv
<1>0. \A s \in Slots : slots'[s] = IF s = s0 THEN r ELSE slots[s]
  BY DEF TypeOK
<1>a. \A s \in Slots : \A x \in Copies(s)' : x \in Copies(s) \/ (s = s0 /\ x = r)
  BY <1>0, Zenon DEF Copies
<1>b. \A s \in Slots : \A x \in Copies(s) : RecordValid(x) => x.ev \in Event
  BY DEF TypeOK, SlotType, RecordsNameEvents, Copies
<1>c. \A s \in Slots : slots[s] \in Copies(s) /\ dslots[s] \in Copies(s)
  BY DEF Copies
<1>d. \A s \in Slots : s # s0 => slots'[s] = slots[s] /\ dslots'[s] \in {slots[s], dslots[s]}
  BY <1>0, Zenon
<1>e. dslots'[s0] = IF dslots' = slots' THEN r ELSE dslots[s0]
  BY <1>0, Zenon
<1>1. RecordsNameEvents'
  BY <1>a, <1>c DEF RecordsNameEvents, IsCommitted
<1>3. OneSlotPerEvent'
  BY <1>a, <1>c DEF OneSlotPerEvent
<1>2. CopiesAgree'
  BY <1>0, <1>d, <1>e DEF CopiesAgree, Settled
<1>4. CommittedEnded'
  BY <1>a, <1>c DEF CommittedEnded
<1>5. NoAcceptedLoss'
  <2> SUFFICES ASSUME NEW e \in Event, NEW s \in Slots, Safe(s, e)
               PROVE  Safe(s, e)'
    BY DEF NoAcceptedLoss
  <2>1. QED
    BY <1>0, <1>d, <1>e DEF Safe
<1>6. CommittedIsComplete'
  <2> SUFFICES ASSUME NEW e \in Event, NEW s \in Slots, NEW x \in Copies(s)',
                      IsCommitted(x), x.ev = e, e \notin Settled
               PROVE  slots'[s].body = e /\ dslots'[s].body = e
    BY DEF CommittedIsComplete, Settled, Copies
  <2>1. \E y \in Copies(s) : IsCommitted(y) /\ y.ev = e
    BY <1>a, <1>c
  <2>2. slots[s].body = e /\ dslots[s].body = e
    BY <2>1 DEF CommittedIsComplete, Settled, Copies
  <2>3. QED
    BY <2>2, <1>0, <1>d, <1>e
<1>7. ReleasedNeverResent'
  <2> SUFFICES ASSUME NEW e \in released, NEW s \in Slots, NEW x \in Copies(s)'
               PROVE  ~(IsCommitted(x) /\ x.ev = e)
    BY DEF ReleasedNeverResent, Copies
  <2>1. QED
    BY <1>a, <1>c DEF ReleasedNeverResent, Copies
<1>8. QED
  BY <1>1, <1>2, <1>3, <1>4, <1>5, <1>6, <1>7

(* The acknowledgement of a record whose event is settled. *)
LEMMA MediumAcked ==
    ASSUME TypeOK, MInv, NEW s0 \in Slots, NEW r \in SlotType, IsCommitted(slots[s0]),
           slots[s0].ev \in Settled, r.tag = "record", ~IsCommitted(r), r.ev = slots[s0].ev,
           slots' = [slots EXCEPT ![s0] = r],
           \/ dslots' = slots' /\ released' = released \cup {slots[s0].ev}
           \/ dslots' = dslots /\ released' = released,
           UNCHANGED <<delivered, unread, fate>>
    PROVE  MInv'
<1> USE DEF MInv
<1>0. \A s \in Slots : slots'[s] = IF s = s0 THEN r ELSE slots[s]
  BY DEF TypeOK
<1>a. \A s \in Slots : \A x \in Copies(s)' : x \in Copies(s) \/ (s = s0 /\ x = r)
  BY <1>0, Zenon DEF Copies
<1>b. \A s \in Slots : \A x \in Copies(s) : RecordValid(x) => x.ev \in Event
  BY SMTT(20) DEF TypeOK, SlotType, RecordsNameEvents, Copies
<1>c. \A s \in Slots : slots[s] \in Copies(s) /\ dslots[s] \in Copies(s)
  BY DEF Copies
<1>d. \A s \in Slots : s # s0 => slots'[s] = slots[s] /\ dslots'[s] \in {slots[s], dslots[s]}
  BY <1>0, Zenon
<1>e. dslots'[s0] = IF dslots' = slots' THEN r ELSE dslots[s0]
  BY <1>0
<1>1. RecordsNameEvents'
  BY <1>a, <1>c DEF RecordsNameEvents, IsCommitted, RecordValid
<1>3. OneSlotPerEvent'
  BY <1>a, <1>c DEF OneSlotPerEvent
<1>f. \A s \in Slots : s # s0 => slots[s].ev # slots[s0].ev /\ dslots[s].ev # slots[s0].ev
  BY <1>c DEF OneSlotPerEvent, RecordsNameEvents, IsCommitted
<1>g. IsCommitted(dslots[s0]) => dslots[s0].ev \in Settled
  BY DEF CopiesAgree
<1>2. CopiesAgree'
  BY <1>0, <1>d, <1>e, <1>g DEF CopiesAgree, Settled
<1>4. CommittedEnded'
  BY <1>a, <1>c DEF CommittedEnded
<1>5. NoAcceptedLoss'
  <2> SUFFICES ASSUME NEW e \in Event, fate[e] = "accepted", e \notin delivered, e \notin unread
               PROVE  \E s \in Slots : Safe(s, e)'
    BY DEF NoAcceptedLoss
  <2>1. PICK s \in Slots : Safe(s, e)
    BY DEF NoAcceptedLoss
  <2>2. s # s0
    BY <2>1 DEF Safe, Settled
  <2>3. QED
    BY <1>d, <2>1, <2>2 DEF Safe
<1>6. CommittedIsComplete'
  <2> SUFFICES ASSUME NEW e \in Event, NEW s \in Slots, NEW x \in Copies(s)',
                      IsCommitted(x), x.ev = e, e \notin Settled
               PROVE  slots'[s].body = e /\ dslots'[s].body = e
    BY DEF CommittedIsComplete, Settled, Copies
  <2>1. s # s0
    BY <1>0, <1>e, <1>g DEF Copies
  <2>2. QED
    BY <2>1, <1>a, <1>d DEF CommittedIsComplete, Settled, Copies
<1>7. ReleasedNeverResent'
  <2> SUFFICES ASSUME NEW e \in released', NEW s \in Slots, NEW x \in Copies(s)'
               PROVE  ~(IsCommitted(x) /\ x.ev = e)
    BY DEF ReleasedNeverResent, Copies
  <2>1. CASE e \in released
    BY <2>1, <1>a DEF ReleasedNeverResent, Copies
  <2>2. CASE e \notin released
    <3>1. e = slots[s0].ev /\ dslots' = slots'
      BY <2>2
    <3>2. QED
      BY <3>1, <1>0, <1>d, <1>e, <1>f DEF Copies
  <2>3. QED
    BY <2>1, <2>2
<1>8. QED
  BY <1>1, <1>2, <1>3, <1>4, <1>5, <1>6, <1>7

(* A power loss, whatever it leaves of the writes that were not synced. *)
LEMMA MediumCrashed ==
    ASSUME TypeOK, MInv, Crash
    PROVE  MInv'
<1> USE DEF MInv
<1>0. dslots' = slots' /\ UNCHANGED <<delivered, unread, released>>
  BY DEF Crash
<1>a. \A e \in Event : fate'[e] = IF fate[e] = "pending" THEN "refused" ELSE fate[e]
  BY DEF Crash, TypeOK
<1>b. \A s \in Slots : slots'[s] \in TornSlot(dslots[s], slots[s])
  BY TornSlotsType, SMTT(20) DEF Crash, TypeOK
<1>c. \A s \in Slots :
         /\ RecordValid(slots'[s]) <=> slots'[s].ev # None
         /\ slots'[s].ev \in {None, dslots[s].ev, slots[s].ev}
         /\ IsCommitted(slots'[s]) => \E x \in Copies(s) : IsCommitted(x) /\ x.ev = slots'[s].ev
         /\ dslots[s].body = slots[s].body => slots'[s].body = dslots[s].body
         /\ IsCommitted(dslots[s]) /\ IsCommitted(slots[s]) /\ dslots[s].ev = slots[s].ev
               => IsCommitted(slots'[s]) /\ slots'[s].ev = dslots[s].ev
  <2> TAKE s \in Slots
  <2>1. dslots[s] \in SlotType /\ slots[s] \in SlotType
    BY SMTT(20) DEF TypeOK
  <2>2. (RecordValid(dslots[s]) <=> dslots[s].ev # None) /\ (RecordValid(slots[s]) <=> slots[s].ev # None)
    BY DEF RecordsNameEvents, Copies
  <2>3. QED
    BY <2>1, <2>2, <1>b, TornSlotFacts DEF Copies
<1>d. \A s \in Slots : \A x \in Copies(s) : IsCommitted(x) => x.ev \in Event
  BY DEF TypeOK, SlotType, RecordsNameEvents, Copies, IsCommitted
<1>e. \A s \in Slots : \A x \in Copies(s)' : x = slots'[s]
  BY <1>0, SMTT(20) DEF Copies
<1>f. \A s \in Slots : slots[s] \in Copies(s) /\ dslots[s] \in Copies(s)
  BY DEF Copies
<1>1. RecordsNameEvents'
  BY <1>c, <1>e DEF RecordsNameEvents
<1>2. CopiesAgree'
  BY <1>0 DEF CopiesAgree
<1>3. OneSlotPerEvent'
  <2> SUFFICES ASSUME NEW s \in Slots, NEW u \in Slots, slots'[s].ev = slots'[u].ev, slots'[s].ev # None
               PROVE  s = u
    BY <1>e DEF OneSlotPerEvent
  <2>1. PICK x \in Copies(s), y \in Copies(u) : x.ev = slots'[s].ev /\ y.ev = slots'[u].ev
    BY <1>c, <1>f
  <2>2. QED
    BY <2>1 DEF OneSlotPerEvent
<1>4. CommittedEnded'
  <2>1. \A s \in Slots : IsCommitted(slots'[s]) => fate'[slots'[s].ev] \notin {"new", "pending"}
    BY <1>a, <1>c, <1>d DEF CommittedEnded
  <2>2. \A e \in released' : fate'[e] \notin {"new", "pending"}
    BY <1>0, <1>a DEF CommittedEnded, TypeOK
  <2>3. QED
    BY <2>1, <2>2, <1>e, SMTT(20) DEF CommittedEnded
<1>5. NoAcceptedLoss'
  <2> SUFFICES ASSUME NEW e \in Event, fate'[e] = "accepted", e \notin delivered, e \notin unread
               PROVE  \E s \in Slots : Safe(s, e)'
    BY <1>0 DEF NoAcceptedLoss
  <2>1. fate[e] = "accepted"
    BY <1>a
  <2>2. PICK s \in Slots : Safe(s, e)
    BY <2>1 DEF NoAcceptedLoss
  <2>3. Safe(s, e)'
    BY <1>0, <1>c, <2>2 DEF Safe
  <2>4. QED
    BY <2>3
<1>6. CommittedIsComplete'
  <2> SUFFICES ASSUME NEW e \in Event, NEW s \in Slots, IsCommitted(slots'[s]),
                      slots'[s].ev = e, e \notin Settled
               PROVE  slots'[s].body = e
    BY <1>0 DEF CommittedIsComplete, Settled
  <2>1. slots[s].body = e /\ dslots[s].body = e
    BY <1>c DEF CommittedIsComplete, Settled, Copies
  <2>2. QED
    BY <2>1, <1>c
<1>7. ReleasedNeverResent'
  <2> SUFFICES ASSUME NEW e \in released, NEW s \in Slots
               PROVE  ~(IsCommitted(slots'[s]) /\ slots'[s].ev = e)
    BY <1>0 DEF ReleasedNeverResent
  <2>1. QED
    BY <1>c DEF ReleasedNeverResent, Copies
<1>8. QED
  BY <1>1, <1>2, <1>3, <1>4, <1>5, <1>6, <1>7

-----------------------------------------------------------------------------
(* The running operation.                                                  *)

(* A step after which nothing is being appended, flushed or erased, and     *)
(* that puts no event on the medium.                                        *)
LEMMA OperationEnded ==
    ASSUME TypeOK, MInv, PInv, pc' \notin Busy,
           \A e \in Event : fate'[e] = "new" => fate[e] = "new",
           \A s \in Slots : \A r \in Copies(s)' :
               r.ev = None \/ (\E x \in Copies(s) : r.ev = x.ev) \/ (r.ev = ev /\ fate[ev] # "new")
    PROVE  PInv'
<1>1. Appending' /\ Flushing' /\ Erasing'
  BY DEF Appending, Flushing, Erasing, Busy
<1>2. Fresh'
  <2> SUFFICES ASSUME NEW e \in Event, fate'[e] = "new", NEW s \in Slots, NEW r \in Copies(s)'
               PROVE  r.ev # e
    BY DEF Fresh, Busy
  <2>1. e # None /\ fate[e] = "new" /\ \A x \in Copies(s) : x.ev # e
    BY EventAssumption DEF PInv, Fresh
  <2>2. QED
    BY <2>1
<1>3. QED
  BY <1>1, <1>2 DEF PInv

(* The same for a step that leaves the slots alone or only syncs them. *)
LEMMA OperationEndedKept ==
    ASSUME TypeOK, MInv, PInv, pc' \notin Busy, slots' = slots, dslots' = dslots \/ dslots' = slots,
           fate' = fate
    PROVE  PInv'
<1>1. \A s \in Slots : \A r \in Copies(s)' : r \in Copies(s)
  BY DEF Copies
<1>2. QED
  BY <1>1, OperationEnded
-----------------------------------------------------------------------------
(* Init, and the steps one by one.                                         *)

(* An erased spool satisfies the invariant. *)
LEMMA InitIInv == Init => IInv
<1> SUFFICES ASSUME Init PROVE IInv
  OBVIOUS
<1>1. TypeOK
  BY InitType
<1>2. \A s \in Slots : \A r \in Copies(s) : r.tag = "erased" /\ r.ev = None
  BY DEF Init, AllErased, ErasedSlot, Copies
<1>3. RecordsNameEvents /\ CopiesAgree /\ OneSlotPerEvent /\ CommittedEnded
  BY <1>2 DEF RecordsNameEvents, CopiesAgree, OneSlotPerEvent, CommittedEnded, RecordValid,
              IsCommitted, Init, Copies
<1>4. NoAcceptedLoss /\ CommittedIsComplete /\ ReleasedNeverResent
  BY <1>2 DEF NoAcceptedLoss, CommittedIsComplete, ReleasedNeverResent, Init, IsCommitted,
              RecordValid, Copies
<1>5. PInv
  BY <1>2, EventAssumption DEF PInv, Appending, Flushing, Erasing, Fresh, Init
<1>6. QED
  BY <1>1, <1>3, <1>4, <1>5 DEF IInv, MInv

(* ls_spool_init and the boot state: the only erase at boot is of a spool    *)
(* without a valid record (Erasing).                                         *)
LEMMA BootKeepsIInv ==
    ASSUME IInv, TypeOK', BootStep \/ HeaderStep \/ SaveStep
    PROVE  IInv'
<1> USE DEF IInv
<1>1. CASE BootStart \/ ScanRecord \/ LoadBootState \/ SaveStep \/ HeaderStep
  <2>1. /\ slots' = slots /\ (dslots' = dslots \/ dslots' = slots) /\ pc' \notin Busy
        /\ UNCHANGED <<delivered, unread, fate, released>>
    BY <1>1 DEF BootStart, ScanRecord, LoadBootState, SaveStep, SaveBootState, SaveBootStateFails,
                HeaderStep, WriteHeader, CommitHeader, Sync, media, history, Busy
  <2>2. QED
    BY <2>1, MediumKept, OperationEndedKept
<1>2. CASE ScanDone
  <2>1. MInv'
    BY <1>2, MediumKept DEF ScanDone, media, history
  <2>2. CASE pc' # "init_erase"
    <3>1. pc' \notin Busy /\ UNCHANGED <<slots, dslots, fate>>
      BY <1>2, <2>2 DEF ScanDone, media, history, Busy
    <3>2. QED
      BY <3>1, <2>1, OperationEndedKept
  <2>3. CASE pc' = "init_erase"
    <3>1. (\A s \in Slots : ~RecordValid(slots[s])) /\ UNCHANGED <<slots, dslots, fate>>
      BY <1>2, <2>3 DEF ScanDone, media, history
    <3>2. PInv'
      BY <2>3, <3>1 DEF PInv, Appending, Flushing, Erasing, Fresh, Copies
    <3>3. QED
      BY <2>1, <3>2
  <2>4. QED
    BY <2>2, <2>3
<1>3. CASE InitErase
  <2>1. /\ Committed = {} /\ slots' = AllErased /\ dslots' = AllErased /\ pc' \notin Busy
        /\ UNCHANGED <<delivered, unread, fate, released>>
    BY <1>3 DEF InitErase, EraseSpool, Sync, history, PInv, Erasing, Committed, IsCommitted, Busy
  <2>2. \A s \in Slots : \A r \in Copies(s)' : r.ev = None
    BY <2>1 DEF Copies, AllErased, ErasedSlot
  <2>3. QED
    BY <2>1, <2>2, MediumErased, OperationEnded
<1>4. CASE BootFails
  <2>1. pc' \notin Busy /\ UNCHANGED <<delivered, unread, fate, released>>
    BY <1>4 DEF BootFails, history, Busy
  <2>2. CASE slots' = slots /\ dslots' = dslots
    BY <2>1, <2>2, MediumKept, OperationEndedKept
  <2>3. CASE pc = "init_erase" /\ PartialErase
    <3>1. Committed = {}
      BY <2>3 DEF PInv, Erasing, Committed, IsCommitted
    <3>2. \A s \in Slots : \A r \in Copies(s)' : r.ev = None \/ \E x \in Copies(s) : r.ev = x.ev
      BY <2>3, PartialEraseNames DEF MInv
    <3>3. QED
      BY <2>1, <2>3, <3>1, <3>2, MediumPartlyErased, OperationEnded
  <2>4. QED
    BY <1>4, <2>2, <2>3 DEF BootFails, media, NoSync
<1>5. QED
  BY <1>1, <1>2, <1>3, <1>4 DEF BootStep

(* ls_capture_event hands ls_spool_append an event that is nowhere on the    *)
(* medium, and an erased slot.                                               *)
LEMMA CaptureKeepsIInv ==
    ASSUME IInv, TypeOK', CaptureStep
    PROVE  IInv'
<1> USE DEF IInv
<1>1. PICK e \in Event, p \in 0..4, o \in {"pending", "dropped", "refused"} :
         /\ Capture(e, p, o)
         /\ IF o = "pending"
            THEN pc' = "append_header" /\ ev' = e /\ slot' \in Slots /\ slots[slot'].tag = "erased"
            ELSE pc' = pc
  <2>1. \A p \in 0..4 : \A s \in EmptySlots(p) : s \in Slots /\ slots[s].tag = "erased"
    BY SizeAssumption DEF EmptySlots, SlotLimitForPriority, Slots
  <2>2. QED
    BY <2>1, NumberAssumption DEF CaptureStep, CaptureEvent, CaptureDropped, CaptureRefused
<1>2. /\ slots' = slots /\ dslots' = dslots /\ UNCHANGED <<delivered, unread, released>>
      /\ pc = "idle" /\ fate[e] = "new" /\ fate' = [fate EXCEPT ![e] = o]
  BY <1>1 DEF Capture, media
<1>3. \A s \in Slots : \A r \in Copies(s) : r.ev # e
  BY <1>2 DEF PInv, Fresh
<1>4. MInv'
  <2> USE DEF MInv
  <2>1. \A f \in Event : f # e => fate'[f] = fate[f]
    BY <1>2 DEF TypeOK
  <2>2. fate'[e] # "accepted"
    BY <1>2 DEF TypeOK
  <2>3. RecordsNameEvents' /\ CopiesAgree' /\ OneSlotPerEvent' /\ CommittedIsComplete' /\ ReleasedNeverResent'
    BY <1>2 DEF RecordsNameEvents, CopiesAgree, OneSlotPerEvent, CommittedIsComplete,
                ReleasedNeverResent, Copies, Settled
  <2>4. NoAcceptedLoss'
    BY <1>2, <2>1, <2>2 DEF NoAcceptedLoss, Safe
  <2>5. CommittedEnded'
    <3>1. \A s \in Slots : \A r \in Copies(s) : IsCommitted(r) => r.ev \in Event
      BY DEF TypeOK, SlotType, RecordsNameEvents, Copies, IsCommitted
    <3>2. e \notin released
      BY <1>2 DEF CommittedEnded
    <3>3. \A s \in Slots : Copies(s)' = Copies(s)
      BY <1>2 DEF Copies
    <3>4. QED
      BY <1>2, <1>3, <2>1, <3>1, <3>2, <3>3, SMTT(20) DEF CommittedEnded, TypeOK
  <2>6. QED
    BY <2>3, <2>4, <2>5
<1>5. PInv'
  <2>1. CASE o = "pending"
    <3>1. pc' = "append_header" /\ ev' = e /\ slot' \in Slots /\ slots'[slot'].tag = "erased"
      BY <1>1, <1>2, <2>1
    <3>2. fate'[e] = "pending"
      BY <1>2, <2>1 DEF TypeOK
    <3>3. Appending' /\ Flushing' /\ Erasing'
      BY <3>1, <3>2 DEF Appending, Flushing, Erasing
    <3>4. Fresh'
      BY <1>2, <1>3, <3>1 DEF PInv, Fresh, Copies, TypeOK
    <3>5. QED
      BY <3>3, <3>4 DEF PInv
  <2>2. CASE o # "pending"
    <3>1. pc' \notin Busy /\ \A f \in Event : fate'[f] = "new" => fate[f] = "new"
      BY <1>1, <1>2, <2>2 DEF Busy, TypeOK
    <3>2. \A s \in Slots : Copies(s)' = Copies(s)
      BY <1>2 DEF Copies
    <3>3. QED
      BY <3>1, <3>2, OperationEnded
  <2>3. QED
    BY <2>1, <2>2
<1>6. QED
  BY <1>4, <1>5

(* ls_spool_append, whose header and payload are synced when the commit      *)
(* marker is written, and each of its failures.                              *)
LEMMA AppendKeepsIInv ==
    ASSUME IInv, TypeOK', AppendStep
    PROVE  IInv'
<1> USE DEF IInv
<1>0. /\ slot \in Slots /\ ev \in Event /\ fate[ev] = "pending" /\ ev # None
      /\ slots[slot] \in SlotType /\ ~IsCommitted(slots[slot])
  BY EventAssumption DEF AppendStep, AppendHeader, AppendPayload, AppendCommit, AppendFails, PInv,
                         Appending, IsCommitted, RecordValid, TypeOK
<1>a. UNCHANGED <<delivered, unread, released>>
  BY DEF AppendStep, AppendHeader, AppendPayload, AppendCommit, AppendFails, history
<1>b. /\ NewRecord \in SlotType /\ NewRecord.ev = ev /\ RecordValid(NewRecord) /\ ~IsCommitted(NewRecord)
      /\ NewRecord.tag = "record" /\ NewRecord.st = "open"
  BY <1>0, SizeAssumption DEF NewRecord, SlotType, RecordValid, IsCommitted
<1>1. CASE AppendHeader
  <2>1. \A s \in Slots : \A x \in Copies(s) : x.ev # ev
    BY <1>0, <1>1 DEF AppendHeader, PInv, Fresh
  <2>2. slots' = [slots EXCEPT ![slot] = NewRecord] /\ dslots' = dslots /\ fate' = fate
    BY <1>1 DEF AppendHeader, history
  <2>3. MInv'
    BY <1>0, <1>a, <1>b, <2>1, <2>2, MediumProgrammed, Zenon
  <2>4. pc' = "append_payload" /\ slot' = slot /\ ev' = ev /\ slots'[slot] = NewRecord
    BY <1>0, <1>1, <2>2 DEF AppendHeader, locals, TypeOK
  <2>5. Appending' /\ Flushing' /\ Erasing'
    BY <1>0, <1>b, <2>2, <2>4 DEF Appending, Flushing, Erasing
  <2>6. Fresh'
    <3>1. \A s \in Slots : \A r \in Copies(s)' : r \in Copies(s) \/ r.ev = ev
      BY <1>0, <1>b, <2>2 DEF Copies, TypeOK
    <3>2. QED
      BY <1>0, <2>2, <2>4, <3>1 DEF PInv, Fresh
  <2>7. QED
    BY <2>3, <2>5, <2>6 DEF PInv
<1>2. CASE AppendPayload
  <2> DEFINE r == [slots[slot] EXCEPT !.body = ev]
  <2>1. /\ slots[slot].tag = "record" /\ slots[slot].ev = ev /\ slots[slot].st = "open"
        /\ slots' = [slots EXCEPT ![slot] = r] /\ dslots' = slots' /\ fate' = fate
    BY <1>2, <1>0 DEF AppendPayload, Sync, PInv, Appending, history, TypeOK
  <2>2. r \in SlotType /\ r.tag = "record" /\ r.ev = ev /\ r.st = "open" /\ r.body = ev
    BY <1>0, <2>1 DEF SlotType
  <2> HIDE DEF r
  <2>3. MInv'
    BY <1>0, <1>a, <2>1, <2>2, MediumProgrammed, Zenon DEF RecordValid, IsCommitted
  <2>4. pc' = "append_commit" /\ slot' = slot /\ ev' = ev /\ slots'[slot] = r
    BY <1>0, <1>2, <2>1 DEF AppendPayload, locals, TypeOK
  <2>5. Appending' /\ Flushing' /\ Erasing'
    BY <1>0, <2>1, <2>2, <2>4 DEF Appending, Flushing, Erasing
  <2>6. Fresh'
    <3>1. \A s \in Slots : \A x \in Copies(s)' : x \in Copies(s) \/ x.ev = ev
      BY <1>0, <2>1, <2>2 DEF Copies, TypeOK
    <3>2. QED
      BY <1>0, <2>1, <2>4, <3>1 DEF PInv, Fresh
  <2>7. QED
    BY <2>3, <2>5, <2>6 DEF PInv
<1>3. CASE pc = "append_commit" /\ \E x \in {"open", "committed"} : slots' = [slots EXCEPT ![slot].st = x]
  <2>1. PICK x \in {"open", "committed"} : slots' = [slots EXCEPT ![slot].st = x]
    BY <1>3, Zenon
  <2> DEFINE r == [slots[slot] EXCEPT !.st = x]
  <2>2. /\ slots[slot].tag = "record" /\ slots[slot].ev = ev /\ slots[slot].st = "open"
        /\ slots[slot].body = ev /\ dslots[slot] = slots[slot] /\ slots' = [slots EXCEPT ![slot] = r]
    BY <1>0, <1>3, <2>1, Zenon DEF PInv, Appending, TypeOK
  <2>3. r \in SlotType /\ r.tag = "record" /\ r.ev = ev /\ r.st = x /\ r.body = ev
    BY <1>0, <2>2 DEF SlotType
  <2> HIDE DEF r
  <2>4. \/ dslots' = slots' /\ fate' = [fate EXCEPT ![ev] = "accepted"] /\ r.st = "committed"
        \/ dslots' = dslots /\ fate' = [fate EXCEPT ![ev] = "refused"]
    <3>1. CASE AppendCommit
      <4>1. slots'[slot].st = "committed"
        BY <3>1, <1>0 DEF AppendCommit, TypeOK, SlotType
      <4>2. slots'[slot] = r
        BY <1>0, <2>2 DEF TypeOK
      <4>3. QED
        BY <3>1, <4>1, <4>2, Zenon DEF AppendCommit, Sync
    <3>2. CASE AppendFails
      BY <3>2 DEF AppendFails
    <3>3. QED
      BY <1>3, <3>1, <3>2 DEF AppendStep, AppendHeader, AppendPayload
  <2>5. MInv'
    <3>1. CASE r.st = "committed"
      BY <1>0, <1>a, <2>2, <2>3, <2>4, <3>1, MediumCommitted, Zenon
    <3>2. CASE r.st = "open"
      <4>1. \A e \in Event : fate'[e] = fate[e] \/ fate'[e] = "refused"
        BY <2>4, <3>2 DEF TypeOK
      <4>2. dslots' = dslots
        BY <2>4, <3>2
      <4>3. QED
        BY <1>0, <1>a, <2>2, <2>3, <3>2, <4>1, <4>2, MediumProgrammed, Zenon DEF RecordValid, IsCommitted
    <3>3. QED
      BY <2>3, <3>1, <3>2
  <2>6. PInv'
    <3>1. pc' \notin Busy
      BY <1>3 DEF AppendStep, AppendHeader, AppendPayload, AppendCommit, AppendFails, Busy
    <3>2. \A e \in Event : fate'[e] = "new" => fate[e] = "new"
      BY <2>4 DEF TypeOK
    <3>3. \A s \in Slots : \A y \in Copies(s)' : \E z \in Copies(s) : y.ev = z.ev
      <4>1. \A s \in Slots : slots'[s].ev = slots[s].ev
        BY <1>0, <2>2, <2>3 DEF TypeOK
      <4>2. dslots' = slots' \/ dslots' = dslots
        BY <2>4
      <4>3. QED
        BY <4>1, <4>2 DEF Copies
    <3>4. QED
      BY <3>1, <3>2, <3>3, OperationEnded
  <2>7. QED
    BY <2>5, <2>6
<1>4. CASE AppendFails /\ pc # "append_commit"
  <2>1. /\ dslots' = dslots /\ pc' \notin Busy
        /\ \A e \in Event : fate'[e] = fate[e] \/ fate'[e] = "refused"
    BY <1>4 DEF AppendFails, Busy, TypeOK
  <2>2. PICK r \in SlotType : /\ slots' = [slots EXCEPT ![slot] = r]
                              /\ ~IsCommitted(r) /\ (RecordValid(r) <=> r.ev # None)
                              /\ \/ r.ev \in {None, slots[slot].ev}
                                 \/ r.ev = ev /\ \A s \in Slots : \A x \in Copies(s) : x.ev # r.ev
    <3>1. RecordValid(slots[slot]) <=> slots[slot].ev # None
      BY <1>0 DEF MInv, RecordsNameEvents, Copies
    <3>2. CASE pc = "append_header"
      <4>1. PICK r \in TornSlot(slots[slot], NewRecord) : slots' = [slots EXCEPT ![slot] = r]
        BY <1>4, <3>2 DEF AppendFails
      <4>2. r \in SlotType
        BY <1>0, <1>b, TornSlotType
      <4>3. \A s \in Slots : \A x \in Copies(s) : x.ev # ev
        BY <1>0, <3>2 DEF PInv, Fresh
      <4>4. /\ RecordValid(r) <=> r.ev # None
            /\ r.ev \in {None, slots[slot].ev, NewRecord.ev}
            /\ ~IsCommitted(r)
        BY <1>0, <1>b, <3>1, TornSlotFacts
      <4>5. QED
        BY <1>b, <4>1, <4>2, <4>3, <4>4, Zenon
    <3>3. CASE pc = "append_payload"
      <4>1. PICK b \in {slots[slot].body, Garbage, ev} : slots' = [slots EXCEPT ![slot].body = b]
        BY <1>4, <3>3 DEF AppendFails
      <4> DEFINE r == [slots[slot] EXCEPT !.body = b]
      <4>2. slots' = [slots EXCEPT ![slot] = r]
        BY <1>0, <4>1 DEF TypeOK
      <4>3. r \in SlotType /\ r.tag = slots[slot].tag /\ r.ev = slots[slot].ev /\ r.st = slots[slot].st
        BY <1>0 DEF SlotType
      <4> HIDE DEF r
      <4>4. ~IsCommitted(r) /\ (RecordValid(r) <=> r.ev # None)
        BY <1>0, <3>1, <4>3 DEF IsCommitted, RecordValid
      <4>5. QED
        BY <4>2, <4>3, <4>4, Zenon
    <3>4. QED
      BY <1>4, <3>2, <3>3 DEF AppendFails
  <2>3. MInv'
    BY <1>0, <1>a, <2>1, <2>2, MediumProgrammed, Zenon
  <2>4. \A s \in Slots : \A y \in Copies(s)' :
           y.ev = None \/ (\E x \in Copies(s) : y.ev = x.ev) \/ (y.ev = ev /\ fate[ev] # "new")
    BY <1>0, <2>1, <2>2 DEF Copies, TypeOK
  <2>5. QED
    BY <2>1, <2>3, <2>4, OperationEnded
<1>5. QED
  <2>1. AppendCommit => pc = "append_commit" /\ slots' = [slots EXCEPT ![slot].st = "committed"]
    BY DEF AppendCommit
  <2>2. AppendFails /\ pc = "append_commit" =>
           \E x \in {"open", "committed"} : slots' = [slots EXCEPT ![slot].st = x]
    BY DEF AppendFails
  <2>3. QED
    BY <1>1, <1>2, <1>3, <1>4, <2>1, <2>2 DEF AppendStep

(* The selection of ls_spool_flush: a record is acknowledged unsent only if  *)
(* its event is settled or could not be read.                                *)
LEMMA SelectKeepsIInv ==
    ASSUME IInv, TypeOK', FlushStart \/ SelectStep
    PROVE  IInv'
<1> USE DEF IInv
<1>1. CASE FlushStart \/ SelectDone
  <2>1. /\ slots' = slots /\ dslots' = dslots /\ pc' \notin Busy
        /\ UNCHANGED <<delivered, unread, fate, released>>
    BY <1>1 DEF FlushStart, SelectDone, media, history, Busy
  <2>2. QED
    BY <2>1, MediumKept, OperationEndedKept
<1>2. ASSUME NEW s \in Slots,
             SelectRecord(s) \/ SelectNoTransport(s) \/ SelectCorrupt(s) \/ SelectUnreadable(s)
      PROVE  IInv'
  <2>1. /\ slots' = slots /\ dslots' = dslots /\ UNCHANGED <<delivered, fate, released>>
        /\ unread \subseteq unread' /\ IsCommitted(slots[s])
    BY <1>2 DEF SelectRecord, SelectNoTransport, SelectCorrupt, SelectUnreadable, Select, Selected,
                Committed, media
  <2>2. MInv'
    BY <2>1, MediumKept
  <2>3. CASE SelectNoTransport(s)
    <3>1. pc' \notin Busy
      BY <2>3 DEF SelectNoTransport, Busy
    <3>2. QED
      BY <2>1, <2>2, <3>1, OperationEndedKept
  <2>4. CASE ~SelectNoTransport(s)
    <3>1. pc' \in {"send", "ack"} /\ slot' = s /\ ev' = slots[s].ev
      BY <1>2, <2>4 DEF SelectRecord, SelectCorrupt, SelectUnreadable, GoOnWith
    <3>2. pc' = "ack" => ev' \in Settled'
      <4>1. CASE SelectRecord(s)
        BY <4>1 DEF SelectRecord, GoOnWith
      <4>2. CASE SelectCorrupt(s)
        <5>1. slots[s].body # slots[s].ev /\ slots[s].ev \in Event
          BY <4>2, <2>1 DEF SelectCorrupt, IsCommitted, MInv, RecordsNameEvents, Copies, TypeOK, SlotType
        <5>2. slots[s].ev \in Settled
          BY <2>1, <5>1 DEF MInv, CommittedIsComplete, Settled
        <5>3. QED
          BY <2>1, <3>1, <5>2 DEF Settled
      <4>3. CASE SelectUnreadable(s)
        BY <4>3, <3>1 DEF SelectUnreadable, Settled
      <4>4. QED
        BY <1>2, <2>4, <4>1, <4>2, <4>3
    <3>3. Appending' /\ Flushing' /\ Erasing'
      BY <2>1, <3>1, <3>2 DEF Appending, Flushing, Erasing
    <3>4. Fresh'
      BY <2>1, <3>1 DEF PInv, Fresh, Copies
    <3>5. QED
      BY <2>2, <3>3, <3>4 DEF PInv
  <2>5. QED
    BY <2>3, <2>4
<1>3. QED
  BY <1>1, <1>2 DEF SelectStep
=============================================================================
